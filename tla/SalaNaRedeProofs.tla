------------------------- MODULE SalaNaRedeProofs ---------------------------
(***************************************************************************)
(* Theorems of SalaNaRede, for any Salas, Players, limits and bounds:      *)
(* whatever the pages ask and however their sockets fall, the Salas only   *)
(* change by commands of LobbyEngine, so that what is proved of the engine *)
(* holds of them; and a connected Membro has an open socket whose closing  *)
(* the fan-out will notice.                                                *)
(*                                                                         *)
(* The second is not inductive: a command may touch the maps of a socket   *)
(* through the group of a Sala its Player is no longer in.  The invariant  *)
(* (Rede) says of each Player which groups may hold its socket: the one    *)
(* of its Sala, which is the one its maps name, and those of the Salas     *)
(* that kept it (sobras), until one of these is over.                      *)
(***************************************************************************)
EXTENDS SalaNaRede, LobbyEngineProofs, SequenceTheorems

(* The Salas of k, those that show it connected and the groups that hold   *)
(* its socket.                                                             *)
Conectados(sala) ==
  {m.jogador : m \in {n \in Ativos(sala) : n.presenca = "conectado"}}
SalasDe     == [k \in Jogadores |-> {s \in Salas : k \in JogadoresAtivos(salas[s])}]
ConectadoEm == [k \in Jogadores |-> {s \in Salas : k \in Conectados(salas[s])}]
GruposDe    == [k \in Jogadores |-> {s \in Salas : k \in emissor.grupos[s]}]

Emissor ==
  [grupos : [Salas -> SUBSET Jogadores], sala : [Jogadores -> Salas \cup {Nada}],
   mortos : [Jogadores -> Salas \cup {Nada}], sobras : [Jogadores -> SUBSET Salas]]

(* A command names a Sala where it must.                                   *)
PedidosDe(P) ==
  /\ pedidos \in [Jogadores -> Seq(P)]
  /\ \A p \in P : p.tipo = "ENTRAR_NA_SALA" => p.arg \in Salas
PedidosTipados == \E P : PedidosDe(P)

TipoDaRede ==
  /\ emissor \in Emissor
  /\ ligacao \in [Jogadores -> {"aberta", "fechada"}]
  /\ PedidosTipados

(* The maps and the groups hold open sockets only.                         *)
Fechado(k) ==
  ligacao[k] = "fechada" => emissor.sala[k] = Nada /\ GruposDe[k] = {}

(* PresencaSegueSocket, with what a dead socket in the maps of the very    *)
(* Sala, and only it, excuses.                                             *)
Notado(k) ==
  \A s \in ConectadoEm[k] :
    emissor.mortos[k] # s /\ emissor.sobras[k] \subseteq {s}
      => ligacao[k] = "aberta" /\ emissor.sala[k] = s /\ s \in GruposDe[k]

(* A Sala that kept the socket is over: its end took the maps of whoever   *)
(* was in its group, whatever Sala they named.                             *)
Perdido(k) == \E s \in emissor.sobras[k] : salas[s].estado \in Terminal

NoGrupo(k) ==
  /\ emissor.sala[k] # Nada => emissor.sala[k] \in GruposDe[k]
  /\ \A s \in GruposDe[k] :
       s \in emissor.sobras[k] \/ (s \in SalasDe[k] /\ emissor.sala[k] = s)

Rede(k) == Fechado(k) /\ Notado(k) /\ (Perdido(k) \/ NoGrupo(k))

IInvDaRede == IInv /\ TipoDaRede /\ \A k \in Jogadores : Rede(k)

-----------------------------------------------------------------------------
(* What a step may do to one Player.                                       *)

(* It is about others.                                                     *)
Alheio(k) ==
  /\ ligacao'[k] = ligacao[k]
  /\ emissor'.sala[k] = emissor.sala[k] /\ emissor'.mortos[k] = emissor.mortos[k]
  /\ emissor'.sobras[k] = emissor.sobras[k] /\ GruposDe'[k] = GruposDe[k]
  /\ SalasDe'[k] = SalasDe[k] /\ ConectadoEm'[k] \subseteq ConectadoEm[k]

(* Its socket is registered in its Sala s, from another group or, new,     *)
(* from none.                                                              *)
Chega(k, s) ==
  /\ ligacao'[k] = "aberta" /\ SalasDe'[k] = {s}
  /\ emissor'.sala[k] = s /\ GruposDe'[k] = GruposDe[k] \cup {s}
  /\ \/ emissor'.sobras[k] = emissor.sobras[k] \ {s} /\ SalasDe[k] \subseteq {s}
     \/ emissor'.sobras[k] = {} /\ GruposDe[k] = {}

(* It leaves its Sala, and its socket the group the maps name.             *)
Larga(k) ==
  /\ ligacao'[k] = ligacao[k] /\ SalasDe'[k] = {}
  /\ emissor'.sala[k] = Nada /\ GruposDe'[k] = GruposDe[k] \ {emissor.sala[k]}
  /\ emissor'.sobras[k] = emissor.sobras[k]

(* It is out of its Sala, and its socket stays where it was.               *)
Sobra(k) ==
  /\ ligacao'[k] = ligacao[k] /\ SalasDe'[k] = {}
  /\ emissor'.sala[k] = emissor.sala[k] /\ GruposDe'[k] = GruposDe[k]
  /\ emissor'.sobras[k] = emissor.sobras[k] \cup (SalasDe[k] \cap GruposDe[k])

(* The Sala s is over and its group with it.                               *)
Desfaz(k, s) ==
  /\ ligacao'[k] = ligacao[k] /\ salas'[s].estado \in Terminal
  /\ SalasDe'[k] = SalasDe[k] \ {s} /\ ConectadoEm'[k] \subseteq ConectadoEm[k] \ {s}
  /\ emissor'.sala[k] = IF s \in GruposDe[k] THEN Nada ELSE emissor.sala[k]
  /\ GruposDe'[k] = GruposDe[k] \ {s}
  /\ emissor'.mortos[k] = IF emissor.mortos[k] = s THEN Nada ELSE emissor.mortos[k]
  /\ emissor'.sobras[k] = emissor.sobras[k]

(* Its socket closes.                                                      *)
SemLigacao(k) ==
  /\ ligacao'[k] = "fechada" /\ emissor'.sala[k] = Nada /\ GruposDe'[k] = {}
  /\ \A s \in ConectadoEm'[k] :
       emissor'.mortos[k] # s => ~ (emissor'.sobras[k] \subseteq {s})

(* A new socket of a Player of no Sala.                                    *)
Avulso(k) ==
  /\ ligacao[k] = "fechada" /\ ligacao'[k] = "aberta" /\ SalasDe'[k] = {}
  /\ emissor'.sala[k] = emissor.sala[k] /\ GruposDe'[k] = GruposDe[k]

TerminaisFicam ==
  \A s \in Salas : salas[s].estado \in Terminal => salas'[s].estado \in Terminal

(* A Player is in one Sala at most, and in none that is over.              *)
LEMMA UmaSala ==
  ASSUME IInv, NEW k \in Jogadores
  PROVE  /\ \A s, t \in SalasDe[k] : s = t
         /\ \A s \in SalasDe[k] : salas[s].estado \notin Terminal
         /\ ConectadoEm[k] \subseteq SalasDe[k]
<1>1. \A s, t \in SalasDe[k] : s = t
  BY DEF IInv, SalasDe
<1>2. \A s \in SalasDe[k] : salas[s].estado \notin Terminal
  <2> SUFFICES ASSUME NEW s \in SalasDe[k] PROVE salas[s].estado \notin Terminal
    OBVIOUS
  <2>1. Ativos(salas[s]) # {}
    BY DEF SalasDe, JogadoresAtivos
  <2>2. salas[s].estado \in Viva
    BY <2>1 DEF IInv, SalaIntegra, AnfitriaoDaSala, SalasDe
  <2>3. QED
    BY <2>2 DEF Viva, Terminal
<1>3. ConectadoEm[k] \subseteq SalasDe[k]
  BY DEF ConectadoEm, Conectados, SalasDe, JogadoresAtivos
<1>4. QED
  BY <1>1, <1>2, <1>3

LEMMA UmaSalaDepois ==
  ASSUME IInv', NEW k \in Jogadores
  PROVE  /\ \A s, t \in SalasDe'[k] : s = t
         /\ \A s \in SalasDe'[k] : salas'[s].estado \notin Terminal
         /\ ConectadoEm'[k] \subseteq SalasDe'[k]
<1>1. \A s, t \in SalasDe'[k] : s = t
  BY DEF IInv, SalasDe
<1>2. \A s \in SalasDe'[k] : salas'[s].estado \notin Terminal
  <2> SUFFICES ASSUME NEW s \in SalasDe'[k] PROVE salas'[s].estado \notin Terminal
    OBVIOUS
  <2>1. Ativos(salas'[s]) # {}
    BY DEF SalasDe, JogadoresAtivos
  <2>2. salas'[s].estado \in Viva
    BY <2>1 DEF IInv, SalaIntegra, AnfitriaoDaSala, SalasDe
  <2>3. QED
    BY <2>2 DEF Viva, Terminal
<1>3. ConectadoEm'[k] \subseteq SalasDe'[k]
  BY DEF ConectadoEm, Conectados, SalasDe, JogadoresAtivos
<1>4. QED
  BY <1>1, <1>2, <1>3

(* Each of them keeps the invariant of the Player.                         *)
LEMMA PerdidoFica ==
  ASSUME NEW k \in Jogadores, TipoDaRede, TerminaisFicam, Perdido(k),
         \A s \in Salas : s \in emissor.sobras[k] /\ salas'[s].estado \in Terminal
                            => s \in emissor'.sobras[k]
  PROVE  Perdido(k)'
<1>1. emissor.sobras[k] \subseteq Salas
  BY DEF TipoDaRede, Emissor
<1>2. QED
  BY <1>1 DEF Perdido, TerminaisFicam

LEMMA AlheioFica ==
  ASSUME IInv, TipoDaRede, TerminaisFicam, NEW k \in Jogadores, Rede(k), Alheio(k)
  PROVE  Rede(k)'
<1>1. Fechado(k)' /\ Notado(k)'
  BY DEF Rede, Fechado, Notado, Alheio
<1>2. NoGrupo(k) => NoGrupo(k)'
  BY DEF NoGrupo, Alheio
<1>3. Perdido(k) => Perdido(k)'
  BY PerdidoFica DEF Alheio
<1>4. QED
  BY <1>1, <1>2, <1>3 DEF Rede

LEMMA ChegaFica ==
  ASSUME IInv, IInv', TipoDaRede, TerminaisFicam, NEW k \in Jogadores, NEW s \in Salas,
         Rede(k), Chega(k, s)
  PROVE  Rede(k)'
<1>1. Fechado(k)' /\ Notado(k)'
  BY UmaSalaDepois DEF Fechado, Notado, Chega
<1>2. salas'[s].estado \notin Terminal
  BY UmaSalaDepois DEF Chega
<1>3. CASE emissor'.sobras[k] = emissor.sobras[k] \ {s} /\ SalasDe[k] \subseteq {s}
  <2>1. NoGrupo(k) => NoGrupo(k)'
    BY <1>3 DEF NoGrupo, Chega
  <2>2. Perdido(k) => Perdido(k)'
    BY <1>2, <1>3, PerdidoFica
  <2>3. QED
    BY <1>1, <2>1, <2>2 DEF Rede
<1>4. CASE emissor'.sobras[k] = {} /\ GruposDe[k] = {}
  <2>1. NoGrupo(k)'
    BY <1>4 DEF NoGrupo, Chega
  <2>2. QED
    BY <1>1, <2>1 DEF Rede
<1>5. QED
  BY <1>3, <1>4 DEF Chega

LEMMA LargaFica ==
  ASSUME IInv, IInv', TipoDaRede, TerminaisFicam, NEW k \in Jogadores, Rede(k), Larga(k)
  PROVE  Rede(k)'
<1>1. Fechado(k)' /\ Notado(k)'
  BY UmaSalaDepois DEF Rede, Fechado, Notado, Larga
<1>2. NoGrupo(k) => NoGrupo(k)'
  BY DEF NoGrupo, Larga
<1>3. Perdido(k) => Perdido(k)'
  BY PerdidoFica DEF Larga
<1>4. QED
  BY <1>1, <1>2, <1>3 DEF Rede

LEMMA SobraFica ==
  ASSUME IInv, IInv', TipoDaRede, TerminaisFicam, NEW k \in Jogadores, Rede(k), Sobra(k)
  PROVE  Rede(k)'
<1>1. Fechado(k)' /\ Notado(k)'
  BY UmaSalaDepois DEF Rede, Fechado, Notado, Sobra
<1>2. NoGrupo(k) => NoGrupo(k)'
  BY DEF NoGrupo, Sobra
<1>3. Perdido(k) => Perdido(k)'
  BY PerdidoFica DEF Sobra
<1>4. QED
  BY <1>1, <1>2, <1>3 DEF Rede

LEMMA DesfazFica ==
  ASSUME IInv, TipoDaRede, TerminaisFicam, NEW k \in Jogadores, NEW s \in Salas,
         Rede(k), Desfaz(k, s)
  PROVE  Rede(k)'
<1>1. Fechado(k)'
  BY DEF Rede, Fechado, Desfaz
<1>2. Perdido(k) => Perdido(k)'
  BY PerdidoFica DEF Desfaz
<1>3. NoGrupo(k) => Perdido(k)' \/ NoGrupo(k)'
  <2> SUFFICES ASSUME NoGrupo(k) PROVE Perdido(k)' \/ NoGrupo(k)'
    OBVIOUS
  <2>1. CASE s \notin GruposDe[k]
    BY <2>1 DEF NoGrupo, Desfaz
  <2>2. CASE s \in emissor.sobras[k]
    BY <2>2 DEF Perdido, Desfaz
  <2>3. CASE s \in GruposDe[k] /\ s \in SalasDe[k]
    BY <2>3, UmaSala DEF NoGrupo, Desfaz
  <2>4. QED
    BY <2>1, <2>2, <2>3 DEF NoGrupo
<1>4. Notado(k)'
  <2> SUFFICES ASSUME NEW t \in ConectadoEm'[k],
                      emissor'.mortos[k] # t, emissor'.sobras[k] \subseteq {t}
               PROVE  ligacao'[k] = "aberta" /\ emissor'.sala[k] = t /\ t \in GruposDe'[k]
    BY DEF Notado
  <2>1. t \in ConectadoEm[k] /\ t # s /\ emissor.sobras[k] \subseteq {t} /\ emissor.mortos[k] # t
    BY DEF Desfaz
  <2>2. t \in SalasDe[k] /\ salas[t].estado \notin Terminal /\ s \notin SalasDe[k]
    BY <2>1, UmaSala
  <2>3. ~ Perdido(k)
    BY <2>1, <2>2 DEF Perdido
  <2>4. s \notin GruposDe[k]
    BY <2>1, <2>2, <2>3 DEF Rede, NoGrupo
  <2>5. ligacao[k] = "aberta" /\ emissor.sala[k] = t /\ t \in GruposDe[k]
    BY <2>1 DEF Rede, Notado
  <2>6. QED
    BY <2>1, <2>4, <2>5 DEF Desfaz
<1>5. QED
  BY <1>1, <1>2, <1>3, <1>4 DEF Rede

LEMMA SemLigacaoFica ==
  ASSUME NEW k \in Jogadores, SemLigacao(k)
  PROVE  Rede(k)'
  BY DEF Rede, Fechado, Notado, NoGrupo, SemLigacao

LEMMA AvulsoFica ==
  ASSUME IInv', NEW k \in Jogadores, Rede(k), Avulso(k)
  PROVE  Rede(k)'
<1>1. emissor.sala[k] = Nada /\ GruposDe[k] = {}
  BY DEF Rede, Fechado, Avulso
<1>2. QED
  BY <1>1, UmaSalaDepois DEF Rede, Fechado, Notado, NoGrupo, Avulso

-----------------------------------------------------------------------------
(* What the commands of the engine do to the Players of a Sala: some leave *)
(* it, some come in or come back, and nobody else gets connected.          *)

Troca(sala, nova, saem, vem) ==
  /\ JogadoresAtivos(nova) = (JogadoresAtivos(sala) \ saem) \cup vem
  /\ Conectados(nova) \subseteq Conectados(sala) \cup vem

(* Seen from the Players: some are out, some are in, the rest stays.       *)
Movimento(s, saem, vem) ==
  \A k \in Jogadores :
    /\ k \notin saem /\ k \notin vem =>
         SalasDe'[k] = SalasDe[k] /\ ConectadoEm'[k] \subseteq ConectadoEm[k]
    /\ k \in saem /\ k \notin vem => SalasDe[k] = {s} /\ SalasDe'[k] = {}
    /\ k \in vem /\ SalasDe[k] \subseteq {s} => SalasDe'[k] = {s}

LEMMA TrocaApos ==
  ASSUME IInv, NEW s \in Salas, NEW nova, Substituir(s, nova), NEW saem, NEW vem,
         saem \subseteq JogadoresAtivos(salas[s]), Troca(salas[s], nova, saem, vem)
  PROVE  Movimento(s, saem, vem)
<1>1. \A t \in Salas : salas'[t] = IF t = s THEN nova ELSE salas[t]
  BY SoUmaMuda
<1>2. SUFFICES ASSUME NEW k \in Jogadores
      PROVE /\ k \notin saem /\ k \notin vem =>
                 SalasDe'[k] = SalasDe[k] /\ ConectadoEm'[k] \subseteq ConectadoEm[k]
            /\ k \in saem /\ k \notin vem => SalasDe[k] = {s} /\ SalasDe'[k] = {}
            /\ k \in vem /\ SalasDe[k] \subseteq {s} => SalasDe'[k] = {s}
  BY DEF Movimento
<1>3. SalasDe'[k] = IF k \in JogadoresAtivos(nova)
                    THEN SalasDe[k] \cup {s} ELSE SalasDe[k] \ {s}
  BY <1>1 DEF SalasDe
<1>4. ConectadoEm'[k] = IF k \in Conectados(nova)
                        THEN ConectadoEm[k] \cup {s} ELSE ConectadoEm[k] \ {s}
  BY <1>1 DEF ConectadoEm
<1>5. /\ k \in JogadoresAtivos(salas[s]) <=> s \in SalasDe[k]
      /\ k \in Conectados(salas[s]) <=> s \in ConectadoEm[k]
  BY DEF SalasDe, ConectadoEm
<1>6. k \in saem => SalasDe[k] = {s}
  BY <1>5, UmaSala
<1>7. k \notin saem /\ k \notin vem =>
        SalasDe'[k] = SalasDe[k] /\ ConectadoEm'[k] \subseteq ConectadoEm[k]
  BY <1>3, <1>4, <1>5 DEF Troca
<1>8. k \in saem /\ k \notin vem => SalasDe'[k] = {}
  BY <1>3, <1>6 DEF Troca
<1>9. k \in vem /\ SalasDe[k] \subseteq {s} => SalasDe'[k] = {s}
  BY <1>3 DEF Troca
<1>10. QED
  BY <1>6, <1>7, <1>8, <1>9

(* The same links but some that leave.                                     *)
LEMMA SaidaTroca ==
  ASSUME NEW sala, SalaIntegra(sala), NEW saidas \in SUBSET Ativos(sala),
         NEW nova, Ativos(nova) = Ativos(sala) \ saidas,
         NEW saem, saem = {m.jogador : m \in saidas}
  PROVE  Troca(sala, nova, saem, {})
<1>1. \A m, n \in Ativos(sala) : m.jogador = n.jogador => m = n
  BY DEF SalaIntegra, VinculosDaSala
<1>2. JogadoresAtivos(nova) = JogadoresAtivos(sala) \ saem
  BY <1>1 DEF JogadoresAtivos
<1>3. Conectados(nova) \subseteq Conectados(sala)
  BY DEF Conectados
<1>4. QED
  BY <1>2, <1>3 DEF Troca

LEMMA ComSaidaTroca ==
  ASSUME NEW sala, SalaIntegra(sala), NEW m \in Ativos(sala),
         NEW motivo \in Motivos, NEW final \in Terminal
  PROVE  Troca(sala, ComSaida(sala, m, motivo, final), {m.jogador}, {})
<1>1. Ativos(ComSaida(sala, m, motivo, final)) = Ativos(sala) \ {m}
  BY ComSaidaIntegra
<1>2. {m} \in SUBSET Ativos(sala) /\ {n.jogador : n \in {m}} = {m.jogador}
  OBVIOUS
<1>3. QED
  BY <1>1, <1>2, SaidaTroca

LEMMA ExpulsaoTroca ==
  ASSUME NEW sala, SalaIntegra(sala), TemAnfitriao(sala),
         NEW alvo \in Ativos(sala), ~ EhAnfitriao(sala, alvo)
  PROVE  Troca(sala, ComExpulsao(sala, alvo), {alvo.jogador}, {})
<1>1. Ativos(ComExpulsao(sala, alvo)) = Ativos(sala) \ {alvo}
  BY ExpulsaoIntegra
<1>2. {alvo} \in SUBSET Ativos(sala) /\ {n.jogador : n \in {alvo}} = {alvo.jogador}
  OBVIOUS
<1>3. QED
  BY <1>1, <1>2, SaidaTroca

LEMMA EncerradaTroca ==
  ASSUME NEW sala, SalaIntegra(sala)
  PROVE  Troca(sala, SalaEncerrada(sala), JogadoresAtivos(sala), {})
<1>1. Ativos(SalaEncerrada(sala)) = Ativos(sala) \ Ativos(sala)
  BY SalaEncerradaIntegra
<1>2. {n.jogador : n \in Ativos(sala)} = JogadoresAtivos(sala)
  BY DEF JogadoresAtivos
<1>3. QED
  BY <1>1, <1>2, SaidaTroca

LEMMA ReabertaTroca ==
  ASSUME NEW sala, SalaIntegra(sala), NEW saidas, PodeReabrir(sala, saidas)
  PROVE  Troca(sala, SalaReaberta(sala, saidas), {m.jogador : m \in saidas}, {})
<1> DEFINE nova == SalaReaberta(sala, saidas)
           meio == Encerrar(sala.membros, saidas, "saida")
<1>1. sala \in Sala /\ saidas \in SUBSET Ativos(sala) /\ "saida" \in Motivos
  BY DEF SalaIntegra, PodeReabrir, Motivos
<1>2. JogadoresAtivos(nova) = {m.jogador : m \in Ativos(sala) \ saidas}
  BY SalaReabertaIntegra
<1>3. JogadoresAtivos(nova) = JogadoresAtivos(sala) \ {m.jogador : m \in saidas}
  BY <1>1, <1>2 DEF JogadoresAtivos, SalaIntegra, VinculosDaSala
<1>4. nova.membros = {NaoPronto(m) : m \in meio}
  BY <1>1 DEF SalaReaberta, Sala
<1>5. /\ meio \in SUBSET Membro
      /\ {m \in meio : m.estado = "ativo"} = Ativos(sala) \ saidas
  BY <1>1, EncerrarCorreto DEF Sala, Ativos
<1>6. \A m \in Membro : NaoPronto(m).presenca = m.presenca
  BY DEF NaoPronto, Membro
<1>7. \A n \in Ativos(nova) :
        \E m \in Ativos(sala) : m.jogador = n.jogador /\ m.presenca = n.presenca
  BY <1>4, <1>5, <1>6, VinculoReiniciado DEF Ativos
<1>8. Conectados(nova) \subseteq Conectados(sala)
  BY <1>7 DEF Conectados
<1>9. QED
  BY <1>3, <1>8 DEF Troca

(* One active link takes other marks.                                      *)
LEMMA MarcaTroca ==
  ASSUME NEW sala, SalaIntegra(sala), NEW m \in Ativos(sala),
         NEW k, k.jogador = m.jogador, k.estado = m.estado,
         NEW nova, nova.membros = (sala.membros \ {m}) \cup {k}
  PROVE  /\ k.presenca = m.presenca => Troca(sala, nova, {}, {})
         /\ k.presenca = "em_reconexao" =>
              Troca(sala, nova, {}, {}) /\ m.jogador \notin Conectados(nova)
         /\ Troca(sala, nova, {}, {m.jogador})
<1>1. Ativos(nova) = (Ativos(sala) \ {m}) \cup {k}
  BY DEF Ativos
<1>2. \A n \in Ativos(sala) : n.jogador = m.jogador => n = m
  BY DEF SalaIntegra, VinculosDaSala
<1>3. JogadoresAtivos(nova) = JogadoresAtivos(sala) /\ m.jogador \in JogadoresAtivos(sala)
  BY <1>1 DEF JogadoresAtivos
<1>4. Conectados(nova) \subseteq Conectados(sala) \cup {m.jogador}
  BY <1>1 DEF Conectados
<1>5. k.presenca = m.presenca => Conectados(nova) \subseteq Conectados(sala)
  BY <1>1 DEF Conectados
<1>6. k.presenca = "em_reconexao" =>
        Conectados(nova) \subseteq Conectados(sala) /\ m.jogador \notin Conectados(nova)
  BY <1>1, <1>2 DEF Conectados
<1>7. QED
  BY <1>3, <1>4, <1>5, <1>6 DEF Troca

LEMMA ComPresencaTroca ==
  ASSUME NEW sala, SalaIntegra(sala), NEW m \in Ativos(sala)
  PROVE  /\ Troca(sala, ComPresenca(sala, m, "conectado"), {}, {m.jogador})
         /\ Troca(sala, ComPresenca(sala, m, "em_reconexao"), {}, {})
         /\ m.jogador \notin Conectados(ComPresenca(sala, m, "em_reconexao"))
<1>1. m \in Membro /\ sala \in Sala
  BY DEF SalaIntegra, Sala, Ativos
<1>2. ASSUME NEW p \in Presencas
      PROVE  \E k : /\ k.jogador = m.jogador /\ k.estado = m.estado /\ k.presenca = p
                    /\ ComPresenca(sala, m, p).membros = (sala.membros \ {m}) \cup {k}
  BY <1>1 DEF Membro, Sala, ComPresenca
<1>3. Troca(sala, ComPresenca(sala, m, "conectado"), {}, {m.jogador})
  <2>1. PICK k : /\ k.jogador = m.jogador /\ k.estado = m.estado
                 /\ ComPresenca(sala, m, "conectado").membros = (sala.membros \ {m}) \cup {k}
    BY <1>2 DEF Presencas
  <2>2. QED
    BY <2>1, MarcaTroca
<1>4. /\ Troca(sala, ComPresenca(sala, m, "em_reconexao"), {}, {})
      /\ m.jogador \notin Conectados(ComPresenca(sala, m, "em_reconexao"))
  <2>1. PICK k : /\ k.jogador = m.jogador /\ k.estado = m.estado
                 /\ k.presenca = "em_reconexao"
                 /\ ComPresenca(sala, m, "em_reconexao").membros = (sala.membros \ {m}) \cup {k}
    BY <1>2 DEF Presencas
  <2>2. QED
    BY <2>1, MarcaTroca
<1>5. QED
  BY <1>3, <1>4

LEMMA ComProntidaoTroca ==
  ASSUME NEW sala, SalaIntegra(sala), NEW m \in Ativos(sala)
  PROVE  Troca(sala, ComProntidaoAlternada(sala, m), {}, {})
<1> DEFINE k == [m EXCEPT !.pronto = ~ @]
<1>1. m \in Membro /\ sala \in Sala
  BY DEF SalaIntegra, Sala, Ativos
<1>2. k.jogador = m.jogador /\ k.estado = m.estado /\ k.presenca = m.presenca
  BY <1>1 DEF Membro
<1>3. ComProntidaoAlternada(sala, m).membros = (sala.membros \ {m}) \cup {k}
  BY <1>1 DEF Sala, ComProntidaoAlternada
<1> HIDE DEF k
<1>4. QED
  BY <1>2, <1>3, MarcaTroca

LEMMA MesmosMembrosTroca ==
  ASSUME NEW sala, NEW nova, nova.membros = sala.membros
  PROVE  Troca(sala, nova, {}, {})
  BY DEF Troca, JogadoresAtivos, Conectados, Ativos

LEMMA ComEntradaTroca ==
  ASSUME NEW sala, SalaIntegra(sala), NEW j \in Jogadores
  PROVE  Troca(sala, ComEntrada(sala, j), {}, {j})
<1>1. Ativos(ComEntrada(sala, j)) = Ativos(sala) \cup {MembroAtivo(j, sala.proxima)}
  BY EntradaGuarda DEF SalaIntegra
<1>2. MembroAtivo(j, sala.proxima).jogador = j
  BY DEF MembroAtivo
<1>3. QED
  BY <1>1, <1>2 DEF Troca, JogadoresAtivos, Conectados

LEMMA CriadaTroca ==
  ASSUME NEW sala, Ativos(sala) = {}, NEW j \in Jogadores
  PROVE  Troca(sala, SalaCriada(j), {}, {j})
<1>1. Ativos(SalaCriada(j)) = {MembroAtivo(j, 1)}
  BY DEF SalaCriada, Ativos, MembroAtivo
<1>2. MembroAtivo(j, 1).jogador = j
  BY DEF MembroAtivo
<1>3. QED
  BY <1>1, <1>2 DEF Troca, JogadoresAtivos, Conectados

-----------------------------------------------------------------------------
(* What the fan-out does to the socket of each Player.                     *)

(* The socket of k is as it was.                                           *)
Intocado(k) ==
  /\ emissor'.sala[k] = emissor.sala[k] /\ emissor'.mortos[k] = emissor.mortos[k]
  /\ emissor'.sobras[k] = emissor.sobras[k] /\ GruposDe'[k] = GruposDe[k]

LEMMA EmissorNovo ==
  ASSUME NEW g \in [Salas -> SUBSET Jogadores], NEW a \in [Jogadores -> Salas \cup {Nada}],
         NEW mo \in [Jogadores -> Salas \cup {Nada}], NEW so \in [Jogadores -> SUBSET Salas],
         emissor' = [grupos |-> g, sala |-> a, mortos |-> mo, sobras |-> so]
  PROVE  /\ emissor' \in Emissor
         /\ emissor'.grupos = g /\ emissor'.sala = a
         /\ emissor'.mortos = mo /\ emissor'.sobras = so
  BY DEF Emissor

(* Only the socket of j may be touched.                                    *)
LEMMA SoODe ==
  ASSUME NEW j, NEW g, NEW a, NEW mo, NEW so,
         emissor'.grupos = g, emissor'.sala = a, emissor'.mortos = mo, emissor'.sobras = so,
         \A s \in Salas : g[s] \ {j} = emissor.grupos[s] \ {j},
         \A k \in Jogadores \ {j} : /\ a[k] = emissor.sala[k] /\ mo[k] = emissor.mortos[k]
                                    /\ so[k] = emissor.sobras[k]
  PROVE  \A k \in Jogadores \ {j} : Intocado(k)
<1>1. \A k \in Jogadores \ {j} : \A s \in Salas :
        k \in emissor'.grupos[s] <=> k \in emissor.grupos[s]
  OBVIOUS
<1>2. QED
  BY <1>1 DEF Intocado, GruposDe

LEMMA MesmoEmissor ==
  ASSUME emissor' = emissor
  PROVE  \A k \in Jogadores : Intocado(k)
  BY DEF Intocado, GruposDe

LEMMA RegistradoCorreto ==
  ASSUME emissor \in Emissor, NEW j \in Jogadores, NEW s \in Salas,
         emissor' = Registrado(j, s)
  PROVE  /\ emissor' \in Emissor
         /\ \A k \in Jogadores \ {j} : Intocado(k)
         /\ emissor'.sala[j] = s /\ emissor'.sobras[j] = emissor.sobras[j] \ {s}
         /\ GruposDe'[j] = GruposDe[j] \cup {s}
<1>1. emissor' = [grupos |-> [emissor.grupos EXCEPT ![s] = @ \cup {j}],
                  sala |-> [emissor.sala EXCEPT ![j] = s], mortos |-> emissor.mortos,
                  sobras |-> [emissor.sobras EXCEPT ![j] = @ \ {s}]]
  BY DEF Registrado, Emissor
<1>2. QED
  BY <1>1 DEF Emissor, Intocado, GruposDe

LEMMA ComSobrasCorreto ==
  ASSUME emissor \in Emissor, NEW s \in Salas, NEW foram, emissor' = ComSobras(s, foram)
  PROVE  /\ emissor' \in Emissor
         /\ \A k \in Jogadores \ foram : Intocado(k)
         /\ \A k \in Jogadores \cap foram :
              /\ emissor'.sala[k] = emissor.sala[k] /\ GruposDe'[k] = GruposDe[k]
              /\ emissor'.sobras[k] = emissor.sobras[k] \cup ({s} \cap GruposDe[k])
<1>1. emissor' = [grupos |-> emissor.grupos, sala |-> emissor.sala, mortos |-> emissor.mortos,
                  sobras |-> [j \in Jogadores |->
                     IF j \in foram \cap emissor.grupos[s]
                     THEN emissor.sobras[j] \cup {s} ELSE emissor.sobras[j]]]
  BY DEF ComSobras, Emissor
<1>2. QED
  BY <1>1 DEF Emissor, Intocado, GruposDe

LEMMA SemSocketCorreto ==
  ASSUME emissor \in Emissor, NEW j \in Jogadores,
         emissor' \in {SemSocket(j), SemSocketsDe(j)}
  PROVE  /\ emissor' \in Emissor
         /\ \A k \in Jogadores \ {j} : Intocado(k)
         /\ emissor'.sala[j] = Nada /\ emissor'.sobras[j] = emissor.sobras[j]
         /\ GruposDe'[j] = GruposDe[j] \ {emissor.sala[j]}
<1> DEFINE g == IF emissor.sala[j] = Nada THEN emissor.grupos
                ELSE [emissor.grupos EXCEPT ![emissor.sala[j]] = @ \ {j}]
           a == [emissor.sala EXCEPT ![j] = Nada]
<1>1. PICK mo \in [Jogadores -> Salas \cup {Nada}] :
        /\ \A k \in Jogadores \ {j} : mo[k] = emissor.mortos[k]
        /\ emissor' = [grupos |-> g, sala |-> a, mortos |-> mo, sobras |-> emissor.sobras]
  <2>1. SemSocket(j) = [grupos |-> g, sala |-> a, mortos |-> emissor.mortos,
                        sobras |-> emissor.sobras]
    BY DEF SemSocket, Emissor
  <2>2. CASE emissor' = SemSocket(j)
    BY <2>1, <2>2 DEF Emissor
  <2>3. CASE emissor' = SemSocketsDe(j)
    <3> DEFINE mo == [emissor.mortos EXCEPT ![j] = Nada]
    <3>1. mo \in [Jogadores -> Salas \cup {Nada}] /\ \A k \in Jogadores \ {j} : mo[k] = emissor.mortos[k]
      BY DEF Emissor
    <3>2. emissor' = [SemSocket(j) EXCEPT !.mortos = mo]
      BY <2>1, <2>3 DEF SemSocketsDe
    <3>3. emissor' = [grupos |-> g, sala |-> a, mortos |-> mo, sobras |-> emissor.sobras]
      <4> HIDE DEF g, a, mo
      <4>1. emissor' = [[grupos |-> g, sala |-> a, mortos |-> emissor.mortos,
                         sobras |-> emissor.sobras] EXCEPT !.mortos = mo]
        BY <2>1, <3>2, Zenon
      <4>2. QED
        BY <4>1
    <3> HIDE DEF g, a, mo
    <3>4. QED
      BY <3>1, <3>3
  <2>4. QED
    BY <2>2, <2>3
<1>2. emissor.sala[j] \in Salas \cup {Nada} /\ GruposDe[j] \subseteq Salas
  BY DEF Emissor, GruposDe
<1>3. emissor' \in Emissor /\ \A k \in Jogadores \ {j} : Intocado(k)
  BY <1>1, <1>2 DEF Emissor, Intocado, GruposDe
<1>4. GruposDe'[j] = GruposDe[j] \ {emissor.sala[j]}
  BY <1>1, <1>2, NadaAssumption DEF Emissor, GruposDe
<1>5. QED
  BY <1>1, <1>3, <1>4 DEF Emissor

LEMMA SemSalaCorreto ==
  ASSUME emissor \in Emissor, NEW s \in Salas, emissor' = SemSala(s)
  PROVE  /\ emissor' \in Emissor
         /\ \A k \in Jogadores :
              /\ emissor'.sala[k] = IF s \in GruposDe[k] THEN Nada ELSE emissor.sala[k]
              /\ GruposDe'[k] = GruposDe[k] \ {s}
              /\ emissor'.mortos[k] = IF emissor.mortos[k] = s THEN Nada ELSE emissor.mortos[k]
              /\ emissor'.sobras[k] = emissor.sobras[k]
  BY DEF SemSala, Emissor, GruposDe

LEMMA SocketFechadoCorreto ==
  ASSUME emissor \in Emissor, NEW j \in Jogadores,
         NEW mo \in [Jogadores -> Salas \cup {Nada}],
         \A k \in Jogadores \ {j} : mo[k] = emissor.mortos[k],
         emissor' = [SocketFechado(j) EXCEPT !.mortos = mo]
  PROVE  /\ emissor' \in Emissor
         /\ \A k \in Jogadores \ {j} : Intocado(k)
         /\ emissor'.sala[j] = Nada /\ GruposDe'[j] = {} /\ emissor'.mortos[j] = mo[j]
         /\ emissor'.sobras[j] = emissor.sobras[j] \cup ({emissor.mortos[j]} \ {Nada})
<1> DEFINE g == IF emissor.sala[j] = Nada THEN emissor.grupos
                ELSE [emissor.grupos EXCEPT ![emissor.sala[j]] = @ \ {j}]
<1>1. SemSocket(j) = [grupos |-> g, sala |-> [emissor.sala EXCEPT ![j] = Nada],
                      mortos |-> emissor.mortos, sobras |-> emissor.sobras]
  BY DEF SemSocket, Emissor
<1>2. g \in [Salas -> SUBSET Jogadores]
      /\ \A s \in Salas : g[s] \ {j} = emissor.grupos[s] \ {j}
  BY DEF Emissor
<1> HIDE DEF g
<1> DEFINE gg == [s \in Salas |-> g[s] \ {j}]
           so == [emissor.sobras EXCEPT ![j] = @ \cup ({emissor.mortos[j]} \ {Nada})]
<1>3. SocketFechado(j) = [SemSocket(j) EXCEPT !.grupos = gg, !.sobras = so]
  BY <1>1 DEF SocketFechado
<1>4. gg \in [Salas -> SUBSET Jogadores] /\ so \in [Jogadores -> SUBSET Salas]
  BY <1>2 DEF Emissor
<1>5. /\ \A s \in Salas : gg[s] = emissor.grupos[s] \ {j}
      /\ \A k \in Jogadores \ {j} : so[k] = emissor.sobras[k]
      /\ so[j] = emissor.sobras[j] \cup ({emissor.mortos[j]} \ {Nada})
  BY <1>2 DEF Emissor
<1> HIDE DEF gg, so
<1> DEFINE a == [emissor.sala EXCEPT ![j] = Nada]
<1>6. emissor' = [grupos |-> gg, sala |-> a, mortos |-> mo, sobras |-> so]
  <2> HIDE DEF a
  <2>1. SocketFechado(j) = [[grupos |-> g, sala |-> a, mortos |-> emissor.mortos,
                             sobras |-> emissor.sobras] EXCEPT !.grupos = gg, !.sobras = so]
    BY <1>1, <1>3, Zenon DEF a
  <2>2. SocketFechado(j) = [grupos |-> gg, sala |-> a, mortos |-> emissor.mortos, sobras |-> so]
    BY <2>1
  <2>3. emissor' = [[grupos |-> gg, sala |-> a, mortos |-> emissor.mortos, sobras |-> so]
                      EXCEPT !.mortos = mo]
    BY <2>2, Zenon
  <2>4. QED
    BY <2>3
<1>7. a \in [Jogadores -> Salas \cup {Nada}]
  BY DEF Emissor
<1>8. a[j] = Nada /\ \A k \in Jogadores \ {j} : a[k] = emissor.sala[k]
  BY DEF Emissor
<1> HIDE DEF a
<1>9. /\ emissor' \in Emissor
      /\ emissor'.grupos = gg /\ emissor'.sala = a
      /\ emissor'.mortos = mo /\ emissor'.sobras = so
  BY <1>4, <1>6, <1>7, EmissorNovo
<1>10. \A k \in Jogadores \ {j} : Intocado(k)
  <2>1. \A s \in Salas : gg[s] \ {j} = emissor.grupos[s] \ {j}
    BY <1>5
  <2>2. \A k \in Jogadores \ {j} : /\ a[k] = emissor.sala[k] /\ mo[k] = emissor.mortos[k]
                                    /\ so[k] = emissor.sobras[k]
    BY <1>5, <1>8
  <2>3. QED
    BY <1>9, <2>1, <2>2, SoODe
<1>11. GruposDe'[j] = {}
  BY <1>5, <1>9 DEF GruposDe
<1>12. QED
  BY <1>5, <1>8, <1>9, <1>10, <1>11

-----------------------------------------------------------------------------
(* What a step of the network does to the Players, by what it is made of.  *)

Toca(k) ==
  \/ Alheio(k) \/ Larga(k) \/ Sobra(k) \/ SemLigacao(k) \/ Avulso(k)
  \/ \E s \in Salas : Chega(k, s) \/ Desfaz(k, s)

LEMMA VinculoDe ==
  ASSUME NEW j
  PROVE  /\ \A v \in VinculosDe(j) : /\ v[1] \in Salas /\ v[2] \in Ativos(salas[v[1]])
                                     /\ v[2].jogador = j
         /\ \A s \in Salas : \A m \in Ativos(salas[s]) :
              m.jogador = j => <<s, m>> \in VinculosDe(j)
  BY DEF VinculosDe

LEMMA LivreSemSalas ==
  ASSUME NEW j \in Jogadores, ~ Associado(j)
  PROVE  SalasDe[j] = {}
  BY DEF Associado, SalasDe

(* Nothing that matters here changes.                                      *)
LEMMA NadaMuda ==
  ASSUME TipoDaRede, salas' = salas, emissor' = emissor, ligacao' = ligacao
  PROVE  emissor' \in Emissor /\ \A k \in Jogadores : Toca(k)
<1>1. \A k \in Jogadores : SalasDe'[k] = SalasDe[k] /\ ConectadoEm'[k] = ConectadoEm[k]
  BY DEF SalasDe, ConectadoEm
<1>2. QED
  BY <1>1, MesmoEmissor DEF TipoDaRede, Toca, Alheio, Intocado

(* A command that moves nobody.                                            *)
LEMMA NinguemMuda ==
  ASSUME IInv, TipoDaRede, NEW s \in Salas, NEW nova, Substituir(s, nova),
         Troca(salas[s], nova, {}, {}), emissor' = emissor, ligacao' = ligacao
  PROVE  emissor' \in Emissor /\ \A k \in Jogadores : Toca(k)
<1>1. \A k \in Jogadores : SalasDe'[k] = SalasDe[k] /\ ConectadoEm'[k] \subseteq ConectadoEm[k]
  <2>1. Movimento(s, {}, {})
    BY TrocaApos
  <2>2. QED
    BY <2>1 DEF Movimento
<1>2. QED
  BY <1>1, MesmoEmissor DEF TipoDaRede, Toca, Alheio, Intocado

LEMMA QuemChega ==
  ASSUME IInv, TipoDaRede, NEW j \in Jogadores, NEW s \in Salas, NEW nova,
         Substituir(s, nova), Troca(salas[s], nova, {}, {j}), SalasDe[j] \subseteq {s},
         emissor' = Registrado(j, s), ligacao' = ligacao, ligacao[j] = "aberta"
  PROVE  emissor' \in Emissor /\ \A k \in Jogadores : Toca(k)
<1>1. /\ \A k \in Jogadores : k # j => SalasDe'[k] = SalasDe[k] /\ ConectadoEm'[k] \subseteq ConectadoEm[k]
      /\ SalasDe'[j] = {s}
  <2>1. Movimento(s, {}, {j})
    BY TrocaApos
  <2>2. QED
    BY <2>1 DEF Movimento
<1>2. /\ emissor' \in Emissor
      /\ \A k \in Jogadores \ {j} : Intocado(k)
      /\ emissor'.sala[j] = s /\ emissor'.sobras[j] = emissor.sobras[j] \ {s}
      /\ GruposDe'[j] = GruposDe[j] \cup {s}
  BY RegistradoCorreto DEF TipoDaRede
<1>3. Chega(j, s)
  BY <1>1, <1>2 DEF Chega
<1>4. \A k \in Jogadores \ {j} : Alheio(k)
  BY <1>1, <1>2 DEF Alheio, Intocado
<1>5. QED
  BY <1>2, <1>3, <1>4 DEF Toca

(* Who is there already is only registered.                                *)
LEMMA QuemEstava ==
  ASSUME IInv, TipoDaRede, NEW j \in Jogadores, NEW s \in SalasDe[j], salas' = salas,
         emissor' = Registrado(j, s), ligacao' = ligacao, ligacao[j] = "aberta"
  PROVE  emissor' \in Emissor /\ \A k \in Jogadores : Toca(k)
<1>1. \A k \in Jogadores : SalasDe'[k] = SalasDe[k] /\ ConectadoEm'[k] = ConectadoEm[k]
  BY DEF SalasDe, ConectadoEm
<1>2. s \in Salas /\ SalasDe[j] = {s}
  BY UmaSala DEF SalasDe
<1>3. /\ emissor' \in Emissor
      /\ \A k \in Jogadores \ {j} : Intocado(k)
      /\ emissor'.sala[j] = s /\ emissor'.sobras[j] = emissor.sobras[j] \ {s}
      /\ GruposDe'[j] = GruposDe[j] \cup {s}
  BY <1>2, RegistradoCorreto DEF TipoDaRede
<1>4. Chega(j, s)
  BY <1>1, <1>2, <1>3 DEF Chega
<1>5. \A k \in Jogadores \ {j} : Alheio(k)
  BY <1>1, <1>3 DEF Alheio, Intocado
<1>6. QED
  BY <1>2, <1>3, <1>4, <1>5 DEF Toca

LEMMA QuemSai ==
  ASSUME IInv, TipoDaRede, NEW s \in Salas, NEW nova, Substituir(s, nova),
         NEW j \in Jogadores, j \in JogadoresAtivos(salas[s]),
         Troca(salas[s], nova, {j}, {}),
         emissor' \in {SemSocket(j), SemSocketsDe(j)}, ligacao' = ligacao
  PROVE  emissor' \in Emissor /\ \A k \in Jogadores : Toca(k)
<1>1. {j} \subseteq JogadoresAtivos(salas[s])
  OBVIOUS
<1>2. /\ \A k \in Jogadores : k # j => SalasDe'[k] = SalasDe[k] /\ ConectadoEm'[k] \subseteq ConectadoEm[k]
      /\ SalasDe'[j] = {}
  <2>1. Movimento(s, {j}, {})
    BY <1>1, TrocaApos
  <2>2. QED
    BY <2>1 DEF Movimento
<1>3. /\ emissor' \in Emissor
      /\ \A k \in Jogadores \ {j} : Intocado(k)
      /\ emissor'.sala[j] = Nada /\ emissor'.sobras[j] = emissor.sobras[j]
      /\ GruposDe'[j] = GruposDe[j] \ {emissor.sala[j]}
  BY SemSocketCorreto DEF TipoDaRede
<1>4. Larga(j)
  BY <1>2, <1>3 DEF Larga
<1>5. \A k \in Jogadores \ {j} : Alheio(k)
  BY <1>2, <1>3 DEF Alheio, Intocado
<1>6. QED
  BY <1>3, <1>4, <1>5 DEF Toca

LEMMA QuemSobra ==
  ASSUME IInv, TipoDaRede, NEW s \in Salas, NEW nova, Substituir(s, nova),
         NEW saem, saem \subseteq JogadoresAtivos(salas[s]),
         Troca(salas[s], nova, saem, {}), emissor' = ComSobras(s, saem), ligacao' = ligacao
  PROVE  emissor' \in Emissor /\ \A k \in Jogadores : Toca(k)
<1>1. /\ \A k \in Jogadores : k \notin saem =>
           SalasDe'[k] = SalasDe[k] /\ ConectadoEm'[k] \subseteq ConectadoEm[k]
      /\ \A k \in saem \cap Jogadores : SalasDe[k] = {s} /\ SalasDe'[k] = {}
  <2>1. Movimento(s, saem, {})
    BY TrocaApos
  <2>2. QED
    BY <2>1 DEF Movimento
<1>2. /\ emissor' \in Emissor
      /\ \A k \in Jogadores \ saem : Intocado(k)
      /\ \A k \in Jogadores \cap saem :
           /\ emissor'.sala[k] = emissor.sala[k] /\ GruposDe'[k] = GruposDe[k]
           /\ emissor'.sobras[k] = emissor.sobras[k] \cup ({s} \cap GruposDe[k])
  BY ComSobrasCorreto DEF TipoDaRede
<1>3. \A k \in Jogadores \cap saem : Sobra(k)
  BY <1>1, <1>2 DEF Sobra
<1>4. \A k \in Jogadores \ saem : Alheio(k)
  BY <1>1, <1>2 DEF Alheio, Intocado
<1>5. QED
  BY <1>2, <1>3, <1>4 DEF Toca

LEMMA QuemTinhaSala ==
  ASSUME IInv, TipoDaRede, NEW s \in Salas, EncerrarSala(s), emissor' = SemSala(s),
         ligacao' = ligacao
  PROVE  emissor' \in Emissor /\ \A k \in Jogadores : Toca(k)
<1> DEFINE saem == JogadoresAtivos(salas[s])
<1>1. Substituir(s, SalaEncerrada(salas[s])) /\ SalaIntegra(salas[s]) /\ salas[s] \in Sala
  BY DEF EncerrarSala, IInv
<1>2. Troca(salas[s], SalaEncerrada(salas[s]), saem, {})
  BY <1>1, EncerradaTroca
<1>3. /\ \A k \in Jogadores : k \notin saem =>
           SalasDe'[k] = SalasDe[k] /\ ConectadoEm'[k] \subseteq ConectadoEm[k]
      /\ \A k \in saem \cap Jogadores : SalasDe[k] = {s} /\ SalasDe'[k] = {}
  <2>1. Movimento(s, saem, {})
    BY <1>1, <1>2, TrocaApos
  <2>2. QED
    BY <2>1 DEF Movimento
<1>4. salas'[s] = SalaEncerrada(salas[s])
  BY <1>1, SoUmaMuda
<1>5. salas'[s].estado \in Terminal /\ Ativos(salas'[s]) = {}
  BY <1>1, <1>4, SalaEncerradaIntegra DEF SalaEncerrada, Sala, Terminal
<1>6. \A k \in Jogadores : k \in saem <=> s \in SalasDe[k]
  BY DEF SalasDe
<1>7. \A k \in Jogadores : s \notin ConectadoEm'[k]
  BY <1>5 DEF ConectadoEm, Conectados
<1>8. \A k \in Jogadores : /\ SalasDe'[k] = SalasDe[k] \ {s}
             /\ ConectadoEm'[k] \subseteq ConectadoEm[k] \ {s}
  <2> TAKE k \in Jogadores
  <2>1. CASE k \notin saem
    BY <1>3, <1>6, <1>7, <2>1
  <2>2. CASE k \in saem
    <3>1. SalasDe[k] = {s} /\ SalasDe'[k] = {}
      BY <1>3, <2>2
    <3>2. ConectadoEm'[k] \subseteq SalasDe'[k]
      BY DEF ConectadoEm, Conectados, SalasDe, JogadoresAtivos
    <3>3. QED
      BY <3>1, <3>2
  <2>3. QED
    BY <2>1, <2>2
<1>9. /\ emissor' \in Emissor
      /\ \A k \in Jogadores :
           /\ emissor'.sala[k] = IF s \in GruposDe[k] THEN Nada ELSE emissor.sala[k]
           /\ GruposDe'[k] = GruposDe[k] \ {s}
           /\ emissor'.mortos[k] = IF emissor.mortos[k] = s THEN Nada ELSE emissor.mortos[k]
           /\ emissor'.sobras[k] = emissor.sobras[k]
  BY SemSalaCorreto DEF TipoDaRede
<1>10. \A k \in Jogadores : Desfaz(k, s)
  BY <1>5, <1>8, <1>9 DEF Desfaz
<1>11. QED
  BY <1>9, <1>10 DEF Toca

-----------------------------------------------------------------------------
(* Every action of the network is a command of the engine, or none, and    *)
(* touches each Player in one of those ways.                               *)

PassoDaRede == [Next]_vars /\ TipoDaRede' /\ \A k \in Jogadores : Toca(k)

LEMMA PedidosIguais ==
  ASSUME PedidosTipados, pedidos' = pedidos
  PROVE  PedidosTipados'
  BY DEF PedidosTipados, PedidosDe

LEMMA PedidosPerdidos ==
  ASSUME PedidosTipados, NEW j \in Jogadores, pedidos' = [pedidos EXCEPT ![j] = << >>]
  PROVE  PedidosTipados'
<1>1. PICK P : PedidosDe(P)
  BY DEF PedidosTipados
<1>2. << >> \in Seq(P)
  BY EmptySeq
<1>3. pedidos' \in [Jogadores -> Seq(P)]
  BY <1>1, <1>2 DEF PedidosDe
<1>4. QED
  BY <1>1, <1>3 DEF PedidosTipados, PedidosDe

LEMMA PedidoEnviado ==
  ASSUME PedidosTipados, NEW j \in Jogadores, NEW p,
         p.tipo = "ENTRAR_NA_SALA" => p.arg \in Salas,
         pedidos' = [pedidos EXCEPT ![j] = Append(@, p)]
  PROVE  PedidosTipados'
<1>1. PICK P : PedidosDe(P)
  BY DEF PedidosTipados
<1> DEFINE Q == P \cup {p}
<1>2. \A q \in Q : q.tipo = "ENTRAR_NA_SALA" => q.arg \in Salas
  BY <1>1 DEF PedidosDe
<1>3. P \subseteq Q /\ p \in Q
  OBVIOUS
<1> HIDE DEF Q
<1>4. \A k \in Jogadores : pedidos[k] \in Seq(Q)
  BY <1>1, <1>3, SeqMonotonic DEF PedidosDe
<1>5. Append(pedidos[j], p) \in Seq(Q)
  BY <1>3, <1>4, AppendProperties
<1>6. pedidos' \in [Jogadores -> Seq(Q)]
  BY <1>1, <1>4, <1>5 DEF PedidosDe
<1>7. QED
  BY <1>2, <1>6 DEF PedidosTipados, PedidosDe

LEMMA PedidoAtendido ==
  ASSUME TipoDaRede, NEW j \in Jogadores, NEW tipo, Atendendo(j, tipo)
  PROVE  /\ PedidosTipados' /\ ligacao' = ligacao /\ ligacao[j] = "aberta"
         /\ tipo = "ENTRAR_NA_SALA" => Argumento(j) \in Salas
<1>1. PICK P : PedidosDe(P)
  BY DEF TipoDaRede, PedidosTipados
<1>2. pedidos[j] \in Seq(P) /\ pedidos[j] # << >>
  BY <1>1 DEF PedidosDe, Atendendo
<1>3. Head(pedidos[j]) \in P /\ Tail(pedidos[j]) \in Seq(P)
  BY <1>2, HeadTailProperties
<1>4. pedidos' = [pedidos EXCEPT ![j] = Tail(pedidos[j])]
  BY DEF Atendendo
<1>5. pedidos' \in [Jogadores -> Seq(P)]
  BY <1>1, <1>3, <1>4 DEF PedidosDe
<1>6. PedidosTipados'
  BY <1>1, <1>5 DEF PedidosTipados, PedidosDe
<1>7. tipo = "ENTRAR_NA_SALA" => Argumento(j) \in Salas
  BY <1>1, <1>3 DEF PedidosDe, Atendendo, Argumento
<1>8. QED
  BY <1>6, <1>7 DEF Atendendo

LEMMA PassoFeito ==
  ASSUME TipoDaRede, [Next]_vars, emissor' \in Emissor, PedidosTipados', ligacao' = ligacao,
         \A k \in Jogadores : Toca(k)
  PROVE  PassoDaRede
  BY DEF PassoDaRede, TipoDaRede

LEMMA PassoParado ==
  ASSUME TipoDaRede, PedidosTipados', salas' = salas, emissor' = emissor, ligacao' = ligacao
  PROVE  PassoDaRede
  BY NadaMuda, PassoFeito DEF vars

LEMMA Recusado ==
  ASSUME TipoDaRede, NEW j \in Jogadores, NEW tipo, Atendendo(j, tipo), Recusar(j)
  PROVE  PassoDaRede
  BY PedidoAtendido, PassoParado DEF Recusar

LEMMA CriarPasso ==
  ASSUME IInv, TipoDaRede, NEW j \in Jogadores, AtenderCriar(j)
  PROVE  PassoDaRede
<1>1. Atendendo(j, "CRIAR_SALA")
  BY DEF AtenderCriar
<1>2. CASE Associado(j)
  BY <1>1, <1>2, Recusado DEF AtenderCriar
<1>3. CASE ~ Associado(j)
  <2>1. PICK s \in Salas : CriarSala(s, j) /\ emissor' = Registrado(j, s)
    BY <1>3 DEF AtenderCriar
  <2>2. Substituir(s, SalaCriada(j)) /\ ~ Existe(s)
    BY <2>1 DEF CriarSala
  <2>3. Ativos(salas[s]) = {}
    BY <2>2 DEF IInv, SalaIntegra, AnfitriaoDaSala, Existe, Viva
  <2>4. Troca(salas[s], SalaCriada(j), {}, {j})
    BY <2>3, CriadaTroca
  <2>5. SalasDe[j] \subseteq {s}
    BY <1>3, LivreSemSalas
  <2>6. emissor' \in Emissor /\ \A k \in Jogadores : Toca(k)
    BY <1>1, <2>1, <2>2, <2>4, <2>5, QuemChega, PedidoAtendido
  <2>7. Next
    BY <2>1 DEF Next
  <2>8. QED
    BY <1>1, <2>6, <2>7, PassoFeito, PedidoAtendido
<1>4. QED
  BY <1>2, <1>3

(* Also while its socket falls: the fan-out is left to the caller.         *)
LEMMA EntradaNova ==
  ASSUME IInv, NEW j \in Jogadores, NEW s \in Salas, EntrarNaSala(s, j)
  PROVE  /\ Next /\ SalasDe[j] = {}
         /\ Substituir(s, ComEntrada(salas[s], j))
         /\ Troca(salas[s], ComEntrada(salas[s], j), {}, {j})
<1>1. ~ Associado(j) /\ Substituir(s, ComEntrada(salas[s], j)) /\ SalaIntegra(salas[s])
  BY DEF EntrarNaSala, IInv
<1>2. QED
  BY <1>1, LivreSemSalas, ComEntradaTroca DEF Next

LEMMA EntrarPasso ==
  ASSUME IInv, TipoDaRede, NEW j \in Jogadores, AtenderEntrar(j)
  PROVE  PassoDaRede
<1> DEFINE s == Argumento(j)
           esta == AbertaConsistente(salas[s]) /\ j \in JogadoresAtivos(salas[s])
<1>1. Atendendo(j, "ENTRAR_NA_SALA")
  BY DEF AtenderEntrar
<1>2. PedidosTipados' /\ ligacao' = ligacao /\ ligacao[j] = "aberta" /\ s \in Salas
  BY <1>1, PedidoAtendido
<1>3. CASE esta /\ EntrarDeNovo(j, s)
  <2>1. s \in SalasDe[j] /\ salas' = salas /\ emissor' = Registrado(j, s)
    BY <1>2, <1>3 DEF SalasDe, EntrarDeNovo
  <2>2. emissor' \in Emissor /\ \A k \in Jogadores : Toca(k)
    BY <1>2, <2>1, QuemEstava
  <2>3. QED
    BY <1>2, <2>1, <2>2, PassoFeito DEF vars
<1>4. CASE Entrar(j, s)
  <2>1. EntrarNaSala(s, j) /\ emissor' = Registrado(j, s)
    BY <1>4 DEF Entrar
  <2>2. /\ Next /\ SalasDe[j] \subseteq {s}
        /\ Substituir(s, ComEntrada(salas[s], j))
        /\ Troca(salas[s], ComEntrada(salas[s], j), {}, {j})
    BY <1>2, <2>1, EntradaNova
  <2>3. emissor' \in Emissor /\ \A k \in Jogadores : Toca(k)
    BY <1>2, <2>1, <2>2, QuemChega
  <2>4. QED
    BY <1>2, <2>2, <2>3, PassoFeito
<1>5. CASE Recusar(j)
  BY <1>1, <1>5, Recusado
<1>6. QED
  BY <1>3, <1>4, <1>5 DEF AtenderEntrar

(* The exits, of an open Sala and of a forwarded one.                      *)
LEMMA SaidaDaRede ==
  ASSUME IInv, TipoDaRede, NEW s \in Salas, NEW m \in Ativos(salas[s]),
         Sair(m.jogador, s, m) \/ SairDaEncaminhada(s, m), ligacao' = ligacao,
         PedidosTipados'
  PROVE  PassoDaRede
<1> DEFINE j == m.jogador
           nova == ComSaida(salas[s], m, "saida", "encerrada")
<1>1. /\ Substituir(s, nova) /\ emissor' \in {SemSocket(j), SemSocketsDe(j)}
      /\ SairDaSala(s, m) \/ SairDaSalaEncaminhada(s, m)
  BY DEF Sair, SairDaEncaminhada, SairDaSala, SairDaSalaEncaminhada
<1>2. SalaIntegra(salas[s]) /\ "saida" \in Motivos /\ "encerrada" \in Terminal
  BY DEF IInv, Motivos, Terminal
<1>3. j \in Jogadores /\ j \in JogadoresAtivos(salas[s])
  BY <1>2 DEF SalaIntegra, Sala, Membro, Ativos, JogadoresAtivos
<1>4. Troca(salas[s], nova, {j}, {})
  BY <1>2, ComSaidaTroca
<1>5. Next
  BY <1>1 DEF Next, ComandoDeMembro
<1> HIDE DEF j, nova
<1>6. emissor' \in Emissor /\ \A k \in Jogadores : Toca(k)
  BY <1>1, <1>3, <1>4, QuemSai
<1>7. QED
  BY <1>5, <1>6, PassoFeito

LEMMA SairPasso ==
  ASSUME IInv, TipoDaRede, NEW j \in Jogadores, AtenderSair(j)
  PROVE  PassoDaRede
<1>1. Atendendo(j, "SAIR_DA_SALA")
  BY DEF AtenderSair
<1>2. CASE Recusar(j)
  BY <1>1, <1>2, Recusado
<1>3. CASE \E v \in VinculosDe(j) : Sair(j, v[1], v[2]) \/ SairDaEncaminhada(v[1], v[2])
  <2>1. PICK v \in VinculosDe(j) : Sair(j, v[1], v[2]) \/ SairDaEncaminhada(v[1], v[2])
    BY <1>3
  <2>2. v[1] \in Salas /\ v[2] \in Ativos(salas[v[1]]) /\ v[2].jogador = j
    BY VinculoDe
  <2>3. QED
    BY <1>1, <2>1, <2>2, SaidaDaRede, PedidoAtendido
<1>4. QED
  BY <1>2, <1>3 DEF AtenderSair

LEMMA SalaQueManda ==
  ASSUME NEW j, NEW s \in SalasQueManda(j)
  PROVE  s \in Salas /\ TemAnfitriao(salas[s])
  BY VinculoDe DEF SalasQueManda, TemAnfitriao

LEMMA ExpulsarPasso ==
  ASSUME IInv, TipoDaRede, NEW j \in Jogadores, AtenderExpulsar(j)
  PROVE  PassoDaRede
<1>1. Atendendo(j, "EXPULSAR_MEMBRO")
  BY DEF AtenderExpulsar
<1>2. CASE Recusar(j)
  BY <1>1, <1>2, Recusado
<1>3. CASE ~ Recusar(j)
  <2>1. PICK s \in SalasQueManda(j) : \E alvo \in Ativos(salas[s]) :
          /\ ExpulsarMembro(s, alvo) /\ ~ EhAnfitriao(salas[s], alvo)
          /\ emissor' = ComSobras(s, {alvo.jogador})
    BY <1>3 DEF AtenderExpulsar
  <2>2. PICK alvo \in Ativos(salas[s]) :
          /\ ExpulsarMembro(s, alvo) /\ ~ EhAnfitriao(salas[s], alvo)
          /\ emissor' = ComSobras(s, {alvo.jogador})
    BY <2>1
  <2>3. s \in Salas /\ TemAnfitriao(salas[s])
    BY SalaQueManda
  <2>4. Substituir(s, ComExpulsao(salas[s], alvo)) /\ SalaIntegra(salas[s])
    BY <2>2, <2>3 DEF ExpulsarMembro, IInv
  <2>5. Troca(salas[s], ComExpulsao(salas[s], alvo), {alvo.jogador}, {})
    BY <2>2, <2>3, <2>4, ExpulsaoTroca
  <2>6. {alvo.jogador} \subseteq JogadoresAtivos(salas[s])
    BY DEF JogadoresAtivos
  <2>7. emissor' \in Emissor /\ \A k \in Jogadores : Toca(k)
    BY <1>1, <2>2, <2>3, <2>4, <2>5, <2>6, QuemSobra, PedidoAtendido
  <2>8. Next
    BY <2>2, <2>3 DEF Next, ComandoDeMembro
  <2>9. QED
    BY <1>1, <2>7, <2>8, PassoFeito, PedidoAtendido
<1>4. QED
  BY <1>2, <1>3

LEMMA DesbloquearPasso ==
  ASSUME IInv, TipoDaRede, NEW j \in Jogadores, AtenderDesbloquear(j)
  PROVE  PassoDaRede
<1>1. Atendendo(j, "DESBLOQUEAR_JOGADOR")
  BY DEF AtenderDesbloquear
<1>2. CASE Recusar(j)
  BY <1>1, <1>2, Recusado
<1>3. CASE ~ Recusar(j)
  <2>1. PICK s \in SalasQueManda(j) : AutorizarRetorno(s, Argumento(j)) /\ emissor' = emissor
    BY <1>3 DEF AtenderDesbloquear
  <2> DEFINE nova == [salas[s] EXCEPT !.bloqueados = @ \ {Argumento(j)}]
  <2>2. s \in Salas /\ salas[s] \in Sala
    BY SalaQueManda DEF IInv, SalaIntegra
  <2>3. Substituir(s, nova) /\ nova.membros = salas[s].membros /\ Argumento(j) \in Jogadores
    BY <2>1, <2>2 DEF AutorizarRetorno, Sala
  <2>4. Next
    BY <2>1, <2>2, <2>3 DEF Next
  <2> HIDE DEF nova
  <2>5. Troca(salas[s], nova, {}, {})
    BY <2>3, MesmosMembrosTroca
  <2>6. emissor' \in Emissor /\ \A k \in Jogadores : Toca(k)
    BY <1>1, <2>1, <2>2, <2>3, <2>5, NinguemMuda, PedidoAtendido
  <2>7. QED
    BY <1>1, <2>4, <2>6, PassoFeito, PedidoAtendido
<1>4. QED
  BY <1>2, <1>3

LEMMA ProntidaoPasso ==
  ASSUME IInv, TipoDaRede, NEW j \in Jogadores, AtenderProntidao(j)
  PROVE  PassoDaRede
<1>1. Atendendo(j, "ALTERNAR_PRONTIDAO")
  BY DEF AtenderProntidao
<1>2. CASE Recusar(j)
  BY <1>1, <1>2, Recusado
<1>3. CASE ~ Recusar(j)
  <2>1. PICK v \in VinculosDe(j) : AlternarProntidao(v[1], v[2]) /\ emissor' = emissor
    BY <1>3 DEF AtenderProntidao
  <2>2. PICK s \in Salas : \E m \in Ativos(salas[s]) : AlternarProntidao(s, m)
    BY <2>1, VinculoDe
  <2>3. PICK m \in Ativos(salas[s]) : AlternarProntidao(s, m)
    BY <2>2
  <2>4. Substituir(s, ComProntidaoAlternada(salas[s], m)) /\ SalaIntegra(salas[s])
    BY <2>3 DEF AlternarProntidao, IInv
  <2>5. Troca(salas[s], ComProntidaoAlternada(salas[s], m), {}, {})
    BY <2>4, ComProntidaoTroca
  <2>6. emissor' \in Emissor /\ \A k \in Jogadores : Toca(k)
    BY <1>1, <2>1, <2>4, <2>5, NinguemMuda, PedidoAtendido
  <2>7. Next
    BY <2>3 DEF Next, ComandoDeMembro
  <2>8. QED
    BY <1>1, <2>6, <2>7, PassoFeito, PedidoAtendido
<1>4. QED
  BY <1>2, <1>3

LEMMA EncerrarPasso ==
  ASSUME IInv, TipoDaRede, NEW j \in Jogadores, AtenderEncerrar(j)
  PROVE  PassoDaRede
<1>1. Atendendo(j, "ENCERRAR_SALA")
  BY DEF AtenderEncerrar
<1>2. CASE Recusar(j)
  BY <1>1, <1>2, Recusado
<1>3. CASE ~ Recusar(j)
  <2>1. PICK s \in SalasQueManda(j) : EncerrarSala(s) /\ emissor' = SemSala(s)
    BY <1>3 DEF AtenderEncerrar
  <2>2. s \in Salas
    BY SalaQueManda
  <2>3. emissor' \in Emissor /\ \A k \in Jogadores : Toca(k)
    BY <1>1, <2>1, <2>2, QuemTinhaSala, PedidoAtendido
  <2>4. Next
    BY <2>1, <2>2 DEF Next
  <2>5. QED
    BY <1>1, <2>3, <2>4, PassoFeito, PedidoAtendido
<1>4. QED
  BY <1>2, <1>3

LEMMA IniciarPasso ==
  ASSUME TipoDaRede, NEW j \in Jogadores, AtenderIniciar(j)
  PROVE  PassoDaRede
  BY PedidoAtendido, PassoParado DEF AtenderIniciar, Recusar

LEMMA AtenderPasso ==
  ASSUME IInv, TipoDaRede, NEW j \in Jogadores, Atender(j)
  PROVE  PassoDaRede
  BY CriarPasso, EntrarPasso, SairPasso, ExpulsarPasso, DesbloquearPasso, ProntidaoPasso,
     EncerrarPasso, IniciarPasso DEF Atender

(* What no page asked for.                                                 *)
LEMMA ForaDasPaginasParado ==
  ASSUME TipoDaRede, ForaDasPaginas
  PROVE  PedidosTipados' /\ ligacao' = ligacao
  BY PedidosIguais DEF TipoDaRede, ForaDasPaginas

LEMMA OfertaPasso ==
  ASSUME IInv, TipoDaRede, NEW s \in Salas,
         AceitarOferta(s) \/ OfertaDesatualizada(s) \/ OfertaFrustrada(s)
  PROVE  PassoDaRede
<1>1. PedidosTipados' /\ ligacao' = ligacao /\ emissor' = emissor
  BY ForaDasPaginasParado DEF AceitarOferta, OfertaDesatualizada, OfertaFrustrada
<1>2. CASE OfertaDesatualizada(s) \/ OfertaFrustrada(s)
  BY <1>1, <1>2, PassoParado DEF OfertaDesatualizada, OfertaFrustrada
<1>3. CASE AceitarOferta(s)
  <2> DEFINE nova == [salas[s] EXCEPT !.estado = "encaminhada"]
  <2>1. AceitarEncaminhamento(s, ofertas[s])
    BY <1>3 DEF AceitarOferta
  <2>2. salas[s] \in Sala /\ ofertas[s] = JogadoresAtivos(salas[s])
    BY <2>1 DEF IInv, SalaIntegra, AceitarEncaminhamento, PodeAceitar
  <2>3. ofertas[s] \in SUBSET Jogadores
    BY <2>2 DEF Sala, Membro, Ativos, JogadoresAtivos
  <2>4. Next
    BY <2>1, <2>3 DEF Next
  <2>5. Substituir(s, nova) /\ nova.membros = salas[s].membros
    BY <2>1, <2>2 DEF AceitarEncaminhamento, Sala
  <2> HIDE DEF nova
  <2>6. Troca(salas[s], nova, {}, {})
    BY <2>5, MesmosMembrosTroca
  <2>7. emissor' \in Emissor /\ \A k \in Jogadores : Toca(k)
    BY <1>1, <2>5, <2>6, NinguemMuda
  <2>8. QED
    BY <1>1, <2>4, <2>7, PassoFeito
<1>4. QED
  BY <1>2, <1>3

LEMMA RetornarPasso ==
  ASSUME IInv, TipoDaRede, NEW s \in Salas, NEW saidas \in SUBSET Ativos(salas[s]),
         Retornar(s, saidas)
  PROVE  PassoDaRede
<1> DEFINE saem == {m.jogador : m \in saidas}
           nova == SalaReaberta(salas[s], saidas)
<1>1. /\ ReabrirSala(s, saidas) /\ emissor' = ComSobras(s, saem)
      /\ PedidosTipados' /\ ligacao' = ligacao
  BY ForaDasPaginasParado DEF Retornar
<1>2. SalaIntegra(salas[s]) /\ PodeReabrir(salas[s], saidas) /\ Substituir(s, nova)
  BY <1>1 DEF IInv, ReabrirSala
<1>3. Troca(salas[s], nova, saem, {})
  BY <1>2, ReabertaTroca
<1>4. saem \subseteq JogadoresAtivos(salas[s])
  BY DEF JogadoresAtivos
<1>5. Next
  BY <1>1 DEF Next
<1> HIDE DEF saem, nova
<1>6. emissor' \in Emissor /\ \A k \in Jogadores : Toca(k)
  BY <1>1, <1>2, <1>3, <1>4, QuemSobra
<1>7. QED
  BY <1>1, <1>5, <1>6, PassoFeito

LEMMA DesistentePasso ==
  ASSUME IInv, TipoDaRede, NEW s \in Salas, NEW m \in Ativos(salas[s]),
         RemoverDesistente(s, m)
  PROVE  PassoDaRede
  BY ForaDasPaginasParado, SaidaDaRede DEF RemoverDesistente

LEMMA ExpirarPasso ==
  ASSUME IInv, TipoDaRede, NEW s \in Salas, NEW m \in Ativos(salas[s]), Expirar(s, m)
  PROVE  PassoDaRede
<1> DEFINE saem == {m.jogador}
           nova == ComSaida(salas[s], m, "expiracao", "expirada")
<1>1. /\ ExpirarReconexao(s, m) /\ emissor' = ComSobras(s, saem)
      /\ PedidosTipados' /\ ligacao' = ligacao
  BY ForaDasPaginasParado DEF Expirar
<1>2. /\ SalaIntegra(salas[s]) /\ Substituir(s, nova)
      /\ "expiracao" \in Motivos /\ "expirada" \in Terminal
  BY <1>1 DEF IInv, ExpirarReconexao, Motivos, Terminal
<1>3. Troca(salas[s], nova, saem, {})
  BY <1>2, ComSaidaTroca
<1>4. saem \subseteq JogadoresAtivos(salas[s])
  BY DEF JogadoresAtivos
<1>5. Next
  BY <1>1 DEF Next, ComandoDeMembro
<1> HIDE DEF saem, nova
<1>6. emissor' \in Emissor /\ \A k \in Jogadores : Toca(k)
  BY <1>1, <1>2, <1>3, <1>4, QuemSobra
<1>7. QED
  BY <1>1, <1>5, <1>6, PassoFeito

(* A page reads and clicks.                                                *)
LEMMA LerPasso ==
  ASSUME TipoDaRede, NEW j \in Jogadores, Ler(j)
  PROVE  PassoDaRede
  BY PedidosIguais, PassoParado DEF Ler, TipoDaRede

LEMMA EnviarPasso ==
  ASSUME TipoDaRede, NEW j \in Jogadores, NEW tipo, NEW arg, Enviar(j, tipo, arg),
         tipo = "ENTRAR_NA_SALA" => arg \in Salas
  PROVE  PassoDaRede
<1> DEFINE p == Pedido(tipo, arg)
<1>1. p.tipo = "ENTRAR_NA_SALA" => p.arg \in Salas
  BY DEF Pedido
<1>2. pedidos' = [pedidos EXCEPT ![j] = Append(@, p)]
  BY DEF Enviar
<1> HIDE DEF p
<1>3. PedidosTipados'
  BY <1>1, <1>2, PedidoEnviado DEF TipoDaRede
<1>4. QED
  BY <1>3, PassoParado DEF Enviar

LEMMA ClicarPasso ==
  ASSUME TipoDaRede, NEW j \in Jogadores, Clicar(j)
  PROVE  PassoDaRede
<1>1. CASE ClicarCriar(j)
  BY <1>1, EnviarPasso DEF ClicarCriar
<1>2. CASE \E s \in Salas : ClicarEntrar(j, s)
  BY <1>2, EnviarPasso DEF ClicarEntrar
<1>3. CASE ClicarProntidao(j)
  BY <1>3, EnviarPasso DEF ClicarProntidao
<1>4. CASE ClicarSair(j)
  <2>1. CASE Enviar(j, "SAIR_DA_SALA", Nada)
    BY <2>1, EnviarPasso
  <2>2. CASE /\ pedidos' = [pedidos EXCEPT ![j] = << >>]
             /\ UNCHANGED <<salas, emissor, ofertas, lotes, ligacao, gastos>>
    <3>1. PedidosTipados'
      BY <2>2, PedidosPerdidos DEF TipoDaRede
    <3>2. QED
      BY <2>2, <3>1, PassoParado
  <2>3. QED
    BY <1>4, <2>1, <2>2 DEF ClicarSair
<1>5. CASE ClicarComoAnfitriao(j)
  BY <1>5, EnviarPasso DEF ClicarComoAnfitriao
<1>6. CASE FecharAviso(j) \/ Desistir(j)
  BY <1>6, PedidosIguais, PassoParado DEF FecharAviso, Desistir, NaoEnvia, TipoDaRede
<1>7. QED
  BY <1>1, <1>2, <1>3, <1>4, <1>5, <1>6 DEF Clicar

-----------------------------------------------------------------------------
(* Sockets.                                                                *)

LEMMA FormaDoFechado ==
  ASSUME emissor \in Emissor, NEW j \in Jogadores
  PROVE  \E gg, a, so :
           SocketFechado(j) = [grupos |-> gg, sala |-> a, mortos |-> emissor.mortos, sobras |-> so]
<1> DEFINE g == IF emissor.sala[j] = Nada THEN emissor.grupos
                ELSE [emissor.grupos EXCEPT ![emissor.sala[j]] = @ \ {j}]
           a == [emissor.sala EXCEPT ![j] = Nada]
           gg == [s \in Salas |-> SemSocket(j).grupos[s] \ {j}]
           so == [SemSocket(j).sobras EXCEPT ![j] = @ \cup ({emissor.mortos[j]} \ {Nada})]
<1>1. SemSocket(j) = [grupos |-> g, sala |-> a, mortos |-> emissor.mortos,
                      sobras |-> emissor.sobras]
  BY DEF SemSocket, Emissor
<1>2. SocketFechado(j) = [SemSocket(j) EXCEPT !.grupos = gg, !.sobras = so]
  BY <1>1 DEF SocketFechado
<1> HIDE DEF g, a, gg, so
<1>3. SocketFechado(j) = [[grupos |-> g, sala |-> a, mortos |-> emissor.mortos,
                           sobras |-> emissor.sobras] EXCEPT !.grupos = gg, !.sobras = so]
  BY <1>1, <1>2, Zenon
<1>4. QED
  BY <1>3

LEMMA FechaSocket ==
  ASSUME TipoDaRede, NEW j \in Jogadores, Fechar(j)
  PROVE  /\ PedidosTipados' /\ ligacao' \in [Jogadores -> {"aberta", "fechada"}]
         /\ ligacao'[j] = "fechada"
         /\ \A k \in Jogadores \ {j} : ligacao'[k] = ligacao[k]
  BY PedidosPerdidos DEF TipoDaRede, Fechar

(* A Player of whose links none may start its absence is connected in no   *)
(* Sala that a dead socket would not explain.                              *)
LEMMA AusenteOuExplicado ==
  ASSUME IInv, TipoDaRede, NEW j \in Jogadores, Rede(j), Ausentar(j),
         emissor'.mortos[j] = emissor.mortos[j],
         emissor'.sobras[j] = emissor.sobras[j] \cup ({emissor.mortos[j]} \ {Nada})
  PROVE  /\ [Next]_vars
         /\ \A k \in Jogadores :
              SalasDe'[k] = SalasDe[k] /\ ConectadoEm'[k] \subseteq ConectadoEm[k]
         /\ \A s \in ConectadoEm'[j] :
              emissor'.mortos[j] # s => ~ (emissor'.sobras[j] \subseteq {s})
<1> DEFINE saiu == {v \in VinculosDe(j) : /\ v[1] = emissor.sala[j]
                                          /\ v[2].presenca = "conectado"
                                          /\ emissor.mortos[j] = Nada}
<1>1. ASSUME NEW s \in ConectadoEm[j], emissor.mortos[j] # s,
             emissor'.sobras[j] \subseteq {s}
      PROVE  \E m \in Ativos(salas[s]) : m.jogador = j /\ <<s, m>> \in saiu
  <2>1. emissor.mortos[j] \in Salas \cup {Nada}
    BY DEF TipoDaRede, Emissor
  <2>2. emissor.mortos[j] = Nada /\ emissor.sobras[j] \subseteq {s}
    BY <1>1, <2>1
  <2>3. s \in Salas /\ emissor.sala[j] = s
    BY <1>1, <2>2 DEF ConectadoEm, Rede, Notado
  <2>4. PICK m \in Ativos(salas[s]) : m.jogador = j /\ m.presenca = "conectado"
    BY DEF ConectadoEm, Conectados
  <2>5. <<s, m>> \in VinculosDe(j)
    BY <2>3, <2>4, VinculoDe
  <2>6. QED
    BY <2>2, <2>3, <2>4, <2>5
<1>2. CASE saiu = {} /\ UNCHANGED salas
  <2>1. \A k \in Jogadores : SalasDe'[k] = SalasDe[k] /\ ConectadoEm'[k] = ConectadoEm[k]
    BY <1>2 DEF SalasDe, ConectadoEm
  <2>2. \A s \in ConectadoEm'[j] : emissor'.mortos[j] # s => ~ (emissor'.sobras[j] \subseteq {s})
    BY <1>1, <1>2, <2>1
  <2>3. QED
    BY <1>2, <2>1, <2>2 DEF vars
<1>3. CASE \E v \in saiu : DesconectarJogador(v[1], v[2])
  <2>1. PICK v \in saiu : DesconectarJogador(v[1], v[2])
    BY <1>3
  <2>2. PICK s \in Salas : \E m \in Ativos(salas[s]) :
          m.jogador = j /\ DesconectarJogador(s, m)
    BY <2>1, VinculoDe
  <2>3. PICK m \in Ativos(salas[s]) : m.jogador = j /\ DesconectarJogador(s, m)
    BY <2>2
  <2> DEFINE nova == ComPresenca(salas[s], m, "em_reconexao")
  <2>4. Substituir(s, nova) /\ SalaIntegra(salas[s])
    BY <2>3 DEF DesconectarJogador, IInv
  <2>5. Troca(salas[s], nova, {}, {}) /\ j \notin Conectados(nova)
    BY <2>3, <2>4, ComPresencaTroca
  <2>6. Next
    BY <2>3 DEF Next, ComandoDeMembro
  <2> HIDE DEF nova
  <2>7. \A k \in Jogadores :
          SalasDe'[k] = SalasDe[k] /\ ConectadoEm'[k] \subseteq ConectadoEm[k]
    <3>1. Movimento(s, {}, {})
      BY <2>4, <2>5, TrocaApos
    <3>2. QED
      BY <3>1 DEF Movimento
  <2>8. ConectadoEm'[j] = {}
    <3>1. salas'[s] = nova
      BY <2>4, SoUmaMuda
    <3>2. s \notin ConectadoEm'[j]
      BY <2>5, <3>1 DEF ConectadoEm
    <3>3. s \in SalasDe[j]
      BY <2>3 DEF SalasDe, JogadoresAtivos
    <3>4. ConectadoEm'[j] \subseteq {s}
      BY <2>7, <3>3, UmaSala
    <3>5. QED
      BY <3>2, <3>4
  <2>9. QED
    BY <2>6, <2>7, <2>8
<1>4. QED
  BY <1>2, <1>3 DEF Ausentar

LEMMA CairPasso ==
  ASSUME IInvDaRede, NEW j \in Jogadores, Cair(j) \/ Recarregar(j)
  PROVE  PassoDaRede
<1>1. IInv /\ TipoDaRede /\ Rede(j) /\ emissor \in Emissor
  BY DEF IInvDaRede, TipoDaRede
<1>2. Fechar(j) /\ Ausentar(j) /\ emissor' = SocketFechado(j)
  BY DEF Cair, Recarregar
<1>3. /\ PedidosTipados' /\ ligacao' \in [Jogadores -> {"aberta", "fechada"}]
      /\ ligacao'[j] = "fechada"
      /\ \A k \in Jogadores \ {j} : ligacao'[k] = ligacao[k]
  BY <1>1, <1>2, FechaSocket
<1>4. /\ emissor' \in Emissor
      /\ \A k \in Jogadores \ {j} : Intocado(k)
      /\ emissor'.sala[j] = Nada /\ GruposDe'[j] = {} /\ emissor'.mortos[j] = emissor.mortos[j]
      /\ emissor'.sobras[j] = emissor.sobras[j] \cup ({emissor.mortos[j]} \ {Nada})
  <2> DEFINE mo == emissor.mortos
  <2>1. mo \in [Jogadores -> Salas \cup {Nada}] /\ \A k \in Jogadores \ {j} : mo[k] = emissor.mortos[k]
    BY <1>1 DEF Emissor
  <2>2. SocketFechado(j) = [SocketFechado(j) EXCEPT !.mortos = mo]
    <3>1. PICK gg, a, so : SocketFechado(j) = [grupos |-> gg, sala |-> a, mortos |-> mo,
                                               sobras |-> so]
      BY <1>1, FormaDoFechado
    <3> HIDE DEF mo
    <3>2. [[grupos |-> gg, sala |-> a, mortos |-> mo, sobras |-> so] EXCEPT !.mortos = mo]
            = [grupos |-> gg, sala |-> a, mortos |-> mo, sobras |-> so]
      OBVIOUS
    <3>3. QED
      BY <3>1, <3>2, Zenon
  <2> HIDE DEF mo
  <2>3. emissor' = [SocketFechado(j) EXCEPT !.mortos = mo]
    BY <1>2, <2>2
  <2>4. QED
    BY <1>1, <2>1, <2>3, SocketFechadoCorreto DEF mo
<1>5. /\ [Next]_vars
      /\ \A k \in Jogadores :
           SalasDe'[k] = SalasDe[k] /\ ConectadoEm'[k] \subseteq ConectadoEm[k]
      /\ \A s \in ConectadoEm'[j] :
           emissor'.mortos[j] # s => ~ (emissor'.sobras[j] \subseteq {s})
  BY <1>1, <1>2, <1>4, AusenteOuExplicado
<1>6. SemLigacao(j)
  BY <1>3, <1>4, <1>5 DEF SemLigacao
<1>7. \A k \in Jogadores \ {j} : Alheio(k)
  BY <1>3, <1>4, <1>5 DEF Alheio, Intocado
<1>8. QED
  BY <1>3, <1>4, <1>5, <1>6, <1>7 DEF PassoDaRede, TipoDaRede, Toca

LEMMA CairAoEntrarPasso ==
  ASSUME IInvDaRede, NEW j \in Jogadores, CairAoEntrar(j)
  PROVE  PassoDaRede
<1> DEFINE s == Argumento(j)
           mo == [emissor.mortos EXCEPT ![j] = s]
           nova == ComEntrada(salas[s], j)
<1>1. IInv /\ TipoDaRede /\ emissor \in Emissor
  BY DEF IInvDaRede, TipoDaRede
<1>2. Fechar(j) /\ EntrarNaSala(s, j) /\ emissor' = [SocketFechado(j) EXCEPT !.mortos[j] = s]
  BY DEF CairAoEntrar
<1>3. s \in Salas
  <2>1. PICK P : PedidosDe(P)
    BY <1>1 DEF TipoDaRede, PedidosTipados
  <2>2. pedidos[j] \in Seq(P) /\ pedidos[j] # << >> /\ Head(pedidos[j]).tipo = "ENTRAR_NA_SALA"
    BY <2>1 DEF PedidosDe, CairAoEntrar
  <2>3. Head(pedidos[j]) \in P
    BY <2>2, HeadTailProperties
  <2>4. QED
    BY <2>1, <2>2, <2>3 DEF PedidosDe, Argumento
<1>4. /\ PedidosTipados' /\ ligacao' \in [Jogadores -> {"aberta", "fechada"}]
      /\ ligacao'[j] = "fechada"
      /\ \A k \in Jogadores \ {j} : ligacao'[k] = ligacao[k]
  BY <1>1, <1>2, FechaSocket
<1>5. /\ Next /\ SalasDe[j] = {} /\ Substituir(s, nova)
      /\ Troca(salas[s], nova, {}, {j})
  BY <1>1, <1>2, <1>3, EntradaNova
<1> HIDE DEF s, nova
<1>6. /\ mo \in [Jogadores -> Salas \cup {Nada}] /\ mo[j] = s
      /\ \A k \in Jogadores \ {j} : mo[k] = emissor.mortos[k]
  BY <1>1, <1>3 DEF Emissor
<1>7. emissor' = [SocketFechado(j) EXCEPT !.mortos = mo]
  <2> DEFINE m == emissor.mortos
  <2>1. PICK gg, a, so : SocketFechado(j) = [grupos |-> gg, sala |-> a, mortos |-> m,
                                             sobras |-> so]
    BY <1>1, FormaDoFechado
  <2>2. mo = [m EXCEPT ![j] = s]
    OBVIOUS
  <2> HIDE DEF mo, m
  <2>3. SocketFechado(j).mortos = m
    BY <2>1
  <2>4. [SocketFechado(j) EXCEPT !.mortos[j] = s]
          = [SocketFechado(j) EXCEPT !.mortos = [SocketFechado(j).mortos EXCEPT ![j] = s]]
    BY <2>1
  <2>5. QED
    BY <1>2, <2>2, <2>3, <2>4, Zenon
<1> HIDE DEF mo
<1>8. /\ emissor' \in Emissor
      /\ \A k \in Jogadores \ {j} : Intocado(k)
      /\ emissor'.sala[j] = Nada /\ GruposDe'[j] = {} /\ emissor'.mortos[j] = s
  BY <1>1, <1>6, <1>7, SocketFechadoCorreto
<1>9. /\ \A k \in Jogadores : k # j => SalasDe'[k] = SalasDe[k] /\ ConectadoEm'[k] \subseteq ConectadoEm[k]
      /\ SalasDe'[j] = {s}
  <2>1. Movimento(s, {}, {j})
    BY <1>1, <1>3, <1>5, TrocaApos
  <2>2. QED
    BY <1>5, <2>1 DEF Movimento
<1>10. ConectadoEm'[j] \subseteq {s}
  BY <1>9 DEF ConectadoEm, Conectados, SalasDe, JogadoresAtivos
<1>11. SemLigacao(j)
  BY <1>4, <1>8, <1>10 DEF SemLigacao
<1>12. \A k \in Jogadores \ {j} : Alheio(k)
  BY <1>4, <1>8, <1>9 DEF Alheio, Intocado
<1>13. QED
  BY <1>4, <1>5, <1>8, <1>11, <1>12 DEF PassoDaRede, TipoDaRede, Toca

LEMMA FormaDoRegistro ==
  ASSUME emissor \in Emissor, NEW j \in Jogadores, NEW s \in Salas
  PROVE  Registrado(j, s) = [grupos |-> [emissor.grupos EXCEPT ![s] = @ \cup {j}],
                             sala |-> [emissor.sala EXCEPT ![j] = s],
                             mortos |-> emissor.mortos,
                             sobras |-> [emissor.sobras EXCEPT ![j] = @ \ {s}]]
<1>1. SUFFICES ASSUME NEW r, r = Registrado(j, s)
      PROVE  r = [grupos |-> [emissor.grupos EXCEPT ![s] = @ \cup {j}],
                  sala |-> [emissor.sala EXCEPT ![j] = s],
                  mortos |-> emissor.mortos,
                  sobras |-> [emissor.sobras EXCEPT ![j] = @ \ {s}]]
  OBVIOUS
<1>2. QED
  BY <1>1 DEF Registrado, Emissor

LEMMA ReconectarCorreto ==
  ASSUME emissor \in Emissor, NEW j \in Jogadores, NEW s \in Salas,
         emissor' = [Registrado(j, s) EXCEPT !.sobras[j] = {}]
  PROVE  /\ emissor' \in Emissor
         /\ \A k \in Jogadores \ {j} : Intocado(k)
         /\ emissor'.sala[j] = s /\ emissor'.sobras[j] = {}
         /\ GruposDe'[j] = GruposDe[j] \cup {s}
<1> DEFINE g == [emissor.grupos EXCEPT ![s] = @ \cup {j}]
           a == [emissor.sala EXCEPT ![j] = s]
           m == emissor.mortos
           so == [emissor.sobras EXCEPT ![j] = @ \ {s}]
           limpas == [emissor.sobras EXCEPT ![j] = {}]
<1>1. Registrado(j, s) = [grupos |-> g, sala |-> a, mortos |-> m, sobras |-> so]
  BY FormaDoRegistro
<1>2. /\ g \in [Salas -> SUBSET Jogadores] /\ a \in [Jogadores -> Salas \cup {Nada}]
      /\ m \in [Jogadores -> Salas \cup {Nada}] /\ limpas \in [Jogadores -> SUBSET Salas]
      /\ limpas = [so EXCEPT ![j] = {}]
  BY DEF Emissor
<1>3. /\ \A t \in Salas : g[t] = IF t = s THEN emissor.grupos[t] \cup {j} ELSE emissor.grupos[t]
      /\ \A k \in Jogadores \ {j} : a[k] = emissor.sala[k] /\ limpas[k] = emissor.sobras[k]
      /\ a[j] = s /\ limpas[j] = {}
  BY DEF Emissor
<1>4. m = emissor.mortos
  OBVIOUS
<1> HIDE DEF g, a, m, so, limpas
<1>5. emissor' = [grupos |-> g, sala |-> a, mortos |-> m, sobras |-> limpas]
  <2>1. emissor' = [[grupos |-> g, sala |-> a, mortos |-> m, sobras |-> so] EXCEPT !.sobras[j] = {}]
    BY <1>1, Zenon
  <2>2. QED
    BY <1>2, <2>1
<1>6. /\ emissor' \in Emissor
      /\ emissor'.grupos = g /\ emissor'.sala = a
      /\ emissor'.mortos = m /\ emissor'.sobras = limpas
  BY <1>2, <1>5, EmissorNovo
<1>7. \A k \in Jogadores \ {j} : Intocado(k)
  <2>1. \A t \in Salas : g[t] \ {j} = emissor.grupos[t] \ {j}
    BY <1>3
  <2>2. \A k \in Jogadores \ {j} : /\ a[k] = emissor.sala[k] /\ m[k] = emissor.mortos[k]
                                    /\ limpas[k] = emissor.sobras[k]
    BY <1>3, <1>4
  <2>3. QED
    BY <1>6, <2>1, <2>2, SoODe
<1>8. GruposDe'[j] = GruposDe[j] \cup {s}
  <2>1. \A t \in Salas : j \in g[t] <=> t = s \/ j \in emissor.grupos[t]
    BY <1>3
  <2>2. GruposDe[j] = {t \in Salas : j \in emissor.grupos[t]}
    BY DEF GruposDe
  <2>3. GruposDe'[j] = {t \in Salas : j \in g[t]}
    BY <1>6 DEF GruposDe
  <2>4. QED
    BY <2>1, <2>2, <2>3
<1>9. QED
  BY <1>3, <1>6, <1>7, <1>8

LEMMA AbrirPasso ==
  ASSUME IInvDaRede, NEW j \in Jogadores, Abrir(j)
  PROVE  PassoDaRede
<1>1. /\ IInv /\ TipoDaRede /\ emissor \in Emissor
      /\ GruposDe[j] = {} /\ ligacao[j] = "fechada"
  BY DEF IInvDaRede, TipoDaRede, Rede, Fechado, Abrir
<1>2. /\ PedidosTipados' /\ ligacao' \in [Jogadores -> {"aberta", "fechada"}]
      /\ ligacao'[j] = "aberta" /\ \A k \in Jogadores \ {j} : ligacao'[k] = ligacao[k]
  BY <1>1, PedidosIguais DEF Abrir, TipoDaRede
<1>3. CASE /\ ~ Associado(j)
           /\ emissor' = [emissor EXCEPT !.sobras[j] = {}] /\ UNCHANGED <<salas, lotes>>
  <2>1. \A k \in Jogadores : SalasDe'[k] = SalasDe[k] /\ ConectadoEm'[k] = ConectadoEm[k]
    BY <1>3 DEF SalasDe, ConectadoEm
  <2>2. emissor' = [grupos |-> emissor.grupos, sala |-> emissor.sala, mortos |-> emissor.mortos,
                    sobras |-> [emissor.sobras EXCEPT ![j] = {}]]
    BY <1>1, <1>3 DEF Emissor
  <2>3. /\ emissor' \in Emissor
        /\ emissor'.sala[j] = emissor.sala[j] /\ GruposDe'[j] = GruposDe[j]
        /\ \A k \in Jogadores \ {j} : Intocado(k)
    BY <1>1, <2>2 DEF Emissor, Intocado, GruposDe
  <2>4. Avulso(j)
    BY <1>1, <1>2, <1>3, <2>1, <2>3, LivreSemSalas DEF Avulso
  <2>5. \A k \in Jogadores \ {j} : Alheio(k)
    BY <1>2, <2>1, <2>3 DEF Alheio, Intocado
  <2>6. QED
    BY <1>2, <1>3, <2>3, <2>4, <2>5 DEF PassoDaRede, TipoDaRede, Toca, vars
<1>4. CASE \E v \in VinculosDe(j) : Reconectar(j, v[1], v[2])
  <2>1. PICK s \in Salas : \E m \in Ativos(salas[s]) : m.jogador = j /\ Reconectar(j, s, m)
    BY <1>4, VinculoDe
  <2>2. PICK m \in Ativos(salas[s]) : m.jogador = j /\ Reconectar(j, s, m)
    BY <2>1
  <2>3. SalasDe[j] = {s}
    BY <1>1, <2>2, UmaSala DEF SalasDe, JogadoresAtivos
  <2>4. /\ [Next]_vars /\ SalasDe'[j] = {s}
        /\ \A k \in Jogadores \ {j} :
             SalasDe'[k] = SalasDe[k] /\ ConectadoEm'[k] \subseteq ConectadoEm[k]
    <3>1. CASE salas' = salas
      BY <2>3, <3>1 DEF SalasDe, ConectadoEm, vars
    <3>2. CASE ReconectarJogador(s, m)
      <4> DEFINE nova == ComPresenca(salas[s], m, "conectado")
      <4>1. Substituir(s, nova) /\ SalaIntegra(salas[s])
        BY <1>1, <3>2 DEF ReconectarJogador, IInv
      <4>2. Troca(salas[s], nova, {}, {j})
        BY <2>2, <4>1, ComPresencaTroca
      <4>3. Next
        BY <3>2 DEF Next, ComandoDeMembro
      <4> HIDE DEF nova
      <4>4. Movimento(s, {}, {j})
        BY <1>1, <4>1, <4>2, TrocaApos
      <4>5. QED
        BY <2>3, <4>3, <4>4 DEF Movimento
    <3>3. QED
      BY <2>2, <3>1, <3>2 DEF Reconectar
  <2>5. /\ emissor' \in Emissor
        /\ \A k \in Jogadores \ {j} : Intocado(k)
        /\ emissor'.sala[j] = s /\ emissor'.sobras[j] = {}
        /\ GruposDe'[j] = GruposDe[j] \cup {s}
    BY <1>1, <2>2, ReconectarCorreto DEF Reconectar
  <2>6. Chega(j, s)
    BY <1>1, <1>2, <2>4, <2>5 DEF Chega
  <2>7. \A k \in Jogadores \ {j} : Alheio(k)
    BY <1>2, <2>4, <2>5 DEF Alheio, Intocado
  <2>8. QED
    BY <1>2, <2>4, <2>5, <2>6, <2>7 DEF PassoDaRede, TipoDaRede, Toca
<1>5. QED
  BY <1>3, <1>4 DEF Abrir

-----------------------------------------------------------------------------
LEMMA TodoPasso ==
  ASSUME IInvDaRede, [NextDaRede]_varsDaRede
  PROVE  PassoDaRede
<1>1. IInv /\ TipoDaRede
  BY DEF IInvDaRede
<1>2. CASE UNCHANGED varsDaRede
  BY <1>1, <1>2, PedidosIguais, PassoParado DEF varsDaRede, TipoDaRede
<1>3. CASE \E j \in Jogadores :
             \/ Atender(j) \/ Ler(j) \/ Clicar(j)
             \/ Cair(j) \/ Recarregar(j) \/ CairAoEntrar(j) \/ Abrir(j)
  <2>1. PICK j \in Jogadores :
          \/ Atender(j) \/ Ler(j) \/ Clicar(j)
          \/ Cair(j) \/ Recarregar(j) \/ CairAoEntrar(j) \/ Abrir(j)
    BY <1>3
  <2>2. CASE Atender(j)
    BY <1>1, <2>2, AtenderPasso
  <2>3. CASE Ler(j)
    BY <1>1, <2>3, LerPasso
  <2>4. CASE Clicar(j)
    BY <1>1, <2>4, ClicarPasso
  <2>5. CASE Cair(j) \/ Recarregar(j)
    BY <2>5, CairPasso
  <2>6. CASE CairAoEntrar(j)
    BY <2>6, CairAoEntrarPasso
  <2>7. CASE Abrir(j)
    BY <2>7, AbrirPasso
  <2>8. QED
    BY <2>1, <2>2, <2>3, <2>4, <2>5, <2>6, <2>7
<1>4. CASE \E s \in Salas :
             \/ AceitarOferta(s) \/ OfertaDesatualizada(s) \/ OfertaFrustrada(s)
             \/ \E saidas \in SUBSET Ativos(salas[s]) : Retornar(s, saidas)
             \/ \E m \in Ativos(salas[s]) : RemoverDesistente(s, m) \/ Expirar(s, m)
  <2>1. PICK s \in Salas :
          \/ AceitarOferta(s) \/ OfertaDesatualizada(s) \/ OfertaFrustrada(s)
          \/ \E saidas \in SUBSET Ativos(salas[s]) : Retornar(s, saidas)
          \/ \E m \in Ativos(salas[s]) : RemoverDesistente(s, m) \/ Expirar(s, m)
    BY <1>4
  <2>2. CASE AceitarOferta(s) \/ OfertaDesatualizada(s) \/ OfertaFrustrada(s)
    BY <1>1, <2>2, OfertaPasso
  <2>3. CASE \E saidas \in SUBSET Ativos(salas[s]) : Retornar(s, saidas)
    BY <1>1, <2>3, RetornarPasso
  <2>4. CASE \E m \in Ativos(salas[s]) : RemoverDesistente(s, m) \/ Expirar(s, m)
    BY <1>1, <2>4, DesistentePasso, ExpirarPasso
  <2>5. QED
    BY <2>1, <2>2, <2>3, <2>4
<1>5. QED
  BY <1>2, <1>3, <1>4 DEF NextDaRede

(* A Sala that is over stays over.                                         *)
LEMMA FimFica ==
  ASSUME IInv, [Next]_vars
  PROVE  TerminaisFicam
<1>1. CASE UNCHANGED vars
  BY <1>1 DEF vars, TerminaisFicam
<1>2. CASE Next
  <2>1. PICK s \in Salas : Substituir(s, salas'[s]) /\ Efeito(salas[s], salas'[s])
    BY <1>2, EfeitoDoPasso
  <2>2. \A t \in Salas : t # s => salas'[t] = salas[t]
    BY <2>1, SoUmaMuda
  <2>3. ASSUME salas[s].estado \in Terminal
        PROVE  salas'[s].estado = salas[s].estado
    <3>1. salas[s].estado \notin {"aberta", "encaminhada", "inexistente"}
      BY <2>3 DEF Terminal
    <3>2. Ativos(salas[s]) = {}
      BY <3>1 DEF IInv, SalaIntegra, AnfitriaoDaSala, Viva
    <3>3. /\ ~ Parte(salas[s], salas'[s]) /\ ~ Fecha(salas[s], salas'[s])
          /\ ~ Volta(salas[s], salas'[s])
          /\ \A j \in Jogadores : /\ ~ Nasce(salas[s], salas'[s], j)
                                  /\ ~ Recebe(salas[s], salas'[s], j)
      BY <3>1 DEF Parte, Fecha, Volta, Nasce, Recebe, PodeEntrar, AbertaConsistente
    <3>4. ~ Perde(salas[s], salas'[s])
      BY <3>2 DEF Perde
    <3>5. Parada(salas[s], salas'[s])
      BY <2>1, <3>3, <3>4 DEF Efeito
    <3>6. QED
      BY <3>5 DEF Parada
  <2>4. QED
    BY <2>2, <2>3 DEF TerminaisFicam
<1>3. QED
  BY <1>1, <1>2

LEMMA RedeFica ==
  ASSUME IInvDaRede, PassoDaRede, NEW k \in Jogadores
  PROVE  Rede(k)'
<1>1. /\ IInv /\ IInv' /\ TipoDaRede /\ Rede(k) /\ Toca(k) /\ TerminaisFicam
  BY NextIInv, FimFica DEF IInvDaRede, PassoDaRede
<1>2. CASE Alheio(k)
  BY <1>1, <1>2, AlheioFica
<1>3. CASE Larga(k)
  BY <1>1, <1>3, LargaFica
<1>4. CASE Sobra(k)
  BY <1>1, <1>4, SobraFica
<1>5. CASE SemLigacao(k)
  BY <1>5, SemLigacaoFica
<1>6. CASE Avulso(k)
  BY <1>1, <1>6, AvulsoFica
<1>7. CASE \E s \in Salas : Chega(k, s) \/ Desfaz(k, s)
  BY <1>1, <1>7, ChegaFica, DesfazFica
<1>8. QED
  BY <1>1, <1>2, <1>3, <1>4, <1>5, <1>6, <1>7 DEF Toca

LEMMA InitDaRedeIInv == InitDaRede => IInvDaRede
<1> SUFFICES ASSUME InitDaRede PROVE IInvDaRede
  OBVIOUS
<1>1. IInv
  BY InitIInv DEF InitDaRede
<1>2. TipoDaRede
  <2>1. emissor \in Emissor /\ ligacao \in [Jogadores -> {"aberta", "fechada"}]
    BY DEF InitDaRede, Emissor
  <2>2. PedidosDe({})
    BY EmptySeq DEF InitDaRede, PedidosDe
  <2>3. QED
    BY <2>1, <2>2 DEF TipoDaRede, PedidosTipados
<1>3. ASSUME NEW k \in Jogadores PROVE Rede(k)
  <2>1. emissor.sala[k] = Nada /\ GruposDe[k] = {}
    BY DEF InitDaRede, GruposDe
  <2>2. ConectadoEm[k] = {}
    BY DEF InitDaRede, Init, SalaInexistente, ConectadoEm, Conectados, Ativos
  <2>3. QED
    BY <2>1, <2>2 DEF Rede, Fechado, Notado, NoGrupo
<1>4. QED
  BY <1>1, <1>2, <1>3 DEF IInvDaRede

LEMMA NextDaRedeIInv == IInvDaRede /\ [NextDaRede]_varsDaRede => IInvDaRede'
<1> SUFFICES ASSUME IInvDaRede, [NextDaRede]_varsDaRede PROVE IInvDaRede'
  OBVIOUS
<1>1. PassoDaRede
  BY TodoPasso
<1>2. IInv' /\ TipoDaRede'
  BY <1>1, NextIInv DEF IInvDaRede, PassoDaRede
<1>3. \A k \in Jogadores : Rede(k)'
  BY <1>1, RedeFica
<1>4. QED
  BY <1>2, <1>3, Zenon DEF IInvDaRede

(* The inductive invariant holds of every behaviour of the network.        *)
THEOREM InvarianteDaRede == SpecDaRede => []IInvDaRede
  BY InitDaRedeIInv, NextDaRedeIInv, PTL DEF SpecDaRede

(* The handlers, the returns of matches, the windows and the sockets       *)
(* change the Salas only by commands of the engine, on their terms: a      *)
(* behaviour of the network is, for the Salas, one of LobbyEngine.         *)
THEOREM RedeImplementaEngine == SpecDaRede => Spec
<1>1. InitDaRede => Init
  BY DEF InitDaRede
<1>2. IInvDaRede /\ [NextDaRede]_varsDaRede => [Next]_vars
  BY TodoPasso DEF PassoDaRede
<1>3. QED
  BY <1>1, <1>2, InvarianteDaRede, PTL DEF SpecDaRede, Spec

(* So the pages, whatever they ask and however their commands cross, live  *)
(* the life cycle that CONTEXT.md describes.                               *)
COROLLARY RedeImplementaCiclo == SpecDaRede => ImplementaCiclo
  BY RedeImplementaEngine, EngineImplementaCiclo, PTL

(* A connected Membro has an open socket in the group of its Sala and in   *)
(* the maps its closing is noticed by, unless a socket of it stayed in     *)
(* another Sala or a dead one is in the maps.                              *)
THEOREM PresencaDosSockets == SpecDaRede => []PresencaSegueSocket
<1>1. IInvDaRede => PresencaSegueSocket
  <2> SUFFICES ASSUME IInvDaRede, NEW j \in Jogadores, NEW v \in VinculosDe(j),
                      v[2].presenca = "conectado", emissor.mortos[j] = Nada,
                      ~ SobrouEmOutra(j, v[1])
               PROVE  /\ ligacao[j] = "aberta"
                      /\ emissor.sala[j] = v[1] /\ j \in emissor.grupos[v[1]]
    BY DEF PresencaSegueSocket
  <2>1. v[1] \in Salas /\ v[2] \in Ativos(salas[v[1]]) /\ v[2].jogador = j
    BY VinculoDe
  <2>2. v[1] \in ConectadoEm[j]
    BY <2>1 DEF ConectadoEm, Conectados
  <2>3. emissor.mortos[j] # v[1] /\ emissor.sobras[j] \subseteq {v[1]}
    BY <2>1, NadaAssumption DEF SobrouEmOutra
  <2>4. ligacao[j] = "aberta" /\ emissor.sala[j] = v[1] /\ v[1] \in GruposDe[j]
    BY <2>2, <2>3 DEF IInvDaRede, Rede, Notado
  <2>5. QED
    BY <2>1, <2>4 DEF GruposDe
<1>2. QED
  BY <1>1, InvarianteDaRede, PTL
=============================================================================
