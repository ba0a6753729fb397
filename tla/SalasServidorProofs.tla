------------------------- MODULE SalasServidorProofs -------------------------
(***************************************************************************)
(* Theorems of SalasServidor, for any Players, bots, tabs, limits and      *)
(* bounds.                                                                 *)
(*                                                                         *)
(* The inductive invariant says that the rows of PostgreSQL describe an    *)
(* intact Sala (LobbyDominioProofs): the one in memory while the process   *)
(* runs, and some Sala while it does not, which is what a restart needs.   *)
(* That memory and rows agree is not inductive alone: the rows of a Player *)
(* are found by its name, so it takes one row for each Player, one link    *)
(* for each Player, and a living Anfitrião, to know that a statement of    *)
(* SalasRepo and the command of the engine change the same link.           *)
(***************************************************************************)
EXTENDS SalasServidor, LobbyDominioProofs, SequenceTheorems

Banco == [status: EstadosDaSala, membros: SUBSET Linha,
          anfitriao: Jogadores \cup {Ninguem}, partida: 0 .. MaxPartidas]

Vinculos(s) == {<<m.jogador, m.ordem>> : m \in Ativos(s)}
Ativas(b) == {l \in b.membros : ~ l.bloqueado}
Bloqueadas(b) == {l \in b.membros : l.bloqueado}

(* The rows b describe the Sala s.                                         *)
Espelha(s, b) ==
  /\ s.estado = b.status /\ s.consistente
  /\ Vinculos(s) = {<<l.jogador, l.ordem>> : l \in Ativas(b)}
  /\ s.bloqueados = {l.jogador : l \in Bloqueadas(b)}
  /\ JogadorAnfitriao(s) = b.anfitriao
  /\ \A l \in b.membros : l.ordem < s.proxima
  /\ b.status = "inexistente" => b.membros = {}

LinhasUnicas(b) ==
  \A l, k \in b.membros : l.jogador = k.jogador \/ l.ordem = k.ordem => l = k

(* Memory and rows, whether the process runs or not.                       *)
Coerente(s, b) == SalaIntegra(s) /\ b \in Banco /\ LinhasUnicas(b) /\ Espelha(s, b)

-----------------------------------------------------------------------------
(* The Anfitrião as a Player.                                              *)

(* The Player of the Anfitrião of an intact Sala is the one of the link    *)
(* that has the Anfitrião's order.                                         *)
LEMMA AnfitriaoEhUnico ==
  ASSUME NEW s, SalaIntegra(s), NEW a \in Ativos(s), EhAnfitriao(s, a)
  PROVE  JogadorAnfitriao(s) = a.jogador
<1>1. \A n \in Ativos(s) : EhAnfitriao(s, n) => n = a
  BY DEF SalaIntegra, OrdensDaSala, EhAnfitriao, Ativos
<1>2. (CHOOSE n \in Ativos(s) : EhAnfitriao(s, n)) = a
  BY <1>1
<1>3. QED
  BY <1>2 DEF JogadorAnfitriao, TemAnfitriao

(* A Sala that lives has one, a Sala that does not has none.               *)
LEMMA AnfitriaoVivoOuNinguem ==
  ASSUME NEW s, SalaIntegra(s)
  PROVE  /\ s.estado \in Viva =>
              \E a \in Ativos(s) : EhAnfitriao(s, a) /\ JogadorAnfitriao(s) = a.jogador
         /\ s.estado \notin Viva => Ativos(s) = {} /\ JogadorAnfitriao(s) = Ninguem
<1>1. CASE s.estado \in Viva
  <2>1. PICK a \in Ativos(s) : EhAnfitriao(s, a)
    BY <1>1 DEF SalaIntegra, AnfitriaoDaSala, TemAnfitriao
  <2>2. JogadorAnfitriao(s) = a.jogador
    BY <2>1, AnfitriaoEhUnico
  <2>3. QED
    BY <1>1, <2>1, <2>2
<1>2. CASE s.estado \notin Viva
  BY <1>2 DEF SalaIntegra, AnfitriaoDaSala, JogadorAnfitriao, TemAnfitriao
<1>3. QED
  BY <1>1, <1>2

(* Two living Salas with the same Anfitrião, one with links of the other,  *)
(* name the same Player.                                                   *)
LEMMA AnfitriaoPreservado ==
  ASSUME NEW s, NEW n, SalaIntegra(s), SalaIntegra(n), n.estado \in Viva,
         Vinculos(n) \subseteq Vinculos(s), n.anfitriao = s.anfitriao
  PROVE  JogadorAnfitriao(n) = JogadorAnfitriao(s)
<1>1. PICK a \in Ativos(n) : EhAnfitriao(n, a) /\ JogadorAnfitriao(n) = a.jogador
  BY AnfitriaoVivoOuNinguem
<1>2. PICK c \in Ativos(s) : c.jogador = a.jogador /\ c.ordem = a.ordem
  <2>1. <<a.jogador, a.ordem>> \in Vinculos(s)
    BY DEF Vinculos
  <2>2. QED
    BY <2>1 DEF Vinculos
<1>3. EhAnfitriao(s, c)
  BY <1>1, <1>2 DEF EhAnfitriao
<1>4. QED
  BY <1>1, <1>2, <1>3, AnfitriaoEhUnico

(* A command that leaves links, Anfitrião and blocked Players of a living  *)
(* Sala as they were is a command that PostgreSQL does not see.            *)
LEMMA MesmasLinhas ==
  ASSUME NEW s, NEW b, Coerente(s, b), NEW n, SalaIntegra(n),
         n.estado = s.estado, s.estado \in Viva, n.consistente,
         Vinculos(n) = Vinculos(s), n.anfitriao = s.anfitriao,
         n.bloqueados = s.bloqueados, n.proxima = s.proxima
  PROVE  Coerente(n, b)
<1>1. JogadorAnfitriao(n) = JogadorAnfitriao(s)
  BY AnfitriaoPreservado DEF Coerente
<1>2. QED
  BY <1>1 DEF Coerente, Espelha

(* Presence and readiness are such commands.                               *)
LEMMA PresencaSemLinhas ==
  ASSUME NEW s, NEW b, Coerente(s, b), NEW m \in Ativos(s), NEW p \in Presencas
  PROVE  /\ Coerente(ComPresenca(s, m, p), b)
         /\ Ativos(ComPresenca(s, m, p)) = (Ativos(s) \ {m}) \cup {[m EXCEPT !.presenca = p]}
<1> DEFINE n == ComPresenca(s, m, p)
           k == [m EXCEPT !.presenca = p]
<1>1. SalaIntegra(s) /\ s \in Sala /\ m \in Membro /\ s.estado \in Viva
  BY DEF Coerente, SalaIntegra, AnfitriaoDaSala, Sala, Ativos
<1>2. SalaIntegra(n)
  BY <1>1, ComPresencaIntegra
<1>3. /\ n.estado = s.estado /\ n.consistente = s.consistente
      /\ n.anfitriao = s.anfitriao /\ n.bloqueados = s.bloqueados
      /\ n.proxima = s.proxima /\ n.membros = (s.membros \ {m}) \cup {k}
  BY <1>1 DEF ComPresenca, Sala
<1>4. k.estado = m.estado /\ k.jogador = m.jogador /\ k.ordem = m.ordem
  BY <1>1 DEF Membro
<1> HIDE DEF n, k
<1>5. Ativos(n) = (Ativos(s) \ {m}) \cup {k}
  BY <1>3, <1>4 DEF Ativos
<1>6. Vinculos(n) = Vinculos(s)
  BY <1>4, <1>5 DEF Vinculos
<1>7. n.consistente
  BY <1>3 DEF Coerente, Espelha
<1>8. Coerente(n, b)
  BY <1>1, <1>2, <1>3, <1>6, <1>7, MesmasLinhas
<1>9. QED
  BY <1>5, <1>8 DEF n, k

LEMMA ProntidaoSemLinhas ==
  ASSUME NEW s, NEW b, Coerente(s, b), NEW m \in Ativos(s)
  PROVE  /\ Coerente(ComProntidaoAlternada(s, m), b)
         /\ Ativos(ComProntidaoAlternada(s, m)) = (Ativos(s) \ {m}) \cup {[m EXCEPT !.pronto = ~ @]}
<1> DEFINE n == ComProntidaoAlternada(s, m)
           k == [m EXCEPT !.pronto = ~ @]
<1>1. SalaIntegra(s) /\ s \in Sala /\ m \in Membro /\ s.estado \in Viva
  BY DEF Coerente, SalaIntegra, AnfitriaoDaSala, Sala, Ativos
<1>2. SalaIntegra(n)
  BY <1>1, ComProntidaoAlternadaIntegra
<1>3. /\ n.estado = s.estado /\ n.consistente = s.consistente
      /\ n.anfitriao = s.anfitriao /\ n.bloqueados = s.bloqueados
      /\ n.proxima = s.proxima /\ n.membros = (s.membros \ {m}) \cup {k}
  BY <1>1 DEF ComProntidaoAlternada, Sala
<1>4. k.estado = m.estado /\ k.jogador = m.jogador /\ k.ordem = m.ordem
  BY <1>1 DEF Membro
<1> HIDE DEF n, k
<1>5. Ativos(n) = (Ativos(s) \ {m}) \cup {k}
  BY <1>3, <1>4 DEF Ativos
<1>6. Vinculos(n) = Vinculos(s)
  BY <1>4, <1>5 DEF Vinculos
<1>7. n.consistente
  BY <1>3 DEF Coerente, Espelha
<1>8. Coerente(n, b)
  BY <1>1, <1>2, <1>3, <1>6, <1>7, MesmasLinhas
<1>9. QED
  BY <1>5, <1>8 DEF n, k

-----------------------------------------------------------------------------
(* The statements of SalasRepo against the commands of the engine.         *)

(* The row of a Player that is active is the row of its link, is not       *)
(* blocked and is the only one of that Player.                             *)
LEMMA LinhaDoMembro ==
  ASSUME Coerente(sala, pg), NEW m \in Ativos(sala)
  PROVE  \E l \in Ativas(pg) : /\ l.jogador = m.jogador /\ l.ordem = m.ordem
                               /\ LinhaDe(m.jogador) = {l}
<1>1. <<m.jogador, m.ordem>> \in {<<l.jogador, l.ordem>> : l \in Ativas(pg)}
  BY DEF Coerente, Espelha, Vinculos
<1>2. PICK l \in Ativas(pg) : l.jogador = m.jogador /\ l.ordem = m.ordem
  BY <1>1
<1>3. LinhaDe(m.jogador) = {l}
  BY <1>2 DEF LinhaDe, Ativas, Coerente, LinhasUnicas
<1>4. QED
  BY <1>2, <1>3

(* The same for several links at once: the rows of the Players of saidas   *)
(* are the rows of saidas, and taking them away takes those links away.    *)
LEMMA LinhasDosQueSaem ==
  ASSUME Coerente(sala, pg), NEW saidas \in SUBSET Ativos(sala), NEW n, NEW b,
         Ativos(n) = Ativos(sala) \ saidas,
         b.membros = {l \in pg.membros : l.jogador \notin {m.jogador : m \in saidas}}
  PROVE  /\ Vinculos(n) = {<<l.jogador, l.ordem>> : l \in Ativas(b)}
         /\ Bloqueadas(b) = Bloqueadas(pg)
<1> DEFINE saem == {m.jogador : m \in saidas}
<1>1. \A m \in Ativos(sala) : m.jogador \in saem <=> m \in saidas
  BY DEF Coerente, SalaIntegra, VinculosDaSala
<1>2. Vinculos(n) = {v \in Vinculos(sala) : v[1] \notin saem}
  <2>1. ASSUME NEW v \in Vinculos(n) PROVE v \in Vinculos(sala) /\ v[1] \notin saem
    BY <1>1 DEF Vinculos
  <2>2. ASSUME NEW v \in Vinculos(sala), v[1] \notin saem PROVE v \in Vinculos(n)
    BY <1>1, <2>2 DEF Vinculos
  <2>3. QED
    BY <2>1, <2>2
<1>3. {<<l.jogador, l.ordem>> : l \in Ativas(b)}
        = {v \in {<<l.jogador, l.ordem>> : l \in Ativas(pg)} : v[1] \notin saem}
  BY DEF Ativas
<1>4. Vinculos(n) = {<<l.jogador, l.ordem>> : l \in Ativas(b)}
  BY <1>2, <1>3 DEF Coerente, Espelha
<1>5. ASSUME NEW l \in Bloqueadas(pg) PROVE l.jogador \notin saem
  <2>1. SUFFICES ASSUME NEW m \in saidas, l.jogador = m.jogador PROVE FALSE
    OBVIOUS
  <2>2. m \in Ativos(sala)
    OBVIOUS
  <2>3. PICK k \in Ativas(pg) : LinhaDe(m.jogador) = {k}
    BY <2>2, LinhaDoMembro
  <2>4. l \in LinhaDe(m.jogador)
    BY <2>1 DEF LinhaDe, Bloqueadas
  <2>5. QED
    BY <2>3, <2>4 DEF Ativas, Bloqueadas
<1>6. Bloqueadas(b) = Bloqueadas(pg)
  BY <1>5 DEF Bloqueadas
<1>7. QED
  BY <1>4, <1>6

(* terminarVinculoAtomico follows sair_da_sala, its orphan and desistência *)
(* variants, and expirar_reconexao.                                        *)
LEMMA SaidaCoerente ==
  ASSUME Coerente(sala, pg), NEW m \in Ativos(sala),
         NEW motivo \in Motivos, NEW final \in Terminal,
         NEW n, n = ComSaida(sala, m, motivo, final)
  PROVE  /\ Coerente(n, PgTermina(m.jogador, n))
         /\ Ativos(n) = Ativos(sala) \ {m}
<1> DEFINE b == PgTermina(m.jogador, n)
<1>1. SalaIntegra(sala) /\ sala \in Sala /\ pg \in Banco /\ sala.estado \in Viva
      /\ sala.estado = pg.status
  BY DEF Coerente, Espelha, SalaIntegra, AnfitriaoDaSala
<1>2. SalaIntegra(n) /\ Ativos(n) = Ativos(sala) \ {m}
  BY <1>1, ComSaidaIntegra
<1>3. /\ n.consistente = sala.consistente /\ n.bloqueados = sala.bloqueados
      /\ n.proxima = sala.proxima /\ n.estado \in {sala.estado, final}
      /\ n.estado \in EstadosDaSala
  BY <1>1 DEF ComSaida, Sala, Terminal, EstadosDaSala
<1>4. /\ b.membros = {l \in pg.membros : l.jogador # m.jogador}
      /\ b.status = IF n.estado \in Terminal THEN n.estado ELSE pg.status
      /\ b.anfitriao = IF n.estado \in Terminal THEN Ninguem
                       ELSE IF n.anfitriao # sala.anfitriao
                       THEN JogadorAnfitriao(n) ELSE pg.anfitriao
      /\ b.partida = pg.partida
  BY <1>1 DEF PgTermina, Banco, LinhaDe
<1>5. n.estado \in Terminal <=> n.estado \notin Viva
  BY <1>1, <1>3 DEF Terminal, Viva
<1>6. JogadorAnfitriao(n) = b.anfitriao
  <2>1. CASE n.estado \notin Viva
    BY <1>2, <1>4, <1>5, <2>1, AnfitriaoVivoOuNinguem
  <2>2. CASE n.estado \in Viva /\ n.anfitriao # sala.anfitriao
    BY <1>4, <1>5, <2>2
  <2>3. CASE n.estado \in Viva /\ n.anfitriao = sala.anfitriao
    <3>1. Vinculos(n) \subseteq Vinculos(sala)
      BY <1>2 DEF Vinculos
    <3>2. JogadorAnfitriao(n) = JogadorAnfitriao(sala)
      BY <1>1, <1>2, <2>3, <3>1, AnfitriaoPreservado
    <3>3. QED
      BY <1>4, <1>5, <2>3, <3>2 DEF Coerente, Espelha
  <2>4. QED
    BY <2>1, <2>2, <2>3
<1>7. n.estado = b.status
  BY <1>1, <1>3, <1>4, <1>5 DEF Terminal, Viva
<1>8. b \in Banco
  <2>1. JogadorAnfitriao(n) \in Jogadores \cup {Ninguem}
    BY <1>2, AnfitriaoVivoOuNinguem DEF SalaIntegra, Sala, Membro, Ativos
  <2>2. b.membros \subseteq pg.membros /\ b.status \in EstadosDaSala
    BY <1>3, <1>4, <1>7
  <2>3. QED
    BY <1>1, <1>6, <2>1, <2>2 DEF Banco, PgTermina
<1> HIDE DEF b
<1>9. /\ Vinculos(n) = {<<l.jogador, l.ordem>> : l \in Ativas(b)}
      /\ Bloqueadas(b) = Bloqueadas(pg)
  <2>1. {m} \in SUBSET Ativos(sala) /\ {k.jogador : k \in {m}} = {m.jogador}
    OBVIOUS
  <2>2. b.membros = {l \in pg.membros : l.jogador \notin {k.jogador : k \in {m}}}
    BY <1>4, <2>1
  <2>3. QED
    BY <1>2, <2>1, <2>2, LinhasDosQueSaem, Zenon
<1>10. /\ \A l \in b.membros : l.ordem < n.proxima
       /\ b.status # "inexistente" /\ LinhasUnicas(b)
  BY <1>1, <1>3, <1>4, <1>7 DEF Coerente, Espelha, LinhasUnicas, Viva, Terminal
<1>11. n.consistente /\ n.bloqueados = {l.jogador : l \in Bloqueadas(b)}
  BY <1>3, <1>9 DEF Coerente, Espelha
<1>12. QED
  BY <1>2, <1>6, <1>7, <1>8, <1>9, <1>10, <1>11 DEF Coerente, Espelha, b

(* reabrirSalaComSaidasAtomico follows reabrirSala and its variant with    *)
(* exits.                                                                  *)
LEMMA ReaberturaCoerente ==
  ASSUME Coerente(sala, pg), NEW saidas, PodeReabrir(sala, saidas),
         NEW n, n = SalaReaberta(sala, saidas)
  PROVE  Coerente(n, PgReabre({m.jogador : m \in saidas}, n))
<1> DEFINE b == PgReabre({m.jogador : m \in saidas}, n)
           meio == [sala EXCEPT !.membros = Encerrar(@, saidas, "saida")]
<1>1. /\ SalaIntegra(sala) /\ sala \in Sala /\ pg \in Banco
      /\ sala.estado = "encaminhada" /\ saidas \in SUBSET Ativos(sala)
      /\ sala.consistente
  BY DEF Coerente, SalaIntegra, PodeReabrir, EncaminhadaConsistente
<1>2. SalaIntegra(n) /\ n.estado = "aberta" /\ n.consistente
      /\ n.bloqueados = sala.bloqueados /\ n.proxima = sala.proxima
      /\ n.membros = {NaoPronto(m) : m \in Encerrar(sala.membros, saidas, "saida")}
  BY <1>1, SalaReabertaIntegra DEF SalaReaberta, Sala
<1>3. /\ b.membros = {l \in pg.membros : l.jogador \notin {m.jogador : m \in saidas}}
      /\ b.status = "aberta" /\ b.partida = 0
      /\ b.anfitriao = IF n.anfitriao = sala.anfitriao THEN pg.anfitriao
                       ELSE JogadorAnfitriao(n)
  BY <1>1 DEF PgReabre, Banco
<1>4. /\ Ativos(meio) = Ativos(sala) \ saidas
      /\ Encerrar(sala.membros, saidas, "saida") \in SUBSET Membro
      /\ meio.membros = Encerrar(sala.membros, saidas, "saida")
  <2>1. sala.membros \in SUBSET Membro /\ saidas \in SUBSET sala.membros /\ "saida" \in Motivos
    BY <1>1 DEF Sala, Ativos, Motivos
  <2>2. meio.membros = Encerrar(sala.membros, saidas, "saida")
    BY <1>1 DEF Sala
  <2>3. QED
    BY <2>1, <2>2, EncerrarCorreto DEF Ativos
<1> HIDE DEF meio
<1>5. Vinculos(n) = Vinculos(meio)
  <2>1. \A m \in meio.membros : /\ NaoPronto(m).ordem = m.ordem /\ NaoPronto(m).jogador = m.jogador
                                /\ NaoPronto(m).estado = m.estado
    BY <1>4, VinculoReiniciado
  <2>2. Ativos(n) = {NaoPronto(m) : m \in Ativos(meio)}
    BY <1>2, <1>4, <2>1 DEF Ativos
  <2>3. QED
    BY <2>1, <2>2 DEF Vinculos, Ativos
<1> HIDE DEF b
<1>6. /\ Vinculos(n) = {<<l.jogador, l.ordem>> : l \in Ativas(b)}
      /\ Bloqueadas(b) = Bloqueadas(pg)
  <2>1. /\ Vinculos(meio) = {<<l.jogador, l.ordem>> : l \in Ativas(b)}
        /\ Bloqueadas(b) = Bloqueadas(pg)
    BY <1>1, <1>3, <1>4, LinhasDosQueSaem
  <2>2. QED
    BY <1>5, <2>1
<1>7. JogadorAnfitriao(n) = b.anfitriao
  <2>1. Vinculos(n) \subseteq Vinculos(sala)
    BY <1>4, <1>5 DEF Vinculos
  <2>2. n.anfitriao = sala.anfitriao => JogadorAnfitriao(n) = JogadorAnfitriao(sala)
    BY <1>1, <1>2, <2>1, AnfitriaoPreservado DEF Viva
  <2>3. QED
    BY <1>3, <2>2 DEF Coerente, Espelha
<1>8. b \in Banco
  <2>1. JogadorAnfitriao(n) \in Jogadores \cup {Ninguem}
    BY <1>2, AnfitriaoVivoOuNinguem DEF SalaIntegra, Sala, Membro, Ativos
  <2>2. b.membros \subseteq pg.membros
    BY <1>3
  <2>3. b.anfitriao \in Jogadores \cup {Ninguem}
    BY <1>7, <2>1
  <2>4. 0 \in 0 .. MaxPartidas /\ "aberta" \in EstadosDaSala
    BY ServidorAssumption DEF EstadosDaSala
  <2>5. pg.anfitriao \in Jogadores \cup {Ninguem} /\ pg.membros \in SUBSET Linha
    BY <1>1 DEF Banco
  <2>6. PgReabre({m.jogador : m \in saidas}, n) \in Banco
    BY <1>1, <2>1, <2>4, <2>5 DEF Banco, PgReabre
  <2>7. QED
    BY <2>6 DEF b
<1>9. /\ \A l \in b.membros : l.ordem < n.proxima
      /\ b.status # "inexistente" /\ LinhasUnicas(b)
  BY <1>1, <1>2, <1>3 DEF Coerente, Espelha, LinhasUnicas
<1>10. n.bloqueados = {l.jogador : l \in Bloqueadas(b)}
  BY <1>2, <1>6 DEF Coerente, Espelha
<1>11. QED
  BY <1>2, <1>3, <1>6, <1>7, <1>8, <1>9, <1>10 DEF Coerente, Espelha, b

(* encerrarSalaAtomico follows encerrar_sala.                              *)
LEMMA EncerramentoCoerente ==
  ASSUME Coerente(sala, pg)
  PROVE  Coerente(SalaEncerrada(sala), PgEncerra)
<1> DEFINE n == SalaEncerrada(sala)
<1>1. SalaIntegra(sala) /\ sala \in Sala /\ pg \in Banco /\ sala.consistente
  BY DEF Coerente, SalaIntegra, Espelha
<1>2. SalaIntegra(n) /\ Ativos(n) = {}
  BY <1>1, SalaEncerradaIntegra
<1>3. /\ n.estado = "encerrada" /\ n.consistente /\ n.bloqueados = sala.bloqueados
      /\ n.proxima = sala.proxima
  BY <1>1 DEF SalaEncerrada, Sala
<1>4. JogadorAnfitriao(n) = Ninguem
  BY <1>2, <1>3, AnfitriaoVivoOuNinguem DEF Viva
<1>5. /\ PgEncerra.membros = Bloqueadas(pg) /\ PgEncerra.status = "encerrada"
      /\ PgEncerra.anfitriao = Ninguem /\ PgEncerra \in Banco
  BY <1>1 DEF PgEncerra, Banco, LinhasAtivas, Bloqueadas, EstadosDaSala
<1> HIDE DEF n
<1>6. Ativas(PgEncerra) = {} /\ Bloqueadas(PgEncerra) = Bloqueadas(pg) /\ Vinculos(n) = {}
  BY <1>2, <1>5 DEF Ativas, Bloqueadas, Vinculos
<1>7. LinhasUnicas(PgEncerra) /\ \A l \in PgEncerra.membros : l.ordem < n.proxima
  BY <1>3, <1>5 DEF Coerente, Espelha, LinhasUnicas, Bloqueadas
<1>8. QED
  BY <1>2, <1>3, <1>4, <1>5, <1>6, <1>7 DEF Coerente, Espelha, n

(* criar_sala: the first row of a Sala that nobody had created.            *)
LEMMA CriacaoCoerente ==
  ASSUME Coerente(sala, pg), sala.estado = "inexistente", NEW j \in Jogadores
  PROVE  Coerente(SalaCriada(j),
           [pg EXCEPT !.status = "aberta", !.anfitriao = j,
                      !.membros = {[jogador |-> j, ordem |-> 1, bloqueado |-> FALSE]}])
<1> DEFINE n == SalaCriada(j)
           l == [jogador |-> j, ordem |-> 1, bloqueado |-> FALSE]
           b == [pg EXCEPT !.status = "aberta", !.anfitriao = j, !.membros = {l}]
<1>1. pg \in Banco /\ l \in Linha
  BY ServidorAssumption DEF Coerente, Linha
<1>2. /\ b.status = "aberta" /\ b.anfitriao = j /\ b.membros = {l} /\ b \in Banco
  BY <1>1 DEF Banco, EstadosDaSala
<1>3. SalaIntegra(n)
  BY SalaCriadaIntegra
<1>4. /\ n.estado = "aberta" /\ n.consistente /\ n.bloqueados = {} /\ n.proxima = 2
      /\ n.anfitriao = 1 /\ n.membros = {MembroAtivo(j, 1)}
  BY DEF SalaCriada
<1>5. MembroAtivo(j, 1).estado = "ativo" /\ MembroAtivo(j, 1).ordem = 1
      /\ MembroAtivo(j, 1).jogador = j
  BY DEF MembroAtivo
<1>6. l.jogador = j /\ l.ordem = 1 /\ ~ l.bloqueado
  OBVIOUS
<1> HIDE DEF n, l, b
<1>7. Ativos(n) = {MembroAtivo(j, 1)} /\ Vinculos(n) = {<<j, 1>>}
  BY <1>4, <1>5 DEF Ativos, Vinculos
<1>8. JogadorAnfitriao(n) = j
  BY <1>3, <1>4, <1>5, <1>7, AnfitriaoEhUnico DEF EhAnfitriao
<1>9. Ativas(b) = {l} /\ Bloqueadas(b) = {}
  BY <1>2, <1>6 DEF Ativas, Bloqueadas
<1>10. Espelha(n, b) /\ LinhasUnicas(b)
  BY <1>2, <1>4, <1>6, <1>7, <1>8, <1>9 DEF Espelha, LinhasUnicas
<1>11. QED
  BY <1>2, <1>3, <1>10 DEF Coerente, n, b, l

(* entrar_na_sala: the row is inserted with the order the engine hands out.*)
LEMMA EntradaCoerente ==
  ASSUME Coerente(sala, pg), NEW j \in Jogadores, PodeEntrar(sala, j),
         j \notin JogadoresAtivos(sala), sala.proxima <= MaxOrdem
  PROVE  Coerente(ComEntrada(sala, j),
           [pg EXCEPT !.membros = @ \cup
              {[jogador |-> j, ordem |-> sala.proxima, bloqueado |-> FALSE]}])
<1> DEFINE n == ComEntrada(sala, j)
           novo == MembroAtivo(j, sala.proxima)
           l == [jogador |-> j, ordem |-> sala.proxima, bloqueado |-> FALSE]
           b == [pg EXCEPT !.membros = @ \cup {l}]
<1>1. /\ SalaIntegra(sala) /\ sala \in Sala /\ pg \in Banco /\ sala.estado = "aberta"
      /\ sala.consistente /\ j \notin sala.bloqueados /\ sala.proxima \in Nat
  BY DEF Coerente, SalaIntegra, PodeEntrar, AbertaConsistente, Sala
<1>2. sala.proxima \in 1 .. MaxOrdem /\ l \in Linha
  <2>1. PICK a \in Ativos(sala) : TRUE
    BY <1>1 DEF SalaIntegra, AnfitriaoDaSala, TemAnfitriao, Viva
  <2>2. a.ordem \in Nat \ {0} /\ a.ordem < sala.proxima
    BY <1>1 DEF SalaIntegra, OrdensDaSala, Ativos, Sala, Membro
  <2>3. sala.proxima \in 1 .. MaxOrdem
    BY <1>1, <2>2, ServidorAssumption
  <2>4. QED
    BY <2>3 DEF Linha
<1>3. /\ b.status = pg.status /\ b.anfitriao = pg.anfitriao /\ b.membros = pg.membros \cup {l}
      /\ b \in Banco
  BY <1>1, <1>2 DEF Banco
<1>4. SalaIntegra(n)
  BY <1>1, ComEntradaIntegra
<1>5. /\ n.estado = "aberta" /\ n.consistente /\ n.bloqueados = sala.bloqueados
      /\ n.proxima = sala.proxima + 1 /\ n.anfitriao = sala.anfitriao
      /\ n.membros = sala.membros \cup {novo}
  BY <1>1 DEF ComEntrada, Sala
<1>6. novo.estado = "ativo" /\ novo.ordem = sala.proxima /\ novo.jogador = j
  BY DEF MembroAtivo
<1>7. l.jogador = j /\ l.ordem = sala.proxima /\ ~ l.bloqueado
  OBVIOUS
<1> HIDE DEF n, novo, l, b
<1>8. Ativos(n) = Ativos(sala) \cup {novo}
  BY <1>5, <1>6 DEF Ativos
<1>9. Vinculos(n) = Vinculos(sala) \cup {<<j, sala.proxima>>}
  BY <1>6, <1>8 DEF Vinculos
<1>10. Ativas(b) = Ativas(pg) \cup {l} /\ Bloqueadas(b) = Bloqueadas(pg)
  BY <1>3, <1>7 DEF Ativas, Bloqueadas
<1>11. \A k \in pg.membros : k.jogador # j /\ k.ordem < sala.proxima
  <2>1. ASSUME NEW k \in pg.membros, k.jogador = j PROVE FALSE
    <3>1. CASE k \in Bloqueadas(pg)
      BY <1>1, <2>1, <3>1 DEF Coerente, Espelha
    <3>2. CASE k \in Ativas(pg)
      <4>1. <<j, k.ordem>> \in Vinculos(sala)
        BY <2>1, <3>2 DEF Coerente, Espelha
      <4>2. QED
        BY <4>1 DEF Vinculos, JogadoresAtivos
    <3>3. QED
      BY <3>1, <3>2 DEF Ativas, Bloqueadas
  <2>2. QED
    BY <2>1 DEF Coerente, Espelha
<1>12. JogadorAnfitriao(n) = b.anfitriao
  <2>1. PICK a \in Ativos(sala) : EhAnfitriao(sala, a) /\ JogadorAnfitriao(sala) = a.jogador
    BY <1>1, AnfitriaoVivoOuNinguem DEF Viva
  <2>2. a \in Ativos(n) /\ EhAnfitriao(n, a)
    BY <1>5, <1>8, <2>1 DEF EhAnfitriao
  <2>3. QED
    BY <1>3, <1>4, <2>1, <2>2, AnfitriaoEhUnico DEF Coerente, Espelha
<1>13. \A k \in b.membros : k.ordem < n.proxima
  <2>1. \A k \in pg.membros : k.ordem \in Nat
    BY <1>1 DEF Banco, Linha
  <2>2. QED
    BY <1>1, <1>3, <1>5, <1>7, <1>11, <2>1
<1>14. LinhasUnicas(b)
  <2>1. \A k \in pg.membros : k.ordem # l.ordem /\ k.jogador # l.jogador
    <3>1. \A k \in pg.membros : k.ordem \in Nat
      BY <1>1 DEF Banco, Linha
    <3>2. QED
      BY <1>1, <1>7, <1>11, <3>1
  <2>2. QED
    BY <1>3, <2>1 DEF Coerente, LinhasUnicas
<1>15. {<<k.jogador, k.ordem>> : k \in Ativas(b)} = Vinculos(n)
  BY <1>7, <1>9, <1>10 DEF Coerente, Espelha
<1>16. Espelha(n, b)
  BY <1>1, <1>3, <1>5, <1>10, <1>12, <1>13, <1>15 DEF Coerente, Espelha
<1>17. QED
  BY <1>3, <1>4, <1>14, <1>16 DEF Coerente, n, b, l

(* EXPULSAR_MEMBRO: the row of a person is kept as a block, the row of a   *)
(* bot goes.                                                               *)
LEMMA ExpulsaoCoerente ==
  ASSUME Coerente(sala, pg), TemAnfitriao(sala),
         NEW alvo \in Ativos(sala), ~ EhAnfitriao(sala, alvo)
  PROVE  /\ Coerente(ComExpulsao(sala, alvo), PgExpulsa(alvo.jogador))
         /\ Ativos(ComExpulsao(sala, alvo)) = Ativos(sala) \ {alvo}
<1> DEFINE n == ComExpulsao(sala, alvo)
           b == PgExpulsa(alvo.jogador)
<1>1. /\ SalaIntegra(sala) /\ sala \in Sala /\ pg \in Banco /\ sala.estado \in Viva
      /\ alvo \in Membro
  BY DEF Coerente, SalaIntegra, AnfitriaoDaSala, Sala, Ativos
<1>2. SalaIntegra(n) /\ Ativos(n) = Ativos(sala) \ {alvo}
  BY <1>1, ExpulsaoIntegra
<1>3. /\ n.estado = sala.estado /\ n.consistente = sala.consistente
      /\ n.proxima = sala.proxima /\ n.anfitriao = sala.anfitriao
      /\ n.bloqueados = sala.bloqueados \cup {alvo.jogador}
  BY <1>1 DEF ComExpulsao, Sala
<1>4. PICK l \in Ativas(pg) : /\ l.jogador = alvo.jogador /\ l.ordem = alvo.ordem
                              /\ LinhaDe(alvo.jogador) = {l}
  BY LinhaDoMembro
<1> DEFINE k == [l EXCEPT !.bloqueado = TRUE]
<1>5. l \in Linha /\ l \in pg.membros /\ ~ l.bloqueado
  BY <1>1 DEF Ativas, Banco
<1>6. k \in Linha /\ k.jogador = l.jogador /\ k.ordem = l.ordem /\ k.bloqueado
  BY <1>5 DEF Linha
<1>7. b = [pg EXCEPT !.membros = (@ \ {l}) \cup {k}]
  BY <1>4 DEF PgExpulsa
<1>8. /\ b.status = pg.status /\ b.anfitriao = pg.anfitriao
      /\ b.membros = (pg.membros \ {l}) \cup {k} /\ b \in Banco
  BY <1>1, <1>6, <1>7 DEF Banco
<1> HIDE DEF n, b, k
<1>9. Ativas(b) = Ativas(pg) \ {l} /\ Bloqueadas(b) = Bloqueadas(pg) \cup {k}
  BY <1>5, <1>6, <1>8 DEF Ativas, Bloqueadas
<1>10. LinhasUnicas(b)
  BY <1>5, <1>6, <1>8 DEF Coerente, LinhasUnicas
<1>11. Vinculos(n) = {<<x.jogador, x.ordem>> : x \in Ativas(b)}
  <2>1. \A m \in Ativos(sala) : m.jogador = alvo.jogador => m = alvo
    BY <1>1 DEF SalaIntegra, VinculosDaSala
  <2>2. \A x \in Ativas(pg) : x.jogador = alvo.jogador => x = l
    BY <1>4, <1>5 DEF Ativas, Coerente, LinhasUnicas
  <2>3. Vinculos(n) = {v \in Vinculos(sala) : v[1] # alvo.jogador}
    BY <1>2, <2>1 DEF Vinculos
  <2>4. {<<x.jogador, x.ordem>> : x \in Ativas(b)}
          = {v \in {<<x.jogador, x.ordem>> : x \in Ativas(pg)} : v[1] # alvo.jogador}
    BY <1>4, <1>9, <2>2
  <2>5. QED
    BY <2>3, <2>4 DEF Coerente, Espelha
<1>12. JogadorAnfitriao(n) = b.anfitriao
  <2>1. Vinculos(n) \subseteq Vinculos(sala)
    BY <1>2 DEF Vinculos
  <2>2. QED
    BY <1>1, <1>2, <1>3, <1>8, <2>1, AnfitriaoPreservado DEF Coerente, Espelha
<1>13. n.bloqueados = {x.jogador : x \in Bloqueadas(b)}
  BY <1>3, <1>4, <1>6, <1>9 DEF Coerente, Espelha
<1>14. \A x \in b.membros : x.ordem < n.proxima
  BY <1>3, <1>5, <1>6, <1>8 DEF Coerente, Espelha
<1>15. QED
  BY <1>1, <1>2, <1>3, <1>8, <1>10, <1>11, <1>12, <1>13, <1>14
     DEF Coerente, Espelha, Viva, n, b

LEMMA BotRemovidoCoerente ==
  ASSUME Coerente(sala, pg), TemAnfitriao(sala),
         NEW alvo \in Ativos(sala), ~ EhAnfitriao(sala, alvo)
  PROVE  /\ Coerente(ComBotRemovido(sala, alvo),
                     [pg EXCEPT !.membros = @ \ LinhaDe(alvo.jogador)])
         /\ Ativos(ComBotRemovido(sala, alvo)) = Ativos(sala) \ {alvo}
<1> DEFINE n == ComBotRemovido(sala, alvo)
           b == [pg EXCEPT !.membros = @ \ LinhaDe(alvo.jogador)]
<1>1. /\ SalaIntegra(sala) /\ sala \in Sala /\ pg \in Banco /\ sala.estado \in Viva
  BY DEF Coerente, SalaIntegra, AnfitriaoDaSala
<1>2. SalaIntegra(n) /\ Ativos(n) = Ativos(sala) \ {alvo}
  BY <1>1, ExpulsaoIntegra
<1>3. /\ n.estado = sala.estado /\ n.consistente = sala.consistente
      /\ n.proxima = sala.proxima /\ n.anfitriao = sala.anfitriao
      /\ n.bloqueados = sala.bloqueados
  BY <1>1 DEF ComBotRemovido, Sala
<1>4. /\ b.status = pg.status /\ b.anfitriao = pg.anfitriao
      /\ b.membros = {l \in pg.membros : l.jogador # alvo.jogador} /\ b \in Banco
  BY <1>1 DEF Banco, LinhaDe
<1> HIDE DEF n, b
<1>5. /\ Vinculos(n) = {<<l.jogador, l.ordem>> : l \in Ativas(b)}
      /\ Bloqueadas(b) = Bloqueadas(pg)
  <2>1. {alvo} \in SUBSET Ativos(sala) /\ {k.jogador : k \in {alvo}} = {alvo.jogador}
    OBVIOUS
  <2>2. b.membros = {l \in pg.membros : l.jogador \notin {k.jogador : k \in {alvo}}}
    BY <1>4, <2>1
  <2>3. QED
    BY <1>2, <2>1, <2>2, LinhasDosQueSaem, Zenon
<1>6. JogadorAnfitriao(n) = b.anfitriao
  <2>1. Vinculos(n) \subseteq Vinculos(sala)
    BY <1>2 DEF Vinculos
  <2>2. QED
    BY <1>1, <1>2, <1>3, <1>4, <2>1, AnfitriaoPreservado DEF Coerente, Espelha
<1>7. LinhasUnicas(b) /\ \A l \in b.membros : l.ordem < n.proxima
  BY <1>3, <1>4 DEF Coerente, Espelha, LinhasUnicas
<1>8. QED
  BY <1>1, <1>2, <1>3, <1>4, <1>5, <1>6, <1>7 DEF Coerente, Espelha, Viva, n, b

(* DESBLOQUEAR_JOGADOR: the row that remembers the block goes.             *)
LEMMA DesbloqueioCoerente ==
  ASSUME Coerente(sala, pg), sala.estado \in Viva, NEW alvo \in sala.bloqueados
  PROVE  Coerente([sala EXCEPT !.bloqueados = @ \ {alvo}],
                  [pg EXCEPT !.membros = @ \ LinhaDe(alvo)])
<1> DEFINE n == [sala EXCEPT !.bloqueados = @ \ {alvo}]
           b == [pg EXCEPT !.membros = @ \ LinhaDe(alvo)]
<1>1. SalaIntegra(sala) /\ sala \in Sala /\ pg \in Banco
  BY DEF Coerente, SalaIntegra
<1>2. /\ n.estado = sala.estado /\ n.consistente = sala.consistente
      /\ n.proxima = sala.proxima /\ n.anfitriao = sala.anfitriao
      /\ n.bloqueados = sala.bloqueados \ {alvo} /\ n.membros = sala.membros
      /\ n \in Sala
  BY <1>1 DEF Sala
<1>3. /\ b.status = pg.status /\ b.anfitriao = pg.anfitriao
      /\ b.membros = {l \in pg.membros : l.jogador # alvo} /\ b \in Banco
  BY <1>1 DEF Banco, LinhaDe
<1> HIDE DEF n, b
<1>4. SalaIntegra(n)
  BY <1>1, <1>2, MesmosMembrosIntegra
<1>5. Ativos(n) = Ativos(sala) /\ Vinculos(n) = Vinculos(sala)
  BY <1>2 DEF Ativos, Vinculos
<1>6. PICK k \in Bloqueadas(pg) : k.jogador = alvo
  BY DEF Coerente, Espelha
<1>7. \A l \in pg.membros : l.jogador = alvo => l = k
  BY <1>6 DEF Coerente, LinhasUnicas, Bloqueadas
<1>8. Ativas(b) = Ativas(pg) /\ Bloqueadas(b) = Bloqueadas(pg) \ {k}
  BY <1>3, <1>6, <1>7 DEF Ativas, Bloqueadas
<1>9. n.bloqueados = {l.jogador : l \in Bloqueadas(b)}
  BY <1>2, <1>6, <1>7, <1>8 DEF Coerente, Espelha, Bloqueadas
<1>10. JogadorAnfitriao(n) = JogadorAnfitriao(sala)
  BY <1>1, <1>2, <1>4, <1>5, AnfitriaoPreservado
<1>11. LinhasUnicas(b) /\ \A l \in b.membros : l.ordem < n.proxima
  BY <1>2, <1>3 DEF Coerente, Espelha, LinhasUnicas
<1>12. QED
  BY <1>2, <1>3, <1>4, <1>5, <1>8, <1>9, <1>10, <1>11 DEF Coerente, Espelha, Viva, n, b

(* aceitar_encaminhamento and the status of the row.                       *)
LEMMA EncaminhamentoCoerente ==
  ASSUME Coerente(sala, pg), sala.estado \in Viva, NEW p \in 0 .. MaxPartidas
  PROVE  Coerente([sala EXCEPT !.estado = "encaminhada"],
                  [pg EXCEPT !.status = "encaminhada", !.partida = p])
<1> DEFINE n == [sala EXCEPT !.estado = "encaminhada"]
           b == [pg EXCEPT !.status = "encaminhada", !.partida = p]
<1>1. SalaIntegra(sala) /\ sala \in Sala /\ pg \in Banco
  BY DEF Coerente, SalaIntegra
<1>2. /\ n.estado = "encaminhada" /\ n.consistente = sala.consistente
      /\ n.proxima = sala.proxima /\ n.anfitriao = sala.anfitriao
      /\ n.bloqueados = sala.bloqueados /\ n.membros = sala.membros
      /\ n \in Sala
  BY <1>1 DEF Sala, EstadosDaSala
<1>3. /\ b.status = "encaminhada" /\ b.anfitriao = pg.anfitriao
      /\ b.membros = pg.membros /\ b \in Banco
  BY <1>1 DEF Banco, EstadosDaSala
<1> HIDE DEF n, b
<1>4. SalaIntegra(n)
  BY <1>1, <1>2, MesmosMembrosIntegra DEF Viva
<1>5. /\ Ativos(n) = Ativos(sala) /\ Vinculos(n) = Vinculos(sala)
      /\ Ativas(b) = Ativas(pg) /\ Bloqueadas(b) = Bloqueadas(pg)
  BY <1>2, <1>3 DEF Ativos, Vinculos, Ativas, Bloqueadas
<1>6. JogadorAnfitriao(n) = JogadorAnfitriao(sala)
  BY <1>1, <1>2, <1>4, <1>5, AnfitriaoPreservado DEF Viva
<1>7. QED
  BY <1>2, <1>3, <1>4, <1>5, <1>6 DEF Coerente, Espelha, LinhasUnicas, n, b

-----------------------------------------------------------------------------
(* Restart: the Sala that the rows describe is the one they were written   *)
(* from, but for presence and readiness.                                   *)

LEMMA MaiorNatural ==
  ASSUME NEW N \in Nat, NEW S \in SUBSET (0 .. N), S # {}
  PROVE  \E x \in S : \A y \in S : y <= x
<1> DEFINE T == {N - x : x \in S}
<1>1. T \in SUBSET Nat /\ T # {}
  <2>1. \A x \in S : x \in 0 .. N
    OBVIOUS
  <2>2. \A x \in 0 .. N : N - x \in Nat
    OBVIOUS
  <2>3. QED
    BY <2>1, <2>2
<1>2. PICK t \in T : \A u \in T : t <= u
  BY <1>1, MenorNatural
<1>3. PICK x \in S : t = N - x
  OBVIOUS
<1>4. ASSUME NEW y \in S PROVE y <= x
  <2>1. N - y \in T
    OBVIOUS
  <2>2. N - x <= N - y /\ x \in Nat /\ y \in Nat
    BY <1>2, <1>3, <2>1
  <2>3. QED
    BY <2>2
<1>5. QED
  BY <1>4

(* The next order is above every order in the rows.                        *)
LEMMA ProximaAcima ==
  ASSUME NEW ordens \in SUBSET (1 .. MaxOrdem)
  PROVE  LET m == CHOOSE o \in ordens \cup {0} : \A p \in ordens : p <= o
         IN  m \in Nat /\ \A o \in ordens : o < 1 + m
<1> DEFINE S == ordens \cup {0}
<1>1. S \in SUBSET (0 .. MaxOrdem) /\ S # {} /\ MaxOrdem \in Nat
  BY ServidorAssumption
<1>2. \E o \in S : \A p \in S : p <= o
  BY <1>1, MaiorNatural
<1>3. \E o \in S : \A p \in ordens : p <= o
  BY <1>2
<1> DEFINE m == CHOOSE o \in S : \A p \in ordens : p <= o
<1>4. m \in S /\ \A p \in ordens : p <= m
  BY <1>3
<1> HIDE DEF m
<1>5. m \in Nat /\ \A o \in ordens : o < 1 + m
  BY <1>1, <1>4
<1>6. QED
  BY <1>5 DEF m

LEMMA ReconstruidaCoerente ==
  ASSUME NEW s, Coerente(s, pg), pg.status \in Viva
  PROVE  /\ Coerente(Reconstruida, pg)
         /\ Ativos(Reconstruida) = Reconstruida.membros
<1> DEFINE r == Reconstruida
           ativos == {MembroAtivo(l.jogador, l.ordem) : l \in LinhasAtivas}
           ordens == {l.ordem : l \in pg.membros}
           donos == {m \in ativos : m.jogador = pg.anfitriao}
           maior == CHOOSE o \in ordens \cup {0} : \A p \in ordens : p <= o
           chefe == CASE donos # {} -> (CHOOSE m \in donos : TRUE).ordem
                      [] donos = {} /\ ativos # {} -> PrimeiraOrdem(ativos)
                      [] OTHER -> SemAnfitriao
<1>1. SalaIntegra(s) /\ s \in Sala /\ pg \in Banco /\ s.estado \in Viva
  BY DEF Coerente, Espelha, SalaIntegra
<1>2. LinhasAtivas = Ativas(pg) /\ pg.membros \ LinhasAtivas = Bloqueadas(pg)
  BY DEF LinhasAtivas, Ativas, Bloqueadas
<1>3. /\ r.estado = pg.status /\ r.membros = ativos /\ r.consistente = TRUE
      /\ r.proxima = 1 + maior /\ r.anfitriao = chefe
      /\ r.bloqueados = {l.jogador : l \in Bloqueadas(pg)}
      /\ r = [estado |-> r.estado, membros |-> r.membros, proxima |-> r.proxima,
              anfitriao |-> r.anfitriao, bloqueados |-> r.bloqueados,
              consistente |-> r.consistente]
  BY <1>2 DEF Reconstruida
<1>4. \A j, o : /\ MembroAtivo(j, o).jogador = j /\ MembroAtivo(j, o).ordem = o
                /\ MembroAtivo(j, o).estado = "ativo"
  BY DEF MembroAtivo
<1>5. \A l \in pg.membros : l \in Linha /\ l.jogador \in Jogadores
                           /\ l.ordem \in 1 .. MaxOrdem /\ l.ordem \in Nat \ {0}
  BY <1>1 DEF Banco, Linha
<1>6. ativos \in SUBSET Membro
  <2>1. \A j \in Jogadores, o \in Nat \ {0} : MembroAtivo(j, o) \in Membro
    BY DEF MembroAtivo, Membro, Motivos, Presencas
  <2>2. \A l \in LinhasAtivas : l \in pg.membros
    BY DEF LinhasAtivas
  <2>3. QED
    BY <1>5, <2>1, <2>2
<1>7. maior \in Nat /\ \A l \in pg.membros : l.ordem < 1 + maior
  <2>1. ordens \in SUBSET (1 .. MaxOrdem)
    BY <1>5
  <2>2. QED
    BY <2>1, ProximaAcima
<1>8. PICK a \in Ativos(s) : EhAnfitriao(s, a) /\ a.jogador = pg.anfitriao
  BY <1>1, AnfitriaoVivoOuNinguem DEF Coerente, Espelha
<1>9. \E l \in Ativas(pg) : l.jogador = a.jogador /\ l.ordem = a.ordem
  <2>1. <<a.jogador, a.ordem>> \in {<<l.jogador, l.ordem>> : l \in Ativas(pg)}
    BY DEF Coerente, Espelha, Vinculos
  <2>2. QED
    BY <2>1
<1>10. PICK d \in Ativas(pg) : d.jogador = a.jogador /\ d.ordem = a.ordem
  BY <1>9
<1>11. donos = {MembroAtivo(d.jogador, d.ordem)}
  <2>1. \A l \in Ativas(pg) : l.jogador = pg.anfitriao <=> l = d
    BY <1>8, <1>10 DEF Coerente, LinhasUnicas, Ativas
  <2>2. QED
    BY <1>2, <1>4, <2>1
<1>12. chefe = d.ordem
  BY <1>4, <1>11
<1> HIDE DEF r, maior, chefe, donos, ordens
<1>13. Ativos(r) = ativos /\ Ativos(r) = r.membros
  BY <1>3, <1>4 DEF Ativos
<1>14. Vinculos(r) = {<<l.jogador, l.ordem>> : l \in Ativas(pg)}
  <2>1. {<<m.jogador, m.ordem>> : m \in ativos} = {<<l.jogador, l.ordem>> : l \in Ativas(pg)}
    BY <1>2, <1>4
  <2>2. QED
    BY <1>13, <2>1 DEF Vinculos
<1>15. r \in Sala
  <2>1. r.estado \in EstadosDaSala
    BY <1>1, <1>3 DEF Banco
  <2>2. r.proxima \in Nat
    BY <1>3, <1>7
  <2>3. r.anfitriao \in Nat
    BY <1>3, <1>5, <1>10, <1>12 DEF Ativas
  <2>4. r.bloqueados \in SUBSET Jogadores
    BY <1>3, <1>5 DEF Bloqueadas
  <2>5. QED
    BY <1>3, <1>6, <2>1, <2>2, <2>3, <2>4 DEF Sala
<1>16. LimiteDaSala(r)
  <2> DEFINE h == [m \in Ativos(s) |-> MembroAtivo(m.jogador, m.ordem)]
  <2>1. ASSUME NEW x \in Ativos(r) PROVE \E m \in Ativos(s) : h[m] = x
    <3>1. PICK l \in Ativas(pg) : x = MembroAtivo(l.jogador, l.ordem)
      BY <1>2, <1>13
    <3>2. <<l.jogador, l.ordem>> \in Vinculos(s)
      BY DEF Coerente, Espelha
    <3>3. PICK m \in Ativos(s) : <<m.jogador, m.ordem>> = <<l.jogador, l.ordem>>
      BY <3>2 DEF Vinculos
    <3>4. QED
      BY <3>1, <3>3
  <2>2. ASSUME NEW m \in Ativos(s) PROVE h[m] \in Ativos(r)
    <3>1. <<m.jogador, m.ordem>> \in {<<l.jogador, l.ordem>> : l \in Ativas(pg)}
      BY DEF Coerente, Espelha, Vinculos
    <3>2. PICK l \in Ativas(pg) : <<m.jogador, m.ordem>> = <<l.jogador, l.ordem>>
      BY <3>1
    <3>3. QED
      BY <1>2, <1>13, <3>2
  <2>3. h \in Surjection(Ativos(s), Ativos(r))
    BY <2>1, <2>2 DEF Surjection
  <2>4. /\ IsFiniteSet(Ativos(r))
        /\ Cardinality(Ativos(r)) <= Cardinality(Ativos(s))
    BY <1>1, <2>3, FS_Surjection, Zenon DEF SalaIntegra, LimiteDaSala
  <2>5. Cardinality(Ativos(r)) \in Nat /\ Cardinality(Ativos(s)) \in Nat
    BY <1>1, <2>4, FS_CardinalityType DEF SalaIntegra, LimiteDaSala
  <2>6. QED
    BY <1>1, <2>4, <2>5, LimitesAssumption DEF SalaIntegra, LimiteDaSala
<1>17. AnfitriaoDaSala(r)
  <2>1. TemAnfitriao(r)
    <3>1. MembroAtivo(d.jogador, d.ordem) \in Ativos(r)
      BY <1>2, <1>13
    <3>2. QED
      BY <1>3, <1>4, <1>12, <3>1 DEF TemAnfitriao, EhAnfitriao
  <2>2. ASSUME NEW m \in Ativos(r) PROVE r.anfitriao <= m.ordem
    <3>1. <<m.jogador, m.ordem>> \in Vinculos(s)
      BY <1>14 DEF Coerente, Espelha, Vinculos
    <3>2. PICK x \in Ativos(s) : m.ordem = x.ordem
      BY <3>1 DEF Vinculos
    <3>3. s.anfitriao <= x.ordem
      BY <1>1 DEF SalaIntegra, AnfitriaoDaSala, MaisAntigo
    <3>4. QED
      BY <1>3, <1>8, <1>10, <1>12, <3>2, <3>3 DEF EhAnfitriao
  <2>3. QED
    BY <1>1, <1>3, <2>1, <2>2 DEF AnfitriaoDaSala, MaisAntigo, Coerente, Espelha
<1>18. OrdensDaSala(r)
  <2>1. ASSUME NEW m \in ativos, NEW n \in ativos
        PROVE  m.ordem < 1 + maior /\ (m.ordem = n.ordem => m = n)
    <3>1. PICK l \in Ativas(pg) : m = MembroAtivo(l.jogador, l.ordem)
      BY <1>2
    <3>2. PICK k \in Ativas(pg) : n = MembroAtivo(k.jogador, k.ordem)
      BY <1>2
    <3>3. l \in pg.membros /\ k \in pg.membros
      BY DEF Ativas
    <3>4. l.ordem = k.ordem => l = k
      BY <3>3 DEF Coerente, LinhasUnicas
    <3>5. QED
      BY <1>4, <1>7, <3>1, <3>2, <3>3, <3>4
  <2>2. QED
    BY <1>3, <2>1 DEF OrdensDaSala
<1>19. VinculosDaSala(r)
  <2>1. ASSUME NEW m \in Ativos(r), NEW n \in Ativos(r), m.jogador = n.jogador
        PROVE  m = n
    <3>1. PICK l \in Ativas(pg) : m = MembroAtivo(l.jogador, l.ordem)
      BY <1>2, <1>13
    <3>2. PICK k \in Ativas(pg) : n = MembroAtivo(k.jogador, k.ordem)
      BY <1>2, <1>13
    <3>3. l = k
      BY <1>4, <2>1, <3>1, <3>2 DEF Coerente, LinhasUnicas, Ativas
    <3>4. QED
      BY <3>1, <3>2, <3>3
  <2>2. ASSUME NEW m \in Ativos(r), m.jogador \in r.bloqueados PROVE FALSE
    <3>1. PICK l \in Ativas(pg) : m = MembroAtivo(l.jogador, l.ordem)
      BY <1>2, <1>13
    <3>2. PICK k \in Bloqueadas(pg) : k.jogador = m.jogador
      BY <1>3, <2>2
    <3>3. l = k
      BY <1>4, <3>1, <3>2 DEF Coerente, LinhasUnicas, Ativas, Bloqueadas
    <3>4. QED
      BY <3>3 DEF Ativas, Bloqueadas
  <2>3. QED
    BY <2>1, <2>2 DEF VinculosDaSala, JogadoresAtivos
<1>20. SalaIntegra(r)
  BY <1>15, <1>16, <1>17, <1>18, <1>19 DEF SalaIntegra
<1>21. JogadorAnfitriao(r) = pg.anfitriao
  <2>1. MembroAtivo(d.jogador, d.ordem) \in Ativos(r)
    BY <1>2, <1>13
  <2>2. QED
    BY <1>3, <1>4, <1>8, <1>10, <1>12, <1>20, <2>1, AnfitriaoEhUnico DEF EhAnfitriao
<1>22. Espelha(r, pg)
  BY <1>1, <1>3, <1>7, <1>14, <1>21 DEF Espelha, Coerente, Viva
<1>23. QED
  BY <1>13, <1>20, <1>22 DEF Coerente, r

(* rearmarAposRestart: what comes back is coherent with the rows, absent.  *)
Relida == [ComReinicio(Reconstruida) EXCEPT !.consistente = TRUE]

LEMMA RelidaCoerente ==
  ASSUME NEW s, Coerente(s, pg), pg.status \in Viva
  PROVE  /\ Coerente(Relida, pg)
         /\ \A m \in Ativos(Relida) : m.presenca = "em_reconexao"
<1> DEFINE r == Reconstruida
           meio == ComReinicio(r)
<1>1. /\ Coerente(r, pg) /\ SalaIntegra(r) /\ r \in Sala /\ r.estado \in Viva
      /\ Ativos(r) = r.membros
  BY ReconstruidaCoerente DEF Coerente, SalaIntegra, Espelha
<1> HIDE DEF r
<1>2. /\ SalaIntegra(meio) /\ meio \in Sala
      /\ meio.estado = r.estado /\ meio.anfitriao = r.anfitriao
      /\ meio.bloqueados = r.bloqueados /\ meio.proxima = r.proxima
      /\ meio.membros = {Reiniciado(m) : m \in r.membros}
  BY <1>1, ComReinicioIntegra DEF ComReinicio, Sala, SalaIntegra
<1> DEFINE n == [meio EXCEPT !.consistente = TRUE]
<1> HIDE DEF meio
<1>3. /\ n \in Sala /\ n.consistente
      /\ n.estado = r.estado /\ n.anfitriao = r.anfitriao
      /\ n.bloqueados = r.bloqueados /\ n.proxima = r.proxima
      /\ n.membros = {Reiniciado(m) : m \in r.membros}
  BY <1>2 DEF Sala
<1> HIDE DEF n
<1>4. SalaIntegra(n)
  BY <1>1, <1>2, <1>3, MesmosMembrosIntegra
<1>5. \A m \in r.membros : /\ m \in Membro /\ m.estado = "ativo"
                          /\ Reiniciado(m).jogador = m.jogador
                          /\ Reiniciado(m).ordem = m.ordem
                          /\ Reiniciado(m).estado = "ativo"
  BY <1>1, VinculoReiniciado DEF Ativos, Sala
<1>6. Ativos(n) = {Reiniciado(m) : m \in r.membros} /\ Vinculos(n) = Vinculos(r)
  BY <1>1, <1>3, <1>5 DEF Ativos, Vinculos
<1>7. \A m \in Ativos(n) : m.presenca = "em_reconexao"
  BY <1>5, <1>6 DEF Reiniciado, Membro
<1>8. Coerente(n, pg)
  BY <1>1, <1>3, <1>4, <1>6, MesmasLinhas
<1>9. n = Relida
  BY DEF n, meio, r, Relida
<1>10. QED
  BY <1>7, <1>8, <1>9

-----------------------------------------------------------------------------
(* The inductive invariant.                                                *)

Tipos ==
  /\ noAr \in BOOLEAN
  /\ janelas \subseteq Jogadores /\ timers \subseteq 1 .. MaxOrdem
  /\ abertos \subseteq Conexoes /\ conectando \subseteq Conexoes
  /\ registrados \subseteq Conexoes
  /\ fila \in Seq(Tarefas)
  /\ oferta \in [fase: {"nenhuma", "enviada", "aceita", "perdida"},
                 roster: SUBSET Jogadores, partida: 0 .. MaxPartidas]
  /\ rosters \in Seq(SUBSET Jogadores)
  /\ falhas \in 0 .. MaxFalhas /\ quedas \in 0 .. MaxQuedas

(* Matches: the one an offer was accepted as, and the one a forwarded Sala *)
(* waits for, exist and were not cancelled.                                *)
Espera ==
  /\ Len(rosters) <= MaxPartidas /\ canceladas \subseteq DOMAIN rosters
  /\ oferta.fase = "aceita" =>
       /\ oferta.partida \in DOMAIN rosters \ canceladas
       /\ rosters[oferta.partida] = oferta.roster
  /\ pg.status = "encaminhada" =>
       /\ oferta = SemOferta
       /\ pg.partida \in DOMAIN rosters \ canceladas
       /\ \A l \in Ativas(pg) : l.jogador \in rosters[pg.partida]

Parado ==
  /\ sala = SalaInexistente /\ timers = {} /\ fila = <<>>
  /\ pg.status \notin Terminal
  /\ \E s : Coerente(s, pg)

IInv ==
  /\ Tipos /\ Espera
  /\ noAr => Coerente(sala, pg)
  /\ ~ noAr => Parado

(* A task of each kind carries what its handler reads of it.               *)
LEMMA TarefaBemFormada ==
  ASSUME NEW t \in Tarefas
  PROVE  /\ t.tipo \in {"criar", "entrar", "reconexao"} =>
              t.conexao \in Conexoes /\ Dono(t.conexao) \in Jogadores
         /\ t.tipo = "fechamento" => t.jogador \in Jogadores
         /\ t.tipo = "expirar" => t.ordem \in 1 .. MaxOrdem
  BY DEF Tarefas, Conexoes, Dono

LEMMA TarefasNovas ==
  /\ \A c \in Conexoes, tipo \in {"criar", "entrar", "reconexao"} :
       DoSocket(tipo, c) \in Tarefas
  /\ \A j \in Jogadores : [tipo |-> "fechamento", jogador |-> j] \in Tarefas
  /\ \A o \in 1 .. MaxOrdem : Expirar(o) \in Tarefas
  BY DEF Tarefas, DoSocket, Expirar

(* The head of the queue and what is behind it.                            *)
LEMMA CabecaDaFila ==
  ASSUME Tipos, fila # <<>>
  PROVE  Head(fila) \in Tarefas /\ Tail(fila) \in Seq(Tarefas)
  BY HeadTailProperties DEF Tipos

(* A link of the Sala in memory has an order that fits the rows.           *)
LEMMA MembroDaMemoria ==
  ASSUME Coerente(sala, pg), NEW m \in Ativos(sala)
  PROVE  /\ m \in Membro /\ m.jogador \in Jogadores /\ m.ordem \in 1 .. MaxOrdem
         /\ sala.estado \in Viva /\ sala.estado = pg.status
<1>1. sala \in Sala /\ m \in sala.membros /\ sala.estado \in Viva /\ sala.estado = pg.status
  BY DEF Coerente, Espelha, SalaIntegra, AnfitriaoDaSala, Ativos
<1>2. PICK l \in Ativas(pg) : l.ordem = m.ordem
  BY LinhaDoMembro
<1>3. l.ordem \in 1 .. MaxOrdem
  BY DEF Coerente, Banco, Linha, Ativas
<1>4. QED
  BY <1>1, <1>2, <1>3 DEF Sala, Membro

(* Steps that leave the matches alone keep what is known of them, if the   *)
(* rows of a forwarded Sala only lose links.                               *)
LEMMA EsperaMantida ==
  ASSUME Espera, UNCHANGED jogo,
         pg'.status = "encaminhada" =>
           /\ pg.status = "encaminhada" /\ pg'.partida = pg.partida
           /\ pg'.membros \subseteq pg.membros
  PROVE  Espera'
  BY DEF Espera, jogo, Ativas, SemOferta

(* A Sala that nobody created is coherent with the rows of none.           *)
LEMMA VaziaCoerente ==
  ASSUME NEW b \in Banco, b.status = "inexistente", b.membros = {},
         b.anfitriao = Ninguem
  PROVE  Coerente(SalaInexistente, b)
<1>1. SalaIntegra(SalaInexistente)
  BY SalaInexistenteIntegra
<1>2. /\ SalaInexistente.estado = "inexistente" /\ SalaInexistente.consistente
      /\ SalaInexistente.bloqueados = {} /\ SalaInexistente.membros = {}
      /\ SalaInexistente.proxima = 1
  BY DEF SalaInexistente
<1>3. Ativos(SalaInexistente) = {} /\ JogadorAnfitriao(SalaInexistente) = Ninguem
  BY <1>1, <1>2, AnfitriaoVivoOuNinguem DEF Viva
<1>4. Vinculos(SalaInexistente) = {}
  BY <1>3 DEF Vinculos
<1>5. Ativas(b) = {} /\ Bloqueadas(b) = {}
  BY DEF Ativas, Bloqueadas
<1>6. LinhasUnicas(b)
  BY DEF LinhasUnicas
<1>7. Espelha(SalaInexistente, b)
  BY <1>2, <1>3, <1>4, <1>5 DEF Espelha
<1>8. QED
  BY <1>1, <1>6, <1>7 DEF Coerente

LEMMA InitIInv == Init => IInv
<1> SUFFICES ASSUME Init PROVE IInv
  OBVIOUS
<1>1. Tipos /\ Espera
  <2>1. <<>> \in Seq(Tarefas) /\ <<>> \in Seq(SUBSET Jogadores) /\ Len(<<>>) = 0
    OBVIOUS
  <2>2. Tipos
    BY <2>1, ServidorAssumption DEF Init, Tipos, SemOferta
  <2>3. Espera
    BY <2>1, ServidorAssumption DEF Init, Espera, SemOferta, BancoVazio
  <2>4. QED
    BY <2>2, <2>3
<1>2. Coerente(SalaInexistente, BancoVazio)
  <2>1. /\ BancoVazio \in Banco /\ BancoVazio.membros = {}
        /\ BancoVazio.status = "inexistente" /\ BancoVazio.anfitriao = Ninguem
    BY ServidorAssumption DEF BancoVazio, Banco, EstadosDaSala
  <2>2. QED
    BY <2>1, VaziaCoerente
<1>3. QED
  BY <1>1, <1>2 DEF Init, IInv

-----------------------------------------------------------------------------
(* What happens outside the queue.                                         *)

(* A step that leaves memory, rows and matches as they were.               *)
LEMMA SoRedes ==
  ASSUME IInv, UNCHANGED <<noAr, sala, pg, jogo>>, Tipos',
         noAr \/ UNCHANGED <<timers, fila>>
  PROVE  IInv'
<1>1. Espera'
  BY EsperaMantida DEF IInv
<1>2. noAr' => Coerente(sala', pg')
  BY DEF IInv
<1>3. ~ noAr' => Parado'
  BY DEF IInv, Parado
<1>4. QED
  BY <1>1, <1>2, <1>3 DEF IInv

(* Putting a task in the queue.                                            *)
LEMMA FilaCresce ==
  ASSUME Tipos, NEW t \in Tarefas
  PROVE  Enfileira(t) \in Seq(Tarefas)
  BY AppendProperties DEF Tipos, Enfileira

LEMMA AbrirIInv ==
  ASSUME IInv, NEW c \in Conexoes, AbrirConexao(c)
  PROVE  IInv'
<1>1. Tipos'
  BY DEF IInv, Tipos, AbrirConexao, memoria, jogo, conta
<1>2. QED
  BY <1>1, SoRedes DEF AbrirConexao, EmCurso, memoria

LEMMA TratarIInv ==
  ASSUME IInv, NEW c \in Conexoes, TratarReconexao(c)
  PROVE  IInv'
<1>1. fila' \in Seq(Tarefas)
  <2>1. DoSocket("reconexao", c) \in Tarefas
    BY TarefasNovas
  <2>2. Enfileira(DoSocket("reconexao", c)) \in Seq(Tarefas)
    BY <2>1, FilaCresce DEF IInv
  <2>3. QED
    BY <2>2 DEF TratarReconexao, IInv, Tipos
<1>2. Tipos'
  BY <1>1 DEF IInv, Tipos, TratarReconexao, memoria, jogo, conta
<1>3. QED
  BY <1>2, SoRedes DEF TratarReconexao, EmCurso, memoria

LEMMA FecharIInv ==
  ASSUME IInv, NEW c \in Conexoes, FecharConexao(c)
  PROVE  IInv'
<1>1. fila' \in Seq(Tarefas)
  <2>1. Dono(c) \in Jogadores
    BY DEF Conexoes, Dono
  <2>2. [tipo |-> "fechamento", jogador |-> Dono(c)] \in Tarefas
    BY <2>1, TarefasNovas
  <2>3. Enfileira([tipo |-> "fechamento", jogador |-> Dono(c)]) \in Seq(Tarefas)
    BY <2>2, FilaCresce DEF IInv
  <2>4. QED
    BY <2>3 DEF FecharConexao, IInv, Tipos
<1>2. Tipos'
  BY <1>1 DEF IInv, Tipos, FecharConexao, memoria, jogo, conta
<1>3. QED
  BY <1>2, SoRedes DEF FecharConexao, EmCurso, memoria

LEMMA PedirIInv ==
  ASSUME IInv, NEW c \in Conexoes, PedirEntrada(c)
  PROVE  IInv'
<1>1. fila' \in Seq(Tarefas)
  <2>1. DoSocket("criar", c) \in Tarefas /\ DoSocket("entrar", c) \in Tarefas
    BY TarefasNovas
  <2>2. /\ Enfileira(DoSocket("criar", c)) \in Seq(Tarefas)
        /\ Enfileira(DoSocket("entrar", c)) \in Seq(Tarefas)
    BY <2>1, FilaCresce DEF IInv
  <2>3. QED
    BY <2>2 DEF PedirEntrada
<1>2. Tipos'
  BY <1>1 DEF IInv, Tipos, PedirEntrada, memoria, redes, jogo, conta
<1>3. QED
  BY <1>2, SoRedes DEF PedirEntrada, EmCurso, memoria

LEMMA TimerIInv ==
  ASSUME IInv, NEW o \in timers, TimerDispara(o)
  PROVE  IInv'
<1>1. fila' \in Seq(Tarefas)
  <2>1. Expirar(o) \in Tarefas
    BY TarefasNovas DEF IInv, Tipos
  <2>2. QED
    BY <2>1, FilaCresce DEF IInv, TimerDispara
<1>2. Tipos'
  BY <1>1 DEF IInv, Tipos, TimerDispara, redes, jogo, conta
<1>3. QED
  BY <1>2, SoRedes DEF TimerDispara, EmCurso

LEMMA JanelaIInv ==
  ASSUME IInv, NEW j \in Jogadores, JanelaVence(j)
  PROVE  IInv'
<1>1. Tipos'
  BY DEF IInv, Tipos, JanelaVence, memoria, redes, jogo, conta
<1>2. QED
  BY <1>1, SoRedes DEF JanelaVence, memoria

-----------------------------------------------------------------------------
(* Mutations taken from the queue.                                         *)

(* A step of the running process is judged by types, matches and rows.     *)
LEMMA PassoNoAr ==
  ASSUME noAr', Tipos', Espera', Coerente(sala', pg')
  PROVE  IInv'
  BY DEF IInv

LEMMA CriarIInv ==
  ASSUME IInv, ExecutarCriar
  PROVE  IInv'
<1>1. noAr /\ noAr' /\ Coerente(sala, pg) /\ Tipos /\ Espera /\ fila # <<>>
  BY DEF ExecutarCriar, Cabeca, EmCurso, IInv
<1>2. Head(fila).conexao \in Conexoes /\ Dono(Head(fila).conexao) \in Jogadores
      /\ fila' \in Seq(Tarefas)
  BY <1>1, CabecaDaFila, TarefaBemFormada DEF ExecutarCriar, Cabeca
<1>3. Tipos'
  BY <1>1, <1>2 DEF ExecutarCriar, Tipos, jogo, conta
<1>4. CASE sala.estado = "inexistente"
  <2> DEFINE j == Dono(Head(fila).conexao)
  <2>1. /\ sala' = SalaCriada(j)
        /\ pg' = [pg EXCEPT !.status = "aberta", !.anfitriao = j,
                    !.membros = {[jogador |-> j, ordem |-> 1, bloqueado |-> FALSE]}]
    BY <1>4 DEF ExecutarCriar, Confirma
  <2>2. j \in Jogadores
    BY <1>2
  <2> HIDE DEF j
  <2>3. Coerente(sala', pg')
    BY <1>1, <1>4, <2>1, <2>2, CriacaoCoerente
  <2>4. UNCHANGED jogo /\ pg'.status = "aberta"
    BY <1>1, <2>1 DEF ExecutarCriar, Coerente, Banco
  <2>5. Espera'
    BY <1>1, <2>4, EsperaMantida
  <2>6. QED
    BY <1>1, <1>3, <2>3, <2>5, PassoNoAr
<1>5. CASE sala.estado # "inexistente"
  <2>1. UNCHANGED <<sala, pg>>
    BY <1>5 DEF ExecutarCriar
  <2>2. Espera'
    BY <1>1, <2>1, EsperaMantida DEF ExecutarCriar
  <2>3. QED
    BY <1>1, <1>3, <2>1, <2>2, PassoNoAr
<1>6. QED
  BY <1>4, <1>5

LEMMA EntrarIInv ==
  ASSUME IInv, ExecutarEntrar
  PROVE  IInv'
<1> DEFINE c == Head(fila).conexao
           j == Dono(c)
<1>1. noAr /\ noAr' /\ Coerente(sala, pg) /\ Tipos /\ Espera /\ fila # <<>>
  BY DEF ExecutarEntrar, Cabeca, EmCurso, IInv
<1>2. c \in Conexoes /\ j \in Jogadores /\ fila' \in Seq(Tarefas)
  BY <1>1, CabecaDaFila, TarefaBemFormada DEF ExecutarEntrar, Cabeca
<1>3. \/ UNCHANGED <<sala, pg>> /\ registrados' \in {registrados, registrados \cup {c}}
      \/ /\ PodeEntrar(sala, j) /\ MembrosDe(j) = {} /\ sala.proxima <= MaxOrdem
         /\ Confirma(ComEntrada(sala, j),
              [pg EXCEPT !.membros = @ \cup
                {[jogador |-> j, ordem |-> sala.proxima, bloqueado |-> FALSE]}])
         /\ registrados' = registrados \cup {c}
  BY DEF ExecutarEntrar
<1>4. registrados' \subseteq Conexoes
  BY <1>1, <1>2, <1>3 DEF Tipos
<1>5. Tipos'
  BY <1>1, <1>2, <1>4 DEF ExecutarEntrar, Tipos, jogo, conta
<1>6. UNCHANGED jogo
  BY DEF ExecutarEntrar
<1> HIDE DEF c, j
<1>7. CASE UNCHANGED <<sala, pg>>
  <2>1. Espera'
    BY <1>1, <1>6, <1>7, EsperaMantida
  <2>2. QED
    BY <1>1, <1>5, <1>7, <2>1, PassoNoAr
<1>8. CASE /\ PodeEntrar(sala, j) /\ MembrosDe(j) = {} /\ sala.proxima <= MaxOrdem
           /\ Confirma(ComEntrada(sala, j),
                [pg EXCEPT !.membros = @ \cup
                  {[jogador |-> j, ordem |-> sala.proxima, bloqueado |-> FALSE]}])
  <2>1. j \notin JogadoresAtivos(sala)
    BY <1>8 DEF MembrosDe, JogadoresAtivos
  <2>2. Coerente(sala', pg')
    BY <1>1, <1>2, <1>8, <2>1, EntradaCoerente DEF Confirma
  <2>3. pg'.status = "aberta"
    BY <1>1, <1>8 DEF Confirma, PodeEntrar, AbertaConsistente, Coerente, Espelha, Banco
  <2>4. Espera'
    BY <1>1, <1>6, <2>3, EsperaMantida
  <2>5. QED
    BY <1>1, <1>5, <2>2, <2>4, PassoNoAr
<1>9. QED
  BY <1>3, <1>7, <1>8

LEMMA ReconexaoIInv ==
  ASSUME IInv, ExecutarReconexao
  PROVE  IInv'
<1> DEFINE c == Head(fila).conexao
           ausentes == {m \in MembrosDe(Dono(c)) : m.presenca = "em_reconexao"}
<1>1. /\ noAr /\ noAr' /\ Coerente(sala, pg) /\ Tipos /\ Espera /\ fila # <<>>
      /\ UNCHANGED jogo /\ pg' = pg /\ registrados' = registrados \cup {c}
  BY DEF ExecutarReconexao, Cabeca, EmCurso, IInv
<1>2. c \in Conexoes /\ Tail(fila) \in Seq(Tarefas)
  BY <1>1, CabecaDaFila, TarefaBemFormada DEF ExecutarReconexao, Cabeca
<1>3. \/ fila' = Tail(fila) /\ UNCHANGED <<sala, janelas, timers>>
      \/ \E m \in ausentes :
           /\ sala' = ComPresenca(sala, m, "conectado")
           /\ janelas' = janelas \ {Dono(c)} /\ timers' = LimparTimer(m.ordem)
           /\ fila' = Tail(fila)
      \/ \E m \in ausentes :
           fila' = Append(Tail(fila), Expirar(m.ordem)) /\ UNCHANGED <<sala, janelas, timers>>
  BY DEF ExecutarReconexao
<1>4. ausentes \subseteq Ativos(sala)
  BY DEF MembrosDe
<1>5. Espera'
  BY <1>1, EsperaMantida
<1> HIDE DEF c, ausentes
<1>6. fila' \in Seq(Tarefas)
  <2>1. ASSUME NEW m \in ausentes PROVE Append(Tail(fila), Expirar(m.ordem)) \in Seq(Tarefas)
    <3>1. Expirar(m.ordem) \in Tarefas
      BY <1>1, <1>4, MembroDaMemoria, TarefasNovas
    <3>2. QED
      BY <1>2, <3>1, AppendProperties
  <2>2. QED
    BY <1>2, <1>3, <2>1
<1>7. Tipos'
  <2>1. janelas' \subseteq janelas /\ timers' \subseteq timers
    BY <1>3 DEF LimparTimer
  <2>2. QED
    BY <1>1, <1>2, <1>6, <2>1 DEF ExecutarReconexao, Tipos, jogo, conta
<1>8. Coerente(sala', pg')
  <2>1. ASSUME NEW m \in ausentes PROVE Coerente(ComPresenca(sala, m, "conectado"), pg)
    BY <1>1, <1>4, PresencaSemLinhas DEF Presencas
  <2>2. QED
    BY <1>1, <1>3, <2>1
<1>9. QED
  BY <1>1, <1>5, <1>7, <1>8, PassoNoAr

LEMMA FechamentoIInv ==
  ASSUME IInv, ExecutarFechamento
  PROVE  IInv'
<1> DEFINE j == Head(fila).jogador
           conectados == {m \in MembrosDe(j) : m.presenca = "conectado"}
<1>1. /\ noAr /\ noAr' /\ Coerente(sala, pg) /\ Tipos /\ Espera /\ fila # <<>>
      /\ UNCHANGED jogo /\ pg' = pg
  BY DEF ExecutarFechamento, Cabeca, EmCurso, IInv
<1>2. j \in Jogadores /\ fila' \in Seq(Tarefas)
  BY <1>1, CabecaDaFila, TarefaBemFormada DEF ExecutarFechamento, Cabeca
<1>3. \/ UNCHANGED <<sala, janelas, timers>>
      \/ \E m \in conectados :
           /\ sala' = ComPresenca(sala, m, "em_reconexao")
           /\ janelas' = janelas \cup {j} /\ timers' = timers \cup {m.ordem}
  BY DEF ExecutarFechamento, AgendarExpiracao
<1>4. conectados \subseteq Ativos(sala)
  BY DEF MembrosDe
<1>5. Espera'
  BY <1>1, EsperaMantida
<1> HIDE DEF j, conectados
<1>6. janelas' \subseteq Jogadores /\ timers' \subseteq 1 .. MaxOrdem
  <2>1. \A m \in conectados : m.ordem \in 1 .. MaxOrdem
    BY <1>1, <1>4, MembroDaMemoria
  <2>2. QED
    BY <1>1, <1>2, <1>3, <2>1 DEF Tipos
<1>7. Tipos'
  BY <1>1, <1>2, <1>6 DEF ExecutarFechamento, Tipos, redes, jogo, conta
<1>8. Coerente(sala', pg')
  <2>1. ASSUME NEW m \in conectados PROVE Coerente(ComPresenca(sala, m, "em_reconexao"), pg)
    BY <1>1, <1>4, PresencaSemLinhas DEF Presencas
  <2>2. QED
    BY <1>1, <1>3, <2>1
<1>9. QED
  BY <1>1, <1>5, <1>7, <1>8, PassoNoAr

(* A link that ends takes its row: the forwarded Sala loses one, and what  *)
(* is known of its match stays.                                            *)
LEMMA SaidaEspera ==
  ASSUME Coerente(sala, pg), Espera, NEW m \in Ativos(sala), UNCHANGED jogo,
         NEW motivo \in Motivos, NEW final \in Terminal,
         NEW n, n = ComSaida(sala, m, motivo, final),
         sala' = n, pg' = PgTermina(m.jogador, n)
  PROVE  Coerente(sala', pg') /\ Espera'
<1>1. Coerente(sala', pg')
  BY SaidaCoerente
<1>2. pg \in Banco
  BY DEF Coerente
<1>3. /\ pg'.membros \subseteq pg.membros /\ pg'.partida = pg.partida
      /\ pg'.status \in Terminal \/ pg'.status = pg.status
  BY <1>2 DEF PgTermina, Banco, LinhaDe
<1>4. Espera'
  BY <1>3, EsperaMantida DEF Terminal
<1>5. QED
  BY <1>1, <1>4

LEMMA ExpirarIInv ==
  ASSUME IInv, ExecutarExpirar
  PROVE  IInv'
<1> DEFINE o == Head(fila).ordem
           alvos == {m \in sala.membros : m.ordem = o}
           donos == {m.jogador : m \in alvos}
<1>1. /\ noAr /\ noAr' /\ Coerente(sala, pg) /\ Tipos /\ Espera /\ fila # <<>>
      /\ UNCHANGED <<jogo, redes, quedas, presentes>> /\ fila' = Tail(fila)
  BY DEF ExecutarExpirar, Cabeca, EmCurso, IInv
<1>2. fila' \in Seq(Tarefas)
  BY <1>1, CabecaDaFila
<1>3. /\ janelas' \subseteq janelas /\ timers' \subseteq timers
      /\ falhas' = falhas \/ (falhas < MaxFalhas /\ falhas' = falhas + 1)
  BY DEF ExecutarExpirar, LimparTimer
<1>4. \/ UNCHANGED <<sala, pg>>
      \/ \E m \in alvos : LET depois == ComSaida(sala, m, "expiracao", "expirada")
                          IN  /\ PodeExpirar(sala, m)
                              /\ sala' = depois /\ pg' = PgTermina(m.jogador, depois)
  BY DEF ExecutarExpirar, Confirma
<1> HIDE DEF o, alvos, donos
<1>5. falhas' \in 0 .. MaxFalhas
  BY <1>1, <1>3, ServidorAssumption DEF Tipos
<1>6. Tipos'
  BY <1>1, <1>2, <1>3, <1>5 DEF Tipos, redes, jogo
<1>7. Coerente(sala', pg') /\ Espera'
  <2>1. CASE UNCHANGED <<sala, pg>>
    BY <1>1, <2>1, EsperaMantida
  <2>2. ASSUME NEW m \in alvos, PodeExpirar(sala, m),
               NEW depois, depois = ComSaida(sala, m, "expiracao", "expirada"),
               sala' = depois, pg' = PgTermina(m.jogador, depois)
        PROVE  Coerente(sala', pg') /\ Espera'
    <3>1. m \in Ativos(sala) /\ "expiracao" \in Motivos /\ "expirada" \in Terminal
      BY <2>2 DEF PodeExpirar, Motivos, Terminal
    <3>2. UNCHANGED jogo
      BY <1>1
    <3>3. QED
      BY <1>1, <2>2, <3>1, <3>2, SaidaEspera
  <2>3. QED
    BY <1>4, <2>1, <2>2
<1>8. QED
  BY <1>1, <1>6, <1>7, PassoNoAr

-----------------------------------------------------------------------------
(* Commands.                                                               *)

(* What a command leaves alone.                                            *)
LEMMA TiposDoComando ==
  ASSUME Tipos, UNCHANGED <<noAr, abertos, conectando, fila, jogo, conta>>,
         janelas' \subseteq janelas, timers' \subseteq timers,
         registrados' \subseteq registrados
  PROVE  Tipos'
  BY DEF Tipos, jogo, conta

LEMMA SairIInv ==
  ASSUME IInv, NEW c \in Conexoes, Sair(c)
  PROVE  IInv'
<1>1. /\ noAr /\ noAr' /\ Coerente(sala, pg) /\ Tipos /\ Espera /\ UNCHANGED jogo
  BY DEF Sair, EmCurso, IInv
<1>2. Tipos'
  BY <1>1, TiposDoComando DEF Sair
<1>3. PICK m \in MembrosDe(Dono(c)) :
        Confirma(ComSaida(sala, m, "saida", "encerrada"),
                 PgTermina(m.jogador, ComSaida(sala, m, "saida", "encerrada")))
  BY DEF Sair
<1>4. m \in Ativos(sala) /\ "saida" \in Motivos /\ "encerrada" \in Terminal
  BY DEF MembrosDe, Motivos, Terminal
<1>5. Coerente(sala', pg') /\ Espera'
  BY <1>1, <1>3, <1>4, SaidaEspera DEF Confirma
<1>6. QED
  BY <1>1, <1>2, <1>5, PassoNoAr

LEMMA SairDeOrfaIInv ==
  ASSUME IInv, NEW j \in Jogadores, SairDeOrfa(j)
  PROVE  IInv'
<1>1. /\ noAr /\ noAr' /\ Coerente(sala, pg) /\ Tipos /\ Espera /\ UNCHANGED jogo
  BY DEF SairDeOrfa, EmCurso, IInv
<1>2. Tipos'
  BY <1>1, TiposDoComando DEF SairDeOrfa
<1>3. PICK m \in MembrosDe(j) :
        Confirma(ComSaida(sala, m, "saida", "encerrada"),
                 PgTermina(j, ComSaida(sala, m, "saida", "encerrada")))
  BY DEF SairDeOrfa
<1>4. m \in Ativos(sala) /\ m.jogador = j /\ "saida" \in Motivos /\ "encerrada" \in Terminal
  BY DEF MembrosDe, Motivos, Terminal
<1>5. Coerente(sala', pg') /\ Espera'
  BY <1>1, <1>3, <1>4, SaidaEspera DEF Confirma
<1>6. QED
  BY <1>1, <1>2, <1>5, PassoNoAr

LEMMA DesistenciaIInv ==
  ASSUME IInv, NEW p, NEW j, Desistencia(p, j)
  PROVE  IInv'
<1>1. /\ noAr /\ noAr' /\ Coerente(sala, pg) /\ Tipos /\ Espera /\ UNCHANGED jogo
  BY DEF Desistencia, EmCurso, IInv
<1>2. Tipos'
  BY <1>1, TiposDoComando DEF Desistencia, LimparTimer
<1>3. PICK m \in MembrosDe(j) :
        Confirma(ComSaida(sala, m, "saida", "encerrada"),
                 PgTermina(j, ComSaida(sala, m, "saida", "encerrada")))
  BY DEF Desistencia
<1>4. m \in Ativos(sala) /\ m.jogador = j /\ "saida" \in Motivos /\ "encerrada" \in Terminal
  BY DEF MembrosDe, Motivos, Terminal
<1>5. Coerente(sala', pg') /\ Espera'
  BY <1>1, <1>3, <1>4, SaidaEspera DEF Confirma
<1>6. QED
  BY <1>1, <1>2, <1>5, PassoNoAr

LEMMA ExpulsarIInv ==
  ASSUME IInv, NEW j \in Jogadores, Expulsar(j)
  PROVE  IInv'
<1>1. /\ noAr /\ noAr' /\ Coerente(sala, pg) /\ Tipos /\ Espera /\ UNCHANGED jogo
      /\ TemAnfitriao(sala)
  BY DEF Expulsar, Autoriza, EmCurso, IInv, TemAnfitriao, MembrosDe
<1>2. PICK alvo \in Ativos(sala) :
        /\ ~ EhAnfitriao(sala, alvo)
        /\ \/ /\ sala' = ComBotRemovido(sala, alvo)
              /\ pg' = [pg EXCEPT !.membros = @ \ LinhaDe(alvo.jogador)]
           \/ sala' = ComExpulsao(sala, alvo) /\ pg' = PgExpulsa(alvo.jogador)
        /\ janelas' \subseteq janelas /\ timers' \subseteq timers
  BY DEF Expulsar, Confirma, LimparTimer
<1>3. Tipos'
  BY <1>1, <1>2, TiposDoComando DEF Expulsar, redes
<1>4. Coerente(sala', pg')
  BY <1>1, <1>2, ExpulsaoCoerente, BotRemovidoCoerente
<1>5. pg \in Banco /\ NaoEncaminhada(sala) /\ sala.estado = pg.status
  BY <1>1 DEF Coerente, Espelha, Expulsar
<1>6. pg'.status # "encaminhada"
  <2>1. pg'.status = pg.status
    BY <1>2, <1>5 DEF Banco, PgExpulsa
  <2>2. QED
    BY <1>5, <2>1 DEF NaoEncaminhada
<1>7. Espera'
  BY <1>1, <1>6, EsperaMantida
<1>8. QED
  BY <1>1, <1>3, <1>4, <1>7, PassoNoAr

LEMMA DesbloquearIInv ==
  ASSUME IInv, NEW j \in Jogadores, Desbloquear(j)
  PROVE  IInv'
<1>1. /\ noAr /\ noAr' /\ Coerente(sala, pg) /\ Tipos /\ Espera /\ UNCHANGED jogo
      /\ NaoEncaminhada(sala) /\ MembrosDe(j) # {}
  BY DEF Desbloquear, Autoriza, EmCurso, IInv
<1>2. PICK alvo \in sala.bloqueados :
        /\ sala' = [sala EXCEPT !.bloqueados = @ \ {alvo}]
        /\ pg' = [pg EXCEPT !.membros = @ \ LinhaDe(alvo)]
  BY DEF Desbloquear, Confirma
<1>3. Tipos'
  BY <1>1, TiposDoComando DEF Desbloquear, redes
<1>4. sala.estado \in Viva /\ sala.estado = pg.status /\ pg \in Banco
  BY <1>1, MembroDaMemoria DEF MembrosDe, Coerente
<1>5. Coerente(sala', pg')
  BY <1>1, <1>2, <1>4, DesbloqueioCoerente
<1>6. pg'.status # "encaminhada"
  BY <1>1, <1>2, <1>4 DEF Banco, NaoEncaminhada
<1>7. Espera'
  BY <1>1, <1>6, EsperaMantida
<1>8. QED
  BY <1>1, <1>3, <1>5, <1>7, PassoNoAr

LEMMA AlternarIInv ==
  ASSUME IInv, NEW j \in Jogadores, AlternarProntidao(j)
  PROVE  IInv'
<1>1. /\ noAr /\ noAr' /\ Coerente(sala, pg) /\ Tipos /\ Espera /\ UNCHANGED jogo
      /\ pg' = pg
  BY DEF AlternarProntidao, EmCurso, IInv
<1>2. PICK m \in Ativos(sala) : sala' = ComProntidaoAlternada(sala, m)
  BY DEF AlternarProntidao, MembrosDe
<1>3. Tipos'
  BY <1>1, TiposDoComando DEF AlternarProntidao, redes
<1>4. Coerente(sala', pg')
  BY <1>1, <1>2, ProntidaoSemLinhas
<1>5. Espera'
  BY <1>1, EsperaMantida
<1>6. QED
  BY <1>1, <1>3, <1>4, <1>5, PassoNoAr

LEMMA EncerrarIInv ==
  ASSUME IInv, NEW j \in Jogadores, EncerrarSala(j)
  PROVE  IInv'
<1>1. /\ noAr /\ noAr' /\ Coerente(sala, pg) /\ Tipos /\ Espera /\ UNCHANGED jogo
      /\ sala' = SalaEncerrada(sala) /\ pg' = PgEncerra
  BY DEF EncerrarSala, Autoriza, EmCurso, IInv, Confirma
<1>2. Tipos'
  BY <1>1, TiposDoComando DEF EncerrarSala
<1>3. Coerente(sala', pg')
  BY <1>1, EncerramentoCoerente
<1>4. pg'.status # "encaminhada"
  BY <1>1 DEF PgEncerra, Coerente, Banco
<1>5. Espera'
  BY <1>1, <1>4, EsperaMantida
<1>6. QED
  BY <1>1, <1>2, <1>3, <1>5, PassoNoAr

-----------------------------------------------------------------------------
(* Encaminhamento.                                                         *)

(* A step that changes only what is known of the matches.                  *)
LEMMA PassoDoJogo ==
  ASSUME IInv, noAr, Espera', noAr' = noAr, UNCHANGED <<sala, pg>>,
         UNCHANGED <<janelas, timers, redes, fila, quedas, presentes>>,
         falhas' \in 0 .. MaxFalhas, rosters' \in Seq(SUBSET Jogadores),
         oferta' \in [fase: {"nenhuma", "enviada", "aceita", "perdida"},
                      roster: SUBSET Jogadores, partida: 0 .. MaxPartidas]
  PROVE  IInv'
<1>1. Tipos'
  BY DEF IInv, Tipos, redes
<1>2. Coerente(sala', pg')
  BY DEF IInv
<1>3. QED
  BY <1>1, <1>2, PassoNoAr

LEMMA IniciarIInv ==
  ASSUME IInv, NEW j \in Jogadores, IniciarPartida(j)
  PROVE  IInv'
<1>1. /\ noAr /\ Coerente(sala, pg) /\ sala \in Sala /\ sala.estado = "aberta"
      /\ sala.estado = pg.status
  BY DEF IniciarPartida, Autoriza, EmCurso, IInv, AbertaConsistente, Coerente,
         Espelha, SalaIntegra
<1>2. oferta' = [fase |-> "enviada", roster |-> JogadoresAtivos(sala), partida |-> 0]
      /\ rosters' = rosters /\ canceladas' = canceladas /\ pg' = pg
  BY DEF IniciarPartida
<1>3. JogadoresAtivos(sala) \subseteq Jogadores /\ 0 \in 0 .. MaxPartidas
  BY <1>1, ServidorAssumption DEF JogadoresAtivos, Ativos, Sala, Membro
<1>4. Espera'
  BY <1>1, <1>2 DEF IInv, Espera
<1>5. QED
  BY <1>1, <1>2, <1>3, <1>4, PassoDoJogo
     DEF IniciarPartida, memoria, conta, IInv, Tipos

(* One match more does not change the ones that were there.                *)
LEMMA MaisUmaPartida ==
  ASSUME Tipos, NEW r \in SUBSET Jogadores
  PROVE  /\ Append(rosters, r) \in Seq(SUBSET Jogadores)
         /\ Len(Append(rosters, r)) = Len(rosters) + 1
         /\ Append(rosters, r)[Len(rosters) + 1] = r
         /\ \A p \in DOMAIN rosters : Append(rosters, r)[p] = rosters[p]
         /\ DOMAIN rosters = 1 .. Len(rosters) /\ Len(rosters) \in Nat
         /\ DOMAIN Append(rosters, r) = 1 .. (Len(rosters) + 1)
<1>1. rosters \in Seq(SUBSET Jogadores)
  BY DEF Tipos
<1>2. QED
  BY <1>1, AppendProperties, LenProperties

LEMMA AceitaIInv ==
  ASSUME IInv, OfertaAceita
  PROVE  IInv'
<1>1. /\ noAr /\ Tipos /\ Espera /\ oferta.fase = "enviada" /\ Len(rosters) < MaxPartidas
      /\ rosters' = Append(rosters, oferta.roster) /\ UNCHANGED <<pg, canceladas>>
      /\ oferta' = [oferta EXCEPT !.fase = "aceita", !.partida = Len(rosters) + 1]
  BY DEF OfertaAceita, EmCurso, IInv
<1>2. oferta \in [fase: {"nenhuma", "enviada", "aceita", "perdida"},
                  roster: SUBSET Jogadores, partida: 0 .. MaxPartidas]
  BY <1>1 DEF Tipos
<1>3. oferta.roster \in SUBSET Jogadores
  BY <1>2
<1> DEFINE n == Len(rosters)
<1>4. /\ rosters' \in Seq(SUBSET Jogadores) /\ Len(rosters') = n + 1
      /\ rosters'[n + 1] = oferta.roster /\ n \in Nat
      /\ \A p \in DOMAIN rosters : rosters'[p] = rosters[p]
      /\ DOMAIN rosters = 1 .. n /\ DOMAIN rosters' = 1 .. (n + 1)
  BY <1>1, <1>3, MaisUmaPartida
<1> HIDE DEF n
<1>5. n < MaxPartidas /\ n \in Nat /\ MaxPartidas \in Nat
  BY <1>1, <1>4, ServidorAssumption DEF n
<1>6. n + 1 \in 0 .. MaxPartidas /\ n + 1 \in 1 .. (n + 1) /\ n + 1 \notin 1 .. n
      /\ 1 .. n \subseteq 1 .. (n + 1)
  BY <1>5
<1>7. /\ oferta'.fase = "aceita" /\ oferta'.partida = n + 1
      /\ oferta'.roster = oferta.roster
      /\ oferta' \in [fase: {"nenhuma", "enviada", "aceita", "perdida"},
                      roster: SUBSET Jogadores, partida: 0 .. MaxPartidas]
  BY <1>1, <1>2, <1>6 DEF n
<1>8. pg.status # "encaminhada"
  BY <1>1 DEF Espera, SemOferta
<1>9. Espera'
  <2>1. Len(rosters') <= MaxPartidas
    BY <1>4, <1>5
  <2>2. canceladas' \subseteq DOMAIN rosters' /\ n + 1 \notin canceladas'
    BY <1>1, <1>4, <1>6 DEF Espera
  <2>3. n + 1 \in DOMAIN rosters'
    BY <1>4, <1>6
  <2>4. QED
    BY <1>1, <1>4, <1>7, <1>8, <2>1, <2>2, <2>3 DEF Espera
<1>10. QED
  BY <1>1, <1>4, <1>7, <1>9, PassoDoJogo
     DEF OfertaAceita, memoria, conta, Tipos

LEMMA PerdidaIInv ==
  ASSUME IInv, OfertaPerdida
  PROVE  IInv'
<1>1. /\ noAr /\ Tipos /\ Espera /\ oferta.fase = "enviada"
      /\ UNCHANGED <<pg, canceladas>>
      /\ oferta' = [oferta EXCEPT !.fase = "perdida"]
      /\ \/ rosters' = rosters
         \/ Len(rosters) < MaxPartidas /\ rosters' = Append(rosters, oferta.roster)
  BY DEF OfertaPerdida, EmCurso, IInv
<1>2. oferta \in [fase: {"nenhuma", "enviada", "aceita", "perdida"},
                  roster: SUBSET Jogadores, partida: 0 .. MaxPartidas]
  BY <1>1 DEF Tipos
<1>3. oferta.roster \in SUBSET Jogadores
  BY <1>2
<1>4. /\ oferta'.fase = "perdida"
      /\ oferta' \in [fase: {"nenhuma", "enviada", "aceita", "perdida"},
                      roster: SUBSET Jogadores, partida: 0 .. MaxPartidas]
  BY <1>1, <1>2
<1>5. pg.status # "encaminhada"
  BY <1>1 DEF Espera, SemOferta
<1>6. /\ rosters' \in Seq(SUBSET Jogadores) /\ Len(rosters') <= MaxPartidas
      /\ DOMAIN rosters \subseteq DOMAIN rosters'
  <2>1. CASE rosters' = rosters
    BY <1>1, <2>1 DEF Tipos, Espera
  <2>2. CASE Len(rosters) < MaxPartidas /\ rosters' = Append(rosters, oferta.roster)
    <3>1. /\ rosters' \in Seq(SUBSET Jogadores) /\ Len(rosters') = Len(rosters) + 1
          /\ Len(rosters) \in Nat /\ DOMAIN rosters = 1 .. Len(rosters)
          /\ DOMAIN rosters' = 1 .. (Len(rosters) + 1)
      BY <1>1, <1>3, <2>2, MaisUmaPartida
    <3>2. QED
      BY <2>2, <3>1, ServidorAssumption
  <2>3. QED
    BY <1>1, <2>1, <2>2
<1>7. Espera'
  BY <1>1, <1>4, <1>5, <1>6 DEF Espera
<1>8. QED
  BY <1>1, <1>4, <1>6, <1>7, PassoDoJogo
     DEF OfertaPerdida, memoria, conta, Tipos

(* A row that is active has its link in memory.                            *)
LEMMA MembroDaLinha ==
  ASSUME Coerente(sala, pg), NEW l \in Ativas(pg)
  PROVE  \E m \in Ativos(sala) : m.jogador = l.jogador /\ m.ordem = l.ordem
<1>1. <<l.jogador, l.ordem>> \in Vinculos(sala)
  BY DEF Coerente, Espelha
<1>2. QED
  BY <1>1 DEF Vinculos

LEMMA FinalizarIInv ==
  ASSUME IInv, FinalizarEncaminhamento
  PROVE  IInv'
<1>1. /\ noAr /\ noAr' /\ Coerente(sala, pg) /\ Tipos /\ Espera /\ oferta' = SemOferta
      /\ oferta.fase \in {"aceita", "perdida"} /\ rosters' = rosters
  BY DEF FinalizarEncaminhamento, EmCurso, IInv
<1>2. pg.status # "encaminhada"
  BY <1>1 DEF Espera, SemOferta
<1>3. SemOferta \in [fase: {"nenhuma", "enviada", "aceita", "perdida"},
                     roster: SUBSET Jogadores, partida: 0 .. MaxPartidas]
      /\ SemOferta.fase = "nenhuma"
  BY ServidorAssumption DEF SemOferta
<1>4. falhas' \in 0 .. MaxFalhas
  BY <1>1, ServidorAssumption DEF FinalizarEncaminhamento, Tipos
<1>5. ASSUME UNCHANGED <<sala, pg>>,
             canceladas' = canceladas
               \/ (oferta.fase = "aceita" /\ canceladas' = canceladas \cup {oferta.partida})
      PROVE  IInv'
  <2>1. canceladas' \subseteq DOMAIN rosters
    BY <1>1, <1>5 DEF Espera
  <2>2. Espera'
    BY <1>1, <1>2, <1>3, <1>5, <2>1 DEF Espera
  <2>3. QED
    BY <1>1, <1>3, <1>4, <1>5, <2>2, PassoDoJogo DEF FinalizarEncaminhamento, Tipos
<1>6. ASSUME oferta.fase = "aceita", PodeAceitar(sala, oferta.roster), canceladas' = canceladas,
             Confirma([sala EXCEPT !.estado = "encaminhada"],
                      [pg EXCEPT !.status = "encaminhada", !.partida = oferta.partida])
      PROVE  IInv'
  <2>1. sala.estado \in Viva /\ oferta.partida \in 0 .. MaxPartidas
    BY <1>1, <1>6 DEF PodeAceitar, AbertaConsistente, Viva, Tipos
  <2>2. Coerente(sala', pg')
    BY <1>1, <1>6, <2>1, EncaminhamentoCoerente DEF Confirma
  <2>3. pg'.partida = oferta.partida /\ pg'.membros = pg.membros
    BY <1>1, <1>6 DEF Confirma, Coerente, Banco
  <2>4. \A l \in Ativas(pg) : l.jogador \in oferta.roster
    <3>1. \A l \in Ativas(pg) : \E m \in Ativos(sala) : m.jogador = l.jogador
      BY <1>1, MembroDaLinha
    <3>2. JogadoresAtivos(sala) = oferta.roster
      BY <1>6 DEF PodeAceitar
    <3>3. QED
      BY <3>1, <3>2 DEF JogadoresAtivos
  <2>5. Espera'
    BY <1>1, <1>3, <1>6, <2>3, <2>4 DEF Espera, Ativas
  <2>6. Tipos'
    BY <1>1, <1>3, <1>4 DEF FinalizarEncaminhamento, Tipos, redes
  <2>7. QED
    BY <1>1, <2>2, <2>5, <2>6, PassoNoAr
<1>7. QED
  BY <1>5, <1>6 DEF FinalizarEncaminhamento

LEMMA RetornoIInv ==
  ASSUME IInv, NEW p, NEW restantes, Retorno(p, restantes)
  PROVE  IInv'
<1> DEFINE saidas == {m \in Ativos(sala) : m.jogador \notin restantes}
           depois == SalaReaberta(sala, saidas)
<1>1. /\ noAr /\ noAr' /\ Coerente(sala, pg) /\ Tipos /\ Espera /\ UNCHANGED jogo
      /\ PodeReabrir(sala, saidas) /\ sala' = depois
      /\ pg' = PgReabre({m.jogador : m \in saidas}, depois)
  BY DEF Retorno, EmCurso, IInv, Confirma
<1>2. Tipos'
  BY <1>1, TiposDoComando DEF Retorno, redes
<1> HIDE DEF saidas, depois
<1>3. depois = SalaReaberta(sala, saidas)
  BY DEF depois
<1>4. Coerente(sala', pg')
  BY <1>1, <1>3, ReaberturaCoerente
<1>5. pg'.status = "aberta"
  BY <1>1 DEF PgReabre, Coerente, Banco
<1>6. Espera'
  BY <1>1, <1>5, EsperaMantida
<1>7. QED
  BY <1>1, <1>2, <1>4, <1>6, PassoNoAr

-----------------------------------------------------------------------------
(* The process ends and starts.                                            *)

LEMMA CairIInv ==
  ASSUME IInv, Cair
  PROVE  IInv'
<1>1. /\ noAr /\ ~ noAr' /\ Coerente(sala, pg) /\ Tipos /\ Espera /\ pg' = pg
      /\ pg.status \notin Terminal /\ oferta' = SemOferta
      /\ UNCHANGED <<rosters, canceladas, janelas, falhas>>
  BY DEF Cair, EmCurso, IInv
<1>2. SemOferta \in [fase: {"nenhuma", "enviada", "aceita", "perdida"},
                     roster: SUBSET Jogadores, partida: 0 .. MaxPartidas]
      /\ SemOferta.fase = "nenhuma" /\ <<>> \in Seq(Tarefas)
  BY ServidorAssumption DEF SemOferta
<1>3. quedas' \in 0 .. MaxQuedas
  BY <1>1, ServidorAssumption DEF Cair, Tipos
<1>4. Tipos'
  BY <1>1, <1>2, <1>3 DEF Cair, Tipos
<1>5. Espera'
  BY <1>1, <1>2 DEF Espera
<1>6. Parado'
  BY <1>1 DEF Cair, Parado
<1>7. QED
  BY <1>1, <1>4, <1>5, <1>6 DEF IInv

(* The tasks of the boot are expirations of links of the Sala.             *)
LEMMA FilaDaSubida ==
  ASSUME NEW ordens \in SUBSET (1 .. MaxOrdem), NEW n \in Nat,
         NEW q \in [1 .. n -> ordens]
  PROVE  [i \in DOMAIN q |-> Expirar(q[i])] \in Seq(Tarefas)
<1>1. DOMAIN q = 1 .. n /\ \A i \in 1 .. n : q[i] \in 1 .. MaxOrdem
  OBVIOUS
<1>2. \A i \in 1 .. n : Expirar(q[i]) \in Tarefas
  BY <1>1, TarefasNovas
<1>3. [i \in 1 .. n |-> Expirar(q[i])] \in [1 .. n -> Tarefas]
  BY <1>2
<1>4. QED
  BY <1>1, <1>3

LEMMA SubirIInv ==
  ASSUME IInv, Subir
  PROVE  IInv'
<1>1. /\ ~ noAr /\ noAr' /\ Parado /\ Tipos /\ Espera /\ pg' = pg
      /\ UNCHANGED <<jogo, janelas, redes, falhas, quedas>>
  BY DEF Subir, IInv
<1>2. Espera'
  BY <1>1, EsperaMantida
<1>3. PICK s : Coerente(s, pg)
  BY <1>1 DEF Parado
<1>4. CASE pg.status \in Viva
  <2> DEFINE comJanela == {m \in Ativos(Relida) : m.jogador \in janelas}
             ordens == {m.ordem : m \in Ativos(Relida) \ comJanela}
  <2>1. /\ sala' = Relida /\ timers' = {m.ordem : m \in comJanela}
        /\ \E q \in [1 .. Cardinality(ordens) -> ordens] :
             fila' = [i \in DOMAIN q |-> Expirar(q[i])]
    BY <1>4 DEF Subir, Relida
  <2>2. Coerente(Relida, pg)
    BY <1>3, <1>4, RelidaCoerente
  <2>3. \A m \in Ativos(Relida) : m.ordem \in 1 .. MaxOrdem
    <3>1. ASSUME NEW m \in Ativos(Relida) PROVE m.ordem \in 1 .. MaxOrdem
      <4>1. <<m.jogador, m.ordem>> \in {<<l.jogador, l.ordem>> : l \in Ativas(pg)}
        BY <2>2 DEF Coerente, Espelha, Vinculos
      <4>2. PICK l \in Ativas(pg) : l.ordem = m.ordem
        BY <4>1
      <4>3. QED
        BY <2>2, <4>2 DEF Coerente, Banco, Linha, Ativas
    <3>2. QED
      BY <3>1
  <2>4. comJanela \subseteq Ativos(Relida) /\ ordens \in SUBSET (1 .. MaxOrdem)
    BY <2>3
  <2>5. Cardinality(ordens) \in Nat
    <3>1. IsFiniteSet(1 .. MaxOrdem)
      BY ServidorAssumption, FS_Interval
    <3>2. QED
      BY <2>4, <3>1, FS_Subset, FS_CardinalityType
  <2> HIDE DEF ordens, comJanela
  <2>6. fila' \in Seq(Tarefas)
    BY <2>1, <2>4, <2>5, FilaDaSubida
  <2>7. timers' \subseteq 1 .. MaxOrdem
    BY <2>1, <2>3, <2>4
  <2>8. Tipos'
    BY <1>1, <2>6, <2>7 DEF Tipos, redes, jogo
  <2>9. QED
    BY <1>1, <1>2, <2>1, <2>2, <2>8, PassoNoAr
<1>5. CASE pg.status \notin Viva
  <2>1. UNCHANGED <<sala, timers, fila>> /\ sala = SalaInexistente
    BY <1>1, <1>5 DEF Subir, Parado
  <2>2. Tipos'
    BY <1>1, <2>1 DEF Tipos, redes, jogo
  <2>3. pg \in Banco /\ pg.status = "inexistente" /\ pg.membros = {}
    BY <1>1, <1>3, <1>5 DEF Parado, Coerente, Espelha, Banco, EstadosDaSala, Viva, Terminal
  <2>4. pg.anfitriao = Ninguem
    BY <1>3, <1>5, AnfitriaoVivoOuNinguem DEF Coerente, Espelha
  <2>5. Coerente(sala', pg')
    BY <1>1, <2>1, <2>3, <2>4, VaziaCoerente
  <2>6. QED
    BY <1>1, <1>2, <2>2, <2>5, PassoNoAr
<1>6. QED
  BY <1>4, <1>5

-----------------------------------------------------------------------------
LEMMA NextIInv == IInv /\ [Next]_vars => IInv'
<1> SUFFICES ASSUME IInv, [Next]_vars PROVE IInv'
  OBVIOUS
<1>1. ASSUME NEW c \in Conexoes,
             \/ AbrirConexao(c) \/ TratarReconexao(c) \/ FecharConexao(c)
             \/ PedirEntrada(c) \/ Sair(c)
      PROVE  IInv'
  BY <1>1, AbrirIInv, TratarIInv, FecharIInv, PedirIInv, SairIInv
<1>2. ASSUME NEW j \in Jogadores,
             \/ SairDeOrfa(j) \/ Expulsar(j) \/ Desbloquear(j) \/ AlternarProntidao(j)
             \/ EncerrarSala(j) \/ IniciarPartida(j) \/ JanelaVence(j)
      PROVE  IInv'
  BY <1>2, SairDeOrfaIInv, ExpulsarIInv, DesbloquearIInv, AlternarIInv, EncerrarIInv,
     IniciarIInv, JanelaIInv
<1>3. ASSUME NEW o \in timers, TimerDispara(o) PROVE IInv'
  BY <1>3, TimerIInv
<1>4. CASE Executar
  BY <1>4, CriarIInv, EntrarIInv, ReconexaoIInv, FechamentoIInv, ExpirarIInv DEF Executar
<1>5. CASE OfertaAceita \/ OfertaPerdida \/ FinalizarEncaminhamento
  BY <1>5, AceitaIInv, PerdidaIInv, FinalizarIInv
<1>6. ASSUME NEW p \in DOMAIN rosters,
             \/ \E restantes \in SUBSET rosters[p] : Retorno(p, restantes)
             \/ \E j \in rosters[p] : Desistencia(p, j)
      PROVE  IInv'
  BY <1>6, RetornoIInv, DesistenciaIInv
<1>7. CASE Cair \/ Subir
  BY <1>7, CairIInv, SubirIInv
<1>8. CASE UNCHANGED vars
  <2>1. Tipos' /\ Espera' /\ (noAr' => Coerente(sala', pg')) /\ (~ noAr' => Parado')
    BY <1>8 DEF vars, IInv, Tipos, Espera, Parado, Ativas
  <2>2. QED
    BY <2>1 DEF IInv
<1>9. QED
  BY <1>1, <1>2, <1>3, <1>4, <1>5, <1>6, <1>7, <1>8 DEF Next

(* In every state the program reaches, memory and rows describe the same   *)
(* intact Sala, and while it is down the rows still describe one.          *)
THEOREM InvarianteDoServidor == Spec => []IInv
<1>1. IInv /\ [Next]_vars => IInv'
  BY NextIInv
<1>2. QED
  BY InitIInv, <1>1, PTL DEF Spec

(* TypeOK holds.                                                           *)
THEOREM TipoDoServidor == Spec => []TypeOK
<1>1. IInv => TypeOK
  <2>1. SUFFICES ASSUME IInv PROVE TypeOK
    OBVIOUS
  <2>2. \E s : Coerente(s, pg)
    BY <2>1 DEF IInv, Parado
  <2>3. pg \in Banco
    BY <2>2 DEF Coerente
  <2>4. sala \in Sala
    BY <2>1, SalaInexistenteIntegra DEF IInv, Parado, Coerente, SalaIntegra
  <2>5. canceladas \subseteq 1 .. MaxPartidas
    <3>1. rosters \in Seq(SUBSET Jogadores) /\ Len(rosters) <= MaxPartidas
          /\ canceladas \subseteq DOMAIN rosters
      BY <2>1 DEF IInv, Tipos, Espera
    <3>2. DOMAIN rosters = 1 .. Len(rosters) /\ Len(rosters) \in Nat
      BY <3>1
    <3>3. QED
      BY <3>1, <3>2, ServidorAssumption
  <2>6. QED
    BY <2>1, <2>3, <2>4, <2>5 DEF IInv, Tipos, TypeOK, Banco
<1>2. QED
  BY <1>1, InvarianteDoServidor, PTL

(* What the process holds of the Sala and what PostgreSQL holds of it are  *)
(* the same, after every mutation, failure, crash and boot.                *)
THEOREM MemoriaEBancoConcordam == Spec => []MemoriaSegueBanco
<1>1. IInv => MemoriaSegueBanco
  BY DEF IInv, MemoriaSegueBanco, Coerente, Espelha, Vinculos, LinhasAtivas, Ativas,
         Bloqueadas
<1>2. QED
  BY <1>1, InvarianteDoServidor, PTL

(* A forwarded Sala waits for a match that exists, that nobody cancelled   *)
(* and whose roster has every Player of the Sala.                          *)
THEOREM EncaminhadaEsperaPartida == Spec => []EncaminhadaEspera
<1>1. IInv => EncaminhadaEspera
  <2>1. SUFFICES ASSUME IInv, sala.estado = "encaminhada"
                 PROVE  /\ pg.partida \in DOMAIN rosters \ canceladas
                        /\ JogadoresAtivos(sala) \subseteq rosters[pg.partida]
                        /\ oferta = SemOferta
    BY DEF EncaminhadaEspera
  <2>2. Coerente(sala, pg) /\ Espera
    BY <2>1 DEF IInv, Parado, SalaInexistente
  <2>3. pg.status = "encaminhada"
    BY <2>1, <2>2 DEF Coerente, Espelha
  <2>4. \A m \in Ativos(sala) : \E l \in Ativas(pg) : l.jogador = m.jogador
    BY <2>2, LinhaDoMembro
  <2>5. QED
    BY <2>2, <2>3, <2>4 DEF Espera, JogadoresAtivos
<1>2. QED
  BY <1>1, InvarianteDoServidor, PTL

-----------------------------------------------------------------------------
(* Deadlines.  A timer belongs to a link of the past or of an absent       *)
(* Membro; and as long as PostgreSQL never failed and no match was ever    *)
(* accepted, an absent Membro always has its timer or its expiration       *)
(* waiting.  The two exceptions are real: handleExpirar arms nothing again *)
(* after a failure, and a timer spent on a forwarded Sala is not renewed.  *)

Expira(f, o) == \E i \in DOMAIN f : f[i].tipo = "expirar" /\ f[i].ordem = o
Contado(o) == o \in timers \/ Expira(fila, o)
Intacto == falhas = 0 /\ rosters = <<>>

Prazos ==
  /\ \A o \in timers : o < sala.proxima
  /\ TimerSoDeAusente
  /\ sala.estado = "inexistente" => timers = {}
  /\ Intacto => \A m \in Ativos(sala) : m.presenca = "em_reconexao" => Contado(m.ordem)

LEMMA ExpiraNoFim ==
  ASSUME NEW f \in Seq(Tarefas), NEW t \in Tarefas, NEW o
  PROVE  /\ Expira(f, o) => Expira(Append(f, t), o)
         /\ t.tipo = "expirar" /\ t.ordem = o => Expira(Append(f, t), o)
<1>1. /\ DOMAIN f = 1 .. Len(f) /\ Len(f) \in Nat
      /\ DOMAIN Append(f, t) = 1 .. (Len(f) + 1)
      /\ \A i \in 1 .. Len(f) : Append(f, t)[i] = f[i]
      /\ Append(f, t)[Len(f) + 1] = t
  BY AppendProperties, LenProperties
<1>2. /\ 1 .. Len(f) \subseteq 1 .. (Len(f) + 1)
      /\ Len(f) + 1 \in 1 .. (Len(f) + 1)
  BY <1>1
<1>3. QED
  BY <1>1, <1>2 DEF Expira

LEMMA ExpiraSemCabeca ==
  ASSUME NEW f \in Seq(Tarefas), f # <<>>, NEW o, Expira(f, o),
         ~ (Head(f).tipo = "expirar" /\ Head(f).ordem = o)
  PROVE  Expira(Tail(f), o)
<1>1. PICK i \in DOMAIN f : f[i].tipo = "expirar" /\ f[i].ordem = o
  BY DEF Expira
<1>2. /\ DOMAIN f = 1 .. Len(f) /\ Len(f) \in Nat /\ Head(f) = f[1]
      /\ Tail(f) \in Seq(Tarefas) /\ Len(Tail(f)) = Len(f) - 1
      /\ \A k \in 1 .. Len(Tail(f)) : Tail(f)[k] = f[k + 1]
  BY HeadTailProperties, LenProperties
<1>3. i # 1 /\ i \in Nat /\ i - 1 \in 1 .. (Len(f) - 1) /\ (i - 1) + 1 = i
  BY <1>1, <1>2
<1>4. i - 1 \in DOMAIN Tail(f) /\ Tail(f)[i - 1] = f[i]
  BY <1>2, <1>3
<1>5. QED
  BY <1>1, <1>4 DEF Expira

(* A step whose links were there before with the same order and presence,  *)
(* that arms no timer and takes the count of nobody that still needs it.   *)
LEMMA PrazosMantidos ==
  ASSUME Prazos, timers' \subseteq timers, sala'.proxima = sala.proxima,
         sala'.estado = "inexistente" => sala.estado = "inexistente",
         Intacto' => Intacto,
         \A n \in Ativos(sala') : \E m \in Ativos(sala) :
           m.ordem = n.ordem /\ m.presenca = n.presenca,
         Intacto' => \A n \in Ativos(sala') :
           n.presenca = "em_reconexao" /\ Contado(n.ordem) => Contado(n.ordem)'
  PROVE  Prazos'
<1>1. \A o \in timers' : o < sala'.proxima
  BY DEF Prazos
<1>2. TimerSoDeAusente'
  BY DEF Prazos, TimerSoDeAusente
<1>3. sala'.estado = "inexistente" => timers' = {}
  BY DEF Prazos
<1>4. ASSUME Intacto', NEW n \in Ativos(sala'), n.presenca = "em_reconexao"
      PROVE  Contado(n.ordem)'
  BY <1>4 DEF Prazos
<1>5. QED
  BY <1>1, <1>2, <1>3, <1>4 DEF Prazos

(* The same, when the queue only grows and no timer is cleared.            *)
LEMMA PrazosComFila ==
  ASSUME Prazos, timers' = timers, sala'.proxima = sala.proxima,
         sala'.estado = "inexistente" => sala.estado = "inexistente",
         Intacto' => Intacto,
         \A n \in Ativos(sala') : \E m \in Ativos(sala) :
           m.ordem = n.ordem /\ m.presenca = n.presenca,
         \A o : Expira(fila, o) => Expira(fila', o)
  PROVE  Prazos'
  BY PrazosMantidos DEF Contado

(* Nothing the count depends on moves.                                     *)
LEMMA PrazosParados ==
  ASSUME Prazos, UNCHANGED <<sala, timers>>, Intacto' => Intacto,
         \A o : Expira(fila, o) => Expira(fila', o)
  PROVE  Prazos'
  BY PrazosComFila

LEMMA OrdensDosAtivos ==
  ASSUME NEW s, NEW b, Coerente(s, b)
  PROVE  /\ \A m, n \in Ativos(s) : m.ordem = n.ordem => m = n
         /\ \A m \in Ativos(s) : m.ordem < s.proxima /\ m.ordem \in Nat
         /\ s.proxima \in Nat
  BY DEF Coerente, SalaIntegra, OrdensDaSala, Ativos, Sala, Membro

(* What the running process knows at every step.                           *)
LEMMA NoAr ==
  ASSUME IInv, noAr
  PROVE  /\ Coerente(sala, pg) /\ Tipos /\ Espera /\ sala \in Sala
         /\ fila \in Seq(Tarefas)
         /\ sala.consistente /\ sala.estado = pg.status
  BY DEF IInv, Coerente, SalaIntegra, Espelha, Tipos

LEMMA SocketsPrazos ==
  ASSUME IInv, Prazos, NEW c \in Conexoes,
         \/ AbrirConexao(c) \/ TratarReconexao(c) \/ FecharConexao(c) \/ PedirEntrada(c)
  PROVE  Prazos'
<1>1. noAr /\ UNCHANGED <<sala, timers>> /\ UNCHANGED <<falhas, rosters>>
  BY DEF AbrirConexao, TratarReconexao, FecharConexao, PedirEntrada, EmCurso, memoria,
         jogo, conta
<1>2. fila' = fila \/ \E t \in Tarefas : fila' = Append(fila, t)
  <2>1. Dono(c) \in Jogadores
    BY DEF Conexoes, Dono
  <2>2. QED
    BY <2>1, TarefasNovas
       DEF AbrirConexao, TratarReconexao, FecharConexao, PedirEntrada, Enfileira
<1>3. fila \in Seq(Tarefas)
  BY <1>1, NoAr
<1>4. \A o : Expira(fila, o) => Expira(fila', o)
  BY <1>2, <1>3, ExpiraNoFim
<1>5. QED
  BY <1>1, <1>4, PrazosParados DEF Intacto

LEMMA TimerPrazos ==
  ASSUME IInv, Prazos, NEW o \in timers, TimerDispara(o)
  PROVE  Prazos'
<1>1. /\ noAr /\ UNCHANGED <<sala, falhas, rosters>>
      /\ timers' = timers \ {o} /\ fila' = Append(fila, Expirar(o))
  BY DEF TimerDispara, EmCurso, jogo, conta, Enfileira
<1>2. fila \in Seq(Tarefas) /\ Expirar(o) \in Tarefas
  BY <1>1, NoAr, TarefasNovas DEF Tipos
<1>3. Expirar(o).tipo = "expirar" /\ Expirar(o).ordem = o
  BY DEF Expirar
<1>4. \A p : Contado(p) => Contado(p)'
  BY <1>1, <1>2, <1>3, ExpiraNoFim DEF Contado
<1>5. QED
  BY <1>1, <1>4, PrazosMantidos DEF Intacto

LEMMA JanelaPrazos ==
  ASSUME Prazos, NEW j \in Jogadores, JanelaVence(j)
  PROVE  Prazos'
  BY PrazosParados DEF JanelaVence, memoria, jogo, conta, Intacto

(* The head of the queue, when it is no expiration, counts for nobody.     *)
LEMMA CabecaSemPrazo ==
  ASSUME IInv, noAr, fila # <<>>, Head(fila).tipo # "expirar", NEW o, Expira(fila, o)
  PROVE  Expira(Tail(fila), o)
  BY NoAr, ExpiraSemCabeca

LEMMA CriarPrazos ==
  ASSUME IInv, Prazos, ExecutarCriar
  PROVE  Prazos'
<1>1. /\ noAr /\ fila # <<>> /\ Head(fila).tipo = "criar" /\ fila' = Tail(fila)
      /\ UNCHANGED <<timers, falhas, rosters>>
  BY DEF ExecutarCriar, Cabeca, EmCurso, jogo, conta
<1>2. CASE sala.estado = "inexistente"
  <2>1. PICK j : sala' = SalaCriada(j)
    BY <1>2 DEF ExecutarCriar, Confirma
  <2>2. timers' = {}
    BY <1>1, <1>2 DEF Prazos
  <2>3. \A m \in Ativos(sala') : m.presenca = "conectado"
    BY <2>1 DEF SalaCriada, MembroAtivo, Ativos
  <2>4. QED
    BY <2>2, <2>3 DEF Prazos, TimerSoDeAusente
<1>3. CASE sala.estado # "inexistente"
  BY <1>1, <1>3, PrazosParados, CabecaSemPrazo DEF ExecutarCriar, Intacto
<1>4. QED
  BY <1>2, <1>3

LEMMA EntrarPrazos ==
  ASSUME IInv, Prazos, ExecutarEntrar
  PROVE  Prazos'
<1>1. /\ noAr /\ fila # <<>> /\ Head(fila).tipo = "entrar" /\ fila' = Tail(fila)
      /\ UNCHANGED <<timers, falhas, rosters>> /\ sala \in Sala /\ Coerente(sala, pg)
  BY NoAr DEF ExecutarEntrar, Cabeca, EmCurso, jogo, conta
<1>2. sala' = sala \/ \E j : PodeEntrar(sala, j) /\ sala' = ComEntrada(sala, j)
  BY DEF ExecutarEntrar, Confirma
<1>3. CASE sala' = sala
  BY <1>1, <1>3, PrazosParados, CabecaSemPrazo DEF Intacto
<1>4. ASSUME NEW j, PodeEntrar(sala, j), sala' = ComEntrada(sala, j) PROVE Prazos'
  <2> DEFINE novo == MembroAtivo(j, sala.proxima)
  <2>1. /\ novo.ordem = sala.proxima /\ novo.presenca = "conectado" /\ novo.estado = "ativo"
    BY DEF MembroAtivo
  <2>2. /\ sala'.proxima = sala.proxima + 1 /\ sala'.membros = sala.membros \cup {novo}
        /\ sala'.estado = "aberta"
    BY <1>1, <1>4 DEF ComEntrada, Sala, PodeEntrar, AbertaConsistente
  <2> HIDE DEF novo
  <2>3. Ativos(sala') = Ativos(sala) \cup {novo}
    BY <2>1, <2>2 DEF Ativos
  <2>4. sala.proxima \in Nat /\ timers \subseteq Nat
    BY <1>1, NoAr, OrdensDosAtivos DEF Tipos
  <2>5. \A o \in timers' : o < sala'.proxima
    BY <1>1, <2>2, <2>4 DEF Prazos
  <2>6. novo.ordem \notin timers
    BY <2>1, <2>4 DEF Prazos
  <2>7. TimerSoDeAusente'
    BY <1>1, <2>3, <2>6 DEF Prazos, TimerSoDeAusente
  <2>8. ASSUME Intacto', NEW n \in Ativos(sala'), n.presenca = "em_reconexao"
        PROVE  Contado(n.ordem)'
    <3>1. n \in Ativos(sala) /\ Intacto
      BY <1>1, <2>1, <2>3, <2>8 DEF Intacto
    <3>2. Contado(n.ordem)
      BY <2>8, <3>1 DEF Prazos
    <3>3. QED
      BY <1>1, <3>2, CabecaSemPrazo DEF Contado
  <2>9. QED
    BY <2>2, <2>5, <2>7, <2>8 DEF Prazos
<1>5. QED
  BY <1>2, <1>3, <1>4

LEMMA ReconexaoPrazos ==
  ASSUME IInv, Prazos, ExecutarReconexao
  PROVE  Prazos'
<1>1. /\ noAr /\ fila # <<>> /\ Head(fila).tipo = "reconexao"
      /\ UNCHANGED <<falhas, rosters>> /\ sala \in Sala /\ Coerente(sala, pg)
      /\ Tail(fila) \in Seq(Tarefas)
  BY NoAr, CabecaDaFila DEF ExecutarReconexao, Cabeca, EmCurso, jogo, conta
<1>2. \/ fila' = Tail(fila) /\ UNCHANGED <<sala, timers>>
      \/ \E m \in Ativos(sala) :
           /\ sala' = ComPresenca(sala, m, "conectado") /\ timers' = timers \ {m.ordem}
           /\ fila' = Tail(fila)
      \/ \E m \in Ativos(sala) :
           fila' = Append(Tail(fila), Expirar(m.ordem)) /\ UNCHANGED <<sala, timers>>
  BY DEF ExecutarReconexao, MembrosDe, LimparTimer
<1>3. CASE fila' = Tail(fila) /\ UNCHANGED <<sala, timers>>
  BY <1>1, <1>3, PrazosParados, CabecaSemPrazo DEF Intacto
<1>4. ASSUME NEW m \in Ativos(sala), sala' = ComPresenca(sala, m, "conectado"),
             timers' = timers \ {m.ordem}, fila' = Tail(fila)
      PROVE  Prazos'
  <2> DEFINE k == [m EXCEPT !.presenca = "conectado"]
  <2>1. Ativos(sala') = (Ativos(sala) \ {m}) \cup {k}
    BY <1>1, <1>4, PresencaSemLinhas DEF Presencas
  <2>2. k.ordem = m.ordem /\ k.presenca = "conectado"
    BY <1>1 DEF Sala, Membro, Ativos
  <2>3. sala'.proxima = sala.proxima /\ sala'.estado = sala.estado
    BY <1>1, <1>4 DEF ComPresenca, Sala
  <2> HIDE DEF k
  <2>4. \A n \in Ativos(sala) \ {m} : n.ordem # m.ordem
    BY <1>1, OrdensDosAtivos
  <2>5. TimerSoDeAusente'
    BY <1>4, <2>1, <2>2 DEF Prazos, TimerSoDeAusente
  <2>6. ASSUME Intacto', NEW n \in Ativos(sala'), n.presenca = "em_reconexao"
        PROVE  Contado(n.ordem)'
    <3>1. n \in Ativos(sala) \ {m} /\ Intacto
      BY <1>1, <2>1, <2>2, <2>6 DEF Intacto
    <3>2. Contado(n.ordem) /\ n.ordem # m.ordem
      BY <2>4, <2>6, <3>1 DEF Prazos
    <3>3. QED
      BY <1>1, <1>4, <3>2, CabecaSemPrazo DEF Contado
  <2>7. QED
    BY <1>4, <2>3, <2>5, <2>6 DEF Prazos
<1>5. ASSUME NEW m \in Ativos(sala), fila' = Append(Tail(fila), Expirar(m.ordem)),
             UNCHANGED <<sala, timers>>
      PROVE  Prazos'
  <2>1. Expirar(m.ordem) \in Tarefas
    BY <1>1, MembroDaMemoria, TarefasNovas
  <2>2. \A o : Expira(fila, o) => Expira(fila', o)
    BY <1>1, <1>5, <2>1, CabecaSemPrazo, ExpiraNoFim
  <2>3. QED
    BY <1>1, <1>5, <2>2, PrazosParados DEF Intacto
<1>6. QED
  BY <1>2, <1>3, <1>4, <1>5

LEMMA FechamentoPrazos ==
  ASSUME IInv, Prazos, ExecutarFechamento
  PROVE  Prazos'
<1>1. /\ noAr /\ fila # <<>> /\ Head(fila).tipo = "fechamento" /\ fila' = Tail(fila)
      /\ UNCHANGED <<falhas, rosters>> /\ sala \in Sala /\ Coerente(sala, pg)
  BY NoAr DEF ExecutarFechamento, Cabeca, EmCurso, jogo, conta
<1>2. \/ UNCHANGED <<sala, timers>>
      \/ \E m \in Ativos(sala) :
           sala' = ComPresenca(sala, m, "em_reconexao") /\ timers' = timers \cup {m.ordem}
  BY DEF ExecutarFechamento, MembrosDe, AgendarExpiracao
<1>3. CASE UNCHANGED <<sala, timers>>
  BY <1>1, <1>3, PrazosParados, CabecaSemPrazo DEF Intacto
<1>4. ASSUME NEW m \in Ativos(sala), sala' = ComPresenca(sala, m, "em_reconexao"),
             timers' = timers \cup {m.ordem}
      PROVE  Prazos'
  <2> DEFINE k == [m EXCEPT !.presenca = "em_reconexao"]
  <2>1. Ativos(sala') = (Ativos(sala) \ {m}) \cup {k}
    BY <1>1, <1>4, PresencaSemLinhas DEF Presencas
  <2>2. k.ordem = m.ordem /\ k.presenca = "em_reconexao"
    BY <1>1 DEF Sala, Membro, Ativos
  <2>3. sala'.proxima = sala.proxima /\ sala'.estado = sala.estado
        /\ sala.estado # "inexistente"
    BY <1>1, <1>4, MembroDaMemoria DEF ComPresenca, Sala, Viva
  <2> HIDE DEF k
  <2>4. /\ \A n \in Ativos(sala) \ {m} : n.ordem # m.ordem
        /\ m.ordem < sala.proxima
    BY <1>1, OrdensDosAtivos
  <2>5. TimerSoDeAusente'
    BY <1>4, <2>1, <2>2, <2>4 DEF Prazos, TimerSoDeAusente
  <2>6. ASSUME Intacto', NEW n \in Ativos(sala'), n.presenca = "em_reconexao"
        PROVE  Contado(n.ordem)'
    <3>1. CASE n = k
      BY <1>4, <2>2, <3>1 DEF Contado
    <3>2. CASE n # k
      <4>1. n \in Ativos(sala) /\ Intacto
        BY <1>1, <2>1, <2>6, <3>2 DEF Intacto
      <4>2. Contado(n.ordem)
        BY <2>6, <4>1 DEF Prazos
      <4>3. QED
        BY <1>1, <1>4, <4>2, CabecaSemPrazo DEF Contado
    <3>3. QED
      BY <3>1, <3>2
  <2>7. \A o \in timers' : o < sala'.proxima
    BY <1>4, <2>3, <2>4 DEF Prazos
  <2>8. QED
    BY <2>3, <2>5, <2>6, <2>7 DEF Prazos
<1>5. QED
  BY <1>2, <1>3, <1>4

(* A match was accepted once a Sala is forwarded.                          *)
LEMMA EncaminhadaNaoIntacta ==
  ASSUME Espera, Tipos, pg.status = "encaminhada"
  PROVE  ~ Intacto
  BY DEF Espera, Intacto

LEMMA ExpirarPrazos ==
  ASSUME IInv, Prazos, ExecutarExpirar
  PROVE  Prazos'
<1> DEFINE o == Head(fila).ordem
           alvos == {m \in sala.membros : m.ordem = o}
<1>1. /\ noAr /\ fila # <<>> /\ Head(fila).tipo = "expirar" /\ fila' = Tail(fila)
      /\ rosters' = rosters /\ sala \in Sala /\ Coerente(sala, pg) /\ Tipos /\ Espera
      /\ sala.consistente /\ sala.estado = pg.status /\ fila \in Seq(Tarefas)
  BY NoAr DEF ExecutarExpirar, Cabeca, EmCurso, jogo
<1>2. \/ /\ \A m \in alvos : ~ PodeExpirar(sala, m)
         /\ timers' = timers \ {o} /\ UNCHANGED <<sala, falhas>>
      \/ \E m \in alvos :
           /\ PodeExpirar(sala, m) /\ sala' = ComSaida(sala, m, "expiracao", "expirada")
           /\ timers' = timers \ {o} /\ falhas' = falhas
      \/ falhas' = falhas + 1 /\ UNCHANGED <<sala, timers>>
  BY DEF ExecutarExpirar, Confirma, LimparTimer
<1>3. \A p : p # o /\ Contado(p) /\ timers \ {o} \subseteq timers' => Contado(p)'
  BY <1>1, ExpiraSemCabeca DEF Contado
<1> HIDE DEF o
<1>4. CASE /\ \A m \in alvos : ~ PodeExpirar(sala, m)
           /\ timers' = timers \ {o} /\ UNCHANGED <<sala, falhas>>
  <2>1. ASSUME Intacto', NEW n \in Ativos(sala), n.presenca = "em_reconexao"
        PROVE  n.ordem # o
    <3>1. Intacto
      BY <1>1, <1>4, <2>1 DEF Intacto
    <3>2. NaoEncaminhada(sala)
      BY <1>1, <3>1, EncaminhadaNaoIntacta DEF NaoEncaminhada
    <3>3. PodeExpirar(sala, n)
      BY <2>1, <3>2 DEF PodeExpirar
    <3>4. n \in sala.membros
      BY DEF Ativos
    <3>5. QED
      BY <1>4, <3>3, <3>4
  <2>2. QED
    BY <1>1, <1>3, <1>4, <2>1, PrazosMantidos DEF Intacto
<1>5. ASSUME NEW m \in alvos, PodeExpirar(sala, m),
             sala' = ComSaida(sala, m, "expiracao", "expirada"),
             timers' = timers \ {o}, falhas' = falhas
      PROVE  Prazos'
  <2>1. m \in Ativos(sala) /\ m.ordem = o
    BY <1>5 DEF PodeExpirar
  <2>2. Ativos(sala') = Ativos(sala) \ {m}
    BY <1>1, <1>5, <2>1, SaidaCoerente DEF Motivos, Terminal
  <2>3. sala'.proxima = sala.proxima /\ sala'.estado # "inexistente"
    BY <1>1, <1>5, <2>1, MembroDaMemoria DEF ComSaida, Sala, Viva
  <2>4. \A n \in Ativos(sala') : n.ordem # o
    BY <1>1, <2>1, <2>2, OrdensDosAtivos
  <2>5. QED
    BY <1>1, <1>3, <1>5, <2>2, <2>3, <2>4, PrazosMantidos DEF Intacto
<1>6. CASE falhas' = falhas + 1 /\ UNCHANGED <<sala, timers>>
  <2>1. ~ Intacto'
    BY <1>1, <1>6 DEF Intacto, Tipos
  <2>2. QED
    BY <1>6, <2>1, PrazosMantidos
<1>7. QED
  BY <1>2, <1>4, <1>5, <1>6

(* A command that ends the links saem and clears timers of them only.      *)
LEMMA SaemPrazos ==
  ASSUME IInv, noAr, Prazos, NEW saem \in SUBSET Ativos(sala),
         sala'.proxima = sala.proxima, sala'.estado # "inexistente",
         \A n \in Ativos(sala') : \E m \in Ativos(sala) \ saem :
           m.ordem = n.ordem /\ m.presenca = n.presenca,
         timers' \subseteq timers, timers \ {m.ordem : m \in saem} \subseteq timers',
         UNCHANGED <<fila, jogo, falhas>>
  PROVE  Prazos'
<1>1. Coerente(sala, pg)
  BY NoAr
<1>2. \A n \in Ativos(sala'), m \in saem : n.ordem # m.ordem
  BY <1>1, OrdensDosAtivos
<1>3. \A n \in Ativos(sala') : Contado(n.ordem) => Contado(n.ordem)'
  BY <1>2 DEF Contado
<1>4. Intacto' => Intacto
  BY DEF Intacto, jogo
<1>5. QED
  BY <1>3, <1>4, PrazosMantidos

LEMMA ComandosPrazos ==
  ASSUME IInv, Prazos, NEW m \in Ativos(sala),
         noAr, sala' = ComSaida(sala, m, "saida", "encerrada"),
         timers' = timers \/ timers' = timers \ {m.ordem},
         UNCHANGED <<fila, jogo, falhas>>
  PROVE  Prazos'
<1>1. Coerente(sala, pg) /\ sala \in Sala
  BY NoAr
<1>2. Ativos(sala') = Ativos(sala) \ {m}
  BY <1>1, SaidaCoerente DEF Motivos, Terminal
<1>3. sala'.proxima = sala.proxima /\ sala'.estado # "inexistente"
  BY <1>1, MembroDaMemoria DEF ComSaida, Sala, Viva
<1>4. /\ \A n \in Ativos(sala') : \E k \in Ativos(sala) \ {m} :
           k.ordem = n.ordem /\ k.presenca = n.presenca
      /\ timers' \subseteq timers /\ timers \ {k.ordem : k \in {m}} \subseteq timers'
  BY <1>2
<1>5. {m} \in SUBSET Ativos(sala)
  OBVIOUS
<1>6. QED
  BY <1>3, <1>4, <1>5, SaemPrazos

LEMMA SaidasPrazos ==
  ASSUME IInv, Prazos,
         \/ \E c \in Conexoes : Sair(c)
         \/ \E j \in Jogadores : SairDeOrfa(j)
         \/ \E p, j : Desistencia(p, j)
  PROVE  Prazos'
<1>1. \E m \in Ativos(sala) :
        /\ sala' = ComSaida(sala, m, "saida", "encerrada")
        /\ timers' = timers \/ timers' = timers \ {m.ordem}
  BY DEF Sair, SairDeOrfa, Desistencia, MembrosDe, Confirma, LimparTimer
<1>2. noAr /\ UNCHANGED <<fila, jogo, falhas>>
  BY DEF Sair, SairDeOrfa, Desistencia, EmCurso, conta
<1>3. QED
  BY <1>1, <1>2, ComandosPrazos

LEMMA ExpulsarPrazos ==
  ASSUME IInv, Prazos, NEW j \in Jogadores, Expulsar(j)
  PROVE  Prazos'
<1>1. /\ noAr /\ Coerente(sala, pg) /\ sala \in Sala /\ UNCHANGED <<fila, jogo, falhas>>
      /\ TemAnfitriao(sala)
  BY NoAr DEF Expulsar, Autoriza, EmCurso, conta, TemAnfitriao, MembrosDe
<1>2. PICK alvo \in Ativos(sala) :
        /\ ~ EhAnfitriao(sala, alvo) /\ timers' = timers \ {alvo.ordem}
        /\ sala' = ComBotRemovido(sala, alvo) \/ sala' = ComExpulsao(sala, alvo)
  BY DEF Expulsar, Confirma, LimparTimer
<1>3. Ativos(sala') = Ativos(sala) \ {alvo}
  BY <1>1, <1>2, ExpulsaoCoerente, BotRemovidoCoerente
<1>4. sala'.proxima = sala.proxima /\ sala'.estado # "inexistente"
  BY <1>1, <1>2, MembroDaMemoria DEF ComBotRemovido, ComExpulsao, Sala, Viva
<1>5. /\ \A n \in Ativos(sala') : \E k \in Ativos(sala) \ {alvo} :
           k.ordem = n.ordem /\ k.presenca = n.presenca
      /\ timers' \subseteq timers /\ timers \ {k.ordem : k \in {alvo}} \subseteq timers'
  BY <1>2, <1>3
<1>6. QED
  BY <1>1, <1>4, <1>5, SaemPrazos

(* Nobody leaves.                                                          *)
LEMMA FicamPrazos ==
  ASSUME Prazos, timers' = timers, fila' = fila, Intacto' => Intacto,
         sala'.proxima = sala.proxima,
         sala'.estado = "inexistente" => sala.estado = "inexistente",
         \A n \in Ativos(sala') : \E m \in Ativos(sala) :
           m.ordem = n.ordem /\ m.presenca = n.presenca
  PROVE  Prazos'
  BY PrazosComFila

LEMMA DesbloquearPrazos ==
  ASSUME IInv, Prazos, NEW j \in Jogadores, Desbloquear(j)
  PROVE  Prazos'
<1>1. noAr /\ sala \in Sala /\ UNCHANGED <<timers, fila, jogo, falhas>>
  BY NoAr DEF Desbloquear, Autoriza, EmCurso, conta
<1>2. /\ sala'.proxima = sala.proxima /\ sala'.estado = sala.estado
      /\ sala'.membros = sala.membros
  BY <1>1 DEF Desbloquear, Confirma, Sala
<1>3. Ativos(sala') = Ativos(sala)
  BY <1>2 DEF Ativos
<1>4. QED
  BY <1>1, <1>2, <1>3, FicamPrazos DEF Intacto, jogo

LEMMA AlternarPrazos ==
  ASSUME IInv, Prazos, NEW j \in Jogadores, AlternarProntidao(j)
  PROVE  Prazos'
<1>1. noAr /\ Coerente(sala, pg) /\ sala \in Sala /\ UNCHANGED <<timers, fila, jogo, falhas>>
  BY NoAr DEF AlternarProntidao, EmCurso, conta
<1>2. PICK m \in Ativos(sala) : sala' = ComProntidaoAlternada(sala, m)
  BY DEF AlternarProntidao, MembrosDe
<1>3. Ativos(sala') = (Ativos(sala) \ {m}) \cup {[m EXCEPT !.pronto = ~ @]}
  BY <1>1, <1>2, ProntidaoSemLinhas
<1>4. /\ [m EXCEPT !.pronto = ~ @].ordem = m.ordem
      /\ [m EXCEPT !.pronto = ~ @].presenca = m.presenca
  BY <1>1 DEF Sala, Membro, Ativos
<1>5. \A n \in Ativos(sala') : \E k \in Ativos(sala) :
        k.ordem = n.ordem /\ k.presenca = n.presenca
  BY <1>3, <1>4
<1>6. sala'.proxima = sala.proxima /\ sala'.estado = sala.estado
  BY <1>1, <1>2 DEF ComProntidaoAlternada, Sala
<1>7. QED
  BY <1>1, <1>5, <1>6, FicamPrazos DEF Intacto, jogo

LEMMA EncerrarPrazos ==
  ASSUME IInv, Prazos, NEW j \in Jogadores, EncerrarSala(j)
  PROVE  Prazos'
<1>1. /\ noAr /\ sala \in Sala /\ UNCHANGED <<timers, fila, jogo, falhas>>
      /\ SalaIntegra(sala) /\ sala' = SalaEncerrada(sala)
  BY NoAr DEF EncerrarSala, Autoriza, EmCurso, conta, Confirma, Coerente
<1>2. Ativos(sala') = {}
  BY <1>1, SalaEncerradaIntegra
<1>3. sala'.proxima = sala.proxima /\ sala'.estado = "encerrada"
  BY <1>1 DEF SalaEncerrada, Sala
<1>4. QED
  BY <1>1, <1>2, <1>3, FicamPrazos DEF Intacto, jogo

LEMMA OfertaPrazos ==
  ASSUME IInv, Prazos,
         \/ \E j \in Jogadores : IniciarPartida(j)
         \/ OfertaAceita \/ OfertaPerdida \/ FinalizarEncaminhamento
  PROVE  Prazos'
<1>1. /\ noAr /\ sala \in Sala /\ Tipos /\ UNCHANGED <<timers, fila>>
  BY NoAr DEF IniciarPartida, Autoriza, OfertaAceita, OfertaPerdida,
     FinalizarEncaminhamento, EmCurso, memoria
<1>2. sala' = sala \/ sala' = [sala EXCEPT !.estado = "encaminhada"]
  BY DEF IniciarPartida, OfertaAceita, OfertaPerdida, FinalizarEncaminhamento, Confirma,
     memoria
<1>3. sala'.proxima = sala.proxima /\ sala'.membros = sala.membros
      /\ (sala'.estado = "inexistente" => sala.estado = "inexistente")
  BY <1>1, <1>2 DEF Sala
<1>4. Ativos(sala') = Ativos(sala)
  BY <1>3 DEF Ativos
<1>5. rosters' = <<>> => rosters = <<>>
  <2>1. rosters' = rosters \/ rosters' = Append(rosters, oferta.roster)
    BY DEF IniciarPartida, OfertaAceita, OfertaPerdida, FinalizarEncaminhamento
  <2>2. oferta.roster \in SUBSET Jogadores
    BY <1>1 DEF Tipos
  <2>3. Append(rosters, oferta.roster) # <<>>
    BY <1>1, <2>2, AppendProperties DEF Tipos
  <2>4. QED
    BY <2>1, <2>3
<1>6. falhas' = 0 => falhas = 0
  <2>1. falhas' = falhas \/ falhas' = falhas + 1
    BY DEF IniciarPartida, OfertaAceita, OfertaPerdida, FinalizarEncaminhamento, conta
  <2>2. falhas \in Nat
    BY <1>1 DEF Tipos
  <2>3. QED
    BY <2>1, <2>2
<1>7. QED
  BY <1>1, <1>3, <1>4, <1>5, <1>6, FicamPrazos DEF Intacto

LEMMA RetornoPrazos ==
  ASSUME IInv, Prazos, NEW p, NEW restantes, Retorno(p, restantes)
  PROVE  Prazos'
<1>1. /\ noAr /\ sala \in Sala /\ Tipos /\ Espera /\ UNCHANGED <<rosters, falhas, timers>>
      /\ pg.status = "encaminhada"
  BY NoAr DEF Retorno, DaPartidaVigente, EmCurso, memoria, jogo, conta
<1>2. ~ Intacto'
  BY <1>1, EncaminhadaNaoIntacta DEF Intacto
<1>3. PICK saidas \in SUBSET Ativos(sala) : sala' = SalaReaberta(sala, saidas)
  BY DEF Retorno, Confirma
<1>4. sala'.proxima = sala.proxima /\ sala'.estado = "aberta"
      /\ sala'.membros = {NaoPronto(m) : m \in Encerrar(sala.membros, saidas, "saida")}
  BY <1>1, <1>3 DEF SalaReaberta, Sala
<1>5. ASSUME NEW n \in Ativos(sala')
      PROVE  \E m \in Ativos(sala) : m.ordem = n.ordem /\ m.presenca = n.presenca
  <2>1. sala.membros \in SUBSET Membro /\ saidas \in SUBSET sala.membros /\ "saida" \in Motivos
    BY <1>1 DEF Sala, Ativos, Motivos
  <2>2. Encerrar(sala.membros, saidas, "saida") \in SUBSET Membro
        /\ {m \in Encerrar(sala.membros, saidas, "saida") : m.estado = "ativo"}
             = Ativos(sala) \ saidas
    BY <2>1, EncerrarCorreto DEF Ativos
  <2>3. PICK m \in Encerrar(sala.membros, saidas, "saida") : n = NaoPronto(m)
    BY <1>4 DEF Ativos
  <2>4. m \in Membro
    BY <2>2
  <2>5. n.ordem = m.ordem /\ n.presenca = m.presenca /\ n.estado = m.estado
    BY <2>3, <2>4 DEF NaoPronto, Membro
  <2>6. n.estado = "ativo"
    BY DEF Ativos
  <2>7. m \in Ativos(sala)
    BY <2>2, <2>5, <2>6
  <2>8. QED
    BY <2>5, <2>7
<1>6. QED
  BY <1>1, <1>2, <1>4, <1>5, PrazosMantidos

LEMMA CairPrazos ==
  ASSUME Cair
  PROVE  Prazos'
<1>1. sala' = SalaInexistente /\ timers' = {}
  BY DEF Cair
<1>2. Ativos(sala') = {}
  BY <1>1 DEF SalaInexistente, Ativos
<1>3. QED
  BY <1>1, <1>2 DEF Prazos, TimerSoDeAusente

(* After a boot every link is counted: by a timer if its window is still   *)
(* open, by an expiration in the queue if it is not.                       *)
LEMMA SubirPrazos ==
  ASSUME IInv, Prazos, Subir
  PROVE  Prazos'
<1>1. /\ ~ noAr /\ Parado /\ UNCHANGED <<rosters, falhas>>
  BY DEF Subir, IInv, jogo
<1>2. CASE pg.status \in Viva
  <2> DEFINE comJanela == {m \in Ativos(Relida) : m.jogador \in janelas}
             ordens == {m.ordem : m \in Ativos(Relida) \ comJanela}
  <2>1. /\ sala' = Relida /\ timers' = {m.ordem : m \in comJanela}
        /\ \E q \in [1 .. Cardinality(ordens) -> ordens] :
             Percorre(q, ordens) /\ fila' = [i \in DOMAIN q |-> Expirar(q[i])]
    BY <1>2 DEF Subir, Relida
  <2>2. Coerente(Relida, pg) /\ \A m \in Ativos(Relida) : m.presenca = "em_reconexao"
    BY <1>1, <1>2, RelidaCoerente DEF Parado
  <2>3. sala'.estado # "inexistente"
    BY <1>2, <2>1, <2>2 DEF Coerente, Espelha, Viva
  <2>4. \A o \in timers' : o < sala'.proxima
    BY <2>1, <2>2, OrdensDosAtivos
  <2>5. ASSUME NEW n \in Ativos(sala') PROVE Contado(n.ordem)'
    <3>1. CASE n \in comJanela
      BY <2>1, <3>1 DEF Contado
    <3>2. CASE n \notin comJanela
      <4>1. n.ordem \in ordens
        BY <2>1, <3>2
      <4> HIDE DEF ordens, comJanela
      <4>2. PICK q : Percorre(q, ordens) /\ fila' = [i \in DOMAIN q |-> Expirar(q[i])]
        BY <2>1
      <4>3. PICK i \in DOMAIN q : q[i] = n.ordem
        BY <4>1, <4>2 DEF Percorre
      <4>4. i \in DOMAIN fila' /\ fila'[i] = Expirar(n.ordem)
        BY <4>2, <4>3
      <4>5. QED
        BY <4>4 DEF Contado, Expira, Expirar
    <3>3. QED
      BY <3>1, <3>2
  <2>6. QED
    BY <2>1, <2>2, <2>3, <2>4, <2>5 DEF Prazos, TimerSoDeAusente
<1>3. CASE pg.status \notin Viva
  <2>1. UNCHANGED <<sala, timers, fila>>
    BY <1>3 DEF Subir
  <2>2. QED
    BY <1>1, <2>1, PrazosParados DEF Intacto
<1>4. QED
  BY <1>2, <1>3

LEMMA NextPrazos == IInv /\ Prazos /\ [Next]_vars => Prazos'
<1> SUFFICES ASSUME IInv, Prazos, [Next]_vars PROVE Prazos'
  OBVIOUS
<1>1. ASSUME NEW c \in Conexoes,
             \/ AbrirConexao(c) \/ TratarReconexao(c) \/ FecharConexao(c)
             \/ PedirEntrada(c) \/ Sair(c)
      PROVE  Prazos'
  BY <1>1, SocketsPrazos, SaidasPrazos
<1>2. ASSUME NEW j \in Jogadores,
             \/ SairDeOrfa(j) \/ Expulsar(j) \/ Desbloquear(j) \/ AlternarProntidao(j)
             \/ EncerrarSala(j) \/ IniciarPartida(j) \/ JanelaVence(j)
      PROVE  Prazos'
  BY <1>2, SaidasPrazos, ExpulsarPrazos, DesbloquearPrazos, AlternarPrazos, EncerrarPrazos,
     OfertaPrazos, JanelaPrazos
<1>3. ASSUME NEW o \in timers, TimerDispara(o) PROVE Prazos'
  BY <1>3, TimerPrazos
<1>4. CASE Executar
  BY <1>4, CriarPrazos, EntrarPrazos, ReconexaoPrazos, FechamentoPrazos, ExpirarPrazos
     DEF Executar
<1>5. CASE OfertaAceita \/ OfertaPerdida \/ FinalizarEncaminhamento
  BY <1>5, OfertaPrazos
<1>6. ASSUME NEW p \in DOMAIN rosters,
             \/ \E restantes \in SUBSET rosters[p] : Retorno(p, restantes)
             \/ \E j \in rosters[p] : Desistencia(p, j)
      PROVE  Prazos'
  BY <1>6, RetornoPrazos, SaidasPrazos
<1>7. CASE Cair \/ Subir
  BY <1>7, CairPrazos, SubirPrazos
<1>8. CASE UNCHANGED vars
  BY <1>8, PrazosParados DEF vars, Intacto
<1>9. QED
  BY <1>1, <1>2, <1>3, <1>4, <1>5, <1>6, <1>7, <1>8 DEF Next

LEMMA PrazosSempre == Spec => []Prazos
<1>1. Init => Prazos
  BY DEF Init, Prazos, TimerSoDeAusente, SalaInexistente, Ativos
<1>2. IInv /\ Prazos /\ [Next]_vars => Prazos'
  BY NextPrazos
<1>3. QED
  BY <1>1, <1>2, InvarianteDoServidor, PTL DEF Spec

(* No Membro that is connected is counted down, whatever sockets, timers,  *)
(* failures and crashes did.                                               *)
THEOREM ConectadoSemTimer == Spec => []TimerSoDeAusente
<1>1. Prazos => TimerSoDeAusente
  BY DEF Prazos
<1>2. QED
  BY <1>1, PrazosSempre, PTL

(* Before the first match and the first failure of PostgreSQL, an absent   *)
(* Membro is always counted down, crashes included.                        *)
THEOREM AusenciaContada == Spec => [](falhas = 0 /\ rosters = <<>> => AusenteTemPrazo)
<1>1. Prazos => (falhas = 0 /\ rosters = <<>> => AusenteTemPrazo)
  BY DEF Prazos, Intacto, AusenteTemPrazo, Contado, Expira
<1>2. QED
  BY <1>1, PrazosSempre, PTL

=============================================================================
