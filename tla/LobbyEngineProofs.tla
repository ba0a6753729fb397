------------------------- MODULE LobbyEngineProofs --------------------------
(***************************************************************************)
(* Theorems of LobbyEngine, for any Salas, Players, limits and MaxOrdem.   *)
(*                                                                         *)
(* The inductive invariant is the integrity of each Sala                   *)
(* (LobbyDominioProofs) and, between Salas, disjoint active Players.  Of   *)
(* the properties that follow none is inductive alone: that the Anfitrião  *)
(* is alive needs orders that identify links (or a succession could name   *)
(* an ended link), and that associations are unique needs the same fact    *)
(* inside each Sala.                                                       *)
(*                                                                         *)
(* What a step may do follows from its effect on one Sala: ended links stay*)
(* as they ended, a forwarded Sala is frozen, and the engine implements the*)
(* life cycle of CicloDasSalas.                                            *)
(***************************************************************************)
EXTENDS LobbyEngine, LobbyDominioProofs

IInv ==
  /\ salas \in [Salas -> Sala]
  /\ \A s \in Salas : SalaIntegra(salas[s])
  /\ \A s, t \in Salas :
       s # t => JogadoresAtivos(salas[s]) \cap JogadoresAtivos(salas[t]) = {}

-----------------------------------------------------------------------------
(* The empty lobby satisfies the inductive invariant.                      *)
LEMMA InitIInv == Init => IInv
  BY SalaInexistenteIntegra DEF Init, IInv, SalaIntegra

(* A command that replaces the Sala s by an intact one whose Players were  *)
(* its own preserves the invariant.                                        *)
LEMMA SubstituirIInv ==
  ASSUME IInv, NEW s \in Salas, NEW nova, SalaIntegra(nova), Substituir(s, nova),
         JogadoresAtivos(nova) \subseteq JogadoresAtivos(salas[s])
  PROVE  IInv'
<1>1. salas' = [salas EXCEPT ![s] = nova] /\ nova \in Sala
  BY DEF Substituir, SalaIntegra
<1>2. salas' \in [Salas -> Sala]
  BY <1>1 DEF IInv
<1>3. \A t \in Salas : salas'[t] = IF t = s THEN nova ELSE salas[t]
  BY <1>1 DEF IInv
<1>4. \A t \in Salas : SalaIntegra(salas'[t])
  BY <1>3 DEF IInv
<1>5. \A t \in Salas : JogadoresAtivos(salas'[t]) \subseteq JogadoresAtivos(salas[t])
  BY <1>3
<1>6. \A t, u \in Salas :
        t # u => JogadoresAtivos(salas'[t]) \cap JogadoresAtivos(salas'[u]) = {}
  BY <1>5 DEF IInv
<1>7. QED
  BY <1>2, <1>4, <1>6 DEF IInv

(* The same for the two commands that bring in a Player j that no Sala has *)
(* active.                                                                 *)
LEMMA AssociarIInv ==
  ASSUME IInv, NEW s \in Salas, NEW j \in Jogadores, ~ Associado(j),
         NEW nova, SalaIntegra(nova), Substituir(s, nova),
         JogadoresAtivos(nova) \subseteq JogadoresAtivos(salas[s]) \cup {j}
  PROVE  IInv'
<1>1. salas' = [salas EXCEPT ![s] = nova] /\ nova \in Sala
  BY DEF Substituir, SalaIntegra
<1>2. salas' \in [Salas -> Sala]
  BY <1>1 DEF IInv
<1>3. \A t \in Salas : salas'[t] = IF t = s THEN nova ELSE salas[t]
  BY <1>1 DEF IInv
<1>4. \A t \in Salas : SalaIntegra(salas'[t])
  BY <1>3 DEF IInv
<1>5. \A t \in Salas : j \notin JogadoresAtivos(salas[t])
  BY DEF Associado
<1>6. \A t, u \in Salas :
        t # u => JogadoresAtivos(salas'[t]) \cap JogadoresAtivos(salas'[u]) = {}
  BY <1>3, <1>5 DEF IInv
<1>7. QED
  BY <1>2, <1>4, <1>6 DEF IInv

(* A command on one active link of s.                                      *)
LEMMA ComandoDeMembroIInv ==
  ASSUME IInv, NEW s \in Salas, NEW m \in Ativos(salas[s]), ComandoDeMembro(s, m)
  PROVE  IInv'
<1> DEFINE sala == salas[s]
<1>1. SalaIntegra(sala) /\ "saida" \in Motivos /\ "expiracao" \in Motivos
  BY DEF IInv, Motivos
<1>2. "encerrada" \in Terminal /\ "expirada" \in Terminal
  BY DEF Terminal
<1>3. \A nova : Ativos(nova) \subseteq Ativos(sala)
                  => JogadoresAtivos(nova) \subseteq JogadoresAtivos(sala)
  BY DEF JogadoresAtivos
<1> HIDE DEF sala
<1>4. CASE SairDaSala(s, m) \/ SairDaSalaEncaminhada(s, m)
  <2>1. Substituir(s, ComSaida(sala, m, "saida", "encerrada"))
    BY <1>4 DEF SairDaSala, SairDaSalaEncaminhada, sala
  <2>2. QED
    BY <1>1, <1>2, <1>3, <2>1, ComSaidaIntegra, SubstituirIInv DEF sala
<1>5. CASE ExpirarReconexao(s, m)
  <2>1. Substituir(s, ComSaida(sala, m, "expiracao", "expirada"))
    BY <1>5 DEF ExpirarReconexao, sala
  <2>2. QED
    BY <1>1, <1>2, <1>3, <2>1, ComSaidaIntegra, SubstituirIInv DEF sala
<1>6. CASE ExpulsarMembro(s, m)
  <2>1. /\ TemAnfitriao(sala) /\ ~ EhAnfitriao(sala, m)
        /\ Substituir(s, ComExpulsao(sala, m))
    BY <1>6 DEF ExpulsarMembro, sala
  <2>2. QED
    BY <1>1, <1>3, <2>1, ExpulsaoIntegra, SubstituirIInv DEF sala
<1>7. CASE RemoverBotDaSala(s, m)
  <2>1. /\ TemAnfitriao(sala) /\ ~ EhAnfitriao(sala, m)
        /\ Substituir(s, ComBotRemovido(sala, m))
    BY <1>7 DEF RemoverBotDaSala, sala
  <2>2. QED
    BY <1>1, <1>3, <2>1, ExpulsaoIntegra, SubstituirIInv DEF sala
<1>8. CASE DesconectarJogador(s, m) \/ ReconectarJogador(s, m)
  <2>1. PICK p \in Presencas : Substituir(s, ComPresenca(sala, m, p))
    BY <1>8 DEF DesconectarJogador, ReconectarJogador, Presencas, sala
  <2>2. QED
    BY <1>1, <2>1, ComPresencaIntegra, SubstituirIInv DEF sala
<1>9. CASE AlternarProntidao(s, m)
  <2>1. Substituir(s, ComProntidaoAlternada(sala, m))
    BY <1>9 DEF AlternarProntidao, sala
  <2>2. QED
    BY <1>1, <2>1, ComProntidaoAlternadaIntegra, SubstituirIInv DEF sala
<1>10. QED
  BY <1>4, <1>5, <1>6, <1>7, <1>8, <1>9 DEF ComandoDeMembro

(* A command on the Sala s as a whole.                                     *)
LEMMA ComandoDeSalaIInv ==
  ASSUME IInv, NEW s \in Salas,
         \/ \E j \in Jogadores : AutorizarRetorno(s, j)
         \/ ConfirmarConsistenciaDaSala(s)
         \/ RegistrarReinicioDaSala(s)
         \/ \E R \in SUBSET Jogadores : AceitarEncaminhamento(s, R)
         \/ EncerrarSala(s)
         \/ \E saidas \in SUBSET Ativos(salas[s]) : ReabrirSala(s, saidas)
  PROVE  IInv'
<1> DEFINE sala == salas[s]
<1>1. SalaIntegra(sala) /\ sala \in Sala
  BY DEF IInv, SalaIntegra
<1> HIDE DEF sala
<1>2. CASE \E j \in Jogadores : AutorizarRetorno(s, j)
  <2>1. PICK j \in Jogadores : AutorizarRetorno(s, j)
    BY <1>2
  <2> DEFINE nova == [sala EXCEPT !.bloqueados = @ \ {j}]
  <2>2. /\ nova \in Sala /\ nova.membros = sala.membros /\ nova.proxima = sala.proxima
        /\ nova.anfitriao = sala.anfitriao /\ nova.estado = sala.estado
        /\ nova.bloqueados \subseteq sala.bloqueados
    BY <1>1 DEF Sala
  <2>3. Substituir(s, nova)
    BY <2>1 DEF AutorizarRetorno, sala
  <2> HIDE DEF nova
  <2>4. QED
    BY <1>1, <2>2, <2>3, MesmosMembrosIntegra, SubstituirIInv DEF sala
<1>3. CASE ConfirmarConsistenciaDaSala(s)
  <2> DEFINE nova == [sala EXCEPT !.consistente = TRUE]
  <2>1. /\ nova \in Sala /\ nova.membros = sala.membros /\ nova.proxima = sala.proxima
        /\ nova.anfitriao = sala.anfitriao /\ nova.estado = sala.estado
        /\ nova.bloqueados \subseteq sala.bloqueados
    BY <1>1 DEF Sala
  <2>2. Substituir(s, nova)
    BY <1>3 DEF ConfirmarConsistenciaDaSala, sala
  <2> HIDE DEF nova
  <2>3. QED
    BY <1>1, <2>1, <2>2, MesmosMembrosIntegra, SubstituirIInv DEF sala
<1>4. CASE RegistrarReinicioDaSala(s)
  <2>1. Substituir(s, ComReinicio(sala))
    BY <1>4 DEF RegistrarReinicioDaSala, sala
  <2>2. QED
    BY <1>1, <2>1, ComReinicioIntegra, SubstituirIInv DEF sala
<1>5. CASE \E R \in SUBSET Jogadores : AceitarEncaminhamento(s, R)
  <2>1. PICK R \in SUBSET Jogadores : AceitarEncaminhamento(s, R)
    BY <1>5
  <2> DEFINE nova == [sala EXCEPT !.estado = "encaminhada"]
  <2>2. /\ nova \in Sala /\ nova.membros = sala.membros /\ nova.proxima = sala.proxima
        /\ nova.anfitriao = sala.anfitriao /\ nova.estado = "encaminhada"
        /\ nova.bloqueados = sala.bloqueados
    BY <1>1 DEF Sala, EstadosDaSala
  <2>3. sala.estado = "aberta" /\ Substituir(s, nova)
    BY <2>1 DEF AceitarEncaminhamento, PodeAceitar, AbertaConsistente, sala
  <2>4. nova.estado \in Viva <=> sala.estado \in Viva
    BY <2>2, <2>3 DEF Viva
  <2> HIDE DEF nova
  <2>5. QED
    BY <1>1, <2>2, <2>3, <2>4, MesmosMembrosIntegra, SubstituirIInv DEF sala
<1>6. CASE EncerrarSala(s)
  <2>1. Substituir(s, SalaEncerrada(sala))
    BY <1>6 DEF EncerrarSala, sala
  <2>2. SalaIntegra(SalaEncerrada(sala)) /\ JogadoresAtivos(SalaEncerrada(sala)) = {}
    BY <1>1, SalaEncerradaIntegra DEF JogadoresAtivos
  <2>3. QED
    BY <2>1, <2>2, SubstituirIInv DEF sala
<1>7. CASE \E saidas \in SUBSET Ativos(salas[s]) : ReabrirSala(s, saidas)
  <2>1. PICK saidas : PodeReabrir(sala, saidas) /\ Substituir(s, SalaReaberta(sala, saidas))
    BY <1>7 DEF ReabrirSala, sala
  <2>2. JogadoresAtivos(SalaReaberta(sala, saidas)) \subseteq JogadoresAtivos(sala)
    BY <1>1, <2>1, SalaReabertaIntegra DEF JogadoresAtivos
  <2>3. QED
    BY <1>1, <2>1, <2>2, SalaReabertaIntegra, SubstituirIInv DEF sala
<1>8. QED
  BY <1>2, <1>3, <1>4, <1>5, <1>6, <1>7

(* The two commands that associate a Player with a Sala test every Sala of *)
(* the lobby first, so that they preserve the invariant.                   *)
LEMMA AssociacaoIInv ==
  ASSUME IInv, NEW s \in Salas, NEW j \in Jogadores,
         CriarSala(s, j) \/ EntrarNaSala(s, j)
  PROVE  IInv'
<1>1. CASE CriarSala(s, j)
  BY <1>1, SalaCriadaIntegra, AssociarIInv DEF CriarSala
<1>2. CASE EntrarNaSala(s, j)
  <2>1. /\ SalaIntegra(salas[s]) /\ PodeEntrar(salas[s], j) /\ ~ Associado(j)
        /\ Substituir(s, ComEntrada(salas[s], j))
    BY <1>2 DEF IInv, EntrarNaSala
  <2>2. j \notin JogadoresAtivos(salas[s])
    BY <2>1 DEF Associado
  <2>3. QED
    BY <2>1, <2>2, ComEntradaIntegra, AssociarIInv
<1>3. QED
  BY <1>1, <1>2

(* Every command preserves the inductive invariant.                        *)
LEMMA NextIInv == IInv /\ [Next]_vars => IInv'
<1>1. ASSUME IInv, Next
      PROVE  IInv'
  <2>1. PICK s \in Salas :
          \/ \E j \in Jogadores : CriarSala(s, j) \/ EntrarNaSala(s, j)
          \/ \E m \in Ativos(salas[s]) : ComandoDeMembro(s, m)
          \/ \E j \in Jogadores : AutorizarRetorno(s, j)
          \/ ConfirmarConsistenciaDaSala(s)
          \/ RegistrarReinicioDaSala(s)
          \/ \E R \in SUBSET Jogadores : AceitarEncaminhamento(s, R)
          \/ EncerrarSala(s)
          \/ \E saidas \in SUBSET Ativos(salas[s]) : ReabrirSala(s, saidas)
    BY <1>1 DEF Next
  <2>2. QED
    BY <1>1, <2>1, AssociacaoIInv, ComandoDeMembroIInv, ComandoDeSalaIInv
<1>2. ASSUME IInv, UNCHANGED vars
      PROVE  IInv'
  BY <1>2 DEF IInv, vars
<1>3. QED
  BY <1>1, <1>2

(* Every reachable state of the lobby satisfies the inductive invariant.   *)
THEOREM InvarianteIndutivo == Spec => []IInv
  BY InitIInv, NextIInv, PTL DEF Spec

-----------------------------------------------------------------------------
(* Succession.                                                             *)

(* A command keeps the Anfitrião of a Sala, or brings nobody in.           *)
NinguemPassaAFrente(sala, nova) ==
  \/ sala.anfitriao \in {SemAnfitriao, nova.anfitriao}
  \/ \A n \in Ativos(nova) : \E m \in Ativos(sala) : m.ordem = n.ordem

(* When it keeps the Sala intact as well, the next link in the circle is   *)
(* the new Anfitrião: both were of the longest standing.                   *)
LEMMA PassagemCorreta ==
  ASSUME NEW sala, NEW nova, SalaIntegra(sala), SalaIntegra(nova),
         NinguemPassaAFrente(sala, nova)
  PROVE  PassagemDeAnfitriao(sala, nova)
<1> DEFINE antes == sala.anfitriao
           depois == nova.anfitriao
           ficam == {m.ordem : m \in Ativos(nova)}
<1> SUFFICES ASSUME antes # SemAnfitriao, depois # SemAnfitriao, antes # depois
             PROVE  /\ antes \notin ficam /\ depois \in ficam
                    /\ ficam \subseteq {m.ordem : m \in Ativos(sala)}
                    /\ ~ \E x \in ficam : EntreNoCiclo(antes, x, depois)
  BY DEF PassagemDeAnfitriao
<1>1. antes \in Nat /\ depois \in Nat /\ ficam \in SUBSET Nat
  BY DEF SalaIntegra, Sala, Ativos, Membro
<1>2. ficam \subseteq {m.ordem : m \in Ativos(sala)}
  BY DEF NinguemPassaAFrente
<1>3. depois \in ficam
  BY DEF SalaIntegra, AnfitriaoDaSala, TemAnfitriao, EhAnfitriao
<1>4. \A x \in ficam : antes <= x
  BY <1>2 DEF SalaIntegra, AnfitriaoDaSala, MaisAntigo
<1>5. \A x \in ficam : depois <= x
  BY DEF SalaIntegra, AnfitriaoDaSala, MaisAntigo
<1> HIDE DEF antes, depois, ficam
<1>6. antes < depois
  BY <1>1, <1>3, <1>4
<1>7. antes \notin ficam
  BY <1>1, <1>5, <1>6
<1>8. ~ \E x \in ficam : EntreNoCiclo(antes, x, depois)
  BY <1>1, <1>5, <1>6 DEF EntreNoCiclo
<1>9. QED
  BY <1>2, <1>3, <1>7, <1>8 DEF antes, depois, ficam

(* The commands of one active link.                                        *)
LEMMA PassagemDeMembro ==
  ASSUME IInv, NEW s \in Salas, NEW m \in Ativos(salas[s]), ComandoDeMembro(s, m)
  PROVE  \E nova : Substituir(s, nova) /\ NinguemPassaAFrente(salas[s], nova)
<1> DEFINE sala == salas[s]
<1>1. /\ SalaIntegra(sala) /\ sala \in Sala /\ "saida" \in Motivos
      /\ "expiracao" \in Motivos
      /\ "encerrada" \in Terminal /\ "expirada" \in Terminal
  BY DEF IInv, SalaIntegra, Motivos, Terminal
<1>2. \A nova : Ativos(nova) \subseteq Ativos(sala) => NinguemPassaAFrente(sala, nova)
  BY DEF NinguemPassaAFrente
<1>3. \A nova : nova.anfitriao = sala.anfitriao => NinguemPassaAFrente(sala, nova)
  BY DEF NinguemPassaAFrente
<1> HIDE DEF sala
<1>4. CASE SairDaSala(s, m) \/ SairDaSalaEncaminhada(s, m) \/ ExpirarReconexao(s, m)
  <2>1. PICK motivo \in Motivos, final \in Terminal :
          Substituir(s, ComSaida(sala, m, motivo, final))
    BY <1>1, <1>4 DEF SairDaSala, SairDaSalaEncaminhada, ExpirarReconexao, sala
  <2>2. Ativos(ComSaida(sala, m, motivo, final)) = Ativos(sala) \ {m}
    BY <1>1, ComSaidaIntegra DEF sala
  <2>3. QED
    BY <1>2, <2>1, <2>2 DEF sala
<1>5. CASE ExpulsarMembro(s, m) \/ RemoverBotDaSala(s, m)
  <2>1. PICK nova \in {ComExpulsao(sala, m), ComBotRemovido(sala, m)} : Substituir(s, nova)
    BY <1>5 DEF ExpulsarMembro, RemoverBotDaSala, sala
  <2>2. nova.anfitriao = sala.anfitriao
    BY <1>1, <2>1 DEF ComExpulsao, ComBotRemovido, Sala
  <2>3. QED
    BY <1>3, <2>1, <2>2 DEF sala
<1>6. CASE \/ DesconectarJogador(s, m) \/ ReconectarJogador(s, m)
          \/ AlternarProntidao(s, m)
  <2>1. PICK nova : /\ Substituir(s, nova)
                    /\ \/ \E p \in Presencas : nova = ComPresenca(sala, m, p)
                       \/ nova = ComProntidaoAlternada(sala, m)
    BY <1>6 DEF DesconectarJogador, ReconectarJogador, AlternarProntidao, Presencas, sala
  <2>2. nova.anfitriao = sala.anfitriao
    BY <1>1, <2>1 DEF ComPresenca, ComProntidaoAlternada, Sala
  <2>3. QED
    BY <1>3, <2>1, <2>2 DEF sala
<1>7. QED
  BY <1>4, <1>5, <1>6 DEF ComandoDeMembro

(* The commands of a Sala as a whole, and those that bring a Player in.    *)
LEMMA PassagemDeSala ==
  ASSUME IInv, NEW s \in Salas,
         \/ \E j \in Jogadores :
              CriarSala(s, j) \/ EntrarNaSala(s, j) \/ AutorizarRetorno(s, j)
         \/ ConfirmarConsistenciaDaSala(s)
         \/ RegistrarReinicioDaSala(s)
         \/ \E R \in SUBSET Jogadores : AceitarEncaminhamento(s, R)
         \/ EncerrarSala(s)
         \/ \E saidas \in SUBSET Ativos(salas[s]) : ReabrirSala(s, saidas)
  PROVE  \E nova : Substituir(s, nova) /\ NinguemPassaAFrente(salas[s], nova)
<1> DEFINE sala == salas[s]
<1>1. SalaIntegra(sala) /\ sala \in Sala
  BY DEF IInv, SalaIntegra
<1>2. \A nova : nova.anfitriao = sala.anfitriao => NinguemPassaAFrente(sala, nova)
  BY DEF NinguemPassaAFrente
<1> HIDE DEF sala
<1>3. CASE \E j \in Jogadores : CriarSala(s, j)
  <2>1. PICK j \in Jogadores : Substituir(s, SalaCriada(j)) /\ sala.estado = "inexistente"
    BY <1>3 DEF CriarSala, Existe, sala
  <2>2. sala.anfitriao = SemAnfitriao
    BY <1>1, <2>1 DEF SalaIntegra, AnfitriaoDaSala, Viva
  <2>3. QED
    BY <2>1, <2>2 DEF NinguemPassaAFrente, sala
<1>4. CASE \E j \in Jogadores : EntrarNaSala(s, j)
  <2>1. PICK j \in Jogadores : Substituir(s, ComEntrada(sala, j))
    BY <1>4 DEF EntrarNaSala, sala
  <2>2. ComEntrada(sala, j).anfitriao = sala.anfitriao
    BY <1>1 DEF ComEntrada, Sala
  <2>3. QED
    BY <1>2, <2>1, <2>2 DEF sala
<1>5. CASE \/ \E j \in Jogadores : AutorizarRetorno(s, j)
          \/ ConfirmarConsistenciaDaSala(s)
          \/ RegistrarReinicioDaSala(s)
          \/ \E R \in SUBSET Jogadores : AceitarEncaminhamento(s, R)
  <2>1. PICK nova : /\ Substituir(s, nova)
                    /\ \/ \E j \in Jogadores : nova = [sala EXCEPT !.bloqueados = @ \ {j}]
                       \/ nova = [sala EXCEPT !.consistente = TRUE]
                       \/ nova = ComReinicio(sala)
                       \/ nova = [sala EXCEPT !.estado = "encaminhada"]
    BY <1>5 DEF AutorizarRetorno, ConfirmarConsistenciaDaSala, RegistrarReinicioDaSala,
                AceitarEncaminhamento, sala
  <2>2. nova.anfitriao = sala.anfitriao
    BY <1>1, <2>1 DEF ComReinicio, Sala
  <2>3. QED
    BY <1>2, <2>1, <2>2 DEF sala
<1>6. CASE EncerrarSala(s)
  <2>1. Substituir(s, SalaEncerrada(sala)) /\ Ativos(SalaEncerrada(sala)) = {}
    BY <1>1, <1>6, SalaEncerradaIntegra DEF EncerrarSala, sala
  <2>2. QED
    BY <2>1 DEF NinguemPassaAFrente, sala
<1>7. CASE \E saidas \in SUBSET Ativos(salas[s]) : ReabrirSala(s, saidas)
  <2>1. PICK saidas : PodeReabrir(sala, saidas) /\ Substituir(s, SalaReaberta(sala, saidas))
    BY <1>7 DEF ReabrirSala, sala
  <2>2. NinguemPassaAFrente(sala, SalaReaberta(sala, saidas))
    BY <1>1, <2>1, SalaReabertaIntegra DEF NinguemPassaAFrente
  <2>3. QED
    BY <2>1, <2>2 DEF sala
<1>8. QED
  BY <1>3, <1>4, <1>5, <1>6, <1>7

(* Whoever succeeds an Anfitrião is the next link in the circle of the     *)
(* orders of entry, at every step of the lobby.                            *)
THEOREM SucessaoCorreta == Spec => SucessaoCircular
<1>1. ASSUME IInv, IInv', [Next]_vars
      PROVE  \A s \in Salas : PassagemDeAnfitriao(salas[s], salas'[s])
  <2>1. \A s \in Salas : SalaIntegra(salas[s]) /\ SalaIntegra(salas'[s])
    BY <1>1 DEF IInv
  <2>2. \A s \in Salas : NinguemPassaAFrente(salas[s], salas'[s])
    <3>1. CASE Next
      <4>1. PICK s \in Salas :
              \E nova : Substituir(s, nova) /\ NinguemPassaAFrente(salas[s], nova)
        BY <1>1, <3>1, PassagemDeMembro, PassagemDeSala DEF Next
      <4>2. PICK nova : Substituir(s, nova) /\ NinguemPassaAFrente(salas[s], nova)
        BY <4>1
      <4>3. \A t \in Salas : salas'[t] = IF t = s THEN nova ELSE salas[t]
        BY <1>1, <4>2 DEF IInv, Substituir
      <4>4. QED
        BY <4>2, <4>3 DEF NinguemPassaAFrente
    <3>2. CASE UNCHANGED vars
      BY <3>2 DEF vars, NinguemPassaAFrente
    <3>3. QED
      BY <1>1, <3>1, <3>2
  <2>3. QED
    BY <2>1, <2>2, PassagemCorreta
<1>2. IInv /\ IInv' /\ [Next]_vars
        => [\A s \in Salas : PassagemDeAnfitriao(salas[s], salas'[s])]_vars
  BY <1>1
<1>3. QED
  BY <1>2, InvarianteIndutivo, PTL DEF Spec, SucessaoCircular

-----------------------------------------------------------------------------
(* The state of the lobby always has its type, whatever commands of        *)
(* aplicarComando are applied and in whatever order.                       *)
THEOREM TipoCorreto == Spec => []TypeOK
<1>1. IInv => TypeOK
  BY DEF IInv, TypeOK
<1>2. QED
  BY <1>1, InvarianteIndutivo, PTL

(* A Player never has two active links, in one Sala or in two.             *)
THEOREM JogadorEmUmaSoSala == Spec => []AssociacaoUnica
<1>1. IInv => AssociacaoUnica
  <2> SUFFICES ASSUME IInv, NEW s \in Salas, NEW t \in Salas,
                      NEW m \in Ativos(salas[s]), NEW n \in Ativos(salas[t]),
                      m.jogador = n.jogador
               PROVE  s = t /\ m = n
    BY DEF AssociacaoUnica
  <2>1. m.jogador \in JogadoresAtivos(salas[s]) \cap JogadoresAtivos(salas[t])
    BY DEF JogadoresAtivos
  <2>2. s = t
    BY <2>1 DEF IInv
  <2>3. m = n
    BY <2>2 DEF IInv, SalaIntegra, VinculosDaSala
  <2>4. QED
    BY <2>2, <2>3
<1>2. QED
  BY <1>1, InvarianteIndutivo, PTL

(* A living Sala always has an active Anfitrião, through every sequence of *)
(* exits, expulsions, expirations and returns; a Sala that is over has     *)
(* neither Anfitrião nor active links.                                     *)
THEOREM SalaVivaTemAnfitriao == Spec => []AnfitriaoVivo
<1>1. IInv => AnfitriaoVivo
  BY DEF IInv, SalaIntegra, AnfitriaoDaSala, AnfitriaoVivo
<1>2. QED
  BY <1>1, InvarianteIndutivo, PTL

(* The Anfitrião is always the active link of the longest standing.        *)
THEOREM AnfitriaoSegueAntiguidade == Spec => []AnfitriaoMaisAntigo
<1>1. IInv => AnfitriaoMaisAntigo
  BY DEF IInv, SalaIntegra, AnfitriaoDaSala, MaisAntigo, AnfitriaoMaisAntigo
<1>2. QED
  BY <1>1, InvarianteIndutivo, PTL

(* Orders of entry identify links and are never handed out twice.          *)
THEOREM OrdensIdentificam == Spec => []OrdemIdentificaVinculo
<1>1. IInv => OrdemIdentificaVinculo
  BY DEF IInv, SalaIntegra, OrdensDaSala, OrdemIdentificaVinculo
<1>2. QED
  BY <1>1, InvarianteIndutivo, PTL

(* A blocked Player is never active in the Sala that blocked it.           *)
THEOREM BloqueioRespeitado == Spec => []BloqueadoForaDaSala
<1>1. IInv => BloqueadoForaDaSala
  BY DEF IInv, SalaIntegra, VinculosDaSala, BloqueadoForaDaSala
<1>2. QED
  BY <1>1, InvarianteIndutivo, PTL

(* A Sala never holds more than LIMITE_DE_MEMBROS active links.            *)
THEOREM SalaNaoTransborda == Spec => []LimiteRespeitado
<1>1. IInv => LimiteRespeitado
  BY DEF IInv, SalaIntegra, LimiteDaSala, LimiteRespeitado
<1>2. QED
  BY <1>1, InvarianteIndutivo, PTL

-----------------------------------------------------------------------------
(* What a step may do.                                                     *)
(*                                                                         *)
(* Seen through phase, occupants and Anfitrião a Sala is the seats of its  *)
(* active links, (order, Player), with the order of the Anfitrião.  Every  *)
(* command keeps the seats but those of the links that leave, which is     *)
(* what Continua says; what else it does is one of the effects below.      *)

Lugares(A) == {<<m.ordem, m.jogador>> : m \in A}
Encerrados(sala) == {m \in sala.membros : m.estado = "encerrado"}
Anf(sala) == {m.jogador : m \in {n \in Ativos(sala) : EhAnfitriao(sala, n)}}

Continua(sala, nova, saidas) ==
  /\ Lugares(Ativos(nova)) = Lugares(Ativos(sala) \ saidas)
  /\ Encerrados(sala) \subseteq Encerrados(nova)
  /\ nova.proxima = sala.proxima

MesmoBloqueio(sala, nova) ==
  sala.estado = "encaminhada" => nova.bloqueados = sala.bloqueados

-----------------------------------------------------------------------------
(* The effects of the commands on a Sala.                                  *)

Parada(sala, nova) ==
  /\ Continua(sala, nova, {}) /\ MesmoBloqueio(sala, nova)
  /\ nova.anfitriao = sala.anfitriao /\ nova.estado = sala.estado
  /\ sala.estado # "inexistente"

Perde(sala, nova) ==
  \E m \in Ativos(sala) :
    /\ Continua(sala, nova, {m}) /\ MesmoBloqueio(sala, nova)
    /\ Ativos(sala) # {m} => nova.estado = sala.estado
    /\ Ativos(sala) = {m} =>
         /\ nova.estado \in Terminal
         /\ sala.estado = "encaminhada" => nova.estado = "encerrada"

Parte(sala, nova) ==
  /\ Continua(sala, nova, {}) /\ sala.estado = "aberta" /\ ComposicaoValida(sala)
  /\ nova.anfitriao = sala.anfitriao /\ nova.estado = "encaminhada"

Fecha(sala, nova) ==
  /\ Continua(sala, nova, Ativos(sala)) /\ sala.estado = "aberta"
  /\ nova.estado = "encerrada"

Volta(sala, nova) ==
  \E saidas \in SUBSET Ativos(sala) :
    /\ saidas # Ativos(sala)
    /\ Continua(sala, nova, saidas) /\ MesmoBloqueio(sala, nova)
    /\ sala.estado = "encaminhada" /\ nova.estado = "aberta"

Nasce(sala, nova, j) ==
  sala.estado = "inexistente" /\ ~ Associado(j) /\ nova = SalaCriada(j)

Recebe(sala, nova, j) ==
  PodeEntrar(sala, j) /\ ~ Associado(j) /\ nova = ComEntrada(sala, j)

Efeito(sala, nova) ==
  \/ Parada(sala, nova) \/ Perde(sala, nova) \/ Parte(sala, nova)
  \/ Fecha(sala, nova) \/ Volta(sala, nova)
  \/ \E j \in Jogadores : Nasce(sala, nova, j) \/ Recebe(sala, nova, j)

-----------------------------------------------------------------------------
(* What each operator of LobbyDominio does to the seats.                   *)

LEMMA ContinuaPor ==
  ASSUME NEW sala, sala.membros \in SUBSET Membro, NEW nova, nova.proxima = sala.proxima,
         NEW saidas \in SUBSET Ativos(sala), NEW g,
         nova.membros = {g[m] : m \in sala.membros},
         \A m \in sala.membros :
           /\ g[m].ordem = m.ordem /\ g[m].jogador = m.jogador
           /\ g[m].estado = IF m \in saidas THEN "encerrado" ELSE m.estado
           /\ m.estado = "encerrado" => g[m] = m
  PROVE  Continua(sala, nova, saidas)
<1>1. Ativos(nova) = {g[m] : m \in Ativos(sala) \ saidas}
  BY DEF Ativos
<1>2. \A m \in Ativos(sala) : g[m].ordem = m.ordem /\ g[m].jogador = m.jogador
  BY DEF Ativos
<1>3. Lugares(Ativos(nova)) = Lugares(Ativos(sala) \ saidas)
  BY <1>1, <1>2 DEF Lugares
<1>4. Encerrados(sala) \subseteq Encerrados(nova)
  BY DEF Encerrados
<1>5. QED
  BY <1>3, <1>4 DEF Continua

LEMMA EncerrarContinua ==
  ASSUME NEW sala, sala.membros \in SUBSET Membro, NEW nova, nova.proxima = sala.proxima,
         NEW saidas \in SUBSET Ativos(sala), NEW motivo \in Motivos,
         nova.membros = Encerrar(sala.membros, saidas, motivo)
  PROVE  Continua(sala, nova, saidas)
<1> DEFINE g == [m \in sala.membros |-> IF m \in saidas THEN EncerrarVinculo(m, motivo) ELSE m]
<1>1. nova.membros = {g[m] : m \in sala.membros}
  BY DEF Encerrar
<1>2. ASSUME NEW m \in sala.membros
      PROVE  /\ g[m].ordem = m.ordem /\ g[m].jogador = m.jogador
             /\ g[m].estado = IF m \in saidas THEN "encerrado" ELSE m.estado
             /\ m.estado = "encerrado" => g[m] = m
  <2>1. CASE m \in saidas
    <3>1. g[m] = EncerrarVinculo(m, motivo) /\ m.estado = "ativo" /\ m \in Membro
      BY <2>1 DEF Ativos
    <3>2. QED
      BY <2>1, <3>1 DEF EncerrarVinculo, Membro
  <2>2. CASE m \notin saidas
    BY <2>2
  <2>3. QED
    BY <2>1, <2>2
<1> HIDE DEF g
<1>3. QED
  BY <1>1, <1>2, ContinuaPor

LEMMA ComSaidaContinua ==
  ASSUME NEW sala \in Sala, NEW m \in Ativos(sala), NEW motivo \in Motivos, NEW final
  PROVE  Continua(sala, ComSaida(sala, m, motivo, final), {m})
<1> DEFINE nova == ComSaida(sala, m, motivo, final)
<1>1. /\ nova.membros = Encerrar(sala.membros, {m}, motivo) /\ nova.proxima = sala.proxima
      /\ sala.membros \in SUBSET Membro
  BY DEF ComSaida, Sala
<1>2. {m} \in SUBSET Ativos(sala)
  OBVIOUS
<1> HIDE DEF nova
<1>3. QED
  BY <1>1, <1>2, EncerrarContinua DEF nova

LEMMA ExpulsaoContinua ==
  ASSUME NEW sala \in Sala, NEW m \in Ativos(sala)
  PROVE  /\ Continua(sala, ComExpulsao(sala, m), {m})
         /\ Continua(sala, ComBotRemovido(sala, m), {m})
<1>1. \A nova \in {ComExpulsao(sala, m), ComBotRemovido(sala, m)} :
        nova.membros = Encerrar(sala.membros, {m}, "expulsao") /\ nova.proxima = sala.proxima
  BY DEF ComExpulsao, ComBotRemovido, Sala
<1>2. {m} \in SUBSET Ativos(sala) /\ "expulsao" \in Motivos /\ sala.membros \in SUBSET Membro
  BY DEF Motivos, Sala
<1>3. QED
  BY <1>1, <1>2, EncerrarContinua

LEMMA MarcaContinua ==
  ASSUME NEW sala \in Sala, NEW m \in Ativos(sala)
  PROVE  /\ \A p \in Presencas : Continua(sala, ComPresenca(sala, m, p), {})
         /\ Continua(sala, ComProntidaoAlternada(sala, m), {})
<1>1. m \in sala.membros /\ m.estado = "ativo" /\ sala.membros \in SUBSET Membro /\ m \in Membro
  BY DEF Ativos, Sala
<1>2. {} \in SUBSET Ativos(sala)
  OBVIOUS
<1>3. ASSUME NEW k, k.ordem = m.ordem, k.jogador = m.jogador, k.estado = m.estado,
             NEW nova, nova.membros = (sala.membros \ {m}) \cup {k}, nova.proxima = sala.proxima
      PROVE  Continua(sala, nova, {})
  <2> DEFINE g == [n \in sala.membros |-> IF n = m THEN k ELSE n]
  <2>1. nova.membros = {g[n] : n \in sala.membros}
    BY <1>1, <1>3
  <2>2. \A n \in sala.membros :
           /\ g[n].ordem = n.ordem /\ g[n].jogador = n.jogador
           /\ g[n].estado = IF n \in {} THEN "encerrado" ELSE n.estado
           /\ n.estado = "encerrado" => g[n] = n
    BY <1>1, <1>3
  <2> HIDE DEF g
  <2>3. QED
    BY <1>1, <1>2, <1>3, <2>1, <2>2, ContinuaPor
<1>4. ASSUME NEW p \in Presencas PROVE Continua(sala, ComPresenca(sala, m, p), {})
  <2> DEFINE k == [m EXCEPT !.presenca = p]
             nova == ComPresenca(sala, m, p)
  <2>1. k.ordem = m.ordem /\ k.jogador = m.jogador /\ k.estado = m.estado
    BY <1>1 DEF Membro
  <2>2. nova.membros = (sala.membros \ {m}) \cup {k} /\ nova.proxima = sala.proxima
    BY DEF ComPresenca, Sala
  <2> HIDE DEF k, nova
  <2>3. QED
    BY <1>3, <2>1, <2>2 DEF nova
<1>5. Continua(sala, ComProntidaoAlternada(sala, m), {})
  <2> DEFINE k == [m EXCEPT !.pronto = ~ @]
             nova == ComProntidaoAlternada(sala, m)
  <2>1. k.ordem = m.ordem /\ k.jogador = m.jogador /\ k.estado = m.estado
    BY <1>1 DEF Membro
  <2>2. nova.membros = (sala.membros \ {m}) \cup {k} /\ nova.proxima = sala.proxima
    BY DEF ComProntidaoAlternada, Sala
  <2> HIDE DEF k, nova
  <2>3. QED
    BY <1>3, <2>1, <2>2 DEF nova
<1>6. QED
  BY <1>4, <1>5

LEMMA ReinicioContinua ==
  ASSUME NEW sala \in Sala
  PROVE  Continua(sala, ComReinicio(sala), {})
<1> DEFINE g == [m \in sala.membros |-> Reiniciado(m)]
           nova == ComReinicio(sala)
<1>1. sala.membros \in SUBSET Membro /\ {} \in SUBSET Ativos(sala)
  BY DEF Sala
<1>2. nova.membros = {g[m] : m \in sala.membros} /\ nova.proxima = sala.proxima
  BY DEF ComReinicio, Sala
<1>3. \A m \in sala.membros :
        /\ g[m].ordem = m.ordem /\ g[m].jogador = m.jogador
        /\ g[m].estado = IF m \in {} THEN "encerrado" ELSE m.estado
        /\ m.estado = "encerrado" => g[m] = m
  BY <1>1, VinculoReiniciado DEF Reiniciado
<1> HIDE DEF g, nova
<1>4. QED
  BY <1>1, <1>2, <1>3, ContinuaPor DEF nova

LEMMA MesmosMembrosContinua ==
  ASSUME NEW sala \in Sala, NEW nova, nova.membros = sala.membros, nova.proxima = sala.proxima
  PROVE  Continua(sala, nova, {})
  BY DEF Continua, Lugares, Ativos, Encerrados

LEMMA EncerradaContinua ==
  ASSUME NEW sala \in Sala
  PROVE  Continua(sala, SalaEncerrada(sala), Ativos(sala))
<1> DEFINE nova == SalaEncerrada(sala)
<1>1. /\ nova.membros = Encerrar(sala.membros, Ativos(sala), "encerramento")
      /\ nova.proxima = sala.proxima
  BY DEF SalaEncerrada, Sala
<1>2. "encerramento" \in Motivos /\ sala.membros \in SUBSET Membro /\ Ativos(sala) \in SUBSET Ativos(sala)
  BY DEF Motivos, Sala
<1> HIDE DEF nova
<1>3. QED
  BY <1>1, <1>2, EncerrarContinua DEF nova

LEMMA ReabertaContinua ==
  ASSUME NEW sala \in Sala, NEW saidas \in SUBSET Ativos(sala)
  PROVE  Continua(sala, SalaReaberta(sala, saidas), saidas)
<1> DEFINE nova == SalaReaberta(sala, saidas)
           f == [m \in sala.membros |-> IF m \in saidas THEN EncerrarVinculo(m, "saida") ELSE m]
           g == [m \in sala.membros |-> NaoPronto(f[m])]
<1>1. sala.membros \in SUBSET Membro
  BY DEF Sala
<1>2. /\ nova.membros = {NaoPronto(n) : n \in Encerrar(sala.membros, saidas, "saida")}
      /\ nova.proxima = sala.proxima
  BY DEF SalaReaberta, Sala
<1>3. Encerrar(sala.membros, saidas, "saida") = {f[m] : m \in sala.membros}
  BY DEF Encerrar
<1>4. nova.membros = {g[m] : m \in sala.membros}
  BY <1>2, <1>3
<1>5. ASSUME NEW m \in sala.membros
      PROVE  /\ g[m].ordem = m.ordem /\ g[m].jogador = m.jogador
             /\ g[m].estado = IF m \in saidas THEN "encerrado" ELSE m.estado
             /\ m.estado = "encerrado" => g[m] = m
  <2>1. CASE m \in saidas
    <3>1. f[m] = EncerrarVinculo(m, "saida") /\ m.estado = "ativo" /\ m \in Membro
      BY <1>1, <2>1 DEF Ativos
    <3>2. f[m].ordem = m.ordem /\ f[m].jogador = m.jogador /\ f[m].estado = "encerrado"
      BY <3>1 DEF EncerrarVinculo, Membro
    <3>3. g[m] = f[m]
      BY <3>2 DEF NaoPronto
    <3>4. QED
      BY <2>1, <3>1, <3>2, <3>3
  <2>2. CASE m \notin saidas
    <3>1. f[m] = m /\ m \in Membro
      BY <1>1, <2>2
    <3>2. g[m] = NaoPronto(m)
      BY <3>1
    <3>3. QED
      BY <2>2, <3>1, <3>2, VinculoReiniciado DEF NaoPronto
  <2>3. QED
    BY <2>1, <2>2
<1> HIDE DEF f, g, nova
<1>6. QED
  BY <1>1, <1>2, <1>4, <1>5, ContinuaPor DEF nova

-----------------------------------------------------------------------------
(* Every command has one of the effects.                                   *)

LEMMA EfeitoDeMembro ==
  ASSUME IInv, NEW s \in Salas, NEW m \in Ativos(salas[s]), ComandoDeMembro(s, m)
  PROVE  \E nova : Substituir(s, nova) /\ Efeito(salas[s], nova)
<1> DEFINE sala == salas[s]
<1>1. sala \in Sala /\ SalaIntegra(sala) /\ m \in Ativos(sala)
  BY DEF IInv
<1>2. "saida" \in Motivos /\ "expiracao" \in Motivos
  BY DEF Motivos
<1> HIDE DEF sala
<1>3. CASE SairDaSala(s, m) \/ SairDaSalaEncaminhada(s, m) \/ ExpirarReconexao(s, m)
  <2>1. PICK motivo \in Motivos, final \in Terminal :
          /\ Substituir(s, ComSaida(sala, m, motivo, final))
          /\ sala.estado = "encaminhada" => final = "encerrada"
    BY <1>2, <1>3 DEF SairDaSala, SairDaSalaEncaminhada, ExpirarReconexao, PodeExpirar,
                      NaoEncaminhada, EncaminhadaConsistente, Terminal, sala
  <2> DEFINE nova == ComSaida(sala, m, motivo, final)
  <2>2. /\ nova.estado = IF Ativos(sala) \ {m} = {} THEN final ELSE sala.estado
        /\ nova.bloqueados = sala.bloqueados
    BY <1>1 DEF ComSaida, Sala
  <2>3. Continua(sala, nova, {m})
    BY <1>1, ComSaidaContinua
  <2> HIDE DEF nova
  <2>4. Perde(sala, nova)
    BY <1>1, <2>1, <2>2, <2>3 DEF Perde, MesmoBloqueio
  <2>5. QED
    BY <2>1, <2>4 DEF Efeito, sala, nova
<1>4. CASE ExpulsarMembro(s, m) \/ RemoverBotDaSala(s, m)
  <2>1. PICK nova \in {ComExpulsao(sala, m), ComBotRemovido(sala, m)} :
          /\ Substituir(s, nova) /\ NaoEncaminhada(sala)
          /\ TemAnfitriao(sala) /\ ~ EhAnfitriao(sala, m)
    BY <1>4 DEF ExpulsarMembro, RemoverBotDaSala, sala
  <2>2. nova.estado = sala.estado
    BY <1>1, <2>1 DEF ComExpulsao, ComBotRemovido, Sala
  <2>3. Continua(sala, nova, {m})
    BY <1>1, <2>1, ExpulsaoContinua
  <2>4. Ativos(sala) # {m}
    BY <2>1 DEF TemAnfitriao
  <2>5. Perde(sala, nova)
    BY <1>1, <2>1, <2>2, <2>3, <2>4 DEF Perde, MesmoBloqueio, NaoEncaminhada
  <2>6. QED
    BY <2>1, <2>5 DEF Efeito, sala
<1>5. CASE \/ DesconectarJogador(s, m) \/ ReconectarJogador(s, m)
           \/ AlternarProntidao(s, m)
  <2>1. PICK nova : /\ Substituir(s, nova)
                    /\ \/ \E p \in Presencas : nova = ComPresenca(sala, m, p)
                       \/ nova = ComProntidaoAlternada(sala, m)
    BY <1>5 DEF DesconectarJogador, ReconectarJogador, AlternarProntidao, Presencas, sala
  <2>2. /\ nova.estado = sala.estado /\ nova.bloqueados = sala.bloqueados
        /\ nova.anfitriao = sala.anfitriao
    BY <1>1, <2>1 DEF ComPresenca, ComProntidaoAlternada, Sala
  <2>3. Continua(sala, nova, {})
    BY <1>1, <2>1, MarcaContinua
  <2>4. sala.estado # "inexistente"
    BY <1>1 DEF SalaIntegra, AnfitriaoDaSala, Viva
  <2>5. Parada(sala, nova)
    BY <2>2, <2>3, <2>4 DEF Parada, MesmoBloqueio
  <2>6. QED
    BY <2>1, <2>5 DEF Efeito, sala
<1>6. QED
  BY <1>3, <1>4, <1>5 DEF ComandoDeMembro

LEMMA EfeitoDeSala ==
  ASSUME IInv, NEW s \in Salas,
         \/ \E j \in Jogadores :
              CriarSala(s, j) \/ EntrarNaSala(s, j) \/ AutorizarRetorno(s, j)
         \/ ConfirmarConsistenciaDaSala(s)
         \/ RegistrarReinicioDaSala(s)
         \/ \E R \in SUBSET Jogadores : AceitarEncaminhamento(s, R)
         \/ EncerrarSala(s)
         \/ \E saidas \in SUBSET Ativos(salas[s]) : ReabrirSala(s, saidas)
  PROVE  \E nova : Substituir(s, nova) /\ Efeito(salas[s], nova)
<1> DEFINE sala == salas[s]
<1>1. sala \in Sala /\ SalaIntegra(sala)
  BY DEF IInv
<1> HIDE DEF sala
<1>2. ASSUME NEW j \in Jogadores, CriarSala(s, j)
      PROVE  \E nova : Substituir(s, nova) /\ Efeito(sala, nova)
  <2>1. Substituir(s, SalaCriada(j)) /\ ~ Existe(s) /\ ~ Associado(j)
    BY <1>2 DEF CriarSala
  <2>2. Nasce(sala, SalaCriada(j), j)
    BY <2>1 DEF Nasce, Existe, sala
  <2>3. QED
    BY <2>1, <2>2 DEF Efeito
<1>3. ASSUME NEW j \in Jogadores, EntrarNaSala(s, j)
      PROVE  \E nova : Substituir(s, nova) /\ Efeito(sala, nova)
  <2>1. /\ Substituir(s, ComEntrada(sala, j)) /\ PodeEntrar(sala, j) /\ ~ Associado(j)
    BY <1>3 DEF EntrarNaSala, sala
  <2>2. Recebe(sala, ComEntrada(sala, j), j)
    BY <2>1 DEF Recebe
  <2>3. QED
    BY <2>1, <2>2 DEF Efeito
<1>4. CASE \/ \E j \in Jogadores : AutorizarRetorno(s, j)
           \/ ConfirmarConsistenciaDaSala(s)
  <2>1. PICK nova : /\ Substituir(s, nova)
                    /\ \/ /\ NaoEncaminhada(sala)
                          /\ \E j \in Jogadores : nova = [sala EXCEPT !.bloqueados = @ \ {j}]
                       \/ nova = [sala EXCEPT !.consistente = TRUE]
    BY <1>4 DEF AutorizarRetorno, ConfirmarConsistenciaDaSala, sala
  <2>2. /\ nova.estado = sala.estado /\ nova.membros = sala.membros
        /\ nova.anfitriao = sala.anfitriao /\ nova.proxima = sala.proxima
        /\ MesmoBloqueio(sala, nova)
    BY <1>1, <2>1 DEF Sala, MesmoBloqueio, NaoEncaminhada
  <2>3. sala.estado # "inexistente"
    BY <1>1, <1>4 DEF SalaIntegra, AnfitriaoDaSala, Viva, TemAnfitriao, AutorizarRetorno,
                      ConfirmarConsistenciaDaSala, Existe, sala
  <2>4. Parada(sala, nova)
    BY <1>1, <2>2, <2>3, MesmosMembrosContinua DEF Parada
  <2>5. QED
    BY <2>1, <2>4 DEF Efeito, sala
<1>5. CASE RegistrarReinicioDaSala(s)
  <2> DEFINE nova == ComReinicio(sala)
  <2>1. Substituir(s, nova) /\ sala.estado # "inexistente"
    BY <1>5 DEF RegistrarReinicioDaSala, Existe, sala
  <2>2. /\ nova.estado = sala.estado /\ nova.bloqueados = sala.bloqueados
        /\ nova.anfitriao = sala.anfitriao
    BY <1>1 DEF ComReinicio, Sala
  <2>3. Continua(sala, nova, {})
    BY <1>1, ReinicioContinua
  <2> HIDE DEF nova
  <2>4. QED
    BY <2>1, <2>2, <2>3 DEF Parada, MesmoBloqueio, Efeito, sala
<1>6. ASSUME NEW R \in SUBSET Jogadores, AceitarEncaminhamento(s, R)
      PROVE  \E nova : Substituir(s, nova) /\ Efeito(sala, nova)
  <2> DEFINE nova == [sala EXCEPT !.estado = "encaminhada"]
  <2>1. Substituir(s, nova) /\ sala.estado = "aberta" /\ ComposicaoValida(sala)
    BY <1>6 DEF AceitarEncaminhamento, PodeAceitar, AbertaConsistente, sala
  <2>2. /\ nova.estado = "encaminhada" /\ nova.membros = sala.membros
        /\ nova.anfitriao = sala.anfitriao /\ nova.proxima = sala.proxima
    BY <1>1 DEF Sala
  <2> HIDE DEF nova
  <2>3. Parte(sala, nova)
    BY <1>1, <2>1, <2>2, MesmosMembrosContinua DEF Parte
  <2>4. QED
    BY <2>1, <2>3 DEF Efeito
<1>7. CASE EncerrarSala(s)
  <2>1. Substituir(s, SalaEncerrada(sala)) /\ sala.estado = "aberta"
    BY <1>7 DEF EncerrarSala, AbertaConsistente, sala
  <2>2. SalaEncerrada(sala).estado = "encerrada"
    BY <1>1 DEF SalaEncerrada, Sala
  <2>3. Fecha(sala, SalaEncerrada(sala))
    BY <1>1, <2>1, <2>2, EncerradaContinua DEF Fecha
  <2>4. QED
    BY <2>1, <2>3 DEF Efeito, sala
<1>8. CASE \E saidas \in SUBSET Ativos(salas[s]) : ReabrirSala(s, saidas)
  <2>1. PICK saidas \in SUBSET Ativos(sala) :
          PodeReabrir(sala, saidas) /\ Substituir(s, SalaReaberta(sala, saidas))
    BY <1>8 DEF ReabrirSala, sala
  <2> DEFINE nova == SalaReaberta(sala, saidas)
  <2>2. nova.estado = "aberta" /\ nova.bloqueados = sala.bloqueados
    BY <1>1 DEF SalaReaberta, Sala
  <2>3. sala.estado = "encaminhada"
    BY <2>1 DEF PodeReabrir, EncaminhadaConsistente
  <2>4. saidas # Ativos(sala)
    <3>1. Ativos(sala) # {}
      BY <1>1, <2>3 DEF SalaIntegra, AnfitriaoDaSala, Viva, TemAnfitriao
    <3>2. QED
      BY <2>1, <3>1 DEF PodeReabrir
  <2>5. Continua(sala, nova, saidas)
    BY <1>1, ReabertaContinua
  <2> HIDE DEF nova
  <2>6. Volta(sala, nova)
    BY <2>2, <2>3, <2>4, <2>5 DEF Volta, MesmoBloqueio
  <2>7. QED
    BY <2>1, <2>6 DEF Efeito, nova, sala
<1>9. QED
  BY <1>2, <1>3, <1>4, <1>5, <1>6, <1>7, <1>8 DEF sala

(* A step replaces one Sala, with one of the effects, and leaves the rest. *)
LEMMA EfeitoDoPasso ==
  ASSUME IInv, Next
  PROVE  \E s \in Salas : Substituir(s, salas'[s]) /\ Efeito(salas[s], salas'[s])
<1>1. PICK s \in Salas : \E nova : Substituir(s, nova) /\ Efeito(salas[s], nova)
  BY EfeitoDeMembro, EfeitoDeSala DEF Next
<1>2. PICK nova : Substituir(s, nova) /\ Efeito(salas[s], nova)
  BY <1>1
<1>3. salas'[s] = nova
  BY <1>2 DEF Substituir, IInv
<1>4. QED
  BY <1>2, <1>3

LEMMA SoUmaMuda ==
  ASSUME IInv, NEW s \in Salas, NEW nova, Substituir(s, nova)
  PROVE  \A t \in Salas : salas'[t] = IF t = s THEN nova ELSE salas[t]
  BY DEF Substituir, IInv

-----------------------------------------------------------------------------
(* Two things a step may never do.                                         *)

(* A Sala that was never created has no link to remember.                  *)
SemPassado == \A s \in Salas : salas[s].estado = "inexistente" => salas[s].membros = {}

(* Only a Sala that does not exist is created, and it never stops existing.*)
LEMMA EfeitoExiste ==
  ASSUME NEW sala, SalaIntegra(sala), NEW nova, Efeito(sala, nova)
  PROVE  /\ nova.estado # "inexistente"
         /\ sala.estado = "inexistente" => \E j \in Jogadores : Nasce(sala, nova, j)
<1>1. CASE Parada(sala, nova) \/ Parte(sala, nova) \/ Fecha(sala, nova) \/ Volta(sala, nova)
  BY <1>1 DEF Parada, Parte, Fecha, Volta
<1>2. CASE Perde(sala, nova)
  BY <1>2 DEF Perde, Terminal, SalaIntegra, AnfitriaoDaSala, Viva
<1>3. CASE \E j \in Jogadores : Nasce(sala, nova, j)
  <2>1. \A j : SalaCriada(j).estado = "aberta"
    BY DEF SalaCriada
  <2>2. nova.estado = "aberta"
    BY <1>3, <2>1 DEF Nasce
  <2>3. QED
    BY <1>3, <2>2
<1>4. CASE \E j \in Jogadores : Recebe(sala, nova, j)
  BY <1>4 DEF Recebe, PodeEntrar, AbertaConsistente, ComEntrada, SalaIntegra, Sala
<1>5. QED
  BY <1>1, <1>2, <1>3, <1>4 DEF Efeito

LEMMA EntradaGuarda ==
  ASSUME NEW sala \in Sala, NEW j
  PROVE  /\ Encerrados(sala) \subseteq Encerrados(ComEntrada(sala, j))
         /\ Ativos(ComEntrada(sala, j)) = Ativos(sala) \cup {MembroAtivo(j, sala.proxima)}
<1>1. ComEntrada(sala, j).membros = sala.membros \cup {MembroAtivo(j, sala.proxima)}
  BY DEF ComEntrada, Sala
<1>2. MembroAtivo(j, sala.proxima).estado = "ativo"
  BY DEF MembroAtivo
<1>3. QED
  BY <1>1, <1>2 DEF Encerrados, Ativos

LEMMA SemPassadoFica ==
  ASSUME IInv, SemPassado, [Next]_vars
  PROVE  SemPassado'
<1>1. CASE UNCHANGED vars
  BY <1>1 DEF SemPassado, vars
<1>2. CASE Next
  <2>1. PICK s \in Salas : Substituir(s, salas'[s]) /\ Efeito(salas[s], salas'[s])
    BY <1>2, EfeitoDoPasso
  <2>2. \A t \in Salas \ {s} : salas'[t] = salas[t]
    BY <2>1, SoUmaMuda
  <2>3. salas'[s].estado # "inexistente"
    BY <2>1, EfeitoExiste DEF IInv
  <2>4. QED
    BY <2>2, <2>3 DEF SemPassado
<1>3. QED
  BY <1>1, <1>2

LEMMA InvComPassado == Spec => [](IInv /\ SemPassado)
<1>1. Init => SemPassado
  BY DEF Init, SemPassado, SalaInexistente
<1>2. IInv /\ SemPassado /\ [Next]_vars => SemPassado'
  BY SemPassadoFica
<1>3. QED
  BY <1>1, <1>2, InvarianteIndutivo, PTL DEF Spec

(* A link that ended stays as it ended: no later command revives it,       *)
(* rewrites its reason or drops it, a new Sala and a restart included.     *)
THEOREM VinculosFicamEncerrados == Spec => VinculoNaoRevive
<1>1. ASSUME IInv, SemPassado, [Next]_vars, NEW t \in Salas
      PROVE  Encerrados(salas[t]) \subseteq Encerrados(salas'[t])
  <2>1. CASE UNCHANGED vars
    BY <2>1 DEF vars
  <2>2. CASE Next
    <3>1. PICK s \in Salas : Substituir(s, salas'[s]) /\ Efeito(salas[s], salas'[s])
      BY <1>1, <2>2, EfeitoDoPasso
    <3>2. CASE t # s
      BY <1>1, <3>1, <3>2, SoUmaMuda
    <3>3. CASE t = s
      <4>1. CASE \E j \in Jogadores : Nasce(salas[s], salas'[s], j)
        BY <1>1, <3>3, <4>1 DEF SemPassado, Nasce, Encerrados
      <4>2. CASE \E j \in Jogadores : Recebe(salas[s], salas'[s], j)
        BY <1>1, <3>3, <4>2, EntradaGuarda DEF IInv, Recebe
      <4>3. CASE \E saidas : Continua(salas[s], salas'[s], saidas)
        BY <3>3, <4>3 DEF Continua
      <4>4. QED
        BY <3>1, <4>1, <4>2, <4>3 DEF Efeito, Parada, Perde, Parte, Fecha, Volta
    <3>4. QED
      BY <3>2, <3>3
  <2>3. QED
    BY <1>1, <2>1, <2>2
<1>2. IInv /\ SemPassado /\ [Next]_vars =>
        [\A s \in Salas : {m \in salas[s].membros : m.estado = "encerrado"}
                            \subseteq {m \in salas'[s].membros : m.estado = "encerrado"}]_vars
  BY <1>1 DEF Encerrados
<1>3. QED
  BY <1>2, InvComPassado, PTL DEF Spec, VinculoNaoRevive

LEMMA LugaresIguais ==
  ASSUME NEW A, NEW B, Lugares(A) = Lugares(B)
  PROVE  /\ {m.jogador : m \in A} = {m.jogador : m \in B}
         /\ \A o : {m.jogador : m \in {n \in A : o = n.ordem}}
                     = {m.jogador : m \in {n \in B : o = n.ordem}}
         /\ \A m \in A : \E n \in B : n.ordem = m.ordem /\ n.jogador = m.jogador
<1>1. ASSUME NEW C, NEW D, Lugares(C) = Lugares(D), NEW m \in C
      PROVE  \E n \in D : n.ordem = m.ordem /\ n.jogador = m.jogador
  <2>1. <<m.ordem, m.jogador>> \in Lugares(D)
    BY <1>1 DEF Lugares
  <2>2. PICK n \in D : <<m.ordem, m.jogador>> = <<n.ordem, n.jogador>>
    BY <2>1 DEF Lugares
  <2>3. QED
    BY <2>2
<1>2. \A m \in A : \E n \in B : n.ordem = m.ordem /\ n.jogador = m.jogador
  BY <1>1
<1>3. \A m \in B : \E n \in A : n.ordem = m.ordem /\ n.jogador = m.jogador
  BY <1>1
<1>4. QED
  BY <1>2, <1>3

(* A forwarded Sala admits, blocks and pardons nobody while it lasts, and  *)
(* ends open or closed, never expired.                                     *)
THEOREM EncaminhadaNaoMuda == Spec => EncaminhadaCongelada
<1>1. ASSUME IInv, [Next]_vars, NEW t \in Salas PROVE Congelada(t)
  <2>1. CASE UNCHANGED vars
    BY <2>1 DEF vars, Congelada
  <2>2. CASE Next
    <3>1. PICK s \in Salas : Substituir(s, salas'[s]) /\ Efeito(salas[s], salas'[s])
      BY <1>1, <2>2, EfeitoDoPasso
    <3>2. CASE t # s
      BY <1>1, <3>1, <3>2, SoUmaMuda DEF Congelada
    <3>3. CASE t = s
      <4> DEFINE sala == salas[s]
                 nova == salas'[s]
      <4>1. SUFFICES ASSUME sala.estado = "encaminhada"
                     PROVE  /\ nova.estado \in {"encaminhada", "aberta", "encerrada"}
                            /\ JogadoresAtivos(nova) \subseteq JogadoresAtivos(sala)
                            /\ nova.bloqueados = sala.bloqueados
                            /\ nova.proxima = sala.proxima
        BY <3>3 DEF Congelada
      <4> HIDE DEF sala, nova
      <4>2. Parada(sala, nova) \/ Perde(sala, nova) \/ Volta(sala, nova)
        BY <3>1, <4>1 DEF Efeito, Parte, Fecha, Nasce, Recebe, PodeEntrar, AbertaConsistente,
                          sala, nova
      <4>3. PICK saidas : Continua(sala, nova, saidas) /\ nova.bloqueados = sala.bloqueados
        BY <4>1, <4>2 DEF Parada, Perde, Volta, MesmoBloqueio
      <4>4. JogadoresAtivos(nova) \subseteq JogadoresAtivos(sala)
        BY <4>3, LugaresIguais DEF Continua, JogadoresAtivos
      <4>5. nova.estado \in {"encaminhada", "aberta", "encerrada"}
        BY <4>1, <4>2 DEF Parada, Perde, Volta
      <4>6. QED
        BY <4>3, <4>4, <4>5 DEF Continua
    <3>4. QED
      BY <3>2, <3>3
  <2>3. QED
    BY <1>1, <2>1, <2>2
<1>2. IInv /\ [Next]_vars => [\A s \in Salas : Congelada(s)]_vars
  BY <1>1
<1>3. QED
  BY <1>2, InvarianteIndutivo, PTL DEF Spec, EncaminhadaCongelada

-----------------------------------------------------------------------------
(* The refinement.                                                         *)

(* The Anfitrião of a living Sala is one occupant; nobody otherwise.       *)
LEMMA AnfUnico ==
  ASSUME NEW sala, SalaIntegra(sala)
  PROVE  /\ \A m \in Ativos(sala) : EhAnfitriao(sala, m) => Anf(sala) = {m.jogador}
         /\ sala.estado \in Viva => \E m \in Ativos(sala) : EhAnfitriao(sala, m)
         /\ Ativos(sala) = {} => Anf(sala) = {}
         /\ Anf(sala) \subseteq JogadoresAtivos(sala)
<1>1. \A m, n \in Ativos(sala) : m.ordem = n.ordem => m = n
  BY DEF SalaIntegra, OrdensDaSala, Ativos
<1>2. ASSUME NEW m \in Ativos(sala), EhAnfitriao(sala, m) PROVE Anf(sala) = {m.jogador}
  BY <1>1, <1>2 DEF Anf, EhAnfitriao
<1>3. QED
  BY <1>2 DEF Anf, SalaIntegra, AnfitriaoDaSala, TemAnfitriao, JogadoresAtivos

(* A Player for each active link: the limits count occupants.              *)
LEMMA UmJogadorPorVinculo ==
  ASSUME NEW sala, SalaIntegra(sala)
  PROVE  /\ IsFiniteSet(JogadoresAtivos(sala))
         /\ Cardinality(JogadoresAtivos(sala)) = Cardinality(Ativos(sala))
<1> DEFINE A == Ativos(sala)
           J == JogadoresAtivos(sala)
           f == [m \in A |-> m.jogador]
<1>1. f \in Bijection(A, J)
  BY DEF Bijection, Injection, Surjection, IsInjective, JogadoresAtivos, SalaIntegra, VinculosDaSala
<1>2. ExistsBijection(A, J)
  BY <1>1 DEF ExistsBijection
<1>3. IsFiniteSet(A)
  BY DEF SalaIntegra, LimiteDaSala
<1> HIDE DEF A, J, f
<1>4. IsFiniteSet(J) /\ Cardinality(J) = Cardinality(A)
  BY <1>2, <1>3, FS_Bijection
<1>5. QED
  BY <1>4 DEF A, J

(* The links that stay keep their Player; whoever is Anfitrião after some  *)
(* left was so before, or the one before is among those that left.         *)
LEMMA QuemFica ==
  ASSUME NEW sala, SalaIntegra(sala), NEW nova, SalaIntegra(nova),
         sala.estado \in Viva, nova.estado \in Viva,
         NEW saidas \in SUBSET Ativos(sala), Continua(sala, nova, saidas)
  PROVE  LET saem == {m.jogador : m \in saidas}
         IN  /\ saem \subseteq JogadoresAtivos(sala)
             /\ JogadoresAtivos(nova) = JogadoresAtivos(sala) \ saem
             /\ \E h \in JogadoresAtivos(sala) \ saem :
                  /\ Anf(nova) = {h}
                  /\ Anf(sala) \subseteq saem \cup {h}
<1> DEFINE saem == {m.jogador : m \in saidas}
           ficam == Ativos(sala) \ saidas
<1>1. Lugares(Ativos(nova)) = Lugares(ficam)
  BY DEF Continua
<1>2. JogadoresAtivos(nova) = {m.jogador : m \in ficam}
  BY <1>1, LugaresIguais DEF JogadoresAtivos
<1>3. saem \subseteq JogadoresAtivos(sala)
  BY DEF JogadoresAtivos
<1>4. {m.jogador : m \in ficam} = JogadoresAtivos(sala) \ saem
  BY DEF JogadoresAtivos, SalaIntegra, VinculosDaSala
<1>5. PICK n \in Ativos(nova) : EhAnfitriao(nova, n)
  BY AnfUnico
<1>6. PICK m \in ficam : m.ordem = n.ordem /\ m.jogador = n.jogador
  BY <1>1, LugaresIguais
<1>7. Anf(nova) = {m.jogador} /\ m.jogador \in JogadoresAtivos(sala) \ saem
  BY <1>4, <1>5, <1>6, AnfUnico
<1>8. PICK a \in Ativos(sala) : EhAnfitriao(sala, a)
  BY AnfUnico
<1>9. Anf(sala) = {a.jogador}
  BY <1>8, AnfUnico
<1>10. a.jogador \in saem \cup {m.jogador}
  <2>1. CASE a \in saidas
    BY <2>1
  <2>2. CASE a \notin saidas
    <3>1. PICK b \in Ativos(nova) : b.ordem = a.ordem
      BY <1>1, <2>2, LugaresIguais
    <3>2. nova.anfitriao <= b.ordem /\ sala.anfitriao <= m.ordem
      BY DEF SalaIntegra, AnfitriaoDaSala, MaisAntigo
    <3>3. m.ordem \in Nat /\ a.ordem \in Nat
      BY DEF SalaIntegra, Sala, Ativos, Membro
    <3>4. m.ordem <= a.ordem /\ a.ordem <= m.ordem
      BY <1>5, <1>6, <1>8, <3>1, <3>2 DEF EhAnfitriao
    <3>5. m.ordem = a.ordem
      BY <3>3, <3>4
    <3>6. m = a
      BY <3>5 DEF SalaIntegra, OrdensDaSala, Ativos
    <3>7. QED
      BY <3>6
  <2>3. QED
    BY <2>1, <2>2
<1>11. QED
  BY <1>2, <1>3, <1>4, <1>7, <1>9, <1>10

(* The same places, the same order of the Anfitrião: the same Anfitrião.  *)
LEMMA MesmosLugares ==
  ASSUME NEW sala, NEW nova, Lugares(Ativos(nova)) = Lugares(Ativos(sala)),
         nova.anfitriao = sala.anfitriao
  PROVE  JogadoresAtivos(nova) = JogadoresAtivos(sala) /\ Anf(nova) = Anf(sala)
<1>1. /\ \A n \in Ativos(nova) : \E m \in Ativos(sala) : n.ordem = m.ordem /\ n.jogador = m.jogador
      /\ \A m \in Ativos(sala) : \E n \in Ativos(nova) : n.ordem = m.ordem /\ n.jogador = m.jogador
  BY LugaresIguais
<1>2. JogadoresAtivos(nova) = JogadoresAtivos(sala)
  BY <1>1 DEF JogadoresAtivos
<1>3. Anf(nova) \subseteq Anf(sala)
  BY <1>1 DEF Anf, EhAnfitriao
<1>4. Anf(sala) \subseteq Anf(nova)
  BY <1>1 DEF Anf, EhAnfitriao
<1>5. QED
  BY <1>2, <1>3, <1>4

(* The abstract state of one Sala is replaced with the Sala.               *)
LEMMA PassaAbstrato ==
  ASSUME IInv, NEW s \in Salas, Substituir(s, salas'[s]), NEW f, NEW o, NEW a,
         Fase(salas'[s]) = f, JogadoresAtivos(salas'[s]) = o, Anf(salas'[s]) = a
  PROVE  Ciclo!Passa(s, f, o, a)
<1>1. \A t \in Salas : salas'[t] = IF t = s THEN salas'[s] ELSE salas[t]
  BY SoUmaMuda
<1>2. QED
  BY <1>1 DEF Ciclo!Passa, Anf

LEMMA Abstrata ==
  ASSUME NEW s \in Salas
  PROVE  /\ [t \in Salas |-> Fase(salas[t])][s] = Fase(salas[s])
         /\ [t \in Salas |-> JogadoresAtivos(salas[t])][s] = JogadoresAtivos(salas[s])
         /\ [t \in Salas |-> {m.jogador : m \in {n \in Ativos(salas[t]) : EhAnfitriao(salas[t], n)}}][s]
              = Anf(salas[s])
  BY DEF Anf

(* The abstract module counts with its own instance of FiniteSets.         *)
LEMMA ContagemAbstrata == \A S : Ciclo!Cardinality(S) = Cardinality(S)
  BY DEF Ciclo!Cardinality, Cardinality

LEMMA ParadaAbstrata ==
  ASSUME IInv, NEW s \in Salas, Substituir(s, salas'[s]), Parada(salas[s], salas'[s])
  PROVE  UNCHANGED Ciclo!vars
<1>1. Lugares(Ativos(salas'[s])) = Lugares(Ativos(salas[s]))
  BY DEF Parada, Continua
<1>2. JogadoresAtivos(salas'[s]) = JogadoresAtivos(salas[s])
  BY <1>1, LugaresIguais DEF JogadoresAtivos
<1>3. Anf(salas'[s]) = Anf(salas[s])
  BY <1>1, MesmosLugares DEF Parada
<1>4. Fase(salas'[s]) = Fase(salas[s])
  BY DEF Fase, Parada
<1>5. \A t \in Salas : salas'[t] = IF t = s THEN salas'[s] ELSE salas[t]
  BY SoUmaMuda
<1>6. \A t \in Salas : /\ JogadoresAtivos(salas'[t]) = JogadoresAtivos(salas[t])
                       /\ Anf(salas'[t]) = Anf(salas[t]) /\ Fase(salas'[t]) = Fase(salas[t])
  BY <1>2, <1>3, <1>4, <1>5
<1>7. QED
  BY <1>6 DEF Ciclo!vars, Anf

LEMMA LivreAbstrato ==
  ASSUME NEW j, ~ Associado(j)
  PROVE  Ciclo!Livre(j)
  BY DEF Associado, Ciclo!Livre

LEMMA NasceAbstrato ==
  ASSUME IInv, NEW s \in Salas, Substituir(s, salas'[s]), NEW j \in Jogadores,
         Nasce(salas[s], salas'[s], j)
  PROVE  Ciclo!Abrir(s, j)
<1>1. salas'[s] = SalaCriada(j) /\ Fase(salas[s]) = "inexistente" /\ ~ Associado(j)
  BY DEF Nasce, Fase
<1>2. SalaIntegra(SalaCriada(j)) /\ JogadoresAtivos(SalaCriada(j)) = {j}
  BY SalaCriadaIntegra
<1>3. Fase(SalaCriada(j)) = "aberta" /\ SalaCriada(j).estado \in Viva
  BY DEF Fase, SalaCriada, Viva
<1>4. Anf(SalaCriada(j)) = {j}
  <2>1. PICK m \in Ativos(SalaCriada(j)) : EhAnfitriao(SalaCriada(j), m)
    BY <1>2, <1>3, AnfUnico
  <2>2. m.jogador = j
    BY <1>2, <2>1 DEF JogadoresAtivos
  <2>3. QED
    BY <1>2, <2>1, <2>2, AnfUnico
<1>5. Ciclo!Passa(s, "aberta", {j}, {j})
  BY <1>1, <1>2, <1>3, <1>4, PassaAbstrato
<1>6. Ciclo!Livre(j)
  BY <1>1, LivreAbstrato
<1>7. QED
  BY <1>1, <1>5, <1>6 DEF Ciclo!Abrir

LEMMA RecebeAbstrato ==
  ASSUME IInv, NEW s \in Salas, Substituir(s, salas'[s]), NEW j \in Jogadores,
         Recebe(salas[s], salas'[s], j)
  PROVE  Ciclo!Admitir(s, j)
<1> DEFINE sala == salas[s]
           nova == salas'[s]
<1>1. sala \in Sala /\ SalaIntegra(sala)
  BY DEF IInv
<1>2. nova = ComEntrada(sala, j) /\ PodeEntrar(sala, j) /\ ~ Associado(j)
  BY DEF Recebe
<1>3. j \notin JogadoresAtivos(sala)
  BY <1>2 DEF Associado
<1>4. JogadoresAtivos(nova) = JogadoresAtivos(sala) \cup {j} /\ SalaIntegra(nova)
  BY <1>1, <1>2, <1>3, ComEntradaIntegra
<1>5. sala.estado = "aberta" /\ nova.estado = "aberta" /\ nova.anfitriao = sala.anfitriao
  BY <1>1, <1>2 DEF PodeEntrar, AbertaConsistente, ComEntrada, Sala
<1>6. Anf(nova) = Anf(sala)
  <2>1. PICK m \in Ativos(sala) : EhAnfitriao(sala, m)
    BY <1>1, <1>5, AnfUnico DEF Viva
  <2>2. m \in Ativos(nova) /\ EhAnfitriao(nova, m)
    BY <1>1, <1>2, <1>5, <2>1, EntradaGuarda DEF EhAnfitriao
  <2>3. QED
    BY <1>1, <1>4, <2>1, <2>2, AnfUnico
<1>7. Cardinality(JogadoresAtivos(sala)) < LimiteDeMembros
  BY <1>1, <1>2, UmJogadorPorVinculo DEF PodeEntrar
<1>8. Fase(sala) = "aberta" /\ Fase(nova) = "aberta"
  BY <1>5 DEF Fase
<1>9. Ciclo!Livre(j)
  BY <1>2, LivreAbstrato
<1>10. \A t \in Salas : salas'[t] = IF t = s THEN nova ELSE salas[t]
  BY SoUmaMuda
<1> HIDE DEF nova
<1>11. QED
  BY <1>4, <1>6, <1>7, <1>8, <1>9, <1>10, ContagemAbstrata DEF Ciclo!Admitir, Ciclo!Passa, Anf

(* The Sala goes on without saidas, which may be none of its links.        *)
LEMMA FicamAbstrato ==
  ASSUME IInv, NEW s \in Salas, Substituir(s, salas'[s]), SalaIntegra(salas'[s]),
         salas[s].estado \in Viva, salas'[s].estado \in Viva,
         NEW saidas \in SUBSET Ativos(salas[s]), Continua(salas[s], salas'[s], saidas)
  PROVE  /\ Ciclo!Ficam(s, {m.jogador : m \in saidas}, salas'[s].estado)
         /\ {m.jogador : m \in saidas} \subseteq JogadoresAtivos(salas[s])
<1> DEFINE sala == salas[s]
           nova == salas'[s]
           saem == {m.jogador : m \in saidas}
<1>1. SalaIntegra(sala)
  BY DEF IInv
<1>2. /\ saem \subseteq JogadoresAtivos(sala)
      /\ JogadoresAtivos(nova) = JogadoresAtivos(sala) \ saem
      /\ \E h \in JogadoresAtivos(sala) \ saem : Anf(nova) = {h} /\ Anf(sala) \subseteq saem \cup {h}
  BY <1>1, QuemFica
<1>3. Fase(nova) = nova.estado
  BY DEF Fase, Viva
<1>4. \A t \in Salas : salas'[t] = IF t = s THEN nova ELSE salas[t]
  BY SoUmaMuda
<1>5. PICK h \in JogadoresAtivos(sala) \ saem : Anf(nova) = {h} /\ Anf(sala) \subseteq saem \cup {h}
  BY <1>2
<1>6. saem # JogadoresAtivos(sala)
  BY <1>5
<1> HIDE DEF nova, saem
<1>7. Ciclo!Passa(s, nova.estado, JogadoresAtivos(sala) \ saem, {h})
  BY <1>2, <1>3, <1>4, <1>5 DEF Ciclo!Passa, Anf
<1>8. Ciclo!Ficam(s, saem, nova.estado)
  <2>1. [t \in Salas |-> JogadoresAtivos(salas[t])][s] = JogadoresAtivos(sala)
    OBVIOUS
  <2>2. [t \in Salas |-> {m.jogador : m \in {n \in Ativos(salas[t]) : EhAnfitriao(salas[t], n)}}][s] = Anf(sala)
    BY DEF Anf
  <2>3. QED
    BY <1>2, <1>5, <1>6, <1>7, <2>1, <2>2 DEF Ciclo!Ficam
<1>9. QED
  BY <1>2, <1>8 DEF nova, saem

LEMMA PerdeAbstrato ==
  ASSUME IInv, NEW s \in Salas, Substituir(s, salas'[s]), SalaIntegra(salas'[s]),
         Perde(salas[s], salas'[s])
  PROVE  Ciclo!Sair(s) \/ Ciclo!Esvaziar(s)
<1> DEFINE sala == salas[s]
           nova == salas'[s]
<1>1. SalaIntegra(sala)
  BY DEF IInv
<1>2. PICK m \in Ativos(sala) :
        /\ Continua(sala, nova, {m})
        /\ Ativos(sala) # {m} => nova.estado = sala.estado
        /\ Ativos(sala) = {m} =>
             /\ nova.estado \in Terminal
             /\ sala.estado = "encaminhada" => nova.estado = "encerrada"
  BY DEF Perde
<1>3. sala.estado \in Viva
  BY <1>1, <1>2 DEF SalaIntegra, AnfitriaoDaSala
<1>4. Fase(sala) = sala.estado /\ sala.estado \in {"aberta", "encaminhada"}
  BY <1>3 DEF Fase, Viva
<1>5. CASE Ativos(sala) # {m}
  <2>1. {m} \in SUBSET Ativos(sala) /\ nova.estado = sala.estado
    BY <1>2, <1>5
  <2>2. {x.jogador : x \in {m}} = {m.jogador}
    OBVIOUS
  <2>3. Ciclo!Ficam(s, {m.jogador}, sala.estado)
    BY <1>2, <1>3, <2>1, <2>2, FicamAbstrato
  <2>4. m.jogador \in JogadoresAtivos(sala)
    BY DEF JogadoresAtivos
  <2>5. QED
    BY <1>4, <2>3, <2>4, Abstrata DEF Ciclo!Sair
<1>6. CASE Ativos(sala) = {m}
  <2>1. nova.estado \in Terminal /\ Fase(nova) = "encerrada" /\ nova.estado \notin Viva
    BY <1>2, <1>6 DEF Fase, Terminal, Viva
  <2>2. Ativos(nova) = {}
    BY <2>1 DEF SalaIntegra, AnfitriaoDaSala
  <2>3. JogadoresAtivos(nova) = {} /\ Anf(nova) = {}
    BY <2>2, AnfUnico DEF JogadoresAtivos
  <2>4. Cardinality(JogadoresAtivos(sala)) = 1
    <3>1. JogadoresAtivos(sala) = {m.jogador}
      BY <1>6 DEF JogadoresAtivos
    <3>2. QED
      BY <3>1, FS_Singleton
  <2>5. Ciclo!Passa(s, "encerrada", {}, {})
    BY <2>1, <2>3, PassaAbstrato
  <2>6. QED
    BY <1>4, <2>4, <2>5, ContagemAbstrata DEF Ciclo!Esvaziar
<1>7. QED
  BY <1>5, <1>6

LEMMA ParteAbstrato ==
  ASSUME IInv, NEW s \in Salas, Substituir(s, salas'[s]), Parte(salas[s], salas'[s])
  PROVE  Ciclo!Encaminhar(s)
<1> DEFINE sala == salas[s]
           nova == salas'[s]
<1>1. SalaIntegra(sala)
  BY DEF IInv
<1>2. Lugares(Ativos(nova)) = Lugares(Ativos(sala))
  BY DEF Parte, Continua
<1>3. JogadoresAtivos(nova) = JogadoresAtivos(sala)
  BY <1>2, LugaresIguais DEF JogadoresAtivos
<1>4. Anf(nova) = Anf(sala)
  BY <1>2, MesmosLugares DEF Parte
<1>5. Fase(sala) = "aberta" /\ Fase(nova) = "encaminhada"
  BY DEF Fase, Parte
<1>6. Cardinality(JogadoresAtivos(sala)) \in MinimoDeMembros .. LimiteDeMembros
  BY <1>1, UmJogadorPorVinculo DEF Parte, ComposicaoValida
<1>7. \A t \in Salas : salas'[t] = IF t = s THEN nova ELSE salas[t]
  BY SoUmaMuda
<1> HIDE DEF nova
<1>8. QED
  BY <1>3, <1>4, <1>5, <1>6, <1>7, ContagemAbstrata DEF Ciclo!Encaminhar, Ciclo!Passa, Anf

LEMMA FechaAbstrato ==
  ASSUME IInv, NEW s \in Salas, Substituir(s, salas'[s]), SalaIntegra(salas'[s]),
         Fecha(salas[s], salas'[s])
  PROVE  Ciclo!Esvaziar(s)
<1> DEFINE sala == salas[s]
           nova == salas'[s]
<1>1. sala.estado = "aberta" /\ nova.estado = "encerrada"
  BY DEF Fecha
<1>2. Fase(sala) = "aberta" /\ Fase(nova) = "encerrada" /\ nova.estado \notin Viva
  BY <1>1 DEF Fase, Viva
<1>3. Ativos(nova) = {}
  BY <1>2 DEF SalaIntegra, AnfitriaoDaSala
<1>4. JogadoresAtivos(nova) = {} /\ Anf(nova) = {}
  BY <1>3, AnfUnico DEF JogadoresAtivos
<1>5. Ciclo!Passa(s, "encerrada", {}, {})
  BY <1>2, <1>4, PassaAbstrato
<1>6. QED
  BY <1>2, <1>5, Abstrata DEF Ciclo!Esvaziar

LEMMA VoltaAbstrato ==
  ASSUME IInv, NEW s \in Salas, Substituir(s, salas'[s]), SalaIntegra(salas'[s]),
         Volta(salas[s], salas'[s])
  PROVE  Ciclo!Reabrir(s)
<1>1. PICK saidas \in SUBSET Ativos(salas[s]) : Continua(salas[s], salas'[s], saidas)
  BY DEF Volta
<1>2. salas[s].estado = "encaminhada" /\ salas'[s].estado = "aberta"
  BY DEF Volta
<1>3. salas[s].estado \in Viva /\ salas'[s].estado \in Viva /\ Fase(salas[s]) = "encaminhada"
  BY <1>2 DEF Viva, Fase
<1>4. /\ Ciclo!Ficam(s, {m.jogador : m \in saidas}, "aberta")
      /\ {m.jogador : m \in saidas} \subseteq JogadoresAtivos(salas[s])
  BY <1>1, <1>2, <1>3, FicamAbstrato
<1>5. QED
  BY <1>3, <1>4, Abstrata DEF Ciclo!Reabrir

(***************************************************************************)
(* The engine implements the life cycle of the Salas.                      *)
(***************************************************************************)
THEOREM EngineImplementaCiclo == Spec => ImplementaCiclo
<1>1. Init => Ciclo!Init
  <2> SUFFICES ASSUME Init PROVE Ciclo!Init
    OBVIOUS
  <2>1. \A s \in Salas : salas[s] = SalaInexistente
    BY DEF Init
  <2>2. Fase(SalaInexistente) = "inexistente" /\ Ativos(SalaInexistente) = {}
    BY DEF Fase, SalaInexistente, Ativos
  <2>3. \A s \in Salas : /\ Fase(salas[s]) = "inexistente" /\ JogadoresAtivos(salas[s]) = {}
                         /\ Ativos(salas[s]) = {}
    BY <2>1, <2>2 DEF JogadoresAtivos
  <2>4. QED
    BY <2>3 DEF Ciclo!Init
<1>2. ASSUME IInv, IInv', [Next]_vars PROVE [Ciclo!Next]_(Ciclo!vars)
  <2>1. CASE UNCHANGED vars
    BY <2>1 DEF vars, Ciclo!vars
  <2>2. CASE Next
    <3>1. PICK s \in Salas : Substituir(s, salas'[s]) /\ Efeito(salas[s], salas'[s])
      BY <1>2, <2>2, EfeitoDoPasso
    <3>2. SalaIntegra(salas'[s])
      BY <1>2 DEF IInv
    <3>3. CASE Parada(salas[s], salas'[s])
      BY <1>2, <3>1, <3>3, ParadaAbstrata
    <3>4. CASE \E j \in Jogadores : Nasce(salas[s], salas'[s], j) \/ Recebe(salas[s], salas'[s], j)
      BY <1>2, <3>1, <3>4, NasceAbstrato, RecebeAbstrato DEF Ciclo!Next
    <3>5. CASE Perde(salas[s], salas'[s])
      BY <1>2, <3>1, <3>2, <3>5, PerdeAbstrato DEF Ciclo!Next
    <3>6. CASE Parte(salas[s], salas'[s])
      BY <1>2, <3>1, <3>6, ParteAbstrato DEF Ciclo!Next
    <3>7. CASE Fecha(salas[s], salas'[s])
      BY <1>2, <3>1, <3>2, <3>7, FechaAbstrato DEF Ciclo!Next
    <3>8. CASE Volta(salas[s], salas'[s])
      BY <1>2, <3>1, <3>2, <3>8, VoltaAbstrato DEF Ciclo!Next
    <3>9. QED
      BY <3>1, <3>3, <3>4, <3>5, <3>6, <3>7, <3>8 DEF Efeito
  <2>3. QED
    BY <1>2, <2>1, <2>2
<1>3. IInv /\ IInv' /\ [Next]_vars => [Ciclo!Next]_(Ciclo!vars)
  BY <1>2
<1>4. QED
  BY <1>1, <1>3, InvarianteIndutivo, PTL DEF Spec, ImplementaCiclo, Ciclo!Spec

=============================================================================
