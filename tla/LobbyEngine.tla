---------------------------- MODULE LobbyEngine -----------------------------
(***************************************************************************)
(* The state machine of aplicarComando (packages/engine/src/lobby.ts):     *)
(* EstadoDoLobby.salas, with one action per domain command.  A command     *)
(* that is rejected, and one that succeeds with the state it was given     *)
(* (a second disconnection, encaminhar_sala, the outcomes of an offer that *)
(* failed), changes nothing and is a stuttering step here.                 *)
(***************************************************************************)
EXTENDS LobbyDominio

CONSTANTS
  Salas,     (* Identifiers of Salas; each has its own Código de Sala.     *)
  MaxOrdem   (* Bound on proximaOrdemDeEntrada, which the code never caps. *)

ASSUME MaxOrdemAssumption == MaxOrdem \in Nat

VARIABLE salas   (* estado.salas, by identifier                            *)

vars == salas

TypeOK == salas \in [Salas -> Sala]

Init == salas = [s \in Salas |-> SalaInexistente]

(* encontrarAssociacaoAtiva                                                *)
Associado(j) == \E s \in Salas : j \in JogadoresAtivos(salas[s])

Existe(s) == salas[s].estado # "inexistente"

Substituir(s, sala) == salas' = [salas EXCEPT ![s] = sala]

-----------------------------------------------------------------------------
CriarSala(s, j) ==
  /\ ~ Existe(s)
  /\ ~ Associado(j)
  /\ Substituir(s, SalaCriada(j))

(* Mutant: the Player is searched for only in the Sala it enters.          *)
BugEntrarNaSala(s, j) ==
  /\ PodeEntrar(salas[s], j)
  /\ j \notin JogadoresAtivos(salas[s])
  /\ salas[s].proxima <= MaxOrdem
  /\ Substituir(s, ComEntrada(salas[s], j))

EntrarNaSala(s, j) ==
  /\ PodeEntrar(salas[s], j)
  /\ ~ Associado(j)
  /\ salas[s].proxima <= MaxOrdem
  /\ Substituir(s, ComEntrada(salas[s], j))

SairDaSala(s, m) ==
  /\ NaoEncaminhada(salas[s])
  /\ Substituir(s, ComSaida(salas[s], m, "saida", "encerrada"))

(* The two exits that a forwarded Sala admits:                             *)
(* sairDaSalaEncaminhadaNaoIniciada and removerDesistenteDaSala.           *)
SairDaSalaEncaminhada(s, m) ==
  /\ EncaminhadaConsistente(salas[s])
  /\ Substituir(s, ComSaida(salas[s], m, "saida", "encerrada"))

ExpulsarMembro(s, alvo) ==
  /\ TemAnfitriao(salas[s])
  /\ NaoEncaminhada(salas[s])
  /\ ~ EhAnfitriao(salas[s], alvo)
  /\ Substituir(s, ComExpulsao(salas[s], alvo))

(* The engine trusts its caller that the target is a bot.                  *)
RemoverBotDaSala(s, alvo) ==
  /\ TemAnfitriao(salas[s])
  /\ NaoEncaminhada(salas[s])
  /\ ~ EhAnfitriao(salas[s], alvo)
  /\ Substituir(s, ComBotRemovido(salas[s], alvo))

AutorizarRetorno(s, j) ==
  /\ TemAnfitriao(salas[s])
  /\ NaoEncaminhada(salas[s])
  /\ j \in salas[s].bloqueados
  /\ Substituir(s, [salas[s] EXCEPT !.bloqueados = @ \ {j}])

(* Presence is not composition: these two also apply to a forwarded Sala.  *)
DesconectarJogador(s, m) ==
  /\ salas[s].consistente
  /\ m.presenca = "conectado"
  /\ Substituir(s, ComPresenca(salas[s], m, "em_reconexao"))

ReconectarJogador(s, m) ==
  /\ salas[s].consistente
  /\ m.presenca = "em_reconexao"
  /\ Substituir(s, ComPresenca(salas[s], m, "conectado"))

ExpirarReconexao(s, m) ==
  /\ PodeExpirar(salas[s], m)
  /\ Substituir(s, ComSaida(salas[s], m, "expiracao", "expirada"))

ConfirmarConsistenciaDaSala(s) ==
  /\ Existe(s) /\ ~ salas[s].consistente
  /\ Substituir(s, [salas[s] EXCEPT !.consistente = TRUE])

RegistrarReinicioDaSala(s) ==
  /\ Existe(s) /\ salas[s].consistente
  /\ Substituir(s, ComReinicio(salas[s]))

AlternarProntidao(s, m) ==
  /\ AbertaConsistente(salas[s])
  /\ Substituir(s, ComProntidaoAlternada(salas[s], m))

AceitarEncaminhamento(s, rosterOfertado) ==
  /\ PodeAceitar(salas[s], rosterOfertado)
  /\ Substituir(s, [salas[s] EXCEPT !.estado = "encaminhada"])

EncerrarSala(s) ==
  /\ TemAnfitriao(salas[s])
  /\ AbertaConsistente(salas[s])
  /\ Substituir(s, SalaEncerrada(salas[s]))

ReabrirSala(s, saidas) ==
  /\ PodeReabrir(salas[s], saidas)
  /\ Substituir(s, SalaReaberta(salas[s], saidas))

ComandoDeMembro(s, m) ==
  \/ SairDaSala(s, m)
  \/ SairDaSalaEncaminhada(s, m)
  \/ ExpulsarMembro(s, m)
  \/ RemoverBotDaSala(s, m)
  \/ DesconectarJogador(s, m)
  \/ ReconectarJogador(s, m)
  \/ ExpirarReconexao(s, m)
  \/ AlternarProntidao(s, m)

Next ==
  \E s \in Salas :
    \/ \E j \in Jogadores :
         CriarSala(s, j) \/ EntrarNaSala(s, j) \/ AutorizarRetorno(s, j)
    \/ \E m \in Ativos(salas[s]) : ComandoDeMembro(s, m)
    \/ ConfirmarConsistenciaDaSala(s)
    \/ RegistrarReinicioDaSala(s)
    \/ \E rosterOfertado \in SUBSET Jogadores :
         AceitarEncaminhamento(s, rosterOfertado)
    \/ EncerrarSala(s)
    \/ \E saidas \in SUBSET Ativos(salas[s]) : ReabrirSala(s, saidas)

Spec == Init /\ [][Next]_vars

-----------------------------------------------------------------------------
(* Safety.                                                                 *)

(* A Player has at most one active link in all the Salas, whatever the     *)
(* order in which exits, expulsions, expirations and entries of several    *)
(* Salas are applied (encontrarAssociacaoAtiva).                           *)
AssociacaoUnica ==
  \A s, t \in Salas : \A m \in Ativos(salas[s]), n \in Ativos(salas[t]) :
    m.jogador = n.jogador => s = t /\ m = n

(* A living Sala has an Anfitrião and it is one of its active links; a     *)
(* Sala that is over has neither Anfitrião nor active links.               *)
AnfitriaoVivo ==
  \A s \in Salas :
    /\ salas[s].estado \in Viva => TemAnfitriao(salas[s])
    /\ salas[s].estado \notin Viva =>
         Ativos(salas[s]) = {} /\ salas[s].anfitriao = SemAnfitriao

(* The Anfitrião is always the link of the longest standing: orders of     *)
(* entry only grow and succession moves to the next one, so nobody that    *)
(* entered earlier is passed over, and succession never has to go round    *)
(* to the first link (the fallback at the end of sucederAnfitriao).        *)
AnfitriaoMaisAntigo ==
  \A s \in Salas : \A m \in Ativos(salas[s]) : salas[s].anfitriao <= m.ordem

(* Orders of entry identify links and are never handed out twice: each is  *)
(* below proximaOrdemDeEntrada, which succession and the lobby server's    *)
(* membroId rely on.                                                       *)
OrdemIdentificaVinculo ==
  \A s \in Salas : \A m, n \in salas[s].membros :
    /\ m.ordem < salas[s].proxima
    /\ m.ordem = n.ordem => m = n

(* An expelled Player has no active link in the Sala it is blocked in:     *)
(* only autorizarRetorno lets it back.                                     *)
BloqueadoForaDaSala ==
  \A s \in Salas : salas[s].bloqueados \cap JogadoresAtivos(salas[s]) = {}

(* A Sala never holds more active links than LIMITE_DE_MEMBROS.            *)
LimiteRespeitado ==
  \A s \in Salas : Cardinality(Ativos(salas[s])) <= LimiteDeMembros

-----------------------------------------------------------------------------
(* What a step may never do.                                               *)

PassagemDeAnfitriao(sala, nova) ==
  LET antes  == sala.anfitriao
      depois == nova.anfitriao
      ficam  == {m.ordem : m \in Ativos(nova)}
  IN  (antes # SemAnfitriao /\ depois # SemAnfitriao /\ antes # depois) =>
        /\ antes \notin ficam /\ depois \in ficam
        /\ ficam \subseteq {m.ordem : m \in Ativos(sala)}
        /\ ~ \E x \in ficam : EntreNoCiclo(antes, x, depois)

(* When the Anfitrião changes, the old one has left and the new one was    *)
(* already there, next in the circle of the orders of entry: no link that  *)
(* stays comes between the two (sucederAnfitriao).                         *)
SucessaoCircular ==
  [][\A s \in Salas : PassagemDeAnfitriao(salas[s], salas'[s])]_vars

(* A link that ended stays in the Sala as it ended: no later command       *)
(* revives it or rewrites why it ended.                                    *)
VinculoNaoRevive ==
  [][\A s \in Salas :
       {m \in salas[s].membros : m.estado = "encerrado"}
         \subseteq {m \in salas'[s].membros : m.estado = "encerrado"}]_vars

Congelada(s) ==
  salas[s].estado = "encaminhada" =>
    /\ salas'[s].estado \in {"encaminhada", "aberta", "encerrada"}
    /\ JogadoresAtivos(salas'[s]) \subseteq JogadoresAtivos(salas[s])
    /\ salas'[s].bloqueados = salas[s].bloqueados
    /\ salas'[s].proxima = salas[s].proxima

(* A forwarded Sala is frozen: while it lasts nobody enters, is blocked or *)
(* pardoned, and it ends open again or closed by the last exit, never      *)
(* expired (exigirSalaNaoEncaminhada, exigirSalaAberta).                   *)
EncaminhadaCongelada == [][\A s \in Salas : Congelada(s)]_vars

-----------------------------------------------------------------------------
(* Refinement.                                                             *)

Fase(sala) == IF sala.estado = "expirada" THEN "encerrada" ELSE sala.estado
Ciclo == INSTANCE CicloDasSalas WITH
  fase <- [s \in Salas |-> Fase(salas[s])],
  ocupantes <- [s \in Salas |-> JogadoresAtivos(salas[s])],
  anfitriao <- [s \in Salas |->
    {m.jogador : m \in {n \in Ativos(salas[s]) : EhAnfitriao(salas[s], n)}}]

(* The engine implements the life cycle that CONTEXT.md describes: each    *)
(* command, seen through phase, occupants and Anfitrião, is one of its     *)
(* steps or changes nothing.                                               *)
ImplementaCiclo == Ciclo!Spec
=============================================================================
