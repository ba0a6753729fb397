---------------------------- MODULE LobbyDominio ----------------------------
(***************************************************************************)
(* The Sala of the lobby domain as data: what packages/engine/src/lobby.ts *)
(* holds for one Sala, the gates its commands test and the new Sala each   *)
(* command returns.  The operators are pure, as the functions of the       *)
(* engine are; LobbyEngine turns them into a state machine over several    *)
(* Salas and SalasServidor runs them inside the lobby server.              *)
(*                                                                         *)
(* A link (Membro) is identified by its ordemDeEntrada: the code keeps a   *)
(* membroId beside it, a fresh UUID or, after a restart of the server, one *)
(* made of the Sala and the order, and refuses a membroId already used.    *)
(***************************************************************************)
EXTENDS Naturals, FiniteSets

CONSTANTS
  Jogadores,        (* Players that may create or enter a Sala.            *)
  LimiteDeMembros,  (* LIMITE_DE_MEMBROS: most active links of a Sala.     *)
  MinimoDeMembros   (* MINIMO_DE_MEMBROS: fewest links a match starts with.*)

ASSUME LimitesAssumption ==
  /\ LimiteDeMembros \in Nat /\ MinimoDeMembros \in Nat
  /\ 1 <= MinimoDeMembros /\ MinimoDeMembros <= LimiteDeMembros

EstadosDaSala == {"inexistente", "aberta", "encaminhada", "encerrada", "expirada"}
Viva      == {"aberta", "encaminhada"}
Terminal  == {"encerrada", "expirada"}
Motivos   == {"nenhum", "saida", "expulsao", "expiracao", "encerramento"}
Presencas == {"conectado", "em_reconexao"}

Membro == [ordem: Nat \ {0}, jogador: Jogadores, estado: {"ativo", "encerrado"},
           motivo: Motivos, presenca: Presencas, pronto: BOOLEAN]

Sala == [estado: EstadosDaSala, membros: SUBSET Membro, proxima: Nat,
         anfitriao: Nat, bloqueados: SUBSET Jogadores, consistente: BOOLEAN]

(* anfitriaoId = null *)
SemAnfitriao == 0

SalaInexistente ==
  [estado |-> "inexistente", membros |-> {}, proxima |-> 1,
   anfitriao |-> SemAnfitriao, bloqueados |-> {}, consistente |-> TRUE]

MembroAtivo(j, o) ==
  [ordem |-> o, jogador |-> j, estado |-> "ativo", motivo |-> "nenhum",
   presenca |-> "conectado", pronto |-> FALSE]

Ativos(sala) == {m \in sala.membros : m.estado = "ativo"}
JogadoresAtivos(sala) == {m.jogador : m \in Ativos(sala)}
EhAnfitriao(sala, m) == sala.anfitriao = m.ordem

-----------------------------------------------------------------------------
(* Gates shared by the commands.                                           *)

NaoEncaminhada(sala) == sala.consistente /\ sala.estado # "encaminhada"
AbertaConsistente(sala) == sala.consistente /\ sala.estado = "aberta"
EncaminhadaConsistente(sala) == sala.consistente /\ sala.estado = "encaminhada"

(* exigirAnfitriaoAtual: the command names the current Anfitrião.          *)
TemAnfitriao(sala) == \E m \in Ativos(sala) : EhAnfitriao(sala, m)

ComposicaoValida(sala) ==
  /\ Cardinality(Ativos(sala)) \in MinimoDeMembros .. LimiteDeMembros
  /\ \A m \in Ativos(sala) : m.presenca = "conectado" /\ m.pronto

-----------------------------------------------------------------------------
(* What a command does to the links of a Sala.                             *)

(* A link that ends by expiration or closing forgets presence and          *)
(* readiness; one that ends by exit or expulsion keeps them.               *)
EncerrarVinculo(m, motivo) ==
  IF motivo \in {"expiracao", "encerramento"}
  THEN [m EXCEPT !.estado = "encerrado", !.motivo = motivo,
                 !.presenca = "conectado", !.pronto = FALSE]
  ELSE [m EXCEPT !.estado = "encerrado", !.motivo = motivo]

Encerrar(membros, alvos, motivo) ==
  {IF m \in alvos THEN EncerrarVinculo(m, motivo) ELSE m : m \in membros}

PrimeiraOrdem(membros) ==
  CHOOSE o \in {m.ordem : m \in membros} : \A m \in membros : o <= m.ordem

(* Mutant: the orders of entry are compared the other way round.           *)
BugSucessor(ativos, saiu) ==
  CHOOSE o \in {m.ordem : m \in ativos} : \A m \in ativos : m.ordem <= o

(* sucederAnfitriao: the next active link in order of entry, else the      *)
(* first one of all.                                                       *)
Sucessor(ativos, saiu) ==
  LET depois == {m \in ativos : m.ordem > saiu}
  IN  IF depois # {} THEN PrimeiraOrdem(depois) ELSE PrimeiraOrdem(ativos)

(* Whether x comes strictly between a and b in the circle of the orders.   *)
EntreNoCiclo(a, x, b) ==
  IF a < b THEN a < x /\ x < b ELSE x > a \/ x < b

(* Mutant: nobody succeeds an Anfitrião that leaves.                       *)
BugAnfitriaoApos(sala, saidas) ==
  IF Ativos(sala) \ saidas = {} THEN SemAnfitriao ELSE sala.anfitriao

(* The Anfitrião of a Sala that the links saidas leave.                    *)
AnfitriaoApos(sala, saidas) ==
  LET restantes == Ativos(sala) \ saidas
  IN  CASE restantes = {} -> SemAnfitriao
        [] restantes # {} /\ sala.anfitriao \in {m.ordem : m \in saidas}
             -> Sucessor(restantes, sala.anfitriao)
        [] OTHER -> sala.anfitriao

(* Mutant: the Sala takes the reason of the exit for its final state.      *)
BugComSaida(sala, m, motivo, estadoFinal) ==
  [sala EXCEPT !.membros = Encerrar(@, {m}, motivo),
               !.estado = IF Ativos(sala) \ {m} = {} THEN motivo ELSE @,
               !.anfitriao = AnfitriaoApos(sala, {m})]

(* The link m leaves; the last one closes the Sala with estadoFinal.       *)
ComSaida(sala, m, motivo, estadoFinal) ==
  [sala EXCEPT !.membros = Encerrar(@, {m}, motivo),
               !.estado = IF Ativos(sala) \ {m} = {} THEN estadoFinal ELSE @,
               !.anfitriao = AnfitriaoApos(sala, {m})]

(* A link after a restart of the server, and after a return to the Sala.   *)
Reiniciado(m) ==
  IF m.estado = "ativo"
  THEN [m EXCEPT !.presenca = "em_reconexao", !.pronto = FALSE] ELSE m
(* Mutant: a return to the Sala also rewrites the links that ended.        *)
BugNaoPronto(m) == [m EXCEPT !.pronto = FALSE]
NaoPronto(m) == IF m.estado = "ativo" THEN [m EXCEPT !.pronto = FALSE] ELSE m

ComPresenca(sala, m, presenca) ==
  [sala EXCEPT !.membros = (@ \ {m}) \cup {[m EXCEPT !.presenca = presenca]}]

-----------------------------------------------------------------------------
(* One operator per command: the Sala the command leaves.                  *)

SalaCriada(j) ==
  [estado |-> "aberta", membros |-> {MembroAtivo(j, 1)}, proxima |-> 2,
   anfitriao |-> 1, bloqueados |-> {}, consistente |-> TRUE]

(* Mutants: the block list, and the last place, are not looked at.         *)
BugPodeEntrar(sala, j) ==
  AbertaConsistente(sala) /\ Cardinality(Ativos(sala)) < LimiteDeMembros
BugLotacao(sala, j) ==
  /\ AbertaConsistente(sala)
  /\ j \notin sala.bloqueados
  /\ Cardinality(Ativos(sala)) <= LimiteDeMembros

(* entrarNaSala, once neither this Sala nor another one has j active.      *)
PodeEntrar(sala, j) ==
  /\ AbertaConsistente(sala)
  /\ j \notin sala.bloqueados
  /\ Cardinality(Ativos(sala)) < LimiteDeMembros

(* Mutant: orders of entry count the active links, not the entries.        *)
BugComEntrada(sala, j) ==
  [sala EXCEPT !.membros = @ \cup {MembroAtivo(j, Cardinality(Ativos(sala)) + 1)},
               !.proxima = @ + 1]

ComEntrada(sala, j) ==
  [sala EXCEPT !.membros = @ \cup {MembroAtivo(j, sala.proxima)},
               !.proxima = @ + 1]

ComExpulsao(sala, alvo) ==
  [sala EXCEPT !.membros = Encerrar(@, {alvo}, "expulsao"),
               !.bloqueados = @ \cup {alvo.jogador}]

ComBotRemovido(sala, alvo) ==
  [sala EXCEPT !.membros = Encerrar(@, {alvo}, "expulsao")]

(* Mutant: expiration does not ask whether the Sala is forwarded.          *)
BugPodeExpirar(sala, m) ==
  sala.consistente /\ m \in Ativos(sala) /\ m.presenca = "em_reconexao"

PodeExpirar(sala, m) ==
  NaoEncaminhada(sala) /\ m \in Ativos(sala) /\ m.presenca = "em_reconexao"

ComReinicio(sala) ==
  [sala EXCEPT !.consistente = FALSE, !.membros = {Reiniciado(m) : m \in @}]

ComProntidaoAlternada(sala, m) ==
  [sala EXCEPT !.membros = (@ \ {m}) \cup {[m EXCEPT !.pronto = ~ @]}]

(* aceitarEncaminhamento: the composition at the commit is valid and is    *)
(* the one that was offered.                                               *)
PodeAceitar(sala, rosterOfertado) ==
  /\ AbertaConsistente(sala)
  /\ ComposicaoValida(sala)
  /\ JogadoresAtivos(sala) = rosterOfertado

SalaEncerrada(sala) ==
  [sala EXCEPT !.membros = Encerrar(@, Ativos(sala), "encerramento"),
               !.estado = "encerrada", !.anfitriao = SemAnfitriao]

(* Mutant: a return that everybody left still opens the Sala.              *)
BugPodeReabrir(sala, saidas) ==
  EncaminhadaConsistente(sala) /\ saidas \subseteq Ativos(sala)

(* reabrirSala when saidas is empty, reabrirSalaComSaidas otherwise.       *)
PodeReabrir(sala, saidas) ==
  /\ EncaminhadaConsistente(sala)
  /\ saidas \subseteq Ativos(sala)
  /\ saidas # {} => saidas # Ativos(sala)

SalaReaberta(sala, saidas) ==
  [sala EXCEPT !.membros = {NaoPronto(m) : m \in Encerrar(@, saidas, "saida")},
               !.estado = "aberta",
               !.anfitriao = AnfitriaoApos(sala, saidas)]
=============================================================================
