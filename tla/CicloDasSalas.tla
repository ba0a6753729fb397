--------------------------- MODULE CicloDasSalas ----------------------------
(***************************************************************************)
(* What the lobby promises about Salas, without links, orders of entry,    *)
(* presence or restarts: which phase a Sala is in, which Players occupy it *)
(* and which one of them is its Anfitrião.  LobbyEngine implements it.     *)
(*                                                                         *)
(* CONTEXT.md (Sala, Membro, Anfitrião, Encaminhamento, Retorno à Sala):   *)
(* nobody occupies two Salas; a Sala is joined only while it is open; a    *)
(* forwarded Sala only loses occupants, and comes back open or ends; the   *)
(* Anfitrião stays until leaving and is succeeded by an occupant; a Sala   *)
(* without occupants is over, for good.                                    *)
(***************************************************************************)
EXTENDS Naturals, FiniteSets

CONSTANTS Salas, Jogadores, LimiteDeMembros, MinimoDeMembros

VARIABLES
  fase,       (* [Salas -> phase]                                          *)
  ocupantes,  (* [Salas -> SUBSET Jogadores]                               *)
  anfitriao   (* [Salas -> SUBSET Jogadores]: empty or one occupant        *)

vars == <<fase, ocupantes, anfitriao>>

Livre(j) == \A s \in Salas : j \notin ocupantes[s]

Init ==
  /\ fase = [s \in Salas |-> "inexistente"]
  /\ ocupantes = [s \in Salas |-> {}]
  /\ anfitriao = [s \in Salas |-> {}]

Passa(s, f, ocup, anf) ==
  /\ fase' = [fase EXCEPT ![s] = f]
  /\ ocupantes' = [ocupantes EXCEPT ![s] = ocup]
  /\ anfitriao' = [anfitriao EXCEPT ![s] = anf]

Abrir(s, j) ==
  /\ fase[s] = "inexistente" /\ Livre(j)
  /\ Passa(s, "aberta", {j}, {j})

Admitir(s, j) ==
  /\ fase[s] = "aberta" /\ Livre(j)
  /\ Cardinality(ocupantes[s]) < LimiteDeMembros
  /\ Passa(s, "aberta", ocupantes[s] \cup {j}, anfitriao[s])

(* The occupants saem leave and the Sala, in phase f, keeps the others:    *)
(* the Anfitrião changes only by leaving.                                  *)
Ficam(s, saem, f) ==
  /\ saem \subseteq ocupantes[s] /\ saem # ocupantes[s]
  /\ \E h \in ocupantes[s] \ saem :
       /\ anfitriao[s] \subseteq saem \cup {h}
       /\ Passa(s, f, ocupantes[s] \ saem, {h})

Sair(s) ==
  /\ fase[s] \in {"aberta", "encaminhada"}
  /\ \E j \in ocupantes[s] : Ficam(s, {j}, fase[s])

Esvaziar(s) ==
  /\ fase[s] \in {"aberta", "encaminhada"}
  /\ fase[s] = "encaminhada" => Cardinality(ocupantes[s]) = 1
  /\ Passa(s, "encerrada", {}, {})

Encaminhar(s) ==
  /\ fase[s] = "aberta"
  /\ Cardinality(ocupantes[s]) \in MinimoDeMembros .. LimiteDeMembros
  /\ Passa(s, "encaminhada", ocupantes[s], anfitriao[s])

Reabrir(s) ==
  /\ fase[s] = "encaminhada"
  /\ \E saem \in SUBSET ocupantes[s] : Ficam(s, saem, "aberta")

Next ==
  \E s \in Salas :
    \/ \E j \in Jogadores : Abrir(s, j) \/ Admitir(s, j)
    \/ Sair(s)
    \/ Esvaziar(s)
    \/ Encaminhar(s)
    \/ Reabrir(s)

Spec == Init /\ [][Next]_vars
=============================================================================
