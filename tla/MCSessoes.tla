------------------------------ MODULE MCSessoes -----------------------------
(* Two tabs of the Jogador, in the lobby and in a match, in one browser or *)
(* in two.                                                                 *)
EXTENDS Sessoes

CONSTANTS a1, a2, n1, n2

JuntasOuNao == {a1 :> n1 @@ a2 :> n1, a1 :> n1 @@ a2 :> n2}
LobbyEJogo == a1 :> "lobby" @@ a2 :> "jogo"

(* Three sessions while nothing fails, or two and a failure.               *)
Orcamento == proxima - 1 + falhas <= 3
=============================================================================
