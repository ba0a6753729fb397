--------------------------- MODULE MCLobbyEngine ----------------------------
(* Small instance of LobbyEngine: Players and Salas are interchangeable.   *)
EXTENDS LobbyEngine, TLC
Simetria == Permutations(Jogadores) \cup Permutations(Salas)
=============================================================================
