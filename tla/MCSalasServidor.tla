--------------------------- MODULE MCSalasServidor ---------------------------
(* The instances of SalasServidor that TLC checks.  Players are            *)
(* interchangeable when none of them is a bot.                             *)
EXTENDS SalasServidor, TLC

Simetria == Permutations(Jogadores)
=============================================================================
