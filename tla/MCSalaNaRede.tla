---------------------------- MODULE MCSalaNaRede ----------------------------
(* SalaNaRede with interchangeable Players and interchangeable Salas.      *)
EXTENDS SalaNaRede, TLC

Simetria == Permutations(Jogadores) \cup Permutations(Salas)
=============================================================================
