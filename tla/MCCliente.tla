----------------------------- MODULE MCCliente ------------------------------
(* The instances of JogadorBot: one person, one bot, a torus of 3 x 3      *)
(* cells.  In the first one a Vulto darkens the person, who then crosses;  *)
(* in the second one the bot, whose crossing draws an Espectro.            *)
EXTENDS JogadorBot

Embaralhada(tipos) == [i \in DOMAIN tipos |-> <<tipos[i], i>>]
UmaCaixa == {Embaralhada(<<"sala_medica", "vulto", "T", "espectro">>)}
CaixaDoBot == {Embaralhada(<<"cruz", "vulto", "cruz", "espectro", "cruz">>)}
DoisCantos == {<<0, 0>>, <<1, 1>>}
SoHorario == {Horario}
=============================================================================
