----------------------------- MODULE MCPartida ------------------------------
(* The instances of BotDaPartida that TLC checks: a torus of 3 x 3 cells   *)
(* and a few shuffles of a short Caixa, chosen for what they make happen.  *)
EXTENDS BotDaPartida

Embaralhada(tipos) == [i \in DOMAIN tipos |-> <<tipos[i], i>>]

(* Rescue, both monsters, a crossing that draws one, frightened Players    *)
(* that are skipped; Proteção that spares its owner and a piece to turn.   *)
CaixasComMonstros ==
  {Embaralhada(<<"sala_medica", "vulto", "portao_de_saida", "espectro", "vulto">>),
   Embaralhada(<<"T", "sala_medica", "vulto", "gerador", "espectro">>),
   Embaralhada(<<"sala_medica", "vulto", "T", "gerador", "espectro">>)}

(* The three goals and the Portão: victory, and a Vulto that gives back    *)
(* what was drawn beside it.                                               *)
CaixaDosObjetivos ==
  {Embaralhada(<<"vulto", "gerador", "espectro", "sala_do_diretor", "portao_de_saida">>)}
TodasAsCaixas == CaixasComMonstros \cup CaixaDosObjetivos

(* A diagonal: the draws of one Player never take the cell of another.     *)
Diagonal == {<<i, i>> : i \in 0 .. Lado - 1}
SoHorario == {Horario}

(* Where the first Peça Inicial lies makes no difference: moving the torus *)
(* along the diagonal takes every match to one that starts in this corner. *)
Canto == <<"inicial", 1>> \in Mesa(tab) => CelulaDe(tab, <<"inicial", 1>>) = <<0, 0>>
=============================================================================
