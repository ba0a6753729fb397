---------------------------- MODULE MCTravessia -----------------------------
(* One story of a match of two Players on a torus of 5 x 5 cells: Player 1 *)
(* is frightened and in Baixa, Player 2, in Baixa as well, comes to the    *)
(* rescue, which leaves them on a piece in its graça, and one of them      *)
(* crosses the dark into the last monster. Historia only says which cell   *)
(* each piece of the Caixa is put on; everything else is free.             *)
EXTENDS Partida

Baralho ==
  {[i \in 1..12 |->
     <<<<"vulto", "espectro", "cruz", "reta", "cruz", "reta",
         "reta", "vulto", "reta", "vulto", "reta", "reta">>[i], i>>]}
Inicios == {<<0, 0>>, <<2, 1>>}
SoHorario == {Horario}

Lugar ==
  <<<<4, 0>>, <<0, 1>>, <<1, 1>>, <<2, 2>>, <<0, 1>>,
    <<1, 2>>, <<1, 0>>, <<0, 2>>, <<4, 1>>, <<4, 0>>>>

NoLugar(p, celula) ==
  IF EhInicial(p) THEN celula = IF p[2] = 1 THEN <<0, 0>> ELSE <<2, 1>>
  ELSE p[2] \in DOMAIN Lugar /\ celula = Lugar[p[2]]

Historia ==
  /\ \A p \in Mesa(tab) : NoLugar(p, CelulaDe(tab, p))
  /\ \A r \in Pendentes(tab) :
       tab.recebidas[r].alvo # Nada => NoLugar(r, tab.recebidas[r].alvo)
=============================================================================
