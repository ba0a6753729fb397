SPECIFICATION SpecDaRede
CONSTANTS
  Jogadores = {j1, j2}
  Salas = {s1, s2}
  LimiteDeMembros = 3
  MinimoDeMembros = 2
  MaxOrdem = 2
  Nada = Nada
  MaxPedidos = 1
  MaxLotes = 2
  MaxCliques = 6
  MaxQuedas = 1
SYMMETRY Simetria
INVARIANTS
  AssociacaoUnica
  PaginaConverge
  SemVinculoFantasma
  FaseSegueSala
  PresencaSegueSocket
CHECK_DEADLOCK FALSE
