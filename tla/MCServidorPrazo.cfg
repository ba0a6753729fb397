SPECIFICATION Spec
CONSTANTS
  Jogadores = {j1, j2}
  Bots = {}
  Ninguem = ninguem
  Abas = {1}
  LimiteDeMembros = 2
  MinimoDeMembros = 2
  MaxOrdem = 2
  MaxFila = 1
  MaxPartidas = 1
  MaxFalhas = 0
  MaxQuedas = 0
CHECK_DEADLOCK FALSE
INVARIANTS
  AusenteTemPrazo
