SPECIFICATION SpecJusta
CONSTANTS
  Jogadores = {j1, j2}
  Bots = {j2}
  Ninguem = ninguem
  Abas = {1}
  LimiteDeMembros = 2
  MinimoDeMembros = 2
  MaxOrdem = 2
  MaxFila = 1
  MaxPartidas = 0
  MaxFalhas = 0
  MaxQuedas = 1
CHECK_DEADLOCK FALSE
PROPERTIES
  AusenciaTermina
INVARIANTS
  AusenteTemPrazo
