SPECIFICATION Spec
CONSTANTS
  a1 = a1
  a2 = a2
  n1 = n1
  n2 = n2
  Abas = {a1, a2}
  Navegadores = {n1, n2}
  Disposicoes <- JuntasOuNao
  Canal <- LobbyEJogo
  MaxSaltos = 1
  MaxSessoes = 2
  MaxFalhas = 1
CHECK_DEADLOCK FALSE
PROPERTIES
  LogoutLegitimo
