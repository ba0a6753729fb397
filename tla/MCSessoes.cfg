SPECIFICATION SpecJusta
CONSTANTS
  a1 = a1
  a2 = a2
  n1 = n1
  n2 = n2
  Abas = {a1, a2}
  Navegadores = {n1, n2}
  Disposicoes <- JuntasOuNao
  Canal <- LobbyEJogo
  MaxSaltos = 1
  MaxSessoes = 3
  MaxFalhas = 1
CONSTRAINT Orcamento
CHECK_DEADLOCK FALSE
INVARIANTS
  SessaoUnica
  JarraEmDia
PROPERTIES
  RevalidacaoPreserva
  SocketVencidoFecha
