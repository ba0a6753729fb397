SPECIFICATION SpecDaMesa
CONSTANTS
  Lado = 3
  Nada = Nada
  NumeroDeJogadores = 2
  Caixas <- CaixaDoBot
  SanidadeMaxima = 3
  GeradoresNecessarios = 1
  CelulasDeInicio <- DoisCantos
  Giros <- SoHorario
  Desistentes = {}
  RodadaMaxima = 3
  Bots = {1}
  Eu = 2
  Quedas = 0
CHECK_DEADLOCK FALSE
INVARIANTS
  MonstroNaoTravaOBot
