SPECIFICATION Spec
CONSTANTS
  Lado = 5
  Nada = Nada
  NumeroDeJogadores = 2
  Caixas <- Baralho
  SanidadeMaxima = 1
  GeradoresNecessarios = 1
  CelulasDeInicio <- Inicios
  Giros <- SoHorario
  Desistentes = {}
  RodadaMaxima = 6
CHECK_DEADLOCK FALSE
CONSTRAINT Historia
INVARIANTS
  TravessiaFechaNoMonstro
