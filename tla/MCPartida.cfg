SPECIFICATION SpecComBots
CONSTANTS
  Lado = 3
  Nada = Nada
  NumeroDeJogadores = 3
  Caixas <- TodasAsCaixas
  SanidadeMaxima = 1
  GeradoresNecessarios = 1
  CelulasDeInicio <- Diagonal
  Giros <- SoHorario
  Desistentes = {3}
  RodadaMaxima = 3
  Bots = {1, 2}
CHECK_DEADLOCK FALSE
CONSTRAINT Canto
INVARIANTS
  EncaixeConectado
  LuzEmDia
  UmaCasaPorTurno
  TurnoTemSaida
  OcupacaoTolerada
  BotExato
  BotSoTravaNaGraca
PROPERTIES
  PassagemDeVez
