SPECIFICATION SpecDaMesa
CONSTANTS
  Lado = 3
  Nada = Nada
  NumeroDeJogadores = 2
  Caixas <- UmaCaixa
  SanidadeMaxima = 1
  GeradoresNecessarios = 1
  CelulasDeInicio <- DoisCantos
  Giros <- SoHorario
  Desistentes = {2}
  RodadaMaxima = 2
  Bots = {2}
  Eu = 1
  Quedas = 1
CHECK_DEADLOCK FALSE
INVARIANTS
  EspelhoFiel
  OfertaAceita
  UiTemSaida
  CadeiaAoVivo
  EspelhoDoBotExato
  PilotoConclui
