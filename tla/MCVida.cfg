SPECIFICATION Spec
CONSTANTS
  j1 = j1
  j2 = j2
  j3 = j3
  s1 = s1
  s2 = s2
  s3 = s3
  s4 = s4
  Nada = Nada
  Jogadores = {j1, j2, j3}
  Encaminhados = {j1, j2}
  Reunidos = {j1, j2, j3}
  Soquetes = {s1, s2, s3, s4}
  Dono <- DonoDasAbas
  MaxConexoes = 3
  MaxQuedas = 1
  MaxVoo = 2
  MaxOrfaos = 1
INVARIANTS
  PresencaSegueRegistro
  SalaAbertaSemPartida
  RetornoReabre
  NinguemEmPartidaCancelada
PROPERTIES
  PendenteNaoEspera
  PreparadaResolve
  AusenciaConverte
  TerminoReabre
CONSTRAINT Orcamento
CHECK_DEADLOCK FALSE
