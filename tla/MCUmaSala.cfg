SPECIFICATION Spec
CONSTANTS
  Jogadores = {j1, j2, j3, j4}
  Salas = {s1}
  LimiteDeMembros = 3
  MinimoDeMembros = 2
  MaxOrdem = 4
SYMMETRY Simetria
INVARIANTS
  TypeOK
  AnfitriaoMaisAntigo
PROPERTIES
  SucessaoCircular
  VinculoNaoRevive
  ImplementaCiclo
CHECK_DEADLOCK FALSE
