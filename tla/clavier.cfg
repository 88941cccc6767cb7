SPECIFICATION Spec
CONSTANTS
  TOUCHES = {15, 16, 28, 42, 54, 56, 58, 69, 70, 71, 72, 96, 97, 100, 103, 119}
  MAX_TENUES = 3
  NPAD = 17
INVARIANTS
  EtatFidele
PROPERTIES
  EnvoiJuste
