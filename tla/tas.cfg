SPECIFICATION Spec
CONSTANTS
  DEBUT = 1
  FIN = 16
  PAGE = 2
  LOG_LARGE = 2
  NBINS = 5
  MXFAST = 2
  SEUIL = 5
  TRIM = 4
  HORS_LIMITE = 200
  DEMANDES = {4, 28, 200}
  ALIGNEMENTS = {3}
  LIMITES = {12, 20}
  LOTS <- MesLots
  DEPARTS <- MesDeparts
  FIXE = 1
  MAX_BLOCS = 1
INVARIANTS
  Pavage
  BacsExacts
  EchecJustifie
  CompteExact
PROPERTIES
  BlocsDisjoints
