SPECIFICATION SpecEquitable
CONSTANTS
  NBPROC = 3
  PRIOS  = {1, 2}
  MODULO = 2
  DELAI  = 1
  NBR_MAX_BUFF = 2
  CARACTERES = {"a"}
  LONGUEURS = {1, 2}
  FANTOMES = 1
INVARIANTS
  LecteursInscrits
PROPERTIES
  LectureFinie
  SommeilFini
  TourDeRole
