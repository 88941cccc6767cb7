SPECIFICATION SpecMessages
CONSTANTS
  NBPROC = 4
  PRIOS  = {1}
  MODULO = 1
  DELAI  = 0
  NBQUEUE = 1
  MESSAGES = {1}
  CAPACITES = {2}
  FANTOMES = 1
INVARIANTS
  EntreesFideles
  EmetteurInscrit
