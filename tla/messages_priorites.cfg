SPECIFICATION SpecMessages
CONSTANTS
  NBPROC = 3
  PRIOS  = {1, 2}
  MODULO = 1
  DELAI  = 0
  NBQUEUE = 2
  MESSAGES = {1, 2}
  CAPACITES = {2}
  FANTOMES = 0
INVARIANTS
  ComptesJustes
PROPERTIES
  FilesFIFO
  InversionBornee
