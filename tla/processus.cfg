SPECIFICATION Spec
CONSTANTS
  NBPROC = 4
  PRIOS  = {1, 2}
  MODULO = 3
  DELAI  = 1
INVARIANTS
  TypeOK
  EtatEtFile
  ActifPrioritaire
  Filiation
  WaitpidSansPerte
PROPERTY
  ZombieAttendSonPere
