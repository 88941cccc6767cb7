SPECIFICATION SpecSuivie
CONSTANTS
  TETES = {g, h}
  STABLES = {g}
  ELEMS = {a, b, c, d}
  NUL   = nul
  PRIOS = {1, 2}
INVARIANTS
  Represente
PROPERTIES
  ParPriorite
