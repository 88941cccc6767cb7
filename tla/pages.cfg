SPECIFICATION SpecPages
CONSTANTS
  NBPROC = 4
  PRIOS = {1}
  MODULO = 1
  DELAI = 0
  BITS_PAGE = 1
  BITS_TABLE = 2
  BITS_REPERTOIRE = 5
  NNOYAU = 7
  PGTAB = 29
  PGDIR = 28
  TAS = {11, 12, 13, 14, 15, 16, 17, 18, 19, 20, 21, 22, 23, 24, 25}
  SECTIONS <- MesSections
  NBPAGES = 8
  TAILLES = {1, 5}
  DEMARRAGES = 3
INVARIANTS
  PagesUneFois
  EspacesDisjoints
  NoyauCommun
  TablesRendues
  CopieExacte
