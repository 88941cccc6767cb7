CONSTANTS BITS = 6 LIGNES = 3 COLONNES = 4 TABULATION = 2 PRINTF_BUFMAX = 2 MAX_PAPIER = 8 MAX_OPERATIONS = 3
  NBR_MAX_BUFF = 2 MAX_SPRINTF = {3, 20}
  FORMATS <- mcFormats DIRECTIVES <- mcDirectives
  MOT = 2 TAILLE = 5 OCTETS = {0, 1, 2} QUART = 2 MULTIPLIER = 109 ADDEND = 11
SPECIFICATION SpecTout
INVARIANTS Fenetre Relisible BibliothequeExacte
CHECK_DEADLOCK FALSE
