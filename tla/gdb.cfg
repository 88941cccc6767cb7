CONSTANTS BUFMAX = 14 REGISTRES = 3 EIP = 2 EFLAGS = 3 TAILLE = 5 MAX_COMMANDES = 2 MAX_FAUTES = 1 MAX_ECRITS = 1
  TEXTES <- mcTextes
  TRAPPES = {1, 3} CONTENU <- mcContenu COMMANDES <- mcCommandes
SPECIFICATION Spec
INVARIANTS CommandesFideles ReponseJuste MiroirExact
PROPERTIES Servi
CHECK_DEADLOCK FALSE
