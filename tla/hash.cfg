SPECIFICATION SpecHash
CONSTANTS
  CLES <- MesCles
  HACHE <- MonHachage
  VALEURS = {1, 2}
  HASH_MINSIZE = 4
  DOUBLEMENTS = 2
  ECHECS = 1
INVARIANTS
  RechercheFinie
  RechercheExacte
PROPERTIES
  EstUnDictionnaire
