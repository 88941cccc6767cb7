---------------------------- MODULE Dictionnaire ----------------------------
(***************************************************************************)
(* What kernel/hash.h promises: a partial function from keys to values.    *)
(* Module Hash implements it.                                              *)
(***************************************************************************)
CONSTANTS CLES, VALEURS

VARIABLE valeur     \* its domain: the keys present

Init == valeur = [k \in {} |-> CHOOSE v \in VALEURS : TRUE]

Associer(k, v) ==
  valeur' = [x \in DOMAIN valeur \cup {k} |-> IF x = k THEN v ELSE valeur[x]]

Retirer(k) == valeur' = [x \in DOMAIN valeur \ {k} |-> valeur[x]]

Oublier == valeur' = [x \in {} |-> CHOOSE v \in VALEURS : TRUE]

Next == Oublier \/ \E k \in CLES : Retirer(k) \/ \E v \in VALEURS : Associer(k, v)

Spec == Init /\ [][Next]_valeur
=============================================================================
