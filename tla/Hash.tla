-------------------------------- MODULE Hash --------------------------------
(***************************************************************************)
(* The open-addressing hash table of kernel/hash.c, keyed by strings, in   *)
(* which start looks up the programs.  A table m is a record: table, from  *)
(* slot number to slot; fill, the slots that are not EMPTY; count, the     *)
(* ACTIVE ones.  The number of slots (mask+1) is the size of the domain of *)
(* table, a power of two.                                                  *)
(*                                                                         *)
(* HACHE[k] is the unsigned 32-bit hash code of key k, which slots do not  *)
(* keep.  The probe index is never masked in the code, which changes       *)
(* nothing modulo the number of slots.                                     *)
(*                                                                         *)
(* Definitions named X_... are mutated forms of X, used only to check that *)
(* the properties would notice such a slip.                                *)
(***************************************************************************)
EXTENDS Integers, Sequences, SequencesExt, FiniteSets

CONSTANTS
  CLES, VALEURS,
  HACHE,           \* hfunc
  HASH_MINSIZE,    \* 8 in the code
  DOUBLEMENTS,     \* bound: how often the table grows beyond its first size
  ECHECS           \* bound: failed allocations in a row

(* More failures in a row may fill the table: hash.c:128-130. *)
ASSUME HashAssumption ==
  /\ HACHE \in [CLES -> Nat] /\ \A k \in CLES : HACHE[k] \div 2 <= 2147483647
  /\ HASH_MINSIZE \in {2, 4, 8, 16}
  /\ DOUBLEMENTS \in Nat
  /\ ECHECS \in Nat /\ 3 * ECHECS <= HASH_MINSIZE

VARIABLES
  map,      \* the table programmes
  echecs    \* resizings that mem_alloc made fail since one was last possible

varsHash == <<map, echecs>>

Vide     == [mode |-> "SL_EMPTY"]
Supprime == [mode |-> "SL_DELETED"]
Actif(k, v) == [mode |-> "SL_ACTIVE", key |-> k, value |-> v]

Slots == {Vide, Supprime} \cup {Actif(k, v) : k \in CLES, v \in VALEURS}

Taille(m) == Cardinality(DOMAIN m.table)

hash_string_cmp(key1, key2) == key1 = key2

hash_initialize(size) ==
  [table |-> [i \in 0..size-1 |-> Vide], fill |-> 0, count |-> 0]

(* What hash_destroy leaves: no call but hash_init_string may follow.      *)
Detruite == [table |-> << >>, fill |-> 0, count |-> 0]

Utilisable == map # Detruite

InitHash == map = hash_initialize(HASH_MINSIZE) /\ echecs = 0

-----------------------------------------------------------------------------
(* The slots hash_lookup probes for k in a table of t slots: after 7       *)
(* shifts of 5 bits nothing is left of a 32-bit hash, and 5i+1 then runs   *)
(* through every slot.                                                     *)
Tailles ==
  LET taille[i \in 0..DOUBLEMENTS] == IF i = 0 THEN HASH_MINSIZE ELSE 2 * taille[i-1]
  IN {taille[i] : i \in 0..DOUBLEMENTS}

Essais(t) == 0..t+7

Sonde_Lineaire ==
  [t \in Tailles |-> [k \in CLES |->
     LET index[n \in Essais(t)] ==
           IF n = 0 THEN HACHE[k] % t ELSE (index[n-1] + 2) % t
     IN index]]

Perturbation ==
  [k \in CLES |->
     LET perturb[n \in 0..6] == IF n = 0 THEN HACHE[k] ELSE perturb[n-1] \div 32
     IN perturb]

Sonde ==
  [t \in Tailles |-> [k \in CLES |->
     LET index[n \in Essais(t)] ==
           IF n = 0 THEN HACHE[k] % t
           ELSE IF n <= 7 THEN (5 * index[n-1] + Perturbation[k][n-1] + 1) % t
           ELSE (5 * index[n-1] + 1) % t
     IN index]]

Contient(m, i, k) == m.table[i].mode = "SL_ACTIVE" /\ hash_string_cmp(m.table[i].key, k)

(* The loop stops on probe n: k's slot, or an EMPTY slot.                  *)
Arret(m, k, n) ==
  LET i == Sonde[Taille(m)][k][n] IN m.table[i] = Vide \/ Contient(m, i, k)

SansFin(m, k) == \A n \in Essais(Taille(m)) : ~Arret(m, k, n)

DernierEssai(m, k) ==
  CHOOSE n \in Essais(Taille(m)) : Arret(m, k, n) /\ \A j \in 0..n-1 : ~Arret(m, k, j)

(* k's slot; or the first DELETED slot met, else the EMPTY one.            *)
hash_lookup_PremierLibre(m, k) ==
  LET index  == Sonde[Taille(m)][k]
      libres == {n \in 0..DernierEssai(m, k) : m.table[index[n]] = Supprime}
  IN index[IF libres = {} THEN DernierEssai(m, k) ELSE Min(libres)]

hash_lookup(m, k) ==
  LET index  == Sonde[Taille(m)][k]
      fin    == DernierEssai(m, k)
      libres == {n \in 0..fin : m.table[index[n]] = Supprime}
  IN IF Contient(m, index[fin], k) \/ libres = {} THEN index[fin] ELSE index[Min(libres)]

(* hash_copy: the ACTIVE slots of an old table, in order.                  *)
Recopier(m, slot) ==
  IF slot.mode # "SL_ACTIVE" THEN m
  ELSE [m EXCEPT !.table[hash_lookup(m, slot.key)] = slot, !.fill = @ + 1, !.count = @ + 1]

hash_copy(m, old) ==
  LET copie[i \in 0..Taille(old)] ==
        IF i = 0 THEN m ELSE Recopier(copie[i-1], old.table[i-1])
  IN copie[Taille(old)]

NouvelleTaille(m) ==
  IF 3 * m.fill >= 2 * Taille(m) THEN 2 * Taille(m)
  ELSE IF Taille(m) > HASH_MINSIZE /\ 4 * m.count <= Taille(m) THEN Taille(m) \div 2
  ELSE Taille(m)

(* A failed allocation leaves the table as it is; hash_set and hash_del    *)
(* then return -1, although they have changed their slot.                  *)
hash_update(m) ==
  \/ /\ NouvelleTaille(m) \in Tailles
     /\ map' = IF NouvelleTaille(m) = Taille(m) THEN m
               ELSE hash_copy(hash_initialize(NouvelleTaille(m)), m)
     /\ echecs' = 0
  \/ /\ NouvelleTaille(m) # Taille(m)
     /\ echecs < ECHECS
     /\ map' = m
     /\ echecs' = echecs + 1

-----------------------------------------------------------------------------
hash_destroy == Utilisable /\ map' = Detruite /\ echecs' = 0

(* A failed allocation leaves the destroyed table as it is.                *)
hash_init_string ==
  /\ ~Utilisable
  /\ UNCHANGED echecs
  /\ map' \in {map, hash_initialize(HASH_MINSIZE)}

hash_isset(m, k) == m.table[hash_lookup(m, k)].mode = "SL_ACTIVE"

hash_get(m, k, default_value) ==
  LET slot == m.table[hash_lookup(m, k)]
  IN IF slot.mode = "SL_ACTIVE" THEN slot.value ELSE default_value

(* hash_lookup does not return when no probe stops it.                     *)
hash_set(k, v) ==
  /\ Utilisable
  /\ ~SansFin(map, k)
  /\ LET i == hash_lookup(map, k)
     IN IF Contient(map, i, k)
        THEN map' = [map EXCEPT !.table[i] = Actif(k, v)] /\ UNCHANGED echecs
        ELSE hash_update([map EXCEPT !.table[i] = Actif(k, v), !.count = @ + 1,
                            !.fill = IF map.table[i] = Vide THEN @ + 1 ELSE @])

hash_del_Vidage(k) ==
  /\ Utilisable
  /\ ~SansFin(map, k)
  /\ LET i == hash_lookup(map, k)
     IN IF ~Contient(map, i, k) THEN UNCHANGED varsHash
        ELSE hash_update([map EXCEPT !.table[i] = Vide, !.count = @ - 1, !.fill = @ - 1])

hash_del(k) ==
  /\ Utilisable
  /\ ~SansFin(map, k)
  /\ LET i == hash_lookup(map, k)
     IN IF ~Contient(map, i, k) THEN UNCHANGED varsHash
        ELSE hash_update([map EXCEPT !.table[i] = Supprime, !.count = @ - 1])

NextHash ==
  \/ \E k \in CLES : hash_del(k) \/ \E v \in VALEURS : hash_set(k, v)
  \/ hash_destroy
  \/ hash_init_string

SpecHash == InitHash /\ [][NextHash]_varsHash
=============================================================================
