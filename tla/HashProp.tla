------------------------------ MODULE HashProp ------------------------------
(***************************************************************************)
(* What the hash table must satisfy.                                       *)
(***************************************************************************)
EXTENDS Hash

(* The loop of hash_lookup, which has no other exit, always meets the key  *)
(* or an EMPTY slot, although deletions never make a slot EMPTY again, the *)
(* table may be about to shrink, and an allocation may just have failed    *)
(* (several in a row may fill the table: hash.c:128-130); and the counters  *)
(* by which the table is resized agree with its slots.                     *)
RechercheFinie ==
  /\ Utilisable => \A k \in CLES : ~SansFin(map, k)
  /\ map.fill = Cardinality({i \in DOMAIN map.table : map.table[i] # Vide})
  /\ map.count = Cardinality({i \in DOMAIN map.table : map.table[i].mode = "SL_ACTIVE"})

(* A key is in one slot at most, and hash_lookup finds it there, whatever  *)
(* insertions, deletions and resizings placed other keys on its path; so   *)
(* hash_isset and hash_get answer for every key from the slots alone, a    *)
(* key with the same hash code never being taken for it.                   *)
RechercheExacte ==
  /\ \A i \in DOMAIN map.table :
       map.table[i].mode = "SL_ACTIVE" =>
         ~SansFin(map, map.table[i].key) /\ hash_lookup(map, map.table[i].key) = i
  /\ Utilisable =>
       \A k \in CLES :
         LET places == {i \in DOMAIN map.table : Contient(map, i, k)}
         IN /\ hash_isset(map, k) <=> places # {}
            /\ \A i \in places : hash_get(map, k, 0) = map.table[i].value
            /\ places = {} => hash_get(map, k, 0) = 0

(* hash_set and hash_del change the association of their key and no other  *)
(* (module Dictionnaire), across every resizing; hash_destroy forgets all. *)
Presentes(m) == {k \in CLES : \E i \in DOMAIN m.table : Contient(m, i, k)}

SlotDe(m, k) == CHOOSE i \in DOMAIN m.table : Contient(m, i, k)

Association(m) == [k \in Presentes(m) |-> m.table[SlotDe(m, k)].value]

Promesse == INSTANCE Dictionnaire WITH valeur <- Association(map)

EstUnDictionnaire == Promesse!Spec
=============================================================================
