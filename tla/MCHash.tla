------------------------------- MODULE MCHash -------------------------------
(***************************************************************************)
(* The hash table for TLC.  The keys "00" and "2r" have the same hash      *)
(* code, "0@" collides with them in tables of 4, 8 and 16 slots, the       *)
(* others bring other high bits into the probe sequence.                   *)
(***************************************************************************)
EXTENDS HashProp, Bitwise

MesCles == {"00", "2r", "0@", "abc", "a"}

MonHachage ==
  [k \in MesCles |-> CASE k = "00" -> 5859333 [] k = "2r" -> 5859333 [] k = "0@" -> 5859445
                       [] k = "abc" -> 193409669 [] k = "a" -> 177604]

(* Their codes, which TLC would compute again at every probe. *)
Caracteres ==
  [k \in MesCles |-> CASE k = "00" -> <<48, 48>> [] k = "2r" -> <<50, 114>>
                       [] k = "0@" -> <<48, 64>> [] k = "abc" -> <<97, 98, 99>>
                       [] k = "a" -> <<97>>]

hash_string_hfunc(key) ==
  FoldLeft(LAMBDA hash, c : (32 * hash + hash) ^^ c, 5381, key)

ASSUME \A k \in MesCles : HACHE[k] = hash_string_hfunc(Caracteres[k])
=============================================================================
