----------------------------- MODULE Allocateur -----------------------------
(***************************************************************************)
(* What an allocator promises: blocks that do not overlap, inside the      *)
(* memory it has obtained, each as long as was asked and aligned; a block  *)
(* changes or disappears only when its owner says so.  Addresses and       *)
(* lengths are in bytes.                                                   *)
(***************************************************************************)
EXTENDS Integers, Sequences, TLC

CONSTANT ALIGNEMENT

VARIABLES
  blocs,      \* address -> length of the blocks held
  limites     \* <<first, last + 1>> bytes of the memory obtained

vars == <<blocs, limites>>

Convient(b, a, n) ==
  /\ a % ALIGNEMENT = 0
  /\ limites'[1] <= a /\ a + n <= limites'[2]
  /\ \A c \in DOMAIN b : a + n <= c \/ c + b[c] <= a

Sans(S) == [c \in DOMAIN blocs \ S |-> blocs[c]]

Init ==
  \A a \in DOMAIN blocs :
    /\ a % ALIGNEMENT = 0 /\ limites[1] <= a /\ a + blocs[a] <= limites[2]
    /\ \A c \in DOMAIN blocs : a < c => a + blocs[a] <= c

(* Blocks R are given back, blocks of N are obtained where nothing else is.*)
Echanger(R, N) ==
  /\ \A a \in DOMAIN N : Convient(Sans(R), a, N[a])
  /\ \A a, c \in DOMAIN N : a < c => a + N[a] <= c
  /\ blocs' = N @@ Sans(R)

(* At most one block is given back by a call; what is obtained is what the *)
(* new blocks are.                                                         *)
Appel ==
  /\ limites'[1] = limites[1] /\ limites'[2] >= limites[2]
  /\ \E R \in {{}} \cup {{c} : c \in DOMAIN blocs} :
       Echanger(R, [a \in {x \in DOMAIN blocs' : x \notin DOMAIN blocs \/ x \in R} |-> blocs'[a]])

Spec == Init /\ [][Appel]_vars
=============================================================================
