------------------------------ MODULE TasProp ------------------------------
(***************************************************************************)
(* What the allocator must satisfy.                                        *)
(***************************************************************************)
EXTENDS Tas

Chunks == DOMAIN tas.tete \ {tas.top}

Rapides == UNION {Range(tas.vite[t]) : t \in DOMAIN tas.vite}

Suivant(c) == c + tas.tete[c].t

(* The heap is tiled by the chunks and the top, from its start to what sbrk*)
(* gave; each chunk is either held by a program, or in one fast bin, or    *)
(* free, and is long enough for its owner.                                 *)
Decoupe ==
  /\ tas.sbrked = tas.brk - DEBUT
  /\ (tas.top = NUL) <=> (DOMAIN tas.tete = {})
  /\ tas.top # NUL =>
       /\ DEBUT \in DOMAIN tas.tete
       /\ \A c \in DOMAIN tas.tete : tas.tete[c].t >= IF c = tas.top THEN 1 ELSE MINSIZE
       /\ {Suivant(c) : c \in DOMAIN tas.tete} = (DOMAIN tas.tete \ {DEBUT}) \cup {tas.brk}
       /\ Suivant(tas.top) = tas.brk
  /\ Chunks = DOMAIN alloues \cup Rapides \cup Libres(tas)
  /\ DOMAIN alloues \cap (Rapides \cup Libres(tas)) = {} /\ Rapides \cap Libres(tas) = {}
  /\ \A c \in DOMAIN alloues : alloues[c] <= mUSABLe(tas, c)

(* The bit of a header says whether the chunk before is free; if it is,    *)
(* its size is written there too.  Fast chunks look used.                  *)
BitsExacts ==
  \A c \in Chunks : tas.tete[Suivant(c)] = 
     Tete(tas.tete[Suivant(c)].t, c \notin Libres(tas),
          IF c \in Libres(tas) THEN tas.tete[c].t ELSE 0)

(* Two free chunks are never neighbours, and none borders the top: what is *)
(* freed is merged at once, or when the fast chunks are.                   *)
SansVoisinsLibres == \A c \in Libres(tas) : Suivant(c) \notin Libres(tas) \cup {tas.top}

(* Whatever was split, merged, trimmed or moved, the boundary tags that    *)
(* malloc, free and realloc walk by describe the heap as it is.            *)
Pavage == Decoupe /\ BitsExacts /\ SansVoisinsLibres

(* Each free chunk is in one list, the one of its size; large bins are     *)
(* sorted; a bin that holds a chunk is marked; fast chunks are known to    *)
(* exist.                                                                  *)
BacsExacts ==
  /\ \A i \in DOMAIN tas.bacs : IsInjective(tas.bacs[i])
  /\ \A i, j \in DOMAIN tas.bacs : i # j => Range(tas.bacs[i]) \cap Range(tas.bacs[j]) = {}
  /\ \A i \in DOMAIN tas.bacs \ {1} :
       /\ tas.bacs[i] # << >> => i \in tas.binmap
       /\ \A k \in DOMAIN tas.bacs[i] : bin_index(tas.tete[tas.bacs[i][k]].t) = i
       /\ \A k, l \in DOMAIN tas.bacs[i] :
            k < l => tas.tete[tas.bacs[i][k]].t >= tas.tete[tas.bacs[i][l]].t
  /\ \A t \in DOMAIN tas.vite :
       /\ IsInjective(tas.vite[t])
       /\ \A c \in Range(tas.vite[t]) : tas.tete[c].t = t /\ t <= tas.max_fast
  /\ Rapides # {} => tas.fast
  /\ Rapides \cup Libres(tas) # {} => tas.any

(* A request fails only when it must: then no free chunk, not even by      *)
(* merging the fast ones, is long enough, and the heap cannot grow by the  *)
(* pages that are missing.                                                 *)
Justifie(r, nb) ==
  r.p = NUL =>
    /\ \A c \in DOMAIN r.h.tete \ (DOMAIN alloues \cup {r.h.top}) : r.h.tete[c].t < nb
    /\ \A t \in DOMAIN r.h.vite : r.h.vite[t] = << >>
    /\ TailleSommet(r.h) < nb + MINSIZE
    /\ r.h.brk + Plafond(nb + MINSIZE - TailleSommet(r.h), PAGE) > FIN

EchecJustifie ==
  \A n \in DEMANDES : REQUEST_OUT_OF_RANGE(n) \/ Justifie(mALLOc(tas, n), request2size(n))

(* mallinfo counts as used exactly the chunks that programs hold.          *)
CompteExact ==
  mALLINFo(tas).uordblks = FoldSet(LAMBDA c, n : n + tas.tete[c].t, 0, DOMAIN alloues)

(* The allocator implements disjoint blocks: the block of chunk c starts   *)
(* after its two header words.                                             *)
Blocs == INSTANCE Allocateur WITH
  ALIGNEMENT <- 8,
  blocs <- [a \in {8 * (c + 1) : c \in DOMAIN alloues} |-> alloues[a \div 8 - 1]],
  limites <- <<8 * DEBUT, 8 * tas.brk>>

BlocsDisjoints == Blocs!Spec
=============================================================================
