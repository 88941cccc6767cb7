-------------------------------- MODULE Tas --------------------------------
(***************************************************************************)
(* The allocator of the kernel: shared/malloc.c as the kernel builds it    *)
(* (no mmap, a contiguous heap) over the sbrk of kernel/mem.c, which can   *)
(* only grow up to a fixed end.                                            *)
(*                                                                         *)
(* Addresses and sizes of chunks are in units of 8 bytes, the alignment;   *)
(* requests are in bytes.  The header of the chunk at address a is         *)
(* h.tete[a]: t its size, p its bit PREV_INUSE, f the size of the chunk    *)
(* before it, which is written there only while that one is free.  What is *)
(* left of a header inside a larger chunk is forgotten.  The lists of a    *)
(* bin go from its first chunk (fd) to its last (bk).                      *)
(*                                                                         *)
(* Every function is an operator from the heap before to [h, p]: the heap  *)
(* after and the chunk obtained, or NUL.                                   *)
(*                                                                         *)
(* Definitions named X_... are mutated forms of X, used only to check that *)
(* the properties would notice such a slip.                                *)
(***************************************************************************)
EXTENDS Integers, Sequences, SequencesExt, FiniteSets, FiniteSetsExt, TLC

CONSTANTS
  DEBUT, FIN,        \* mem_heap and mem_heap_end, in units
  PAGE,              \* pagesize, in units
  LOG_LARGE,         \* MIN_LARGE_SIZE is 2^LOG_LARGE units (5 in the code)
  NBINS,             \* number of bins (96)
  MXFAST,            \* size of the largest fast chunks at the start, in units (9)
  SEUIL,             \* FASTBIN_CONSOLIDATION_THRESHOLD, in units
  TRIM,              \* DEFAULT_TRIM_THRESHOLD, in units
  HORS_LIMITE,       \* requests from here on are out of range, in bytes
  DEMANDES,          \* sizes that programs ask for, in bytes
  ALIGNEMENTS,       \* alignments given to memalign, in units
  LOTS,              \* lists of sizes given to independent_comalloc
  LIMITES,           \* values given to mallopt(M_MXFAST)
  DEPARTS,           \* lists of requests made at the start, in bytes
  FIXE,              \* blocks of this size are for ever, in bytes
  MAX_BLOCS          \* bound: other blocks that programs hold at once

ASSUME TasAssumption ==
  /\ DEBUT \in Nat /\ FIN \in Nat /\ PAGE \in Nat \ {0}
  /\ LOG_LARGE >= 2 /\ MXFAST < 2^LOG_LARGE

NUL       == -1
MINSIZE   == 2
MIN_LARGE == 2^LOG_LARGE
SIZE_SZ   == 4

Plafond(n, m) == ((n + m - 1) \div m) * m

REQUEST_OUT_OF_RANGE(req) == req >= HORS_LIMITE

(* Room for the size field; the foot of the chunk is the user's.           *)
request2size(req) ==
  IF req + SIZE_SZ + 7 < 16 THEN MINSIZE ELSE (req + SIZE_SZ + 7) \div 8

in_smallbin_range(t) == t < MIN_LARGE

(* Four bins for each power of two, the last one holding all that is left. *)
largebin_index(t) ==
  LET m == CHOOSE k \in 0..t : 2^k <= t \div MIN_LARGE /\ t \div MIN_LARGE < 2^(k+1)
      i == MIN_LARGE + 4 * m + ((t \div 2^(m + LOG_LARGE - 2)) % 4)
  IN IF i < NBINS THEN i ELSE NBINS - 1

bin_index(t) == IF in_smallbin_range(t) THEN t ELSE largebin_index(t)

Tete(t, p, f) == [t |-> t, p |-> p, f |-> f]

(* Before the first call: the static structure holds zeros.                *)
TasVide ==
  [max_fast |-> 0, any |-> FALSE, fast |-> FALSE,
   vite |-> [t \in MINSIZE..MIN_LARGE-1 |-> << >>],
   bacs |-> [i \in 1..NBINS-1 |-> << >>], binmap |-> {},
   top |-> NUL, dernier |-> NUL, tete |-> << >>, brk |-> DEBUT, sbrked |-> 0]

malloc_init_state(h) ==
  [h EXCEPT !.bacs = [i \in 1..NBINS-1 |-> << >>], !.max_fast = MXFAST, !.top = NUL]

TailleSommet(h) == IF h.top = NUL THEN 0 ELSE h.tete[h.top].t

(* Headers: some disappear, others are written.                            *)
Poser(h, sans, avec) ==
  [h EXCEPT !.tete = avec @@ [a \in DOMAIN @ \ sans |-> @[a]]]

set_inuse_bit(h, a) == [h EXCEPT !.tete[a] = Tete(@.t, TRUE, 0)]

set_anychunks(h)  == [h EXCEPT !.any = TRUE]
set_fastchunks(h) == [h EXCEPT !.fast = TRUE, !.any = TRUE]
mark_bin(h, i)    == [h EXCEPT !.binmap = @ \cup {i}]
EmpilerVite(h, p) == [h EXCEPT !.vite[h.tete[p].t] = <<p>> \o @]

unlink(h, c) == [h EXCEPT !.bacs = [i \in DOMAIN @ |-> SelectSeq(@[i], LAMBDA x : x # c)]]

Libres(h) == UNION {Range(h.bacs[i]) : i \in DOMAIN h.bacs}

(* sbrk: a negative increment is refused like one beyond the end.          *)
sbrk(h, n) == IF n < 0 \/ h.brk + n > FIN THEN [h |-> h, ok |-> FALSE]
              ELSE [h |-> [h EXCEPT !.brk = @ + n], ok |-> TRUE]

-----------------------------------------------------------------------------
(* The body that fREe and malloc_consolidate share: chunk p is merged with *)
(* its free neighbours, then goes to the top or to the unsorted chunks.    *)
Fusionner(h, p) ==
  LET e == h.tete[p]
      n == p + e.t
      q == IF e.p THEN p ELSE p - e.f
      avant == IF e.p THEN h ELSE unlink(h, q)
      libre == n # h.top /\ ~h.tete[n + h.tete[n].t].p
      t == n - q + IF n = h.top \/ libre THEN h.tete[n].t ELSE 0
      s == IF libre THEN unlink(avant, n) ELSE avant
      morts == ({p} \ {q}) \cup IF n = h.top \/ libre THEN {n} ELSE {}
  IN IF n = h.top
     THEN [Poser(s, morts, q :> Tete(t, TRUE, 0)) EXCEPT !.top = q]
     ELSE [Poser(s, morts, (q :> Tete(t, TRUE, 0)) @@ (q + t :> Tete(h.tete[q+t].t, FALSE, t)))
             EXCEPT !.bacs[1] = <<q>> \o @]

(* Fast chunks are merged by increasing size, the last freed first.        *)
malloc_consolidate(h) ==
  IF h.max_fast = 0 THEN malloc_init_state(h)
  ELSE LET rapides == FlattenSeq([k \in 1..h.max_fast - 1 |-> h.vite[k+1]])
       IN FoldLeft(Fusionner,
                   [h EXCEPT !.fast = FALSE,
                             !.vite = [t \in DOMAIN @ |-> IF t <= h.max_fast THEN << >> ELSE @[t]]],
                   rapides)

(* Whole pages at the end of the heap would be given back; the sbrk of the *)
(* kernel refuses.                                                         *)
sYSTRIm(h, pad) ==
  LET extra == (Plafond(TailleSommet(h) - pad - MINSIZE, PAGE) \div PAGE - 1) * PAGE
      r == sbrk(h, -extra).h
      rendu == h.brk - r.brk
  IN IF extra <= 0 \/ h.brk # h.top + TailleSommet(h) \/ rendu = 0 THEN h
     ELSE [r EXCEPT !.sbrked = @ - rendu, !.tete[h.top].t = @ - rendu]

Serrer(h) == IF TailleSommet(h) >= TRIM THEN sYSTRIm(h, 0) ELSE h

(* A chunk p that has become long by merging: all are merged.              *)
Alleger(h, p) ==
  IF h.tete[IF h.top <= p THEN h.top ELSE Head(h.bacs[1])].t < SEUIL THEN h
  ELSE Serrer(IF h.fast THEN malloc_consolidate(h) ELSE h)

fREe_SansDrapeau(h, p) ==
  IF h.tete[p].t <= h.max_fast
  THEN EmpilerVite(set_anychunks(h), p)
  ELSE Alleger(Fusionner(set_anychunks(h), p), p)

fREe(h, p) ==
  IF h.tete[p].t <= h.max_fast
  THEN EmpilerVite(set_fastchunks(h), p)
  ELSE Alleger(Fusionner(set_anychunks(h), p), p)

-----------------------------------------------------------------------------
Couper_SansPied(h, v, nb) ==
  [h |-> [Poser(h, {}, (v :> Tete(nb, TRUE, 0)) @@ (v + nb :> Tete(h.tete[v].t - nb, TRUE, 0)))
            EXCEPT !.bacs[1] = <<v + nb>>],
   p |-> v]

Couper_SansTaille(h, v, nb) ==
  LET t == h.tete[v].t
  IN [h |-> [Poser(h, {}, (v + nb :> Tete(t - nb, TRUE, 0))
                            @@ (v + t :> Tete(h.tete[v+t].t, FALSE, t - nb)))
               EXCEPT !.bacs[1] = <<v + nb>>],
      p |-> v]

(* A free chunk v, out of its bin, gives nb units; the rest becomes the    *)
(* only unsorted chunk.                                                    *)
Couper(h, v, nb) ==
  LET t == h.tete[v].t
  IN [h |-> [Poser(h, {}, (v :> Tete(nb, TRUE, 0)) @@ (v + nb :> Tete(t - nb, TRUE, 0))
                            @@ (v + t :> Tete(h.tete[v+t].t, FALSE, t - nb)))
               EXCEPT !.bacs[1] = <<v + nb>>],
      p |-> v]

(* All of it when what would be left is too small.                         *)
Prendre(h, v, nb) ==
  LET t == h.tete[v].t
  IN IF t - nb < MINSIZE THEN [h |-> set_inuse_bit(h, v + t), p |-> v] ELSE Couper(h, v, nb)

PrendreAuSommet(h, nb) ==
  [h |-> [Poser(h, {}, (h.top :> Tete(nb, TRUE, 0))
                         @@ (h.top + nb :> Tete(h.tete[h.top].t - nb, TRUE, 0)))
            EXCEPT !.top = @ + nb],
   p |-> h.top]

(* The heap grows by whole pages, which the top takes.                     *)
Prolonger(h, g) ==
  [g EXCEPT !.tete[h.top] = Tete(@.t + g.brk - h.brk, TRUE, 0), !.sbrked = @ + g.brk - h.brk]

(* The first time, the start of the heap may not be at a page: a second    *)
(* call then completes the page, if it can.                                *)
Commencer(h, g) ==
  LET b == sbrk(g, Plafond(g.brk, PAGE) - g.brk).h
  IN [Poser(b, {}, h.brk :> Tete(b.brk - h.brk, TRUE, 0))
        EXCEPT !.top = h.brk, !.sbrked = @ + b.brk - h.brk]

Etendre(h, a) ==
  IF ~a.ok THEN h ELSE IF h.top # NUL THEN Prolonger(h, a.h) ELSE Commencer(h, a.h)

Agrandir(h, nb) == Etendre(h, sbrk(h, Plafond(nb + MINSIZE - TailleSommet(h), PAGE)))

(* A removed chunk goes to the front of a small bin, or to its place in a  *)
(* large one, sorted from the largest; among equals, first, unless they    *)
(* are the smallest.                                                       *)
Ranger_SansTri(h, v) ==
  LET i == bin_index(h.tete[v].t)
  IN mark_bin([h EXCEPT !.bacs[i] = <<v>> \o @], i)

Ranger(h, v) ==
  LET t == h.tete[v].t
      i == bin_index(t)
      b == h.bacs[i]
      place == IF in_smallbin_range(t) \/ b = << >> THEN 1
               ELSE IF t <= h.tete[Last(b)].t THEN Len(b) + 1
               ELSE Min({k \in DOMAIN b : t >= h.tete[b[k]].t})
  IN mark_bin([h EXCEPT !.bacs[i] = InsertAt(@, place, v)], i)

RECURSIVE mALLOc(_, _)

Obtenir(h, nb) ==
  IF TailleSommet(h) >= nb + MINSIZE THEN PrendreAuSommet(h, nb) ELSE [h |-> h, p |-> NUL]

sYSMALLOc(h, nb) ==
  IF h.fast THEN mALLOc(malloc_consolidate(h), 8 * nb - 7) ELSE Obtenir(Agrandir(h, nb), nb)

UtiliserSommet(h, nb) ==
  IF TailleSommet(h) >= nb + MINSIZE THEN PrendreAuSommet(h, nb) ELSE sYSMALLOc(h, nb)

(* The first non-empty bin marked after idx; the empty ones on the way are *)
(* unmarked.                                                               *)
ChercherPlusGrand(h, nb, idx) ==
  LET vus == {i \in h.binmap : i > idx}
      pleins == {i \in vus : h.bacs[i] # << >>}
      i == Min(pleins)
      s == [h EXCEPT !.binmap = @ \ {j \in vus : pleins = {} \/ j < i}]
      v == Last(h.bacs[i])
      r == Prendre([s EXCEPT !.bacs[i] = Front(@)], v, nb)
  IN IF pleins = {} THEN UtiliserSommet(s, nb)
     ELSE IF in_smallbin_range(nb) /\ h.tete[v].t - nb >= MINSIZE
     THEN [r EXCEPT !.h.dernier = v + nb]
     ELSE r

(* A large request looks for the smallest chunk of its own bin that fits.  *)
ChercherLarge(h, nb) ==
  LET b == h.bacs[largebin_index(nb)]
      assez == {k \in DOMAIN b : h.tete[b[k]].t >= nb}
      v == b[Max(assez)]
  IN IF assez # {} THEN Prendre(unlink(h, v), v, nb)
     ELSE ChercherPlusGrand(h, nb, largebin_index(nb))

RECURSIVE Trier(_, _)

(* Unsorted chunks, the oldest first: each is taken or put in its bin.     *)
Trier(h, nb) ==
  LET u == h.bacs[1]
      v == Last(u)
      t == h.tete[v].t
      s == [h EXCEPT !.bacs[1] = Front(@)]
      c == Couper(h, v, nb)
  IN IF u = << >>
     THEN IF in_smallbin_range(nb) THEN ChercherPlusGrand(h, nb, nb) ELSE ChercherLarge(h, nb)
     ELSE IF in_smallbin_range(nb) /\ Len(u) = 1 /\ v = h.dernier /\ t > nb + MINSIZE
     THEN [c EXCEPT !.h.dernier = v + nb]
     ELSE IF t = nb THEN [h |-> set_inuse_bit(s, v + t), p |-> v]
     ELSE Trier(Ranger(s, v), nb)

mALLOc(h, bytes) ==
  LET nb == request2size(bytes)
      b == h.bacs[nb]
  IN IF REQUEST_OUT_OF_RANGE(bytes) THEN [h |-> h, p |-> NUL]
     ELSE IF ~h.any
     THEN UtiliserSommet(IF h.max_fast = 0 THEN malloc_consolidate(h) ELSE h, nb)
     ELSE IF nb <= h.max_fast /\ h.vite[nb] # << >>
     THEN [h |-> [h EXCEPT !.vite[nb] = Tail(@)], p |-> Head(h.vite[nb])]
     ELSE IF in_smallbin_range(nb) /\ b # << >>
     THEN [h |-> set_inuse_bit([h EXCEPT !.bacs[nb] = Front(@)], Last(b) + nb), p |-> Last(b)]
     ELSE Trier(IF ~in_smallbin_range(nb) /\ h.fast THEN malloc_consolidate(h) ELSE h, nb)

-----------------------------------------------------------------------------
(* What realloc leaves to do once chunk c of the wanted place has size t.  *)
Rogner(h, c, t, nb) ==
  IF t - nb < MINSIZE
  THEN [h |-> set_inuse_bit([h EXCEPT !.tete[c].t = t], c + t), p |-> c]
  ELSE LET s == set_inuse_bit(Poser([h EXCEPT !.tete[c].t = nb], {},
                                    c + nb :> Tete(t - nb, TRUE, 0)), c + t)
       IN [h |-> fREe(s, c + nb), p |-> c]

(* Chunk m, obtained instead of c whose end is n.                          *)
Deplacer(m, c, n, nb) ==
  IF m.p = NUL THEN m
  ELSE IF m.p = n THEN Rogner(Poser(m.h, {n}, << >>), c, n - c + m.h.tete[n].t, nb)
  ELSE [h |-> fREe(m.h, c), p |-> m.p]

(* realloc: in place, over the top, over the free chunk that follows, or   *)
(* elsewhere; a chunk obtained just after the old one extends it.          *)
rEALLOc(h, c, bytes) ==
  LET nb == request2size(bytes)
      n  == c + h.tete[c].t
  IN IF REQUEST_OUT_OF_RANGE(bytes) THEN [h |-> h, p |-> NUL]
     ELSE IF n - c >= nb THEN Rogner(h, c, n - c, nb)
     ELSE IF n = h.top /\ n - c + h.tete[n].t >= nb + MINSIZE
     THEN [h |-> [Poser([h EXCEPT !.tete[c].t = nb], {n},
                        c + nb :> Tete(n - c + h.tete[n].t - nb, TRUE, 0)) EXCEPT !.top = c + nb],
           p |-> c]
     ELSE IF n # h.top /\ ~h.tete[n + h.tete[n].t].p /\ n - c + h.tete[n].t >= nb
     THEN Rogner(Poser(unlink(h, n), {n}, << >>), c, n - c + h.tete[n].t, nb)
     ELSE Deplacer(mALLOc(h, 8 * nb - 7), c, n, nb)

(* memalign: room to spare on both sides is freed.  The alignment, in      *)
(* units, is rounded up to a power of two; the user's memory starts one    *)
(* unit after the chunk.                                                   *)
Puissance(a) == Min({2^k : k \in {j \in 1..a : 2^j >= a}})

LibererAvant(h, p, c) ==
  IF c = p THEN h
  ELSE fREe(Poser([h EXCEPT !.tete[p].t = c - p], {},
                  c :> Tete(h.tete[p].t - (c - p), TRUE, 0)), p)

LibererApres(h, c, nb) ==
  IF h.tete[c].t > nb + MINSIZE
  THEN fREe(Poser([h EXCEPT !.tete[c].t = nb], {},
                  c + nb :> Tete(h.tete[c].t - nb, TRUE, 0)), c + nb)
  ELSE h

(* The first aligned place that leaves nothing or a whole chunk before it. *)
Aligne(p, align) ==
  LET c == Plafond(p + 1, align) - 1
  IN IF c # p /\ c - p < MINSIZE THEN c + align ELSE c

Caler(m, align, nb) ==
  IF m.p = NUL THEN m
  ELSE [h |-> LibererApres(LibererAvant(m.h, m.p, Aligne(m.p, align)), Aligne(m.p, align), nb),
        p |-> Aligne(m.p, align)]

mEMALIGn(h, alignment, bytes) ==
  LET align == Puissance(alignment)
      nb == request2size(bytes)
  IN IF alignment <= 1 THEN mALLOc(h, bytes)
     ELSE IF REQUEST_OUT_OF_RANGE(bytes) THEN [h |-> h, p |-> NUL]
     ELSE Caler(mALLOc(h, 8 * (nb + align + MINSIZE)), align, nb)

(* independent_comalloc: one chunk cut into one per size, then one for the *)
(* array of their addresses; the heap and the chunks.                      *)
Somme(sizes) == FoldLeft(LAMBDA n, k : n + request2size(k), 0, sizes)

Partager(m, sizes) ==
  LET debut(i) == m.p + Somme(SubSeq(sizes, 1, i - 1))
      fin(i) == IF i > Len(sizes) THEN m.p + m.h.tete[m.p].t ELSE debut(i + 1)
      ps == [i \in 1..Len(sizes)+1 |-> debut(i)]
  IN IF m.p = NUL THEN [h |-> m.h, ps |-> << >>]
     ELSE [h |-> FoldLeft(LAMBDA g, i : Poser(g, {}, ps[i] :> Tete(fin(i) - ps[i], TRUE, 0)),
                          m.h, [i \in DOMAIN ps |-> i]),
           ps |-> ps]

iALLOc(h, sizes) ==
  Partager(mALLOc(h, 8 * (Somme(sizes) + request2size(4 * Len(sizes))) - 7), sizes)

iCALLOc(h, n_elements, elem_size) == iALLOc(h, [i \in 1..n_elements |-> elem_size])
iCOMALLOc(h, sizes) == iALLOc(h, sizes)

vALLOc(h, bytes) == mEMALIGn(IF h.max_fast = 0 THEN malloc_consolidate(h) ELSE h, PAGE, bytes)

pVALLOc(h, bytes) ==
  mEMALIGn(IF h.max_fast = 0 THEN malloc_consolidate(h) ELSE h, PAGE, Plafond(bytes, 8 * PAGE))

mTRIm(h, pad) == sYSTRIm(malloc_consolidate(h), pad)

(* mallopt(M_MXFAST, value).  Value 0 is left out: the limit is then below *)
(* the smallest chunk, and the next malloc_consolidate runs past the fast  *)
(* bins.                                                                   *)
set_max_fast(h, s) == [h EXCEPT !.max_fast = request2size(s)]
mALLOPt(h, value) == set_max_fast(malloc_consolidate(h), value)

mALLINFo_SansRapides(h) ==
  LET g == IF h.top = NUL THEN malloc_consolidate(h) ELSE h
      libre == TailleSommet(g) + FoldSet(LAMBDA c, n : n + g.tete[c].t, 0, Libres(g))
  IN [fordblks |-> libre, uordblks |-> g.sbrked - libre]

(* mallinfo: the free memory it counts, and so the memory in use.          *)
mALLINFo(h) ==
  LET g == IF h.top = NUL THEN malloc_consolidate(h) ELSE h
      poids(S) == FoldSet(LAMBDA c, n : n + g.tete[c].t, 0, S)
      rapides == UNION {Range(g.vite[t]) : t \in DOMAIN g.vite}
  IN [fordblks |-> TailleSommet(g) + poids(rapides) + poids(Libres(g)),
      uordblks |-> g.sbrked - (TailleSommet(g) + poids(rapides) + poids(Libres(g)))]

(* calloc; the zeros it writes are the user's.                             *)
cALLOc(h, n_elements, elem_size) == mALLOc(h, n_elements * elem_size)

mUSABLe(h, c) == 8 * h.tete[c].t - SIZE_SZ

(* mem_alloc puts four words around the block, mem_free finds them again.  *)
TailleGardee(length) == 4 * (((length + 3) \div 4) + 4)

mem_alloc(h, length) ==
  IF length = 0 THEN [h |-> h, p |-> NUL] ELSE mALLOc(h, TailleGardee(length))

-----------------------------------------------------------------------------
VARIABLES
  tas,        \* the state of the allocator
  alloues     \* chunks that programs hold, with the bytes they asked for

vars == <<tas, alloues>>

(* Nothing yet, or a few blocks that the start has obtained.               *)
Depart(demandes) ==
  FoldLeft(LAMBDA e, n : LET r == mALLOc(e.tas, n) IN [tas |-> r.h, alloues |-> (r.p :> n) @@ e.alloues],
           [tas |-> TasVide, alloues |-> << >>], demandes)

Init == \E d \in DEPARTS : LET e == Depart(d) IN tas = e.tas /\ alloues = e.alloues

(* A call that returns a block, or NULL, whose caller keeps the old one.   *)
Rendre(r, n, rendus) ==
  /\ tas' = r.h
  /\ alloues' = IF r.p = NUL THEN alloues
                ELSE (r.p :> n) @@ [a \in DOMAIN alloues \ rendus |-> alloues[a]]

Malloc(n) == Rendre(mALLOc(tas, n), n, {})

Free(c) ==
  /\ tas' = fREe(tas, c)
  /\ alloues' = [a \in DOMAIN alloues \ {c} |-> alloues[a]]

Realloc(c, n) == Rendre(rEALLOc(tas, c, n), n, {c})

Memalign(a, n) == Rendre(mEMALIGn(tas, a, n), n, {})

Valloc(n) == Rendre(vALLOc(tas, n), n, {})

Pvalloc(n) == Rendre(pVALLOc(tas, n), Plafond(n, 8 * PAGE), {})

MemAlloc(n) == Rendre(mem_alloc(tas, n), TailleGardee(n), {})

RendrePlusieurs(r, ns) ==
  /\ tas' = r.h
  /\ alloues' = FoldLeft(LAMBDA f, i : (r.ps[i] :> ns[i]) @@ f, alloues, [i \in DOMAIN r.ps |-> i])

Independants(tailles) ==
  RendrePlusieurs(iCOMALLOc(tas, tailles), Append(tailles, 4 * Len(tailles)))

IndependantsEgaux(n, taille) ==
  RendrePlusieurs(iCALLOc(tas, n, taille), Append([i \in 1..n |-> taille], 4 * n))

Calloc(n) == Rendre(cALLOc(tas, 1, n), n, {})

Reduire == tas' = mTRIm(tas, 0) /\ UNCHANGED alloues

Regler(value) == tas' = mALLOPt(tas, value) /\ UNCHANGED alloues

Provisoires == {c \in DOMAIN alloues : alloues[c] # FIXE}

Place(k) == Cardinality(Provisoires) + k <= MAX_BLOCS

Next ==
  \/ Place(1) /\ \E n \in DEMANDES :
       \/ Malloc(n) \/ Calloc(n) \/ Valloc(n) \/ Pvalloc(n) \/ MemAlloc(n)
       \/ \E a \in ALIGNEMENTS : Memalign(a, n)
  \/ \E c \in Provisoires : Free(c) \/ \E n \in DEMANDES : Realloc(c, n)
  \/ \E l \in LOTS : Place(Len(l)) /\ (Independants(l) \/ IndependantsEgaux(Len(l), Last(l)))
  \/ Reduire
  \/ \E v \in LIMITES : Regler(v)

Spec == Init /\ [][Next]_vars
=============================================================================
