--------------------------- MODULE MaillonsProofs ---------------------------
(***************************************************************************)
(* The linked lists of shared/queue.h hold the sequences of FilePrio, for  *)
(* any number of heads, of elements and of priorities.                     *)
(***************************************************************************)
EXTENDS MaillonsProp, FilePrioProofs, FiniteSetTheorems

(* The ring of Chaine, for any fields nx and pv. *)
Anneau(nx, pv, h, s) ==
  \A i \in 0..Len(s) : /\ nx[Maillon(h, s, i)] = Maillon(h, s, i+1)
                       /\ pv[Maillon(h, s, i+1)] = Maillon(h, s, i)

Liens == [Maillons -> Maillons \cup {NUL}]

(* The fields nx and pv hold the sequences c. *)
Structure(nx, pv, c) ==
  /\ \A h \in TETES : Anneau(nx, pv, h, c[h]) /\ SansDoublon(c[h])
  /\ \A g, h \in TETES : g # h => Range(c[g]) \cap Range(c[h]) = {}
  /\ \A e \in ELEMS : (\A h \in TETES : e \notin Range(c[h])) => nx[e] = NUL /\ pv[e] = NUL

(* The fields after queue_add puts e before x, and after queue_del takes e *)
(* out; what they leave alone.                                             *)
NextAjout(nx, pv, e, x) == [nx EXCEPT ![e] = x, ![pv[x]] = e]
PrevAjout(pv, e, x)     == [pv EXCEPT ![e] = pv[x], ![x] = e]

NextRetrait(nx, pv, e) == [nx EXCEPT ![pv[e]] = nx[e], ![e] = NUL]
PrevRetrait(nx, pv, e) == [pv EXCEPT ![nx[e]] = pv[e], ![e] = NUL]

Intacts(mx, mv, nx, pv, X) == \A x \in Maillons : x \notin X => mx[x] = nx[x] /\ mv[x] = pv[x]

-----------------------------------------------------------------------------
(* The places of a ring, the head being at both ends. *)
LEMMA Places ==
  ASSUME NEW h \in TETES, NEW s \in Seq(ELEMS)
  PROVE  /\ Len(s) \in Nat /\ DOMAIN s = 1..Len(s)
         /\ h \notin ELEMS /\ h # NUL /\ NUL \notin ELEMS
         /\ \A i \in 1..Len(s) : /\ Maillon(h, s, i) = s[i]
                                 /\ s[i] \in ELEMS /\ s[i] \in Range(s) /\ s[i] # h
         /\ \A i : i \notin 1..Len(s) => Maillon(h, s, i) = h
         /\ \A i : Maillon(h, s, i) \in Maillons
         /\ \A x \in Range(s) : x \in ELEMS /\ \E i \in 1..Len(s) : x = s[i]
<1>1. Len(s) \in Nat /\ DOMAIN s = 1..Len(s)
  BY LenProperties
<1>2. h \notin ELEMS /\ h # NUL /\ NUL \notin ELEMS
  BY MaillonsAssumption
<1>3. \A i \in 1..Len(s) : s[i] \in ELEMS
  BY ElementOfSeq
<1>4. \A i \in 1..Len(s) : s[i] \in Range(s)
  BY <1>1 DEF Range
<1>5. \A x \in Range(s) : \E i \in 1..Len(s) : x = s[i]
  BY <1>1 DEF Range
<1>6. \A i : Maillon(h, s, i) = IF i \in 1..Len(s) THEN s[i] ELSE h
  BY Zenon DEF Maillon
<1>7. \A i : Maillon(h, s, i) \in Maillons
  BY <1>3, <1>6 DEF Maillons
<1>8. \A i \in 1..Len(s) : s[i] # h
  BY <1>2, <1>3
<1>9. \A i \in 1..Len(s) : Maillon(h, s, i) = s[i]
  BY <1>6
<1>10. \A i : i \notin 1..Len(s) => Maillon(h, s, i) = h
  BY <1>6
<1>11. \A x \in Range(s) : x \in ELEMS
  BY <1>3, <1>5
<1>12. QED
  BY <1>1, <1>2, <1>3, <1>4, <1>5, <1>7, <1>8, <1>9, <1>10, <1>11, Zenon

(* Each link is met once in a turn of the ring. *)
LEMMA PlacesDistinctes ==
  ASSUME NEW h \in TETES, NEW s \in Seq(ELEMS), SansDoublon(s)
  PROVE  /\ \A i, j \in 0..Len(s) : Maillon(h, s, i) = Maillon(h, s, j) => i = j
         /\ \A i, j \in 1..Len(s)+1 : Maillon(h, s, i) = Maillon(h, s, j) => i = j
<1>1. /\ Len(s) \in Nat
      /\ \A i \in 1..Len(s) : Maillon(h, s, i) = s[i] /\ s[i] # h
      /\ \A i : i \notin 1..Len(s) => Maillon(h, s, i) = h
  BY Places
<1>2. ASSUME NEW i \in 0..Len(s)+1, NEW j \in 0..Len(s)+1,
             Maillon(h, s, i) = Maillon(h, s, j)
      PROVE  i = j \/ (i \in {0, Len(s)+1} /\ j \in {0, Len(s)+1})
  <2>1. CASE i \in 1..Len(s) /\ j \in 1..Len(s)
    <3>1. s[i] = s[j]
      BY <1>1, <1>2, <2>1
    <3>2. QED
      BY <2>1, <3>1 DEF SansDoublon
  <2>2. CASE i \in 1..Len(s) /\ j \notin 1..Len(s)
    BY <1>1, <1>2, <2>2
  <2>3. CASE i \notin 1..Len(s) /\ j \in 1..Len(s)
    BY <1>1, <1>2, <2>3
  <2>4. CASE i \notin 1..Len(s) /\ j \notin 1..Len(s)
    BY <1>1, <2>4
  <2>5. QED
    BY <2>1, <2>2, <2>3, <2>4
<1>3. QED
  BY <1>1, <1>2

(* No link of a ring is null. *)
LEMMA AnneauNonNul ==
  ASSUME NEW nx, NEW pv, NEW h \in TETES, NEW s \in Seq(ELEMS), Anneau(nx, pv, h, s),
         NEW x \in {h} \cup Range(s)
  PROVE  nx[x] \in Maillons /\ pv[x] \in Maillons /\ nx[x] # NUL /\ pv[x] # NUL
<1>1. /\ Len(s) \in Nat
      /\ \A i \in 1..Len(s) : Maillon(h, s, i) = s[i]
      /\ \A i : i \notin 1..Len(s) => Maillon(h, s, i) = h
      /\ \A i : Maillon(h, s, i) \in Maillons
      /\ \A y \in Range(s) : \E i \in 1..Len(s) : y = s[i]
  BY Places
<1>2. \E i \in 0..Len(s) : x = Maillon(h, s, i)
  <2>1. CASE x = h
    <3>1. 0 \in 0..Len(s) /\ 0 \notin 1..Len(s)
      BY <1>1
    <3>2. QED
      BY <1>1, <2>1, <3>1
  <2>2. CASE x \in Range(s)
    BY <1>1, <2>2
  <2>3. QED
    BY <2>1, <2>2
<1>3. \E i \in 0..Len(s) : x = Maillon(h, s, i+1)
  <2>1. CASE x = h
    <3>1. Len(s) \in 0..Len(s) /\ Len(s)+1 \notin 1..Len(s)
      BY <1>1
    <3>2. QED
      BY <1>1, <2>1, <3>1
  <2>2. CASE x \in Range(s)
    <3>1. PICK i \in 1..Len(s) : x = s[i]
      BY <1>1, <2>2
    <3>2. i-1 \in 0..Len(s) /\ (i-1)+1 = i
      BY <1>1
    <3>3. QED
      BY <1>1, <3>1, <3>2
  <2>3. QED
    BY <2>1, <2>2
<1>4. nx[x] \in Maillons /\ pv[x] \in Maillons
  BY <1>1, <1>2, <1>3 DEF Anneau
<1>5. NUL \notin Maillons
  BY MaillonsAssumption DEF Maillons
<1>6. QED
  BY <1>4, <1>5

(* A ring none of whose links is written stays. *)
LEMMA AnneauIntact ==
  ASSUME NEW nx, NEW pv, NEW h \in TETES, NEW s \in Seq(ELEMS), Anneau(nx, pv, h, s),
         NEW mx, NEW mv, \A x \in {h} \cup Range(s) : mx[x] = nx[x] /\ mv[x] = pv[x]
  PROVE  Anneau(mx, mv, h, s)
<1>1. \A i : Maillon(h, s, i) \in {h} \cup Range(s)
  <2>1. /\ \A i \in 1..Len(s) : Maillon(h, s, i) = s[i] /\ s[i] \in Range(s)
        /\ \A i : i \notin 1..Len(s) => Maillon(h, s, i) = h
    BY Places
  <2>2. QED
    BY <2>1
<1>2. QED
  BY <1>1 DEF Anneau

-----------------------------------------------------------------------------
(* The four assignments of queue_add put e before place k of a ring. *)
LEMMA InsertionAnneau ==
  ASSUME NEW nx \in Liens, NEW pv \in Liens, NEW h \in TETES, NEW s \in Seq(ELEMS),
         Anneau(nx, pv, h, s), SansDoublon(s),
         NEW e \in ELEMS, e \notin Range(s), NEW k \in 1..Len(s)+1,
         NEW t \in Seq(ELEMS), EstInsertion(t, s, k, e),
         NEW c, c = Maillon(h, s, k),
         NEW mx, mx = NextAjout(nx, pv, e, c),
         NEW mv, mv = PrevAjout(pv, e, c)
  PROVE  /\ mx \in Liens /\ mv \in Liens
         /\ Anneau(mx, mv, h, t)
         /\ Intacts(mx, mv, nx, pv, {h, e} \cup Range(s))
<1> DEFINE M(i) == Maillon(h, s, i)
           N(i) == Maillon(h, t, i)
<1>1. PICK n \in Nat : n = Len(s)
  BY Places
<1>2. /\ k \in 1..n+1
      /\ \A i \in 1..n : M(i) = s[i] /\ s[i] \in Range(s) /\ s[i] \in ELEMS
      /\ \A i : i \notin 1..n => M(i) = h
      /\ \A i : M(i) \in Maillons
      /\ h \notin ELEMS /\ h # NUL
  BY <1>1, Places
<1>k. k \in 1..n+1
  BY <1>1
<1>3. /\ Len(t) = n+1
      /\ \A j \in 1..n+1 : /\ j < k => t[j] = s[j]
                           /\ j = k => t[j] = e
                           /\ j > k => t[j] = s[j-1]
  BY <1>1 DEF EstInsertion
<1>4. /\ \A i \in 1..n+1 : N(i) = t[i]
      /\ \A i : i \notin 1..n+1 => N(i) = h
  <2>1. /\ \A i \in 1..Len(t) : N(i) = t[i]
        /\ \A i : i \notin 1..Len(t) => N(i) = h
    BY Places
  <2>2. QED
    BY <1>3, <2>1
<1>5. \A i \in 0..n+2 : N(i) = IF i < k THEN M(i) ELSE IF i = k THEN e ELSE M(i-1)
  <2>1. ASSUME NEW i \in 0..n+2, i < k
        PROVE  N(i) = M(i)
    <3>1. CASE i = 0
      <4>1. 0 \notin 1..n /\ 0 \notin 1..Len(t)
        OBVIOUS
      <4>2. QED
        BY <1>2, <1>3, <1>4, <3>1, <4>1
    <3>2. CASE i # 0
      <4>1. i \in 1..n /\ i \in 1..n+1
        BY <1>k, <2>1, <3>2
      <4>2. QED
        BY <1>2, <1>3, <1>4, <2>1, <4>1
    <3>3. QED
      BY <3>1, <3>2
  <2>2. N(k) = e
    BY <1>2, <1>3, <1>4
  <2>3. ASSUME NEW i \in 0..n+2, i > k
        PROVE  N(i) = M(i-1)
    <3>1. CASE i = n+2
      <4>1. i \notin 1..n+1 /\ i-1 \notin 1..n
        BY <3>1
      <4>2. QED
        BY <1>2, <1>4, <4>1
    <3>2. CASE i # n+2
      <4>1. i \in 1..n+1 /\ i-1 \in 1..n
        BY <1>k, <2>3, <3>2
      <4>2. QED
        BY <1>2, <1>3, <1>4, <2>3, <4>1
    <3>3. QED
      BY <3>1, <3>2
  <2>4. QED
    BY <1>2, <2>1, <2>2, <2>3
<1>6. \A i \in 0..n : nx[M(i)] = M(i+1) /\ pv[M(i+1)] = M(i)
  BY <1>1 DEF Anneau
<1>7. c = M(k) /\ pv[c] = M(k-1)
  <2>1. k-1 \in 0..n /\ (k-1)+1 = k
    BY <1>k
  <2>2. QED
    BY <1>6, <2>1
<1>8. /\ \A i, j \in 0..n : M(i) = M(j) => i = j
      /\ \A i, j \in 1..n+1 : M(i) = M(j) => i = j
  BY <1>1, PlacesDistinctes
<1>9. \A i : M(i) # e
  BY <1>2
<1>10. \A x \in Maillons : /\ mx[x] = IF x = M(k-1) THEN e ELSE IF x = e THEN M(k) ELSE nx[x]
                           /\ mv[x] = IF x = M(k) THEN e ELSE IF x = e THEN M(k-1) ELSE pv[x]
  BY <1>2, <1>7, <1>9 DEF Liens, Maillons, NextAjout, PrevAjout
<1>11. e \in Maillons
  BY DEF Maillons
<1>12. ASSUME NEW i \in 0..n+1
       PROVE  mx[N(i)] = N(i+1) /\ mv[N(i+1)] = N(i)
  <2>1. /\ N(i) = IF i < k THEN M(i) ELSE IF i = k THEN e ELSE M(i-1)
        /\ N(i+1) = IF i+1 < k THEN M(i+1) ELSE IF i+1 = k THEN e ELSE M(i)
    <3>1. i \in 0..n+2 /\ i+1 \in 0..n+2 /\ (i+1)-1 = i
      OBVIOUS
    <3>2. QED
      BY <1>5, <3>1
  <2>2. CASE i+1 < k
    <3>1. i \in 0..n /\ k-1 \in 0..n /\ i # k-1 /\ i+1 \in 1..n+1 /\ i+1 # k
      BY <1>k, <2>2
    <3>2. M(i) # M(k-1) /\ M(i+1) # M(k)
      BY <1>2, <1>8, <3>1
    <3>3. mx[M(i)] = M(i+1) /\ mv[M(i+1)] = M(i)
      BY <1>2, <1>6, <1>9, <1>10, <3>1, <3>2
    <3>4. QED
      BY <2>1, <2>2, <3>3
  <2>3. CASE i+1 = k
    <3>1. i = k-1 /\ i < k /\ N(i) = M(k-1) /\ N(i+1) = e
      BY <2>1, <2>3
    <3>2. mx[M(k-1)] = e /\ mv[e] = M(k-1)
      BY <1>2, <1>9, <1>10, <1>11
    <3>3. QED
      BY <3>1, <3>2
  <2>4. CASE i = k
    <3>1. N(i) = e /\ N(i+1) = M(k)
      BY <2>1, <2>4
    <3>2. mx[e] = M(k) /\ mv[M(k)] = e
      BY <1>2, <1>9, <1>10, <1>11
    <3>3. QED
      BY <3>1, <3>2
  <2>5. CASE i > k
    <3>1. /\ i-1 \in 0..n /\ k-1 \in 0..n /\ i-1 # k-1 /\ i \in 1..n+1 /\ i # k
          /\ (i-1)+1 = i
      BY <1>k, <2>5
    <3>2. M(i-1) # M(k-1) /\ M(i) # M(k)
      BY <1>2, <1>8, <3>1
    <3>3. nx[M(i-1)] = M(i) /\ pv[M(i)] = M(i-1)
      BY <1>6, <3>1
    <3>4. mx[M(i-1)] = M(i) /\ mv[M(i)] = M(i-1)
      BY <1>2, <1>9, <1>10, <3>2, <3>3
    <3>5. QED
      BY <2>1, <2>5, <3>4
  <2>6. QED
    BY <1>2, <2>2, <2>3, <2>4, <2>5
<1>13. Anneau(mx, mv, h, t)
  BY <1>3, <1>12 DEF Anneau
<1>14. mx \in Liens /\ mv \in Liens
  <2>1. c \in Maillons /\ pv[c] \in Maillons
    BY <1>2, <1>7
  <2>2. QED
    BY <1>11, <2>1 DEF Liens, NextAjout, PrevAjout
<1>15. M(k) \in {h} \cup Range(s) /\ M(k-1) \in {h} \cup Range(s)
  <2>1. ASSUME NEW i PROVE M(i) \in {h} \cup Range(s)
    <3>1. CASE i \in 1..n
      BY <1>2, <3>1
    <3>2. CASE i \notin 1..n
      BY <1>2, <3>2
    <3>3. QED
      BY <3>1, <3>2
  <2>2. QED
    BY <2>1
<1>16. Intacts(mx, mv, nx, pv, {h, e} \cup Range(s))
  BY <1>10, <1>15 DEF Intacts
<1>17. QED
  BY <1>13, <1>14, <1>16

(* The assignments of queue_del, and of queue_out, take place k out. *)
LEMMA RetraitAnneau ==
  ASSUME NEW nx \in Liens, NEW pv \in Liens, NEW h \in TETES, NEW s \in Seq(ELEMS),
         Anneau(nx, pv, h, s), SansDoublon(s),
         NEW k \in 1..Len(s), NEW t \in Seq(ELEMS), EstRetrait(t, s, k)
  PROVE  LET e  == s[k]
             mx == NextRetrait(nx, pv, e)
             mv == PrevRetrait(nx, pv, e)
         IN /\ mx \in Liens /\ mv \in Liens
            /\ Anneau(mx, mv, h, t)
            /\ mx[e] = NUL /\ mv[e] = NUL
            /\ Intacts(mx, mv, nx, pv, {h} \cup Range(s))
<1>e. PICK e : e = s[k]
  OBVIOUS
<1>x. PICK mx : mx = NextRetrait(nx, pv, e)
  OBVIOUS
<1>v. PICK mv : mv = PrevRetrait(nx, pv, e)
  OBVIOUS
<1> DEFINE M(i) == Maillon(h, s, i)
           N(i) == Maillon(h, t, i)
<1>1. PICK n \in Nat : n = Len(s)
  BY Places
<1>2. /\ k \in 1..n
      /\ \A i \in 1..n : M(i) = s[i] /\ s[i] \in Range(s) /\ s[i] \in ELEMS
      /\ \A i : i \notin 1..n => M(i) = h
      /\ \A i : M(i) \in Maillons
      /\ h \notin ELEMS /\ h # NUL
  BY <1>1, Places
<1>k. k \in 1..n
  BY <1>1
<1>3. /\ Len(t) = n-1
      /\ \A j \in 1..n-1 : /\ j < k => t[j] = s[j]
                           /\ j >= k => t[j] = s[j+1]
  BY <1>1 DEF EstRetrait
<1>4. /\ \A i \in 1..n-1 : N(i) = t[i]
      /\ \A i : i \notin 1..n-1 => N(i) = h
  <2>1. /\ \A i \in 1..Len(t) : N(i) = t[i]
        /\ \A i : i \notin 1..Len(t) => N(i) = h
    BY Places
  <2>2. QED
    BY <1>3, <2>1
<1>5. \A i \in 0..n : N(i) = IF i < k THEN M(i) ELSE M(i+1)
  <2>1. ASSUME NEW i \in 0..n, i < k
        PROVE  N(i) = M(i)
    <3>1. CASE i = 0
      <4>1. 0 \notin 1..n /\ 0 \notin 1..Len(t)
        OBVIOUS
      <4>2. QED
        BY <1>2, <1>3, <1>4, <3>1, <4>1
    <3>2. CASE i # 0
      <4>1. i \in 1..n /\ i \in 1..n-1
        BY <1>k, <2>1, <3>2
      <4>2. QED
        BY <1>2, <1>3, <1>4, <2>1, <4>1
    <3>3. QED
      BY <3>1, <3>2
  <2>2. ASSUME NEW i \in 0..n, i >= k
        PROVE  N(i) = M(i+1)
    <3>1. CASE i = n
      <4>1. i \notin 1..n-1 /\ i+1 \notin 1..n
        BY <3>1
      <4>2. QED
        BY <1>2, <1>4, <4>1
    <3>2. CASE i # n
      <4>1. i \in 1..n-1 /\ i+1 \in 1..n
        BY <1>k, <2>2, <3>2
      <4>2. QED
        BY <1>2, <1>3, <1>4, <2>2, <4>1
    <3>3. QED
      BY <3>1, <3>2
  <2>3. QED
    BY <1>2, <2>1, <2>2
<1>6. \A i \in 0..n : nx[M(i)] = M(i+1) /\ pv[M(i+1)] = M(i)
  BY <1>1 DEF Anneau
<1>7. e = M(k) /\ nx[e] = M(k+1) /\ pv[e] = M(k-1)
  <2>1. k-1 \in 0..n /\ (k-1)+1 = k /\ k \in 0..n
    BY <1>k
  <2>2. QED
    BY <1>e, <1>2, <1>6, <2>1
<1>8. /\ \A i, j \in 0..n : M(i) = M(j) => i = j
      /\ \A i, j \in 1..n+1 : M(i) = M(j) => i = j
  BY <1>1, PlacesDistinctes
<1>9. M(k-1) # M(k) /\ M(k+1) # M(k)
  <2>1. k-1 \in 0..n /\ k \in 0..n /\ k \in 1..n+1 /\ k+1 \in 1..n+1 /\ k-1 # k /\ k+1 # k
    BY <1>k
  <2>2. QED
    BY <1>8, <2>1
<1>10. \A x \in Maillons : /\ mx[x] = IF x = M(k) THEN NUL ELSE IF x = M(k-1) THEN M(k+1) ELSE nx[x]
                           /\ mv[x] = IF x = M(k) THEN NUL ELSE IF x = M(k+1) THEN M(k-1) ELSE pv[x]
  BY <1>x, <1>v, <1>2, <1>7, <1>9 DEF Liens, Maillons, NextRetrait, PrevRetrait
<1>11. ASSUME NEW i \in 0..n-1
       PROVE  mx[N(i)] = N(i+1) /\ mv[N(i+1)] = N(i)
  <2>1. /\ N(i) = IF i < k THEN M(i) ELSE M(i+1)
        /\ N(i+1) = IF i+1 < k THEN M(i+1) ELSE M(i+2)
    <3>1. i \in 0..n /\ i+1 \in 0..n /\ (i+1)+1 = i+2
      BY <1>1
    <3>2. QED
      BY <1>5, <3>1
  <2>2. CASE i+1 < k
    <3>1. /\ i \in 0..n /\ k-1 \in 0..n /\ k \in 0..n /\ i # k-1 /\ i # k
          /\ i+1 \in 1..n+1 /\ k \in 1..n+1 /\ k+1 \in 1..n+1 /\ i+1 # k /\ i+1 # k+1
      BY <1>k, <2>2
    <3>2. M(i) # M(k-1) /\ M(i) # M(k) /\ M(i+1) # M(k) /\ M(i+1) # M(k+1)
      BY <1>8, <3>1
    <3>3. mx[M(i)] = M(i+1) /\ mv[M(i+1)] = M(i)
      BY <1>2, <1>6, <1>10, <3>1, <3>2
    <3>4. QED
      BY <2>1, <2>2, <3>3
  <2>3. CASE i+1 = k
    <3>1. i = k-1 /\ i < k /\ i+2 = k+1 /\ N(i) = M(k-1) /\ N(i+1) = M(k+1)
      BY <2>1, <2>3
    <3>2. mx[M(k-1)] = M(k+1) /\ mv[M(k+1)] = M(k-1)
      BY <1>2, <1>9, <1>10
    <3>3. QED
      BY <3>1, <3>2
  <2>4. CASE i+1 > k
    <3>1. /\ i+1 \in 0..n /\ k-1 \in 0..n /\ k \in 0..n /\ i+1 # k-1 /\ i+1 # k
          /\ i+2 \in 1..n+1 /\ k \in 1..n+1 /\ k+1 \in 1..n+1 /\ i+2 # k /\ i+2 # k+1
          /\ (i+1)+1 = i+2 /\ ~(i < k) /\ ~(i+1 < k)
      BY <1>1, <1>k, <2>4
    <3>2. M(i+1) # M(k-1) /\ M(i+1) # M(k) /\ M(i+2) # M(k) /\ M(i+2) # M(k+1)
      BY <1>8, <3>1
    <3>3. nx[M(i+1)] = M(i+2) /\ pv[M(i+2)] = M(i+1)
      BY <1>6, <3>1
    <3>4. mx[M(i+1)] = M(i+2) /\ mv[M(i+2)] = M(i+1)
      BY <1>2, <1>10, <3>2, <3>3
    <3>5. QED
      BY <2>1, <3>1, <3>4
  <2>5. QED
    BY <1>2, <2>2, <2>3, <2>4
<1>12. Anneau(mx, mv, h, t)
  BY <1>3, <1>11 DEF Anneau
<1>13. mx \in Liens /\ mv \in Liens
  <2>1. nx[e] \in Maillons /\ pv[e] \in Maillons /\ e \in Maillons
    BY <1>2, <1>7
  <2>2. QED
    BY <1>x, <1>v, <2>1 DEF Liens, NextRetrait, PrevRetrait
<1>14. {M(k-1), M(k), M(k+1)} \subseteq {h} \cup Range(s)
  <2>1. ASSUME NEW i PROVE M(i) \in {h} \cup Range(s)
    <3>1. CASE i \in 1..n
      BY <1>2, <3>1
    <3>2. CASE i \notin 1..n
      BY <1>2, <3>2
    <3>3. QED
      BY <3>1, <3>2
  <2>2. QED
    BY <2>1
<1>15. Intacts(mx, mv, nx, pv, {h} \cup Range(s))
  BY <1>10, <1>14 DEF Intacts
<1>16. mx[e] = NUL /\ mv[e] = NUL
  BY <1>2, <1>7, <1>10
<1>17. QED
  BY <1>e, <1>x, <1>v, <1>12, <1>13, <1>15, <1>16

-----------------------------------------------------------------------------
(* One ring rewritten, the others are left as they are. *)
LEMMA MajStructure ==
  ASSUME NEW nx, NEW pv, NEW c \in [TETES -> Seq(ELEMS)], Structure(nx, pv, c),
         NEW h \in TETES, NEW t \in Seq(ELEMS), NEW mx, NEW mv,
         Anneau(mx, mv, h, t), SansDoublon(t),
         Intacts(mx, mv, nx, pv, {h} \cup Range(c[h]) \cup Range(t)),
         \A g \in TETES : g # h => Range(t) \cap Range(c[g]) = {},
         \A x \in Range(c[h]) : x \notin Range(t) => mx[x] = NUL /\ mv[x] = NUL
  PROVE  /\ [c EXCEPT ![h] = t] \in [TETES -> Seq(ELEMS)]
         /\ Structure(mx, mv, [c EXCEPT ![h] = t])
<1>1. PICK d : d = [c EXCEPT ![h] = t]
  OBVIOUS
<1>2. d \in [TETES -> Seq(ELEMS)] /\ d[h] = t /\ \A g \in TETES : g # h => d[g] = c[g]
  BY <1>1
<1>3. \A g \in TETES : \A x \in Range(c[g]) : x \in ELEMS
  <2>1. SUFFICES ASSUME NEW g \in TETES PROVE \A x \in Range(c[g]) : x \in ELEMS
    OBVIOUS
  <2>2. QED
    BY Places
<1>4. \A x \in Range(t) : x \in ELEMS
  BY Places
<1>5. TETES \cap ELEMS = {}
  BY MaillonsAssumption
<1>6. ASSUME NEW g \in TETES
      PROVE  Anneau(mx, mv, g, d[g]) /\ SansDoublon(d[g])
  <2>1. CASE g = h
    BY <1>2, <2>1
  <2>2. CASE g # h
    <3>1. d[g] = c[g] /\ c[g] \in Seq(ELEMS) /\ Anneau(nx, pv, g, c[g]) /\ SansDoublon(c[g])
      BY <1>2, <2>2 DEF Structure
    <3>2. ASSUME NEW x \in {g} \cup Range(c[g])
          PROVE  mx[x] = nx[x] /\ mv[x] = pv[x]
      <4>1. x \in Maillons /\ x # h
        BY <1>3, <1>5, <2>2 DEF Maillons
      <4>2. x \notin Range(c[h])
        <5>1. CASE x = g
          BY <1>3, <1>5, <5>1
        <5>2. CASE x \in Range(c[g])
          BY <2>2, <5>2 DEF Structure
        <5>3. QED
          BY <5>1, <5>2
      <4>3. x \notin Range(t)
        BY <1>4, <1>5, <2>2
      <4>4. QED
        BY <4>1, <4>2, <4>3 DEF Intacts
    <3>3. Anneau(mx, mv, g, c[g])
      BY <3>1, <3>2, AnneauIntact
    <3>4. QED
      BY <3>1, <3>3
  <2>3. QED
    BY <2>1, <2>2
<1>7. ASSUME NEW f \in TETES, NEW g \in TETES, f # g
      PROVE  Range(d[f]) \cap Range(d[g]) = {}
  <2>1. Range(c[f]) \cap Range(c[g]) = {}
    BY <1>7 DEF Structure
  <2>2. CASE f = h
    <3>1. d[f] = t /\ d[g] = c[g] /\ Range(t) \cap Range(c[g]) = {}
      BY <1>2, <1>7, <2>2
    <3>2. QED
      BY <3>1
  <2>3. CASE g = h
    <3>1. d[g] = t /\ d[f] = c[f] /\ Range(t) \cap Range(c[f]) = {}
      BY <1>2, <1>7, <2>3
    <3>2. QED
      BY <3>1
  <2>4. CASE f # h /\ g # h
    <3>1. d[g] = c[g] /\ d[f] = c[f]
      BY <1>2, <2>4
    <3>2. QED
      BY <2>1, <3>1
  <2>5. QED
    BY <2>2, <2>3, <2>4
<1>8. ASSUME NEW e \in ELEMS, \A g \in TETES : e \notin Range(d[g])
      PROVE  mx[e] = NUL /\ mv[e] = NUL
  <2>1. e \notin Range(t) /\ \A g \in TETES : g # h => e \notin Range(c[g])
    BY <1>2, <1>8
  <2>2. CASE e \in Range(c[h])
    BY <2>1, <2>2
  <2>3. CASE e \notin Range(c[h])
    <3>1. e \in Maillons /\ e # h
      BY <1>5 DEF Maillons
    <3>2. nx[e] = NUL /\ pv[e] = NUL
      BY <2>1, <2>3 DEF Structure
    <3>3. QED
      BY <2>1, <2>3, <3>1, <3>2 DEF Intacts
  <2>4. QED
    BY <2>2, <2>3
<1>9. Structure(mx, mv, d)
  BY <1>6, <1>7, <1>8 DEF Structure
<1>10. QED
  BY <1>1, <1>2, <1>9

-----------------------------------------------------------------------------
(* The loops over a queue. *)

(* One turn, s having been met; and the turns of Parcours, up to the nth. *)
Tour(champ, h, s) ==
  LET m == champ[IF s = << >> THEN h ELSE Last(s)]
  IN IF m \in ELEMS THEN Append(s, m) ELSE s

EstTours(g, champ, h, n) ==
  g = [m \in 0..n |-> IF m = 0 THEN << >> ELSE Tour(champ, h, g[m-1])]

Debut(s, m) == SubSeq(s, 1, IF m <= Len(s) THEN m ELSE Len(s))

(* What the mth turn has met, if the field leads through s. *)
LEMMA TourProp ==
  ASSUME NEW champ, NEW h \in TETES, NEW s \in Seq(ELEMS),
         \A i \in 0..Len(s) : champ[Maillon(h, s, i)] = Maillon(h, s, i+1),
         NEW m \in Nat
  PROVE  Tour(champ, h, Debut(s, m)) = Debut(s, m+1)
<1>1. PICK n \in Nat : n = Len(s)
  BY Places
<1>2. /\ \A i \in 1..n : Maillon(h, s, i) = s[i] /\ s[i] \in ELEMS
      /\ \A i : i \notin 1..n => Maillon(h, s, i) = h
      /\ h \notin ELEMS
  BY <1>1, Places
<1>3. PICK k : k = IF m <= n THEN m ELSE n
  OBVIOUS
<1>4. k \in 0..n /\ (m < n => k = m /\ k+1 \in 1..n) /\ (m >= n => k = n)
  BY <1>3
<1>k. k \in 0..n
  BY <1>4
<1>5. PICK a : a = SubSeq(s, 1, k)
  OBVIOUS
<1>6. Debut(s, m) = a
  BY <1>1, <1>3, <1>5 DEF Debut
<1>7. a \in Seq(ELEMS) /\ Len(a) = k /\ \A i \in 1..k : a[i] = s[i]
  <2>1. \A i \in 1..k : s[i] \in ELEMS
    BY <1>2, <1>k
  <2>2. /\ SubSeq(s, 1, k) \in Seq(ELEMS)
        /\ Len(SubSeq(s, 1, k)) = IF 1 <= k THEN k-1+1 ELSE 0
        /\ \A i \in 1..(k-1+1) : SubSeq(s, 1, k)[i] = s[1+i-1]
    BY <2>1, <1>k, SubSeqProperties
  <2>3. k-1+1 = k /\ (IF 1 <= k THEN k-1+1 ELSE 0) = k /\ \A i \in 1..k : 1+i-1 = i
    BY <1>k
  <2>4. QED
    BY <1>5, <2>2, <2>3
<1>8. PICK y : y = IF a = << >> THEN h ELSE Last(a)
  OBVIOUS
<1>9. y = Maillon(h, s, k)
  <2>1. CASE k = 0
    <3>1. a = << >>
      BY <1>7, <2>1, EmptySeq
    <3>2. 0 \notin 1..n
      OBVIOUS
    <3>3. QED
      BY <1>2, <1>8, <2>1, <3>1, <3>2
  <2>2. CASE k # 0
    <3>1. a # << >>
      BY <1>7, <2>2, EmptySeq
    <3>2. Last(a) = a[k]
      BY <1>7 DEF Last
    <3>3. k \in 1..k /\ k \in 1..n
      BY <1>k, <2>2
    <3>4. QED
      BY <1>2, <1>7, <1>8, <3>1, <3>2, <3>3
  <2>3. QED
    BY <2>1, <2>2
<1>10. champ[y] = Maillon(h, s, k+1)
  BY <1>1, <1>4, <1>9
<1>11. CASE m < n
  <2>1. k = m /\ k+1 \in 1..n /\ m+1 <= n
    BY <1>1, <1>4, <1>11
  <2>2. champ[y] = s[k+1] /\ s[k+1] \in ELEMS
    BY <1>2, <1>10, <2>1
  <2>3. Tour(champ, h, a) = Append(a, s[k+1])
    BY <1>8, <2>2 DEF Tour
  <2>4. Debut(s, m+1) = SubSeq(s, 1, m+1)
    BY <1>1, <2>1 DEF Debut
  <2>5. SubSeq(s, 1, m+1) = Append(a, s[k+1])
    <3>1. \A i \in 1..m+1 : s[i] \in ELEMS
      BY <1>2, <2>1
    <3>2. m+1 \in Int /\ 1 \in Int /\ 1 <= m+1 /\ (m+1)-1+1 = m+1 /\ \A i \in 1..m+1 : 1+i-1 = i
      OBVIOUS
    <3>3. /\ SubSeq(s, 1, m+1) \in Seq(ELEMS)
          /\ Len(SubSeq(s, 1, m+1)) = m+1
          /\ \A i \in 1..m+1 : SubSeq(s, 1, m+1)[i] = s[i]
      <4>1. /\ SubSeq(s, 1, m+1) \in Seq(ELEMS)
            /\ Len(SubSeq(s, 1, m+1)) = IF 1 <= m+1 THEN (m+1)-1+1 ELSE 0
            /\ \A i \in 1..((m+1)-1+1) : SubSeq(s, 1, m+1)[i] = s[1+i-1]
        BY <3>1, <3>2, SubSeqProperties
      <4>2. QED
        BY <3>2, <4>1
    <3>4. /\ Append(a, s[k+1]) \in Seq(ELEMS)
          /\ Len(Append(a, s[k+1])) = k+1
          /\ \A i \in 1..k : Append(a, s[k+1])[i] = a[i]
          /\ Append(a, s[k+1])[k+1] = s[k+1]
      BY <1>7, <2>2, AppendProperties
    <3>5. \A i \in 1..m+1 : i \in 1..k \/ i = k+1
      BY <2>1
    <3>6. \A i \in 1..m+1 : SubSeq(s, 1, m+1)[i] = Append(a, s[k+1])[i]
      BY <1>7, <3>3, <3>4, <3>5
    <3>7. QED
      BY <2>1, <3>3, <3>4, <3>6, SeqEqual
  <2>6. QED
    BY <1>6, <2>3, <2>4, <2>5
<1>12. CASE m >= n
  <2>1. k = n /\ k+1 \notin 1..n
    BY <1>4, <1>12
  <2>2. champ[y] \notin ELEMS
    BY <1>2, <1>10, <2>1
  <2>3. Tour(champ, h, a) = a
    BY <1>8, <2>2 DEF Tour
  <2>4. Debut(s, m+1) = SubSeq(s, 1, n)
    <3>1. (IF m+1 <= n THEN m+1 ELSE n) = n
      BY <1>12
    <3>2. QED
      BY <1>1, <3>1 DEF Debut
  <2>5. QED
    BY <1>5, <1>6, <2>1, <2>3, <2>4
<1>13. QED
  BY <1>11, <1>12

LEMMA DebutBornes ==
  ASSUME NEW s \in Seq(ELEMS)
  PROVE  /\ Debut(s, 0) = << >>
         /\ \A m \in Nat : Len(s) <= m => Debut(s, m) = s
<1>1. PICK n \in Nat : n = Len(s)
  BY LenProperties
<1>2. Debut(s, 0) = SubSeq(s, 1, 0)
  BY <1>1 DEF Debut
<1>3. Debut(s, 0) = << >>
  BY <1>2, SubSeqEmpty
<1>4. ASSUME NEW m \in Nat, n <= m
      PROVE  Debut(s, m) = s
  <2>1. (IF m <= n THEN m ELSE n) = n
    BY <1>4
  <2>2. Debut(s, m) = SubSeq(s, 1, n)
    BY <1>1, <2>1 DEF Debut
  <2>3. QED
    BY <1>1, <2>2, SubSeqFull
<1>5. QED
  BY <1>1, <1>3, <1>4

(* A sequence that lists each element at most once is no longer than ELEMS. *)
LEMMA LongueurBornee ==
  ASSUME NEW s \in Seq(ELEMS), SansDoublon(s)
  PROVE  Cardinality(ELEMS) \in Nat /\ Len(s) <= Cardinality(ELEMS)
<1>1. IsFiniteSet(ELEMS)
  BY MaillonsAssumption
<1>2. PICK n \in Nat : n = Len(s)
  BY LenProperties
<1>3. s \in [1..n -> ELEMS]
  BY <1>2, LenProperties
<1>4. s \in Injection(1..n, ELEMS)
  BY <1>2, <1>3 DEF SansDoublon, Injection, IsInjective
<1>5. Cardinality(1..n) <= Cardinality(ELEMS)
  BY <1>1, <1>4, FS_Injection
<1>6. Cardinality(1..n) = IF 1 > n THEN 0 ELSE n-1+1
  BY FS_Interval
<1>7. Cardinality(1..n) = n
  BY <1>6
<1>8. Cardinality(ELEMS) \in Nat
  BY <1>1, FS_CardinalityType
<1>9. QED
  BY <1>2, <1>5, <1>7, <1>8

(* A loop that a field leads through s lists s. *)
LEMMA ParcoursSuit ==
  ASSUME NEW champ, NEW h \in TETES, NEW s \in Seq(ELEMS), SansDoublon(s),
         \A i \in 0..Len(s) : champ[Maillon(h, s, i)] = Maillon(h, s, i+1)
  PROVE  Parcours(champ, h) = s
<1>1. PICK n : n = Cardinality(ELEMS)
  OBVIOUS
<1>2. n \in Nat /\ Len(s) <= n
  BY <1>1, LongueurBornee
<1>3. PICK w : w = [m \in 0..n |-> Debut(s, m)]
  OBVIOUS
<1>4. EstTours(w, champ, h, n)
  <2>1. ASSUME NEW m \in 0..n
        PROVE  w[m] = IF m = 0 THEN << >> ELSE Tour(champ, h, w[m-1])
    <3>1. CASE m = 0
      BY <1>3, <3>1, DebutBornes
    <3>2. CASE m # 0
      <4>1. m-1 \in Nat /\ m-1 \in 0..n /\ (m-1)+1 = m
        BY <1>2, <3>2
      <4>2. Tour(champ, h, Debut(s, m-1)) = Debut(s, (m-1)+1)
        BY <4>1, TourProp
      <4>3. QED
        BY <1>3, <3>2, <4>1, <4>2
    <3>3. QED
      BY <3>1, <3>2
  <2>2. w = [m \in 0..n |-> w[m]]
    BY <1>3
  <2>3. [m \in 0..n |-> w[m]] = [m \in 0..n |-> IF m = 0 THEN << >> ELSE Tour(champ, h, w[m-1])]
    BY <2>1, Zenon
  <2>4. QED
    BY <2>2, <2>3, Zenon DEF EstTours
<1>5. PICK g : g = CHOOSE f : EstTours(f, champ, h, n)
  OBVIOUS
<1>6. EstTours(g, champ, h, n)
  BY <1>4, <1>5
<1>7. Parcours(champ, h) = g[n]
  BY <1>1, <1>5 DEF Parcours, EstTours, Tour
<1>8. \A m \in 0..n : g[m] = IF m = 0 THEN << >> ELSE Tour(champ, h, g[m-1])
  BY <1>6 DEF EstTours
<1>9. ASSUME NEW m \in 0..n, g[m] # Debut(s, m)
      PROVE  FALSE
  <2> DEFINE T == {x \in 0..n : g[x] # Debut(s, x)}
  <2>1. T \in SUBSET Nat /\ T # {}
    BY <1>2, <1>9
  <2>2. PICK x \in T : \A y \in T : x <= y
    BY <2>1, PlusPetit
  <2>x. x \in 0..n
    BY <2>2
  <2>3. CASE x = 0
    <3>1. g[0] = << >>
      BY <1>2, <1>8
    <3>2. QED
      BY <2>2, <2>3, <3>1, DebutBornes
  <2>4. CASE x # 0
    <3>1. x-1 \in 0..n /\ x-1 \in Nat /\ (x-1)+1 = x /\ ~(x <= x-1)
      BY <1>2, <2>x, <2>4
    <3>2. g[x-1] = Debut(s, x-1)
      BY <2>2, <3>1
    <3>3. g[x] = Tour(champ, h, g[x-1])
      BY <1>8, <2>x, <2>4
    <3>4. Tour(champ, h, Debut(s, x-1)) = Debut(s, (x-1)+1)
      BY <3>1, TourProp
    <3>5. QED
      BY <2>2, <3>1, <3>2, <3>3, <3>4
  <2>5. QED
    BY <2>3, <2>4
<1>10. g[n] = Debut(s, n)
  BY <1>2, <1>9
<1>11. QED
  BY <1>2, <1>7, <1>10, DebutBornes

-----------------------------------------------------------------------------
(* The ring read backwards is that of the reversed sequence. *)
LEMMA AnneauInverse ==
  ASSUME NEW h \in TETES, NEW s \in Seq(ELEMS), SansDoublon(s)
  PROVE  /\ Reverse(s) \in Seq(ELEMS) /\ Len(Reverse(s)) = Len(s) /\ SansDoublon(Reverse(s))
         /\ \A i \in 0..Len(s)+1 : Maillon(h, Reverse(s), i) = Maillon(h, s, Len(s)+1-i)
<1>1. PICK n \in Nat : n = Len(s)
  BY LenProperties
<1>2. PICK r : r = [i \in 1..n |-> s[(n - i) + 1]]
  OBVIOUS
<1>3. Reverse(s) = r
  BY <1>1, <1>2 DEF Reverse
<1>4. \A i \in 1..n : s[i] \in ELEMS
  BY <1>1, ElementOfSeq
<1>5. \A i \in 1..n : (n - i) + 1 \in 1..n /\ r[i] = s[(n - i) + 1]
  BY <1>2
<1>6. r \in [1..n -> ELEMS]
  BY <1>2, <1>4, <1>5
<1>7. r \in Seq(ELEMS) /\ Len(r) = n
  <2>1. r \in Seq(ELEMS)
    BY <1>6, SeqDef
  <2>2. Len(r) \in Nat /\ DOMAIN r = 1..Len(r) /\ DOMAIN r = 1..n
    BY <1>6, <2>1, LenProperties
  <2>3. Len(r) = n
    <3>1. PICK l \in Nat : l = Len(r) /\ 1..l = 1..n
      BY <2>2
    <3>2. l = n
      <4>1. CASE l < n
        <5>1. n \in 1..n /\ n \notin 1..l
          BY <4>1
        <5>2. QED
          BY <3>1, <5>1
      <4>2. CASE l > n
        <5>1. l \in 1..l /\ l \notin 1..n
          BY <4>2
        <5>2. QED
          BY <3>1, <5>1
      <4>3. QED
        BY <4>1, <4>2
    <3>3. QED
      BY <3>1, <3>2
  <2>4. QED
    BY <2>1, <2>3
<1>8. SansDoublon(r)
  <2>1. ASSUME NEW i \in 1..n, NEW j \in 1..n, r[i] = r[j]
        PROVE  i = j
    <3>1. s[(n - i) + 1] = s[(n - j) + 1] /\ (n - i) + 1 \in 1..n /\ (n - j) + 1 \in 1..n
      BY <1>5, <2>1
    <3>2. (n - i) + 1 = (n - j) + 1
      BY <1>1, <3>1 DEF SansDoublon
    <3>3. QED
      BY <3>2
  <2>2. QED
    BY <1>7, <2>1 DEF SansDoublon
<1>9. ASSUME NEW i \in 0..n+1
      PROVE  Maillon(h, r, i) = Maillon(h, s, n+1-i)
  <2>1. CASE i \in 1..n
    <3>1. n+1-i \in 1..n /\ (n - i) + 1 = n+1-i
      BY <2>1
    <3>2. Maillon(h, r, i) = r[i] /\ Maillon(h, s, n+1-i) = s[n+1-i]
      BY <1>1, <1>7, <2>1, <3>1 DEF Maillon
    <3>3. QED
      BY <1>5, <2>1, <3>1, <3>2
  <2>2. CASE i \notin 1..n
    <3>1. n+1-i \notin 1..n
      BY <2>2
    <3>2. QED
      BY <1>1, <1>7, <2>2, <3>1 DEF Maillon
  <2>3. QED
    BY <2>1, <2>2
<1>10. QED
  BY <1>1, <1>3, <1>7, <1>8, <1>9

(* What Represente says of one head. *)
LEMMA TeteFidele ==
  ASSUME NEW h \in TETES, NEW s \in Seq(ELEMS), SansDoublon(s), Anneau(next, prev, h, s)
  PROVE  /\ Chaine(h, s)
         /\ queue_for_each(h) = s /\ queue_for_each_prev(h) = Reverse(s)
         /\ __queue_top(h) = IF queue_empty(s) THEN NUL ELSE queue_top(s)
         /\ __queue_bottom(h) = IF queue_empty(s) THEN NUL ELSE Head(s)
<1>1. PICK n \in Nat : n = Len(s)
  BY LenProperties
<1>2. /\ \A i \in 1..n : Maillon(h, s, i) = s[i] /\ s[i] \in ELEMS /\ s[i] # h
      /\ \A i : i \notin 1..n => Maillon(h, s, i) = h
  BY <1>1, Places
<1>3. \A i \in 0..n : /\ next[Maillon(h, s, i)] = Maillon(h, s, i+1)
                      /\ prev[Maillon(h, s, i+1)] = Maillon(h, s, i)
  BY <1>1 DEF Anneau
<1>4. Chaine(h, s)
  BY <1>1, <1>3 DEF Chaine
<1>5. queue_for_each(h) = s
  <2>1. \A i \in 0..Len(s) : next[Maillon(h, s, i)] = Maillon(h, s, i+1)
    BY <1>1, <1>3
  <2>2. QED
    BY <2>1, ParcoursSuit DEF queue_for_each
<1>6. queue_for_each_prev(h) = Reverse(s)
  <2>1. PICK r : r = Reverse(s)
    OBVIOUS
  <2>2. /\ r \in Seq(ELEMS) /\ Len(r) = n /\ SansDoublon(r)
        /\ \A i \in 0..n+1 : Maillon(h, r, i) = Maillon(h, s, n+1-i)
    BY <1>1, <2>1, AnneauInverse
  <2>3. ASSUME NEW i \in 0..n
        PROVE  prev[Maillon(h, r, i)] = Maillon(h, r, i+1)
    <3>1. /\ i \in 0..n+1 /\ i+1 \in 0..n+1 /\ n-i \in 0..n
          /\ n+1-i = (n-i)+1 /\ n+1-(i+1) = n-i
      OBVIOUS
    <3>2. Maillon(h, r, i) = Maillon(h, s, (n-i)+1) /\ Maillon(h, r, i+1) = Maillon(h, s, n-i)
      BY <2>2, <3>1
    <3>3. QED
      BY <1>3, <3>1, <3>2
  <2>4. Parcours(prev, h) = r
    BY <2>2, <2>3, ParcoursSuit
  <2>5. QED
    BY <2>1, <2>4 DEF queue_for_each_prev
<1>7. CASE n = 0
  <2>1. s = << >>
    BY <1>1, <1>7, EmptySeq
  <2>2. 0 \in 0..n /\ 0 \notin 1..n /\ 1 \notin 1..n /\ 0+1 = 1
    BY <1>7
  <2>3. next[h] = h
    BY <1>2, <1>3, <2>2
  <2>4. QED
    BY <1>4, <1>5, <1>6, <2>1, <2>3 DEF Vide, __queue_top, __queue_bottom, queue_empty
<1>8. CASE n # 0
  <2>1. s # << >>
    BY <1>1, <1>8, EmptySeq
  <2>2. 0 \in 0..n /\ n \in 0..n /\ 0 \notin 1..n /\ n+1 \notin 1..n /\ 1 \in 1..n /\ n \in 1..n /\ 0+1 = 1
    BY <1>8
  <2>3. next[h] = s[1] /\ prev[h] = s[n] /\ s[1] # h
    BY <1>2, <1>3, <2>2
  <2>4. queue_top(s) = s[n] /\ Head(s) = s[1]
    BY <1>1 DEF queue_top, Last
  <2>5. QED
    BY <1>4, <1>5, <1>6, <2>1, <2>3, <2>4 DEF Vide, __queue_top, __queue_bottom, queue_empty
<1>9. QED
  BY <1>7, <1>8

LEMMA StructureRepresente ==
  ASSUME contenu \in [TETES -> Seq(ELEMS)], Structure(next, prev, contenu)
  PROVE  Represente
<1>1. ASSUME NEW h \in TETES, NEW s, s = contenu[h]
      PROVE  /\ Chaine(h, s) /\ SansDoublon(s)
             /\ queue_for_each(h) = s /\ queue_for_each_prev(h) = Reverse(s)
             /\ __queue_top(h) = IF queue_empty(s) THEN NUL ELSE queue_top(s)
             /\ __queue_bottom(h) = IF queue_empty(s) THEN NUL ELSE Head(s)
  <2>1. s \in Seq(ELEMS) /\ SansDoublon(s) /\ Anneau(next, prev, h, s)
    BY <1>1 DEF Structure
  <2>2. QED
    BY <2>1, TeteFidele
<1>2. \A g, h \in TETES : g # h => Range(contenu[g]) \cap Range(contenu[h]) = {}
  BY DEF Structure
<1>3. ASSUME NEW e \in ELEMS
      PROVE  /\ next[e] = NUL <=> \A h \in TETES : e \notin Range(contenu[h])
             /\ prev[e] = NUL <=> next[e] = NUL
  <2>1. CASE \A h \in TETES : e \notin Range(contenu[h])
    BY <2>1 DEF Structure
  <2>2. ASSUME NEW h \in TETES, e \in Range(contenu[h])
        PROVE  next[e] # NUL /\ prev[e] # NUL
    <3>1. contenu[h] \in Seq(ELEMS) /\ Anneau(next, prev, h, contenu[h])
      BY DEF Structure
    <3>2. QED
      BY <2>2, <3>1, AnneauNonNul
  <2>3. QED
    BY <2>1, <2>2
<1>4. QED
  BY <1>1, <1>2, <1>3 DEF Represente

-----------------------------------------------------------------------------
(* An element put in, or taken out of, one of the rings. *)
LEMMA InsertionStructure ==
  ASSUME NEW nx \in Liens, NEW pv \in Liens, NEW c \in [TETES -> Seq(ELEMS)], Structure(nx, pv, c),
         NEW h \in TETES, NEW e \in ELEMS, \A g \in TETES : e \notin Range(c[g]),
         NEW k \in 1..Len(c[h])+1,
         NEW t \in Seq(ELEMS), EstInsertion(t, c[h], k, e),
         Range(t) = Range(c[h]) \cup {e}, SansDoublon(t),
         NEW x, x = Maillon(h, c[h], k),
         NEW mx, mx = NextAjout(nx, pv, e, x),
         NEW mv, mv = PrevAjout(pv, e, x)
  PROVE  /\ mx \in Liens /\ mv \in Liens
         /\ [c EXCEPT ![h] = t] \in [TETES -> Seq(ELEMS)]
         /\ Structure(mx, mv, [c EXCEPT ![h] = t])
<1>1. PICK s \in Seq(ELEMS) : s = c[h]
  OBVIOUS
<1>2. Anneau(nx, pv, h, s) /\ SansDoublon(s) /\ e \notin Range(s)
  BY <1>1 DEF Structure
<1>3. k \in 1..Len(s)+1 /\ EstInsertion(t, s, k, e) /\ x = Maillon(h, s, k)
  BY <1>1
<1>4. /\ mx \in Liens /\ mv \in Liens
      /\ Anneau(mx, mv, h, t)
      /\ Intacts(mx, mv, nx, pv, {h, e} \cup Range(s))
  BY <1>1, <1>2, <1>3, InsertionAnneau, Zenon
<1>5. Range(t) = Range(s) \cup {e}
  BY <1>1
<1>6. Intacts(mx, mv, nx, pv, {h} \cup Range(c[h]) \cup Range(t))
  BY <1>1, <1>4, <1>5 DEF Intacts
<1>7. \A g \in TETES : g # h => Range(t) \cap Range(c[g]) = {}
  BY <1>1, <1>5 DEF Structure
<1>8. \A y \in Range(c[h]) : y \notin Range(t) => mx[y] = NUL /\ mv[y] = NUL
  BY <1>1, <1>5
<1>9. Anneau(mx, mv, h, t)
  BY <1>4
<1>10. /\ [c EXCEPT ![h] = t] \in [TETES -> Seq(ELEMS)]
       /\ Structure(mx, mv, [c EXCEPT ![h] = t])
  BY <1>6, <1>7, <1>8, <1>9, MajStructure, Zenon
<1>11. QED
  BY <1>4, <1>10

LEMMA RetraitStructure ==
  ASSUME NEW nx \in Liens, NEW pv \in Liens, NEW c \in [TETES -> Seq(ELEMS)], Structure(nx, pv, c),
         NEW h \in TETES, NEW k \in 1..Len(c[h]),
         NEW t \in Seq(ELEMS), EstRetrait(t, c[h], k)
  PROVE  LET e  == c[h][k]
             mx == NextRetrait(nx, pv, e)
             mv == PrevRetrait(nx, pv, e)
         IN /\ mx \in Liens /\ mv \in Liens
            /\ [c EXCEPT ![h] = t] \in [TETES -> Seq(ELEMS)]
            /\ Structure(mx, mv, [c EXCEPT ![h] = t])
<1> DEFINE e  == c[h][k]
           mx == NextRetrait(nx, pv, e)
           mv == PrevRetrait(nx, pv, e)
<1>1. c[h] \in Seq(ELEMS) /\ Anneau(nx, pv, h, c[h]) /\ SansDoublon(c[h])
  BY DEF Structure
<1>2. /\ mx \in Liens /\ mv \in Liens
      /\ Anneau(mx, mv, h, t)
      /\ mx[e] = NUL /\ mv[e] = NUL
      /\ Intacts(mx, mv, nx, pv, {h} \cup Range(c[h]))
  BY <1>1, RetraitAnneau
<1>3. Range(t) = Range(c[h]) \ {e} /\ SansDoublon(t)
  BY <1>1, RetraitProp, Zenon
<1> HIDE DEF e, mx, mv
<1>4. Intacts(mx, mv, nx, pv, {h} \cup Range(c[h]) \cup Range(t))
  BY <1>2 DEF Intacts
<1>5. \A g \in TETES : g # h => Range(t) \cap Range(c[g]) = {}
  BY <1>3 DEF Structure
<1>6. \A y \in Range(c[h]) : y \notin Range(t) => mx[y] = NUL /\ mv[y] = NUL
  BY <1>2, <1>3
<1>7. Anneau(mx, mv, h, t) /\ SansDoublon(t)
  BY <1>2, <1>3
<1>8. /\ [c EXCEPT ![h] = t] \in [TETES -> Seq(ELEMS)]
      /\ Structure(mx, mv, [c EXCEPT ![h] = t])
  BY <1>4, <1>5, <1>6, <1>7, MajStructure, Zenon
<1>9. QED
  BY <1>2, <1>8 DEF e, mx, mv

-----------------------------------------------------------------------------
(* What holds all along: the links are those of the recorded sequences,    *)
(* and a queue_add in progress stands at a place k of the list that it     *)
(* looks at, after elements of lower priority only; its element is in no   *)
(* list.  The sequences and the links then change together, and the place  *)
(* where queue_add stops is PlaceAjout.                                    *)
AjoutSuivi ==
  \/ Repos
  \/ /\ ajout \in [elem : ELEMS, tete : TETES, cur : Maillons]
     /\ \A h \in TETES : ajout.elem \notin Range(contenu[h])
     /\ \E k \in 1..Len(contenu[ajout.tete])+1 :
          /\ ajout.cur = Maillon(ajout.tete, contenu[ajout.tete], k)
          /\ \A j \in 1..Len(contenu[ajout.tete]) :
               j < k => priorite[contenu[ajout.tete][j]] < priorite[ajout.elem]

IInvMaillons ==
  /\ next \in Liens /\ prev \in Liens
  /\ priorite \in [ELEMS -> PRIOS]
  /\ contenu \in [TETES -> Seq(ELEMS)]
  /\ Structure(next, prev, contenu)
  /\ AjoutSuivi

LEMMA InitIInvMaillons == InitSuivi => IInvMaillons
<1>1. SUFFICES ASSUME InitSuivi PROVE IInvMaillons
  OBVIOUS
<1>2. /\ next = [m \in Maillons |-> IF m \in TETES THEN m ELSE NUL]
      /\ prev = next /\ priorite \in [ELEMS -> PRIOS] /\ ajout = AucunAjout
      /\ contenu = [h \in TETES |-> << >>]
  BY <1>1 DEF InitSuivi, InitMaillons
<1>3. next \in Liens /\ prev \in Liens
  BY <1>2 DEF Liens, Maillons
<1>4. contenu \in [TETES -> Seq(ELEMS)]
  BY <1>2, EmptySeq
<1>5. \A h \in TETES : contenu[h] = << >> /\ Range(contenu[h]) = {}
  <2>1. Range(<< >>) = {}
    BY DEF Range
  <2>2. QED
    BY <1>2, <2>1
<1>6. ASSUME NEW h \in TETES
      PROVE  Anneau(next, prev, h, << >>) /\ SansDoublon(<< >>)
  <2>1. Len(<< >>) = 0
    BY EmptySeq
  <2>2. h \in Maillons
    BY DEF Maillons
  <2>3. \A i : Maillon(h, << >>, i) = h
    <3>1. \A i : i \notin 1..0
      OBVIOUS
    <3>2. QED
      BY <2>1, <3>1 DEF Maillon
  <2>4. SansDoublon(<< >>)
    BY <2>1 DEF SansDoublon
  <2>5. next[h] = h /\ prev[h] = h
    BY <1>2, <2>2
  <2>6. QED
    BY <2>3, <2>4, <2>5 DEF Anneau
<1>7. \A e \in ELEMS : next[e] = NUL /\ prev[e] = NUL
  BY <1>2, MaillonsAssumption DEF Maillons
<1>8. Structure(next, prev, contenu)
  BY <1>5, <1>6, <1>7 DEF Structure
<1>9. AjoutSuivi
  BY <1>2 DEF AjoutSuivi, Repos
<1>10. QED
  BY <1>2, <1>3, <1>4, <1>8, <1>9 DEF IInvMaillons

LEMMA PasDebutAjout ==
  ASSUME IInvMaillons, NEW e \in ELEMS, NEW h \in TETES, DebutAjout(e, h), UNCHANGED contenu
  PROVE  IInvMaillons'
<1>1. /\ next \in Liens /\ prev \in Liens /\ priorite \in [ELEMS -> PRIOS]
      /\ contenu \in [TETES -> Seq(ELEMS)] /\ Structure(next, prev, contenu)
  BY DEF IInvMaillons
<1>2. /\ prev[e] = NUL /\ next[e] = NUL
      /\ ajout' = [elem |-> e, tete |-> h, cur |-> next[h]]
      /\ prev' = prev /\ next' = next /\ priorite' = priorite /\ contenu' = contenu
  BY DEF DebutAjout
<1>3. \A g \in TETES : e \notin Range(contenu[g])
  <2>1. SUFFICES ASSUME NEW g \in TETES, e \in Range(contenu[g]) PROVE FALSE
    OBVIOUS
  <2>2. contenu[g] \in Seq(ELEMS) /\ Anneau(next, prev, g, contenu[g])
    BY <1>1 DEF Structure
  <2>3. next[e] # NUL
    BY <2>1, <2>2, AnneauNonNul
  <2>4. QED
    BY <1>2, <2>3
<1>4. PICK s \in Seq(ELEMS) : s = contenu[h]
  BY <1>1
<1>5. PICK n \in Nat : n = Len(s)
  BY LenProperties, <1>4
<1>6. next[h] = Maillon(h, s, 1) /\ next[h] \in Maillons
  <2>1. 0 \in 0..n /\ 0 \notin 1..n /\ 0+1 = 1
    BY <1>5
  <2>2. Anneau(next, prev, h, s)
    BY <1>1, <1>4 DEF Structure
  <2>3. next[Maillon(h, s, 0)] = Maillon(h, s, 1)
    BY <1>5, <2>1, <2>2 DEF Anneau
  <2>4. Maillon(h, s, 0) = h /\ Maillon(h, s, 1) \in Maillons
    BY <1>4, <1>5, <2>1, Places
  <2>5. QED
    BY <2>3, <2>4
<1>7. AjoutSuivi'
  <2>1. /\ ajout' \in [elem : ELEMS, tete : TETES, cur : Maillons]
        /\ ajout'.elem = e /\ ajout'.tete = h /\ ajout'.cur = next[h]
    BY <1>2, <1>6
  <2>2. 1 \in 1..n+1 /\ \A j \in 1..n : ~(j < 1)
    BY <1>5
  <2>3. /\ ajout'.cur = Maillon(ajout'.tete, contenu'[ajout'.tete], 1)
        /\ 1 \in 1..Len(contenu'[ajout'.tete])+1
        /\ \A j \in 1..Len(contenu'[ajout'.tete]) : ~(j < 1)
    BY <1>2, <1>4, <1>5, <1>6, <2>1, <2>2
  <2>4. \A g \in TETES : ajout'.elem \notin Range(contenu'[g])
    BY <1>2, <1>3, <2>1
  <2>5. QED
    BY <2>1, <2>3, <2>4, Zenon DEF AjoutSuivi
<1>8. QED
  BY <1>1, <1>2, <1>7 DEF IInvMaillons

LEMMA AjoutEnCours ==
  ASSUME IInvMaillons, ~Repos
  PROVE  /\ ajout \in [elem : ELEMS, tete : TETES, cur : Maillons]
         /\ \A g \in TETES : ajout.elem \notin Range(contenu[g])
         /\ contenu[ajout.tete] \in Seq(ELEMS)
         /\ Anneau(next, prev, ajout.tete, contenu[ajout.tete])
         /\ SansDoublon(contenu[ajout.tete])
         /\ \E k \in 1..Len(contenu[ajout.tete])+1 :
              /\ ajout.cur = Maillon(ajout.tete, contenu[ajout.tete], k)
              /\ \A j \in 1..Len(contenu[ajout.tete]) :
                   j < k => priorite[contenu[ajout.tete][j]] < priorite[ajout.elem]
<1>1. /\ ajout \in [elem : ELEMS, tete : TETES, cur : Maillons]
      /\ \A g \in TETES : ajout.elem \notin Range(contenu[g])
      /\ \E k \in 1..Len(contenu[ajout.tete])+1 :
           /\ ajout.cur = Maillon(ajout.tete, contenu[ajout.tete], k)
           /\ \A j \in 1..Len(contenu[ajout.tete]) :
                j < k => priorite[contenu[ajout.tete][j]] < priorite[ajout.elem]
  BY Zenon DEF IInvMaillons, AjoutSuivi
<1>2. ajout.tete \in TETES
  BY <1>1
<1>3. /\ contenu[ajout.tete] \in Seq(ELEMS)
      /\ Anneau(next, prev, ajout.tete, contenu[ajout.tete])
      /\ SansDoublon(contenu[ajout.tete])
  BY <1>2 DEF IInvMaillons, Structure
<1>4. QED
  BY <1>1, <1>3, Zenon

LEMMA PasAvancer ==
  ASSUME IInvMaillons, Avancer, UNCHANGED contenu
  PROVE  IInvMaillons'
<1>1. /\ next \in Liens /\ prev \in Liens /\ priorite \in [ELEMS -> PRIOS]
      /\ contenu \in [TETES -> Seq(ELEMS)] /\ Structure(next, prev, contenu)
  BY DEF IInvMaillons
<1>2. /\ ~Repos /\ Continuer
      /\ ajout' = [ajout EXCEPT !.cur = next[ajout.cur]]
      /\ prev' = prev /\ next' = next /\ priorite' = priorite /\ contenu' = contenu
  BY DEF Avancer
<1>3. PICK e \in ELEMS, h \in TETES, x \in Maillons :
        /\ ajout = [elem |-> e, tete |-> h, cur |-> x]
        /\ ajout.elem = e /\ ajout.tete = h /\ ajout.cur = x
  BY <1>2, AjoutEnCours
<1>4. PICK s \in Seq(ELEMS) : s = contenu[h]
  BY <1>1, <1>3
<1>5. PICK n \in Nat : n = Len(s)
  BY LenProperties, <1>4
<1>6. PICK k \in 1..n+1 : /\ x = Maillon(h, s, k)
                          /\ \A j \in 1..n : j < k => priorite[s[j]] < priorite[e]
  <2>1. \E k \in 1..Len(contenu[ajout.tete])+1 :
          /\ ajout.cur = Maillon(ajout.tete, contenu[ajout.tete], k)
          /\ \A j \in 1..Len(contenu[ajout.tete]) :
               j < k => priorite[contenu[ajout.tete][j]] < priorite[ajout.elem]
    BY <1>2, AjoutEnCours, Zenon
  <2>2. QED
    BY <1>3, <1>4, <1>5, <2>1
<1>7. /\ \A i \in 1..n : Maillon(h, s, i) = s[i] /\ s[i] \in ELEMS
      /\ \A i : i \notin 1..n => Maillon(h, s, i) = h
      /\ \A i : Maillon(h, s, i) \in Maillons
  BY <1>3, <1>4, <1>5, Places
<1>8. x # h /\ priorite[x] < priorite[e]
  BY <1>2, <1>3 DEF Continuer
<1>9. k \in 1..n /\ x = s[k]
  <2>1. k \in 1..n
    BY <1>6, <1>7, <1>8
  <2>2. QED
    BY <1>6, <1>7, <2>1
<1>10. k \in 0..n /\ k+1 \in 1..n+1 /\ \A j \in 1..n : j < k+1 => j < k \/ j = k
  BY <1>9
<1>11. next[x] = Maillon(h, s, k+1) /\ next[x] \in Maillons
  <2>1. Anneau(next, prev, h, s)
    BY <1>1, <1>3, <1>4 DEF Structure
  <2>2. next[Maillon(h, s, k)] = Maillon(h, s, k+1)
    BY <1>5, <1>10, <2>1 DEF Anneau
  <2>3. QED
    BY <1>6, <1>7, <2>2
<1>12. \A j \in 1..n : j < k+1 => priorite[s[j]] < priorite[e]
  BY <1>6, <1>8, <1>9, <1>10
<1>13. AjoutSuivi'
  <2>1. ajout' = [elem |-> e, tete |-> h, cur |-> next[x]]
    BY <1>2, <1>3
  <2>2. /\ ajout' \in [elem : ELEMS, tete : TETES, cur : Maillons]
        /\ ajout'.elem = e /\ ajout'.tete = h /\ ajout'.cur = next[x]
    BY <1>3, <1>11, <2>1
  <2>3. /\ k+1 \in 1..Len(contenu'[ajout'.tete])+1
        /\ ajout'.cur = Maillon(ajout'.tete, contenu'[ajout'.tete], k+1)
        /\ \A j \in 1..Len(contenu'[ajout'.tete]) :
             j < k+1 => priorite'[contenu'[ajout'.tete][j]] < priorite'[ajout'.elem]
    BY <1>2, <1>4, <1>5, <1>10, <1>11, <1>12, <2>2
  <2>4. \A g \in TETES : ajout'.elem \notin Range(contenu'[g])
    BY <1>2, <1>3, <2>2, AjoutEnCours
  <2>5. QED
    BY <2>2, <2>3, <2>4, Zenon DEF AjoutSuivi
<1>14. QED
  BY <1>1, <1>2, <1>13 DEF IInvMaillons

LEMMA PasChainer ==
  ASSUME IInvMaillons, Chainer,
         contenu' = [contenu EXCEPT ![ajout.tete] =
                       queue_add(contenu[ajout.tete], ajout.elem, priorite)]
  PROVE  IInvMaillons'
<1>1. /\ next \in Liens /\ prev \in Liens /\ priorite \in [ELEMS -> PRIOS]
      /\ contenu \in [TETES -> Seq(ELEMS)] /\ Structure(next, prev, contenu)
  BY DEF IInvMaillons
<1>2. ~Repos /\ ~Continuer /\ ajout' = AucunAjout /\ priorite' = priorite
  BY DEF Chainer
<1>3. PICK e \in ELEMS, h \in TETES, x \in Maillons :
        ajout.elem = e /\ ajout.tete = h /\ ajout.cur = x
  BY <1>2, AjoutEnCours
<1>4. PICK s \in Seq(ELEMS) : s = contenu[h]
  BY <1>1, <1>3
<1>5. PICK n \in Nat : n = Len(s)
  BY LenProperties, <1>4
<1>6. /\ Anneau(next, prev, h, s) /\ SansDoublon(s)
      /\ \A g \in TETES : e \notin Range(contenu[g])
  BY <1>2, <1>3, <1>4, AjoutEnCours
<1>7. PICK k \in 1..n+1 : /\ x = Maillon(h, s, k)
                          /\ \A j \in 1..n : j < k => priorite[s[j]] < priorite[e]
  <2>1. \E k \in 1..Len(contenu[ajout.tete])+1 :
          /\ ajout.cur = Maillon(ajout.tete, contenu[ajout.tete], k)
          /\ \A j \in 1..Len(contenu[ajout.tete]) :
               j < k => priorite[contenu[ajout.tete][j]] < priorite[ajout.elem]
    BY <1>2, AjoutEnCours, Zenon
  <2>2. QED
    BY <1>3, <1>4, <1>5, <2>1
<1>8. priorite \in [ELEMS -> Int]
  BY <1>1, MaillonsAssumption
<1>9. k = PlaceAjout(s, e, priorite)
  <2>1. PICK i : i = PlaceAjout(s, e, priorite)
    OBVIOUS
  <2>2. /\ i \in 1..Len(s)+1
        /\ i = Len(s)+1 \/ priorite[s[i]] >= priorite[e]
        /\ \A j \in 1..Len(s) : j < i => priorite[s[j]] < priorite[e]
    BY <1>3, <1>4, <1>8, <2>1, PlaceAjoutProp, Zenon
  <2>3. /\ i \in 1..n+1
        /\ i = n+1 \/ priorite[s[i]] >= priorite[e]
        /\ \A j \in 1..n : j < i => priorite[s[j]] < priorite[e]
    BY <1>5, <2>2
  <2>4. \A j \in 1..n : priorite[s[j]] \in Int /\ priorite[e] \in Int
    BY <1>3, <1>4, <1>5, <1>8, ElementOfSeq
  <2>i. i \in 1..n+1
    BY <2>3
  <2>k. k \in 1..n+1
    BY <1>7
  <2>5. CASE i < k
    <3>1. i \in 1..n /\ i # n+1
      BY <2>5, <2>i, <2>k
    <3>2. priorite[s[i]] < priorite[e] /\ priorite[s[i]] >= priorite[e]
      BY <1>7, <2>3, <2>5, <3>1
    <3>3. QED
      BY <2>4, <3>1, <3>2
  <2>6. CASE k < i
    <3>1. k \in 1..n
      BY <2>6, <2>i, <2>k
    <3>2. priorite[s[k]] < priorite[e]
      BY <2>3, <2>6, <3>1
    <3>3. x = s[k] /\ x # h
      BY <1>3, <1>4, <1>5, <1>7, <3>1, Places
    <3>4. ~(priorite[s[k]] < priorite[e])
      BY <1>2, <1>3, <3>3 DEF Continuer
    <3>5. QED
      BY <3>2, <3>4
  <2>7. QED
    BY <2>1, <2>5, <2>6, <2>i, <2>k
<1>10. PICK t : t = queue_add(s, e, priorite)
  OBVIOUS
<1>11. /\ t \in Seq(ELEMS) /\ EstInsertion(t, s, k, e)
       /\ Range(t) = Range(s) \cup {e} /\ SansDoublon(t)
  <2>1. t \in Seq(ELEMS) /\ EstInsertion(t, s, k, e)
    BY <1>3, <1>4, <1>8, <1>9, <1>10, AjoutInsertion, Zenon
  <2>2. e \notin Range(s)
    BY <1>3, <1>4, <1>6
  <2>3. Range(t) = Range(s) \cup {e} /\ SansDoublon(t)
    <3>1. s \in Seq(ELEMS) /\ e \in ELEMS /\ priorite \in [ELEMS -> Int]
      BY <1>3, <1>4, <1>8
    <3>2. Range(queue_add(s, e, priorite)) = Range(s) \cup {e}
      BY <3>1, AjoutElements
    <3>3. SansDoublon(queue_add(s, e, priorite))
      BY <1>6, <2>2, <3>1, AjoutElements, Zenon
    <3>4. QED
      BY <1>10, <3>2, <3>3
  <2>4. QED
    BY <2>1, <2>3
<1>12. next' = NextAjout(next, prev, e, x) /\ prev' = PrevAjout(prev, e, x)
  BY <1>3 DEF Chainer, NextAjout, PrevAjout
<1>13. contenu' = [contenu EXCEPT ![h] = t]
  BY <1>3, <1>4, <1>10
<1>14. /\ next' \in Liens /\ prev' \in Liens
       /\ contenu' \in [TETES -> Seq(ELEMS)] /\ Structure(next', prev', contenu')
  <2>1. /\ k \in 1..Len(contenu[h])+1
        /\ EstInsertion(t, contenu[h], k, e)
        /\ Range(t) = Range(contenu[h]) \cup {e} /\ SansDoublon(t)
        /\ x = Maillon(h, contenu[h], k)
    BY <1>4, <1>5, <1>7, <1>11
  <2>2. h \in TETES /\ e \in ELEMS /\ t \in Seq(ELEMS)
    BY <1>3, <1>11
  <2>3. PICK mx, mv : mx = NextAjout(next, prev, e, x) /\ mv = PrevAjout(prev, e, x)
    OBVIOUS
  <2>4. /\ mx \in Liens /\ mv \in Liens
        /\ [contenu EXCEPT ![h] = t] \in [TETES -> Seq(ELEMS)]
        /\ Structure(mx, mv, [contenu EXCEPT ![h] = t])
    BY <1>1, <1>6, <2>1, <2>2, <2>3, InsertionStructure
  <2>5. QED
    BY <1>12, <1>13, <2>3, <2>4
<1>15. AjoutSuivi'
  BY <1>2 DEF AjoutSuivi, Repos
<1>16. QED
  BY <1>1, <1>2, <1>14, <1>15 DEF IInvMaillons

(* queue_out takes the last place out. *)
LEMMA PasSortir ==
  ASSUME IInvMaillons, NEW h \in TETES, Sortir(h),
         contenu' = [contenu EXCEPT ![h] = queue_out(contenu[h])]
  PROVE  IInvMaillons'
<1>1. /\ next \in Liens /\ prev \in Liens /\ priorite \in [ELEMS -> PRIOS]
      /\ contenu \in [TETES -> Seq(ELEMS)] /\ Structure(next, prev, contenu)
  BY DEF IInvMaillons
<1>2. /\ Repos /\ next[h] # h /\ ajout' = ajout /\ priorite' = priorite
      /\ prev' = [prev EXCEPT ![h] = prev[prev[h]], ![prev[h]] = NUL]
      /\ next' = [next EXCEPT ![prev[prev[h]]] = h, ![prev[h]] = NUL]
  BY DEF Sortir, Vide
<1>3. PICK s \in Seq(ELEMS) : s = contenu[h]
  BY <1>1
<1>4. PICK n \in Nat : n = Len(s)
  BY LenProperties, <1>3
<1>5. Anneau(next, prev, h, s) /\ SansDoublon(s)
  BY <1>1, <1>3 DEF Structure
<1>6. /\ \A i \in 1..n : Maillon(h, s, i) = s[i]
      /\ \A i : i \notin 1..n => Maillon(h, s, i) = h
  BY <1>3, <1>4, Places
<1>7. \A i \in 0..n : /\ next[Maillon(h, s, i)] = Maillon(h, s, i+1)
                      /\ prev[Maillon(h, s, i+1)] = Maillon(h, s, i)
  BY <1>4, <1>5 DEF Anneau
<1>8. n # 0
  <2>1. SUFFICES ASSUME n = 0 PROVE FALSE
    OBVIOUS
  <2>2. 0 \in 0..n /\ 0 \notin 1..n /\ 0+1 \notin 1..n
    BY <2>1
  <2>3. QED
    BY <1>2, <1>6, <1>7, <2>2
<1>9. n \in 0..n /\ n \in 1..n /\ n+1 \notin 1..n
  BY <1>8
<1>10. prev[h] = s[n] /\ next[s[n]] = h
  BY <1>6, <1>7, <1>9
<1>11. queue_out(s) \in Seq(ELEMS) /\ EstRetrait(queue_out(s), s, n)
  <2>1. s # << >>
    BY <1>4, <1>8, EmptySeq
  <2>2. queue_out(s) \in Seq(ELEMS) /\ EstRetrait(queue_out(s), s, Len(s))
    BY <1>3, <2>1, SortieRetrait DEF queue_empty
  <2>3. QED
    BY <1>4, <2>2
<1>12. next' = NextRetrait(next, prev, s[n]) /\ prev' = PrevRetrait(next, prev, s[n])
  BY <1>2, <1>10 DEF NextRetrait, PrevRetrait
<1>13. /\ next' \in Liens /\ prev' \in Liens
       /\ contenu' \in [TETES -> Seq(ELEMS)] /\ Structure(next', prev', contenu')
  <2>1. PICK t \in Seq(ELEMS) : t = queue_out(s)
    BY <1>11
  <2>2. n \in 1..Len(contenu[h]) /\ EstRetrait(t, contenu[h], n)
    BY <1>3, <1>4, <1>9, <1>11, <2>1
  <2>3. LET e  == contenu[h][n]
            mx == NextRetrait(next, prev, e)
            mv == PrevRetrait(next, prev, e)
        IN /\ mx \in Liens /\ mv \in Liens
           /\ [contenu EXCEPT ![h] = t] \in [TETES -> Seq(ELEMS)]
           /\ Structure(mx, mv, [contenu EXCEPT ![h] = t])
    BY <1>1, <2>1, <2>2, RetraitStructure
  <2>4. QED
    BY <1>3, <1>12, <2>1, <2>3
<1>14. AjoutSuivi'
  BY <1>2 DEF AjoutSuivi, Repos
<1>15. QED
  BY <1>1, <1>2, <1>13, <1>14 DEF IInvMaillons

(* queue_del takes out the place of the element it is given. *)
LEMMA PasSupprimer ==
  ASSUME IInvMaillons, NEW e \in ELEMS, NEW h \in TETES,
         e \in Range(contenu[h]), Supprimer(e),
         contenu' = [contenu EXCEPT ![h] = queue_del(contenu[h], e)]
  PROVE  IInvMaillons'
<1>1. /\ next \in Liens /\ prev \in Liens /\ priorite \in [ELEMS -> PRIOS]
      /\ contenu \in [TETES -> Seq(ELEMS)] /\ Structure(next, prev, contenu)
  BY DEF IInvMaillons
<1>2. /\ Repos /\ ajout' = ajout /\ priorite' = priorite
      /\ next' = NextRetrait(next, prev, e) /\ prev' = PrevRetrait(next, prev, e)
  BY DEF Supprimer, NextRetrait, PrevRetrait
<1>3. contenu[h] \in Seq(ELEMS)
  BY <1>1
<1>4. PICK k \in 1..Len(contenu[h]) : /\ contenu[h][k] = e
                                      /\ queue_del(contenu[h], e) \in Seq(ELEMS)
                                      /\ EstRetrait(queue_del(contenu[h], e), contenu[h], k)
  BY <1>3, SuppressionRetrait, Zenon
<1>5. PICK t \in Seq(ELEMS) : t = queue_del(contenu[h], e)
  BY <1>4
<1>6. LET y  == contenu[h][k]
          mx == NextRetrait(next, prev, y)
          mv == PrevRetrait(next, prev, y)
      IN /\ mx \in Liens /\ mv \in Liens
         /\ [contenu EXCEPT ![h] = t] \in [TETES -> Seq(ELEMS)]
         /\ Structure(mx, mv, [contenu EXCEPT ![h] = t])
  <2>1. EstRetrait(t, contenu[h], k) /\ k \in 1..Len(contenu[h])
    BY <1>4, <1>5
  <2>2. QED
    BY <1>1, <1>5, <2>1, RetraitStructure
<1>7. /\ next' \in Liens /\ prev' \in Liens
      /\ contenu' \in [TETES -> Seq(ELEMS)] /\ Structure(next', prev', contenu')
  BY <1>2, <1>4, <1>5, <1>6
<1>8. AjoutSuivi'
  BY <1>2 DEF AjoutSuivi, Repos
<1>9. QED
  BY <1>1, <1>2, <1>7, <1>8 DEF IInvMaillons

LEMMA PasChangerPriorite ==
  ASSUME IInvMaillons, NEW e \in ELEMS, NEW p \in PRIOS,
         ChangerPriorite(e, p), UNCHANGED contenu
  PROVE  IInvMaillons'
<1>1. /\ next' = next /\ prev' = prev /\ ajout' = ajout /\ contenu' = contenu
      /\ Repos /\ priorite' = [priorite EXCEPT ![e] = p]
  BY DEF ChangerPriorite
<1>2. priorite' \in [ELEMS -> PRIOS]
  BY <1>1 DEF IInvMaillons
<1>3. AjoutSuivi'
  BY <1>1 DEF AjoutSuivi, Repos
<1>4. QED
  BY <1>1, <1>2, <1>3 DEF IInvMaillons

-----------------------------------------------------------------------------
LEMMA IInvMaillonsStable == IInvMaillons /\ [NextSuivi]_varsSuivies => IInvMaillons'
<1>1. SUFFICES ASSUME IInvMaillons, [NextSuivi]_varsSuivies PROVE IInvMaillons'
  OBVIOUS
<1>2. ASSUME NEW e \in ELEMS, NEW h \in TETES, DebutAjout(e, h), UNCHANGED contenu
      PROVE  IInvMaillons'
  BY <1>1, <1>2, PasDebutAjout
<1>3. CASE Avancer /\ UNCHANGED contenu
  BY <1>1, <1>3, PasAvancer
<1>4. CASE /\ Chainer
           /\ contenu' = [contenu EXCEPT ![ajout.tete] = queue_add(@, ajout.elem, priorite)]
  BY <1>1, <1>4, PasChainer
<1>5. ASSUME NEW h \in TETES, Sortir(h), contenu' = [contenu EXCEPT ![h] = queue_out(@)]
      PROVE  IInvMaillons'
  BY <1>1, <1>5, PasSortir
<1>6. ASSUME NEW e \in ELEMS, NEW h \in TETES, e \in Range(contenu[h]), Supprimer(e),
             contenu' = [contenu EXCEPT ![h] = queue_del(@, e)]
      PROVE  IInvMaillons'
  BY <1>1, <1>6, PasSupprimer
<1>7. ASSUME NEW e \in ELEMS, NEW p \in PRIOS, ChangerPriorite(e, p), UNCHANGED contenu
      PROVE  IInvMaillons'
  BY <1>1, <1>7, PasChangerPriorite
<1>8. CASE UNCHANGED varsSuivies
  BY <1>1, <1>8 DEF varsSuivies, IInvMaillons, AjoutSuivi, Repos
<1>9. QED
  BY <1>1, <1>2, <1>3, <1>4, <1>5, <1>6, <1>7, <1>8 DEF NextSuivi

(* In every reachable state the links of queue.h, read either way, are     *)
(* exactly the sequences that queue_add, queue_out and queue_del of module *)
(* FilePrio compute, an element is in one ring at most, and its two null   *)
(* fields tell that it is in none: the assertions of queue.h are exact.    *)
THEOREM RepresenteCorrect == SpecSuivie => []Represente
<1>1. InitSuivi => IInvMaillons
  BY InitIInvMaillons
<1>2. IInvMaillons /\ [NextSuivi]_varsSuivies => IInvMaillons'
  BY IInvMaillonsStable
<1>3. IInvMaillons => Represente
  BY StructureRepresente DEF IInvMaillons
<1>4. QED
  BY <1>1, <1>2, <1>3, PTL DEF SpecSuivie
-----------------------------------------------------------------------------
(* From here on, that these lists keep the promise of FilesParPriorite.    *)
(* Remonter is defined by recursion along a sequence; what it gives comes  *)
(* from a set that holds << >> and, with a sequence, each of its           *)
(* extensions: it holds them all, since its shortest omission would be an  *)
(* extension of one of its members.                                        *)
LEMMA RecurrenceSuites ==
  ASSUME NEW S, NEW A, << >> \in A,
         \A s \in Seq(S), e \in S : s \in A => Append(s, e) \in A
  PROVE  Seq(S) \subseteq A
<1>1. SUFFICES ASSUME NEW s \in Seq(S), s \notin A PROVE FALSE
  OBVIOUS
<1> DEFINE L == {n \in Nat : \E t \in Seq(S) : t \notin A /\ Len(t) = n}
<1>2. L \in SUBSET Nat /\ Len(s) \in L
  BY <1>1, LenProperties
<1>3. PICK n \in L : \A m \in L : n <= m
  BY <1>2, PlusPetit, Zenon
<1>4. PICK t \in Seq(S) : t \notin A /\ Len(t) = n
  BY <1>3
<1>5. t # << >>
  BY <1>4
<1>6. PICK u \in Seq(S), e \in S : t = Append(u, e)
  BY <1>5, SequenceEmptyOrAppend
<1>7. Len(u) \in Nat /\ Len(t) = Len(u) + 1
  BY <1>6, LenProperties, AppendProperties
<1>8. CASE u \in A
  BY <1>4, <1>6, <1>8
<1>9. CASE u \notin A
  <2>1. Len(u) \in L
    BY <1>7, <1>9
  <2>2. n <= Len(u)
    BY <1>3, <2>1
  <2>3. QED
    BY <1>4, <1>7, <2>2
<1>10. QED
  BY <1>8, <1>9

(* g is what the recursion of Remonter defines on s. *)
Tete(T, e, r) == IF e \in T THEN <<e>> \o r ELSE r

EstRemontee(g, s, T) ==
  g = [n \in 0..Len(s) |-> IF n = 0 THEN << >> ELSE Tete(T, s[n], g[n-1])]

LEMMA RemonteeDebut ==
  ASSUME NEW s \in Seq(ELEMS), NEW e \in ELEMS, NEW T, NEW g,
         EstRemontee(g, Append(s, e), T)
  PROVE  /\ EstRemontee([n \in 0..Len(s) |-> g[n]], s, T)
         /\ g[Len(s)+1] = Tete(T, e, g[Len(s)])
<1>1. PICK l \in Nat : l = Len(s)
  BY LenProperties
<1>2. PICK t : t = Append(s, e)
  OBVIOUS
<1>3. Len(t) = l+1 /\ t[l+1] = e /\ \A i \in 1..l : t[i] = s[i]
  BY <1>1, <1>2, AppendProperties
<1>4. \A n \in 0..l+1 : g[n] = IF n = 0 THEN << >> ELSE Tete(T, t[n], g[n-1])
  <2>1. g = [n \in 0..l+1 |-> IF n = 0 THEN << >> ELSE Tete(T, t[n], g[n-1])]
    BY <1>2, <1>3 DEF EstRemontee
  <2>2. QED
    BY <2>1, Zenon
<1>5. PICK d : d = [n \in 0..l |-> g[n]]
  OBVIOUS
<1>6. ASSUME NEW n \in 0..l
      PROVE  d[n] = IF n = 0 THEN << >> ELSE Tete(T, s[n], d[n-1])
  <2>1. CASE n = 0
    BY <1>1, <1>4, <1>5, <2>1
  <2>2. CASE n # 0
    <3>1. n \in 0..l+1 /\ n-1 \in 0..l /\ n \in 1..l
      BY <1>1, <2>2
    <3>2. d[n] = g[n] /\ d[n-1] = g[n-1] /\ t[n] = s[n]
      BY <1>3, <1>5, <3>1
    <3>3. g[n] = Tete(T, t[n], g[n-1])
      BY <1>4, <2>2, <3>1
    <3>4. QED
      BY <2>2, <3>2, <3>3
  <2>3. QED
    BY <2>1, <2>2
<1>7. d = [n \in 0..l |-> IF n = 0 THEN << >> ELSE Tete(T, s[n], d[n-1])]
  <2>1. d = [n \in 0..l |-> d[n]]
    BY <1>5
  <2>2. [n \in 0..l |-> d[n]] = [n \in 0..l |-> IF n = 0 THEN << >> ELSE Tete(T, s[n], d[n-1])]
    BY <1>6, Zenon
  <2>3. QED
    BY <2>1, <2>2, Zenon
<1>8. g[l+1] = Tete(T, e, g[l])
  <2>1. l+1 \in 0..l+1 /\ l+1 # 0 /\ (l+1)-1 = l
    BY <1>1
  <2>2. g[l+1] = Tete(T, t[l+1], g[(l+1)-1])
    BY <1>4, <2>1, Zenon
  <2>3. QED
    BY <1>3, <2>1, <2>2
<1>9. QED
  BY <1>1, <1>5, <1>7, <1>8 DEF EstRemontee

UneRemontee(s, T) ==
  \E g : EstRemontee(g, s, T) /\ \A f : EstRemontee(f, s, T) => f = g

LEMMA RemonteeUnique == \A T : \A s \in Seq(ELEMS) : UneRemontee(s, T)
<1> SUFFICES ASSUME NEW T PROVE \A s \in Seq(ELEMS) : UneRemontee(s, T)
  OBVIOUS
<1> DEFINE A == {t \in Seq(ELEMS) : UneRemontee(t, T)}
<1>1. << >> \in A
  <2>1. << >> \in Seq(ELEMS) /\ Len(<< >>) = 0
    BY EmptySeq
  <2>2. PICK g : g = [n \in 0..0 |-> << >>]
    OBVIOUS
  <2>3. ASSUME NEW f
        PROVE  EstRemontee(f, << >>, T) <=> f = g
    <3>1. \A n \in 0..0 : n = 0
      OBVIOUS
    <3>2. [n \in 0..0 |-> IF n = 0 THEN << >> ELSE Tete(T, << >>[n], f[n-1])] = g
      BY <2>2, <3>1, Zenon
    <3>3. EstRemontee(f, << >>, T) <=>
            f = [n \in 0..0 |-> IF n = 0 THEN << >> ELSE Tete(T, << >>[n], f[n-1])]
      BY <2>1, Zenon DEF EstRemontee
    <3>4. QED
      BY <3>2, <3>3
  <2>4. UneRemontee(<< >>, T)
    BY <2>3 DEF UneRemontee
  <2>5. QED
    BY <2>1, <2>4
<1>2. ASSUME NEW t \in Seq(ELEMS), NEW e \in ELEMS, t \in A
      PROVE  Append(t, e) \in A
  <2>1. PICK g : EstRemontee(g, t, T) /\ \A f : EstRemontee(f, t, T) => f = g
    BY <1>2 DEF UneRemontee
  <2>2. PICK l \in Nat : l = Len(t)
    BY LenProperties
  <2>3. PICK u \in Seq(ELEMS) : u = Append(t, e)
    BY AppendProperties
  <2>4. Len(u) = l+1 /\ u[l+1] = e /\ \A i \in 1..l : u[i] = t[i]
    BY <2>2, <2>3, AppendProperties
  <2>5. PICK k : k = [n \in 0..l+1 |-> IF n = l+1 THEN Tete(T, e, g[l]) ELSE g[n]]
    OBVIOUS
  <2>6. g = [n \in 0..l |-> IF n = 0 THEN << >> ELSE Tete(T, t[n], g[n-1])]
    BY <2>1, <2>2 DEF EstRemontee
  <2>7. EstRemontee(k, u, T)
    <3>1. ASSUME NEW n \in 0..l+1
          PROVE  k[n] = IF n = 0 THEN << >> ELSE Tete(T, u[n], k[n-1])
      <4>1. CASE n = 0
        <5>1. n \in 0..l /\ n # l+1
          BY <4>1
        <5>2. k[n] = g[n] /\ g[n] = << >>
          BY <2>5, <2>6, <4>1, <5>1
        <5>3. QED
          BY <4>1, <5>2
      <4>2. CASE n = l+1
        <5>1. n # 0 /\ n-1 = l /\ l \in 0..l+1 /\ l # l+1
          BY <4>2
        <5>2. k[n] = Tete(T, e, g[l]) /\ k[l] = g[l]
          BY <2>5, <4>2, <5>1
        <5>3. QED
          BY <2>4, <4>2, <5>1, <5>2
      <4>3. CASE n # 0 /\ n # l+1
        <5>1. n \in 0..l /\ n \in 1..l /\ n-1 \in 0..l+1 /\ n-1 # l+1
          BY <4>3
        <5>2. k[n] = g[n] /\ k[n-1] = g[n-1] /\ u[n] = t[n]
          BY <2>4, <2>5, <4>3, <5>1
        <5>3. g[n] = Tete(T, t[n], g[n-1])
          BY <2>6, <4>3, <5>1
        <5>4. QED
          BY <4>3, <5>2, <5>3
      <4>4. QED
        BY <4>1, <4>2, <4>3
    <3>2. k = [n \in 0..l+1 |-> k[n]]
      BY <2>5
    <3>3. [n \in 0..l+1 |-> k[n]]
            = [n \in 0..l+1 |-> IF n = 0 THEN << >> ELSE Tete(T, u[n], k[n-1])]
      BY <3>1, Zenon
    <3>4. QED
      BY <2>4, <3>2, <3>3 DEF EstRemontee
  <2>8. ASSUME NEW f, EstRemontee(f, u, T)
        PROVE  f = k
    <3>1. /\ EstRemontee([n \in 0..l |-> f[n]], t, T)
          /\ f[l+1] = Tete(T, e, f[l])
      BY <2>2, <2>3, <2>8, RemonteeDebut
    <3>2. [n \in 0..l |-> f[n]] = g
      BY <2>1, <3>1
    <3>3. f = [n \in 0..l+1 |-> f[n]]
      BY <2>4, <2>8 DEF EstRemontee
    <3>4. ASSUME NEW n \in 0..l+1
          PROVE  f[n] = k[n]
      <4>1. \A m \in 0..l : f[m] = g[m]
        BY <3>2
      <4>2. l \in 0..l
        OBVIOUS
      <4>3. CASE n = l+1
        BY <2>5, <3>1, <4>1, <4>2, <4>3
      <4>4. CASE n # l+1
        <5>1. n \in 0..l
          BY <4>4
        <5>2. QED
          BY <2>5, <4>1, <4>4, <5>1
      <4>5. QED
        BY <4>3, <4>4
    <3>5. k = [n \in 0..l+1 |-> k[n]]
      BY <2>5
    <3>6. QED
      BY <3>3, <3>4, <3>5, Zenon
  <2>9. UneRemontee(u, T)
    BY <2>7, <2>8 DEF UneRemontee
  <2>10. QED
    BY <2>3, <2>9
<1>3. Seq(ELEMS) \subseteq A
  <2> HIDE DEF A
  <2>1. QED
    BY <1>1, <1>2, RecurrenceSuites
<1>4. QED
  BY <1>3

(* Remonter, one element at a time. *)
LEMMA RemonterPas ==
  ASSUME NEW T
  PROVE  /\ Remonter(T)[<< >>] = << >>
         /\ \A s \in Seq(ELEMS), e \in ELEMS :
              Remonter(T)[Append(s, e)] = Tete(T, e, Remonter(T)[s])
<1>1. ASSUME NEW s \in Seq(ELEMS), NEW g, EstRemontee(g, s, T)
      PROVE  Remonter(T)[s] = g[Len(s)]
  <2>1. PICK k : \A f : EstRemontee(f, s, T) => f = k
    BY RemonteeUnique DEF UneRemontee
  <2>2. PICK c : c = CHOOSE f : EstRemontee(f, s, T)
    OBVIOUS
  <2>3. EstRemontee(c, s, T)
    BY <1>1, <2>2
  <2>4. c = g
    BY <1>1, <2>1, <2>3
  <2>5. Remonter(T)[s] = c[Len(s)]
    <3>1. Remonter(T) = [t \in Seq(ELEMS) |-> (CHOOSE f : EstRemontee(f, t, T))[Len(t)]]
      BY DEF Remonter, EstRemontee, Tete
    <3>2. QED
      BY <2>2, <3>1, Zenon
  <2>6. QED
    BY <2>4, <2>5
<1>2. Remonter(T)[<< >>] = << >>
  <2>1. << >> \in Seq(ELEMS) /\ Len(<< >>) = 0
    BY EmptySeq
  <2>2. PICK g : EstRemontee(g, << >>, T)
    BY <2>1, RemonteeUnique DEF UneRemontee
  <2>3. g[0] = << >>
    BY <2>1, <2>2 DEF EstRemontee
  <2>4. QED
    BY <1>1, <2>1, <2>2, <2>3
<1>3. ASSUME NEW s \in Seq(ELEMS), NEW e \in ELEMS
      PROVE  Remonter(T)[Append(s, e)] = Tete(T, e, Remonter(T)[s])
  <2>1. PICK t \in Seq(ELEMS) : t = Append(s, e) /\ Len(t) = Len(s)+1
    BY AppendProperties
  <2>2. PICK g : EstRemontee(g, t, T)
    BY RemonteeUnique DEF UneRemontee
  <2>3. PICK d : d = [n \in 0..Len(s) |-> g[n]]
    OBVIOUS
  <2>4. EstRemontee(d, s, T) /\ g[Len(s)+1] = Tete(T, e, g[Len(s)])
    BY <2>1, <2>2, <2>3, RemonteeDebut
  <2>5. d[Len(s)] = g[Len(s)]
    <3>1. Len(s) \in Nat
      BY LenProperties
    <3>2. Len(s) \in 0..Len(s)
      BY <3>1
    <3>3. QED
      BY <2>3, <3>2
  <2>6. Remonter(T)[s] = d[Len(s)]
    BY <1>1, <2>4
  <2>7. Remonter(T)[t] = g[Len(t)]
    BY <1>1, <2>2
  <2>8. QED
    BY <2>1, <2>4, <2>5, <2>6, <2>7
<1>4. QED
  BY <1>2, <1>3

LEMMA Seul ==
  ASSUME NEW e \in ELEMS
  PROVE  \E x \in Seq(ELEMS) : x = <<e>> /\ Range(x) = {e}
<1>1. <<e>> \in Seq(ELEMS) /\ Range(<<e>>) = {e}
  BY DEF Range
<1>2. QED
  BY <1>1, Zenon

LEMMA TeteType ==
  ASSUME NEW T, NEW e \in ELEMS, NEW r \in Seq(ELEMS)
  PROVE  /\ Tete(T, e, r) \in Seq(ELEMS)
         /\ Range(Tete(T, e, r)) = (IF e \in T THEN {e} ELSE {}) \cup Range(r)
<1>1. PICK x \in Seq(ELEMS) : x = <<e>> /\ Range(x) = {e}
  BY Seul
<1>2. x \o r \in Seq(ELEMS) /\ Range(x \o r) = Range(x) \cup Range(r)
  BY ConcatProperties, RangeConcatenation, ZenonT(30)
<1>3. QED
  BY <1>1, <1>2 DEF Tete

LEMMA AppendRange ==
  ASSUME NEW s \in Seq(ELEMS), NEW e \in ELEMS
  PROVE  Range(Append(s, e)) = Range(s) \cup {e}
<1>1. PICK x \in Seq(ELEMS) : x = <<e>> /\ Range(x) = {e}
  BY Seul
<1>2. Append(s, e) = s \o x
  BY <1>1, AppendIsConcat
<1>3. Range(s \o x) = Range(s) \cup Range(x)
  BY RangeConcatenation, ZenonT(30)
<1>4. QED
  BY <1>1, <1>2, <1>3

LEMMA RemonterType ==
  ASSUME NEW T, NEW s \in Seq(ELEMS)
  PROVE  /\ Remonter(T)[s] \in Seq(ELEMS)
         /\ Range(Remonter(T)[s]) = Range(s) \cap T
<1> DEFINE A == {t \in Seq(ELEMS) : /\ Remonter(T)[t] \in Seq(ELEMS)
                                    /\ Range(Remonter(T)[t]) = Range(t) \cap T}
<1>1. << >> \in A
  <2>1. << >> \in Seq(ELEMS) /\ Range(<< >>) = {}
    BY EmptySeq DEF Range
  <2>2. QED
    BY <2>1, RemonterPas
<1>2. ASSUME NEW t \in Seq(ELEMS), NEW e \in ELEMS, t \in A
      PROVE  Append(t, e) \in A
  <2>1. PICK r \in Seq(ELEMS) : r = Remonter(T)[t] /\ Range(r) = Range(t) \cap T
    BY <1>2
  <2>2. PICK u \in Seq(ELEMS) : u = Append(t, e)
    BY AppendProperties
  <2>3. Range(u) = Range(t) \cup {e}
    BY <2>2, AppendRange
  <2>4. Remonter(T)[u] = Tete(T, e, r)
    BY <2>1, <2>2, RemonterPas
  <2>5. Tete(T, e, r) \in Seq(ELEMS) /\ Range(Tete(T, e, r)) = Range(u) \cap T
    <3>1. Range(Tete(T, e, r)) = (IF e \in T THEN {e} ELSE {}) \cup Range(r)
      BY TeteType
    <3>2. QED
      BY <2>1, <2>3, <3>1, TeteType
  <2>6. QED
    BY <2>2, <2>4, <2>5
<1>3. Seq(ELEMS) \subseteq A
  <2> HIDE DEF A
  <2>1. QED
    BY <1>1, <1>2, RecurrenceSuites
<1>4. QED
  BY <1>3

LEMMA AppendConcat ==
  ASSUME NEW s \in Seq(ELEMS), NEW u \in Seq(ELEMS), NEW e \in ELEMS
  PROVE  s \o Append(u, e) = Append(s \o u, e)
<1>1. PICK x \in Seq(ELEMS) : x = <<e>>
  BY Seul
<1>2. s \o u \in Seq(ELEMS)
  BY ConcatProperties
<1>3. Append(u, e) = u \o x /\ Append(s \o u, e) = (s \o u) \o x
  BY <1>1, <1>2, AppendIsConcat, Zenon
<1>4. (s \o u) \o x = s \o (u \o x)
  BY ConcatAssociative
<1>5. QED
  BY <1>3, <1>4

LEMMA TeteConcat ==
  ASSUME NEW T, NEW e \in ELEMS, NEW q \in Seq(ELEMS), NEW r \in Seq(ELEMS)
  PROVE  Tete(T, e, q \o r) = Tete(T, e, q) \o r
<1>1. PICK x \in Seq(ELEMS) : x = <<e>>
  BY Seul
<1>2. (x \o q) \o r = x \o (q \o r)
  BY ConcatAssociative
<1>3. QED
  BY <1>1, <1>2 DEF Tete

LEMMA RemonterConcat ==
  ASSUME NEW T, NEW s \in Seq(ELEMS), NEW t \in Seq(ELEMS)
  PROVE  Remonter(T)[s \o t] = Remonter(T)[t] \o Remonter(T)[s]
<1> DEFINE A == {u \in Seq(ELEMS) : Remonter(T)[s \o u] = Remonter(T)[u] \o Remonter(T)[s]}
<1>1. << >> \in A
  <2>1. << >> \in Seq(ELEMS) /\ s \o << >> = s
    BY EmptySeq, ConcatEmptySeq
  <2>2. << >> \o Remonter(T)[s] = Remonter(T)[s]
    BY RemonterType, ConcatEmptySeq
  <2>3. QED
    BY <2>1, <2>2, RemonterPas
<1>2. ASSUME NEW u \in Seq(ELEMS), NEW e \in ELEMS, u \in A
      PROVE  Append(u, e) \in A
  <2>1. PICK q \in Seq(ELEMS), r \in Seq(ELEMS) : q = Remonter(T)[u] /\ r = Remonter(T)[s]
    BY RemonterType
  <2>2. s \o u \in Seq(ELEMS) /\ Remonter(T)[s \o u] = q \o r
    BY <1>2, <2>1, ConcatProperties
  <2>3. s \o Append(u, e) = Append(s \o u, e)
    BY AppendConcat, Zenon
  <2>4. Remonter(T)[Append(s \o u, e)] = Tete(T, e, q \o r)
    BY <2>2, RemonterPas
  <2>5. Remonter(T)[Append(u, e)] = Tete(T, e, q)
    BY <2>1, RemonterPas
  <2>6. Tete(T, e, q \o r) = Tete(T, e, q) \o r
    BY TeteConcat, Zenon
  <2>7. Append(u, e) \in Seq(ELEMS)
    BY AppendProperties
  <2>8. QED
    BY <2>1, <2>3, <2>4, <2>5, <2>6, <2>7
<1>3. Seq(ELEMS) \subseteq A
  <2> HIDE DEF A
  <2>1. QED
    BY <1>1, <1>2, RecurrenceSuites
<1>4. QED
  BY <1>3

(* Elements that are not in T leave no trace; only those of T count. *)
LEMMA RemonterRien ==
  ASSUME NEW T, NEW s \in Seq(ELEMS), Range(s) \cap T = {}
  PROVE  Remonter(T)[s] = << >>
<1>1. PICK r \in Seq(ELEMS) : r = Remonter(T)[s] /\ Range(r) = {}
  BY RemonterType
<1>2. Len(r) \in Nat /\ DOMAIN r = 1..Len(r)
  BY LenProperties
<1>3. ASSUME r # << >> PROVE FALSE
  <2>1. 1 \in DOMAIN r
    BY <1>2, <1>3, EmptySeq
  <2>2. r[1] \in Range(r)
    BY <2>1 DEF Range
  <2>3. QED
    BY <1>1, <2>2
<1>4. QED
  BY <1>1, <1>3

LEMMA RemonterUn ==
  ASSUME NEW T, NEW e \in ELEMS
  PROVE  <<e>> \in Seq(ELEMS) /\ Remonter(T)[<<e>>] = IF e \in T THEN <<e>> ELSE << >>
<1>1. << >> \in Seq(ELEMS) /\ <<e>> = Append(<< >>, e) /\ <<e>> \in Seq(ELEMS)
  BY EmptySeq
<1>2. Remonter(T)[<<e>>] = Tete(T, e, << >>)
  BY <1>1, RemonterPas
<1>3. <<e>> \o << >> = <<e>>
  BY <1>1, ConcatEmptySeq
<1>4. QED
  BY <1>1, <1>2, <1>3 DEF Tete

LEMMA RemonterEgal ==
  ASSUME NEW T, NEW U, NEW s \in Seq(ELEMS), Range(s) \cap T = Range(s) \cap U
  PROVE  Remonter(T)[s] = Remonter(U)[s]
<1> DEFINE A == {t \in Seq(ELEMS) :
                   Range(t) \cap T = Range(t) \cap U => Remonter(T)[t] = Remonter(U)[t]}
<1>1. << >> \in A
  BY EmptySeq, RemonterPas
<1>2. ASSUME NEW t \in Seq(ELEMS), NEW e \in ELEMS, t \in A
      PROVE  Append(t, e) \in A
  <2>1. PICK u \in Seq(ELEMS) : u = Append(t, e)
    BY AppendProperties
  <2>2. Range(u) = Range(t) \cup {e}
    BY <2>1, AppendRange
  <2>3. ASSUME Range(u) \cap T = Range(u) \cap U
        PROVE  Remonter(T)[u] = Remonter(U)[u]
    <3>1. Range(t) \cap T = Range(t) \cap U /\ (e \in T <=> e \in U)
      BY <2>2, <2>3
    <3>2. Remonter(T)[t] = Remonter(U)[t]
      BY <1>2, <3>1
    <3>3. /\ Remonter(T)[u] = Tete(T, e, Remonter(T)[t])
          /\ Remonter(U)[u] = Tete(U, e, Remonter(U)[t])
      BY <2>1, RemonterPas
    <3>4. QED
      BY <3>1, <3>2, <3>3 DEF Tete
  <2>4. QED
    BY <2>1, <2>3
<1>3. Seq(ELEMS) \subseteq A
  <2> HIDE DEF A
  <2>1. QED
    BY <1>1, <1>2, RecurrenceSuites
<1>4. QED
  BY <1>3

-----------------------------------------------------------------------------
(* What the operators of FilePrio do to the elements of one priority. *)
Classe(pr, p) == {x \in ELEMS : pr[x] = p}

LEMMA DeuxParts ==
  ASSUME NEW s \in Seq(ELEMS), NEW i \in 1..Len(s)+1
  PROVE  \E a \in Seq(ELEMS), b \in Seq(ELEMS) :
           /\ a = SubSeq(s, 1, i-1) /\ b = SubSeq(s, i, Len(s)) /\ s = a \o b
           /\ Range(a) = {s[j] : j \in 1..i-1}
<1>1. Len(s) \in Nat /\ \A j \in 1..Len(s) : s[j] \in ELEMS
  BY LenProperties, ElementOfSeq
<1>2. PICK a : a = SubSeq(s, 1, i-1)
  OBVIOUS
<1>3. PICK b : b = SubSeq(s, i, Len(s))
  OBVIOUS
<1>4. a \in Seq(ELEMS) /\ Len(a) = i-1 /\ \A j \in 1..i-1 : a[j] = s[j]
  <2>1. \A j \in 1..i-1 : s[j] \in ELEMS
    BY <1>1
  <2>2. /\ a \in Seq(ELEMS) /\ Len(a) = IF 1 <= i-1 THEN (i-1)-1+1 ELSE 0
        /\ \A j \in 1..(i-1)-1+1 : a[j] = s[1+j-1]
    <3>1. 1 \in Int /\ i-1 \in Int
      BY <1>1
    <3>2. QED
      BY <1>2, <2>1, <3>1, SubSeqProperties
  <2>3. QED
    BY <1>1, <2>2
<1>5. b \in Seq(ELEMS)
  <2>1. \A j \in i..Len(s) : s[j] \in ELEMS
    BY <1>1
  <2>2. i \in Int /\ Len(s) \in Int
    BY <1>1
  <2>3. QED
    BY <1>3, <2>1, <2>2, SubSeqProperties
<1>6. s = a \o b
  <2>1. 1 \in 1..Len(s)+1 /\ i-1 \in 1-1..Len(s) /\ Len(s) \in i-1..Len(s) /\ (i-1)+1 = i
    BY <1>1
  <2>2. SubSeq(s, 1, i-1) \o SubSeq(s, (i-1)+1, Len(s)) = SubSeq(s, 1, Len(s))
    BY <2>1, ConcatAdjacentSubSeq
  <2>3. QED
    BY <1>2, <1>3, <2>1, <2>2, SubSeqFull
<1>7. Range(a) = {s[j] : j \in 1..i-1}
  <2>1. Range(a) = {a[j] : j \in 1..Len(a)}
    BY <1>4, RangeEquality
  <2>2. QED
    BY <1>4, <2>1
<1>8. QED
  BY <1>2, <1>3, <1>4, <1>5, <1>6, <1>7

LEMMA AjoutClasse ==
  ASSUME NEW s \in Seq(ELEMS), NEW e \in ELEMS, NEW pr \in [ELEMS -> Int], NEW p
  PROVE  Remonter(Classe(pr, p))[queue_add(s, e, pr)]
           = IF pr[e] = p THEN Append(Remonter(Classe(pr, p))[s], e)
             ELSE Remonter(Classe(pr, p))[s]
<1>1. PICK k : k = PlaceAjout(s, e, pr)
  OBVIOUS
<1>2. /\ Len(s) \in Nat /\ k \in 1..Len(s)+1
      /\ \A j \in 1..Len(s) : j < k => pr[s[j]] < pr[e]
  BY <1>1, PlaceAjoutProp, LenProperties
<1>3. PICK a \in Seq(ELEMS), b \in Seq(ELEMS) :
        /\ a = SubSeq(s, 1, k-1) /\ b = SubSeq(s, k, Len(s)) /\ s = a \o b
        /\ Range(a) = {s[j] : j \in 1..k-1}
  BY <1>2, DeuxParts
<1>4. PICK x \in Seq(ELEMS) : x = <<e>>
  BY Seul
<1>5. queue_add(s, e, pr) = (a \o x) \o b
  BY <1>1, <1>3, <1>4 DEF queue_add, InsertAt
<1>6. PICK R : R = Remonter(Classe(pr, p))
  OBVIOUS
<1>7. PICK u \in Seq(ELEMS), v \in Seq(ELEMS), w \in Seq(ELEMS) : u = R[a] /\ v = R[b] /\ w = R[x]
  BY <1>6, RemonterType
<1>8. R[s] = v \o u
  <2>1. R[a \o b] = v \o u
    <3>1. Remonter(Classe(pr, p))[a \o b] = Remonter(Classe(pr, p))[b] \o Remonter(Classe(pr, p))[a]
      BY RemonterConcat
    <3>2. QED
      BY <1>6, <1>7, <3>1
  <2>2. QED
    BY <1>3, <2>1
<1>9. R[(a \o x) \o b] = v \o (w \o u)
  <2>1. a \o x \in Seq(ELEMS)
    BY ConcatProperties
  <2>2. R[(a \o x) \o b] = v \o R[a \o x]
    <3>1. Remonter(Classe(pr, p))[(a \o x) \o b]
            = Remonter(Classe(pr, p))[b] \o Remonter(Classe(pr, p))[a \o x]
      BY <2>1, RemonterConcat
    <3>2. QED
      BY <1>6, <1>7, <3>1
  <2>3. R[a \o x] = w \o u
    <3>1. Remonter(Classe(pr, p))[a \o x] = Remonter(Classe(pr, p))[x] \o Remonter(Classe(pr, p))[a]
      BY RemonterConcat
    <3>2. QED
      BY <1>6, <1>7, <3>1
  <2>4. QED
    BY <2>2, <2>3
<1>10. w = IF e \in Classe(pr, p) THEN <<e>> ELSE << >>
  BY <1>4, <1>6, <1>7, RemonterUn
<1>11. CASE pr[e] = p
  <2>1. Range(a) \cap Classe(pr, p) = {}
    <3>1. ASSUME NEW y \in Range(a), y \in Classe(pr, p)
          PROVE  FALSE
      <4>1. PICK j \in 1..k-1 : y = s[j]
        BY <1>3
      <4>2. j \in 1..Len(s) /\ j < k
        BY <1>2
      <4>3. pr[y] < pr[e] /\ pr[y] = p /\ pr[e] \in Int
        BY <1>2, <3>1, <4>1, <4>2 DEF Classe
      <4>4. QED
        BY <1>11, <4>3
    <3>2. QED
      BY <3>1
  <2>2. u = << >>
    BY <1>6, <1>7, <2>1, RemonterRien
  <2>3. w = <<e>> /\ w \o u = w
    BY <1>10, <1>11, <2>2, ConcatEmptySeq DEF Classe
  <2>4. v \o u = v
    BY <2>2, ConcatEmptySeq
  <2>5. v \o w = Append(v, e)
    BY <2>3, AppendIsConcat
  <2>6. QED
    BY <1>5, <1>6, <1>8, <1>9, <1>11, <2>3, <2>4, <2>5
<1>12. CASE pr[e] # p
  <2>1. w = << >> /\ w \o u = u
    BY <1>10, <1>12, ConcatEmptySeq DEF Classe
  <2>2. QED
    BY <1>5, <1>6, <1>8, <1>9, <1>12, <2>1
<1>13. QED
  BY <1>11, <1>12

LEMMA RetraitSuite ==
  ASSUME NEW v \in Seq(ELEMS), NEW x \in Seq(ELEMS), NEW u \in Seq(ELEMS), Len(x) = 1
  PROVE  LET w == v \o (x \o u)
         IN /\ Len(v)+1 \in DOMAIN w /\ w[Len(v)+1] = x[1]
            /\ RemoveAt(w, Len(v)+1) = v \o u
<1> DEFINE w == v \o (x \o u)
<1>1. PICK m \in Nat, n \in Nat : m = Len(v) /\ n = Len(u)
  BY LenProperties
<1>2. /\ x \o u \in Seq(ELEMS) /\ Len(x \o u) = n+1
      /\ (x \o u)[1] = x[1] /\ \A i \in 1..n : (x \o u)[i+1] = u[i]
  <2>1. /\ x \o u \in Seq(ELEMS) /\ Len(x \o u) = 1+n
        /\ \A i \in 1..1+n : (x \o u)[i] = IF i <= 1 THEN x[i] ELSE u[i-1]
    <3>1. /\ x \o u \in Seq(ELEMS) /\ Len(x \o u) = Len(x) + Len(u)
          /\ \A i \in 1..Len(x) + Len(u) :
               (x \o u)[i] = IF i <= Len(x) THEN x[i] ELSE u[i - Len(x)]
      BY ConcatProperties, Zenon
    <3>2. QED
      BY <1>1, <3>1
  <2>2. \A i \in 1..n : i+1 \in 1..1+n /\ ~(i+1 <= 1) /\ (i+1)-1 = i
    BY <1>1
  <2>3. QED
    BY <1>1, <2>1, <2>2
<1>3. /\ w \in Seq(ELEMS) /\ Len(w) = m+n+1 /\ DOMAIN w = 1..m+n+1
      /\ \A i \in 1..m : w[i] = v[i]
      /\ w[m+1] = x[1] /\ \A i \in 1..n : w[m+1+i] = u[i]
  <2>1. /\ w \in Seq(ELEMS) /\ Len(w) = m+(n+1)
        /\ \A i \in 1..m+(n+1) : w[i] = IF i <= m THEN v[i] ELSE (x \o u)[i-m]
    <3>1. PICK y \in Seq(ELEMS) : y = x \o u /\ Len(y) = n+1
      BY <1>2, Zenon
    <3>2. /\ v \o y \in Seq(ELEMS) /\ Len(v \o y) = Len(v) + Len(y)
          /\ \A i \in 1..Len(v) + Len(y) :
               (v \o y)[i] = IF i <= Len(v) THEN v[i] ELSE y[i - Len(v)]
      BY ConcatProperties, Zenon
    <3>3. QED
      BY <1>1, <3>1, <3>2
  <2>2. \A i \in 1..n : m+1+i \in 1..m+(n+1) /\ ~(m+1+i <= m) /\ (m+1+i)-m = i+1
    BY <1>1
  <2>3. m+1 \in 1..m+(n+1) /\ ~(m+1 <= m) /\ (m+1)-m = 1
    BY <1>1
  <2>4. DOMAIN w = 1..Len(w)
    BY <2>1, LenProperties
  <2>5. w[m+1] = x[1]
    BY <1>2, <2>1, <2>3
  <2>6. ASSUME NEW i \in 1..n
        PROVE  w[m+1+i] = u[i]
    BY <1>2, <2>1, <2>2
  <2>7. QED
    BY <1>1, <2>1, <2>4, <2>5, <2>6
<1> HIDE DEF w
<1>4. PICK r : r = RemoveAt(w, m+1)
  OBVIOUS
<1>5. r \in Seq(ELEMS) /\ EstRetrait(r, w, m+1)
  <2>1. m+1 \in 1..Len(w)
    BY <1>3
  <2>2. QED
    BY <1>3, <1>4, <2>1, RemoveAtProp
<1>6. v \o u \in Seq(ELEMS) /\ Len(v \o u) = m+n
      /\ \A i \in 1..m+n : (v \o u)[i] = IF i <= m THEN v[i] ELSE u[i-m]
  BY <1>1, ConcatProperties
<1>7. r = v \o u
  <2>1. Len(r) = m+n
    BY <1>1, <1>3, <1>5 DEF EstRetrait
  <2>2. ASSUME NEW i \in 1..m+n
        PROVE  r[i] = (v \o u)[i]
    <3>1. CASE i <= m
      <4>1. i \in 1..m /\ i < m+1
        BY <3>1
      <4>2. r[i] = w[i]
        BY <1>3, <1>5, <2>1, <4>1 DEF EstRetrait
      <4>3. QED
        BY <1>3, <1>6, <3>1, <4>1, <4>2
    <3>2. CASE ~(i <= m)
      <4>1. i-m \in 1..n /\ i >= m+1 /\ ~(i < m+1) /\ m+1+(i-m) = i+1
        BY <3>2
      <4>2. r[i] = w[i+1]
        BY <1>3, <1>5, <2>1, <4>1 DEF EstRetrait
      <4>3. QED
        BY <1>3, <1>6, <3>2, <4>1, <4>2
    <3>3. QED
      BY <3>1, <3>2
  <2>3. QED
    BY <1>5, <1>6, <2>1, <2>2, SeqEqual
<1>8. m+1 \in DOMAIN w
  BY <1>3
<1>9. QED
  BY <1>1, <1>3, <1>4, <1>7, <1>8 DEF w

LEMMA RetraitClasse ==
  ASSUME NEW s \in Seq(ELEMS), NEW k \in 1..Len(s), NEW T
  PROVE  LET r == Remonter(T)[s]
             q == Remonter(T)[RemoveAt(s, k)]
         IN IF s[k] \in T THEN \E i \in DOMAIN r : r[i] = s[k] /\ q = RemoveAt(r, i)
            ELSE q = r
<1>1. PICK e \in ELEMS : e = s[k]
  BY ElementOfSeq
<1>2. Len(s) \in Nat /\ k \in 1..Len(s)+1 /\ k+1 \in 1..Len(s)+1
  BY LenProperties
<1>3. PICK a \in Seq(ELEMS) : a = SubSeq(s, 1, k-1)
  BY <1>2, DeuxParts, Zenon
<1>4. PICK c \in Seq(ELEMS), b \in Seq(ELEMS) :
        c = SubSeq(s, 1, (k+1)-1) /\ b = SubSeq(s, k+1, Len(s)) /\ s = c \o b
  BY <1>2, DeuxParts, Zenon
<1>5. PICK x \in Seq(ELEMS) : x = <<e>>
  BY Seul
<1>6. c = a \o x
  <2>1. (k+1)-1 = k /\ 1 \in 1..Len(s) /\ k \in 1..Len(s)
    BY <1>2
  <2>2. SubSeq(s, 1, k) = SubSeq(s, 1, k-1) \o <<s[k]>>
    BY <2>1, SubSeqRecursiveSecond, Zenon
  <2>3. QED
    BY <1>1, <1>3, <1>4, <1>5, <2>1, <2>2
<1>7. RemoveAt(s, k) = a \o b
  BY <1>3, <1>4 DEF RemoveAt
<1>8. PICK R : R = Remonter(T)
  OBVIOUS
<1>9. PICK u \in Seq(ELEMS), v \in Seq(ELEMS), w \in Seq(ELEMS) : u = R[a] /\ v = R[b] /\ w = R[x]
  BY <1>8, RemonterType
<1>10. R[s] = v \o (w \o u)
  <2>1. R[a \o x] = w \o u
    <3>1. Remonter(T)[a \o x] = Remonter(T)[x] \o Remonter(T)[a]
      BY RemonterConcat
    <3>2. QED
      BY <1>8, <1>9, <3>1
  <2>2. R[c \o b] = v \o R[c]
    <3>1. Remonter(T)[c \o b] = Remonter(T)[b] \o Remonter(T)[c]
      BY RemonterConcat
    <3>2. QED
      BY <1>8, <1>9, <3>1
  <2>3. QED
    BY <1>4, <1>6, <2>1, <2>2
<1>11. R[RemoveAt(s, k)] = v \o u
  <2>1. R[a \o b] = v \o u
    <3>1. Remonter(T)[a \o b] = Remonter(T)[b] \o Remonter(T)[a]
      BY RemonterConcat
    <3>2. QED
      BY <1>8, <1>9, <3>1
  <2>2. QED
    BY <1>7, <2>1
<1>12. w = IF e \in T THEN <<e>> ELSE << >>
  BY <1>5, <1>8, <1>9, RemonterUn
<1>13. CASE e \in T
  <2>0. v \in Seq(ELEMS) /\ w \in Seq(ELEMS) /\ u \in Seq(ELEMS)
    BY <1>9
  <2>1. w = <<e>> /\ Len(w) = 1 /\ w[1] = e
    BY <1>12, <1>13
  <2>l. Len(w) = 1
    BY <2>1
  <2>3. PICK r : r = v \o (w \o u)
    OBVIOUS
  <2>4. Len(v)+1 \in DOMAIN r /\ r[Len(v)+1] = e /\ RemoveAt(r, Len(v)+1) = v \o u
    <3>1. /\ Len(v)+1 \in DOMAIN (v \o (w \o u)) /\ (v \o (w \o u))[Len(v)+1] = w[1]
          /\ RemoveAt(v \o (w \o u), Len(v)+1) = v \o u
      BY <2>0, <2>l, RetraitSuite, Zenon
    <3>2. QED
      BY <2>1, <2>3, <3>1
  <2>5. R[s] = r
    BY <1>10, <2>3
  <2>6. \E i \in DOMAIN R[s] : R[s][i] = s[k] /\ R[RemoveAt(s, k)] = RemoveAt(R[s], i)
    BY <1>1, <1>11, <2>4, <2>5
  <2>7. QED
    BY <1>1, <1>8, <1>13, <2>6
<1>14. CASE e \notin T
  <2>1. w = << >> /\ w \o u = u
    BY <1>9, <1>12, <1>14, ConcatEmptySeq
  <2>2. R[RemoveAt(s, k)] = R[s]
    BY <1>10, <1>11, <2>1
  <2>3. QED
    BY <1>1, <1>8, <1>14, <2>2
<1>15. QED
  BY <1>13, <1>14

LEMMA SortieClasse ==
  ASSUME NEW s \in Seq(ELEMS), s # << >>, NEW T
  PROVE  LET r == Remonter(T)[s]
             q == Remonter(T)[queue_out(s)]
         IN IF queue_top(s) \in T THEN r # << >> /\ q = Tail(r) ELSE q = r
<1>1. PICK u \in Seq(ELEMS), e \in ELEMS : s = Append(u, e)
  BY SequenceEmptyOrAppend
<1>2. PICK n \in Nat : n = Len(u)
  BY LenProperties
<1>3. Len(s) = n+1 /\ s[n+1] = e /\ \A i \in 1..n : s[i] = u[i] /\ u[i] \in ELEMS
  BY <1>1, <1>2, AppendProperties, ElementOfSeq
<1>4. queue_top(s) = e
  BY <1>3 DEF queue_top, Last
<1>5. queue_out(s) = u
  <2>1. PICK f : f = SubSeq(s, 1, n)
    OBVIOUS
  <2>2. /\ f \in Seq(ELEMS) /\ Len(f) = IF 1 <= n THEN n-1+1 ELSE 0
        /\ \A i \in 1..n-1+1 : f[i] = s[1+i-1]
    <3>1. \A i \in 1..n : s[i] \in ELEMS
      BY <1>3
    <3>2. QED
      BY <2>1, <3>1, SubSeqProperties
  <2>3. Len(f) = n /\ \A i \in 1..n : f[i] = u[i]
    BY <1>2, <1>3, <2>2
  <2>4. f = u
    BY <1>2, <2>2, <2>3, SeqEqual
  <2>5. (n+1)-1 = n
    BY <1>2
  <2>6. QED
    BY <1>3, <2>1, <2>4, <2>5 DEF queue_out, Front
<1>6. PICK r \in Seq(ELEMS) : r = Remonter(T)[u]
  BY RemonterType
<1>7. Remonter(T)[s] = Tete(T, e, r)
  BY <1>1, <1>6, RemonterPas
<1>8. PICK x \in Seq(ELEMS) : x = <<e>>
  BY Seul
<1>9. PICK t : t = x \o r
  OBVIOUS
<1>10. t # << >> /\ Tail(t) = r
  <2>1. PICK m \in Nat : m = Len(r)
    BY LenProperties
  <2>2. /\ t \in Seq(ELEMS) /\ Len(t) = Len(x) + Len(r)
        /\ \A i \in 1..Len(x) + Len(r) : t[i] = IF i <= Len(x) THEN x[i] ELSE r[i - Len(x)]
    BY <1>9, ConcatProperties, Zenon
  <2>3. Len(x) = 1
    BY <1>8
  <2>4. Len(t) = m+1 /\ \A i \in 1..m : t[i+1] = r[i]
    <3>1. \A i \in 1..m : i+1 \in 1..1+m /\ ~(i+1 <= 1) /\ (i+1)-1 = i
      BY <2>1
    <3>2. QED
      BY <2>1, <2>2, <2>3, <3>1
  <2>5. t # << >>
    BY <2>1, <2>2, <2>4, EmptySeq
  <2>6. /\ Tail(t) \in Seq(ELEMS) /\ Len(Tail(t)) = m
        /\ \A i \in 1..m : Tail(t)[i] = t[i+1]
    <3>1. /\ Tail(t) \in Seq(ELEMS) /\ Len(Tail(t)) = Len(t)-1
          /\ \A i \in 1..Len(Tail(t)) : Tail(t)[i] = t[i+1]
      BY <2>2, <2>5, HeadTailProperties, Zenon
    <3>2. QED
      BY <2>1, <2>4, <3>1
  <2>7. QED
    BY <2>1, <2>4, <2>5, <2>6, SeqEqual
<1>11. QED
  BY <1>4, <1>5, <1>6, <1>7, <1>8, <1>9, <1>10 DEF Tete

-----------------------------------------------------------------------------
(* The classes of the queues c when the priorities are pr. *)
LesClasses(pr, c) ==
  [h \in STABLES |-> [p \in PRIOS |-> Remonter(Classe(pr, p))[c[h]]]]

Classements == [STABLES -> [PRIOS -> Seq(ELEMS)]]

(* What is read of the classes L of the queues c. *)
Decrit(L, pr, c) ==
  /\ L \in Classements
  /\ \A h \in STABLES, p \in PRIOS : /\ L[h][p] = Remonter(Classe(pr, p))[c[h]]
                                     /\ Range(L[h][p]) = Range(c[h]) \cap Classe(pr, p)

LEMMA ClassesType ==
  ASSUME NEW pr, NEW c \in [TETES -> Seq(ELEMS)]
  PROVE  Decrit(LesClasses(pr, c), pr, c)
<1>1. \A h \in STABLES : c[h] \in Seq(ELEMS)
  BY StablesAssumption
<1>2. \A h \in STABLES, p \in PRIOS :
        /\ Remonter(Classe(pr, p))[c[h]] \in Seq(ELEMS)
        /\ Range(Remonter(Classe(pr, p))[c[h]]) = Range(c[h]) \cap Classe(pr, p)
  BY <1>1, RemonterType, Zenon
<1>3. \A h \in STABLES, p \in PRIOS : LesClasses(pr, c)[h][p] = Remonter(Classe(pr, p))[c[h]]
  BY DEF LesClasses
<1>4. LesClasses(pr, c) \in Classements
  BY <1>2 DEF LesClasses, Classements
<1>5. QED
  BY <1>2, <1>3, <1>4 DEF Decrit

(* What queue_add, queue_del and queue_out do to the classes L of queue h. *)
EstAjout(L, M, h, q, e) == M = [L EXCEPT ![h][q] = Append(L[h][q], e)]

EstSuppression(L, M, h, q, e) ==
  \E i \in DOMAIN L[h][q] : L[h][q][i] = e /\ M = [L EXCEPT ![h][q] = RemoveAt(L[h][q], i)]

EstSortie(L, M, h) ==
  \E p \in PRIOS : /\ L[h][p] # << >>
                   /\ \A q \in PRIOS : q > p => L[h][q] = << >>
                   /\ M = [L EXCEPT ![h][p] = Tail(L[h][p])]

LEMMA ClassesMaj ==
  ASSUME NEW L \in Classements, NEW M \in Classements,
         NEW h \in STABLES, NEW q \in PRIOS,
         \A g \in STABLES, p \in PRIOS : g # h \/ p # q => M[g][p] = L[g][p]
  PROVE  M = [L EXCEPT ![h][q] = M[h][q]]
<1>1. PICK N : N = [L EXCEPT ![h][q] = M[h][q]]
  OBVIOUS
<1>2. /\ N \in [STABLES -> [PRIOS -> Seq(ELEMS)]]
      /\ \A g \in STABLES, p \in PRIOS :
           N[g][p] = IF g = h /\ p = q THEN M[h][q] ELSE L[g][p]
  BY <1>1 DEF Classements
<1>3. \A g \in STABLES, p \in PRIOS : N[g][p] = M[g][p]
  BY <1>2
<1>4. \A g \in STABLES : N[g] = M[g]
  <2>1. ASSUME NEW g \in STABLES PROVE N[g] = M[g]
    <3>1. N[g] \in [PRIOS -> Seq(ELEMS)] /\ M[g] \in [PRIOS -> Seq(ELEMS)]
      BY <1>2 DEF Classements
    <3>2. QED
      BY <1>3, <3>1
  <2>2. QED
    BY <2>1
<1>5. N = M
  BY <1>2, <1>4 DEF Classements
<1>6. QED
  BY <1>1, <1>5

(* A queue that is not STABLES does not count. *)
LEMMA ClassesAilleurs ==
  ASSUME NEW pr, NEW c \in [TETES -> Seq(ELEMS)], NEW h \in TETES \ STABLES, NEW t
  PROVE  LesClasses(pr, [c EXCEPT ![h] = t]) = LesClasses(pr, c)
<1>1. \A g \in STABLES : [c EXCEPT ![h] = t][g] = c[g]
  BY StablesAssumption
<1>2. PICK d : d = [c EXCEPT ![h] = t]
  OBVIOUS
<1>3. \A g \in STABLES : [p \in PRIOS |-> Remonter(Classe(pr, p))[d[g]]]
                         = [p \in PRIOS |-> Remonter(Classe(pr, p))[c[g]]]
  BY <1>1, <1>2
<1>4. LesClasses(pr, d) = LesClasses(pr, c)
  BY <1>3 DEF LesClasses
<1>5. QED
  BY <1>2, <1>4

LEMMA ClassesAjout ==
  ASSUME NEW pr \in [ELEMS -> PRIOS], NEW c \in [TETES -> Seq(ELEMS)],
         NEW h \in STABLES, NEW e \in ELEMS,
         NEW d, d = [c EXCEPT ![h] = queue_add(c[h], e, pr)]
  PROVE  EstAjout(LesClasses(pr, c), LesClasses(pr, d), h, pr[e], e)
<1>1. pr \in [ELEMS -> Int] /\ pr[e] \in PRIOS
  BY MaillonsAssumption
<1>2. PICK q \in PRIOS : q = pr[e]
  BY <1>1
<1>3. c[h] \in Seq(ELEMS) /\ queue_add(c[h], e, pr) \in Seq(ELEMS) /\ h \in TETES
  <2>1. c[h] \in Seq(ELEMS) /\ h \in TETES
    BY StablesAssumption
  <2>2. QED
    BY <1>1, <2>1, AjoutElements
<1>4. d \in [TETES -> Seq(ELEMS)] /\ d[h] = queue_add(c[h], e, pr)
      /\ \A g \in STABLES : g # h => d[g] = c[g]
  BY <1>3, StablesAssumption
<1>5. PICK L : L = LesClasses(pr, c)
  OBVIOUS
<1>6. PICK M : M = LesClasses(pr, d)
  OBVIOUS
<1>7. /\ L \in Classements /\ M \in Classements
     /\ \A g \in STABLES, p \in PRIOS : /\ L[g][p] = Remonter(Classe(pr, p))[c[g]]
                                        /\ M[g][p] = Remonter(Classe(pr, p))[d[g]]
  <2>1. d \in [TETES -> Seq(ELEMS)]
    BY <1>4
  <2>2. Decrit(LesClasses(pr, c), pr, c)
    BY ClassesType
  <2>3. Decrit(LesClasses(pr, d), pr, d)
    BY <2>1, ClassesType
  <2>4. Decrit(L, pr, c) /\ Decrit(M, pr, d)
    BY <1>5, <1>6, <2>2, <2>3
  <2>5. QED
    BY <2>4 DEF Decrit
<1>8. \A p \in PRIOS : Remonter(Classe(pr, p))[d[h]]
          = IF q = p THEN Append(Remonter(Classe(pr, p))[c[h]], e) ELSE Remonter(Classe(pr, p))[c[h]]
  <2>1. TAKE p \in PRIOS
  <2>2. Remonter(Classe(pr, p))[queue_add(c[h], e, pr)]
          = IF pr[e] = p THEN Append(Remonter(Classe(pr, p))[c[h]], e)
            ELSE Remonter(Classe(pr, p))[c[h]]
    BY <1>1, <1>3, AjoutClasse
  <2>3. QED
    BY <1>2, <1>4, <2>2
<1>9. \A g \in STABLES, p \in PRIOS : g # h \/ p # q => M[g][p] = L[g][p]
  <2>1. ASSUME NEW g \in STABLES, NEW p \in PRIOS, g # h \/ p # q
        PROVE  M[g][p] = L[g][p]
    <3>1. CASE g # h
      BY <1>4, <1>7, <3>1
    <3>2. CASE g = h
      BY <1>7, <1>8, <2>1, <3>2
    <3>3. QED
      BY <3>1, <3>2
  <2>2. QED
    BY <2>1
<1>10. M[h][q] = Append(L[h][q], e)
  BY <1>7, <1>8
<1>11. M = [L EXCEPT ![h][q] = M[h][q]]
  BY <1>7, <1>9, ClassesMaj
<1>12. QED
  BY <1>2, <1>5, <1>6, <1>10, <1>11 DEF EstAjout

LEMMA ClassesSuppression ==
  ASSUME NEW pr \in [ELEMS -> PRIOS], NEW c \in [TETES -> Seq(ELEMS)],
         NEW h \in STABLES, NEW e \in Range(c[h]),
         NEW d, d = [c EXCEPT ![h] = queue_del(c[h], e)]
  PROVE  EstSuppression(LesClasses(pr, c), LesClasses(pr, d), h, pr[e], e)
<1>1. c[h] \in Seq(ELEMS) /\ h \in TETES
  BY StablesAssumption
<1>2. e \in ELEMS
  BY <1>1, RangeOfSeq
<1>3. PICK q \in PRIOS : q = pr[e]
  BY <1>2
<1>4. PICK k : k = CHOOSE j \in 1..Len(c[h]) : c[h][j] = e
  OBVIOUS
<1>5. k \in 1..Len(c[h]) /\ c[h][k] = e /\ queue_del(c[h], e) = RemoveAt(c[h], k)
  <2>1. \E j \in 1..Len(c[h]) : c[h][j] = e
    BY <1>1, LenProperties DEF Range
  <2>2. QED
    BY <1>4, <2>1 DEF queue_del
<1>6. RemoveAt(c[h], k) \in Seq(ELEMS)
  BY <1>1, <1>5, RemoveAtProp
<1>7. d \in [TETES -> Seq(ELEMS)] /\ d[h] = RemoveAt(c[h], k)
      /\ \A g \in STABLES : g # h => d[g] = c[g]
  BY <1>1, <1>5, <1>6, StablesAssumption
<1>8. PICK L : L = LesClasses(pr, c)
  OBVIOUS
<1>9. PICK M : M = LesClasses(pr, d)
  OBVIOUS
<1>10. /\ L \in Classements /\ M \in Classements
      /\ \A g \in STABLES, p \in PRIOS : /\ L[g][p] = Remonter(Classe(pr, p))[c[g]]
                                         /\ M[g][p] = Remonter(Classe(pr, p))[d[g]]
  <2>1. d \in [TETES -> Seq(ELEMS)]
    BY <1>7
  <2>2. Decrit(LesClasses(pr, c), pr, c)
    BY ClassesType
  <2>3. Decrit(LesClasses(pr, d), pr, d)
    BY <2>1, ClassesType
  <2>4. Decrit(L, pr, c) /\ Decrit(M, pr, d)
    BY <1>8, <1>9, <2>2, <2>3
  <2>5. QED
    BY <2>4 DEF Decrit
<1>11. ASSUME NEW p \in PRIOS
       PROVE  IF q = p THEN \E i \in DOMAIN L[h][p] : L[h][p][i] = e /\ M[h][p] = RemoveAt(L[h][p], i)
              ELSE M[h][p] = L[h][p]
  <2>1. PICK T : T = Classe(pr, p)
    OBVIOUS
  <2>2. e \in T <=> q = p
    BY <1>2, <1>3, <2>1 DEF Classe
  <2>3. PICK r : r = Remonter(T)[c[h]]
    OBVIOUS
  <2>4. IF e \in T THEN \E i \in DOMAIN r : r[i] = e /\ Remonter(T)[RemoveAt(c[h], k)] = RemoveAt(r, i)
        ELSE Remonter(T)[RemoveAt(c[h], k)] = r
    BY <1>1, <1>5, <2>3, RetraitClasse
  <2>5. r = L[h][p] /\ Remonter(T)[RemoveAt(c[h], k)] = M[h][p]
    BY <1>7, <1>10, <2>1, <2>3
  <2>6. QED
    BY <2>2, <2>4, <2>5
<1>12. \A g \in STABLES, p \in PRIOS : g # h \/ p # q => M[g][p] = L[g][p]
  <2>1. ASSUME NEW g \in STABLES, NEW p \in PRIOS, g # h \/ p # q
        PROVE  M[g][p] = L[g][p]
    <3>1. CASE g # h
      BY <1>7, <1>10, <3>1
    <3>2. CASE g = h
      BY <1>11, <2>1, <3>2
    <3>3. QED
      BY <3>1, <3>2
  <2>2. QED
    BY <2>1
<1>13. PICK i \in DOMAIN L[h][q] : L[h][q][i] = e /\ M[h][q] = RemoveAt(L[h][q], i)
  BY <1>11
<1>14. M = [L EXCEPT ![h][q] = M[h][q]]
  BY <1>10, <1>12, ClassesMaj
<1>15. M = [L EXCEPT ![h][q] = RemoveAt(L[h][q], i)]
  BY <1>13, <1>14
<1>16. QED
  BY <1>3, <1>8, <1>9, <1>13, <1>15 DEF EstSuppression

LEMMA ClassesSortie ==
  ASSUME NEW pr \in [ELEMS -> PRIOS], NEW c \in [TETES -> Seq(ELEMS)],
         NEW h \in STABLES, c[h] # << >>, Triee(c[h], pr),
         NEW d, d = [c EXCEPT ![h] = queue_out(c[h])]
  PROVE  EstSortie(LesClasses(pr, c), LesClasses(pr, d), h)
<1>1. c[h] \in Seq(ELEMS) /\ h \in TETES
  BY StablesAssumption
<1>2. queue_out(c[h]) \in Seq(ELEMS)
  BY <1>1, SortieRetrait DEF queue_empty
<1>3. PICK e : e = queue_top(c[h])
  OBVIOUS
<1>4. e \in ELEMS
  <2>1. Len(c[h]) \in 1..Len(c[h])
    BY <1>1, EmptySeq, LenProperties
  <2>2. QED
    BY <1>1, <1>3, <2>1, ElementOfSeq DEF queue_top, Last
<1>5. PICK q \in PRIOS : q = pr[e]
  BY <1>4
<1>6. d \in [TETES -> Seq(ELEMS)] /\ d[h] = queue_out(c[h])
      /\ \A g \in STABLES : g # h => d[g] = c[g]
  BY <1>1, <1>2, StablesAssumption
<1>7. PICK L : L = LesClasses(pr, c)
  OBVIOUS
<1>8. PICK M : M = LesClasses(pr, d)
  OBVIOUS
<1>9. /\ L \in Classements /\ M \in Classements
     /\ \A g \in STABLES, p \in PRIOS : /\ L[g][p] = Remonter(Classe(pr, p))[c[g]]
                                        /\ M[g][p] = Remonter(Classe(pr, p))[d[g]]
                                        /\ Range(L[g][p]) = Range(c[g]) \cap Classe(pr, p)
  <2>1. d \in [TETES -> Seq(ELEMS)]
    BY <1>6
  <2>2. Decrit(LesClasses(pr, c), pr, c)
    BY ClassesType
  <2>3. Decrit(LesClasses(pr, d), pr, d)
    BY <2>1, ClassesType
  <2>4. Decrit(L, pr, c) /\ Decrit(M, pr, d)
    BY <1>7, <1>8, <2>2, <2>3
  <2>5. QED
    BY <2>4 DEF Decrit
<1>10. ASSUME NEW p \in PRIOS
       PROVE  IF q = p THEN L[h][p] # << >> /\ M[h][p] = Tail(L[h][p]) ELSE M[h][p] = L[h][p]
  <2>1. PICK T : T = Classe(pr, p)
    OBVIOUS
  <2>2. e \in T <=> q = p
    BY <1>4, <1>5, <2>1 DEF Classe
  <2>3. PICK r : r = Remonter(T)[c[h]]
    OBVIOUS
  <2>4. IF e \in T THEN r # << >> /\ Remonter(T)[queue_out(c[h])] = Tail(r)
        ELSE Remonter(T)[queue_out(c[h])] = r
    BY <1>1, <1>3, <2>3, SortieClasse
  <2>5. r = L[h][p] /\ Remonter(T)[queue_out(c[h])] = M[h][p]
    BY <1>6, <1>9, <2>1, <2>3
  <2>6. QED
    BY <2>2, <2>4, <2>5
<1>11. \A g \in STABLES, p \in PRIOS : g # h \/ p # q => M[g][p] = L[g][p]
  <2>1. ASSUME NEW g \in STABLES, NEW p \in PRIOS, g # h \/ p # q
        PROVE  M[g][p] = L[g][p]
    <3>1. CASE g # h
      BY <1>6, <1>9, <3>1
    <3>2. CASE g = h
      BY <1>10, <2>1, <3>2
    <3>3. QED
      BY <3>1, <3>2
  <2>2. QED
    BY <2>1
<1>12. M = [L EXCEPT ![h][q] = M[h][q]]
  BY <1>9, <1>11, ClassesMaj
<1>13. L[h][q] # << >> /\ M[h][q] = Tail(L[h][q])
  BY <1>10
<1>14. M = [L EXCEPT ![h][q] = Tail(L[h][q])]
  BY <1>12, <1>13
<1>15. ASSUME NEW p \in PRIOS, p > q
       PROVE  L[h][p] = << >>
  <2>1. pr \in [ELEMS -> Int] /\ PRIOS \subseteq Int
    BY MaillonsAssumption
  <2>2. ASSUME NEW x \in Range(c[h]) \cap Classe(pr, p)
        PROVE  FALSE
    <3>1. pr[x] <= pr[e]
      BY <1>1, <1>3, <2>1, SommetMax
    <3>2. pr[x] = p
      BY DEF Classe
    <3>3. QED
      BY <1>5, <1>15, <2>1, <3>1, <3>2
  <2>3. Range(c[h]) \cap Classe(pr, p) = {}
    BY <2>2
  <2>4. QED
    BY <1>1, <1>9, <2>3, RemonterRien
<1>16. QED
  BY <1>7, <1>8, <1>13, <1>14, <1>15 DEF EstSortie

-----------------------------------------------------------------------------
(* The classes of a queue do not depend on the priorities of the elements  *)
(* that are not in it.                                                     *)
LEMMA ClassesPriorite ==
  ASSUME NEW pr, NEW c \in [TETES -> Seq(ELEMS)], NEW qr,
         \A h \in STABLES : \A x \in Range(c[h]) : qr[x] = pr[x]
  PROVE  LesClasses(qr, c) = LesClasses(pr, c)
<1>1. ASSUME NEW h \in STABLES, NEW p \in PRIOS
      PROVE  Remonter(Classe(qr, p))[c[h]] = Remonter(Classe(pr, p))[c[h]]
  <2>1. c[h] \in Seq(ELEMS)
    BY StablesAssumption
  <2>2. Range(c[h]) \cap Classe(qr, p) = Range(c[h]) \cap Classe(pr, p)
    BY DEF Classe
  <2>t. PICK T : T = Classe(qr, p)
    OBVIOUS
  <2>u. PICK U : U = Classe(pr, p)
    OBVIOUS
  <2>s. PICK s \in Seq(ELEMS) : s = c[h]
    BY <2>1
  <2>4. Remonter(T)[s] = Remonter(U)[s]
    <3>1. Range(s) \cap T = Range(s) \cap U
      BY <2>2, <2>s, <2>t, <2>u
    <3>2. QED
      BY <3>1, RemonterEgal
  <2>5. QED
    BY <2>4, <2>s, <2>t, <2>u
<1>2. \A h \in STABLES : [p \in PRIOS |-> Remonter(Classe(qr, p))[c[h]]]
                         = [p \in PRIOS |-> Remonter(Classe(pr, p))[c[h]]]
  BY <1>1
<1>3. QED
  BY <1>2 DEF LesClasses

(* No queue of STABLES is out of order: no element in one of them ever     *)
(* changes its priority.                                                   *)
Triees == \A h \in STABLES : Triee(contenu[h], priorite)

IInvClasses == IInvMaillons /\ Triees

(* What is read back from the links is read from the sequences. *)
LEMMA ClassesLues == IInvMaillons => Classes = LesClasses(priorite, contenu)
<1>1. SUFFICES ASSUME IInvMaillons PROVE Classes = LesClasses(priorite, contenu)
  OBVIOUS
<1>2. \A h \in TETES : queue_for_each(h) = contenu[h]
  BY <1>1, StructureRepresente DEF IInvMaillons, Represente
<1>3. \A h \in STABLES, p \in PRIOS : ClasseDe(h, p) = Remonter(Classe(priorite, p))[contenu[h]]
  BY <1>2, StablesAssumption DEF ClasseDe, Classe
<1>4. \A h \in STABLES : [p \in PRIOS |-> ClasseDe(h, p)]
                         = [p \in PRIOS |-> Remonter(Classe(priorite, p))[contenu[h]]]
  BY <1>3
<1>5. QED
  BY <1>4 DEF Classes, LesClasses

(* Contient of FilesParPriorite tells whether an element is in a queue. *)
LEMMA ContientFidele ==
  ASSUME IInvMaillons, NEW h \in STABLES, NEW e \in ELEMS
  PROVE  Promesse!Contient(h, e) <=> e \in Range(contenu[h])
<1>1. priorite \in [ELEMS -> PRIOS] /\ contenu \in [TETES -> Seq(ELEMS)]
  BY DEF IInvMaillons
<1>2. PICK p \in PRIOS : p = priorite[e]
  BY <1>1
<1>3. Decrit(Classes, priorite, contenu)
  BY <1>1, ClassesLues, ClassesType
<1>4. Range(Classes[h][p]) = Range(contenu[h]) \cap Classe(priorite, p)
  BY <1>3 DEF Decrit
<1>5. e \in Classe(priorite, p)
  BY <1>2 DEF Classe
<1>6. QED
  BY <1>2, <1>4, <1>5 DEF Promesse!Contient, Promesse!Range, Range

(* Each step of the lists maps to a step of FilesParPriorite, or to none. *)
Suivi == Triees' /\ [Promesse!Next]_<<priorite, Classes>>

LEMMA SuiviRien ==
  ASSUME IInvClasses, IInvMaillons', priorite' = priorite, contenu' = contenu
  PROVE  Suivi
<1>1. Classes = LesClasses(priorite, contenu)
  BY ClassesLues DEF IInvClasses
<1>2. Classes' = LesClasses(priorite', contenu')
  <2>1. (IInvMaillons => Classes = LesClasses(priorite, contenu))'
    BY ClassesLues, PTL
  <2>2. QED
    BY <2>1
<1>3. Classes' = Classes
  BY <1>1, <1>2
<1>4. Triees'
  BY DEF IInvClasses, Triees
<1>5. QED
  BY <1>3, <1>4 DEF Suivi

LEMMA SuiviChainer ==
  ASSUME IInvClasses, IInvMaillons', Chainer,
         contenu' = [contenu EXCEPT ![ajout.tete] =
                       queue_add(contenu[ajout.tete], ajout.elem, priorite)]
  PROVE  Suivi
<1>1. IInvMaillons /\ Triees /\ ~Repos /\ priorite' = priorite
  BY DEF IInvClasses, Chainer
<1>2. priorite \in [ELEMS -> PRIOS] /\ contenu \in [TETES -> Seq(ELEMS)]
  BY <1>1 DEF IInvMaillons
<1>3. PICK e \in ELEMS, h \in TETES :
        /\ ajout.elem = e /\ ajout.tete = h
        /\ \A g \in TETES : e \notin Range(contenu[g])
  BY <1>1, AjoutEnCours
<1>4. contenu' = [contenu EXCEPT ![h] = queue_add(contenu[h], e, priorite)]
  BY <1>3
<1>5. Classes = LesClasses(priorite, contenu)
  BY <1>1, ClassesLues
<1>6. Classes' = LesClasses(priorite, contenu')
  <2>1. (IInvMaillons => Classes = LesClasses(priorite, contenu))'
    BY ClassesLues, PTL
  <2>2. QED
    BY <1>1, <2>1
<1>7. Triees'
  <2>1. ASSUME NEW g \in STABLES
        PROVE  Triee(contenu'[g], priorite)
    <3>1. g \in TETES /\ contenu[g] \in Seq(ELEMS) /\ Triee(contenu[g], priorite)
      BY <1>1, <1>2, StablesAssumption DEF Triees
    <3>2. priorite \in [ELEMS -> Int]
      BY <1>2, MaillonsAssumption
    <3>3. Triee(queue_add(contenu[g], e, priorite), priorite)
      BY <3>1, <3>2, AjoutTriee, Zenon
    <3>4. contenu'[g] = IF g = h THEN queue_add(contenu[g], e, priorite) ELSE contenu[g]
      BY <1>2, <1>4, <3>1
    <3>5. QED
      BY <3>1, <3>3, <3>4
  <2>2. QED
    BY <1>1, <2>1 DEF Triees
<1>8. CASE h \in STABLES
  <2>p. PICK pr \in [ELEMS -> PRIOS], c \in [TETES -> Seq(ELEMS)] : pr = priorite /\ c = contenu
    BY <1>2
  <2>d. PICK d : d = contenu'
    OBVIOUS
  <2>c. d = [c EXCEPT ![h] = queue_add(c[h], e, pr)]
    BY <1>4, <2>d, <2>p
  <2>l. EstAjout(LesClasses(pr, c), LesClasses(pr, d), h, pr[e], e)
    BY <1>8, <2>c, ClassesAjout
  <2>1. EstAjout(Classes, Classes', h, priorite[e], e)
    BY <1>5, <1>6, <2>d, <2>l, <2>p
  <2>2. \A t \in STABLES : ~Promesse!Contient(t, e)
    BY <1>1, <1>3, ContientFidele, StablesAssumption
  <2>3. Promesse!Ajouter(h, e)
    BY <1>1, <2>1, <2>2 DEF Promesse!Ajouter, EstAjout
  <2>4. Promesse!Next
    BY <1>3, <1>8, <2>3 DEF Promesse!Next
  <2>5. QED
    BY <1>7, <2>4 DEF Suivi
<1>9. CASE h \notin STABLES
  <2>p. PICK pr \in [ELEMS -> PRIOS], c \in [TETES -> Seq(ELEMS)] : pr = priorite /\ c = contenu
    BY <1>2
  <2>d. PICK d : d = contenu'
    OBVIOUS
  <2>c. d = [c EXCEPT ![h] = queue_add(c[h], e, pr)]
    BY <1>4, <2>d, <2>p
  <2>l. LesClasses(pr, d) = LesClasses(pr, c)
    <3>1. PICK t : t = queue_add(c[h], e, pr)
      OBVIOUS
    <3>2. h \in TETES \ STABLES
      BY <1>9
    <3>3. LesClasses(pr, [c EXCEPT ![h] = t]) = LesClasses(pr, c)
      BY <3>2, ClassesAilleurs, Zenon
    <3>4. QED
      BY <2>c, <3>1, <3>3
  <2>1. Classes' = Classes
    BY <1>5, <1>6, <2>d, <2>l, <2>p
  <2>2. QED
    BY <1>1, <1>7, <2>1 DEF Suivi
<1>10. QED
  BY <1>8, <1>9

LEMMA SuiviSortir ==
  ASSUME IInvClasses, IInvMaillons', NEW h \in TETES, Sortir(h),
         contenu' = [contenu EXCEPT ![h] = queue_out(contenu[h])]
  PROVE  Suivi
<1>1. IInvMaillons /\ Triees /\ next[h] # h /\ priorite' = priorite
  BY DEF IInvClasses, Sortir, Vide
<1>2. priorite \in [ELEMS -> PRIOS] /\ contenu \in [TETES -> Seq(ELEMS)]
  BY <1>1 DEF IInvMaillons
<1>3. Anneau(next, prev, h, contenu[h]) /\ SansDoublon(contenu[h])
  BY <1>1 DEF IInvMaillons, Structure
<1>4. contenu[h] # << >> /\ contenu[h] \in Seq(ELEMS)
  <2>1. SUFFICES ASSUME contenu[h] = << >> PROVE FALSE
    BY <1>2
  <2>2. Anneau(next, prev, h, << >>)
    BY <1>3, <2>1
  <2>3. Maillon(h, << >>, 0) = h /\ Maillon(h, << >>, 0+1) = h /\ 0 \in 0..Len(<< >>)
    BY EmptySeq DEF Maillon
  <2>4. QED
    BY <1>1, <2>2, <2>3 DEF Anneau
<1>5. Classes = LesClasses(priorite, contenu)
  BY <1>1, ClassesLues
<1>6. Classes' = LesClasses(priorite, contenu')
  <2>1. (IInvMaillons => Classes = LesClasses(priorite, contenu))'
    BY ClassesLues, PTL
  <2>2. QED
    BY <1>1, <2>1
<1>7. Triees'
  <2>1. ASSUME NEW g \in STABLES
        PROVE  Triee(contenu'[g], priorite)
    <3>1. g \in TETES /\ Triee(contenu[g], priorite)
      BY <1>1, StablesAssumption DEF Triees
    <3>2. contenu'[g] = IF g = h THEN queue_out(contenu[g]) ELSE contenu[g]
      BY <1>2, <3>1
    <3>3. CASE g = h
      <4>1. Triee(contenu[h], priorite) => Triee(queue_out(contenu[h]), priorite)
        BY <1>3, <1>4, SortieProp DEF queue_empty
      <4>2. QED
        BY <3>1, <3>2, <3>3, <4>1
    <3>4. QED
      BY <3>1, <3>2, <3>3
  <2>2. QED
    BY <1>1, <2>1 DEF Triees
<1>8. CASE h \in STABLES
  <2>1. Triee(contenu[h], priorite)
    BY <1>1, <1>8 DEF Triees
  <2>p. PICK pr \in [ELEMS -> PRIOS], c \in [TETES -> Seq(ELEMS)] : pr = priorite /\ c = contenu
    BY <1>2
  <2>d. PICK d : d = contenu'
    OBVIOUS
  <2>c. d = [c EXCEPT ![h] = queue_out(c[h])]
    BY <2>d, <2>p
  <2>l. EstSortie(LesClasses(pr, c), LesClasses(pr, d), h)
    <3>1. c[h] # << >> /\ Triee(c[h], pr)
      BY <1>4, <2>1, <2>p
    <3>2. QED
      BY <1>8, <2>c, <3>1, ClassesSortie
  <2>2. EstSortie(Classes, Classes', h)
    BY <1>5, <1>6, <2>d, <2>l, <2>p
  <2>3. Promesse!Sortir(h)
    BY <1>1, <2>2 DEF Promesse!Sortir, EstSortie
  <2>4. Promesse!Next
    BY <1>8, <2>3 DEF Promesse!Next
  <2>5. QED
    BY <1>7, <2>4 DEF Suivi
<1>9. CASE h \notin STABLES
  <2>p. PICK pr \in [ELEMS -> PRIOS], c \in [TETES -> Seq(ELEMS)] : pr = priorite /\ c = contenu
    BY <1>2
  <2>d. PICK d : d = contenu'
    OBVIOUS
  <2>c. d = [c EXCEPT ![h] = queue_out(c[h])]
    BY  <2>d, <2>p
  <2>l. LesClasses(pr, d) = LesClasses(pr, c)
    <3>1. PICK t : t = queue_out(c[h])
      OBVIOUS
    <3>2. h \in TETES \ STABLES
      BY <1>9
    <3>3. LesClasses(pr, [c EXCEPT ![h] = t]) = LesClasses(pr, c)
      BY <3>2, ClassesAilleurs, Zenon
    <3>4. QED
      BY <2>c, <3>1, <3>3
  <2>1. Classes' = Classes
    BY <1>5, <1>6, <2>d, <2>l, <2>p
  <2>2. QED
    BY <1>1, <1>7, <2>1 DEF Suivi
<1>10. QED
  BY <1>8, <1>9

LEMMA SuiviSupprimer ==
  ASSUME IInvClasses, IInvMaillons', NEW e \in ELEMS, NEW h \in TETES,
         e \in Range(contenu[h]), Supprimer(e),
         contenu' = [contenu EXCEPT ![h] = queue_del(contenu[h], e)]
  PROVE  Suivi
<1>1. IInvMaillons /\ Triees /\ priorite' = priorite
  BY DEF IInvClasses, Supprimer
<1>2. priorite \in [ELEMS -> PRIOS] /\ contenu \in [TETES -> Seq(ELEMS)]
  BY <1>1 DEF IInvMaillons
<1>3. SansDoublon(contenu[h]) /\ contenu[h] \in Seq(ELEMS)
  BY <1>1, <1>2 DEF IInvMaillons, Structure
<1>5. Classes = LesClasses(priorite, contenu)
  BY <1>1, ClassesLues
<1>6. Classes' = LesClasses(priorite, contenu')
  <2>1. (IInvMaillons => Classes = LesClasses(priorite, contenu))'
    BY ClassesLues, PTL
  <2>2. QED
    BY <1>1, <2>1
<1>7. Triees'
  <2>1. ASSUME NEW g \in STABLES
        PROVE  Triee(contenu'[g], priorite)
    <3>1. g \in TETES /\ Triee(contenu[g], priorite)
      BY <1>1, StablesAssumption DEF Triees
    <3>2. contenu'[g] = IF g = h THEN queue_del(contenu[g], e) ELSE contenu[g]
      BY <1>2, <3>1
    <3>3. CASE g = h
      <4>1. Triee(contenu[h], priorite) => Triee(queue_del(contenu[h], e), priorite)
        BY <1>3, SuppressionProp, Zenon
      <4>2. QED
        BY <3>1, <3>2, <3>3, <4>1
    <3>4. QED
      BY <3>1, <3>2, <3>3
  <2>2. QED
    BY <1>1, <2>1 DEF Triees
<1>8. CASE h \in STABLES
  <2>p. PICK pr \in [ELEMS -> PRIOS], c \in [TETES -> Seq(ELEMS)] : pr = priorite /\ c = contenu
    BY <1>2
  <2>d. PICK d : d = contenu'
    OBVIOUS
  <2>c. d = [c EXCEPT ![h] = queue_del(c[h], e)] /\ e \in Range(c[h])
    BY <2>d, <2>p
  <2>l. EstSuppression(LesClasses(pr, c), LesClasses(pr, d), h, pr[e], e)
    BY <1>8, <2>c, ClassesSuppression
  <2>1. EstSuppression(Classes, Classes', h, priorite[e], e)
    BY <1>5, <1>6, <2>d, <2>l, <2>p
  <2>2. Promesse!Supprimer(h, e)
    BY <1>1, <2>1 DEF Promesse!Supprimer, Promesse!RemoveAt, RemoveAt, EstSuppression
  <2>3. Promesse!Next
    BY <1>8, <2>2 DEF Promesse!Next
  <2>4. QED
    BY <1>7, <2>3 DEF Suivi
<1>9. CASE h \notin STABLES
  <2>p. PICK pr \in [ELEMS -> PRIOS], c \in [TETES -> Seq(ELEMS)] : pr = priorite /\ c = contenu
    BY <1>2
  <2>d. PICK d : d = contenu'
    OBVIOUS
  <2>c. d = [c EXCEPT ![h] = queue_del(c[h], e)]
    BY  <2>d, <2>p
  <2>l. LesClasses(pr, d) = LesClasses(pr, c)
    <3>1. PICK t : t = queue_del(c[h], e)
      OBVIOUS
    <3>2. h \in TETES \ STABLES
      BY <1>9
    <3>3. LesClasses(pr, [c EXCEPT ![h] = t]) = LesClasses(pr, c)
      BY <3>2, ClassesAilleurs, Zenon
    <3>4. QED
      BY <2>c, <3>1, <3>3
  <2>1. Classes' = Classes
    BY <1>5, <1>6, <2>d, <2>l, <2>p
  <2>2. QED
    BY <1>1, <1>7, <2>1 DEF Suivi
<1>10. QED
  BY <1>8, <1>9

LEMMA SuiviChangerPriorite ==
  ASSUME IInvClasses, IInvMaillons', NEW e \in ELEMS, NEW p \in PRIOS,
         \A h \in STABLES : e \notin Range(contenu[h]),
         ChangerPriorite(e, p), UNCHANGED contenu
  PROVE  Suivi
<1>1. IInvMaillons /\ Triees /\ priorite' = [priorite EXCEPT ![e] = p] /\ contenu' = contenu
  BY DEF IInvClasses, ChangerPriorite
<1>2. priorite \in [ELEMS -> PRIOS] /\ contenu \in [TETES -> Seq(ELEMS)]
  BY <1>1 DEF IInvMaillons
<1>3. \A h \in STABLES : contenu[h] \in Seq(ELEMS)
  BY <1>2, StablesAssumption
<1>4. \A h \in STABLES : \A x \in Range(contenu[h]) : priorite'[x] = priorite[x]
  <2>1. ASSUME NEW h \in STABLES, NEW x \in Range(contenu[h])
        PROVE  priorite'[x] = priorite[x]
    <3>1. x \in ELEMS /\ x # e
      BY <1>3, RangeOfSeq
    <3>2. QED
      BY <1>1, <1>2, <3>1
  <2>2. QED
    BY <2>1
<1>5. Classes = LesClasses(priorite, contenu)
  BY <1>1, ClassesLues
<1>6. Classes' = LesClasses(priorite', contenu)
  <2>1. (IInvMaillons => Classes = LesClasses(priorite, contenu))'
    BY ClassesLues, PTL
  <2>2. QED
    BY <1>1, <2>1
<1>7. Classes' = Classes
  <2>1. PICK pr, qr : pr = priorite /\ qr = priorite'
    OBVIOUS
  <2>2. LesClasses(qr, contenu) = LesClasses(pr, contenu)
    BY <1>2, <1>4, <2>1, ClassesPriorite
  <2>3. QED
    BY <1>5, <1>6, <2>1, <2>2
<1>8. Triees'
  <2>1. ASSUME NEW h \in STABLES
        PROVE  Triee(contenu[h], priorite')
    <3>1. \A i \in 1..Len(contenu[h]) : priorite'[contenu[h][i]] = priorite[contenu[h][i]]
      <4>1. DOMAIN contenu[h] = 1..Len(contenu[h])
        BY <1>3, LenProperties
      <4>2. QED
        BY <1>4, <4>1 DEF Range
    <3>2. Triee(contenu[h], priorite)
      BY <1>1 DEF Triees
    <3>3. QED
      BY <3>1, <3>2 DEF Triee
  <2>2. QED
    BY <1>1, <2>1 DEF Triees
<1>9. \A t \in STABLES : ~Promesse!Contient(t, e)
  BY <1>1, ContientFidele
<1>10. Promesse!ChangerPriorite(e, p)
  BY <1>1, <1>7, <1>9 DEF Promesse!ChangerPriorite
<1>11. Promesse!Next
  BY <1>10 DEF Promesse!Next
<1>12. QED
  BY <1>8, <1>11 DEF Suivi

LEMMA IInvClassesSuivi == IInvClasses /\ [NextSuivi]_varsSuivies => IInvMaillons' /\ Suivi
<1>1. SUFFICES ASSUME IInvClasses, [NextSuivi]_varsSuivies PROVE IInvMaillons' /\ Suivi
  OBVIOUS
<1>2. IInvMaillons'
  BY <1>1, IInvMaillonsStable DEF IInvClasses
<1>3. ASSUME NEW e \in ELEMS, NEW h \in TETES, DebutAjout(e, h), UNCHANGED contenu
      PROVE  Suivi
  BY <1>1, <1>2, <1>3, SuiviRien DEF DebutAjout
<1>4. CASE Avancer /\ UNCHANGED contenu
  BY <1>1, <1>2, <1>4, SuiviRien DEF Avancer
<1>5. CASE /\ Chainer
           /\ contenu' = [contenu EXCEPT ![ajout.tete] = queue_add(@, ajout.elem, priorite)]
  BY <1>1, <1>2, <1>5, SuiviChainer
<1>6. ASSUME NEW h \in TETES, Sortir(h), contenu' = [contenu EXCEPT ![h] = queue_out(@)]
      PROVE  Suivi
  BY <1>1, <1>2, <1>6, SuiviSortir
<1>7. ASSUME NEW e \in ELEMS, NEW h \in TETES, e \in Range(contenu[h]), Supprimer(e),
             contenu' = [contenu EXCEPT ![h] = queue_del(@, e)]
      PROVE  Suivi
  BY <1>1, <1>2, <1>7, SuiviSupprimer
<1>8. ASSUME NEW e \in ELEMS, NEW p \in PRIOS, \A h \in STABLES : e \notin Range(contenu[h]),
             ChangerPriorite(e, p), UNCHANGED contenu
      PROVE  Suivi
  BY <1>1, <1>2, <1>8, SuiviChangerPriorite
<1>9. CASE UNCHANGED varsSuivies
  BY <1>1, <1>2, <1>9, SuiviRien DEF varsSuivies
<1>10. Suivi
  BY <1>1, <1>3, <1>4, <1>5, <1>6, <1>7, <1>8, <1>9 DEF NextSuivi
<1>11. QED
  BY <1>2, <1>10

LEMMA InitClasses == InitSuivi => IInvClasses /\ Promesse!Init
<1>1. SUFFICES ASSUME InitSuivi PROVE IInvClasses /\ Promesse!Init
  OBVIOUS
<1>2. IInvMaillons
  BY <1>1, InitIInvMaillons
<1>3. \A h \in STABLES : contenu[h] = << >>
  BY <1>1, StablesAssumption DEF InitSuivi
<1>4. Triees
  BY <1>3, EmptySeq DEF Triees, Triee
<1>5. \A h \in STABLES, p \in PRIOS : Remonter(Classe(priorite, p))[contenu[h]] = << >>
  BY <1>3, RemonterPas, Zenon
<1>6. \A h \in STABLES : [p \in PRIOS |-> Remonter(Classe(priorite, p))[contenu[h]]]
                         = [p \in PRIOS |-> << >>]
  BY <1>5
<1>7. LesClasses(priorite, contenu) = [h \in STABLES |-> [p \in PRIOS |-> << >>]]
  BY <1>6 DEF LesClasses
<1>8. Classes = [h \in STABLES |-> [p \in PRIOS |-> << >>]]
  BY <1>2, <1>7, ClassesLues
<1>9. priorite \in [ELEMS -> PRIOS]
  BY <1>2 DEF IInvMaillons
<1>10. QED
  BY <1>2, <1>4, <1>8, <1>9 DEF IInvClasses, Promesse!Init

(* Read back from its links, a queue whose elements keep their priority is *)
(* one first-in first-out sequence per priority, and queue_out takes the   *)
(* head of the highest one that is not empty (queue.h:5-12), for any       *)
(* number of queues, elements and priorities.                              *)
THEOREM ParPrioriteCorrect == SpecSuivie => ParPriorite
<1>1. InitSuivi => IInvClasses /\ Promesse!Init
  BY InitClasses
<1>2. IInvClasses /\ [NextSuivi]_varsSuivies
        => IInvClasses' /\ [Promesse!Next]_<<priorite, Classes>>
  BY IInvClassesSuivi DEF Suivi, IInvClasses
<1>3. QED
  BY <1>1, <1>2, PTL DEF SpecSuivie, ParPriorite, Promesse!Spec
=============================================================================
