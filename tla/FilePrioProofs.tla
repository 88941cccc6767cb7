--------------------------- MODULE FilePrioProofs ---------------------------
(***************************************************************************)
(* What the operations of shared/queue.h return and preserve, for every    *)
(* queue, element and priority function.                                   *)
(***************************************************************************)
EXTENDS FilePrio, SequenceTheorems, WellFoundedInduction, TLAPS

(* Every non-empty set of naturals has a least element. *)
LEMMA PlusPetit ==
  ASSUME NEW T \in SUBSET Nat, T # {}
  PROVE  \E x \in T : \A y \in T : x <= y
<1>1. IsWellFoundedOn(OpToRel(<,Nat), Nat)
  BY NatLessThanWellFounded
<1>2. PICK x \in T : \A y \in T : <<y, x>> \notin OpToRel(<,Nat)
  BY <1>1, WFMin
<1>3. \A y \in T : ~(y < x)
  BY <1>2 DEF OpToRel
<1>4. QED
  BY <1>3

(* Induction up to N, and functions defined by recursion up to N. *)
LEMMA RecurrenceEntiers ==
  ASSUME NEW N \in Nat, NEW A, 0 \in A, \A n \in 1..N : n-1 \in A => n \in A
  PROVE  0..N \subseteq A
<1>1. SUFFICES ASSUME NEW x \in 0..N, x \notin A PROVE FALSE
  OBVIOUS
<1> DEFINE T == {n \in 0..N : n \notin A}
<1>2. T \in SUBSET Nat /\ T # {}
  BY <1>1
<1>3. PICK n \in T : \A m \in T : n <= m
  BY <1>2, PlusPetit, Zenon
<1>4. n # 0 /\ n \in 1..N
  BY <1>3
<1>5. n-1 \in 0..N /\ ~(n <= n-1)
  BY <1>4
<1>6. n-1 \in A
  BY <1>3, <1>5
<1>7. QED
  BY <1>3, <1>4, <1>6

EstSuite(f, N, a, F) == f[0] = a /\ \A n \in 1..N : f[n] = F[n][f[n-1]]

LEMMA SuiteRecursive ==
  ASSUME NEW N \in Nat, NEW S, NEW a \in S, NEW F \in [1..N -> [S -> S]]
  PROVE  \E f \in [0..N -> S] : EstSuite(f, N, a, F)
<1> DEFINE Debut(f, n) == f[0] = a /\ \A j \in 1..n : f[j] = F[j][f[j-1]]
           A == {n \in 0..N : \E f \in [0..n -> S] : Debut(f, n)}
<1>1. 0 \in A
  <2>1. PICK f : f = [j \in 0..0 |-> a]
    OBVIOUS
  <2>2. f \in [0..0 -> S] /\ f[0] = a /\ 1..0 = {}
    BY <2>1
  <2>3. 0 \in 0..N
    OBVIOUS
  <2>4. QED
    BY <2>2, <2>3
<1>2. ASSUME NEW n \in 1..N, n-1 \in A
      PROVE  n \in A
  <2>1. PICK f \in [0..n-1 -> S] : Debut(f, n-1)
    BY <1>2
  <2>2. PICK g : g = [j \in 0..n |-> IF j = n THEN F[n][f[n-1]] ELSE f[j]]
    OBVIOUS
  <2>3. n-1 \in 0..n-1 /\ n \in 0..n /\ 0 \in 0..n /\ 0 # n /\ 0 \in 0..n-1
    OBVIOUS
  <2>4. f[n-1] \in S /\ F[n] \in [S -> S] /\ F[n][f[n-1]] \in S
    BY <2>3
  <2>5. ASSUME NEW j \in 0..n
        PROVE  /\ g[j] = IF j = n THEN F[n][f[n-1]] ELSE f[j]
               /\ g[j] \in S
    <3>1. j # n => j \in 0..n-1
      OBVIOUS
    <3>2. QED
      BY <2>2, <2>4, <3>1
  <2>6. g \in [0..n -> S]
    BY <2>2, <2>5
  <2>7. ASSUME NEW j \in 1..n
        PROVE  g[j] = F[j][g[j-1]]
    <3>1. j \in 0..n /\ j-1 \in 0..n /\ j-1 # n
      OBVIOUS
    <3>2. g[j-1] = f[j-1]
      BY <2>5, <3>1
    <3>3. CASE j = n
      BY <2>5, <3>1, <3>2, <3>3
    <3>4. CASE j # n
      <4>1. j \in 1..n-1
        BY <3>4
      <4>2. f[j] = F[j][f[j-1]]
        BY <2>1, <4>1
      <4>3. QED
        BY <2>5, <3>1, <3>2, <3>4, <4>2
    <3>5. QED
      BY <3>3, <3>4
  <2>8. g[0] = a
    BY <2>1, <2>3, <2>5
  <2>9. n \in 0..N /\ Debut(g, n)
    BY <2>7, <2>8
  <2>10. QED
    BY <2>6, <2>9
<1>3. 0..N \subseteq A
  <2> HIDE DEF A
  <2>1. QED
    BY <1>1, <1>2, RecurrenceEntiers
<1>4. N \in A
  BY <1>3
<1>5. QED
  BY <1>4 DEF EstSuite

(* Two residues modulo t that differ by a multiple of t. *)
LEMMA Residus ==
  ASSUME NEW t \in Nat \ {0}, NEW x \in 0..t-1, NEW i \in 0..t-1,
         NEW p \in Int, NEW q \in Int, i + p * t = x + q * t
  PROVE  x = i
<1>1. PICK d \in Int : d = q - p
  OBVIOUS
<1>2. i - x = d * t
  BY <1>1
<1>3. d >= 1 => d * t >= t
  OBVIOUS
<1>4. d <= -1 => d * t <= -t
  OBVIOUS
<1>5. i - x < t /\ i - x > -t
  OBVIOUS
<1>6. d = 0
  BY <1>2, <1>3, <1>4, <1>5
<1>7. QED
  BY <1>2, <1>6

(* The position at which queue_add inserts is that of the first element    *)
(* not of lower priority, or just after the last element.                  *)
LEMMA PlaceAjoutProp ==
  ASSUME NEW S, NEW f \in Seq(S), NEW e \in S, NEW pr \in [S -> Int]
  PROVE  LET i == PlaceAjout(f, e, pr)
         IN /\ i \in 1..Len(f)+1
            /\ i = Len(f)+1 \/ pr[f[i]] >= pr[e]
            /\ \A j \in 1..Len(f) : j < i => pr[f[j]] < pr[e]
<1> DEFINE I == {i \in 1..Len(f)+1 : i = Len(f)+1 \/ pr[f[i]] >= pr[e]}
<1>1. Len(f) \in Nat
  BY LenProperties
<1>2. I \in SUBSET Nat /\ Len(f)+1 \in I
  BY <1>1
<1>3. PICK x \in I : \A y \in I : x <= y
  BY <1>2, PlusPetit, Zenon
<1>4. Min(I) \in I /\ \A y \in I : Min(I) <= y
  BY <1>3 DEF Min
<1>5. PlaceAjout(f, e, pr) = Min(I)
  BY Zenon DEF PlaceAjout
<1>6. ASSUME NEW j \in 1..Len(f), j < Min(I)
      PROVE  pr[f[j]] < pr[e]
  <2>1. j \notin I
    BY <1>1, <1>4, <1>6
  <2>2. f[j] \in S
    BY ElementOfSeq
  <2>3. QED
    BY <1>1, <2>1, <2>2
<1> HIDE DEF I
<1>7. Min(I) \in 1..Len(f)+1 /\ (Min(I) = Len(f)+1 \/ pr[f[Min(I)]] >= pr[e])
  BY <1>4 DEF I
<1>8. QED
  BY <1>5, <1>6, <1>7, Zenon

(* g is f with e inserted before position i. *)
EstInsertion(g, f, i, e) ==
  /\ i \in 1..Len(f)+1
  /\ Len(g) = Len(f)+1
  /\ \A j \in 1..Len(f)+1 : /\ j < i => g[j] = f[j]
                            /\ j = i => g[j] = e
                            /\ j > i => g[j] = f[j-1]

(* g is f without its element at position i. *)
EstRetrait(g, f, i) ==
  /\ i \in 1..Len(f)
  /\ Len(g) = Len(f)-1
  /\ \A j \in 1..Len(f)-1 : /\ j < i => g[j] = f[j]
                            /\ j >= i => g[j] = f[j+1]

(* Inserting at position i shifts the elements from i on by one. *)
LEMMA InsertAtProp ==
  ASSUME NEW S, NEW f \in Seq(S), NEW e \in S, NEW i \in 1..Len(f)+1
  PROVE  /\ InsertAt(f, i, e) \in Seq(S)
         /\ EstInsertion(InsertAt(f, i, e), f, i, e)
<1> DEFINE a == SubSeq(f, 1, i-1)
           b == SubSeq(f, i, Len(f))
<1>1. Len(f) \in Nat /\ \A j \in 1..Len(f) : f[j] \in S
  BY LenProperties, ElementOfSeq
<1>2. /\ a \in Seq(S) /\ Len(a) = i-1
      /\ \A j \in 1..i-1 : a[j] = f[j]
  <2>1. \A j \in 1..i-1 : f[j] \in S
    BY <1>1
  <2>2. /\ a \in Seq(S) /\ Len(a) = IF 1 <= i-1 THEN (i-1)-1+1 ELSE 0
        /\ \A j \in 1..((i-1)-1+1) : a[j] = f[1+j-1]
    BY <2>1, <1>1, SubSeqProperties
  <2>3. QED
    BY <2>2, <1>1
<1>3. /\ b \in Seq(S) /\ Len(b) = Len(f)-i+1
      /\ \A j \in 1..Len(f)-i+1 : b[j] = f[i+j-1]
  <2>1. \A j \in i..Len(f) : f[j] \in S
    BY <1>1
  <2>2. /\ b \in Seq(S) /\ Len(b) = IF i <= Len(f) THEN Len(f)-i+1 ELSE 0
        /\ \A j \in 1..Len(f)-i+1 : b[j] = f[i+j-1]
    BY <2>1, <1>1, SubSeqProperties
  <2>3. QED
    BY <2>2, <1>1
<1> HIDE DEF a, b
<1>4. <<e>> \in Seq(S) /\ Len(<<e>>) = 1 /\ <<e>>[1] = e
  OBVIOUS
<1>5. /\ a \o <<e>> \in Seq(S) /\ Len(a \o <<e>>) = i
      /\ \A j \in 1..i : (a \o <<e>>)[j] = IF j < i THEN f[j] ELSE e
  BY <1>1, <1>2, <1>4, ConcatProperties
<1>6. /\ (a \o <<e>>) \o b \in Seq(S) /\ Len((a \o <<e>>) \o b) = Len(f)+1
      /\ \A j \in 1..Len(f)+1 : ((a \o <<e>>) \o b)[j] =
           IF j <= i THEN (a \o <<e>>)[j] ELSE b[j-i]
  <2> DEFINE c == a \o <<e>>
  <2>1. c \in Seq(S) /\ Len(c) = i
    BY <1>5
  <2> HIDE DEF c
  <2>2. /\ c \o b \in Seq(S) /\ Len(c \o b) = Len(c) + Len(b)
        /\ \A j \in 1..Len(c)+Len(b) :
             (c \o b)[j] = IF j <= Len(c) THEN c[j] ELSE b[j - Len(c)]
    BY <2>1, <1>3, ConcatProperties
  <2>3. Len(c) + Len(b) = Len(f)+1
    BY <2>1, <1>1, <1>3
  <2>4. QED
    BY <2>1, <2>2, <2>3 DEF c
<1>7. \A j \in 1..Len(f)+1 : j > i => b[j-i] = f[j-1]
  BY <1>1, <1>3
<1>8. InsertAt(f, i, e) = (a \o <<e>>) \o b
  BY DEF InsertAt, a, b
<1>9. PICK g : g = (a \o <<e>>) \o b
  OBVIOUS
<1>10. EstInsertion(g, f, i, e)
  <2>1. i \in 1..Len(f)+1 /\ Len(g) = Len(f)+1
    BY <1>6, <1>9
  <2>2. ASSUME NEW j \in 1..Len(f)+1, j < i
        PROVE  g[j] = f[j]
    BY <1>1, <1>5, <1>6, <1>9, <2>2
  <2>3. ASSUME NEW j \in 1..Len(f)+1, j = i
        PROVE  g[j] = e
    BY <1>1, <1>5, <1>6, <1>9, <2>3
  <2>4. ASSUME NEW j \in 1..Len(f)+1, j > i
        PROVE  g[j] = f[j-1]
    <3>1. g[j] = b[j-i]
      BY <1>1, <1>6, <1>9, <2>4
    <3>2. QED
      BY <1>7, <2>4, <3>1
  <2>5. QED
    BY <2>1, <2>2, <2>3, <2>4 DEF EstInsertion
<1>11. QED
  BY <1>6, <1>8, <1>9, <1>10, Zenon

(* Removing position i shifts the elements after i by one. *)
LEMMA RemoveAtProp ==
  ASSUME NEW S, NEW f \in Seq(S), NEW i \in 1..Len(f)
  PROVE  /\ RemoveAt(f, i) \in Seq(S)
         /\ EstRetrait(RemoveAt(f, i), f, i)
<1> DEFINE a == SubSeq(f, 1, i-1)
           b == SubSeq(f, i+1, Len(f))
<1>1. Len(f) \in Nat /\ \A j \in 1..Len(f) : f[j] \in S
  BY LenProperties, ElementOfSeq
<1>2. /\ a \in Seq(S) /\ Len(a) = i-1
      /\ \A j \in 1..i-1 : a[j] = f[j]
  <2>1. \A j \in 1..i-1 : f[j] \in S
    BY <1>1
  <2>2. /\ a \in Seq(S) /\ Len(a) = IF 1 <= i-1 THEN (i-1)-1+1 ELSE 0
        /\ \A j \in 1..((i-1)-1+1) : a[j] = f[1+j-1]
    BY <2>1, <1>1, SubSeqProperties
  <2>3. QED
    BY <2>2, <1>1
<1>3. /\ b \in Seq(S) /\ Len(b) = Len(f)-i
      /\ \A j \in 1..Len(f)-i : b[j] = f[i+j]
  <2>1. \A j \in i+1..Len(f) : f[j] \in S
    BY <1>1
  <2>2. /\ b \in Seq(S) /\ Len(b) = IF i+1 <= Len(f) THEN Len(f)-(i+1)+1 ELSE 0
        /\ \A j \in 1..Len(f)-(i+1)+1 : b[j] = f[(i+1)+j-1]
    BY <2>1, <1>1, SubSeqProperties
  <2>3. QED
    BY <2>2, <1>1
<1> HIDE DEF a, b
<1>4. /\ a \o b \in Seq(S) /\ Len(a \o b) = Len(f)-1
      /\ \A j \in 1..Len(f)-1 : (a \o b)[j] = IF j <= i-1 THEN a[j] ELSE b[j-(i-1)]
  <2>1. /\ a \o b \in Seq(S) /\ Len(a \o b) = Len(a) + Len(b)
        /\ \A j \in 1..Len(a)+Len(b) :
             (a \o b)[j] = IF j <= Len(a) THEN a[j] ELSE b[j - Len(a)]
    BY <1>2, <1>3, ConcatProperties
  <2>2. Len(a) = i-1 /\ Len(a) + Len(b) = Len(f)-1
    BY <1>1, <1>2, <1>3
  <2>3. QED
    BY <2>1, <2>2
<1>5. \A j \in 1..Len(f)-1 : j >= i => b[j-(i-1)] = f[j+1]
  BY <1>1, <1>3
<1>6. RemoveAt(f, i) = a \o b
  BY DEF RemoveAt, a, b
<1>7. PICK g : g = a \o b
  OBVIOUS
<1>8. EstRetrait(g, f, i)
  <2>1. i \in 1..Len(f) /\ Len(g) = Len(f)-1
    BY <1>4, <1>7
  <2>2. ASSUME NEW j \in 1..Len(f)-1, j < i
        PROVE  g[j] = f[j]
    <3>1. g[j] = a[j]
      <4>1. j <= i-1
        BY <1>1, <2>2
      <4>2. (a \o b)[j] = IF j <= i-1 THEN a[j] ELSE b[j-(i-1)]
        BY <1>4
      <4>3. QED
        BY <1>7, <4>1, <4>2
    <3>2. a[j] = f[j]
      BY <1>1, <1>2, <2>2
    <3>3. QED
      BY <3>1, <3>2
  <2>3. ASSUME NEW j \in 1..Len(f)-1, j >= i
        PROVE  g[j] = f[j+1]
    <3>1. g[j] = b[j-(i-1)]
      BY <1>1, <1>4, <1>7, <2>3
    <3>2. QED
      BY <1>5, <2>3, <3>1
  <2>4. QED
    BY <2>1, <2>2, <2>3 DEF EstRetrait
<1>9. QED
  BY <1>4, <1>6, <1>7, <1>8, Zenon

-----------------------------------------------------------------------------
(* queue_add(f, e, pr) is f with e inserted at PlaceAjout(f, e, pr). *)
LEMMA AjoutInsertion ==
  ASSUME NEW S, NEW f \in Seq(S), NEW e \in S, NEW pr \in [S -> Int]
  PROVE  /\ queue_add(f, e, pr) \in Seq(S)
         /\ EstInsertion(queue_add(f, e, pr), f, PlaceAjout(f, e, pr), e)
<1>1. PlaceAjout(f, e, pr) \in 1..Len(f)+1
  BY PlaceAjoutProp, Zenon
<1>2. QED
  BY <1>1, InsertAtProp, Zenon DEF queue_add

(* queue_add keeps the queue a sequence of S, adds e and nothing else, and *)
(* lists nobody twice if e was not linked (the assertion of queue.h:78).   *)
LEMMA AjoutElements ==
  ASSUME NEW S, NEW f \in Seq(S), NEW e \in S, NEW pr \in [S -> Int]
  PROVE  /\ queue_add(f, e, pr) \in Seq(S)
         /\ Range(queue_add(f, e, pr)) = Range(f) \cup {e}
         /\ SansDoublon(f) /\ e \notin Range(f) => SansDoublon(queue_add(f, e, pr))
<1>1. PICK i : i = PlaceAjout(f, e, pr)
  OBVIOUS
<1>2. PICK g : g = queue_add(f, e, pr)
  OBVIOUS
<1>3. /\ Len(f) \in Nat /\ DOMAIN f = 1..Len(f)
      /\ i \in 1..Len(f)+1
      /\ g \in Seq(S) /\ Len(g) = Len(f)+1 /\ DOMAIN g = 1..Len(f)+1
      /\ \A j \in 1..Len(f)+1 : /\ j < i => g[j] = f[j]
                                /\ j = i => g[j] = e
                                /\ j > i => g[j] = f[j-1]
  <2>1. g \in Seq(S) /\ EstInsertion(g, f, i, e)
    BY <1>1, <1>2, AjoutInsertion, Zenon
  <2>2. QED
    BY <2>1, LenProperties DEF EstInsertion
<1>4. Range(g) \subseteq Range(f) \cup {e}
  <2>1. SUFFICES ASSUME NEW j \in 1..Len(f)+1 PROVE g[j] \in Range(f) \cup {e}
    BY <1>3 DEF Range
  <2>2. CASE j < i
    <3>1. j \in 1..Len(f) /\ g[j] = f[j]
      BY <2>2, <1>3
    <3>2. QED
      BY <3>1, <1>3 DEF Range
  <2>3. CASE j > i
    <3>1. j-1 \in 1..Len(f) /\ g[j] = f[j-1]
      BY <2>3, <1>3
    <3>2. QED
      BY <3>1, <1>3 DEF Range
  <2>4. QED
    BY <2>2, <2>3, <1>3
<1>5. Range(f) \subseteq Range(g)
  <2>1. SUFFICES ASSUME NEW j \in 1..Len(f) PROVE f[j] \in Range(g)
    BY <1>3 DEF Range
  <2>2. CASE j < i
    <3>1. j \in 1..Len(f)+1 /\ g[j] = f[j]
      BY <2>2, <1>3
    <3>2. QED
      BY <3>1, <1>3 DEF Range
  <2>3. CASE j >= i
    <3>1. j+1 \in 1..Len(f)+1 /\ j+1 > i /\ (j+1)-1 = j
      BY <2>3, <1>3
    <3>2. g[j+1] = f[j]
      BY <3>1, <1>3
    <3>3. QED
      BY <3>1, <3>2, <1>3 DEF Range
  <2>4. QED
    BY <2>2, <2>3, <1>3
<1>6. e \in Range(g)
  <2>1. g[i] = e /\ i \in DOMAIN g
    BY <1>3
  <2>2. QED
    BY <2>1 DEF Range
<1>7. ASSUME SansDoublon(f), e \notin Range(f)
      PROVE  SansDoublon(g)
  <2>1. \A j \in 1..Len(f) : f[j] # e
    BY <1>7, <1>3 DEF Range
  <2>2. SUFFICES ASSUME NEW a \in 1..Len(f)+1, NEW b \in 1..Len(f)+1,
                        a < b, g[a] = g[b]
                 PROVE  FALSE
    BY <1>3 DEF SansDoublon
  <2>3. \A n \in 1..Len(f)+1 : n < i => n \in 1..Len(f) /\ g[n] = f[n]
    BY <1>3
  <2>4. \A n \in 1..Len(f)+1 : n > i => n-1 \in 1..Len(f) /\ g[n] = f[n-1]
    BY <1>3
  <2>5. CASE a = i
    <3>1. b-1 \in 1..Len(f) /\ g[b] = f[b-1] /\ g[a] = e
      BY <2>2, <2>4, <2>5, <1>3
    <3>2. QED
      BY <3>1, <2>1, <2>2
  <2>6. CASE b = i
    <3>1. a \in 1..Len(f) /\ g[a] = f[a] /\ g[b] = e
      BY <2>2, <2>3, <2>6, <1>3
    <3>2. QED
      BY <3>1, <2>1, <2>2
  <2>7. CASE b < i
    <3>1. /\ a \in 1..Len(f) /\ g[a] = f[a]
          /\ b \in 1..Len(f) /\ g[b] = f[b]
      BY <2>2, <2>3, <2>7, <1>3
    <3>2. QED
      BY <3>1, <2>2, <1>3, <1>7, SMTT(30) DEF SansDoublon
  <2>8. CASE a < i /\ b > i
    <3>1. /\ a \in 1..Len(f) /\ g[a] = f[a]
          /\ b-1 \in 1..Len(f) /\ g[b] = f[b-1] /\ a # b-1
      BY <2>2, <2>3, <2>4, <2>8, <1>3
    <3>2. QED
      BY <3>1, <2>2, <1>7 DEF SansDoublon
  <2>9. CASE a > i
    <3>1. /\ a-1 \in 1..Len(f) /\ g[a] = f[a-1]
          /\ b-1 \in 1..Len(f) /\ g[b] = f[b-1] /\ a-1 # b-1
      BY <2>2, <2>4, <2>9, <1>3, SMTT(30)
    <3>2. QED
      BY <3>1, <2>2, <1>7 DEF SansDoublon
  <2>10. QED
    BY <2>5, <2>6, <2>7, <2>8, <2>9, <1>3
<1>8. QED
  BY <1>2, <1>3, <1>4, <1>5, <1>6, <1>7, Zenon

(* queue_add keeps a sorted queue sorted. *)
LEMMA AjoutTriee ==
  ASSUME NEW S, NEW f \in Seq(S), NEW e \in S, NEW pr \in [S -> Int],
         Triee(f, pr)
  PROVE  Triee(queue_add(f, e, pr), pr)
<1>1. PICK i : i = PlaceAjout(f, e, pr)
  OBVIOUS
<1>2. PICK g : g = queue_add(f, e, pr)
  OBVIOUS
<1>3. /\ Len(f) \in Nat /\ i \in 1..Len(f)+1 /\ Len(g) = Len(f)+1
      /\ \A j \in 1..Len(f)+1 : /\ j < i => g[j] = f[j]
                                /\ j = i => g[j] = e
                                /\ j > i => g[j] = f[j-1]
  <2>1. g \in Seq(S) /\ EstInsertion(g, f, i, e)
    BY <1>1, <1>2, AjoutInsertion, Zenon
  <2>2. QED
    BY <2>1, LenProperties DEF EstInsertion
<1>4. /\ i = Len(f)+1 \/ pr[f[i]] >= pr[e]
      /\ \A j \in 1..Len(f) : j < i => pr[f[j]] < pr[e]
  BY <1>1, PlaceAjoutProp, Zenon
<1>5. pr[e] \in Int /\ \A j \in 1..Len(f) : pr[f[j]] \in Int
  BY ElementOfSeq
<1>6. \A j, l \in 1..Len(f) : j <= l => pr[f[j]] <= pr[f[l]]
  BY <1>3, <1>5 DEF Triee
<1>7. ASSUME NEW j \in 1..Len(f), j >= i PROVE pr[f[j]] >= pr[e]
  <2>1. i \in 1..Len(f) /\ pr[f[i]] >= pr[e]
    BY <1>3, <1>4, <1>7
  <2>2. pr[f[i]] <= pr[f[j]]
    BY <1>6, <1>7, <2>1
  <2>3. QED
    BY <1>5, <2>1, <2>2
<1>8. SUFFICES ASSUME NEW a \in 1..Len(f)+1, NEW b \in 1..Len(f)+1, a < b
               PROVE  pr[g[a]] <= pr[g[b]]
  BY <1>2, <1>3 DEF Triee
<1>9. CASE b < i
  <2>1. a \in 1..Len(f) /\ b \in 1..Len(f) /\ g[a] = f[a] /\ g[b] = f[b]
    BY <1>3, <1>8, <1>9
  <2>2. QED
    BY <2>1, <1>6, <1>8
<1>10. CASE b = i
  <2>1. a \in 1..Len(f) /\ a < i /\ g[a] = f[a] /\ g[b] = e
    BY <1>3, <1>8, <1>10
  <2>2. QED
    BY <2>1, <1>4, <1>5
<1>11. CASE b > i /\ a < i
  <2>1. a \in 1..Len(f) /\ b-1 \in 1..Len(f) /\ a <= b-1 /\ g[a] = f[a] /\ g[b] = f[b-1]
    BY <1>3, <1>8, <1>11
  <2>2. QED
    BY <2>1, <1>6
<1>12. CASE b > i /\ a = i
  <2>1. b-1 \in 1..Len(f) /\ b-1 >= i /\ g[a] = e /\ g[b] = f[b-1]
    BY <1>3, <1>8, <1>12
  <2>2. QED
    BY <2>1, <1>5, <1>7
<1>13. CASE b > i /\ a > i
  <2>1. /\ a-1 \in 1..Len(f) /\ b-1 \in 1..Len(f) /\ a-1 <= b-1
        /\ g[a] = f[a-1] /\ g[b] = f[b-1]
    BY <1>3, <1>8, <1>13, SMTT(30)
  <2>2. QED
    BY <2>1, <1>6
<1>14. QED
  BY <1>3, <1>9, <1>10, <1>11, <1>12, <1>13

-----------------------------------------------------------------------------
(* Taking a position out of a queue without duplicates leaves the other    *)
(* elements, in the same order.                                            *)
LEMMA RetraitProp ==
  ASSUME NEW S, NEW f \in Seq(S), NEW g \in Seq(S), NEW i,
         EstRetrait(g, f, i), SansDoublon(f), NEW pr
  PROVE  /\ Range(g) = Range(f) \ {f[i]}
         /\ SansDoublon(g)
         /\ Triee(f, pr) => Triee(g, pr)
<1>1. /\ Len(f) \in Nat /\ DOMAIN f = 1..Len(f) /\ DOMAIN g = 1..Len(g)
      /\ i \in 1..Len(f) /\ Len(g) = Len(f)-1
      /\ \A j \in 1..Len(f)-1 : /\ j < i => g[j] = f[j]
                                /\ j >= i => g[j] = f[j+1]
  BY LenProperties DEF EstRetrait
<1> DEFINE src(n) == IF n < i THEN n ELSE n+1
<1>2. \A n \in 1..Len(g) : src(n) \in 1..Len(f) /\ src(n) # i /\ g[n] = f[src(n)]
  BY <1>1
<1>3. \A m, n \in 1..Len(g) : m < n => src(m) < src(n)
  BY <1>1
<1>4. \A n \in 1..Len(f) : n # i => \E m \in 1..Len(g) : src(m) = n
  <2>1. SUFFICES ASSUME NEW n \in 1..Len(f), n # i
                 PROVE  \E m \in 1..Len(g) : src(m) = n
    OBVIOUS
  <2>2. CASE n < i
    <3>1. n \in 1..Len(g) /\ src(n) = n
      BY <2>1, <2>2, <1>1
    <3>2. QED
      BY <3>1
  <2>3. CASE n > i
    <3>1. n-1 \in 1..Len(g) /\ src(n-1) = n
      BY <2>1, <2>3, <1>1
    <3>2. QED
      BY <3>1
  <2>4. QED
    BY <2>1, <2>2, <2>3, <1>1
<1> HIDE DEF src
<1>5. \A m, n \in 1..Len(f) : f[m] = f[n] => m = n
  BY DEF SansDoublon
<1>6. Range(g) = Range(f) \ {f[i]}
  <2>1. ASSUME NEW x \in Range(g) PROVE x \in Range(f) /\ x # f[i]
    <3>1. PICK n \in 1..Len(g) : x = g[n]
      BY <1>1 DEF Range
    <3>2. src(n) \in DOMAIN f /\ x = f[src(n)] /\ src(n) # i
      BY <3>1, <1>1, <1>2
    <3>3. QED
      BY <3>2, <1>1, <1>5 DEF Range
  <2>2. ASSUME NEW x \in Range(f), x # f[i] PROVE x \in Range(g)
    <3>1. PICK n \in 1..Len(f) : x = f[n]
      BY <1>1 DEF Range
    <3>2. PICK m \in 1..Len(g) : src(m) = n
      BY <3>1, <2>2, <1>4
    <3>3. g[m] = x
      BY <3>1, <3>2, <1>2
    <3>4. QED
      BY <3>3, <1>1 DEF Range
  <2>3. QED
    BY <2>1, <2>2
<1>7. SansDoublon(g)
  <2>1. SUFFICES ASSUME NEW m \in 1..Len(g), NEW n \in 1..Len(g), g[m] = g[n]
                 PROVE  m = n
    BY DEF SansDoublon
  <2>2. src(m) = src(n)
    BY <2>1, <1>2, <1>5
  <2>3. ~(m < n) /\ ~(n < m)
    BY <2>2, <1>1, <1>2, <1>3
  <2>4. QED
    BY <2>3, <1>1
<1>8. ASSUME Triee(f, pr) PROVE Triee(g, pr)
  <2>1. SUFFICES ASSUME NEW m \in 1..Len(g), NEW n \in 1..Len(g), m < n
                 PROVE  pr[g[m]] <= pr[g[n]]
    BY DEF Triee
  <2>2. src(m) < src(n)
    BY <2>1, <1>3
  <2>3. pr[f[src(m)]] <= pr[f[src(n)]]
    BY <2>2, <1>2, <1>8 DEF Triee
  <2>4. QED
    BY <2>3, <1>2
<1>9. QED
  BY <1>6, <1>7, <1>8

(* queue_del(f, e) takes out the place of e.                               *)
LEMMA SuppressionRetrait ==
  ASSUME NEW S, NEW f \in Seq(S), NEW e \in Range(f)
  PROVE  \E i \in 1..Len(f) : /\ f[i] = e
                              /\ queue_del(f, e) \in Seq(S)
                              /\ EstRetrait(queue_del(f, e), f, i)
<1>1. PICK i : i = CHOOSE j \in 1..Len(f) : f[j] = e
  OBVIOUS
<1>2. \E j \in 1..Len(f) : f[j] = e
  BY LenProperties DEF Range
<1>3. i \in 1..Len(f) /\ f[i] = e
  BY <1>1, <1>2
<1>4. queue_del(f, e) = RemoveAt(f, i)
  BY <1>1 DEF queue_del
<1>5. queue_del(f, e) \in Seq(S) /\ EstRetrait(queue_del(f, e), f, i)
  BY <1>3, <1>4, RemoveAtProp, Zenon
<1>6. QED
  BY <1>3, <1>5

(* queue_del(f, e), for a linked element e, takes e out and nothing else.  *)
LEMMA SuppressionProp ==
  ASSUME NEW S, NEW f \in Seq(S), NEW e \in Range(f), SansDoublon(f), NEW pr
  PROVE  /\ queue_del(f, e) \in Seq(S)
         /\ Range(queue_del(f, e)) = Range(f) \ {e}
         /\ SansDoublon(queue_del(f, e))
         /\ Triee(f, pr) => Triee(queue_del(f, e), pr)
<1>1. PICK i \in 1..Len(f) : /\ f[i] = e
                            /\ queue_del(f, e) \in Seq(S)
                            /\ EstRetrait(queue_del(f, e), f, i)
  BY SuppressionRetrait, Zenon
<1>2. QED
  BY <1>1, RetraitProp, Zenon

(* queue_out takes out the last place, queue_top. *)
LEMMA SortieRetrait ==
  ASSUME NEW S, NEW f \in Seq(S), ~queue_empty(f)
  PROVE  queue_out(f) \in Seq(S) /\ EstRetrait(queue_out(f), f, Len(f))
<1>1. Len(f) \in Nat /\ Len(f) # 0
  BY LenProperties, EmptySeq DEF queue_empty
<1>2. PICK n \in Nat : Len(f) = n+1
  <2>1. Len(f)-1 \in Nat /\ Len(f) = (Len(f)-1)+1
    BY <1>1
  <2>2. QED
    BY <2>1
<1>3. PICK g : g = queue_out(f)
  OBVIOUS
<1>4. g = SubSeq(f, 1, n)
  BY <1>2, <1>3 DEF queue_out, Front
<1>5. \A j \in 1..n : f[j] \in S
  BY <1>1, <1>2, ElementOfSeq
<1>6. /\ g \in Seq(S) /\ Len(g) = IF 1 <= n THEN n-1+1 ELSE 0
      /\ \A j \in 1..n-1+1 : g[j] = f[1+j-1]
  BY <1>4, <1>5, SubSeqProperties
<1>7. Len(g) = n /\ \A j \in 1..n : g[j] = f[j]
  BY <1>6
<1>8. QED
  BY <1>2, <1>3, <1>6, <1>7 DEF EstRetrait

(* queue_out takes queue_top out and nothing else; queue_top has the       *)
(* highest priority of a sorted queue.                                     *)
LEMMA SortieProp ==
  ASSUME NEW S, NEW f \in Seq(S), ~queue_empty(f), SansDoublon(f), NEW pr
  PROVE  /\ queue_top(f) \in Range(f)
         /\ queue_out(f) \in Seq(S)
         /\ Range(queue_out(f)) = Range(f) \ {queue_top(f)}
         /\ SansDoublon(queue_out(f))
         /\ Triee(f, pr) => Triee(queue_out(f), pr)
<1>1. Len(f) \in Nat /\ Len(f) # 0 /\ DOMAIN f = 1..Len(f)
  BY LenProperties, EmptySeq DEF queue_empty
<1>2. PICK g : g = queue_out(f)
  OBVIOUS
<1>3. g \in Seq(S) /\ EstRetrait(g, f, Len(f))
  BY <1>2, SortieRetrait
<1>4. queue_top(f) = f[Len(f)] /\ f[Len(f)] \in Range(f)
  BY <1>1 DEF queue_top, Last, Range
<1>5. /\ Range(g) = Range(f) \ {f[Len(f)]}
      /\ SansDoublon(g)
      /\ Triee(f, pr) => Triee(g, pr)
  BY <1>3, RetraitProp, Zenon
<1>6. QED
  BY <1>2, <1>3, <1>4, <1>5, Zenon

LEMMA SommetMax ==
  ASSUME NEW S, NEW f \in Seq(S), NEW pr \in [S -> Int], Triee(f, pr),
         NEW e \in Range(f)
  PROVE  pr[e] <= pr[queue_top(f)]
<1>1. Len(f) \in Nat /\ DOMAIN f = 1..Len(f)
  BY LenProperties
<1>2. PICK j \in 1..Len(f) : e = f[j]
  BY <1>1 DEF Range
<1>3. e \in S /\ pr[e] \in Int
  BY <1>2, ElementOfSeq
<1>4. QED
  BY <1>1, <1>2, <1>3 DEF Triee, queue_top, Last
=============================================================================
