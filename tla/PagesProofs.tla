----------------------------- MODULE PagesProofs -----------------------------
(***************************************************************************)
(* The pages of processes, for any number of pages, of frames and of       *)
(* processes, any sizes of the programs and of the parts of an address:    *)
(* no page of phy_mem_allocator.c is lost or given twice; no two processes *)
(* see a common page, all see the kernel as at boot, the frames of the     *)
(* tables are given back, and the debugger's copies touch the right bytes. *)
(*                                                                         *)
(* The parts: pages and records; powers of two and the bits of addresses;  *)
(* the map of the kernel; the memory, one process or all; what start adds  *)
(* to it and free_page takes away; the invariant and its steps; the        *)
(* properties.                                                             *)
(***************************************************************************)
EXTENDS PagesProp, ProcessusProofs, FiniteSetTheorems

(* A finite set of frames has a lowest part of every size.                 *)
EstBasse(T, S, n) == T \in kSubset(n, S) /\ \A a \in T, b \in S \ T : a < b

LEMMA BassesExiste ==
  ASSUME NEW S, S \subseteq Nat, IsFiniteSet(S), NEW n \in 0..Cardinality(S)
  PROVE  \E T : EstBasse(T, S, n)
<1>1. Cardinality(S) \in Nat
  BY FS_CardinalityType
<1> DEFINE X == {x \in 0..Cardinality(S) : ~ \E T : EstBasse(T, S, x)}
<1>2. SUFFICES ASSUME X # {} PROVE FALSE
  OBVIOUS
<1>3. X \in SUBSET Nat
  BY <1>1
<1>4. PICK x \in X : \A y \in X : x <= y
  BY <1>2, <1>3, PlusPetit
<1>5. x \in 0..Cardinality(S) /\ ~ \E T : EstBasse(T, S, x)
  BY <1>4
<1>6. CASE x = 0
  <2>1. Cardinality({}) = 0 /\ {} \in SUBSET S
    BY FS_EmptySet
  <2>2. EstBasse({}, S, 0)
    BY <2>1 DEF EstBasse, kSubset
  <2>3. QED
    BY <1>5, <1>6, <2>2
<1>7. CASE x # 0
  <2>1. x-1 \in 0..Cardinality(S) /\ ~(x <= x-1) /\ x-1 < Cardinality(S) /\ (x-1)+1 = x
    BY <1>1, <1>5, <1>7
  <2>2. PICK T : EstBasse(T, S, x-1)
    BY <1>4, <2>1
  <2>3. T \in SUBSET S /\ Cardinality(T) = x-1 /\ \A a \in T, b \in S \ T : a < b
    BY <2>2 DEF EstBasse, kSubset
  <2>4. IsFiniteSet(T)
    BY <2>3, FS_Subset
  <2>5. S \ T # {}
    <3>1. SUFFICES ASSUME S \ T = {} PROVE FALSE
      OBVIOUS
    <3>2. S = T
      BY <2>3, <3>1
    <3>3. QED
      BY <1>1, <2>1, <2>3, <3>2
  <2>6. S \ T \in SUBSET Nat
    OBVIOUS
  <2>7. PICK m \in S \ T : \A y \in S \ T : m <= y
    BY <2>5, <2>6, PlusPetit
  <2>8. m \in S /\ m \notin T /\ m \in Nat
    BY <2>7
  <2>9. Cardinality(T \cup {m}) = x
    <3>1. Cardinality(T \cup {m}) = IF m \in T THEN Cardinality(T) ELSE Cardinality(T)+1
      BY <2>4, FS_AddElement
    <3>2. QED
      BY <2>1, <2>3, <2>8, <3>1
  <2>10. ASSUME NEW a \in T \cup {m}, NEW b \in S \ (T \cup {m})
         PROVE  a < b
    <3>1. b \in S \ T /\ b # m /\ b \in Nat
      OBVIOUS
    <3>2. CASE a \in T
      BY <2>3, <3>1, <3>2
    <3>3. CASE a = m
      <4>1. m <= b
        BY <2>7, <3>1
      <4>2. QED
        BY <2>8, <3>1, <3>3, <4>1
    <3>4. QED
      BY <3>2, <3>3
  <2>11. T \cup {m} \in SUBSET S
    BY <2>3, <2>8
  <2>12. EstBasse(T \cup {m}, S, x)
    BY <2>9, <2>10, <2>11 DEF EstBasse, kSubset
  <2>13. QED
    BY <1>5, <2>12
<1>8. QED
  BY <1>6, <1>7

LEMMA BassesProp ==
  ASSUME NEW S, S \subseteq Nat, IsFiniteSet(S), NEW n \in 0..Cardinality(S)
  PROVE  Basses(S, n) \subseteq S /\ Cardinality(Basses(S, n)) = n
<1>1. PICK T : EstBasse(T, S, n)
  BY BassesExiste
<1>2. T \in kSubset(n, S) /\ \A a \in T, b \in S \ T : a < b
  BY <1>1 DEF EstBasse
<1>3. Basses(S, n) \in kSubset(n, S)
  BY <1>2 DEF Basses
<1>4. QED
  BY <1>3 DEF kSubset

LEMMA PoolProp ==
  /\ Pool \subseteq TAS /\ Pool \subseteq Nat /\ IsFiniteSet(Pool)
  /\ Cardinality(Pool) = NBPAGES /\ NBPAGES \in Nat /\ NBPAGES >= 2
  /\ Cardinality(TAS) \in Nat /\ NBPAGES <= Cardinality(TAS) - 3
<1>1. TAS \subseteq Nat /\ IsFiniteSet(TAS)
  BY CadresAssumption
<1>2. Cardinality(TAS) \in Nat
  BY <1>1, FS_CardinalityType
<1>3. NBPAGES \in 0..Cardinality(TAS) /\ NBPAGES >= 2 /\ NBPAGES <= Cardinality(TAS) - 3
  BY <1>2, PagesAssumption
<1>4. Pool \subseteq TAS /\ Cardinality(Pool) = NBPAGES
  BY <1>1, <1>3, BassesProp DEF Pool
<1>5. IsFiniteSet(Pool)
  BY <1>1, <1>4, FS_Subset
<1>6. QED
  BY <1>1, <1>2, <1>3, <1>4, <1>5

-----------------------------------------------------------------------------
(* The pages of the pool are shared out between the free ones and the      *)
(* records: every page is in one place and in one only.                    *)
Possibles == [pid : Int, adresses : SUBSET Pool]

Partage(s) ==
  /\ s \in [vides : SUBSET Pool, allouees : Seq(Possibles)]
  /\ \A i \in DOMAIN s.allouees : s.allouees[i].adresses \cap s.vides = {}
  /\ \A i, j \in DOMAIN s.allouees :
       i # j => s.allouees[i].adresses \cap s.allouees[j].adresses = {}
  /\ \A f \in Pool : f \in s.vides \/ \E i \in DOMAIN s.allouees : f \in s.allouees[i].adresses

(* Free pages are moved to a new record, wherever it is inserted.          *)
LEMMA Inscription ==
  ASSUME NEW s, Partage(s), NEW pid \in Int, NEW S, S \subseteq s.vides,
         NEW i \in 1..Len(s.allouees)+1
  PROVE  Partage([vides |-> s.vides \ S,
                  allouees |-> InsertAt(s.allouees, i, [pid |-> pid, adresses |-> S])])
<1>1. PICK a : a = s.allouees
  OBVIOUS
<1>2. PICK v : v = s.vides
  OBVIOUS
<1>3. PICK e : e = [pid |-> pid, adresses |-> S]
  OBVIOUS
<1>4. PICK b : b = InsertAt(a, i, e)
  OBVIOUS
<1>5. PICK t : t = [vides |-> v \ S, allouees |-> b]
  OBVIOUS
<1>6. /\ v \subseteq Pool /\ a \in Seq(Possibles) /\ S \subseteq v
      /\ \A j \in DOMAIN a : a[j].adresses \cap v = {}
      /\ \A j, k \in DOMAIN a : j # k => a[j].adresses \cap a[k].adresses = {}
      /\ \A f \in Pool : f \in v \/ \E j \in DOMAIN a : f \in a[j].adresses
  BY <1>1, <1>2 DEF Partage
<1>7. e \in Possibles /\ e.adresses = S
  BY <1>3, <1>6 DEF Possibles
<1>8. PICK n \in Nat : n = Len(a)
  BY <1>6, LenProperties
<1>9. i \in 1..n+1
  BY <1>1, <1>8
<1>10. b \in Seq(Possibles) /\ EstInsertion(b, a, i, e)
  <2>1. i \in 1..Len(a)+1
    BY <1>8, <1>9
  <2>2. QED
    BY <1>4, <1>6, <1>7, <2>1, InsertAtProp, Zenon
<1>11. /\ DOMAIN a = 1..n /\ DOMAIN b = 1..n+1
       /\ \A j \in 1..n+1 : /\ j < i => b[j] = a[j]
                            /\ j = i => b[j] = e
                            /\ j > i => b[j] = a[j-1]
  BY <1>6, <1>8, <1>10, LenProperties DEF EstInsertion
<1> DEFINE src(j) == IF j < i THEN j ELSE j-1
<1>12. ASSUME NEW j \in 1..n+1, j # i
       PROVE  src(j) \in 1..n /\ b[j] = a[src(j)]
  <2>1. CASE j < i
    <3>1. src(j) = j /\ j \in 1..n
      BY <1>9, <2>1
    <3>2. QED
      BY <1>11, <2>1, <3>1
  <2>2. CASE j > i
    <3>1. src(j) = j-1 /\ j-1 \in 1..n
      BY <1>9, <2>2
    <3>2. QED
      BY <1>11, <2>2, <3>1
  <2>3. QED
    BY <1>9, <1>12, <2>1, <2>2
<1>13. \A j, k \in 1..n+1 : j # i /\ k # i /\ j # k => src(j) # src(k)
  BY <1>9
<1>14. \A l \in 1..n : \E j \in 1..n+1 : j # i /\ src(j) = l
  <2>1. SUFFICES ASSUME NEW l \in 1..n PROVE \E j \in 1..n+1 : j # i /\ src(j) = l
    OBVIOUS
  <2>2. CASE l < i
    <3>1. l \in 1..n+1 /\ l # i /\ src(l) = l
      BY <1>9, <2>2
    <3>2. QED
      BY <3>1
  <2>3. CASE l >= i
    <3>1. l+1 \in 1..n+1 /\ l+1 # i /\ src(l+1) = l
      BY <1>9, <2>3
    <3>2. QED
      BY <3>1
  <2>4. QED
    BY <1>9, <2>2, <2>3
<1> HIDE DEF src
<1>15. b[i] = e
  BY <1>9, <1>11
<1>16. ASSUME NEW j \in 1..n+1
       PROVE  b[j].adresses \cap (v \ S) = {}
  <2>1. CASE j = i
    BY <1>7, <1>15, <2>1
  <2>2. CASE j # i
    <3>1. src(j) \in DOMAIN a /\ b[j] = a[src(j)]
      BY <1>11, <1>12, <2>2
    <3>2. QED
      BY <1>6, <3>1
  <2>3. QED
    BY <2>1, <2>2
<1>17. ASSUME NEW j \in 1..n+1, NEW k \in 1..n+1, j # k
       PROVE  b[j].adresses \cap b[k].adresses = {}
  <2>1. \A l \in 1..n+1 : l # i => src(l) \in DOMAIN a /\ b[l] = a[src(l)]
    BY <1>11, <1>12
  <2>2. CASE j = i
    <3>1. b[j].adresses = S /\ b[k] = a[src(k)] /\ src(k) \in DOMAIN a
      BY <1>7, <1>15, <1>17, <2>1, <2>2
    <3>2. a[src(k)].adresses \cap v = {}
      BY <1>6, <3>1
    <3>3. QED
      BY <1>6, <3>1, <3>2
  <2>3. CASE k = i
    <3>1. b[k].adresses = S /\ b[j] = a[src(j)] /\ src(j) \in DOMAIN a
      BY <1>7, <1>15, <1>17, <2>1, <2>3
    <3>2. a[src(j)].adresses \cap v = {}
      BY <1>6, <3>1
    <3>3. QED
      BY <1>6, <3>1, <3>2
  <2>4. CASE j # i /\ k # i
    <3>1. src(j) \in DOMAIN a /\ src(k) \in DOMAIN a /\ src(j) # src(k)
      BY <1>13, <1>17, <2>1, <2>4
    <3>2. QED
      BY <1>6, <2>1, <2>4, <3>1
  <2>5. QED
    BY <2>2, <2>3, <2>4
<1>18. ASSUME NEW f \in Pool
       PROVE  f \in v \ S \/ \E j \in 1..n+1 : f \in b[j].adresses
  <2>1. CASE f \in S
    BY <1>7, <1>9, <1>15, <2>1
  <2>2. CASE f \in v /\ f \notin S
    BY <2>2
  <2>3. CASE \E l \in 1..n : f \in a[l].adresses
    <3>1. PICK l \in 1..n : f \in a[l].adresses
      BY <2>3
    <3>2. PICK j \in 1..n+1 : j # i /\ src(j) = l
      BY <1>14, <3>1
    <3>3. b[j] = a[l]
      BY <1>12, <3>2
    <3>4. QED
      BY <3>1, <3>3
  <2>4. QED
    BY <1>6, <1>11, <2>1, <2>2, <2>3
<1>19. /\ t \in [vides : SUBSET Pool, allouees : Seq(Possibles)]
       /\ t.vides = v \ S /\ t.allouees = b
  BY <1>5, <1>6, <1>10
<1>20. Partage(t)
  BY <1>11, <1>16, <1>17, <1>18, <1>19 DEF Partage
<1>21. QED
  BY <1>1, <1>2, <1>3, <1>4, <1>5, <1>20

(* The search finds the first record of the pid, if there is one.          *)
LEMMA FicheProp ==
  ASSUME NEW s, s.allouees \in Seq(Possibles), NEW pid, Fiches(s, pid) # {}
  PROVE  Min(Fiches(s, pid)) \in Fiches(s, pid) /\ Min(Fiches(s, pid)) \in 1..Len(s.allouees)
<1>1. Len(s.allouees) \in Nat /\ DOMAIN s.allouees = 1..Len(s.allouees)
  BY LenProperties
<1>2. Fiches(s, pid) \in SUBSET Nat /\ Fiches(s, pid) \subseteq 1..Len(s.allouees)
  BY <1>1 DEF Fiches
<1>3. PICK x \in Fiches(s, pid) : \A y \in Fiches(s, pid) : x <= y
  BY <1>2, PlusPetit
<1>4. Min(Fiches(s, pid)) \in Fiches(s, pid)
  BY <1>3 DEF Min
<1>5. QED
  BY <1>2, <1>4

(* The pages of a record become free, and it goes away.                    *)
LEMMA Restitution ==
  ASSUME NEW s, Partage(s), NEW pid
  PROVE  Partage(desalloue_pages_process(s, pid))
<1>1. CASE Fiches(s, pid) = {}
  BY <1>1 DEF desalloue_pages_process
<1>2. CASE Fiches(s, pid) # {}
  <2>1. PICK a : a = s.allouees
    OBVIOUS
  <2>2. PICK v : v = s.vides
    OBVIOUS
  <2>3. PICK i : i = Min(Fiches(s, pid))
    OBVIOUS
  <2>4. /\ v \subseteq Pool /\ a \in Seq(Possibles)
        /\ \A j \in DOMAIN a : a[j].adresses \cap v = {}
        /\ \A j, k \in DOMAIN a : j # k => a[j].adresses \cap a[k].adresses = {}
        /\ \A f \in Pool : f \in v \/ \E j \in DOMAIN a : f \in a[j].adresses
    BY <2>1, <2>2 DEF Partage
  <2>5. PICK n \in Nat : n = Len(a)
    BY <2>4, LenProperties
  <2>6. i \in 1..n
    BY <1>2, <2>1, <2>3, <2>4, <2>5, FicheProp
  <2>7. PICK b : b = RemoveAt(a, i)
    OBVIOUS
  <2>8. b \in Seq(Possibles) /\ EstRetrait(b, a, i)
    <3>1. i \in 1..Len(a)
      BY <2>5, <2>6
    <3>2. QED
      BY <2>4, <2>7, <3>1, RemoveAtProp, Zenon
  <2>9. /\ DOMAIN a = 1..n /\ DOMAIN b = 1..n-1
        /\ \A j \in 1..n-1 : /\ j < i => b[j] = a[j]
                             /\ j >= i => b[j] = a[j+1]
    BY <2>4, <2>5, <2>8, LenProperties DEF EstRetrait
  <2>10. PICK S : S = a[i].adresses
    OBVIOUS
  <2>11. S \subseteq Pool
    <3>1. a[i] \in Possibles
      BY <2>4, <2>5, <2>6, ElementOfSeq
    <3>2. QED
      BY <2>10, <3>1 DEF Possibles
  <2> DEFINE src(j) == IF j < i THEN j ELSE j+1
  <2>12. \A j \in 1..n-1 : src(j) \in 1..n /\ src(j) # i /\ b[j] = a[src(j)]
    <3>1. SUFFICES ASSUME NEW j \in 1..n-1
                   PROVE  src(j) \in 1..n /\ src(j) # i /\ b[j] = a[src(j)]
      OBVIOUS
    <3>2. CASE j < i
      <4>1. src(j) = j /\ j \in 1..n /\ j # i
        BY <2>6, <3>2
      <4>2. QED
        BY <2>9, <3>2, <4>1
    <3>3. CASE j >= i
      <4>1. src(j) = j+1 /\ j+1 \in 1..n /\ j+1 # i
        BY <2>6, <3>3
      <4>2. QED
        BY <2>9, <3>3, <4>1
    <3>4. QED
      BY <2>6, <3>2, <3>3
  <2>13. \A j, k \in 1..n-1 : j # k => src(j) # src(k)
    BY <2>6
  <2>14. \A l \in 1..n : l # i => \E j \in 1..n-1 : src(j) = l
    <3>1. SUFFICES ASSUME NEW l \in 1..n, l # i PROVE \E j \in 1..n-1 : src(j) = l
      OBVIOUS
    <3>2. CASE l < i
      <4>1. l \in 1..n-1 /\ src(l) = l
        BY <2>6, <3>2
      <4>2. QED
        BY <4>1
    <3>3. CASE l > i
      <4>1. l-1 \in 1..n-1 /\ src(l-1) = l
        BY <2>6, <3>3
      <4>2. QED
        BY <4>1
    <3>4. QED
      BY <2>6, <3>1, <3>2, <3>3
  <2> HIDE DEF src
  <2>15. ASSUME NEW j \in 1..n-1
         PROVE  b[j].adresses \cap (v \cup S) = {}
    <3>1. src(j) \in DOMAIN a /\ i \in DOMAIN a /\ src(j) # i /\ b[j] = a[src(j)]
      BY <2>6, <2>9, <2>12
    <3>2. a[src(j)].adresses \cap v = {} /\ a[src(j)].adresses \cap S = {}
      BY <2>4, <2>10, <3>1
    <3>3. QED
      BY <3>1, <3>2
  <2>16. ASSUME NEW j \in 1..n-1, NEW k \in 1..n-1, j # k
         PROVE  b[j].adresses \cap b[k].adresses = {}
    <3>1. /\ src(j) \in DOMAIN a /\ src(k) \in DOMAIN a /\ src(j) # src(k)
          /\ b[j] = a[src(j)] /\ b[k] = a[src(k)]
      BY <2>9, <2>12, <2>13, <2>16
    <3>2. QED
      BY <2>4, <3>1
  <2>17. ASSUME NEW f \in Pool
         PROVE  f \in v \cup S \/ \E j \in 1..n-1 : f \in b[j].adresses
    <3>1. CASE f \in v
      BY <3>1
    <3>2. CASE \E l \in 1..n : f \in a[l].adresses
      <4>1. PICK l \in 1..n : f \in a[l].adresses
        BY <3>2
      <4>2. CASE l = i
        BY <2>10, <4>1, <4>2
      <4>3. CASE l # i
        <5>1. PICK j \in 1..n-1 : src(j) = l
          BY <2>14, <4>1, <4>3
        <5>2. b[j] = a[l]
          BY <2>12, <5>1
        <5>3. QED
          BY <4>1, <5>1, <5>2
      <4>4. QED
        BY <4>2, <4>3
    <3>3. QED
      BY <2>4, <2>9, <3>1, <3>2
  <2>18. PICK t : t = [vides |-> v \cup S, allouees |-> b]
    OBVIOUS
  <2>19. /\ t \in [vides : SUBSET Pool, allouees : Seq(Possibles)]
         /\ t.vides = v \cup S /\ t.allouees = b
    BY <2>4, <2>8, <2>11, <2>18
  <2>20. Partage(t)
    BY <2>9, <2>15, <2>16, <2>17, <2>19 DEF Partage
  <2>21. desalloue_pages_process(s, pid) = t
    BY <1>2, <2>1, <2>2, <2>3, <2>7, <2>10, <2>18 DEF desalloue_pages_process, Fiche
  <2>22. QED
    BY <2>20, <2>21
<1>3. QED
  BY <1>1, <1>2

(* A new record, with all its pages or, for want of them, with none.       *)
LEMMA Allocation ==
  ASSUME NEW s, Partage(s), NEW pid \in Int, NEW nb \in Nat, NEW i \in 1..Len(s.allouees)+1
  PROVE  Partage(alloue_pages_process(s, pid, nb, i))
<1>1. s.vides \subseteq Pool /\ s.vides \subseteq Nat /\ IsFiniteSet(s.vides)
  <2>1. s.vides \subseteq Pool
    BY DEF Partage
  <2>2. QED
    BY <2>1, PoolProp, FS_Subset
<1>2. CASE nb <= Cardinality(s.vides)
  <2>1. PICK S : S = Basses(s.vides, nb)
    OBVIOUS
  <2>2. nb \in 0..Cardinality(s.vides)
    BY <1>1, <1>2, FS_CardinalityType
  <2>3. S \subseteq s.vides
    BY <1>1, <2>1, <2>2, BassesProp
  <2>4. Partage([vides |-> s.vides \ S,
                 allouees |-> InsertAt(s.allouees, i, [pid |-> pid, adresses |-> S])])
    BY <2>3, Inscription
  <2>5. QED
    BY <1>2, <2>1, <2>4 DEF alloue_pages_process
<1>3. CASE ~(nb <= Cardinality(s.vides))
  <2>1. PICK t : t = [vides |-> {},
                      allouees |-> InsertAt(s.allouees, i, [pid |-> pid, adresses |-> s.vides])]
    OBVIOUS
  <2>2. Partage([vides |-> s.vides \ s.vides,
                 allouees |-> InsertAt(s.allouees, i, [pid |-> pid, adresses |-> s.vides])])
    BY Inscription
  <2>3. s.vides \ s.vides = {}
    OBVIOUS
  <2>4. Partage(t)
    BY <2>1, <2>2, <2>3
  <2>5. Partage(desalloue_pages_process(t, pid))
    BY <2>4, Restitution
  <2>6. QED
    BY <1>3, <2>1, <2>5 DEF alloue_pages_process
<1>4. QED
  BY <1>2, <1>3

-----------------------------------------------------------------------------
IInvPages == Partage(Etat)

LEMMA PartagePagesUneFois == IInvPages => PagesUneFois
<1>1. SUFFICES ASSUME IInvPages, NEW f \in Pool
               PROVE  Cardinality({i \in DOMAIN pages_allouees : f \in pages_allouees[i].adresses})
                        + (IF f \in pages_vides THEN 1 ELSE 0) = 1
  BY DEF PagesUneFois
<1> DEFINE I == {i \in DOMAIN pages_allouees : f \in pages_allouees[i].adresses}
<1>2. /\ \A i \in DOMAIN pages_allouees : pages_allouees[i].adresses \cap pages_vides = {}
      /\ \A i, j \in DOMAIN pages_allouees :
           i # j => pages_allouees[i].adresses \cap pages_allouees[j].adresses = {}
      /\ f \in pages_vides \/ \E i \in DOMAIN pages_allouees : f \in pages_allouees[i].adresses
  BY <1>1 DEF IInvPages, Partage, Etat
<1>3. CASE f \in pages_vides
  <2>1. I = {}
    BY <1>2, <1>3
  <2>2. Cardinality(I) = 0
    BY <2>1, FS_EmptySet
  <2>3. QED
    BY <1>3, <2>2
<1>4. CASE f \notin pages_vides
  <2>1. PICK i \in DOMAIN pages_allouees : f \in pages_allouees[i].adresses
    BY <1>2, <1>4
  <2>2. I = {i}
    BY <1>2, <2>1
  <2>3. Cardinality(I) = 1
    BY <2>2, FS_Singleton
  <2>4. QED
    BY <1>4, <2>3
<1>5. QED
  BY <1>3, <1>4

LEMMA InitIInvPages == InitPages => IInvPages
<1>1. SUFFICES ASSUME InitPages PROVE IInvPages
  OBVIOUS
<1>2. PICK s0 : s0 = [vides |-> Pool, allouees |-> << >>]
  OBVIOUS
<1>3. PICK s1 : s1 = alloue_pages_process(s0, 0, 1, 1)
  OBVIOUS
<1>4. PICK i \in 1..2 : /\ pages_vides = alloue_pages_process(s1, 1, 1, i).vides
                        /\ pages_allouees = alloue_pages_process(s1, 1, 1, i).allouees
  BY <1>1, <1>2, <1>3 DEF InitPages, Doter
<1>5. Partage(s0)
  <2>1. << >> \in Seq(Possibles) /\ Len(<< >>) = 0
    BY EmptySeq
  <2>2. DOMAIN << >> = {}
    BY <2>1
  <2>3. s0 \in [vides : SUBSET Pool, allouees : Seq(Possibles)] /\ s0.vides = Pool /\ s0.allouees = << >>
    BY <1>2, <2>1
  <2>4. QED
    BY <2>2, <2>3 DEF Partage
<1>6. Len(s0.allouees) = 0 /\ 1 \in 1..Len(s0.allouees)+1
  <2>1. s0.allouees = << >> /\ Len(<< >>) = 0
    BY <1>2, EmptySeq
  <2>2. QED
    BY <2>1
<1>7. Partage(s1)
  BY <1>3, <1>5, <1>6, Allocation
<1>8. Len(s1.allouees) = 1
  <2>1. NBPAGES \in Nat /\ 1 <= NBPAGES
    BY PoolProp
  <2>2. Cardinality(Pool) = NBPAGES
    BY PoolProp
  <2>3. PICK S : S = Basses(s0.vides, 1)
    OBVIOUS
  <2>4. s1.allouees = InsertAt(s0.allouees, 1, [pid |-> 0, adresses |-> S])
    BY <1>2, <1>3, <2>1, <2>2, <2>3 DEF alloue_pages_process
  <2>5. S \subseteq Pool
    <3>1. 1 \in 0..Cardinality(Pool)
      BY <2>1, <2>2
    <3>2. Basses(Pool, 1) \subseteq Pool
      BY <3>1, PoolProp, BassesProp
    <3>3. QED
      BY <1>2, <2>3, <3>2
  <2>6. [pid |-> 0, adresses |-> S] \in Possibles
    BY <2>5 DEF Possibles
  <2>7. s0.allouees \in Seq(Possibles)
    BY <1>5 DEF Partage
  <2>8. EstInsertion(s1.allouees, s0.allouees, 1, [pid |-> 0, adresses |-> S])
    BY <1>6, <2>4, <2>6, <2>7, InsertAtProp
  <2>9. QED
    BY <1>6, <2>8 DEF EstInsertion
<1>9. Partage(alloue_pages_process(s1, 1, 1, i))
  <2>1. i \in 1..Len(s1.allouees)+1
    BY <1>4, <1>8
  <2>2. QED
    BY <1>7, <2>1, Allocation
<1>10. Etat = alloue_pages_process(s1, 1, 1, i)
  <2>1. PICK t : t = alloue_pages_process(s1, 1, 1, i)
    OBVIOUS
  <2>2. t \in [vides : SUBSET Pool, allouees : Seq(Possibles)]
    BY <1>9, <2>1 DEF Partage
  <2>3. t = [vides |-> t.vides, allouees |-> t.allouees]
    BY <2>2
  <2>4. QED
    BY <1>4, <2>1, <2>3 DEF Etat
<1>11. QED
  BY <1>9, <1>10 DEF IInvPages

LEMMA EtatDe ==
  ASSUME NEW t, Partage(t), pages_vides' = t.vides, pages_allouees' = t.allouees
  PROVE  IInvPages'
<1>1. t = [vides |-> t.vides, allouees |-> t.allouees]
  BY DEF Partage
<1>2. Etat' = t
  BY <1>1 DEF Etat
<1>3. QED
  BY <1>2 DEF IInvPages, Partage

LEMMA PasRendrePages ==
  ASSUME IInvPages, NEW p, RendrePages(p)
  PROVE  IInvPages'
<1>1. CASE noyau.pere[p] # AUCUN /\ FauteDeParcours(noyau, p)
  BY <1>1 DEF RendrePages, pages, IInvPages, Partage, Etat
<1>2. CASE ~(noyau.pere[p] # AUCUN /\ FauteDeParcours(noyau, p))
  <2>1. PICK q : q = IF noyau.pere[p] = AUCUN THEN -1 ELSE p
    OBVIOUS
  <2>2. PICK t : t = desalloue_pages_process(Etat, q)
    OBVIOUS
  <2>3. Partage(t)
    BY <2>2, Restitution DEF IInvPages
  <2>4. pages_vides' = t.vides /\ pages_allouees' = t.allouees
    BY <1>2, <2>1, <2>2 DEF RendrePages
  <2>5. QED
    BY <2>3, <2>4, EtatDe
<1>3. QED
  BY <1>1, <1>2

LEMMA PasStartPages ==
  ASSUME IInvPages, NEW prio, NEW nb \in TAILLES, StartPages(prio, nb)
  PROVE  IInvPages'
<1>1. PICK p : p = Min(PidsLibres(noyau))
  OBVIOUS
<1>2. p \in Int
  <2>1. PidsLibres(noyau) # {} /\ PidsLibres(noyau) \in SUBSET Nat
    BY NbprocAssumption DEF StartPages, PidsLibres, PID
  <2>2. PICK x \in PidsLibres(noyau) : \A y \in PidsLibres(noyau) : x <= y
    BY <2>1, PlusPetit
  <2>3. p \in PidsLibres(noyau)
    BY <1>1, <2>2 DEF Min
  <2>4. QED
    BY <2>1, <2>3
<1>3. nb \in Nat
  BY PagesAssumption
<1>4. PICK i \in 1..Len(pages_allouees)+1 :
        \/ UNCHANGED pages
        \/ /\ pages_vides' = alloue_pages_process(Etat, p, nb, i).vides
           /\ pages_allouees' = alloue_pages_process(Etat, p, nb, i).allouees
  BY <1>1 DEF StartPages, Doter
<1>5. CASE UNCHANGED pages
  BY <1>5 DEF pages, IInvPages, Partage, Etat
<1>6. CASE ~ UNCHANGED pages
  <2>1. Etat.allouees = pages_allouees
    BY DEF Etat
  <2>2. i \in 1..Len(Etat.allouees)+1
    BY <1>4, <2>1
  <2>3. PICK t : t = alloue_pages_process(Etat, p, nb, i)
    OBVIOUS
  <2>4. Partage(t)
    BY <1>2, <1>3, <2>2, <2>3, Allocation DEF IInvPages
  <2>5. pages_vides' = t.vides /\ pages_allouees' = t.allouees
    BY <1>4, <1>6, <2>3
  <2>6. QED
    BY <2>4, <2>5, EtatDe
<1>7. QED
  BY <1>5, <1>6

LEMMA IInvPagesStable == IInvPages /\ [NextPages]_varsPages => IInvPages'
<1>1. SUFFICES ASSUME IInvPages, [NextPages]_varsPages PROVE IInvPages'
  OBVIOUS
<1>2. ASSUME UNCHANGED pages PROVE IInvPages'
  BY <1>1, <1>2 DEF pages, IInvPages, Partage, Etat
<1>3. ASSUME NEW prio \in PRIOS, NEW nb \in TAILLES, StartPages(prio, nb) PROVE IInvPages'
  BY <1>1, <1>3, PasStartPages
<1>4. ASSUME NEW p, RendrePages(p) PROVE IInvPages'
  BY <1>1, <1>4, PasRendrePages
<1>5. CASE ReprisePages
  BY <1>2, <1>4, <1>5 DEF ReprisePages
<1>6. CASE UNCHANGED varsPages
  BY <1>2, <1>6 DEF varsPages
<1>7. QED
  BY <1>1, <1>2, <1>3, <1>4, <1>5, <1>6 DEF NextPages

(* At any time every page set aside at boot is free or in one record, and  *)
(* in one only: phy_mem_allocator.c loses none and gives none twice, also  *)
(* when pages run out, and when the record found first is not the one just *)
(* made.                                                                   *)
THEOREM PagesUneFoisCorrect == SpecPages => []PagesUneFois
<1>1. InitPages => IInvPages
  BY InitIInvPages
<1>2. IInvPages /\ [NextPages]_varsPages => IInvPages'
  BY IInvPagesStable
<1>3. IInvPages => PagesUneFois
  BY PartagePagesUneFois
<1>4. QED
  BY <1>1, <1>2, <1>3, PTL DEF SpecPages

-----------------------------------------------------------------------------
(* Quotients and remainders. *)
LEMMA Quotient ==
  ASSUME NEW b \in Nat \ {0}, NEW q \in Nat, NEW r \in 0..b-1, NEW z, z = q * b + r
  PROVE  z \in Nat /\ z \div b = q /\ z % b = r
<1>1. q * b \in Nat
  OBVIOUS
<1>2. z \in Nat
  BY <1>1
<1>3. PICK d \in Int, s \in Int : d = z \div b /\ s = z % b
  BY <1>2
<1>4. z = b * d + s /\ s \in 0..b-1
  <2>1. z = b * (z \div b) + (z % b) /\ z % b \in 0..b-1
    BY <1>2
  <2>2. QED
    BY <1>3, <2>1
<1>5. r + q * b = s + d * b
  BY <1>3, <1>4
<1>6. s = r
  BY <1>3, <1>4, <1>5, Residus
<1>7. (q - d) * b = 0
  BY <1>3, <1>5, <1>6
<1>8. q = d
  BY <1>3, <1>7
<1>9. QED
  BY <1>2, <1>3, <1>6, <1>8

LEMMA Decomposition ==
  ASSUME NEW b \in Nat \ {0}, NEW z \in Nat
  PROVE  /\ z \div b \in Nat /\ z % b \in 0..b-1
         /\ z = (z \div b) * b + (z % b)
<1>1. z = b * (z \div b) + (z % b) /\ z % b \in 0..b-1 /\ z \div b \in Int
  OBVIOUS
<1>2. PICK d \in Int, s \in Int : d = z \div b /\ s = z % b
  BY <1>1
<1>3. d >= 0
  <2>1. SUFFICES ASSUME d <= -1 PROVE FALSE
    BY <1>2
  <2>2. b * d <= -b
    BY <1>2, <2>1
  <2>3. QED
    BY <1>1, <1>2, <2>2
<1>4. QED
  BY <1>1, <1>2, <1>3

(* Two divisions are one by the product. *)
LEMMA DeuxDivisions ==
  ASSUME NEW b \in Nat \ {0}, NEW c \in Nat \ {0}, NEW z \in Nat
  PROVE  /\ b * c \in Nat \ {0}
         /\ z \div (b * c) = (z \div b) \div c
         /\ z % (b * c) = ((z \div b) % c) * b + (z % b)
<1>1. PICK q \in Nat, r \in 0..b-1 : q = z \div b /\ r = z % b /\ z = q * b + r
  BY Decomposition
<1>2. PICK u \in Nat, s \in 0..c-1 : u = q \div c /\ s = q % c /\ q = u * c + s
  BY Decomposition
<1>3. PICK m \in Nat \ {0} : m = b * c
  OBVIOUS
<1>4. PICK t \in Nat : t = s * b + r
  OBVIOUS
<1>5. t \in 0..m-1
  <2>1. s <= c-1
    OBVIOUS
  <2>2. s * b <= (c-1) * b
    BY <2>1
  <2>3. (c-1) * b = m - b
    BY <1>3
  <2>4. QED
    BY <1>3, <1>4, <2>2, <2>3
<1>6. z = u * m + t
  <2>1. q * b = u * m + s * b
    <3>1. (u * c + s) * b = (u * c) * b + s * b
      OBVIOUS
    <3>2. (u * c) * b = u * m
      BY <1>3
    <3>3. QED
      BY <1>2, <3>1, <3>2
  <2>2. QED
    BY <1>1, <1>3, <1>4, <2>1
<1>7. z \div m = u /\ z % m = t
  BY <1>3, <1>5, <1>6, Quotient
<1>8. QED
  BY <1>1, <1>2, <1>3, <1>4, <1>7

-----------------------------------------------------------------------------
(* The powers of two, and the sizes they give. *)
LEMMA PuissanceProp ==
  /\ Puissance \in [0..BITS -> Nat \ {0}] /\ Puissance[0] = 1
  /\ \A n \in 1..BITS : Puissance[n] = 2 * Puissance[n-1]
<1>1. PICK B \in Nat : B = BITS
  BY BitsAssumption DEF BITS
<1> DEFINE Egal(f) == f = [n \in 0..B |-> IF n = 0 THEN 1 ELSE 2 * f[n-1]]
<1>2. \E f : Egal(f)
  <2>1. PICK F : F = [n \in 1..B |-> [x \in Nat \ {0} |-> 2 * x]]
    OBVIOUS
  <2>2. F \in [1..B -> [Nat \ {0} -> Nat \ {0}]]
    BY <2>1
  <2>3. PICK f \in [0..B -> Nat \ {0}] : EstSuite(f, B, 1, F)
    <3>1. 1 \in Nat \ {0}
      OBVIOUS
    <3>2. QED
      BY <2>2, <3>1, SuiteRecursive
  <2>4. ASSUME NEW n \in 1..B
        PROVE  f[n] = 2 * f[n-1]
    <3>1. n-1 \in 0..B /\ f[n-1] \in Nat \ {0}
      BY <1>1
    <3>2. QED
      BY <2>1, <2>3, <3>1 DEF EstSuite
  <2>5. \A n \in 0..B : f[n] = IF n = 0 THEN 1 ELSE 2 * f[n-1]
    BY <1>1, <2>3, <2>4 DEF EstSuite
  <2>6. QED
    BY <2>5
<1>3. PICK f : Egal(f) /\ Puissance = f
  BY <1>1, <1>2 DEF Puissance
<1>4. f[0] = 1 /\ \A n \in 1..B : f[n] = 2 * f[n-1]
  BY <1>1, <1>3
<1> HIDE DEF Egal
<1>5. 0..B \subseteq {n \in 0..B : f[n] \in Nat \ {0}}
  <2> DEFINE A == {n \in 0..B : f[n] \in Nat \ {0}}
  <2>1. 0 \in A
    BY <1>4
  <2>2. ASSUME NEW n \in 1..B, n-1 \in A PROVE n \in A
    BY <1>4, <2>2
  <2> HIDE DEF A
  <2>3. 0..B \subseteq A
    BY <2>1, <2>2, RecurrenceEntiers
  <2>4. QED
    BY <2>3 DEF A
<1>6. f \in [0..B -> Nat \ {0}]
  BY <1>3, <1>5 DEF Egal
<1>7. QED
  BY <1>1, <1>3, <1>4, <1>6

LEMMA PuissanceSomme ==
  ASSUME NEW a \in Nat, NEW b \in Nat, a + b <= BITS
  PROVE  Puissance[a + b] = Puissance[a] * Puissance[b]
<1> DEFINE A == {n \in 0..b : Puissance[a + n] = Puissance[a] * Puissance[n]}
<1>1. BITS \in Nat /\ a \in 0..BITS /\ Puissance[a] \in Nat
  <2>1. BITS \in Nat
    BY BitsAssumption DEF BITS
  <2>2. a \in 0..BITS
    BY <2>1
  <2>3. QED
    BY <2>1, <2>2, PuissanceProp
<1>2. 0 \in A
  BY <1>1, PuissanceProp
<1>3. ASSUME NEW n \in 1..b, n-1 \in A PROVE n \in A
  <2>1. n \in 1..BITS /\ a + n \in 1..BITS /\ a + (n-1) = (a + n) - 1 /\ n-1 \in 0..BITS
    BY <1>1
  <2>2. PICK x \in Nat : x = Puissance[n-1]
    BY <2>1, PuissanceProp
  <2>3. Puissance[n] = 2 * x
    BY <2>1, <2>2, PuissanceProp
  <2>4. Puissance[a + n] = 2 * Puissance[a + (n-1)]
    BY <2>1, PuissanceProp
  <2>5. Puissance[a + (n-1)] = Puissance[a] * x
    BY <1>3, <2>2
  <2>6. 2 * (Puissance[a] * x) = Puissance[a] * (2 * x)
    BY <1>1
  <2>7. QED
    BY <2>3, <2>4, <2>5, <2>6
<1> HIDE DEF A
<1>4. 0..b \subseteq A
  BY <1>2, <1>3, RecurrenceEntiers
<1>5. b \in A
  BY <1>4
<1>6. QED
  BY <1>5 DEF A

LEMMA TaillesProp ==
  /\ BITS \in Nat /\ TAILLE_PAGE \in Nat /\ NPTE \in Nat /\ NPDE \in Nat
  /\ TAILLE_PAGE >= 2 /\ NPTE >= 2 /\ NPDE >= 4
  /\ Puissance[BITS_PAGE + BITS_TABLE] = TAILLE_PAGE * NPTE
  /\ \E q \in Nat \ {0} : /\ NPDE = 4 * q /\ NPDE \div 4 = q
                          /\ K_BASE_VIRT_ADR = q * (TAILLE_PAGE * NPTE)
<1>1. /\ BITS_PAGE \in Nat \ {0} /\ BITS_TABLE \in Nat \ {0} /\ BITS_REPERTOIRE \in Nat \ {0, 1}
      /\ BITS = BITS_PAGE + BITS_TABLE + BITS_REPERTOIRE /\ BITS \in Nat
  BY BitsAssumption DEF BITS
<1>2. ASSUME NEW n \in 1..BITS
      PROVE  Puissance[n] \in Nat /\ Puissance[n] >= 2
  <2>1. n-1 \in 0..BITS
    BY <1>1
  <2>2. Puissance[n-1] \in Nat \ {0} /\ Puissance[n] = 2 * Puissance[n-1]
    BY <2>1, PuissanceProp
  <2>3. QED
    BY <2>2
<1>3. /\ TAILLE_PAGE \in Nat /\ NPTE \in Nat /\ NPDE \in Nat
      /\ TAILLE_PAGE >= 2 /\ NPTE >= 2
  BY <1>1, <1>2 DEF TAILLE_PAGE, NPTE, NPDE
<1>4. Puissance[BITS_PAGE + BITS_TABLE] = TAILLE_PAGE * NPTE
  BY <1>1, PuissanceSomme DEF TAILLE_PAGE, NPTE
<1>5. PICK q \in Nat \ {0} : q = Puissance[BITS_REPERTOIRE - 2]
  <2>1. PICK n : n = BITS_REPERTOIRE - 2
    OBVIOUS
  <2>2. n \in 0..BITS
    BY <1>1, <2>1
  <2>3. Puissance[n] \in Nat \ {0}
    BY <2>2, PuissanceProp
  <2>4. QED
    BY <2>1, <2>3
<1>6. NPDE = 4 * q
  <2>1. /\ BITS_REPERTOIRE \in 1..BITS /\ BITS_REPERTOIRE - 1 \in 1..BITS
        /\ (BITS_REPERTOIRE - 1) - 1 = BITS_REPERTOIRE - 2
    BY <1>1
  <2>2. NPDE = 2 * Puissance[BITS_REPERTOIRE - 1]
    BY <2>1, PuissanceProp DEF NPDE
  <2>3. Puissance[BITS_REPERTOIRE - 1] = 2 * q
    BY <1>5, <2>1, PuissanceProp
  <2>4. QED
    BY <2>2, <2>3
<1>7. NPDE \div 4 = q
  BY <1>6
<1>8. K_BASE_VIRT_ADR = q * (TAILLE_PAGE * NPTE)
  <2>1. /\ BITS - 2 = (BITS_REPERTOIRE - 2) + (BITS_PAGE + BITS_TABLE)
        /\ BITS_REPERTOIRE - 2 \in Nat /\ BITS_PAGE + BITS_TABLE \in Nat /\ BITS - 2 <= BITS
    BY <1>1
  <2>2. Puissance[BITS - 2] = q * Puissance[BITS_PAGE + BITS_TABLE]
    BY <1>5, <2>1, PuissanceSomme
  <2>3. QED
    BY <1>4, <2>2 DEF K_BASE_VIRT_ADR
<1>9. QED
  BY <1>1, <1>3, <1>4, <1>6, <1>7, <1>8

(* get_n_bits reads the bits as a number. *)
LEMMA BitsProp ==
  ASSUME NEW hi \in Nat, NEW lo \in Nat, lo <= hi, hi < BITS, NEW adr \in Nat
  PROVE  get_n_bits(hi, lo, adr) = (adr \div Puissance[lo]) % Puissance[hi - lo + 1]
<1>1. BITS \in Nat
  BY TaillesProp
<1>2. PICK P : P = [n \in 0..BITS |-> Puissance[n]]
  OBVIOUS
<1>3. \A n \in 0..BITS : P[n] = Puissance[n] /\ P[n] \in Nat \ {0}
  BY <1>2, PuissanceProp
<1>4. lo \in 0..BITS /\ P[0] = 1
  BY <1>1, <1>3, PuissanceProp
<1>5. PICK x \in Nat : x = adr \div P[lo]
  BY <1>3, <1>4, Decomposition
<1> DEFINE Bit(i) == IF is_bit_n_true(i, adr) THEN Puissance[i - lo] ELSE 0
           Egal(f) == f = [i \in lo-1..hi |-> IF i < lo THEN 0 ELSE f[i-1] + Bit(i)]
<1>6. ASSUME NEW i \in lo..hi
      PROVE  x % P[i - lo + 1] = (x % P[(i-1) - lo + 1]) + Bit(i)
  <2>1. PICK j \in Nat : j = i - lo
    OBVIOUS
  <2>2. /\ j \in 0..BITS /\ j + 1 \in 1..BITS /\ (j + 1) - 1 = j /\ lo + j \in 0..BITS /\ lo + j <= BITS
        /\ i \in 0..BITS-1 /\ i = lo + j /\ i - lo + 1 = j + 1 /\ (i-1) - lo + 1 = j /\ j + 1 \in 0..BITS
    BY <1>1, <2>1
  <2>3. PICK b \in Nat \ {0} : b = P[j]
    BY <1>3, <2>2
  <2>4. P[j + 1] = b * 2
    <3>1. P[j + 1] = Puissance[j + 1] /\ Puissance[j] = b
      BY <1>3, <2>2, <2>3
    <3>2. Puissance[j + 1] = 2 * Puissance[j]
      BY <2>2, PuissanceProp
    <3>3. QED
      BY <3>1, <3>2
  <2>5. x % (b * 2) = ((x \div b) % 2) * b + (x % b)
    <3>1. 2 \in Nat \ {0}
      OBVIOUS
    <3>2. QED
      BY <3>1, DeuxDivisions
  <2>6. (adr \div Puissance[i]) = x \div b
    <3>1. Puissance[lo + j] = Puissance[lo] * Puissance[j]
      BY <2>2, PuissanceSomme
    <3>2. Puissance[lo] = P[lo] /\ Puissance[j] = b /\ P[lo] \in Nat \ {0}
      BY <1>3, <1>4, <2>2, <2>3
    <3>3. adr \div (P[lo] * b) = (adr \div P[lo]) \div b
      BY <3>2, DeuxDivisions
    <3>4. QED
      BY <1>5, <2>2, <3>1, <3>2, <3>3
  <2>7. PICK y \in Nat : y = x \div b
    BY Decomposition
  <2>8. y % 2 \in {0, 1}
    OBVIOUS
  <2>9. Bit(i) = IF y % 2 = 1 THEN b ELSE 0
    <3>1. is_bit_n_true(i, adr) <=> y % 2 = 1
      BY <2>2, <2>6, <2>7 DEF is_bit_n_true
    <3>2. Puissance[i - lo] = b
      BY <1>3, <2>1, <2>2, <2>3
    <3>3. QED
      BY <3>1, <3>2
  <2>10. x % P[i - lo + 1] = (y % 2) * b + (x % b)
    BY <2>2, <2>4, <2>5, <2>7
  <2>11. x % P[(i-1) - lo + 1] = x % b
    BY <2>2, <2>3
  <2>12. PICK w \in Nat : w = x % b
    BY Decomposition
  <2>13. QED
    BY <2>8, <2>9, <2>10, <2>11, <2>12
<1>7. x % P[0] = 0
  BY <1>4
<1>8. \E f : Egal(f)
  <2>1. PICK f : f = [i \in lo-1..hi |-> x % P[i - lo + 1]]
    OBVIOUS
  <2>2. ASSUME NEW i \in lo-1..hi
        PROVE  f[i] = IF i < lo THEN 0 ELSE f[i-1] + Bit(i)
    <3>1. CASE i < lo
      <4>1. i - lo + 1 = 0
        BY <3>1
      <4>2. QED
        BY <1>7, <2>1, <3>1, <4>1
    <3>2. CASE i >= lo
      <4>1. i \in lo..hi /\ i-1 \in lo-1..hi
        BY <3>2
      <4>2. f[i-1] = x % P[(i-1) - lo + 1] /\ f[i] = x % P[i - lo + 1]
        BY <2>1, <4>1
      <4>3. QED
        BY <1>6, <3>2, <4>1, <4>2
    <3>3. QED
      BY <3>1, <3>2
  <2>3. QED
    BY <2>1, <2>2
<1>9. PICK f : Egal(f) /\ get_n_bits(hi, lo, adr) = f[hi]
  <2>1. ~(hi < lo \/ hi >= BITS \/ lo < 0)
    BY <1>1
  <2>2. QED
    BY <1>8, <2>1 DEF get_n_bits
<1>10. f[lo-1] = 0 /\ \A i \in lo..hi : f[i] = f[i-1] + Bit(i)
  BY <1>9
<1> HIDE DEF Bit, Egal
<1> DEFINE A == {n \in 0..hi-lo+1 : f[lo - 1 + n] = x % P[n]}
<1>11. 0 \in A
  BY <1>7, <1>10
<1>12. ASSUME NEW n \in 1..hi-lo+1, n-1 \in A PROVE n \in A
  <2>1. PICK i \in lo..hi : i = lo - 1 + n
    OBVIOUS
  <2>2. i - lo + 1 = n /\ (i-1) - lo + 1 = n-1 /\ lo - 1 + (n-1) = i-1
    BY <2>1
  <2>3. f[i-1] = x % P[n-1]
    BY <1>12, <2>2
  <2>4. f[i] = x % P[n]
    BY <1>6, <1>10, <2>2, <2>3
  <2>5. QED
    BY <2>1, <2>4
<1> HIDE DEF A
<1>13. hi-lo+1 \in Nat
  OBVIOUS
<1>14. 0..hi-lo+1 \subseteq A
  BY <1>11, <1>12, <1>13, RecurrenceEntiers
<1>15. f[hi] = x % P[hi-lo+1]
  <2>1. hi-lo+1 \in A /\ lo - 1 + (hi-lo+1) = hi
    BY <1>13, <1>14
  <2>2. QED
    BY <2>1 DEF A
<1>16. P[hi-lo+1] = Puissance[hi-lo+1] /\ P[lo] = Puissance[lo]
  BY <1>1, <1>3, <1>4
<1>17. QED
  BY <1>5, <1>9, <1>15, <1>16

LEMMA IndexProp ==
  ASSUME NEW adr \in Nat
  PROVE  /\ IndexRepertoire(adr) = (adr \div (TAILLE_PAGE * NPTE)) % NPDE
         /\ IndexTable(adr) = (adr \div TAILLE_PAGE) % NPTE
         /\ IndexRepertoire(adr) \in 0..NPDE-1 /\ IndexTable(adr) \in 0..NPTE-1
<1>1. /\ BITS_PAGE \in Nat \ {0} /\ BITS_TABLE \in Nat \ {0} /\ BITS_REPERTOIRE \in Nat \ {0, 1}
      /\ BITS = BITS_PAGE + BITS_TABLE + BITS_REPERTOIRE /\ BITS \in Nat
  BY BitsAssumption DEF BITS
<1>2. IndexRepertoire(adr) = (adr \div (TAILLE_PAGE * NPTE)) % NPDE
  <2>1. /\ BITS - 1 \in Nat /\ BITS_PAGE + BITS_TABLE \in Nat /\ BITS_PAGE + BITS_TABLE <= BITS - 1
        /\ BITS - 1 < BITS /\ (BITS - 1) - (BITS_PAGE + BITS_TABLE) + 1 = BITS_REPERTOIRE
    BY <1>1
  <2>2. IndexRepertoire(adr) = (adr \div Puissance[BITS_PAGE + BITS_TABLE]) % Puissance[BITS_REPERTOIRE]
    BY <2>1, BitsProp DEF IndexRepertoire
  <2>3. QED
    BY <2>2, TaillesProp DEF NPDE
<1>3. IndexTable(adr) = (adr \div TAILLE_PAGE) % NPTE
  <2>1. /\ BITS_PAGE + BITS_TABLE - 1 \in Nat /\ BITS_PAGE \in Nat /\ BITS_PAGE <= BITS_PAGE + BITS_TABLE - 1
        /\ BITS_PAGE + BITS_TABLE - 1 < BITS /\ (BITS_PAGE + BITS_TABLE - 1) - BITS_PAGE + 1 = BITS_TABLE
    BY <1>1
  <2>2. IndexTable(adr) = (adr \div Puissance[BITS_PAGE]) % Puissance[BITS_TABLE]
    BY <2>1, BitsProp DEF IndexTable
  <2>3. QED
    BY <2>2 DEF NPTE, TAILLE_PAGE
<1>4. /\ TAILLE_PAGE \in Nat \ {0} /\ NPTE \in Nat \ {0} /\ NPDE \in Nat \ {0}
      /\ TAILLE_PAGE * NPTE \in Nat \ {0}
  <2>1. TAILLE_PAGE \in Nat \ {0} /\ NPTE \in Nat \ {0} /\ NPDE \in Nat \ {0}
    BY TaillesProp
  <2>2. QED
    BY <2>1, DeuxDivisions
<1>5. /\ (adr \div (TAILLE_PAGE * NPTE)) % NPDE \in 0..NPDE-1
      /\ (adr \div TAILLE_PAGE) % NPTE \in 0..NPTE-1
  <2>1. adr \div (TAILLE_PAGE * NPTE) \in Nat /\ adr \div TAILLE_PAGE \in Nat
    BY <1>4, Decomposition
  <2>2. QED
    BY <1>4, <2>1, Decomposition
<1>6. QED
  BY <1>2, <1>3, <1>5

(* Page n of a process is mapped above the kernel, where free_page looks.  *)
LEMMA IndexPage ==
  ASSUME NEW n \in 0..NBPAGES-1,
         NEW adr, adr = K_BASE_VIRT_ADR + n * TAILLE_PAGE
  PROVE  adr \in Nat /\ IndexRepertoire(adr) \in NNOYAU..NPDE-NNOYAU-1
<1>1. /\ TAILLE_PAGE \in Nat \ {0} /\ NPTE \in Nat \ {0} /\ NPDE \in Nat
  BY TaillesProp
<1>2. PICK q \in Nat \ {0} : NPDE = 4 * q /\ NPDE \div 4 = q /\ K_BASE_VIRT_ADR = q * (TAILLE_PAGE * NPTE)
  BY TaillesProp
<1>3. NNOYAU \in 1..q /\ NBPAGES <= (NPDE - NNOYAU - q) * NPTE /\ NBPAGES \in Nat /\ n \in Nat
  <2>1. Cardinality(TAS) \in Nat
    BY CadresAssumption, FS_CardinalityType
  <2>2. QED
    BY <1>2, <2>1, CadresAssumption, PagesAssumption
<1>4. PICK u \in Nat, s \in 0..NPTE-1 : u = n \div NPTE /\ n = u * NPTE + s
  <2>1. n \div NPTE \in Nat /\ n % NPTE \in 0..NPTE-1 /\ n = (n \div NPTE) * NPTE + (n % NPTE)
    BY <1>1, <1>3, Decomposition
  <2>2. QED
    BY <2>1
<1>5. PICK m \in Nat \ {0} : m = TAILLE_PAGE * NPTE
  BY <1>1, DeuxDivisions
<1>6. PICK t \in Nat : t = s * TAILLE_PAGE
  BY <1>1
<1>7. t \in 0..m-1
  <2>1. s <= NPTE - 1
    BY <1>1
  <2>2. s * TAILLE_PAGE <= (NPTE - 1) * TAILLE_PAGE
    BY <1>1, <2>1
  <2>3. (NPTE - 1) * TAILLE_PAGE = m - TAILLE_PAGE
    BY <1>1, <1>5
  <2>4. QED
    BY <1>1, <1>5, <1>6, <2>2, <2>3
<1>8. adr = (q + u) * m + t
  <2>1. n * TAILLE_PAGE = u * m + t
    <3>1. (u * NPTE + s) * TAILLE_PAGE = (u * NPTE) * TAILLE_PAGE + s * TAILLE_PAGE
      BY <1>1
    <3>2. (u * NPTE) * TAILLE_PAGE = u * m
      BY <1>1, <1>5
    <3>3. QED
      BY <1>4, <1>6, <3>1, <3>2
  <2>2. QED
    BY <1>2, <1>5, <2>1
<1>9. adr \in Nat /\ adr \div m = q + u
  <2>1. PICK v \in Nat : v = q + u
    OBVIOUS
  <2>2. adr = v * m + t
    BY <1>8, <2>1
  <2>3. adr \in Nat /\ adr \div m = v
    BY <1>7, <2>2, Quotient
  <2>4. QED
    BY <2>1, <2>3
<1>10. q + u < NPDE - NNOYAU
  <2>1. SUFFICES ASSUME u >= NPDE - NNOYAU - q PROVE FALSE
    BY <1>1, <1>2, <1>3
  <2>2. PICK d \in Int : d = NPDE - NNOYAU - q
    BY <1>1, <1>3
  <2>3. u * NPTE >= d * NPTE
    BY <1>1, <2>1, <2>2
  <2>4. n < NBPAGES /\ NBPAGES <= d * NPTE
    BY <1>3, <2>2
  <2>5. u * NPTE \in Nat /\ d * NPTE \in Int
    BY <1>1
  <2>6. QED
    BY <1>3, <1>4, <2>3, <2>4, <2>5
<1>11. (q + u) % NPDE = q + u
  <2>1. q + u \in 0..NPDE-1
    BY <1>1, <1>3, <1>10
  <2>2. QED
    BY <1>1, <2>1
<1>12. IndexRepertoire(adr) = q + u
  BY <1>5, <1>9, <1>11, IndexProp
<1>13. QED
  BY <1>3, <1>9, <1>10, <1>12, <1>1

-----------------------------------------------------------------------------
(* What is kept in the frames of directories and tables. *)
TypeEntree  == [p : BOOLEAN, r : BOOLEAN, u : BOOLEAN, adr : Nat]
Repertoires == [0..NPDE-1 -> TypeEntree]
Tables      == [0..NPTE-1 -> TypeEntree]

Noyaux == {PGDIR} \cup {PGTAB + i : i \in 0..NNOYAU-1}

EntreeNoyau(i) == [p |-> TRUE, r |-> TRUE, u |-> FALSE, adr |-> PGTAB + i]

(* The entry of page v of the kernel, once its map is made.                *)
PageNoyau(v) ==
  LET s == SECTIONS
      ecriture == (s._bootstrap_stack_start..s._bootstrap_stack_end-1)
                          \cup (s._data_start..s._data_end-1)
  IN IF v = 0 THEN VIDE
     ELSE [p |-> TRUE, r |-> v \in ecriture \/ v \notin LectureSeule, u |-> FALSE, adr |-> v]

LEMMA VideType == VIDE \in TypeEntree /\ ~VIDE.p
  BY DEF VIDE, TypeEntree

EstRegion(n, debut, fin, rw) == Regions[n][1] = debut /\ Regions[n][2] = fin /\ Regions[n][3] = rw

LEMMA RegionsProp ==
  LET s == SECTIONS
  IN /\ Len(Regions) = 9
     /\ EstRegion(1, 1, s._start, TRUE)
     /\ EstRegion(2, s._start, s._text_start, TRUE)
     /\ EstRegion(3, s._text_start, s._text_end, FALSE)
     /\ EstRegion(4, s._multiboot_start, s._multiboot_end, FALSE)
     /\ EstRegion(5, s._rodata_start, s._rodata_end, FALSE)
     /\ EstRegion(6, s._bootstrap_stack_start, s._bootstrap_stack_end, TRUE)
     /\ EstRegion(7, s._data_start, s._data_end, TRUE)
     /\ EstRegion(8, s._bss_start, s._bss_end, TRUE)
     /\ EstRegion(9, s._end, s.mem_end, TRUE)
  BY DEF Regions, EstRegion

EntreeRegion(rw, v) == [p |-> TRUE, r |-> rw, u |-> FALSE, adr |-> v]

(* The maps of the kernel, while they are being made.                      *)
Cartes == {c \in [Noyaux -> Repertoires \cup Tables] :
             /\ c[PGDIR] = early_mm_fill_pgdir
             /\ \A i \in 0..NNOYAU-1 : c[PGTAB + i] \in Tables}

LEMMA RegionProp ==
  ASSUME NEW c \in Cartes, NEW debut, NEW fin, NEW rw \in BOOLEAN,
         NEW d, d = early_mm_map_region(c, debut, fin, rw)
  PROVE  /\ d \in Cartes
         /\ \A i \in 0..NNOYAU-1, j \in 0..NPTE-1 :
              d[PGTAB + i][j] = IF i * NPTE + j \in debut..fin-1
                                THEN EntreeRegion(rw, i * NPTE + j)
                                ELSE c[PGTAB + i][j]
<1>1. /\ NPTE \in Nat /\ PGTAB \in Nat /\ PGDIR \in Nat
      /\ \A i \in 0..NNOYAU-1 : PGTAB + i # PGDIR
  BY TaillesProp, CadresAssumption
<1>2. DOMAIN c = Noyaux /\ c[PGDIR] = early_mm_fill_pgdir /\ PGDIR \in Noyaux
  BY DEF Cartes, Noyaux
<1>3. DOMAIN d = Noyaux /\ d[PGDIR] = c[PGDIR]
  BY <1>2 DEF early_mm_map_region
<1>4. ASSUME NEW i \in 0..NNOYAU-1
      PROVE  /\ PGTAB + i \in Noyaux /\ c[PGTAB + i] \in Tables
             /\ d[PGTAB + i] = [j \in 0..NPTE-1 |->
                                  IF i * NPTE + j \in debut..fin-1
                                  THEN EntreeRegion(rw, i * NPTE + j)
                                  ELSE c[PGTAB + i][j]]
  <2>1. PGTAB + i \in Noyaux /\ PGTAB + i # PGDIR /\ (PGTAB + i) - PGTAB = i
    BY <1>1 DEF Noyaux
  <2>2. c[PGTAB + i] \in Tables
    BY DEF Cartes
  <2>3. PICK f : f = PGTAB + i
    OBVIOUS
  <2>4. d[f] = [j \in 0..NPTE-1 |->
                  IF (f - PGTAB) * NPTE + j \in debut..fin-1
                  THEN EntreeRegion(rw, (f - PGTAB) * NPTE + j)
                  ELSE c[f][j]]
    BY <1>2, <2>1, <2>3 DEF early_mm_map_region, EntreeRegion
  <2>5. f - PGTAB = i
    BY <2>1, <2>3
  <2>6. QED
    BY <2>1, <2>2, <2>3, <2>4, <2>5
<1>5. ASSUME NEW i \in 0..NNOYAU-1
      PROVE  d[PGTAB + i] \in Tables
  <2>1. ASSUME NEW j \in 0..NPTE-1
        PROVE  /\ EntreeRegion(rw, i * NPTE + j) \in TypeEntree
               /\ c[PGTAB + i][j] \in TypeEntree
    <3>1. i * NPTE + j \in Nat
      BY <1>1
    <3>2. c[PGTAB + i] \in Tables
      BY <1>4
    <3>3. QED
      BY <3>1, <3>2 DEF TypeEntree, Tables, EntreeRegion
  <2>2. PICK t : t = [j \in 0..NPTE-1 |-> IF i * NPTE + j \in debut..fin-1
                       THEN EntreeRegion(rw, i * NPTE + j)
                       ELSE c[PGTAB + i][j]]
    OBVIOUS
  <2>3. d[PGTAB + i] = t
    BY <1>4, <2>2
  <2>4. \A j \in 0..NPTE-1 : t[j] \in TypeEntree
    BY <2>1, <2>2
  <2>5. QED
    BY <2>2, <2>3, <2>4 DEF Tables
<1>6. d \in [Noyaux -> Repertoires \cup Tables]
  <2>1. c[PGDIR] \in Repertoires \cup Tables
    BY <1>2 DEF Cartes
  <2>2. \A f \in Noyaux : d[f] \in Repertoires \cup Tables
    BY <1>3, <1>5, <2>1 DEF Noyaux
  <2>3. d = [f \in Noyaux |-> d[f]]
    BY <1>2 DEF early_mm_map_region
  <2>4. QED
    BY <2>2, <2>3
<1>7. d \in Cartes
  BY <1>2, <1>3, <1>5, <1>6 DEF Cartes
<1>8. ASSUME NEW i \in 0..NNOYAU-1, NEW j \in 0..NPTE-1
      PROVE  d[PGTAB + i][j] = IF i * NPTE + j \in debut..fin-1
                               THEN EntreeRegion(rw, i * NPTE + j)
                               ELSE c[PGTAB + i][j]
  BY <1>4
<1>9. QED
  BY <1>7, <1>8

LEMMA CarteNoyau ==
  /\ early_mm_map_kernel \in Cartes
  /\ \A i \in 0..NNOYAU-1, j \in 0..NPTE-1 :
       early_mm_map_kernel[PGTAB + i][j] = PageNoyau(i * NPTE + j)
<1> DEFINE vide == [f \in {PGDIR} \cup {PGTAB + i : i \in 0..NNOYAU-1} |->
                      IF f = PGDIR THEN early_mm_fill_pgdir ELSE [j \in 0..NPTE-1 |-> VIDE]]
           Apres(n, c) == early_mm_map_region(c, Regions[n][1], Regions[n][2], Regions[n][3])
           Egal(f) == f = [n \in 0..Len(Regions) |-> IF n = 0 THEN vide ELSE Apres(n, f[n-1])]
<1>1. /\ NPTE \in Nat /\ NPDE \in Nat /\ PGTAB \in Nat /\ PGDIR \in Nat
      /\ \A i \in 0..NNOYAU-1 : PGTAB + i # PGDIR
  BY TaillesProp, CadresAssumption
<1>2. early_mm_fill_pgdir \in Repertoires
  <2>1. \A i \in 0..NPDE-1 : i < NNOYAU => EntreeNoyau(i) \in TypeEntree
    BY <1>1 DEF EntreeNoyau, TypeEntree
  <2>2. QED
    BY <2>1, VideType DEF early_mm_fill_pgdir, EntreeNoyau, Repertoires
<1>3. vide \in Cartes /\ \A i \in 0..NNOYAU-1, j \in 0..NPTE-1 : vide[PGTAB + i][j] = VIDE
  <2>1. [j \in 0..NPTE-1 |-> VIDE] \in Tables
    BY VideType DEF Tables
  <2>2. vide[PGDIR] = early_mm_fill_pgdir
    OBVIOUS
  <2>3. \A i \in 0..NNOYAU-1 : vide[PGTAB + i] = [j \in 0..NPTE-1 |-> VIDE]
    BY <1>1
  <2>4. vide \in [Noyaux -> Repertoires \cup Tables]
    BY <1>2, <2>1 DEF Noyaux
  <2> HIDE DEF vide
  <2>5. QED
    BY <2>1, <2>2, <2>3, <2>4 DEF Cartes
<1>4. ASSUME NEW n \in 1..9 PROVE Regions[n][3] \in BOOLEAN
  <2>1. n = 1 \/ n = 2 \/ n = 3 \/ n = 4 \/ n = 5 \/ n = 6 \/ n = 7 \/ n = 8 \/ n = 9
    OBVIOUS
  <2>2. Regions[n][3] = TRUE \/ Regions[n][3] = FALSE
    BY <2>1, RegionsProp, Zenon DEF EstRegion
  <2>3. QED
    BY <2>2
<1>5. ASSUME NEW n \in 1..9, NEW c \in Cartes PROVE Apres(n, c) \in Cartes
  BY <1>4, RegionProp
<1>6. Len(Regions) = 9
  BY RegionsProp
<1>7. \E f : Egal(f)
  <2>1. PICK F : F = [n \in 1..9 |-> [c \in Cartes |-> Apres(n, c)]]
    OBVIOUS
  <2> HIDE DEF vide, Apres
  <2>2. F \in [1..9 -> [Cartes -> Cartes]]
    BY <1>5, <2>1
  <2>3. PICK f \in [0..9 -> Cartes] : EstSuite(f, 9, vide, F)
    <3>1. 9 \in Nat
      OBVIOUS
    <3>2. QED
      BY <1>3, <2>2, <3>1, SuiteRecursive
  <2>4. ASSUME NEW n \in 1..9 PROVE f[n] = Apres(n, f[n-1])
    <3>1. n-1 \in 0..9 /\ f[n-1] \in Cartes
      OBVIOUS
    <3>2. QED
      BY <2>1, <2>3, <3>1 DEF EstSuite
  <2>5. \A n \in 0..9 : f[n] = IF n = 0 THEN vide ELSE Apres(n, f[n-1])
    BY <2>3, <2>4 DEF EstSuite
  <2>6. QED
    BY <1>6, <2>5
<1>8. PICK f : Egal(f) /\ early_mm_map_kernel = f[9]
  BY <1>6, <1>7 DEF early_mm_map_kernel
<1>9. f[0] = vide /\ \A n \in 1..9 : f[n] = Apres(n, f[n-1])
  <2> HIDE DEF Apres, vide
  <2>1. f = [n \in 0..9 |-> IF n = 0 THEN vide ELSE Apres(n, f[n-1])]
    BY <1>6, <1>8
  <2>2. QED
    BY <2>1
<1>10. ASSUME NEW n \in 1..9, f[n-1] \in Cartes
       PROVE  /\ f[n] \in Cartes
              /\ \A i \in 0..NNOYAU-1, j \in 0..NPTE-1 :
                   f[n][PGTAB + i][j] = IF i * NPTE + j \in Regions[n][1]..Regions[n][2]-1
                                        THEN EntreeRegion(Regions[n][3], i * NPTE + j)
                                        ELSE f[n-1][PGTAB + i][j]
  <2>1. f[n] = early_mm_map_region(f[n-1], Regions[n][1], Regions[n][2], Regions[n][3])
    BY <1>9
  <2>2. QED
    BY <1>4, <1>10, <2>1, RegionProp
<1> HIDE DEF Egal, Apres, vide
<1>11. 0..9 \subseteq {n \in 0..9 : f[n] \in Cartes}
  <2> DEFINE A == {n \in 0..9 : f[n] \in Cartes}
  <2>1. 0 \in A
    BY <1>3, <1>9
  <2>2. ASSUME NEW n \in 1..9, n-1 \in A PROVE n \in A
    BY <1>10, <2>2
  <2>3. 9 \in Nat
    OBVIOUS
  <2> HIDE DEF A
  <2>4. 0..9 \subseteq A
    BY <2>1, <2>2, <2>3, RecurrenceEntiers
  <2>5. QED
    BY <2>4 DEF A
<1>12. ASSUME NEW i \in 0..NNOYAU-1, NEW j \in 0..NPTE-1
       PROVE  f[9][PGTAB + i][j] = PageNoyau(i * NPTE + j)
  <2>1. PICK v \in Nat : v = i * NPTE + j
    BY <1>1
  <2>2. v < SECTIONS.mem_end
    <3>1. i <= NNOYAU - 1 /\ NNOYAU \in Nat
      BY <1>1, TaillesProp, CadresAssumption
    <3>2. i * NPTE <= (NNOYAU - 1) * NPTE
      BY <1>1, <3>1
    <3>3. (NNOYAU - 1) * NPTE = NNOYAU * NPTE - NPTE
      BY <1>1, <3>1
    <3>4. NNOYAU * NPTE \in Nat /\ i * NPTE \in Nat
      BY <1>1, <3>1
    <3>5. QED
      BY <1>1, <2>1, <3>2, <3>3, <3>4, SectionsAssumption
  <2>3. PICK g : g = [n \in 0..9 |-> f[n][PGTAB + i][j]]
    OBVIOUS
  <2>4. g[0] = VIDE /\ g[9] = f[9][PGTAB + i][j]
    BY <1>3, <1>9, <2>3
  <2>5. ASSUME NEW n \in 1..9
        PROVE  g[n] = IF v \in Regions[n][1]..Regions[n][2]-1 THEN EntreeRegion(Regions[n][3], v) ELSE g[n-1]
    <3>1. n-1 \in 0..9 /\ n \in 0..9
      OBVIOUS
    <3>2. f[n-1] \in Cartes /\ g[n-1] = f[n-1][PGTAB + i][j] /\ g[n] = f[n][PGTAB + i][j]
      BY <1>11, <2>3, <3>1
    <3>3. QED
      BY <1>10, <2>1, <3>2
  <2>6. ASSUME NEW n \in 1..9, NEW debut \in Nat, NEW fin \in Nat, NEW rw,
               EstRegion(n, debut, fin, rw)
        PROVE  g[n] = IF debut <= v /\ v < fin THEN EntreeRegion(rw, v) ELSE g[n-1]
    <3>1. Regions[n][1] = debut /\ Regions[n][2] = fin /\ EntreeRegion(Regions[n][3], v) = EntreeRegion(rw, v)
      BY <2>6, Zenon DEF EstRegion
    <3>2. v \in debut..fin-1 <=> debut <= v /\ v < fin
      BY <2>1
    <3>3. g[n] = IF v \in debut..fin-1 THEN EntreeRegion(rw, v) ELSE g[n-1]
      BY <2>5, <3>1
    <3>4. QED
      BY <3>2, <3>3
  <2>7. PICK s : s = SECTIONS
    OBVIOUS
  <2>8. /\ s._start \in Nat /\ s._text_start \in Nat /\ s._text_end \in Nat
        /\ s._multiboot_end \in Nat /\ s._bootstrap_stack_end \in Nat /\ s._rodata_end \in Nat
        /\ s._data_end \in Nat /\ s._bss_end \in Nat /\ s.mem_end \in Nat
        /\ s._multiboot_start = s._text_end /\ s._bootstrap_stack_start = s._multiboot_end
        /\ s._rodata_start = s._bootstrap_stack_end /\ s._data_start = s._rodata_end
        /\ s._bss_start = s._data_end /\ s._end = s._bss_end
        /\ 1 <= s._start /\ s._start <= s._text_start /\ s._text_start < s._text_end
        /\ s._text_end < s._multiboot_end /\ s._multiboot_end < s._bootstrap_stack_end
        /\ s._bootstrap_stack_end < s._rodata_end /\ s._rodata_end < s._data_end
        /\ s._data_end <= s._bss_end /\ s._bss_end <= s.mem_end
    BY <2>7, LinkerAssumption, SectionsAssumption DEF Symboles, early_mm_check
  <2>9. /\ EstRegion(1, 1, s._start, TRUE) /\ EstRegion(2, s._start, s._text_start, TRUE)
        /\ EstRegion(3, s._text_start, s._text_end, FALSE)
        /\ EstRegion(4, s._text_end, s._multiboot_end, FALSE)
        /\ EstRegion(5, s._bootstrap_stack_end, s._rodata_end, FALSE)
        /\ EstRegion(6, s._multiboot_end, s._bootstrap_stack_end, TRUE)
        /\ EstRegion(7, s._rodata_end, s._data_end, TRUE)
        /\ EstRegion(8, s._data_end, s._bss_end, TRUE)
        /\ EstRegion(9, s._bss_end, s.mem_end, TRUE)
    BY <2>7, <2>8, RegionsProp, Zenon
  <2>11. PICK ouverte, gardee : ouverte = EntreeRegion(TRUE, v) /\ gardee = EntreeRegion(FALSE, v)
    OBVIOUS
  <2>12. /\ g[1] = IF 1 <= v /\ v < s._start THEN ouverte ELSE VIDE
         /\ g[2] = IF s._start <= v /\ v < s._text_start THEN ouverte ELSE g[1]
         /\ g[3] = IF s._text_start <= v /\ v < s._text_end THEN gardee ELSE g[2]
         /\ g[4] = IF s._text_end <= v /\ v < s._multiboot_end THEN gardee ELSE g[3]
         /\ g[5] = IF s._bootstrap_stack_end <= v /\ v < s._rodata_end THEN gardee ELSE g[4]
         /\ g[6] = IF s._multiboot_end <= v /\ v < s._bootstrap_stack_end THEN ouverte ELSE g[5]
         /\ g[7] = IF s._rodata_end <= v /\ v < s._data_end THEN ouverte ELSE g[6]
         /\ g[8] = IF s._data_end <= v /\ v < s._bss_end THEN ouverte ELSE g[7]
         /\ g[9] = IF s._bss_end <= v /\ v < s.mem_end THEN ouverte ELSE g[8]
    <3>1. g[1] = IF 1 <= v /\ v < s._start THEN ouverte ELSE g[0]
      <4>1. 1 \in 1..9 /\ 1 \in Nat /\ s._start \in Nat /\ 1-1 = 0
        BY <2>8
      <4>2. QED
        BY <2>6, <2>9, <2>11, <4>1
    <3>2. g[2] = IF s._start <= v /\ v < s._text_start THEN ouverte ELSE g[1]
      <4>1. 2 \in 1..9 /\ s._start \in Nat /\ s._text_start \in Nat /\ 2-1 = 1
        BY <2>8
      <4>2. QED
        BY <2>6, <2>9, <2>11, <4>1
    <3>3. g[3] = IF s._text_start <= v /\ v < s._text_end THEN gardee ELSE g[2]
      <4>1. 3 \in 1..9 /\ s._text_start \in Nat /\ s._text_end \in Nat /\ 3-1 = 2
        BY <2>8
      <4>2. QED
        BY <2>6, <2>9, <2>11, <4>1
    <3>4. g[4] = IF s._text_end <= v /\ v < s._multiboot_end THEN gardee ELSE g[3]
      <4>1. 4 \in 1..9 /\ s._text_end \in Nat /\ s._multiboot_end \in Nat /\ 4-1 = 3
        BY <2>8
      <4>2. QED
        BY <2>6, <2>9, <2>11, <4>1
    <3>5. g[5] = IF s._bootstrap_stack_end <= v /\ v < s._rodata_end THEN gardee ELSE g[4]
      <4>1. 5 \in 1..9 /\ s._bootstrap_stack_end \in Nat /\ s._rodata_end \in Nat /\ 5-1 = 4
        BY <2>8
      <4>2. QED
        BY <2>6, <2>9, <2>11, <4>1
    <3>6. g[6] = IF s._multiboot_end <= v /\ v < s._bootstrap_stack_end THEN ouverte ELSE g[5]
      <4>1. 6 \in 1..9 /\ s._multiboot_end \in Nat /\ s._bootstrap_stack_end \in Nat /\ 6-1 = 5
        BY <2>8
      <4>2. QED
        BY <2>6, <2>9, <2>11, <4>1
    <3>7. g[7] = IF s._rodata_end <= v /\ v < s._data_end THEN ouverte ELSE g[6]
      <4>1. 7 \in 1..9 /\ s._rodata_end \in Nat /\ s._data_end \in Nat /\ 7-1 = 6
        BY <2>8
      <4>2. QED
        BY <2>6, <2>9, <2>11, <4>1
    <3>8. g[8] = IF s._data_end <= v /\ v < s._bss_end THEN ouverte ELSE g[7]
      <4>1. 8 \in 1..9 /\ s._data_end \in Nat /\ s._bss_end \in Nat /\ 8-1 = 7
        BY <2>8
      <4>2. QED
        BY <2>6, <2>9, <2>11, <4>1
    <3>9. g[9] = IF s._bss_end <= v /\ v < s.mem_end THEN ouverte ELSE g[8]
      <4>1. 9 \in 1..9 /\ s._bss_end \in Nat /\ s.mem_end \in Nat /\ 9-1 = 8
        BY <2>8
      <4>2. QED
        BY <2>6, <2>9, <2>11, <4>1
    <3>10. QED
      BY <2>4, <3>1, <3>2, <3>3, <3>4, <3>5, <3>6, <3>7, <3>8, <3>9
  <2>13. PageNoyau(v) = IF v = 0 THEN VIDE
                        ELSE IF \/ s._multiboot_end <= v /\ v < s._bootstrap_stack_end
                                \/ s._rodata_end <= v
                                \/ v < s._text_start
                             THEN ouverte ELSE gardee
    <3>1. PICK ro, rw : /\ ro = (s._text_start..s._text_end-1) \cup (s._multiboot_start..s._multiboot_end-1)
                                  \cup (s._rodata_start..s._rodata_end-1)
                        /\ rw = (s._bootstrap_stack_start..s._bootstrap_stack_end-1)
                                  \cup (s._data_start..s._data_end-1)
      OBVIOUS
    <3>2. v \in rw \/ v \notin ro <=> \/ s._multiboot_end <= v /\ v < s._bootstrap_stack_end
                                      \/ s._rodata_end <= v
                                      \/ v < s._text_start
      BY <2>1, <2>8, <3>1
    <3>3. PageNoyau(v) = IF v = 0 THEN VIDE
                         ELSE IF v \in rw \/ v \notin ro THEN ouverte ELSE gardee
      <4>1. PageNoyau(v) = IF v = 0 THEN VIDE ELSE EntreeRegion(v \in rw \/ v \notin ro, v)
        BY <2>7, <3>1 DEF PageNoyau, EntreeRegion, LectureSeule
      <4>2. CASE v \in rw \/ v \notin ro
        <5>1. (v \in rw \/ v \notin ro) = TRUE
          BY <4>2
        <5>2. QED
          BY <2>11, <4>1, <4>2, <5>1
      <4>3. CASE ~(v \in rw \/ v \notin ro)
        <5>1. (v \in rw \/ v \notin ro) = FALSE
          BY <4>3
        <5>2. QED
          BY <2>11, <4>1, <4>3, <5>1
      <4>4. QED
        BY <4>2, <4>3
    <3>4. QED
      BY <3>2, <3>3
  <2>14. g[9] = PageNoyau(v)
    BY <2>1, <2>2, <2>7, <2>8, <2>12, <2>13
  <2>15. QED
    BY <2>1, <2>4, <2>14
<1>13. 9 \in 0..9
  OBVIOUS
<1>14. QED
  BY <1>8, <1>11, <1>12, <1>13

TypeMemoire ==
  [cadres : UNION {[X -> Repertoires \cup Tables] : X \in SUBSET Nat},
   tas : SUBSET TAS, mot : TypeEntree, fusions : SUBSET Nat]

LEMMA MinProp ==
  ASSUME NEW S \in SUBSET Nat, S # {}
  PROVE  Min(S) \in S
<1>1. PICK x \in S : \A y \in S : x <= y
  BY PlusPetit
<1>2. QED
  BY <1>1 DEF Min

LEMMA TypeMemoireProp ==
  ASSUME NEW m \in TypeMemoire
  PROVE  /\ m.tas \subseteq TAS /\ TAS \subseteq Nat /\ 0 \notin TAS
         /\ m = [cadres |-> m.cadres, tas |-> m.tas, mot |-> m.mot, fusions |-> m.fusions]
         /\ DOMAIN m.cadres \subseteq Nat
         /\ m.cadres = [x \in DOMAIN m.cadres |-> m.cadres[x]]
         /\ \A x \in DOMAIN m.cadres : m.cadres[x] \in Repertoires \cup Tables
<1>1. PICK X \in SUBSET Nat : m.cadres \in [X -> Repertoires \cup Tables]
  BY DEF TypeMemoire
<1>2. DOMAIN m.cadres = X /\ m.cadres = [x \in X |-> m.cadres[x]]
      /\ \A x \in X : m.cadres[x] \in Repertoires \cup Tables
  BY <1>1
<1>3. /\ m.tas \subseteq TAS
      /\ m = [cadres |-> m.cadres, tas |-> m.tas, mot |-> m.mot, fusions |-> m.fusions]
  BY DEF TypeMemoire
<1>4. QED
  BY <1>1, <1>2, <1>3, CadresAssumption

(* A record of this form is one.                                           *)
LEMMA MemoireDe ==
  ASSUME NEW c, NEW X \in SUBSET Nat, c \in [X -> Repertoires \cup Tables],
         NEW t \in SUBSET TAS, NEW w \in TypeEntree, NEW h \in SUBSET Nat,
         NEW m, m = [cadres |-> c, tas |-> t, mot |-> w, fusions |-> h]
  PROVE  /\ m \in TypeMemoire /\ m.cadres = c /\ m.tas = t /\ m.mot = w /\ m.fusions = h
         /\ DOMAIN m.cadres = X
<1>1. c \in UNION {[Y -> Repertoires \cup Tables] : Y \in SUBSET Nat}
  OBVIOUS
<1>2. QED
  BY <1>1 DEF TypeMemoire

(* memalign gives the lowest frame of the heap.                            *)
LEMMA AllouerProp ==
  ASSUME NEW m \in TypeMemoire, m.tas # {}, NEW x \in Repertoires \cup Tables,
         NEW f, f = Min(m.tas), NEW n, n = Allouer(m, x)
  PROVE  /\ n \in TypeMemoire /\ f \in m.tas /\ n.tas = m.tas \ {f}
         /\ n.mot = m.mot /\ n.fusions = m.fusions
         /\ DOMAIN n.cadres = DOMAIN m.cadres \cup {f} /\ n.cadres[f] = x
         /\ \A y \in DOMAIN m.cadres : y # f => n.cadres[y] = m.cadres[y]
<1>1. f \in m.tas /\ f \in Nat /\ m.tas \subseteq TAS
  BY TypeMemoireProp, MinProp
<1>2. PICK X : X = DOMAIN m.cadres
  OBVIOUS
<1>3. PICK c : c = [y \in X \cup {f} |-> IF y = f THEN x ELSE m.cadres[y]]
  OBVIOUS
<1>4. X \subseteq Nat /\ \A y \in X : m.cadres[y] \in Repertoires \cup Tables
  BY <1>2, TypeMemoireProp
<1>5. c \in [X \cup {f} -> Repertoires \cup Tables]
  BY <1>3, <1>4
<1>6. m.mot \in TypeEntree /\ m.fusions \in SUBSET Nat
  BY DEF TypeMemoire
<1>7. n = [cadres |-> c, tas |-> m.tas \ {f}, mot |-> m.mot, fusions |-> m.fusions]
  <2>1. m = [cadres |-> m.cadres, tas |-> m.tas, mot |-> m.mot, fusions |-> m.fusions]
    BY TypeMemoireProp
  <2>2. QED
    BY <1>2, <1>3, <2>1 DEF Allouer
<1>8. n \in TypeMemoire /\ n.cadres = c /\ n.tas = m.tas \ {f}
      /\ n.mot = m.mot /\ n.fusions = m.fusions
  <2>1. X \cup {f} \in SUBSET Nat /\ m.tas \ {f} \in SUBSET TAS
    BY <1>1, <1>4
  <2>2. QED
    BY <1>5, <1>6, <1>7, <2>1, MemoireDe
<1>9. QED
  BY <1>1, <1>2, <1>3, <1>8

(* One entry is written in a frame.                                        *)
Ecriture(m, f, i, e) == [m EXCEPT !.cadres[f][i] = e]

LEMMA EcrireProp ==
  ASSUME NEW m \in TypeMemoire, NEW f \in DOMAIN m.cadres,
         NEW i \in DOMAIN m.cadres[f], NEW e \in TypeEntree,
         NEW n, n = Ecriture(m, f, i, e)
  PROVE  /\ n \in TypeMemoire /\ n.tas = m.tas /\ n.mot = m.mot /\ n.fusions = m.fusions
         /\ DOMAIN n.cadres = DOMAIN m.cadres
         /\ m.cadres[f] \in Tables => n.cadres[f] \in Tables
         /\ m.cadres[f] \in Repertoires => n.cadres[f] \in Repertoires
         /\ n.cadres[f][i] = e
         /\ \A j \in DOMAIN m.cadres[f] : j # i => n.cadres[f][j] = m.cadres[f][j]
         /\ \A y \in DOMAIN m.cadres : y # f => n.cadres[y] = m.cadres[y]
<1>1. PICK X : X = DOMAIN m.cadres
  OBVIOUS
<1>2. /\ X \in SUBSET Nat /\ m.cadres = [x \in X |-> m.cadres[x]]
      /\ \A y \in X : m.cadres[y] \in Repertoires \cup Tables
      /\ m = [cadres |-> m.cadres, tas |-> m.tas, mot |-> m.mot, fusions |-> m.fusions]
      /\ m.tas \in SUBSET TAS /\ m.mot \in TypeEntree /\ m.fusions \in SUBSET Nat
  BY <1>1, TypeMemoireProp DEF TypeMemoire
<1>3. PICK t : t = [m.cadres[f] EXCEPT ![i] = e]
  OBVIOUS
<1>4. /\ t[i] = e
      /\ \A j \in DOMAIN m.cadres[f] : j # i => t[j] = m.cadres[f][j]
      /\ m.cadres[f] \in Repertoires => t \in Repertoires
      /\ m.cadres[f] \in Tables => t \in Tables
  BY <1>3 DEF Repertoires, Tables
<1>5. PICK c : c = [m.cadres EXCEPT ![f] = t]
  OBVIOUS
<1>6. n = [cadres |-> c, tas |-> m.tas, mot |-> m.mot, fusions |-> m.fusions]
  BY <1>2, <1>3, <1>5 DEF Ecriture
<1>7. t \in Repertoires \cup Tables
  BY <1>1, <1>2, <1>4
<1>8. c \in [X -> Repertoires \cup Tables]
  BY <1>1, <1>2, <1>5, <1>7
<1>9. n \in TypeMemoire /\ n.cadres = c /\ n.tas = m.tas /\ n.mot = m.mot /\ n.fusions = m.fusions
  <2>1. PICK q, w, h : q = m.tas /\ w = m.mot /\ h = m.fusions
    OBVIOUS
  <2>2. /\ q \in SUBSET TAS /\ w \in TypeEntree /\ h \in SUBSET Nat
        /\ n = [cadres |-> c, tas |-> q, mot |-> w, fusions |-> h]
    BY <1>2, <1>6, <2>1
  <2>3. X \in SUBSET Nat
    BY <1>2
  <2>4. c \in UNION {[Y -> Repertoires \cup Tables] : Y \in SUBSET Nat}
    BY <1>8, <2>3
  <2>5. n \in TypeMemoire /\ n.cadres = c /\ n.tas = q /\ n.mot = w /\ n.fusions = h
    BY <2>2, <2>4 DEF TypeMemoire
  <2>6. QED
    BY <2>1, <2>5
<1>10. c[f] = t /\ DOMAIN c = X /\ \A y \in X : y # f => c[y] = m.cadres[y]
  BY <1>1, <1>2, <1>5
<1>11. QED
  BY <1>1, <1>4, <1>9, <1>10

-----------------------------------------------------------------------------
(* The frames of a process, and what they must hold: its directory is the  *)
(* kernel's below entry NNOYAU; above, it points to tables of the heap     *)
(* whose entries point to pages of A.                                      *)
EstTable(m, f, A) ==
  /\ f \in TAS /\ f \in DOMAIN m.cadres /\ m.cadres[f] \in Tables
  /\ \A j \in 0..NPTE-1 : m.cadres[f][j].p => m.cadres[f][j].adr \in A

Espace(m, rep, A) ==
  /\ rep \in TAS /\ rep \in DOMAIN m.cadres /\ m.cadres[rep] \in Repertoires
  /\ \A i \in 0..NNOYAU-1 : m.cadres[rep][i] = EntreeNoyau(i)
  /\ \A i \in NNOYAU..NPDE-1 : m.cadres[rep][i].p =>
       /\ i < NPDE - NNOYAU /\ m.cadres[rep][i].adr # rep
       /\ EstTable(m, m.cadres[rep][i].adr, A)

TablesDe(m, rep) ==
  {m.cadres[rep][i].adr : i \in {j \in NNOYAU..NPDE-1 : m.cadres[rep][j].p}}

Possede(m, rep) == {rep} \cup TablesDe(m, rep)

LEMMA PossedeProp ==
  ASSUME NEW m, NEW rep, NEW A, Espace(m, rep, A)
  PROVE  Possede(m, rep) \subseteq TAS /\ Possede(m, rep) \subseteq DOMAIN m.cadres
  BY DEF Espace, EstTable, Possede, TablesDe

LEMMA EspaceIntact ==
  ASSUME NEW m, NEW n, NEW rep, NEW A, Espace(m, rep, A),
         \A x \in Possede(m, rep) : x \in DOMAIN n.cadres /\ n.cadres[x] = m.cadres[x]
  PROVE  Espace(n, rep, A) /\ Possede(n, rep) = Possede(m, rep)
<1>1. rep \in DOMAIN n.cadres /\ n.cadres[rep] = m.cadres[rep]
  BY DEF Possede
<1>2. TablesDe(n, rep) = TablesDe(m, rep)
  BY <1>1 DEF TablesDe
<1>3. ASSUME NEW i \in NNOYAU..NPDE-1, m.cadres[rep][i].p
      PROVE  EstTable(n, m.cadres[rep][i].adr, A)
  <2>1. PICK f : f = m.cadres[rep][i].adr
    OBVIOUS
  <2>2. f \in Possede(m, rep)
    BY <1>3, <2>1 DEF Possede, TablesDe
  <2>3. f \in DOMAIN n.cadres /\ n.cadres[f] = m.cadres[f]
    BY <2>2
  <2>4. EstTable(m, f, A)
    BY <1>3, <2>1 DEF Espace
  <2>5. QED
    BY <2>1, <2>3, <2>4 DEF EstTable
<1>4. Espace(n, rep, A)
  BY <1>1, <1>3 DEF Espace
<1>5. QED
  BY <1>2, <1>4 DEF Possede

(* All the processes: those with a directory share no frame, and theirs    *)
(* are the only frames of the heap in use.                                 *)
Pourvus(reps) == {p \in PID : reps[p] # 0}

(* The kernel's own frames are as at boot, entry 0 of its first table       *)
(* apart: free writes there, but nothing with bit P.                       *)
Conforme(f, c) ==
  IF f = PGTAB
  THEN c \in Tables /\ ~c[0].p /\ \A j \in 1..NPTE-1 : c[j] = early_mm_map_kernel[f][j]
  ELSE c = early_mm_map_kernel[f]

MemoireSaine(m, reps, A) ==
  /\ m \in TypeMemoire
  /\ DOMAIN m.cadres \cap m.tas = {}
  /\ \A f \in Noyaux : f \in DOMAIN m.cadres /\ Conforme(f, m.cadres[f])
  /\ ~m.mot.p /\ m.fusions = {}
  /\ \A p \in Pourvus(reps) : Espace(m, reps[p], A[p])
  /\ \A p, q \in Pourvus(reps) : p # q => Possede(m, reps[p]) \cap Possede(m, reps[q]) = {}
  /\ \A f \in DOMAIN m.cadres : f \in TAS => \E p \in Pourvus(reps) : f \in Possede(m, reps[p])

LEMMA NoyauxProp == \A f \in Noyaux : f \notin TAS
  BY CadresAssumption DEF Noyaux

(* Frames F are taken from the heap; those of V and F only are written.    *)
Accru(m, r, V, F) ==
  /\ r \in TypeMemoire
  /\ F \subseteq m.tas /\ r.tas = m.tas \ F /\ r.mot = m.mot /\ r.fusions = m.fusions
  /\ DOMAIN r.cadres = DOMAIN m.cadres \cup F
  /\ \A x \in DOMAIN m.cadres : x \notin V => r.cadres[x] = m.cadres[x]

Biens(m, rep) == IF rep = 0 THEN {} ELSE Possede(m, rep)

Pareils(f, g, p) == \A q \in PID : q # p => f[q] = g[q]

(* Process p takes the frames F: the others keep theirs.                   *)
LEMMA Croissance ==
  ASSUME NEW m, NEW reps, NEW A, MemoireSaine(m, reps, A),
         NEW p \in PID, NEW r, NEW autres, NEW B, NEW F,
         Accru(m, r, Biens(m, reps[p]), F),
         Espace(r, autres[p], B[p]), Possede(r, autres[p]) = Biens(m, reps[p]) \cup F,
         Pareils(autres, reps, p), Pareils(B, A, p)
  PROVE  MemoireSaine(r, autres, B)
<1> DEFINE V   == Biens(m, reps[p])
           rep == autres[p]
<1>0. /\ r \in TypeMemoire
      /\ F \subseteq m.tas /\ r.tas = m.tas \ F /\ r.mot = m.mot /\ r.fusions = m.fusions
      /\ DOMAIN r.cadres = DOMAIN m.cadres \cup F
      /\ \A x \in DOMAIN m.cadres : x \notin V => r.cadres[x] = m.cadres[x]
      /\ \A q \in PID : q # p => B[q] = A[q]
      /\ Espace(r, rep, B[p]) /\ Possede(r, rep) = V \cup F
  BY DEF Accru, Pareils
<1>1. /\ m \in TypeMemoire /\ DOMAIN m.cadres \cap m.tas = {}
      /\ \A f \in Noyaux : f \in DOMAIN m.cadres /\ Conforme(f, m.cadres[f])
      /\ ~m.mot.p /\ m.fusions = {}
      /\ \A q \in Pourvus(reps) : Espace(m, reps[q], A[q])
      /\ \A q, s \in Pourvus(reps) : q # s => Possede(m, reps[q]) \cap Possede(m, reps[s]) = {}
      /\ \A f \in DOMAIN m.cadres : f \in TAS => \E q \in Pourvus(reps) : f \in Possede(m, reps[q])
  BY DEF MemoireSaine
<1>2. rep # 0 /\ Pourvus(autres) = Pourvus(reps) \cup {p}
      /\ \A q \in PID : q # p => autres[q] = reps[q]
  <2>1. rep \in TAS /\ rep # 0
    BY <1>0, CadresAssumption DEF Espace
  <2>2. QED
    BY <2>1 DEF Pourvus, Pareils
<1>3. /\ V \subseteq DOMAIN m.cadres /\ V \subseteq TAS
      /\ \A q \in Pourvus(reps) : q # p => Possede(m, reps[q]) \cap V = {}
  <2>1. CASE reps[p] = 0
    BY <2>1 DEF Biens
  <2>2. CASE reps[p] # 0
    <3>1. V = Possede(m, reps[p]) /\ p \in Pourvus(reps)
      BY <2>2 DEF Biens, Pourvus
    <3>2. Espace(m, reps[p], A[p])
      BY <1>1, <3>1
    <3>3. QED
      BY <1>1, <3>1, <3>2, PossedeProp
  <2>3. QED
    BY <2>1, <2>2
<1> HIDE DEF V, rep
<1>12. autres[p] = rep
  BY DEF rep
<1>4. ASSUME NEW q \in Pourvus(autres), q # p
      PROVE  /\ q \in Pourvus(reps) /\ autres[q] = reps[q]
             /\ Espace(r, reps[q], B[q]) /\ Possede(r, reps[q]) = Possede(m, reps[q])
             /\ Possede(m, reps[q]) \cap V = {} /\ Possede(m, reps[q]) \subseteq DOMAIN m.cadres
  <2>1. q \in Pourvus(reps) /\ q \in PID
    BY <1>2, <1>4 DEF Pourvus
  <2>2. Espace(m, reps[q], A[q]) /\ B[q] = A[q]
    BY <1>0, <1>1, <1>4, <2>1
  <2>3. Possede(m, reps[q]) \cap V = {}
    BY <1>3, <1>4, <2>1
  <2>4. Possede(m, reps[q]) \subseteq DOMAIN m.cadres
    BY <2>2, PossedeProp
  <2>5. Espace(r, reps[q], A[q]) /\ Possede(r, reps[q]) = Possede(m, reps[q])
    <3>1. \A x \in Possede(m, reps[q]) : x \in DOMAIN r.cadres /\ r.cadres[x] = m.cadres[x]
      BY <1>0, <2>3, <2>4
    <3>2. QED
      BY <2>2, <3>1, EspaceIntact
  <2>6. QED
    BY <1>2, <1>4, <2>1, <2>2, <2>3, <2>4, <2>5
<1>5. \A f \in Noyaux : f \in DOMAIN r.cadres /\ Conforme(f, r.cadres[f])
  BY <1>0, <1>1, <1>3, NoyauxProp
<1>6. DOMAIN r.cadres \cap r.tas = {}
  BY <1>0, <1>1
<1>7. \A q \in Pourvus(autres) : Espace(r, autres[q], B[q])
  <2>1. SUFFICES ASSUME NEW q \in Pourvus(autres) PROVE Espace(r, autres[q], B[q])
    OBVIOUS
  <2>2. CASE q = p
    BY <1>0, <1>12, <2>2
  <2>3. CASE q # p
    <3>1. autres[q] = reps[q] /\ Espace(r, reps[q], B[q])
      BY <1>4, <2>3
    <3>2. QED
      BY <3>1
  <2>4. QED
    BY <2>2, <2>3
<1>8. \A q \in Pourvus(autres) : q # p => Possede(r, autres[q]) \cap Possede(r, rep) = {}
  BY <1>0, <1>1, <1>4
<1>9. \A q, s \in Pourvus(autres) : q # s => Possede(r, autres[q]) \cap Possede(r, autres[s]) = {}
  <2>1. SUFFICES ASSUME NEW q \in Pourvus(autres), NEW s \in Pourvus(autres), q # s
                 PROVE  Possede(r, autres[q]) \cap Possede(r, autres[s]) = {}
    OBVIOUS
  <2>2. CASE q = p
    BY <1>12, <1>8, <2>1, <2>2
  <2>3. CASE s = p
    BY <1>12, <1>8, <2>1, <2>3
  <2>4. CASE q # p /\ s # p
    <3>1. Possede(r, autres[q]) = Possede(m, reps[q]) /\ q \in Pourvus(reps)
      BY <1>4, <2>4
    <3>2. Possede(r, autres[s]) = Possede(m, reps[s]) /\ s \in Pourvus(reps)
      BY <1>4, <2>4
    <3>3. Possede(m, reps[q]) \cap Possede(m, reps[s]) = {}
      BY <1>1, <2>1, <3>1, <3>2
    <3>4. QED
      BY <3>1, <3>2, <3>3
  <2>5. QED
    BY <2>2, <2>3, <2>4
<1>10. ASSUME NEW f \in DOMAIN r.cadres, f \in TAS
       PROVE  \E q \in Pourvus(autres) : f \in Possede(r, autres[q])
  <2>1. CASE f \in V \cup F
    BY <1>0, <1>12, <1>2, <2>1
  <2>2. CASE f \notin V \cup F
    <3>1. PICK q \in Pourvus(reps) : f \in Possede(m, reps[q])
      BY <1>0, <1>1, <1>10, <2>2
    <3>2. q # p
      BY <2>2, <3>1 DEF Pourvus, V, Biens
    <3>3. QED
      BY <1>2, <1>4, <3>1, <3>2
  <2>3. QED
    BY <2>1, <2>2
<1>11. QED
  BY <1>0, <1>1, <1>2, <1>5, <1>6, <1>7, <1>9, <1>10 DEF MemoireSaine

-----------------------------------------------------------------------------
(* The directory of a new process, p, has no table yet.                    *)
Annuaires == [PID -> {0} \cup TAS]

Pourvu(reps, p, rep) == [reps EXCEPT ![p] = rep]

LEMMA NouveauRepertoire ==
  ASSUME NEW m, NEW reps \in Annuaires, NEW A, MemoireSaine(m, reps, A),
         NEW p \in PID, reps[p] = 0, m.tas # {},
         NEW r, r = create_page_directory(m), NEW rep, rep = Min(m.tas),
         NEW autres, autres = Pourvu(reps, p, rep),
         NEW B, Pareils(B, A, p)
  PROVE  /\ MemoireSaine(r, autres, B) /\ autres \in Annuaires
         /\ rep \in m.tas /\ r.tas = m.tas \ {rep}
<1>1. /\ m \in TypeMemoire /\ DOMAIN m.cadres \cap m.tas = {}
      /\ \A f \in Noyaux : f \in DOMAIN m.cadres /\ Conforme(f, m.cadres[f])
  BY DEF MemoireSaine
<1>2. PICK x : x = [i \in 0..NPDE-1 |-> IF i < NNOYAU THEN m.cadres[PGDIR][i] ELSE VIDE]
  OBVIOUS
<1>3. NPDE \in Nat /\ NNOYAU \in 1..NPDE /\ PGTAB \in Nat
  <2>1. PICK q \in Nat \ {0} : NPDE = 4 * q /\ NPDE \div 4 = q
    BY TaillesProp
  <2>2. QED
    BY <2>1, CadresAssumption
<1>4. \A i \in 0..NNOYAU-1 : i \in 0..NPDE-1 /\ m.cadres[PGDIR][i] = EntreeNoyau(i)
  <2>1. PGDIR # PGTAB
    BY CadresAssumption
  <2>2. m.cadres[PGDIR] = early_mm_fill_pgdir
    BY <1>1, <2>1, CarteNoyau DEF Conforme, Cartes, Noyaux
  <2>3. QED
    BY <1>3, <2>2 DEF early_mm_fill_pgdir, EntreeNoyau
<1>5. /\ x \in Repertoires
      /\ \A i \in 0..NNOYAU-1 : x[i] = EntreeNoyau(i)
      /\ \A i \in NNOYAU..NPDE-1 : ~x[i].p
  <2>1. \A i \in 0..NNOYAU-1 : EntreeNoyau(i) \in TypeEntree
    BY <1>3 DEF EntreeNoyau, TypeEntree
  <2>2. \A i \in 0..NPDE-1 : x[i] \in TypeEntree
    BY <1>2, <1>3, <1>4, <2>1, VideType
  <2>3. \A i \in 0..NNOYAU-1 : x[i] = EntreeNoyau(i)
    <3>1. \A i \in 0..NNOYAU-1 : i < NNOYAU
      BY <1>3
    <3>2. QED
      BY <1>2, <1>4, <3>1
  <2>4. \A i \in NNOYAU..NPDE-1 : x[i] = VIDE
    BY <1>2, <1>3
  <2>5. QED
    BY <1>2, <2>2, <2>3, <2>4, VideType DEF Repertoires
<1>6. r = Allouer(m, x)
  BY <1>2 DEF create_page_directory
<1>7. /\ r \in TypeMemoire /\ rep \in m.tas /\ r.tas = m.tas \ {rep}
      /\ r.mot = m.mot /\ r.fusions = m.fusions
      /\ DOMAIN r.cadres = DOMAIN m.cadres \cup {rep} /\ r.cadres[rep] = x
      /\ \A y \in DOMAIN m.cadres : y # rep => r.cadres[y] = m.cadres[y]
  BY <1>1, <1>5, <1>6, AllouerProp
<1>8. rep \in TAS /\ rep \notin DOMAIN m.cadres
  BY <1>1, <1>7, TypeMemoireProp
<1>9. Espace(r, rep, B[p]) /\ TablesDe(r, rep) = {}
  BY <1>5, <1>7, <1>8 DEF Espace, TablesDe
<1>10. Biens(m, reps[p]) = {} /\ Possede(r, rep) = {} \cup {rep}
  BY <1>9 DEF Possede, Biens
<1>11. Accru(m, r, {}, {rep})
  BY <1>7, <1>8 DEF Accru
<1>12. autres[p] = rep /\ Pareils(autres, reps, p) /\ autres \in Annuaires
  BY <1>8 DEF Pareils, Pourvu, Annuaires
<1>13. MemoireSaine(r, autres, B)
  <2>1. Accru(m, r, Biens(m, reps[p]), {rep})
    BY <1>10, <1>11
  <2>2. Espace(r, autres[p], B[p]) /\ Possede(r, autres[p]) = Biens(m, reps[p]) \cup {rep}
    BY <1>9, <1>10, <1>12
  <2>3. QED
    BY <1>12, <2>1, <2>2, Croissance
<1>14. QED
  BY <1>7, <1>12, <1>13

(* An entry of a table of the process is written.                          *)
EntreesVers(A) == {e \in TypeEntree : e.p => e.adr \in A}

LEMMA TableProp ==
  ASSUME NEW n, NEW rep, NEW A, Espace(n, rep, A), NEW f \in TablesDe(n, rep)
  PROVE  EstTable(n, f, A) /\ f # rep /\ rep \in DOMAIN n.cadres /\ f \in Possede(n, rep)
<1>1. PICK i \in NNOYAU..NPDE-1 : n.cadres[rep][i].p /\ f = n.cadres[rep][i].adr
  BY DEF TablesDe
<1>2. QED
  BY <1>1 DEF Espace, Possede

LEMMA EcrireTable ==
  ASSUME NEW n \in TypeMemoire, NEW f \in DOMAIN n.cadres, n.cadres[f] \in Tables,
         NEW j \in 0..NPTE-1, NEW e \in TypeEntree, NEW r, r = Ecriture(n, f, j, e)
  PROVE  /\ r \in TypeMemoire /\ r.tas = n.tas /\ r.mot = n.mot /\ r.fusions = n.fusions
         /\ DOMAIN r.cadres = DOMAIN n.cadres /\ r.cadres[f] \in Tables /\ r.cadres[f][j] = e
         /\ \A k \in 0..NPTE-1 : k # j => r.cadres[f][k] = n.cadres[f][k]
         /\ \A y \in DOMAIN n.cadres : y # f => r.cadres[y] = n.cadres[y]
<1>1. DOMAIN n.cadres[f] = 0..NPTE-1
  BY DEF Tables
<1>2. j \in DOMAIN n.cadres[f]
  BY <1>1
<1>3. r \in TypeMemoire /\ r.tas = n.tas /\ r.mot = n.mot /\ r.fusions = n.fusions
  BY <1>2, EcrireProp
<1>4. DOMAIN r.cadres = DOMAIN n.cadres /\ r.cadres[f] \in Tables
  BY <1>2, EcrireProp
<1>5. r.cadres[f][j] = e /\ \A k \in DOMAIN n.cadres[f] : k # j => r.cadres[f][k] = n.cadres[f][k]
  BY <1>2, EcrireProp
<1>6. \A y \in DOMAIN n.cadres : y # f => r.cadres[y] = n.cadres[y]
  BY <1>2, EcrireProp
<1>7. QED
  BY <1>1, <1>3, <1>4, <1>5, <1>6

LEMMA EntreeTable ==
  ASSUME NEW n \in TypeMemoire, NEW rep, NEW A, Espace(n, rep, A),
         NEW f \in TablesDe(n, rep), NEW j \in 0..NPTE-1, NEW e \in EntreesVers(A),
         NEW r, r = Ecriture(n, f, j, e)
  PROVE  /\ r \in TypeMemoire /\ Espace(r, rep, A) /\ Possede(r, rep) = Possede(n, rep)
         /\ r.tas = n.tas
         /\ r.mot = n.mot /\ r.fusions = n.fusions /\ DOMAIN r.cadres = DOMAIN n.cadres
         /\ \A x \in DOMAIN n.cadres : x \notin Possede(n, rep) => r.cadres[x] = n.cadres[x]
<1>1. EstTable(n, f, A) /\ f # rep /\ rep \in DOMAIN n.cadres /\ f \in Possede(n, rep)
  BY TableProp
<1>0. e \in TypeEntree
  BY DEF EntreesVers
<1>2. f \in DOMAIN n.cadres /\ n.cadres[f] \in Tables /\ DOMAIN n.cadres[f] = 0..NPTE-1
  BY <1>1 DEF EstTable, Tables
<1>3. /\ r \in TypeMemoire /\ r.tas = n.tas /\ r.mot = n.mot /\ r.fusions = n.fusions
      /\ DOMAIN r.cadres = DOMAIN n.cadres
      /\ r.cadres[f] \in Tables /\ r.cadres[f][j] = e
      /\ \A k \in 0..NPTE-1 : k # j => r.cadres[f][k] = n.cadres[f][k]
      /\ \A y \in DOMAIN n.cadres : y # f => r.cadres[y] = n.cadres[y]
  BY <1>0, <1>2, EcrireTable
<1>4. EstTable(r, f, A)
  <2>1. ASSUME NEW k \in 0..NPTE-1, r.cadres[f][k].p PROVE r.cadres[f][k].adr \in A
    <3>1. CASE k = j
      <4>1. r.cadres[f][k] = e
        BY <1>3, <3>1
      <4>2. QED
        BY <2>1, <4>1 DEF EntreesVers
    <3>2. CASE k # j
      <4>1. r.cadres[f][k] = n.cadres[f][k]
        BY <1>3, <3>2
      <4>2. QED
        BY <1>1, <2>1, <4>1 DEF EstTable
    <3>3. QED
      BY <3>1, <3>2
  <2>2. QED
    BY <1>1, <1>3, <2>1 DEF EstTable
<1>5. ASSUME NEW g, EstTable(n, g, A) PROVE EstTable(r, g, A)
  <2>1. CASE g = f
    BY <1>4, <2>1
  <2>2. CASE g # f
    BY <1>3, <1>5, <2>2 DEF EstTable
  <2>3. QED
    BY <2>1, <2>2
<1>6. r.cadres[rep] = n.cadres[rep]
  BY <1>1, <1>3
<1>7. Espace(r, rep, A)
  <2>1. \A i \in NNOYAU..NPDE-1 : n.cadres[rep][i].p => EstTable(r, n.cadres[rep][i].adr, A)
    BY <1>5 DEF Espace
  <2>2. /\ rep \in TAS /\ rep \in DOMAIN r.cadres /\ r.cadres[rep] \in Repertoires
        /\ \A i \in 0..NNOYAU-1 : r.cadres[rep][i] = EntreeNoyau(i)
    <3>1. /\ rep \in TAS /\ rep \in DOMAIN n.cadres /\ n.cadres[rep] \in Repertoires
          /\ \A i \in 0..NNOYAU-1 : n.cadres[rep][i] = EntreeNoyau(i)
      BY Zenon DEF Espace
    <3>2. QED
      BY <1>3, <1>6, <3>1
  <2>3. ASSUME NEW i \in NNOYAU..NPDE-1, r.cadres[rep][i].p
        PROVE  /\ i < NPDE - NNOYAU /\ r.cadres[rep][i].adr # rep
               /\ EstTable(r, r.cadres[rep][i].adr, A)
    BY <1>6, <2>1, <2>3 DEF Espace
  <2>4. QED
    BY <2>2, <2>3 DEF Espace
<1>8. Possede(r, rep) = Possede(n, rep)
  BY <1>6 DEF Possede, TablesDe
<1>9. QED
  BY <1>1, <1>3, <1>7, <1>8

(* An entry of the directory of the process is written: it points to the   *)
(* table it pointed to, or to a new one.                                   *)
LEMMA EntreeDirectoire ==
  ASSUME NEW n \in TypeMemoire, NEW rep, NEW A, Espace(n, rep, A),
         NEW d \in NNOYAU..NPDE-NNOYAU-1, NEW e \in TypeEntree, e.p,
         n.cadres[rep][d].p => n.cadres[rep][d].adr = e.adr,
         e.adr # rep, EstTable(n, e.adr, A),
         NEW r, r = Ecriture(n, rep, d, e)
  PROVE  /\ r \in TypeMemoire /\ Espace(r, rep, A) /\ Possede(r, rep) = Possede(n, rep) \cup {e.adr}
         /\ r.tas = n.tas /\ r.mot = n.mot /\ r.fusions = n.fusions
         /\ DOMAIN r.cadres = DOMAIN n.cadres /\ r.cadres[rep][d] = e
         /\ \A x \in DOMAIN n.cadres : x # rep => r.cadres[x] = n.cadres[x]
<1>1. /\ rep \in TAS /\ rep \in DOMAIN n.cadres /\ n.cadres[rep] \in Repertoires /\ DOMAIN n.cadres[rep] = 0..NPDE-1
      /\ NPDE \in Nat /\ NNOYAU \in Nat \ {0} /\ d \in 0..NPDE-1
  <2>1. NPDE \in Nat /\ NNOYAU \in Nat \ {0}
    BY TaillesProp, CadresAssumption
  <2>2. QED
    BY <2>1 DEF Espace, Repertoires
<1>2. /\ r \in TypeMemoire /\ r.tas = n.tas /\ r.mot = n.mot /\ r.fusions = n.fusions
      /\ DOMAIN r.cadres = DOMAIN n.cadres
      /\ r.cadres[rep] \in Repertoires /\ r.cadres[rep][d] = e
      /\ \A k \in 0..NPDE-1 : k # d => r.cadres[rep][k] = n.cadres[rep][k]
      /\ \A y \in DOMAIN n.cadres : y # rep => r.cadres[y] = n.cadres[y]
  BY <1>1, EcrireProp
<1>3. ASSUME NEW g, EstTable(n, g, A), g # rep PROVE EstTable(r, g, A)
  BY <1>2, <1>3 DEF EstTable
<1>4. \A i \in 0..NNOYAU-1 : r.cadres[rep][i] = EntreeNoyau(i)
  BY <1>1, <1>2 DEF Espace
<1>5. ASSUME NEW i \in NNOYAU..NPDE-1, r.cadres[rep][i].p
      PROVE  i < NPDE - NNOYAU /\ r.cadres[rep][i].adr # rep /\ EstTable(r, r.cadres[rep][i].adr, A)
  <2>1. CASE i = d
    <3>1. r.cadres[rep][i] = e /\ i < NPDE - NNOYAU
      BY <1>1, <1>2, <2>1
    <3>2. EstTable(r, e.adr, A)
      BY <1>3
    <3>3. QED
      BY <3>1, <3>2
  <2>2. CASE i # d
    <3>1. r.cadres[rep][i] = n.cadres[rep][i]
      BY <1>1, <1>2, <2>2
    <3>2. i < NPDE - NNOYAU /\ n.cadres[rep][i].adr # rep /\ EstTable(n, n.cadres[rep][i].adr, A)
      BY <1>5, <3>1 DEF Espace
    <3>3. EstTable(r, n.cadres[rep][i].adr, A)
      BY <1>3, <3>2
    <3>4. QED
      BY <3>1, <3>2, <3>3
  <2>3. QED
    BY <2>1, <2>2
<1>6. Espace(r, rep, A)
  BY <1>1, <1>2, <1>4, <1>5 DEF Espace
<1>7. TablesDe(r, rep) = TablesDe(n, rep) \cup {e.adr}
  <2> DEFINE J(m) == {j \in NNOYAU..NPDE-1 : m.cadres[rep][j].p}
  <2>1. d \in NNOYAU..NPDE-1 /\ d \in J(r) /\ r.cadres[rep][d].adr = e.adr
    BY <1>1, <1>2
  <2>2. ASSUME NEW j \in NNOYAU..NPDE-1, j # d PROVE r.cadres[rep][j] = n.cadres[rep][j]
    BY <1>1, <1>2, <2>2
  <2>3. ASSUME NEW y \in TablesDe(r, rep) PROVE y \in TablesDe(n, rep) \cup {e.adr}
    <3>1. PICK j \in J(r) : y = r.cadres[rep][j].adr
      BY <2>3 DEF TablesDe
    <3>2. CASE j = d
      BY <2>1, <3>1, <3>2
    <3>3. CASE j # d
      <4>1. j \in J(n) /\ y = n.cadres[rep][j].adr
        BY <2>2, <3>1, <3>3
      <4>2. QED
        BY <4>1 DEF TablesDe
    <3>4. QED
      BY <3>2, <3>3
  <2>4. ASSUME NEW y \in TablesDe(n, rep) PROVE y \in TablesDe(r, rep)
    <3>1. PICK j \in J(n) : y = n.cadres[rep][j].adr
      BY <2>4 DEF TablesDe
    <3>2. j \in J(r) /\ y = r.cadres[rep][j].adr
      <4>1. CASE j = d
        BY <2>1, <3>1, <4>1
      <4>2. CASE j # d
        BY <2>2, <3>1, <4>2
      <4>3. QED
        BY <4>1, <4>2
    <3>3. QED
      BY <3>2 DEF TablesDe
  <2>5. e.adr \in TablesDe(r, rep)
    BY <2>1 DEF TablesDe
  <2>6. QED
    BY <2>3, <2>4, <2>5
<1>8. Possede(r, rep) = Possede(n, rep) \cup {e.adr}
  BY <1>7 DEF Possede
<1>9. QED
  BY <1>2, <1>6, <1>8

(* The rights of an entry of the directory are widened, one after the      *)
(* other; then an entry of the table is written.                           *)
Droits(n, rep, d) ==
  [n EXCEPT !.cadres[rep][d].r = @ \/ "READ" = "WRITE", !.cadres[rep][d].u = TRUE]

Inscrite(e, rep, d, j, reel) ==
  [e EXCEPT !.cadres[e.cadres[rep][d].adr][j] =
     [p |-> TRUE, r |-> "READ" = "WRITE", u |-> TRUE, adr |-> reel]]

LEMMA DroitsEcrits ==
  ASSUME NEW n \in TypeMemoire, NEW rep \in DOMAIN n.cadres,
         NEW d \in DOMAIN n.cadres[rep], n.cadres[rep][d] \in TypeEntree,
         NEW e, e = Droits(n, rep, d)
  PROVE  \E x \in TypeEntree : /\ x.p = n.cadres[rep][d].p /\ x.adr = n.cadres[rep][d].adr
                               /\ e = Ecriture(n, rep, d, x)
<1>0. PICK b \in BOOLEAN : b = ("READ" = "WRITE")
  OBVIOUS
<1>1. PICK y \in TypeEntree : y = n.cadres[rep][d]
  OBVIOUS
<1>2. PICK x : x = [y EXCEPT !.r = @ \/ b, !.u = TRUE]
  OBVIOUS
<1>3. x = [p |-> y.p, r |-> y.r \/ b, u |-> TRUE, adr |-> y.adr]
  BY <1>2 DEF TypeEntree
<1>4. y.p \in BOOLEAN /\ (y.r \/ b) \in BOOLEAN /\ y.adr \in Nat
  BY DEF TypeEntree
<1>5. x \in TypeEntree /\ x.p = y.p /\ x.adr = y.adr
  BY <1>3, <1>4 DEF TypeEntree
<1>6. PICK t : t = [n.cadres[rep] EXCEPT ![d] = x]
  OBVIOUS
<1>7. t = [n.cadres[rep] EXCEPT ![d].r = @ \/ b, ![d].u = TRUE]
  BY <1>1, <1>2, <1>6
<1>8. PICK c : c = [n.cadres EXCEPT ![rep] = t]
  OBVIOUS
<1>9. c = [n.cadres EXCEPT ![rep][d].r = @ \/ b, ![rep][d].u = TRUE]
  BY <1>7, <1>8
<1>10. e = [n EXCEPT !.cadres = c]
  BY <1>0, <1>9 DEF Droits
<1>11. Ecriture(n, rep, d, x) = [n EXCEPT !.cadres = c]
  BY <1>6, <1>8 DEF Ecriture
<1>12. QED
  BY <1>1, <1>5, <1>10, <1>11

(* Two lots of frames taken one after the other.                           *)
LEMMA AccruSuite ==
  ASSUME NEW m, NEW n, NEW r, NEW V, NEW F, Accru(m, n, V, F), Accru(n, r, V \cup F, {}),
         DOMAIN m.cadres \cap m.tas = {}
  PROVE  Accru(m, r, V, F)
<1>1. \A x \in DOMAIN m.cadres : x \notin V => x \notin F /\ x \in DOMAIN n.cadres /\ n.cadres[x] = m.cadres[x]
  BY DEF Accru
<1>2. \A x \in DOMAIN n.cadres : x \notin V /\ x \notin F => r.cadres[x] = n.cadres[x]
  BY DEF Accru
<1>3. \A x \in DOMAIN m.cadres : x \notin V => r.cadres[x] = m.cadres[x]
  BY <1>1, <1>2
<1>4. QED
  BY <1>3 DEF Accru

(* The process of directory rep takes the frames F.                        *)
Etendu(m, r, rep, A, F) ==
  /\ Accru(m, r, Possede(m, rep), F) /\ Espace(r, rep, A)
  /\ Possede(r, rep) = Possede(m, rep) \cup F

Occupees(n, rep) == {j \in NNOYAU..NPDE-1 : n.cadres[rep][j].p}

(* A page is mapped through a table that is there.                         *)
LEMMA AvecTable ==
  ASSUME NEW n \in TypeMemoire, NEW rep, NEW A, A \subseteq Nat, Espace(n, rep, A),
         NEW d \in NNOYAU..NPDE-NNOYAU-1, d \in Occupees(n, rep),
         NEW reel \in A, NEW j \in 0..NPTE-1,
         NEW e, e = Droits(n, rep, d), NEW r, r = Inscrite(e, rep, d, j, reel)
  PROVE  Etendu(n, r, rep, A, {})
<1>1. /\ rep \in DOMAIN n.cadres /\ n.cadres[rep] \in Repertoires
      /\ NPDE \in Nat /\ NNOYAU \in Nat \ {0} /\ d \in 0..NPDE-1
  <2>1. NPDE \in Nat /\ NNOYAU \in Nat \ {0}
    BY TaillesProp, CadresAssumption
  <2>2. QED
    BY <2>1 DEF Espace
<1>2. d \in DOMAIN n.cadres[rep] /\ n.cadres[rep][d] \in TypeEntree
  BY <1>1 DEF Repertoires
<1>3. PICK x \in TypeEntree : /\ x.p = n.cadres[rep][d].p /\ x.adr = n.cadres[rep][d].adr
                              /\ e = Ecriture(n, rep, d, x)
  BY <1>1, <1>2, DroitsEcrits
<1>4. PICK f : f = n.cadres[rep][d].adr
  OBVIOUS
<1>5. f \in TablesDe(n, rep)
  BY <1>4 DEF Occupees, TablesDe
<1>6. EstTable(n, f, A) /\ f # rep /\ f \in Possede(n, rep) /\ rep \in Possede(n, rep)
  BY <1>5, TableProp DEF Possede
<1>7. x.p /\ x.adr = f
  BY <1>3, <1>4 DEF Occupees
<1>8. /\ e \in TypeMemoire /\ Espace(e, rep, A) /\ Possede(e, rep) = Possede(n, rep) \cup {f}
      /\ e.tas = n.tas
      /\ e.mot = n.mot /\ e.fusions = n.fusions /\ DOMAIN e.cadres = DOMAIN n.cadres
      /\ e.cadres[rep][d] = x
      /\ \A y \in DOMAIN n.cadres : y # rep => e.cadres[y] = n.cadres[y]
  BY <1>3, <1>4, <1>6, <1>7, EntreeDirectoire
<1>9. Possede(e, rep) = Possede(n, rep)
  BY <1>6, <1>8
<1>10. PICK v : v = [p |-> TRUE, r |-> "READ" = "WRITE", u |-> TRUE, adr |-> reel]
  OBVIOUS
<1>11. v \in EntreesVers(A)
  <2>1. ("READ" = "WRITE") \in BOOLEAN /\ reel \in Nat
    OBVIOUS
  <2>2. QED
    BY <1>10, <2>1 DEF EntreesVers, TypeEntree
<1>12. r = Ecriture(e, f, j, v)
  BY <1>7, <1>8, <1>10 DEF Ecriture, Inscrite
<1>13. f \in TablesDe(e, rep)
  <2>1. d \in NNOYAU..NPDE-1 /\ e.cadres[rep][d].p /\ e.cadres[rep][d].adr = f
    BY <1>1, <1>7, <1>8
  <2>2. QED
    BY <2>1 DEF TablesDe
<1>14. /\ r \in TypeMemoire /\ Espace(r, rep, A) /\ Possede(r, rep) = Possede(e, rep)
       /\ r.tas = e.tas
       /\ r.mot = e.mot /\ r.fusions = e.fusions /\ DOMAIN r.cadres = DOMAIN e.cadres
       /\ \A y \in DOMAIN e.cadres : y \notin Possede(e, rep) => r.cadres[y] = e.cadres[y]
  BY <1>8, <1>11, <1>12, <1>13, EntreeTable
<1>15. \A y \in DOMAIN n.cadres : y \notin Possede(n, rep) => r.cadres[y] = n.cadres[y]
  BY <1>6, <1>8, <1>9, <1>14
<1>16. Accru(n, r, Possede(n, rep), {})
  BY <1>8, <1>14, <1>15 DEF Accru
<1>17. QED
  BY <1>9, <1>14, <1>16 DEF Etendu

(* A table is taken from the heap for entry d.                             *)
LEMMA NouvelleTable ==
  ASSUME NEW m \in TypeMemoire, DOMAIN m.cadres \cap m.tas = {}, m.tas # {},
         NEW rep, NEW A, Espace(m, rep, A),
         NEW d \in NNOYAU..NPDE-NNOYAU-1, d \notin Occupees(m, rep),
         NEW n, n = create_page_table(m, rep, d)
  PROVE  Etendu(m, n, rep, A, {Min(m.tas)}) /\ d \in Occupees(n, rep)
<1>0. NPDE \in Nat /\ NNOYAU \in Nat \ {0} /\ d \in 0..NPDE-1 /\ d \in NNOYAU..NPDE-1
  BY TaillesProp, CadresAssumption
<1>1. PICK f : f = Min(m.tas)
  OBVIOUS
<1>2. PICK x : x = [j \in 0..NPTE-1 |-> VIDE]
  OBVIOUS
<1>3. x \in Tables /\ \A j \in 0..NPTE-1 : x[j] = VIDE
  BY <1>2, VideType DEF Tables
<1>4. PICK a : a = Allouer(m, x)
  OBVIOUS
<1>5. /\ a \in TypeMemoire /\ f \in m.tas /\ a.tas = m.tas \ {f}
      /\ a.mot = m.mot /\ a.fusions = m.fusions
      /\ DOMAIN a.cadres = DOMAIN m.cadres \cup {f} /\ a.cadres[f] = x
      /\ \A y \in DOMAIN m.cadres : y # f => a.cadres[y] = m.cadres[y]
  BY <1>1, <1>3, <1>4, AllouerProp
<1>6. f \in TAS /\ f \in Nat /\ f \notin DOMAIN m.cadres
  BY <1>5, TypeMemoireProp
<1>7. /\ Possede(m, rep) \subseteq DOMAIN m.cadres /\ rep \in Possede(m, rep)
      /\ rep \in DOMAIN m.cadres /\ m.cadres[rep] \in Repertoires
  BY PossedeProp DEF Possede, Espace
<1>8. Espace(a, rep, A) /\ Possede(a, rep) = Possede(m, rep)
  BY <1>5, <1>6, <1>7, EspaceIntact
<1>9. EstTable(a, f, A) /\ f # rep
  BY <1>3, <1>5, <1>6, <1>7, VideType DEF EstTable
<1>10. a.cadres[rep] = m.cadres[rep]
  BY <1>5, <1>6, <1>7
<1>11. PICK e : e = [p |-> TRUE, r |-> FALSE, u |-> TRUE, adr |-> f]
  OBVIOUS
<1>12. e \in TypeEntree /\ e.p /\ e.adr = f
  BY <1>6, <1>11 DEF TypeEntree
<1>13. ~a.cadres[rep][d].p
  BY <1>0, <1>10 DEF Occupees
<1>14. n = Ecriture(a, rep, d, e)
  BY <1>1, <1>2, <1>4, <1>11 DEF create_page_table, Ecriture
<1>15. /\ n \in TypeMemoire /\ Espace(n, rep, A) /\ Possede(n, rep) = Possede(a, rep) \cup {f}
       /\ n.tas = a.tas
       /\ n.mot = a.mot /\ n.fusions = a.fusions /\ DOMAIN n.cadres = DOMAIN a.cadres
       /\ n.cadres[rep][d] = e
       /\ \A y \in DOMAIN a.cadres : y # rep => n.cadres[y] = a.cadres[y]
  BY <1>5, <1>8, <1>9, <1>12, <1>13, <1>14, EntreeDirectoire
<1>16. d \in Occupees(n, rep)
  BY <1>0, <1>12, <1>15 DEF Occupees
<1>17. Accru(m, n, Possede(m, rep), {f})
  BY <1>5, <1>6, <1>7, <1>15 DEF Accru
<1>18. QED
  BY <1>1, <1>8, <1>15, <1>16, <1>17 DEF Etendu

(* put_address_reel maps a page; it may take a frame for a table, or none  *)
(* may be left and then nothing changes.                                   *)
LEMMA Projection ==
  ASSUME NEW m \in TypeMemoire, DOMAIN m.cadres \cap m.tas = {},
         NEW rep, NEW A, A \subseteq Nat, Espace(m, rep, A), NEW reel \in A,
         NEW virt \in Nat, IndexRepertoire(virt) \in NNOYAU..NPDE-NNOYAU-1,
         NEW r, r = put_address_reel(m, reel, virt, "READ", rep)
  PROVE  \E F : Etendu(m, r, rep, A, F) /\ F \subseteq {Min(m.tas)}
<1>1. PICK d : d = IndexRepertoire(virt)
  OBVIOUS
<1>2. d \in NNOYAU..NPDE-NNOYAU-1 /\ IndexTable(virt) \in 0..NPTE-1
  BY <1>1, IndexProp
<1>3. NPDE \in Nat /\ NNOYAU \in Nat \ {0} /\ d \in NNOYAU..NPDE-1
  BY <1>2, TaillesProp, CadresAssumption
<1>4. CASE d \in Occupees(m, rep)
  <2>1. m.cadres[rep][d].p
    BY <1>4 DEF Occupees
  <2>2. r = Inscrite(Droits(m, rep, d), rep, d, IndexTable(virt), reel)
    BY <1>1, <2>1 DEF put_address_reel, Inscrite, Droits
  <2>3. Etendu(m, r, rep, A, {})
    BY <1>2, <1>4, <2>2, AvecTable
  <2>4. QED
    BY <2>3
<1>5. CASE d \notin Occupees(m, rep) /\ m.tas = {}
  <2>1. ~m.cadres[rep][d].p
    BY <1>3, <1>5 DEF Occupees
  <2>2. r = m
    BY <1>1, <1>5, <2>1 DEF put_address_reel
  <2>3. Etendu(m, r, rep, A, {})
    BY <2>2 DEF Accru, Etendu
  <2>4. QED
    BY <2>3
<1>6. CASE d \notin Occupees(m, rep) /\ m.tas # {}
  <2>1. ~m.cadres[rep][d].p
    BY <1>3, <1>6 DEF Occupees
  <2>2. PICK n : n = create_page_table(m, rep, d)
    OBVIOUS
  <2>3. r = Inscrite(Droits(n, rep, d), rep, d, IndexTable(virt), reel)
    BY <1>1, <1>6, <2>1, <2>2 DEF put_address_reel, Inscrite, Droits
  <2>4. PICK F : F = {Min(m.tas)}
    OBVIOUS
  <2>5. Etendu(m, n, rep, A, F) /\ d \in Occupees(n, rep)
    BY <1>2, <1>6, <2>2, <2>4, NouvelleTable
  <2>6. n \in TypeMemoire /\ Espace(n, rep, A)
    BY <2>5 DEF Accru, Etendu
  <2>7. Etendu(n, r, rep, A, {})
    BY <1>2, <2>3, <2>5, <2>6, AvecTable
  <2>8. Accru(m, r, Possede(m, rep), F)
    BY <2>5, <2>7, AccruSuite DEF Etendu
  <2>9. Etendu(m, r, rep, A, F)
    BY <2>5, <2>7, <2>8 DEF Etendu
  <2>10. QED
    BY <2>4, <2>9
<1>7. QED
  BY <1>4, <1>5, <1>6

-----------------------------------------------------------------------------
(* Page k of a set of frames, in their order.                              *)
LEMMA Rang ==
  ASSUME NEW S \in SUBSET Nat, IsFiniteSet(S), NEW k \in Nat, k < Cardinality(S)
  PROVE  (CHOOSE a \in S : Cardinality({b \in S : b < a}) = k) \in S
<1>1. k \in 0..Cardinality(S) /\ Cardinality(S) \in Nat
  BY FS_CardinalityType
<1>2. PICK T : EstBasse(T, S, k)
  BY <1>1, BassesExiste
<1>3. T \subseteq S /\ Cardinality(T) = k /\ \A a \in T, b \in S \ T : a < b
  BY <1>2 DEF EstBasse, kSubset
<1>4. S \ T # {}
  <2>1. SUFFICES ASSUME S \ T = {} PROVE FALSE
    OBVIOUS
  <2>2. S = T
    BY <1>3, <2>1
  <2>3. QED
    BY <1>1, <1>3, <2>2
<1>5. PICK a \in S \ T : \A y \in S \ T : a <= y
  BY <1>4, PlusPetit
<1>6. {b \in S : b < a} = T
  <2>1. ASSUME NEW b \in S, b < a PROVE b \in T
    <3>1. SUFFICES ASSUME b \notin T PROVE FALSE
      OBVIOUS
    <3>2. a <= b
      BY <1>5, <3>1
    <3>3. a \in Nat /\ b \in Nat
      BY <1>5
    <3>4. QED
      BY <2>1, <3>2, <3>3
  <2>2. ASSUME NEW b \in T PROVE b \in S /\ b < a
    BY <1>3, <1>5
  <2>3. QED
    BY <2>1, <2>2
<1>7. a \in S /\ Cardinality({b \in S : b < a}) = k
  BY <1>3, <1>5, <1>6
<1>8. QED
  BY <1>7

LEMMA FicheType ==
  ASSUME NEW s, Partage(s), NEW pid, Fiches(s, pid) # {}
  PROVE  /\ Fiche(s, pid).adresses \subseteq Pool /\ Fiche(s, pid).adresses \subseteq Nat
         /\ IsFiniteSet(Fiche(s, pid).adresses)
         /\ get_nb_pages(s, pid) = Cardinality(Fiche(s, pid).adresses)
         /\ get_nb_pages(s, pid) \in Nat /\ get_nb_pages(s, pid) <= NBPAGES
<1>1. s.allouees \in Seq(Possibles)
  BY DEF Partage
<1>2. PICK i : i = Min(Fiches(s, pid))
  OBVIOUS
<1>3. i \in 1..Len(s.allouees)
  BY <1>1, <1>2, FicheProp
<1>4. s.allouees[i] \in Possibles
  BY <1>1, <1>3, ElementOfSeq
<1>5. PICK S : S = Fiche(s, pid).adresses
  OBVIOUS
<1>6. S \subseteq Pool
  BY <1>2, <1>4, <1>5 DEF Fiche, Possibles
<1>7. S \subseteq Nat /\ IsFiniteSet(S)
  BY <1>6, PoolProp, FS_Subset
<1>8. Cardinality(S) \in Nat /\ Cardinality(S) <= NBPAGES
  <2>1. Cardinality(S) <= Cardinality(Pool)
    BY <1>6, PoolProp, FS_Subset
  <2>2. QED
    BY <1>7, <2>1, PoolProp, FS_CardinalityType
<1>9. get_nb_pages(s, pid) = Cardinality(S)
  BY <1>5 DEF get_nb_pages
<1>10. QED
  BY <1>5, <1>6, <1>7, <1>8, <1>9

(* start maps the pages of the record found, one after the other.          *)
LEMMA CartographierProp ==
  ASSUME NEW s, Partage(s), NEW pid \in PID, Fiches(s, pid) # {},
         NEW reps, reps[pid] # 0, NEW A, A[pid] = Fiche(s, pid).adresses,
         NEW m, MemoireSaine(m, reps, A)
  PROVE  MemoireSaine(Cartographier(s, m, pid, reps[pid]), reps, A)
<1>1. PICK N \in Nat : N = get_nb_pages(s, pid)
  BY FicheType
<1>2. PICK rep : rep = reps[pid]
  OBVIOUS
<1> DEFINE Sains == {x \in TypeMemoire : MemoireSaine(x, reps, A)}
           Suivante(n, x) == put_address_reel(x, get_adr(s, pid, n-1).adresse_phy,
                                              get_adr(s, pid, n-1).adresse_virt, "READ", rep)
           Egal(f) == f = [n \in 0..get_nb_pages(s, pid) |-> IF n = 0 THEN m ELSE Suivante(n, f[n-1])]
<1>3. m \in Sains
  BY DEF MemoireSaine
<1>4. ASSUME NEW n \in 1..N, NEW x \in Sains PROVE Suivante(n, x) \in Sains
  <2>1. PICK S : S = Fiche(s, pid).adresses
    OBVIOUS
  <2>2. S \in SUBSET Nat /\ IsFiniteSet(S) /\ Cardinality(S) = N /\ N <= NBPAGES /\ A[pid] = S
    BY <1>1, <2>1, FicheType
  <2>3. PICK reel : reel = get_adr(s, pid, n-1).adresse_phy
    OBVIOUS
  <2>4. PICK virt : virt = get_adr(s, pid, n-1).adresse_virt
    OBVIOUS
  <2>5. n-1 \in Nat /\ n-1 < N
    BY <1>1
  <2>6. reel \in S
    <3>1. PICK k : k = n-1
      OBVIOUS
    <3>2. reel = CHOOSE a \in S : Cardinality({b \in S : b < a}) = k
      BY <2>1, <2>3, <3>1 DEF get_adr
    <3>3. k \in Nat /\ k < Cardinality(S)
      BY <2>2, <2>5, <3>1
    <3>4. QED
      BY <2>2, <3>2, <3>3, Rang
  <2>7. virt \in Nat /\ IndexRepertoire(virt) \in NNOYAU..NPDE-NNOYAU-1
    <3>1. PICK k : k = n-1
      OBVIOUS
    <3>2. k \in 0..NBPAGES-1
      BY <2>2, <2>5, <3>1, PoolProp
    <3>3. virt = K_BASE_VIRT_ADR + k * TAILLE_PAGE
      BY <2>4, <3>1 DEF get_adr
    <3>4. QED
      BY <3>2, <3>3, IndexPage
  <2>8. x \in TypeMemoire /\ MemoireSaine(x, reps, A) /\ DOMAIN x.cadres \cap x.tas = {}
    BY DEF MemoireSaine
  <2>9. Espace(x, rep, S)
    BY <1>2, <2>2, <2>8 DEF MemoireSaine, Pourvus
  <2>10. PICK r : r = put_address_reel(x, reel, virt, "READ", rep)
    OBVIOUS
  <2>11. PICK F : Etendu(x, r, rep, S, F)
    BY <2>2, <2>6, <2>7, <2>8, <2>9, <2>10, Projection
  <2>12. /\ Accru(x, r, Biens(x, reps[pid]), F) /\ Espace(r, reps[pid], A[pid])
         /\ Possede(r, reps[pid]) = Biens(x, reps[pid]) \cup F
    BY <1>2, <2>2, <2>11 DEF Etendu, Biens
  <2>13. Pareils(reps, reps, pid) /\ Pareils(A, A, pid)
    BY DEF Pareils
  <2>14. MemoireSaine(r, reps, A)
    BY <2>8, <2>12, <2>13, Croissance
  <2>15. r \in TypeMemoire
    BY <2>14 DEF MemoireSaine
  <2>16. QED
    BY <2>3, <2>4, <2>10, <2>14, <2>15
<1> HIDE DEF Sains, Suivante
<1>5. \E f : Egal(f)
  <2>1. PICK F : F = [n \in 1..N |-> [x \in Sains |-> Suivante(n, x)]]
    OBVIOUS
  <2>2. F \in [1..N -> [Sains -> Sains]]
    BY <1>4, <2>1
  <2>3. PICK f \in [0..N -> Sains] : EstSuite(f, N, m, F)
    BY <1>3, <2>2, SuiteRecursive
  <2>4. ASSUME NEW n \in 1..N PROVE f[n] = Suivante(n, f[n-1])
    <3>1. n-1 \in 0..N /\ f[n-1] \in Sains
      OBVIOUS
    <3>2. QED
      BY <2>1, <2>3, <3>1 DEF EstSuite
  <2>5. \A n \in 0..N : f[n] = IF n = 0 THEN m ELSE Suivante(n, f[n-1])
    BY <2>3, <2>4 DEF EstSuite
  <2>6. QED
    BY <1>1, <2>5
<1>6. PICK f : Egal(f) /\ Cartographier(s, m, pid, rep) = f[get_nb_pages(s, pid)]
  BY <1>5 DEF Cartographier, Suivante
<1>7. f[0] = m /\ \A n \in 1..N : f[n] = Suivante(n, f[n-1])
  BY <1>1, <1>6
<1> HIDE DEF Egal
<1>8. N \in {n \in 0..N : f[n] \in Sains}
  <2> DEFINE T == {n \in 0..N : f[n] \in Sains}
  <2>1. 0 \in T
    BY <1>3, <1>7
  <2>2. ASSUME NEW n \in 1..N, n-1 \in T PROVE n \in T
    BY <1>4, <1>7, <2>2
  <2> HIDE DEF T
  <2>3. 0..N \subseteq T
    BY <2>1, <2>2, RecurrenceEntiers
  <2>4. N \in T
    BY <2>3
  <2>5. QED
    BY <2>4 DEF T
<1>9. f[N] \in Sains
  BY <1>8
<1>10. QED
  BY <1>1, <1>2, <1>6, <1>9 DEF Sains

(* free of a table of the kernel.  Before the first one is a null entry of *)
(* the directory; before each other one the entry of a page that is mapped *)
(* with R/W: the first one loses its entry 0, the others nothing.          *)
LEMMA RefusNoyau ==
  ASSUME NEW m, NEW reps, NEW A, MemoireSaine(m, reps, A), NEW i \in 0..NNOYAU-1,
         NEW r, r = LibererEtranger(m, PGTAB + i)
  PROVE  /\ MemoireSaine(r, reps, A)
         /\ \A p \in Pourvus(reps) : Possede(r, reps[p]) = Possede(m, reps[p])
<1>1. /\ m \in TypeMemoire /\ DOMAIN m.cadres \cap m.tas = {}
      /\ \A f \in Noyaux : f \in DOMAIN m.cadres /\ Conforme(f, m.cadres[f])
      /\ ~m.mot.p /\ m.fusions = {}
      /\ \A q \in Pourvus(reps) : Espace(m, reps[q], A[q])
      /\ \A q, s \in Pourvus(reps) : q # s => Possede(m, reps[q]) \cap Possede(m, reps[s]) = {}
      /\ \A f \in DOMAIN m.cadres : f \in TAS => \E q \in Pourvus(reps) : f \in Possede(m, reps[q])
  BY DEF MemoireSaine
<1>2. /\ NPTE \in Nat /\ NPTE >= 2 /\ NPDE \in Nat /\ NNOYAU \in Nat \ {0} /\ NNOYAU <= NPDE - 1
      /\ PGTAB \in Nat /\ PGDIR \in Nat /\ PGTAB = PGDIR + 1
  <2>1. PICK q \in Nat \ {0} : NPDE = 4 * q /\ NPDE \div 4 = q
    BY TaillesProp
  <2>2. QED
    BY <2>1, TaillesProp, CadresAssumption
<1>3. \A q \in Pourvus(reps) : PGTAB \notin Possede(m, reps[q])
  <2>1. PGTAB \in Noyaux
    <3>1. 0 \in 0..NNOYAU-1 /\ PGTAB + 0 = PGTAB
      BY <1>2
    <3>2. QED
      BY <3>1 DEF Noyaux
  <2>2. PGTAB \notin TAS
    BY <2>1, NoyauxProp
  <2>3. QED
    BY <1>1, <2>2, PossedeProp
<1>4. CASE i = 0
  <2>1. PGTAB + i = PGTAB /\ PGTAB \in Noyaux /\ PGDIR \in Noyaux /\ PGDIR # PGTAB
    BY <1>2, <1>4 DEF Noyaux
  <2>2. m.cadres[PGDIR] = early_mm_map_kernel[PGDIR]
    BY <1>1, <2>1 DEF Conforme
  <2>3. m.cadres[PGDIR][NPDE-1] = VIDE
    <3>1. m.cadres[PGDIR] = early_mm_fill_pgdir
      BY <2>2, CarteNoyau DEF Cartes
    <3>2. NPDE-1 \in 0..NPDE-1 /\ ~(NPDE-1 < NNOYAU)
      BY <1>2
    <3>3. QED
      BY <3>1, <3>2 DEF early_mm_fill_pgdir
  <2>4. EnTete(m, PGTAB).adr = 0
    BY <2>3 DEF EnTete, VIDE
  <2>5. PICK e : e = [VIDE EXCEPT !.adr = PGTAB - 1]
    OBVIOUS
  <2>6. e \in TypeEntree /\ ~e.p
    <3>1. PGTAB - 1 \in Nat
      BY <1>2
    <3>2. QED
      BY <2>5, <3>1 DEF VIDE, TypeEntree
  <2>7. r = [m EXCEPT !.cadres[PGTAB][0] = m.mot, !.mot = e]
    BY <2>1, <2>4, <2>5 DEF LibererEtranger
  <2>8. PICK n : n = Ecriture(m, PGTAB, 0, m.mot)
    OBVIOUS
  <2>9. m.cadres[PGTAB] \in Tables /\ PGTAB \in DOMAIN m.cadres /\ m.mot \in TypeEntree
        /\ 0 \in 0..NPTE-1
        /\ \A j \in 1..NPTE-1 : m.cadres[PGTAB][j] = early_mm_map_kernel[PGTAB][j]
    BY <1>1, <1>2, <2>1 DEF Conforme, TypeMemoire
  <2>10. /\ n \in TypeMemoire /\ n.tas = m.tas /\ n.fusions = m.fusions
         /\ DOMAIN n.cadres = DOMAIN m.cadres /\ n.cadres[PGTAB] \in Tables
         /\ n.cadres[PGTAB][0] = m.mot
         /\ \A k \in 0..NPTE-1 : k # 0 => n.cadres[PGTAB][k] = m.cadres[PGTAB][k]
         /\ \A y \in DOMAIN m.cadres : y # PGTAB => n.cadres[y] = m.cadres[y]
    BY <1>1, <2>8, <2>9, EcrireTable
  <2>11. r = [n EXCEPT !.mot = e]
    <3>1. m = [cadres |-> m.cadres, tas |-> m.tas, mot |-> m.mot, fusions |-> m.fusions]
      BY <1>1, TypeMemoireProp
    <3>2. PICK c : c = [m.cadres EXCEPT ![PGTAB][0] = m.mot]
      OBVIOUS
    <3>3. n = [cadres |-> c, tas |-> m.tas, mot |-> m.mot, fusions |-> m.fusions]
      BY <2>8, <3>1, <3>2 DEF Ecriture
    <3>4. r = [cadres |-> c, tas |-> m.tas, mot |-> e, fusions |-> m.fusions]
      BY <2>7, <3>1, <3>2
    <3>5. QED
      BY <3>3, <3>4
  <2>12. /\ r \in TypeMemoire /\ r.cadres = n.cadres /\ r.tas = n.tas /\ r.mot = e
         /\ r.fusions = n.fusions
    BY <2>6, <2>10, <2>11 DEF TypeMemoire
  <2>13. Conforme(PGTAB, r.cadres[PGTAB])
    <3>1. \A j \in 1..NPTE-1 : j \in 0..NPTE-1 /\ j # 0
      BY <1>2
    <3>2. QED
      BY <1>1, <2>9, <2>10, <2>12, <3>1 DEF Conforme
  <2>14. \A f \in Noyaux : f \in DOMAIN r.cadres /\ Conforme(f, r.cadres[f])
    <3>1. \A f \in Noyaux : f # PGTAB => r.cadres[f] = m.cadres[f]
      BY <1>1, <2>10, <2>12
    <3>2. QED
      BY <1>1, <2>10, <2>12, <2>13, <3>1
  <2>15. ASSUME NEW q \in Pourvus(reps)
         PROVE  Espace(r, reps[q], A[q]) /\ Possede(r, reps[q]) = Possede(m, reps[q])
    <3>1. Espace(m, reps[q], A[q])
      BY <1>1
    <3>2. \A x \in Possede(m, reps[q]) : x \in DOMAIN r.cadres /\ r.cadres[x] = m.cadres[x]
      BY <1>3, <2>10, <2>12, <3>1, PossedeProp
    <3>3. QED
      BY <3>1, <3>2, EspaceIntact
  <2>16. MemoireSaine(r, reps, A)
    BY <1>1, <2>6, <2>10, <2>12, <2>14, <2>15 DEF MemoireSaine
  <2>17. QED
    BY <2>15, <2>16
<1>5. CASE i # 0
  <2>1. PICK k : k = i - 1
    OBVIOUS
  <2>2. /\ k \in 0..NNOYAU-1 /\ i \in 1..NNOYAU-1 /\ PGTAB + i # PGTAB
        /\ (PGTAB + i) - 1 = PGTAB + k /\ NPTE-1 \in 0..NPTE-1 /\ NPTE-1 \in 1..NPTE-1
        /\ k * NPTE + (NPTE - 1) = i * NPTE - 1
    BY <1>2, <1>5, <2>1
  <2>3. m.cadres[PGTAB + k][NPTE-1] = early_mm_map_kernel[PGTAB + k][NPTE-1]
    <3>1. Conforme(PGTAB + k, m.cadres[PGTAB + k])
      BY <1>1, <2>2 DEF Noyaux
    <3>2. QED
      BY <2>2, <3>1 DEF Conforme
  <2>4. PICK v : v = i * NPTE - 1
    OBVIOUS
  <2>5. v # 0 /\ v \notin LectureSeule
    <3>1. i * NPTE >= NPTE
      BY <1>2, <2>2
    <3>2. v # 0
      BY <1>2, <2>2, <2>4, <3>1
    <3>3. QED
      BY <2>2, <2>4, <3>2, LectureSeuleAssumption
  <2>6. EnTete(m, PGTAB + i) = PageNoyau(v)
    BY <2>2, <2>3, <2>4, CarteNoyau DEF EnTete
  <2>7. PageNoyau(v).adr = v /\ PageNoyau(v).r
    BY <2>5 DEF PageNoyau
  <2>8. r = m
    BY <2>5, <2>6, <2>7 DEF LibererEtranger
  <2>9. QED
    BY <2>8
<1>6. QED
  BY <1>4, <1>5

(* free_page looks at entries 0 to NPDE-NNOYAU-1: the kernel's, whose      *)
(* tables free refuses one after the other, and all those that p may have. *)
LEMMA TablesDuNoyau ==
  ASSUME NEW m, NEW reps, NEW A, MemoireSaine(m, reps, A), NEW p \in PID, reps[p] # 0,
         NEW V, V = Possede(m, reps[p])
  PROVE  \E x : /\ free_page(m, reps[p]) = Liberer(x, V)
                /\ MemoireSaine(x, reps, A) /\ Possede(x, reps[p]) = V
<1> DEFINE d           == m.cadres[reps[p]]
           Sains       == {x \in TypeMemoire : MemoireSaine(x, reps, A) /\ Possede(x, reps[p]) = V}
           Suivante(n, x) == IF d[n-1].p THEN LibererEtranger(x, d[n-1].adr) ELSE x
           Egal(f)     == f = [n \in 0..NNOYAU |-> IF n = 0 THEN m ELSE Suivante(n, f[n-1])]
<1>1. NPDE \in Nat /\ NNOYAU \in Nat /\ 2 * NNOYAU <= NPDE
  <2>1. PICK q \in Nat \ {0} : NPDE = 4 * q /\ NPDE \div 4 = q
    BY TaillesProp
  <2>2. QED
    BY <2>1, CadresAssumption
<1>2. p \in Pourvus(reps) /\ m \in TypeMemoire /\ Espace(m, reps[p], A[p])
  BY DEF Pourvus, MemoireSaine
<1>3. m \in Sains
  BY <1>2
<1>4. ASSUME NEW n \in 1..NNOYAU, NEW x \in Sains
      PROVE  Suivante(n, x) \in Sains
  <2>1. PICK i : i = n - 1
    OBVIOUS
  <2>2. i \in 0..NNOYAU-1
    BY <1>1, <2>1
  <2>3. d[i] = EntreeNoyau(i)
    BY <1>2, <2>2, Zenon DEF Espace
  <2>4. d[i].p /\ d[i].adr = PGTAB + i
    BY <2>3 DEF EntreeNoyau
  <2>5. PICK r : r = LibererEtranger(x, PGTAB + i)
    OBVIOUS
  <2>6. Suivante(n, x) = r
    BY <2>1, <2>4, <2>5
  <2>7. MemoireSaine(r, reps, A) /\ Possede(r, reps[p]) = Possede(x, reps[p])
    BY <1>2, <2>2, <2>5, RefusNoyau
  <2>8. QED
    BY <2>6, <2>7 DEF MemoireSaine
<1>5. {reps[p]} \cup {d[i].adr : i \in {j \in NNOYAU..NPDE-1-NNOYAU : d[j].p}} = V
  <2>1. \A j \in NNOYAU..NPDE-1 : d[j].p <=> (j \in NNOYAU..NPDE-1-NNOYAU /\ d[j].p)
    BY <1>1, <1>2 DEF Espace
  <2>2. {j \in NNOYAU..NPDE-1-NNOYAU : d[j].p} = {j \in NNOYAU..NPDE-1 : d[j].p}
    BY <1>1, <2>1
  <2>3. QED
    BY <2>2 DEF Possede, TablesDe
<1> HIDE DEF Sains, Suivante
<1>6. \E f : Egal(f)
  <2>1. PICK F : F = [n \in 1..NNOYAU |-> [x \in Sains |-> Suivante(n, x)]]
    OBVIOUS
  <2>2. F \in [1..NNOYAU -> [Sains -> Sains]]
    BY <1>4, <2>1
  <2>3. PICK f \in [0..NNOYAU -> Sains] : EstSuite(f, NNOYAU, m, F)
    BY <1>1, <1>3, <2>2, SuiteRecursive
  <2>4. ASSUME NEW n \in 1..NNOYAU PROVE f[n] = Suivante(n, f[n-1])
    <3>1. n-1 \in 0..NNOYAU /\ f[n-1] \in Sains
      BY <1>1
    <3>2. QED
      BY <2>1, <2>3, <3>1 DEF EstSuite
  <2>5. \A n \in 0..NNOYAU : f[n] = IF n = 0 THEN m ELSE Suivante(n, f[n-1])
    BY <1>1, <2>3, <2>4 DEF EstSuite
  <2>6. QED
    BY <2>5
<1>7. PICK f : Egal(f) /\ free_page(m, reps[p]) = Liberer(f[NNOYAU], V)
  BY <1>5, <1>6 DEF free_page, Suivante
<1>8. f[0] = m /\ \A n \in 1..NNOYAU : f[n] = Suivante(n, f[n-1])
  BY <1>1, <1>7
<1> HIDE DEF Egal
<1>9. NNOYAU \in {n \in 0..NNOYAU : f[n] \in Sains}
  <2> DEFINE T == {n \in 0..NNOYAU : f[n] \in Sains}
  <2>1. 0 \in T
    BY <1>1, <1>3, <1>8
  <2>2. ASSUME NEW n \in 1..NNOYAU, n-1 \in T PROVE n \in T
    BY <1>1, <1>4, <1>8, <2>2
  <2> HIDE DEF T
  <2>3. 0..NNOYAU \subseteq T
    BY <1>1, <2>1, <2>2, RecurrenceEntiers
  <2>4. NNOYAU \in T
    BY <1>1, <2>3
  <2>5. QED
    BY <2>4 DEF T
<1>10. f[NNOYAU] \in Sains
  BY <1>9
<1>11. QED
  BY <1>7, <1>10 DEF Sains

(* So it gives back to the heap the directory of p and its tables.         *)
LEMMA RestitutionTables ==
  ASSUME NEW memoire0, NEW reps, NEW A, MemoireSaine(memoire0, reps, A),
         NEW p \in PID, reps[p] # 0,
         NEW autres, autres[p] = 0, Pareils(autres, reps, p), NEW B, Pareils(B, A, p)
  PROVE  MemoireSaine(free_page(memoire0, reps[p]), autres, B)
<1>2. PICK rep : rep = reps[p]
  OBVIOUS
<1>12. PICK V : V = Possede(memoire0, rep)
  OBVIOUS
<1>4. PICK m : /\ free_page(memoire0, rep) = Liberer(m, V)
               /\ MemoireSaine(m, reps, A) /\ Possede(m, rep) = V
  BY <1>2, <1>12, TablesDuNoyau
<1>1. /\ m \in TypeMemoire /\ DOMAIN m.cadres \cap m.tas = {}
      /\ \A f \in Noyaux : f \in DOMAIN m.cadres /\ Conforme(f, m.cadres[f])
      /\ ~m.mot.p /\ m.fusions = {}
      /\ \A q \in Pourvus(reps) : Espace(m, reps[q], A[q])
      /\ \A q, s \in Pourvus(reps) : q # s => Possede(m, reps[q]) \cap Possede(m, reps[s]) = {}
      /\ \A f \in DOMAIN m.cadres : f \in TAS => \E q \in Pourvus(reps) : f \in Possede(m, reps[q])
  BY <1>4 DEF MemoireSaine
<1>3. p \in Pourvus(reps) /\ Espace(m, rep, A[p])
  BY <1>1, <1>2 DEF Pourvus
<1>8. V \subseteq TAS /\ V \subseteq DOMAIN m.cadres /\ V = Possede(m, rep)
  BY <1>3, <1>4, PossedeProp
<1>13. PICK r : r = Liberer(m, V)
  OBVIOUS
<1>14. PICK X : X = DOMAIN m.cadres
  OBVIOUS
<1>15. PICK c : c = [x \in X \ V |-> m.cadres[x]]
  OBVIOUS
<1>16. r = [cadres |-> c, tas |-> m.tas \cup V, mot |-> m.mot, fusions |-> m.fusions]
  <2>1. m = [cadres |-> m.cadres, tas |-> m.tas, mot |-> m.mot, fusions |-> m.fusions]
    BY <1>1, TypeMemoireProp
  <2>2. QED
    BY <1>13, <1>14, <1>15, <2>1 DEF Liberer
<1>17. r.cadres = c /\ r.tas = m.tas \cup V /\ r.mot = m.mot /\ r.fusions = m.fusions
  BY <1>16
<1>18. DOMAIN r.cadres = X \ V /\ \A x \in X \ V : r.cadres[x] = m.cadres[x]
  BY <1>15, <1>17
<1>19. r \in TypeMemoire
  <2>1. X \subseteq Nat /\ \A x \in X : m.cadres[x] \in Repertoires \cup Tables
    BY <1>1, <1>14, TypeMemoireProp
  <2>2. c \in [X \ V -> Repertoires \cup Tables] /\ X \ V \in SUBSET Nat
    BY <1>15, <2>1
  <2>3. PICK t, w, h : t = m.tas \cup V /\ w = m.mot /\ h = m.fusions
    OBVIOUS
  <2>4. t \in SUBSET TAS /\ w \in TypeEntree /\ h \in SUBSET Nat
    BY <1>1, <1>8, <2>3 DEF TypeMemoire
  <2>5. r = [cadres |-> c, tas |-> t, mot |-> w, fusions |-> h]
    BY <1>16, <2>3
  <2>6. QED
    BY <2>2, <2>4, <2>5, MemoireDe
<1>20. /\ Pourvus(autres) = Pourvus(reps) \ {p}
       /\ \A q \in Pourvus(autres) : /\ q # p /\ q \in Pourvus(reps)
                                     /\ autres[q] = reps[q] /\ B[q] = A[q]
  BY DEF Pourvus, Pareils
<1>21. ASSUME NEW q \in Pourvus(autres)
       PROVE  /\ Espace(r, autres[q], B[q]) /\ autres[q] = reps[q]
              /\ Possede(r, autres[q]) = Possede(m, reps[q])
  <2>1. q # p /\ q \in Pourvus(reps) /\ autres[q] = reps[q] /\ B[q] = A[q]
    BY <1>20
  <2>2. Espace(m, reps[q], A[q]) /\ Possede(m, reps[q]) \cap V = {}
    BY <1>1, <1>2, <1>3, <1>8, <2>1
  <2>3. Possede(m, reps[q]) \subseteq X
    BY <1>14, <2>2, PossedeProp
  <2>4. \A x \in Possede(m, reps[q]) : x \in DOMAIN r.cadres /\ r.cadres[x] = m.cadres[x]
    BY <1>18, <2>2, <2>3
  <2>5. Espace(r, reps[q], A[q]) /\ Possede(r, reps[q]) = Possede(m, reps[q])
    BY <2>2, <2>4, EspaceIntact
  <2>6. QED
    BY <2>1, <2>5
<1>22. \A f \in Noyaux : f \in DOMAIN r.cadres /\ Conforme(f, r.cadres[f])
  BY <1>1, <1>8, <1>14, <1>18, NoyauxProp
<1>23. DOMAIN r.cadres \cap r.tas = {}
  BY <1>1, <1>14, <1>17, <1>18
<1>24. \A q, s \in Pourvus(autres) : q # s => Possede(r, autres[q]) \cap Possede(r, autres[s]) = {}
  BY <1>1, <1>20, <1>21
<1>25. ASSUME NEW f \in DOMAIN r.cadres, f \in TAS
       PROVE  \E q \in Pourvus(autres) : f \in Possede(r, autres[q])
  <2>1. f \in X /\ f \notin V
    BY <1>18, <1>25
  <2>2. PICK q \in Pourvus(reps) : f \in Possede(m, reps[q])
    BY <1>1, <1>14, <1>25, <2>1
  <2>3. q \in Pourvus(autres)
    BY <1>2, <1>8, <1>20, <2>1, <2>2
  <2>4. QED
    BY <1>21, <2>2, <2>3
<1>26. MemoireSaine(r, autres, B)
  BY <1>1, <1>17, <1>19, <1>21, <1>22, <1>23, <1>24, <1>25 DEF MemoireSaine
<1>27. QED
  BY <1>2, <1>4, <1>13, <1>26

-----------------------------------------------------------------------------
(* The pages of the record found for each process.                         *)
PagesDe(s, q) == IF Fiches(s, q) = {} THEN {} ELSE Fiche(s, q).adresses

Espaces(s) == [p \in PID |-> PagesDe(s, p)]

MemesPages(s, t, q) == PagesDe(t, q) = PagesDe(s, q)

LEMMA MinUnique ==
  ASSUME NEW S \in SUBSET Nat, NEW x \in S, \A y \in S : x <= y
  PROVE  Min(S) = x
<1>1. PICK m : m = Min(S)
  OBVIOUS
<1>2. m \in S /\ \A y \in S : m <= y
  BY <1>1 DEF Min
<1>3. m <= x /\ x <= m /\ m \in Nat /\ x \in Nat
  BY <1>2
<1>4. QED
  BY <1>1, <1>3

(* A record of another process, wherever it is inserted, changes nothing   *)
(* to what is found.                                                       *)
LEMMA FicheDecalee ==
  ASSUME NEW s, NEW t, s.allouees \in Seq(Possibles), t.allouees \in Seq(Possibles),
         NEW i, NEW e, EstInsertion(t.allouees, s.allouees, i, e), NEW q, e.pid # q
  PROVE  MemesPages(s, t, q)
<1>1. PICK a, b : a = s.allouees /\ b = t.allouees
  OBVIOUS
<1>2. PICK n \in Nat : n = Len(a)
  BY <1>1, LenProperties
<1>3. /\ DOMAIN a = 1..n /\ DOMAIN b = 1..n+1 /\ i \in 1..n+1
      /\ \A j \in 1..n+1 : /\ j < i => b[j] = a[j]
                           /\ j = i => b[j] = e
                           /\ j > i => b[j] = a[j-1]
  BY <1>1, <1>2, LenProperties DEF EstInsertion
<1>4. PICK A, B : A = Fiches(s, q) /\ B = Fiches(t, q)
  OBVIOUS
<1>5. /\ A = {j \in 1..n : a[j].pid = q} /\ B = {j \in 1..n+1 : b[j].pid = q}
      /\ A \in SUBSET Nat /\ B \in SUBSET Nat
  BY <1>1, <1>3, <1>4 DEF Fiches
<1>6. ASSUME NEW y \in B
      PROVE  \E x \in A : (x < i /\ y = x) \/ (x >= i /\ y = x+1)
  <2>1. y \in 1..n+1 /\ b[y].pid = q /\ y # i
    BY <1>3, <1>5
  <2>2. CASE y < i
    <3>1. y \in 1..n /\ a[y].pid = q
      BY <1>3, <2>1, <2>2
    <3>2. QED
      BY <1>5, <2>2, <3>1
  <2>3. CASE y > i
    <3>1. y-1 \in 1..n /\ a[y-1].pid = q /\ y-1 >= i /\ y = (y-1)+1
      BY <1>3, <2>1, <2>3
    <3>2. QED
      BY <1>5, <3>1
  <2>4. QED
    BY <1>3, <2>1, <2>2, <2>3
<1>7. CASE A = {}
  <2>1. B = {}
    BY <1>6, <1>7
  <2>2. QED
    BY <1>4, <1>7, <2>1 DEF PagesDe, MemesPages
<1>8. CASE A # {}
  <2>1. PICK x \in A : \A y \in A : x <= y
    BY <1>5, <1>8, PlusPetit
  <2>2. x \in 1..n /\ a[x].pid = q
    BY <1>5
  <2>3. PICK z : z = IF x < i THEN x ELSE x+1
    OBVIOUS
  <2>4. z \in 1..n+1 /\ b[z] = a[x] /\ z \in B
    <3>1. CASE x < i
      <4>1. z = x /\ z \in 1..n+1 /\ z < i
        BY <1>3, <2>2, <2>3, <3>1
      <4>2. QED
        BY <1>3, <1>5, <2>2, <4>1
    <3>2. CASE x >= i
      <4>1. z = x+1 /\ z \in 1..n+1 /\ z > i /\ z-1 = x
        BY <1>3, <2>2, <2>3, <3>2
      <4>2. QED
        BY <1>3, <1>5, <2>2, <4>1
    <3>3. QED
      BY <1>3, <2>2, <3>1, <3>2
  <2>5. ASSUME NEW y \in B PROVE z <= y
    <3>1. PICK w \in A : (w < i /\ y = w) \/ (w >= i /\ y = w+1)
      BY <1>6
    <3>2. x <= w /\ w \in Nat /\ x \in Nat /\ i \in Nat
      BY <1>3, <1>5, <2>1
    <3>3. QED
      BY <2>3, <3>1, <3>2
  <2>6. Min(A) = x /\ Min(B) = z
    BY <1>5, <2>1, <2>4, <2>5, MinUnique
  <2>7. Fiche(s, q) = a[x] /\ Fiche(t, q) = b[z]
    BY <1>1, <1>4, <2>6 DEF Fiche
  <2>8. QED
    BY <1>4, <1>8, <2>4, <2>7 DEF PagesDe, MemesPages
<1>9. QED
  BY <1>7, <1>8 DEF MemesPages

LEMMA RestitutionAutres ==
  ASSUME NEW s, Partage(s), NEW pid, NEW q, q # pid
  PROVE  MemesPages(s, desalloue_pages_process(s, pid), q)
<1>1. CASE Fiches(s, pid) = {}
  BY <1>1 DEF desalloue_pages_process, MemesPages
<1>2. CASE Fiches(s, pid) # {}
  <2>1. s.allouees \in Seq(Possibles)
    BY DEF Partage
  <2>2. PICK i : i = Min(Fiches(s, pid))
    OBVIOUS
  <2>3. i \in 1..Len(s.allouees) /\ i \in Fiches(s, pid)
    BY <1>2, <2>1, <2>2, FicheProp
  <2>4. PICK t : t = desalloue_pages_process(s, pid)
    OBVIOUS
  <2>5. t.allouees = RemoveAt(s.allouees, i)
    BY <1>2, <2>2, <2>4 DEF desalloue_pages_process
  <2>6. t.allouees \in Seq(Possibles) /\ EstRetrait(t.allouees, s.allouees, i)
    BY <2>1, <2>3, <2>5, RemoveAtProp
  <2>7. EstInsertion(s.allouees, t.allouees, i, s.allouees[i])
    <3>1. PICK n \in Nat : n = Len(s.allouees)
      BY <2>1, LenProperties
    <3>2. /\ i \in 1..n /\ Len(t.allouees) = n-1
          /\ \A j \in 1..n-1 : /\ j < i => t.allouees[j] = s.allouees[j]
                               /\ j >= i => t.allouees[j] = s.allouees[j+1]
      BY <2>6, <3>1 DEF EstRetrait
    <3>3. ASSUME NEW j \in 1..n, j > i PROVE s.allouees[j] = t.allouees[j-1]
      <4>1. j-1 \in 1..n-1 /\ j-1 >= i /\ (j-1)+1 = j
        BY <3>2, <3>3
      <4>2. QED
        BY <3>2, <4>1
    <3>4. ASSUME NEW j \in 1..n, j < i PROVE s.allouees[j] = t.allouees[j]
      <4>1. j \in 1..n-1
        BY <3>2, <3>4
      <4>2. QED
        BY <3>2, <3>4, <4>1
    <3>5. (n-1)+1 = n
      OBVIOUS
    <3>6. QED
      BY <3>1, <3>2, <3>3, <3>4, <3>5 DEF EstInsertion
  <2>8. s.allouees[i].pid # q
    BY <2>3 DEF Fiches
  <2>9. MemesPages(t, s, q)
    BY <2>1, <2>6, <2>7, <2>8, FicheDecalee
  <2>10. QED
    BY <2>4, <2>9 DEF MemesPages
<1>3. QED
  BY <1>1, <1>2

LEMMA InscriptionAutres ==
  ASSUME NEW s, Partage(s), NEW pid \in Int, NEW S, S \subseteq s.vides,
         NEW i \in 1..Len(s.allouees)+1,
         NEW t, t.allouees = InsertAt(s.allouees, i, [pid |-> pid, adresses |-> S])
  PROVE  /\ \A q : q # pid => MemesPages(s, t, q)
         /\ Fiches(t, pid) # {} /\ Len(t.allouees) = Len(s.allouees) + 1
<1>1. s.allouees \in Seq(Possibles) /\ Len(s.allouees) \in Nat
  BY LenProperties DEF Partage
<1>2. PICK e : e = [pid |-> pid, adresses |-> S]
  OBVIOUS
<1>3. e \in Possibles /\ e.pid = pid
  BY <1>2 DEF Possibles, Partage
<1>4. t.allouees \in Seq(Possibles) /\ EstInsertion(t.allouees, s.allouees, i, e)
  BY <1>1, <1>2, <1>3, InsertAtProp
<1>5. \A q : q # pid => MemesPages(s, t, q)
  BY <1>1, <1>3, <1>4, FicheDecalee
<1>6. i \in DOMAIN t.allouees /\ t.allouees[i] = e /\ Len(t.allouees) = Len(s.allouees) + 1
  BY <1>1, <1>4, LenProperties DEF EstInsertion
<1>7. i \in Fiches(t, pid)
  BY <1>3, <1>6 DEF Fiches
<1>8. QED
  BY <1>5, <1>6, <1>7

LEMMA AllocationAutres ==
  ASSUME NEW s, Partage(s), NEW pid \in Int, NEW nb \in Nat, NEW i \in 1..Len(s.allouees)+1,
         NEW q, q # pid
  PROVE  MemesPages(s, alloue_pages_process(s, pid, nb, i), q)
<1>1. s.vides \subseteq Nat /\ IsFiniteSet(s.vides)
  <2>1. s.vides \subseteq Pool
    BY DEF Partage
  <2>2. QED
    BY <2>1, PoolProp, FS_Subset
<1>2. CASE nb <= Cardinality(s.vides)
  <2>1. PICK S : S = Basses(s.vides, nb)
    OBVIOUS
  <2>2. nb \in 0..Cardinality(s.vides)
    BY <1>1, <1>2, FS_CardinalityType
  <2>3. S \subseteq s.vides
    BY <1>1, <2>1, <2>2, BassesProp
  <2>4. PICK t : t = alloue_pages_process(s, pid, nb, i)
    OBVIOUS
  <2>5. t.allouees = InsertAt(s.allouees, i, [pid |-> pid, adresses |-> S])
    BY <1>2, <2>1, <2>4 DEF alloue_pages_process
  <2>6. MemesPages(s, t, q)
    BY <2>3, <2>5, InscriptionAutres
  <2>7. QED
    BY <2>4, <2>6
<1>3. CASE ~(nb <= Cardinality(s.vides))
  <2>1. PICK t : t = [vides |-> {},
                      allouees |-> InsertAt(s.allouees, i, [pid |-> pid, adresses |-> s.vides])]
    OBVIOUS
  <2>2. Partage([vides |-> s.vides \ s.vides,
                 allouees |-> InsertAt(s.allouees, i, [pid |-> pid, adresses |-> s.vides])])
    BY Inscription
  <2>3. s.vides \ s.vides = {}
    OBVIOUS
  <2>4. Partage(t)
    BY <2>1, <2>2, <2>3
  <2>5. t.allouees = InsertAt(s.allouees, i, [pid |-> pid, adresses |-> s.vides])
    BY <2>1
  <2>6. MemesPages(s, t, q)
    BY <2>5, InscriptionAutres
  <2>7. MemesPages(t, desalloue_pages_process(t, pid), q)
    BY <2>4, RestitutionAutres
  <2>8. QED
    BY <1>3, <2>1, <2>6, <2>7 DEF alloue_pages_process, MemesPages
<1>4. QED
  BY <1>2, <1>3

(* With enough pages there is a record, of that many pages, and it is the  *)
(* only one of its process if there was none.                              *)
LEMMA AllocationFiche ==
  ASSUME NEW s, Partage(s), NEW pid \in Int, NEW nb \in Nat, nb <= Cardinality(s.vides),
         NEW i \in 1..Len(s.allouees)+1, NEW t, t = alloue_pages_process(s, pid, nb, i)
  PROVE  /\ Fiches(t, pid) # {} /\ Len(t.allouees) = Len(s.allouees) + 1
         /\ Cardinality(t.vides) = Cardinality(s.vides) - nb
<1>1. s.vides \subseteq Nat /\ IsFiniteSet(s.vides)
  <2>1. s.vides \subseteq Pool
    BY DEF Partage
  <2>2. QED
    BY <2>1, PoolProp, FS_Subset
<1>2. PICK S : S = Basses(s.vides, nb)
  OBVIOUS
<1>3. nb \in 0..Cardinality(s.vides) /\ Cardinality(s.vides) \in Nat
  BY <1>1, FS_CardinalityType
<1>4. S \subseteq s.vides /\ Cardinality(S) = nb
  BY <1>1, <1>2, <1>3, BassesProp
<1>5. t.vides = s.vides \ S /\ t.allouees = InsertAt(s.allouees, i, [pid |-> pid, adresses |-> S])
  BY <1>2 DEF alloue_pages_process
<1>6. Fiches(t, pid) # {} /\ Len(t.allouees) = Len(s.allouees) + 1
  BY <1>4, <1>5, InscriptionAutres
<1>7. Cardinality(s.vides \ S) = Cardinality(s.vides) - Cardinality(s.vides \cap S)
  BY <1>1, <1>4, FS_Difference, FS_Subset
<1>8. s.vides \cap S = S
  BY <1>4
<1>9. QED
  BY <1>3, <1>4, <1>5, <1>6, <1>7, <1>8

-----------------------------------------------------------------------------
(* What start gives to a new process: pages, a directory, tables.          *)
LEMMA DoterProp ==
  ASSUME NEW s, Partage(s), NEW reps \in Annuaires,
         NEW m, MemoireSaine(m, reps, Espaces(s)), m.tas # {},
         NEW p \in PID, reps[p] = 0, NEW nb \in Nat, NEW i \in 1..Len(s.allouees)+1,
         NEW t, t = alloue_pages_process(s, p, nb, i), Fiches(t, p) # {},
         NEW b, b = Doter(s, m, reps, p, nb, i)
  PROVE  /\ b.s = t /\ Partage(t) /\ MemoireSaine(b.m, b.reps, Espaces(t))
         /\ b.reps \in Annuaires /\ b.reps[p] # 0 /\ Pareils(b.reps, reps, p)
<1>0. p \in Int
  BY NbprocAssumption DEF PID
<1>1. PICK A : A = Espaces(s)
  OBVIOUS
<1>2. PICK B : B = Espaces(t)
  OBVIOUS
<1>3. Partage(t)
  BY <1>0, Allocation
<1>4. Pareils(B, A, p)
  <2>1. SUFFICES ASSUME NEW q \in PID, q # p PROVE B[q] = A[q]
    BY DEF Pareils
  <2>2. MemesPages(s, t, q)
    BY <1>0, <2>1, AllocationAutres
  <2>3. QED
    BY <1>1, <1>2, <2>2 DEF MemesPages, Espaces
<1>5. PICK d : d = create_page_directory(m)
  OBVIOUS
<1>6. PICK rep : rep = Min(m.tas)
  OBVIOUS
<1>7. PICK autres : autres = Pourvu(reps, p, rep)
  OBVIOUS
<1>8. MemoireSaine(m, reps, A)
  BY <1>1
<1>9. /\ MemoireSaine(d, autres, B) /\ autres \in Annuaires
      /\ rep \in m.tas
  BY <1>4, <1>5, <1>6, <1>7, <1>8, NouveauRepertoire
<1>10. rep # 0
  <2>1. m \in TypeMemoire
    BY <1>8 DEF MemoireSaine
  <2>2. QED
    BY <1>9, <2>1, TypeMemoireProp
<1>11. autres[p] = rep /\ autres[p] # 0 /\ Pareils(autres, reps, p)
  BY <1>7, <1>10 DEF Pareils, Pourvu, Annuaires
<1>12. B[p] = Fiche(t, p).adresses
  BY <1>2 DEF Espaces, PagesDe
<1>13. MemoireSaine(Cartographier(t, d, p, autres[p]), autres, B)
  BY <1>3, <1>9, <1>11, <1>12, CartographierProp
<1>14. PICK c : c = Cartographier(t, d, p, autres[p])
  OBVIOUS
<1>15. b = [s |-> t, m |-> c, reps |-> autres]
  BY <1>5, <1>6, <1>7, <1>11, <1>14 DEF Doter, Pourvu
<1>16. b.s = t /\ b.m = c /\ b.reps = autres
  BY <1>15
<1>17. QED
  BY <1>2, <1>3, <1>9, <1>11, <1>13, <1>14, <1>16

(* A record of one page is mapped by one call.                             *)
LEMMA CartographierUne ==
  ASSUME NEW s, NEW m, NEW pid, NEW rep, get_nb_pages(s, pid) = 1
  PROVE  Cartographier(s, m, pid, rep) =
           put_address_reel(m, get_adr(s, pid, 0).adresse_phy,
                            get_adr(s, pid, 0).adresse_virt, "READ", rep)
<1> DEFINE Suivante(n, x) == put_address_reel(x, get_adr(s, pid, n-1).adresse_phy,
                                              get_adr(s, pid, n-1).adresse_virt, "READ", rep)
           Egal(f) == f = [n \in 0..get_nb_pages(s, pid) |-> IF n = 0 THEN m ELSE Suivante(n, f[n-1])]
<1> HIDE DEF Suivante
<1>1. \E f : Egal(f)
  <2>1. PICK f : f = [n \in 0..1 |-> IF n = 0 THEN m ELSE Suivante(1, m)]
    OBVIOUS
  <2>2. f[0] = m /\ f[1] = Suivante(1, f[0])
    BY <2>1
  <2>3. \A n \in 0..1 : f[n] = IF n = 0 THEN m ELSE Suivante(n, f[n-1])
    <3>1. \A n \in 0..1 : n = 0 \/ n = 1
      OBVIOUS
    <3>2. 1 - 1 = 0
      OBVIOUS
    <3>3. QED
      BY <2>2, <3>1, <3>2
  <2>4. QED
    BY <2>1, <2>3
<1>2. PICK f : Egal(f) /\ Cartographier(s, m, pid, rep) = f[get_nb_pages(s, pid)]
  BY <1>1 DEF Cartographier, Suivante
<1>3. f[0] = m /\ f[1] = Suivante(1, f[0])
  BY <1>2
<1>4. 1 - 1 = 0
  OBVIOUS
<1>5. QED
  BY <1>2, <1>3, <1>4 DEF Suivante

-----------------------------------------------------------------------------
(* The living have a directory and the others none; the memory is that of  *)
(* the living, for the pages that their records give them.                 *)
Annuaire == repertoire \in Annuaires /\ \A p \in PID : repertoire[p] # 0 <=> p \in Vivants

IInvTables ==
  /\ IStable /\ IInvPages /\ Annuaire
  /\ MemoireSaine(memoire, repertoire, Espaces(Etat))

LEMMA VivantsVifs ==
  ASSUME NEW p \in PID
  PROVE  p \in Vivants <=> noyau.etat[p] \notin Finis
  BY DEF Vivants, Finis

LEMMA VivantsSuivants ==
  ASSUME NEW p \in PID
  PROVE  p \in Vivants' <=> noyau'.etat[p] \notin Finis
  BY DEF Vivants, Finis

LEMMA EtatEgal ==
  ASSUME NEW t, Partage(t), pages_vides' = t.vides, pages_allouees' = t.allouees
  PROVE  Etat' = t
<1>1. t = [vides |-> t.vides, allouees |-> t.allouees]
  BY DEF Partage
<1>2. QED
  BY <1>1 DEF Etat

(* A step that keeps the living and the pages.                             *)
LEMMA PasSansPages ==
  ASSUME IInvTables, IStable', MemesVifs(noyau', noyau), UNCHANGED pages
  PROVE  IInvTables'
<1>1. /\ pages_vides' = pages_vides /\ pages_allouees' = pages_allouees
      /\ memoire' = memoire /\ repertoire' = repertoire
  BY DEF pages
<1>2. Etat' = Etat
  BY <1>1 DEF Etat
<1>3. IInvPages' /\ MemoireSaine(memoire, repertoire, Espaces(Etat))'
  BY <1>1, <1>2 DEF IInvTables, IInvPages
<1>4. Annuaire'
  <2>1. \A p \in PID : p \in Vivants' <=> p \in Vivants
    BY VivantsVifs, VivantsSuivants DEF MemesVifs
  <2>2. QED
    BY <1>1, <2>1 DEF IInvTables, Annuaire
<1>5. QED
  BY <1>3, <1>4 DEF IInvTables

(* The end of process p.                                                   *)
LEMMA PasFin ==
  ASSUME IInvTables, IStable', NEW p \in PID, p \in Vivants, RendrePages(p),
         noyau.pere[p] # AUCUN /\ FauteDeParcours(noyau, p) => MemesVifs(noyau', noyau),
         ~(noyau.pere[p] # AUCUN /\ FauteDeParcours(noyau, p)) => Finit(noyau', noyau, p)
  PROVE  IInvTables'
<1>1. CASE noyau.pere[p] # AUCUN /\ FauteDeParcours(noyau, p)
  BY <1>1, PasSansPages DEF RendrePages
<1>2. CASE ~(noyau.pere[p] # AUCUN /\ FauteDeParcours(noyau, p))
  <2>1. PICK q : q = IF noyau.pere[p] = AUCUN THEN -1 ELSE p
    OBVIOUS
  <2>2. PICK t : t = desalloue_pages_process(Etat, q)
    OBVIOUS
  <2>3. Partage(Etat) /\ Partage(t)
    BY <2>2, Restitution DEF IInvTables, IInvPages
  <2>4. /\ pages_vides' = t.vides /\ pages_allouees' = t.allouees
        /\ memoire' = free_page(memoire, repertoire[p])
        /\ repertoire' = [repertoire EXCEPT ![p] = 0]
    BY <1>2, <2>1, <2>2 DEF RendrePages
  <2>5. Etat' = t
    BY <2>3, <2>4, EtatEgal
  <2>6. repertoire \in Annuaires /\ repertoire[p] # 0
    BY DEF IInvTables, Annuaire
  <2>7. repertoire'[p] = 0 /\ Pareils(repertoire', repertoire, p) /\ repertoire' \in Annuaires
    BY <2>4, <2>6 DEF Pareils, Annuaires
  <2>8. Pareils(Espaces(t), Espaces(Etat), p)
    <3>1. SUFFICES ASSUME NEW x \in PID, x # p PROVE Espaces(t)[x] = Espaces(Etat)[x]
      BY DEF Pareils
    <3>2. x # q
      BY <2>1, <3>1, NbprocAssumption DEF PID
    <3>3. MemesPages(Etat, t, x)
      BY <2>2, <2>3, <3>2, RestitutionAutres
    <3>4. QED
      BY <3>3 DEF MemesPages, Espaces
  <2>9. MemoireSaine(memoire, repertoire, Espaces(Etat))
    BY DEF IInvTables
  <2>10. MemoireSaine(memoire', repertoire', Espaces(t))
    <3>1. PICK autres : autres = repertoire'
      OBVIOUS
    <3>2. PICK A, B : A = Espaces(Etat) /\ B = Espaces(t)
      OBVIOUS
    <3>3. MemoireSaine(memoire, repertoire, A) /\ Pareils(B, A, p)
      BY <2>8, <2>9, <3>2
    <3>4. autres[p] = 0 /\ Pareils(autres, repertoire, p)
      BY <2>7, <3>1
    <3>5. MemoireSaine(free_page(memoire, repertoire[p]), autres, B)
      BY <2>6, <3>3, <3>4, RestitutionTables
    <3>6. QED
      BY <2>4, <3>1, <3>2, <3>5
  <2>11. IInvPages' /\ MemoireSaine(memoire, repertoire, Espaces(Etat))'
    BY <2>3, <2>5, <2>10 DEF IInvPages
  <2>12. \A x \in PID : x \in Vivants' <=> x \in Vivants /\ x # p
    BY <1>2, VivantsVifs, VivantsSuivants DEF Finit
  <2>13. Annuaire'
    BY <2>7, <2>12 DEF Annuaire, IInvTables, Pareils
  <2>14. QED
    BY <2>11, <2>13 DEF IInvTables
<1>3. QED
  BY <1>1, <1>2

(* A program starts.                                                       *)
LEMMA PasDebut ==
  ASSUME IInvTables, NEW prio \in PRIOS, NEW nb \in TAILLES, StartPages(prio, nb)
  PROVE  IInvTables'
<1>1. PICK p : p = Min(PidsLibres(noyau))
  OBVIOUS
<1>2. /\ Stable(noyau) /\ Sain(noyau) /\ AuPlusUnActif(noyau) /\ OisifDisponible(noyau)
      /\ noyau.pid_actif # AUCUN => noyau.etat[noyau.pid_actif] # "MORT"
      /\ PidsLibres(noyau) # {} /\ prio \in Int
  BY ActifProp, PriosAssumption DEF IInvTables, IStable, Stable, StartPages
<1>3. /\ Ordonne(Demarrer(noyau, prio)) /\ p \in PidsLibres(noyau)
      /\ Nait(Demarrer(noyau, prio), noyau, p)
  BY <1>1, <1>2, DemarrerNait
<1>4. p \in PID /\ noyau.etat[p] = "MORT" /\ nb \in Nat
  BY <1>3, PagesAssumption DEF PidsLibres
<1>5. horloge' = horloge
  BY DEF StartPages
<1>6. PICK i \in 1..Len(pages_allouees)+1 :
        IF memoire.tas = {} \/ get_nb_pages(alloue_pages_process(Etat, p, nb, i), p) # nb
        THEN noyau' = [noyau EXCEPT !.panne = TRUE] /\ UNCHANGED pages
        ELSE LET b == Doter(Etat, memoire, repertoire, p, nb, i)
             IN /\ noyau' = Demarrer(noyau, prio)
                /\ pages_vides' = b.s.vides
                /\ pages_allouees' = b.s.allouees
                /\ memoire' = b.m
                /\ repertoire' = b.reps
  BY <1>1 DEF StartPages
<1>7. PICK t : t = alloue_pages_process(Etat, p, nb, i)
  OBVIOUS
<1>8. CASE memoire.tas = {} \/ get_nb_pages(t, p) # nb
  <2>1. noyau' = [noyau EXCEPT !.panne = TRUE] /\ UNCHANGED pages
    BY <1>6, <1>7, <1>8
  <2>2. Stable(noyau') /\ noyau'.etat = noyau.etat
    BY <1>2, <2>1, PanneStable
  <2>3. IStable' /\ MemesVifs(noyau', noyau)
    BY <1>5, <2>2 DEF IInvTables, IStable, MemesVifs
  <2>4. QED
    BY <2>1, <2>3, PasSansPages
<1>9. CASE ~(memoire.tas = {} \/ get_nb_pages(t, p) # nb)
  <2>1. PICK b : b = Doter(Etat, memoire, repertoire, p, nb, i)
    OBVIOUS
  <2>2. /\ noyau' = Demarrer(noyau, prio)
        /\ pages_vides' = b.s.vides /\ pages_allouees' = b.s.allouees
        /\ memoire' = b.m /\ repertoire' = b.reps
    BY <1>6, <1>7, <1>9, <2>1
  <2>3. Fiches(t, p) # {}
    <3>1. SUFFICES ASSUME Fiches(t, p) = {} PROVE FALSE
      OBVIOUS
    <3>2. get_nb_pages(t, p) = -1
      BY <3>1 DEF get_nb_pages
    <3>3. QED
      BY <1>4, <1>9, <3>2
  <2>4. /\ Partage(Etat) /\ repertoire \in Annuaires
        /\ MemoireSaine(memoire, repertoire, Espaces(Etat))
    BY DEF IInvTables, IInvPages, Annuaire
  <2>5. memoire.tas # {} /\ repertoire[p] = 0
    BY <1>4, <1>9 DEF IInvTables, Annuaire, Vivants
  <2>6. i \in 1..Len(Etat.allouees)+1
    <3>1. Etat.allouees = pages_allouees
      BY DEF Etat
    <3>2. QED
      BY <1>6, <3>1
  <2>7. /\ b.s = t /\ Partage(t) /\ MemoireSaine(b.m, b.reps, Espaces(t))
        /\ b.reps \in Annuaires /\ b.reps[p] # 0 /\ Pareils(b.reps, repertoire, p)
    BY <1>4, <1>7, <2>1, <2>3, <2>4, <2>5, <2>6, DoterProp
  <2>8. Etat' = t
    BY <2>2, <2>7, EtatEgal
  <2>9. IInvPages' /\ MemoireSaine(memoire, repertoire, Espaces(Etat))'
    BY <2>2, <2>7, <2>8 DEF IInvPages
  <2>10. \A x \in PID : x \in Vivants' <=> x \in Vivants \/ x = p
    BY <1>3, <2>2, VivantsVifs, VivantsSuivants DEF Nait
  <2>11. Annuaire'
    BY <2>2, <2>7, <2>10 DEF Annuaire, IInvTables, Pareils
  <2>12. IStable'
    BY <1>3, <1>5, <2>2 DEF Ordonne, IStable, IInvTables
  <2>13. QED
    BY <2>9, <2>11, <2>12 DEF IInvTables
<1>10. QED
  BY <1>8, <1>9

LEMMA IInvTablesStable == IInvTables /\ [NextPages]_varsPages => IInvTables'
<1>1. SUFFICES ASSUME IInvTables, [NextPages]_varsPages PROVE IInvTables'
  OBVIOUS
<1>2. /\ IStable /\ Stable(noyau) /\ actif \in PID /\ actif \in Vivants
  BY <1>1, ActifProp DEF IInvTables, IStable, actif, Vivants
<1>3. ASSUME Next PROVE IStable'
  BY <1>2, <1>3, PasStable
<1>4. ASSUME NEW prio \in PRIOS, NEW nb \in TAILLES, StartPages(prio, nb) PROVE IInvTables'
  BY <1>1, <1>4, PasDebut
<1>5. ASSUME NEW p \in PID, Kill(p), RendrePages(p) PROVE IInvTables'
  <2>1. p # 0 /\ noyau.etat[p] \notin {"MORT", "ZOMBIE"} /\ noyau' = TerminaisonProcessus(noyau, p)
    BY <1>5 DEF Kill
  <2>2. IStable' /\ p \in Vivants
    BY <1>3, <1>5, <2>1 DEF Next, Vivants
  <2>3. QED
    BY <1>1, <1>2, <1>5, <2>1, <2>2, TerminaisonFinit, PasFin
<1>6. CASE Exit /\ RendrePages(actif)
  <2>1. actif # 0 /\ noyau' = TerminaisonProcessus(noyau, actif)
    BY <1>6 DEF Exit, Programme
  <2>2. IStable' /\ noyau.etat[actif] \notin {"MORT", "ZOMBIE"}
    BY <1>2, <1>3, <1>6 DEF Next, Vivants
  <2>3. QED
    BY <1>1, <1>2, <1>6, <2>1, <2>2, TerminaisonFinit, PasFin
<1>7. CASE ReprisePages
  <2>1. Reprise
    BY <1>7 DEF ReprisePages
  <2>2. IStable'
    BY <1>3, <2>1 DEF Next
  <2>3. PICK a : a = actif
    OBVIOUS
  <2>4. /\ noyau.suite[a] # "condamne" => MemesVifs(noyau', noyau)
        /\ noyau.suite[a] = "condamne" =>
              IF noyau.pere[a] # AUCUN /\ FauteDeParcours(noyau, a)
              THEN MemesVifs(noyau', noyau) ELSE Finit(noyau', noyau, a)
    BY <1>2, <2>1, <2>3, RepriseVifs
  <2>5. CASE noyau.suite[a] = "condamne"
    <3>1. RendrePages(a) /\ a \in PID /\ a \in Vivants
      BY <1>2, <1>7, <2>3, <2>5 DEF ReprisePages
    <3>2. QED
      BY <1>1, <2>2, <2>4, <2>5, <3>1, PasFin
  <2>6. CASE noyau.suite[a] # "condamne"
    <3>1. UNCHANGED pages
      BY <1>7, <2>3, <2>6 DEF ReprisePages
    <3>2. QED
      BY <1>1, <2>2, <2>4, <2>6, <3>1, PasSansPages
  <2>7. QED
    BY <2>5, <2>6
<1>8. CASE /\ \/ WaitpidQuelconque
              \/ \E pid \in PID : WaitpidPrecis(pid)
              \/ \E pid \in PID, newprio \in PRIOS : Chprio(pid, newprio)
              \/ \E t \in Instants : AttendreHorloge(t)
              \/ Tic
              \/ Arret
           /\ UNCHANGED pages
  <2>1. MemesVifs(noyau', noyau)
    BY <1>2, <1>8, AutresPasVifs
  <2>2. Next
    BY <1>8 DEF Next
  <2>3. QED
    BY <1>1, <1>3, <1>8, <2>1, <2>2, PasSansPages
<1>9. CASE UNCHANGED varsPages
  <2>1. noyau' = noyau /\ horloge' = horloge /\ UNCHANGED pages
    BY <1>9 DEF varsPages
  <2>2. IStable' /\ MemesVifs(noyau', noyau)
    BY <1>2, <2>1 DEF IStable, MemesVifs
  <2>3. QED
    BY <1>1, <2>1, <2>2, PasSansPages
<1>10. QED
  BY <1>1, <1>4, <1>5, <1>6, <1>7, <1>8, <1>9 DEF NextPages

-----------------------------------------------------------------------------
(* The memory at boot, before the first process.                           *)
LEMMA MemoireInitiale ==
  ASSUME NEW m,
         m = [cadres |-> early_mm_map_kernel, tas |-> TAS \ Pool, mot |-> VIDE, fusions |-> {}],
         NEW reps, Pourvus(reps) = {}, NEW A
  PROVE  MemoireSaine(m, reps, A) /\ m.tas = TAS \ Pool
<1>1. PICK c : c = early_mm_map_kernel
  OBVIOUS
<1>2. c \in [Noyaux -> Repertoires \cup Tables]
  BY <1>1, CarteNoyau DEF Cartes
<1>3. Noyaux \in SUBSET Nat
  BY CadresAssumption DEF Noyaux
<1>4. TAS \ Pool \in SUBSET TAS /\ {} \in SUBSET Nat
  OBVIOUS
<1>5. /\ m \in TypeMemoire /\ m.cadres = c /\ m.tas = TAS \ Pool /\ m.fusions = {}
      /\ DOMAIN m.cadres = Noyaux /\ ~m.mot.p
  BY <1>1, <1>2, <1>3, <1>4, MemoireDe, VideType
<1>6. Noyaux \cap TAS = {}
  BY NoyauxProp
<1>8. Conforme(PGTAB, c[PGTAB])
  <2>1. 0 \in 0..NNOYAU-1 /\ 0 \in 0..NPTE-1 /\ PGTAB + 0 = PGTAB /\ 0 * NPTE + 0 = 0
    BY TaillesProp, CadresAssumption
  <2>2. c[PGTAB] \in Tables /\ c[PGTAB][0] = PageNoyau(0)
    BY <1>1, <2>1, CarteNoyau DEF Cartes
  <2>3. PageNoyau(0) = VIDE
    BY DEF PageNoyau
  <2>4. QED
    BY <1>1, <2>2, <2>3, VideType DEF Conforme
<1>9. \A f \in Noyaux : Conforme(f, c[f])
  BY <1>1, <1>8 DEF Conforme
<1>7. QED
  BY <1>5, <1>6, <1>9 DEF MemoireSaine

(* The first record of all, of one page.                                   *)
LEMMA PremiereFiche ==
  ASSUME NEW s, Partage(s), s.allouees = << >>, 1 <= Cardinality(s.vides), NEW pid \in Int,
         NEW t, t = alloue_pages_process(s, pid, 1, 1)
  PROVE  get_nb_pages(t, pid) = 1
<1>1. s.vides \subseteq Nat /\ IsFiniteSet(s.vides)
  <2>1. s.vides \subseteq Pool
    BY DEF Partage
  <2>2. QED
    BY <2>1, PoolProp, FS_Subset
<1>2. PICK S : S = Basses(s.vides, 1)
  OBVIOUS
<1>3. 1 \in 0..Cardinality(s.vides)
  BY <1>1, FS_CardinalityType
<1>4. S \subseteq s.vides /\ Cardinality(S) = 1
  BY <1>1, <1>2, <1>3, BassesProp
<1>5. PICK e : e = [pid |-> pid, adresses |-> S]
  OBVIOUS
<1>6. e.pid = pid /\ e.adresses = S /\ e \in Possibles
  BY <1>4, <1>5 DEF Possibles, Partage
<1>7. t.allouees = InsertAt(s.allouees, 1, e)
  BY <1>2, <1>5 DEF alloue_pages_process
<1>8. s.allouees \in Seq(Possibles) /\ Len(s.allouees) = 0
  BY EmptySeq DEF Partage
<1>9. EstInsertion(t.allouees, s.allouees, 1, e) /\ t.allouees \in Seq(Possibles)
  <2>1. 1 \in 1..Len(s.allouees)+1
    BY <1>8
  <2>2. QED
    BY <1>6, <1>7, <1>8, <2>1, InsertAtProp
<1>10. t.allouees[1] = e /\ DOMAIN t.allouees = 1..1
  BY <1>8, <1>9, LenProperties DEF EstInsertion
<1>11. Fiches(t, pid) = {1}
  BY <1>6, <1>10 DEF Fiches
<1>12. Min({1}) = 1
  BY MinUnique
<1>13. Fiche(t, pid) = e
  BY <1>10, <1>11, <1>12 DEF Fiche
<1>14. QED
  BY <1>4, <1>6, <1>11, <1>13 DEF get_nb_pages

(* A process of one page takes two frames at most.                         *)
MoinsDeux(T, S) == \E f, g : S \ {f, g} \subseteq T

LEMMA DoterTas ==
  ASSUME NEW s, Partage(s), NEW reps \in Annuaires,
         NEW m, MemoireSaine(m, reps, Espaces(s)), m.tas # {},
         NEW p \in PID, reps[p] = 0, NEW nb \in Nat, NEW i \in 1..Len(s.allouees)+1,
         NEW t, t = alloue_pages_process(s, p, nb, i), get_nb_pages(t, p) = 1,
         NEW b, b = Doter(s, m, reps, p, nb, i)
  PROVE  MoinsDeux(b.m.tas, m.tas)
<1>0. p \in Int
  BY NbprocAssumption DEF PID
<1>1. PICK A : A = Espaces(s)
  OBVIOUS
<1>2. PICK B : B = Espaces(t)
  OBVIOUS
<1>3. Partage(t)
  BY <1>0, Allocation
<1>4. Pareils(B, A, p)
  <2>1. SUFFICES ASSUME NEW q \in PID, q # p PROVE B[q] = A[q]
    BY DEF Pareils
  <2>2. MemesPages(s, t, q)
    BY <1>0, <2>1, AllocationAutres
  <2>3. QED
    BY <1>1, <1>2, <2>2 DEF MemesPages, Espaces
<1>5. PICK d : d = create_page_directory(m)
  OBVIOUS
<1>6. PICK rep : rep = Min(m.tas)
  OBVIOUS
<1>7. PICK autres : autres = Pourvu(reps, p, rep)
  OBVIOUS
<1>8. MemoireSaine(m, reps, A)
  BY <1>1
<1>9. MemoireSaine(d, autres, B) /\ rep \in m.tas /\ d.tas = m.tas \ {rep}
  BY <1>4, <1>5, <1>6, <1>7, <1>8, NouveauRepertoire
<1>10. rep # 0
  <2>1. m \in TypeMemoire
    BY <1>8 DEF MemoireSaine
  <2>2. QED
    BY <1>9, <2>1, TypeMemoireProp
<1>11. autres[p] = rep /\ p \in Pourvus(autres)
  BY <1>7, <1>10 DEF Pourvus, Pourvu, Annuaires
<1>12. Fiches(t, p) # {}
  <2>1. SUFFICES ASSUME Fiches(t, p) = {} PROVE FALSE
    OBVIOUS
  <2>2. get_nb_pages(t, p) = -1
    BY <2>1 DEF get_nb_pages
  <2>3. QED
    BY <2>2
<1>13. PICK S : S = Fiche(t, p).adresses
  OBVIOUS
<1>14. B[p] = S /\ S \in SUBSET Nat /\ IsFiniteSet(S) /\ Cardinality(S) = 1
  BY <1>2, <1>3, <1>12, <1>13, FicheType DEF Espaces, PagesDe
<1>15. PICK reel, virt : reel = get_adr(t, p, 0).adresse_phy /\ virt = get_adr(t, p, 0).adresse_virt
  OBVIOUS
<1>16. reel \in S
  <2>1. PICK k : k = 0
    OBVIOUS
  <2>2. reel = CHOOSE x \in S : Cardinality({y \in S : y < x}) = k
    BY <1>13, <1>15, <2>1 DEF get_adr
  <2>3. k \in Nat /\ k < Cardinality(S)
    BY <1>14, <2>1
  <2>4. QED
    BY <1>14, <2>2, <2>3, Rang
<1>17. virt \in Nat /\ IndexRepertoire(virt) \in NNOYAU..NPDE-NNOYAU-1
  <2>1. PICK k : k = 0
    OBVIOUS
  <2>2. k \in 0..NBPAGES-1
    BY <2>1, PoolProp
  <2>3. virt = K_BASE_VIRT_ADR + k * TAILLE_PAGE
    BY <1>15, <2>1 DEF get_adr
  <2>4. QED
    BY <2>2, <2>3, IndexPage
<1>18. d \in TypeMemoire /\ DOMAIN d.cadres \cap d.tas = {} /\ Espace(d, rep, S)
  BY <1>9, <1>11, <1>14 DEF MemoireSaine
<1>19. PICK r : r = put_address_reel(d, reel, virt, "READ", rep)
  OBVIOUS
<1>20. PICK F : Etendu(d, r, rep, S, F) /\ F \subseteq {Min(d.tas)}
  BY <1>14, <1>16, <1>17, <1>18, <1>19, Projection
<1>21. r.tas = d.tas \ F
  BY <1>20 DEF Etendu, Accru
<1>22. Cartographier(t, d, p, rep) = r
  BY <1>15, <1>19, CartographierUne
<1>23. b.m = r
  BY <1>5, <1>6, <1>22 DEF Doter
<1>24. m.tas \ {rep, Min(d.tas)} \subseteq b.m.tas
  BY <1>9, <1>20, <1>21, <1>23
<1>25. QED
  BY <1>24 DEF MoinsDeux

(* At boot the frames left to the heap are three at least.                 *)
LEMMA TasInitial ==
  ASSUME NEW f, NEW g, NEW T, (TAS \ Pool) \ {f, g} \subseteq T
  PROVE  T # {}
<1>1. SUFFICES ASSUME T = {} PROVE FALSE
  OBVIOUS
<1>2. TAS \ Pool \subseteq {f, g}
  BY <1>1
<1>3. IsFiniteSet(TAS) /\ TAS \cap Pool = Pool
  BY CadresAssumption, PoolProp
<1>4. Cardinality(TAS \ Pool) = Cardinality(TAS) - NBPAGES
  <2>1. Cardinality(TAS \ Pool) = Cardinality(TAS) - Cardinality(TAS \cap Pool)
    BY <1>3, PoolProp, FS_Difference
  <2>2. Cardinality(TAS \cap Pool) = NBPAGES
    BY <1>3, PoolProp
  <2>3. QED
    BY <2>1, <2>2
<1>5. IsFiniteSet({f, g}) /\ Cardinality({f, g}) <= 2
  <2>1. IsFiniteSet({f}) /\ Cardinality({f}) = 1
    BY FS_Singleton
  <2>2. /\ IsFiniteSet({f} \cup {g})
        /\ Cardinality({f} \cup {g}) = IF g \in {f} THEN Cardinality({f}) ELSE Cardinality({f}) + 1
    BY <2>1, FS_AddElement
  <2>3. {f} \cup {g} = {f, g}
    OBVIOUS
  <2>4. QED
    BY <2>1, <2>2, <2>3
<1>6. Cardinality(TAS \ Pool) <= Cardinality({f, g})
  BY <1>2, <1>5, FS_Subset
<1>7. Cardinality({f, g}) \in Nat
  BY <1>5, FS_CardinalityType
<1>8. QED
  BY <1>4, <1>5, <1>6, <1>7, PoolProp

(* The two processes of the start are 0 and 1.                             *)
LEMMA DeuxProcessus ==
  ASSUME Init
  PROVE  \A x \in PID : noyau.etat[x] \notin Finis <=> x = 0 \/ x = 1
<1>1. PICK k : k = NoyauVide
  OBVIOUS
<1>2. PICK r : r = Demarrer(k, 0)
  OBVIOUS
<1>3. noyau = Demarrer(r, 1)
  BY <1>1, <1>2 DEF Init
<1>4. 0 \in PID /\ 1 \in PID /\ PID \in SUBSET Nat /\ AUCUN \notin PID
  BY NbprocAssumption DEF PID, AUCUN
<1>5. Sain(k) /\ AuPlusUnActif(k) /\ PidsLibres(k) = PID /\ k.pid_actif = AUCUN
  BY <1>1, NoyauVideProp
<1>6. Min(PidsLibres(k)) = 0
  <2>1. \A y \in PID : 0 <= y
    BY <1>4
  <2>2. QED
    BY <1>4, <1>5, <2>1, MinUnique
<1>7. Ordonne(r) /\ Nait(r, k, 0)
  <2>1. PidsLibres(k) # {} /\ 0 \in Int
    BY <1>4, <1>5
  <2>2. QED
    BY <1>2, <1>5, <1>6, <2>1, DemarrerNait
<1>8. \A x \in PID : x # 0 /\ k.etat[x] = "MORT" => r.etat[x] = "MORT"
  <2>1. PICK z \in Int : z = 0
    OBVIOUS
  <2>2. r = Demarrer(k, z) /\ z = Min(PidsLibres(k)) /\ PidsLibres(k) # {}
    BY <1>2, <1>4, <1>5, <1>6, <2>1
  <2>3. \A x \in PID : x # z /\ k.etat[x] = "MORT" => Demarrer(k, z).etat[x] = "MORT"
    BY <1>5, <2>2, DemarrerProp
  <2>4. QED
    BY <2>1, <2>2, <2>3
<1>9. \A x \in PID : k.etat[x] = "MORT"
  BY <1>5 DEF PidsLibres
<1>10. Min(PidsLibres(r)) = 1 /\ PidsLibres(r) # {}
  <2>1. 0 \notin PidsLibres(r)
    BY <1>4, <1>7 DEF Nait, PidsLibres, Finis
  <2>2. 1 \in PidsLibres(r)
    BY <1>4, <1>8, <1>9 DEF PidsLibres
  <2>3. PidsLibres(r) \in SUBSET Nat
    BY <1>4 DEF PidsLibres
  <2>4. \A y \in PidsLibres(r) : 1 <= y
    BY <2>1, <2>3
  <2>5. QED
    BY <2>2, <2>3, <2>4, MinUnique
<1>11. Stable(r) /\ Sain(r) /\ AuPlusUnActif(r) /\ OisifDisponible(r)
       /\ (r.pid_actif # AUCUN => r.etat[r.pid_actif] # "MORT")
  BY <1>7, ActifProp DEF Ordonne, Stable
<1>12. Nait(noyau, r, 1)
  BY <1>3, <1>10, <1>11, DemarrerNait
<1>13. \A x \in PID : k.etat[x] \in Finis
  BY <1>9 DEF Finis
<1>14. QED
  BY <1>4, <1>7, <1>12, <1>13 DEF Nait

LEMMA InitIInvTables == InitPages => IInvTables
<1>1. SUFFICES ASSUME InitPages PROVE IInvTables
  OBVIOUS
<1>2. PICK s0, m0, r0 :
        /\ s0 = [vides |-> Pool, allouees |-> << >>]
        /\ m0 = [cadres |-> early_mm_map_kernel, tas |-> TAS \ Pool, mot |-> VIDE, fusions |-> {}]
        /\ r0 = [p \in PID |-> 0]
  OBVIOUS
<1>3. PICK a : a = Doter(s0, m0, r0, 0, 1, 1)
  OBVIOUS
<1>4. PICK i \in 1..2 :
        LET b == Doter(a.s, a.m, a.reps, 1, 1, i)
        IN pages_vides = b.s.vides /\ pages_allouees = b.s.allouees /\ memoire = b.m /\ repertoire = b.reps
  BY <1>1, <1>2, <1>3 DEF InitPages
<1>5. PICK b : b = Doter(a.s, a.m, a.reps, 1, 1, i)
  OBVIOUS
<1>6. pages_vides = b.s.vides /\ pages_allouees = b.s.allouees /\ memoire = b.m /\ repertoire = b.reps
  BY <1>4, <1>5
<1>7. 0 \in PID /\ 1 \in PID
  BY NbprocAssumption DEF PID
<1>8. Partage(s0) /\ s0.vides = Pool /\ s0.allouees = << >> /\ Len(s0.allouees) = 0
  <2>1. << >> \in Seq(Possibles) /\ Len(<< >>) = 0
    BY EmptySeq
  <2>2. DOMAIN << >> = {}
    BY <2>1
  <2>3. s0 \in [vides : SUBSET Pool, allouees : Seq(Possibles)] /\ s0.vides = Pool /\ s0.allouees = << >>
    BY <1>2, <2>1
  <2>4. QED
    BY <2>1, <2>2, <2>3 DEF Partage
<1>9. r0 \in Annuaires /\ Pourvus(r0) = {} /\ r0[0] = 0 /\ r0[1] = 0 /\ \A p \in PID : r0[p] = 0
  BY <1>2, <1>7 DEF Annuaires, Pourvus
<1>10. MemoireSaine(m0, r0, Espaces(s0)) /\ m0.tas = TAS \ Pool
  BY <1>2, <1>9, MemoireInitiale
<1>11. m0.tas # {}
  BY <1>10, TasInitial
<1>12. PICK s1 : s1 = alloue_pages_process(s0, 0, 1, 1)
  OBVIOUS
<1>28. PICK z, un : z = 0 /\ un = 1
  OBVIOUS
<1>30. Partage(s0) /\ r0 \in Annuaires /\ MemoireSaine(m0, r0, Espaces(s0)) /\ m0.tas # {}
  BY <1>8, <1>9, <1>10, <1>11
<1>29. /\ z \in PID /\ z \in Int /\ un \in Nat /\ un <= Cardinality(s0.vides)
       /\ un \in 1..Len(s0.allouees)+1 /\ r0[z] = 0
       /\ s1 = alloue_pages_process(s0, z, un, un) /\ a = Doter(s0, m0, r0, z, un, un)
  BY <1>3, <1>7, <1>8, <1>9, <1>12, <1>28, PoolProp
<1>13. 1 \in Nat /\ 0 \in Int /\ 1 \in Int /\ 1 <= Cardinality(s0.vides) /\ 1 \in 1..Len(s0.allouees)+1
  BY <1>8, PoolProp
<1>14. /\ Fiches(s1, 0) # {} /\ Len(s1.allouees) = 1 /\ Cardinality(s1.vides) >= 1
       /\ get_nb_pages(s1, 0) = 1
  <2>1. /\ Fiches(s1, z) # {} /\ Len(s1.allouees) = Len(s0.allouees) + 1
        /\ Cardinality(s1.vides) = Cardinality(s0.vides) - un
    BY <1>29, <1>30, AllocationFiche
  <2>2. get_nb_pages(s1, 0) = 1
    BY <1>8, <1>12, <1>13, PremiereFiche
  <2>3. QED
    BY <1>8, <1>28, <2>1, <2>2, PoolProp
<1>15. /\ a.s = s1 /\ Partage(s1) /\ MemoireSaine(a.m, a.reps, Espaces(s1))
       /\ a.reps \in Annuaires /\ a.reps[0] # 0 /\ Pareils(a.reps, r0, 0)
  BY <1>3, <1>7, <1>8, <1>9, <1>10, <1>11, <1>12, <1>13, <1>14, DoterProp
<1>16. a.m.tas # {}
  <2>1. get_nb_pages(s1, z) = 1
    BY <1>14, <1>28
  <2>2. MoinsDeux(a.m.tas, m0.tas)
    BY <1>29, <1>30, <2>1, DoterTas
  <2>3. PICK f, g : m0.tas \ {f, g} \subseteq a.m.tas
    BY <2>2 DEF MoinsDeux
  <2>4. QED
    BY <1>10, <2>3, TasInitial
<1>17. a.reps[1] = 0
  BY <1>7, <1>9, <1>15 DEF Pareils
<1>18. PICK s2 : s2 = alloue_pages_process(s1, 1, 1, i)
  OBVIOUS
<1>19. i \in 1..Len(s1.allouees)+1
  BY <1>14
<1>20. Fiches(s2, 1) # {}
  <2>1. 1 <= Cardinality(s1.vides)
    <3>1. s1.vides \subseteq Pool
      BY <1>15 DEF Partage
    <3>2. Cardinality(s1.vides) \in Nat
      BY <3>1, PoolProp, FS_Subset, FS_CardinalityType
    <3>3. QED
      BY <1>14, <3>2
  <2>2. QED
    BY <1>13, <1>15, <1>18, <1>19, <2>1, AllocationFiche
<1>21. b = Doter(s1, a.m, a.reps, 1, 1, i)
  BY <1>5, <1>15
<1>22. /\ b.s = s2 /\ Partage(s2) /\ MemoireSaine(b.m, b.reps, Espaces(s2))
       /\ b.reps \in Annuaires /\ b.reps[1] # 0 /\ Pareils(b.reps, a.reps, 1)
  BY <1>7, <1>13, <1>15, <1>16, <1>17, <1>18, <1>19, <1>20, <1>21, DoterProp
<1>23. Etat = s2
  <2>1. s2 = [vides |-> s2.vides, allouees |-> s2.allouees]
    BY <1>22 DEF Partage
  <2>2. QED
    BY <1>6, <1>22, <2>1 DEF Etat
<1>24. Init /\ IStable
  <2>1. Init
    BY <1>1 DEF InitPages
  <2>2. QED
    BY <2>1, InitIInv DEF IInv, IStable, Ordonne
<1>25. Annuaire
  <2>1. \A p \in PID : repertoire[p] # 0 <=> p = 0 \/ p = 1
    <3>1. \A p \in PID : p # 0 => a.reps[p] = r0[p]
      BY <1>15 DEF Pareils
    <3>2. \A p \in PID : p # 1 => b.reps[p] = a.reps[p]
      BY <1>22 DEF Pareils
    <3>3. QED
      BY <1>6, <1>9, <1>15, <1>22, <3>1, <3>2
  <2>2. \A p \in PID : p \in Vivants <=> p = 0 \/ p = 1
    BY <1>24, DeuxProcessus, VivantsVifs
  <2>3. QED
    BY <1>6, <1>22, <2>1, <2>2 DEF Annuaire
<1>26. IInvPages /\ MemoireSaine(memoire, repertoire, Espaces(Etat))
  BY <1>6, <1>22, <1>23 DEF IInvPages
<1>27. QED
  BY <1>24, <1>25, <1>26 DEF IInvTables

-----------------------------------------------------------------------------
(* What the invariant says of the properties.                              *)
LEMMA VivantsPourvus ==
  ASSUME Annuaire
  PROVE  Pourvus(repertoire) = Vivants
  BY DEF Annuaire, Pourvus, Vivants

LEMMA InvTablesRendues == IInvTables => TablesRendues
<1>1. SUFFICES ASSUME IInvTables PROVE TablesRendues
  OBVIOUS
<1>2. PICK m, r : m = memoire /\ r = repertoire
  OBVIOUS
<1>3. /\ m \in TypeMemoire /\ m.fusions = {}
      /\ \A p \in Vivants : \E A : Espace(m, r[p], A)
      /\ \A f \in DOMAIN m.cadres : f \in TAS => \E p \in Vivants : f \in Possede(m, r[p])
  <2>1. Pourvus(repertoire) = Vivants
    BY <1>1, VivantsPourvus DEF IInvTables
  <2>2. PICK A : A = Espaces(Etat)
    OBVIOUS
  <2>3. MemoireSaine(m, r, A) /\ Pourvus(r) = Vivants
    BY <1>1, <1>2, <2>1, <2>2 DEF IInvTables
  <2>4. QED
    BY <2>3 DEF MemoireSaine
<1>4. \A p \in PID : repertoire[p] # 0 <=> p \in Vivants
  BY <1>1 DEF IInvTables, Annuaire
<1>5. {f \in DOMAIN m.cadres : f \in TAS} = UNION {Possede(m, r[p]) : p \in Vivants}
  <2>1. \A p \in Vivants : Possede(m, r[p]) \subseteq TAS /\ Possede(m, r[p]) \subseteq DOMAIN m.cadres
    BY <1>3, PossedeProp
  <2>2. QED
    BY <1>3, <2>1
<1>6. m.tas \subseteq TAS /\ m.fusions = {}
  BY <1>3, TypeMemoireProp
<1>9. {f \in DOMAIN m.cadres : f \in TAS} =
        UNION {{r[p]} \cup {m.cadres[r[p]][i].adr : i \in {j \in NNOYAU..NPDE-1 : m.cadres[r[p]][j].p}}
                 : p \in Vivants}
  BY <1>5 DEF Possede, TablesDe
<1>10. QED
  BY <1>2, <1>4, <1>6, <1>9 DEF TablesRendues

(* The frames that the user part of the directory of p points to.          *)
Vue(p) == {e.adr : e \in {x \in UNION {Range(t) : t \in TablesUtilisateur(p)} : x.p}}

LEMMA VueProp ==
  ASSUME NEW p \in Vivants, NEW A, Espace(memoire, repertoire[p], A)
  PROVE  Vue(p) \subseteq A
<1>1. PICK m, r : m = memoire /\ r = repertoire[p]
  OBVIOUS
<1>2. /\ m.cadres[r] \in Repertoires
      /\ \A i \in 0..NNOYAU-1 : m.cadres[r][i] = EntreeNoyau(i)
      /\ \A i \in NNOYAU..NPDE-1 : m.cadres[r][i].p => EstTable(m, m.cadres[r][i].adr, A)
  BY <1>1 DEF Espace
<1>3. ASSUME NEW t \in TablesUtilisateur(p), NEW x \in Range(t), x.p
      PROVE  x.adr \in A
  <2>1. PICK y \in Range(m.cadres[r]) : y.p /\ y.u /\ t = m.cadres[y.adr]
    BY <1>1 DEF TablesUtilisateur
  <2>2. PICK i \in 0..NPDE-1 : y = m.cadres[r][i]
    BY <1>2 DEF Range, Repertoires
  <2>3. i \in NNOYAU..NPDE-1
    <3>1. ASSUME i \in 0..NNOYAU-1 PROVE FALSE
      <4>1. y = EntreeNoyau(i)
        BY <1>2, <2>2, <3>1, Zenon
      <4>2. EntreeNoyau(i).u = FALSE
        BY DEF EntreeNoyau
      <4>3. QED
        BY <2>1, <4>1, <4>2
    <3>2. QED
      BY <2>2, <3>1, TaillesProp, CadresAssumption
  <2>4. EstTable(m, y.adr, A)
    BY <1>2, <2>1, <2>2, <2>3
  <2>5. t \in Tables /\ \A j \in 0..NPTE-1 : t[j].p => t[j].adr \in A
    BY <2>1, <2>4 DEF EstTable
  <2>6. PICK j \in 0..NPTE-1 : x = t[j]
    BY <2>5 DEF Range, Tables
  <2>7. QED
    BY <1>3, <2>5, <2>6
<1>4. QED
  BY <1>3 DEF Vue

(* The records found for two processes are not the same.                   *)
LEMMA PagesDeProp ==
  ASSUME NEW s, Partage(s), NEW p
  PROVE  /\ PagesDe(s, p) \subseteq Pool /\ PagesDe(s, p) \cap s.vides = {}
         /\ \A q : q # p => PagesDe(s, p) \cap PagesDe(s, q) = {}
<1>1. s.allouees \in Seq(Possibles)
  BY DEF Partage
<1>2. ASSUME NEW q, PagesDe(s, q) # {}
      PROVE  \E i \in DOMAIN s.allouees : s.allouees[i].pid = q /\ PagesDe(s, q) = s.allouees[i].adresses
  <2>1. PICK i : i = Min(Fiches(s, q))
    OBVIOUS
  <2>2. Fiches(s, q) # {}
    BY <1>2 DEF PagesDe
  <2>3. i \in 1..Len(s.allouees) /\ i \in Fiches(s, q)
    BY <1>1, <2>1, <2>2, FicheProp
  <2>4. QED
    BY <2>1, <2>2, <2>3 DEF PagesDe, Fiche, Fiches
<1>3. \A i \in DOMAIN s.allouees : s.allouees[i].adresses \subseteq Pool
  <2>1. \A i \in DOMAIN s.allouees : s.allouees[i] \in Possibles
    BY <1>1
  <2>2. QED
    BY <2>1 DEF Possibles
<1>4. PagesDe(s, p) \subseteq Pool /\ PagesDe(s, p) \cap s.vides = {}
  BY <1>2, <1>3 DEF Partage
<1>5. ASSUME NEW q, q # p, NEW f \in PagesDe(s, p), f \in PagesDe(s, q) PROVE FALSE
  <2>1. PICK i \in DOMAIN s.allouees : s.allouees[i].pid = p /\ PagesDe(s, p) = s.allouees[i].adresses
    BY <1>2, <1>5
  <2>2. PICK j \in DOMAIN s.allouees : s.allouees[j].pid = q /\ PagesDe(s, q) = s.allouees[j].adresses
    BY <1>2, <1>5
  <2>3. i # j
    BY <1>5, <2>1, <2>2
  <2>4. QED
    BY <1>5, <2>1, <2>2, <2>3 DEF Partage
<1>6. QED
  BY <1>4, <1>5

LEMMA InvEspacesDisjoints == IInvTables => EspacesDisjoints
<1>1. SUFFICES ASSUME IInvTables PROVE EspacesDisjoints
  OBVIOUS
<1>2. Partage(Etat) /\ Etat.vides = pages_vides
  BY <1>1 DEF IInvTables, IInvPages, Etat
<1>3. ASSUME NEW p \in Vivants PROVE Vue(p) \subseteq PagesDe(Etat, p)
  <2>1. p \in PID /\ p \in Pourvus(repertoire)
    BY <1>1, VivantsPourvus DEF IInvTables, Vivants
  <2>2. PICK A : A = Espaces(Etat)
    OBVIOUS
  <2>3. Espace(memoire, repertoire[p], A[p])
    BY <1>1, <2>1, <2>2 DEF IInvTables, MemoireSaine
  <2>4. A[p] = PagesDe(Etat, p)
    BY <2>1, <2>2 DEF Espaces
  <2>5. QED
    BY <2>3, <2>4, VueProp
<1>4. PICK v : v = [p \in Vivants |-> Vue(p)]
  OBVIOUS
<1>5. \A p \in Vivants : /\ v[p] \cap pages_vides = {}
                         /\ v[p] \subseteq Pool
                         /\ \A q \in Vivants \ {p} : v[p] \cap v[q] = {}
  <2>1. SUFFICES ASSUME NEW p \in Vivants
                 PROVE  /\ Vue(p) \cap pages_vides = {}
                        /\ Vue(p) \subseteq Pool
                        /\ \A q \in Vivants \ {p} : Vue(p) \cap Vue(q) = {}
    BY <1>4
  <2>2. /\ PagesDe(Etat, p) \subseteq Pool /\ PagesDe(Etat, p) \cap pages_vides = {}
        /\ \A q : q # p => PagesDe(Etat, p) \cap PagesDe(Etat, q) = {}
    BY <1>2, PagesDeProp
  <2>3. QED
    BY <1>3, <2>2
<1>6. QED
  BY <1>4, <1>5 DEF EspacesDisjoints, Vue

(* A table of the kernel, whatever free has written in the first one.      *)
LEMMA ConformeProp ==
  ASSUME NEW i \in 0..NNOYAU-1, NEW c, Conforme(PGTAB + i, c), NEW j \in 0..NPTE-1
  PROVE  IF i * NPTE + j = 0 THEN ~c[j].p ELSE c[j] = PageNoyau(i * NPTE + j)
<1>1. NPTE \in Nat /\ NPTE >= 2 /\ PGTAB \in Nat /\ NNOYAU \in Nat
  BY TaillesProp, CadresAssumption
<1>2. i * NPTE + j = 0 <=> i = 0 /\ j = 0
  <2>1. CASE i = 0
    BY <1>1, <2>1
  <2>2. CASE i # 0
    <3>1. i * NPTE >= NPTE
      BY <1>1, <2>2
    <3>2. QED
      BY <1>1, <2>2, <3>1
  <2>3. QED
    BY <2>1, <2>2
<1>3. early_mm_map_kernel[PGTAB + i][j] = PageNoyau(i * NPTE + j)
  BY CarteNoyau
<1>4. CASE i # 0
  BY <1>1, <1>2, <1>3, <1>4 DEF Conforme
<1>5. CASE i = 0
  <2>1. PGTAB + i = PGTAB
    BY <1>1, <1>5
  <2>2. ~c[0].p /\ \A k \in 1..NPTE-1 : c[k] = early_mm_map_kernel[PGTAB + i][k]
    BY <2>1 DEF Conforme
  <2>3. CASE j = 0
    BY <1>2, <1>5, <2>2, <2>3
  <2>4. CASE j # 0
    <3>1. j \in 1..NPTE-1
      BY <1>1, <2>4
    <3>2. QED
      BY <1>2, <1>3, <2>2, <2>4, <3>1
  <2>5. QED
    BY <2>3, <2>4
<1>6. QED
  BY <1>4, <1>5

LEMMA InvNoyauCommun == IInvTables => NoyauCommun
<1>1. SUFFICES ASSUME IInvTables PROVE NoyauCommun
  OBVIOUS
<1>2. PICK s : s = SECTIONS
  OBVIOUS
<1>3. PICK rw : rw = (s._bootstrap_stack_start..s._bootstrap_stack_end-1)
                       \cup (s._data_start..s._data_end-1)
  OBVIOUS
<1>4. ASSUME NEW p \in Vivants, NEW v \in 0..NNOYAU*NPTE-1
      PROVE  IF v = 0 THEN ~Entree(p, v).p ELSE Entree(p, v) = PageNoyau(v)
  <2>1. PICK m, r : m = memoire /\ r = repertoire[p]
    OBVIOUS
  <2>2. p \in Pourvus(repertoire)
    BY <1>1, VivantsPourvus DEF IInvTables
  <2>3. PICK A : Espace(m, r, A)
    BY <1>1, <2>1, <2>2 DEF IInvTables, MemoireSaine
  <2>4. /\ NPTE \in Nat \ {0} /\ NNOYAU \in Nat \ {0}
        /\ \A i \in 0..NNOYAU-1 : Conforme(PGTAB + i, m.cadres[PGTAB + i])
    <3>1. \A f \in Noyaux : Conforme(f, m.cadres[f])
      BY <1>1, <2>1 DEF IInvTables, MemoireSaine
    <3>2. QED
      BY <3>1, TaillesProp, CadresAssumption DEF Noyaux
  <2>5. PICK i, j : i = v \div NPTE /\ j = v % NPTE
    OBVIOUS
  <2>6. i \in 0..NNOYAU-1 /\ j \in 0..NPTE-1 /\ i * NPTE + j = v
    <3>1. NNOYAU * NPTE \in Nat /\ v \in Nat /\ v < NNOYAU * NPTE
      BY <2>4
    <3>2. i \in Nat /\ j \in 0..NPTE-1 /\ v = i * NPTE + j
      BY <2>4, <2>5, <3>1
    <3>3. i * NPTE < NNOYAU * NPTE
      BY <2>4, <3>1, <3>2
    <3>4. i < NNOYAU
      BY <2>4, <3>2, <3>3
    <3>5. QED
      BY <2>4, <3>2, <3>4
  <2>7. m.cadres[r][i] = EntreeNoyau(i)
    BY <2>3, <2>6 DEF Espace
  <2>8. EntreeNoyau(i).p /\ EntreeNoyau(i).adr = PGTAB + i
    BY DEF EntreeNoyau
  <2>9. Entree(p, v) = m.cadres[PGTAB + i][j]
    BY <2>1, <2>5, <2>7, <2>8 DEF Entree
  <2>10. IF i * NPTE + j = 0 THEN ~m.cadres[PGTAB + i][j].p
         ELSE m.cadres[PGTAB + i][j] = PageNoyau(i * NPTE + j)
    BY <2>4, <2>6, ConformeProp
  <2>11. QED
    BY <2>6, <2>9, <2>10
<1>5. ASSUME NEW p \in Vivants, NEW v \in 0..NNOYAU*NPTE-1
      PROVE  IF v = 0 THEN ~Entree(p, v).p
             ELSE Entree(p, v) = [p |-> TRUE, u |-> FALSE, adr |-> v,
                                  r |-> v \in rw \/ v \notin LectureSeule]
  <2>1. CASE v = 0
    BY <1>4, <2>1
  <2>2. CASE v # 0
    <3>1. Entree(p, v) = [p |-> TRUE, r |-> v \in rw \/ v \notin LectureSeule, u |-> FALSE, adr |-> v]
      BY <1>2, <1>3, <1>4, <2>2 DEF PageNoyau
    <3>2. PICK b \in BOOLEAN : b = (v \in rw \/ v \notin LectureSeule)
      OBVIOUS
    <3>3. [p |-> TRUE, r |-> b, u |-> FALSE, adr |-> v] = [p |-> TRUE, u |-> FALSE, adr |-> v, r |-> b]
      OBVIOUS
    <3>4. QED
      BY <2>2, <3>1, <3>2, <3>3
  <2>3. QED
    BY <2>1, <2>2
<1>6. QED
  BY <1>2, <1>3, <1>5 DEF NoyauCommun

LEMMA InvariantTables == SpecPages => []IInvTables
  BY InitIInvTables, IInvTablesStable, PTL DEF SpecPages

(* A process has a directory as long as it lives and gives back all the    *)
(* frames of its directory and of its tables; free_page, which starts its  *)
(* pointer 64 entries too low, gives to free the tables of the kernel      *)
(* besides, and none of them becomes a part of the heap.                   *)
THEOREM TablesRenduesCorrect == SpecPages => []TablesRendues
  BY InvariantTables, InvTablesRendues, PTL

(* What two living processes see at user addresses never overlaps and is   *)
(* no free page, whatever the record that start finds.                     *)
THEOREM EspacesDisjointsCorrect == SpecPages => []EspacesDisjoints
  BY InvariantTables, InvEspacesDisjoints, PTL

(* Every process sees the kernel as early_mm.c maps it at boot, whatever   *)
(* free writes in the kernel's tables that the ends of processes give it:  *)
(* page 0 stays unmapped and the other pages keep their entries.           *)
THEOREM NoyauCommunCorrect == SpecPages => []NoyauCommun
  BY InvariantTables, InvNoyauCommun, PTL

-----------------------------------------------------------------------------
(* Recursion and induction where a step may go back further than by one.   *)
LEMMA RecurrenceForte ==
  ASSUME NEW N \in Nat, NEW A, 0 \in A, \A n \in 1..N : (\A k \in 0..n-1 : k \in A) => n \in A
  PROVE  0..N \subseteq A
<1>1. SUFFICES ASSUME NEW x \in 0..N, x \notin A PROVE FALSE
  OBVIOUS
<1> DEFINE T == {n \in 0..N : n \notin A}
<1>2. T \in SUBSET Nat /\ T # {}
  BY <1>1
<1>3. PICK n \in T : \A m \in T : n <= m
  BY <1>2, PlusPetit
<1>4. n \in 1..N /\ n \notin A
  BY <1>3
<1>5. \A k \in 0..n-1 : k \in A
  <2>1. SUFFICES ASSUME NEW k \in 0..n-1, k \notin A PROVE FALSE
    OBVIOUS
  <2>2. k \in T /\ n \in Nat /\ k \in Nat /\ k < n
    BY <1>4, <2>1
  <2>3. n <= k
    BY <1>3, <2>2
  <2>4. QED
    BY <2>2, <2>3
<1>6. QED
  BY <1>4, <1>5

EstRecursive(f, N, x, F, d) == f[0] = x /\ \A s \in 1..N : f[s] = F[s][f[d[s]]]

LEMMA RecursionForte ==
  ASSUME NEW N \in Nat, NEW X, NEW x \in X, NEW F \in [1..N -> [X -> X]],
         NEW d \in [1..N -> Nat], \A s \in 1..N : d[s] < s
  PROVE  \E f \in [0..N -> X] : EstRecursive(f, N, x, F, d)
<1> DEFINE A == {n \in 0..N : \E f \in [0..n -> X] : EstRecursive(f, n, x, F, d)}
<1>1. 0 \in A
  <2>1. PICK f : f = [s \in 0..0 |-> x]
    OBVIOUS
  <2>2. f \in [0..0 -> X] /\ f[0] = x /\ \A s \in 1..0 : FALSE
    BY <2>1
  <2>3. QED
    BY <2>2 DEF EstRecursive
<1>2. ASSUME NEW n \in 1..N, n-1 \in A PROVE n \in A
  <2>1. PICK f \in [0..n-1 -> X] : EstRecursive(f, n-1, x, F, d)
    BY <1>2
  <2>2. d[n] \in 0..n-1 /\ f[d[n]] \in X /\ F[n][f[d[n]]] \in X
    OBVIOUS
  <2>3. PICK g : g = [s \in 0..n |-> IF s = n THEN F[n][f[d[n]]] ELSE f[s]]
    OBVIOUS
  <2>4. g \in [0..n -> X] /\ \A s \in 0..n-1 : g[s] = f[s]
    BY <2>2, <2>3
  <2>5. g[0] = x
    BY <2>1, <2>4 DEF EstRecursive
  <2>6. ASSUME NEW s \in 1..n PROVE g[s] = F[s][g[d[s]]]
    <3>1. d[s] \in 0..n-1
      BY <2>6
    <3>2. g[d[s]] = f[d[s]]
      BY <2>4, <3>1
    <3>3. CASE s = n
      BY <2>3, <3>2, <3>3
    <3>4. CASE s # n
      <4>1. s \in 1..n-1
        BY <3>4
      <4>2. QED
        BY <2>1, <2>4, <3>2, <4>1 DEF EstRecursive
    <3>5. QED
      BY <3>3, <3>4
  <2>7. EstRecursive(g, n, x, F, d)
    BY <2>5, <2>6 DEF EstRecursive
  <2>8. n \in 0..N
    OBVIOUS
  <2>9. QED
    BY <2>4, <2>7, <2>8
<1> HIDE DEF A
<1>3. 0..N \subseteq A
  BY <1>1, <1>2, RecurrenceEntiers
<1>4. N \in A
  BY <1>3
<1>5. QED
  BY <1>4 DEF A

-----------------------------------------------------------------------------
(* gdb_copyin, given what phys_addr_lookup answers: at address va the bytes *)
(* of M that follow are those of B, one after the other.                    *)
Fidele(r, va, Z, M, B) ==
  /\ r.paddr \in Nat /\ r.len \in Nat /\ (r.len = 0 <=> va \notin M)
  /\ \A k \in 0..r.len-1 : va + k < Z => va + k \in M /\ B[va + k] = r.paddr + k

Resultats == [ok : BOOLEAN, octets : Seq(Nat)]

Suite(r, s) == IF r.len > s THEN s ELSE r.len

Octets(r, n) == [i \in 1..n |-> r.paddr + i - 1]

Etape(r, s, suite) ==
  IF s = 0 THEN [ok |-> TRUE, octets |-> << >>]
  ELSE IF r.len = 0 THEN [ok |-> FALSE, octets |-> << >>]
  ELSE [ok |-> suite.ok, octets |-> Octets(r, Suite(r, s)) \o suite.octets]

LEMMA OctetsType ==
  ASSUME NEW r, r.paddr \in Nat, NEW n \in Nat
  PROVE  Octets(r, n) \in Seq(Nat) /\ Len(Octets(r, n)) = n
<1>1. PICK o : o = Octets(r, n)
  OBVIOUS
<1>2. o \in [1..n -> Nat]
  BY <1>1 DEF Octets
<1>3. QED
  BY <1>1, <1>2

LEMMA EtapeType ==
  ASSUME NEW r, r.paddr \in Nat, r.len \in Nat, NEW s \in Nat, NEW x \in Resultats
  PROVE  Etape(r, s, x) \in Resultats
<1>1. << >> \in Seq(Nat)
  OBVIOUS
<1>2. x.ok \in BOOLEAN /\ x.octets \in Seq(Nat)
  BY DEF Resultats
<1>3. Octets(r, Suite(r, s)) \o x.octets \in Seq(Nat)
  <2>1. Suite(r, s) \in Nat
    BY DEF Suite
  <2>2. PICK o : o = Octets(r, Suite(r, s))
    OBVIOUS
  <2>3. o \in Seq(Nat)
    BY <2>1, <2>2, OctetsType
  <2>4. PICK q : q = x.octets
    OBVIOUS
  <2>5. o \o q \in Seq(Nat)
    BY <1>2, <2>3, <2>4, ConcatProperties
  <2>6. QED
    BY <2>2, <2>4, <2>5
<1>4. CASE s = 0
  BY <1>1, <1>4 DEF Etape, Resultats
<1>5. CASE s # 0 /\ r.len = 0
  BY <1>1, <1>5 DEF Etape, Resultats
<1>6. CASE s # 0 /\ r.len # 0
  <2>1. PICK q : q = Octets(r, Suite(r, s)) \o x.octets
    OBVIOUS
  <2>2. Etape(r, s, x) = [ok |-> x.ok, octets |-> q]
    BY <1>6, <2>1 DEF Etape
  <2>3. QED
    BY <1>2, <1>3, <2>1, <2>2 DEF Resultats
<1>7. QED
  BY <1>4, <1>5, <1>6

(* What is copied when s bytes remain, up to address fin.                  *)
Copie(x, fin, s, M, B) ==
  /\ x \in Resultats
  /\ x.ok <=> \A va \in fin-s..fin-1 : va \in M
  /\ x.ok => Len(x.octets) = s /\ \A i \in 1..s : x.octets[i] = B[fin - s + i - 1]

LEMMA EtapeProp ==
  ASSUME NEW Z \in Nat, NEW M, NEW B, NEW fin \in 0..Z, NEW s \in 1..fin,
         NEW r, Fidele(r, fin - s, Z, M, B), NEW x, Copie(x, fin, s - Suite(r, s), M, B)
  PROVE  Copie(Etape(r, s, x), fin, s, M, B)
<1>1. PICK va \in Nat : va = fin - s
  OBVIOUS
<1>2. PICK n : n = Suite(r, s)
  OBVIOUS
<1>3. /\ r.paddr \in Nat /\ r.len \in Nat /\ (r.len = 0 <=> va \notin M)
      /\ \A k \in 0..r.len-1 : va + k < Z => va + k \in M /\ B[va + k] = r.paddr + k
  BY <1>1 DEF Fidele
<1>4. x \in Resultats /\ Etape(r, s, x) \in Resultats
  BY <1>3, EtapeType DEF Copie
<1>5. CASE r.len = 0
  <2>1. Etape(r, s, x).ok = FALSE
    BY <1>5 DEF Etape
  <2>2. va \in fin-s..fin-1 /\ va \notin M
    BY <1>1, <1>3, <1>5
  <2>3. QED
    BY <1>4, <2>1, <2>2 DEF Copie
<1>6. CASE r.len # 0
  <2>1. n \in 1..s /\ n <= r.len
    BY <1>2, <1>3, <1>6 DEF Suite
  <2>2. PICK o, q : o = Octets(r, n) /\ q = x.octets
    OBVIOUS
  <2>3. /\ o \in Seq(Nat) /\ Len(o) = n /\ q \in Seq(Nat) /\ x.ok \in BOOLEAN
        /\ \A i \in 1..n : o[i] = r.paddr + i - 1
    <3>1. o \in Seq(Nat) /\ Len(o) = n
      BY <1>3, <2>1, <2>2, OctetsType
    <3>2. \A i \in 1..n : o[i] = r.paddr + i - 1
      BY <2>2 DEF Octets
    <3>3. QED
      BY <1>4, <2>2, <3>1, <3>2 DEF Resultats
  <2>4. PICK e : e = Etape(r, s, x)
    OBVIOUS
  <2>5. e = [ok |-> x.ok, octets |-> o \o q]
    BY <1>2, <1>6, <2>2, <2>4 DEF Etape
  <2>6. e.ok = x.ok /\ e.octets = o \o q
    BY <2>5
  <2>7. \A k \in 0..n-1 : va + k \in M /\ B[va + k] = r.paddr + k
    <3>1. \A k \in 0..n-1 : k \in 0..r.len-1 /\ va + k < Z
      BY <1>1, <1>3, <2>1
    <3>2. QED
      BY <1>3, <3>1
  <2>8. /\ x.ok <=> \A y \in fin-(s-n)..fin-1 : y \in M
        /\ x.ok => Len(q) = s-n /\ \A i \in 1..s-n : q[i] = B[fin - (s-n) + i - 1]
    BY <1>2, <2>2 DEF Copie
  <2>9. e.ok <=> \A y \in fin-s..fin-1 : y \in M
    <3>1. ASSUME NEW y \in fin-s..fin-1 PROVE y \in fin-(s-n)..fin-1 \/ y \in M
      <4>1. CASE y < va + n
        <5>1. y - va \in 0..n-1 /\ va + (y - va) = y
          BY <1>1, <2>1, <3>1, <4>1
        <5>2. QED
          BY <2>7, <5>1
      <4>2. CASE y >= va + n
        BY <1>1, <2>1, <3>1, <4>2
      <4>3. QED
        BY <1>1, <2>1, <3>1, <4>1, <4>2
    <3>2. \A y \in fin-(s-n)..fin-1 : y \in fin-s..fin-1
      BY <2>1
    <3>3. QED
      BY <2>6, <2>8, <3>1, <3>2
  <2>10. ASSUME e.ok
         PROVE  Len(e.octets) = s /\ \A i \in 1..s : e.octets[i] = B[fin - s + i - 1]
    <3>1. Len(q) = s-n /\ \A i \in 1..s-n : q[i] = B[fin - (s-n) + i - 1]
      BY <2>6, <2>8, <2>10
    <3>2. /\ Len(o \o q) = Len(o) + Len(q)
          /\ \A i \in 1..Len(o) + Len(q) : (o \o q)[i] = IF i <= Len(o) THEN o[i] ELSE q[i - Len(o)]
      BY <2>3, ConcatProperties
    <3>3. Len(o) + Len(q) = s
      BY <2>1, <2>3, <3>1
    <3>4. ASSUME NEW i \in 1..s PROVE (o \o q)[i] = B[fin - s + i - 1]
      <4>1. (o \o q)[i] = IF i <= n THEN o[i] ELSE q[i - n]
        BY <2>3, <3>2, <3>3
      <4>2. CASE i <= n
        <5>1. i \in 1..n /\ i-1 \in 0..n-1 /\ va + (i-1) = fin - s + i - 1 /\ r.paddr + (i-1) = r.paddr + i - 1
          BY <1>1, <1>3, <2>1, <4>2
        <5>2. o[i] = r.paddr + i - 1
          BY <2>3, <5>1
        <5>3. B[va + (i-1)] = r.paddr + (i-1)
          BY <2>7, <5>1
        <5>4. QED
          BY <4>1, <4>2, <5>1, <5>2, <5>3
      <4>3. CASE i > n
        <5>1. i-n \in 1..s-n /\ fin - (s-n) + (i-n) - 1 = fin - s + i - 1
          BY <2>1, <4>3
        <5>2. q[i-n] = B[fin - s + i - 1]
          BY <3>1, <5>1
        <5>3. QED
          BY <2>1, <4>1, <4>3, <5>2
      <4>4. i <= n \/ i > n
        BY <2>1
      <4>5. QED
        BY <4>2, <4>3, <4>4
    <3>5. QED
      BY <2>6, <3>2, <3>3, <3>4
  <2>11. QED
    BY <1>4, <2>4, <2>9, <2>10 DEF Copie
<1>7. QED
  BY <1>5, <1>6

LEMMA CopieProp ==
  ASSUME NEW m, NEW cr3, NEW Z \in Nat, NEW M, NEW B,
         \A va \in 0..Z-1 : Fidele(phys_addr_lookup(m, cr3, va), va, Z, M, B),
         NEW a \in Nat, NEW size \in Nat, a + size <= Z
  PROVE  Copie(gdb_copyin(m, cr3, a, size), a + size, size, M, B)
<1> DEFINE R(s) == phys_addr_lookup(m, cr3, a + size - s)
           Egal(f) == f = [s \in 0..size |-> Etape(R(s), s, f[s - Suite(R(s), s)])]
<1>1. PICK fin \in 0..Z : fin = a + size
  OBVIOUS
<1>2. ASSUME NEW s \in 1..size
      PROVE  /\ R(s).paddr \in Nat /\ R(s).len \in Nat
             /\ Fidele(R(s), fin - s, Z, M, B) /\ s \in 1..fin
  <2>1. fin - s \in 0..Z-1 /\ fin - s = a + size - s /\ s \in 1..fin
    BY <1>1
  <2>2. Fidele(R(s), fin - s, Z, M, B)
    BY <2>1
  <2>3. QED
    BY <2>1, <2>2 DEF Fidele
<1>3. \A x, y : Etape(R(0), 0, x) = Etape(R(0), 0, y)
  BY DEF Etape
<1>4. PICK x0 : x0 = [ok |-> TRUE, octets |-> << >>]
  OBVIOUS
<1>5. x0 \in Resultats /\ \A x : Etape(R(0), 0, x) = x0
  BY <1>4 DEF Etape, Resultats
<1> HIDE DEF R
<1>6. \E f : Egal(f)
  <2>1. PICK F : F = [s \in 1..size |-> [x \in Resultats |-> Etape(R(s), s, x)]]
    OBVIOUS
  <2>2. F \in [1..size -> [Resultats -> Resultats]]
    BY <1>2, <2>1, EtapeType
  <2>3. PICK d : d = [s \in 1..size |-> IF R(s).len = 0 THEN 0 ELSE s - Suite(R(s), s)]
    OBVIOUS
  <2>4. d \in [1..size -> Nat] /\ \A s \in 1..size : d[s] < s
    <3>1. ASSUME NEW s \in 1..size PROVE d[s] \in Nat /\ d[s] < s
      BY <1>2, <2>3 DEF Suite
    <3>2. QED
      BY <2>3, <3>1
  <2>5. PICK f \in [0..size -> Resultats] : EstRecursive(f, size, x0, F, d)
    BY <1>5, <2>2, <2>4, RecursionForte
  <2>6. ASSUME NEW s \in 0..size PROVE f[s] = Etape(R(s), s, f[s - Suite(R(s), s)])
    <3>1. CASE s = 0
      BY <1>5, <2>5, <3>1 DEF EstRecursive
    <3>2. CASE s # 0
      <4>1. s \in 1..size /\ d[s] \in 0..size
        BY <2>4, <3>2
      <4>2. f[s] = Etape(R(s), s, f[d[s]])
        BY <2>1, <2>5, <4>1 DEF EstRecursive
      <4>3. CASE R(s).len = 0
        BY <3>2, <4>2, <4>3 DEF Etape
      <4>4. CASE R(s).len # 0
        BY <2>3, <4>1, <4>2, <4>4
      <4>5. QED
        BY <4>3, <4>4
    <3>3. QED
      BY <3>1, <3>2
  <2>7. QED
    BY <2>6
<1>7. PICK f : Egal(f) /\ gdb_copyin(m, cr3, a, size) = f[size]
  BY <1>6 DEF gdb_copyin, R, Etape, Suite, Octets
<1>8. \A s \in 0..size : f[s] = Etape(R(s), s, f[s - Suite(R(s), s)])
  BY <1>7
<1> HIDE DEF Egal
<1> DEFINE A == {s \in 0..size : Copie(f[s], fin, s, M, B)}
<1>9. 0 \in A
  <2>1. f[0] = x0
    BY <1>5, <1>8
  <2>2. Len(<< >>) = 0
    OBVIOUS
  <2>3. Copie(x0, fin, 0, M, B)
    BY <1>4, <1>5, <2>2 DEF Copie
  <2>4. QED
    BY <2>1, <2>3
<1>10. ASSUME NEW s \in 1..size, \A k \in 0..s-1 : k \in A PROVE s \in A
  <2>1. s \in 0..size /\ f[s] = Etape(R(s), s, f[s - Suite(R(s), s)])
    BY <1>8
  <2>2. Fidele(R(s), fin - s, Z, M, B) /\ R(s).len \in Nat /\ s \in 1..fin
    BY <1>2
  <2>3. CASE R(s).len # 0
    <3>1. s - Suite(R(s), s) \in 0..s-1
      BY <2>2, <2>3 DEF Suite
    <3>2. PICK x : x = f[s - Suite(R(s), s)]
      OBVIOUS
    <3>3. Copie(x, fin, s - Suite(R(s), s), M, B)
      BY <1>10, <3>1, <3>2
    <3>4. Copie(Etape(R(s), s, x), fin, s, M, B)
      BY <2>2, <3>3, EtapeProp
    <3>5. QED
      BY <2>1, <3>2, <3>4
  <2>4. CASE R(s).len = 0
    <3>1. f[s] = [ok |-> FALSE, octets |-> << >>]
      BY <2>1, <2>4 DEF Etape
    <3>2. f[s] \in Resultats /\ f[s].ok = FALSE
      BY <3>1 DEF Resultats
    <3>3. fin - s \notin M /\ fin - s \in fin-s..fin-1
      BY <2>2, <2>4 DEF Fidele
    <3>4. QED
      BY <3>2, <3>3 DEF Copie
  <2>5. QED
    BY <2>3, <2>4
<1> HIDE DEF A
<1>11. 0..size \subseteq A
  BY <1>9, <1>10, RecurrenceForte
<1>12. size \in A
  BY <1>11
<1>13. QED
  BY <1>1, <1>7, <1>12 DEF A

-----------------------------------------------------------------------------
(* The walk through the tables, page by page: what phys_addr_lookup        *)
(* answers is what the entry of the page says, up to the end of the page.  *)
LEMMA MemePage ==
  ASSUME NEW b \in Nat \ {0}, NEW va \in Nat, NEW k \in Nat, k < b - (va % b)
  PROVE  (va + k) \div b = va \div b /\ (va + k) % b = (va % b) + k
<1>1. PICK q \in Nat, r \in 0..b-1 : q = va \div b /\ r = va % b /\ va = q * b + r
  BY Decomposition
<1>2. PICK s \in 0..b-1 : s = r + k
  <2>1. k < b - r
    BY <1>1
  <2>2. r + k \in 0..b-1
    BY <2>1
  <2>3. QED
    BY <2>2
<1>3. PICK z : z = va + k
  OBVIOUS
<1>4. q * b \in Nat
  OBVIOUS
<1>5. z = q * b + s
  BY <1>1, <1>2, <1>3, <1>4
<1>6. z \div b = q /\ z % b = s
  BY <1>5, Quotient
<1>7. QED
  BY <1>1, <1>2, <1>3, <1>6

EspaceAdresses == NPDE * (TAILLE_PAGE * NPTE)

LEMMA PageAdresse ==
  ASSUME NEW va \in 0..EspaceAdresses-1
  PROVE  /\ va \in Nat /\ va \div TAILLE_PAGE \in Nat
         /\ (va \div TAILLE_PAGE) \div NPTE \in 0..NPDE-1
         /\ IndexRepertoire(va) = (va \div TAILLE_PAGE) \div NPTE
         /\ IndexTable(va) = (va \div TAILLE_PAGE) % NPTE
<1>1. TAILLE_PAGE \in Nat \ {0} /\ NPTE \in Nat \ {0} /\ NPDE \in Nat \ {0}
  BY TaillesProp
<1>2. PICK m \in Nat \ {0} : m = TAILLE_PAGE * NPTE
  BY <1>1, DeuxDivisions
<1>3. NPDE * m \in Nat /\ va \in Nat /\ va < NPDE * m
  BY <1>1, <1>2 DEF EspaceAdresses
<1>4. PICK q \in Nat, r \in 0..m-1 : q = va \div m /\ va = q * m + r
  <2>1. va \div m \in Nat /\ va % m \in 0..m-1 /\ va = (va \div m) * m + (va % m)
    BY <1>3, Decomposition
  <2>2. QED
    BY <2>1
<1>5. q < NPDE
  <2>1. SUFFICES ASSUME q >= NPDE PROVE FALSE
    BY <1>1
  <2>2. q * m >= NPDE * m
    BY <1>1, <2>1
  <2>3. q * m \in Nat
    OBVIOUS
  <2>4. QED
    BY <1>3, <1>4, <2>2, <2>3
<1>6. q % NPDE = q
  BY <1>1, <1>5
<1>7. va \div m = (va \div TAILLE_PAGE) \div NPTE
  BY <1>1, <1>2, <1>3, DeuxDivisions
<1>8. IndexRepertoire(va) = q /\ IndexTable(va) = (va \div TAILLE_PAGE) % NPTE
  BY <1>2, <1>3, <1>4, <1>6, IndexProp
<1>9. va \div TAILLE_PAGE \in Nat
  BY <1>1, <1>3, Decomposition
<1>10. QED
  BY <1>1, <1>3, <1>4, <1>5, <1>7, <1>8, <1>9

LEMMA EntreeType ==
  ASSUME NEW m, NEW reps, NEW A, MemoireSaine(m, reps, A), NEW p \in Pourvus(reps),
         NEW i \in 0..NPDE-1, NEW j \in 0..NPTE-1
  PROVE  LET pde == m.cadres[reps[p]][i]
         IN IF pde.p THEN m.cadres[pde.adr][j] \in TypeEntree ELSE VIDE \in TypeEntree
<1>1. PICK r : r = reps[p]
  OBVIOUS
<1>2. Espace(m, r, A[p])
  BY <1>1 DEF MemoireSaine
<1>3. PICK e : e = m.cadres[r][i]
  OBVIOUS
<1>4. ASSUME e.p PROVE m.cadres[e.adr] \in Tables
  <2>1. CASE i \in 0..NNOYAU-1
    <3>1. e = EntreeNoyau(i)
      BY <1>2, <1>3, <2>1, Zenon DEF Espace
    <3>2. e.adr = PGTAB + i
      BY <3>1 DEF EntreeNoyau
    <3>3. Conforme(PGTAB + i, m.cadres[PGTAB + i])
      BY <2>1 DEF MemoireSaine, Noyaux
    <3>4. early_mm_map_kernel[PGTAB + i] \in Tables
      BY <2>1, CarteNoyau DEF Cartes
    <3>5. QED
      BY <3>2, <3>3, <3>4 DEF Conforme
  <2>2. CASE i \in NNOYAU..NPDE-1
    <3>1. EstTable(m, e.adr, A[p])
      BY <1>2, <1>3, <1>4, <2>2 DEF Espace
    <3>2. QED
      BY <3>1 DEF EstTable
  <2>3. QED
    BY <2>1, <2>2, TaillesProp, CadresAssumption
<1>5. e.p => m.cadres[e.adr][j] \in TypeEntree
  BY <1>4 DEF Tables
<1>6. QED
  BY <1>1, <1>3, <1>5, VideType

LEMMA Traduction ==
  ASSUME IInvTables, NEW p \in Vivants, NEW va \in 0..EspaceAdresses-1,
         NEW e, e = Entree(p, va \div TAILLE_PAGE),
         NEW r, r = phys_addr_lookup(memoire, repertoire[p], va)
  PROVE  /\ e \in TypeEntree
         /\ e.p  => /\ r.paddr = e.adr * TAILLE_PAGE + (va % TAILLE_PAGE)
                    /\ r.len = TAILLE_PAGE - (va % TAILLE_PAGE)
         /\ ~e.p => r.paddr = 0 /\ r.len = 0
<1>1. PICK v : v = va \div TAILLE_PAGE
  OBVIOUS
<1>2. PICK i, j : i = v \div NPTE /\ j = v % NPTE
  OBVIOUS
<1>3. i \in 0..NPDE-1 /\ j \in 0..NPTE-1 /\ IndexRepertoire(va) = i /\ IndexTable(va) = j
  BY <1>1, <1>2, PageAdresse, IndexProp
<1>4. PICK m, d : m = memoire /\ d = repertoire[p]
  OBVIOUS
<1>5. PICK pde : pde = m.cadres[d][i]
  OBVIOUS
<1>6. e = IF pde.p THEN m.cadres[pde.adr][j] ELSE VIDE
  BY <1>1, <1>2, <1>4, <1>5 DEF Entree
<1>7. e \in TypeEntree
  <2>1. PICK A : A = Espaces(Etat)
    OBVIOUS
  <2>2. p \in Pourvus(repertoire) /\ MemoireSaine(memoire, repertoire, A)
    BY <2>1, VivantsPourvus DEF IInvTables
  <2>3. IF pde.p THEN m.cadres[pde.adr][j] \in TypeEntree ELSE VIDE \in TypeEntree
    BY <1>3, <1>4, <1>5, <2>2, EntreeType
  <2>4. QED
    BY <1>6, <2>3
<1>8. PICK pte : pte = m.cadres[pde.adr][j]
  OBVIOUS
<1>9. r = IF ~pde.p THEN [paddr |-> 0, len |-> 0]
          ELSE IF ~pte.p THEN [paddr |-> 0, len |-> 0]
          ELSE [paddr |-> pte.adr * TAILLE_PAGE + (va % TAILLE_PAGE),
                len |-> TAILLE_PAGE - (va % TAILLE_PAGE)]
  BY <1>3, <1>4, <1>5, <1>8 DEF phys_addr_lookup
<1>10. CASE pde.p
  <2>1. e = pte
    BY <1>6, <1>8, <1>10
  <2>2. QED
    BY <1>7, <1>9, <1>10, <2>1
<1>11. CASE ~pde.p
  <2>1. ~e.p
    BY <1>6, <1>11, VideType
  <2>2. QED
    BY <1>7, <1>9, <1>11, <2>1
<1>12. QED
  BY <1>10, <1>11

(* The addresses that are mapped, and what they are mapped to.             *)
Projetees(p) == {va \in 0..EspaceAdresses-1 : Entree(p, va \div TAILLE_PAGE).p}

Octet(p) == [va \in 0..EspaceAdresses-1 |->
               Entree(p, va \div TAILLE_PAGE).adr * TAILLE_PAGE + (va % TAILLE_PAGE)]

LEMMA TraductionFidele ==
  ASSUME IInvTables, NEW p \in Vivants, NEW va \in 0..EspaceAdresses-1
  PROVE  Fidele(phys_addr_lookup(memoire, repertoire[p], va), va, EspaceAdresses,
                Projetees(p), Octet(p))
<1>1. PICK T \in Nat \ {0} : T = TAILLE_PAGE
  BY TaillesProp
<1>2. PICK Z \in Nat : Z = EspaceAdresses
  BY TaillesProp DEF EspaceAdresses
<1>3. PICK e : e = Entree(p, va \div T)
  OBVIOUS
<1>4. PICK r : r = phys_addr_lookup(memoire, repertoire[p], va)
  OBVIOUS
<1>5. PICK o : o = va % T
  OBVIOUS
<1>6. va \in Nat /\ va \in 0..Z-1 /\ o \in 0..T-1
  <2>1. va \in Nat /\ va \in 0..Z-1
    BY <1>2
  <2>2. QED
    BY <1>5, <2>1, Decomposition
<1>7. /\ e \in TypeEntree
      /\ e.p  => r.paddr = e.adr * T + o /\ r.len = T - o
      /\ ~e.p => r.paddr = 0 /\ r.len = 0
  BY <1>1, <1>3, <1>4, <1>5, Traduction
<1>8. e.adr \in Nat /\ e.p \in BOOLEAN /\ e.adr * T \in Nat
  BY <1>7 DEF TypeEntree
<1>9. va \in Projetees(p) <=> e.p
  BY <1>1, <1>3 DEF Projetees
<1>10. r.paddr \in Nat /\ r.len \in Nat /\ (r.len = 0 <=> va \notin Projetees(p))
  <2>1. CASE e.p
    BY <1>6, <1>7, <1>8, <1>9, <2>1
  <2>2. CASE ~e.p
    BY <1>7, <1>9, <2>2
  <2>3. QED
    BY <2>1, <2>2
<1>11. ASSUME NEW k \in 0..r.len-1, va + k < Z
       PROVE  va + k \in Projetees(p) /\ Octet(p)[va + k] = r.paddr + k
  <2>1. e.p
    <3>1. SUFFICES ASSUME ~e.p PROVE FALSE
      OBVIOUS
    <3>2. r.len = 0
      BY <1>7, <3>1
    <3>3. QED
      BY <1>11, <3>2
  <2>2. k \in Nat /\ k < T - o
    BY <1>6, <1>7, <1>11, <2>1
  <2>3. PICK z \in 0..Z-1 : z = va + k
    BY <1>6, <1>11, <2>2
  <2>4. z \div T = va \div T /\ z % T = o + k
    BY <1>5, <1>6, <2>2, <2>3, MemePage
  <2>5. Entree(p, z \div T) = e
    BY <1>3, <2>4
  <2>6. z \in Projetees(p)
    BY <1>1, <1>2, <2>1, <2>5 DEF Projetees
  <2>7. Octet(p)[z] = e.adr * T + (o + k)
    BY <1>1, <1>2, <2>4, <2>5 DEF Octet
  <2>8. e.adr * T + (o + k) = r.paddr + k
    BY <1>6, <1>7, <1>8, <2>1, <2>2
  <2>9. QED
    BY <2>3, <2>6, <2>7, <2>8
<1>12. QED
  BY <1>2, <1>4, <1>10, <1>11 DEF Fidele

(* The addresses of the property are in the address space.                 *)
LEMMA AdressesCopiees ==
  ASSUME NEW a \in Adresses(K_BASE_VIRT_ADR, NPTE) \cup Adresses(0, 1), NEW n \in 1..TAILLE_PAGE + 2
  PROVE  a \in Nat /\ n \in Nat /\ EspaceAdresses \in Nat /\ a + n <= EspaceAdresses
<1>1. PICK T \in Nat : T = TAILLE_PAGE /\ T >= 2
  BY TaillesProp
<1>2. PICK m \in Nat : m = T * NPTE /\ m >= 2 * T
  <2>1. NPTE \in Nat /\ NPTE >= 2
    BY TaillesProp
  <2>2. T * NPTE >= T * 2 /\ T * NPTE \in Nat
    BY <2>1
  <2>3. QED
    BY <2>2
<1>3. PICK q \in Nat \ {0} : NPDE = 4 * q /\ K_BASE_VIRT_ADR = q * m
  BY <1>1, <1>2, TaillesProp
<1>4. PICK b \in Nat : b = q * m /\ b >= m
  <2>1. q * m >= 1 * m
    BY <1>3
  <2>2. QED
    BY <2>1
<1>5. EspaceAdresses = 4 * b
  <2>1. EspaceAdresses = (4 * q) * m
    BY <1>1, <1>2, <1>3 DEF EspaceAdresses
  <2>2. QED
    BY <1>4, <2>1
<1>6. Adresses(K_BASE_VIRT_ADR, NPTE) = b..b + m - 1 /\ Adresses(0, 1) = 0..T - 1
  <2>1. NPTE * TAILLE_PAGE = m
    BY <1>1, <1>2, TaillesProp
  <2>2. QED
    BY <1>1, <1>3, <1>4, <2>1 DEF Adresses
<1>7. a \in 0..b + m - 1 /\ n \in 1..T + 2
  BY <1>1, <1>2, <1>4, <1>6
<1>8. QED
  BY <1>1, <1>2, <1>4, <1>5, <1>7

LEMMA InvCopieExacte == IInvTables => CopieExacte
<1>1. SUFFICES ASSUME IInvTables, actif \in Vivants PROVE CopieExacte
  BY DEF CopieExacte
<1>2. PICK p \in Vivants : p = actif
  BY <1>1
<1>3. ASSUME NEW a \in Adresses(K_BASE_VIRT_ADR, NPTE) \cup Adresses(0, 1), NEW n \in 1..TAILLE_PAGE + 2,
             NEW c, c = gdb_copyin(memoire, repertoire[p], a, n)
      PROVE  /\ c.ok <=> \A i \in 0..n-1 : Entree(p, (a + i) \div TAILLE_PAGE).p
             /\ c.ok => c.octets = [i \in 1..n |->
                          Entree(p, (a + (i-1)) \div TAILLE_PAGE).adr * TAILLE_PAGE
                            + ((a + i - 1) % TAILLE_PAGE)]
  <2>1. PICK Z : Z = EspaceAdresses
    OBVIOUS
  <2>2. a \in Nat /\ n \in Nat /\ Z \in Nat /\ a + n <= Z
    BY <2>1, AdressesCopiees
  <2>3. PICK M, B : M = Projetees(p) /\ B = Octet(p)
    OBVIOUS
  <2>4. \A va \in 0..Z-1 : Fidele(phys_addr_lookup(memoire, repertoire[p], va), va, Z, M, B)
    BY <1>1, <2>1, <2>3, TraductionFidele
  <2>5. Copie(c, a + n, n, M, B)
    BY <1>3, <2>2, <2>4, CopieProp
  <2>6. ASSUME NEW i \in 0..n-1
        PROVE  a + i \in M <=> Entree(p, (a + i) \div TAILLE_PAGE).p
    <3>1. a + i \in 0..Z-1
      BY <2>2
    <3>2. QED
      BY <2>1, <2>3, <3>1 DEF Projetees
  <2>7. c.ok <=> \A i \in 0..n-1 : Entree(p, (a + i) \div TAILLE_PAGE).p
    <3>1. c.ok <=> \A va \in (a + n)-n..(a + n)-1 : va \in M
      BY <2>5 DEF Copie
    <3>2. (a + n)-n = a
      BY <2>2
    <3>3. (\A va \in a..(a + n)-1 : va \in M) <=> (\A i \in 0..n-1 : a + i \in M)
      <4>1. ASSUME NEW va \in a..(a + n)-1, \A i \in 0..n-1 : a + i \in M PROVE va \in M
        <5>1. va - a \in 0..n-1 /\ a + (va - a) = va
          BY <2>2
        <5>2. QED
          BY <4>1, <5>1
      <4>2. \A i \in 0..n-1 : a + i \in a..(a + n)-1
        BY <2>2
      <4>3. QED
        BY <4>1, <4>2
    <3>4. QED
      BY <2>6, <3>1, <3>2, <3>3
  <2>8. ASSUME c.ok
        PROVE  c.octets = [i \in 1..n |->
                 Entree(p, (a + (i-1)) \div TAILLE_PAGE).adr * TAILLE_PAGE + ((a + i - 1) % TAILLE_PAGE)]
    <3>1. PICK o : o = c.octets
      OBVIOUS
    <3>2. o \in Seq(Nat) /\ Len(o) = n /\ \A i \in 1..n : o[i] = B[(a + n) - n + i - 1]
      BY <2>5, <2>8, <3>1 DEF Copie, Resultats
    <3>3. ASSUME NEW i \in 1..n
          PROVE  o[i] = Entree(p, (a + (i-1)) \div TAILLE_PAGE).adr * TAILLE_PAGE
                          + ((a + i - 1) % TAILLE_PAGE)
      <4>1. PICK va \in 0..Z-1 : va = a + (i-1)
        BY <2>2
      <4>2. (a + n) - n + i - 1 = va /\ a + i - 1 = va
        BY <2>2, <4>1
      <4>3. o[i] = B[va]
        BY <3>2, <4>2
      <4>4. B[va] = Entree(p, va \div TAILLE_PAGE).adr * TAILLE_PAGE + (va % TAILLE_PAGE)
        BY <2>1, <2>3 DEF Octet
      <4>5. QED
        BY <4>1, <4>2, <4>3, <4>4
    <3>4. o = [i \in 1..n |-> o[i]]
      BY <3>2
    <3>5. QED
      BY <3>1, <3>3, <3>4
  <2>9. QED
    BY <2>7, <2>8
<1>4. QED
  BY <1>2, <1>3 DEF CopieExacte

(* The debugger's copies touch the bytes that the program would touch, in  *)
(* order, across pages and tables, and fail exactly when one of them is    *)
(* not mapped (gdb_copyin, gdb_copyout, phys_addr_lookup).                 *)
THEOREM CopieExacteCorrect == SpecPages => []CopieExacte
  BY InvariantTables, InvCopieExacte, PTL
==============================================================================
