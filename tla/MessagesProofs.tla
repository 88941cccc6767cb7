--------------------------- MODULE MessagesProofs ---------------------------
(***************************************************************************)
(* The message queues of kernel/file.c above the process manager, proved   *)
(* for any number of queues and of processes, any messages and any sizes.  *)
(***************************************************************************)
EXTENDS MessagesProp, ProcessusProofs, FiniteSetTheorems

-----------------------------------------------------------------------------
(* A living process is listed once. *)
Unique(s) ==
  \A i, j \in 1..Len(s) : s[i].vif /\ s[j].vif /\ s[i].pid = s[j].pid => i = j

LEMMA PrioEntreeType ==
  /\ PrioEntree \in [Entrees -> Int]
  /\ \A e \in Entrees : PrioEntree[e] = e.prio /\ e.pid \in PID /\ e.vif \in BOOLEAN
  BY DEF PrioEntree, Entrees

(* psend or preceive lists its caller. *)
LEMMA AjoutEntree ==
  ASSUME NEW s \in Seq(Entrees), NEW e \in Entrees,
         NEW r, r = queue_add(s, e, PrioEntree)
  PROVE  /\ r \in Seq(Entrees)
         /\ Len(r) = Len(s) + 1
         /\ Range(r) = Range(s) \cup {e}
         /\ Unique(s) /\ (\A x \in Range(s) : x.vif => x.pid # e.pid) => Unique(r)
<1>1. PICK p : p = PlaceAjout(s, e, PrioEntree)
  OBVIOUS
<1>2. r \in Seq(Entrees) /\ EstInsertion(r, s, p, e)
  BY <1>1, PrioEntreeType, AjoutInsertion, Zenon
<1>3. Range(r) = Range(s) \cup {e}
  <2>1. PrioEntree \in [Entrees -> Int]
    BY PrioEntreeType
  <2>2. Range(queue_add(s, e, PrioEntree)) = Range(s) \cup {e}
    BY <2>1, AjoutElements
  <2>3. QED
    BY <2>2
<1>5. /\ Len(s) \in Nat /\ Len(r) = Len(s) + 1 /\ p \in 1..Len(s)+1
      /\ \A j \in 1..Len(s)+1 : /\ j < p => r[j] = s[j]
                                /\ j = p => r[j] = e
                                /\ j > p => r[j] = s[j-1]
  BY <1>2, LenProperties DEF EstInsertion
<1>6. ASSUME Unique(s), \A x \in Range(s) : x.vif => x.pid # e.pid
      PROVE  Unique(r)
  <2>1. \A j \in 1..Len(s) : s[j].vif => s[j].pid # e.pid
    BY <1>6, LenProperties DEF Range
  <2>2. SUFFICES ASSUME NEW a \in 1..Len(r), NEW b \in 1..Len(r), a < b,
                        r[a].vif, r[b].vif, r[a].pid = r[b].pid
                 PROVE  FALSE
    <3>1. ASSUME NEW i \in 1..Len(r), NEW j \in 1..Len(r),
                 r[i].vif, r[j].vif, r[i].pid = r[j].pid
          PROVE  ~(i < j) /\ ~(j < i)
      BY <2>2, <3>1
    <3>2. QED
      BY <1>5, <3>1 DEF Unique
  <2>3. CASE a = p
    <3>1. b-1 \in 1..Len(s) /\ r[b] = s[b-1] /\ r[a] = e
      BY <1>5, <2>2, <2>3
    <3>2. QED
      BY <2>1, <2>2, <3>1
  <2>4. CASE b = p
    <3>1. a \in 1..Len(s) /\ r[a] = s[a] /\ r[b] = e
      BY <1>5, <2>2, <2>4
    <3>2. QED
      BY <2>1, <2>2, <3>1
  <2>5. CASE a # p /\ b # p
    <3>1. PICK c \in 1..Len(s) : r[a] = s[c] /\ c = IF a < p THEN a ELSE a-1
      BY <1>5, <2>2, <2>5
    <3>2. PICK d \in 1..Len(s) : r[b] = s[d] /\ d = IF b < p THEN b ELSE b-1
      BY <1>5, <2>2, <2>5
    <3>3. c # d
      BY <1>5, <2>2, <2>5, <3>1, <3>2
    <3>4. QED
      BY <1>6, <2>2, <3>1, <3>2, <3>3 DEF Unique
  <2>6. QED
    BY <2>3, <2>4, <2>5
<1>7. QED
  BY <1>2, <1>3, <1>5, <1>6

(* What queue_out leaves. *)
LEMMA SortieEntree ==
  ASSUME NEW s \in Seq(Entrees), ~queue_empty(s),
         NEW e, e = queue_top(s), NEW r, r = queue_out(s)
  PROVE  /\ e \in Range(s) /\ e \in Entrees
         /\ r \in Seq(Entrees) /\ Len(r) = Len(s) - 1
         /\ Range(s) = Range(r) \cup {e}
         /\ Unique(s) => /\ Unique(r)
                         /\ e.vif => \A x \in Range(r) : x.vif => x.pid # e.pid
<1>1. PICK n : n = Len(s) - 1
  OBVIOUS
<1>2. Len(s) = n + 1 /\ n \in Nat /\ DOMAIN s = 1..n+1
  BY <1>1, LenProperties, EmptySeq DEF queue_empty
<1>3. e = s[n+1] /\ e \in Range(s) /\ e \in Entrees
  <2>1. e = s[n+1]
    BY <1>2 DEF queue_top, Last
  <2>2. s[n+1] \in Entrees
    BY <1>2, ElementOfSeq
  <2>3. QED
    BY <1>2, <2>1, <2>2 DEF Range
<1>4. r \in Seq(Entrees) /\ Len(r) = n /\ \A j \in 1..n : r[j] = s[j]
  <2>1. r = SubSeq(s, 1, n)
    BY <1>2 DEF queue_out, Front
  <2>2. \A j \in 1..n : s[j] \in Entrees
    BY <1>2, ElementOfSeq
  <2>3. /\ r \in Seq(Entrees) /\ Len(r) = IF 1 <= n THEN n-1+1 ELSE 0
        /\ \A j \in 1..n-1+1 : r[j] = s[1+j-1]
    BY <1>2, <2>1, <2>2, SubSeqProperties
  <2>4. QED
    BY <1>2, <2>3
<1>5. DOMAIN r = 1..n
  BY <1>4, LenProperties
<1>6. Range(s) = Range(r) \cup {e}
  <2>1. \A j \in 1..n+1 : j \in 1..n \/ j = n+1
    BY <1>2
  <2>2. \A j \in 1..n : j \in 1..n+1
    BY <1>2
  <2>3. QED
    BY <1>2, <1>3, <1>4, <1>5, <2>1, <2>2 DEF Range
<1>8. ASSUME Unique(s)
      PROVE  /\ Unique(r)
             /\ e.vif => \A x \in Range(r) : x.vif => x.pid # e.pid
  <2>1. Unique(r)
    BY <1>2, <1>4, <1>8 DEF Unique
  <2>2. ASSUME e.vif, NEW x \in Range(r), x.vif, x.pid = e.pid
        PROVE  FALSE
    <3>1. PICK j \in 1..n : x = r[j]
      BY <1>5, <2>2 DEF Range
    <3>2. x = s[j] /\ j \in 1..n+1 /\ n+1 \in 1..n+1 /\ j # n+1
      BY <1>2, <1>4, <3>1
    <3>3. QED
      BY <1>2, <1>3, <1>8, <2>2, <3>2 DEF Unique
  <2>3. QED
    BY <2>1, <2>2
<1>9. QED
  BY <1>2, <1>3, <1>4, <1>6, <1>8

(* The entries of a process that ends stay where they are. *)
LEMMA PerimerProp ==
  ASSUME NEW s \in Seq(Entrees), NEW r, r = Perimer(s)
  PROVE  /\ r \in Seq(Entrees) /\ Len(r) = Len(s)
         /\ Unique(s) => Unique(r)
         /\ \A x \in Range(r) : x.vif => x \in Range(s) /\ ~Termine(x.pid)
         /\ \A x \in Range(s) : x.vif /\ ~Termine(x.pid) => x \in Range(r)
<1>1. Len(s) \in Nat /\ DOMAIN s = 1..Len(s) /\ \A i \in 1..Len(s) : s[i] \in Entrees
  BY LenProperties, ElementOfSeq
<1>2. r = [i \in 1..Len(s) |-> [s[i] EXCEPT !.vif = s[i].vif /\ ~Termine(s[i].pid)]]
  BY <1>1 DEF Perimer
<1>3. ASSUME NEW i \in 1..Len(s)
      PROVE  /\ r[i] \in Entrees /\ r[i].pid = s[i].pid /\ r[i].prio = s[i].prio
             /\ r[i].vif = (s[i].vif /\ ~Termine(s[i].pid))
             /\ s[i].vif /\ ~Termine(s[i].pid) => r[i] = s[i]
  <2>1. PICK e \in Entrees : e = s[i]
    BY <1>1
  <2>2. PICK b \in BOOLEAN : b = (e.vif /\ ~Termine(e.pid))
    OBVIOUS
  <2>3. r[i] = [e EXCEPT !.vif = b]
    BY <1>2, <2>1, <2>2, Zenon
  <2>4. /\ r[i] \in Entrees /\ r[i].pid = e.pid /\ r[i].prio = e.prio
        /\ r[i].vif = b
    BY <2>3 DEF Entrees
  <2>5. ASSUME e.vif, ~Termine(e.pid)
        PROVE  r[i] = e
    <3>1. b = TRUE /\ e.vif = TRUE
      BY <2>2, <2>5, PrioEntreeType, Zenon
    <3>2. QED
      BY <2>3, <3>1 DEF Entrees
  <2>6. QED
    BY <2>1, <2>2, <2>4, <2>5, Zenon
<1>4. r \in Seq(Entrees) /\ Len(r) = Len(s) /\ DOMAIN r = 1..Len(s)
  <2>1. r = [i \in 1..Len(s) |-> r[i]]
    BY <1>2, Zenon
  <2>2. QED
    BY <1>1, <1>3, <2>1, IsASeq
<1>6. Unique(s) => Unique(r)
  <2>1. \A i \in 1..Len(s) : r[i].pid = s[i].pid /\ (r[i].vif => s[i].vif)
    BY <1>3, Zenon
  <2>2. QED
    BY <1>4, <2>1 DEF Unique
<1>7. ASSUME NEW x \in Range(r), x.vif
      PROVE  x \in Range(s) /\ ~Termine(x.pid)
  <2>1. PICK i \in 1..Len(s) : x = r[i]
    BY <1>4 DEF Range
  <2>2. r[i] = s[i] /\ ~Termine(r[i].pid)
    BY <1>3, <1>7, <2>1
  <2>3. QED
    BY <1>1, <2>1, <2>2 DEF Range
<1>8. ASSUME NEW x \in Range(s), x.vif, ~Termine(x.pid)
      PROVE  x \in Range(r)
  <2>1. PICK i \in 1..Len(s) : x = s[i]
    BY <1>1 DEF Range
  <2>2. r[i] = s[i]
    BY <1>3, <1>8, <2>1, Zenon
  <2>3. QED
    BY <1>4, <2>1, <2>2 DEF Range
<1>9. QED
  BY <1>4, <1>6, <1>7, <1>8, Zenon

-----------------------------------------------------------------------------
(* r is k where the processes of P were made runnable. *)
Eveilles(r, k, P) ==
  /\ Stable(r)
  /\ r.etat = [x \in PID |-> IF x \in P THEN "ACTIVABLE" ELSE k.etat[x]]

LEMMA ActiverEveille ==
  ASSUME NEW k, Stable(k), NEW p \in PID, k.etat[p] \in Suspendus \cup {"ACTIVABLE"},
         NEW r, r = Activer(k, p)
  PROVE  Eveilles(r, k, {p})
<1>1. /\ Stable(r)
      /\ r.etat = [x \in PID |-> IF x = p THEN "ACTIVABLE" ELSE k.etat[x]]
  BY ActiverStable
<1>2. QED
  BY <1>1 DEF Eveilles

(* The least element of a set of naturals, as preset's fold chooses it.    *)
LEMMA MinProp ==
  ASSUME NEW T \in SUBSET Nat, T # {}
  PROVE  Min(T) \in T /\ \A y \in T : Min(T) <= y
<1>1. \E x \in T : \A y \in T : x <= y
  BY PlusPetit
<1>2. QED
  BY <1>1 DEF Min

(* g folds Activer over the entries of s at the positions of T, for every  *)
(* set T of positions from m on: the recursion that defines FoldRight.     *)
EstRepli(g, s, k, m) ==
  g = [T \in SUBSET (m..Len(s)) |->
         IF T = {} THEN k ELSE Activer(g[T \ {Min(T)}], s[Min(T)].pid)]

(* One position more. *)
LEMMA RepliSuivant ==
  ASSUME NEW s \in Seq(Entrees), NEW k, NEW m \in 1..Len(s), NEW g, EstRepli(g, s, k, m+1)
  PROVE  \E h : EstRepli(h, s, k, m)
<1>1. PICK n \in Nat : n = Len(s)
  BY LenProperties
<1>2. m \in Nat /\ m <= n /\ m..n \subseteq Nat
  BY <1>1
<1>3. \A T \in SUBSET (m+1..n) :
        g[T] = IF T = {} THEN k ELSE Activer(g[T \ {Min(T)}], s[Min(T)].pid)
  BY <1>1, Zenon DEF EstRepli
<1>4. PICK h : h = [T \in SUBSET (m..n) |->
                      IF m \in T THEN Activer(g[T \ {m}], s[m].pid) ELSE g[T]]
  OBVIOUS
<1>5. ASSUME NEW T \in SUBSET (m..n)
      PROVE  h[T] = IF T = {} THEN k ELSE Activer(h[T \ {Min(T)}], s[Min(T)].pid)
  <2>1. h[T] = IF m \in T THEN Activer(g[T \ {m}], s[m].pid) ELSE g[T]
    BY <1>4
  <2>2. CASE m \in T
    <3>1. Min(T) = m
      <4>1. T \in SUBSET Nat /\ T # {}
        BY <1>2, <2>2
      <4>2. Min(T) \in T /\ Min(T) <= m
        BY <2>2, <4>1, MinProp
      <4>3. Min(T) \in m..n
        BY <1>5, <4>2
      <4>4. QED
        BY <1>2, <4>2, <4>3
    <3>2. T \ {m} \in SUBSET (m..n) /\ m \notin T \ {m}
      OBVIOUS
    <3>3. h[T \ {m}] = g[T \ {m}]
      BY <1>4, <3>2, Zenon
    <3>4. QED
      BY <2>1, <2>2, <3>1, <3>3, Zenon
  <2>3. CASE m \notin T
    <3>1. T \in SUBSET (m+1..n)
      BY <1>2, <2>3
    <3>2. T \ {Min(T)} \in SUBSET (m..n) /\ m \notin T \ {Min(T)}
      BY <2>3
    <3>3. h[T \ {Min(T)}] = g[T \ {Min(T)}]
      BY <1>4, <3>2, Zenon
    <3>4. QED
      BY <1>3, <2>1, <2>3, <3>1, <3>3, Zenon
  <2>4. QED
    BY <2>2, <2>3
<1>6. h = [T \in SUBSET (m..n) |->
             IF T = {} THEN k ELSE Activer(h[T \ {Min(T)}], s[Min(T)].pid)]
  <2>1. h = [T \in SUBSET (m..n) |-> h[T]]
    BY <1>4
  <2>2. [T \in SUBSET (m..n) |-> h[T]]
          = [T \in SUBSET (m..n) |->
               IF T = {} THEN k ELSE Activer(h[T \ {Min(T)}], s[Min(T)].pid)]
    BY <1>5, Zenon
  <2>3. QED
    BY <2>1, <2>2, Zenon
<1>7. EstRepli(h, s, k, m)
  BY <1>1, <1>6, Zenon DEF EstRepli
<1>8. QED
  BY <1>7

LEMMA RepliExiste ==
  ASSUME NEW s \in Seq(Entrees), NEW k
  PROVE  \E g : EstRepli(g, s, k, 1)
<1>1. PICK n \in Nat : n = Len(s)
  BY LenProperties
<1> DEFINE T == {j \in 0..n : ~ \E g : EstRepli(g, s, k, n+1-j)}
<1>2. SUFFICES ASSUME T # {} PROVE FALSE
  <2>1. n \in 0..n /\ n+1-n = 1
    BY <1>1
  <2>2. QED
    BY <1>2, <2>1
<1>3. PICK j \in T : \A y \in T : j <= y
  <2>1. T \in SUBSET Nat
    OBVIOUS
  <2>2. QED
    BY <1>2, <2>1, PlusPetit
<1>4. CASE j = 0
  <2>1. n+1-j = n+1 /\ n+1..n = {}
    BY <1>4
  <2>2. PICK g : g = [U \in SUBSET {} |-> k]
    OBVIOUS
  <2>3. [U \in SUBSET {} |-> IF U = {} THEN k ELSE Activer(g[U \ {Min(U)}], s[Min(U)].pid)]
          = [U \in SUBSET {} |-> k]
    <3>1. \A U \in SUBSET {} : U = {}
      OBVIOUS
    <3>2. QED
      BY <3>1, Zenon
  <2>4. EstRepli(g, s, k, n+1)
    BY <1>1, <2>1, <2>2, <2>3 DEF EstRepli
  <2>5. QED
    BY <1>3, <2>1, <2>4
<1>5. CASE j # 0
  <2>1. /\ j-1 \in 0..n /\ j-1 \notin T
        /\ n+1-j \in 1..n /\ n+1-(j-1) = (n+1-j)+1
    <3>1. j \in 1..n
      BY <1>1, <1>3, <1>5
    <3>2. /\ j-1 \in 0..n /\ ~(j <= j-1)
          /\ n+1-j \in 1..n /\ n+1-(j-1) = (n+1-j)+1
      BY <1>1, <3>1
    <3>3. j-1 \notin T
      BY <1>3, <3>2, Zenon
    <3>4. QED
      BY <3>2, <3>3
  <2>2. PICK g : EstRepli(g, s, k, (n+1-j)+1)
    BY <2>1
  <2>3. \E h : EstRepli(h, s, k, n+1-j)
    BY <1>1, <2>1, <2>2, RepliSuivant
  <2>4. QED
    BY <1>3, <2>3
<1>6. QED
  BY <1>4, <1>5

(* The processes of a list of entries. *)
Pids(s) == {s[l].pid : l \in 1..Len(s)}

(* The fold of Reveiller over one list. *)
Replier(s, k) == FoldRight(LAMBDA e, x : Activer(x, e.pid), s, k)

(* preset wakes every process of a list. *)
LEMMA RepliProp ==
  ASSUME NEW s \in Seq(Entrees), NEW k, Stable(k),
         \A p \in Pids(s) : k.etat[p] \in Suspendus \cup {"ACTIVABLE"},
         NEW r, r = Replier(s, k)
  PROVE  Eveilles(r, k, Pids(s))
<1>1. PICK n \in Nat : n = Len(s)
  BY LenProperties
<1>2. DOMAIN s = 1..n /\ \A l \in 1..n : s[l] \in Entrees /\ s[l].pid \in PID
  <2>1. \A l \in 1..n : s[l] \in Entrees
    BY <1>1, ElementOfSeq
  <2>2. QED
    BY <1>1, <2>1, LenProperties, PrioEntreeType
<1>3. PICK g : g = CHOOSE h : EstRepli(h, s, k, 1)
  OBVIOUS
<1>4. EstRepli(g, s, k, 1)
  BY <1>3, RepliExiste, Zenon
<1>5. r = g[1..n]
  BY <1>1, <1>2, <1>3, Zenon DEF Replier, FoldRight, MapThenFoldSet, EstRepli
<1>6. \A U \in SUBSET (1..n) :
        g[U] = IF U = {} THEN k ELSE Activer(g[U \ {Min(U)}], s[Min(U)].pid)
  BY <1>1, <1>4, Zenon DEF EstRepli
<1> DEFINE A(j) == {s[l].pid : l \in n+1-j..n}
           T == {j \in 0..n : ~ Eveilles(g[n+1-j..n], k, A(j))}
<1>7. ASSUME T # {} PROVE FALSE
  <2>1. PICK j \in T : \A y \in T : j <= y
    <3>1. T \in SUBSET Nat
      OBVIOUS
    <3>2. QED
      BY <1>7, <3>1, PlusPetit
  <2>2. j \in 0..n /\ ~ Eveilles(g[n+1-j..n], k, A(j))
    OBVIOUS
  <2>3. CASE j = 0
    <3>1. n+1-j..n = {}
      BY <2>3
    <3>2. g[{}] = k
      <4>1. {} \in SUBSET (1..n)
        OBVIOUS
      <4>2. QED
        BY <1>6, <4>1, Zenon
    <3>3. A(j) = {}
      BY <3>1
    <3>4. k.etat = [x \in PID |-> k.etat[x]]
      BY DEF Stable, Sain, TypeNoyau
    <3>5. Eveilles(k, k, {})
      BY <3>4 DEF Eveilles
    <3>6. QED
      BY <2>2, <3>1, <3>2, <3>3, <3>5
  <2>4. CASE j # 0
    <3>1. PICK m : m = n+1-j
      OBVIOUS
    <3>2. /\ m \in 1..n /\ j-1 \in 0..n /\ n+1-(j-1) = m+1 /\ n+1-j = m
          /\ j-1 \notin T
      <4>1. j \in 1..n
        BY <1>1, <2>2, <2>4
      <4>2. /\ m \in 1..n /\ j-1 \in 0..n /\ n+1-(j-1) = m+1 /\ n+1-j = m
            /\ ~(j <= j-1)
        BY <1>1, <3>1, <4>1
      <4>3. j-1 \notin T
        BY <2>1, <4>2, Zenon
      <4>4. QED
        BY <4>2, <4>3
    <3>3. PICK a : a = g[m+1..n]
      OBVIOUS
    <3>4. Eveilles(a, k, A(j-1))
      BY <3>2, <3>3
    <3>5. A(j-1) = {s[l].pid : l \in m+1..n}
      BY <3>2
    <3>6. A(j) = A(j-1) \cup {s[m].pid}
      <4>1. A(j) = {s[l].pid : l \in m..n}
        BY <3>2
      <4>2. m..n = (m+1..n) \cup {m}
        BY <3>2
      <4>3. QED
        BY <3>5, <4>1, <4>2
    <3>7. g[m..n] = Activer(a, s[m].pid)
      <4>1. PICK U : U = m..n
        OBVIOUS
      <4>2. U \in SUBSET (1..n) /\ m \in U /\ U \in SUBSET Nat
        BY <1>1, <3>2, <4>1
      <4>3. Min(U) = m
        <5>1. Min(U) \in U /\ Min(U) <= m
          BY <4>2, MinProp
        <5>2. QED
          BY <1>1, <3>2, <4>1, <5>1
      <4>4. U \ {m} = m+1..n
        BY <1>1, <3>2, <4>1
      <4>5. QED
        BY <1>6, <3>3, <4>1, <4>2, <4>3, <4>4, Zenon
    <3>8. a.etat[s[m].pid] \in Suspendus \cup {"ACTIVABLE"}
      <4>1. s[m].pid \in Pids(s) /\ s[m].pid \in PID
        BY <1>1, <1>2, <3>2 DEF Pids
      <4>2. QED
        BY <3>4, <4>1 DEF Eveilles
    <3>9. Eveilles(g[m..n], a, {s[m].pid})
      BY <1>2, <3>2, <3>4, <3>7, <3>8, ActiverEveille DEF Eveilles
    <3>10. Eveilles(g[m..n], k, A(j))
      <4>1. PICK b : b = g[m..n]
        OBVIOUS
      <4>2. /\ Stable(b)
            /\ b.etat = [x \in PID |-> IF x \in {s[m].pid} THEN "ACTIVABLE" ELSE a.etat[x]]
            /\ a.etat = [x \in PID |-> IF x \in A(j-1) THEN "ACTIVABLE" ELSE k.etat[x]]
        BY <3>4, <3>9, <4>1 DEF Eveilles
      <4>3. b.etat = [x \in PID |-> IF x \in A(j) THEN "ACTIVABLE" ELSE k.etat[x]]
        BY <3>6, <4>2
      <4>4. QED
        BY <4>1, <4>2, <4>3 DEF Eveilles
    <3>11. QED
      BY <2>2, <3>2, <3>10
  <2>5. QED
    BY <2>3, <2>4
<1>8. Eveilles(g[1..n], k, A(n))
  <2>1. n \in 0..n /\ n+1-n = 1
    BY <1>1
  <2>2. QED
    BY <1>7, <2>1
<1>9. A(n) = Pids(s)
  <2>1. n+1-n = 1
    BY <1>1
  <2>2. QED
    BY <1>1, <2>1 DEF Pids
<1>10. QED
  BY <1>5, <1>8, <1>9

(* Both lists of a queue. *)
LEMMA ReveillerProp ==
  ASSUME NEW k, Stable(k), NEW f, NEW r, r = Reveiller(k, f),
         files[f].recep \in Seq(Entrees), files[f].envoi \in Seq(Entrees),
         \A p \in Pids(files[f].recep) \cup Pids(files[f].envoi) : k.etat[p] \in Suspendus
  PROVE  Eveilles(r, k, Pids(files[f].recep) \cup Pids(files[f].envoi))
<1>1. PICK m : m = Replier(files[f].recep, k)
  OBVIOUS
<1>2. r = Replier(files[f].envoi, m)
  BY <1>1, Zenon DEF Reveiller, Replier
<1>3. Eveilles(m, k, Pids(files[f].recep))
  BY <1>1, RepliProp
<1>4. \A p \in Pids(files[f].envoi) : p \in PID
  BY ElementOfSeq, PrioEntreeType DEF Pids
<1>5. \A p \in Pids(files[f].envoi) : m.etat[p] \in Suspendus \cup {"ACTIVABLE"}
  BY <1>3, <1>4 DEF Eveilles
<1>6. Eveilles(r, m, Pids(files[f].envoi))
  <2>1. Stable(m)
    BY <1>3 DEF Eveilles
  <2>2. QED
    BY <1>2, <1>5, <2>1, RepliProp
<1>7. QED
  BY <1>3, <1>6 DEF Eveilles

-----------------------------------------------------------------------------
(* The inductive invariant.  To what the runs check it adds the soundness  *)
(* of the process table (without Prioritaire, which psend, preset and      *)
(* pdelete break until the next tick), the types, and that the size of a   *)
(* queue tells whether it exists: psend resumed on a deleted queue finds   *)
(* 0 = 0 and gives up.                                                     *)
ComptesDe(q) ==
  /\ q.nbelem = Len(q.messages) /\ q.nbelem <= q.size
  /\ q.nbproc_recep = Len(q.recep) /\ q.nbproc_envoi = Len(q.envoi)
  /\ IF q.statut THEN q.size # 0 ELSE q.size = 0 /\ q.messages = << >> /\ q.envoi = << >>

(* q is queue f, k the process table, a the calls in progress. *)
InscritsDe(k, a, f, q) ==
  /\ \A e \in Range(q.recep) : e.vif => /\ k.etat[e.pid] = "BLOQUE_SUR_RECEPTION"
                                        /\ a[e.pid].op = "preceive" /\ a[e.pid].fid = f
  /\ \A e \in Range(q.envoi) : e.vif => /\ k.etat[e.pid] = "BLOQUE_SUR_ENVOI"
                                        /\ a[e.pid].op = "psend" /\ a[e.pid].fid = f
  /\ Unique(q.recep) /\ Unique(q.envoi)

FileSaine(k, a, f, q) == ComptesDe(q) /\ InscritsDe(k, a, f, q)

TypeMessages ==
  /\ files \in [FID -> FileMessage]
  /\ valresetfile \in [PID -> BOOLEAN]
  /\ appel \in [PID -> Appels]

IInvMessages ==
  /\ IStable
  /\ TypeMessages
  /\ \A f \in FID : FileSaine(noyau, appel, f, files[f])
  /\ NBFILES = Cardinality({f \in FID : Existe(f)})
  /\ EmetteurInscrit

-----------------------------------------------------------------------------
LEMMA FileType ==
  ASSUME NEW q \in FileMessage
  PROVE  /\ q.recep \in Seq(Entrees) /\ q.envoi \in Seq(Entrees)
         /\ q.messages \in Seq(MESSAGES) /\ q.size \in Nat /\ q.nbelem \in Int
         /\ \A e \in Range(q.recep) \cup Range(q.envoi) :
              e \in Entrees /\ e.pid \in PID /\ e.vif \in BOOLEAN
<1>1. q.recep \in Seq(Entrees) /\ q.envoi \in Seq(Entrees)
      /\ q.messages \in Seq(MESSAGES) /\ q.size \in Nat /\ q.nbelem \in Int
  BY DEF FileMessage
<1>2. \A e \in Range(q.recep) : e \in Entrees
  BY <1>1, LenProperties, ElementOfSeq DEF Range
<1>3. \A e \in Range(q.envoi) : e \in Entrees
  BY <1>1, LenProperties, ElementOfSeq DEF Range
<1>4. QED
  BY <1>1, <1>2, <1>3, PrioEntreeType

LEMMA AppelType ==
  ASSUME NEW a \in Appels
  PROVE  /\ a.op = "preceive" => a.fid \in FID
         /\ a.op = "psend" => a.fid \in FID /\ a.message \in MESSAGES
<1>1. CASE a = AucunAppel
  BY <1>1 DEF AucunAppel
<1>2. CASE a \in [op : {"preceive"}, fid : FID]
  BY <1>2
<1>3. CASE a \in [op : {"psend"}, fid : FID, message : MESSAGES]
  BY <1>3
<1>4. QED
  BY <1>1, <1>2, <1>3 DEF Appels

LEMMA AppelEcrit ==
  ASSUME NEW f \in FID
  PROVE  /\ AucunAppel \in Appels
         /\ [op |-> "preceive", fid |-> f] \in Appels
         /\ \A m \in MESSAGES : [op |-> "psend", fid |-> f, message |-> m] \in Appels
  BY DEF Appels

(* From k to r the processes of P stop waiting, and no other process       *)
(* starts or stops waiting.                                                *)
Reveilles(r, k, P) ==
  /\ Stable(r)
  /\ \A x \in P : r.etat[x] \notin Suspendus
  /\ \A x \in PID \ P : k.etat[x] \in Suspendus \/ r.etat[x] \in Suspendus
                          => r.etat[x] = k.etat[x]

LEMMA EveillesReveilles ==
  ASSUME NEW k, NEW r, NEW P \in SUBSET PID, Eveilles(r, k, P)
  PROVE  Reveilles(r, k, P)
  BY DEF Eveilles, Reveilles, Suspendus

(* psend wakes one process, preceive wakes one and calls ordonnancer. *)
LEMMA ActiverReveilles ==
  ASSUME NEW k, Stable(k), NEW p \in PID, k.etat[p] \in Suspendus
  PROVE  /\ Reveilles(Activer(k, p), k, {p})
         /\ Reveilles(Ordonnancer(Activer(k, p)), k, {p})
<1>1. PICK m : m = Activer(k, p)
  OBVIOUS
<1>2. Eveilles(m, k, {p})
  BY <1>1, ActiverEveille
<1>3. Reveilles(m, k, {p})
  BY <1>2, EveillesReveilles
<1>4. PICK r : r = Ordonnancer(m)
  OBVIOUS
<1>5. Stable(m)
  BY <1>3 DEF Reveilles
<1>6. Ordonne(r) /\ MemesFils(r, m)
  BY <1>4, <1>5, ActifProp, OrdonnancerProp DEF Stable
<1>7. \A x \in PID : r.etat[x] # m.etat[x] => r.etat[x] \notin Suspendus /\ m.etat[x] \notin Suspendus
  BY <1>6 DEF MemesFils, Suspendus
<1>8. Reveilles(r, k, {p})
  BY <1>3, <1>6, <1>7 DEF Reveilles, Ordonne
<1>9. QED
  BY <1>1, <1>3, <1>4, <1>8

LEMMA MemeReveilles ==
  ASSUME NEW k, Stable(k)
  PROVE  /\ Reveilles(k, k, {})
         /\ Reveilles([k EXCEPT !.panne = TRUE], k, {})
         /\ [k EXCEPT !.panne = TRUE].panne = TRUE
<1>1. PICK r : r = [k EXCEPT !.panne = TRUE]
  OBVIOUS
<1>2. Stable(r) /\ r.etat = k.etat /\ r.panne = TRUE
  BY <1>1, PanneStable
<1>3. QED
  BY <1>1, <1>2 DEF Reveilles

-----------------------------------------------------------------------------
(* A call other than a suspension replaces queue f by d and wakes the      *)
(* processes of P, which it takes out of the lists of f.                   *)
LEMMA MajFile ==
  ASSUME IInvMessages, ~noyau.panne,
         NEW f \in FID, NEW d \in FileMessage, NEW P \in SUBSET PID,
         ComptesDe(d), Unique(d.recep), Unique(d.envoi),
         Range(d.recep) \subseteq Range(files[f].recep),
         Range(d.envoi) \subseteq Range(files[f].envoi),
         \A e \in Range(d.recep) \cup Range(d.envoi) : e.vif => e.pid \notin P,
         \A p \in P : \E e \in Range(files[f].recep) \cup Range(files[f].envoi) :
                        e.vif /\ e.pid = p,
         \/ noyau'.panne
         \/ \A e \in Range(files[f].envoi) :
              e.vif => e.pid \in P \/ (d.statut /\ e \in Range(d.envoi)),
         Reveilles(noyau', noyau, P),
         files' = [files EXCEPT ![f] = d], UNCHANGED horloge,
         \/ UNCHANGED appel
         \/ appel' = [appel EXCEPT ![actif] = AucunAppel],
         valresetfile' \in [PID -> BOOLEAN],
         NBFILES' = Cardinality({g \in FID : files'[g].statut})
  PROVE  IInvMessages'
<1>1. /\ TypeMessages /\ IStable /\ EmetteurInscrit
      /\ \A g \in FID : FileSaine(noyau, appel, g, files[g])
  BY DEF IInvMessages
<1>2. /\ files \in [FID -> FileMessage]
      /\ files' \in [FID -> FileMessage] /\ files'[f] = d
      /\ \A g \in FID : g # f => files'[g] = files[g]
  BY <1>1 DEF TypeMessages
<1>3. actif \in PID /\ noyau.etat[actif] = "ACTIF"
  BY <1>1, ActifProp DEF IStable, actif
<1>4. appel' \in [PID -> Appels] /\ \A p \in PID : p # actif => appel'[p] = appel[p]
  BY <1>1, <1>3, AppelEcrit DEF TypeMessages
<1>5. IStable'
  BY <1>1 DEF IStable, Reveilles
<1>6. ASSUME NEW g \in FID, NEW e \in Range(files[g].recep) \cup Range(files[g].envoi), e.vif
      PROVE  /\ e.pid \in PID /\ e.pid # actif /\ noyau.etat[e.pid] \in Suspendus
             /\ appel[e.pid].fid = g
  <2>1. e.pid \in PID
    BY <1>2, <1>6, FileType
  <2>2. /\ noyau.etat[e.pid] \in {"BLOQUE_SUR_RECEPTION", "BLOQUE_SUR_ENVOI"}
        /\ appel[e.pid].fid = g
    BY <1>1, <1>6 DEF FileSaine, InscritsDe
  <2>3. QED
    BY <1>3, <2>1, <2>2 DEF Suspendus
<1>7. ASSUME NEW g \in FID, g # f,
             NEW e \in Range(files[g].recep) \cup Range(files[g].envoi), e.vif
      PROVE  e.pid \notin P
  <2>1. SUFFICES ASSUME e.pid \in P PROVE FALSE
    OBVIOUS
  <2>2. PICK x \in Range(files[f].recep) \cup Range(files[f].envoi) : x.vif /\ x.pid = e.pid
    BY <2>1
  <2>3. appel[e.pid].fid = f /\ appel[e.pid].fid = g
    BY <1>6, <1>7, <2>2
  <2>4. QED
    BY <1>7, <2>3
<1>8. ASSUME NEW g \in FID, NEW e \in Range(files[g].recep) \cup Range(files[g].envoi),
             e.vif, e.pid \notin P
      PROVE  noyau'.etat[e.pid] = noyau.etat[e.pid] /\ appel'[e.pid] = appel[e.pid]
  BY <1>4, <1>6, <1>8 DEF Reveilles
<1>9. ASSUME NEW g \in FID
      PROVE  FileSaine(noyau', appel', g, files'[g])
  <2>1. FileSaine(noyau, appel, g, files[g])
    BY <1>1
  <2>2. CASE g # f
    <3>1. ASSUME NEW e \in Range(files[g].recep) \cup Range(files[g].envoi), e.vif
          PROVE  noyau'.etat[e.pid] = noyau.etat[e.pid] /\ appel'[e.pid] = appel[e.pid]
      BY <1>7, <1>8, <2>2, <3>1
    <3>2. QED
      BY <1>2, <2>1, <2>2, <3>1 DEF FileSaine, InscritsDe
  <2>3. CASE g = f
    <3>1. ASSUME NEW e \in Range(d.recep) \cup Range(d.envoi), e.vif
          PROVE  noyau'.etat[e.pid] = noyau.etat[e.pid] /\ appel'[e.pid] = appel[e.pid]
      BY <1>8, <3>1
    <3>2. InscritsDe(noyau', appel', f, d)
      BY <2>1, <2>3, <3>1 DEF FileSaine, InscritsDe
    <3>3. QED
      BY <1>2, <2>3, <3>2 DEF FileSaine
  <2>4. QED
    BY <2>2, <2>3
<1>10. EmetteurInscrit'
  <2>1. SUFFICES ASSUME ~noyau'.panne, NEW p \in PID, noyau'.etat[p] = "BLOQUE_SUR_ENVOI"
                 PROVE  \E g \in FID : files'[g].statut
                          /\ \E e \in Range(files'[g].envoi) : e.vif /\ e.pid = p
    BY DEF EmetteurInscrit, Existe
  <2>2. p \notin P /\ noyau.etat[p] = "BLOQUE_SUR_ENVOI"
    BY <2>1 DEF Reveilles, Suspendus
  <2>3. PICK g \in FID : files[g].statut /\ \E e \in Range(files[g].envoi) : e.vif /\ e.pid = p
    BY <1>1, <2>2 DEF EmetteurInscrit, Existe
  <2>4. PICK e \in Range(files[g].envoi) : e.vif /\ e.pid = p
    BY <2>3
  <2>5. CASE g # f
    BY <1>2, <2>3, <2>5
  <2>6. CASE g = f
    <3>1. d.statut /\ e \in Range(d.envoi)
      BY <2>1, <2>2, <2>4, <2>6
    <3>2. QED
      BY <1>2, <2>4, <3>1
  <2>7. QED
    BY <2>5, <2>6
<1>11. QED
  BY <1>2, <1>4, <1>5, <1>9, <1>10 DEF IInvMessages, TypeMessages, Existe


(* The same, when nobody is woken. *)
LEMMA MajSansReveil ==
  ASSUME IInvMessages, ~noyau.panne,
         NEW f \in FID, NEW d \in FileMessage,
         ComptesDe(d), Unique(d.recep), Unique(d.envoi),
         Range(d.recep) \subseteq Range(files[f].recep),
         Range(d.envoi) \subseteq Range(files[f].envoi),
         \/ noyau'.panne
         \/ Range(files[f].envoi) \subseteq Range(d.envoi),
         Reveilles(noyau', noyau, {}),
         files' = [files EXCEPT ![f] = d], UNCHANGED horloge,
         \/ UNCHANGED appel
         \/ appel' = [appel EXCEPT ![actif] = AucunAppel],
         valresetfile' \in [PID -> BOOLEAN],
         NBFILES' = Cardinality({g \in FID : files'[g].statut})
  PROVE  IInvMessages'
<1>1. /\ {} \in SUBSET PID
      /\ \A e \in Range(d.recep) \cup Range(d.envoi) : e.vif => e.pid \notin {}
      /\ \A p \in {} : \E e \in Range(files[f].recep) \cup Range(files[f].envoi) :
                         e.vif /\ e.pid = p
  OBVIOUS
<1>2. \A e \in Range(d.envoi) : d.statut
  <2>1. ASSUME d.envoi = << >>, NEW e \in Range(d.envoi)
        PROVE  FALSE
    BY <2>1 DEF Range
  <2>2. QED
    BY <2>1 DEF ComptesDe
<1>3. \/ noyau'.panne
      \/ \A e \in Range(files[f].envoi) :
           e.vif => e.pid \in {} \/ (d.statut /\ e \in Range(d.envoi))
  BY <1>2
<1>4. QED
  BY <1>1, <1>3, MajFile

(* A transfer changes neither which queues exist nor their sizes. *)
LEMMA MemesFiles ==
  ASSUME IInvMessages, NEW f \in FID, NEW d, d.statut = files[f].statut,
         files' = [files EXCEPT ![f] = d], UNCHANGED NBFILES
  PROVE  NBFILES' = Cardinality({g \in FID : files'[g].statut})
<1>1. \A g \in FID : files'[g].statut = files[g].statut
  BY DEF IInvMessages, TypeMessages
<1>2. NBFILES = Cardinality({g \in FID : files[g].statut})
  BY DEF IInvMessages, Existe
<1>3. {g \in FID : files'[g].statut} = {g \in FID : files[g].statut}
  BY <1>1
<1>4. QED
  BY <1>2, <1>3

LEMMA FileType2 ==
  ASSUME NEW q \in FileMessage
  PROVE  q.nbproc_recep \in Int /\ q.nbproc_envoi \in Int
  BY DEF FileMessage

(* A call that leaves the queues and the processes alone. *)
LEMMA RienFile ==
  ASSUME IInvMessages, ~noyau.panne, UNCHANGED <<noyau, horloge, files, NBFILES>>,
         \/ UNCHANGED appel
         \/ appel' = [appel EXCEPT ![actif] = AucunAppel],
         valresetfile' \in [PID -> BOOLEAN]
  PROVE  IInvMessages'
<1>1. 0 \in FID
  BY NbqueueAssumption DEF FID
<1>2. PICK d : d = files[0]
  OBVIOUS
<1>3. d \in FileMessage /\ files' = [files EXCEPT ![0] = d]
  BY <1>1, <1>2 DEF IInvMessages, TypeMessages
<1>4. FileSaine(noyau, appel, 0, d)
  BY <1>1, <1>2 DEF IInvMessages
<1>5. Reveilles(noyau', noyau, {})
  BY MemeReveilles DEF IInvMessages, IStable
<1>6. NBFILES' = Cardinality({g \in FID : files'[g].statut})
  BY <1>1, <1>2, <1>3, MemesFiles
<1>7. ComptesDe(d) /\ Unique(d.recep) /\ Unique(d.envoi)
  BY <1>4 DEF FileSaine, InscritsDe
<1>8. UNCHANGED horloge
  OBVIOUS
<1>9. QED
  BY <1>1, <1>2, <1>3, <1>5, <1>6, <1>7, <1>8, MajSansReveil

(* A list without its entry to serve first: the process it names, if it    *)
(* lives, waits there.                                                     *)
LEMMA ServirEntree ==
  ASSUME IInvMessages, NEW f \in FID,
         NEW s, s \in {files[f].recep, files[f].envoi}, ~queue_empty(s),
         NEW e, e = queue_top(s)
  PROVE  /\ e.pid \in PID /\ e.vif \in BOOLEAN
         /\ e.vif => noyau.etat[e.pid] \in Suspendus
         /\ e.vif => /\ s = files[f].recep => \A x \in Range(files[f].envoi) : x.vif => x.pid # e.pid
                     /\ s = files[f].envoi => \A x \in Range(files[f].recep) : x.vif => x.pid # e.pid
<1>1. files[f] \in FileMessage /\ FileSaine(noyau, appel, f, files[f])
  BY DEF IInvMessages, TypeMessages
<1>2. e \in Range(s) /\ e \in Entrees
  BY <1>1, FileType, SortieEntree
<1>3. e.pid \in PID /\ e.vif \in BOOLEAN
  BY <1>2, PrioEntreeType
<1>4. ASSUME e.vif
      PROVE  /\ s = files[f].recep => noyau.etat[e.pid] = "BLOQUE_SUR_RECEPTION"
             /\ s = files[f].envoi => noyau.etat[e.pid] = "BLOQUE_SUR_ENVOI"
  BY <1>1, <1>2, <1>4 DEF FileSaine, InscritsDe
<1>5. /\ \A x \in Range(files[f].recep) : x.vif => noyau.etat[x.pid] = "BLOQUE_SUR_RECEPTION"
      /\ \A x \in Range(files[f].envoi) : x.vif => noyau.etat[x.pid] = "BLOQUE_SUR_ENVOI"
  BY <1>1 DEF FileSaine, InscritsDe
<1>6. QED
  BY <1>3, <1>4, <1>5 DEF Suspendus

(* The end of psend. *)
LEMMA DeposerStep ==
  ASSUME IInvMessages, ~noyau.panne, NEW f \in FID, NEW m \in MESSAGES,
         files[f].nbelem # files[f].size, Deposer(f, m),
         UNCHANGED <<horloge, NBFILES>>,
         appel' = [appel EXCEPT ![actif] = AucunAppel],
         valresetfile' \in [PID -> BOOLEAN]
  PROVE  IInvMessages'
<1>1. PICK q : q = files[f]
  OBVIOUS
<1>2. q \in FileMessage /\ FileSaine(noyau, appel, f, q) /\ Stable(noyau)
  BY <1>1 DEF IInvMessages, TypeMessages, IStable
<1>3. /\ q.recep \in Seq(Entrees) /\ q.envoi \in Seq(Entrees)
      /\ q.messages \in Seq(MESSAGES) /\ q.size \in Nat /\ q.nbelem \in Int
  BY <1>2, FileType
<1>4. PICK s, n, d : /\ s = Append(q.messages, m) /\ n = q.nbelem + 1
                     /\ d = [q EXCEPT !.messages = s, !.nbelem = n]
  OBVIOUS
<1>5. /\ d \in FileMessage
      /\ d.recep = q.recep /\ d.envoi = q.envoi /\ d.statut = q.statut /\ d.size = q.size
      /\ d.nbproc_recep = q.nbproc_recep /\ d.nbproc_envoi = q.nbproc_envoi
      /\ d.messages = Append(q.messages, m) /\ d.nbelem = q.nbelem + 1
  <2>1. s \in Seq(MESSAGES) /\ n \in Int
    BY <1>3, <1>4, AppendProperties
  <2>2. /\ d \in FileMessage
        /\ d.recep = q.recep /\ d.envoi = q.envoi /\ d.statut = q.statut /\ d.size = q.size
        /\ d.nbproc_recep = q.nbproc_recep /\ d.nbproc_envoi = q.nbproc_envoi
        /\ d.messages = s /\ d.nbelem = n
    BY <1>2, <1>4, <2>1 DEF FileMessage
  <2>3. QED
    BY <1>4, <2>2
<1>6. q.statut /\ ComptesDe(d)
  <2>1. Len(d.messages) = Len(q.messages) + 1 /\ Len(q.messages) \in Nat
    BY <1>3, <1>5, AppendProperties, LenProperties
  <2>2. q.nbelem = Len(q.messages) /\ q.nbelem <= q.size /\ q.nbelem # q.size
    BY <1>1, <1>2 DEF FileSaine, ComptesDe
  <2>3. q.size # 0 /\ d.nbelem <= d.size /\ d.nbelem = Len(d.messages)
    BY <1>3, <1>5, <2>1, <2>2
  <2>4. QED
    BY <1>2, <1>5, <2>3 DEF FileSaine, ComptesDe
<1>7. /\ Unique(q.recep) /\ Unique(q.envoi) /\ UNCHANGED horloge
      /\ Unique(d.recep) /\ Unique(d.envoi)
  BY <1>2, <1>5 DEF FileSaine, InscritsDe
<1>8. CASE q.nbelem + 1 # 1 \/ queue_empty(q.recep)
  <2>1. files' = [files EXCEPT ![f] = d] /\ noyau' = noyau
    BY <1>1, <1>4, <1>5, <1>8 DEF Deposer
  <2>2. NBFILES' = Cardinality({g \in FID : files'[g].statut})
    BY <1>1, <1>5, <2>1, MemesFiles
  <2>3. Reveilles(noyau', noyau, {})
    BY <1>2, <2>1, MemeReveilles
  <2>4. Range(d.recep) = Range(q.recep) /\ Range(d.envoi) = Range(q.envoi)
    BY <1>5
  <2>5. QED
    BY <1>1, <1>5, <1>6, <1>7, <2>1, <2>2, <2>3, <2>4, MajSansReveil
<1>9. CASE ~(q.nbelem + 1 # 1 \/ queue_empty(q.recep))
  <2>1. PICK e : e = queue_top(q.recep)
    OBVIOUS
  <2>2. PICK r : r = queue_out(q.recep)
    OBVIOUS
  <2>3. PICK u, c : u = q.nbproc_recep - 1 /\ c = [d EXCEPT !.recep = r, !.nbproc_recep = u]
    OBVIOUS
  <2>4. /\ files' = [files EXCEPT ![f] = c]
        /\ noyau' = IF e.vif THEN Activer(noyau, e.pid) ELSE [noyau EXCEPT !.panne = TRUE]
    BY <1>1, <1>4, <1>5, <1>9, <2>1, <2>2, <2>3 DEF Deposer
  <2>5. /\ e \in Range(q.recep) /\ r \in Seq(Entrees) /\ Len(r) = Len(q.recep) - 1
        /\ Range(r) \subseteq Range(q.recep) /\ Unique(r)
        /\ e.vif => \A x \in Range(r) : x.vif => x.pid # e.pid
    BY <1>2, <1>3, <1>9, <2>1, <2>2, SortieEntree DEF FileSaine, InscritsDe
  <2>6. /\ c \in FileMessage
        /\ c.recep = r /\ c.envoi = q.envoi /\ c.statut = q.statut /\ c.size = q.size
        /\ c.nbproc_recep = q.nbproc_recep - 1 /\ c.nbproc_envoi = q.nbproc_envoi
        /\ c.messages = d.messages /\ c.nbelem = d.nbelem
    <3>1. u \in Int
      BY <1>2, <2>3, FileType2
    <3>2. d \in FileMessage /\ r \in Seq(Entrees)
      BY <1>5, <2>5
    <3>4. c = [d EXCEPT !.recep = r, !.nbproc_recep = u]
      BY <2>3
    <3>5. /\ c \in FileMessage
          /\ c.recep = r /\ c.envoi = d.envoi /\ c.statut = d.statut /\ c.size = d.size
          /\ c.nbproc_recep = u /\ c.nbproc_envoi = d.nbproc_envoi
          /\ c.messages = d.messages /\ c.nbelem = d.nbelem
      BY <3>1, <3>2, <3>4 DEF FileMessage
    <3>3. QED
      BY <1>5, <2>3, <3>5
  <2>7. ComptesDe(c) /\ Unique(c.recep) /\ Unique(c.envoi)
    BY <1>2, <1>5, <1>6, <2>5, <2>6 DEF FileSaine, ComptesDe, InscritsDe
  <2>9. NBFILES' = Cardinality({g \in FID : files'[g].statut})
    BY <1>1, <2>4, <2>6, MemesFiles
  <2>10. /\ e.pid \in PID
         /\ e.vif => noyau.etat[e.pid] \in Suspendus
         /\ e.vif => \A x \in Range(q.envoi) : x.vif => x.pid # e.pid
    BY <1>1, <1>9, <2>1, ServirEntree
  <2>11. CASE e.vif
    <3>1. Reveilles(noyau', noyau, {e.pid})
      BY <1>2, <2>4, <2>10, <2>11, ActiverReveilles
    <3>2. \A x \in Range(c.recep) \cup Range(c.envoi) : x.vif => x.pid \notin {e.pid}
      BY <2>5, <2>6, <2>10, <2>11
    <3>3. \A p \in {e.pid} : \E x \in Range(q.recep) \cup Range(q.envoi) : x.vif /\ x.pid = p
      BY <2>5, <2>11
    <3>4. {e.pid} \in SUBSET PID
      BY <2>10
    <3>5. /\ Range(c.recep) \subseteq Range(q.recep) /\ Range(c.envoi) \subseteq Range(q.envoi)
          /\ \A x \in Range(q.envoi) : x.vif => c.statut /\ x \in Range(c.envoi)
      BY <1>6, <2>5, <2>6
    <3>6. QED
      BY <1>1, <2>4, <2>6, <2>7, <2>9, <3>1, <3>2, <3>3, <3>4, <3>5, <1>7, MajFile
  <2>12. CASE ~e.vif
    <3>1. Reveilles(noyau', noyau, {}) /\ noyau'.panne
      BY <1>2, <2>4, <2>12, MemeReveilles
    <3>2. Range(c.recep) \subseteq Range(q.recep) /\ Range(c.envoi) \subseteq Range(q.envoi)
      BY <2>5, <2>6
    <3>3. QED
      BY <1>1, <1>7, <2>4, <2>6, <2>7, <2>9, <3>1, <3>2, MajSansReveil
  <2>13. QED
    BY <2>11, <2>12
<1>10. QED
  BY <1>8, <1>9

(* The end of preceive. *)
LEMMA RetirerStep ==
  ASSUME IInvMessages, ~noyau.panne, NEW f \in FID,
         files[f].nbelem # 0, Retirer(f),
         UNCHANGED <<horloge, NBFILES>>,
         appel' = [appel EXCEPT ![actif] = AucunAppel],
         valresetfile' \in [PID -> BOOLEAN]
  PROVE  IInvMessages'
<1>1. PICK q : q = files[f]
  OBVIOUS
<1>2. q \in FileMessage /\ FileSaine(noyau, appel, f, q) /\ Stable(noyau)
  BY <1>1 DEF IInvMessages, TypeMessages, IStable
<1>3. /\ q.recep \in Seq(Entrees) /\ q.envoi \in Seq(Entrees)
      /\ q.messages \in Seq(MESSAGES) /\ q.size \in Nat /\ q.nbelem \in Int
  BY <1>2, FileType
<1>4. PICK s, n, d : /\ s = Tail(q.messages) /\ n = q.nbelem - 1
                     /\ d = [q EXCEPT !.messages = s, !.nbelem = n]
  OBVIOUS
<1>5. q.messages # << >> /\ q.nbelem = Len(q.messages) /\ q.nbelem <= q.size /\ q.statut
  <2>1. q.nbelem = Len(q.messages) /\ q.nbelem <= q.size
    BY <1>2 DEF FileSaine, ComptesDe
  <2>2. q.messages # << >>
    BY <1>1, <1>3, <2>1, EmptySeq
  <2>3. QED
    BY <1>2, <2>1, <2>2 DEF FileSaine, ComptesDe
<1>6. /\ d \in FileMessage
      /\ d.recep = q.recep /\ d.envoi = q.envoi /\ d.statut = q.statut /\ d.size = q.size
      /\ d.nbproc_recep = q.nbproc_recep /\ d.nbproc_envoi = q.nbproc_envoi
      /\ d.messages = Tail(q.messages) /\ d.nbelem = q.nbelem - 1
  <2>1. s \in Seq(MESSAGES) /\ n \in Int
    BY <1>3, <1>4, <1>5, HeadTailProperties
  <2>2. /\ d \in FileMessage
        /\ d.recep = q.recep /\ d.envoi = q.envoi /\ d.statut = q.statut /\ d.size = q.size
        /\ d.nbproc_recep = q.nbproc_recep /\ d.nbproc_envoi = q.nbproc_envoi
        /\ d.messages = s /\ d.nbelem = n
    BY <1>2, <1>4, <2>1 DEF FileMessage
  <2>3. QED
    BY <1>4, <2>2
<1>7. ComptesDe(d)
  <2>1. Len(d.messages) = Len(q.messages) - 1
    BY <1>3, <1>5, <1>6, HeadTailProperties
  <2>2. d.nbelem <= d.size /\ d.nbelem = Len(d.messages)
    BY <1>3, <1>5, <1>6, <2>1
  <2>3. QED
    BY <1>2, <1>5, <1>6, <2>2 DEF FileSaine, ComptesDe
<1>8. /\ Unique(q.recep) /\ Unique(q.envoi) /\ UNCHANGED horloge
      /\ Unique(d.recep) /\ Unique(d.envoi)
  BY <1>2, <1>6 DEF FileSaine, InscritsDe
<1>9. CASE q.nbelem - 1 # q.size - 1 \/ queue_empty(q.envoi)
  <2>1. files' = [files EXCEPT ![f] = d] /\ noyau' = noyau
    BY <1>1, <1>4, <1>6, <1>9 DEF Retirer
  <2>2. NBFILES' = Cardinality({g \in FID : files'[g].statut})
    BY <1>1, <1>6, <2>1, MemesFiles
  <2>3. Reveilles(noyau', noyau, {})
    BY <1>2, <2>1, MemeReveilles
  <2>4. Range(d.recep) = Range(q.recep) /\ Range(d.envoi) = Range(q.envoi)
    BY <1>6
  <2>5. QED
    BY <1>1, <1>6, <1>7, <1>8, <2>1, <2>2, <2>3, <2>4, MajSansReveil
<1>10. CASE ~(q.nbelem - 1 # q.size - 1 \/ queue_empty(q.envoi))
  <2>1. PICK e : e = queue_top(q.envoi)
    OBVIOUS
  <2>2. PICK r : r = queue_out(q.envoi)
    OBVIOUS
  <2>3. PICK u, c : u = q.nbproc_envoi - 1 /\ c = [d EXCEPT !.envoi = r, !.nbproc_envoi = u]
    OBVIOUS
  <2>4. /\ files' = [files EXCEPT ![f] = c]
        /\ noyau' = IF e.vif THEN Ordonnancer(Activer(noyau, e.pid))
                    ELSE [noyau EXCEPT !.panne = TRUE]
    BY <1>1, <1>4, <1>6, <1>10, <2>1, <2>2, <2>3 DEF Retirer
  <2>5. /\ e \in Range(q.envoi) /\ r \in Seq(Entrees) /\ Len(r) = Len(q.envoi) - 1
        /\ Range(q.envoi) = Range(r) \cup {e} /\ Unique(r)
        /\ e.vif => \A x \in Range(r) : x.vif => x.pid # e.pid
    BY <1>2, <1>3, <1>10, <2>1, <2>2, SortieEntree DEF FileSaine, InscritsDe
  <2>6. /\ c \in FileMessage
        /\ c.envoi = r /\ c.recep = q.recep /\ c.statut = q.statut /\ c.size = q.size
        /\ c.nbproc_envoi = q.nbproc_envoi - 1 /\ c.nbproc_recep = q.nbproc_recep
        /\ c.messages = d.messages /\ c.nbelem = d.nbelem
    <3>1. u \in Int
      BY <1>2, <2>3, FileType2
    <3>2. d \in FileMessage /\ r \in Seq(Entrees)
      BY <1>6, <2>5
    <3>4. c = [d EXCEPT !.envoi = r, !.nbproc_envoi = u]
      BY <2>3
    <3>5. /\ c \in FileMessage
          /\ c.recep = d.recep /\ c.envoi = r /\ c.statut = d.statut /\ c.size = d.size
          /\ c.nbproc_recep = d.nbproc_recep /\ c.nbproc_envoi = u
          /\ c.messages = d.messages /\ c.nbelem = d.nbelem
      BY <3>1, <3>2, <3>4 DEF FileMessage
    <3>3. QED
      BY <1>6, <2>3, <3>5
  <2>7. ComptesDe(c) /\ Unique(c.recep) /\ Unique(c.envoi)
    BY <1>2, <1>5, <1>6, <1>7, <2>5, <2>6 DEF FileSaine, ComptesDe, InscritsDe
  <2>9. NBFILES' = Cardinality({g \in FID : files'[g].statut})
    BY <1>1, <2>4, <2>6, MemesFiles
  <2>10. /\ e.pid \in PID
         /\ e.vif => noyau.etat[e.pid] \in Suspendus
         /\ e.vif => \A x \in Range(q.recep) : x.vif => x.pid # e.pid
    BY <1>1, <1>10, <2>1, ServirEntree
  <2>11. CASE e.vif
    <3>1. Reveilles(noyau', noyau, {e.pid})
      BY <1>2, <2>4, <2>10, <2>11, ActiverReveilles
    <3>2. \A x \in Range(c.recep) \cup Range(c.envoi) : x.vif => x.pid \notin {e.pid}
      BY <2>5, <2>6, <2>10, <2>11
    <3>3. \A p \in {e.pid} : \E x \in Range(q.recep) \cup Range(q.envoi) : x.vif /\ x.pid = p
      BY <2>5, <2>11
    <3>4. {e.pid} \in SUBSET PID
      BY <2>10
    <3>5. /\ Range(c.recep) \subseteq Range(q.recep) /\ Range(c.envoi) \subseteq Range(q.envoi)
          /\ \A x \in Range(q.envoi) :
               x.vif => x.pid \in {e.pid} \/ (c.statut /\ x \in Range(c.envoi))
      BY <1>5, <2>5, <2>6
    <3>6. QED
      BY <1>1, <2>4, <2>6, <2>7, <2>9, <3>1, <3>2, <3>3, <3>4, <3>5, <1>8, MajFile
  <2>12. CASE ~e.vif
    <3>1. Reveilles(noyau', noyau, {}) /\ noyau'.panne
      BY <1>2, <2>4, <2>12, MemeReveilles
    <3>2. Range(c.recep) \subseteq Range(q.recep) /\ Range(c.envoi) \subseteq Range(q.envoi)
      BY <2>5, <2>6
    <3>3. QED
      BY <1>1, <1>8, <2>4, <2>6, <2>7, <2>9, <3>1, <3>2, MajSansReveil
  <2>13. QED
    BY <2>11, <2>12
<1>11. QED
  BY <1>9, <1>10

-----------------------------------------------------------------------------
(* pcreate, which trusts NBFILES, finds a free queue. *)
LEMMA FileLibre ==
  ASSUME IInvMessages, NBFILES < NBQUEUE, NEW f, f = Min({x \in FID : ~Existe(x)})
  PROVE  f \in FID /\ ~Existe(f)
<1>1. IsFiniteSet(FID) /\ Cardinality(FID) = NBQUEUE
  <2>1. NBQUEUE \in Nat /\ NBQUEUE # 0
    BY NbqueueAssumption
  <2>2. /\ IsFiniteSet(0..NBQUEUE-1)
        /\ Cardinality(0..NBQUEUE-1) = IF 0 > NBQUEUE-1 THEN 0 ELSE NBQUEUE-1-0+1
    BY <2>1, FS_Interval
  <2>3. QED
    BY <2>1, <2>2 DEF FID
<1>2. PICK L : L = {x \in FID : ~Existe(x)}
  OBVIOUS
<1>3. L # {}
  <2>1. SUFFICES ASSUME L = {} PROVE FALSE
    OBVIOUS
  <2>2. {x \in FID : Existe(x)} = FID
    BY <1>2, <2>1
  <2>3. NBFILES = NBQUEUE
    BY <1>1, <2>2 DEF IInvMessages
  <2>4. QED
    BY <2>3, NbqueueAssumption
<1>4. L \in SUBSET Nat
  BY <1>2, NbqueueAssumption DEF FID
<1>5. f \in L
  BY <1>2, <1>3, <1>4, MinProp
<1>6. QED
  BY <1>2, <1>5

(* A record with the fields of a queue is one. *)
LEMMA FileEcrite ==
  ASSUME NEW q \in FileMessage, NEW d, DOMAIN d = DOMAIN q, d = [x \in DOMAIN d |-> d[x]],
         d.statut \in BOOLEAN, d.size \in Nat, d.nbelem \in Int,
         d.nbproc_recep \in Int, d.nbproc_envoi \in Int,
         d.messages \in Seq(MESSAGES), d.recep \in Seq(Entrees), d.envoi \in Seq(Entrees)
  PROVE  d \in FileMessage
  BY DEF FileMessage

LEMMA PcreateStep ==
  ASSUME IInvMessages, NEW n \in CAPACITES, Pcreate(n)
  PROVE  IInvMessages'
<1>1. PICK f : f = Min({x \in FID : ~Existe(x)})
  OBVIOUS
<1>2. f \in FID /\ ~files[f].statut
  BY <1>1, FileLibre DEF Pcreate, Existe
<1>3. PICK q : q = files[f]
  OBVIOUS
<1>4. q \in FileMessage /\ FileSaine(noyau, appel, f, q) /\ Stable(noyau) /\ ~noyau.panne
  BY <1>2, <1>3 DEF IInvMessages, TypeMessages, IStable, Pcreate, Appelant, Programme
<1>5. n \in Nat /\ n # 0
  BY CapacitesAssumption
<1>6. PICK v, d : /\ v = << >>
                  /\ d = [q EXCEPT !.statut = TRUE, !.size = n, !.nbelem = 0,
                            !.nbproc_recep = 0, !.nbproc_envoi = 0, !.recep = v, !.envoi = v]
  OBVIOUS
<1>7. /\ d \in FileMessage /\ d.statut = TRUE /\ d.size = n /\ d.nbelem = 0
      /\ d.nbproc_recep = 0 /\ d.nbproc_envoi = 0 /\ d.recep = << >> /\ d.envoi = << >>
      /\ d.messages = q.messages
  <2>1. v \in Seq(Entrees)
    BY <1>6
  <2>2. /\ d.statut = TRUE /\ d.size = n /\ d.nbelem = 0
        /\ d.nbproc_recep = 0 /\ d.nbproc_envoi = 0 /\ d.recep = v /\ d.envoi = v
        /\ d.messages = q.messages
    BY <1>4, <1>6, SMTT(60) DEF FileMessage
  <2>3. q.messages \in Seq(MESSAGES)
    BY <1>4 DEF FileMessage
  <2>4. DOMAIN d = DOMAIN q /\ d = [x \in DOMAIN d |-> d[x]]
    BY <1>6
  <2>5. /\ d.statut \in BOOLEAN /\ d.size \in Nat /\ d.nbelem \in Int
        /\ d.nbproc_recep \in Int /\ d.nbproc_envoi \in Int
        /\ d.messages \in Seq(MESSAGES) /\ d.recep \in Seq(Entrees) /\ d.envoi \in Seq(Entrees)
    <3>1. d.statut \in BOOLEAN
      BY <2>2
    <3>2. d.size \in Nat /\ d.nbelem \in Int /\ d.nbproc_recep \in Int /\ d.nbproc_envoi \in Int
      BY <1>5, <2>2
    <3>3. d.messages \in Seq(MESSAGES) /\ d.recep \in Seq(Entrees) /\ d.envoi \in Seq(Entrees)
      BY <2>1, <2>2, <2>3
    <3>4. QED
      BY <3>1, <3>2, <3>3
  <2>6. d \in FileMessage
    BY <1>4, <2>4, <2>5, FileEcrite
  <2>7. QED
    BY <1>6, <2>2, <2>6
<1>8. q.messages = << >> /\ q.envoi = << >>
  BY <1>2, <1>3, <1>4 DEF FileSaine, ComptesDe
<1>9. /\ ComptesDe(d) /\ Unique(d.recep) /\ Unique(d.envoi)
      /\ Range(d.recep) = {} /\ Range(d.envoi) = {} /\ Range(q.envoi) = {}
  BY <1>5, <1>7, <1>8 DEF ComptesDe, Unique, Range
<1>10. files' = [files EXCEPT ![f] = d]
  BY <1>1, <1>3, <1>6 DEF Pcreate
<1>11. NBFILES' = Cardinality({g \in FID : files'[g].statut})
  <2>1. PICK E : E = {g \in FID : files[g].statut}
    OBVIOUS
  <2>2. IsFiniteSet(E)
    <3>1. IsFiniteSet(FID)
      BY FS_Interval, NbqueueAssumption DEF FID
    <3>2. E \in SUBSET FID
      BY <2>1
    <3>3. QED
      BY <3>1, <3>2, FS_Subset
  <2>3. Cardinality(E \cup {f}) = Cardinality(E) + 1
    BY <1>2, <2>1, <2>2, FS_AddElement
  <2>4. {g \in FID : files'[g].statut} = E \cup {f}
    BY <1>2, <1>7, <1>10, <2>1 DEF IInvMessages, TypeMessages
  <2>5. NBFILES = Cardinality(E) /\ NBFILES' = NBFILES + 1
    BY <2>1 DEF IInvMessages, Existe, Pcreate
  <2>6. QED
    BY <2>3, <2>4, <2>5
<1>12. Reveilles(noyau', noyau, {}) /\ UNCHANGED <<horloge, appel, valresetfile>>
  BY <1>4, MemeReveilles DEF Pcreate
<1>13. valresetfile' \in [PID -> BOOLEAN]
  BY <1>12 DEF IInvMessages, TypeMessages
<1>14. QED
  BY <1>2, <1>3, <1>4, <1>7, <1>9, <1>10, <1>11, <1>12, <1>13, MajSansReveil

(* preset and pdelete wake whoever waits in the queue that they empty. *)
LEMMA LibererStep ==
  ASSUME IInvMessages, ~noyau.panne, NEW f \in FID, NEW d \in FileMessage,
         ComptesDe(d), d.recep = << >>, d.envoi = << >>,
         Liberer(f), files' = [files EXCEPT ![f] = d], UNCHANGED <<horloge, appel>>,
         NBFILES' = Cardinality({g \in FID : files'[g].statut})
  PROVE  IInvMessages'
<1>1. PICK q : q = files[f]
  OBVIOUS
<1>2. q \in FileMessage /\ FileSaine(noyau, appel, f, q) /\ Stable(noyau)
  BY <1>1 DEF IInvMessages, TypeMessages, IStable
<1>3. q.recep \in Seq(Entrees) /\ q.envoi \in Seq(Entrees)
  BY <1>2, FileType
<1>4. /\ Unique(d.recep) /\ Unique(d.envoi)
      /\ Range(d.recep) = {} /\ Range(d.envoi) = {}
  BY DEF Unique, Range
<1>5. valresetfile' \in [PID -> BOOLEAN]
  BY DEF Liberer, IInvMessages, TypeMessages
<1>6. CASE \A e \in Bloques(q) : e.vif
  <2>1. PICK P : P = Pids(q.recep) \cup Pids(q.envoi)
    OBVIOUS
  <2>2. /\ Range(q.recep) = {q.recep[l] : l \in 1..Len(q.recep)}
        /\ Range(q.envoi) = {q.envoi[l] : l \in 1..Len(q.envoi)}
    BY <1>3, LenProperties DEF Range
  <2>3. \A p \in P : \E e \in Range(q.recep) \cup Range(q.envoi) : e.vif /\ e.pid = p
    BY <1>6, <2>1, <2>2 DEF Pids, Bloques
  <2>4. \A e \in Range(q.envoi) : e.pid \in P
    BY <2>1, <2>2 DEF Pids
  <2>5. P \in SUBSET PID /\ \A p \in P : noyau.etat[p] \in Suspendus
    <3>1. ASSUME NEW p \in P
          PROVE  p \in PID /\ noyau.etat[p] \in Suspendus
      <4>1. PICK e \in Range(q.recep) \cup Range(q.envoi) : e.vif /\ e.pid = p
        BY <2>3
      <4>2. e.pid \in PID
        BY <1>2, FileType
      <4>3. QED
        BY <1>2, <4>1, <4>2 DEF FileSaine, InscritsDe, Suspendus
    <3>2. QED
      BY <3>1
  <2>6. noyau' = Reveiller(noyau, f)
    BY <1>1, <1>6 DEF Liberer
  <2>7. Reveilles(noyau', noyau, P)
    BY <1>1, <1>2, <1>3, <2>1, <2>5, <2>6, ReveillerProp, EveillesReveilles
  <2>8. \A e \in Range(d.recep) \cup Range(d.envoi) : e.vif => e.pid \notin P
    BY <1>4
  <2>9. \A p \in P : \E e \in Range(files[f].recep) \cup Range(files[f].envoi) :
                        e.vif /\ e.pid = p
    BY <1>1, <2>3
  <2>10. /\ Range(d.recep) \subseteq Range(files[f].recep)
         /\ Range(d.envoi) \subseteq Range(files[f].envoi)
    BY <1>4
  <2>11. \A e \in Range(files[f].envoi) :
           e.vif => e.pid \in P \/ (d.statut /\ e \in Range(d.envoi))
    BY <1>1, <2>4
  <2>12. P \in SUBSET PID /\ UNCHANGED horloge /\ UNCHANGED appel
    BY <2>5
  <2>13. QED
    BY <1>4, <1>5, <2>7, <2>8, <2>9, <2>10, <2>11, <2>12, MajFile
<1>7. CASE ~ \A e \in Bloques(q) : e.vif
  <2>1. noyau' = [noyau EXCEPT !.panne = TRUE]
    BY <1>1, <1>7 DEF Liberer
  <2>2. Reveilles(noyau', noyau, {}) /\ noyau'.panne
    BY <1>2, <2>1, MemeReveilles
  <2>3. Range(d.recep) \subseteq Range(q.recep) /\ Range(d.envoi) \subseteq Range(q.envoi)
    BY <1>4
  <2>4. UNCHANGED horloge /\ UNCHANGED appel
    OBVIOUS
  <2>5. QED
    BY <1>1, <1>4, <1>5, <2>2, <2>3, <2>4, MajSansReveil
<1>8. QED
  BY <1>6, <1>7

LEMMA ViderFileProp ==
  ASSUME NEW q \in FileMessage, NEW d, d = ViderFile(q)
  PROVE  /\ d \in FileMessage /\ d.statut = q.statut /\ d.size = q.size
         /\ d.nbelem = 0 /\ d.nbproc_recep = 0 /\ d.nbproc_envoi = 0
         /\ d.messages = << >> /\ d.recep = << >> /\ d.envoi = << >>
<1>1. PICK v : v = << >>
  OBVIOUS
<1>2. v \in Seq(Entrees) /\ v \in Seq(MESSAGES)
  BY <1>1
<1>3. d = [q EXCEPT !.messages = v, !.nbelem = 0, !.recep = v, !.envoi = v,
                    !.nbproc_recep = 0, !.nbproc_envoi = 0]
  BY <1>1 DEF ViderFile
<1>4. /\ d.statut = q.statut /\ d.size = q.size
      /\ d.nbelem = 0 /\ d.nbproc_recep = 0 /\ d.nbproc_envoi = 0
      /\ d.messages = v /\ d.recep = v /\ d.envoi = v
  BY <1>3, SMTT(60) DEF FileMessage
<1>5. q.statut \in BOOLEAN /\ q.size \in Nat
  BY DEF FileMessage
<1>6. DOMAIN d = DOMAIN q /\ d = [x \in DOMAIN d |-> d[x]]
  BY <1>3
<1>7. d \in FileMessage
  <2>1. /\ d.statut \in BOOLEAN /\ d.size \in Nat /\ d.nbelem \in Int
        /\ d.nbproc_recep \in Int /\ d.nbproc_envoi \in Int
        /\ d.messages \in Seq(MESSAGES) /\ d.recep \in Seq(Entrees) /\ d.envoi \in Seq(Entrees)
    BY <1>2, <1>4, <1>5
  <2>2. QED
    BY <1>6, <2>1, FileEcrite
<1>8. QED
  BY <1>1, <1>4, <1>7

LEMMA PresetStep ==
  ASSUME IInvMessages, NEW f \in FID, Preset(f)
  PROVE  IInvMessages'
<1>1. PICK q : q = files[f]
  OBVIOUS
<1>2. q \in FileMessage /\ FileSaine(noyau, appel, f, q) /\ ~noyau.panne /\ q.statut
  BY <1>1 DEF IInvMessages, TypeMessages, Preset, Appelant, Programme, Existe
<1>3. PICK d : d = ViderFile(q)
  OBVIOUS
<1>4. /\ d \in FileMessage /\ d.statut = q.statut /\ d.size = q.size
      /\ d.nbelem = 0 /\ d.nbproc_recep = 0 /\ d.nbproc_envoi = 0
      /\ d.messages = << >> /\ d.recep = << >> /\ d.envoi = << >>
  BY <1>2, <1>3, ViderFileProp
<1>5. ComptesDe(d)
  <2>1. q.size \in Nat
    BY <1>2, FileType
  <2>2. QED
    BY <1>2, <1>4, <2>1 DEF FileSaine, ComptesDe
<1>6. files' = [files EXCEPT ![f] = d] /\ Liberer(f) /\ UNCHANGED <<horloge, appel, NBFILES>>
  BY <1>1, <1>3 DEF Preset
<1>7. NBFILES' = Cardinality({g \in FID : files'[g].statut})
  BY <1>1, <1>4, <1>6, MemesFiles
<1>8. QED
  BY <1>2, <1>4, <1>5, <1>6, <1>7, LibererStep

LEMMA PdeleteStep ==
  ASSUME IInvMessages, NEW f \in FID, Pdelete(f)
  PROVE  IInvMessages'
<1>1. PICK q : q = files[f]
  OBVIOUS
<1>2. q \in FileMessage /\ ~noyau.panne /\ q.statut
  BY <1>1 DEF IInvMessages, TypeMessages, Pdelete, Appelant, Programme, Existe
<1>3. PICK v : v = ViderFile(q)
  OBVIOUS
<1>4. PICK d : d = [v EXCEPT !.size = 0, !.statut = FALSE]
  OBVIOUS
<1>5. /\ d \in FileMessage /\ d.statut = FALSE /\ d.size = 0
      /\ d.nbelem = 0 /\ d.nbproc_recep = 0 /\ d.nbproc_envoi = 0
      /\ d.messages = << >> /\ d.recep = << >> /\ d.envoi = << >>
  <2>1. /\ v \in FileMessage
        /\ v.nbelem = 0 /\ v.nbproc_recep = 0 /\ v.nbproc_envoi = 0
        /\ v.messages = << >> /\ v.recep = << >> /\ v.envoi = << >>
    BY <1>2, <1>3, ViderFileProp
  <2>2. QED
    BY <1>4, <2>1 DEF FileMessage
<1>6. ComptesDe(d)
  BY <1>5 DEF ComptesDe
<1>7. files' = [files EXCEPT ![f] = d] /\ Liberer(f) /\ UNCHANGED <<horloge, appel>>
  BY <1>1, <1>3, <1>4 DEF Pdelete
<1>8. NBFILES' = Cardinality({g \in FID : files'[g].statut})
  <2>1. PICK E : E = {g \in FID : files[g].statut}
    OBVIOUS
  <2>2. IsFiniteSet(E)
    <3>1. IsFiniteSet(FID)
      BY FS_Interval, NbqueueAssumption DEF FID
    <3>2. E \in SUBSET FID
      BY <2>1
    <3>3. QED
      BY <3>1, <3>2, FS_Subset
  <2>3. Cardinality(E \ {f}) = Cardinality(E) - 1
    BY <1>1, <1>2, <2>1, <2>2, FS_RemoveElement
  <2>4. {g \in FID : files'[g].statut} = E \ {f}
    BY <1>5, <1>7, <2>1 DEF IInvMessages, TypeMessages
  <2>5. NBFILES = Cardinality(E) /\ NBFILES' = NBFILES - 1
    BY <2>1 DEF IInvMessages, Existe, Pdelete
  <2>6. QED
    BY <2>3, <2>4, <2>5
<1>9. QED
  BY <1>2, <1>5, <1>6, <1>7, <1>8, LibererStep

-----------------------------------------------------------------------------
(* psend and preceive suspend their caller: nobody else starts or stops    *)
(* waiting, and no list named the caller.                                  *)
LEMMA AppelantSuspendu ==
  ASSUME IInvMessages, Programme, NEW e \in {"BLOQUE_SUR_RECEPTION", "BLOQUE_SUR_ENVOI"},
         noyau' = Ordonnancer(Bloquer(noyau, actif, e))
  PROVE  /\ Stable(noyau') /\ noyau'.etat[actif] = e
         /\ actif \in PID /\ MonEntree \in Entrees /\ MonEntree.pid = actif /\ MonEntree.vif
         /\ \A x \in PID : x # actif /\ (noyau.etat[x] \in Suspendus \/ noyau'.etat[x] \in Suspendus)
                             => noyau'.etat[x] = noyau.etat[x]
         /\ \A g \in FID : \A x \in Range(files[g].recep) \cup Range(files[g].envoi) :
              x.vif => /\ x.pid \in PID /\ x.pid # actif
                       /\ noyau'.etat[x.pid] = noyau.etat[x.pid]
<1>1. Stable(noyau) /\ noyau.pid_actif = actif /\ actif # 0
  BY DEF IInvMessages, IStable, Programme, actif
<1>2. actif \in PID /\ noyau.etat[actif] = "ACTIF" /\ noyau.prio[actif] \in Int
  BY <1>1, ActifProp DEF Stable, Sain, TypeNoyau
<1>3. e \in SansFile /\ e \notin {"ACTIF", "ZOMBIE"}
  BY DEF SansFile, Etats
<1>4. /\ Ordonne(noyau') /\ noyau'.etat[actif] = e
      /\ \A x \in PID : x # actif /\ noyau'.etat[x] # noyau.etat[x] =>
           noyau'.etat[x] \in {"ACTIF", "ACTIVABLE"} /\ noyau.etat[x] \in {"ACTIF", "ACTIVABLE"}
  BY <1>1, <1>3, SuspendreProp
<1>5. MonEntree \in Entrees /\ MonEntree.pid = actif /\ MonEntree.vif
  BY <1>2 DEF MonEntree, Entrees
<1>6. \A x \in PID : x # actif /\ (noyau.etat[x] \in Suspendus \/ noyau'.etat[x] \in Suspendus)
                       => noyau'.etat[x] = noyau.etat[x]
  BY <1>4 DEF Suspendus
<1>7. ASSUME NEW g \in FID, NEW x \in Range(files[g].recep) \cup Range(files[g].envoi), x.vif
      PROVE  x.pid \in PID /\ x.pid # actif /\ noyau'.etat[x.pid] = noyau.etat[x.pid]
  <2>1. x.pid \in PID
    BY <1>7, FileType DEF IInvMessages, TypeMessages
  <2>2. noyau.etat[x.pid] \in {"BLOQUE_SUR_RECEPTION", "BLOQUE_SUR_ENVOI"}
    BY <1>7 DEF IInvMessages, FileSaine, InscritsDe
  <2>3. QED
    BY <1>2, <1>6, <2>1, <2>2 DEF Suspendus
<1>8. QED
  BY <1>2, <1>4, <1>5, <1>6, <1>7 DEF Ordonne

(* A suspension writes d over queue f, where the caller is now listed, and *)
(* records its call a.                                                     *)
LEMMA MajSuspendu ==
  ASSUME IInvMessages, ~noyau.panne, Programme, NEW f \in FID, NEW d \in FileMessage, NEW a \in Appels,
         NEW e \in {"BLOQUE_SUR_RECEPTION", "BLOQUE_SUR_ENVOI"},
         noyau' = Ordonnancer(Bloquer(noyau, actif, e)),
         files' = [files EXCEPT ![f] = d], appel' = [appel EXCEPT ![actif] = a],
         UNCHANGED <<horloge, NBFILES, valresetfile>>,
         ComptesDe(d), d.statut = files[f].statut,
         Unique(d.recep), Unique(d.envoi), a.fid = f,
         \/ /\ e = "BLOQUE_SUR_RECEPTION" /\ a.op = "preceive"
            /\ Range(d.recep) = Range(files[f].recep) \cup {MonEntree}
            /\ Range(d.envoi) = Range(files[f].envoi)
         \/ /\ e = "BLOQUE_SUR_ENVOI" /\ a.op = "psend" /\ d.statut
            /\ Range(d.recep) = Range(files[f].recep)
            /\ Range(d.envoi) = Range(files[f].envoi) \cup {MonEntree}
  PROVE  IInvMessages'
<1>1. /\ TypeMessages /\ IStable /\ EmetteurInscrit
      /\ \A g \in FID : FileSaine(noyau, appel, g, files[g])
  BY DEF IInvMessages
<1>2. /\ Stable(noyau') /\ noyau'.etat[actif] = e
      /\ actif \in PID /\ MonEntree \in Entrees /\ MonEntree.pid = actif /\ MonEntree.vif
      /\ \A x \in PID : x # actif /\ (noyau.etat[x] \in Suspendus \/ noyau'.etat[x] \in Suspendus)
                          => noyau'.etat[x] = noyau.etat[x]
      /\ \A g \in FID : \A x \in Range(files[g].recep) \cup Range(files[g].envoi) :
           x.vif => /\ x.pid \in PID /\ x.pid # actif
                    /\ noyau'.etat[x.pid] = noyau.etat[x.pid]
  BY AppelantSuspendu
<1>3. /\ files' \in [FID -> FileMessage] /\ files'[f] = d
      /\ \A g \in FID : g # f => files'[g] = files[g]
      /\ appel' \in [PID -> Appels] /\ appel'[actif] = a
      /\ \A p \in PID : p # actif => appel'[p] = appel[p]
  BY <1>1, <1>2 DEF TypeMessages
<1>4. \A g \in FID : \A x \in Range(files[g].recep) \cup Range(files[g].envoi) :
        x.vif => noyau'.etat[x.pid] = noyau.etat[x.pid] /\ appel'[x.pid] = appel[x.pid]
  BY <1>2, <1>3
<1>5. ASSUME NEW g \in FID
      PROVE  FileSaine(noyau', appel', g, files'[g])
  <2>1. FileSaine(noyau, appel, g, files[g])
    BY <1>1
  <2>2. CASE g # f
    BY <1>3, <1>4, <2>1, <2>2 DEF FileSaine, InscritsDe
  <2>3. CASE g = f
    <3>1. \A x \in Range(d.recep) : x.vif => /\ noyau'.etat[x.pid] = "BLOQUE_SUR_RECEPTION"
                                             /\ appel'[x.pid].op = "preceive" /\ appel'[x.pid].fid = f
      BY <1>2, <1>3, <1>4, <2>1, <2>3 DEF FileSaine, InscritsDe
    <3>2. \A x \in Range(d.envoi) : x.vif => /\ noyau'.etat[x.pid] = "BLOQUE_SUR_ENVOI"
                                             /\ appel'[x.pid].op = "psend" /\ appel'[x.pid].fid = f
      BY <1>2, <1>3, <1>4, <2>1, <2>3 DEF FileSaine, InscritsDe
    <3>3. QED
      BY <1>3, <2>3, <3>1, <3>2 DEF FileSaine, InscritsDe
  <2>4. QED
    BY <2>2, <2>3
<1>6. EmetteurInscrit'
  <2>1. SUFFICES ASSUME NEW p \in PID, noyau'.etat[p] = "BLOQUE_SUR_ENVOI"
                 PROVE  \E g \in FID : files'[g].statut
                          /\ \E x \in Range(files'[g].envoi) : x.vif /\ x.pid = p
    BY DEF EmetteurInscrit, Existe
  <2>2. CASE p = actif
    <3>1. d.statut /\ MonEntree \in Range(d.envoi)
      BY <1>2, <2>1, <2>2
    <3>2. QED
      BY <1>2, <1>3, <2>2, <3>1
  <2>3. CASE p # actif
    <3>1. noyau.etat[p] = "BLOQUE_SUR_ENVOI"
      BY <1>2, <2>1, <2>3 DEF Suspendus
    <3>2. PICK g \in FID : files[g].statut /\ \E x \in Range(files[g].envoi) : x.vif /\ x.pid = p
      BY <1>1, <3>1 DEF EmetteurInscrit, Existe
    <3>3. files'[g].statut /\ Range(files[g].envoi) \subseteq Range(files'[g].envoi)
      BY <1>3, <3>2
    <3>4. QED
      BY <3>2, <3>3
  <2>4. QED
    BY <2>2, <2>3
<1>7. IStable'
  BY <1>1, <1>2 DEF IStable
<1>8. NBFILES' = Cardinality({g \in FID : files'[g].statut})
  BY MemesFiles
<1>9. QED
  BY <1>1, <1>3, <1>5, <1>6, <1>7, <1>8 DEF IInvMessages, TypeMessages, Existe

(* preceive on an empty queue. *)
LEMMA ReceptionStep ==
  ASSUME IInvMessages, Programme, NEW f \in FID,
         files[f].nbelem = 0 /\ ~valresetfile[actif], TourReception(f),
         UNCHANGED <<horloge, NBFILES>>
  PROVE  IInvMessages'
<1>1. PICK q : q = files[f]
  OBVIOUS
<1>2. q \in FileMessage /\ FileSaine(noyau, appel, f, q)
  BY <1>1 DEF IInvMessages, TypeMessages
<1>3. q.recep \in Seq(Entrees) /\ q.nbproc_recep \in Int
  BY <1>2, FileType, FileType2
<1>4. PICK r, u, d : /\ r = queue_add(q.recep, MonEntree, PrioEntree) /\ u = q.nbproc_recep + 1
                     /\ d = [q EXCEPT !.recep = r, !.nbproc_recep = u]
  OBVIOUS
<1>5. /\ files' = [files EXCEPT ![f] = d]
      /\ appel' = [appel EXCEPT ![actif] = [op |-> "preceive", fid |-> f]]
      /\ noyau' = Ordonnancer(Bloquer(noyau, actif, "BLOQUE_SUR_RECEPTION"))
      /\ UNCHANGED valresetfile
  BY <1>1, <1>4 DEF TourReception
<1>6. /\ MonEntree \in Entrees /\ MonEntree.pid = actif /\ MonEntree.vif
      /\ \A x \in Range(q.recep) : x.vif => x.pid # actif
  BY <1>1, <1>5, AppelantSuspendu
<1>7. /\ r \in Seq(Entrees) /\ Len(r) = Len(q.recep) + 1
      /\ Range(r) = Range(q.recep) \cup {MonEntree}
      /\ Unique(q.recep) => Unique(r)
  <2>1. PICK e : e = MonEntree
    OBVIOUS
  <2>2. e \in Entrees /\ r = queue_add(q.recep, e, PrioEntree)
    BY <1>4, <1>6, <2>1
  <2>3. \A x \in Range(q.recep) : x.vif => x.pid # e.pid
    BY <1>6, <2>1
  <2>4. /\ r \in Seq(Entrees)
        /\ Len(r) = Len(q.recep) + 1
        /\ Range(r) = Range(q.recep) \cup {e}
    BY <1>3, <2>2, AjoutEntree
  <2>6. Unique(q.recep) => Unique(r)
    BY <1>3, <2>2, <2>3, AjoutEntree
  <2>7. QED
    BY <2>1, <2>4, <2>6
<1>8. /\ d \in FileMessage
      /\ d.recep = r /\ d.envoi = q.envoi /\ d.statut = q.statut /\ d.size = q.size
      /\ d.nbproc_recep = u /\ d.nbproc_envoi = q.nbproc_envoi
      /\ d.messages = q.messages /\ d.nbelem = q.nbelem
  <2>1. u \in Int
    BY <1>3, <1>4
  <2>2. QED
    BY <1>2, <1>4, <1>7, <2>1 DEF FileMessage
<1>9. ComptesDe(d) /\ Unique(d.recep) /\ Unique(d.envoi)
  BY <1>2, <1>4, <1>7, <1>8 DEF FileSaine, ComptesDe, InscritsDe
<1>10. PICK a : a = [op |-> "preceive", fid |-> f]
  OBVIOUS
<1>11. a \in Appels /\ a.fid = f /\ a.op = "preceive"
  BY <1>10, AppelEcrit
<1>12. ~noyau.panne
  BY DEF Programme
<1>13. QED
  BY <1>1, <1>5, <1>7, <1>8, <1>9, <1>10, <1>11, <1>12, MajSuspendu

(* psend on a full queue. *)
LEMMA EnvoiStep ==
  ASSUME IInvMessages, Programme, NEW f \in FID, NEW m \in MESSAGES, files[f].statut,
         files' = [files EXCEPT ![f] = [files[f] EXCEPT
                      !.envoi = queue_add(@, MonEntree, PrioEntree), !.nbproc_envoi = @ + 1]],
         appel' = [appel EXCEPT ![actif] = [op |-> "psend", fid |-> f, message |-> m]],
         noyau' = Ordonnancer(Bloquer(noyau, actif, "BLOQUE_SUR_ENVOI")),
         UNCHANGED <<horloge, NBFILES, valresetfile>>
  PROVE  IInvMessages'
<1>1. PICK q : q = files[f]
  OBVIOUS
<1>2. q \in FileMessage /\ FileSaine(noyau, appel, f, q)
  BY <1>1 DEF IInvMessages, TypeMessages
<1>3. q.envoi \in Seq(Entrees) /\ q.nbproc_envoi \in Int
  BY <1>2, FileType, FileType2
<1>4. PICK r, u, d : /\ r = queue_add(q.envoi, MonEntree, PrioEntree) /\ u = q.nbproc_envoi + 1
                     /\ d = [q EXCEPT !.envoi = r, !.nbproc_envoi = u]
  OBVIOUS
<1>5. files' = [files EXCEPT ![f] = d]
  BY <1>1, <1>4
<1>6. /\ MonEntree \in Entrees /\ MonEntree.pid = actif /\ MonEntree.vif
      /\ \A x \in Range(q.envoi) : x.vif => x.pid # actif
  BY <1>1, <1>5, AppelantSuspendu
<1>7. /\ r \in Seq(Entrees) /\ Len(r) = Len(q.envoi) + 1
      /\ Range(r) = Range(q.envoi) \cup {MonEntree}
      /\ Unique(q.envoi) => Unique(r)
  <2>1. PICK e : e = MonEntree
    OBVIOUS
  <2>2. e \in Entrees /\ r = queue_add(q.envoi, e, PrioEntree)
    BY <1>4, <1>6, <2>1
  <2>3. \A x \in Range(q.envoi) : x.vif => x.pid # e.pid
    BY <1>6, <2>1
  <2>4. /\ r \in Seq(Entrees)
        /\ Len(r) = Len(q.envoi) + 1
        /\ Range(r) = Range(q.envoi) \cup {e}
    BY <1>3, <2>2, AjoutEntree
  <2>6. Unique(q.envoi) => Unique(r)
    BY <1>3, <2>2, <2>3, AjoutEntree
  <2>7. QED
    BY <2>1, <2>4, <2>6
<1>8. /\ d \in FileMessage
      /\ d.recep = q.recep /\ d.envoi = r /\ d.statut = q.statut /\ d.size = q.size
      /\ d.nbproc_recep = q.nbproc_recep /\ d.nbproc_envoi = u
      /\ d.messages = q.messages /\ d.nbelem = q.nbelem
  <2>1. u \in Int
    BY <1>3, <1>4
  <2>2. QED
    BY <1>2, <1>4, <1>7, <2>1 DEF FileMessage
<1>9. ComptesDe(d) /\ Unique(d.recep) /\ Unique(d.envoi)
  BY <1>1, <1>2, <1>4, <1>7, <1>8 DEF FileSaine, ComptesDe, InscritsDe
<1>10. PICK a : a = [op |-> "psend", fid |-> f, message |-> m]
  OBVIOUS
<1>11. a \in Appels /\ a.fid = f /\ a.op = "psend"
  BY <1>10, AppelEcrit
<1>12. ~noyau.panne
  BY DEF Programme
<1>13. QED
  BY <1>1, <1>5, <1>7, <1>8, <1>9, <1>10, <1>11, <1>12, MajSuspendu

-----------------------------------------------------------------------------
(* One turn of preceive's loop. *)
LEMMA TourReceptionStep ==
  ASSUME IInvMessages, Programme, NEW f \in FID, TourReception(f),
         UNCHANGED <<horloge, NBFILES>>
  PROVE  IInvMessages'
<1>1. CASE files[f].nbelem = 0 /\ ~valresetfile[actif]
  BY <1>1, ReceptionStep
<1>2. CASE ~(files[f].nbelem = 0 /\ ~valresetfile[actif])
  <2>1. /\ valresetfile' = [valresetfile EXCEPT ![actif] = FALSE]
        /\ appel' = [appel EXCEPT ![actif] = AucunAppel]
        /\ IF valresetfile[actif] THEN UNCHANGED <<noyau, files>> ELSE Retirer(f)
    BY <1>2 DEF TourReception, Terminer
  <2>2. ~noyau.panne /\ valresetfile' \in [PID -> BOOLEAN]
    BY <2>1 DEF IInvMessages, TypeMessages, Programme
  <2>3. CASE valresetfile[actif]
    <3>1. UNCHANGED <<noyau, horloge, files, NBFILES>>
      BY <2>1, <2>3
    <3>2. QED
      BY <2>1, <2>2, <3>1, RienFile
  <2>4. CASE ~valresetfile[actif]
    BY <1>2, <2>1, <2>2, <2>4, RetirerStep
  <2>5. QED
    BY <2>3, <2>4
<1>3. QED
  BY <1>1, <1>2

(* psend that does not wait. *)
LEMMA EnvoiFiniStep ==
  ASSUME IInvMessages, Programme, NEW f \in FID, NEW m \in MESSAGES,
         files[f].nbelem = files[f].size => valresetfile[actif],
         Terminer(Deposer(f, m)), UNCHANGED <<horloge, NBFILES>>
  PROVE  IInvMessages'
<1>1. /\ valresetfile' = [valresetfile EXCEPT ![actif] = FALSE]
      /\ appel' = [appel EXCEPT ![actif] = AucunAppel]
      /\ IF valresetfile[actif] THEN UNCHANGED <<noyau, files>> ELSE Deposer(f, m)
  BY DEF Terminer
<1>2. ~noyau.panne /\ valresetfile' \in [PID -> BOOLEAN]
  BY <1>1 DEF IInvMessages, TypeMessages, Programme
<1>3. CASE valresetfile[actif]
  <2>1. UNCHANGED <<noyau, horloge, files, NBFILES>>
    BY <1>1, <1>3
  <2>2. QED
    BY <1>1, <1>2, <2>1, RienFile
<1>4. CASE ~valresetfile[actif]
  BY <1>1, <1>2, <1>4, DeposerStep
<1>5. QED
  BY <1>3, <1>4

LEMMA PsendStep ==
  ASSUME IInvMessages, NEW f \in FID, NEW m \in MESSAGES, Psend(f, m)
  PROVE  IInvMessages'
<1>1. Programme /\ files[f].statut /\ UNCHANGED <<horloge, NBFILES>>
  BY DEF Psend, Appelant, Existe
<1>2. CASE files[f].nbelem = files[f].size /\ ~valresetfile[actif]
  <2>1. /\ files' = [files EXCEPT ![f] = [files[f] EXCEPT
                       !.envoi = queue_add(@, MonEntree, PrioEntree), !.nbproc_envoi = @ + 1]]
        /\ appel' = [appel EXCEPT ![actif] = [op |-> "psend", fid |-> f, message |-> m]]
        /\ noyau' = Ordonnancer(Bloquer(noyau, actif, "BLOQUE_SUR_ENVOI"))
        /\ UNCHANGED <<horloge, NBFILES, valresetfile>>
    BY <1>1, <1>2 DEF Psend
  <2>2. QED
    BY <1>1, <2>1, EnvoiStep
<1>3. CASE ~(files[f].nbelem = files[f].size /\ ~valresetfile[actif])
  BY <1>1, <1>3, EnvoiFiniStep DEF Psend
<1>4. QED
  BY <1>2, <1>3

LEMMA PsendRepriseStep ==
  ASSUME IInvMessages, PsendReprise
  PROVE  IInvMessages'
<1>1. PICK f : f = appel[actif].fid
  OBVIOUS
<1>2. Programme /\ UNCHANGED <<horloge, NBFILES>> /\ ~noyau.panne
  BY DEF PsendReprise, Programme
<1>3. f \in FID /\ appel[actif].message \in MESSAGES
  <2>1. appel[actif] \in Appels
    BY ActifProp DEF IInvMessages, TypeMessages, IStable, actif
  <2>2. QED
    BY <1>1, <2>1, AppelType DEF PsendReprise
<1>4. CASE files[f].nbelem = files[f].size
  <2>1. /\ appel' = [appel EXCEPT ![actif] = AucunAppel]
        /\ UNCHANGED <<noyau, horloge, files, NBFILES>> /\ UNCHANGED valresetfile
    BY <1>1, <1>4 DEF PsendReprise
  <2>2. valresetfile' \in [PID -> BOOLEAN]
    BY <2>1 DEF IInvMessages, TypeMessages
  <2>3. QED
    BY <1>2, <2>1, <2>2, RienFile
<1>5. CASE files[f].nbelem # files[f].size
  BY <1>1, <1>2, <1>3, <1>5, EnvoiFiniStep DEF PsendReprise
<1>6. QED
  BY <1>4, <1>5

LEMMA PreceiveRepriseStep ==
  ASSUME IInvMessages, PreceiveReprise
  PROVE  IInvMessages'
<1>1. appel[actif] \in Appels
  BY ActifProp DEF IInvMessages, TypeMessages, IStable, actif
<1>2. appel[actif].fid \in FID
  BY <1>1, AppelType DEF PreceiveReprise
<1>3. QED
  BY <1>2, TourReceptionStep DEF PreceiveReprise

-----------------------------------------------------------------------------
(* After a fault nothing moves. *)
LEMMA PanneArrete ==
  ASSUME Next, noyau.panne
  PROVE  noyau' = noyau
  BY DEF Next, Start, StartInconnu, Kill, Exit, WaitpidQuelconque, WaitpidPrecis, Chprio,
         AttendreHorloge, Reprise, Tic, TicPossible, Arret, Programme, vars

(* A step of the process manager: what ends leaves dead entries behind. *)
LEMMA PasProcessusStep ==
  ASSUME IInvMessages, PasProcessus
  PROVE  IInvMessages'
<1>1. /\ TypeMessages /\ IStable /\ EmetteurInscrit
      /\ \A g \in FID : FileSaine(noyau, appel, g, files[g])
  BY DEF IInvMessages
<1>2. IStable' /\ Poursuit(noyau', noyau)
  BY <1>1, PasStable DEF PasProcessus
<1>3. /\ appel' = [p \in PID |-> IF Termine(p) THEN AucunAppel ELSE appel[p]]
      /\ valresetfile' = [p \in PID |-> valresetfile[p] /\ ~Termine(p)]
      /\ files' = [f \in FID |-> [files[f] EXCEPT !.recep = Perimer(@), !.envoi = Perimer(@)]]
      /\ NBFILES' = NBFILES
  BY DEF PasProcessus
<1>4. \A p \in PID : Termine(p) <=> noyau'.etat[p] \in Finis
  BY DEF Termine, Finis
<1>5. appel' \in [PID -> Appels] /\ \A p \in PID : ~Termine(p) => appel'[p] = appel[p]
  <2>1. \A p \in PID : appel[p] \in Appels
    BY <1>1 DEF TypeMessages
  <2>2. AucunAppel \in Appels
    BY DEF Appels
  <2>3. QED
    BY <1>3, <2>1, <2>2
<1>6. valresetfile' \in [PID -> BOOLEAN]
  BY <1>3
<1>7. ASSUME NEW f \in FID
      PROVE  /\ files'[f] \in FileMessage /\ files'[f].statut = files[f].statut
             /\ FileSaine(noyau', appel', f, files'[f])
             /\ \A x \in Range(files[f].envoi) : x.vif /\ ~Termine(x.pid)
                                                  => x \in Range(files'[f].envoi)
  <2>1. PICK q : q = files[f]
    OBVIOUS
  <2>2. PICK a, b : a = Perimer(q.recep) /\ b = Perimer(q.envoi)
    OBVIOUS
  <2>3. PICK d : d = [q EXCEPT !.recep = a, !.envoi = b]
    OBVIOUS
  <2>4. files'[f] = d
    BY <1>3, <2>1, <2>2, <2>3
  <2>5. q \in FileMessage /\ FileSaine(noyau, appel, f, q)
    BY <1>1, <2>1 DEF TypeMessages
  <2>6. q.recep \in Seq(Entrees) /\ q.envoi \in Seq(Entrees)
    BY <2>5, FileType
  <2>7. /\ a \in Seq(Entrees) /\ Len(a) = Len(q.recep)
        /\ Unique(q.recep) => Unique(a)
        /\ \A x \in Range(a) : x.vif => x \in Range(q.recep) /\ ~Termine(x.pid)
    BY <2>2, <2>6, PerimerProp
  <2>8. /\ b \in Seq(Entrees) /\ Len(b) = Len(q.envoi)
        /\ Unique(q.envoi) => Unique(b)
        /\ \A x \in Range(b) : x.vif => x \in Range(q.envoi) /\ ~Termine(x.pid)
        /\ \A x \in Range(q.envoi) : x.vif /\ ~Termine(x.pid) => x \in Range(b)
    BY <2>2, <2>6, PerimerProp
  <2>9. /\ d \in FileMessage
        /\ d.recep = a /\ d.envoi = b /\ d.statut = q.statut /\ d.size = q.size
        /\ d.nbproc_recep = q.nbproc_recep /\ d.nbproc_envoi = q.nbproc_envoi
        /\ d.messages = q.messages /\ d.nbelem = q.nbelem
    BY <2>3, <2>5, <2>7, <2>8 DEF FileMessage
  <2>10. ComptesDe(d)
    <3>1. q.envoi = << >> => b = << >>
      BY <2>6, <2>8, EmptySeq
    <3>2. QED
      BY <2>5, <2>7, <2>8, <2>9, <3>1 DEF FileSaine, ComptesDe
  <2>11. Unique(d.recep) /\ Unique(d.envoi)
    BY <2>5, <2>7, <2>8, <2>9 DEF FileSaine, InscritsDe
  <2>12. ASSUME NEW x \in Range(q.recep) \cup Range(q.envoi), x.vif, ~Termine(x.pid)
         PROVE  noyau'.etat[x.pid] = noyau.etat[x.pid] /\ appel'[x.pid] = appel[x.pid]
    <3>1. x.pid \in PID
      BY <2>5, FileType
    <3>2. noyau.etat[x.pid] \in Suspendus
      BY <2>5, <2>12 DEF FileSaine, InscritsDe, Suspendus
    <3>3. QED
      BY <1>2, <1>4, <1>5, <2>12, <3>1, <3>2 DEF Poursuit
  <2>13. InscritsDe(noyau', appel', f, d)
    <3>1. \A x \in Range(a) : x.vif => /\ noyau'.etat[x.pid] = "BLOQUE_SUR_RECEPTION"
                                       /\ appel'[x.pid].op = "preceive" /\ appel'[x.pid].fid = f
      BY <2>5, <2>7, <2>12 DEF FileSaine, InscritsDe
    <3>2. \A x \in Range(b) : x.vif => /\ noyau'.etat[x.pid] = "BLOQUE_SUR_ENVOI"
                                       /\ appel'[x.pid].op = "psend" /\ appel'[x.pid].fid = f
      BY <2>5, <2>8, <2>12 DEF FileSaine, InscritsDe
    <3>3. QED
      BY <2>9, <2>11, <3>1, <3>2 DEF InscritsDe
  <2>14. QED
    BY <2>1, <2>4, <2>8, <2>9, <2>10, <2>11, <2>13 DEF FileSaine
<1>8. files' \in [FID -> FileMessage]
  <2>1. files' = [f \in FID |-> files'[f]]
    BY <1>3
  <2>2. QED
    BY <1>7, <2>1
<1>9. EmetteurInscrit'
  <2>1. SUFFICES ASSUME ~noyau'.panne, NEW p \in PID, noyau'.etat[p] = "BLOQUE_SUR_ENVOI"
                 PROVE  \E g \in FID : files'[g].statut
                          /\ \E x \in Range(files'[g].envoi) : x.vif /\ x.pid = p
    BY DEF EmetteurInscrit, Existe
  <2>2. noyau.etat[p] = "BLOQUE_SUR_ENVOI" /\ ~Termine(p)
    BY <1>2, <1>4, <2>1 DEF Poursuit, Suspendus, Finis
  <2>3. ~noyau.panne
    BY <2>1, PanneArrete DEF PasProcessus
  <2>4. PICK g \in FID : files[g].statut /\ \E x \in Range(files[g].envoi) : x.vif /\ x.pid = p
    BY <1>1, <2>2, <2>3 DEF EmetteurInscrit, Existe
  <2>5. PICK x \in Range(files[g].envoi) : x.vif /\ x.pid = p
    BY <2>4
  <2>6. files'[g].statut /\ x \in Range(files'[g].envoi)
    BY <1>7, <2>2, <2>4, <2>5
  <2>7. QED
    BY <2>5, <2>6
<1>10. NBFILES' = Cardinality({g \in FID : files'[g].statut})
  <2>1. {g \in FID : files'[g].statut} = {g \in FID : files[g].statut}
    BY <1>7
  <2>2. QED
    BY <1>3, <2>1 DEF IInvMessages, Existe
<1>11. QED
  BY <1>2, <1>5, <1>6, <1>7, <1>8, <1>9, <1>10 DEF IInvMessages, TypeMessages, Existe

-----------------------------------------------------------------------------
LEMMA InitMessagesIInv == InitMessages => IInvMessages
<1> SUFFICES ASSUME InitMessages PROVE IInvMessages
  OBVIOUS
<1>1. IStable
  BY InitIInv DEF InitMessages, IInv, IStable, Ordonne
<1>2. FileInitiale \in FileMessage
  <2>1. << >> \in Seq(MESSAGES) /\ << >> \in Seq(Entrees)
    OBVIOUS
  <2>2. QED
    BY <2>1 DEF FileInitiale, FileMessage
<1>3. /\ files = [f \in FID |-> FileInitiale]
      /\ NBFILES = 0
      /\ valresetfile = [p \in PID |-> FALSE]
      /\ appel = [p \in PID |-> AucunAppel]
  BY DEF InitMessages
<1>4. TypeMessages
  <2>1. AucunAppel \in Appels
    BY DEF Appels
  <2>2. QED
    BY <1>2, <1>3, <2>1 DEF TypeMessages
<1>5. ASSUME NEW f \in FID
      PROVE  FileSaine(noyau, appel, f, files[f]) /\ ~files[f].statut
  <2>1. /\ files[f].statut = FALSE /\ files[f].size = 0 /\ files[f].nbelem = 0
        /\ files[f].nbproc_recep = 0 /\ files[f].nbproc_envoi = 0
        /\ files[f].messages = << >> /\ files[f].recep = << >> /\ files[f].envoi = << >>
    BY <1>3 DEF FileInitiale
  <2>2. ComptesDe(files[f])
    BY <2>1 DEF ComptesDe
  <2>4. InscritsDe(noyau, appel, f, files[f])
    BY <2>1 DEF InscritsDe, Unique, Range
  <2>5. QED
    BY <2>1, <2>2, <2>4 DEF FileSaine
<1>6. NBFILES = Cardinality({f \in FID : Existe(f)})
  <2>1. {f \in FID : Existe(f)} = {}
    BY <1>5 DEF Existe
  <2>2. QED
    BY <1>3, <2>1, FS_EmptySet
<1>7. EmetteurInscrit
  BY InitPersonne DEF EmetteurInscrit, InitMessages, Suspendus
<1>8. QED
  BY <1>1, <1>4, <1>5, <1>6, <1>7 DEF IInvMessages

LEMMA NextMessagesIInv == IInvMessages /\ [NextMessages]_varsMessages => IInvMessages'
<1> SUFFICES ASSUME IInvMessages, [NextMessages]_varsMessages PROVE IInvMessages'
  OBVIOUS
<1>1. CASE PasProcessus
  BY <1>1, PasProcessusStep
<1>2. ASSUME NEW n \in CAPACITES, Pcreate(n) PROVE IInvMessages'
  BY <1>2, PcreateStep
<1>3. ASSUME NEW f \in FID, Preceive(f) PROVE IInvMessages'
  BY <1>3, TourReceptionStep DEF Preceive, Appelant
<1>4. ASSUME NEW f \in FID, Preset(f) PROVE IInvMessages'
  BY <1>4, PresetStep
<1>5. ASSUME NEW f \in FID, Pdelete(f) PROVE IInvMessages'
  BY <1>5, PdeleteStep
<1>6. ASSUME NEW f \in FID, NEW m \in MESSAGES, Psend(f, m) PROVE IInvMessages'
  BY <1>6, PsendStep
<1>7. CASE PreceiveReprise
  BY <1>7, PreceiveRepriseStep
<1>8. CASE PsendReprise
  BY <1>8, PsendRepriseStep
<1>9. CASE UNCHANGED varsMessages
  <2>1. /\ noyau' = noyau /\ horloge' = horloge /\ files' = files /\ NBFILES' = NBFILES
        /\ valresetfile' = valresetfile /\ appel' = appel
    BY <1>9 DEF varsMessages
  <2>2. QED
    BY <2>1 DEF IInvMessages, IStable, TypeMessages, EmetteurInscrit, Existe
<1>10. QED
  BY <1>1, <1>2, <1>3, <1>4, <1>5, <1>6, <1>7, <1>8, <1>9 DEF NextMessages

LEMMA InvariantMessages == SpecMessages => []IInvMessages
  BY InitMessagesIInv, NextMessagesIInv, PTL DEF SpecMessages

-----------------------------------------------------------------------------
(* The counters agree with the lists, no queue overflows, pcreate finds a  *)
(* free queue and pcount answers what it promises (file.c:24-215).         *)
THEOREM ComptesJustesCorrect == SpecMessages => []ComptesJustes
<1>1. ASSUME IInvMessages, NEW f \in FID
      PROVE  /\ files[f].nbelem = Len(files[f].messages)
             /\ files[f].nbelem <= files[f].size
             /\ files[f].nbproc_recep = Len(files[f].recep)
             /\ files[f].nbproc_envoi = Len(files[f].envoi)
             /\ pcount(f) = Len(files[f].messages) + Len(files[f].envoi) - Len(files[f].recep)
             /\ ~Existe(f) => files[f].messages = << >> /\ files[f].envoi = << >>
  <2>1. files[f] \in FileMessage /\ ComptesDe(files[f])
    BY <1>1 DEF IInvMessages, TypeMessages, FileSaine
  <2>2. /\ Len(files[f].messages) \in Nat /\ Len(files[f].envoi) \in Nat
        /\ Len(files[f].recep) \in Nat
    BY <2>1, FileType, LenProperties
  <2>3. PICK a, b, c : /\ a = Len(files[f].recep) /\ b = Len(files[f].messages)
                       /\ c = Len(files[f].envoi)
    OBVIOUS
  <2>4. pcount(f) = -a + b + c
    BY <2>1, <2>3 DEF pcount, ComptesDe
  <2>5. pcount(f) = b + c - a
    <3>1. a \in Nat /\ b \in Nat /\ c \in Nat
      BY <2>2, <2>3
    <3>2. QED
      BY <2>4, <3>1
  <2>6. /\ files[f].nbelem = b /\ files[f].nbelem <= files[f].size
        /\ files[f].nbproc_recep = a /\ files[f].nbproc_envoi = c
        /\ ~Existe(f) => files[f].messages = << >> /\ files[f].envoi = << >>
    BY <2>1, <2>3 DEF ComptesDe, Existe
  <2>7. QED
    BY <2>3, <2>5, <2>6
<1>2. IInvMessages => ComptesJustes
  BY <1>1 DEF ComptesJustes, IInvMessages
<1>3. QED
  BY <1>2, InvariantMessages, PTL

(* A living process is listed in one place, the queue of its call, and is  *)
(* blocked there: whom psend, preceive, preset and pdelete wake was        *)
(* waiting (file.c:89-177).                                                *)
THEOREM EntreesFidelesCorrect == SpecMessages => []EntreesFideles
<1>1. ASSUME IInvMessages, NEW f \in FID
      PROVE  /\ DOMAIN files[f].recep = 1..Len(files[f].recep)
             /\ DOMAIN files[f].envoi = 1..Len(files[f].envoi)
             /\ InscritsDe(noyau, appel, f, files[f])
  BY <1>1, FileType, LenProperties DEF IInvMessages, TypeMessages, FileSaine
<1>2. ASSUME IInvMessages, NEW f \in FID, NEW i \in DOMAIN files[f].recep, files[f].recep[i].vif
      PROVE  /\ noyau.etat[files[f].recep[i].pid] = "BLOQUE_SUR_RECEPTION"
             /\ appel[files[f].recep[i].pid].op = "preceive" /\ appel[files[f].recep[i].pid].fid = f
             /\ \A j \in DOMAIN files[f].recep :
                  files[f].recep[j].vif /\ files[f].recep[j].pid = files[f].recep[i].pid => j = i
  <2>1. files[f].recep[i] \in Range(files[f].recep)
    BY <1>2 DEF Range
  <2>2. QED
    BY <1>1, <1>2, <2>1 DEF InscritsDe, Unique
<1>3. ASSUME IInvMessages, NEW f \in FID, NEW i \in DOMAIN files[f].envoi, files[f].envoi[i].vif
      PROVE  /\ noyau.etat[files[f].envoi[i].pid] = "BLOQUE_SUR_ENVOI"
             /\ appel[files[f].envoi[i].pid].op = "psend" /\ appel[files[f].envoi[i].pid].fid = f
             /\ \A j \in DOMAIN files[f].envoi :
                  files[f].envoi[j].vif /\ files[f].envoi[j].pid = files[f].envoi[i].pid => j = i
  <2>1. files[f].envoi[i] \in Range(files[f].envoi)
    BY <1>3 DEF Range
  <2>2. QED
    BY <1>1, <1>3, <2>1 DEF InscritsDe, Unique
<1>4. IInvMessages => EntreesFideles
  BY <1>2, <1>3 DEF EntreesFideles
<1>5. QED
  BY <1>4, InvariantMessages, PTL

(* A sender that waits is found by preceive, preset and pdelete, even when *)
(* its queue was deleted and created again meanwhile (file.c:64-177).      *)
THEOREM EmetteurInscritCorrect == SpecMessages => []EmetteurInscrit
<1>1. IInvMessages => EmetteurInscrit
  BY DEF IInvMessages
<1>2. QED
  BY <1>1, InvariantMessages, PTL

(* A tick restores what psend, preset and pdelete break: after it nobody   *)
(* runnable is more urgent than the active process (horloge.c:62-88).      *)
THEOREM InversionBorneeCorrect == SpecMessages => InversionBornee
<1>1. IInvMessages /\ Tic => Prioritaire(noyau')
  BY TicStep DEF IInvMessages, Ordonne
<1>2. IInvMessages => [Tic => Prioritaire(noyau')]_varsMessages
  BY <1>1
<1>3. QED
  BY <1>2, InvariantMessages, PTL DEF SpecMessages, InversionBornee

-----------------------------------------------------------------------------
(* The refinement of module Tampons.  A queue exists exactly when its size *)
(* is not 0.                                                               *)
LEMMA Tampon ==
  ASSUME IInvMessages, NEW f \in FID
  PROVE  /\ capaciteDe[f] = files[f].size /\ contenuDe[f] = files[f].messages
         /\ capaciteDe[f] # 0 <=> files[f].statut
<1>1. files[f] \in FileMessage /\ ComptesDe(files[f])
  BY DEF IInvMessages, TypeMessages, FileSaine
<1>2. QED
  BY <1>1 DEF ComptesDe, capaciteDe, contenuDe, Existe

(* A step that writes one queue. *)
LEMMA TamponMaj ==
  ASSUME IInvMessages, IInvMessages', NEW f \in FID,
         \A g \in FID : g # f => /\ files'[g].size = files[g].size
                                 /\ files'[g].messages = files[g].messages
  PROVE  /\ capaciteDe' = [capaciteDe EXCEPT ![f] = files'[f].size]
         /\ contenuDe' = [contenuDe EXCEPT ![f] = files'[f].messages]
<1>1. \A g \in FID : ComptesDe(files[g]) /\ ComptesDe(files'[g])
  BY DEF IInvMessages, FileSaine
<1>2. \A g \in FID : /\ files[g].size = IF files[g].statut THEN files[g].size ELSE 0
                     /\ files'[g].size = IF files'[g].statut THEN files'[g].size ELSE 0
  BY <1>1 DEF ComptesDe
<1>3. /\ capaciteDe = [g \in FID |-> files[g].size]
      /\ capaciteDe' = [g \in FID |-> files'[g].size]
  BY <1>2 DEF capaciteDe, Existe
<1>4. /\ contenuDe = [g \in FID |-> files[g].messages]
      /\ contenuDe' = [g \in FID |-> files'[g].messages]
  BY DEF contenuDe
<1>5. QED
  BY <1>3, <1>4

(* A step that sends nothing and receives nothing. *)
LEMMA TamponInchange ==
  ASSUME IInvMessages, IInvMessages',
         \A g \in FID : files'[g].size = files[g].size /\ files'[g].messages = files[g].messages
  PROVE  UNCHANGED <<capaciteDe, contenuDe>>
<1>1. 0 \in FID
  BY NbqueueAssumption DEF FID
<1>2. /\ capaciteDe' = [capaciteDe EXCEPT ![0] = files'[0].size]
      /\ contenuDe' = [contenuDe EXCEPT ![0] = files'[0].messages]
  BY <1>1, TamponMaj
<1>3. capaciteDe[0] = files'[0].size /\ contenuDe[0] = files'[0].messages
  BY <1>1, Tampon
<1>4. capaciteDe = [g \in FID |-> capaciteDe[g]] /\ contenuDe = [g \in FID |-> contenuDe[g]]
  BY DEF capaciteDe, contenuDe
<1>5. QED
  BY <1>1, <1>2, <1>3, <1>4

LEMMA DeposerTampon ==
  ASSUME IInvMessages, IInvMessages', NEW f \in FID, NEW m \in MESSAGES,
         files[f].nbelem # files[f].size, Deposer(f, m)
  PROVE  Abstrait!Deposer(f, m)
<1>1. PICK q : q = files[f]
  OBVIOUS
<1>2. q \in FileMessage /\ ComptesDe(q) /\ files \in [FID -> FileMessage]
  BY <1>1 DEF IInvMessages, TypeMessages, FileSaine
<1>3. PICK d : d = [q EXCEPT !.messages = Append(q.messages, m), !.nbelem = q.nbelem + 1]
  OBVIOUS
<1>4. d.messages = Append(q.messages, m) /\ d.size = q.size
  BY <1>2, <1>3 DEF FileMessage
<1>5. PICK c : /\ files' = [files EXCEPT ![f] = c]
               /\ c.messages = d.messages /\ c.size = d.size
  <2>1. CASE files' = [files EXCEPT ![f] = d]
    BY <2>1
  <2>2. CASE files' = [files EXCEPT ![f] =
                         [d EXCEPT !.recep = queue_out(q.recep), !.nbproc_recep = q.nbproc_recep - 1]]
    <3>1. PICK c : c = [d EXCEPT !.recep = queue_out(q.recep), !.nbproc_recep = q.nbproc_recep - 1]
      OBVIOUS
    <3>2. c.messages = d.messages /\ c.size = d.size
      BY <1>2, <1>3, <3>1 DEF FileMessage
    <3>3. QED
      BY <2>2, <3>1, <3>2
  <2>3. d.recep = q.recep /\ d.nbproc_recep = q.nbproc_recep
    BY <1>2, <1>3 DEF FileMessage
  <2>4. QED
    BY <1>1, <1>3, <2>1, <2>2, <2>3 DEF Deposer
<1>6. /\ files'[f].messages = Append(q.messages, m) /\ files'[f].size = q.size
      /\ \A g \in FID : g # f => files'[g] = files[g]
  BY <1>2, <1>4, <1>5
<1>7. /\ capaciteDe[f] = q.size /\ contenuDe[f] = q.messages
      /\ contenuDe' = [contenuDe EXCEPT ![f] = Append(q.messages, m)]
      /\ capaciteDe' = [capaciteDe EXCEPT ![f] = q.size]
  <2>1. capaciteDe[f] = q.size /\ contenuDe[f] = q.messages
    BY <1>1, Tampon
  <2>2. /\ capaciteDe' = [capaciteDe EXCEPT ![f] = files'[f].size]
        /\ contenuDe' = [contenuDe EXCEPT ![f] = files'[f].messages]
    <3>1. \A g \in FID : g # f => /\ files'[g].size = files[g].size
                                  /\ files'[g].messages = files[g].messages
      BY <1>6
    <3>2. QED
      BY <3>1, TamponMaj, Zenon
  <2>3. QED
    BY <1>6, <2>1, <2>2
<1>8. q.size # 0 /\ Len(q.messages) < q.size
  <2>1. q.nbelem \in Int /\ q.size \in Nat /\ Len(q.messages) \in Nat
    BY <1>2, FileType, LenProperties
  <2>2. QED
    BY <1>1, <1>2, <2>1 DEF ComptesDe
<1>9. capaciteDe' = capaciteDe
  BY <1>7 DEF capaciteDe
<1>10. QED
  BY <1>7, <1>8, <1>9 DEF Abstrait!Deposer, Abstrait!Existe

LEMMA RetirerTampon ==
  ASSUME IInvMessages, IInvMessages', NEW f \in FID, files[f].nbelem # 0, Retirer(f)
  PROVE  Abstrait!Retirer(f)
<1>1. PICK q : q = files[f]
  OBVIOUS
<1>2. q \in FileMessage /\ ComptesDe(q) /\ files \in [FID -> FileMessage]
  BY <1>1 DEF IInvMessages, TypeMessages, FileSaine
<1>3. PICK d : d = [q EXCEPT !.messages = Tail(q.messages), !.nbelem = q.nbelem - 1]
  OBVIOUS
<1>4. d.messages = Tail(q.messages) /\ d.size = q.size
  BY <1>2, <1>3 DEF FileMessage
<1>5. PICK c : /\ files' = [files EXCEPT ![f] = c]
               /\ c.messages = d.messages /\ c.size = d.size
  <2>1. CASE files' = [files EXCEPT ![f] = d]
    BY <2>1
  <2>2. CASE files' = [files EXCEPT ![f] =
                         [d EXCEPT !.envoi = queue_out(q.envoi), !.nbproc_envoi = q.nbproc_envoi - 1]]
    <3>1. PICK c : c = [d EXCEPT !.envoi = queue_out(q.envoi), !.nbproc_envoi = q.nbproc_envoi - 1]
      OBVIOUS
    <3>2. c.messages = d.messages /\ c.size = d.size
      BY <1>2, <1>3, <3>1 DEF FileMessage
    <3>3. QED
      BY <2>2, <3>1, <3>2
  <2>3. d.envoi = q.envoi /\ d.nbproc_envoi = q.nbproc_envoi
    BY <1>2, <1>3 DEF FileMessage
  <2>4. QED
    BY <1>1, <1>3, <2>1, <2>2, <2>3 DEF Retirer
<1>6. /\ files'[f].messages = Tail(q.messages) /\ files'[f].size = q.size
      /\ \A g \in FID : g # f => files'[g] = files[g]
  BY <1>2, <1>4, <1>5
<1>7. /\ capaciteDe[f] = q.size /\ contenuDe[f] = q.messages
      /\ contenuDe' = [contenuDe EXCEPT ![f] = Tail(q.messages)]
      /\ capaciteDe' = [capaciteDe EXCEPT ![f] = q.size]
  <2>1. capaciteDe[f] = q.size /\ contenuDe[f] = q.messages
    BY <1>1, Tampon
  <2>2. /\ capaciteDe' = [capaciteDe EXCEPT ![f] = files'[f].size]
        /\ contenuDe' = [contenuDe EXCEPT ![f] = files'[f].messages]
    <3>1. \A g \in FID : g # f => /\ files'[g].size = files[g].size
                                  /\ files'[g].messages = files[g].messages
      BY <1>6
    <3>2. QED
      BY <3>1, TamponMaj, Zenon
  <2>3. QED
    BY <1>6, <2>1, <2>2
<1>8. q.messages # << >>
  BY <1>1, <1>2, EmptySeq DEF ComptesDe
<1>9. capaciteDe' = capaciteDe
  BY <1>7 DEF capaciteDe
<1>10. QED
  BY <1>7, <1>8, <1>9 DEF Abstrait!Retirer

LEMMA PcreateTampon ==
  ASSUME IInvMessages, IInvMessages', NEW n \in CAPACITES, Pcreate(n)
  PROVE  \E f \in FID : Abstrait!Creer(f, n)
<1>1. PICK f : f = Min({x \in FID : ~Existe(x)})
  OBVIOUS
<1>2. f \in FID /\ ~files[f].statut
  BY <1>1, FileLibre DEF Pcreate, Existe
<1>3. PICK q : q = files[f]
  OBVIOUS
<1>4. q \in FileMessage /\ files \in [FID -> FileMessage]
  BY <1>2, <1>3 DEF IInvMessages, TypeMessages
<1>5. PICK d : d = [q EXCEPT !.statut = TRUE, !.size = n, !.nbelem = 0,
                      !.nbproc_recep = 0, !.nbproc_envoi = 0, !.recep = << >>, !.envoi = << >>]
  OBVIOUS
<1>6. d.size = n /\ d.messages = q.messages
  BY <1>4, <1>5 DEF FileMessage
<1>7. files' = [files EXCEPT ![f] = d]
  BY <1>1, <1>3, <1>5 DEF Pcreate
<1>8. /\ files'[f].size = n /\ files'[f].messages = q.messages
      /\ \A g \in FID : g # f => files'[g] = files[g]
  BY <1>2, <1>4, <1>6, <1>7
<1>9. /\ contenuDe[f] = q.messages /\ ~(capaciteDe[f] # 0)
      /\ contenuDe' = [contenuDe EXCEPT ![f] = q.messages]
      /\ capaciteDe' = [capaciteDe EXCEPT ![f] = n]
  BY <1>2, <1>3, <1>8, Tampon, TamponMaj
<1>10. contenuDe' = contenuDe
  BY <1>9 DEF contenuDe
<1>11. QED
  BY <1>2, <1>9, <1>10 DEF Abstrait!Creer, Abstrait!Existe

LEMMA PresetTampon ==
  ASSUME IInvMessages, IInvMessages', NEW f \in FID, Preset(f)
  PROVE  Abstrait!Vider(f)
<1>1. PICK q, d : q = files[f] /\ d = ViderFile(q)
  OBVIOUS
<1>2. q \in FileMessage /\ files \in [FID -> FileMessage] /\ q.statut
  BY <1>1 DEF IInvMessages, TypeMessages, Preset, Existe
<1>3. d.size = q.size /\ d.messages = << >>
  BY <1>1, <1>2, ViderFileProp
<1>4. files' = [files EXCEPT ![f] = d]
  BY <1>1 DEF Preset
<1>5. /\ files'[f].size = q.size /\ files'[f].messages = << >>
      /\ \A g \in FID : g # f => files'[g] = files[g]
  BY <1>2, <1>3, <1>4
<1>6. /\ capaciteDe[f] = q.size /\ capaciteDe[f] # 0
      /\ contenuDe' = [contenuDe EXCEPT ![f] = << >>]
      /\ capaciteDe' = [capaciteDe EXCEPT ![f] = q.size]
  BY <1>1, <1>2, <1>5, Tampon, TamponMaj
<1>7. capaciteDe' = capaciteDe
  BY <1>6 DEF capaciteDe
<1>8. QED
  BY <1>6, <1>7 DEF Abstrait!Vider, Abstrait!Existe

LEMMA PdeleteTampon ==
  ASSUME IInvMessages, IInvMessages', NEW f \in FID, Pdelete(f)
  PROVE  Abstrait!Supprimer(f)
<1>1. PICK q, v, d : /\ q = files[f] /\ v = ViderFile(q)
                     /\ d = [v EXCEPT !.size = 0, !.statut = FALSE]
  OBVIOUS
<1>2. q \in FileMessage /\ files \in [FID -> FileMessage] /\ q.statut
  BY <1>1 DEF IInvMessages, TypeMessages, Pdelete, Existe
<1>3. v \in FileMessage /\ v.messages = << >>
  BY <1>1, <1>2, ViderFileProp
<1>4. d.size = 0 /\ d.messages = << >>
  BY <1>1, <1>3 DEF FileMessage
<1>5. files' = [files EXCEPT ![f] = d]
  BY <1>1 DEF Pdelete
<1>6. /\ files'[f].size = 0 /\ files'[f].messages = << >>
      /\ \A g \in FID : g # f => files'[g] = files[g]
  BY <1>2, <1>4, <1>5
<1>7. /\ capaciteDe[f] # 0
      /\ contenuDe' = [contenuDe EXCEPT ![f] = << >>]
      /\ capaciteDe' = [capaciteDe EXCEPT ![f] = 0]
  BY <1>1, <1>2, <1>6, Tampon, TamponMaj
<1>8. QED
  BY <1>7 DEF Abstrait!Supprimer, Abstrait!Existe

(* Listing the caller leaves sizes and messages alone. *)
LEMMA ListerTampon ==
  ASSUME IInvMessages, IInvMessages', NEW f \in FID, NEW d,
         files' = [files EXCEPT ![f] = d],
         d.size = files[f].size, d.messages = files[f].messages
  PROVE  UNCHANGED <<capaciteDe, contenuDe>>
<1>1. \A g \in FID : files'[g].size = files[g].size /\ files'[g].messages = files[g].messages
  BY DEF IInvMessages, TypeMessages
<1>2. QED
  BY <1>1, TamponInchange

LEMMA ReceptionTampon ==
  ASSUME IInvMessages, IInvMessages', NEW f \in FID, TourReception(f)
  PROVE  Abstrait!Retirer(f) \/ UNCHANGED <<capaciteDe, contenuDe>>
<1>1. CASE files[f].nbelem = 0 /\ ~valresetfile[actif]
  <2>1. PICK q, d : /\ q = files[f]
                    /\ d = [q EXCEPT !.recep = queue_add(q.recep, MonEntree, PrioEntree),
                                     !.nbproc_recep = q.nbproc_recep + 1]
    OBVIOUS
  <2>2. files' = [files EXCEPT ![f] = d]
    BY <1>1, <2>1 DEF TourReception
  <2>3. d.size = q.size /\ d.messages = q.messages
    BY <2>1 DEF IInvMessages, TypeMessages, FileMessage
  <2>4. QED
    BY <2>1, <2>2, <2>3, ListerTampon
<1>2. CASE files[f].nbelem # 0 /\ ~valresetfile[actif]
  BY <1>2, RetirerTampon DEF TourReception, Terminer
<1>3. CASE valresetfile[actif]
  BY <1>3, TamponInchange DEF TourReception, Terminer
<1>4. QED
  BY <1>1, <1>2, <1>3

LEMMA EnvoiTampon ==
  ASSUME IInvMessages, IInvMessages', NEW f \in FID, NEW m \in MESSAGES,
         files[f].nbelem = files[f].size => valresetfile[actif], Terminer(Deposer(f, m))
  PROVE  Abstrait!Deposer(f, m) \/ UNCHANGED <<capaciteDe, contenuDe>>
<1>1. CASE valresetfile[actif]
  BY <1>1, TamponInchange DEF Terminer
<1>2. CASE ~valresetfile[actif]
  BY <1>2, DeposerTampon DEF Terminer
<1>3. QED
  BY <1>1, <1>2

LEMMA PsendTampon ==
  ASSUME IInvMessages, IInvMessages', NEW f \in FID, NEW m \in MESSAGES, Psend(f, m)
  PROVE  Abstrait!Deposer(f, m) \/ UNCHANGED <<capaciteDe, contenuDe>>
<1>1. CASE files[f].nbelem = files[f].size /\ ~valresetfile[actif]
  <2>1. PICK q, d : /\ q = files[f]
                    /\ d = [q EXCEPT !.envoi = queue_add(q.envoi, MonEntree, PrioEntree),
                                     !.nbproc_envoi = q.nbproc_envoi + 1]
    OBVIOUS
  <2>2. files' = [files EXCEPT ![f] = d]
    BY <1>1, <2>1 DEF Psend
  <2>3. d.size = q.size /\ d.messages = q.messages
    BY <2>1 DEF IInvMessages, TypeMessages, FileMessage
  <2>4. QED
    BY <2>1, <2>2, <2>3, ListerTampon
<1>2. CASE ~(files[f].nbelem = files[f].size /\ ~valresetfile[actif])
  BY <1>2, EnvoiTampon DEF Psend
<1>3. QED
  BY <1>1, <1>2

(* The step that a step of the kernel is, seen by the users of the queues. *)
LEMMA PasTampons ==
  ASSUME IInvMessages, IInvMessages', [NextMessages]_varsMessages
  PROVE  [Abstrait!Next]_<<capaciteDe, contenuDe>>
<1>1. Abstrait!FID = FID
  BY DEF FID, Abstrait!FID
<1>2. CASE PasProcessus
  <2>1. \A g \in FID : files'[g] = [files[g] EXCEPT !.recep = Perimer(@), !.envoi = Perimer(@)]
    BY <1>2 DEF PasProcessus
  <2>2. \A g \in FID : files[g] \in FileMessage
    BY DEF IInvMessages, TypeMessages
  <2>3. ASSUME NEW g \in FID
        PROVE  files'[g].size = files[g].size /\ files'[g].messages = files[g].messages
    <3>1. PICK q, d, a, b : /\ q = files[g] /\ a = Perimer(q.recep) /\ b = Perimer(q.envoi)
                            /\ d = [q EXCEPT !.recep = a, !.envoi = b]
      OBVIOUS
    <3>2. q \in FileMessage /\ files'[g] = d
      BY <2>1, <2>2, <3>1
    <3>3. d.size = q.size /\ d.messages = q.messages
      BY <3>1, <3>2 DEF FileMessage
    <3>4. QED
      BY <3>1, <3>2, <3>3
  <2>4. QED
    BY <2>3, TamponInchange
<1>3. ASSUME NEW n \in CAPACITES, Pcreate(n)
      PROVE  Abstrait!Next
  BY <1>1, <1>3, PcreateTampon DEF Abstrait!Next
<1>4. ASSUME NEW f \in FID, Preceive(f)
      PROVE  [Abstrait!Next]_<<capaciteDe, contenuDe>>
  BY <1>1, <1>4, ReceptionTampon DEF Preceive, Abstrait!Next
<1>5. ASSUME NEW f \in FID, Preset(f)
      PROVE  Abstrait!Next
  BY <1>1, <1>5, PresetTampon DEF Abstrait!Next
<1>6. ASSUME NEW f \in FID, Pdelete(f)
      PROVE  Abstrait!Next
  BY <1>1, <1>6, PdeleteTampon DEF Abstrait!Next
<1>7. ASSUME NEW f \in FID, NEW m \in MESSAGES, Psend(f, m)
      PROVE  [Abstrait!Next]_<<capaciteDe, contenuDe>>
  BY <1>1, <1>7, PsendTampon DEF Abstrait!Next
<1>8. appel[actif] \in Appels
  BY ActifProp DEF IInvMessages, TypeMessages, IStable, actif
<1>9. CASE PreceiveReprise
  BY <1>1, <1>8, <1>9, AppelType, ReceptionTampon DEF PreceiveReprise, Abstrait!Next
<1>10. CASE PsendReprise
  <2>1. PICK f, m : f = appel[actif].fid /\ m = appel[actif].message
    OBVIOUS
  <2>2. f \in FID /\ m \in MESSAGES
    BY <1>8, <1>10, <2>1, AppelType DEF PsendReprise
  <2>3. CASE files[f].nbelem = files[f].size
    BY <1>10, <2>1, <2>3, TamponInchange DEF PsendReprise
  <2>4. CASE files[f].nbelem # files[f].size
    <3>1. Terminer(Deposer(f, m))
      BY <1>10, <2>1, <2>4 DEF PsendReprise
    <3>2. QED
      BY <1>1, <2>2, <2>4, <3>1, EnvoiTampon DEF Abstrait!Next
  <2>5. QED
    BY <2>3, <2>4
<1>11. CASE UNCHANGED varsMessages
  BY <1>11, TamponInchange DEF varsMessages
<1>12. QED
  BY <1>2, <1>3, <1>4, <1>5, <1>6, <1>7, <1>9, <1>10, <1>11 DEF NextMessages

(* Whatever the interleaving of the calls, the waits, the resets, the      *)
(* deletions and the kills, each queue is a bounded first-in first-out     *)
(* buffer: no message is lost, duplicated or overtaken (file.c:24-208).    *)
THEOREM FilesFIFOCorrect == SpecMessages => FilesFIFO
<1>1. InitMessages => Abstrait!Init
  <2>1. SUFFICES ASSUME InitMessages PROVE Abstrait!Init
    OBVIOUS
  <2>2. \A f \in FID : files[f] = FileInitiale
    BY <2>1 DEF InitMessages
  <2>3. FileInitiale.statut = FALSE /\ FileInitiale.messages = << >>
    BY DEF FileInitiale
  <2>4. capaciteDe = [f \in FID |-> 0] /\ contenuDe = [f \in FID |-> << >>]
    BY <2>2, <2>3 DEF capaciteDe, contenuDe, Existe
  <2>5. QED
    BY <2>4 DEF Abstrait!Init, Abstrait!FID, FID
<1>2. IInvMessages /\ IInvMessages' /\ [NextMessages]_varsMessages
        => [Abstrait!Next]_<<capaciteDe, contenuDe>>
  BY PasTampons
<1>3. QED
  BY <1>1, <1>2, InvariantMessages, PTL DEF SpecMessages, FilesFIFO, Abstrait!Spec
=============================================================================
