--------------------------- MODULE ConsoleProofs ---------------------------
(***************************************************************************)
(* The readers of kernel/console.c above the process manager: whatever the *)
(* keys, the programs and the number of processes, each process blocked in *)
(* cons_read is listed once, and the queue lists no other living process.  *)
(***************************************************************************)
EXTENDS ConsoleProp, ProcessusProofs

(* The list s of readers against the states of the processes: whoever it   *)
(* lists alive is blocked in cons_read, whoever is blocked there is listed *)
(* alive, and once.                                                        *)
ListeJuste(s, etat) ==
  /\ \A e \in Range(s) : e.vif => etat[e.pid] = "BLOQUE_SUR_ENTREE_SORTIE"
  /\ \A p \in PID : etat[p] = "BLOQUE_SUR_ENTREE_SORTIE"
                      => \E e \in Range(s) : e.vif /\ e.pid = p
  /\ \A i, j \in 1..Len(s) : s[i].vif /\ s[i] = s[j] => i = j

(* The inductive invariant.  The whole table is needed to know what a step *)
(* of the process manager does to the state of a listed process.           *)
IInvConsole ==
  /\ IStable
  /\ lecteurs \in Seq(Entrees)
  /\ ListeJuste(lecteurs, noyau.etat)

LEMMA ListeSuffit == IInvConsole => LecteursInscrits
<1> SUFFICES ASSUME IInvConsole PROVE LecteursInscrits
  OBVIOUS
<1>1. lecteurs \in Seq(Entrees) /\ ListeJuste(lecteurs, noyau.etat)
  BY DEF IInvConsole
<1>2. DOMAIN lecteurs = 1..Len(lecteurs)
  BY <1>1, LenProperties
<1>3. \A e \in Range(lecteurs) : e.pid \in PID
  <2>1. \A i \in 1..Len(lecteurs) : lecteurs[i] \in Entrees
    BY <1>1, ElementOfSeq
  <2>2. QED
    BY <1>2, <2>1 DEF Range, Entrees
<1>4. \A e \in Range(lecteurs) : e.vif =>
        e.pid \in {p \in PID : noyau.etat[p] = "BLOQUE_SUR_ENTREE_SORTIE"}
  BY <1>1, <1>3 DEF ListeJuste
<1>5. \A p \in {q \in PID : noyau.etat[q] = "BLOQUE_SUR_ENTREE_SORTIE"} :
        \E e \in {x \in Range(lecteurs) : x.vif} : e.pid = p
  BY <1>1 DEF ListeJuste
<1>6. QED
  BY <1>1, <1>2, <1>4, <1>5 DEF LecteursInscrits, ListeJuste

LEMMA EntreeType ==
  /\ \A e \in Entrees : e.pid \in PID /\ e.vif \in BOOLEAN
  /\ \A e, f \in Entrees : e.pid = f.pid /\ e.vif = f.vif => e = f
  BY DEF Entrees

(* Unless an ended process is listed, the console adds to and takes from a *)
(* queue without duplicates, as queue.h requires.                          *)
LEMMA SansPerimee ==
  ASSUME IInvConsole, ~Perimee
  PROVE  /\ ListeJuste(lecteurs, noyau.etat) /\ SansDoublon(lecteurs)
         /\ \A e \in Range(lecteurs) : e.vif /\ e \in Entrees /\ e.pid \in PID
<1>1. lecteurs \in Seq(Entrees) /\ ListeJuste(lecteurs, noyau.etat)
  BY DEF IInvConsole
<1>2. DOMAIN lecteurs = 1..Len(lecteurs) /\ \A i \in 1..Len(lecteurs) : lecteurs[i] \in Entrees
  BY <1>1, LenProperties, ElementOfSeq
<1>3. \A e \in Range(lecteurs) : e.vif
  BY DEF Perimee
<1>4. \A e \in Range(lecteurs) : e \in Entrees
  BY <1>2 DEF Range
<1>5. \A i \in 1..Len(lecteurs) : lecteurs[i].vif
  BY <1>2, <1>3 DEF Range
<1>6. SansDoublon(lecteurs)
  BY <1>1, <1>5 DEF ListeJuste, SansDoublon
<1>7. QED
  BY <1>1, <1>3, <1>4, <1>6, EntreeType

-----------------------------------------------------------------------------
(* A line that ends wakes the last reader of the queue and takes it out.   *)
LEMMA EntreeStep ==
  ASSUME IInvConsole, Entree
  PROVE  IInvConsole'
<1>1. /\ IStable /\ Stable(noyau) /\ lecteurs \in Seq(Entrees)
      /\ ListeJuste(lecteurs, noyau.etat)
  BY DEF IInvConsole, IStable
<1>2. CASE Perimee
  <2>1. /\ noyau' = [noyau EXCEPT !.panne = TRUE]
        /\ horloge' = horloge /\ lecteurs' = lecteurs
    BY <1>2 DEF Entree, NonSuivi, console
  <2>2. Stable(noyau') /\ noyau'.etat = noyau.etat
    BY <1>1, <2>1, PanneStable
  <2>3. QED
    BY <1>1, <2>1, <2>2 DEF IInvConsole, IStable
<1>3. CASE ~Perimee /\ queue_empty(lecteurs)
  <2>1. noyau' = noyau /\ horloge' = horloge /\ lecteurs' = lecteurs
    BY <1>3 DEF Entree, Servis
  <2>2. QED
    BY <1>1, <2>1 DEF IInvConsole, IStable
<1>4. CASE ~Perimee /\ ~queue_empty(lecteurs)
  <2>1. PICK e : e = PremierLecteur
    OBVIOUS
  <2>2. /\ noyau' = Activer(noyau, e.pid) /\ horloge' = horloge
        /\ lecteurs' = queue_del(lecteurs, e)
    BY <1>4, <2>1 DEF Entree, Servis
  <2>3. /\ ListeJuste(lecteurs, noyau.etat) /\ SansDoublon(lecteurs)
        /\ \A x \in Range(lecteurs) : x.vif /\ x \in Entrees /\ x.pid \in PID
    BY <1>4, SansPerimee
  <2>4. e \in Range(lecteurs)
    BY <1>1, <1>4, <2>1, <2>3, SortieProp DEF PremierLecteur
  <2>5. /\ lecteurs' \in Seq(Entrees) /\ SansDoublon(lecteurs')
        /\ Range(lecteurs') = Range(lecteurs) \ {e}
    BY <1>1, <2>2, <2>3, <2>4, SuppressionProp
  <2>6. noyau.etat[e.pid] = "BLOQUE_SUR_ENTREE_SORTIE" /\ e.pid \in PID
    BY <2>3, <2>4 DEF ListeJuste
  <2>7. /\ Stable(noyau')
        /\ \A p \in PID : noyau'.etat[p] = IF p = e.pid THEN "ACTIVABLE" ELSE noyau.etat[p]
    <3>1. PICK p : p = e.pid
      OBVIOUS
    <3>2. noyau.etat[p] \in Suspendus \cup {"ACTIVABLE"} /\ p \in PID
      BY <2>6, <3>1 DEF Suspendus
    <3>3. /\ Stable(noyau')
          /\ noyau'.etat = [x \in PID |-> IF x = p THEN "ACTIVABLE" ELSE noyau.etat[x]]
      BY <1>1, <2>2, <3>1, <3>2, ActiverStable
    <3>4. QED
      BY <3>1, <3>3
  <2>8. \A x \in Range(lecteurs) : x # e => x.pid # e.pid
    BY <2>3, <2>4, EntreeType, Zenon
  <2>9. ListeJuste(lecteurs', noyau'.etat)
    <3>1. ASSUME NEW x \in Range(lecteurs'), x.vif
          PROVE  noyau'.etat[x.pid] = "BLOQUE_SUR_ENTREE_SORTIE"
      BY <2>3, <2>5, <2>7, <2>8, <3>1 DEF ListeJuste
    <3>2. ASSUME NEW p \in PID, noyau'.etat[p] = "BLOQUE_SUR_ENTREE_SORTIE"
          PROVE  \E x \in Range(lecteurs') : x.vif /\ x.pid = p
      <4>1. p # e.pid /\ noyau.etat[p] = "BLOQUE_SUR_ENTREE_SORTIE"
        BY <2>7, <3>2
      <4>2. PICK x \in Range(lecteurs) : x.vif /\ x.pid = p
        BY <2>3, <4>1 DEF ListeJuste
      <4>3. QED
        BY <2>5, <4>1, <4>2
    <3>3. QED
      BY <2>5, <3>1, <3>2 DEF ListeJuste, SansDoublon
  <2>10. QED
    BY <1>1, <2>2, <2>5, <2>7, <2>9 DEF IInvConsole, IStable
<1>5. QED
  BY <1>2, <1>3, <1>4

(* cons_read lists its caller, active until then, and suspends it. *)
LEMMA ConsReadStep ==
  ASSUME IInvConsole, NEW n, ConsRead(n)
  PROVE  IInvConsole'
<1>1. /\ IStable /\ Stable(noyau) /\ lecteurs \in Seq(Entrees)
      /\ ListeJuste(lecteurs, noyau.etat)
      /\ noyau.pid_actif = actif /\ actif # 0
  BY DEF IInvConsole, IStable, ConsRead, Programme, actif
<1>2. CASE Perimee
  <2>1. /\ noyau' = [noyau EXCEPT !.panne = TRUE]
        /\ horloge' = horloge /\ lecteurs' = lecteurs
    BY <1>2 DEF ConsRead, NonSuivi, console
  <2>2. Stable(noyau') /\ noyau'.etat = noyau.etat
    BY <1>1, <2>1, PanneStable
  <2>3. QED
    BY <1>1, <2>1, <2>2 DEF IInvConsole, IStable
<1>3. CASE ~Perimee
  <2>1. PICK e : e = [pid |-> actif, vif |-> TRUE]
    OBVIOUS
  <2>2. /\ noyau' = Ordonnancer(Bloquer(noyau, actif, "BLOQUE_SUR_ENTREE_SORTIE"))
        /\ horloge' = horloge /\ lecteurs' = queue_add(lecteurs, e, PrioLecteur)
    BY <1>3, <2>1 DEF ConsRead
  <2>3. /\ SansDoublon(lecteurs)
        /\ \A x \in Range(lecteurs) : x.vif /\ x \in Entrees /\ x.pid \in PID
    BY <1>3, SansPerimee
  <2>4. actif \in PID /\ noyau.etat[actif] = "ACTIF"
    BY <1>1, ActifProp
  <2>5. /\ Ordonne(noyau') /\ noyau'.etat[actif] = "BLOQUE_SUR_ENTREE_SORTIE"
        /\ \A x \in PID : x # actif /\ noyau'.etat[x] # noyau.etat[x] =>
             noyau'.etat[x] \in {"ACTIF", "ACTIVABLE"} /\ noyau.etat[x] \in {"ACTIF", "ACTIVABLE"}
    <3>1. "BLOQUE_SUR_ENTREE_SORTIE" \in SansFile
      BY DEF SansFile, Etats
    <3>2. QED
      BY <1>1, <2>2, <3>1, SuspendreProp
  <2>6. e \in Entrees /\ e.pid = actif /\ e.vif
    BY <2>1, <2>4 DEF Entrees
  <2>7. \A x \in Range(lecteurs) : x.pid # actif
    BY <1>1, <2>3, <2>4 DEF ListeJuste
  <2>8. PrioLecteur \in [Entrees -> Int]
    <3>1. noyau.prio \in [PID -> Int]
      BY <1>1 DEF Stable, Sain, TypeNoyau
    <3>2. QED
      BY <3>1, EntreeType DEF PrioLecteur
  <2>9. /\ lecteurs' \in Seq(Entrees) /\ Range(lecteurs') = Range(lecteurs) \cup {e}
        /\ SansDoublon(lecteurs')
    <3>1. e \notin Range(lecteurs)
      BY <2>6, <2>7
    <3>2. QED
      BY <1>1, <2>2, <2>3, <2>6, <2>8, <3>1, AjoutElements
  <2>10. ASSUME NEW x \in Range(lecteurs'), x.vif
         PROVE  noyau'.etat[x.pid] = "BLOQUE_SUR_ENTREE_SORTIE"
    <3>1. CASE x = e
      BY <2>5, <2>6, <3>1
    <3>2. CASE x # e
      <4>1. x \in Range(lecteurs) /\ x.pid \in PID /\ x.pid # actif
        BY <2>3, <2>7, <2>9, <2>10, <3>2
      <4>2. noyau.etat[x.pid] = "BLOQUE_SUR_ENTREE_SORTIE"
        BY <1>1, <2>10, <4>1 DEF ListeJuste
      <4>3. QED
        BY <2>5, <4>1, <4>2
    <3>3. QED
      BY <3>1, <3>2
  <2>11. ASSUME NEW p \in PID, noyau'.etat[p] = "BLOQUE_SUR_ENTREE_SORTIE"
         PROVE  \E x \in Range(lecteurs') : x.vif /\ x.pid = p
    <3>1. CASE p = actif
      BY <2>6, <2>9, <3>1
    <3>2. CASE p # actif
      <4>1. noyau.etat[p] = "BLOQUE_SUR_ENTREE_SORTIE"
        BY <2>5, <2>11, <3>2
      <4>2. QED
        BY <1>1, <2>9, <4>1 DEF ListeJuste
    <3>3. QED
      BY <3>1, <3>2
  <2>12. ListeJuste(lecteurs', noyau'.etat)
    BY <2>9, <2>10, <2>11 DEF ListeJuste, SansDoublon
  <2>13. QED
    BY <1>1, <2>2, <2>5, <2>9, <2>12 DEF IInvConsole, IStable, Ordonne
<1>4. QED
  BY <1>2, <1>3

(* A step of the process manager: whoever waits goes on waiting or ends,   *)
(* and the entry of whoever ends is no longer that of a living process.    *)
LEMMA PasConsoleStep ==
  ASSUME IInvConsole, PasProcessus
  PROVE  IInvConsole'
<1>1. lecteurs \in Seq(Entrees) /\ ListeJuste(lecteurs, noyau.etat)
  BY DEF IInvConsole
<1>2. IStable' /\ Poursuit(noyau', noyau)
  BY PasStable DEF IInvConsole, PasProcessus
<1>3. PICK n \in Nat : n = Len(lecteurs)
  BY <1>1, LenProperties
<1>4. DOMAIN lecteurs = 1..n /\ \A i \in 1..n : lecteurs[i] \in Entrees
  BY <1>1, <1>3, LenProperties, ElementOfSeq
<1>5. lecteurs' = [i \in 1..n |->
        [lecteurs[i] EXCEPT !.vif = lecteurs[i].vif /\ ~Termine(lecteurs[i].pid)]]
  BY <1>4, Zenon DEF PasProcessus
<1>6. ASSUME NEW i \in 1..n
      PROVE  /\ lecteurs'[i] \in Entrees /\ lecteurs'[i].pid = lecteurs[i].pid
             /\ lecteurs'[i].vif = (lecteurs[i].vif /\ ~Termine(lecteurs[i].pid))
             /\ lecteurs[i].vif /\ ~Termine(lecteurs[i].pid) => lecteurs'[i] = lecteurs[i]
  <2>1. PICK e \in Entrees : e = lecteurs[i]
    BY <1>4
  <2>2. PICK b \in BOOLEAN : b = (e.vif /\ ~Termine(e.pid))
    OBVIOUS
  <2>3. lecteurs'[i] = [e EXCEPT !.vif = b]
    BY <1>5, <2>1, <2>2, Zenon
  <2>4. lecteurs'[i] \in Entrees /\ lecteurs'[i].pid = e.pid /\ lecteurs'[i].vif = b
    BY <2>3 DEF Entrees
  <2>5. ASSUME e.vif, ~Termine(e.pid)
        PROVE  lecteurs'[i] = e
    <3>1. b = TRUE /\ e.vif = TRUE
      BY <2>2, <2>5, EntreeType, Zenon
    <3>2. QED
      BY <2>3, <3>1 DEF Entrees
  <2>6. QED
    BY <2>1, <2>2, <2>4, <2>5, Zenon
<1>7. lecteurs' \in Seq(Entrees) /\ Len(lecteurs') = n /\ DOMAIN lecteurs' = 1..n
  <2>1. lecteurs' = [i \in 1..n |-> lecteurs'[i]]
    BY <1>5, Zenon
  <2>2. QED
    BY <1>3, <1>6, <2>1, IsASeq
<1>8. \A p \in PID : Termine(p) <=> noyau'.etat[p] \in Finis
  BY DEF Termine, Finis
<1>9. ASSUME NEW x \in Range(lecteurs'), x.vif
      PROVE  noyau'.etat[x.pid] = "BLOQUE_SUR_ENTREE_SORTIE"
  <2>1. PICK i \in 1..n : x = lecteurs'[i]
    BY <1>7, <1>9 DEF Range
  <2>2. lecteurs[i].vif /\ ~Termine(lecteurs[i].pid) /\ x = lecteurs[i]
    BY <1>6, <1>9, <2>1, Zenon
  <2>3. lecteurs[i] \in Range(lecteurs) /\ lecteurs[i].pid \in PID
    BY <1>4, EntreeType DEF Range
  <2>4. noyau.etat[x.pid] = "BLOQUE_SUR_ENTREE_SORTIE"
    BY <1>1, <2>2, <2>3 DEF ListeJuste
  <2>5. QED
    BY <1>2, <1>8, <2>2, <2>3, <2>4 DEF Poursuit, Suspendus
<1>10. ASSUME NEW p \in PID, noyau'.etat[p] = "BLOQUE_SUR_ENTREE_SORTIE"
       PROVE  \E x \in Range(lecteurs') : x.vif /\ x.pid = p
  <2>1. noyau.etat[p] = "BLOQUE_SUR_ENTREE_SORTIE" /\ ~Termine(p)
    BY <1>2, <1>8, <1>10 DEF Poursuit, Suspendus, Finis
  <2>2. PICK x \in Range(lecteurs) : x.vif /\ x.pid = p
    BY <1>1, <2>1 DEF ListeJuste
  <2>3. PICK i \in 1..n : x = lecteurs[i]
    BY <1>4 DEF Range
  <2>4. lecteurs'[i] = x
    BY <1>6, <2>1, <2>2, <2>3, Zenon
  <2>5. QED
    BY <1>7, <2>2, <2>4 DEF Range
<1>11. ASSUME NEW i \in 1..n, NEW j \in 1..n, lecteurs'[i].vif, lecteurs'[i] = lecteurs'[j]
       PROVE  i = j
  <2>1. lecteurs[i].vif /\ lecteurs'[i] = lecteurs[i] /\ lecteurs'[j] = lecteurs[j]
    BY <1>6, <1>11, Zenon
  <2>2. QED
    BY <1>1, <1>3, <1>11, <2>1 DEF ListeJuste
<1>12. ListeJuste(lecteurs', noyau'.etat)
  BY <1>7, <1>9, <1>10, <1>11 DEF ListeJuste
<1>13. QED
  BY <1>2, <1>7, <1>12 DEF IInvConsole

-----------------------------------------------------------------------------
LEMMA InitConsoleIInv == InitConsole => IInvConsole
<1> SUFFICES ASSUME InitConsole PROVE IInvConsole
  OBVIOUS
<1>1. IStable
  BY InitIInv DEF InitConsole, IInv, IStable, Ordonne
<1>2. lecteurs = << >> /\ lecteurs \in Seq(Entrees) /\ Len(lecteurs) = 0
  BY DEF InitConsole
<1>3. DOMAIN lecteurs = {}
  BY <1>2
<1>4. \A p \in PID : noyau.etat[p] # "BLOQUE_SUR_ENTREE_SORTIE"
  BY InitPersonne DEF InitConsole, Suspendus
<1>5. ListeJuste(lecteurs, noyau.etat)
  BY <1>2, <1>3, <1>4 DEF ListeJuste, Range
<1>6. QED
  BY <1>1, <1>2, <1>5 DEF IInvConsole

LEMMA NextConsoleIInv == IInvConsole /\ [NextConsole]_varsConsole => IInvConsole'
<1> SUFFICES ASSUME IInvConsole, [NextConsole]_varsConsole PROVE IInvConsole'
  OBVIOUS
<1>1. ASSUME UNCHANGED <<noyau, horloge, lecteurs>>
      PROVE  IInvConsole'
  BY <1>1 DEF IInvConsole, IStable
<1>2. CASE PasProcessus
  BY <1>2, PasConsoleStep
<1>3. ASSUME NEW c \in CARACTERES, Frapper(c)
      PROVE  IInvConsole'
  BY <1>1, <1>3 DEF Frapper
<1>4. CASE Effacer
  BY <1>1, <1>4 DEF Effacer
<1>5. CASE Entree
  BY <1>5, EntreeStep
<1>6. ASSUME NEW n \in LONGUEURS, ConsRead(n)
      PROVE  IInvConsole'
  BY <1>6, ConsReadStep
<1>7. CASE ConsReadReprise
  BY <1>1, <1>7 DEF ConsReadReprise
<1>8. CASE UNCHANGED varsConsole
  BY <1>1, <1>8 DEF varsConsole, console
<1>9. QED
  BY <1>2, <1>3, <1>4, <1>5, <1>6, <1>7, <1>8 DEF NextConsole

LEMMA InvariantConsole == SpecConsole => []IInvConsole
<1>1. QED
  BY InitConsoleIInv, NextConsoleIInv, PTL DEF SpecConsole

(* No reader is forgotten, none is woken twice: the queue of readers holds *)
(* each process blocked in cons_read once, and no other living process.    *)
THEOREM LecteursInscritsCorrect == SpecConsole => []LecteursInscrits
<1>1. QED
  BY InvariantConsole, ListeSuffit, PTL
=============================================================================
