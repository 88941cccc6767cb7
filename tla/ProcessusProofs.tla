-------------------------- MODULE ProcessusProofs --------------------------
(***************************************************************************)
(* The process table stays sound, the processor stays with a process of    *)
(* the highest priority and waitpid loses no wake-up, for any number of    *)
(* slots, any priorities, any modulus of the clock.  Liveness stays with   *)
(* TLC.                                                                    *)
(*                                                                         *)
(* The parts: every function of module Noyau keeps the table sound, that   *)
(* is well typed, with queues that agree with the states and are sorted,   *)
(* and one forest of processes; then the steps of Processus; what is known *)
(* of each process's wait; who is alive.                                   *)
(***************************************************************************)
EXTENDS ProcessusProp, FilePrioProofs

Sain(k) ==
  /\ k \in TypeNoyau
  /\ FilesCoherentes(k)
  /\ FiliationCoherente(k)
  /\ Triee(k.activables, k.prio)

(* The states that keep a process out of the two queues of Noyau. *)
HorsFile == Etats \ {"ACTIVABLE", "BLOQUE_SUR_SEMAPHORE"}

-----------------------------------------------------------------------------
(* q is k with p taken out of whichever queue it is in, and only that. *)
EstQuitte(q, k, p) ==
  /\ q \in TypeNoyau
  /\ q = [k EXCEPT !.activables = q.activables, !.endormis = q.endormis,
                   !.reveil = [k.reveil EXCEPT ![p] = 0]]
  /\ SansDoublon(q.activables) /\ SansDoublon(q.endormis)
  /\ Range(q.activables) = {x \in PID : k.etat[x] = "ACTIVABLE"} \ {p}
  /\ Range(q.endormis) = {x \in PID : k.etat[x] = "BLOQUE_SUR_SEMAPHORE"} \ {p}
  /\ Triee(q.activables, k.prio)

LEMMA QuitterProp ==
  ASSUME NEW k, Sain(k), NEW p \in PID
  PROVE  EstQuitte(Quitter(k, p), k, p)
<1>1. PICK a : a = IF k.etat[p] = "ACTIVABLE" THEN queue_del(k.activables, p) ELSE k.activables
  OBVIOUS
<1>2. PICK e : e = IF k.etat[p] = "BLOQUE_SUR_SEMAPHORE" THEN queue_del(k.endormis, p) ELSE k.endormis
  OBVIOUS
<1>3. k \in TypeNoyau
  BY DEF Sain
<1>4. k.activables \in Seq(PID) /\ k.endormis \in Seq(PID) /\ k.reveil \in [PID -> Nat]
  BY <1>3 DEF TypeNoyau
<1>5. /\ SansDoublon(k.activables) /\ SansDoublon(k.endormis)
      /\ Range(k.activables) = {x \in PID : k.etat[x] = "ACTIVABLE"}
      /\ Range(k.endormis) = {x \in PID : k.etat[x] = "BLOQUE_SUR_SEMAPHORE"}
      /\ Triee(k.activables, k.prio)
  BY DEF Sain, FilesCoherentes
<1>6. /\ a \in Seq(PID) /\ SansDoublon(a) /\ Triee(a, k.prio)
      /\ Range(a) = {x \in PID : k.etat[x] = "ACTIVABLE"} \ {p}
  <2>1. CASE k.etat[p] = "ACTIVABLE"
    <3>1. p \in Range(k.activables) /\ a = queue_del(k.activables, p)
      BY <1>1, <1>5, <2>1
    <3>2. /\ a \in Seq(PID) /\ SansDoublon(a) /\ Triee(a, k.prio)
          /\ Range(a) = Range(k.activables) \ {p}
      BY <1>4, <1>5, <3>1, SuppressionProp, Zenon
    <3>3. QED
      BY <3>2, <1>5
  <2>2. CASE k.etat[p] # "ACTIVABLE"
    BY <1>1, <1>4, <1>5, <2>2
  <2>3. QED
    BY <2>1, <2>2
<1>7. /\ e \in Seq(PID) /\ SansDoublon(e)
      /\ Range(e) = {x \in PID : k.etat[x] = "BLOQUE_SUR_SEMAPHORE"} \ {p}
  <2>1. CASE k.etat[p] = "BLOQUE_SUR_SEMAPHORE"
    <3>1. p \in Range(k.endormis) /\ e = queue_del(k.endormis, p)
      BY <1>2, <1>5, <2>1
    <3>2. /\ e \in Seq(PID) /\ SansDoublon(e)
          /\ Range(e) = Range(k.endormis) \ {p}
      BY <1>4, <1>5, <3>1, SuppressionProp, Zenon
    <3>3. QED
      BY <3>2, <1>5
  <2>2. CASE k.etat[p] # "BLOQUE_SUR_SEMAPHORE"
    BY <1>2, <1>4, <1>5, <2>2
  <2>3. QED
    BY <2>1, <2>2
<1>8. Quitter(k, p) = [k EXCEPT !.activables = a, !.endormis = e,
                                !.reveil = [k.reveil EXCEPT ![p] = 0]]
  BY <1>1, <1>2 DEF Quitter
<1>9. Quitter(k, p) \in TypeNoyau /\ Quitter(k, p).activables = a /\ Quitter(k, p).endormis = e
  <2>1. PICK r : r = [k.reveil EXCEPT ![p] = 0]
    OBVIOUS
  <2>2. r \in [PID -> Nat]
    BY <1>4, <2>1
  <2>3. [k EXCEPT !.activables = a, !.endormis = e, !.reveil = r] \in TypeNoyau
    BY <1>3, <1>6, <1>7, <2>2 DEF TypeNoyau
  <2>4. /\ [k EXCEPT !.activables = a, !.endormis = e, !.reveil = r].activables = a
        /\ [k EXCEPT !.activables = a, !.endormis = e, !.reveil = r].endormis = e
    BY <1>3 DEF TypeNoyau
  <2>5. QED
    BY <1>8, <2>1, <2>3, <2>4, Zenon
<1>10. QED
  BY <1>6, <1>7, <1>8, <1>9, Zenon DEF EstQuitte

(* r is k with p in state e and possibly other queues and another active   *)
(* process: what activating, blocking, putting to sleep or electing does.  *)
EstDeplace(r, k, p, e) ==
  /\ r \in TypeNoyau
  /\ r.etat = [k.etat EXCEPT ![p] = e]
  /\ r.prio = k.prio /\ r.pere = k.pere /\ r.fils = k.fils
  /\ r.attend_fils = k.attend_fils /\ r.suite = k.suite /\ r.panne = k.panne

(* A step that moves one existing process keeps the forest, hence the      *)
(* table sound if the queues are.                                          *)
LEMMA DeplaceSain ==
  ASSUME NEW k, Sain(k), NEW p \in PID, k.etat[p] # "MORT",
         NEW e \in Etats \ {"MORT"}, e = "ZOMBIE" => k.pere[p] # AUCUN,
         NEW r, EstDeplace(r, k, p, e),
         FilesCoherentes(r), Triee(r.activables, k.prio)
  PROVE  Sain(r)
<1>1. /\ k.etat \in [PID -> Etats] /\ k.pere \in [PID -> PID \cup {AUCUN}]
      /\ ListesEtPeres(k) /\ SansCycle(k)
  BY DEF Sain, TypeNoyau, FiliationCoherente
<1>2. /\ r \in TypeNoyau /\ r.etat = [k.etat EXCEPT ![p] = e]
      /\ r.prio = k.prio /\ r.pere = k.pere /\ r.fils = k.fils
  BY DEF EstDeplace
<1>3. /\ \A x \in PID : r.etat[x] = "MORT" <=> k.etat[x] = "MORT"
      /\ \A x \in PID : r.etat[x] = "ZOMBIE" => k.pere[x] # AUCUN
  <2>1. r.etat[p] = e /\ \A x \in PID : x # p => r.etat[x] = k.etat[x]
    BY <1>1, <1>2
  <2>2. \A x \in PID : k.etat[x] = "ZOMBIE" => k.pere[x] # AUCUN
    BY <1>1 DEF ListesEtPeres
  <2>3. QED
    BY <2>1, <2>2
<1>4. ASSUME NEW x \in PID
      PROVE  /\ SansDoublon(r.fils[x])
             /\ Range(r.fils[x]) = IF r.etat[x] = "MORT" THEN {}
                                   ELSE {c \in PID : r.etat[c] # "MORT" /\ r.pere[c] = x}
  BY <1>1, <1>2, <1>3 DEF ListesEtPeres
<1>5. ASSUME NEW x \in PID, r.etat[x] # "MORT", r.pere[x] # AUCUN
      PROVE  r.etat[r.pere[x]] # "MORT"
  <2>1. k.pere[x] \in PID
    BY <1>1, <1>2, <1>5
  <2>2. k.etat[k.pere[x]] # "MORT"
    BY <1>1, <1>2, <1>3, <1>5, <2>1 DEF ListesEtPeres
  <2>3. QED
    BY <1>2, <1>3, <2>1, <2>2
<1>6. ListesEtPeres(r)
  BY <1>2, <1>3, <1>4, <1>5 DEF ListesEtPeres
<1>7. SansCycle(r)
  <2>1. {x \in PID : r.etat[x] # "MORT"} = {x \in PID : k.etat[x] # "MORT"}
    BY <1>3
  <2>2. QED
    BY <1>1, <1>2, <2>1, Zenon DEF SansCycle
<1>8. QED
  BY <1>2, <1>6, <1>7 DEF Sain, FiliationCoherente

-----------------------------------------------------------------------------
(* Activer: p becomes runnable; the processor does not change hands.       *)
LEMMA ActiverProp ==
  ASSUME NEW k, Sain(k), NEW p \in PID, k.etat[p] \notin {"MORT", "ZOMBIE"}
  PROVE  /\ Sain(Activer(k, p))
         /\ EstDeplace(Activer(k, p), k, p, "ACTIVABLE")
         /\ Activer(k, p).pid_actif = k.pid_actif
<1>1. k \in TypeNoyau
  BY DEF Sain
<1>2. CASE k.etat[p] = "ACTIVABLE"
  <2>1. Activer(k, p) = k
    BY <1>2 DEF Activer
  <2>2. k.etat = [k.etat EXCEPT ![p] = "ACTIVABLE"]
    BY <1>1, <1>2 DEF TypeNoyau
  <2>3. EstDeplace(k, k, p, "ACTIVABLE")
    BY <1>1, <2>2 DEF EstDeplace
  <2>4. QED
    BY <2>1, <2>3
<1>3. CASE k.etat[p] # "ACTIVABLE"
  <2>1. PICK q : q = Quitter(k, p)
    OBVIOUS
  <2>2. EstQuitte(q, k, p)
    BY <2>1, QuitterProp
  <2>3. /\ q \in TypeNoyau
        /\ q = [k EXCEPT !.activables = q.activables, !.endormis = q.endormis,
                         !.reveil = [k.reveil EXCEPT ![p] = 0]]
        /\ SansDoublon(q.activables) /\ SansDoublon(q.endormis)
        /\ Range(q.activables) = {x \in PID : k.etat[x] = "ACTIVABLE"} \ {p}
        /\ Range(q.endormis) = {x \in PID : k.etat[x] = "BLOQUE_SUR_SEMAPHORE"} \ {p}
        /\ Triee(q.activables, k.prio)
    BY <2>2 DEF EstQuitte
  <2>4. PICK a : a = queue_add(q.activables, p, k.prio)
    OBVIOUS
  <2>5. PICK t : t = [k.etat EXCEPT ![p] = "ACTIVABLE"]
    OBVIOUS
  <2>6. /\ t \in [PID -> Etats]
        /\ t[p] = "ACTIVABLE" /\ \A x \in PID : x # p => t[x] = k.etat[x]
    BY <1>1, <2>5 DEF TypeNoyau, Etats
  <2>7. /\ a \in Seq(PID) /\ SansDoublon(a) /\ Triee(a, k.prio)
        /\ Range(a) = Range(q.activables) \cup {p}
    <3>1. q.activables \in Seq(PID) /\ k.prio \in [PID -> Int]
      BY <1>1, <2>3 DEF TypeNoyau
    <3>2. p \notin Range(q.activables)
      BY <2>3
    <3>3. /\ queue_add(q.activables, p, k.prio) \in Seq(PID)
          /\ Range(queue_add(q.activables, p, k.prio)) = Range(q.activables) \cup {p}
          /\ SansDoublon(queue_add(q.activables, p, k.prio))
      BY <3>1, <3>2, <2>3, AjoutElements
    <3>4. Triee(queue_add(q.activables, p, k.prio), k.prio)
      BY <3>1, <2>3, AjoutTriee
    <3>5. QED
      BY <2>4, <3>3, <3>4
  <2>8. PICK r : r = [q EXCEPT !.activables = a, !.etat = t]
    OBVIOUS
  <2>9. q.etat = k.etat /\ q.prio = k.prio
    BY <1>1, <2>3 DEF TypeNoyau
  <2>10. Activer(k, p) = r
    BY <1>3, <2>1, <2>4, <2>5, <2>8, <2>9 DEF Activer
  <2>11. /\ r \in TypeNoyau /\ r.activables = a /\ r.etat = t
         /\ r.endormis = q.endormis /\ r.prio = k.prio
         /\ r.fils = k.fils /\ r.pere = k.pere /\ r.pid_actif = k.pid_actif
         /\ r.attend_fils = k.attend_fils /\ r.suite = k.suite /\ r.panne = k.panne
    BY <1>1, <2>3, <2>6, <2>7, <2>8 DEF TypeNoyau
  <2>12. EstDeplace(r, k, p, "ACTIVABLE")
    BY <2>5, <2>11 DEF EstDeplace
  <2>13. FilesCoherentes(r)
    <3>1. Range(r.activables) = {x \in PID : r.etat[x] = "ACTIVABLE"}
      BY <2>3, <2>6, <2>7, <2>11
    <3>2. Range(r.endormis) = {x \in PID : r.etat[x] = "BLOQUE_SUR_SEMAPHORE"}
      BY <2>3, <2>6, <2>11
    <3>3. QED
      BY <3>1, <3>2, <2>3, <2>7, <2>11 DEF FilesCoherentes
  <2>14. Sain(r)
    BY <2>7, <2>11, <2>12, <2>13, DeplaceSain DEF Etats
  <2>15. QED
    BY <2>10, <2>11, <2>12, <2>14
<1>4. QED
  BY <1>2, <1>3

(* The states without a queue in module Noyau. *)
SansFile == Etats \ {"ACTIVABLE", "BLOQUE_SUR_SEMAPHORE", "MORT"}

(* Bloquer: p leaves the run queue or the sleepers for a state without a   *)
(* queue.                                                                  *)
LEMMA BloquerProp ==
  ASSUME NEW k, Sain(k), NEW p \in PID, k.etat[p] # "MORT",
         NEW e \in SansFile, e = "ZOMBIE" => k.pere[p] # AUCUN
  PROVE  /\ Sain(Bloquer(k, p, e))
         /\ EstDeplace(Bloquer(k, p, e), k, p, e)
         /\ Bloquer(k, p, e).pid_actif = k.pid_actif
<1>1. k \in TypeNoyau
  BY DEF Sain
<1>2. PICK q : q = Quitter(k, p)
  OBVIOUS
<1>3. EstQuitte(q, k, p)
  BY <1>2, QuitterProp
<1>4. /\ q \in TypeNoyau
      /\ q = [k EXCEPT !.activables = q.activables, !.endormis = q.endormis,
                       !.reveil = [k.reveil EXCEPT ![p] = 0]]
      /\ SansDoublon(q.activables) /\ SansDoublon(q.endormis)
      /\ Range(q.activables) = {x \in PID : k.etat[x] = "ACTIVABLE"} \ {p}
      /\ Range(q.endormis) = {x \in PID : k.etat[x] = "BLOQUE_SUR_SEMAPHORE"} \ {p}
      /\ Triee(q.activables, k.prio)
  BY <1>3 DEF EstQuitte
<1>5. PICK t : t = [k.etat EXCEPT ![p] = e]
  OBVIOUS
<1>6. /\ t \in [PID -> Etats]
      /\ t[p] = e /\ \A x \in PID : x # p => t[x] = k.etat[x]
  BY <1>1, <1>5 DEF TypeNoyau, SansFile
<1>7. PICK r : r = [q EXCEPT !.etat = t]
  OBVIOUS
<1>8. q.etat = k.etat
  BY <1>1, <1>4 DEF TypeNoyau
<1>9. Bloquer(k, p, e) = r
  BY <1>2, <1>5, <1>7, <1>8 DEF Bloquer
<1>10. /\ r \in TypeNoyau /\ r.activables = q.activables /\ r.etat = t
       /\ r.endormis = q.endormis /\ r.prio = k.prio
       /\ r.fils = k.fils /\ r.pere = k.pere /\ r.pid_actif = k.pid_actif
       /\ r.attend_fils = k.attend_fils /\ r.suite = k.suite /\ r.panne = k.panne
  BY <1>1, <1>4, <1>6, <1>7 DEF TypeNoyau
<1>11. EstDeplace(r, k, p, e)
  BY <1>5, <1>10 DEF EstDeplace
<1>12. FilesCoherentes(r)
  <2>1. Range(r.activables) = {x \in PID : r.etat[x] = "ACTIVABLE"}
    BY <1>4, <1>6, <1>10 DEF SansFile
  <2>2. Range(r.endormis) = {x \in PID : r.etat[x] = "BLOQUE_SUR_SEMAPHORE"}
    BY <1>4, <1>6, <1>10 DEF SansFile
  <2>3. QED
    BY <2>1, <2>2, <1>4, <1>10 DEF FilesCoherentes
<1>13. Sain(r)
  BY <1>4, <1>10, <1>11, <1>12, DeplaceSain DEF SansFile
<1>14. QED
  BY <1>9, <1>10, <1>11, <1>13

(* Endormir: the active process joins the sleepers.                        *)
LEMMA EndormirProp ==
  ASSUME NEW k, Sain(k), NEW p \in PID, k.etat[p] = "ACTIF", NEW t \in Nat
  PROVE  /\ Sain(Endormir(k, p, t))
         /\ EstDeplace(Endormir(k, p, t), k, p, "BLOQUE_SUR_SEMAPHORE")
         /\ Endormir(k, p, t).pid_actif = k.pid_actif
<1>1. k \in TypeNoyau /\ FilesCoherentes(k) /\ Triee(k.activables, k.prio)
  BY DEF Sain
<1>2. PICK s : s = [k.etat EXCEPT ![p] = "BLOQUE_SUR_SEMAPHORE"]
  OBVIOUS
<1>3. /\ s \in [PID -> Etats]
      /\ s[p] = "BLOQUE_SUR_SEMAPHORE" /\ \A x \in PID : x # p => s[x] = k.etat[x]
  BY <1>1, <1>2 DEF TypeNoyau, Etats
<1>4. PICK a : a = queue_add(k.endormis, p, k.prio)
  OBVIOUS
<1>5. /\ a \in Seq(PID) /\ SansDoublon(a)
      /\ Range(a) = Range(k.endormis) \cup {p}
  <2>1. k.endormis \in Seq(PID) /\ k.prio \in [PID -> Int]
    BY <1>1 DEF TypeNoyau
  <2>2. p \notin Range(k.endormis) /\ SansDoublon(k.endormis)
    BY <1>1 DEF FilesCoherentes
  <2>3. QED
    BY <1>4, <2>1, <2>2, AjoutElements
<1>6. PICK v : v = [k.reveil EXCEPT ![p] = t]
  OBVIOUS
<1>7. v \in [PID -> Nat]
  BY <1>1, <1>6 DEF TypeNoyau
<1>8. PICK r : r = [k EXCEPT !.reveil = v, !.endormis = a, !.etat = s]
  OBVIOUS
<1>9. Endormir(k, p, t) = r
  BY <1>2, <1>4, <1>6, <1>8 DEF Endormir
<1>10. /\ r \in TypeNoyau /\ r.activables = k.activables /\ r.etat = s
       /\ r.endormis = a /\ r.prio = k.prio
       /\ r.fils = k.fils /\ r.pere = k.pere /\ r.pid_actif = k.pid_actif
       /\ r.attend_fils = k.attend_fils /\ r.suite = k.suite /\ r.panne = k.panne
  BY <1>1, <1>3, <1>5, <1>7, <1>8 DEF TypeNoyau
<1>11. EstDeplace(r, k, p, "BLOQUE_SUR_SEMAPHORE")
  BY <1>2, <1>10 DEF EstDeplace
<1>12. FilesCoherentes(r)
  <2>1. Range(r.activables) = {x \in PID : r.etat[x] = "ACTIVABLE"}
    BY <1>1, <1>3, <1>10 DEF FilesCoherentes
  <2>2. Range(r.endormis) = {x \in PID : r.etat[x] = "BLOQUE_SUR_SEMAPHORE"}
    BY <1>1, <1>3, <1>5, <1>10 DEF FilesCoherentes
  <2>3. QED
    BY <2>1, <2>2, <1>1, <1>5, <1>10 DEF FilesCoherentes
<1>13. Sain(r)
  BY <1>1, <1>10, <1>11, <1>12, DeplaceSain DEF Etats
<1>14. QED
  BY <1>9, <1>10, <1>11, <1>13

-----------------------------------------------------------------------------
(* Elire: the top of the run queue becomes ACTIF and pid_actif names it.   *)
LEMMA ElireProp ==
  ASSUME NEW k, Sain(k), ~queue_empty(k.activables),
         NEW pr, pr = queue_top(k.activables)
  PROVE  /\ Sain(Elire(k))
         /\ pr \in Range(k.activables)
         /\ EstDeplace(Elire(k), k, pr, "ACTIF")
         /\ Elire(k).pid_actif = pr
<1>1. k \in TypeNoyau /\ FilesCoherentes(k) /\ Triee(k.activables, k.prio)
  BY DEF Sain
<1>2. PICK a : a = queue_out(k.activables)
  OBVIOUS
<1>3. /\ pr \in Range(k.activables)
      /\ a \in Seq(PID) /\ SansDoublon(a) /\ Triee(a, k.prio)
      /\ Range(a) = Range(k.activables) \ {pr}
  <2>1. k.activables \in Seq(PID) /\ SansDoublon(k.activables)
    BY <1>1 DEF TypeNoyau, FilesCoherentes
  <2>2. QED
    BY <1>1, <1>2, <2>1, SortieProp
<1>4. pr \in PID /\ k.etat[pr] = "ACTIVABLE"
  BY <1>1, <1>3 DEF FilesCoherentes
<1>5. PICK s : s = [k.etat EXCEPT ![pr] = "ACTIF"]
  OBVIOUS
<1>6. /\ s \in [PID -> Etats]
      /\ s[pr] = "ACTIF" /\ \A x \in PID : x # pr => s[x] = k.etat[x]
  BY <1>1, <1>4, <1>5 DEF TypeNoyau, Etats
<1>7. PICK r : r = [k EXCEPT !.activables = a, !.etat = s, !.pid_actif = pr]
  OBVIOUS
<1>8. Elire(k) = r
  BY <1>2, <1>5, <1>7 DEF Elire
<1>9. /\ r \in TypeNoyau /\ r.activables = a /\ r.etat = s
      /\ r.endormis = k.endormis /\ r.prio = k.prio
      /\ r.fils = k.fils /\ r.pere = k.pere /\ r.pid_actif = pr
      /\ r.attend_fils = k.attend_fils /\ r.suite = k.suite /\ r.panne = k.panne
  BY <1>1, <1>3, <1>4, <1>6, <1>7 DEF TypeNoyau
<1>10. EstDeplace(r, k, pr, "ACTIF")
  BY <1>5, <1>9 DEF EstDeplace
<1>11. FilesCoherentes(r)
  <2>1. Range(r.activables) = {x \in PID : r.etat[x] = "ACTIVABLE"}
    BY <1>1, <1>3, <1>6, <1>9 DEF FilesCoherentes
  <2>2. Range(r.endormis) = {x \in PID : r.etat[x] = "BLOQUE_SUR_SEMAPHORE"}
    BY <1>1, <1>4, <1>6, <1>9 DEF FilesCoherentes
  <2>3. QED
    BY <2>1, <2>2, <1>1, <1>3, <1>9 DEF FilesCoherentes
<1>12. Sain(r)
  BY <1>3, <1>4, <1>9, <1>10, <1>11, DeplaceSain DEF Etats
<1>13. QED
  BY <1>3, <1>8, <1>9, <1>10, <1>12

(* Before ordonnancer: at most the active process is ACTIF. *)
AuPlusUnActif(k) == {p \in PID : k.etat[p] = "ACTIF"} \subseteq {k.pid_actif}

(* Between two calls: the table is sound and exactly one process is ACTIF. *)
Stable(k) == Sain(k) /\ OisifDisponible(k) /\ UnSeulActif(k)

(* After ordonnancer: moreover the processor is given to a process of the  *)
(* highest priority.                                                       *)
Ordonne(k) == Stable(k) /\ Prioritaire(k)

(* What only ordonnancer's callers change. *)
MemesFils(r, k) ==
  /\ r.prio = k.prio /\ r.pere = k.pere /\ r.fils = k.fils
  /\ r.attend_fils = k.attend_fils /\ r.suite = k.suite /\ r.panne = k.panne
  /\ \A x \in PID : r.etat[x] # k.etat[x] => /\ r.etat[x] \in {"ACTIF", "ACTIVABLE"}
                                             /\ k.etat[x] \in {"ACTIF", "ACTIVABLE"}

LEMMA OrdonnancerProp ==
  ASSUME NEW k, Sain(k), OisifDisponible(k), AuPlusUnActif(k)
  PROVE  Ordonne(Ordonnancer(k)) /\ MemesFils(Ordonnancer(k), k)
<1>1. k \in TypeNoyau /\ FilesCoherentes(k) /\ Triee(k.activables, k.prio)
  BY DEF Sain
<1>2. /\ k.etat \in [PID -> Etats] /\ k.prio \in [PID -> Int]
      /\ k.activables \in Seq(PID) /\ 0 \in PID
      /\ k.pid_actif \in PID \cup {AUCUN}
      /\ Range(k.activables) = {x \in PID : k.etat[x] = "ACTIVABLE"}
  <2>1. 0 \in PID
    BY NbprocAssumption DEF PID
  <2>2. /\ k.etat \in [PID -> Etats] /\ k.prio \in [PID -> Int]
        /\ k.activables \in Seq(PID) /\ k.pid_actif \in PID \cup {AUCUN}
    BY <1>1 DEF TypeNoyau
  <2>3. Range(k.activables) = {x \in PID : k.etat[x] = "ACTIVABLE"}
    BY <1>1 DEF FilesCoherentes
  <2>4. QED
    BY <2>1, <2>2, <2>3
<1>3. CASE queue_empty(k.activables)
  <2>1. Ordonnancer(k) = k
    BY <1>3 DEF Ordonnancer
  <2>2. Range(k.activables) = {}
    BY <1>3 DEF queue_empty, Range
  <2>3. k.etat[0] = "ACTIF"
    BY <1>2, <2>2 DEF OisifDisponible
  <2>4. UnSeulActif(k) /\ Prioritaire(k)
    BY <1>2, <2>2, <2>3 DEF AuPlusUnActif, UnSeulActif, Prioritaire
  <2>5. QED
    BY <2>1, <2>4 DEF Ordonne, Stable, MemesFils
<1>4. CASE ~queue_empty(k.activables)
  <2>1. PICK pr : pr = queue_top(k.activables)
    OBVIOUS
  <2>2. PICK m : m = Elire(k)
    OBVIOUS
  <2>3. /\ Sain(m) /\ pr \in Range(k.activables)
        /\ EstDeplace(m, k, pr, "ACTIF") /\ m.pid_actif = pr
    BY <1>4, <2>1, <2>2, ElireProp
  <2>4. \A x \in Range(k.activables) : k.prio[x] <= k.prio[pr]
    BY <1>1, <1>2, <2>1, SommetMax
  <2>5. /\ pr \in PID /\ k.etat[pr] = "ACTIVABLE"
        /\ m.etat[pr] = "ACTIF" /\ \A x \in PID : x # pr => m.etat[x] = k.etat[x]
        /\ m.prio = k.prio /\ m.pere = k.pere /\ m.fils = k.fils
        /\ m.attend_fils = k.attend_fils /\ m.suite = k.suite /\ m.panne = k.panne
    BY <1>2, <2>3 DEF EstDeplace
  <2>6. OisifDisponible(m)
    BY <1>2, <2>5 DEF OisifDisponible
  <2>7. Range(m.activables) \subseteq Range(k.activables)
    <3>1. Range(m.activables) = {x \in PID : m.etat[x] = "ACTIVABLE"}
      BY <2>3 DEF Sain, FilesCoherentes
    <3>2. QED
      BY <1>2, <2>5, <3>1
  <2>8. Prioritaire(m)
    BY <2>3, <2>4, <2>5, <2>7 DEF Prioritaire
  <2>9. CASE ~Tourne(k)
    <3>1. Ordonnancer(k) = m
      BY <1>4, <2>2, <2>9 DEF Ordonnancer
    <3>2. {x \in PID : k.etat[x] = "ACTIF"} = {}
      BY <1>2, <2>9 DEF Tourne, AuPlusUnActif, AUCUN, PID
    <3>3. UnSeulActif(m)
      BY <2>3, <2>5, <3>2 DEF UnSeulActif
    <3>4. MemesFils(m, k)
      BY <2>5 DEF MemesFils
    <3>5. QED
      BY <2>3, <2>6, <2>8, <3>1, <3>3, <3>4 DEF Ordonne, Stable
  <2>10. CASE Tourne(k) /\ k.prio[pr] < k.prio[k.pid_actif]
    <3>1. Ordonnancer(k) = k
      BY <1>4, <2>1, <2>10 DEF Ordonnancer
    <3>2. k.pid_actif \in PID /\ k.etat[k.pid_actif] = "ACTIF"
      BY <1>2, <2>10 DEF Tourne
    <3>3. UnSeulActif(k)
      BY <3>2 DEF UnSeulActif, AuPlusUnActif
    <3>4. Prioritaire(k)
      <4>1. \A x \in Range(k.activables) : k.prio[x] \in Int
        BY <1>2
      <4>2. QED
        BY <1>2, <2>4, <2>5, <2>10, <3>2, <4>1 DEF Prioritaire
    <3>5. QED
      BY <3>1, <3>3, <3>4 DEF Ordonne, Stable, MemesFils
  <2>11. CASE Tourne(k) /\ ~(k.prio[pr] < k.prio[k.pid_actif])
    <3>1. PICK a : a = k.pid_actif
      OBVIOUS
    <3>2. PICK r : r = Activer(m, a)
      OBVIOUS
    <3>3. Ordonnancer(k) = r
      BY <1>4, <2>1, <2>2, <2>11, <3>1, <3>2 DEF Ordonnancer
    <3>4. a \in PID /\ k.etat[a] = "ACTIF" /\ a # pr /\ m.etat[a] = "ACTIF"
      BY <1>2, <2>5, <2>11, <3>1 DEF Tourne
    <3>5. /\ Sain(r) /\ EstDeplace(r, m, a, "ACTIVABLE") /\ r.pid_actif = pr
      BY <2>3, <3>2, <3>4, ActiverProp
    <3>6. m.etat \in [PID -> Etats]
      BY <2>3 DEF Sain, TypeNoyau
    <3>7. /\ r.etat[a] = "ACTIVABLE" /\ \A x \in PID : x # a => r.etat[x] = m.etat[x]
          /\ r.prio = k.prio /\ r.pere = k.pere /\ r.fils = k.fils
          /\ r.attend_fils = k.attend_fils /\ r.suite = k.suite /\ r.panne = k.panne
      BY <2>5, <3>4, <3>5, <3>6 DEF EstDeplace
    <3>8. UnSeulActif(r)
      BY <2>5, <3>1, <3>4, <3>5, <3>7 DEF UnSeulActif, AuPlusUnActif
    <3>9. OisifDisponible(r)
      BY <1>2, <2>6, <3>7 DEF OisifDisponible
    <3>10. Prioritaire(r)
      <4>1. Range(r.activables) = {x \in PID : r.etat[x] = "ACTIVABLE"}
        BY <3>5 DEF Sain, FilesCoherentes
      <4>2. ASSUME NEW x \in Range(r.activables)
            PROVE  k.prio[x] <= k.prio[pr]
        <5>1. CASE x = a
          BY <1>2, <2>5, <2>11, <3>1, <3>4, <5>1
        <5>2. CASE x # a
          BY <1>2, <2>4, <2>5, <3>7, <4>1, <5>2
        <5>3. QED
          BY <5>1, <5>2
      <4>3. QED
        BY <3>5, <3>7, <4>2 DEF Prioritaire
    <3>11. MemesFils(r, k)
      BY <2>5, <3>4, <3>7 DEF MemesFils
    <3>12. QED
      BY <3>3, <3>5, <3>8, <3>9, <3>10, <3>11 DEF Ordonne, Stable
  <2>12. QED
    BY <2>9, <2>10, <2>11
<1>5. QED
  BY <1>3, <1>4

-----------------------------------------------------------------------------
(* The processes destroyed with p: p, the zombie children of those, and    *)
(* nobody else.                                                            *)
LEMMA DetruitsProp ==
  ASSUME NEW k, Sain(k), NEW p \in PID, k.etat[p] # "MORT",
         NEW D, D = Detruits(k, p)
  PROVE  /\ D \in SUBSET PID /\ p \in D
         /\ \A q \in D : \A c \in Range(k.fils[q]) : k.etat[c] = "ZOMBIE" => c \in D
         /\ \A q \in D : q # p => k.etat[q] = "ZOMBIE" /\ k.pere[q] \in D
         /\ k.pere[p] \notin D
<1>1. /\ k.pere \in [PID -> PID \cup {AUCUN}] /\ k.fils \in [PID -> Seq(PID)]
      /\ ListesEtPeres(k) /\ SansCycle(k)
  BY DEF Sain, TypeNoyau, FiliationCoherente
<1>2. D \in SUBSET PID /\ p \in D
  BY DEF Detruits
<1>3. ASSUME NEW q \in D, NEW c \in Range(k.fils[q]), k.etat[c] = "ZOMBIE"
      PROVE  c \in D
  <2>1. q \in PID /\ c \in PID
    <3>1. q \in PID
      BY <1>2
    <3>2. k.etat[q] = "MORT" => Range(k.fils[q]) = {}
      BY <1>1, <3>1 DEF ListesEtPeres
    <3>3. k.etat[q] # "MORT" =>
            Range(k.fils[q]) = {x \in PID : k.etat[x] # "MORT" /\ k.pere[x] = q}
      BY <1>1, <3>1 DEF ListesEtPeres
    <3>4. QED
      BY <3>1, <3>2, <3>3
  <2>2. ASSUME NEW S \in SUBSET PID, p \in S, FermeParDestruction(k, S)
        PROVE  c \in S
    <3>1. q \in S
      BY <2>2 DEF Detruits
    <3>2. QED
      BY <1>3, <2>2, <3>1 DEF FermeParDestruction
  <2>3. QED
    BY <2>1, <2>2 DEF Detruits
<1>4. ASSUME NEW q \in D, q # p
      PROVE  k.etat[q] = "ZOMBIE" /\ k.pere[q] \in D
  <2> DEFINE S == {p} \cup {x \in D : k.etat[x] = "ZOMBIE" /\ k.pere[x] \in D}
  <2>1. S \in SUBSET PID /\ p \in S
    BY <1>2
  <2>2. FermeParDestruction(k, S)
    <3>1. ASSUME NEW x \in S, NEW c \in Range(k.fils[x]), k.etat[c] = "ZOMBIE"
          PROVE  c \in S
      <4>1. x \in D /\ x \in PID
        BY <1>2
      <4>2. c \in D
        BY <1>3, <3>1, <4>1
      <4>3. k.pere[c] = x
        <5>1. k.etat[x] = "MORT" => Range(k.fils[x]) = {}
          BY <1>1, <4>1 DEF ListesEtPeres
        <5>2. k.etat[x] # "MORT" =>
                Range(k.fils[x]) = {y \in PID : k.etat[y] # "MORT" /\ k.pere[y] = x}
          BY <1>1, <4>1 DEF ListesEtPeres
        <5>3. QED
          BY <5>1, <5>2
      <4>4. QED
        BY <3>1, <4>1, <4>2, <4>3
    <3>2. QED
      BY <3>1 DEF FermeParDestruction
  <2>3. q \in S
    <3>1. q \in Detruits(k, p)
      OBVIOUS
    <3>2. \A T \in SUBSET PID : p \in T /\ FermeParDestruction(k, T) => q \in T
      BY <3>1 DEF Detruits
    <3>3. QED
      BY <2>1, <2>2, <3>2
  <2>4. QED
    BY <1>4, <2>3
<1>5. k.pere[p] \notin D
  <2>1. SUFFICES ASSUME k.pere[p] \in D PROVE FALSE
    OBVIOUS
  <2>2. \A x \in D : k.pere[x] \in D
    BY <1>4, <2>1
  <2>3. D \in SUBSET {x \in PID : k.etat[x] # "MORT"}
    <3>1. \A x \in D : k.etat[x] # "MORT"
      BY <1>4
    <3>2. QED
      BY <1>2, <3>1
  <2>4. QED
    BY <1>1, <1>2, <2>2, <2>3 DEF SansCycle
<1>6. QED
  BY <1>2, <1>3, <1>4, <1>5

(* r is k after the end of the processes in D: their slots are free, their *)
(* other children have no father, nobody else is touched.                  *)
EstDetruit(r, k, D) ==
  /\ r \in TypeNoyau /\ r.pid_actif = k.pid_actif /\ r.panne = k.panne
  /\ \A x \in PID : x \in D => r.etat[x] = "MORT" /\ r.suite[x] = "rien"
  /\ \A x \in PID : x \notin D => /\ r.etat[x] = k.etat[x] /\ r.prio[x] = k.prio[x]
                                  /\ r.suite[x] = k.suite[x]
                                  /\ r.attend_fils[x] = k.attend_fils[x]
  /\ \A x \in PID : k.etat[x] # "MORT" /\ k.pere[x] \in D => r.pere[x] = AUCUN
  /\ \A x \in PID : k.etat[x] = "MORT" \/ k.pere[x] \notin D => r.pere[x] = k.pere[x]

LEMMA DetruireProp ==
  ASSUME NEW k, Sain(k), NEW p \in PID, k.etat[p] # "MORT"
  PROVE  /\ Sain(Detruire(k, p))
         /\ EstDetruit(Detruire(k, p), k, Detruits(k, p))
         /\ k.pere[p] # AUCUN =>
              Range(Detruire(k, p).fils[k.pere[p]]) = Range(k.fils[k.pere[p]]) \ {p}
         /\ \A x \in PID : x \notin Detruits(k, p) /\ x # k.pere[p]
                             => Detruire(k, p).fils[x] = k.fils[x]
<1>1. PICK D : D = Detruits(k, p)
  OBVIOUS
<1>2. /\ D \in SUBSET PID /\ p \in D
      /\ \A q \in D : \A c \in Range(k.fils[q]) : k.etat[c] = "ZOMBIE" => c \in D
      /\ \A q \in D : q # p => k.etat[q] = "ZOMBIE" /\ k.pere[q] \in D
      /\ k.pere[p] \notin D
  BY <1>1, DetruitsProp
<1>3. k \in TypeNoyau /\ ListesEtPeres(k) /\ SansCycle(k)
  BY DEF Sain, FiliationCoherente
<1>4. /\ k.pere \in [PID -> PID \cup {AUCUN}] /\ k.fils \in [PID -> Seq(PID)]
      /\ k.etat \in [PID -> Etats] /\ k.prio \in [PID -> Int]
      /\ k.attend_fils \in [PID -> -2..NBPROC-1] /\ k.suite \in [PID -> Suites]
  BY <1>3 DEF TypeNoyau
<1>5. \A x \in PID : k.etat[x] # "MORT" =>
        Range(k.fils[x]) = {c \in PID : k.etat[c] # "MORT" /\ k.pere[c] = x}
  BY <1>3 DEF ListesEtPeres
<1>6. \A x \in D : k.etat[x] # "MORT"
  BY <1>2
<1>7. PICK O : O = UNION {Range(k.fils[q]) : q \in D}
  OBVIOUS
<1>8. O = {c \in PID : k.etat[c] # "MORT" /\ k.pere[c] \in D}
  BY <1>2, <1>5, <1>6, <1>7
<1>9. k.pere[p] # AUCUN => /\ k.pere[p] \in PID
                           /\ k.etat[k.pere[p]] # "MORT"
                           /\ p \in Range(k.fils[k.pere[p]])
                           /\ SansDoublon(k.fils[k.pere[p]])
  <2>1. SUFFICES ASSUME k.pere[p] # AUCUN
                 PROVE  /\ k.pere[p] \in PID
                        /\ k.etat[k.pere[p]] # "MORT"
                        /\ p \in Range(k.fils[k.pere[p]])
                        /\ SansDoublon(k.fils[k.pere[p]])
    OBVIOUS
  <2>2. PICK f : f = k.pere[p]
    OBVIOUS
  <2>3. f \in PID
    BY <1>4, <2>1, <2>2
  <2>4. k.etat[f] # "MORT"
    BY <1>3, <2>1, <2>2 DEF ListesEtPeres
  <2>5. p \in Range(k.fils[f])
    BY <1>5, <2>2, <2>3, <2>4
  <2>6. SansDoublon(k.fils[f])
    BY <1>3, <2>3 DEF ListesEtPeres
  <2>7. QED
    BY <2>2, <2>3, <2>4, <2>5, <2>6
<1>10. PICK q : q = Quitter(k, p)
  OBVIOUS
<1>11. EstQuitte(q, k, p)
  BY <1>10, QuitterProp
<1>12. /\ q \in TypeNoyau
       /\ q = [k EXCEPT !.activables = q.activables, !.endormis = q.endormis,
                        !.reveil = [k.reveil EXCEPT ![p] = 0]]
       /\ SansDoublon(q.activables) /\ SansDoublon(q.endormis)
       /\ Range(q.activables) = {x \in PID : k.etat[x] = "ACTIVABLE"} \ {p}
       /\ Range(q.endormis) = {x \in PID : k.etat[x] = "BLOQUE_SUR_SEMAPHORE"} \ {p}
       /\ Triee(q.activables, k.prio)
  BY <1>11 DEF EstQuitte
<1>13. /\ q.etat = k.etat /\ q.pere = k.pere /\ q.fils = k.fils /\ q.prio = k.prio
       /\ q.attend_fils = k.attend_fils /\ q.suite = k.suite
       /\ q.pid_actif = k.pid_actif /\ q.panne = k.panne
  BY <1>3, <1>12 DEF TypeNoyau
<1>14. PICK s : s = [x \in PID |-> IF x \in D THEN "MORT" ELSE k.etat[x]]
  OBVIOUS
<1>15. PICK u : u = [x \in PID |-> IF x \in O THEN AUCUN ELSE k.pere[x]]
  OBVIOUS
<1>16. PICK w : w = [x \in PID |-> IF x \in D THEN << >> ELSE k.fils[x]]
  OBVIOUS
<1>17. PICK v : v = IF k.pere[p] # AUCUN /\ k.etat[k.pere[p]] # "MORT"
                    THEN [w EXCEPT ![k.pere[p]] = queue_del(w[k.pere[p]], p)]
                    ELSE w
  OBVIOUS
<1>18. PICK pr : pr = [x \in PID |-> IF x \in D THEN 0 ELSE k.prio[x]]
  OBVIOUS
<1>19. PICK at : at = [x \in PID |-> IF x \in D THEN -1 ELSE k.attend_fils[x]]
  OBVIOUS
<1>20. PICK su : su = [x \in PID |-> IF x \in D THEN "rien" ELSE k.suite[x]]
  OBVIOUS
<1>21. PICK r : r = [q EXCEPT !.etat = s, !.pere = u, !.fils = v, !.prio = pr,
                              !.attend_fils = at, !.suite = su]
  OBVIOUS
<1>22. Detruire(k, p) = r
  BY <1>1, <1>7, <1>10, <1>13, <1>14, <1>15, <1>16, <1>17, <1>18, <1>19, <1>20, <1>21
     DEF Detruire
<1>23. s \in [PID -> Etats] /\ u \in [PID -> PID \cup {AUCUN}]
  BY <1>4, <1>14, <1>15 DEF Etats
<1>24. pr \in [PID -> Int] /\ su \in [PID -> Suites]
  BY <1>4, <1>18, <1>20 DEF Suites
<1>25. at \in [PID -> -2..NBPROC-1]
  <2>1. -1 \in -2..NBPROC-1
    BY NbprocAssumption
  <2>2. QED
    BY <1>4, <1>19, <2>1
<1>26. /\ v \in [PID -> Seq(PID)]
       /\ \A x \in D : v[x] = << >>
       /\ \A x \in PID : x \notin D /\ x # k.pere[p] => v[x] = k.fils[x]
       /\ k.pere[p] # AUCUN =>
            /\ SansDoublon(v[k.pere[p]])
            /\ Range(v[k.pere[p]]) = Range(k.fils[k.pere[p]]) \ {p}
  <2>1. w \in [PID -> Seq(PID)]
    BY <1>4, <1>16
  <2>2. CASE k.pere[p] = AUCUN
    BY <1>2, <1>16, <1>17, <2>1, <2>2
  <2>3. CASE k.pere[p] # AUCUN
    <3>1. PICK f \in PID : f = k.pere[p]
      BY <1>9, <2>3
    <3>2. w[f] = k.fils[f] /\ k.fils[f] \in Seq(PID)
      BY <1>2, <1>4, <1>16, <3>1
    <3>3. PICK g : g = queue_del(k.fils[f], p)
      OBVIOUS
    <3>4. g \in Seq(PID) /\ SansDoublon(g) /\ Range(g) = Range(k.fils[f]) \ {p}
      <4>1. p \in Range(k.fils[f]) /\ SansDoublon(k.fils[f])
        BY <1>9, <2>3, <3>1
      <4>2. QED
        BY <3>2, <3>3, <4>1, SuppressionProp
    <3>5. v = [w EXCEPT ![f] = g]
      BY <1>9, <1>17, <2>3, <3>1, <3>2, <3>3
    <3>6. QED
      BY <1>2, <1>16, <2>1, <3>1, <3>4, <3>5
  <2>4. QED
    BY <2>2, <2>3
<1>27. /\ r \in TypeNoyau /\ r.activables = q.activables /\ r.endormis = q.endormis
       /\ r.etat = s /\ r.pere = u /\ r.fils = v /\ r.prio = pr
       /\ r.attend_fils = at /\ r.suite = su
       /\ r.pid_actif = k.pid_actif /\ r.panne = k.panne
  BY <1>12, <1>13, <1>21, <1>23, <1>24, <1>25, <1>26 DEF TypeNoyau
<1>28. /\ \A x \in PID : x \in D => s[x] = "MORT" /\ su[x] = "rien"
       /\ \A x \in PID : x \notin D => s[x] = k.etat[x]
       /\ \A x \in PID : x \notin D => pr[x] = k.prio[x]
       /\ \A x \in PID : x \notin D => su[x] = k.suite[x]
       /\ \A x \in PID : x \notin D => at[x] = k.attend_fils[x]
  BY <1>14, <1>18, <1>19, <1>20
<1>29. /\ \A x \in PID : k.etat[x] # "MORT" /\ k.pere[x] \in D => u[x] = AUCUN
       /\ \A x \in PID : k.etat[x] = "MORT" \/ k.pere[x] \notin D => u[x] = k.pere[x]
  BY <1>8, <1>15
<1>30. EstDetruit(r, k, D)
  BY <1>27, <1>28, <1>29 DEF EstDetruit
<1>31. FilesCoherentes(r) /\ Triee(r.activables, r.prio)
  <2>1. Range(q.activables) = {x \in PID : s[x] = "ACTIVABLE"}
    BY <1>2, <1>12, <1>28
  <2>2. Range(q.endormis) = {x \in PID : s[x] = "BLOQUE_SUR_SEMAPHORE"}
    BY <1>2, <1>12, <1>28
  <2>3. \A x \in Range(q.activables) : pr[x] = k.prio[x]
    BY <2>1, <1>28
  <2>4. Triee(q.activables, pr)
    <3>1. q.activables \in Seq(PID)
      BY <1>12 DEF TypeNoyau
    <3>2. \A i \in 1..Len(q.activables) : q.activables[i] \in Range(q.activables)
      BY <3>1, LenProperties DEF Range
    <3>3. QED
      BY <1>12, <2>3, <3>2 DEF Triee
  <2>5. QED
    BY <1>12, <1>27, <2>1, <2>2, <2>4 DEF FilesCoherentes
<1>32. ListesEtPeres(r)
  <2>1. ASSUME NEW x \in PID
        PROVE  /\ SansDoublon(v[x])
               /\ Range(v[x]) = IF s[x] = "MORT" THEN {}
                                ELSE {c \in PID : s[c] # "MORT" /\ u[c] = x}
    <3>1. SansDoublon(k.fils[x]) /\ (k.etat[x] = "MORT" => Range(k.fils[x]) = {})
      BY <1>3 DEF ListesEtPeres
    <3>2. CASE x \in D
      BY <1>26, <1>28, <3>2 DEF SansDoublon, Range
    <3>3. CASE x \notin D /\ k.etat[x] = "MORT"
      <4>1. x # k.pere[p]
        BY <1>9, <3>3, NbprocAssumption DEF AUCUN, PID
      <4>2. QED
        BY <1>26, <1>28, <3>1, <3>3, <4>1
    <3>4. CASE x \notin D /\ k.etat[x] # "MORT"
      <4>1. ASSUME NEW c \in PID
            PROVE  (s[c] # "MORT" /\ u[c] = x)
                     <=> (k.etat[c] # "MORT" /\ k.pere[c] = x /\ c # p)
        <5>1. CASE c \in D
          BY <1>2, <1>28, <3>4, <5>1
        <5>2. CASE c \notin D
          <6>1. x # AUCUN
            BY NbprocAssumption DEF AUCUN, PID
          <6>2. QED
            BY <1>2, <1>28, <1>29, <3>4, <5>2, <6>1
        <5>3. QED
          BY <5>1, <5>2
      <4>2. {c \in PID : s[c] # "MORT" /\ u[c] = x} = Range(k.fils[x]) \ {p}
        BY <1>5, <3>4, <4>1
      <4>3. CASE x = k.pere[p]
        <5>1. k.pere[p] # AUCUN
          BY <4>3, NbprocAssumption DEF AUCUN, PID
        <5>2. SansDoublon(v[x]) /\ Range(v[x]) = Range(k.fils[x]) \ {p}
          BY <1>26, <4>3, <5>1
        <5>3. QED
          BY <1>28, <3>4, <4>2, <5>2
      <4>4. CASE x # k.pere[p]
        <5>1. p \notin Range(k.fils[x])
          BY <1>5, <3>4, <4>4
        <5>2. QED
          BY <1>26, <1>28, <3>1, <3>4, <4>2, <4>4, <5>1
      <4>5. QED
        BY <4>3, <4>4
    <3>5. QED
      BY <3>2, <3>3, <3>4
  <2>2. ASSUME NEW x \in PID, s[x] # "MORT", u[x] # AUCUN
        PROVE  s[u[x]] # "MORT"
    <3>1. x \notin D /\ k.etat[x] # "MORT" /\ k.pere[x] \notin D /\ u[x] = k.pere[x]
      BY <1>28, <1>29, <2>2
    <3>2. k.pere[x] \in PID /\ k.etat[k.pere[x]] # "MORT"
      BY <1>3, <1>4, <2>2, <3>1 DEF ListesEtPeres
    <3>3. QED
      BY <1>28, <3>1, <3>2
  <2>3. ASSUME NEW x \in PID, s[x] = "ZOMBIE"
        PROVE  u[x] # AUCUN
    <3>1. x \notin D /\ k.etat[x] = "ZOMBIE" /\ k.pere[x] # AUCUN
      BY ZenonT(30), <1>3, <1>28, <2>3 DEF ListesEtPeres
    <3>2. k.pere[x] \notin D
      BY <1>2, <1>5, <1>6, <3>1
    <3>3. QED
      BY <1>29, <3>1, <3>2
  <2>4. QED
    BY <1>27, <2>1, <2>2, <2>3 DEF ListesEtPeres
<1>33. SansCycle(r)
  <2>1. ASSUME NEW S \in SUBSET {x \in PID : r.etat[x] # "MORT"}, S # {}
        PROVE  \E x \in S : r.pere[x] \notin S
    <3>1. S \in SUBSET {x \in PID : k.etat[x] # "MORT"}
      BY <1>27, <1>28
    <3>2. PICK x \in S : k.pere[x] \notin S
      BY <1>3, <2>1, <3>1 DEF SansCycle
    <3>3. r.pere[x] \in {AUCUN, k.pere[x]}
      BY <1>27, <1>29, <3>1
    <3>4. AUCUN \notin S
      BY NbprocAssumption DEF AUCUN, PID
    <3>5. QED
      BY <3>2, <3>3, <3>4
  <2>2. QED
    BY <2>1 DEF SansCycle
<1>34. Sain(r)
  BY <1>27, <1>31, <1>32, <1>33 DEF Sain, FiliationCoherente
<1>35. QED
  BY <1>1, <1>22, <1>26, <1>27, <1>30, <1>34

-----------------------------------------------------------------------------
(* Fields that say nothing of the queues or of the forest. *)
LEMMA ChampsLibres ==
  ASSUME NEW k, Sain(k), NEW r \in TypeNoyau,
         r.etat = k.etat, r.prio = k.prio, r.pere = k.pere, r.fils = k.fils,
         r.activables = k.activables, r.endormis = k.endormis
  PROVE  Sain(r)
<1>1. FilesCoherentes(r) /\ Triee(r.activables, r.prio)
  BY DEF Sain, FilesCoherentes
<1>2. ListesEtPeres(r)
  <2>1. ListesEtPeres(k)
    BY DEF Sain, FiliationCoherente
  <2>2. ASSUME NEW x \in PID
        PROVE  {c \in PID : r.etat[c] # "MORT" /\ r.pere[c] = x}
                 = {c \in PID : k.etat[c] # "MORT" /\ k.pere[c] = x}
    OBVIOUS
  <2>3. QED
    BY <2>1, <2>2 DEF ListesEtPeres
<1>3. SansCycle(r)
  BY Zenon DEF Sain, FiliationCoherente, SansCycle
<1>4. QED
  BY <1>1, <1>2, <1>3 DEF Sain, FiliationCoherente

(* Nobody takes the processor on the way from k to r, and idle stays there. *)
Libere(r, k) ==
  /\ r.pid_actif = k.pid_actif
  /\ \A x \in PID : r.etat[x] = "ACTIF" => k.etat[x] = "ACTIF"
  /\ OisifDisponible(k) => OisifDisponible(r)

(* The states of a process that waits for somebody outside this module to  *)
(* wake it, and those of a process that has ended.                         *)
Suspendus == {"BLOQUE_SUR_ENTREE_SORTIE", "BLOQUE_SUR_RECEPTION", "BLOQUE_SUR_ENVOI"}
Finis     == {"MORT", "ZOMBIE"}

(* From k to r nobody starts nor stops waiting in this way, but by ending, *)
(* and nobody comes back from its end.                                     *)
Epargne(r, k) ==
  \A x \in PID : k.etat[x] \in Suspendus \cup Finis \/ r.etat[x] \in Suspendus \cup Finis
                   => r.etat[x] = k.etat[x] \/ r.etat[x] \in Finis

LEMMA EpargneTransitif ==
  ASSUME NEW k, NEW m, NEW r, Epargne(m, k), Epargne(r, m)
  PROVE  Epargne(r, k)
<1>1. Suspendus \cap Finis = {}
  BY DEF Suspendus, Finis
<1>2. ASSUME NEW x \in PID,
             k.etat[x] \in Suspendus \cup Finis \/ r.etat[x] \in Suspendus \cup Finis,
             r.etat[x] \notin Finis
      PROVE  r.etat[x] = k.etat[x]
  BY <1>1, <1>2 DEF Epargne
<1>3. QED
  BY <1>2 DEF Epargne

(* ordonnancer only exchanges processes that can run. *)
LEMMA MemesFilsEpargne ==
  ASSUME NEW k, NEW r, MemesFils(r, k)
  PROVE  Epargne(r, k)
  BY DEF MemesFils, Epargne, Suspendus, Finis

LEMMA DeplaceEpargne ==
  ASSUME NEW k, Sain(k), NEW p \in PID, NEW e, NEW r, EstDeplace(r, k, p, e),
         (k.etat[p] \notin Suspendus \cup Finis /\ e \notin Suspendus) \/ e \in Finis
  PROVE  Epargne(r, k)
<1>1. k.etat \in [PID -> Etats]
  BY DEF Sain, TypeNoyau
<1>2. r.etat[p] = e /\ \A x \in PID : x # p => r.etat[x] = k.etat[x]
  BY <1>1 DEF EstDeplace
<1>3. QED
  BY <1>2 DEF Epargne

LEMMA LibereProp ==
  ASSUME NEW k, AuPlusUnActif(k), NEW r, Libere(r, k)
  PROVE  AuPlusUnActif(r)
  BY DEF AuPlusUnActif, Libere

(* Moving a process other than idle out of the processor. *)
LEMMA DeplaceLibere ==
  ASSUME NEW k, Sain(k), NEW p \in PID, NEW e, e # "ACTIF",
         p # 0 \/ e = "ACTIVABLE",
         NEW r, EstDeplace(r, k, p, e), r.pid_actif = k.pid_actif
  PROVE  Libere(r, k)
<1>1. k.etat \in [PID -> Etats] /\ 0 \in PID
  BY NbprocAssumption DEF Sain, TypeNoyau, PID
<1>2. r.etat[p] = e /\ \A x \in PID : x # p => r.etat[x] = k.etat[x]
  BY <1>1 DEF EstDeplace
<1>3. OisifDisponible(k) => OisifDisponible(r)
  BY <1>1, <1>2 DEF OisifDisponible
<1>4. QED
  BY <1>2, <1>3 DEF Libere

(* The first zombie child is a zombie child. *)
LEMMA PremierZombieProp ==
  ASSUME NEW k, Sain(k), NEW p \in PID, Zombies(k, p) # {}
  PROVE  /\ PremierZombie(k, p) \in Range(k.fils[p])
         /\ PremierZombie(k, p) \in PID
         /\ k.etat[PremierZombie(k, p)] = "ZOMBIE"
         /\ k.pere[PremierZombie(k, p)] = p
<1>1. k.fils[p] \in Seq(PID) /\ ListesEtPeres(k)
  BY DEF Sain, TypeNoyau, FiliationCoherente
<1>2. PICK Z : Z = Zombies(k, p)
  OBVIOUS
<1>3. Z \in SUBSET Nat /\ Z # {}
  BY <1>1, <1>2, LenProperties DEF Zombies
<1>4. Min(Z) \in Z
  <2>1. \E x \in Z : \A y \in Z : x <= y
    BY <1>3, PlusPetit
  <2>2. QED
    BY <2>1 DEF Min
<1>5. PICK i : i = Min(Zombies(k, p))
  OBVIOUS
<1>6. i \in 1..Len(k.fils[p]) /\ k.etat[k.fils[p][i]] = "ZOMBIE"
  BY <1>2, <1>4, <1>5 DEF Zombies
<1>7. PremierZombie(k, p) = k.fils[p][i]
  BY <1>5 DEF PremierZombie
<1>8. k.fils[p][i] \in Range(k.fils[p])
  BY <1>1, <1>6, LenProperties DEF Range
<1>9. k.fils[p][i] \in PID /\ k.pere[k.fils[p][i]] = p
  <2>1. k.etat[p] = "MORT" => Range(k.fils[p]) = {}
    BY <1>1 DEF ListesEtPeres
  <2>2. k.etat[p] # "MORT" =>
          Range(k.fils[p]) = {x \in PID : k.etat[x] # "MORT" /\ k.pere[x] = p}
    BY <1>1 DEF ListesEtPeres
  <2>3. QED
    BY <1>8, <2>1, <2>2
<1>10. QED
  BY <1>6, <1>7, <1>8, <1>9

(* Destroying a zombie spares every process that is not one. *)
LEMMA DetruireZombie ==
  ASSUME NEW k, Sain(k), NEW z \in PID, k.etat[z] = "ZOMBIE",
         NEW r, r = Detruire(k, z)
  PROVE  /\ Sain(r) /\ Libere(r, k) /\ Epargne(r, k) /\ r.panne = k.panne
         /\ \A x \in PID : k.etat[x] # "ZOMBIE" => r.etat[x] = k.etat[x]
         /\ k.pere[z] \in PID /\ k.etat[k.pere[z]] # "ZOMBIE" =>
              r.pere[k.pere[z]] = k.pere[k.pere[z]]
<1>1. PICK D : D = Detruits(k, z)
  OBVIOUS
<1>2. /\ D \in SUBSET PID /\ z \in D
      /\ \A q \in D : q # z => k.etat[q] = "ZOMBIE" /\ k.pere[q] \in D
  BY <1>1, DetruitsProp
<1>3. Sain(r) /\ EstDetruit(r, k, D)
  BY <1>1, DetruireProp
<1>4. \A x \in PID : k.etat[x] # "ZOMBIE" => x \notin D
  BY <1>2
<1>5. \A x \in PID : k.etat[x] # "ZOMBIE" => r.etat[x] = k.etat[x]
  BY <1>3, <1>4 DEF EstDetruit
<1>6. Libere(r, k)
  <2>1. r.pid_actif = k.pid_actif
    BY <1>3 DEF EstDetruit
  <2>2. \A x \in PID : r.etat[x] = "ACTIF" => k.etat[x] = "ACTIF"
    BY <1>3 DEF EstDetruit
  <2>3. 0 \in PID
    BY NbprocAssumption DEF PID
  <2>4. OisifDisponible(k) => OisifDisponible(r)
    BY <1>5, <2>3 DEF OisifDisponible
  <2>5. QED
    BY <2>1, <2>2, <2>4 DEF Libere
<1>7. ASSUME k.pere[z] \in PID, k.etat[k.pere[z]] # "ZOMBIE"
      PROVE  r.pere[k.pere[z]] = k.pere[k.pere[z]]
  <2>1. PICK f \in PID : f = k.pere[z]
    BY <1>7
  <2>2. ListesEtPeres(k) /\ SansCycle(k)
    BY DEF Sain, FiliationCoherente
  <2>3. k.etat[f] # "MORT"
    <3>1. f # AUCUN
      BY NbprocAssumption DEF AUCUN, PID
    <3>2. QED
      BY <2>1, <2>2, <3>1 DEF ListesEtPeres
  <2>4. k.pere[f] \notin D
    <3>1. SUFFICES ASSUME k.pere[f] \in D PROVE FALSE
      OBVIOUS
    <3>2. PICK S : S = D \cup {f}
      OBVIOUS
    <3>3. S \in SUBSET {x \in PID : k.etat[x] # "MORT"} /\ S # {}
      <4>1. \A x \in D : x \in PID /\ k.etat[x] # "MORT"
        BY <1>2
      <4>2. QED
        BY <2>1, <2>3, <3>2, <4>1
    <3>4. \A x \in S : k.pere[x] \in S
      BY <1>2, <2>1, <3>1, <3>2
    <3>5. QED
      BY <2>2, <3>3, <3>4 DEF SansCycle
  <2>5. r.pere[f] = k.pere[f]
    BY <1>3, <2>4 DEF EstDetruit
  <2>6. QED
    BY <2>1, <2>5
<1>8. r.panne = k.panne
  BY <1>3 DEF EstDetruit
<1>9. Epargne(r, k)
  BY <1>3 DEF EstDetruit, Epargne, Finis
<1>10. QED
  BY <1>3, <1>5, <1>6, <1>7, <1>8, <1>9

(* Zombifier: p, no longer running, waits for its father. *)
LEMMA ZombifierProp ==
  ASSUME NEW k, Sain(k), NEW p \in PID, p # 0,
         k.etat[p] \notin {"MORT", "ZOMBIE"}, k.pere[p] # AUCUN
  PROVE  /\ Sain(Zombifier(k, p)) /\ Libere(Zombifier(k, p), k)
         /\ Epargne(Zombifier(k, p), k)
<1>1. PICK d : d = IF Zombies(k, p) = {} THEN k ELSE Detruire(k, PremierZombie(k, p))
  OBVIOUS
<1>2. /\ Sain(d) /\ Libere(d, k) /\ Epargne(d, k)
      /\ d.etat[p] = k.etat[p] /\ d.pere[p] = k.pere[p]
  <2>1. CASE Zombies(k, p) = {}
    <3>1. d = k
      BY <1>1, <2>1
    <3>2. QED
      BY <3>1 DEF Libere, Epargne
  <2>2. CASE Zombies(k, p) # {}
    <3>1. PICK z : z = PremierZombie(k, p)
      OBVIOUS
    <3>2. z \in PID /\ k.etat[z] = "ZOMBIE" /\ k.pere[z] = p
      BY <2>2, <3>1, PremierZombieProp
    <3>3. d = Detruire(k, z)
      BY <1>1, <2>2, <3>1
    <3>4. QED
      BY <3>2, <3>3, DetruireZombie
  <2>3. QED
    BY <2>1, <2>2
<1>3. PICK r : r = Bloquer(d, p, "ZOMBIE")
  OBVIOUS
<1>4. Sain(r) /\ EstDeplace(r, d, p, "ZOMBIE") /\ r.pid_actif = d.pid_actif
  BY <1>2, <1>3, BloquerProp DEF SansFile, Etats
<1>5. Libere(r, d)
  BY <1>2, <1>4, DeplaceLibere
<1>6. Libere(r, k)
  BY <1>2, <1>5 DEF Libere
<1>7. Zombifier(k, p) = r
  BY <1>1, <1>3 DEF Zombifier
<1>8. Epargne(r, d)
  BY <1>2, <1>4, DeplaceEpargne DEF Finis
<1>9. Epargne(r, k)
  BY <1>2, <1>8, EpargneTransitif
<1>10. QED
  BY <1>4, <1>6, <1>7, <1>9

(* ReveillerPere: at most the father of p moves, from blocked to runnable. *)
LEMMA ReveillerPereProp ==
  ASSUME NEW k, Sain(k), NEW p \in PID, k.etat[p] # "MORT", k.pere[p] # AUCUN,
         NEW r, r = ReveillerPere(k, p)
  PROVE  /\ Sain(r) /\ Libere(r, k)
         /\ r.pere = k.pere /\ r.fils = k.fils /\ r.panne = k.panne
         /\ \A x \in PID : \/ r.etat[x] = k.etat[x]
                           \/ /\ k.etat[x] = "BLOQUE_SUR_ATTENTE_D_UN_FILS"
                              /\ r.etat[x] = "ACTIVABLE"
<1>1. PICK f : f = k.pere[p]
  OBVIOUS
<1>2. k \in TypeNoyau /\ f \in PID
  BY <1>1 DEF Sain, TypeNoyau
<1>3. CASE k.etat[f] = "BLOQUE_SUR_ATTENTE_D_UN_FILS" /\ k.attend_fils[f] \in {-2, p}
  <2>1. PICK at : at = [k.attend_fils EXCEPT ![f] = p]
    OBVIOUS
  <2>2. PICK m : m = [k EXCEPT !.attend_fils = at]
    OBVIOUS
  <2>3. m \in TypeNoyau
    <3>1. p \in -2..NBPROC-1
      BY NbprocAssumption DEF PID
    <3>2. k.attend_fils \in [PID -> -2..NBPROC-1]
      BY <1>2 DEF TypeNoyau
    <3>3. at \in [PID -> -2..NBPROC-1]
      BY <1>2, <2>1, <3>1, <3>2
    <3>4. QED
      BY <1>2, <2>2, <3>3 DEF TypeNoyau
  <2>4. /\ m.etat = k.etat /\ m.prio = k.prio /\ m.pere = k.pere /\ m.fils = k.fils
        /\ m.activables = k.activables /\ m.endormis = k.endormis
        /\ m.pid_actif = k.pid_actif /\ m.panne = k.panne
    BY <1>2, <2>2 DEF TypeNoyau
  <2>5. Sain(m)
    BY <2>3, <2>4, ChampsLibres
  <2>6. r = Activer(m, f)
    BY <1>1, <1>3, <2>1, <2>2 DEF ReveillerPere
  <2>7. Sain(r) /\ EstDeplace(r, m, f, "ACTIVABLE") /\ r.pid_actif = m.pid_actif
    BY <1>2, <1>3, <2>4, <2>5, <2>6, ActiverProp
  <2>8. Libere(r, m)
    BY <1>2, <2>5, <2>7, DeplaceLibere
  <2>9. Libere(r, k)
    BY <2>4, <2>8 DEF Libere, OisifDisponible
  <2>10. r.etat = [k.etat EXCEPT ![f] = "ACTIVABLE"] /\ k.etat \in [PID -> Etats]
    BY <1>2, <2>4, <2>7 DEF EstDeplace, TypeNoyau
  <2>11. r.pere = k.pere /\ r.fils = k.fils /\ r.panne = k.panne
    BY <2>4, <2>7 DEF EstDeplace
  <2>12. QED
    BY <1>2, <1>3, <2>7, <2>9, <2>10, <2>11
<1>4. CASE ~(k.etat[f] = "BLOQUE_SUR_ATTENTE_D_UN_FILS" /\ k.attend_fils[f] \in {-2, p})
  <2>1. r = k
    BY <1>1, <1>4 DEF ReveillerPere
  <2>2. QED
    BY <2>1 DEF Libere
<1>5. QED
  BY <1>3, <1>4

(* terminaison_processus of a process other than idle. *)
LEMMA TerminaisonProp ==
  ASSUME NEW k, Stable(k), NEW p \in PID, p # 0, k.etat[p] \notin {"MORT", "ZOMBIE"}
  PROVE  /\ Stable(TerminaisonProcessus(k, p)) /\ Epargne(TerminaisonProcessus(k, p), k)
         /\ Prioritaire(k) => Prioritaire(TerminaisonProcessus(k, p))
<1>1. Sain(k) /\ OisifDisponible(k) /\ UnSeulActif(k)
  BY DEF Stable
<1>2. AuPlusUnActif(k)
  BY <1>1 DEF UnSeulActif, AuPlusUnActif
<1>3. CASE k.pere[p] = AUCUN
  <2>1. PICK r : r = Detruire(k, p)
    OBVIOUS
  <2>2. PICK D : D = Detruits(k, p)
    OBVIOUS
  <2>3. Sain(r) /\ EstDetruit(r, k, D)
    BY <1>1, <2>1, <2>2, DetruireProp
  <2>4. 0 \in PID /\ 0 \notin D
    <3>1. \A q \in D : q # p => k.etat[q] = "ZOMBIE"
      BY <1>1, <2>2, DetruitsProp
    <3>2. QED
      BY <1>1, <3>1, NbprocAssumption DEF OisifDisponible, PID
  <2>5. OisifDisponible(r)
    BY <1>1, <2>3, <2>4 DEF EstDetruit, OisifDisponible
  <2>6. AuPlusUnActif(r)
    BY <1>2, <2>3 DEF EstDetruit, AuPlusUnActif
  <2>7. Ordonne(Ordonnancer(r)) /\ MemesFils(Ordonnancer(r), r)
    BY <2>3, <2>5, <2>6, OrdonnancerProp
  <2>8. Epargne(r, k)
    BY <2>3 DEF EstDetruit, Epargne, Finis
  <2>9. Epargne(Ordonnancer(r), k)
    BY <2>7, <2>8, MemesFilsEpargne, EpargneTransitif
  <2>10. QED
    BY <1>3, <2>1, <2>7, <2>9 DEF TerminaisonProcessus, Ordonne
<1>4. CASE k.pere[p] # AUCUN /\ FauteDeParcours(k, p)
  <2>1. PICK r : r = [k EXCEPT !.panne = TRUE]
    OBVIOUS
  <2>2. /\ r \in TypeNoyau
        /\ r.etat = k.etat /\ r.prio = k.prio /\ r.pere = k.pere /\ r.fils = k.fils
        /\ r.activables = k.activables /\ r.endormis = k.endormis
        /\ r.pid_actif = k.pid_actif
    BY <1>1, <2>1 DEF Sain, TypeNoyau
  <2>3. Sain(r)
    BY <1>1, <2>2, ChampsLibres
  <2>4. /\ OisifDisponible(r) /\ UnSeulActif(r) /\ Epargne(r, k)
        /\ Prioritaire(k) => Prioritaire(r)
    BY <1>1, <2>2 DEF OisifDisponible, UnSeulActif, Epargne, Prioritaire
  <2>5. TerminaisonProcessus(k, p) = r
    BY <1>4, <2>1 DEF TerminaisonProcessus
  <2>6. QED
    BY <2>3, <2>4, <2>5 DEF Stable
<1>5. CASE k.pere[p] # AUCUN /\ ~FauteDeParcours(k, p)
  <2>1. PICK m : m = ReveillerPere(k, p)
    OBVIOUS
  <2>2. /\ Sain(m) /\ Libere(m, k) /\ m.pere = k.pere
        /\ \A x \in PID : \/ m.etat[x] = k.etat[x]
                          \/ m.etat[x] = "ACTIVABLE"
    BY <1>1, <1>5, <2>1, ReveillerPereProp
  <2>3. m.etat[p] \notin {"MORT", "ZOMBIE"}
    BY <2>2
  <2>4. PICK z : z = Zombifier(m, p)
    OBVIOUS
  <2>5. Sain(z) /\ Libere(z, m) /\ Epargne(z, m)
    BY <1>5, <2>2, <2>3, <2>4, ZombifierProp
  <2>6. AuPlusUnActif(z) /\ OisifDisponible(z)
    <3>1. Libere(z, k)
      BY <2>2, <2>5 DEF Libere
    <3>2. QED
      BY <1>1, <1>2, <3>1, LibereProp DEF Libere
  <2>7. Ordonne(Ordonnancer(z)) /\ MemesFils(Ordonnancer(z), z)
    BY <2>5, <2>6, OrdonnancerProp
  <2>8. Epargne(m, k)
    <3>1. k.pere[p] \in PID /\ k.etat[p] # "MORT"
      BY <1>1, <1>5 DEF Sain, TypeNoyau
    <3>2. \A x \in PID : \/ m.etat[x] = k.etat[x]
                         \/ /\ k.etat[x] = "BLOQUE_SUR_ATTENTE_D_UN_FILS"
                            /\ m.etat[x] = "ACTIVABLE"
      BY <1>1, <1>5, <2>1, <3>1, ReveillerPereProp
    <3>3. QED
      BY <3>2 DEF Epargne, Suspendus, Finis
  <2>9. Epargne(Ordonnancer(z), k)
    BY <2>5, <2>7, <2>8, MemesFilsEpargne, EpargneTransitif
  <2>10. QED
    BY <1>5, <2>1, <2>4, <2>7, <2>9 DEF TerminaisonProcessus, Ordonne
<1>6. QED
  BY <1>3, <1>4, <1>5

-----------------------------------------------------------------------------
(* m is k with a new process p, runnable, child of the active process.     *)
EstNe(m, k, p) ==
  /\ m.etat[p] = "ACTIVABLE" /\ m.suite[p] = "rien"
  /\ \A x \in PID : x # p => /\ m.etat[x] = k.etat[x] /\ m.pere[x] = k.pere[x]
                            /\ m.suite[x] = k.suite[x]
                            /\ m.attend_fils[x] = k.attend_fils[x]

(* start: the new process is a leaf of the forest, runnable at once.       *)
LEMMA DemarrerProp ==
  ASSUME NEW k, Sain(k), AuPlusUnActif(k), PidsLibres(k) # {}, NEW prio \in Int,
         k.pid_actif # AUCUN => k.etat[k.pid_actif] # "MORT",
         OisifDisponible(k) \/ PidsLibres(k) = PID,
         NEW p, p = Min(PidsLibres(k))
  PROVE  /\ Ordonne(Demarrer(k, prio))
         /\ p \in PidsLibres(k)
         /\ \A x \in PID : x # p /\ k.etat[x] = "MORT" => Demarrer(k, prio).etat[x] = "MORT"
         /\ \E m : EstNe(m, k, p) /\ MemesFils(Demarrer(k, prio), m)
<1>1. /\ k \in TypeNoyau /\ FilesCoherentes(k) /\ Triee(k.activables, k.prio)
      /\ ListesEtPeres(k) /\ SansCycle(k)
  BY DEF Sain, FiliationCoherente
<1>2. /\ k.pere \in [PID -> PID \cup {AUCUN}] /\ k.fils \in [PID -> Seq(PID)]
      /\ k.etat \in [PID -> Etats] /\ k.prio \in [PID -> Int]
      /\ k.attend_fils \in [PID -> -2..NBPROC-1] /\ k.suite \in [PID -> Suites]
      /\ k.reveil \in [PID -> Nat] /\ k.pid_actif \in PID \cup {AUCUN}
      /\ k.activables \in Seq(PID)
  BY <1>1 DEF TypeNoyau
<1>3. PICK L : L = PidsLibres(k)
  OBVIOUS
<1>4. L = {x \in PID : k.etat[x] = "MORT"} /\ L # {}
  BY <1>3 DEF PidsLibres
<1>5. p \in L /\ \A y \in L : p <= y
  <2>1. L \in SUBSET Nat
    BY <1>4, NbprocAssumption DEF PID
  <2>2. \E x \in L : \A y \in L : x <= y
    BY <1>4, <2>1, PlusPetit
  <2>3. QED
    BY <1>3, <2>2 DEF Min
<1>6. p \in PID /\ k.etat[p] = "MORT"
  BY <1>4, <1>5
<1>7. PICK a : a = k.pid_actif
  OBVIOUS
<1>8. a # AUCUN => a \in PID /\ k.etat[a] # "MORT" /\ a # p
  BY <1>2, <1>6, <1>7
<1>9. PICK et : et = [k.etat EXCEPT ![p] = "ENDORMI"]
  OBVIOUS
<1>10. PICK pr : pr = [k.prio EXCEPT ![p] = prio]
  OBVIOUS
<1>11. PICK pe : pe = [k.pere EXCEPT ![p] = a]
  OBVIOUS
<1>12. PICK fi : fi = IF a = AUCUN THEN [k.fils EXCEPT ![p] = << >>]
                      ELSE [k.fils EXCEPT ![p] = << >>, ![a] = queue_add(k.fils[a], p, pr)]
  OBVIOUS
<1>13. PICK at : at = [k.attend_fils EXCEPT ![p] = -1]
  OBVIOUS
<1>14. PICK re : re = [k.reveil EXCEPT ![p] = 0]
  OBVIOUS
<1>15. PICK su : su = [k.suite EXCEPT ![p] = "rien"]
  OBVIOUS
<1>16. PICK n : n = [k EXCEPT !.etat = et, !.prio = pr, !.pere = pe, !.fils = fi,
                              !.attend_fils = at, !.reveil = re, !.suite = su]
  OBVIOUS
<1>17. Demarrer(k, prio) = Ordonnancer(Activer(n, p))
  <2>1. a # AUCUN => [k.fils EXCEPT ![p] = << >>][a] = k.fils[a]
    BY <1>2, <1>8
  <2>2. QED
    BY <1>7, <1>9, <1>10, <1>11, <1>12, <1>13, <1>14, <1>15, <1>16, <2>1 DEF Demarrer
<1>18. /\ et \in [PID -> Etats] /\ et[p] = "ENDORMI"
       /\ \A x \in PID : x # p => et[x] = k.etat[x]
  BY <1>2, <1>6, <1>9 DEF Etats
<1>19. /\ pr \in [PID -> Int] /\ \A x \in PID : x # p => pr[x] = k.prio[x]
  BY <1>2, <1>6, <1>10
<1>20. /\ pe \in [PID -> PID \cup {AUCUN}] /\ pe[p] = a
       /\ \A x \in PID : x # p => pe[x] = k.pere[x]
  BY <1>2, <1>6, <1>7, <1>11
<1>21. p \notin Range(k.fils[a]) \/ a = AUCUN
  BY <1>1, <1>6, <1>8 DEF ListesEtPeres
<1>22. /\ fi \in [PID -> Seq(PID)] /\ fi[p] = << >>
       /\ \A x \in PID : x # p /\ x # a => fi[x] = k.fils[x]
       /\ a # AUCUN => SansDoublon(fi[a]) /\ Range(fi[a]) = Range(k.fils[a]) \cup {p}
  <2>1. CASE a = AUCUN
    <3>1. fi = [k.fils EXCEPT ![p] = << >>]
      BY <1>12, <2>1
    <3>2. QED
      BY <1>2, <1>6, <2>1, <3>1
  <2>2. CASE a # AUCUN
    <3>1. PICK g : g = queue_add(k.fils[a], p, pr)
      OBVIOUS
    <3>2. k.fils[a] \in Seq(PID) /\ SansDoublon(k.fils[a]) /\ p \notin Range(k.fils[a])
      BY <1>1, <1>2, <1>8, <1>21, <2>2 DEF ListesEtPeres
    <3>3. g \in Seq(PID) /\ SansDoublon(g) /\ Range(g) = Range(k.fils[a]) \cup {p}
      BY <1>6, <1>19, <3>1, <3>2, AjoutElements
    <3>4. fi = [k.fils EXCEPT ![p] = << >>, ![a] = g]
      BY <1>12, <2>2, <3>1
    <3>5. PICK h : h = [k.fils EXCEPT ![p] = << >>]
      OBVIOUS
    <3>6. /\ h \in [PID -> Seq(PID)] /\ h[p] = << >>
          /\ \A x \in PID : x # p => h[x] = k.fils[x]
      BY <1>2, <1>6, <3>5
    <3>7. fi = [h EXCEPT ![a] = g]
      BY <3>4, <3>5
    <3>8. a \in PID /\ a # p
      BY <1>8, <2>2
    <3>9. fi \in [PID -> Seq(PID)] /\ fi[a] = g /\ \A x \in PID : x # a => fi[x] = h[x]
      BY <3>3, <3>6, <3>7, <3>8
    <3>10. QED
      BY <1>6, <3>3, <3>6, <3>8, <3>9
  <2>3. QED
    BY <2>1, <2>2
<1>23. /\ at \in [PID -> -2..NBPROC-1] /\ re \in [PID -> Nat] /\ su \in [PID -> Suites]
  <2>1. -1 \in -2..NBPROC-1
    BY NbprocAssumption
  <2>2. QED
    BY <1>2, <1>13, <1>14, <1>15, <2>1 DEF Suites
<1>24. /\ n \in TypeNoyau
       /\ n.etat = et /\ n.prio = pr /\ n.pere = pe /\ n.fils = fi
       /\ n.activables = k.activables /\ n.endormis = k.endormis /\ n.pid_actif = a
       /\ n.attend_fils = at /\ n.suite = su
  BY <1>1, <1>7, <1>16, <1>18, <1>19, <1>20, <1>22, <1>23 DEF TypeNoyau
<1>25. FilesCoherentes(n) /\ Triee(n.activables, n.prio)
  <2>1. Range(k.activables) = {x \in PID : et[x] = "ACTIVABLE"}
    BY <1>1, <1>6, <1>18 DEF FilesCoherentes
  <2>2. Range(k.endormis) = {x \in PID : et[x] = "BLOQUE_SUR_SEMAPHORE"}
    BY <1>1, <1>6, <1>18 DEF FilesCoherentes
  <2>3. \A x \in Range(k.activables) : pr[x] = k.prio[x]
    BY <1>18, <1>19, <2>1
  <2>4. Triee(k.activables, pr)
    <3>1. \A i \in 1..Len(k.activables) : k.activables[i] \in Range(k.activables)
      BY <1>2, LenProperties DEF Range
    <3>2. QED
      BY <1>1, <2>3, <3>1 DEF Triee
  <2>5. QED
    BY <1>1, <1>24, <2>1, <2>2, <2>4 DEF FilesCoherentes
<1>26. ListesEtPeres(n)
  <2>1. ASSUME NEW x \in PID
        PROVE  /\ SansDoublon(fi[x])
               /\ Range(fi[x]) = IF et[x] = "MORT" THEN {}
                                 ELSE {c \in PID : et[c] # "MORT" /\ pe[c] = x}
    <3>1. /\ SansDoublon(k.fils[x])
          /\ k.etat[x] = "MORT" => Range(k.fils[x]) = {}
          /\ k.etat[x] # "MORT" =>
               Range(k.fils[x]) = {c \in PID : k.etat[c] # "MORT" /\ k.pere[c] = x}
      BY <1>1 DEF ListesEtPeres
    <3>2. CASE x = p
      <4>1. SansDoublon(fi[x]) /\ Range(fi[x]) = {}
        BY <1>22, <3>2 DEF SansDoublon, Range
      <4>2. ASSUME NEW c \in PID, et[c] # "MORT", pe[c] = p
            PROVE  FALSE
        <5>1. CASE c = p
          BY <1>6, <1>8, <1>20, <4>2, <5>1, NbprocAssumption DEF AUCUN, PID
        <5>2. CASE c # p
          <6>1. k.etat[c] # "MORT" /\ k.pere[c] = p /\ p # AUCUN
            BY <1>6, <1>18, <1>20, <4>2, <5>2, NbprocAssumption DEF AUCUN, PID
          <6>2. QED
            BY <1>1, <1>6, <6>1 DEF ListesEtPeres
        <5>3. QED
          BY <5>1, <5>2
      <4>3. QED
        BY <1>18, <3>2, <4>1, <4>2
    <3>3. CASE x # p /\ x = a
      <4>1. a # AUCUN
        BY <3>3, NbprocAssumption DEF AUCUN, PID
      <4>2. SansDoublon(fi[x]) /\ Range(fi[x]) = Range(k.fils[x]) \cup {p}
        BY <1>22, <3>3, <4>1
      <4>3. et[x] # "MORT" /\ k.etat[x] # "MORT"
        BY <1>8, <1>18, <3>3, <4>1
      <4>4. {c \in PID : et[c] # "MORT" /\ pe[c] = x}
              = {c \in PID : k.etat[c] # "MORT" /\ k.pere[c] = x} \cup {p}
        BY <1>6, <1>18, <1>20, <3>3
      <4>5. QED
        BY <3>1, <4>2, <4>3, <4>4
    <3>4. CASE x # p /\ x # a
      <4>1. fi[x] = k.fils[x] /\ et[x] = k.etat[x]
        BY <1>18, <1>22, <3>4
      <4>2. {c \in PID : et[c] # "MORT" /\ pe[c] = x}
              = {c \in PID : k.etat[c] # "MORT" /\ k.pere[c] = x}
        BY <1>6, <1>18, <1>20, <3>4
      <4>3. QED
        BY <3>1, <4>1, <4>2
    <3>5. QED
      BY <3>2, <3>3, <3>4
  <2>2. ASSUME NEW x \in PID, et[x] # "MORT", pe[x] # AUCUN
        PROVE  et[pe[x]] # "MORT"
    <3>1. CASE x = p
      BY <1>8, <1>18, <1>20, <2>2, <3>1
    <3>2. CASE x # p
      <4>1. k.pere[x] \in PID /\ k.etat[k.pere[x]] # "MORT" /\ pe[x] = k.pere[x]
        BY ZenonT(30), <1>1, <1>2, <1>18, <1>20, <2>2, <3>2 DEF ListesEtPeres
      <4>2. QED
        BY <1>6, <1>18, <4>1
    <3>3. QED
      BY <3>1, <3>2
  <2>3. ASSUME NEW x \in PID, et[x] = "ZOMBIE"
        PROVE  pe[x] # AUCUN
    BY <1>1, <1>18, <1>20, <2>3 DEF ListesEtPeres
  <2>4. QED
    BY <1>24, <2>1, <2>2, <2>3 DEF ListesEtPeres
<1>27. SansCycle(n)
  <2>1. ASSUME NEW S \in SUBSET {x \in PID : n.etat[x] # "MORT"}, S # {}
        PROVE  \E x \in S : n.pere[x] \notin S
    <3>1. PICK R : R = S \ {p}
      OBVIOUS
    <3>2. R \in SUBSET {x \in PID : k.etat[x] # "MORT"}
      BY <1>18, <1>24, <3>1
    <3>3. CASE R = {}
      <4>1. S = {p} /\ a # p
        <5>1. S = {p}
          BY <2>1, <3>1, <3>3
        <5>2. p # AUCUN
          BY <1>6, NbprocAssumption DEF AUCUN, PID
        <5>3. QED
          BY <1>8, <5>1, <5>2
      <4>2. QED
        BY <1>20, <1>24, <4>1
    <3>4. CASE R # {}
      <4>1. PICK x \in R : k.pere[x] \notin R
        BY <1>1, <3>2, <3>4 DEF SansCycle
      <4>2. x \in PID /\ k.etat[x] # "MORT" /\ x \in S /\ x # p
        BY <3>1, <3>2
      <4>3. k.pere[x] # p
        <5>1. p # AUCUN
          BY <1>6, NbprocAssumption DEF AUCUN, PID
        <5>2. QED
          BY <1>1, <1>6, <4>2, <5>1 DEF ListesEtPeres
      <4>4. QED
        BY <1>20, <1>24, <3>1, <4>1, <4>2, <4>3
    <3>5. QED
      BY <3>3, <3>4
  <2>2. QED
    BY <2>1 DEF SansCycle
<1>28. Sain(n)
  BY <1>24, <1>25, <1>26, <1>27 DEF Sain, FiliationCoherente
<1>29. PICK m : m = Activer(n, p)
  OBVIOUS
<1>30. Sain(m) /\ EstDeplace(m, n, p, "ACTIVABLE") /\ m.pid_actif = a
  BY <1>6, <1>18, <1>24, <1>28, <1>29, ActiverProp
<1>31. /\ m.etat[p] = "ACTIVABLE" /\ \A x \in PID : x # p => m.etat[x] = k.etat[x]
  BY <1>6, <1>18, <1>24, <1>30 DEF EstDeplace
<1>32. OisifDisponible(m)
  <2>1. 0 \in PID /\ PID \subseteq Nat
    BY NbprocAssumption DEF PID
  <2>2. CASE OisifDisponible(k)
    BY <1>6, <1>31, <2>1, <2>2 DEF OisifDisponible
  <2>3. CASE L = PID
    BY <1>5, <1>31, <2>1, <2>3 DEF OisifDisponible
  <2>4. QED
    BY <1>3, <2>2, <2>3
<1>33. AuPlusUnActif(m)
  BY <1>7, <1>30, <1>31 DEF AuPlusUnActif
<1>34. Ordonne(Ordonnancer(m)) /\ MemesFils(Ordonnancer(m), m)
  BY <1>30, <1>32, <1>33, OrdonnancerProp
<1>35. \A x \in PID : x # p /\ k.etat[x] = "MORT" => Ordonnancer(m).etat[x] = "MORT"
  BY <1>31, <1>34 DEF MemesFils
<1>36. EstNe(m, k, p)
  <2>1. su[p] = "rien" /\ \A x \in PID : x # p => su[x] = k.suite[x] /\ at[x] = k.attend_fils[x]
    BY <1>2, <1>6, <1>13, <1>15
  <2>2. m.pere = pe /\ m.suite = su /\ m.attend_fils = at
    BY <1>24, <1>30 DEF EstDeplace
  <2>3. QED
    BY <1>20, <1>31, <2>1, <2>2 DEF EstNe
<1>37. QED
  BY <1>3, <1>5, <1>17, <1>29, <1>34, <1>35, <1>36

(* The empty table, before the first start. *)
LEMMA NoyauVideProp ==
  /\ Sain(NoyauVide) /\ AuPlusUnActif(NoyauVide)
  /\ PidsLibres(NoyauVide) = PID /\ NoyauVide.pid_actif = AUCUN
<1>1. PICK k : k = NoyauVide
  OBVIOUS
<1>2. /\ k.etat = [p \in PID |-> "MORT"] /\ k.prio = [p \in PID |-> 0]
      /\ k.pere = [p \in PID |-> AUCUN] /\ k.fils = [p \in PID |-> << >>]
      /\ k.activables = << >> /\ k.endormis = << >> /\ k.pid_actif = AUCUN
  BY <1>1 DEF NoyauVide
<1>3. k \in TypeNoyau
  <2>1. -1 \in -2..NBPROC-1
    BY NbprocAssumption
  <2>2. [p \in PID |-> -1] \in [PID -> -2..NBPROC-1]
    BY <2>1
  <2>3. [p \in PID |-> "rien"] \in [PID -> Suites] /\ [p \in PID |-> "MORT"] \in [PID -> Etats]
    BY DEF Suites, Etats
  <2>4. /\ [p \in PID |-> 0] \in [PID -> Int] /\ [p \in PID |-> 0] \in [PID -> Nat]
        /\ [p \in PID |-> AUCUN] \in [PID -> PID \cup {AUCUN}]
        /\ [p \in PID |-> << >>] \in [PID -> Seq(PID)]
        /\ << >> \in Seq(PID)
    OBVIOUS
  <2>5. QED
    BY <1>1, <2>2, <2>3, <2>4 DEF NoyauVide, TypeNoyau
<1>4. FilesCoherentes(k) /\ Triee(k.activables, k.prio)
  BY <1>2 DEF FilesCoherentes, Triee, SansDoublon, Range
<1>5. ListesEtPeres(k) /\ SansCycle(k)
  BY <1>2 DEF ListesEtPeres, SansCycle, SansDoublon, Range
<1>6. PidsLibres(k) = PID /\ AuPlusUnActif(k)
  BY <1>2 DEF PidsLibres, AuPlusUnActif
<1>7. QED
  BY <1>1, <1>2, <1>3, <1>4, <1>5, <1>6 DEF Sain, FiliationCoherente

-----------------------------------------------------------------------------
(* Fields that say nothing of who runs either. *)
LEMMA ChampsStables ==
  ASSUME NEW k, Stable(k), NEW r \in TypeNoyau,
         r.etat = k.etat, r.prio = k.prio, r.pere = k.pere, r.fils = k.fils,
         r.activables = k.activables, r.endormis = k.endormis, r.pid_actif = k.pid_actif
  PROVE  /\ Stable(r) /\ Epargne(r, k)
         /\ Prioritaire(k) => Prioritaire(r)
<1>1. Sain(k) /\ Sain(r)
  BY ChampsLibres DEF Stable
<1>2. OisifDisponible(r) /\ UnSeulActif(r) /\ Epargne(r, k)
  BY DEF Stable, OisifDisponible, UnSeulActif, Epargne
<1>3. Prioritaire(k) => Prioritaire(r)
  BY DEF Prioritaire
<1>4. QED
  BY <1>1, <1>2, <1>3 DEF Stable

(* The table of a stopped system is that of the step before. *)
LEMMA PanneStable ==
  ASSUME NEW k, Stable(k), NEW r, r = [k EXCEPT !.panne = TRUE]
  PROVE  Stable(r) /\ r.etat = k.etat /\ r.panne = TRUE
<1>1. k \in TypeNoyau
  BY DEF Stable, Sain
<1>2. /\ r \in TypeNoyau /\ r.panne = TRUE
      /\ r.etat = k.etat /\ r.prio = k.prio /\ r.pere = k.pere /\ r.fils = k.fils
      /\ r.activables = k.activables /\ r.endormis = k.endormis /\ r.pid_actif = k.pid_actif
  BY <1>1 DEF TypeNoyau
<1>3. QED
  BY <1>2, ChampsStables

(* A process that waits becomes runnable, without ordonnancer. *)
LEMMA ActiverStable ==
  ASSUME NEW k, Stable(k), NEW p \in PID, k.etat[p] \in Suspendus \cup {"ACTIVABLE"},
         NEW r, r = Activer(k, p)
  PROVE  /\ Stable(r)
         /\ r.etat = [x \in PID |-> IF x = p THEN "ACTIVABLE" ELSE k.etat[x]]
<1>1. Sain(k) /\ OisifDisponible(k) /\ UnSeulActif(k)
  BY DEF Stable
<1>2. k.etat[p] \notin {"MORT", "ZOMBIE", "ACTIF"}
  BY DEF Suspendus
<1>3. Sain(r) /\ EstDeplace(r, k, p, "ACTIVABLE") /\ r.pid_actif = k.pid_actif
  BY <1>1, <1>2, ActiverProp
<1>4. k.etat \in [PID -> Etats] /\ r.etat = [k.etat EXCEPT ![p] = "ACTIVABLE"]
  BY <1>1, <1>3 DEF Sain, TypeNoyau, EstDeplace
<1>5. r.etat = [x \in PID |-> IF x = p THEN "ACTIVABLE" ELSE k.etat[x]]
  BY <1>4
<1>6. OisifDisponible(r)
  BY <1>1, <1>4 DEF OisifDisponible
<1>7. UnSeulActif(r)
  <2>1. {x \in PID : r.etat[x] = "ACTIF"} = {x \in PID : k.etat[x] = "ACTIF"}
    BY <1>2, <1>4
  <2>2. QED
    BY <1>1, <1>3, <2>1 DEF UnSeulActif
<1>8. QED
  BY <1>3, <1>5, <1>6, <1>7 DEF Stable

(* The active process is one. *)
LEMMA ActifProp ==
  ASSUME NEW k, Stable(k)
  PROVE  k.pid_actif \in PID /\ k.etat[k.pid_actif] = "ACTIF" /\ AuPlusUnActif(k)
  BY DEF Stable, UnSeulActif, AuPlusUnActif

(* The active process, other than idle, blocks in state e.                 *)
LEMMA SuspendreProp ==
  ASSUME NEW k, Stable(k), k.pid_actif # 0, NEW e \in SansFile, e \notin {"ACTIF", "ZOMBIE"},
         NEW r, r = Ordonnancer(Bloquer(k, k.pid_actif, e))
  PROVE  /\ Ordonne(r) /\ r.etat[k.pid_actif] = e /\ r.panne = k.panne
         /\ \A x \in PID : x # k.pid_actif /\ r.etat[x] # k.etat[x] =>
              r.etat[x] \in {"ACTIF", "ACTIVABLE"} /\ k.etat[x] \in {"ACTIF", "ACTIVABLE"}
<1>1. PICK a : a = k.pid_actif
  OBVIOUS
<1>2. a \in PID /\ k.etat[a] = "ACTIF" /\ AuPlusUnActif(k) /\ Sain(k) /\ OisifDisponible(k)
  BY <1>1, ActifProp DEF Stable
<1>3. PICK m : m = Bloquer(k, a, e)
  OBVIOUS
<1>4. Sain(m) /\ EstDeplace(m, k, a, e) /\ m.pid_actif = k.pid_actif
  BY <1>2, <1>3, BloquerProp
<1>5. Libere(m, k)
  BY <1>1, <1>2, <1>4, DeplaceLibere
<1>6. AuPlusUnActif(m) /\ OisifDisponible(m)
  BY <1>2, <1>5, LibereProp DEF Libere
<1>7. Ordonne(r) /\ MemesFils(r, m)
  BY <1>1, <1>3, <1>4, <1>6, OrdonnancerProp
<1>8. m.etat[a] = e /\ m.panne = k.panne /\ \A x \in PID : x # a => m.etat[x] = k.etat[x]
  BY <1>2, <1>4 DEF EstDeplace, Sain, TypeNoyau
<1>9. e \notin {"ACTIF", "ACTIVABLE"}
  BY DEF SansFile
<1>10. QED
  BY <1>1, <1>2, <1>7, <1>8, <1>9 DEF MemesFils

(* wait_clock by a process other than idle. *)
LEMMA WaitClockProp ==
  ASSUME NEW k, Stable(k), k.pid_actif # 0, NEW t \in Nat
  PROVE  Ordonne(WaitClock(k, t)) /\ Epargne(WaitClock(k, t), k)
<1>1. PICK a : a = k.pid_actif
  OBVIOUS
<1>2. a \in PID /\ k.etat[a] = "ACTIF" /\ AuPlusUnActif(k) /\ Sain(k) /\ OisifDisponible(k)
  BY <1>1, ActifProp DEF Stable
<1>3. PICK r : r = Endormir(k, a, t)
  OBVIOUS
<1>4. Sain(r) /\ EstDeplace(r, k, a, "BLOQUE_SUR_SEMAPHORE") /\ r.pid_actif = k.pid_actif
  BY <1>2, <1>3, EndormirProp
<1>5. Libere(r, k)
  BY <1>1, <1>2, <1>4, DeplaceLibere
<1>6. AuPlusUnActif(r) /\ OisifDisponible(r)
  BY <1>2, <1>5, LibereProp DEF Libere
<1>7. Ordonne(Ordonnancer(r)) /\ MemesFils(Ordonnancer(r), r)
  BY <1>4, <1>6, OrdonnancerProp
<1>8. Epargne(r, k)
  BY <1>2, <1>4, DeplaceEpargne DEF Suspendus, Finis
<1>9. Epargne(Ordonnancer(r), k)
  BY <1>7, <1>8, MemesFilsEpargne, EpargneTransitif
<1>10. QED
  BY <1>1, <1>3, <1>7, <1>9 DEF WaitClock

(* The failure of a confirme. *)
LEMMA EchecConfirmeProp ==
  ASSUME NEW k, Stable(k), k.pid_actif # 0, NEW t \in Nat
  PROVE  Ordonne(EchecConfirme(k, t)) /\ Epargne(EchecConfirme(k, t), k)
<1>1. PICK su : su = [k.suite EXCEPT ![k.pid_actif] = "condamne"]
  OBVIOUS
<1>2. PICK r : r = [k EXCEPT !.suite = su]
  OBVIOUS
<1>3. k \in TypeNoyau
  BY DEF Stable, Sain
<1>4. su \in [PID -> Suites]
  BY <1>1, <1>3, ActifProp DEF TypeNoyau, Suites
<1>5. /\ r \in TypeNoyau
      /\ r.etat = k.etat /\ r.prio = k.prio /\ r.pere = k.pere /\ r.fils = k.fils
      /\ r.activables = k.activables /\ r.endormis = k.endormis
      /\ r.pid_actif = k.pid_actif
  BY <1>2, <1>3, <1>4 DEF TypeNoyau
<1>6. Stable(r) /\ Epargne(r, k)
  BY <1>5, ChampsStables
<1>7. EchecConfirme(k, t) = WaitClock(r, t)
  BY <1>1, <1>2 DEF EchecConfirme
<1>8. Ordonne(WaitClock(r, t)) /\ Epargne(WaitClock(r, t), r)
  BY <1>5, <1>6, WaitClockProp
<1>9. QED
  BY <1>6, <1>7, <1>8, EpargneTransitif

-----------------------------------------------------------------------------
(* Waking one due sleeper. *)
LEMMA EveillerPremierProp ==
  ASSUME NEW k, Sain(k), NEW t
  PROVE  /\ Sain(EveillerPremier(k, t)) /\ Libere(EveillerPremier(k, t), k)
         /\ Epargne(EveillerPremier(k, t), k)
<1>1. CASE Echus(k, t) = {}
  <2>1. EveillerPremier(k, t) = k
    BY <1>1 DEF EveillerPremier
  <2>2. QED
    BY <2>1 DEF Libere, Epargne
<1>2. CASE Echus(k, t) # {}
  <2>1. k.endormis \in Seq(PID)
    BY DEF Sain, TypeNoyau
  <2>2. PICK Z : Z = Echus(k, t)
    OBVIOUS
  <2>3. Z \in SUBSET Nat /\ Z # {} /\ Z \subseteq 1..Len(k.endormis)
    BY <1>2, <2>1, <2>2, LenProperties DEF Echus
  <2>4. Min(Z) \in Z
    <3>1. \E x \in Z : \A y \in Z : x <= y
      BY <2>3, PlusPetit
    <3>2. QED
      BY <3>1 DEF Min
  <2>5. PICK p : p = k.endormis[Min(Z)]
    OBVIOUS
  <2>6. p \in Range(k.endormis)
    BY <2>1, <2>3, <2>4, <2>5, LenProperties DEF Range
  <2>7. p \in PID /\ k.etat[p] = "BLOQUE_SUR_SEMAPHORE"
    BY <2>6 DEF Sain, FilesCoherentes
  <2>8. PICK r : r = Activer(k, p)
    OBVIOUS
  <2>9. Sain(r) /\ EstDeplace(r, k, p, "ACTIVABLE") /\ r.pid_actif = k.pid_actif
    BY <2>7, <2>8, ActiverProp
  <2>10. Libere(r, k)
    BY <2>7, <2>9, DeplaceLibere
  <2>11. EveillerPremier(k, t) = r
    BY <1>2, <2>2, <2>5, <2>8 DEF EveillerPremier
  <2>12. Epargne(r, k)
    BY <2>7, <2>9, DeplaceEpargne DEF Suspendus, Finis
  <2>13. QED
    BY <2>9, <2>10, <2>11, <2>12
<1>3. QED
  BY <1>1, <1>2

(* g is the sequence of the tables that the scan of the sleepers goes      *)
(* through in n wake-ups.                                                  *)
EstParcours(g, k, t, n) ==
  g = [m \in 0..n |-> IF m = 0 THEN k ELSE EveillerPremier(g[m-1], t)]

(* There is one: the recursion that defines EveillerEchus has a solution.  *)
LEMMA ParcoursExiste ==
  ASSUME NEW k, NEW t, NEW n \in Nat
  PROVE  \E g : EstParcours(g, k, t, n)
<1> DEFINE T == {x \in Nat : ~ \E g : EstParcours(g, k, t, x)}
<1>1. SUFFICES ASSUME T # {} PROVE FALSE
  OBVIOUS
<1>2. PICK x \in T : \A y \in T : x <= y
  BY <1>1, PlusPetit
<1>3. CASE x = 0
  <2>1. PICK g : g = [m \in 0..0 |-> k]
    OBVIOUS
  <2>2. [m \in 0..0 |-> IF m = 0 THEN k ELSE EveillerPremier(g[m-1], t)] = [m \in 0..0 |-> k]
    OBVIOUS
  <2>3. EstParcours(g, k, t, 0)
    BY <2>1, <2>2 DEF EstParcours
  <2>4. QED
    BY <1>2, <1>3, <2>3
<1>4. CASE x # 0
  <2>1. x \in Nat /\ x-1 \in Nat /\ x-1 \notin T
    BY <1>2, <1>4
  <2>2. PICK g : EstParcours(g, k, t, x-1)
    BY <2>1
  <2>3. \A m \in 0..x-1 : g[m] = IF m = 0 THEN k ELSE EveillerPremier(g[m-1], t)
    BY <2>2 DEF EstParcours
  <2>4. PICK h : h = [m \in 0..x |-> IF m = x THEN EveillerPremier(g[x-1], t) ELSE g[m]]
    OBVIOUS
  <2>5. ASSUME NEW m \in 0..x
        PROVE  h[m] = IF m = 0 THEN k ELSE EveillerPremier(h[m-1], t)
    <3>1. CASE m = x
      <4>1. h[m] = EveillerPremier(g[x-1], t) /\ h[x-1] = g[x-1] /\ m # 0
        BY <1>4, <2>1, <2>4, <3>1
      <4>2. QED
        BY <3>1, <4>1
    <3>2. CASE m # x /\ m # 0
      <4>1. m \in 0..x-1 /\ m-1 \in 0..x /\ m-1 # x
        BY <2>1, <3>2
      <4>2. h[m] = g[m] /\ h[m-1] = g[m-1]
        BY <2>4, <3>2, <4>1
      <4>3. g[m] = EveillerPremier(g[m-1], t)
        BY <2>3, <3>2, <4>1
      <4>4. QED
        BY <3>2, <4>2, <4>3
    <3>3. CASE m = 0
      <4>1. 0 \in 0..x-1 /\ 0 # x
        BY <1>4, <2>1
      <4>2. h[0] = g[0] /\ g[0] = k
        BY <2>3, <2>4, <4>1, <3>3
      <4>3. QED
        BY <3>3, <4>2
    <3>4. QED
      BY <3>1, <3>2, <3>3
  <2>6. h = [m \in 0..x |-> IF m = 0 THEN k ELSE EveillerPremier(h[m-1], t)]
    <3>1. h = [m \in 0..x |-> h[m]]
      BY <2>4
    <3>2. [m \in 0..x |-> h[m]] = [m \in 0..x |-> IF m = 0 THEN k ELSE EveillerPremier(h[m-1], t)]
      BY <2>5, Zenon
    <3>3. QED
      BY <3>1, <3>2, Zenon
  <2>7. EstParcours(h, k, t, x)
    BY <2>6 DEF EstParcours
  <2>8. QED
    BY <1>2, <2>7
<1>5. QED
  BY <1>3, <1>4

(* The scan of the sleepers by tic_PIT. *)
LEMMA EveillerEchusProp ==
  ASSUME NEW k, Sain(k), NEW t
  PROVE  /\ Sain(EveillerEchus(k, t)) /\ Libere(EveillerEchus(k, t), k)
         /\ Epargne(EveillerEchus(k, t), k)
<1>1. PICK n : n = Len(k.endormis)
  OBVIOUS
<1>2. n \in Nat
  BY <1>1, LenProperties DEF Sain, TypeNoyau
<1>3. PICK g : g = CHOOSE h : EstParcours(h, k, t, n)
  OBVIOUS
<1>4. EstParcours(g, k, t, n)
  BY <1>2, <1>3, ParcoursExiste
<1>5. EveillerEchus(k, t) = g[n]
  BY <1>1, <1>3 DEF EveillerEchus, EstParcours
<1>6. \A m \in 0..n : g[m] = IF m = 0 THEN k ELSE EveillerPremier(g[m-1], t)
  BY <1>4 DEF EstParcours
<1>7. ASSUME NEW m \in 0..n, ~(Sain(g[m]) /\ Libere(g[m], k) /\ Epargne(g[m], k))
      PROVE  FALSE
  <2> DEFINE T == {x \in 0..n : ~(Sain(g[x]) /\ Libere(g[x], k) /\ Epargne(g[x], k))}
  <2>1. T \in SUBSET Nat /\ T # {}
    BY <1>2, <1>7
  <2>2. PICK x \in T : \A y \in T : x <= y
    BY <2>1, PlusPetit
  <2>3. CASE x = 0
    <3>1. g[0] = k
      BY <1>2, <1>6
    <3>2. Libere(k, k) /\ Epargne(k, k)
      BY DEF Libere, Epargne
    <3>3. QED
      BY <2>2, <2>3, <3>1, <3>2
  <2>4. CASE x # 0
    <3>1. x-1 \in 0..n /\ x-1 \notin T
      BY <1>2, <2>2, <2>4
    <3>2. PICK a : a = g[x-1]
      OBVIOUS
    <3>3. Sain(a) /\ Libere(a, k) /\ Epargne(a, k)
      BY <3>1, <3>2
    <3>4. g[x] = EveillerPremier(a, t)
      BY <1>6, <2>2, <2>4, <3>2
    <3>5. Sain(g[x]) /\ Libere(g[x], a) /\ Epargne(g[x], a)
      BY <3>3, <3>4, EveillerPremierProp
    <3>6. Libere(g[x], k)
      BY <3>3, <3>5 DEF Libere
    <3>7. Epargne(g[x], k)
      BY <3>3, <3>5, EpargneTransitif
    <3>8. QED
      BY <2>2, <3>5, <3>6, <3>7
  <2>5. QED
    BY <2>3, <2>4
<1>8. n \in 0..n
  BY <1>2
<1>9. QED
  BY <1>5, <1>7, <1>8

-----------------------------------------------------------------------------
(* The steps of module Processus.                                          *)

(* Module Messages wakes processes without ordonnancer, so that Prioritaire *)
(* may be lost there until the next call: what does not need it is proved  *)
(* from IStable alone.                                                     *)
IStable == Stable(noyau) /\ horloge \in Instants

IInv == Ordonne(noyau) /\ horloge \in Instants

(* From k to r the table stays sound, whoever waits for a message or a     *)
(* line goes on waiting or ends, and nobody starts waiting for one.        *)
Poursuit(r, k) ==
  /\ Stable(r)
  /\ Prioritaire(k) => Prioritaire(r)
  /\ \A x \in PID : k.etat[x] \in Suspendus \/ r.etat[x] \in Suspendus
                     => r.etat[x] = k.etat[x] \/ r.etat[x] \in Finis

LEMMA EpargnePoursuit ==
  ASSUME NEW k, NEW r, Stable(r), Epargne(r, k), Prioritaire(k) => Prioritaire(r)
  PROVE  Poursuit(r, k)
  BY DEF Poursuit, Epargne

(* The arithmetic of the clock. *)
LEMMA InstantsProp ==
  ASSUME NEW h \in Nat
  PROVE  h % MODULO \in Instants
  BY ModuloAssumption DEF Instants

-----------------------------------------------------------------------------
(* idle_shell starts: the table is sound and has room for the shell. *)
LEMMA OisifDemarre ==
  ASSUME NEW m, m = Demarrer(NoyauVide, 0)
  PROVE  /\ Ordonne(m) /\ PidsLibres(m) # {}
         /\ \E p \in PID : \E n : EstNe(n, NoyauVide, p) /\ MemesFils(m, n)
<1>1. PICK k : k = NoyauVide
  OBVIOUS
<1>2. Sain(k) /\ AuPlusUnActif(k) /\ PidsLibres(k) = PID /\ k.pid_actif = AUCUN
  BY <1>1, NoyauVideProp
<1>3. PID # {} /\ \E x, y \in PID : x # y
  <2>1. 0 \in PID /\ 1 \in PID
    BY NbprocAssumption DEF PID
  <2>2. QED
    BY <2>1
<1>4. PICK p : p = Min(PidsLibres(k))
  OBVIOUS
<1>5. /\ Ordonne(m) /\ p \in PID
      /\ \A x \in PID : x # p /\ k.etat[x] = "MORT" => m.etat[x] = "MORT"
      /\ \E n : EstNe(n, k, p) /\ MemesFils(m, n)
  BY <1>1, <1>2, <1>3, <1>4, DemarrerProp
<1>6. PidsLibres(m) # {}
  <2>1. \A x \in PID : k.etat[x] = "MORT"
    BY <1>2 DEF PidsLibres
  <2>2. PICK x \in PID : x # p
    BY <1>3
  <2>3. QED
    BY <1>5, <2>1, <2>2 DEF PidsLibres
<1>7. QED
  BY <1>1, <1>5, <1>6

(* A table in which start may be called by the active process. *)
LEMMA DemarrerOrdonne ==
  ASSUME NEW k, Stable(k), PidsLibres(k) # {}, NEW prio \in Int
  PROVE  /\ Ordonne(Demarrer(k, prio))
         /\ \E p \in PID : \E m : /\ k.etat[p] = "MORT"
                                  /\ EstNe(m, k, p) /\ MemesFils(Demarrer(k, prio), m)
<1>1. PICK p : p = Min(PidsLibres(k))
  OBVIOUS
<1>2. /\ Sain(k) /\ AuPlusUnActif(k) /\ OisifDisponible(k)
      /\ k.pid_actif # AUCUN => k.etat[k.pid_actif] # "MORT"
  BY ActifProp DEF Stable
<1>3. /\ Ordonne(Demarrer(k, prio)) /\ p \in PidsLibres(k)
      /\ \E m : EstNe(m, k, p) /\ MemesFils(Demarrer(k, prio), m)
  BY <1>1, <1>2, DemarrerProp
<1>4. QED
  BY <1>3 DEF PidsLibres

(* The slot that start takes was free. *)
LEMMA DemarrerPoursuit ==
  ASSUME NEW k, Stable(k), PidsLibres(k) # {}, NEW prio \in Int,
         NEW r, r = Demarrer(k, prio)
  PROVE  Poursuit(r, k)
<1>1. Ordonne(r)
  BY DemarrerOrdonne
<1>2. PICK p \in PID : \E m : k.etat[p] = "MORT" /\ EstNe(m, k, p) /\ MemesFils(r, m)
  BY DemarrerOrdonne
<1>3. PICK m : k.etat[p] = "MORT" /\ EstNe(m, k, p) /\ MemesFils(r, m)
  BY <1>2
<1>4. m.etat[p] = "ACTIVABLE" /\ \A x \in PID : x # p => m.etat[x] = k.etat[x]
  BY <1>3 DEF EstNe
<1>5. \A x \in PID : r.etat[x] # m.etat[x] => /\ r.etat[x] \in {"ACTIF", "ACTIVABLE"}
                                                /\ m.etat[x] \in {"ACTIF", "ACTIVABLE"}
  BY <1>3 DEF MemesFils
<1>6. QED
  BY <1>1, <1>3, <1>4, <1>5 DEF Poursuit, Ordonne, Suspendus

(* Then the shell starts. *)
LEMMA InitOrdonne == Ordonne(Demarrer(Demarrer(NoyauVide, 0), 1))
  BY OisifDemarre, DemarrerOrdonne DEF Ordonne

LEMMA InitIInv == Init => IInv
<1>1. 0 \in Instants
  BY ModuloAssumption DEF Instants
<1>2. QED
  BY <1>1, InitOrdonne DEF Init, IInv

(* At the start nobody waits for a message nor for a line. *)
LEMMA InitPersonne ==
  ASSUME Init, NEW p \in PID
  PROVE  noyau.etat[p] \notin Suspendus
<1>1. PICK m : m = Demarrer(NoyauVide, 0)
  OBVIOUS
<1>2. /\ Ordonne(m) /\ PidsLibres(m) # {}
      /\ \E x \in PID : \E n : EstNe(n, NoyauVide, x) /\ MemesFils(m, n)
  BY <1>1, OisifDemarre
<1>3. PICK x \in PID : \E n : EstNe(n, NoyauVide, x) /\ MemesFils(m, n)
  BY <1>2
<1>4. PICK n : EstNe(n, NoyauVide, x) /\ MemesFils(m, n)
  BY <1>3
<1>5. NoyauVide.etat[p] = "MORT"
  BY DEF NoyauVide
<1>6. n.etat[x] = "ACTIVABLE" /\ (p # x => n.etat[p] = NoyauVide.etat[p])
  BY <1>4 DEF EstNe
<1>7. n.etat[p] \notin Suspendus
  BY <1>5, <1>6 DEF Suspendus
<1>8. m.etat[p] \notin Suspendus
  BY <1>4, <1>7 DEF MemesFils, Suspendus
<1>9. Poursuit(noyau, m)
  BY <1>1, <1>2, DemarrerPoursuit DEF Init, Ordonne
<1>10. QED
  BY <1>8, <1>9 DEF Poursuit, Suspendus, Finis

-----------------------------------------------------------------------------
(* waitpid destroys a zombie child. *)
LEMMA RecolterProp ==
  ASSUME NEW k, Stable(k), NEW c \in PID, k.etat[c] = "ZOMBIE"
  PROVE  Ordonne(Recolter(k, c)) /\ Epargne(Recolter(k, c), k)
<1>1. PICK r : r = Detruire(k, c)
  OBVIOUS
<1>2. Sain(r) /\ Libere(r, k) /\ Epargne(r, k)
  BY <1>1, DetruireZombie DEF Stable
<1>3. AuPlusUnActif(r) /\ OisifDisponible(r)
  BY <1>2, ActifProp, LibereProp DEF Stable, Libere
<1>4. Ordonne(Ordonnancer(r)) /\ MemesFils(Ordonnancer(r), r)
  BY <1>2, <1>3, OrdonnancerProp
<1>5. Epargne(Ordonnancer(r), k)
  BY <1>2, <1>4, MemesFilsEpargne, EpargneTransitif
<1>6. QED
  BY <1>1, <1>4, <1>5 DEF Recolter

(* waitpid suspends its caller, a program. *)
LEMMA AttendreFilsProp ==
  ASSUME NEW k, Stable(k), k.pid_actif # 0, NEW quoi \in PID \cup {-2}
  PROVE  Ordonne(AttendreFils(k, quoi)) /\ Epargne(AttendreFils(k, quoi), k)
<1>1. PICK a : a = k.pid_actif
  OBVIOUS
<1>2. a \in PID /\ k.etat[a] = "ACTIF" /\ AuPlusUnActif(k) /\ Sain(k) /\ OisifDisponible(k)
  BY <1>1, ActifProp DEF Stable
<1>3. PICK at : at = [k.attend_fils EXCEPT ![a] = quoi]
  OBVIOUS
<1>4. PICK su : su = [k.suite EXCEPT ![a] = "waitpid"]
  OBVIOUS
<1>5. k \in TypeNoyau
  BY <1>2 DEF Sain
<1>6. at \in [PID -> -2..NBPROC-1]
  <2>1. quoi \in -2..NBPROC-1
    BY NbprocAssumption DEF PID
  <2>2. k.attend_fils \in [PID -> -2..NBPROC-1]
    BY <1>5 DEF TypeNoyau
  <2>3. QED
    BY <1>2, <1>3, <2>1, <2>2
<1>7. su \in [PID -> Suites]
  BY <1>2, <1>4, <1>5 DEF TypeNoyau, Suites
<1>8. PICK m : m = [k EXCEPT !.attend_fils = at, !.suite = su]
  OBVIOUS
<1>9. /\ m \in TypeNoyau
      /\ m.etat = k.etat /\ m.prio = k.prio /\ m.pere = k.pere /\ m.fils = k.fils
      /\ m.activables = k.activables /\ m.endormis = k.endormis
      /\ m.pid_actif = k.pid_actif
  BY <1>5, <1>6, <1>7, <1>8 DEF TypeNoyau
<1>10. Stable(m) /\ Epargne(m, k)
  BY <1>9, ChampsStables
<1>11. PICK r : r = Bloquer(m, a, "BLOQUE_SUR_ATTENTE_D_UN_FILS")
  OBVIOUS
<1>12. /\ Sain(r) /\ EstDeplace(r, m, a, "BLOQUE_SUR_ATTENTE_D_UN_FILS")
       /\ r.pid_actif = m.pid_actif
  BY <1>2, <1>9, <1>10, <1>11, BloquerProp DEF Stable, SansFile, Etats
<1>13. Libere(r, m)
  BY <1>1, <1>2, <1>10, <1>12, DeplaceLibere DEF Stable
<1>14. AuPlusUnActif(r) /\ OisifDisponible(r)
  BY <1>10, <1>13, ActifProp, LibereProp DEF Stable, Libere
<1>15. AttendreFils(k, quoi) = Ordonnancer(r)
  BY <1>1, <1>3, <1>4, <1>8, <1>11 DEF AttendreFils
<1>16. Epargne(r, m)
  BY <1>2, <1>9, <1>10, <1>12, DeplaceEpargne DEF Stable, Suspendus, Finis
<1>17. Ordonne(Ordonnancer(r)) /\ MemesFils(Ordonnancer(r), r)
  BY <1>12, <1>14, OrdonnancerProp
<1>18. Epargne(Ordonnancer(r), k)
  BY <1>10, <1>16, <1>17, MemesFilsEpargne, EpargneTransitif
<1>19. QED
  BY <1>15, <1>17, <1>18

(* chprio re-sorts the run queue when the process it changes is there.     *)
LEMMA ChprioStep ==
  ASSUME IStable, NEW pid \in PID, NEW newprio \in PRIOS, Chprio(pid, newprio)
  PROVE  /\ Ordonne(noyau')
         /\ MemesFils(noyau', [noyau EXCEPT !.prio = noyau'.prio])
<1>1. PICK k : k = noyau
  OBVIOUS
<1>2. /\ Sain(k) /\ OisifDisponible(k) /\ UnSeulActif(k)
      /\ AuPlusUnActif(k) /\ k.pid_actif \in PID /\ k.etat[k.pid_actif] = "ACTIF"
  BY <1>1, ActifProp DEF IStable, Stable
<1>3. /\ k \in TypeNoyau /\ FilesCoherentes(k) /\ Triee(k.activables, k.prio)
      /\ k.prio \in [PID -> Int] /\ k.activables \in Seq(PID)
  BY <1>2 DEF Sain, TypeNoyau
<1>4. PICK pr : pr = [k.prio EXCEPT ![pid] = newprio]
  OBVIOUS
<1>5. pr \in [PID -> Int] /\ \A x \in PID : x # pid => pr[x] = k.prio[x]
  BY <1>3, <1>4, PriosAssumption
<1>6. PICK a : a = IF k.etat[pid] = "ACTIVABLE"
                   THEN queue_add(queue_del(k.activables, pid), pid, pr)
                   ELSE k.activables
  OBVIOUS
<1>7. PICK m : m = [k EXCEPT !.prio = pr, !.activables = a]
  OBVIOUS
<1>8. a \in Seq(PID) /\ SansDoublon(a) /\ Range(a) = Range(k.activables) /\ Triee(a, pr)
  <2>1. SansDoublon(k.activables) /\ (pid \in Range(k.activables) <=> k.etat[pid] = "ACTIVABLE")
    BY <1>3 DEF FilesCoherentes
  <2>2. CASE k.etat[pid] = "ACTIVABLE"
    <3>1. PICK d : d = queue_del(k.activables, pid)
      OBVIOUS
    <3>2. /\ d \in Seq(PID) /\ SansDoublon(d) /\ Triee(d, k.prio)
          /\ Range(d) = Range(k.activables) \ {pid}
      BY <1>3, <2>1, <2>2, <3>1, SuppressionProp
    <3>3. \A i \in 1..Len(d) : d[i] \in PID /\ d[i] # pid
      BY <3>2, LenProperties, ElementOfSeq DEF Range
    <3>4. Triee(d, pr)
      BY <1>5, <3>2, <3>3 DEF Triee
    <3>5. a = queue_add(d, pid, pr)
      BY <1>6, <2>2, <3>1
    <3>6. a \in Seq(PID) /\ SansDoublon(a) /\ Range(a) = Range(d) \cup {pid}
      BY <1>5, <3>2, <3>5, AjoutElements
    <3>7. Triee(a, pr)
      BY <1>5, <3>2, <3>4, <3>5, AjoutTriee
    <3>8. QED
      BY <2>1, <2>2, <3>2, <3>6, <3>7
  <2>3. CASE k.etat[pid] # "ACTIVABLE"
    <3>1. a = k.activables
      BY <1>6, <2>3
    <3>2. \A i \in 1..Len(a) : a[i] \in PID /\ a[i] # pid
      BY <1>3, <2>1, <2>3, <3>1, LenProperties, ElementOfSeq DEF Range
    <3>3. Triee(a, pr)
      BY <1>3, <1>5, <3>1, <3>2 DEF Triee
    <3>4. QED
      BY <1>3, <2>1, <3>1, <3>3
  <2>4. QED
    BY <2>2, <2>3
<1>9. /\ m \in TypeNoyau
      /\ m.prio = pr /\ m.activables = a /\ m.etat = k.etat /\ m.pere = k.pere
      /\ m.fils = k.fils /\ m.endormis = k.endormis /\ m.pid_actif = k.pid_actif
  BY <1>3, <1>5, <1>7, <1>8 DEF TypeNoyau
<1>10. Sain(m)
  <2>1. FilesCoherentes(m)
    BY <1>3, <1>8, <1>9 DEF FilesCoherentes
  <2>2. PICK n : n = [k EXCEPT !.prio = pr, !.activables = << >>, !.endormis = << >>]
    OBVIOUS
  <2>3. ListesEtPeres(k) /\ SansCycle(k)
    BY <1>2 DEF Sain, FiliationCoherente
  <2>4. ASSUME NEW x \in PID
        PROVE  {c \in PID : m.etat[c] # "MORT" /\ m.pere[c] = x}
                 = {c \in PID : k.etat[c] # "MORT" /\ k.pere[c] = x}
    BY <1>9
  <2>5. ListesEtPeres(m)
    BY <1>9, <2>3, <2>4 DEF ListesEtPeres
  <2>6. SansCycle(m)
    BY <1>9, <2>3, Zenon DEF SansCycle
  <2>7. QED
    BY <1>8, <1>9, <2>1, <2>5, <2>6 DEF Sain, FiliationCoherente
<1>11. OisifDisponible(m) /\ AuPlusUnActif(m) /\ UnSeulActif(m)
  BY <1>2, <1>9 DEF OisifDisponible, AuPlusUnActif, UnSeulActif
<1>12. Ordonne(Ordonnancer(m))
  BY <1>10, <1>11, OrdonnancerProp
<1>13. noyau' = IF ~queue_empty(a) /\ pr[queue_top(a)] > pr[k.pid_actif]
                THEN Ordonnancer(m) ELSE m
  BY <1>1, <1>4, <1>6, <1>7, <1>9 DEF Chprio, actif
<1>14. ASSUME ~queue_empty(a) /\ pr[queue_top(a)] > pr[k.pid_actif]
       PROVE  Ordonne(noyau')
  BY <1>12, <1>13, <1>14
<1>15. ASSUME ~(~queue_empty(a) /\ pr[queue_top(a)] > pr[k.pid_actif])
       PROVE  Ordonne(noyau')
  <2>1. ASSUME NEW x \in Range(a)
        PROVE  pr[x] <= pr[k.pid_actif]
    <3>1. x \in PID
      BY <1>3, <1>8, <2>1 DEF FilesCoherentes
    <3>2. ~queue_empty(a)
      BY <2>1 DEF queue_empty, Range
    <3>3. pr[x] <= pr[queue_top(a)] /\ queue_top(a) \in PID
      <4>1. pr[x] <= pr[queue_top(a)]
        BY <1>5, <1>8, SommetMax
      <4>2. queue_top(a) \in Range(a)
        BY <1>8, <3>2, SortieProp
      <4>3. QED
        BY <1>3, <1>8, <4>1, <4>2 DEF FilesCoherentes
    <3>4. ~(pr[queue_top(a)] > pr[k.pid_actif])
      BY <1>15, <3>2
    <3>5. pr[x] \in Int /\ pr[queue_top(a)] \in Int /\ pr[k.pid_actif] \in Int
      BY <1>2, <1>5, <3>1, <3>3
    <3>6. QED
      BY <3>3, <3>4, <3>5
  <2>2. Prioritaire(m)
    BY <1>9, <2>1 DEF Prioritaire
  <2>3. noyau' = m
    BY <1>13, <1>15
  <2>4. QED
    BY <1>10, <1>11, <2>2, <2>3 DEF Ordonne, Stable
<1>16. Ordonne(noyau')
  BY <1>14, <1>15
<1>17. MemesFils(noyau', [noyau EXCEPT !.prio = noyau'.prio])
  <2>1. MemesFils(Ordonnancer(m), m)
    BY <1>10, <1>11, OrdonnancerProp
  <2>2. MemesFils(noyau', m)
    BY <1>13, <2>1 DEF MemesFils
  <2>3. m.attend_fils = k.attend_fils /\ m.suite = k.suite /\ m.panne = k.panne
    BY <1>3, <1>7 DEF TypeNoyau
  <2>4. PICK n : n = [k EXCEPT !.prio = noyau'.prio]
    OBVIOUS
  <2>5. /\ n.prio = noyau'.prio /\ n.pere = k.pere /\ n.fils = k.fils /\ n.etat = k.etat
        /\ n.attend_fils = k.attend_fils /\ n.suite = k.suite /\ n.panne = k.panne
    BY <1>3, <2>4 DEF TypeNoyau
  <2>6. QED
    BY <1>1, <1>9, <2>2, <2>3, <2>4, <2>5 DEF MemesFils
<1>18. QED
  BY <1>16, <1>17

(* The active process goes on with the call that suspended it.             *)
LEMMA RepriseStep ==
  ASSUME IStable, Reprise
  PROVE  /\ Stable(noyau') /\ Epargne(noyau', noyau)
         /\ Prioritaire(noyau) => Prioritaire(noyau')
<1>1. PICK n : n = noyau
  OBVIOUS
<1>2. PICK a : a = n.pid_actif
  OBVIOUS
<1>3. /\ Stable(n) /\ n \in TypeNoyau /\ a \in PID /\ a # 0 /\ n.etat[a] = "ACTIF"
  BY <1>1, <1>2, ActifProp DEF IStable, Stable, Sain, Reprise, actif
<1>4. PICK su : su = [n.suite EXCEPT ![a] = "rien"]
  OBVIOUS
<1>5. PICK at : at = [n.attend_fils EXCEPT ![a] = -1]
  OBVIOUS
<1>6. PICK k : k = [n EXCEPT !.suite = su]
  OBVIOUS
<1>7. PICK w : w = [k EXCEPT !.attend_fils = at]
  OBVIOUS
<1>8. su \in [PID -> Suites] /\ at \in [PID -> -2..NBPROC-1]
  <2>1. -1 \in -2..NBPROC-1
    BY NbprocAssumption
  <2>2. QED
    BY <1>3, <1>4, <1>5, <2>1 DEF TypeNoyau, Suites
<1>9. /\ k \in TypeNoyau
      /\ k.etat = n.etat /\ k.prio = n.prio /\ k.pere = n.pere /\ k.fils = n.fils
      /\ k.activables = n.activables /\ k.endormis = n.endormis
      /\ k.pid_actif = n.pid_actif /\ k.attend_fils = n.attend_fils
  BY <1>3, <1>6, <1>8 DEF TypeNoyau
<1>10. /\ w \in TypeNoyau
       /\ w.etat = n.etat /\ w.prio = n.prio /\ w.pere = n.pere /\ w.fils = n.fils
       /\ w.activables = n.activables /\ w.endormis = n.endormis
       /\ w.pid_actif = n.pid_actif
  BY <1>7, <1>8, <1>9 DEF TypeNoyau
<1>11. /\ Stable(k) /\ Epargne(k, n) /\ Stable(w) /\ Epargne(w, n)
       /\ Prioritaire(n) => Prioritaire(k)
  BY <1>3, <1>9, <1>10, ChampsStables
<1>12. PICK c : c = n.attend_fils[a]
  OBVIOUS
<1>13. PICK t : t = (horloge + DELAI) % MODULO
  OBVIOUS
<1>14. t \in Nat
  <2>1. horloge + DELAI \in Nat
    BY ModuloAssumption DEF IStable, Instants
  <2>2. t \in Instants
    BY <1>13, <2>1, InstantsProp
  <2>3. QED
    BY <2>2, ModuloAssumption DEF Instants
<1>15. noyau' = IF n.suite[a] = "condamne" THEN TerminaisonProcessus(k, a)
                ELSE IF c \in PID /\ n.etat[c] = "ZOMBIE" THEN Recolter(w, c)
                ELSE EchecConfirme(w, t)
  BY <1>1, <1>2, <1>4, <1>5, <1>6, <1>7, <1>9, <1>12, <1>13 DEF Reprise, actif
<1>16. PICK r : r = noyau'
  OBVIOUS
<1>17. CASE n.suite[a] = "condamne"
  <2>1. r = TerminaisonProcessus(k, a)
    BY <1>15, <1>16, <1>17
  <2>2. Stable(r) /\ Epargne(r, k) /\ (Prioritaire(k) => Prioritaire(r))
    BY <1>3, <1>9, <1>11, <2>1, TerminaisonProp
  <2>3. Epargne(r, n)
    BY <1>11, <2>2, EpargneTransitif
  <2>4. QED
    BY <1>1, <1>11, <1>16, <2>2, <2>3
<1>18. CASE n.suite[a] # "condamne"
  <2>1. \/ c \in PID /\ n.etat[c] = "ZOMBIE" /\ r = Recolter(w, c)
        \/ r = EchecConfirme(w, t)
    BY <1>15, <1>16, <1>18
  <2>2. Ordonne(r) /\ Epargne(r, w)
    BY <1>2, <1>3, <1>10, <1>11, <1>14, <2>1, RecolterProp, EchecConfirmeProp
  <2>3. Epargne(r, n)
    BY <1>11, <2>2, EpargneTransitif
  <2>4. QED
    BY <1>1, <1>16, <2>2, <2>3 DEF Ordonne
<1>19. QED
  BY <1>17, <1>18

(* The clock interrupt. *)
LEMMA TicStep ==
  ASSUME IStable, Tic
  PROVE  Ordonne(noyau') /\ horloge' \in Instants /\ Epargne(noyau', noyau)
<1>1. PICK k : k = EveillerEchus(noyau, horloge')
  OBVIOUS
<1>2. Sain(k) /\ Libere(k, noyau) /\ Epargne(k, noyau)
  BY <1>1, EveillerEchusProp DEF IStable, Stable
<1>3. AuPlusUnActif(k) /\ OisifDisponible(k)
  BY <1>2, ActifProp, LibereProp DEF IStable, Stable, Libere
<1>4. Ordonne(noyau') /\ MemesFils(noyau', k)
  BY <1>1, <1>2, <1>3, OrdonnancerProp DEF Tic
<1>5. Epargne(noyau', noyau)
  BY <1>2, <1>4, MemesFilsEpargne, EpargneTransitif
<1>6. horloge + 1 \in Nat
  BY ModuloAssumption DEF IStable, Instants
<1>7. QED
  BY <1>4, <1>5, <1>6, InstantsProp DEF Tic, HorlogeAvance

(* waitpid for any child. *)
LEMMA WaitpidQuelconqueStep ==
  ASSUME IStable, WaitpidQuelconque
  PROVE  Ordonne(noyau') /\ Epargne(noyau', noyau)
<1>1. Stable(noyau) /\ Sain(noyau) /\ actif \in PID /\ noyau.pid_actif # 0
  BY ActifProp DEF IStable, Stable, actif, WaitpidQuelconque, Programme
<1>2. CASE Zombies(noyau, actif) # {}
  <2>1. noyau' = Recolter(noyau, PremierZombie(noyau, actif))
    BY <1>2 DEF WaitpidQuelconque
  <2>2. /\ PremierZombie(noyau, actif) \in PID
        /\ noyau.etat[PremierZombie(noyau, actif)] = "ZOMBIE"
    BY <1>1, <1>2, PremierZombieProp
  <2>3. QED
    BY <1>1, <2>1, <2>2, RecolterProp
<1>3. CASE Zombies(noyau, actif) = {}
  <2>1. noyau' = AttendreFils(noyau, -2)
    BY <1>3 DEF WaitpidQuelconque
  <2>2. QED
    BY <1>1, <2>1, AttendreFilsProp
<1>4. QED
  BY <1>2, <1>3

(* waitpid for one process. *)
LEMMA WaitpidPrecisStep ==
  ASSUME IStable, NEW pid \in PID, WaitpidPrecis(pid), (horloge + DELAI) % MODULO \in Nat
  PROVE  Ordonne(noyau') /\ Epargne(noyau', noyau)
<1>1. Stable(noyau) /\ noyau.pid_actif # 0
  BY DEF IStable, actif, WaitpidPrecis, Programme
<1>2. \/ noyau' = EchecConfirme(noyau, (horloge + DELAI) % MODULO)
      \/ noyau.etat[pid] = "ZOMBIE" /\ noyau' = Recolter(noyau, pid)
      \/ noyau' = AttendreFils(noyau, pid)
  BY DEF WaitpidPrecis
<1>3. QED
  BY <1>1, <1>2, EchecConfirmeProp, AttendreFilsProp, RecolterProp

-----------------------------------------------------------------------------
(* Every step of the process manager. *)
LEMMA PasStable ==
  ASSUME IStable, Next
  PROVE  IStable' /\ Poursuit(noyau', noyau)
<1>1. /\ Stable(noyau) /\ horloge \in Instants
      /\ actif \in PID /\ noyau.etat[actif] = "ACTIF"
  BY ActifProp DEF IStable, actif
<1>2. Programme => actif # 0 /\ noyau.pid_actif # 0
  BY DEF Programme, actif
<1>3. (horloge + DELAI) % MODULO \in Nat
  <2>1. horloge + DELAI \in Nat
    BY <1>1, ModuloAssumption DEF Instants
  <2>2. QED
    BY <2>1, InstantsProp, ModuloAssumption DEF Instants
<1>4. ASSUME Ordonne(noyau'), Epargne(noyau', noyau), UNCHANGED horloge
      PROVE  IStable' /\ Poursuit(noyau', noyau)
  BY <1>1, <1>4, EpargnePoursuit DEF Ordonne, IStable
<1>5. ASSUME NEW prio \in PRIOS, Start(prio)
      PROVE  IStable' /\ Poursuit(noyau', noyau)
  <2>1. Poursuit(noyau', noyau)
    BY <1>1, <1>5, PriosAssumption, DemarrerPoursuit DEF Start
  <2>2. QED
    BY <1>1, <1>5, <2>1 DEF Start, IStable, Poursuit
<1>6. CASE StartInconnu
  BY <1>1, <1>2, <1>3, <1>4, <1>6, WaitClockProp DEF StartInconnu
<1>7. ASSUME NEW pid \in PID, Kill(pid)
      PROVE  IStable' /\ Poursuit(noyau', noyau)
  BY <1>1, <1>7, TerminaisonProp, EpargnePoursuit DEF Kill, IStable
<1>8. CASE Exit
  BY <1>1, <1>2, <1>8, TerminaisonProp, EpargnePoursuit DEF Exit, IStable
<1>9. CASE WaitpidQuelconque
  BY <1>4, <1>9, WaitpidQuelconqueStep DEF WaitpidQuelconque
<1>10. ASSUME NEW pid \in PID, WaitpidPrecis(pid)
       PROVE  IStable' /\ Poursuit(noyau', noyau)
  BY <1>3, <1>4, <1>10, WaitpidPrecisStep DEF WaitpidPrecis
<1>11. ASSUME NEW pid \in PID, NEW newprio \in PRIOS, Chprio(pid, newprio)
       PROVE  IStable' /\ Poursuit(noyau', noyau)
  <2>1. PICK m : m = [noyau EXCEPT !.prio = noyau'.prio]
    OBVIOUS
  <2>2. m.etat = noyau.etat
    BY <1>1, <2>1 DEF Stable, Sain, TypeNoyau
  <2>3. Ordonne(noyau') /\ Epargne(noyau', m)
    BY <1>11, <2>1, ChprioStep, MemesFilsEpargne
  <2>4. Epargne(noyau', noyau)
    BY <2>2, <2>3 DEF Epargne
  <2>5. QED
    BY <1>4, <1>11, <2>3, <2>4 DEF Chprio
<1>12. ASSUME NEW t \in Instants, AttendreHorloge(t)
       PROVE  IStable' /\ Poursuit(noyau', noyau)
  <2>1. t \in Nat
    BY ModuloAssumption DEF Instants
  <2>2. QED
    BY <1>1, <1>2, <1>4, <1>12, <2>1, WaitClockProp DEF AttendreHorloge
<1>13. CASE Reprise
  BY <1>1, <1>13, RepriseStep, EpargnePoursuit DEF Reprise, IStable
<1>14. CASE Tic
  BY <1>14, TicStep, EpargnePoursuit DEF IStable, Ordonne
<1>15. CASE Arret
  BY <1>1, <1>15 DEF Arret, vars, IStable, Poursuit
<1>16. QED
  BY <1>5, <1>6, <1>7, <1>8, <1>9, <1>10, <1>11, <1>12, <1>13, <1>14, <1>15
     DEF Next

LEMMA NextIInv == IInv /\ [Next]_vars => IInv'
<1> SUFFICES ASSUME IInv, [Next]_vars PROVE IInv'
  OBVIOUS
<1>1. IStable /\ Prioritaire(noyau)
  BY DEF IInv, IStable, Ordonne
<1>2. CASE Next
  BY <1>1, <1>2, PasStable DEF Poursuit, IInv, IStable, Ordonne
<1>3. CASE UNCHANGED vars
  BY <1>3 DEF vars, IInv
<1>4. QED
  BY <1>2, <1>3

LEMMA Invariant == Spec => []IInv
<1>1. QED
  BY InitIInv, NextIInv, PTL DEF Spec

(* Every field of the table keeps its type, the clock stays within its     *)
(* modulus.                                                                *)
THEOREM TypeCorrect == Spec => []TypeOK
<1>1. IInv => TypeOK
  BY DEF IInv, Ordonne, Stable, Sain, TypeOK
<1>2. QED
  BY <1>1, Invariant, PTL

(* The queues agree with the states, and one process is active.            *)
THEOREM EtatEtFileCorrect == Spec => []EtatEtFile
<1>1. IInv => EtatEtFile
  BY DEF IInv, Ordonne, Stable, Sain, EtatEtFile
<1>2. QED
  BY <1>1, Invariant, PTL

(* The active process has the highest priority, the run queue is sorted.   *)
THEOREM ActifPrioritaireCorrect == Spec => []ActifPrioritaire
<1>1. IInv => ActifPrioritaire
  BY DEF IInv, Ordonne, Stable, Sain, ActifPrioritaire
<1>2. QED
  BY <1>1, Invariant, PTL

(* Lists of children and pere fields describe one forest.                  *)
THEOREM FiliationCorrect == Spec => []Filiation
<1>1. IInv => Filiation
  BY DEF IInv, Ordonne, Stable, Sain, Filiation
<1>2. QED
  BY <1>1, Invariant, PTL

-----------------------------------------------------------------------------
(* waitpid for any number of slots: no wake-up is lost, a father that was  *)
(* woken finds its zombie, and a zombie waits for its father.              *)

(* What is known of process x in the table k, stated with the pere fields  *)
(* alone: x is blocked for a reason;                                       *)
Patient(k, x) ==
  k.etat[x] = "BLOQUE_SUR_ATTENTE_D_UN_FILS" =>
    /\ k.suite[x] = "waitpid"
    /\ \E c \in PID : k.etat[c] # "MORT" /\ k.pere[c] = x
    /\ \/ k.attend_fils[x] = -2 /\ \A c \in PID : k.pere[c] = x => k.etat[c] # "ZOMBIE"
       \/ /\ k.attend_fils[x] \in PID /\ k.pere[k.attend_fils[x]] = x
          /\ k.etat[k.attend_fils[x]] \notin {"MORT", "ZOMBIE"}

(* x was woken for a reason that lasts;                                    *)
Eveille(k, x) ==
  k.suite[x] = "waitpid" /\ k.etat[x] \in {"ACTIF", "ACTIVABLE"} =>
    /\ k.attend_fils[x] \in PID /\ k.pere[k.attend_fils[x]] = x
    /\ k.etat[k.attend_fils[x]] = "ZOMBIE"

(* nobody asleep in wait_clock is in waitpid, so the clock never wakes a   *)
(* father without its zombie.                                              *)
Dormeur(k, x) == k.etat[x] = "BLOQUE_SUR_SEMAPHORE" => k.suite[x] # "waitpid"

AttenteDe(k, x) == Patient(k, x) /\ Eveille(k, x) /\ Dormeur(k, x)

Attentes(k) == \A x \in PID : AttenteDe(k, x)

(* From k to r a zombie disappears only by the process a, its father, or   *)
(* because its father ended.                                               *)
ZombiesGardes(r, k, a) ==
  \A p \in PID : k.etat[p] = "ZOMBIE" /\ r.etat[p] # "ZOMBIE" =>
    /\ r.etat[p] = "MORT"
    /\ k.pere[p] = a \/ r.etat[k.pere[p]] \in {"ZOMBIE", "MORT"}

Suivi(r, k) == Attentes(r) /\ ZombiesGardes(r, k, k.pid_actif)

(* With the lists of children this is what the property says.              *)
LEMMA AttentesSuffisent ==
  ASSUME NEW k, Sain(k), Attentes(k)
  PROVE  AttenteFondee(k) /\ ReveilFonde(k)
<1>1. k \in TypeNoyau /\ ListesEtPeres(k)
  BY DEF Sain, FiliationCoherente
<1>2. ASSUME NEW p \in PID, k.etat[p] = "BLOQUE_SUR_ATTENTE_D_UN_FILS"
      PROVE  /\ k.suite[p] = "waitpid"
             /\ Range(k.fils[p]) # {}
             /\ \/ k.attend_fils[p] = -2 /\ Zombies(k, p) = {}
                \/ /\ k.attend_fils[p] \in Range(k.fils[p])
                   /\ k.etat[k.attend_fils[p]] # "ZOMBIE"
  <2>1. Range(k.fils[p]) = {c \in PID : k.etat[c] # "MORT" /\ k.pere[c] = p}
    BY <1>1, <1>2 DEF ListesEtPeres
  <2>2. Patient(k, p)
    BY DEF Attentes, AttenteDe
  <2>3. CASE k.attend_fils[p] = -2 /\ \A c \in PID : k.pere[c] = p => k.etat[c] # "ZOMBIE"
    <3>1. k.fils[p] \in Seq(PID)
      BY <1>1 DEF TypeNoyau
    <3>2. \A i \in 1..Len(k.fils[p]) : k.fils[p][i] \in Range(k.fils[p])
      BY <3>1, LenProperties DEF Range
    <3>3. Zombies(k, p) = {}
      BY <2>1, <2>3, <3>2 DEF Zombies
    <3>4. QED
      BY <1>2, <2>1, <2>2, <2>3, <3>3 DEF Patient
  <2>4. CASE /\ k.attend_fils[p] \in PID /\ k.pere[k.attend_fils[p]] = p
             /\ k.etat[k.attend_fils[p]] \notin {"MORT", "ZOMBIE"}
    BY <1>2, <2>1, <2>2, <2>4 DEF Patient
  <2>5. QED
    BY <1>2, <2>2, <2>3, <2>4 DEF Patient
<1>3. ReveilFonde(k)
  BY DEF ReveilFonde, Attentes, AttenteDe, Eveille
<1>4. QED
  BY <1>2, <1>3 DEF AttenteFondee

-----------------------------------------------------------------------------
(* From k to r processes only pass the processor on, or wake up from       *)
(* wait_clock.                                                             *)
Releve(r, k) ==
  /\ r.pere = k.pere /\ r.attend_fils = k.attend_fils /\ r.suite = k.suite
  /\ \A x \in PID : r.etat[x] # k.etat[x] =>
       /\ r.etat[x] \in {"ACTIF", "ACTIVABLE"}
       /\ k.etat[x] \in {"ACTIF", "ACTIVABLE", "BLOQUE_SUR_SEMAPHORE"}

LEMMA MemesFilsReleve ==
  ASSUME NEW k, NEW r, MemesFils(r, k)
  PROVE  Releve(r, k)
  BY DEF MemesFils, Releve

LEMMA ReleveTransitive ==
  ASSUME NEW k, NEW r, NEW s, Releve(r, k), Releve(s, r)
  PROVE  Releve(s, k)
  BY DEF Releve

LEMMA ReleveAttentes ==
  ASSUME NEW k, Attentes(k), NEW r, Releve(r, k)
  PROVE  Attentes(r)
<1>1. ASSUME NEW x \in PID
      PROVE  AttenteDe(r, x)
  <2>1. Patient(k, x) /\ Eveille(k, x) /\ Dormeur(k, x)
    BY DEF Attentes, AttenteDe
  <2>2. /\ \A c \in PID : (r.etat[c] = "ZOMBIE" <=> k.etat[c] = "ZOMBIE")
        /\ \A c \in PID : (r.etat[c] = "MORT" <=> k.etat[c] = "MORT")
    BY DEF Releve
  <2>3. r.pere = k.pere /\ r.attend_fils = k.attend_fils /\ r.suite = k.suite
    BY DEF Releve
  <2>4. Patient(r, x)
    <3>1. SUFFICES ASSUME r.etat[x] = "BLOQUE_SUR_ATTENTE_D_UN_FILS" PROVE Patient(r, x)
      BY DEF Patient
    <3>2. k.etat[x] = "BLOQUE_SUR_ATTENTE_D_UN_FILS"
      BY <3>1 DEF Releve
    <3>3. QED
      BY <2>1, <2>2, <2>3, <3>2 DEF Patient
  <2>5. Eveille(r, x)
    <3>1. SUFFICES ASSUME r.suite[x] = "waitpid", r.etat[x] \in {"ACTIF", "ACTIVABLE"}
                   PROVE  Eveille(r, x)
      BY DEF Eveille
    <3>2. k.etat[x] \in {"ACTIF", "ACTIVABLE"}
      BY <2>1, <2>3, <3>1 DEF Releve, Dormeur
    <3>3. QED
      BY <2>1, <2>2, <2>3, <3>1, <3>2 DEF Eveille
  <2>6. Dormeur(r, x)
    BY <2>1, <2>3 DEF Dormeur, Releve
  <2>7. QED
    BY <2>4, <2>5, <2>6 DEF AttenteDe
<1>2. QED
  BY <1>1 DEF Attentes

LEMMA ReleveZombies ==
  ASSUME NEW k, NEW r, NEW s, NEW a, ZombiesGardes(r, k, a), Releve(s, r),
         k.pere \in [PID -> PID \cup {AUCUN}], \A p \in PID : k.etat[p] = "ZOMBIE" => k.pere[p] # AUCUN
  PROVE  ZombiesGardes(s, k, a)
<1>1. \A x \in PID : /\ s.etat[x] = "ZOMBIE" <=> r.etat[x] = "ZOMBIE"
                     /\ s.etat[x] = "MORT" <=> r.etat[x] = "MORT"
  BY DEF Releve
<1>2. ASSUME NEW p \in PID, k.etat[p] = "ZOMBIE", s.etat[p] # "ZOMBIE"
      PROVE  s.etat[p] = "MORT" /\ (k.pere[p] = a \/ s.etat[k.pere[p]] \in {"ZOMBIE", "MORT"})
  <2>1. r.etat[p] = "MORT" /\ (k.pere[p] = a \/ r.etat[k.pere[p]] \in {"ZOMBIE", "MORT"})
    BY <1>1, <1>2 DEF ZombiesGardes
  <2>2. k.pere[p] \in PID
    BY <1>2
  <2>3. QED
    BY <1>1, <2>1, <2>2
<1>3. QED
  BY <1>2 DEF ZombiesGardes

(* The last call of a system call: ordonnancer.                            *)
LEMMA OrdonnancerSuivi ==
  ASSUME NEW k, Sain(k), NEW r, Sain(r), OisifDisponible(r), AuPlusUnActif(r), Suivi(r, k)
  PROVE  Suivi(Ordonnancer(r), k)
<1>1. PICK s : s = Ordonnancer(r)
  OBVIOUS
<1>2. Releve(s, r)
  BY <1>1, OrdonnancerProp, MemesFilsReleve
<1>3. /\ k.pere \in [PID -> PID \cup {AUCUN}]
      /\ \A p \in PID : k.etat[p] = "ZOMBIE" => k.pere[p] # AUCUN
  BY DEF Sain, TypeNoyau, FiliationCoherente, ListesEtPeres
<1>4. QED
  BY <1>1, <1>2, <1>3, ReleveAttentes, ReleveZombies DEF Suivi

(* Nothing but who runs changes.                                           *)
LEMMA ReleveSuivi ==
  ASSUME NEW k, Attentes(k), NEW r, Releve(r, k)
  PROVE  Suivi(r, k)
<1>1. Attentes(r)
  BY ReleveAttentes
<1>2. ZombiesGardes(r, k, k.pid_actif)
  BY DEF Releve, ZombiesGardes
<1>3. QED
  BY <1>1, <1>2 DEF Suivi

-----------------------------------------------------------------------------
(* p changes state: nothing changes for the others, but for its father if  *)
(* p becomes a zombie.                                                     *)
LEMMA DeplaceAttente ==
  ASSUME NEW k, k \in TypeNoyau, NEW p \in PID, k.etat[p] \notin {"MORT", "ZOMBIE"},
         NEW e, e # "MORT", NEW r, EstDeplace(r, k, p, e),
         NEW x \in PID, x # p, e # "ZOMBIE" \/ x # k.pere[p], AttenteDe(k, x)
  PROVE  AttenteDe(r, x)
<1>1. /\ r.etat[p] = e /\ \A y \in PID : y # p => r.etat[y] = k.etat[y]
      /\ r.pere = k.pere /\ r.attend_fils = k.attend_fils /\ r.suite = k.suite
  BY DEF EstDeplace, TypeNoyau
<1>2. Patient(k, x) /\ Eveille(k, x) /\ Dormeur(k, x) /\ r.etat[x] = k.etat[x]
  BY <1>1 DEF AttenteDe
<1>3. Patient(r, x)
  <2>1. SUFFICES ASSUME r.etat[x] = "BLOQUE_SUR_ATTENTE_D_UN_FILS" PROVE Patient(r, x)
    BY DEF Patient
  <2>2. /\ k.suite[x] = "waitpid"
        /\ \E c \in PID : k.etat[c] # "MORT" /\ k.pere[c] = x
    BY <1>2, <2>1 DEF Patient
  <2>3. \E c \in PID : r.etat[c] # "MORT" /\ r.pere[c] = x
    BY <1>1, <2>2
  <2>4. CASE k.attend_fils[x] = -2 /\ \A c \in PID : k.pere[c] = x => k.etat[c] # "ZOMBIE"
    <3>1. \A c \in PID : r.pere[c] = x => r.etat[c] # "ZOMBIE"
      BY <1>1, <2>4
    <3>2. QED
      BY <1>1, <2>2, <2>3, <2>4, <3>1 DEF Patient
  <2>5. CASE /\ k.attend_fils[x] \in PID /\ k.pere[k.attend_fils[x]] = x
             /\ k.etat[k.attend_fils[x]] \notin {"MORT", "ZOMBIE"}
    BY <1>1, <2>2, <2>3, <2>5 DEF Patient
  <2>6. QED
    BY <1>2, <2>1, <2>4, <2>5 DEF Patient
<1>4. Eveille(r, x)
  BY <1>1, <1>2 DEF Eveille
<1>5. Dormeur(r, x)
  BY <1>1, <1>2 DEF Dormeur
<1>6. QED
  BY <1>3, <1>4, <1>5 DEF AttenteDe

(* p is destroyed, with its zombie descendants: nothing changes for the    *)
(* others, but for its father if it is in waitpid.                         *)
LEMMA DetruireAttente ==
  ASSUME NEW k, Sain(k), NEW p \in PID, k.etat[p] # "MORT",
         NEW r, r = Detruire(k, p),
         NEW x \in PID, x # k.pere[p] \/ k.suite[x] # "waitpid", AttenteDe(k, x)
  PROVE  AttenteDe(r, x)
<1>1. PICK D : D = Detruits(k, p)
  OBVIOUS
<1>2. /\ D \in SUBSET PID /\ p \in D
      /\ \A q \in D : q # p => k.etat[q] = "ZOMBIE" /\ k.pere[q] \in D
      /\ k.pere[p] \notin D
  BY <1>1, DetruitsProp
<1>3. EstDetruit(r, k, D)
  BY <1>1, DetruireProp
<1>4. Patient(k, x) /\ Eveille(k, x) /\ Dormeur(k, x)
  BY DEF AttenteDe
<1>5. CASE x \in D
  <2>1. r.etat[x] = "MORT"
    BY <1>3, <1>5 DEF EstDetruit
  <2>2. QED
    BY <2>1 DEF AttenteDe, Patient, Eveille, Dormeur
<1>6. CASE x \notin D
  <2>1. /\ r.etat[x] = k.etat[x] /\ r.suite[x] = k.suite[x]
        /\ r.attend_fils[x] = k.attend_fils[x]
    BY <1>3, <1>6 DEF EstDetruit
  <2>2. ASSUME NEW c \in PID, k.etat[c] # "MORT", k.pere[c] = x, k.suite[x] = "waitpid"
        PROVE  r.etat[c] = k.etat[c] /\ r.pere[c] = x
    <3>1. c \notin D
      BY <1>2, <1>6, <2>2
    <3>2. QED
      BY <1>3, <1>6, <2>2, <3>1 DEF EstDetruit
  <2>3. Patient(r, x)
    <3>1. SUFFICES ASSUME r.etat[x] = "BLOQUE_SUR_ATTENTE_D_UN_FILS" PROVE Patient(r, x)
      BY DEF Patient
    <3>2. /\ k.suite[x] = "waitpid"
          /\ \E c \in PID : k.etat[c] # "MORT" /\ k.pere[c] = x
      BY <1>4, <2>1, <3>1 DEF Patient
    <3>3. \E c \in PID : r.etat[c] # "MORT" /\ r.pere[c] = x
      BY <2>2, <3>2
    <3>4. CASE k.attend_fils[x] = -2 /\ \A c \in PID : k.pere[c] = x => k.etat[c] # "ZOMBIE"
      <4>1. ASSUME NEW c \in PID, r.pere[c] = x, r.etat[c] = "ZOMBIE"
            PROVE  FALSE
        <5>1. c \notin D /\ k.etat[c] = "ZOMBIE"
          BY <1>3, <4>1 DEF EstDetruit
        <5>2. k.pere[c] = x
          <6>1. x # AUCUN
            BY NbprocAssumption DEF AUCUN, PID
          <6>2. QED
            BY <1>3, <4>1, <5>1, <6>1 DEF EstDetruit
        <5>3. QED
          BY <3>4, <5>1, <5>2
      <4>2. QED
        BY <2>1, <3>2, <3>3, <3>4, <4>1 DEF Patient
    <3>5. CASE /\ k.attend_fils[x] \in PID /\ k.pere[k.attend_fils[x]] = x
               /\ k.etat[k.attend_fils[x]] \notin {"MORT", "ZOMBIE"}
      BY <2>1, <2>2, <3>2, <3>3, <3>5 DEF Patient
    <3>6. QED
      BY <1>4, <2>1, <3>1, <3>4, <3>5 DEF Patient
  <2>4. Eveille(r, x)
    BY <1>4, <2>1, <2>2 DEF Eveille
  <2>5. Dormeur(r, x)
    BY <1>4, <2>1 DEF Dormeur
  <2>6. QED
    BY <2>3, <2>4, <2>5 DEF AttenteDe
<1>7. QED
  BY <1>5, <1>6

(* The zombies destroyed with p are its descendants: their fathers too are *)
(* free after it, but for the father of p if p itself is one.              *)
LEMMA DetruireZombies ==
  ASSUME NEW k, Sain(k), NEW p \in PID, k.etat[p] # "MORT",
         NEW r, r = Detruire(k, p)
  PROVE  \A q \in PID : k.etat[q] = "ZOMBIE" /\ r.etat[q] # "ZOMBIE" =>
           /\ r.etat[q] = "MORT"
           /\ q = p \/ r.etat[k.pere[q]] = "MORT"
<1>1. PICK D : D = Detruits(k, p)
  OBVIOUS
<1>2. D \in SUBSET PID /\ \A q \in D : q # p => k.pere[q] \in D
  BY <1>1, DetruitsProp
<1>3. EstDetruit(r, k, D)
  BY <1>1, DetruireProp
<1>4. QED
  BY <1>2, <1>3 DEF EstDetruit

-----------------------------------------------------------------------------
(* waitpid destroys a zombie child of the active process.                  *)
LEMMA RecolterSuivi ==
  ASSUME NEW k, Ordonne(k), Attentes(k), NEW c \in PID, k.etat[c] = "ZOMBIE",
         k.pere[c] = k.pid_actif, k.suite[k.pid_actif] # "waitpid"
  PROVE  Suivi(Recolter(k, c), k)
<1>1. PICK r : r = Detruire(k, c)
  OBVIOUS
<1>2. Sain(k) /\ Sain(r) /\ Libere(r, k)
  BY <1>1, DetruireZombie DEF Ordonne, Stable
<1>3. AuPlusUnActif(r) /\ OisifDisponible(r)
  BY <1>2, ActifProp, LibereProp DEF Ordonne, Stable, Libere
<1>4. Attentes(r)
  BY <1>1, <1>2, DetruireAttente DEF Attentes
<1>5. ZombiesGardes(r, k, k.pid_actif)
  BY <1>1, <1>2, DetruireZombies DEF ZombiesGardes
<1>6. QED
  BY <1>1, <1>2, <1>3, <1>4, <1>5, OrdonnancerSuivi DEF Recolter, Suivi

(* waitpid suspends the active process, which has children: none of them   *)
(* is a zombie, or the one it waits for is not.                            *)
LEMMA AttendreFilsSuivi ==
  ASSUME NEW k, Ordonne(k), Attentes(k), k.pid_actif # 0, NEW quoi \in PID \cup {-2},
         NEW c \in PID, k.etat[c] # "MORT", k.pere[c] = k.pid_actif,
         quoi = -2 => \A y \in PID : k.pere[y] = k.pid_actif => k.etat[y] # "ZOMBIE",
         quoi # -2 => quoi = c /\ k.etat[c] # "ZOMBIE"
  PROVE  Suivi(AttendreFils(k, quoi), k)
<1>1. PICK a : a = k.pid_actif
  OBVIOUS
<1>2. a \in PID /\ k.etat[a] = "ACTIF" /\ AuPlusUnActif(k) /\ Sain(k) /\ OisifDisponible(k)
  BY <1>1, ActifProp DEF Ordonne, Stable
<1>3. k \in TypeNoyau
  BY <1>2 DEF Sain
<1>4. PICK at : at = [k.attend_fils EXCEPT ![a] = quoi]
  OBVIOUS
<1>5. PICK su : su = [k.suite EXCEPT ![a] = "waitpid"]
  OBVIOUS
<1>6. PICK m : m = [k EXCEPT !.attend_fils = at, !.suite = su]
  OBVIOUS
<1>7. /\ at \in [PID -> -2..NBPROC-1] /\ su \in [PID -> Suites]
      /\ at[a] = quoi /\ su[a] = "waitpid"
      /\ \A x \in PID : x # a => at[x] = k.attend_fils[x] /\ su[x] = k.suite[x]
  <2>1. quoi \in -2..NBPROC-1
    BY NbprocAssumption DEF PID
  <2>2. k.attend_fils \in [PID -> -2..NBPROC-1] /\ k.suite \in [PID -> Suites]
    BY <1>3 DEF TypeNoyau
  <2>3. at \in [PID -> -2..NBPROC-1] /\ at[a] = quoi /\ \A x \in PID : x # a => at[x] = k.attend_fils[x]
    BY <1>2, <1>4, <2>1, <2>2
  <2>4. su \in [PID -> Suites] /\ su[a] = "waitpid" /\ \A x \in PID : x # a => su[x] = k.suite[x]
    BY <1>2, <1>5, <2>2 DEF Suites
  <2>5. QED
    BY <2>3, <2>4
<1>8. /\ m \in TypeNoyau
      /\ m.etat = k.etat /\ m.prio = k.prio /\ m.pere = k.pere /\ m.fils = k.fils
      /\ m.activables = k.activables /\ m.endormis = k.endormis
      /\ m.pid_actif = k.pid_actif /\ m.attend_fils = at /\ m.suite = su
  BY <1>3, <1>6, <1>7 DEF TypeNoyau
<1>9. Ordonne(m)
  BY <1>8, ChampsStables DEF Ordonne
<1>10. PICK r : r = Bloquer(m, a, "BLOQUE_SUR_ATTENTE_D_UN_FILS")
  OBVIOUS
<1>11. /\ Sain(r) /\ EstDeplace(r, m, a, "BLOQUE_SUR_ATTENTE_D_UN_FILS")
       /\ r.pid_actif = m.pid_actif
  BY <1>2, <1>8, <1>9, <1>10, BloquerProp DEF Ordonne, Stable, SansFile, Etats
<1>12. Libere(r, m)
  BY <1>1, <1>2, <1>9, <1>11, DeplaceLibere DEF Ordonne, Stable
<1>13. AuPlusUnActif(r) /\ OisifDisponible(r)
  BY <1>9, <1>12, ActifProp, LibereProp DEF Ordonne, Stable, Libere
<1>14. AttendreFils(k, quoi) = Ordonnancer(r)
  BY <1>1, <1>4, <1>5, <1>6, <1>10 DEF AttendreFils
<1>15. /\ r.etat[a] = "BLOQUE_SUR_ATTENTE_D_UN_FILS"
       /\ \A x \in PID : x # a => r.etat[x] = k.etat[x]
       /\ r.pere = k.pere /\ r.attend_fils = at /\ r.suite = su
  BY <1>2, <1>3, <1>8, <1>11 DEF EstDeplace, TypeNoyau
<1>16. ASSUME NEW x \in PID
       PROVE  AttenteDe(r, x)
  <2>1. CASE x # a
    <3>1. AttenteDe(m, x)
      BY <1>7, <1>8, <2>1 DEF Attentes, AttenteDe, Patient, Eveille, Dormeur
    <3>2. QED
      BY <1>2, <1>8, <1>11, <2>1, <3>1, DeplaceAttente
  <2>2. CASE x = a
    <3>1. \E y \in PID : r.etat[y] # "MORT" /\ r.pere[y] = a
      BY <1>1, <1>15
    <3>2. CASE quoi = -2
      <4>1. \A y \in PID : r.pere[y] = a => r.etat[y] # "ZOMBIE"
        BY <1>1, <1>15, <3>2
      <4>2. QED
        BY <1>7, <1>15, <2>2, <3>1, <3>2, <4>1 DEF AttenteDe, Patient, Eveille, Dormeur
    <3>3. CASE quoi # -2
      <4>1. r.etat[c] \notin {"MORT", "ZOMBIE"} /\ r.pere[c] = a
        BY <1>1, <1>15, <3>3
      <4>2. QED
        BY <1>7, <1>15, <2>2, <3>1, <3>3, <4>1 DEF AttenteDe, Patient, Eveille, Dormeur
    <3>4. QED
      BY <3>2, <3>3
  <2>3. QED
    BY <2>1, <2>2
<1>17. ZombiesGardes(r, k, k.pid_actif)
  BY <1>2, <1>15 DEF ZombiesGardes
<1>18. QED
  BY <1>2, <1>11, <1>13, <1>14, <1>16, <1>17, OrdonnancerSuivi DEF Suivi, Attentes

(* wait_clock by a process that is not in waitpid.                         *)
LEMMA WaitClockSuivi ==
  ASSUME NEW k, Ordonne(k), Attentes(k), k.pid_actif # 0,
         k.suite[k.pid_actif] # "waitpid", NEW t \in Nat
  PROVE  Suivi(WaitClock(k, t), k)
<1>1. PICK a : a = k.pid_actif
  OBVIOUS
<1>2. a \in PID /\ k.etat[a] = "ACTIF" /\ AuPlusUnActif(k) /\ Sain(k) /\ OisifDisponible(k)
  BY <1>1, ActifProp DEF Ordonne, Stable
<1>3. PICK r : r = Endormir(k, a, t)
  OBVIOUS
<1>4. Sain(r) /\ EstDeplace(r, k, a, "BLOQUE_SUR_SEMAPHORE") /\ r.pid_actif = k.pid_actif
  BY <1>2, <1>3, EndormirProp
<1>5. Libere(r, k)
  BY <1>1, <1>2, <1>4, DeplaceLibere
<1>6. AuPlusUnActif(r) /\ OisifDisponible(r)
  BY <1>2, <1>5, LibereProp DEF Libere
<1>7. /\ r.etat[a] = "BLOQUE_SUR_SEMAPHORE" /\ r.suite = k.suite
      /\ \A x \in PID : x # a => r.etat[x] = k.etat[x]
  BY <1>2, <1>4 DEF EstDeplace, Sain, TypeNoyau
<1>8. ASSUME NEW x \in PID
      PROVE  AttenteDe(r, x)
  <2>1. CASE x # a
    BY <1>2, <1>4, <2>1, DeplaceAttente DEF Attentes, Sain
  <2>2. CASE x = a
    BY <1>1, <1>7, <2>2 DEF AttenteDe, Patient, Eveille, Dormeur
  <2>3. QED
    BY <2>1, <2>2
<1>9. ZombiesGardes(r, k, k.pid_actif)
  BY <1>2, <1>7 DEF ZombiesGardes
<1>10. Suivi(Ordonnancer(r), k)
  BY <1>2, <1>4, <1>6, <1>8, <1>9, OrdonnancerSuivi DEF Suivi, Attentes
<1>11. QED
  BY <1>1, <1>3, <1>10 DEF WaitClock

(* Between two steps of the active process only its own suite and awaited  *)
(* child change: nobody else waits for less, and it is not in waitpid.     *)
LEMMA ActifSuivi ==
  ASSUME NEW k, Ordonne(k), Attentes(k), NEW r,
         r.etat = k.etat, r.pere = k.pere, r.suite[k.pid_actif] # "waitpid",
         \A x \in PID : x # k.pid_actif => r.suite[x] = k.suite[x] /\ r.attend_fils[x] = k.attend_fils[x]
  PROVE  Attentes(r)
<1>1. ASSUME NEW x \in PID
      PROVE  AttenteDe(r, x)
  <2>1. AttenteDe(k, x)
    BY DEF Attentes
  <2>2. CASE x # k.pid_actif
    BY <2>1, <2>2 DEF AttenteDe, Patient, Eveille, Dormeur
  <2>3. CASE x = k.pid_actif
    BY <2>3, ActifProp DEF Ordonne, AttenteDe, Patient, Eveille, Dormeur
  <2>4. QED
    BY <2>2, <2>3
<1>2. QED
  BY <1>1 DEF Attentes

LEMMA EchecConfirmeSuivi ==
  ASSUME NEW k, Ordonne(k), Attentes(k), k.pid_actif # 0, NEW t \in Nat
  PROVE  Suivi(EchecConfirme(k, t), k)
<1>1. PICK su : su = [k.suite EXCEPT ![k.pid_actif] = "condamne"]
  OBVIOUS
<1>2. PICK r : r = [k EXCEPT !.suite = su]
  OBVIOUS
<1>3. k \in TypeNoyau /\ k.pid_actif \in PID
  BY ActifProp DEF Ordonne, Stable, Sain
<1>4. su \in [PID -> Suites] /\ su[k.pid_actif] = "condamne"
      /\ \A x \in PID : x # k.pid_actif => su[x] = k.suite[x]
  BY <1>1, <1>3 DEF TypeNoyau, Suites
<1>5. /\ r \in TypeNoyau /\ r.suite = su /\ r.attend_fils = k.attend_fils
      /\ r.etat = k.etat /\ r.prio = k.prio /\ r.pere = k.pere /\ r.fils = k.fils
      /\ r.activables = k.activables /\ r.endormis = k.endormis
      /\ r.pid_actif = k.pid_actif
  BY <1>2, <1>3, <1>4 DEF TypeNoyau
<1>6. Ordonne(r) /\ Attentes(r)
  BY <1>4, <1>5, ChampsStables, ActifSuivi DEF Ordonne
<1>7. Suivi(WaitClock(r, t), r)
  BY <1>4, <1>5, <1>6, WaitClockSuivi
<1>8. EchecConfirme(k, t) = WaitClock(r, t)
  BY <1>1, <1>2 DEF EchecConfirme
<1>9. QED
  BY <1>5, <1>7, <1>8 DEF Suivi, ZombiesGardes

-----------------------------------------------------------------------------
(* The father f of p, which becomes a zombie: either it is not in waitpid  *)
(* or waits for another child, or it is woken and will find p.             *)
LEMMA ZombifierSuivi ==
  ASSUME NEW k, Ordonne(k), Attentes(k), NEW p \in PID, p # 0,
         k.etat[p] \notin {"MORT", "ZOMBIE"}, k.pere[p] # AUCUN
  PROVE  Suivi(Zombifier(ReveillerPere(k, p), p), k)
<1>1. PICK m : m = ReveillerPere(k, p)
  OBVIOUS
<1>2. PICK f : f = k.pere[p]
  OBVIOUS
<1>3. Sain(k) /\ k \in TypeNoyau /\ f \in PID /\ f # p /\ ListesEtPeres(k)
  <2>1. Sain(k) /\ k \in TypeNoyau /\ f \in PID /\ SansCycle(k) /\ ListesEtPeres(k)
    BY <1>2 DEF Ordonne, Stable, Sain, TypeNoyau, FiliationCoherente
  <2>2. {p} \in SUBSET {x \in PID : k.etat[x] # "MORT"}
    OBVIOUS
  <2>3. f # p
    BY <1>2, <2>1, <2>2 DEF SansCycle
  <2>4. QED
    BY <2>1, <2>3
<1>4. /\ Sain(m) /\ m.pere = k.pere /\ m.fils = k.fils
      /\ \A x \in PID : \/ m.etat[x] = k.etat[x]
                        \/ /\ k.etat[x] = "BLOQUE_SUR_ATTENTE_D_UN_FILS"
                           /\ m.etat[x] = "ACTIVABLE"
  BY <1>1, <1>3, ReveillerPereProp
<1>5. PICK v : v <=> k.etat[f] = "BLOQUE_SUR_ATTENTE_D_UN_FILS" /\ k.attend_fils[f] \in {-2, p}
  OBVIOUS
<1>6. /\ \A x \in PID : x # f => AttenteDe(m, x)
      /\ v => m.etat[f] = "ACTIVABLE" /\ m.attend_fils[f] = p
      /\ ~v => m = k
  <2>1. CASE ~v
    BY <1>1, <1>2, <1>5, <2>1 DEF ReveillerPere, Attentes
  <2>2. CASE v
    <3>1. PICK at : at = [k.attend_fils EXCEPT ![f] = p]
      OBVIOUS
    <3>2. PICK n : n = [k EXCEPT !.attend_fils = at]
      OBVIOUS
    <3>3. at \in [PID -> -2..NBPROC-1] /\ at[f] = p /\ \A x \in PID : x # f => at[x] = k.attend_fils[x]
      <4>1. p \in -2..NBPROC-1
        BY NbprocAssumption DEF PID
      <4>2. k.attend_fils \in [PID -> -2..NBPROC-1]
        BY <1>3 DEF TypeNoyau
      <4>3. QED
        BY <1>3, <3>1, <4>1, <4>2
    <3>4. /\ n \in TypeNoyau /\ n.attend_fils = at /\ n.suite = k.suite
          /\ n.etat = k.etat /\ n.prio = k.prio /\ n.pere = k.pere /\ n.fils = k.fils
          /\ n.activables = k.activables /\ n.endormis = k.endormis
      BY <1>3, <3>2, <3>3 DEF TypeNoyau
    <3>5. Sain(n)
      BY <1>3, <3>4, ChampsLibres
    <3>6. m = Activer(n, f)
      BY <1>1, <1>2, <1>5, <2>2, <3>1, <3>2 DEF ReveillerPere
    <3>7. EstDeplace(m, n, f, "ACTIVABLE")
      BY <1>3, <1>5, <2>2, <3>4, <3>5, <3>6, ActiverProp
    <3>8. m.etat[f] = "ACTIVABLE" /\ m.attend_fils[f] = p
      BY <1>3, <3>3, <3>4, <3>7 DEF EstDeplace, TypeNoyau
    <3>9. ASSUME NEW x \in PID, x # f
          PROVE  AttenteDe(m, x)
      <4>1. AttenteDe(n, x)
        BY <3>3, <3>4, <3>9 DEF Attentes, AttenteDe, Patient, Eveille, Dormeur
      <4>2. QED
        BY <1>3, <1>5, <2>2, <3>4, <3>7, <3>9, <4>1, DeplaceAttente
    <3>10. QED
      BY <2>2, <3>8, <3>9
  <2>3. QED
    BY <2>1, <2>2
<1>7. PICK d : d = IF Zombies(m, p) = {} THEN m ELSE Detruire(m, PremierZombie(m, p))
  OBVIOUS
<1>8. m.etat[p] \notin {"MORT", "ZOMBIE"} /\ k.etat[p] # "ZOMBIE"
  BY <1>4
<1>9. /\ Sain(d) /\ d.etat[p] = m.etat[p] /\ d.pere[p] = f
      /\ \A x \in PID : x # p /\ AttenteDe(m, x) => AttenteDe(d, x)
      /\ \A x \in PID : m.etat[x] # "ZOMBIE" =>
           d.etat[x] = m.etat[x] /\ d.attend_fils[x] = m.attend_fils[x]
      /\ \A x \in PID : m.etat[x] = "ZOMBIE" => d.etat[x] \in {"ZOMBIE", "MORT"}
      /\ \A q \in PID : m.etat[q] = "ZOMBIE" /\ d.etat[q] # "ZOMBIE" =>
           d.etat[q] = "MORT" /\ (m.pere[q] = p \/ d.etat[m.pere[q]] = "MORT")
  <2>1. CASE Zombies(m, p) = {}
    <3>1. d = m
      BY <1>7, <2>1
    <3>2. QED
      BY <1>2, <1>4, <3>1
  <2>2. CASE Zombies(m, p) # {}
    <3>1. PICK z : z = PremierZombie(m, p)
      OBVIOUS
    <3>2. z \in PID /\ m.etat[z] = "ZOMBIE" /\ m.pere[z] = p
      BY <1>4, <2>2, <3>1, PremierZombieProp
    <3>3. d = Detruire(m, z)
      BY <1>7, <2>2, <3>1
    <3>4. /\ Sain(d) /\ d.etat[p] = m.etat[p] /\ d.pere[p] = f
          /\ \A x \in PID : m.etat[x] # "ZOMBIE" => d.etat[x] = m.etat[x]
      BY <1>2, <1>4, <1>8, <3>2, <3>3, DetruireZombie
    <3>5. \A x \in PID : x # p /\ AttenteDe(m, x) => AttenteDe(d, x)
      BY <1>4, <3>2, <3>3, DetruireAttente
    <3>6. \A q \in PID : m.etat[q] = "ZOMBIE" /\ d.etat[q] # "ZOMBIE" =>
            d.etat[q] = "MORT" /\ (m.pere[q] = p \/ d.etat[m.pere[q]] = "MORT")
      BY <1>4, <3>2, <3>3, DetruireZombies
    <3>7. PICK D : D = Detruits(m, z)
      OBVIOUS
    <3>8. D \in SUBSET PID /\ \A q \in D : q # z => m.etat[q] = "ZOMBIE"
      BY <1>4, <3>2, <3>7, DetruitsProp
    <3>9. EstDetruit(d, m, D)
      BY <1>4, <3>2, <3>3, <3>7, DetruireProp
    <3>10. \A x \in PID : m.etat[x] # "ZOMBIE" => d.attend_fils[x] = m.attend_fils[x]
      BY <3>2, <3>8, <3>9 DEF EstDetruit
    <3>11. \A x \in PID : m.etat[x] = "ZOMBIE" => d.etat[x] \in {"ZOMBIE", "MORT"}
      BY <3>6
    <3>12. QED
      BY <3>4, <3>5, <3>6, <3>10, <3>11
  <2>3. QED
    BY <2>1, <2>2
<1>10. PICK r : r = Bloquer(d, p, "ZOMBIE")
  OBVIOUS
<1>11. EstDeplace(r, d, p, "ZOMBIE")
  BY <1>3, <1>8, <1>9, <1>10, BloquerProp, NbprocAssumption DEF SansFile, Etats, AUCUN, PID
<1>12. /\ r.etat[p] = "ZOMBIE" /\ \A x \in PID : x # p => r.etat[x] = d.etat[x]
       /\ r.pere = d.pere /\ r.attend_fils = d.attend_fils /\ r.suite = d.suite
  BY <1>9, <1>11 DEF EstDeplace, Sain, TypeNoyau
<1>13. ASSUME NEW x \in PID
       PROVE  AttenteDe(r, x)
  <2>1. CASE x = p
    BY <1>12, <2>1 DEF AttenteDe, Patient, Eveille, Dormeur
  <2>2. CASE x # p /\ x # f
    <3>1. AttenteDe(d, x)
      BY <1>6, <1>9, <2>2
    <3>2. d \in TypeNoyau
      BY <1>9 DEF Sain
    <3>3. QED
      BY <1>8, <1>9, <1>11, <2>2, <3>1, <3>2, DeplaceAttente
  <2>3. CASE x = f /\ v
    <3>1. m.etat[f] = "ACTIVABLE" /\ m.attend_fils[f] = p
      BY <1>6, <2>3
    <3>2. r.etat[f] = "ACTIVABLE" /\ r.attend_fils[f] = p /\ r.pere[p] = f
      BY <1>3, <1>9, <1>12, <3>1
    <3>3. QED
      BY <1>12, <2>3, <3>2 DEF AttenteDe, Patient, Eveille, Dormeur
  <2>4. CASE x = f /\ ~v
    <3>1. m = k
      BY <1>6, <2>4
    <3>2. AttenteDe(d, f)
      BY <1>3, <1>9, <3>1 DEF Attentes
    <3>3. /\ r.etat[f] = d.etat[f]
          /\ \A c \in PID : c # p => r.etat[c] = d.etat[c]
          /\ d.etat[p] \notin {"MORT", "ZOMBIE"}
      BY <1>3, <1>8, <1>9, <1>12
    <3>4. Patient(r, f)
      <4>1. SUFFICES ASSUME r.etat[f] = "BLOQUE_SUR_ATTENTE_D_UN_FILS" PROVE Patient(r, f)
        BY DEF Patient
      <4>2. Patient(d, f) /\ d.etat[f] = "BLOQUE_SUR_ATTENTE_D_UN_FILS"
        BY <3>2, <3>3, <4>1 DEF AttenteDe
      <4>3. k.etat[f] # "ZOMBIE"
        BY <1>3, <1>9, <3>1, <4>2
      <4>4. k.etat[f] = "BLOQUE_SUR_ATTENTE_D_UN_FILS" /\ d.attend_fils[f] = k.attend_fils[f]
        BY <1>3, <1>9, <3>1, <4>2, <4>3
      <4>5. d.attend_fils[f] \notin {-2, p}
        BY <1>5, <2>4, <4>4
      <4>6. /\ d.suite[f] = "waitpid" /\ d.attend_fils[f] \in PID /\ d.pere[d.attend_fils[f]] = f
            /\ d.etat[d.attend_fils[f]] \notin {"MORT", "ZOMBIE"}
        BY <4>2, <4>5 DEF Patient
      <4>7. r.etat[r.attend_fils[f]] \notin {"MORT", "ZOMBIE"}
        BY <1>12, <3>3, <4>5, <4>6
      <4>8. QED
        BY <1>12, <4>6, <4>7 DEF Patient
    <3>5. Eveille(r, f)
      BY <1>12, <3>2, <3>3 DEF AttenteDe, Eveille
    <3>6. Dormeur(r, f)
      BY <1>12, <3>2, <3>3 DEF AttenteDe, Dormeur
    <3>7. QED
      BY <2>4, <3>4, <3>5, <3>6 DEF AttenteDe
  <2>5. QED
    BY <2>2, <2>1, <2>3, <2>4
<1>14. ASSUME NEW q \in PID, k.etat[q] = "ZOMBIE", r.etat[q] # "ZOMBIE"
       PROVE  r.etat[q] = "MORT" /\ r.etat[k.pere[q]] \in {"ZOMBIE", "MORT"}
  <2>1. q # p /\ m.etat[q] = "ZOMBIE" /\ d.etat[q] # "ZOMBIE" /\ r.etat[q] = d.etat[q]
    BY <1>4, <1>8, <1>12, <1>14
  <2>2. d.etat[q] = "MORT" /\ (k.pere[q] = p \/ d.etat[k.pere[q]] = "MORT")
    BY <1>4, <1>9, <2>1
  <2>3. k.pere[q] \in PID
    BY <1>3, <1>14 DEF TypeNoyau, ListesEtPeres
  <2>4. QED
    BY <1>12, <2>1, <2>2, <2>3
<1>15. Zombifier(m, p) = r
  BY <1>7, <1>10 DEF Zombifier
<1>16. QED
  BY <1>1, <1>13, <1>14, <1>15 DEF Suivi, Attentes, ZombiesGardes

(* terminaison_processus of a process other than idle.                     *)
LEMMA TerminaisonSuivi ==
  ASSUME NEW k, Ordonne(k), Attentes(k), NEW p \in PID, p # 0,
         k.etat[p] \notin {"MORT", "ZOMBIE"}
  PROVE  Suivi(TerminaisonProcessus(k, p), k)
<1>1. Sain(k) /\ OisifDisponible(k) /\ AuPlusUnActif(k)
  BY ActifProp DEF Ordonne, Stable
<1>2. CASE k.pere[p] = AUCUN
  <2>1. PICK r : r = Detruire(k, p)
    OBVIOUS
  <2>2. PICK D : D = Detruits(k, p)
    OBVIOUS
  <2>3. Sain(r) /\ EstDetruit(r, k, D)
    BY <1>1, <2>1, <2>2, DetruireProp
  <2>4. 0 \in PID /\ 0 \notin D
    <3>1. \A q \in D : q # p => k.etat[q] = "ZOMBIE"
      BY <1>1, <2>2, DetruitsProp
    <3>2. QED
      BY <1>1, <3>1, NbprocAssumption DEF OisifDisponible, PID
  <2>5. OisifDisponible(r) /\ AuPlusUnActif(r)
    BY <1>1, <2>3, <2>4 DEF EstDetruit, OisifDisponible, AuPlusUnActif
  <2>6. ASSUME NEW x \in PID
        PROVE  AttenteDe(r, x)
    <3>1. x # AUCUN
      BY NbprocAssumption DEF AUCUN, PID
    <3>2. QED
      BY <1>1, <1>2, <2>1, <3>1, DetruireAttente DEF Attentes
  <2>7. ZombiesGardes(r, k, k.pid_actif)
    BY <1>1, <2>1, DetruireZombies DEF ZombiesGardes
  <2>8. Suivi(Ordonnancer(r), k)
    BY <1>1, <2>3, <2>5, <2>6, <2>7, OrdonnancerSuivi DEF Suivi, Attentes
  <2>9. QED
    BY <1>2, <2>1, <2>8 DEF TerminaisonProcessus
<1>3. CASE k.pere[p] # AUCUN /\ FauteDeParcours(k, p)
  <2>1. PICK r : r = [k EXCEPT !.panne = TRUE]
    OBVIOUS
  <2>2. /\ r.etat = k.etat /\ r.pere = k.pere
        /\ r.attend_fils = k.attend_fils /\ r.suite = k.suite
    BY <1>1, <2>1 DEF Sain, TypeNoyau
  <2>3. Suivi(r, k)
    BY <2>2, ReleveSuivi DEF Releve
  <2>4. QED
    BY <1>3, <2>1, <2>3 DEF TerminaisonProcessus
<1>4. CASE k.pere[p] # AUCUN /\ ~FauteDeParcours(k, p)
  <2>1. PICK m : m = ReveillerPere(k, p)
    OBVIOUS
  <2>2. /\ Sain(m) /\ Libere(m, k) /\ m.pere = k.pere
        /\ \A x \in PID : \/ m.etat[x] = k.etat[x]
                          \/ m.etat[x] = "ACTIVABLE"
    BY <1>1, <1>4, <2>1, ReveillerPereProp
  <2>3. m.etat[p] \notin {"MORT", "ZOMBIE"}
    BY <2>2
  <2>4. PICK z : z = Zombifier(m, p)
    OBVIOUS
  <2>5. Sain(z) /\ Libere(z, m)
    BY <1>4, <2>2, <2>3, <2>4, ZombifierProp
  <2>6. Libere(z, k)
    BY <2>2, <2>5 DEF Libere
  <2>7. AuPlusUnActif(z) /\ OisifDisponible(z)
    BY <1>1, <2>6, LibereProp DEF Libere
  <2>8. Suivi(z, k)
    BY <1>4, <2>1, <2>4, ZombifierSuivi
  <2>9. Suivi(Ordonnancer(z), k)
    BY <1>1, <2>5, <2>7, <2>8, OrdonnancerSuivi
  <2>10. QED
    BY <1>4, <2>1, <2>4, <2>9 DEF TerminaisonProcessus
<1>5. QED
  BY <1>2, <1>3, <1>4

-----------------------------------------------------------------------------
(* A new process takes a free slot, which nobody waits for.                *)
LEMMA DemarrerSuivi ==
  ASSUME NEW k, Attentes(k), NEW p \in PID, k.etat[p] = "MORT",
         NEW m, EstNe(m, k, p), NEW r, MemesFils(r, m)
  PROVE  Suivi(r, k)
<1>1. /\ m.etat[p] = "ACTIVABLE" /\ m.suite[p] = "rien"
      /\ \A x \in PID : x # p => /\ m.etat[x] = k.etat[x] /\ m.pere[x] = k.pere[x]
                                 /\ m.suite[x] = k.suite[x]
                                 /\ m.attend_fils[x] = k.attend_fils[x]
  BY DEF EstNe
<1>2. ASSUME NEW x \in PID
      PROVE  AttenteDe(m, x)
  <2>1. CASE x = p
    BY <1>1, <2>1 DEF AttenteDe, Patient, Eveille, Dormeur
  <2>2. CASE x # p
    <3>1. Patient(k, x) /\ Eveille(k, x) /\ Dormeur(k, x)
      BY DEF Attentes, AttenteDe
    <3>2. Patient(m, x)
      <4>1. SUFFICES ASSUME m.etat[x] = "BLOQUE_SUR_ATTENTE_D_UN_FILS" PROVE Patient(m, x)
        BY DEF Patient
      <4>2. /\ k.suite[x] = "waitpid"
            /\ \E c \in PID : k.etat[c] # "MORT" /\ k.pere[c] = x
        BY <1>1, <2>2, <3>1, <4>1 DEF Patient
      <4>3. \E c \in PID : m.etat[c] # "MORT" /\ m.pere[c] = x
        BY <1>1, <4>2
      <4>4. CASE k.attend_fils[x] = -2 /\ \A c \in PID : k.pere[c] = x => k.etat[c] # "ZOMBIE"
        <5>1. \A c \in PID : m.pere[c] = x => m.etat[c] # "ZOMBIE"
          BY <1>1, <4>4
        <5>2. QED
          BY <1>1, <2>2, <4>2, <4>3, <4>4, <5>1 DEF Patient
      <4>5. CASE /\ k.attend_fils[x] \in PID /\ k.pere[k.attend_fils[x]] = x
                 /\ k.etat[k.attend_fils[x]] \notin {"MORT", "ZOMBIE"}
        BY <1>1, <2>2, <4>2, <4>3, <4>5 DEF Patient
      <4>6. QED
        BY <1>1, <2>2, <3>1, <4>1, <4>4, <4>5 DEF Patient
    <3>3. Eveille(m, x)
      BY <1>1, <2>2, <3>1 DEF Eveille
    <3>4. Dormeur(m, x)
      BY <1>1, <2>2, <3>1 DEF Dormeur
    <3>5. QED
      BY <3>2, <3>3, <3>4 DEF AttenteDe
  <2>3. QED
    BY <2>1, <2>2
<1>3. Releve(r, m)
  BY MemesFilsReleve
<1>4. Attentes(r)
  BY <1>2, <1>3, ReleveAttentes DEF Attentes
<1>5. ZombiesGardes(r, k, k.pid_actif)
  BY <1>1, <1>3 DEF Releve, ZombiesGardes
<1>6. QED
  BY <1>4, <1>5 DEF Suivi

(* The clock wakes one due sleeper.                                        *)
LEMMA EveillerPremierReleve ==
  ASSUME NEW k, Sain(k), NEW t
  PROVE  Releve(EveillerPremier(k, t), k)
<1>1. CASE Echus(k, t) = {}
  BY <1>1 DEF EveillerPremier, Releve
<1>2. CASE Echus(k, t) # {}
  <2>1. k.endormis \in Seq(PID)
    BY DEF Sain, TypeNoyau
  <2>2. PICK Z : Z = Echus(k, t)
    OBVIOUS
  <2>3. Z \in SUBSET Nat /\ Z # {} /\ Z \subseteq 1..Len(k.endormis)
    BY <1>2, <2>1, <2>2, LenProperties DEF Echus
  <2>4. Min(Z) \in Z
    <3>1. \E x \in Z : \A y \in Z : x <= y
      BY <2>3, PlusPetit
    <3>2. QED
      BY <3>1 DEF Min
  <2>5. PICK p : p = k.endormis[Min(Z)]
    OBVIOUS
  <2>6. p \in Range(k.endormis)
    BY <2>1, <2>3, <2>4, <2>5, LenProperties DEF Range
  <2>7. p \in PID /\ k.etat[p] = "BLOQUE_SUR_SEMAPHORE"
    BY <2>6 DEF Sain, FilesCoherentes
  <2>8. PICK r : r = Activer(k, p)
    OBVIOUS
  <2>9. EstDeplace(r, k, p, "ACTIVABLE")
    BY <2>7, <2>8, ActiverProp
  <2>10. Releve(r, k)
    BY <2>7, <2>9 DEF EstDeplace, Releve, Sain, TypeNoyau
  <2>11. EveillerPremier(k, t) = r
    BY <1>2, <2>2, <2>5, <2>8 DEF EveillerPremier
  <2>12. QED
    BY <2>10, <2>11
<1>3. QED
  BY <1>1, <1>2

(* The whole scan of the sleepers.                                         *)
LEMMA EveillerEchusReleve ==
  ASSUME NEW k, Sain(k), NEW t
  PROVE  Releve(EveillerEchus(k, t), k)
<1>1. PICK n : n = Len(k.endormis)
  OBVIOUS
<1>2. n \in Nat
  BY <1>1, LenProperties DEF Sain, TypeNoyau
<1>3. PICK g : g = CHOOSE h : EstParcours(h, k, t, n)
  OBVIOUS
<1>4. EstParcours(g, k, t, n)
  BY <1>2, <1>3, ParcoursExiste
<1>5. EveillerEchus(k, t) = g[n]
  BY <1>1, <1>3 DEF EveillerEchus, EstParcours
<1>6. \A m \in 0..n : g[m] = IF m = 0 THEN k ELSE EveillerPremier(g[m-1], t)
  BY <1>4 DEF EstParcours
<1>7. ASSUME NEW m \in 0..n, ~(Sain(g[m]) /\ Releve(g[m], k))
      PROVE  FALSE
  <2> DEFINE T == {x \in 0..n : ~(Sain(g[x]) /\ Releve(g[x], k))}
  <2>1. T \in SUBSET Nat /\ T # {}
    BY <1>2, <1>7
  <2>2. PICK x \in T : \A y \in T : x <= y
    BY <2>1, PlusPetit
  <2>3. CASE x = 0
    <3>1. g[0] = k
      BY <1>2, <1>6
    <3>2. Releve(k, k)
      BY DEF Releve
    <3>3. QED
      BY <2>2, <2>3, <3>1, <3>2
  <2>4. CASE x # 0
    <3>1. x-1 \in 0..n /\ x-1 \notin T
      BY <1>2, <2>2, <2>4
    <3>2. PICK a : a = g[x-1]
      OBVIOUS
    <3>3. Sain(a) /\ Releve(a, k)
      BY <3>1, <3>2
    <3>4. g[x] = EveillerPremier(a, t)
      BY <1>6, <2>2, <2>4, <3>2
    <3>5. Sain(g[x]) /\ Releve(g[x], a)
      BY <3>3, <3>4, EveillerPremierProp, EveillerPremierReleve
    <3>6. Releve(g[x], k)
      BY <3>3, <3>5, ReleveTransitive
    <3>7. QED
      BY <2>2, <3>5, <3>6
  <2>5. QED
    BY <2>3, <2>4
<1>8. n \in 0..n
  BY <1>2
<1>9. QED
  BY <1>5, <1>7, <1>8

-----------------------------------------------------------------------------
(* The steps of Processus.                                                 *)
LEMMA RepriseSuivi ==
  ASSUME IInv, Attentes(noyau), Reprise
  PROVE  Suivi(noyau', noyau)
<1>1. PICK n : n = noyau
  OBVIOUS
<1>2. PICK a : a = n.pid_actif
  OBVIOUS
<1>3. /\ Ordonne(n) /\ n \in TypeNoyau /\ a \in PID /\ a # 0 /\ n.etat[a] = "ACTIF"
      /\ n.suite[a] \in {"waitpid", "condamne"}
  <2>1. Ordonne(n) /\ n \in TypeNoyau /\ a \in PID /\ a # 0 /\ n.etat[a] = "ACTIF"
    BY <1>1, <1>2, ActifProp DEF IInv, Ordonne, Stable, Sain, Reprise, actif
  <2>2. n.suite[a] # "rien"
    BY <1>1, <1>2 DEF Reprise, actif
  <2>3. QED
    BY <2>1, <2>2 DEF TypeNoyau, Suites
<1>4. PICK su : su = [n.suite EXCEPT ![a] = "rien"]
  OBVIOUS
<1>5. PICK at : at = [n.attend_fils EXCEPT ![a] = -1]
  OBVIOUS
<1>6. PICK k : k = [n EXCEPT !.suite = su]
  OBVIOUS
<1>7. PICK w : w = [k EXCEPT !.attend_fils = at]
  OBVIOUS
<1>8. /\ su \in [PID -> Suites] /\ at \in [PID -> -2..NBPROC-1]
      /\ su[a] = "rien" /\ \A x \in PID : x # a => su[x] = n.suite[x] /\ at[x] = n.attend_fils[x]
  <2>1. -1 \in -2..NBPROC-1
    BY NbprocAssumption
  <2>2. QED
    BY <1>3, <1>4, <1>5, <2>1 DEF TypeNoyau, Suites
<1>9. /\ k \in TypeNoyau /\ k.suite = su
      /\ k.etat = n.etat /\ k.prio = n.prio /\ k.pere = n.pere /\ k.fils = n.fils
      /\ k.activables = n.activables /\ k.endormis = n.endormis
      /\ k.pid_actif = n.pid_actif /\ k.attend_fils = n.attend_fils
  BY <1>3, <1>6, <1>8 DEF TypeNoyau
<1>10. /\ w \in TypeNoyau /\ w.suite = su /\ w.attend_fils = at
       /\ w.etat = n.etat /\ w.prio = n.prio /\ w.pere = n.pere /\ w.fils = n.fils
       /\ w.activables = n.activables /\ w.endormis = n.endormis
       /\ w.pid_actif = n.pid_actif
  BY <1>7, <1>8, <1>9 DEF TypeNoyau
<1>11. Ordonne(k) /\ Ordonne(w)
  BY <1>3, <1>9, <1>10, ChampsStables DEF Ordonne
<1>12. Attentes(k) /\ Attentes(w)
  BY <1>1, <1>2, <1>3, <1>8, <1>9, <1>10, ActifSuivi
<1>13. PICK c : c = n.attend_fils[a]
  OBVIOUS
<1>14. PICK t : t = (horloge + DELAI) % MODULO
  OBVIOUS
<1>15. t \in Nat
  <2>1. horloge + DELAI \in Nat
    BY ModuloAssumption DEF IInv, Instants
  <2>2. t \in Instants
    BY <1>14, <2>1, InstantsProp
  <2>3. QED
    BY <2>2, ModuloAssumption DEF Instants
<1>16. noyau' = IF n.suite[a] = "condamne" THEN TerminaisonProcessus(k, a)
                ELSE IF c \in PID /\ n.etat[c] = "ZOMBIE" THEN Recolter(w, c)
                ELSE EchecConfirme(w, t)
  BY <1>1, <1>2, <1>4, <1>5, <1>6, <1>7, <1>9, <1>13, <1>14 DEF Reprise, actif
<1>17. CASE n.suite[a] = "condamne"
  <2>1. Suivi(noyau', k)
    BY <1>3, <1>9, <1>11, <1>12, <1>16, <1>17, TerminaisonSuivi
  <2>2. QED
    BY <1>1, <1>9, <2>1 DEF Suivi, ZombiesGardes
<1>18. CASE n.suite[a] = "waitpid" /\ c \in PID /\ n.etat[c] = "ZOMBIE"
  <2>1. n.pere[c] = a
    BY <1>1, <1>3, <1>13, <1>18 DEF Attentes, AttenteDe, Eveille
  <2>2. Suivi(noyau', w)
    BY <1>2, <1>8, <1>10, <1>11, <1>12, <1>16, <1>18, <2>1, RecolterSuivi
  <2>3. QED
    BY <1>1, <1>10, <2>2 DEF Suivi, ZombiesGardes
<1>19. CASE n.suite[a] = "waitpid" /\ ~(c \in PID /\ n.etat[c] = "ZOMBIE")
  <2>1. Suivi(noyau', w)
    BY <1>2, <1>3, <1>10, <1>11, <1>12, <1>15, <1>16, <1>19, EchecConfirmeSuivi
  <2>2. QED
    BY <1>1, <1>10, <2>1 DEF Suivi, ZombiesGardes
<1>20. QED
  BY <1>3, <1>17, <1>18, <1>19

LEMMA TicSuivi ==
  ASSUME IInv, Attentes(noyau), Tic
  PROVE  Suivi(noyau', noyau)
<1>1. PICK k : k = EveillerEchus(noyau, horloge')
  OBVIOUS
<1>2. Sain(noyau) /\ Sain(k) /\ Libere(k, noyau)
  BY <1>1, EveillerEchusProp DEF IInv, Ordonne, Stable
<1>3. AuPlusUnActif(k) /\ OisifDisponible(k)
  BY <1>2, ActifProp, LibereProp DEF IInv, Ordonne, Stable, Libere
<1>4. Suivi(k, noyau)
  BY <1>1, <1>2, EveillerEchusReleve, ReleveSuivi
<1>5. QED
  BY <1>1, <1>2, <1>3, <1>4, OrdonnancerSuivi DEF Tic

LEMMA ChprioSuivi ==
  ASSUME IInv, Attentes(noyau), NEW pid \in PID, NEW newprio \in PRIOS, Chprio(pid, newprio)
  PROVE  Suivi(noyau', noyau)
<1>1. PICK m : m = [noyau EXCEPT !.prio = noyau'.prio]
  OBVIOUS
<1>2. Releve(noyau', m)
  BY <1>1, ChprioStep, MemesFilsReleve DEF IInv, IStable, Ordonne
<1>3. m.etat = noyau.etat /\ m.pere = noyau.pere
      /\ m.attend_fils = noyau.attend_fils /\ m.suite = noyau.suite
  BY <1>1 DEF IInv, Ordonne, Stable, Sain, TypeNoyau
<1>4. Releve(noyau', noyau)
  BY <1>2, <1>3 DEF Releve
<1>5. QED
  BY <1>4, ReleveSuivi

(* A caller of waitpid with a child blocks only if no child has ended, or  *)
(* not the one it asks for.                                                *)
LEMMA WaitpidQuelconqueSuivi ==
  ASSUME IInv, Attentes(noyau), WaitpidQuelconque
  PROVE  Suivi(noyau', noyau)
<1>1. PICK k : k = noyau
  OBVIOUS
<1>2. PICK a : a = k.pid_actif
  OBVIOUS
<1>3. /\ Ordonne(k) /\ Attentes(k) /\ Sain(k) /\ a \in PID /\ a # 0
      /\ k.etat[a] = "ACTIF" /\ k.suite[a] = "rien" /\ k.fils[a] # << >>
  BY <1>1, <1>2, ActifProp DEF IInv, Ordonne, Stable, WaitpidQuelconque, Programme, actif, queue_empty
<1>4. k.fils[a] \in Seq(PID) /\ Range(k.fils[a]) = {c \in PID : k.etat[c] # "MORT" /\ k.pere[c] = a}
  BY <1>3 DEF Sain, TypeNoyau, FiliationCoherente, ListesEtPeres
<1>5. CASE Zombies(k, a) # {}
  <2>1. PICK z : z = PremierZombie(k, a)
    OBVIOUS
  <2>2. z \in PID /\ k.etat[z] = "ZOMBIE" /\ k.pere[z] = a
    BY <1>3, <1>5, <2>1, PremierZombieProp
  <2>3. noyau' = Recolter(k, z)
    BY <1>1, <1>2, <1>5, <2>1 DEF WaitpidQuelconque, actif
  <2>4. QED
    BY <1>1, <1>2, <1>3, <2>2, <2>3, RecolterSuivi
<1>6. CASE Zombies(k, a) = {}
  <2>1. PICK c \in PID : k.etat[c] # "MORT" /\ k.pere[c] = a
    <3>1. k.fils[a][1] \in Range(k.fils[a])
      BY <1>3, <1>4, LenProperties, EmptySeq DEF Range
    <3>2. QED
      BY <1>4, <3>1
  <2>2. \A y \in PID : k.pere[y] = a => k.etat[y] # "ZOMBIE"
    <3>1. SUFFICES ASSUME NEW y \in PID, k.pere[y] = a, k.etat[y] = "ZOMBIE" PROVE FALSE
      OBVIOUS
    <3>2. y \in Range(k.fils[a])
      BY <1>4, <3>1
    <3>3. PICK i \in 1..Len(k.fils[a]) : k.fils[a][i] = y
      BY <1>4, <3>2, LenProperties DEF Range
    <3>4. QED
      BY <1>6, <3>1, <3>3 DEF Zombies
  <2>3. noyau' = AttendreFils(k, -2)
    BY <1>1, <1>2, <1>6 DEF WaitpidQuelconque, actif
  <2>4. QED
    BY <1>1, <1>2, <1>3, <2>1, <2>2, <2>3, AttendreFilsSuivi
<1>7. QED
  BY <1>5, <1>6

LEMMA WaitpidPrecisSuivi ==
  ASSUME IInv, Attentes(noyau), NEW pid \in PID, WaitpidPrecis(pid),
         (horloge + DELAI) % MODULO \in Nat
  PROVE  Suivi(noyau', noyau)
<1>1. PICK k : k = noyau
  OBVIOUS
<1>2. /\ Ordonne(k) /\ Attentes(k) /\ k.pid_actif # 0 /\ k.suite[k.pid_actif] = "rien"
      /\ k.pere[pid] = k.pid_actif
  BY <1>1 DEF IInv, WaitpidPrecis, Programme, actif
<1>3. CASE k.etat[pid] = "MORT"
  <2>1. noyau' = EchecConfirme(k, (horloge + DELAI) % MODULO)
    BY <1>1, <1>3 DEF WaitpidPrecis
  <2>2. QED
    BY <1>1, <1>2, <2>1, EchecConfirmeSuivi
<1>4. CASE k.etat[pid] = "ZOMBIE"
  <2>1. noyau' = Recolter(k, pid)
    BY <1>1, <1>4 DEF WaitpidPrecis
  <2>2. QED
    BY <1>1, <1>2, <1>4, <2>1, RecolterSuivi
<1>5. CASE k.etat[pid] \notin {"MORT", "ZOMBIE"}
  <2>1. noyau' = AttendreFils(k, pid)
    BY <1>1, <1>5 DEF WaitpidPrecis
  <2>2. pid # -2
    BY NbprocAssumption DEF PID
  <2>3. QED
    BY <1>1, <1>2, <1>5, <2>1, <2>2, AttendreFilsSuivi
<1>6. QED
  BY <1>3, <1>4, <1>5

IInvAttente == IInv /\ Attentes(noyau)

LEMMA NextSuivi ==
  ASSUME IInv, Attentes(noyau), [Next]_vars
  PROVE  Suivi(noyau', noyau)
<1>1. /\ Ordonne(noyau) /\ horloge \in Instants
      /\ actif \in PID /\ noyau.etat[actif] = "ACTIF" /\ Sain(noyau)
  BY ActifProp DEF IInv, actif, Ordonne, Stable
<1>2. Programme => actif # 0 /\ noyau.pid_actif # 0 /\ noyau.suite[noyau.pid_actif] # "waitpid"
  BY DEF Programme, actif
<1>3. (horloge + DELAI) % MODULO \in Nat
  <2>1. horloge + DELAI \in Nat
    BY <1>1, ModuloAssumption DEF Instants
  <2>2. QED
    BY <2>1, InstantsProp, ModuloAssumption DEF Instants
<1>4. ASSUME NEW prio \in PRIOS, Start(prio)
      PROVE  Suivi(noyau', noyau)
  <2>1. \E p \in PID : \E m : /\ noyau.etat[p] = "MORT"
                              /\ EstNe(m, noyau, p) /\ MemesFils(noyau', m)
    BY <1>1, <1>4, PriosAssumption, DemarrerOrdonne DEF Start, Ordonne
  <2>2. QED
    BY <2>1, DemarrerSuivi
<1>5. CASE StartInconnu
  BY <1>1, <1>2, <1>3, <1>5, WaitClockSuivi DEF StartInconnu
<1>6. ASSUME NEW pid \in PID, Kill(pid)
      PROVE  Suivi(noyau', noyau)
  BY <1>1, <1>6, TerminaisonSuivi DEF Kill
<1>7. CASE Exit
  BY <1>1, <1>2, <1>7, TerminaisonSuivi DEF Exit
<1>8. CASE WaitpidQuelconque
  BY <1>8, WaitpidQuelconqueSuivi
<1>9. ASSUME NEW pid \in PID, WaitpidPrecis(pid)
      PROVE  Suivi(noyau', noyau)
  BY <1>3, <1>9, WaitpidPrecisSuivi
<1>10. ASSUME NEW pid \in PID, NEW newprio \in PRIOS, Chprio(pid, newprio)
       PROVE  Suivi(noyau', noyau)
  BY <1>10, ChprioSuivi
<1>11. ASSUME NEW t \in Instants, AttendreHorloge(t)
       PROVE  Suivi(noyau', noyau)
  <2>1. t \in Nat
    BY ModuloAssumption DEF Instants
  <2>2. QED
    BY <1>1, <1>2, <1>11, <2>1, WaitClockSuivi DEF AttendreHorloge
<1>12. CASE Reprise
  BY <1>12, RepriseSuivi
<1>13. CASE Tic
  BY <1>13, TicSuivi
<1>14. CASE UNCHANGED vars
  BY <1>14, ReleveSuivi DEF vars, Releve
<1>15. CASE Arret
  BY <1>14, <1>15 DEF Arret
<1>16. QED
  BY <1>4, <1>5, <1>6, <1>7, <1>8, <1>9, <1>10, <1>11, <1>12, <1>13, <1>14, <1>15
     DEF Next

LEMMA InitAttente == Init => IInvAttente
<1>1. Attentes(NoyauVide)
  <2>1. \A x \in PID : NoyauVide.etat[x] = "MORT"
    BY DEF NoyauVide
  <2>2. QED
    BY <2>1 DEF Attentes, AttenteDe, Patient, Eveille, Dormeur
<1>2. PICK m : m = Demarrer(NoyauVide, 0)
  OBVIOUS
<1>3. /\ Ordonne(m) /\ PidsLibres(m) # {}
      /\ \E p \in PID : \E n : EstNe(n, NoyauVide, p) /\ MemesFils(m, n)
  BY <1>2, OisifDemarre
<1>4. Attentes(m)
  <2>1. \A p \in PID : NoyauVide.etat[p] = "MORT"
    BY DEF NoyauVide
  <2>2. QED
    BY <1>1, <1>3, <2>1, DemarrerSuivi DEF Suivi
<1>5. \E p \in PID : \E n : /\ m.etat[p] = "MORT"
                            /\ EstNe(n, m, p) /\ MemesFils(Demarrer(m, 1), n)
  BY <1>3, DemarrerOrdonne DEF Ordonne
<1>6. Attentes(Demarrer(m, 1))
  BY <1>4, <1>5, DemarrerSuivi DEF Suivi
<1>7. QED
  BY <1>2, <1>6, InitIInv DEF Init, IInvAttente

LEMMA NextAttente == IInvAttente /\ [Next]_vars => IInvAttente'
<1>1. SUFFICES ASSUME IInvAttente, [Next]_vars PROVE IInvAttente'
  OBVIOUS
<1>2. IInv'
  BY <1>1, NextIInv DEF IInvAttente
<1>3. Suivi(noyau', noyau)
  BY <1>1, NextSuivi DEF IInvAttente
<1>4. QED
  BY <1>2, <1>3 DEF Suivi, IInvAttente

LEMMA InvariantAttente == Spec => []IInvAttente
  BY InitAttente, NextAttente, PTL DEF Spec

(* A father is blocked in waitpid only while what it waits for has not     *)
(* happened; once woken, it finds its zombie, however late it runs         *)
(* (process.c:47, 312-334).                                                *)
THEOREM WaitpidSansPerteCorrect == Spec => []WaitpidSansPerte
<1>1. IInvAttente => WaitpidSansPerte
  BY AttentesSuffisent DEF IInvAttente, IInv, Ordonne, Stable, WaitpidSansPerte
<1>2. QED
  BY <1>1, InvariantAttente, PTL

(* Only a call of its father, or the end of its father, frees a zombie     *)
(* (process.c:88-120).                                                     *)
THEOREM ZombieAttendSonPereCorrect == Spec => ZombieAttendSonPere
<1>1. IInvAttente /\ [Next]_vars =>
        [\A p \in PID :
           noyau.etat[p] = "ZOMBIE" /\ noyau'.etat[p] # "ZOMBIE" =>
             /\ noyau'.etat[p] = "MORT"
             /\ \/ noyau.pere[p] = actif
                \/ noyau'.etat[noyau.pere[p]] \in {"ZOMBIE", "MORT"}]_vars
  BY NextSuivi DEF IInvAttente, Suivi, ZombiesGardes, actif
<1>2. QED
  BY <1>1, InvariantAttente, PTL DEF Spec, ZombieAttendSonPere

-----------------------------------------------------------------------------
(* Who is alive.  Everything the process manager does keeps the living,    *)
(* but start and the end of a process.                                     *)
MemesVifs(r, k) == \A x \in PID : r.etat[x] \in Finis <=> k.etat[x] \in Finis

Finit(r, k, p) == \A x \in PID : r.etat[x] \in Finis <=> k.etat[x] \in Finis \/ x = p

Nait(r, k, p) == \A x \in PID : r.etat[x] \in Finis <=> k.etat[x] \in Finis /\ x # p

LEMMA ReleveVifs ==
  ASSUME NEW k, NEW r, Releve(r, k)
  PROVE  MemesVifs(r, k)
  BY DEF Releve, MemesVifs, Finis

LEMMA VifsTransitif ==
  ASSUME NEW k, NEW m, NEW r, MemesVifs(m, k), MemesVifs(r, m)
  PROVE  MemesVifs(r, k)
  BY DEF MemesVifs

LEMMA VifsPuisFin ==
  ASSUME NEW k, NEW m, NEW s, NEW r, NEW p, MemesVifs(m, k), Finit(s, m, p), MemesVifs(r, s)
  PROVE  Finit(r, k, p)
  BY DEF MemesVifs, Finit

LEMMA DeplaceVifs ==
  ASSUME NEW k, Sain(k), NEW p \in PID, k.etat[p] \notin Finis, NEW e, e \notin Finis,
         NEW r, EstDeplace(r, k, p, e)
  PROVE  MemesVifs(r, k)
<1>1. k.etat \in [PID -> Etats]
  BY DEF Sain, TypeNoyau
<1>2. r.etat[p] = e /\ \A x \in PID : x # p => r.etat[x] = k.etat[x]
  BY <1>1 DEF EstDeplace
<1>3. QED
  BY <1>2 DEF MemesVifs

LEMMA DetruireZombieVifs ==
  ASSUME NEW k, Sain(k), NEW z \in PID, k.etat[z] = "ZOMBIE"
  PROVE  MemesVifs(Detruire(k, z), k)
<1>1. PICK r : r = Detruire(k, z)
  OBVIOUS
<1>2. Epargne(r, k) /\ \A x \in PID : k.etat[x] # "ZOMBIE" => r.etat[x] = k.etat[x]
  BY <1>1, DetruireZombie
<1>3. Suspendus \cap Finis = {}
  BY DEF Suspendus, Finis
<1>4. ASSUME NEW x \in PID PROVE r.etat[x] \in Finis <=> k.etat[x] \in Finis
  BY <1>2, <1>3 DEF Epargne, Finis
<1>5. QED
  BY <1>1, <1>4 DEF MemesVifs

LEMMA OrdonnancerVifs ==
  ASSUME NEW k, Stable(k), NEW r, Sain(r), Libere(r, k)
  PROVE  MemesVifs(Ordonnancer(r), r)
<1>1. AuPlusUnActif(r) /\ OisifDisponible(r)
  BY ActifProp, LibereProp DEF Stable, Libere
<1>2. MemesFils(Ordonnancer(r), r)
  BY <1>1, OrdonnancerProp
<1>3. QED
  BY <1>2, MemesFilsReleve, ReleveVifs

LEMMA WaitClockVifs ==
  ASSUME NEW k, Stable(k), k.pid_actif # 0, NEW t \in Nat
  PROVE  MemesVifs(WaitClock(k, t), k)
<1>1. PICK a : a = k.pid_actif
  OBVIOUS
<1>2. a \in PID /\ k.etat[a] = "ACTIF" /\ Sain(k)
  BY <1>1, ActifProp DEF Stable
<1>3. PICK r : r = Endormir(k, a, t)
  OBVIOUS
<1>4. Sain(r) /\ EstDeplace(r, k, a, "BLOQUE_SUR_SEMAPHORE") /\ r.pid_actif = k.pid_actif
  BY <1>2, <1>3, EndormirProp
<1>5. Libere(r, k)
  BY <1>1, <1>2, <1>4, DeplaceLibere
<1>6. MemesVifs(r, k)
  BY <1>2, <1>4, DeplaceVifs DEF Finis
<1>7. MemesVifs(Ordonnancer(r), r)
  BY <1>4, <1>5, OrdonnancerVifs
<1>8. QED
  BY <1>1, <1>3, <1>6, <1>7, VifsTransitif DEF WaitClock

LEMMA EchecConfirmeVifs ==
  ASSUME NEW k, Stable(k), k.pid_actif # 0, NEW t \in Nat
  PROVE  MemesVifs(EchecConfirme(k, t), k)
<1>1. PICK su : su = [k.suite EXCEPT ![k.pid_actif] = "condamne"]
  OBVIOUS
<1>2. PICK r : r = [k EXCEPT !.suite = su]
  OBVIOUS
<1>3. k \in TypeNoyau
  BY DEF Stable, Sain
<1>4. su \in [PID -> Suites]
  BY <1>1, <1>3, ActifProp DEF TypeNoyau, Suites
<1>5. /\ r \in TypeNoyau
      /\ r.etat = k.etat /\ r.prio = k.prio /\ r.pere = k.pere /\ r.fils = k.fils
      /\ r.activables = k.activables /\ r.endormis = k.endormis
      /\ r.pid_actif = k.pid_actif
  BY <1>2, <1>3, <1>4 DEF TypeNoyau
<1>6. Stable(r)
  BY <1>5, ChampsStables
<1>7. EchecConfirme(k, t) = WaitClock(r, t)
  BY <1>1, <1>2 DEF EchecConfirme
<1>8. MemesVifs(WaitClock(r, t), r)
  BY <1>5, <1>6, WaitClockVifs
<1>9. QED
  BY <1>5, <1>7, <1>8 DEF MemesVifs

LEMMA RecolterVifs ==
  ASSUME NEW k, Stable(k), NEW c \in PID, k.etat[c] = "ZOMBIE"
  PROVE  MemesVifs(Recolter(k, c), k)
<1>1. PICK r : r = Detruire(k, c)
  OBVIOUS
<1>2. Sain(r) /\ Libere(r, k) /\ MemesVifs(r, k)
  BY <1>1, DetruireZombie, DetruireZombieVifs DEF Stable
<1>3. MemesVifs(Ordonnancer(r), r)
  BY <1>2, OrdonnancerVifs
<1>4. QED
  BY <1>1, <1>2, <1>3, VifsTransitif DEF Recolter

LEMMA AttendreFilsVifs ==
  ASSUME NEW k, Stable(k), k.pid_actif # 0, NEW quoi \in PID \cup {-2}
  PROVE  MemesVifs(AttendreFils(k, quoi), k)
<1>1. PICK a : a = k.pid_actif
  OBVIOUS
<1>2. a \in PID /\ k.etat[a] = "ACTIF" /\ Sain(k) /\ k \in TypeNoyau
  BY <1>1, ActifProp DEF Stable, Sain
<1>3. PICK at : at = [k.attend_fils EXCEPT ![a] = quoi]
  OBVIOUS
<1>4. PICK su : su = [k.suite EXCEPT ![a] = "waitpid"]
  OBVIOUS
<1>5. at \in [PID -> -2..NBPROC-1]
  <2>1. quoi \in -2..NBPROC-1
    BY NbprocAssumption DEF PID
  <2>2. k.attend_fils \in [PID -> -2..NBPROC-1]
    BY <1>2 DEF TypeNoyau
  <2>3. QED
    BY <1>2, <1>3, <2>1, <2>2
<1>6. su \in [PID -> Suites]
  BY <1>2, <1>4 DEF TypeNoyau, Suites
<1>7. PICK m : m = [k EXCEPT !.attend_fils = at, !.suite = su]
  OBVIOUS
<1>8. /\ m \in TypeNoyau
      /\ m.etat = k.etat /\ m.prio = k.prio /\ m.pere = k.pere /\ m.fils = k.fils
      /\ m.activables = k.activables /\ m.endormis = k.endormis
      /\ m.pid_actif = k.pid_actif
  BY <1>2, <1>5, <1>6, <1>7 DEF TypeNoyau
<1>9. Stable(m)
  BY <1>8, ChampsStables
<1>10. PICK r : r = Bloquer(m, a, "BLOQUE_SUR_ATTENTE_D_UN_FILS")
  OBVIOUS
<1>11. /\ Sain(r) /\ EstDeplace(r, m, a, "BLOQUE_SUR_ATTENTE_D_UN_FILS")
       /\ r.pid_actif = m.pid_actif
  BY <1>2, <1>8, <1>9, <1>10, BloquerProp DEF Stable, SansFile, Etats
<1>12. Libere(r, m)
  BY <1>1, <1>2, <1>9, <1>11, DeplaceLibere DEF Stable
<1>13. MemesVifs(r, m)
  BY <1>2, <1>8, <1>9, <1>11, DeplaceVifs DEF Stable, Finis
<1>14. MemesVifs(Ordonnancer(r), r)
  BY <1>9, <1>11, <1>12, OrdonnancerVifs
<1>15. AttendreFils(k, quoi) = Ordonnancer(r)
  BY <1>1, <1>3, <1>4, <1>7, <1>10 DEF AttendreFils
<1>16. QED
  BY <1>8, <1>13, <1>14, <1>15 DEF MemesVifs

(* p, which other than idle, becomes a zombie and nobody else ends.        *)
LEMMA ZombifierFinit ==
  ASSUME NEW k, Sain(k), NEW p \in PID, p # 0,
         k.etat[p] \notin {"MORT", "ZOMBIE"}, k.pere[p] # AUCUN
  PROVE  Finit(Zombifier(k, p), k, p)
<1>1. PICK d : d = IF Zombies(k, p) = {} THEN k ELSE Detruire(k, PremierZombie(k, p))
  OBVIOUS
<1>2. Sain(d) /\ MemesVifs(d, k) /\ d.etat[p] = k.etat[p] /\ d.pere[p] = k.pere[p]
  <2>1. CASE Zombies(k, p) = {}
    <3>1. d = k
      BY <1>1, <2>1
    <3>2. QED
      BY <3>1 DEF MemesVifs
  <2>2. CASE Zombies(k, p) # {}
    <3>1. PICK z : z = PremierZombie(k, p)
      OBVIOUS
    <3>2. z \in PID /\ k.etat[z] = "ZOMBIE" /\ k.pere[z] = p
      BY <2>2, <3>1, PremierZombieProp
    <3>3. d = Detruire(k, z)
      BY <1>1, <2>2, <3>1
    <3>4. QED
      BY <3>2, <3>3, DetruireZombie, DetruireZombieVifs
  <2>3. QED
    BY <2>1, <2>2
<1>3. PICK r : r = Bloquer(d, p, "ZOMBIE")
  OBVIOUS
<1>4. EstDeplace(r, d, p, "ZOMBIE")
  BY <1>2, <1>3, BloquerProp DEF SansFile, Etats
<1>5. r.etat[p] = "ZOMBIE" /\ \A x \in PID : x # p => r.etat[x] = d.etat[x]
  BY <1>2, <1>4 DEF EstDeplace, Sain, TypeNoyau
<1>6. Zombifier(k, p) = r
  BY <1>1, <1>3 DEF Zombifier
<1>7. QED
  BY <1>2, <1>5, <1>6 DEF MemesVifs, Finit, Finis

(* terminaison_processus ends p and nobody else, or stops the kernel.      *)
LEMMA TerminaisonFinit ==
  ASSUME NEW k, Stable(k), NEW p \in PID, p # 0, k.etat[p] \notin {"MORT", "ZOMBIE"},
         NEW t, t = TerminaisonProcessus(k, p)
  PROVE  /\ k.pere[p] # AUCUN /\ FauteDeParcours(k, p) => MemesVifs(t, k)
         /\ ~(k.pere[p] # AUCUN /\ FauteDeParcours(k, p)) => Finit(t, k, p)
<1>1. Sain(k) /\ OisifDisponible(k) /\ AuPlusUnActif(k)
  BY ActifProp DEF Stable
<1>2. CASE k.pere[p] = AUCUN
  <2>1. PICK r : r = Detruire(k, p)
    OBVIOUS
  <2>2. PICK D : D = Detruits(k, p)
    OBVIOUS
  <2>3. Sain(r) /\ EstDetruit(r, k, D)
    BY <1>1, <2>1, <2>2, DetruireProp
  <2>4. p \in D /\ \A q \in D : q # p => k.etat[q] = "ZOMBIE"
    BY <1>1, <2>2, DetruitsProp
  <2>5. 0 \in PID /\ 0 \notin D
    BY <1>1, <2>4, NbprocAssumption DEF OisifDisponible, PID
  <2>6. OisifDisponible(r) /\ AuPlusUnActif(r)
    BY <1>1, <2>3, <2>5 DEF EstDetruit, OisifDisponible, AuPlusUnActif
  <2>7. Finit(r, k, p)
    <3>1. ASSUME NEW x \in PID PROVE r.etat[x] \in Finis <=> k.etat[x] \in Finis \/ x = p
      BY <2>3, <2>4 DEF EstDetruit, Finis
    <3>2. QED
      BY <3>1 DEF Finit
  <2>8. MemesVifs(Ordonnancer(r), r)
    BY <2>3, <2>6, OrdonnancerProp, MemesFilsReleve, ReleveVifs
  <2>9. MemesVifs(k, k)
    BY DEF MemesVifs
  <2>10. t = Ordonnancer(r)
    BY <1>2, <2>1 DEF TerminaisonProcessus
  <2>11. QED
    BY <1>2, <2>7, <2>8, <2>9, <2>10, VifsPuisFin
<1>3. CASE k.pere[p] # AUCUN /\ FauteDeParcours(k, p)
  <2>1. t = [k EXCEPT !.panne = TRUE]
    BY <1>3 DEF TerminaisonProcessus
  <2>2. t.etat = k.etat
    BY <1>1, <2>1 DEF Sain, TypeNoyau
  <2>3. QED
    BY <1>3, <2>2 DEF MemesVifs
<1>4. CASE k.pere[p] # AUCUN /\ ~FauteDeParcours(k, p)
  <2>1. PICK m : m = ReveillerPere(k, p)
    OBVIOUS
  <2>2. /\ Sain(m) /\ Libere(m, k) /\ m.pere = k.pere
        /\ \A x \in PID : \/ m.etat[x] = k.etat[x]
                          \/ /\ k.etat[x] = "BLOQUE_SUR_ATTENTE_D_UN_FILS"
                             /\ m.etat[x] = "ACTIVABLE"
    BY <1>1, <1>4, <2>1, ReveillerPereProp
  <2>3. m.etat[p] \notin {"MORT", "ZOMBIE"}
    BY <2>2
  <2>4. MemesVifs(m, k)
    BY <2>2 DEF MemesVifs, Finis
  <2>5. PICK z : z = Zombifier(m, p)
    OBVIOUS
  <2>6. Sain(z) /\ Libere(z, m) /\ Finit(z, m, p)
    BY <1>4, <2>2, <2>3, <2>5, ZombifierProp, ZombifierFinit
  <2>7. Libere(z, k)
    BY <2>2, <2>6 DEF Libere
  <2>8. MemesVifs(Ordonnancer(z), z)
    BY <2>6, <2>7, OrdonnancerVifs
  <2>9. t = Ordonnancer(z)
    BY <1>4, <2>1, <2>5 DEF TerminaisonProcessus
  <2>10. QED
    BY <1>4, <2>4, <2>6, <2>8, <2>9, VifsPuisFin
<1>5. QED
  BY <1>2, <1>3, <1>4

LEMMA DemarrerNait ==
  ASSUME NEW k, Sain(k), AuPlusUnActif(k), PidsLibres(k) # {}, NEW prio \in Int,
         k.pid_actif # AUCUN => k.etat[k.pid_actif] # "MORT",
         OisifDisponible(k) \/ PidsLibres(k) = PID,
         NEW p, p = Min(PidsLibres(k)), NEW r, r = Demarrer(k, prio)
  PROVE  Ordonne(r) /\ p \in PidsLibres(k) /\ Nait(r, k, p)
<1>1. Ordonne(r) /\ p \in PidsLibres(k) /\ \E m : EstNe(m, k, p) /\ MemesFils(r, m)
  BY DemarrerProp
<1>2. PICK m : EstNe(m, k, p) /\ MemesFils(r, m)
  BY <1>1
<1>3. MemesVifs(r, m)
  BY <1>2, MemesFilsReleve, ReleveVifs
<1>4. Nait(m, k, p)
  BY <1>1, <1>2 DEF EstNe, Nait, PidsLibres, Finis
<1>5. QED
  BY <1>1, <1>3, <1>4 DEF MemesVifs, Nait

(* The steps of Processus.                                                 *)
LEMMA RepriseVifs ==
  ASSUME IStable, Reprise, NEW a, a = actif
  PROVE  /\ a \in PID
         /\ noyau.suite[a] # "condamne" => MemesVifs(noyau', noyau)
         /\ noyau.suite[a] = "condamne" =>
              IF noyau.pere[a] # AUCUN /\ FauteDeParcours(noyau, a)
              THEN MemesVifs(noyau', noyau) ELSE Finit(noyau', noyau, a)
<1>1. PICK n : n = noyau
  OBVIOUS
<1>3. /\ Stable(n) /\ n \in TypeNoyau /\ a \in PID /\ a # 0 /\ n.etat[a] = "ACTIF" /\ n.pid_actif = a
  BY <1>1, ActifProp DEF IStable, Stable, Sain, Reprise, actif
<1>4. PICK su : su = [n.suite EXCEPT ![a] = "rien"]
  OBVIOUS
<1>5. PICK at : at = [n.attend_fils EXCEPT ![a] = -1]
  OBVIOUS
<1>6. PICK k : k = [n EXCEPT !.suite = su]
  OBVIOUS
<1>7. PICK w : w = [k EXCEPT !.attend_fils = at]
  OBVIOUS
<1>8. su \in [PID -> Suites] /\ at \in [PID -> -2..NBPROC-1]
  <2>1. -1 \in -2..NBPROC-1
    BY NbprocAssumption
  <2>2. QED
    BY <1>3, <1>4, <1>5, <2>1 DEF TypeNoyau, Suites
<1>9. /\ k \in TypeNoyau
      /\ k.etat = n.etat /\ k.prio = n.prio /\ k.pere = n.pere /\ k.fils = n.fils
      /\ k.activables = n.activables /\ k.endormis = n.endormis
      /\ k.pid_actif = n.pid_actif /\ k.attend_fils = n.attend_fils
  BY <1>3, <1>6, <1>8 DEF TypeNoyau
<1>10. /\ w \in TypeNoyau
       /\ w.etat = n.etat /\ w.prio = n.prio /\ w.pere = n.pere /\ w.fils = n.fils
       /\ w.activables = n.activables /\ w.endormis = n.endormis
       /\ w.pid_actif = n.pid_actif
  BY <1>7, <1>8, <1>9 DEF TypeNoyau
<1>11. Stable(k) /\ Stable(w)
  BY <1>3, <1>9, <1>10, ChampsStables
<1>12. PICK c : c = n.attend_fils[a]
  OBVIOUS
<1>13. PICK t : t = (horloge + DELAI) % MODULO
  OBVIOUS
<1>14. t \in Nat
  <2>1. horloge + DELAI \in Nat
    BY ModuloAssumption DEF IStable, Instants
  <2>2. t \in Instants
    BY <1>13, <2>1, InstantsProp
  <2>3. QED
    BY <2>2, ModuloAssumption DEF Instants
<1>15. noyau' = IF n.suite[a] = "condamne" THEN TerminaisonProcessus(k, a)
                ELSE IF c \in PID /\ n.etat[c] = "ZOMBIE" THEN Recolter(w, c)
                ELSE EchecConfirme(w, t)
  BY <1>1, <1>4, <1>5, <1>6, <1>7, <1>9, <1>12, <1>13 DEF Reprise, actif
<1>16. PICK r : r = noyau'
  OBVIOUS
<1>17. CASE n.suite[a] = "condamne"
  <2>1. r = TerminaisonProcessus(k, a)
    BY <1>15, <1>16, <1>17
  <2>2. FauteDeParcours(k, a) = FauteDeParcours(n, a)
    BY <1>9 DEF FauteDeParcours, Zombies, PremierZombie
  <2>3. /\ n.pere[a] # AUCUN /\ FauteDeParcours(n, a) => MemesVifs(r, k)
        /\ ~(n.pere[a] # AUCUN /\ FauteDeParcours(n, a)) => Finit(r, k, a)
    BY <1>3, <1>9, <1>11, <2>1, <2>2, TerminaisonFinit
  <2>4. /\ n.pere[a] # AUCUN /\ FauteDeParcours(n, a) => MemesVifs(r, n)
        /\ ~(n.pere[a] # AUCUN /\ FauteDeParcours(n, a)) => Finit(r, n, a)
    BY <1>9, <2>3 DEF MemesVifs, Finit
  <2>5. QED
    BY <1>1, <1>3, <1>16, <1>17, <2>4
<1>18. CASE n.suite[a] # "condamne"
  <2>1. \/ c \in PID /\ n.etat[c] = "ZOMBIE" /\ r = Recolter(w, c)
        \/ r = EchecConfirme(w, t)
    BY <1>15, <1>16, <1>18
  <2>2. MemesVifs(r, w)
    BY <1>3, <1>10, <1>11, <1>14, <2>1, RecolterVifs, EchecConfirmeVifs
  <2>3. MemesVifs(r, n)
    BY <1>10, <2>2 DEF MemesVifs
  <2>4. QED
    BY <1>1, <1>3, <1>16, <1>18, <2>3
<1>19. QED
  BY <1>17, <1>18

LEMMA AutresPasVifs ==
  ASSUME IStable,
         \/ WaitpidQuelconque
         \/ \E pid \in PID : WaitpidPrecis(pid)
         \/ \E pid \in PID, newprio \in PRIOS : Chprio(pid, newprio)
         \/ \E t \in Instants : AttendreHorloge(t)
         \/ Tic
         \/ Arret
  PROVE  MemesVifs(noyau', noyau)
<1>1. Stable(noyau) /\ Sain(noyau) /\ actif \in PID /\ horloge \in Instants
  BY ActifProp DEF IStable, Stable, actif
<1>2. Programme => noyau.pid_actif # 0
  BY DEF Programme, actif
<1>3. (horloge + DELAI) % MODULO \in Nat
  <2>1. horloge + DELAI \in Nat
    BY <1>1, ModuloAssumption DEF Instants
  <2>2. QED
    BY <2>1, InstantsProp, ModuloAssumption DEF Instants
<1>4. CASE WaitpidQuelconque
  <2>1. CASE Zombies(noyau, actif) # {}
    <3>1. PICK z : z = PremierZombie(noyau, actif)
      OBVIOUS
    <3>2. z \in PID /\ noyau.etat[z] = "ZOMBIE"
      BY <1>1, <2>1, <3>1, PremierZombieProp
    <3>3. noyau' = Recolter(noyau, z)
      BY <1>4, <2>1, <3>1 DEF WaitpidQuelconque
    <3>4. QED
      BY <1>1, <3>2, <3>3, RecolterVifs
  <2>2. CASE Zombies(noyau, actif) = {}
    <3>1. noyau' = AttendreFils(noyau, -2)
      BY <1>4, <2>2 DEF WaitpidQuelconque
    <3>2. QED
      BY <1>1, <1>2, <1>4, <3>1, AttendreFilsVifs DEF WaitpidQuelconque
  <2>3. QED
    BY <2>1, <2>2
<1>5. ASSUME NEW pid \in PID, WaitpidPrecis(pid) PROVE MemesVifs(noyau', noyau)
  <2>1. \/ noyau' = EchecConfirme(noyau, (horloge + DELAI) % MODULO)
        \/ noyau.etat[pid] = "ZOMBIE" /\ noyau' = Recolter(noyau, pid)
        \/ noyau' = AttendreFils(noyau, pid)
    BY <1>5 DEF WaitpidPrecis
  <2>2. noyau.pid_actif # 0
    BY <1>2, <1>5 DEF WaitpidPrecis
  <2>3. QED
    BY <1>1, <1>3, <2>1, <2>2, EchecConfirmeVifs, AttendreFilsVifs, RecolterVifs
<1>6. ASSUME NEW pid \in PID, NEW newprio \in PRIOS, Chprio(pid, newprio)
      PROVE  MemesVifs(noyau', noyau)
  <2>1. PICK m : m = [noyau EXCEPT !.prio = noyau'.prio]
    OBVIOUS
  <2>2. m.etat = noyau.etat
    BY <1>1, <2>1 DEF Sain, TypeNoyau
  <2>3. MemesVifs(noyau', m)
    BY <1>6, <2>1, ChprioStep, MemesFilsReleve, ReleveVifs
  <2>4. QED
    BY <2>2, <2>3 DEF MemesVifs
<1>7. ASSUME NEW t \in Instants, AttendreHorloge(t) PROVE MemesVifs(noyau', noyau)
  <2>1. t \in Nat
    BY ModuloAssumption DEF Instants
  <2>2. QED
    BY <1>1, <1>2, <1>7, <2>1, WaitClockVifs DEF AttendreHorloge
<1>8. CASE Tic
  <2>1. PICK k : k = EveillerEchus(noyau, horloge')
    OBVIOUS
  <2>2. Sain(k) /\ Libere(k, noyau) /\ Releve(k, noyau)
    BY <1>1, <2>1, EveillerEchusProp, EveillerEchusReleve
  <2>3. noyau' = Ordonnancer(k)
    BY <1>8, <2>1 DEF Tic
  <2>4. MemesVifs(noyau', k)
    BY <1>1, <2>2, <2>3, OrdonnancerVifs
  <2>5. QED
    BY <2>2, <2>4, ReleveVifs, VifsTransitif
<1>9. CASE Arret
  BY <1>9 DEF Arret, vars, MemesVifs
<1>10. QED
  BY <1>4, <1>5, <1>6, <1>7, <1>8, <1>9
=============================================================================
