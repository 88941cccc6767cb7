------------------------------- MODULE Noyau -------------------------------
(***************************************************************************)
(* The process table of kernel/process.c and the functions that change it: *)
(* definir_etat_processus, ordonnancer, terminaison_processus, start,      *)
(* wait_clock.  C functions call one another and each changes several      *)
(* parts of the table, so the table is one record k and each function is   *)
(* an operator from the record before to the record after.                 *)
(*                                                                         *)
(* The kernel runs with interrupts masked and never yields inside these    *)
(* functions except in ctx_sw, the last call of ordonnancer.  A process    *)
(* suspended there with something left to do in the kernel has it recorded *)
(* in k.suite (module Processus runs it).                                  *)
(*                                                                         *)
(* Definitions named X_... are mutated forms of X, used only to check that *)
(* the properties would notice such a slip.                                *)
(***************************************************************************)
EXTENDS FilePrio

CONSTANT NBPROC          \* size of table_des_processus

ASSUME NbprocAssumption == NBPROC \in Nat /\ NBPROC >= 2

PID   == 0..NBPROC-1
AUCUN == -1              \* no process: a null pere, or pid_actif before start

Etats == {"ACTIF", "ACTIVABLE", "BLOQUE_SUR_SEMAPHORE",
          "BLOQUE_SUR_ENTREE_SORTIE", "BLOQUE_SUR_ATTENTE_D_UN_FILS",
          "BLOQUE_SUR_RECEPTION", "BLOQUE_SUR_ENVOI", "ENDORMI",
          "MORT", "ZOMBIE"}

(* What is left to run when a process suspended in ctx_sw resumes:         *)
(* nothing; the end of waitpid; the terminaison_processus of a failed      *)
(* confirme.                                                               *)
Suites == {"rien", "waitpid", "condamne"}

(* pid = -1 exactly when etat = MORT in the code, so pid is not kept.      *)
(* activables and endormis are the two global queues; reveil is            *)
(* wait_ieme_interruption_clock; panne: the kernel faulted and stopped.    *)
TypeNoyau ==
  [pid_actif   : PID \cup {AUCUN},
   etat        : [PID -> Etats],
   prio        : [PID -> Int],
   pere        : [PID -> PID \cup {AUCUN}],
   fils        : [PID -> Seq(PID)],
   attend_fils : [PID -> -2..NBPROC-1],
   reveil      : [PID -> Nat],
   suite       : [PID -> Suites],
   activables  : Seq(PID),
   endormis    : Seq(PID),
   panne       : BOOLEAN]

(* initialiser_gestion_des_processus: every slot is free, nobody runs.     *)
NoyauVide ==
  [pid_actif   |-> AUCUN,
   etat        |-> [p \in PID |-> "MORT"],
   prio        |-> [p \in PID |-> 0],
   pere        |-> [p \in PID |-> AUCUN],
   fils        |-> [p \in PID |-> << >>],
   attend_fils |-> [p \in PID |-> -1],
   reveil      |-> [p \in PID |-> 0],
   suite       |-> [p \in PID |-> "rien"],
   activables  |-> << >>,
   endormis    |-> << >>,
   panne       |-> FALSE]

-----------------------------------------------------------------------------
(* definir_etat_processus, one operator per target state.                  *)

(* Leaving ACTIVABLE or BLOQUE_SUR_SEMAPHORE unlinks p from its queue.     *)
(* reveil is read only while p sleeps, so it goes back to 0 here.          *)
Quitter_DormeurOublie(k, p) ==
  [k EXCEPT !.activables = IF k.etat[p] = "ACTIVABLE" THEN queue_del(@, p) ELSE @]

Quitter(k, p) ==
  [k EXCEPT !.activables = IF k.etat[p] = "ACTIVABLE" THEN queue_del(@, p) ELSE @,
            !.endormis   = IF k.etat[p] = "BLOQUE_SUR_SEMAPHORE" THEN queue_del(@, p) ELSE @,
            !.reveil     = [@ EXCEPT ![p] = 0]]

Activer(k, p) ==
  IF k.etat[p] = "ACTIVABLE" THEN k
  ELSE LET q == Quitter(k, p)
       IN [q EXCEPT !.activables = queue_add(@, p, k.prio),
                    !.etat       = [@ EXCEPT ![p] = "ACTIVABLE"]]

(* BLOQUE_SUR_SEMAPHORE: only the active process puts itself to sleep.     *)
Endormir(k, p, t) ==
  [k EXCEPT !.reveil   = [@ EXCEPT ![p] = t],
            !.endormis = queue_add(@, p, k.prio),
            !.etat     = [@ EXCEPT ![p] = "BLOQUE_SUR_SEMAPHORE"]]

(* The default case: a state without a queue of the process module.        *)
Bloquer(k, p, e) ==
  LET q == Quitter(k, p) IN [q EXCEPT !.etat = [@ EXCEPT ![p] = e]]

(* MORT is recursive: the zombie children of a destroyed process are       *)
(* destroyed too.  The processes destroyed with p are the smallest set     *)
(* holding p and the zombie children of its members.                       *)
FermeParDestruction(k, S) ==
  \A q \in S : \A c \in Range(k.fils[q]) : k.etat[c] = "ZOMBIE" => c \in S

Detruits(k, p) ==
  {q \in PID : \A S \in SUBSET PID :
                 p \in S /\ FermeParDestruction(k, S) => q \in S}

(* The children of a destroyed process lose their father.  p itself keeps  *)
(* its pere field, which nothing resets before the slot is reused; it      *)
(* leaves the list of that father.  The other fields of a free slot are    *)
(* never read: they take a fixed value.                                    *)
Detruire_FilsNonOrphelins(k, p) ==
  LET q == Quitter(k, p)
  IN [q EXCEPT
        !.etat = [x \in PID |-> IF x \in Detruits(k, p) THEN "MORT" ELSE @[x]],
        !.fils = IF k.pere[p] # AUCUN THEN [@ EXCEPT ![k.pere[p]] = queue_del(@, p)] ELSE @]

Detruire(k, p) ==
  LET D == Detruits(k, p)
      O == UNION {Range(k.fils[q]) : q \in D}
      q == Quitter(k, p)
      sans == [x \in PID |-> IF x \in D THEN << >> ELSE k.fils[x]]
  IN [q EXCEPT
        !.etat        = [x \in PID |-> IF x \in D THEN "MORT" ELSE @[x]],
        !.pere        = [x \in PID |-> IF x \in O THEN AUCUN ELSE @[x]],
        !.fils        = IF k.pere[p] # AUCUN /\ k.etat[k.pere[p]] # "MORT"
                        THEN [sans EXCEPT ![k.pere[p]] = queue_del(@, p)]
                        ELSE sans,
        !.prio        = [x \in PID |-> IF x \in D THEN 0 ELSE @[x]],
        !.attend_fils = [x \in PID |-> IF x \in D THEN -1 ELSE @[x]],
        !.suite       = [x \in PID |-> IF x \in D THEN "rien" ELSE @[x]]]

(* The first zombie of p's list of children, in list order.                *)
Zombies(k, p) == {i \in 1..Len(k.fils[p]) : k.etat[k.fils[p][i]] = "ZOMBIE"}

PremierZombie(k, p) == k.fils[p][Min(Zombies(k, p))]

(* ZOMBIE: the loop over the children destroys the first zombie child,     *)
(* which unlinks it, then follows its cleared next pointer, unless it was  *)
(* the last of the list: queue_entry(0) is not mapped (page fault).        *)
FauteDeParcours(k, p) ==
  Zombies(k, p) # {} /\ PremierZombie(k, p) # Last(k.fils[p])

(* queue_del comes first in the code; nothing reads the queues in between. *)
Zombifier(k, p) ==
  LET d == IF Zombies(k, p) = {} THEN k ELSE Detruire(k, PremierZombie(k, p))
  IN Bloquer(d, p, "ZOMBIE")

-----------------------------------------------------------------------------
(* ordonnancer: the top of the queue takes the processor, unless the       *)
(* active process can go on and has a higher priority.  queue_out, ACTIF,  *)
(* then the old active process goes back to the queue if it can go on.     *)
Tourne(k) == k.pid_actif # AUCUN /\ k.etat[k.pid_actif] = "ACTIF"

Elire(k) ==
  LET pr == queue_top(k.activables)
  IN [k EXCEPT !.activables = queue_out(@),
               !.etat       = [@ EXCEPT ![pr] = "ACTIF"],
               !.pid_actif  = pr]

Ordonnancer_SansRotation(k) ==
  IF queue_empty(k.activables) THEN k
  ELSE IF ~Tourne(k) THEN Elire(k)
  ELSE IF k.prio[queue_top(k.activables)] <= k.prio[k.pid_actif] THEN k
  ELSE Activer(Elire(k), k.pid_actif)

Ordonnancer(k) ==
  IF queue_empty(k.activables) THEN k
  ELSE IF ~Tourne(k) THEN Elire(k)
  ELSE IF k.prio[queue_top(k.activables)] < k.prio[k.pid_actif] THEN k
  ELSE Activer(Elire(k), k.pid_actif)

(* A father waiting for p, or for any child, becomes runnable and learns   *)
(* which child ended.                                                      *)
ReveillerPere_SeulementPrecis(k, p) ==
  LET f == k.pere[p]
  IN IF k.etat[f] = "BLOQUE_SUR_ATTENTE_D_UN_FILS" /\ k.attend_fils[f] = p
     THEN Activer(k, f) ELSE k

ReveillerPere(k, p) ==
  LET f == k.pere[p]
  IN IF /\ k.etat[f] = "BLOQUE_SUR_ATTENTE_D_UN_FILS"
        /\ k.attend_fils[f] \in {-2, p}
     THEN Activer([k EXCEPT !.attend_fils = [@ EXCEPT ![f] = p]], f)
     ELSE k

TerminaisonProcessus(k, p) ==
  IF k.pere[p] = AUCUN THEN Ordonnancer(Detruire(k, p))
  ELSE IF FauteDeParcours(k, p) THEN [k EXCEPT !.panne = TRUE]
  ELSE Ordonnancer(Zombifier(ReveillerPere(k, p), p))

(* The lowest free pid, for a kernel that has one.                         *)
PidsLibres_AvecZombies(k) == {p \in PID : k.etat[p] \in {"MORT", "ZOMBIE"}}

PidsLibres(k) == {p \in PID : k.etat[p] = "MORT"}

(* start, from the point where the program is known: a fresh slot, child   *)
(* of the active process and sorted among its children by priority.        *)
Demarrer(k, prio) ==
  LET p  == Min(PidsLibres(k))
      pr == [k.prio EXCEPT ![p] = prio]
      n  == [k EXCEPT
               !.etat        = [@ EXCEPT ![p] = "ENDORMI"],
               !.prio        = pr,
               !.pere        = [@ EXCEPT ![p] = k.pid_actif],
               !.fils        = IF k.pid_actif = AUCUN
                               THEN [k.fils EXCEPT ![p] = << >>]
                               ELSE [k.fils EXCEPT ![p] = << >>,
                                              ![k.pid_actif] = queue_add(@, p, pr)],
               !.attend_fils = [@ EXCEPT ![p] = -1],
               !.reveil      = [@ EXCEPT ![p] = 0],
               !.suite       = [@ EXCEPT ![p] = "rien"]]
  IN Ordonnancer(Activer(n, p))

(* wait_clock always suspends the active process, even until a past tick.  *)
WaitClock(k, t) == Ordonnancer(Endormir(k, k.pid_actif, t))

(* A failed confirme: the active process sleeps, then will be terminated.  *)
EchecConfirme(k, t) ==
  WaitClock([k EXCEPT !.suite = [@ EXCEPT ![k.pid_actif] = "condamne"]], t)

(* tic_PIT restarts its scan of the sleepers after each one it wakes: it   *)
(* wakes the first due one until none is due.                              *)
Echus_Strict(k, t) == {i \in 1..Len(k.endormis) : k.reveil[k.endormis[i]] < t}

Echus(k, t) == {i \in 1..Len(k.endormis) : k.reveil[k.endormis[i]] <= t}

EveillerPremier(k, t) ==
  IF Echus(k, t) = {} THEN k ELSE Activer(k, k.endormis[Min(Echus(k, t))])

EveillerEchus(k, t) ==
  LET apres[n \in 0..Len(k.endormis)] ==
        IF n = 0 THEN k ELSE EveillerPremier(apres[n-1], t)
  IN apres[Len(k.endormis)]
=============================================================================
