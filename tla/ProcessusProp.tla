--------------------------- MODULE ProcessusProp ---------------------------
(***************************************************************************)
(* What the process manager must satisfy.                                  *)
(***************************************************************************)
EXTENDS Processus, NoyauProp

(* Every field keeps its type.                                             *)
TypeOK == noyau \in TypeNoyau /\ horloge \in Instants

(* FilesCoherentes and UnSeulActif (module NoyauProp): the queues agree    *)
(* with the states and exactly one process is active.                      *)
EtatEtFile == FilesCoherentes(noyau) /\ OisifDisponible(noyau) /\ UnSeulActif(noyau)

(* Between two calls nobody runnable has a higher priority than the active *)
(* process, whatever sequence of chprio, wake-ups and terminations led     *)
(* there, and the run queue is sorted by the current priorities.           *)
ActifPrioritaire == Triee(noyau.activables, noyau.prio) /\ Prioritaire(noyau)

(* FiliationCoherente (module NoyauProp): the lists of children and the    *)
(* pere fields describe one and the same forest of existing processes.     *)
Filiation == FiliationCoherente(noyau)

(* AttenteFondee and ReveilFonde (module NoyauProp): no wake-up of waitpid *)
(* is lost, and a father that was woken finds its zombie child.            *)
WaitpidSansPerte == AttenteFondee(noyau) /\ ReveilFonde(noyau)

(* A zombie keeps its exit status until it is reaped: it can only be       *)
(* destroyed, and only by a call of its father or because its father       *)
(* ended.  (definir_etat_processus, process.c:88-120.)                     *)
ZombieAttendSonPere ==
  [][\A p \in PID :
       noyau.etat[p] = "ZOMBIE" /\ noyau'.etat[p] # "ZOMBIE" =>
         /\ noyau'.etat[p] = "MORT"
         /\ \/ noyau.pere[p] = actif
            \/ noyau'.etat[noyau.pere[p]] \in {"ZOMBIE", "MORT"}]_vars

(* Ticks go on being taken: idle has the processor again and again, or the *)
(* programs unmask interrupts again and again.  One that spins with        *)
(* interrupts masked takes no tick, and leaves every sleeper asleep.       *)
TicsPris == []<>(actif = 0) \/ []<><<Tic>>_horloge

(* If ticks go on being taken, a process asleep in wait_clock is woken (or *)
(* killed), across the wrap-around of the clock counter and whatever the   *)
(* others put to sleep, chprio or kill meanwhile.                          *)
SommeilFini ==
  TicsPris =>
    \A p \in PID : noyau.etat[p] = "BLOQUE_SUR_SEMAPHORE"
                     ~> (noyau.panne \/ noyau.etat[p] # "BLOQUE_SUR_SEMAPHORE")

(* Round robin, if ticks go on being taken: a runnable process of the      *)
(* highest priority present gets the processor after finitely many ticks,  *)
(* unless it stops being one.                                              *)
AuPlusHaut(p) ==
  /\ noyau.etat[p] = "ACTIVABLE"
  /\ \A q \in PID : noyau.etat[q] \in {"ACTIF", "ACTIVABLE"} => noyau.prio[q] <= noyau.prio[p]

TourDeRole ==
  TicsPris => \A p \in PID : []<>(noyau.panne \/ ~AuPlusHaut(p))

-----------------------------------------------------------------------------
(* What comments of the code say of it, and the code does not do.          *)

(* "les fils zombies sont détruits" (process.c:35): the end of a process   *)
(* whose father lives does not bring the kernel down, whatever children it *)
(* has.  It does when a zombie child has another child, living or zombie,  *)
(* behind it in the list.                                                  *)
PasDePanne == ~noyau.panne
=============================================================================
