----------------------------- MODULE NoyauProp -----------------------------
(***************************************************************************)
(* What the functions of module Noyau preserve, as predicates on the       *)
(* process table k.  Module ProcessusProp states them of the running       *)
(* system; ProcessusProofs proves that each function preserves them.       *)
(***************************************************************************)
EXTENDS Noyau

(* A process is in the run queue exactly when it is ACTIVABLE, among the   *)
(* sleepers exactly when it is BLOQUE_SUR_SEMAPHORE, and never twice: what *)
(* the assertions of queue_add and queue_del (queue.h:78,158) rely on.     *)
FilesCoherentes(k) ==
  /\ SansDoublon(k.activables) /\ SansDoublon(k.endormis)
  /\ Range(k.activables) = {p \in PID : k.etat[p] = "ACTIVABLE"}
  /\ Range(k.endormis) = {p \in PID : k.etat[p] = "BLOQUE_SUR_SEMAPHORE"}

(* Exactly one process is ACTIF, the one pid_actif names.                  *)
UnSeulActif(k) == {p \in PID : k.etat[p] = "ACTIF"} = {k.pid_actif}

(* Idle never blocks nor ends: ordonnancer always finds somebody to run.   *)
OisifDisponible(k) == k.etat[0] \in {"ACTIF", "ACTIVABLE"}

(* Nobody runnable has a higher priority than the active process.          *)
Prioritaire(k) == \A p \in Range(k.activables) : k.prio[p] <= k.prio[k.pid_actif]

(* The list of children and the pere fields agree on every process that    *)
(* exists; nobody that exists has a free slot for father (a reused pid     *)
(* never inherits children); a zombie always has a father to reap it, so   *)
(* no slot is lost; the end of a zombie leaves no zombie child behind.     *)
ListesEtPeres(k) ==
  \A p \in PID :
    /\ SansDoublon(k.fils[p])
    /\ Range(k.fils[p]) = IF k.etat[p] = "MORT" THEN {}
                          ELSE {c \in PID : k.etat[c] # "MORT" /\ k.pere[c] = p}
    /\ k.etat[p] # "MORT" /\ k.pere[p] # AUCUN => k.etat[k.pere[p]] # "MORT"
    /\ k.etat[p] = "ZOMBIE" => k.pere[p] # AUCUN

(* Nobody is its own ancestor, although slots are reused all the time:     *)
(* every group of existing processes has a member whose father is outside. *)
SansCycle(k) ==
  \A S \in SUBSET {p \in PID : k.etat[p] # "MORT"} :
    S # {} => \E p \in S : k.pere[p] \notin S

FiliationCoherente(k) == ListesEtPeres(k) /\ SansCycle(k)

(* No lost wake-up in waitpid: a father is blocked only while what it      *)
(* waits for has not happened: it has children, and none of them (or not   *)
(* the one it asked for) has ended.                                        *)
AttenteFondee(k) ==
  \A p \in PID : k.etat[p] = "BLOQUE_SUR_ATTENTE_D_UN_FILS" =>
    /\ k.suite[p] = "waitpid"
    /\ Range(k.fils[p]) # {}
    /\ \/ k.attend_fils[p] = -2 /\ Zombies(k, p) = {}
       \/ /\ k.attend_fils[p] \in Range(k.fils[p])
          /\ k.etat[k.attend_fils[p]] # "ZOMBIE"

(* A father on its way back from waitpid still finds, however long it      *)
(* waited for the processor and whatever happened meanwhile, the zombie    *)
(* that woke it: the confirme of process.c:312-319 and 332-334 hold.       *)
ReveilFonde(k) ==
  \A p \in PID : k.suite[p] = "waitpid" /\ k.etat[p] \in {"ACTIF", "ACTIVABLE"} =>
    /\ k.attend_fils[p] \in PID
    /\ k.etat[k.attend_fils[p]] = "ZOMBIE"
    /\ k.pere[k.attend_fils[p]] = p
=============================================================================
