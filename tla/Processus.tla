----------------------------- MODULE Processus -----------------------------
(***************************************************************************)
(* The system calls of kernel/process.c and the clock of kernel/horloge.c. *)
(* One action is one call made by the active process, from its entry to    *)
(* the context switch it ends with or to its return, or one tick of the    *)
(* clock.  Calls that return an error at once change nothing and are not   *)
(* actions.  Definitions named X_... are mutated forms of X, used only to  *)
(* check that the properties would notice such a slip.                     *)
(***************************************************************************)
EXTENDS Noyau

CONSTANTS
  PRIOS,      \* priorities the programs give to start and chprio
  MODULO,     \* the clock counter counts modulo MODULO (2^32 in the code)
  DELAI       \* ticks a failed confirme sleeps (40 in the code)

ASSUME PriosAssumption  == PRIOS \subseteq Int
ASSUME ModuloAssumption == MODULO \in Nat \ {0} /\ DELAI \in Nat

VARIABLES
  noyau,      \* the process table and its queues
  horloge     \* nombre_d_interruptions_horloge_depuis_le_demarrage_du_noyau

vars == <<noyau, horloge>>

Instants == 0..MODULO-1

actif == noyau.pid_actif

(* A program (not idle) is running and is not in the middle of a call.     *)
Programme ==
  /\ ~noyau.panne
  /\ actif > 0
  /\ noyau.suite[actif] = "rien"

(* kernel_start starts idle_shell (pid 0, priority 0), which starts the    *)
(* shell (pid 1, priority 1); interrupts are masked until then.            *)
Init ==
  /\ noyau = Demarrer(Demarrer(NoyauVide, 0), 1)
  /\ horloge = 0

-----------------------------------------------------------------------------
(* start(nom, ssize, prio, args) of a known program.                       *)
Start(prio) ==
  /\ Programme
  /\ PidsLibres(noyau) # {}
  /\ noyau' = Demarrer(noyau, prio)
  /\ UNCHANGED horloge

(* start of an unknown program: confirme_sans_aboder sleeps, then start    *)
(* returns -1.                                                             *)
StartInconnu ==
  /\ Programme
  /\ PidsLibres(noyau) # {}
  /\ noyau' = WaitClock(noyau, (horloge + DELAI) % MODULO)
  /\ UNCHANGED horloge

Kill(pid) ==
  /\ Programme
  /\ pid # 0
  /\ noyau.etat[pid] \notin {"MORT", "ZOMBIE"}
  /\ noyau' = TerminaisonProcessus(noyau, pid)
  /\ UNCHANGED horloge

(* exit, or the return of the program's function (vie_processus).          *)
Exit ==
  /\ Programme
  /\ noyau' = TerminaisonProcessus(noyau, actif)
  /\ UNCHANGED horloge

(* The end of waitpid: the zombie child is destroyed.                      *)
Recolter(k, c) == Ordonnancer(Detruire(k, c))

AttendreFils(k, quoi) ==
  LET a == k.pid_actif
  IN Ordonnancer(Bloquer([k EXCEPT !.attend_fils = [@ EXCEPT ![a] = quoi],
                                   !.suite = [@ EXCEPT ![a] = "waitpid"]],
                         a, "BLOQUE_SUR_ATTENTE_D_UN_FILS"))

(* waitpid(pid < 0): the first zombie child, else wait for any child.      *)
WaitpidQuelconque ==
  /\ Programme
  /\ ~queue_empty(noyau.fils[actif])
  /\ noyau' = IF Zombies(noyau, actif) # {}
              THEN Recolter(noyau, PremierZombie(noyau, actif))
              ELSE AttendreFils(noyau, -2)
  /\ UNCHANGED horloge

(* waitpid(pid >= 0).  The only test that pid is a child is its pere       *)
(* field, which a free slot may still have: then confirme fails.           *)
WaitpidPrecis(pid) ==
  /\ Programme
  /\ ~queue_empty(noyau.fils[actif])
  /\ pid # actif
  /\ noyau.pere[pid] = actif
  /\ noyau' = CASE noyau.etat[pid] = "MORT"   -> EchecConfirme(noyau, (horloge + DELAI) % MODULO)
                [] noyau.etat[pid] = "ZOMBIE" -> Recolter(noyau, pid)
                [] OTHER                      -> AttendreFils(noyau, pid)
  /\ UNCHANGED horloge

(* chprio moves pid only in the queue of runnable processes, and yields    *)
(* only to a strictly higher priority.  Any process may change any other's *)
(* priority, idle's too.                                                   *)
Chprio_SansTri(pid, newprio) ==
  /\ Programme
  /\ newprio > 0
  /\ noyau.etat[pid] \notin {"MORT", "ZOMBIE"}
  /\ noyau' = Ordonnancer([noyau EXCEPT !.prio = [@ EXCEPT ![pid] = newprio]])
  /\ UNCHANGED horloge

Chprio(pid, newprio) ==
  /\ Programme
  /\ newprio > 0
  /\ noyau.etat[pid] \notin {"MORT", "ZOMBIE"}
  /\ noyau.prio[pid] # newprio
  /\ LET pr == [noyau.prio EXCEPT ![pid] = newprio]
         k  == [noyau EXCEPT
                  !.prio = pr,
                  !.activables = IF noyau.etat[pid] = "ACTIVABLE"
                                 THEN queue_add(queue_del(@, pid), pid, pr)
                                 ELSE @]
     IN noyau' = IF /\ ~queue_empty(k.activables)
                    /\ pr[queue_top(k.activables)] > pr[actif]
                 THEN Ordonnancer(k) ELSE k
  /\ UNCHANGED horloge

AttendreHorloge(t) ==
  /\ Programme
  /\ noyau' = WaitClock(noyau, t)
  /\ UNCHANGED horloge

(* The active process resumes in the call that suspended it.               *)
Reprise ==
  /\ ~noyau.panne
  /\ actif > 0
  /\ noyau.suite[actif] # "rien"
  /\ LET k == [noyau EXCEPT !.suite = [@ EXCEPT ![actif] = "rien"]]
         c == noyau.attend_fils[actif]
         w == [k EXCEPT !.attend_fils = [@ EXCEPT ![actif] = -1]]
     IN noyau' = IF noyau.suite[actif] = "condamne" THEN TerminaisonProcessus(k, actif)
                 ELSE IF c \in PID /\ noyau.etat[c] = "ZOMBIE" THEN Recolter(w, c)
                 ELSE EchecConfirme(w, (horloge + DELAI) % MODULO)
  /\ UNCHANGED horloge

(* The clock interrupt: wake the due sleepers, then ordonnancer.  Programs *)
(* start with interrupts masked and keep them so across ctx_sw; only       *)
(* idle's sti; hlt; cli and a program's own sti let a tick in.  When a     *)
(* program does so is its own affair, so a tick may come at any moment     *)
(* outside a call; that it must come is assumed of idle alone.             *)
TicPossible == ~noyau.panne /\ noyau.suite[actif] = "rien"

HorlogeAvance_SansRetour == horloge' = horloge + 1

HorlogeAvance == horloge' = (horloge + 1) % MODULO

Tic_SansOrdonnancer ==
  /\ TicPossible
  /\ HorlogeAvance
  /\ noyau' = EveillerEchus(noyau, horloge')

Tic ==
  /\ TicPossible
  /\ HorlogeAvance
  /\ noyau' = Ordonnancer(EveillerEchus(noyau, horloge'))

(* After a fault the exception handler stops the machine.                  *)
Arret == noyau.panne /\ UNCHANGED vars

Next ==
  \/ \E prio \in PRIOS : Start(prio)
  \/ StartInconnu
  \/ \E pid \in PID : Kill(pid)
  \/ Exit
  \/ WaitpidQuelconque
  \/ \E pid \in PID : WaitpidPrecis(pid)
  \/ \E pid \in PID, newprio \in PRIOS : Chprio(pid, newprio)
  \/ \E t \in Instants : AttendreHorloge(t)
  \/ Reprise
  \/ Tic
  \/ Arret

Spec == Init /\ [][Next]_vars

(* Idle unmasks interrupts each time it goes round its loop, and a tick    *)
(* that found them masked is pending: if idle has the processor again and  *)
(* again, ticks are taken again and again.  Nothing is assumed of the      *)
(* other programs, which may run masked for ever.  Tic is the only step    *)
(* that changes horloge, hence the form of its fairness.                   *)
TicOisif == actif = 0 /\ TicPossible /\ HorlogeAvance
=============================================================================
