------------------------------ MODULE Messages ------------------------------
(***************************************************************************)
(* The message queues of kernel/file.c on top of the process manager.      *)
(* psend and preceive may suspend their caller in ordonnancer: appel       *)
(* records the call it is in, and an action named ...Reprise goes on with  *)
(* it when the process has the processor again.                            *)
(*                                                                         *)
(* kill does not take its victim out of a message queue.  What the kernel  *)
(* does when it later uses such an entry (it revives a zombie, or wakes    *)
(* whoever has the slot now, or loops for ever in preset) is not followed: *)
(* the model stops there, with noyau.panne.                                *)
(*                                                                         *)
(* Definitions named X_... are mutated forms of X, used only to check that *)
(* the properties would notice such a slip.                                *)
(***************************************************************************)
EXTENDS Processus, FiniteSets

CONSTANTS
  NBQUEUE,     \* size of tab_file_message (5 in the code)
  MESSAGES,    \* what the programs send
  CAPACITES,   \* the sizes they give to pcreate (1 to TAILLEMAXFILE)
  FANTOMES     \* bound: entries of ended processes left in one list

ASSUME NbqueueAssumption   == NBQUEUE \in Nat \ {0}
ASSUME CapacitesAssumption == CAPACITES \subseteq Nat \ {0}
ASSUME FantomesAssumption  == FANTOMES \in Nat

VARIABLES
  files,         \* tab_file_message
  NBFILES,       \* number of existing queues
  valresetfile,  \* per process: woken by preset or pdelete
  appel          \* per process: the psend or preceive it is suspended in

varsMessages == <<noyau, horloge, files, NBFILES, valresetfile, appel>>

FID == 0..NBQUEUE-1

(* A process_bloque.  prio is the priority its process had when it blocked. *)
(* vif, absent from the code, turns FALSE when that process ends.           *)
Entrees == [pid : PID, prio : Int, vif : BOOLEAN]

PrioEntree == [e \in Entrees |-> e.prio]

FileMessage ==
  [statut : BOOLEAN, size : Nat, nbelem : Int,
   nbproc_recep : Int, nbproc_envoi : Int,
   messages : Seq(MESSAGES), recep : Seq(Entrees), envoi : Seq(Entrees)]

FileInitiale ==
  [statut |-> FALSE, size |-> 0, nbelem |-> 0, nbproc_recep |-> 0, nbproc_envoi |-> 0,
   messages |-> << >>, recep |-> << >>, envoi |-> << >>]

AucunAppel == [op |-> "aucun"]

Appels ==
  {AucunAppel} \cup [op : {"preceive"}, fid : FID]
               \cup [op : {"psend"}, fid : FID, message : MESSAGES]

(* initialiser_tableau_file; a fresh process has valresetfile = 0. *)
InitMessages ==
  /\ Init
  /\ files = [f \in FID |-> FileInitiale]
  /\ NBFILES = 0
  /\ valresetfile = [p \in PID |-> FALSE]
  /\ appel = [p \in PID |-> AucunAppel]

(* The active process is a program, in no call. *)
Appelant == Programme /\ appel[actif] = AucunAppel

Existe(f) == files[f].statut

MonEntree == [pid |-> actif, prio |-> noyau.prio[actif], vif |-> TRUE]

-----------------------------------------------------------------------------
(* pcreate takes the first free queue. *)
Pcreate(n) ==
  /\ Appelant
  /\ NBFILES < NBQUEUE
  /\ LET f == Min({x \in FID : ~Existe(x)})
     IN files' = [files EXCEPT ![f] = [files[f] EXCEPT !.statut = TRUE, !.size = n,
                    !.nbelem = 0, !.nbproc_recep = 0, !.nbproc_envoi = 0,
                    !.recep = << >>, !.envoi = << >>]]
  /\ NBFILES' = NBFILES + 1
  /\ UNCHANGED <<noyau, horloge, valresetfile, appel>>

(* The end of psend for the active process: the message is added; if it is *)
(* alone, the first receiver becomes runnable, without ordonnancer.        *)
Deposer(f, m) ==
  LET q == files[f]
      d == [q EXCEPT !.messages = Append(@, m), !.nbelem = @ + 1]
  IN IF d.nbelem # 1 \/ queue_empty(q.recep)
     THEN files' = [files EXCEPT ![f] = d] /\ noyau' = noyau
     ELSE LET e == queue_top(q.recep)
          IN /\ files' = [files EXCEPT ![f] =
                  [d EXCEPT !.recep = queue_out(@), !.nbproc_recep = @ - 1]]
             /\ noyau' = IF e.vif THEN Activer(noyau, e.pid) ELSE [noyau EXCEPT !.panne = TRUE]

(* The end of preceive: the oldest message is taken; if that makes room in *)
(* a full queue, the first sender becomes runnable and may run at once.    *)
Retirer_SansDecompte(f) ==
  LET q == files[f]
      d == [q EXCEPT !.messages = Tail(@), !.nbelem = @ - 1]
  IN IF d.nbelem # q.size - 1 \/ queue_empty(q.envoi)
     THEN files' = [files EXCEPT ![f] = d] /\ noyau' = noyau
     ELSE LET e == queue_top(q.envoi)
          IN /\ files' = [files EXCEPT ![f] = [d EXCEPT !.envoi = queue_out(@)]]
             /\ noyau' = IF e.vif THEN Ordonnancer(Activer(noyau, e.pid))
                         ELSE [noyau EXCEPT !.panne = TRUE]

Retirer(f) ==
  LET q == files[f]
      d == [q EXCEPT !.messages = Tail(@), !.nbelem = @ - 1]
  IN IF d.nbelem # q.size - 1 \/ queue_empty(q.envoi)
     THEN files' = [files EXCEPT ![f] = d] /\ noyau' = noyau
     ELSE LET e == queue_top(q.envoi)
          IN /\ files' = [files EXCEPT ![f] =
                  [d EXCEPT !.envoi = queue_out(@), !.nbproc_envoi = @ - 1]]
             /\ noyau' = IF e.vif THEN Ordonnancer(Activer(noyau, e.pid))
                         ELSE [noyau EXCEPT !.panne = TRUE]

(* A call that ends, transferring its message only if no preset or pdelete *)
(* touched the process; then valresetfile is cleared.                      *)
Terminer(transfert) ==
  /\ valresetfile' = [valresetfile EXCEPT ![actif] = FALSE]
  /\ appel' = [appel EXCEPT ![actif] = AucunAppel]
  /\ IF valresetfile[actif] THEN UNCHANGED <<noyau, files>> ELSE transfert

(* One turn of preceive's loop: block, or go on. *)
TourReception(f) ==
  IF files[f].nbelem = 0 /\ ~valresetfile[actif]
  THEN /\ files' = [files EXCEPT ![f] = [files[f] EXCEPT
                      !.recep = queue_add(@, MonEntree, PrioEntree), !.nbproc_recep = @ + 1]]
       /\ appel' = [appel EXCEPT ![actif] = [op |-> "preceive", fid |-> f]]
       /\ noyau' = Ordonnancer(Bloquer(noyau, actif, "BLOQUE_SUR_RECEPTION"))
       /\ UNCHANGED valresetfile
  ELSE Terminer(Retirer(f))

Preceive(f) ==
  /\ Appelant
  /\ Existe(f)
  /\ TourReception(f)
  /\ UNCHANGED <<horloge, NBFILES>>

(* The loop does not look at statut again. *)
PreceiveReprise ==
  /\ Programme
  /\ appel[actif].op = "preceive"
  /\ TourReception(appel[actif].fid)
  /\ UNCHANGED <<horloge, NBFILES>>

Psend(f, m) ==
  /\ Appelant
  /\ Existe(f)
  /\ IF files[f].nbelem = files[f].size /\ ~valresetfile[actif]
     THEN /\ files' = [files EXCEPT ![f] = [files[f] EXCEPT
                         !.envoi = queue_add(@, MonEntree, PrioEntree), !.nbproc_envoi = @ + 1]]
          /\ appel' = [appel EXCEPT ![actif] = [op |-> "psend", fid |-> f, message |-> m]]
          /\ noyau' = Ordonnancer(Bloquer(noyau, actif, "BLOQUE_SUR_ENVOI"))
          /\ UNCHANGED valresetfile
     ELSE Terminer(Deposer(f, m))
  /\ UNCHANGED <<horloge, NBFILES>>

(* A sender that finds the queue full again gives up (-1) and does not     *)
(* clear valresetfile.                                                     *)
PsendReprise_SansRelecture ==
  /\ Programme
  /\ appel[actif].op = "psend"
  /\ Terminer(Deposer(appel[actif].fid, appel[actif].message))
  /\ UNCHANGED <<horloge, NBFILES>>

PsendReprise ==
  /\ Programme
  /\ appel[actif].op = "psend"
  /\ LET f == appel[actif].fid
     IN IF files[f].nbelem = files[f].size
        THEN /\ appel' = [appel EXCEPT ![actif] = AucunAppel]
             /\ UNCHANGED <<noyau, files, valresetfile>>
        ELSE Terminer(Deposer(f, appel[actif].message))
  /\ UNCHANGED <<horloge, NBFILES>>

(* preset wakes every process blocked on the queue, the first of each list *)
(* first, without ordonnancer.                                             *)
Bloques(q) == Range(q.recep) \cup Range(q.envoi)

Reveiller(k, f) ==
  LET un(e, x) == Activer(x, e.pid)
  IN FoldRight(un, files[f].envoi, FoldRight(un, files[f].recep, k))

ViderFile_ListesGardees(q) ==
  [q EXCEPT !.messages = << >>, !.nbelem = 0, !.nbproc_recep = 0, !.nbproc_envoi = 0]

ViderFile(q) ==
  [q EXCEPT !.messages = << >>, !.nbelem = 0, !.recep = << >>, !.envoi = << >>,
            !.nbproc_recep = 0, !.nbproc_envoi = 0]

Liberer(f) ==
  LET B == Bloques(files[f])
  IN IF \A e \in B : e.vif
     THEN /\ noyau' = Reveiller(noyau, f)
          /\ valresetfile' = [p \in PID |-> valresetfile[p] \/ \E e \in B : e.pid = p]
     ELSE /\ noyau' = [noyau EXCEPT !.panne = TRUE]
          /\ UNCHANGED valresetfile

Preset(f) ==
  /\ Appelant
  /\ Existe(f)
  /\ Liberer(f)
  /\ files' = [files EXCEPT ![f] = ViderFile(@)]
  /\ UNCHANGED <<horloge, NBFILES, appel>>

Pdelete_SansReveil(f) ==
  /\ Appelant
  /\ Existe(f)
  /\ files' = [files EXCEPT ![f] = [ViderFile(@) EXCEPT !.size = 0, !.statut = FALSE]]
  /\ NBFILES' = NBFILES - 1
  /\ UNCHANGED <<noyau, horloge, valresetfile, appel>>

Pdelete(f) ==
  /\ Appelant
  /\ Existe(f)
  /\ Liberer(f)
  /\ files' = [files EXCEPT ![f] = [ViderFile(@) EXCEPT !.size = 0, !.statut = FALSE]]
  /\ NBFILES' = NBFILES - 1
  /\ UNCHANGED <<horloge, appel>>

(* pcount does not look at statut, nor ask who calls.  fid NBQUEUE, one    *)
(* past the table, which it accepts too, is left out.                      *)
pcount(f) ==
  IF f \notin FID THEN -1
  ELSE -files[f].nbproc_recep + files[f].nbelem + files[f].nbproc_envoi

-----------------------------------------------------------------------------
(* A step of the process manager.  A process that ends leaves its call     *)
(* unfinished, and its entries behind.                                     *)
Termine(p) == noyau'.etat[p] \in {"MORT", "ZOMBIE"}

Perimer(s) == [i \in DOMAIN s |-> [s[i] EXCEPT !.vif = @ /\ ~Termine(s[i].pid)]]

SousLaBorne(s) == Cardinality({i \in DOMAIN s : ~s[i].vif}) <= FANTOMES

PasProcessus ==
  /\ appel[actif] = AucunAppel
  /\ Next
  /\ appel' = [p \in PID |-> IF Termine(p) THEN AucunAppel ELSE appel[p]]
  /\ valresetfile' = [p \in PID |-> valresetfile[p] /\ ~Termine(p)]
  /\ files' = [f \in FID |-> [files[f] EXCEPT !.recep = Perimer(@), !.envoi = Perimer(@)]]
  /\ \A f \in FID : SousLaBorne(files'[f].recep) /\ SousLaBorne(files'[f].envoi)
  /\ UNCHANGED NBFILES

NextMessages ==
  \/ PasProcessus
  \/ \E n \in CAPACITES : Pcreate(n)
  \/ \E f \in FID : Preceive(f) \/ Preset(f) \/ Pdelete(f)
  \/ \E f \in FID, m \in MESSAGES : Psend(f, m)
  \/ PreceiveReprise
  \/ PsendReprise

SpecMessages == InitMessages /\ [][NextMessages]_varsMessages
=============================================================================
