---------------------------- MODULE MessagesProp ----------------------------
(***************************************************************************)
(* What the message queues must satisfy, alone and with the processes.     *)
(***************************************************************************)
EXTENDS Messages, ProcessusProp, FiniteSets

(* The counters that psend, preceive, pcount and pcreate decide by agree   *)
(* with the lists, no queue overflows, read_message never meets an empty   *)
(* list, and pcreate, which trusts NBFILES, finds a free queue.  So pcount *)
(* answers the messages and the waiting senders less the waiting receivers *)
(* (test.c:1265,1269).                                                     *)
ComptesJustes ==
  /\ \A f \in FID :
       /\ files[f].nbelem = Len(files[f].messages)
       /\ files[f].nbelem <= files[f].size
       /\ files[f].nbproc_recep = Len(files[f].recep)
       /\ files[f].nbproc_envoi = Len(files[f].envoi)
       /\ pcount(f) = Len(files[f].messages) + Len(files[f].envoi) - Len(files[f].recep)
       /\ ~Existe(f) => files[f].messages = << >> /\ files[f].envoi = << >>
  /\ NBFILES = Cardinality({f \in FID : Existe(f)})

(* An entry of a living process is in one place only, and that process is  *)
(* blocked there: waking it is right, and preset's loops, which only       *)
(* remove such entries, would end on them (file.c:159-177).                *)
EntreesFideles ==
  \A f \in FID :
    /\ \A i \in DOMAIN files[f].recep :
         LET e == files[f].recep[i]
         IN e.vif => /\ noyau.etat[e.pid] = "BLOQUE_SUR_RECEPTION"
                     /\ appel[e.pid].op = "preceive" /\ appel[e.pid].fid = f
                     /\ \A j \in DOMAIN files[f].recep :
                          files[f].recep[j].vif /\ files[f].recep[j].pid = e.pid => j = i
    /\ \A i \in DOMAIN files[f].envoi :
         LET e == files[f].envoi[i]
         IN e.vif => /\ noyau.etat[e.pid] = "BLOQUE_SUR_ENVOI"
                     /\ appel[e.pid].op = "psend" /\ appel[e.pid].fid = f
                     /\ \A j \in DOMAIN files[f].envoi :
                          files[f].envoi[j].vif /\ files[f].envoi[j].pid = e.pid => j = i

(* A blocked sender is never forgotten: it is listed in a queue that       *)
(* exists, where preceive, preset and pdelete find it, although the queue  *)
(* may have been deleted and created again since its call.                 *)
EmetteurInscrit ==
  noyau.panne \/
  \A p \in PID : noyau.etat[p] = "BLOQUE_SUR_ENVOI" =>
    \E f \in FID : Existe(f) /\ \E e \in Range(files[f].envoi) : e.vif /\ e.pid = p

(* psend, preset and pdelete wake processes without calling ordonnancer:   *)
(* a more urgent process may then wait, but never beyond the next tick.    *)
InversionBornee == [][Tic => Prioritaire(noyau')]_varsMessages

(* The queues are bounded first-in first-out buffers (module Tampons).     *)
capaciteDe == [f \in FID |-> IF Existe(f) THEN files[f].size ELSE 0]
contenuDe  == [f \in FID |-> files[f].messages]

Abstrait == INSTANCE Tampons WITH capacite <- capaciteDe, contenu <- contenuDe

FilesFIFO == Abstrait!Spec

=============================================================================
