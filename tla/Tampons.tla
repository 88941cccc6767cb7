------------------------------ MODULE Tampons ------------------------------
(***************************************************************************)
(* What the message queues of kernel/file.c promise their users, without   *)
(* the processes: NBQUEUE bounded first-in first-out buffers, created,     *)
(* emptied and deleted.  Module Messages implements it.                    *)
(***************************************************************************)
EXTENDS Integers, Sequences

CONSTANTS
  NBQUEUE,     \* size of tab_file_message
  MESSAGES,    \* what the programs send
  CAPACITES    \* the sizes they give to pcreate

VARIABLES
  capacite,    \* capacite[f] = 0: there is no queue f
  contenu      \* contenu[f]: the messages of queue f, oldest first

FID == 0..NBQUEUE-1

Init == capacite = [f \in FID |-> 0] /\ contenu = [f \in FID |-> << >>]

Existe(f) == capacite[f] # 0

Creer(f, n) ==
  /\ ~Existe(f)
  /\ capacite' = [capacite EXCEPT ![f] = n]
  /\ UNCHANGED contenu

Deposer(f, m) ==
  /\ Existe(f) /\ Len(contenu[f]) < capacite[f]
  /\ contenu' = [contenu EXCEPT ![f] = Append(@, m)]
  /\ UNCHANGED capacite

Retirer(f) ==
  /\ contenu[f] # << >>
  /\ contenu' = [contenu EXCEPT ![f] = Tail(@)]
  /\ UNCHANGED capacite

Vider(f) ==
  /\ Existe(f)
  /\ contenu' = [contenu EXCEPT ![f] = << >>]
  /\ UNCHANGED capacite

Supprimer(f) ==
  /\ Existe(f)
  /\ capacite' = [capacite EXCEPT ![f] = 0]
  /\ contenu' = [contenu EXCEPT ![f] = << >>]

Next ==
  \E f \in FID :
    \/ \E n \in CAPACITES : Creer(f, n)
    \/ \E m \in MESSAGES : Deposer(f, m)
    \/ Retirer(f)
    \/ Vider(f)
    \/ Supprimer(f)

Spec == Init /\ [][Next]_<<capacite, contenu>>
=============================================================================
