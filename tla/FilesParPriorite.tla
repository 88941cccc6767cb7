-------------------------- MODULE FilesParPriorite --------------------------
(***************************************************************************)
(* What shared/queue.h promises: "A priorité égale, comportement FIFO", the *)
(* highest priority first (queue.h:5-12).  Each queue is one first-in      *)
(* first-out sequence per priority; an element is in one queue at most.    *)
(* Module MaillonsFile implements it with linked lists.                    *)
(***************************************************************************)
EXTENDS Integers, Sequences, SequencesExt

CONSTANTS TETES, ELEMS, PRIOS

VARIABLES
  priorite,    \* the priority of each element
  classe       \* classe[h][p]: the elements of queue h of priority p, oldest first

Init ==
  /\ priorite \in [ELEMS -> PRIOS]
  /\ classe = [h \in TETES |-> [p \in PRIOS |-> << >>]]

Contient(h, e) == e \in Range(classe[h][priorite[e]])

Ajouter(h, e) ==
  /\ \A t \in TETES : ~Contient(t, e)
  /\ classe' = [classe EXCEPT ![h][priorite[e]] = Append(@, e)]
  /\ UNCHANGED priorite

Sortir(h) ==
  /\ \E p \in PRIOS :
       /\ classe[h][p] # << >>
       /\ \A q \in PRIOS : q > p => classe[h][q] = << >>
       /\ classe' = [classe EXCEPT ![h][p] = Tail(@)]
  /\ UNCHANGED priorite

Supprimer(h, e) ==
  /\ \E i \in DOMAIN classe[h][priorite[e]] :
       /\ classe[h][priorite[e]][i] = e
       /\ classe' = [classe EXCEPT ![h][priorite[e]] = RemoveAt(@, i)]
  /\ UNCHANGED priorite

ChangerPriorite(e, p) ==
  /\ \A t \in TETES : ~Contient(t, e)
  /\ priorite' = [priorite EXCEPT ![e] = p]
  /\ UNCHANGED classe

Next ==
  \/ \E h \in TETES, e \in ELEMS : Ajouter(h, e) \/ Supprimer(h, e)
  \/ \E h \in TETES : Sortir(h)
  \/ \E e \in ELEMS, p \in PRIOS : ChangerPriorite(e, p)

Spec == Init /\ [][Next]_<<priorite, classe>>
=============================================================================
