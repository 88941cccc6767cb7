---------------------------- MODULE MaillonsProp ----------------------------
(***************************************************************************)
(* What the linked lists must satisfy: they hold exactly the sequences of  *)
(* module FilePrio, on which the model of the process manager is built,    *)
(* and they keep the promise of queue.h (module FilesParPriorite).         *)
(***************************************************************************)
EXTENDS MaillonsFile, FilePrio

(* The queues whose elements keep their priority while linked: those of    *)
(* runnable processes and of blocked senders, not those of sleepers and    *)
(* children, which chprio does not sort again.                             *)
CONSTANT STABLES

ASSUME StablesAssumption == STABLES \subseteq TETES

(* contenu, absent from the code, records for each head the sequence that  *)
(* the operators of FilePrio compute.                                      *)
VARIABLE contenu

varsSuivies == <<prev, next, priorite, ajout, contenu>>

InitSuivi == InitMaillons /\ contenu = [h \in TETES |-> << >>]

NextSuivi ==
  \/ \E e \in ELEMS, h \in TETES : DebutAjout(e, h) /\ UNCHANGED contenu
  \/ Avancer /\ UNCHANGED contenu
  \/ /\ Chainer
     /\ contenu' = [contenu EXCEPT ![ajout.tete] = queue_add(@, ajout.elem, priorite)]
  \/ \E h \in TETES : Sortir(h) /\ contenu' = [contenu EXCEPT ![h] = queue_out(@)]
  \/ \E e \in ELEMS, h \in TETES :
       /\ e \in Range(contenu[h])
       /\ Supprimer(e)
       /\ contenu' = [contenu EXCEPT ![h] = queue_del(@, e)]
  \/ \E e \in ELEMS, p \in PRIOS :
       /\ \A h \in STABLES : e \notin Range(contenu[h])
       /\ ChangerPriorite(e, p)
       /\ UNCHANGED contenu

SpecSuivie == InitSuivi /\ [][NextSuivi]_varsSuivies

(* The ring of head h with contents s, s[0] and s[Len(s)+1] being h. *)
Maillon(h, s, i) == IF i \in 1..Len(s) THEN s[i] ELSE h

Chaine(h, s) ==
  \A i \in 0..Len(s) :
    /\ next[Maillon(h, s, i)] = Maillon(h, s, i+1)
    /\ prev[Maillon(h, s, i+1)] = Maillon(h, s, i)

(* The links of each head form a ring, both ways, that holds exactly the   *)
(* sequence the operators of FilePrio compute, in the order the loops over *)
(* it follow and with its ends where queue_top and queue_bottom look; no   *)
(* element is in two rings, or twice in one; and the elements in no ring   *)
(* are those whose two fields are null, so the assertions of queue_add and *)
(* queue_del (queue.h:78,158) tell exactly whether an element is linked.   *)
Represente ==
  /\ \A h \in TETES :
       LET s == contenu[h]
       IN /\ Chaine(h, s) /\ SansDoublon(s)
          /\ queue_for_each(h) = s /\ queue_for_each_prev(h) = Reverse(s)
          /\ __queue_top(h) = IF queue_empty(s) THEN NUL ELSE queue_top(s)
          /\ __queue_bottom(h) = IF queue_empty(s) THEN NUL ELSE Head(s)
  /\ \A g, h \in TETES : g # h => Range(contenu[g]) \cap Range(contenu[h]) = {}
  /\ \A e \in ELEMS :
       /\ next[e] = NUL <=> \A h \in TETES : e \notin Range(contenu[h])
       /\ prev[e] = NUL <=> next[e] = NUL

(* The elements of a sequence that are in T, from the last to the first. *)
Remonter(T) ==
  [s \in Seq(ELEMS) |->
     LET debut[n \in 0..Len(s)] ==
           IF n = 0 THEN << >>
           ELSE IF s[n] \in T THEN <<s[n]>> \o debut[n-1] ELSE debut[n-1]
     IN debut[Len(s)]]

(* In a queue of STABLES, the links read back from the head are the        *)
(* classes of FilesParPriorite: the element that leaves is the oldest of   *)
(* the highest priority.                                                   *)
ClasseDe(h, p) == Remonter({e \in ELEMS : priorite[e] = p})[queue_for_each(h)]

Classes == [h \in STABLES |-> [p \in PRIOS |-> ClasseDe(h, p)]]

Promesse == INSTANCE FilesParPriorite WITH TETES <- STABLES, classe <- Classes

ParPriorite == Promesse!Spec
=============================================================================
