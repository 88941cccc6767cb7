---------------------------- MODULE MaillonsFile ----------------------------
(***************************************************************************)
(* The circular doubly linked lists of shared/queue.h, link by link: the   *)
(* heads TETES, and the elements ELEMS, each with one link field (the      *)
(* lists of children use the same field in the queues of several fathers). *)
(* The search loop of queue_add is one action per turn, the four           *)
(* assignments that follow it are one action; nothing else runs meanwhile, *)
(* because the kernel masks interrupts.                                    *)
(*                                                                         *)
(* Definitions named X_... are mutated forms of X, used only to check that *)
(* the properties would notice such a slip.                                *)
(***************************************************************************)
EXTENDS Integers, Sequences, SequencesExt, FiniteSets

CONSTANTS
  TETES, ELEMS,
  NUL,          \* the null pointer
  PRIOS

ASSUME MaillonsAssumption ==
  /\ TETES \cap ELEMS = {} /\ NUL \notin TETES \cup ELEMS
  /\ IsFiniteSet(ELEMS)
  /\ PRIOS \subseteq Int

VARIABLES
  prev, next,   \* the fields of every link
  priorite,     \* the priority field of every element
  ajout         \* the queue_add in progress

varsMaillons == <<prev, next, priorite, ajout>>

Maillons == TETES \cup ELEMS

(* __elem, head and __cur_link; no queue_add: all null. *)
AucunAjout == [elem |-> NUL, tete |-> NUL, cur |-> NUL]

Ajouts == {AucunAjout} \cup [elem : ELEMS, tete : TETES, cur : Maillons]

(* INIT_LIST_HEAD for the heads, INIT_LINK for the elements. *)
InitMaillons ==
  /\ next = [m \in Maillons |-> IF m \in TETES THEN m ELSE NUL]
  /\ prev = next
  /\ priorite \in [ELEMS -> PRIOS]
  /\ ajout = AucunAjout

Repos == ajout = AucunAjout

Vide(h) == next[h] = h

(* The elements met by the two loops over a queue, and those at its ends;  *)
(* NUL stands for no element.  A loop would not end if the links missed    *)
(* the head; only its first turns are described.                           *)
Parcours(champ, h) ==
  LET tours[n \in 0..Cardinality(ELEMS)] ==
        IF n = 0 THEN << >>
        ELSE LET s == tours[n-1]
                 m == champ[IF s = << >> THEN h ELSE Last(s)]
             IN IF m \in ELEMS THEN Append(s, m) ELSE s
  IN tours[Cardinality(ELEMS)]

queue_for_each(h)      == Parcours(next, h)
queue_for_each_prev(h) == Parcours(prev, h)

__queue_top(h)    == IF Vide(h) THEN NUL ELSE prev[h]
__queue_bottom(h) == IF Vide(h) THEN NUL ELSE next[h]

(* queue_add asserts that the element is not linked. *)
DebutAjout(e, h) ==
  /\ Repos
  /\ prev[e] = NUL /\ next[e] = NUL
  /\ ajout' = [elem |-> e, tete |-> h, cur |-> next[h]]
  /\ UNCHANGED <<prev, next, priorite>>

(* The condition of its loop. *)
Continuer_OuEgal ==
  /\ ajout.cur # ajout.tete
  /\ priorite[ajout.cur] <= priorite[ajout.elem]

Continuer ==
  /\ ajout.cur # ajout.tete
  /\ priorite[ajout.cur] < priorite[ajout.elem]

Avancer ==
  /\ ~Repos
  /\ Continuer
  /\ ajout' = [ajout EXCEPT !.cur = next[@]]
  /\ UNCHANGED <<prev, next, priorite>>

Chainer_SansRetour ==
  /\ ~Repos
  /\ ~Continuer
  /\ next' = [next EXCEPT ![ajout.elem] = ajout.cur, ![prev[ajout.cur]] = ajout.elem]
  /\ prev' = [prev EXCEPT ![ajout.elem] = prev[ajout.cur]]
  /\ ajout' = AucunAjout
  /\ UNCHANGED priorite

Chainer ==
  /\ ~Repos
  /\ ~Continuer
  /\ next' = [next EXCEPT ![ajout.elem] = ajout.cur, ![prev[ajout.cur]] = ajout.elem]
  /\ prev' = [prev EXCEPT ![ajout.elem] = prev[ajout.cur], ![ajout.cur] = ajout.elem]
  /\ ajout' = AucunAjout
  /\ UNCHANGED priorite

(* queue_out: the last element, the one before the head. *)
Sortir(h) ==
  /\ Repos
  /\ ~Vide(h)
  /\ LET e == prev[h]
     IN /\ prev' = [prev EXCEPT ![h] = prev[e], ![e] = NUL]
        /\ next' = [next EXCEPT ![prev[e]] = h, ![e] = NUL]
  /\ UNCHANGED <<priorite, ajout>>

(* queue_del does not know the head; it asserts that the element is linked. *)
Supprimer(e) ==
  /\ Repos
  /\ prev[e] # NUL /\ next[e] # NUL
  /\ next' = [next EXCEPT ![prev[e]] = next[e], ![e] = NUL]
  /\ prev' = [prev EXCEPT ![next[e]] = prev[e], ![e] = NUL]
  /\ UNCHANGED <<priorite, ajout>>

(* The owner of an element sets its priority, linked or not (chprio). *)
ChangerPriorite(e, p) ==
  /\ Repos
  /\ priorite' = [priorite EXCEPT ![e] = p]
  /\ UNCHANGED <<prev, next, ajout>>

NextMaillons ==
  \/ \E e \in ELEMS, h \in TETES : DebutAjout(e, h)
  \/ Avancer
  \/ Chainer
  \/ \E h \in TETES : Sortir(h)
  \/ \E e \in ELEMS : Supprimer(e)
  \/ \E e \in ELEMS, p \in PRIOS : ChangerPriorite(e, p)

SpecMaillons == InitMaillons /\ [][NextMaillons]_varsMaillons
=============================================================================
