------------------------------ MODULE FilePrio ------------------------------
(***************************************************************************)
(* The priority queues of shared/queue.h, seen by their users: a sequence  *)
(* in list order (head->next first), sorted by ascending priority at       *)
(* insertion time.  The element to serve first is the LAST one.            *)
(*                                                                         *)
(* pr is the function giving the priority field of every element; the      *)
(* code reads it at each insertion, so a queue may be out of order if      *)
(* priorities changed since.  The doubly linked list itself is modelled in *)
(* module MaillonsFile.                                                    *)
(***************************************************************************)
EXTENDS Integers, Sequences, SequencesExt

queue_empty(f) == f = << >>

(* Where queue_add stops: before the first element whose priority is not   *)
(* lower than e's, else at the head of the circular list.                  *)
PlaceAjout(f, e, pr) ==
  Min({i \in 1..Len(f)+1 : i = Len(f)+1 \/ pr[f[i]] >= pr[e]})

queue_add(f, e, pr) == InsertAt(f, PlaceAjout(f, e, pr), e)

queue_top(f) == Last(f)

(* What queue_out leaves; the element it returns is queue_top(f).          *)
queue_out(f) == Front(f)

queue_del(f, e) == RemoveAt(f, CHOOSE i \in 1..Len(f) : f[i] = e)

-----------------------------------------------------------------------------

SansDoublon(f) == \A i, j \in 1..Len(f) : f[i] = f[j] => i = j

Triee(f, pr) == \A i, j \in 1..Len(f) : i < j => pr[f[i]] <= pr[f[j]]
=============================================================================
