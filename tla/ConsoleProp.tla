---------------------------- MODULE ConsoleProp ----------------------------
(***************************************************************************)
(* What the console must satisfy, alone and with the processes.            *)
(***************************************************************************)
EXTENDS Console, ProcessusProp

(* The queue of readers holds each process blocked in cons_read once, and  *)
(* no other living process: no reader is forgotten, none is woken twice.   *)
LecteursInscrits ==
  /\ {e.pid : e \in {x \in Range(lecteurs) : x.vif}}
       = {p \in PID : noyau.etat[p] = "BLOQUE_SUR_ENTREE_SORTIE"}
  /\ \A i, j \in DOMAIN lecteurs :
       lecteurs[i].vif /\ lecteurs[i] = lecteurs[j] => i = j

(* The fairness that the code's scheduling justifies: idle takes ticks.    *)
SpecEquitable == SpecConsole /\ SF_horloge(TicOisif /\ lecture[0] = 0)

Attend(p) == noyau.etat[p] = "BLOQUE_SUR_ENTREE_SORTIE"

Devance(p) == \E q \in PID : Attend(q) /\ noyau.prio[q] > noyau.prio[p]

(* If the interrupt of return is taken again and again, which supposes     *)
(* that somebody strikes it and somebody unmasks it, no reader starves:    *)
(* whoever waits in cons_read is woken in the end (or killed), unless more *)
(* urgent readers keep coming.                                             *)
LectureFinie ==
  []<><<Entree>>_varsConsole =>
    \A p \in PID : []<>(noyau.panne \/ Perimee \/ ~Attend(p) \/ Devance(p))
=============================================================================
