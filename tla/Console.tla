------------------------------ MODULE Console ------------------------------
(***************************************************************************)
(* The keyboard and cons_read of kernel/console.c, on top of the process   *)
(* manager.  One action is one key, taken by an interrupt, or one part of  *)
(* cons_read: the call up to the context switch, then what follows it.     *)
(*                                                                         *)
(* A waiting reader is linked in the queue by a field of its process       *)
(* structure, and kill does not unlink it.  What the console does with a   *)
(* queue that still holds an ended process (a revived zombie, or links     *)
(* cleared when the slot is reused) is not followed: the model stops       *)
(* there, with noyau.panne.                                                *)
(*                                                                         *)
(* Definitions named X_... are mutated forms of X, used only to check that *)
(* the properties would notice such a slip.                                *)
(***************************************************************************)
EXTENDS Processus, FiniteSets

CONSTANTS
  NBR_MAX_BUFF,   \* size of tampon (512 in the code)
  CARACTERES,     \* the keys that are not backspace nor return
  LONGUEURS,      \* the lengths given to cons_read
  FANTOMES        \* bound: ended processes left in the queue of readers

ASSUME ConsoleAssumption ==
  /\ NBR_MAX_BUFF \in Nat \ {0}
  /\ LONGUEURS \subseteq Nat \ {0}
  /\ FANTOMES \in Nat

VARIABLES
  tampon, index, INDEX_FIN_LIGNE,
  lecteurs,    \* file_ordonnee_des_processus_en_attente_de_cons_read
  lecture      \* per process: the length given to the cons_read it is in, or 0

console == <<tampon, index, INDEX_FIN_LIGNE, lecteurs, lecture>>

varsConsole == <<noyau, horloge, console>>

Entrees == [pid : PID, vif : BOOLEAN]

PrioLecteur == [e \in Entrees |-> noyau.prio[e.pid]]

(* tampon holds zeros before the first key. *)
InitConsole ==
  /\ Init
  /\ tampon = [i \in 0..NBR_MAX_BUFF-1 |-> "nul"]
  /\ index = 0
  /\ INDEX_FIN_LIGNE = 0
  /\ lecteurs = << >>
  /\ lecture = [p \in PID |-> 0]

Perimee == \E e \in Range(lecteurs) : ~e.vif

NonSuivi == noyau' = [noyau EXCEPT !.panne = TRUE] /\ UNCHANGED <<horloge, console>>

-----------------------------------------------------------------------------
(* keyboard_data: idle in hlt, or a program that unmasks interrupts, takes *)
(* the interrupt.                                                          *)
Clavier == TicPossible /\ lecture[actif] = 0

Frapper(c) ==
  /\ Clavier
  /\ index < NBR_MAX_BUFF
  /\ tampon' = [tampon EXCEPT ![index] = c]
  /\ index' = index + 1
  /\ UNCHANGED <<noyau, horloge, INDEX_FIN_LIGNE, lecteurs, lecture>>

Effacer ==
  /\ Clavier
  /\ index # 0
  /\ index' = index - 1
  /\ UNCHANGED <<noyau, horloge, tampon, INDEX_FIN_LIGNE, lecteurs, lecture>>

(* Return: the first reader, if any, becomes runnable, without ordonnancer. *)
FinDeLigne == INDEX_FIN_LIGNE' = index /\ index' = 0

PremierLecteur_DernierArrive == Head(lecteurs)

PremierLecteur == queue_top(lecteurs)

Servis == IF queue_empty(lecteurs) THEN lecteurs ELSE queue_del(lecteurs, PremierLecteur)

Entree ==
  /\ Clavier
  /\ IF Perimee THEN NonSuivi
     ELSE /\ FinDeLigne
          /\ lecteurs' = Servis
          /\ noyau' = IF queue_empty(lecteurs) THEN noyau
                      ELSE Activer(noyau, PremierLecteur.pid)
          /\ UNCHANGED <<horloge, tampon, lecture>>

(* cons_read(string, n), n > 0: the line is always the next one. *)
ConsRead_SansInscription(n) ==
  /\ Programme /\ lecture[actif] = 0
  /\ IF Perimee THEN NonSuivi
     ELSE /\ INDEX_FIN_LIGNE' = 0
          /\ lecture' = [lecture EXCEPT ![actif] = n]
          /\ noyau' = Ordonnancer(Bloquer(noyau, actif, "BLOQUE_SUR_ENTREE_SORTIE"))
          /\ UNCHANGED <<horloge, tampon, index, lecteurs>>

ConsRead(n) ==
  /\ Programme /\ lecture[actif] = 0
  /\ IF Perimee THEN NonSuivi
     ELSE /\ INDEX_FIN_LIGNE' = 0
          /\ lecteurs' = queue_add(lecteurs, [pid |-> actif, vif |-> TRUE], PrioLecteur)
          /\ lecture' = [lecture EXCEPT ![actif] = n]
          /\ noyau' = Ordonnancer(Bloquer(noyau, actif, "BLOQUE_SUR_ENTREE_SORTIE"))
          /\ UNCHANGED <<horloge, tampon, index>>

(* The reader runs again and copies what the globals say now. *)
FinLue == IF INDEX_FIN_LIGNE > lecture[actif] THEN lecture[actif] ELSE INDEX_FIN_LIGNE

LigneLue == [i \in 1..FinLue |-> tampon[i-1]]

ConsReadReprise ==
  /\ Programme /\ lecture[actif] # 0
  /\ INDEX_FIN_LIGNE' = FinLue
  /\ lecture' = [lecture EXCEPT ![actif] = 0]
  /\ UNCHANGED <<noyau, horloge, tampon, index, lecteurs>>

-----------------------------------------------------------------------------
(* A step of the process manager: a process that ends leaves its entry.    *)
Termine(p) == noyau'.etat[p] \in {"MORT", "ZOMBIE"}

PasProcessus ==
  /\ lecture[actif] = 0
  /\ Next
  /\ lecture' = [p \in PID |-> IF Termine(p) THEN 0 ELSE lecture[p]]
  /\ lecteurs' = [i \in DOMAIN lecteurs |->
                    [lecteurs[i] EXCEPT !.vif = @ /\ ~Termine(lecteurs[i].pid)]]
  /\ Cardinality({i \in DOMAIN lecteurs' : ~lecteurs'[i].vif}) <= FANTOMES
  /\ UNCHANGED <<tampon, index, INDEX_FIN_LIGNE>>

NextConsole ==
  \/ PasProcessus
  \/ \E c \in CARACTERES : Frapper(c)
  \/ Effacer
  \/ Entree
  \/ \E n \in LONGUEURS : ConsRead(n)
  \/ ConsReadReprise

SpecConsole == InitConsole /\ [][NextConsole]_varsConsole
=============================================================================
