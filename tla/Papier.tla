--------------------------------- MODULE Papier --------------------------------
(* What the screen promises: a sheet of paper that never scrolls.  Text is      *)
(* written at a line and a column of the paper and the screen shows LIGNES of   *)
(* its lines, the last one included as soon as the writing has reached it.      *)
EXTENDS Integers, SequencesExt
CONSTANTS LIGNES, COLONNES, TABULATION,
          MAX_PAPIER                         \* bound: lines of paper that are followed

Feuille == [l \in 0..MAX_PAPIER - 1, c \in 0..COLONNES - 1 |-> <<" ", 0>>]

(* q = [f, l, c, bas, couleur]: the sheet, the place of the next character, the *)
(* lowest line reached and the colours of the writing.                          *)
Tracer(q, l, c, x) == IF <<l, c>> \in DOMAIN q.f THEN [q EXCEPT !.f[l, c] = <<x, q.couleur>>] ELSE q
Avancer(q, l, c) == LET n == IF c >= COLONNES THEN l + 1 ELSE l
                    IN [q EXCEPT !.l = n, !.c = IF c >= COLONNES THEN 0 ELSE c,
                                 !.bas = IF n > @ THEN n ELSE @]
Marquer(q, l, c, x, suite) == Avancer(Tracer(q, l, c, x), l, suite)
Signe(q, x) ==
  CASE x = "LF" -> Avancer(q, q.l + 1, 0)
    [] x = "HT" -> Avancer(q, q.l, q.c + TABULATION)
    [] x = "CR" -> Marquer(q, q.l, 0, " ", 0)
    [] x = "BS" -> LET k == IF q.c > 0 THEN q.c - 1 ELSE 0 IN Marquer(q, q.l, k, " ", k)
    [] OTHER    -> Marquer(q, q.l, q.c, x, q.c + 1)
Ecrire(q, s) == FoldLeft(Signe, q, s)
(* The character before the next one, on the line above at the left edge.       *)
Effacer(q) == LET i == q.l * COLONNES + q.c - 1
              IN IF i < 0 THEN q ELSE Tracer(q, i \div COLONNES, i % COLONNES, " ")
Vierge(couleur) == [f |-> Feuille, l |-> 0, c |-> 0, bas |-> 0, couleur |-> couleur]
================================================================================
