------------------------------- MODULE Affichage -------------------------------
(* The users of the screen: printf and its relatives, the echo of the keys      *)
(* (keyboard_data), the clock's line, the box of the processes, the listings,   *)
(* the shell's turns and the message of confirme.  Each is the sequence of the  *)
(* calls it makes to the screen, run one by one; interrupts are masked while    *)
(* the kernel runs, so it ends before the next one begins.  `papier' records,   *)
(* for the properties, what was written (module Papier).                        *)
EXTENDS Formats, TLC

(* The text screen of src/kernel/print.c: LIGNES rows of COLONNES cells at      *)
(* 0xB8000, the row after them that defilement reads, the cursor the program    *)
(* keeps and the one of the video card.  A cell is <<character, colours>>.      *)
CONSTANTS LIGNES, COLONNES,
          TABULATION,                        \* 8 in the code
          PRINTF_BUFMAX                      \* printf's buffer, 128 in the code
ASSUME EcranAssumption == /\ {LIGNES, COLONNES, TABULATION, PRINTF_BUFMAX} \subseteq Nat \ {0}
                          /\ LIGNES >= 2
Vide == "NUL"                                \* what memset writes
Cases == 0..(LIGNES + 1) * COLONNES - 1      \* the video memory that is followed

(* The enumeration of print.h, whose value serves for the characters, and the   *)
(* table of print.c, which serves for the background.                           *)
COULEUR_CONSOLE == <<"NOIR", "BLEU_FONCE", "VERT_CLAIR", "CYAN", "ROUGE", "VIOLET", "MARRON", "GRIS_CLAIR", "GRIS",
                     "POURPRE", "VERT", "CYAN2", "ORANGE", "ROSE", "JAUNE", "BLANC">>
couleur_ecrant ==
  [NOIR |-> 0, BLEU_FONCE |-> 1, VERT_CLAIR |-> 2, CYAN |-> 3, ROUGE |-> 4, VIOLET |-> 5, MARRON |-> 6,
   GRIS_CLAIR |-> 7, GRIS |-> 8, POURPRE |-> 9, VERT |-> 10, CYAN2 |-> 11, ORANGE |-> 12, ROSE |-> 13,
   JAUNE |-> 14, BLANC |-> 15]
Rang == [nom \in DOMAIN couleur_ecrant |-> CHOOSE i \in 0..15 : COULEUR_CONSOLE[i + 1] = nom]

(* e = [mem, lig, col, cote, couleur]: the memory, ligne_curseur,               *)
(* colonne_curseur, the position last sent to the card and                      *)
(* couleur_ecriture_ecrant.  Characters are those of ASCII: the sign of the     *)
(* others would cover the colours.                                              *)
assigner_couleur_ecriture_ecrant(e, caracteres, fond) ==
  [e EXCEPT !.couleur = 16 * couleur_ecrant[fond] + Rang[caracteres]]
ecrit_car(e, lig, col, c) == LET i == lig * COLONNES + col
                             IN IF i \in Cases THEN [e EXCEPT !.mem[i] = <<c, e.couleur>>] ELSE e
place_curseur(e, lig, col) == [e EXCEPT !.lig = lig, !.col = col, !.cote = lig * COLONNES + col]

efface_ecran(e) ==
  place_curseur([e EXCEPT !.mem = [i \in Cases |-> IF i < LIGNES * COLONNES THEN <<" ", e.couleur>> ELSE e.mem[i]]], 0, 0)
efface_car(e) == ecrit_car(e, e.lig, e.col - 1, " ")

defilement_SansVide(e) ==
  [e EXCEPT !.lig = IF @ > 0 THEN @ - 1 ELSE @,
            !.mem = [i \in Cases |-> IF i + COLONNES \in Cases THEN e.mem[i + COLONNES] ELSE e.mem[i]]]
defilement(e) ==
  [e EXCEPT !.lig = IF @ > 0 THEN @ - 1 ELSE @,
            !.mem = [i \in Cases |-> IF i < (LIGNES - 1) * COLONNES THEN e.mem[i + COLONNES]
                                     ELSE IF i < LIGNES * COLONNES THEN <<Vide, 0>> ELSE e.mem[i]]]

(* One turn of console_putbytes: p = [e, lig, col] with its local line, column. *)
Position(p, lig, col) == [p EXCEPT !.lig = lig, !.col = col]
Caractere(p, c) ==
  CASE c = "CR" -> [Position(p, p.lig, 0) EXCEPT !.e = ecrit_car(@, p.lig, 0, " ")]
    [] c = "LF" -> Position(p, p.lig + 1, 0)
    [] c = "HT" -> Position(p, p.lig, p.col + TABULATION)
    [] c = "BS" -> LET k == IF p.col > 0 THEN p.col - 1 ELSE 0
                   IN [Position(p, p.lig, k) EXCEPT !.e = ecrit_car(@, p.lig, k, " ")]
    [] OTHER    -> [Position(p, p.lig, p.col + 1) EXCEPT !.e = ecrit_car(@, p.lig, p.col, c)]
Repli(p) == IF p.col >= COLONNES THEN Position(p, p.lig + 1, 0) ELSE p
Bas(p) == IF p.lig = LIGNES THEN [Position(p, p.lig - 1, p.col) EXCEPT !.e = defilement(@)] ELSE p
console_putbytes(e, s) ==
  LET p == FoldLeft(LAMBDA q, c : Bas(Repli(Caractere(q, c))), [e |-> e, lig |-> e.lig, col |-> e.col], s)
  IN place_curseur(p.e, p.lig, p.col)

endline(e) == IF e.lig + 1 = LIGNES THEN place_curseur(defilement(e), e.lig, 0) ELSE place_curseur(e, e.lig + 1, 0)

affiche_message_ecrant(e, s, lig, col) ==
  place_curseur(console_putbytes(place_curseur(e, lig, col), s), e.lig, e.col)
(* The strings longer than a row are refused (and an error printed).            *)
affiche_en_haut_a_droite(e, s, erreur) ==
  IF Len(s) > COLONNES - 1 THEN console_putbytes(e, erreur) ELSE affiche_message_ecrant(e, s, 0, COLONNES - Len(s))

(* printf's buffer: t = [e, buf]; a newline or a full buffer empties it.        *)
printf_char(t, c) ==
  IF c = "LF" \/ Len(t.buf) >= PRINTF_BUFMAX
  THEN [e |-> console_putbytes(console_putbytes(t.e, t.buf), <<c>>), buf |-> <<>>]
  ELSE [t EXCEPT !.buf = Append(@, c)]
vprintf(e, texte) ==
  LET t == FoldLeft(printf_char, [e |-> e, buf |-> <<>>], texte)
  IN IF t.buf = <<>> THEN t.e ELSE console_putbytes(t.e, t.buf)

putchar(e, c) == console_putbytes(e, <<c>>)
puts(e, s) == putchar(FoldLeft(putchar, e, s), "LF")

-----------------------------------------------------------------------------

CONSTANTS MAX_PAPIER, MAX_OPERATIONS,        \* bounds: lines and operations followed
          NBR_MAX_BUFF,                      \* the keyboard's buffer, 2048 in the code
          FORMATS,                           \* formats printed
          DIRECTIVES, MAX_SPRINTF            \* directives converted to a buffer, its sizes
VARIABLES ecran, papier,
          appels, font,                      \* the calls left to make, font_precedant
          index, echo, precedente,           \* precedente: ligne_affichage_precedant
          converti, operations
vars == <<ecran, papier, appels, font, index, echo, precedente, converti, operations>>

Feuillet == INSTANCE Papier

Init ==
  /\ ecran = efface_ecran([mem |-> [i \in Cases |-> <<"?", 0>>], lig |-> 0, col |-> 0, cote |-> 0, couleur |-> 15])
  /\ papier = Feuillet!Vierge(15) /\ appels = <<>> /\ font = 15
  /\ index = 0 /\ echo = TRUE /\ precedente = 0 /\ operations = 0
  /\ converti = [d |-> Neutre, texte |-> <<>>, max |-> 0, tampon |-> <<>>]

(* The first line of the paper that the screen shows.                           *)
Haut(q) == IF q.bas < LIGNES THEN 0 ELSE q.bas - LIGNES + 1
(* A text written elsewhere, in some colour: the cursor comes back to its row   *)
(* of the screen, another line of the paper when the text made it scroll.       *)
Ailleurs(q, s, lig, col, couleur) ==
  LET e == Feuillet!Ecrire([q EXCEPT !.l = Haut(q) + lig, !.c = col, !.couleur = Rang[couleur]], s)
  IN [e EXCEPT !.l = Haut(e) + q.l - Haut(q), !.c = q.c, !.couleur = q.couleur]

(* A call: the function, its text, the place and the colour.                    *)
Appel(f, s) == [f |-> f, s |-> s, lig |-> 0, col |-> 0, couleur |-> "NOIR"]
Couleur(f, couleur) == [Appel(f, <<>>) EXCEPT !.couleur = couleur]
Message(s, lig, col, couleur) == [Appel("affiche_message_ecrant", s) EXCEPT !.lig = lig, !.col = col, !.couleur = couleur]
TropLongue == <<"e", "LF">>
SurEcran(e, a) ==
  CASE a.f = "printf"                 -> vprintf(e, a.s)
    [] a.f = "puts"                   -> puts(e, a.s)
    [] a.f = "cons_write"             -> console_putbytes(e, a.s)
    [] a.f = "endline"                -> endline(e)
    [] a.f = "efface_ecran"           -> efface_ecran(e)
    [] a.f = "efface_car"             -> efface_car(e)
    [] a.f = "affiche_message_ecrant" -> affiche_message_ecrant(e, a.s, a.lig, a.col)
    [] a.f = "affiche_en_haut_a_droite" -> affiche_en_haut_a_droite(e, a.s, TropLongue)
    [] a.f \in {"colorier", "teindre"} -> assigner_couleur_ecriture_ecrant(e, a.couleur, "NOIR")
    [] a.f = "rendre"                 -> [e EXCEPT !.couleur = font]
SurPapier(q, a) ==
  CASE a.f \in {"printf", "cons_write"} -> Feuillet!Ecrire(q, a.s)
    [] a.f \in {"puts", "endline"}      -> Feuillet!Ecrire(q, Append(a.s, "LF"))
    [] a.f = "efface_ecran"             -> Feuillet!Vierge(q.couleur)
    [] a.f = "efface_car"               -> Feuillet!Effacer(q)
    [] a.f = "affiche_message_ecrant"   -> Ailleurs(q, a.s, a.lig, a.col, a.couleur)
    [] a.f = "affiche_en_haut_a_droite" ->
         IF Len(a.s) < COLONNES THEN Ailleurs(q, a.s, 0, COLONNES - Len(a.s), a.couleur)
         ELSE [Feuillet!Ecrire([q EXCEPT !.couleur = Rang[a.couleur]], TropLongue) EXCEPT !.couleur = q.couleur]
    [] a.f = "colorier"                 -> [q EXCEPT !.couleur = Rang[a.couleur]]
    [] OTHER                            -> q
Avancer ==
  /\ appels # <<>> /\ appels' = Tail(appels)
  /\ ecran' = SurEcran(ecran, Head(appels)) /\ papier' = SurPapier(papier, Head(appels))
  /\ papier'.bas < MAX_PAPIER
  /\ UNCHANGED <<font, index, echo, precedente, converti, operations>>
Enchainer(suite) ==
  /\ appels' = suite /\ font' = ecran.couleur
  /\ operations' = operations + 1 /\ UNCHANGED <<ecran, papier, converti>>

Printf(fmt) == Enchainer(<<Appel("printf", doprnt(fmt))>>) /\ UNCHANGED <<index, echo, precedente>>
Puts(s)     == Enchainer(<<Appel("puts", s)>>) /\ UNCHANGED <<index, echo, precedente>>
FinDeLigne  == Enchainer(<<Appel("endline", <<>>)>>) /\ UNCHANGED <<index, echo, precedente>>

(* tic_PIT's line, at the right end of the first row.                           *)
Horloge(t) ==
  LET s == doprnt(IF t < 2 THEN <<[Neutre EXCEPT !.conv = "d", !.u = t], Litteral(<<"s">>)>>
                  ELSE <<[Neutre EXCEPT !.conv = "d", !.u = t \div 2], Litteral(<<"m">>),
                         [Neutre EXCEPT !.conv = "d", !.u = t % 2], Litteral(<<"s">>)>>)
      ligne == [Appel("affiche_en_haut_a_droite", s) EXCEPT !.couleur = "JAUNE"]
  IN /\ Enchainer(<<Couleur("teindre", "JAUNE"), ligne, Couleur("rendre", "NOIR")>>)
     /\ UNCHANGED <<index, echo, precedente>>

(* afficher_le_nom_des_processus...: an orange box of k rows at the right edge, *)
(* a blank row under it and blanks over the rows left by a taller one.  A box   *)
(* taller than the screen would go past the video memory: not followed.         *)
Boite(k, precedant) ==
  LET largeur == COLONNES - 1
      dernier == IF precedant > k + 1 THEN precedant - 1 ELSE k
  IN <<Couleur("teindre", "ORANGE")>> \o [i \in 1..k |-> Message(Fois("#", largeur), i - 1, 1, "ORANGE")]
     \o <<Couleur("rendre", "NOIR")>> \o [i \in 1..dernier - k + 1 |-> Message(Fois(" ", largeur), k + i - 1, 1, "NOIR")]
Ordonnancer(k) == Enchainer(Boite(k, precedente)) /\ precedente' = k + 1 /\ UNCHANGED <<index, echo>>

(* The listings; each line of a process first redraws the box, whose height     *)
(* does not change meanwhile.                                                   *)
afficher_simple_processus(k, precedant) ==
  Boite(k, precedant) \o <<Appel("printf", <<"LF", "s">>), Appel("printf", <<"LF">>)>>
afficher_processus(k, pere, fils) ==
  LET simple == afficher_simple_processus(k, k + 1)
  IN Boite(k, precedente) \o simple \o <<Appel("printf", <<"HT", "t", "LF">>), Appel("printf", <<"HT", "p">>)>>
     \o (IF pere THEN simple ELSE <<Appel("printf", <<"0", "LF">>)>>)
     \o (IF fils = 0 THEN <<Appel("printf", <<"HT", "0", "LF">>)>>
         ELSE <<Appel("printf", <<"HT", "f", "LF">>)>> \o FlattenSeq([i \in 1..fils |-> simple])
              \o <<Appel("printf", <<"HT", "f", "LF">>)>>)
afficher_simple_procesus_existants(k, existants) ==
  FlattenSeq([i \in 1..existants |-> afficher_simple_processus(k, IF i = 1 THEN precedente ELSE k + 1)])
Idle(k, pere, fils) ==
  Enchainer(afficher_processus(k, pere, fils)) /\ precedente' = k + 1 /\ UNCHANGED <<index, echo>>

(* confirme: the message of a failure, and what follows it, is red until the    *)
(* shell's next prompt.                                                         *)
Confirme ==
  /\ Enchainer(<<Couleur("colorier", "ROUGE"), Appel("printf", <<"LF", "x", "LF">>), Appel("printf", <<"p", "LF">>)>>)
  /\ UNCHANGED <<index, echo, precedente>>

(* One turn of the shell, from the return of cons_read to the next prompt;      *)
(* cons_write("\n", 2) writes the NUL too, and start ends in ordonnancer.       *)
shell_ps(k) == afficher_simple_procesus_existants(k, 1)
shell_clear == <<Appel("efface_ecran", <<>>)>>
shell_echo(x) == IF x = "echo 0" THEN FALSE ELSE IF x = "echo 1" THEN TRUE ELSE echo
Commande(x, k) ==
  LET lue == <<Appel("cons_write", <<"LF", Vide>>), Appel("cons_write", <<"c">>), Appel("cons_write", <<"LF", Vide>>)>>
      faite == CASE x = "ps"    -> shell_ps(k)
                 [] x = "clear" -> shell_clear
                 [] x = "start" -> <<Appel("printf", <<"'", "LF">>)>> \o Boite(k, precedente)
                 [] x \in {"echo 0", "echo 1"} -> <<>>
                 [] OTHER       -> <<Appel("cons_write", <<"i", Vide>>)>>
      invite == <<Couleur("colorier", "VERT"), Appel("cons_write", <<"LF", ">">>), Couleur("colorier", "BLANC")>>
  IN /\ Enchainer(lue \o faite \o invite)
     /\ precedente' = IF x \in {"ps", "start"} THEN k + 1 ELSE precedente
     /\ echo' = shell_echo(x) /\ UNCHANGED index

(* keyboard_data: the echo.  A tab is echoed as such and then, being a control  *)
(* character, as ^I.                                                            *)
Echo(c) == CASE c = "HT"  -> <<"HT", "^", "I">>
             [] c = "ESC" -> <<"^", "[">>
             [] OTHER     -> <<c>>
Frapper(c) ==
  /\ IF c = "DEL"
     THEN /\ index > 0 /\ index' = index - 1
          /\ Enchainer(IF echo THEN <<Appel("efface_car", <<>>), Appel("cons_write", <<"BS">>)>> ELSE <<>>)
     ELSE /\ index < NBR_MAX_BUFF /\ index' = index + 1
          /\ Enchainer(IF echo THEN <<Appel("printf", Echo(c))>> ELSE <<>>)
  /\ UNCHANGED <<echo, precedente>>
Entree == index > 0 /\ index' = 0 /\ Enchainer(<<>>) /\ UNCHANGED <<echo, precedente>>

(* sprintf and snprintf do not touch the screen: one conversion of each         *)
(* directive, from the first screen, is all that is followed.                   *)
Snprintf(d, max) ==
  /\ converti' = [d |-> d, texte |-> doprnt(<<d>>), max |-> max, tampon |-> snprintf(max, <<d>>)]
  /\ UNCHANGED <<ecran, papier, appels, font, index, echo, precedente, operations>>

Operation ==
  \/ \E fmt \in FORMATS : Printf(fmt)
  \/ Puts(<<"p">>) \/ FinDeLigne \/ Confirme \/ Entree
  \/ \E t \in {1, 2, 5, 2^(BITS - 1) - 1} : Horloge(t)
  \/ \E k \in 1..LIGNES - 1 : Ordonnancer(k) \/ Commande("ps", k) \/ Commande("start", k)
  \/ \E x \in {"clear", "echo 0", "echo 1", "inconnue"} : Commande(x, 0)
  \/ \E pere \in BOOLEAN, fils \in 0..1 : Idle(1, pere, fils)
  \/ \E c \in {"k", "DEL", "HT", "ESC"} : Frapper(c)
Next ==
  \/ Avancer
  \/ appels = <<>> /\ operations < MAX_OPERATIONS /\ converti.d = Neutre /\ Operation
  \/ operations = 0 /\ converti.d = Neutre /\ \E d \in DIRECTIVES, max \in MAX_SPRINTF : Snprintf(d, max)
Spec == Init /\ [][Next]_vars
================================================================================
