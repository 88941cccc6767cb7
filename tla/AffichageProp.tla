------------------------------ MODULE AffichageProp ----------------------------
(* The screen and the library it rests on; the calls to the library alone are   *)
(* independent of the screen and are made from its first state.                 *)
EXTENDS Affichage, Bibliotheque

(* What the library's calls promise, by definitions of their own: texts as      *)
(* sequences, occurrences as equal slices, integers instead of double words.    *)
Tranche(m, p, n) == [i \in 1..n |-> m[p + i - 1]]
Texte(m, p) == Tranche(m, p, strlen(m, p))
Tronque(s, n) == SubSeq(s, 1, IF n < Len(s) THEN n ELSE Len(s))
Nuls(n) == [i \in 1..(IF n > 0 THEN n ELSE 0) |-> 0]
(* The memory m with the bytes s put at p, and nothing else changed.            *)
Avec(m, p, s) == [i \in DOMAIN m |-> IF i \in Fenetrage(p, Len(s)) THEN s[i - p + 1] ELSE m[i]]
Signe(n) == IF n > 0 THEN 1 ELSE IF n < 0 THEN -1 ELSE 0
Compare(s, t) ==
  LET n == 1 + Len(LongestCommonPrefix({s, t}))
  IN IF n > Len(s) THEN 0 ELSE Signe(s[n] - t[n])

Occurrences(m, y, n, x, l) == {j \in Fenetrage(y, n - l + 1) : Tranche(m, j, l) = Tranche(m, x, l)}

(* strtok and strsep end a token at each delimiter met, an empty one included,  *)
(* put a NUL there and change nothing else; the token given back holds no       *)
(* delimiter and starts after the last NUL put; NULL comes when all is done.    *)
Decoupage(m, s, delim, apres, r, suite) ==
  LET coupes == Carte(m, delim)
      fin == IF suite = NULL THEN s + strlen(m, s) ELSE suite
  IN /\ apres = [i \in DOMAIN m |-> IF i \in s..fin - 1 /\ m[i] \in coupes THEN 0 ELSE m[i]]
     /\ IF r = NULL THEN suite = NULL
        ELSE /\ Carte(apres, r) \cap coupes = {}
             /\ r = s \/ (m[r - 1] \in coupes /\ apres[r - 1] = 0)
             /\ suite # NULL => suite = r + strlen(apres, r) + 1
             /\ suite = NULL => strlen(apres, r) = strlen(m, r)

(* Every memory and string function of string.c, on every memory and every      *)
(* legal argument, overlaps of memmove included.  Two results are the code's    *)
(* own: memmem and strstr find nothing when the needle is empty, strrchr never  *)
(* finds the final NUL.                                                         *)
ChainesExactes ==
  LET m == appel.m  a == appel.a  apres == appel.apres  r == appel.r IN
  CASE appel.f \in {"memchr", "strchr"} -> r = Premiere({i \in Fenetrage(a[1], a[3]) : m[i] = a[2]}) /\ apres = m
    [] appel.f \in {"memrchr", "strrchr"} -> r = Derniere({i \in Fenetrage(a[1], a[3]) : m[i] = a[2]})
    [] appel.f \in {"memmem", "strstr"} ->
         r = IF a[4] = 0 THEN NULL ELSE Premiere(Occurrences(m, a[1], a[2], a[3], a[4]))
    [] appel.f = "memcmp" -> Signe(r) = Compare(Tranche(m, a[1], a[3]), Tranche(m, a[2], a[3]))
    [] appel.f \in {"strcmp", "strncmp"} ->
         Signe(r) = Compare(Tronque(Append(Texte(m, a[1]), 0), a[3]), Tronque(Append(Texte(m, a[2]), 0), a[3]))
    [] appel.f = "strspn" ->
         /\ ToSet(Tranche(m, a[1], r)) \subseteq Carte(m, a[2])
         /\ r = strlen(m, a[1]) \/ m[a[1] + r] \notin Carte(m, a[2])
    [] appel.f = "strpbrk" -> r = Premiere({i \in Fenetrage(a[1], strlen(m, a[1])) : m[i] \in Carte(m, a[2])})
    [] appel.f = "strcspn" ->
         a[1] + r = Premiere({i \in Fenetrage(a[1], strlen(m, a[1]) + 1) : m[i] \in Carte(m, a[2]) \cup {0}})
    [] appel.f \in {"memmove", "memcpy"} -> apres = Avec(m, a[1], Tranche(m, a[2], a[3]))
    [] appel.f = "memswap" ->
         apres = Avec(Avec(m, a[1], Tranche(m, a[2], a[3])), a[2], Tranche(m, a[1], a[3]))
    [] appel.f = "memccpy" ->
         IF r = NULL THEN a[4] \notin Range(Tranche(m, a[2], a[3])) /\ apres = Avec(m, a[1], Tranche(m, a[2], a[3]))
         ELSE apres = Avec(m, a[1], Tranche(m, a[2], r - a[1])) /\ apres[r - 1] = a[4]
    [] appel.f = "strcpy" -> apres = Avec(m, a[1], Append(Texte(m, a[2]), 0))
    [] appel.f = "strncpy" ->
         apres = Avec(m, a[1], Tronque(Texte(m, a[2]), a[3]) \o Nuls(a[3] - strlen(m, a[2])))
    [] appel.f \in {"strcat", "strncat"} ->
         apres = Avec(m, a[1], Texte(m, a[1]) \o Tronque(Texte(m, a[2]), a[3]) \o <<0>>)
    [] appel.f = "strlcat" ->
         IF a[3] <= strlen(m, a[1]) THEN r = a[3] + strlen(m, a[2]) /\ apres = m
         ELSE /\ r = strlen(m, a[1]) + strlen(m, a[2])
              /\ apres = Avec(m, a[1], Append(Tronque(Texte(m, a[1]) \o Texte(m, a[2]), a[3] - 1), 0))
    [] appel.f \in {"strsep", "strtok"} -> Decoupage(m, a[1], a[2], apres, r, holder)
    [] OTHER -> TRUE

(* div64, do_div64 and mul64 compute on double words what integers say, but for *)
(* do_div64 when the divisor's leading word is all ones: its successor is 0 and *)
(* the processor stops on a divide error.  A division by zero gives 0 and x.    *)
(* The generator goes through every seed before it repeats one.                 *)
CalculsExacts ==
  LET x == appel.a[1]  y == appel.a[2]  r == appel.r
      juste == IF y = 0 THEN [q |-> 0, r |-> x] ELSE [q |-> x \div y, r |-> x % y]
      tout_a_un == \E l \in 1..2 * QUART : y >= MotSimple /\ y \div 2^l = MotSimple - 1
  IN CASE appel.f = "div64"    -> r = juste
       [] appel.f = "do_div64" -> r = IF tout_a_un THEN DivisionErreur ELSE juste
       [] appel.f = "mul64"    -> r = (x * y) % MotDouble
       [] appel.f = "randShort" -> r = rand(x) \div 2
       [] appel.f = "rand" /\ x = 1 ->
            LET graines == FoldLeft(LAMBDA s, i : Append(s, Suivante(s[i])), <<1>>, [i \in 1..2^(3 * QUART) |-> i])
            IN /\ ToSet(graines) = 0..2^(3 * QUART) - 1 /\ graines[Len(graines)] = 1
               /\ r = graines[2] \div 2^QUART
       [] OTHER -> TRUE

-----------------------------------------------------------------------------
Neuf == operations = 0 /\ converti.d = Neutre
InitTout == Init /\ InitAppel
NextTout ==
  \/ appel = AucunAppel /\ Next /\ UNCHANGED varsAppel
  \/ Neuf /\ Appeler /\ UNCHANGED vars
SpecTout == InitTout /\ [][NextTout]_<<vars, varsAppel>>

(* The screen is a window on what was written: the cells it shows, characters   *)
(* and colours, and the place of its cursor are those of the paper from line    *)
(* Haut on, whatever mix of prints, wraps, scrolls, echoes, clock lines, boxes  *)
(* and shell turns led there; no line is lost, doubled or left over from        *)
(* before, no text takes the colour another left (console_putbytes, defilement, *)
(* printf's buffer and its flushes, font_precedant); the card shows the cursor  *)
(* there.  Of a blank only the background is seen.                              *)
Fenetre ==
  LET h == Haut(papier)
      Vue(x) == IF x[1] \in {Vide, " "} THEN <<" ", x[2] \div 16>> ELSE x
  IN /\ ecran.lig = papier.l - h /\ ecran.col = papier.c
     /\ ecran.lig \in 0..LIGNES - 1 /\ ecran.cote = ecran.lig * COLONNES + ecran.col
     /\ appels = <<>> => ecran.couleur = papier.couleur
     /\ \A l \in 0..LIGNES - 1, c \in 0..COLONNES - 1 :
          Vue(ecran.mem[l * COLONNES + c]) = Vue(papier.f[h + l, c])

(* strtol and strtoul read back the number _doprnt wrote, for every flag, width *)
(* and precision, with the base it was written in or, for the alternate form,   *)
(* with base 0 (doprnt.c print_num); but for a '+' sign, which strtol does not  *)
(* pass over, and for %#p, which writes its 0x twice.                           *)
Relisible ==
  LET d == converti.d
      base == BaseDe[d.conv]
  IN d.conv \in DOMAIN BaseDe /\ d.plus # <<"+">> /\ ~(d.conv = "p" /\ d.alt) =>
       /\ strtol(converti.texte, base).valeur = d.u
       /\ d.conv \notin Signees => strtoul(converti.texte, base).valeur = d.u
       /\ d.alt /\ base # 10 /\ d.u # 0 => strtol(converti.texte, 0).valeur = d.u

(* A width pads and never cuts: the text is as long as the width or as the      *)
(* text without it, whichever is longer, but for a string cut by its precision  *)
(* and adjusted to the left, one blank short (doprnt.c case 's').  And snprintf *)
(* gives the beginning of that text, no longer than its size.                   *)
LargeurAtteinte ==
  LET d == converti.d
      nu == Len(doprnt(<<[d EXCEPT !.largeur = 0, !.gauche = FALSE]>>))
      court == d.conv = "s" /\ AGauche(d) /\ d.prec # -1 /\ d.prec < Len(d.texte)
      visee == IF court THEN Longueur(d) - 1 ELSE Longueur(d)
  IN /\ d.conv \in {"s"} \cup (DOMAIN BaseDe \ {"p"}) => Len(converti.texte) = IF visee > nu THEN visee ELSE nu
     /\ Len(converti.tampon) <= converti.max /\ IsPrefix(converti.tampon, converti.texte)

(* The library keeps its three promises: formats, memory and strings, and       *)
(* arithmetic (string.c, math.c, div64.c, doprnt.c).                            *)
BibliothequeExacte == LargeurAtteinte /\ ChainesExactes /\ CalculsExacts
================================================================================
