-------------------------------- MODULE Formats --------------------------------
(* Formatted output and its reverse: _doprnt, sprintf, strtol and strtoul of    *)
(* src/shared.  A text is a sequence of one-character strings, a word has BITS  *)
(* bits and a format is the list of its directives, literal text included.      *)
EXTENDS Integers, SequencesExt
CONSTANT BITS
ASSUME BitsAssumption == BITS \in Nat \ {0}

Mot(n) == n % 2^BITS                          \* an unsigned long
Relatif(u) == IF u >= 2^(BITS - 1) THEN u - 2^BITS ELSE u
Fois(c, n) == [i \in 1..(IF n > 0 THEN n ELSE 0) |-> c]
Borne(a, b) == IF a < b THEN a ELSE b

Chiffres == <<"0", "1", "2", "3", "4", "5", "6", "7", "8", "9", "a", "b", "c", "d", "e", "f">>
Majuscules == <<"A", "B", "C", "D", "E", "F">>

printnum(u, base) ==
  LET ecriture[v \in 0..u] == IF v < base THEN <<Chiffres[v + 1]>>
                              ELSE Append(ecriture[v \div base], Chiffres[(v % base) + 1])
  IN ecriture[u]

(* A directive: flags, width (negative when it comes from '*'), precision (-1   *)
(* when absent), conversion letter ("" for literal text) and its argument.      *)
Neutre == [alt |-> FALSE, gauche |-> FALSE, plus |-> <<>>, zero |-> FALSE, largeur |-> 0,
           prec |-> -1, conv |-> "", u |-> 0, texte |-> <<>>, base |-> 16, champs |-> <<>>]
Litteral(s) == [Neutre EXCEPT !.texte = s]
Longueur(d) == IF d.largeur < 0 THEN -d.largeur ELSE d.largeur
AGauche(d)  == d.gauche # (d.largeur < 0)

Signees == {"d", "i", "z"}
BaseDe == [c \in {"d", "i", "u"} |-> 10] @@ [c \in {"o"} |-> 8] @@ [c \in {"x", "p", "z"} |-> 16]

Nombre(d) ==
  LET base     == BaseDe[d.conv]
      negatif  == d.conv \in Signees /\ Relatif(d.u) < 0
      u        == IF negatif THEN Mot(-d.u) ELSE d.u
      signe    == IF d.conv \notin Signees THEN <<>> ELSE IF negatif THEN <<"-">> ELSE d.plus
      prefixe  == IF u = 0 \/ ~d.alt \/ base = 10 THEN <<>> ELSE IF base = 8 THEN <<"0">> ELSE <<"0", "x">>
      chiffres == printnum(u, base)
      corps    == Fois("0", d.prec - Len(chiffres)) \o chiffres
      zero     == d.zero \/ d.conv = "p"
      marge    == (IF d.conv = "p" THEN 8 ELSE Longueur(d)) - Len(signe \o prefixe \o corps)
  IN (IF d.conv = "p" THEN <<"0", "x">> ELSE <<>>)
     \o (IF ~zero /\ ~AGauche(d) THEN Fois(" ", marge) ELSE <<>>)
     \o signe \o prefixe
     \o (IF zero THEN Fois("0", marge) ELSE <<>>)
     \o corps
     \o (IF ~zero /\ AGauche(d) THEN Fois(" ", marge) ELSE <<>>)
(* The count left by the copying loop is one too large when it stopped at the   *)
(* precision: the padding on the right is then one short.                       *)
Chaine(d) ==
  LET entier == d.prec = -1 \/ d.prec >= Len(d.texte)
      n      == IF entier THEN Len(d.texte) ELSE d.prec
  IN (IF AGauche(d) THEN <<>> ELSE Fois(" ", Longueur(d) - n))
     \o SubSeq(d.texte, 1, n)
     \o (IF AGauche(d) THEN Fois(" ", Longueur(d) - (IF entier THEN n ELSE n + 1)) ELSE <<>>)
(* %b: the fields of a register that are set, and those that span several bits. *)
Registre(d) ==
  LET choisis  == SelectSeq(d.champs, LAMBDA f : f.bas # 0 \/ (d.u \div 2^(f.bit - 1)) % 2 = 1)
      champ(f) == f.nom \o IF f.bas = 0 THEN <<>>
                           ELSE printnum((d.u \div 2^(f.bas - 1)) % 2^(f.bit - f.bas + 1), d.base)
      liste    == FoldLeft(LAMBDA s, f : s \o (IF s = <<>> THEN <<"<">> ELSE <<",">>) \o champ(f), <<>>, choisis)
  IN printnum(d.u, d.base) \o IF d.u = 0 \/ liste = <<>> THEN <<>> ELSE Append(liste, ">")

Directive(d) ==
  CASE d.conv \in DOMAIN BaseDe -> Nombre(d)
    [] d.conv = "s" -> Chaine(d)
    [] d.conv = "b" -> Registre(d)
    [] OTHER -> d.texte                     \* literal text, %c, unknown letters
doprnt(fmt) == FoldLeft(LAMBDA s, d : s \o Directive(d), <<>>, fmt)

(* vsnprintf: what savechar keeps of the text, before the final NUL.            *)
snprintf(max, fmt) == LET s == doprnt(fmt) IN SubSeq(s, 1, Borne(max, Len(s)))

(* ---- strtoul and strtol: the value read and the index of the first character left *)
Valeur(c) == IF \E i \in 1..16 : Chiffres[i] = c THEN (CHOOSE i \in 1..16 : Chiffres[i] = c) - 1
             ELSE IF \E i \in 1..6 : Majuscules[i] = c THEN 9 + CHOOSE i \in 1..6 : Majuscules[i] = c
             ELSE 36
Car(s, i) == IF i <= Len(s) THEN s[i] ELSE "NUL"
Espaces == {" ", "HT", "LF", "CR"}
ApresEspaces(s) == CHOOSE i \in 1..Len(s) + 1 : /\ Car(s, i) \notin Espaces
                                                /\ \A j \in 1..i - 1 : s[j] \in Espaces

ApresPrefixe(s, p, base) == IF base \in {0, 16} /\ Car(s, p) = "0" /\ Car(s, p + 1) \in {"x", "X"} THEN p + 2 ELSE p
BaseLue(s, p, q, base) == IF q # p THEN 16 ELSE IF base # 0 THEN base ELSE IF Car(s, q) = "0" THEN 8 ELSE 10
Fin(s, q, b) == CHOOSE i \in q..Len(s) + 1 : Valeur(Car(s, i)) >= b /\ \A j \in q..i - 1 : Valeur(s[j]) < b
Chiffrer(s, q, fin, b) == [valeur |-> FoldLeft(LAMBDA v, c : Mot(v * b + Valeur(c)), 0, SubSeq(s, q, fin - 1)), reste |-> fin]
LireChiffres(s, q, b) == Chiffrer(s, q, Fin(s, q, b), b)
LireBase(s, p, q, base) == LireChiffres(s, q, BaseLue(s, p, q, base))
LireDepuis(s, p, base) == LireBase(s, p, ApresPrefixe(s, p, base), base)

strtoul(s, base) == LireDepuis(s, ApresEspaces(s), base)

(* A '+' is recognised but not passed over: the number then reads as 0.         *)
Signer(s, p, base) ==
  IF Car(s, p) # "-" THEN LireDepuis(s, p, base)
  ELSE LET lu == LireDepuis(s, p + 1, base) IN [lu EXCEPT !.valeur = Mot(-lu.valeur)]
strtol_SansEspaces(s, base) == Signer(s, 1, base)
strtol(s, base) == Signer(s, ApresEspaces(s), base)
================================================================================
