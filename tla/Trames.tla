--------------------------------- MODULE Trames --------------------------------
(* The packets of src/kernel/gdb_serial.c as sequences of bytes: hexadecimal,   *)
(* checksum and the run-length encoding of putfrags.                            *)
EXTENDS Integers, SequencesExt

Dollar == 36
Diese == 35
Plus == 43
Moins == 45
Etoile == 42
Echappe == 125
Virgule == 44
DeuxPoints == 58
Egal == 61
hexchars == <<48, 49, 50, 51, 52, 53, 54, 55, 56, 57, 97, 98, 99, 100, 101, 102>>
Deux(o) == <<hexchars[(o \div 16) + 1], hexchars[(o % 16) + 1]>>
EnHexa(s) == FoldLeft(LAMBDA t, o : t \o Deux(o), <<>>, s)
Somme(s) == FoldLeft(LAMBDA t, c : (t + c) % 256, 0, s)

hex(c) == CASE c \in 48..57 -> c - 48 [] c \in 97..102 -> c - 87 [] c \in 65..70 -> c - 55 [] OTHER -> -1
(* The two digits of a byte as the code joins them: negative when one is wrong. *)
Joindre(h, l) == IF h < 0 \/ l < 0 THEN -1 ELSE 16 * h + l

(* The bytes written before the first pair that is not hexadecimal, and whether *)
(* all n were.                                                                  *)
hex2bin_Inverse(s, n) ==
  LET paire(i) == IF 2 * i <= Len(s) THEN Joindre(hex(s[2 * i]), hex(s[2 * i - 1])) ELSE -1
      bons == {k \in 0..n : \A i \in 1..k : paire(i) >= 0}
      k == CHOOSE x \in bons : \A y \in bons : y <= x
  IN [octets |-> [i \in 1..k |-> paire(i)], ok |-> k = n]
hex2bin(s, n) ==
  LET paire(i) == IF 2 * i <= Len(s) THEN Joindre(hex(s[2 * i - 1]), hex(s[2 * i])) ELSE -1
      bons == {k \in 0..n : \A i \in 1..k : paire(i) >= 0}
      k == CHOOSE x \in bons : \A y \in bons : y <= x
  IN [octets |-> [i \in 1..k |-> paire(i)], ok |-> k = n]
(* A fragment: bytes to be sent as they are or in hexadecimal.  A run of four   *)
(* characters or more is sent as the character, '*' and the length plus 28; a   *)
(* run of bytes counts only when both of its digits are the same, and no run    *)
(* is longer than 98 characters.                                                *)
Brut(s) == [octets |-> s, hexify |-> FALSE]
Hexa(s) == [octets |-> s, hexify |-> TRUE]
Suite(s, p, max) ==                       \* length of the run that starts at p, at most max
  CHOOSE n \in 1..max : /\ p + n - 1 <= Len(s) /\ \A i \in 1..n - 1 : s[p + i] = s[p]
                        /\ n = max \/ p + n > Len(s) \/ s[p + n] # s[p]
Fragment_UnDeTrop(f) ==
  LET s == f.octets
      un(p) == IF f.hexify THEN Deux(s[p]) ELSE <<s[p]>>
      reste[p \in 1..Len(s) + 1] ==
        IF p > Len(s) THEN <<>>
        ELSE LET n == Suite(s, p, 49)
             IN IF f.hexify /\ n >= 2 /\ s[p] \div 16 = s[p] % 16 THEN <<un(p)[1], Etoile, 29 + 2 * n>> \o reste[p + n]
                ELSE un(p) \o reste[p + 1]
  IN reste[1]

Fragment(f) ==
  LET s == f.octets
      un(p) == IF f.hexify THEN Deux(s[p]) ELSE <<s[p]>>
      minimum == IF f.hexify THEN 2 ELSE 4
      reste[p \in 1..Len(s) + 1] ==
        IF p > Len(s) THEN <<>>
        ELSE LET n == Suite(s, p, IF f.hexify THEN 49 ELSE 98)
                 longue == n >= minimum /\ (f.hexify => s[p] \div 16 = s[p] % 16)
             IN IF longue THEN <<un(p)[1], Etoile, 28 + (IF f.hexify THEN 2 * n ELSE n)>> \o reste[p + n]
                ELSE un(p) \o reste[p + 1]
  IN reste[1]
Contenu(frags) == FoldLeft(LAMBDA t, f : t \o Fragment(f), <<>>, frags)
Trame(donnees) == <<Dollar>> \o donnees \o <<Diese>> \o Deux(Somme(donnees))
(* The same text without compression, for the properties.                       *)
Clair(frags) == FoldLeft(LAMBDA t, f : t \o (IF f.hexify THEN EnHexa(f.octets) ELSE f.octets), <<>>, frags)
================================================================================
