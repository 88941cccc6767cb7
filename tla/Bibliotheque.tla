------------------------------ MODULE Bibliotheque -----------------------------
(* The calls to the library of src/shared and kernel/math.c that a program may  *)
(* make: terminated strings, room for what is written, and no overlap but for   *)
(* memmove.  `appel' is the last call: its name, the memory before it, its      *)
(* arguments, the memory after it and its result; `holder' is strtok's.         *)
EXTENDS Chaines

(* Arithmetic on double words made from words, as the 32-bit processor has them *)
(* (src/kernel/math.c, src/shared/div64.c), and the pseudo-random numbers.  A   *)
(* quarter has QUART bits, 16 in the code, a word two quarters, a double four.  *)
CONSTANTS QUART, MULTIPLIER, ADDEND
MotSimple  == 2^(2 * QUART)
MotDouble  == 2^(4 * QUART)
(* What the period of the generator rests on; 0x5DEECE66D and 0xB satisfy it.   *)
ASSUME ArithAssumption == QUART \in Nat \ {0} /\ MULTIPLIER \in 0..MotDouble - 1 /\ MULTIPLIER % 4 = 1 /\ ADDEND % 2 = 1

(* math.c div64: the divisor is doubled while it is at most x and its top bit   *)
(* is clear, then halved back, one bit of the quotient each time.               *)
div64(x, div) ==
  LET arrete(k) == div * 2^k >= MotDouble \div 2 \/ div * 2^(k + 1) > x
      k0 == Min({k \in 0..4 * QUART : arrete(k)})
      pas(a, k) == IF a.r < div * 2^k THEN a ELSE [q |-> a.q + (2^k), r |-> a.r - div * 2^k]
  IN IF div > x \/ div = 0 THEN [q |-> 0, r |-> x]
     ELSE FoldLeft(pas, [q |-> 2^k0, r |-> x - div * 2^k0], [i \in 1..k0 |-> k0 - i])

(* div64.c: the quotient of the leading word of y, plus one, then corrected by  *)
(* subtractions.  When that word is all ones the plus one makes it 0 and the    *)
(* processor raises its divide error.                                           *)
hard_bsr(n) == Max({k \in 0..2 * QUART - 1 : 2^k <= n})
DivisionErreur == [q |-> -1, r |-> -1]
divl(x, y) == IF y = 0 \/ x \div MotSimple >= y THEN DivisionErreur ELSE [q |-> x \div y, r |-> x % y]
Approche(x, y) == LET l == hard_bsr(y \div MotSimple) + 1
                  IN divl(x \div 2^l, ((y \div 2^l) + 1) % MotSimple)
Corriger(x, y, q) == LET r == (x - y * q) % MotDouble IN [q |-> q + r \div y, r |-> r % y]
do_div64(x, y) ==
  IF y >= MotSimple
  THEN LET a == Approche(x, y) IN IF a = DivisionErreur THEN a ELSE Corriger(x, y, a.q)
  ELSE IF x \div MotSimple < y THEN divl(x, y)
  ELSE IF y # 0
  THEN LET haut == divl(x \div MotSimple, y)
           bas  == divl((haut.r * MotSimple) + (x % MotSimple), y)
       IN [q |-> haut.q * MotSimple + bas.q, r |-> bas.r]
  ELSE [q |-> 0, r |-> x]

(* The product of two doubles, by quarters: the i-th of one and the j-th of the *)
(* other give a word, shifted by i + j quarters; those past the double are lost.*)
Quartier(x, i) == (x \div 2^(QUART * i)) % 2^QUART
mul64(x, y) ==
  LET rang(n) == FoldLeft(LAMBDA s, i : (s + ((Quartier(x, i - 1) * Quartier(y, n + 1 - i)) % MotSimple)) % MotDouble,
                          0, [i \in 1..n + 1 |-> i])
  IN FoldLeft(LAMBDA res, n : (res * 2^QUART + rang(n)) % MotDouble, 0, <<3, 2, 1, 0>>)

Suivante(seed) == (mul64(seed, MULTIPLIER) + ADDEND) % 2^(3 * QUART)
randBits(seed, bits) == (Suivante(seed) \div 2^QUART) \div 2^(2 * QUART - bits)
randShort(seed) == randBits(seed, 2 * QUART - 1)  \* 15 bits in the code
rand(seed) == randBits(seed, 2 * QUART)

-----------------------------------------------------------------------------

CONSTANTS TAILLE, OCTETS                      \* the addresses and the bytes followed
VARIABLES appel, holder
varsAppel == <<appel, holder>>

Adresses == 0..TAILLE - 1
Memoires == [Adresses -> OCTETS]
AucunAppel == [f |-> "", m |-> <<>>, a |-> <<>>, apres |-> <<>>, r |-> 0]
InitAppel == appel = AucunAppel /\ holder = NULL

ChainesDe(m) == {s \in Adresses : \E i \in Depuis(m, s) : m[i] = 0}
Etendue(m, s) == strlen(m, s) + 1
Disjoints(p, n, q, k) == p + n <= q \/ q + k <= p
Place(p, n) == p + n <= TAILLE

Effet(f, m, a, apres, r) ==
  appel' = [f |-> f, m |-> m, a |-> a, apres |-> apres, r |-> r] /\ UNCHANGED holder
Lecture(f, m, a, r) == Effet(f, m, a, m, r)

ChercherOctet(m) ==
  \E s \in Adresses, c \in OCTETS, n \in 0..TAILLE : Place(s, n) /\
     \/ Lecture("memchr", m, <<s, c, n>>, memchr(m, s, c, n))
     \/ Lecture("memrchr", m, <<s, c, n>>, memrchr(m, s, c, n))
ChercherCaractere(m) ==
  \E s \in ChainesDe(m), c \in OCTETS :
     \/ Lecture("strchr", m, <<s, c, Etendue(m, s)>>, strchr(m, s, c))
     \/ Lecture("strrchr", m, <<s, c, Etendue(m, s) - 1>>, strrchr(m, s, c))
ChercherTexte(m) ==
  \/ \E y, x \in Adresses, n, l \in 0..TAILLE :
        Place(y, n) /\ Place(x, l) /\ Lecture("memmem", m, <<y, n, x, l>>, memmem(m, y, n, x, l))
  \/ \E y, x \in ChainesDe(m) : Lecture("strstr", m, <<y, strlen(m, y), x, strlen(m, x)>>, strstr(m, y, x))
Comparer(m) ==
  \/ \E a, b \in Adresses, n \in 0..TAILLE :
        Place(a, n) /\ Place(b, n) /\ Lecture("memcmp", m, <<a, b, n>>, memcmp(m, a, b, n))
  \/ \E a, b \in ChainesDe(m) :
        \/ Lecture("strcmp", m, <<a, b, TAILLE>>, strcmp(m, a, b))
        \/ \E n \in 0..TAILLE : Lecture("strncmp", m, <<a, b, n>>, strncmp(m, a, b, n))
Mesurer(m) ==
  \E s, map \in ChainesDe(m) :
     \/ Lecture("strspn", m, <<s, map>>, strspn(m, s, map))
     \/ Lecture("strcspn", m, <<s, map>>, strcspn(m, s, map))
     \/ Lecture("strpbrk", m, <<s, map>>, strpbrk(m, s, map))

Deplacer(m) ==
  \E p, q \in Adresses, n \in 0..TAILLE : Place(p, n) /\ Place(q, n) /\
     \/ Effet("memmove", m, <<q, p, n>>, memmove(m, q, p, n), q)
     \/ Disjoints(p, n, q, n) /\ Effet("memcpy", m, <<q, p, n>>, memcpy(m, q, p, n), q)
     \/ Disjoints(p, n, q, n) /\ Effet("memswap", m, <<q, p, n>>, memswap(m, p, q, n), q)
     \/ /\ Disjoints(p, n, q, n)
        /\ \E c \in OCTETS : LET e == memccpy(m, q, p, c, n) IN Effet("memccpy", m, <<q, p, n, c>>, e.m, e.r)
Copier(m) ==
  \E q \in Adresses, p \in ChainesDe(m) :
     LET l == strlen(m, p) IN
     \/ Place(q, l + 1) /\ Disjoints(p, l + 1, q, l + 1) /\ Effet("strcpy", m, <<q, p, l>>, strcpy(m, q, p), q)
     \/ \E n \in 0..TAILLE :
           Place(q, n) /\ Disjoints(p, l + 1, q, n) /\ Effet("strncpy", m, <<q, p, n>>, strncpy(m, q, p, n), q)
Ajouter(m) ==
  \E q, p \in ChainesDe(m) :
     LET d == strlen(m, q)
         l == strlen(m, p)
         libre(n) == Place(q, d + n + 1) /\ Disjoints(p, l + 1, q, d + n + 1)
     IN \/ libre(l) /\ Effet("strcat", m, <<q, p, l>>, strcat(m, q, p), q)
        \/ \E n \in 0..TAILLE : libre(strnlen(m, p, n)) /\ Effet("strncat", m, <<q, p, n>>, strncat(m, q, p, n), q)
        \/ \E n \in 0..TAILLE :
              /\ Place(q, n) /\ Disjoints(p, l + 1, q, IF n > d + 1 THEN n ELSE d + 1)
              /\ LET e == strlcat(m, q, p, n) IN Effet("strlcat", m, <<q, p, n>>, e.m, e.r)

(* strtok: the text is given once, then NULL; strsep alone is its first step.   *)
Jeton(f, m, s, delim, e) ==
  appel' = [f |-> f, m |-> m, a |-> <<s, delim>>, apres |-> e.m, r |-> e.r] /\ holder' = e.suite
Decouper(m) ==
  \E s, delim \in ChainesDe(m) :
     /\ Disjoints(s, Etendue(m, s), delim, Etendue(m, delim))
     /\ \/ Jeton("strsep", m, s, delim, strsep(m, s, delim))
        \/ Jeton("strtok", m, s, delim, strtok(m, holder, s, delim))
DecouperSuite ==
  /\ appel.f = "strtok" /\ appel.r # NULL
  /\ Jeton("strtok", appel.m, appel.a[1], appel.a[2], strtok(appel.apres, holder, NULL, appel.a[2]))

Calculer ==
  \/ \E x, y \in 0..MotDouble - 1 :
        \/ Lecture("div64", <<>>, <<x, y>>, div64(x, y))
        \/ Lecture("do_div64", <<>>, <<x, y>>, do_div64(x, y))
        \/ Lecture("mul64", <<>>, <<x, y>>, mul64(x, y))
  \/ \E seed \in 0..2^(3 * QUART) - 1 :
        \/ Lecture("rand", <<>>, <<seed>>, rand(seed))
        \/ Lecture("randShort", <<>>, <<seed>>, randShort(seed))

Appeler ==
  \/ /\ appel = AucunAppel
     /\ \/ \E m \in Memoires : \/ ChercherOctet(m) \/ ChercherCaractere(m) \/ ChercherTexte(m) \/ Comparer(m)
                               \/ Mesurer(m) \/ Deplacer(m) \/ Copier(m) \/ Ajouter(m) \/ Decouper(m)
        \/ Calculer
  \/ DecouperSuite
================================================================================
