-------------------------------- MODULE Chaines --------------------------------
(* The memory and string functions of src/shared/string.c.  The memory is a     *)
(* function from addresses to bytes, the byte 0 ends a string and -1 is NULL.   *)
(* A function that writes gives the memory after the call.                      *)
EXTENDS Integers, SequencesExt, TLC
CONSTANT MOT                                  \* bytes moved by one movsl, 4 in the code
ASSUME MotAssumption == MOT \in Nat \ {0}

NULL == -1
Premiere(S) == IF S = {} THEN NULL ELSE Min(S)
Derniere(S) == IF S = {} THEN NULL ELSE Max(S)
Fenetrage(p, n) == p..p + n - 1
Depuis(m, p) == {i \in DOMAIN m : i >= p}

(* The text from p up to its end; a string the program may pass has one.        *)
strlen(m, s) == Min({i \in Depuis(m, s) : m[i] = 0}) - s
strnlen(m, s, max) == LET nuls == {i \in Fenetrage(s, max) \cap DOMAIN m : m[i] = 0}
                      IN IF nuls = {} THEN max ELSE Min(nuls) - s

(* ---- looking for a byte                                                      *)
memchr(m, s, c, n)  == Premiere({i \in Fenetrage(s, n) : m[i] = c})
memrchr(m, s, c, n) == Derniere({i \in Fenetrage(s, n) : m[i] = c})
strchr(m, s, c)  == Premiere({i \in s..s + strlen(m, s) : m[i] = c})
strrchr(m, s, c) == Derniere({i \in Fenetrage(s, strlen(m, s)) : m[i] = c})

(* ---- comparing: the difference of the first bytes that differ                *)
Ecart(m, a, b, n, arret) ==
  LET i == Premiere({k \in 0..n - 1 : {a + k, b + k} \subseteq DOMAIN m /\ (m[a + k] # m[b + k] \/ m[a + k] \in arret)})
  IN IF i = NULL THEN 0 ELSE m[a + i] - m[b + i]
memcmp(m, a, b, n)  == Ecart(m, a, b, n, {})
strcmp(m, a, b)     == Ecart(m, a, b, strlen(m, a) + 1, {0})
strncmp(m, a, b, n) == Ecart(m, a, b, n, {0})

(* ---- copying: one element after the other, so that overlaps count            *)
Transferer(m, q, p, pas) == FoldLeft(LAMBDA a, k : [a EXCEPT ![q + k] = a[p + k]], m, pas)
Montant(n)   == [k \in 1..n |-> k - 1]
Descendant(n) == [k \in 1..n |-> n - k]
Mots(m, q, p, n) ==
  FoldLeft(LAMBDA a, k : [i \in Fenetrage(q + k * MOT, MOT) |-> a[p + i - q]] @@ a, m, Montant(n))
memcpy(m, dst, src, n) ==
  LET fait == MOT * (n \div MOT)
  IN Transferer(Mots(m, dst, src, n \div MOT), dst + fait, src + fait, Montant(n % MOT))
memmove_Montant(m, dst, src, n) == Transferer(m, dst, src, Montant(n))
memmove(m, dst, src, n) == Transferer(m, dst, src, IF dst < src THEN Montant(n) ELSE Descendant(n))
memset(m, dst, c, n) == [i \in Fenetrage(dst, n) |-> c] @@ m
memccpy(m, dst, src, c, n) ==
  LET i == memchr(m, src, c, n)
  IN [m |-> Transferer(m, dst, src, Montant(IF i = NULL THEN n ELSE i - src + 1)),
      r |-> IF i = NULL THEN NULL ELSE dst + i - src + 1]
memswap(m, p, q, n) ==
  FoldLeft(LAMBDA a, k : [a EXCEPT ![p + k] = a[q + k], ![q + k] = a[p + k]], m, Montant(n))

strcpy(m, dst, src) == Transferer(m, dst, src, Montant(strlen(m, src) + 1))
strcat(m, dst, src) == strcpy(m, strchr(m, dst, 0), src)
strncpy(m, dst, src, n) ==
  LET k == strnlen(m, src, n) IN memset(Transferer(m, dst, src, Montant(k)), dst + k, 0, n - k)
strncat(m, dst, src, n) ==
  LET q == strchr(m, dst, 0)
      k == strnlen(m, src, n)
  IN memset(Transferer(m, q, src, Montant(k)), q + k, 0, 1)
(* The size bounds what is written, not what is counted.                        *)
strlcat(m, dst, src, taille) ==
  LET bytes == strnlen(m, dst, taille)
      voulu == strlen(m, src)
      k     == IF voulu < taille - 1 - bytes THEN voulu ELSE taille - 1 - bytes
  IN [m |-> IF bytes = taille THEN m
            ELSE memset(Transferer(m, dst + bytes, src, Montant(k)), dst + bytes + k, 0, 1),
      r |-> bytes + voulu]

(* ---- spans and tokens                                                        *)
Carte(m, map) == {m[i] : i \in Fenetrage(map, strlen(m, map))}
strxspn(m, s, map, parity) ==
  Min({i \in Depuis(m, s) : IF parity = 1 THEN m[i] \in Carte(m, map) \cup {0} ELSE m[i] \notin Carte(m, map)}) - s
strcspn(m, s, reject) == strxspn(m, s, reject, 1)
strspn(m, s, accept)  == strxspn(m, s, accept, 0)
strpbrk(m, s, accept) == LET i == s + strxspn(m, s, accept, 1) IN IF m[i] = 0 THEN NULL ELSE i
strsep(m, s, delim) ==
  IF s = NULL THEN [m |-> m, r |-> NULL, suite |-> NULL]
  ELSE LET e == strpbrk(m, s, delim)
       IN [m |-> IF e = NULL THEN m ELSE [m EXCEPT ![e] = 0], r |-> s,
           suite |-> IF e = NULL THEN NULL ELSE e + 1]
strtok(m, holder, s, delim) == strsep(m, IF s # NULL THEN s ELSE holder, delim)

(* ---- memmem, the "Not So Naive" search: how far to shift depends on whether  *)
(* the needle's second byte was the one found                                   *)
memmem(m, y, n, x, l) ==
  LET double == m[x] = m[x + 1]
      lu(j)  == m[x + 1] = m[y + j + 1]
      ici(j) == lu(j) /\ memcmp(m, x + 2, y + j + 2, l - 2) = 0 /\ m[x] = m[y + j]
      saut(j) == IF lu(j) = double THEN 1 ELSE 2
      cherche[j \in 0..n + 1] == IF j > n - l THEN NULL
                                 ELSE IF ici(j) THEN y + j ELSE cherche[j + saut(j)]
  IN IF l > n \/ l = 0 \/ n = 0 THEN NULL
     ELSE IF l = 1 THEN memchr(m, y, m[x], n) ELSE cherche[0]
strstr(m, haystack, needle) == memmem(m, haystack, strlen(m, haystack), needle, strlen(m, needle))
================================================================================
