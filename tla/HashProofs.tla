----------------------------- MODULE HashProofs -----------------------------
(***************************************************************************)
(* The hash table keeps its promise for any keys, any 32-bit hash codes,   *)
(* any values and any number of resizings: hash_lookup ends, finds the     *)
(* slot of its key, and the table is a dictionary.                         *)
(***************************************************************************)
EXTENDS HashProp, FilePrioProofs, FiniteSetTheorems

-----------------------------------------------------------------------------
(* The values of 5i+1 run through the residues of a power of two.  After T *)
(* turns, T being the power, the value has grown by an odd multiple of T   *)
(* plus a multiple of 4T: hence the residues modulo 2T that T turns miss   *)
(* are met in the T following ones.                                        *)
Affine(v, N) == v \in [0..N -> Int] /\ \A n \in 0..N-1 : v[n+1] = 5 * v[n] + 1

Avance(T, a, b) ==
  \A N \in Nat : \A v : Affine(v, N) =>
    \A n \in 0..N-T : v[n+T] = v[n] + 4 * (T * (a * v[n])) + T * (2 * b + 1)

Rencontre(v, N, T) ==
  \A y \in 0..T-1, s \in 0..N-T+1 : \E n \in s..s+T-1, q \in Int : v[n] = y + q * T

Parcourt(T) == \A N \in Nat : \A v : Affine(v, N) => Rencontre(v, N, T)

Complet(T) ==
  /\ T \in Nat \ {0}
  /\ \E a, b \in Int : Avance(T, a, b)
  /\ Parcourt(T)

LEMMA CompletUn == Complet(1)
<1>1. Avance(1, 1, 0)
  <2>1. ASSUME NEW N \in Nat, NEW v, Affine(v, N), NEW n \in 0..N-1
        PROVE  v[n+1] = v[n] + 4 * (1 * (1 * v[n])) + 1 * (2 * 0 + 1)
    <3>1. v[n] \in Int /\ v[n+1] = 5 * v[n] + 1
      <4>1. n \in 0..N
        OBVIOUS
      <4>2. QED
        BY <2>1, <4>1 DEF Affine
    <3>2. QED
      BY <3>1
  <2>2. QED
    BY <2>1 DEF Avance
<1>2. Parcourt(1)
  <2>1. ASSUME NEW N \in Nat, NEW v, Affine(v, N), NEW y \in 0..0, NEW s \in 0..N-1+1
        PROVE  \E n \in s..s+1-1, q \in Int : v[n] = y + q * 1
    <3>1. s \in 0..N /\ s \in s..s+1-1 /\ y = 0
      OBVIOUS
    <3>2. v[s] \in Int /\ v[s] = y + v[s] * 1
      BY <2>1, <3>1 DEF Affine
    <3>3. QED
      BY <3>1, <3>2
  <2>2. QED
    BY <2>1 DEF Parcourt, Rencontre
<1>3. QED
  BY <1>1, <1>2 DEF Complet

LEMMA AvanceDouble ==
  ASSUME NEW T \in Nat \ {0}, NEW a \in Int, NEW b \in Int, Avance(T, a, b)
  PROVE  \E c, d \in Int : Avance(2 * T, c, d)
<1>1. PICK c \in Int : c = a + 2 * (T * (a * a))
  OBVIOUS
<1>2. PICK d \in Int : d = b + T * (a * (2 * b + 1))
  OBVIOUS
<1>3. ASSUME NEW N \in Nat, NEW v, Affine(v, N), NEW n \in 0..N-2*T
      PROVE  v[n+2*T] = v[n] + 4 * ((2 * T) * (c * v[n])) + (2 * T) * (2 * d + 1)
  <2>1. n \in 0..N-T /\ n+T \in 0..N-T /\ (n+T)+T = n+2*T /\ n \in 0..N
    OBVIOUS
  <2>2. v[n+T] = v[n] + 4 * (T * (a * v[n])) + T * (2 * b + 1)
    BY <1>3, <2>1 DEF Avance
  <2>3. v[n+2*T] = v[n+T] + 4 * (T * (a * v[n+T])) + T * (2 * b + 1)
    <3>1. v[(n+T)+T] = v[n+T] + 4 * (T * (a * v[n+T])) + T * (2 * b + 1)
      BY <1>3, <2>1 DEF Avance
    <3>2. QED
      BY <2>1, <3>1
  <2>4. PICK x \in Int : x = v[n]
    BY <1>3, <2>1 DEF Affine
  <2>5. PICK w \in Int : w = 2 * b + 1
    OBVIOUS
  <2>6. ASSUME NEW y \in Int, y = x + 4 * (T * (a * x)) + T * w
        PROVE  y + 4 * (T * (a * y)) + T * w
                 = x + 4 * ((2 * T) * (c * x)) + (2 * T) * (2 * d + 1)
    BY <1>1, <1>2, <2>5, <2>6
  <2>7. v[n+T] \in Int /\ v[n+T] = x + 4 * (T * (a * x)) + T * w
    BY <2>2, <2>4, <2>5
  <2>8. QED
    BY <2>3, <2>4, <2>5, <2>6, <2>7
<1>4. QED
  BY <1>3 DEF Avance

LEMMA ParcourtDouble ==
  ASSUME NEW T \in Nat \ {0}, NEW a \in Int, NEW b \in Int, Avance(T, a, b), Parcourt(T)
  PROVE  Parcourt(2 * T)
<1>1. ASSUME NEW N \in Nat, NEW v, Affine(v, N),
             NEW y \in 0..2*T-1, NEW s \in 0..N-2*T+1
      PROVE  \E n \in s..s+2*T-1, q \in Int : v[n] = y + q * (2 * T)
  <2>1. PICK z \in 0..T-1 : z = IF y < T THEN y ELSE y - T
    <3>1. y < T => y \in 0..T-1
      OBVIOUS
    <3>2. ~(y < T) => y - T \in 0..T-1
      OBVIOUS
    <3>3. QED
      BY <3>1, <3>2
  <2>2. PICK n \in s..s+T-1, q \in Int : v[n] = z + q * T
    <3>1. s \in 0..N-T+1
      OBVIOUS
    <3>2. Rencontre(v, N, T)
      BY <1>1 DEF Parcourt
    <3>3. QED
      BY <3>1, <3>2 DEF Rencontre
  <2>3. /\ n \in 0..N-T /\ n \in s..s+2*T-1 /\ n+T \in s..s+2*T-1 /\ n \in 0..N
    OBVIOUS
  <2>4. PICK x \in Int : x = v[n]
    BY <1>1, <2>3 DEF Affine
  <2>5. v[n+T] = x + 4 * (T * (a * x)) + T * (2 * b + 1)
    BY <1>1, <2>3, <2>4 DEF Avance
  <2>6. PICK w \in Int : w = 2 * (a * x) + b
    OBVIOUS
  <2>7. v[n+T] = z + (q + 1 + 2 * w) * T
    BY <2>2, <2>4, <2>5, <2>6
  <2>8. PICK r \in Int : q = 2 * r \/ q = 2 * r + 1
    <3>1. q \div 2 \in Int /\ (q = 2 * (q \div 2) \/ q = 2 * (q \div 2) + 1)
      OBVIOUS
    <3>2. QED
      BY <3>1
  <2>9. CASE y < T /\ q = 2 * r
    <3>1. v[n] = y + r * (2 * T)
      BY <2>1, <2>2, <2>9
    <3>2. QED
      BY <2>3, <3>1
  <2>10. CASE y < T /\ q = 2 * r + 1
    <3>1. v[n+T] = y + (r + 1 + w) * (2 * T) /\ r + 1 + w \in Int
      BY <2>1, <2>7, <2>10
    <3>2. QED
      BY <2>3, <3>1
  <2>11. CASE ~(y < T) /\ q = 2 * r + 1
    <3>1. v[n] = y + r * (2 * T)
      BY <2>1, <2>2, <2>11
    <3>2. QED
      BY <2>3, <3>1
  <2>12. CASE ~(y < T) /\ q = 2 * r
    <3>1. v[n+T] = y + (r + w) * (2 * T) /\ r + w \in Int
      BY <2>1, <2>7, <2>12
    <3>2. QED
      BY <2>3, <3>1
  <2>13. QED
    BY <2>8, <2>9, <2>10, <2>11, <2>12
<1>2. QED
  BY <1>1 DEF Parcourt, Rencontre

LEMMA CompletDouble ==
  ASSUME NEW T, Complet(T)
  PROVE  Complet(2 * T)
<1>1. T \in Nat \ {0} /\ Parcourt(T)
  BY DEF Complet
<1>2. PICK a \in Int, b \in Int : Avance(T, a, b)
  BY DEF Complet
<1>3. \E c, d \in Int : Avance(2 * T, c, d)
  BY <1>1, <1>2, AvanceDouble
<1>4. Parcourt(2 * T)
  BY <1>1, <1>2, ParcourtDouble
<1>5. 2 * T \in Nat \ {0}
  BY <1>1
<1>6. QED
  BY <1>3, <1>4, <1>5 DEF Complet

(* The sizes of the table are powers of two; each but the first is twice   *)
(* another.                                                                *)
LEMMA TaillesCompletes ==
  /\ Tailles \subseteq Nat /\ HASH_MINSIZE \in Tailles
  /\ \A t \in Tailles : /\ Complet(t) /\ t >= HASH_MINSIZE
                        /\ t = HASH_MINSIZE \/ \E u \in Tailles : t = 2 * u
<1>1. HASH_MINSIZE \in Nat /\ Complet(HASH_MINSIZE)
  <2>1. Complet(2 * 1) /\ Complet(2 * (2 * 1)) /\ Complet(2 * (2 * (2 * 1)))
        /\ Complet(2 * (2 * (2 * (2 * 1))))
    BY CompletUn, CompletDouble
  <2>2. 2 * 1 = 2 /\ 2 * (2 * 1) = 4 /\ 2 * (2 * (2 * 1)) = 8 /\ 2 * (2 * (2 * (2 * 1))) = 16
    OBVIOUS
  <2>3. Complet(2) /\ Complet(4) /\ Complet(8) /\ Complet(16)
    BY <2>1, <2>2
  <2>4. QED
    BY <2>3, HashAssumption
<1>2. PICK D \in Nat : D = DOUBLEMENTS
  BY HashAssumption
<1> DEFINE Egal(f) == f = [i \in 0..D |-> IF i = 0 THEN HASH_MINSIZE ELSE 2 * f[i-1]]
<1>3. \E f : Egal(f)
  <2>1. PICK F : F = [n \in 1..D |-> [x \in Nat |-> 2 * x]]
    OBVIOUS
  <2>2. F \in [1..D -> [Nat -> Nat]]
    BY <2>1
  <2>3. PICK f \in [0..D -> Nat] : EstSuite(f, D, HASH_MINSIZE, F)
    BY <1>1, <2>2, SuiteRecursive
  <2>4. \A n \in 0..D : f[n] = IF n = 0 THEN HASH_MINSIZE ELSE 2 * f[n-1]
    <3>1. ASSUME NEW n \in 1..D
          PROVE  f[n] = 2 * f[n-1]
      <4>1. n-1 \in 0..D /\ f[n-1] \in Nat
        BY <1>2
      <4>2. QED
        BY <2>1, <2>3, <4>1 DEF EstSuite
    <3>2. QED
      BY <1>2, <2>3, <3>1 DEF EstSuite
  <2>5. QED
    BY <2>4
<1>4. PICK f : Egal(f) /\ Tailles = {f[i] : i \in 0..D}
  BY <1>2, <1>3 DEF Tailles
<1>5. f[0] = HASH_MINSIZE /\ \A n \in 1..D : f[n] = 2 * f[n-1]
  BY <1>2, <1>4
<1> HIDE DEF Egal
<1>6. \A n \in 0..D : f[n] \in Nat /\ Complet(f[n]) /\ f[n] >= HASH_MINSIZE
  <2> DEFINE A == {n \in 0..D : f[n] \in Nat /\ Complet(f[n]) /\ f[n] >= HASH_MINSIZE}
  <2>1. 0 \in A
    BY <1>1, <1>2, <1>5
  <2>2. ASSUME NEW n \in 1..D, n-1 \in A PROVE n \in A
    <3>1. Complet(f[n-1]) /\ f[n-1] >= HASH_MINSIZE /\ f[n] = 2 * f[n-1] /\ f[n-1] \in Nat
      BY <1>5, <2>2
    <3>2. Complet(f[n])
      BY <3>1, CompletDouble
    <3>3. QED
      BY <1>1, <3>1, <3>2
  <2>3. 0..D \subseteq A
    <3> HIDE DEF A
    <3>1. QED
      BY <1>2, <2>1, <2>2, RecurrenceEntiers
  <2>4. QED
    BY <2>3
<1>7. ASSUME NEW t \in Tailles
      PROVE  /\ t \in Nat /\ Complet(t) /\ t >= HASH_MINSIZE
             /\ t = HASH_MINSIZE \/ \E u \in Tailles : t = 2 * u
  <2>1. PICK i \in 0..D : t = f[i]
    BY <1>4
  <2>2. t \in Nat /\ Complet(t) /\ t >= HASH_MINSIZE
    BY <1>6, <2>1
  <2>3. CASE i = 0
    <3>1. t = HASH_MINSIZE
      BY <1>5, <2>1, <2>3
    <3>2. QED
      BY <2>2, <3>1
  <2>4. CASE i # 0
    <3>1. i \in 1..D /\ i-1 \in 0..D
      BY <2>4
    <3>2. f[i-1] \in Tailles /\ t = 2 * f[i-1]
      BY <1>4, <1>5, <2>1, <3>1
    <3>3. QED
      BY <2>2, <3>2
  <2>5. QED
    BY <2>3, <2>4
<1>8. HASH_MINSIZE \in Tailles
  <2>1. 0 \in 0..D
    BY <1>2
  <2>2. QED
    BY <1>4, <1>5, <2>1
<1>9. QED
  BY <1>7, <1>8

LEMMA PerturbationType ==
  ASSUME NEW k \in CLES
  PROVE  \A n \in 0..6 : Perturbation[k][n] \in Nat
<1>1. HACHE[k] \in Nat
  BY HashAssumption
<1> DEFINE Egal(f) == f = [n \in 0..6 |-> IF n = 0 THEN HACHE[k] ELSE f[n-1] \div 32]
<1>2. \E f : Egal(f)
  <2>1. PICK F : F = [n \in 1..6 |-> [x \in Nat |-> x \div 32]]
    OBVIOUS
  <2>2. F \in [1..6 -> [Nat -> Nat]]
    BY <2>1
  <2>3. PICK f \in [0..6 -> Nat] : EstSuite(f, 6, HACHE[k], F)
    BY <1>1, <2>2, SuiteRecursive
  <2>4. \A n \in 0..6 : f[n] = IF n = 0 THEN HACHE[k] ELSE f[n-1] \div 32
    <3>1. ASSUME NEW n \in 1..6
          PROVE  f[n] = f[n-1] \div 32
      <4>1. n-1 \in 0..6 /\ f[n-1] \in Nat
        OBVIOUS
      <4>2. QED
        BY <2>1, <2>3, <4>1 DEF EstSuite
    <3>2. QED
      BY <2>3, <3>1 DEF EstSuite
  <2>5. QED
    BY <2>4
<1>3. PICK f : Egal(f) /\ Perturbation[k] = f
  BY <1>2 DEF Perturbation
<1>4. f[0] = HACHE[k] /\ \A n \in 1..6 : f[n] = f[n-1] \div 32
  BY <1>3
<1> DEFINE A == {n \in 0..6 : f[n] \in Nat}
<1>5. 0 \in A
  BY <1>1, <1>4
<1>6. \A n \in 1..6 : n-1 \in A => n \in A
  BY <1>4
<1>7. 0..6 \subseteq A
  <2> HIDE DEF A
  <2>1. QED
    BY <1>5, <1>6, RecurrenceEntiers
<1>8. QED
  BY <1>3, <1>7

LEMMA SondeProp ==
  ASSUME NEW t \in Tailles, NEW k \in CLES
  PROVE  /\ t \in Nat \ {0}
         /\ Sonde[t][k] \in [Essais(t) -> 0..t-1]
         /\ \A n \in 8..t+7 : Sonde[t][k][n] = (5 * Sonde[t][k][n-1] + 1) % t
<1>1. t \in Nat \ {0}
  BY TaillesCompletes DEF Complet
<1>2. \A n \in 0..6 : Perturbation[k][n] \in Nat
  BY PerturbationType
<1>3. HACHE[k] \in Nat
  BY HashAssumption
<1> DEFINE Pas(n, x) == IF n <= 7 THEN (5 * x + Perturbation[k][n-1] + 1) % t
                        ELSE (5 * x + 1) % t
           Egal(f) == f = [n \in Essais(t) |->
                             IF n = 0 THEN HACHE[k] % t ELSE Pas(n, f[n-1])]
<1>4. ASSUME NEW n \in 1..t+7, NEW x \in 0..t-1
      PROVE  Pas(n, x) \in 0..t-1
  <2>1. \A y \in Nat : y % t \in 0..t-1
    BY <1>1
  <2>2. n <= 7 => 5 * x + Perturbation[k][n-1] + 1 \in Nat
    <3>1. n <= 7 => n-1 \in 0..6
      BY <1>1
    <3>2. x \in Nat
      BY <1>1
    <3>3. QED
      BY <1>2, <3>1, <3>2
  <2>3. 5 * x + 1 \in Nat
    BY <1>1
  <2>4. QED
    BY <2>1, <2>2, <2>3
<1>5. HACHE[k] % t \in 0..t-1
  BY <1>1, <1>3
<1> HIDE DEF Pas
<1>6. \E f : Egal(f)
  <2>1. PICK F : F = [n \in 1..t+7 |-> [x \in 0..t-1 |-> Pas(n, x)]]
    OBVIOUS
  <2>2. F \in [1..t+7 -> [0..t-1 -> 0..t-1]]
    BY <1>4, <2>1
  <2>3. PICK f \in [0..t+7 -> 0..t-1] : EstSuite(f, t+7, HACHE[k] % t, F)
    <3>1. PICK N \in Nat : N = t+7
      BY <1>1
    <3>2. PICK S : S = 0..t-1
      OBVIOUS
    <3>3. PICK a \in S : a = HACHE[k] % t
      BY <1>5, <3>2
    <3>4. F \in [1..N -> [S -> S]]
      BY <2>2, <3>1, <3>2
    <3>5. \E f \in [0..N -> S] : EstSuite(f, N, a, F)
      BY <3>4, SuiteRecursive
    <3>6. QED
      BY <3>1, <3>2, <3>3, <3>5
  <2>4. \A n \in 0..t+7 : f[n] = IF n = 0 THEN HACHE[k] % t ELSE Pas(n, f[n-1])
    <3>1. ASSUME NEW n \in 1..t+7
          PROVE  f[n] = Pas(n, f[n-1])
      <4>1. n-1 \in 0..t+7
        BY <1>1
      <4>2. f[n-1] \in 0..t-1
        BY <2>3, <4>1
      <4>3. f[n] = F[n][f[n-1]]
        BY <2>3 DEF EstSuite
      <4>4. QED
        BY <2>1, <4>2, <4>3
    <3>2. f[0] = HACHE[k] % t
      BY <2>3 DEF EstSuite
    <3>3. \A n \in 0..t+7 : n # 0 => n \in 1..t+7
      BY <1>1
    <3>4. QED
      BY <3>1, <3>2, <3>3
  <2>5. QED
    BY <2>4 DEF Essais
<1>7. PICK f : Egal(f) /\ Sonde[t][k] = f
  <2>1. Sonde[t][k] = CHOOSE f : Egal(f)
    BY Zenon DEF Sonde, Pas
  <2>2. QED
    BY <1>6, <2>1
<1>8. /\ DOMAIN f = 0..t+7 /\ f[0] = HACHE[k] % t
      /\ \A n \in 1..t+7 : f[n] = Pas(n, f[n-1])
  BY <1>1, <1>7 DEF Essais
<1> HIDE DEF Egal
<1>9. \A n \in 0..t+7 : f[n] \in 0..t-1
  <2> DEFINE A == {n \in 0..t+7 : f[n] \in 0..t-1}
  <2>1. 0 \in A
    BY <1>1, <1>5, <1>8
  <2>2. ASSUME NEW n \in 1..t+7, n-1 \in A PROVE n \in A
    BY <1>4, <1>8, <2>2
  <2>3. 0..t+7 \subseteq A
    <3> HIDE DEF A
    <3>1. t+7 \in Nat
      BY <1>1
    <3>2. QED
      BY <2>1, <2>2, <3>1, RecurrenceEntiers
  <2>4. QED
    BY <2>3
<1>10. f \in [Essais(t) -> 0..t-1]
  <2>1. f = [n \in 0..t+7 |-> f[n]]
    BY <1>7, <1>8 DEF Egal, Essais
  <2>2. QED
    BY <1>9, <2>1 DEF Essais
<1>11. \A n \in 8..t+7 : f[n] = (5 * f[n-1] + 1) % t
  <2>1. \A n \in 8..t+7 : n \in 1..t+7 /\ ~(n <= 7)
    OBVIOUS
  <2>2. QED
    BY <1>8, <2>1 DEF Pas
<1>12. QED
  BY <1>1, <1>7, <1>10, <1>11

(* z and y are the same modulo t. *)
Congrus(z, y, t) == \E r \in Int : z = y + r * t

LEMMA Division ==
  ASSUME NEW t \in Nat \ {0}, NEW z \in Nat, NEW y, y = z % t
  PROVE  Congrus(z, y, t)
<1>1. PICK r \in Int : r = z \div t
  OBVIOUS
<1>2. z = t * (z \div t) + (z % t)
  OBVIOUS
<1>3. y \in Int
  OBVIOUS
<1>4. z = y + r * t
  BY <1>1, <1>2, <1>3
<1>5. QED
  BY <1>4 DEF Congrus

LEMMA PasAffine ==
  ASSUME NEW t \in Nat \ {0}, NEW w \in Int, NEW x \in Nat, Congrus(w, x, t),
         NEW y \in Nat, y = (5 * x + 1) % t, NEW z, z = 5 * w + 1
  PROVE  Congrus(z, y, t)
<1>1. PICK q \in Int : w = x + q * t
  BY DEF Congrus
<1>2. PICK d \in Nat : d = 5 * x + 1
  OBVIOUS
<1>3. PICK r \in Int : d = y + r * t
  <2>1. y = d % t
    BY <1>2
  <2>2. Congrus(d, y, t)
    BY <2>1, Division
  <2>3. QED
    BY <2>2 DEF Congrus
<1>4. PICK e \in Int : e = 5 * q + r
  OBVIOUS
<1>5. z = y + e * t
  BY <1>1, <1>2, <1>3, <1>4
<1>6. QED
  BY <1>5 DEF Congrus

(* hash_lookup would probe every slot, once the hash code is used up. *)
LEMMA SondeComplete ==
  ASSUME NEW t \in Tailles, NEW k \in CLES, NEW i \in 0..t-1
  PROVE  \E n \in Essais(t) : Sonde[t][k][n] = i
<1>1. PICK u : u = Sonde[t][k]
  OBVIOUS
<1>2. /\ t \in Nat \ {0} /\ u \in [0..t+7 -> 0..t-1]
      /\ \A n \in 8..t+7 : u[n] = (5 * u[n-1] + 1) % t
      /\ \A n \in 0..t+7 : u[n] \in Nat
  <2>1. /\ t \in Nat \ {0} /\ u \in [0..t+7 -> 0..t-1]
        /\ \A n \in 8..t+7 : u[n] = (5 * u[n-1] + 1) % t
    BY <1>1, SondeProp DEF Essais
  <2>2. \A n \in 0..t+7 : u[n] \in 0..t-1
    BY <2>1
  <2>3. \A x \in 0..t-1 : x \in Nat
    BY <2>1
  <2>4. \A n \in 0..t+7 : u[n] \in Nat
    BY <2>2, <2>3, Zenon
  <2>5. QED
    BY <2>1, <2>4
<1>3. PICK N \in Nat : N = t-1
  BY <1>2
<1>4. u[7] \in Int
  BY <1>2
<1>5. PICK F : F = [n \in 1..N |-> [x \in Int |-> 5 * x + 1]]
  OBVIOUS
<1>6. PICK v \in [0..N -> Int] : EstSuite(v, N, u[7], F)
  <2>1. F \in [1..N -> [Int -> Int]]
    BY <1>5
  <2>2. QED
    BY <1>4, <2>1, SuiteRecursive
<1>7. v[0] = u[7] /\ \A n \in 1..N : v[n] = 5 * v[n-1] + 1
  <2>1. ASSUME NEW n \in 1..N PROVE v[n] = 5 * v[n-1] + 1
    <3>1. v[n-1] \in Int
      OBVIOUS
    <3>2. QED
      BY <1>5, <1>6, <3>1 DEF EstSuite
  <2>2. QED
    BY <1>6, <2>1 DEF EstSuite
<1>8. Affine(v, N)
  <2>1. ASSUME NEW n \in 0..N-1 PROVE v[n+1] = 5 * v[n] + 1
    <3>1. n+1 \in 1..N /\ (n+1)-1 = n
      OBVIOUS
    <3>2. QED
      BY <1>7, <3>1
  <2>2. QED
    BY <2>1 DEF Affine
<1>9. \A n \in 0..N : Congrus(v[n], u[7+n], t)
  <2> DEFINE A == {n \in 0..N : Congrus(v[n], u[7+n], t)}
  <2>1. 0 \in A
    <3>1. v[0] = u[7+0] + 0 * t
      BY <1>2, <1>4, <1>7
    <3>2. QED
      BY <3>1 DEF Congrus
  <2>2. ASSUME NEW n \in 1..N, n-1 \in A PROVE n \in A
    <3>1. 7+n \in 8..t+7 /\ (7+n)-1 = 7+(n-1) /\ 7+(n-1) \in 0..t+7 /\ 7+n \in 0..t+7
      BY <1>2, <1>3
    <3>2. PICK x \in Nat : x = u[7+(n-1)]
      BY <1>2, <3>1
    <3>3. PICK y \in Nat : y = u[7+n]
      BY <1>2, <3>1
    <3>4. y = (5 * x + 1) % t
      BY <1>2, <3>1, <3>2, <3>3
    <3>5. PICK w \in Int : w = v[n-1]
      <4>1. n-1 \in 0..N
        OBVIOUS
      <4>2. QED
        BY <4>1
    <3>6. Congrus(w, x, t) /\ v[n] = 5 * w + 1
      BY <1>7, <2>2, <3>2, <3>5
    <3>7. t \in Nat \ {0}
      BY <1>2
    <3>8. Congrus(v[n], y, t)
      BY <3>4, <3>6, <3>7, PasAffine
    <3>9. QED
      BY <3>3, <3>8
  <2>3. 0..N \subseteq A
    <3> HIDE DEF A
    <3>1. QED
      BY <2>1, <2>2, RecurrenceEntiers
  <2>4. QED
    BY <2>3
<1>10. PICK n \in 0..N, p \in Int : v[n] = i + p * t
  <2>1. Rencontre(v, N, t)
    BY <1>8, TaillesCompletes DEF Complet, Parcourt
  <2>2. 0 \in 0..N-t+1 /\ 0+t-1 = N
    BY <1>2, <1>3
  <2>3. \E n \in 0..0+t-1, p \in Int : v[n] = i + p * t
    BY <2>1, <2>2 DEF Rencontre
  <2>4. QED
    BY <2>2, <2>3
<1>11. PICK q \in Int : v[n] = u[7+n] + q * t
  BY <1>9 DEF Congrus
<1>12. 7+n \in 0..t+7
  BY <1>2, <1>3
<1>13. PICK x \in 0..t-1 : x = u[7+n]
  BY <1>2, <1>12
<1>14. x = i
  <2>1. i + p * t = x + q * t
    BY <1>10, <1>11, <1>13
  <2>2. QED
    BY <1>2, <1>13, <2>1, Residus
<1>15. QED
  BY <1>1, <1>12, <1>13, <1>14 DEF Essais

-----------------------------------------------------------------------------
(* The inductive invariant: in a table of a legal size, hash_lookup gets   *)
(* to every ACTIVE slot before it meets an EMPTY one or its key; fill and  *)
(* count are the slots they count; and, apart from the slots taken while   *)
(* an allocation kept failing, less than 2/3 of the slots are filled.      *)
Tables(t) == [table : [0..t-1 -> Slots], fill : Nat, count : Nat]

Chemin(m, k, i) ==
  \E n \in Essais(Taille(m)) :
    Sonde[Taille(m)][k][n] = i /\ \A j \in 0..n-1 : ~Arret(m, k, j)

Accessible(m) ==
  \A i \in DOMAIN m.table :
    m.table[i].mode = "SL_ACTIVE" => Chemin(m, m.table[i].key, i)

Pleines(m) == {i \in DOMAIN m.table : m.table[i] # Vide}
Actives(m) == {i \in DOMAIN m.table : m.table[i].mode = "SL_ACTIVE"}

Compte(m) == m.fill = Cardinality(Pleines(m)) /\ m.count = Cardinality(Actives(m))

Sain(m) ==
  /\ Taille(m) \in Tailles
  /\ m \in Tables(Taille(m))
  /\ Accessible(m)
  /\ Compte(m)

IInvHash ==
  /\ echecs \in 0..ECHECS
  /\ \/ map = Detruite
     \/ Sain(map) /\ 3 * (map.fill - echecs) < 2 * Taille(map)

LEMMA SlotsProp ==
  /\ Vide \in Slots /\ Supprime \in Slots /\ Vide # Supprime
  /\ Vide.mode # "SL_ACTIVE" /\ Supprime.mode # "SL_ACTIVE"
  /\ \A k \in CLES, v \in VALEURS :
       /\ Actif(k, v) \in Slots /\ Actif(k, v) # Vide
       /\ Actif(k, v).mode = "SL_ACTIVE" /\ Actif(k, v).key = k /\ Actif(k, v).value = v
  /\ \A s \in Slots :
       s.mode = "SL_ACTIVE" =>
         /\ s.key \in CLES /\ s.value \in VALEURS
         /\ s = Actif(s.key, s.value) /\ s # Vide /\ s # Supprime
  /\ \A s \in Slots : s.mode # "SL_ACTIVE" => s = Vide \/ s = Supprime
<1>1. Vide.mode = "SL_EMPTY" /\ Supprime.mode = "SL_DELETED"
  BY DEF Vide, Supprime
<1>2. \A k, v : Actif(k, v).mode = "SL_ACTIVE" /\ Actif(k, v).key = k /\ Actif(k, v).value = v
  BY DEF Actif
<1>3. Slots = {Vide, Supprime} \cup {Actif(k, v) : k \in CLES, v \in VALEURS}
  BY DEF Slots
<1>4. QED
  BY <1>1, <1>2, <1>3

LEMMA TablesProp ==
  ASSUME NEW t \in Tailles, NEW m \in Tables(t)
  PROVE  /\ DOMAIN m.table = 0..t-1 /\ Taille(m) = t
         /\ t \in Nat \ {0} /\ 0 \in 0..t-1
         /\ \A i \in 0..t-1 : m.table[i] \in Slots
         /\ m.fill \in Nat /\ m.count \in Nat
         /\ m # Detruite
<1>1. t \in Nat \ {0}
  BY TaillesCompletes DEF Complet
<1>2. m.table \in [0..t-1 -> Slots] /\ m.fill \in Nat /\ m.count \in Nat
  BY DEF Tables
<1>3. DOMAIN m.table = 0..t-1 /\ \A i \in 0..t-1 : m.table[i] \in Slots
  BY <1>2
<1>4. Taille(m) = t
  BY <1>1, <1>3, FS_Interval DEF Taille
<1>5. 0 \in 0..t-1
  BY <1>1
<1>6. m # Detruite
  <2>1. Detruite.table = << >> /\ DOMAIN << >> = 1..0 /\ 0 \notin 1..0
    BY DEF Detruite
  <2>2. QED
    BY <1>3, <1>5, <2>1
<1>7. QED
  BY <1>1, <1>2, <1>3, <1>4, <1>5, <1>6

(* The probes that stop hash_lookup, in a table of t slots. *)
LEMMA ArretProp ==
  ASSUME NEW t \in Tailles, NEW m \in Tables(t), NEW k \in CLES, NEW n \in Essais(t)
  PROVE  /\ Sonde[t][k][n] \in 0..t-1
         /\ Arret(m, k, n) <=> \/ m.table[Sonde[t][k][n]] = Vide
                               \/ Contient(m, Sonde[t][k][n], k)
<1>1. Taille(m) = t
  BY TablesProp
<1>2. Sonde[t][k][n] \in 0..t-1
  BY SondeProp
<1>3. QED
  BY <1>1, <1>2 DEF Arret

LEMMA DernierEssaiProp ==
  ASSUME NEW t \in Tailles, NEW m \in Tables(t), NEW k \in CLES, ~SansFin(m, k)
  PROVE  /\ DernierEssai(m, k) \in Essais(t)
         /\ Arret(m, k, DernierEssai(m, k))
         /\ \A j \in 0..DernierEssai(m, k)-1 : ~Arret(m, k, j)
<1>1. Taille(m) = t /\ t \in Nat
  BY TablesProp
<1> DEFINE S == {n \in Essais(t) : Arret(m, k, n)}
<1>2. S \in SUBSET Nat /\ S # {}
  BY <1>1 DEF SansFin, Essais
<1>3. PICK n \in S : \A y \in S : n <= y
  BY <1>2, PlusPetit, Zenon
<1>4. ASSUME NEW j \in 0..n-1 PROVE ~Arret(m, k, j)
  <2>1. j \in Essais(t) /\ ~(n <= j)
    BY <1>1, <1>3 DEF Essais
  <2>2. QED
    BY <1>3, <2>1
<1>5. n \in Essais(t) /\ Arret(m, k, n)
  BY <1>3
<1>6. DernierEssai(m, k) =
        CHOOSE i \in Essais(t) : Arret(m, k, i) /\ \A j \in 0..i-1 : ~Arret(m, k, j)
  BY <1>1, Zenon DEF DernierEssai
<1>7. QED
  BY <1>4, <1>5, <1>6, Zenon

(* The probe that gets to a slot stands alone. *)
LEMMA CheminUnique ==
  ASSUME NEW t \in Tailles, NEW m \in Tables(t), NEW k \in CLES,
         NEW n \in Essais(t), Arret(m, k, n), \A j \in 0..n-1 : ~Arret(m, k, j),
         NEW p \in Essais(t), Arret(m, k, p), \A j \in 0..p-1 : ~Arret(m, k, j)
  PROVE  n = p
<1>1. n \in Nat /\ p \in Nat
  <2>1. t \in Nat
    BY TablesProp
  <2>2. QED
    BY <2>1 DEF Essais
<1>2. ~(n < p)
  <2>1. n < p => n \in 0..p-1
    BY <1>1
  <2>2. QED
    BY <2>1
<1>3. ~(p < n)
  <2>1. p < n => p \in 0..n-1
    BY <1>1
  <2>2. QED
    BY <2>1
<1>4. QED
  BY <1>1, <1>2, <1>3

(* hash_lookup ends on the slot of its key, and no other slot has it. *)
LEMMA LookupPresent ==
  ASSUME NEW t \in Tailles, NEW m \in Tables(t), Accessible(m),
         NEW k \in CLES, NEW i \in 0..t-1, Contient(m, i, k)
  PROVE  ~SansFin(m, k) /\ hash_lookup(m, k) = i
<1>1. Taille(m) = t /\ i \in DOMAIN m.table
  BY TablesProp
<1>2. m.table[i].mode = "SL_ACTIVE" /\ m.table[i].key = k
  BY DEF Contient, hash_string_cmp
<1>3. Chemin(m, k, i)
  BY <1>1, <1>2 DEF Accessible
<1>4. PICK n \in Essais(t) : Sonde[t][k][n] = i /\ \A j \in 0..n-1 : ~Arret(m, k, j)
  BY <1>1, <1>3 DEF Chemin
<1>5. Arret(m, k, n)
  BY <1>4, ArretProp
<1>6. ~SansFin(m, k)
  BY <1>1, <1>5 DEF SansFin
<1>7. DernierEssai(m, k) = n
  BY <1>4, <1>5, <1>6, DernierEssaiProp, CheminUnique
<1>8. QED
  BY <1>1, <1>4, <1>6, <1>7 DEF hash_lookup

LEMMA CleUnique ==
  ASSUME NEW t \in Tailles, NEW m \in Tables(t), Accessible(m),
         NEW k \in CLES, NEW i \in 0..t-1, Contient(m, i, k),
         NEW j \in 0..t-1, Contient(m, j, k)
  PROVE  i = j
<1>1. hash_lookup(m, k) = i
  BY LookupPresent
<1>2. hash_lookup(m, k) = j
  BY LookupPresent
<1>3. QED
  BY <1>1, <1>2

(* When no slot has the key, hash_lookup ends on a slot that is not ACTIVE *)
(* and that it can come back to.                                           *)
LEMMA LookupAbsent ==
  ASSUME NEW t \in Tailles, NEW m \in Tables(t), NEW k \in CLES, ~SansFin(m, k),
         \A i \in 0..t-1 : ~Contient(m, i, k)
  PROVE  /\ hash_lookup(m, k) \in 0..t-1
         /\ m.table[hash_lookup(m, k)] \in {Vide, Supprime}
         /\ Chemin(m, k, hash_lookup(m, k))
<1>1. Taille(m) = t /\ t \in Nat
  BY TablesProp
<1>2. PICK fin \in Essais(t) : fin = DernierEssai(m, k)
  BY DernierEssaiProp
<1>3. Arret(m, k, fin) /\ \A j \in 0..fin-1 : ~Arret(m, k, j)
  BY <1>2, DernierEssaiProp
<1>4. \A n \in Essais(t) : Sonde[t][k][n] \in 0..t-1
  BY SondeProp
<1>5. m.table[Sonde[t][k][fin]] = Vide
  BY <1>3, <1>4, ArretProp
<1>6. PICK libres : libres = {n \in 0..fin : m.table[Sonde[t][k][n]] = Supprime}
  OBVIOUS
<1>7. hash_lookup(m, k) = IF libres = {} THEN Sonde[t][k][fin] ELSE Sonde[t][k][Min(libres)]
  BY <1>1, <1>2, <1>4, <1>6 DEF hash_lookup
<1>8. PICK n \in 0..fin : /\ hash_lookup(m, k) = Sonde[t][k][n]
                          /\ m.table[Sonde[t][k][n]] \in {Vide, Supprime}
  <2>1. CASE libres = {}
    <3>1. fin \in 0..fin
      BY <1>1 DEF Essais
    <3>2. QED
      BY <1>5, <1>7, <2>1, <3>1
  <2>2. CASE libres # {}
    <3>1. libres \in SUBSET Nat
      BY <1>6
    <3>2. \E x \in libres : \A y \in libres : x <= y
      BY <2>2, <3>1, PlusPetit, Zenon
    <3>3. Min(libres) \in libres
      BY <3>2 DEF Min
    <3>4. QED
      BY <1>6, <1>7, <2>2, <3>3
  <2>3. QED
    BY <2>1, <2>2
<1>9. n \in Essais(t) /\ \A j \in 0..n-1 : j \in 0..fin-1
  BY <1>1 DEF Essais
<1>10. Chemin(m, k, hash_lookup(m, k))
  BY <1>1, <1>3, <1>8, <1>9 DEF Chemin
<1>11. QED
  BY <1>4, <1>8, <1>9, <1>10

(* A table with an EMPTY slot ends every search. *)
LEMMA VideFinit ==
  ASSUME NEW t \in Tailles, NEW m \in Tables(t), NEW k \in CLES,
         m.fill < t, Compte(m)
  PROVE  ~SansFin(m, k)
<1>1. Taille(m) = t /\ DOMAIN m.table = 0..t-1 /\ t \in Nat
  BY TablesProp
<1>2. PICK i \in 0..t-1 : m.table[i] = Vide
  <2>1. SUFFICES ASSUME \A i \in 0..t-1 : m.table[i] # Vide PROVE FALSE
    OBVIOUS
  <2>2. Pleines(m) = 0..t-1
    BY <1>1, <2>1 DEF Pleines
  <2>3. Cardinality(0..t-1) = t
    BY <1>1, FS_Interval
  <2>4. QED
    BY <1>1, <2>2, <2>3 DEF Compte
<1>3. PICK n \in Essais(t) : Sonde[t][k][n] = i
  BY SondeComplete
<1>4. Arret(m, k, n)
  BY <1>2, <1>3, ArretProp
<1>5. QED
  BY <1>1, <1>4 DEF SansFin

-----------------------------------------------------------------------------
(* What one slot written does.                                             *)
Ecrit(m, i, s, m2) == m2.table = [m.table EXCEPT ![i] = s]

LEMMA EcritProp ==
  ASSUME NEW t \in Tailles, NEW m \in Tables(t), NEW m2 \in Tables(t),
         NEW i \in 0..t-1, NEW s, Ecrit(m, i, s, m2)
  PROVE  \A j \in 0..t-1 : m2.table[j] = IF j = i THEN s ELSE m.table[j]
<1>1. DOMAIN m.table = 0..t-1
  BY TablesProp
<1>2. QED
  BY <1>1 DEF Ecrit

(* A slot that does not become EMPTY, nor ACTIVE for a key that another    *)
(* slot has or that hash_lookup would not find there, hides no slot.       *)
LEMMA AccessibleMaj ==
  ASSUME NEW t \in Tailles, NEW m \in Tables(t), NEW m2 \in Tables(t),
         Accessible(m), NEW i \in 0..t-1, NEW s \in Slots, s # Vide, Ecrit(m, i, s, m2),
         s.mode = "SL_ACTIVE" => /\ Chemin(m, s.key, i)
                                 /\ \A j \in 0..t-1 : Contient(m, j, s.key) => j = i
  PROVE  Accessible(m2)
<1>1. /\ Taille(m) = t /\ Taille(m2) = t /\ t \in Nat
      /\ DOMAIN m.table = 0..t-1 /\ DOMAIN m2.table = 0..t-1
  BY TablesProp
<1>2. \A j \in 0..t-1 : m2.table[j] = IF j = i THEN s ELSE m.table[j]
  BY EcritProp
<1>3. ASSUME NEW k \in CLES, NEW n \in Essais(t), ~Arret(m, k, n),
             \/ ~(s.mode = "SL_ACTIVE" /\ s.key = k)
             \/ Sonde[t][k][n] # i
      PROVE  ~Arret(m2, k, n)
  <2>1. PICK p \in 0..t-1 : p = Sonde[t][k][n]
    BY ArretProp
  <2>2. m.table[p] # Vide /\ ~Contient(m, p, k)
    BY <1>3, <2>1, ArretProp
  <2>3. m2.table[p] # Vide /\ ~Contient(m2, p, k)
    BY <1>2, <1>3, <2>1, <2>2 DEF Contient, hash_string_cmp
  <2>4. QED
    BY <2>1, <2>3, ArretProp
<1>4. ASSUME NEW j \in 0..t-1, m2.table[j].mode = "SL_ACTIVE"
      PROVE  Chemin(m2, m2.table[j].key, j)
  <2>1. PICK k \in CLES : k = m2.table[j].key
    <3>1. m2.table[j] \in Slots
      BY TablesProp
    <3>2. QED
      BY <1>4, <3>1, SlotsProp
  <2>2. CASE j # i
    <3>1. m.table[j] = m2.table[j]
      BY <1>2, <2>2
    <3>2. Chemin(m, k, j) /\ Contient(m, j, k)
      BY <1>1, <1>4, <2>1, <3>1 DEF Accessible, Contient, hash_string_cmp
    <3>3. PICK n \in Essais(t) : Sonde[t][k][n] = j /\ \A p \in 0..n-1 : ~Arret(m, k, p)
      BY <1>1, <3>2 DEF Chemin
    <3>4. ~(s.mode = "SL_ACTIVE" /\ s.key = k)
      BY <2>2, <3>2
    <3>5. \A p \in 0..n-1 : p \in Essais(t)
      BY <1>1 DEF Essais
    <3>6. \A p \in 0..n-1 : ~Arret(m2, k, p)
      BY <1>3, <3>3, <3>4, <3>5
    <3>7. QED
      BY <1>1, <2>1, <3>3, <3>6 DEF Chemin
  <2>3. CASE j = i
    <3>1. s.mode = "SL_ACTIVE" /\ s.key = k
      BY <1>2, <1>4, <2>1, <2>3
    <3>2. Chemin(m, k, i)
      BY <3>1
    <3> DEFINE S == {n \in Essais(t) :
                       Sonde[t][k][n] = i /\ \A p \in 0..n-1 : ~Arret(m, k, p)}
    <3>3. S \in SUBSET Nat /\ S # {}
      BY <1>1, <3>2 DEF Chemin, Essais
    <3>4. PICK n \in S : \A y \in S : n <= y
      BY <3>3, PlusPetit, Zenon
    <3>5. ASSUME NEW p \in 0..n-1
          PROVE  ~Arret(m2, k, p)
      <4>1. p \in Essais(t) /\ ~(n <= p) /\ \A q \in 0..p-1 : q \in 0..n-1
        BY <1>1, <3>4 DEF Essais
      <4>2. p \notin S /\ ~Arret(m, k, p)
        BY <3>4, <4>1
      <4>3. \A q \in 0..p-1 : ~Arret(m, k, q)
        BY <3>4, <4>1
      <4>4. Sonde[t][k][p] # i
        BY <4>1, <4>2, <4>3
      <4>5. QED
        BY <1>3, <4>1, <4>2, <4>4
    <3>6. n \in Essais(t) /\ Sonde[t][k][n] = i
      BY <3>4
    <3>7. QED
      BY <1>1, <2>1, <2>3, <3>5, <3>6 DEF Chemin
  <2>4. QED
    BY <2>2, <2>3
<1>5. QED
  BY <1>1, <1>4 DEF Accessible

LEMMA ComptesFinis ==
  ASSUME NEW t \in Tailles, NEW m \in Tables(t)
  PROVE  /\ IsFiniteSet(Pleines(m)) /\ Cardinality(Pleines(m)) \in 0..t
         /\ IsFiniteSet(Actives(m)) /\ Cardinality(Actives(m)) \in 0..t
         /\ Actives(m) \subseteq Pleines(m)
<1>1. DOMAIN m.table = 0..t-1 /\ t \in Nat
  BY TablesProp
<1>2. IsFiniteSet(0..t-1) /\ Cardinality(0..t-1) = t
  BY <1>1, FS_Interval
<1>3. ASSUME NEW S \in SUBSET (0..t-1)
      PROVE  IsFiniteSet(S) /\ Cardinality(S) \in 0..t
  <2>1. IsFiniteSet(S) /\ Cardinality(S) <= t
    BY <1>2, FS_Subset
  <2>2. Cardinality(S) \in Nat
    BY <2>1, FS_CardinalityType
  <2>3. QED
    BY <1>1, <2>1, <2>2
<1>4. Pleines(m) \in SUBSET (0..t-1) /\ Actives(m) \in SUBSET (0..t-1)
  BY <1>1 DEF Pleines, Actives
<1>5. Actives(m) \subseteq Pleines(m)
  BY SlotsProp DEF Pleines, Actives
<1>6. QED
  BY <1>3, <1>4, <1>5

(* The counters as hash.c keeps them. *)
LEMMA CompteMaj ==
  ASSUME NEW t \in Tailles, NEW m \in Tables(t), NEW m2 \in Tables(t), Compte(m),
         NEW i \in 0..t-1, NEW s \in Slots, s # Vide, Ecrit(m, i, s, m2),
         m2.fill = IF m.table[i] = Vide THEN m.fill + 1 ELSE m.fill,
         m2.count = IF s.mode = "SL_ACTIVE"
                    THEN IF m.table[i].mode = "SL_ACTIVE" THEN m.count ELSE m.count + 1
                    ELSE IF m.table[i].mode = "SL_ACTIVE" THEN m.count - 1 ELSE m.count
  PROVE  Compte(m2)
<1>1. DOMAIN m.table = 0..t-1 /\ DOMAIN m2.table = 0..t-1
  BY TablesProp
<1>2. \A j \in 0..t-1 : m2.table[j] = IF j = i THEN s ELSE m.table[j]
  BY EcritProp
<1>3. Pleines(m2) = Pleines(m) \cup {i}
  BY <1>1, <1>2 DEF Pleines
<1>4. Actives(m2) = IF s.mode = "SL_ACTIVE" THEN Actives(m) \cup {i} ELSE Actives(m) \ {i}
  BY <1>1, <1>2 DEF Actives
<1>5. IsFiniteSet(Pleines(m)) /\ IsFiniteSet(Actives(m))
  BY ComptesFinis
<1>6. (i \in Pleines(m) <=> m.table[i] # Vide)
      /\ (i \in Actives(m) <=> m.table[i].mode = "SL_ACTIVE")
  BY <1>1 DEF Pleines, Actives
<1>7. Cardinality(Pleines(m) \cup {i})
        = IF i \in Pleines(m) THEN Cardinality(Pleines(m)) ELSE Cardinality(Pleines(m)) + 1
  BY <1>5, FS_AddElement
<1>8. Cardinality(Actives(m) \cup {i})
        = IF i \in Actives(m) THEN Cardinality(Actives(m)) ELSE Cardinality(Actives(m)) + 1
  BY <1>5, FS_AddElement
<1>9. Cardinality(Actives(m) \ {i})
        = IF i \in Actives(m) THEN Cardinality(Actives(m)) - 1 ELSE Cardinality(Actives(m))
  BY <1>5, FS_RemoveElement
<1>10. m.fill = Cardinality(Pleines(m)) /\ m.count = Cardinality(Actives(m))
  BY DEF Compte
<1>11. m2.fill = Cardinality(Pleines(m2))
  BY <1>3, <1>6, <1>7, <1>10
<1>12. m2.count = Cardinality(Actives(m2))
  BY <1>4, <1>6, <1>8, <1>9, <1>10
<1>13. QED
  BY <1>11, <1>12 DEF Compte

-----------------------------------------------------------------------------
(* The dictionary a table stands for.                                      *)
Associe(m, k, v) == \E i \in DOMAIN m.table : m.table[i] = Actif(k, v)

LEMMA AssocieContient ==
  ASSUME NEW t \in Tailles, NEW m \in Tables(t), NEW i \in 0..t-1,
         NEW k \in CLES, Contient(m, i, k)
  PROVE  m.table[i].value \in VALEURS /\ m.table[i] = Actif(k, m.table[i].value)
         /\ Associe(m, k, m.table[i].value)
<1>1. m.table[i] \in Slots /\ i \in DOMAIN m.table
  BY TablesProp
<1>2. m.table[i].mode = "SL_ACTIVE" /\ m.table[i].key = k
  BY DEF Contient, hash_string_cmp
<1>3. m.table[i].value \in VALEURS /\ m.table[i] = Actif(k, m.table[i].value)
  BY <1>1, <1>2, SlotsProp
<1>4. QED
  BY <1>1, <1>3 DEF Associe

LEMMA AssociationProp ==
  ASSUME NEW t \in Tailles, NEW m \in Tables(t), Accessible(m)
  PROVE  /\ Association(m) = [k \in Presentes(m) |-> Association(m)[k]]
         /\ Presentes(m) \subseteq CLES
         /\ \A k \in CLES, v \in VALEURS :
              Associe(m, k, v) <=> k \in Presentes(m) /\ Association(m)[k] = v
<1>1. DOMAIN m.table = 0..t-1
  BY TablesProp
<1>2. ASSUME NEW k \in CLES, NEW v \in VALEURS, Associe(m, k, v)
      PROVE  k \in Presentes(m) /\ Association(m)[k] = v
  <2>1. PICK i \in 0..t-1 : m.table[i] = Actif(k, v)
    BY <1>1, <1>2 DEF Associe
  <2>2. Contient(m, i, k) /\ m.table[i].value = v
    BY <2>1, SlotsProp DEF Contient, hash_string_cmp
  <2>3. k \in Presentes(m)
    BY <1>1, <2>2 DEF Presentes
  <2>4. SlotDe(m, k) \in 0..t-1 /\ Contient(m, SlotDe(m, k), k)
    BY <1>1, <2>2 DEF SlotDe
  <2>5. SlotDe(m, k) = i
    BY <2>2, <2>4, CleUnique
  <2>6. QED
    BY <2>2, <2>3, <2>5 DEF Association
<1>3. ASSUME NEW k \in CLES, k \in Presentes(m)
      PROVE  Associe(m, k, Association(m)[k])
  <2>1. PICK i \in 0..t-1 : Contient(m, i, k)
    BY <1>1, <1>3 DEF Presentes
  <2>2. m.table[i].value \in VALEURS /\ Associe(m, k, m.table[i].value)
    BY <2>1, AssocieContient
  <2>3. Association(m)[k] = m.table[i].value
    BY <1>2, <2>2
  <2>4. QED
    BY <2>2, <2>3
<1>4. Association(m) = [k \in Presentes(m) |-> Association(m)[k]] /\ Presentes(m) \subseteq CLES
  BY DEF Association, Presentes
<1>5. QED
  BY <1>2, <1>3, <1>4

LEMMA PresenteAssocie ==
  ASSUME NEW t \in Tailles, NEW m \in Tables(t), Accessible(m), NEW k \in Presentes(m)
  PROVE  \E v \in VALEURS : Associe(m, k, v)
<1>1. DOMAIN m.table = 0..t-1 /\ k \in CLES
  BY TablesProp DEF Presentes
<1>2. PICK i \in 0..t-1 : Contient(m, i, k)
  BY <1>1 DEF Presentes
<1>3. QED
  BY <1>1, <1>2, AssocieContient

Semblables(m1, m2) ==
  \A k \in CLES, v \in VALEURS : Associe(m1, k, v) <=> Associe(m2, k, v)

LEMMA MemeAssociation ==
  ASSUME NEW t1 \in Tailles, NEW m1 \in Tables(t1), Accessible(m1),
         NEW t2 \in Tailles, NEW m2 \in Tables(t2), Accessible(m2),
         Semblables(m1, m2)
  PROVE  Association(m1) = Association(m2)
<1>1. Presentes(m1) \subseteq CLES /\ Presentes(m2) \subseteq CLES
  BY AssociationProp
<1>2. ASSUME NEW k \in Presentes(m1)
      PROVE  k \in Presentes(m2) /\ Association(m1)[k] = Association(m2)[k]
  <2>1. PICK v \in VALEURS : Associe(m1, k, v)
    BY PresenteAssocie
  <2>2. Associe(m2, k, v)
    BY <1>1, <2>1 DEF Semblables
  <2>3. QED
    BY <1>1, <2>1, <2>2, AssociationProp
<1>3. ASSUME NEW k \in Presentes(m2)
      PROVE  k \in Presentes(m1)
  <2>1. PICK v \in VALEURS : Associe(m2, k, v)
    BY PresenteAssocie
  <2>2. Associe(m1, k, v)
    BY <1>1, <2>1 DEF Semblables
  <2>3. QED
    BY <1>1, <2>2, AssociationProp
<1>4. Presentes(m1) = Presentes(m2)
  BY <1>2, <1>3
<1>5. /\ Association(m1) = [k \in Presentes(m1) |-> Association(m1)[k]]
      /\ Association(m2) = [k \in Presentes(m2) |-> Association(m2)[k]]
  BY AssociationProp
<1>6. QED
  BY <1>2, <1>4, <1>5

Ajoute(m, k, v, m2) ==
  \A k2 \in CLES, v2 \in VALEURS :
    Associe(m2, k2, v2) <=> IF k2 = k THEN v2 = v ELSE Associe(m, k2, v2)

Retire(m, k, m2) ==
  \A k2 \in CLES, v2 \in VALEURS :
    Associe(m2, k2, v2) <=> k2 # k /\ Associe(m, k2, v2)

LEMMA AssocieAjout ==
  ASSUME NEW t \in Tailles, NEW m \in Tables(t), NEW m2 \in Tables(t),
         NEW k \in CLES, NEW v \in VALEURS,
         NEW i \in 0..t-1, Ecrit(m, i, Actif(k, v), m2),
         m.table[i].mode = "SL_ACTIVE" => m.table[i].key = k,
         \A j \in 0..t-1 : Contient(m, j, k) => j = i
  PROVE  Ajoute(m, k, v, m2)
<1>1. DOMAIN m.table = 0..t-1 /\ DOMAIN m2.table = 0..t-1
  BY TablesProp
<1>2. \A j \in 0..t-1 : m2.table[j] = IF j = i THEN Actif(k, v) ELSE m.table[j]
  BY EcritProp
<1>3. SUFFICES ASSUME NEW k2 \in CLES, NEW v2 \in VALEURS
               PROVE  Associe(m2, k2, v2) <=> IF k2 = k THEN v2 = v ELSE Associe(m, k2, v2)
  BY DEF Ajoute
<1>4. /\ Actif(k, v).key = k /\ Actif(k, v).value = v
      /\ Actif(k2, v2).key = k2 /\ Actif(k2, v2).value = v2
      /\ Actif(k2, v2).mode = "SL_ACTIVE"
  BY SlotsProp
<1>5. ASSUME Associe(m2, k2, v2)
      PROVE  IF k2 = k THEN v2 = v ELSE Associe(m, k2, v2)
  <2>1. PICK j \in 0..t-1 : m2.table[j] = Actif(k2, v2)
    BY <1>1, <1>5 DEF Associe
  <2>2. CASE j = i
    BY <1>2, <1>4, <2>1, <2>2
  <2>3. CASE j # i
    <3>1. m.table[j] = Actif(k2, v2)
      BY <1>2, <2>1, <2>3
    <3>2. k2 # k
      BY <1>4, <2>3, <3>1 DEF Contient, hash_string_cmp
    <3>3. QED
      BY <1>1, <3>1, <3>2 DEF Associe
  <2>4. QED
    BY <2>2, <2>3
<1>6. ASSUME k2 = k, v2 = v
      PROVE  Associe(m2, k2, v2)
  <2>1. m2.table[i] = Actif(k2, v2)
    BY <1>2, <1>6
  <2>2. QED
    BY <1>1, <2>1 DEF Associe
<1>7. ASSUME k2 # k, Associe(m, k2, v2)
      PROVE  Associe(m2, k2, v2)
  <2>1. PICK j \in 0..t-1 : m.table[j] = Actif(k2, v2)
    BY <1>1, <1>7 DEF Associe
  <2>2. j # i
    BY <1>4, <1>7, <2>1
  <2>3. m2.table[j] = Actif(k2, v2)
    BY <1>2, <2>1, <2>2
  <2>4. QED
    BY <1>1, <2>3 DEF Associe
<1>8. QED
  BY <1>5, <1>6, <1>7

LEMMA AssocieRetrait ==
  ASSUME NEW t \in Tailles, NEW m \in Tables(t), NEW m2 \in Tables(t), Accessible(m),
         NEW k \in CLES, NEW i \in 0..t-1, Contient(m, i, k), Ecrit(m, i, Supprime, m2)
  PROVE  Retire(m, k, m2)
<1>1. DOMAIN m.table = 0..t-1 /\ DOMAIN m2.table = 0..t-1
  BY TablesProp
<1>2. \A j \in 0..t-1 : m2.table[j] = IF j = i THEN Supprime ELSE m.table[j]
  BY EcritProp
<1>3. SUFFICES ASSUME NEW k2 \in CLES, NEW v2 \in VALEURS
               PROVE  Associe(m2, k2, v2) <=> k2 # k /\ Associe(m, k2, v2)
  BY DEF Retire
<1>4. /\ Actif(k2, v2).key = k2 /\ Actif(k2, v2).mode = "SL_ACTIVE"
      /\ Supprime.mode # "SL_ACTIVE" /\ m.table[i].key = k
  BY SlotsProp DEF Contient, hash_string_cmp
<1>5. ASSUME Associe(m2, k2, v2)
      PROVE  k2 # k /\ Associe(m, k2, v2)
  <2>1. PICK j \in 0..t-1 : m2.table[j] = Actif(k2, v2)
    BY <1>1, <1>5 DEF Associe
  <2>2. j # i /\ m.table[j] = Actif(k2, v2)
    BY <1>2, <1>4, <2>1
  <2>3. k2 # k
    <3>1. k2 = k => Contient(m, j, k)
      BY <1>4, <2>2 DEF Contient, hash_string_cmp
    <3>2. QED
      BY <2>2, <3>1, CleUnique
  <2>4. QED
    BY <1>1, <2>2, <2>3 DEF Associe
<1>6. ASSUME k2 # k, Associe(m, k2, v2)
      PROVE  Associe(m2, k2, v2)
  <2>1. PICK j \in 0..t-1 : m.table[j] = Actif(k2, v2)
    BY <1>1, <1>6 DEF Associe
  <2>2. j # i
    BY <1>4, <1>6, <2>1
  <2>3. m2.table[j] = Actif(k2, v2)
    BY <1>2, <2>1, <2>2
  <2>4. QED
    BY <1>1, <2>3 DEF Associe
<1>7. QED
  BY <1>5, <1>6

(* A new key, put in the slot that hash_lookup proposes. *)
LEMMA PoserCle ==
  ASSUME NEW t \in Tailles, NEW m \in Tables(t), NEW m2 \in Tables(t),
         Accessible(m), Compte(m),
         NEW k \in CLES, NEW v \in VALEURS, ~SansFin(m, k),
         \A j \in 0..t-1 : ~Contient(m, j, k),
         NEW i, i = hash_lookup(m, k), Ecrit(m, i, Actif(k, v), m2),
         m2.fill = IF m.table[i] = Vide THEN m.fill + 1 ELSE m.fill,
         m2.count = m.count + 1
  PROVE  Accessible(m2) /\ Compte(m2) /\ Ajoute(m, k, v, m2)
<1>1. i \in 0..t-1 /\ m.table[i] \in {Vide, Supprime} /\ Chemin(m, k, i)
  BY LookupAbsent
<1>2. /\ Actif(k, v) \in Slots /\ Actif(k, v) # Vide
      /\ Actif(k, v).mode = "SL_ACTIVE" /\ Actif(k, v).key = k
      /\ m.table[i].mode # "SL_ACTIVE"
  BY <1>1, SlotsProp
<1>3. Accessible(m2)
  BY <1>1, <1>2, AccessibleMaj
<1>4. Compte(m2)
  <2>1. PICK s \in Slots : s = Actif(k, v)
    BY <1>2
  <2>2. QED
    BY <1>1, <1>2, <2>1, CompteMaj
<1>5. Ajoute(m, k, v, m2)
  BY <1>1, <1>2, AssocieAjout
<1>6. QED
  BY <1>3, <1>4, <1>5

-----------------------------------------------------------------------------
(* The copy into a table of another size.                                  *)
LEMMA NouvelleTable ==
  ASSUME NEW t \in Tailles
  PROVE  LET m == hash_initialize(t)
         IN /\ m \in Tables(t) /\ Accessible(m) /\ Compte(m)
            /\ m.fill = 0 /\ m.count = 0
            /\ \A k \in CLES, v \in VALEURS : ~Associe(m, k, v)
<1>1. PICK m : m = hash_initialize(t)
  OBVIOUS
<1>2. m.table = [i \in 0..t-1 |-> Vide] /\ m.fill = 0 /\ m.count = 0
  BY <1>1 DEF hash_initialize
<1>3. m \in Tables(t)
  BY <1>1, SlotsProp DEF hash_initialize, Tables
<1>4. \A i \in 0..t-1 : m.table[i] = Vide
  BY <1>2
<1>5. DOMAIN m.table = 0..t-1
  BY <1>2
<1>6. Accessible(m)
  BY <1>4, <1>5, SlotsProp DEF Accessible
<1>7. Pleines(m) = {} /\ Actives(m) = {}
  BY <1>4, <1>5, SlotsProp DEF Pleines, Actives
<1>8. Compte(m)
  BY <1>2, <1>7, FS_EmptySet DEF Compte
<1>9. \A k \in CLES, v \in VALEURS : ~Associe(m, k, v)
  BY <1>4, <1>5, SlotsProp DEF Associe
<1>10. QED
  BY <1>1, <1>2, <1>3, <1>6, <1>8, <1>9

(* What stands in the copy after the first n slots of the old table. *)
Avant(old, n) == {j \in 0..n-1 : old.table[j].mode = "SL_ACTIVE"}

Copie(u, old, n, c) ==
  /\ c \in Tables(u) /\ Accessible(c) /\ Compte(c)
  /\ c.fill = c.count /\ c.count = Cardinality(Avant(old, n))
  /\ \A k \in CLES, v \in VALEURS :
       Associe(c, k, v) <=> \E j \in 0..n-1 : old.table[j] = Actif(k, v)

LEMMA CopieSlot ==
  ASSUME NEW t \in Tailles, NEW old \in Tables(t), Accessible(old), Compte(old),
         NEW u \in Tailles, old.count < u,
         NEW n \in 1..t, NEW c, Copie(u, old, n-1, c)
  PROVE  Copie(u, old, n, Recopier(c, old.table[n-1]))
<1>1. /\ t \in Nat /\ DOMAIN old.table = 0..t-1 /\ n-1 \in 0..t-1
      /\ old.table[n-1] \in Slots
  BY TablesProp
<1>2. /\ c \in Tables(u) /\ Accessible(c) /\ Compte(c)
      /\ c.fill = c.count /\ c.count = Cardinality(Avant(old, n-1))
      /\ \A k \in CLES, v \in VALEURS :
           Associe(c, k, v) <=> \E j \in 0..(n-1)-1 : old.table[j] = Actif(k, v)
  BY DEF Copie
<1>3. \A j \in Int : j \in 0..n-1 <=> j \in 0..(n-1)-1 \/ j = n-1
  BY <1>1
<1>4. PICK slot \in Slots : slot = old.table[n-1]
  BY <1>1
<1>5. CASE slot.mode # "SL_ACTIVE"
  <2>1. Recopier(c, slot) = c
    BY <1>5 DEF Recopier
  <2>2. Avant(old, n) = Avant(old, n-1)
    BY <1>3, <1>4, <1>5 DEF Avant
  <2>3. ASSUME NEW k \in CLES, NEW v \in VALEURS
        PROVE  (\E j \in 0..n-1 : old.table[j] = Actif(k, v))
                 <=> (\E j \in 0..(n-1)-1 : old.table[j] = Actif(k, v))
    <3>1. old.table[n-1] # Actif(k, v)
      BY <1>4, <1>5, SlotsProp
    <3>2. QED
      BY <1>3, <3>1
  <2>4. QED
    BY <1>2, <1>4, <2>1, <2>2, <2>3 DEF Copie
<1>6. CASE slot.mode = "SL_ACTIVE"
  <2>1. PICK k \in CLES, v \in VALEURS : slot = Actif(k, v)
    BY <1>6, SlotsProp
  <2>2. slot.key = k /\ Contient(old, n-1, k)
    BY <1>4, <2>1, SlotsProp DEF Contient, hash_string_cmp
  <2>3. ASSUME NEW j \in 0..u-1
        PROVE  ~Contient(c, j, k)
    <3>1. SUFFICES ASSUME Contient(c, j, k) PROVE FALSE
      OBVIOUS
    <3>2. PICK w \in VALEURS : Associe(c, k, w)
      BY <1>2, <3>1, AssocieContient
    <3>3. PICK p \in 0..(n-1)-1 : old.table[p] = Actif(k, w)
      BY <1>2, <3>2
    <3>4. Contient(old, p, k)
      BY <3>3, SlotsProp DEF Contient, hash_string_cmp
    <3>5. p \in 0..t-1 /\ p # n-1
      BY <1>1
    <3>6. QED
      BY <1>1, <2>2, <3>4, <3>5, CleUnique
  <2>4. /\ Avant(old, n) = Avant(old, n-1) \cup {n-1} /\ n-1 \notin Avant(old, n-1)
        /\ Avant(old, n) \subseteq Actives(old) /\ Avant(old, n-1) \subseteq Actives(old)
    <3>1. Avant(old, n) = Avant(old, n-1) \cup {n-1}
      BY <1>3, <1>4, <1>6 DEF Avant
    <3>2. n-1 \notin Avant(old, n-1)
      BY DEF Avant
    <3>3. Avant(old, n) \subseteq Actives(old)
      BY <1>1 DEF Avant, Actives
    <3>4. QED
      BY <3>1, <3>2, <3>3
  <2>5. IsFiniteSet(Avant(old, n-1)) /\ IsFiniteSet(Avant(old, n))
    BY <2>4, ComptesFinis, FS_Subset
  <2>6. Cardinality(Avant(old, n)) = Cardinality(Avant(old, n-1)) + 1
    BY <2>4, <2>5, FS_AddElement
  <2>7. Cardinality(Avant(old, n)) <= old.count
    BY <2>4, ComptesFinis, FS_Subset DEF Compte
  <2>8. c.fill < u /\ u \in Nat
    <3>1. u \in Nat /\ c.fill \in Nat /\ c.count \in Nat /\ old.count \in Nat
      BY <1>2, TablesProp
    <3>2. c.count + 1 <= old.count
      BY <1>2, <2>6, <2>7
    <3>3. QED
      BY <1>2, <3>1, <3>2
  <2>9. ~SansFin(c, k)
    BY <1>2, <2>8, VideFinit
  <2>10. PICK i : i = hash_lookup(c, k)
    OBVIOUS
  <2>11. i \in 0..u-1 /\ c.table[i] \in {Vide, Supprime}
    BY <1>2, <2>3, <2>9, <2>10, LookupAbsent
  <2>12. c.table[i] = Vide
    <3>1. Pleines(c) = Actives(c)
      <4>1. Cardinality(Pleines(c)) = Cardinality(Actives(c))
        BY <1>2 DEF Compte
      <4>2. QED
        BY <1>2, <4>1, ComptesFinis, FS_Subset
    <3>2. i \in DOMAIN c.table /\ c.table[i].mode # "SL_ACTIVE"
      BY <1>2, <2>11, TablesProp, SlotsProp
    <3>3. i \notin Actives(c)
      BY <3>2 DEF Actives
    <3>4. QED
      BY <3>1, <3>2, <3>3 DEF Pleines
  <2>13. PICK c2 : c2 = Recopier(c, slot)
    OBVIOUS
  <2>14. c2 = [c EXCEPT !.table[i] = slot, !.fill = @ + 1, !.count = @ + 1]
    BY <1>6, <2>2, <2>10, <2>13 DEF Recopier
  <2>15. c2 \in Tables(u) /\ Ecrit(c, i, slot, c2)
         /\ c2.fill = c.fill + 1 /\ c2.count = c.count + 1
    <3>1. c.table \in [0..u-1 -> Slots] /\ c.fill \in Nat /\ c.count \in Nat
      BY <1>2 DEF Tables
    <3>2. c2 = [table |-> [c.table EXCEPT ![i] = slot], fill |-> c.fill + 1,
                count |-> c.count + 1]
      BY <1>2, <2>14 DEF Tables
    <3>3. [c.table EXCEPT ![i] = slot] \in [0..u-1 -> Slots]
      BY <2>11, <3>1
    <3>4. QED
      BY <3>1, <3>2, <3>3 DEF Tables, Ecrit
  <2>16. Accessible(c2) /\ Compte(c2) /\ Ajoute(c, k, v, c2)
    BY <1>2, <2>1, <2>3, <2>9, <2>10, <2>12, <2>15, PoserCle
  <2>17. ASSUME NEW k2 \in CLES, NEW v2 \in VALEURS
         PROVE  Associe(c2, k2, v2) <=> \E j \in 0..n-1 : old.table[j] = Actif(k2, v2)
    <3>1. Associe(c2, k2, v2) <=> IF k2 = k THEN v2 = v ELSE Associe(c, k2, v2)
      BY <2>16 DEF Ajoute
    <3>2. ASSUME NEW w \in VALEURS
          PROVE  ~Associe(c, k, w)
      <4>1. SUFFICES ASSUME Associe(c, k, w) PROVE FALSE
        OBVIOUS
      <4>2. PICK j \in 0..u-1 : c.table[j] = Actif(k, w)
        BY <1>2, <4>1, TablesProp DEF Associe
      <4>3. Contient(c, j, k)
        BY <4>2, SlotsProp DEF Contient, hash_string_cmp
      <4>4. QED
        BY <2>3, <4>3
    <3>3. Associe(c2, k2, v2) <=> (k2 = k /\ v2 = v) \/ Associe(c, k2, v2)
      BY <3>1, <3>2
    <3>4. old.table[n-1] = Actif(k2, v2) <=> k2 = k /\ v2 = v
      BY <1>4, <2>1, SlotsProp
    <3>5. QED
      BY <1>2, <1>3, <3>3, <3>4
  <2>18. c2.fill = c2.count /\ c2.count = Cardinality(Avant(old, n))
    BY <1>2, <2>6, <2>15
  <2>19. QED
    BY <1>4, <2>13, <2>15, <2>16, <2>17, <2>18 DEF Copie
<1>7. QED
  BY <1>5, <1>6

LEMMA CopieFinale ==
  ASSUME NEW t \in Tailles, NEW old \in Tables(t), Accessible(old), Compte(old),
         NEW u \in Tailles, old.count < u
  PROVE  Copie(u, old, t, hash_copy(hash_initialize(u), old))
<1>1. Taille(old) = t /\ t \in Nat
  BY TablesProp
<1>2. PICK m : m = hash_initialize(u)
  OBVIOUS
<1>3. m \in Tables(u) /\ Copie(u, old, 0, m)
  <2>1. /\ m \in Tables(u) /\ Accessible(m) /\ Compte(m) /\ m.fill = 0 /\ m.count = 0
        /\ \A k \in CLES, v \in VALEURS : ~Associe(m, k, v)
    BY <1>2, NouvelleTable
  <2>2. 0..0-1 = {} /\ Avant(old, 0) = {}
    BY DEF Avant
  <2>3. Cardinality({}) = 0
    BY FS_EmptySet
  <2>4. QED
    BY <2>1, <2>2, <2>3 DEF Copie
<1> DEFINE Egal(f) == f = [i \in 0..t |->
                             IF i = 0 THEN m ELSE Recopier(f[i-1], old.table[i-1])]
           Suit(f) == f[0] = m /\ \A n \in 1..t : f[n] = Recopier(f[n-1], old.table[n-1])
<1>4. ASSUME NEW f, Suit(f)
      PROVE  \A n \in 0..t : Copie(u, old, n, f[n])
  <2> DEFINE A == {n \in 0..t : Copie(u, old, n, f[n])}
  <2>1. 0 \in A
    BY <1>1, <1>3, <1>4
  <2>2. ASSUME NEW n \in 1..t, n-1 \in A PROVE n \in A
    <3>1. Copie(u, old, n-1, f[n-1]) /\ n \in 0..t
      BY <2>2
    <3>2. Copie(u, old, n, Recopier(f[n-1], old.table[n-1]))
      BY <3>1, CopieSlot
    <3>3. QED
      BY <1>4, <3>1, <3>2
  <2>3. 0..t \subseteq A
    <3> HIDE DEF A
    <3>1. QED
      BY <1>1, <2>1, <2>2, RecurrenceEntiers
  <2>4. QED
    BY <2>3
<1>5. \E f : Egal(f)
  <2> DEFINE Pas(n, c) == IF Copie(u, old, n-1, c) THEN Recopier(c, old.table[n-1]) ELSE m
  <2>1. PICK S : S = Tables(u)
    OBVIOUS
  <2>2. PICK F : F = [n \in 1..t |-> [c \in S |-> Pas(n, c)]]
    OBVIOUS
  <2>3. ASSUME NEW n \in 1..t, NEW c \in S
        PROVE  Pas(n, c) \in S
    <3>1. Copie(u, old, n-1, c) => Copie(u, old, n, Recopier(c, old.table[n-1]))
      BY CopieSlot
    <3>2. QED
      BY <1>3, <2>1, <3>1 DEF Copie
  <2> HIDE DEF Pas
  <2>4. F \in [1..t -> [S -> S]]
    BY <2>2, <2>3
  <2>5. PICK f \in [0..t -> S] : EstSuite(f, t, m, F)
    BY <1>1, <1>3, <2>1, <2>4, SuiteRecursive
  <2>6. f[0] = m /\ \A n \in 1..t : f[n] = Pas(n, f[n-1])
    <3>1. ASSUME NEW n \in 1..t PROVE f[n] = Pas(n, f[n-1])
      <4>1. f[n-1] \in S
        BY <1>1, <2>5
      <4>2. QED
        BY <2>2, <2>5, <4>1 DEF EstSuite
    <3>2. QED
      BY <2>5, <3>1 DEF EstSuite
  <2>7. \A n \in 0..t : Copie(u, old, n, f[n])
    <3> DEFINE A == {n \in 0..t : Copie(u, old, n, f[n])}
    <3>1. 0 \in A
      BY <1>1, <1>3, <2>6
    <3>2. ASSUME NEW n \in 1..t, n-1 \in A PROVE n \in A
      <4>1. Copie(u, old, n-1, f[n-1]) /\ n \in 0..t
        BY <3>2
      <4>2. f[n] = Recopier(f[n-1], old.table[n-1])
        BY <2>6, <4>1 DEF Pas
      <4>3. QED
        BY <4>1, <4>2, CopieSlot
    <3>3. 0..t \subseteq A
      <4> HIDE DEF A
      <4>1. QED
        BY <1>1, <3>1, <3>2, RecurrenceEntiers
    <3>4. QED
      BY <3>3
  <2>8. \A n \in 0..t : f[n] = IF n = 0 THEN m ELSE Recopier(f[n-1], old.table[n-1])
    <3>1. ASSUME NEW n \in 1..t
          PROVE  f[n] = Recopier(f[n-1], old.table[n-1])
      <4>1. n-1 \in 0..t
        BY <1>1
      <4>2. QED
        BY <2>6, <2>7, <4>1 DEF Pas
    <3>2. \A n \in 0..t : n # 0 => n \in 1..t
      BY <1>1
    <3>3. QED
      BY <2>6, <3>1, <3>2
  <2>9. QED
    BY <2>8
<1>6. PICK f : Egal(f) /\ hash_copy(m, old) = f[t]
  <2>1. hash_copy(m, old) = (CHOOSE f : Egal(f))[t]
    BY <1>1 DEF hash_copy
  <2>2. QED
    BY <1>5, <2>1
<1>7. Suit(f)
  <2>1. 0 \in 0..t /\ \A n \in 1..t : n \in 0..t /\ n # 0
    BY <1>1
  <2>2. QED
    BY <1>6, <2>1
<1> HIDE DEF Egal, Suit
<1>8. t \in 0..t
  BY <1>1
<1>9. QED
  BY <1>2, <1>4, <1>6, <1>7, <1>8

LEMMA CopieProp ==
  ASSUME NEW t \in Tailles, NEW old \in Tables(t), Accessible(old), Compte(old),
         NEW u \in Tailles, old.count < u,
         NEW c, c = hash_copy(hash_initialize(u), old)
  PROVE  /\ c \in Tables(u) /\ Accessible(c) /\ Compte(c)
         /\ c.fill = old.count
         /\ Association(c) = Association(old)
<1>1. Copie(u, old, t, c)
  BY CopieFinale
<1>2. DOMAIN old.table = 0..t-1
  BY TablesProp
<1>3. Avant(old, t) = Actives(old)
  BY <1>2 DEF Avant, Actives
<1>4. c \in Tables(u) /\ Accessible(c) /\ Compte(c) /\ c.fill = old.count
  BY <1>1, <1>3 DEF Copie, Compte
<1>5. Semblables(c, old)
  BY <1>1, <1>2 DEF Copie, Semblables, Associe
<1>6. Association(c) = Association(old)
  BY <1>4, <1>5, MemeAssociation
<1>7. QED
  BY <1>4, <1>6

-----------------------------------------------------------------------------
(* hash_update keeps the keys and their values, and the invariant, after   *)
(* one slot at most was filled.                                            *)
LEMMA MiseAJour ==
  ASSUME NEW t \in Tailles, NEW m \in Tables(t), Accessible(m), Compte(m),
         echecs \in 0..ECHECS, 3 * (m.fill - echecs) < 2 * t + 3,
         hash_update(m)
  PROVE  /\ echecs' \in 0..ECHECS
         /\ Sain(map') /\ 3 * (map'.fill - echecs') < 2 * Taille(map')
         /\ Association(map') = Association(m)
<1>1. /\ Taille(m) = t /\ t \in Nat \ {0} /\ m.fill \in Nat /\ m.count \in Nat
      /\ ECHECS \in Nat /\ HASH_MINSIZE \in Nat
  BY TablesProp, HashAssumption
<1>2. m.count <= t
  BY ComptesFinis, <1>1 DEF Compte
<1>3. ASSUME NEW u \in Tailles, NEW c \in Tables(u), Accessible(c), Compte(c)
      PROVE  Sain(c) /\ Taille(c) = u
  BY <1>3, TablesProp DEF Sain
<1>4. ASSUME NEW u \in Tailles, m.count < u, 3 * m.count < 2 * u,
             map' = hash_copy(hash_initialize(u), m), echecs' = 0
      PROVE  /\ echecs' \in 0..ECHECS
             /\ Sain(map') /\ 3 * (map'.fill - echecs') < 2 * Taille(map')
             /\ Association(map') = Association(m)
  <2>1. PICK c : c = map'
    OBVIOUS
  <2>2. /\ c \in Tables(u) /\ Accessible(c) /\ Compte(c)
        /\ c.fill = m.count /\ Association(c) = Association(m)
    BY <1>4, <2>1, CopieProp
  <2>3. Sain(c) /\ Taille(c) = u
    BY <1>3, <2>2
  <2>4. QED
    BY <1>1, <1>4, <2>1, <2>2, <2>3
<1>5. CASE /\ NouvelleTaille(m) # t /\ echecs < ECHECS
           /\ map' = m /\ echecs' = echecs + 1
  BY <1>1, <1>3, <1>5
<1>6. CASE /\ NouvelleTaille(m) \in Tailles
           /\ map' = IF NouvelleTaille(m) = t THEN m
                     ELSE hash_copy(hash_initialize(NouvelleTaille(m)), m)
           /\ echecs' = 0
  <2>1. CASE 3 * m.fill >= 2 * t
    <3>1. NouvelleTaille(m) = 2 * t /\ 2 * t # t
      BY <1>1, <2>1 DEF NouvelleTaille
    <3>2. m.count < 2 * t /\ 3 * m.count < 2 * (2 * t)
      BY <1>1, <1>2
    <3>3. QED
      BY <1>4, <1>6, <3>1, <3>2
  <2>2. CASE ~(3 * m.fill >= 2 * t) /\ t > HASH_MINSIZE /\ 4 * m.count <= t
    <3>1. PICK u \in Tailles : t = 2 * u
      BY <1>1, <2>2, TaillesCompletes
    <3>2. u \in Nat
      BY TaillesCompletes
    <3>3. NouvelleTaille(m) = u /\ u # t
      <4>1. NouvelleTaille(m) = t \div 2
        BY <1>1, <2>2 DEF NouvelleTaille
      <4>2. QED
        BY <1>1, <3>1, <3>2, <4>1
    <3>4. m.count < u /\ 3 * m.count < 2 * u
      BY <1>1, <2>2, <3>1, <3>2
    <3>5. QED
      BY <1>4, <1>6, <3>3, <3>4
  <2>3. CASE ~(3 * m.fill >= 2 * t) /\ ~(t > HASH_MINSIZE /\ 4 * m.count <= t)
    <3>1. NouvelleTaille(m) = t
      BY <1>1, <2>3 DEF NouvelleTaille
    <3>2. map' = m /\ echecs' = 0
      BY <1>6, <3>1
    <3>3. QED
      BY <1>1, <1>3, <2>3, <3>2
  <2>4. QED
    BY <2>1, <2>2, <2>3
<1>7. QED
  BY <1>1, <1>5, <1>6 DEF hash_update

(* The slot of a key, or the slot for it. *)
LEMMA LookupCas ==
  ASSUME NEW t \in Tailles, NEW m \in Tables(t), Accessible(m),
         NEW k \in CLES, ~SansFin(m, k), NEW i, i = hash_lookup(m, k)
  PROVE  /\ i \in 0..t-1
         /\ \/ Contient(m, i, k)
            \/ /\ ~Contient(m, i, k) /\ \A j \in 0..t-1 : ~Contient(m, j, k)
               /\ m.table[i] \in {Vide, Supprime}
<1>1. CASE \E j \in 0..t-1 : Contient(m, j, k)
  <2>1. PICK j \in 0..t-1 : Contient(m, j, k)
    BY <1>1
  <2>2. i = j
    BY <2>1, LookupPresent
  <2>3. QED
    BY <2>1, <2>2
<1>2. CASE \A j \in 0..t-1 : ~Contient(m, j, k)
  BY <1>2, LookupAbsent
<1>3. QED
  BY <1>1, <1>2

LEMMA ActifAccessible ==
  ASSUME NEW t \in Tailles, NEW m \in Tables(t), Accessible(m),
         NEW k \in CLES, NEW i \in 0..t-1, Contient(m, i, k)
  PROVE  /\ m.table[i].mode = "SL_ACTIVE" /\ m.table[i].key = k /\ m.table[i] # Vide
         /\ Chemin(m, k, i)
         /\ \A j \in 0..t-1 : Contient(m, j, k) => j = i
         /\ m.count \in Nat /\ (Compte(m) => m.count >= 1)
<1>1. i \in DOMAIN m.table /\ m.table[i] \in Slots /\ m.count \in Nat
  BY TablesProp
<1>2. m.table[i].mode = "SL_ACTIVE" /\ m.table[i].key = k
  BY DEF Contient, hash_string_cmp
<1>3. Chemin(m, k, i)
  BY <1>1, <1>2 DEF Accessible
<1>4. m.table[i] # Vide
  BY <1>2, SlotsProp
<1>5. \A j \in 0..t-1 : Contient(m, j, k) => j = i
  BY CleUnique
<1>6. Compte(m) => m.count >= 1
  <2>1. i \in Actives(m)
    BY <1>1, <1>2 DEF Actives
  <2>2. Cardinality(Actives(m)) # 0
    BY <2>1, ComptesFinis, FS_EmptySet
  <2>3. QED
    BY <1>1, <2>2 DEF Compte
<1>7. QED
  BY <1>1, <1>2, <1>3, <1>4, <1>5, <1>6

Ajoutee(a, k, v) == [x \in DOMAIN a \cup {k} |-> IF x = k THEN v ELSE a[x]]

Retiree(a, k) == [x \in DOMAIN a \ {k} |-> a[x]]

LEMMA AssociationAjout ==
  ASSUME NEW t \in Tailles, NEW m \in Tables(t), NEW m2 \in Tables(t),
         Accessible(m), Accessible(m2), NEW k \in CLES, NEW v \in VALEURS,
         Ajoute(m, k, v, m2)
  PROVE  Association(m2) = Ajoutee(Association(m), k, v)
<1>1. /\ Association(m) = [x \in Presentes(m) |-> Association(m)[x]]
      /\ Association(m2) = [x \in Presentes(m2) |-> Association(m2)[x]]
      /\ Presentes(m) \subseteq CLES /\ Presentes(m2) \subseteq CLES
  BY AssociationProp
<1>2. ASSUME NEW x \in Presentes(m2)
      PROVE  /\ x \in Presentes(m) \cup {k}
             /\ Association(m2)[x] = IF x = k THEN v ELSE Association(m)[x]
  <2>1. x \in CLES /\ \E w \in VALEURS : Associe(m2, x, w)
    BY <1>1, PresenteAssocie
  <2>2. PICK w \in VALEURS : Associe(m2, x, w)
    BY <2>1
  <2>3. IF x = k THEN w = v ELSE Associe(m, x, w)
    BY <2>1, <2>2 DEF Ajoute
  <2>4. Association(m2)[x] = w
    BY <2>1, <2>2, AssociationProp
  <2>5. x # k => x \in Presentes(m) /\ Association(m)[x] = w
    BY <2>1, <2>3, AssociationProp
  <2>6. QED
    BY <2>3, <2>4, <2>5
<1>3. ASSUME NEW x \in Presentes(m) \cup {k}
      PROVE  x \in Presentes(m2)
  <2>1. CASE x = k
    <3>1. Associe(m2, k, v)
      BY DEF Ajoute
    <3>2. QED
      BY <2>1, <3>1, AssociationProp
  <2>2. CASE x # k
    <3>1. x \in CLES /\ \E w \in VALEURS : Associe(m, x, w)
      BY <1>1, <2>2, PresenteAssocie
    <3>2. PICK w \in VALEURS : Associe(m, x, w)
      BY <3>1
    <3>3. Associe(m2, x, w)
      BY <2>2, <3>1, <3>2 DEF Ajoute
    <3>4. QED
      BY <3>1, <3>3, AssociationProp
  <2>3. QED
    BY <2>1, <2>2
<1>4. Presentes(m2) = Presentes(m) \cup {k} /\ DOMAIN Association(m) = Presentes(m)
  BY <1>1, <1>2, <1>3
<1>5. QED
  BY <1>1, <1>2, <1>4 DEF Ajoutee

LEMMA AssociationRetrait ==
  ASSUME NEW t \in Tailles, NEW m \in Tables(t), NEW m2 \in Tables(t),
         Accessible(m), Accessible(m2), NEW k \in CLES, Retire(m, k, m2)
  PROVE  Association(m2) = Retiree(Association(m), k)
<1>1. /\ Association(m) = [x \in Presentes(m) |-> Association(m)[x]]
      /\ Association(m2) = [x \in Presentes(m2) |-> Association(m2)[x]]
      /\ Presentes(m) \subseteq CLES /\ Presentes(m2) \subseteq CLES
  BY AssociationProp
<1>2. ASSUME NEW x \in Presentes(m2)
      PROVE  x \in Presentes(m) \ {k} /\ Association(m2)[x] = Association(m)[x]
  <2>1. x \in CLES /\ \E w \in VALEURS : Associe(m2, x, w)
    BY <1>1, PresenteAssocie
  <2>2. PICK w \in VALEURS : Associe(m2, x, w)
    BY <2>1
  <2>3. x # k /\ Associe(m, x, w)
    BY <2>1, <2>2 DEF Retire
  <2>4. Association(m2)[x] = w
    BY <2>1, <2>2, AssociationProp
  <2>5. x \in Presentes(m) /\ Association(m)[x] = w
    BY <2>1, <2>3, AssociationProp
  <2>6. QED
    BY <2>3, <2>4, <2>5
<1>3. ASSUME NEW x \in Presentes(m) \ {k}
      PROVE  x \in Presentes(m2)
  <2>1. x \in CLES /\ \E w \in VALEURS : Associe(m, x, w)
    BY <1>1, PresenteAssocie
  <2>2. PICK w \in VALEURS : Associe(m, x, w)
    BY <2>1
  <2>3. Associe(m2, x, w)
    BY <2>1, <2>2 DEF Retire
  <2>4. QED
    BY <2>1, <2>3, AssociationProp
<1>4. Presentes(m2) = Presentes(m) \ {k} /\ DOMAIN Association(m) = Presentes(m)
  BY <1>1, <1>2, <1>3
<1>5. QED
  BY <1>1, <1>2, <1>4 DEF Retiree

(* The three records that hash_set and hash_del write, field by field. *)
LEMMA EcritureValeur ==
  ASSUME NEW t \in Tailles, NEW m \in Tables(t), NEW i, NEW s,
         NEW e, e = [m EXCEPT !.table[i] = s]
  PROVE  e = [table |-> [m.table EXCEPT ![i] = s], fill |-> m.fill, count |-> m.count]
  BY DEF Tables

LEMMA EcritureRetrait ==
  ASSUME NEW t \in Tailles, NEW m \in Tables(t), NEW i, NEW s,
         NEW e, e = [m EXCEPT !.table[i] = s, !.count = @ - 1]
  PROVE  e = [table |-> [m.table EXCEPT ![i] = s], fill |-> m.fill, count |-> m.count - 1]
  BY DEF Tables

LEMMA EcritureAjout ==
  ASSUME NEW t \in Tailles, NEW m \in Tables(t), NEW i, NEW s,
         NEW e, e = [m EXCEPT !.table[i] = s, !.count = @ + 1,
                       !.fill = IF m.table[i] = Vide THEN @ + 1 ELSE @]
  PROVE  e = [table |-> [m.table EXCEPT ![i] = s],
              fill |-> IF m.table[i] = Vide THEN m.fill + 1 ELSE m.fill,
              count |-> m.count + 1]
  BY DEF Tables

-----------------------------------------------------------------------------
(* The invariant step by step, with what each step does to the dictionary. *)
LEMMA InvUtilisable ==
  ASSUME IInvHash, Utilisable, NEW m, m = map, NEW t, t = Taille(map)
  PROVE  /\ t \in Tailles /\ m \in Tables(t) /\ Accessible(m) /\ Compte(m)
         /\ m.fill < t /\ \A k \in CLES : ~SansFin(m, k)
         /\ echecs \in 0..ECHECS /\ 3 * (m.fill - echecs) < 2 * t
<1>1. /\ echecs \in 0..ECHECS /\ Sain(m) /\ Taille(m) = t
      /\ 3 * (m.fill - echecs) < 2 * t
  BY DEF IInvHash, Utilisable
<1>2. t \in Tailles /\ m \in Tables(t) /\ Accessible(m) /\ Compte(m)
  BY <1>1 DEF Sain
<1>3. m.fill \in Nat /\ t \in Nat /\ t >= HASH_MINSIZE
  BY <1>2, TablesProp, TaillesCompletes
<1>4. ECHECS \in Nat /\ 3 * ECHECS <= HASH_MINSIZE /\ HASH_MINSIZE \in Nat
  BY HashAssumption
<1>5. m.fill < t
  BY <1>1, <1>3, <1>4
<1>6. QED
  BY <1>1, <1>2, <1>5, VideFinit

LEMMA InvSet ==
  ASSUME IInvHash, NEW k \in CLES, NEW v \in VALEURS, hash_set(k, v)
  PROVE  IInvHash' /\ Association(map') = Ajoutee(Association(map), k, v)
<1>1. PICK m, t, i : m = map /\ t = Taille(map) /\ i = hash_lookup(map, k)
  OBVIOUS
<1>2. Utilisable
  BY DEF hash_set
<1>3. /\ t \in Tailles /\ m \in Tables(t) /\ Accessible(m) /\ Compte(m)
      /\ ~SansFin(m, k) /\ echecs \in 0..ECHECS /\ 3 * (m.fill - echecs) < 2 * t
  BY <1>1, <1>2, InvUtilisable
<1>4. /\ i \in 0..t-1
      /\ \/ Contient(m, i, k)
         \/ /\ ~Contient(m, i, k) /\ \A j \in 0..t-1 : ~Contient(m, j, k)
            /\ m.table[i] \in {Vide, Supprime}
  BY <1>1, <1>3, LookupCas
<1>5. PICK s \in Slots : s = Actif(k, v)
  BY SlotsProp
<1>6. s # Vide /\ s.mode = "SL_ACTIVE" /\ s.key = k
  BY <1>5, SlotsProp
<1>7. /\ m.table \in [0..t-1 -> Slots] /\ m.fill \in Nat /\ m.count \in Nat
      /\ t \in Nat /\ ECHECS \in Nat
      /\ [m.table EXCEPT ![i] = s] \in [0..t-1 -> Slots]
  <2>1. m.table \in [0..t-1 -> Slots] /\ m.fill \in Nat /\ m.count \in Nat
    BY <1>3 DEF Tables
  <2>2. QED
    BY <1>3, <1>4, <2>1, TablesProp, HashAssumption DEF Tables
<1>8. CASE Contient(m, i, k)
  <2>1. PICK m2 : m2 = [table |-> [m.table EXCEPT ![i] = s], fill |-> m.fill, count |-> m.count]
    OBVIOUS
  <2>2. m2 \in Tables(t) /\ Ecrit(m, i, s, m2) /\ m2.fill = m.fill /\ m2.count = m.count
    BY <1>7, <2>1 DEF Tables, Ecrit
  <2>3. map' = m2 /\ echecs' = echecs
    <3>1. PICK e : e = [m EXCEPT !.table[i] = s]
      OBVIOUS
    <3>2. map' = e /\ echecs' = echecs
      BY <1>1, <1>5, <1>8, <3>1 DEF hash_set
    <3>3. e = m2
      BY <1>3, <2>1, <3>1, EcritureValeur
    <3>4. QED
      BY <3>2, <3>3
  <2>4. /\ m.table[i].mode = "SL_ACTIVE" /\ m.table[i].key = k /\ m.table[i] # Vide
        /\ Chemin(m, k, i) /\ \A j \in 0..t-1 : Contient(m, j, k) => j = i
    BY <1>3, <1>4, <1>8, ActifAccessible
  <2>5. Accessible(m2)
    BY <1>3, <1>4, <1>6, <2>2, <2>4, AccessibleMaj
  <2>6. Compte(m2)
    BY <1>3, <1>4, <1>6, <2>2, <2>4, CompteMaj
  <2>7. Ajoute(m, k, v, m2)
    BY <1>3, <1>4, <1>5, <2>2, <2>4, AssocieAjout
  <2>8. Sain(m2) /\ Taille(m2) = t
    BY <1>3, <2>2, <2>5, <2>6, TablesProp DEF Sain
  <2>9. IInvHash'
    <3>1. 3 * (m2.fill - echecs) < 2 * Taille(m2)
      BY <1>3, <2>2, <2>8
    <3>2. QED
      BY <1>3, <2>3, <2>8, <3>1 DEF IInvHash
  <2>10. Association(m2) = Ajoutee(Association(m), k, v)
    BY <1>3, <2>2, <2>5, <2>7, AssociationAjout
  <2>11. QED
    BY <1>1, <2>3, <2>9, <2>10
<1>9. CASE ~Contient(m, i, k)
  <2>1. PICK m2 : m2 = [table |-> [m.table EXCEPT ![i] = s],
                        fill |-> IF m.table[i] = Vide THEN m.fill + 1 ELSE m.fill,
                        count |-> m.count + 1]
    OBVIOUS
  <2>2. /\ m2 \in Tables(t) /\ Ecrit(m, i, s, m2) /\ m2.count = m.count + 1
        /\ m2.fill = IF m.table[i] = Vide THEN m.fill + 1 ELSE m.fill
    BY <1>7, <2>1 DEF Tables, Ecrit
  <2>3. hash_update(m2)
    <3>1. PICK e : e = [m EXCEPT !.table[i] = s, !.count = @ + 1,
                          !.fill = IF m.table[i] = Vide THEN @ + 1 ELSE @]
      OBVIOUS
    <3>2. hash_update(e)
      BY <1>1, <1>5, <1>9, <3>1 DEF hash_set
    <3>3. e = m2
      BY <1>3, <2>1, <3>1, EcritureAjout
    <3>4. QED
      BY <3>2, <3>3
  <2>4. Accessible(m2) /\ Compte(m2) /\ Ajoute(m, k, v, m2)
    BY <1>1, <1>3, <1>4, <1>5, <1>9, <2>2, PoserCle
  <2>5. 3 * (m2.fill - echecs) < 2 * t + 3
    <3>1. PICK e \in Nat : e = echecs
      BY <1>3, <1>7
    <3>2. m2.fill = m.fill \/ m2.fill = m.fill + 1
      BY <2>2
    <3>3. PICK f \in Nat : f = m.fill /\ 3 * (f - e) < 2 * t
      BY <1>3, <1>7, <3>1
    <3>4. m2.fill = f \/ m2.fill = f + 1
      BY <3>2, <3>3
    <3>5. t \in Nat
      BY <1>7
    <3>6. 3 * (m2.fill - e) < 2 * t + 3
      BY <3>3, <3>4, <3>5
    <3>7. QED
      BY <3>1, <3>6
  <2>6. /\ echecs' \in 0..ECHECS
        /\ Sain(map') /\ 3 * (map'.fill - echecs') < 2 * Taille(map')
        /\ Association(map') = Association(m2)
    BY <1>3, <2>2, <2>3, <2>4, <2>5, MiseAJour
  <2>7. Association(m2) = Ajoutee(Association(m), k, v)
    BY <1>3, <2>2, <2>4, AssociationAjout
  <2>8. IInvHash'
    BY <2>6 DEF IInvHash
  <2>9. QED
    BY <1>1, <2>6, <2>7, <2>8
<1>10. QED
  BY <1>8, <1>9

LEMMA InvDel ==
  ASSUME IInvHash, NEW k \in CLES, hash_del(k)
  PROVE  /\ IInvHash'
         /\ \/ Association(map') = Association(map)
            \/ Association(map') = Retiree(Association(map), k)
<1>1. PICK m, t, i : m = map /\ t = Taille(map) /\ i = hash_lookup(map, k)
  OBVIOUS
<1>2. Utilisable
  BY DEF hash_del
<1>3. /\ t \in Tailles /\ m \in Tables(t) /\ Accessible(m) /\ Compte(m)
      /\ ~SansFin(m, k) /\ echecs \in 0..ECHECS /\ 3 * (m.fill - echecs) < 2 * t
  BY <1>1, <1>2, InvUtilisable
<1>4. CASE ~Contient(m, i, k)
  <2>1. map' = map /\ echecs' = echecs
    BY <1>1, <1>4 DEF hash_del, varsHash
  <2>2. IInvHash'
    BY <2>1 DEF IInvHash
  <2>3. QED
    BY <2>1, <2>2
<1>5. CASE Contient(m, i, k)
  <2>1. i \in 0..t-1
    BY <1>1, <1>3, LookupCas
  <2>2. /\ m.table[i].mode = "SL_ACTIVE" /\ m.table[i] # Vide
        /\ m.count \in Nat /\ m.count >= 1
    BY <1>3, <1>5, <2>1, ActifAccessible
  <2>3. PICK s \in Slots : s = Supprime /\ s # Vide /\ s.mode # "SL_ACTIVE"
    BY SlotsProp
  <2>4. /\ m.fill \in Nat /\ [m.table EXCEPT ![i] = s] \in [0..t-1 -> Slots]
        /\ t \in Nat /\ ECHECS \in Nat
    <3>1. m.table \in [0..t-1 -> Slots] /\ m.fill \in Nat
      BY <1>3 DEF Tables
    <3>2. QED
      BY <1>3, <2>1, <3>1, TablesProp, HashAssumption DEF Tables
  <2>5. PICK m2 : m2 = [table |-> [m.table EXCEPT ![i] = s], fill |-> m.fill,
                        count |-> m.count - 1]
    OBVIOUS
  <2>6. m2 \in Tables(t) /\ Ecrit(m, i, s, m2) /\ m2.fill = m.fill /\ m2.count = m.count - 1
    <3>1. m.count - 1 \in Nat
      BY <2>2
    <3>2. QED
      BY <2>4, <2>5, <3>1 DEF Tables, Ecrit
  <2>7. hash_update(m2)
    <3>1. PICK e : e = [m EXCEPT !.table[i] = s, !.count = @ - 1]
      OBVIOUS
    <3>2. hash_update(e)
      BY <1>1, <1>5, <2>3, <3>1 DEF hash_del
    <3>3. e = m2
      BY <1>3, <2>5, <3>1, EcritureRetrait
    <3>4. QED
      BY <3>2, <3>3
  <2>8. Accessible(m2)
    BY <1>3, <2>1, <2>3, <2>6, AccessibleMaj
  <2>9. Compte(m2)
    BY <1>3, <2>1, <2>2, <2>3, <2>6, CompteMaj
  <2>10. Retire(m, k, m2)
    BY <1>3, <1>5, <2>1, <2>3, <2>6, AssocieRetrait
  <2>11. 3 * (m2.fill - echecs) < 2 * t + 3
    BY <1>3, <2>4, <2>6
  <2>12. /\ echecs' \in 0..ECHECS
         /\ Sain(map') /\ 3 * (map'.fill - echecs') < 2 * Taille(map')
         /\ Association(map') = Association(m2)
    BY <1>3, <2>6, <2>7, <2>8, <2>9, <2>11, MiseAJour
  <2>13. Association(m2) = Retiree(Association(m), k)
    BY <1>3, <2>6, <2>8, <2>10, AssociationRetrait
  <2>14. IInvHash'
    BY <2>12 DEF IInvHash
  <2>15. QED
    BY <1>1, <2>12, <2>13, <2>14
<1>6. QED
  BY <1>4, <1>5

-----------------------------------------------------------------------------
LEMMA VidesDetruite ==
  /\ DOMAIN Detruite.table = {} /\ Detruite.fill = 0 /\ Detruite.count = 0
  /\ Presentes(Detruite) = {}
<1>1. DOMAIN Detruite.table = {} /\ Detruite.fill = 0 /\ Detruite.count = 0
  BY DEF Detruite
<1>2. QED
  BY <1>1 DEF Presentes

LEMMA SansAssociation ==
  ASSUME NEW m, Presentes(m) = {}
  PROVE  Association(m) = [x \in {} |-> CHOOSE v \in VALEURS : TRUE]
  BY DEF Association

LEMMA TableNeuve ==
  ASSUME NEW m, m = hash_initialize(HASH_MINSIZE)
  PROVE  /\ Sain(m) /\ m.fill = 0 /\ Taille(m) = HASH_MINSIZE
         /\ Presentes(m) = {}
<1>1. HASH_MINSIZE \in Tailles
  BY TaillesCompletes
<1>2. /\ m \in Tables(HASH_MINSIZE) /\ Accessible(m) /\ Compte(m) /\ m.fill = 0
      /\ \A k \in CLES, v \in VALEURS : ~Associe(m, k, v)
  BY <1>1, NouvelleTable
<1>3. Taille(m) = HASH_MINSIZE
  BY <1>1, <1>2, TablesProp
<1>4. Presentes(m) = {}
  <2>1. Presentes(m) \subseteq CLES
    BY DEF Presentes
  <2>2. \A k \in Presentes(m) : \E v \in VALEURS : Associe(m, k, v)
    BY <1>1, <1>2, PresenteAssocie
  <2>3. QED
    BY <1>2, <2>1, <2>2
<1>5. QED
  BY <1>1, <1>2, <1>3, <1>4 DEF Sain

LEMMA InvInit ==
  InitHash => IInvHash
<1>1. SUFFICES ASSUME InitHash PROVE IInvHash
  OBVIOUS
<1>2. Sain(map) /\ map.fill = 0 /\ Taille(map) = HASH_MINSIZE /\ echecs = 0
  <2>1. PICK m : m = hash_initialize(HASH_MINSIZE)
    OBVIOUS
  <2>2. map = m /\ echecs = 0
    BY <1>1, <2>1 DEF InitHash
  <2>3. QED
    BY <2>1, <2>2, TableNeuve
<1>3. HASH_MINSIZE \in Nat \ {0} /\ ECHECS \in Nat
  BY HashAssumption
<1>4. QED
  BY <1>2, <1>3 DEF IInvHash

LEMMA InvDestroy ==
  ASSUME IInvHash, hash_destroy
  PROVE  IInvHash'
<1>1. map' = Detruite /\ echecs' = 0 /\ ECHECS \in Nat
  BY HashAssumption DEF hash_destroy
<1>2. QED
  BY <1>1 DEF IInvHash

LEMMA InvReinit ==
  ASSUME IInvHash, hash_init_string
  PROVE  IInvHash' /\ Association(map') = Association(map)
<1>1. /\ map = Detruite /\ echecs' = echecs
      /\ map' = map \/ map' = hash_initialize(HASH_MINSIZE)
  BY DEF hash_init_string, Utilisable
<1>2. CASE map' = map
  BY <1>1, <1>2 DEF IInvHash
<1>3. CASE map' = hash_initialize(HASH_MINSIZE)
  <2>1. /\ Sain(map') /\ map'.fill = 0 /\ Taille(map') = HASH_MINSIZE
        /\ Presentes(map') = {}
    BY <1>3, TableNeuve
  <2>2. echecs \in 0..ECHECS /\ HASH_MINSIZE \in Nat \ {0} /\ ECHECS \in Nat
    BY HashAssumption DEF IInvHash
  <2>3. 3 * (map'.fill - echecs') < 2 * Taille(map')
    BY <1>1, <2>1, <2>2
  <2>4. IInvHash'
    BY <1>1, <2>1, <2>2, <2>3 DEF IInvHash
  <2>5. Association(map') = Association(map)
    BY <1>1, <2>1, SansAssociation, VidesDetruite
  <2>6. QED
    BY <2>4, <2>5
<1>4. QED
  BY <1>1, <1>2, <1>3

LEMMA InvSuite ==
  ASSUME IInvHash, [NextHash]_varsHash
  PROVE  IInvHash'
<1>1. CASE \E k \in CLES : hash_del(k)
  BY <1>1, InvDel
<1>2. CASE \E k \in CLES, v \in VALEURS : hash_set(k, v)
  BY <1>2, InvSet
<1>3. CASE hash_destroy
  BY <1>3, InvDestroy
<1>4. CASE hash_init_string
  BY <1>4, InvReinit
<1>5. CASE UNCHANGED varsHash
  BY <1>5 DEF varsHash, IInvHash
<1>6. QED
  BY <1>1, <1>2, <1>3, <1>4, <1>5 DEF NextHash

LEMMA InvHash == SpecHash => []IInvHash
<1>1. InitHash => IInvHash
  BY InvInit
<1>2. IInvHash /\ [NextHash]_varsHash => IInvHash'
  BY InvSuite
<1>3. QED
  BY <1>1, <1>2, PTL DEF SpecHash

(* hash_lookup always ends, for any keys and hash codes, after any         *)
(* sequence of insertions, deletions, resizings and failed allocations;    *)
(* fill and count are the slots they stand for.                            *)
THEOREM RechercheFinieCorrect == SpecHash => []RechercheFinie
<1>1. IInvHash => RechercheFinie
  <2>1. SUFFICES ASSUME IInvHash PROVE RechercheFinie
    OBVIOUS
  <2>2. CASE map = Detruite
    <3>1. ~Utilisable /\ DOMAIN map.table = {} /\ map.fill = 0 /\ map.count = 0
      BY <2>2, VidesDetruite DEF Utilisable
    <3>2. /\ {i \in DOMAIN map.table : map.table[i] # Vide} = {}
          /\ {i \in DOMAIN map.table : map.table[i].mode = "SL_ACTIVE"} = {}
      BY <3>1
    <3>3. QED
      BY <3>1, <3>2, FS_EmptySet DEF RechercheFinie
  <2>3. CASE Utilisable
    <3>1. PICK m, t : m = map /\ t = Taille(map)
      OBVIOUS
    <3>2. Compte(m) /\ \A k \in CLES : ~SansFin(m, k)
      BY <2>1, <2>3, <3>1, InvUtilisable
    <3>3. QED
      BY <3>1, <3>2 DEF RechercheFinie, Compte, Pleines, Actives
  <2>4. QED
    BY <2>2, <2>3 DEF Utilisable
<1>2. QED
  BY <1>1, InvHash, PTL

(* hash_lookup, hash_isset and hash_get find a key exactly where it is.    *)
THEOREM RechercheExacteCorrect == SpecHash => []RechercheExacte
<1>1. IInvHash => RechercheExacte
  <2>1. SUFFICES ASSUME IInvHash PROVE RechercheExacte
    OBVIOUS
  <2>2. CASE map = Detruite
    BY <2>2, VidesDetruite DEF RechercheExacte, Utilisable
  <2>3. CASE Utilisable
    <3>1. PICK m, t : m = map /\ t = Taille(map)
      OBVIOUS
    <3>2. /\ t \in Tailles /\ m \in Tables(t) /\ Accessible(m)
          /\ \A k \in CLES : ~SansFin(m, k)
      BY <2>1, <2>3, <3>1, InvUtilisable
    <3>3. DOMAIN m.table = 0..t-1 /\ \A i \in 0..t-1 : m.table[i] \in Slots
      BY <3>2, TablesProp
    <3>4. ASSUME NEW i \in 0..t-1, m.table[i].mode = "SL_ACTIVE"
          PROVE  ~SansFin(m, m.table[i].key) /\ hash_lookup(m, m.table[i].key) = i
      <4>1. m.table[i].key \in CLES /\ Contient(m, i, m.table[i].key)
        BY <3>3, <3>4, SlotsProp DEF Contient, hash_string_cmp
      <4>2. QED
        BY <3>2, <4>1, LookupPresent
    <3>5. ASSUME NEW k \in CLES, NEW places, places = {i \in 0..t-1 : Contient(m, i, k)}
          PROVE  /\ hash_isset(m, k) <=> places # {}
                 /\ \A i \in places : hash_get(m, k, 0) = m.table[i].value
                 /\ places = {} => hash_get(m, k, 0) = 0
      <4>1. CASE places = {}
        <5>1. \A i \in 0..t-1 : ~Contient(m, i, k)
          BY <3>5, <4>1
        <5>2. m.table[hash_lookup(m, k)] \in {Vide, Supprime}
          BY <3>2, <5>1, LookupAbsent
        <5>3. m.table[hash_lookup(m, k)].mode # "SL_ACTIVE"
          BY <5>2, SlotsProp
        <5>4. QED
          BY <4>1, <5>3 DEF hash_isset, hash_get
      <4>2. CASE places # {}
        <5>1. ASSUME NEW i \in places
              PROVE  hash_lookup(m, k) = i /\ m.table[i].mode = "SL_ACTIVE"
          <6>1. i \in 0..t-1 /\ Contient(m, i, k)
            BY <3>5
          <6>2. hash_lookup(m, k) = i
            BY <3>2, <6>1, LookupPresent
          <6>3. QED
            BY <6>1, <6>2 DEF Contient
        <5>2. hash_isset(m, k)
          BY <4>2, <5>1 DEF hash_isset
        <5>3. \A i \in places : hash_get(m, k, 0) = m.table[i].value
          BY <5>1 DEF hash_get
        <5>4. QED
          BY <4>2, <5>2, <5>3
      <4>3. QED
        BY <4>1, <4>2
    <3>6. \A i \in DOMAIN map.table :
            map.table[i].mode = "SL_ACTIVE" =>
              ~SansFin(map, map.table[i].key) /\ hash_lookup(map, map.table[i].key) = i
      BY <3>1, <3>3, <3>4
    <3>7. ASSUME NEW k \in CLES
          PROVE  LET places == {i \in DOMAIN map.table : Contient(map, i, k)}
                 IN /\ hash_isset(map, k) <=> places # {}
                    /\ \A i \in places : hash_get(map, k, 0) = map.table[i].value
                    /\ places = {} => hash_get(map, k, 0) = 0
      <4>1. PICK places : places = {i \in DOMAIN map.table : Contient(map, i, k)}
        OBVIOUS
      <4>2. places = {i \in 0..t-1 : Contient(m, i, k)}
        BY <3>1, <3>3, <4>1
      <4>3. /\ hash_isset(m, k) <=> places # {}
            /\ \A i \in places : hash_get(m, k, 0) = m.table[i].value
            /\ places = {} => hash_get(m, k, 0) = 0
        BY <3>5, <4>2
      <4>4. QED
        BY <3>1, <4>1, <4>3
    <3>8. QED
      BY <3>6, <3>7 DEF RechercheExacte
  <2>4. QED
    BY <2>2, <2>3 DEF Utilisable
<1>2. QED
  BY <1>1, InvHash, PTL

(* The table of hash.c implements the dictionary of hash.h.                *)
THEOREM EstUnDictionnaireCorrect == SpecHash => EstUnDictionnaire
<1>1. InitHash => Promesse!Init
  <2>1. SUFFICES ASSUME InitHash PROVE Promesse!Init
    OBVIOUS
  <2>2. Presentes(map) = {}
    <3>1. PICK m : m = hash_initialize(HASH_MINSIZE)
      OBVIOUS
    <3>2. map = m
      BY <2>1, <3>1 DEF InitHash
    <3>3. QED
      BY <3>1, <3>2, TableNeuve
  <2>3. QED
    BY <2>2, SansAssociation DEF Promesse!Init
<1>2. IInvHash /\ [NextHash]_varsHash => [Promesse!Next]_(Association(map))
  <2>1. SUFFICES ASSUME IInvHash, [NextHash]_varsHash
                 PROVE  [Promesse!Next]_(Association(map))
    OBVIOUS
  <2>2. ASSUME NEW k \in CLES, hash_del(k)
        PROVE  [Promesse!Next]_(Association(map))
    <3>1. \/ Association(map') = Association(map)
          \/ Association(map') = Retiree(Association(map), k)
      BY <2>1, <2>2, InvDel
    <3>2. CASE Association(map') = Retiree(Association(map), k)
      <4>1. Promesse!Retirer(k)
        BY <3>2 DEF Promesse!Retirer, Retiree
      <4>2. QED
        BY <4>1 DEF Promesse!Next
    <3>3. QED
      BY <3>1, <3>2
  <2>3. ASSUME NEW k \in CLES, NEW v \in VALEURS, hash_set(k, v)
        PROVE  [Promesse!Next]_(Association(map))
    <3>1. Association(map') = Ajoutee(Association(map), k, v)
      BY <2>1, <2>3, InvSet
    <3>2. Promesse!Associer(k, v)
      BY <3>1 DEF Promesse!Associer, Ajoutee
    <3>3. QED
      BY <3>2 DEF Promesse!Next
  <2>4. CASE hash_destroy
    <3>1. Association(map') = [x \in {} |-> CHOOSE v \in VALEURS : TRUE]
      BY <2>4, VidesDetruite, SansAssociation DEF hash_destroy
    <3>2. Promesse!Oublier
      BY <3>1 DEF Promesse!Oublier
    <3>3. QED
      BY <3>2 DEF Promesse!Next
  <2>5. CASE hash_init_string
    BY <2>1, <2>5, InvReinit
  <2>6. CASE UNCHANGED varsHash
    BY <2>6 DEF varsHash
  <2>7. QED
    BY <2>1, <2>2, <2>3, <2>4, <2>5, <2>6 DEF NextHash
<1>3. QED
  BY <1>1, <1>2, InvHash, PTL DEF SpecHash, EstUnDictionnaire, Promesse!Spec
=============================================================================
