------------------------------ MODULE IndexLemmas ------------------------------
(***************************************************************************)
(* Facts about indices which the searches and the loops rest on.           *)
(***************************************************************************)
EXTENDS Integers, FiniteSetsExt, TLAPS, WellFoundedInduction

(***************************************************************************)
(* The indices of a sequence that satisfy something have a greatest one.   *)
(***************************************************************************)
LEMMA MaxOfIndices ==
  ASSUME NEW n \in Nat, NEW S, S \subseteq 1 .. n, S # {}
  PROVE  Max(S) \in S /\ \A x \in S : x <= Max(S)
<1> DEFINE T == {n - x : x \in S}
           R == OpToRel(<, Nat)
<1>1. T \subseteq Nat /\ T # {}
  <2>1. \A x \in S : x \in 1 .. n /\ n - x \in Nat
    OBVIOUS
  <2> QED
    BY <2>1
<1>2. IsWellFoundedOn(R, Nat)
  BY NatLessThanWellFounded
<1>3. PICK t \in T : \A y \in T : ~(<<y, t>> \in R)
  BY <1>1, <1>2, WFMin
<1>4. \A y \in T : ~(y < t)
  BY <1>1, <1>3 DEF OpToRel
<1>5. PICK m \in S : t = n - m
  OBVIOUS
<1>6. \A x \in S : m >= x
  <2> SUFFICES ASSUME NEW x \in S PROVE m >= x
    OBVIOUS
  <2>1. n - x \in T
    OBVIOUS
  <2>2. ~(n - x < n - m)
    BY <2>1, <1>4, <1>5
  <2> QED
    BY <2>2
<1>7. \E x \in S : \A y \in S : x >= y
  BY <1>6
<1>8. Max(S) \in S /\ \A y \in S : Max(S) >= y
  BY <1>7 DEF Max
<1> QED
  BY <1>8

(***************************************************************************)
(* A set of naturals has a least one.                                      *)
(***************************************************************************)
LEMMA MinOfNaturals ==
  ASSUME NEW S, S \subseteq Nat, S # {}
  PROVE  Min(S) \in S /\ \A x \in S : Min(S) <= x
<1> DEFINE R == OpToRel(<, Nat)
<1>1. IsWellFoundedOn(R, Nat)
  BY NatLessThanWellFounded
<1>2. PICK t \in S : \A y \in S : ~(<<y, t>> \in R)
  BY <1>1, WFMin
<1>3. \A y \in S : ~(y < t)
  BY <1>2 DEF OpToRel
<1>4. \A y \in S : t <= y
  <2> HIDE DEF R
  <2> QED
    BY <1>3
<1>5. Min(S) \in S /\ \A x \in S : Min(S) <= x
  BY <1>4 DEF Min
<1> QED
  BY <1>5

(***************************************************************************)
(* Induction up to n: a set that has 0, and each number after one it has.  *)
(***************************************************************************)
LEMMA UpTo ==
  ASSUME NEW n \in Nat, NEW P, 0 \in P, \A i \in 1 .. n : i - 1 \in P => i \in P
  PROVE  0 .. n \subseteq P
<1> DEFINE T == (0 .. n) \ P
<1> SUFFICES ASSUME T # {} PROVE FALSE
  OBVIOUS
<1>1. T \subseteq Nat
  OBVIOUS
<1>2. PICK m \in T : \A x \in T : m <= x
  BY <1>1, MinOfNaturals
<1>3. m \in 1 .. n /\ m - 1 \in 0 .. n /\ m - 1 \notin T
  BY <1>2
<1> QED
  BY <1>2, <1>3

(***************************************************************************)
(* A loop that turns values of S by F has a trace.                         *)
(***************************************************************************)
Traces(n, S, start, F) ==
  {g \in [0 .. n -> S] : g[0] = start /\ \A i \in 1 .. n : g[i] = F[i][g[i - 1]]}

\* The trace is built turn by turn.
LEMMA LoopRuns ==
  ASSUME NEW n \in Nat, NEW S, NEW start \in S, NEW F \in [1 .. n -> [S -> S]]
  PROVE  Traces(n, S, start, F) # {}
<1> DEFINE Runs(m, g) == g[0] = start /\ \A i \in 1 .. m : g[i] = F[i][g[i - 1]]
           P == {m \in 0 .. n : \E g \in [0 .. m -> S] : Runs(m, g)}
<1>1. 0 \in P
  <2> DEFINE g == [i \in 0 .. 0 |-> start]
  <2>1. g \in [0 .. 0 -> S] /\ g[0] = start
    OBVIOUS
  <2>2. Runs(0, g) /\ 0 \in 0 .. n
    <3> HIDE DEF g
    <3> QED
      BY <2>1
  <2> HIDE DEF Runs, g
  <2> QED
    BY <2>1, <2>2
<1>2. ASSUME NEW m \in 1 .. n, m - 1 \in P
      PROVE  m \in P
  <2>1. PICK g \in [0 .. m - 1 -> S] : Runs(m - 1, g)
    BY <1>2
  <2> DEFINE h == [i \in 0 .. m |-> IF i = m THEN F[m][g[m - 1]] ELSE g[i]]
  <2>2. h \in [0 .. m -> S]
    <3>1. g[m - 1] \in S /\ F[m] \in [S -> S]
      OBVIOUS
    <3>2. F[m][g[m - 1]] \in S
      BY <3>1
    <3> QED
      BY <3>2
  <2>3. h[0] = start
    BY <2>1
  <2>4. ASSUME NEW i \in 1 .. m PROVE h[i] = F[i][h[i - 1]]
    <3>1. i - 1 \in 0 .. m /\ i - 1 # m /\ h[i - 1] = g[i - 1]
      OBVIOUS
    <3>2. CASE i = m
      BY <3>1, <3>2
    <3>3. CASE i # m
      <4>1. i \in 1 .. m - 1 /\ h[i] = g[i]
        BY <3>3
      <4>2. g[i] = F[i][g[i - 1]]
        BY <2>1, <4>1
      <4> QED
        BY <3>1, <4>1, <4>2
    <3> QED
      BY <3>2, <3>3
  <2>5. Runs(m, h) /\ m \in 0 .. n
    <3> HIDE DEF h
    <3> QED
      BY <2>3, <2>4
  <2> HIDE DEF Runs, h
  <2> QED
    BY <2>2, <2>5
<1>3. 0 .. n \subseteq P
  <2> HIDE DEF P
  <2> QED
    BY <1>1, <1>2, UpTo
<1>4. n \in P
  <2> HIDE DEF P
  <2> QED
    BY <1>3
<1> QED
  BY <1>4 DEF Traces

(***************************************************************************)
(* Finitely many naturals have a bound.                                    *)
(***************************************************************************)
LEMMA BoundOf ==
  ASSUME NEW n \in Nat, NEW f, \A i \in 1 .. n : f[i] \in Nat
  PROVE  \E m \in Nat : \A i \in 1 .. n : f[i] <= m
<1> DEFINE P == {k \in 0 .. n : \E m \in Nat : \A i \in 1 .. k : f[i] <= m}
<1>1. 0 \in P
  OBVIOUS
<1>2. ASSUME NEW k \in 1 .. n, k - 1 \in P
      PROVE  k \in P
  <2>1. PICK m \in Nat : \A i \in 1 .. k - 1 : f[i] <= m
    BY <1>2
  <2>2. CASE f[k] <= m
    <3>1. \A i \in 1 .. k : f[i] <= m
      BY <2>1, <2>2
    <3> QED
      BY <3>1
  <2>3. CASE f[k] > m
    <3>1. \A i \in 1 .. k : f[i] <= f[k]
      BY <2>1, <2>3
    <3> QED
      BY <3>1
  <2> QED
    BY <2>2, <2>3
<1>3. 0 .. n \subseteq P
  <2> HIDE DEF P
  <2> QED
    BY <1>1, <1>2, UpTo
<1>4. n \in P
  <2> HIDE DEF P
  <2> QED
    BY <1>3
<1> QED
  BY <1>4
------------------------------------------------------------------------------
(***************************************************************************)
(* Division, for every divisor.                                            *)
(***************************************************************************)
\* A number is its quotient and its remainder.
LEMMA Divided ==
  ASSUME NEW p \in Nat \ {0}, NEW c \in Nat
  PROVE  c \div p \in Nat /\ c % p \in 0 .. p - 1 /\ c = p * (c \div p) + (c % p)
  OBVIOUS

\* Multiples lie a divisor apart.
LEMMA Apart ==
  ASSUME NEW p \in Nat \ {0}, NEW q \in Int, NEW r \in Int, p * q = r, -p < r, r < p
  PROVE  q = 0
  OBVIOUS

\* Multiplication distributes.
LEMMA Spread ==
  ASSUME NEW p \in Int, NEW q \in Int, NEW d \in Int
  PROVE  p * (q + d) = p * q + p * d /\ p * (q - d) = p * q - p * d
  OBVIOUS

\* No other remainder fits.
LEMMA Remainder ==
  ASSUME NEW p \in Nat \ {0}, NEW q \in Nat, NEW r \in 0 .. p - 1
  PROVE  (p * q + r) % p = r
<1> DEFINE c == p * q + r
           d == c \div p
           s == c % p
<1>1. c \in Nat
  OBVIOUS
<1>2. d \in Nat /\ s \in 0 .. p - 1 /\ c = p * d + s
  <2> HIDE DEF c
  <2> QED
    BY <1>1, Divided DEF d, s
<1>3. p * q \in Int /\ p * d \in Int /\ p * q + r = p * d + s
  <2> HIDE DEF d, s
  <2> QED
    BY <1>2 DEF c
<1>4. p * (q - d) = s - r
  <2>1. p * (q - d) = p * q - p * d
    <3> HIDE DEF d
    <3> QED
      BY <1>2, Spread
  <2> HIDE DEF d, s
  <2> QED
    BY <1>2, <1>3, <2>1
<1>5. q - d = 0
  <2> HIDE DEF d, s
  <2>1. -p < s - r /\ s - r < p /\ q - d \in Int /\ s - r \in Int
    BY <1>2
  <2> QED
    BY <1>4, <2>1, Apart
<1>6. s = r
  <2> HIDE DEF d, s
  <2> QED
    BY <1>2, <1>4, <1>5
<1> QED
  BY <1>6

\* Multiples of the divisor do not count.
LEMMA SameRemainder ==
  ASSUME NEW p \in Nat \ {0}, NEW c \in Nat, NEW s \in Nat, s % p = 0
  PROVE  (c + s) % p = c % p
<1> DEFINE q == c \div p
           r == c % p
           d == s \div p
<1>1. q \in Nat /\ r \in 0 .. p - 1 /\ c = p * q + r
  BY Divided
<1>2. d \in Nat /\ s = p * d + (s % p)
  BY Divided
<1> HIDE DEF q, r, d
<1>3. c + s = p * (q + d) + r
  <2>1. p * (q + d) = p * q + p * d
    BY <1>1, <1>2, Spread
  <2>2. p * q \in Int /\ p * d \in Int /\ s = p * d
    BY <1>1, <1>2
  <2> QED
    BY <1>1, <2>1, <2>2
<1>4. (p * (q + d) + r) % p = r
  <2>1. q + d \in Nat
    BY <1>1, <1>2
  <2> QED
    BY <1>1, <2>1, Remainder
<1> QED
  BY <1>3, <1>4 DEF r

\* Of equal remainders, those less than a divisor apart are the same.
LEMMA SamePlace ==
  ASSUME NEW p \in Nat \ {0}, NEW a \in Nat, NEW b \in Nat, a % p = b % p,
         a - b < p, b - a < p
  PROVE  a = b
<1> DEFINE q == a \div p
           d == b \div p
           r == a % p
<1>1. q \in Nat /\ r \in 0 .. p - 1 /\ a = p * q + r
  BY Divided
<1>2. d \in Nat /\ b = p * d + (b % p)
  BY Divided
<1>3. b % p = r
  OBVIOUS
<1> HIDE DEF q, d, r
<1>4. p * (q - d) = a - b
  <2>1. p * (q - d) = p * q - p * d
    BY <1>1, <1>2, Spread
  <2>2. p * q \in Int /\ p * d \in Int
    BY <1>1, <1>2
  <2> QED
    BY <1>1, <1>2, <1>3, <2>1, <2>2
<1>5. q - d = 0
  <2>1. q - d \in Int /\ a - b \in Int /\ -p < a - b /\ a - b < p
    BY <1>1, <1>2
  <2> QED
    BY <1>4, <2>1, Apart
<1> QED
  BY <1>1, <1>2, <1>3, <1>5
==============================================================================
