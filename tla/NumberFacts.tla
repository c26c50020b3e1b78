----------------------------- MODULE NumberFacts -----------------------------
(***************************************************************************)
(* Facts about sets of numbers, and about quotients and remainders, that   *)
(* the proofs share.                                                       *)
(***************************************************************************)
EXTENDS Integers, WellFoundedInduction, TLAPS

(* A set of indices that is not empty has a greatest one.                  *)
LEMMA Greatest ==
  ASSUME NEW n \in Nat, NEW S \in SUBSET (0 .. n - 1), S # {}
  PROVE  \E k \in S : \A j \in S : j <= k
<1> DEFINE T == {n - k : k \in S}
<1>1. T \in SUBSET Nat /\ T # {}
  OBVIOUS
<1>2. PICK t \in T : \A u \in T : t <= u
  <2>1. PICK R : R = OpToRel(<, Nat)
    OBVIOUS
  <2>2. IsWellFoundedOn(R, Nat)
    BY <2>1, NatLessThanWellFounded, Zenon
  <2>3. R = {p \in Nat \X Nat : p[1] < p[2]}
    BY <2>1 DEF OpToRel
  <2> HIDE DEF T
  <2>4. PICK t \in T : \A u \in T : <<u, t>> \notin R
    BY <1>1, <2>2, WFMin, Zenon
  <2>5. \A u \in T : u \in Nat /\ t \in Nat
    BY <1>1
  <2>6. \A u, v \in Nat : <<u, v>> \notin R => v <= u
    BY <2>3
  <2>7. \A u \in T : t <= u
    BY <2>4, <2>5, <2>6
  <2> QED BY <2>7
<1>3. PICK k \in S : t = n - k
  BY <1>2
<1>4. \A j \in S : j <= k
  BY <1>2, <1>3
<1> QED BY <1>4
-----------------------------------------------------------------------------
(* A set that holds 0, and with each number below n the next, holds all of *)
(* 0 .. n: induction over the members of a set.                            *)
LEMMA SetInduction ==
  ASSUME NEW n \in Nat, NEW S, 0 \in S, \A k \in 0 .. n - 1 : k \in S => k + 1 \in S
  PROVE  \A k \in 0 .. n : k \in S
<1> SUFFICES ASSUME NEW m \in 0 .. n, m \notin S PROVE FALSE
  OBVIOUS
<1>1. PICK Before : Before = {k \in 0 .. m - 1 : \A j \in 0 .. k : j \in S}
  OBVIOUS
<1>2. m # 0 /\ m \in Nat
  OBVIOUS
<1>3. 0 \in Before /\ Before \in SUBSET (0 .. m - 1)
  BY <1>1, <1>2
<1>4. PICK k \in Before : \A j \in Before : j <= k
  BY <1>2, <1>3, Greatest
<1>5. k \in 0 .. m - 1 /\ k \in S /\ k + 1 \in S /\ k + 1 # m
  BY <1>1, <1>4
<1>6. \A j \in 0 .. k + 1 : j \in S
  BY <1>1, <1>4, <1>5
<1>7. k + 1 \in Before
  BY <1>1, <1>5, <1>6
<1> QED BY <1>4, <1>5, <1>7

(* A value for 0 and a step from each number to the next define a          *)
(* function: the recursive functions of the model have the values their    *)
(* equations give them.                                                    *)
Steps(n, V) == [0 .. n - 1 -> [V -> V]]

Follows(f, n, V, v, step) ==
  /\ f \in [0 .. n -> V]
  /\ f[0] = v
  /\ \A k \in 0 .. n - 1 : f[k + 1] = step[k][f[k]]

LEMMA StepByStep ==
  ASSUME NEW n \in Nat, NEW V, NEW v \in V, NEW step \in Steps(n, V)
  PROVE  \E f : Follows(f, n, V, v, step)
<1> USE DEF Steps, Follows
<1> DEFINE S == {m \in 0 .. n : \E f \in [0 .. m -> V] :
                    /\ f[0] = v
                    /\ \A k \in 0 .. m - 1 : f[k + 1] = step[k][f[k]]}
<1>1. 0 \in S
  <2>1. PICK f : f = [m \in 0 .. 0 |-> v]
    OBVIOUS
  <2>2. f \in [0 .. 0 -> V] /\ f[0] = v
    BY <2>1
  <2>3. \A k \in 0 .. 0 - 1 : f[k + 1] = step[k][f[k]]
    OBVIOUS
  <2> QED BY <2>2, <2>3
<1>2. ASSUME NEW k \in 0 .. n - 1, k \in S PROVE k + 1 \in S
  <2>1. PICK f \in [0 .. k -> V] :
          /\ f[0] = v
          /\ \A m \in 0 .. k - 1 : f[m + 1] = step[m][f[m]]
    BY <1>2
  <2>2. f[k] \in V /\ step[k] \in [V -> V]
    OBVIOUS
  <2>3. PICK w \in V : w = step[k][f[k]]
    BY <2>2
  <2>4. PICK g : g = [m \in 0 .. k + 1 |-> IF m = k + 1 THEN w ELSE f[m]]
    OBVIOUS
  <2>5. g \in [0 .. k + 1 -> V] /\ g[0] = v
    BY <2>1, <2>4
  <2>6. ASSUME NEW m \in 0 .. (k + 1) - 1 PROVE g[m + 1] = step[m][g[m]]
    <3>1. CASE m = k
      <4>1. g[m + 1] = w /\ g[m] = f[k]
        BY <2>4, <3>1
      <4> QED BY <2>3, <3>1, <4>1
    <3>2. CASE m # k
      <4>1. m \in 0 .. k - 1 /\ g[m + 1] = f[m + 1] /\ g[m] = f[m]
        BY <2>4, <3>2
      <4> QED BY <2>1, <4>1
    <3> QED BY <3>1, <3>2
  <2> QED BY <2>5, <2>6
<1> HIDE DEF S
<1>3. \A m \in 0 .. n : m \in S
  BY <1>1, <1>2, SetInduction
<1>4. n \in S
  BY <1>3
<1> QED BY <1>4 DEF S
-----------------------------------------------------------------------------
(* Quotient and remainder, as the provers know them.                       *)
LEMMA DivMod ==
  ASSUME NEW a \in Int, NEW m \in Nat \ {0}
  PROVE  /\ a \div m \in Int /\ a % m \in 0 .. m - 1
         /\ a = m * (a \div m) + (a % m)
OBVIOUS

(* A number in the range of the remainders is its own.                     *)
LEMMA SmallRest == ASSUME NEW m \in Nat \ {0}, NEW r \in 0 .. m - 1 PROVE r % m = r
OBVIOUS

(* Two remainders that differ by a multiple are the same.                  *)
LEMMA SameRests ==
  ASSUME NEW m \in Nat \ {0}, NEW k \in Int, NEW r \in 0 .. m - 1, NEW s \in 0 .. m - 1,
         r = m * k + s
  PROVE  k = 0
<1>1. CASE k > 0
  <2>1. m * k >= m
    BY <1>1
  <2> QED BY <2>1
<1>2. CASE k < 0
  <2>1. m * k <= -m
    BY <1>2
  <2> QED BY <2>1
<1> QED BY <1>1, <1>2

(* A number has one quotient and one remainder.                            *)
LEMMA Unique ==
  ASSUME NEW m \in Nat \ {0}, NEW q \in Int, NEW r \in 0 .. m - 1, NEW n \in Int,
         n = m * q + r
  PROVE  n % m = r /\ n \div m = q
<1>1. PICK d, e : d = n \div m /\ e = n % m
  OBVIOUS
<1>2. d \in Int /\ e \in 0 .. m - 1 /\ n = m * d + e
  BY <1>1, DivMod
<1>3. m * (q - d) = m * q - m * d /\ m * q \in Int /\ m * d \in Int /\ q - d \in Int
  BY <1>2
<1>4. e = m * (q - d) + r
  BY <1>2, <1>3
<1>5. q - d = 0
  BY <1>2, <1>3, <1>4, SameRests
<1>6. q = d
  BY <1>2, <1>5
<1>7. r = e
  BY <1>2, <1>3, <1>6
<1> QED BY <1>1, <1>6, <1>7

(* Numbers that are congruent modulo m.                                    *)
Same(m, a, b) == \E k \in Int : a = b + m * k

(* Congruent are those with the same remainder.                            *)
LEMMA SameThenRest ==
  ASSUME NEW m \in Nat \ {0}, NEW a \in Int, NEW b \in Int, Same(m, a, b)
  PROVE  a % m = b % m
<1>1. PICK d, r : d = b \div m /\ r = b % m
  OBVIOUS
<1>2. d \in Int /\ r \in 0 .. m - 1 /\ b = m * d + r
  BY <1>1, DivMod
<1>3. PICK k \in Int : a = b + m * k
  BY DEF Same
<1>4. PICK q \in Int : q = d + k
  BY <1>2
<1>5. m * q = m * d + m * k /\ m * d \in Int /\ m * k \in Int
  BY <1>2, <1>4
<1>6. a = m * q + r
  BY <1>2, <1>3, <1>5
<1>7. a % m = r
  BY <1>2, <1>6, Unique
<1> QED BY <1>1, <1>7

LEMMA RestThenSame ==
  ASSUME NEW m \in Nat \ {0}, NEW a \in Int, NEW b \in Int, a % m = b % m
  PROVE  Same(m, a, b)
<1>1. PICK c, d, r : c = a \div m /\ d = b \div m /\ r = a % m
  OBVIOUS
<1>2. c \in Int /\ d \in Int /\ r \in 0 .. m - 1 /\ a = m * c + r /\ b = m * d + r
  BY <1>1, DivMod
<1>3. PICK j \in Int : j = c - d
  BY <1>2
<1>4. m * j = m * c - m * d /\ m * c \in Int /\ m * d \in Int
  BY <1>2, <1>3
<1>5. a = b + m * j
  BY <1>2, <1>4
<1> QED BY <1>5 DEF Same

LEMMA SameRest ==
  ASSUME NEW m \in Nat \ {0}, NEW a \in Int, NEW b \in Int
  PROVE  Same(m, a, b) <=> a % m = b % m
BY SameThenRest, RestThenSame

(* A remainder is the congruent number in its range.                       *)
LEMMA Rest ==
  ASSUME NEW m \in Nat \ {0}, NEW n \in Int, NEW r \in 0 .. m - 1, Same(m, n, r)
  PROVE  n % m = r
<1>1. r \in Int /\ r % m = r
  OBVIOUS
<1>2. n % m = r % m
  BY <1>1, SameThenRest
<1> QED BY <1>1, <1>2

(* Congruence is an equivalence, ...                                       *)
LEMMA SameSelf == ASSUME NEW m \in Nat \ {0}, NEW a \in Int PROVE Same(m, a, a)
BY SameRest

LEMMA SameTurned ==
  ASSUME NEW m \in Nat \ {0}, NEW a \in Int, NEW b \in Int, Same(m, a, b)
  PROVE  Same(m, b, a)
BY SameRest

LEMMA SameChain ==
  ASSUME NEW m \in Nat \ {0}, NEW a \in Int, NEW b \in Int, NEW c \in Int,
         Same(m, a, b), Same(m, b, c)
  PROVE  Same(m, a, c)
BY SameRest

(* ... sums and differences of congruent numbers are congruent, ...        *)
LEMMA SameSum ==
  ASSUME NEW m \in Nat \ {0}, NEW a \in Int, NEW b \in Int, NEW c \in Int, NEW d \in Int,
         Same(m, a, b), Same(m, c, d)
  PROVE  Same(m, a + c, b + d)
<1>1. PICK j \in Int : a = b + m * j
  BY DEF Same
<1>2. PICK k \in Int : c = d + m * k
  BY DEF Same
<1>3. PICK s \in Int : s = j + k
  OBVIOUS
<1>4. m * s = m * j + m * k /\ m * j \in Int /\ m * k \in Int
  BY <1>3
<1>5. a + c = (b + d) + m * s
  BY <1>1, <1>2, <1>4
<1> QED BY <1>5 DEF Same

LEMMA SameDifference ==
  ASSUME NEW m \in Nat \ {0}, NEW a \in Int, NEW b \in Int, NEW c \in Int, NEW d \in Int,
         Same(m, a, b), Same(m, c, d)
  PROVE  Same(m, a - c, b - d)
<1>1. PICK j \in Int : a = b + m * j
  BY DEF Same
<1>2. PICK k \in Int : c = d + m * k
  BY DEF Same
<1>3. PICK s \in Int : s = j - k
  OBVIOUS
<1>4. m * s = m * j - m * k /\ m * j \in Int /\ m * k \in Int
  BY <1>3
<1>5. a - c = (b - d) + m * s
  BY <1>1, <1>2, <1>4
<1> QED BY <1>5 DEF Same

(* ... and those less than the modulus apart are equal.                    *)
LEMMA Close ==
  ASSUME NEW m \in Nat \ {0}, NEW a \in Int, NEW b \in Int, Same(m, a, b),
         a - b < m, b - a < m
  PROVE  a = b
<1>1. PICK k \in Int : a = b + m * k
  BY DEF Same
<1>2. CASE k > 0
  <2>1. m * k >= m
    BY <1>2
  <2> QED BY <1>1, <2>1
<1>3. CASE k < 0
  <2>1. m * k <= -m
    BY <1>3
  <2> QED BY <1>1, <2>1
<1>4. CASE k = 0
  BY <1>1, <1>4
<1> QED BY <1>2, <1>3, <1>4

(* What is congruent modulo a product is congruent modulo a factor.        *)
LEMMA Coarser ==
  ASSUME NEW m \in Nat \ {0}, NEW n \in Nat \ {0}, NEW a \in Int, NEW b \in Int,
         Same(m * n, a, b)
  PROVE  Same(m, a, b)
<1>1. PICK k \in Int : a = b + (m * n) * k
  BY DEF Same
<1>2. PICK j \in Int : j = n * k
  OBVIOUS
<1>3. (m * n) * k = m * j
  BY <1>2
<1>4. a = b + m * j
  BY <1>1, <1>3
<1> QED BY <1>4 DEF Same
=============================================================================
