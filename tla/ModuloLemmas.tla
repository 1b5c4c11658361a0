---------------------------- MODULE ModuloLemmas ----------------------------
(***************************************************************************)
(* Counters of m values: what the remainders of the RTL's wrapping         *)
(* registers are, from a multiple and a rest.                              *)
(***************************************************************************)
EXTENDS Naturals, TLAPS

(* A counter of m values goes one down and an address one up.              *)
LEMMA CountsDown ==
  ASSUME NEW m \in Nat \ {0}, NEW x \in 0 .. m - 1
  PROVE  /\ (x + m - 1) % m \in 0 .. m - 1
         /\ x > 0 => (x + m - 1) % m = x - 1
  OBVIOUS

LEMMA CountsUp ==
  ASSUME NEW m \in Nat \ {0}, NEW x \in Nat
  PROVE  (x + 1) % m \in 0 .. m - 1
  OBVIOUS

(* What a remainder is, and that an address steps as the count behind it.  *)
LEMMA ModIs ==
  ASSUME NEW m \in Nat, m > 0, NEW r \in 0 .. m - 1, NEW k \in Nat, NEW x \in Nat,
         x = k * m + r
  PROVE  x % m = r
  BY SMTT(30)

LEMMA ModOf ==
  ASSUME NEW m \in Nat, m > 0, NEW x \in Nat
  PROVE  x % m \in 0 .. m - 1 /\ \E k \in Nat : x = k * m + (x % m)
<1>1. x = m * (x \div m) + (x % m)
  BY SMTT(30)
<1>2. x \div m \in Nat
  BY SMTT(30)
<1>3. x % m \in 0 .. m - 1
  BY SMTT(30)
<1> DEFINE q == x \div m
<1>4. m * q = q * m
  BY <1>2
<1>5. q \in Nat /\ x = q * m + (x % m)
  BY <1>1, <1>2, <1>4
<1> HIDE DEF q
<1> QED
  BY <1>3, <1>5

LEMMA NextRow ==
  ASSUME NEW m \in Nat, m > 0, NEW x \in Nat
  PROVE  ((x % m) + 1) % m = (x + 1) % m
<1> DEFINE r == x % m
           y == r + 1
           z == x + 1
<1>1. PICK k \in Nat : x = k * m + r
  BY ModOf
<1>2. r \in 0 .. m - 1
  BY ModOf
<1> HIDE DEF r
<1>3. y \in Nat /\ z \in Nat
  BY <1>2
<1>4. CASE y = m
  <2>1. z = (k + 1) * m + 0 /\ y = 1 * m + 0
    BY <1>1, <1>2, <1>4
  <2>2. z % m = 0 /\ y % m = 0
    <3> HIDE DEF z, y
    <3> QED
      BY <1>3, <2>1, ModIs, SMTT(30)
  <2> QED
    BY <2>2 DEF r
<1>5. CASE y # m
  <2>1. y \in 0 .. m - 1 /\ z = k * m + y /\ y = 0 * m + y
    BY <1>1, <1>2, <1>5
  <2>2. z % m = y /\ y % m = y
    <3> HIDE DEF z, y
    <3> QED
      BY <1>3, <2>1, ModIs, SMTT(30)
  <2> QED
    BY <2>2 DEF r
<1> QED
  BY <1>4, <1>5

LEMMA WrapsAround ==
  ASSUME NEW m \in Nat, m > 0, NEW x \in Nat
  PROVE  (x + m) % m = x % m
<1> DEFINE r == x % m
           z == x + m
<1>1. PICK k \in Nat : x = k * m + r
  BY ModOf
<1>2. r \in 0 .. m - 1
  BY ModOf
<1> HIDE DEF r
<1>3. z \in Nat /\ k + 1 \in Nat /\ z = (k + 1) * m + r
  BY <1>1, <1>2
<1>4. z % m = r
  <2> HIDE DEF z
  <2> QED
    BY <1>2, <1>3, ModIs, SMTT(30)
<1> QED
  BY <1>4 DEF r

LEMMA ModOfProduct ==
  ASSUME NEW m \in Nat, m > 1, NEW n \in Nat, NEW b \in Nat, b = n * m
  PROVE  b % m = 0
  BY SMTT(30)

(* How far a counter that wraps at m has come down from b to r.            *)
LEMMA DifferenceMod ==
  ASSUME NEW b \in Nat, NEW r \in Nat, r <= b, NEW m \in Nat, b < m
  PROVE  (b + m - r) % m = b - r
<1> DEFINE d == b - r
<1>1. d \in 0 .. m - 1 /\ b + m - r = d + m
  OBVIOUS
<1>2. (d + m) % m = d
  <2> HIDE DEF d
  <2> QED
    BY <1>1
<1> QED
  BY <1>1, <1>2

=============================================================================
