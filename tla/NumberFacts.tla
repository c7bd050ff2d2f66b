---------------------------- MODULE NumberFacts -----------------------------
(***************************************************************************)
(* Facts about numbers that the provers do not find by themselves: the     *)
(* least and the greatest element of a set, induction up to a bound, and   *)
(* integer division when the divisor is not a number.                      *)
(***************************************************************************)
EXTENDS Integers, FiniteSetsExt, WellFoundedInduction, TLAPS

(* Also how an induction over numbers is done here: a least counterexample.*)
LEMMA Least ==
  ASSUME NEW S \in SUBSET Nat, S # {}
  PROVE  \E x \in S : \A y \in S : x <= y
  <1>1. PICK x \in S : \A y \in S : <<y, x>> \notin OpToRel(<, Nat)
    BY WFMin, NatLessThanWellFounded, Zenon
  <1>2. x \in Nat /\ \A y \in S : y \in Nat
    OBVIOUS
  <1>3. \A y \in S : y < x => <<y, x>> \in OpToRel(<, Nat)
    BY <1>2, Zenon DEF OpToRel
  <1>4. \A y \in S : ~(y < x)
    BY <1>1, <1>3, Zenon
  <1>5. QED
    BY <1>2, <1>4

(* Induction up to a bound, for a set of numbers.                          *)
LEMMA Upwards ==
  ASSUME NEW b \in Nat, NEW G, 0 \in G, \A n \in 0 .. b - 1 : n \in G => n + 1 \in G
  PROVE  \A n \in 0 .. b : n \in G
  <1> DEFINE Bad == {n \in Nat : n <= b /\ n \notin G}
  <1>1. Bad = {}
    <2> SUFFICES ASSUME Bad # {}
                 PROVE  FALSE
      OBVIOUS
    <2>1. PICK m \in Bad : \A n \in Bad : m <= n
      BY Least
    <2>2. m - 1 \in 0 .. b - 1 /\ m - 1 \notin Bad
      BY <2>1
    <2>3. m - 1 \in G /\ m = (m - 1) + 1
      BY <2>1, <2>2
    <2>4. QED
      BY <2>1, <2>2, <2>3
  <1>2. QED
    BY <1>1

LEMMA Greatest ==
  ASSUME NEW S \in SUBSET Nat, S # {}, NEW b \in Nat, \A x \in S : x <= b
  PROVE  Max(S) \in S /\ \A x \in S : x <= Max(S)
  <1> DEFINE D == {d \in Nat : b - d \in S}
  <1>1. D # {}
    <2>1. PICK x \in S : x <= b
      OBVIOUS
    <2>2. b - x \in Nat /\ b - (b - x) = x
      BY <2>1
    <2>3. QED
      BY <2>1, <2>2
  <1>2. PICK d \in D : \A o \in D : d <= o
    BY <1>1, Least
  <1>3. b - d \in S /\ \A x \in S : b - d >= x
    <2>1. ASSUME NEW x \in S
          PROVE  b - d >= x
      <3>1. b - x \in Nat /\ b - (b - x) = x
        OBVIOUS
      <3>2. d <= b - x
        BY <1>2, <3>1
      <3>3. QED
        BY <3>2
    <2>2. QED
      BY <1>2, <2>1
  <1>4. Max(S) \in S /\ \A x \in S : Max(S) >= x
    BY <1>3 DEF Max
  <1>5. QED
    BY <1>4

LEMMA DivMod ==
  ASSUME NEW a \in Int, NEW b \in Nat \ {0}
  PROVE  /\ a \div b \in Int /\ a % b \in 0 .. b - 1
         /\ (a \div b) * b \in Int
         /\ a = (a \div b) * b + (a % b)
  <1>1. a \div b \in Int /\ a % b \in 0 .. b - 1
    OBVIOUS
  <1>2. a = b * (a \div b) + (a % b)
    OBVIOUS
  <1>3. \A x, z \in Int : x * z = z * x /\ x * z \in Int
    OBVIOUS
  <1>4. QED
    BY <1>1, <1>2, <1>3

(* Multiples of b less than b apart are equal.                             *)
LEMMA Multiples ==
  ASSUME NEW b \in Nat \ {0}, NEW p \in Int, NEW q \in Int, p < q
  PROVE  /\ p * b \in Int /\ q * b \in Int
         /\ p * b + b <= q * b
  <1>1. \A x, z \in Int : x * z \in Int
    OBVIOUS
  <1>2. q - p - 1 \in Nat
    OBVIOUS
  <1>3. \A x \in Nat : x * b \in Nat
    OBVIOUS
  <1>4. (q - p - 1) * b = q * b - p * b - b
    OBVIOUS
  <1>5. QED
    BY <1>1, <1>2, <1>3, <1>4

LEMMA Distribute ==
  ASSUME NEW x \in Int, NEW z \in Int
  PROVE  (x + 1) * z = x * z + z
  OBVIOUS

LEMMA DivModUnique ==
  ASSUME NEW b \in Nat \ {0}, NEW q \in Int, NEW t \in 0 .. b - 1
  PROVE  (q * b + t) \div b = q /\ (q * b + t) % b = t
  <1> DEFINE a == q * b + t
             d == a \div b
  <1>1. q * b \in Int /\ a \in Int
    <2>1. \A x, z \in Int : x * z \in Int
      OBVIOUS
    <2>2. QED
      BY <2>1
  <1>2. d \in Int /\ a % b \in 0 .. b - 1 /\ d * b \in Int /\ a = d * b + (a % b)
    BY <1>1, DivMod
  <1> HIDE DEF d
  <1>3. a = q * b + t
    OBVIOUS
  <1> HIDE DEF a
  <1>4. CASE d < q
    <2>1. d * b + b <= q * b
      BY <1>2, <1>4, Multiples
    <2>2. QED
      BY <1>1, <1>2, <1>3, <2>1
  <1>5. CASE q < d
    <2>1. q * b + b <= d * b
      BY <1>2, <1>5, Multiples
    <2>2. QED
      BY <1>1, <1>2, <1>3, <2>1
  <1>6. CASE d = q
    <2>1. a % b = t
      BY <1>1, <1>2, <1>3, <1>6
    <2>2. QED
      BY <2>1, <1>6 DEF a, d
  <1>7. QED
    BY <1>2, <1>4, <1>5, <1>6

LEMMA DivNat ==
  ASSUME NEW a \in Nat, NEW b \in Nat \ {0}
  PROVE  a \div b \in Nat
  <1>1. a \div b \in Int /\ (a \div b) * b \in Int /\ a % b \in 0 .. b - 1
        /\ a = (a \div b) * b + (a % b)
    BY DivMod
  <1>2. CASE a \div b < 0
    <2>1. (a \div b) * b + b <= 0 * b
      BY <1>1, <1>2, Multiples
    <2>2. QED
      BY <1>1, <2>1
  <1>3. QED
    BY <1>1, <1>2

(* Going round a ring of b places from anywhere, every place is met.       *)
LEMMA Rotates ==
  ASSUME NEW b \in Nat \ {0}, NEW h \in Nat, NEW j \in 0 .. b - 1
  PROVE  \E k \in 0 .. b - 1 : (h + k) % b = j
  <1> DEFINE q == h \div b
             r == h % b
  <1>1. q \in Int /\ r \in 0 .. b - 1 /\ q * b \in Int /\ h = q * b + r
    BY DivMod
  <1>2. (q * b + j) % b = j
    BY <1>1, DivModUnique
  <1>3. ((q + 1) * b + j) % b = j /\ (q + 1) * b = q * b + b
    <2> DEFINE p == q + 1
    <2>1. p \in Int /\ b \in Int /\ q \in Int
      BY <1>1
    <2>2. p * b = q * b + b
      BY <2>1, Distribute
    <2> HIDE DEF p
    <2>3. (p * b + j) % b = j
      BY <2>1, DivModUnique
    <2>4. QED
      BY <2>2, <2>3 DEF p
  <1> HIDE DEF q, r
  <1>4. CASE j >= r
    <2>1. j - r \in 0 .. b - 1 /\ h + (j - r) = q * b + j
      BY <1>1, <1>4
    <2>2. QED
      BY <1>2, <2>1
  <1>5. CASE j < r
    <2>1. j - r + b \in 0 .. b - 1 /\ h + (j - r + b) = (q + 1) * b + j
      BY <1>1, <1>3, <1>5
    <2>2. QED
      BY <1>3, <2>1
  <1>6. QED
    BY <1>1, <1>4, <1>5
=============================================================================
