------------------------- MODULE TrunkBudget_proofs -------------------------
(***************************************************************************)
(* Machine-checked: the sizing loop of trunk_open, for any number of       *)
(* layers, any sizes, any widened area, any budget and any bound on the    *)
(* passes.  The loop need not have converged: unless it wavers, what it    *)
(* ends on is right after every pass, because the prefix only grows and a  *)
(* slot sized for a shorter prefix also holds what remains.  And it wavers *)
(* for exactly the budgets TrunkBudget names, a window narrower than the   *)
(* part of a page the widened area leaves unused.                          *)
(***************************************************************************)
EXTENDS TrunkBudget, NumberFacts

(* The sums of a prefix.                                                   *)
Sums(m, cost, g) == g = [n \in 0 .. m |-> IF n = 0 THEN 0 ELSE g[n - 1] + cost[n - 1]]

LEMMA SumsExist ==
  ASSUME NEW cost \in [Layers -> Nat]
  PROVE  \E g : Sums(NLayers, cost, g)
  <1> DEFINE Good(m) == \E g : Sums(m, cost, g)
             Bad == {m \in Nat : m <= NLayers /\ ~Good(m)}
  <1>1. NLayers \in Nat \ {0}
    BY BudgetAssumption
  <1>2. Good(0)
    <2> DEFINE g == [n \in 0 .. 0 |-> 0]
    <2>1. Sums(0, cost, g)
      BY DEF Sums
    <2>2. QED
      BY <2>1
  <1>3. ASSUME NEW m \in Nat, m > 0, Good(m - 1)
        PROVE  Good(m)
    <2>1. PICK h : Sums(m - 1, cost, h)
      BY <1>3
    <2> DEFINE g == [n \in 0 .. m |-> IF n = m THEN h[m - 1] + cost[m - 1] ELSE h[n]]
    <2>2. ASSUME NEW n \in 0 .. m
          PROVE  g[n] = IF n = 0 THEN 0 ELSE g[n - 1] + cost[n - 1]
      <3>1. CASE n = m
        <4>1. g[n - 1] = h[m - 1]
          BY <1>3, <3>1
        <4>2. QED
          BY <1>3, <3>1, <4>1
      <3>2. CASE n # m
        <4>1. n \in 0 .. m - 1 /\ g[n] = h[n]
          BY <1>3, <3>2
        <4>2. h[n] = IF n = 0 THEN 0 ELSE h[n - 1] + cost[n - 1]
          BY <2>1, <4>1 DEF Sums
        <4>3. n # 0 => n - 1 \in 0 .. m /\ n - 1 # m
          BY <1>3, <3>2
        <4>4. QED
          BY <4>1, <4>2, <4>3
      <3>3. QED
        BY <3>1, <3>2
    <2>3. DOMAIN g = 0 .. m /\ g = [n \in 0 .. m |-> g[n]]
      OBVIOUS
    <2> HIDE DEF g
    <2>4. Sums(m, cost, g)
      BY <2>2, <2>3 DEF Sums
    <2>5. QED
      BY <2>4
  <1> HIDE DEF Good
  <1>4. Bad = {}
    <2> SUFFICES ASSUME Bad # {}
                 PROVE  FALSE
      OBVIOUS
    <2>1. PICK m \in Bad : \A n \in Bad : m <= n
      BY Least
    <2>2. m \in Nat /\ m > 0 /\ ~Good(m) /\ m - 1 \notin Bad /\ m <= NLayers
      BY <1>2, <2>1
    <2>3. Good(m - 1)
      BY <1>1, <2>2
    <2>4. QED
      BY <1>3, <2>2, <2>3
  <1>5. QED
    BY <1>1, <1>4 DEF Good

LEMMA PaidSums ==
  ASSUME NEW cost \in [Layers -> Nat]
  PROVE  /\ Paid(cost)[0] = 0
         /\ \A n \in 1 .. NLayers : Paid(cost)[n] = Paid(cost)[n - 1] + cost[n - 1]
         /\ \A n \in 0 .. NLayers : Paid(cost)[n] \in Nat
  <1> DEFINE s == Paid(cost)
             Bad == {n \in Nat : n <= NLayers /\ s[n] \notin Nat}
  <1>1. NLayers \in Nat \ {0}
    BY BudgetAssumption
  <1>2. Sums(NLayers, cost, s)
    BY SumsExist, Zenon DEF Paid, Sums
  <1> HIDE DEF s
  <1>3. /\ s[0] = 0
        /\ \A n \in 1 .. NLayers : s[n] = s[n - 1] + cost[n - 1]
    BY <1>1, <1>2 DEF Sums
  <1>4. Bad = {}
    <2> SUFFICES ASSUME Bad # {}
                 PROVE  FALSE
      OBVIOUS
    <2>1. PICK m \in Bad : \A n \in Bad : m <= n
      BY Least
    <2>2. m \in Nat /\ m > 0 /\ s[m] \notin Nat /\ m - 1 \notin Bad /\ m <= NLayers
      BY <1>3, <2>1
    <2>3. s[m - 1] \in Nat /\ cost[m - 1] \in Nat
      BY <1>1, <2>2 DEF Layers
    <2>4. s[m] = s[m - 1] + cost[m - 1]
      BY <1>1, <1>3, <2>2
    <2>5. QED
      BY <2>2, <2>3, <2>4
  <1>5. QED
    BY <1>1, <1>3, <1>4 DEF s

(* A longer prefix costs no less, and at least what any layer of it costs. *)
LEMMA PaidGrows ==
  ASSUME NEW cost \in [Layers -> Nat], NEW n \in 0 .. NLayers
  PROVE  \A m \in n .. NLayers : /\ Paid(cost)[n] <= Paid(cost)[m]
                                 /\ m > n => cost[n] <= Paid(cost)[m]
  <1> DEFINE s == Paid(cost)
             Holds(m) == s[n] <= s[m] /\ (m > n => cost[n] <= s[m])
             Bad == {m \in Nat : m \in n .. NLayers /\ ~Holds(m)}
  <1>1. NLayers \in Nat \ {0} /\ n \in Nat
    BY BudgetAssumption
  <1>2. /\ \A m \in 1 .. NLayers : s[m] = s[m - 1] + cost[m - 1]
        /\ \A m \in 0 .. NLayers : s[m] \in Nat
    BY PaidSums
  <1> HIDE DEF s
  <1>3. Holds(n)
    BY <1>1, <1>2
  <1>4. ASSUME NEW m \in n + 1 .. NLayers, Holds(m - 1)
        PROVE  Holds(m)
    <2>1. /\ s[m] = s[m - 1] + cost[m - 1] /\ s[m - 1] \in Nat /\ s[n] \in Nat
          /\ cost[m - 1] \in Nat /\ cost[n] \in Nat
      BY <1>1, <1>2 DEF Layers
    <2>2. CASE m - 1 = n
      BY <1>4, <2>1, <2>2
    <2>3. CASE m - 1 > n
      BY <1>4, <2>1, <2>3
    <2>4. QED
      BY <1>1, <2>2, <2>3
  <1> HIDE DEF Holds
  <1>5. Bad = {}
    <2> SUFFICES ASSUME Bad # {}
                 PROVE  FALSE
      OBVIOUS
    <2>1. PICK m \in Bad : \A o \in Bad : m <= o
      BY Least
    <2>2. m \in n + 1 .. NLayers /\ ~Holds(m) /\ m - 1 \notin Bad
      BY <1>1, <1>3, <2>1
    <2>3. Holds(m - 1)
      BY <1>1, <2>2
    <2>4. QED
      BY <1>4, <2>2, <2>3
  <1>6. \A m \in n .. NLayers : Holds(m)
    BY <1>1, <1>5
  <1>7. QED
    BY <1>6 DEF s, Holds

-----------------------------------------------------------------------------
(* Sizes.                                                                  *)

(* Rounding up to whole units adds less than a unit.                       *)
LEMMA UnitsUp ==
  ASSUME NEW u \in Nat \ {0}, NEW n \in Nat
  PROVE  \E q \in Nat : /\ q = (n + u - 1) \div u
                         /\ u * q = q * u /\ q * u \in Nat
                         /\ n <= q * u /\ q * u <= n + u - 1
  <1> DEFINE a == n + u - 1
             q == a \div u
  <1>1. a \in Nat
    OBVIOUS
  <1> HIDE DEF a
  <1>2. q \in Nat /\ q * u \in Int /\ a % u \in 0 .. u - 1 /\ a = q * u + (a % u)
    <2>1. q \in Nat
      BY <1>1, DivNat
    <2>2. q * u \in Int /\ a % u \in 0 .. u - 1 /\ a = q * u + (a % u)
      BY <1>1, DivMod
    <2>3. QED
      BY <2>1, <2>2
  <1>3. \A x \in Nat : x * u = u * x /\ x * u \in Nat
    OBVIOUS
  <1> HIDE DEF q
  <1>4. a = n + u - 1
    BY DEF a
  <1>5. n <= q * u /\ q * u <= n + u - 1
    BY <1>2, <1>4
  <1>6. q = (n + u - 1) \div u
    BY <1>4 DEF q
  <1>7. QED
    BY <1>2, <1>3, <1>5, <1>6

LEMMA AllocDirectAdds ==
  ASSUME NEW n \in Nat
  PROVE  AllocDirect(n) - n \in 0 .. Huge - 1 /\ AllocDirect(n) \in Nat
  <1>1. Huge \in Nat \ {0}
    BY BudgetAssumption
  <1>2. PICK q \in Nat : /\ q = (n + Huge - 1) \div Huge
                         /\ Huge * q = q * Huge /\ q * Huge \in Nat
                         /\ n <= q * Huge /\ q * Huge <= n + Huge - 1
    BY <1>1, UnitsUp
  <1>3. AllocDirect(n) = q * Huge
    BY <1>2 DEF AllocDirect
  <1> HIDE DEF AllocDirect
  <1>4. QED
    BY <1>1, <1>2, <1>3

LEMMA RoundUpAdds ==
  ASSUME NEW n \in Nat
  PROVE  /\ RoundUp(n) \in Nat /\ RoundUp(n) % Page = 0
         /\ n <= RoundUp(n) /\ RoundUp(n) <= n + Page - 1
  <1>1. Page \in Nat \ {0}
    BY BudgetAssumption
  <1>2. PICK q \in Nat : /\ q = (n + Page - 1) \div Page
                         /\ Page * q = q * Page /\ q * Page \in Nat
                         /\ n <= q * Page /\ q * Page <= n + Page - 1
    BY <1>1, UnitsUp
  <1>3. RoundUp(n) = q * Page
    BY <1>2 DEF RoundUp
  <1>4. (q * Page + 0) % Page = 0
    <2>1. 0 \in 0 .. Page - 1
      BY <1>1
    <2>2. QED
      BY <1>1, <2>1, DivModUnique
  <1>5. q * Page + 0 = q * Page
    BY <1>2
  <1> HIDE DEF RoundUp
  <1>6. QED
    BY <1>1, <1>2, <1>3, <1>4, <1>5

(* Different numbers of whole pages are a page apart.                      *)
LEMMA PagesApart ==
  ASSUME NEW n \in Nat, n % Page = 0, NEW m \in Nat, m % Page = 0, n < m
  PROVE  n + Page <= m
  <1> DEFINE q == n \div Page
             r == m \div Page
  <1>1. Page \in Nat \ {0}
    BY BudgetAssumption
  <1>2. q \in Int /\ q * Page \in Int /\ n = q * Page
    BY <1>1, DivMod
  <1>3. r \in Int /\ r * Page \in Int /\ m = r * Page
    BY <1>1, DivMod
  <1> HIDE DEF q, r
  <1>4. CASE r < q
    <2>1. r * Page + Page <= q * Page
      BY <1>1, <1>2, <1>3, <1>4, Multiples
    <2>2. QED
      BY <1>1, <1>2, <1>3, <2>1
  <1>5. CASE q < r
    <2>1. q * Page + Page <= r * Page
      BY <1>1, <1>2, <1>3, <1>5, Multiples
    <2>2. QED
      BY <1>1, <1>2, <1>3, <2>1
  <1>6. CASE q = r
    BY <1>2, <1>3, <1>6
  <1>7. QED
    BY <1>2, <1>3, <1>4, <1>5, <1>6

LEMMA SumPaged ==
  ASSUME NEW n \in Nat, n % Page = 0, NEW m \in Nat, m % Page = 0
  PROVE  (n + m) % Page = 0
  <1> DEFINE q == n \div Page
             r == m \div Page
  <1>1. Page \in Nat \ {0}
    BY BudgetAssumption
  <1>2. q \in Int /\ q * Page \in Int /\ n = q * Page
    BY <1>1, DivMod
  <1>3. r \in Int /\ r * Page \in Int /\ m = r * Page
    BY <1>1, DivMod
  <1> HIDE DEF q, r
  <1>4. n + m = (q + r) * Page + 0
    <2>1. \A x, y, z \in Int : (x + y) * z = x * z + y * z
      OBVIOUS
    <2>2. QED
      BY <1>1, <1>2, <1>3, <2>1
  <1>5. QED
    BY <1>1, <1>2, <1>3, <1>4, DivModUnique

(* Whole pages in front of a number stay out of its rounding.              *)
LEMMA RoundUpSum ==
  ASSUME NEW n \in Nat, n % Page = 0, NEW m \in Nat
  PROVE  RoundUp(n + m) = n + RoundUp(m)
  <1>1. Page \in Nat \ {0}
    BY BudgetAssumption
  <1>2. n + m \in Nat
    OBVIOUS
  <1>3. /\ RoundUp(n + m) \in Nat /\ RoundUp(n + m) % Page = 0
        /\ n + m <= RoundUp(n + m) /\ RoundUp(n + m) <= n + m + Page - 1
    BY <1>2, RoundUpAdds
  <1>4. /\ RoundUp(m) \in Nat /\ RoundUp(m) % Page = 0
        /\ m <= RoundUp(m) /\ RoundUp(m) <= m + Page - 1
    BY RoundUpAdds
  <1>5. (n + RoundUp(m)) % Page = 0
    <2> DEFINE r == RoundUp(m)
    <2>1. r \in Nat /\ r % Page = 0
      BY <1>4
    <2> HIDE DEF r
    <2>2. (n + r) % Page = 0
      BY <2>1, SumPaged
    <2>3. QED
      BY <2>2 DEF r
  <1> DEFINE a == RoundUp(n + m)
             b == n + RoundUp(m)
  <1>6. /\ a \in Nat /\ b \in Nat /\ a % Page = 0 /\ b % Page = 0
        /\ a < b + Page /\ b < a + Page
    BY <1>1, <1>3, <1>4, <1>5
  <1> HIDE DEF a, b
  <1>7. ~(a < b)
    <2>1. a < b => a + Page <= b
      BY <1>6, PagesApart
    <2>2. QED
      BY <1>1, <1>6, <2>1
  <1>8. ~(b < a)
    <2>1. b < a => b + Page <= a
      BY <1>6, PagesApart
    <2>2. QED
      BY <1>1, <1>6, <2>1
  <1>9. QED
    BY <1>6, <1>7, <1>8 DEF a, b

LEMMA RoundUpPaged ==
  ASSUME NEW n \in Nat, n % Page = 0
  PROVE  RoundUp(n) = n
  <1>1. Page \in Nat \ {0}
    BY BudgetAssumption
  <1>2. /\ RoundUp(n) \in Nat /\ RoundUp(n) % Page = 0
        /\ n <= RoundUp(n) /\ RoundUp(n) < n + Page
    BY <1>1, RoundUpAdds
  <1>3. ~(n < RoundUp(n))
    BY <1>1, <1>2, PagesApart
  <1>4. QED
    BY <1>2, <1>3

Inputs == /\ nbytes \in [Layers -> RunSizes]
          /\ widen \in WidenSizes
          /\ budget \in Budgets

(* The widened area of a slot: whole pages, less than one of them unused.  *)
W == RoundUp(widen)

LEMMA InputSizes ==
  ASSUME Inputs
  PROVE  /\ NLayers \in Nat \ {0} /\ Page \in Nat \ {0}
         /\ widen \in Nat /\ budget \in Nat
         /\ W \in Nat /\ widen <= W /\ W < widen + Page
         /\ \A i \in Layers : /\ nbytes[i] \in Nat /\ nbytes[i] % Page = 0
                              /\ nbytes[i] >= Page
                              /\ RoundUp(nbytes[i]) = nbytes[i]
         /\ PinCost \in [Layers -> Nat]
         /\ \A i \in Layers : PinCost[i] = nbytes[i] + widen
  <1>1. /\ NLayers \in Nat \ {0} /\ Page \in Nat \ {0}
        /\ widen \in Nat /\ budget \in Nat
        /\ \A i \in Layers : nbytes[i] \in Nat \ {0} /\ nbytes[i] % Page = 0
    BY BudgetAssumption DEF Inputs
  <1>2. W \in Nat /\ widen <= W /\ W < widen + Page
    BY <1>1, RoundUpAdds DEF W
  <1>3. \A i \in Layers : RoundUp(nbytes[i]) = nbytes[i]
    BY <1>1, RoundUpPaged
  <1>4. ASSUME NEW i \in Layers
        PROVE  nbytes[i] >= Page
    <2>1. 0 % Page = 0
      <3>1. 0 * Page = 0 /\ 0 \in 0 .. Page - 1
        BY <1>1
      <3>2. (0 * Page + 0) % Page = 0
        BY <1>1, <3>1, DivModUnique
      <3>3. QED
        BY <3>1, <3>2
    <2>2. 0 + Page <= nbytes[i]
      BY <1>1, <2>1, PagesApart
    <2>3. QED
      BY <1>1, <2>2
  <1>5. /\ PinCost \in [Layers -> Nat]
        /\ \A i \in Layers : PinCost[i] = nbytes[i] + widen
    BY <1>1 DEF PinCost
  <1>6. QED
    BY <1>1, <1>2, <1>3, <1>4, <1>5

(* The largest run of n.. is one of them and no smaller than any of them;  *)
(* with nothing left to stream the slot is that of the last layer.         *)
LEMMA LargestRun ==
  ASSUME Inputs, NEW n \in 0 .. NLayers
  PROVE  /\ Largest(n) \in Nat /\ Largest(n) % Page = 0
         /\ \A i \in n .. NLayers - 1 : nbytes[i] <= Largest(n)
         /\ n < NLayers => \E i \in n .. NLayers - 1 : Largest(n) = nbytes[i]
         /\ n = NLayers => Largest(n) = nbytes[NLayers - 1]
  <1>1. /\ NLayers \in Nat \ {0} /\ n \in Nat
        /\ \A i \in Layers : nbytes[i] \in Nat \ {0} /\ nbytes[i] % Page = 0
    BY InputSizes
  <1>2. CASE n = NLayers
    <2>1. Largest(n) = nbytes[NLayers - 1]
      BY <1>2 DEF Largest
    <2>2. NLayers - 1 \in Layers /\ n .. NLayers - 1 = {}
      BY <1>1, <1>2 DEF Layers
    <2>3. QED
      BY <1>1, <1>2, <2>1, <2>2
  <1>3. CASE n # NLayers
    <2> DEFINE S == {nbytes[i] : i \in n .. NLayers - 1}
               b == Paid(PinCost)[NLayers]
    <2>1. n .. NLayers - 1 \subseteq Layers /\ n \in n .. NLayers - 1
      BY <1>1, <1>3 DEF Layers
    <2>2. S \in SUBSET Nat /\ S # {}
      BY <1>1, <2>1
    <2>3. PinCost \in [Layers -> Nat] /\ widen \in Nat
      BY InputSizes
    <2>4. b \in Nat
      BY <1>1, <2>3, PaidSums
    <2>5. ASSUME NEW i \in n .. NLayers - 1
          PROVE  nbytes[i] <= b
      <3>1. i \in 0 .. NLayers /\ NLayers \in i .. NLayers /\ NLayers > i /\ i \in Layers
        BY <1>1, <2>1
      <3>2. PinCost[i] <= b
        BY <2>3, <3>1, PaidGrows
      <3>3. PinCost[i] = nbytes[i] + widen
        BY <3>1 DEF PinCost
      <3>4. QED
        BY <1>1, <2>3, <2>4, <3>1, <3>2, <3>3
    <2> HIDE DEF b
    <2>6. Max(S) \in S /\ \A x \in S : x <= Max(S)
      <3>1. \A x \in S : x <= b
        BY <2>5
      <3> HIDE DEF S
      <3>2. QED
        BY <2>2, <2>4, <3>1, Greatest
    <2>7. Largest(n) = Max(S)
      BY <1>3 DEF Largest
    <2>8. PICK i \in n .. NLayers - 1 : Max(S) = nbytes[i]
      BY <2>6
    <2>9. QED
      BY <1>1, <1>3, <2>1, <2>6, <2>7, <2>8
  <1>4. QED
    BY <1>2, <1>3

(* A slot is a largest run and the widened area: runs are whole pages.  It *)
(* only shrinks as the prefix grows.                                       *)
LEMMA SlotSizes ==
  ASSUME Inputs, NEW n \in 0 .. NLayers
  PROVE  SlotFor(n) = Largest(n) + W /\ SlotFor(n) \in Nat
  <1>1. Largest(n) \in Nat /\ Largest(n) % Page = 0
    BY LargestRun
  <1>2. widen \in Nat /\ W \in Nat
    BY InputSizes
  <1>3. RoundUp(Largest(n)) = Largest(n)
    BY <1>1, RoundUpPaged
  <1>4. RoundUp(Largest(n) + widen) = Largest(n) + W
    BY <1>1, <1>2, RoundUpSum DEF W
  <1>5. QED
    BY <1>1, <1>2, <1>3, <1>4 DEF SlotFor

LEMMA SlotShrinks ==
  ASSUME Inputs, NEW p \in 0 .. NLayers, NEW n \in p .. NLayers
  PROVE  SlotFor(n) <= SlotFor(p)
  <1>1. NLayers \in Nat \ {0} /\ n \in 0 .. NLayers /\ W \in Nat
    BY InputSizes
  <1>2. Largest(n) \in Nat /\ Largest(p) \in Nat
    BY <1>1, LargestRun
  <1>3. Largest(n) <= Largest(p)
    <2>1. CASE p = NLayers
      BY <1>1, <1>2, <2>1
    <2>2. CASE p < NLayers /\ n = NLayers
      <3>1. Largest(n) = nbytes[NLayers - 1]
        BY <1>1, <2>2, LargestRun
      <3>2. NLayers - 1 \in p .. NLayers - 1
        BY <1>1, <2>2
      <3>3. QED
        BY <3>1, <3>2, LargestRun
    <2>3. CASE n < NLayers
      <3>1. PICK i \in n .. NLayers - 1 : Largest(n) = nbytes[i]
        BY <1>1, <2>3, LargestRun
      <3>2. i \in p .. NLayers - 1
        BY <1>1, <3>1
      <3>3. QED
        BY <3>1, <3>2, LargestRun
    <2>4. QED
      BY <1>1, <2>1, <2>2, <2>3
  <1>4. SlotFor(n) = Largest(n) + W /\ SlotFor(p) = Largest(p) + W
    BY <1>1, SlotSizes
  <1>5. QED
    BY <1>1, <1>2, <1>3, <1>4

(* The pinned prefix is the longest one that is paid for.                  *)
LEMMA LongestPrefix ==
  ASSUME Inputs, NEW sp \in Nat
  PROVE  /\ PinsFor(sp) \in 0 .. NLayers
         /\ PinsFor(sp) > 0 => sp + Need(PinsFor(sp)) <= budget
         /\ \A n \in 1 .. NLayers : sp + Need(n) <= budget => n <= PinsFor(sp)
  <1> DEFINE S == {0} \cup {n \in 1 .. NLayers : sp + Need(n) <= budget}
  <1>1. NLayers \in Nat \ {0}
    BY BudgetAssumption
  <1>2. S \in SUBSET Nat /\ S # {} /\ \A x \in S : x <= NLayers
    BY <1>1
  <1>3. PinsFor(sp) = Max(S)
    BY DEF PinsFor
  <1>4. Max(S) \in S /\ \A x \in S : x <= Max(S)
    <2> HIDE DEF S
    <2>1. QED
      BY <1>1, <1>2, Greatest
  <1>5. QED
    BY <1>1, <1>3, <1>4

LEMMA MorePins ==
  ASSUME Inputs, NEW sp \in Nat, NEW tp \in Nat, tp <= sp
  PROVE  PinsFor(sp) <= PinsFor(tp)
  <1>1. NLayers \in Nat \ {0} /\ budget \in Nat /\ PinCost \in [Layers -> Nat]
    BY InputSizes
  <1>2. PinsFor(sp) \in 0 .. NLayers /\ PinsFor(tp) \in 0 .. NLayers
    BY LongestPrefix
  <1>3. CASE PinsFor(sp) = 0
    BY <1>2, <1>3
  <1>4. CASE PinsFor(sp) > 0
    <2>1. Need(PinsFor(sp)) \in Nat
      BY <1>1, <1>2, PaidSums DEF Need
    <2>2. sp + Need(PinsFor(sp)) <= budget
      BY <1>4, LongestPrefix
    <2>3. tp + Need(PinsFor(sp)) <= budget
      BY <1>1, <2>1, <2>2
    <2>4. QED
      BY <1>1, <1>2, <1>4, <2>3, LongestPrefix
  <1>5. QED
    BY <1>2, <1>3, <1>4
-----------------------------------------------------------------------------
(* The inductive invariant: after a pass the slots are those of some       *)
(* prefix, no longer than the pinned one unless the loop wavers, and the   *)
(* pinned prefix is the longest the budget pays for next to that ring.     *)
SizedFor(p) == /\ slot_bytes = SlotFor(p)
               /\ nslot = RingFor(slot_bytes)
               /\ npin = PinsFor(nslot * slot_bytes)
               /\ spent = nslot * slot_bytes + Need(npin)

Sizing == /\ Inputs
          /\ pass \in Nat /\ npin \in 0 .. NLayers
          /\ pass = 0 => npin = 0 /\ state = "sizing"
          /\ pass > 0 => \E p \in 0 .. NLayers : SizedFor(p) /\ (~Wavers => p <= npin)

LEMMA Ring ==
  ASSUME Inputs, NEW rs \in Nat
  PROVE  /\ RingFor(rs) * rs \in Nat
         /\ 2 * rs <= budget => RingFor(rs) = 2 /\ RingFor(rs) * rs = 2 * rs
         /\ 2 * rs > budget => RingFor(rs) = 1 /\ RingFor(rs) * rs = rs
  <1>1. budget \in Nat
    BY InputSizes
  <1>2. CASE 2 * rs <= budget
    <2>1. RingFor(rs) = 2
      BY <1>2 DEF RingFor, RING_WANT
    <2>2. QED
      BY <1>1, <1>2, <2>1
  <1>3. CASE 2 * rs > budget
    <2>1. RingFor(rs) = 1
      BY <1>1, <1>3 DEF RingFor, RING_WANT
    <2>2. QED
      BY <1>1, <1>3, <2>1
  <1>4. QED
    BY <1>1, <1>2, <1>3

(* Two pinned layers take at least a page more than either of them.        *)
LEMMA TwoPins ==
  ASSUME Inputs, NEW n \in 2 .. NLayers, NEW i \in 0 .. n - 1
  PROVE  PinCost[i] + Page <= Need(n)
  <1>1. /\ NLayers \in Nat /\ Page \in Nat /\ widen \in Nat
        /\ PinCost \in [Layers -> Nat]
        /\ \A j \in Layers : PinCost[j] = nbytes[j] + widen /\ nbytes[j] >= Page
                             /\ nbytes[j] \in Nat
    BY InputSizes
  <1>2. /\ Paid(PinCost)[0] = 0
        /\ \A m \in 1 .. NLayers : Paid(PinCost)[m] = Paid(PinCost)[m - 1] + PinCost[m - 1]
        /\ \A m \in 0 .. NLayers : Paid(PinCost)[m] \in Nat
    BY <1>1, PaidSums
  <1>3. i + 1 \in 1 .. NLayers /\ i \in 0 .. NLayers /\ n \in 0 .. NLayers /\ i \in Layers
    BY <1>1 DEF Layers
  <1>4. n \in i + 1 .. NLayers /\ i + 1 \in 0 .. NLayers
    BY <1>1, <1>3
  <1>5. Paid(PinCost)[i + 1] <= Paid(PinCost)[n]
    BY <1>1, <1>4, PaidGrows
  <1>6. Paid(PinCost)[i + 1] = Paid(PinCost)[i] + PinCost[i]
    BY <1>2, <1>3
  <1>7. CASE i = 0
    <2>1. 2 \in 0 .. NLayers /\ n \in 2 .. NLayers /\ 1 \in Layers /\ 0 \in Layers
      BY <1>1 DEF Layers
    <2>2. Paid(PinCost)[2] <= Paid(PinCost)[n]
      BY <1>1, <2>1, PaidGrows
    <2>3. Paid(PinCost)[2] = Paid(PinCost)[1] + PinCost[1]
      BY <1>2, <2>1
    <2>4. Paid(PinCost)[1] = PinCost[0]
      BY <1>1, <1>2, <1>6, <1>7, <2>1
    <2>5. PinCost[1] >= Page /\ PinCost[1] \in Nat /\ PinCost[0] \in Nat
      BY <1>1, <2>1
    <2>6. Paid(PinCost)[n] \in Nat
      BY <1>2, <1>3
    <2>7. QED
      BY <1>1, <1>7, <2>2, <2>3, <2>4, <2>5, <2>6 DEF Need
  <1>8. CASE i > 0
    <2>1. 0 \in 0 .. NLayers /\ i \in 0 .. NLayers /\ 0 \in Layers /\ i > 0
      BY <1>1, <1>3, <1>8 DEF Layers
    <2>2. PinCost[0] <= Paid(PinCost)[i]
      BY <1>1, <2>1, PaidGrows
    <2>3. PinCost[0] >= Page /\ PinCost[0] \in Nat /\ PinCost[i] \in Nat
      BY <1>1, <1>3, <2>1
    <2>4. Paid(PinCost)[i] \in Nat /\ Paid(PinCost)[n] \in Nat
      BY <1>2, <1>3
    <2>5. QED
      BY <1>1, <1>5, <1>6, <2>2, <2>3, <2>4 DEF Need
  <1>9. QED
    BY <1>7, <1>8

(* With one slot and a pinned layer, all pins together take less than a    *)
(* slot.  So the layer the slot was sized for is not among them, and the   *)
(* next pass asks for the same slot; or it is layer 0, the only pin, and   *)
(* unless the loop wavers it stays pinned next to two smaller slots.       *)
LEMMA OneSlotStays ==
  ASSUME Inputs, ~Wavers, npin \in 1 .. NLayers,
         NEW p \in 0 .. npin, SizedFor(p), 2 * slot_bytes > budget
  PROVE  \/ SlotFor(npin) = slot_bytes
         \/ /\ npin = 1 /\ SlotFor(npin) \in Nat
            /\ 2 * SlotFor(npin) + Need(npin) <= budget
  <1>1. /\ NLayers \in Nat \ {0} /\ budget \in Nat /\ widen \in Nat /\ Page \in Nat \ {0}
        /\ W \in Nat /\ widen <= W /\ W < widen + Page
        /\ PinCost \in [Layers -> Nat]
        /\ \A i \in Layers : nbytes[i] \in Nat /\ PinCost[i] = nbytes[i] + widen
    BY InputSizes
  <1>2. p \in 0 .. NLayers /\ npin \in 0 .. NLayers /\ npin \in p .. NLayers /\ npin > 0
    BY <1>1
  <1>3. slot_bytes = Largest(p) + W /\ slot_bytes \in Nat /\ Largest(p) \in Nat
    BY <1>2, SlotSizes, LargestRun DEF SizedFor
  <1>4. slot_bytes + Need(npin) <= budget /\ Need(npin) \in Nat
    <2>1. nslot * slot_bytes = slot_bytes
      BY <1>3, Ring DEF SizedFor
    <2>2. npin = PinsFor(slot_bytes)
      BY <2>1 DEF SizedFor
    <2>3. slot_bytes + Need(PinsFor(slot_bytes)) <= budget
      BY <1>2, <1>3, <2>2, LongestPrefix
    <2>4. Need(npin) \in Nat
      BY <1>1, <1>2, PaidSums DEF Need
    <2>5. QED
      BY <2>2, <2>3, <2>4
  <1>5. Need(npin) < Largest(p) + W
    BY <1>1, <1>3, <1>4
  <1>6. CASE p = NLayers
    <2>1. npin = p
      BY <1>1, <1>2, <1>6
    <2>2. QED
      BY <2>1 DEF SizedFor
  <1>7. CASE p < NLayers
    <2>1. PICK i \in p .. NLayers - 1 : Largest(p) = nbytes[i]
      BY <1>2, <1>7, LargestRun
    <2>2. i \in Layers /\ i \in 0 .. NLayers /\ i \in Nat
      BY <1>1, <1>2, <2>1 DEF Layers
    <2>3. SlotFor(npin) = Largest(npin) + W /\ SlotFor(npin) <= SlotFor(p)
          /\ SlotFor(npin) \in Nat /\ Largest(npin) \in Nat
      BY <1>2, SlotSizes, SlotShrinks, LargestRun
    <2>4. CASE i >= npin
      <3>1. i \in npin .. NLayers - 1
        BY <1>1, <1>2, <2>1, <2>2, <2>4
      <3>2. Largest(npin) >= Largest(p)
        BY <1>2, <2>1, <3>1, LargestRun
      <3>3. QED
        BY <1>1, <1>3, <2>3, <3>2 DEF SizedFor
    <2>5. CASE i < npin
      <3>1. npin = 1
        <4>1. SUFFICES ASSUME npin # 1
                       PROVE  FALSE
          OBVIOUS
        <4>2. npin \in 2 .. NLayers /\ i \in 0 .. npin - 1
          BY <1>1, <1>2, <2>2, <2>5, <4>1
        <4>3. PinCost[i] + Page <= Need(npin)
          BY <4>2, TwoPins
        <4>4. PinCost[i] = Largest(p) + widen
          BY <1>1, <2>1, <2>2
        <4>5. QED
          BY <1>1, <1>3, <1>4, <1>5, <4>3, <4>4
      <3>2. i = 0 /\ p = 0 /\ 0 \in Layers /\ 0 \in 0 .. NLayers /\ 1 \in 0 .. NLayers
        BY <1>1, <1>2, <2>1, <2>2, <2>5, <3>1
      <3>3. Need(npin) = PinCost[0] /\ PinCost[0] = Largest(0) + widen
        <4>1. Need(1) = Paid(PinCost)[0] + PinCost[0] /\ Paid(PinCost)[0] = 0
          BY <1>1, <3>2, PaidSums DEF Need
        <4>2. PinCost[0] = nbytes[0] + widen
          BY <1>1, <3>2
        <4>3. QED
          BY <1>1, <1>3, <2>1, <3>1, <3>2, <4>1, <4>2
      <3>4. CASE Largest(1) = Largest(0)
        BY <1>3, <2>3, <3>1, <3>2, <3>4
      <3>5. CASE Largest(1) # Largest(0)
        <4>1. Largest(1) <= Largest(0)
          BY <1>1, <1>3, <2>3, <3>1, <3>2, SlotSizes
        <4>2. Largest(1) % Page = 0 /\ Largest(0) % Page = 0
          BY <3>2, LargestRun
        <4>3. Largest(1) + Page <= Largest(0)
          BY <1>3, <2>3, <3>1, <3>2, <3>5, <4>1, <4>2, PagesApart
        <4>4. SlotFor(0) = Largest(0) + W /\ SlotFor(1) = Largest(1) + W
          BY <3>2, SlotSizes
        <4>5. slot_bytes = SlotFor(0)
          BY <3>2 DEF SizedFor
        <4>6. SlotFor(0) + PinCost[0] <= budget /\ budget < 2 * SlotFor(0)
          BY <1>1, <1>3, <1>4, <3>3, <4>5
        <4>7. 2 * SlotFor(1) <= budget
          BY <1>1, <1>3, <2>3, <3>1, <3>2, <3>3, <4>3, <4>4, <4>6
        <4>8. ~(budget < 2 * SlotFor(1) + PinCost[0])
          BY <4>6, <4>7 DEF Wavers, RING_WANT
        <4>9. QED
          BY <1>1, <1>4, <2>3, <3>1, <3>3, <4>8
      <3>6. QED
        BY <3>4, <3>5
    <2>6. QED
      BY <1>2, <2>2, <2>4, <2>5
  <1>8. QED
    BY <1>1, <1>2, <1>6, <1>7

(* The inputs do not change, and with them what is computed of them alone. *)
LEMMA SameSizes ==
  ASSUME UNCHANGED <<nbytes, widen, budget>>
  PROVE  /\ Inputs' = Inputs /\ Wavers' = Wavers
         /\ SlotFor(0)' = SlotFor(0) /\ SlotFor(1)' = SlotFor(1)
         /\ \A p : SlotFor(p)' = SlotFor(p)
  <1>1. \A p : SlotFor(p)' = SlotFor(p)
    <2>1. \A p : Largest(p)' = Largest(p)
      BY DEF Largest
    <2>2. QED
      BY <2>1 DEF SlotFor
  <1>2. SlotFor(0)' = SlotFor(0) /\ SlotFor(1)' = SlotFor(1)
    BY DEF SlotFor, Largest
  <1>3. PinCost' = PinCost
    BY DEF PinCost
  <1>4. QED
    BY <1>1, <1>2, <1>3 DEF Inputs, Wavers

LEMMA PassSizes ==
  ASSUME Sizing, Pass
  PROVE  /\ Sizing'
         /\ pass > 0 /\ ~Wavers => npin' >= npin /\ slot_bytes' <= slot_bytes
  <1> DEFINE rs == SlotFor(npin)
             sp == RingFor(rs) * rs
  <1>1. /\ Inputs /\ pass \in Nat /\ npin \in 0 .. NLayers
        /\ pass > 0 => \E p \in 0 .. NLayers : SizedFor(p) /\ (~Wavers => p <= npin)
    BY DEF Sizing
  <1>2. rs \in Nat /\ NLayers \in Nat \ {0} /\ budget \in Nat
    BY <1>1, SlotSizes, InputSizes
  <1>3. /\ pass' = pass + 1 /\ nslot' = RingFor(rs) /\ slot_bytes' = rs
        /\ npin' = PinsFor(sp) /\ spent' = sp + Need(PinsFor(sp))
        /\ nbytes' = nbytes /\ widen' = widen /\ budget' = budget
    BY DEF Pass
  <1>4. sp \in Nat
    BY <1>1, <1>2, Ring
  <1>5. PinsFor(sp) \in 0 .. NLayers
    BY <1>1, <1>4, LongestPrefix
  <1>6. ASSUME pass > 0, ~Wavers
        PROVE  PinsFor(sp) >= npin /\ rs <= slot_bytes
    <2>1. PICK p \in 0 .. npin : SizedFor(p)
      BY <1>1, <1>2, <1>6
    <2>2. p \in 0 .. NLayers /\ npin \in p .. NLayers
      BY <1>1, <1>2
    <2>3. slot_bytes \in Nat /\ rs <= slot_bytes
      BY <1>1, <2>1, <2>2, SlotSizes, SlotShrinks DEF SizedFor
    <2>4. nslot * slot_bytes \in Nat /\ npin = PinsFor(nslot * slot_bytes)
      BY <1>1, <2>1, <2>3, Ring DEF SizedFor
    <2>5. CASE 2 * slot_bytes <= budget
      <3>1. nslot * slot_bytes = 2 * slot_bytes
        BY <1>1, <2>1, <2>3, <2>5, Ring DEF SizedFor
      <3>2. 2 * rs <= budget
        BY <1>2, <2>3, <2>5
      <3>3. sp = 2 * rs
        BY <1>1, <1>2, <3>2, Ring
      <3>4. sp <= nslot * slot_bytes
        BY <1>2, <2>3, <3>1, <3>3
      <3> HIDE DEF sp, rs
      <3>5. PinsFor(nslot * slot_bytes) <= PinsFor(sp)
        BY <1>1, <1>4, <2>4, <3>4, MorePins
      <3>6. QED
        BY <1>1, <1>5, <2>3, <2>4, <3>5
    <2>6. CASE 2 * slot_bytes > budget /\ npin > 0
      <3>1. npin \in 1 .. NLayers
        BY <1>1, <1>2, <2>6
      <3>2. \/ SlotFor(npin) = slot_bytes
            \/ /\ npin = 1 /\ SlotFor(npin) \in Nat
               /\ 2 * SlotFor(npin) + Need(npin) <= budget
        BY <1>1, <1>6, <2>1, <2>6, <3>1, OneSlotStays
      <3>3. CASE rs = slot_bytes
        <4>1. sp = nslot * slot_bytes
          BY <2>1, <3>3 DEF SizedFor
        <4> HIDE DEF sp, rs
        <4>2. QED
          BY <1>1, <2>3, <2>4, <4>1
      <3>4. CASE 2 * rs + Need(npin) <= budget
        <4>1. PinCost \in [Layers -> Nat]
          BY <1>1, InputSizes
        <4>2. Need(npin) \in Nat
          BY <1>1, <4>1, PaidSums DEF Need
        <4>3. 2 * rs <= budget
          BY <1>2, <3>4, <4>2
        <4>4. sp = 2 * rs
          BY <1>1, <1>2, <4>3, Ring
        <4>5. sp + Need(npin) <= budget
          BY <3>4, <4>4
        <4> HIDE DEF sp, rs
        <4>6. npin <= PinsFor(sp)
          BY <1>1, <1>4, <3>1, <4>5, LongestPrefix
        <4>7. QED
          BY <1>1, <1>5, <2>3, <4>6
      <3>5. QED
        BY <3>2, <3>3, <3>4
    <2>7. CASE npin = 0
      BY <1>5, <2>3, <2>7
    <2>8. QED
      BY <1>1, <1>2, <2>3, <2>5, <2>6, <2>7
  <1>7. ASSUME ~Wavers
        PROVE  npin <= npin'
    <2>1. CASE pass > 0
      BY <1>1, <1>3, <1>5, <1>6, <1>7, <2>1
    <2>2. CASE pass = 0
      BY <1>3, <1>5, <2>2 DEF Sizing
    <2>3. QED
      BY <1>1, <2>1, <2>2
  <1>8. PICK p \in 0 .. NLayers : p = npin
    BY <1>1
  <1>9. UNCHANGED <<nbytes, widen, budget>>
    BY <1>3
  <1>10. Inputs' /\ Wavers' = Wavers /\ SlotFor(p)' = SlotFor(p)
    BY <1>1, <1>9, SameSizes
  <1>11. SizedFor(p)'
    <2>1. RingFor(slot_bytes)' = RingFor(rs) /\ PinsFor(nslot * slot_bytes)' = PinsFor(sp)
      BY <1>3 DEF RingFor, PinsFor, Need, Paid, PinCost
    <2>2. Need(npin)' = Need(PinsFor(sp))
      BY <1>3 DEF Need, Paid, PinCost
    <2>3. QED
      BY <1>3, <1>8, <1>10, <2>1, <2>2 DEF SizedFor
  <1>12. pass' \in Nat /\ pass' > 0 /\ npin' \in 0 .. NLayers
    BY <1>1, <1>3, <1>5
  <1>13. Sizing'
    BY <1>7, <1>8, <1>10, <1>11, <1>12 DEF Sizing
  <1>14. QED
    BY <1>3, <1>6, <1>13

LEMMA Sizings == Spec => []Sizing
  <1>1. Init => Sizing
    <2> SUFFICES ASSUME Init
                 PROVE  Sizing
      OBVIOUS
    <2>1. NLayers \in Nat \ {0}
      BY BudgetAssumption
    <2>2. QED
      BY <2>1 DEF Init, Sizing, Inputs
  <1>2. Sizing /\ [Next]_vars => Sizing'
    <2> SUFFICES ASSUME Sizing, [Next]_vars
                 PROVE  Sizing'
      OBVIOUS
    <2>1. CASE Pass
      BY <2>1, PassSizes
    <2>2. CASE UNCHANGED vars
      <3>1. Inputs' = Inputs /\ Wavers' = Wavers /\ \A p : SlotFor(p)' = SlotFor(p)
        BY <2>2, SameSizes DEF vars
      <3>2. ASSUME NEW p
            PROVE  SizedFor(p)' = SizedFor(p)
        <4>1. RingFor(slot_bytes)' = RingFor(slot_bytes)
          BY <2>2 DEF vars, RingFor
        <4>2. /\ PinsFor(nslot * slot_bytes)' = PinsFor(nslot * slot_bytes)
              /\ Need(npin)' = Need(npin)
          BY <2>2 DEF vars, PinsFor, Need, Paid, PinCost
        <4>3. QED
          BY <2>2, <3>1, <4>1, <4>2 DEF vars, SizedFor
      <3>3. QED
        BY <2>2, <3>1, <3>2 DEF vars, Sizing
    <2>3. CASE Sized
      BY <2>2, <2>3 DEF Sized
    <2>4. QED
      BY <2>1, <2>2, <2>3 DEF Next
  <1>3. QED
    BY <1>1, <1>2, PTL DEF Spec

(* When the loop ends, converged or out of passes, every layer that will   *)
(* stream fits the slots: trunk_open's slot is sized for the largest run   *)
(* of a prefix no longer than the pinned one.  Whatever size the widened   *)
(* area has, K3's 6320.5 pages included; only the budgets of Wavers fail.  *)
THEOREM SlotsSuffice == Spec => []SlotsFit
  <1>1. Sizing => SlotsFit
    <2> SUFFICES ASSUME Sizing, ~Wavers, state # "sizing", NEW i \in npin .. NLayers - 1
                 PROVE  RoundUp(nbytes[i]) + widen <= slot_bytes
      BY DEF SlotsFit, SlotHoldsStreamed
    <2>1. /\ Inputs /\ npin \in 0 .. NLayers /\ pass \in Nat /\ pass # 0
          /\ NLayers \in Nat \ {0} /\ widen \in Nat /\ W \in Nat /\ widen <= W
      BY InputSizes DEF Sizing
    <2>2. PICK p \in 0 .. NLayers : SizedFor(p) /\ p <= npin
      BY <2>1 DEF Sizing
    <2>3. i \in p .. NLayers - 1 /\ i \in Layers
      BY <2>1, <2>2 DEF Layers
    <2>4. slot_bytes = Largest(p) + W
      BY <2>1, <2>2, SlotSizes DEF SizedFor
    <2>5. RoundUp(nbytes[i]) = nbytes[i] /\ nbytes[i] \in Nat
      BY <2>1, <2>3, InputSizes
    <2>6. nbytes[i] <= Largest(p) /\ Largest(p) \in Nat
      BY <2>1, <2>2, <2>3, LargestRun
    <2>7. QED
      BY <2>1, <2>4, <2>5, <2>6
  <1>2. QED
    BY <1>1, Sizings, PTL

(* Rounding every allocation up to huge pages adds less than one for each. *)
LEMMA PinsRoundUp ==
  ASSUME Inputs
  PROVE  \A n \in 0 .. NLayers :
           Paid(AllocCost)[n] - Need(n) \in 0 .. n * (Huge - 1)
  <1> DEFINE a == Paid(AllocCost)
             c == Paid(PinCost)
             h == Huge - 1
             Bad == {n \in Nat : n <= NLayers /\ a[n] - c[n] \notin 0 .. n * h}
  <1>1. /\ NLayers \in Nat \ {0} /\ PinCost \in [Layers -> Nat]
        /\ \A i \in Layers : nbytes[i] + widen \in Nat /\ PinCost[i] = nbytes[i] + widen
                             /\ RoundUp(nbytes[i]) = nbytes[i]
    BY InputSizes
  <1>2. Huge \in Nat \ {0} /\ h \in Nat
    BY BudgetAssumption
  <1>3. ASSUME NEW i \in Layers
        PROVE  AllocCost[i] \in Nat /\ AllocCost[i] - PinCost[i] \in 0 .. h
    <2>1. AllocCost[i] = AllocDirect(nbytes[i] + widen)
      BY <1>1 DEF AllocCost
    <2>2. QED
      BY <1>1, <2>1, AllocDirectAdds
  <1>4. AllocCost \in [Layers -> Nat]
    <2>1. AllocCost = [i \in Layers |-> AllocCost[i]]
      BY DEF AllocCost
    <2>2. QED
      BY <1>3, <2>1
  <1>5. /\ a[0] = 0 /\ \A n \in 1 .. NLayers : a[n] = a[n - 1] + AllocCost[n - 1]
        /\ \A n \in 0 .. NLayers : a[n] \in Nat
    BY <1>4, PaidSums
  <1>6. /\ c[0] = 0 /\ \A n \in 1 .. NLayers : c[n] = c[n - 1] + PinCost[n - 1]
        /\ \A n \in 0 .. NLayers : c[n] \in Nat
    BY <1>1, PaidSums
  <1> HIDE DEF a, c, h
  <1>7. \A n \in Nat : n * h \in Nat
    BY <1>2
  <1>8. 0 * h = 0
    BY <1>2
  <1>9. Bad = {}
    <2> SUFFICES ASSUME Bad # {}
                 PROVE  FALSE
      OBVIOUS
    <2>1. PICK m \in Bad : \A n \in Bad : m <= n
      BY Least
    <2>2. m \in Nat /\ m # 0 /\ m <= NLayers /\ a[m] - c[m] \notin 0 .. m * h
      BY <1>5, <1>6, <1>8, <2>1
    <2> DEFINE k == m - 1
    <2>3. k \in Nat /\ k <= NLayers /\ k \notin Bad /\ k \in Layers /\ m = k + 1
      BY <1>1, <2>1, <2>2 DEF Layers
    <2> HIDE DEF k
    <2>4. a[k] - c[k] \in 0 .. k * h
      BY <2>3
    <2>5. /\ a[m] = a[k] + AllocCost[k] /\ c[m] = c[k] + PinCost[k]
          /\ a[k] \in Nat /\ c[k] \in Nat
      BY <1>1, <1>5, <1>6, <2>2, <2>3 DEF k
    <2>6. m * h = k * h + h
      BY <1>2, <2>3, Distribute
    <2>7. AllocCost[k] \in Nat /\ PinCost[k] \in Nat /\ AllocCost[k] - PinCost[k] \in 0 .. h
      BY <1>1, <1>3, <2>3
    <2>8. QED
      BY <1>2, <1>7, <2>2, <2>3, <2>4, <2>5, <2>6, <2>7
  <1>10. QED
    BY <1>1, <1>9 DEF a, c, h, Need

(* What the loop adds up stays within --trunk-gb, unless the grant does    *)
(* not even pay for two slots and nothing is pinned; what k3_trunk_open    *)
(* then allocates is that sum and less than a huge page for each           *)
(* allocation.                                                             *)
THEOREM BudgetKept == Spec => []WithinBudget
  <1>1. Sizing => WithinBudget
    <2> SUFFICES ASSUME Sizing, state # "sizing"
                 PROVE  /\ spent <= budget \/ (nslot = 1 /\ npin = 0)
                        /\ Allocated - spent \in 0 .. (npin + 1) * (Huge - 1)
      BY DEF WithinBudget
    <2> DEFINE ring == nslot * slot_bytes
    <2>1. /\ Inputs /\ npin \in 0 .. NLayers /\ pass \in Nat /\ pass # 0
          /\ NLayers \in Nat \ {0} /\ budget \in Nat
          /\ PinCost \in [Layers -> Nat]
      BY InputSizes DEF Sizing
    <2>2. PICK p \in 0 .. NLayers : SizedFor(p)
      BY <2>1 DEF Sizing
    <2>3. slot_bytes \in Nat
      BY <2>1, <2>2, SlotSizes DEF SizedFor
    <2>4. /\ ring \in Nat /\ npin = PinsFor(ring) /\ spent = ring + Need(npin)
          /\ 2 * slot_bytes <= budget => ring = 2 * slot_bytes
          /\ 2 * slot_bytes > budget => nslot = 1
      BY <2>1, <2>2, <2>3, Ring DEF SizedFor
    <2>5. Need(npin) \in Nat
      BY <2>1, PaidSums DEF Need
    <2>6. Allocated = AllocDirect(ring) + Paid(AllocCost)[npin]
      BY DEF Allocated
    <2> HIDE DEF ring
    <2>7. spent <= budget \/ (nslot = 1 /\ npin = 0)
      <3>1. CASE npin > 0
        BY <2>1, <2>4, <3>1, LongestPrefix
      <3>2. CASE npin = 0
        <4>1. Need(npin) = 0
          BY <2>1, <3>2, PaidSums DEF Need
        <4>2. QED
          BY <2>1, <2>3, <2>4, <3>2, <4>1
      <3>3. QED
        BY <2>1, <3>1, <3>2
    <2>8. Allocated - spent \in 0 .. (npin + 1) * (Huge - 1)
      <3> DEFINE a == Paid(AllocCost)[npin]
                 h == Huge - 1
      <3>1. AllocDirect(ring) - ring \in 0 .. h /\ AllocDirect(ring) \in Nat
        BY <2>4, AllocDirectAdds
      <3>2. a - Need(npin) \in 0 .. npin * h
        BY <2>1, PinsRoundUp
      <3>3. (npin + 1) * h = npin * h + h /\ h \in Nat /\ npin * h \in Int
        <4>1. h \in Nat
          BY BudgetAssumption
        <4> HIDE DEF h
        <4>2. npin \in Int /\ h \in Int
          BY <2>1, <4>1
        <4>3. (npin + 1) * h = npin * h + h
          BY <4>2, Distribute
        <4>4. \A x, z \in Int : x * z \in Int
          OBVIOUS
        <4>5. QED
          BY <4>1, <4>2, <4>3, <4>4
      <3>4. a \in Int
        <4>1. AllocCost \in [Layers -> Nat]
          <5>1. ASSUME NEW i \in Layers
                PROVE  AllocCost[i] \in Nat
            <6>1. RoundUp(nbytes[i]) + widen \in Nat
              BY <2>1, InputSizes
            <6>2. AllocDirect(RoundUp(nbytes[i]) + widen) \in Nat
              BY <6>1, AllocDirectAdds
            <6>3. QED
              BY <6>2 DEF AllocCost
          <5>2. AllocCost = [i \in Layers |-> AllocCost[i]]
            BY DEF AllocCost
          <5>3. QED
            BY <5>1, <5>2
        <4>2. QED
          BY <2>1, <4>1, PaidSums
      <3> HIDE DEF a, h
      <3>5. Allocated = AllocDirect(ring) + a
        BY <2>6 DEF a
      <3>6. Allocated - spent \in 0 .. npin * h + h
        BY <2>4, <2>5, <3>1, <3>2, <3>3, <3>4, <3>5
      <3>7. QED
        BY <3>3, <3>6 DEF h
    <2>9. QED
      BY <2>7, <2>8
  <1>2. QED
    BY <1>1, Sizings, PTL

(* The comment's "monotone", of every budget but those of Wavers: from the *)
(* second pass on no layer loses its pin and the slots do not grow.        *)
THEOREM OnlyImproves == Spec => Monotone
  <1>1. Sizing /\ [Next]_vars
          => [pass > 0 /\ ~Wavers => npin' >= npin /\ slot_bytes' <= slot_bytes]_vars
    <2> SUFFICES ASSUME Sizing, Next, pass > 0, ~Wavers, ~ UNCHANGED vars
                 PROVE  npin' >= npin /\ slot_bytes' <= slot_bytes
      OBVIOUS
    <2>1. Pass
      BY DEF Next, Sized
    <2>2. QED
      BY <2>1, PassSizes
  <1>2. QED
    BY <1>1, Sizings, PTL DEF Spec, Monotone
-----------------------------------------------------------------------------
(* The budgets that fail.                                                  *)

(* With layer 0 streamed one slot and that layer's pin are paid for; with  *)
(* it pinned two smaller slots are, without the pin.                       *)
LEMMA WaveringSizes ==
  ASSUME Inputs, Wavers
  PROVE  /\ SlotFor(0) \in Nat \ {0} /\ SlotFor(1) \in Nat /\ SlotFor(1) < SlotFor(0)
         /\ SlotFor(0) - PinCost[0] = W - widen
         /\ SlotFor(1) < RoundUp(nbytes[0]) + widen
         /\ RingFor(SlotFor(0)) * SlotFor(0) = SlotFor(0)
         /\ PinsFor(SlotFor(0)) = 1
         /\ RingFor(SlotFor(1)) * SlotFor(1) = 2 * SlotFor(1)
         /\ PinsFor(2 * SlotFor(1)) = 0
  <1>1. /\ NLayers \in Nat \ {0} /\ budget \in Nat /\ widen \in Nat /\ Page \in Nat \ {0}
        /\ W \in Nat /\ widen <= W /\ W < widen + Page
        /\ PinCost \in [Layers -> Nat]
        /\ \A i \in Layers : /\ nbytes[i] \in Nat /\ PinCost[i] = nbytes[i] + widen
                             /\ nbytes[i] >= Page /\ RoundUp(nbytes[i]) = nbytes[i]
    BY InputSizes
  <1>2. 0 \in Layers /\ 0 \in 0 .. NLayers /\ 1 \in 0 .. NLayers /\ 1 \in 1 .. NLayers
    BY <1>1 DEF Layers
  <1>3. /\ Largest(0) \in Nat /\ Largest(0) % Page = 0
        /\ Largest(1) \in Nat /\ Largest(1) % Page = 0
        /\ SlotFor(0) = Largest(0) + W /\ SlotFor(1) = Largest(1) + W
        /\ nbytes[0] <= Largest(0)
    BY <1>1, <1>2, LargestRun, SlotSizes
  <1>4. /\ SlotFor(0) + PinCost[0] <= budget /\ budget < 2 * SlotFor(0)
        /\ 2 * SlotFor(1) <= budget /\ budget < 2 * SlotFor(1) + PinCost[0]
    BY DEF Wavers, RING_WANT
  <1>5. Largest(1) < Largest(0)
    BY <1>1, <1>3, <1>4
  <1>6. Largest(0) = nbytes[0]
    <2>1. PICK i \in 0 .. NLayers - 1 : Largest(0) = nbytes[i]
      BY <1>1, <1>2, LargestRun
    <2>2. i > 0 => i \in 1 .. NLayers - 1
      BY <1>1, <2>1
    <2>3. i > 0 => nbytes[i] <= Largest(1)
      BY <1>2, <2>2, LargestRun
    <2>4. i \in Layers
      BY <2>1 DEF Layers
    <2>5. QED
      BY <1>1, <1>3, <1>5, <2>1, <2>3, <2>4
  <1>7. Largest(1) + Page <= Largest(0)
    BY <1>3, <1>5, PagesApart
  <1>8. PinCost[0] = Largest(0) + widen /\ RoundUp(nbytes[0]) = Largest(0)
    BY <1>1, <1>2, <1>6
  <1>9. /\ RingFor(SlotFor(0)) * SlotFor(0) = SlotFor(0)
        /\ RingFor(SlotFor(1)) * SlotFor(1) = 2 * SlotFor(1)
    BY <1>1, <1>3, <1>4, Ring
  <1>10. Need(1) = PinCost[0]
    <2>1. Paid(PinCost)[1] = Paid(PinCost)[0] + PinCost[0] /\ Paid(PinCost)[0] = 0
      BY <1>1, <1>2, PaidSums
    <2>2. QED
      BY <1>1, <1>2, <2>1 DEF Need
  <1>11. PinsFor(SlotFor(0)) = 1
    <2> DEFINE sp == SlotFor(0)
               n == PinsFor(sp)
    <2>1. sp \in Nat /\ sp + Need(1) <= budget
      BY <1>1, <1>3, <1>4, <1>10
    <2> HIDE DEF sp
    <2>2. n \in 0 .. NLayers /\ 1 <= n /\ sp + Need(n) <= budget
      <3>1. n \in 0 .. NLayers /\ (n > 0 => sp + Need(n) <= budget) /\ 1 <= n
        BY <1>2, <2>1, LongestPrefix
      <3>2. QED
        BY <3>1
    <2> HIDE DEF n
    <2>3. n < 2
      <3>1. SUFFICES ASSUME n >= 2
                     PROVE  FALSE
        BY <2>2
      <3>2. n \in 2 .. NLayers /\ 0 \in 0 .. n - 1
        BY <1>1, <2>2, <3>1
      <3>3. PinCost[0] + Page <= Need(n)
        BY <3>2, TwoPins
      <3>4. Need(n) \in Nat
        BY <1>1, <2>2, PaidSums DEF Need
      <3>5. QED
        BY <1>1, <1>3, <1>4, <1>8, <2>1, <2>2, <3>3, <3>4 DEF sp
    <2>4. n = 1
      BY <2>2, <2>3
    <2>5. QED
      BY <2>4 DEF n, sp
  <1>12. PinsFor(2 * SlotFor(1)) = 0
    <2> DEFINE sp == 2 * SlotFor(1)
               n == PinsFor(sp)
    <2>1. sp \in Nat /\ budget < sp + Need(1)
      BY <1>1, <1>3, <1>4, <1>10
    <2> HIDE DEF sp
    <2>2. n \in 0 .. NLayers /\ (n > 0 => sp + Need(n) <= budget)
      BY <2>1, LongestPrefix
    <2> HIDE DEF n
    <2>3. n = 0
      <3>1. SUFFICES ASSUME n > 0
                     PROVE  FALSE
        BY <2>2
      <3>2. n \in 1 .. NLayers
        BY <1>1, <2>2, <3>1
      <3>3. Paid(PinCost)[1] <= Paid(PinCost)[n]
        BY <1>1, <1>2, <3>2, PaidGrows
      <3>4. Need(1) \in Nat /\ Need(n) \in Nat
        BY <1>1, <1>2, <2>2, PaidSums DEF Need
      <3>5. QED
        BY <1>1, <2>1, <2>2, <3>1, <3>3, <3>4 DEF Need
    <2>4. QED
      BY <2>3 DEF n, sp
  <1>13. /\ SlotFor(0) \in Nat \ {0} /\ SlotFor(1) \in Nat /\ SlotFor(1) < SlotFor(0)
         /\ SlotFor(0) - PinCost[0] = W - widen
         /\ SlotFor(1) < RoundUp(nbytes[0]) + widen
    BY <1>1, <1>3, <1>5, <1>7, <1>8
  <1>14. QED
    BY <1>9, <1>11, <1>12, <1>13

(* The loop wavers only when the widened area leaves part of a page of the *)
(* slot unused, and then only for a budget that falls short of two slots   *)
(* for layer 0 by no more than that part: 2048 bytes for K3.               *)
THEOREM NarrowWindow ==
  Spec => [](Wavers => RING_WANT * SlotFor(0) - budget \in 1 .. RoundUp(widen) - widen)
  <1>1. Sizing => (Wavers => RING_WANT * SlotFor(0) - budget \in 1 .. RoundUp(widen) - widen)
    <2> SUFFICES ASSUME Sizing, Wavers
                 PROVE  RING_WANT * SlotFor(0) - budget \in 1 .. RoundUp(widen) - widen
      OBVIOUS
    <2>1. Inputs
      BY DEF Sizing
    <2>2. /\ SlotFor(0) \in Nat /\ SlotFor(0) - PinCost[0] = W - widen
      BY <2>1, WaveringSizes
    <2>3. budget \in Nat /\ widen \in Nat /\ W \in Nat /\ PinCost[0] \in Nat
      <3>1. 0 \in Layers
        BY BudgetAssumption DEF Layers
      <3>2. QED
        BY <2>1, <3>1, InputSizes
    <2>4. SlotFor(0) + PinCost[0] <= budget /\ budget < 2 * SlotFor(0)
      BY DEF Wavers, RING_WANT
    <2>5. 2 * SlotFor(0) - budget \in 1 .. W - widen
      BY <2>2, <2>3, <2>4
    <2>6. QED
      BY <2>5 DEF RING_WANT, W
  <1>2. QED
    BY <1>1, Sizings, PTL

(* For those budgets odd passes pin layer 0 next to one slot for it, even  *)
(* ones pin nothing next to two slots for the rest, and none is stable.    *)
Chasing ==
  /\ Inputs /\ pass \in Nat
  /\ Wavers =>
       /\ pass = 0 => npin = 0 /\ slot_bytes = 0
       /\ pass > 0 /\ pass % 2 = 1 => npin = 1 /\ slot_bytes = SlotFor(0)
       /\ pass > 0 /\ pass % 2 = 0 => npin = 0 /\ slot_bytes = SlotFor(1)
       /\ state # "sizing" => pass = MaxPasses

LEMMA PassChases ==
  ASSUME Chasing, Pass
  PROVE  Chasing'
  <1>1. /\ Inputs /\ pass \in Nat /\ pass' = pass + 1 /\ slot_bytes' = SlotFor(npin)
        /\ npin' = PinsFor(RingFor(SlotFor(npin)) * SlotFor(npin))
        /\ UNCHANGED <<nbytes, widen, budget>>
        /\ state' = IF SlotFor(npin) = slot_bytes /\ npin' = npin THEN "stable"
                    ELSE IF pass' = MaxPasses THEN "gave_up" ELSE "sizing"
    BY DEF Chasing, Pass
  <1>2. /\ Inputs' /\ pass' \in Nat /\ Wavers' = Wavers
        /\ SlotFor(0)' = SlotFor(0) /\ SlotFor(1)' = SlotFor(1)
    BY <1>1, SameSizes
  <1>3. CASE ~Wavers
    BY <1>2, <1>3 DEF Chasing
  <1>4. CASE Wavers
    <2>1. /\ SlotFor(0) \in Nat \ {0} /\ SlotFor(1) \in Nat /\ SlotFor(1) < SlotFor(0)
          /\ RingFor(SlotFor(0)) * SlotFor(0) = SlotFor(0)
          /\ PinsFor(SlotFor(0)) = 1
          /\ RingFor(SlotFor(1)) * SlotFor(1) = 2 * SlotFor(1)
          /\ PinsFor(2 * SlotFor(1)) = 0
      BY <1>1, <1>4, WaveringSizes
    <2>2. CASE pass % 2 = 0
      <3>1. npin = 0 /\ slot_bytes # SlotFor(0)
        <4>1. CASE pass = 0
          BY <1>4, <2>1, <4>1 DEF Chasing
        <4>2. CASE pass # 0
          BY <1>1, <1>4, <2>1, <2>2, <4>2 DEF Chasing
        <4>3. QED
          BY <4>1, <4>2
      <3>2. npin' = 1 /\ slot_bytes' = SlotFor(0)
        BY <1>1, <2>1, <3>1
      <3>3. state' # "sizing" => pass' = MaxPasses
        BY <1>1, <3>1
      <3>4. pass' # 0 /\ pass' % 2 # 0
        BY <1>1, <2>2
      <3>5. npin' = 1 /\ slot_bytes' = SlotFor(0)'
        BY <1>2, <3>2
      <3>6. QED
        BY <1>2, <3>3, <3>4, <3>5, Zenon DEF Chasing
    <2>3. CASE pass % 2 = 1
      <3>1. pass # 0 /\ pass > 0
        BY <1>1, <2>3
      <3>2. npin = 1 /\ slot_bytes = SlotFor(0)
        BY <1>4, <2>3, <3>1 DEF Chasing
      <3>3. npin' = 0 /\ slot_bytes' = SlotFor(1)
        BY <1>1, <2>1, <3>2
      <3>4. state' # "sizing" => pass' = MaxPasses
        BY <1>1, <3>2, <3>3
      <3>5. pass' # 0 /\ pass' % 2 # 1
        BY <1>1, <2>3
      <3>6. npin' = 0 /\ slot_bytes' = SlotFor(1)'
        BY <1>2, <3>3
      <3>7. QED
        BY <1>2, <3>4, <3>5, <3>6, Zenon DEF Chasing
    <2>4. pass % 2 \in 0 .. 1
      BY <1>1
    <2>5. QED
      BY <2>2, <2>3, <2>4
  <1>5. QED
    BY <1>3, <1>4

(* SlotsFit excludes no budget that would do: with an even bound on the    *)
(* passes, 4 in the code, the loop always ends a budget of Wavers on slots *)
(* too small for layer 0, which it does not pin.                           *)
THEOREM WaveringFails ==
  ASSUME MaxPasses % 2 = 0
  PROVE  Spec => [](Wavers /\ state # "sizing" => ~SlotHoldsStreamed)
  <1>1. Init => Chasing
    BY DEF Init, Chasing, Inputs
  <1>2. Chasing /\ [Next]_vars => Chasing'
    <2> SUFFICES ASSUME Chasing, [Next]_vars
                 PROVE  Chasing'
      OBVIOUS
    <2>1. CASE Pass
      BY <2>1, PassChases
    <2>2. CASE UNCHANGED vars
      <3>1. /\ Inputs' = Inputs /\ Wavers' = Wavers
            /\ SlotFor(0)' = SlotFor(0) /\ SlotFor(1)' = SlotFor(1)
        BY <2>2, SameSizes DEF vars
      <3>2. QED
        BY <2>2, <3>1 DEF vars, Chasing
    <2>3. CASE Sized
      BY <2>2, <2>3 DEF Sized
    <2>4. QED
      BY <2>1, <2>2, <2>3 DEF Next
  <1>3. Chasing => (Wavers /\ state # "sizing" => ~SlotHoldsStreamed)
    <2> SUFFICES ASSUME Chasing, Wavers, state # "sizing", SlotHoldsStreamed
                 PROVE  FALSE
      OBVIOUS
    <2>1. Inputs /\ pass = MaxPasses /\ MaxPasses \in Nat \ {0} /\ NLayers \in Nat \ {0}
      BY BudgetAssumption DEF Chasing
    <2>2. npin = 0 /\ slot_bytes = SlotFor(1)
      BY <2>1 DEF Chasing
    <2>3. RoundUp(nbytes[0]) + widen <= slot_bytes
      <3>1. 0 \in npin .. NLayers - 1
        BY <2>1, <2>2
      <3>2. QED
        BY <3>1 DEF SlotHoldsStreamed
    <2>4. SlotFor(1) < RoundUp(nbytes[0]) + widen /\ SlotFor(1) \in Nat
      BY <2>1, WaveringSizes
    <2>5. RoundUp(nbytes[0]) \in Nat /\ widen \in Nat
      <3>1. 0 \in Layers
        BY <2>1 DEF Layers
      <3>2. QED
        BY <2>1, <3>1, InputSizes
    <2>6. QED
      BY <2>2, <2>3, <2>4, <2>5
  <1>4. QED
    BY <1>1, <1>2, <1>3, PTL DEF Spec
=============================================================================
