-------------------------- MODULE TrunkRows_proofs -------------------------
(***************************************************************************)
(* Machine-checked facts about TrunkRows, for every trunk, every buffer    *)
(* size, every set of selections and all three kv_b modes: the reader      *)
(* thread stays off the tile that is applied, no read outlives its pass,   *)
(* and every product is made from its own row of its own matrix.           *)
(***************************************************************************)
EXTENDS TrunkRowsInv, NumberFacts, FiniteSetTheorems

(***************************************************************************)
(* Machine-checked facts about the tiles of a selection, for every matrix, *)
(* every selection and every buffer: a tile is not empty and lies in the   *)
(* matrix, it applies exactly the selected rows it contains, and between   *)
(* it and the next tile, or the end, no selected row is left out.          *)
(***************************************************************************)

(***************************************************************************)
(* Selections.                                                             *)
(***************************************************************************)
(* What the shape test lets through, in plain words.                       *)
LEMMA ValidShape ==
  ASSUME NEW out \in Nat \ {0}, NEW s \in SelType, Valid(s, out)
  PROVE  /\ s.blk \in Nat \ {0} /\ s.nr \in Nat \ {0} /\ s.r0 \in Nat
         /\ s.r0 + s.nr <= s.blk
         /\ out \div s.blk \in Nat \ {0}
         /\ out = (out \div s.blk) * s.blk
  <1>1. /\ s.blk \in Nat \ {0} /\ s.nr \in Nat \ {0} /\ s.r0 \in Nat
        /\ s.r0 + s.nr <= s.blk /\ out % s.blk = 0
    BY DEF Valid, SelType
  <1>2. /\ out = (out \div s.blk) * s.blk + (out % s.blk)
        /\ (out \div s.blk) * s.blk \in Int
    <2>1. out \in Int
      OBVIOUS
    <2>2. QED
      BY <1>1, <2>1, DivMod, Zenon
  <1>3. out \div s.blk \in Nat
    BY <1>1, DivNat
  <1>4. out \div s.blk # 0
    <2>1. 0 * s.blk = 0
      BY <1>1
    <2>2. QED
      BY <1>1, <1>2, <2>1
  <1>5. QED
    BY <1>1, <1>2, <1>3, <1>4

LEMMA WholeIsValid ==
  ASSUME NEW out \in Nat \ {0}
  PROVE  /\ Whole(out) \in SelType /\ Valid(Whole(out), out)
         /\ SelCount(Whole(out), out) = out
  <1>1. out = 1 * out + 0
    OBVIOUS
  <1>2. out \div out = 1 /\ out % out = 0
    <2>1. (1 * out + 0) \div out = 1 /\ (1 * out + 0) % out = 0
      BY DivModUnique
    <2>2. QED
      BY <1>1, <2>1
  <1>3. QED
    BY <1>2 DEF Whole, SelType, Valid, SelCount

(* A selected row, block and offset apart.                                 *)
LEMMA RowInBlock ==
  ASSUME NEW out \in Nat \ {0}, NEW s \in SelType, Valid(s, out),
         NEW r \in Nat
  PROVE  LET b == r \div s.blk  t == r % s.blk IN
         /\ b \in Nat /\ t \in 0 .. s.blk - 1
         /\ b * s.blk \in Int /\ r = b * s.blk + t
  <1>1. r \in Int /\ s.blk \in Nat \ {0}
    BY ValidShape
  <1>2. QED
    BY <1>1, DivMod, DivNat, Zenon

(* The part of a tile that is applied: the selected rows among its own.    *)
LEMMA TileApplies ==
  ASSUME NEW out \in Nat \ {0}, NEW s \in SelType, Valid(s, out),
         NEW first \in Nat, NEW n \in Nat \ {0}
  PROVE  TilePart(s, first, n) =
           {r \in first .. first + n - 1 : r % s.blk \in s.r0 .. s.r0 + s.nr - 1}
  <1> DEFINE blk == s.blk
             lo == first \div blk
             hi == (first + n - 1) \div blk
             Of(b) == Greater(b * blk + s.r0, first)
                      .. Lesser(b * blk + s.r0 + s.nr, first + n) - 1
             Mine == {r \in first .. first + n - 1 : r % blk \in s.r0 .. s.r0 + s.nr - 1}
  <1>1. /\ blk \in Nat \ {0} /\ s.nr \in Nat \ {0} /\ s.r0 \in Nat /\ s.r0 + s.nr <= blk
    BY ValidShape
  <1>2. /\ lo \in Nat /\ lo * blk \in Int /\ first % blk \in 0 .. blk - 1
        /\ first = lo * blk + (first % blk)
    <2>1. first \in Int
      OBVIOUS
    <2>2. QED
      BY <1>1, <2>1, DivMod, DivNat, Zenon
  <1>3. /\ hi \in Nat /\ hi * blk \in Int /\ (first + n - 1) % blk \in 0 .. blk - 1
        /\ first + n - 1 = hi * blk + ((first + n - 1) % blk)
    <2>1. first + n - 1 \in Int /\ first + n - 1 \in Nat
      OBVIOUS
    <2>2. QED
      BY <1>1, <2>1, DivMod, DivNat, Zenon
  <1>4. ASSUME NEW r \in Mine
        PROVE  \E b \in lo .. hi : r \in Of(b)
    <2> DEFINE b == r \div blk
    <2>1. /\ r \in Nat /\ b \in Nat /\ b * blk \in Int /\ r = b * blk + (r % blk)
          /\ r % blk \in s.r0 .. s.r0 + s.nr - 1 /\ first <= r /\ r <= first + n - 1
      <3>1. /\ r \in Nat /\ r \in Int /\ first <= r /\ r <= first + n - 1
            /\ r % blk \in s.r0 .. s.r0 + s.nr - 1
        BY <1>4
      <3>2. QED
        BY <1>1, <3>1, DivMod, DivNat, Zenon
    <2> HIDE DEF lo, hi, b, blk
    <2>2. lo <= b
      <3>1. CASE b < lo
        <4>1. b * blk + blk <= lo * blk
          BY <1>1, <1>2, <2>1, <3>1, Multiples
        <4>2. QED
          BY <4>1, <1>1, <1>2, <2>1
      <3>2. QED
        BY <3>1, <1>2, <2>1
    <2>3. b <= hi
      <3>1. CASE hi < b
        <4>1. hi * blk + blk <= b * blk
          BY <1>1, <1>3, <2>1, <3>1, Multiples
        <4>2. QED
          BY <4>1, <1>1, <1>3, <2>1
      <3>2. QED
        BY <3>1, <1>3, <2>1
    <2>4. r \in Of(b)
      BY <1>1, <2>1 DEF Greater, Lesser
    <2>5. QED
      BY <2>1, <2>2, <2>3, <2>4, <1>2, <1>3
  <1>5. ASSUME NEW b \in lo .. hi, NEW r \in Of(b)
        PROVE  r \in Mine
    <2>1. b \in Int /\ b * blk \in Int
      <3>1. \A x, z \in Int : x * z \in Int
        OBVIOUS
      <3>2. QED
        BY <1>1, <1>2, <1>3, <3>1
    <2>2. r \in Int /\ first <= r /\ r <= first + n - 1
          /\ r - b * blk \in s.r0 .. s.r0 + s.nr - 1
      BY <1>1, <2>1, <1>5 DEF Greater, Lesser
    <2>3. r = b * blk + (r - b * blk) /\ r - b * blk \in 0 .. blk - 1
      BY <1>1, <2>1, <2>2
    <2>4. (b * blk + (r - b * blk)) % blk = r - b * blk
      BY <1>1, <2>1, <2>3, DivModUnique
    <2>5. QED
      BY <2>1, <2>2, <2>3, <2>4
  <1>6. TilePart(s, first, n) = UNION {Of(b) : b \in lo .. hi}
    BY DEF TilePart
  <1> HIDE DEF Of, Mine, lo, hi, blk
  <1>7. UNION {Of(b) : b \in lo .. hi} = Mine
    BY <1>4, <1>5
  <1>8. QED
    BY <1>6, <1>7 DEF Mine, blk

(***************************************************************************)
(* Tiles.                                                                  *)
(***************************************************************************)

(* Where the tile at selected row at lies: in one block, behind r0.        *)
LEMMA TileLies ==
  ASSUME NEW out \in Nat \ {0}, NEW s \in SelType, Valid(s, out),
         NEW cap \in Nat \ {0}, NEW at \in Nat, at < SelCount(s, out)
  PROVE  LET q == at \div s.nr  j == at % s.nr  n == SelTile(s, at, cap) IN
         /\ q \in Nat /\ q < out \div s.blk /\ j \in 0 .. s.nr - 1
         /\ q * s.nr \in Int /\ at = q * s.nr + j
         /\ q * s.blk \in Nat /\ q * s.blk + s.blk <= out
         /\ SelRow(s, at) = q * s.blk + s.r0 + j
         /\ n \in Nat \ {0} /\ n <= cap /\ j + n <= s.nr
  <1> DEFINE q == at \div s.nr
             j == at % s.nr
             blocks == out \div s.blk
  <1>1. /\ s.blk \in Nat \ {0} /\ s.nr \in Nat \ {0} /\ s.r0 \in Nat
        /\ s.r0 + s.nr <= s.blk /\ blocks \in Nat \ {0} /\ out = blocks * s.blk
    BY ValidShape
  <1>2. /\ q \in Nat /\ j \in 0 .. s.nr - 1 /\ q * s.nr \in Int /\ at = q * s.nr + j
    <2>1. at \in Int
      OBVIOUS
    <2>2. QED
      BY <1>1, <2>1, DivMod, DivNat, Zenon
  <1>3. at < blocks * s.nr /\ SelRow(s, at) = q * s.blk + s.r0 + j
    BY DEF SelCount, SelRow
  <1>4. SelTile(s, at, cap) \in Nat \ {0} /\ SelTile(s, at, cap) <= cap
        /\ j + SelTile(s, at, cap) <= s.nr
    <2>1. SelTile(s, at, cap) = IF s.nr - j < cap THEN s.nr - j ELSE cap
      BY DEF SelTile, Lesser
    <2> HIDE DEF j
    <2>2. QED
      BY <1>1, <1>2, <2>1
  <1> HIDE DEF q, j, blocks
  <1>5. q < blocks
    <2>1. CASE blocks < q
      <3>1. blocks * s.nr \in Int /\ blocks * s.nr + s.nr <= q * s.nr
        BY <1>1, <1>2, <2>1, Multiples
      <3>2. QED
        BY <3>1, <1>1, <1>2, <1>3
    <2>2. CASE blocks = q
      BY <2>2, <1>1, <1>2, <1>3
    <2>3. QED
      BY <2>1, <2>2, <1>1, <1>2
  <1>6. q * s.blk \in Nat
    <2>1. \A x, z \in Nat : x * z \in Nat
      OBVIOUS
    <2>2. QED
      BY <1>1, <1>2, <2>1
  <1>7. q * s.blk + s.blk <= blocks * s.blk
    BY <1>1, <1>2, <1>5, Multiples
  <1>8. QED
    BY <1>1, <1>2, <1>3, <1>4, <1>5, <1>6, <1>7 DEF q, j, blocks

(* The tile after a tile begins where that one ended, or with the next     *)
(* block; the last tile ends with the last block's selected rows.          *)
LEMMA TileFollows ==
  ASSUME NEW out \in Nat \ {0}, NEW s \in SelType, Valid(s, out),
         NEW cap \in Nat \ {0}, NEW at \in Nat, at < SelCount(s, out),
         NEW r \in Selected(s, out),
         at + SelTile(s, at, cap) < SelCount(s, out)
           => r < SelRow(s, at + SelTile(s, at, cap))
  PROVE  r < SelRow(s, at) + SelTile(s, at, cap)
  <1> DEFINE q == at \div s.nr
             j == at % s.nr
             n == SelTile(s, at, cap)
             blocks == out \div s.blk
             b == r \div s.blk
             t == r % s.blk
  <1>1. /\ s.blk \in Nat \ {0} /\ s.nr \in Nat \ {0} /\ s.r0 \in Nat
        /\ s.r0 + s.nr <= s.blk /\ blocks \in Nat \ {0} /\ out = blocks * s.blk
    BY ValidShape
  <1>2. /\ q \in Nat /\ q < blocks /\ j \in 0 .. s.nr - 1
        /\ q * s.nr \in Int /\ at = q * s.nr + j
        /\ q * s.blk \in Nat /\ q * s.blk + s.blk <= out
        /\ SelRow(s, at) = q * s.blk + s.r0 + j
        /\ n \in Nat \ {0} /\ j + n <= s.nr
    BY TileLies
  <1>3. /\ r \in Nat /\ r < out /\ t \in s.r0 .. s.r0 + s.nr - 1
        /\ b \in Nat /\ b * s.blk \in Int /\ r = b * s.blk + t
    <2>1. r \in Nat /\ r < out /\ t \in s.r0 .. s.r0 + s.nr - 1
      BY DEF Selected
    <2>2. QED
      BY <2>1, RowInBlock, Zenon
  <1>4. /\ at + n < SelCount(s, out) => r < SelRow(s, at + n)
        /\ SelCount(s, out) = blocks * s.nr
        /\ SelRow(s, at + n) = ((at + n) \div s.nr) * s.blk + s.r0 + ((at + n) % s.nr)
    BY DEF SelCount, SelRow
  <1> SUFFICES r < q * s.blk + s.r0 + j + n
    BY <1>2
  <1> HIDE DEF q, j, n, blocks, b, t
  <1>8. q \in Int /\ s.nr \in Int
    BY <1>1, <1>2
  <1>5. CASE j + n < s.nr
    <2>1. at + n = q * s.nr + (j + n) /\ j + n \in 0 .. s.nr - 1
      BY <1>1, <1>2, <1>5
    <2>2. (at + n) \div s.nr = q /\ (at + n) % s.nr = j + n
      <3>1. q \in Int
        BY <1>2
      <3>2. QED
        BY <2>1, <3>1, <1>1, DivModUnique
    <2>3. at + n < blocks * s.nr
      <3>1. q \in Int /\ blocks \in Int
        BY <1>1, <1>2
      <3>2. q * s.nr + s.nr <= blocks * s.nr /\ blocks * s.nr \in Int
        BY <3>1, <1>1, <1>2, Multiples
      <3>3. QED
        BY <3>1, <3>2, <2>1, <1>1, <1>2
    <2>4. r < q * s.blk + s.r0 + (j + n)
      BY <2>2, <2>3, <1>4
    <2>5. QED
      BY <2>4, <1>1, <1>2, <1>3
  <1>6. CASE j + n = s.nr
    <2>1. b <= q
      <3>1. CASE q < b /\ at + n < blocks * s.nr
        <4>1. at + n = (q + 1) * s.nr + 0
          <5>1. (q + 1) * s.nr = q * s.nr + s.nr
            BY <1>8, Distribute, Zenon
          <5>2. QED
            BY <5>1, <1>1, <1>2, <1>6
        <4>2. (at + n) \div s.nr = q + 1 /\ (at + n) % s.nr = 0
          <5>1. q + 1 \in Int /\ 0 \in 0 .. s.nr - 1
            BY <1>1, <1>2
          <5>2. QED
            BY <4>1, <5>1, <1>1, DivModUnique
        <4>3. r < (q + 1) * s.blk + s.r0 + 0
          BY <4>2, <3>1, <1>4
        <4>4. (q + 1) * s.blk \in Int /\ (q + 1) * s.blk <= b * s.blk
          <5>1. CASE q + 1 < b
            BY <5>1, <1>1, <1>2, <1>3, Multiples
          <5>2. CASE q + 1 = b
            BY <5>2, <1>3
          <5>3. QED
            BY <5>1, <5>2, <3>1, <1>2, <1>3
        <4>5. QED
          BY <4>3, <4>4, <1>1, <1>3
      <3>2. CASE q < b /\ ~(at + n < blocks * s.nr)
        <4>1. b < blocks
          <5>1. CASE blocks < b
            <6>1. blocks * s.blk + s.blk <= b * s.blk
              BY <5>1, <1>1, <1>3, Multiples
            <6>2. QED
              BY <6>1, <1>1, <1>3
          <5>2. CASE blocks = b
            BY <5>2, <1>1, <1>3
          <5>3. QED
            BY <5>1, <5>2, <1>1, <1>3
        <4>2. q + 1 < blocks
          BY <4>1, <3>2, <1>1, <1>2, <1>3
        <4>3. (q + 1) * s.nr + s.nr <= blocks * s.nr /\ blocks * s.nr \in Int
          <5>1. q + 1 \in Int /\ blocks \in Int
            BY <1>1, <1>2
          <5>2. QED
            BY <4>2, <5>1, <1>1, Multiples
        <4>4. (q + 1) * s.nr = q * s.nr + s.nr
          BY <1>8, Distribute, Zenon
        <4>5. QED
          BY <4>3, <4>4, <3>2, <1>1, <1>2, <1>6
      <3>3. QED
        BY <3>1, <3>2, <1>2, <1>3
    <2>2. b * s.blk <= q * s.blk
      <3>1. CASE b < q
        BY <3>1, <1>1, <1>2, <1>3, Multiples
      <3>2. CASE b = q
        BY <3>2, <1>3
      <3>3. QED
        BY <3>1, <3>2, <2>1, <1>2, <1>3
    <2>3. QED
      BY <2>2, <1>1, <1>2, <1>3, <1>6
  <1>7. QED
    BY <1>1, <1>2, <1>5, <1>6

(***************************************************************************)
(* TilesCover: what the pass of TrunkRows needs.  Its tiles are cut either *)
(* from the whole matrix or from the selection that is applied.  A tile is *)
(* not empty, fits the buffer and the matrix, and applies exactly the      *)
(* selected rows it contains; and a selected row before the next tile, or  *)
(* any one when there is no next tile, lies before the end of this one     *)
(* (rows_run, rows_apply_sel).                                             *)
(***************************************************************************)
THEOREM TilesCover ==
  ASSUME NEW out \in Nat \ {0}, NEW s \in SelType, Valid(s, out),
         NEW cut \in {Whole(out), s},
         NEW cap \in Nat \ {0}, NEW at \in Nat, at < SelCount(cut, out)
  PROVE  LET first == SelRow(cut, at)
             n     == SelTile(cut, at, cap)
         IN
         /\ n \in Nat \ {0} /\ n <= cap
         /\ first \in Nat /\ first + n <= out
         /\ TilePart(s, first, n) = {r \in Selected(s, out) : r \in first .. first + n - 1}
         /\ \A r \in Selected(s, out) :
              (at + n < SelCount(cut, out) => r < SelRow(cut, at + n)) => r < first + n
  <1> DEFINE first == SelRow(cut, at)
             n     == SelTile(cut, at, cap)
             q     == at \div cut.nr
             j     == at % cut.nr
  <1>1. cut \in SelType /\ Valid(cut, out)
    BY WholeIsValid
  <1>2. /\ cut.blk \in Nat \ {0} /\ cut.nr \in Nat \ {0} /\ cut.r0 \in Nat
        /\ cut.r0 + cut.nr <= cut.blk
    BY <1>1, ValidShape
  <1>3. /\ j \in 0 .. cut.nr - 1
        /\ q * cut.blk \in Nat /\ q * cut.blk + cut.blk <= out
        /\ first = q * cut.blk + cut.r0 + j
        /\ n \in Nat \ {0} /\ n <= cap /\ j + n <= cut.nr
    BY <1>1, TileLies
  <1>4. first \in Nat /\ first + n <= out
    <2> HIDE DEF q, j, n, first
    <2>1. QED
      BY <1>2, <1>3
  <1>5. TilePart(s, first, n)
          = {r \in first .. first + n - 1 : r % s.blk \in s.r0 .. s.r0 + s.nr - 1}
    <2> HIDE DEF first, n
    <2>1. QED
      BY <1>3, <1>4, TileApplies
  <1>6. TilePart(s, first, n) = {r \in Selected(s, out) : r \in first .. first + n - 1}
    <2> HIDE DEF first, n
    <2>1. first .. first + n - 1 \subseteq 0 .. out - 1
      BY <1>3, <1>4
    <2>2. QED
      BY <1>5, <2>1 DEF Selected
  <1>7. Selected(s, out) \subseteq Selected(cut, out)
    <2>1. CASE cut = s
      BY <2>1
    <2>2. CASE cut = Whole(out)
      <3>1. ASSUME NEW r \in 0 .. out - 1
            PROVE  r % out \in 0 .. 0 + out - 1
        <4>1. r \in Int
          OBVIOUS
        <4>2. r % out \in 0 .. out - 1
          BY <4>1, DivMod
        <4>3. QED
          BY <4>2
      <3>2. QED
        BY <2>2, <3>1 DEF Whole, Selected
    <2>3. QED
      BY <2>1, <2>2
  <1>8. ASSUME NEW r \in Selected(s, out),
               at + n < SelCount(cut, out) => r < SelRow(cut, at + n)
        PROVE  r < first + n
    BY <1>1, <1>7, <1>8, TileFollows
  <1>9. QED
    BY <1>3, <1>4, <1>6, <1>8

(* Before the first tile there is nothing to select.                       *)
LEMMA FirstTile ==
  ASSUME NEW out \in Nat \ {0}, NEW s \in SelType, Valid(s, out),
         NEW cut \in {Whole(out), s}
  PROVE  /\ 0 < SelCount(cut, out)
         /\ \A r \in Selected(s, out) : ~(r < SelRow(cut, 0))
  <1>1. cut \in SelType /\ Valid(cut, out)
    BY WholeIsValid
  <1>2. /\ cut.blk \in Nat \ {0} /\ cut.nr \in Nat \ {0} /\ cut.r0 \in Nat
        /\ out \div cut.blk \in Nat \ {0}
    BY <1>1, ValidShape
  <1>3. 0 < SelCount(cut, out)
    <2>1. \A x, z \in Nat \ {0} : x * z \in Nat \ {0}
      OBVIOUS
    <2>2. QED
      BY <1>2, <2>1 DEF SelCount
  <1>4. 0 \div cut.nr = 0 /\ 0 % cut.nr = 0
    <2>1. 0 \in Int /\ 0 \in 0 .. cut.nr - 1 /\ 0 = 0 * cut.nr + 0
      BY <1>2
    <2>2. (0 * cut.nr + 0) \div cut.nr = 0 /\ (0 * cut.nr + 0) % cut.nr = 0
      BY <1>2, <2>1, DivModUnique
    <2>3. QED
      BY <2>1, <2>2
  <1>5. SelRow(cut, 0) = cut.r0
    <2>1. 0 * cut.blk = 0
      BY <1>2
    <2>2. SelRow(cut, 0) = 0 * cut.blk + cut.r0 + 0
      BY <1>4 DEF SelRow
    <2>3. QED
      BY <1>2, <2>1, <2>2
  <1>6. ASSUME NEW r \in Selected(s, out)
        PROVE  cut.r0 <= r
    <2>1. CASE cut = Whole(out)
      BY <2>1 DEF Whole, Selected
    <2>2. CASE cut = s
      <3>1. r \in Nat /\ r % s.blk \in s.r0 .. s.r0 + s.nr - 1
        BY DEF Selected
      <3>2. /\ r \div s.blk \in Nat /\ (r \div s.blk) * s.blk \in Int
            /\ r = (r \div s.blk) * s.blk + (r % s.blk)
        BY <3>1, RowInBlock, Zenon
      <3>3. (r \div s.blk) * s.blk \in Nat
        <4>1. \A x, z \in Nat : x * z \in Nat
          OBVIOUS
        <4>2. QED
          BY <2>2, <1>2, <3>2, <4>1
      <3>4. QED
        BY <3>1, <3>2, <3>3, <2>2, <1>2
    <2>3. QED
      BY <2>1, <2>2
  <1>7. QED
    BY <1>2, <1>3, <1>5, <1>6 DEF Selected


USE DEF open, bind, handoff, passing, memory, kvbufs, outcome

(***************************************************************************)
(* The tensors of a trunk.                                                 *)
(***************************************************************************)
LEMMA MatrixRows ==
  ASSUME NEW l \in RowLayers, NEW m \in DOMAIN Ts(l)
  PROVE  /\ m \in Nat \ {0} /\ Out(l, m) \in Nat \ {0}
         /\ IsMatrix(l, m) => Out(l, m) <= MaxRows
  <1>1. Tensors[l] \in Seq(TensorType)
    BY RowsAssumption DEF RowLayers
  <1>2. m \in Nat \ {0} /\ Tensors[l][m] \in TensorType
    BY <1>1 DEF Ts
  <1>3. QED
    BY <1>2, RowsAssumption DEF TensorType, Ts, Out, IsMatrix, RowLayers

(* What a pass is asked to do, and what becomes of the call.               *)
CutOf(p) == IF rows_whole_tiles THEN Whole(Out(layer, p.m)) ELSE p.sel
Admitted(p) == Valid(p.sel, Out(layer, p.m)) /\ ~read_error
Refuses == FailPass /\ UNCHANGED <<handoff, asleep>>
Streams(p) ==
  /\ Admitted(p)
  /\ mpc' = "tile" /\ pass' = p /\ k' = 0 /\ slot' = 0
  /\ tile' = SelTile(CutOf(p), 0, per)
  /\ Submit(0, TileBytes(p, CutOf(p), 0, SelTile(CutOf(p), 0, per)))
  /\ y' = [r \in Row |-> Old] /\ UNCHANGED read_error
Buffered(p) ==
  /\ Admitted(p)
  /\ KvbMatches(p) \/ KvbTakes(p)
  /\ pass' = p /\ mpc' = (IF KvbMatches(p) THEN "kapply" ELSE "fill")
  /\ kvb' = IF Pinned \/ KvbMatches(p) THEN kvb ELSE [kvb EXCEPT !.valid = FALSE]
  /\ y' = [r \in Row |-> Old]
  /\ UNCHANGED <<k, slot, tile, handoff, asleep, read_error>>

LEMMA Asks ==
  ASSUME AskPass
  PROVE  \E p \in Passes :
           /\ mpc = "bound" /\ UNCHANGED <<open, bind, memory, pin>>
           /\ kvb' \in {kvb, [kvb EXCEPT !.valid = FALSE]}
           /\ Refuses \/ Streams(p) \/ Buffered(p)
  <1>1. PICK p \in Passes : mpc = "bound" /\ (Pass(p) \/ KvbPass(p))
    BY DEF AskPass
  <1>2. RunStart(p) => Refuses \/ Streams(p)
    BY DEF RunStart, Refuses, Streams, Admitted, CutOf
  <1>3. CASE Pass(p)
    BY <1>1, <1>2, <1>3 DEF Pass
  <1>4. CASE KvbPass(p)
    BY <1>1, <1>2, <1>4 DEF KvbPass, Refuses, Buffered, Admitted
  <1>5. QED
    BY <1>1, <1>3, <1>4

LEMMA PassType ==
  ASSUME NEW p \in Passes, layer \in RowLayers
  PROVE  /\ p \in [m : Nat, sel : SelType, rows : BOOLEAN]
         /\ p.m \in DOMAIN Ts(layer) /\ IsMatrix(layer, p.m)
         /\ p.m \in Nat \ {0} /\ Out(layer, p.m) \in Nat \ {0} /\ Out(layer, p.m) <= MaxRows
  <1>1. PICK m \in DOMAIN Ts(layer), s \in Sels, b \in BOOLEAN :
          IsMatrix(layer, m) /\ p = [m |-> m, sel |-> s, rows |-> b]
    BY DEF Passes
  <1>2. m \in Nat \ {0} /\ Out(layer, m) \in Nat \ {0} /\ Out(layer, m) <= MaxRows
    BY <1>1, MatrixRows
  <1>3. QED
    BY <1>1, <1>2, RowsAssumption

(* The tile a pass stands at.                                              *)
LEMMA AtTile ==
  ASSUME Types, PassValid, Reading
  PROVE  LET out == Out(layer, pass.m)  first == SelRow(Cut, k) IN
         /\ out \in Nat \ {0} /\ out <= MaxRows
         /\ Cut \in {Whole(out), pass.sel} /\ Valid(pass.sel, out)
         /\ k \in Nat /\ tile \in Nat \ {0} /\ first \in Nat /\ first + tile <= out
         /\ TilePart(pass.sel, first, tile)
              = {r \in Selected(pass.sel, out) : r \in first .. first + tile - 1}
         /\ \A r \in Selected(pass.sel, out) :
              (Follows < Total => r < SelRow(Cut, Follows)) => r < first + tile
         /\ NextTile \in Nat /\ (NextTile > 0 <=> Follows < Total)
  <1> DEFINE out == Out(layer, pass.m)
             first == SelRow(Cut, k)
             n == SelTile(Cut, k, per)
  <1>1. /\ layer \in RowLayers /\ pass.m \in DOMAIN Ts(layer) /\ IsMatrix(layer, pass.m)
        /\ Valid(pass.sel, out) /\ k < Total /\ tile = n
        /\ per \in Nat \ {0} /\ k \in Nat /\ pass.sel \in SelType
    BY RowsAssumption DEF Types, RowTypeOK, PassValid, Reading, Passing
  <1>2. out \in Nat \ {0} /\ out <= MaxRows
    BY <1>1, MatrixRows
  <1>3. Cut \in {Whole(out), pass.sel} /\ k < SelCount(Cut, out)
    BY <1>1 DEF Cut, Total
  <1> HIDE DEF out
  <1>4. /\ n \in Nat \ {0} /\ first \in Nat /\ first + n <= out
        /\ TilePart(pass.sel, first, n)
             = {r \in Selected(pass.sel, out) : r \in first .. first + n - 1}
        /\ \A r \in Selected(pass.sel, out) :
             (k + n < SelCount(Cut, out) => r < SelRow(Cut, k + n)) => r < first + n
    BY <1>1, <1>2, <1>3, TilesCover
  <1>5. Follows = k + n /\ Total = SelCount(Cut, out)
    BY <1>1 DEF Follows, Total, out
  <1>6. Follows < Total => SelTile(Cut, Follows, per) \in Nat \ {0}
    <2>1. ASSUME Follows < Total
          PROVE  SelTile(Cut, Follows, per) \in Nat \ {0}
      <3>1. Follows \in Nat /\ Follows < SelCount(Cut, out)
        BY <1>1, <1>4, <1>5, <2>1
      <3>2. QED
        BY <1>1, <1>2, <1>3, <3>1, TilesCover
    <2>2. QED
      BY <2>1
  <1>7. NextTile \in Nat /\ (NextTile > 0 <=> Follows < Total)
    BY <1>6 DEF NextTile
  <1>8. QED
    BY <1>1, <1>2, <1>3, <1>4, <1>5, <1>7 DEF out

(***************************************************************************)
(* The invariant holds at first.                                           *)
(***************************************************************************)
LEMMA InitInv == Init => RowsInv
  <1> SUFFICES ASSUME Init PROVE RowsInv
    OBVIOUS
  <1>1. Types
    <2>1. RowTypeOK
      <3>1. writing \in [Buffers -> SUBSET {"main", "reader"}]
        BY DEF Init
      <3>2. 0 \in 0 .. MaxMatrices /\ 0 \in RowLayers
        BY RowsAssumption DEF RowLayers
      <3>3. job.slot \in Buffers /\ slot \in Buffers
        BY DEF Init, Buffers
      <3>4. QED
        BY <3>1, <3>2, <3>3 DEF Init, RowTypeOK
    <2>2. pass \in [m : Nat, sel : SelType, rows : BOOLEAN]
      BY DEF Init, NoPass, Whole, SelType
    <2>3. QED
      BY <2>1, <2>2 DEF Init, Types
  <1>2. PassValid /\ Spared /\ Filled /\ Delivered
    BY DEF Init, PassValid, Passing, Spared, Filled, Delivered, Reading
  <1>3. Quiet
    BY DEF Init, Quiet, Buffers
  <1>4. KvbHolds /\ Laid
    BY DEF Init, KvbHolds, Laid
  <1>5. QED
    BY <1>1, <1>2, <1>3, <1>4 DEF RowsInv

(***************************************************************************)
(* Types.                                                                  *)
(***************************************************************************)
LEMMA VectorType ==
  ASSUME Types, todo # <<>>
  PROVE  /\ Head(todo) \in TensorType /\ Tail(todo) \in Seq(TensorType)
         /\ Head(todo).n \in Nat \ {0} /\ ArenaStart + Head(todo).n \in Nat
  <1>1. Head(todo) \in TensorType /\ Tail(todo) \in Seq(TensorType)
    BY DEF Types
  <1>2. small_used \in Nat
    BY DEF Types, RowTypeOK
  <1>3. QED
    BY <1>1, <1>2 DEF TensorType, ArenaStart, Align

LEMMA TypesBind ==
  ASSUME Types, BindStep
  PROVE  Types'
  <1> USE DEF Types, RowTypeOK
  <1>1. CASE \E l \in RowLayers : BindStart(l)
    <2>1. PICK l \in RowLayers : BindStart(l)
      BY <1>1
    <2>2. Ts(l) \in Seq(TensorType) /\ 0 \in 0 .. MaxMatrices
      BY RowsAssumption DEF RowLayers, Ts
    <2>3. kvb' = [valid |-> kvb'.valid, l |-> kvb'.l, m |-> kvb'.m, holds |-> kvb'.holds]
      BY <2>1 DEF BindStart
    <2>4. QED
      BY <2>1, <2>2, <2>3 DEF BindStart
  <1>2. CASE AcquireMatrix
    <2>1. count # MaxMatrices => count + 1 \in 0 .. MaxMatrices
      BY RowsAssumption
    <2>2. Tail(todo) \in Seq(TensorType)
      BY <1>2, VectorType DEF AcquireMatrix
    <2>3. CASE count = MaxMatrices
      BY <1>2, <2>3 DEF AcquireMatrix
    <2>4. CASE count # MaxMatrices
      <3>1. /\ count' \in 0 .. MaxMatrices /\ todo' \in Seq(TensorType) /\ mpc' = "acquire"
            /\ UNCHANGED <<layer, small_used>>
        BY <1>2, <2>1, <2>2, <2>4 DEF AcquireMatrix
      <3>2. UNCHANGED <<open, passing, handoff, asleep, memory, kvbufs, outcome, rpc>>
        BY <1>2 DEF AcquireMatrix
      <3>3. QED
        BY <3>1, <3>2
    <2>5. QED
      BY <2>3, <2>4
  <1>3. CASE AcquireVector
    BY <1>3 DEF AcquireVector
  <1>4. CASE VectorBegin
    <2>1. /\ writing' \in [Buffers -> SUBSET {"main", "reader"}]
          /\ buf' = [b \in Buffers |-> buf'[b]]
      BY <1>4 DEF VectorBegin, BeginRead
    <2>2. QED
      BY <1>4, <2>1 DEF VectorBegin
  <1>5. CASE VectorEnd
    <2>1. /\ todo # <<>> /\ Tail(todo) \in Seq(TensorType)
          /\ Head(todo).n \in Nat \ {0} /\ ArenaStart + Head(todo).n \in Nat
      BY <1>5, VectorType DEF VectorEnd
    <2>2. PICK ok \in BOOLEAN :
            /\ EndRead("main", 0, Nothing, ok)
            /\ LET v == Head(todo)
                   done == tile + Lesser(v.n - tile, per)
               IN \/ /\ ~ok /\ mpc' = "failed" /\ UNCHANGED <<bind, tile>>
                  \/ /\ ok /\ done < v.n
                     /\ mpc' = "vector" /\ tile' = done /\ UNCHANGED bind
                  \/ /\ ok /\ done = v.n
                     /\ mpc' = "acquire" /\ tile' = 0
                     /\ small_used' = ArenaStart + v.n /\ todo' = Tail(todo)
                     /\ UNCHANGED <<layer, count>>
      BY <1>5 DEF VectorEnd
    <2>3. /\ writing' \in [Buffers -> SUBSET {"main", "reader"}]
          /\ buf' = [b \in Buffers |-> buf'[b]]
      BY <2>2 DEF EndRead
    <2>4. /\ tile' \in Nat /\ small_used' \in Nat /\ todo' \in Seq(TensorType)
          /\ layer' = layer /\ count' = count
          /\ mpc' \in {"failed", "vector", "acquire"}
          /\ mpc' = "vector" => todo' # <<>>
      <3>1. per \in Nat \ {0}
        BY RowsAssumption
      <3>2. tile + Lesser(Head(todo).n - tile, per) < Head(todo).n
              => tile + Lesser(Head(todo).n - tile, per) \in Nat
        BY <2>1, <3>1 DEF Lesser
      <3>3. \/ mpc' = "failed" /\ UNCHANGED <<bind, tile>>
            \/ /\ mpc' = "vector" /\ tile' \in Nat /\ UNCHANGED bind
            \/ /\ mpc' = "acquire" /\ tile' = 0
               /\ small_used' \in Nat /\ todo' = Tail(todo)
               /\ UNCHANGED <<layer, count>>
        BY <2>1, <2>2, <3>2
      <3>4. CASE mpc' = "failed" /\ UNCHANGED <<bind, tile>>
        BY <3>4
      <3>5. CASE mpc' = "vector" /\ tile' \in Nat /\ UNCHANGED bind
        BY <3>5, <2>1
      <3>6. CASE /\ mpc' = "acquire" /\ tile' = 0
                 /\ small_used' \in Nat /\ todo' = Tail(todo)
                 /\ UNCHANGED <<layer, count>>
        BY <3>6, <2>1
      <3>7. QED
        BY <3>3, <3>4, <3>5, <3>6
    <2>5. QED
      BY <1>5, <2>3, <2>4 DEF VectorEnd
  <1>6. CASE Bound
    BY <1>6 DEF Bound
  <1>7. QED
    BY <1>1, <1>2, <1>3, <1>4, <1>5, <1>6 DEF BindStep

LEMMA Returned ==
  ASSUME Return
  PROVE  /\ pass' \in [m : Nat, sel : SelType, rows : BOOLEAN]
         /\ k' \in Nat /\ tile' \in Nat /\ slot' \in Buffers /\ mpc' = "bound"
  BY DEF Return, NoPass, Whole, SelType, Buffers

LEMMA TypesPass ==
  ASSUME Types, PassValid, PassStep
  PROVE  Types'
  <1> USE DEF Types, RowTypeOK
  <1>1. CASE TileFailed
    BY <1>1, Returned DEF TileFailed, FailPass
  <1>2. CASE TileReady
    <2>1. Spare \in Buffers
      BY DEF Spare, Buffers
    <2>2. QED
      <3>1. /\ busy' \in BOOLEAN /\ job'.slot \in Buffers
            /\ asleep' \subseteq {"main", "reader"} /\ UNCHANGED <<result, stop, rpc>>
        <4>1. CASE NextTile > 0
          BY <1>2, <2>1, <4>1 DEF TileReady, Submit
        <4>2. CASE ~(NextTile > 0)
          BY <1>2, <4>2 DEF TileReady
        <4>3. QED
          BY <4>1, <4>2
      <3>2. QED
        BY <1>2, <3>1 DEF TileReady
  <1>3. CASE ApplyTile
    <2>1. mpc = "apply" /\ Reading
      BY <1>3 DEF ApplyTile, Reading
    <2>2. k \in Nat /\ tile \in Nat /\ NextTile \in Nat
      BY <2>1, AtTile
    <2>3. Follows \in Nat
      BY <2>2 DEF Follows
    <2>4. y' = [r \in Row |-> y'[r]]
      BY <1>3 DEF ApplyTile, Applied
    <2>5. CASE Follows < Total
      BY <1>3, <2>2, <2>3, <2>4, <2>5 DEF ApplyTile, Buffers
    <2>6. CASE ~(Follows < Total)
      BY <1>3, <2>4, <2>6, Returned DEF ApplyTile
    <2>7. QED
      BY <2>5, <2>6
  <1>4. CASE KvbFill
    <2>1. /\ kvb' = [valid |-> kvb'.valid, l |-> kvb'.l, m |-> kvb'.m, holds |-> kvb'.holds]
          /\ pin' = [l \in RowLayers |-> [m |-> pin'[l].m, holds |-> pin'[l].holds]]
      BY <1>4 DEF KvbFill
    <2>2. \/ mpc' = "kapply" /\ UNCHANGED <<passing, outcome>>
          \/ FailPass
      BY <1>4 DEF KvbFill
    <2>3. CASE mpc' = "kapply" /\ UNCHANGED <<passing, outcome>>
      BY <1>4, <2>1, <2>3 DEF KvbFill
    <2>4. CASE FailPass
      <3>1. read_error' = TRUE /\ y' = [r \in Row |-> y'[r]] /\ Return
        BY <2>4 DEF FailPass
      <3>2. QED
        BY <1>4, <2>1, <3>1, Returned DEF KvbFill
    <2>5. QED
      BY <2>2, <2>3, <2>4
  <1>5. CASE KvbApply
    BY <1>5, Returned DEF KvbApply, Applied
  <1>6. QED
    BY <1>1, <1>2, <1>3, <1>4, <1>5 DEF PassStep

LEMMA TypesAsk ==
  ASSUME Types, AskPass
  PROVE  Types'
  <1> USE DEF Types, RowTypeOK
  <1>1. PICK p \in Passes :
          /\ mpc = "bound" /\ UNCHANGED <<open, bind, memory, pin>>
          /\ kvb' \in {kvb, [kvb EXCEPT !.valid = FALSE]}
          /\ Refuses \/ Streams(p) \/ Buffered(p)
    BY Asks
  <1>2. kvb' = [valid |-> kvb'.valid, l |-> kvb'.l, m |-> kvb'.m, holds |-> kvb'.holds]
    BY <1>1
  <1>3. /\ p \in [m : Nat, sel : SelType, rows : BOOLEAN]
        /\ Out(layer, p.m) \in Nat \ {0}
    BY PassType
  <1>4. CASE Refuses
    BY <1>1, <1>2, <1>4, Returned DEF Refuses, FailPass
  <1>5. CASE Streams(p)
    <2>1. tile' \in Nat
      <3>1. /\ CutOf(p) \in {Whole(Out(layer, p.m)), p.sel}
            /\ Valid(p.sel, Out(layer, p.m)) /\ p.sel \in SelType
        BY <1>3, <1>5 DEF CutOf, Streams, Admitted
      <3>2. 0 \in Nat /\ 0 < SelCount(CutOf(p), Out(layer, p.m))
        BY <1>3, <3>1, FirstTile
      <3>3. per \in Nat \ {0}
        BY RowsAssumption
      <3>4. SelTile(CutOf(p), 0, per) \in Nat \ {0}
        BY <1>3, <3>1, <3>2, <3>3, TilesCover
      <3>5. QED
        BY <1>5, <3>4 DEF Streams
    <2>2. QED
      BY <1>1, <1>2, <1>3, <1>5, <2>1 DEF Streams, Submit, Buffers
  <1>6. CASE Buffered(p)
    BY <1>1, <1>2, <1>3, <1>6 DEF Buffered
  <1>7. QED
    BY <1>1, <1>4, <1>5, <1>6

LEMMA TypesRest ==
  ASSUME Types, LayerDone \/ MainSleep \/ Close \/ Join \/ Reader \/ SpuriousWakeup \/ Closed
                \/ UNCHANGED vars
  PROVE  Types'
  <1> USE DEF Types, RowTypeOK
  <1>1. CASE LayerDone \/ MainSleep \/ Close \/ Join
    <2>1. CASE LayerDone
      <3>1. y' = [r \in Row |-> y'[r]] /\ mpc' \in {"failed", "next"}
        BY <2>1 DEF LayerDone
      <3>2. QED
        BY <2>1, <3>1 DEF LayerDone
    <2>2. CASE MainSleep
      BY <2>2 DEF MainSleep
    <2>3. CASE Close
      BY <2>3 DEF Close
    <2>4. CASE Join
      BY <2>4 DEF Join
    <2>5. QED
      BY <1>1, <2>1, <2>2, <2>3, <2>4
  <1>2. CASE ReaderSleep \/ SpuriousWakeup \/ Closed \/ UNCHANGED vars
    BY <1>2 DEF ReaderSleep, SpuriousWakeup, Closed, vars
  <1>3. CASE ReaderTake
    BY <1>3 DEF ReaderTake, BeginRead
  <1>4. CASE ReaderPost
    <2>1. /\ writing' \in [Buffers -> SUBSET {"main", "reader"}]
          /\ buf' = [b \in Buffers |-> buf'[b]]
          /\ result' \in {0, -1}
      <3>1. PICK ok \in BOOLEAN :
              /\ EndRead("reader", job.slot, job.bytes, ok)
              /\ result' = IF ok THEN 0 ELSE -1
        BY <1>4 DEF ReaderPost
      <3>2. /\ writing' = [writing EXCEPT ![job.slot] = @ \ {"reader"}]
            /\ buf' = [buf EXCEPT ![job.slot] = buf'[job.slot]]
        BY <3>1 DEF EndRead
      <3>3. QED
        BY <3>1, <3>2
    <2>2. /\ rpc' = "wait" /\ busy' = FALSE /\ asleep' = {}
          /\ UNCHANGED <<open, mpc, bind, passing, job, stop, kvbufs, outcome>>
      BY <1>4 DEF ReaderPost
    <2>3. RowTypeOK'
      BY <2>1, <2>2
    <2>4. QED
      BY <2>1, <2>2, <2>3
  <1>5. QED
    BY <1>1, <1>2, <1>3, <1>4 DEF Reader

LEMMA TypesStep == Types /\ PassValid /\ [Next]_vars => Types'
  BY TypesBind, TypesPass, TypesAsk, TypesRest DEF Next, Main

(***************************************************************************)
(* A pass in progress is one that was admitted, at a tile of its own.      *)
(***************************************************************************)
LEMMA StreamStarts ==
  ASSUME Types, NEW p \in Passes, Streams(p), UNCHANGED <<open, bind>>
  PROVE  /\ PassValid' /\ Cut' = CutOf(p) /\ k' = 0
         /\ Out(layer, p.m) \in Nat \ {0}
         /\ CutOf(p) \in {Whole(Out(layer, p.m)), p.sel}
         /\ p.sel \in SelType /\ Valid(p.sel, Out(layer, p.m))
  <1> DEFINE out == Out(layer, p.m)
  <1>1. /\ p \in [m : Nat, sel : SelType, rows : BOOLEAN]
        /\ p.m \in DOMAIN Ts(layer) /\ IsMatrix(layer, p.m) /\ out \in Nat \ {0}
    BY PassType DEF Types, RowTypeOK
  <1>2. CutOf(p) \in {Whole(out), p.sel} /\ p.sel \in SelType /\ Valid(p.sel, out)
    BY <1>1 DEF CutOf, Streams, Admitted
  <1>3. 0 < SelCount(CutOf(p), out)
    BY <1>1, <1>2, FirstTile
  <1>4. /\ layer' = layer /\ per' = per /\ pass' = p /\ k' = 0 /\ mpc' = "tile"
        /\ rows_whole_tiles' = rows_whole_tiles /\ tile' = SelTile(CutOf(p), 0, per)
    BY DEF Streams
  <1>5. Cut' = CutOf(p) /\ Total' = SelCount(CutOf(p), out)
    BY <1>4 DEF Cut, CutOf, Total, Out, Ts
  <1>6. PassValid'
    BY <1>1, <1>2, <1>3, <1>4, <1>5 DEF PassValid, Passing, Reading, Ts, IsMatrix, Out
  <1>7. QED
    BY <1>1, <1>2, <1>4, <1>5, <1>6

LEMMA PassValidStep ==
  ASSUME Types, PassValid, [Next]_vars
  PROVE  PassValid'
  <1> USE DEF Passing, Reading
  <1>1. CASE BindStep
    BY <1>1 DEF BindStep, BindStart, AcquireMatrix, AcquireVector, VectorBegin, VectorEnd,
                Bound, PassValid
  <1>2. CASE TileFailed \/ KvbApply
    BY <1>2 DEF TileFailed, FailPass, KvbApply, Return, PassValid
  <1>3. CASE TileReady
    BY <1>3 DEF TileReady, PassValid, Total, Cut, Out, Ts, IsMatrix
  <1>4. CASE ApplyTile
    <2>1. CASE Follows < Total
      <3>1. /\ mpc = "apply" /\ mpc' = "tile" /\ pass' = pass /\ UNCHANGED <<open, bind>>
            /\ k' = Follows /\ tile' = SelTile(Cut, Follows, per)
        BY <1>4, <2>1 DEF ApplyTile, NextTile
      <3>2. Cut' = Cut /\ Total' = Total
        BY <3>1 DEF Cut, Total, Out, Ts
      <3>3. QED
        BY <2>1, <3>1, <3>2 DEF PassValid, Out, Ts, IsMatrix
    <2>2. CASE ~(Follows < Total)
      BY <1>4, <2>2 DEF ApplyTile, Return, PassValid
    <2>3. QED
      BY <2>1, <2>2
  <1>5. CASE KvbFill
    <2>1. CASE mpc' = "kapply" /\ UNCHANGED <<passing, outcome>>
      BY <1>5, <2>1 DEF KvbFill, PassValid, Out, Ts, IsMatrix
    <2>2. CASE FailPass
      BY <2>2 DEF FailPass, Return, PassValid
    <2>3. QED
      BY <1>5, <2>1, <2>2 DEF KvbFill
  <1>6. CASE AskPass
    <2>1. PICK p \in Passes :
            /\ mpc = "bound" /\ UNCHANGED <<open, bind, memory, pin>>
            /\ Refuses \/ Streams(p) \/ Buffered(p)
      BY <1>6, Asks
    <2>2. CASE Refuses
      BY <2>2 DEF Refuses, FailPass, Return, PassValid
    <2>3. CASE Streams(p)
      BY <2>1, <2>3, StreamStarts
    <2>4. CASE Buffered(p)
      <3>1. p.m \in DOMAIN Ts(layer) /\ IsMatrix(layer, p.m)
        BY PassType DEF Types, RowTypeOK
      <3>2. QED
        BY <2>1, <2>4, <3>1 DEF Buffered, Admitted, PassValid, Out, Ts, IsMatrix
    <2>5. QED
      BY <2>1, <2>2, <2>3, <2>4
  <1>7. CASE LayerDone \/ Close \/ Join
    BY <1>7 DEF LayerDone, Close, Join, PassValid
  <1>8. CASE MainSleep \/ Reader \/ SpuriousWakeup \/ Closed \/ UNCHANGED vars
    <2>1. UNCHANGED <<mpc, open, bind, passing>>
      BY <1>8 DEF MainSleep, Reader, ReaderSleep, ReaderTake, ReaderPost, SpuriousWakeup,
                  Closed, vars
    <2>2. QED
      BY <2>1 DEF PassValid, Total, Cut, Out, Ts, IsMatrix
  <1>9. QED
    BY <1>1, <1>2, <1>3, <1>4, <1>5, <1>6, <1>7, <1>8 DEF Next, Main, PassStep

(***************************************************************************)
(* No read outlives its pass, and no buffer has two writers.               *)
(***************************************************************************)
LEMMA QuietStep ==
  ASSUME Types, PassValid, Quiet, Spared, [Next]_vars
  PROVE  Quiet'
  <1> USE DEF Reading
  <1>1. writing \in [Buffers -> SUBSET {"main", "reader"}] /\ job.slot \in Buffers
        /\ 0 \in Buffers
    BY DEF Types, RowTypeOK, Buffers
  <1>2. CASE \/ \E l \in RowLayers : BindStart(l)
             \/ AcquireMatrix \/ AcquireVector \/ Bound
             \/ LayerDone \/ Close \/ Join \/ TileFailed \/ KvbFill \/ KvbApply
    <2>1. /\ UNCHANGED <<memory, busy, rpc, job>>
          /\ mpc # "vread" /\ mpc' # "vread" /\ ~busy
      BY <1>2 DEF BindStart, AcquireMatrix, AcquireVector, Bound, LayerDone, Close, Join,
                  TileFailed, KvbFill, KvbApply, FailPass, Return, AwaitIdle, Quiet
    <2>2. QED
      BY <2>1 DEF Quiet
  <1>3. CASE VectorBegin
    <2>1. /\ mpc = "vector" /\ mpc' = "vread" /\ UNCHANGED handoff /\ ~busy /\ rpc # "read"
          /\ writing' = [writing EXCEPT ![0] = @ \cup {"main"}]
      BY <1>3 DEF VectorBegin, BeginRead, Quiet
    <2>2. QED
      BY <1>1, <2>1 DEF Quiet
  <1>4. CASE VectorEnd
    <2>1. /\ mpc = "vread" /\ mpc' \in {"failed", "vector", "acquire"}
          /\ UNCHANGED handoff /\ ~busy /\ rpc # "read"
          /\ writing' = [writing EXCEPT ![0] = @ \ {"main"}]
      BY <1>4 DEF VectorEnd, EndRead, Quiet
    <2>2. QED
      BY <1>1, <2>1 DEF Quiet
  <1>5. CASE TileReady
    <2>1. /\ mpc = "tile" /\ mpc' = "apply" /\ ~busy /\ rpc # "read" /\ rpc' = rpc
          /\ UNCHANGED memory
      BY <1>5 DEF TileReady, AwaitIdle, Submit, Quiet
    <2>2. QED
      BY <2>1 DEF Quiet
  <1>6. CASE ApplyTile
    <2>1. /\ mpc = "apply" /\ UNCHANGED <<memory, handoff>>
          /\ mpc' = IF Follows < Total THEN "tile" ELSE "bound"
      BY <1>6 DEF ApplyTile, Return
    <2>2. NextTile > 0 <=> Follows < Total
      BY <2>1, AtTile
    <2>3. busy => Follows < Total
      BY <2>1, <2>2 DEF Spared
    <2>4. QED
      BY <2>1, <2>3 DEF Quiet
  <1>7. CASE AskPass
    <2>1. PICK p \in Passes :
            /\ mpc = "bound" /\ UNCHANGED <<open, bind, memory, pin>>
            /\ Refuses \/ Streams(p) \/ Buffered(p)
      BY <1>7, Asks
    <2>2. ~busy /\ rpc # "read"
      BY <2>1 DEF Quiet
    <2>3. /\ rpc' = rpc /\ mpc' \in {"bound", "tile", "fill", "kapply"}
          /\ busy' => mpc' = "tile"
      BY <2>1, <2>2 DEF Refuses, FailPass, Return, Streams, Submit, Buffered
    <2>4. QED
      BY <2>1, <2>2, <2>3 DEF Quiet
  <1>8. CASE MainSleep \/ ReaderSleep \/ SpuriousWakeup \/ Closed \/ UNCHANGED vars
    BY <1>8 DEF MainSleep, ReaderSleep, SpuriousWakeup, Closed, vars, Quiet
  <1>9. CASE ReaderTake
    <2>1. CASE stop
      BY <1>9, <2>1 DEF ReaderTake, Quiet
    <2>2. CASE ~stop
      <3>1. /\ busy /\ rpc = "wait" /\ rpc' = "read" /\ UNCHANGED <<mpc, busy, job>>
            /\ writing' = [writing EXCEPT ![job.slot] = @ \cup {"reader"}]
        BY <1>9, <2>2 DEF ReaderTake, BeginRead
      <3>2. QED
        BY <1>1, <3>1 DEF Quiet
    <2>3. QED
      BY <2>1, <2>2
  <1>10. CASE ReaderPost
    <2>1. /\ rpc = "read" /\ rpc' = "wait" /\ busy' = FALSE /\ UNCHANGED <<mpc, job>>
          /\ writing' = [writing EXCEPT ![job.slot] = @ \ {"reader"}]
      BY <1>10 DEF ReaderPost, EndRead
    <2>2. QED
      BY <1>1, <2>1 DEF Quiet
  <1>11. QED
    BY <1>2, <1>3, <1>4, <1>5, <1>6, <1>7, <1>8, <1>9, <1>10
       DEF Next, Main, BindStep, PassStep, Reader

(***************************************************************************)
(* What the buffers hold.                                                  *)
(***************************************************************************)
(* Most steps stay outside the tiles of a pass.                            *)
LEMMA OutsideStep ==
  ASSUME Types, PassValid, Quiet, [Next]_vars, ~Reading'
  PROVE  Spared' /\ Filled'
  BY DEF Reading, Spared, Filled

LEMMA SameTile ==
  ASSUME UNCHANGED <<open, bind, passing>>
  PROVE  /\ Cut' = Cut /\ Total' = Total /\ Follows' = Follows /\ NextTile' = NextTile
         /\ Spare' = Spare
         /\ \A at, n : TileBytes(pass, Cut, at, n)' = TileBytes(pass, Cut, at, n)
  <1>1. Cut' = Cut /\ Total' = Total /\ Follows' = Follows /\ Spare' = Spare
    BY DEF Cut, Total, Follows, Spare, Out, Ts
  <1>2. NextTile' = NextTile
    BY <1>1 DEF NextTile
  <1>3. QED
    BY <1>1, <1>2 DEF TileBytes

LEMMA FilledStep ==
  ASSUME Types, PassValid, Quiet, Spared, Filled, [Next]_vars
  PROVE  Spared' /\ Filled'
  <1> USE DEF Reading
  <1>1. slot \in Buffers /\ Spare \in Buffers /\ Spare # slot /\ Buffers = {0, 1}
        /\ job.slot \in Buffers
    BY DEF Types, RowTypeOK, Buffers, Spare
  <1>2. CASE TileReady
    <2>1. /\ mpc = "tile" /\ mpc' = "apply" /\ ~busy /\ result = 0
          /\ UNCHANGED <<open, bind, passing, memory>>
          /\ IF NextTile > 0
             THEN Submit(Spare, TileBytes(pass, Cut, Follows, NextTile))
             ELSE UNCHANGED <<handoff, asleep>>
      BY <1>2 DEF TileReady, AwaitIdle
    <2>2. /\ NextTile' = NextTile /\ Cut' = Cut /\ Follows' = Follows /\ Spare' = Spare
          /\ \A at, n : TileBytes(pass, Cut, at, n)' = TileBytes(pass, Cut, at, n)
      BY <2>1, SameTile
    <2>3. buf'[slot'] = TileBytes(pass, Cut, k, tile)'
      <3>1. buf[slot] = TileBytes(pass, Cut, k, tile)
        BY <2>1 DEF Filled, Comes
      <3>2. QED
        BY <3>1, <2>1 DEF TileBytes, Cut, Out, Ts
    <2>4. CASE NextTile > 0
      <3>1. busy' = TRUE /\ job' = [bytes |-> TileBytes(pass, Cut, Follows, NextTile), slot |-> Spare]
        BY <2>1, <2>4 DEF Submit
      <3>2. TileBytes(pass, Cut, Follows, NextTile)' = TileBytes(pass, Cut, Follows, NextTile)
        BY <2>1, <2>2 DEF TileBytes
      <3>3. QED
        BY <2>1, <2>2, <2>3, <2>4, <3>1, <3>2 DEF Spared, Filled, Comes
    <2>5. CASE ~(NextTile > 0)
      BY <2>1, <2>2, <2>3, <2>5 DEF Spared, Filled
    <2>6. QED
      BY <2>4, <2>5
  <1>3. CASE ApplyTile
    <2>1. CASE Follows < Total
      <3>1. /\ mpc = "apply" /\ mpc' = "tile" /\ UNCHANGED <<open, bind, handoff, memory, pass>>
            /\ k' = Follows /\ tile' = NextTile /\ slot' = 1 - slot
        BY <1>3, <2>1 DEF ApplyTile
      <3>2. NextTile > 0
        BY <2>1, <3>1, AtTile
      <3>3. Comes(Spare, Follows, NextTile)
        BY <3>1, <3>2 DEF Filled
      <3>4. Cut' = Cut /\ slot' = Spare
        BY <3>1 DEF Cut, Out, Ts, Spare
      <3>5. TileBytes(pass, Cut, k, tile)' = TileBytes(pass, Cut, Follows, NextTile)
        BY <3>1, <3>4 DEF TileBytes
      <3>6. Comes(slot, k, tile)'
        BY <3>1, <3>3, <3>4, <3>5 DEF Comes
      <3>7. QED
        BY <3>1, <3>6 DEF Spared, Filled
    <2>2. CASE ~(Follows < Total)
      BY <1>3, <2>2, OutsideStep DEF ApplyTile, Return
    <2>3. QED
      BY <2>1, <2>2
  <1>4. CASE AskPass
    <2>1. PICK p \in Passes :
            /\ mpc = "bound" /\ UNCHANGED <<open, bind, memory, pin>>
            /\ Refuses \/ Streams(p) \/ Buffered(p)
      BY <1>4, Asks
    <2>2. CASE Refuses \/ Buffered(p)
      BY <2>2, OutsideStep DEF Refuses, FailPass, Return, Buffered
    <2>3. CASE Streams(p)
      <3>1. Cut' = CutOf(p) /\ k' = 0
        BY <2>1, <2>3, StreamStarts
      <3>2. /\ mpc' = "tile" /\ pass' = p /\ slot' = 0 /\ busy' = TRUE /\ layer' = layer
            /\ tile' = SelTile(CutOf(p), 0, per)
            /\ job' = [bytes |-> TileBytes(p, CutOf(p), 0, SelTile(CutOf(p), 0, per)), slot |-> 0]
        BY <2>1, <2>3 DEF Streams, Submit
      <3>3. TileBytes(pass, Cut, k, tile)' = TileBytes(p, CutOf(p), 0, SelTile(CutOf(p), 0, per))
        BY <3>1, <3>2 DEF TileBytes
      <3>4. QED
        BY <3>2, <3>3 DEF Spared, Filled, Comes
    <2>4. QED
      BY <2>1, <2>2, <2>3
  <1>5. CASE MainSleep \/ ReaderSleep \/ SpuriousWakeup \/ Closed \/ UNCHANGED vars
    <2>1. UNCHANGED <<open, bind, passing, mpc, handoff, memory>>
      BY <1>5 DEF MainSleep, ReaderSleep, SpuriousWakeup, Closed, vars
    <2>2. QED
      BY <2>1, SameTile DEF Spared, Filled, Comes, TileBytes, Cut, Out, Ts
  <1>6. CASE ReaderTake
    <2>1. /\ UNCHANGED <<open, bind, passing, mpc, busy, result, job>>
          /\ \/ UNCHANGED memory
             \/ ~stop /\ busy /\ buf' = [buf EXCEPT ![job.slot] = Nothing]
      BY <1>6 DEF ReaderTake, BeginRead
    <2>2. /\ NextTile' = NextTile /\ Cut' = Cut /\ Follows' = Follows /\ Spare' = Spare
      BY <2>1, SameTile
    <2>3. /\ TileBytes(pass, Cut, k, tile)' = TileBytes(pass, Cut, k, tile)
          /\ TileBytes(pass, Cut, Follows, NextTile)' = TileBytes(pass, Cut, Follows, NextTile)
      BY <2>1, <2>2 DEF TileBytes
    <2>4. mpc = "apply" => buf'[slot] = buf[slot]
      BY <1>1, <2>1 DEF Types, Spared
    <2>5. Spared'
      BY <2>1, <2>2 DEF Spared
    <2>6. mpc' = "tile" => Comes(slot, k, tile)'
      BY <2>1, <2>3 DEF Filled, Comes
    <2>7. mpc' = "apply" => /\ buf'[slot'] = TileBytes(pass, Cut, k, tile)'
                            /\ NextTile' > 0 => Comes(Spare, Follows, NextTile)'
      BY <2>1, <2>2, <2>3, <2>4 DEF Filled, Comes
    <2>8. QED
      BY <2>5, <2>6, <2>7 DEF Filled
  <1>7. CASE ReaderPost
    <2>1. PICK ok \in BOOLEAN :
            /\ EndRead("reader", job.slot, job.bytes, ok)
            /\ result' = IF ok THEN 0 ELSE -1
      BY <1>7 DEF ReaderPost
    <2>2. /\ rpc = "read" /\ busy /\ busy' = FALSE /\ UNCHANGED <<open, bind, passing, mpc, job>>
      BY <1>7 DEF ReaderPost, Quiet
    <2>3. writing[job.slot] = {"reader"}
      BY <1>1, <2>2 DEF Quiet
    <2>4. /\ buf'[job.slot] = IF ok THEN job.bytes ELSE Nothing
          /\ \A b \in Buffers : b # job.slot => buf'[b] = buf[b]
      BY <1>1, <2>1, <2>3 DEF EndRead, Types
    <2>5. /\ NextTile' = NextTile /\ Cut' = Cut /\ Follows' = Follows /\ Spare' = Spare
      BY <2>2, SameTile
    <2>6. /\ TileBytes(pass, Cut, k, tile)' = TileBytes(pass, Cut, k, tile)
          /\ TileBytes(pass, Cut, Follows, NextTile)' = TileBytes(pass, Cut, Follows, NextTile)
      BY <2>2, <2>5 DEF TileBytes
    <2>7. Spared'
      BY <2>2 DEF Spared
    <2>8. mpc' = "tile" => Comes(slot, k, tile)'
      BY <2>1, <2>2, <2>4, <2>6 DEF Filled, Comes
    <2>9. mpc' = "apply" => /\ buf'[slot'] = TileBytes(pass, Cut, k, tile)'
                            /\ NextTile' > 0 => Comes(Spare, Follows, NextTile)'
      <3>1. SUFFICES ASSUME mpc = "apply"
                     PROVE  /\ buf'[slot] = TileBytes(pass, Cut, k, tile)
                            /\ Comes(Spare, Follows, NextTile)'
        BY <2>2, <2>6
      <3>2. job.slot = Spare /\ NextTile > 0
        BY <2>2, <3>1 DEF Spared
      <3>3. job = [bytes |-> TileBytes(pass, Cut, Follows, NextTile), slot |-> Spare]
        BY <2>2, <3>1, <3>2 DEF Filled, Comes
      <3>4. buf'[slot] = TileBytes(pass, Cut, k, tile)
        BY <1>1, <2>4, <3>1, <3>2 DEF Filled
      <3>5. result' = 0 => buf'[Spare] = TileBytes(pass, Cut, Follows, NextTile)
        BY <2>1, <2>4, <3>2, <3>3
      <3>6. QED
        BY <2>2, <2>5, <2>6, <3>4, <3>5 DEF Comes
    <2>10. QED
      BY <2>7, <2>8, <2>9 DEF Filled
  <1>8. CASE BindStep \/ TileFailed \/ KvbFill \/ KvbApply \/ LayerDone \/ Close \/ Join
    <2>1. ~Reading'
      BY <1>8 DEF BindStep, BindStart, AcquireMatrix, AcquireVector, VectorBegin, VectorEnd,
                  Bound, TileFailed, KvbFill, KvbApply, LayerDone, Close, Join, FailPass, Return
    <2>2. QED
      BY <2>1, OutsideStep
  <1>9. QED
    BY <1>2, <1>3, <1>4, <1>5, <1>6, <1>7, <1>8 DEF Next, Main, PassStep, Reader

(***************************************************************************)
(* What the kv_b buffers hold.                                             *)
(***************************************************************************)
LEMMA KvbStep ==
  ASSUME Types, PassValid, KvbHolds, [Next]_vars
  PROVE  KvbHolds'
  <1>1. layer \in RowLayers /\ pin = [l \in RowLayers |-> [m |-> pin[l].m, holds |-> pin[l].holds]]
        /\ kvb = [valid |-> kvb.valid, l |-> kvb.l, m |-> kvb.m, holds |-> kvb.holds]
    BY DEF Types, RowTypeOK
  <1>2. CASE \E l \in RowLayers : BindStart(l)
    <2>1. mpc' = "acquire" /\ pin' = pin /\ kvb' = [kvb EXCEPT !.valid = FALSE]
      BY <1>2 DEF BindStart
    <2>2. ~kvb'.valid
      BY <1>1, <2>1
    <2>3. QED
      BY <2>1, <2>2 DEF KvbHolds
  <1>3. CASE KvbFill
    <2> DEFINE bytes == AllOf(layer, pass.m)
    <2>1. /\ mpc = "fill" /\ UNCHANGED <<open, bind>>
          /\ \/ /\ mpc' = "kapply" /\ UNCHANGED passing
                /\ IF Pinned
                   THEN /\ pin' = [pin EXCEPT ![layer] = [m |-> pass.m, holds |-> bytes]]
                        /\ UNCHANGED kvb
                   ELSE /\ kvb' = [valid |-> TRUE, l |-> layer, m |-> pass.m, holds |-> bytes]
                        /\ UNCHANGED pin
             \/ /\ mpc' = "bound"
                /\ kvb' = IF Pinned THEN kvb ELSE [kvb EXCEPT !.holds = Nothing]
                /\ pin' = IF Pinned THEN [pin EXCEPT ![layer].holds = Nothing] ELSE pin
      BY <1>3 DEF KvbFill, AllOf, FailPass, Return
    <2>2. Pinned' = Pinned
      BY <2>1 DEF Pinned
    <2> HIDE DEF bytes
    <2>3. CASE mpc' = "kapply" /\ Pinned
      <3>1. pin' = [pin EXCEPT ![layer] = [m |-> pass.m, holds |-> bytes]]
            /\ UNCHANGED <<kvb, passing, bind>>
        BY <2>1, <2>3
      <3>2. pin'[layer].m = pass.m /\ pin'[layer].holds = bytes
            /\ \A l \in RowLayers : l # layer => pin'[l] = pin[l]
        BY <1>1, <3>1
      <3>3. \A l \in RowLayers : pin'[l].m # 0 => pin'[l].holds = AllOf(l, pin'[l].m)
        BY <3>2 DEF KvbHolds, bytes
      <3>4. QED
        BY <3>1, <3>2, <3>3, <2>2, <2>3 DEF KvbHolds
    <2>4. CASE mpc' = "kapply" /\ ~Pinned
      BY <2>1, <2>2, <2>4 DEF KvbHolds, bytes
    <2>5. CASE mpc' = "bound" /\ Pinned
      <3>1. pin' = [pin EXCEPT ![layer].holds = Nothing] /\ UNCHANGED kvb
        BY <2>1, <2>5
      <3>2. pin'[layer].m = 0 /\ \A l \in RowLayers : l # layer => pin'[l] = pin[l]
        BY <1>1, <2>1, <2>5, <3>1 DEF KvbHolds
      <3>3. QED
        BY <3>1, <3>2, <2>5 DEF KvbHolds
    <2>6. CASE mpc' = "bound" /\ ~Pinned
      <3>1. ~kvb'.valid /\ UNCHANGED pin
        BY <1>1, <2>1, <2>6 DEF KvbHolds
      <3>2. QED
        BY <3>1, <2>6 DEF KvbHolds
    <2>7. QED
      BY <2>1, <2>3, <2>4, <2>5, <2>6
  <1>4. CASE AskPass
    <2>1. PICK p \in Passes :
            /\ mpc = "bound" /\ UNCHANGED <<open, bind, memory, pin>>
            /\ kvb' \in {kvb, [kvb EXCEPT !.valid = FALSE]}
            /\ Refuses \/ Streams(p) \/ Buffered(p)
      BY <1>4, Asks
    <2>2. kvb'.valid => kvb'.holds = AllOf(kvb'.l, kvb'.m)
      BY <1>1, <2>1 DEF KvbHolds
    <2>3. CASE Refuses \/ Streams(p)
      <3>1. mpc' \in {"bound", "tile"}
        BY <2>3 DEF Refuses, FailPass, Return, Streams
      <3>2. QED
        BY <2>1, <2>2, <3>1 DEF KvbHolds
    <2>4. CASE Buffered(p)
      <3>1. /\ pass' = p /\ mpc' = (IF KvbMatches(p) THEN "kapply" ELSE "fill")
            /\ kvb' = IF Pinned \/ KvbMatches(p) THEN kvb ELSE [kvb EXCEPT !.valid = FALSE]
            /\ (KvbMatches(p) \/ KvbTakes(p)) /\ UNCHANGED <<open, bind, pin>>
        BY <2>1, <2>4 DEF Buffered
      <3>2. Pinned' = Pinned
        BY <3>1 DEF Pinned
      <3>3. CASE KvbMatches(p)
        BY <2>2, <3>1, <3>2, <3>3 DEF KvbMatches, KvbHolds
      <3>4. CASE ~KvbMatches(p)
        <4>1. Pinned => pin[layer].m = 0
          BY <3>1, <3>4 DEF KvbTakes
        <4>2. ~Pinned => ~kvb'.valid
          BY <1>1, <3>1, <3>4
        <4>3. QED
          BY <2>2, <3>1, <3>2, <3>4, <4>1, <4>2 DEF KvbHolds
      <3>5. QED
        BY <3>3, <3>4
    <2>5. QED
      BY <2>1, <2>3, <2>4
  <1>5. CASE \/ AcquireMatrix \/ AcquireVector \/ VectorBegin \/ VectorEnd \/ Bound
             \/ TileFailed \/ TileReady \/ ApplyTile \/ KvbApply \/ LayerDone \/ Close \/ Join
    <2>1. mpc' \notin {"fill", "kapply"} /\ UNCHANGED kvbufs
      BY <1>5 DEF AcquireMatrix, AcquireVector, VectorBegin, VectorEnd, Bound, TileFailed,
                  TileReady, ApplyTile, KvbApply, LayerDone, Close, Join, FailPass, Return
    <2>2. QED
      BY <2>1 DEF KvbHolds
  <1>6. CASE MainSleep \/ Reader \/ SpuriousWakeup \/ Closed \/ UNCHANGED vars
    <2>1. UNCHANGED <<mpc, open, bind, passing, kvbufs>>
      BY <1>6 DEF MainSleep, Reader, ReaderSleep, ReaderTake, ReaderPost, SpuriousWakeup,
                  Closed, vars
    <2>2. QED
      BY <2>1 DEF KvbHolds, Pinned
  <1>7. QED
    BY <1>2, <1>3, <1>4, <1>5, <1>6 DEF Next, Main, BindStep, PassStep

(***************************************************************************)
(* What is applied.                                                        *)
(***************************************************************************)
LEMMA TileApplied ==
  ASSUME Types, PassValid, mpc = "apply", buf[slot] = TileBytes(pass, Cut, k, tile)
  PROVE  LET first == SelRow(Cut, k) IN
         Applied(buf[slot], first, tile) =
           [r \in Row |-> IF r \in Selected(pass.sel, Out(layer, pass.m))
                             /\ r \in first .. first + tile - 1
                          THEN <<layer, pass.m, r>> ELSE y[r]]
  <1> DEFINE first == SelRow(Cut, k)
             part  == {r \in Selected(pass.sel, Out(layer, pass.m)) : r \in first .. first + tile - 1}
  <1>1. /\ first \in Nat /\ tile \in Nat \ {0} /\ TilePart(pass.sel, first, tile) = part
    BY AtTile DEF Reading
  <1>2. /\ buf[slot].l = layer /\ buf[slot].m = pass.m /\ buf[slot].first = first
        /\ buf[slot].n = tile
    BY DEF TileBytes
  <1> HIDE DEF first
  <1>3. \A r \in part : r - first < tile /\ first + (r - first) = r
    BY <1>1
  <1>4. QED
    BY <1>1, <1>2, <1>3 DEF Applied, first

LEMMA BufferApplied ==
  ASSUME Types, PassValid, mpc = "kapply", NEW holds, holds = AllOf(layer, pass.m)
  PROVE  /\ Applied(holds, 0, Out(layer, pass.m)) =
              [r \in Row |-> IF r \in Selected(pass.sel, Out(layer, pass.m))
                             THEN <<layer, pass.m, r>> ELSE y[r]]
         /\ Out(layer, pass.m) \in Nat \ {0} /\ Out(layer, pass.m) <= MaxRows
  <1> DEFINE out == Out(layer, pass.m)
             part == Selected(pass.sel, out)
  <1>1. /\ layer \in RowLayers /\ pass.m \in DOMAIN Ts(layer) /\ IsMatrix(layer, pass.m)
        /\ Valid(pass.sel, out) /\ pass.sel \in SelType
    BY DEF Types, RowTypeOK, PassValid, Passing
  <1>2. out \in Nat \ {0} /\ out <= MaxRows
    BY <1>1, MatrixRows
  <1>3. holds.l = layer /\ holds.m = pass.m /\ holds.first = 0 /\ holds.n = out
    BY DEF AllOf
  <1> HIDE DEF out
  <1>4. TilePart(pass.sel, 0, out) = part
    <2>1. TilePart(pass.sel, 0, out) =
            {r \in 0 .. 0 + out - 1 : r % pass.sel.blk \in pass.sel.r0 .. pass.sel.r0 + pass.sel.nr - 1}
      BY <1>1, <1>2, TileApplies
    <2>2. QED
      BY <1>2, <2>1 DEF Selected
  <1>5. \A r \in part : r - 0 < out /\ 0 + (r - 0) = r
    BY <1>2 DEF Selected
  <1>6. QED
    BY <1>2, <1>3, <1>4, <1>5 DEF Applied, out

LEMMA DeliveredStep ==
  ASSUME Types, PassValid, Filled, Delivered, [Next]_vars
  PROVE  Delivered'
  <1> USE DEF Reading, Passing
  <1>1. CASE ApplyTile
    <2> DEFINE sel == Selected(pass.sel, Out(layer, pass.m))
               first == SelRow(Cut, k)
    <2>1. /\ mpc = "apply" /\ buf[slot] = TileBytes(pass, Cut, k, tile)
          /\ UNCHANGED <<open, bind, read_error>> /\ ~read_error
          /\ y' = Applied(buf[slot], first, tile)
      BY <1>1 DEF ApplyTile, Filled, Delivered
    <2>2. CASE Follows < Total
      <3>1. /\ mpc' = "tile" /\ k' = Follows /\ pass' = pass
        BY <1>1, <2>2 DEF ApplyTile
      <3>2. Cut' = Cut /\ Selected(pass.sel, Out(layer, pass.m))' = sel
        BY <2>1, <3>1 DEF Cut, Out, Ts
      <3>3. /\ Out(layer, pass.m) \in Nat \ {0} /\ Out(layer, pass.m) <= MaxRows
            /\ first \in Nat /\ tile \in Nat \ {0}
            /\ \A r \in sel : r < SelRow(Cut, Follows) => r < first + tile
        BY <2>1, <2>2, AtTile
      <3>4. y' = [r \in Row |-> IF r \in sel /\ r \in first .. first + tile - 1
                                THEN <<layer, pass.m, r>> ELSE y[r]]
        BY <2>1, TileApplied
      <3>5. sel \subseteq Row /\ \A r \in sel : r \in Nat
        BY <3>3, RowsAssumption DEF Selected, Row
      <3>6. \A r \in sel : r < first => y[r] = <<layer, pass.m, r>>
        BY <2>1 DEF Delivered
      <3>7. ASSUME NEW r \in sel, r < SelRow(Cut, Follows)
            PROVE  y'[r] = <<layer, pass.m, r>>
        <4>1. r < first + tile /\ r \in Nat /\ r \in Row
          BY <3>3, <3>5, <3>7
        <4>2. CASE r < first
          BY <3>4, <3>6, <4>1, <4>2
        <4>3. CASE ~(r < first)
          <5>1. r \in first .. first + tile - 1
            BY <3>3, <4>1, <4>3
          <5>2. QED
            BY <3>4, <4>1, <5>1
        <4>4. QED
          BY <4>2, <4>3
      <3>8. QED
        BY <2>1, <3>1, <3>2, <3>7 DEF Delivered
    <2>3. CASE ~(Follows < Total)
      BY <1>1, <2>1, <2>3 DEF ApplyTile, Return, Delivered
    <2>4. QED
      BY <2>2, <2>3
  <1>2. CASE AskPass
    <2>1. PICK p \in Passes :
            /\ mpc = "bound" /\ UNCHANGED <<open, bind, memory, pin>>
            /\ Refuses \/ Streams(p) \/ Buffered(p)
      BY <1>2, Asks
    <2>2. CASE Refuses
      BY <2>2 DEF Refuses, FailPass, Return, Delivered
    <2>3. CASE Streams(p)
      <3>1. /\ Cut' = CutOf(p) /\ k' = 0 /\ Out(layer, p.m) \in Nat \ {0}
            /\ CutOf(p) \in {Whole(Out(layer, p.m)), p.sel}
            /\ p.sel \in SelType /\ Valid(p.sel, Out(layer, p.m))
        BY <2>1, <2>3, StreamStarts
      <3>2. \A r \in Selected(p.sel, Out(layer, p.m)) : ~(r < SelRow(CutOf(p), 0))
        BY <3>1, FirstTile
      <3>3. pass' = p /\ layer' = layer /\ ~read_error'
        BY <2>1, <2>3 DEF Streams, Admitted
      <3>4. QED
        BY <3>1, <3>2, <3>3 DEF Delivered, Out, Ts
    <2>4. CASE Buffered(p)
      BY <2>4 DEF Buffered, Admitted, Delivered
    <2>5. QED
      BY <2>1, <2>2, <2>3, <2>4
  <1>3. CASE BindStep \/ TileFailed \/ KvbApply \/ LayerDone \/ Close \/ Join
    BY <1>3 DEF BindStep, BindStart, AcquireMatrix, AcquireVector, VectorBegin, VectorEnd,
                Bound, TileFailed, KvbApply, LayerDone, Close, Join, FailPass, Return, Delivered
  <1>4. CASE KvbFill
    BY <1>4 DEF KvbFill, FailPass, Return, Delivered
  <1>5. CASE TileReady \/ MainSleep \/ Reader \/ SpuriousWakeup \/ Closed \/ UNCHANGED vars
    <2>1. UNCHANGED <<open, bind, passing, outcome>> /\ (Passing' <=> Passing)
          /\ (Reading' <=> Reading)
      BY <1>5 DEF TileReady, MainSleep, Reader, ReaderSleep, ReaderTake, ReaderPost,
                  SpuriousWakeup, Closed, vars
    <2>2. QED
      BY <2>1 DEF Delivered, Cut, Out, Ts
  <1>6. QED
    BY <1>1, <1>2, <1>3, <1>4, <1>5 DEF Next, Main, PassStep

(***************************************************************************)
(* The arena.                                                              *)
(***************************************************************************)
(* What the arena takes after tensor t, when it took u before.             *)
Takes(u, t) == IF t.kind = "vector" THEN Align(u) + t.n ELSE u
UsedBy(l, u) ==
  u = [j \in 0 .. Len(Ts(l)) |->
         IF j = 0 THEN 0
         ELSE IF Ts(l)[j].kind = "vector" THEN Align(u[j - 1]) + Ts(l)[j].n
         ELSE u[j - 1]]

LEMMA UsedDefined ==
  ASSUME NEW l \in RowLayers
  PROVE  UsedBy(l, Used(l))
  <1> DEFINE N == Len(Ts(l))
             Rec(u, n) == u = [j \in 0 .. n |-> IF j = 0 THEN 0 ELSE Takes(u[j - 1], Ts(l)[j])]
             G == {n \in 0 .. N : \E u : Rec(u, n)}
  <1>1. N \in Nat
    BY RowsAssumption DEF RowLayers, Ts
  <1> HIDE DEF N
  <1>2. 0 \in G
    <2> DEFINE v == [j \in 0 .. 0 |-> 0]
    <2>1. Rec(v, 0)
      OBVIOUS
    <2> HIDE DEF Rec, v
    <2>2. 0 \in 0 .. N
      BY <1>1
    <2>3. QED
      BY <2>1, <2>2
  <1>3. ASSUME NEW n \in 0 .. N - 1, n \in G
        PROVE  n + 1 \in G
    <2>1. PICK u : Rec(u, n)
      BY <1>3
    <2> DEFINE v == [j \in 0 .. n + 1 |-> IF j <= n THEN u[j] ELSE Takes(u[n], Ts(l)[n + 1])]
    <2>2. \A j \in 0 .. n + 1 :
            v[j] = IF j = 0 THEN 0 ELSE Takes(v[j - 1], Ts(l)[j])
      BY <1>1, <2>1
    <2>3. v = [j \in 0 .. n + 1 |-> IF j = 0 THEN 0 ELSE Takes(v[j - 1], Ts(l)[j])]
      <3> DEFINE z == [j \in 0 .. n + 1 |-> IF j = 0 THEN 0 ELSE Takes(v[j - 1], Ts(l)[j])]
      <3>1. v = [j \in 0 .. n + 1 |-> v[j]]
        OBVIOUS
      <3> HIDE DEF v
      <3>2. z = [j \in 0 .. n + 1 |-> v[j]]
        BY <2>2
      <3>3. QED
        BY <3>1, <3>2
    <2> HIDE DEF v
    <2>4. Rec(v, n + 1)
      BY <2>3
    <2> HIDE DEF Rec
    <2>5. n + 1 \in 0 .. N
      BY <1>1
    <2>6. QED
      BY <2>4, <2>5
  <1>4. N \in G
    <2> HIDE DEF G
    <2>1. \A n \in 0 .. N - 1 : n \in G => n + 1 \in G
      BY <1>3
    <2>2. QED
      BY <1>1, <1>2, <2>1, Upwards
  <1>5. \E u : UsedBy(l, u)
    BY <1>4 DEF UsedBy, Takes, N
  <1>6. QED
    BY <1>5 DEF Used, UsedBy

LEMMA UsedGrows ==
  ASSUME NEW l \in RowLayers
  PROVE  /\ Used(l)[0] = 0
         /\ \A j \in 0 .. Len(Ts(l)) : Used(l)[j] \in Nat
         /\ \A j \in 1 .. Len(Ts(l)) : Used(l)[j] = Takes(Used(l)[j - 1], Ts(l)[j])
         /\ \A j \in 0 .. Len(Ts(l)) : Used(l)[j] <= Used(l)[Len(Ts(l))]
  <1> DEFINE N == Len(Ts(l))
             u == Used(l)
             G == {n \in 0 .. N : u[n] \in Nat}
             H == {n \in 0 .. N : u[N - n] <= u[N]}
  <1>1. N \in Nat /\ \A j \in 1 .. N : Ts(l)[j] \in TensorType
    BY RowsAssumption DEF RowLayers, Ts
  <1>2. u[0] = 0 /\ \A j \in 1 .. N : u[j] = Takes(u[j - 1], Ts(l)[j])
    <2>1. u = [j \in 0 .. N |->
                 IF j = 0 THEN 0
                 ELSE IF Ts(l)[j].kind = "vector" THEN Align(u[j - 1]) + Ts(l)[j].n
                 ELSE u[j - 1]]
      BY UsedDefined DEF UsedBy
    <2> HIDE DEF u, N
    <2>2. QED
      BY <1>1, <2>1 DEF Takes
  <1> HIDE DEF u, N
  <1>3. \A j \in 1 .. N : u[j - 1] \in Nat => u[j] \in Nat /\ u[j - 1] <= u[j]
    BY <1>1, <1>2 DEF Takes, Align, TensorType
  <1>4. \A n \in 0 .. N - 1 : n \in G => n + 1 \in G
    <2>1. \A n \in 0 .. N - 1 : n + 1 \in 1 .. N /\ (n + 1) - 1 = n
      BY <1>1
    <2>2. QED
      BY <1>1, <1>3, <2>1
  <1>5. \A n \in 0 .. N : n \in G
    <2>1. 0 \in G
      BY <1>1, <1>2
    <2> HIDE DEF G
    <2>2. QED
      BY <1>1, <1>4, <2>1, Upwards
  <1>6. \A n \in 0 .. N - 1 : n \in H => n + 1 \in H
    <2>1. \A n \in 0 .. N - 1 : /\ N - n \in 1 .. N /\ (N - n) - 1 = N - (n + 1)
                                /\ N - (n + 1) \in 0 .. N
      BY <1>1
    <2>2. \A j \in 0 .. N : u[j] \in Nat
      BY <1>5
    <2>3. \A n \in 0 .. N - 1 : u[N - (n + 1)] <= u[N - n]
      BY <1>1, <1>3, <2>1, <2>2
    <2>4. \A n \in 0 .. N - 1 : u[N - n] <= u[N] => u[N - (n + 1)] <= u[N]
      BY <1>1, <2>1, <2>2, <2>3
    <2>5. QED
      BY <1>1, <2>4
  <1>7. \A n \in 0 .. N : n \in H
    <2>1. 0 \in H
      <3>1. N - 0 = N /\ u[N] \in Nat
        BY <1>1, <1>5
      <3>2. QED
        BY <1>1, <3>1
    <2> HIDE DEF H
    <2>2. QED
      BY <1>1, <1>6, <2>1, Upwards
  <1>8. \A j \in 0 .. N : u[j] <= u[N]
    <2>1. \A j \in 0 .. N : N - j \in 0 .. N /\ N - (N - j) = j
      BY <1>1
    <2>2. QED
      BY <1>7, <2>1
  <1>9. QED
    BY <1>2, <1>5, <1>8 DEF u, N

(* k3_bind_layer_stream counts a layer's vectors by a fold.                *)
Folds(l, f) ==
  f = [s \in SUBSET DOMAIN Ts(l) |->
         IF s = {} THEN 0
         ELSE LET x == Max(s) IN
              IF Ts(l)[x].kind = "vector" THEN Align(f[s \ {x}]) + Ts(l)[x].n
              ELSE f[s \ {x}]]

LEMMA SmallFolds ==
  ASSUME NEW l \in RowLayers
  PROVE  Small(l) = (CHOOSE f : Folds(l, f))[DOMAIN Ts(l)]
  BY DEF Small, FoldLeft, MapThenFoldSet, Folds

(* The last tensor of a beginning of a layer.                              *)
LEMMA LastOf ==
  ASSUME NEW N \in Nat, NEW s \in SUBSET (1 .. N), s # {}
  PROVE  /\ Max(s) \in s /\ \A x \in s : x <= Max(s)
  <1>1. s \in SUBSET Nat /\ \A x \in s : x <= N
    OBVIOUS
  <1>2. QED
    BY <1>1, Greatest

LEMMA FoldDefined ==
  ASSUME NEW l \in RowLayers
  PROVE  \E f : Folds(l, f)
  <1> DEFINE N == Len(Ts(l))
             Val(f, s) == IF s = {} THEN 0 ELSE Takes(f[s \ {Max(s)}], Ts(l)[Max(s)])
             Rec(f, n) == f = [s \in SUBSET (1 .. n) |-> Val(f, s)]
             G == {n \in 0 .. N : \E f : Rec(f, n)}
  <1>1. N \in Nat /\ DOMAIN Ts(l) = 1 .. N
    BY RowsAssumption DEF RowLayers, Ts
  <1> HIDE DEF N
  <1>2. 0 \in G
    <2> DEFINE v == [s \in SUBSET (1 .. 0) |-> 0]
    <2>1. \A s \in SUBSET (1 .. 0) : s = {}
      OBVIOUS
    <2>2. \A s \in SUBSET (1 .. 0) : v[s] = Val(v, s)
      BY <2>1
    <2>3. v = [s \in SUBSET (1 .. 0) |-> v[s]]
      OBVIOUS
    <2> HIDE DEF v, Val
    <2>4. Rec(v, 0)
      <3> DEFINE z == [s \in SUBSET (1 .. 0) |-> Val(v, s)]
      <3>1. z = [s \in SUBSET (1 .. 0) |-> v[s]]
        BY <2>2
      <3>2. QED
        BY <2>3, <3>1
    <2> HIDE DEF Rec
    <2>5. 0 \in 0 .. N
      BY <1>1
    <2>6. QED
      BY <2>4, <2>5
  <1>3. ASSUME NEW n \in 0 .. N - 1, n \in G
        PROVE  n + 1 \in G
    <2>1. PICK f : Rec(f, n)
      BY <1>3
    <2> DEFINE A == SUBSET (1 .. n)
               B == SUBSET (1 .. n + 1)
               v == [s \in B |-> IF s \in A THEN f[s] ELSE Takes(f[s \ {n + 1}], Ts(l)[n + 1])]
    <2>2. n \in Nat /\ n + 1 \in Nat /\ A \subseteq B
      BY <1>1
    <2>3. \A s \in A : f[s] = Val(f, s)
      BY <2>1
    <2>4. \A s \in A : v[s] = f[s]
      BY <2>2
    <2>5. ASSUME NEW s \in B, s # {}, s \in A
          PROVE  v[s] = Val(v, s)
      <3>1. Max(s) \in s
        BY <2>2, <2>5, LastOf
      <3>2. s \ {Max(s)} \in A
        BY <2>5
      <3> HIDE DEF A, v
      <3>3. v[s \ {Max(s)}] = f[s \ {Max(s)}] /\ v[s] = f[s]
        BY <2>4, <2>5, <3>2
      <3>4. QED
        BY <2>3, <2>5, <3>3
    <2>6. ASSUME NEW s \in B, s \notin A
          PROVE  v[s] = Val(v, s)
      <3>1. s # {} /\ n + 1 \in s /\ s \ {n + 1} \in A
        BY <2>2, <2>6
      <3>2. Max(s) \in s /\ \A x \in s : x <= Max(s)
        <4>1. s \in SUBSET (1 .. n + 1)
          OBVIOUS
        <4>2. QED
          BY <2>2, <3>1, <4>1, LastOf
      <3>3. Max(s) = n + 1
        <4>1. \A x \in s : x \in Nat /\ x <= n + 1
          BY <2>2
        <4> DEFINE m == Max(s)
        <4>2. m \in Nat /\ m <= n + 1 /\ n + 1 <= m
          BY <3>1, <3>2, <4>1
        <4> HIDE DEF m
        <4>3. m = n + 1
          BY <2>2, <4>2
        <4>4. QED
          BY <4>3 DEF m
      <3>4. v[s] = Takes(f[s \ {n + 1}], Ts(l)[n + 1])
        BY <2>6
      <3>5. v[s \ {n + 1}] = f[s \ {n + 1}]
        BY <2>4, <3>1
      <3> HIDE DEF A, B, v
      <3>6. QED
        BY <3>1, <3>3, <3>4, <3>5
    <2>7. v[{}] = Val(v, {})
      <3>1. {} \in A
        OBVIOUS
      <3> HIDE DEF A, v
      <3>2. QED
        BY <2>3, <2>4, <3>1
    <2>8. v = [s \in B |-> v[s]]
      OBVIOUS
    <2> HIDE DEF A, v, Val
    <2>9. \A s \in B : v[s] = Val(v, s)
      BY <2>5, <2>6, <2>7
    <2>10. Rec(v, n + 1)
      <3> DEFINE z == [s \in B |-> Val(v, s)]
      <3>1. z = [s \in B |-> v[s]]
        BY <2>9
      <3>2. QED
        BY <2>8, <3>1
    <2> HIDE DEF Rec
    <2>11. n + 1 \in 0 .. N
      BY <1>1
    <2>12. QED
      BY <2>10, <2>11
  <1>4. N \in G
    <2> HIDE DEF G
    <2>1. \A n \in 0 .. N - 1 : n \in G => n + 1 \in G
      BY <1>3
    <2>2. N \in Nat
      BY <1>1
    <2>3. QED
      BY <1>2, <2>1, <2>2, Upwards
  <1>5. \E f : Rec(f, N)
    BY <1>4
  <1>6. QED
    BY <1>1, <1>5 DEF Folds, Takes

LEMMA SmallIsUsed ==
  ASSUME NEW l \in RowLayers
  PROVE  Small(l) = Used(l)[Len(Ts(l))]
  <1> DEFINE N == Len(Ts(l))
             f == CHOOSE f : Folds(l, f)
             u == Used(l)
             G == {n \in 0 .. N : f[1 .. n] = u[n]}
  <1>1. N \in Nat /\ DOMAIN Ts(l) = 1 .. N
    BY RowsAssumption DEF RowLayers, Ts
  <1>2. Folds(l, f)
    BY FoldDefined
  <1>3. Small(l) = f[1 .. N]
    BY <1>1, SmallFolds
  <1>4. u[0] = 0 /\ \A j \in 1 .. N : u[j] = Takes(u[j - 1], Ts(l)[j])
    BY UsedGrows
  <1> HIDE DEF f, u, N
  <1>5. \A s \in SUBSET (1 .. N) :
          f[s] = IF s = {} THEN 0 ELSE Takes(f[s \ {Max(s)}], Ts(l)[Max(s)])
    <2>1. f = [s \in SUBSET (1 .. N) |->
                 IF s = {} THEN 0
                 ELSE LET x == Max(s) IN
                      IF Ts(l)[x].kind = "vector" THEN Align(f[s \ {x}]) + Ts(l)[x].n
                      ELSE f[s \ {x}]]
      BY <1>1, <1>2 DEF Folds
    <2>2. QED
      BY <2>1 DEF Takes
  <1>6. 0 \in G
    <2>1. 1 .. 0 = {} /\ {} \in SUBSET (1 .. N) /\ 0 \in 0 .. N
      BY <1>1
    <2>2. QED
      BY <1>4, <1>5, <2>1
  <1>7. ASSUME NEW n \in 0 .. N - 1, n \in G
        PROVE  n + 1 \in G
    <2> DEFINE s == 1 .. n + 1
    <2>1. /\ n + 1 \in 1 .. N /\ n + 1 \in Nat /\ (n + 1) - 1 = n /\ n + 1 \in 0 .. N
          /\ s \in SUBSET (1 .. N) /\ s \in SUBSET (1 .. n + 1) /\ n + 1 \in s
          /\ s \ {n + 1} = 1 .. n
      BY <1>1
    <2>2. Max(s) \in s /\ \A x \in s : x <= Max(s)
      BY <2>1, LastOf
    <2>3. Max(s) = n + 1
      BY <2>1, <2>2
    <2> HIDE DEF s
    <2>4. f[s] = Takes(f[1 .. n], Ts(l)[n + 1])
      BY <1>5, <2>1, <2>3
    <2>5. u[n + 1] = Takes(u[n], Ts(l)[n + 1])
      BY <1>4, <2>1
    <2>6. f[s] = u[n + 1]
      BY <1>7, <2>4, <2>5
    <2>7. QED
      BY <2>1, <2>6 DEF s
  <1>8. N \in G
    <2> HIDE DEF G
    <2>1. \A n \in 0 .. N - 1 : n \in G => n + 1 \in G
      BY <1>7
    <2>2. N \in Nat
      BY <1>1
    <2>3. QED
      BY <1>6, <2>1, <2>2, Upwards
  <1>9. QED
    BY <1>3, <1>8 DEF u, N

LEMMA SmallFits ==
  ASSUME NEW l \in RowLayers
  PROVE  SmallCap \in Nat /\ Small(l) \in Nat /\ Small(l) <= SmallCap
  <1> DEFINE c == Cardinality(RowLayers)
             S == {Small(o) : o \in RowLayers}
             G == {n \in 0 .. c - 1 : \E b \in Nat : \A o \in 0 .. n : Small(o) <= b}
  <1>1. c - 1 \in Nat /\ RowLayers = 0 .. c - 1
    <2>1. c \in Nat
      BY RowsAssumption, FS_CardinalityType DEF RowLayers
    <2>2. 0 \in RowLayers /\ RowLayers = 0 .. c - 1
      BY RowsAssumption DEF RowLayers
    <2>3. QED
      BY <2>1, <2>2
  <1>2. \A o \in RowLayers : Small(o) \in Nat
    <2>1. \A o \in RowLayers : Len(Ts(o)) \in Nat
      BY RowsAssumption DEF RowLayers, Ts
    <2>2. QED
      BY <2>1, SmallIsUsed, UsedGrows
  <1> HIDE DEF c
  <1>3. 0 \in G
    <2>1. 0 \in RowLayers /\ 0 \in 0 .. c - 1 /\ \A o \in 0 .. 0 : o = 0
      BY <1>1
    <2>2. Small(0) \in Nat /\ \A o \in 0 .. 0 : Small(o) <= Small(0)
      BY <1>2, <2>1
    <2>3. QED
      BY <2>1, <2>2
  <1>4. ASSUME NEW n \in 0 .. c - 1 - 1, n \in G
        PROVE  n + 1 \in G
    <2>1. PICK b \in Nat : \A o \in 0 .. n : Small(o) <= b
      BY <1>4
    <2>2. n + 1 \in RowLayers /\ n + 1 \in 0 .. c - 1 /\ 0 .. n \subseteq RowLayers
          /\ \A o \in 0 .. n + 1 : o \in 0 .. n \/ o = n + 1
      BY <1>1
    <2>3. Small(n + 1) \in Nat /\ \A o \in 0 .. n : Small(o) \in Nat
      BY <1>2, <2>2
    <2>4. \A o \in 0 .. n + 1 : Small(o) <= b + Small(n + 1)
      BY <2>1, <2>2, <2>3
    <2>5. b + Small(n + 1) \in Nat
      BY <2>3
    <2>6. QED
      BY <2>2, <2>4, <2>5
  <1>5. c - 1 \in G
    <2> HIDE DEF G
    <2> DEFINE d == c - 1
    <2>1. d \in Nat /\ \A n \in 0 .. d - 1 : n \in G => n + 1 \in G
      BY <1>1, <1>4
    <2> HIDE DEF d
    <2>2. d \in G
      BY <1>3, <2>1, Upwards
    <2>3. QED
      BY <2>2 DEF d
  <1>6. PICK b \in Nat : \A o \in RowLayers : Small(o) <= b
    BY <1>1, <1>5
  <1>7. S \in SUBSET Nat /\ S # {} /\ \A x \in S : x <= b
    BY <1>2, <1>6
  <1>8. SmallCap = Max(S) /\ Small(l) \in S
    BY DEF SmallCap
  <1> HIDE DEF S
  <1>9. SmallCap \in S /\ \A x \in S : x <= SmallCap
    BY <1>7, <1>8, Greatest
  <1>10. QED
    BY <1>2, <1>7, <1>8, <1>9

LEMMA LaidStep ==
  ASSUME Types, Laid, [Next]_vars
  PROVE  Laid'
  <1> USE DEF Come
  <1>1. CASE \E l \in RowLayers : BindStart(l)
    <2>1. PICK l \in RowLayers : BindStart(l)
      BY <1>1
    <2>2. layer' = l /\ todo' = Ts(l) /\ small_used' = 0 /\ Len(Ts(l)) \in Nat
      BY <2>1, RowsAssumption DEF BindStart, RowLayers, Ts
    <2>3. Used(l)[0] = 0
      BY UsedGrows
    <2>4. Ts(layer') = Ts(l) /\ Used(layer') = Used(l)
      BY <2>2
    <2> HIDE DEF Come
    <2>5. Come' = 0
      BY <2>2, <2>4 DEF Come, Ts
    <2>6. mpc' = "acquire"
      BY <2>1 DEF BindStart
    <2>7. QED
      BY <2>2, <2>3, <2>4, <2>5, <2>6 DEF Laid, Ts, Used
  <1>2. CASE mpc' \notin {"acquire", "vector", "vread"}
    BY <1>2 DEF Laid
  <1>3. CASE /\ mpc \in {"acquire", "vector", "vread"} /\ UNCHANGED <<layer, todo, small_used>>
             /\ mpc' # "acquire" => Head(todo).kind = "vector"
    BY <1>3 DEF Laid, Ts, Used
  <1>4. ASSUME mpc \in {"acquire", "vector", "vread"}, todo # <<>>,
               todo' = Tail(todo), layer' = layer,
               small_used' = IF Head(todo).kind = "vector" THEN ArenaStart + Head(todo).n
                             ELSE small_used,
               mpc' = "acquire"
        PROVE  Laid'
    <2> DEFINE N == Len(Ts(layer))
               j == N - Len(todo) + 1
    <2>1. layer \in RowLayers /\ todo \in Seq(TensorType) /\ N \in Nat /\ Len(todo) \in Nat
      BY RowsAssumption DEF Types, RowTypeOK, RowLayers, Ts
    <2>2. /\ Len(todo) <= N
          /\ \A i \in 1 .. Len(todo) : todo[i] = Ts(layer)[N - Len(todo) + i]
          /\ small_used = Used(layer)[N - Len(todo)]
      BY <1>4 DEF Laid
    <2>3. /\ Len(todo') = Len(todo) - 1 /\ Len(todo) >= 1
          /\ \A i \in 1 .. Len(todo) - 1 : todo'[i] = todo[i + 1]
          /\ Head(todo) = todo[1]
      BY <1>4, <2>1
    <2>4. Ts(layer)' = Ts(layer) /\ Used(layer)' = Used(layer)
      BY <1>4 DEF Ts, Used
    <2> HIDE DEF N, Come
    <2>5. j \in 1 .. N /\ j = N - Len(todo') /\ j - 1 = N - Len(todo)
      BY <2>1, <2>2, <2>3
    <2>6. Head(todo) = Ts(layer)[j]
      BY <2>2, <2>3
    <2>7. Used(layer)[j] = Takes(Used(layer)[j - 1], Ts(layer)[j])
      BY <2>1, <2>5, UsedGrows DEF N
    <2>8. small_used' = Used(layer)[j]
      BY <1>4, <2>2, <2>5, <2>6, <2>7 DEF Takes, ArenaStart
    <2>9. \A i \in 1 .. Len(todo') : todo'[i] = Ts(layer)[j + i]
      <3>1. \A i \in 1 .. Len(todo') : i + 1 \in 1 .. Len(todo) /\ j + i = N - Len(todo) + (i + 1)
        BY <2>1, <2>3, <2>5
      <3>2. QED
        BY <2>2, <2>3, <3>1
    <2>10. Come' = j
      BY <2>4, <2>5 DEF Come, N
    <2>11. Len(todo') <= N
      BY <2>1, <2>2, <2>3
    <2> HIDE DEF j
    <2>12. QED
      BY <1>4, <2>4, <2>8, <2>9, <2>10, <2>11 DEF Laid, N
  <1>5. CASE AcquireMatrix
    <2> USE DEF bind
    <2>1. CASE count = MaxMatrices
      BY <1>2, <1>5, <2>1 DEF AcquireMatrix
    <2>2. CASE count # MaxMatrices
      BY <1>4, <1>5, <2>2 DEF AcquireMatrix
    <2>3. QED
      BY <2>1, <2>2
  <1>6. CASE VectorEnd
    <2> USE DEF bind
    <2>1. mpc = "vread" /\ todo # <<>> /\ Head(todo).kind = "vector"
      BY <1>6 DEF VectorEnd, Types, Laid
    <2>2. PICK ok \in BOOLEAN :
            LET v == Head(todo)
                done == tile + Lesser(v.n - tile, per)
            IN \/ /\ ~ok /\ mpc' = "failed" /\ UNCHANGED <<bind, tile>>
               \/ /\ ok /\ done < v.n
                  /\ mpc' = "vector" /\ tile' = done /\ UNCHANGED bind
               \/ /\ ok /\ done = v.n
                  /\ mpc' = "acquire" /\ tile' = 0
                  /\ small_used' = ArenaStart + v.n /\ todo' = Tail(todo)
                  /\ UNCHANGED <<layer, count>>
      BY <1>6 DEF VectorEnd
    <2>3. CASE mpc' = "vector" /\ UNCHANGED bind
      BY <1>3, <2>1, <2>3
    <2>4. CASE /\ mpc' = "acquire" /\ small_used' = ArenaStart + Head(todo).n
               /\ todo' = Tail(todo) /\ UNCHANGED <<layer, count>>
      BY <1>4, <2>1, <2>4
    <2>5. CASE mpc' = "failed"
      BY <1>2, <2>5
    <2>6. QED
      BY <2>2, <2>3, <2>4, <2>5
  <1>7. CASE AcquireVector \/ VectorBegin \/ Bound
    <2>1. mpc = "vector" => Head(todo).kind = "vector"
      BY DEF Laid
    <2>2. QED
      BY <1>2, <1>3, <1>7, <2>1 DEF AcquireVector, VectorBegin, Bound, bind
  <1>8. CASE \/ PassStep \/ AskPass \/ LayerDone \/ MainSleep \/ Close \/ Join
             \/ Reader \/ SpuriousWakeup \/ Closed \/ UNCHANGED vars
    <2> DEFINE Stays == mpc' = mpc /\ UNCHANGED bind
               Leaves == mpc' \notin {"acquire", "vector", "vread"}
    <2>1. PassStep => Stays \/ Leaves
      BY DEF PassStep, TileFailed, TileReady, ApplyTile, KvbFill, KvbApply,
             FailPass, Return
    <2>2. ASSUME AskPass
          PROVE  Stays \/ Leaves
      <3>1. PICK p \in Passes : Pass(p) \/ KvbPass(p)
        BY <2>2 DEF AskPass
      <3>2. FailPass => Leaves
        BY DEF FailPass, Return
      <3>3. RunStart(p) => Leaves
        BY <3>2 DEF RunStart
      <3>4. Pass(p) => Leaves
        BY <3>3 DEF Pass
      <3>5. KvbPass(p) => Leaves
        BY <3>2, <3>3 DEF KvbPass
      <3>6. QED
        BY <3>1, <3>4, <3>5
    <2>3. LayerDone \/ Close \/ Join => Leaves
      BY DEF LayerDone, Close, Join
    <2>4. MainSleep \/ Reader \/ SpuriousWakeup \/ Closed \/ UNCHANGED vars => Stays
      BY DEF MainSleep, Reader, ReaderSleep, ReaderTake, ReaderPost, SpuriousWakeup,
             Closed, vars
    <2>5. Stays \/ Leaves
      BY <1>8, <2>1, <2>2, <2>3, <2>4
    <2>6. CASE Stays
      BY <1>2, <1>3, <2>6 DEF bind, Laid
    <2>7. QED
      BY <1>2, <2>5, <2>6
  <1>9. QED
    BY <1>1, <1>5, <1>6, <1>7, <1>8 DEF Next, Main, BindStep

(***************************************************************************)
(* RowsInvariant: the inductive invariant of the row pipeline.             *)
(***************************************************************************)
THEOREM RowsInvariant == RowsSpec => []RowsInv
  <1>1. RowsInv /\ [Next]_vars => RowsInv'
    BY TypesStep, PassValidStep, QuietStep, FilledStep, KvbStep, DeliveredStep, LaidStep
       DEF RowsInv
  <1>2. QED
    BY InitInv, <1>1, PTL DEF RowsSpec

(* RowsTypes: every variable keeps its type; the arena's fill and the      *)
(* number of matrices of a layer stay in their bounds.                     *)
THEOREM RowsTypes == RowsSpec => []RowTypeOK
  <1>1. RowsInv => RowTypeOK
    BY DEF RowsInv, Types
  <1>2. QED
    BY RowsInvariant, <1>1, PTL

(* RowsNoTileOverwritten: the reader thread never fills the buffer whose   *)
(* tile is being applied, and no buffer has two writers (rows_worker,      *)
(* rows_run, rows_acquire).                                                *)
THEOREM RowsNoTileOverwritten == RowsSpec => []NoTileOverwritten
  <1>1. RowsInv => NoTileOverwritten
    <2> SUFFICES ASSUME RowsInv PROVE NoTileOverwritten
      OBVIOUS
    <2>1. slot \in Buffers /\ Spare # slot /\ job.slot \in Buffers /\ Buffers = {0, 1}
      BY DEF RowsInv, Types, RowTypeOK, Buffers, Spare
    <2>2. mpc = "apply" => writing[slot] = {}
      BY <2>1 DEF RowsInv, Quiet, Spared
    <2>3. ASSUME NEW b \in Buffers
          PROVE  writing[b] \in {{}, {"main"}, {"reader"}}
      BY DEF RowsInv, Quiet, Reading
    <2>4. QED
      BY <2>2, <2>3 DEF NoTileOverwritten
  <1>2. QED
    BY RowsInvariant, <1>1, PTL

(* RowsNoReadOutstanding: when no pass is under way no read is, so vector  *)
(* reads, kv_b fills, a layer change and the close may use the buffers     *)
(* without a handshake (rows_acquire, kvb_weights, rows_close).            *)
THEOREM RowsNoReadOutstanding == RowsSpec => []NoReadOutstanding
  <1>1. RowsInv => NoReadOutstanding
    <2> SUFFICES ASSUME RowsInv, ~Reading
                 PROVE  ~busy /\ writing[0] \subseteq {"main"} /\ writing[1] = {}
      BY DEF NoReadOutstanding, Reading
    <2>1. QED
      BY DEF RowsInv, Quiet, Buffers
  <1>2. QED
    BY RowsInvariant, <1>1, PTL

(* ArenaHolds: k3_bind_layer_stream never runs out of the vector arena     *)
(* rows_open sized; a bind fails because a read did, or because the layer  *)
(* has more matrices than the array of descriptors.                        *)
THEOREM RowsArenaHolds == RowsSpec => []ArenaHolds
  <1>1. RowsInv => ArenaHolds
    <2> SUFFICES ASSUME RowsInv, mpc = "acquire", todo # <<>>, Head(todo).kind = "vector"
                 PROVE  Fits(Head(todo))
      BY DEF ArenaHolds
    <2> DEFINE N == Len(Ts(layer))
               j == N - Len(todo) + 1
               v == Head(todo)
    <2>1. /\ layer \in RowLayers /\ todo \in Seq(TensorType) /\ N \in Nat
          /\ Len(todo) \in Nat /\ Len(todo) >= 1 /\ v = todo[1]
      BY RowsAssumption DEF RowsInv, Types, RowTypeOK, RowLayers, Ts
    <2>2. /\ Len(todo) <= N /\ todo[1] = Ts(layer)[N - Len(todo) + 1]
          /\ small_used = Used(layer)[N - Len(todo)]
      BY <2>1 DEF RowsInv, Laid, Come
    <2> HIDE DEF N
    <2>3. /\ j \in 1 .. N /\ j \in 0 .. N /\ j - 1 \in 0 .. N
          /\ j - 1 = N - Len(todo) /\ v = Ts(layer)[j]
      BY <2>1, <2>2
    <2>4. /\ Used(layer)[j] = Takes(Used(layer)[j - 1], v)
          /\ Used(layer)[j] <= Used(layer)[N] /\ Used(layer)[N] \in Nat
          /\ Used(layer)[j - 1] \in Nat
      <3>1. N \in 0 .. N
        BY <2>1
      <3>2. QED
        BY <2>1, <2>3, <3>1, UsedGrows DEF N
    <2>5. v \in TensorType
      BY <2>1
    <2> HIDE DEF v, j
    <2>6. ArenaStart \in Nat /\ v.n \in Nat /\ ArenaStart + v.n = Used(layer)[j]
      BY <2>2, <2>3, <2>4, <2>5 DEF ArenaStart, Takes, Align, TensorType, v
    <2>7. Used(layer)[N] <= SmallCap /\ SmallCap \in Nat
      BY <2>1, SmallIsUsed, SmallFits DEF N
    <2>8. QED
      BY <2>4, <2>6, <2>7 DEF Fits, v
  <1>2. QED
    BY RowsInvariant, <1>1, PTL

(***************************************************************************)
(* The pipeline keeps the promise of RowProduct.                           *)
(***************************************************************************)
(* The products of rows S of matrix m that y does not hold; y when the rows*)
(* of part have been given theirs; and what Deliver says of y.             *)
Due(l, m, S, f) == {p \in {<<l, m, r>> : r \in S} : f[p[3]] # p}
Given(l, m, part, f) == [r \in Row |-> IF r \in part THEN <<l, m, r>> ELSE f[r]]
PaidOff(paid, f) == [r \in Row |-> IF \E p \in paid : p[3] = r
                                   THEN CHOOSE p \in paid : p[3] = r ELSE f[r]]

LEMMA Pays ==
  ASSUME NEW l, NEW m, NEW S \in SUBSET Row, NEW part \in SUBSET S, NEW f, NEW g,
         g = Given(l, m, part, f)
  PROVE  /\ Due(l, m, S, g) \subseteq Due(l, m, S, f)
         /\ g = PaidOff(Due(l, m, S, f) \ Due(l, m, S, g), f)
  <1> DEFINE before == Due(l, m, S, f)
             left == Due(l, m, S, g)
             paid == before \ left
             pick(r) == CHOOSE p \in paid : p[3] = r
  <1>1. \A r \in S : /\ <<l, m, r>> \in before <=> f[r] # <<l, m, r>>
                     /\ <<l, m, r>> \in left <=> g[r] # <<l, m, r>>
    BY DEF Due
  <1>2. \A p \in before \cup left : p[3] \in S /\ p = <<l, m, p[3]>>
    BY DEF Due
  <1>3. /\ g = [r \in Row |-> g[r]]
        /\ \A r \in Row : g[r] = IF r \in part THEN <<l, m, r>> ELSE f[r]
    BY DEF Given
  <1>4. left \subseteq before
    <2>1. ASSUME NEW p \in left PROVE p \in before
      <3>1. PICK r \in S : p = <<l, m, r>>
        BY <1>2
      <3>2. g[r] # <<l, m, r>>
        BY <1>1, <3>1
      <3>3. QED
        BY <1>1, <1>3, <3>1, <3>2
    <2>2. QED
      BY <2>1
  <1> HIDE DEF pick, before, left
  <1>5. ASSUME NEW r \in Row
        PROVE  g[r] = IF \E p \in paid : p[3] = r THEN pick(r) ELSE f[r]
    <2>1. CASE \E p \in paid : p[3] = r
      <3>1. pick(r) \in paid /\ pick(r)[3] = r
        BY <2>1 DEF pick
      <3>2. r \in S /\ pick(r) = <<l, m, r>>
        BY <1>2, <3>1
      <3>3. g[r] = <<l, m, r>>
        BY <1>1, <3>1, <3>2
      <3>4. QED
        BY <2>1, <3>2, <3>3
    <2>2. CASE ~ \E p \in paid : p[3] = r
      <3>1. CASE r \in part
        <4>1. g[r] = <<l, m, r>> /\ <<l, m, r>>[3] = r
          BY <1>3, <3>1
        <4>2. f[r] = <<l, m, r>>
          BY <1>1, <2>2, <3>1, <4>1
        <4>3. QED
          BY <2>2, <4>1, <4>2
      <3>2. CASE r \notin part
        BY <1>3, <2>2, <3>2
      <3>3. QED
        BY <3>1, <3>2
    <2>3. QED
      BY <2>1, <2>2
  <1>6. g = [r \in Row |-> IF \E p \in paid : p[3] = r THEN pick(r) ELSE f[r]]
    BY <1>3, <1>5
  <1>7. QED
    BY <1>4, <1>6 DEF pick, before, left, PaidOff

LEMMA PromiseInit == Init => Promise!PInit
  BY DEF Init, Promise!PInit, Owed, Passing

(* A pass begins and owes all its products, none of which y holds yet.     *)
LEMMA PassBegins ==
  ASSUME Types, NEW p \in Passes, mpc = "bound", UNCHANGED <<open, bind>>,
         Streams(p) \/ Buffered(p)
  PROVE  Promise!Start
  <1>1. /\ pass' = p /\ mpc' \in {"tile", "fill", "kapply"} /\ layer' = layer
        /\ y' = [r \in Row |-> Old] /\ UNCHANGED read_error
    BY DEF Streams, Buffered
  <1>2. /\ layer \in RowLayers /\ p.m \in DOMAIN Ts(layer) /\ IsMatrix(layer, p.m)
        /\ p.m \in Nat \ {0} /\ Out(layer, p.m) \in Nat \ {0}
    BY PassType DEF Types, RowTypeOK
  <1>3. ~Passing /\ Passing'
    BY <1>1 DEF Passing
  <1>4. Owed' \subseteq Products
    <2>1. Owed' \subseteq Wanted(p)
      BY <1>1 DEF Owed, Wanted, Out, Ts
    <2>2. Wanted(p) \subseteq Products
      BY <1>2 DEF Wanted, Products, Selected
    <2>3. QED
      BY <2>1, <2>2
  <1>5. QED
    BY <1>1, <1>3, <1>4 DEF Promise!Start

LEMMA PassFails ==
  ASSUME FailPass
  PROVE  Promise!Fail
  BY DEF FailPass, Return, Promise!Fail, Owed, Passing

LEMMA TileDelivers ==
  ASSUME Types, PassValid, Filled, Delivered, ApplyTile
  PROVE  Promise!Deliver
  <1> USE DEF Reading, Passing
  <1> DEFINE out == Out(layer, pass.m)
             S == Selected(pass.sel, out)
             first == SelRow(Cut, k)
             part == {r \in S : r \in first .. first + tile - 1}
             before == Due(layer, pass.m, S, y)
             left == Due(layer, pass.m, S, y')
  <1>1. /\ mpc = "apply" /\ buf[slot] = TileBytes(pass, Cut, k, tile)
        /\ UNCHANGED <<open, bind, read_error>> /\ ~read_error
        /\ y' = Applied(buf[slot], first, tile)
    BY DEF ApplyTile, Filled, Delivered
  <1>2. y' = [r \in Row |-> IF r \in S /\ r \in first .. first + tile - 1
                            THEN <<layer, pass.m, r>> ELSE y[r]]
    BY <1>1, TileApplied
  <1>3. /\ out \in Nat \ {0} /\ out <= MaxRows /\ first \in Nat /\ tile \in Nat \ {0}
        /\ \A r \in S : (Follows < Total => r < SelRow(Cut, Follows)) => r < first + tile
    BY <1>1, AtTile
  <1>4. S \subseteq Row /\ S \subseteq Nat
    BY <1>3, RowsAssumption DEF Selected, Row
  <1>5. Owed = before
    BY <1>1 DEF Owed, Wanted, Due
  <1>6. CASE Follows < Total
    <2>1. mpc' = "tile" /\ pass' = pass /\ layer' = layer
      BY <1>1, <1>6 DEF ApplyTile
    <2>2. Owed' = left
      BY <2>1 DEF Owed, Wanted, Out, Ts, Due
    <2> HIDE DEF S, first, before, left
    <2>3. y' = Given(layer, pass.m, part, y)
      BY <1>2 DEF Given
    <2>4. /\ left \subseteq before
          /\ y' = PaidOff(before \ left, y)
      BY <1>4, <2>3, Pays DEF before, left
    <2>5. QED
      BY <1>1, <1>5, <2>1, <2>2, <2>4 DEF Promise!Deliver, PaidOff
  <1>7. CASE ~(Follows < Total)
    <2>1. mpc' = "bound"
      BY <1>7 DEF ApplyTile, Return
    <2>2. Owed' = {}
      BY <2>1 DEF Owed
    <2>3. left = {}
      <3>1. ASSUME NEW r \in S PROVE y'[r] = <<layer, pass.m, r>>
        <4>1. r < first + tile /\ r \in Nat /\ r \in Row
          BY <1>3, <1>4, <1>7
        <4>2. r < first => y[r] = <<layer, pass.m, r>>
          BY <1>1 DEF Delivered
        <4>3. ~(r < first) => r \in first .. first + tile - 1
          BY <1>3, <4>1
        <4> HIDE DEF S, first, out
        <4>4. QED
          BY <1>2, <4>1, <4>2, <4>3
      <3>2. QED
        BY <3>1 DEF Due
    <2> HIDE DEF S, first, before, left
    <2>4. y' = Given(layer, pass.m, part, y)
      BY <1>2 DEF Given
    <2>5. /\ left \subseteq before
          /\ y' = PaidOff(before \ left, y)
      BY <1>4, <2>4, Pays DEF before, left
    <2>6. QED
      BY <1>1, <1>5, <2>2, <2>3, <2>5 DEF Promise!Deliver, PaidOff
  <1>8. QED
    BY <1>6, <1>7

LEMMA BufferDelivers ==
  ASSUME Types, PassValid, KvbHolds, Delivered, KvbApply
  PROVE  Promise!Deliver
  <1> USE DEF Passing
  <1> DEFINE out == Out(layer, pass.m)
             S == Selected(pass.sel, out)
             holds == IF Pinned THEN pin[layer].holds ELSE kvb.holds
             before == Due(layer, pass.m, S, y)
             left == Due(layer, pass.m, S, y')
  <1>1. /\ mpc = "kapply" /\ mpc' = "bound" /\ UNCHANGED <<open, bind, read_error>>
        /\ y' = Applied(holds, 0, out) /\ ~read_error
    BY DEF KvbApply, Return, Delivered
  <1>2. layer \in RowLayers /\ pass.m \in Nat \ {0}
    <2>1. layer \in RowLayers /\ pass.m \in DOMAIN Ts(layer)
      BY <1>1 DEF Types, RowTypeOK, PassValid
    <2>2. QED
      BY <2>1, MatrixRows
  <1>3. holds = AllOf(layer, pass.m)
    BY <1>1, <1>2 DEF KvbHolds
  <1>4. /\ y' = [r \in Row |-> IF r \in S THEN <<layer, pass.m, r>> ELSE y[r]]
        /\ out \in Nat \ {0} /\ out <= MaxRows
    BY <1>1, <1>3, BufferApplied
  <1>5. S \subseteq Row
    BY <1>4, RowsAssumption DEF Selected, Row
  <1>6. Owed = before /\ Owed' = {}
    BY <1>1 DEF Owed, Wanted, Due
  <1> HIDE DEF S
  <1>7. left = {}
    BY <1>4, <1>5 DEF Due
  <1> HIDE DEF before, left
  <1>8. y' = Given(layer, pass.m, S, y)
    BY <1>4 DEF Given
  <1>9. /\ left \subseteq before
        /\ y' = PaidOff(before \ left, y)
    <2> DEFINE part == S
    <2>1. S \in SUBSET Row /\ part \in SUBSET S /\ y' = Given(layer, pass.m, part, y)
      BY <1>5, <1>8
    <2> HIDE DEF part
    <2>2. QED
      BY <2>1, Pays DEF before, left
  <1>10. y' = PaidOff(Owed \ Owed', y) /\ Owed' \subseteq Owed
    BY <1>6, <1>7, <1>9
  <1>11. QED
    BY <1>1, <1>6, <1>10 DEF Promise!Deliver, PaidOff

LEMMA PromiseStep ==
  ASSUME RowsInv, [Next]_vars
  PROVE  [Promise!PNext]_(Promise!pvars)
  <1> USE DEF Passing, Promise!pvars, Promise!PNext
  <1>1. Types /\ PassValid /\ Filled /\ KvbHolds /\ Delivered
    BY DEF RowsInv
  <1>2. CASE AskPass
    <2>1. PICK p \in Passes :
            /\ mpc = "bound" /\ UNCHANGED <<open, bind, memory, pin>>
            /\ Refuses \/ Streams(p) \/ Buffered(p)
      BY <1>2, Asks
    <2>2. Refuses => Promise!Fail
      BY PassFails DEF Refuses
    <2>3. Streams(p) \/ Buffered(p) => Promise!Start
      BY <1>1, <2>1, PassBegins
    <2>4. QED
      BY <2>1, <2>2, <2>3
  <1>3. CASE ApplyTile
    BY <1>1, <1>3, TileDelivers
  <1>4. CASE KvbApply
    BY <1>1, <1>4, BufferDelivers
  <1>5. CASE TileFailed
    BY <1>5, PassFails DEF TileFailed
  <1>6. CASE KvbFill
    <2>1. CASE FailPass
      BY <2>1, PassFails
    <2>2. CASE ~FailPass
      <3>1. mpc = "fill" /\ mpc' = "kapply" /\ UNCHANGED <<bind, passing, outcome>>
        BY <1>6, <2>2 DEF KvbFill
      <3>2. Owed' = Owed
        BY <3>1 DEF Owed, Wanted, Out, Ts
      <3>3. QED
        BY <3>1, <3>2
    <2>3. QED
      BY <2>1, <2>2
  <1>7. CASE LayerDone
    <2>1. ~Passing /\ ~Passing' /\ y' = [r \in Row |-> Old] /\ UNCHANGED read_error
      BY <1>7 DEF LayerDone
    <2>2. Promise!Consume
      BY <2>1 DEF Promise!Consume, Owed
    <2>3. QED
      BY <2>2
  <1>8. CASE BindStep \/ Close \/ Join
    <2>1. ~Passing /\ ~Passing' /\ UNCHANGED outcome
      BY <1>8 DEF BindStep, BindStart, AcquireMatrix, AcquireVector, VectorBegin, VectorEnd,
                  Bound, Close, Join
    <2>2. QED
      BY <2>1 DEF Owed
  <1>9. CASE TileReady \/ MainSleep \/ Reader \/ SpuriousWakeup \/ Closed \/ UNCHANGED vars
    <2>1. UNCHANGED <<bind, passing, outcome>> /\ (Passing' <=> Passing)
      BY <1>9 DEF TileReady, MainSleep, Reader, ReaderSleep, ReaderTake, ReaderPost,
                  SpuriousWakeup, Closed, vars
    <2>2. Owed' = Owed
      BY <2>1 DEF Owed, Wanted, Out, Ts
    <2>3. QED
      BY <2>1, <2>2
  <1>10. QED
    BY <1>2, <1>3, <1>4, <1>5, <1>6, <1>7, <1>8, <1>9 DEF Next, Main, PassStep

(* RowsOwnRows: the pipeline, with its tiles, its two buffers, its reader  *)
(* thread and its kv_b buffers, implements RowProduct: every pass gives    *)
(* each selected row the product of its own matrix row and touches no      *)
(* other row, or fails, and nothing is delivered after a failure.          *)
THEOREM RowsOwnRows == RowsSpec => OwnRows
  <1>1. RowsSpec => []RowsInv
    BY RowsInvariant
  <1>2. QED
    BY <1>1, PromiseInit, PromiseStep, PTL DEF RowsSpec, OwnRows, Promise!PSpec
=============================================================================
