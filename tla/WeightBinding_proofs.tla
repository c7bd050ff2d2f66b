------------------------ MODULE WeightBinding_proofs ------------------------
(***************************************************************************)
(* Machine-checked, for every directory of shards, every kind of caller    *)
(* and every way its reads are cut short: the invariant of the whole life  *)
(* of the store and of the call on it (BindInvariant), and what it gives.  *)
(* The name table finds every name a header has and no other (BindFinds);  *)
(* a read that answers hands over the bytes of the range it was asked for, *)
(* or the beginning of them (BindReads); and what the readers of the       *)
(* archives copy is the file they stand for (ZReadsTheFile).               *)
(***************************************************************************)
EXTENDS WeightBindingInv, NumberFacts, FiniteSetTheorems, SequenceTheorems

(***************************************************************************)
(* Machine-checked: what k3_zread copies out of an archive that was opened *)
(* is, byte for byte, the file it stands for, for every archive of either  *)
(* format, every alignment and every destination.  A coded block is right  *)
(* because its frame is the one of its entry (FrameFits), a raw extent     *)
(* because its spans, however they are cut, are of one piece.              *)
(***************************************************************************)

LEMMA LeastExists ==
  ASSUME NEW S \in SUBSET Nat, S # {}
  PROVE  Min(S) \in S /\ \A y \in S : Min(S) <= y
  BY Least DEF Min

LEMMA LesserOfTwo ==
  ASSUME NEW x \in Int, NEW z \in Int
  PROVE  /\ Min({x, z}) \in {x, z} /\ Min({x, z}) <= x /\ Min({x, z}) <= z
  <1> DEFINE IsMin(m) == m \in {x, z} /\ \A v \in {x, z} : m <= v
  <1>1. IsMin(x) \/ IsMin(z)
    OBVIOUS
  <1>2. IsMin(Min({x, z}))
    BY <1>1 DEF Min
  <1>3. QED
    BY <1>2

LEMMA Rounding ==
  ASSUME NEW x \in Int
  PROVE  /\ RoundUp(x) \in Int /\ x <= RoundUp(x)
         /\ RoundDown(x) \in Int /\ RoundDown(x) <= x
         /\ RoundUp(x) < x + Align /\ x - Align < RoundDown(x)
  <1>1. Align \in Nat \ {0}
    BY ArchiveAssumption
  <1>2. \A v \in Int : v * Align = Align * v
    BY <1>1
  <1>3. x + Align - 1 \in Int
    BY <1>1
  <1>4. /\ x \div Align \in Int /\ x % Align \in 0 .. Align - 1
        /\ (x \div Align) * Align \in Int
        /\ x = (x \div Align) * Align + (x % Align)
    BY <1>1, DivMod
  <1>5. /\ (x + Align - 1) \div Align \in Int
        /\ (x + Align - 1) % Align \in 0 .. Align - 1
        /\ ((x + Align - 1) \div Align) * Align \in Int
        /\ x + Align - 1 = ((x + Align - 1) \div Align) * Align + ((x + Align - 1) % Align)
    BY <1>1, <1>3, DivMod
  <1>6. RoundUp(x) = ((x + Align - 1) \div Align) * Align
    BY <1>2, <1>5 DEF RoundUp
  <1>7. RoundDown(x) = (x \div Align) * Align
    BY <1>2, <1>4 DEF RoundDown
  <1>8. QED
    BY <1>1, <1>4, <1>5, <1>6, <1>7

LEMMA BlockHolds ==
  ASSUME NEW raw \in Nat, NEW B \in Nat \ {0}, NEW pos \in Nat, pos < raw,
         NEW q, q = pos \div B, NEW n, n = (raw + B - 1) \div B
  PROVE  /\ q \in Nat /\ q * B \in Nat /\ q * B <= pos /\ pos < q * B + B
         /\ (q + 1) * B = q * B + B
         /\ q + 1 <= n
  <1> DEFINE x == raw + B - 1
  <1>1. pos \in Int /\ x \in Int
    OBVIOUS
  <1>2. q \in Nat
    BY DivNat
  <1>3. q * B \in Int /\ pos % B \in 0 .. B - 1 /\ pos = q * B + (pos % B)
    BY <1>1, DivMod, Zenon
  <1>4. n \in Int /\ x % B \in 0 .. B - 1 /\ n * B \in Int /\ x = n * B + (x % B)
    <2>1. n = x \div B
      OBVIOUS
    <2> HIDE DEF x
    <2>2. x \div B \in Int /\ x % B \in 0 .. B - 1 /\ (x \div B) * B \in Int
          /\ x = (x \div B) * B + (x % B)
      BY <1>1, DivMod, Zenon
    <2>3. QED
      BY <2>1, <2>2
  <1>5. q * B \in Nat
    BY <1>2
  <1>6. (q + 1) * B = q * B + B
    BY <1>2, Distribute
  <1>7. q * B <= pos /\ pos < q * B + B
    BY <1>3
  <1>8. n * B > raw - 1
    BY <1>4
  <1>9. n <= q => n * B <= q * B
    <2>1. n < q => n * B + B <= q * B
      BY <1>2, <1>4, Multiples
    <2>2. n = q => n * B = q * B
      OBVIOUS
    <2>3. QED
      BY <1>2, <1>3, <1>4, <2>1, <2>2
  <1>10. q + 1 <= n
    BY <1>2, <1>3, <1>4, <1>7, <1>8, <1>9
  <1>11. QED
    BY <1>2, <1>5, <1>6, <1>7, <1>10

(***************************************************************************)
(* Entry finds the entry that holds a byte.                                *)
(***************************************************************************)
LEMMA EntryHolds ==
  ASSUME NEW a, ArchiveType(a), ZOpen(a), NEW pos \in Nat, pos < a.raw
  PROVE  LET e == Entry(a, pos) IN
         /\ e \in DOMAIN a.entry
         /\ Start(a, e) \in Nat /\ End(a, e) \in Nat
         /\ Start(a, e) <= pos /\ pos < End(a, e) /\ End(a, e) <= a.raw
  <1> DEFINE e == Entry(a, pos)
             last == Len(a.entry)
  <1>1. /\ a.raw \in Nat /\ a.block \in Nat \ {0} /\ last \in Nat
        /\ DOMAIN a.entry = 1 .. last
    BY DEF ArchiveType
  <1>2. CASE a.mapped
    <2> DEFINE past == {i \in DOMAIN a.entry : a.entry[i].end > pos}
    <2>1. /\ \A i \in DOMAIN a.entry : a.entry[i].end \in Nat /\ a.entry[i].end <= a.raw
          /\ last # 0 => a.entry[last].end = a.raw
          /\ last = 0 => a.raw = 0
      <3>1. ExtentsOpen(a)
        BY <1>2 DEF ZOpen
      <3>2. a.entry = <<>> <=> last = 0
        BY <1>1
      <3>3. QED
        BY <1>2, <3>1, <3>2 DEF ArchiveType, ExtentsOpen
    <2>2. past \in SUBSET Nat /\ last \in past
      BY <1>1, <2>1
    <2>3. e \in past /\ \A i \in past : e <= i
      <3>1. Min(past) \in past /\ \A i \in past : Min(past) <= i
        BY <2>2, LeastExists
      <3>2. QED
        BY <1>2, <3>1 DEF Entry
    <2>4. e \in 1 .. last /\ a.entry[e].end > pos /\ End(a, e) = a.entry[e].end
      BY <1>1, <1>2, <2>3 DEF End
    <2>5. CASE e = 1
      <3>1. Start(a, e) = 0
        BY <1>2, <2>5 DEF Start
      <3>2. QED
        BY <1>1, <2>1, <2>4, <3>1
    <2>6. CASE e # 1
      <3>1. Start(a, e) = a.entry[e - 1].end
        BY <1>2, <2>6 DEF Start
      <3>2. e - 1 \in 1 .. last /\ e - 1 \notin past
        BY <1>1, <2>3, <2>4, <2>6
      <3>3. a.entry[e - 1].end \in Nat /\ a.entry[e - 1].end <= pos
        BY <1>1, <2>1, <3>2
      <3>4. QED
        BY <1>1, <2>1, <2>4, <3>1, <3>3
    <2>7. QED
      BY <2>5, <2>6
  <1>3. CASE ~a.mapped
    <2> DEFINE B == a.block
               q == pos \div B
    <2>1. last = (a.raw + B - 1) \div B
      BY <1>3 DEF ZOpen, BlocksOpen
    <2>2. B \in Nat \ {0}
      BY <1>1
    <2>3. /\ q \in Nat /\ q * B \in Nat /\ q * B <= pos /\ pos < q * B + B
          /\ (q + 1) * B = q * B + B /\ q + 1 <= last
      <3>1. q = pos \div B
        OBVIOUS
      <3> DEFINE raw == a.raw
      <3>2. raw \in Nat /\ pos < raw /\ last = (raw + B - 1) \div B
        BY <1>1, <2>1
      <3> HIDE DEF B, q, last, raw
      <3>3. QED
        BY <2>2, <3>1, <3>2, BlockHolds
    <2>4. e = q + 1
      BY <1>3 DEF Entry
    <2> HIDE DEF q
    <2>5. Start(a, e) = q * B
      <3>1. (e - 1) = q
        BY <2>3, <2>4
      <3>2. QED
        BY <1>3, <3>1 DEF Start
    <2>6. End(a, e) = Min({a.raw, q * B + B})
      BY <1>3, <2>3, <2>4 DEF End
    <2>7. /\ End(a, e) \in {a.raw, q * B + B} /\ End(a, e) <= a.raw
      <3> DEFINE x == a.raw
                 z == q * B + B
      <3>1. x \in Int /\ z \in Int
        BY <1>1, <2>2, <2>3
      <3>2. End(a, e) = Min({x, z})
        BY <2>6
      <3> HIDE DEF x, z
      <3>3. End(a, e) \in {x, z} /\ End(a, e) <= x
        BY <3>1, <3>2, LesserOfTwo
      <3>4. QED
        BY <3>3 DEF x, z
    <2> HIDE DEF e, B
    <2>8. QED
      BY <1>1, <2>2, <2>3, <2>4, <2>5, <2>7 DEF e
  <1>4. QED
    BY <1>2, <1>3

(***************************************************************************)
(* The byte shuffle of a flagged block is undone.                          *)
(***************************************************************************)
LEMMA Shuffle ==
  ASSUME NEW n \in Nat, NEW t \in 0 .. n - 1
  PROVE  LET h == (n + 1) \div 2
             u == t \div 2 + (IF t % 2 = 1 THEN h ELSE 0) IN
         (IF u < h THEN 2 * u ELSE 2 * (u - h) + 1) = t
  OBVIOUS

LEMMA CodedByte ==
  ASSUME NEW a, NEW e, Start(a, e) \in Nat, End(a, e) \in Nat, FrameFits(a, e),
         NEW t \in 0 .. End(a, e) - Start(a, e) - 1
  PROVE  Stored(a, e, Unsplit(a, e, t)) = Start(a, e) + t
  <1> DEFINE n == End(a, e) - Start(a, e)
             h == (n + 1) \div 2
             u == t \div 2 + (IF t % 2 = 1 THEN h ELSE 0)
  <1>1. a.frame[a.entry[e].off].index = e /\ a.frame[a.entry[e].off].flags = a.entry[e].flags
    BY DEF FrameFits
  <1>2. Half(a, e) = h
    BY DEF Half
  <1>3. CASE a.entry[e].flags = 0
    BY <1>1, <1>3 DEF Stored, Unsplit
  <1>4. CASE a.entry[e].flags # 0
    <2>1. n \in Nat /\ t \in 0 .. n - 1
      OBVIOUS
    <2>2. Unsplit(a, e, t) = u
      BY <1>2, <1>4 DEF Unsplit
    <2>3. Stored(a, e, u) = Start(a, e) + (IF u < h THEN 2 * u ELSE 2 * (u - h) + 1)
      BY <1>1, <1>2, <1>4 DEF Stored
    <2> HIDE DEF n
    <2>4. (IF u < h THEN 2 * u ELSE 2 * (u - h) + 1) = t
      BY <2>1, Shuffle
    <2>5. QED
      BY <2>2, <2>3, <2>4
  <1>5. QED
    BY <1>3, <1>4

(***************************************************************************)
(* A raw transfer, cut into an unaligned head, an aligned interior and an  *)
(* unaligned tail, is still one piece of the file.                         *)
(***************************************************************************)
LEMMA SpansCover ==
  ASSUME NEW p \in Int, NEW n \in Nat, NEW addr, NEW direct \in BOOLEAN, NEW j \in 0 .. n - 1
  PROVE  LET sp == RawSpans(p, n, addr, direct) IN
         /\ \E s \in DOMAIN sp : j - sp[s].to \in 0 .. sp[s].n - 1
         /\ \A s \in DOMAIN sp : sp[s].p - sp[s].to = p /\ sp[s].p \in Int /\ sp[s].to \in Int
  <1> DEFINE lo == RoundUp(p)
             hi == RoundDown(p + n)
             sp == RawSpans(p, n, addr, direct)
             cut == direct /\ n >= 2 * Align /\ addr % Align = p % Align /\ hi > lo
  <1>1. lo \in Int /\ hi \in Int /\ p <= lo /\ hi <= p + n
    BY Rounding
  <1> HIDE DEF lo, hi
  <1>2. CASE cut
    <2>1. sp = <<[to |-> 0, p |-> p, n |-> lo - p], [to |-> lo - p, p |-> lo, n |-> hi - lo],
                 [to |-> hi - p, p |-> hi, n |-> p + n - hi]>>
      BY <1>2 DEF RawSpans, lo, hi
    <2>2. DOMAIN sp = {1, 2, 3}
      BY <2>1
    <2> HIDE DEF sp
    <2>3. /\ sp[1].to = 0 /\ sp[1].p = p /\ sp[1].n = lo - p
          /\ sp[2].to = lo - p /\ sp[2].p = lo /\ sp[2].n = hi - lo
          /\ sp[3].to = hi - p /\ sp[3].p = hi /\ sp[3].n = p + n - hi
      BY <2>1
    <2>4. \/ j - sp[1].to \in 0 .. sp[1].n - 1
          \/ j - sp[2].to \in 0 .. sp[2].n - 1
          \/ j - sp[3].to \in 0 .. sp[3].n - 1
      BY <1>1, <2>3
    <2>5. \A s \in {1, 2, 3} : sp[s].p - sp[s].to = p /\ sp[s].p \in Int /\ sp[s].to \in Int
      BY <1>1, <2>3
    <2>6. QED
      BY <2>2, <2>4, <2>5 DEF sp
  <1>3. CASE ~cut
    <2>1. sp = <<[to |-> 0, p |-> p, n |-> n]>>
      BY <1>3 DEF RawSpans, lo, hi
    <2>2. DOMAIN sp = {1} /\ sp[1].to = 0 /\ sp[1].p = p /\ sp[1].n = n
      BY <2>1
    <2> HIDE DEF sp
    <2>3. QED
      BY <2>2 DEF sp
  <1>4. QED
    BY <1>2, <1>3

LEMMA RawBytes ==
  ASSUME NEW a, NEW e, Start(a, e) \in Nat, a.entry[e].off \in Nat, NEW p \in Int,
         NEW n \in Nat, NEW addr, NEW direct \in BOOLEAN, NEW j \in 0 .. n - 1
  PROVE  RawByte(a, e, p, n, addr, direct, j) = Start(a, e) + (p + j - a.entry[e].off)
  <1> DEFINE sp == RawSpans(p, n, addr, direct)
             s == CHOOSE s \in DOMAIN sp : j - sp[s].to \in 0 .. sp[s].n - 1
  <1>1. /\ \E i \in DOMAIN sp : j - sp[i].to \in 0 .. sp[i].n - 1
        /\ \A i \in DOMAIN sp : sp[i].p - sp[i].to = p /\ sp[i].p \in Int /\ sp[i].to \in Int
    BY SpansCover
  <1> HIDE DEF sp
  <1>2. RawByte(a, e, p, n, addr, direct, j)
          = Start(a, e) + (sp[s].p + (j - sp[s].to) - a.entry[e].off)
    BY DEF RawByte, sp
  <1>3. s \in DOMAIN sp
    BY <1>1
  <1> HIDE DEF s
  <1>4. sp[s].p - sp[s].to = p /\ sp[s].p \in Int /\ sp[s].to \in Int
    BY <1>1, <1>3
  <1>5. sp[s].p + (j - sp[s].to) - a.entry[e].off = p + j - a.entry[e].off
    BY <1>4
  <1>6. QED
    BY <1>2, <1>5

(* ZReadsTheFile: byte j of what one round of k3_zread copies from         *)
(* position pos on is byte pos + j of the file, in an archive whose index  *)
(* was accepted, if the frame it decodes is this entry's.                  *)
THEOREM ZReadsTheFile ==
  ASSUME NEW a, ArchiveType(a), ZOpen(a), NEW pos \in Nat, pos < a.raw, ZSound(a, pos),
         NEW left \in Nat, NEW addr, NEW direct \in BOOLEAN,
         NEW j \in 0 .. ZTake(a, pos, left) - 1
  PROVE  ZByte(a, pos, ZTake(a, pos, left), addr, direct, j) = pos + j
  <1> DEFINE e == Entry(a, pos)
             take == ZTake(a, pos, left)
             within == pos - Start(a, e)
  <1>1. /\ e \in DOMAIN a.entry
        /\ Start(a, e) \in Nat /\ End(a, e) \in Nat
        /\ Start(a, e) <= pos /\ pos < End(a, e)
    BY EntryHolds
  <1>2. a.entry[e].off \in Nat
    BY <1>1 DEF ArchiveType
  <1> HIDE DEF e
  <1>3. take \in Nat /\ take <= End(a, e) - pos
    <2>1. End(a, e) - pos \in Nat
      BY <1>1
    <2>2. take = Min({End(a, e) - pos, left})
      BY DEF ZTake, e
    <2> DEFINE rest == End(a, e) - pos
    <2>3. rest \in Int /\ left \in Int /\ take = Min({rest, left})
      BY <2>1, <2>2
    <2> HIDE DEF rest, take
    <2>4. take \in {rest, left} /\ take <= rest
      BY <2>3, LesserOfTwo
    <2>5. QED
      BY <2>1, <2>4 DEF rest
  <1>4. j \in 0 .. take - 1 /\ within \in Nat
    BY <1>1
  <1> HIDE DEF take
  <1>5. CASE a.entry[e].flags = RAW
    <2> DEFINE p == a.entry[e].off + within
    <2>1. ZByte(a, pos, take, addr, direct, j) = RawByte(a, e, p, take, addr, direct, j)
      BY <1>5 DEF ZByte, e
    <2>2. p \in Int /\ p - a.entry[e].off = pos - Start(a, e)
      BY <1>1, <1>2, <1>4
    <2> HIDE DEF p
    <2>3. RawByte(a, e, p, take, addr, direct, j) = Start(a, e) + (p + j - a.entry[e].off)
      BY <1>1, <1>2, <1>3, <1>4, <2>2, RawBytes
    <2>4. Start(a, e) + (p + j - a.entry[e].off) = pos + j
      BY <1>1, <1>2, <1>3, <1>4, <2>2
    <2>5. QED
      BY <2>1, <2>3, <2>4 DEF take
  <1>6. CASE a.entry[e].flags # RAW
    <2>1. FrameFits(a, e)
      BY <1>6 DEF ZSound, e
    <2>2. ZByte(a, pos, take, addr, direct, j) = Stored(a, e, Unsplit(a, e, within + j))
      BY <1>6 DEF ZByte, e
    <2>3. within + j \in 0 .. End(a, e) - Start(a, e) - 1
      BY <1>1, <1>3, <1>4
    <2>4. Stored(a, e, Unsplit(a, e, within + j)) = Start(a, e) + (within + j)
      BY <1>1, <2>1, <2>3, CodedByte
    <2>5. QED
      BY <1>1, <1>3, <1>4, <2>2, <2>4 DEF take
  <1>7. QED
    BY <1>5, <1>6


(* A call of either read function begins well.                             *)
LEMMA WindowOf ==
  ASSUME NEW off \in Nat, NEW n \in Nat
  PROVE  /\ RoundDown(off) \in Nat /\ off - RoundDown(off) \in Nat
         /\ RoundUp(off + n) - RoundDown(off) \in Nat
  <1>1. off \div Align \in Nat
    BY ArchiveAssumption, DivNat
  <1>2. RoundDown(off) \in Nat
    <2>1. \A x, z \in Nat : x * z \in Nat
      OBVIOUS
    <2>2. QED
      BY <1>1, <2>1, ArchiveAssumption DEF RoundDown
  <1>3. /\ RoundDown(off) <= off
    BY Rounding
  <1>4. RoundUp(off + n) \in Int /\ off + n <= RoundUp(off + n)
    <2> DEFINE x == off + n
    <2>1. x \in Int
      OBVIOUS
    <2> HIDE DEF x
    <2>2. RoundUp(x) \in Int /\ x <= RoundUp(x)
      BY <2>1, Rounding
    <2>3. QED
      BY <2>2 DEF x
  <1>5. QED
    BY <1>2, <1>3, <1>4

LEMMA RoomOf ==
  ASSUME NEW cap \in Int
  PROVE  LET room == Cardinality(0 .. cap - 1) IN
         /\ room \in Nat /\ 0 .. cap - 1 = 0 .. room - 1
         /\ cap >= 0 => room = cap
  <1>1. Cardinality(0 .. cap - 1) = IF 0 > cap - 1 THEN 0 ELSE (cap - 1) - 0 + 1
    <2> DEFINE b == cap - 1
    <2>1. b \in Int /\ 0 \in Int
      OBVIOUS
    <2> HIDE DEF b
    <2>2. Cardinality(0 .. b) = IF 0 > b THEN 0 ELSE b - 0 + 1
      BY <2>1, FS_Interval
    <2>3. QED
      BY <2>2 DEF b
  <1>2. CASE cap > 0
    BY <1>1, <1>2
  <1>3. CASE ~(cap > 0)
    <2>1. Cardinality(0 .. cap - 1) = 0 /\ 0 .. cap - 1 = {} /\ 0 .. 0 - 1 = {}
      BY <1>1, <1>3
    <2>2. QED
      BY <2>1, <1>3
  <1>4. QED
    BY <1>2, <1>3

LEMMA StartServes ==
  ASSUME NEW via, NEW k \in DOMAIN dir.shard, ShardType(dir.shard[k]),
         NEW off \in Int, NEW n \in Int, NEW cap \in Int, NEW addr
  PROVE  /\ Served(StartRead(via, k, off, n, cap, addr))
         /\ StartRead(via, k, off, n, cap, addr).via = via
  <1> DEFINE sh == dir.shard[k]
             lo == RoundDown(off)
             hi == RoundUp(off + n)
             zhi == Min({hi, sh.z.raw})
             exact == [via |-> via, shard |-> k, off |-> off, n |-> n, lo |-> off, len |-> n,
                       pad |-> 0, got |-> 0, addr |-> addr, done |-> FALSE, path |-> "fd",
                       buf |-> [j \in 0 .. cap - 1 |-> NoByte]]
             Window(to) == [exact EXCEPT !.lo = lo, !.len = to - lo, !.pad = off - lo]
             r == StartRead(via, k, off, n, cap, addr)
             fits == via = "aligned" /\ sh.dfd /\ sh.z.mapped /\ zhi - lo <= cap
             sane == off \in Nat /\ n \in Nat /\ n <= cap
  <1>1. sane => lo \in Nat /\ off - lo \in Nat /\ hi - lo \in Nat /\ hi \in Int
    <2> SUFFICES ASSUME sane
                 PROVE  lo \in Nat /\ off - lo \in Nat /\ hi - lo \in Nat /\ hi \in Int
      OBVIOUS
    <2>1. hi \in Int
      <3> DEFINE x == off + n
      <3>1. x \in Int
        OBVIOUS
      <3> HIDE DEF x
      <3>2. RoundUp(x) \in Int
        BY <3>1, Rounding
      <3>3. QED
        BY <3>2 DEF x
    <2>2. QED
      BY <2>1, WindowOf
  <1>2. \/ r = Refused(exact)
        \/ sane /\ r = Refused(Window(zhi))
        \/ sane /\ \E p \in {"fd", "buffered", "remote"} : r = [exact EXCEPT !.path = p]
        \/ sane /\ Packed(sh) /\ ZInRange(sh.z, off, n) /\ r = [exact EXCEPT !.path = "archive"]
        \/ /\ sane /\ Packed(sh) /\ ZInRange(sh.z, lo, zhi - lo) /\ zhi - lo <= cap
           /\ r = [Window(zhi) EXCEPT !.path = "archive"]
        \/ sane /\ hi - lo <= cap /\ r = [Window(hi) EXCEPT !.path = "direct"]
    <2> HIDE DEF lo, hi, zhi
    <2>1. r = (LET widened == via = "aligned" /\ sh.dfd
                   q == IF widened /\ sh.z.mapped /\ zhi - lo <= cap THEN Window(zhi) ELSE exact IN
               IF off < 0 \/ n < 0 \/ cap < n THEN Refused(exact)
               ELSE IF dir.remote = "yes" THEN [exact EXCEPT !.path = "remote"]
               ELSE IF Packed(sh) THEN
                      IF ZInRange(sh.z, q.lo, q.len) THEN [q EXCEPT !.path = "archive"] ELSE Refused(q)
               ELSE IF ~widened THEN [exact EXCEPT !.path = IF via = "st" THEN "fd" ELSE "buffered"]
               ELSE IF hi - lo > cap THEN Refused(exact)
               ELSE [Window(hi) EXCEPT !.path = "direct"])
      BY Zenon DEF StartRead, lo, hi, zhi
    <2>2. (off < 0 \/ n < 0 \/ cap < n) \/ sane
      OBVIOUS
    <2>3. sane => hi - lo > cap \/ hi - lo <= cap
      BY <1>1 DEF lo, hi
    <2>4. /\ exact.lo = off /\ exact.len = n
          /\ Window(zhi).lo = lo /\ Window(zhi).len = zhi - lo
      OBVIOUS
    <2> HIDE DEF r, exact, Window, sane
    <2>5. CASE sane /\ dir.remote # "yes" /\ Packed(sh)
      <3>1. CASE fits
        <4>1. \/ r = Refused(exact)
              \/ r = IF ZInRange(sh.z, lo, zhi - lo) THEN [Window(zhi) EXCEPT !.path = "archive"]
                                                     ELSE Refused(Window(zhi))
          BY <2>1, <2>4, <2>5, <3>1, Zenon DEF fits
        <4>2. QED
          BY <2>5, <3>1, <4>1, Zenon DEF fits
      <3>2. CASE ~fits
        <4>1. \/ r = Refused(exact)
              \/ r = IF ZInRange(sh.z, off, n) THEN [exact EXCEPT !.path = "archive"]
                                               ELSE Refused(exact)
          BY <2>1, <2>4, <2>5, <3>2, Zenon DEF fits
        <4>2. QED
          BY <2>5, <4>1, Zenon
      <3>3. QED
        BY <3>1, <3>2
    <2>6. CASE ~(dir.remote # "yes" /\ Packed(sh))
      BY <2>1, <2>2, <2>3, <2>6, Zenon
    <2>7. QED
      BY <2>1, <2>2, <2>5, <2>6, Zenon
  <1>3. sane /\ Packed(sh) => sh.z.raw \in Nat
    BY DEF ShardType, ArchiveType
  <1>4. /\ sane /\ Packed(sh) /\ ZInRange(sh.z, off, n) => off + n <= sh.z.raw
        /\ sane /\ Packed(sh) /\ ZInRange(sh.z, lo, zhi - lo)
             => zhi - lo \in Nat /\ lo + (zhi - lo) <= sh.z.raw
    <2>1. ASSUME sane, Packed(sh), ZInRange(sh.z, off, n)
          PROVE  off + n <= sh.z.raw
      BY <1>3, <2>1 DEF ZInRange
    <2>2. ASSUME sane, Packed(sh), ZInRange(sh.z, lo, zhi - lo)
          PROVE  zhi - lo \in Nat /\ lo + (zhi - lo) <= sh.z.raw
      <3> DEFINE raw == sh.z.raw
      <3>1. raw \in Int /\ hi \in Int /\ lo \in Nat /\ hi - lo \in Nat /\ lo <= raw
        BY <1>1, <1>3, <2>2 DEF ZInRange
      <3> HIDE DEF hi, raw, lo
      <3>2. Min({hi, raw}) \in {hi, raw} /\ Min({hi, raw}) <= raw
        BY <3>1, LesserOfTwo
      <3>3. zhi = Min({hi, raw})
        BY DEF raw
      <3> HIDE DEF zhi
      <3>4. zhi - lo \in Nat /\ lo + (zhi - lo) <= raw
        BY <3>1, <3>2, <3>3
      <3>5. QED
        BY <3>4 DEF raw
    <2>3. QED
      BY <2>1, <2>2
  <1> HIDE DEF sh, lo, hi, zhi, r, fits
  <1> DEFINE Blank(s) == s.buf = [j \in 0 .. cap - 1 |-> NoByte]
  <1>5. ASSUME NEW s, s.via = via, s.shard = k, s.off = off, s.n = n, s.got = 0,
               Blank(s), IsRead(s),
               s.lo \in Int, s.len \in Nat, s.pad \in Nat, off = s.lo + s.pad,
               s.len > 0 => s.lo \in Nat, s.len = 0 \/ s.len <= cap,
               s.path = "archive" => Packed(sh) /\ s.lo + s.len <= sh.z.raw
        PROVE  Served(s)
    <2>1. /\ Room(s) \in Nat /\ DOMAIN s.buf = 0 .. Room(s) - 1 /\ (cap >= 0 => Room(s) = cap)
      BY <1>5, RoomOf DEF Room
    <2>2. s.len <= Room(s)
      BY <1>5, <2>1
    <2>6. \A j \in DOMAIN s.buf : s.buf[j] = NoByte
      BY <1>5
    <2> HIDE DEF sh, Blank
    <2>3. Packed(sh) /\ s.lo + s.len <= sh.z.raw => Packed(dir.shard[k]) /\ s.lo + s.len <= dir.shard[k].z.raw
      BY Zenon DEF sh
    <2>4. s.got \in 0 .. s.len /\ \A j \in 0 .. s.got - 1 : s.buf[j] = s.lo + j
      BY <1>5
    <2>5. QED
      BY <1>5, <2>1, <2>2, <2>3, <2>4, <2>6 DEF Served
  <1>6. CASE r = Refused(exact)
    <2>1. /\ r.via = via /\ r.shard = k /\ r.off = off /\ r.n = n /\ r.got = 0
          /\ r.lo = off /\ r.len = 0 /\ r.pad = 0 /\ r.path = "fd"
          /\ Blank(r) /\ IsRead(r)
      BY <1>6 DEF Refused, IsRead, ReadFields
    <2>2. Served(r) /\ r.via = via
      BY <1>5, <2>1
    <2>3. QED
      BY <2>2 DEF r
  <1>7. CASE sane /\ \E p \in {"fd", "buffered", "remote"} : r = [exact EXCEPT !.path = p]
    <2>1. /\ r.via = via /\ r.shard = k /\ r.off = off /\ r.n = n /\ r.got = 0
          /\ r.lo = off /\ r.len = n /\ r.pad = 0 /\ r.path # "archive"
          /\ Blank(r) /\ IsRead(r) /\ sane
      <3>1. PICK p \in {"fd", "buffered", "remote"} : r = [exact EXCEPT !.path = p]
        BY <1>7
      <3>2. p # "archive"
        OBVIOUS
      <3>3. QED
        BY <1>7, <3>1, <3>2 DEF IsRead, ReadFields
    <2>2. Served(r) /\ r.via = via
      BY <1>5, <2>1
    <2>3. QED
      BY <2>2 DEF r
  <1>8. CASE sane /\ Packed(sh) /\ ZInRange(sh.z, off, n) /\ r = [exact EXCEPT !.path = "archive"]
    <2>1. /\ r.via = via /\ r.shard = k /\ r.off = off /\ r.n = n /\ r.got = 0
          /\ r.lo = off /\ r.len = n /\ r.pad = 0
          /\ Blank(r) /\ IsRead(r)
      BY <1>8 DEF IsRead, ReadFields
    <2>2. Packed(sh) /\ r.lo + r.len <= sh.z.raw
      BY <1>4, <1>8, <2>1
    <2>3. /\ off = r.lo + r.pad /\ r.len <= cap
          /\ r.lo \in Nat /\ r.len \in Nat /\ r.pad \in Nat
      BY <1>8, <2>1
    <2>4. Served(r) /\ r.via = via
      BY <1>5, <2>1, <2>2, <2>3
    <2>5. QED
      BY <2>4 DEF r
  <1>9. ASSUME sane, NEW to, NEW p, to - lo \in Nat, to - lo <= cap, r = [Window(to) EXCEPT !.path = p],
               p = "archive" => Packed(sh) /\ lo + (to - lo) <= sh.z.raw
        PROVE  Served(r) /\ r.via = via
    <2>1. /\ r.via = via /\ r.shard = k /\ r.off = off /\ r.n = n /\ r.got = 0
          /\ r.lo = lo /\ r.len = to - lo /\ r.pad = off - lo /\ r.path = p
          /\ Blank(r) /\ IsRead(r)
      BY <1>9 DEF IsRead, ReadFields
    <2>2. off = lo + (off - lo)
      BY <1>1, <1>9
    <2>3. lo \in Nat /\ off - lo \in Nat
      BY <1>1, <1>9
    <2>4. /\ r.lo \in Int /\ r.len \in Nat /\ r.pad \in Nat /\ off = r.lo + r.pad
          /\ (r.len > 0 => r.lo \in Nat) /\ (r.len = 0 \/ r.len <= cap)
          /\ r.path = "archive" => Packed(sh) /\ r.lo + r.len <= sh.z.raw
      BY <1>9, <2>1, <2>2, <2>3
    <2> HIDE DEF Blank
    <2>5. QED
      BY <1>5, <2>1, <2>4
  <1>10. CASE /\ sane /\ Packed(sh) /\ ZInRange(sh.z, lo, zhi - lo) /\ zhi - lo <= cap
              /\ r = [Window(zhi) EXCEPT !.path = "archive"]
    BY <1>4, <1>9, <1>10, Zenon DEF r
  <1>11. CASE sane /\ hi - lo <= cap /\ r = [Window(hi) EXCEPT !.path = "direct"]
    BY <1>1, <1>9, <1>11, Zenon DEF r
  <1>12. CASE sane /\ r = Refused(Window(zhi))
    <2>1. PICK q : q = Window(zhi)
      OBVIOUS
    <2>2. /\ q.via = via /\ q.shard = k /\ q.off = off /\ q.n = n /\ q.got = 0
          /\ q.lo = lo /\ q.pad = off - lo /\ q.path = "fd"
          /\ Blank(q) /\ IsRead(q)
      BY <2>1 DEF IsRead, ReadFields
    <2>3. r = [q EXCEPT !.len = 0, !.done = TRUE]
      BY <1>12, <2>1, Zenon DEF Refused
    <2>4. /\ r.via = via /\ r.shard = k /\ r.off = off /\ r.n = n /\ r.got = 0
          /\ r.lo = lo /\ r.len = 0 /\ r.pad = off - lo /\ r.path = "fd"
          /\ Blank(r) /\ IsRead(r)
      BY <2>2, <2>3 DEF IsRead, ReadFields
    <2>5. off = lo + (off - lo) /\ lo \in Nat /\ off - lo \in Nat
      BY <1>1, <1>12
    <2>6. /\ r.lo \in Int /\ r.len \in Nat /\ r.pad \in Nat /\ off = r.lo + r.pad
          /\ (r.len > 0 => r.lo \in Nat) /\ (r.len = 0 \/ r.len <= cap)
          /\ r.path # "archive"
      BY <2>4, <2>5
    <2> HIDE DEF Blank
    <2>7. Served(r) /\ r.via = via
      BY <1>5, <2>4, <2>6
    <2>8. QED
      BY <2>7 DEF r
  <1>13. QED
    BY <1>2, <1>6, <1>7, <1>8, <1>10, <1>11, <1>12

(* A round of the loop copies what comes next.                             *)
LEMMA CopyServes ==
  ASSUME Served(rd), UNCHANGED input, NEW c \in 1 .. Left, rd' = Copied(c),
         \A j \in 0 .. c - 1 : ByteOf(c, j) = Pos + j
  PROVE  Served(rd)' /\ rd'.via = rd.via
  <1> DEFINE got == rd.got
             new == [b \in DOMAIN rd.buf |-> IF b - got \in 0 .. c - 1
                                             THEN ByteOf(c, b - got) ELSE rd.buf[b]]
  <1>1. rd' = [rd EXCEPT !.got = got + c, !.buf = new]
    BY DEF Copied
  <1>2. /\ IsRead(rd)
        /\ rd.lo \in Nat /\ rd.len \in Nat /\ got \in 0 .. rd.len /\ c \in 1 .. rd.len - got
        /\ DOMAIN rd.buf = 0 .. Room(rd) - 1 /\ Room(rd) \in Nat /\ rd.len <= Room(rd)
    BY DEF Served, Left
  <1>3. ASSUME NEW j \in 0 .. (got + c) - 1
        PROVE  j \in DOMAIN rd.buf /\ new[j] = rd.lo + j
    <2>1. j \in 0 .. rd.len - 1
      BY <1>2
    <2>2. j \in 0 .. rd.len - 1 /\ j \in DOMAIN rd.buf
      BY <1>2, <2>1
    <2>3. CASE j < got
      <3>1. j - got \notin 0 .. c - 1 /\ j \in 0 .. got - 1
        BY <1>2, <2>3
      <3>2. QED
        BY <2>2, <3>1 DEF Served
    <2>4. CASE ~(j < got)
      <3>1. j - got \in 0 .. c - 1
        BY <1>2, <2>4
      <3>2. ByteOf(c, j - got) = Pos + (j - got)
        BY <3>1
      <3>3. Pos + (j - got) = rd.lo + j
        BY <1>2 DEF Pos
      <3>4. QED
        BY <2>2, <3>1, <3>2, <3>3
    <2>5. QED
      BY <2>3, <2>4
  <1>4. DOMAIN new = DOMAIN rd.buf
    OBVIOUS
  <1> HIDE DEF new
  <1>5. /\ rd'.got = got + c /\ rd'.buf = new
        /\ \A f \in ReadFields \ {"got", "buf"} : rd'[f] = rd[f]
        /\ IsRead(rd')
    BY <1>1, <1>2 DEF IsRead, ReadFields
  <1>6. /\ rd'.lo = rd.lo /\ rd'.len = rd.len /\ rd'.pad = rd.pad /\ rd'.off = rd.off
        /\ rd'.n = rd.n /\ rd'.shard = rd.shard /\ rd'.path = rd.path /\ rd'.via = rd.via
    BY <1>5 DEF ReadFields
  <1>7. dir' = dir
    BY DEF input
  <1>8. got + c \in 0 .. rd.len
    BY <1>2
  <1> HIDE DEF got
  <1>9. \A j \in 0 .. rd'.got - 1 : rd'.buf[j] = rd'.lo + j
    <2> DEFINE lo == rd.lo
    <2>1. \A j \in 0 .. (got + c) - 1 : new[j] = lo + j
      BY <1>3, Zenon DEF lo
    <2>2. rd'.got = got + c /\ rd'.buf = new /\ rd'.lo = lo
      BY <1>5, <1>6 DEF lo
    <2> HIDE DEF lo
    <2>3. QED
      BY <2>1, <2>2
  <1>10. /\ Room(rd)' = Room(rd) /\ DOMAIN rd'.buf = DOMAIN rd.buf
    BY <1>4, <1>5 DEF Room
  <1>11. \A j \in DOMAIN rd'.buf : rd'.buf[j] # NoByte => j < rd'.got
    <2>1. ASSUME NEW j \in DOMAIN rd.buf, new[j] # NoByte
          PROVE  j < got + c
      <3>1. j \in Nat /\ got \in Nat
        BY <1>2
      <3>2. CASE j - got \in 0 .. c - 1
        BY <1>2, <3>1, <3>2
      <3>3. CASE j - got \notin 0 .. c - 1
        <4>1. new[j] = rd.buf[j]
          BY <3>3 DEF new
        <4>2. j < got
          BY <2>1, <4>1 DEF Served, got
        <4>3. QED
          BY <1>2, <3>1, <4>2
      <3>4. QED
        BY <3>2, <3>3
    <2>2. QED
      BY <1>5, <1>10, <2>1
  <1>12. QED
    BY <1>5, <1>6, <1>7, <1>8, <1>9, <1>10, <1>11 DEF Served

LEMMA EndServes ==
  ASSUME Served(rd), UNCHANGED input, rd' = [rd EXCEPT !.done = TRUE]
  PROVE  Served(rd)' /\ rd'.via = rd.via
  <1>1. /\ \A f \in ReadFields \ {"done"} : rd'[f] = rd[f]
        /\ IsRead(rd')
    BY DEF Served, IsRead, ReadFields
  <1>2. /\ rd'.lo = rd.lo /\ rd'.len = rd.len /\ rd'.pad = rd.pad /\ rd'.off = rd.off
        /\ rd'.n = rd.n /\ rd'.shard = rd.shard /\ rd'.path = rd.path /\ rd'.via = rd.via
        /\ rd'.got = rd.got /\ rd'.buf = rd.buf
    BY <1>1 DEF ReadFields
  <1>3. dir' = dir /\ Room(rd)' = Room(rd)
    BY <1>2 DEF input, Room
  <1>4. QED
    BY <1>1, <1>2, <1>3 DEF Served

(* A round copies from the archive what ZReadsTheFile says, and from any   *)
(* other source what is there.                                             *)
LEMMA BytesRight ==
  ASSUME Served(rd), ShardType(dir.shard[rd.shard]), ScanOk(dir.shard[rd.shard]),
         Left > 0, NEW c \in 1 .. Left,
         rd.path = "archive" => Sound /\ c = Ask
  PROVE  \A j \in 0 .. c - 1 : ByteOf(c, j) = Pos + j
  <1> DEFINE sh == dir.shard[rd.shard]
  <1>1. CASE rd.path # "archive"
    BY <1>1 DEF ByteOf
  <1>2. CASE rd.path = "archive"
    <2>1. /\ Pos \in Nat /\ Pos < sh.z.raw /\ Left \in Nat
          /\ Packed(sh) /\ ArchiveType(sh.z) /\ ZOpen(sh.z) /\ sh.dfd \in BOOLEAN
      <3>1. Packed(sh) /\ rd.lo + rd.len <= sh.z.raw /\ ArchiveType(sh.z)
        BY <1>2 DEF Served, ShardType
      <3>2. rd.lo \in Nat /\ rd.got \in 0 .. rd.len /\ rd.len \in Nat /\ sh.z.raw \in Nat
        <4>1. rd.got \in 0 .. rd.len /\ rd.len \in Nat /\ (rd.len > 0 => rd.lo \in Nat)
          BY DEF Served
        <4>2. rd.len > 0
          BY <4>1 DEF Left
        <4>3. sh.z.raw \in Nat
          BY <3>1 DEF ArchiveType
        <4>4. QED
          BY <4>1, <4>2, <4>3
      <3>3. Pos \in Nat /\ Pos < sh.z.raw /\ Left \in Nat
        BY <3>1, <3>2 DEF Pos, Left
      <3>4. QED
        BY <3>1, <3>3 DEF ScanOk, ShardType
    <2>2. ZSound(sh.z, Pos) /\ c = ZTake(sh.z, Pos, Left)
      BY <1>2 DEF Sound, Ask
    <2>3. ASSUME NEW j \in 0 .. c - 1
          PROVE  ByteOf(c, j) = Pos + j
      <3>1. ByteOf(c, j) = ZByte(sh.z, Pos, c, rd.addr + rd.got, sh.dfd, j)
        BY <1>2 DEF ByteOf
      <3> DEFINE z == sh.z  pos == Pos  left == Left  addr == rd.addr + rd.got  direct == sh.dfd
      <3>2. /\ ArchiveType(z) /\ ZOpen(z) /\ pos \in Nat /\ pos < z.raw /\ ZSound(z, pos)
            /\ left \in Nat /\ direct \in BOOLEAN /\ j \in 0 .. ZTake(z, pos, left) - 1
            /\ c = ZTake(z, pos, left)
        BY <2>1, <2>2
      <3> HIDE DEF z, pos, left, addr, direct
      <3>3. ZByte(z, pos, ZTake(z, pos, left), addr, direct, j) = pos + j
        BY <3>2, ZReadsTheFile
      <3>4. QED
        BY <3>1, <3>2, <3>3 DEF z, pos, left, addr, direct
    <2>4. QED
      BY <2>3
  <1>3. QED
    BY <1>1, <1>2

LEMMA AskBounded ==
  ASSUME Served(rd), ShardType(dir.shard[rd.shard]), ScanOk(dir.shard[rd.shard]), Left > 0
  PROVE  /\ Left \in Nat /\ Avail \in Int /\ Ask \in Int /\ Ask <= Left
         /\ Min({Ask, Avail}) \in {Ask, Avail} /\ Min({Ask, Avail}) \in Int
         /\ Min({Ask, Avail}) <= Ask /\ Min({Ask, Avail}) <= Avail
         /\ Ask <= Avail => Min({Ask, Avail}) = Ask
  <1> DEFINE sh == dir.shard[rd.shard]
  <1>1. /\ rd.lo \in Nat /\ rd.got \in 0 .. rd.len /\ rd.len \in Nat /\ sh.size \in Nat
    BY DEF Served, ShardType, Left
  <1>2. Left \in Nat /\ Avail \in Int /\ Pos \in Nat
    BY <1>1 DEF Left, Avail, Pos
  <1>3. /\ PreadMax \in Nat \ {0} /\ RemoteChunk \in Nat \ {0}
    BY StoreAssumption
  <1>4. Ask \in Int /\ Ask <= Left
    <2>1. ASSUME NEW x \in Int
          PROVE  Min({x, Left}) \in Int /\ Min({x, Left}) <= Left
                 /\ Min({Left, x}) \in Int /\ Min({Left, x}) <= Left
      <3> DEFINE left == Left
      <3>1. left \in Int
        BY <1>2
      <3> HIDE DEF left
      <3>2. /\ Min({x, left}) \in {x, left} /\ Min({x, left}) <= left
            /\ Min({left, x}) \in {left, x} /\ Min({left, x}) <= left
        BY <3>1, LesserOfTwo
      <3>3. QED
        BY <3>1, <3>2 DEF left
    <2>2. CASE rd.path = "archive"
      <3>1. Packed(sh) /\ rd.lo + rd.len <= sh.z.raw /\ ArchiveType(sh.z) /\ ZOpen(sh.z)
        BY <2>2 DEF Served, ShardType, ScanOk
      <3>2. Pos < sh.z.raw
        <4>1. sh.z.raw \in Nat
          BY <3>1 DEF ArchiveType
        <4>2. QED
          BY <1>1, <3>1, <4>1 DEF Pos, Left
      <3>3. End(sh.z, Entry(sh.z, Pos)) \in Nat
        <4> DEFINE z == sh.z  pos == Pos
        <4>1. ArchiveType(z) /\ ZOpen(z) /\ pos \in Nat /\ pos < z.raw
          BY <1>2, <3>1, <3>2
        <4> HIDE DEF z, pos
        <4>2. End(z, Entry(z, pos)) \in Nat
          BY <4>1, EntryHolds
        <4>3. QED
          BY <4>2 DEF z, pos
      <3> DEFINE rest == End(sh.z, Entry(sh.z, Pos)) - Pos
      <3>4. rest \in Int
        BY <1>2, <3>3
      <3>5. Ask = Min({rest, Left})
        BY <2>2 DEF Ask, ZTake
      <3> HIDE DEF rest
      <3>6. QED
        BY <2>1, <3>4, <3>5
    <2>3. CASE rd.path = "remote"
      <3>1. Ask = Min({Left, RemoteChunk})
        BY <2>3 DEF Ask
      <3>2. RemoteChunk \in Int
        BY <1>3
      <3>3. QED
        BY <2>1, <3>1, <3>2
    <2>4. CASE rd.path = "buffered"
      BY <1>2, <2>4 DEF Ask
    <2>5. CASE rd.path \notin {"archive", "remote", "buffered"}
      <3>1. Ask = Min({Left, PreadMax})
        BY <2>5 DEF Ask
      <3>2. PreadMax \in Int
        BY <1>3
      <3>3. QED
        BY <2>1, <3>1, <3>2
    <2>6. QED
      BY <2>2, <2>3, <2>4, <2>5
  <1>5. QED
    <2> DEFINE x == Ask  v == Avail
    <2>1. x \in Int /\ v \in Int
      BY <1>2, <1>4
    <2> HIDE DEF x, v
    <2>2. Min({x, v}) \in {x, v} /\ Min({x, v}) <= x /\ Min({x, v}) <= v
      BY <2>1, LesserOfTwo
    <2>3. QED
      BY <1>2, <1>4, <2>1, <2>2 DEF x, v

(* RoundServes: whatever a round of the read loop does, what has come so   *)
(* far are the first bytes of the window.                                  *)
THEOREM RoundServes ==
  ASSUME Served(rd), ShardType(dir.shard[rd.shard]), ScanOk(dir.shard[rd.shard]),
         UNCHANGED input, Round
  PROVE  Served(rd)' /\ rd'.via = rd.via
  <1>1. CASE FullRound
    <2> DEFINE c == Min({Ask, Avail})
    <2>1. /\ Left > 0 /\ Sound /\ (AllOrNothing => Ask <= Avail)
          /\ c > 0 /\ rd' = Copied(c)
      BY <1>1 DEF FullRound
    <2>2. /\ Left \in Nat /\ Ask <= Left /\ Ask \in Int /\ c \in Int /\ c <= Ask
          /\ Ask <= Avail => c = Ask
      BY <2>1, AskBounded
    <2> HIDE DEF c
    <2>3. c \in 1 .. Left
      BY <2>1, <2>2
    <2>4. rd.path = "archive" => Sound /\ c = Ask
      BY <2>1, <2>2, Zenon DEF AllOrNothing
    <2>5. \A j \in 0 .. c - 1 : ByteOf(c, j) = Pos + j
      BY <2>1, <2>3, <2>4, BytesRight
    <2>6. QED
      BY <2>1, <2>3, <2>5, CopyServes
  <1>2. CASE ShortRound
    <2>1. PICK c \in 1 .. Min({Ask, Avail}) - 1 : rd' = Copied(c)
      BY <1>2 DEF ShortRound
    <2>2. Left > 0 /\ ~AllOrNothing
      BY <1>2 DEF ShortRound
    <2> DEFINE least == Min({Ask, Avail})
    <2>3. /\ Left \in Nat /\ Ask <= Left /\ Ask \in Int /\ least \in Int /\ least <= Ask
      BY <2>2, AskBounded, Zenon
    <2> HIDE DEF least
    <2>4. c \in 1 .. least - 1
      BY <2>1 DEF least
    <2>5. c \in 1 .. Left
      BY <2>3, <2>4
    <2>6. \A j \in 0 .. c - 1 : ByteOf(c, j) = Pos + j
      BY <2>2, <2>5, BytesRight DEF AllOrNothing
    <2>7. QED
      BY <2>1, <2>5, <2>6, CopyServes
  <1>3. CASE FailedRound \/ AtEnd
    BY <1>3, EndServes DEF FailedRound, AtEnd
  <1>4. QED
    BY <1>1, <1>2, <1>3 DEF Round
-----------------------------------------------------------------------------
LEMMA ServedResult ==
  ASSUME Served(rd)
  PROVE  /\ Result(rd) = 0 \/ Result(rd) \in 1 .. rd.n
         /\ \A j \in 0 .. Result(rd) - 1 : rd.buf[rd.pad + j] = rd.off + j
  <1>1. /\ rd.lo \in Int /\ rd.pad \in Nat /\ rd.n \in Int /\ rd.off = rd.lo + rd.pad
        /\ rd.len \in Nat /\ rd.got \in 0 .. rd.len
    BY DEF Served
  <1>2. (Result(rd) = 0 \/ Result(rd) \in 1 .. rd.n) /\ (Result(rd) > 0 => rd.pad + Result(rd) <= rd.got)
    BY <1>1 DEF Result
  <1> DEFINE res == Result(rd)
  <1> HIDE DEF res
  <1>3. ASSUME NEW j \in 0 .. res - 1
        PROVE  rd.buf[rd.pad + j] = rd.off + j
    <2>1. res \in Nat /\ rd.pad + j \in 0 .. rd.got - 1
      BY <1>1, <1>2 DEF res
    <2>2. rd.buf[rd.pad + j] = rd.lo + (rd.pad + j)
      BY <2>1 DEF Served
    <2>3. QED
      BY <1>1, <2>2
  <1>4. QED
    BY <1>2, <1>3 DEF res

-----------------------------------------------------------------------------
(***************************************************************************)
(* The name table.                                                         *)
(***************************************************************************)

(* k3_st_open doubles the buckets until the table is at most half full.    *)
LEMMA BucketsEnough ==
  ASSUME NEW nt \in Nat
  PROVE  Buckets(nt) \in Nat \ {0} /\ 2 * nt <= Buckets(nt)
  <1> DEFINE More(n) == IF n < 2 * nt THEN 2 * n ELSE n
             Val(f, k) == IF k = 0 THEN MinBuckets ELSE More(f[k - 1])
             Turns(f, b) == f = [k \in 0 .. b |-> Val(f, k)]
             G == {b \in 0 .. nt : \E f : Turns(f, b)}
  <1>1. 0 \in G
    <2> DEFINE v == [k \in 0 .. 0 |-> MinBuckets]
    <2>1. v = [k \in 0 .. 0 |-> Val(v, k)]
      OBVIOUS
    <2> HIDE DEF v, Val
    <2>2. Turns(v, 0)
      BY <2>1
    <2> HIDE DEF Turns
    <2>3. QED
      BY <2>2
  <1>2. ASSUME NEW b \in 0 .. nt - 1, b \in G
        PROVE  b + 1 \in G
    <2>1. PICK f : Turns(f, b)
      BY <1>2
    <2> DEFINE v == [k \in 0 .. b + 1 |-> IF k = b + 1 THEN More(f[b]) ELSE f[k]]
    <2>2. \A k \in 0 .. b : f[k] = Val(f, k) /\ v[k] = f[k]
      BY <2>1
    <2>3. ASSUME NEW k \in 0 .. b + 1
          PROVE  v[k] = Val(v, k)
      <3>1. CASE k = b + 1
        <4>1. v[k] = More(f[b]) /\ k # 0 /\ k - 1 = b /\ v[b] = f[b]
          BY <3>1, <2>2
        <4> HIDE DEF v, More
        <4>2. QED
          BY <4>1
      <3>2. CASE k \in 0 .. b
        <4>1. k # 0 => k - 1 \in 0 .. b
          BY <3>2
        <4> HIDE DEF v, More
        <4>2. QED
          BY <2>2, <3>2, <4>1
      <3>3. QED
        BY <3>1, <3>2
    <2>4. v = [k \in 0 .. b + 1 |-> v[k]]
      OBVIOUS
    <2> HIDE DEF v, Val
    <2>5. Turns(v, b + 1)
      BY <2>3, <2>4
    <2> HIDE DEF Turns
    <2>6. QED
      BY <2>5
  <1> DEFINE nb == CHOOSE f : Turns(f, nt)
  <1>3. Turns(nb, nt)
    <2> HIDE DEF Turns
    <2>1. \A b \in 0 .. nt : b \in G
      <3> HIDE DEF G
      <3>1. QED
        BY <1>1, <1>2, Upwards
    <2>2. \E f : Turns(f, nt)
      BY <2>1
    <2>3. QED
      BY <2>2
  <1>4. Buckets(nt) = nb[nt]
    BY DEF Buckets
  <1>5. \A k \in 0 .. nt : nb[k] = Val(nb, k)
    <2> HIDE DEF nb, Val
    <2>1. QED
      BY <1>3
  <1> HIDE DEF nb, Turns, G
  <1> DEFINE H == {k \in 0 .. nt : nb[k] \in Nat \ {0} /\ (nb[k] >= 2 * nt \/ nb[k] >= 2 * k)}
  <1>6. 0 \in H
    BY <1>5, StoreAssumption
  <1>7. ASSUME NEW k \in 0 .. nt - 1, k \in H
        PROVE  k + 1 \in H
    <2>1. nb[k + 1] = More(nb[k]) /\ k \in Nat
      <3>1. k + 1 \in 0 .. nt /\ k + 1 # 0 /\ (k + 1) - 1 = k
        OBVIOUS
      <3> HIDE DEF More
      <3>2. QED
        BY <1>5, <3>1
    <2>2. QED
      BY <1>7, <2>1
  <1>8. nt \in H
    <2> HIDE DEF H
    <2>1. QED
      BY <1>6, <1>7, Upwards
  <1>9. QED
    BY <1>4, <1>8

LEMMA InputTyped ==
  ASSUME OneOfCalls
  PROVE  /\ Len(dir.shard) \in Nat /\ DOMAIN dir.shard = 1 .. Len(dir.shard)
         /\ \A k \in DOMAIN dir.shard : ShardType(dir.shard[k])
         /\ \E c \in Calls : dir = c.dir /\ op = c.op /\ OpType(c)
                          /\ \A r \in ToSet(Requests) : Hash[r.name] \in Nat
  <1>1. PICK c \in Calls : dir = c.dir /\ op = c.op
    BY DEF OneOfCalls
  <1>2. OpType(c) /\ \A r \in ToSet(RequestsOf(c.op)) : Hash[r.name] \in Nat
    BY CallsAssumption, Zenon
  <1>3. QED
    BY <1>1, <1>2, StoreAssumption, Zenon DEF Requests

LEMMA EntryTyped ==
  ASSUME OneOfCalls, NEW x \in Entries
  PROVE  /\ x = <<x[1], x[2]>> /\ x[1] \in DOMAIN dir.shard
         /\ x[2] \in DOMAIN dir.shard[x[1]].tensor
         /\ Hash[NameOf(x)] \in Nat
         /\ Tensor(x).shard = x[1] /\ Tensor(x).off \in Int /\ Tensor(x).nbytes \in Int
         /\ Tensor(x).name = NameOf(x) /\ Tensor(x) # Missing
  <1>1. PICK k \in DOMAIN dir.shard : \E e \in DOMAIN dir.shard[k].tensor : x = <<k, e>>
    BY DEF Entries
  <1>2. x = <<x[1], x[2]>> /\ x[1] \in DOMAIN dir.shard /\ x[2] \in DOMAIN dir.shard[x[1]].tensor
    BY <1>1
  <1> DEFINE sh == dir.shard[x[1]]
             e == sh.tensor[x[2]]
  <1>3. sh.hlen \in Nat /\ e.o0 \in Int /\ e.o1 \in Int /\ Hash[e.name] \in Nat
    <2>1. HeaderType(sh)
      BY <1>2, InputTyped DEF ShardType
    <2>2. QED
      BY <1>2, <2>1 DEF HeaderType
  <1>4. Tensor(x) = [name |-> e.name, shard |-> x[1], dtype |-> e.dtype, shape |-> e.shape,
                     off |-> Base(sh) + e.o0, nbytes |-> e.o1 - e.o0]
    BY DEF Tensor
  <1>5. Base(sh) + e.o0 \in Int /\ e.o1 - e.o0 \in Int
    BY <1>3 DEF Base
  <1>6. NameOf(x) = e.name
    BY DEF NameOf
  <1> HIDE DEF sh, e
  <1>7. DOMAIN Tensor(x) # DOMAIN Missing
    <2>1. "shard" \in DOMAIN Tensor(x) /\ "shard" \notin DOMAIN Missing
      BY <1>4 DEF Missing
    <2>2. QED
      BY <2>1
  <1>8. /\ Tensor(x).shard = x[1] /\ Tensor(x).off \in Int /\ Tensor(x).nbytes \in Int
        /\ Tensor(x).name = NameOf(x)
    BY <1>4, <1>5, <1>6
  <1>9. Hash[NameOf(x)] \in Nat
    BY <1>3, <1>6
  <1>10. Tensor(x) # Missing
    BY <1>7
  <1>11. QED
    BY <1>2, <1>8, <1>9, <1>10

LEMMA FreeBucket ==
  ASSUME TableHolds, Indexed, Len(store.t) \in Nat
  PROVE  /\ Filled \in 0 .. Len(store.t)
         /\ \E j \in 0 .. Size - 1 : store.bucket[j] = Empty
  <1>1. Filled \in 0 .. Len(store.t)
    BY DEF TableHolds, Filled
  <1>2. /\ Size \in Nat \ {0} /\ 2 * Len(store.t) <= Size /\ DOMAIN store.bucket = 0 .. Size - 1
        /\ \A j \in DOMAIN store.bucket : store.bucket[j] \in {Empty} \cup 1 .. Filled
        /\ \A i, j \in DOMAIN store.bucket :
             store.bucket[i] = store.bucket[j] => store.bucket[i] = Empty \/ i = j
    BY DEF TableHolds
  <1> SUFFICES ASSUME \A j \in 0 .. Size - 1 : store.bucket[j] # Empty
               PROVE  FALSE
    BY <1>1
  <1> DEFINE S == 0 .. Size - 1
             T == 1 .. Filled
             f == [j \in S |-> store.bucket[j]]
  <1>3. f \in [S -> T]
    BY <1>2
  <1>4. /\ IsFiniteSet(S) /\ Cardinality(S) = Size
        /\ IsFiniteSet(T) /\ Cardinality(T) = Filled
    <2> DEFINE n == Size  m == Filled
    <2>1. n \in Nat \ {0} /\ m \in Nat
      BY <1>1, <1>2
    <2> HIDE DEF n, m
    <2> DEFINE l == n - 1
    <2>2. l \in Int /\ l - 0 + 1 = n /\ ~(0 > l) /\ 0 \in Int
      BY <2>1
    <2>3. m \in Int /\ m - 1 + 1 = m /\ (1 > m => m = 0) /\ 1 \in Int
      BY <2>1
    <2> HIDE DEF l
    <2>4. IsFiniteSet(0 .. l) /\ Cardinality(0 .. l) = n
      BY <2>2, FS_Interval
    <2>5. IsFiniteSet(1 .. m) /\ Cardinality(1 .. m) = m
      BY <2>3, FS_Interval
    <2>6. QED
      BY <2>4, <2>5 DEF n, m, l
  <1>5. Cardinality(T) < Cardinality(S)
    BY <1>1, <1>2, <1>4
  <1> HIDE DEF S, T, f
  <1>6. PICK x, y \in S : x # y /\ f[x] = f[y]
    BY <1>3, <1>4, <1>5, FS_PigeonHole
  <1>7. QED
    BY <1>2, <1>6 DEF S, f

(* A search by name ends, at the first bucket that is free or has the name.*)
LEMMA ProbeEnds ==
  ASSUME TableHolds, Indexed, Len(store.t) \in Nat, NEW name, Hash[name] \in Nat
  PROVE  LET p == Probe(store.t, store.bucket, name) IN
         /\ p \in DOMAIN store.bucket
         /\ \E k \in 0 .. Size - 1 :
              /\ p = (Hash[name] + k) % Size
              /\ store.bucket[p] = Empty \/ NameOf(store.t[store.bucket[p]]) = name
              /\ \A j \in 0 .. k - 1 : /\ Bucket(name, j) # Empty
                                      /\ NameOf(store.t[Bucket(name, j)]) # name
  <1> DEFINE nb == Size
             h == Hash[name]
             At(k) == (h + k) % nb
             Stops(k) == store.bucket[At(k)] = Empty \/ NameOf(store.t[store.bucket[At(k)]]) = name
             S == {k \in 0 .. nb - 1 : Stops(k)}
             Foremost(k) == Stops(k) /\ \A j \in 0 .. k - 1 : ~Stops(j)
  <1>1. nb \in Nat \ {0} /\ h \in Nat /\ DOMAIN store.bucket = 0 .. nb - 1
    BY DEF TableHolds
  <1>2. Probe(store.t, store.bucket, name) = At(CHOOSE k \in 0 .. nb - 1 : Foremost(k))
    BY DEF Probe, Size
  <1>3. \A k \in 0 .. nb - 1 : At(k) \in 0 .. nb - 1
    <2> HIDE DEF nb, h
    <2>1. QED
      BY <1>1
  <1>4. S # {}
    <2>1. PICK j \in 0 .. nb - 1 : store.bucket[j] = Empty
      BY FreeBucket
    <2>2. \E k \in 0 .. nb - 1 : At(k) = j
      <3> HIDE DEF nb, h
      <3>1. QED
        BY <1>1, Rotates
    <2> HIDE DEF nb, At
    <2>3. QED
      BY <2>1, <2>2
  <1>5. \E k \in 0 .. nb - 1 : Foremost(k)
    <2> HIDE DEF nb, h, Stops
    <2>1. S \in SUBSET Nat
      OBVIOUS
    <2>2. PICK k \in S : \A j \in S : k <= j
      <3> HIDE DEF S
      <3>1. QED
        BY <1>4, <2>1, Least
    <2>3. \A j \in 0 .. k - 1 : ~Stops(j)
      BY <1>1, <2>2
    <2>4. QED
      BY <2>2, <2>3
  <1> DEFINE k == CHOOSE k \in 0 .. nb - 1 : Foremost(k)
  <1>6. k \in 0 .. nb - 1 /\ Foremost(k)
    <2> HIDE DEF Foremost
    <2>1. QED
      BY <1>5
  <1>7. \A j \in 0 .. k - 1 : Bucket(name, j) = store.bucket[At(j)]
    BY DEF Bucket
  <1> HIDE DEF k, At, nb
  <1>8. At(k) \in DOMAIN store.bucket /\ k \in 0 .. Size - 1 /\ At(k) = (Hash[name] + k) % Size
    BY <1>1, <1>3, <1>6 DEF nb, At
  <1>9. Probe(store.t, store.bucket, name) = At(k)
    BY <1>2 DEF k
  <1>10. QED
    BY <1>6, <1>7, <1>8, <1>9

LEMMA SearchFinds ==
  ASSUME TableHolds, Indexed, Len(store.t) \in Nat, NEW name, Hash[name] \in Nat
  PROVE  LET b == store.bucket[Probe(store.t, store.bucket, name)] IN
         /\ b \in {Empty} \cup 1 .. Filled
         /\ b = Empty => \A i \in 1 .. Filled : NameOf(store.t[i]) # name
         /\ b # Empty => NameOf(store.t[b]) = name
  <1> DEFINE p == Probe(store.t, store.bucket, name)
             b == store.bucket[p]
  <1>1. p \in DOMAIN store.bucket
    BY ProbeEnds
  <1>2. PICK k \in 0 .. Size - 1 :
              /\ p = (Hash[name] + k) % Size
              /\ store.bucket[p] = Empty \/ NameOf(store.t[store.bucket[p]]) = name
              /\ \A j \in 0 .. k - 1 : /\ Bucket(name, j) # Empty
                                      /\ NameOf(store.t[Bucket(name, j)]) # name
    BY ProbeEnds
  <1>3. b = Bucket(name, k)
    BY <1>2 DEF Bucket
  <1>4. b \in {Empty} \cup 1 .. Filled
    BY <1>1 DEF TableHolds
  <1>5. b # Empty => NameOf(store.t[b]) = name
    BY <1>2
  <1>6. ASSUME b = Empty, NEW i \in 1 .. Filled, NameOf(store.t[i]) = name
        PROVE  FALSE
    <2>1. Sits(i)
      BY <1>6 DEF TableHolds
    <2>2. PICK o \in 0 .. Size - 1 :
            /\ Bucket(name, o) = i
            /\ \A j \in 0 .. o - 1 : Bucket(name, j) # Empty
      BY <1>6, <2>1 DEF Sits
    <2>3. i # Empty
      BY DEF Empty
    <2> HIDE DEF b, p
    <2>4. CASE k < o
      <3>1. k \in 0 .. o - 1
        BY <2>4
      <3>2. QED
        BY <1>3, <1>6, <2>2, <3>1
    <2>5. CASE o < k
      <3>1. o \in 0 .. k - 1
        BY <2>5
      <3>2. QED
        BY <1>2, <1>6, <2>2, <3>1
    <2>6. CASE k = o
      BY <1>3, <1>6, <2>2, <2>3, <2>6
    <2>7. QED
      BY <2>4, <2>5, <2>6
  <1>7. QED
    BY <1>4, <1>5, <1>6

LEMMA FindIs ==
  ASSUME OneOfCalls, ListHolds, TableHolds, Indexed, pc = "index" => next > Len(store.t),
         NEW name, Hash[name] \in Nat
  PROVE  FindsByName(name)
  <1> DEFINE b == store.bucket[Probe(store.t, store.bucket, name)]
  <1>1. /\ Len(store.t) \in Nat /\ DOMAIN store.t = 1 .. Len(store.t)
        /\ \A i \in 1 .. Len(store.t) : store.t[i] \in Entries
    BY DEF ListHolds
  <1>2. Filled = Len(store.t)
    BY <1>1 DEF Filled, TableHolds
  <1>3. /\ b \in {Empty} \cup 1 .. Len(store.t)
        /\ b = Empty => \A i \in 1 .. Len(store.t) : NameOf(store.t[i]) # name
        /\ b # Empty => NameOf(store.t[b]) = name
    BY <1>1, <1>2, SearchFinds
  <1>4. Find(name) = IF b = Empty THEN Missing ELSE Tensor(store.t[b])
    BY DEF Find
  <1>5. \A x \in Entries : \E i \in 1 .. Len(store.t) : store.t[i] = x
    BY <1>1 DEF ListHolds, Listed
  <1>6. \A i, j \in 1 .. Len(store.t) : NameOf(store.t[i]) = NameOf(store.t[j]) => i = j
    BY <1>2 DEF TableHolds
  <1> HIDE DEF b
  <1>7. CASE b = Empty
    <2>1. \A x \in Entries : NameOf(x) # name
      BY <1>3, <1>5, <1>7
    <2>2. QED
      BY <1>4, <1>7, <2>1 DEF FindsByName
  <1>8. CASE b # Empty
    <2>1. b \in 1 .. Len(store.t) /\ store.t[b] \in Entries /\ NameOf(store.t[b]) = name
      BY <1>1, <1>3, <1>8
    <2>2. \A z \in Entries : NameOf(z) = name => z = store.t[b]
      BY <1>5, <1>6, <2>1
    <2>3. QED
      BY <1>4, <1>8, <2>1, <2>2 DEF FindsByName
  <1>9. QED
    BY <1>7, <1>8

(* The next tensor goes into the first free bucket from its own.           *)
LEMMA IndexKeeps ==
  ASSUME OneOfCalls, ListHolds, TableHolds, pc = "index", IndexNext, pc' = "index"
  PROVE  TableHolds'
  <1> DEFINE x == store.t[next]
             name == NameOf(x)
             p == Probe(store.t, store.bucket, name)
  <1>1. /\ next <= Len(store.t) /\ ~Named(store.t, store.bucket, name)
        /\ store' = [store EXCEPT !.bucket[p] = next] /\ next' = next + 1 /\ dir' = dir
    BY DEF IndexNext, input
  <1>2. /\ Len(store.t) \in Nat /\ DOMAIN store.t = 1 .. Len(store.t)
        /\ \A i \in 1 .. Len(store.t) : store.t[i] \in Entries
    BY DEF ListHolds
  <1>3. next \in 1 .. Len(store.t) /\ Indexed /\ Filled = next - 1
    BY <1>1, <1>2 DEF TableHolds, Indexed, Filled
  <1>4. Hash[name] \in Nat
    BY <1>2, <1>3, EntryTyped
  <1>5. store.bucket[p] = Empty
    BY <1>1 DEF Named
  <1>6. \A i \in 1 .. next - 1 : NameOf(store.t[i]) # name
    <2> HIDE DEF name
    <2>1. \A i \in 1 .. Filled : NameOf(store.t[i]) # name
      BY <1>2, <1>3, <1>4, <1>5, SearchFinds
    <2>2. QED
      BY <1>3, <2>1
  <1>7. p \in DOMAIN store.bucket
    BY <1>2, <1>3, <1>4, ProbeEnds
  <1>8. PICK k \in 0 .. Size - 1 :
              /\ p = (Hash[name] + k) % Size
              /\ \A j \in 0 .. k - 1 : /\ Bucket(name, j) # Empty
                                      /\ NameOf(store.t[Bucket(name, j)]) # name
    <2> HIDE DEF name
    <2>1. QED
      BY <1>2, <1>3, <1>4, ProbeEnds
  <1> HIDE DEF p
  <1>9. /\ store'.t = store.t /\ store'.bucket = [store.bucket EXCEPT ![p] = next]
    <2>1. store = [t |-> store.t, bucket |-> store.bucket]
      BY DEF ListHolds
    <2>2. PICK full : full = [store.bucket EXCEPT ![p] = next]
      OBVIOUS
    <2>3. store' = [store EXCEPT !.bucket = full]
      BY <1>1, <2>2
    <2>4. store'.t = store.t /\ store'.bucket = full
      BY <2>1, <2>3
    <2>5. QED
      BY <2>2, <2>4
  <1>10. DOMAIN store'.bucket = DOMAIN store.bucket /\ Size' = Size /\ Filled' = next
    BY <1>1, <1>2, <1>3, <1>9 DEF Size, Filled
  <1>11. /\ Size \in Nat \ {0} /\ 2 * Len(store.t) <= Size /\ DOMAIN store.bucket = 0 .. Size - 1
         /\ \A j \in DOMAIN store.bucket : store.bucket[j] \in {Empty} \cup 1 .. next - 1
         /\ \A i, j \in DOMAIN store.bucket :
              store.bucket[i] = store.bucket[j] => store.bucket[i] = Empty \/ i = j
         /\ \A i \in 1 .. next - 1 : Sits(i)
         /\ \A i, j \in 1 .. next - 1 : NameOf(store.t[i]) = NameOf(store.t[j]) => i = j
    BY <1>3 DEF TableHolds
  <1>12. \A j \in DOMAIN store.bucket :
           store'.bucket[j] = IF j = p THEN next ELSE store.bucket[j]
    BY <1>9
  <1>13. \A j \in DOMAIN store'.bucket : store'.bucket[j] \in {Empty} \cup 1 .. next
    BY <1>2, <1>3, <1>10, <1>11, <1>12
  <1>14. \A i, j \in DOMAIN store'.bucket :
           store'.bucket[i] = store'.bucket[j] => store'.bucket[i] = Empty \/ i = j
    <2>1. \A j \in DOMAIN store.bucket : store.bucket[j] # next
      BY <1>3, <1>11 DEF Empty
    <2>2. QED
      BY <1>10, <1>11, <1>12, <2>1
  <1>15. \A i \in 1 .. Len(store.t) : NameOf(store.t[i])' = NameOf(store.t[i])
    BY <1>1, <1>9 DEF NameOf
  <1>16. ASSUME NEW n, Hash[n] \in Nat, NEW j \in 0 .. Size - 1
        PROVE  /\ (Hash[n] + j) % Size \in DOMAIN store.bucket
               /\ Bucket(n, j)' = store'.bucket[(Hash[n] + j) % Size]
               /\ Bucket(n, j) = store.bucket[(Hash[n] + j) % Size]
               /\ Bucket(n, j) # Empty => Bucket(n, j)' = Bucket(n, j)
    <2>1. (Hash[n] + j) % Size \in DOMAIN store.bucket
      <3> DEFINE s == Size  h == Hash[n]
      <3>1. s \in Nat \ {0} /\ h \in Nat /\ j \in Nat /\ DOMAIN store.bucket = 0 .. s - 1
        BY <1>11, <1>16
      <3> HIDE DEF s, h
      <3>2. (h + j) % s \in 0 .. s - 1
        BY <3>1
      <3>3. QED
        BY <3>1, <3>2 DEF s, h
    <2>2. Bucket(n, j)' = store'.bucket[(Hash[n] + j) % Size]
      BY <1>10 DEF Bucket
    <2>3. Bucket(n, j) = store.bucket[(Hash[n] + j) % Size]
      BY DEF Bucket
    <2>4. QED
      BY <1>5, <1>12, <2>1, <2>2, <2>3
  <1>17. ASSUME NEW i \in 1 .. next - 1
        PROVE  Sits(i)'
    <2>0. PICK n : n = NameOf(store.t[i])
      OBVIOUS
    <2>1. i \in 1 .. Len(store.t) /\ Hash[n] \in Nat /\ NameOf(store.t[i])' = n
      BY <1>2, <1>3, <1>15, <2>0, EntryTyped
    <2>2. PICK o \in 0 .. Size - 1 :
            /\ Bucket(n, o) = i
            /\ \A j \in 0 .. o - 1 : Bucket(n, j) # Empty /\ NameOf(store.t[Bucket(n, j)]) # n
      BY <1>11, <2>0 DEF Sits
    <2>3. Bucket(n, o)' = i
      BY <1>16, <2>1, <2>2 DEF Empty
    <2>4. ASSUME NEW j \in 0 .. o - 1
          PROVE  Bucket(n, j)' = Bucket(n, j) /\ Bucket(n, j) \in 1 .. Len(store.t)
      <3>1. j \in 0 .. Size - 1
        BY <1>11
      <3>2. Bucket(n, j) # Empty
        BY <2>2
      <3>3. Bucket(n, j)' = Bucket(n, j)
        BY <1>16, <2>1, <3>1, <3>2
      <3>5. Bucket(n, j) \in {Empty} \cup 1 .. next - 1
        <4>1. (Hash[n] + j) % Size \in DOMAIN store.bucket
          BY <1>16, <2>1, <3>1
        <4>2. QED
          BY <1>11, <4>1 DEF Bucket
      <3>4. QED
        BY <1>3, <1>2, <3>2, <3>3, <3>5
    <2>5. ASSUME NEW j \in 0 .. o - 1
          PROVE  Bucket(n, j)' # Empty /\ NameOf(store.t[Bucket(n, j)])' # n
      <3>1. NameOf(store.t[Bucket(n, j)])' = NameOf(store.t[Bucket(n, j)])
        BY <1>1, <1>9, <2>4 DEF NameOf
      <3>2. QED
        BY <2>2, <2>4, <3>1
    <2>6. \E o2 \in 0 .. Size' - 1 :
            /\ Bucket(n, o2)' = i
            /\ \A j \in 0 .. o2 - 1 : Bucket(n, j)' # Empty /\ NameOf(store.t[Bucket(n, j)])' # n
      BY <1>10, <2>3, <2>5
    <2>7. QED
      BY <2>1, <2>6 DEF Sits
  <1>18. ASSUME NEW i, i = next
        PROVE  Sits(i)'
    <2>0. PICK n : n = name
      OBVIOUS
    <2>1. Hash[n] \in Nat /\ NameOf(store.t[i])' = n /\ i \in 1 .. Len(store.t)
      BY <1>3, <1>4, <1>15, <1>18, <2>0
    <2>2. Bucket(n, k)' = i
      BY <1>7, <1>8, <1>12, <1>16, <1>18, <2>0, <2>1
    <2>3. ASSUME NEW j \in 0 .. k - 1
          PROVE  Bucket(n, j)' # Empty /\ NameOf(store.t[Bucket(n, j)])' # n
      <3>1. j \in 0 .. Size - 1
        BY <1>11
      <3>2. Bucket(n, j) # Empty /\ NameOf(store.t[Bucket(n, j)]) # n
        BY <1>8, <2>0
      <3>3. Bucket(n, j)' = Bucket(n, j)
        BY <1>16, <2>1, <3>1, <3>2
      <3>4. NameOf(store.t[Bucket(n, j)])' = NameOf(store.t[Bucket(n, j)])
        BY <1>1, <1>9, <3>3 DEF NameOf
      <3>5. QED
        BY <3>2, <3>3, <3>4
    <2>4. \E o2 \in 0 .. Size' - 1 :
            /\ Bucket(n, o2)' = i
            /\ \A j \in 0 .. o2 - 1 : Bucket(n, j)' # Empty /\ NameOf(store.t[Bucket(n, j)])' # n
      BY <1>10, <2>2, <2>3
    <2>5. QED
      BY <2>1, <2>4 DEF Sits
  <1>19. \A i \in 1 .. next : Sits(i)'
    <2>1. \A i \in 1 .. next : i \in 1 .. next - 1 \/ i = next
      BY <1>2, <1>3
    <2>2. QED
      BY <1>17, <1>18, <2>1
  <1>20. \A i, j \in 1 .. next : NameOf(store.t[i])' = NameOf(store.t[j])' => i = j
    <2>1. \A i \in 1 .. next : (i \in 1 .. next - 1 \/ i = next) /\ i \in 1 .. Len(store.t)
      BY <1>2, <1>3
    <2>2. QED
      BY <1>6, <1>11, <1>15, <2>1
  <1>21. next' \in 1 .. Len(store'.t) + 1
    BY <1>1, <1>2, <1>3, <1>9
  <1>22. QED
    BY <1>9, <1>10, <1>11, <1>13, <1>14, <1>19, <1>20, <1>21 DEF TableHolds
-----------------------------------------------------------------------------
(***************************************************************************)
(* The directory is opened.                                                *)
(***************************************************************************)

LEMMA OpenSteps ==
  ASSUME StoreHolds, Opening
  PROVE  /\ StoreHolds' /\ UNCHANGED <<input, rd, planVars, jobs, total, outVars>>
         /\ pc \in {"open", "scan", "index"} /\ pc' \in {"open", "scan", "index", "closed"}
         /\ faults' = faults \/ (faults' = faults + 1 /\ faults < MaxFaults)
  <1>1. /\ UNCHANGED <<input, rd, planVars, jobs, total, outVars>>
        /\ pc \in {"open", "scan", "index"} /\ pc' \in {"open", "scan", "index", "closed"}
        /\ faults' = faults \/ (faults' = faults + 1 /\ faults < MaxFaults)
    BY DEF Opening, Open, OpenDir, Scan, ScanUnanswered, StartIndex, IndexNext, storeVars
  <1>2. dir' = dir /\ op' = op
    BY <1>1 DEF input
  <1>3. Len(dir.shard) \in Nat /\ Len(dir'.shard) = Len(dir.shard)
    BY <1>2, InputTyped DEF StoreHolds
  <1>4. OneOfCalls'
    BY <1>2 DEF StoreHolds, OneOfCalls
  <1>5. pc' = "closed" => StoreHolds'
    BY <1>4 DEF StoreHolds, Indexed
  <1>6. pc' = "scan" /\ next' \in 1 .. Len(dir'.shard) + 1 /\ Scanned(next - 1)' => StoreHolds'
    BY <1>4 DEF StoreHolds, Indexed
  <1>7. CASE OpenDir
    <2>1. next = 1 /\ next' = next /\ pc' \in {"scan", "closed"}
      BY <1>7 DEF OpenDir, StoreHolds
    <2>2. Scanned(next - 1)' /\ next' \in 1 .. Len(dir'.shard) + 1
      BY <1>3, <2>1 DEF Scanned
    <2>3. QED
      BY <1>1, <1>5, <1>6, <2>1, <2>2
  <1>8. CASE Scan
    <2>1. next \in 1 .. Len(dir.shard) /\ Scanned(next - 1)
      BY <1>3, <1>8 DEF Scan, StoreHolds
    <2>2. CASE pc' = "closed"
      BY <1>1, <1>5, <2>2
    <2>3. CASE pc' # "closed"
      <3>1. ScanOk(dir.shard[next]) /\ next' = next + 1 /\ pc' = "scan"
        BY <1>8, <2>3 DEF Scan
      <3>2. \A k \in 1 .. next : k \in 1 .. next - 1 \/ k = next
        BY <2>1
      <3>3. \A k \in 1 .. next : ScanOk(dir.shard[k])
        BY <2>1, <3>1, <3>2, Zenon DEF Scanned
      <3>4. \A k \in 1 .. next : ScanOk(dir.shard[k])'
        BY <1>2, <3>3 DEF ScanOk
      <3>5. next' - 1 = next /\ next' \in 1 .. Len(dir.shard) + 1
        BY <1>3, <2>1, <3>1
      <3>6. Scanned(next - 1)'
        BY <3>4, <3>5 DEF Scanned
      <3>7. QED
        BY <1>1, <1>3, <1>6, <3>1, <3>5, <3>6
    <2>4. QED
      BY <2>2, <2>3
  <1>9. CASE ScanUnanswered
    BY <1>1, <1>5, <1>9 DEF ScanUnanswered
  <1>10. ASSUME AllScanned, pc' \in {"index", "closed"}
        PROVE  StoreHolds'
    <2>1. AllScanned'
      BY <1>2, <1>10 DEF AllScanned, Scanned, ScanOk
    <2>2. QED
      BY <1>10, <1>4, <2>1 DEF StoreHolds
  <1>11. CASE StartIndex
    <2>1. next = Len(dir.shard) + 1 /\ Scanned(next - 1) /\ pc' = "index"
      BY <1>3, <1>11 DEF StartIndex, StoreHolds
    <2>2. next - 1 = Len(dir.shard)
      BY <1>3, <2>1
    <2>3. AllScanned
      BY <2>1, <2>2, Zenon DEF AllScanned
    <2>4. QED
      BY <1>1, <1>10, <2>1, <2>3
  <1>12. CASE IndexNext
    <2>1. pc = "index" /\ pc' \in {"index", "closed"}
      BY <1>12 DEF IndexNext
    <2>2. AllScanned
      BY <2>1 DEF StoreHolds, Indexed
    <2>3. QED
      BY <1>1, <1>10, <2>1, <2>2
  <1>13. QED
    BY <1>1, <1>7, <1>8, <1>9, <1>11, <1>12 DEF Opening, Open

LEMMA SameEntries ==
  ASSUME dir' = dir
  PROVE  /\ Entries' = Entries
         /\ \A x : NameOf(x)' = NameOf(x) /\ Tensor(x)' = Tensor(x)
  BY DEF Entries, NameOf, Tensor, Base

(* Every entry of the shards scanned is in the list.                       *)
LEMMA ListOpens ==
  ASSUME StoreHolds, ListHolds, Opening
  PROVE  ListHolds'
  <1>1. dir' = dir /\ Entries' = Entries
    BY OpenSteps, SameEntries DEF input
  <1>2. /\ store = [t |-> store.t, bucket |-> store.bucket] /\ store.t \in Seq(Entries)
        /\ Len(store.t) \in Nat /\ DOMAIN store.t = 1 .. Len(store.t)
    BY DEF ListHolds
  <1>3. \A x \in Entries : x = <<x[1], x[2]>> /\ x[1] \in 1 .. Len(dir.shard)
                           /\ x[2] \in DOMAIN dir.shard[x[1]].tensor
    BY EntryTyped, InputTyped DEF StoreHolds
  <1>4. Len(dir.shard) \in Nat
    BY InputTyped DEF StoreHolds
  <1>5. ASSUME store' = Closed, pc' = "closed"
        PROVE  ListHolds'
    BY <1>5 DEF ListHolds, Closed, Indexed
  <1>6. ASSUME store' = [t |-> store.t, bucket |-> store'.bucket],
               pc' \notin {"open", "scan"}, \A x \in Entries : Listed(x)
        PROVE  ListHolds'
    <2>1. store'.t = store.t
      BY <1>6
    <2>2. \A x \in Entries : Listed(x)'
      BY <1>6, <2>1 DEF Listed
    <2>3. QED
      BY <1>1, <1>2, <1>6, <2>1, <2>2 DEF ListHolds
  <1>7. CASE OpenDir
    <2>1. store.t = <<>> /\ next = 1 /\ next' = 1 /\ store' = store /\ pc' \in {"scan", "closed"}
      BY <1>7 DEF OpenDir, ListHolds, StoreHolds, storeVars
    <2>2. \A x \in Entries : ~(x[1] < next')
      BY <1>3, <1>4, <2>1
    <2>3. ~Indexed'
      BY <2>1 DEF Indexed
    <2>4. QED
      BY <1>1, <1>2, <2>1, <2>2, <2>3 DEF ListHolds
  <1>8. CASE Scan
    <2>1. CASE pc' = "closed"
      BY <1>5, <1>8, <2>1 DEF Scan
    <2>2. CASE pc' # "closed"
      <3>1. next \in 1 .. Len(dir.shard) /\ pc = "scan"
        BY <1>4, <1>8 DEF Scan, StoreHolds
      <3>2. PICK s : s = [k \in DOMAIN dir.shard[next].tensor |-> <<next, k>>]
        OBVIOUS
      <3>3. /\ store' = [store EXCEPT !.t = @ \o s] /\ next' = next + 1 /\ pc' = "scan"
        BY <1>8, <2>2, <3>2 DEF Scan
      <3>4. \A k \in DOMAIN dir.shard[next].tensor : <<next, k>> \in Entries
        <4>1. next \in DOMAIN dir.shard
          BY <3>1, InputTyped DEF StoreHolds
        <4>2. QED
          BY <4>1 DEF Entries
      <3>5. PICK n \in Nat : DOMAIN dir.shard[next].tensor = 1 .. n
        <4>1. HeaderType(dir.shard[next])
          BY <3>1, InputTyped DEF StoreHolds, ShardType
        <4>2. QED
          BY <4>1 DEF HeaderType
      <3>6. s \in Seq(Entries) /\ Len(s) = n /\ \A k \in 1 .. n : s[k] = <<next, k>>
        BY <3>2, <3>4, <3>5
      <3>7. PICK l : l = store.t \o s
        OBVIOUS
      <3>8. /\ l \in Seq(Entries) /\ Len(l) = Len(store.t) + n
            /\ \A i \in 1 .. Len(store.t) + n :
                 l[i] = IF i <= Len(store.t) THEN store.t[i] ELSE s[i - Len(store.t)]
        BY <1>2, <3>6, <3>7, ConcatProperties
      <3>9. store' = [t |-> l, bucket |-> store.bucket]
        BY <1>2, <3>3, <3>7
      <3>10. ASSUME NEW x \in Entries, x[1] < next + 1
             PROVE  Listed(x)'
        <4>1. CASE x[1] < next
          <5>1. PICK i \in 1 .. Len(store.t) : store.t[i] = x
            BY <1>2, <3>1, <4>1 DEF ListHolds, Listed
          <5>2. i \in 1 .. Len(store.t) + n /\ l[i] = x
            BY <1>2, <3>5, <3>8, <5>1
          <5>3. QED
            BY <3>8, <3>9, <5>2 DEF Listed
        <4>2. CASE ~(x[1] < next)
          <5>1. x = <<next, x[2]>> /\ x[2] \in 1 .. n
            BY <1>3, <3>1, <3>5, <3>10, <4>2
          <5> DEFINE i == Len(store.t) + x[2]
          <5>2. i \in 1 .. Len(store.t) + n /\ ~(i <= Len(store.t)) /\ i - Len(store.t) = x[2]
            BY <1>2, <5>1
          <5>3. l[i] = x
            BY <3>6, <3>8, <5>1, <5>2
          <5>4. QED
            BY <3>8, <3>9, <5>2, <5>3 DEF Listed
        <4>3. QED
          BY <4>1, <4>2
      <3>11. ~Indexed'
        BY <3>3 DEF Indexed
      <3>12. store'.t = l /\ store' = [t |-> store'.t, bucket |-> store'.bucket]
        BY <3>9
      <3>13. QED
        BY <1>1, <3>3, <3>8, <3>10, <3>11, <3>12 DEF ListHolds
    <2>3. QED
      BY <2>1, <2>2
  <1>9. CASE ScanUnanswered
    BY <1>5, <1>9 DEF ScanUnanswered
  <1>10. CASE StartIndex
    <2>1. pc = "scan" /\ pc' = "index" /\ \A x \in Entries : x[1] < next
      BY <1>3, <1>4, <1>10 DEF StartIndex, StoreHolds
    <2>2. \A x \in Entries : Listed(x)
      BY <2>1 DEF ListHolds
    <2>3. store' = [t |-> store.t, bucket |-> store'.bucket]
      BY <1>2, <1>10 DEF StartIndex
    <2>4. QED
      BY <1>6, <2>1, <2>2, <2>3
  <1>11. CASE IndexNext
    <2>1. CASE pc' = "closed"
      BY <1>5, <1>11, <2>1 DEF IndexNext
    <2>2. CASE pc' # "closed"
      <3>1. pc = "index" /\ pc' = "index"
        BY <1>11, <2>2 DEF IndexNext
      <3>2. \A x \in Entries : Listed(x)
        BY <3>1 DEF ListHolds, Indexed
      <3>3. PICK b : store' = [store EXCEPT !.bucket = b]
        BY <1>11, <2>2 DEF IndexNext
      <3>4. store' = [t |-> store.t, bucket |-> store'.bucket]
        BY <1>2, <3>3
      <3>5. QED
        BY <1>6, <3>1, <3>2, <3>4
    <2>3. QED
      BY <2>1, <2>2
  <1>12. QED
    BY <1>7, <1>8, <1>9, <1>10, <1>11 DEF Opening, Open

(* The table is made, empty, and filled.                                   *)
LEMMA TableOpens ==
  ASSUME StoreHolds, ListHolds, TableHolds, Opening
  PROVE  TableHolds'
  <1>1. pc' \in {"open", "scan", "closed"} => TableHolds'
    BY DEF TableHolds, Indexed
  <1>2. CASE StartIndex
    <2>1. PICK nb : nb = Buckets(Len(store.t))
      OBVIOUS
    <2>2. Len(store.t) \in Nat
      BY DEF ListHolds
    <2>3. nb \in Nat \ {0} /\ 2 * Len(store.t) <= nb
      BY <2>1, <2>2, BucketsEnough
    <2>4. store' = [store EXCEPT !.bucket = [j \in 0 .. nb - 1 |-> Empty]]
      BY <1>2, <2>1 DEF StartIndex
    <2>5. /\ store'.t = store.t /\ store'.bucket = [j \in 0 .. nb - 1 |-> Empty]
          /\ pc' = "index" /\ next' = 1
      BY <1>2, <2>4 DEF StartIndex, ListHolds
    <2>6. Size' = nb
      BY <2>3, <2>5, RoomOf DEF Size
    <2>7. Filled' = 0
      BY <2>5 DEF Filled
    <2>8. QED
      BY <2>2, <2>3, <2>5, <2>6, <2>7 DEF TableHolds
  <1>3. CASE IndexNext
    <2>1. CASE pc' = "closed"
      BY <1>1, <2>1
    <2>2. CASE pc' # "closed"
      BY <1>3, <2>2, IndexKeeps DEF IndexNext, StoreHolds
    <2>3. QED
      BY <2>1, <2>2
  <1>4. CASE OpenDir \/ Scan \/ ScanUnanswered
    <2>1. pc' \in {"open", "scan", "closed"}
      BY <1>4 DEF OpenDir, Scan, ScanUnanswered
    <2>2. QED
      BY <1>1, <2>1
  <1>5. QED
    BY <1>2, <1>3, <1>4 DEF Opening, Open

(* After that nothing changes the directory, the list or the table.        *)
OtherSteps ==
  \/ Begin \/ Resolve \/ Relayout \/ Unresolved \/ Allocate \/ OutOfMemory
  \/ LoadNext \/ StartJob \/ JobRound \/ Loaded \/ LoadFailed \/ BindDone
  \/ Manifest \/ MemRefused \/ MemPoint \/ MemWiden \/ MemDone
  \/ Acquire \/ AcquireDone
  \/ Prepare \/ PrepareRefused \/ StreamedRows \/ StreamFailed \/ ExpertPart \/ RangeRead

LEMMA OthersKeep ==
  ASSUME CountersHold, JobsHold, OtherSteps
  PROVE  /\ dir' = dir /\ op' = op /\ store' = store
         /\ AtWork' /\ (AtWork \/ (Opened /\ Begin))
  <1>1. rd.via # "none" => pc \in {"load", "stream", "expert", "range"}
    BY DEF JobsHold, Idle
  <1>2. CASE Begin
    BY <1>2 DEF Begin, Opened, storeVars, input, AtWork
  <1>3. CASE Resolve \/ Relayout \/ Unresolved \/ Allocate \/ OutOfMemory
    BY <1>3 DEF Resolve, Relayout, Unresolved, Allocate, OutOfMemory, Fail, Return,
                storeVars, input, AtWork
  <1>4. CASE LoadNext \/ StartJob \/ Loaded \/ LoadFailed \/ BindDone
    BY <1>4 DEF LoadNext, StartJob, Loaded, LoadFailed, BindDone, Fail, Return,
                storeVars, input, AtWork
  <1>5. CASE JobRound
    BY <1>1, <1>5 DEF JobRound, Round, FullRound, ShortRound, FailedRound, AtEnd, Reading,
                storeVars, input, AtWork
  <1>6. CASE Manifest \/ MemRefused \/ MemPoint \/ MemWiden \/ MemDone
    BY <1>6 DEF Manifest, MemRefused, MemPoint, MemWiden, MemDone, Fail, Return,
                storeVars, outVars, input, AtWork
  <1>7. CASE Acquire \/ AcquireDone
    BY <1>7 DEF Acquire, AcquireDone, Fail, Return, storeVars, input, AtWork
  <1>8. CASE Prepare \/ PrepareRefused
    BY <1>8 DEF Prepare, PrepareRefused, Fail, Return, storeVars, input, AtWork
  <1>9. CASE StreamedRows \/ StreamFailed \/ ExpertPart \/ RangeRead
    BY <1>9 DEF StreamedRows, StreamFailed, ExpertPart, RangeRead, Fail, Return,
                storeVars, input, AtWork
  <1>10. QED
    BY <1>2, <1>3, <1>4, <1>5, <1>6, <1>7, <1>8, <1>9 DEF OtherSteps

LEMMA SameTable ==
  ASSUME dir' = dir, store' = store
  PROVE  /\ Size' = Size /\ \A i : Sits(i) => Sits(i)'
         /\ \A name : Find(name)' = Find(name)
  <1>1. Size' = Size /\ \A n, k : Bucket(n, k)' = Bucket(n, k)
    BY DEF Size, Bucket
  <1>2. \A i : Sits(i) => Sits(i)'
    BY <1>1, SameEntries DEF Sits
  <1>3. \A name : Find(name)' = Find(name)
    BY DEF Find, Probe, NameOf, Tensor, Base
  <1>4. QED
    BY <1>1, <1>2, <1>3

LEMMA TableKeeps ==
  ASSUME TableHolds, Indexed, dir' = dir, store' = store, Filled' = Filled,
         pc' = "index" => pc = "index" /\ next' = next
  PROVE  TableHolds'
  <1>1. /\ Size' = Size /\ \A i : Sits(i) => Sits(i)'
        /\ \A x : NameOf(x)' = NameOf(x)
    BY SameTable, SameEntries
  <1>2. QED
    BY <1>1 DEF TableHolds

LEMMA StoreKeeps ==
  ASSUME StoreHolds, ListHolds, TableHolds, dir' = dir, op' = op, store' = store,
         AtWork', AtWork \/ Opened
  PROVE  /\ StoreHolds' /\ ListHolds' /\ TableHolds'
         /\ \A name : Find(name)' = Find(name)
  <1>1. Indexed /\ Indexed' /\ pc' \notin {"open", "scan", "index"}
    BY DEF AtWork, Opened, Indexed
  <1>2. StoreHolds'
    <2>1. AllScanned
      BY <1>1 DEF StoreHolds
    <2>2. AllScanned'
      BY <2>1 DEF AllScanned, Scanned, ScanOk
    <2>3. OneOfCalls'
      BY DEF StoreHolds, OneOfCalls
    <2>4. QED
      BY <1>1, <2>2, <2>3 DEF StoreHolds
  <1>3. Entries' = Entries /\ \A x : NameOf(x)' = NameOf(x) /\ Tensor(x)' = Tensor(x)
    BY SameEntries
  <1>4. ListHolds'
    <2>1. \A x \in Entries : Listed(x)'
      BY <1>1 DEF ListHolds, Listed
    <2>2. QED
      BY <1>1, <1>3, <2>1 DEF ListHolds
  <1>5. Len(store.t) \in Nat
    BY DEF ListHolds
  <1>6. Filled = Len(store.t) /\ Filled' = Len(store.t)
    BY <1>1, <1>5 DEF Filled, TableHolds, AtWork, Opened
  <1>7. TableHolds'
    BY <1>1, <1>6, TableKeeps
  <1>8. QED
    BY <1>2, <1>4, <1>7, SameTable

(***************************************************************************)
(* The reads of a call.                                                    *)
(***************************************************************************)

LEMMA SeqEnds ==
  ASSUME NEW s, IsSeq(s), s # <<>>
  PROVE  /\ Len(s) \in Nat \ {0} /\ Head(s) = s[1]
         /\ IsSeq(Tail(s)) /\ Len(Tail(s)) = Len(s) - 1
         /\ \A k \in 1 .. Len(Tail(s)) : k + 1 \in 1 .. Len(s) /\ Tail(s)[k] = s[k + 1]
         /\ Len(s) = 1 <=> Tail(s) = <<>>
  <1>1. PICK n \in Nat : n = Len(s) /\ s = [k \in 1 .. n |-> s[k]]
    BY DEF IsSeq
  <1> DEFINE S == {s[k] : k \in 1 .. n}
  <1>2. s \in Seq(S)
    <2>1. \A k \in 1 .. n : s[k] \in S
      OBVIOUS
    <2> HIDE DEF S
    <2>2. s \in [1 .. n -> S]
      BY <1>1, <2>1
    <2>3. QED
      BY <2>2
  <1> HIDE DEF S
  <1>3. PICK t : t = Tail(s)
    OBVIOUS
  <1>4. t \in Seq(S) /\ Len(t) = n - 1 /\ \A k \in 1 .. Len(t) : t[k] = s[k + 1]
    BY <1>1, <1>2, <1>3, HeadTailProperties
  <1>5. IsSeq(t)
    BY <1>4 DEF IsSeq
  <1>6. n # 0 /\ (n = 1 <=> t = <<>>)
    <2>1. n # 0
      BY <1>1, <1>2
    <2>2. Len(t) = 0 <=> t = <<>>
      BY <1>4
    <2>3. QED
      BY <1>4, <2>1, <2>2
  <1>7. Head(s) = s[1]
    BY <1>2
  <1>8. QED
    BY <1>1, <1>3, <1>4, <1>5, <1>6, <1>7

LEMMA SameServed ==
  ASSUME dir' = dir
  PROVE  /\ \A j : JobOk(j)' <=> JobOk(j)
         /\ \A r : Served(r)' <=> Served(r)
  BY DEF JobOk, Served, Packed

LEMMA KeepsJobs ==
  ASSUME JobsHold, dir' = dir, jobs' = jobs, rd' = rd,
         jobs = <<>> \/ pc' = pc
  PROVE  JobsHold'
  <1>1. \A k \in 1 .. Len(jobs) : JobOk(jobs[k])'
    BY SameServed DEF JobsHold
  <1>2. rd # Idle => Served(rd)'
    BY SameServed DEF JobsHold
  <1>3. QED
    BY <1>1, <1>2 DEF JobsHold, IsSeq, Idle

LEMMA DropsJobs ==
  ASSUME jobs' = <<>>, rd' = Idle
  PROVE  JobsHold'
  BY DEF JobsHold, IsSeq, Idle

LEMMA TailsJobs ==
  ASSUME JobsHold, dir' = dir, jobs # <<>>, jobs' = Tail(jobs), rd' = Idle,
         Len(jobs) = 1 \/ pc' = pc
  PROVE  JobsHold'
  <1>1. PICK l : l = Tail(jobs)
    OBVIOUS
  <1>2. /\ IsSeq(l) /\ Len(l) = Len(jobs) - 1 /\ Len(jobs) \in Nat \ {0}
        /\ \A k \in 1 .. Len(l) : k + 1 \in 1 .. Len(jobs) /\ l[k] = jobs[k + 1]
        /\ Len(jobs) = 1 => l = <<>>
    BY <1>1, SeqEnds DEF JobsHold
  <1>3. \A k \in 1 .. Len(l) : JobOk(l[k])
    BY <1>2 DEF JobsHold
  <1>4. l # <<>> => pc' \in {"load", "stream", "expert", "range"}
    BY <1>2 DEF JobsHold
  <1>5. \A k \in 1 .. Len(l) : JobOk(l[k])'
    BY <1>3, SameServed
  <1>6. QED
    BY <1>1, <1>2, <1>4, <1>5 DEF JobsHold, Idle

LEMMA TakesJobs ==
  ASSUME dir' = dir, rd' = Idle, pc' \in {"load", "stream", "expert", "range"},
         IsSeq(jobs'), \A k \in 1 .. Len(jobs') : JobOk(jobs'[k])
  PROVE  JobsHold'
  <1>1. \A k \in 1 .. Len(jobs') : JobOk(jobs[k])'
    BY SameServed
  <1>2. QED
    BY <1>1 DEF JobsHold, IsSeq, Idle

LEMMA JobStarts ==
  ASSUME StoreHolds, JobsHold, StartJob
  PROVE  JobsHold'
  <1>1. /\ dir' = dir /\ jobs' = jobs /\ pc' = pc /\ jobs # <<>>
        /\ LET j == Head(jobs) IN rd' = StartRead(j.via, j.shard, j.off, j.n, j.cap, j.addr)
    BY DEF StartJob, storeVars, input
  <1>2. PICK j : j = Head(jobs)
    OBVIOUS
  <1>3. JobOk(j)
    BY <1>1, <1>2, SeqEnds DEF JobsHold
  <1>4. /\ j.shard \in DOMAIN dir.shard /\ ShardType(dir.shard[j.shard])
        /\ j.off \in Int /\ j.n \in Int /\ j.cap \in Int /\ j.via # "none"
    BY <1>3, InputTyped DEF JobOk, StoreHolds
  <1> DEFINE k == j.shard  off == j.off  n == j.n  cap == j.cap  via == j.via  addr == j.addr
  <1>5. /\ k \in DOMAIN dir.shard /\ ShardType(dir.shard[k])
        /\ off \in Int /\ n \in Int /\ cap \in Int /\ via # "none"
        /\ rd' = StartRead(via, k, off, n, cap, addr)
    BY <1>1, <1>2, <1>4
  <1> HIDE DEF k, off, n, cap, via, addr
  <1>6. Served(rd') /\ rd'.via # "none"
    BY <1>5, StartServes
  <1>7. Served(rd)'
    BY <1>1, <1>6, SameServed
  <1>8. \A i \in 1 .. Len(jobs) : JobOk(jobs[i])'
    BY <1>1, SameServed DEF JobsHold
  <1>9. QED
    BY <1>1, <1>6, <1>7, <1>8 DEF JobsHold, IsSeq

LEMMA JobReads ==
  ASSUME StoreHolds, JobsHold, JobRound
  PROVE  JobsHold'
  <1>1. Round /\ Reading /\ UNCHANGED input /\ dir' = dir /\ jobs' = jobs /\ pc' = pc
    BY DEF JobRound, Round, FullRound, ShortRound, FailedRound, AtEnd, storeVars, input
  <1>2. jobs # <<>> /\ Served(rd) /\ rd.via # "none"
    BY <1>1 DEF JobsHold, Reading, Idle
  <1>3. rd.shard \in DOMAIN dir.shard /\ ShardType(dir.shard[rd.shard])
    BY <1>2, InputTyped DEF Served, StoreHolds
  <1>4. pc \in {"load", "stream", "expert", "range"}
    BY <1>2 DEF JobsHold
  <1>5. ScanOk(dir.shard[rd.shard])
    <2>1. AllScanned
      BY <1>4 DEF StoreHolds, Indexed
    <2>2. QED
      BY <1>3, <2>1, InputTyped DEF AllScanned, Scanned, StoreHolds
  <1>6. Served(rd)' /\ rd'.via = rd.via
    BY <1>1, <1>2, <1>3, <1>5, RoundServes
  <1>7. \A i \in 1 .. Len(jobs) : JobOk(jobs[i])'
    BY <1>1, SameServed DEF JobsHold
  <1>8. QED
    BY <1>1, <1>2, <1>6, <1>7 DEF JobsHold, IsSeq

(* What a search by name gives lies in a shard, and has elements of one,   *)
(* two or four bytes.                                                      *)
LEMMA Found ==
  ASSUME StoreHolds, ListHolds, TableHolds, AtWork, NEW name, Hash[name] \in Nat,
         NEW t, t = Find(name), t # Missing
  PROVE  /\ t.shard \in DOMAIN dir.shard /\ t.off \in Int /\ t.nbytes \in Int
         /\ Esz(t.dtype) \in {1, 2, 4}
  <1>1. Indexed /\ pc # "index" /\ OneOfCalls
    BY DEF AtWork, Indexed, StoreHolds
  <1>2. FindsByName(name)
    BY <1>1, FindIs
  <1>3. PICK x \in Entries : t = Tensor(x)
    BY <1>2 DEF FindsByName
  <1>4. /\ x[1] \in DOMAIN dir.shard /\ x[2] \in DOMAIN dir.shard[x[1]].tensor
        /\ t.shard = x[1] /\ t.off \in Int /\ t.nbytes \in Int
    BY <1>1, <1>3, EntryTyped
  <1>5. Esz(t.dtype) > 0
    <2>1. ScanOk(dir.shard[x[1]])
      BY <1>1, <1>4, InputTyped DEF StoreHolds, AllScanned, Scanned
    <2>2. EntryOk(dir.shard[x[1]], dir.shard[x[1]].tensor[x[2]])
      BY <1>4, <2>1 DEF ScanOk
    <2>3. t.dtype = dir.shard[x[1]].tensor[x[2]].dtype
      <3>1. PICK sh : sh = dir.shard[x[1]]
        OBVIOUS
      <3>2. PICK e : e = sh.tensor[x[2]]
        OBVIOUS
      <3>3. t = [name |-> e.name, shard |-> x[1], dtype |-> e.dtype, shape |-> e.shape,
                 off |-> Base(sh) + e.o0, nbytes |-> e.o1 - e.o0]
        BY <1>3, <3>1, <3>2 DEF Tensor
      <3>4. t.dtype = e.dtype
        BY <3>3
      <3>5. QED
        BY <3>1, <3>2, <3>4
    <2>4. QED
      BY <2>2, <2>3 DEF EntryOk
  <1>6. Esz(t.dtype) \in {0, 1, 2, 4}
    BY DEF Esz
  <1>7. QED
    BY <1>4, <1>5, <1>6

LEMMA JobTyped ==
  ASSUME NEW k \in DOMAIN dir.shard, NEW off \in Int, NEW n \in Int, NEW cap \in Int, NEW addr,
         NEW via \in {"st", "aligned"}
  PROVE  JobOk(Job(k, off, n, via, cap, addr))
  BY DEF JobOk, Job

LEMMA OneJob ==
  ASSUME NEW j, JobOk(j), NEW js, js = <<j>>
  PROVE  IsSeq(js) /\ \A k \in 1 .. Len(js) : JobOk(js[k])
  BY DEF IsSeq

LEMMA LenOf ==
  ASSUME NEW S, NEW m \in Nat, NEW s \in [1 .. m -> S]
  PROVE  s \in Seq(S) /\ Len(s) = m
  OBVIOUS

LEMMA ManyJobs ==
  ASSUME NEW n \in Int, NEW js, js = [c \in 1 .. n |-> js[c]], \A c \in 1 .. n : JobOk(js[c])
  PROVE  IsSeq(js) /\ \A k \in 1 .. Len(js) : JobOk(js[k])
  <1>1. PICK m \in Nat : 1 .. n = 1 .. m
    <2>1. n < 0 => 1 .. n = 1 .. 0
      OBVIOUS
    <2>2. QED
      BY <2>1
  <1>2. js = [c \in 1 .. m |-> js[c]]
    BY <1>1
  <1>3. Len(js) = m
    <2> DEFINE S == {js[c] : c \in 1 .. m}
    <2>1. js \in [1 .. m -> S]
      BY <1>2
    <2> HIDE DEF S
    <2>2. QED
      BY <2>1, LenOf
  <1>4. QED
    BY <1>1, <1>2, <1>3 DEF IsSeq

LEMMA LoadJobsTyped ==
  ASSUME NEW p, NEW t, t.shard \in DOMAIN dir.shard, t.off \in Int, t.nbytes \in Int,
         Esz(t.dtype) \in {1, 2, 4}, NEW js, js = LoadJobs(p, t)
  PROVE  IsSeq(js) /\ \A k \in 1 .. Len(js) : JobOk(js[k])
  <1>1. CASE p.narrow \/ t.dtype = "F32"
    <2>1. js = <<Job(t.shard, t.off, t.nbytes, "st", t.nbytes, p.at)>>
      BY <1>1 DEF LoadJobs
    <2>2. JobOk(Job(t.shard, t.off, t.nbytes, "st", t.nbytes, p.at))
      BY JobTyped
    <2>3. QED
      BY <2>1, <2>2, OneJob
  <1>2. CASE ~(p.narrow \/ t.dtype = "F32")
    <2>1. PICK e \in {1, 2, 4} : e = Esz(t.dtype)
      OBVIOUS
    <2>2. PICK step : step = (WidenChunk \div e) * e
      OBVIOUS
    <2>3. step \in Nat \ {0}
      <3>1. WidenChunk \in Nat /\ WidenChunk >= 4
        BY CallsAssumption
      <3>2. e = 1 \/ e = 2 \/ e = 4
        OBVIOUS
      <3>3. QED
        BY <2>2, <3>1, <3>2
    <2> DEFINE Ends(c) == Min({step, t.nbytes - (c - 1) * step})
               At(c) == t.off + (c - 1) * step
    <2>4. js = [c \in 1 .. (t.nbytes + step - 1) \div step |->
                  Job(t.shard, At(c), Ends(c), "st", Ends(c), 0)]
      BY <1>2, <2>1, <2>2 DEF LoadJobs, Chunked
    <2>5. (t.nbytes + step - 1) \div step \in Int
      BY <2>3
    <2>6. ASSUME NEW c \in 1 .. (t.nbytes + step - 1) \div step
          PROVE  JobOk(Job(t.shard, At(c), Ends(c), "st", Ends(c), 0))
      <3>1. c \in Int
        BY <2>5
      <3>2. At(c) \in Int /\ t.nbytes - (c - 1) * step \in Int
        BY <2>3, <3>1
      <3>3. Ends(c) \in Int
        <4>1. PICK rest \in Int : rest = t.nbytes - (c - 1) * step
          BY <3>2
        <4>2. step \in Int
          BY <2>3
        <4>3. Min({step, rest}) \in {step, rest}
          BY <4>2, LesserOfTwo
        <4>4. QED
          BY <4>1, <4>2, <4>3
      <3> HIDE DEF At, Ends
      <3>4. QED
        BY <3>2, <3>3, JobTyped
    <2> HIDE DEF At, Ends
    <2>7. PICK n \in Int : n = (t.nbytes + step - 1) \div step
      BY <2>5
    <2>8. js = [c \in 1 .. n |-> js[c]] /\ \A c \in 1 .. n : JobOk(js[c])
      BY <2>4, <2>6, <2>7
    <2>9. QED
      BY <2>8, ManyJobs
  <1>3. QED
    BY <1>1, <1>2

(* An expert that lies in one piece is read whole, from its lowest part on.*)
Chosen(s) == CHOOSE x \in s : TRUE
Adds(f, g) ==
  g = [s \in SUBSET DOMAIN f |-> IF s = {} THEN 0 ELSE f[Chosen(s)] + g[s \ {Chosen(s)}]]

(* The sum of the values of a finite function is had by taking one of its  *)
(* places after the other.                                                 *)
LEMMA SumIterates ==
  ASSUME NEW f, IsFiniteSet(DOMAIN f), \A i \in DOMAIN f : f[i] \in Int
  PROVE  \E g : /\ Adds(f, g) /\ SumFunction(f) = g[DOMAIN f]
               /\ \A s \in SUBSET DOMAIN f : g[s] \in Int
  <1> DEFINE D == DOMAIN f
             N == Cardinality(D)
             Up(n) == {s \in SUBSET D : Cardinality(s) <= n}
             One(s) == Chosen(s)
             Val(g, s) == IF s = {} THEN 0 ELSE f[One(s)] + g[s \ {One(s)}]
             Sums(g, n) == g = [s \in Up(n) |-> Val(g, s)]
             G == {n \in 0 .. N : \E g : Sums(g, n)}
  <1>1. /\ N \in Nat
        /\ \A s \in SUBSET D : /\ IsFiniteSet(s) /\ Cardinality(s) \in Nat
                               /\ Cardinality(s) <= N
                               /\ (Cardinality(s) = 0 <=> s = {})
    <2>1. N \in Nat
      BY FS_CardinalityType
    <2>2. ASSUME NEW s \in SUBSET D
          PROVE  /\ IsFiniteSet(s) /\ Cardinality(s) \in Nat
                 /\ Cardinality(s) <= N /\ (Cardinality(s) = 0 <=> s = {})
      <3>1. IsFiniteSet(s) /\ Cardinality(s) <= N
        BY FS_Subset
      <3>2. QED
        BY <3>1, FS_CardinalityType, FS_EmptySet
    <2>3. QED
      BY <2>1, <2>2
  <1>2. ASSUME NEW s \in SUBSET D, s # {}
        PROVE  /\ One(s) \in s /\ f[One(s)] \in Int /\ s \ {One(s)} \in SUBSET D
               /\ Cardinality(s \ {One(s)}) = Cardinality(s) - 1
    <2>1. One(s) \in s
      BY <1>2 DEF Chosen
    <2> HIDE DEF One
    <2>2. Cardinality(s \ {One(s)}) = Cardinality(s) - 1
      BY <1>1, <2>1, FS_RemoveElement
    <2>3. QED
      BY <2>1, <2>2
  <1> HIDE DEF N, One
  <1>3. 0 \in G
    <2>1. \A s \in Up(0) : s = {}
      BY <1>1
    <2> DEFINE v == [s \in Up(0) |-> 0]
    <2>2. \A s \in Up(0) : v[s] = Val(v, s)
      BY <2>1
    <2>3. v = [s \in Up(0) |-> v[s]]
      OBVIOUS
    <2> HIDE DEF v, Val, Up
    <2>4. Sums(v, 0)
      BY <2>2, <2>3
    <2> HIDE DEF Sums
    <2>5. QED
      BY <1>1, <2>4
  <1>4. ASSUME NEW n \in 0 .. N - 1, n \in G
        PROVE  n + 1 \in G
    <2>1. PICK g : Sums(g, n)
      BY <1>4
    <2> DEFINE v == [s \in Up(n + 1) |-> IF s \in Up(n) THEN g[s]
                                         ELSE f[One(s)] + g[s \ {One(s)}]]
    <2>2. n \in Nat /\ Up(n) \subseteq Up(n + 1)
      BY <1>1
    <2>3. ASSUME NEW s \in Up(n + 1), s # {}
          PROVE  s \ {One(s)} \in Up(n)
      BY <1>1, <1>2, <2>2, <2>3
    <2>4. \A s \in Up(n) : g[s] = Val(g, s)
      BY <2>1
    <2> HIDE DEF Up, Sums
    <2>5. \A s \in Up(n) : v[s] = g[s]
      BY <2>2
    <2>6. ASSUME NEW s \in Up(n + 1)
          PROVE  v[s] = Val(v, s)
      <3>1. CASE s = {}
        <4>1. s \in Up(n)
          BY <1>1, <2>2, <3>1 DEF Up
        <4>2. QED
          BY <2>4, <2>5, <3>1, <4>1
      <3>2. CASE s # {}
        <4>1. s \ {One(s)} \in Up(n)
          BY <2>3, <3>2
        <4> DEFINE t == s \ {One(s)}
        <4>2. v[t] = g[t]
          BY <2>5, <4>1
        <4>3. v[s] = f[One(s)] + g[t]
          <5>1. CASE s \in Up(n)
            BY <2>4, <2>5, <3>2, <5>1
          <5>2. CASE s \notin Up(n)
            BY <5>2
          <5>3. QED
            BY <5>1, <5>2
        <4> HIDE DEF v
        <4>4. QED
          BY <3>2, <4>1, <4>2, <4>3
      <3>3. QED
        BY <3>1, <3>2
    <2>7. v = [s \in Up(n + 1) |-> v[s]]
      OBVIOUS
    <2> HIDE DEF v, Val
    <2>8. Sums(v, n + 1)
      BY <2>6, <2>7 DEF Sums
    <2>9. n + 1 \in 0 .. N
      BY <1>1, <2>2
    <2>10. QED
      BY <2>8, <2>9
  <1> HIDE DEF Sums
  <1>5. \E g : Sums(g, N)
    <2>1. N \in G
      <3> HIDE DEF G
      <3>1. QED
        BY <1>1, <1>3, <1>4, Upwards
    <2>2. QED
      BY <2>1
  <1>6. Up(N) = SUBSET D /\ D \in SUBSET D
    BY <1>1
  <1> DEFINE iter == CHOOSE g : g = [s \in SUBSET D |-> Val(g, s)]
  <1>7. SumFunction(f) = iter[D]
    BY DEF SumFunction, SumFunctionOnSet, FoldFunctionOnSet, MapThenFoldSet, One, Chosen
  <1>8. PICK g : Sums(g, N)
    BY <1>5
  <1>9. iter = [s \in SUBSET D |-> Val(iter, s)]
    <2>1. g = [s \in SUBSET D |-> Val(g, s)]
      BY <1>6, <1>8 DEF Sums
    <2> HIDE DEF Val
    <2>2. QED
      BY <2>1
  <1>10. \A s \in SUBSET D : iter[s] = Val(iter, s)
    <2> HIDE DEF iter, Val
    <2>1. QED
      BY <1>9
  <1> HIDE DEF iter
  <1> DEFINE H == {n \in 0 .. N : \A s \in Up(n) : iter[s] \in Int}
  <1>11. 0 \in H
    <2>1. \A s \in Up(0) : s = {}
      BY <1>1
    <2>2. iter[{}] = Val(iter, {})
      BY <1>10
    <2>3. Val(iter, {}) \in Int
      OBVIOUS
    <2> HIDE DEF Val
    <2>4. \A s \in Up(0) : iter[s] \in Int
      BY <2>1, <2>2, <2>3
    <2>5. QED
      BY <1>1, <2>4
  <1>12. ASSUME NEW n \in 0 .. N - 1, n \in H
         PROVE  n + 1 \in H
    <2>1. ASSUME NEW s \in Up(n + 1)
          PROVE  iter[s] \in Int
      <3>0. s \in SUBSET D /\ Cardinality(s) <= n + 1
        OBVIOUS
      <3>1. CASE s = {}
        <4>1. iter[s] = Val(iter, s)
          BY <1>10, <3>0
        <4>2. iter[s] = 0
          BY <3>1, <4>1
        <4>3. QED
          BY <4>2
      <3>2. CASE s # {}
        <4>1. /\ s \ {One(s)} \in SUBSET D /\ f[One(s)] \in Int
              /\ Cardinality(s \ {One(s)}) = Cardinality(s) - 1
          BY <1>2, <3>0, <3>2
        <4>2. s \ {One(s)} \in Up(n)
          BY <1>1, <3>0, <4>1
        <4>3. iter[s \ {One(s)}] \in Int
          BY <1>12, <4>2
        <4>4. iter[s] = Val(iter, s)
          BY <1>10, <3>0
        <4>5. iter[s] = f[One(s)] + iter[s \ {One(s)}]
          BY <3>2, <4>4
        <4>6. QED
          BY <4>1, <4>3, <4>5
      <3>3. QED
        BY <3>1, <3>2
    <2> HIDE DEF Up
    <2>2. QED
      BY <1>1, <2>1
  <1>13. N \in H
    <2> HIDE DEF H
    <2>1. QED
      BY <1>1, <1>11, <1>12, Upwards
  <1>14. QED
    <2>1. \A s \in Up(N) : iter[s] \in Int
      <3> HIDE DEF Up
      <3>1. QED
        BY <1>13
    <2>2. Adds(f, iter)
      BY <1>9 DEF Adds, One
    <2>3. QED
      BY <1>6, <1>7, <2>1, <2>2

LEMMA IntegerSum ==
  ASSUME NEW f, IsFiniteSet(DOMAIN f), \A i \in DOMAIN f : f[i] \in Int
  PROVE  SumFunction(f) \in Int
  BY SumIterates

LEMMA SixLeast ==
  ASSUME NEW a \in [1 .. 6 -> Int]
  PROVE  \E m \in 1 .. 6 : \A k \in 1 .. 6 : a[m] <= a[k]
  <1> DEFINE IsLeast(n, m) == m \in 1 .. n /\ \A k \in 1 .. n : a[m] <= a[k]
  <1>1. \E m : IsLeast(1, m)
    <2>1. IsLeast(1, 1)
      OBVIOUS
    <2>2. QED
      BY <2>1
  <1>2. ASSUME NEW n \in 1 .. 5, \E m : IsLeast(n, m)
        PROVE  \E m : IsLeast(n + 1, m)
    <2>1. PICK m : IsLeast(n, m)
      BY <1>2
    <2>2. \A k \in 1 .. n + 1 : k \in 1 .. n \/ k = n + 1
      OBVIOUS
    <2>3. IsLeast(n + 1, m) \/ IsLeast(n + 1, n + 1)
      BY <2>1, <2>2
    <2>4. QED
      BY <2>3
  <1>3. \E m : IsLeast(6, m)
    <2> HIDE DEF IsLeast
    <2>1. \E m : IsLeast(2, m)
      BY <1>1, <1>2
    <2>2. \E m : IsLeast(3, m)
      BY <1>2, <2>1
    <2>3. \E m : IsLeast(4, m)
      BY <1>2, <2>2
    <2>4. \E m : IsLeast(5, m)
      BY <1>2, <2>3
    <2>5. QED
      BY <1>2, <2>4
  <1>4. QED
    BY <1>3

LEMMA LeastOfSix ==
  ASSUME NEW a \in [1 .. 6 -> Int]
  PROVE  Min({a[k] : k \in 1 .. 6}) \in Int
  <1> DEFINE S == {a[k] : k \in 1 .. 6}
  <1>1. \E x \in S : \A y \in S : x <= y
    BY SixLeast
  <1>2. Min(S) \in S
    <2> HIDE DEF S
    <2>1. QED
      BY <1>1 DEF Min
  <1>3. QED
    BY <1>2

LEMMA ExpertJobsTyped ==
  ASSUME \A k \in 1 .. 6 : /\ Part(k).shard \in DOMAIN dir.shard
                           /\ Part(k).off \in Int /\ Part(k).nbytes \in Int,
         NEW js, js = ExpertJobs
  PROVE  IsSeq(js) /\ \A k \in 1 .. Len(js) : JobOk(js[k])
  <1>1. Own \in Int
    <2> DEFINE f == [k \in 1 .. 6 |-> Part(k).nbytes]
    <2>1. IsFiniteSet(DOMAIN f)
      <3>1. PICK l, m \in Int : l = 1 /\ m = 6
        OBVIOUS
      <3>2. IsFiniteSet(l .. m)
        BY FS_Interval
      <3>3. QED
        BY <3>1, <3>2
    <2>2. \A i \in DOMAIN f : f[i] \in Int
      OBVIOUS
    <2> HIDE DEF f
    <2>3. SumFunction(f) \in Int
      BY <2>1, <2>2, IntegerSum
    <2>4. QED
      BY <2>3 DEF Own, f
  <1>2. Lowest \in Int
    <2>1. PICK a : a = [k \in 1 .. 6 |-> Part(k).off]
      OBVIOUS
    <2>2. a \in [1 .. 6 -> Int]
      BY <2>1
    <2>3. Min({a[k] : k \in 1 .. 6}) \in Int
      BY <2>2, LeastOfSix
    <2>4. {a[k] : k \in 1 .. 6} = {Part(k).off : k \in 1 .. 6}
      BY <2>1
    <2>5. QED
      BY <2>3, <2>4 DEF Lowest
  <1>3. CASE Contiguous
    <2>1. PICK via : via = IF op.direct THEN "aligned" ELSE "st"
      OBVIOUS
    <2>2. PICK cap : cap = Own + (IF op.direct THEN 2 * Align ELSE 0)
      OBVIOUS
    <2>3. via \in {"st", "aligned"} /\ cap \in Int
      BY <1>1, <2>1, <2>2, ArchiveAssumption
    <2>4. js = <<Job(Part(1).shard, Lowest, Own, via, cap, 0)>>
      BY <1>3, <2>1, <2>2 DEF ExpertJobs
    <2>5. JobOk(Job(Part(1).shard, Lowest, Own, via, cap, 0))
      BY <1>1, <1>2, <2>3, JobTyped
    <2>6. QED
      BY <2>4, <2>5, OneJob
  <1>4. CASE ~Contiguous
    <2>1. js = [k \in 1 .. 6 |-> Job(Part(k).shard, Part(k).off, Part(k).nbytes, "st",
                                     Part(k).nbytes, PartAt(k))]
      BY <1>4 DEF ExpertJobs
    <2>2. \A k \in 1 .. 6 : JobOk(Job(Part(k).shard, Part(k).off, Part(k).nbytes, "st",
                                      Part(k).nbytes, PartAt(k)))
      BY JobTyped
    <2>3. PICK n \in Int : n = 6
      OBVIOUS
    <2>4. js = [k \in 1 .. n |-> js[k]] /\ \A k \in 1 .. n : JobOk(js[k])
      BY <2>1, <2>2, <2>3
    <2>5. QED
      BY <2>4, ManyJobs
  <1>5. QED
    BY <1>3, <1>4

(* The rows of a streamed matrix.                                          *)
LEMMA RowJobTyped ==
  ASSUME NEW t, t.shard \in DOMAIN dir.shard, t.off \in Int, Esz(t.dtype) \in {1, 2, 4},
         NEW first \in Int, NEW n \in Int
  PROVE  JobOk(RowJob(t, first, n))
  <1>1. PICK row : row = Cfg.hidden * Esz(t.dtype)
    OBVIOUS
  <1>2. row \in Nat
    BY <1>1, CountsAssumption DEF Fields
  <1>3. RowJob(t, first, n) =
          Job(t.shard, t.off + first * row, n * row, "aligned", StreamChunk + 2 * Align, 0)
    BY <1>1 DEF RowJob
  <1>4. t.off + first * row \in Int /\ n * row \in Int /\ StreamChunk + 2 * Align \in Int
    BY <1>2, CallsAssumption, ArchiveAssumption
  <1>5. QED
    BY <1>3, <1>4, JobTyped

LEMMA ProjectJobsTyped ==
  ASSUME NEW t, t.shard \in DOMAIN dir.shard, t.off \in Int, Esz(t.dtype) \in {1, 2, 4},
         RowsPerChunk(t) >= 1, NEW js, js = ProjectJobs(t)
  PROVE  IsSeq(js) /\ \A k \in 1 .. Len(js) : JobOk(js[k])
  <1>1. PICK row : row = Cfg.hidden * Esz(t.dtype)
    OBVIOUS
  <1>2. Cfg.hidden \in Nat \ {0} /\ Cfg.vocab \in Nat /\ StreamChunk \in Nat
    BY CountsAssumption, CfgAssumption, CallsAssumption DEF Fields, CfgLoads
  <1>3. row \in Nat \ {0}
    BY <1>1, <1>2
  <1>4. PICK per : per = RowsPerChunk(t)
    OBVIOUS
  <1>5. per \in Nat \ {0}
    <2>1. per = StreamChunk \div row
      BY <1>1, <1>4 DEF RowsPerChunk
    <2>2. StreamChunk \div row \in Int
      BY <1>2, <1>3
    <2>3. QED
      BY <1>4, <2>1, <2>2
  <1>6. PICK n : n = (Cfg.vocab + per - 1) \div per
    OBVIOUS
  <1>7. n \in Int
    BY <1>2, <1>5, <1>6
  <1> DEFINE Rest(c) == Min({per, Cfg.vocab - (c - 1) * per})
  <1>8. js = [c \in 1 .. n |-> RowJob(t, (c - 1) * per, Rest(c))]
    BY <1>4, <1>6 DEF ProjectJobs
  <1>9. ASSUME NEW c \in 1 .. n
        PROVE  JobOk(RowJob(t, (c - 1) * per, Rest(c)))
    <2>1. c \in Int /\ per \in Int /\ (c - 1) * per \in Int
      BY <1>5, <1>7
    <2>2. PICK rest \in Int : rest = Cfg.vocab - (c - 1) * per
      BY <1>2, <2>1
    <2>3. Min({per, rest}) \in {per, rest}
      BY <2>1, LesserOfTwo
    <2>4. Rest(c) \in Int
      BY <2>1, <2>2, <2>3
    <2> HIDE DEF Rest
    <2>5. QED
      BY <2>1, <2>4, RowJobTyped
  <1> HIDE DEF Rest
  <1>10. js = [c \in 1 .. n |-> js[c]] /\ \A c \in 1 .. n : JobOk(js[c])
    BY <1>8, <1>9
  <1>11. QED
    BY <1>7, <1>10, ManyJobs

LEMMA LoadTakes ==
  ASSUME StoreHolds, ListHolds, TableHolds, JobsHold, PlanHolds, LoadNext
  PROVE  JobsHold'
  <1>1. /\ pc = "load" /\ pc' = "load" /\ jobs = <<>> /\ next <= Len(reqs)
        /\ jobs' = LoadJobs(placed[next], Find(Req.name)) /\ rd' = rd /\ dir' = dir
    BY DEF LoadNext, storeVars, input
  <1>2. rd' = Idle
    BY <1>1 DEF JobsHold
  <1>3. next \in 1 .. Len(reqs)
    BY <1>1 DEF PlanHolds, IsSeq
  <1>4. Hash[Req.name] \in Nat /\ Find(Req.name) # Missing
    BY <1>1, <1>3 DEF PlanHolds, Req
  <1>5. PICK t : t = Find(Req.name)
    OBVIOUS
  <1>6. /\ t.shard \in DOMAIN dir.shard /\ t.off \in Int /\ t.nbytes \in Int
        /\ Esz(t.dtype) \in {1, 2, 4}
    BY <1>1, <1>4, <1>5, Found DEF AtWork
  <1>7. PICK p : p = placed[next]
    OBVIOUS
  <1>8. IsSeq(jobs') /\ \A k \in 1 .. Len(jobs') : JobOk(jobs'[k])
    BY <1>1, <1>5, <1>6, <1>7, LoadJobsTyped
  <1>9. QED
    BY <1>1, <1>2, <1>8, TakesJobs

LEMMA PrepareTakes ==
  ASSUME StoreHolds, ListHolds, TableHolds, JobsHold, Prepare
  PROVE  JobsHold'
  <1>1. pc = "prepare" /\ Prepared /\ rd' = rd /\ dir' = dir
    BY DEF Prepare, storeVars, input
  <1>2. rd' = Idle
    BY <1>1 DEF JobsHold
  <1>3. AtWork
    BY <1>1 DEF AtWork
  <1>4. PICK c \in Calls : dir = c.dir /\ op = c.op /\ OpType(c)
    BY InputTyped DEF StoreHolds
  <1>5. SUFFICES /\ pc' \in {"stream", "expert", "range"}
                 /\ IsSeq(jobs') /\ \A k \in 1 .. Len(jobs') : JobOk(jobs'[k])
    BY <1>1, <1>2, TakesJobs
  <1>6. \A n \in {"w1p", "w1s", "w2p", "w2s", "w3p", "w3s", "embed_tokens", "lm_head"} :
          Hash[n] \in Nat
    BY CallsAssumption DEF Six, ToSet
  <1>7. CASE op.kind = "range"
    <2>1. jobs' = <<Job(op.shard, op.off, op.n, "aligned", op.cap, 0)>> /\ pc' = "range"
      BY <1>7 DEF Prepare
    <2>2. op.shard \in DOMAIN dir.shard /\ op.off \in Nat /\ op.n \in Nat /\ op.cap \in Nat
      BY <1>4, <1>7 DEF OpType
    <2>3. JobOk(Job(op.shard, op.off, op.n, "aligned", op.cap, 0))
      BY <2>2, JobTyped
    <2>4. QED
      BY <2>1, <2>3, OneJob
  <1>8. CASE op.kind = "expert"
    <2>1. jobs' = ExpertJobs /\ pc' = "expert" /\ ExpertFits
      BY <1>1, <1>8 DEF Prepare, Prepared
    <2>2. ASSUME NEW k \in 1 .. 6
          PROVE  /\ Part(k).shard \in DOMAIN dir.shard
                 /\ Part(k).off \in Int /\ Part(k).nbytes \in Int
      <3>1. Hash[Six[k]] \in Nat
        BY <1>6 DEF Six
      <3>2. Part(k) = Find(Six[k]) /\ Part(k) # Missing
        BY <2>1 DEF ExpertFits, Part
      <3>3. QED
        BY <1>3, <3>1, <3>2, Found
    <2>3. IsSeq(jobs') /\ \A k \in 1 .. Len(jobs') : JobOk(jobs'[k])
      BY <2>1, <2>2, ExpertJobsTyped
    <2>4. QED
      BY <2>1, <2>3
  <1>9. CASE op.kind \notin {"range", "expert"}
    <2>1. PICK t : t = Find(StreamName)
      OBVIOUS
    <2>2. /\ t # Missing /\ RowsPerChunk(t) >= 1 /\ Hash[StreamName] \in Nat
      BY <1>1, <1>6, <1>9, <2>1 DEF Prepared, Streamable, StreamName
    <2>3. t.shard \in DOMAIN dir.shard /\ t.off \in Int /\ Esz(t.dtype) \in {1, 2, 4}
      BY <1>3, <2>1, <2>2, Found
    <2>4. CASE op.kind = "embed_row"
      <3>1. jobs' = <<RowJob(t, op.row, 1)>> /\ pc' = "stream"
        BY <2>1, <2>4 DEF Prepare
      <3>2. op.row \in Nat
        BY <1>4, <2>4 DEF OpType
      <3>3. JobOk(RowJob(t, op.row, 1))
        BY <2>3, <3>2, RowJobTyped
      <3>4. QED
        BY <3>1, <3>3, OneJob
    <2>5. CASE op.kind # "embed_row"
      <3>1. jobs' = ProjectJobs(t) /\ pc' = "stream"
        BY <1>9, <2>1, <2>5 DEF Prepare
      <3>2. IsSeq(jobs') /\ \A k \in 1 .. Len(jobs') : JobOk(jobs'[k])
        BY <2>2, <2>3, <3>1, ProjectJobsTyped
      <3>3. QED
        BY <3>1, <3>2
    <2>6. QED
      BY <2>4, <2>5
  <1>10. QED
    BY <1>7, <1>8, <1>9

LEMMA JobsStep ==
  ASSUME StoreHolds, ListHolds, TableHolds, JobsHold, PlanHolds, CountersHold, OtherSteps
  PROVE  JobsHold'
  <1>1. dir' = dir
    BY OthersKeep
  <1>2. pc \notin {"load", "stream", "expert", "range"} => jobs = <<>> /\ rd = Idle
    BY DEF JobsHold
  <1>3. Done => jobs # <<>>
    BY DEF Done, JobsHold, Idle
  <1>4. CASE Begin \/ Resolve \/ Relayout \/ Unresolved \/ Allocate \/ OutOfMemory \/ BindDone
    <2>1. jobs' = jobs /\ rd' = rd /\ jobs = <<>>
      BY <1>2, <1>4 DEF Begin, Opened, Resolve, Relayout, Unresolved, Allocate, OutOfMemory, BindDone
    <2>2. QED
      BY <1>1, <2>1, KeepsJobs
  <1>5. CASE Manifest \/ MemRefused \/ MemPoint \/ MemWiden \/ MemDone \/ Acquire \/ AcquireDone
            \/ PrepareRefused
    <2>1. jobs' = jobs /\ rd' = rd /\ jobs = <<>>
      BY <1>2, <1>5 DEF Manifest, MemRefused, MemPoint, MemWiden, MemDone, Acquire, AcquireDone,
                        PrepareRefused
    <2>2. QED
      BY <1>1, <2>1, KeepsJobs
  <1>6. CASE Loaded \/ StreamedRows \/ ExpertPart
    <2>1. jobs # <<>> /\ jobs' = Tail(jobs) /\ rd' = Idle /\ (Len(jobs) = 1 \/ pc' = pc)
      BY <1>3, <1>6 DEF Loaded, StreamedRows, ExpertPart
    <2>2. QED
      BY <1>1, <2>1, TailsJobs
  <1>7. CASE LoadFailed \/ StreamFailed \/ RangeRead
    BY <1>7, DropsJobs DEF LoadFailed, StreamFailed, RangeRead
  <1>8. QED
    BY <1>4, <1>5, <1>6, <1>7, LoadTakes, PrepareTakes, JobStarts, JobReads DEF OtherSteps

-----------------------------------------------------------------------------
(***************************************************************************)
(* The plan of a bind.                                                     *)
(***************************************************************************)

LEMMA Products == \A a, b \in Nat : a * b \in Nat /\ a + b \in Nat
  OBVIOUS

LEMMA WideTyped ==
  ASSUME NEW d, NEW n \in Nat
  PROVE  RequestOk(Wide(d, n)) /\ RequestOk(Narrow(d, n))
  BY DEF Wide, Narrow, Request, RequestOk

(* Every count of the configuration, and every product of them.            *)
LEMMA CountsTyped ==
  /\ Hidden \in Nat /\ Width \in Nat /\ Cfg.vocab \in Nat /\ Cfg.n_heads \in Nat
  /\ Cfg.q_lora \in Nat /\ Cfg.kv_lora \in Nat /\ Cfg.qk_nope \in Nat /\ Cfg.qk_rope \in Nat
  /\ Cfg.v_head \in Nat /\ Cfg.kda_heads \in Nat /\ Cfg.kda_head_dim \in Nat /\ Cfg.conv_k \in Nat
  /\ Cfg.dense_inter \in Nat /\ Cfg.moe_inter \in Nat /\ Cfg.n_shared \in Nat
  /\ Cfg.n_experts \in Nat /\ Cfg.latent \in Nat
  <1>1. \A f \in Fields \ {"mla_out_gate", "full_attn"} : Cfg[f] \in Nat
    BY CountsAssumption
  <1>2. Cfg.kda_heads \in Nat /\ Cfg.kda_head_dim \in Nat
    BY <1>1 DEF Fields
  <1>3. Width \in Nat
    BY <1>2, Products DEF Width
  <1>4. QED
    BY <1>1, <1>3 DEF Fields, Hidden

LEMMA PlansJoin ==
  ASSUME NEW s, NEW z, IsPlan(s), IsPlan(z)
  PROVE  IsPlan(s \o z)
  <1>1. PICK m, n \in Nat : /\ m = Len(s) /\ s = [k \in 1 .. m |-> s[k]]
                            /\ n = Len(z) /\ z = [k \in 1 .. n |-> z[k]]
    BY DEF IsPlan, IsSeq
  <1> DEFINE S == {s[k] : k \in 1 .. m} \cup {z[k] : k \in 1 .. n}
  <1>2. \A r \in S : RequestOk(r)
    BY <1>1 DEF IsPlan
  <1>3. s \in [1 .. m -> S] /\ z \in [1 .. n -> S]
    BY <1>1
  <1> HIDE DEF S
  <1>4. s \in Seq(S) /\ z \in Seq(S)
    BY <1>3, LenOf
  <1>5. PICK l : l = s \o z
    OBVIOUS
  <1>6. l \in Seq(S)
    BY <1>4, <1>5
  <1>7. IsSeq(l) /\ \A k \in 1 .. Len(l) : l[k] \in S
    BY <1>6 DEF IsSeq
  <1>8. QED
    BY <1>2, <1>5, <1>7 DEF IsPlan

LEMMA PlanParts ==
  /\ IsPlan(NormPlan) /\ IsPlan(MlaPlan)
  /\ IsPlan(KdaPlan) /\ IsPlan(DensePlan)
  /\ IsPlan(MoePlan)
  <1>1. IsPlan(NormPlan)
    <2>1. \A d : RequestOk(Wide(d, Hidden))
      BY WideTyped, CountsTyped
    <2>2. \A k \in 1 .. 6 : RequestOk(NormPlan[k])
      BY <2>1 DEF NormPlan
    <2>3. PICK m \in Nat : m = 6
      OBVIOUS
    <2>4. NormPlan = [k \in 1 .. m |-> NormPlan[k]]
      BY <2>3 DEF NormPlan
    <2>5. NormPlan \in [1 .. m -> {NormPlan[k] : k \in 1 .. m}]
      BY <2>4
    <2>6. Len(NormPlan) = m
      BY <2>5, LenOf
    <2>7. QED
      BY <2>2, <2>3, <2>4, <2>6 DEF IsPlan, IsSeq
  <1>2. IsPlan(MlaPlan)
    <2>1. /\ RequestOk(Narrow("q_a_proj", Cfg.q_lora * Hidden))
          /\ RequestOk(Wide("q_a_layernorm", Cfg.q_lora))
          /\ RequestOk(Narrow("q_b_proj", Cfg.n_heads * (Cfg.qk_nope + Cfg.qk_rope) * Cfg.q_lora))
          /\ RequestOk(Narrow("kv_a_proj", (Cfg.kv_lora + Cfg.qk_rope) * Hidden))
          /\ RequestOk(Wide("kv_a_layernorm", Cfg.kv_lora))
          /\ RequestOk(Narrow("kv_b_proj", Cfg.n_heads * (Cfg.qk_nope + Cfg.v_head) * Cfg.kv_lora))
          /\ RequestOk(Narrow("o_proj", Hidden * Cfg.n_heads * Cfg.v_head))
          /\ RequestOk(Narrow("g_proj", Cfg.n_heads * Cfg.v_head * Hidden))
      BY WideTyped, CountsTyped, Products
    <2>2. IsPlan(Gated)
      BY <2>1 DEF Gated, IsPlan, IsSeq
    <2>3. IsPlan(<<Narrow("q_a_proj", Cfg.q_lora * Hidden), Wide("q_a_layernorm", Cfg.q_lora),
                   Narrow("q_b_proj", Cfg.n_heads * (Cfg.qk_nope + Cfg.qk_rope) * Cfg.q_lora),
                   Narrow("kv_a_proj", (Cfg.kv_lora + Cfg.qk_rope) * Hidden),
                   Wide("kv_a_layernorm", Cfg.kv_lora),
                   Narrow("kv_b_proj", Cfg.n_heads * (Cfg.qk_nope + Cfg.v_head) * Cfg.kv_lora),
                   Narrow("o_proj", Hidden * Cfg.n_heads * Cfg.v_head)>>)
      BY <2>1 DEF IsPlan, IsSeq
    <2>4. QED
      BY <2>2, <2>3, PlansJoin DEF MlaPlan
  <1>3. IsPlan(KdaPlan)
    <2>1. /\ RequestOk(Narrow("q_proj", Width * Hidden))
          /\ RequestOk(Narrow("k_proj", Width * Hidden))
          /\ RequestOk(Narrow("v_proj", Width * Hidden))
          /\ RequestOk(Narrow("g_proj", Width * Hidden))
          /\ RequestOk(Narrow("o_proj", Hidden * Width))
          /\ RequestOk(Wide("q_conv1d", Width * Cfg.conv_k))
          /\ RequestOk(Wide("k_conv1d", Width * Cfg.conv_k))
          /\ RequestOk(Wide("v_conv1d", Width * Cfg.conv_k))
          /\ RequestOk(Narrow("f_a_proj", Cfg.kda_head_dim * Hidden))
          /\ RequestOk(Narrow("f_b_proj", Width * Cfg.kda_head_dim))
          /\ RequestOk(Narrow("b_proj", Cfg.kda_heads * Hidden))
          /\ RequestOk(Wide("dt_bias", Width))
          /\ RequestOk(Wide("o_norm", Cfg.kda_head_dim))
      BY WideTyped, CountsTyped, Products
    <2>2. RequestOk(Prefix("A_log", Cfg.kda_head_dim, Cfg.kda_heads))
      BY CountsTyped DEF Prefix, Request, RequestOk
    <2>3. QED
      BY <2>1, <2>2 DEF KdaPlan, IsPlan, IsSeq
  <1>4. IsPlan(DensePlan)
    <2>1. /\ RequestOk(Narrow("gate_proj", Cfg.dense_inter * Hidden))
          /\ RequestOk(Narrow("up_proj", Cfg.dense_inter * Hidden))
          /\ RequestOk(Narrow("down_proj", Hidden * Cfg.dense_inter))
      BY WideTyped, CountsTyped, Products
    <2>2. QED
      BY <2>1 DEF DensePlan, IsPlan, IsSeq
  <1>5. IsPlan(MoePlan)
    <2>1. PICK si \in Nat : si = Cfg.moe_inter * Cfg.n_shared
      BY CountsTyped, Products
    <2>2. /\ RequestOk(Wide("gate", Cfg.n_experts * Hidden))
          /\ RequestOk(Wide("e_score_correction_bias", Cfg.n_experts))
          /\ RequestOk(Narrow("routed_down_proj", Cfg.latent * Hidden))
          /\ RequestOk(Narrow("routed_up_proj", Hidden * Cfg.latent))
          /\ RequestOk(Wide("routed_expert_norm", Cfg.latent))
          /\ RequestOk(Narrow("shared_gate_proj", si * Hidden))
          /\ RequestOk(Narrow("shared_up_proj", si * Hidden))
          /\ RequestOk(Narrow("shared_down_proj", Hidden * si))
      BY WideTyped, CountsTyped, Products
    <2>3. QED
      BY <2>1, <2>2 DEF MoePlan, IsPlan, IsSeq
  <1>6. QED
    BY <1>1, <1>2, <1>3, <1>4, <1>5

LEMMA RequestsTyped ==
  ASSUME NEW o
  PROVE  IsPlan(RequestsOf(o))
  <1>1. \A L : IsPlan(LayerPlan(L))
    BY PlanParts, PlansJoin DEF LayerPlan
  <1>2. ASSUME NEW e, NEW h
        PROVE  IsPlan(ModelPlan(e, h))
    <2>1. /\ RequestOk(Wide("norm", Hidden)) /\ RequestOk(Wide("output_attn_res_norm", Hidden))
          /\ RequestOk(Wide("output_attn_res_proj", Hidden))
          /\ RequestOk(Narrow("embed_tokens", Cfg.vocab * Hidden))
          /\ RequestOk(Narrow("lm_head", Cfg.vocab * Hidden))
      BY WideTyped, CountsTyped, Products
    <2>2. /\ IsPlan(<<>>) /\ IsPlan(<<Narrow("embed_tokens", Cfg.vocab * Hidden)>>)
          /\ IsPlan(<<Narrow("lm_head", Cfg.vocab * Hidden)>>)
          /\ IsPlan(<<Wide("norm", Hidden), Wide("output_attn_res_norm", Hidden),
                      Wide("output_attn_res_proj", Hidden)>>)
      BY <2>1 DEF IsPlan, IsSeq
    <2>3. QED
      BY <2>2, PlansJoin DEF ModelPlan
  <1>3. IsPlan(<<>>)
    BY DEF IsPlan, IsSeq
  <1>4. QED
    BY <1>1, <1>2, <1>3 DEF RequestsOf

LEMMA PlanStep ==
  ASSUME StoreHolds, ListHolds, TableHolds, JobsHold, PlanHolds, CountersHold, OtherSteps
  PROVE  PlanHolds'
  <1>1. dir' = dir /\ op' = op /\ \A name : Find(name)' = Find(name)
    BY OthersKeep, StoreKeeps
  <1>2. /\ IsPlan(reqs) /\ Len(reqs) \in Nat /\ \A k \in 1 .. Len(reqs) : Hash[reqs[k].name] \in Nat
        /\ bad \in Nat /\ size \in Nat
    BY DEF PlanHolds, IsPlan, IsSeq
  <1>3. /\ pc \notin {"load", "stream", "expert", "range"} => jobs = <<>>
        /\ Done => jobs # <<>>
        /\ pc \notin {"load", "done"} => blob = NoBlob
    BY DEF JobsHold, Done, Idle, PlanHolds
  (* The plan is made.                                                     *)
  <1>4. ASSUME reqs' = Requests, bad' = 0, size' = 0, next' = 1, blob' = NoBlob, pc' # "load"
        PROVE  PlanHolds'
    <2>1. PICK rs : rs = Requests
      OBVIOUS
    <2>2. IsPlan(rs)
      BY <2>1, RequestsTyped DEF Requests
    <2>3. \A r \in ToSet(rs) : Hash[r.name] \in Nat
      BY <2>1, InputTyped DEF StoreHolds
    <2>4. \A k \in 1 .. Len(rs) : rs[k] \in ToSet(rs)
      BY <2>2 DEF IsPlan, IsSeq, ToSet
    <2>5. \A k \in 1 .. Len(rs) : Hash[rs[k].name] \in Nat
      BY <2>3, <2>4
    <2>6. Len(rs) \in Nat
      BY <2>2 DEF IsPlan, IsSeq
    <2>7. QED
      BY <1>4, <2>1, <2>2, <2>5, <2>6 DEF PlanHolds
  (* It is kept.                                                           *)
  <1>5. ASSUME UNCHANGED planVars,
               pc' \in {"resolve", "load", "manifest", "mem", "acquire"} => next' \in 1 .. Len(reqs) + 1,
               pc' = "load" /\ jobs' # <<>> => next' <= Len(reqs),
               pc' = "load" => pc = "load", pc' # "resolve",
               blob' = NoBlob \/ (blob' = blob /\ (pc' = pc \/ (pc = "load" /\ pc' = "done")))
        PROVE  PlanHolds'
    <2>1. reqs' = reqs /\ bad' = bad /\ size' = size
      BY <1>5 DEF planVars
    <2>2. pc' = "load" => \A k \in 1 .. Len(reqs) : Find(reqs[k].name)' # Missing
      BY <1>1, <1>5, <2>1 DEF PlanHolds
    <2>3. blob' = NoBlob \/ (blob' = size /\ pc' \in {"load", "done"})
      BY <1>5 DEF PlanHolds
    <2>4. QED
      BY <1>2, <1>5, <2>1, <2>2, <2>3 DEF PlanHolds
  <1>6. CASE Begin \/ Relayout
    <2>1. /\ reqs' = Requests /\ bad' = 0 /\ size' = 0 /\ next' = 1 /\ blob' = blob /\ pc' # "load"
          /\ pc \in {"index", "resolve"}
      BY <1>6 DEF Begin, Opened, Relayout, ClearPlan, outVars
    <2>2. QED
      BY <1>3, <1>4, <2>1
  <1>7. CASE Resolve
    <2>1. /\ reqs' = reqs /\ next' = next + 1 /\ pc' = pc /\ pc = "resolve" /\ blob' = blob
          /\ next <= Len(reqs)
      BY <1>7 DEF Resolve, outVars
    <2>2. next \in 1 .. Len(reqs) /\ next' \in 1 .. Len(reqs) + 1
      BY <1>2, <2>1 DEF PlanHolds
    <2>3. Req.take \in Nat
      BY <2>2 DEF PlanHolds, IsPlan, RequestOk, Req
    <2>4. CASE Wrong(Req, Find(Req.name))
      <3>1. bad' = bad + 1 /\ size' = size
        BY <1>7, <2>4 DEF Resolve
      <3>2. QED
        BY <1>2, <1>3, <2>1, <2>2, <3>1 DEF PlanHolds
    <2>5. CASE ~Wrong(Req, Find(Req.name))
      <3>1. PICK e \in {2, 4} : size' = Align8(size) + Req.take * e
        BY <1>7, <2>5 DEF Resolve
      <3>2. bad' = bad /\ Find(Req.name) # Missing
        BY <1>7, <2>5 DEF Resolve, Wrong
      <3>3. size' \in Nat
        <4>1. Align8(size) \in Nat
          BY <1>2 DEF Align8
        <4>2. Req.take * e \in Nat
          BY <2>3
        <4>3. QED
          BY <3>1, <4>1, <4>2
      <3>4. \A k \in 1 .. next' - 1 : k \in 1 .. next - 1 \/ k = next
        BY <2>1, <2>2
      <3>5. bad' = 0 => \A k \in 1 .. next' - 1 : Find(reqs[k].name) # Missing
        BY <2>1, <3>2, <3>4 DEF PlanHolds, Req
      <3>6. bad' = 0 => \A k \in 1 .. next' - 1 : Find(reqs[k].name)' # Missing
        BY <1>1, <2>1, <3>5
      <3>7. QED
        BY <1>2, <1>3, <2>1, <2>2, <3>2, <3>3, <3>6 DEF PlanHolds
    <2>6. QED
      BY <2>4, <2>5
  <1>8. CASE Allocate
    <2>1. /\ reqs' = reqs /\ bad' = bad /\ size' = size /\ blob' = size /\ pc' = "load" /\ next' = 1
          /\ pc = "resolve" /\ next > Len(reqs) /\ bad = 0 /\ jobs' = jobs
      BY <1>8 DEF Allocate, planVars
    <2>2. \A k \in 1 .. Len(reqs) : k \in 1 .. next - 1
      BY <1>2, <2>1 DEF PlanHolds
    <2>3. \A k \in 1 .. Len(reqs) : Find(reqs[k].name)' # Missing
      BY <1>1, <2>1, <2>2 DEF PlanHolds
    <2>4. QED
      BY <1>2, <1>3, <2>1, <2>3 DEF PlanHolds
  <1>9. CASE Unresolved \/ OutOfMemory \/ LoadFailed \/ MemRefused \/ PrepareRefused \/ StreamFailed
    <2>1. UNCHANGED planVars /\ pc' = "done" /\ blob' = NoBlob
      BY <1>9 DEF Unresolved, OutOfMemory, LoadFailed, MemRefused, PrepareRefused, StreamFailed,
                  Fail, Return
    <2>2. QED
      BY <1>5, <2>1
  <1>10. CASE LoadNext \/ Loaded
    <2>1. /\ UNCHANGED planVars /\ blob' = blob /\ pc' = pc /\ pc = "load"
          /\ next \in 1 .. Len(reqs)
      BY <1>2, <1>3, <1>10 DEF LoadNext, Loaded, PlanHolds
    <2>2. next' \in 1 .. Len(reqs) + 1 /\ (jobs' # <<>> => next' <= Len(reqs))
      <3>1. CASE LoadNext
        BY <1>2, <2>1, <3>1 DEF LoadNext
      <3>2. CASE Loaded
        <4>1. jobs' = Tail(jobs) /\ next' = IF Len(jobs) = 1 THEN next + 1 ELSE next
          BY <3>2 DEF Loaded
        <4>2. Len(jobs) = 1 => jobs' = <<>>
          BY <1>3, <3>2, <4>1, SeqEnds DEF JobsHold, Loaded
        <4>3. QED
          BY <1>2, <2>1, <4>1, <4>2
      <3>3. QED
        BY <1>10, <3>1, <3>2
    <2>3. QED
      BY <1>5, <2>1, <2>2
  <1>11. CASE StartJob \/ JobRound
    <2>1. /\ UNCHANGED planVars /\ blob' = blob /\ pc' = pc /\ next' = next /\ jobs' = jobs
          /\ pc \in {"load", "stream", "expert", "range"}
      BY <1>11 DEF StartJob, JobRound, Round, FullRound, ShortRound, FailedRound, AtEnd, Reading,
                   outVars, JobsHold, Idle
    <2>2. /\ pc = "load" => next \in 1 .. Len(reqs) + 1
          /\ pc = "load" /\ jobs # <<>> => next <= Len(reqs)
      BY DEF PlanHolds
    <2>3. QED
      BY <1>5, <2>1, <2>2
  <1>12. CASE BindDone \/ MemDone \/ AcquireDone
    <2>1. UNCHANGED planVars /\ pc' = "done" /\ (pc = "load" \/ pc \in {"mem", "acquire"})
          /\ (blob' = blob \/ blob' = NoBlob)
      BY <1>12 DEF BindDone, MemDone, AcquireDone, Fail, Return
    <2>2. QED
      BY <1>3, <1>5, <2>1
  <1>13. CASE Manifest
    <2>1. /\ UNCHANGED planVars /\ pc = "manifest" /\ next' = next
          /\ pc' \in {"mem", "acquire", "done"} /\ (blob' = blob \/ blob' = NoBlob)
      BY <1>13 DEF Manifest, Fail, Return, outVars
    <2>2. next \in 1 .. Len(reqs) + 1
      BY <2>1 DEF PlanHolds
    <2>3. QED
      BY <1>3, <1>5, <2>1, <2>2
  <1>14. CASE MemPoint \/ MemWiden \/ Acquire
    <2>1. /\ UNCHANGED planVars /\ pc \in {"mem", "acquire"} /\ next <= Len(reqs)
          /\ (pc' = pc /\ next' = next + 1) \/ pc' = "done"
          /\ (blob' = blob \/ blob' = NoBlob)
      BY <1>14 DEF MemPoint, MemWiden, Acquire, Fail, Return
    <2>2. next \in 1 .. Len(reqs) + 1
      BY <2>1 DEF PlanHolds
    <2>3. QED
      BY <1>2, <1>3, <1>5, <2>1, <2>2
  <1>15. CASE Prepare \/ StreamedRows \/ ExpertPart \/ RangeRead
    <2>1. /\ UNCHANGED planVars /\ pc \in {"prepare", "stream", "expert", "range"} /\ blob' = blob
          /\ pc' \in {"stream", "expert", "range", "done"}
      BY <1>15 DEF Prepare, StreamedRows, ExpertPart, RangeRead, Return, outVars
    <2>2. QED
      BY <1>3, <1>5, <2>1
  <1>16. QED
    BY <1>6, <1>7, <1>8, <1>9, <1>10, <1>11, <1>12, <1>13, <1>14, <1>15 DEF OtherSteps

LEMMA CountersStep ==
  ASSUME JobsHold, PlanHolds, CountersHold, OtherSteps
  PROVE  CountersHold'
  <1>1. op' = op
    BY OthersKeep
  <1>2. /\ rc \in {Pending, 0, -1} /\ (rc # Pending <=> pc = "done") /\ faults \in 0 .. MaxFaults
        /\ w \in Nat /\ (op.kind = "mem" => w <= WidenBytes) /\ (pc = "acquire" => op.kind # "mem")
    BY DEF CountersHold
  <1>3. ASSUME rc' = rc, pc' # "done", pc # "done",
               pc' \in {"resolve", "manifest", "mem", "acquire", "prepare", "load", "stream",
                        "expert", "range"},
               faults' = faults, w' = w, pc' = "acquire" => op.kind # "mem"
        PROVE  CountersHold'
    BY <1>1, <1>2, <1>3 DEF CountersHold
  <1>4. ASSUME rc' \in {0, -1}, pc' = "done", w' = w,
               faults' = faults \/ (faults' = faults + 1 /\ faults < MaxFaults)
        PROVE  CountersHold'
    <2>1. faults' \in 0 .. MaxFaults
      BY <1>2, <1>4, CallsAssumption
    <2>2. QED
      BY <1>1, <1>2, <1>4, <2>1 DEF CountersHold, Pending
  <1>5. CASE Begin
    <2>1. /\ rc' = rc /\ pc = "index" /\ pc' \in {"resolve", "manifest", "prepare"}
          /\ faults' = faults /\ w' = w
      BY <1>5 DEF Begin, Opened, outVars
    <2>2. QED
      BY <1>3, <2>1
  <1>6. CASE Resolve \/ Relayout \/ Allocate \/ LoadNext
    <2>1. /\ rc' = rc /\ pc \in {"resolve", "load"} /\ pc' \in {"resolve", "load"}
          /\ faults' = faults /\ w' = w
      BY <1>6 DEF Resolve, Relayout, Allocate, LoadNext, outVars
    <2>2. QED
      BY <1>3, <2>1
  <1>7. CASE Unresolved \/ OutOfMemory \/ LoadFailed \/ BindDone \/ MemRefused \/ MemDone
            \/ AcquireDone \/ PrepareRefused \/ StreamFailed \/ RangeRead
    <2>1. /\ rc' \in {0, -1} /\ pc' = "done" /\ w' = w
          /\ faults' = faults \/ (faults' = faults + 1 /\ faults < MaxFaults)
      BY <1>7 DEF Unresolved, OutOfMemory, LoadFailed, BindDone, MemRefused, MemDone, AcquireDone,
                  PrepareRefused, StreamFailed, RangeRead, Fail, Return
    <2>2. QED
      BY <1>4, <2>1
  <1>8. CASE StartJob
    <2>1. rc' = rc /\ pc' = pc /\ pc \in {"load", "stream", "expert", "range"}
          /\ faults' = faults /\ w' = w
      BY <1>8 DEF StartJob, outVars
    <2>2. QED
      BY <1>3, <2>1
  <1>9. CASE JobRound
    <2>1. /\ rc' = rc /\ pc' = pc /\ w' = w
          /\ faults' = faults \/ (faults' = faults + 1 /\ faults < MaxFaults)
      BY <1>9 DEF JobRound, Round, FullRound, ShortRound, FailedRound, AtEnd, outVars
    <2>2. faults' \in 0 .. MaxFaults
      BY <1>2, <2>1, CallsAssumption
    <2>3. QED
      BY <1>1, <2>1, <2>2 DEF CountersHold
  <1>10. CASE Loaded \/ StreamedRows \/ ExpertPart
    <2>1. /\ w' = w /\ faults' = faults /\ pc \in {"load", "stream", "expert"}
          /\ \/ rc' = rc /\ pc' = pc
             \/ rc' \in {0, -1} /\ pc' = "done"
      BY <1>10 DEF Loaded, StreamedRows, ExpertPart, Return
    <2>2. QED
      BY <1>3, <1>4, <2>1
  <1>11. CASE Manifest
    <2>1. /\ w' = w /\ faults' = faults /\ pc = "manifest"
          /\ \/ rc' = rc /\ pc' = (IF op.kind = "mem" THEN "mem" ELSE "acquire")
             \/ rc' \in {0, -1} /\ pc' = "done"
      BY <1>11 DEF Manifest, Fail, Return, outVars
    <2>2. QED
      BY <1>3, <1>4, <2>1
  <1>12. CASE MemPoint
    <2>1. rc' = rc /\ pc' = pc /\ pc = "mem" /\ faults' = faults /\ w' = w
      BY <1>12 DEF MemPoint
    <2>2. QED
      BY <1>3, <2>1
  <1>13. ASSUME pc \in {"mem", "acquire"}, next <= Len(reqs)
         PROVE  Align8(w) + 4 * Req.take \in Nat
    <2>1. next \in 1 .. Len(reqs)
      BY <1>13 DEF PlanHolds, IsPlan, IsSeq
    <2>2. Req.take \in Nat
      BY <2>1 DEF PlanHolds, IsPlan, RequestOk, Req
    <2>3. Align8(w) \in Nat
      BY <1>2 DEF Align8
    <2>4. QED
      BY <2>2, <2>3
  <1>14. CASE MemWiden
    <2>1. /\ rc' = rc /\ pc' = pc /\ pc = "mem" /\ faults' = faults /\ next <= Len(reqs)
          /\ w' = Align8(w) + 4 * Req.take /\ w' <= WidenBytes
      BY <1>14 DEF MemWiden, Widens
    <2>2. w' \in Nat
      BY <1>13, <2>1
    <2>3. WidenBytes' = WidenBytes
      OBVIOUS
    <2>4. QED
      BY <1>1, <1>2, <2>1, <2>2, <2>3 DEF CountersHold
  <1>15. CASE Acquire
    <2>1. CASE StreamFits
      <3>1. /\ rc' = rc /\ pc' = pc /\ pc = "acquire" /\ faults' = faults /\ next <= Len(reqs)
            /\ w' = (IF Req.narrow THEN w ELSE Align8(w) + 4 * Req.take)
        BY <1>15, <2>1 DEF Acquire
      <3>2. w' \in Nat
        BY <1>2, <1>13, <3>1
      <3>3. QED
        BY <1>1, <1>2, <3>1, <3>2 DEF CountersHold
    <2>2. CASE ~StreamFits
      <3>1. rc' = -1 /\ pc' = "done" /\ w' = w /\ faults' = faults
        BY <1>15, <2>2 DEF Acquire, Fail, Return
      <3>2. QED
        BY <1>4, <3>1
    <2>3. QED
      BY <2>1, <2>2
  <1>16. CASE Prepare
    <2>1. /\ rc' = rc /\ pc = "prepare" /\ pc' \in {"stream", "expert", "range"}
          /\ faults' = faults /\ w' = w
      BY <1>16 DEF Prepare, outVars
    <2>2. QED
      BY <1>3, <2>1
  <1>17. QED
    BY <1>5, <1>6, <1>7, <1>8, <1>9, <1>10, <1>11, <1>12, <1>14, <1>15, <1>16 DEF OtherSteps

-----------------------------------------------------------------------------
LEMMA OpensKeep ==
  ASSUME StoreHolds, JobsHold, PlanHolds, CountersHold, Opening
  PROVE  JobsHold' /\ PlanHolds' /\ CountersHold'
  <1>1. /\ UNCHANGED <<input, rd, planVars, jobs, total, outVars>>
        /\ pc \in {"open", "scan", "index"} /\ pc' \in {"open", "scan", "index", "closed"}
        /\ faults' = faults \/ (faults' = faults + 1 /\ faults < MaxFaults)
    BY OpenSteps
  <1>2. /\ dir' = dir /\ op' = op /\ reqs' = reqs /\ bad' = bad /\ size' = size
        /\ blob' = blob /\ w' = w /\ rc' = rc
    BY <1>1 DEF input, planVars, outVars
  <1>3. jobs = <<>> /\ blob = NoBlob
    BY <1>1 DEF JobsHold, PlanHolds
  <1>4. JobsHold'
    BY <1>1, <1>2, <1>3, KeepsJobs
  <1>5. PlanHolds'
    BY <1>1, <1>2, <1>3 DEF PlanHolds
  <1>6. faults' \in 0 .. MaxFaults
    BY <1>1, CallsAssumption DEF CountersHold
  <1>7. CountersHold'
    BY <1>1, <1>2, <1>6 DEF CountersHold
  <1>8. QED
    BY <1>4, <1>5, <1>7

LEMMA BindInit == Init => BindInv
  <1> SUFFICES ASSUME Init
               PROVE  BindInv
    OBVIOUS
  <1>1. /\ pc = "open" /\ next = 1 /\ store = Closed /\ rd = Idle /\ faults = 0
        /\ reqs = <<>> /\ bad = 0 /\ size = 0 /\ jobs = <<>> /\ blob = NoBlob /\ w = 0
        /\ rc = Pending /\ OneOfCalls
    BY DEF Init, StoreInit, OneOfCalls
  <1>2. StoreHolds
    BY <1>1 DEF StoreHolds, Indexed
  <1>3. ListHolds
    BY <1>1 DEF ListHolds, Closed, Indexed
  <1>4. TableHolds
    BY <1>1 DEF TableHolds, Indexed
  <1>5. JobsHold
    BY <1>1 DEF JobsHold, IsSeq, Idle
  <1>6. PlanHolds
    BY <1>1 DEF PlanHolds, IsPlan, IsSeq
  <1>7. CountersHold
    <2>1. WidenBytes \in Nat
      <3>1. /\ Hidden \in Nat /\ Cfg.q_lora \in Nat /\ Cfg.kv_lora \in Nat /\ Cfg.latent \in Nat
            /\ Cfg.n_experts * Hidden \in Nat /\ Slack \in Nat
        BY CountsTyped, Products, CountsAssumption
      <3>2. QED
        BY <3>1 DEF WidenBytes
    <2>2. QED
      BY <1>1, <2>1, CallsAssumption DEF CountersHold, Pending
  <1>8. QED
    BY <1>2, <1>3, <1>4, <1>5, <1>6, <1>7 DEF BindInv

LEMMA BindNext == BindInv /\ [Next]_vars => BindInv'
  <1> SUFFICES ASSUME BindInv, [Next]_vars
               PROVE  BindInv'
    OBVIOUS
  <1>1. CASE Opening
    BY <1>1, OpenSteps, ListOpens, TableOpens, OpensKeep DEF BindInv
  <1>2. CASE OtherSteps
    <2>1. /\ dir' = dir /\ op' = op /\ store' = store /\ AtWork' /\ (AtWork \/ Opened)
      BY <1>2, OthersKeep DEF BindInv
    <2>2. StoreHolds' /\ ListHolds' /\ TableHolds'
      BY <2>1, StoreKeeps DEF BindInv
    <2>3. JobsHold' /\ PlanHolds' /\ CountersHold'
      BY <1>2, JobsStep, PlanStep, CountersStep DEF BindInv
    <2>4. QED
      BY <2>2, <2>3 DEF BindInv
  <1>3. CASE UNCHANGED vars
    <2>1. /\ dir' = dir /\ op' = op /\ store' = store /\ pc' = pc /\ next' = next /\ rd' = rd
          /\ faults' = faults /\ reqs' = reqs /\ bad' = bad /\ size' = size /\ jobs' = jobs
          /\ blob' = blob /\ w' = w /\ rc' = rc
      BY <1>3 DEF vars, storeVars, input, planVars, outVars
    <2>2. StoreHolds'
      BY <2>1 DEF BindInv, StoreHolds, OneOfCalls, Indexed, AllScanned, Scanned, ScanOk
    <2>3. ListHolds'
      BY <2>1, SameEntries DEF BindInv, ListHolds, Listed, Indexed
    <2>4. TableHolds'
      <3>1. Filled' = Filled /\ (Indexed' <=> Indexed)
        BY <2>1 DEF Filled, Indexed
      <3>2. CASE Indexed
        BY <2>1, <3>1, <3>2, TableKeeps DEF BindInv
      <3>3. QED
        BY <3>1, <3>2 DEF TableHolds
    <2>5. JobsHold'
      BY <2>1, KeepsJobs DEF BindInv
    <2>6. PlanHolds'
      BY <2>1, SameTable DEF BindInv, PlanHolds
    <2>7. CountersHold'
      BY <2>1 DEF BindInv, CountersHold
    <2>8. QED
      BY <2>2, <2>3, <2>4, <2>5, <2>6, <2>7 DEF BindInv
  <1>4. QED
    BY <1>1, <1>2, <1>3 DEF Next, OtherSteps, Ended

(* The inductive invariant of the store and of those who read it.          *)
THEOREM BindInvariant == Spec => []BindInv
  <1>1. QED
    BY BindInit, BindNext, PTL DEF Spec

(* The control state, the counters and the buffers, BTypeOK: a read writes *)
(* nothing behind what has come, and what has come lies in its buffer.     *)
THEOREM BindTypes == Spec => []BTypeOK
  <1>1. BindInv => BTypeOK
    <2> SUFFICES ASSUME BindInv
                 PROVE  BTypeOK
      OBVIOUS
    <2>1. rd.via # "none" => Served(rd)
      BY DEF BindInv, JobsHold, Idle
    <2>2. rd.via # "none" =>
            /\ rd.got \in 0 .. rd.len /\ rd.len <= Cardinality(DOMAIN rd.buf)
            /\ \A b \in DOMAIN rd.buf : rd.buf[b] # NoByte => b < rd.got
      BY <2>1 DEF Served, Room
    <2>3. /\ blob \in Nat \cup {NoBlob} /\ (blob # NoBlob => blob = size)
      BY DEF BindInv, PlanHolds
    <2>4. QED
      BY <2>2, <2>3 DEF BindInv, CountersHold, BTypeOK
  <1>2. QED
    BY <1>1, BindInvariant, PTL

(* A read says it returned what it was asked for or the beginning of it,   *)
(* and has returned that: ReadReturnsRange, for every caller, every range  *)
(* and buffer, every kind of shard, and however its rounds were cut short. *)
THEOREM BindReads == Spec => []ReadReturnsRange
  <1>1. BindInv => ReadReturnsRange
    <2> SUFFICES ASSUME BindInv, Done
                 PROVE  /\ Result(rd) = 0 \/ Result(rd) \in 1 .. rd.n
                        /\ \A j \in 0 .. Result(rd) - 1 : rd.buf[rd.pad + j] = rd.off + j
      BY DEF ReadReturnsRange
    <2>1. Served(rd)
      BY DEF BindInv, JobsHold, Done, Idle
    <2>2. QED
      BY <2>1, ServedResult
  <1>2. QED
    BY <1>1, BindInvariant, PTL

(* Once a directory is open, a name is found when a header has it and only *)
(* then, and what is found is the one tensor that has it: FindsByName, for *)
(* every directory and whatever names share a bucket.                      *)
THEOREM BindFinds == Spec => []FindsAll
  <1>1. BindInv => FindsAll
    <2> SUFFICES ASSUME BindInv, AtWork, NEW name, Hash[name] \in Nat
                 PROVE  FindsByName(name)
      BY DEF FindsAll
    <2>1. Indexed /\ pc # "index" /\ OneOfCalls
      BY DEF AtWork, Indexed, BindInv, StoreHolds
    <2>2. QED
      BY <2>1, FindIs DEF BindInv
  <1>2. QED
    BY <1>1, BindInvariant, PTL
=============================================================================
