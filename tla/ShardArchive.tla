---------------------------- MODULE ShardArchive ----------------------------
(***************************************************************************)
(* The two compressed shard formats (src/src/io/k3_zfile.h, k3_zmap.h): an *)
(* archive of fixed blocks, and a selective one whose extents are raw or   *)
(* coded.  Both keep the offsets of the file they stand for.  A byte of    *)
(* that file is its offset.  What zstd and the disk hold is external: the  *)
(* frame stored at an offset carries the block number and the flags its    *)
(* writer (tools/offline_model.py) bound into it.                          *)
(*                                                                         *)
(* An archive is [mapped, raw, block, physical, entry, frame]; an entry is *)
(* [off, size, flags], and of a selective archive also [end].  Archives    *)
(* refused for their block size alone, or for more entries than            *)
(* K3_ZMAX_COUNT, are left out.                                            *)
(***************************************************************************)
EXTENDS Integers, Sequences, FiniteSetsExt

CONSTANTS
  Align,        \* K3_ST_ALIGN = K3_ZMAP_ALIGN = 4096
  ZHeader,      \* K3_ZHEADER
  ZRow,         \* bytes of an index entry
  ZBound        \* ZSTD_compressBound of a block with its prefix

ASSUME ArchiveAssumption == Align \in Nat \ {0}

RAW == 2                                            \* K3_ZMAP_RAW

(* The fields of an index are unsigned, its block size a constant.         *)
ArchiveType(a) ==
  /\ a.raw \in Nat /\ a.block \in Nat \ {0}
  /\ Len(a.entry) \in Nat /\ DOMAIN a.entry = 1 .. Len(a.entry)
  /\ \A e \in DOMAIN a.entry :
       /\ a.entry[e].off \in Nat /\ a.entry[e].size \in Nat
       /\ a.mapped => a.entry[e].end \in Nat

Start(a, e) == IF a.mapped THEN (IF e = 1 THEN 0 ELSE a.entry[e - 1].end)
                           ELSE (e - 1) * a.block
End(a, e)   == IF a.mapped THEN a.entry[e].end ELSE Min({a.raw, e * a.block})
Cursor(a, e) == IF e = 1 THEN ZHeader + ZRow * Len(a.entry)
                         ELSE a.entry[e - 1].off + a.entry[e - 1].size
Follows(a, e) == a.entry[e].off + a.entry[e].size <= a.physical

(* k3_zopen: the blocks fill the file, one after the other.                *)
BlocksOpen(a) ==
  /\ Len(a.entry) = (a.raw + a.block - 1) \div a.block
  /\ \A e \in DOMAIN a.entry :
       /\ a.entry[e].off = Cursor(a, e) /\ Follows(a, e)
       /\ a.entry[e].size \in 9 .. ZBound
       /\ a.entry[e].flags \in {0, 1}

(* k3_zmap_open: the extents follow each other in both files; before one   *)
(* there may be padding, less than Align of it.                            *)
ExtentsOpen(a) ==
  /\ \A e \in DOMAIN a.entry :
       LET x == a.entry[e]
           length == End(a, e) - Start(a, e) IN
       /\ length > 0 /\ x.end <= a.raw
       /\ x.off - Cursor(a, e) \in 0 .. Align - 1 /\ Follows(a, e)
       /\ \/ x.flags = RAW /\ x.size = length
          \/ x.flags = 0 /\ length <= a.block /\ x.size \in 9 .. ZBound
  /\ IF a.entry = <<>> THEN a.raw = 0 ELSE a.entry[Len(a.entry)].end = a.raw

ZOpen(a) ==
  /\ IF a.mapped THEN ExtentsOpen(a) ELSE BlocksOpen(a)
  /\ Cursor(a, Len(a.entry) + 1) = a.physical

(* k3_zread answers nothing to a range that leaves the file.               *)
ZInRange(a, off, n) == off <= a.raw /\ n <= a.raw - off

(* The entry that holds a byte: an index, or the first extent past it.     *)
Entry(a, pos) ==
  IF a.mapped THEN Min({e \in DOMAIN a.entry : a.entry[e].end > pos})
              ELSE pos \div a.block + 1

(* A frame is refused unless it is the one of this entry.                  *)
AnyFrame(a, e) == TRUE
FrameFits(a, e) ==
  LET f == a.frame[a.entry[e].off] IN f.index = e /\ f.flags = a.entry[e].flags

(* The bytes a frame decodes to, and the order they are handed out in: a   *)
(* flagged block was split into its even and its odd bytes.                *)
Half(a, e) == (End(a, e) - Start(a, e) + 1) \div 2
Stored(a, e, j) ==
  LET f == a.frame[a.entry[e].off]
      h == Half(a, f.index) IN
  Start(a, f.index) + (IF f.flags = 0 THEN j
                       ELSE IF j < h THEN 2 * j ELSE 2 * (j - h) + 1)
Unsplit(a, e, j) ==
  IF a.entry[e].flags = 0 THEN j ELSE j \div 2 + (IF j % 2 = 1 THEN Half(a, e) ELSE 0)

(* A raw span of n bytes from physical offset p on.  With a direct         *)
(* descriptor and a destination that agrees with it modulo Align the       *)
(* aligned interior is read directly, the ends through the page cache.     *)
RoundUp(x) == Align * ((x + Align - 1) \div Align)
RoundDown(x) == Align * (x \div Align)
RawSpans(p, n, addr, direct) ==
  LET lo == RoundUp(p)
      hi == RoundDown(p + n) IN
  IF direct /\ n >= 2 * Align /\ addr % Align = p % Align /\ hi > lo
  THEN <<[to |-> 0, p |-> p, n |-> lo - p], [to |-> lo - p, p |-> lo, n |-> hi - lo],
         [to |-> hi - p, p |-> hi, n |-> p + n - hi]>>
  ELSE <<[to |-> 0, p |-> p, n |-> n]>>

(* What byte j of such a transfer is, in terms of the file.                *)
RawByte(a, e, p, n, addr, direct, j) ==
  LET sp == RawSpans(p, n, addr, direct)
      s == CHOOSE s \in DOMAIN sp : j - sp[s].to \in 0 .. sp[s].n - 1
  IN  Start(a, e) + (sp[s].p + (j - sp[s].to) - a.entry[e].off)

(* Byte j of what one round of the read loop copies from position pos on.  *)
ZByte(a, pos, take, addr, direct, j) ==
  LET e == Entry(a, pos)
      within == pos - Start(a, e) IN
  IF a.entry[e].flags = RAW
  THEN RawByte(a, e, a.entry[e].off + within, take, addr, direct, j)
  ELSE Stored(a, e, Unsplit(a, e, within + j))
ZTake(a, pos, left) == Min({End(a, Entry(a, pos)) - pos, left})
ZSound(a, pos) ==
  LET e == Entry(a, pos) IN a.entry[e].flags # RAW => FrameFits(a, e)
=============================================================================
