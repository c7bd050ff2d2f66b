------------------------------ MODULE RowTiles ------------------------------
(***************************************************************************)
(* Which rows of a streamed matrix a pass applies, and how they are cut    *)
(* into tiles (K3RowSel and its helpers in src/src/io/k3_trunk.c).  A      *)
(* selection takes rows r0 .. r0 + nr - 1 of every block of blk rows.      *)
(***************************************************************************)
EXTENDS Integers

Lesser(a, b)  == IF a < b THEN a ELSE b
Greater(a, b) == IF a > b THEN a ELSE b

SelType == [blk : Int, r0 : Int, nr : Int]
Whole(out) == [blk |-> out, r0 |-> 0, nr |-> out]

(* The shape test every pass makes before it reads.                        *)
Valid(s, out) ==
  /\ s.blk > 0 /\ out % s.blk = 0
  /\ s.nr > 0 /\ s.r0 >= 0 /\ s.nr <= s.blk - s.r0

(* Selected row k as a row of the matrix, and how many rows are selected.  *)
SelRow(s, k)    == (k \div s.nr) * s.blk + s.r0 + (k % s.nr)
SelCount(s, out) == (out \div s.blk) * s.nr

(* Rows in the tile that starts at selected row k: at most per, and never  *)
(* past the end of k's run, the next run not being adjacent on disk.       *)
SelTile(s, k, per) == Lesser(s.nr - (k % s.nr), per)

(* The rows of Y written from a tile of count rows that begins at row      *)
(* first: in every block the tile meets, the selected part inside it.      *)
TilePart(s, first, count) ==
  UNION { Greater(b * s.blk + s.r0, first)
          .. Lesser(b * s.blk + s.r0 + s.nr, first + count) - 1
          : b \in first \div s.blk .. (first + count - 1) \div s.blk }

(* What a selection means, stated without tiles.                           *)
Selected(s, out) ==
  {r \in 0 .. out - 1 : r % s.blk \in s.r0 .. s.r0 + s.nr - 1}
=============================================================================
