------------------------------ MODULE KdaState ------------------------------
(***************************************************************************)
(* What a KDA layer carries from one position to the next, and how a       *)
(* tentative call leaves it alone (k3_kda_layer_log and k3_kda_advance in  *)
(* src/src/core/k3_ops.c).  The recurrence folds every position it is fed  *)
(* into its matrix, so the matrix is written as the positions it has       *)
(* consumed, in order; the ShortConv history is the last Hist of them.  A  *)
(* position is the id that was fed there.                                  *)
(***************************************************************************)
EXTENDS Naturals, Sequences

CONSTANT Hist                                       \* conv_k - 1

NoId == 0

ZeroState == [fed |-> <<>>, conv |-> [j \in 1 .. Hist |-> NoId]]

(* k3_shortconv and kda_replay_conv_: entries n+1 .. n+Hist of the old     *)
(* history followed by the n inputs.                                       *)
ConvAfter(conv, xs, n) ==
  [j \in 1 .. Hist |-> IF n + j <= Hist THEN conv[n + j] ELSE xs[n + j - Hist]]

Feed(st, xs) ==
  [fed |-> st.fed \o xs, conv |-> ConvAfter(st.conv, xs, Len(xs))]

(* A logged call records its inputs from row0 on, as many as the log holds.*)
NoRows(cap) == [r \in 1 .. cap |-> NoId]
Record(rows, row0, xs) ==
  [r \in DOMAIN rows |-> IF r > row0 /\ r - row0 <= Len(xs) THEN xs[r - row0] ELSE rows[r]]

(* k3_kda_advance: the first n rows applied to a carried state.  A logged  *)
(* call computes on a work copy that is the carried state so advanced.     *)
AdvanceKeepsConv(st, rows, n) == [st EXCEPT !.fed = @ \o SubSeq(rows, 1, n)]
Advance(st, rows, n) == Feed(st, SubSeq(rows, 1, n))
=============================================================================
