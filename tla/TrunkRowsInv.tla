--------------------------- MODULE TrunkRowsInv ----------------------------
(***************************************************************************)
(* Why a streamed product is right: the inductive invariant of TrunkRows.  *)
(*                                                                         *)
(* A read is outstanding only inside a pass (Quiet), and while a tile is   *)
(* applied it fills the other buffer (Spared).  What is in the buffer to   *)
(* be applied next, or is being read into it, are the bytes of the tile    *)
(* the pass has come to (Bytes), and every selected row before that tile   *)
(* has its product (Delivered).  A bind has come to some tensor of its     *)
(* layer, and the arena is filled as far as the vectors before it take     *)
(* (Laid).                                                                 *)
(***************************************************************************)
EXTENDS TrunkRows

Reading == mpc \in {"tile", "apply"}

Types ==
  /\ RowTypeOK
  /\ todo \in Seq(TensorType)
  /\ mpc \in {"vector", "vread"} => todo # <<>>
  /\ pass \in [m : Nat, sel : SelType, rows : BOOLEAN]
  /\ buf = [b \in Buffers |-> buf[b]] /\ y = [r \in Row |-> y[r]]
  /\ kvb = [valid |-> kvb.valid, l |-> kvb.l, m |-> kvb.m, holds |-> kvb.holds]
  /\ pin = [l \in RowLayers |-> [m |-> pin[l].m, holds |-> pin[l].holds]]

(* A pass is over a matrix of the bound layer, with a selection the shape  *)
(* test let through, and has not run past its last row.                    *)
PassValid ==
  Passing =>
    /\ pass.m \in DOMAIN Ts(layer) /\ IsMatrix(layer, pass.m)
    /\ Valid(pass.sel, Out(layer, pass.m))
    /\ Reading => k < Total /\ tile = SelTile(Cut, k, per)

Quiet ==
  /\ busy => Reading
  /\ rpc = "read" => busy
  /\ \A b \in Buffers :
       writing[b] = (IF rpc = "read" /\ b = job.slot THEN {"reader"} ELSE {})
                    \cup (IF mpc = "vread" /\ b = 0 THEN {"main"} ELSE {})

(* While a tile is applied the next one, if there is one, is read into the *)
(* other buffer.                                                           *)
Spared == mpc = "apply" /\ busy => job.slot = Spare /\ NextTile > 0

(* The tile at selected row at, of n rows, is in buffer b: or it is on its *)
(* way there, or its read has failed.                                      *)
Comes(b, at, n) ==
  IF busy THEN job = [bytes |-> TileBytes(pass, Cut, at, n), slot |-> b]
  ELSE result = 0 => buf[b] = TileBytes(pass, Cut, at, n)

Filled ==
  /\ mpc = "tile" => Comes(slot, k, tile)
  /\ mpc = "apply" => /\ buf[slot] = TileBytes(pass, Cut, k, tile)
                      /\ NextTile > 0 => Comes(Spare, Follows, NextTile)

AllOf(l, m) == [l |-> l, m |-> m, first |-> 0, n |-> Out(l, m)]
KvbHolds ==
  /\ kvb.valid => kvb.holds = AllOf(kvb.l, kvb.m)
  /\ \A l \in RowLayers : pin[l].m # 0 => pin[l].holds = AllOf(l, pin[l].m)
  /\ mpc = "fill" => IF Pinned THEN pin[layer].m = 0 ELSE ~kvb.valid
  /\ mpc = "kapply" =>
       IF Pinned THEN pin[layer].m = pass.m
                 ELSE kvb.valid /\ kvb.l = layer /\ kvb.m = pass.m

Delivered ==
  /\ Reading => \A r \in Selected(pass.sel, Out(layer, pass.m)) :
                  r < SelRow(Cut, k) => y[r] = <<layer, pass.m, r>>
  /\ read_error => ~Passing

(* What the vectors among the first tensors of a layer take of the arena.  *)
Used(l) ==
  LET used[j \in 0 .. Len(Ts(l))] ==
        IF j = 0 THEN 0
        ELSE IF Ts(l)[j].kind = "vector" THEN Align(used[j - 1]) + Ts(l)[j].n
        ELSE used[j - 1]
  IN used

Come == Len(Ts(layer)) - Len(todo)
Laid ==
  mpc \in {"acquire", "vector", "vread"} =>
    /\ Len(todo) <= Len(Ts(layer))
    /\ \A i \in 1 .. Len(todo) : todo[i] = Ts(layer)[Come + i]
    /\ small_used = Used(layer)[Come]
    /\ mpc # "acquire" => Head(todo).kind = "vector"

RowsInv == Types /\ PassValid /\ Quiet /\ Spared /\ Filled /\ KvbHolds /\ Delivered /\ Laid
=============================================================================
