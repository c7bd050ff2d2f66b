----------------------------- MODULE TrunkRows ------------------------------
(***************************************************************************)
(* The row pipeline of --trunk-rows (src/src/io/k3_trunk.c, K3Rows).  A    *)
(* bound layer holds only its small vectors; its matrices are read from    *)
(* disk row tile by row tile inside the product that uses them, one buffer *)
(* being filled by the reader thread while the other is applied.  With     *)
(* --kvb-cache the rows of kv_b come from a buffer of their own, filled    *)
(* once per visit of a layer (ACTIVE) or once per run (PIN).               *)
(*                                                                         *)
(* A byte range of the file is a record [l, m, first, n]: n rows of tensor *)
(* m of layer l from row first on.  A product of matrix row r is the triple*)
(* <<l, m, r>>, computed from whatever the buffer holds there.             *)
(***************************************************************************)
EXTENDS RowTiles, Sequences, SequencesExt, FiniteSets

CONSTANTS
  Tensors,      \* per layer, its tensors in binding order: [kind, n]
  Kvb,          \* per layer, the index of kv_b among them, 0: none
  Pers,         \* numbers of rows a buffer may hold
  Sels,         \* selections a pass may ask for
  MaxRows,      \* no matrix has more rows
  MaxMatrices   \* K3RowMatrix matrix[64]

(* What rows_open and the plans of k3_bind.c guarantee of their numbers.   *)
TensorType == [kind : {"matrix", "vector"}, n : Nat \ {0}]
ASSUME RowsAssumption ==
  /\ 0 \in DOMAIN Tensors /\ IsFiniteSet(DOMAIN Tensors)
  /\ DOMAIN Tensors = 0 .. Cardinality(DOMAIN Tensors) - 1
  /\ \A l \in DOMAIN Tensors : Tensors[l] \in Seq(TensorType)
  /\ MaxRows \in Nat
  /\ \A l \in DOMAIN Tensors : \A m \in DOMAIN Tensors[l] :
       Tensors[l][m].kind = "matrix" => Tensors[l][m].n <= MaxRows
  /\ Pers \subseteq Nat \ {0}
  /\ MaxMatrices \in Nat
  /\ Sels \subseteq SelType

VARIABLES
  kvb_mode, rows_whole_tiles, per,    \* chosen when the trunk is opened
  mpc,                                \* control state of the main thread
  layer, todo, small_used, count,     \* the bind: K3Rows, and tensors left
  pass, k, slot, tile,                \* the pass: rows_run's locals
  busy, result, job, stop, rpc,       \* the hand-off, and the reader thread
  asleep,                             \* threads blocked on r->cv
  buf, writing,                       \* the two buffers, who is filling them
  kvb, pin,                           \* the kv_b buffers
  y, read_error

open    == <<kvb_mode, rows_whole_tiles, per>>
bind    == <<layer, todo, small_used, count>>
handoff == <<busy, result, job, stop, rpc>>
passing == <<pass, k, slot, tile>>
memory  == <<buf, writing>>
kvbufs  == <<kvb, pin>>
outcome == <<y, read_error>>
vars == <<open, mpc, bind, passing, handoff, asleep, memory, kvbufs, outcome>>

RowLayers == DOMAIN Tensors
Ts(l) == Tensors[l]
IsMatrix(l, m) == Ts(l)[m].kind = "matrix"
Out(l, m) == Ts(l)[m].n
Row == 0 .. MaxRows - 1
Nothing == [l |-> 0, m |-> 0, first |-> 0, n |-> 0]
NoPass == [m |-> 0, sel |-> Whole(1), rows |-> FALSE]
Old  == <<0, 0, 0>>        \* what y held before the pass
Zero == <<0, 0, 1>>
Buffers == {0, 1}

(* align8, in floats.                                                      *)
Align(x) == x + (x % 2)

(* The vector arena: what k3_bind_layer_stream counts for a layer, and the *)
(* largest of it, which rows_open allocates.                               *)
Small(l) == FoldLeft(LAMBDA s, t : IF t.kind = "vector" THEN Align(s) + t.n
                                   ELSE s, 0, Ts(l))
SmallCapOfLast == Small(CHOOSE l \in RowLayers : \A o \in RowLayers : o <= l)
SmallCap == Max({Small(l) : l \in RowLayers})

(* The ACTIVE buffer is sized for the largest kv_b of the trunk.           *)
KvbRows(l) == IF Kvb[l] = 0 THEN 0 ELSE Out(l, Kvb[l])
KvbCap == Max({KvbRows(l) : l \in RowLayers})
-----------------------------------------------------------------------------
Init ==
  /\ kvb_mode \in {"off", "active", "pin"}
  /\ rows_whole_tiles \in BOOLEAN
  /\ per \in Pers
  /\ mpc = "next"
  /\ layer = 0 /\ todo = <<>> /\ small_used = 0 /\ count = 0
  /\ pass = NoPass /\ k = 0 /\ slot = 0 /\ tile = 0
  /\ busy = FALSE /\ result = 0 /\ job = [bytes |-> Nothing, slot |-> 0]
  /\ stop = FALSE /\ rpc = "wait" /\ asleep = {}
  /\ buf = [b \in Buffers |-> Nothing]
  /\ writing = [b \in Buffers |-> {}]
  /\ kvb = [valid |-> FALSE, l |-> -1, m |-> 0, holds |-> Nothing]
  /\ pin = [l \in RowLayers |-> [m |-> 0, holds |-> Nothing]]
  /\ y = [r \in Row |-> Old]
  /\ read_error = FALSE
-----------------------------------------------------------------------------
(* rows_read: a buffer is filled between BeginRead and EndRead.            *)
BeginRead(t, b) ==
  /\ writing' = [writing EXCEPT ![b] = @ \cup {t}]
  /\ buf' = [buf EXCEPT ![b] = Nothing]

EndRead(t, b, bytes, ok) ==
  /\ writing' = [writing EXCEPT ![b] = @ \ {t}]
  /\ buf' = [buf EXCEPT ![b] =
               IF ok /\ writing[b] = {t} THEN bytes ELSE Nothing]

(* rows_submit.                                                            *)
SubmitUnsignalled(b, bytes) ==
  /\ busy' = TRUE
  /\ job' = [bytes |-> bytes, slot |-> b]
  /\ UNCHANGED <<asleep, result, stop, rpc>>

Submit(b, bytes) ==
  /\ busy' = TRUE
  /\ job' = [bytes |-> bytes, slot |-> b]
  /\ asleep' = asleep \ {"reader"}
  /\ UNCHANGED <<result, stop, rpc>>

(* rows_wait and kvb_idle sleep while the reader is busy.                  *)
MainAwake == "main" \notin asleep
AwaitIdle == ~busy /\ MainAwake

MainSleep ==
  /\ mpc \in {"next", "tile", "fill"} /\ busy /\ MainAwake
  /\ asleep' = asleep \cup {"main"}
  /\ UNCHANGED <<open, mpc, bind, passing, handoff, memory, kvbufs, outcome>>
-----------------------------------------------------------------------------
(* k3_trunk_bind in row mode, and rows_acquire for every tensor.           *)
(* After a failed read it refuses; forward has ended the run by then.      *)
BindStart(l) ==
  /\ mpc = "next" /\ AwaitIdle
  /\ ~read_error /\ result = 0
  /\ mpc' = "acquire"
  /\ layer' = l /\ small_used' = 0 /\ count' = 0 /\ todo' = Ts(l)
  /\ kvb' = [kvb EXCEPT !.valid = FALSE]
  /\ UNCHANGED <<open, passing, handoff, asleep, memory, pin, outcome>>

AcquireMatrix ==
  /\ mpc = "acquire" /\ todo # <<>> /\ Head(todo).kind = "matrix"
  /\ IF count = MaxMatrices
     THEN mpc' = "failed" /\ UNCHANGED bind
     ELSE /\ count' = count + 1 /\ todo' = Tail(todo)
          /\ UNCHANGED <<mpc, layer, small_used>>
  /\ UNCHANGED <<open, passing, handoff, asleep, memory, kvbufs, outcome>>

ArenaStart == Align(small_used)
Fits(v) == ArenaStart <= SmallCap /\ v.n <= SmallCap - ArenaStart

AcquireVector ==
  /\ mpc = "acquire" /\ todo # <<>> /\ Head(todo).kind = "vector"
  /\ mpc' = IF Fits(Head(todo)) THEN "vector" ELSE "failed"
  /\ tile' = 0
  /\ UNCHANGED <<open, bind, pass, k, slot, handoff, asleep, memory, kvbufs, outcome>>

(* A vector is read through the first buffer, a payload at a time.         *)
VectorBegin ==
  /\ mpc = "vector"
  /\ mpc' = "vread"
  /\ BeginRead("main", 0)
  /\ UNCHANGED <<open, bind, passing, handoff, asleep, kvbufs, outcome>>

VectorEnd ==
  /\ mpc = "vread"
  /\ \E ok \in BOOLEAN :
       /\ EndRead("main", 0, Nothing, ok)
       /\ LET v == Head(todo)
              done == tile + Lesser(v.n - tile, per)
          IN \/ /\ ~ok /\ mpc' = "failed" /\ UNCHANGED <<bind, tile>>
             \/ /\ ok /\ done < v.n
                /\ mpc' = "vector" /\ tile' = done /\ UNCHANGED bind
             \/ /\ ok /\ done = v.n
                /\ mpc' = "acquire" /\ tile' = 0
                /\ small_used' = ArenaStart + v.n /\ todo' = Tail(todo)
                /\ UNCHANGED <<layer, count>>
  /\ UNCHANGED <<open, pass, k, slot, handoff, asleep, kvbufs, outcome>>

Bound ==
  /\ mpc = "acquire" /\ todo = <<>>
  /\ mpc' = "bound"
  /\ UNCHANGED <<open, bind, passing, handoff, asleep, memory, kvbufs, outcome>>
-----------------------------------------------------------------------------
(* A pass over matrix m: rows_run, with the selection the reads are cut    *)
(* from and the one that is applied.                                       *)

Wanted(p) == {<<layer, p.m, r>> : r \in Selected(p.sel, Out(layer, p.m))}
Cut == IF rows_whole_tiles THEN Whole(Out(layer, pass.m)) ELSE pass.sel
Total == SelCount(Cut, Out(layer, pass.m))
Follows == k + tile
NextTileAlways == SelTile(Cut, Follows, per)
NextTile == IF Follows < Total THEN SelTile(Cut, Follows, per) ELSE 0

TileBytes(p, cut, at, n) ==
  [l |-> layer, m |-> p.m, first |-> SelRow(cut, at), n |-> n]

(* rows_run returns: its locals are gone.                                  *)
Return ==
  /\ mpc' = "bound"
  /\ pass' = NoPass /\ k' = 0 /\ slot' = 0 /\ tile' = 0

FailPass ==
  /\ read_error' = TRUE
  /\ y' = [r \in Row |-> Zero]
  /\ Return

(* The rows a buffer's bytes give for the tile's part of the selection.    *)
Applied(bytes, first, n) ==
  [r \in Row |->
     IF r \in TilePart(pass.sel, first, n)
     THEN IF r - first < bytes.n THEN <<bytes.l, bytes.m, bytes.first + (r - first)>>
          ELSE <<0, 0, 2>>
     ELSE y[r]]

RunStart(p) ==
  /\ IF ~Valid(p.sel, Out(layer, p.m)) \/ read_error
     THEN FailPass /\ UNCHANGED <<handoff, asleep>>
     ELSE LET out == Out(layer, p.m)
              cut == IF rows_whole_tiles THEN Whole(out) ELSE p.sel
              n   == SelTile(cut, 0, per)
          IN /\ mpc' = "tile" /\ pass' = p /\ k' = 0 /\ slot' = 0 /\ tile' = n
             /\ Submit(0, TileBytes(p, cut, 0, n))
             /\ y' = [r \in Row |-> Old]
             /\ UNCHANGED read_error

(* rows_apply, rows_apply_batch, and rows_apply_rows without a kv_b buffer.*)
Pass(p) ==
  /\ mpc = "bound" /\ (p.rows => kvb_mode = "off")
  /\ RunStart(p)
  /\ UNCHANGED <<open, bind, memory, kvbufs>>

TileFailed ==
  /\ mpc = "tile" /\ AwaitIdle /\ result # 0
  /\ FailPass
  /\ UNCHANGED <<open, bind, handoff, asleep, memory, kvbufs>>

SpareSame == slot
SpareNext == slot + 1
Spare == 1 - slot

(* The tile is here: ask for the next one, then apply this one.            *)
TileReady ==
  /\ mpc = "tile" /\ AwaitIdle /\ result = 0
  /\ mpc' = "apply"
  /\ IF NextTile > 0
     THEN Submit(Spare, TileBytes(pass, Cut, Follows, NextTile))
     ELSE UNCHANGED <<handoff, asleep>>
  /\ UNCHANGED <<open, bind, passing, memory, kvbufs, outcome>>

ApplyTile ==
  /\ mpc = "apply"
  /\ y' = Applied(buf[slot], SelRow(Cut, k), tile)
  /\ IF Follows < Total
     THEN /\ mpc' = "tile"
          /\ k' = Follows /\ tile' = NextTile /\ slot' = 1 - slot
          /\ UNCHANGED pass
     ELSE Return
  /\ UNCHANGED <<open, bind, handoff, asleep, memory, kvbufs, read_error>>
-----------------------------------------------------------------------------
(* rows_apply_rows with a kv_b buffer (kvb_weights).                       *)

Pinned == kvb_mode = "pin"
HasPin == Kvb[layer] # 0

KvbMatchesStale(p) == IF Pinned THEN HasPin /\ pin[layer].m = p.m ELSE kvb.valid
KvbMatches(p) ==
  IF Pinned THEN HasPin /\ pin[layer].m = p.m
  ELSE kvb.valid /\ kvb.l = layer /\ kvb.m = p.m

(* A pin takes one matrix; the ACTIVE slot any that fits.                  *)
KvbTakes(p) ==
  IF Pinned THEN HasPin /\ pin[layer].m = 0
  ELSE Out(layer, p.m) <= KvbCap

KvbPass(p) ==
  /\ mpc = "bound" /\ p.rows /\ kvb_mode # "off"
  /\ \/ /\ ~Valid(p.sel, Out(layer, p.m)) \/ read_error
        /\ FailPass
        /\ UNCHANGED <<handoff, asleep, kvb>>
     \/ /\ Valid(p.sel, Out(layer, p.m)) /\ ~read_error
        /\ KvbMatches(p) \/ KvbTakes(p)
        /\ pass' = p
        /\ mpc' = IF KvbMatches(p) THEN "kapply" ELSE "fill"
        /\ kvb' = IF Pinned \/ KvbMatches(p) THEN kvb ELSE [kvb EXCEPT !.valid = FALSE]
        /\ y' = [r \in Row |-> Old]
        /\ UNCHANGED <<k, slot, tile, handoff, asleep, read_error>>
     \/ /\ Valid(p.sel, Out(layer, p.m)) /\ ~read_error
        /\ ~KvbMatches(p) /\ ~KvbTakes(p)                     \* kvb_fallbacks
        /\ kvb' = IF Pinned THEN kvb ELSE [kvb EXCEPT !.valid = FALSE]
        /\ RunStart(p)
  /\ UNCHANGED <<open, bind, memory, pin>>

KvbFill ==
  /\ mpc = "fill" /\ AwaitIdle
  /\ LET bytes == [l |-> layer, m |-> pass.m, first |-> 0, n |-> Out(layer, pass.m)]
     IN \/ /\ mpc' = "kapply"
           /\ IF Pinned
              THEN /\ pin' = [pin EXCEPT ![layer] = [m |-> pass.m, holds |-> bytes]]
                   /\ UNCHANGED kvb
              ELSE /\ kvb' = [valid |-> TRUE, l |-> layer, m |-> pass.m, holds |-> bytes]
                   /\ UNCHANGED pin
           /\ UNCHANGED <<passing, outcome>>
        \/ /\ FailPass
           /\ kvb' = IF Pinned THEN kvb ELSE [kvb EXCEPT !.holds = Nothing]
           /\ pin' = IF Pinned THEN [pin EXCEPT ![layer].holds = Nothing] ELSE pin
  /\ UNCHANGED <<open, bind, handoff, asleep, memory>>

KvbApply ==
  /\ mpc = "kapply"
  /\ y' = Applied(IF Pinned THEN pin[layer].holds ELSE kvb.holds, 0, Out(layer, pass.m))
  /\ Return
  /\ UNCHANGED <<open, bind, handoff, asleep, memory, kvbufs, read_error>>
-----------------------------------------------------------------------------
(* forward: after the layer, a failed read ends the run; what a product    *)
(* wrote has been consumed.                                                *)
LayerDone ==
  /\ mpc = "bound"
  /\ mpc' = IF read_error THEN "failed" ELSE "next"
  /\ y' = [r \in Row |-> Old]
  /\ UNCHANGED <<open, bind, passing, handoff, asleep, memory, kvbufs, read_error>>

(* rows_worker.                                                            *)
ReaderSleep ==
  /\ rpc = "wait" /\ ~busy /\ ~stop /\ "reader" \notin asleep
  /\ asleep' = asleep \cup {"reader"}
  /\ UNCHANGED <<open, mpc, bind, passing, handoff, memory, kvbufs, outcome>>

ReaderTake ==
  /\ rpc = "wait" /\ "reader" \notin asleep
  /\ busy \/ stop
  /\ IF stop THEN rpc' = "gone" /\ UNCHANGED memory
             ELSE rpc' = "read" /\ BeginRead("reader", job.slot)
  /\ UNCHANGED <<open, mpc, bind, passing, busy, result, job, stop, asleep, kvbufs,
                 outcome>>

ReaderPost ==
  /\ rpc = "read"
  /\ rpc' = "wait"
  /\ \E ok \in BOOLEAN :
       /\ EndRead("reader", job.slot, job.bytes, ok)
       /\ result' = IF ok THEN 0 ELSE -1
  /\ busy' = FALSE
  /\ asleep' = {}
  /\ UNCHANGED <<open, mpc, bind, passing, job, stop, kvbufs, outcome>>

SpuriousWakeup ==
  /\ \E t \in asleep : asleep' = asleep \ {t}
  /\ UNCHANGED <<open, mpc, bind, passing, handoff, memory, kvbufs, outcome>>

(* rows_close: only between calls.                                         *)
Close ==
  /\ mpc \in {"next", "failed"} /\ MainAwake
  /\ mpc' = "joining"
  /\ stop' = TRUE
  /\ asleep' = asleep \ {"reader"}
  /\ UNCHANGED <<open, bind, passing, busy, result, job, rpc, memory, kvbufs, outcome>>

Join ==
  /\ mpc = "joining" /\ rpc = "gone"
  /\ mpc' = "closed"
  /\ UNCHANGED <<open, bind, passing, handoff, asleep, memory, kvbufs, outcome>>

Closed == mpc = "closed" /\ UNCHANGED vars
-----------------------------------------------------------------------------
Passes == {[m |-> m, sel |-> s, rows |-> r] :
             m \in {i \in DOMAIN Ts(layer) : IsMatrix(layer, i)},
             s \in Sels, r \in BOOLEAN}
(* rows_apply and rows_apply_batch take every row, rows_apply_rows some:   *)
(* selecting none reads and writes nothing.                                *)
Selects(p) == IF p.rows THEN p.sel.nr # 0 ELSE p.sel = Whole(Out(layer, p.m))

BindStep == \/ \E l \in RowLayers : BindStart(l)
            \/ AcquireMatrix \/ AcquireVector \/ VectorBegin \/ VectorEnd \/ Bound
PassStep == \/ TileFailed \/ TileReady \/ ApplyTile \/ KvbFill \/ KvbApply
AskPass == mpc = "bound" /\ \E p \in Passes : Selects(p) /\ (Pass(p) \/ KvbPass(p))
Main == \/ BindStep \/ PassStep \/ AskPass \/ LayerDone \/ MainSleep \/ Close \/ Join
Reader == ReaderSleep \/ ReaderTake \/ ReaderPost

Next == Main \/ Reader \/ SpuriousWakeup \/ Closed

(* Both threads run whenever they can; what the main thread asks for, and  *)
(* whether it ever stops asking, is the caller's business.                 *)
Fairness ==
  /\ WF_vars(PassStep) /\ WF_vars(mpc # "next" /\ BindStep) /\ WF_vars(Join)
  /\ WF_vars(ReaderTake) /\ WF_vars(ReaderPost)

RowsSpec == Init /\ [][Next]_vars
FairRowsSpec == RowsSpec /\ Fairness
-----------------------------------------------------------------------------
(* Type invariant.                                                         *)
RowTypeOK ==
  /\ kvb_mode \in {"off", "active", "pin"} /\ rows_whole_tiles \in BOOLEAN
  /\ per \in Pers
  /\ mpc \in {"next", "acquire", "vector", "vread", "bound", "tile", "apply", "fill",
              "kapply", "failed", "joining", "closed"}
  /\ layer \in RowLayers /\ small_used \in Nat /\ count \in 0 .. MaxMatrices
  /\ k \in Nat /\ tile \in Nat /\ slot \in Buffers
  /\ busy \in BOOLEAN /\ stop \in BOOLEAN /\ result \in {0, -1}
  /\ job.slot \in Buffers
  /\ rpc \in {"wait", "read", "gone"} /\ asleep \subseteq {"main", "reader"}
  /\ writing \in [Buffers -> SUBSET {"main", "reader"}]
  /\ read_error \in BOOLEAN

(* While a tile is applied nobody fills its buffer, and no buffer is ever  *)
(* filled by two threads: the reader by a job, the main thread by a vector *)
(* ("the reader writes only the spare buffer while the existing matmul     *)
(* consumes the other one").                                               *)
NoTileOverwritten ==
  /\ mpc = "apply" => writing[slot] = {}
  /\ \A b \in Buffers : writing[b] \in {{}, {"main"}, {"reader"}}

(* Between passes, while a layer is bound and when it is left, no read is  *)
(* outstanding: "a layer change and the 92 -> 0 seam have no outstanding   *)
(* reads or live matrix pointers to drain".  It is why a failed pass, the  *)
(* vector reads and the kv_b fill need no handshake of their own.          *)
NoReadOutstanding ==
  mpc \notin {"tile", "apply"} => ~busy /\ writing[0] \subseteq {"main"}
                                  /\ writing[1] = {}

(* The arena rows_open sized from the layers' plans holds the vectors of   *)
(* every layer: a bind can only fail because a read did.                   *)
ArenaHolds ==
  mpc = "acquire" /\ todo # <<>> /\ Head(todo).kind = "vector" => Fits(Head(todo))

(* Every pass delivers each selected row's own product to its own row of   *)
(* y, from whichever buffer, or fails for good (RowProduct).               *)
Passing == mpc \in {"tile", "apply", "fill", "kapply"}
Owed == IF Passing THEN {p \in Wanted(pass) : y[p[3]] # p} ELSE {}
Products == {q \in RowLayers \X Nat \X Nat :
               /\ q[2] \in DOMAIN Ts(q[1]) /\ IsMatrix(q[1], q[2])
               /\ q[3] < Out(q[1], q[2])}
Promise == INSTANCE RowProduct
             WITH owed <- Owed, active <- Passing, err <- read_error, Product <- Products
OwnRows == Promise!PSpec

(* Every bind and every pass that was begun returns, also when reads fail, *)
(* and rows_close joins the reader: no wake-up is lost between the two.    *)
CallReturns ==
  /\ (mpc \notin {"next", "bound", "failed", "closed"})
       ~> (mpc \in {"next", "bound", "failed", "closed"})
=============================================================================
