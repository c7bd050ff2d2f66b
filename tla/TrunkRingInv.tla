---------------------------- MODULE TrunkRingInv ----------------------------
(***************************************************************************)
(* Why the ring is safe when every layer of the trunk is bound and every   *)
(* token runs the same walk, plain or with a span repeated: the inductive  *)
(* invariant of TrunkRing under such walks.                                *)
(*                                                                         *)
(* A ring of two slots alternates, so `ring` is the older slot and         *)
(* 1 - ring the one claimed last.  Either at most two layers stream and    *)
(* all of them have come to rest in the ring (Settled), or the ring is     *)
(* Moving: what the two slots hold is then determined by the position of   *)
(* the walk, and the layer asked for next is one of them only where a span *)
(* is repeated of which at most two layers stream.                         *)
(***************************************************************************)
EXTENDS TrunkRing

FullWalk(w) == w.bound = NLayers /\ ~w.adaptive

Pending == busy \/ done
Older   == layer_of[ring]
Newer   == layer_of[1 - ring]
Final   == NLayers - 1
Many    == NLayers - npin >= 3

Binding == mpc \in {"bind", "waiting", "reading", "bound", "compute"}

(* The hand-off record, the reader and the two writers agree. *)
HandOff ==
  /\ ~Async => ~busy /\ ~done /\ rpc = "none"
  /\ Async => rpc # "none"
  /\ ~(busy /\ done)
  /\ Pending => layer_of[io_slot] = -1 /\ io_layer >= npin
  /\ rpc = "read" => busy /\ job = [layer |-> io_layer, slot |-> io_slot]
  /\ \A s \in Slots :
       /\ "reader" \in writing[s] <=> rpc = "read" /\ s = io_slot
       /\ "main" \in writing[s] <=> mpc = "reading" /\ s = cur
  /\ mpc = "reading" => ~Pending /\ L >= npin /\ cur \in Slots /\ layer_of[cur] = -1
  /\ mpc = "waiting" => Pending /\ L >= npin
  /\ stop => mpc \in {"joining", "closed"}

(* Bytes: a named slot, and a finished read, hold what they claim. *)
Bytes ==
  /\ \A s \in Slots : /\ content[s] # Torn
                      /\ layer_of[s] >= 0 => content[s] = layer_of[s]
                      /\ layer_of[s] >= 0 => layer_of[s] >= npin
  /\ done /\ io_ok => content[io_slot] = io_layer
  /\ mpc \in {"bound", "compute"} =>
       IF L < npin THEN cur = -1 ELSE cur \in Slots /\ layer_of[cur] = L

(* slot_of never names a slot that has lost the layer. *)
Index ==
  \A l \in Layers : l >= npin /\ slot_of[l] >= 0 =>
                      slot_of[l] \in Slots /\ layer_of[slot_of[l]] = l

Settled ==
  /\ ~Pending
  /\ mpc \notin {"reading", "waiting"}
  /\ \A l \in Layers : l >= npin => \E s \in Slots : layer_of[s] = l

(* The repeats of the span, and its first streamed layer.                  *)
AgainAt(v) == v > walk.b /\ v < AfterSpan(walk)
Again == AgainAt(pos)
From  == IF walk.a < npin THEN npin ELSE walk.a

(* The ring has room for all streamed layers of the span: then, or while a *)
(* pinned layer is served, a repeat leaves the ring as the span's last     *)
(* layer left it.  A longer span is streamed anew, from its first layer.   *)
Short   == From + 1 >= walk.b
Resting == Again /\ npin <= walk.b /\ (L < npin \/ Short)
Turned  == Again /\ ~Short /\ L = From

(* The two slots when no streamed layer of this forward has been claimed   *)
(* yet, when only the first one has, and once layer l has been read.       *)
AtStart == \/ Newer = -1 /\ Older = -1
           \/ Many /\ Newer = Final /\ Older = Final - 1
AfterFirst == Older = -1 \/ (Many /\ Older = Final)
Before(l)  == IF l > npin THEN Older = l - 1 ELSE AfterFirst
Behind(l)  == Newer = l /\ Before(l)

(* The same with the layer served in place, and on its way.                *)
Previous == IF Turned THEN Older = walk.b ELSE Before(L)
Held     == IF Resting THEN Behind(walk.b)
            ELSE IF L < npin THEN AtStart
            ELSE Newer = L /\ Previous

Moving ==
  /\ mpc \in {"bind", "waiting"} =>
       IF Pending
       THEN io_layer = L /\ io_slot = 1 - ring /\ ~Resting /\ Previous
       ELSE IF Resting THEN Behind(walk.b) ELSE AtStart /\ (L < npin \/ pos = 0)
  /\ mpc = "reading" => npin = 0 /\ pos = 0 /\ cur = 1 - ring /\ AfterFirst
  /\ mpc = "bound" => ~Pending /\ Held
  /\ mpc = "compute" =>
       IF Pending
       THEN /\ pos + 1 < NV(walk) /\ ~(Short /\ AgainAt(pos + 1))
            /\ io_layer = Hint /\ io_slot = 1 - ring
            /\ IF L >= npin THEN Older = L ELSE IF Resting THEN Older = walk.b ELSE AfterFirst
       ELSE Held /\ (pos + 1 < NV(walk) => Hint < npin \/ Hint \in {Older, Newer})

IInv ==
  /\ RTypeOK
  /\ FullWalk(walk)
  /\ HandOff
  /\ Bytes
  /\ Index
  /\ Async /\ Binding => Settled \/ Moving

(* The full walks among all the walks of an instance keep it. *)
FullInv == FullWalk(walk) => IInv

(* The runs that bind the whole stack and stop no token early. *)
FullSpec == RSpec /\ FullWalk(walk)
=============================================================================
