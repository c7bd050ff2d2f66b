------------------------------ MODULE TrunkRing -----------------------------
(***************************************************************************)
(* The layer ring of the streamed trunk (src/src/io/k3_trunk.c) under the  *)
(* forward pass that drives it (src/src/cli/k3_run.c, forward).            *)
(*                                                                         *)
(* Two threads share the ring.  The main thread walks the layers: it binds *)
(* the layer of the current position, hints the next one and computes.     *)
(* The reader thread serves at most one hinted read at a time.  The mutex  *)
(* io->mu protects the hand-off record only, so each critical section is   *)
(* one action; layer_of, slot_of and ring are touched by the main thread   *)
(* alone.  Reads into a slot take time: `writing` holds who is filling it, *)
(* and `content` whose bytes it holds once a read has run to its end       *)
(* undisturbed.                                                            *)
(***************************************************************************)
EXTENDS LayerWalk

VARIABLES
  walk, pos,                          \* the walk, and the position served
  npin, nslot,                        \* sizes chosen by k3_trunk_open
  mpc,                                \* control state of the main thread
  cur,                                \* ring slot bound, -1: a pinned layer
  layer_of, slot_of, ring,            \* K3Trunk: what is where, next victim
  busy, done, io_layer, io_slot, io_ok, stop,   \* K3TrunkIO
  rpc, job,                           \* reader thread, the (layer, slot) it took
  asleep,                             \* threads blocked on io->cv
  content, writing                    \* the bytes of each ring slot

sizes   == <<walk, npin, nslot>>
ringing == <<layer_of, slot_of, ring>>
handoff == <<busy, done, io_layer, io_slot, io_ok, stop>>
reader  == <<rpc, job>>
memory  == <<content, writing>>
rvars   == <<walk, pos, npin, nslot, mpc, cur, layer_of, slot_of, ring,
             busy, done, io_layer, io_slot, io_ok, stop, rpc, job, asleep,
             content, writing>>

Layers == 0 .. NLayers - 1
Slots  == 0 .. nslot - 1
Torn   == -2            \* two reads went into the slot at once

(* Slips the runs must notice (see PROJECT.json, mutants) are stated before *)
(* the definition they would replace.                                      *)
AsyncAlways == nslot >= 1
Async == nslot >= 2     \* the reader exists only with a second slot

L == LayerAt(walk, pos)

HintNextLayer == L + 1

(***************************************************************************)
(* The hint forward() hands to k3_trunk_prefetch after binding position    *)
(* pos: the next executed layer, and n_bound after the last one.           *)
(***************************************************************************)
Hint == IF pos + 1 < NV(walk) THEN LayerAt(walk, pos + 1) ELSE walk.bound
-----------------------------------------------------------------------------
TrunkOpen ==
  /\ npin \in 0 .. NLayers
  /\ nslot \in {1, 2}
  /\ layer_of = [s \in Slots |-> -1]
  /\ slot_of = [l \in Layers |-> -1]
  /\ ring = 0
  /\ busy = FALSE /\ done = FALSE /\ stop = FALSE
  /\ io_layer = 0 /\ io_slot = 0 /\ io_ok = TRUE
  /\ rpc = IF Async THEN "poll" ELSE "none"
  /\ job = [layer |-> 0, slot |-> 0]
  /\ asleep = {}
  /\ content = [s \in Slots |-> -1]
  /\ writing = [s \in Slots |-> {}]

RInit == /\ walk \in Walks
         /\ pos = 0
         /\ mpc = "bind"
         /\ cur = -1
         /\ TrunkOpen
-----------------------------------------------------------------------------
(* load_run: a read fills a slot between BeginRead and EndRead.            *)

BeginRead(t, s) ==
  /\ writing' = [writing EXCEPT ![s] = @ \cup {t}]
  /\ content' = [content EXCEPT ![s] = IF writing[s] = {} THEN -1 ELSE Torn]

EndRead(t, s, l, ok) ==
  /\ writing' = [writing EXCEPT ![s] = @ \ {t}]
  /\ content' = [content EXCEPT ![s] = IF @ = Torn \/ ~ok THEN @ ELSE l]

ClaimNoWrap ==
  /\ ring' = ring + 1
  /\ layer_of' = [layer_of EXCEPT ![ring] = -1]
  /\ slot_of' = IF layer_of[ring] >= 0
                THEN [slot_of EXCEPT ![layer_of[ring]] = -1]
                ELSE slot_of

ClaimStays ==
  /\ ring' = ring
  /\ layer_of' = [layer_of EXCEPT ![ring] = -1]
  /\ slot_of' = IF layer_of[ring] >= 0
                THEN [slot_of EXCEPT ![layer_of[ring]] = -1]
                ELSE slot_of

ClaimKeepsName ==
  /\ ring' = (ring + 1) % nslot
  /\ UNCHANGED <<layer_of, slot_of>>

(* Take tr->ring for a new layer: advance it, forget who was there.        *)
Claim ==
  /\ ring' = (ring + 1) % nslot
  /\ layer_of' = [layer_of EXCEPT ![ring] = -1]
  /\ slot_of' = IF layer_of[ring] >= 0
                THEN [slot_of EXCEPT ![layer_of[ring]] = -1]
                ELSE slot_of

(* io->cv: the main thread signals the reader, the reader wakes everyone.  *)
SignalLost == UNCHANGED asleep
Signal == asleep' = asleep \ {"reader"}

BroadcastLost == UNCHANGED asleep
Broadcast == asleep' = {}
-----------------------------------------------------------------------------
(* The main thread: k3_trunk_bind.                                         *)

BindPinned ==
  /\ mpc = "bind" /\ L < npin
  /\ \/ /\ slot_of' = [slot_of EXCEPT ![L] = L]     \* load once, keep forever
        /\ mpc' = "bound"
        /\ cur' = -1
     \/ /\ slot_of[L] < 0
        /\ mpc' = "failed"
        /\ UNCHANGED <<cur, slot_of>>
  /\ UNCHANGED <<sizes, pos, layer_of, ring, handoff, reader, asleep, memory>>

InFlightIfBusy == Async /\ busy /\ io_layer = L
InFlight == Async /\ (busy \/ done) /\ io_layer = L

Resident == {s \in Slots : layer_of[s] = L}

BindHit ==
  /\ mpc = "bind" /\ L >= npin /\ ~InFlight
  /\ Resident # {}
  /\ cur' \in {s \in Resident : \A t \in Resident : s <= t}
  /\ mpc' = "bound"
  /\ UNCHANGED <<sizes, pos, ringing, handoff, reader, asleep, memory>>

BindMiss ==
  /\ mpc = "bind" /\ L >= npin /\ ~InFlight
  /\ Resident = {}
  /\ cur' = ring
  /\ Claim
  /\ BeginRead("main", ring)
  /\ mpc' = "reading"
  /\ UNCHANGED <<sizes, pos, handoff, reader, asleep>>

ReadSync(ok) ==
  /\ mpc = "reading"
  /\ EndRead("main", cur, L, ok)
  /\ layer_of' = IF ok THEN [layer_of EXCEPT ![cur] = L] ELSE layer_of
  /\ mpc' = IF ok THEN "bound" ELSE "failed"
  /\ UNCHANGED <<sizes, pos, cur, slot_of, ring, handoff, reader, asleep>>

(* trunk_io_wait, with the read of this layer posted.                      *)
WaitTake ==
  /\ \/ mpc = "bind" /\ L >= npin /\ InFlight
     \/ mpc = "waiting" /\ "main" \notin asleep
  /\ done
  /\ done' = FALSE
  /\ IF io_ok
     THEN /\ layer_of' = [layer_of EXCEPT ![io_slot] = L]
          /\ slot_of' = [slot_of EXCEPT ![L] = io_slot]
          /\ cur' = io_slot
          /\ mpc' = "bound"
     ELSE /\ mpc' = "failed"
          /\ UNCHANGED <<layer_of, slot_of, cur>>
  /\ UNCHANGED <<sizes, pos, ring, busy, io_layer, io_slot, io_ok, stop,
                 reader, asleep, memory>>

WaitSleep ==
  /\ \/ mpc = "bind" /\ L >= npin /\ InFlight
     \/ mpc = "waiting" /\ "main" \notin asleep
  /\ ~done
  /\ mpc' = "waiting"
  /\ asleep' = asleep \cup {"main"}
  /\ UNCHANGED <<sizes, pos, cur, ringing, handoff, reader, memory>>

(* k3_trunk_prefetch of the hint, after the bind has returned.             *)
Wanted == /\ Hint < NLayers /\ Hint >= npin
          /\ \A s \in Slots : layer_of[s] # Hint
          /\ Async
          /\ ~busy
          /\ slot_of[Hint] < 0

PrefetchIgnored ==
  /\ mpc = "bound"
  /\ ~Wanted
  /\ mpc' = "compute"
  /\ UNCHANGED <<sizes, pos, cur, ringing, handoff, reader, asleep, memory>>

Prefetch ==
  /\ mpc = "bound"
  /\ Wanted
  /\ Claim
  /\ io_layer' = Hint
  /\ io_slot' = ring
  /\ done' = FALSE
  /\ busy' = TRUE
  /\ Signal
  /\ mpc' = "compute"
  /\ UNCHANGED <<sizes, pos, cur, io_ok, stop, reader, memory>>

(* The layer's arithmetic, then the step to the next executed position.    *)
(* It fails when the run lacks a tensor (before the hint is given) or when *)
(* an expert cannot be read (after it).                                    *)
ComputeLayer ==
  /\ \/ /\ mpc = "compute"
        /\ mpc' = "bind"
        /\ pos' \in Following(walk, pos)
        /\ cur' = -1
     \/ /\ mpc \in {"bound", "compute"}
        /\ mpc' = "failed"
        /\ UNCHANGED <<pos, cur>>
  /\ UNCHANGED <<sizes, ringing, handoff, reader, asleep, memory>>

(* k3_trunk_close, between two forward passes or after a failed one.       *)
CloseBegin ==
  /\ \/ mpc = "failed"
     \/ mpc = "bind" /\ pos = 0
  /\ mpc' = "joining"
  /\ stop' = TRUE
  /\ Signal
  /\ UNCHANGED <<sizes, pos, cur, ringing, busy, done, io_layer, io_slot, io_ok,
                 reader, memory>>

CloseEnd ==
  /\ mpc = "joining"
  /\ rpc \in {"none", "exited"}
  /\ mpc' = "closed"
  /\ UNCHANGED <<sizes, pos, cur, ringing, handoff, reader, asleep, memory>>
-----------------------------------------------------------------------------
(* The reader thread: trunk_io_main.                                       *)

ReaderPoll ==
  /\ rpc = "poll" /\ "reader" \notin asleep
  /\ \/ /\ stop
        /\ rpc' = "exited"
        /\ UNCHANGED <<job, asleep, memory>>
     \/ /\ ~stop /\ busy
        /\ rpc' = "read"
        /\ job' = [layer |-> io_layer, slot |-> io_slot]
        /\ BeginRead("reader", io_slot)
        /\ UNCHANGED asleep
     \/ /\ ~stop /\ ~busy
        /\ asleep' = asleep \cup {"reader"}
        /\ UNCHANGED <<reader, memory>>
  /\ UNCHANGED <<sizes, pos, mpc, cur, ringing, handoff>>

ReaderPost(ok) ==
  /\ rpc = "read"
  /\ EndRead("reader", job.slot, job.layer, ok)
  /\ io_ok' = ok
  /\ done' = TRUE
  /\ busy' = FALSE
  /\ Broadcast
  /\ rpc' = "poll"
  /\ UNCHANGED <<sizes, pos, mpc, cur, ringing, io_layer, io_slot, stop, job>>

(* pthread_cond_wait may return without a signal.                          *)
SpuriousWakeup(t) ==
  /\ t \in asleep
  /\ asleep' = asleep \ {t}
  /\ UNCHANGED <<sizes, pos, mpc, cur, ringing, handoff, reader, memory>>

Terminated == mpc = "closed" /\ UNCHANGED rvars
-----------------------------------------------------------------------------
MainStep == \/ BindPinned \/ BindHit \/ BindMiss \/ WaitTake \/ WaitSleep
            \/ PrefetchIgnored \/ Prefetch \/ ComputeLayer \/ CloseEnd
            \/ \E ok \in BOOLEAN : ReadSync(ok)

ReaderStep == ReaderPoll \/ \E ok \in BOOLEAN : ReaderPost(ok)

RNext == \/ MainStep \/ ReaderStep \/ CloseBegin
         \/ \E t \in {"main", "reader"} : SpuriousWakeup(t)
         \/ Terminated

RSpec == RInit /\ [][RNext]_rvars

(***************************************************************************)
(* Both threads are running threads of one process, so each is weakly      *)
(* fair.  Spurious wakeups and the decision to stop are not.               *)
(***************************************************************************)
FairSpec == RSpec /\ WF_rvars(MainStep) /\ WF_rvars(ReaderStep)
-----------------------------------------------------------------------------
(***************************************************************************)
(* Types.                                                                  *)
(***************************************************************************)
RTypeOK ==
  /\ walk \in Walks /\ pos \in 0 .. NV(walk) - 1
  /\ npin \in 0 .. NLayers /\ nslot \in {1, 2}
  /\ mpc \in {"bind", "waiting", "reading", "bound", "compute", "failed",
              "joining", "closed"}
  /\ cur \in Slots \cup {-1}
  /\ layer_of \in [Slots -> Layers \cup {-1}]
  /\ slot_of \in [Layers -> Int]
  /\ ring \in Slots
  /\ busy \in BOOLEAN /\ done \in BOOLEAN /\ stop \in BOOLEAN /\ io_ok \in BOOLEAN
  /\ io_layer \in Layers /\ io_slot \in Slots
  /\ rpc \in {"none", "poll", "read", "exited"}
  /\ job \in [layer : Layers, slot : Slots]
  /\ asleep \in SUBSET {"main", "reader"}
  /\ content \in [Slots -> Layers \cup {-1, Torn}]
  /\ writing \in [Slots -> SUBSET {"main", "reader"}]

(***************************************************************************)
(* Safety.                                                                 *)
(***************************************************************************)
InUse(s) == mpc \in {"bound", "compute"} /\ cur = s

(* No slot is filled by both threads at once, and none is filled while     *)
(* the layer in it is being computed on: the "correctness requirement"     *)
(* k3_trunk_open states where it decides whether to start the reader.      *)
NoOverwrite ==
  \A s \in Slots : /\ writing[s] # {"main", "reader"}
                   /\ InUse(s) => writing[s] = {}

(* A ring slot that carries a layer's name holds exactly that layer's      *)
(* bytes ("never publishes a layer name before its read succeeds").        *)
NamedSlotsHold ==
  \A s \in Slots : layer_of[s] >= 0 => content[s] = layer_of[s] /\ writing[s] = {}

(* From the hint until the layer is bound, the read the reader thread was  *)
(* given is the one the main thread will ask for next: "the hint is never  *)
(* wrong" (forward).  Wrap: after the last position no hint is given.      *)
HintNeverWrong ==
  (busy \/ done) /\ mpc \in {"bind", "waiting", "reading", "bound", "compute"} =>
    io_layer = IF mpc \in {"bind", "waiting"} THEN L ELSE Hint

(* With the reader running, the main thread reads a streamed layer itself  *)
(* only at the start of a forward pass: every other read was handed over   *)
(* one layer earlier, so the overlap the second slot pays for is complete. *)
EveryOtherReadOverlaps == mpc = "reading" /\ Async => pos = 0
-----------------------------------------------------------------------------
(***************************************************************************)
(* The ring keeps the promise of LayerBinding: while a layer is computed   *)
(* on, the weight pointers reach that layer's bytes.                       *)
(***************************************************************************)
BytesBound == IF mpc \notin {"bound", "compute"} THEN -1
              ELSE IF cur = -1 THEN L ELSE content[cur]

PhaseOf == CASE mpc \in {"bind", "waiting", "reading"} -> "bind"
             [] mpc \in {"bound", "compute"} -> "compute"
             [] mpc = "failed" -> "failed"
             [] OTHER -> "closed"

Promise == INSTANCE LayerBinding WITH phase <- PhaseOf, bytes <- BytesBound

BindsTheLayer == Promise!Spec

(***************************************************************************)
(* Liveness.                                                               *)
(***************************************************************************)
(* A bind ends: no wakeup between the two threads is ever lost.            *)
BindReturns == mpc \in {"bind", "waiting", "reading"} ~>
                 mpc \in {"compute", "failed", "joining"}

(* The join in k3_trunk_close ends, whatever the reader was doing.         *)
CloseReturns == mpc = "joining" ~> mpc = "closed"
=============================================================================
