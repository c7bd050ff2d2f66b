----------------------------- MODULE ExpertCache ----------------------------
(***************************************************************************)
(* The streaming expert cache (src/src/cache/k3_cache.c) under the MoE     *)
(* that drives it (k3_moe and moe_prefill_routed, src/src/core/k3_ops.c).  *)
(*                                                                         *)
(* The MoE hands over a list of experts (getmany), then asks for them one  *)
(* by one (get) and multiplies each before it asks for the next.  The      *)
(* reads of a batch are made in parallel: by the OpenMP loop of the serial *)
(* path, which waits for all of them, or by the worker threads of the      *)
(* pipelined path, which publish each expert as it lands while the MoE is  *)
(* already asking.  Workers are alike, so only how many of them are        *)
(* between two reads is kept; a worker that reads is known by its entry of *)
(* the batch.  p->mu guards every step below that two threads could take.  *)
(*                                                                         *)
(* used_at keeps the order of the code's stamps, not their values: the     *)
(* slot stamped last has rank NSlots.                                      *)
(***************************************************************************)
EXTENDS Integers, Sequences, FiniteSets

CONSTANTS Keys,        \* (layer, expert) pairs, the code's layer * n_experts + expert
          NSlots,      \* slots the budget pays for
          TopK,        \* experts a token is routed to
          BatchCap,    \* K3_MAX_TOPK: entries one batch can hold
          MaxTh,       \* ceiling of the worker pool
          Lists        \* lists of experts the MoE may hand over

VARIABLES
  pipeline, batching, missing, hot,      \* the run: mode, K3_NOPREFETCH unset,
                                         \* unusable experts, profile pins
  slot_of, key_of, used_at, pinned,      \* K3Cache
  work, cursor, idle,                    \* the batch, and the workers between reads
  mpc, ids, at, held, dropped, asleep,   \* the calling thread
  content, writing                       \* the bytes of each slot

config == <<pipeline, batching, missing, hot>>
index  == <<slot_of, key_of, used_at>>
pool   == <<work, cursor, idle>>
caller == <<ids, at, held, dropped, asleep>>
memory == <<content, writing>>
cvars  == <<pipeline, batching, missing, hot, slot_of, key_of, used_at, pinned,
            work, cursor, idle, mpc, ids, at, held, dropped, asleep,
            content, writing>>

Slots    == 0 .. NSlots - 1
EMPTY    == "EMPTY"        \* K3_SLOT_EMPTY

(* Slips the runs must notice (see PROJECT.json, mutants) are stated before *)
(* the definition they would replace.                                      *)
NoThirdState == EMPTY
INFLIGHT == "INFLIGHT"     \* K3_SLOT_INFLIGHT

Nothing  == "nothing"      \* no expert's bytes
Torn     == "torn"         \* two reads went into the slot at once
Sentinels == {EMPTY, INFLIGHT, Nothing, Torn}

K == ids[at]
Entries == 1 .. Len(work)

(* k3_cache_init refuses a cache that cannot hold one token's experts and  *)
(* one more.                                                               *)
ASSUME CacheAssumption ==
  /\ NSlots \in Nat /\ TopK \in Nat \ {0} /\ BatchCap \in Nat /\ MaxTh \in Nat \ {0}
  /\ TopK <= BatchCap
  /\ NSlots >= TopK + 1
  /\ Keys \cap Sentinels = {}
  /\ IsFiniteSet(Keys)
  /\ Lists \subseteq Seq(Keys) \ {<<>>}
-----------------------------------------------------------------------------
PinnableAllButOne == NSlots - 1
Pinnable == NSlots - TopK - 1      \* slots that may be pinned

(* k3_cache_load_profile works on an unused cache only: its pins are part  *)
(* of how a run begins.                                                    *)
CInit ==
  /\ pipeline \in BOOLEAN /\ batching \in BOOLEAN
  /\ missing \in SUBSET Keys
  /\ hot \in {h \in SUBSET Keys : Cardinality(h) <= Pinnable}
  /\ slot_of = [k \in Keys |-> -1]
  /\ key_of = [s \in Slots |-> EMPTY]
  /\ used_at = [s \in Slots |-> 0]
  /\ pinned = {}
  /\ work = <<>> /\ cursor = 1 /\ idle = 0
  /\ mpc = "rest" /\ ids = <<>> /\ at = 1 /\ held = -1
  /\ dropped = FALSE /\ asleep = FALSE
  /\ content = [s \in Slots |-> Nothing]
  /\ writing = [s \in Slots |-> {}]
-----------------------------------------------------------------------------
(* Slots.                                                                  *)

Touch(s) ==
  used_at' = [t \in Slots |->
                IF t = s THEN NSlots
                ELSE IF used_at[t] > used_at[s] THEN used_at[t] - 1
                ELSE used_at[t]]

Free == {s \in Slots : key_of[s] = EMPTY}

EvictableEvenSpared(spared) ==
  {s \in Slots : /\ key_of[s] \notin {EMPTY, INFLIGHT}
                 /\ s \notin pinned
                 /\ key_of[s] \notin hot}

EvictableEvenHot(spared) ==
  {s \in Slots : /\ key_of[s] \notin {EMPTY, INFLIGHT}
                 /\ s \notin pinned
                 /\ key_of[s] \notin spared}

Evictable(spared) ==
  {s \in Slots : /\ key_of[s] \notin {EMPTY, INFLIGHT}
                 /\ s \notin pinned
                 /\ key_of[s] \notin hot \cup spared}

(* pick_victim: the first free slot, else the least recently used one that *)
(* may be evicted; none when the set is empty.                             *)
Victim(spared) ==
  IF Free # {} THEN {s \in Free : \A t \in Free : s <= t}
  ELSE {s \in Evictable(spared) :
          \A t \in Evictable(spared) :
            used_at[s] < used_at[t] \/ (used_at[s] = used_at[t] /\ s <= t)}

EvictedStaysIndexed(s) == slot_of

(* slot_of once whatever slot s holds has lost it.                         *)
Evicted(s) == IF key_of[s] \in Keys THEN [slot_of EXCEPT ![key_of[s]] = -1]
              ELSE slot_of

(* A read fills a slot from BeginRead to EndRead; only one that nobody     *)
(* disturbed leaves the expert's bytes.                                    *)
BeginRead(r, s) ==
  /\ writing' = [writing EXCEPT ![s] = @ \cup {r}]
  /\ content' = [content EXCEPT ![s] = IF writing[s] = {} THEN Nothing ELSE Torn]

EndRead(r, s, k, ok) ==
  /\ writing' = [writing EXCEPT ![s] = @ \ {r}]
  /\ content' = [content EXCEPT ![s] = IF @ = Torn \/ ~ok THEN @ ELSE k]

FinishAnyway(s, k, ok) ==
  /\ key_of' = [key_of EXCEPT ![s] = k]
  /\ slot_of' = [slot_of EXCEPT ![k] = s]
  /\ Touch(s)

FinishLosesSlot(s, k, ok) ==
  IF ok THEN /\ key_of' = [key_of EXCEPT ![s] = k]
             /\ slot_of' = [slot_of EXCEPT ![k] = s]
             /\ Touch(s)
        ELSE UNCHANGED index

(* Only a read that succeeded registers its slot; a short one frees it.    *)
Finish(s, k, ok) ==
  IF ok THEN /\ key_of' = [key_of EXCEPT ![s] = k]
             /\ slot_of' = [slot_of EXCEPT ![k] = s]
             /\ Touch(s)
        ELSE /\ key_of' = [key_of EXCEPT ![s] = EMPTY]
             /\ UNCHANGED <<slot_of, used_at>>
-----------------------------------------------------------------------------
(* drain: the workers are joined, the batch is forgotten.                  *)

Reading == {i \in Entries : work[i].state = "reading"}
Open    == {i \in Entries : work[i].state # "over"}
Pending == {i \in Entries : work[i].state \in {"pending", "reading"}}

Joined == idle = 0 /\ Reading = {}

Drained == Joined /\ work' = <<>> /\ cursor' = 1 /\ idle' = 0

(* k3_moe / moe_prefill_routed: hand the list to getmany, if there is one. *)
Begin ==
  /\ mpc = "rest" /\ ~dropped
  /\ ids' \in Lists
  /\ at' = 1
  /\ mpc' = IF batching THEN "drain" ELSE "get"
  /\ UNCHANGED <<config, index, pinned, pool, held, dropped, asleep, memory>>

Drain ==
  /\ mpc = "drain"
  /\ Drained
  /\ mpc' = "reserve"
  /\ UNCHANGED <<config, index, pinned, caller, memory>>

-----------------------------------------------------------------------------
(* cache_getmany, phase 1: reserve a slot for every expert of the list     *)
(* that has none, serially, never taking one from the list itself.         *)

Requested == {ids[i] : i \in DOMAIN ids}

Settled(k) == \/ slot_of[k] >= 0                       \* resident
              \/ \E i \in Entries : work[i].key = k    \* named twice
              \/ k \in missing                         \* no usable tensors

MoreThanFits  == at <= Len(ids)
MoreToReserve == at <= Len(ids) /\ Len(work) < BatchCap

ReserveSkip ==
  /\ mpc = "reserve" /\ MoreToReserve /\ Settled(K)
  /\ at' = at + 1
  /\ UNCHANGED <<config, index, pinned, pool, mpc, ids, held, dropped, asleep,
                 memory>>

ReserveSlot ==
  /\ mpc = "reserve" /\ MoreToReserve /\ ~Settled(K)
  /\ \E s \in Victim(Requested) :
       /\ slot_of' = Evicted(s)
       /\ key_of' = [key_of EXCEPT ![s] = INFLIGHT]
       /\ Touch(s)
       /\ work' = Append(work, [slot |-> s, key |-> K, state |-> "pending"])
  /\ at' = at + 1
  /\ UNCHANGED <<config, pinned, cursor, idle, mpc, ids, held, dropped, asleep,
                 memory>>

Reserved ==
  /\ mpc = "reserve"
  /\ MoreToReserve => ~Settled(K) /\ Victim(Requested) = {}

-----------------------------------------------------------------------------
(* cache_getmany, phases 2 and 3.                                          *)

Smaller(m, n) == IF m < n THEN m ELSE n

LaunchNothing ==
  /\ Reserved /\ work = <<>>
  /\ mpc' = "get" /\ at' = 1
  /\ UNCHANGED <<config, index, pinned, pool, ids, held, dropped, asleep, memory>>

(* pipe_launch: pthread_create may refuse some of the workers, or all.     *)
LaunchPool ==
  /\ Reserved /\ work # <<>> /\ pipeline
  /\ idle' \in 1 .. Smaller(Len(work), MaxTh)
  /\ mpc' = "get" /\ at' = 1
  /\ UNCHANGED <<config, index, pinned, work, cursor, ids, held, dropped, asleep,
                 memory>>

LaunchAlone ==
  /\ Reserved /\ work # <<>> /\ pipeline
  /\ mpc' = "alone"
  /\ UNCHANGED <<config, index, pinned, pool, caller, memory>>

RunAlone(ok) ==
  /\ mpc = "alone" /\ cursor <= Len(work)
  /\ LET e == work[cursor]
     IN /\ content' = [content EXCEPT ![e.slot] = IF ok THEN e.key ELSE Nothing]
        /\ Finish(e.slot, e.key, ok)
        /\ work' = [work EXCEPT ![cursor].state = "over"]
  /\ cursor' = cursor + 1
  /\ UNCHANGED <<config, pinned, idle, mpc, caller, writing>>

AloneEnds ==
  /\ mpc = "alone" /\ cursor > Len(work)
  /\ work' = <<>> /\ cursor' = 1
  /\ mpc' = "get" /\ at' = 1
  /\ UNCHANGED <<config, index, pinned, idle, ids, held, dropped, asleep, memory>>

(* The serial path: every read runs at once, and the caller waits.         *)
LaunchSerial ==
  /\ Reserved /\ work # <<>> /\ ~pipeline
  /\ mpc' = "batch"
  /\ work' = [i \in Entries |-> [work[i] EXCEPT !.state = "reading"]]
  /\ writing' = [s \in Slots |-> {i \in Entries : work[i].slot = s}]
  /\ content' = [s \in Slots |->
                   IF writing'[s] = {} THEN content[s]
                   ELSE IF \E i \in Entries : writing'[s] = {i} THEN Nothing
                   ELSE Torn]
  /\ UNCHANGED <<config, index, pinned, cursor, idle, caller>>

BatchRead(i, ok) ==
  /\ mpc = "batch" /\ i \in Reading
  /\ EndRead(i, work[i].slot, work[i].key, ok)
  /\ work' = [work EXCEPT ![i].state = IF ok THEN "got" ELSE "short"]
  /\ UNCHANGED <<config, index, pinned, cursor, idle, mpc, caller>>

(* In the order of the disk offsets, which may be any order of the list.   *)
BatchPublish(i) ==
  /\ mpc = "batch" /\ Reading = {}
  /\ work[i].state \in {"got", "short"}
  /\ Finish(work[i].slot, work[i].key, work[i].state = "got")
  /\ work' = [work EXCEPT ![i].state = "over"]
  /\ UNCHANGED <<config, pinned, cursor, idle, mpc, caller, memory>>

BatchEnds ==
  /\ mpc = "batch"
  /\ \A i \in Entries : work[i].state = "over"
  /\ work' = <<>>
  /\ mpc' = "get" /\ at' = 1
  /\ UNCHANGED <<config, index, pinned, cursor, idle, ids, held, dropped, asleep,
                 memory>>

-----------------------------------------------------------------------------
(* The workers: pipe_worker, pipe_run_one, pipe_finish.                    *)

WorkerTake ==
  /\ idle > 0 /\ cursor <= Len(work)
  /\ work' = [work EXCEPT ![cursor].state = "reading"]
  /\ BeginRead(cursor, work[cursor].slot)
  /\ cursor' = cursor + 1
  /\ idle' = idle - 1
  /\ UNCHANGED <<config, index, pinned, mpc, caller>>

BroadcastLost == UNCHANGED asleep
Broadcast == asleep' = FALSE            \* pthread_cond_broadcast

WorkerPost(i, ok) ==
  /\ pipeline /\ i \in Reading
  /\ EndRead(i, work[i].slot, work[i].key, ok)
  /\ Finish(work[i].slot, work[i].key, ok)
  /\ work' = [work EXCEPT ![i].state = "over"]
  /\ idle' = idle + 1
  /\ Broadcast
  /\ UNCHANGED <<config, pinned, cursor, mpc, ids, at, held, dropped>>

WorkerSpins == idle > 0 /\ cursor > Len(work) /\ UNCHANGED cvars
WorkerExit ==
  /\ idle > 0 /\ cursor > Len(work)
  /\ idle' = idle - 1
  /\ UNCHANGED <<config, index, pinned, work, cursor, mpc, caller, memory>>

-----------------------------------------------------------------------------
(* cache_get: admit, or admit_pipelined and admit_sync_locked.             *)

Asking == mpc = "get" \/ (mpc = "waiting" /\ ~asleep)

InBatchNever(k) == FALSE
InBatch(k) == pipeline /\ \E i \in Pending : work[i].key = k

GetHit ==
  /\ Asking /\ slot_of[K] >= 0
  /\ Touch(slot_of[K])
  /\ held' = slot_of[K]
  /\ mpc' = "fill"
  /\ UNCHANGED <<config, slot_of, key_of, pinned, pool, ids, at, dropped, asleep,
                 memory>>

GetWait ==
  /\ Asking /\ slot_of[K] < 0 /\ InBatch(K)
  /\ mpc' = "waiting" /\ asleep' = TRUE
  /\ UNCHANGED <<config, index, pinned, pool, ids, at, held, dropped, memory>>

SpuriousWakeup ==
  /\ asleep /\ asleep' = FALSE
  /\ UNCHANGED <<config, index, pinned, pool, mpc, ids, at, held, dropped, memory>>

GetMiss ==
  /\ Asking /\ slot_of[K] < 0 /\ ~InBatch(K)
  /\ mpc' = "miss"
  /\ UNCHANGED <<config, index, pinned, pool, caller, memory>>

(* The serial path leaves the old key in key_of while it reads; nobody     *)
(* looks before the read is over.                                          *)
MissClaim ==
  /\ mpc = "miss" /\ K \notin missing
  /\ \E s \in Victim({}) :
       /\ held' = s
       /\ slot_of' = Evicted(s)
       /\ BeginRead(0, s)
       /\ IF pipeline THEN key_of' = [key_of EXCEPT ![s] = INFLIGHT] /\ Touch(s)
          ELSE UNCHANGED <<key_of, used_at>>
  /\ mpc' = "sync"
  /\ UNCHANGED <<config, pinned, pool, ids, at, dropped, asleep>>

MissRead(ok) ==
  /\ mpc = "sync"
  /\ EndRead(0, held, K, ok)
  /\ Finish(held, K, ok)
  /\ mpc' = IF ok THEN "fill" ELSE "refused"
  /\ UNCHANGED <<config, pinned, pool, caller>>

MissFails ==
  /\ mpc = "miss"
  /\ K \in missing \/ Victim({}) = {}
  /\ mpc' = "refused"
  /\ UNCHANGED <<config, index, pinned, pool, caller, memory>>

Fill ==
  /\ mpc = "fill"
  /\ mpc' = "use"
  /\ UNCHANGED <<config, index, pinned, pool, caller, memory>>

(* The MoE multiplies, or counts a dropped expert, and goes on.            *)
NextExpert ==
  /\ mpc \in {"use", "refused"}
  /\ dropped' = (dropped \/ mpc = "refused")
  /\ held' = -1
  /\ IF at < Len(ids) THEN at' = at + 1 /\ mpc' = "get" /\ ids' = ids
     ELSE at' = 1 /\ mpc' = "rest" /\ ids' = <<>>
  /\ UNCHANGED <<config, index, pinned, pool, asleep, memory>>
-----------------------------------------------------------------------------
(* The rest of the interface.  Every entry point but resident drains.      *)

(* resident(), for the draft's cache-only routing: no read, no stamp.      *)
DraftUse ==
  /\ mpc = "rest" /\ ~dropped
  /\ \E k \in Keys : /\ slot_of[k] >= 0
                     /\ ids' = <<k>>
                     /\ held' = slot_of[k]
  /\ at' = 1
  /\ mpc' = "fill"
  /\ UNCHANGED <<config, index, pinned, pool, dropped, asleep, memory>>

(* k3_cache_pin counts profile pins whether or not they are resident.      *)
ManualPins == {s \in pinned : key_of[s] \in Keys \ hot}

PinsUnlimited == TRUE
PinsLeft == Cardinality(hot) + Cardinality(ManualPins) < Pinnable

Pin(k) ==
  /\ mpc = "rest" /\ Drained
  /\ slot_of[k] >= 0
  /\ slot_of[k] \in pinned \/ k \in hot \/ PinsLeft
  /\ pinned' = pinned \cup {slot_of[k]}
  /\ UNCHANGED <<config, index, mpc, caller, memory>>

Unpin(k) ==
  /\ mpc = "rest" /\ Drained
  /\ slot_of[k] >= 0
  /\ pinned' = pinned \ {slot_of[k]}
  /\ UNCHANGED <<config, index, mpc, caller, memory>>

PrefetchHit(k) ==
  /\ mpc = "rest" /\ Drained
  /\ slot_of[k] >= 0
  /\ Touch(slot_of[k])
  /\ UNCHANGED <<config, slot_of, key_of, pinned, mpc, caller, memory>>

PrefetchMiss(k, ok) ==
  /\ mpc = "rest" /\ Drained
  /\ slot_of[k] < 0 /\ k \notin missing
  /\ \E s \in Victim({}) :
       /\ content' = [content EXCEPT ![s] = IF ok THEN k ELSE Nothing]
       /\ IF ok THEN /\ slot_of' = [Evicted(s) EXCEPT ![k] = s]
                     /\ key_of' = [key_of EXCEPT ![s] = k]
                     /\ Touch(s)
                ELSE /\ slot_of' = Evicted(s)
                     /\ key_of' = [key_of EXCEPT ![s] = EMPTY]
                     /\ UNCHANGED used_at
  /\ UNCHANGED <<config, pinned, mpc, caller, writing>>

(* reset_stats, report and the dumps change the cache by draining it.      *)
Settle ==
  /\ mpc = "rest" /\ Drained
  /\ UNCHANGED <<config, index, pinned, mpc, caller, memory>>

FreeBegin ==
  /\ mpc = "rest"
  /\ mpc' = "freeing"
  /\ UNCHANGED <<config, index, pinned, pool, caller, memory>>

FreeEnd ==
  /\ mpc = "freeing" /\ Drained
  /\ mpc' = "closed"
  /\ UNCHANGED <<config, index, pinned, caller, memory>>

Freed == mpc = "closed" /\ UNCHANGED cvars
-----------------------------------------------------------------------------
CallerStep ==
  \/ Drain \/ ReserveSkip \/ ReserveSlot
  \/ LaunchNothing \/ LaunchPool \/ LaunchAlone \/ LaunchSerial
  \/ AloneEnds \/ BatchEnds
  \/ GetHit \/ GetWait \/ GetMiss \/ MissClaim \/ MissFails \/ Fill \/ NextExpert
  \/ FreeEnd
  \/ \E ok \in BOOLEAN : RunAlone(ok) \/ MissRead(ok)

ReaderStep ==
  \/ WorkerTake \/ WorkerExit
  \/ \E i \in Entries :
       \/ BatchPublish(i)
       \/ \E ok \in BOOLEAN : BatchRead(i, ok) \/ WorkerPost(i, ok)

Choice ==
  \/ Begin \/ DraftUse \/ Settle \/ FreeBegin \/ SpuriousWakeup
  \/ \E k \in Keys : \/ Pin(k) \/ Unpin(k) \/ PrefetchHit(k)
                     \/ \E ok \in BOOLEAN : PrefetchMiss(k, ok)

CNext == CallerStep \/ ReaderStep \/ Choice \/ Freed

CSpec == CInit /\ [][CNext]_cvars

(***************************************************************************)
(* The caller and the reader threads run; what the caller asks for next,   *)
(* and spurious wakeups, are free.                                         *)
(***************************************************************************)
FairCSpec == CSpec /\ WF_cvars(CallerStep) /\ WF_cvars(ReaderStep)
-----------------------------------------------------------------------------
(***************************************************************************)
(* Types.                                                                  *)
(***************************************************************************)
Work == [slot : Slots, key : Keys,
         state : {"pending", "reading", "got", "short", "over"}]

CTypeOK ==
  /\ pipeline \in BOOLEAN /\ batching \in BOOLEAN
  /\ missing \in SUBSET Keys /\ hot \in SUBSET Keys
  /\ slot_of \in [Keys -> Slots \cup {-1}]
  /\ key_of \in [Slots -> Keys \cup {EMPTY, INFLIGHT}]
  /\ used_at \in [Slots -> 0 .. NSlots]
  /\ pinned \in SUBSET Slots
  /\ work \in Seq(Work) /\ Len(work) <= BatchCap
  /\ cursor \in 1 .. Len(work) + 1
  /\ idle \in Nat
  /\ mpc \in {"rest", "drain", "reserve", "alone", "batch", "get", "waiting",
              "miss", "sync", "fill", "use", "refused", "freeing", "closed"}
  /\ ids \in Seq(Keys) /\ at \in 1 .. Len(ids) + 1
  /\ held \in Slots \cup {-1}
  /\ dropped \in BOOLEAN /\ asleep \in BOOLEAN
  /\ content \in [Slots -> Keys \cup {Nothing, Torn}]
  /\ writing \in [Slots -> SUBSET (0 .. BatchCap)]

(***************************************************************************)
(* Safety.                                                                 *)
(***************************************************************************)
(* No two reads ever fill one slot: the defect key_of's third state was    *)
(* introduced for ("the next expert in the same batch was handed the SAME  *)
(* slot, several parallel reads wrote into one buffer").                   *)
OneReaderPerSlot == \A s \in Slots : \A r, q \in writing[s] : r = q

(* An expert that counts as resident has its own bytes in its slot, and no *)
(* read is filling that slot.                                              *)
ResidentHolds ==
  \A k \in Keys : slot_of[k] >= 0 =>
    /\ key_of[slot_of[k]] = k
    /\ content[slot_of[k]] = k
    /\ writing[slot_of[k]] = {}

(* A slot is in flight only for as long as somebody will finish it: no     *)
(* read that fails, and no batch that ends, leaves one behind that neither *)
(* get nor eviction could ever use again.                                  *)
NoSlotLost ==
  \A s \in Slots : key_of[s] = INFLIGHT =>
    \/ \E i \in Open : work[i].slot = s
    \/ mpc = "sync" /\ held = s

(* An expert of the batch that has not landed is waited for, never read a  *)
(* second time into a second slot (admit_pipelined).                       *)
OneReadPerExpert ==
  /\ \A i, j \in Reading : work[i].key = work[j].key => i = j
  /\ mpc = "sync" => \A i \in Pending : work[i].key # K

(* Capacity: topk + 1 slots always stay evictable, so a get never finds    *)
(* every slot pinned, whatever was pinned and whatever is in flight.       *)
AlwaysAVictim == mpc = "miss" /\ K \notin missing => Victim({}) # {}

(* "get() must leave the returned pointers valid until the caller finishes *)
(* the token" (K3ExpertSrc), and what getmany gathered for a token is still *)
(* there when get asks for it: no read evicts either while the list of at  *)
(* most topk experts is worked through.  This is why k3_cache_init refuses *)
(* fewer than topk + 1 slots.                                              *)
Gathered == {work[i].key : i \in Pending} \cup {k \in Keys : slot_of[k] >= 0}

OnTheList ==
  mpc \in {"get", "waiting", "miss", "sync", "fill", "use", "refused"}

TokenStays ==
  [][OnTheList /\ Len(ids) <= TopK =>
       \A i \in DOMAIN ids :
         slot_of[ids[i]] >= 0 /\ (batching \/ i < at \/ (mpc \in {"fill", "use"} /\ i = at))
           => slot_of'[ids[i]] = slot_of[ids[i]]]_cvars

(* A batch no longer than topk is reserved in full: only an expert whose   *)
(* tensors are unusable is left for get to stumble on.                     *)
TokenReserved ==
  [][Reserved /\ mpc' # "reserve" /\ Len(ids) <= TopK =>
       Requested \subseteq Gathered \cup missing]_cvars

(* What is pinned, by hand or by the profile, is never evicted.            *)
PinsHold ==
  [][\A k \in Keys : slot_of[k] >= 0 /\ (k \in hot \/ slot_of[k] \in pinned)
                     => slot_of'[k] = slot_of[k]]_cvars
-----------------------------------------------------------------------------
(***************************************************************************)
(* The cache keeps the promise of ExpertStore.                             *)
(***************************************************************************)
PhaseOf == CASE mpc \in {"waiting", "miss", "sync", "fill"} -> "asked"
             [] mpc = "use" -> "use"
             [] mpc = "closed" -> "closed"
             [] OTHER -> "rest"

Wanted == IF PhaseOf \in {"asked", "use"} THEN K ELSE "none"

BytesServed == IF mpc = "use" THEN content[held] ELSE "none"

Store == INSTANCE ExpertStore
           WITH phase <- PhaseOf, wanted <- Wanted, bytes <- BytesServed

ServesTheExpert == Store!Spec

(***************************************************************************)
(* Liveness.                                                               *)
(***************************************************************************)
(* Every get is answered: no broadcast is missed, and a batch always has a *)
(* worker that will land the expert waited for.                            *)
GetReturns == mpc \in {"get", "waiting"} ~> mpc \in {"use", "refused"}

(* A drain, and with it getmany and free, never waits for a worker that    *)
(* has nothing left to do.                                                 *)
DrainReturns == mpc \in {"drain", "freeing"} ~> mpc \in {"get", "closed"}
=============================================================================
