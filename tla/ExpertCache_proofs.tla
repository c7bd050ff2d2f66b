------------------------- MODULE ExpertCache_proofs -------------------------
(***************************************************************************)
(* Machine-checked facts about ExpertCache, for every set of experts and   *)
(* lists, every number of slots and workers, and both read paths.          *)
(***************************************************************************)
EXTENDS ExpertCacheInv, NumberFacts, SequenceTheorems, FiniteSetTheorems

USE DEF Slots, EMPTY, INFLIGHT, Nothing, Torn

(***************************************************************************)
(* The batch as a sequence.                                                *)
(***************************************************************************)
States == {"pending", "reading", "got", "short", "over"}

LEMMA StateChange ==
  ASSUME NEW w \in Seq(Work), NEW i \in 1 .. Len(w), NEW st \in States
  PROVE  LET v == [w EXCEPT ![i].state = st]
         IN /\ v \in Seq(Work) /\ Len(v) = Len(w)
            /\ \A j \in 1 .. Len(w) : /\ v[j].slot = w[j].slot
                                      /\ v[j].key = w[j].key
                                      /\ v[j].state = IF j = i THEN st ELSE w[j].state
  <1> DEFINE e == [w[i] EXCEPT !.state = st]
             v == [w EXCEPT ![i] = e]
  <1>1. w[i] \in Work
    BY ElementOfSeq
  <1>2. e \in Work /\ e.slot = w[i].slot /\ e.key = w[i].key /\ e.state = st
    BY <1>1 DEF Work, States
  <1> HIDE DEF e
  <1>3. /\ v \in Seq(Work) /\ Len(v) = Len(w)
        /\ \A j \in 1 .. Len(w) : v[j] = IF j = i THEN e ELSE w[j]
    BY <1>2, ExceptSeq
  <1> USE DEF e
  <1>4. [w EXCEPT ![i].state = st] = v
    OBVIOUS
  <1> HIDE DEF e, v
  <1>5. \A j \in 1 .. Len(w) : /\ v[j].slot = w[j].slot
                               /\ v[j].key = w[j].key
                               /\ v[j].state = IF j = i THEN st ELSE w[j].state
    BY <1>2, <1>3
  <1>6. QED
    BY <1>3, <1>4, <1>5

LEMMA EntryType ==
  ASSUME CTypeOK, NEW i \in Entries
  PROVE  /\ work[i].slot \in Slots /\ work[i].key \in Keys
         /\ work[i].state \in States
  <1>1. work[i] \in Work
    BY ElementOfSeq DEF CTypeOK, Entries
  <1>2. QED
    BY <1>1 DEF Work, States

LEMMA AskedKey ==
  ASSUME CTypeOK, at \in DOMAIN ids
  PROVE  K \in Keys
  BY ElementOfSeq, LenProperties DEF CTypeOK, K

(***************************************************************************)
(* Slots: what pick_victim returns, and what evicting it leaves indexed.   *)
(***************************************************************************)
LEMMA TouchType ==
  ASSUME CTypeOK, NEW s \in Slots, Touch(s)
  PROVE  used_at' \in [Slots -> 0 .. NSlots]
  <1>1. NSlots \in Nat /\ \A t \in Slots : used_at[t] \in 0 .. NSlots
    BY CacheAssumption DEF CTypeOK
  <1>2. \A t \in Slots : used_at[t] > used_at[s] => used_at[t] - 1 \in 0 .. NSlots
    BY <1>1
  <1>3. QED
    BY <1>1, <1>2 DEF Touch

LEMMA VictimFacts ==
  ASSUME CTypeOK, NEW X, NEW s \in Victim(X)
  PROVE  /\ s \in Slots /\ key_of[s] # INFLIGHT
         /\ key_of[s] = EMPTY \/ (key_of[s] \in Keys /\ key_of[s] \notin X)
  <1>1. CASE Free # {}
    BY <1>1 DEF Victim, Free
  <1>2. CASE Free = {}
    BY <1>2 DEF Victim, Evictable, CTypeOK
  <1>3. QED
    BY <1>1, <1>2

LEMMA EvictedFacts ==
  ASSUME CTypeOK, Registered, NEW s \in Slots, key_of[s] # INFLIGHT
  PROVE  /\ Evicted(s) \in [Keys -> Slots \cup {-1}]
         /\ \A k \in Keys : Evicted(s)[k] # s
         /\ \A k \in Keys : Evicted(s)[k] = slot_of[k] \/ Evicted(s)[k] = -1
  <1>1. Evicted(s) \in [Keys -> Slots \cup {-1}]
    BY DEF Evicted, CTypeOK
  <1>2. \A k \in Keys : Evicted(s)[k] = slot_of[k] \/ Evicted(s)[k] = -1
    BY DEF Evicted, CTypeOK
  <1>3. \A k \in Keys : slot_of[k] = s => key_of[s] = k
    BY DEF Registered
  <1>4. \A k \in Keys : Evicted(s)[k] # s
    BY <1>2, <1>3 DEF Evicted, CTypeOK
  <1>5. QED
    BY <1>1, <1>2, <1>4

(* No expert points at a slot that is in flight.                           *)
LEMMA InFlightUnindexed ==
  ASSUME CTypeOK, Registered, NEW k \in Keys, NEW s \in Slots, key_of[s] = INFLIGHT
  PROVE  slot_of[k] # s
  BY CacheAssumption DEF Registered, Sentinels

LEMMA FinishType ==
  ASSUME CTypeOK, NEW s \in Slots, NEW k \in Keys, NEW ok, Finish(s, k, ok)
  PROVE  /\ slot_of' \in [Keys -> Slots \cup {-1}]
         /\ key_of' \in [Slots -> Keys \cup {EMPTY, INFLIGHT}]
         /\ used_at' \in [Slots -> 0 .. NSlots]
  <1>1. slot_of' \in [Keys -> Slots \cup {-1}]
    BY DEF Finish, CTypeOK
  <1>2. key_of' \in [Slots -> Keys \cup {EMPTY, INFLIGHT}]
    BY DEF Finish, CTypeOK
  <1>3. used_at' \in [Slots -> 0 .. NSlots]
    <2>1. CASE ok
      BY <2>1, TouchType DEF Finish
    <2>2. CASE ~ok
      BY <2>2 DEF Finish, CTypeOK
    <2>3. QED
      BY <2>1, <2>2
  <1>4. QED
    BY <1>1, <1>2, <1>3

(* All entries of a batch whose workers were joined are over.              *)
LEMMA DrainedCloses ==
  ASSUME CInv, Joined, mpc \notin {"reserve", "alone", "batch"}
  PROVE  Open = {}
  <1> SUFFICES ASSUME NEW i \in Entries PROVE work[i].state = "over"
    BY DEF Open
  <1>1. cursor > Len(work)
    BY DEF CInv, Progress, Joined, CTypeOK
  <1>2. i < cursor
    BY <1>1 DEF CInv, CTypeOK, Entries
  <1>3. work[i].state \notin {"pending", "got", "short", "reading"}
    BY <1>2 DEF CInv, Progress, Joined, Reading
  <1>4. QED
    BY <1>3, EntryType DEF CInv, States
-----------------------------------------------------------------------------
LEMMA InvHolds == CInit => CInv
  <1> SUFFICES ASSUME CInit PROVE CInv
    OBVIOUS
  <1> USE CacheAssumption DEF CInit
  <1>1. work = <<>> /\ Len(work) = 0 /\ Entries = {} /\ ids = <<>> /\ Len(ids) = 0
    BY DEF Entries
  <1>2. CTypeOK
    <2>1. work \in Seq(Work) /\ ids \in Seq(Keys)
      BY <1>1, EmptySeq
    <2>2. slot_of \in [Keys -> Slots \cup {-1}] /\ used_at \in [Slots -> 0 .. NSlots]
          /\ key_of \in [Slots -> Keys \cup {EMPTY, INFLIGHT}]
          /\ content \in [Slots -> Keys \cup {Nothing, Torn}]
          /\ writing \in [Slots -> SUBSET (0 .. BatchCap)]
      OBVIOUS
    <2>3. QED
      BY <1>1, <2>1, <2>2 DEF CTypeOK
  <1>3. Registered /\ NoSlotLost /\ SyncOwns /\ Handed
    BY DEF Registered, NoSlotLost, SyncOwns, Handed, Asked
  <1>4. Owned /\ Progress
    BY <1>1 DEF Owned, Progress, Open, Reading
  <1>5. Writers
    BY <1>1 DEF Writers, Readers, Reading
  <1>6. QED
    BY <1>2, <1>3, <1>4, <1>5 DEF CInv

(***************************************************************************)
(* Two frames: a step that touches neither slots nor batch, and one that   *)
(* forgets a batch whose entries are all over.                             *)
(***************************************************************************)
LEMMA CallerFrame ==
  ASSUME CInv, UNCHANGED <<slot_of, key_of, work, content, writing>>,
         mpc # "sync", mpc' # "sync"
  PROVE  Registered' /\ Owned' /\ Writers' /\ NoSlotLost'
  <1>1. Registered'
    BY DEF CInv, Registered
  <1>2. Owned'
    BY DEF CInv, Owned, Open, Entries
  <1>3. Writers'
    BY DEF CInv, Writers, Readers, Reading, Entries
  <1>4. NoSlotLost'
    BY DEF CInv, NoSlotLost, Open, Entries
  <1>5. QED
    BY <1>1, <1>2, <1>3, <1>4

LEMMA ForgetFrame ==
  ASSUME CInv, Open = {}, work' = <<>>,
         UNCHANGED <<slot_of, key_of, content, writing>>,
         mpc # "sync", mpc' # "sync"
  PROVE  Registered' /\ Owned' /\ Writers' /\ NoSlotLost'
  <1>1. Entries' = {}
    BY DEF Entries
  <1>2. Registered' /\ Owned' /\ NoSlotLost'
    BY <1>1 DEF CInv, Registered, Owned, NoSlotLost, Open
  <1>3. Reading = {}
    BY DEF Open, Reading
  <1>4. Writers'
    BY <1>1, <1>3 DEF CInv, Writers, Readers, Reading
  <1>5. QED
    BY <1>2, <1>4

LEMMA ForgottenType ==
  ASSUME CTypeOK, work' = <<>>, cursor' = 1, idle' = 0
  PROVE  /\ work' \in Seq(Work) /\ Len(work') <= BatchCap
         /\ cursor' \in 1 .. Len(work') + 1 /\ idle' \in Nat
         /\ Entries' = {} /\ Len(work') = 0
  BY EmptySeq, CacheAssumption DEF Entries
-----------------------------------------------------------------------------
(***************************************************************************)
(* Steps that move the caller and leave slots and batch alone.             *)
(***************************************************************************)
LEMMA Stutters ==
  ASSUME CInv, asleep' \in BOOLEAN,
         UNCHANGED <<config, index, pinned, pool, mpc, ids, at, held, dropped, memory>>
  PROVE  CInv'
  <1> USE DEF config, index, pool, memory
  <1>1. CTypeOK'
    BY DEF CInv, CTypeOK
  <1>2. Registered' /\ Owned' /\ NoSlotLost'
    BY DEF CInv, Registered, Owned, NoSlotLost, Open, Entries
  <1>3. SyncOwns' /\ Handed'
    BY DEF CInv, SyncOwns, Handed, Asked, K, Open, Entries
  <1>4. Writers' /\ Progress'
    BY DEF CInv, Writers, Progress, Readers, Reading, Entries
  <1>5. QED
    BY <1>1, <1>2, <1>3, <1>4 DEF CInv

LEMMA ListBegins ==
  ASSUME CInv, Begin \/ DraftUse \/ FreeBegin
  PROVE  CInv'
  <1> USE DEF config, index, pool, memory, caller
  <1>1. /\ UNCHANGED <<slot_of, key_of, work, content, writing>>
        /\ mpc = "rest" /\ mpc' \in {"drain", "get", "fill", "freeing"}
        /\ UNCHANGED <<pipeline, batching, missing, hot, used_at, pinned,
                       cursor, idle, dropped, asleep>>
    BY DEF Begin, DraftUse, FreeBegin
  <1>2. ids' \in Seq(Keys) /\ at' \in 1 .. Len(ids') + 1 /\ held' \in Slots \cup {-1}
    <2>1. CASE Begin
      BY <2>1, CacheAssumption DEF Begin, CInv, CTypeOK
    <2>2. CASE DraftUse
      <3> PICK k \in Keys : slot_of[k] >= 0 /\ ids' = <<k>> /\ held' = slot_of[k]
        BY <2>2 DEF DraftUse
      <3>1. ids' \in Seq(Keys) /\ Len(ids') = 1
        OBVIOUS
      <3>2. QED
        BY <2>2, <3>1 DEF DraftUse, CInv, CTypeOK
    <2>3. CASE FreeBegin
      BY <2>3 DEF FreeBegin, CInv, CTypeOK
    <2>4. QED
      BY <2>1, <2>2, <2>3
  <1>3. CTypeOK'
    BY <1>1, <1>2 DEF CInv, CTypeOK
  <1>4. Registered' /\ Owned' /\ Writers' /\ NoSlotLost'
    BY <1>1, CallerFrame
  <1>5. SyncOwns' /\ Progress'
    BY <1>1 DEF CInv, SyncOwns, Progress, Reading, Entries
  <1>6. Handed'
    <2>1. CASE Begin
      <3>1. ids' \in Seq(Keys) /\ ids' # <<>> /\ at' = 1
        BY <2>1, CacheAssumption DEF Begin
      <3>2. at' \in DOMAIN ids'
        BY <3>1, EmptySeq, LenProperties
      <3>3. QED
        BY <3>1, <3>2, <1>1, <2>1 DEF Handed, Asked, Begin
    <2>2. CASE DraftUse
      <3> PICK k \in Keys : slot_of[k] >= 0 /\ ids' = <<k>> /\ held' = slot_of[k]
        BY <2>2 DEF DraftUse
      <3>1. at' = 1 /\ K' = k /\ at' \in DOMAIN ids' /\ mpc' = "fill"
        BY <2>2 DEF DraftUse, K
      <3>2. QED
        BY <3>1, <1>1, <1>2 DEF Handed, CInv, CTypeOK
    <2>3. CASE FreeBegin
      BY <2>3 DEF FreeBegin, Handed, Asked
    <2>4. QED
      BY <2>1, <2>2, <2>3
  <1>7. QED
    BY <1>3, <1>4, <1>5, <1>6 DEF CInv

LEMMA Reserves ==
  ASSUME CInv, ReserveSkip \/ LaunchNothing \/ LaunchPool \/ LaunchAlone
  PROVE  CInv'
  <1> USE DEF config, index, pool, memory, caller, ReserveSkip, LaunchNothing,
              LaunchPool, LaunchAlone, Reserved
  <1>1. /\ UNCHANGED <<slot_of, key_of, work, content, writing>>
        /\ mpc = "reserve" /\ mpc' \in {"reserve", "get", "alone"}
        /\ UNCHANGED <<pipeline, batching, missing, hot, used_at, pinned,
                       ids, held, cursor, dropped, asleep>>
    OBVIOUS
  <1>2. at' \in 1 .. Len(ids') + 1
    <2>1. Len(ids) \in Nat /\ at \in 1 .. Len(ids) + 1
      BY LenProperties DEF CInv, CTypeOK
    <2>2. QED
      BY <2>1 DEF MoreToReserve
  <1>3. idle' \in Nat
    BY DEF CInv, CTypeOK
  <1>4. CTypeOK'
    BY <1>1, <1>2, <1>3 DEF CInv, CTypeOK
  <1>5. Registered' /\ Owned' /\ Writers' /\ NoSlotLost'
    BY <1>1, CallerFrame
  <1>6. SyncOwns'
    BY <1>1 DEF CInv, SyncOwns
  <1>7. Progress'
    <2>1. cursor = 1 /\ idle = 0 /\ Reading = {}
      <3>1. \A i \in Entries : work[i].state = "pending"
        BY <1>1 DEF CInv, Progress, Entries
      <3>2. QED
        BY <1>1, <3>1 DEF CInv, Progress, Reading
    <2>2. Entries' = Entries /\ Reading' = Reading
      BY <1>1 DEF Entries, Reading
    <2>3. CASE work = <<>>
      BY <1>1, <2>1, <2>2, <2>3 DEF CInv, Progress, Entries
    <2>4. CASE work # <<>>
      BY <1>1, <2>1, <2>2, <2>4 DEF CInv, Progress, Entries
    <2>5. QED
      BY <2>3, <2>4
  <1>8. Handed'
    <2>1. ids # <<>> /\ ids' = ids
      BY <1>1 DEF CInv, Handed
    <2>2. mpc' = "get" => at' \in DOMAIN ids'
      BY <2>1, EmptySeq, LenProperties DEF CInv, CTypeOK
    <2>3. QED
      BY <1>1, <2>1, <2>2 DEF Handed, Asked
  <1>9. QED
    BY <1>4, <1>5, <1>6, <1>7, <1>8 DEF CInv

LEMMA GetsMove ==
  ASSUME CInv, GetHit \/ GetWait \/ GetMiss \/ MissFails \/ Fill \/ NextExpert
  PROVE  CInv'
  <1> USE DEF config, index, pool, memory, caller, Asking
  <1>1. /\ UNCHANGED <<slot_of, key_of, work, content, writing>>
        /\ mpc \in {"get", "waiting", "miss", "fill", "use", "refused"}
        /\ mpc' \in {"get", "waiting", "miss", "fill", "use", "refused", "rest"}
        /\ UNCHANGED <<pipeline, batching, missing, hot, pinned, cursor, idle>>
    BY DEF GetHit, GetWait, GetMiss, MissFails, Fill, NextExpert
  <1>2. at \in DOMAIN ids /\ K \in Keys
    BY <1>1, AskedKey DEF CInv, Handed, Asked
  <1>a. Len(ids) \in Nat /\ at \in 1 .. Len(ids)
    BY <1>2, LenProperties DEF CInv, CTypeOK
  <1>3. CTypeOK'
    <2>1. used_at' \in [Slots -> 0 .. NSlots]
      <3>1. CASE GetHit
        <4>1. slot_of[K] \in Slots
          BY <3>1, <1>2 DEF GetHit, CInv, CTypeOK
        <4>2. QED
          BY <3>1, <4>1, TouchType DEF GetHit, CInv
      <3>2. CASE ~GetHit
        BY <3>2 DEF GetWait, GetMiss, MissFails, Fill, NextExpert, CInv, CTypeOK
      <3>3. QED
        BY <3>1, <3>2
    <2>2. ids' \in Seq(Keys) /\ at' \in 1 .. Len(ids') + 1
      <3>1. CASE NextExpert /\ ~(at < Len(ids))
        <4>1. ids' = <<>> /\ at' = 1
          BY <3>1 DEF NextExpert
        <4>2. QED
          BY <4>1, EmptySeq
      <3>2. CASE NextExpert /\ at < Len(ids)
        BY <1>a, <3>2 DEF NextExpert, CInv, CTypeOK
      <3>3. CASE ~NextExpert
        BY <3>3 DEF GetHit, GetWait, GetMiss, MissFails, Fill, CInv, CTypeOK
      <3>4. QED
        BY <1>a, <3>1, <3>2, <3>3
    <2>3. held' \in Slots \cup {-1} /\ dropped' \in BOOLEAN /\ asleep' \in BOOLEAN
      BY <1>2 DEF GetHit, GetWait, GetMiss, MissFails, Fill, NextExpert, CInv, CTypeOK
    <2>4. QED
      BY <1>1, <2>1, <2>2, <2>3 DEF CInv, CTypeOK
  <1>4. Registered' /\ Owned' /\ Writers' /\ NoSlotLost'
    BY <1>1, CallerFrame
  <1>5. SyncOwns'
    <2> SUFFICES ASSUME mpc' = "miss"
                 PROVE  slot_of'[K'] < 0 /\ \A i \in Open' : work'[i].key # K'
      BY <1>1 DEF SyncOwns
    <2>1. GetMiss
      BY DEF GetHit, GetWait, MissFails, Fill, NextExpert
    <2>2. K' = K /\ Open' = Open /\ slot_of[K] < 0 /\ ~InBatch(K)
      BY <1>1, <2>1 DEF GetMiss, K, Open, Entries
    <2>3. Open \subseteq Pending /\ (~pipeline => Open = {})
      <3>1. \A i \in Entries : work[i].state \notin {"got", "short"}
        BY <1>1 DEF CInv, Progress
      <3>2. ~pipeline => Entries = {}
        BY <1>1 DEF CInv, Progress, Entries
      <3>3. QED
        BY <3>1, <3>2, EntryType DEF Open, Pending, CInv, States
    <2>4. QED
      BY <1>1, <2>2, <2>3 DEF InBatch
  <1>6. Progress'
    <2>1. Entries' = Entries /\ Reading' = Reading
      BY <1>1 DEF Entries, Reading
    <2>2. QED
      BY <1>1, <2>1 DEF CInv, Progress
  <1>7. Handed'
    <2>1. CASE NextExpert
      <3>1. mpc' = "get" => at' \in DOMAIN ids'
        BY <1>a, <2>1, LenProperties DEF NextExpert, CInv, CTypeOK
      <3>2. mpc' \in {"get", "rest"}
        BY <2>1 DEF NextExpert
      <3>3. QED
        BY <3>1, <3>2 DEF Handed, Asked
    <2>2. CASE GetHit
      BY <1>1, <1>2, <2>2 DEF GetHit, Handed, Asked, K, CInv, CTypeOK
    <2>3. CASE GetWait \/ GetMiss \/ MissFails \/ Fill
      BY <1>1, <1>2, <2>3 DEF GetWait, GetMiss, MissFails, Fill, Handed, Asked, K, CInv
    <2>4. QED
      BY <2>1, <2>2, <2>3
  <1>8. QED
    BY <1>3, <1>4, <1>5, <1>6, <1>7 DEF CInv

LEMMA WorkerLeaves ==
  ASSUME CInv, WorkerExit
  PROVE  CInv'
  <1> USE DEF WorkerExit, config, index, memory, caller
  <1>1. cursor > Len(work) /\ idle' \in Nat
    BY DEF CInv, CTypeOK
  <1>2. CTypeOK'
    BY <1>1 DEF CInv, CTypeOK
  <1>3. Registered' /\ Owned' /\ NoSlotLost'
    BY DEF CInv, Registered, Owned, NoSlotLost, Open, Entries
  <1>4. SyncOwns' /\ Handed'
    BY DEF CInv, SyncOwns, Handed, Asked, K, Open, Entries
  <1>5. Writers'
    BY DEF CInv, Writers, Readers, Reading, Entries
  <1>6. Progress'
    BY <1>1 DEF CInv, CTypeOK, Progress, Reading, Entries
  <1>7. QED
    BY <1>2, <1>3, <1>4, <1>5, <1>6 DEF CInv
-----------------------------------------------------------------------------
(***************************************************************************)
(* Steps that forget a batch: its workers were joined, or it is over.      *)
(***************************************************************************)
LEMMA Drains ==
  ASSUME CInv,
         \/ Drain \/ Settle \/ FreeEnd
         \/ \E k \in Keys : Pin(k) \/ Unpin(k) \/ PrefetchHit(k)
  PROVE  CInv'
  <1> USE DEF Drain, Settle, FreeEnd, Pin, Unpin, PrefetchHit, Drained,
              config, index, memory, caller
  <1>1. /\ Joined /\ work' = <<>> /\ cursor' = 1 /\ idle' = 0
        /\ mpc \in {"rest", "drain", "freeing"} /\ mpc' \in {"rest", "reserve", "closed"}
        /\ mpc' = "reserve" => mpc = "drain"
        /\ UNCHANGED <<slot_of, key_of, content, writing, pipeline, batching, missing, hot,
                       ids, at, held, dropped, asleep>>
    OBVIOUS
  <1>2. Open = {}
    BY <1>1, DrainedCloses
  <1>3. /\ work' \in Seq(Work) /\ Len(work') <= BatchCap
        /\ cursor' \in 1 .. Len(work') + 1 /\ idle' \in Nat
        /\ Entries' = {} /\ Len(work') = 0
    BY <1>1, ForgottenType DEF CInv
  <1>4. used_at' \in [Slots -> 0 .. NSlots] /\ pinned' \in SUBSET Slots
    <2>1. CASE Drain \/ Settle \/ FreeEnd
      BY <2>1 DEF CInv, CTypeOK
    <2>2. CASE \E k \in Keys : Pin(k) \/ Unpin(k) \/ PrefetchHit(k)
      <3> PICK k \in Keys : Pin(k) \/ Unpin(k) \/ PrefetchHit(k)
        BY <2>2
      <3>1. slot_of[k] \in Slots
        BY DEF CInv, CTypeOK
      <3>2. CASE PrefetchHit(k)
        BY <3>1, <3>2, TouchType DEF CInv, CTypeOK
      <3>3. CASE Pin(k) \/ Unpin(k)
        BY <3>1, <3>3 DEF CInv, CTypeOK
      <3>4. QED
        BY <3>2, <3>3
    <2>3. QED
      BY <2>1, <2>2
  <1>5. CTypeOK'
    BY <1>1, <1>3, <1>4 DEF CInv, CTypeOK
  <1>6. Registered' /\ Owned' /\ Writers' /\ NoSlotLost'
    BY <1>1, <1>2, ForgetFrame
  <1>7. SyncOwns' /\ Handed'
    BY <1>1 DEF CInv, SyncOwns, Handed, Asked
  <1>8. Progress'
    BY <1>1, <1>3 DEF Progress, Reading, Entries
  <1>9. QED
    BY <1>5, <1>6, <1>7, <1>8 DEF CInv

LEMMA BatchOver ==
  ASSUME CInv, AloneEnds \/ BatchEnds
  PROVE  CInv'
  <1> USE DEF AloneEnds, BatchEnds, config, index, memory
  <1>1. /\ work' = <<>> /\ mpc \in {"alone", "batch"} /\ mpc' = "get" /\ at' = 1
        /\ UNCHANGED <<slot_of, key_of, used_at, pinned, content, writing, pipeline,
                       batching, missing, hot, ids, held, dropped, asleep>>
    OBVIOUS
  <1>2. cursor' = 1 /\ idle' = 0
    BY <1>1 DEF CInv, Progress
  <1>3. Open = {}
    <2>1. CASE AloneEnds
      <3> SUFFICES ASSUME NEW i \in Entries PROVE work[i].state = "over"
        BY DEF Open
      <3>1. i < cursor
        BY <2>1 DEF CInv, CTypeOK, Entries
      <3>2. work[i].state \notin {"pending", "got", "short", "reading"}
        BY <2>1, <3>1 DEF CInv, Progress, Reading
      <3>3. QED
        BY <3>2, EntryType DEF CInv, States
    <2>2. CASE BatchEnds
      BY <2>2 DEF Open
    <2>3. QED
      BY <2>1, <2>2
  <1>4. /\ work' \in Seq(Work) /\ Len(work') <= BatchCap
        /\ cursor' \in 1 .. Len(work') + 1 /\ idle' \in Nat
        /\ Entries' = {} /\ Len(work') = 0
    BY <1>1, <1>2, ForgottenType DEF CInv
  <1>5. ids # <<>> /\ at' \in DOMAIN ids' /\ at' \in 1 .. Len(ids') + 1
    <2>1. ids # <<>>
      BY <1>1 DEF CInv, Handed
    <2>2. QED
      BY <1>1, <2>1, EmptySeq, LenProperties DEF CInv, CTypeOK
  <1>6. CTypeOK'
    BY <1>1, <1>4, <1>5 DEF CInv, CTypeOK
  <1>7. Registered' /\ Owned' /\ Writers' /\ NoSlotLost'
    BY <1>1, <1>3, ForgetFrame
  <1>8. SyncOwns' /\ Handed'
    BY <1>1, <1>5 DEF SyncOwns, Handed, Asked
  <1>9. Progress'
    BY <1>1, <1>2, <1>4 DEF Progress, Reading
  <1>10. QED
    BY <1>6, <1>7, <1>8, <1>9 DEF CInv

(* A read made while no batch is open: the victim loses its expert, then   *)
(* holds the new one or nothing.                                           *)
LEMMA PrefetchReads ==
  ASSUME CInv, NEW k \in Keys, NEW ok \in BOOLEAN, PrefetchMiss(k, ok)
  PROVE  CInv'
  <1> USE DEF PrefetchMiss, Drained, config, index, caller
  <1>1. /\ Joined /\ work' = <<>> /\ cursor' = 1 /\ idle' = 0
        /\ mpc = "rest" /\ mpc' = "rest"
        /\ UNCHANGED <<writing, pipeline, batching, missing, hot, pinned,
                       ids, at, held, dropped, asleep>>
    OBVIOUS
  <1>2. Open = {}
    BY <1>1, DrainedCloses
  <1>3. /\ work' \in Seq(Work) /\ Len(work') <= BatchCap
        /\ cursor' \in 1 .. Len(work') + 1 /\ idle' \in Nat
        /\ Entries' = {} /\ Len(work') = 0
    BY <1>1, ForgottenType DEF CInv
  <1>4. PICK s \in Victim({}) :
          /\ content' = [content EXCEPT ![s] = IF ok THEN k ELSE Nothing]
          /\ IF ok THEN /\ slot_of' = [Evicted(s) EXCEPT ![k] = s]
                        /\ key_of' = [key_of EXCEPT ![s] = k]
                        /\ Touch(s)
             ELSE /\ slot_of' = Evicted(s)
                  /\ key_of' = [key_of EXCEPT ![s] = EMPTY]
                  /\ UNCHANGED used_at
    OBVIOUS
  <1>b. key_of' = [key_of EXCEPT ![s] = IF ok THEN k ELSE EMPTY]
    BY <1>4
  <1>5. s \in Slots /\ key_of[s] # INFLIGHT
    BY VictimFacts DEF CInv
  <1>6. /\ Evicted(s) \in [Keys -> Slots \cup {-1}]
        /\ \A j \in Keys : Evicted(s)[j] # s
        /\ \A j \in Keys : Evicted(s)[j] = slot_of[j] \/ Evicted(s)[j] = -1
    BY <1>5, EvictedFacts DEF CInv
  <1>7. CTypeOK'
    <2>1. used_at' \in [Slots -> 0 .. NSlots]
      BY <1>4, <1>5, TouchType DEF CInv, CTypeOK
    <2>2. slot_of' \in [Keys -> Slots \cup {-1}]
      BY <1>4, <1>5, <1>6
    <2>3. key_of' \in [Slots -> Keys \cup {EMPTY, INFLIGHT}]
      BY <1>b DEF CInv, CTypeOK
    <2>4. content' \in [Slots -> Keys \cup {Nothing, Torn}]
      BY <1>4 DEF CInv, CTypeOK
    <2>5. QED
      BY <1>1, <1>3, <2>1, <2>2, <2>3, <2>4 DEF CInv, CTypeOK
  <1>8. Registered'
    <2> SUFFICES ASSUME NEW j \in Keys, slot_of'[j] >= 0
                 PROVE  key_of'[slot_of'[j]] = j /\ content'[slot_of'[j]] = j
      BY DEF Registered
    <2>1. CASE ok /\ j = k
      <3>1. slot_of'[j] = s
        BY <1>4, <1>6, <2>1
      <3>2. key_of'[s] = j
        BY <1>b, <1>5, <2>1 DEF CInv, CTypeOK
      <3>3. content'[s] = j
        BY <1>4, <1>5, <2>1 DEF CInv, CTypeOK
      <3>4. QED
        BY <3>1, <3>2, <3>3
    <2>2. CASE ~(ok /\ j = k)
      <3>1. slot_of'[j] = slot_of[j] /\ slot_of[j] # s /\ slot_of[j] \in Slots
        BY <1>4, <1>5, <1>6, <2>2 DEF CInv, CTypeOK
      <3>2. key_of[slot_of[j]] = j /\ content[slot_of[j]] = j
        BY <3>1 DEF CInv, Registered
      <3>3. key_of'[slot_of[j]] = j
        BY <1>b, <3>1, <3>2 DEF CInv, CTypeOK
      <3>4. content'[slot_of[j]] = j
        BY <1>4, <3>1, <3>2 DEF CInv, CTypeOK
      <3>5. QED
        BY <3>1, <3>3, <3>4
    <2>3. QED
      BY <2>1, <2>2
  <1>9. Owned'
    BY <1>3 DEF Owned, Open
  <1>10. Writers'
    <2>1. \A t \in Slots : content'[t] # Torn
      BY <1>4, <1>5, CacheAssumption DEF CInv, CTypeOK, Writers, Sentinels
    <2>2. Reading = {} /\ Reading' = {}
      BY <1>2, <1>3 DEF Open, Reading
    <2>3. QED
      BY <1>1, <2>1, <2>2 DEF CInv, Writers, Readers
  <1>11. NoSlotLost'
    <2>1. \A t \in Slots : key_of[t] # INFLIGHT
      BY <1>1, <1>2 DEF CInv, NoSlotLost
    <2>2. \A t \in Slots : key_of'[t] # INFLIGHT
      BY <1>b, <1>5, <2>1, CacheAssumption DEF CInv, CTypeOK, Sentinels
    <2>3. QED
      BY <2>2 DEF NoSlotLost
  <1>12. SyncOwns' /\ Handed'
    BY <1>1 DEF SyncOwns, Handed, Asked
  <1>13. Progress'
    BY <1>1, <1>3 DEF Progress, Reading
  <1>14. QED
    BY <1>7, <1>8, <1>9, <1>10, <1>11, <1>12, <1>13 DEF CInv
-----------------------------------------------------------------------------
(***************************************************************************)
(* Steps that move an entry of the batch.                                  *)
(***************************************************************************)
LEMMA EntryMoves ==
  ASSUME CTypeOK, NEW i \in Entries, NEW st \in States,
         work' = [work EXCEPT ![i].state = st]
  PROVE  /\ work' \in Seq(Work) /\ Len(work') = Len(work) /\ Entries' = Entries
         /\ \A j \in Entries : /\ work'[j].slot = work[j].slot
                               /\ work'[j].key = work[j].key
                               /\ work'[j].state = IF j = i THEN st ELSE work[j].state
  BY StateChange DEF CTypeOK, Entries

(* A read that ends in a slot no expert points at, for an expert that is   *)
(* resident nowhere.                                                       *)
LEMMA Finished ==
  ASSUME CTypeOK, Registered, NEW s \in Slots, NEW k \in Keys, NEW ok \in BOOLEAN,
         Finish(s, k, ok), slot_of[k] < 0, \A j \in Keys : slot_of[j] # s,
         \A t \in Slots \ {s} : content'[t] = content[t],
         ok => content'[s] = k
  PROVE  /\ Registered'
         /\ key_of'[s] # INFLIGHT
         /\ \A t \in Slots \ {s} : key_of'[t] = key_of[t]
         /\ \A j \in Keys \ {k} : slot_of'[j] = slot_of[j]
         /\ slot_of'[k] = IF ok THEN s ELSE slot_of[k]
  <1>1. key_of' = [key_of EXCEPT ![s] = IF ok THEN k ELSE EMPTY]
    BY DEF Finish
  <1>2. slot_of' = IF ok THEN [slot_of EXCEPT ![k] = s] ELSE slot_of
    BY DEF Finish
  <1>3. key_of'[s] # INFLIGHT /\ \A t \in Slots \ {s} : key_of'[t] = key_of[t]
    BY <1>1, CacheAssumption DEF CTypeOK, Sentinels
  <1>4. /\ \A j \in Keys \ {k} : slot_of'[j] = slot_of[j]
        /\ slot_of'[k] = IF ok THEN s ELSE slot_of[k]
    BY <1>2 DEF CTypeOK
  <1>5. Registered'
    <2> SUFFICES ASSUME NEW j \in Keys, slot_of'[j] >= 0
                 PROVE  key_of'[slot_of'[j]] = j /\ content'[slot_of'[j]] = j
      BY DEF Registered
    <2>1. CASE j = k
      <3>1. ok /\ slot_of'[j] = s
        BY <1>4, <2>1 DEF CTypeOK
      <3>2. QED
        BY <1>1, <2>1, <3>1 DEF CTypeOK
    <2>2. CASE j # k
      <3>1. slot_of'[j] = slot_of[j] /\ slot_of[j] \in Slots \ {s}
        BY <1>4, <2>2 DEF CTypeOK
      <3>2. QED
        BY <1>3, <3>1 DEF Registered
    <2>3. QED
      BY <2>1, <2>2
  <1>6. QED
    BY <1>3, <1>4, <1>5

(* What the invariant says of one open entry.                              *)
LEMMA OpenEntry ==
  ASSUME CInv, NEW i \in Open
  PROVE  /\ i \in Entries /\ work[i].slot \in Slots /\ work[i].key \in Keys
         /\ key_of[work[i].slot] = INFLIGHT
         /\ slot_of[work[i].key] < 0
         /\ \A k \in Keys : slot_of[k] # work[i].slot
         /\ \A j \in Open : j # i => work[j].slot # work[i].slot
         /\ \A j \in Entries : j # i => work[j].key # work[i].key
  <1>1. i \in Entries
    BY DEF Open
  <1>2. work[i].slot \in Slots /\ work[i].key \in Keys
    BY <1>1, EntryType DEF CInv
  <1>3. key_of[work[i].slot] = INFLIGHT /\ slot_of[work[i].key] < 0
    BY DEF CInv, Owned
  <1>4. \A k \in Keys : slot_of[k] # work[i].slot
    BY <1>2, <1>3, InFlightUnindexed DEF CInv
  <1>5. QED
    BY <1>1, <1>2, <1>3, <1>4 DEF CInv, Owned

LEMMA SlotReserved ==
  ASSUME CInv, ReserveSlot
  PROVE  CInv'
  <1> DEFINE e(s) == [slot |-> s, key |-> K, state |-> "pending"]
             n == Len(work) + 1
  <1> USE DEF config
  <1>1. /\ mpc = "reserve" /\ mpc' = mpc /\ at <= Len(ids) /\ Len(work) < BatchCap
        /\ ~Settled(K) /\ at' = at + 1
        /\ UNCHANGED <<pipeline, batching, missing, hot, pinned, cursor, idle,
                       ids, held, dropped, asleep, content, writing>>
    BY DEF ReserveSlot, MoreToReserve, memory
  <1>2. PICK s \in Victim(Requested) :
          /\ slot_of' = Evicted(s)
          /\ key_of' = [key_of EXCEPT ![s] = INFLIGHT]
          /\ Touch(s)
          /\ work' = Append(work, [slot |-> s, key |-> K, state |-> "pending"])
    BY DEF ReserveSlot
  <1>3. s \in Slots /\ key_of[s] # INFLIGHT
    BY VictimFacts DEF CInv
  <1>4. at \in DOMAIN ids /\ K \in Keys /\ at' \in 1 .. Len(ids) + 1
    <2>1. at \in 1 .. Len(ids) /\ Len(ids) \in Nat
      BY <1>1, LenProperties DEF CInv, CTypeOK
    <2>2. at \in DOMAIN ids
      BY <2>1, LenProperties DEF CInv, CTypeOK
    <2>3. QED
      BY <1>1, <2>1, <2>2, AskedKey DEF CInv
  <1>5. slot_of[K] < 0 /\ \A i \in Entries : work[i].key # K
    BY <1>1, <1>4 DEF Settled, CInv, CTypeOK
  <1>6. /\ Evicted(s) \in [Keys -> Slots \cup {-1}]
        /\ \A j \in Keys : Evicted(s)[j] # s
        /\ \A j \in Keys : Evicted(s)[j] = slot_of[j] \/ Evicted(s)[j] = -1
    BY <1>3, EvictedFacts DEF CInv
  <1>7. work \in Seq(Work) /\ Len(work) \in Nat /\ e(s) \in Work
    BY <1>3, <1>4, LenProperties DEF CInv, CTypeOK, Work
  <1>8. /\ work' \in Seq(Work) /\ Len(work') = n /\ n \in Nat
        /\ \A i \in 1 .. Len(work) : work'[i] = work[i]
        /\ work'[n] = e(s)
    BY <1>2, <1>7, AppendProperties
  <1>9. Entries' = Entries \cup {n} /\ n \notin Entries /\ Entries = 1 .. Len(work)
    BY <1>7, <1>8 DEF Entries
  <1>10. /\ work'[n].slot = s /\ work'[n].key = K /\ work'[n].state = "pending"
    BY <1>8
  <1> HIDE DEF e, n
  <1>11. Open' = Open \cup {n} /\ Reading' = Reading /\ \A i \in Open : i \in Entries
    BY <1>8, <1>9, <1>10 DEF Open, Reading
  <1>12. CTypeOK'
    <2>1. used_at' \in [Slots -> 0 .. NSlots]
      BY <1>2, <1>3, TouchType DEF CInv
    <2>2. key_of' \in [Slots -> Keys \cup {EMPTY, INFLIGHT}]
      BY <1>2 DEF CInv, CTypeOK
    <2>3. Len(work') <= BatchCap /\ cursor' \in 1 .. Len(work') + 1
      BY <1>1, <1>7, <1>8, CacheAssumption DEF CInv, CTypeOK, n
    <2>4. slot_of' \in [Keys -> Slots \cup {-1}]
      BY <1>2, <1>6
    <2>5. QED
      BY <1>1, <1>4, <1>8, <2>1, <2>2, <2>3, <2>4 DEF CInv, CTypeOK
  <1>13. Registered'
    <2> SUFFICES ASSUME NEW j \in Keys, slot_of'[j] >= 0
                 PROVE  key_of'[slot_of'[j]] = j /\ content'[slot_of'[j]] = j
      BY DEF Registered
    <2>1. slot_of'[j] = slot_of[j] /\ slot_of[j] \in Slots \ {s}
      BY <1>2, <1>6 DEF CInv, CTypeOK
    <2>2. key_of'[slot_of[j]] = key_of[slot_of[j]]
      BY <1>2, <2>1 DEF CInv, CTypeOK
    <2>3. QED
      BY <1>1, <2>1, <2>2 DEF CInv, Registered
  <1>14. Owned'
    <2>1. \A i \in Open : /\ key_of'[work'[i].slot] = INFLIGHT
                          /\ slot_of'[work'[i].key] < 0
                          /\ work'[i].state = "got" => content'[work'[i].slot] = work'[i].key
      <3> SUFFICES ASSUME NEW i \in Open
                   PROVE  /\ key_of'[work'[i].slot] = INFLIGHT
                          /\ slot_of'[work'[i].key] < 0
                          /\ work'[i].state = "got" => content'[work'[i].slot] = work'[i].key
        OBVIOUS
      <3>1. work'[i] = work[i] /\ i \in Entries
        BY <1>8, <1>9, <1>11
      <3>2. work[i].slot \in Slots /\ work[i].key \in Keys
            /\ key_of[work[i].slot] = INFLIGHT /\ slot_of[work[i].key] < 0
        BY OpenEntry
      <3>3. key_of'[work[i].slot] = INFLIGHT
        BY <1>2, <3>2 DEF CInv, CTypeOK
      <3>4. slot_of'[work[i].key] < 0
        BY <1>2, <1>6, <3>2
      <3>5. QED
        BY <1>1, <3>1, <3>3, <3>4 DEF CInv, Owned
    <2>a. key_of'[s] = INFLIGHT
      BY <1>2, <1>3 DEF CInv, CTypeOK
    <2>2. slot_of'[K] < 0
      BY <1>2, <1>4, <1>5, <1>6
    <2>3. \A i \in Open : work'[i].slot = work[i].slot /\ work[i].slot # s
      BY <1>3, <1>8, <1>9, <1>11, OpenEntry
    <2>4. \A i, j \in Open' : work'[i].slot = work'[j].slot => i = j
      BY <1>10, <1>11, <2>3 DEF CInv, Owned
    <2>5. \A i, j \in Entries' : work'[i].key = work'[j].key => i = j
      BY <1>5, <1>8, <1>9, <1>10 DEF CInv, Owned
    <2>6. QED
      BY <1>10, <1>11, <2>1, <2>a, <2>2, <2>4, <2>5 DEF Owned
  <1>15. Writers'
    <2>1. \A t \in Slots : Readers(t)' = Readers(t)
      BY <1>8, <1>9, <1>11 DEF Readers, Reading
    <2>2. QED
      BY <1>1, <2>1 DEF CInv, Writers
  <1>16. NoSlotLost'
    <2> SUFFICES ASSUME NEW t \in Slots, key_of'[t] = INFLIGHT
                 PROVE  \E i \in Open' : work'[i].slot = t
      BY DEF NoSlotLost
    <2>1. CASE t = s
      BY <1>10, <1>11, <2>1
    <2>2. CASE t # s
      <3>1. key_of[t] = INFLIGHT
        BY <1>2, <2>2 DEF CInv, CTypeOK
      <3>2. PICK i \in Open : work[i].slot = t
        BY <1>1, <3>1 DEF CInv, NoSlotLost
      <3>3. QED
        BY <1>8, <1>9, <1>11, <3>2
    <2>3. QED
      BY <2>1, <2>2
  <1>17. SyncOwns' /\ Handed'
    BY <1>1 DEF CInv, SyncOwns, Handed, Asked
  <1>18. Progress'
    <2>1. cursor = 1 /\ idle = 0
      BY <1>1 DEF CInv, Progress
    <2>2. \A i \in Entries' : work'[i].state = "pending" /\ i \in Nat /\ i >= 1
      BY <1>1, <1>7, <1>8, <1>9, <1>10, <2>1 DEF CInv, Progress, n
    <2>3. QED
      BY <1>1, <2>1, <2>2 DEF Progress
  <1>19. QED
    BY <1>12, <1>13, <1>14, <1>15, <1>16, <1>17, <1>18 DEF CInv

(* The serial batch begins: every reserved slot has exactly one reader.    *)
LEMMA SerialBegins ==
  ASSUME CInv, LaunchSerial
  PROVE  CInv'
  <1> USE DEF config, index, caller
  <1>1. /\ mpc = "reserve" /\ mpc' = "batch" /\ ~pipeline
        /\ work' = [i \in Entries |-> [work[i] EXCEPT !.state = "reading"]]
        /\ writing' = [t \in Slots |-> {i \in Entries : work[i].slot = t}]
        /\ content' = [t \in Slots |->
                         IF writing'[t] = {} THEN content[t]
                         ELSE IF \E i \in Entries : writing'[t] = {i} THEN Nothing
                         ELSE Torn]
        /\ UNCHANGED <<slot_of, key_of, used_at, pinned, pipeline, batching, missing, hot,
                       cursor, idle, ids, at, held, dropped, asleep>>
    BY DEF LaunchSerial, Reserved
  <1>2. Len(work) \in Nat /\ Entries = 1 .. Len(work) /\ Len(work) <= BatchCap
    BY LenProperties DEF CInv, CTypeOK, Entries
  <1>a. \A i \in Entries : work[i] \in Work
    BY ElementOfSeq, <1>2 DEF CInv, CTypeOK
  <1>3. \A i \in Entries : [work[i] EXCEPT !.state = "reading"] \in Work
    BY <1>a DEF Work
  <1>4. work' \in Seq(Work) /\ Len(work') = Len(work) /\ Entries' = Entries
    <2>1. work' \in [1 .. Len(work) -> Work]
      BY <1>1, <1>2, <1>3
    <2>2. work' \in Seq(Work)
      BY <1>2, <2>1, SeqDef
    <2>3. DOMAIN work' = 1 .. Len(work)
      BY <1>1, <1>2
    <2>4. Len(work') = Len(work)
      BY <1>2, <2>2, <2>3, LenProperties
    <2>5. QED
      BY <2>2, <2>4 DEF Entries
  <1>5. \A i \in Entries : /\ work'[i].slot = work[i].slot /\ work'[i].key = work[i].key
                           /\ work'[i].state = "reading"
    BY <1>1, <1>a DEF Work
  <1>6. Open = Entries /\ Open' = Entries /\ Reading' = Entries
    <2>1. \A i \in Entries : work[i].state = "pending"
      BY <1>1, <1>2 DEF CInv, Progress
    <2>2. QED
      BY <1>4, <1>5, <2>1 DEF Open, Reading
  <1>7. \A i, j \in Entries : work[i].slot = work[j].slot => i = j
    BY <1>6 DEF CInv, Owned
  <1>8. \A t \in Slots : content'[t] = IF writing'[t] = {} THEN content[t] ELSE Nothing
    <2> SUFFICES ASSUME NEW t \in Slots, writing'[t] # {}
                 PROVE  \E i \in Entries : writing'[t] = {i}
      BY <1>1
    <2>1. PICK i \in Entries : work[i].slot = t
      BY <1>1
    <2>2. writing'[t] = {i}
      BY <1>1, <1>7, <2>1
    <2>3. QED
      BY <2>2
  <1>9. CTypeOK'
    <2>1. writing' \in [Slots -> SUBSET (0 .. BatchCap)]
      <3>1. Entries \subseteq 0 .. BatchCap
        BY <1>2, CacheAssumption
      <3>2. QED
        BY <1>1, <3>1
    <2>2. content' \in [Slots -> Keys \cup {Nothing, Torn}]
      <3>1. content' = [t \in Slots |-> content'[t]]
        BY <1>1
      <3>2. \A t \in Slots : content'[t] \in Keys \cup {Nothing, Torn}
        BY <1>8 DEF CInv, CTypeOK
      <3>3. QED
        BY <3>1, <3>2
    <2>3. QED
      BY <1>1, <1>4, <2>1, <2>2 DEF CInv, CTypeOK
  <1>10. Registered'
    <2> SUFFICES ASSUME NEW k \in Keys, slot_of[k] >= 0
                 PROVE  key_of[slot_of[k]] = k /\ content'[slot_of[k]] = k
      BY <1>1 DEF Registered
    <2>1. slot_of[k] \in Slots
      BY DEF CInv, CTypeOK
    <2>2. \A i \in Entries : work[i].slot # slot_of[k]
      BY <1>6, OpenEntry
    <2>3. writing'[slot_of[k]] = {}
      BY <1>1, <2>1, <2>2
    <2>4. QED
      BY <1>8, <2>1, <2>3 DEF CInv, Registered
  <1>11. Owned'
    <2>1. \A i \in Entries : /\ key_of[work[i].slot] = INFLIGHT
                             /\ slot_of[work[i].key] < 0
      BY <1>6 DEF CInv, Owned
    <2>2. \A i, j \in Entries : work[i].key = work[j].key => i = j
      BY DEF CInv, Owned
    <2>3. \A i \in Open' : /\ key_of'[work'[i].slot] = INFLIGHT
                           /\ slot_of'[work'[i].key] < 0
                           /\ work'[i].state # "got"
      BY <1>1, <1>5, <1>6, <2>1
    <2>4. \A i, j \in Open' : work'[i].slot = work'[j].slot => i = j
      BY <1>5, <1>6, <1>7
    <2>5. \A i, j \in Entries' : work'[i].key = work'[j].key => i = j
      BY <1>4, <1>5, <2>2
    <2>6. QED
      BY <2>3, <2>4, <2>5 DEF Owned
  <1>12. Writers'
    <2>1. \A t \in Slots : content'[t] # Torn
      BY <1>8 DEF CInv, Writers
    <2>2. \A t \in Slots : Readers(t)' = writing'[t]
      BY <1>1, <1>5, <1>6 DEF Readers
    <2>3. QED
      BY <1>1, <2>1, <2>2 DEF Writers
  <1>13. NoSlotLost'
    <2> SUFFICES ASSUME NEW t \in Slots, key_of[t] = INFLIGHT
                 PROVE  \E i \in Open' : work'[i].slot = t
      BY <1>1 DEF NoSlotLost
    <2>1. PICK i \in Open : work[i].slot = t
      BY <1>1 DEF CInv, NoSlotLost
    <2>2. QED
      BY <1>5, <1>6, <2>1
  <1>14. SyncOwns' /\ Handed'
    BY <1>1 DEF CInv, SyncOwns, Handed, Asked
  <1>15. Progress'
    BY <1>1, <1>4, <1>5 DEF CInv, Progress
  <1>16. QED
    BY <1>9, <1>10, <1>11, <1>12, <1>13, <1>14, <1>15 DEF CInv

LEMMA SerialReads ==
  ASSUME CInv, NEW i \in Entries, NEW ok \in BOOLEAN, BatchRead(i, ok)
  PROVE  CInv'
  <1> DEFINE s == work[i].slot
             k == work[i].key
             st == IF ok THEN "got" ELSE "short"
  <1> USE DEF config, index, caller
  <1>1. /\ mpc = "batch" /\ mpc' = mpc /\ i \in Reading
        /\ EndRead(i, s, k, ok)
        /\ work' = [work EXCEPT ![i].state = st]
        /\ UNCHANGED <<slot_of, key_of, used_at, pinned, pipeline, batching, missing, hot,
                       cursor, idle, ids, at, held, dropped, asleep>>
    BY DEF BatchRead
  <1>2. st \in States /\ i \in Open
    BY <1>1 DEF States, Reading, Open
  <1>3. /\ work' \in Seq(Work) /\ Len(work') = Len(work) /\ Entries' = Entries
        /\ \A j \in Entries : /\ work'[j].slot = work[j].slot
                               /\ work'[j].key = work[j].key
                               /\ work'[j].state = IF j = i THEN st ELSE work[j].state
    BY <1>1, <1>2, EntryMoves DEF CInv
  <1>4. Open' = Open /\ Reading' = Reading \ {i}
    BY <1>1, <1>2, <1>3 DEF Open, Reading
  <1>5. s \in Slots /\ k \in Keys /\ \A l \in Keys : slot_of[l] # s
    BY <1>2, OpenEntry
  <1> HIDE DEF s, k
  <1>6. /\ content'[s] = IF ok THEN k ELSE content[s]
        /\ \A t \in Slots \ {s} : content'[t] = content[t]
        /\ content' \in [Slots -> Keys \cup {Nothing, Torn}]
    BY <1>1, <1>5 DEF EndRead, CInv, CTypeOK, Writers
  <1>7. /\ writing'[s] = writing[s] \ {i}
        /\ \A t \in Slots \ {s} : writing'[t] = writing[t]
        /\ writing' \in [Slots -> SUBSET (0 .. BatchCap)]
    BY <1>1, <1>5 DEF EndRead, CInv, CTypeOK
  <1>8. CTypeOK'
    BY <1>1, <1>3, <1>6, <1>7 DEF CInv, CTypeOK
  <1>9. Registered'
    BY <1>1, <1>5, <1>6 DEF CInv, CTypeOK, Registered
  <1>10. Owned'
    <2>1. \A j \in Open : work'[j].state = "got" => content'[work[j].slot] = work[j].key
      <3> SUFFICES ASSUME NEW j \in Open, work'[j].state = "got"
                   PROVE  content'[work[j].slot] = work[j].key
        OBVIOUS
      <3>1. CASE j = i
        BY <1>2, <1>3, <1>6, <3>1 DEF Open, s, k
      <3>2. CASE j # i
        <4>1. work[j].slot \in Slots \ {s} /\ work[j].state = "got"
          BY <1>2, <1>3, <3>2, OpenEntry DEF s
        <4>2. QED
          BY <1>6, <4>1 DEF CInv, Owned
      <3>3. QED
        BY <3>1, <3>2
    <2>2. QED
      BY <1>1, <1>3, <1>4, <2>1, OpenEntry DEF CInv, Owned
  <1>11. Writers'
    <2>1. \A t \in Slots : content'[t] # Torn
      BY <1>5, <1>6, CacheAssumption DEF CInv, Writers, Sentinels
    <2>2. \A t \in Slots : Readers(t)' = Readers(t) \ {i}
      BY <1>3, <1>4 DEF Readers, Reading
    <2>3. \A t \in Slots \ {s} : i \notin Readers(t)
      BY DEF Readers, s
    <2>4. \A t \in Slots : writing[t] = Readers(t)
      BY <1>1 DEF CInv, Writers
    <2>5. \A t \in Slots : writing'[t] = Readers(t) \ {i}
      BY <1>7, <2>3, <2>4
    <2>6. QED
      BY <1>1, <2>1, <2>2, <2>5 DEF Writers
  <1>12. NoSlotLost'
    BY <1>1, <1>3, <1>4, OpenEntry DEF CInv, NoSlotLost
  <1>13. SyncOwns' /\ Handed'
    BY <1>1 DEF CInv, SyncOwns, Handed, Asked
  <1>14. Progress'
    BY <1>1, <1>3 DEF CInv, Progress
  <1>15. QED
    BY <1>8, <1>9, <1>10, <1>11, <1>12, <1>13, <1>14 DEF CInv

(* An entry is published or buried: its slot gets a key or is free again,  *)
(* and nothing else of the cache changes.                                  *)
LEMMA EntryEnds ==
  ASSUME CInv, NEW i \in Open, NEW ok \in BOOLEAN,
         Finish(work[i].slot, work[i].key, ok),
         work' = [work EXCEPT ![i].state = "over"],
         \A t \in Slots \ {work[i].slot} : content'[t] = content[t],
         ok => content'[work[i].slot] = work[i].key,
         UNCHANGED <<pipeline, mpc, ids, at, held>>
  PROVE  /\ slot_of' \in [Keys -> Slots \cup {-1}]
         /\ key_of' \in [Slots -> Keys \cup {EMPTY, INFLIGHT}]
         /\ used_at' \in [Slots -> 0 .. NSlots]
         /\ work' \in Seq(Work) /\ Len(work') = Len(work) /\ Entries' = Entries
         /\ \A j \in Entries : /\ work'[j].slot = work[j].slot
                               /\ work'[j].state = IF j = i THEN "over" ELSE work[j].state
         /\ Reading' = Reading \ {i}
         /\ Registered' /\ Owned' /\ NoSlotLost' /\ SyncOwns' /\ Handed'
  <1> DEFINE s == work[i].slot
             k == work[i].key
  <1>1. /\ i \in Entries /\ s \in Slots /\ k \in Keys
        /\ slot_of[k] < 0 /\ \A l \in Keys : slot_of[l] # s
        /\ \A j \in Open : j # i => work[j].slot # s
        /\ \A j \in Entries : j # i => work[j].key # k
    BY OpenEntry
  <1>2. /\ work' \in Seq(Work) /\ Len(work') = Len(work) /\ Entries' = Entries
        /\ \A j \in Entries : /\ work'[j].slot = work[j].slot
                               /\ work'[j].key = work[j].key
                               /\ work'[j].state = IF j = i THEN "over" ELSE work[j].state
    <2>1. CTypeOK /\ i \in Entries /\ "over" \in States
      BY <1>1 DEF CInv, States
    <2>2. QED
      BY <2>1, EntryMoves
  <1>3. Open' = Open \ {i} /\ Reading' = Reading \ {i} /\ Open \subseteq Entries
    BY <1>1, <1>2 DEF Open, Reading
  <1>4. /\ slot_of' \in [Keys -> Slots \cup {-1}]
        /\ key_of' \in [Slots -> Keys \cup {EMPTY, INFLIGHT}]
        /\ used_at' \in [Slots -> 0 .. NSlots]
    BY <1>1, FinishType DEF CInv
  <1> HIDE DEF s, k
  <1>5. Finish(s, k, ok) /\ (\A t \in Slots \ {s} : content'[t] = content[t])
        /\ (ok => content'[s] = k)
    BY DEF s, k
  <1>6. /\ Registered'
        /\ key_of'[s] # INFLIGHT
        /\ \A t \in Slots \ {s} : key_of'[t] = key_of[t]
        /\ \A j \in Keys \ {k} : slot_of'[j] = slot_of[j]
        /\ slot_of'[k] = IF ok THEN s ELSE slot_of[k]
    BY <1>1, <1>5, Finished DEF CInv
  <1>7. Owned'
    <2>1. \A j \in Open' : /\ key_of'[work'[j].slot] = INFLIGHT
                           /\ slot_of'[work'[j].key] < 0
                           /\ work'[j].state = "got" => content'[work'[j].slot] = work'[j].key
      <3> SUFFICES ASSUME NEW j \in Open, j # i
                   PROVE  /\ key_of'[work[j].slot] = INFLIGHT
                          /\ slot_of'[work[j].key] < 0
                          /\ work[j].state = "got" => content'[work[j].slot] = work[j].key
        BY <1>2, <1>3
      <3>1. work[j].slot \in Slots \ {s} /\ work[j].key \in Keys \ {k}
        BY <1>1, <1>3, EntryType DEF CInv
      <3>2. key_of[work[j].slot] = INFLIGHT /\ slot_of[work[j].key] < 0
            /\ (work[j].state = "got" => content[work[j].slot] = work[j].key)
        BY DEF CInv, Owned
      <3>3. QED
        BY <1>5, <1>6, <3>1, <3>2
    <2>2. \A j, l \in Open' : work'[j].slot = work'[l].slot => j = l
      BY <1>2, <1>3 DEF CInv, Owned
    <2>3. \A j, l \in Entries' : work'[j].key = work'[l].key => j = l
      BY <1>2 DEF CInv, Owned
    <2>4. QED
      BY <2>1, <2>2, <2>3 DEF Owned
  <1>8. NoSlotLost'
    <2> SUFFICES ASSUME NEW t \in Slots, key_of'[t] = INFLIGHT, ~(mpc = "sync" /\ held = t)
                 PROVE  \E j \in Open' : work'[j].slot = t
      BY DEF NoSlotLost
    <2>1. t # s /\ key_of[t] = INFLIGHT
      BY <1>6
    <2>2. PICK j \in Open : work[j].slot = t
      BY <2>1 DEF CInv, NoSlotLost
    <2>3. j # i
      BY <2>1, <2>2 DEF s
    <2>4. QED
      BY <1>2, <1>3, <2>2, <2>3
  <1>9. Asked => K \in Keys /\ K' = K
    BY AskedKey DEF CInv, Handed, K
  <1>10. SyncOwns'
    <2>1. ASSUME mpc \in {"miss", "sync"}
          PROVE  slot_of'[K'] < 0 /\ \A j \in Open' : work'[j].key # K'
      <3>1. K \in Keys /\ K' = K /\ slot_of[K] < 0 /\ \A j \in Open : work[j].key # K
        BY <1>9, <2>1 DEF Asked, CInv, SyncOwns
      <3>2. K # k
        BY <3>1 DEF k
      <3>3. QED
        BY <1>2, <1>3, <1>6, <3>1, <3>2
    <2>2. ASSUME mpc = "sync"
          PROVE  /\ held \in Slots
                 /\ \A l \in Keys : slot_of'[l] # held
                 /\ \A j \in Open' : work'[j].slot # held
                 /\ pipeline => key_of'[held] = INFLIGHT
      <3>1. /\ held \in Slots
            /\ \A l \in Keys : slot_of[l] # held
            /\ \A j \in Open : work[j].slot # held
            /\ pipeline => key_of[held] = INFLIGHT
        BY <2>2 DEF CInv, SyncOwns
      <3>2. held # s
        BY <3>1 DEF s
      <3>3. \A l \in Keys : slot_of'[l] # held
        BY <1>6, <3>1, <3>2
      <3>4. QED
        BY <1>2, <1>3, <1>6, <3>1, <3>2, <3>3
    <2>3. QED
      BY <2>1, <2>2 DEF SyncOwns
  <1>11. Handed'
    <2>1. ASSUME mpc \in {"fill", "use"}
          PROVE  held \in Slots /\ slot_of'[K'] = held
      <3>1. K \in Keys /\ K' = K /\ held \in Slots /\ slot_of[K] = held
        BY <1>9, <2>1 DEF Asked, CInv, Handed
      <3>2. K # k
        BY <1>1, <3>1 DEF k
      <3>3. QED
        BY <1>6, <3>1, <3>2
    <2>2. QED
      BY <2>1 DEF CInv, Handed, Asked
  <1>12. QED
    BY <1>2, <1>3, <1>4, <1>6, <1>7, <1>8, <1>10, <1>11

LEMMA SerialPublishes ==
  ASSUME CInv, NEW i \in Entries, BatchPublish(i)
  PROVE  CInv'
  <1> USE DEF config, memory, caller
  <1>1. /\ mpc = "batch" /\ mpc' = mpc /\ Reading = {}
        /\ work[i].state \in {"got", "short"} /\ (work[i].state = "got") \in BOOLEAN
        /\ Finish(work[i].slot, work[i].key, work[i].state = "got")
        /\ work' = [work EXCEPT ![i].state = "over"]
        /\ UNCHANGED <<pinned, pipeline, batching, missing, hot, cursor, idle,
                       ids, at, held, dropped, asleep, content, writing>>
    BY DEF BatchPublish
  <1>2. i \in Open
    BY <1>1 DEF Open
  <1>3. work[i].state = "got" => content[work[i].slot] = work[i].key
    BY <1>2 DEF CInv, Owned
  <1>4. /\ slot_of' \in [Keys -> Slots \cup {-1}]
        /\ key_of' \in [Slots -> Keys \cup {EMPTY, INFLIGHT}]
        /\ used_at' \in [Slots -> 0 .. NSlots]
        /\ work' \in Seq(Work) /\ Len(work') = Len(work) /\ Entries' = Entries
        /\ \A j \in Entries : /\ work'[j].slot = work[j].slot
                              /\ work'[j].state = IF j = i THEN "over" ELSE work[j].state
        /\ Reading' = Reading \ {i}
        /\ Registered' /\ Owned' /\ NoSlotLost' /\ SyncOwns' /\ Handed'
    <2> DEFINE ok == work[i].state = "got"
    <2>1. ok \in BOOLEAN /\ Finish(work[i].slot, work[i].key, ok)
          /\ (ok => content'[work[i].slot] = work[i].key)
          /\ \A t \in Slots \ {work[i].slot} : content'[t] = content[t]
      BY <1>1, <1>3
    <2> HIDE DEF ok
    <2>2. QED
      BY <1>1, <1>2, <2>1, EntryEnds
  <1>5. CTypeOK'
    BY <1>1, <1>4 DEF CInv, CTypeOK
  <1>6. Writers'
    BY <1>1, <1>4 DEF CInv, Writers, Readers
  <1>7. Progress'
    BY <1>1, <1>4 DEF CInv, Progress
  <1>8. QED
    BY <1>4, <1>5, <1>6, <1>7 DEF CInv

LEMMA RunsAlone ==
  ASSUME CInv, NEW ok \in BOOLEAN, RunAlone(ok)
  PROVE  CInv'
  <1> USE DEF config, caller
  <1>1. /\ mpc = "alone" /\ mpc' = mpc /\ cursor <= Len(work) /\ cursor' = cursor + 1
        /\ content' = [content EXCEPT ![work[cursor].slot] =
                         IF ok THEN work[cursor].key ELSE Nothing]
        /\ Finish(work[cursor].slot, work[cursor].key, ok)
        /\ work' = [work EXCEPT ![cursor].state = "over"]
        /\ UNCHANGED <<pinned, pipeline, batching, missing, hot, idle,
                       ids, at, held, dropped, asleep, writing>>
    BY DEF RunAlone
  <1>2. Len(work) \in Nat /\ cursor \in Entries /\ Entries = 1 .. Len(work)
    BY <1>1, LenProperties DEF CInv, CTypeOK, Entries
  <1>3. cursor \in Open /\ Reading = {}
    BY <1>1, <1>2 DEF CInv, Progress, Open
  <1>4. work[cursor].slot \in Slots /\ work[cursor].key \in Keys
    BY <1>2, EntryType DEF CInv
  <1>5. /\ \A t \in Slots \ {work[cursor].slot} : content'[t] = content[t]
        /\ content'[work[cursor].slot] = IF ok THEN work[cursor].key ELSE Nothing
        /\ content' \in [Slots -> Keys \cup {Nothing, Torn}]
    BY <1>1, <1>4 DEF CInv, CTypeOK
  <1>6. /\ slot_of' \in [Keys -> Slots \cup {-1}]
        /\ key_of' \in [Slots -> Keys \cup {EMPTY, INFLIGHT}]
        /\ used_at' \in [Slots -> 0 .. NSlots]
        /\ work' \in Seq(Work) /\ Len(work') = Len(work) /\ Entries' = Entries
        /\ \A j \in Entries : /\ work'[j].slot = work[j].slot
                              /\ work'[j].state = IF j = cursor THEN "over" ELSE work[j].state
        /\ Reading' = Reading \ {cursor}
        /\ Registered' /\ Owned' /\ NoSlotLost' /\ SyncOwns' /\ Handed'
    BY <1>1, <1>3, <1>5, EntryEnds
  <1>7. CTypeOK'
    <2>1. cursor' \in 1 .. Len(work') + 1
      BY <1>1, <1>2, <1>6
    <2>2. QED
      BY <1>1, <1>5, <1>6, <2>1 DEF CInv, CTypeOK
  <1>8. Writers'
    <2>1. \A t \in Slots : content'[t] # Torn
      BY <1>4, <1>5, CacheAssumption DEF CInv, Writers, Sentinels
    <2>2. \A t \in Slots : Readers(t) = {} /\ Readers(t)' = {}
      BY <1>3, <1>6 DEF Readers
    <2>3. QED
      BY <1>1, <2>1, <2>2 DEF CInv, Writers
  <1>9. Progress'
    <2>1. \A j \in Entries : /\ work'[j].state \notin {"got", "short"}
                             /\ j < cursor' => work'[j].state # "pending"
                             /\ j >= cursor' => work'[j].state = "pending"
      BY <1>1, <1>2, <1>6 DEF CInv, Progress
    <2>2. QED
      BY <1>1, <1>3, <1>6, <2>1 DEF CInv, Progress
  <1>10. QED
    BY <1>6, <1>7, <1>8, <1>9 DEF CInv
-----------------------------------------------------------------------------
(***************************************************************************)
(* The workers.                                                            *)
(***************************************************************************)
LEMMA WorkerTakes ==
  ASSUME CInv, WorkerTake
  PROVE  CInv'
  <1> DEFINE s == work[cursor].slot
  <1> USE DEF config, index, caller
  <1>1. /\ idle > 0 /\ cursor <= Len(work)
        /\ work' = [work EXCEPT ![cursor].state = "reading"]
        /\ BeginRead(cursor, s)
        /\ cursor' = cursor + 1 /\ idle' = idle - 1
        /\ UNCHANGED <<slot_of, key_of, used_at, pinned, pipeline, batching, missing, hot,
                       mpc, ids, at, held, dropped, asleep>>
    BY DEF WorkerTake
  <1>2. Len(work) \in Nat /\ cursor \in Entries /\ Entries = 1 .. Len(work)
        /\ Len(work) <= BatchCap
    BY <1>1, LenProperties DEF CInv, CTypeOK, Entries
  <1>3. mpc \notin {"reserve", "alone", "batch"} /\ pipeline
    BY <1>1 DEF CInv, Progress
  <1>4. work[cursor].state = "pending" /\ cursor \in Open /\ cursor \notin Reading
    BY <1>2, <1>3 DEF CInv, Progress, Open, Reading
  <1>5. /\ work' \in Seq(Work) /\ Len(work') = Len(work) /\ Entries' = Entries
        /\ \A j \in Entries : /\ work'[j].slot = work[j].slot
                              /\ work'[j].key = work[j].key
                              /\ work'[j].state = IF j = cursor THEN "reading" ELSE work[j].state
    <2>1. CTypeOK /\ "reading" \in States
      BY DEF CInv, States
    <2>2. QED
      BY <1>1, <1>2, <2>1, EntryMoves
  <1>6. Open' = Open /\ Reading' = Reading \cup {cursor} /\ Reading \subseteq Open
    BY <1>2, <1>4, <1>5 DEF Open, Reading
  <1>7. /\ s \in Slots /\ \A k \in Keys : slot_of[k] # s
        /\ \A j \in Open : j # cursor => work[j].slot # s
    BY <1>4, OpenEntry
  <1>8. writing[s] = {}
    <2>1. Readers(s) = {}
      BY <1>4, <1>6, <1>7 DEF Readers
    <2>2. ~(mpc = "sync" /\ held = s)
      BY <1>4 DEF CInv, SyncOwns
    <2>3. QED
      BY <1>7, <2>1, <2>2 DEF CInv, Writers
  <1> HIDE DEF s
  <1>9. /\ content'[s] = Nothing
        /\ \A t \in Slots \ {s} : content'[t] = content[t]
        /\ content' \in [Slots -> Keys \cup {Nothing, Torn}]
    BY <1>1, <1>7, <1>8 DEF BeginRead, CInv, CTypeOK
  <1>10. /\ writing'[s] = {cursor}
         /\ \A t \in Slots \ {s} : writing'[t] = writing[t]
         /\ writing' \in [Slots -> SUBSET (0 .. BatchCap)]
    <2>1. cursor \in 0 .. BatchCap
      BY <1>2, CacheAssumption
    <2>2. QED
      BY <1>1, <1>7, <1>8, <2>1 DEF BeginRead, CInv, CTypeOK
  <1>11. CTypeOK'
    <2>1. cursor' \in 1 .. Len(work') + 1 /\ idle' \in Nat
      BY <1>1, <1>2, <1>5 DEF CInv, CTypeOK
    <2>2. QED
      BY <1>1, <1>5, <1>9, <1>10, <2>1 DEF CInv, CTypeOK
  <1>12. Registered'
    BY <1>1, <1>7, <1>9 DEF CInv, CTypeOK, Registered
  <1>13. Owned'
    <2>1. \A j \in Open : work'[j].state # "got"
      BY <1>3, <1>5 DEF CInv, Progress, Open
    <2>2. \A j \in Open' : /\ key_of'[work'[j].slot] = INFLIGHT
                           /\ slot_of'[work'[j].key] < 0
                           /\ work'[j].state # "got"
      BY <1>1, <1>5, <1>6, <2>1, OpenEntry
    <2>3. \A i, j \in Open' : work'[i].slot = work'[j].slot => i = j
      BY <1>5, <1>6, OpenEntry
    <2>4. \A i, j \in Entries' : work'[i].key = work'[j].key => i = j
      BY <1>5 DEF CInv, Owned
    <2>5. QED
      BY <2>2, <2>3, <2>4 DEF Owned
  <1>14. Writers'
    <2>1. \A t \in Slots : t = s => Readers(t)' = {cursor}
      <3>1. work'[cursor].slot = s
        BY <1>2, <1>5 DEF s
      <3>2. \A i \in Reading : work'[i].slot = work[i].slot
        BY <1>5 DEF Reading
      <3>3. \A i \in Reading : work[i].slot # s
        BY <1>4, <1>6, <1>7
      <3>4. QED
        BY <1>6, <3>1, <3>2, <3>3 DEF Readers
    <2>2. \A t \in Slots \ {s} : Readers(t)' = Readers(t)
      BY <1>4, <1>5, <1>6 DEF Readers, Reading, s
    <2>3. ~(mpc = "sync" /\ held = s)
      BY <1>4 DEF CInv, SyncOwns, s
    <2>4. \A t \in Slots : content'[t] # Torn
      BY <1>7, <1>9 DEF CInv, Writers
    <2>5. \A t \in Slots : writing'[t] = Readers(t)' \cup (IF mpc = "sync" /\ held = t THEN {0} ELSE {})
      <3> SUFFICES ASSUME NEW t \in Slots
                   PROVE  writing'[t] = Readers(t)' \cup (IF mpc = "sync" /\ held = t THEN {0} ELSE {})
        OBVIOUS
      <3>1. CASE t = s
        BY <1>10, <2>1, <2>3, <3>1
      <3>2. CASE t # s
        BY <1>10, <2>2, <3>2 DEF CInv, Writers
      <3>3. QED
        BY <3>1, <3>2
    <2>6. QED
      BY <1>1, <2>4, <2>5 DEF Writers
  <1>15. NoSlotLost'
    BY <1>1, <1>5, <1>6, OpenEntry DEF CInv, NoSlotLost
  <1>16. SyncOwns'
    BY <1>1, <1>5, <1>6, OpenEntry DEF CInv, SyncOwns, K
  <1>17. Handed'
    BY <1>1 DEF CInv, Handed, Asked, K
  <1>18. Progress'
    <2>1. \A j \in Entries : /\ work'[j].state \notin {"got", "short"}
                             /\ j < cursor' => work'[j].state # "pending"
                             /\ j >= cursor' => work'[j].state = "pending"
      BY <1>1, <1>2, <1>3, <1>5 DEF CInv, Progress
    <2>2. QED
      BY <1>1, <1>3, <1>5, <1>6, <2>1 DEF CInv, Progress
  <1>19. QED
    BY <1>11, <1>12, <1>13, <1>14, <1>15, <1>16, <1>17, <1>18 DEF CInv

LEMMA WorkerPosts ==
  ASSUME CInv, NEW i \in Entries, NEW ok \in BOOLEAN, WorkerPost(i, ok)
  PROVE  CInv'
  <1> DEFINE s == work[i].slot
             k == work[i].key
  <1> USE DEF config
  <1>1. /\ pipeline /\ i \in Reading
        /\ EndRead(i, s, k, ok) /\ Finish(s, k, ok)
        /\ work' = [work EXCEPT ![i].state = "over"]
        /\ idle' = idle + 1 /\ asleep' = FALSE
        /\ UNCHANGED <<pinned, pipeline, batching, missing, hot, cursor,
                       mpc, ids, at, held, dropped>>
    BY DEF WorkerPost, Broadcast
  <1>2. i \in Open
    BY <1>1 DEF Reading, Open
  <1>3. s \in Slots /\ k \in Keys
    BY <1>2, OpenEntry
  <1> HIDE DEF s, k
  <1>4. /\ content'[s] = IF ok THEN k ELSE content[s]
        /\ \A t \in Slots \ {s} : content'[t] = content[t]
        /\ content' \in [Slots -> Keys \cup {Nothing, Torn}]
    BY <1>1, <1>3 DEF EndRead, CInv, CTypeOK, Writers
  <1>5. /\ writing'[s] = writing[s] \ {i}
        /\ \A t \in Slots \ {s} : writing'[t] = writing[t]
        /\ writing' \in [Slots -> SUBSET (0 .. BatchCap)]
    BY <1>1, <1>3 DEF EndRead, CInv, CTypeOK
  <1>6. /\ slot_of' \in [Keys -> Slots \cup {-1}]
        /\ key_of' \in [Slots -> Keys \cup {EMPTY, INFLIGHT}]
        /\ used_at' \in [Slots -> 0 .. NSlots]
        /\ work' \in Seq(Work) /\ Len(work') = Len(work) /\ Entries' = Entries
        /\ \A j \in Entries : /\ work'[j].slot = work[j].slot
                              /\ work'[j].state = IF j = i THEN "over" ELSE work[j].state
        /\ Reading' = Reading \ {i}
        /\ Registered' /\ Owned' /\ NoSlotLost' /\ SyncOwns' /\ Handed'
    BY <1>1, <1>2, <1>4, EntryEnds DEF s, k
  <1>7. CTypeOK'
    <2>1. idle' \in Nat
      BY <1>1 DEF CInv, CTypeOK
    <2>2. QED
      BY <1>1, <1>4, <1>5, <1>6, <2>1 DEF CInv, CTypeOK
  <1>8. mpc \notin {"reserve", "alone", "batch"}
    <2>1. mpc = "reserve" => i >= cursor
      BY DEF CInv, Progress, Entries
    <2>2. QED
      BY <1>1, <2>1 DEF CInv, Progress, Reading
  <1>9. Writers'
    <2>1. \A t \in Slots : content'[t] # Torn
      BY <1>3, <1>4, CacheAssumption DEF CInv, Writers, Sentinels
    <2>2. \A t \in Slots : Readers(t)' = Readers(t) \ {i}
      BY <1>6 DEF Readers, Reading
    <2>3. \A t \in Slots \ {s} : i \notin Readers(t)
      BY DEF Readers, s
    <2>4. ~(mpc = "sync" /\ held = s)
      BY <1>2 DEF CInv, SyncOwns, s
    <2>5. writing[s] = Readers(s)
      BY <1>3, <2>4 DEF CInv, Writers
    <2>6. QED
      BY <1>1, <1>3, <1>5, <2>1, <2>2, <2>3, <2>4, <2>5 DEF CInv, Writers
  <1>10. Progress'
    <2>1. \A j \in Entries : /\ work'[j].state \notin {"got", "short"}
                             /\ j < cursor' => work'[j].state # "pending"
                             /\ j >= cursor' => work'[j].state = "pending"
      BY <1>1, <1>6, <1>8 DEF CInv, Progress, Reading
    <2>2. idle' > 0
      BY <1>1 DEF CInv, CTypeOK
    <2>3. QED
      BY <1>1, <1>6, <1>8, <2>1, <2>2 DEF Progress
  <1>11. QED
    BY <1>6, <1>7, <1>9, <1>10 DEF CInv
-----------------------------------------------------------------------------
(***************************************************************************)
(* The calling thread's own read.                                          *)
(***************************************************************************)
LEMMA MissClaims ==
  ASSUME CInv, MissClaim
  PROVE  CInv'
  <1> USE DEF config, pool
  <1>1. PICK s \in Victim({}) :
          /\ held' = s
          /\ slot_of' = Evicted(s)
          /\ BeginRead(0, s)
          /\ IF pipeline THEN key_of' = [key_of EXCEPT ![s] = INFLIGHT] /\ Touch(s)
             ELSE UNCHANGED <<key_of, used_at>>
    BY DEF MissClaim
  <1>2. /\ mpc = "miss" /\ mpc' = "sync"
        /\ UNCHANGED <<pinned, pipeline, batching, missing, hot, work, cursor, idle,
                       ids, at, dropped, asleep>>
    BY DEF MissClaim
  <1>3. s \in Slots /\ key_of[s] # INFLIGHT
    BY <1>1, VictimFacts DEF CInv
  <1>4. /\ Evicted(s) \in [Keys -> Slots \cup {-1}]
        /\ \A j \in Keys : Evicted(s)[j] # s
        /\ \A j \in Keys : Evicted(s)[j] = slot_of[j] \/ Evicted(s)[j] = -1
    BY <1>3, EvictedFacts DEF CInv
  <1>5. \A i \in Open : work[i].slot \in Slots \ {s}
    BY <1>3, OpenEntry
  <1>6. Entries' = Entries /\ Open' = Open /\ Reading' = Reading /\ Reading \subseteq Open
    BY <1>2 DEF Entries, Open, Reading
  <1>7. writing[s] = {}
    BY <1>2, <1>3, <1>5, <1>6 DEF CInv, Writers, Readers
  <1>8. /\ content'[s] = Nothing
        /\ \A t \in Slots \ {s} : content'[t] = content[t]
        /\ content' \in [Slots -> Keys \cup {Nothing, Torn}]
    BY <1>1, <1>3, <1>7 DEF BeginRead, CInv, CTypeOK
  <1>9. /\ writing'[s] = {0}
        /\ \A t \in Slots \ {s} : writing'[t] = writing[t]
        /\ writing' \in [Slots -> SUBSET (0 .. BatchCap)]
    <2>1. 0 \in 0 .. BatchCap
      BY CacheAssumption
    <2>2. QED
      BY <1>1, <1>3, <1>7, <2>1 DEF BeginRead, CInv, CTypeOK
  <1>10. /\ key_of' \in [Slots -> Keys \cup {EMPTY, INFLIGHT}]
         /\ used_at' \in [Slots -> 0 .. NSlots]
         /\ \A t \in Slots \ {s} : key_of'[t] = key_of[t]
         /\ pipeline => key_of'[s] = INFLIGHT
    <2>1. CASE pipeline
      BY <1>1, <1>3, <2>1, TouchType DEF CInv, CTypeOK
    <2>2. CASE ~pipeline
      BY <1>1, <2>2 DEF CInv, CTypeOK
    <2>3. QED
      BY <2>1, <2>2
  <1>11. CTypeOK'
    BY <1>1, <1>2, <1>3, <1>4, <1>8, <1>9, <1>10 DEF CInv, CTypeOK
  <1>12. at \in DOMAIN ids /\ K \in Keys /\ K' = K
    BY <1>2, AskedKey DEF CInv, Handed, Asked, K
  <1>13. Registered'
    <2> SUFFICES ASSUME NEW j \in Keys, slot_of'[j] >= 0
                 PROVE  key_of'[slot_of'[j]] = j /\ content'[slot_of'[j]] = j
      BY DEF Registered
    <2>1. slot_of'[j] = slot_of[j] /\ slot_of[j] \in Slots \ {s}
      BY <1>1, <1>4 DEF CInv, CTypeOK
    <2>2. QED
      BY <1>8, <1>10, <2>1 DEF CInv, Registered
  <1>14. Owned'
    <2>1. \A i \in Open' : /\ key_of'[work'[i].slot] = INFLIGHT
                           /\ slot_of'[work'[i].key] < 0
                           /\ work'[i].state = "got" => content'[work'[i].slot] = work'[i].key
      <3> SUFFICES ASSUME NEW i \in Open
                   PROVE  /\ key_of'[work[i].slot] = INFLIGHT
                          /\ slot_of'[work[i].key] < 0
                          /\ work[i].state = "got" => content'[work[i].slot] = work[i].key
        BY <1>2, <1>6
      <3>1. work[i].key \in Keys /\ slot_of[work[i].key] < 0 /\ key_of[work[i].slot] = INFLIGHT
        BY OpenEntry
      <3>2. slot_of'[work[i].key] < 0
        BY <1>1, <1>4, <3>1
      <3>3. QED
        BY <1>5, <1>8, <1>10, <3>1, <3>2 DEF CInv, Owned
    <2>2. QED
      BY <1>2, <1>6, <2>1 DEF CInv, Owned
  <1>15. Writers'
    <2>1. Readers(s)' = {}
      BY <1>2, <1>5, <1>6 DEF Readers
    <2>2. \A t \in Slots \ {s} : Readers(t)' = Readers(t)
      BY <1>2, <1>6 DEF Readers
    <2>3. QED
      BY <1>1, <1>2, <1>8, <1>9, <2>1, <2>2 DEF CInv, Writers
  <1>16. NoSlotLost'
    BY <1>1, <1>2, <1>6, <1>10 DEF CInv, NoSlotLost
  <1>17. SyncOwns'
    <2>1. slot_of'[K'] < 0 /\ \A i \in Open' : work'[i].key # K'
      BY <1>1, <1>2, <1>4, <1>6, <1>12 DEF CInv, SyncOwns
    <2>2. /\ held' \in Slots /\ \A k \in Keys : slot_of'[k] # held'
          /\ \A i \in Open' : work'[i].slot # held'
          /\ pipeline' => key_of'[held'] = INFLIGHT
      BY <1>1, <1>2, <1>3, <1>4, <1>5, <1>6, <1>10
    <2>3. QED
      BY <2>1, <2>2 DEF SyncOwns
  <1>18. Handed'
    BY <1>2, <1>12 DEF Handed
  <1>19. Progress'
    BY <1>2, <1>6 DEF CInv, Progress
  <1>20. QED
    BY <1>11, <1>13, <1>14, <1>15, <1>16, <1>17, <1>18, <1>19 DEF CInv

LEMMA MissReads ==
  ASSUME CInv, NEW ok \in BOOLEAN, MissRead(ok)
  PROVE  CInv'
  <1> USE DEF config, pool, caller
  <1>1. /\ mpc = "sync" /\ mpc' = (IF ok THEN "fill" ELSE "refused")
        /\ EndRead(0, held, K, ok) /\ Finish(held, K, ok)
        /\ UNCHANGED <<pinned, pipeline, batching, missing, hot, work, cursor, idle,
                       ids, at, held, dropped, asleep>>
    BY DEF MissRead
  <1>2. at \in DOMAIN ids /\ K \in Keys /\ K' = K
    BY <1>1, AskedKey DEF CInv, Handed, Asked, K
  <1>3. /\ held \in Slots /\ slot_of[K] < 0
        /\ \A k \in Keys : slot_of[k] # held
        /\ \A i \in Open : work[i].slot # held /\ work[i].key # K
    BY <1>1 DEF CInv, SyncOwns
  <1>4. /\ content'[held] = IF ok THEN K ELSE content[held]
        /\ \A t \in Slots \ {held} : content'[t] = content[t]
        /\ content' \in [Slots -> Keys \cup {Nothing, Torn}]
    BY <1>1, <1>2, <1>3 DEF EndRead, CInv, CTypeOK, Writers
  <1>5. /\ writing'[held] = writing[held] \ {0}
        /\ \A t \in Slots \ {held} : writing'[t] = writing[t]
        /\ writing' \in [Slots -> SUBSET (0 .. BatchCap)]
    BY <1>1, <1>3 DEF EndRead, CInv, CTypeOK
  <1>6. /\ slot_of' \in [Keys -> Slots \cup {-1}]
        /\ key_of' \in [Slots -> Keys \cup {EMPTY, INFLIGHT}]
        /\ used_at' \in [Slots -> 0 .. NSlots]
    BY <1>1, <1>2, <1>3, FinishType DEF CInv
  <1>7. /\ Registered'
        /\ key_of'[held] # INFLIGHT
        /\ \A t \in Slots \ {held} : key_of'[t] = key_of[t]
        /\ \A j \in Keys \ {K} : slot_of'[j] = slot_of[j]
        /\ slot_of'[K] = IF ok THEN held ELSE slot_of[K]
    BY <1>1, <1>2, <1>3, <1>4, Finished DEF CInv
  <1>8. Entries' = Entries /\ Open' = Open /\ Reading' = Reading
    BY <1>1 DEF Entries, Open, Reading
  <1>9. CTypeOK'
    BY <1>1, <1>4, <1>5, <1>6 DEF CInv, CTypeOK
  <1>10. Owned'
    <2>1. \A i \in Open' : /\ key_of'[work'[i].slot] = INFLIGHT
                           /\ slot_of'[work'[i].key] < 0
                           /\ work'[i].state = "got" => content'[work'[i].slot] = work'[i].key
      <3> SUFFICES ASSUME NEW i \in Open
                   PROVE  /\ key_of'[work[i].slot] = INFLIGHT
                          /\ slot_of'[work[i].key] < 0
                          /\ work[i].state = "got" => content'[work[i].slot] = work[i].key
        BY <1>1, <1>8
      <3>1. /\ work[i].key \in Keys \ {K} /\ work[i].slot \in Slots \ {held}
            /\ slot_of[work[i].key] < 0 /\ key_of[work[i].slot] = INFLIGHT
        BY <1>3, OpenEntry
      <3>2. QED
        BY <1>4, <1>7, <3>1 DEF CInv, Owned
    <2>2. QED
      BY <1>1, <1>8, <2>1 DEF CInv, Owned
  <1>11. Writers'
    <2>1. \A t \in Slots : content'[t] # Torn
      BY <1>2, <1>3, <1>4, CacheAssumption DEF CInv, Writers, Sentinels
    <2>2. \A t \in Slots : Readers(t)' = Readers(t) /\ 0 \notin Readers(t)
      BY <1>1, <1>8 DEF Readers, Reading, Entries
    <2>3. QED
      BY <1>1, <1>3, <1>5, <2>1, <2>2 DEF CInv, Writers
  <1>12. NoSlotLost'
    <2> SUFFICES ASSUME NEW t \in Slots, key_of'[t] = INFLIGHT
                 PROVE  \E i \in Open : work[i].slot = t
      BY <1>1, <1>8 DEF NoSlotLost
    <2>1. t # held /\ key_of[t] = INFLIGHT
      BY <1>7
    <2>2. QED
      BY <2>1 DEF CInv, NoSlotLost
  <1>13. SyncOwns'
    BY <1>1 DEF SyncOwns
  <1>14. Handed'
    BY <1>1, <1>2, <1>3, <1>7 DEF Handed
  <1>15. Progress'
    BY <1>1, <1>8 DEF CInv, Progress
  <1>16. QED
    BY <1>7, <1>9, <1>10, <1>11, <1>12, <1>13, <1>14, <1>15 DEF CInv
-----------------------------------------------------------------------------
LEMMA InvStep == CInv /\ [CNext]_cvars => CInv'
  <1> SUFFICES ASSUME CInv, [CNext]_cvars PROVE CInv'
    OBVIOUS
  <1>1. CASE CallerStep
    <2>1. CASE Drain \/ FreeEnd
      BY <2>1, Drains
    <2>2. CASE ReserveSkip \/ LaunchNothing \/ LaunchPool \/ LaunchAlone
      BY <2>2, Reserves
    <2>3. CASE ReserveSlot
      BY <2>3, SlotReserved
    <2>4. CASE LaunchSerial
      BY <2>4, SerialBegins
    <2>5. CASE AloneEnds \/ BatchEnds
      BY <2>5, BatchOver
    <2>6. CASE GetHit \/ GetWait \/ GetMiss \/ MissFails \/ Fill \/ NextExpert
      BY <2>6, GetsMove
    <2>7. CASE MissClaim
      BY <2>7, MissClaims
    <2>8. CASE \E ok \in BOOLEAN : RunAlone(ok) \/ MissRead(ok)
      BY <2>8, RunsAlone, MissReads
    <2>9. QED
      BY <1>1, <2>1, <2>2, <2>3, <2>4, <2>5, <2>6, <2>7, <2>8 DEF CallerStep
  <1>2. CASE ReaderStep
    <2>1. CASE WorkerTake
      BY <2>1, WorkerTakes
    <2>2. CASE WorkerExit
      BY <2>2, WorkerLeaves
    <2>3. CASE \E i \in Entries : BatchPublish(i)
      BY <2>3, SerialPublishes
    <2>4. CASE \E i \in Entries : \E ok \in BOOLEAN : BatchRead(i, ok) \/ WorkerPost(i, ok)
      BY <2>4, SerialReads, WorkerPosts
    <2>5. QED
      BY <1>2, <2>1, <2>2, <2>3, <2>4 DEF ReaderStep
  <1>3. CASE Choice
    <2>1. CASE Begin \/ DraftUse \/ FreeBegin
      BY <2>1, ListBegins
    <2>2. CASE Settle \/ \E k \in Keys : Pin(k) \/ Unpin(k) \/ PrefetchHit(k)
      BY <2>2, Drains
    <2>3. CASE \E k \in Keys : \E ok \in BOOLEAN : PrefetchMiss(k, ok)
      BY <2>3, PrefetchReads
    <2>4. CASE SpuriousWakeup
      BY <2>4, Stutters DEF SpuriousWakeup
    <2>5. QED
      BY <1>3, <2>1, <2>2, <2>3, <2>4 DEF Choice
  <1>4. CASE Freed \/ UNCHANGED cvars
    <2>1. UNCHANGED cvars
      BY <1>4 DEF Freed
    <2>2. asleep' \in BOOLEAN
      BY <2>1 DEF cvars, CInv, CTypeOK
    <2>3. QED
      BY <2>1, <2>2, Stutters DEF cvars, config, index, pool, memory
  <1>5. QED
    BY <1>1, <1>2, <1>3, <1>4 DEF CNext

(* The strengthened invariant of the cache holds in every run: whatever    *)
(* lists the MoE hands over, whichever reads fail, and however many        *)
(* workers publish in whatever order.                                      *)
THEOREM CacheInvariant == CSpec => []CInv
  BY InvHolds, InvStep, PTL DEF CSpec

(* Every variable of the cache keeps its type: no index of getmany, get or *)
(* the workers leaves the batch, the list or the slots.                    *)
THEOREM CacheTypes == CSpec => []CTypeOK
  <1>1. CInv => CTypeOK
    BY DEF CInv
  <1>2. QED
    BY <1>1, CacheInvariant, PTL

(* Two reads never fill one slot: a reserved slot is handed to nobody else *)
(* before its read has ended.                                              *)
THEOREM CacheOneReader == CSpec => []OneReaderPerSlot
  <1>1. CInv => OneReaderPerSlot
    <2> SUFFICES ASSUME CInv, NEW s \in Slots, NEW r \in writing[s], NEW q \in writing[s]
                 PROVE  r = q
      BY DEF OneReaderPerSlot
    <2>1. writing[s] = Readers(s) \cup (IF mpc = "sync" /\ held = s THEN {0} ELSE {})
      BY DEF CInv, Writers
    <2>2. \A i \in Readers(s) : i \in Open /\ work[i].slot = s
      BY DEF Readers, Reading, Open
    <2>3. CASE mpc = "sync" /\ held = s
      BY <2>1, <2>2, <2>3 DEF CInv, SyncOwns
    <2>4. CASE ~(mpc = "sync" /\ held = s)
      BY <2>1, <2>2, <2>4 DEF CInv, Owned
    <2>5. QED
      BY <2>3, <2>4
  <1>2. QED
    BY <1>1, CacheInvariant, PTL

(* An expert that counts as resident has its own bytes in its slot, and no *)
(* read is filling that slot.                                              *)
THEOREM CacheResident == CSpec => []ResidentHolds
  <1>1. CInv => ResidentHolds
    <2> SUFFICES ASSUME CInv, NEW k \in Keys, slot_of[k] >= 0
                 PROVE  /\ key_of[slot_of[k]] = k /\ content[slot_of[k]] = k
                        /\ writing[slot_of[k]] = {}
      BY DEF ResidentHolds
    <2>1. slot_of[k] \in Slots
      BY DEF CInv, CTypeOK
    <2>2. Readers(slot_of[k]) = {}
      <3>1. Reading \subseteq Open
        BY DEF Reading, Open
      <3>2. QED
        BY <3>1, OpenEntry DEF Readers
    <2>3. ~(mpc = "sync" /\ held = slot_of[k])
      BY DEF CInv, SyncOwns
    <2>4. QED
      BY <2>1, <2>2, <2>3 DEF CInv, Registered, Writers
  <1>2. QED
    BY <1>1, CacheInvariant, PTL

(* A slot in flight always has somebody who will finish it: neither a read *)
(* that fails nor the end of a batch leaves one behind.                    *)
THEOREM CacheLosesNoSlot == CSpec => []NoSlotLost
  <1>1. CInv => NoSlotLost
    BY DEF CInv
  <1>2. QED
    BY <1>1, CacheInvariant, PTL

(* The calling thread never reads an expert that a worker has yet to land, *)
(* and no two workers read the same one.                                   *)
THEOREM CacheReadsOnce == CSpec => []OneReadPerExpert
  <1>1. CInv => OneReadPerExpert
    <2> SUFFICES ASSUME CInv PROVE OneReadPerExpert
      OBVIOUS
    <2>1. Reading \subseteq Entries /\ Pending \subseteq Open
      BY DEF Reading, Pending, Open
    <2>2. QED
      BY <2>1 DEF OneReadPerExpert, CInv, Owned, SyncOwns
  <1>2. QED
    BY <1>1, CacheInvariant, PTL
-----------------------------------------------------------------------------
(***************************************************************************)
(* The two indexes are inverse to each other, and pins hold.               *)
(***************************************************************************)
LEMMA EvictedIndexed ==
  ASSUME CTypeOK, KeysIndexed, mpc # "sync", NEW s \in Slots
  PROVE  \A t \in Slots \ {s} : key_of[t] \in Keys => Evicted(s)[key_of[t]] = t
  <1> SUFFICES ASSUME NEW t \in Slots \ {s}, key_of[t] \in Keys
               PROVE  Evicted(s)[key_of[t]] = t
    OBVIOUS
  <1>1. slot_of[key_of[t]] = t /\ (key_of[s] \in Keys => slot_of[key_of[s]] = s)
    BY DEF KeysIndexed
  <1>2. key_of[s] # key_of[t]
    BY <1>1
  <1>3. QED
    BY <1>1, <1>2 DEF Evicted, CTypeOK

LEMMA FinishIndexed ==
  ASSUME CTypeOK, KeysIndexed, NEW s \in Slots, NEW k \in Keys, NEW ok \in BOOLEAN,
         Finish(s, k, ok), slot_of[k] < 0,
         mpc = "sync" => held = s \/ key_of[held] = INFLIGHT
  PROVE  \A t \in Slots : key_of'[t] \in Keys => slot_of'[key_of'[t]] = t
  <1> SUFFICES ASSUME NEW t \in Slots, key_of'[t] \in Keys
               PROVE  slot_of'[key_of'[t]] = t
    OBVIOUS
  <1>1. key_of' = [key_of EXCEPT ![s] = IF ok THEN k ELSE EMPTY]
    BY DEF Finish
  <1>2. slot_of' = IF ok THEN [slot_of EXCEPT ![k] = s] ELSE slot_of
    BY DEF Finish
  <1>3. CASE t = s
    <2>1. ok /\ key_of'[t] = k
      BY <1>1, <1>3, CacheAssumption DEF CTypeOK, Sentinels
    <2>2. QED
      BY <1>2, <1>3, <2>1 DEF CTypeOK
  <1>4. CASE t # s
    <2>1. key_of'[t] = key_of[t]
      BY <1>1, <1>4 DEF CTypeOK
    <2>2. key_of[t] # INFLIGHT
      BY <2>1, CacheAssumption DEF Sentinels
    <2>3. slot_of[key_of[t]] = t
      BY <1>4, <2>1, <2>2 DEF KeysIndexed
    <2>4. key_of[t] # k
      BY <2>3
    <2>5. QED
      BY <1>2, <2>1, <2>3, <2>4 DEF CTypeOK
  <1>5. QED
    BY <1>3, <1>4

(* What a step does to the index, sorted by the four ways the code has.    *)
LEMMA IndexSteps ==
  ASSUME CInv, CNext
  PROVE  \/ /\ UNCHANGED <<slot_of, key_of>>
            /\ mpc = "sync" => mpc' = "sync" /\ held' = held
         \/ \E s \in Slots, k \in Keys, ok \in BOOLEAN :
              /\ Finish(s, k, ok) /\ slot_of[k] < 0
              /\ key_of[s] = INFLIGHT \/ (mpc = "sync" /\ held = s)
              /\ mpc = "sync" => held = s \/ key_of[held] = INFLIGHT
         \/ \E X : \E s \in Victim(X) :
              /\ mpc # "sync" /\ slot_of' = Evicted(s)
              /\ \/ \E mark \in {EMPTY, INFLIGHT} : key_of' = [key_of EXCEPT ![s] = mark]
                 \/ key_of' = key_of /\ mpc' = "sync" /\ held' = s
         \/ \E s \in Victim({}), k \in Keys :
              /\ mpc # "sync" /\ slot_of[k] < 0
              /\ slot_of' = [Evicted(s) EXCEPT ![k] = s]
              /\ key_of' = [key_of EXCEPT ![s] = k]
  <1> DEFINE Still == /\ UNCHANGED <<slot_of, key_of>>
                      /\ mpc = "sync" => mpc' = "sync" /\ held' = held
             Ends == \E s \in Slots, k \in Keys, ok \in BOOLEAN :
                       /\ Finish(s, k, ok) /\ slot_of[k] < 0
                       /\ key_of[s] = INFLIGHT \/ (mpc = "sync" /\ held = s)
                       /\ mpc = "sync" => held = s \/ key_of[held] = INFLIGHT
             Evicts == \E X : \E s \in Victim(X) :
                         /\ mpc # "sync" /\ slot_of' = Evicted(s)
                         /\ \/ \E mark \in {EMPTY, INFLIGHT} :
                                 key_of' = [key_of EXCEPT ![s] = mark]
                            \/ key_of' = key_of /\ mpc' = "sync" /\ held' = s
             Replaces == \E s \in Victim({}), k \in Keys :
                           /\ mpc # "sync" /\ slot_of[k] < 0
                           /\ slot_of' = [Evicted(s) EXCEPT ![k] = s]
                           /\ key_of' = [key_of EXCEPT ![s] = k]
  <1> SUFFICES Still \/ Ends \/ Evicts \/ Replaces
    OBVIOUS
  <1> HIDE DEF Still, Ends, Evicts, Replaces
  <1>1. CASE \/ Drain \/ ReserveSkip \/ LaunchNothing \/ LaunchPool \/ LaunchAlone
             \/ LaunchSerial \/ AloneEnds \/ BatchEnds \/ FreeEnd \/ FreeBegin \/ Begin
             \/ DraftUse \/ Settle
             \/ \E k \in Keys : Pin(k) \/ Unpin(k) \/ PrefetchHit(k)
    BY <1>1 DEF Drain, ReserveSkip, LaunchNothing, LaunchPool, LaunchAlone, LaunchSerial,
       Reserved, AloneEnds, BatchEnds, FreeEnd, FreeBegin, Begin, DraftUse, Settle, Pin,
       Unpin, PrefetchHit, index, Still
  <1>2. CASE \/ GetHit \/ GetWait \/ GetMiss \/ MissFails \/ Fill \/ NextExpert
             \/ WorkerTake \/ WorkerExit \/ SpuriousWakeup \/ Freed
             \/ \E i \in Entries, ok \in BOOLEAN : BatchRead(i, ok)
    BY <1>2 DEF GetHit, GetWait, GetMiss, MissFails, Fill, NextExpert, WorkerTake,
       WorkerExit, SpuriousWakeup, Freed, BatchRead, Asking, index, caller, cvars, Still
  <1>3. CASE ReserveSlot
    <2> PICK s \in Victim(Requested) : /\ slot_of' = Evicted(s)
                                       /\ key_of' = [key_of EXCEPT ![s] = INFLIGHT]
      BY <1>3 DEF ReserveSlot
    <2>1. mpc # "sync"
      BY <1>3 DEF ReserveSlot
    <2>2. Evicts
      BY <2>1 DEF Evicts
    <2>3. QED
      BY <2>2
  <1>4. CASE MissClaim
    <2>1. mpc = "miss" /\ mpc' = "sync"
      BY <1>4 DEF MissClaim
    <2> PICK s \in Victim({}) :
          /\ held' = s /\ slot_of' = Evicted(s)
          /\ IF pipeline THEN key_of' = [key_of EXCEPT ![s] = INFLIGHT] ELSE key_of' = key_of
      BY <1>4 DEF MissClaim
    <2>2. Evicts
      BY <2>1 DEF Evicts
    <2>3. QED
      BY <2>2
  <1>5. CASE \E k \in Keys, ok \in BOOLEAN : PrefetchMiss(k, ok)
    <2> PICK k \in Keys, ok \in BOOLEAN : PrefetchMiss(k, ok)
      BY <1>5
    <2>1. mpc # "sync" /\ slot_of[k] < 0
      BY DEF PrefetchMiss
    <2> PICK s \in Victim({}) :
          IF ok THEN /\ slot_of' = [Evicted(s) EXCEPT ![k] = s]
                     /\ key_of' = [key_of EXCEPT ![s] = k]
          ELSE /\ slot_of' = Evicted(s)
               /\ key_of' = [key_of EXCEPT ![s] = EMPTY]
      BY DEF PrefetchMiss
    <2>2. CASE ok
      BY <2>1, <2>2 DEF Replaces
    <2>3. CASE ~ok
      BY <2>1, <2>3 DEF Evicts
    <2>4. QED
      BY <2>2, <2>3
  <1>6. CASE \E ok \in BOOLEAN : RunAlone(ok)
    <2> PICK ok \in BOOLEAN : RunAlone(ok)
      BY <1>6
    <2>1. mpc = "alone" /\ cursor \in Entries /\ cursor \in Open
      BY LenProperties DEF RunAlone, CInv, CTypeOK, Progress, Entries, Open
    <2>2. /\ work[cursor].slot \in Slots /\ work[cursor].key \in Keys
          /\ slot_of[work[cursor].key] < 0
          /\ key_of[work[cursor].slot] = INFLIGHT
      BY <2>1, OpenEntry
    <2>3. QED
      BY <2>1, <2>2 DEF RunAlone, Ends
  <1>7. CASE \E i \in Entries : BatchPublish(i)
    <2> PICK i \in Entries : BatchPublish(i)
      BY <1>7
    <2>1. mpc = "batch" /\ i \in Open
      BY DEF BatchPublish, Open
    <2>2. /\ work[i].slot \in Slots /\ work[i].key \in Keys /\ slot_of[work[i].key] < 0
          /\ key_of[work[i].slot] = INFLIGHT
      BY <2>1, OpenEntry
    <2> DEFINE ok == work[i].state = "got"
    <2>3. ok \in BOOLEAN /\ Finish(work[i].slot, work[i].key, ok)
      BY DEF BatchPublish
    <2> HIDE DEF ok
    <2>4. QED
      BY <2>1, <2>2, <2>3 DEF Ends
  <1>8. CASE \E i \in Entries, ok \in BOOLEAN : WorkerPost(i, ok)
    <2> PICK i \in Entries, ok \in BOOLEAN : WorkerPost(i, ok)
      BY <1>8
    <2>1. pipeline /\ i \in Open /\ Finish(work[i].slot, work[i].key, ok)
      BY DEF WorkerPost, Reading, Open
    <2>2. /\ work[i].slot \in Slots /\ work[i].key \in Keys /\ slot_of[work[i].key] < 0
          /\ key_of[work[i].slot] = INFLIGHT
      BY <2>1, OpenEntry
    <2>3. mpc = "sync" => key_of[held] = INFLIGHT
      BY <2>1 DEF CInv, SyncOwns
    <2>4. QED
      BY <2>1, <2>2, <2>3 DEF Ends
  <1>9. CASE \E ok \in BOOLEAN : MissRead(ok)
    <2> PICK ok \in BOOLEAN : MissRead(ok)
      BY <1>9
    <2>1. mpc = "sync" /\ Finish(held, K, ok)
      BY DEF MissRead
    <2>2. held \in Slots /\ slot_of[K] < 0 /\ K \in Keys
      BY <2>1, AskedKey DEF CInv, SyncOwns, Handed, Asked
    <2>3. QED
      BY <2>1, <2>2 DEF Ends
  <1>10. QED
    BY <1>1, <1>2, <1>3, <1>4, <1>5, <1>6, <1>7, <1>8, <1>9
       DEF CNext, CallerStep, ReaderStep, Choice

LEMMA IndexedStep ==
  ASSUME CInv, KeysIndexed, CNext
  PROVE  KeysIndexed'
  <1> SUFFICES ASSUME NEW t \in Slots, key_of'[t] \in Keys, ~(mpc' = "sync" /\ held' = t)
               PROVE  slot_of'[key_of'[t]] = t
    BY DEF KeysIndexed
  <1>1. CASE /\ UNCHANGED <<slot_of, key_of>>
             /\ mpc = "sync" => mpc' = "sync" /\ held' = held
    BY <1>1 DEF KeysIndexed
  <1>2. CASE \E s \in Slots, k \in Keys, ok \in BOOLEAN :
               /\ Finish(s, k, ok) /\ slot_of[k] < 0
               /\ mpc = "sync" => held = s \/ key_of[held] = INFLIGHT
    BY <1>2, FinishIndexed DEF CInv
  <1>3. CASE \E X : \E s \in Victim(X) :
               /\ mpc # "sync" /\ slot_of' = Evicted(s)
               /\ \/ \E mark \in {EMPTY, INFLIGHT} : key_of' = [key_of EXCEPT ![s] = mark]
                  \/ key_of' = key_of /\ mpc' = "sync" /\ held' = s
    <2> PICK X : \E s \in Victim(X) :
          /\ mpc # "sync" /\ slot_of' = Evicted(s)
          /\ \/ \E mark \in {EMPTY, INFLIGHT} : key_of' = [key_of EXCEPT ![s] = mark]
             \/ key_of' = key_of /\ mpc' = "sync" /\ held' = s
      BY <1>3
    <2> PICK s \in Victim(X) :
          /\ mpc # "sync" /\ slot_of' = Evicted(s)
          /\ \/ \E mark \in {EMPTY, INFLIGHT} : key_of' = [key_of EXCEPT ![s] = mark]
             \/ key_of' = key_of /\ mpc' = "sync" /\ held' = s
      OBVIOUS
    <2>1. s \in Slots
      BY VictimFacts DEF CInv
    <2>2. t # s /\ key_of'[t] = key_of[t]
      BY <2>1, CacheAssumption DEF CInv, CTypeOK, Sentinels
    <2>3. QED
      BY <2>1, <2>2, EvictedIndexed DEF CInv
  <1>4. CASE \E s \in Victim({}), k \in Keys :
               /\ mpc # "sync" /\ slot_of[k] < 0
               /\ slot_of' = [Evicted(s) EXCEPT ![k] = s]
               /\ key_of' = [key_of EXCEPT ![s] = k]
    <2> PICK s \in Victim({}), k \in Keys :
          /\ mpc # "sync" /\ slot_of[k] < 0
          /\ slot_of' = [Evicted(s) EXCEPT ![k] = s]
          /\ key_of' = [key_of EXCEPT ![s] = k]
      BY <1>4
    <2>1. s \in Slots /\ key_of[s] # INFLIGHT
      BY VictimFacts DEF CInv
    <2>2. Evicted(s) \in [Keys -> Slots \cup {-1}]
      BY <2>1, EvictedFacts DEF CInv
    <2>3. CASE t = s
      BY <2>1, <2>2, <2>3 DEF CInv, CTypeOK
    <2>4. CASE t # s
      <3>1. key_of'[t] = key_of[t] /\ slot_of[key_of[t]] = t
        BY <2>1, <2>4 DEF KeysIndexed, CInv, CTypeOK
      <3>2. Evicted(s)[key_of[t]] = t /\ key_of[t] # k
        BY <2>1, <2>4, <3>1, EvictedIndexed DEF CInv
      <3>3. QED
        BY <2>2, <3>1, <3>2
    <2>5. QED
      BY <2>3, <2>4
  <1>5. QED
    BY <1>1, <1>2, <1>3, <1>4, IndexSteps

(* key_of and slot_of are inverse to each other, except that the serial    *)
(* path of cache_get leaves the evicted expert's name while it reads.      *)
THEOREM CacheIndexed == CSpec => []KeysIndexed
  <1>1. CInit => KeysIndexed
    BY CacheAssumption DEF CInit, KeysIndexed, Sentinels
  <1>2. CInv /\ KeysIndexed /\ [CNext]_cvars => KeysIndexed'
    <2>1. CInv /\ KeysIndexed /\ UNCHANGED cvars => KeysIndexed'
      BY DEF cvars, KeysIndexed
    <2>2. QED
      BY <2>1, IndexedStep
  <1>3. QED
    BY <1>1, <1>2, CacheInvariant, PTL DEF CSpec

LEMMA VictimSpares ==
  ASSUME CTypeOK, KeysIndexed, mpc # "sync", NEW X, NEW s \in Victim(X), NEW k \in Keys,
         slot_of[k] >= 0, k \in hot \/ slot_of[k] \in pinned
  PROVE  Evicted(s)[k] = slot_of[k]
  <1>1. s \in Slots /\ (key_of[s] = EMPTY \/ key_of[s] \in Keys)
    BY VictimFacts
  <1>2. CASE key_of[s] = k
    <2>1. slot_of[k] = s
      BY <1>1, <1>2 DEF KeysIndexed
    <2>2. s \notin Free
      BY <1>2, CacheAssumption DEF Free, Sentinels
    <2>3. s \in Evictable(X)
      BY <2>2 DEF Victim
    <2>4. QED
      BY <1>2, <2>1, <2>3 DEF Evictable
  <1>3. CASE key_of[s] # k
    BY <1>3 DEF Evicted, CTypeOK
  <1>4. QED
    BY <1>2, <1>3

(* What is pinned, by k3_cache_pin or by the profile, is never evicted: no *)
(* get, prefetch or batch moves it or forgets it.                          *)
THEOREM CachePinsHold == CSpec => PinsHold
  <1> DEFINE Holds == \A k \in Keys : slot_of[k] >= 0 /\ (k \in hot \/ slot_of[k] \in pinned)
                                      => slot_of'[k] = slot_of[k]
  <1>1. CInv /\ KeysIndexed /\ [CNext]_cvars => [Holds]_cvars
    <2> SUFFICES ASSUME CInv, KeysIndexed, CNext, NEW k \in Keys, slot_of[k] >= 0,
                        k \in hot \/ slot_of[k] \in pinned
                 PROVE  slot_of'[k] = slot_of[k]
      OBVIOUS
    <2>1. CASE UNCHANGED <<slot_of, key_of>>
      BY <2>1
    <2>2. CASE \E s \in Slots, j \in Keys, ok \in BOOLEAN :
                 Finish(s, j, ok) /\ slot_of[j] < 0
      BY <2>2 DEF Finish, CInv, CTypeOK
    <2>3. CASE \E X : \E s \in Victim(X) : mpc # "sync" /\ slot_of' = Evicted(s)
      BY <2>3, VictimSpares DEF CInv
    <2>4. CASE \E s \in Victim({}), j \in Keys :
                 /\ mpc # "sync" /\ slot_of[j] < 0
                 /\ slot_of' = [Evicted(s) EXCEPT ![j] = s]
      <3> PICK s \in Victim({}), j \in Keys :
                 /\ mpc # "sync" /\ slot_of[j] < 0
                 /\ slot_of' = [Evicted(s) EXCEPT ![j] = s]
        BY <2>4
      <3>1. Evicted(s)[k] = slot_of[k]
        BY VictimSpares DEF CInv
      <3>a. j # k
        BY DEF CInv, CTypeOK
      <3>2. Evicted(s) \in [Keys -> Slots \cup {-1}]
        BY VictimFacts, EvictedFacts DEF CInv
      <3>3. QED
        BY <3>1, <3>a, <3>2
    <2>5. QED
      BY <2>1, <2>2, <2>3, <2>4, IndexSteps
  <1>2. QED
    BY <1>1, CacheInvariant, CacheIndexed, PTL DEF CSpec, PinsHold
-----------------------------------------------------------------------------
(***************************************************************************)
(* The cache implements ExpertStore.                                       *)
(***************************************************************************)
LEMMA Phases ==
  /\ mpc \in {"waiting", "miss", "sync", "fill"} => PhaseOf = "asked"
  /\ mpc = "use" => PhaseOf = "use"
  /\ mpc = "closed" => PhaseOf = "closed"
  /\ mpc \notin {"waiting", "miss", "sync", "fill", "use", "closed"} => PhaseOf = "rest"
  BY DEF PhaseOf

LEMMA ServedBytes ==
  CInv => BytesServed = IF mpc = "use" THEN K ELSE "none"
  <1> SUFFICES ASSUME CInv, mpc = "use" PROVE content[held] = K
    BY DEF BytesServed
  <1>1. K \in Keys /\ held \in Slots /\ slot_of[K] = held
    BY AskedKey DEF CInv, Handed, Asked
  <1>2. QED
    BY <1>1 DEF CInv, Registered

(* Every expert the MoE multiplies is read through pointers to that        *)
(* expert's own bytes, from get to the next request, whatever evictions,   *)
(* batches and failing reads happen beside it.                             *)
THEOREM CacheServes == CSpec => ServesTheExpert
  <1>1. CInit => Store!Init
    BY DEF CInit, Store!Init, Store!None, PhaseOf, Wanted, BytesServed
  <1>2. (CInv => BytesServed = IF mpc = "use" THEN K ELSE "none")'
    BY ServedBytes, PTL
  <1>3. /\ (mpc \in {"waiting", "miss", "sync", "fill"} => PhaseOf = "asked")'
        /\ (mpc = "use" => PhaseOf = "use")'
        /\ (mpc = "closed" => PhaseOf = "closed")'
        /\ (mpc \notin {"waiting", "miss", "sync", "fill", "use", "closed"} => PhaseOf = "rest")'
    BY Phases, PTL
  <1>4. CInv /\ CInv' /\ [CNext]_cvars => [Store!Next]_Store!vars
    <2> SUFFICES ASSUME CInv, CInv', [CNext]_cvars
                 PROVE  Store!Next \/ UNCHANGED Store!vars
      OBVIOUS
    <2>1. /\ BytesServed = IF mpc = "use" THEN K ELSE "none"
          /\ BytesServed' = IF mpc' = "use" THEN K' ELSE "none"
      BY <1>2, ServedBytes
    <2>2. /\ Wanted = IF PhaseOf \in {"asked", "use"} THEN K ELSE "none"
          /\ Wanted' = IF PhaseOf' \in {"asked", "use"} THEN K' ELSE "none"
      BY DEF Wanted
    <2>3. ASSUME mpc' = mpc, ids' = ids, at' = at
          PROVE  UNCHANGED Store!vars
      <3>1. K' = K /\ PhaseOf' = PhaseOf
        BY <2>3, Zenon DEF K, PhaseOf
      <3>2. QED
        BY <2>1, <2>2, <2>3, <3>1 DEF Store!vars
    <2>4. ASSUME mpc \in {"rest", "drain", "reserve", "alone", "batch", "freeing", "refused"},
                 mpc' \in {"rest", "drain", "reserve", "alone", "batch", "freeing", "get"}
          PROVE  UNCHANGED Store!vars
      BY <1>3, <2>1, <2>2, <2>4, Phases DEF Store!vars
    <2>5. CASE Drain \/ ReserveSkip \/ ReserveSlot \/ LaunchNothing \/ LaunchPool
               \/ LaunchAlone \/ LaunchSerial \/ AloneEnds \/ BatchEnds \/ Begin \/ FreeBegin
               \/ \E ok \in BOOLEAN : RunAlone(ok)
      BY <2>4, <2>5 DEF Drain, ReserveSkip, ReserveSlot, LaunchNothing, LaunchPool,
         LaunchAlone, LaunchSerial, Reserved, AloneEnds, BatchEnds, Begin, FreeBegin, RunAlone
    <2>6. CASE \/ WorkerTake \/ WorkerExit \/ Settle \/ SpuriousWakeup \/ Freed
               \/ UNCHANGED cvars
               \/ \E i \in Entries, ok \in BOOLEAN : BatchRead(i, ok) \/ WorkerPost(i, ok)
               \/ \E i \in Entries : BatchPublish(i)
               \/ \E k \in Keys : Pin(k) \/ Unpin(k) \/ PrefetchHit(k)
               \/ \E k \in Keys, ok \in BOOLEAN : PrefetchMiss(k, ok)
      <3>1. mpc' = mpc /\ ids' = ids /\ at' = at
        BY <2>6 DEF WorkerTake, WorkerExit, Settle, SpuriousWakeup, Freed, cvars, BatchRead,
           WorkerPost, BatchPublish, Pin, Unpin, PrefetchHit, PrefetchMiss, caller
      <3>2. QED
        BY <2>3, <3>1
    <2>7. CASE GetHit \/ GetWait \/ GetMiss
      <3>1. /\ mpc \in {"get", "waiting"} /\ mpc' \in {"fill", "waiting", "miss"}
            /\ ids' = ids /\ at' = at
        BY <2>7 DEF GetHit, GetWait, GetMiss, Asking, caller
      <3>2. K' = K /\ K \in Keys
        BY <3>1, AskedKey DEF K, CInv, Handed, Asked
      <3>3. CASE mpc = "get"
        <4>1. Store!Ask
          BY <1>3, <2>1, <2>2, <3>1, <3>2, <3>3, Phases DEF Store!Ask
        <4>2. QED
          BY <4>1 DEF Store!Next
      <3>4. CASE mpc = "waiting"
        BY <1>3, <2>1, <2>2, <3>1, <3>2, <3>4, Phases DEF Store!vars
      <3>5. QED
        BY <3>1, <3>3, <3>4
    <2>8. CASE MissClaim \/ MissFails \/ \E ok \in BOOLEAN : MissRead(ok)
      <3>1. /\ mpc \in {"miss", "sync"} /\ mpc' \in {"sync", "fill", "refused"}
            /\ ids' = ids /\ at' = at
        BY <2>8 DEF MissClaim, MissFails, MissRead, caller
      <3>2. K' = K
        BY <3>1 DEF K
      <3>3. CASE mpc' = "refused"
        <4>1. Store!Refuse
          BY <1>3, <2>1, <2>2, <3>1, <3>3, Phases DEF Store!Refuse, Store!None
        <4>2. QED
          BY <4>1 DEF Store!Next
      <3>4. CASE mpc' # "refused"
        BY <1>3, <2>1, <2>2, <3>1, <3>2, <3>4, Phases DEF Store!vars
      <3>5. QED
        BY <3>3, <3>4
    <2>9. CASE Fill
      <3>1. mpc = "fill" /\ mpc' = "use" /\ K' = K
        BY <2>9 DEF Fill, caller, K
      <3>2. Store!Serve
        BY <1>3, <2>1, <2>2, <3>1, Phases DEF Store!Serve
      <3>3. QED
        BY <3>2 DEF Store!Next
    <2>10. CASE NextExpert
      <3>1. mpc \in {"use", "refused"} /\ mpc' \in {"get", "rest"}
        BY <2>10 DEF NextExpert
      <3>2. CASE mpc = "use"
        <4>1. Store!Release
          BY <1>3, <2>1, <2>2, <3>1, <3>2, Phases DEF Store!Release, Store!None
        <4>2. QED
          BY <4>1 DEF Store!Next
      <3>3. CASE mpc = "refused"
        BY <2>4, <3>1, <3>3
      <3>4. QED
        BY <3>1, <3>2, <3>3
    <2>11. CASE DraftUse
      <3>1. PICK k \in Keys : ids' = <<k>>
        BY <2>11 DEF DraftUse
      <3>2. mpc = "rest" /\ mpc' = "fill" /\ K' = k
        BY <2>11, <3>1 DEF DraftUse, K
      <3>3. Store!Ask
        BY <1>3, <2>1, <2>2, <3>2, Phases DEF Store!Ask
      <3>4. QED
        BY <3>3 DEF Store!Next
    <2>12. CASE FreeEnd
      <3>1. mpc = "freeing" /\ mpc' = "closed"
        BY <2>12 DEF FreeEnd
      <3>2. Store!Close
        BY <1>3, <2>1, <2>2, <3>1, Phases DEF Store!Close
      <3>3. QED
        BY <3>2 DEF Store!Next
    <2>13. QED
      BY <2>5, <2>6, <2>7, <2>8, <2>9, <2>10, <2>11, <2>12
         DEF CNext, CallerStep, ReaderStep, Choice
  <1>5. QED
    BY <1>1, <1>4, CacheInvariant, PTL DEF CSpec, ServesTheExpert, Store!Spec
-----------------------------------------------------------------------------
(***************************************************************************)
(* Room: there is always a slot to be had.                                 *)
(***************************************************************************)
LEMMA SlotSets ==
  /\ NSlots \in Nat /\ IsFiniteSet(Slots) /\ Cardinality(Slots) = NSlots
  /\ \A S \in SUBSET Slots : IsFiniteSet(S) /\ Cardinality(S) \in 0 .. NSlots
  <1>1. NSlots \in Nat
    BY CacheAssumption
  <1>2. IsFiniteSet(0 .. NSlots - 1) /\ Cardinality(0 .. NSlots - 1) = NSlots
    BY <1>1, FS_Interval
  <1>3. ASSUME NEW S \in SUBSET Slots
        PROVE  IsFiniteSet(S) /\ Cardinality(S) \in 0 .. NSlots
    <2>1. IsFiniteSet(S) /\ Cardinality(S) <= NSlots
      BY <1>2, FS_Subset
    <2>2. Cardinality(S) \in Nat
      BY <2>1, FS_CardinalityType
    <2>3. QED
      BY <1>1, <2>1, <2>2
  <1>4. QED
    BY <1>1, <1>2, <1>3

LEMMA KeySets ==
  \A S \in SUBSET Keys : IsFiniteSet(S) /\ Cardinality(S) \in Nat
  BY CacheAssumption, FS_Subset, FS_CardinalityType

(* A set that can be sent into another without two elements meeting.       *)
LEMMA NoMore ==
  ASSUME NEW S, NEW D, IsFiniteSet(D), NEW f \in [S -> D],
         \A x, z \in S : f[x] = f[z] => x = z
  PROVE  IsFiniteSet(S) /\ Cardinality(S) <= Cardinality(D)
  <1>1. f \in Injection(S, D)
    BY DEF Injection, IsInjective
  <1>2. QED
    BY <1>1, FS_Injection

(***************************************************************************)
(* Pins.                                                                   *)
(***************************************************************************)
LEMMA PinsFrame ==
  ASSUME PinsFit, hot' = hot, pinned' = pinned,
         \A s \in pinned : key_of'[s] = key_of[s],
         mpc' = "sync" => held' \notin pinned
  PROVE  PinsFit'
  <1>1. ManualPins' = ManualPins
    BY DEF ManualPins
  <1>2. Pinnable' = Pinnable
    BY DEF Pinnable
  <1>3. QED
    BY <1>1, <1>2 DEF PinsFit

LEMMA VictimUnpinned ==
  ASSUME CTypeOK, PinsFit, NEW X, NEW s \in Victim(X)
  PROVE  s \notin pinned
  <1>1. CASE Free # {}
    BY <1>1, CacheAssumption DEF Victim, Free, PinsFit, Sentinels
  <1>2. CASE Free = {}
    BY <1>2 DEF Victim, Evictable
  <1>3. QED
    BY <1>1, <1>2

LEMMA SyncBegins ==
  ASSUME CNext, mpc' = "sync"
  PROVE  (mpc = "sync" /\ held' = held) \/ MissClaim
  <1>1. CASE CallerStep
    BY <1>1 DEF CallerStep, Drain, ReserveSkip, ReserveSlot, LaunchNothing, LaunchPool,
       LaunchAlone, LaunchSerial, Reserved, AloneEnds, BatchEnds, GetHit, GetWait, GetMiss,
       MissFails, Fill, NextExpert, FreeEnd, RunAlone, MissRead
  <1>2. CASE ReaderStep
    BY <1>2 DEF ReaderStep, WorkerTake, WorkerExit, BatchPublish, BatchRead, WorkerPost, caller
  <1>3. CASE Choice
    BY <1>3 DEF Choice, Begin, DraftUse, Settle, FreeBegin, SpuriousWakeup, Pin, Unpin,
       PrefetchHit, PrefetchMiss
  <1>4. CASE Freed
    BY <1>4 DEF Freed, cvars
  <1>5. QED
    BY <1>1, <1>2, <1>3, <1>4 DEF CNext

(* hot is fixed, and only pin and unpin change what is pinned.             *)
LEMMA PinSteps ==
  ASSUME CNext
  PROVE  /\ UNCHANGED config
         /\ pinned' = pinned \/ \E k \in Keys : Pin(k) \/ Unpin(k)
  <1>1. CASE CallerStep
    BY <1>1 DEF CallerStep, Drain, ReserveSkip, ReserveSlot, LaunchNothing, LaunchPool,
       LaunchAlone, LaunchSerial, Reserved, AloneEnds, BatchEnds, GetHit, GetWait, GetMiss,
       MissClaim, MissFails, Fill, NextExpert, FreeEnd, RunAlone, MissRead
  <1>2. CASE ReaderStep
    BY <1>2 DEF ReaderStep, WorkerTake, WorkerExit, BatchPublish, BatchRead, WorkerPost
  <1>3. CASE Choice
    BY <1>3 DEF Choice, Begin, DraftUse, Settle, FreeBegin, SpuriousWakeup, Pin, Unpin,
       PrefetchHit, PrefetchMiss
  <1>4. CASE Freed
    BY <1>4 DEF Freed, cvars, config
  <1>5. QED
    BY <1>1, <1>2, <1>3, <1>4 DEF CNext

(* No step takes the name off a pinned slot.                               *)
LEMMA PinnedNamed ==
  ASSUME CInv, PinsFit, CNext, NEW s \in pinned
  PROVE  key_of'[s] = key_of[s]
  <1>0. s \in Slots /\ key_of[s] \in Keys /\ key_of[s] # INFLIGHT
    BY CacheAssumption DEF PinsFit, CInv, CTypeOK, Sentinels
  <1>1. CASE \E t \in Slots, k \in Keys, ok \in BOOLEAN :
               /\ Finish(t, k, ok)
               /\ key_of[t] = INFLIGHT \/ (mpc = "sync" /\ held = t)
    <2>1. PICK t \in Slots, k \in Keys, ok \in BOOLEAN :
               /\ Finish(t, k, ok)
               /\ key_of[t] = INFLIGHT \/ (mpc = "sync" /\ held = t)
      BY <1>1
    <2>2. t # s
      BY <1>0, <2>1 DEF PinsFit
    <2>3. QED
      BY <1>0, <2>1, <2>2 DEF Finish, CInv, CTypeOK
  <1>2. CASE \E X : \E t \in Victim(X) :
               \/ \E mark : key_of' = [key_of EXCEPT ![t] = mark]
               \/ key_of' = key_of
    <2>1. PICK X : \E t \in Victim(X) : \/ \E mark : key_of' = [key_of EXCEPT ![t] = mark]
                                        \/ key_of' = key_of
      BY <1>2
    <2>2. PICK t \in Victim(X) : \/ \E mark : key_of' = [key_of EXCEPT ![t] = mark]
                                 \/ key_of' = key_of
      BY <2>1
    <2>3. t # s
      BY VictimUnpinned DEF CInv
    <2>4. QED
      BY <1>0, <2>2, <2>3 DEF CInv, CTypeOK
  <1>3. QED
    BY <1>1, <1>2, IndexSteps

LEMMA PinsStep ==
  ASSUME CInv, KeysIndexed, PinsFit, CNext
  PROVE  PinsFit'
  <1>1. mpc' = "sync" => held' \notin pinned
    <2>1. CASE mpc = "sync" /\ held' = held
      BY <2>1 DEF PinsFit
    <2>2. CASE MissClaim
      BY <2>2, VictimUnpinned DEF MissClaim, CInv
    <2>3. QED
      BY <2>1, <2>2, SyncBegins
  <1>2. \A s \in pinned : key_of'[s] = key_of[s]
    BY PinnedNamed
  <1>3. hot' = hot
    BY PinSteps DEF config
  <1>4. CASE pinned' = pinned
    BY <1>1, <1>2, <1>3, <1>4, PinsFrame
  <1>5. ASSUME NEW k \in Keys, Pin(k)
        PROVE  PinsFit'
    <2>1. /\ mpc = "rest" /\ mpc' = "rest" /\ key_of' = key_of /\ slot_of[k] >= 0
          /\ pinned' = pinned \cup {slot_of[k]}
          /\ slot_of[k] \in pinned \/ k \in hot \/ PinsLeft
      BY <1>5 DEF Pin, index
    <2>2. slot_of[k] \in Slots /\ key_of[slot_of[k]] = k
      BY <2>1 DEF CInv, CTypeOK, Registered
    <2>3. \A s \in pinned' : key_of'[s] \in Keys
      BY <2>1, <2>2 DEF PinsFit
    <2>4. ManualPins' = IF k \in hot THEN ManualPins ELSE ManualPins \cup {slot_of[k]}
      BY <1>3, <2>1, <2>2 DEF ManualPins
    <2>5. IsFiniteSet(ManualPins) /\ Cardinality(ManualPins) \in Nat
      BY SlotSets DEF ManualPins, CInv, CTypeOK
    <2>6. Cardinality(hot) \in Nat
      BY KeySets DEF CInv, CTypeOK
    <2>7. Pinnable \in Int /\ Pinnable' = Pinnable
      BY CacheAssumption DEF Pinnable
    <2>8. Cardinality(hot) + Cardinality(ManualPins') <= Pinnable
      <3>1. CASE k \in hot \/ slot_of[k] \in pinned
        <4>1. ManualPins' = ManualPins
          BY <2>2, <2>4, <3>1 DEF ManualPins
        <4>2. QED
          BY <4>1 DEF PinsFit
      <3>2. CASE ~(k \in hot \/ slot_of[k] \in pinned)
        <4>1. Cardinality(hot) + Cardinality(ManualPins) < Pinnable
          BY <2>1, <3>2 DEF PinsLeft
        <4>2. LET M == ManualPins \cup {slot_of[k]} IN
              Cardinality(M) \in Nat /\ Cardinality(M) <= Cardinality(ManualPins) + 1
          <5>1. PICK M : M = ManualPins
            OBVIOUS
          <5>2. LET N == M \cup {slot_of[k]} IN
                IsFiniteSet(N) /\ Cardinality(N) <= Cardinality(M) + 1
            BY <2>5, <5>1, FS_AddElement
          <5>3. QED
            BY <5>1, <5>2, FS_CardinalityType
        <4>3. ManualPins' = ManualPins \cup {slot_of[k]}
          BY <2>4, <3>2
        <4>4. QED
          BY <2>5, <2>6, <2>7, <4>1, <4>2, <4>3
      <3>3. QED
        BY <3>1, <3>2
    <2>9. QED
      BY <1>3, <2>1, <2>3, <2>7, <2>8 DEF PinsFit
  <1>6. ASSUME NEW k \in Keys, Unpin(k)
        PROVE  PinsFit'
    <2>1. mpc = "rest" /\ mpc' = "rest" /\ key_of' = key_of /\ pinned' \subseteq pinned
      BY <1>6 DEF Unpin, index
    <2>2. ManualPins' \subseteq ManualPins
      BY <1>3, <2>1 DEF ManualPins
    <2>3. IsFiniteSet(ManualPins) /\ Cardinality(ManualPins) \in Nat
      BY SlotSets DEF ManualPins, CInv, CTypeOK
    <2>4. Cardinality(ManualPins') <= Cardinality(ManualPins) /\ Cardinality(ManualPins') \in Nat
      BY <2>2, <2>3, FS_Subset, FS_CardinalityType
    <2>5. Cardinality(hot) \in Nat
      BY KeySets DEF CInv, CTypeOK
    <2>6. Pinnable \in Int /\ Pinnable' = Pinnable
      BY CacheAssumption DEF Pinnable
    <2>7. QED
      BY <1>3, <2>1, <2>3, <2>4, <2>5, <2>6 DEF PinsFit
  <1>7. QED
    BY <1>4, <1>5, <1>6, PinSteps
-----------------------------------------------------------------------------
(***************************************************************************)
(* The batch shrinks while the list is worked through.                     *)
(***************************************************************************)
LEMMA OpenShrinks ==
  ASSUME CInv, CNext, ~ReserveSlot
  PROVE  \A i \in Open' : i \in Open /\ work'[i].key = work[i].key
  <1> USE DEF Open
  <1>1. ASSUME work' = work
        PROVE  \A i \in Open' : i \in Open /\ work'[i].key = work[i].key
    BY <1>1 DEF Entries
  <1>2. ASSUME work' = <<>>
        PROVE  \A i \in Open' : i \in Open /\ work'[i].key = work[i].key
    BY <1>2 DEF Entries
  <1>3. ASSUME NEW i \in Open, NEW st \in States, work' = [work EXCEPT ![i].state = st]
        PROVE  \A j \in Open' : j \in Open /\ work'[j].key = work[j].key
    <2>1. i \in Entries
      OBVIOUS
    <2>2. /\ Entries' = Entries
          /\ \A j \in Entries : /\ work'[j].key = work[j].key
                                /\ work'[j].state = IF j = i THEN st ELSE work[j].state
      BY <1>3, <2>1, EntryMoves DEF CInv
    <2>3. work[i].state # "over"
      OBVIOUS
    <2>4. QED
      BY <2>1, <2>2, <2>3
  <1>4. ASSUME work' = [i \in Entries |-> [work[i] EXCEPT !.state = "reading"]], mpc = "reserve"
        PROVE  \A j \in Open' : j \in Open /\ work'[j].key = work[j].key
    <2>1. \A i \in Entries : work[i].state = "pending"
      BY <1>4 DEF CInv, Progress, CTypeOK, Entries
    <2>2. Entries' = Entries
      BY <1>4, LenProperties DEF Entries, CInv, CTypeOK
    <2>3. \A i \in Entries : work'[i].key = work[i].key
      <3> TAKE i \in Entries
      <3>1. work[i] \in Work
        BY ElementOfSeq DEF CInv, CTypeOK, Entries
      <3>2. work'[i] = [work[i] EXCEPT !.state = "reading"]
        BY <1>4
      <3>3. QED
        BY <3>1, <3>2 DEF Work
    <2>4. QED
      BY <2>1, <2>2, <2>3
  <1>5. CASE \/ ReserveSkip \/ LaunchNothing \/ LaunchPool \/ LaunchAlone
             \/ GetHit \/ GetWait \/ GetMiss \/ MissClaim \/ MissFails \/ Fill \/ NextExpert
             \/ WorkerExit \/ Begin \/ DraftUse \/ FreeBegin \/ SpuriousWakeup \/ Freed
             \/ \E ok \in BOOLEAN : MissRead(ok)
    BY <1>1, <1>5 DEF ReserveSkip, LaunchNothing, LaunchPool, LaunchAlone, GetHit, GetWait,
       GetMiss, MissClaim, MissFails, Fill, NextExpert, WorkerExit, Begin, DraftUse,
       FreeBegin, SpuriousWakeup, Freed, MissRead, pool, cvars
  <1>6. CASE \/ Drain \/ AloneEnds \/ BatchEnds \/ FreeEnd \/ Settle
             \/ \E k \in Keys : \/ Pin(k) \/ Unpin(k) \/ PrefetchHit(k)
                               \/ \E ok \in BOOLEAN : PrefetchMiss(k, ok)
    BY <1>2, <1>6 DEF Drain, AloneEnds, BatchEnds, FreeEnd, Settle, Pin, Unpin, PrefetchHit,
       PrefetchMiss, Drained
  <1>7. CASE LaunchSerial
    BY <1>4, <1>7 DEF LaunchSerial, Reserved
  <1>8. CASE \E ok \in BOOLEAN : RunAlone(ok)
    <2>1. mpc = "alone" /\ cursor \in Entries /\ cursor \in Open
      BY <1>8, LenProperties DEF RunAlone, CInv, CTypeOK, Progress, Entries
    <2>2. work' = [work EXCEPT ![cursor].state = "over"]
      BY <1>8 DEF RunAlone
    <2>3. QED
      BY <1>3, <2>1, <2>2 DEF States
  <1>9. CASE WorkerTake
    <2>0. mpc # "batch" /\ cursor \in Entries
      BY <1>9, LenProperties DEF WorkerTake, CInv, CTypeOK, Progress, Entries
    <2>1. cursor \in Open
      BY <2>0 DEF CInv, CTypeOK, Progress
    <2>2. work' = [work EXCEPT ![cursor].state = "reading"]
      BY <1>9 DEF WorkerTake
    <2>3. QED
      BY <1>3, <2>1, <2>2 DEF States
  <1>10. ASSUME NEW i \in Entries, NEW ok \in BOOLEAN,
                BatchPublish(i) \/ BatchRead(i, ok) \/ WorkerPost(i, ok)
         PROVE  \A j \in Open' : j \in Open /\ work'[j].key = work[j].key
    <2>1. i \in Open
      BY <1>10 DEF BatchPublish, BatchRead, WorkerPost, Reading
    <2>2. PICK st \in States : work' = [work EXCEPT ![i].state = st]
      BY <1>10 DEF BatchPublish, BatchRead, WorkerPost, States
    <2>3. QED
      BY <1>3, <2>1, <2>2
  <1>11. QED
    BY <1>5, <1>6, <1>7, <1>8, <1>9, <1>10 DEF CNext, CallerStep, ReaderStep, Choice

(* Steps that leave the caller where it is.                                *)
Elsewhere ==
  \/ WorkerTake \/ WorkerExit \/ Settle \/ SpuriousWakeup \/ Freed
  \/ \E i \in Entries, ok \in BOOLEAN : BatchRead(i, ok) \/ WorkerPost(i, ok)
  \/ \E i \in Entries : BatchPublish(i)
  \/ \E ok \in BOOLEAN : RunAlone(ok)
  \/ \E k \in Keys : Pin(k) \/ Unpin(k) \/ PrefetchHit(k)
  \/ \E k \in Keys, ok \in BOOLEAN : PrefetchMiss(k, ok)

LEMMA Stays ==
  ASSUME Elsewhere
  PROVE  mpc' = mpc /\ ids' = ids /\ at' = at /\ held' = held
  BY DEF Elsewhere, WorkerTake, WorkerExit, Settle, SpuriousWakeup, Freed, cvars, BatchRead,
     WorkerPost, BatchPublish, RunAlone, Pin, Unpin, PrefetchHit, PrefetchMiss, caller

LEMMA StepKinds ==
  ASSUME CNext
  PROVE  \/ Elsewhere
         \/ Drain \/ FreeBegin \/ FreeEnd \/ Begin \/ DraftUse
         \/ ReserveSkip \/ ReserveSlot
         \/ LaunchNothing \/ LaunchPool \/ LaunchAlone \/ LaunchSerial \/ AloneEnds \/ BatchEnds
         \/ GetHit \/ GetWait \/ GetMiss \/ MissClaim \/ MissFails \/ Fill \/ NextExpert
         \/ \E ok \in BOOLEAN : MissRead(ok)
  BY DEF CNext, CallerStep, ReaderStep, Choice, Elsewhere

(* An expert that is neither resident nor to be waited for is in no open   *)
(* entry of the batch.                                                     *)
LEMMA NotInBatch ==
  ASSUME CInv, mpc \in {"get", "waiting"}, slot_of[K] >= 0 \/ ~InBatch(K)
  PROVE  \A i \in Open : work[i].key # K
  <1>1. CASE slot_of[K] >= 0
    <2> SUFFICES ASSUME NEW i \in Open, work[i].key = K PROVE FALSE
      OBVIOUS
    <2>1. slot_of[work[i].key] < 0 /\ slot_of[work[i].key] \in Slots \cup {-1}
      BY OpenEntry DEF CInv, CTypeOK
    <2>2. QED
      BY <1>1, <2>1, SlotSets
  <1>2. CASE ~InBatch(K) /\ ~pipeline
    BY <1>2 DEF CInv, Progress, Open, Entries
  <1>3. CASE ~InBatch(K) /\ pipeline
    <2>1. \A i \in Entries : work[i].state \notin {"got", "short"} /\ work[i].state \in States
      BY EntryType DEF CInv, Progress
    <2>2. Open \subseteq Pending
      BY <2>1 DEF Open, Pending, States
    <2>3. QED
      BY <1>3, <2>2 DEF InBatch
  <1>4. QED
    BY <1>1, <1>2, <1>3

LEMMA BehindStep ==
  ASSUME CInv, Behind, Room, CNext
  PROVE  Behind'
  <1> DEFINE Rest == {"rest", "drain", "freeing", "closed"}
  <1>1. CASE ReserveSlot
    BY <1>1 DEF ReserveSlot, Behind, Asked
  <1> SUFFICES ASSUME ~ReserveSlot
               PROVE  Behind'
    BY <1>1
  <1>2. \A i \in Open' : i \in Open /\ work'[i].key = work[i].key
    BY OpenShrinks
  <1>3. ASSUME mpc \in Rest, mpc' \notin {"reserve", "alone", "batch"}
        PROVE  Behind'
    <2>1. Open' = {}
      BY <1>2, <1>3 DEF Behind
    <2>2. QED
      BY <2>1 DEF Behind
  <1>4. ASSUME Asked, Asked', ids' = ids, at' = at,
               mpc' = mpc \/ mpc' \in {"get", "waiting"} \/ mpc \notin {"get", "waiting"},
               mpc' \in {"get", "waiting"} => mpc \in {"get", "waiting"}
        PROVE  Behind'
    <2>1. mpc' \notin Rest
      BY <1>4 DEF Asked
    <2>2. ASSUME NEW i \in Open', NEW p \in DOMAIN ids, ids[p] = work'[i].key
          PROVE  at < p \/ (at = p /\ mpc' \in {"get", "waiting"})
      BY <1>2, <1>4, <2>2 DEF Behind
    <2>3. QED
      BY <1>4, <2>1, <2>2 DEF Behind
  <1>5. CASE Elsewhere
    <2>1. mpc' = mpc /\ ids' = ids /\ at' = at
      BY <1>5, Stays
    <2>2. CASE mpc \in Rest
      BY <1>3, <2>1, <2>2
    <2>3. CASE Asked
      BY <1>4, <2>1, <2>3 DEF Asked
    <2>4. CASE ~Asked /\ mpc \notin Rest
      BY <2>1, <2>4 DEF Behind, Asked
    <2>5. QED
      BY <2>2, <2>3, <2>4
  <1>6. CASE Drain \/ FreeBegin \/ FreeEnd \/ Begin \/ DraftUse
    BY <1>3, <1>6 DEF Drain, FreeBegin, FreeEnd, Begin, DraftUse, Behind, Asked
  <1>7. CASE ReserveSkip \/ LaunchAlone \/ LaunchSerial
    BY <1>7 DEF ReserveSkip, LaunchAlone, LaunchSerial, Behind, Asked, Reserved
  <1>8. CASE LaunchNothing \/ LaunchPool \/ AloneEnds \/ BatchEnds
    <2>1. mpc' = "get" /\ at' = 1 /\ ids' = ids
      BY <1>8 DEF LaunchNothing, LaunchPool, AloneEnds, BatchEnds
    <2>2. \A p \in DOMAIN ids : p \in Nat /\ (1 < p \/ p = 1)
      BY LenProperties DEF CInv, CTypeOK
    <2>3. QED
      BY <2>1, <2>2 DEF Behind
  <1>9. CASE GetHit \/ GetMiss
    <2>1. /\ mpc \in {"get", "waiting"} /\ mpc' \in {"fill", "miss"} /\ ids' = ids /\ at' = at
          /\ slot_of[K] >= 0 \/ ~InBatch(K)
      BY <1>9 DEF GetHit, GetMiss, Asking, caller
    <2>2. \A i \in Open : work[i].key # K
      BY <2>1, NotInBatch
    <2>3. ASSUME NEW i \in Open', NEW p \in DOMAIN ids, ids[p] = work'[i].key
          PROVE  at < p
      <3>1. i \in Open /\ ids[p] = work[i].key /\ p # at
        BY <1>2, <2>2, <2>3 DEF K
      <3>2. QED
        BY <2>1, <3>1 DEF Behind, Asked
    <2>4. QED
      BY <2>1, <2>3 DEF Behind
  <1>10. CASE GetWait \/ MissClaim \/ MissFails \/ Fill \/ \E ok \in BOOLEAN : MissRead(ok)
    BY <1>4, <1>10 DEF GetWait, MissClaim, MissFails, Fill, MissRead, Asking, Asked, caller
  <1>11. CASE NextExpert
    <2>1. mpc \in {"use", "refused"} /\ Asked
      BY <1>11 DEF NextExpert, Asked
    <2>2. \A i \in Open, p \in DOMAIN ids : ids[p] = work[i].key => at < p
      BY <2>1 DEF Behind
    <2>3. at \in Nat /\ at \in DOMAIN ids /\ Len(ids) \in Nat /\ DOMAIN ids = 1 .. Len(ids)
      BY <2>1, LenProperties DEF CInv, Handed, CTypeOK
    <2>4. CASE at < Len(ids)
      <3>1. at' = at + 1 /\ mpc' = "get" /\ ids' = ids
        BY <1>11, <2>4 DEF NextExpert
      <3>2. ASSUME NEW i \in Open', NEW p \in DOMAIN ids, ids[p] = work'[i].key
            PROVE  at + 1 < p \/ at + 1 = p
        <4>1. at < p
          BY <1>2, <2>2, <3>2
        <4>2. QED
          BY <2>3, <4>1
      <3>3. QED
        BY <3>1, <3>2 DEF Behind
    <2>5. CASE ~(at < Len(ids))
      <3>1. mpc' = "rest"
        BY <1>11, <2>5 DEF NextExpert
      <3>2. PICK n \in 0 .. Len(ids) : RoomAt(n)
        BY <2>1 DEF Room
      <3>3. ASSUME NEW i \in Open PROVE FALSE
        <4>1. PICK p \in 1 .. n : ids[p] = work[i].key
          BY <3>2 DEF RoomAt, OpenKeys, First
        <4>2. p \in DOMAIN ids
          BY <2>3, <3>2, <4>1
        <4>3. at < p
          BY <2>2, <4>1, <4>2
        <4>4. QED
          BY <2>3, <2>5, <4>2, <4>3
      <3>4. Open' = {}
        BY <1>2, <3>3
      <3>5. QED
        BY <3>1, <3>4 DEF Behind, Asked
    <2>6. QED
      BY <2>4, <2>5
  <1>12. QED
    BY <1>5, <1>6, <1>7, <1>8, <1>9, <1>10, <1>11, StepKinds

-----------------------------------------------------------------------------
(***************************************************************************)
(* getmany settles its list from the beginning.                            *)
(***************************************************************************)
(* Taking a slot outside X leaves the experts of X where they are.         *)
LEMMA EvictionSpares ==
  ASSUME CTypeOK, NEW X, NEW s \in Victim(X), NEW k \in Keys \cap X
  PROVE  Evicted(s)[k] = slot_of[k]
  <1>1. s \in Slots /\ key_of[s] # k
    BY VictimFacts, CacheAssumption DEF Sentinels
  <1>2. QED
    BY <1>1 DEF Evicted, CTypeOK

LEMMA ReservingStep ==
  ASSUME CInv, Reserving, CNext
  PROVE  Reserving'
  <1>0. missing' = missing
    BY PinSteps DEF config
  <1> DEFINE Prefix == /\ \A p \in 1 .. at - 1 : Settled(ids[p])
                       /\ \A i \in Entries : \E p \in 1 .. at - 1 : ids[p] = work[i].key
  <1>1. CASE Elsewhere
    <2>1. mpc' = mpc /\ ids' = ids /\ at' = at /\ held' = held
      BY <1>1, Stays
    <2>2. CASE mpc # "reserve"
      BY <1>0, <2>1, <2>2 DEF Reserving, K
    <2>3. CASE mpc = "reserve"
      <3>1. idle = 0 /\ Reading = {}
        BY <2>3 DEF CInv, Progress, Reading, CTypeOK, Entries
      <3>2. slot_of' = slot_of /\ work' = work
        BY <1>1, <2>3, <3>1 DEF Elsewhere, WorkerTake, WorkerExit, Settle, SpuriousWakeup, Freed,
           BatchRead, WorkerPost, BatchPublish, RunAlone, Pin, Unpin, PrefetchHit,
           PrefetchMiss, index, pool
      <3>3. Prefix' = Prefix
        BY <1>0, <2>1, <3>2 DEF Settled, Entries
      <3>4. QED
        BY <2>1, <2>3, <3>3 DEF Reserving
    <2>4. QED
      BY <2>2, <2>3
  <1>2. CASE Drain
    BY <1>2 DEF Drain, Drained, Reserving, caller, Entries
  <1>3. CASE Begin
    BY <1>3 DEF Begin, Reserving
  <1>4. CASE ReserveSkip
    <2>1. /\ mpc = "reserve" /\ mpc' = "reserve" /\ ids' = ids /\ work' = work
          /\ slot_of' = slot_of /\ at' = at + 1 /\ Settled(K)
      BY <1>4 DEF ReserveSkip, index, pool
    <2>2. \A k : Settled(k)' = Settled(k)
      BY <1>0, <2>1 DEF Settled, Entries
    <2>3. Prefix
      BY <2>1 DEF Reserving
    <2>4. at \in Int
      BY LenProperties DEF CInv, CTypeOK
    <2>5. \A p \in 1 .. at' - 1 : p \in 1 .. at - 1 \/ p = at
      BY <2>1, <2>4
    <2>6. \A p \in 1 .. at - 1 : p \in 1 .. at' - 1
      BY <2>1, <2>4
    <2>7. QED
      BY <2>1, <2>2, <2>3, <2>5, <2>6 DEF Reserving, Entries, K
  <1>5. CASE ReserveSlot
    <2>1. PICK s \in Victim(Requested) :
            /\ slot_of' = Evicted(s)
            /\ work' = Append(work, [slot |-> s, key |-> K, state |-> "pending"])
      BY <1>5 DEF ReserveSlot
    <2>2. mpc = "reserve" /\ mpc' = "reserve" /\ ids' = ids /\ at' = at + 1 /\ at <= Len(ids)
      BY <1>5 DEF ReserveSlot, MoreToReserve
    <2>3. Prefix
      BY <2>2 DEF Reserving
    <2>4. at \in Nat \ {0} /\ Len(ids) \in Nat /\ DOMAIN ids = 1 .. Len(ids) /\ ids \in Seq(Keys)
      BY LenProperties DEF CInv, CTypeOK
    <2>5. \A p \in DOMAIN ids : ids[p] \in Keys \cap Requested
      BY <2>4, ElementOfSeq DEF Requested
    <2>6. /\ Len(work') = Len(work) + 1 /\ Len(work) \in Nat
          /\ \A i \in Entries : work'[i] = work[i]
          /\ work'[Len(work) + 1].key = K
      <3>1. work \in Seq(Work)
        BY DEF CInv, CTypeOK
      <3>2. PICK e : work' = Append(work, e) /\ e.key = K
        BY <2>1
      <3>3. QED
        BY <3>1, <3>2 DEF Entries
    <2>7. /\ Entries' = Entries \cup {Len(work) + 1}
          /\ \A i \in Entries : i \in Entries' /\ work'[i].key = work[i].key
      BY <2>6 DEF Entries
    <2>8. ASSUME NEW p \in 1 .. at' - 1
          PROVE  Settled(ids[p])'
      <3>1. CASE p = at
        BY <2>2, <2>6, <2>7, <3>1 DEF Settled, K
      <3>2. CASE p # at
        <4>1. p \in 1 .. at - 1 /\ p \in DOMAIN ids
          BY <2>2, <2>4, <3>2
        <4>2. Settled(ids[p])
          BY <2>3, <4>1
        <4>3. slot_of'[ids[p]] = slot_of[ids[p]]
          BY <2>1, <2>5, <4>1, EvictionSpares DEF CInv
        <4>4. QED
          BY <1>0, <2>2, <2>7, <4>2, <4>3 DEF Settled
      <3>3. QED
        BY <3>1, <3>2
    <2>9. ASSUME NEW i \in Entries'
          PROVE  \E p \in 1 .. at' - 1 : ids[p] = work'[i].key
      <3>1. CASE i \in Entries
        <4>1. PICK p \in 1 .. at - 1 : ids[p] = work[i].key
          BY <2>3, <3>1
        <4>2. p \in 1 .. at' - 1
          BY <2>2, <2>4, <4>1
        <4>3. QED
          BY <2>7, <3>1, <4>1, <4>2
      <3>2. CASE i = Len(work) + 1
        <4>1. at \in 1 .. at' - 1
          BY <2>2, <2>4
        <4>2. QED
          BY <2>6, <3>2, <4>1 DEF K
      <3>3. QED
        BY <2>7, <3>1, <3>2
    <2>10. QED
      BY <2>2, <2>8, <2>9 DEF Reserving
  <1>6. CASE MissClaim
    BY <1>0, <1>6 DEF MissClaim, Reserving, K
  <1>7. CASE \/ FreeBegin \/ FreeEnd \/ DraftUse
             \/ LaunchNothing \/ LaunchPool \/ LaunchAlone \/ LaunchSerial \/ AloneEnds
             \/ BatchEnds \/ GetHit \/ GetWait \/ GetMiss \/ MissFails \/ Fill \/ NextExpert
             \/ \E ok \in BOOLEAN : MissRead(ok)
    BY <1>7 DEF FreeBegin, FreeEnd, DraftUse, LaunchNothing, LaunchPool, LaunchAlone,
       LaunchSerial, AloneEnds, BatchEnds, GetHit, GetWait, GetMiss, MissFails, Fill,
       NextExpert, MissRead, Reserving
  <1>8. QED
    BY <1>1, <1>2, <1>3, <1>4, <1>5, <1>6, <1>7, StepKinds

-----------------------------------------------------------------------------
(***************************************************************************)
(* When pick_victim comes back with nothing.                               *)
(***************************************************************************)
LEMMA VictimToBeHad ==
  ASSUME CTypeOK, NEW X, Free # {} \/ Evictable(X) # {}
  PROVE  Victim(X) # {}
  <1>0. /\ Free \in SUBSET Nat /\ Evictable(X) \in SUBSET Nat
        /\ \A s \in Evictable(X) : used_at[s] \in Nat
    BY SlotSets DEF Free, Evictable, CTypeOK
  <1>1. CASE Free # {}
    <2>1. \E s \in Free : \A t \in Free : s <= t
      BY <1>0, <1>1, Least
    <2>2. QED
      BY <1>1, <2>1 DEF Victim
  <1>2. CASE Free = {}
    <2> DEFINE E == Evictable(X)
               U == {used_at[s] : s \in E}
    <2>1. U \in SUBSET Nat /\ U # {}
      BY <1>0, <1>2
    <2> HIDE DEF U
    <2>2. PICK m \in U : \A u \in U : m <= u
      BY <2>1, Least
    <2> DEFINE M == {s \in E : used_at[s] = m}
    <2>3. M \in SUBSET Nat /\ M # {}
      BY <1>0, <2>2 DEF U
    <2> HIDE DEF M
    <2>4. PICK s \in M : \A t \in M : s <= t
      BY <2>3, Least
    <2>5. s \in E /\ used_at[s] = m /\ m \in Nat
      BY <2>4, <2>2, <2>1 DEF M
    <2>6. ASSUME NEW t \in E
          PROVE  used_at[s] < used_at[t] \/ (used_at[s] = used_at[t] /\ s <= t)
      <3>1. used_at[t] \in Nat /\ m <= used_at[t]
        BY <1>0, <2>2 DEF U
      <3>2. CASE used_at[t] = m
        BY <2>4, <2>5, <3>2 DEF M
      <3>3. CASE used_at[t] # m
        BY <2>5, <3>1, <3>3
      <3>4. QED
        BY <3>2, <3>3
    <2>7. QED
      BY <1>2, <2>5, <2>6 DEF Victim
  <1>3. QED
    BY <1>1, <1>2

(* Two sets of slots hold no more together than each on its own.           *)
LEMMA TwoSets ==
  ASSUME NEW S \in SUBSET Slots, NEW T \in SUBSET Slots
  PROVE  Cardinality(S \cup T) <= Cardinality(S) + Cardinality(T)
  <1>1. /\ IsFiniteSet(S) /\ IsFiniteSet(T)
        /\ Cardinality(S) \in Nat /\ Cardinality(T) \in Nat
    BY SlotSets
  <1>2. Cardinality(S \cap T) \in Nat
    BY SlotSets
  <1>3. Cardinality(S \cup T) = Cardinality(S) + Cardinality(T) - Cardinality(S \cap T)
    BY <1>1, FS_Union
  <1>4. QED
    BY <1>1, <1>2, <1>3

(* A name stands on one slot.                                              *)
LEMMA OneName ==
  ASSUME KeysIndexed, mpc # "sync", NEW s \in Slots, NEW t \in Slots,
         key_of[s] \in Keys, key_of[t] = key_of[s]
  PROVE  s = t
  BY DEF KeysIndexed

(* What may not be evicted because of pins is at most Pinnable slots.      *)
Barred == {s \in Slots : key_of[s] \in Keys /\ (s \in pinned \/ key_of[s] \in hot)}

LEMMA FewBarred ==
  ASSUME CTypeOK, KeysIndexed, PinsFit, mpc # "sync"
  PROVE  Cardinality(Barred) <= Pinnable
  <1> DEFINE H == {s \in Slots : key_of[s] \in Keys /\ key_of[s] \in hot}
  <1>1. Barred \subseteq H \cup ManualPins
    BY DEF Barred, ManualPins
  <1>2. H \in SUBSET Slots /\ ManualPins \in SUBSET Slots
    BY DEF ManualPins, CTypeOK
  <1>3. Cardinality(H) <= Cardinality(hot)
    <2>1. \A s, t \in H : key_of[s] = key_of[t] => s = t
      BY OneName
    <2>2. [s \in H |-> key_of[s]] \in [H -> hot]
      OBVIOUS
    <2>3. IsFiniteSet(hot)
      BY KeySets DEF CTypeOK
    <2>4. PICK f : f = [s \in H |-> key_of[s]]
      OBVIOUS
    <2>5. f \in [H -> hot] /\ \A s, t \in H : f[s] = f[t] => s = t
      BY <2>1, <2>2, <2>4
    <2>6. QED
      BY <2>3, <2>5, NoMore
  <1> HIDE DEF H
  <1>4. Cardinality(H \cup ManualPins) <= Cardinality(H) + Cardinality(ManualPins)
    BY <1>2, TwoSets
  <1>5. Cardinality(Barred) <= Cardinality(H \cup ManualPins)
    BY <1>1, <1>2, SlotSets, FS_Subset
  <1>6. /\ Cardinality(H) \in Nat /\ Cardinality(ManualPins) \in Nat
        /\ Cardinality(H \cup ManualPins) \in Nat /\ Cardinality(Barred) \in Nat
    BY <1>1, <1>2, SlotSets
  <1>7. Cardinality(hot) \in Nat /\ Pinnable \in Int
    BY KeySets, CacheAssumption DEF CTypeOK, Pinnable
  <1>8. QED
    BY <1>3, <1>4, <1>5, <1>6, <1>7 DEF PinsFit

Taken(X) == {s \in Slots : key_of[s] = INFLIGHT \/ (key_of[s] \in Keys /\ key_of[s] \in X)}

(* With no free slot, more than topk slots are in flight, hold an expert   *)
(* of X or may be evicted.                                                 *)
LEMMA PoolHolds ==
  ASSUME CTypeOK, KeysIndexed, PinsFit, mpc # "sync", NEW X, Free = {}
  PROVE  Cardinality(Taken(X) \cup Evictable(X)) >= TopK + 1
  <1>1. Slots \subseteq (Taken(X) \cup Evictable(X)) \cup Barred
    <2> SUFFICES ASSUME NEW s \in Slots
                 PROVE  s \in Taken(X) \cup Evictable(X) \/ s \in Barred
      OBVIOUS
    <2>1. key_of[s] \in Keys \/ key_of[s] = INFLIGHT
      BY DEF Free, CTypeOK
    <2>2. QED
      BY <2>1, CacheAssumption DEF Taken, Evictable, Barred, Sentinels
  <1>2. Taken(X) \cup Evictable(X) \in SUBSET Slots /\ Barred \in SUBSET Slots
    BY DEF Taken, Evictable, Barred
  <1>3. PICK T : T = Taken(X) \cup Evictable(X)
    OBVIOUS
  <1>4. Cardinality(T \cup Barred) <= Cardinality(T) + Cardinality(Barred)
    BY <1>2, <1>3, TwoSets
  <1>5. Slots = T \cup Barred
    BY <1>1, <1>2, <1>3
  <1>6. Cardinality(T) \in Nat /\ Cardinality(Barred) \in Nat
    BY <1>2, <1>3, SlotSets
  <1>9. Cardinality(T \cup Barred) = NSlots
    BY <1>5, SlotSets
  <1>7. Cardinality(Barred) <= NSlots - TopK - 1
    BY FewBarred DEF Pinnable
  <1>8. QED
    BY <1>3, <1>4, <1>6, <1>7, <1>9, CacheAssumption

(* The expert a slot holds or is being filled with.                        *)
For(s, k) == \/ key_of[s] = k
             \/ key_of[s] = INFLIGHT /\ \E i \in Open : work[i].slot = s /\ work[i].key = k

LEMMA ForOnce ==
  ASSUME CInv, KeysIndexed, mpc # "sync", NEW s \in Slots, NEW t \in Slots, NEW k \in Keys,
         For(s, k), For(t, k)
  PROVE  s = t
  <1>0. k # INFLIGHT
    BY CacheAssumption DEF Sentinels
  <1>1. CASE key_of[s] = k /\ key_of[t] = k
    BY <1>1, OneName
  <1>2. CASE key_of[s] = INFLIGHT /\ key_of[t] = INFLIGHT
    <2>1. PICK i \in Open : work[i].slot = s /\ work[i].key = k
      BY <1>0, <1>2 DEF For
    <2>2. PICK j \in Open : work[j].slot = t /\ work[j].key = k
      BY <1>0, <1>2 DEF For
    <2>3. i = j
      BY <2>1, <2>2, OpenEntry DEF Open
    <2>4. QED
      BY <2>1, <2>2, <2>3
  <1>3. ASSUME NEW a \in Slots, NEW b \in Slots, key_of[a] = k, For(b, k), key_of[b] = INFLIGHT
        PROVE  FALSE
    <2>1. PICK i \in Open : work[i].slot = b /\ work[i].key = k
      BY <1>0, <1>3 DEF For
    <2>2. slot_of[k] < 0
      BY <2>1, OpenEntry
    <2>3. slot_of[k] = a
      BY <1>3 DEF KeysIndexed
    <2>4. QED
      BY <2>2, <2>3, SlotSets
  <1>4. QED
    BY <1>1, <1>2, <1>3 DEF For

LEMMA CountTo ==
  ASSUME NEW n \in Nat
  PROVE  IsFiniteSet(1 .. n) /\ Cardinality(1 .. n) = n
  <1>1. 1 \in Int /\ n \in Int
    OBVIOUS
  <1>2. IsFiniteSet(1 .. n) /\ Cardinality(1 .. n) = IF 1 > n THEN 0 ELSE n - 1 + 1
    BY <1>1, FS_Interval, Zenon
  <1>3. QED
    BY <1>2

(* A list of at most topk experts is reserved to its end.                  *)
LEMMA TokenRoom ==
  ASSUME CInv, KeysIndexed, PinsFit, Reserving, Reserved, Len(ids) <= TopK
  PROVE  at > Len(ids)
  <1> SUFFICES ASSUME at <= Len(ids)
               PROVE  FALSE
    BY LenProperties DEF CInv, CTypeOK
  <1>1. /\ mpc = "reserve" /\ at \in Nat \ {0} /\ Len(ids) \in Nat /\ Len(work) \in Nat
        /\ DOMAIN ids = 1 .. Len(ids) /\ TopK \in Nat /\ BatchCap \in Nat /\ TopK <= BatchCap
    BY LenProperties, CacheAssumption DEF CInv, CTypeOK, Reserved
  <1>2. \A i \in Entries : work[i].key \in Keys
    BY EntryType DEF CInv
  <1>3. Len(work) < BatchCap
    <2> DEFINE D == 1 .. at - 1
               At(i) == CHOOSE p \in D : ids[p] = work[i].key
    <2>1. \A i \in Entries : At(i) \in D /\ ids[At(i)] = work[i].key
      BY <1>1 DEF Reserving
    <2>2. \A i, j \in Entries : At(i) = At(j) => i = j
      BY <2>1 DEF CInv, Owned
    <2> HIDE DEF At
    <2>3. PICK f : f = [i \in Entries |-> At(i)]
      OBVIOUS
    <2>4. f \in [Entries -> D] /\ \A i, j \in Entries : f[i] = f[j] => i = j
      BY <2>1, <2>2, <2>3
    <2>5. IsFiniteSet(D) /\ Cardinality(D) = at - 1
      BY <1>1, CountTo
    <2>6. Cardinality(Entries) = Len(work)
      BY <1>1, CountTo DEF Entries
    <2>7. Len(work) <= at - 1
      BY <2>4, <2>5, <2>6, NoMore
    <2>8. QED
      BY <1>1, <2>7
  <1>4. Victim(Requested) = {}
    BY <1>3 DEF Reserved, MoreToReserve
  <1>5. Free = {} /\ Evictable(Requested) = {}
    BY <1>4, VictimToBeHad DEF CInv
  <1>6. Cardinality(Taken(Requested)) >= TopK + 1
    <2>1. Cardinality(Taken(Requested) \cup Evictable(Requested)) >= TopK + 1
      BY <1>1, <1>5, PoolHolds DEF CInv
    <2>2. QED
      BY <1>5, <2>1
  <1>7. Cardinality(Taken(Requested)) <= Len(ids)
    <2> DEFINE D == 1 .. Len(ids)
               S == Taken(Requested)
               At(s) == CHOOSE p \in D : For(s, ids[p])
    <2>1. ASSUME NEW s \in S
          PROVE  s \in Slots /\ \E p \in D : For(s, ids[p])
      <3>0. s \in Slots
        BY DEF Taken
      <3>1. CASE key_of[s] = INFLIGHT
        <4>1. PICK i \in Open : work[i].slot = s
          BY <1>1, <3>0, <3>1 DEF CInv, NoSlotLost
        <4>2. PICK p \in 1 .. at - 1 : ids[p] = work[i].key
          BY <1>1, <4>1, OpenEntry DEF Reserving
        <4>3. p \in D
          BY <1>1, <4>2
        <4>4. QED
          BY <3>0, <3>1, <4>1, <4>2, <4>3 DEF For
      <3>2. CASE key_of[s] # INFLIGHT
        <4>1. key_of[s] \in Requested
          BY <3>2 DEF Taken
        <4>2. PICK p \in D : ids[p] = key_of[s]
          BY <1>1, <4>1 DEF Requested
        <4>3. QED
          BY <3>0, <4>2 DEF For
      <3>3. QED
        BY <3>1, <3>2
    <2>2. \A s \in S : At(s) \in D /\ For(s, ids[At(s)])
      BY <2>1
    <2>3. \A p \in D : ids[p] \in Keys
      BY ElementOfSeq DEF CInv, CTypeOK
    <2> HIDE DEF At, S
    <2>4. \A s, t \in S : At(s) = At(t) => s = t
      BY <1>1, <2>1, <2>2, <2>3, ForOnce
    <2>5. PICK f : f = [s \in S |-> At(s)]
      OBVIOUS
    <2>6. f \in [S -> D] /\ \A s, t \in S : f[s] = f[t] => s = t
      BY <2>2, <2>4, <2>5
    <2>7. IsFiniteSet(D) /\ Cardinality(D) = Len(ids)
      BY <1>1, CountTo
    <2>8. Cardinality(S) <= Len(ids)
      BY <2>6, <2>7, NoMore
    <2>9. QED
      BY <2>8 DEF S
  <1>8. Cardinality(Taken(Requested)) \in Nat
    BY SlotSets DEF Taken
  <1>9. QED
    BY <1>1, <1>6, <1>7, <1>8

-----------------------------------------------------------------------------
(***************************************************************************)
(* A get that reads by itself finds a slot.                                *)
(***************************************************************************)
LEMMA FirstKeys ==
  ASSUME CTypeOK, NEW n \in 0 .. Len(ids)
  PROVE  /\ First(n) \in SUBSET Keys /\ IsFiniteSet(Lost(n))
         /\ Cardinality(Lost(n)) \in Nat /\ Lost(n) \in SUBSET Keys
         /\ \A p \in 1 .. n : p \in DOMAIN ids
  <1>1. \A p \in 1 .. n : p \in DOMAIN ids /\ ids[p] \in Keys
    BY ElementOfSeq, LenProperties DEF CTypeOK
  <1>2. First(n) \in SUBSET Keys
    BY <1>1 DEF First
  <1>3. Lost(n) \in SUBSET Keys
    BY <1>2 DEF Lost
  <1>4. QED
    BY <1>1, <1>2, <1>3, KeySets

LEMMA FreeSlots ==
  Free \in SUBSET Slots /\ IsFiniteSet(Free) /\ Cardinality(Free) \in Nat
  BY SlotSets DEF Free

(* What get asks for was reserved in vain, or the batch is over.           *)
LEMMA MissHasRoom ==
  ASSUME CInv, Behind, mpc \in {"miss", "sync"}, K \notin missing,
         NEW n \in 0 .. Len(ids), RoomAt(n)
  PROVE  \/ K \in Lost(n)
         \/ Open = {} /\ ~(batching /\ Len(ids) <= TopK)
  <1>1. /\ at \in DOMAIN ids /\ at \in Nat \ {0} /\ Len(ids) \in Nat /\ at <= Len(ids)
        /\ Asked
    BY LenProperties DEF CInv, CTypeOK, Handed, Asked
  <1>2. CASE at <= n
    <2>1. K \in First(n)
      BY <1>1, <1>2 DEF First, K
    <2>2. slot_of[K] < 0 /\ K \notin OpenKeys
      BY DEF CInv, SyncOwns, OpenKeys
    <2>3. QED
      BY <2>1, <2>2 DEF Lost
  <1>3. CASE n < at
    <2>1. Open = {}
      <3> SUFFICES ASSUME NEW i \in Open PROVE FALSE
        OBVIOUS
      <3>1. PICK p \in 1 .. n : ids[p] = work[i].key
        BY DEF RoomAt, OpenKeys, First
      <3>2. p \in DOMAIN ids
        BY FirstKeys DEF CInv
      <3>3. at < p
        BY <1>1, <3>1, <3>2 DEF Behind
      <3>4. QED
        BY <1>1, <1>3, <3>3
    <2>2. QED
      BY <1>1, <1>3, <2>1 DEF RoomAt
  <1>4. QED
    BY <1>1, <1>2, <1>3

(* An expert reserved in vain has left its slot.                           *)
LEMMA LostLeaves ==
  ASSUME CInv, NEW n \in 0 .. Len(ids), RoomAt(n), K \in Lost(n), ~Claimed
  PROVE  Free # {}
  <1>1. Cardinality(Lost(n)) \in Nat /\ Cardinality(Lost(n)) # 0
    BY FirstKeys, FS_EmptySet DEF CInv
  <1>2. Cardinality(Free) # 0
    BY <1>1, FreeSlots DEF RoomAt
  <1>3. QED
    BY <1>2, FS_EmptySet

(* With nothing in flight some slot may be evicted.                        *)
LEMMA IdleVictim ==
  ASSUME CInv, KeysIndexed, PinsFit, mpc # "sync", Open = {}
  PROVE  Free # {} \/ Cardinality(Evictable({})) >= TopK + 1
  <1>1. Taken({}) = {}
    BY DEF Taken, CInv, NoSlotLost
  <1>2. QED
    BY <1>1, PoolHolds DEF CInv

LEMMA VictimInv ==
  ASSUME CInv, KeysIndexed, PinsFit, Behind, Room
  PROVE  AlwaysAVictim
  <1> SUFFICES ASSUME mpc = "miss", K \notin missing
               PROVE  Victim({}) # {}
    BY DEF AlwaysAVictim
  <1>1. PICK n \in 0 .. Len(ids) : RoomAt(n)
    BY DEF Room, Asked
  <1>2. CASE K \in Lost(n)
    BY <1>1, <1>2, LostLeaves, VictimToBeHad DEF Claimed, CInv
  <1>3. CASE Open = {}
    <2>1. Cardinality(Evictable({})) >= TopK + 1 => Evictable({}) # {}
      <3>1. IsFiniteSet(Evictable({})) /\ TopK \in Nat
        BY SlotSets, CacheAssumption DEF Evictable
      <3>2. Evictable({}) = {} => Cardinality(Evictable({})) = 0
        BY <3>1, FS_EmptySet
      <3>3. QED
        BY <3>1, <3>2
    <2>2. QED
      BY <1>3, <2>1, IdleVictim, VictimToBeHad DEF CInv
  <1>4. QED
    BY <1>1, <1>2, <1>3, MissHasRoom

-----------------------------------------------------------------------------
(***************************************************************************)
(* Room is kept by every step.                                             *)
(***************************************************************************)
LEMMA RoomFrame ==
  ASSUME CInv, NEW n \in 0 .. Len(ids), RoomAt(n), OpenKeys' = OpenKeys, Claimed' = Claimed,
         UNCHANGED <<slot_of, key_of, missing, batching, ids>>
  PROVE  Room'
  <1>1. First(n)' = First(n) /\ Lost(n)' = Lost(n) /\ Free' = Free
    BY DEF First, Lost, Free
  <1>2. n \in 0 .. Len(ids') /\ RoomAt(n)'
    BY <1>1 DEF RoomAt
  <1>3. QED
    BY <1>2 DEF Room

(* With nothing in flight and no promise to keep, there is room.           *)
LEMMA RoomFromNothing ==
  ASSUME ids' \in Seq(Keys), Open' = {}, ~(batching' /\ Len(ids') <= TopK)
  PROVE  Room'
  <1>1. First(0)' = {}
    BY DEF First
  <1>2. Lost(0)' = {} /\ OpenKeys' = {}
    BY <1>1 DEF Lost, OpenKeys
  <1>3. Cardinality({}) = 0
    BY FS_EmptySet
  <1>4. (0 <= Cardinality(Free) + (IF Claimed THEN 1 ELSE 0))'
    <2>1. Cardinality(Free') \in Nat
      BY SlotSets DEF Free
    <2>2. QED
      BY <2>1
  <1>5. RoomAt(0)'
    <2>1. Cardinality(Lost(0)') = 0
      BY <1>2, <1>3
    <2>2. QED
      BY <1>1, <1>2, <1>4, <2>1 DEF RoomAt
  <1>6. 0 \in 0 .. Len(ids')
    BY LenProperties
  <1>7. QED
    BY <1>5, <1>6 DEF Room

(* Steps that leave slots and the keys in flight alone.                    *)
LEMMA RoomQuiet ==
  ASSUME CInv, Room, CNext,
         \/ GetHit \/ GetWait \/ GetMiss \/ MissFails \/ Fill \/ NextExpert
         \/ WorkerTake \/ WorkerExit \/ SpuriousWakeup \/ AloneEnds \/ BatchEnds
         \/ \E i \in Entries, ok \in BOOLEAN : BatchRead(i, ok)
  PROVE  Room'
  <1>0. UNCHANGED config
    BY PinSteps
  <1>1. UNCHANGED <<slot_of, key_of>>
    BY DEF GetHit, GetWait, GetMiss, MissFails, Fill, NextExpert, WorkerTake, WorkerExit,
       SpuriousWakeup, AloneEnds, BatchEnds, BatchRead, index
  <1> SUFFICES ASSUME Asked' \/ mpc' \in {"alone", "batch"}
               PROVE  Room'
    BY DEF Room
  <1>2. /\ ids' = ids /\ (Asked \/ mpc \in {"alone", "batch"})
        /\ Claimed' = Claimed
    BY DEF GetHit, GetWait, GetMiss, MissFails, Fill, NextExpert, WorkerTake, WorkerExit,
       SpuriousWakeup, AloneEnds, BatchEnds, BatchRead, caller, Asked, Asking, Claimed, config,
       pool
  <1>3. OpenKeys' = OpenKeys
    <2>1. CASE \/ GetHit \/ GetWait \/ GetMiss \/ MissFails \/ Fill \/ NextExpert
               \/ WorkerExit \/ SpuriousWakeup
      BY <2>1 DEF GetHit, GetWait, GetMiss, MissFails, Fill, NextExpert, WorkerExit,
         SpuriousWakeup, pool, OpenKeys, Open, Entries
    <2>2. CASE WorkerTake
      <3>1. cursor \in Entries /\ mpc # "batch"
        BY <2>2, LenProperties DEF WorkerTake, CInv, CTypeOK, Progress, Entries
      <3>2. work[cursor].state = "pending"
        BY <3>1 DEF CInv, CTypeOK, Progress
      <3>3. work' = [work EXCEPT ![cursor].state = "reading"]
        BY <2>2 DEF WorkerTake
      <3>4. /\ Entries' = Entries
            /\ \A j \in Entries : /\ work'[j].key = work[j].key
                                  /\ work'[j].state = IF j = cursor THEN "reading"
                                                      ELSE work[j].state
        <4>1. CTypeOK /\ cursor \in Entries /\ "reading" \in States
          BY <3>1 DEF CInv, States
        <4>2. QED
          BY <3>3, <4>1, EntryMoves
      <3>5. Open' = Open
        BY <3>2, <3>4 DEF Open
      <3>6. QED
        BY <3>4, <3>5 DEF OpenKeys, Open
    <2>3. ASSUME NEW i \in Entries, NEW ok \in BOOLEAN, BatchRead(i, ok)
          PROVE  OpenKeys' = OpenKeys
      <3>1. work[i].state = "reading"
        BY <2>3 DEF BatchRead, Reading
      <3>2. PICK st \in States : /\ work' = [work EXCEPT ![i].state = st]
                                 /\ st # "over"
        BY <2>3 DEF BatchRead, States
      <3>3. /\ Entries' = Entries
            /\ \A j \in Entries : /\ work'[j].key = work[j].key
                                  /\ work'[j].state = IF j = i THEN st ELSE work[j].state
        BY <3>2, EntryMoves DEF CInv
      <3>4. Open' = Open
        BY <3>1, <3>2, <3>3 DEF Open
      <3>5. QED
        BY <3>3, <3>4 DEF OpenKeys, Open
    <2>4. CASE AloneEnds \/ BatchEnds
      <3>1. OpenKeys' = {}
        BY <2>4 DEF AloneEnds, BatchEnds, OpenKeys, Open, Entries
      <3>2. \A i \in Entries : work[i].state = "over"
        <4>1. CASE BatchEnds
          BY <4>1 DEF BatchEnds
        <4>2. CASE AloneEnds
          <5>1. mpc = "alone" /\ cursor > Len(work) /\ Reading = {}
            BY <4>2 DEF AloneEnds, CInv, Progress
          <5>2. \A i \in Entries : i < cursor
            BY <5>1, LenProperties DEF Entries, CInv, CTypeOK
          <5>3. \A i \in Entries : work[i].state \notin {"got", "short", "pending"}
            BY <5>1, <5>2 DEF CInv, Progress
          <5>4. QED
            BY <5>1, <5>3, EntryType DEF CInv, Reading, States
        <4>3. QED
          BY <2>4, <4>1, <4>2
      <3>3. QED
        BY <3>1, <3>2 DEF OpenKeys, Open
    <2>5. QED
      BY <2>1, <2>2, <2>3, <2>4
  <1>4. PICK n \in 0 .. Len(ids) : RoomAt(n)
    BY <1>2 DEF Room
  <1>5. UNCHANGED <<slot_of, key_of, missing, batching, ids>>
    BY <1>0, <1>1, <1>2 DEF config
  <1>6. QED
    BY <1>2, <1>3, <1>4, <1>5, RoomFrame

(* A read of the batch ends: a short one leaves a free slot behind.        *)
LEMMA EntryRoom ==
  ASSUME CInv, NEW i \in Open, NEW ok \in BOOLEAN,
         Finish(work[i].slot, work[i].key, ok), work' = [work EXCEPT ![i].state = "over"],
         UNCHANGED <<missing, batching, ids>>, Claimed' = Claimed,
         NEW n \in 0 .. Len(ids), RoomAt(n)
  PROVE  Room'
  <1> DEFINE s == work[i].slot
             k == work[i].key
  <1>0. i \in Entries /\ s \in Slots /\ k \in Keys /\ key_of[s] = INFLIGHT /\ slot_of[k] < 0
    BY OpenEntry
  <1>1. OpenKeys' = OpenKeys \ {k}
    <2>1. /\ Entries' = Entries
          /\ \A j \in Entries : /\ work'[j].key = work[j].key
                                /\ work'[j].state = IF j = i THEN "over" ELSE work[j].state
      BY <1>0, EntryMoves DEF CInv, States
    <2>2. Open' = Open \ {i}
      BY <1>0, <2>1 DEF Open
    <2>3. \A j \in Open : j # i => work[j].key # k
      BY OpenEntry DEF Open
    <2>4. \A j \in Open' : j \in Entries /\ work'[j].key = work[j].key
      BY <2>1, <2>2 DEF Open
    <2>5. QED
      BY <2>2, <2>3, <2>4 DEF OpenKeys
  <1>2. First(n)' = First(n) /\ OpenKeys' \subseteq First(n)'
    BY <1>1 DEF First, RoomAt
  <1>3. /\ Cardinality(Lost(n)) \in Nat /\ IsFiniteSet(Lost(n))
        /\ Cardinality(Free) \in Nat /\ IsFiniteSet(Free)
    BY FirstKeys, FreeSlots DEF CInv
  <1>4. Cardinality(Lost(n)') <= Cardinality(Free') + (IF Claimed THEN 1 ELSE 0)
    <2>1. CASE ok
      <3>1. slot_of' = [slot_of EXCEPT ![k] = s] /\ key_of' = [key_of EXCEPT ![s] = k]
        BY <2>1 DEF Finish
      <3>2. slot_of'[k] = s /\ \A j \in Keys \ {k} : slot_of'[j] = slot_of[j]
        BY <1>0, <3>1 DEF CInv, CTypeOK
      <3>3. ~(s < 0)
        BY <1>0, SlotSets
      <3>4. Lost(n)' = Lost(n)
        <4>1. First(n) \in SUBSET Keys
          BY FirstKeys DEF CInv
        <4>2. k \in OpenKeys
          BY DEF OpenKeys
        <4>3. QED
          BY <1>0, <1>1, <1>2, <3>2, <3>3, <4>1, <4>2 DEF Lost
      <3>5. Free' = Free
        BY <1>0, <3>1, CacheAssumption DEF Free, CInv, CTypeOK, Sentinels
      <3>6. QED
        BY <3>4, <3>5 DEF RoomAt
    <2>2. CASE ~ok
      <3>1. slot_of' = slot_of /\ key_of' = [key_of EXCEPT ![s] = EMPTY]
        BY <2>2 DEF Finish
      <3>2. Lost(n)' \subseteq Lost(n) \cup {k}
        BY <1>1, <1>2, <3>1 DEF Lost
      <3>3. Free' = Free \cup {s} /\ s \notin Free
        BY <1>0, <3>1, CacheAssumption DEF Free, CInv, CTypeOK, Sentinels
      <3>4. Cardinality(Free') = Cardinality(Free) + 1
        <4>1. PICK F : F = Free
          OBVIOUS
        <4>2. Cardinality(F \cup {s}) = IF s \in F THEN Cardinality(F) ELSE Cardinality(F) + 1
          BY <1>3, <4>1, FS_AddElement
        <4>3. QED
          BY <3>3, <4>1, <4>2
      <3>5. /\ IsFiniteSet(Lost(n) \cup {k})
            /\ Cardinality(Lost(n) \cup {k}) <= Cardinality(Lost(n)) + 1
        <4>1. PICK L : L = Lost(n)
          OBVIOUS
        <4>2. /\ IsFiniteSet(L \cup {k})
              /\ Cardinality(L \cup {k}) = IF k \in L THEN Cardinality(L)
                                           ELSE Cardinality(L) + 1
          BY <1>3, <4>1, FS_AddElement
        <4>3. QED
          BY <1>3, <4>1, <4>2
      <3>6. /\ Cardinality(Lost(n)') <= Cardinality(Lost(n) \cup {k})
            /\ Cardinality(Lost(n)') \in Nat /\ Cardinality(Lost(n) \cup {k}) \in Nat
        BY <3>2, <3>5, FS_Subset, FS_CardinalityType
      <3>7. QED
        BY <1>3, <3>4, <3>5, <3>6 DEF RoomAt
    <2>3. QED
      BY <2>1, <2>2
  <1>5. RoomAt(n)'
    BY <1>2, <1>4 DEF RoomAt
  <1>6. QED
    BY <1>5 DEF Room


(* The batch is launched: everything asked for is in it or settled.        *)
LEMMA LaunchRoom ==
  ASSUME CInv, KeysIndexed, PinsFit, Reserving, UNCHANGED config,
         LaunchNothing \/ LaunchPool \/ LaunchAlone \/ LaunchSerial
  PROVE  Room'
  <1>0. PICK n : n = at - 1
    OBVIOUS
  <1>1. /\ Reserved /\ mpc = "reserve" /\ mpc' # "sync" /\ slot_of' = slot_of
        /\ ids' = ids /\ missing' = missing /\ batching' = batching
    BY DEF LaunchNothing, LaunchPool, LaunchAlone, LaunchSerial, Reserved, index, caller, config
  <1>2. at \in 1 .. Len(ids) + 1 /\ Len(ids) \in Nat /\ at \in Nat
    BY LenProperties DEF CInv, CTypeOK
  <1>3. n \in 0 .. Len(ids')
    BY <1>0, <1>1, <1>2
  <1>4. batching /\ Len(ids) <= TopK => n = Len(ids)
    BY <1>0, <1>1, <1>2, TokenRoom
  <1>5. \A i \in Entries : work[i].state = "pending"
    BY <1>1 DEF CInv, CTypeOK, Progress, Entries
  <1>6. /\ \A i \in Entries : work[i].key \in OpenKeys'
        /\ OpenKeys' \subseteq {work[i].key : i \in Entries}
    <2>1. CASE LaunchNothing \/ LaunchPool \/ LaunchAlone
      <3>1. work' = work
        BY <2>1 DEF LaunchNothing, LaunchPool, LaunchAlone, pool
      <3>2. Entries' = Entries /\ Open' = Entries
        BY <1>5, <3>1 DEF Open, Entries
      <3>3. QED
        BY <3>1, <3>2 DEF OpenKeys
    <2>2. CASE LaunchSerial
      <3>1. work' = [i \in Entries |-> [work[i] EXCEPT !.state = "reading"]]
        BY <2>2 DEF LaunchSerial
      <3>2. Entries' = Entries
        BY <3>1, LenProperties DEF Entries, CInv, CTypeOK
      <3>3. \A i \in Entries : work'[i].key = work[i].key /\ work'[i].state = "reading"
        <4> TAKE i \in Entries
        <4>1. work[i] \in Work
          BY ElementOfSeq DEF CInv, CTypeOK, Entries
        <4>2. work'[i] = [work[i] EXCEPT !.state = "reading"]
          BY <3>1
        <4>3. QED
          BY <4>1, <4>2 DEF Work
      <3>4. Open' = Entries
        BY <3>2, <3>3 DEF Open
      <3>5. QED
        BY <3>3, <3>4 DEF OpenKeys
    <2>3. QED
      BY <2>1, <2>2
  <1>7. First(n)' = First(n)
    BY <1>1 DEF First
  <1>8. OpenKeys' \subseteq First(n)'
    BY <1>0, <1>1, <1>6, <1>7 DEF Reserving, First
  <1>9. Lost(n)' = {}
    <2> SUFFICES ASSUME NEW k \in Lost(n)'
                 PROVE  FALSE
      OBVIOUS
    <2>1. k \in First(n) /\ slot_of[k] < 0 /\ k \notin OpenKeys' /\ k \notin missing
      BY <1>1, <1>7 DEF Lost
    <2>2. PICK p \in 1 .. n : k = ids[p]
      BY <2>1 DEF First
    <2>3. Settled(k)
      BY <1>0, <1>1, <2>2 DEF Reserving
    <2>4. k \in Keys
      BY <1>0, <1>2, <2>2, ElementOfSeq DEF CInv, CTypeOK
    <2>5. ~(slot_of[k] >= 0)
      <3>1. slot_of[k] \in Slots \cup {-1}
        BY <2>4 DEF CInv, CTypeOK
      <3>2. QED
        BY <2>1, <3>1, SlotSets
    <2>6. QED
      BY <1>6, <2>1, <2>3, <2>5 DEF Settled
  <1>10. Cardinality(Lost(n)') <= Cardinality(Free') + (IF Claimed' THEN 1 ELSE 0)
    <2>1. Cardinality(Free') \in Nat
      BY SlotSets DEF Free
    <2>2. Cardinality(Lost(n)') = 0
      BY <1>9, FS_EmptySet
    <2>3. QED
      BY <2>1, <2>2
  <1>11. RoomAt(n)'
    BY <1>1, <1>4, <1>8, <1>10 DEF RoomAt
  <1>12. QED
    BY <1>3, <1>11 DEF Room

(* A list begins with nothing in flight.                                   *)
LEMMA ListRoom ==
  ASSUME CInv, Behind, UNCHANGED config, (Begin /\ ~batching) \/ DraftUse
  PROVE  Room'
  <1>1. Open' = {} /\ slot_of' = slot_of /\ mpc' # "sync"
    <2>1. mpc = "rest" /\ work' = work
      BY DEF Begin, DraftUse, pool
    <2>2. QED
      BY <2>1 DEF Behind, Open, Entries, Begin, DraftUse, index
  <1>2. ids' \in Seq(Keys)
    <2>1. CASE Begin
      BY <2>1, CacheAssumption DEF Begin
    <2>2. CASE DraftUse
      BY <2>2 DEF DraftUse
    <2>3. QED
      BY <2>1, <2>2
  <1>3. CASE Begin /\ ~batching
    BY <1>1, <1>2, <1>3, RoomFromNothing DEF config
  <1>4. CASE DraftUse
    <2>1. PICK k \in Keys : slot_of[k] >= 0 /\ ids' = <<k>>
      BY <1>4 DEF DraftUse
    <2>2. 1 \in 0 .. Len(ids') /\ Len(ids') = 1 /\ First(1)' = {k}
      <3>1. Len(ids') = 1 /\ ids'[1] = k
        BY <2>1
      <3>2. 1 .. 1 = {1}
        OBVIOUS
      <3>3. QED
        BY <3>1, <3>2 DEF First
    <2>3. ~(slot_of[k] < 0)
      <3>1. slot_of[k] \in Slots \cup {-1}
        BY DEF CInv, CTypeOK
      <3>2. QED
        BY <2>1, <3>1, SlotSets
    <2>4. Lost(1)' = {}
      BY <1>1, <2>2, <2>3 DEF Lost
    <2>5. OpenKeys' = {}
      BY <1>1 DEF OpenKeys
    <2>6. Cardinality(Lost(1)') <= Cardinality(Free') + (IF Claimed' THEN 1 ELSE 0)
      <3>1. Cardinality(Free') \in Nat
        BY SlotSets DEF Free
      <3>2. Cardinality(Lost(1)') = 0
        BY <2>4, FS_EmptySet
      <3>3. QED
        BY <3>1, <3>2
    <2>7. RoomAt(1)'
      BY <2>2, <2>5, <2>6 DEF RoomAt
    <2>8. QED
      BY <2>2, <2>7 DEF Room
  <1>5. QED
    BY <1>3, <1>4

(* get takes a slot for a read of its own.                                 *)
LEMMA ClaimRoom ==
  ASSUME CInv, Behind, Room, UNCHANGED config, MissClaim
  PROVE  Room'
  <1>1. /\ mpc = "miss" /\ K \notin missing /\ mpc' = "sync" /\ work' = work /\ ids' = ids
        /\ UNCHANGED <<missing, batching, pipeline>>
    BY DEF MissClaim, pool, config
  <1>2. PICK s \in Victim({}) :
          /\ slot_of' = Evicted(s)
          /\ IF pipeline THEN key_of' = [key_of EXCEPT ![s] = INFLIGHT] ELSE key_of' = key_of
    BY DEF MissClaim
  <1>3. PICK n \in 0 .. Len(ids) : RoomAt(n)
    BY <1>1 DEF Room, Asked
  <1>4. Open' = Open /\ OpenKeys' = OpenKeys /\ Claimed' = pipeline /\ ~Claimed
    BY <1>1 DEF Open, OpenKeys, Entries, Claimed, CInv, CTypeOK
  <1>5. CASE Open = {} /\ ~(batching /\ Len(ids) <= TopK)
    BY <1>1, <1>4, <1>5, RoomFromNothing DEF CInv, CTypeOK
  <1>6. CASE K \in Lost(n)
    <2>1. Free # {}
      BY <1>3, <1>4, <1>6, LostLeaves
    <2>2. s \in Free /\ key_of[s] = EMPTY
      BY <2>1 DEF Victim, Free
    <2>3. slot_of' = slot_of
      BY <1>2, <2>2, CacheAssumption DEF Evicted, Sentinels
    <2>4. First(n)' = First(n) /\ Lost(n)' = Lost(n)
      BY <1>1, <1>4, <2>3 DEF First, Lost
    <2>5. Cardinality(Lost(n)') <= Cardinality(Free') + (IF Claimed' THEN 1 ELSE 0)
      <3>1. CASE ~pipeline
        BY <1>2, <1>3, <1>4, <2>4, <3>1 DEF RoomAt, Free
      <3>2. CASE pipeline
        <4>1. Free' = Free \ {s}
          BY <1>2, <2>2, <3>2 DEF Free, CInv, CTypeOK
        <4>2. PICK F : F = Free
          OBVIOUS
        <4>3. Cardinality(F \ {s}) = IF s \in F THEN Cardinality(F) - 1 ELSE Cardinality(F)
          BY <4>2, FreeSlots, FS_RemoveElement
        <4>4. Cardinality(Free') = Cardinality(Free) - 1
          BY <2>2, <4>1, <4>2, <4>3
        <4>5. Cardinality(Lost(n)) <= Cardinality(Free) /\ Cardinality(Lost(n)) \in Nat
          BY <1>3, <1>4, FreeSlots, FirstKeys DEF RoomAt, CInv
        <4>6. QED
          BY <1>4, <2>4, <3>2, <4>4, <4>5, FreeSlots
      <3>3. QED
        BY <3>1, <3>2
    <2>6. RoomAt(n)'
      BY <1>1, <1>3, <1>4, <2>4, <2>5 DEF RoomAt
    <2>7. QED
      BY <1>1, <2>6 DEF Room
  <1>7. QED
    BY <1>1, <1>3, <1>5, <1>6, MissHasRoom

(* The read of a get ends.                                                 *)
LEMMA ReadRoom ==
  ASSUME CInv, Behind, Reserving, Room, UNCHANGED config, NEW ok \in BOOLEAN, MissRead(ok)
  PROVE  Room'
  <1>1. /\ mpc = "sync" /\ mpc' # "sync" /\ work' = work /\ ids' = ids
        /\ UNCHANGED <<missing, batching, pipeline>> /\ Finish(held, K, ok)
    BY DEF MissRead, pool, config, caller
  <1>2. K \notin missing
    BY <1>1 DEF Reserving
  <1>3. PICK n \in 0 .. Len(ids) : RoomAt(n)
    BY <1>1 DEF Room, Asked
  <1>4. Open' = Open /\ OpenKeys' = OpenKeys /\ ~Claimed' /\ Claimed = pipeline
    BY <1>1 DEF Open, OpenKeys, Entries, Claimed, CInv, CTypeOK
  <1>5. CASE Open = {} /\ ~(batching /\ Len(ids) <= TopK)
    BY <1>1, <1>4, <1>5, RoomFromNothing DEF CInv, CTypeOK
  <1>6. CASE K \in Lost(n)
    <2>0. K \in Keys /\ held \in Slots /\ (pipeline => key_of[held] = INFLIGHT) /\ ~(held < 0)
      <3>1. at \in DOMAIN ids
        BY <1>1 DEF CInv, Handed, Asked
      <3>2. QED
        BY <1>1, <3>1, AskedKey, SlotSets DEF CInv, SyncOwns
    <2>1. /\ IsFiniteSet(Lost(n)) /\ Cardinality(Lost(n)) \in Nat /\ Lost(n) \in SUBSET Keys
          /\ First(n) \in SUBSET Keys
      BY FirstKeys DEF CInv
    <2>2. First(n)' = First(n)
      BY <1>1 DEF First
    <2>3. \E F, L : F = Free /\ L = Lost(n)
      OBVIOUS
    <2>4. PICK F, L : F = Free /\ L = Lost(n)
      BY <2>3
    <2>5. /\ Cardinality(F \cup {held}) = IF held \in F THEN Cardinality(F) ELSE Cardinality(F) + 1
          /\ Cardinality(F \ {held}) = IF held \in F THEN Cardinality(F) - 1 ELSE Cardinality(F)
          /\ IsFiniteSet(F \cup {held}) /\ Cardinality(F) \in Nat
      BY <2>4, FreeSlots, FS_AddElement, FS_RemoveElement
    <2>6. Cardinality(L \ {K}) = Cardinality(L) - 1
      BY <1>6, <2>1, <2>4, FS_RemoveElement
    <2>7. Cardinality(Lost(n)') <= Cardinality(Free')
      <3>1. CASE ok
        <4>1. slot_of' = [slot_of EXCEPT ![K] = held] /\ key_of' = [key_of EXCEPT ![held] = K]
          BY <1>1, <3>1 DEF Finish
        <4>2. slot_of'[K] = held /\ \A j \in Keys \ {K} : slot_of'[j] = slot_of[j]
          BY <2>0, <4>1 DEF CInv, CTypeOK
        <4>3. Lost(n)' = L \ {K}
          BY <1>1, <1>4, <2>0, <2>1, <2>2, <2>4, <4>2 DEF Lost
        <4>4. Free' = F \ {held}
          BY <2>0, <2>4, <4>1, CacheAssumption DEF Free, CInv, CTypeOK, Sentinels
        <4>5. pipeline => held \notin F
          BY <2>0, <2>4 DEF Free
        <4>6. Cardinality(L) <= Cardinality(F) + (IF pipeline THEN 1 ELSE 0)
          BY <1>3, <1>4, <2>4 DEF RoomAt
        <4>7. Cardinality(L) \in Nat /\ pipeline \in BOOLEAN
          BY <2>1, <2>4 DEF CInv, CTypeOK
        <4>8. Cardinality(L \ {K}) <= Cardinality(F \ {held})
          BY <2>5, <2>6, <4>5, <4>6, <4>7
        <4>9. QED
          BY <4>3, <4>4, <4>8
      <3>2. CASE ~ok
        <4>1. slot_of' = slot_of /\ key_of' = [key_of EXCEPT ![held] = EMPTY]
          BY <1>1, <3>2 DEF Finish
        <4>2. Lost(n)' = L
          BY <1>1, <1>4, <2>2, <2>4, <4>1 DEF Lost
        <4>3. Free' = F \cup {held}
          BY <2>0, <2>4, <4>1 DEF Free, CInv, CTypeOK
        <4>4. pipeline => held \notin F
          BY <2>0, <2>4 DEF Free
        <4>5. Cardinality(L) <= Cardinality(F) + (IF pipeline THEN 1 ELSE 0)
          BY <1>3, <1>4, <2>4 DEF RoomAt
        <4>6. Cardinality(L) \in Nat /\ pipeline \in BOOLEAN
          BY <2>1, <2>4 DEF CInv, CTypeOK
        <4>7. Cardinality(L) <= Cardinality(F \cup {held})
          BY <2>5, <4>4, <4>5, <4>6
        <4>8. QED
          BY <4>2, <4>3, <4>7
      <3>3. QED
        BY <3>1, <3>2
    <2>8. Cardinality(Free') \in Nat
      BY SlotSets DEF Free
    <2>9. Cardinality(Lost(n)') <= Cardinality(Free') + (IF Claimed' THEN 1 ELSE 0)
      BY <1>4, <2>7, <2>8
    <2>10. RoomAt(n)'
      BY <1>1, <1>3, <1>4, <2>2, <2>9 DEF RoomAt
    <2>11. QED
      BY <1>1, <2>10 DEF Room
  <1>7. QED
    BY <1>1, <1>2, <1>3, <1>5, <1>6, MissHasRoom

LEMMA RoomStep ==
  ASSUME CInv, KeysIndexed, PinsFit, Behind, Reserving, Room, CNext
  PROVE  Room'
  <1>0. UNCHANGED config
    BY PinSteps
  <1> SUFFICES ASSUME Asked' \/ mpc' \in {"alone", "batch"}
               PROVE  Room'
    BY DEF Room
  <1>1. CASE \/ GetHit \/ GetWait \/ GetMiss \/ MissFails \/ Fill \/ NextExpert
             \/ WorkerTake \/ WorkerExit \/ SpuriousWakeup \/ AloneEnds \/ BatchEnds
             \/ \E i \in Entries, ok \in BOOLEAN : BatchRead(i, ok)
    BY <1>1, RoomQuiet
  <1>2. ASSUME NEW i \in Open, NEW ok \in BOOLEAN,
               Finish(work[i].slot, work[i].key, ok), work' = [work EXCEPT ![i].state = "over"],
               ids' = ids, mpc' = mpc
        PROVE  Room'
    <2>1. /\ Claimed' = Claimed /\ UNCHANGED <<missing, batching, ids>>
          /\ Asked \/ mpc \in {"alone", "batch"}
      BY <1>0, <1>2 DEF Claimed, config, Asked
    <2>2. PICK n \in 0 .. Len(ids) : RoomAt(n)
      BY <2>1 DEF Room
    <2>3. QED
      BY <1>2, <2>1, <2>2, EntryRoom
  <1>3. CASE \E ok \in BOOLEAN : RunAlone(ok)
    <2>1. cursor \in Open
      <3>1. mpc = "alone" /\ cursor \in Entries
        BY <1>3, LenProperties DEF RunAlone, CInv, CTypeOK, Entries
      <3>2. work[cursor].state = "pending"
        BY <3>1 DEF CInv, CTypeOK, Progress
      <3>3. QED
        BY <3>1, <3>2 DEF Open
    <2>2. QED
      BY <1>2, <1>3, <2>1 DEF RunAlone, caller
  <1>4. CASE \E i \in Entries : BatchPublish(i)
    <2>1. PICK i \in Entries : BatchPublish(i)
      BY <1>4
    <2>2. PICK ok \in BOOLEAN : Finish(work[i].slot, work[i].key, ok)
      BY <2>1 DEF BatchPublish
    <2>3. i \in Open /\ work' = [work EXCEPT ![i].state = "over"] /\ ids' = ids /\ mpc' = mpc
      BY <2>1 DEF BatchPublish, Open, caller
    <2>4. QED
      BY <1>2, <2>2, <2>3
  <1>5. CASE \E i \in Entries, ok \in BOOLEAN : WorkerPost(i, ok)
    <2>1. PICK i \in Entries, ok \in BOOLEAN : WorkerPost(i, ok)
      BY <1>5
    <2>2. /\ Finish(work[i].slot, work[i].key, ok) /\ i \in Open
          /\ work' = [work EXCEPT ![i].state = "over"] /\ ids' = ids /\ mpc' = mpc
      BY <2>1 DEF WorkerPost, Open, Reading
    <2>3. QED
      BY <1>2, <2>2
  <1>6. CASE LaunchNothing \/ LaunchPool \/ LaunchAlone \/ LaunchSerial
    BY <1>0, <1>6, LaunchRoom
  <1>7. CASE MissClaim
    BY <1>0, <1>7, ClaimRoom
  <1>8. CASE \E ok \in BOOLEAN : MissRead(ok)
    BY <1>0, <1>8, ReadRoom
  <1>9. CASE Begin \/ DraftUse
    <2>1. Begin => ~batching
      BY DEF Begin, Asked
    <2>2. QED
      BY <1>0, <1>9, <2>1, ListRoom
  <1>10. CASE \/ Drain \/ FreeBegin \/ FreeEnd \/ Settle \/ Freed \/ ReserveSkip \/ ReserveSlot
              \/ \E k \in Keys : \/ Pin(k) \/ Unpin(k) \/ PrefetchHit(k)
                                \/ \E ok \in BOOLEAN : PrefetchMiss(k, ok)
    BY <1>10 DEF Drain, FreeBegin, FreeEnd, Settle, Freed, ReserveSkip, ReserveSlot, Pin, Unpin,
       PrefetchHit, PrefetchMiss, Asked, cvars
  <1>11. QED
    BY <1>1, <1>3, <1>4, <1>5, <1>6, <1>7, <1>8, <1>9, <1>10, StepKinds DEF Elsewhere


LEMMA ReservedAll ==
  ASSUME CInv, KeysIndexed, PinsFit, Reserving, Reserved, Len(ids) <= TopK
  PROVE  Requested \subseteq Gathered \cup missing
  <1> SUFFICES ASSUME NEW k \in Requested
               PROVE  k \in Gathered \cup missing
    OBVIOUS
  <1>1. /\ mpc = "reserve" /\ at > Len(ids) /\ at \in Nat /\ Len(ids) \in Nat
        /\ DOMAIN ids = 1 .. Len(ids)
    BY TokenRoom, LenProperties DEF Reserved, CInv, CTypeOK
  <1>2. PICK p \in DOMAIN ids : ids[p] = k
    BY DEF Requested
  <1>3. p \in 1 .. at - 1
    BY <1>1, <1>2
  <1>4. Settled(k)
    BY <1>1, <1>2, <1>3 DEF Reserving
  <1>5. k \in Keys
    BY <1>2, ElementOfSeq, LenProperties DEF CInv, CTypeOK
  <1>6. \A i \in Entries : work[i].state = "pending"
    BY <1>1 DEF CInv, CTypeOK, Progress, Entries
  <1>7. QED
    BY <1>4, <1>5, <1>6 DEF Settled, Gathered, Pending

-----------------------------------------------------------------------------
(***************************************************************************)
(* Without batches: the order of the stamps protects a token's experts.    *)
(***************************************************************************)
LEMMA Stamps ==
  ASSUME CTypeOK
  PROVE  NSlots \in Nat /\ \A s \in Slots : used_at[s] \in 0 .. NSlots
  BY SlotSets DEF CTypeOK

LEMMA Stamped ==
  ASSUME NEW t \in Slots, Touch(t), NEW s \in Slots
  PROVE  used_at'[s] = IF s = t THEN NSlots
                       ELSE IF used_at[s] > used_at[t] THEN used_at[s] - 1
                       ELSE used_at[s]
  BY DEF Touch

LEMMA TouchRanks ==
  ASSUME CTypeOK, Ranks, NEW t \in Slots, Touch(t)
  PROVE  Ranks'
  <1> SUFFICES ASSUME NEW a \in Slots, NEW b \in Slots, used_at'[a] = used_at'[b],
                      used_at'[a] > 0, a # b
               PROVE  FALSE
    BY DEF Ranks
  <1>1. NSlots \in Nat /\ \A s \in Slots : used_at[s] \in 0 .. NSlots
    BY Stamps
  <1>2. \A x, z \in Slots : used_at[x] = used_at[z] /\ used_at[x] > 0 => x = z
    BY DEF Ranks
  <1>3. ASSUME NEW c \in Slots, c # t, used_at'[c] = NSlots
        PROVE  FALSE
    <2>1. /\ t \in Slots
          /\ used_at'[c] = IF used_at[c] > used_at[t] THEN used_at[c] - 1 ELSE used_at[c]
      BY <1>3, Stamped
    <2>2. NSlots > 0
      BY CacheAssumption
    <2>3. used_at[c] = NSlots /\ used_at[t] = NSlots
      BY <1>1, <1>3, <2>1
    <2>4. QED
      BY <1>2, <1>3, <2>2, <2>3
  <1>4. CASE a = t
    BY <1>3, <1>4, Stamped
  <1>5. CASE b = t
    BY <1>3, <1>5, Stamped
  <1>6. CASE a # t /\ b # t
    <2>1. /\ used_at'[a] = IF used_at[a] > used_at[t] THEN used_at[a] - 1 ELSE used_at[a]
          /\ used_at'[b] = IF used_at[b] > used_at[t] THEN used_at[b] - 1 ELSE used_at[b]
      BY <1>6, Stamped
    <2>2. used_at[a] \in Nat /\ used_at[b] \in Nat /\ used_at[t] \in Nat
      BY <1>1
    <2>3. \/ used_at[a] = used_at[b] /\ used_at[a] > 0
          \/ used_at[t] = used_at[b] /\ used_at[t] > 0
          \/ used_at[t] = used_at[a] /\ used_at[t] > 0
      <3>1. PICK u : u = used_at'[a] /\ u = used_at'[b] /\ u > 0
        OBVIOUS
      <3>2. CASE used_at[a] > used_at[t] /\ used_at[b] > used_at[t]
        <4>1. u = used_at[a] - 1 /\ u = used_at[b] - 1
          BY <2>1, <3>1, <3>2
        <4>2. QED
          BY <2>2, <3>1, <4>1
      <3>3. CASE used_at[a] > used_at[t] /\ ~(used_at[b] > used_at[t])
        <4>1. u = used_at[a] - 1 /\ u = used_at[b]
          BY <2>1, <3>1, <3>3
        <4>2. QED
          BY <2>2, <3>1, <3>3, <4>1
      <3>4. CASE ~(used_at[a] > used_at[t]) /\ used_at[b] > used_at[t]
        <4>1. u = used_at[a] /\ u = used_at[b] - 1
          BY <2>1, <3>1, <3>4
        <4>2. QED
          BY <2>2, <3>1, <3>4, <4>1
      <3>5. CASE ~(used_at[a] > used_at[t]) /\ ~(used_at[b] > used_at[t])
        <4>1. u = used_at[a] /\ u = used_at[b]
          BY <2>1, <3>1, <3>5
        <4>2. QED
          BY <2>2, <3>1, <4>1
      <3>6. QED
        BY <3>2, <3>3, <3>4, <3>5
    <2>4. QED
      BY <1>2, <1>6, <2>3
  <1>7. QED
    BY <1>4, <1>5, <1>6

(* The slots on top, and the one that joins them when it is stamped.       *)
Top(H) == \A s \in Slots : s \in H <=> used_at[s] > NSlots - Cardinality(H)

LEMMA TouchTop ==
  ASSUME CTypeOK, Ranks, NEW H \in SUBSET Slots, Top(H), NEW t \in Slots, Touch(t)
  PROVE  /\ Top(H \cup {t})'
         /\ Cardinality(H \cup {t}) = IF t \in H THEN Cardinality(H) ELSE Cardinality(H) + 1
  <1>1. NSlots \in Nat /\ \A s \in Slots : used_at[s] \in 0 .. NSlots
    BY Stamps
  <1>2. IsFiniteSet(H) /\ Cardinality(H) \in 0 .. NSlots
    BY SlotSets
  <1>3. Cardinality(H \cup {t}) = IF t \in H THEN Cardinality(H) ELSE Cardinality(H) + 1
    BY <1>2, FS_AddElement
  <1>4. PICK h : h = Cardinality(H)
    OBVIOUS
  <1>5. PICK G : G = H \cup {t}
    OBVIOUS
  <1>6. \A s \in Slots : s \in H <=> used_at[s] > NSlots - h
    BY <1>4 DEF Top
  <1>7. ASSUME NEW s \in Slots
        PROVE  s \in G <=> used_at'[s] > NSlots - Cardinality(G)
    <2>1. used_at'[s] = IF s = t THEN NSlots
                        ELSE IF used_at[s] > used_at[t] THEN used_at[s] - 1
                        ELSE used_at[s]
      BY Stamped
    <2>2. used_at[s] \in Nat /\ used_at[t] \in Nat /\ used_at[s] <= NSlots /\ h \in Nat
      BY <1>1, <1>2, <1>4
    <2>3. CASE t \in H
      <3>1. G = H /\ Cardinality(G) = h
        BY <1>4, <1>5, <2>3
      <3>2. used_at[t] > NSlots - h /\ h > 0
        BY <1>1, <1>6, <2>2, <2>3
      <3>3. QED
        BY <1>1, <1>6, <2>1, <2>2, <2>3, <3>1, <3>2
    <2>4. CASE t \notin H
      <3>1. Cardinality(G) = h + 1
        BY <1>3, <1>4, <1>5, <2>4
      <3>2. h # NSlots
        <4>1. IsFiniteSet(Slots) /\ Cardinality(Slots) = NSlots
          BY SlotSets
        <4>2. Cardinality(Slots) = Cardinality(H) => Slots = H
          BY <4>1, FS_Subset
        <4>3. Slots # H
          BY <2>4
        <4>4. QED
          BY <1>4, <4>1, <4>2, <4>3
      <3>3. h < NSlots
        BY <1>1, <1>2, <1>4, <3>2
      <3>4. used_at[t] <= NSlots - h
        BY <1>1, <1>6, <2>2, <2>4
      <3>5. s # t /\ used_at[s] = used_at[t] => used_at[s] = 0
        BY <2>2 DEF Ranks
      <3>6. CASE s = t
        BY <1>1, <1>5, <2>1, <2>2, <3>1, <3>6
      <3>7. CASE s \in H
        <4>1. s # t /\ s \in G /\ used_at[s] > NSlots - h
          BY <1>5, <1>6, <2>4, <3>7
        <4>2. QED
          BY <1>1, <2>1, <2>2, <3>1, <3>4, <4>1
      <3>8. CASE s # t /\ s \notin H
        <4>1. s \notin G /\ ~(used_at[s] > NSlots - h)
          BY <1>5, <1>6, <3>8
        <4>2. QED
          BY <1>1, <2>1, <2>2, <3>1, <3>3, <3>4, <3>5, <3>8, <4>1
      <3>9. QED
        BY <3>6, <3>7, <3>8
    <2>5. QED
      BY <2>3, <2>4
  <1>8. QED
    BY <1>3, <1>5, <1>7 DEF Top

(* Only a stamp changes the order.                                         *)
LEMMA StampSteps ==
  ASSUME CInv, CNext
  PROVE  used_at' = used_at \/ \E s \in Slots : Touch(s)
  <1>1. CASE \/ Drain \/ FreeBegin \/ FreeEnd \/ Begin \/ DraftUse \/ ReserveSkip
             \/ LaunchNothing \/ LaunchPool \/ LaunchAlone \/ LaunchSerial \/ AloneEnds
             \/ BatchEnds \/ GetWait \/ GetMiss \/ MissFails \/ Fill \/ NextExpert
             \/ WorkerTake \/ WorkerExit \/ Settle \/ SpuriousWakeup \/ Freed
             \/ \E i \in Entries, ok \in BOOLEAN : BatchRead(i, ok)
             \/ \E k \in Keys : Pin(k) \/ Unpin(k)
    BY <1>1 DEF Drain, FreeBegin, FreeEnd, Begin, DraftUse, ReserveSkip, LaunchNothing,
       LaunchPool, LaunchAlone, LaunchSerial, AloneEnds, BatchEnds, GetWait, GetMiss, MissFails,
       Fill, NextExpert, WorkerTake, WorkerExit, Settle, SpuriousWakeup, Freed, BatchRead, Pin,
       Unpin, index, cvars
  <1>2. ASSUME NEW s \in Slots, NEW k, NEW ok \in BOOLEAN, Finish(s, k, ok)
        PROVE  used_at' = used_at \/ \E t \in Slots : Touch(t)
    BY <1>2 DEF Finish
  <1>3. ASSUME NEW i \in Entries, NEW ok \in BOOLEAN, WorkerPost(i, ok) \/ BatchPublish(i)
        PROVE  used_at' = used_at \/ \E t \in Slots : Touch(t)
    <2>1. work[i].slot \in Slots
      BY EntryType DEF CInv
    <2>2. PICK o \in BOOLEAN : Finish(work[i].slot, work[i].key, o)
      BY <1>3 DEF WorkerPost, BatchPublish
    <2>3. QED
      BY <1>2, <2>1, <2>2
  <1>4. ASSUME NEW ok \in BOOLEAN, RunAlone(ok)
        PROVE  used_at' = used_at \/ \E t \in Slots : Touch(t)
    <2>1. cursor \in Entries
      BY <1>4, LenProperties DEF RunAlone, CInv, CTypeOK, Entries
    <2>2. work[cursor].slot \in Slots
      BY <2>1, EntryType DEF CInv
    <2>3. Finish(work[cursor].slot, work[cursor].key, ok)
      BY <1>4 DEF RunAlone
    <2>4. QED
      BY <1>2, <2>2, <2>3
  <1>5. ASSUME NEW ok \in BOOLEAN, MissRead(ok)
        PROVE  used_at' = used_at \/ \E t \in Slots : Touch(t)
    <2>1. held \in Slots
      BY <1>5 DEF MissRead, CInv, SyncOwns
    <2>2. QED
      BY <1>2, <1>5, <2>1 DEF MissRead
  <1>6. ASSUME NEW k \in Keys, slot_of[k] >= 0
        PROVE  slot_of[k] \in Slots
    BY <1>6 DEF CInv, CTypeOK
  <1>7. CASE GetHit
    <2>1. at \in DOMAIN ids
      BY <1>7 DEF GetHit, Asking, CInv, Handed, Asked
    <2>2. slot_of[K] \in Slots
      BY <1>6, <1>7, <2>1, AskedKey DEF GetHit, CInv
    <2>3. QED
      BY <1>7, <2>2 DEF GetHit
  <1>8. ASSUME NEW k \in Keys, PrefetchHit(k)
        PROVE  used_at' = used_at \/ \E t \in Slots : Touch(t)
    BY <1>6, <1>8 DEF PrefetchHit
  <1>9. CASE \/ ReserveSlot \/ MissClaim
             \/ \E k \in Keys, ok \in BOOLEAN : PrefetchMiss(k, ok)
    <2>1. PICK X : \E s \in Victim(X) : used_at' = used_at \/ Touch(s)
      BY <1>9 DEF ReserveSlot, MissClaim, PrefetchMiss
    <2>2. Victim(X) \subseteq Slots
      BY VictimFacts DEF CInv
    <2>3. QED
      BY <2>1, <2>2
  <1>10. QED
    BY <1>1, <1>3, <1>4, <1>5, <1>7, <1>8, <1>9, StepKinds DEF Elsewhere

LEMMA RanksStep ==
  ASSUME CInv, Ranks, CNext
  PROVE  Ranks'
  <1>1. CASE used_at' = used_at
    BY <1>1 DEF Ranks
  <1>2. CASE \E s \in Slots : Touch(s)
    BY <1>2, TouchRanks DEF CInv
  <1>3. QED
    BY <1>1, <1>2, StampSteps


(* Without batches the calling thread is alone with its list.              *)
SoloSteps ==
  \/ Begin \/ DraftUse \/ GetHit \/ GetMiss \/ MissClaim \/ MissFails \/ Fill \/ NextExpert
  \/ \E ok \in BOOLEAN : MissRead(ok)
  \/ mpc' \in {"rest", "freeing", "closed"}
  \/ Asked /\ UNCHANGED <<index, work, mpc, ids, at, held>>

LEMMA Solo ==
  ASSUME CInv, Unbatched, ~batching, CNext
  PROVE  SoloSteps /\ work' = <<>> /\ batching' = batching
  <1>1. work = <<>> /\ Entries = {} /\ mpc \notin {"drain", "reserve", "alone", "batch"}
    BY DEF Unbatched, Entries
  <1>2. batching' = batching
    BY PinSteps DEF config
  <1>3. CASE Elsewhere
    <2>1. ~WorkerTake
      BY <1>1 DEF WorkerTake, CInv, CTypeOK
    <2>2. /\ ~\E i \in Entries, ok \in BOOLEAN : BatchRead(i, ok) \/ WorkerPost(i, ok)
          /\ ~\E i \in Entries : BatchPublish(i)
          /\ ~\E ok \in BOOLEAN : RunAlone(ok)
      BY <1>1 DEF RunAlone
    <2>3. CASE WorkerExit \/ SpuriousWakeup
      <3>1. UNCHANGED <<index, work, mpc, ids, at, held>>
        BY <2>3 DEF WorkerExit, SpuriousWakeup, caller, pool
      <3>2. Asked \/ mpc \in {"rest", "freeing", "closed"}
        BY <1>1 DEF Asked, CInv, CTypeOK
      <3>3. QED
        BY <1>1, <1>2, <3>1, <3>2 DEF SoloSteps
    <2>4. CASE \/ Settle \/ Freed
               \/ \E k \in Keys : Pin(k) \/ Unpin(k) \/ PrefetchHit(k)
               \/ \E k \in Keys, ok \in BOOLEAN : PrefetchMiss(k, ok)
      BY <1>1, <1>2, <2>4 DEF Settle, Freed, Pin, Unpin, PrefetchHit, PrefetchMiss, SoloSteps,
         Drained, cvars
    <2>5. QED
      BY <1>3, <2>1, <2>2, <2>3, <2>4 DEF Elsewhere
  <1>4. CASE GetWait
    BY <1>1, <1>4 DEF GetWait, InBatch, Pending
  <1>5. CASE \/ Drain \/ ReserveSkip \/ ReserveSlot \/ LaunchNothing \/ LaunchPool \/ LaunchAlone
             \/ LaunchSerial \/ AloneEnds \/ BatchEnds
    BY <1>1, <1>5 DEF Drain, ReserveSkip, ReserveSlot, LaunchNothing, LaunchPool, LaunchAlone,
       LaunchSerial, Reserved, AloneEnds, BatchEnds
  <1>6. CASE \/ FreeBegin \/ FreeEnd \/ Begin \/ DraftUse \/ GetHit \/ GetMiss \/ MissClaim
             \/ MissFails \/ Fill \/ NextExpert \/ \E ok \in BOOLEAN : MissRead(ok)
    BY <1>1, <1>2, <1>6 DEF FreeBegin, FreeEnd, Begin, DraftUse, GetHit, GetMiss, MissClaim,
       MissFails, Fill, NextExpert, MissRead, SoloSteps, pool, Drained
  <1>7. QED
    BY <1>3, <1>4, <1>5, <1>6, StepKinds


LEMMA UnbatchedStep ==
  ASSUME CInv, Unbatched, CNext
  PROVE  Unbatched'
  <1>0. batching' = batching
    BY PinSteps DEF config
  <1> SUFFICES ASSUME ~batching
               PROVE  Unbatched'
    BY <1>0 DEF Unbatched
  <1>1. SoloSteps /\ work' = <<>>
    BY Solo
  <1>2. CASE Begin \/ DraftUse \/ GetHit \/ GetMiss \/ MissClaim \/ Fill \/ NextExpert
    BY <1>1, <1>2 DEF Begin, DraftUse, GetHit, GetMiss, MissClaim, Fill, NextExpert, Unbatched
  <1>3. CASE MissFails
    <2>1. /\ slot_of' = slot_of /\ K' = K /\ mpc' = "refused" /\ slot_of[K] < 0
      BY <1>3 DEF MissFails, index, caller, K, CInv, SyncOwns
    <2>2. QED
      BY <1>1, <2>1 DEF Unbatched
  <1>4. ASSUME NEW ok \in BOOLEAN, MissRead(ok)
        PROVE  Unbatched'
    <2>1. K' = K /\ slot_of[K] < 0 /\ mpc' = (IF ok THEN "fill" ELSE "refused")
      BY <1>4 DEF MissRead, caller, K, CInv, SyncOwns
    <2>2. ~ok => slot_of' = slot_of
      BY <1>4 DEF MissRead, Finish
    <2>3. QED
      BY <1>1, <2>1, <2>2 DEF Unbatched
  <1>5. CASE mpc' \in {"rest", "freeing", "closed"}
    BY <1>1, <1>5 DEF Unbatched
  <1>6. CASE Asked /\ UNCHANGED <<index, work, mpc, ids, at, held>>
    BY <1>6 DEF Unbatched, index, K
  <1>7. QED
    BY <1>1, <1>2, <1>3, <1>4, <1>5, <1>6 DEF SoloSteps

LEMMA RecentBy ==
  ASSUME NEW H \in SUBSET Slots, Kept' \subseteq H, Cardinality(H) <= Tries', Top(H)'
  PROVE  Recent'
  BY DEF Recent, Top

(* What the list has gathered before its present place.                    *)
Before == {slot_of[ids[p]] : p \in 1 .. at - 1} \ {-1}

LEMMA KeptIs ==
  Kept = Before \cup (IF Claimed \/ (mpc \in {"fill", "use"} /\ at < Len(ids)) THEN {held} ELSE {})
  BY DEF Kept, Before

(* A stamp on slot t, which the caller was handed, is one more try.        *)
LEMMA RecentTouch ==
  ASSUME CTypeOK, Ranks, NEW H \in SUBSET Slots, Before \subseteq H, Top(H),
         NEW t \in Slots, Touch(t), Before' \subseteq Before \cup {t}, held' = t,
         Tries' = at, at \in Nat,
         (t \in H /\ Cardinality(H) <= at) \/ Cardinality(H) <= at - 1
  PROVE  Recent'
  <1>1. PICK G : G = H \cup {t}
    OBVIOUS
  <1>2. G \in SUBSET Slots /\ Kept' \subseteq G
    BY <1>1, KeptIs DEF Kept, Before
  <1>3. Top(G)' /\ Cardinality(G) = IF t \in H THEN Cardinality(H) ELSE Cardinality(H) + 1
    BY <1>1, TouchTop
  <1>4. Cardinality(H) \in Nat
    BY SlotSets
  <1>5. Cardinality(G) <= Tries'
    BY <1>3, <1>4
  <1>6. QED
    BY <1>2, <1>3, <1>5, RecentBy

LEMMA RecentStep ==
  ASSUME CInv, Ranks, Unbatched, Recent, CNext
  PROVE  Recent'
  <1>0. batching' = batching
    BY PinSteps DEF config
  <1> SUFFICES ASSUME ~batching, Asked'
               PROVE  Recent'
    BY <1>0 DEF Recent
  <1>1. SoloSteps
    BY Solo
  <1>2. CASE Begin \/ DraftUse
    <2>1. at' = 1 /\ used_at' = used_at /\ mpc' \in {"get", "fill"}
      BY <1>2 DEF Begin, DraftUse, index
    <2>2. DraftUse => Len(ids') = 1
      BY DEF DraftUse
    <2>3. Begin => mpc' = "get"
      BY DEF Begin
    <2>4. Kept' = {}
      <3>1. ~(mpc' \in {"fill", "use"} /\ at' < Len(ids')) /\ ~Claimed'
        BY <1>2, <2>1, <2>2, <2>3 DEF Claimed
      <3>2. 1 .. at' - 1 = {}
        BY <2>1
      <3>3. QED
        BY <3>1, <3>2 DEF Kept
    <2>5. Tries' >= 0
      BY <2>1 DEF Tries
    <2>6. {} \in SUBSET Slots /\ Cardinality({}) = 0
      BY FS_EmptySet
    <2>7. Top({})'
      <3>1. \A s \in Slots : ~(used_at'[s] > NSlots - 0)
        BY <2>1, Stamps DEF CInv
      <3>2. QED
        BY <2>6, <3>1 DEF Top
    <2>8. QED
      BY <2>4, <2>5, <2>6, <2>7, RecentBy
  <1>3. ASSUME Asked, UNCHANGED <<used_at, slot_of, ids, at>>,
               Kept' \subseteq Kept, Tries' >= Tries
        PROVE  Recent'
    <2>1. PICK H \in SUBSET Slots : Kept \subseteq H /\ Cardinality(H) <= Tries /\ Top(H)
      BY <1>3 DEF Recent, Top
    <2>2. Top(H)'
      BY <1>3, <2>1 DEF Top
    <2>3. Cardinality(H) \in Nat /\ at \in Nat
      BY SlotSets, LenProperties DEF CInv, CTypeOK
    <2>4. Tries \in Int /\ Tries' \in Int
      BY <1>3, <2>3 DEF Tries
    <2>5. QED
      BY <1>3, <2>1, <2>2, <2>3, <2>4, RecentBy
  <1>4. CASE \/ GetMiss \/ MissFails \/ Fill
             \/ Asked /\ UNCHANGED <<index, work, mpc, ids, at, held>>
    <2>1. Asked /\ UNCHANGED <<used_at, slot_of, ids, at, held>>
      BY <1>4 DEF GetMiss, MissFails, Fill, Asked, Asking, index, caller
    <2>2. \/ mpc \in {"get", "waiting"} /\ mpc' = "miss"
          \/ mpc = "miss" /\ mpc' = "refused"
          \/ mpc = "fill" /\ mpc' = "use"
          \/ mpc' = mpc /\ (GetMiss \/ MissFails \/ Fill \/ UNCHANGED mpc)
      BY <1>4 DEF GetMiss, MissFails, Fill, Asking
    <2>3. pipeline' = pipeline
      BY PinSteps DEF config
    <2>4. Claimed' <=> Claimed
      BY <2>2, <2>3 DEF Claimed
    <2>5. Kept' \subseteq Kept
      BY <2>1, <2>2, <2>4 DEF Kept
    <2>6. at \in Nat
      BY LenProperties DEF CInv, CTypeOK
    <2>7. Tries' >= Tries
      BY <2>1, <2>2, <2>4, <2>6 DEF Tries, Claimed
    <2>8. QED
      BY <1>3, <2>1, <2>5, <2>7
  <1>5. ASSUME Asked
        PROVE  /\ at \in DOMAIN ids /\ K \in Keys /\ at \in Nat
               /\ \A p \in 1 .. at - 1 : p \in DOMAIN ids /\ ids[p] \in Keys
               /\ \E H \in SUBSET Slots : /\ Kept \subseteq H /\ Cardinality(H) <= Tries
                                          /\ Top(H) /\ Before \subseteq H
                                          /\ Cardinality(H) \in Nat
    <2>1. at \in DOMAIN ids
      BY <1>5 DEF CInv, Handed
    <2>2. K \in Keys /\ at \in Nat /\ \A p \in 1 .. at - 1 : p \in DOMAIN ids
      BY <2>1, AskedKey, LenProperties DEF CInv, CTypeOK
    <2>3. \A p \in DOMAIN ids : ids[p] \in Keys
      BY ElementOfSeq, LenProperties DEF CInv, CTypeOK
    <2>4. PICK H \in SUBSET Slots : Kept \subseteq H /\ Cardinality(H) <= Tries /\ Top(H)
      BY <1>5 DEF Recent, Top
    <2>5. Before \subseteq H
      BY <2>4, KeptIs
    <2>6. QED
      BY <2>1, <2>2, <2>3, <2>4, <2>5, SlotSets
  <1>6. CASE GetHit
    <2>1. /\ mpc \in {"get", "waiting"} /\ Asked /\ mpc' = "fill" /\ slot_of[K] >= 0
          /\ Touch(slot_of[K]) /\ held' = slot_of[K] /\ UNCHANGED <<slot_of, ids, at>>
      BY <1>6 DEF GetHit, Asking, Asked
    <2>2. PICK H \in SUBSET Slots : /\ Kept \subseteq H /\ Cardinality(H) <= Tries
                                    /\ Top(H) /\ Before \subseteq H
      BY <1>5, <2>1
    <2>3. slot_of[K] \in Slots
      BY <1>5, <2>1 DEF CInv, CTypeOK
    <2>4. Before' = Before /\ Tries' = at /\ Tries = at - 1
      BY <2>1 DEF Before, Tries, Claimed
    <2>5. QED
      BY <1>5, <2>1, <2>2, <2>3, <2>4, RecentTouch DEF CInv
  <1>7. CASE MissClaim
    <2>1. /\ mpc = "miss" /\ Asked /\ mpc' = "sync" /\ pipeline' = pipeline /\ UNCHANGED <<ids, at>>
      BY <1>7 DEF MissClaim, Asked, config
    <2>2. PICK s \in Victim({}) :
            /\ held' = s /\ slot_of' = Evicted(s)
            /\ pipeline => Touch(s)
            /\ ~pipeline => used_at' = used_at
      BY <1>7 DEF MissClaim
    <2>3. s \in Slots /\ key_of[s] # INFLIGHT
      BY VictimFacts DEF CInv
    <2>4. \A k \in Keys : slot_of'[k] = slot_of[k] \/ slot_of'[k] = -1
      BY <2>2, <2>3, EvictedFacts DEF CInv
    <2>5. PICK H \in SUBSET Slots : /\ Kept \subseteq H /\ Cardinality(H) <= Tries
                                    /\ Top(H) /\ Before \subseteq H
      BY <1>5, <2>1
    <2>6. Before' \subseteq Before
      BY <1>5, <2>1, <2>4 DEF Before
    <2>7. Tries = at - 1 /\ ~Claimed
      BY <2>1 DEF Tries, Claimed
    <2>8. CASE pipeline
      <3>1. Tries' = at
        BY <2>1, <2>8 DEF Tries, Claimed
      <3>2. QED
        BY <1>5, <2>1, <2>2, <2>3, <2>5, <2>6, <2>7, <2>8, <3>1, RecentTouch DEF CInv
    <2>9. CASE ~pipeline
      <3>1. Tries' = at - 1 /\ Kept' \subseteq Before
        BY <2>1, <2>6, <2>9 DEF Tries, Claimed, Kept, Before
      <3>2. Top(H)'
        BY <2>2, <2>5, <2>9 DEF Top
      <3>3. QED
        BY <2>5, <2>7, <3>1, <3>2, RecentBy
    <2>10. QED
      BY <2>8, <2>9
  <1>8. ASSUME NEW ok \in BOOLEAN, MissRead(ok)
        PROVE  Recent'
    <2>1. /\ mpc = "sync" /\ Asked /\ UNCHANGED <<ids, at, held>> /\ held \in Slots
          /\ Finish(held, K, ok) /\ mpc' = (IF ok THEN "fill" ELSE "refused")
          /\ slot_of[K] < 0 /\ pipeline \in BOOLEAN
      BY <1>8 DEF MissRead, Asked, caller, CInv, SyncOwns, CTypeOK
    <2>2. PICK H \in SUBSET Slots : /\ Kept \subseteq H /\ Cardinality(H) <= Tries
                                    /\ Top(H) /\ Before \subseteq H
      BY <1>5, <2>1
    <2>3. Tries' = at /\ ~Claimed'
      BY <2>1 DEF Tries, Claimed
    <2>4. CASE ok
      <3>1. slot_of' = [slot_of EXCEPT ![K] = held] /\ Touch(held)
        BY <2>1, <2>4 DEF Finish
      <3>2. Before' \subseteq Before \cup {held}
        <4>1. \A k \in Keys : slot_of'[k] = slot_of[k] \/ slot_of'[k] = held
          BY <3>1 DEF CInv, CTypeOK
        <4>2. QED
          BY <1>5, <2>1, <4>1 DEF Before
      <3>3. (held \in H /\ Cardinality(H) <= at) \/ Cardinality(H) <= at - 1
        BY <2>1, <2>2 DEF Kept, Tries, Claimed
      <3>4. QED
        BY <1>5, <2>1, <2>2, <2>3, <3>1, <3>2, <3>3, RecentTouch DEF CInv
    <2>5. CASE ~ok
      <3>1. UNCHANGED <<slot_of, used_at>> /\ mpc' = "refused"
        BY <2>1, <2>5 DEF Finish
      <3>2. Kept' \subseteq Kept
        BY <2>1, <2>3, <3>1 DEF Kept
      <3>3. Tries' >= Tries
        BY <1>5, <2>1, <2>3 DEF Tries
      <3>4. QED
        BY <1>3, <2>1, <3>1, <3>2, <3>3
    <2>6. QED
      BY <2>4, <2>5
  <1>9. CASE NextExpert
    <2>1. /\ mpc \in {"use", "refused"} /\ Asked /\ UNCHANGED <<slot_of, used_at>>
      BY <1>9 DEF NextExpert, Asked, index
    <2>2. at < Len(ids) /\ at' = at + 1 /\ mpc' = "get" /\ ids' = ids
      BY <1>9 DEF NextExpert, Asked
    <2>3. PICK H \in SUBSET Slots : /\ Kept \subseteq H /\ Cardinality(H) <= Tries
                                    /\ Top(H) /\ Before \subseteq H
      BY <1>5, <2>1
    <2>4. slot_of[K] \in H \cup {-1}
      <3>1. CASE mpc = "use"
        BY <2>2, <2>3, <3>1 DEF Kept, CInv, Handed
      <3>2. CASE mpc = "refused"
        <4>1. slot_of[K] < 0 /\ slot_of[K] \in Slots \cup {-1}
          BY <1>5, <2>1, <3>2 DEF Unbatched, CInv, CTypeOK
        <4>2. QED
          BY <4>1, SlotSets
      <3>3. QED
        BY <2>1, <3>1, <3>2
    <2>5. Kept' \subseteq H
      <3>1. \A p \in 1 .. at' - 1 : p \in 1 .. at - 1 \/ p = at
        BY <1>5, <2>1, <2>2
      <3>2. Kept' = {slot_of[ids[p]] : p \in 1 .. at' - 1} \ {-1}
        BY <2>1, <2>2 DEF Kept, Claimed
      <3>3. QED
        BY <2>3, <2>4, <3>1, <3>2 DEF Before, K
    <2>6. Tries' = at /\ Tries = at
      BY <1>5, <2>1, <2>2 DEF Tries, Claimed
    <2>7. Top(H)'
      BY <2>1, <2>3 DEF Top
    <2>8. QED
      BY <2>3, <2>5, <2>6, <2>7, RecentBy
  <1>10. CASE mpc' \in {"rest", "freeing", "closed"}
    BY <1>10 DEF Asked
  <1>11. QED
    BY <1>1, <1>2, <1>4, <1>6, <1>7, <1>8, <1>9, <1>10 DEF SoloSteps

-----------------------------------------------------------------------------
(***************************************************************************)
(* What a token has gathered stays while its list is worked through.       *)
(***************************************************************************)
LEMMA SlotsMove ==
  ASSUME CInv, CNext, Asked, ~MissClaim
  PROVE  \A k \in Keys : slot_of[k] >= 0 => slot_of'[k] = slot_of[k]
  <1>1. ASSUME NEW s, NEW j \in Keys, NEW ok \in BOOLEAN, Finish(s, j, ok), slot_of[j] < 0
        PROVE  \A k \in Keys : slot_of[k] >= 0 => slot_of'[k] = slot_of[k]
    <2> SUFFICES ASSUME NEW k \in Keys, slot_of[k] >= 0
                 PROVE  slot_of'[k] = slot_of[k]
      OBVIOUS
    <2>1. slot_of[k] \in Slots /\ slot_of[j] \in Slots \cup {-1}
      BY DEF CInv, CTypeOK
    <2>2. k # j
      BY <1>1, <2>1, SlotSets
    <2>3. QED
      BY <1>1, <2>2 DEF Finish, CInv, CTypeOK
  <1>2. CASE \E i \in Entries, ok \in BOOLEAN : WorkerPost(i, ok)
    <2>1. PICK i \in Entries, ok \in BOOLEAN : WorkerPost(i, ok)
      BY <1>2
    <2>2. work[i].key \in Keys /\ slot_of[work[i].key] < 0
      BY <2>1, OpenEntry DEF WorkerPost, Reading, Open
    <2>3. QED
      BY <1>1, <2>1, <2>2 DEF WorkerPost
  <1>3. CASE \E ok \in BOOLEAN : MissRead(ok)
    <2>1. slot_of[K] < 0 /\ K \in Keys
      BY <1>3, AskedKey DEF MissRead, CInv, SyncOwns, Handed
    <2>2. QED
      BY <1>1, <1>3, <2>1 DEF MissRead
  <1>4. CASE \/ Drain \/ FreeBegin \/ FreeEnd \/ Begin \/ DraftUse \/ ReserveSkip
             \/ LaunchNothing \/ LaunchPool \/ LaunchAlone \/ LaunchSerial \/ AloneEnds
             \/ BatchEnds \/ GetHit \/ GetWait \/ GetMiss \/ MissFails \/ Fill \/ NextExpert
             \/ WorkerTake \/ WorkerExit \/ Settle \/ SpuriousWakeup \/ Freed
             \/ \E i \in Entries, ok \in BOOLEAN : BatchRead(i, ok)
             \/ \E k \in Keys : Pin(k) \/ Unpin(k) \/ PrefetchHit(k)
    BY <1>4 DEF Drain, FreeBegin, FreeEnd, Begin, DraftUse, ReserveSkip, LaunchNothing,
       LaunchPool, LaunchAlone, LaunchSerial, AloneEnds, BatchEnds, GetHit, GetWait, GetMiss,
       MissFails, Fill, NextExpert, WorkerTake, WorkerExit, Settle, SpuriousWakeup, Freed,
       BatchRead, Pin, Unpin, PrefetchHit, index, cvars
  <1>5. CASE \/ ReserveSlot \/ \E ok \in BOOLEAN : RunAlone(ok)
             \/ \E i \in Entries : BatchPublish(i)
             \/ \E k \in Keys, ok \in BOOLEAN : PrefetchMiss(k, ok)
    BY <1>5 DEF ReserveSlot, RunAlone, BatchPublish, PrefetchMiss, Asked
  <1>6. QED
    BY <1>2, <1>3, <1>4, <1>5, StepKinds DEF Elsewhere

(* A victim is never a slot stamped since the list began.                  *)
LEMMA RecentSpared ==
  ASSUME CInv, KeysIndexed, PinsFit, mpc = "miss", Recent, ~batching, Open = {},
         Len(ids) <= TopK, Free = {}, NEW s \in Victim({})
  PROVE  s \notin Before
  <1>1. PICK H \in SUBSET Slots : /\ Kept \subseteq H /\ Cardinality(H) <= Tries /\ Top(H)
    BY DEF Recent, Top, Asked
  <1>2. Before \subseteq H /\ Tries = at - 1
    BY <1>1, KeptIs DEF Tries, Claimed
  <1>3. at \in 1 .. Len(ids) /\ Len(ids) \in Nat /\ TopK \in Nat
    BY LenProperties, CacheAssumption DEF CInv, CTypeOK, Handed, Asked
  <1>4. Cardinality(Evictable({})) >= TopK + 1
    BY IdleVictim
  <1>5. PICK e \in Evictable({}) : e \notin H
    <2> SUFFICES ASSUME Evictable({}) \subseteq H
                 PROVE  FALSE
      OBVIOUS
    <2>1. Cardinality(Evictable({})) <= Cardinality(H)
      BY SlotSets, FS_Subset
    <2>2. Cardinality(Evictable({})) \in Nat /\ Cardinality(H) \in Nat
      BY SlotSets DEF Evictable
    <2>3. QED
      BY <1>1, <1>2, <1>3, <1>4, <2>1, <2>2
  <1>6. s \in Evictable({}) /\ (used_at[s] < used_at[e] \/ used_at[s] = used_at[e])
    BY DEF Victim
  <1>7. e \in Slots /\ s \in Slots
    BY <1>6 DEF Evictable
  <1>8. ~(used_at[e] > NSlots - Cardinality(H))
    BY <1>1, <1>5, <1>7 DEF Top
  <1>9. /\ used_at[s] \in Nat /\ used_at[e] \in Nat /\ NSlots \in Nat
        /\ Cardinality(H) \in Nat
    BY <1>7, Stamps, SlotSets DEF CInv
  <1>10. ~(used_at[s] > NSlots - Cardinality(H))
    BY <1>6, <1>8, <1>9
  <1>11. s \notin H
    BY <1>1, <1>7, <1>10 DEF Top
  <1>12. QED
    BY <1>2, <1>11

LEMMA TokenKept ==
  ASSUME CInv, KeysIndexed, RoomInv, CNext, OnTheList, Len(ids) <= TopK, NEW i \in DOMAIN ids,
         slot_of[ids[i]] >= 0,
         batching \/ i < at \/ (mpc \in {"fill", "use"} /\ i = at)
  PROVE  slot_of'[ids[i]] = slot_of[ids[i]]
  <1>1. ids[i] \in Keys /\ Asked
    BY ElementOfSeq, LenProperties DEF CInv, CTypeOK, OnTheList, Asked
  <1>2. CASE ~MissClaim
    BY <1>1, <1>2, SlotsMove
  <1>3. CASE MissClaim
    <2>1. PICK s \in Victim({}) : slot_of' = Evicted(s)
      BY <1>3 DEF MissClaim
    <2>2. mpc = "miss" /\ K \notin missing
      BY <1>3 DEF MissClaim
    <2>3. s \in Slots /\ (key_of[s] = EMPTY \/ key_of[s] \in Keys)
      BY VictimFacts DEF CInv
    <2>4. CASE Free # {}
      <3>1. key_of[s] = EMPTY
        BY <2>4 DEF Victim, Free
      <3>2. QED
        BY <2>1, <3>1, CacheAssumption DEF Evicted, Sentinels
    <2>5. CASE Free = {}
      <3>1. PICK n \in 0 .. Len(ids) : RoomAt(n)
        BY <1>1 DEF RoomInv, Room
      <3>2. K \notin Lost(n)
        BY <2>2, <2>5, <3>1, LostLeaves DEF Claimed
      <3>3. Open = {} /\ ~batching
        BY <2>2, <3>1, <3>2, MissHasRoom DEF RoomInv
      <3>4. s \notin Before
        BY <2>2, <2>5, <3>3, RecentSpared DEF RoomInv
      <3>5. i < at
        BY <2>2, <3>3
      <3>6. i \in 1 .. at - 1
        BY <3>5, LenProperties DEF CInv, CTypeOK
      <3>7. slot_of[ids[i]] \in Slots
        BY <1>1 DEF CInv, CTypeOK
      <3>8. slot_of[ids[i]] \in Before
        BY <3>6, <3>7, SlotSets DEF Before
      <3>9. key_of[s] # ids[i]
        BY <1>1, <2>2, <2>3, <3>4, <3>8 DEF KeysIndexed
      <3>10. QED
        BY <1>1, <2>1, <3>9 DEF Evicted, CInv, CTypeOK
    <2>6. QED
      BY <2>4, <2>5
  <1>4. QED
    BY <1>2, <1>3
-----------------------------------------------------------------------------
(***************************************************************************)
(* The room invariant, and what it is for.                                 *)
(***************************************************************************)
LEMMA RoomInit == CInit => RoomInv
  <1> SUFFICES ASSUME CInit PROVE RoomInv
    OBVIOUS
  <1>1. /\ mpc = "rest" /\ work = <<>> /\ pinned = {} /\ ids = <<>>
        /\ used_at = [s \in Slots |-> 0] /\ hot \in SUBSET Keys /\ Cardinality(hot) <= Pinnable
    BY DEF CInit
  <1>2. PinsFit
    <2>1. ManualPins = {} /\ Cardinality({}) = 0
      BY <1>1, FS_EmptySet DEF ManualPins
    <2>2. Cardinality(hot) \in Nat /\ Pinnable \in Int
      BY <1>1, KeySets, CacheAssumption DEF Pinnable
    <2>3. QED
      BY <1>1, <2>1, <2>2 DEF PinsFit
  <1>3. Behind
    BY <1>1 DEF Behind, Open, Entries, Asked
  <1>4. Reserving /\ Room /\ Unbatched /\ Recent
    BY <1>1 DEF Reserving, Room, Unbatched, Recent, Asked
  <1>5. Ranks
    BY <1>1 DEF Ranks
  <1>6. QED
    BY <1>2, <1>3, <1>4, <1>5 DEF RoomInv

LEMMA RoomStays ==
  ASSUME CInv, UNCHANGED cvars, RoomInv
  PROVE  RoomInv'
  <1> USE DEF cvars
  <1>1. PinsFit' /\ Behind' /\ Reserving'
    BY DEF RoomInv, PinsFit, ManualPins, Pinnable, Behind, Open, Entries, Asked, Reserving,
       Settled, K
  <1>2. Room'
    <2>1. /\ OpenKeys' = OpenKeys /\ Claimed' = Claimed
          /\ UNCHANGED <<slot_of, key_of, missing, batching, ids, mpc>>
      BY DEF OpenKeys, Open, Entries, Claimed
    <2>2. CASE Asked \/ mpc \in {"alone", "batch"}
      BY <2>1, <2>2, RoomFrame DEF RoomInv, Room
    <2>3. CASE ~(Asked \/ mpc \in {"alone", "batch"})
      BY <2>1, <2>3 DEF Room, Asked
    <2>4. QED
      BY <2>2, <2>3
  <1>3. Ranks' /\ Unbatched' /\ Recent'
    BY DEF RoomInv, Ranks, Unbatched, K, Recent, Kept, Tries, Claimed, Asked
  <1>4. QED
    BY <1>1, <1>2, <1>3 DEF RoomInv

(* Room is kept by every step: RoomInv holds in every state of every run.  *)
THEOREM RoomInvariant == CSpec => []RoomInv
  <1>1. CInv /\ KeysIndexed /\ RoomInv /\ [CNext]_cvars => RoomInv'
    <2> SUFFICES ASSUME CInv, KeysIndexed, RoomInv, [CNext]_cvars PROVE RoomInv'
      OBVIOUS
    <2>1. CASE CNext
      BY <2>1, PinsStep, BehindStep, ReservingStep, RoomStep, RanksStep, UnbatchedStep,
         RecentStep DEF RoomInv
    <2>2. CASE UNCHANGED cvars
      BY <2>2, RoomStays
    <2>3. QED
      BY <2>1, <2>2
  <1>2. QED
    BY <1>1, RoomInit, CacheInvariant, CacheIndexed, PTL DEF CSpec

(* A get that has to read for itself finds a slot: whatever was pinned, and *)
(* whatever is in flight, pick_victim never comes back empty-handed from   *)
(* admit (AlwaysAVictim).                                                  *)
THEOREM CacheHasAVictim == CSpec => []AlwaysAVictim
  <1>1. CInv /\ KeysIndexed /\ RoomInv => AlwaysAVictim
    BY VictimInv DEF RoomInv
  <1>2. QED
    BY <1>1, RoomInvariant, CacheInvariant, CacheIndexed, PTL

(* getmany reserves a slot for every expert of a list of at most topk that *)
(* is not resident and has usable tensors: it never runs out of slots, nor *)
(* of entries of the batch, on the way (TokenReserved).                    *)
THEOREM CacheReserves == CSpec => TokenReserved
  <1> DEFINE Holds == Reserved /\ mpc' # "reserve" /\ Len(ids) <= TopK =>
                        Requested \subseteq Gathered \cup missing
  <1>1. CInv /\ KeysIndexed /\ RoomInv /\ [CNext]_cvars => [Holds]_cvars
    BY ReservedAll DEF RoomInv
  <1>2. QED
    BY <1>1, RoomInvariant, CacheInvariant, CacheIndexed, PTL DEF CSpec, TokenReserved

(* No read of get evicts what a token of at most topk experts has gathered *)
(* (K3ExpertSrc: the pointers stay valid until the caller has finished the *)
(* token), with batches because every reservation either landed or left a  *)
(* free slot, without them because the token's slots were stamped last     *)
(* (TokenStays).                                                           *)
THEOREM CacheKeepsToken == CSpec => TokenStays
  <1> DEFINE Holds == OnTheList /\ Len(ids) <= TopK =>
       \A i \in DOMAIN ids :
         slot_of[ids[i]] >= 0 /\ (batching \/ i < at \/ (mpc \in {"fill", "use"} /\ i = at))
           => slot_of'[ids[i]] = slot_of[ids[i]]
  <1>1. CInv /\ KeysIndexed /\ RoomInv /\ [CNext]_cvars => [Holds]_cvars
    BY TokenKept
  <1>2. QED
    BY <1>1, RoomInvariant, CacheInvariant, CacheIndexed, PTL DEF CSpec, TokenStays
=============================================================================
