--------------------------- MODULE ExpertCacheInv ---------------------------
(***************************************************************************)
(* Why the expert cache serves the right bytes: the inductive invariant of *)
(* ExpertCache.                                                            *)
(*                                                                         *)
(* An entry of the batch is open until its read is published or buried.    *)
(* An open entry owns its slot: the slot is INFLIGHT, no expert points at  *)
(* it, no other open entry and no synchronous read shares it, and its      *)
(* expert is resident nowhere.  Slots an expert does point at are owned by *)
(* no reader, which is why they keep that expert's bytes.                  *)
(*                                                                         *)
(* RoomInv, below, is why the cache never runs out of slots and keeps what *)
(* a token has gathered.                                                   *)
(***************************************************************************)
EXTENDS ExpertCache

Asked == mpc \in {"get", "waiting", "miss", "sync", "fill", "use", "refused"}

(* slot_of, key_of and the bytes agree. *)
Registered ==
  \A k \in Keys : slot_of[k] >= 0 => /\ key_of[slot_of[k]] = k
                                     /\ content[slot_of[k]] = k

(* Open entries own their slots and their experts. *)
Owned ==
  /\ \A i \in Open : /\ key_of[work[i].slot] = INFLIGHT
                     /\ slot_of[work[i].key] < 0
                     /\ work[i].state = "got" => content[work[i].slot] = work[i].key
  /\ \A i, j \in Open : work[i].slot = work[j].slot => i = j
  /\ \A i, j \in Entries : work[i].key = work[j].key => i = j

(* The synchronous read of the calling thread owns its slot as well. *)
SyncOwns ==
  /\ mpc \in {"miss", "sync"} => slot_of[K] < 0 /\ \A i \in Open : work[i].key # K
  /\ mpc = "sync" => /\ held \in Slots
                     /\ \A k \in Keys : slot_of[k] # held
                     /\ \A i \in Open : work[i].slot # held
                     /\ pipeline => key_of[held] = INFLIGHT

Readers(s) == {i \in Reading : work[i].slot = s}

(* Who is writing where, and that no two ever met. *)
Writers ==
  \A s \in Slots :
    /\ content[s] # Torn
    /\ writing[s] = Readers(s) \cup (IF mpc = "sync" /\ held = s THEN {0} ELSE {})

(* How far the batch has come in each phase of getmany. *)
Progress ==
  /\ ~pipeline => idle = 0 /\ (mpc \notin {"reserve", "batch"} => work = <<>>)
  /\ mpc \in {"reserve", "alone", "batch"} => idle = 0
  /\ mpc = "reserve" => cursor = 1
  /\ mpc = "alone" => pipeline /\ Reading = {}
  /\ mpc = "batch" => ~pipeline /\ cursor = 1
  /\ mpc # "batch" => \A i \in Entries :
       /\ work[i].state \notin {"got", "short"}
       /\ i < cursor => work[i].state # "pending"
       /\ i >= cursor => work[i].state = "pending"
  /\ mpc = "batch" => \A i \in Entries : work[i].state # "pending"
  /\ mpc \notin {"reserve", "alone", "batch"} /\ cursor <= Len(work) =>
       idle > 0 \/ Reading # {}

(* The caller's place in its list, and the slot it was handed. *)
Handed ==
  /\ Asked => at \in DOMAIN ids
  /\ mpc \in {"drain", "reserve", "alone", "batch"} => ids # <<>>
  /\ mpc \in {"fill", "use"} => held \in Slots /\ slot_of[K] = held

(* Conversely, an expert named by a slot is found there, but for the slot  *)
(* of a synchronous read, which keeps the name of the expert it evicted.   *)
KeysIndexed ==
  \A s \in Slots : key_of[s] \in Keys =>
    slot_of[key_of[s]] = s \/ (mpc = "sync" /\ held = s)

(* Room: what is pinned, by hand or by the profile, leaves topk + 1 slots, *)
(* and a pinned slot keeps its expert, so no read ever goes into it.       *)
PinsFit ==
  /\ Cardinality(hot) + Cardinality(ManualPins) <= Pinnable
  /\ \A s \in pinned : key_of[s] \in Keys
  /\ mpc = "sync" => held \notin pinned

(* The list is worked through in the order it was reserved in: what has    *)
(* been answered is in flight no more, and nothing is when the list ends.  *)
Behind ==
  /\ mpc \in {"rest", "drain", "freeing", "closed"} => Open = {}
  /\ Asked => \A i \in Open, p \in DOMAIN ids :
       ids[p] = work[i].key => at < p \/ (at = p /\ mpc \in {"get", "waiting"})

(* getmany settles the list from its beginning, and stops somewhere.       *)
Reserving ==
  /\ mpc = "drain" => at = 1
  /\ mpc = "reserve" =>
       /\ \A p \in 1 .. at - 1 : Settled(ids[p])
       /\ \A i \in Entries : \E p \in 1 .. at - 1 : ids[p] = work[i].key
  /\ mpc = "sync" => K \notin missing

(* A synchronous read of the pipelined path has marked its slot.           *)
Claimed == mpc = "sync" /\ pipeline

First(n) == {ids[p] : p \in 1 .. n}
OpenKeys == {work[i].key : i \in Open}

(* Requests up to the n-th that were reserved in vain: their reads failed. *)
Lost(n) == {k \in First(n) : slot_of[k] < 0 /\ k \notin OpenKeys \cup missing}

(* Each of them left a free slot behind, so asking for it again evicts     *)
(* nobody; a list of at most topk experts was reserved to its end.         *)
RoomAt(n) ==
  /\ OpenKeys \subseteq First(n)
  /\ Cardinality(Lost(n)) <= Cardinality(Free) + (IF Claimed THEN 1 ELSE 0)
  /\ batching /\ Len(ids) <= TopK => n = Len(ids)
Room == Asked \/ mpc \in {"alone", "batch"} => \E n \in 0 .. Len(ids) : RoomAt(n)

(* Without batches (K3_NOPREFETCH) the order of the stamps protects what a *)
(* token has gathered.  Ranks are not shared, but for the unstamped.       *)
Ranks == \A s, t \in Slots : used_at[s] = used_at[t] /\ used_at[s] > 0 => s = t
Unbatched == ~batching => /\ work = <<>>
                          /\ mpc \notin {"drain", "reserve", "alone", "batch"}
                          /\ mpc = "refused" => slot_of[K] < 0

Kept == ({slot_of[ids[p]] : p \in 1 .. at - 1} \ {-1})
        \cup (IF Claimed \/ (mpc \in {"fill", "use"} /\ at < Len(ids)) THEN {held} ELSE {})
Tries == IF Claimed \/ mpc \in {"fill", "use", "refused"} THEN at ELSE at - 1

(* The slots stamped since the list began are on top.                      *)
Recent ==
  ~batching /\ Asked =>
    \E H \in SUBSET Slots :
      /\ Kept \subseteq H /\ Cardinality(H) <= Tries
      /\ \A s \in Slots : s \in H <=> used_at[s] > NSlots - Cardinality(H)

RoomInv == PinsFit /\ Behind /\ Reserving /\ Room /\ Ranks /\ Unbatched /\ Recent

CInv ==
  /\ CTypeOK
  /\ Registered
  /\ Owned
  /\ SyncOwns
  /\ Writers
  /\ Progress
  /\ Handed
  /\ NoSlotLost
=============================================================================
