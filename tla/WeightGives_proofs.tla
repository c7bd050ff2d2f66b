------------------------- MODULE WeightGives_proofs -------------------------
(***************************************************************************)
(* Machine-checked: what the callers of the store are given.  GiveInv says *)
(* for each kind of call how far it has come and what it has handed over   *)
(* by then - a blob laid out and loaded tensor by tensor, a packed run     *)
(* pointed into and widened behind, rows chunk by chunk, an expert in one  *)
(* read or in six - and from it follows StructHolds for every checkpoint   *)
(* and configuration, under PackerTrue: what a manifest and a header say   *)
(* that their readers cannot check.  HonestInv says that without a fault   *)
(* what a call has yet to read of a whole directory is there and comes     *)
(* whole, and from it follows HonestBinds wherever Fitting holds: no call  *)
(* of a whole checkpoint is refused.                                       *)
(***************************************************************************)
EXTENDS WeightBinding_proofs

-----------------------------------------------------------------------------
(***************************************************************************)
(* What the callers are given.                                             *)
(***************************************************************************)

(* A read stays what its job asked for.                                    *)
LEMMA StartAsks ==
  ASSUME NEW via, NEW k, NEW off, NEW n, NEW cap, NEW addr
  PROVE  LET r == StartRead(via, k, off, n, cap, addr) IN r.off = off /\ r.n = n
  BY DEF StartRead, Refused

LEMMA RoundAsks ==
  ASSUME IsRead(rd), Round
  PROVE  rd'.off = rd.off /\ rd'.n = rd.n
  <1>1. "off" \in DOMAIN rd /\ "n" \in DOMAIN rd
    BY DEF IsRead, ReadFields
  <1>2. CASE FullRound
    BY <1>1, <1>2 DEF FullRound, Copied
  <1>3. CASE ShortRound
    BY <1>1, <1>3 DEF ShortRound, Copied
  <1>4. CASE FailedRound \/ AtEnd
    BY <1>1, <1>4 DEF FailedRound, AtEnd
  <1>5. QED
    BY <1>2, <1>3, <1>4 DEF Round

LEMMA KindIs ==
  ASSUME OneOfCalls
  PROVE  Binds \/ Packs \/ Streams \/ op.kind \in {"expert", "range"}
  <1>1. PICK c \in Calls : op = c.op /\ OpType(c)
    BY InputTyped
  <1>2. QED
    BY <1>1 DEF OpType, Binds, Packs, Streams

LEMMA PathStep ==
  ASSUME StoreHolds, JobsHold, CountersHold, PathHolds, OtherSteps
  PROVE  PathHolds'
  <1>1. dir' = dir /\ op' = op /\ store' = store /\ AtWork' /\ (AtWork \/ (Opened /\ Begin))
    BY OthersKeep
  <1>2. /\ Requests' = Requests /\ (Binds' <=> Binds) /\ (Packs' <=> Packs) /\ (Streams' <=> Streams)
    BY <1>1 DEF Requests, RequestsOf, Binds, Packs, Streams
  <1>3. reqs' = Requests
    <2>1. Begin \/ Relayout \/ reqs' = reqs
      BY DEF OtherSteps, Resolve, Unresolved, Allocate, OutOfMemory, LoadNext, StartJob, JobRound,
             Loaded, LoadFailed, BindDone, Manifest, MemRefused, MemPoint, MemWiden, MemDone,
             Acquire, AcquireDone, Prepare, PrepareRefused, StreamedRows, StreamFailed, ExpertPart,
             RangeRead, planVars
    <2>2. Begin \/ Relayout => reqs' = Requests
      BY DEF Begin, Relayout, ClearPlan
    <2>3. QED
      BY <1>1, <2>1, <2>2 DEF PathHolds
  <1>4. PathOf'
    <2>1. CASE Begin
      <3>1. OneOfCalls
        BY DEF StoreHolds
      <3>2. pc' = CASE Binds -> "resolve" [] Packs -> "manifest" [] OTHER -> "prepare"
        BY <2>1 DEF Begin, Binds, Packs
      <3>3. Binds \/ Packs \/ Streams \/ op.kind \in {"expert", "range"}
        BY <3>1, KindIs
      <3>4. ~(Binds /\ Packs)
        BY DEF Binds, Packs
      <3>5. CASE Binds
        BY <1>2, <3>2, <3>5 DEF PathOf
      <3>6. CASE Packs
        BY <1>2, <3>2, <3>4, <3>6 DEF PathOf
      <3>7. CASE ~Binds /\ ~Packs
        BY <1>1, <1>2, <3>2, <3>3, <3>7 DEF PathOf
      <3>8. QED
        BY <3>5, <3>6, <3>7
    <2>2. CASE Resolve \/ Relayout \/ Unresolved \/ Allocate \/ OutOfMemory
      BY <1>1, <1>2, <2>2 DEF Resolve, Relayout, Unresolved, Allocate, OutOfMemory, Fail, Return,
                              PathHolds, PathOf
    <2>3. CASE LoadNext \/ StartJob \/ Loaded \/ LoadFailed \/ BindDone
      BY <1>1, <1>2, <2>3 DEF LoadNext, StartJob, Loaded, LoadFailed, BindDone, Fail, Return,
                              PathHolds, PathOf
    <2>4. CASE JobRound
      BY <1>1, <1>2, <2>4 DEF JobRound, PathHolds, PathOf
    <2>5. CASE Manifest \/ MemRefused \/ MemPoint \/ MemWiden \/ MemDone \/ Acquire \/ AcquireDone
      BY <1>1, <1>2, <2>5 DEF Manifest, MemRefused, MemPoint, MemWiden, MemDone, Acquire, AcquireDone,
                              Fail, Return, PathHolds, PathOf, Packs
    <2>6. CASE Prepare \/ PrepareRefused
      BY <1>1, <1>2, <2>6 DEF Prepare, PrepareRefused, Fail, Return, PathHolds, PathOf, Streams
    <2>7. CASE StreamedRows \/ StreamFailed \/ ExpertPart \/ RangeRead
      BY <1>1, <1>2, <2>7 DEF StreamedRows, StreamFailed, ExpertPart, RangeRead, Fail, Return,
                              PathHolds, PathOf
    <2>8. QED
      BY <2>1, <2>2, <2>3, <2>4, <2>5, <2>6, <2>7 DEF OtherSteps
  <1>5. (pc \in {"open", "scan", "index", "resolve", "manifest", "prepare"} =>
           held = <<>> /\ ~i8 /\ total = 0)'
    <2>1. pc' \in {"open", "scan", "index", "resolve", "manifest", "prepare"} =>
            /\ pc \in {"open", "scan", "index", "resolve", "manifest", "prepare"}
            /\ held' = held /\ i8' = i8 /\ total' = total
      <3>1. CASE Begin
        BY <3>1 DEF Begin, Opened, outVars
      <3>2. CASE Resolve \/ Relayout
        BY <3>2 DEF Resolve, Relayout, outVars
      <3>3. CASE Unresolved \/ Allocate \/ OutOfMemory \/ LoadNext
        BY <3>3 DEF Unresolved, Allocate, OutOfMemory, LoadNext, Fail, Return
      <3>4. CASE StartJob \/ JobRound
        BY <3>4 DEF StartJob, JobRound, outVars
      <3>5. CASE Loaded \/ LoadFailed \/ BindDone \/ Manifest \/ MemRefused \/ MemPoint \/ MemWiden \/ MemDone
        BY <3>5 DEF Loaded, LoadFailed, BindDone, Manifest, MemRefused, MemPoint, MemWiden, MemDone,
                    Fail, Return, outVars, JobsHold, Done, Idle
      <3>6. CASE Acquire \/ AcquireDone \/ Prepare \/ PrepareRefused \/ StreamedRows \/ StreamFailed
                 \/ ExpertPart \/ RangeRead
        BY <3>6 DEF Acquire, AcquireDone, Prepare, PrepareRefused, StreamedRows, StreamFailed, ExpertPart,
                    RangeRead, Fail, Return, outVars, JobsHold, Done, Idle
      <3>7. QED
        BY <3>1, <3>2, <3>3, <3>4, <3>5, <3>6 DEF OtherSteps
    <2>2. QED
      BY <2>1 DEF PathHolds
  <1>6. (rd # Idle => rd.off = Head(jobs).off /\ rd.n = Head(jobs).n)'
    <2>1. CASE StartJob
      <3>1. PICK j : j = Head(jobs)
        OBVIOUS
      <3>2. rd' = StartRead(j.via, j.shard, j.off, j.n, j.cap, j.addr) /\ jobs' = jobs
        BY <2>1, <3>1 DEF StartJob
      <3>3. rd'.off = j.off /\ rd'.n = j.n
        BY <3>2, StartAsks
      <3>4. QED
        BY <3>1, <3>2, <3>3
    <2>2. CASE JobRound
      <3>1. Round /\ jobs' = jobs /\ rd # Idle
        BY <2>2 DEF JobRound, Round, FullRound, ShortRound, FailedRound, AtEnd, Reading, Idle
      <3>2. IsRead(rd)
        BY <3>1 DEF JobsHold, Served
      <3>3. QED
        BY <3>1, <3>2, RoundAsks DEF PathHolds
    <2>3. CASE ~StartJob /\ ~JobRound
      <3>1. rd' = Idle \/ (rd' = rd /\ (jobs' = jobs \/ jobs = <<>>))
        BY <2>3 DEF OtherSteps, Begin, Opened, Resolve, Relayout, Unresolved, Allocate, OutOfMemory,
             LoadNext, Loaded, LoadFailed, BindDone, Manifest, MemRefused, MemPoint, MemWiden,
             MemDone, Acquire, AcquireDone, Prepare, PrepareRefused, StreamedRows, StreamFailed,
             ExpertPart, RangeRead, JobsHold
      <3>2. jobs = <<>> => rd = Idle
        BY DEF JobsHold
      <3>3. QED
        BY <3>1, <3>2 DEF PathHolds
    <2>4. QED
      BY <2>1, <2>2, <2>3
  <1>7. (pc = "manifest" => next = 1)'
    <2>1. pc' = "manifest" => Begin
      <3>1. pc = "manifest" => Begin \/ Manifest
        <4>1. JobRound => rd # Idle
          BY DEF JobRound, Round, FullRound, ShortRound, FailedRound, AtEnd, Reading, Idle
        <4>2. StartJob \/ JobRound => pc # "manifest"
          BY <4>1 DEF StartJob, JobsHold
        <4>3. QED
          BY <4>2 DEF OtherSteps, Resolve, Relayout, Unresolved, Allocate, OutOfMemory, LoadNext,
                      Loaded, LoadFailed, BindDone, MemRefused, MemPoint, MemWiden, MemDone, Acquire,
                      AcquireDone, Prepare, PrepareRefused, StreamedRows, StreamFailed, ExpertPart, RangeRead
      <3>2. Manifest => pc' # "manifest"
        BY DEF Manifest, Fail, Return
      <3>3. pc' = "manifest" => Begin \/ pc = "manifest"
        <4>1. CASE Resolve \/ Relayout \/ Unresolved \/ Allocate \/ OutOfMemory
          BY <4>1 DEF Resolve, Relayout, Unresolved, Allocate, OutOfMemory, Fail, Return
        <4>2. CASE LoadNext \/ StartJob \/ JobRound \/ Loaded \/ LoadFailed \/ BindDone
          BY <4>2 DEF LoadNext, StartJob, JobRound, Loaded, LoadFailed, BindDone, Fail, Return
        <4>3. CASE Manifest \/ MemRefused \/ MemPoint \/ MemWiden \/ MemDone \/ Acquire \/ AcquireDone
          BY <4>3 DEF Manifest, MemRefused, MemPoint, MemWiden, MemDone, Acquire, AcquireDone, Fail, Return
        <4>4. CASE Prepare \/ PrepareRefused
          BY <4>4 DEF Prepare, PrepareRefused, Fail, Return
        <4>5. CASE StreamedRows \/ StreamFailed \/ ExpertPart \/ RangeRead
          BY <4>5 DEF StreamedRows, StreamFailed, ExpertPart, RangeRead, Fail, Return
        <4>6. QED
          BY <4>1, <4>2, <4>3, <4>4, <4>5 DEF OtherSteps
      <3>4. QED
        BY <3>1, <3>2, <3>3
    <2>2. QED
      BY <2>1 DEF Begin
  <1>8. QED
    BY <1>2, <1>3, <1>4, <1>5, <1>6, <1>7 DEF PathHolds

(* Only the steps of its own path change what a call gives.                *)
LEMMA ByKind ==
  ASSUME PathOf, JobsHold, OtherSteps
  PROVE  /\ Binds =>
              \/ Begin \/ Resolve \/ Relayout \/ Unresolved \/ Allocate \/ OutOfMemory
              \/ LoadNext \/ StartJob \/ JobRound \/ Loaded \/ LoadFailed \/ BindDone
         /\ Packs =>
              \/ Begin \/ Manifest \/ MemRefused \/ MemPoint \/ MemWiden \/ MemDone
              \/ Acquire \/ AcquireDone
         /\ Streams =>
              \/ Begin \/ Prepare \/ PrepareRefused \/ StartJob \/ JobRound
              \/ StreamedRows \/ StreamFailed
         /\ op.kind = "expert" =>
              Begin \/ Prepare \/ PrepareRefused \/ StartJob \/ JobRound \/ ExpertPart
  <1>1. rd # Idle => pc \in {"load", "stream", "expert", "range"}
    BY DEF JobsHold
  <1>2. Resolve \/ Relayout \/ Unresolved \/ Allocate \/ OutOfMemory \/ LoadNext \/ Loaded
        \/ LoadFailed \/ BindDone => Binds
    BY DEF PathOf, Resolve, Relayout, Unresolved, Allocate, OutOfMemory, LoadNext, Loaded,
           LoadFailed, BindDone
  <1>3. Manifest \/ MemRefused \/ MemPoint \/ MemWiden \/ MemDone \/ Acquire \/ AcquireDone => Packs
    BY DEF PathOf, Packs, Manifest, MemRefused, MemPoint, MemWiden, MemDone, Acquire, AcquireDone
  <1>4. Prepare \/ PrepareRefused => Streams \/ op.kind \in {"expert", "range"}
    BY DEF PathOf, Prepare, PrepareRefused
  <1>5. StreamedRows \/ StreamFailed => Streams
    BY DEF PathOf, StreamedRows, StreamFailed
  <1>6. (ExpertPart => op.kind = "expert") /\ (RangeRead => op.kind = "range")
    BY DEF PathOf, ExpertPart, RangeRead
  <1>7. StartJob \/ JobRound => pc \in {"load", "stream", "expert", "range"}
    BY <1>1 DEF StartJob, JobRound, Round, FullRound, ShortRound, FailedRound, AtEnd, Reading, Idle
  <1>8. StartJob \/ JobRound => ~Packs
    BY <1>7 DEF PathOf, Binds, Packs, Streams
  <1>9. QED
    BY <1>2, <1>3, <1>4, <1>5, <1>6, <1>8 DEF OtherSteps, Binds, Packs, Streams

LEMMA Appends ==
  ASSUME NEW s, IsSeq(s), NEW e
  PROVE  /\ IsSeq(Append(s, e)) /\ Len(Append(s, e)) = Len(s) + 1
         /\ \A k \in 1 .. Len(s) : Append(s, e)[k] = s[k]
         /\ Append(s, e)[Len(s) + 1] = e
  <1>1. PICK n \in Nat : n = Len(s) /\ s = [k \in 1 .. n |-> s[k]]
    BY DEF IsSeq
  <1> DEFINE S == {s[k] : k \in 1 .. n} \cup {e}
  <1>2. s \in [1 .. n -> S] /\ e \in S
    BY <1>1
  <1> HIDE DEF S
  <1>3. s \in Seq(S) /\ Len(s) = n
    BY <1>2, LenOf
  <1>4. PICK l : l = Append(s, e)
    OBVIOUS
  <1>5. l \in Seq(S) /\ Len(l) = n + 1 /\ (\A k \in 1 .. n : l[k] = s[k]) /\ l[n + 1] = e
    BY <1>2, <1>3, <1>4
  <1>6. QED
    BY <1>1, <1>4, <1>5 DEF IsSeq

LEMMA Aligns ==
  ASSUME NEW x \in Nat
  PROVE  Align8(x) \in Nat /\ x <= Align8(x) /\ Align8(x) % 8 = 0
  BY DEF Align8

LEMMA Sized ==
  ASSUME NEW x \in Nat, NEW b
  PROVE  x * (IF b THEN 2 ELSE 4) \in Nat
  <1>1. x * 2 \in Nat /\ x * 4 \in Nat
    OBVIOUS
  <1>2. QED
    BY <1>1

LEMMA SameLayout ==
  ASSUME \A name : Find(name)' = Find(name), reqs' = reqs, placed' = placed, demoted' = demoted,
         narrow_ok' = narrow_ok, size' = size
  PROVE  \A n : LaidOut(n) => LaidOut(n)'
  BY DEF LaidOut, NarrowOf, IsSeq

LEMMA ResolveLays ==
  ASSUME BindInv, BindInv', LayoutHolds, Resolve, bad' = 0, \A name : Find(name)' = Find(name)
  PROVE  LaidOut(next - 1)'
  <1> USE DEF BindInv
  <1>1. /\ next \in Nat \ {0} /\ next <= Len(reqs) /\ Len(reqs) \in Nat
        /\ bad \in Nat /\ size \in Nat /\ demoted \in Nat /\ narrow_ok \in BOOLEAN
        /\ pc = "resolve" /\ RequestOk(reqs[next]) /\ reqs' = reqs /\ narrow_ok' = narrow_ok
        /\ next' = next + 1
    BY DEF Resolve, PlanHolds, IsPlan, IsSeq, LayoutHolds
  <1>2. PICK t, at : t = Find(Req.name) /\ at = Align8(size)
    OBVIOUS
  <1>3. bad = 0 /\ ~Wrong(Req, t)
    BY <1>1, <1>2 DEF Resolve
  <1>4. /\ placed' = Append(placed, [at |-> at, narrow |-> NarrowOf(Req, t)])
        /\ size' = at + Req.take * (IF NarrowOf(Req, t) THEN 2 ELSE 4)
        /\ demoted' = demoted + (IF Demotes(Req, t) THEN 1 ELSE 0)
    BY <1>2, <1>3 DEF Resolve
  <1>5. PICK n \in Nat : n = next - 1
    BY <1>1
  <1>6. LaidOut(n)
    BY <1>1, <1>3, <1>5 DEF LayoutHolds
  <1>7. PICK p : p = placed'
    OBVIOUS
  <1>8. /\ IsSeq(p) /\ Len(p) = n + 1
        /\ \A k \in 1 .. n : p[k] = placed[k]
        /\ p[n + 1] = [at |-> at, narrow |-> NarrowOf(Req, t)]
    BY <1>4, <1>6, <1>7, Appends DEF LaidOut
  <1>9. /\ at \in Nat /\ size <= at /\ at % 8 = 0
    BY <1>1, <1>2, Aligns
  <1>10. /\ Req = reqs[n + 1] /\ Req.take \in Nat /\ Req.want \in Nat /\ Req.narrow \in BOOLEAN
    BY <1>1, <1>5 DEF Req, RequestOk
  <1>11. size' \in Nat /\ at <= size'
    <2>1. Req.take * (IF NarrowOf(Req, t) THEN 2 ELSE 4) \in Nat
      BY <1>10, Sized
    <2>2. QED
      BY <1>4, <1>9, <2>1
  <1>12. demoted' = 0 => demoted = 0 /\ ~Demotes(Req, t)
    BY <1>1, <1>4
  <1> DEFINE Size3(k) == reqs[k].take * (IF p[k].narrow THEN 2 ELSE 4)
             Ok(k) == LET r == reqs[k]
                          u == Find(r.name) IN
                      /\ u # Missing /\ Numel(u.shape) = r.want /\ r.take <= r.want
                      /\ p[k].narrow = NarrowOf(r, u)
                      /\ demoted' = 0 /\ r.narrow /\ narrow_ok => u.dtype = "BF16"
                      /\ p[k].at \in Nat /\ p[k].at % 8 = 0
                      /\ p[k].at + Size3(k) <= size'
  <1>13. \A k \in 1 .. n : Ok(k) /\ p[k].at + Size3(k) <= at
    <2> SUFFICES ASSUME NEW k \in 1 .. n
                 PROVE  Ok(k) /\ p[k].at + Size3(k) <= at
      OBVIOUS
    <2>1. placed[k].at + reqs[k].take * (IF placed[k].narrow THEN 2 ELSE 4) <= size
          /\ placed[k].at \in Nat
      BY <1>6 DEF LaidOut
    <2>2. reqs[k].take \in Nat
      BY <1>1, <1>5 DEF PlanHolds, IsPlan, RequestOk
    <2>3. p[k].at + Size3(k) <= at
      <3>1. /\ Size3(k) = reqs[k].take * (IF placed[k].narrow THEN 2 ELSE 4) /\ Size3(k) \in Nat
            /\ p[k].at = placed[k].at
        BY <1>8, <2>2, Sized
      <3> HIDE DEF Size3
      <3>2. QED
        BY <1>1, <1>9, <2>1, <3>1
    <2>4. p[k].at + Size3(k) <= size'
      <3>1. Size3(k) \in Nat /\ p[k].at \in Nat
        BY <1>8, <2>1, <2>2, Sized
      <3> HIDE DEF Size3
      <3>2. QED
        BY <1>9, <1>11, <2>3, <3>1
    <2> HIDE DEF Size3
    <2>5. Ok(k)
      BY <1>6, <1>8, <1>12, <2>4 DEF LaidOut
    <2>6. QED
      BY <2>3, <2>5
  <1>14. Ok(n + 1)
    <2>1. t # Missing /\ Numel(t.shape) = Req.want /\ Req.take <= Req.want
      BY <1>3, <1>10 DEF Wrong
    <2>2. demoted' = 0 /\ Req.narrow /\ narrow_ok => t.dtype = "BF16"
      BY <1>12, <2>1 DEF Demotes
    <2>3. p[n + 1].at + Size3(n + 1) <= size'
      BY <1>4, <1>8, <1>9, <1>10, <1>11, Sized
    <2> HIDE DEF Size3
    <2>4. QED
      BY <1>2, <1>8, <1>9, <1>10, <2>1, <2>2, <2>3
  <1>15. \A j, k \in 1 .. n + 1 : j < k => p[j].at + Size3(j) <= p[k].at
    <2> SUFFICES ASSUME NEW j \in 1 .. n + 1, NEW k \in 1 .. n + 1, j < k
                 PROVE  p[j].at + Size3(j) <= p[k].at
      OBVIOUS
    <2>1. CASE k \in 1 .. n
      BY <1>6, <1>8, <2>1 DEF LaidOut
    <2>2. CASE k = n + 1
      <3>1. j \in 1 .. n /\ p[k].at = at
        BY <1>8, <2>2
      <3> HIDE DEF Size3
      <3>2. QED
        BY <1>13, <3>1
    <2>3. QED
      BY <2>1, <2>2
  <1>16. \A k \in 1 .. n + 1 : Ok(k)
    <2> HIDE DEF Ok
    <2>1. QED
      BY <1>13, <1>14
  <1>17. (\A r, u : NarrowOf(r, u)' = NarrowOf(r, u)) /\ n + 1 = next
    BY <1>1, <1>5 DEF NarrowOf
  <1>18. LaidOut(n + 1)'
    <2>1. IsSeq(placed)' /\ Len(placed)' = n + 1
      BY <1>7, <1>8 DEF IsSeq
    <2>2. reqs' = reqs /\ narrow_ok' = narrow_ok /\ placed' = p
      BY <1>1, <1>7
    <2>3. (\A k \in 1 .. n + 1 :
             LET r == reqs[k]
                 u == Find(r.name) IN
             /\ u # Missing /\ Numel(u.shape) = r.want /\ r.take <= r.want
             /\ placed[k].narrow = NarrowOf(r, u)
             /\ demoted = 0 /\ r.narrow /\ narrow_ok => u.dtype = "BF16"
             /\ placed[k].at \in Nat /\ placed[k].at % 8 = 0
             /\ placed[k].at + reqs[k].take * (IF placed[k].narrow THEN 2 ELSE 4) <= size)'
      <3> SUFFICES ASSUME NEW k \in 1 .. n + 1
                   PROVE  (LET r == reqs[k]
                               u == Find(r.name) IN
                           /\ u # Missing /\ Numel(u.shape) = r.want /\ r.take <= r.want
                           /\ placed[k].narrow = NarrowOf(r, u)
                           /\ demoted = 0 /\ r.narrow /\ narrow_ok => u.dtype = "BF16"
                           /\ placed[k].at \in Nat /\ placed[k].at % 8 = 0
                           /\ placed[k].at + reqs[k].take * (IF placed[k].narrow THEN 2 ELSE 4) <= size)'
        OBVIOUS
      <3>1. Ok(k)
        BY <1>16
      <3>2. QED
        BY <2>2, <3>1, <1>17
    <2>4. (\A j, k \in 1 .. n + 1 : j < k =>
             placed[j].at + reqs[j].take * (IF placed[j].narrow THEN 2 ELSE 4) <= placed[k].at)'
      BY <1>15, <2>2
    <2>5. QED
      BY <2>1, <2>3, <2>4 DEF LaidOut
  <1>19. n + 1 = next' - 1
    BY <1>1, <1>5
  <1>20. QED
    BY <1>18, <1>19

LEMMA NothingLaid ==
  ASSUME placed' = <<>>
  PROVE  LaidOut(0)'
  BY DEF LaidOut, IsSeq

LEMMA LayoutStep ==
  ASSUME BindInv, BindInv', PathHolds, LayoutHolds, OtherSteps, \A name : Find(name)' = Find(name)
  PROVE  LayoutHolds'
  <1>1. op' = op /\ (Binds' <=> Binds) /\ PathOf /\ JobsHold
    BY OthersKeep DEF BindInv, Binds, PathHolds
  <1>2. /\ demoted \in Nat /\ narrow_ok \in BOOLEAN /\ (rc # Pending <=> pc = "done")
        /\ (rc' # Pending <=> pc' = "done") /\ PathOf'
        /\ Len(reqs) \in Nat
        /\ pc = "resolve" => next \in 1 .. Len(reqs) + 1
    <2>1. PathHolds'
      BY PathStep DEF BindInv
    <2>2. Len(reqs) \in Nat
      BY DEF BindInv, PlanHolds, IsPlan, IsSeq
    <2>3. QED
      BY <2>1, <2>2 DEF BindInv, PlanHolds, CountersHold, LayoutHolds, PathHolds
  <1>3. demoted' \in Nat /\ narrow_ok' \in BOOLEAN
    <2>1. CASE Resolve
      BY <1>2, <2>1 DEF Resolve
    <2>2. Resolve \/ ((demoted' = demoted \/ demoted' = 0) /\ (narrow_ok' = narrow_ok \/ narrow_ok' \in BOOLEAN))
      BY DEF OtherSteps, Begin, Resolve, Relayout, ClearPlan, Unresolved, Allocate, OutOfMemory, LoadNext,
             StartJob, JobRound, Loaded, LoadFailed, BindDone, Manifest, MemRefused, MemPoint, MemWiden,
             MemDone, Acquire, AcquireDone, Prepare, PrepareRefused, StreamedRows, StreamFailed,
             ExpertPart, RangeRead, planVars
    <2>3. QED
      BY <1>2, <2>1, <2>2
  <1>4. CASE ~Binds
    BY <1>1, <1>2, <1>3, <1>4 DEF LayoutHolds, PathOf
  <1>5. CASE Begin \/ Relayout
    <2>1. placed' = <<>> /\ next' = 1 /\ rc' = rc /\ pc # "done" /\ pc' # "load" /\ 0 = next' - 1
      BY <1>5 DEF Begin, Relayout, ClearPlan, outVars, Opened
    <2>2. LaidOut(0)'
      BY <2>1, NothingLaid
    <2>3. LaidOut(next - 1)'
      BY <2>1, <2>2
    <2>4. QED
      BY <1>2, <1>3, <2>1, <2>3 DEF LayoutHolds, Pending
  <1>6. CASE Resolve
    <2>1. rc' = Pending /\ pc' = "resolve"
      BY <1>2, <1>6 DEF Resolve, outVars
    <2>2. bad' = 0 => LaidOut(next - 1)'
      BY <1>6, ResolveLays
    <2>3. QED
      BY <1>3, <2>1, <2>2 DEF LayoutHolds, Pending
  <1>7. CASE Unresolved \/ OutOfMemory \/ LoadFailed
    BY <1>3, <1>7 DEF LayoutHolds, Unresolved, OutOfMemory, LoadFailed, Fail, Return
  <1>8. CASE Allocate
    <2>1. /\ pc' = "load" /\ blob' = size /\ rc' = Pending /\ UNCHANGED planVars
          /\ demoted = 0 /\ pc = "resolve" /\ bad = 0 /\ next - 1 = Len(reqs)
      BY <1>2, <1>8 DEF Allocate
    <2>2. PICK n : n = Len(reqs)
      OBVIOUS
    <2>3. LaidOut(n)
      BY <2>1, <2>2 DEF LayoutHolds
    <2>4. LaidOut(n)'
      BY <2>1, <2>3, SameLayout DEF planVars
    <2>5. Len(reqs)' = n
      BY <2>1, <2>2 DEF planVars
    <2>6. QED
      BY <1>3, <2>1, <2>4, <2>5 DEF LayoutHolds, planVars
  <1>9. CASE LoadNext \/ StartJob \/ JobRound \/ Loaded \/ BindDone
    <2>1. Binds => pc = "load" /\ blob' = blob /\ UNCHANGED planVars /\ (pc' = "load" \/ rc' = 0)
      <3>1. StartJob \/ JobRound => pc \in {"load", "stream", "expert", "range"} /\ pc' = pc
        BY <1>1, <1>9 DEF StartJob, JobRound, JobsHold, Round, FullRound, ShortRound, FailedRound, AtEnd,
                          Reading, Idle
      <3>2. Binds /\ pc \in {"load", "stream", "expert", "range"} => pc = "load"
        BY <1>1 DEF PathOf, Binds, Streams
      <3>3. QED
        BY <1>9, <3>1, <3>2 DEF LoadNext, StartJob, JobRound, Loaded, BindDone, Return, outVars
    <2>2. CASE Binds
      <3>1. PICK n : n = Len(reqs)
        OBVIOUS
      <3>2. LaidOut(n) /\ demoted = 0 /\ blob = size
        BY <2>1, <2>2, <3>1 DEF LayoutHolds
      <3>3. LaidOut(n)'
        BY <2>1, <2>2, <3>2, SameLayout DEF planVars
      <3>4. Len(reqs)' = n
        BY <2>1, <2>2, <3>1 DEF planVars
      <3>5. pc' # "resolve"
        BY <1>2, <2>1, <2>2 DEF Pending
      <3>6. QED
        BY <1>3, <2>1, <2>2, <3>2, <3>3, <3>4, <3>5 DEF LayoutHolds, planVars
    <2>3. QED
      BY <1>4, <2>2
  <1>10. QED
    BY <1>1, <1>4, <1>5, <1>6, <1>7, <1>8, <1>9, ByKind

(* Every destination is asked for once, and only A_log is cut short.       *)
Once(p) == \A j, k \in 1 .. Len(p) : p[j].dest = p[k].dest => j = k
Dests(p) == {p[k].dest : k \in 1 .. Len(p)}
Kept(r) == r.take = r.want \/ (~r.narrow /\ r.name = "A_log")
Uncut(p) == \A k \in 1 .. Len(p) : Kept(p[k])

LEMMA OnceJoins ==
  ASSUME NEW s, NEW z, IsSeq(s), IsSeq(z), Once(s), Once(z), Uncut(s), Uncut(z),
         NEW D, NEW E, Dests(s) \subseteq D, Dests(z) \subseteq E, D \cap E = {}
  PROVE  IsSeq(s \o z) /\ Once(s \o z) /\ Uncut(s \o z) /\ Dests(s \o z) \subseteq D \cup E
  <1>1. PICK m, n \in Nat : /\ m = Len(s) /\ s = [k \in 1 .. m |-> s[k]]
                            /\ n = Len(z) /\ z = [k \in 1 .. n |-> z[k]]
    BY DEF IsSeq
  <1> DEFINE S == {s[k] : k \in 1 .. m} \cup {z[k] : k \in 1 .. n}
  <1>2. s \in [1 .. m -> S] /\ z \in [1 .. n -> S]
    BY <1>1
  <1> HIDE DEF S
  <1>3. s \in Seq(S) /\ z \in Seq(S)
    BY <1>2, LenOf
  <1>4. PICK l : l = s \o z
    OBVIOUS
  <1>5. l \in Seq(S) /\ Len(l) = m + n
    BY <1>1, <1>3, <1>4
  <1>6. /\ \A k \in 1 .. m : l[k] = s[k]
        /\ \A k \in 1 .. m + n : k > m => k - m \in 1 .. n /\ l[k] = z[k - m]
    BY <1>1, <1>3, <1>4
  <1>7. IsSeq(l)
    BY <1>5 DEF IsSeq
  <1>8. /\ \A k \in 1 .. m : s[k].dest \in D /\ Kept(s[k])
        /\ \A k \in 1 .. n : z[k].dest \in E /\ Kept(z[k])
    BY <1>1 DEF Dests, Uncut
  <1>9. \A j, k \in 1 .. m + n : l[j].dest = l[k].dest => j = k
    <2> SUFFICES ASSUME NEW j \in 1 .. m + n, NEW k \in 1 .. m + n, l[j].dest = l[k].dest
                 PROVE  j = k
      OBVIOUS
    <2>1. CASE j <= m /\ k <= m
      <3>1. j \in 1 .. m /\ k \in 1 .. m /\ s[j].dest = s[k].dest
        BY <1>6, <2>1
      <3>2. QED
        BY <1>1, <3>1 DEF Once
    <2>2. CASE j > m /\ k > m
      <3>1. PICK i, h \in 1 .. n : i = j - m /\ h = k - m /\ z[i].dest = z[h].dest
        BY <1>6, <2>2
      <3>2. i = h
        BY <1>1, <3>1 DEF Once
      <3>3. QED
        BY <3>1, <3>2
    <2>3. CASE (j <= m /\ k > m) \/ (j > m /\ k <= m)
      BY <1>6, <1>8, <2>3
    <2>4. QED
      BY <2>1, <2>2, <2>3
  <1>10. \A k \in 1 .. m + n : l[k].dest \in D \cup E /\ Kept(l[k])
    <2> SUFFICES ASSUME NEW k \in 1 .. m + n
                 PROVE  l[k].dest \in D \cup E /\ Kept(l[k])
      OBVIOUS
    <2>1. CASE k <= m
      BY <1>6, <1>8, <2>1
    <2>2. CASE k > m
      BY <1>6, <1>8, <2>2
    <2>3. QED
      BY <2>1, <2>2
  <1>11. QED
    BY <1>4, <1>5, <1>7, <1>9, <1>10 DEF Once, Uncut, Dests

Asks(r, d) == r.dest = d /\ Kept(r)
LEMMA EachAsks ==
  ASSUME NEW d, NEW n, NEW t
  PROVE  Asks(Wide(d, n), d) /\ Asks(Narrow(d, n), d) /\ Asks(Prefix("A_log", n, t), "A_log")
  BY DEF Wide, Narrow, Prefix, Request, Asks, Kept

Norms == {"input_layernorm", "post_attention_layernorm", "self_attention_res_norm",
          "self_attention_res_proj", "mlp_res_norm", "mlp_res_proj"}
Mlas == {"q_a_proj", "q_a_layernorm", "q_b_proj", "kv_a_proj", "kv_a_layernorm", "kv_b_proj",
         "o_proj"}
Kdas == {"q_proj", "k_proj", "v_proj", "g_proj", "o_proj", "q_conv1d", "k_conv1d", "v_conv1d",
         "f_a_proj", "f_b_proj", "b_proj", "A_log", "dt_bias", "o_norm"}
Denses == {"gate_proj", "up_proj", "down_proj"}
Moes == {"gate", "e_score_correction_bias", "routed_down_proj", "routed_up_proj",
         "routed_expert_norm", "shared_gate_proj", "shared_up_proj", "shared_down_proj"}

LEMMA NormOnce == IsSeq(NormPlan) /\ Once(NormPlan) /\ Uncut(NormPlan) /\ Dests(NormPlan) \subseteq Norms
  <1>1. IsSeq(NormPlan)
    BY PlanParts DEF IsPlan
  <1>2. Len(NormPlan) = 6
    <2>1. PICK m \in Nat : m = 6
      OBVIOUS
    <2>2. NormPlan = [k \in 1 .. m |-> NormPlan[k]]
      BY <2>1 DEF NormPlan
    <2>3. NormPlan \in [1 .. m -> {NormPlan[k] : k \in 1 .. m}]
      BY <2>2
    <2>4. QED
      BY <2>1, <2>3, LenOf
  <1>3. \A k \in 1 .. 6 : NormPlan[k].dest =
          <<"input_layernorm", "post_attention_layernorm", "self_attention_res_norm",
            "self_attention_res_proj", "mlp_res_norm", "mlp_res_proj">>[k]
    BY EachAsks DEF NormPlan, Asks
  <1>4. Once(NormPlan) /\ Dests(NormPlan) \subseteq Norms
    BY <1>2, <1>3 DEF Once, Dests, Norms
  <1>5. Uncut(NormPlan)
    BY <1>2, EachAsks DEF Uncut, NormPlan, Asks
  <1>6. QED
    BY <1>1, <1>4, <1>5

LEMMA KdaOnce == IsSeq(KdaPlan) /\ Once(KdaPlan) /\ Uncut(KdaPlan) /\ Dests(KdaPlan) \subseteq Kdas
  <1>1. IsSeq(KdaPlan)
    BY PlanParts DEF IsPlan
  <1>2. /\ Asks(Narrow("q_proj", Width * Hidden), "q_proj")
        /\ Asks(Narrow("k_proj", Width * Hidden), "k_proj")
        /\ Asks(Narrow("v_proj", Width * Hidden), "v_proj")
        /\ Asks(Narrow("g_proj", Width * Hidden), "g_proj")
        /\ Asks(Narrow("o_proj", Hidden * Width), "o_proj")
        /\ Asks(Wide("q_conv1d", Width * Cfg.conv_k), "q_conv1d")
        /\ Asks(Wide("k_conv1d", Width * Cfg.conv_k), "k_conv1d")
        /\ Asks(Wide("v_conv1d", Width * Cfg.conv_k), "v_conv1d")
        /\ Asks(Narrow("f_a_proj", Cfg.kda_head_dim * Hidden), "f_a_proj")
        /\ Asks(Narrow("f_b_proj", Width * Cfg.kda_head_dim), "f_b_proj")
        /\ Asks(Narrow("b_proj", Cfg.kda_heads * Hidden), "b_proj")
        /\ Asks(Prefix("A_log", Cfg.kda_head_dim, Cfg.kda_heads), "A_log")
        /\ Asks(Wide("dt_bias", Width), "dt_bias")
        /\ Asks(Wide("o_norm", Cfg.kda_head_dim), "o_norm")
    BY EachAsks
  <1>3. /\ Len(KdaPlan) = 14
        /\ \A k \in 1 .. 14 : Asks(KdaPlan[k],
             <<"q_proj", "k_proj", "v_proj", "g_proj", "o_proj", "q_conv1d", "k_conv1d", "v_conv1d",
               "f_a_proj", "f_b_proj", "b_proj", "A_log", "dt_bias", "o_norm">>[k])
    BY <1>2 DEF KdaPlan
  <1>4. Once(KdaPlan) /\ Dests(KdaPlan) \subseteq Kdas
    BY <1>3 DEF Once, Dests, Kdas, Asks
  <1>5. QED
    BY <1>1, <1>3, <1>4 DEF Uncut, Asks

LEMMA MlaOnce == /\ IsSeq(MlaPlan) /\ Once(MlaPlan) /\ Uncut(MlaPlan)
                 /\ Dests(MlaPlan) \subseteq Mlas \cup {"g_proj"}
  <1> DEFINE p == <<Narrow("q_a_proj", Cfg.q_lora * Hidden), Wide("q_a_layernorm", Cfg.q_lora),
                    Narrow("q_b_proj", Cfg.n_heads * (Cfg.qk_nope + Cfg.qk_rope) * Cfg.q_lora),
                    Narrow("kv_a_proj", (Cfg.kv_lora + Cfg.qk_rope) * Hidden),
                    Wide("kv_a_layernorm", Cfg.kv_lora),
                    Narrow("kv_b_proj", Cfg.n_heads * (Cfg.qk_nope + Cfg.v_head) * Cfg.kv_lora),
                    Narrow("o_proj", Hidden * Cfg.n_heads * Cfg.v_head)>>
  <1>1. /\ Asks(Narrow("q_a_proj", Cfg.q_lora * Hidden), "q_a_proj")
        /\ Asks(Wide("q_a_layernorm", Cfg.q_lora), "q_a_layernorm")
        /\ Asks(Narrow("q_b_proj", Cfg.n_heads * (Cfg.qk_nope + Cfg.qk_rope) * Cfg.q_lora), "q_b_proj")
        /\ Asks(Narrow("kv_a_proj", (Cfg.kv_lora + Cfg.qk_rope) * Hidden), "kv_a_proj")
        /\ Asks(Wide("kv_a_layernorm", Cfg.kv_lora), "kv_a_layernorm")
        /\ Asks(Narrow("kv_b_proj", Cfg.n_heads * (Cfg.qk_nope + Cfg.v_head) * Cfg.kv_lora), "kv_b_proj")
        /\ Asks(Narrow("o_proj", Hidden * Cfg.n_heads * Cfg.v_head), "o_proj")
        /\ Asks(Narrow("g_proj", Cfg.n_heads * Cfg.v_head * Hidden), "g_proj")
    BY EachAsks
  <1>2. /\ Len(p) = 7 /\ IsSeq(p)
        /\ \A k \in 1 .. 7 : Asks(p[k], <<"q_a_proj", "q_a_layernorm", "q_b_proj", "kv_a_proj",
                                          "kv_a_layernorm", "kv_b_proj", "o_proj">>[k])
    BY <1>1 DEF IsSeq
  <1>3. IsSeq(p) /\ Once(p) /\ Uncut(p) /\ Dests(p) \subseteq Mlas
    <2> HIDE DEF p
    <2>1. QED
      BY <1>2 DEF Once, Uncut, Dests, Mlas, Asks
  <1>4. IsSeq(Gated) /\ Once(Gated) /\ Uncut(Gated) /\ Dests(Gated) \subseteq {"g_proj"}
    BY <1>1 DEF Gated, IsSeq, Once, Uncut, Dests, Asks
  <1>5. MlaPlan = p \o Gated
    BY DEF MlaPlan
  <1>6. Mlas \cap {"g_proj"} = {}
    BY DEF Mlas
  <1> HIDE DEF p
  <1>7. QED
    BY <1>3, <1>4, <1>5, <1>6, OnceJoins

LEMMA DenseOnce == IsSeq(DensePlan) /\ Once(DensePlan) /\ Uncut(DensePlan) /\ Dests(DensePlan) \subseteq Denses
  <1>1. /\ Asks(Narrow("gate_proj", Cfg.dense_inter * Hidden), "gate_proj")
        /\ Asks(Narrow("up_proj", Cfg.dense_inter * Hidden), "up_proj")
        /\ Asks(Narrow("down_proj", Hidden * Cfg.dense_inter), "down_proj")
    BY EachAsks
  <1>2. /\ IsSeq(DensePlan) /\ Len(DensePlan) = 3
        /\ \A k \in 1 .. 3 : Asks(DensePlan[k], <<"gate_proj", "up_proj", "down_proj">>[k])
    BY <1>1 DEF DensePlan, IsSeq
  <1>3. QED
    BY <1>2 DEF Once, Uncut, Dests, Denses, Asks

LEMMA MoeOnce == IsSeq(MoePlan) /\ Once(MoePlan) /\ Uncut(MoePlan) /\ Dests(MoePlan) \subseteq Moes
  <1>1. PICK si : si = Cfg.moe_inter * Cfg.n_shared
    OBVIOUS
  <1>2. /\ Asks(Wide("gate", Cfg.n_experts * Hidden), "gate")
        /\ Asks(Wide("e_score_correction_bias", Cfg.n_experts), "e_score_correction_bias")
        /\ Asks(Narrow("routed_down_proj", Cfg.latent * Hidden), "routed_down_proj")
        /\ Asks(Narrow("routed_up_proj", Hidden * Cfg.latent), "routed_up_proj")
        /\ Asks(Wide("routed_expert_norm", Cfg.latent), "routed_expert_norm")
        /\ Asks(Narrow("shared_gate_proj", si * Hidden), "shared_gate_proj")
        /\ Asks(Narrow("shared_up_proj", si * Hidden), "shared_up_proj")
        /\ Asks(Narrow("shared_down_proj", Hidden * si), "shared_down_proj")
    BY EachAsks
  <1>3. /\ IsSeq(MoePlan) /\ Len(MoePlan) = 8
        /\ \A k \in 1 .. 8 : Asks(MoePlan[k],
             <<"gate", "e_score_correction_bias", "routed_down_proj", "routed_up_proj",
               "routed_expert_norm", "shared_gate_proj", "shared_up_proj", "shared_down_proj">>[k])
    BY <1>1, <1>2 DEF MoePlan, IsSeq
  <1>4. QED
    BY <1>3 DEF Once, Uncut, Dests, Moes, Asks

LEMMA LayerOnce ==
  ASSUME NEW L
  PROVE  IsSeq(LayerPlan(L)) /\ Once(LayerPlan(L)) /\ Uncut(LayerPlan(L))
  <1>1. PICK a : a = IF IsMla(L) THEN MlaPlan ELSE KdaPlan
    OBVIOUS
  <1>2. PICK b : b = IF IsDense(L) THEN DensePlan ELSE MoePlan
    OBVIOUS
  <1> DEFINE A == Mlas \cup Kdas
             B == Denses \cup Moes
  <1>3. IsSeq(a) /\ Once(a) /\ Uncut(a) /\ Dests(a) \subseteq A
    BY <1>1, MlaOnce, KdaOnce DEF Kdas
  <1>4. IsSeq(b) /\ Once(b) /\ Uncut(b) /\ Dests(b) \subseteq B
    BY <1>2, DenseOnce, MoeOnce
  <1>5. Norms \cap A = {} /\ (Norms \cup A) \cap B = {}
    BY DEF Norms, Mlas, Kdas, Denses, Moes
  <1> HIDE DEF A, B
  <1>6. PICK c : c = NormPlan \o a
    OBVIOUS
  <1>7. IsSeq(c) /\ Once(c) /\ Uncut(c) /\ Dests(c) \subseteq Norms \cup A
    BY <1>3, <1>5, <1>6, NormOnce, OnceJoins
  <1>8. IsSeq(c \o b) /\ Once(c \o b) /\ Uncut(c \o b)
    BY <1>4, <1>5, <1>7, OnceJoins
  <1>9. QED
    BY <1>1, <1>2, <1>6, <1>8 DEF LayerPlan

LEMMA ModelOnce ==
  ASSUME NEW e, NEW h
  PROVE  IsSeq(ModelPlan(e, h)) /\ Once(ModelPlan(e, h)) /\ Uncut(ModelPlan(e, h))
  <1>1. PICK a : a = IF e THEN <<Narrow("embed_tokens", Cfg.vocab * Hidden)>> ELSE <<>>
    OBVIOUS
  <1>2. PICK b : b = <<Wide("norm", Hidden), Wide("output_attn_res_norm", Hidden),
                       Wide("output_attn_res_proj", Hidden)>>
    OBVIOUS
  <1>3. PICK c : c = IF h THEN <<Narrow("lm_head", Cfg.vocab * Hidden)>> ELSE <<>>
    OBVIOUS
  <1>4. /\ Asks(Narrow("embed_tokens", Cfg.vocab * Hidden), "embed_tokens")
        /\ Asks(Narrow("lm_head", Cfg.vocab * Hidden), "lm_head")
        /\ Asks(Wide("norm", Hidden), "norm")
        /\ Asks(Wide("output_attn_res_norm", Hidden), "output_attn_res_norm")
        /\ Asks(Wide("output_attn_res_proj", Hidden), "output_attn_res_proj")
    BY EachAsks
  <1> DEFINE B == {"norm", "output_attn_res_norm", "output_attn_res_proj"}
             A == {"embed_tokens"}
             C == {"lm_head"}
  <1>5. IsSeq(a) /\ Once(a) /\ Uncut(a) /\ Dests(a) \subseteq A
    BY <1>1, <1>4 DEF IsSeq, Once, Uncut, Dests, Asks
  <1>6. /\ IsSeq(b) /\ Len(b) = 3
        /\ \A k \in 1 .. 3 : Asks(b[k], <<"norm", "output_attn_res_norm", "output_attn_res_proj">>[k])
    BY <1>2, <1>4 DEF IsSeq
  <1>7. IsSeq(b) /\ Once(b) /\ Uncut(b) /\ Dests(b) \subseteq B
    BY <1>6 DEF Once, Uncut, Dests, Asks
  <1>8. IsSeq(c) /\ Once(c) /\ Uncut(c) /\ Dests(c) \subseteq C
    BY <1>3, <1>4 DEF IsSeq, Once, Uncut, Dests, Asks
  <1>9. A \cap B = {} /\ (A \cup B) \cap C = {}
    OBVIOUS
  <1> HIDE DEF A, B, C
  <1>10. PICK d : d = a \o b
    OBVIOUS
  <1>11. IsSeq(d) /\ Once(d) /\ Uncut(d) /\ Dests(d) \subseteq A \cup B
    BY <1>5, <1>7, <1>9, <1>10, OnceJoins
  <1>12. IsSeq(d \o c) /\ Once(d \o c) /\ Uncut(d \o c)
    BY <1>8, <1>9, <1>11, OnceJoins
  <1>13. QED
    BY <1>1, <1>2, <1>3, <1>10, <1>12 DEF ModelPlan

LEMMA RequestsOnce ==
  ASSUME NEW o
  PROVE  Once(RequestsOf(o)) /\ Uncut(RequestsOf(o))
  BY LayerOnce, ModelOnce DEF RequestsOf, Once, Uncut

(* What the store says of a tensor is what the disk says.                  *)
LEMMA FoundTrue ==
  ASSUME StoreHolds, ListHolds, TableHolds, AtWork, NEW name, Hash[name] \in Nat,
         NEW t, t = Find(name), t # Missing
  PROVE  /\ t.nbytes = Numel(t.shape) * Esz(t.dtype)
         /\ Start0(name) = t.off /\ TruthOf(name)[2].dtype = t.dtype
         /\ \E e \in ToSet(dir.shard[t.shard].tensor) : t.nbytes = e.o1 - e.o0
  <1>1. Indexed /\ pc # "index" /\ OneOfCalls
    BY DEF AtWork, Indexed, StoreHolds
  <1>2. FindsByName(name)
    BY <1>1, FindIs
  <1>3. PICK x \in Entries : t = Tensor(x) /\ NameOf(x) = name /\ \A z \in Entries : NameOf(z) = name => z = x
    BY <1>2 DEF FindsByName
  <1>4. /\ x = <<x[1], x[2]>> /\ x[1] \in DOMAIN dir.shard /\ x[2] \in DOMAIN dir.shard[x[1]].tensor
    BY <1>1, <1>3, EntryTyped
  <1>5. PICK k, i : x[1] = k /\ x[2] = i
    OBVIOUS
  <1>6. PICK sh : sh = dir.shard[k]
    OBVIOUS
  <1>7. PICK e : e = sh.tensor[i]
    OBVIOUS
  <1>8. /\ t.nbytes = e.o1 - e.o0 /\ t.off = Base(sh) + e.o0 /\ t.dtype = e.dtype /\ t.shape = e.shape
        /\ t.shard = k /\ e.name = name
    BY <1>3, <1>5, <1>6, <1>7 DEF Tensor, NameOf
  <1>9. EntryOk(sh, e)
    <2>1. ScanOk(sh)
      BY <1>1, <1>4, <1>5, <1>6, InputTyped DEF StoreHolds, AllScanned, Scanned
    <2>2. QED
      BY <1>4, <1>5, <1>6, <1>7, <2>1 DEF ScanOk
  <1>10. e \in ToSet(sh.tensor)
    BY <1>4, <1>5, <1>6, <1>7 DEF ToSet
  <1>11. TruthOf(name) = <<k, e>>
    <2>1. <<k, e>> \in DirTensors
      BY <1>4, <1>5, <1>6, <1>10 DEF DirTensors
    <2>2. ASSUME NEW z \in DirTensors, z[2].name = name
          PROVE  z = <<k, e>>
      <3>1. PICK h \in DOMAIN dir.shard : \E f \in ToSet(dir.shard[h].tensor) : z = <<h, f>>
        BY DEF DirTensors
      <3>2. PICK f \in ToSet(dir.shard[h].tensor) : z = <<h, f>>
        BY <3>1
      <3>3. PICK j \in DOMAIN dir.shard[h].tensor : f = dir.shard[h].tensor[j]
        BY <3>2 DEF ToSet
      <3>4. <<h, j>> \in Entries /\ NameOf(<<h, j>>) = f.name /\ f.name = name
        BY <2>2, <3>2, <3>3 DEF Entries, NameOf
      <3>5. <<h, j>> = x
        BY <1>3, <3>4
      <3>6. QED
        BY <1>4, <1>5, <1>6, <1>7, <3>2, <3>3, <3>5
    <2>3. <<k, e>>[2].name = name
      BY <1>8
    <2>4. QED
      BY <2>1, <2>2, <2>3 DEF TruthOf
  <1>12. QED
    BY <1>6, <1>8, <1>9, <1>10, <1>11 DEF Start0, EntryOk

LEMMA WholeRead ==
  ASSUME Served(rd), Whole
  PROVE  Delivered = Bytes(rd.off, rd.n)
  <1>1. rd.n \in Int /\ rd.off \in Int /\ rd.pad \in Nat
    BY DEF Served
  <1>2. PICK n \in Int, off \in Int, pad \in Nat : n = rd.n /\ off = rd.off /\ pad = rd.pad
    BY <1>1
  <1>3. \A j \in 0 .. n - 1 : rd.buf[pad + j] = off + j
    BY <1>2, ServedResult DEF Whole
  <1>4. \A j \in 1 .. n : rd.buf[pad + j - 1] = off + j - 1
    <2> SUFFICES ASSUME NEW j \in 1 .. n
                 PROVE  rd.buf[pad + j - 1] = off + j - 1
      OBVIOUS
    <2>1. PICK i \in 0 .. n - 1 : i = j - 1
      BY <1>2
    <2>2. pad + j - 1 = pad + i /\ off + j - 1 = off + i
      BY <1>2, <2>1
    <2>3. QED
      BY <1>3, <2>2
  <1>5. QED
    BY <1>2, <1>4 DEF Delivered, Bytes

LEMMA Ceiling ==
  ASSUME NEW n \in Nat, NEW b \in Nat \ {0}, NEW m, m = (n + b - 1) \div b
  PROVE  /\ m \in Nat /\ m * b \in Nat /\ n <= m * b /\ m * b < n + b
         /\ (m = 0 <=> n = 0)
         /\ \A c \in Int : c < m => c * b \in Int /\ c * b < n
  <1>1. n + b - 1 \in Nat
    OBVIOUS
  <1>2. PICK a : a = n + b - 1
    OBVIOUS
  <1>3. m \in Nat
    BY <1>1, DivNat
  <1>4. m * b \in Int /\ a % b \in 0 .. b - 1 /\ a = m * b + (a % b)
    BY <1>1, <1>2, DivMod
  <1>5. m * b \in Nat /\ n <= m * b /\ m * b < n + b
    <2>1. PICK r \in 0 .. b - 1 : r = a % b
      BY <1>4
    <2>2. PICK q \in Int : q = m * b
      BY <1>4
    <2>3. q = n + b - 1 - r
      BY <1>2, <1>4, <2>1, <2>2
    <2>4. q \in Nat /\ n <= q /\ q < n + b
      BY <2>1, <2>2, <2>3
    <2>5. QED
      BY <2>2, <2>4
  <1>6. ASSUME NEW c \in Int, c < m
        PROVE  c * b \in Int /\ c * b < n
    <2>1. c * b \in Int /\ c * b + b <= m * b
      BY <1>3, <1>6, Multiples
    <2>2. QED
      BY <1>5, <2>1
  <1>7. m = 0 <=> n = 0
    <2>1. 0 * b = 0
      OBVIOUS
    <2>2. m = 0 => n = 0
      BY <1>5, <2>1
    <2>3. m # 0 => 0 * b < n
      BY <1>3, <1>6
    <2>4. QED
      BY <2>1, <2>2, <2>3
  <1>8. QED
    BY <1>3, <1>5, <1>6, <1>7

(* The second run of bytes goes on where the first one ends, or nothing of *)

(* The same with names for the hypothesis and for what follows from it.    *)
IsCeiling(m, n, b) == m = (n + b - 1) \div b

Covers(m, n, b) == m \in Nat /\ m * b \in Nat /\ n <= m * b /\ m * b < n + b
NoneOfNone(m, n) == m = 0 <=> n = 0
StartsBelow(m, n, b) == \A c \in Int : c < m => c * b \in Int /\ c * b < n

LEMMA CeilingIs ==
  ASSUME NEW n \in Nat, NEW b \in Nat \ {0}, NEW m, IsCeiling(m, n, b)
  PROVE  Covers(m, n, b) /\ NoneOfNone(m, n) /\ StartsBelow(m, n, b)
  <1>1. m = (n + b - 1) \div b
    BY DEF IsCeiling
  <1>2. Covers(m, n, b)
    BY <1>1, Ceiling DEF Covers
  <1>3. NoneOfNone(m, n)
    BY <1>1, Ceiling DEF NoneOfNone
  <1>4. StartsBelow(m, n, b)
    BY <1>1, Ceiling DEF StartsBelow
  <1>5. QED
    BY <1>2, <1>3, <1>4

(* The second run of bytes goes on where the first one ends, or nothing of *)

(* The same, of the numbers alone and of the chunks below.                 *)
LEMMA CeilingSides ==
  ASSUME NEW n \in Nat, NEW b \in Nat \ {0}, NEW m, m = (n + b - 1) \div b
  PROVE  m \in Nat /\ m * b \in Nat /\ n <= m * b /\ m * b < n + b /\ (m = 0 <=> n = 0)
  <1>1. m = 0 <=> n = 0
    BY Ceiling
  <1>2. m \in Nat /\ m * b \in Nat /\ n <= m * b /\ m * b < n + b
    BY Ceiling
  <1>3. QED
    BY <1>1, <1>2

(* it is kept.                                                             *)
GoesOn(off, m, at, n, kept) == kept <= m \/ (at = off + m /\ kept <= m + n)

CutTo(off, m, at, n, kept) == SubSeq(Bytes(off, m) \o Bytes(at, n), 1, kept) = Bytes(off, kept)

LEMMA BytesJoin ==
  ASSUME NEW off \in Int, NEW m \in Nat, NEW at \in Int, NEW n \in Nat, NEW kept \in Nat,
         GoesOn(off, m, at, n, kept)
  PROVE  CutTo(off, m, at, n, kept)
  <1> USE DEF GoesOn, CutTo
  <1>1. PICK s, d : s = Bytes(off, m) /\ d = Bytes(at, n)
    OBVIOUS
  <1>2. s \in [1 .. m -> Int] /\ d \in [1 .. n -> Int]
    BY <1>1 DEF Bytes
  <1>3. s \in Seq(Int) /\ Len(s) = m /\ d \in Seq(Int) /\ Len(d) = n
    BY <1>2, LenOf
  <1>4. PICK l : l = s \o d
    OBVIOUS
  <1>5. l \in Seq(Int) /\ Len(l) = m + n
    BY <1>3, <1>4
  <1>6. /\ \A k \in 1 .. m : l[k] = off + k - 1
        /\ \A k \in 1 .. m + n : k > m => l[k] = at + (k - m) - 1
    BY <1>1, <1>3, <1>4 DEF Bytes
  <1>7. kept \in 0 .. m + n /\ \A k \in 1 .. kept : l[k] = off + k - 1
    <2>1. ASSUME NEW k \in 1 .. kept
          PROVE  l[k] = off + k - 1
      <3>1. CASE k <= m
        BY <1>6, <3>1
      <3>2. CASE k > m
        BY <1>6, <3>2
      <3>3. QED
        BY <3>1, <3>2
    <2>2. QED
      BY <2>1
  <1>8. SubSeq(l, 1, kept) = [k \in 1 .. kept |-> l[k]]
    BY <1>5, <1>7
  <1>9. QED
    BY <1>1, <1>4, <1>5, <1>7, <1>8 DEF Bytes

(* The reads of a tensor are its bytes, in order.                          *)
LEMMA LoadJobsTile ==
  ASSUME NEW p, NEW t, t.off \in Int, t.nbytes \in Nat,
         Esz(t.dtype) \in {1, 2, 4}, NEW js, js = LoadJobs(p, t)
  PROVE  /\ js = <<>> => t.nbytes = 0
         /\ js # <<>> => Tiles(js, t.off, t.off + t.nbytes)
  <1>1. CASE p.narrow \/ t.dtype = "F32"
    <2>1. js = <<Job(t.shard, t.off, t.nbytes, "st", t.nbytes, p.at)>>
      BY <1>1 DEF LoadJobs
    <2>2. Len(js) = 1 /\ js[1].off = t.off /\ js[1].n = t.nbytes
      BY <2>1 DEF Job
    <2>3. QED
      BY <2>1, <2>2 DEF Tiles
  <1>2. CASE ~(p.narrow \/ t.dtype = "F32")
    <2>1. PICK e \in {1, 2, 4} : e = Esz(t.dtype)
      OBVIOUS
    <2>2. PICK step : step = (WidenChunk \div e) * e
      OBVIOUS
    <2>3. step \in Nat \ {0}
      <3>1. WidenChunk \in Nat /\ WidenChunk >= 4
        BY CallsAssumption
      <3>2. e = 1 \/ e = 2 \/ e = 4
        OBVIOUS
      <3>3. QED
        BY <2>2, <3>1, <3>2
    <2>4. PICK off \in Int, N \in Nat : off = t.off /\ N = t.nbytes
      OBVIOUS
    <2>5. PICK m : m = (N + step - 1) \div step
      OBVIOUS
    <2>6. /\ m \in Nat /\ m * step \in Nat /\ N <= m * step /\ m * step < N + step
          /\ (m = 0 <=> N = 0)
          /\ \A c \in Int : c < m => c * step \in Int /\ c * step < N
      <3>1. IsCeiling(m, N, step)
        BY <2>5 DEF IsCeiling
      <3>2. Covers(m, N, step) /\ NoneOfNone(m, N) /\ StartsBelow(m, N, step)
        BY <2>3, <2>4, <3>1, CeilingIs
      <3>3. m \in Nat /\ m * step \in Nat /\ N <= m * step /\ m * step < N + step
        BY <3>2 DEF Covers
      <3>4. m = 0 <=> N = 0
        BY <3>2 DEF NoneOfNone
      <3>5. \A c \in Int : c < m => c * step \in Int /\ c * step < N
        BY <3>2 DEF StartsBelow
      <3>6. QED
        BY <3>3, <3>4, <3>5
    <2> DEFINE Ends(c) == Min({step, N - (c - 1) * step})
               At(c) == off + (c - 1) * step
    <2>7. js = [c \in 1 .. m |-> Job(t.shard, At(c), Ends(c), "st", Ends(c), 0)]
      BY <1>2, <2>1, <2>2, <2>4, <2>5 DEF LoadJobs, Chunked
    <2>8. ASSUME NEW c \in 1 .. m
          PROVE  /\ (c - 1) * step \in Int /\ c * step = (c - 1) * step + step
                 /\ Ends(c) \in Nat
                 /\ c < m => Ends(c) = step
                 /\ c = m => Ends(c) = N - (c - 1) * step
      <3>1. PICK d \in Int : d = c - 1 /\ c = d + 1
        BY <2>6
      <3>2. d * step \in Int /\ d * step < N /\ (d + 1) * step = d * step + step
        BY <2>3, <2>6, <3>1, Distribute
      <3>3. PICK x \in Int : x = d * step
        BY <3>2
      <3>4. c < m => x + step < N
        BY <2>6, <3>1, <3>2, <3>3
      <3>5. c = m => N <= x + step
        BY <2>6, <3>1, <3>2, <3>3
      <3>6. PICK rest \in Int : rest = N - x
        BY <3>3
      <3>7. Min({step, rest}) \in {step, rest} /\ Min({step, rest}) <= step /\ Min({step, rest}) <= rest
        BY <2>3, LesserOfTwo
      <3>8. rest > 0 /\ (c < m => rest > step) /\ (c = m => rest <= step)
        BY <2>3, <3>2, <3>3, <3>4, <3>5, <3>6
      <3>9. Ends(c) = Min({step, rest})
        BY <3>1, <3>3, <3>6
      <3> HIDE DEF Ends
      <3>10. QED
        BY <2>3, <3>1, <3>2, <3>3, <3>6, <3>7, <3>8, <3>9
    <2>9. \A c \in 1 .. m : js[c].off = At(c) /\ js[c].n = Ends(c)
      <3> HIDE DEF At, Ends
      <3>1. QED
        BY <2>7 DEF Job
    <2>10. Len(js) = m
      <3> DEFINE S == {js[c] : c \in 1 .. m}
      <3>1. js \in [1 .. m -> S]
        BY <2>7
      <3> HIDE DEF S
      <3>2. QED
        BY <2>6, <3>1, LenOf
    <2>11. js = <<>> => m = 0
      BY <2>10
    <2>12. ASSUME m # 0
           PROVE  Tiles(js, off, off + N)
      <3>1. \A i \in 1 .. m : js[i].n \in Nat
        BY <2>8, <2>9
      <3>2. \A i \in 1 .. m - 1 : js[i + 1].off = js[i].off + js[i].n
        <4> SUFFICES ASSUME NEW i \in 1 .. m - 1
                     PROVE  js[i + 1].off = js[i].off + js[i].n
          OBVIOUS
        <4>1. i \in 1 .. m /\ i + 1 \in 1 .. m /\ i < m /\ (i + 1) - 1 = i
          BY <2>6
        <4>2. At(i + 1) = off + i * step /\ At(i) = off + (i - 1) * step
          BY <4>1
        <4>3. (i - 1) * step \in Int /\ i * step = (i - 1) * step + step /\ Ends(i) = step
          BY <2>8, <4>1
        <4>4. PICK x, z \in Int : x = (i - 1) * step /\ z = i * step
          BY <2>3, <4>3
        <4> HIDE DEF At, Ends
        <4>5. QED
          BY <2>3, <2>9, <4>1, <4>2, <4>3, <4>4
      <3>3. 1 \in 1 .. m /\ m \in 1 .. m
        BY <2>6, <2>12
      <3>4. At(1) = off
        <4>1. (1 - 1) * step = 0
          BY <2>3
        <4>2. QED
          BY <4>1
      <3>5. At(m) + Ends(m) = off + N
        <4>1. (m - 1) * step \in Int /\ Ends(m) = N - (m - 1) * step /\ At(m) = off + (m - 1) * step
          BY <2>8, <3>3
        <4> HIDE DEF At, Ends
        <4>2. QED
          BY <4>1
      <3> HIDE DEF At, Ends
      <3>6. QED
        BY <2>9, <2>10, <3>1, <3>2, <3>3, <3>4, <3>5 DEF Tiles
    <2>13. js # <<>> => m # 0
      <3>1. m = 0 => js = <<>>
        BY <2>7
      <3>2. QED
        BY <3>1
    <2>14. QED
      BY <2>4, <2>6, <2>11, <2>12, <2>13
  <1>3. QED
    BY <1>1, <1>2

LEMMA SameGives ==
  ASSUME \A name : Find(name)' = Find(name), reqs' = reqs
  PROVE  /\ \A k : Elements(k)' = Elements(k)
         /\ placed' = placed =>
              \A k, n : LET d == reqs[k].dest IN held'[d] = held[d] /\ Gives(k, n) => Gives(k, n)'
         /\ held' = held => \A m : GivesTo(m) => GivesTo(m)'
  BY DEF Elements, Gives, GivesTo

(* Where the loads of a layer stand after a step.                          *)
LEMMA LoadsTo ==
  ASSUME \A name : Find(name)' = Find(name), reqs' = reqs, rc' = Pending, pc' = "load",
         NEW c, next' = c, NEW t, t = Find(reqs[c].name), NEW f, NEW n, n = Elements(c),
         \A k \in 1 .. c - 1 : Gives(k, Elements(k))',
         jobs' = <<>> => GivesTo(c - 1)',
         jobs' # <<>> => /\ GivesTo(c)' /\ f = jobs'[1].off - t.off /\ f \in Nat
                         /\ Gives(c, Min({f, n}))'
                         /\ Tiles(jobs, jobs[1].off, t.off + t.nbytes)'
  PROVE  LoadHolds'
  <1>1. Find(Req.name)' = t /\ Elements(next)' = n /\ rc' # 0
    <2>1. PICK name : name = reqs[c].name
      OBVIOUS
    <2>2. Req' = reqs[c]
      BY DEF Req
    <2>3. Find(Req.name)' = t
      BY <2>1, <2>2
    <2>4. Elements(next)' = n
      BY SameGives
    <2>5. QED
      BY <2>3, <2>4 DEF Pending
  <1>2. jobs' # <<>> => /\ GivesTo(next)' /\ f = jobs'[1].off - t.off /\ f \in Nat
                        /\ Gives(next, Min({f, n}))'
                        /\ Tiles(jobs, jobs[1].off, t.off + t.nbytes)'
    OBVIOUS
  <1>3. (\A k \in 1 .. next - 1 : Gives(k, Elements(k)))' /\ (jobs' = <<>> => GivesTo(next - 1)')
    OBVIOUS
  <1>4. QED
    BY <1>1, <1>2, <1>3 DEF LoadHolds

LEMMA Scaled ==
  ASSUME NEW a \in Nat, NEW b \in Nat, a <= b, NEW e \in {1, 2, 4}
  PROVE  a * e \in Nat /\ b * e \in Nat /\ a * e <= b * e
  <1>1. e = 1 \/ e = 2 \/ e = 4
    OBVIOUS
  <1>2. QED
    BY <1>1

(* The tensors of a plan that was laid out.                                *)
LEMMA LaidTensor ==
  ASSUME BindInv, LaidOut(Len(reqs)), AtWork, NEW c \in 1 .. Len(reqs),
         NEW r, r = reqs[c], NEW t, t = Find(r.name)
  PROVE  /\ t # Missing /\ t.shard \in DOMAIN dir.shard /\ t.off \in Int /\ t.nbytes \in Nat
         /\ Esz(t.dtype) \in {1, 2, 4} /\ RequestOk(r)
         /\ r.take * Esz(t.dtype) \in Nat /\ r.take * Esz(t.dtype) <= t.nbytes
         /\ Elements(c) = r.take * Esz(t.dtype)
         /\ Start0(r.name) = t.off /\ TruthOf(r.name)[2].dtype = t.dtype
  <1>1. t # Missing /\ Numel(t.shape) = r.want /\ r.take <= r.want
    BY DEF LaidOut
  <1>2. RequestOk(r) /\ Hash[r.name] \in Nat
    BY DEF BindInv, PlanHolds, IsPlan
  <1>3. StoreHolds /\ ListHolds /\ TableHolds
    BY DEF BindInv
  <1>4. PICK name : name = r.name
    OBVIOUS
  <1>5. /\ t.shard \in DOMAIN dir.shard /\ t.off \in Int /\ t.nbytes \in Int
        /\ Esz(t.dtype) \in {1, 2, 4}
    BY <1>1, <1>2, <1>3, <1>4, Found
  <1>6. t.nbytes = Numel(t.shape) * Esz(t.dtype)
        /\ Start0(name) = t.off /\ TruthOf(name)[2].dtype = t.dtype
    BY <1>1, <1>2, <1>3, <1>4, FoundTrue
  <1>7. PICK a \in Nat, b \in Nat, e \in {1, 2, 4} : a = r.take /\ b = r.want /\ e = Esz(t.dtype)
    BY <1>2, <1>5 DEF RequestOk
  <1>8. a * e \in Nat /\ b * e \in Nat /\ a * e <= b * e
    BY <1>1, <1>7, Scaled
  <1>9. QED
    BY <1>1, <1>2, <1>4, <1>5, <1>6, <1>7, <1>8 DEF Elements

LEMMA LoadNextGives ==
  ASSUME BindInv, PathHolds, LayoutHolds, LoadHolds, LoadNext, \A name : Find(name)' = Find(name)
  PROVE  LoadHolds'
  <1>1. /\ pc = "load" /\ jobs = <<>> /\ next \in 1 .. Len(reqs) /\ Len(reqs) \in Nat
        /\ rc' = Pending /\ pc' = "load" /\ reqs' = reqs /\ placed' = placed /\ AtWork
    BY DEF LoadNext, BindInv, PlanHolds, CountersHold, IsPlan, IsSeq, planVars, AtWork
  <1>2. PICK c \in 1 .. Len(reqs) : c = next
    BY <1>1
  <1>3. PICK r : r = reqs[c]
    OBVIOUS
  <1>4. PICK t : t = Find(r.name)
    OBVIOUS
  <1>5. PICK p : p = placed[c]
    OBVIOUS
  <1>6. LaidOut(Len(reqs))
    BY <1>1 DEF LayoutHolds
  <1>7. /\ t.off \in Int /\ t.nbytes \in Nat /\ Esz(t.dtype) \in {1, 2, 4}
        /\ Elements(c) \in Nat /\ Elements(c) <= t.nbytes
    BY <1>1, <1>3, <1>4, <1>6, LaidTensor
  <1>8. /\ Req = r
        /\ jobs' = LoadJobs(p, t)
        /\ held' = [d \in DOMAIN held \cup {r.dest} |-> IF d = r.dest THEN Laid(p, t) ELSE held[d]]
        /\ next' = IF jobs' = <<>> THEN c + 1 ELSE c
    BY <1>1, <1>2, <1>3, <1>4, <1>5 DEF LoadNext, Req, Put
  <1>9. /\ jobs' = <<>> => t.nbytes = 0
        /\ jobs' # <<>> => Tiles(jobs, t.off, t.off + t.nbytes)'
    <2>1. PICK js : js = LoadJobs(p, t)
      OBVIOUS
    <2>2. /\ js = <<>> => t.nbytes = 0
          /\ js # <<>> => Tiles(js, t.off, t.off + t.nbytes)
      BY <1>7, <2>1, LoadJobsTile
    <2>3. QED
      BY <1>8, <2>1, <2>2 DEF Tiles
  <1>10. (\A k \in 1 .. c - 1 : Gives(k, Elements(k))) /\ GivesTo(c - 1)
    BY <1>1, <1>2 DEF LoadHolds
  <1>11. \A k \in 1 .. c - 1 : Gives(k, Elements(k))'
    <2> SUFFICES ASSUME NEW k \in 1 .. c - 1
                 PROVE  Gives(k, Elements(k))'
      OBVIOUS
    <2>1. reqs[k].dest # r.dest /\ k \in 1 .. Len(reqs)
      <3>1. Once(reqs)
        BY <1>1, RequestsOnce DEF PathHolds, Requests
      <3>2. k \in 1 .. Len(reqs) /\ k # c
        BY <1>1, <1>2
      <3>3. QED
        BY <1>2, <1>3, <3>1, <3>2 DEF Once
    <2>2. reqs[k].dest \in DOMAIN held
      BY <1>10 DEF GivesTo
    <2>3. held'[reqs[k].dest] = held[reqs[k].dest]
      BY <1>8, <2>1, <2>2
    <2>4. PICK n : n = Elements(k)
      OBVIOUS
    <2>5. Gives(k, n)
      BY <1>10, <2>4
    <2>6. Gives(k, n)' /\ Elements(k)' = n
      BY <1>1, <2>3, <2>4, <2>5, SameGives
    <2>7. QED
      BY <2>6
  <1>12. GivesTo(c)'
    BY <1>1, <1>2, <1>3, <1>8, <1>10 DEF GivesTo
  <1>13. Gives(c, 0)'
    <2>1. held'[r.dest] = Laid(p, t)
      BY <1>8
    <2>2. Bytes(t.off, 0) = <<>>
      BY DEF Bytes
    <2>3. Laid(p, t) = Given("blob", p.at, r.take * (IF p.narrow THEN Esz(t.dtype) ELSE 4),
                             IF p.narrow THEN t.dtype ELSE "F32", Bytes(t.off, 0))
      BY <1>8, <2>2 DEF Laid
    <2>4. Find(reqs[c].name)' = t /\ reqs'[c] = r /\ placed'[c] = p
      BY <1>1, <1>3, <1>4, <1>5
    <2>5. QED
      BY <2>1, <2>3, <2>4 DEF Gives
  <1>14. CASE jobs' = <<>>
    <2>1. Elements(c) = 0
      BY <1>7, <1>9, <1>14
    <2>2. \A k \in 1 .. c : Gives(k, Elements(k))'
      BY <1>1, <1>11, <1>13, <2>1, SameGives
    <2>3. PICK d : d = c + 1
      OBVIOUS
    <2>4. d - 1 = c
      BY <2>3
    <2>5. QED
      BY <1>1, <1>8, <1>12, <1>14, <2>2, <2>3, <2>4, LoadsTo
  <1>15. CASE jobs' # <<>>
    <2>1. jobs'[1].off = t.off
      BY <1>9, <1>15 DEF Tiles
    <2>2. PICK n : n = Elements(c)
      OBVIOUS
    <2>3. PICK f : f = 0
      OBVIOUS
    <2>4. Min({f, n}) = 0
      <3>1. f \in Int /\ n \in Int /\ n >= 0
        BY <1>7, <2>2, <2>3
      <3>2. Min({f, n}) \in {f, n} /\ Min({f, n}) <= f /\ Min({f, n}) <= n
        BY <3>1, LesserOfTwo
      <3>3. QED
        BY <2>3, <3>1, <3>2
    <2>5. /\ GivesTo(c)' /\ f = jobs'[1].off - t.off /\ f \in Nat
          /\ Gives(c, Min({f, n}))'
          /\ Tiles(jobs, jobs[1].off, t.off + t.nbytes)'
      BY <1>7, <1>9, <1>12, <1>13, <1>15, <2>1, <2>3, <2>4
    <2>6. next' = c
      BY <1>8, <1>15
    <2>7. QED
      BY <1>1, <1>3, <1>4, <1>11, <1>15, <2>2, <2>5, <2>6, LoadsTo
  <1>16. QED
    BY <1>14, <1>15

LEMMA LesserNat ==
  ASSUME NEW x \in Nat, NEW z \in Nat
  PROVE  /\ Min({x, z}) \in Nat /\ Min({x, z}) <= x /\ Min({x, z}) <= z
         /\ x <= z => Min({x, z}) = x
         /\ z <= x => Min({x, z}) = z
  <1>1. x \in Int /\ z \in Int
    OBVIOUS
  <1>2. Min({x, z}) \in {x, z} /\ Min({x, z}) <= x /\ Min({x, z}) <= z
    BY <1>1, LesserOfTwo
  <1>3. QED
    BY <1>2

LEMMA BytesLen ==
  ASSUME NEW off \in Int, NEW m \in Nat, NEW at \in Int, NEW n \in Nat
  PROVE  Len(Bytes(off, m) \o Bytes(at, n)) = m + n
  <1>1. PICK s, d : s = Bytes(off, m) /\ d = Bytes(at, n)
    OBVIOUS
  <1>2. s \in [1 .. m -> Int] /\ d \in [1 .. n -> Int]
    BY <1>1 DEF Bytes
  <1>3. s \in Seq(Int) /\ Len(s) = m /\ d \in Seq(Int) /\ Len(d) = n
    BY <1>2, LenOf
  <1>4. Len(s \o d) = m + n
    BY <1>3
  <1>5. QED
    BY <1>1, <1>4

LEMMA LoadedGives ==
  ASSUME BindInv, PathHolds, LayoutHolds, LoadHolds, Loaded, \A name : Find(name)' = Find(name)
  PROVE  LoadHolds'
  <1>1. /\ pc = "load" /\ Done /\ Whole /\ jobs' = Tail(jobs)
        /\ reqs' = reqs /\ placed' = placed /\ pc' = "load"
        /\ next' = IF Len(jobs) = 1 THEN next + 1 ELSE next
    BY DEF Loaded, planVars
  <1>2. /\ rd # Idle /\ jobs # <<>> /\ Served(rd) /\ IsSeq(jobs) /\ rc' = Pending /\ AtWork
        /\ next \in 1 .. Len(reqs) /\ Len(reqs) \in Nat
    BY <1>1 DEF Loaded, Done, Idle, BindInv, JobsHold, PlanHolds, CountersHold, IsPlan, IsSeq, AtWork
  <1>3. PICK c \in 1 .. Len(reqs) : c = next
    BY <1>2
  <1>4. PICK r : r = reqs[c]
    OBVIOUS
  <1>5. PICK t : t = Find(r.name)
    OBVIOUS
  <1>6. PICK p : p = placed[c]
    OBVIOUS
  <1>7. PICK e : e = Elements(c)
    OBVIOUS
  <1>8. LaidOut(Len(reqs))
    BY <1>1 DEF LayoutHolds
  <1>9. /\ t.off \in Int /\ t.nbytes \in Nat /\ e \in Nat /\ e <= t.nbytes
        /\ e = r.take * Esz(t.dtype)
    BY <1>2, <1>4, <1>5, <1>7, <1>8, LaidTensor
  <1>10. PICK fed : fed = jobs[1].off - t.off
    OBVIOUS
  <1>11. Req = r
    BY <1>3, <1>4 DEF Req
  <1>12. /\ \A k \in 1 .. c - 1 : Gives(k, Elements(k))
         /\ GivesTo(c) /\ fed \in Nat /\ Gives(c, Min({fed, e}))
         /\ Tiles(jobs, jobs[1].off, t.off + t.nbytes)
    BY <1>1, <1>2, <1>3, <1>5, <1>7, <1>10, <1>11 DEF LoadHolds
  <1>13. PICK n : n = jobs[1].n
    OBVIOUS
  <1>14. /\ Len(jobs) \in Nat \ {0} /\ Head(jobs) = jobs[1] /\ Len(jobs') = Len(jobs) - 1
         /\ \A k \in 1 .. Len(jobs) - 1 : jobs'[k] = jobs[k + 1]
         /\ Len(jobs) = 1 <=> jobs' = <<>>
    BY <1>1, <1>2, SeqEnds
  <1>15. n \in Nat
    BY <1>12, <1>13, <1>14 DEF Tiles
  <1>16. JobOk(jobs[1]) /\ rd.off = jobs[1].off /\ rd.n = n /\ jobs[1].off \in Int
    BY <1>2, <1>13, <1>14 DEF BindInv, JobsHold, PathHolds, JobOk
  <1>17. jobs[1].off = t.off + fed
    BY <1>9, <1>10, <1>16
  <1>18. Delivered = Bytes(t.off + fed, n)
    BY <1>1, <1>2, <1>16, <1>17, WholeRead
  <1>19. PICK m : m = Min({fed, e})
    OBVIOUS
  <1>20. held[r.dest] = Given("blob", p.at, r.take * (IF p.narrow THEN Esz(t.dtype) ELSE 4),
                              IF p.narrow THEN t.dtype ELSE "F32", Bytes(t.off, m))
    BY <1>4, <1>5, <1>6, <1>12, <1>19 DEF Gives
  <1>21. PICK kept : kept = Min({fed + n, e})
    OBVIOUS
  <1>22. PICK off \in Int, at \in Int : off = t.off /\ at = t.off + fed
    BY <1>9, <1>12
  <1>23. PICK come : come = held[r.dest].bytes \o Delivered
    OBVIOUS
  <1>24. SubSeq(come, 1, Min({Len(come), e})) = Bytes(t.off, kept)
    <2>1. come = Bytes(off, m) \o Bytes(at, n)
      BY <1>18, <1>20, <1>22, <1>23 DEF Given
    <2>2. fed \in Nat /\ e \in Nat /\ n \in Nat
      BY <1>9, <1>12, <1>15
    <2>3. m \in Nat /\ (fed <= e => m = fed) /\ (e <= fed => m = e)
      BY <1>19, <2>2, LesserNat
    <2>4. Len(Bytes(off, m) \o Bytes(at, n)) = m + n
      BY <2>2, <2>3, BytesLen
    <2>5. PICK a, b \in Nat : a = m + n /\ b = fed + n
      BY <2>2, <2>3
    <2>6. /\ Min({a, e}) \in Nat /\ (a <= e => Min({a, e}) = a) /\ (e <= a => Min({a, e}) = e)
          /\ (b <= e => Min({b, e}) = b) /\ (e <= b => Min({b, e}) = e)
      BY <2>2, LesserNat
    <2>7. Min({a, e}) = kept /\ kept \in Nat
      BY <1>21, <2>2, <2>3, <2>5, <2>6
    <2>8. GoesOn(off, m, at, n, kept)
      BY <1>21, <1>22, <2>2, <2>3, <2>5, <2>6 DEF GoesOn
    <2>9. SubSeq(Bytes(off, m) \o Bytes(at, n), 1, kept) = Bytes(off, kept)
      <3>1. off \in Int /\ at \in Int /\ m \in Nat /\ n \in Nat /\ kept \in Nat
        BY <1>22, <2>2, <2>3, <2>7
      <3>2. CutTo(off, m, at, n, kept)
        BY <2>8, <3>1, BytesJoin
      <3>3. QED
        BY <3>2 DEF CutTo
    <2>10. QED
      BY <1>22, <2>1, <2>4, <2>5, <2>7, <2>9
  <1>25. held' = [held EXCEPT ![r.dest].bytes = Bytes(t.off, kept)]
    BY <1>5, <1>9, <1>11, <1>23, <1>24 DEF Loaded
  <1>26. r.dest \in DOMAIN held
    BY <1>3, <1>4, <1>12 DEF GivesTo
  <1>27. held'[r.dest] = Given("blob", p.at, r.take * (IF p.narrow THEN Esz(t.dtype) ELSE 4),
                               IF p.narrow THEN t.dtype ELSE "F32", Bytes(t.off, kept))
    <2>1. held'[r.dest] = [held[r.dest] EXCEPT !.bytes = Bytes(t.off, kept)]
      BY <1>25, <1>26
    <2>2. QED
      BY <1>20, <2>1 DEF Given
  <1>28. Gives(c, kept)'
    <2>1. Find(reqs[c].name)' = t /\ reqs'[c] = r /\ placed'[c] = p
      BY <1>1, <1>4, <1>5, <1>6
    <2>2. QED
      BY <1>27, <2>1 DEF Gives
  <1>29. GivesTo(c)'
    BY <1>1, <1>12, <1>25 DEF GivesTo
  <1>30. \A k \in 1 .. c - 1 : Gives(k, Elements(k))'
    <2> SUFFICES ASSUME NEW k \in 1 .. c - 1
                 PROVE  Gives(k, Elements(k))'
      OBVIOUS
    <2>1. reqs[k].dest # r.dest
      <3>1. Once(reqs)
        BY <1>2, RequestsOnce DEF PathHolds, Requests
      <3>2. k \in 1 .. Len(reqs) /\ k # c
        BY <1>2
      <3>3. QED
        BY <1>3, <1>4, <3>1, <3>2 DEF Once
    <2>2. held'[reqs[k].dest] = held[reqs[k].dest]
      BY <1>25, <2>1
    <2>3. PICK i : i = Elements(k)
      OBVIOUS
    <2>4. Gives(k, i)' /\ Elements(k)' = i
      BY <1>1, <1>12, <2>2, <2>3, SameGives
    <2>5. QED
      BY <2>4
  <1>31. CASE Len(jobs) = 1
    <2>1. jobs' = <<>> /\ next' = c + 1
      BY <1>1, <1>3, <1>14, <1>31
    <2>2. fed + n = t.nbytes
      <3>1. jobs[1].off + n = t.off + t.nbytes
        BY <1>12, <1>13, <1>31 DEF Tiles
      <3>2. QED
        BY <1>9, <1>12, <1>15, <1>17, <3>1
    <2>3. kept = e
      <3>1. PICK b \in Int : b = t.nbytes /\ e <= b
        BY <1>9
      <3>2. kept = Min({b, e})
        BY <1>21, <2>2, <3>1
      <3>3. b \in Nat /\ e \in Nat
        BY <1>9, <3>1
      <3>4. Min({b, e}) = e
        BY <3>1, <3>3, LesserNat
      <3>5. QED
        BY <3>2, <3>4
    <2>4. \A k \in 1 .. c : Gives(k, Elements(k))'
      BY <1>1, <1>7, <1>28, <1>30, <2>3, SameGives
    <2>5. PICK d : d = c + 1
      OBVIOUS
    <2>6. d - 1 = c
      BY <2>5
    <2>7. QED
      BY <1>1, <1>2, <1>29, <2>1, <2>4, <2>5, <2>6, LoadsTo
  <1>32. CASE Len(jobs) # 1
    <2>1. jobs' # <<>> /\ next' = c /\ Len(jobs) > 1
      BY <1>1, <1>3, <1>14, <1>32
    <2>2. PICK f : f = fed + n
      OBVIOUS
    <2>3. /\ jobs'[1].off = jobs[1].off + n /\ jobs'[1].off = t.off + f
          /\ f = jobs'[1].off - t.off /\ f \in Nat
      <3>1. jobs'[1] = jobs[2] /\ jobs[2].off = jobs[1].off + jobs[1].n
        BY <1>12, <1>14, <2>1 DEF Tiles
      <3>2. jobs'[1].off = jobs[1].off + n
        BY <1>13, <3>1
      <3>3. PICK o \in Int, a \in Int : o = jobs[1].off /\ a = t.off
        BY <1>9, <1>16
      <3>4. n \in Nat /\ fed \in Nat /\ o = a + fed
        BY <1>12, <1>15, <1>17, <3>3
      <3>5. PICK z : z = jobs'[1].off
        OBVIOUS
      <3>6. z = o + n /\ f = fed + n
        BY <2>2, <3>2, <3>3, <3>5
      <3>7. z = a + f /\ f = z - a /\ f \in Nat
        BY <3>3, <3>4, <3>6
      <3>8. QED
        BY <3>2, <3>3, <3>5, <3>7
    <2>4. Gives(c, Min({f, e}))'
      BY <1>21, <1>28, <2>2
    <2>5. Tiles(jobs, jobs[1].off, t.off + t.nbytes)'
      <3>1. PICK js : js = jobs'
        OBVIOUS
      <3>2. PICK l : l = Len(jobs)
        OBVIOUS
      <3>3. Len(js) = l - 1 /\ l \in Nat /\ l > 1 /\ \A k \in 1 .. l - 1 : js[k] = jobs[k + 1]
        BY <1>14, <2>1, <3>1, <3>2
      <3>4. \A i \in 1 .. l - 1 : js[i].n \in Nat
        <4> SUFFICES ASSUME NEW i \in 1 .. l - 1
                     PROVE  js[i].n \in Nat
          OBVIOUS
        <4>1. i + 1 \in 1 .. l
          BY <3>3
        <4>2. QED
          BY <1>12, <3>2, <3>3, <4>1 DEF Tiles
      <3>5. \A i \in 1 .. l - 2 : js[i + 1].off = js[i].off + js[i].n
        <4> SUFFICES ASSUME NEW i \in 1 .. l - 2
                     PROVE  js[i + 1].off = js[i].off + js[i].n
          OBVIOUS
        <4>1. PICK j \in 1 .. l - 1 : j = i + 1
          BY <3>3
        <4>2. js[i] = jobs[j] /\ js[j] = jobs[j + 1] /\ jobs[j + 1].off = jobs[j].off + jobs[j].n
          BY <1>12, <3>2, <3>3, <4>1 DEF Tiles
        <4>3. QED
          BY <4>1, <4>2
      <3>6. js[l - 1] = jobs[l] /\ jobs[l].off + jobs[l].n = t.off + t.nbytes
        BY <1>12, <3>2, <3>3 DEF Tiles
      <3>7. (l - 1) - 1 = l - 2
        BY <3>3
      <3>8. Tiles(js, js[1].off, t.off + t.nbytes)
        BY <3>3, <3>4, <3>5, <3>6, <3>7 DEF Tiles
      <3>9. QED
        BY <3>1, <3>8 DEF Tiles
    <2>6. QED
      BY <1>1, <1>2, <1>4, <1>5, <1>7, <1>29, <1>30, <2>1, <2>3, <2>4, <2>5, LoadsTo
  <1>33. QED
    BY <1>31, <1>32

LEMMA LoadStep ==
  ASSUME BindInv, BindInv', PathHolds, LayoutHolds, LoadHolds, OtherSteps,
         \A name : Find(name)' = Find(name)
  PROVE  LoadHolds'
  <1>1. op' = op /\ (Binds' <=> Binds) /\ PathOf /\ JobsHold
    BY OthersKeep DEF BindInv, Binds, PathHolds
  <1>2. PathOf' /\ (rc # Pending <=> pc = "done")
    BY PathStep DEF BindInv, CountersHold, PathHolds
  <1>3. CASE ~Binds
    BY <1>1, <1>2, <1>3 DEF LoadHolds, PathOf
  <1>4. CASE Begin \/ Relayout \/ Resolve
    <2>1. pc' # "load" /\ rc' = Pending
      BY <1>2, <1>4 DEF Begin, Relayout, Resolve, Opened, outVars
    <2>2. QED
      BY <2>1 DEF LoadHolds, Pending
  <1>5. CASE Unresolved \/ OutOfMemory \/ LoadFailed
    BY <1>5 DEF LoadHolds, Unresolved, OutOfMemory, LoadFailed, Fail, Return
  <1>6. CASE Allocate
    <2>1. /\ pc' = "load" /\ jobs' = jobs /\ rc' = Pending /\ reqs' = reqs /\ held' = held
          /\ next' = 1 /\ pc = "resolve"
      BY <1>2, <1>6 DEF Allocate, planVars
    <2>2. jobs = <<>> /\ held = <<>>
      BY <1>1, <2>1 DEF JobsHold, PathHolds
    <2>3. GivesTo(0)'
      BY <2>1, <2>2 DEF GivesTo
    <2>4. PICK c : c = 1 /\ c - 1 = 0
      OBVIOUS
    <2>5. \A k \in 1 .. c - 1 : Gives(k, Elements(k))'
      BY <2>4
    <2>6. QED
      BY <2>1, <2>2, <2>3, <2>4, <2>5, LoadsTo
  <1>7. CASE LoadNext
    BY <1>7, LoadNextGives
  <1>8. CASE Loaded
    BY <1>8, LoadedGives
  <1>9. CASE (StartJob \/ JobRound) /\ Binds
    <2>1. /\ jobs' = jobs /\ next' = next /\ reqs' = reqs /\ placed' = placed /\ held' = held
          /\ pc' = pc /\ rc' = rc /\ pc = "load" /\ rc = Pending /\ next \in 1 .. Len(reqs) + 1
      <3>1. StartJob \/ JobRound => pc \in {"load", "stream", "expert", "range"}
        BY <1>1, <1>9 DEF StartJob, JobRound, JobsHold, Round, FullRound, ShortRound, FailedRound, AtEnd,
                          Reading, Idle
      <3>2. pc = "load"
        BY <1>1, <1>9, <3>1 DEF PathOf, Binds, Streams
      <3>3. QED
        BY <1>2, <1>9, <3>2 DEF StartJob, JobRound, planVars, outVars, BindInv, PlanHolds
    <2>2. PICK c : c = next
      OBVIOUS
    <2>3. PICK t : t = Find(reqs[c].name)
      OBVIOUS
    <2>4. PICK f : f = jobs[1].off - t.off
      OBVIOUS
    <2>5. PICK n : n = Elements(c)
      OBVIOUS
    <2>6. PICK m : m = Min({f, n})
      OBVIOUS
    <2>7. /\ \A k \in 1 .. c - 1 : Gives(k, Elements(k))
          /\ jobs = <<>> => GivesTo(c - 1)
          /\ jobs # <<>> => /\ GivesTo(c) /\ f \in Nat /\ Gives(c, m)
                            /\ Tiles(jobs, jobs[1].off, t.off + t.nbytes)
      BY <2>1, <2>2, <2>3, <2>4, <2>5, <2>6 DEF LoadHolds, Req
    <2>8. \A k \in 1 .. c - 1 : Gives(k, Elements(k))'
      <3> SUFFICES ASSUME NEW k \in 1 .. c - 1
                   PROVE  Gives(k, Elements(k))'
        OBVIOUS
      <3>1. PICK i : i = Elements(k)
        OBVIOUS
      <3>2. Gives(k, i)' /\ Elements(k)' = i
        BY <2>1, <2>7, <3>1, SameGives
      <3>3. QED
        BY <3>2
    <2>9. jobs' = <<>> => GivesTo(c - 1)'
      <3>1. PICK d : d = c - 1
        OBVIOUS
      <3>2. QED
        BY <2>1, <2>7, <3>1, SameGives
    <2>10. jobs' # <<>> => /\ GivesTo(c)' /\ f = jobs'[1].off - t.off /\ f \in Nat
                           /\ Gives(c, Min({f, n}))'
                           /\ Tiles(jobs, jobs[1].off, t.off + t.nbytes)'
      <3>1. Gives(c, m) => Gives(c, m)'
        BY <2>1, SameGives
      <3>2. GivesTo(c) => GivesTo(c)'
        BY <2>1, SameGives
      <3>3. Tiles(jobs, jobs[1].off, t.off + t.nbytes) => Tiles(jobs, jobs[1].off, t.off + t.nbytes)'
        BY <2>1 DEF Tiles
      <3>4. QED
        BY <2>1, <2>4, <2>6, <2>7, <3>1, <3>2, <3>3
    <2>11. pc' = "load" /\ rc' = Pending /\ reqs' = reqs /\ next' = c
      BY <2>1, <2>2
    <2>12. QED
      BY <2>3, <2>5, <2>8, <2>9, <2>10, <2>11, LoadsTo
  <1>10. CASE BindDone
    <2>1. /\ jobs = <<>> /\ reqs' = reqs /\ placed' = placed /\ held' = held /\ pc' = "done"
          /\ pc = "load" /\ next > Len(reqs)
          /\ wdt' = IF narrow_ok THEN "BF16" ELSE "F32"
          /\ narrow_ok' = narrow_ok
      BY <1>10 DEF BindDone, Return, planVars
    <2>2. PICK m : m = Len(reqs)
      OBVIOUS
    <2>3. next - 1 = m /\ m \in Nat
      BY <2>1, <2>2 DEF BindInv, PlanHolds, IsPlan, IsSeq
    <2>4. GivesTo(m) /\ \A k \in 1 .. m : Gives(k, Elements(k))
      BY <2>1, <2>3 DEF LoadHolds
    <2>5. GivesTo(m)'
      BY <2>1, <2>4, SameGives
    <2>6. \A k \in 1 .. m : Gives(k, Elements(k))'
      <3> SUFFICES ASSUME NEW k \in 1 .. m
                   PROVE  Gives(k, Elements(k))'
        OBVIOUS
      <3>1. PICK i : i = Elements(k)
        OBVIOUS
      <3>2. Gives(k, i)' /\ Elements(k)' = i
        BY <2>1, <2>4, <3>1, SameGives
      <3>3. QED
        BY <3>2
    <2>7. Len(reqs)' = m
      BY <2>1, <2>2
    <2>8. QED
      BY <2>1, <2>5, <2>6, <2>7 DEF LoadHolds
  <1>11. QED
    BY <1>1, <1>3, <1>4, <1>5, <1>6, <1>7, <1>8, <1>9, <1>10, ByKind

LEMMA ListedRequest ==
  ASSUME BindInv, NEW r
  PROVE  r \in ToSet(reqs) <=> \E k \in 1 .. Len(reqs) : r = reqs[k]
  <1>1. DOMAIN reqs = 1 .. Len(reqs)
    BY DEF BindInv, PlanHolds, IsPlan, IsSeq
  <1>2. QED
    BY <1>1 DEF ToSet

(* A bind that succeeds: every destination has all of its tensor.          *)
LEMMA BindsGive ==
  ASSUME BindInv, LayoutHolds, LoadHolds, Binds, rc = 0
  PROVE  /\ DOMAIN held = {r.dest : r \in ToSet(reqs)}
         /\ \A r \in ToSet(reqs) :
              held[r.dest].bytes = ExpectedBytes(r) /\ FormatTrue(r) /\ OwnRegion(r.dest)
  <1>1. PICK n : n = Len(reqs)
    OBVIOUS
  <1>2. /\ LaidOut(n) /\ demoted = 0 /\ blob = size /\ narrow_ok \in BOOLEAN /\ n \in Nat
        /\ GivesTo(n) /\ wdt = (IF narrow_ok THEN "BF16" ELSE "F32")
        /\ \A k \in 1 .. n : Gives(k, Elements(k))
    BY <1>1 DEF LayoutHolds, LoadHolds, BindInv, PlanHolds, IsPlan, IsSeq
  <1>3. AtWork
    BY DEF BindInv, CountersHold, AtWork, Pending
  <1>4. DOMAIN held = {r.dest : r \in ToSet(reqs)}
    BY <1>1, <1>2, ListedRequest DEF GivesTo
  <1> DEFINE Place(k) ==
               LET g == held[reqs[k].dest] IN
               /\ g.where = "blob" /\ g.at = placed[k].at
               /\ g.at \in Nat /\ g.at % 8 = 0 /\ g.len \in Nat
               /\ g.len = reqs[k].take * (IF placed[k].narrow THEN 2 ELSE 4)
               /\ g.at + g.len <= size
  <1>5. ASSUME NEW k \in 1 .. n
        PROVE  LET r == reqs[k] IN
               Place(k) /\ held[r.dest].bytes = ExpectedBytes(r) /\ FormatTrue(r)
    <2>1. PICK r : r = reqs[k]
      OBVIOUS
    <2>2. PICK t : t = Find(r.name)
      OBVIOUS
    <2>3. PICK p : p = placed[k]
      OBVIOUS
    <2>4. /\ Esz(t.dtype) \in {1, 2, 4} /\ RequestOk(r)
          /\ Elements(k) = r.take * Esz(t.dtype)
          /\ Start0(r.name) = t.off /\ TruthOf(r.name)[2].dtype = t.dtype
      BY <1>1, <1>2, <1>3, <2>1, <2>2, LaidTensor
    <2>5. held[r.dest] = Given("blob", p.at, r.take * (IF p.narrow THEN Esz(t.dtype) ELSE 4),
                               IF p.narrow THEN t.dtype ELSE "F32", Bytes(t.off, Elements(k)))
      BY <1>2, <2>1, <2>2, <2>3 DEF Gives
    <2>6. /\ p.narrow = (r.narrow /\ narrow_ok /\ t.dtype = "BF16")
          /\ r.narrow /\ narrow_ok => t.dtype = "BF16"
          /\ p.at \in Nat /\ p.at % 8 = 0
          /\ p.at + r.take * (IF p.narrow THEN 2 ELSE 4) <= size
      BY <1>2, <2>1, <2>2, <2>3 DEF LaidOut, NarrowOf
    <2>7. p.narrow => t.dtype = "BF16" /\ Esz(t.dtype) = 2
      BY <2>6 DEF Esz
    <2>8. PICK len : len = r.take * (IF p.narrow THEN 2 ELSE 4)
      OBVIOUS
    <2>9. len \in Nat /\ p.at + len <= size
      BY <2>4, <2>6, <2>8, Sized DEF RequestOk
    <2>10. held[r.dest] = Given("blob", p.at, len, IF p.narrow THEN "BF16" ELSE "F32",
                                Bytes(t.off, Elements(k)))
      BY <2>5, <2>7, <2>8
    <2>11. Place(k)
      BY <2>1, <2>3, <2>6, <2>8, <2>9, <2>10 DEF Given
    <2>12. held[r.dest].bytes = ExpectedBytes(r)
      BY <2>4, <2>10 DEF Given, ExpectedBytes, Binds
    <2>13. FormatTrue(r)
      <3>1. held[r.dest].fmt = IF p.narrow THEN "BF16" ELSE "F32"
        BY <2>10 DEF Given
      <3>2. CASE r.narrow /\ narrow_ok
        BY <1>2, <2>6, <3>1, <3>2 DEF FormatTrue
      <3>3. CASE ~(r.narrow /\ narrow_ok)
        BY <1>2, <2>6, <3>1, <3>3 DEF FormatTrue
      <3>4. QED
        BY <3>2, <3>3
    <2>14. QED
      BY <2>1, <2>11, <2>12, <2>13
  <1>6. \A j, k \in 1 .. n : j < k =>
          held[reqs[j].dest].at + held[reqs[j].dest].len <= held[reqs[k].dest].at
    <2> SUFFICES ASSUME NEW j \in 1 .. n, NEW k \in 1 .. n, j < k
                 PROVE  held[reqs[j].dest].at + held[reqs[j].dest].len <= held[reqs[k].dest].at
      OBVIOUS
    <2>1. Place(j) /\ Place(k)
      BY <1>5
    <2>2. placed[j].at + reqs[j].take * (IF placed[j].narrow THEN 2 ELSE 4) <= placed[k].at
      BY <1>2 DEF LaidOut
    <2>3. QED
      BY <2>1, <2>2
  <1>7. ASSUME NEW k \in 1 .. n
        PROVE  OwnRegion(reqs[k].dest)
    <2>1. PICK d : d = reqs[k].dest
      OBVIOUS
    <2>2. /\ held[d].where = "blob" /\ held[d].at \in Nat /\ held[d].at % 8 = 0
          /\ held[d].len \in Nat /\ held[d].at + held[d].len <= size
      BY <1>5, <2>1
    <2>3. held[d].at % 4 = 0 /\ held[d].at % 2 = 0 /\ held[d].at >= 0
      BY <2>2
    <2>4. Area("blob") = size
      BY <1>2 DEF Area
    <2>5. ASSUME NEW o \in DOMAIN held \ {d}
          PROVE  Apart(held[d], held[o])
      <3>1. PICK j \in 1 .. n : o = reqs[j].dest
        BY <1>2 DEF GivesTo
      <3>2. j # k
        BY <2>1, <2>5, <3>1
      <3>3. CASE j < k
        BY <1>6, <2>1, <3>1, <3>3 DEF Apart
      <3>4. CASE k < j
        BY <1>6, <2>1, <3>1, <3>4 DEF Apart
      <3>5. QED
        BY <3>2, <3>3, <3>4
    <2>6. QED
      BY <2>1, <2>2, <2>3, <2>4, <2>5 DEF OwnRegion
  <1>8. QED
    BY <1>1, <1>4, <1>5, <1>7, ListedRequest

(* What a request is given in a packed run, and what the flags say of it.  *)
Takes(r, g, width, eight, all) ==
  LET t == op.pack.t[r.name] IN
  /\ r.name \in DOMAIN op.pack.t
  /\ PackerTrue => g.bytes = ExpectedBytes(r)
  /\ g.fmt = IF r.narrow THEN t.dtype ELSE "F32"
  /\ \/ /\ g.where \in {"run", "rows"} /\ g.fmt = t.dtype /\ g.at = t.off
        /\ g.len \in Nat /\ g.len <= t.nbytes
     \/ /\ g.where \in {"widen", "arena"} /\ g.fmt = "F32"
        /\ g.at \in Nat /\ g.at % 8 = 0 /\ g.len \in Nat /\ g.at + g.len <= width
  /\ op.kind = "mem" /\ r.narrow =>
       \/ t.dtype = "BF16" \/ (t.dtype = "I8R" /\ eight) \/ (t.dtype = "F32" /\ ~all)

LEMMA TakesIs ==
  ASSUME NEW k
  PROVE  PackGives(k) <=> Takes(reqs[k], held[reqs[k].dest], w, i8, narrowed_all)
  BY DEF PackGives, Takes, Source

LEMMA SamePack ==
  ASSUME op' = op, dir' = dir
  PROVE  /\ PackerTrue' <=> PackerTrue
         /\ Packs => \A r : ExpectedBytes(r)' = ExpectedBytes(r)
  <1>1. Requests' = Requests
    BY DEF Requests, RequestsOf
  <1>2. PackerTrue' <=> PackerTrue
    BY <1>1 DEF PackerTrue
  <1>3. Packs => \A r : ExpectedBytes(r)' = ExpectedBytes(r)
    BY DEF Packs, ExpectedBytes
  <1>4. QED
    BY <1>2, <1>3

LEMMA TakesOn ==
  ASSUME op' = op, dir' = dir, reqs' = reqs, Packs, NEW k, PackGives(k),
         held'[reqs[k].dest] = held[reqs[k].dest],
         w \in Nat, w' \in Nat, w <= w', i8 => i8', narrowed_all' => narrowed_all
  PROVE  PackGives(k)'
  <1>1. PICK r, g : r = reqs[k] /\ g = held[r.dest]
    OBVIOUS
  <1>2. Takes(r, g, w, i8, narrowed_all)
    BY <1>1, TakesIs
  <1>3. g.at \in Nat /\ g.len \in Nat /\ g.at + g.len <= w => g.at + g.len <= w'
    OBVIOUS
  <1>4. (PackerTrue' <=> PackerTrue) /\ ExpectedBytes(r)' = ExpectedBytes(r)
    BY SamePack
  <1>5. reqs'[k] = r /\ held'[r.dest] = g
    BY <1>1
  <1>6. QED
    BY <1>2, <1>3, <1>4, <1>5 DEF Takes, PackGives, Source

LEMMA PackAdds ==
  ASSUME op' = op, dir' = dir, reqs' = reqs, Packs, PathHolds, BindInv, AtWork,
         NEW n, n = next, n \in 1 .. Len(reqs), PackGiven(n - 1),
         NEW r, r = reqs[n], NEW g, held' = Put(r.dest, g),
         w \in Nat, w' \in Nat, w <= w', i8 => i8', narrowed_all' => narrowed_all,
         Takes(r, g, w', i8', narrowed_all'),
         g.where \in Written => w <= g.at,
         i8' => i8 \/ (r.narrow /\ op.pack.t[r.name].dtype = "I8R")
  PROVE  PackGiven(n)'
  <1>1. Len(reqs) \in Nat /\ n \in Nat /\ n - 1 \in Nat
    BY DEF BindInv, PlanHolds, IsPlan, IsSeq
  <1>2. \A k \in 1 .. n - 1 : k \in 1 .. Len(reqs) /\ reqs[k].dest # r.dest
    <2>1. Once(reqs)
      BY RequestsOnce DEF PathHolds, Requests
    <2>2. QED
      BY <1>1, <2>1 DEF Once
  <1>3. GivesTo(n - 1) /\ ManifestOk(op.pack)
    BY DEF PackGiven
  <1>4. r.dest \notin DOMAIN held /\ DOMAIN held = {reqs[k].dest : k \in 1 .. n - 1}
    BY <1>2, <1>3 DEF GivesTo
  <1>5. DOMAIN held' = DOMAIN held \cup {r.dest} /\ held'[r.dest] = g
        /\ \A d \in DOMAIN held : held'[d] = held[d]
    BY <1>4 DEF Put
  <1>6. \A k \in 1 .. n - 1 : held'[reqs[k].dest] = held[reqs[k].dest]
    BY <1>4, <1>5
  <1>7. GivesTo(n)'
    <2>1. {reqs[k].dest : k \in 1 .. n} = {reqs[k].dest : k \in 1 .. n - 1} \cup {r.dest}
      BY <1>1
    <2>2. QED
      BY <1>4, <1>5, <2>1 DEF GivesTo
  <1>8. PackGives(n)'
    <2>1. reqs'[n] = r /\ held'[r.dest] = g
      BY <1>5
    <2>2. (PackerTrue' <=> PackerTrue) /\ ExpectedBytes(r)' = ExpectedBytes(r)
      BY SamePack
    <2>3. QED
      BY <2>1, <2>2 DEF Takes, PackGives, Source
  <1>9. \A k \in 1 .. n : PackGives(k)'
    <2> SUFFICES ASSUME NEW k \in 1 .. n, k # n
                 PROVE  PackGives(k)'
      BY <1>8
    <2>1. k \in 1 .. n - 1
      BY <1>1
    <2>2. PackGives(k)
      BY <2>1 DEF PackGiven
    <2>3. QED
      BY <1>6, <2>1, <2>2, TakesOn
  <1>10. \A k \in 1 .. n - 1 : held[reqs[k].dest].where \in Written =>
           LET a == held[reqs[k].dest] IN a.at \in Nat /\ a.len \in Nat /\ a.at + a.len <= w
    BY DEF PackGiven, PackGives, Written
  <1>11. g.where \in Written => g.at \in Nat
    BY DEF Takes, Written
  <1>12. ASSUME NEW j \in 1 .. n, NEW k \in 1 .. n, j < k,
                NEW a, NEW b, a = held'[reqs[j].dest], b = held'[reqs[k].dest],
                a.where = b.where, a.where \in Written
         PROVE  a.at + a.len <= b.at
    <2>1. j \in 1 .. n - 1 /\ a = held[reqs[j].dest]
      BY <1>1, <1>6, <1>12
    <2>2. CASE k = n
      <3>1. b = g
        BY <1>5, <1>12, <2>2
      <3>2. a.at \in Nat /\ a.len \in Nat /\ a.at + a.len <= w
        BY <1>10, <1>12, <2>1
      <3>3. g.at \in Nat /\ w <= g.at
        BY <1>11, <1>12, <3>1
      <3>4. QED
        BY <3>1, <3>2, <3>3
    <2>3. CASE k # n
      <3>1. k \in 1 .. n - 1 /\ b = held[reqs[k].dest]
        BY <1>1, <1>6, <1>12, <2>3
      <3>2. QED
        BY <1>12, <2>1, <3>1 DEF PackGiven
    <2>4. QED
      BY <2>2, <2>3
  <1>13. i8' => \E k \in 1 .. n : reqs[k].narrow /\ Source(k).dtype = "I8R"
    <2>1. CASE i8
      <3>1. PICK k \in 1 .. n - 1 : reqs[k].narrow /\ Source(k).dtype = "I8R"
        BY <2>1 DEF PackGiven
      <3>2. QED
        BY <1>1, <3>1
    <2>2. CASE ~i8
      BY <1>1, <2>2 DEF Source
    <2>3. QED
      BY <2>1, <2>2
  <1>14. (ManifestOk(op.pack))' /\ \A k : Source(k)' = Source(k)
    BY <1>3 DEF ManifestOk, Source
  <1>15. (\A j, k \in 1 .. n :
            LET a == held[reqs[j].dest]
                b == held[reqs[k].dest] IN
            j < k /\ a.where = b.where /\ a.where \in Written => a.at + a.len <= b.at)'
    BY <1>12
  <1>16. QED
    BY <1>7, <1>9, <1>13, <1>14, <1>15 DEF PackGiven

LEMMA PackAsked ==
  ASSUME BindInv, PathHolds, Packs, AtWork, ManifestOk(op.pack),
         NEW n \in 1 .. Len(reqs), NEW r, r = reqs[n], r.name \in DOMAIN op.pack.t,
         NEW t, t = op.pack.t[r.name]
  PROVE  /\ t.off \in Nat /\ t.nbytes \in Nat /\ RequestOk(r) /\ r \in ToSet(Requests)
         /\ (r.narrow => r.take = r.want) /\ op.pack.nbytes \in Int
  <1>1. PICK c \in Calls : op = c.op /\ OpType(c)
    BY InputTyped DEF BindInv, StoreHolds
  <1>2. op.kind \in {"mem", "stream"}
    BY DEF Packs
  <1>3. op.pack.nbytes \in Int
        /\ \A m \in DOMAIN op.pack.t : op.pack.t[m].off \in Int /\ op.pack.t[m].nbytes \in Int
    BY <1>1, <1>2 DEF OpType
  <1>4. t.off >= 0 /\ t.nbytes > 0
    BY DEF ManifestOk
  <1>5. RequestOk(r) /\ r \in ToSet(reqs)
    BY ListedRequest DEF BindInv, PlanHolds, IsPlan
  <1>6. reqs = Requests /\ Uncut(reqs)
    BY RequestsOnce DEF PathHolds, Requests
  <1>7. r.narrow => r.take = r.want
    <2>1. Kept(r)
      BY <1>6 DEF Uncut
    <2>2. QED
      BY <2>1, Zenon DEF Kept
  <1>8. QED
    BY <1>3, <1>4, <1>5, <1>6, <1>7

LEMMA PointTakes ==
  ASSUME BindInv, PathHolds, Packs, PackGiven(next - 1), MemPoint
  PROVE  PackGiven(next - 1)'
  <1>1. /\ op' = op /\ dir' = dir /\ reqs' = reqs /\ w' = w /\ AtWork
        /\ next \in 1 .. Len(reqs) /\ w \in Nat /\ next' = next + 1 /\ ManifestOk(op.pack)
        /\ i8' = (i8 \/ Entry8.dtype = "I8R") /\ MemFits /\ PointedAt /\ InRun
        /\ narrowed_all' = (narrowed_all /\ (Req.narrow => Entry8.dtype # "F32"))
    BY DEF MemPoint, storeVars, input, planVars, AtWork, BindInv, PlanHolds, CountersHold, IsPlan, IsSeq,
           PackGiven
  <1>2. PICK n \in 1 .. Len(reqs) : n = next
    BY <1>1
  <1>3. PICK r : r = reqs[n]
    OBVIOUS
  <1>4. PICK t : t = op.pack.t[r.name]
    OBVIOUS
  <1>5. Req = r /\ Entry8 = t /\ r.name \in DOMAIN op.pack.t
    BY <1>1, <1>2, <1>3, <1>4 DEF Req, Entry8, InRun
  <1>6. t.off \in Nat /\ t.nbytes \in Nat /\ RequestOk(r) /\ (r.narrow => r.take = r.want)
    BY <1>1, <1>3, <1>4, <1>5, PackAsked
  <1>7. /\ t.dtype # "I8R" => t.dtype \in {"F32", "BF16"}
        /\ t.dtype # "I8R" => t.nbytes \div MemEsz(t.dtype) = r.want /\ r.take <= r.want
        /\ t.dtype = "F32" \/ r.narrow
    BY <1>1, <1>5 DEF MemFits, PointedAt
  <1>8. PICK m : m = IF t.dtype = "I8R" THEN t.nbytes ELSE r.take * MemEsz(t.dtype)
    OBVIOUS
  <1>9. PICK g : g = Given("run", t.off, m, t.dtype, Bytes(t.off, m))
    OBVIOUS
  <1>10. held' = Put(r.dest, g)
    BY <1>5, <1>8, <1>9 DEF MemPoint
  <1>11. m \in Nat /\ m <= t.nbytes
    <2>1. CASE t.dtype = "F32"
      <3>1. m = r.take * 4 /\ t.nbytes \div 4 = r.want /\ r.take <= r.want
        BY <1>7, <1>8, <2>1 DEF MemEsz
      <3>2. QED
        BY <1>6, <3>1 DEF RequestOk
    <2>2. CASE t.dtype = "BF16"
      <3>1. m = r.take * 2 /\ t.nbytes \div 2 = r.want /\ r.take <= r.want
        BY <1>7, <1>8, <2>2 DEF MemEsz
      <3>2. QED
        BY <1>6, <3>1 DEF RequestOk
    <2>3. QED
      BY <1>6, <1>7, <1>8, <2>1, <2>2
  <1>12. g.bytes = ExpectedBytes(r)
    <2>1. ~(t.dtype = "I8R" /\ ~r.narrow)
      BY <1>7
    <2>2. m = IF t.dtype = "I8R" THEN t.nbytes ELSE r.take * Esz(t.dtype)
      BY <1>7, <1>8 DEF MemEsz, Esz
    <2>3. QED
      BY <1>4, <1>9, <2>1, <2>2 DEF Given, ExpectedBytes, Packs
  <1>13. Takes(r, g, w', i8', narrowed_all')
    <2>1. g.where = "run" /\ g.at = t.off /\ g.len = m /\ g.fmt = t.dtype
      BY <1>9 DEF Given
    <2>2. g.fmt = IF r.narrow THEN t.dtype ELSE "F32"
      BY <1>7, <2>1
    <2>3. r.narrow => t.dtype = "BF16" \/ (t.dtype = "I8R" /\ i8') \/ (t.dtype = "F32" /\ ~narrowed_all')
      BY <1>1, <1>5, <1>7
    <2>4. QED
      BY <1>4, <1>5, <1>11, <1>12, <2>1, <2>2, <2>3 DEF Takes
  <1>14. g.where \notin Written
    BY <1>9 DEF Given, Written
  <1>15. PackGiven(n - 1)
    BY <1>2
  <1>16. i8' => i8 \/ (r.narrow /\ op.pack.t[r.name].dtype = "I8R")
    BY <1>1, <1>4, <1>5, <1>7
  <1>17. /\ w' \in Nat /\ w <= w' /\ (i8 => i8') /\ (narrowed_all' => narrowed_all)
         /\ n \in 1 .. Len(reqs) /\ (g.where \in Written => w <= g.at)
    <2>1. (i8 => i8') /\ (narrowed_all' => narrowed_all)
      BY <1>1, Zenon
    <2>2. w' \in Nat /\ w <= w'
      BY <1>1
    <2>3. QED
      BY <1>14, <2>1, <2>2
  <1>18. PackGiven(n)'
    BY <1>1, <1>2, <1>3, <1>10, <1>13, <1>15, <1>16, <1>17, PackAdds
  <1>19. n = (next - 1)'
    BY <1>1, <1>2
  <1>20. QED
    BY <1>18, <1>19

(* What an int8 vector becomes is what the manifest says of its rows.      *)
Rowwise(off, take, cols) ==
  \A j \in 1 .. 2 * take :
    LET k == (j - 1) \div 2
        x == off + (k \div cols) * (4 + cols) IN
    x + 4 + (k % cols) = x + (4 + (k % cols)) /\ x + 0 = x

LEMMA EightIs ==
  ASSUME NEW off \in Nat, NEW take \in Nat, NEW rows \in Nat \ {0}, take % rows = 0
  PROVE  Rowwise(off, take, take \div rows)
  <1>1. PICK cols : cols = take \div rows
    OBVIOUS
  <1>2. cols \in Nat /\ cols * rows \in Int /\ take = cols * rows
    BY <1>1, DivMod, DivNat
  <1>3. take # 0 => cols # 0
    <2>1. 0 * rows = 0
      OBVIOUS
    <2>2. QED
      BY <1>2, <2>1
  <1>4. ASSUME NEW j \in 1 .. 2 * take, NEW k, k = (j - 1) \div 2
        PROVE  off + (k \div cols) * (4 + cols) \in Int /\ k % cols \in Int
    <2>1. cols \in Nat \ {0}
      BY <1>2, <1>3, <1>4
    <2>2. k \in Nat
      BY <1>4
    <2>3. k \div cols \in Int /\ k % cols \in Int
      BY <2>1, <2>2, DivMod
    <2>4. PICK q, z \in Int : q = k \div cols /\ z = 4 + cols
      BY <2>1, <2>3
    <2>5. q * z \in Int
      OBVIOUS
    <2>6. QED
      BY <2>3, <2>4, <2>5
  <1>5. QED
    BY <1>1, <1>4 DEF Rowwise

LEMMA WidenTakes ==
  ASSUME BindInv, PathHolds, Packs, PackGiven(next - 1), MemWiden
  PROVE  PackGiven(next - 1)'
  <1>1. /\ op' = op /\ dir' = dir /\ reqs' = reqs /\ AtWork
        /\ next \in 1 .. Len(reqs) /\ w \in Nat /\ next' = next + 1 /\ ManifestOk(op.pack)
        /\ w' = Align8(w) + 4 * Req.take
        /\ i8' = i8 /\ MemFits /\ ~PointedAt /\ InRun /\ (Entry8.dtype = "I8R" => Row8Fits)
        /\ narrowed_all' = narrowed_all
    BY DEF MemWiden, storeVars, input, planVars, AtWork, BindInv, PlanHolds, CountersHold, IsPlan, IsSeq,
           PackGiven
  <1>2. PICK n \in 1 .. Len(reqs) : n = next
    BY <1>1
  <1>3. PICK r : r = reqs[n]
    OBVIOUS
  <1>4. PICK t : t = op.pack.t[r.name]
    OBVIOUS
  <1>5. Req = r /\ Entry8 = t /\ r.name \in DOMAIN op.pack.t
    BY <1>1, <1>2, <1>3, <1>4 DEF Req, Entry8, InRun
  <1>6. /\ t.off \in Nat /\ t.nbytes \in Nat /\ RequestOk(r) /\ (r.narrow => r.take = r.want)
        /\ r \in ToSet(Requests)
    BY <1>1, <1>3, <1>4, <1>5, PackAsked
  <1>7. ~r.narrow /\ t.dtype \in {"I8R", "BF16"}
    BY <1>1, <1>5 DEF MemFits, PointedAt
  <1>8. PICK at, len : at = Align8(w) /\ len = 4 * r.take
    OBVIOUS
  <1>9. at \in Nat /\ w <= at /\ at % 8 = 0 /\ len \in Nat /\ w' = at + len
    <2>1. at \in Nat /\ w <= at /\ at % 8 = 0
      BY <1>1, <1>8, Aligns
    <2>2. len \in Nat
      BY <1>6, <1>8 DEF RequestOk
    <2>3. QED
      BY <1>1, <1>5, <1>8, <2>1, <2>2
  <1>10. PICK g : g = Given("widen", at, len, "F32", Widened)
    OBVIOUS
  <1>11. held' = Put(r.dest, g)
    BY <1>5, <1>8, <1>10 DEF MemWiden
  <1>12. ASSUME PackerTrue
         PROVE  g.bytes = ExpectedBytes(r)
    <2>1. g.bytes = Widened
      BY <1>10 DEF Given
    <2>2. CASE t.dtype = "BF16"
      <3>1. 2 * r.take = r.take * Esz(t.dtype)
        BY <1>6, <2>2 DEF Esz, RequestOk
      <3>2. Widened = Bytes(t.off, 2 * r.take)
        BY <1>5, <2>2 DEF Widened
      <3>3. ExpectedBytes(r) = Bytes(t.off, r.take * Esz(t.dtype))
        BY <1>4, <2>2 DEF ExpectedBytes, Packs
      <3>4. QED
        BY <2>1, <3>1, <3>2, <3>3
    <2>3. CASE t.dtype = "I8R"
      <3>1. op.kind = "mem"
        BY <1>1 DEF PathHolds, PathOf, MemWiden
      <3>2. t.rows \in Nat \ {0} /\ t.nbytes = r.take + 4 * t.rows
        BY <1>4, <1>5, <1>6, <1>7, <1>12, <2>3, <3>1 DEF PackerTrue
      <3>3. PICK off, take, nbytes \in Nat, rows \in Nat \ {0} :
              off = t.off /\ take = r.take /\ nbytes = t.nbytes /\ rows = t.rows
        BY <1>6, <3>2 DEF RequestOk
      <3>4. (nbytes - take) \div 4 = rows
        BY <3>2, <3>3
      <3>5. take % rows = 0 /\ Rows8 = rows
        BY <1>1, <1>5, <2>3, <3>3, <3>4 DEF Row8Fits, Rows8
      <3>6. PICK cols : cols = take \div rows
        OBVIOUS
      <3>7. Rowwise(off, take, cols)
        BY <3>5, <3>6, EightIs
      <3>8. Widened = [j \in 1 .. 2 * take |->
                         LET k == (j - 1) \div 2
                             row == off + (k \div cols) * (4 + cols) IN
                         IF j % 2 = 1 THEN row ELSE row + 4 + (k % cols)]
        BY <1>5, <2>3, <3>3, <3>5, <3>6 DEF Widened, Dequantised
      <3>9. ExpectedBytes(r) =
              [j \in 1 .. 2 * take |->
                 off + (((j - 1) \div 2) \div cols) * (4 + cols)
                 + (IF j % 2 = 1 THEN 0 ELSE 4 + (((j - 1) \div 2) % cols))]
        BY <1>4, <1>7, <2>3, <3>3, <3>6 DEF ExpectedBytes, Packs
      <3>10. QED
        BY <2>1, <3>7, <3>8, <3>9 DEF Rowwise
    <2>4. QED
      BY <1>7, <2>2, <2>3
  <1>13. Takes(r, g, w', i8', narrowed_all')
    <2>1. g.where = "widen" /\ g.at = at /\ g.len = len /\ g.fmt = "F32"
      BY <1>10 DEF Given
    <2>2. g.at + g.len <= w'
      BY <1>9, <2>1
    <2>3. QED
      BY <1>4, <1>5, <1>7, <1>9, <1>12, <2>1, <2>2 DEF Takes
  <1>14. w <= g.at
    BY <1>9, <1>10 DEF Given
  <1>15. PackGiven(n - 1)
    BY <1>2
  <1>16. w' \in Nat /\ w <= w'
    BY <1>1, <1>9
  <1>17. PackGiven(n)'
    BY <1>1, <1>2, <1>3, <1>11, <1>13, <1>14, <1>15, <1>16, PackAdds
  <1>18. n = (next - 1)'
    BY <1>1, <1>2
  <1>19. QED
    BY <1>17, <1>18

LEMMA AcquireTakes ==
  ASSUME BindInv, PathHolds, Packs, PackGiven(next - 1), Acquire, StreamFits
  PROVE  PackGiven(next - 1)'
  <1>1. /\ op' = op /\ dir' = dir /\ reqs' = reqs /\ AtWork
        /\ next \in 1 .. Len(reqs) /\ w \in Nat /\ next' = next + 1 /\ ManifestOk(op.pack)
        /\ i8' = i8 /\ InRun /\ narrowed_all' = narrowed_all /\ op.kind = "stream"
    BY DEF Acquire, storeVars, input, planVars, AtWork, BindInv, PlanHolds, CountersHold, IsPlan, IsSeq,
           PackGiven, StreamFits, PathHolds, PathOf
  <1>2. PICK n \in 1 .. Len(reqs) : n = next
    BY <1>1
  <1>3. PICK r : r = reqs[n]
    OBVIOUS
  <1>4. PICK t : t = op.pack.t[r.name]
    OBVIOUS
  <1>5. Req = r /\ Entry8 = t /\ r.name \in DOMAIN op.pack.t
    BY <1>1, <1>2, <1>3, <1>4 DEF Req, Entry8, InRun
  <1>6. t.off \in Nat /\ t.nbytes \in Nat /\ RequestOk(r) /\ (r.narrow => r.take = r.want)
    BY <1>1, <1>3, <1>4, <1>5, PackAsked
  <1>7. t.dtype \in {"BF16", "F32"} /\ t.nbytes = r.want * Esz(t.dtype)
    BY <1>5 DEF StreamFits
  <1>8. PICK at, len : at = Align8(w) /\ len = 4 * r.take
    OBVIOUS
  <1>9. at \in Nat /\ w <= at /\ at % 8 = 0 /\ len \in Nat
    <2>1. at \in Nat /\ w <= at /\ at % 8 = 0
      BY <1>1, <1>8, Aligns
    <2>2. len \in Nat
      BY <1>6, <1>8 DEF RequestOk
    <2>3. QED
      BY <2>1, <2>2
  <1>10. w' = IF r.narrow THEN w ELSE at + len
    BY <1>5, <1>8 DEF Acquire
  <1>11. PICK g : g = IF r.narrow
                      THEN Given("rows", t.off, t.nbytes, t.dtype, Bytes(t.off, t.nbytes))
                      ELSE Given("arena", at, len, "F32", Bytes(t.off, r.take * Esz(t.dtype)))
    OBVIOUS
  <1>12. held' = Put(r.dest, g)
    BY <1>5, <1>8, <1>11 DEF Acquire
  <1>13. g.bytes = ExpectedBytes(r)
    <2>1. g.bytes = Bytes(t.off, r.take * Esz(t.dtype))
      BY <1>6, <1>7, <1>11 DEF Given
    <2>2. QED
      BY <1>4, <1>7, <2>1 DEF ExpectedBytes, Packs
  <1>14. Takes(r, g, w', i8', narrowed_all')
    <2>1. CASE r.narrow
      <3>1. g.where = "rows" /\ g.at = t.off /\ g.len = t.nbytes /\ g.fmt = t.dtype
        BY <1>11, <2>1 DEF Given
      <3>2. QED
        BY <1>1, <1>4, <1>5, <1>6, <1>13, <2>1, <3>1 DEF Takes
    <2>2. CASE ~r.narrow
      <3>1. g.where = "arena" /\ g.at = at /\ g.len = len /\ g.fmt = "F32"
        BY <1>11, <2>2 DEF Given
      <3>2. g.at + g.len <= w'
        BY <1>9, <1>10, <2>2, <3>1
      <3>3. QED
        BY <1>1, <1>4, <1>5, <1>9, <1>13, <2>2, <3>1, <3>2 DEF Takes
    <2>3. QED
      BY <2>1, <2>2
  <1>15. g.where \in Written => w <= g.at
    BY <1>9, <1>11 DEF Given, Written
  <1>16. PackGiven(n - 1)
    BY <1>2
  <1>17. w' \in Nat /\ w <= w'
    BY <1>1, <1>9, <1>10
  <1>18. PackGiven(n)'
    BY <1>1, <1>2, <1>3, <1>12, <1>14, <1>15, <1>16, <1>17, PackAdds
  <1>19. n = (next - 1)'
    BY <1>1, <1>2
  <1>20. QED
    BY <1>18, <1>19

LEMMA SamePackGiven ==
  ASSUME op' = op, dir' = dir, reqs' = reqs, held' = held, w' = w, i8' = i8,
         narrowed_all' = narrowed_all, Packs, w \in Nat, NEW m, PackGiven(m)
  PROVE  PackGiven(m)'
  <1>1. \A k \in 1 .. m : PackGives(k)'
    BY TakesOn DEF PackGiven
  <1>2. /\ ManifestOk(op.pack)' /\ GivesTo(m)'
        /\ i8' => \E k \in 1 .. m : reqs'[k].narrow /\ Source(k)'.dtype = "I8R"
    BY DEF PackGiven, ManifestOk, GivesTo, Source
  <1>3. (\A j, k \in 1 .. m :
           LET a == held[reqs[j].dest]
               b == held[reqs[k].dest] IN
           j < k /\ a.where = b.where /\ a.where \in Written => a.at + a.len <= b.at)'
    BY DEF PackGiven
  <1>4. QED
    BY <1>1, <1>2, <1>3 DEF PackGiven

LEMMA PackStep ==
  ASSUME BindInv, PathHolds, PackHolds, OtherSteps
  PROVE  PackHolds'
  <1>1. op' = op /\ dir' = dir /\ (Packs' <=> Packs) /\ PathOf /\ JobsHold
    BY OthersKeep DEF BindInv, Packs, PathHolds
  <1>2. PathOf' /\ (rc # Pending <=> pc = "done") /\ w \in Nat
    BY PathStep DEF BindInv, CountersHold, PathHolds
  <1>3. CASE ~Packs
    <2>1. pc' \notin {"mem", "acquire"}
      BY <1>1, <1>2, <1>3 DEF PathOf, Packs
    <2>2. QED
      BY <1>1, <1>3, <2>1 DEF PackHolds
  <1>4. CASE Begin /\ Packs
    <2>1. pc' = "manifest" /\ rc' = Pending
      BY <1>2, <1>4 DEF Begin, Opened, Packs, outVars
    <2>2. QED
      BY <2>1 DEF PackHolds, Pending
  <1>5. CASE Manifest
    <2>1. CASE ManifestOk(op.pack)
      <3>1. /\ reqs' = reqs /\ held' = held /\ i8' = i8 /\ rc' = Pending /\ next' = next
            /\ pc = "manifest"
        BY <1>2, <1>5, <2>1 DEF Manifest, planVars, outVars
      <3>2. held = <<>> /\ ~i8 /\ next = 1
        BY <3>1 DEF PathHolds
      <3>3. PICK m : m = 0
        OBVIOUS
      <3>4. PackGiven(m)'
        <4>1. ManifestOk(op.pack)'
          BY <1>1, <2>1 DEF ManifestOk
        <4>2. GivesTo(m)'
          BY <3>1, <3>2, <3>3 DEF GivesTo
        <4>3. ~i8'
          BY <3>1, <3>2
        <4>4. 1 .. m = {}
          BY <3>3
        <4>5. QED
          BY <4>1, <4>2, <4>3, <4>4 DEF PackGiven
      <3>5. m = (next - 1)'
        BY <3>1, <3>2, <3>3
      <3>6. QED
        BY <3>1, <3>4, <3>5 DEF PackHolds, Pending
    <2>2. CASE ~ManifestOk(op.pack)
      BY <1>5, <2>2 DEF Manifest, Fail, Return, PackHolds
    <2>3. QED
      BY <2>1, <2>2
  <1>6. CASE MemRefused \/ (Acquire /\ ~StreamFits)
    BY <1>6 DEF MemRefused, Acquire, Fail, Return, PackHolds
  <1>7. CASE MemPoint \/ MemWiden \/ (Acquire /\ StreamFits)
    <2>1. pc \in {"mem", "acquire"} /\ rc' = Pending
      BY <1>2, <1>7 DEF MemPoint, MemWiden, Acquire
    <2>2. PackGiven(next - 1) /\ Packs
      BY <1>1, <2>1 DEF PackHolds, PathOf, Packs
    <2>3. PackGiven(next - 1)'
      BY <1>7, <2>2, PointTakes, WidenTakes, AcquireTakes
    <2>4. QED
      BY <2>1, <2>3 DEF PackHolds, Pending
  <1>8. CASE MemDone \/ AcquireDone
    <2>1. /\ pc \in {"mem", "acquire"} /\ next > Len(reqs) /\ pc' = "done" /\ reqs' = reqs
          /\ held' = held /\ w' = w /\ i8' = i8 /\ narrowed_all' = narrowed_all
      BY <1>8 DEF MemDone, AcquireDone, Fail, Return, planVars
    <2>2. PICK m : m = Len(reqs)
      OBVIOUS
    <2>3. next - 1 = m
      BY <2>1, <2>2 DEF BindInv, PlanHolds, IsPlan, IsSeq
    <2>4. Packs /\ PackGiven(m)
      BY <1>1, <2>1, <2>3 DEF PackHolds, PathOf, Packs
    <2>5. PackGiven(m)'
      BY <1>1, <1>2, <2>1, <2>4, SamePackGiven
    <2>6. Len(reqs)' = m
      BY <2>1, <2>2
    <2>7. rc' = 0 => /\ op'.kind = "stream" => wdt' = "STREAM"
                     /\ op'.kind = "mem" => wdt' = (IF i8' THEN "I8R" ELSE "BF16")
      BY <1>1, <1>8, <2>1 DEF MemDone, AcquireDone, PathOf, Fail, Return
    <2>8. rc' = 0 /\ op'.kind = "mem" => narrowed_all' \/ i8'
      <3>1. AcquireDone => op'.kind = "stream"
        BY <1>1 DEF PathOf, AcquireDone
      <3>2. MemDone /\ rc' = 0 => narrowed_all' \/ i8'
        <4>1. MemDone /\ rc' = 0 => narrowed_all \/ i8
          BY DEF MemDone, Fail, Return
        <4>2. QED
          BY <2>1, <4>1, Zenon
      <3>3. QED
        BY <1>8, <3>1, <3>2
    <2>9. QED
      BY <2>1, <2>5, <2>6, <2>7, <2>8 DEF PackHolds
  <1>9. QED
    BY <1>1, <1>3, <1>4, <1>5, <1>6, <1>7, <1>8, ByKind

(* A packed run that is bound: every destination is its tensor.            *)
LEMMA PacksGive ==
  ASSUME BindInv, PathHolds, PackHolds, Packs, rc = 0, PackerTrue
  PROVE  /\ DOMAIN held = {r.dest : r \in ToSet(reqs)}
         /\ \A r \in ToSet(reqs) :
              held[r.dest].bytes = ExpectedBytes(r) /\ FormatTrue(r) /\ OwnRegion(r.dest)
  <1>1. PICK n : n = Len(reqs)
    OBVIOUS
  <1>2. /\ PackGiven(n) /\ n \in Nat /\ AtWork
        /\ op.kind = "stream" => wdt = "STREAM"
        /\ op.kind = "mem" => wdt = (IF i8 THEN "I8R" ELSE "BF16") /\ (narrowed_all \/ i8)
    BY <1>1 DEF PackHolds, BindInv, PlanHolds, CountersHold, IsPlan, IsSeq, AtWork, Pending
  <1>3. GivesTo(n) /\ ManifestOk(op.pack)
    BY <1>2 DEF PackGiven
  <1>4. DOMAIN held = {r.dest : r \in ToSet(reqs)}
    BY <1>1, <1>3, ListedRequest DEF GivesTo
  <1>5. reqs = Requests
    BY <1>2 DEF PathHolds
  <1>6. ASSUME NEW k \in 1 .. n
        PROVE  held[reqs[k].dest].bytes = ExpectedBytes(reqs[k]) /\ FormatTrue(reqs[k])
    <2>1. PICK r, g : r = reqs[k] /\ g = held[r.dest]
      OBVIOUS
    <2>2. PICK t : t = op.pack.t[r.name]
      OBVIOUS
    <2>3. PackGives(k)
      BY <1>2 DEF PackGiven
    <2>4. /\ r.name \in DOMAIN op.pack.t /\ g.bytes = ExpectedBytes(r)
          /\ g.fmt = IF r.narrow THEN t.dtype ELSE "F32"
          /\ op.kind = "mem" /\ r.narrow =>
               \/ t.dtype = "BF16" \/ (t.dtype = "I8R" /\ i8) \/ (t.dtype = "F32" /\ ~narrowed_all)
      BY <2>1, <2>2, <2>3 DEF PackGives, Source
    <2>5. r \in ToSet(Requests)
      BY <1>1, <1>5, <2>1, ListedRequest
    <2>6. op.kind = "mem" /\ r.narrow => t.dtype = wdt /\ wdt # "STREAM"
      <3>1. CASE i8 /\ op.kind = "mem" /\ r.narrow
        <4>1. PICK i \in 1 .. n : reqs[i].narrow /\ Source(i).dtype = "I8R"
          BY <1>2, <3>1 DEF PackGiven
        <4>2. reqs[i] \in ToSet(Requests) /\ reqs[i].name \in DOMAIN op.pack.t
          BY <1>1, <1>2, <1>5, ListedRequest DEF PackGiven, PackGives
        <4>3. t.dtype \notin {"F32", "BF16"}
          BY <2>2, <2>4, <2>5, <3>1, <4>1, <4>2 DEF PackerTrue, Source
        <4>4. QED
          BY <1>2, <2>4, <3>1, <4>3
      <3>2. CASE ~i8 /\ op.kind = "mem" /\ r.narrow
        <4>1. narrowed_all
          BY <1>2, <3>2, Zenon
        <4>2. t.dtype = "BF16"
          BY <2>4, <3>2, <4>1, Zenon
        <4>3. wdt = "BF16"
          BY <1>2, <3>2
        <4>4. QED
          BY <4>2, <4>3
      <3>3. QED
        BY <3>1, <3>2
    <2>7. FormatTrue(r)
      BY <1>2, <2>1, <2>2, <2>4, <2>6 DEF FormatTrue, Packs
    <2>8. QED
      BY <2>1, <2>4, <2>7
  <1>7. ASSUME NEW k \in 1 .. n
        PROVE  OwnRegion(reqs[k].dest)
    <2>1. PICK r : r = reqs[k]
      OBVIOUS
    <2>2. PICK t : t = op.pack.t[r.name]
      OBVIOUS
    <2>3. PICK g : g = held[r.dest]
      OBVIOUS
    <2>4. /\ r.name \in DOMAIN op.pack.t
          /\ \/ /\ g.where \in {"run", "rows"} /\ g.fmt = t.dtype /\ g.at = t.off
                /\ g.len \in Nat /\ g.len <= t.nbytes
             \/ /\ g.where \in {"widen", "arena"} /\ g.fmt = "F32"
                /\ g.at \in Nat /\ g.at % 8 = 0 /\ g.len \in Nat /\ g.at + g.len <= w
      BY <1>2, <2>1, <2>2, <2>3 DEF PackGiven, PackGives, Source
    <2>5. /\ t.off \in Nat /\ t.nbytes \in Nat /\ t.off + t.nbytes <= op.pack.nbytes
          /\ op.pack.nbytes \in Int
          /\ t.dtype = "F32" => t.off % 4 = 0
          /\ t.dtype = "BF16" => t.off % 2 = 0
      BY <1>1, <1>2, <1>3, <2>1, <2>2, <2>4, PackAsked DEF ManifestOk
    <2>6. /\ g.at >= 0 /\ g.at + g.len <= Area(g.where)
          /\ g.fmt = "F32" => g.at % 4 = 0
          /\ g.fmt = "BF16" => g.at % 2 = 0
      BY <2>4, <2>5 DEF Area
    <2>7. ASSUME g.where \in Written, NEW o \in DOMAIN held \ {r.dest}
          PROVE  Apart(g, held[o])
      <3>1. PICK j \in 1 .. n : o = reqs[j].dest
        BY <1>3 DEF GivesTo
      <3>2. j # k
        BY <2>1, <2>7, <3>1
      <3>3. CASE j < k
        BY <1>2, <2>1, <2>3, <2>7, <3>1, <3>3 DEF Apart, PackGiven
      <3>4. CASE k < j
        BY <1>2, <2>1, <2>3, <2>7, <3>1, <3>4 DEF Apart, PackGiven
      <3>5. QED
        BY <3>2, <3>3, <3>4
    <2>8. QED
      BY <2>1, <2>3, <2>6, <2>7 DEF OwnRegion
  <1>8. QED
    BY <1>1, <1>4, <1>6, <1>7, ListedRequest

-----------------------------------------------------------------------------
(* What holds of a set if it holds of it with any one element taken away   *)
(* holds of every finite set.                                              *)
LEMMA Shrinks ==
  ASSUME NEW D, IsFiniteSet(D), NEW G, {} \in G,
         \A s \in SUBSET D : s # {} /\ (\A x \in s : s \ {x} \in G) => s \in G
  PROVE  \A s \in SUBSET D : s \in G
  <1>1. PICK N \in Nat : N = Cardinality(D)
    BY FS_CardinalityType
  <1> DEFINE H == {n \in 0 .. N : \A s \in SUBSET D : Cardinality(s) <= n => s \in G}
  <1>2. ASSUME NEW s \in SUBSET D
        PROVE  IsFiniteSet(s) /\ Cardinality(s) \in Nat /\ Cardinality(s) <= N
    <2>1. IsFiniteSet(s) /\ Cardinality(s) <= N
      BY <1>1, FS_Subset
    <2>2. QED
      BY <2>1, FS_CardinalityType
  <1>3. 0 \in H
    <2>1. \A s \in SUBSET D : Cardinality(s) = 0 => s = {}
      BY <1>2, FS_EmptySet
    <2>2. \A s \in SUBSET D : Cardinality(s) <= 0 => Cardinality(s) = 0
      BY <1>2
    <2>3. \A s \in SUBSET D : Cardinality(s) <= 0 => s \in G
      BY <2>1, <2>2
    <2>4. 0 \in 0 .. N
      BY <1>1
    <2>5. QED
      BY <2>3, <2>4
  <1>4. ASSUME NEW n \in 0 .. N - 1, n \in H
        PROVE  n + 1 \in H
    <2>1. ASSUME NEW s \in SUBSET D, Cardinality(s) <= n + 1, s # {}
          PROVE  s \in G
      <3>1. ASSUME NEW x \in s
            PROVE  s \ {x} \in G
        <4>1. Cardinality(s \ {x}) = Cardinality(s) - 1
          BY <1>2, FS_RemoveElement
        <4>2. Cardinality(s \ {x}) <= n /\ s \ {x} \in SUBSET D
          BY <1>1, <1>2, <2>1, <4>1
        <4>3. QED
          BY <1>4, <4>2
      <3>2. QED
        BY <2>1, <3>1
    <2>2. n + 1 \in 0 .. N
      BY <1>1
    <2>3. QED
      BY <2>1, <2>2
  <1>5. N \in H
    <2> HIDE DEF H
    <2>1. QED
      BY <1>1, <1>3, <1>4, Upwards
  <1>6. QED
    BY <1>2, <1>5

(* In whatever order.                                                      *)
Summed(f, g) == Adds(f, g) /\ \A s \in SUBSET DOMAIN f : g[s] \in Int
Orderless(f, g) == \A s \in SUBSET DOMAIN f : \A x \in s : g[s] = f[x] + g[s \ {x}]

LEMMA AnyOrder ==
  ASSUME NEW f, IsFiniteSet(DOMAIN f), \A i \in DOMAIN f : f[i] \in Int,
         NEW g, Summed(f, g)
  PROVE  Orderless(f, g)
  <1>0. Adds(f, g) /\ \A s \in SUBSET DOMAIN f : g[s] \in Int
    BY DEF Summed
  <1>1. PICK D : D = DOMAIN f
    OBVIOUS
  <1> DEFINE G == {s \in SUBSET D : \A x \in s : g[s] = f[x] + g[s \ {x}]}
  <1>2. {} \in G
    OBVIOUS
  <1>3. ASSUME NEW s \in SUBSET D, s # {}, \A x \in s : s \ {x} \in G
        PROVE  s \in G
    <2>1. PICK c \in s : c = Chosen(s)
      BY <1>3 DEF Chosen
    <2>2. g[s] = f[c] + g[s \ {c}]
      BY <1>0, <1>1, <1>3, <2>1 DEF Adds
    <2>3. ASSUME NEW x \in s, x # c
          PROVE  g[s] = f[x] + g[s \ {x}]
      <3>1. PICK u : u = s \ {c, x}
        OBVIOUS
      <3>2. g[s \ {c}] = f[x] + g[u]
        <4>1. x \in s \ {c} /\ (s \ {c}) \ {x} = u /\ s \ {c} \in G
          BY <1>3, <2>3, <3>1
        <4>2. QED
          BY <4>1
      <3>3. g[s \ {x}] = f[c] + g[u]
        <4>1. c \in s \ {x} /\ (s \ {x}) \ {c} = u /\ s \ {x} \in G
          BY <1>3, <2>3, <3>1
        <4>2. QED
          BY <4>1
      <3>4. u \in SUBSET D /\ x \in D /\ c \in D
        BY <3>1
      <3>5. f[x] \in Int /\ f[c] \in Int /\ g[u] \in Int
        BY <1>0, <1>1, <3>4
      <3>6. PICK a, b, d \in Int : a = f[x] /\ b = f[c] /\ d = g[u]
        BY <3>5
      <3>7. QED
        BY <2>2, <3>2, <3>3, <3>6
    <2>4. \A x \in s : g[s] = f[x] + g[s \ {x}]
      BY <2>2, <2>3
    <2>5. QED
      BY <2>4
  <1> HIDE DEF G
  <1>4. \A s \in SUBSET D : s \in G
    BY <1>1, <1>2, <1>3, Shrinks
  <1>5. QED
    BY <1>1, <1>4 DEF G, Orderless

LEMMA SumAdds ==
  ASSUME NEW f, IsFiniteSet(DOMAIN f), \A i \in DOMAIN f : f[i] \in Int,
         NEW x \in DOMAIN f, NEW h, h = [i \in DOMAIN f \ {x} |-> f[i]]
  PROVE  SumFunction(f) = f[x] + SumFunction(h) /\ SumFunction(h) \in Int
  <1>1. PICK D, E : D = DOMAIN f /\ E = D \ {x}
    OBVIOUS
  <1>2. /\ DOMAIN h = E /\ E \subseteq D /\ IsFiniteSet(E) /\ (\A i \in E : h[i] = f[i])
        /\ \A i \in E : h[i] \in Int
    <2>1. IsFiniteSet(E)
      BY <1>1, FS_Subset
    <2>2. QED
      BY <1>1, <2>1
  <1>3. PICK g : Adds(f, g) /\ SumFunction(f) = g[D] /\ \A s \in SUBSET D : g[s] \in Int
    BY <1>1, SumIterates
  <1>4. PICK k : Adds(h, k) /\ SumFunction(h) = k[E] /\ \A s \in SUBSET E : k[s] \in Int
    BY <1>2, SumIterates
  <1> DEFINE G == {s \in SUBSET E : k[s] = g[s]}
  <1>5. {} \in G
    <2>1. k[{}] = 0 /\ g[{}] = 0
      BY <1>3, <1>4 DEF Adds
    <2>2. QED
      BY <2>1
  <1>6. ASSUME NEW s \in SUBSET E, s # {}, \A z \in s : s \ {z} \in G
        PROVE  s \in G
    <2>1. PICK c \in s : c = Chosen(s)
      BY <1>6 DEF Chosen
    <2>2. g[s] = f[c] + g[s \ {c}]
      BY <1>1, <1>2, <1>3, <1>6, <2>1 DEF Adds
    <2>3. k[s] = h[c] + k[s \ {c}]
      BY <1>2, <1>4, <1>6, <2>1 DEF Adds
    <2>4. h[c] = f[c] /\ k[s \ {c}] = g[s \ {c}]
      BY <1>2, <1>6
    <2>5. QED
      BY <2>2, <2>3, <2>4
  <1> HIDE DEF G
  <1>7. \A s \in SUBSET E : s \in G
    BY <1>2, <1>5, <1>6, Shrinks
  <1>8. k[E] = g[E]
    BY <1>7 DEF G
  <1>9. g[D] = f[x] + g[E]
    <2>1. Summed(f, g)
      BY <1>1, <1>3 DEF Summed
    <2>2. Orderless(f, g)
      BY <2>1, AnyOrder
    <2>3. QED
      BY <1>1, <2>2 DEF Orderless
  <1>10. QED
    BY <1>1, <1>2, <1>3, <1>4, <1>8, <1>9

LEMMA SumOfNone ==
  ASSUME NEW f, DOMAIN f = {}
  PROVE  SumFunction(f) = 0
  <1>1. IsFiniteSet(DOMAIN f)
    BY FS_EmptySet
  <1>2. PICK g : Adds(f, g) /\ SumFunction(f) = g[DOMAIN f]
    BY <1>1, SumIterates
  <1>3. QED
    BY <1>2 DEF Adds

-----------------------------------------------------------------------------
(* Streamed rows: a chunk is of one row, or of as many as fit, and the     *)
(* last one of those left.                                                 *)
LEMMA StreamNumbers ==
  ASSUME NEW t, Streamable(t), RowsPerChunk(t) >= 1
  PROVE  /\ t # Missing /\ Esz(t.dtype) \in {2, 4}
         /\ Cfg.hidden \in Nat \ {0} /\ Cfg.vocab \in Nat \ {0}
         /\ Cfg.hidden * Esz(t.dtype) \in Nat \ {0} /\ RowsPerChunk(t) \in Nat \ {0}
  <1>1. t # Missing /\ Esz(t.dtype) \in {2, 4}
    <2>1. t # Missing /\ t.dtype \in {"BF16", "F32"}
      BY Zenon DEF Streamable
    <2>2. \A y \in {"BF16", "F32"} : Esz(y) \in {2, 4}
      BY DEF Esz
    <2>3. QED
      BY <2>1, <2>2
  <1>2. Cfg.hidden \in Nat \ {0} /\ Cfg.vocab \in Nat \ {0} /\ StreamChunk \in Nat
    <2>1. Cfg.hidden \in Nat /\ Cfg.vocab \in Nat
      BY CountsTyped DEF Hidden
    <2>2. Cfg.hidden > 0 /\ Cfg.vocab > 0
      BY CfgAssumption DEF CfgLoads
    <2>3. StreamChunk \in Nat
      BY CallsAssumption
    <2>4. QED
      BY <2>1, <2>2, <2>3
  <1>3. PICK row : row = Cfg.hidden * Esz(t.dtype)
    OBVIOUS
  <1>4. row \in Nat \ {0}
    BY <1>1, <1>2, <1>3
  <1>5. RowsPerChunk(t) \in Int
    <2>1. RowsPerChunk(t) = StreamChunk \div row
      BY <1>3 DEF RowsPerChunk
    <2>2. QED
      BY <1>2, <1>4, <2>1
  <1>6. QED
    BY <1>1, <1>2, <1>3, <1>4, <1>5

ChunkFits(c, n, per, v) ==
  LET at == (c - 1) * per
      m == Min({per, v - at}) IN
  /\ at \in Nat /\ m \in Nat \ {0}
  /\ c < n => m = per /\ c * per = at + m
  /\ c = n => v = at + m

LEMMA ChunkNumbers ==
  ASSUME NEW per \in Nat \ {0}, NEW v \in Nat \ {0}, NEW c \in 1 .. (v + per - 1) \div per
  PROVE  ChunkFits(c, (v + per - 1) \div per, per, v)
  <1>0. PICK n : n = (v + per - 1) \div per
    OBVIOUS
  <1>1. n \in Nat /\ (n = 0 <=> v = 0)
    BY <1>0, Ceiling
  <1>2. \A i \in Int : i < n => i * per \in Int /\ i * per < v
    BY <1>0, Ceiling
  <1>3. n * per \in Nat /\ v <= n * per
    BY <1>0, Ceiling
  <1> DEFINE at == (c - 1) * per
             m == Min({per, v - at})
  <1>4. PICK d \in Nat : d = c - 1 /\ c = d + 1
    BY <1>0, <1>1
  <1>5. d * per \in Int /\ d * per < v /\ c * per = d * per + per
    BY <1>1, <1>2, <1>4, Distribute
  <1>6. d * per \in Nat
    BY <1>4
  <1>7. PICK x \in Nat : x = d * per /\ at = x
    BY <1>4, <1>6
  <1>8. PICK rest \in Nat : rest = v - at /\ rest > 0
    BY <1>5, <1>7
  <1>9. /\ m \in Nat /\ (per <= rest => m = per) /\ (rest <= per => m = rest)
    BY <1>8, LesserNat
  <1>10. c < n => per <= rest
    <2>1. c < n => c * per < v
      BY <1>1, <1>2
    <2>2. QED
      BY <1>5, <1>7, <1>8, <2>1
  <1>11. c = n => rest <= per
    BY <1>3, <1>5, <1>7, <1>8
  <1> HIDE DEF at, m
  <1>12. /\ at \in Nat /\ m \in Nat \ {0}
         /\ c < n => m = per /\ c * per = at + m
         /\ c = n => v = at + m
    BY <1>1, <1>5, <1>7, <1>8, <1>9, <1>10, <1>11
  <1>13. QED
    BY <1>0, <1>12 DEF ChunkFits, at, m

LEMMA ChunksAre ==
  ASSUME Streams, Streamable(Streamed), PerChunk >= 1, op.kind = "embed_row" => op.row \in Nat
  PROVE  /\ Chunks \in Nat \ {0} /\ Upto(0) = 0
         /\ \A c \in 1 .. Chunks :
              /\ First(c) \in Nat /\ Count(c) \in Nat \ {0} /\ Upto(c - 1) \in Nat
              /\ Upto(c) = Upto(c - 1) + Count(c)
              /\ \A b \in 1 .. c - 1 : First(b) # First(c)
  <1>1. CASE op.kind = "embed_row"
    BY <1>1 DEF Chunks, Upto, First, Count
  <1>2. CASE op.kind # "embed_row"
    <2>1. PICK per, v \in Nat \ {0} : per = PerChunk /\ v = Cfg.vocab
      BY StreamNumbers DEF PerChunk
    <2>2. PICK n : n = (v + per - 1) \div per
      OBVIOUS
    <2>3. Chunks = n /\ n \in Nat \ {0}
      <3>1. Chunks = n
        BY <1>2, <2>1, <2>2 DEF Chunks, PerChunk
      <3>2. IsCeiling(n, v, per)
        BY <2>2 DEF IsCeiling
      <3>3. Covers(n, v, per) /\ NoneOfNone(n, v)
        BY <2>1, <3>2, CeilingIs
      <3>4. n \in Nat /\ n # 0
        BY <2>1, <3>3 DEF Covers, NoneOfNone
      <3>5. QED
        BY <3>1, <3>4
    <2>4. Upto(0) = 0
      <3>1. 0 * per = 0
        OBVIOUS
      <3>2. QED
        BY <1>2, <2>1, <2>3, <3>1 DEF Upto
    <2>5. ASSUME NEW c \in 1 .. n
          PROVE  /\ First(c) = (c - 1) * per /\ First(c) \in Nat /\ Count(c) \in Nat \ {0}
                 /\ Upto(c - 1) = First(c) /\ Upto(c) = Upto(c - 1) + Count(c)
      <3>1. PICK at : at = (c - 1) * per
        OBVIOUS
      <3>2. PICK m : m = Min({per, v - at})
        OBVIOUS
      <3>3. First(c) = at /\ Count(c) = m
        BY <1>2, <2>1, <3>1, <3>2 DEF First, Count, PerChunk
      <3>4. /\ at \in Nat /\ m \in Nat \ {0}
            /\ c < n => m = per /\ c * per = at + m
            /\ c = n => v = at + m
        <4>1. c \in 1 .. (v + per - 1) \div per
          BY <2>2
        <4>2. ChunkFits(c, (v + per - 1) \div per, per, v)
          BY <4>1, ChunkNumbers
        <4>3. QED
          BY <2>2, <3>1, <3>2, <4>2 DEF ChunkFits
      <3>5. Upto(c - 1) = at
        <4>1. c - 1 # n
          BY <2>3
        <4>2. QED
          BY <1>2, <2>1, <2>3, <3>1, <4>1 DEF Upto
      <3>6. Upto(c) = at + m
        BY <1>2, <2>1, <2>3, <3>4 DEF Upto
      <3>7. QED
        BY <3>1, <3>3, <3>4, <3>5, <3>6
    <2>6. ASSUME NEW c \in 1 .. n, NEW b \in 1 .. c - 1
          PROVE  First(b) # First(c)
      <3>1. PICK p, q \in Int : p = b - 1 /\ q = c - 1 /\ p < q /\ b \in 1 .. n
        BY <2>3
      <3>2. p * per \in Int /\ q * per \in Int /\ p * per + per <= q * per
        BY <3>1, Multiples
      <3>3. First(b) = p * per /\ First(c) = q * per
        BY <2>5, <3>1
      <3>4. QED
        BY <3>2, <3>3
    <2>7. QED
      BY <2>3, <2>4, <2>5, <2>6
  <1>3. QED
    BY <1>1, <1>2

(* What RowsGiven says of rows h.                                          *)
RowsIn(h, m) ==
  /\ Streamable(Streamed) /\ PerChunk >= 1
  /\ DOMAIN h = {<<"row", First(c)>> : c \in 1 .. m} /\ IsFiniteSet(DOMAIN h)
  /\ \A c \in 1 .. m :
       LET g == h[<<"row", First(c)>>] IN
       /\ g.len \in Nat /\ g.bytes = Bytes(Streamed.off + First(c) * Row, g.len)
       /\ g.at % Esz(Streamed.dtype) = 0
  /\ SumFunction([d \in DOMAIN h |-> h[d].len \div Row]) = Upto(m)

LEMMA SameStream ==
  ASSUME op' = op, \A name : Find(name)' = Find(name)
  PROVE  /\ (Streams' <=> Streams) /\ Streamed' = Streamed /\ Row' = Row /\ PerChunk' = PerChunk
         /\ Chunks' = Chunks
         /\ \A c : First(c)' = First(c) /\ Count(c)' = Count(c) /\ Upto(c)' = Upto(c)
  <1>1. StreamName' = StreamName /\ (Streams' <=> Streams)
    BY DEF StreamName, Streams
  <1>2. Streamed' = Streamed
    BY <1>1 DEF Streamed
  <1>3. Row' = Row /\ PerChunk' = PerChunk
    BY <1>2 DEF Row, PerChunk
  <1>4. Chunks' = Chunks
    BY <1>3 DEF Chunks
  <1>5. QED
    BY <1>1, <1>2, <1>3, <1>4 DEF First, Count, Upto

LEMMA SameRows ==
  ASSUME op' = op, \A name : Find(name)' = Find(name), NEW h, held' = h, NEW m, RowsIn(h, m)
  PROVE  RowsGiven(m)'
  <1>1. /\ Streamed' = Streamed /\ Row' = Row /\ PerChunk' = PerChunk
        /\ \A c : First(c)' = First(c) /\ Upto(c)' = Upto(c)
    BY SameStream
  <1>2. Streamable(Streamed)' /\ PerChunk' >= 1
    BY <1>1 DEF RowsIn, Streamable
  <1>3. DOMAIN held' = {<<"row", First(c)'>> : c \in 1 .. m} /\ IsFiniteSet(DOMAIN held')
    BY <1>1 DEF RowsIn
  <1>4. ASSUME NEW c \in 1 .. m
        PROVE  LET g == held'[<<"row", First(c)'>>] IN
               /\ g.len \in Nat /\ g.bytes = Bytes(Streamed'.off + First(c)' * Row', g.len)
               /\ g.at % Esz(Streamed'.dtype) = 0
    BY <1>1 DEF RowsIn
  <1>5. SumFunction([d \in DOMAIN held' |-> held'[d].len \div Row']) = Upto(m)'
    BY <1>1 DEF RowsIn
  <1>6. QED
    BY <1>2, <1>3, <1>4, <1>5 DEF RowsGiven

LEMMA StreamedIs ==
  ASSUME BindInv, AtWork, Streams, Streamable(Streamed), PerChunk >= 1
  PROVE  /\ op.kind = "embed_row" => op.row \in Nat
         /\ Hash[StreamName] \in Nat /\ Streamed # Missing
         /\ Streamed.off \in Int /\ Esz(Streamed.dtype) \in {2, 4} /\ Row \in Nat \ {0}
         /\ Chunks \in Nat \ {0} /\ Upto(0) = 0
         /\ \A c \in 1 .. Chunks :
              /\ First(c) \in Nat /\ Count(c) \in Nat \ {0} /\ Upto(c - 1) \in Nat
              /\ Upto(c) = Upto(c - 1) + Count(c)
              /\ \A b \in 1 .. c - 1 : First(b) # First(c)
  <1>1. op.kind = "embed_row" => op.row \in Nat
    <2>1. PICK c \in Calls : op = c.op /\ OpType(c)
      BY InputTyped DEF BindInv, StoreHolds
    <2>2. QED
      BY <2>1 DEF OpType
  <1>2. Hash[StreamName] \in Nat
    BY CallsAssumption DEF StreamName
  <1>3. /\ Streamed # Missing /\ Esz(Streamed.dtype) \in {2, 4}
        /\ Cfg.hidden * Esz(Streamed.dtype) \in Nat \ {0}
    BY StreamNumbers DEF PerChunk
  <1>4. Streamed.off \in Int
    BY <1>2, <1>3, Found DEF Streamed, BindInv
  <1>5. QED
    BY <1>1, <1>2, <1>3, <1>4, ChunksAre DEF Row

LEMMA StreamsTo ==
  ASSUME op' = op, \A name : Find(name)' = Find(name), rc' = Pending, Streams,
         NEW h, held' = h, NEW js, jobs' = js, NEW n, n = Len(js),
         NEW m, m = Chunks - n, m \in 0 .. Chunks - 1, RowsIn(h, m),
         \A i \in 1 .. n : js[i] = RowJob(Streamed, First(m + i), Count(m + i))
  PROVE  StreamHolds'
  <1>1. /\ Streamed' = Streamed /\ Chunks' = Chunks
        /\ \A c : First(c)' = First(c) /\ Count(c)' = Count(c)
    BY SameStream
  <1>2. RowsGiven(m)'
    BY SameRows
  <1>3. m = (Chunks - Len(jobs))'
    BY <1>1
  <1>4. \A i \in 1 .. Len(jobs)' : jobs'[i] = RowJob(Streamed', First(m + i)', Count(m + i)')
    BY <1>1
  <1>5. m \in 0 .. Chunks' - 1
    BY <1>1
  <1>6. QED
    BY <1>2, <1>3, <1>4, <1>5 DEF StreamHolds, Pending

(* The reads a stream begins with are its chunks, in order.                *)
LEMMA StreamJobs ==
  ASSUME Chunks \in Nat \ {0}, NEW js,
         js = IF op.kind = "embed_row" THEN <<RowJob(Streamed, op.row, 1)>> ELSE ProjectJobs(Streamed)
  PROVE  Len(js) = Chunks /\ \A i \in 1 .. Chunks : js[i] = RowJob(Streamed, First(i), Count(i))
  <1>1. CASE op.kind = "embed_row"
    BY <1>1 DEF Chunks, First, Count
  <1>2. CASE op.kind # "embed_row"
    <2>1. PICK c \in Nat : c = Chunks
      OBVIOUS
    <2>2. js = [i \in 1 .. c |-> RowJob(Streamed, First(i), Count(i))]
      BY <1>2, <2>1 DEF ProjectJobs, Chunks, First, Count, PerChunk
    <2>3. Len(js) = c
      <3>1. PICK S : S = {js[i] : i \in 1 .. c}
        OBVIOUS
      <3>2. js \in [1 .. c -> S]
        BY <2>2, <3>1
      <3>3. QED
        BY <3>2, LenOf
    <2>4. QED
      BY <2>1, <2>2, <2>3
  <1>3. QED
    BY <1>1, <1>2

(* Before the first chunk there is no row.                                 *)
LEMMA StreamBegins ==
  ASSUME BindInv, PathHolds, Streams, Prepare, \A name : Find(name)' = Find(name)
  PROVE  StreamHolds'
  <1>1. /\ op' = op /\ pc = "prepare" /\ AtWork /\ held' = <<>> /\ rc' = Pending
        /\ Streamable(Streamed) /\ PerChunk >= 1
        /\ IF op.kind = "embed_row" THEN jobs' = <<RowJob(Streamed, op.row, 1)>>
           ELSE jobs' = ProjectJobs(Streamed)
    <2>1. /\ op' = op /\ pc = "prepare" /\ held' = held /\ rc' = rc /\ Prepared
          /\ op.kind \in {"embed_row", "project"}
      BY DEF Prepare, storeVars, input, outVars, Streams
    <2>2. held = <<>> /\ rc = Pending /\ AtWork
      BY <2>1 DEF PathHolds, BindInv, CountersHold, AtWork
    <2>3. Streamable(Find("embed_tokens")) /\ Streamable(Find("lm_head")) /\ RowsPerChunk(Streamed) >= 1
      BY <2>1 DEF Prepared, Streamed
    <2>4. Streamable(Streamed)
      BY <2>3 DEF Streamed, StreamName
    <2>5. QED
      BY <2>1, <2>2, <2>3, <2>4 DEF Prepare, Streamed, PerChunk
  <1>2. PICK h : h = <<>>
    OBVIOUS
  <1>3. Chunks \in Nat \ {0} /\ Upto(0) = 0
    BY <1>1, StreamedIs
  <1>4. RowsIn(h, 0)
    <2>1. DOMAIN h = {} /\ 1 .. 0 = {}
      BY <1>2
    <2>2. PICK f : f = [d \in DOMAIN h |-> h[d].len \div Row]
      OBVIOUS
    <2>3. SumFunction(f) = 0
      BY <2>1, <2>2, SumOfNone
    <2>4. IsFiniteSet(DOMAIN h)
      BY <2>1, FS_EmptySet
    <2>5. QED
      BY <1>1, <1>3, <2>1, <2>2, <2>3, <2>4 DEF RowsIn
  <1>5. PICK js : js = jobs'
    OBVIOUS
  <1>6. Len(js) = Chunks /\ \A i \in 1 .. Chunks : js[i] = RowJob(Streamed, First(i), Count(i))
    BY <1>1, <1>3, <1>5, StreamJobs
  <1>7. PICK m, n : m = 0 /\ n = Chunks
    OBVIOUS
  <1>8. \A i \in 1 .. n : js[i] = RowJob(Streamed, First(m + i), Count(m + i))
    BY <1>3, <1>6, <1>7
  <1>9. n = Len(js) /\ m = Chunks - n /\ m \in 0 .. Chunks - 1 /\ RowsIn(h, m)
    BY <1>3, <1>4, <1>6, <1>7
  <1>10. QED
    BY <1>1, <1>2, <1>5, <1>8, <1>9, StreamsTo

(* A chunk that came whole is the next rows.                               *)
LEMMA RowsCome ==
  ASSUME BindInv, PathHolds, Streams, StreamedRows, NEW m, m = Chunks - Len(jobs),
         m \in 0 .. Chunks - 1, RowsIn(held, m), jobs[1] = RowJob(Streamed, First(m + 1), Count(m + 1)),
         NEW h, held' = h
  PROVE  RowsIn(h, m + 1)
  <1>1. /\ AtWork /\ Served(rd) /\ Whole /\ jobs # <<>> /\ IsSeq(jobs)
        /\ rd.off = Head(jobs).off /\ rd.n = Head(jobs).n
    BY DEF StreamedRows, AtWork, Done, Idle, BindInv, JobsHold, PathHolds
  <1>2. PICK t, row : t = Streamed /\ row = Row
    OBVIOUS
  <1>3. Streamable(t) /\ PerChunk >= 1
    BY <1>2 DEF RowsIn
  <1>4. PICK c : c = m + 1
    OBVIOUS
  <1>5. /\ Chunks \in Nat \ {0} /\ c \in 1 .. Chunks
        /\ t.off \in Int /\ Esz(t.dtype) \in {2, 4} /\ row \in Nat \ {0}
    BY <1>1, <1>2, <1>3, <1>4, StreamedIs
  <1>6. PICK first \in Nat, n \in Nat \ {0}, to \in Nat :
          /\ first = First(c) /\ n = Count(c) /\ to = Upto(m)
          /\ Upto(c) = to + n /\ \A b \in 1 .. m : First(b) # first
    <2>1. m = c - 1
      BY <1>4, <1>5
    <2>2. QED
      BY <1>1, <1>2, <1>3, <1>5, <2>1, StreamedIs
  <1>7. PICK skip, len \in Nat : skip = first * row /\ len = n * row
    <2>1. row \in Nat /\ n \in Nat
      BY <1>5
    <2>2. first * row \in Nat /\ n * row \in Nat
      BY <2>1
    <2>3. QED
      BY <2>2
  <1>8. rd.off = t.off + skip /\ rd.n = len
    <2>1. Head(jobs) = RowJob(t, first, n)
      BY <1>1, <1>2, <1>4, <1>6, SeqEnds
    <2>2. QED
      BY <1>1, <1>2, <1>7, <2>1 DEF RowJob, Job, Row
  <1>9. skip \div row = first /\ len \div row = n
    <2>1. PICK z \in 0 .. row - 1 : z = 0
      BY <1>5
    <2>2. \A q \in Int : (q * row + z) \div row = q
      <3>1. PICK b \in Nat \ {0} : b = row
        BY <1>5
      <3>2. z \in 0 .. b - 1
        BY <3>1
      <3>3. \A q \in Int : (q * b + z) \div b = q
        BY <3>2, DivModUnique
      <3>4. QED
        BY <3>1, <3>3
    <2>3. (first * row + z) \div row = first /\ (n * row + z) \div row = n
      BY <2>2
    <2>4. skip = first * row + z /\ len = n * row + z
      BY <1>7, <2>1
    <2>5. QED
      BY <2>2, <2>3, <2>4
  <1>10. PICK d : d = <<"row", first>>
    OBVIOUS
  <1>11. PICK g : g = Given("buf", Compacted(t, rd.pad), len, t.dtype, Delivered)
    OBVIOUS
  <1>12. h = Put(d, g)
    <2>1. (rd.off - t.off) \div row = first
      BY <1>5, <1>7, <1>8, <1>9
    <2>2. held' = Put(<<"row", (rd.off - t.off) \div row>>,
                      Given("buf", Compacted(t, rd.pad), rd.n, t.dtype, Delivered))
      BY <1>2 DEF StreamedRows, Streamed, Row
    <2>3. QED
      BY <1>8, <1>10, <1>11, <2>1, <2>2
  <1>13. /\ g.len = len /\ g.bytes = Bytes(t.off + skip, len) /\ g.at % Esz(t.dtype) = 0
    <2>1. Delivered = Bytes(rd.off, rd.n)
      BY <1>1, WholeRead
    <2>2. Compacted(t, rd.pad) % Esz(t.dtype) = 0
      BY <1>5 DEF Compacted
    <2>3. QED
      BY <1>8, <1>11, <2>1, <2>2 DEF Given
  <1>14. \A b \in 1 .. m : <<"row", First(b)>> # d
    BY <1>6, <1>10
  <1>15. /\ DOMAIN h = DOMAIN held \cup {d} /\ h[d] = g
         /\ \A x \in DOMAIN held : x # d => h[x] = held[x]
    BY <1>12 DEF Put
  <1>16. /\ DOMAIN held = {<<"row", First(b)>> : b \in 1 .. m} /\ IsFiniteSet(DOMAIN held)
         /\ d \notin DOMAIN held
    BY <1>14 DEF RowsIn
  <1>17. DOMAIN h = {<<"row", First(b)>> : b \in 1 .. c} /\ IsFiniteSet(DOMAIN h)
    <2>1. PICK D : D = DOMAIN held
      OBVIOUS
    <2>2. IsFiniteSet(D \cup {d})
      BY <1>16, <2>1, FS_AddElement
    <2>3. \A b : b \in 1 .. c <=> b \in 1 .. m \/ b = c
      BY <1>4, <1>5
    <2>4. <<"row", First(c)>> = d
      BY <1>6, <1>10
    <2>5. {<<"row", First(b)>> : b \in 1 .. c} = D \cup {d}
      BY <1>16, <2>1, <2>3, <2>4
    <2>6. QED
      BY <1>15, <2>1, <2>2, <2>5
  <1>18. ASSUME NEW b \in 1 .. c
         PROVE  LET y == h[<<"row", First(b)>>] IN
                /\ y.len \in Nat /\ y.bytes = Bytes(Streamed.off + First(b) * Row, y.len)
                /\ y.at % Esz(Streamed.dtype) = 0
    <2>1. CASE b = c
      BY <1>2, <1>6, <1>7, <1>10, <1>13, <1>15, <2>1
    <2>2. CASE b # c
      <3>1. b \in 1 .. m
        BY <1>4, <1>5, <2>2
      <3>2. h[<<"row", First(b)>>] = held[<<"row", First(b)>>]
        BY <1>14, <1>15, <1>16, <3>1
      <3>3. QED
        BY <3>1, <3>2 DEF RowsIn
    <2>3. QED
      BY <2>1, <2>2
  <1>19. SumFunction([x \in DOMAIN h |-> h[x].len \div Row]) = Upto(c)
    <2>1. PICK f : f = [x \in DOMAIN h |-> h[x].len \div row]
      OBVIOUS
    <2>2. PICK e : e = [x \in DOMAIN f \ {d} |-> f[x]]
      OBVIOUS
    <2>3. e = [x \in DOMAIN held |-> held[x].len \div row]
      BY <1>15, <1>16, <2>1, <2>2
    <2>4. SumFunction(e) = to
      BY <1>2, <1>6, <2>3 DEF RowsIn
    <2>5. d \in DOMAIN f /\ f[d] = n /\ IsFiniteSet(DOMAIN f)
      BY <1>9, <1>13, <1>15, <1>17, <2>1
    <2>6. \A x \in DOMAIN f : f[x] \in Int
      <3>1. ASSUME NEW x \in DOMAIN h
            PROVE  h[x].len \in Nat
        <4>1. PICK b \in 1 .. c : x = <<"row", First(b)>>
          BY <1>17
        <4>2. QED
          BY <1>18, <4>1
      <3>2. ASSUME NEW x \in DOMAIN h
            PROVE  h[x].len \div row \in Int
        <4>1. PICK l \in Nat : l = h[x].len
          BY <3>1
        <4>2. QED
          BY <1>5, <4>1, DivNat
      <3>3. QED
        BY <2>1, <3>2
    <2>7. SumFunction(f) = f[d] + SumFunction(e)
      BY <2>2, <2>5, <2>6, SumAdds
    <2>8. QED
      BY <1>2, <1>6, <2>1, <2>4, <2>5, <2>7
  <1>20. QED
    BY <1>2, <1>3, <1>4, <1>17, <1>18, <1>19 DEF RowsIn

LEMMA StreamStep ==
  ASSUME BindInv, PathHolds, StreamHolds, OtherSteps, \A name : Find(name)' = Find(name)
  PROVE  StreamHolds'
  <1>1. op' = op /\ dir' = dir /\ (Streams' <=> Streams) /\ PathOf /\ JobsHold
    BY OthersKeep DEF BindInv, Streams, PathHolds
  <1>2. PathOf' /\ (rc # Pending <=> pc = "done")
    BY PathStep DEF BindInv, CountersHold, PathHolds
  <1>3. CASE ~Streams
    <2>1. pc' # "stream"
      BY <1>1, <1>2, <1>3 DEF PathOf, Streams
    <2>2. QED
      BY <1>1, <1>3, <2>1 DEF StreamHolds
  <1>4. CASE Begin /\ Streams
    <2>1. pc' = "prepare" /\ rc' = Pending
      BY <1>2, <1>4 DEF Begin, Opened, Streams, outVars
    <2>2. QED
      BY <2>1 DEF StreamHolds, Pending
  <1>5. CASE Prepare /\ Streams
    BY <1>5, StreamBegins
  <1>6. CASE PrepareRefused \/ StreamFailed
    BY <1>6 DEF PrepareRefused, StreamFailed, Fail, Return, StreamHolds
  <1>7. CASE (StartJob \/ JobRound) /\ Streams
    <2>1. pc = "stream" /\ pc' = pc /\ jobs' = jobs /\ held' = held /\ rc' = Pending
      <3>1. pc \in {"load", "stream", "expert", "range"}
        BY <1>1, <1>7 DEF StartJob, JobRound, JobsHold, Round, FullRound, ShortRound, FailedRound,
             AtEnd, Reading, Idle
      <3>2. QED
        BY <1>1, <1>2, <1>7, <3>1 DEF StartJob, JobRound, PathOf, outVars, Streams, Binds
    <2>2. PICK h, js, n, m : h = held /\ js = jobs /\ n = Len(js) /\ m = Chunks - n
      OBVIOUS
    <2>3. /\ m \in 0 .. Chunks - 1 /\ RowsIn(h, m)
          /\ \A i \in 1 .. n : js[i] = RowJob(Streamed, First(m + i), Count(m + i))
      BY <2>1, <2>2 DEF StreamHolds, RowsGiven, RowsIn
    <2>4. QED
      BY <1>1, <1>7, <2>1, <2>2, <2>3, StreamsTo
  <1>8. CASE StreamedRows
    <2>1. /\ pc = "stream" /\ Streams /\ AtWork /\ jobs # <<>> /\ IsSeq(jobs)
          /\ jobs' = Tail(jobs)
      BY <1>1, <1>8 DEF StreamedRows, AtWork, Done, Idle, JobsHold, PathOf, Streams
    <2>2. PICK m : m = Chunks - Len(jobs)
      OBVIOUS
    <2>3. /\ m \in 0 .. Chunks - 1 /\ RowsIn(held, m)
          /\ \A i \in 1 .. Len(jobs) : jobs[i] = RowJob(Streamed, First(m + i), Count(m + i))
      BY <2>1, <2>2 DEF StreamHolds, RowsGiven, RowsIn
    <2>4. Streamable(Streamed) /\ PerChunk >= 1
      BY <2>3 DEF RowsIn
    <2>5. Chunks \in Nat \ {0} /\ Len(jobs) \in Nat \ {0}
      BY <2>1, <2>4, StreamedIs, SeqEnds
    <2>6. PICK h : h = held'
      OBVIOUS
    <2>7. RowsIn(h, m + 1)
      <3>1. jobs[1] = RowJob(Streamed, First(m + 1), Count(m + 1))
        BY <2>3, <2>5
      <3>2. QED
        BY <1>8, <2>1, <2>2, <2>3, <2>6, <3>1, RowsCome
    <2>8. CASE Len(jobs) = 1
      <3>1. m + 1 = Chunks /\ Chunks' = Chunks
        BY <1>1, <2>2, <2>5, <2>8, SameStream
      <3>2. PICK c : c = Chunks
        OBVIOUS
      <3>3. RowsGiven(c)'
        BY <1>1, <2>6, <2>7, <3>1, <3>2, SameRows
      <3>4. pc' = "done" /\ c = Chunks'
        BY <1>8, <2>8, <3>1, <3>2 DEF StreamedRows, Return
      <3>5. QED
        BY <3>3, <3>4 DEF StreamHolds
    <2>9. CASE Len(jobs) # 1
      <3>1. rc' = Pending
        BY <1>2, <1>8, <2>1, <2>9 DEF StreamedRows
      <3>2. PICK js, n, c : js = jobs' /\ n = Len(js) /\ c = m + 1
        OBVIOUS
      <3>3. n = Len(jobs) - 1 /\ \A i \in 1 .. n : js[i] = jobs[i + 1] /\ i + 1 \in 1 .. Len(jobs)
        BY <2>1, <3>2, SeqEnds
      <3>4. c = Chunks - n /\ c \in 0 .. Chunks - 1
        BY <2>2, <2>3, <2>5, <2>9, <3>2, <3>3
      <3>5. ASSUME NEW i \in 1 .. n
            PROVE  js[i] = RowJob(Streamed, First(c + i), Count(c + i))
        <4>1. m + (i + 1) = c + i
          BY <2>3, <3>2, <3>3
        <4>2. QED
          BY <2>3, <3>3, <4>1
      <3>6. RowsIn(h, c)
        BY <2>7, <3>2
      <3>7. op' = op /\ Streams /\ held' = h /\ jobs' = js /\ n = Len(js)
        BY <1>1, <2>1, <2>6, <3>2
      <3>8. QED
        BY <3>1, <3>4, <3>5, <3>6, <3>7, StreamsTo
    <2>10. QED
      BY <2>8, <2>9
  <1>9. QED
    BY <1>1, <1>3, <1>4, <1>5, <1>6, <1>7, <1>8, ByKind

LEMMA Regroup ==
  ASSUME NEW a \in Nat, NEW b \in Nat, NEW e \in {2, 4}
  PROVE  a * (b * e) = a * b * e
  <1>1. PICK p \in Nat : p = a * b
    OBVIOUS
  <1>2. a * (b * 2) = p * 2 /\ a * (b * 4) = p * 4
    BY <1>1
  <1>3. QED
    BY <1>1, <1>2

(* A stream that ended: its rows are those of the matrix, and all of them. *)
LEMMA StreamsGive ==
  ASSUME BindInv, StreamHolds, Streams, rc = 0
  PROVE  RowsTrue
  <1>1. AtWork
    BY DEF BindInv, CountersHold, AtWork, Pending
  <1>2. PICK m : m = Chunks
    OBVIOUS
  <1>3. RowsIn(held, m)
    BY <1>2 DEF StreamHolds, RowsGiven, RowsIn
  <1>4. PICK t, name : t = Streamed /\ name = StreamName /\ t = Find(name)
    BY DEF Streamed
  <1>5. Streamable(t) /\ PerChunk >= 1
    BY <1>3, <1>4 DEF RowsIn
  <1>6. /\ Hash[name] \in Nat /\ t # Missing /\ t.off \in Int
        /\ Esz(t.dtype) \in {2, 4} /\ m \in Nat \ {0}
        /\ \A c \in 1 .. m : First(c) \in Nat
    BY <1>1, <1>2, <1>4, <1>5, StreamedIs
  <1>7. Start0(name) = t.off /\ TruthOf(name)[2].dtype = t.dtype
    BY <1>1, <1>4, <1>6, FoundTrue DEF BindInv
  <1>8. PICK esz : esz = Esz(t.dtype)
    OBVIOUS
  <1>9. esz = Esz(TruthOf(StreamName)[2].dtype) /\ Start0(StreamName) = t.off
    BY <1>4, <1>7, <1>8
  <1>10. Cfg.hidden \in Nat
    BY CountsTyped DEF Hidden
  <1>11. ASSUME NEW d \in DOMAIN held
         PROVE  /\ held[d].bytes = Bytes(t.off + d[2] * Cfg.hidden * esz, held[d].len)
                /\ held[d].at % esz = 0
    <2>1. PICK c \in 1 .. m : d = <<"row", First(c)>>
      BY <1>3 DEF RowsIn
    <2>2. held[d].bytes = Bytes(t.off + First(c) * Row, held[d].len) /\ held[d].at % esz = 0
      BY <1>3, <1>4, <1>8, <2>1 DEF RowsIn
    <2>3. First(c) * Row = First(c) * Cfg.hidden * esz
      <3>1. Row = Cfg.hidden * esz
        BY <1>4, <1>8 DEF Row
      <3>2. First(c) \in Nat /\ esz \in {2, 4}
        BY <1>6, <1>8
      <3>3. QED
        BY <1>10, <3>1, <3>2, Regroup
    <2>4. d[2] = First(c)
      BY <2>1
    <2>5. QED
      BY <2>2, <2>3, <2>4
  <1>12. Upto(m) = IF op.kind = "embed_row" THEN 1 ELSE Cfg.vocab
    BY <1>2 DEF Upto, Chunks
  <1>13. SumFunction([d \in DOMAIN held |-> held[d].len \div (Cfg.hidden * esz)]) = Upto(m)
    BY <1>3, <1>4, <1>8 DEF RowsIn, Row
  <1>14. QED
    BY <1>9, <1>11, <1>12, <1>13 DEF RowsTrue

-----------------------------------------------------------------------------
(* The parts of an expert.                                                 *)
LEMMA SameParts ==
  ASSUME op' = op, \A name : Find(name)' = Find(name)
  PROVE  /\ \A k : Part(k)' = Part(k) /\ PartAt(k)' = PartAt(k)
         /\ (ExpertFits' <=> ExpertFits) /\ (Contiguous' <=> Contiguous)
         /\ Own' = Own /\ Lowest' = Lowest /\ ExpertJobs' = ExpertJobs
         /\ \A m : Parts(m)' = Parts(m)
  <1>1. \A k : Part(k)' = Part(k)
    BY DEF Part
  <1>2. Own' = Own /\ Lowest' = Lowest /\ Highest' = Highest
    BY <1>1 DEF Own, Lowest, Highest
  <1>3. Contiguous' <=> Contiguous
    BY <1>2 DEF Contiguous
  <1>4. \A k : PartAt(k)' = PartAt(k)
    BY <1>1, <1>2, <1>3 DEF PartAt
  <1>5. ExpertJobs' = ExpertJobs
    BY <1>1, <1>2, <1>3, <1>4 DEF ExpertJobs
  <1>6. ExpertFits' <=> ExpertFits
    BY <1>1 DEF ExpertFits
  <1>7. \A m : Parts(m)' = Parts(m)
    BY <1>1 DEF Parts
  <1>8. QED
    BY <1>1, <1>2, <1>3, <1>4, <1>5, <1>6, <1>7

LEMMA SixNames ==
  /\ \A k \in 1 .. 6 : Six[k] \in ToSet(Six)
  /\ \A d \in ToSet(Six) : \E k \in 1 .. 6 : d = Six[k]
  /\ \A j, k \in 1 .. 6 : Six[j] = Six[k] => j = k
  <1>1. Len(Six) = 6 /\ DOMAIN Six = 1 .. 6
    BY DEF Six
  <1>2. \A k \in 1 .. 6 : Six[k] = CASE k = 1 -> "w1p" [] k = 2 -> "w1s" [] k = 3 -> "w2p"
                                     [] k = 4 -> "w2s" [] k = 5 -> "w3p" [] k = 6 -> "w3s"
    BY DEF Six
  <1>3. QED
    BY <1>1, <1>2 DEF ToSet

LEMMA PartsTyped ==
  ASSUME BindInv, AtWork, op.kind = "expert", ExpertFits, NEW k \in 1 .. 6,
         NEW p, p = Part(k)
  PROVE  /\ p # Missing /\ p.off \in Int /\ p.nbytes \in Int
         /\ Start0(Six[k]) = p.off
         /\ PackerTrue => p.nbytes \in Nat
  <1>1. PICK name : name = Six[k]
    OBVIOUS
  <1>2. p = Find(name) /\ p # Missing /\ Hash[name] \in Nat
    BY <1>1, SixNames, CallsAssumption DEF Part, ExpertFits
  <1>3. p.shard \in DOMAIN dir.shard /\ p.off \in Int /\ p.nbytes \in Int
    BY <1>2, Found DEF BindInv
  <1>4. /\ Start0(name) = p.off
        /\ \E e \in ToSet(dir.shard[p.shard].tensor) : p.nbytes = e.o1 - e.o0
    BY <1>2, FoundTrue DEF BindInv
  <1>5. ASSUME PackerTrue
        PROVE  p.nbytes \in Nat
    <2>1. PICK e \in ToSet(dir.shard[p.shard].tensor) : p.nbytes = e.o1 - e.o0
      BY <1>4
    <2>2. e.o0 <= e.o1
      BY <1>3, <1>5 DEF PackerTrue
    <2>3. e.o0 \in Int /\ e.o1 \in Int
      <3>1. ShardType(dir.shard[p.shard])
        BY <1>3, InputTyped DEF BindInv, StoreHolds
      <3>2. QED
        BY <2>1, <3>1 DEF ShardType, HeaderType, ToSet
    <2>4. QED
      BY <2>1, <2>2, <2>3
  <1>6. QED
    BY <1>1, <1>2, <1>3, <1>4, <1>5

LEMMA PartsAdd ==
  ASSUME \A k \in 1 .. 6 : Part(k).nbytes \in Int
  PROVE  /\ Parts(0) = 0 /\ Parts(6) = Own
         /\ \A m \in 1 .. 6 : /\ Parts(m - 1) \in Int
                              /\ Parts(m) = Parts(m - 1) + Part(m).nbytes
  <1>1. Parts(0) = 0
    <2>1. PICK f : f = [j \in 1 .. 0 |-> Part(j).nbytes]
      OBVIOUS
    <2>2. DOMAIN f = {}
      BY <2>1
    <2>3. SumFunction(f) = 0
      BY <2>2, SumOfNone
    <2>4. QED
      BY <2>1, <2>3 DEF Parts
  <1>2. ASSUME NEW m \in 1 .. 6
        PROVE  Parts(m - 1) \in Int /\ Parts(m) = Parts(m - 1) + Part(m).nbytes
    <2>1. PICK f : f = [j \in 1 .. m |-> Part(j).nbytes]
      OBVIOUS
    <2>2. PICK h : h = [j \in DOMAIN f \ {m} |-> f[j]]
      OBVIOUS
    <2>3. h = [j \in 1 .. m - 1 |-> Part(j).nbytes]
      <3>1. DOMAIN f \ {m} = 1 .. m - 1
        BY <2>1
      <3>2. QED
        BY <2>1, <2>2, <3>1
    <2>4. IsFiniteSet(DOMAIN f)
      <3>1. PICK l, n \in Int : l = 1 /\ n = m
        OBVIOUS
      <3>2. IsFiniteSet(l .. n)
        BY FS_Interval
      <3>3. QED
        BY <2>1, <3>1, <3>2
    <2>5. m \in DOMAIN f /\ f[m] = Part(m).nbytes /\ \A j \in DOMAIN f : f[j] \in Int
      <3>1. DOMAIN f = 1 .. m /\ m \in DOMAIN f /\ f[m] = Part(m).nbytes
        BY <2>1
      <3>2. ASSUME NEW j \in DOMAIN f
            PROVE  f[j] \in Int
        <4>1. j \in 1 .. 6 /\ f[j] = Part(j).nbytes
          BY <2>1, <3>1, <3>2
        <4>2. QED
          BY <4>1
      <3>3. QED
        BY <3>1, <3>2
    <2>6. SumFunction(f) = f[m] + SumFunction(h) /\ SumFunction(h) \in Int
      BY <2>2, <2>4, <2>5, SumAdds
    <2>7. Parts(m) = SumFunction(f) /\ Parts(m - 1) = SumFunction(h)
      BY <2>1, <2>3 DEF Parts
    <2>8. QED
      BY <2>5, <2>6, <2>7
  <1>3. Parts(6) = Own
    BY DEF Parts, Own
  <1>4. QED
    BY <1>1, <1>2, <1>3

LEMMA SixBounds ==
  ASSUME \A k \in 1 .. 6 : Part(k).off \in Int /\ Part(k).nbytes \in Int
  PROVE  /\ Lowest \in Int /\ Highest \in Int
         /\ \A k \in 1 .. 6 : Lowest <= Part(k).off /\ Part(k).off + Part(k).nbytes <= Highest
  <1>1. Lowest \in Int /\ \A k \in 1 .. 6 : Lowest <= Part(k).off
    <2>1. PICK a : a = [k \in 1 .. 6 |-> Part(k).off]
      OBVIOUS
    <2>2. PICK m \in 1 .. 6 : \A k \in 1 .. 6 : a[m] <= a[k]
      BY <2>1, SixLeast
    <2>3. PICK S : S = {Part(k).off : k \in 1 .. 6}
      OBVIOUS
    <2>4. a[m] \in S /\ a[m] \in Int /\ \A y \in S : a[m] <= y
      BY <2>1, <2>2, <2>3
    <2>5. Min(S) \in S /\ \A y \in S : Min(S) <= y
      BY <2>4 DEF Min
    <2>6. QED
      BY <2>3, <2>5 DEF Lowest
  <1>2. Highest \in Int /\ \A k \in 1 .. 6 : Part(k).off + Part(k).nbytes <= Highest
    <2>1. PICK a : a = [k \in 1 .. 6 |-> 0 - (Part(k).off + Part(k).nbytes)]
      OBVIOUS
    <2>2. PICK m \in 1 .. 6 : \A k \in 1 .. 6 : a[m] <= a[k]
      BY <2>1, SixLeast
    <2>3. PICK S : S = {0} \cup {Part(k).off + Part(k).nbytes : k \in 1 .. 6}
      OBVIOUS
    <2>4. \E x \in S : \A y \in S : x >= y
      <3>1. PICK z \in Int : z = Part(m).off + Part(m).nbytes
        OBVIOUS
      <3>2. \A k \in 1 .. 6 : z >= Part(k).off + Part(k).nbytes
        BY <2>1, <2>2, <3>1
      <3>3. CASE z >= 0
        BY <2>3, <3>1, <3>2, <3>3
      <3>4. CASE z < 0
        BY <2>3, <3>1, <3>2, <3>4
      <3>5. QED
        BY <3>3, <3>4
    <2>5. Max(S) \in S /\ \A y \in S : Max(S) >= y
      BY <2>4 DEF Max
    <2>6. \A y \in S : y \in Int
      BY <2>3
    <2>7. QED
      BY <2>3, <2>5, <2>6 DEF Highest
  <1>3. QED
    BY <1>1, <1>2

(* What PartsHold says while the parts are read, of destinations h.        *)
GivenIn(h, k) == h[Six[k]].bytes = Bytes(Part(k).off, Part(k).nbytes)
Reads(h, js, got) ==
  LET m == 6 - Len(js) IN
  IF Contiguous THEN js = ExpertJobs /\ h = <<>> /\ got = 0
  ELSE /\ m \in 0 .. 5 /\ \A i \in 1 .. Len(js) : js[i] = ExpertJobs[m + i]
       /\ DOMAIN h = {Six[k] : k \in 1 .. m}
       /\ PackerTrue => /\ got \in Nat /\ got <= Parts(m)
                        /\ got = Parts(m) => \A k \in 1 .. m : GivenIn(h, k)

LEMMA PartsTo ==
  ASSUME op' = op, dir' = dir, \A name : Find(name)' = Find(name), rc' = Pending, ExpertFits,
         NEW h, held' = h, NEW js, jobs' = js, NEW got, total' = got, Reads(h, js, got)
  PROVE  PartsHold'
  <1>1. /\ \A k : Part(k)' = Part(k)
        /\ ExpertFits' /\ (Contiguous' <=> Contiguous) /\ ExpertJobs' = ExpertJobs
        /\ \A m : Parts(m)' = Parts(m)
    BY SameParts
  <1>2. PackerTrue' <=> PackerTrue
    BY SamePack
  <1>3. PICK m : m = 6 - Len(js)
    OBVIOUS
  <1>4. CASE Contiguous
    <2>1. js = ExpertJobs /\ h = <<>> /\ got = 0
      BY <1>4 DEF Reads
    <2>2. QED
      BY <1>1, <1>4, <2>1 DEF PartsHold, Pending
  <1>5. CASE ~Contiguous
    <2>1. /\ m \in 0 .. 5 /\ \A i \in 1 .. Len(js) : js[i] = ExpertJobs[m + i]
          /\ DOMAIN h = {Six[k] : k \in 1 .. m}
          /\ PackerTrue => /\ got \in Nat /\ got <= Parts(m)
                           /\ got = Parts(m) => \A k \in 1 .. m : GivenIn(h, k)
      BY <1>3, <1>5 DEF Reads
    <2>2. /\ \A i \in 1 .. Len(jobs)' : jobs'[i] = ExpertJobs'[m + i]
          /\ DOMAIN held' = {Six[k] : k \in 1 .. m}
          /\ m = (6 - Len(jobs))'
      BY <1>1, <1>3, <2>1
    <2>3. PackerTrue' => /\ total' \in Nat /\ total' <= Parts(m)'
                         /\ total' = Parts(m)' => \A k \in 1 .. m : PartGiven(k)'
      BY <1>1, <1>2, <2>1 DEF GivenIn, PartGiven
    <2>4. QED
      BY <1>1, <1>5, <2>1, <2>2, <2>3 DEF PartsHold, Pending
  <1>6. QED
    BY <1>4, <1>5

LEMMA PartsEnd ==
  ASSUME op' = op, dir' = dir, \A name : Find(name)' = Find(name), pc' = "done", ExpertFits,
         NEW h, held' = h,
         PackerTrue /\ rc' = 0 => \A k \in 1 .. 6 : GivenIn(h, k)
  PROVE  PartsHold'
  <1>1. (\A k : Part(k)' = Part(k)) /\ ExpertFits'
    BY SameParts
  <1>2. PackerTrue' <=> PackerTrue
    BY SamePack
  <1>3. QED
    BY <1>1, <1>2 DEF PartsHold, PartGiven, GivenIn

LEMMA PartsBegin ==
  ASSUME BindInv, PathHolds, op.kind = "expert", Prepare, dir' = dir,
         \A name : Find(name)' = Find(name)
  PROVE  PartsHold'
  <1>1. /\ op' = op /\ rc' = Pending /\ ExpertFits /\ held' = <<>> /\ total' = 0
        /\ jobs' = ExpertJobs /\ AtWork
    <2>1. /\ op' = op /\ pc = "prepare" /\ held' = held /\ rc' = rc /\ total' = total /\ Prepared
          /\ jobs' = ExpertJobs
      BY DEF Prepare, storeVars, input, outVars
    <2>2. held = <<>> /\ rc = Pending /\ AtWork /\ total = 0
      BY <2>1 DEF PathHolds, BindInv, CountersHold, AtWork
    <2>3. QED
      BY <2>1, <2>2 DEF Prepared
  <1>2. PICK h, js, got : h = <<>> /\ js = ExpertJobs /\ got = 0
    OBVIOUS
  <1>3. Reads(h, js, got)
    <2>1. CASE Contiguous
      BY <1>2, <2>1 DEF Reads
    <2>2. CASE ~Contiguous
      <3>1. PICK n \in Nat : n = 6
        OBVIOUS
      <3>2. js \in [1 .. n -> {js[k] : k \in 1 .. n}]
        BY <1>2, <2>2, <3>1 DEF ExpertJobs
      <3>3. Len(js) = 6
        BY <3>1, <3>2, LenOf
      <3>4. Parts(0) = 0
        BY <1>1, PartsTyped, PartsAdd
      <3>5. DOMAIN h = {} /\ 1 .. 0 = {}
        BY <1>2
      <3>6. \A i \in 1 .. 6 : js[i] = ExpertJobs[0 + i]
        BY <1>2
      <3>7. QED
        BY <1>2, <2>2, <3>3, <3>4, <3>5, <3>6 DEF Reads
    <2>3. QED
      BY <2>1, <2>2
  <1>4. QED
    BY <1>1, <1>2, <1>3, PartsTo

CutFrom(lo, own, a, n) == SubSeq(Bytes(lo, own), a + 1, a + n) = Bytes(lo + a, n)

LEMMA BytesCut ==
  ASSUME NEW lo \in Int, NEW own \in Nat, NEW a \in Nat, NEW n \in Nat, a + n <= own
  PROVE  CutFrom(lo, own, a, n)
  <1>1. PICK s : s = Bytes(lo, own)
    OBVIOUS
  <1>2. s \in [1 .. own -> Int]
    BY <1>1 DEF Bytes
  <1>3. s \in Seq(Int) /\ Len(s) = own
    BY <1>2, LenOf
  <1>4. SubSeq(s, a + 1, a + n) = [j \in 1 .. n |-> s[a + j]]
    BY <1>3
  <1>5. \A j \in 1 .. n : s[a + j] = lo + a + j - 1
    BY <1>1 DEF Bytes
  <1>6. QED
    BY <1>1, <1>4, <1>5 DEF CutFrom, Bytes

(* The six parts in one read.                                              *)
LEMMA OneRun ==
  ASSUME BindInv, PathHolds, op.kind = "expert", ExpertFits, Contiguous, jobs = ExpertJobs,
         total = 0, ExpertPart, PackerTrue, rc' = 0, NEW h, held' = h, NEW k \in 1 .. 6
  PROVE  GivenIn(h, k)
  <1>1. /\ AtWork /\ Served(rd) /\ jobs # <<>> /\ IsSeq(jobs)
        /\ rd.off = Head(jobs).off /\ rd.n = Head(jobs).n
    BY DEF ExpertPart, AtWork, Done, Idle, BindInv, JobsHold, PathHolds
  <1>2. \A j \in 1 .. 6 : Part(j).off \in Int /\ Part(j).nbytes \in Nat
    BY <1>1, PartsTyped
  <1>3. Own \in Int
    <2>1. Parts(6) = Parts(5) + Part(6).nbytes /\ Parts(5) \in Int /\ Parts(6) = Own
      BY <1>2, PartsAdd
    <2>2. QED
      BY <1>2, <2>1
  <1>4. PICK lo \in Int, own \in Int : lo = Lowest /\ own = Own
    BY <1>2, <1>3, SixBounds
  <1>5. Len(jobs) = 1 /\ rd.off = lo /\ rd.n = own
    <2>1. PICK j : j = Job(Part(1).shard, Lowest, Own, IF op.direct THEN "aligned" ELSE "st",
                           Own + (IF op.direct THEN 2 * Align ELSE 0), 0)
      OBVIOUS
    <2>2. jobs = <<j>> /\ j.off = lo /\ j.n = own
      BY <1>4, <2>1 DEF ExpertJobs, Job
    <2>3. QED
      BY <1>1, <2>2
  <1>6. Result(rd) = own
    <2>1. total + Result(rd) = Own
      BY <1>5 DEF ExpertPart, Return
    <2>2. Result(rd) \in Int
      BY <1>1, <1>4, <1>5, ServedResult
    <2>3. QED
      BY <1>4, <2>1, <2>2
  <1>7. Delivered = Bytes(lo, own)
    BY <1>1, <1>5, <1>6, WholeRead DEF Whole
  <1>8. PICK off \in Int, n \in Nat : off = Part(k).off /\ n = Part(k).nbytes
    BY <1>2
  <1>9. PICK a \in Nat : a = off - lo /\ a + n <= own
    <2>1. lo <= off /\ off + n <= Highest /\ Highest \in Int
      BY <1>2, <1>4, <1>8, SixBounds
    <2>2. Highest - lo = own
      BY <1>4 DEF Contiguous
    <2>3. QED
      BY <1>4, <2>1, <2>2
  <1>10. PartAt(k) = a
    BY <1>4, <1>8, <1>9 DEF PartAt
  <1>11. own \in Nat
    BY <1>9
  <1>12. h[Six[k]].bytes = SubSeq(Delivered, a + 1, a + n)
    <2>1. PICK d : d = Six[k]
      OBVIOUS
    <2>2. d \in ToSet(Six)
      BY <2>1, SixNames
    <2>3. \A j \in 1 .. 6 : Six[j] = d <=> j = k
      BY <2>1, SixNames
    <2>4. k = CHOOSE j \in 1 .. 6 : Six[j] = d
      BY <2>3
    <2>5. h = [x \in ToSet(Six) |->
                 LET i == CHOOSE j \in 1 .. 6 : Six[j] = x IN
                 Given("slot", PartAt(i), Part(i).nbytes, "U8",
                       SubSeq(Delivered, PartAt(i) + 1, PartAt(i) + Part(i).nbytes))]
      BY DEF ExpertPart
    <2>6. h[d] = Given("slot", PartAt(k), Part(k).nbytes, "U8",
                       SubSeq(Delivered, PartAt(k) + 1, PartAt(k) + Part(k).nbytes))
      BY <2>2, <2>4, <2>5
    <2>7. QED
      BY <1>8, <1>10, <2>1, <2>6 DEF Given
  <1>13. CutFrom(lo, own, a, n)
    BY <1>9, <1>11, BytesCut
  <1>14. lo + a = off
    BY <1>9
  <1>15. QED
    BY <1>7, <1>8, <1>12, <1>13, <1>14 DEF GivenIn, CutFrom

(* One of scattered parts.                                                 *)
LEMMA PartComes ==
  ASSUME BindInv, PathHolds, op.kind = "expert", ExpertFits, ~Contiguous, ExpertPart, PackerTrue,
         NEW k \in 1 .. 6, k = 7 - Len(jobs), jobs[1] = ExpertJobs[k],
         total <= Parts(k - 1), total \in Nat, \A j \in 1 .. k - 1 : Six[j] \in DOMAIN held,
         total = Parts(k - 1) => \A j \in 1 .. k - 1 : GivenIn(held, j),
         NEW h, held' = h, NEW got, total' = got
  PROVE  /\ got \in Nat /\ got <= Parts(k)
         /\ got = Parts(k) => \A j \in 1 .. k : GivenIn(h, j)
  <1>1. /\ AtWork /\ Served(rd) /\ jobs # <<>> /\ IsSeq(jobs)
        /\ rd.off = Head(jobs).off /\ rd.n = Head(jobs).n
    BY DEF ExpertPart, AtWork, Done, Idle, BindInv, JobsHold, PathHolds
  <1>2. \A j \in 1 .. 6 : Part(j).off \in Int /\ Part(j).nbytes \in Nat
    BY <1>1, PartsTyped
  <1>3. PICK off \in Int, n \in Nat : off = Part(k).off /\ n = Part(k).nbytes
    BY <1>2
  <1>4. PICK sum \in Int : sum = Parts(k - 1) /\ Parts(k) = sum + n
    <2>1. ASSUME NEW j \in 1 .. 6
          PROVE  Part(j).nbytes \in Int
      <3>1. PICK z \in Nat : z = Part(j).nbytes
        BY <1>2
      <3>2. QED
        BY <3>1
    <2>2. Parts(k - 1) \in Int /\ Parts(k) = Parts(k - 1) + Part(k).nbytes
      BY <2>1, PartsAdd
    <2>3. QED
      BY <1>3, <2>2
  <1>5. rd.off = off /\ rd.n = n
    <2>1. ExpertJobs[k] = Job(Part(k).shard, Part(k).off, Part(k).nbytes, "st",
                              Part(k).nbytes, PartAt(k))
      BY DEF ExpertJobs
    <2>2. Head(jobs) = jobs[1]
      BY <1>1, SeqEnds
    <2>3. QED
      BY <1>1, <1>3, <2>1, <2>2 DEF Job
  <1>6. PICK r \in 0 .. n : r = Result(rd)
    BY <1>1, <1>5, ServedResult
  <1>7. got = total + r
    BY <1>6 DEF ExpertPart
  <1>8. got \in Nat /\ got <= Parts(k)
    BY <1>4, <1>7
  <1>9. ASSUME got = Parts(k)
        PROVE  \A j \in 1 .. k : GivenIn(h, j)
    <2>1. r = n /\ total = sum
      BY <1>4, <1>7, <1>9
    <2>2. Delivered = Bytes(off, n)
      BY <1>1, <1>5, <1>6, <2>1, WholeRead DEF Whole
    <2>3. h = Put(Six[k], Given("slot", PartAt(k), n, "U8", Delivered))
      BY <1>3 DEF ExpertPart
    <2>4. GivenIn(h, k)
      BY <1>3, <2>2, <2>3 DEF GivenIn, Put, Given
    <2>5. ASSUME NEW j \in 1 .. k - 1
          PROVE  GivenIn(h, j)
      <3>1. Six[j] # Six[k]
        <4>1. j \in 1 .. 6 /\ j # k
          OBVIOUS
        <4>2. QED
          BY <4>1, SixNames
      <3>2. GivenIn(held, j)
        BY <1>4, <2>1
      <3>3. Six[j] \in DOMAIN held
        OBVIOUS
      <3>4. h[Six[j]] = held[Six[j]]
        BY <2>3, <3>1, <3>3 DEF Put
      <3>5. QED
        BY <3>2, <3>4 DEF GivenIn
    <2>6. QED
      BY <2>4, <2>5
  <1>10. QED
    BY <1>8, <1>9

LEMMA PartsStep ==
  ASSUME BindInv, PathHolds, PartsHold, OtherSteps, \A name : Find(name)' = Find(name)
  PROVE  PartsHold'
  <1>1. op' = op /\ dir' = dir /\ PathOf /\ JobsHold
    BY OthersKeep DEF BindInv, PathHolds
  <1>2. PathOf' /\ (rc # Pending <=> pc = "done")
    BY PathStep DEF BindInv, CountersHold, PathHolds
  <1>3. CASE op.kind # "expert"
    <2>1. pc' # "expert"
      BY <1>1, <1>2, <1>3 DEF PathOf
    <2>2. QED
      BY <1>1, <1>3, <2>1 DEF PartsHold
  <1>4. CASE Begin /\ op.kind = "expert"
    <2>1. pc' = "prepare" /\ rc' = Pending
      BY <1>2, <1>4 DEF Begin, Opened, outVars
    <2>2. QED
      BY <2>1 DEF PartsHold, Pending
  <1>5. CASE Prepare /\ op.kind = "expert"
    BY <1>1, <1>5, PartsBegin
  <1>6. CASE PrepareRefused
    BY <1>6 DEF PrepareRefused, Fail, Return, PartsHold
  <1>7. CASE (StartJob \/ JobRound) /\ op.kind = "expert"
    <2>1. pc = "expert" /\ pc' = pc /\ jobs' = jobs /\ held' = held /\ rc' = Pending /\ total' = total
      <3>1. pc \in {"load", "stream", "expert", "range"}
        BY <1>1, <1>7 DEF StartJob, JobRound, JobsHold, Round, FullRound, ShortRound, FailedRound,
             AtEnd, Reading, Idle
      <3>2. QED
        BY <1>1, <1>2, <1>7, <3>1 DEF StartJob, JobRound, PathOf, outVars, Streams, Binds
    <2>2. PICK h, js, got : h = held /\ js = jobs /\ got = total
      OBVIOUS
    <2>3. ExpertFits /\ Reads(h, js, got)
      BY <2>1, <2>2 DEF PartsHold, PartGiven, Reads, GivenIn
    <2>4. QED
      BY <1>1, <2>1, <2>2, <2>3, PartsTo
  <1>8. CASE ExpertPart
    <2>1. /\ pc = "expert" /\ op.kind = "expert" /\ AtWork /\ jobs # <<>> /\ IsSeq(jobs)
          /\ jobs' = Tail(jobs) /\ ExpertFits /\ Reads(held, jobs, total)
      <3>1. pc = "expert" /\ AtWork /\ jobs # <<>> /\ jobs' = Tail(jobs)
        BY <1>1, <1>8 DEF ExpertPart, AtWork, Done, Idle, JobsHold
      <3>2. QED
        BY <1>1, <3>1 DEF JobsHold, PathOf, PartsHold, PartGiven, Reads, GivenIn
    <2>2. PICK h, js, got : h = held' /\ js = jobs' /\ got = total'
      OBVIOUS
    <2>3. CASE Contiguous
      <3>1. jobs = ExpertJobs /\ total = 0
        BY <2>1, <2>3 DEF Reads
      <3>2. Len(jobs) = 1
        BY <2>3, <3>1 DEF ExpertJobs
      <3>3. pc' = "done"
        BY <1>8, <3>2 DEF ExpertPart, Return
      <3>4. PackerTrue /\ rc' = 0 => \A k \in 1 .. 6 : GivenIn(h, k)
        BY <1>8, <2>1, <2>2, <2>3, <3>1, OneRun
      <3>5. QED
        BY <1>1, <2>1, <2>2, <3>3, <3>4, PartsEnd
    <2>4. CASE ~Contiguous
      <3>1. Len(jobs) \in Nat \ {0}
        BY <2>1, SeqEnds
      <3>2. PICK k \in 1 .. 6 : k = 7 - Len(jobs)
        <4>1. 6 - Len(jobs) \in 0 .. 5
          BY <2>1, <2>4 DEF Reads
        <4>2. PICK l \in Nat : l = Len(jobs)
          BY <3>1
        <4>3. 6 - l \in 0 .. 5
          BY <4>1, <4>2
        <4>4. 7 - l \in 1 .. 6
          BY <4>3
        <4>5. QED
          BY <4>2, <4>4
      <3>3. k - 1 = 6 - Len(jobs) /\ 1 \in 1 .. Len(jobs) /\ (k - 1) + 1 = k
        BY <3>1, <3>2
      <3>4. PICK m : m = k - 1
        OBVIOUS
      <3>5. /\ \A i \in 1 .. Len(jobs) : jobs[i] = ExpertJobs[m + i]
            /\ DOMAIN held = {Six[j] : j \in 1 .. m}
            /\ PackerTrue => /\ total \in Nat /\ total <= Parts(m)
                             /\ total = Parts(m) => \A j \in 1 .. m : GivenIn(held, j)
        BY <2>1, <2>4, <3>3, <3>4 DEF Reads
      <3>6. jobs[1] = ExpertJobs[k]
        BY <3>3, <3>4, <3>5
      <3>7. PackerTrue => /\ got \in Nat /\ got <= Parts(k)
                          /\ got = Parts(k) => \A j \in 1 .. k : GivenIn(h, j)
        BY <1>8, <2>1, <2>2, <2>4, <3>2, <3>4, <3>5, <3>6, PartComes
      <3>8. CASE Len(jobs) = 1
        <4>1. k = 6 /\ pc' = "done" /\ rc' = IF got = Own THEN 0 ELSE -1
          BY <1>8, <2>2, <3>2, <3>8 DEF ExpertPart, Return
        <4>2. Parts(6) = Own
          BY DEF Parts, Own
        <4>3. PackerTrue /\ rc' = 0 => \A j \in 1 .. 6 : GivenIn(h, j)
          BY <3>7, <4>1, <4>2
        <4>4. QED
          BY <1>1, <2>1, <2>2, <4>1, <4>3, PartsEnd
      <3>9. CASE Len(jobs) # 1
        <4>1. rc' = Pending
          BY <1>2, <1>8, <2>1, <3>9 DEF ExpertPart
        <4>2. PICK n : n = Len(js)
          OBVIOUS
        <4>3. n = Len(jobs) - 1 /\ \A i \in 1 .. n : js[i] = jobs[i + 1] /\ i + 1 \in 1 .. Len(jobs)
          BY <2>1, <2>2, <4>2, SeqEnds
        <4>4. k = 6 - n /\ k \in 0 .. 5
          BY <3>1, <3>2, <3>9, <4>3
        <4>5. ASSUME NEW i \in 1 .. n
              PROVE  js[i] = ExpertJobs[k + i]
          <5>1. m + (i + 1) = k + i
            BY <3>4, <4>3
          <5>2. QED
            BY <3>5, <4>3, <5>1
        <4>6. DOMAIN h = {Six[j] : j \in 1 .. k}
          <5>1. DOMAIN h = DOMAIN held \cup {Six[k]}
            BY <1>8, <2>2, <2>4, <3>2 DEF ExpertPart, Put
          <5>2. \A j : j \in 1 .. k <=> j \in 1 .. m \/ j = k
            BY <3>4
          <5>3. QED
            BY <3>5, <5>1, <5>2
        <4>7. Reads(h, js, got)
          BY <2>4, <3>7, <4>2, <4>4, <4>5, <4>6 DEF Reads
        <4>8. QED
          BY <1>1, <2>1, <2>2, <4>1, <4>7, PartsTo
      <3>10. QED
        BY <3>8, <3>9
    <2>5. QED
      BY <2>3, <2>4
  <1>9. QED
    BY <1>1, <1>3, <1>4, <1>5, <1>6, <1>7, <1>8, ByKind

(* An expert that was loaded: each part is its tensor.                     *)
LEMMA ExpertGives ==
  ASSUME BindInv, PartsHold, op.kind = "expert", rc = 0, PackerTrue
  PROVE  \A k \in 1 .. 6 : held[Six[k]].bytes = Bytes(Start0(Six[k]), Part(k).nbytes)
  <1>1. AtWork /\ ExpertFits
    BY DEF BindInv, CountersHold, AtWork, Pending, PartsHold
  <1>2. ASSUME NEW k \in 1 .. 6
        PROVE  held[Six[k]].bytes = Bytes(Start0(Six[k]), Part(k).nbytes)
    <2>1. PartGiven(k)
      BY DEF PartsHold
    <2>2. Start0(Six[k]) = Part(k).off
      BY <1>1, PartsTyped
    <2>3. QED
      BY <2>1, <2>2 DEF PartGiven
  <1>3. QED
    BY <1>2

-----------------------------------------------------------------------------
LEMMA GiveInit == Init => GiveInv
  <1> SUFFICES ASSUME Init
               PROVE  GiveInv
    OBVIOUS
  <1>1. /\ pc = "open" /\ rd = Idle /\ held = <<>> /\ total = 0 /\ demoted = 0 /\ rc = Pending
    BY DEF Init, StoreInit
  <1>2. ~i8 /\ narrow_ok \in BOOLEAN
    BY DEF Init
  <1>3. PathHolds
    BY <1>1, <1>2 DEF PathHolds, PathOf, AtWork
  <1>4. LayoutHolds /\ LoadHolds /\ PackHolds /\ StreamHolds /\ PartsHold
    BY <1>1, <1>2 DEF LayoutHolds, LoadHolds, PackHolds, StreamHolds, PartsHold, Pending
  <1>5. QED
    BY <1>3, <1>4 DEF GiveInv

LEMMA GiveOpens ==
  ASSUME BindInv, GiveInv, Opening
  PROVE  GiveInv'
  <1>1. /\ UNCHANGED <<input, rd, planVars, jobs, total, outVars>>
        /\ pc \in {"open", "scan", "index"} /\ pc' \in {"open", "scan", "index", "closed"}
    BY OpenSteps DEF BindInv
  <1>2. /\ op' = op /\ held' = held /\ rd' = rd /\ jobs' = jobs /\ rc' = Pending
        /\ demoted' = demoted /\ total' = total
    BY <1>1 DEF input, planVars, outVars, BindInv, CountersHold
  <1>3. i8' = i8
    BY <1>1 DEF outVars
  <1>4. narrow_ok' = narrow_ok
    BY <1>1 DEF planVars
  <1>5. PathHolds'
    <2>1. PathOf' /\ ~AtWork'
      BY <1>1 DEF PathOf, AtWork
    <2>2. held' = <<>> /\ ~i8' /\ total' = 0
      <3>1. held = <<>> /\ ~i8 /\ total = 0
        BY <1>1 DEF GiveInv, PathHolds
      <3>2. ~i8'
        BY <1>3, <3>1, Zenon
      <3>3. QED
        BY <1>2, <3>1, <3>2
    <2>3. (rd # Idle => rd.off = Head(jobs).off /\ rd.n = Head(jobs).n)'
      BY <1>2 DEF GiveInv, PathHolds
    <2>4. pc' # "manifest"
      BY <1>1
    <2>5. QED
      BY <2>1, <2>2, <2>3, <2>4 DEF PathHolds
  <1>6. LayoutHolds'
    <2>1. demoted' \in Nat
      BY <1>2 DEF GiveInv, LayoutHolds
    <2>2. narrow_ok' \in BOOLEAN
      <3>1. narrow_ok \in BOOLEAN
        BY DEF GiveInv, LayoutHolds
      <3>2. QED
        BY <1>4, <3>1, Zenon
    <2>3. QED
      BY <1>1, <1>2, <2>1, <2>2 DEF LayoutHolds, Pending
  <1>7. LoadHolds' /\ PackHolds' /\ StreamHolds' /\ PartsHold'
    BY <1>1, <1>2 DEF LoadHolds, PackHolds, StreamHolds, PartsHold, Pending
  <1>8. QED
    BY <1>5, <1>6, <1>7 DEF GiveInv

LEMMA GiveSteps ==
  ASSUME BindInv, GiveInv, OtherSteps
  PROVE  GiveInv'
  <1>1. BindInv'
    BY BindNext DEF Next, OtherSteps
  <1>2. \A name : Find(name)' = Find(name)
    <2>1. /\ dir' = dir /\ op' = op /\ store' = store /\ AtWork' /\ (AtWork \/ Opened)
      BY OthersKeep DEF BindInv
    <2>2. QED
      BY <2>1, StoreKeeps DEF BindInv
  <1>3. PathHolds /\ LayoutHolds /\ LoadHolds /\ PackHolds /\ StreamHolds /\ PartsHold
    BY DEF GiveInv
  <1>4. PathHolds'
    BY <1>3, PathStep DEF BindInv
  <1>5. LayoutHolds'
    BY <1>1, <1>2, <1>3, LayoutStep
  <1>6. LoadHolds'
    BY <1>1, <1>2, <1>3, LoadStep
  <1>7. PackHolds'
    BY <1>3, PackStep
  <1>8. StreamHolds' /\ PartsHold'
    BY <1>2, <1>3, StreamStep, PartsStep
  <1>9. QED
    BY <1>4, <1>5, <1>6, <1>7, <1>8 DEF GiveInv

LEMMA GiveStays ==
  ASSUME BindInv, GiveInv, UNCHANGED vars
  PROVE  GiveInv'
  <1>1. /\ dir' = dir /\ op' = op /\ store' = store /\ pc' = pc /\ next' = next /\ rd' = rd
        /\ reqs' = reqs /\ placed' = placed /\ bad' = bad /\ demoted' = demoted /\ size' = size
        /\ jobs' = jobs /\ total' = total /\ blob' = blob /\ held' = held /\ w' = w
        /\ wdt' = wdt /\ rc' = rc
    BY DEF vars, storeVars, input, planVars, outVars
  <1>2. i8' = i8 /\ narrowed_all' = narrowed_all /\ narrow_ok' = narrow_ok
    BY DEF vars, planVars, outVars
  <1>3. \A name : Find(name)' = Find(name)
    BY <1>1, SameTable
  <1>4. /\ (Binds' <=> Binds) /\ (Packs' <=> Packs) /\ (AtWork' <=> AtWork) /\ Requests' = Requests
        /\ w \in Nat
    BY <1>1 DEF Binds, Packs, AtWork, Requests, BindInv, CountersHold
  <1>5. PathHolds'
    <2>1. PathOf'
      BY <1>1 DEF GiveInv, PathHolds, PathOf, Binds, Packs, Streams
    <2>2. (AtWork => reqs = Requests)' /\ (pc = "manifest" => next = 1)'
      BY <1>1, <1>4 DEF GiveInv, PathHolds
    <2>3. pc \in {"open", "scan", "index", "resolve", "manifest", "prepare"} =>
            held' = <<>> /\ ~i8' /\ total' = 0
      <3>1. pc \in {"open", "scan", "index", "resolve", "manifest", "prepare"} =>
              held = <<>> /\ ~i8 /\ total = 0
        BY DEF GiveInv, PathHolds
      <3>2. QED
        BY <1>1, <1>2, <3>1, Zenon
    <2>4. (rd # Idle => rd.off = Head(jobs).off /\ rd.n = Head(jobs).n)'
      BY <1>1 DEF GiveInv, PathHolds
    <2>5. QED
      BY <1>1, <2>1, <2>2, <2>3, <2>4 DEF PathHolds
  <1>6. LayoutHolds'
    <2>1. demoted' \in Nat
      BY <1>1 DEF GiveInv, LayoutHolds
    <2>2. narrow_ok' \in BOOLEAN
      <3>1. narrow_ok \in BOOLEAN
        BY DEF GiveInv, LayoutHolds
      <3>2. QED
        BY <1>2, <3>1, Zenon
    <2>3. PICK m, n : m = next - 1 /\ n = Len(reqs)
      OBVIOUS
    <2>4. (LaidOut(m) => LaidOut(m)') /\ (LaidOut(n) => LaidOut(n)')
      BY <1>1, <1>2, <1>3, SameLayout
    <2>5. m = (next - 1)' /\ n = Len(reqs)'
      BY <1>1, <2>3
    <2>6. (pc = "resolve" /\ bad = 0 => LaidOut(next - 1))'
      BY <1>1, <2>3, <2>4, <2>5 DEF GiveInv, LayoutHolds
    <2>7. (pc = "load" \/ (Binds /\ rc = 0) => LaidOut(Len(reqs)) /\ demoted = 0 /\ blob = size)'
      BY <1>1, <1>4, <2>3, <2>4, <2>5 DEF GiveInv, LayoutHolds
    <2>8. QED
      BY <2>1, <2>2, <2>6, <2>7 DEF LayoutHolds
  <1>7. LoadHolds'
    <2>1. (\A k : Elements(k)' = Elements(k)) /\ \A m : GivesTo(m) => GivesTo(m)'
      BY <1>1, <1>3, SameGives
    <2>2. \A k, n : Gives(k, n) => Gives(k, n)'
      BY <1>1, <1>3, SameGives
    <2>3. CASE pc = "load"
      <3>1. PICK c : c = next
        OBVIOUS
      <3>2. PICK t : t = Find(reqs[c].name)
        OBVIOUS
      <3>3. PICK f, n : f = jobs[1].off - t.off /\ n = Elements(c)
        OBVIOUS
      <3>4. /\ rc' = Pending /\ c = next' /\ t = Find(reqs[c].name)
        BY <1>1, <2>3, <3>1, <3>2 DEF BindInv, CountersHold
      <3>5. /\ \A k \in 1 .. c - 1 : Gives(k, Elements(k))
            /\ jobs = <<>> => GivesTo(c - 1)
            /\ jobs # <<>> => /\ GivesTo(c) /\ f \in Nat /\ Gives(c, Min({f, n}))
                              /\ Tiles(jobs, jobs[1].off, t.off + t.nbytes)
        BY <2>3, <3>1, <3>2, <3>3 DEF GiveInv, LoadHolds, Req
      <3>6. PICK l, x : l = c - 1 /\ x = Min({f, n})
        OBVIOUS
      <3>7. /\ \A k \in 1 .. l : Gives(k, Elements(k))'
            /\ jobs' = <<>> => GivesTo(l)'
            /\ jobs' # <<>> => /\ GivesTo(c)' /\ f = jobs'[1].off - t.off /\ f \in Nat
                               /\ Gives(c, x)' /\ Tiles(jobs, jobs[1].off, t.off + t.nbytes)'
        <4>1. \A k \in 1 .. l : Gives(k, Elements(k))'
          <5>1. ASSUME NEW k \in 1 .. l
                PROVE  Gives(k, Elements(k))'
            <6>1. PICK e : e = Elements(k)
              OBVIOUS
            <6>2. Gives(k, e)' /\ e = Elements(k)'
              BY <2>1, <2>2, <3>5, <3>6, <6>1
            <6>3. QED
              BY <6>2
          <5>2. QED
            BY <5>1
        <4>2. jobs' = <<>> => GivesTo(l)'
          BY <1>1, <2>1, <3>5, <3>6
        <4>3. jobs' # <<>> => GivesTo(c)' /\ f = jobs'[1].off - t.off /\ f \in Nat /\ Gives(c, x)'
          BY <1>1, <2>1, <2>2, <3>3, <3>5, <3>6
        <4>4. jobs' # <<>> => Tiles(jobs, jobs[1].off, t.off + t.nbytes)'
          BY <1>1, <3>5 DEF Tiles
        <4>5. QED
          BY <4>1, <4>2, <4>3, <4>4
      <3>8. QED
        BY <1>1, <1>3, <2>3, <3>3, <3>4, <3>6, <3>7, LoadsTo
    <2>4. CASE pc # "load"
      <3>1. ASSUME Binds', rc' = 0
            PROVE  /\ GivesTo(Len(reqs))' /\ \A k \in 1 .. Len(reqs) : Gives(k, Elements(k))'
                   /\ wdt' = IF narrow_ok' THEN "BF16" ELSE "F32"
        <4>1. PICK n : n = Len(reqs)
          OBVIOUS
        <4>2. /\ GivesTo(n) /\ \A k \in 1 .. n : Gives(k, Elements(k))
              /\ wdt = IF narrow_ok THEN "BF16" ELSE "F32"
          BY <1>1, <1>4, <3>1, <4>1 DEF GiveInv, LoadHolds
        <4>3. GivesTo(n)' /\ n = Len(reqs)'
          BY <1>1, <2>1, <4>1, <4>2
        <4>4. ASSUME NEW k \in 1 .. n
              PROVE  Gives(k, Elements(k))'
          <5>1. PICK e : e = Elements(k)
            OBVIOUS
          <5>2. Gives(k, e)' /\ e = Elements(k)'
            BY <2>1, <2>2, <4>2, <5>1
          <5>3. QED
            BY <5>2
        <4>5. wdt' = IF narrow_ok' THEN "BF16" ELSE "F32"
          BY <1>1, <1>2, <4>2
        <4>6. QED
          BY <4>1, <4>3, <4>4, <4>5
      <3>2. QED
        BY <1>1, <2>4, <3>1 DEF LoadHolds
    <2>5. QED
      BY <2>3, <2>4
  <1>8. PackHolds'
    <2>1. PICK m, n : m = next - 1 /\ n = Len(reqs)
      OBVIOUS
    <2>2. m = (next - 1)' /\ n = Len(reqs)'
      BY <1>1, <2>1
    <2>3. Packs => (PackGiven(m) => PackGiven(m)') /\ (PackGiven(n) => PackGiven(n)')
      BY <1>1, <1>2, <1>4, SamePackGiven
    <2>4. pc \in {"mem", "acquire"} => Packs
      BY DEF GiveInv, PathHolds, PathOf, Packs
    <2>5. (pc \in {"mem", "acquire"} => PackGiven(next - 1))'
      BY <1>1, <2>1, <2>2, <2>3, <2>4 DEF GiveInv, PackHolds
    <2>6. ASSUME Packs', rc' = 0
          PROVE  /\ PackGiven(Len(reqs))'
                 /\ op'.kind = "stream" => wdt' = "STREAM"
                 /\ op'.kind = "mem" => wdt' = (IF i8' THEN "I8R" ELSE "BF16") /\ (narrowed_all' \/ i8')
      <3>1. /\ PackGiven(n) /\ Packs
            /\ op.kind = "stream" => wdt = "STREAM"
            /\ op.kind = "mem" => wdt = IF i8 THEN "I8R" ELSE "BF16"
        BY <1>1, <1>4, <2>1, <2>6 DEF GiveInv, PackHolds
      <3>2. op.kind = "mem" => narrowed_all \/ i8
        BY <1>1, <1>4, <2>6 DEF GiveInv, PackHolds
      <3>3. op.kind = "mem" => narrowed_all' \/ i8'
        BY <1>2, <3>2, Zenon
      <3>4. QED
        BY <1>1, <1>2, <2>2, <2>3, <3>1, <3>3
    <2>7. QED
      BY <2>5, <2>6 DEF PackHolds
  <1>9. StreamHolds'
    <2>1. \A h, m : held = h /\ RowsIn(h, m) => RowsGiven(m)'
      BY <1>1, <1>3, SameRows
    <2>2. CASE pc = "stream"
      <3>1. PICK h, js, n, m : h = held /\ js = jobs /\ n = Len(js) /\ m = Chunks - n
        OBVIOUS
      <3>2. /\ m \in 0 .. Chunks - 1 /\ RowsIn(h, m)
            /\ \A i \in 1 .. n : js[i] = RowJob(Streamed, First(m + i), Count(m + i))
        BY <2>2, <3>1 DEF GiveInv, StreamHolds, RowsGiven, RowsIn
      <3>3. Streams /\ rc' = Pending
        BY <1>1, <2>2 DEF GiveInv, PathHolds, PathOf, BindInv, CountersHold
      <3>4. QED
        BY <1>1, <1>3, <3>1, <3>2, <3>3, StreamsTo
    <2>3. CASE pc # "stream"
      <3>1. PICK m : m = Chunks
        OBVIOUS
      <3>2. Chunks' = m /\ (Streams' <=> Streams)
        BY <1>1, <1>3, <3>1, SameStream
      <3>3. Streams /\ rc = 0 => RowsGiven(m)'
        BY <2>1, <3>1 DEF GiveInv, StreamHolds, RowsGiven, RowsIn
      <3>4. QED
        BY <1>1, <2>3, <3>2, <3>3 DEF StreamHolds
    <2>4. QED
      BY <2>2, <2>3
  <1>10. PartsHold'
    <2>1. PICK h, js, got : h = held /\ js = jobs /\ got = total
      OBVIOUS
    <2>2. CASE pc = "expert"
      <3>1. ExpertFits /\ Reads(h, js, got) /\ rc' = Pending
        BY <1>1, <2>1, <2>2 DEF GiveInv, PartsHold, PartGiven, Reads, GivenIn, BindInv, CountersHold
      <3>2. QED
        BY <1>1, <1>3, <2>1, <3>1, PartsTo
    <2>3. CASE rc = 0 /\ op.kind = "expert"
      <3>1. pc' = "done" /\ ExpertFits
        BY <1>1, <2>3 DEF BindInv, CountersHold, Pending, GiveInv, PartsHold
      <3>2. PackerTrue /\ rc' = 0 => \A k \in 1 .. 6 : GivenIn(h, k)
        BY <2>1, <2>3 DEF GiveInv, PartsHold, PartGiven, GivenIn
      <3>3. QED
        BY <1>1, <1>3, <2>1, <3>1, <3>2, PartsEnd
    <2>4. CASE pc # "expert" /\ ~(rc = 0 /\ op.kind = "expert")
      BY <1>1, <2>4 DEF PartsHold
    <2>5. QED
      BY <2>2, <2>3, <2>4
  <1>11. QED
    BY <1>5, <1>6, <1>7, <1>8, <1>9, <1>10 DEF GiveInv

LEMMA GiveNext == BindInv /\ GiveInv /\ [Next]_vars => GiveInv'
  BY GiveOpens, GiveSteps, GiveStays DEF Next, OtherSteps, Ended

(* The inductive invariant of what is given.                               *)
THEOREM GiveInvariant == Spec => []GiveInv
  <1>1. QED
    BY GiveInit, GiveNext, BindInvariant, PTL DEF Spec

(* When a call reports success, everything it gives its caller is there:   *)
(* each destination was made from the bytes of its own tensor, all of them *)
(* and in order, in the format the struct is tagged with, in a region of   *)
(* its own: StructHolds, for every checkpoint and configuration, if what   *)
(* the binders cannot check of a manifest and a header is true.            *)
THEOREM BindGives == Spec => [](PackerTrue => StructHolds)
  <1>1. BindInv /\ GiveInv => (PackerTrue => StructHolds)
    <2> SUFFICES ASSUME BindInv, GiveInv, PackerTrue, rc = 0
                 PROVE  CASE op.kind \in {"layer", "mem", "stream", "model"} ->
                               /\ DOMAIN held = {r.dest : r \in ToSet(reqs)}
                               /\ \A r \in ToSet(reqs) :
                                    /\ held[r.dest].bytes = ExpectedBytes(r)
                                    /\ FormatTrue(r) /\ OwnRegion(r.dest)
                          [] op.kind \in {"embed_row", "project"} -> RowsTrue
                          [] op.kind = "expert" ->
                               \A k \in 1 .. 6 :
                                 held[Six[k]].bytes = Bytes(Start0(Six[k]), Part(k).nbytes)
                          [] OTHER -> TRUE
      BY DEF StructHolds
    <2>1. PathHolds /\ LayoutHolds /\ LoadHolds /\ PackHolds /\ StreamHolds /\ PartsHold
      BY DEF GiveInv
    <2>2. CASE Binds
      BY <2>1, <2>2, BindsGive DEF Binds
    <2>3. CASE Packs
      BY <2>1, <2>3, PacksGive DEF Packs
    <2>4. CASE Streams
      BY <2>1, <2>4, StreamsGive DEF Streams
    <2>5. CASE op.kind = "expert"
      BY <2>1, <2>5, ExpertGives
    <2>6. CASE ~Binds /\ ~Packs /\ ~Streams /\ op.kind # "expert"
      BY <2>6 DEF Binds, Packs, Streams
    <2>7. QED
      BY <2>2, <2>3, <2>4, <2>5, <2>6
  <1>2. QED
    BY <1>1, BindInvariant, GiveInvariant, PTL

-----------------------------------------------------------------------------
(***************************************************************************)
(* What is still to come of a whole directory.                             *)
(***************************************************************************)

(* A sum grows by its last term.                                           *)
SumTo(f, m) == SumFunction([k \in 1 .. m |-> f[k]])
LEMMA SumsUp ==
  ASSUME NEW n \in Nat, NEW f, \A k \in 1 .. n : f[k] \in Nat
  PROVE  /\ SumTo(f, 0) = 0
         /\ \A m \in 1 .. n : SumTo(f, m - 1) \in Nat /\ SumTo(f, m) = SumTo(f, m - 1) + f[m]
         /\ \A m \in 0 .. n : SumTo(f, m) \in Nat /\ SumTo(f, m) <= SumTo(f, n)
  <1>1. SumTo(f, 0) = 0
    <2>1. PICK g : g = [k \in 1 .. 0 |-> f[k]]
      OBVIOUS
    <2>2. DOMAIN g = {}
      BY <2>1
    <2>3. SumFunction(g) = 0
      BY <2>2, SumOfNone
    <2>4. QED
      BY <2>1, <2>3 DEF SumTo
  <1>2. ASSUME NEW m \in 1 .. n
        PROVE  SumTo(f, m - 1) \in Int /\ SumTo(f, m) = SumTo(f, m - 1) + f[m]
    <2>1. PICK g : g = [k \in 1 .. m |-> f[k]]
      OBVIOUS
    <2>2. PICK h : h = [k \in DOMAIN g \ {m} |-> g[k]]
      OBVIOUS
    <2>3. h = [k \in 1 .. m - 1 |-> f[k]]
      <3>1. DOMAIN g \ {m} = 1 .. m - 1
        BY <2>1
      <3>2. QED
        BY <2>1, <2>2, <3>1
    <2>4. IsFiniteSet(DOMAIN g)
      <3>1. PICK l, u \in Int : l = 1 /\ u = m
        OBVIOUS
      <3>2. IsFiniteSet(l .. u)
        BY FS_Interval
      <3>3. QED
        BY <2>1, <3>1, <3>2
    <2>5. m \in DOMAIN g /\ g[m] = f[m] /\ \A k \in DOMAIN g : g[k] \in Int
      <3>1. DOMAIN g = 1 .. m /\ m \in DOMAIN g /\ g[m] = f[m]
        BY <2>1
      <3>2. ASSUME NEW k \in DOMAIN g
            PROVE  g[k] \in Int
        <4>1. k \in 1 .. n /\ g[k] = f[k]
          BY <2>1, <3>1, <3>2
        <4>2. QED
          BY <4>1
      <3>3. QED
        BY <3>1, <3>2
    <2>6. SumFunction(g) = g[m] + SumFunction(h) /\ SumFunction(h) \in Int
      BY <2>2, <2>4, <2>5, SumAdds
    <2>7. SumTo(f, m) = SumFunction(g) /\ SumTo(f, m - 1) = SumFunction(h)
      BY <2>1, <2>3 DEF SumTo
    <2>8. f[m] \in Nat
      OBVIOUS
    <2>9. QED
      BY <2>5, <2>6, <2>7, <2>8
  <1> DEFINE G == {m \in 0 .. n : SumTo(f, m) \in Nat /\ \A j \in 0 .. m : SumTo(f, j) <= SumTo(f, m)}
  <1>3. 0 \in G
    BY <1>1
  <1>4. ASSUME NEW m \in 0 .. n - 1, m \in G
        PROVE  m + 1 \in G
    <2>1. SumTo(f, m) \in Nat /\ \A j \in 0 .. m : SumTo(f, j) <= SumTo(f, m)
      BY <1>4
    <2>2. m + 1 \in 1 .. n /\ m + 1 \in 0 .. n /\ m + 1 - 1 = m
      OBVIOUS
    <2>3. SumTo(f, m + 1) = SumTo(f, m) + f[m + 1] /\ f[m + 1] \in Nat
      BY <1>2, <2>2
    <2>4. PICK a \in Nat, b \in Nat : a = SumTo(f, m) /\ b = SumTo(f, m + 1) /\ a <= b
      BY <2>1, <2>3
    <2>5. ASSUME NEW j \in 0 .. m + 1
          PROVE  SumTo(f, j) <= b
      <3>1. CASE j = m + 1
        BY <2>4, <3>1
      <3>2. CASE j # m + 1
        <4>1. j \in 0 .. m /\ SumTo(f, j) <= a
          BY <2>1, <2>4, <3>2
        <4>2. SumTo(f, j) \in Int
          <5>1. CASE j = m
            BY <2>4, <5>1
          <5>2. CASE j # m
            <6>1. PICK i \in 1 .. n : i = j + 1
              BY <4>1, <5>2
            <6>2. SumTo(f, i - 1) \in Int
              BY <1>2
            <6>3. i - 1 = j
              BY <6>1
            <6>4. QED
              BY <6>2, <6>3
          <5>3. QED
            BY <5>1, <5>2
        <4>3. QED
          BY <2>4, <4>1, <4>2
      <3>3. QED
        BY <3>1, <3>2
    <2>6. QED
      BY <2>2, <2>4, <2>5
  <1> HIDE DEF G
  <1>5. \A m \in 0 .. n : m \in G
    BY <1>3, <1>4, Upwards
  <1>6. ASSUME NEW m \in 0 .. n
        PROVE  SumTo(f, m) \in Nat /\ SumTo(f, m) <= SumTo(f, n)
    BY <1>5 DEF G
  <1>7. ASSUME NEW m \in 1 .. n
        PROVE  SumTo(f, m - 1) \in Nat
    <2>1. m - 1 \in 0 .. n
      OBVIOUS
    <2>2. QED
      BY <1>6, <2>1
  <1>8. QED
    BY <1>1, <1>2, <1>6, <1>7

(* A whole directory has as many names as entries, so none comes twice.    *)
LEMMA CountedIs ==
  ASSUME OneOfCalls
  PROVE  /\ Counted(0) = 0
         /\ \A m \in 1 .. Len(dir.shard) :
              /\ Counted(m - 1) \in Nat /\ Len(dir.shard[m].tensor) \in Nat
              /\ Counted(m) = Counted(m - 1) + Len(dir.shard[m].tensor)
         /\ Counted(Len(dir.shard)) = SumFunction([k \in DOMAIN dir.shard |-> Len(dir.shard[k].tensor)])
  <1>1. PICK n \in Nat : n = Len(dir.shard) /\ DOMAIN dir.shard = 1 .. n
    BY InputTyped
  <1>2. PICK f : f = [k \in 1 .. n |-> Len(dir.shard[k].tensor)]
    OBVIOUS
  <1>3. \A k \in 1 .. n : f[k] \in Nat /\ f[k] = Len(dir.shard[k].tensor)
    BY <1>1, <1>2, InputTyped DEF ShardType, HeaderType
  <1>4. ASSUME NEW m \in 0 .. n
        PROVE  Counted(m) = SumTo(f, m)
    <2>1. \A k \in 1 .. m : f[k] = Len(dir.shard[k].tensor)
      BY <1>3
    <2>2. [k \in 1 .. m |-> f[k]] = [k \in 1 .. m |-> Len(dir.shard[k].tensor)]
      BY <2>1
    <2>3. QED
      BY <2>2 DEF Counted, SumTo
  <1>5. /\ SumTo(f, 0) = 0
        /\ \A m \in 1 .. n : SumTo(f, m - 1) \in Nat /\ SumTo(f, m) = SumTo(f, m - 1) + f[m]
    BY <1>3, SumsUp
  <1>6. ASSUME NEW m \in 1 .. n
        PROVE  /\ Counted(m - 1) \in Nat /\ Len(dir.shard[m].tensor) \in Nat
               /\ Counted(m) = Counted(m - 1) + Len(dir.shard[m].tensor)
    <2>1. m \in 0 .. n /\ m - 1 \in 0 .. n
      OBVIOUS
    <2>2. QED
      BY <1>3, <1>4, <1>5, <2>1
  <1>7. Counted(0) = 0
    BY <1>4, <1>5
  <1>8. Counted(Len(dir.shard)) = SumFunction([k \in DOMAIN dir.shard |-> Len(dir.shard[k].tensor)])
    BY <1>1 DEF Counted
  <1>9. QED
    BY <1>1, <1>6, <1>7, <1>8

LEMMA NamesDiffer ==
  ASSUME OneOfCalls, ListHolds, Indexed, DirWhole, Len(store.t) = Counted(Len(dir.shard)),
         NEW a \in 1 .. Len(store.t), NEW b \in 1 .. Len(store.t), a # b
  PROVE  NameOf(store.t[a]) # NameOf(store.t[b])
  <1> SUFFICES ASSUME NameOf(store.t[a]) = NameOf(store.t[b])
               PROVE  FALSE
    OBVIOUS
  <1>1. PICK n \in Nat : n = Len(store.t) /\ DOMAIN store.t = 1 .. n /\ \A i \in 1 .. n : store.t[i] \in Entries
    BY DEF ListHolds
  <1>2. PICK T : T = {x[2].name : x \in DirTensors}
    OBVIOUS
  <1>3. Cardinality(T) = n
    BY <1>1, <1>2, CountedIs DEF DirWhole
  <1>4. PICK D, S : D = 1 .. n /\ S = D \ {b}
    OBVIOUS
  <1>5. IsFiniteSet(D) /\ Cardinality(D) = n
    <2>1. PICK l, u \in Int : l = 1 /\ u = n
      OBVIOUS
    <2>2. IsFiniteSet(l .. u) /\ Cardinality(l .. u) = IF l > u THEN 0 ELSE u - l + 1
      BY FS_Interval
    <2>3. QED
      BY <1>4, <2>1, <2>2
  <1>6. b \in D /\ a \in S
    BY <1>1, <1>4
  <1>7. IsFiniteSet(S) /\ Cardinality(S) = n - 1
    BY <1>4, <1>5, <1>6, FS_RemoveElement
  <1>8. PICK f : f = [i \in S |-> NameOf(store.t[i])]
    OBVIOUS
  <1>9. \A i \in S : f[i] \in T
    <2> SUFFICES ASSUME NEW i \in S
                 PROVE  f[i] \in T
      OBVIOUS
    <2>1. PICK x \in Entries : x = store.t[i]
      BY <1>1, <1>4
    <2>2. PICK k \in DOMAIN dir.shard : \E e \in DOMAIN dir.shard[k].tensor : x = <<k, e>>
      BY DEF Entries
    <2>3. PICK e \in DOMAIN dir.shard[k].tensor : x = <<k, e>>
      BY <2>2
    <2>4. PICK z : z = <<k, dir.shard[k].tensor[e]>>
      OBVIOUS
    <2>5. z \in DirTensors
      BY <2>4 DEF DirTensors, ToSet
    <2>6. z[2].name = f[i]
      <3>1. z[2] = dir.shard[k].tensor[e] /\ x[1] = k /\ x[2] = e
        BY <2>3, <2>4
      <3>2. NameOf(x) = dir.shard[k].tensor[e].name
        BY <3>1 DEF NameOf
      <3>3. f[i] = NameOf(x)
        BY <1>8, <2>1
      <3>4. QED
        BY <3>1, <3>2, <3>3
    <2>7. QED
      BY <1>2, <2>5, <2>6
  <1>10. \A t \in T : \E i \in S : f[i] = t
    <2> SUFFICES ASSUME NEW t \in T
                 PROVE  \E i \in S : f[i] = t
      OBVIOUS
    <2>1. PICK z \in DirTensors : z[2].name = t
      BY <1>2
    <2>2. PICK k \in DOMAIN dir.shard : \E e \in ToSet(dir.shard[k].tensor) : z = <<k, e>>
      BY DEF DirTensors
    <2>3. PICK e \in ToSet(dir.shard[k].tensor) : z = <<k, e>>
      BY <2>2
    <2>4. PICK j \in DOMAIN dir.shard[k].tensor : e = dir.shard[k].tensor[j]
      BY DEF ToSet
    <2>5. PICK x : x = <<k, j>>
      OBVIOUS
    <2>6. x \in Entries /\ NameOf(x) = t
      <3>1. x \in Entries
        BY <2>5 DEF Entries
      <3>2. x[1] = k /\ x[2] = j
        BY <2>5
      <3>3. NameOf(x) = dir.shard[k].tensor[j].name
        BY <3>2 DEF NameOf
      <3>4. z[2] = e
        BY <2>3
      <3>5. QED
        BY <2>1, <2>4, <3>1, <3>3, <3>4
    <2>7. PICK i \in 1 .. n : store.t[i] = x
      BY <1>1, <2>6 DEF ListHolds, Listed
    <2>8. CASE i = b
      <3>1. f[a] = t
        BY <1>6, <1>8, <2>6, <2>7, <2>8
      <3>2. QED
        BY <1>6, <3>1
    <2>9. CASE i # b
      <3>1. i \in S /\ f[i] = t
        BY <1>4, <1>8, <2>6, <2>7, <2>9
      <3>2. QED
        BY <3>1
    <2>10. QED
      BY <2>8, <2>9
  <1>11. f \in Surjection(S, T)
    BY <1>8, <1>9, <1>10 DEF Surjection
  <1>12. Cardinality(T) <= Cardinality(S)
    BY <1>7, <1>11, FS_Surjection
  <1>13. QED
    BY <1>3, <1>7, <1>12

(* What is whole stays whole.                                              *)
LEMMA SameWhole ==
  ASSUME dir' = dir, op' = op
  PROVE  /\ DirWhole' <=> DirWhole
         /\ Fitting' <=> Fitting
         /\ reqs' = reqs => (CallWhole' <=> CallWhole)
         /\ \A k : Available(k)' <=> Available(k)
         /\ \A r : ComesWhole(r)' <=> ComesWhole(r)
  <1>1. DirTensors' = DirTensors /\ \A name : TruthOf(name)' = TruthOf(name)
    BY DEF DirTensors, TruthOf
  <1>2. DirWhole' <=> DirWhole
    <2>1. DirRefused' <=> DirRefused
      BY DEF DirRefused
    <2>2. \A sh : ScanOk(sh)' <=> ScanOk(sh)
      BY DEF ScanOk
    <2>3. {x[2].name : x \in DirTensors}' = {x[2].name : x \in DirTensors}
      BY <1>1
    <2>4. QED
      BY <2>1, <2>2, <2>3 DEF DirWhole
  <1>3. PartsOnDisk' <=> PartsOnDisk
    BY <1>1 DEF PartsOnDisk
  <1>4. Requests' = Requests /\ (Streams' <=> Streams)
    BY DEF Requests, RequestsOf, Streams
  <1>5. Fitting' <=> Fitting
    BY <1>3, <1>4 DEF Fitting
  <1>6. ASSUME reqs' = reqs
        PROVE  CallWhole' <=> CallWhole
    <2>1. \A name, n : HasShape(name, n)' <=> HasShape(name, n)
      BY <1>1 DEF HasShape
    <2>2. PackWhole' <=> PackWhole
      BY <1>6 DEF PackWhole
    <2>3. StreamWhole' <=> StreamWhole
      BY <1>1 DEF StreamWhole
    <2>4. QED
      BY <1>6, <2>1, <2>2, <2>3 DEF CallWhole
  <1>7. \A k : Available(k)' <=> Available(k)
    BY DEF Available
  <1>8. \A r : ComesWhole(r)' <=> ComesWhole(r)
    BY DEF ComesWhole
  <1>9. QED
    BY <1>2, <1>5, <1>6, <1>7, <1>8

(* Opening a whole directory ends nowhere but in its index.                *)
LEMMA WholeOpens ==
  ASSUME BindInv, OpensWhole, Opening
  PROVE  OpensWhole'
  <1>1. StoreHolds /\ ListHolds /\ TableHolds /\ OneOfCalls /\ faults \in Nat
    BY DEF BindInv, StoreHolds, CountersHold
  <1>2. /\ dir' = dir /\ w' = w /\ narrowed_all' = narrowed_all
        /\ pc \in {"open", "scan", "index"} /\ pc' \in {"open", "scan", "index", "closed"}
        /\ faults' = faults \/ faults' = faults + 1
    BY <1>1, OpenSteps DEF input, outVars
  <1>3. w' = 0 /\ narrowed_all'
    BY <1>2, Zenon DEF OpensWhole
  <1>4. (DirWhole' <=> DirWhole) /\ \A n : Counted(n)' = Counted(n)
    <2>1. op' = op
      BY <1>1, OpenSteps DEF input
    <2>2. QED
      BY <1>2, <2>1, SameWhole DEF Counted
  <1>5. PICK n \in Nat : n = Len(dir.shard) /\ DOMAIN dir.shard = 1 .. n
    BY <1>1, InputTyped
  <1>6. /\ Counted(0) = 0
        /\ \A m \in 1 .. n : /\ Counted(m - 1) \in Nat /\ Len(dir.shard[m].tensor) \in Nat
                             /\ Counted(m) = Counted(m - 1) + Len(dir.shard[m].tensor)
    BY <1>1, <1>5, CountedIs
  <1> DEFINE Lists == /\ pc' = "scan" => Len(store'.t) = Counted(next' - 1)
                      /\ pc' = "index" => Len(store'.t) = Counted(n)
                      /\ pc' = "closed" => faults' > 0 \/ ~DirWhole
  <1> SUFFICES Lists
    BY <1>2, <1>3, <1>4, <1>5 DEF OpensWhole
  <1>7. CASE OpenDir
    <2>1. store.t = <<>> /\ next' = 1 /\ store' = store /\ pc' = (IF DirRefused THEN "closed" ELSE "scan")
      BY <1>1, <1>7 DEF OpenDir, ListHolds, StoreHolds, storeVars
    <2>2. Len(store'.t) = 0 /\ next' - 1 = 0
      BY <2>1
    <2>3. DirRefused => ~DirWhole
      BY DEF DirWhole
    <2>4. QED
      BY <1>6, <2>1, <2>2, <2>3
  <1>8. CASE Scan
    <2>1. next \in 1 .. n /\ pc = "scan" /\ Len(store.t) = Counted(next - 1)
      BY <1>1, <1>5, <1>8 DEF Scan, StoreHolds, OpensWhole
    <2>2. CASE ScanOk(dir.shard[next])
      <3>1. PICK s : s = [k \in DOMAIN dir.shard[next].tensor |-> <<next, k>>]
        OBVIOUS
      <3>2. store' = [store EXCEPT !.t = @ \o s] /\ next' = next + 1 /\ pc' = "scan"
        BY <1>8, <2>1, <2>2, <3>1 DEF Scan
      <3>3. PICK m \in Nat : m = Len(dir.shard[next].tensor) /\ DOMAIN dir.shard[next].tensor = 1 .. m
        BY <1>1, <1>5, <2>1, InputTyped DEF ShardType, HeaderType
      <3>4. s \in Seq(Nat \X Nat) /\ Len(s) = m
        BY <2>1, <3>1, <3>3, LenOf
      <3>5. store.t \in Seq(Entries) /\ store'.t = store.t \o s
        BY <1>1, <3>2 DEF ListHolds
      <3>6. PICK l, u : l = Len(store.t) /\ u = store.t /\ l \in Nat /\ Len(u \o s) = l + m
        <4>1. PICK u \in Seq(Entries) : u = store.t
          BY <3>5
        <4>2. u \in Seq(Entries \cup (Nat \X Nat)) /\ s \in Seq(Entries \cup (Nat \X Nat))
          BY <3>4
        <4>3. Len(u \o s) = Len(u) + Len(s) /\ Len(u) \in Nat
          BY <4>2, ConcatProperties
        <4>4. QED
          BY <3>4, <4>1, <4>3
      <3>7. Counted(next) = Counted(next - 1) + m
        BY <1>6, <2>1, <3>3
      <3>8. Len(store'.t) = Counted(next) /\ next' - 1 = next
        BY <2>1, <3>2, <3>5, <3>6, <3>7
      <3>9. QED
        BY <3>2, <3>8
    <2>3. CASE ~ScanOk(dir.shard[next])
      <3>1. pc' = "closed"
        BY <1>8, <2>1, <2>3 DEF Scan
      <3>2. ~DirWhole
        BY <1>5, <2>1, <2>3 DEF DirWhole
      <3>3. QED
        BY <3>1, <3>2
    <2>4. QED
      BY <2>2, <2>3
  <1>9. CASE ScanUnanswered
    <2>1. pc' = "closed" /\ faults' = faults + 1
      BY <1>9 DEF ScanUnanswered
    <2>2. QED
      BY <1>1, <2>1
  <1>10. CASE StartIndex
    <2>1. pc = "scan" /\ pc' = "index" /\ next \in 1 .. n + 1 /\ next > n /\ store'.t = store.t
      BY <1>1, <1>5, <1>10 DEF StartIndex, StoreHolds, ListHolds
    <2>2. next - 1 = n
      BY <2>1
    <2>3. QED
      BY <2>1, <2>2 DEF OpensWhole
  <1>11. CASE IndexNext
    <2>1. PICK t, m : t = store.t /\ m = Len(t)
      OBVIOUS
    <2>2. pc = "index" /\ next \in 1 .. m /\ m \in Nat /\ m = Counted(n) /\ Indexed
      BY <1>1, <1>5, <1>11, <2>1 DEF IndexNext, TableHolds, Indexed, ListHolds, OpensWhole
    <2>3. PICK name : name = NameOf(t[next])
      OBVIOUS
    <2>4. CASE Named(store.t, store.bucket, name)
      <3>1. pc' = "closed"
        BY <1>11, <2>1, <2>3, <2>4 DEF IndexNext
      <3>2. ASSUME DirWhole
            PROVE  FALSE
        <4>1. t[next] \in Entries
          <5>1. t \in Seq(Entries)
            BY <1>1, <2>1 DEF ListHolds
          <5>2. \A i \in 1 .. Len(t) : t[i] \in Entries
            BY <5>1, ElementOfSeq
          <5>3. next \in 1 .. Len(t)
            BY <2>1, <2>2
          <5>4. QED
            BY <5>2, <5>3
        <4>2. Hash[name] \in Nat
          BY <1>1, <2>3, <4>1, EntryTyped
        <4>3. PICK b : b = store.bucket[Probe(store.t, store.bucket, name)]
          OBVIOUS
        <4>4. b # Empty
          BY <2>4, <4>3 DEF Named
        <4>5. b \in {Empty} \cup 1 .. Filled /\ NameOf(store.t[b]) = name
          BY <1>1, <2>1, <2>2, <4>2, <4>3, <4>4, SearchFinds
        <4>6. b \in 1 .. next - 1
          BY <2>2, <4>4, <4>5 DEF Filled
        <4>7. b \in 1 .. m /\ b # next
          BY <2>2, <4>6
        <4>8. NameOf(store.t[b]) # NameOf(store.t[next])
          BY <1>1, <1>5, <2>1, <2>2, <3>2, <4>7, NamesDiffer
        <4>9. QED
          BY <2>1, <2>3, <4>5, <4>8
      <3>3. QED
        BY <3>1, <3>2
    <2>5. CASE ~Named(store.t, store.bucket, name)
      <3>1. store'.t = store.t /\ pc' = "index"
        BY <1>1, <1>11, <2>1, <2>2, <2>3, <2>5 DEF IndexNext, ListHolds
      <3>2. QED
        BY <2>1, <2>2, <3>1
    <2>6. QED
      BY <2>4, <2>5
  <1>12. QED
    BY <1>7, <1>8, <1>9, <1>10, <1>11 DEF Opening, Open

(* A range that is there is read whole unless a fault intervenes.          *)
LEMMA WholeShard ==
  ASSUME OneOfCalls, DirWhole, NEW k \in DOMAIN dir.shard, NEW sh, sh = dir.shard[k]
  PROVE  /\ ScanOk(sh) /\ ShardType(sh) /\ sh.size \in Nat
         /\ Packed(sh) => /\ dir.remote = "no" /\ sh.size = sh.z.raw
                          /\ ArchiveType(sh.z) /\ ZOpen(sh.z)
                          /\ \A e \in DOMAIN sh.z.entry : sh.z.entry[e].flags = RAW \/ FrameFits(sh.z, e)
  <1>1. ScanOk(sh) /\ ShardType(sh) /\ sh.size \in Nat
    BY InputTyped DEF DirWhole, ShardType
  <1>2. ASSUME Packed(sh)
        PROVE  /\ dir.remote = "no" /\ sh.size = sh.z.raw
               /\ ArchiveType(sh.z) /\ ZOpen(sh.z)
               /\ \A e \in DOMAIN sh.z.entry : sh.z.entry[e].flags = RAW \/ FrameFits(sh.z, e)
    <2>1. dir.remote = "no" /\ ZOpen(sh.z) /\ ArchiveType(sh.z)
      BY <1>1, <1>2 DEF ScanOk, ShardType
    <2>2. PICK c \in Calls : dir = c.dir
      BY DEF OneOfCalls
    <2>3. sh.size = sh.z.raw
      BY <1>2, <2>1, <2>2, ArchiveSizes
    <2>4. \A e \in DOMAIN sh.z.entry : sh.z.entry[e].flags = RAW \/ FrameFits(sh.z, e)
      BY <1>2 DEF DirWhole
    <2>5. QED
      BY <2>1, <2>3, <2>4
  <1>3. QED
    BY <1>1, <1>2

LEMMA StartComes ==
  ASSUME OneOfCalls, DirWhole, NEW j, JobOk(j), Available(j)
  PROVE  ComesWhole(StartRead(j.via, j.shard, j.off, j.n, j.cap, j.addr))
  <1>1. PICK k \in DOMAIN dir.shard : k = j.shard
    BY DEF JobOk
  <1>2. PICK sh : sh = dir.shard[k]
    OBVIOUS
  <1>3. PICK off \in Nat, n \in Nat, cap \in Int : off = j.off /\ n = j.n /\ cap = j.cap
    BY DEF JobOk, Available
  <1>4. PICK via, addr : via = j.via /\ addr = j.addr
    OBVIOUS
  <1>5. Align \in Nat \ {0} /\ sh.size \in Nat
    BY <1>2, WholeShard, ArchiveAssumption
  <1>6. off + n <= sh.size /\ cap >= n /\ (via = "aligned" => cap >= n + 2 * Align)
    BY <1>1, <1>2, <1>3, <1>4, <1>5 DEF Available
  <1>7. PICK lo \in Int, hi \in Int : lo = RoundDown(off) /\ hi = RoundUp(off + n)
    BY Rounding
  <1>8. lo <= off /\ off + n <= hi /\ hi < off + n + Align /\ off - Align < lo
    <2>1. PICK e \in Int : e = off + n
      OBVIOUS
    <2>2. e <= RoundUp(e) /\ RoundUp(e) < e + Align
      BY <2>1, Rounding
    <2>3. QED
      BY <1>7, <2>1, <2>2, Rounding
  <1>9. PICK zhi : zhi = Min({hi, sh.z.raw})
    OBVIOUS
  <1>10. PICK buf : buf = [b \in 0 .. cap - 1 |-> NoByte]
    OBVIOUS
  <1> DEFINE exact == [via |-> via, shard |-> k, off |-> off, n |-> n, lo |-> off, len |-> n,
                       pad |-> 0, got |-> 0, addr |-> addr, done |-> FALSE, path |-> "fd", buf |-> buf]
             Window(to) == [exact EXCEPT !.lo = lo, !.len = to - lo, !.pad = off - lo]
             widened == via = "aligned" /\ sh.dfd
             r == StartRead(via, k, off, n, cap, addr)
  <1>11. ASSUME NEW q, q = [exact EXCEPT !.path = "remote"] \/ q = [exact EXCEPT !.path = "archive"]
                       \/ q = [exact EXCEPT !.path = "fd"] \/ q = [exact EXCEPT !.path = "buffered"]
         PROVE  ComesWhole(q)
    <2>1. q.n = n /\ q.pad = 0 /\ q.len = n /\ q.off = off /\ q.lo = off /\ q.done = FALSE /\ q.shard = k
      BY <1>11
    <2>2. QED
      BY <1>2, <1>6, <2>1 DEF ComesWhole
  <1>12. ASSUME NEW to \in Int, off + n <= to, NEW path, path = "direct" \/ to <= sh.size,
                NEW q, q = [Window(to) EXCEPT !.path = path]
         PROVE  ComesWhole(q)
    <2>1. q.n = n /\ q.pad = off - lo /\ q.len = to - lo /\ q.off = off /\ q.lo = lo /\ q.done = FALSE
          /\ q.shard = k /\ q.path = path
      BY <1>12
    <2>2. q.pad + q.n <= q.len /\ q.off + q.n <= sh.size
      BY <1>6, <1>12, <2>1
    <2>3. q.path \in {"archive", "remote"} => q.lo + q.len <= sh.size
      BY <1>5, <1>12, <2>1
    <2>4. QED
      BY <1>2, <2>1, <2>2, <2>3 DEF ComesWhole
  <1>13. ~(off < 0 \/ n < 0 \/ cap < n)
    BY <1>6
  <1>14. hi - lo <= cap \/ ~widened
    BY <1>5, <1>6, <1>8
  <1>15. CASE dir.remote = "yes"
    <2>1. r = [exact EXCEPT !.path = "remote"]
      BY <1>10, <1>13, <1>15 DEF StartRead
    <2>2. QED
      BY <1>1, <1>3, <1>4, <1>11, <2>1
  <1>16. CASE dir.remote # "yes" /\ Packed(sh)
    <2>1. PICK raw \in Nat : raw = sh.z.raw /\ raw = sh.size
      BY <1>2, <1>5, <1>16, WholeShard
    <2>2. ZInRange(sh.z, off, n)
      BY <1>6, <2>1 DEF ZInRange
    <2>3. zhi \in Int /\ off + n <= zhi /\ zhi <= sh.size
      <3>1. zhi \in {hi, raw} /\ zhi <= hi /\ zhi <= raw
        <4>1. zhi = Min({hi, raw}) /\ raw \in Int
          BY <1>9, <2>1
        <4>2. QED
          BY <1>7, <4>1, LesserOfTwo
      <3>2. QED
        BY <1>6, <1>8, <2>1, <3>1
    <2>4. \/ r = [Window(zhi) EXCEPT !.path = "archive"]
          \/ r = [exact EXCEPT !.path = "archive"]
      <3>1. PICK q : q = IF widened /\ sh.z.mapped /\ zhi - lo <= cap THEN Window(zhi) ELSE exact
        OBVIOUS
      <3>2. /\ exact.lo = off /\ exact.len = n
            /\ Window(zhi).lo = lo /\ Window(zhi).len = zhi - lo
        OBVIOUS
      <3>3. ZInRange(sh.z, lo, zhi - lo)
        BY <1>8, <2>1, <2>3 DEF ZInRange
      <3> HIDE DEF exact, Window, widened
      <3>4. (q = Window(zhi) \/ q = exact) /\ ZInRange(sh.z, q.lo, q.len)
        BY <2>2, <3>1, <3>2, <3>3, Zenon
      <3>5. r = [q EXCEPT !.path = "archive"]
        BY <1>2, <1>7, <1>9, <1>10, <1>13, <1>16, <3>1, <3>4, Zenon DEF StartRead, exact, Window, widened
      <3>6. QED
        BY <3>4, <3>5, Zenon
    <2>5. CASE r = [Window(zhi) EXCEPT !.path = "archive"]
      <3>1. ASSUME NEW to, to = zhi, NEW q, q = [Window(to) EXCEPT !.path = "archive"]
            PROVE  ComesWhole(q)
        BY <1>12, <2>3, <3>1
      <3>2. ComesWhole([Window(zhi) EXCEPT !.path = "archive"])
        BY <3>1
      <3>3. QED
        BY <1>1, <1>3, <1>4, <2>5, <3>2
    <2>6. CASE r = [exact EXCEPT !.path = "archive"]
      BY <1>1, <1>3, <1>4, <1>11, <2>6
    <2>7. QED
      BY <2>4, <2>5, <2>6
  <1>17. CASE dir.remote # "yes" /\ ~Packed(sh)
    <2>1. r = IF ~widened THEN [exact EXCEPT !.path = IF via = "st" THEN "fd" ELSE "buffered"]
              ELSE IF hi - lo > cap THEN Refused(exact) ELSE [Window(hi) EXCEPT !.path = "direct"]
      BY <1>2, <1>7, <1>10, <1>13, <1>17 DEF StartRead
    <2>2. CASE ~widened
      <3>1. r = [exact EXCEPT !.path = "fd"] \/ r = [exact EXCEPT !.path = "buffered"]
        BY <2>1, <2>2
      <3>2. QED
        BY <1>1, <1>3, <1>4, <1>11, <3>1
    <2>3. CASE widened
      <3>1. r = [Window(hi) EXCEPT !.path = "direct"]
        <4>1. ~(hi - lo > cap)
          BY <1>3, <1>7, <1>14, <2>3
        <4>2. QED
          BY <2>1, <2>3, <4>1, Zenon
      <3>2. ASSUME NEW to, to = hi, NEW q, q = [Window(to) EXCEPT !.path = "direct"]
            PROVE  ComesWhole(q)
        BY <1>7, <1>8, <1>12, <3>2
      <3>3. ComesWhole([Window(hi) EXCEPT !.path = "direct"])
        BY <3>2
      <3>4. QED
        BY <1>1, <1>3, <1>4, <3>1, <3>3
    <2>4. QED
      BY <2>2, <2>3
  <1>18. QED
    BY <1>15, <1>16, <1>17

LEMMA RoundComes ==
  ASSUME OneOfCalls, DirWhole, Served(rd), ComesWhole(rd), Round, faults = 0, faults' = 0, dir' = dir
  PROVE  ComesWhole(rd)'
  <1>1. PICK k \in DOMAIN dir.shard : k = rd.shard
    BY DEF Served
  <1>2. PICK sh : sh = dir.shard[k]
    OBVIOUS
  <1>3. /\ ScanOk(sh) /\ ShardType(sh) /\ sh.size \in Nat
        /\ Packed(sh) => /\ dir.remote = "no" /\ sh.size = sh.z.raw
                         /\ ArchiveType(sh.z) /\ ZOpen(sh.z)
                         /\ \A e \in DOMAIN sh.z.entry : sh.z.entry[e].flags = RAW \/ FrameFits(sh.z, e)
    BY <1>2, WholeShard
  <1>4. /\ DOMAIN rd = ReadFields
        /\ rd.lo \in Int /\ rd.len \in Nat /\ rd.pad \in Nat /\ rd.off \in Int
        /\ rd.off = rd.lo + rd.pad /\ (rd.len > 0 => rd.lo \in Nat) /\ rd.got \in 0 .. rd.len
        /\ rd.path = "archive" => Packed(sh) /\ rd.lo + rd.len <= sh.z.raw
    BY <1>1, <1>2 DEF Served, IsRead
  <1>5. /\ rd.n \in Nat /\ rd.pad + rd.n <= rd.len /\ rd.off + rd.n <= sh.size
        /\ rd.path \in {"archive", "remote"} => rd.lo + rd.len <= sh.size
    BY <1>1, <1>2 DEF ComesWhole
  <1>6. ASSUME rd'.n = rd.n, rd'.pad = rd.pad, rd'.len = rd.len, rd'.off = rd.off, rd'.lo = rd.lo,
               rd'.shard = rd.shard, rd'.path = rd.path, rd'.done => rd.pad + rd.n <= rd'.got
        PROVE  ComesWhole(rd)'
    BY <1>1, <1>2, <1>5, <1>6 DEF ComesWhole
  <1>7. CASE FullRound
    <2>1. rd' = Copied(Min({Ask, Avail})) /\ ~rd.done
      BY <1>7 DEF FullRound, Reading
    <2>2. /\ rd'.n = rd.n /\ rd'.pad = rd.pad /\ rd'.len = rd.len /\ rd'.off = rd.off /\ rd'.lo = rd.lo
          /\ rd'.shard = rd.shard /\ rd'.path = rd.path /\ rd'.done = rd.done
      BY <1>4, <2>1 DEF Copied, ReadFields
    <2>3. QED
      BY <1>6, <2>1, <2>2
  <1>8. CASE ShortRound \/ FailedRound
    BY <1>8 DEF ShortRound, FailedRound
  <1>9. CASE AtEnd
    <2>1. rd' = [rd EXCEPT !.done = TRUE]
      BY <1>9 DEF AtEnd
    <2>2. /\ rd'.n = rd.n /\ rd'.pad = rd.pad /\ rd'.len = rd.len /\ rd'.off = rd.off /\ rd'.lo = rd.lo
          /\ rd'.shard = rd.shard /\ rd'.path = rd.path /\ rd'.got = rd.got
      BY <1>4, <2>1 DEF ReadFields
    <2>3. Left = rd.len - rd.got /\ Avail = sh.size - (rd.lo + rd.got)
      BY <1>1, <1>2 DEF Left, Avail, Pos
    <2>4. CASE ~(Left > 0)
      <3>1. rd.got = rd.len
        BY <1>4, <2>3, <2>4
      <3>2. QED
        BY <1>5, <1>6, <2>2, <3>1
    <2>5. CASE Left > 0
      <3>1. Sound
        <4> SUFFICES ASSUME rd.path = "archive"
                     PROVE  ZSound(sh.z, Pos)
          BY <1>1, <1>2 DEF Sound
        <4>1. Pos \in Nat /\ Pos < sh.z.raw
          BY <1>3, <1>4, <2>3, <2>5 DEF Pos
        <4>2. PICK e \in DOMAIN sh.z.entry : e = Entry(sh.z, Pos)
          BY <1>3, <1>4, <4>1, EntryHolds
        <4>3. QED
          BY <1>3, <1>4, <4>2 DEF ZSound
      <3>2. Ask <= Left /\ Ask \in Int
        BY <1>1, <1>2, <1>3, <2>5, AskBounded
      <3>3. ~(AllOrNothing /\ Ask > Avail)
        <4> SUFFICES ASSUME AllOrNothing
                     PROVE  Ask <= Avail
          BY <1>3, <1>4, <2>3, <3>2
        <4>1. rd.lo + rd.len <= sh.size
          BY <1>5 DEF AllOrNothing
        <4>2. QED
          BY <1>3, <1>4, <2>3, <3>2, <4>1
      <3>4. Avail <= 0
        BY <1>9, <2>5, <3>1, <3>3 DEF AtEnd
      <3>5. rd.pad + rd.n <= rd.got
        BY <1>3, <1>4, <1>5, <2>3, <3>4
      <3>6. QED
        BY <1>6, <2>2, <3>5
    <2>6. QED
      BY <2>4, <2>5
  <1>10. QED
    BY <1>7, <1>8, <1>9 DEF Round

LEMMA ComesOut ==
  ASSUME Served(rd), ComesWhole(rd), Done
  PROVE  Whole /\ Result(rd) = rd.n /\ rd.n \in Nat
  <1>1. rd.pad \in Nat /\ rd.n \in Nat /\ rd.got \in Int /\ rd.pad + rd.n <= rd.got
    BY DEF Served, ComesWhole, Done
  <1>2. QED
    BY <1>1 DEF Whole, Result

(* What the disk has of a name, a search finds; and what it finds lies in  *)
(* its shard.                                                              *)
LEMMA FoundIn ==
  ASSUME StoreHolds, ListHolds, TableHolds, AtWork, Fitting, NEW name, Hash[name] \in Nat,
         NEW t, t = Find(name), t # Missing
  PROVE  /\ t.shard \in DOMAIN dir.shard /\ t.off \in Nat /\ t.nbytes \in Int
         /\ t.off + t.nbytes <= dir.shard[t.shard].size
         /\ t.nbytes = Numel(t.shape) * Esz(t.dtype) /\ Esz(t.dtype) \in {1, 2, 4}
  <1>1. Indexed /\ pc # "index" /\ OneOfCalls
    BY DEF AtWork, Indexed, StoreHolds
  <1>2. FindsByName(name)
    BY <1>1, FindIs
  <1>3. PICK x \in Entries : t = Tensor(x)
    BY <1>2 DEF FindsByName
  <1>4. x[1] \in DOMAIN dir.shard /\ x[2] \in DOMAIN dir.shard[x[1]].tensor
    BY <1>1, <1>3, EntryTyped
  <1>5. PICK k, i : x[1] = k /\ x[2] = i
    OBVIOUS
  <1>6. PICK sh : sh = dir.shard[k]
    OBVIOUS
  <1>7. PICK e : e = sh.tensor[i]
    OBVIOUS
  <1>8. t.nbytes = e.o1 - e.o0 /\ t.off = Base(sh) + e.o0 /\ t.shard = k
    BY <1>3, <1>5, <1>6, <1>7 DEF Tensor
  <1>9. EntryOk(sh, e)
    <2>1. ScanOk(sh)
      BY <1>1, <1>4, <1>5, <1>6, InputTyped DEF StoreHolds, AllScanned, Scanned
    <2>2. QED
      BY <1>4, <1>5, <1>6, <1>7, <2>1 DEF ScanOk
  <1>10. sh.hlen \in Nat /\ sh.size \in Nat /\ e.o1 \in Int
    <2>1. ShardType(sh)
      BY <1>1, <1>4, <1>5, <1>6, InputTyped
    <2>2. QED
      BY <1>4, <1>5, <1>6, <1>7, <2>1 DEF ShardType, HeaderType
  <1>11. e.o0 \in Nat
    <2>1. e \in ToSet(sh.tensor)
      BY <1>4, <1>5, <1>6, <1>7 DEF ToSet
    <2>2. QED
      BY <1>4, <1>5, <1>6, <2>1 DEF Fitting
  <1>12. t.off \in Nat /\ t.off + t.nbytes <= sh.size
    BY <1>8, <1>9, <1>10, <1>11 DEF EntryOk, Base
  <1>13. t.nbytes = Numel(t.shape) * Esz(t.dtype)
    BY FoundTrue
  <1>14. Esz(t.dtype) \in {1, 2, 4}
    BY Found
  <1>15. QED
    BY <1>4, <1>5, <1>6, <1>8, <1>10, <1>11, <1>12, <1>13, <1>14

LEMMA OnDiskFound ==
  ASSUME StoreHolds, ListHolds, TableHolds, AtWork, NEW name, Hash[name] \in Nat,
         NEW x \in DirTensors, x[2].name = name, NEW t, t = Find(name)
  PROVE  /\ t # Missing /\ t.shard = x[1] /\ t.shape = x[2].shape /\ t.dtype = x[2].dtype
         /\ t.nbytes = x[2].o1 - x[2].o0 /\ TruthOf(name) = x
  <1>1. Indexed /\ pc # "index" /\ OneOfCalls
    BY DEF AtWork, Indexed, StoreHolds
  <1>2. FindsByName(name)
    BY <1>1, FindIs
  <1>3. ASSUME NEW z \in DirTensors
        PROVE  \E y \in Entries : NameOf(y) = z[2].name /\ z = <<y[1], dir.shard[y[1]].tensor[y[2]]>>
    <2>1. PICK k \in DOMAIN dir.shard : \E e \in ToSet(dir.shard[k].tensor) : z = <<k, e>>
      BY DEF DirTensors
    <2>2. PICK e \in ToSet(dir.shard[k].tensor) : z = <<k, e>>
      BY <2>1
    <2>3. PICK j \in DOMAIN dir.shard[k].tensor : e = dir.shard[k].tensor[j]
      BY DEF ToSet
    <2>4. PICK y : y = <<k, j>>
      OBVIOUS
    <2>5. y \in Entries /\ y[1] = k /\ y[2] = j /\ z[2] = e /\ NameOf(y) = e.name
      BY <2>2, <2>3, <2>4 DEF Entries, NameOf
    <2>6. QED
      BY <2>2, <2>3, <2>5
  <1>4. PICK y \in Entries : NameOf(y) = name /\ x = <<y[1], dir.shard[y[1]].tensor[y[2]]>>
    BY <1>3
  <1>5. t = Tensor(y) /\ \A z \in Entries : NameOf(z) = name => z = y
    BY <1>2, <1>4 DEF FindsByName
  <1>6. t # Missing
    BY <1>1, <1>5, EntryTyped
  <1>7. PICK k, e : k = y[1] /\ e = dir.shard[y[1]].tensor[y[2]]
    OBVIOUS
  <1>8. x[1] = k /\ x[2] = e
    BY <1>4, <1>7
  <1>9. /\ t.shard = k /\ t.shape = e.shape /\ t.dtype = e.dtype /\ t.nbytes = e.o1 - e.o0
    BY <1>5, <1>7 DEF Tensor
  <1>10. \A z \in DirTensors : z[2].name = name => z = x
    BY <1>3, <1>4, <1>5
  <1>11. TruthOf(name) = x
    BY <1>10 DEF TruthOf
  <1>12. QED
    BY <1>6, <1>8, <1>9, <1>11

(* No request of a whole checkpoint is wrong.                              *)
LEMMA NeverWrong ==
  ASSUME BindInv, PathHolds, Binds, AtWork, Fitting, CallWhole, NEW n \in 1 .. Len(reqs),
         NEW r, r = reqs[n], NEW t, t = Find(r.name)
  PROVE  ~Wrong(r, t)
  <1>1. RequestOk(r) /\ Hash[r.name] \in Nat /\ r \in ToSet(reqs)
    BY ListedRequest DEF BindInv, PlanHolds, IsPlan
  <1>2. reqs = Requests /\ Uncut(reqs)
    BY RequestsOnce DEF PathHolds, Requests
  <1>3. PICK x \in DirTensors : x[2].name = r.name /\ Numel(x[2].shape) = r.want
    BY <1>1 DEF CallWhole, HasShape, Binds
  <1>4. t # Missing /\ Numel(t.shape) = r.want
    BY <1>1, <1>3, OnDiskFound DEF BindInv
  <1>5. r.take <= r.want
    BY <1>1, <1>2 DEF Fitting
  <1>6. r.narrow => r.take = r.want
    <2>1. Kept(r)
      BY <1>2 DEF Uncut
    <2>2. QED
      BY <2>1, Zenon DEF Kept
  <1>7. ~(r.take > Numel(t.shape))
    BY <1>1, <1>4, <1>5 DEF RequestOk
  <1>8. ~(NarrowOf(r, t) /\ r.take # Numel(t.shape))
    BY <1>4, <1>6, Zenon DEF NarrowOf
  <1>9. QED
    BY <1>4, <1>7, <1>8, Zenon DEF Wrong

(* Its loads are of bytes there are.                                       *)
LEMMA LoadsAvailable ==
  ASSUME NEW p, NEW t, t.off \in Nat, t.nbytes \in Nat, Esz(t.dtype) \in {1, 2, 4},
         t.shard \in DOMAIN dir.shard, dir.shard[t.shard].size \in Nat,
         t.off + t.nbytes <= dir.shard[t.shard].size, NEW js, js = LoadJobs(p, t)
  PROVE  \A k \in 1 .. Len(js) : Available(js[k])
  <1>1. CASE p.narrow \/ t.dtype = "F32"
    <2>1. PICK j : j = Job(t.shard, t.off, t.nbytes, "st", t.nbytes, p.at)
      OBVIOUS
    <2>2. js = <<j>>
      BY <1>1, <2>1 DEF LoadJobs
    <2>3. j.off = t.off /\ j.n = t.nbytes /\ j.cap = t.nbytes /\ j.via = "st" /\ j.shard = t.shard
      BY <2>1 DEF Job
    <2>4. Available(j)
      BY <2>3 DEF Available
    <2>5. QED
      BY <2>2, <2>4
  <1>2. CASE ~(p.narrow \/ t.dtype = "F32")
    <2>1. PICK e \in {1, 2, 4} : e = Esz(t.dtype)
      OBVIOUS
    <2>2. PICK step : step = (WidenChunk \div e) * e
      OBVIOUS
    <2>3. step \in Nat \ {0}
      <3>1. WidenChunk \in Nat /\ WidenChunk >= 4
        BY CallsAssumption
      <3>2. e = 1 \/ e = 2 \/ e = 4
        OBVIOUS
      <3>3. QED
        BY <2>2, <3>1, <3>2
    <2>4. PICK off \in Nat, N \in Nat : off = t.off /\ N = t.nbytes
      OBVIOUS
    <2>5. PICK m : m = (N + step - 1) \div step
      OBVIOUS
    <2>6. m \in Nat /\ \A c \in Int : c < m => c * step \in Int /\ c * step < N
      <3>1. IsCeiling(m, N, step)
        BY <2>5 DEF IsCeiling
      <3>2. Covers(m, N, step) /\ NoneOfNone(m, N) /\ StartsBelow(m, N, step)
        BY <2>3, <2>4, <3>1, CeilingIs
      <3>3. m \in Nat
        BY <3>2 DEF Covers
      <3>4. \A c \in Int : c < m => c * step \in Int /\ c * step < N
        BY <3>2 DEF StartsBelow
      <3>5. QED
        BY <3>3, <3>4
    <2> DEFINE Ends(c) == Min({step, N - (c - 1) * step})
               At(c) == off + (c - 1) * step
    <2>7. js = [c \in 1 .. m |-> Job(t.shard, At(c), Ends(c), "st", Ends(c), 0)]
      BY <1>2, <2>1, <2>2, <2>4, <2>5 DEF LoadJobs, Chunked
    <2>8. Len(js) = m
      <3> DEFINE S == {js[c] : c \in 1 .. m}
      <3>1. js \in [1 .. m -> S]
        BY <2>7
      <3> HIDE DEF S
      <3>2. QED
        BY <2>6, <3>1, LenOf
    <2>9. ASSUME NEW c \in 1 .. m
          PROVE  Available(js[c])
      <3>1. PICK d \in Nat : d = c - 1 /\ d < m
        BY <2>6
      <3>2. d * step \in Int /\ d * step < N
        BY <2>6, <3>1
      <3>3. d * step >= 0
        BY <2>3, <3>1
      <3>4. PICK x \in Nat : x = d * step /\ x < N
        BY <3>2, <3>3
      <3>5. PICK rest \in Nat : rest = N - x
        BY <2>4, <3>4
      <3>6. PICK n : n = Min({step, rest})
        OBVIOUS
      <3>7. n \in Nat /\ n <= rest
        BY <2>3, <3>6, LesserNat
      <3>8. Ends(c) = n /\ At(c) = off + x
        BY <3>1, <3>4, <3>5, <3>6
      <3> HIDE DEF Ends, At
      <3>9. js[c] = Job(t.shard, off + x, n, "st", n, 0)
        BY <2>7, <3>8
      <3>10. /\ js[c].off = off + x /\ js[c].n = n /\ js[c].cap = n /\ js[c].via = "st"
             /\ js[c].shard = t.shard
        BY <3>9 DEF Job
      <3>11. off + x \in Nat /\ off + x + n <= dir.shard[t.shard].size
        BY <2>4, <3>4, <3>5, <3>7
      <3>12. QED
        BY <3>7, <3>10, <3>11 DEF Available
    <2>10. QED
      BY <2>8, <2>9
  <1>3. QED
    BY <1>1, <1>2

(* What was honest before a step that leaves it so; and what a step owes.  *)
LEMMA NoFaultBefore ==
  ASSUME faults \in Nat, OtherSteps, faults' = 0
  PROVE  faults = 0
  <1>1. CASE Begin \/ Resolve \/ Relayout \/ Unresolved \/ Allocate \/ OutOfMemory
    <2>1. CASE Begin \/ Resolve \/ Relayout \/ Unresolved \/ Allocate
      BY <2>1 DEF Begin, Resolve, Relayout, Unresolved, Allocate
    <2>2. CASE OutOfMemory
      BY <2>2 DEF OutOfMemory
    <2>3. QED
      BY <1>1, <2>1, <2>2
  <1>2. CASE LoadNext \/ StartJob \/ Loaded \/ LoadFailed \/ BindDone
    BY <1>2 DEF LoadNext, StartJob, Loaded, LoadFailed, BindDone
  <1>3. CASE JobRound
    BY <1>3 DEF JobRound, Round, FullRound, ShortRound, FailedRound, AtEnd
  <1>4. CASE Manifest \/ MemRefused \/ MemPoint \/ MemWiden \/ MemDone
    BY <1>4 DEF Manifest, MemRefused, MemPoint, MemWiden, MemDone
  <1>5. CASE Acquire \/ AcquireDone \/ Prepare \/ PrepareRefused
    BY <1>5 DEF Acquire, AcquireDone, Prepare, PrepareRefused
  <1>6. CASE StreamedRows \/ StreamFailed \/ ExpertPart \/ RangeRead
    BY <1>6 DEF StreamedRows, StreamFailed, ExpertPart, RangeRead
  <1>7. QED
    BY <1>1, <1>2, <1>3, <1>4, <1>5, <1>6 DEF OtherSteps

LEMMA HonestBefore ==
  ASSUME BindInv, PathHolds, OtherSteps, AtWork, Honest'
  PROVE  /\ Honest /\ faults' = 0 /\ dir' = dir /\ op' = op /\ reqs' = reqs /\ reqs = Requests
         /\ \A name : Find(name)' = Find(name)
  <1>1. /\ StoreHolds /\ ListHolds /\ TableHolds /\ JobsHold /\ CountersHold /\ faults \in Nat
    BY DEF BindInv, CountersHold
  <1>2. dir' = dir /\ op' = op /\ store' = store /\ AtWork'
    BY <1>1, OthersKeep
  <1>3. PathHolds'
    BY <1>1, PathStep
  <1>4. reqs' = reqs /\ reqs = Requests
    BY <1>2, <1>3 DEF PathHolds, Requests, RequestsOf
  <1>5. faults = 0 /\ faults' = 0
    BY <1>1, NoFaultBefore DEF Honest
  <1>6. DirWhole /\ Fitting /\ CallWhole
    BY <1>2, <1>4, SameWhole DEF Honest
  <1>7. \A name : Find(name)' = Find(name)
    BY <1>2, SameTable
  <1>8. QED
    BY <1>2, <1>4, <1>5, <1>6, <1>7 DEF Honest

LEMMA ServesTo ==
  ASSUME dir' = dir, op' = op, \A name : Find(name)' = Find(name), rc' # -1,
         NEW js, jobs' = js, \A k \in 1 .. Len(js) : Available(js[k]),
         NEW r, rd' = r, r = Idle \/ ComesWhole(r),
         pc' = "resolve" => bad' = 0,
         pc' = "mem" => narrowed_all' /\ Align8(w') <= AreaOf(reqs', next' - 1),
         pc' = "expert" /\ ~Contiguous => total' = Parts(6 - Len(js))
  PROVE  Serves'
  <1>1. \A k \in 1 .. Len(jobs') : Available(jobs[k])'
    <2>1. \A k \in 1 .. Len(js) : Available(js[k])'
      BY SameWhole
    <2>2. QED
      BY <2>1 DEF Available
  <1>2. rd' # Idle => ComesWhole(rd)'
    <2>1. r # Idle => ComesWhole(r)'
      BY SameWhole
    <2>2. QED
      BY <2>1 DEF ComesWhole
  <1>3. pc' = "expert" /\ ~Contiguous' => total' = Parts(6 - Len(jobs))'
    BY SameParts
  <1>4. Idle' = Idle
    BY DEF Idle
  <1>5. pc' = "mem" => narrowed_all' /\ (Align8(w) <= AreaOf(reqs, next - 1))'
    <2>1. Align8(w)' = Align8(w') /\ AreaOf(reqs, next - 1)' = AreaOf(reqs', next' - 1)
      BY DEF Align8, AreaOf, Area8
    <2>2. QED
      BY <2>1, Zenon
  <1>6. QED
    BY <1>1, <1>2, <1>3, <1>4, <1>5 DEF Serves

(* A read begins, goes on and ends whole.                                  *)
LEMMA ReadServes ==
  ASSUME BindInv, PathHolds, AtWork, Honest, faults' = 0, Serves, StartJob \/ JobRound,
         dir' = dir, op' = op, \A name : Find(name)' = Find(name)
  PROVE  Serves'
  <1>1. OneOfCalls /\ DirWhole /\ faults = 0 /\ JobsHold /\ IsSeq(jobs)
    BY DEF BindInv, StoreHolds, JobsHold, Honest
  <1>2. /\ rc # -1 /\ (\A k \in 1 .. Len(jobs) : Available(jobs[k])) /\ (rd # Idle => ComesWhole(rd))
        /\ pc = "expert" /\ ~Contiguous => total = Parts(6 - Len(jobs))
    BY DEF Serves
  <1>3. rc' = rc /\ jobs' = jobs /\ pc' = pc /\ total' = total
    BY DEF StartJob, JobRound, outVars
  <1>4. PICK js, r, q : js = jobs /\ r = rd' /\ q = rd
    OBVIOUS
  <1>5. pc \in {"load", "stream", "expert", "range"}
    <2>1. CASE StartJob
      BY <2>1 DEF StartJob
    <2>2. CASE JobRound
      <3>1. rd # Idle
        BY <2>2 DEF JobRound, Round, FullRound, ShortRound, FailedRound, AtEnd, Reading, Idle
      <3>2. QED
        BY <1>1, <3>1 DEF JobsHold
    <2>3. QED
      BY <2>1, <2>2
  <1>6. r = Idle \/ ComesWhole(r)
    <2>1. CASE StartJob
      <3>1. PICK j : j = Head(jobs)
        OBVIOUS
      <3>2. jobs # <<>> /\ rd' = StartRead(j.via, j.shard, j.off, j.n, j.cap, j.addr)
        BY <2>1, <3>1 DEF StartJob
      <3>3. j = jobs[1] /\ 1 \in 1 .. Len(jobs)
        BY <1>1, <3>1, <3>2, SeqEnds
      <3>4. JobOk(j) /\ Available(j)
        BY <1>1, <1>2, <3>3 DEF JobsHold
      <3>5. ComesWhole(StartRead(j.via, j.shard, j.off, j.n, j.cap, j.addr))
        BY <1>1, <3>4, StartComes
      <3>6. QED
        BY <1>4, <3>2, <3>5
    <2>2. CASE JobRound
      <3>1. Round /\ rd # Idle
        <4>1. Reading
          BY <2>2 DEF JobRound, Round, FullRound, ShortRound, FailedRound, AtEnd
        <4>2. QED
          BY <2>2, <4>1 DEF JobRound, Reading, Idle
      <3>2. Served(rd) /\ ComesWhole(rd)
        BY <1>1, <1>2, <3>1 DEF JobsHold
      <3>3. ComesWhole(rd)'
        BY <1>1, <3>1, <3>2, RoundComes
      <3>4. ComesWhole(r)
        BY <1>4, <3>3, SameWhole
      <3>5. QED
        BY <3>4
    <2>3. QED
      BY <2>1, <2>2
  <1>7. QED
    BY <1>2, <1>3, <1>4, <1>5, <1>6, ServesTo

LEMMA WholeThere ==
  ASSUME BindInv, Serves, Done
  PROVE  Whole /\ Result(rd) = rd.n /\ rd.n \in Nat
  <1>1. rd # Idle
    BY DEF Done, Idle
  <1>2. Served(rd) /\ ComesWhole(rd)
    BY <1>1 DEF Serves, BindInv, JobsHold
  <1>3. QED
    BY <1>2, ComesOut

LEMMA TailAvailable ==
  ASSUME IsSeq(jobs), jobs # <<>>, \A k \in 1 .. Len(jobs) : Available(jobs[k])
  PROVE  \A k \in 1 .. Len(Tail(jobs)) : Available(Tail(jobs)[k])
  <1> SUFFICES ASSUME NEW k \in 1 .. Len(Tail(jobs))
               PROVE  Available(Tail(jobs)[k])
    OBVIOUS
  <1>1. k + 1 \in 1 .. Len(jobs) /\ Tail(jobs)[k] = jobs[k + 1]
    BY SeqEnds
  <1>2. QED
    BY <1>1

(* A bind from the checkpoint.                                             *)
LEMMA BindServes ==
  ASSUME BindInv, GiveInv, Binds, AtWork, Honest, faults' = 0, Serves, OtherSteps,
         dir' = dir, op' = op, \A name : Find(name)' = Find(name)
  PROVE  Serves'
  <1>1. /\ OneOfCalls /\ StoreHolds /\ ListHolds /\ TableHolds /\ JobsHold /\ IsSeq(jobs)
        /\ Fitting /\ CallWhole /\ DirWhole /\ faults = 0 /\ PathHolds /\ PathOf
    BY DEF BindInv, StoreHolds, JobsHold, Honest, GiveInv, PathHolds
  <1>2. /\ rc # -1 /\ (\A k \in 1 .. Len(jobs) : Available(jobs[k])) /\ (rd # Idle => ComesWhole(rd))
        /\ pc = "resolve" => bad = 0
    BY DEF Serves
  <1>3. PICK js, r : js = jobs' /\ r = rd'
    OBVIOUS
  <1>4. ~Begin
    BY DEF Begin, Opened, AtWork
  <1>5. ASSUME rc' # -1, pc' \notin {"mem", "expert"}, pc' = "resolve" => bad' = 0,
               \A k \in 1 .. Len(js) : Available(js[k]), r = Idle \/ ComesWhole(r)
        PROVE  Serves'
    BY <1>3, <1>5, ServesTo
  <1>6. CASE Resolve
    <2>1. next \in 1 .. Len(reqs) /\ pc = "resolve"
      BY <1>6 DEF Resolve, BindInv, PlanHolds
    <2>2. ~Wrong(Req, Find(Req.name))
      BY <1>1, <2>1, NeverWrong DEF Req
    <2>3. bad' = bad
      BY <1>6, <2>2 DEF Resolve
    <2>4. jobs' = jobs /\ rd' = rd /\ rc' = rc /\ pc' = pc
      BY <1>6 DEF Resolve, outVars
    <2>5. QED
      BY <1>2, <1>3, <1>5, <2>1, <2>3, <2>4
  <1>7. CASE Relayout
    <2>1. jobs' = jobs /\ rd' = rd /\ rc' = rc /\ pc' = pc /\ bad' = 0 /\ pc = "resolve"
      BY <1>7 DEF Relayout, outVars, ClearPlan
    <2>2. QED
      BY <1>2, <1>3, <1>5, <2>1
  <1>8. CASE Unresolved \/ OutOfMemory
    <2>1. ~Unresolved
      BY <1>2 DEF Unresolved
    <2>2. ~OutOfMemory
      BY <1>1 DEF OutOfMemory
    <2>3. QED
      BY <1>8, <2>1, <2>2
  <1>9. CASE Allocate
    <2>1. jobs' = jobs /\ rd' = rd /\ rc' = rc /\ pc' = "load"
      BY <1>9 DEF Allocate
    <2>2. QED
      BY <1>2, <1>3, <1>5, <2>1
  <1>10. CASE LoadNext
    <2>1. next \in 1 .. Len(reqs) /\ pc = "load" /\ jobs = <<>>
      BY <1>10 DEF LoadNext, BindInv, PlanHolds
    <2>2. PICK t : t = Find(Req.name)
      OBVIOUS
    <2>3. jobs' = LoadJobs(placed[next], t) /\ rd' = rd /\ rc' = rc /\ pc' = pc
      BY <1>10, <2>2 DEF LoadNext
    <2>4. Hash[Req.name] \in Nat
      BY <2>1 DEF Req, BindInv, PlanHolds
    <2>5. t # Missing /\ t.nbytes \in Nat
      <3>1. LaidOut(Len(reqs))
        BY <2>1 DEF GiveInv, LayoutHolds
      <3>2. QED
        BY <2>1, <2>2, <3>1, LaidTensor DEF Req
    <2>6. /\ t.shard \in DOMAIN dir.shard /\ t.off \in Nat
          /\ t.off + t.nbytes <= dir.shard[t.shard].size /\ Esz(t.dtype) \in {1, 2, 4}
      <3>1. PICK name : name = Req.name
        OBVIOUS
      <3>2. QED
        BY <1>1, <2>2, <2>4, <2>5, <3>1, FoundIn
    <2>7. dir.shard[t.shard].size \in Nat
      BY <1>1, <2>6, WholeShard
    <2>8. \A k \in 1 .. Len(js) : Available(js[k])
      BY <1>3, <2>3, <2>5, <2>6, <2>7, LoadsAvailable
    <2>9. QED
      BY <1>2, <1>3, <1>5, <2>1, <2>3, <2>8
  <1>11. CASE StartJob \/ JobRound
    BY <1>1, <1>11, ReadServes
  <1>12. CASE Loaded
    <2>1. pc = "load" /\ pc' = pc /\ rc' = rc /\ jobs' = Tail(jobs) /\ rd' = Idle
      BY <1>12 DEF Loaded
    <2>2. jobs # <<>>
      <3>1. rd # Idle
        BY <1>12 DEF Loaded, Done, Idle
      <3>2. QED
        BY <1>1, <3>1 DEF JobsHold
    <2>3. \A k \in 1 .. Len(js) : Available(js[k])
      BY <1>1, <1>2, <1>3, <2>1, <2>2, TailAvailable
    <2>4. QED
      BY <1>2, <1>3, <1>5, <2>1, <2>3
  <1>13. CASE LoadFailed
    BY <1>13, WholeThere DEF LoadFailed
  <1>14. CASE BindDone
    <2>1. jobs' = jobs /\ rd' = rd /\ rc' = 0 /\ pc' = "done"
      BY <1>14 DEF BindDone, Return
    <2>2. QED
      BY <1>2, <1>3, <1>5, <2>1
  <1>15. QED
    BY <1>1, <1>4, <1>6, <1>7, <1>8, <1>9, <1>10, <1>11, <1>12, <1>13, <1>14, ByKind

(* The area that widened vectors fill, request by request.                 *)
LEMMA AreaUp ==
  ASSUME NEW p, NEW n \in Nat, \A k \in 1 .. n : RequestOk(p[k])
  PROVE  /\ AreaOf(p, 0) = 0
         /\ \A m \in 1 .. n : /\ Area8(p[m]) \in Nat /\ AreaOf(p, m - 1) \in Nat
                              /\ AreaOf(p, m) = AreaOf(p, m - 1) + Area8(p[m])
         /\ \A m \in 0 .. n : AreaOf(p, m) \in Nat /\ AreaOf(p, m) <= AreaOf(p, n)
  <1>1. ASSUME NEW k \in 1 .. n
        PROVE  Area8(p[k]) \in Nat
    <2>1. PICK x \in Nat : x = 4 * p[k].take
      BY DEF RequestOk
    <2>2. Align8(x) \in Nat
      BY Aligns
    <2>3. QED
      BY <2>1, <2>2 DEF Area8
  <1>2. PICK f : f = [k \in 1 .. n |-> Area8(p[k])]
    OBVIOUS
  <1>3. \A k \in 1 .. n : f[k] = Area8(p[k]) /\ f[k] \in Nat
    BY <1>1, <1>2
  <1>4. ASSUME NEW m \in 0 .. n
        PROVE  AreaOf(p, m) = SumTo(f, m)
    <2>1. \A k \in 1 .. m : f[k] = Area8(p[k])
      BY <1>3
    <2>2. [k \in 1 .. m |-> f[k]] = [k \in 1 .. m |-> Area8(p[k])]
      BY <2>1
    <2>3. QED
      BY <2>2 DEF AreaOf, SumTo
  <1>5. /\ SumTo(f, 0) = 0
        /\ \A m \in 1 .. n : SumTo(f, m - 1) \in Nat /\ SumTo(f, m) = SumTo(f, m - 1) + f[m]
        /\ \A m \in 0 .. n : SumTo(f, m) \in Nat /\ SumTo(f, m) <= SumTo(f, n)
    BY <1>3, SumsUp
  <1>6. ASSUME NEW m \in 1 .. n
        PROVE  /\ Area8(p[m]) \in Nat /\ AreaOf(p, m - 1) \in Nat
               /\ AreaOf(p, m) = AreaOf(p, m - 1) + Area8(p[m])
    <2>1. m \in 0 .. n /\ m - 1 \in 0 .. n
      OBVIOUS
    <2>2. QED
      BY <1>3, <1>4, <1>5, <2>1
  <1>7. ASSUME NEW m \in 0 .. n
        PROVE  AreaOf(p, m) \in Nat /\ AreaOf(p, m) <= AreaOf(p, n)
    <2>1. m \in 0 .. n /\ n \in 0 .. n
      OBVIOUS
    <2>2. QED
      BY <1>4, <1>5, <2>1
  <1>8. AreaOf(p, 0) = 0
    BY <1>4, <1>5
  <1>9. QED
    BY <1>6, <1>7, <1>8

LEMMA AlignTwice ==
  ASSUME NEW x \in Nat, NEW z \in Nat
  PROVE  Align8(Align8(x) + z) = Align8(x) + Align8(z)
  BY DEF Align8

(* What a whole run holds of a request.                                    *)
LEMMA PackFits ==
  ASSUME BindInv, PathHolds, Packs, AtWork, Fitting, CallWhole, NEW n \in 1 .. Len(reqs),
         NEW r, r = reqs[n], NEW t, t = op.pack.t[r.name]
  PROVE  /\ r.name \in DOMAIN op.pack.t /\ ManifestOk(op.pack)
         /\ RequestOk(r) /\ r.take <= r.want /\ r \in ToSet(Requests)
         /\ t.off \in Nat /\ t.nbytes \in Nat
         /\ t.dtype # "I8R" => t.nbytes = r.want * Esz(t.dtype)
         /\ t.dtype = "I8R" => op.kind = "mem" /\ t.nbytes = r.want + 4 * t.rows /\ r.want % t.rows = 0
         /\ r.narrow => t.dtype \in {"BF16", "I8R"}
         /\ ~r.narrow => \/ t.dtype = "F32"
                         \/ t.dtype \in {"BF16", "I8R"} /\ r.name \in Bf16OnDisk /\ r.take = r.want
  <1>1. PackWhole
    BY DEF CallWhole, Packs
  <1>2. reqs = Requests /\ r \in ToSet(reqs)
    BY ListedRequest DEF PathHolds
  <1>3. r.name \in DOMAIN op.pack.t /\ ManifestOk(op.pack)
    BY <1>1, <1>2 DEF PackWhole
  <1>4. t.off \in Nat /\ t.nbytes \in Nat /\ RequestOk(r)
    BY <1>3, PackAsked
  <1>5. r.take <= r.want
    BY <1>2 DEF Fitting
  <1>6. /\ t.dtype # "I8R" => t.nbytes = r.want * Esz(t.dtype)
        /\ t.dtype = "I8R" => op.kind = "mem" /\ t.nbytes = r.want + 4 * t.rows /\ r.want % t.rows = 0
    BY <1>1, <1>2 DEF PackWhole
  <1>7. r.narrow => t.dtype \in {"BF16", "I8R"}
    BY <1>1, <1>2, Zenon DEF PackWhole
  <1>8. ~r.narrow => t.dtype = "F32" \/ (t.dtype \in {"BF16", "I8R"} /\ r.name \in Bf16OnDisk)
    BY <1>1, <1>2, Zenon DEF PackWhole
  <1>9. r.name \in Bf16OnDisk => r.take = r.want
    <2>1. Uncut(reqs)
      BY <1>2, RequestsOnce DEF Requests
    <2>2. Kept(r)
      BY <2>1 DEF Uncut
    <2>3. QED
      BY <2>2 DEF Kept, Bf16OnDisk
  <1>10. ~r.narrow => \/ t.dtype = "F32"
                      \/ t.dtype \in {"BF16", "I8R"} /\ r.name \in Bf16OnDisk /\ r.take = r.want
    BY <1>8, <1>9, Zenon
  <1>11. QED
    BY <1>2, <1>3, <1>4, <1>5, <1>6, <1>7, <1>10, Zenon

(* Where the area stands after the request at hand.                        *)
LEMMA AreaTakes ==
  ASSUME BindInv, PathHolds, op.kind = "mem", AtWork, Fitting, next \in 1 .. Len(reqs),
         Align8(w) <= AreaOf(reqs, next - 1)
  PROVE  /\ Align8(w) <= AreaOf(reqs, next)
         /\ Req.name \in Bf16OnDisk =>
              /\ Align8(w) + 4 * Req.take <= WidenBytes
              /\ Align8(Align8(w) + 4 * Req.take) <= AreaOf(reqs, next)
  <1>1. PICK n \in Nat : n = Len(reqs)
    BY DEF BindInv, PlanHolds, IsPlan, IsSeq
  <1>2. PICK p : p = reqs
    OBVIOUS
  <1>3. \A k \in 1 .. n : RequestOk(p[k])
    BY <1>1, <1>2 DEF BindInv, PlanHolds, IsPlan
  <1>4. PICK m \in 1 .. n : m = next
    BY <1>1
  <1>5. /\ Area8(p[m]) \in Nat /\ AreaOf(p, m - 1) \in Nat
        /\ AreaOf(p, m) = AreaOf(p, m - 1) + Area8(p[m])
        /\ AreaOf(p, m) \in Nat /\ AreaOf(p, m) <= AreaOf(p, n)
    <2>1. m \in 0 .. n
      OBVIOUS
    <2>2. QED
      BY <1>3, <2>1, AreaUp
  <1>6. AreaOf(p, n) <= WidenBytes
    BY <1>1, <1>2 DEF Fitting, PathHolds
  <1>7. WidenBytes \in Int
    <2>1. PICK a, b, c, d, f, g \in Nat : /\ a = Hidden /\ b = Cfg.q_lora /\ c = Cfg.kv_lora
                                         /\ d = Cfg.latent /\ f = Cfg.n_experts /\ g = Slack
      BY CountsTyped, CountsAssumption
    <2>2. PICK e \in Nat : e = f * a
      BY Products
    <2>3. WidenBytes = 4 * (6 * a + b + c + d + e) + g
      BY <2>1, <2>2 DEF WidenBytes
    <2>4. QED
      BY <2>3
  <1>8. PICK x \in Nat : x = w
    BY DEF BindInv, CountersHold
  <1>9. PICK z \in Nat : z = 4 * p[m].take
    BY <1>3 DEF RequestOk
  <1>10. PICK a \in Nat, b \in Nat : a = Align8(x) /\ b = Align8(z) /\ z <= b
    BY Aligns
  <1>11. PICK u \in Nat, v \in Nat, e \in Nat : u = AreaOf(p, m - 1) /\ v = AreaOf(p, m) /\ e = AreaOf(p, n)
    <2>1. n \in 0 .. n
      OBVIOUS
    <2>2. AreaOf(p, n) \in Nat
      BY <1>3, <2>1, AreaUp
    <2>3. QED
      BY <1>5, <2>2
  <1>12. a <= u
    BY <1>2, <1>4, <1>8, <1>10, <1>11
  <1>13. a <= v
    BY <1>5, <1>11, <1>12
  <1>14. ASSUME Req.name \in Bf16OnDisk
         PROVE  a + z <= WidenBytes /\ Align8(a + z) <= v
    <2>1. Area8(p[m]) = b
      BY <1>2, <1>4, <1>9, <1>10, <1>14 DEF Area8, Req
    <2>2. a + b <= v
      BY <1>5, <1>11, <1>12, <2>1
    <2>3. Align8(a + z) = a + b
      BY <1>10, AlignTwice
    <2>4. PICK area \in Int : area = WidenBytes
      BY <1>7
    <2>5. v <= e /\ e <= area
      BY <1>5, <1>6, <1>11, <2>4
    <2>6. QED
      BY <1>10, <2>2, <2>3, <2>4, <2>5
  <1>15. Align8(w) = a /\ AreaOf(reqs, next) = v /\ 4 * Req.take = z
    BY <1>2, <1>4, <1>8, <1>9, <1>10, <1>11 DEF Req
  <1>16. QED
    BY <1>13, <1>14, <1>15

(* Nothing of a whole run is refused.                                      *)
LEMMA MemNever ==
  ASSUME BindInv, PathHolds, op.kind = "mem", AtWork, Fitting, CallWhole, next \in 1 .. Len(reqs),
         Align8(w) <= AreaOf(reqs, next - 1)
  PROVE  InRun /\ MemFits /\ (PointedAt \/ ((Entry8.dtype = "I8R" => Row8Fits) /\ Widens))
  <1>1. PICK r, t : r = Req /\ t = Entry8
    OBVIOUS
  <1>2. r = reqs[next] /\ t = op.pack.t[r.name] /\ Packs
    BY <1>1 DEF Req, Entry8, Packs
  <1>3. /\ r.name \in DOMAIN op.pack.t
        /\ RequestOk(r) /\ r.take <= r.want /\ r \in ToSet(Requests)
        /\ t.off \in Nat /\ t.nbytes \in Nat
        /\ t.dtype # "I8R" => t.nbytes = r.want * Esz(t.dtype)
        /\ t.dtype = "I8R" => t.nbytes = r.want + 4 * t.rows /\ r.want % t.rows = 0
        /\ r.narrow => t.dtype \in {"BF16", "I8R"}
        /\ ~r.narrow => \/ t.dtype = "F32"
                        \/ t.dtype \in {"BF16", "I8R"} /\ r.name \in Bf16OnDisk /\ r.take = r.want
    <2>1. PICK n \in 1 .. Len(reqs) : r = reqs[n]
      BY <1>2
    <2>2. QED
      BY <1>2, <2>1, PackFits
  <1>4. t.dtype \in {"F32", "BF16", "I8R"}
    BY <1>3
  <1>5. InRun
    BY <1>1, <1>3 DEF InRun
  <1>6. MemFits
    <2>1. PICK a \in Nat, n \in Nat : a = r.want /\ n = t.nbytes
      BY <1>3 DEF RequestOk
    <2>2. CASE t.dtype = "F32"
      <3>1. n = a * 4
        BY <1>3, <2>1, <2>2 DEF Esz
      <3>2. n \div 4 = a
        BY <3>1
      <3>3. QED
        BY <1>1, <1>3, <2>1, <2>2, <3>2 DEF MemFits, MemEsz
    <2>3. CASE t.dtype = "BF16"
      <3>1. n = a * 2
        BY <1>3, <2>1, <2>3 DEF Esz
      <3>2. n \div 2 = a
        BY <3>1
      <3>3. QED
        BY <1>1, <1>3, <2>1, <2>3, <3>2 DEF MemFits, MemEsz
    <2>4. CASE t.dtype = "I8R"
      BY <1>1, <2>4 DEF MemFits
    <2>5. QED
      BY <1>4, <2>2, <2>3, <2>4
  <1>7. CASE PointedAt
    BY <1>5, <1>6, <1>7
  <1>8. CASE ~PointedAt
    <2>1. ~r.narrow /\ t.dtype # "F32"
      BY <1>1, <1>8, Zenon DEF PointedAt
    <2>2. r.name \in Bf16OnDisk /\ r.take = r.want
      BY <1>3, <2>1, Zenon
    <2>3. Widens
      BY <1>1, <2>2, AreaTakes DEF Widens
    <2>4. ASSUME t.dtype = "I8R"
          PROVE  Row8Fits
      <3>1. t.rows \in Nat \ {0}
        BY <1>2, <1>3, <2>1, <2>4, Zenon DEF Fitting
      <3>2. PICK a \in Nat, d \in Nat \ {0} : a = r.take /\ d = t.rows
        BY <1>3, <3>1 DEF RequestOk
      <3>3. t.nbytes - a = 4 * d
        BY <1>3, <2>2, <2>4, <3>2
      <3>4. (t.nbytes - a) % 4 = 0 /\ (t.nbytes - a) \div 4 = d
        BY <3>3
      <3>5. a % d = 0
        BY <1>3, <2>2, <2>4, <3>2
      <3>6. QED
        BY <1>1, <3>2, <3>4, <3>5 DEF Row8Fits, Rows8
    <2>5. QED
      BY <1>1, <1>5, <1>6, <2>3, <2>4
  <1>9. QED
    BY <1>7, <1>8

LEMMA AcquireNever ==
  ASSUME BindInv, PathHolds, op.kind = "stream", AtWork, Fitting, CallWhole, next \in 1 .. Len(reqs)
  PROVE  StreamFits
  <1>1. PICK r, t : r = Req /\ t = Entry8
    OBVIOUS
  <1>2. r = reqs[next] /\ t = op.pack.t[r.name] /\ Packs
    BY <1>1 DEF Req, Entry8, Packs
  <1>3. /\ r.name \in DOMAIN op.pack.t /\ r.take <= r.want
        /\ t.dtype # "I8R" => t.nbytes = r.want * Esz(t.dtype)
        /\ t.dtype = "I8R" => op.kind = "mem"
        /\ r.narrow => t.dtype \in {"BF16", "I8R"}
        /\ ~r.narrow => t.dtype = "F32" \/ t.dtype \in {"BF16", "I8R"}
    BY <1>2, PackFits, Zenon
  <1>4. t.dtype # "I8R"
    BY <1>3
  <1>5. t.dtype \in {"BF16", "F32"}
    BY <1>3, <1>4
  <1>6. QED
    BY <1>1, <1>3, <1>4, <1>5 DEF StreamFits, InRun

(* A bind from a packed run.                                               *)
LEMMA PackServes ==
  ASSUME BindInv, GiveInv, OpensWhole, Packs, AtWork, Honest, faults' = 0, Serves, OtherSteps,
         dir' = dir, op' = op, reqs' = reqs, \A name : Find(name)' = Find(name)
  PROVE  Serves'
  <1>1. /\ OneOfCalls /\ JobsHold /\ Fitting /\ CallWhole /\ PathHolds /\ PathOf
        /\ w \in Nat /\ Len(reqs) \in Nat
    BY DEF BindInv, StoreHolds, JobsHold, Honest, GiveInv, PathHolds, CountersHold, PlanHolds, IsPlan, IsSeq
  <1>2. /\ rc # -1 /\ (\A k \in 1 .. Len(jobs) : Available(jobs[k])) /\ (rd # Idle => ComesWhole(rd))
    BY DEF Serves
  <1>3. PICK js, r : js = jobs' /\ r = rd'
    OBVIOUS
  <1>4. ~Begin
    BY DEF Begin, Opened, AtWork
  <1>5. ASSUME rc' # -1, pc' \notin {"resolve", "expert"}, jobs' = jobs, rd' = rd,
               pc' = "mem" => narrowed_all' /\ Align8(w') <= AreaOf(reqs', next' - 1)
        PROVE  Serves'
    BY <1>2, <1>3, <1>5, ServesTo
  <1>6. CASE Manifest
    <2>1. ManifestOk(op.pack)
      BY <1>1 DEF CallWhole, Packs, PackWhole
    <2>2. /\ pc = "manifest" /\ jobs' = jobs /\ rd' = rd /\ next' = next
          /\ pc' = (IF op.kind = "mem" THEN "mem" ELSE "acquire") /\ UNCHANGED outVars
      BY <1>6, <2>1 DEF Manifest
    <2>3. rc' = rc /\ w' = w /\ narrowed_all' = narrowed_all
      BY <2>2 DEF outVars
    <2>4. w = 0 /\ narrowed_all /\ next = 1
      BY <1>1, <2>2, Zenon DEF OpensWhole, PathHolds
    <2>5. Align8(0) = 0
      BY DEF Align8
    <2>6. AreaOf(reqs, 0) = 0
      BY <1>1, AreaUp DEF BindInv, PlanHolds, IsPlan
    <2>7. narrowed_all'
      BY <2>3, <2>4, Zenon
    <2>8. Align8(w') <= AreaOf(reqs', next' - 1)
      <3>1. w' = 0 /\ next' - 1 = 0 /\ reqs' = reqs
        BY <2>2, <2>3, <2>4
      <3>2. Align8(w') = 0 /\ AreaOf(reqs', next' - 1) = 0
        BY <2>5, <2>6, <3>1
      <3>3. QED
        BY <3>2
    <2>9. QED
      BY <1>2, <1>5, <2>2, <2>3, <2>7, <2>8
  <1>7. ASSUME pc = "mem"
        PROVE  /\ op.kind = "mem" /\ narrowed_all /\ Align8(w) <= AreaOf(reqs, next - 1)
               /\ next \in 1 .. Len(reqs) + 1
    <2>1. op.kind = "mem" /\ next \in 1 .. Len(reqs) + 1
      BY <1>1, <1>7 DEF PathOf, BindInv, PlanHolds
    <2>2. narrowed_all /\ Align8(w) <= AreaOf(reqs, next - 1)
      BY <1>7, Zenon DEF Serves
    <2>3. QED
      BY <2>1, <2>2
  <1>8. CASE MemRefused
    <2>1. next \in 1 .. Len(reqs) /\ pc = "mem"
      BY <1>1, <1>7, <1>8 DEF MemRefused
    <2>2. InRun /\ MemFits /\ (PointedAt \/ ((Entry8.dtype = "I8R" => Row8Fits) /\ Widens))
      BY <1>1, <1>7, <2>1, MemNever
    <2>3. QED
      BY <1>8, <2>2, Zenon DEF MemRefused
  <1>9. CASE MemPoint
    <2>1. /\ next \in 1 .. Len(reqs) /\ pc = "mem" /\ pc' = pc /\ next' = next + 1 /\ w' = w
          /\ jobs' = jobs /\ rd' = rd /\ rc' = rc
      BY <1>1, <1>7, <1>9 DEF MemPoint
    <2>2. narrowed_all'
      <3>1. PICK q, t : q = reqs[next] /\ t = op.pack.t[q.name]
        OBVIOUS
      <3>2. q.narrow => t.dtype \in {"BF16", "I8R"}
        BY <1>1, <2>1, <3>1, PackFits
      <3>3. q.narrow => t.dtype # "F32"
        BY <3>2
      <3>4. narrowed_all' = (narrowed_all /\ (Req.narrow => Entry8.dtype # "F32"))
        BY <1>9 DEF MemPoint
      <3>5. narrowed_all
        BY <1>7, <2>1
      <3>6. QED
        BY <3>1, <3>3, <3>4, <3>5, Zenon DEF Req, Entry8
    <2>3. Align8(w) <= AreaOf(reqs, next)
      BY <1>1, <1>7, <2>1, AreaTakes
    <2>4. next' - 1 = next
      BY <2>1
    <2>5. Align8(w') <= AreaOf(reqs', next' - 1)
      BY <2>1, <2>3, <2>4
    <2>6. QED
      BY <1>2, <1>5, <2>1, <2>2, <2>5
  <1>10. CASE MemWiden
    <2>1. /\ next \in 1 .. Len(reqs) /\ pc = "mem" /\ pc' = pc /\ next' = next + 1
          /\ w' = Align8(w) + 4 * Req.take
          /\ jobs' = jobs /\ rd' = rd /\ rc' = rc
      BY <1>1, <1>7, <1>10 DEF MemWiden
    <2>2. narrowed_all'
      <3>1. narrowed_all' = narrowed_all
        BY <1>10 DEF MemWiden
      <3>2. QED
        BY <1>7, <2>1, <3>1, Zenon
    <2>3. Req.name \in Bf16OnDisk
      <3>1. PICK q, t : q = reqs[next] /\ t = op.pack.t[q.name]
        OBVIOUS
      <3>2. ~q.narrow => t.dtype = "F32" \/ q.name \in Bf16OnDisk
        BY <1>1, <2>1, <3>1, PackFits
      <3>3. ~PointedAt
        BY <1>10 DEF MemWiden
      <3>4. ~q.narrow /\ t.dtype # "F32"
        BY <3>1, <3>3, Zenon DEF PointedAt, Req, Entry8
      <3>5. QED
        BY <3>1, <3>2, <3>4, Zenon DEF Req
    <2>4. Align8(Align8(w) + 4 * Req.take) <= AreaOf(reqs, next)
      BY <1>1, <1>7, <2>1, <2>3, AreaTakes
    <2>5. next' - 1 = next
      BY <2>1
    <2>6. Align8(w') <= AreaOf(reqs', next' - 1)
      BY <2>1, <2>4, <2>5
    <2>7. QED
      BY <1>2, <1>5, <2>1, <2>2, <2>6
  <1>11. CASE MemDone
    <2>1. pc = "mem" /\ jobs' = jobs /\ rd' = rd
      BY <1>11 DEF MemDone
    <2>2. narrowed_all \/ i8
      BY <1>7, <2>1
    <2>3. Return(0)
      BY <1>11, <2>2, Zenon DEF MemDone
    <2>4. rc' = 0 /\ pc' = "done"
      BY <2>3 DEF Return
    <2>5. QED
      BY <1>5, <2>1, <2>4
  <1>12. CASE Acquire
    <2>1. pc = "acquire" /\ next \in 1 .. Len(reqs) /\ op.kind = "stream"
      BY <1>1, <1>12 DEF Acquire, PathOf, BindInv, PlanHolds
    <2>2. StreamFits
      BY <1>1, <2>1, AcquireNever
    <2>3. pc' = pc /\ rc' = rc /\ jobs' = jobs /\ rd' = rd
      BY <1>12, <2>2 DEF Acquire
    <2>4. QED
      BY <1>2, <1>5, <2>1, <2>3
  <1>13. CASE AcquireDone
    <2>1. pc' = "done" /\ rc' = 0 /\ jobs' = jobs /\ rd' = rd
      BY <1>13 DEF AcquireDone, Return
    <2>2. QED
      BY <1>5, <2>1
  <1>14. QED
    BY <1>1, <1>4, <1>6, <1>8, <1>9, <1>10, <1>11, <1>12, <1>13, ByKind

-----------------------------------------------------------------------------
(* How many elements a matrix has.                                         *)
LEMMA MatrixNumel ==
  ASSUME NEW v \in Nat, NEW h \in Nat
  PROVE  Numel(<<v, h>>) = v * h
  <1> DEFINE q == <<v, h>>
             D == DOMAIN q
             Val(g, s) == IF s = {} THEN 1 ELSE g[s \ {Max(s)}] * q[Max(s)]
             iter == CHOOSE g : g = [s \in SUBSET D |-> Val(g, s)]
  <1>1. Numel(q) = iter[D]
    BY DEF Numel, FoldLeft, MapThenFoldSet
  <1>2. D = {1, 2} /\ q[1] = v /\ q[2] = h
    OBVIOUS
  <1>3. Max({1, 2}) = 2 /\ Max({1}) = 1 /\ Max({2}) = 2
    BY DEF Max
  <1>4. {1, 2} \ {2} = {1} /\ {1} \ {1} = {} /\ {2} \ {2} = {}
    OBVIOUS
  <1>5. \A s \in SUBSET D : s = {} \/ s = {1} \/ s = {2} \/ s = {1, 2}
    BY <1>2
  <1>6. PICK p \in Nat : p = v * h
    OBVIOUS
  <1>7. PICK g : g = [s \in SUBSET D |-> IF s = {} THEN 1 ELSE IF s = {1} THEN v
                                          ELSE IF s = {2} THEN h ELSE p]
    OBVIOUS
  <1>8. {1} # {2} /\ {1, 2} # {1} /\ {1, 2} # {2} /\ {1} # {} /\ {2} # {} /\ {1, 2} # {}
    OBVIOUS
  <1>9. g[{}] = 1 /\ g[{1}] = v /\ g[{2}] = h /\ g[{1, 2}] = p
    BY <1>2, <1>7, <1>8
  <1>10. Val(g, {}) = 1 /\ Val(g, {1}) = v /\ Val(g, {2}) = h /\ Val(g, {1, 2}) = p
    <2>1. 1 * v = v /\ 1 * h = h /\ v * h = p
      BY <1>6
    <2>2. Val(g, {}) = 1
      OBVIOUS
    <2>3. Val(g, {1}) = g[{}] * v
      BY <1>2, <1>3, <1>4, <1>8
    <2>4. Val(g, {2}) = g[{}] * h
      BY <1>2, <1>3, <1>4, <1>8
    <2>5. Val(g, {1, 2}) = g[{1}] * h
      BY <1>2, <1>3, <1>4, <1>8
    <2> HIDE DEF Val
    <2>6. QED
      BY <1>9, <2>1, <2>2, <2>3, <2>4, <2>5
  <1> HIDE DEF Val
  <1>11. g = [s \in SUBSET D |-> Val(g, s)]
    <2>1. \A s \in SUBSET D : g[s] = Val(g, s)
      BY <1>5, <1>9, <1>10
    <2>2. g = [s \in SUBSET D |-> g[s]]
      BY <1>7
    <2> HIDE DEF D
    <2>3. QED
      BY <2>1, <2>2
  <1>12. iter = [s \in SUBSET D |-> Val(iter, s)]
    <2> HIDE DEF D
    <2>1. QED
      BY <1>11
  <1>13. \A s \in SUBSET D : iter[s] = Val(iter, s)
    <2> HIDE DEF iter, D
    <2>1. QED
      BY <1>12
  <1> HIDE DEF iter
  <1>14. iter[{}] = 1
    BY <1>2, <1>13 DEF Val
  <1>15. iter[{1}] = v
    <2>1. iter[{1}] = Val(iter, {1})
      BY <1>2, <1>13
    <2>2. Val(iter, {1}) = iter[{}] * v
      BY <1>2, <1>3, <1>4, <1>8 DEF Val
    <2>3. QED
      BY <1>14, <2>1, <2>2
  <1>16. iter[{1, 2}] = v * h
    <2>1. iter[{1, 2}] = Val(iter, {1, 2})
      BY <1>2, <1>13
    <2>2. Val(iter, {1, 2}) = iter[{1}] * h
      BY <1>2, <1>3, <1>4, <1>8 DEF Val
    <2>3. QED
      BY <1>15, <2>1, <2>2
  <1>17. QED
    BY <1>1, <1>2, <1>16

(* A matrix the rows are streamed of is there, and its rows fit a chunk.   *)
LEMMA StreamPrepared ==
  ASSUME BindInv, PathHolds, AtWork, Streams, Fitting, CallWhole
  PROVE  /\ Streamable(Find("embed_tokens")) /\ Streamable(Find("lm_head"))
         /\ Streamable(Streamed) /\ PerChunk >= 1 /\ Prepared
  <1>1. StoreHolds /\ ListHolds /\ TableHolds
    BY DEF BindInv
  <1>2. ASSUME NEW n \in {"embed_tokens", "lm_head"}
        PROVE  Streamable(Find(n))
    <2>1. Hash[n] \in Nat
      BY CallsAssumption
    <2>2. PICK x \in DirTensors : /\ x[2].name = n /\ x[2].shape = <<Cfg.vocab, Cfg.hidden>>
                                  /\ x[2].dtype \in {"BF16", "F32"}
      BY DEF Streams, CallWhole, StreamWhole
    <2>3. PICK t : t = Find(n)
      OBVIOUS
    <2>4. t # Missing /\ t.shape = x[2].shape /\ t.dtype = x[2].dtype
      BY <1>1, <2>1, <2>2, <2>3, OnDiskFound
    <2>5. Streamable(t)
      BY <2>2, <2>4 DEF Streamable
    <2>6. QED
      BY <2>3, <2>5
  <1>3. Streamable(Streamed)
    <2>1. StreamName \in {"embed_tokens", "lm_head"}
      BY DEF StreamName
    <2>2. QED
      BY <1>2, <2>1 DEF Streamed
  <1>4. PerChunk >= 1
    <2>1. PICK row : row = Cfg.hidden * Esz(Streamed.dtype)
      OBVIOUS
    <2>2. Esz(Streamed.dtype) \in {2, 4}
      <3>1. Streamed.dtype \in {"BF16", "F32"}
        BY <1>3, Zenon DEF Streamable
      <3>2. \A y \in {"BF16", "F32"} : Esz(y) \in {2, 4}
        BY DEF Esz
      <3>3. QED
        BY <3>1, <3>2
    <2>3. PICK h \in Nat \ {0} : h = Cfg.hidden
      <3>1. Cfg.hidden \in Nat
        BY CountsTyped DEF Hidden
      <3>2. Cfg.hidden > 0
        BY CfgAssumption DEF CfgLoads
      <3>3. QED
        BY <3>1, <3>2
    <2>4. PICK s \in Nat : s = StreamChunk /\ 4 * h <= s
      BY <2>3, CallsAssumption DEF Fitting, Hidden
    <2>5. row \in Nat \ {0} /\ row <= s
      <3>1. row = h * 2 \/ row = h * 4
        BY <2>1, <2>2, <2>3
      <3>2. QED
        BY <2>3, <2>4, <3>1
    <2>6. s \div row >= 1
      <3>1. /\ s \div row \in Int /\ s % row \in 0 .. row - 1
            /\ (s \div row) * row \in Int /\ s = (s \div row) * row + (s % row)
        BY <2>4, <2>5, DivMod
      <3>2. s \div row \in Nat
        BY <2>4, <2>5, DivNat
      <3>3. PICK d \in Nat, m \in 0 .. row - 1 : d = s \div row /\ m = s % row
        BY <3>1, <3>2
      <3>4. s = d * row + m
        BY <3>1, <3>3
      <3>5. d = 0 => d * row = 0
        BY <2>5
      <3>6. d # 0
        BY <2>4, <2>5, <3>3, <3>4, <3>5
      <3>7. QED
        BY <3>3, <3>6
    <2>7. QED
      BY <2>1, <2>4, <2>6 DEF PerChunk, RowsPerChunk
  <1>5. Prepared
    <2>1. op.kind \notin {"range", "expert"}
      BY DEF Streams
    <2>2. QED
      BY <1>2, <1>4, <2>1 DEF Prepared, PerChunk, Streamed
  <1>6. QED
    BY <1>2, <1>3, <1>4, <1>5

(* Rows that follow one another lie one behind the other.                  *)
LEMMA RowsLie ==
  ASSUME NEW row \in Nat \ {0}, NEW v \in Nat, NEW first \in Nat, NEW n \in Nat, first + n <= v
  PROVE  /\ first * row \in Nat /\ n * row \in Nat /\ v * row \in Nat
         /\ first * row + n * row <= v * row
  <1>1. first * row \in Nat /\ n * row \in Nat /\ v * row \in Nat
    OBVIOUS
  <1>2. PICK rest \in Nat : rest = v - (first + n) /\ v = first + n + rest
    OBVIOUS
  <1>3. v * row = first * row + n * row + rest * row /\ rest * row \in Nat
    BY <1>2
  <1>4. PICK a, b, c, d \in Nat : a = first * row /\ b = n * row /\ c = rest * row /\ d = v * row
    BY <1>1, <1>3
  <1>5. d = a + b + c
    BY <1>3, <1>4
  <1>6. a + b <= d
    BY <1>4, <1>5
  <1>7. QED
    BY <1>1, <1>4, <1>6

LEMMA RowsOfAChunk ==
  ASSUME NEW s \in Nat, NEW row \in Nat \ {0}, NEW per, per = s \div row
  PROVE  per \in Nat /\ per * row <= s
  <1>1. /\ s \div row \in Int /\ s % row \in 0 .. row - 1
        /\ (s \div row) * row \in Int /\ s = (s \div row) * row + (s % row)
    BY DivMod
  <1>2. per \in Nat
    BY DivNat
  <1>3. PICK m \in Nat : m = s % row
    BY <1>1
  <1>4. s = per * row + m
    BY <1>1, <1>3
  <1>5. PICK p \in Nat : p = per * row
    BY <1>2
  <1>6. QED
    BY <1>2, <1>3, <1>4, <1>5

(* The reads of a stream are of rows there are, and fit the buffer.        *)
LEMMA RowsAvailable ==
  ASSUME BindInv, AtWork, Streams, Fitting, Streamable(Streamed), PerChunk >= 1,
         NEW c \in 1 .. Chunks, NEW j, j = RowJob(Streamed, First(c), Count(c))
  PROVE  Available(j)
  <1>1. PICK t : t = Streamed
    OBVIOUS
  <1>2. PICK row \in Nat \ {0} : row = Cfg.hidden * Esz(t.dtype) /\ row = Row
    BY <1>1, StreamedIs DEF Row
  <1>3. PICK first \in Nat, n \in Nat : first = First(c) /\ n = Count(c)
    BY StreamedIs
  <1>4. PICK per \in Nat \ {0}, v \in Nat \ {0} : per = PerChunk /\ v = Cfg.vocab
    BY StreamNumbers DEF PerChunk
  <1>5. n <= per /\ first + n <= v
    <2>1. CASE op.kind = "embed_row"
      <3>1. first = op.row /\ n = 1 /\ op.row < Cfg.vocab
        BY <1>3, <2>1 DEF First, Count, Fitting
      <3>2. QED
        BY <1>4, <3>1
    <2>2. CASE op.kind # "embed_row"
      <3>1. Chunks = (v + per - 1) \div per
        BY <1>4, <2>2 DEF Chunks
      <3>2. PICK at, m : at = (c - 1) * per /\ m = Min({per, v - at})
        OBVIOUS
      <3>3. first = at /\ n = m
        BY <1>3, <1>4, <2>2, <3>2 DEF First, Count
      <3>4. PICK rest \in Int : rest = v - at
        BY <3>3
      <3>5. n <= per /\ n <= rest
        <4>1. n = Min({per, rest})
          BY <3>2, <3>3, <3>4
        <4>2. QED
          BY <4>1, LesserOfTwo
      <3>6. QED
        BY <3>3, <3>4, <3>5
    <2>3. QED
      BY <2>1, <2>2
  <1>6. /\ t.shard \in DOMAIN dir.shard /\ t.off \in Nat /\ t.nbytes \in Int
        /\ t.off + t.nbytes <= dir.shard[t.shard].size
        /\ t.nbytes = Numel(t.shape) * Esz(t.dtype) /\ Esz(t.dtype) \in {2, 4}
        /\ Cfg.hidden \in Nat
    <2>1. PICK name : name = StreamName
      OBVIOUS
    <2>2. Hash[name] \in Nat /\ t # Missing /\ t = Find(name) /\ Esz(t.dtype) \in {2, 4}
      BY <1>1, <2>1, StreamedIs DEF Streamed
    <2>3. /\ t.shard \in DOMAIN dir.shard /\ t.off \in Nat /\ t.nbytes \in Int
          /\ t.off + t.nbytes <= dir.shard[t.shard].size
          /\ t.nbytes = Numel(t.shape) * Esz(t.dtype)
      BY <2>2, FoundIn DEF BindInv
    <2>4. QED
      BY <2>2, <2>3, StreamNumbers, <1>1 DEF PerChunk
  <1>7. t.nbytes = v * row
    <2>1. PICK h \in Nat, e \in {2, 4} : h = Cfg.hidden /\ e = Esz(t.dtype)
      BY <1>6
    <2>2. t.shape = <<v, h>>
      BY <1>1, <1>4, <2>1, Zenon DEF Streamable
    <2>3. Numel(t.shape) = v * h
      BY <2>2, MatrixNumel
    <2>4. t.nbytes = v * h * e
      BY <1>6, <2>1, <2>3
    <2>5. v * (h * e) = v * h * e
      BY Regroup
    <2>6. row = h * e
      BY <1>2, <2>1
    <2>7. QED
      BY <2>4, <2>5, <2>6
  <1>8. PICK skip, len, all \in Nat : /\ skip = first * row /\ len = n * row /\ all = v * row
                                      /\ skip + len <= all
    BY <1>5, RowsLie
  <1>9. PICK s \in Nat : s = StreamChunk /\ len <= s
    <2>1. PICK s \in Nat : s = StreamChunk
      BY CallsAssumption
    <2>2. per = s \div row
      BY <1>1, <1>2, <1>4, <2>1 DEF PerChunk, RowsPerChunk
    <2>3. per * row <= s
      BY <2>1, <2>2, RowsOfAChunk
    <2>4. per * row \in Nat /\ n * row <= per * row
      <3>1. 0 + n <= per
        BY <1>5
      <3>2. 0 * row + n * row <= per * row /\ per * row \in Nat
        BY <1>4, <3>1, RowsLie
      <3>3. 0 * row = 0
        OBVIOUS
      <3>4. QED
        BY <1>8, <3>2, <3>3
    <2>5. PICK pr \in Nat : pr = per * row
      BY <2>4
    <2>6. len <= s
      BY <1>8, <2>1, <2>3, <2>4, <2>5
    <2>7. QED
      BY <2>1, <2>6
  <1>10. j = Job(t.shard, t.off + skip, len, "aligned", s + 2 * Align, 0)
    BY <1>1, <1>2, <1>3, <1>8, <1>9 DEF RowJob
  <1>11. /\ j.shard = t.shard /\ j.off = t.off + skip /\ j.n = len /\ j.via = "aligned"
         /\ j.cap = s + 2 * Align
    BY <1>10 DEF Job
  <1>12. PICK A \in Nat : A = Align
    BY ArchiveAssumption
  <1>13. PICK end \in Int : end = t.off + t.nbytes
    BY <1>6
  <1>14. t.off + skip \in Nat /\ t.off + skip + len <= end
    BY <1>6, <1>7, <1>8, <1>13
  <1>15. dir.shard[t.shard].size \in Int
    <2>1. OneOfCalls
      BY DEF BindInv, StoreHolds
    <2>2. QED
      BY <1>6, <2>1, InputTyped DEF ShardType
  <1>16. j.off + j.n <= dir.shard[j.shard].size
    BY <1>6, <1>8, <1>11, <1>13, <1>14, <1>15
  <1>17. j.cap >= j.n + 2 * Align
    BY <1>8, <1>9, <1>11, <1>12
  <1>18. QED
    BY <1>8, <1>11, <1>14, <1>16, <1>17 DEF Available

(* Streamed rows.                                                          *)
LEMMA StreamServes ==
  ASSUME BindInv, GiveInv, Streams, AtWork, Honest, faults' = 0, Serves, OtherSteps,
         dir' = dir, op' = op, \A name : Find(name)' = Find(name)
  PROVE  Serves'
  <1>1. /\ OneOfCalls /\ JobsHold /\ IsSeq(jobs) /\ Fitting /\ CallWhole /\ PathHolds /\ PathOf
    BY DEF BindInv, StoreHolds, JobsHold, Honest, GiveInv, PathHolds
  <1>2. /\ rc # -1 /\ (\A k \in 1 .. Len(jobs) : Available(jobs[k])) /\ (rd # Idle => ComesWhole(rd))
    BY DEF Serves
  <1>3. PICK js, r : js = jobs' /\ r = rd'
    OBVIOUS
  <1>4. ~Begin
    BY DEF Begin, Opened, AtWork
  <1>5. ASSUME rc' # -1, pc' \notin {"mem", "expert", "resolve"},
               \A k \in 1 .. Len(js) : Available(js[k]), r = Idle \/ ComesWhole(r)
        PROVE  Serves'
    BY <1>3, <1>5, ServesTo
  <1>6. Streamable(Streamed) /\ PerChunk >= 1 /\ Prepared
    BY <1>1, StreamPrepared
  <1>7. CASE Prepare
    <2>1. /\ rd' = rd /\ rc' = rc /\ pc' = "stream"
          /\ js = IF op.kind = "embed_row" THEN <<RowJob(Streamed, op.row, 1)>> ELSE ProjectJobs(Streamed)
      <3>1. op.kind \in {"embed_row", "project"}
        BY DEF Streams
      <3>2. QED
        BY <1>3, <1>7, <3>1 DEF Prepare, outVars, Streamed
    <2>2. Chunks \in Nat \ {0}
      BY <1>6, StreamedIs
    <2>3. Len(js) = Chunks /\ \A i \in 1 .. Chunks : js[i] = RowJob(Streamed, First(i), Count(i))
      BY <2>1, <2>2, StreamJobs
    <2>4. \A k \in 1 .. Len(js) : Available(js[k])
      BY <1>1, <1>6, <2>3, RowsAvailable
    <2>5. QED
      BY <1>2, <1>3, <1>5, <2>1, <2>4
  <1>8. CASE PrepareRefused
    BY <1>6, <1>8 DEF PrepareRefused
  <1>9. CASE StartJob \/ JobRound
    BY <1>1, <1>9, ReadServes
  <1>10. CASE StreamedRows
    <2>1. /\ pc = "stream" /\ jobs' = Tail(jobs) /\ rd' = Idle
          /\ \/ rc' = 0 /\ pc' = "done"
             \/ rc' = rc /\ pc' = pc
      BY <1>10 DEF StreamedRows, Return
    <2>2. jobs # <<>>
      <3>1. rd # Idle
        BY <1>10 DEF StreamedRows, Done, Idle
      <3>2. QED
        BY <1>1, <3>1 DEF JobsHold
    <2>3. \A k \in 1 .. Len(js) : Available(js[k])
      BY <1>1, <1>2, <1>3, <2>1, <2>2, TailAvailable
    <2>4. QED
      BY <1>2, <1>3, <1>5, <2>1, <2>3
  <1>11. CASE StreamFailed
    BY <1>11, WholeThere DEF StreamFailed
  <1>12. QED
    BY <1>1, <1>4, <1>7, <1>8, <1>9, <1>10, <1>11, ByKind

-----------------------------------------------------------------------------
(* The parts of a whole expert are there, in one shard.                    *)
LEMMA PartsThere ==
  ASSUME BindInv, AtWork, op.kind = "expert", Fitting, CallWhole
  PROVE  /\ PackerTrue /\ ExpertFits
         /\ \A k \in 1 .. 6 :
              /\ Part(k).off \in Nat /\ Part(k).nbytes \in Nat
              /\ Part(k).shard \in DOMAIN dir.shard /\ Part(k).shard = Part(1).shard
              /\ Part(k).off + Part(k).nbytes <= dir.shard[Part(1).shard].size
  <1>1. StoreHolds /\ ListHolds /\ TableHolds
    BY DEF BindInv
  <1>2. PackerTrue
    BY DEF Fitting, PackerTrue
  <1>3. PartsOnDisk
    BY DEF CallWhole, Fitting
  <1>4. ASSUME NEW k \in 1 .. 6
        PROVE  /\ Part(k) # Missing /\ Part(k).shard = TruthOf(Six[k])[1]
               /\ Part(k).shape = TruthOf(Six[k])[2].shape /\ Part(k).dtype = TruthOf(Six[k])[2].dtype
    <2>1. PICK name, t : name = Six[k] /\ t = Find(name)
      OBVIOUS
    <2>2. Hash[name] \in Nat
      BY <2>1, SixNames, CallsAssumption
    <2>3. PICK x \in DirTensors : x[2].name = name
      BY <1>3, <2>1 DEF PartsOnDisk
    <2>4. /\ t # Missing /\ t.shard = x[1] /\ t.shape = x[2].shape /\ t.dtype = x[2].dtype
          /\ TruthOf(name) = x
      BY <1>1, <2>1, <2>2, <2>3, OnDiskFound
    <2>5. QED
      BY <2>1, <2>4 DEF Part
  <1>5. ExpertFits
    <2>1. ASSUME NEW k \in {1, 3, 5}
          PROVE  PairFits(Part(k), Part(k + 1))
      <3>1. k \in 1 .. 6 /\ k + 1 \in 1 .. 6
        OBVIOUS
      <3>2. PICK p, s, x, y : /\ p = Part(k) /\ s = Part(k + 1)
                              /\ x = TruthOf(Six[k])[2] /\ y = TruthOf(Six[k + 1])[2]
        OBVIOUS
      <3>3. PairFits(x, y)
        BY <1>3, <3>2 DEF PartsOnDisk
      <3>4. p.shape = x.shape /\ p.dtype = x.dtype /\ s.shape = y.shape /\ s.dtype = y.dtype
        BY <1>4, <3>1, <3>2
      <3>5. PairFits(p, s)
        BY <3>3, <3>4 DEF PairFits
      <3>6. QED
        BY <3>2, <3>5
    <2>2. \A k \in 2 .. 6 : Part(k).shard = Part(1).shard
      <3>1. \A k \in 1 .. 6 : TruthOf(Six[k])[1] = TruthOf(Six[1])[1]
        BY <1>3 DEF PartsOnDisk
      <3>2. QED
        BY <1>4, <3>1
    <2>3. QED
      BY <1>4, <2>1, <2>2 DEF ExpertFits
  <1>6. ASSUME NEW k \in 1 .. 6
        PROVE  /\ Part(k).off \in Nat /\ Part(k).nbytes \in Nat
               /\ Part(k).shard \in DOMAIN dir.shard /\ Part(k).shard = Part(1).shard
               /\ Part(k).off + Part(k).nbytes <= dir.shard[Part(1).shard].size
    <2>1. PICK name, t : name = Six[k] /\ t = Find(name) /\ t = Part(k)
      BY DEF Part
    <2>2. Hash[name] \in Nat
      BY <2>1, SixNames, CallsAssumption
    <2>3. t # Missing
      BY <1>4, <2>1
    <2>4. t.shard \in DOMAIN dir.shard /\ t.off \in Nat /\ t.off + t.nbytes <= dir.shard[t.shard].size
      BY <1>1, <2>1, <2>2, <2>3, FoundIn
    <2>5. t.nbytes \in Nat
      BY <1>2, <1>5, <2>1, PartsTyped
    <2>6. t.shard = Part(1).shard
      BY <1>5, <2>1 DEF ExpertFits
    <2>7. QED
      BY <2>1, <2>4, <2>5, <2>6
  <1>7. QED
    BY <1>2, <1>5, <1>6

(* The reads of an expert are of bytes there are.                          *)
LEMMA PartsAvailable ==
  ASSUME BindInv, AtWork, op.kind = "expert", Fitting, CallWhole, NEW js, js = ExpertJobs
  PROVE  /\ \A k \in 1 .. Len(js) : Available(js[k])
         /\ Contiguous => Len(js) = 1 /\ js[1].n = Own
         /\ ~Contiguous => Len(js) = 6 /\ \A k \in 1 .. 6 : js[k].n = Part(k).nbytes
  <1>1. /\ ExpertFits
        /\ \A k \in 1 .. 6 :
              /\ Part(k).off \in Nat /\ Part(k).nbytes \in Nat
              /\ Part(k).shard \in DOMAIN dir.shard /\ Part(k).shard = Part(1).shard
              /\ Part(k).off + Part(k).nbytes <= dir.shard[Part(1).shard].size
    BY PartsThere
  <1>2. PICK sh : sh = Part(1).shard
    OBVIOUS
  <1>3. PICK end \in Nat : end = dir.shard[sh].size
    <2>1. OneOfCalls /\ sh \in DOMAIN dir.shard
      BY <1>1, <1>2 DEF BindInv, StoreHolds
    <2>2. QED
      BY <2>1, InputTyped DEF ShardType
  <1>4. PICK A \in Nat : A = Align
    BY ArchiveAssumption
  <1>5. CASE Contiguous
    <2>1. Lowest \in Nat
      <3>1. PICK S : S = {Part(k).off : k \in 1 .. 6}
        OBVIOUS
      <3>2. S \in SUBSET Nat /\ S # {}
        BY <1>1, <3>1
      <3>3. Min(S) \in S
        BY <3>2, LeastExists
      <3>4. QED
        BY <3>1, <3>2, <3>3 DEF Lowest
    <2>2. Highest \in Nat /\ Highest <= end
      <3>1. PICK S : S = {0} \cup {Part(k).off + Part(k).nbytes : k \in 1 .. 6}
        OBVIOUS
      <3>2. S \in SUBSET Nat /\ S # {} /\ \A x \in S : x <= end
        BY <1>1, <1>2, <1>3, <3>1
      <3>3. Max(S) \in S
        BY <3>2, Greatest
      <3>4. QED
        BY <3>1, <3>2, <3>3 DEF Highest
    <2>3. Lowest <= Highest
      <3>1. Lowest <= Part(1).off /\ Part(1).off + Part(1).nbytes <= Highest
        BY <1>1, SixBounds
      <3>2. QED
        BY <1>1, <2>1, <2>2, <3>1
    <2>4. PICK lo, hi, own \in Nat : lo = Lowest /\ hi = Highest /\ own = Own /\ own = hi - lo
      BY <1>5, <2>1, <2>2, <2>3 DEF Contiguous
    <2>5. PICK j : j = Job(sh, lo, own, IF op.direct THEN "aligned" ELSE "st",
                           own + (IF op.direct THEN 2 * A ELSE 0), 0)
      OBVIOUS
    <2>6. js = <<j>>
      BY <1>2, <1>4, <1>5, <2>4, <2>5 DEF ExpertJobs
    <2>7. /\ j.shard = sh /\ j.off = lo /\ j.n = own /\ j.via = (IF op.direct THEN "aligned" ELSE "st")
          /\ j.cap = own + (IF op.direct THEN 2 * A ELSE 0)
      BY <2>5 DEF Job
    <2>8. j.off + j.n <= dir.shard[j.shard].size
      BY <1>3, <2>2, <2>4, <2>7
    <2>9. j.cap >= j.n + (IF j.via = "aligned" THEN 2 * Align ELSE 0)
      BY <1>4, <2>4, <2>7
    <2>10. Available(j)
      BY <2>4, <2>7, <2>8, <2>9 DEF Available
    <2>11. QED
      BY <1>5, <2>4, <2>6, <2>7, <2>10
  <1>6. CASE ~Contiguous
    <2> DEFINE J(k) == Job(Part(k).shard, Part(k).off, Part(k).nbytes, "st", Part(k).nbytes, PartAt(k))
    <2>1. js = [k \in 1 .. 6 |-> J(k)]
      BY <1>6 DEF ExpertJobs
    <2>2. Len(js) = 6
      <3>1. PICK S : S = {js[k] : k \in 1 .. 6}
        OBVIOUS
      <3>2. js \in [1 .. 6 -> S]
        BY <2>1, <3>1
      <3>3. QED
        BY <3>2, LenOf
    <2>3. ASSUME NEW k \in 1 .. 6
          PROVE  Available(js[k]) /\ js[k].n = Part(k).nbytes
      <3>1. PICK off, n \in Nat : off = Part(k).off /\ n = Part(k).nbytes
        BY <1>1
      <3>2. PICK j : j = js[k]
        OBVIOUS
      <3>3. j = Job(sh, off, n, "st", n, PartAt(k))
        BY <1>1, <1>2, <2>1, <3>1, <3>2
      <3>4. j.shard = sh /\ j.off = off /\ j.n = n /\ j.via = "st" /\ j.cap = n
        BY <3>3 DEF Job
      <3>5. off + n <= end
        BY <1>1, <1>2, <1>3, <3>1
      <3>6. Available(j)
        BY <1>3, <3>1, <3>4, <3>5 DEF Available
      <3>7. QED
        BY <3>1, <3>2, <3>4, <3>6
    <2>4. QED
      BY <1>6, <2>2, <2>3
  <1>7. QED
    BY <1>5, <1>6

(* An expert.                                                              *)
LEMMA ExpertServes ==
  ASSUME BindInv, GiveInv, op.kind = "expert", AtWork, Honest, faults' = 0, Serves, OtherSteps,
         dir' = dir, op' = op, \A name : Find(name)' = Find(name)
  PROVE  Serves'
  <1>1. /\ OneOfCalls /\ JobsHold /\ IsSeq(jobs) /\ Fitting /\ CallWhole /\ PathHolds /\ PathOf
        /\ PartsHold
    BY DEF BindInv, StoreHolds, JobsHold, Honest, GiveInv, PathHolds
  <1>2. /\ rc # -1 /\ (\A k \in 1 .. Len(jobs) : Available(jobs[k])) /\ (rd # Idle => ComesWhole(rd))
    BY DEF Serves
  <1>3. PICK js, r : js = jobs' /\ r = rd'
    OBVIOUS
  <1>4. ~Begin
    BY DEF Begin, Opened, AtWork
  <1>5. ASSUME rc' # -1, pc' \notin {"mem", "resolve"},
               pc' = "expert" /\ ~Contiguous => total' = Parts(6 - Len(js)),
               \A k \in 1 .. Len(js) : Available(js[k]), r = Idle \/ ComesWhole(r)
        PROVE  Serves'
    BY <1>3, <1>5, ServesTo
  <1>6. /\ ExpertFits /\ \A k \in 1 .. 6 : Part(k).nbytes \in Nat
    BY <1>1, PartsThere
  <1>7. /\ Parts(0) = 0 /\ Parts(6) = Own
        /\ \A m \in 1 .. 6 : Parts(m - 1) \in Int /\ Parts(m) = Parts(m - 1) + Part(m).nbytes
    BY <1>6, PartsAdd
  <1>8. PICK ejs : ejs = ExpertJobs
    OBVIOUS
  <1>9. /\ \A k \in 1 .. Len(ejs) : Available(ejs[k])
        /\ Contiguous => Len(ejs) = 1 /\ ejs[1].n = Own
        /\ ~Contiguous => Len(ejs) = 6 /\ \A k \in 1 .. 6 : ejs[k].n = Part(k).nbytes
    BY <1>1, <1>8, PartsAvailable
  <1>10. CASE Prepare
    <2>1. pc = "prepare" /\ rd' = rd /\ rc' = rc /\ pc' = "expert" /\ js = ejs /\ total' = total
      BY <1>3, <1>8, <1>10 DEF Prepare, outVars
    <2>2. total = 0
      BY <1>1, <2>1, Zenon DEF PathHolds
    <2>3. ~Contiguous => total' = Parts(6 - Len(js))
      <3>1. ~Contiguous => 6 - Len(js) = 0
        BY <1>9, <2>1
      <3>2. QED
        BY <1>7, <2>1, <2>2, <3>1
    <2>4. QED
      BY <1>2, <1>3, <1>5, <1>9, <2>1, <2>3
  <1>11. CASE PrepareRefused
    <2>1. Prepared
      BY <1>6 DEF Prepared
    <2>2. QED
      BY <1>11, <2>1 DEF PrepareRefused
  <1>12. CASE StartJob \/ JobRound
    BY <1>1, <1>12, ReadServes
  <1>13. CASE ExpertPart
    <2>1. /\ pc = "expert" /\ js = Tail(jobs) /\ r = Idle /\ Done /\ total' = total + Result(rd)
          /\ Len(jobs) # 1 => rc' = rc /\ pc' = pc
          /\ Len(jobs) = 1 => pc' = "done" /\ rc' = IF total + Result(rd) = Own THEN 0 ELSE -1
      BY <1>3, <1>13 DEF ExpertPart, Return
    <2>2. rd # Idle /\ Result(rd) = rd.n /\ rd.n \in Nat
      <3>1. rd # Idle
        BY <2>1 DEF Done, Idle
      <3>2. QED
        BY <2>1, <3>1, WholeThere
    <2>3. jobs # <<>>
      BY <1>1, <2>2 DEF JobsHold
    <2>4. /\ Len(jobs) \in Nat \ {0} /\ Head(jobs) = jobs[1] /\ Len(js) = Len(jobs) - 1
      BY <1>1, <2>1, <2>3, SeqEnds
    <2>5. Result(rd) = jobs[1].n
      BY <1>1, <2>2, <2>4 DEF PathHolds
    <2>6. \A k \in 1 .. Len(js) : Available(js[k])
      BY <1>1, <1>2, <2>1, <2>3, TailAvailable
    <2>7. CASE Contiguous
      <3>1. jobs = ejs /\ total = 0
        BY <1>1, <1>8, <2>1, <2>7 DEF PartsHold
      <3>2. Len(jobs) = 1 /\ jobs[1].n = Own
        BY <1>9, <2>7, <3>1
      <3>3. total + Result(rd) = Own
        BY <2>2, <2>5, <3>1, <3>2
      <3>4. rc' = 0 /\ pc' = "done"
        BY <2>1, <3>2, <3>3
      <3>5. QED
        BY <1>5, <2>1, <2>6, <3>4
    <2>8. CASE ~Contiguous
      <3>1. PICK m \in 0 .. 5 : /\ m = 6 - Len(jobs)
                                /\ \A i \in 1 .. Len(jobs) : jobs[i] = ejs[m + i]
        BY <1>1, <1>8, <2>1, <2>8 DEF PartsHold
      <3>2. jobs[1].n = Part(m + 1).nbytes
        <4>1. 1 \in 1 .. Len(jobs)
          BY <2>4
        <4>2. jobs[1] = ejs[m + 1]
          BY <3>1, <4>1
        <4>3. PICK n \in 1 .. 6 : n = m + 1
          OBVIOUS
        <4>4. ejs[n].n = Part(n).nbytes
          BY <1>9, <2>8
        <4>5. QED
          BY <4>2, <4>3, <4>4
      <3>3. total = Parts(m)
        BY <2>1, <2>8, <3>1 DEF Serves
      <3>4. total + Result(rd) = Parts(m + 1)
        <4>1. PICK n \in 1 .. 6 : n = m + 1 /\ n - 1 = m
          OBVIOUS
        <4>2. Parts(n) = Parts(m) + Part(n).nbytes
          BY <1>7, <4>1
        <4>3. QED
          BY <2>5, <3>2, <3>3, <4>1, <4>2
      <3>5. 6 - Len(js) = m + 1
        BY <2>4, <3>1
      <3>6. CASE Len(jobs) = 1
        <4>1. m + 1 = 6
          BY <3>1, <3>6
        <4>2. rc' = 0 /\ pc' = "done"
          BY <1>7, <2>1, <3>4, <3>6, <4>1
        <4>3. QED
          BY <1>5, <2>1, <2>6, <4>2
      <3>7. CASE Len(jobs) # 1
        <4>1. rc' # -1 /\ pc' = "expert" /\ total' = Parts(6 - Len(js))
          BY <1>2, <2>1, <3>4, <3>5, <3>7
        <4>2. QED
          BY <1>5, <2>1, <2>6, <4>1
      <3>8. QED
        BY <3>6, <3>7
    <2>9. QED
      BY <2>7, <2>8
  <1>14. QED
    BY <1>1, <1>4, <1>10, <1>11, <1>12, <1>13, ByKind

(* A bare range.                                                           *)
LEMMA RangeServes ==
  ASSUME BindInv, GiveInv, op.kind = "range", AtWork, Honest, faults' = 0, Serves, OtherSteps,
         dir' = dir, op' = op, \A name : Find(name)' = Find(name)
  PROVE  Serves'
  <1>1. /\ OneOfCalls /\ JobsHold /\ CallWhole /\ PathHolds /\ PathOf
        /\ ~Binds /\ ~Packs /\ ~Streams
    BY DEF BindInv, StoreHolds, JobsHold, Honest, GiveInv, PathHolds, Binds, Packs, Streams
  <1>2. /\ rc # -1 /\ (\A k \in 1 .. Len(jobs) : Available(jobs[k])) /\ (rd # Idle => ComesWhole(rd))
    BY DEF Serves
  <1>3. PICK js, r : js = jobs' /\ r = rd'
    OBVIOUS
  <1>4. ASSUME rc' # -1, pc' \notin {"mem", "resolve", "expert"},
               \A k \in 1 .. Len(js) : Available(js[k]), r = Idle \/ ComesWhole(r)
        PROVE  Serves'
    BY <1>3, <1>4, ServesTo
  <1>5. pc \in {"prepare", "range", "done"}
    <2>1. pc \notin {"resolve", "load", "manifest", "mem", "acquire", "stream", "expert"}
      BY <1>1 DEF PathOf
    <2>2. QED
      BY <2>1 DEF BindInv, CountersHold, AtWork
  <1>6. Prepare \/ PrepareRefused \/ StartJob \/ JobRound \/ RangeRead
    <2>1. ~(Begin \/ Resolve \/ Relayout \/ Unresolved \/ Allocate \/ OutOfMemory)
      BY <1>5 DEF Begin, Opened, Resolve, Relayout, Unresolved, Allocate, OutOfMemory
    <2>2. ~(LoadNext \/ Loaded \/ LoadFailed \/ BindDone \/ Manifest)
      BY <1>5 DEF LoadNext, Loaded, LoadFailed, BindDone, Manifest
    <2>3. ~(MemRefused \/ MemPoint \/ MemWiden \/ MemDone \/ Acquire \/ AcquireDone)
      BY <1>5 DEF MemRefused, MemPoint, MemWiden, MemDone, Acquire, AcquireDone
    <2>4. ~(StreamedRows \/ StreamFailed \/ ExpertPart)
      BY <1>5 DEF StreamedRows, StreamFailed, ExpertPart
    <2>5. QED
      BY <2>1, <2>2, <2>3, <2>4, Zenon DEF OtherSteps
  <1>7. CASE Prepare
    <2>1. PICK j : j = Job(op.shard, op.off, op.n, "aligned", op.cap, 0)
      OBVIOUS
    <2>2. rd' = rd /\ rc' = rc /\ pc' = "range" /\ js = <<j>>
      BY <1>3, <1>7, <2>1 DEF Prepare, outVars
    <2>3. op.off \in Nat /\ op.n \in Nat
      <3>1. PICK c \in Calls : op = c.op /\ OpType(c)
        BY <1>1, InputTyped
      <3>2. QED
        BY <3>1 DEF OpType
    <2>4. op.off + op.n <= dir.shard[op.shard].size /\ op.cap >= op.n + 2 * Align
      BY <1>1 DEF CallWhole
    <2>5. j.shard = op.shard /\ j.off = op.off /\ j.n = op.n /\ j.via = "aligned" /\ j.cap = op.cap
      BY <2>1 DEF Job
    <2>6. Available(j)
      BY <2>3, <2>4, <2>5 DEF Available
    <2>7. \A k \in 1 .. Len(js) : Available(js[k])
      BY <2>2, <2>6
    <2>8. QED
      BY <1>2, <1>3, <1>4, <2>2, <2>7
  <1>8. CASE PrepareRefused
    BY <1>8 DEF PrepareRefused, Prepared
  <1>9. CASE StartJob \/ JobRound
    BY <1>1, <1>9, ReadServes
  <1>10. CASE RangeRead
    <2>1. Done /\ pc' = "done" /\ rc' = (IF Whole THEN 0 ELSE -1) /\ js = <<>> /\ r = Idle
      BY <1>3, <1>10 DEF RangeRead, Return
    <2>2. Whole
      BY <2>1, WholeThere
    <2>3. \A k \in 1 .. Len(js) : Available(js[k])
      BY <2>1
    <2>4. QED
      BY <1>4, <2>1, <2>2, <2>3
  <1>11. QED
    BY <1>6, <1>7, <1>8, <1>9, <1>10

-----------------------------------------------------------------------------
(* Every step of a call, honest inputs or not.                             *)
LEMMA HonestSteps ==
  ASSUME BindInv, GiveInv, OpensWhole, ServesWhole, OtherSteps
  PROVE  HonestInv'
  <1>1. /\ StoreHolds /\ ListHolds /\ TableHolds /\ JobsHold /\ CountersHold /\ PathHolds
        /\ OneOfCalls
    BY DEF BindInv, GiveInv, StoreHolds
  <1>2. dir' = dir /\ op' = op /\ store' = store /\ AtWork' /\ (AtWork \/ (Opened /\ Begin))
    BY <1>1, OthersKeep
  <1>3. \A name : Find(name)' = Find(name)
    BY <1>2, SameTable
  <1>4. ASSUME Begin
        PROVE  /\ pc = "index" /\ rc' = Pending /\ jobs' = <<>> /\ rd' = Idle /\ bad' = 0
               /\ pc' \in {"resolve", "manifest", "prepare"} /\ w' = w /\ narrowed_all' = narrowed_all
    <2>1. pc = "index"
      BY <1>4 DEF Begin, Opened
    <2>2. rc' = rc /\ jobs' = jobs /\ rd' = rd /\ w' = w /\ narrowed_all' = narrowed_all
      BY <1>4 DEF Begin, outVars
    <2>3. bad' = 0 /\ pc' \in {"resolve", "manifest", "prepare"}
      BY <1>4 DEF Begin, ClearPlan
    <2>4. rc = Pending /\ jobs = <<>>
      BY <1>1, <2>1 DEF CountersHold, JobsHold
    <2>5. rd = Idle
      BY <1>1, <2>4 DEF JobsHold
    <2>6. QED
      BY <2>1, <2>2, <2>3, <2>4, <2>5, Zenon
  <1>5. OpensWhole'
    <2>1. CASE Begin
      <3>1. w = 0 /\ narrowed_all
        BY <1>4, <2>1, Zenon DEF OpensWhole
      <3>2. w' = 0 /\ narrowed_all' /\ pc' \notin {"scan", "index", "closed"}
        BY <1>4, <2>1, <3>1
      <3>3. QED
        BY <3>2, Zenon DEF OpensWhole
    <2>2. CASE ~Begin
      <3>1. pc' \notin {"open", "scan", "index", "closed"}
        BY <1>2 DEF AtWork
      <3>2. pc' # "manifest"
        <4>1. pc # "manifest" => pc' # "manifest"
          <5>1. CASE Resolve \/ Relayout \/ Unresolved \/ Allocate \/ OutOfMemory \/ LoadNext
            BY <5>1 DEF Resolve, Relayout, Unresolved, Allocate, OutOfMemory, LoadNext, Fail, Return
          <5>2. CASE StartJob \/ JobRound \/ Loaded \/ LoadFailed \/ BindDone
            BY <5>2 DEF StartJob, JobRound, Loaded, LoadFailed, BindDone, Fail, Return
          <5>3. CASE Manifest \/ MemRefused \/ MemPoint \/ MemWiden \/ MemDone \/ Acquire \/ AcquireDone
            BY <5>3 DEF Manifest, MemRefused, MemPoint, MemWiden, MemDone, Acquire, AcquireDone, Fail, Return
          <5>4. CASE Prepare \/ PrepareRefused
            BY <5>4 DEF Prepare, PrepareRefused, Fail, Return
          <5>5. CASE StreamedRows \/ StreamFailed \/ ExpertPart \/ RangeRead
            BY <5>5 DEF StreamedRows, StreamFailed, ExpertPart, RangeRead, Fail, Return
          <5>6. QED
            BY <2>2, <5>1, <5>2, <5>3, <5>4, <5>5 DEF OtherSteps
        <4>2. pc = "manifest" => pc' # "manifest"
          <5> SUFFICES ASSUME pc = "manifest"
                       PROVE  pc' # "manifest"
            OBVIOUS
          <5>1. Packs
            BY <1>1 DEF PathHolds, PathOf
          <5>2. PathOf
            BY <1>1 DEF PathHolds
          <5>3. Manifest \/ MemRefused \/ MemPoint \/ MemWiden \/ MemDone \/ Acquire \/ AcquireDone
            BY <1>1, <2>2, <5>1, <5>2, ByKind
          <5>4. Manifest
            BY <5>3 DEF MemRefused, MemPoint, MemWiden, MemDone, Acquire, AcquireDone
          <5>5. QED
            BY <5>4 DEF Manifest, Fail, Return
        <4>3. QED
          BY <4>1, <4>2
      <3>3. QED
        BY <3>1, <3>2, Zenon DEF OpensWhole
    <2>3. QED
      BY <2>1, <2>2
  <1>6. ServesWhole'
    <2> SUFFICES ASSUME Honest'
                 PROVE  Serves'
      BY DEF ServesWhole
    <2>1. CASE ~AtWork
      <3>1. Begin
        BY <1>2, <2>1
      <3>2. PICK js, r : js = jobs' /\ r = rd'
        OBVIOUS
      <3>3. /\ rc' # -1 /\ js = <<>> /\ r = Idle /\ bad' = 0
            /\ pc' \notin {"mem", "expert"}
        BY <1>4, <3>1, <3>2 DEF Pending
      <3>4. \A k \in 1 .. Len(js) : Available(js[k])
        BY <3>3
      <3>5. QED
        BY <1>2, <1>3, <3>2, <3>3, <3>4, ServesTo
    <2>2. CASE AtWork
      <3>1. Honest /\ faults' = 0 /\ reqs' = reqs
        BY <1>1, <2>2, HonestBefore
      <3>2. Serves
        BY <2>2, <3>1 DEF ServesWhole
      <3>3. CASE Binds
        BY <1>2, <1>3, <2>2, <3>1, <3>2, <3>3, BindServes
      <3>4. CASE Packs
        BY <1>2, <1>3, <2>2, <3>1, <3>2, <3>4, PackServes
      <3>5. CASE Streams
        BY <1>2, <1>3, <2>2, <3>1, <3>2, <3>5, StreamServes
      <3>6. CASE op.kind = "expert"
        BY <1>2, <1>3, <2>2, <3>1, <3>2, <3>6, ExpertServes
      <3>7. CASE op.kind = "range"
        BY <1>2, <1>3, <2>2, <3>1, <3>2, <3>7, RangeServes
      <3>8. QED
        BY <1>1, <3>3, <3>4, <3>5, <3>6, <3>7, KindIs
    <2>3. QED
      BY <2>1, <2>2
  <1>7. QED
    BY <1>5, <1>6 DEF HonestInv

(* Nothing of it changes while nothing does.                               *)
LEMMA HonestStays ==
  ASSUME BindInv, HonestInv, UNCHANGED vars
  PROVE  HonestInv'
  <1>1. /\ dir' = dir /\ op' = op /\ store' = store /\ pc' = pc /\ next' = next /\ rd' = rd
        /\ faults' = faults /\ reqs' = reqs /\ bad' = bad /\ jobs' = jobs /\ total' = total
        /\ w' = w /\ narrowed_all' = narrowed_all /\ rc' = rc
    BY DEF vars, storeVars, input, planVars, outVars
  <1>2. (DirWhole' <=> DirWhole) /\ (Fitting' <=> Fitting) /\ (CallWhole' <=> CallWhole)
    BY <1>1, SameWhole
  <1>3. OpensWhole'
    <2>1. /\ pc \in {"open", "scan", "index", "manifest"} => w = 0 /\ narrowed_all
          /\ pc = "scan" => Len(store.t) = Counted(next - 1)
          /\ pc = "index" => Len(store.t) = Counted(Len(dir.shard))
          /\ pc = "closed" => faults > 0 \/ ~DirWhole
      BY DEF HonestInv, OpensWhole
    <2>2. Counted(next - 1)' = Counted(next - 1) /\ Counted(Len(dir.shard))' = Counted(Len(dir.shard))
      BY <1>1 DEF Counted
    <2>3. pc' \in {"open", "scan", "index", "manifest"} => w' = 0 /\ narrowed_all'
      BY <1>1, <2>1, Zenon
    <2>4. pc' = "scan" => Len(store'.t) = Counted(next - 1)'
      BY <1>1, <2>1, <2>2
    <2>5. pc' = "index" => Len(store'.t) = Counted(Len(dir.shard))'
      BY <1>1, <2>1, <2>2
    <2>6. pc' = "closed" => faults' > 0 \/ ~DirWhole'
      BY <1>1, <1>2, <2>1
    <2>7. QED
      BY <2>3, <2>4, <2>5, <2>6, Zenon DEF OpensWhole
  <1>4. ServesWhole'
    <2> SUFFICES ASSUME AtWork', Honest'
                 PROVE  Serves'
      BY DEF ServesWhole
    <2>1. AtWork /\ Honest
      BY <1>1, <1>2 DEF AtWork, Honest
    <2>2. /\ rc # -1 /\ (\A k \in 1 .. Len(jobs) : Available(jobs[k])) /\ (rd # Idle => ComesWhole(rd))
          /\ pc = "resolve" => bad = 0
          /\ pc = "expert" /\ ~Contiguous => total = Parts(6 - Len(jobs))
      BY <2>1 DEF HonestInv, ServesWhole, Serves
    <2>3. pc = "mem" => narrowed_all /\ Align8(w) <= AreaOf(reqs, next - 1)
      BY <2>1, Zenon DEF HonestInv, ServesWhole, Serves
    <2>4. \A name : Find(name)' = Find(name)
      BY <1>1, SameTable
    <2>5. pc' = "mem" => narrowed_all' /\ Align8(w') <= AreaOf(reqs', next' - 1)
      <3>1. Align8(w') = Align8(w) /\ AreaOf(reqs', next' - 1) = AreaOf(reqs, next - 1)
        BY <1>1
      <3>2. QED
        BY <1>1, <2>3, <3>1, Zenon
    <2>6. PICK js, r : js = jobs' /\ r = rd' /\ js = jobs /\ r = rd
      BY <1>1
    <2>7. QED
      BY <1>1, <2>2, <2>4, <2>5, <2>6, ServesTo
  <1>5. QED
    BY <1>3, <1>4 DEF HonestInv

LEMMA HonestInit == Init => HonestInv
  <1> SUFFICES ASSUME Init
               PROVE  HonestInv
    OBVIOUS
  <1>1. pc = "open" /\ w = 0
    BY DEF Init, StoreInit
  <1>2. narrowed_all
    BY DEF Init
  <1>3. OpensWhole
    BY <1>1, <1>2, Zenon DEF OpensWhole
  <1>4. ServesWhole
    BY <1>1 DEF ServesWhole, AtWork
  <1>5. QED
    BY <1>3, <1>4 DEF HonestInv

LEMMA HonestNext == BindInv /\ GiveInv /\ HonestInv /\ [Next]_vars => HonestInv'
  <1> SUFFICES ASSUME BindInv, GiveInv, HonestInv, [Next]_vars
               PROVE  HonestInv'
    OBVIOUS
  <1>1. OpensWhole /\ ServesWhole
    BY DEF HonestInv
  <1>2. CASE Opening
    <2>1. OpensWhole'
      BY <1>1, <1>2, WholeOpens
    <2>2. ~AtWork'
      <3>1. pc' \in {"open", "scan", "index", "closed"}
        BY <1>2, OpenSteps DEF BindInv
      <3>2. QED
        BY <3>1 DEF AtWork
    <2>3. QED
      BY <2>1, <2>2 DEF HonestInv, ServesWhole
  <1>3. CASE OtherSteps
    BY <1>1, <1>3, HonestSteps
  <1>4. CASE Ended \/ UNCHANGED vars
    BY <1>4, HonestStays DEF Ended
  <1>5. QED
    BY <1>2, <1>3, <1>4 DEF Next, OtherSteps

(* The inductive invariant of a whole directory: without a fault what a    *)
(* call has yet to read of it is there, and comes whole.                   *)
THEOREM HonestInvariant == Spec => []HonestInv
  <1>1. QED
    BY HonestInit, HonestNext, BindInvariant, GiveInvariant, PTL DEF Spec

(* A directory that is whole and holds the tensors the configuration       *)
(* speaks of is never refused: with no I/O error every call succeeds.      *)
(* HonestBinds, for every checkpoint and configuration whose numbers fit   *)
(* what the code never compares them with.                                 *)
THEOREM BindHonest == Spec => [](Fitting => HonestBinds)
  <1>1. BindInv /\ HonestInv => (Fitting => HonestBinds)
    <2> SUFFICES ASSUME BindInv, HonestInv, Fitting, pc = "closed" \/ rc = -1, faults = 0,
                        DirWhole, CallWhole
                 PROVE  FALSE
      BY DEF HonestBinds
    <2>1. pc # "closed"
      BY DEF HonestInv, OpensWhole
    <2>2. rc = -1 /\ pc = "done"
      BY <2>1 DEF BindInv, CountersHold, Pending
    <2>3. AtWork /\ Honest
      BY <2>2 DEF AtWork, Honest
    <2>4. rc # -1
      BY <2>3 DEF HonestInv, ServesWhole, Serves
    <2>5. QED
      BY <2>2, <2>4
  <1>2. QED
    BY <1>1, BindInvariant, HonestInvariant, PTL

-----------------------------------------------------------------------------
(* k3_bind_widen_bytes: what the widened vectors of a layer fill.          *)
Filling(p) == AreaOf(p, Len(p))

LEMMA RequestIs ==
  /\ \A d, n : Narrow(d, n).name = d /\ Wide(d, n).name = d /\ Wide(d, n).take = n
  /\ \A d, n, m : Prefix(d, n, m).name = d
  BY DEF Narrow, Wide, Prefix, Request

(* Rounding a vector of floats up to 8 bytes adds 4 bytes at most.         *)
LEMMA VectorArea ==
  ASSUME NEW r, r.take \in Nat
  PROVE  Area8(r) \in Nat /\ Area8(r) <= 4 * r.take + 4
  <1>1. PICK n \in Nat : n = r.take
    OBVIOUS
  <1>2. Align8(4 * n) \in Nat /\ Align8(4 * n) <= 4 * n + 4
    BY DEF Align8
  <1>3. QED
    BY <1>1, <1>2 DEF Area8

(* Requests of what is not bf16 on disk fill nothing.                      *)
LEMMA NoArea ==
  ASSUME NEW p, NEW n \in Nat, \A k \in 1 .. n : RequestOk(p[k]), NEW a \in 0 .. n, NEW b \in a .. n,
         \A k \in a + 1 .. b : p[k].name \notin Bf16OnDisk
  PROVE  AreaOf(p, b) = AreaOf(p, a)
  <1> DEFINE G == {i \in 0 .. b - a : AreaOf(p, a + i) = AreaOf(p, a)}
  <1>1. PICK l \in Nat : l = b - a /\ b = a + l
    OBVIOUS
  <1>2. 0 \in G
    OBVIOUS
  <1>3. ASSUME NEW i \in 0 .. l - 1, i \in G
        PROVE  i + 1 \in G
    <2>1. PICK m \in 1 .. n : m = a + i + 1 /\ m - 1 = a + i /\ m \in a + 1 .. b
      BY <1>1
    <2>2. Area8(p[m]) = 0
      BY <2>1 DEF Area8
    <2>3. AreaOf(p, m) = AreaOf(p, m - 1) + Area8(p[m]) /\ AreaOf(p, m - 1) \in Nat
      BY AreaUp
    <2>4. AreaOf(p, m - 1) = AreaOf(p, a)
      BY <1>3, <2>1
    <2>5. AreaOf(p, a + (i + 1)) = AreaOf(p, a)
      <3>1. a + (i + 1) = m
        BY <2>1
      <3>2. QED
        BY <2>2, <2>3, <2>4, <3>1
    <2>6. QED
      BY <1>1, <2>5
  <1> HIDE DEF G
  <1>4. l \in G
    BY <1>2, <1>3, Upwards
  <1>5. QED
    BY <1>1, <1>4 DEF G

(* What two plans fill one behind the other.                               *)
LEMMA FillingJoins ==
  ASSUME NEW s, NEW z, IsPlan(s), IsPlan(z)
  PROVE  /\ Filling(s \o z) = Filling(s) + Filling(z)
         /\ Filling(s) \in Nat /\ Filling(z) \in Nat
  <1>1. PICK m, n \in Nat : /\ m = Len(s) /\ s = [k \in 1 .. m |-> s[k]]
                            /\ n = Len(z) /\ z = [k \in 1 .. n |-> z[k]]
    BY DEF IsPlan, IsSeq
  <1>2. PICK l : l = s \o z
    OBVIOUS
  <1>3. /\ Len(l) = m + n /\ (\A k \in 1 .. m : l[k] = s[k]) /\ (\A k \in 1 .. n : l[m + k] = z[k])
    <2> DEFINE S == {s[k] : k \in 1 .. m} \cup {z[k] : k \in 1 .. n}
    <2>1. s \in [1 .. m -> S] /\ z \in [1 .. n -> S]
      BY <1>1
    <2> HIDE DEF S
    <2>2. s \in Seq(S) /\ z \in Seq(S)
      BY <2>1, LenOf
    <2>3. QED
      BY <1>1, <1>2, <2>2
  <1>4. /\ \A k \in 1 .. m : RequestOk(s[k])
        /\ \A k \in 1 .. n : RequestOk(z[k])
    BY <1>1 DEF IsPlan
  <1>5. \A k \in 1 .. m + n : RequestOk(l[k])
    <2> SUFFICES ASSUME NEW k \in 1 .. m + n
                 PROVE  RequestOk(l[k])
      OBVIOUS
    <2>1. CASE k <= m
      BY <1>3, <1>4, <2>1
    <2>2. CASE k > m
      <3>1. PICK i \in 1 .. n : k = m + i
        BY <2>2
      <3>2. QED
        BY <1>3, <1>4, <3>1
    <2>3. QED
      BY <2>1, <2>2
  <1>6. PICK t \in Nat : t = m + n
    OBVIOUS
  <1>7. /\ AreaOf(z, 0) = 0 /\ AreaOf(s, m) \in Nat
        /\ \A i \in 1 .. n : AreaOf(z, i - 1) \in Nat /\ AreaOf(z, i) = AreaOf(z, i - 1) + Area8(z[i])
        /\ \A i \in 1 .. n : Area8(z[i]) \in Nat
        /\ AreaOf(z, n) \in Nat
    BY <1>4, AreaUp
  <1>8. \A i \in 1 .. t : AreaOf(l, i - 1) \in Nat /\ AreaOf(l, i) = AreaOf(l, i - 1) + Area8(l[i])
    BY <1>5, <1>6, AreaUp
  <1> DEFINE G == {i \in 0 .. n : AreaOf(l, m + i) = AreaOf(s, m) + AreaOf(z, i)}
  <1>9. 0 \in G
    <2>1. [k \in 1 .. m |-> Area8(l[k])] = [k \in 1 .. m |-> Area8(s[k])]
      BY <1>3
    <2>2. AreaOf(l, m) = AreaOf(s, m)
      BY <2>1 DEF AreaOf
    <2>3. QED
      BY <1>7, <2>2
  <1>10. ASSUME NEW i \in 0 .. n - 1, i \in G
         PROVE  i + 1 \in G
    <2>1. PICK c \in 1 .. n, d \in 1 .. t : c = i + 1 /\ c - 1 = i /\ d = m + c /\ d - 1 = m + i
      BY <1>6
    <2>2. l[d] = z[c]
      BY <1>3, <2>1
    <2>3. AreaOf(l, d) = AreaOf(l, d - 1) + Area8(z[c]) /\ AreaOf(z, c) = AreaOf(z, c - 1) + Area8(z[c])
      BY <1>7, <1>8, <2>2
    <2>4. AreaOf(l, d - 1) = AreaOf(s, m) + AreaOf(z, c - 1)
      BY <1>10, <2>1
    <2>5. AreaOf(z, c - 1) \in Nat /\ Area8(z[c]) \in Nat
      BY <1>7
    <2>6. AreaOf(l, d) = AreaOf(s, m) + AreaOf(z, c)
      BY <1>7, <2>3, <2>4, <2>5
    <2>7. QED
      BY <2>1, <2>6
  <1> HIDE DEF G
  <1>11. n \in G
    BY <1>9, <1>10, Upwards
  <1>12. AreaOf(l, m + n) = AreaOf(s, m) + AreaOf(z, n)
    BY <1>11 DEF G
  <1>13. QED
    BY <1>1, <1>2, <1>3, <1>7, <1>12 DEF Filling

(* What each part of a layer's plan fills.                                 *)
LEMMA NormFilling == Filling(NormPlan) <= 6 * (4 * Hidden + 4)
  <1>1. PICK h \in Nat : h = Hidden
    BY CountsTyped
  <1>2. PICK p : p = NormPlan
    OBVIOUS
  <1>3. Len(p) = 6 /\ \A k \in 1 .. 6 : RequestOk(p[k]) /\ p[k].take = h
    <2>1. PICK m \in Nat : m = 6
      OBVIOUS
    <2>2. p = [k \in 1 .. m |-> p[k]]
      BY <1>2, <2>1 DEF NormPlan
    <2>3. p \in [1 .. m -> {p[k] : k \in 1 .. m}]
      BY <2>2
    <2>4. Len(p) = m
      BY <2>3, LenOf
    <2>5. \A k \in 1 .. 6 : p[k].take = h
      BY <1>1, <1>2, RequestIs DEF NormPlan
    <2>6. \A k \in 1 .. 6 : RequestOk(p[k])
      BY <1>2, <2>1, <2>4, PlanParts DEF IsPlan
    <2>7. QED
      BY <2>1, <2>4, <2>5, <2>6
  <1>4. \A k \in 1 .. 6 : Area8(p[k]) \in Nat /\ Area8(p[k]) <= 4 * h + 4
    BY <1>3, VectorArea
  <1>5. /\ AreaOf(p, 0) = 0
        /\ \A k \in 1 .. 6 : AreaOf(p, k - 1) \in Nat /\ AreaOf(p, k) = AreaOf(p, k - 1) + Area8(p[k])
    BY <1>3, AreaUp
  <1>6. \A k \in 1 .. 6 : AreaOf(p, k - 1) \in Nat /\ AreaOf(p, k) <= AreaOf(p, k - 1) + (4 * h + 4)
    BY <1>4, <1>5
  <1>7. PICK c \in Nat : c = 4 * h + 4
    OBVIOUS
  <1>8. /\ AreaOf(p, 1) <= AreaOf(p, 0) + c /\ AreaOf(p, 2) <= AreaOf(p, 1) + c
        /\ AreaOf(p, 3) <= AreaOf(p, 2) + c /\ AreaOf(p, 4) <= AreaOf(p, 3) + c
        /\ AreaOf(p, 5) <= AreaOf(p, 4) + c /\ AreaOf(p, 6) <= AreaOf(p, 5) + c
    <2>1. \A k \in 1 .. 6 : AreaOf(p, k) <= AreaOf(p, k - 1) + c
      BY <1>6, <1>7
    <2>2. 2 - 1 = 1 /\ 3 - 1 = 2 /\ 4 - 1 = 3 /\ 5 - 1 = 4 /\ 6 - 1 = 5 /\ 1 - 1 = 0
      OBVIOUS
    <2>3. QED
      BY <2>1, <2>2
  <1>9. \A k \in 0 .. 6 : AreaOf(p, k) \in Nat
    BY <1>3, AreaUp
  <1>10. AreaOf(p, 6) <= 6 * c
    BY <1>5, <1>8, <1>9
  <1>11. QED
    BY <1>1, <1>2, <1>3, <1>7, <1>10 DEF Filling

LEMMA KdaFilling == Filling(KdaPlan) <= 4 * Cfg.kda_head_dim + 4
  <1>1. PICK p : p = KdaPlan
    OBVIOUS
  <1>2. /\ Len(p) = 14
        /\ p[1] = Narrow("q_proj", Width * Hidden) /\ p[2] = Narrow("k_proj", Width * Hidden)
        /\ p[3] = Narrow("v_proj", Width * Hidden) /\ p[4] = Narrow("g_proj", Width * Hidden)
        /\ p[5] = Narrow("o_proj", Hidden * Width) /\ p[6] = Wide("q_conv1d", Width * Cfg.conv_k)
        /\ p[7] = Wide("k_conv1d", Width * Cfg.conv_k) /\ p[8] = Wide("v_conv1d", Width * Cfg.conv_k)
        /\ p[9] = Narrow("f_a_proj", Cfg.kda_head_dim * Hidden)
        /\ p[10] = Narrow("f_b_proj", Width * Cfg.kda_head_dim)
        /\ p[11] = Narrow("b_proj", Cfg.kda_heads * Hidden)
        /\ p[12] = Prefix("A_log", Cfg.kda_head_dim, Cfg.kda_heads)
        /\ p[13] = Wide("dt_bias", Width) /\ p[14] = Wide("o_norm", Cfg.kda_head_dim)
    BY <1>1 DEF KdaPlan
  <1>3. \A k \in 1 .. 14 : RequestOk(p[k])
    BY <1>1, <1>2, PlanParts DEF IsPlan
  <1>4. ASSUME NEW k \in 0 + 1 .. 13
        PROVE  p[k].name \notin Bf16OnDisk
    <2>1. /\ p[1].name = "q_proj" /\ p[2].name = "k_proj" /\ p[3].name = "v_proj" /\ p[4].name = "g_proj"
          /\ p[5].name = "o_proj" /\ p[6].name = "q_conv1d" /\ p[7].name = "k_conv1d"
          /\ p[8].name = "v_conv1d" /\ p[9].name = "f_a_proj" /\ p[10].name = "f_b_proj"
          /\ p[11].name = "b_proj" /\ p[12].name = "A_log" /\ p[13].name = "dt_bias"
      BY <1>2, RequestIs
    <2>2. p[k].name \in {"q_proj", "k_proj", "v_proj", "g_proj", "o_proj", "q_conv1d", "k_conv1d",
                         "v_conv1d", "f_a_proj", "f_b_proj", "b_proj", "A_log", "dt_bias"}
      BY <2>1
    <2>3. QED
      BY <2>2 DEF Bf16OnDisk
  <1>5. AreaOf(p, 13) = AreaOf(p, 0)
    <2>1. PICK n, a, b \in Nat : n = 14 /\ a = 0 /\ b = 13
      OBVIOUS
    <2>2. /\ (\A k \in 1 .. n : RequestOk(p[k])) /\ a \in 0 .. n /\ b \in a .. n
          /\ \A k \in a + 1 .. b : p[k].name \notin Bf16OnDisk
      BY <1>3, <1>4, <2>1
    <2>3. AreaOf(p, b) = AreaOf(p, a)
      BY <2>2, NoArea
    <2>4. QED
      BY <2>1, <2>3
  <1>6. AreaOf(p, 0) = 0 /\ AreaOf(p, 14) = AreaOf(p, 13) + Area8(p[14])
    <2>1. /\ AreaOf(p, 0) = 0
          /\ \A k \in 1 .. 14 : AreaOf(p, k) = AreaOf(p, k - 1) + Area8(p[k])
      BY <1>3, AreaUp
    <2>2. 14 - 1 = 13 /\ 14 \in 1 .. 14
      OBVIOUS
    <2>3. QED
      BY <2>1, <2>2
  <1>7. Area8(p[14]) \in Nat /\ Area8(p[14]) <= 4 * Cfg.kda_head_dim + 4
    <2>1. PICK d \in Nat : d = Cfg.kda_head_dim
      BY CountsTyped
    <2>2. p[14].take = d
      BY <1>2, <2>1, RequestIs
    <2>3. QED
      BY <2>1, <2>2, VectorArea
  <1>8. QED
    BY <1>1, <1>2, <1>5, <1>6, <1>7 DEF Filling

LEMMA DenseFilling == Filling(DensePlan) = 0
  <1>1. PICK p : p = DensePlan
    OBVIOUS
  <1>2. /\ Len(p) = 3 /\ p[1] = Narrow("gate_proj", Cfg.dense_inter * Hidden)
        /\ p[2] = Narrow("up_proj", Cfg.dense_inter * Hidden)
        /\ p[3] = Narrow("down_proj", Hidden * Cfg.dense_inter)
    BY <1>1 DEF DensePlan
  <1>3. \A k \in 1 .. 3 : RequestOk(p[k])
    BY <1>1, <1>2, PlanParts DEF IsPlan
  <1>4. ASSUME NEW k \in 1 .. 3
        PROVE  p[k].name \notin Bf16OnDisk
    <2>1. p[1].name = "gate_proj" /\ p[2].name = "up_proj" /\ p[3].name = "down_proj"
      BY <1>2, RequestIs
    <2>2. p[k].name \in {"gate_proj", "up_proj", "down_proj"}
      BY <2>1
    <2>3. QED
      BY <2>2 DEF Bf16OnDisk
  <1>5. PICK n, a \in Nat : n = 3 /\ a = 0
    OBVIOUS
  <1>6. AreaOf(p, n) = AreaOf(p, a)
    <2>1. /\ (\A k \in 1 .. n : RequestOk(p[k])) /\ a \in 0 .. n /\ n \in a .. n
          /\ \A k \in a + 1 .. n : p[k].name \notin Bf16OnDisk
      BY <1>3, <1>4, <1>5
    <2>2. QED
      BY <2>1, NoArea
  <1>7. AreaOf(p, 0) = 0
    BY <1>3, AreaUp
  <1>8. QED
    BY <1>1, <1>2, <1>5, <1>6, <1>7 DEF Filling

LEMMA MlaFilling == Filling(MlaPlan) <= 4 * Cfg.q_lora + 4 * Cfg.kv_lora + 8
  <1>1. PICK p : p = <<Narrow("q_a_proj", Cfg.q_lora * Hidden), Wide("q_a_layernorm", Cfg.q_lora),
                       Narrow("q_b_proj", Cfg.n_heads * (Cfg.qk_nope + Cfg.qk_rope) * Cfg.q_lora),
                       Narrow("kv_a_proj", (Cfg.kv_lora + Cfg.qk_rope) * Hidden),
                       Wide("kv_a_layernorm", Cfg.kv_lora),
                       Narrow("kv_b_proj", Cfg.n_heads * (Cfg.qk_nope + Cfg.v_head) * Cfg.kv_lora),
                       Narrow("o_proj", Hidden * Cfg.n_heads * Cfg.v_head)>>
    OBVIOUS
  <1>2. /\ Len(p) = 7 /\ p[1] = Narrow("q_a_proj", Cfg.q_lora * Hidden)
        /\ p[2] = Wide("q_a_layernorm", Cfg.q_lora)
        /\ p[3] = Narrow("q_b_proj", Cfg.n_heads * (Cfg.qk_nope + Cfg.qk_rope) * Cfg.q_lora)
        /\ p[4] = Narrow("kv_a_proj", (Cfg.kv_lora + Cfg.qk_rope) * Hidden)
        /\ p[5] = Wide("kv_a_layernorm", Cfg.kv_lora)
        /\ p[6] = Narrow("kv_b_proj", Cfg.n_heads * (Cfg.qk_nope + Cfg.v_head) * Cfg.kv_lora)
        /\ p[7] = Narrow("o_proj", Hidden * Cfg.n_heads * Cfg.v_head)
    BY <1>1
  <1>3. /\ RequestOk(p[1]) /\ RequestOk(p[2]) /\ RequestOk(p[3]) /\ RequestOk(p[4])
        /\ RequestOk(p[5]) /\ RequestOk(p[6]) /\ RequestOk(p[7])
    BY <1>2, WideTyped, CountsTyped, Products
  <1>4. IsPlan(p) /\ \A k \in 1 .. 7 : RequestOk(p[k])
    BY <1>1, <1>2, <1>3 DEF IsPlan, IsSeq
  <1>5. /\ p[1].name \notin Bf16OnDisk /\ p[3].name \notin Bf16OnDisk /\ p[4].name \notin Bf16OnDisk
        /\ p[6].name \notin Bf16OnDisk /\ p[7].name \notin Bf16OnDisk
    <2>1. /\ p[1].name = "q_a_proj" /\ p[3].name = "q_b_proj" /\ p[4].name = "kv_a_proj"
          /\ p[6].name = "kv_b_proj" /\ p[7].name = "o_proj"
      BY <1>2, RequestIs
    <2>2. QED
      BY <2>1 DEF Bf16OnDisk
  <1>6. Area8(p[1]) = 0 /\ Area8(p[3]) = 0 /\ Area8(p[4]) = 0 /\ Area8(p[6]) = 0 /\ Area8(p[7]) = 0
    BY <1>5 DEF Area8
  <1>7. PICK q, v \in Nat : q = Cfg.q_lora /\ v = Cfg.kv_lora
    BY CountsTyped
  <1>8. /\ Area8(p[2]) \in Nat /\ Area8(p[2]) <= 4 * q + 4
        /\ Area8(p[5]) \in Nat /\ Area8(p[5]) <= 4 * v + 4
    <2>1. p[2].take = q /\ p[5].take = v
      BY <1>2, <1>7, RequestIs
    <2>2. QED
      BY <1>7, <2>1, VectorArea
  <1>9. /\ AreaOf(p, 0) = 0
        /\ \A k \in 1 .. 7 : AreaOf(p, k - 1) \in Nat /\ AreaOf(p, k) = AreaOf(p, k - 1) + Area8(p[k])
    BY <1>4, AreaUp
  <1>10. /\ AreaOf(p, 1) = AreaOf(p, 0) + Area8(p[1]) /\ AreaOf(p, 2) = AreaOf(p, 1) + Area8(p[2])
         /\ AreaOf(p, 3) = AreaOf(p, 2) + Area8(p[3]) /\ AreaOf(p, 4) = AreaOf(p, 3) + Area8(p[4])
         /\ AreaOf(p, 5) = AreaOf(p, 4) + Area8(p[5]) /\ AreaOf(p, 6) = AreaOf(p, 5) + Area8(p[6])
         /\ AreaOf(p, 7) = AreaOf(p, 6) + Area8(p[7])
    <2>1. \A k \in 1 .. 7 : AreaOf(p, k) = AreaOf(p, k - 1) + Area8(p[k])
      BY <1>9
    <2>2. /\ 1 - 1 = 0 /\ 2 - 1 = 1 /\ 3 - 1 = 2 /\ 4 - 1 = 3 /\ 5 - 1 = 4 /\ 6 - 1 = 5 /\ 7 - 1 = 6
      OBVIOUS
    <2>3. QED
      BY <2>1, <2>2
  <1>11. Filling(p) <= 4 * q + 4 * v + 8
    <2>1. AreaOf(p, 7) = Area8(p[2]) + Area8(p[5])
      BY <1>6, <1>8, <1>9, <1>10
    <2>2. QED
      BY <1>2, <1>7, <1>8, <2>1 DEF Filling
  <1>12. IsPlan(Gated) /\ Filling(Gated) = 0
    <2>1. PICK g : g = Narrow("g_proj", Cfg.n_heads * Cfg.v_head * Hidden)
      OBVIOUS
    <2>2. RequestOk(g) /\ g.name = "g_proj"
      BY <2>1, RequestIs, WideTyped, CountsTyped, Products
    <2>3. IsPlan(<<>>) /\ IsPlan(<<g>>)
      BY <2>2 DEF IsPlan, IsSeq
    <2>4. Filling(<<>>) = 0
      <3>1. AreaOf(<<>>, 0) = 0
        BY AreaUp
      <3>2. Len(<<>>) = 0
        OBVIOUS
      <3>3. QED
        BY <3>1, <3>2 DEF Filling
    <2>5. Filling(<<g>>) = 0
      <3>1. PICK s : s = <<g>>
        OBVIOUS
      <3>2. Len(s) = 1 /\ s[1] = g /\ \A k \in 1 .. 1 : RequestOk(s[k])
        BY <2>2, <3>1
      <3>3. Area8(g) = 0
        BY <2>2 DEF Area8, Bf16OnDisk
      <3>4. /\ AreaOf(s, 0) = 0
            /\ \A k \in 1 .. 1 : AreaOf(s, k) = AreaOf(s, k - 1) + Area8(s[k])
        BY <3>2, AreaUp
      <3>5. AreaOf(s, 1) = 0
        BY <3>2, <3>3, <3>4
      <3>6. QED
        BY <3>1, <3>2, <3>5 DEF Filling
    <2>6. Gated = <<g>> \/ Gated = <<>>
      BY <2>1 DEF Gated
    <2>7. QED
      BY <2>3, <2>4, <2>5, <2>6
  <1>13. MlaPlan = p \o Gated
    BY <1>1 DEF MlaPlan
  <1>14. Filling(MlaPlan) = Filling(p) + Filling(Gated) /\ Filling(p) \in Nat
    BY <1>4, <1>12, <1>13, FillingJoins
  <1>15. QED
    BY <1>7, <1>11, <1>12, <1>14

LEMMA MoeFilling == Filling(MoePlan) <= 4 * (Cfg.n_experts * Hidden) + 4 * Cfg.latent + 8
  <1>1. PICK p : p = MoePlan
    OBVIOUS
  <1>2. PICK si \in Nat : si = Cfg.moe_inter * Cfg.n_shared
    BY CountsTyped, Products
  <1>3. /\ Len(p) = 8 /\ p[1] = Wide("gate", Cfg.n_experts * Hidden)
        /\ p[2] = Wide("e_score_correction_bias", Cfg.n_experts)
        /\ p[3] = Narrow("routed_down_proj", Cfg.latent * Hidden)
        /\ p[4] = Narrow("routed_up_proj", Hidden * Cfg.latent)
        /\ p[5] = Wide("routed_expert_norm", Cfg.latent)
        /\ p[6] = Narrow("shared_gate_proj", si * Hidden)
        /\ p[7] = Narrow("shared_up_proj", si * Hidden)
        /\ p[8] = Narrow("shared_down_proj", Hidden * si)
    BY <1>1, <1>2 DEF MoePlan
  <1>4. \A k \in 1 .. 8 : RequestOk(p[k])
    BY <1>1, <1>3, PlanParts DEF IsPlan
  <1>5. /\ p[2].name \notin Bf16OnDisk /\ p[3].name \notin Bf16OnDisk /\ p[4].name \notin Bf16OnDisk
        /\ p[6].name \notin Bf16OnDisk /\ p[7].name \notin Bf16OnDisk /\ p[8].name \notin Bf16OnDisk
    <2>1. /\ p[2].name = "e_score_correction_bias" /\ p[3].name = "routed_down_proj"
          /\ p[4].name = "routed_up_proj" /\ p[6].name = "shared_gate_proj"
          /\ p[7].name = "shared_up_proj" /\ p[8].name = "shared_down_proj"
      BY <1>3, RequestIs
    <2>2. QED
      BY <2>1 DEF Bf16OnDisk
  <1>6. /\ Area8(p[2]) = 0 /\ Area8(p[3]) = 0 /\ Area8(p[4]) = 0
        /\ Area8(p[6]) = 0 /\ Area8(p[7]) = 0 /\ Area8(p[8]) = 0
    BY <1>5 DEF Area8
  <1>7. PICK g, l \in Nat : g = Cfg.n_experts * Hidden /\ l = Cfg.latent
    BY CountsTyped, Products
  <1>8. /\ Area8(p[1]) \in Nat /\ Area8(p[1]) <= 4 * g + 4
        /\ Area8(p[5]) \in Nat /\ Area8(p[5]) <= 4 * l + 4
    <2>1. p[1].take = g /\ p[5].take = l
      BY <1>3, <1>7, RequestIs
    <2>2. QED
      BY <1>7, <2>1, VectorArea
  <1>9. /\ AreaOf(p, 0) = 0
        /\ \A k \in 1 .. 8 : AreaOf(p, k - 1) \in Nat /\ AreaOf(p, k) = AreaOf(p, k - 1) + Area8(p[k])
    BY <1>4, AreaUp
  <1>10. /\ AreaOf(p, 1) = AreaOf(p, 0) + Area8(p[1]) /\ AreaOf(p, 2) = AreaOf(p, 1) + Area8(p[2])
         /\ AreaOf(p, 3) = AreaOf(p, 2) + Area8(p[3]) /\ AreaOf(p, 4) = AreaOf(p, 3) + Area8(p[4])
         /\ AreaOf(p, 5) = AreaOf(p, 4) + Area8(p[5]) /\ AreaOf(p, 6) = AreaOf(p, 5) + Area8(p[6])
         /\ AreaOf(p, 7) = AreaOf(p, 6) + Area8(p[7]) /\ AreaOf(p, 8) = AreaOf(p, 7) + Area8(p[8])
    <2>1. \A k \in 1 .. 8 : AreaOf(p, k) = AreaOf(p, k - 1) + Area8(p[k])
      BY <1>9
    <2>2. /\ 1 - 1 = 0 /\ 2 - 1 = 1 /\ 3 - 1 = 2 /\ 4 - 1 = 3 /\ 5 - 1 = 4 /\ 6 - 1 = 5 /\ 7 - 1 = 6
          /\ 8 - 1 = 7
      OBVIOUS
    <2>3. QED
      BY <2>1, <2>2
  <1>11. AreaOf(p, 8) = Area8(p[1]) + Area8(p[5])
    BY <1>6, <1>8, <1>9, <1>10
  <1>12. QED
    BY <1>1, <1>3, <1>7, <1>8, <1>11 DEF Filling

(* The area behind a packed run holds the widened vectors of every layer,  *)
(* o_norm with them, which k3_bind_widen_bytes does not count: its slack   *)
(* has to, and does if it is four times a KDA head and 40 bytes.           *)
THEOREM AreaFits ==
  ASSUME 4 * Cfg.kda_head_dim + 40 <= Slack, NEW L \in 0 .. Cfg.n_layers - 1
  PROVE  AreaOf(LayerPlan(L), Len(LayerPlan(L))) <= WidenBytes
  <1>1. PICK a, b : a = (IF IsMla(L) THEN MlaPlan ELSE KdaPlan) /\ b = (IF IsDense(L) THEN DensePlan ELSE MoePlan)
    OBVIOUS
  <1>2. IsPlan(NormPlan) /\ IsPlan(a) /\ IsPlan(b) /\ IsPlan(NormPlan \o a)
    BY <1>1, PlanParts, PlansJoin
  <1>3. LayerPlan(L) = (NormPlan \o a) \o b
    BY <1>1 DEF LayerPlan
  <1>4. PICK n, x, y \in Nat : /\ n = Filling(NormPlan) /\ x = Filling(a) /\ y = Filling(b)
                               /\ Filling(LayerPlan(L)) = n + x + y
    <2>1. /\ Filling(NormPlan \o a) = Filling(NormPlan) + Filling(a)
          /\ Filling(NormPlan) \in Nat /\ Filling(a) \in Nat
      BY <1>2, FillingJoins
    <2>2. /\ Filling((NormPlan \o a) \o b) = Filling(NormPlan \o a) + Filling(b)
          /\ Filling(b) \in Nat
      BY <1>2, FillingJoins
    <2>3. QED
      BY <1>3, <2>1, <2>2
  <1>5. PICK h, q, v, l, d, s \in Nat : /\ h = Hidden /\ q = Cfg.q_lora /\ v = Cfg.kv_lora
                                        /\ l = Cfg.latent /\ d = Cfg.kda_head_dim /\ s = Slack
    BY CountsTyped, CountsAssumption
  <1>6. PICK g \in Nat : g = Cfg.n_experts * Hidden
    BY CountsTyped, Products
  <1>7. n <= 6 * (4 * h + 4)
    BY <1>4, <1>5, NormFilling
  <1>8. x <= 4 * q + 4 * v + 4 * d + 8
    <2>1. CASE IsMla(L)
      BY <1>1, <1>4, <1>5, <2>1, MlaFilling
    <2>2. CASE ~IsMla(L)
      BY <1>1, <1>4, <1>5, <2>2, KdaFilling
    <2>3. QED
      BY <2>1, <2>2
  <1>9. y <= 4 * g + 4 * l + 8
    <2>1. CASE IsDense(L)
      BY <1>1, <1>4, <1>5, <1>6, <2>1, DenseFilling
    <2>2. CASE ~IsDense(L)
      BY <1>1, <1>4, <1>5, <1>6, <2>2, MoeFilling
    <2>3. QED
      BY <2>1, <2>2
  <1>10. WidenBytes = 4 * (6 * h + q + v + l + g) + s
    BY <1>5, <1>6 DEF WidenBytes
  <1>11. n + x + y <= 4 * (6 * h + q + v + l + g) + s
    BY <1>5, <1>7, <1>8, <1>9
  <1>12. QED
    BY <1>4, <1>10, <1>11 DEF Filling

=============================================================================
