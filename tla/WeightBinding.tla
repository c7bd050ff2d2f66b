---------------------------- MODULE WeightBinding ---------------------------
(***************************************************************************)
(* Who reads the store: the binders of src/src/model/k3_bind.c, which fill *)
(* a layer from the checkpoint, from a packed run in memory or by way of a *)
(* row pipeline; the model-level matrices, resident or streamed row by     *)
(* row; and the expert loads of src/src/io/k3_load.c.  op is the call: its *)
(* kind, its arguments, and for a packed run the manifest entry of its     *)
(* layer, pack = [nbytes, t], t from names to [off, nbytes, dtype, rows].  *)
(*                                                                         *)
(* held says, per destination, what the caller is given: where it lies,    *)
(* where it starts and how long it is there, the format of its elements,   *)
(* and the bytes of the source it was made from, in order.                 *)
(***************************************************************************)
EXTENDS ShardStore, WeightPlan

CONSTANTS
  StreamChunk,  \* K3_MODEL_STREAM_CHUNK
  WidenChunk,   \* K3_WIDEN_CHUNK
  Group         \* K3_MXFP4_GROUP

NONE == "none"
Six == <<"w1p", "w1s", "w2p", "w2s", "w3p", "w3s">>
RequestsOf(o) ==
  CASE o.kind \in {"layer", "mem", "stream"} -> LayerPlan(o.layer)
    [] o.kind = "model" -> ModelPlan(o.embed, o.lm_head)
    [] OTHER -> <<>>

(* A bare range is asked of a shard that is there; the numbers are size_t, *)
(* those of a manifest int64_t.                                            *)
OpType(c) ==
  CASE c.op.kind \in {"layer", "mem", "stream"} ->
         /\ c.op.layer \in 0 .. Cfg.n_layers - 1
         /\ c.op.kind # "layer" =>
              /\ c.op.pack.nbytes \in Int
              /\ \A n \in DOMAIN c.op.pack.t :
                   c.op.pack.t[n].off \in Int /\ c.op.pack.t[n].nbytes \in Int
    [] c.op.kind = "embed_row" -> c.op.row \in Nat
    [] c.op.kind = "range" ->
         /\ c.op.shard \in DOMAIN c.dir.shard
         /\ c.op.off \in Nat /\ c.op.n \in Nat /\ c.op.cap \in Nat
    [] OTHER -> c.op.kind \in {"model", "project", "expert"}
ASSUME CallsAssumption ==
  /\ MaxFaults \in Nat /\ StreamChunk \in Nat /\ WidenChunk \in Nat /\ WidenChunk >= 4
  /\ \A c \in Calls :
       /\ OpType(c)
       /\ \A r \in ToSet(RequestsOf(c.op)) : Hash[r.name] \in Nat
  /\ \A n \in ToSet(Six) \cup {"embed_tokens", "lm_head"} : Hash[n] \in Nat

VARIABLES
  reqs,                                          \* Plan: the requests,
  placed, bad, narrow_ok, demoted, size,         \* and the blob laid out
  jobs, total,                                   \* reads left, bytes got
  blob, held, w, i8, narrowed_all,
  wdt, rc

planVars == <<reqs, placed, bad, narrow_ok, demoted, size>>
outVars == <<blob, held, w, i8, narrowed_all, wdt, rc>>
vars == <<storeVars, pc, next, rd, faults, planVars, jobs, total, outVars>>

NoBlob == -1
Pending == 1                                        \* rc of a call not yet over
Bytes(off, n) == [j \in 1 .. n |-> off + j - 1]
Given(where, at, len, fmt, bytes) ==
  [where |-> where, at |-> at, len |-> len, fmt |-> fmt, bytes |-> bytes]
(* The caller's d is set to g.                                             *)
Put(d, g) == [x \in DOMAIN held \cup {d} |-> IF x = d THEN g ELSE held[x]]
Requests == RequestsOf(op)

ClearPlan(ok) ==
  /\ reqs' = Requests /\ placed' = <<>> /\ bad' = 0 /\ demoted' = 0 /\ size' = 0 /\ narrow_ok' = ok
Return(code) == rc' = code /\ pc' = "done"
Fail == Return(-1) /\ blob' = NoBlob /\ UNCHANGED <<held, w, i8, narrowed_all, wdt>>

Init ==
  /\ StoreInit
  /\ reqs = <<>> /\ placed = <<>> /\ bad = 0 /\ demoted = 0 /\ size = 0 /\ narrow_ok = TRUE
  /\ jobs = <<>> /\ total = 0
  /\ blob = NoBlob /\ held = <<>> /\ w = 0 /\ i8 = FALSE /\ narrowed_all = TRUE
  /\ wdt = NONE /\ rc = Pending

Begin ==
  /\ Opened /\ next' = 1
  /\ ClearPlan(TRUE)
  /\ pc' = CASE op.kind \in {"layer", "model"} -> "resolve"
             [] op.kind \in {"mem", "stream"} -> "manifest"
             [] OTHER -> "prepare"
  /\ UNCHANGED <<storeVars, rd, faults, jobs, total, outVars>>
-----------------------------------------------------------------------------
(* plan_resolve: every request is looked up, checked and laid out before a *)
(* byte is read; what is wrong is counted and the rest still resolved.     *)
Req == reqs[next]
NarrowOf(r, t) == r.narrow /\ narrow_ok /\ t.dtype = "BF16"
Wrong(r, t) ==
  \/ t = Missing
  \/ Numel(t.shape) # r.want
  \/ r.take > Numel(t.shape)
  \/ NarrowOf(r, t) /\ r.take # Numel(t.shape)
DemotesNever(r, t) == FALSE
Demotes(r, t) ==
  t # Missing /\ Numel(t.shape) = r.want /\ r.take <= r.want
  /\ r.narrow /\ narrow_ok /\ t.dtype # "BF16"

Resolve ==
  /\ pc = "resolve" /\ next <= Len(reqs)
  /\ LET t == Find(Req.name)
         at == Align8(size) IN
     /\ demoted' = demoted + (IF Demotes(Req, t) THEN 1 ELSE 0)
     /\ IF Wrong(Req, t)
        THEN bad' = bad + 1 /\ UNCHANGED <<placed, size>>
        ELSE /\ placed' = Append(placed, [at |-> at, narrow |-> NarrowOf(Req, t)])
             /\ size' = at + Req.take * (IF NarrowOf(Req, t) THEN 2 ELSE 4)
             /\ UNCHANGED bad
  /\ next' = next + 1
  /\ UNCHANGED <<storeVars, pc, rd, faults, reqs, narrow_ok, jobs, total, outVars>>

(* One large tensor that is not bf16 turns the whole layer to float32, for *)
(* the tag is per struct.                                                  *)
Relayout ==
  /\ pc = "resolve" /\ next > Len(reqs) /\ bad = 0 /\ demoted > 0
  /\ ClearPlan(FALSE) /\ next' = 1
  /\ UNCHANGED <<storeVars, pc, rd, faults, jobs, total, outVars>>
Unresolved ==
  /\ pc = "resolve" /\ next > Len(reqs) /\ bad > 0
  /\ Fail
  /\ UNCHANGED <<storeVars, next, rd, faults, planVars, jobs, total>>
Allocate ==
  /\ pc = "resolve" /\ next > Len(reqs) /\ bad = 0 /\ demoted = 0
  /\ blob' = size /\ pc' = "load" /\ next' = 1
  /\ UNCHANGED <<storeVars, rd, faults, planVars, jobs, total,
                 held, w, i8, narrowed_all, wdt, rc>>
OutOfMemory ==
  /\ pc = "resolve" /\ next > Len(reqs) /\ bad = 0 /\ demoted = 0 /\ faults < MaxFaults
  /\ faults' = faults + 1 /\ Fail
  /\ UNCHANGED <<storeVars, next, rd, planVars, jobs, total>>
-----------------------------------------------------------------------------
(* plan_load: narrow bytes as they are; the rest through k3_st_read_f32,   *)
(* which takes a float32 tensor whole and widens any other chunk by chunk. *)
Job(k, off, n, via, cap, addr) ==
  [shard |-> k, off |-> off, n |-> n, via |-> via, cap |-> cap, addr |-> addr]
Chunked(t) ==
  LET step == (WidenChunk \div Esz(t.dtype)) * Esz(t.dtype) IN
  [c \in 1 .. (t.nbytes + step - 1) \div step |->
     LET n == Min({step, t.nbytes - (c - 1) * step}) IN
     Job(t.shard, t.off + (c - 1) * step, n, "st", n, 0)]
LoadJobs(p, t) ==
  IF p.narrow \/ t.dtype = "F32"
  THEN <<Job(t.shard, t.off, t.nbytes, "st", t.nbytes, p.at)>>
  ELSE Chunked(t)

Laid(p, t) ==
  Given("blob", p.at, Req.take * (IF p.narrow THEN Esz(t.dtype) ELSE 4),
        IF p.narrow THEN t.dtype ELSE "F32", <<>>)

(* An empty tensor takes no chunk.                                         *)
LoadNext ==
  /\ pc = "load" /\ jobs = <<>> /\ next <= Len(reqs)
  /\ jobs' = LoadJobs(placed[next], Find(Req.name))
  /\ held' = Put(Req.dest, Laid(placed[next], Find(Req.name)))
  /\ next' = IF jobs' = <<>> THEN next + 1 ELSE next
  /\ UNCHANGED <<storeVars, pc, rd, faults, planVars, total,
                 blob, w, i8, narrowed_all, wdt, rc>>

StartJob ==
  /\ pc \in {"load", "stream", "expert", "range"} /\ jobs # <<>> /\ rd = Idle
  /\ LET j == Head(jobs) IN rd' = StartRead(j.via, j.shard, j.off, j.n, j.cap, j.addr)
  /\ UNCHANGED <<storeVars, pc, next, faults, planVars, jobs, total, outVars>>

JobRound == Round /\ UNCHANGED <<storeVars, pc, next, planVars, jobs, total, outVars>>

Delivered == [j \in 1 .. rd.n |-> rd.buf[rd.pad + j - 1]]
Done == rd.via # "none" /\ rd.done
Whole == Result(rd) = rd.n

Loaded ==
  /\ pc = "load" /\ Done /\ Whole
  /\ jobs' = Tail(jobs) /\ rd' = Idle
  /\ LET come == held[Req.dest].bytes \o Delivered
         kept == Min({Len(come), Req.take * Esz(Find(Req.name).dtype)}) IN
     held' = [held EXCEPT ![Req.dest].bytes = SubSeq(come, 1, kept)]
  /\ next' = IF Len(jobs) = 1 THEN next + 1 ELSE next
  /\ UNCHANGED <<storeVars, pc, faults, planVars, total, blob, w, i8, narrowed_all, wdt, rc>>
LoadFailed ==
  /\ pc = "load" /\ Done /\ ~Whole
  /\ rd' = Idle /\ jobs' = <<>> /\ Fail
  /\ UNCHANGED <<storeVars, next, faults, planVars, total>>
BindDone ==
  /\ pc = "load" /\ jobs = <<>> /\ next > Len(reqs)
  /\ wdt' = IF narrow_ok THEN "BF16" ELSE "F32"
  /\ Return(0)
  /\ UNCHANGED <<storeVars, next, rd, faults, planVars, jobs, total,
                 blob, held, w, i8, narrowed_all>>
-----------------------------------------------------------------------------
(* The manifest of a packed trunk (trunk_open), for the layer at hand.     *)
ManifestOk(pack) ==
  /\ pack.nbytes > 0
  /\ \A n \in DOMAIN pack.t :
       LET t == pack.t[n] IN
       /\ t.off >= 0 /\ t.nbytes > 0 /\ t.off + t.nbytes <= pack.nbytes
       /\ t.dtype = "F32" => t.off % 4 = 0
       /\ t.dtype = "BF16" => t.off % 2 = 0
Manifest ==
  /\ pc = "manifest"
  /\ IF ManifestOk(op.pack)
     THEN pc' = (IF op.kind = "mem" THEN "mem" ELSE "acquire") /\ UNCHANGED outVars
     ELSE Fail
  /\ UNCHANGED <<storeVars, next, rd, faults, planVars, jobs, total>>

(* k3_bind_layer_mem: matrices are pointed at in the run, float32 vectors  *)
(* too; bf16 vectors are widened into the area behind the run, int8 ones   *)
(* dequantised there, row scale by row.                                    *)
InRun == Req.name \in DOMAIN op.pack.t
Entry8 == op.pack.t[Req.name]
MemEsz(dt) == CASE dt = "F32" -> 4 [] dt = "U8" -> 1 [] OTHER -> 2
MemFits ==
  \/ Entry8.dtype = "I8R"
  \/ /\ Entry8.nbytes \div MemEsz(Entry8.dtype) = Req.want /\ Req.take <= Req.want
     /\ Entry8.dtype \in {"F32", "BF16"}
PointedAt ==
  \/ Entry8.dtype = "F32"
  \/ Req.narrow
Rows8 == (Entry8.nbytes - Req.take) \div 4
Row8Fits ==
  (Entry8.nbytes - Req.take) % 4 = 0 /\ Rows8 > 0 /\ Req.take % Rows8 = 0
Dequantised ==
  LET cols == Req.take \div Rows8 IN
  [j \in 1 .. 2 * Req.take |->
     LET k == (j - 1) \div 2
         row == Entry8.off + (k \div cols) * (4 + cols) IN
     IF j % 2 = 1 THEN row ELSE row + 4 + (k % cols)]
Widened == IF Entry8.dtype = "I8R" THEN Dequantised ELSE Bytes(Entry8.off, 2 * Req.take)
Widens == Align8(w) + 4 * Req.take <= WidenBytes

MemRefused ==
  /\ pc = "mem" /\ next <= Len(reqs)
  /\ ~(InRun /\ MemFits /\ (PointedAt \/ ((Entry8.dtype = "I8R" => Row8Fits) /\ Widens)))
  /\ Fail
  /\ UNCHANGED <<storeVars, next, rd, faults, planVars, jobs, total>>
MemPoint ==
  /\ pc = "mem" /\ next <= Len(reqs) /\ InRun /\ MemFits /\ PointedAt
  /\ LET n == IF Entry8.dtype = "I8R" THEN Entry8.nbytes ELSE Req.take * MemEsz(Entry8.dtype) IN
     held' = Put(Req.dest, Given("run", Entry8.off, n, Entry8.dtype, Bytes(Entry8.off, n)))
  /\ i8' = (i8 \/ Entry8.dtype = "I8R")
  /\ narrowed_all' = (narrowed_all /\ (Req.narrow => Entry8.dtype # "F32"))
  /\ next' = next + 1
  /\ UNCHANGED <<storeVars, pc, rd, faults, planVars, jobs, total, blob, w, wdt, rc>>
MemWiden ==
  /\ pc = "mem" /\ next <= Len(reqs) /\ InRun /\ MemFits /\ ~PointedAt
  /\ Entry8.dtype = "I8R" => Row8Fits
  /\ Widens
  /\ held' = Put(Req.dest, Given("widen", Align8(w), 4 * Req.take, "F32", Widened))
  /\ w' = Align8(w) + 4 * Req.take
  /\ next' = next + 1
  /\ UNCHANGED <<storeVars, pc, rd, faults, planVars, jobs, total,
                 blob, i8, narrowed_all, wdt, rc>>
MemDone ==
  /\ pc = "mem" /\ next > Len(reqs)
  /\ IF narrowed_all \/ i8
     THEN /\ wdt' = (IF i8 THEN "I8R" ELSE "BF16") /\ Return(0)
          /\ UNCHANGED <<blob, held, w, i8, narrowed_all>>
     ELSE Fail
  /\ UNCHANGED <<storeVars, next, rd, faults, planVars, jobs, total>>
-----------------------------------------------------------------------------
(* k3_bind_layer_stream: what the row pipeline is asked to hold.           *)
StreamFits ==
  /\ InRun /\ Entry8.dtype \in {"BF16", "F32"}
  /\ Entry8.nbytes = Req.want * Esz(Entry8.dtype)
  /\ Req.take <= Req.want
Acquire ==
  /\ pc = "acquire" /\ next <= Len(reqs)
  /\ IF StreamFits
     THEN /\ held' = Put(Req.dest,
               IF Req.narrow
               THEN Given("rows", Entry8.off, Entry8.nbytes, Entry8.dtype,
                          Bytes(Entry8.off, Entry8.nbytes))
               ELSE Given("arena", Align8(w), 4 * Req.take, "F32",
                          Bytes(Entry8.off, Req.take * Esz(Entry8.dtype))))
          /\ w' = IF Req.narrow THEN w ELSE Align8(w) + 4 * Req.take
          /\ next' = next + 1
          /\ UNCHANGED <<pc, blob, i8, narrowed_all, wdt, rc>>
     ELSE Fail /\ UNCHANGED next
  /\ UNCHANGED <<storeVars, rd, faults, planVars, jobs, total>>
AcquireDone ==
  /\ pc = "acquire" /\ next > Len(reqs)
  /\ wdt' = "STREAM" /\ Return(0)
  /\ UNCHANGED <<storeVars, next, rd, faults, planVars, jobs, total,
                 blob, held, w, i8, narrowed_all>>
-----------------------------------------------------------------------------
(* k3_model_stream: rows of an embedding or of lm_head in one aligned      *)
(* buffer, compacted when they come to lie across an element.              *)
Streamable(t) ==
  t # Missing /\ t.shape = <<Cfg.vocab, Cfg.hidden>> /\ t.dtype \in {"BF16", "F32"}
RowJob(t, first, n) ==
  LET row == Cfg.hidden * Esz(t.dtype) IN
  Job(t.shard, t.off + first * row, n * row, "aligned", StreamChunk + 2 * Align, 0)
RowsPerChunk(t) == StreamChunk \div (Cfg.hidden * Esz(t.dtype))
ProjectJobs(t) ==
  LET per == RowsPerChunk(t) IN
  [c \in 1 .. (Cfg.vocab + per - 1) \div per |->
     RowJob(t, (c - 1) * per, Min({per, Cfg.vocab - (c - 1) * per}))]

(* k3_expert_ref: the six tensors of an expert, one run if they tile one.  *)
Part(k) == Find(Six[k])
PairFits(p, s) ==
  /\ p.dtype = "U8" /\ s.dtype = "U8" /\ Len(p.shape) = 2 /\ Len(s.shape) = 2
  /\ p.shape[1] = s.shape[1]
  /\ s.shape[2] * Group = p.shape[2] * 2
ExpertFits ==
  /\ \A k \in 1 .. 6 : Part(k) # Missing
  /\ \A k \in {1, 3, 5} : PairFits(Part(k), Part(k + 1))
  /\ \A k \in 2 .. 6 : Part(k).shard = Part(1).shard
Own == SumFunction([k \in 1 .. 6 |-> Part(k).nbytes])
Lowest == Min({Part(k).off : k \in 1 .. 6})
Highest == Max({0} \cup {Part(k).off + Part(k).nbytes : k \in 1 .. 6})
Contiguous == Highest - Lowest = Own
PartAt(k) == IF Contiguous THEN Part(k).off - Lowest
             ELSE SumFunction([j \in 1 .. k - 1 |-> Part(j).nbytes])
ExpertJobs ==
  IF Contiguous
  THEN <<Job(Part(1).shard, Lowest, Own, IF op.direct THEN "aligned" ELSE "st",
             Own + (IF op.direct THEN 2 * Align ELSE 0), 0)>>
  ELSE [k \in 1 .. 6 |-> Job(Part(k).shard, Part(k).off, Part(k).nbytes, "st",
                             Part(k).nbytes, PartAt(k))]

StreamName == IF op.kind = "embed_row" THEN "embed_tokens" ELSE "lm_head"
Prepared ==
  CASE op.kind = "range" -> TRUE
    [] op.kind = "expert" -> ExpertFits
    [] OTHER -> /\ Streamable(Find("embed_tokens")) /\ Streamable(Find("lm_head"))
                /\ RowsPerChunk(Find(StreamName)) >= 1
Prepare ==
  /\ pc = "prepare" /\ Prepared
  /\ CASE op.kind = "range" ->
            jobs' = <<Job(op.shard, op.off, op.n, "aligned", op.cap, 0)>> /\ pc' = "range"
       [] op.kind = "expert" -> jobs' = ExpertJobs /\ pc' = "expert"
       [] op.kind = "embed_row" ->
            jobs' = <<RowJob(Find(StreamName), op.row, 1)>> /\ pc' = "stream"
       [] OTHER -> jobs' = ProjectJobs(Find(StreamName)) /\ pc' = "stream"
  /\ UNCHANGED <<storeVars, next, rd, faults, planVars, total, outVars>>
PrepareRefused ==
  /\ pc = "prepare" /\ ~Prepared
  /\ Fail
  /\ UNCHANGED <<storeVars, next, rd, faults, planVars, jobs, total>>

Compacted(t, at) == IF at % Esz(t.dtype) = 0 THEN at ELSE 0
StreamedRows ==
  /\ pc = "stream" /\ Done /\ Whole
  /\ LET t == Find(StreamName) IN
     held' = Put(<<"row", (rd.off - t.off) \div (Cfg.hidden * Esz(t.dtype))>>,
                 Given("buf", Compacted(t, rd.pad), rd.n, t.dtype, Delivered))
  /\ jobs' = Tail(jobs) /\ rd' = Idle
  /\ IF Len(jobs) = 1 THEN Return(0) ELSE UNCHANGED <<pc, rc>>
  /\ UNCHANGED <<storeVars, next, faults, planVars, total,
                 blob, w, i8, narrowed_all, wdt>>
StreamFailed ==
  /\ pc = "stream" /\ Done /\ ~Whole
  /\ rd' = Idle /\ jobs' = <<>> /\ Fail
  /\ UNCHANGED <<storeVars, next, faults, planVars, total>>

(* k3_expert_load: scattered parts are read one by one whatever became of  *)
(* the one before; the caller compares the sum.                            *)
ExpertPart ==
  /\ pc = "expert" /\ Done
  /\ held' =
       IF Contiguous
       THEN [d \in ToSet(Six) |->
               LET k == CHOOSE k \in 1 .. 6 : Six[k] = d IN
               Given("slot", PartAt(k), Part(k).nbytes, "U8",
                     SubSeq(Delivered, PartAt(k) + 1, PartAt(k) + Part(k).nbytes))]
       ELSE LET k == 7 - Len(jobs) IN
            Put(Six[k], Given("slot", PartAt(k), Part(k).nbytes, "U8", Delivered))
  /\ jobs' = Tail(jobs) /\ rd' = Idle
  /\ total' = total + Result(rd)
  /\ IF Len(jobs) = 1 THEN Return(IF total + Result(rd) = Own THEN 0 ELSE -1)
                      ELSE UNCHANGED <<pc, rc>>
  /\ UNCHANGED <<storeVars, next, faults, planVars, blob, w, i8, narrowed_all, wdt>>
RangeRead ==
  /\ pc = "range" /\ Done
  /\ Return(IF Whole THEN 0 ELSE -1) /\ total' = Result(rd)
  /\ jobs' = <<>> /\ rd' = Idle
  /\ UNCHANGED <<storeVars, next, faults, planVars,
                 blob, held, w, i8, narrowed_all, wdt>>
-----------------------------------------------------------------------------
Ended == pc \in {"done", "closed"} /\ UNCHANGED vars

Opening == Open /\ UNCHANGED <<planVars, jobs, total, outVars>>
Next ==
  \/ Opening \/ Begin \/ Resolve \/ Relayout \/ Unresolved \/ Allocate \/ OutOfMemory
  \/ LoadNext \/ StartJob \/ JobRound \/ Loaded \/ LoadFailed \/ BindDone
  \/ Manifest \/ MemRefused \/ MemPoint \/ MemWiden \/ MemDone
  \/ Acquire \/ AcquireDone
  \/ Prepare \/ PrepareRefused \/ StreamedRows \/ StreamFailed \/ ExpertPart \/ RangeRead
  \/ Ended

Spec == Init /\ [][Next]_vars
-----------------------------------------------------------------------------
(* What the disk says, and what K3's own files look like.                  *)
DirTensors == UNION {{<<k, e>> : e \in ToSet(dir.shard[k].tensor)} : k \in DOMAIN dir.shard}
TruthOf(name) == CHOOSE x \in DirTensors : x[2].name = name
Start0(name) == LET x == TruthOf(name) IN Base(dir.shard[x[1]]) + x[2].o0

(* The control state and what it implies of the parts of the record: the   *)
(* buffer of a read is never written past its end, and the blob, the area  *)
(* of widened vectors and the counters stay in their bounds.               *)
BTypeOK ==
  /\ pc \in {"open", "scan", "index", "closed", "resolve", "manifest", "mem", "acquire",
            "prepare", "load", "stream", "expert", "range", "done"}
  /\ rc \in {Pending, 0, -1} /\ (rc # Pending <=> pc = "done")
  /\ faults \in 0 .. MaxFaults
  /\ w \in Nat /\ (op.kind = "mem" => w <= WidenBytes)
  /\ blob \in Nat \cup {NoBlob} /\ (blob # NoBlob => blob = size)
  /\ rd.via # "none" =>
       /\ rd.got \in 0 .. rd.len /\ rd.len <= Cardinality(DOMAIN rd.buf)
       /\ \A b \in DOMAIN rd.buf : rd.buf[b] # NoByte => b < rd.got

(* ReadReturnsRange: whatever a read was served by - a plain file, the     *)
(* aligned window around the range, split or shuffled archive blocks, raw  *)
(* extents, remote chunks - and wherever it was cut short, the bytes it    *)
(* says it returned are, in order, the bytes of the range asked for.       *)
ReadReturnsRange ==
  Done => /\ Result(rd) = 0 \/ Result(rd) \in 1 .. rd.n
          /\ \A j \in 0 .. Result(rd) - 1 : rd.buf[rd.pad + j] = rd.off + j

(* StructHolds: when a call reports success, everything it gives its       *)
(* caller is there; each destination was made from the bytes of its own    *)
(* tensor, all of them and in order; it is stored in the format the struct *)
(* is tagged with (matrices) or as float32 (vectors); and it has a region  *)
(* of its own, aligned to its elements and inside what was allocated.      *)
ExpectedBytes(r) ==
  IF op.kind \in {"mem", "stream"}
  THEN LET t == op.pack.t[r.name] IN
       IF t.dtype = "I8R" /\ ~r.narrow
       THEN LET cols == r.take \div t.rows IN
            [j \in 1 .. 2 * r.take |->
               t.off + (((j - 1) \div 2) \div cols) * (4 + cols)
               + (IF j % 2 = 1 THEN 0 ELSE 4 + (((j - 1) \div 2) % cols))]
       ELSE Bytes(t.off, IF t.dtype = "I8R" THEN t.nbytes ELSE r.take * Esz(t.dtype))
  ELSE Bytes(Start0(r.name), r.take * Esz(TruthOf(r.name)[2].dtype))
FormatTrue(r) ==
  held[r.dest].fmt =
    IF ~r.narrow THEN "F32" ELSE IF wdt = "STREAM" THEN op.pack.t[r.name].dtype ELSE wdt
Area(where) == CASE where = "blob" -> blob [] where = "run" -> op.pack.nbytes
                 [] where \in {"widen", "arena"} -> w [] OTHER -> op.pack.nbytes
Apart(a, b) == a.where # b.where \/ a.at + a.len <= b.at \/ b.at + b.len <= a.at
Written == {"blob", "widen", "arena"}
OwnRegion(d) ==
  LET g == held[d] IN
  /\ g.at >= 0 /\ g.at + g.len <= Area(g.where)
  /\ g.fmt = "F32" => g.at % 4 = 0
  /\ g.fmt = "BF16" => g.at % 2 = 0
  /\ g.where \in Written => \A o \in DOMAIN held \ {d} : Apart(g, held[o])
RowsTrue ==
  LET esz == Esz(TruthOf(StreamName)[2].dtype) IN
  /\ \A d \in DOMAIN held :
       /\ held[d].bytes = Bytes(Start0(StreamName) + d[2] * Cfg.hidden * esz, held[d].len)
       /\ held[d].at % esz = 0
  /\ SumFunction([d \in DOMAIN held |-> held[d].len \div (Cfg.hidden * esz)])
       = IF op.kind = "embed_row" THEN 1 ELSE Cfg.vocab
StructHolds ==
  rc = 0 =>
    CASE op.kind \in {"layer", "mem", "stream", "model"} ->
           /\ DOMAIN held = {r.dest : r \in ToSet(reqs)}
           /\ \A r \in ToSet(reqs) :
                held[r.dest].bytes = ExpectedBytes(r) /\ FormatTrue(r) /\ OwnRegion(r.dest)
      [] op.kind \in {"embed_row", "project"} -> RowsTrue
      [] op.kind = "expert" ->
           \A k \in 1 .. 6 :
             held[Six[k]].bytes = Bytes(Start0(Six[k]), Part(k).nbytes)
      [] OTHER -> TRUE

(* HonestBinds: a directory that is whole and holds the tensors the        *)
(* configuration speaks of is never refused: with no I/O error every call  *)
(* succeeds, so the buffers, windows, chunks and the area for widened      *)
(* vectors are large enough for everything K3 ships.                       *)
DirWhole ==
  /\ ~DirRefused
  /\ \A k \in DOMAIN dir.shard : ScanOk(dir.shard[k])
  /\ Cardinality({x[2].name : x \in DirTensors}) =
       SumFunction([k \in DOMAIN dir.shard |-> Len(dir.shard[k].tensor)])
  /\ \A k \in DOMAIN dir.shard : LET z == dir.shard[k].z IN
       Packed(dir.shard[k]) => \A e \in DOMAIN z.entry : z.entry[e].flags = RAW \/ FrameFits(z, e)
HasShape(name, n) == \E x \in DirTensors : x[2].name = name /\ Numel(x[2].shape) = n
Bf16OnDisk == {"input_layernorm", "post_attention_layernorm", "self_attention_res_norm",
  "self_attention_res_proj", "mlp_res_norm", "mlp_res_proj", "q_a_layernorm",
  "kv_a_layernorm", "routed_expert_norm", "gate", "o_norm"}
PackWhole ==
  /\ ManifestOk(op.pack)
  /\ \A r \in ToSet(reqs) :
       /\ r.name \in DOMAIN op.pack.t
       /\ LET t == op.pack.t[r.name] IN
          /\ t.dtype # "I8R" => t.nbytes = r.want * Esz(t.dtype)
          /\ t.dtype = "I8R" => (op.kind = "mem" /\ t.nbytes = r.want + 4 * t.rows
                                  /\ r.want % t.rows = 0)
          /\ r.narrow => t.dtype \in {"BF16", "I8R"}
          /\ ~r.narrow => (t.dtype = "F32" \/ (t.dtype \in {"BF16", "I8R"} /\ r.name \in Bf16OnDisk))
StreamWhole ==
  \A n \in {"embed_tokens", "lm_head"} :
    \E x \in DirTensors :
      /\ x[2].name = n /\ x[2].shape = <<Cfg.vocab, Cfg.hidden>>
      /\ x[2].dtype \in {"BF16", "F32"}
CallWhole ==
  CASE op.kind \in {"layer", "model"} ->
         \A r \in ToSet(reqs) : HasShape(r.name, r.want)
    [] op.kind \in {"mem", "stream"} -> PackWhole
    [] op.kind \in {"embed_row", "project"} -> StreamWhole
    [] op.kind = "expert" -> op.whole
    [] OTHER -> /\ op.off + op.n <= dir.shard[op.shard].size
                /\ op.cap >= op.n + 2 * Align
HonestBinds ==
  (pc = "closed" \/ rc = -1) /\ faults = 0 => ~(DirWhole /\ CallWhole)
=============================================================================
