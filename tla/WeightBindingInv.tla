-------------------------- MODULE WeightBindingInv --------------------------
(***************************************************************************)
(* What holds of the store while it is opened and read, whatever is asked  *)
(* of it (BindInv), what a call has handed over by then (GiveInv), and     *)
(* what is still to come of a whole directory (HonestInv): the inductive   *)
(* invariants of WeightBinding.                                            *)
(***************************************************************************)
EXTENDS WeightBinding

Indexed == pc \notin {"open", "scan", "closed"}

(* Every shard of an opened directory was scanned.                         *)
Scanned(n) == \A k \in 1 .. n : ScanOk(dir.shard[k])
AllScanned == Scanned(Len(dir.shard))
OneOfCalls == \E c \in Calls : dir = c.dir /\ op = c.op
StoreHolds ==
  /\ OneOfCalls
  /\ pc = "open" => next = 1
  /\ pc = "scan" => next \in 1 .. Len(dir.shard) + 1 /\ Scanned(next - 1)
  /\ Indexed => AllScanned

(* The list of tensors: each is an entry of a header, and of the shards    *)
(* that were scanned every entry is listed.                                *)
Entries == UNION {{<<k, e>> : e \in DOMAIN dir.shard[k].tensor} : k \in DOMAIN dir.shard}
Listed(x) == \E i \in DOMAIN store.t : store.t[i] = x
ListHolds ==
  /\ store = [t |-> store.t, bucket |-> store.bucket]
  /\ pc = "open" => store.t = <<>>
  /\ store.t \in Seq(Entries)
  /\ \A x \in Entries : (pc = "scan" /\ x[1] < next) \/ Indexed => Listed(x)

(* The name table is at most half full; what was put into it sits where a  *)
(* search for its name comes by, after buckets that are taken by others.   *)
Size == Cardinality(DOMAIN store.bucket)
Filled == IF pc = "index" THEN next - 1 ELSE Len(store.t)
Bucket(name, k) == store.bucket[(Hash[name] + k) % Size]
Sits(i) ==
  LET name == NameOf(store.t[i]) IN
  \E k \in 0 .. Size - 1 :
    /\ Bucket(name, k) = i
    /\ \A j \in 0 .. k - 1 : Bucket(name, j) # Empty /\ NameOf(store.t[Bucket(name, j)]) # name
TableHolds ==
  Indexed =>
    /\ pc = "index" => next \in 1 .. Len(store.t) + 1
    /\ Size \in Nat \ {0} /\ 2 * Len(store.t) <= Size /\ DOMAIN store.bucket = 0 .. Size - 1
    /\ \A j \in DOMAIN store.bucket : store.bucket[j] \in {Empty} \cup 1 .. Filled
    /\ \A i, j \in DOMAIN store.bucket :
         store.bucket[i] = store.bucket[j] => store.bucket[i] = Empty \/ i = j
    /\ \A i \in 1 .. Filled : Sits(i)
    /\ \A i, j \in 1 .. Filled : NameOf(store.t[i]) = NameOf(store.t[j]) => i = j

(* k3_st_find once the directory is open: the entry of that name, or none. *)
AtWork == pc \notin {"open", "scan", "index", "closed"}
FindsByName(name) ==
  \/ \E x \in Entries : /\ NameOf(x) = name /\ Find(name) = Tensor(x)
                       /\ \A z \in Entries : NameOf(z) = name => z = x
  \/ Find(name) = Missing /\ \A x \in Entries : NameOf(x) # name
FindsAll == AtWork => \A name : Hash[name] \in Nat => FindsByName(name)

(* A read in progress: what has come of it are the first bytes of its      *)
(* window, nothing lies behind them, and the window lies in the buffer.    *)
ReadFields == {"via", "shard", "off", "n", "lo", "len", "pad", "got", "addr", "done", "path", "buf"}
IsRead(r) == DOMAIN r = ReadFields /\ r = [f \in ReadFields |-> r[f]]
Room(r) == Cardinality(DOMAIN r.buf)
Served(r) ==
  /\ IsRead(r)
  /\ r.lo \in Int /\ r.len \in Nat /\ r.pad \in Nat /\ r.off \in Int /\ r.n \in Int
  /\ r.off = r.lo + r.pad /\ (r.len > 0 => r.lo \in Nat)
  /\ r.got \in 0 .. r.len
  /\ r.shard \in DOMAIN dir.shard
  /\ Room(r) \in Nat /\ DOMAIN r.buf = 0 .. Room(r) - 1 /\ r.len <= Room(r)
  /\ \A j \in 0 .. r.got - 1 : r.buf[j] = r.lo + j
  /\ \A j \in DOMAIN r.buf : r.buf[j] # NoByte => j < r.got
  /\ r.path = "archive" => /\ Packed(dir.shard[r.shard])
                           /\ r.lo + r.len <= dir.shard[r.shard].z.raw

IsSeq(s) == Len(s) \in Nat /\ s = [k \in 1 .. Len(s) |-> s[k]]

(* The reads a caller has yet to make.                                     *)
JobOk(j) ==
  /\ j.shard \in DOMAIN dir.shard /\ j.off \in Int /\ j.n \in Int /\ j.cap \in Int
  /\ j.via \in {"st", "aligned"}
JobsHold ==
  /\ IsSeq(jobs) /\ \A k \in 1 .. Len(jobs) : JobOk(jobs[k])
  /\ jobs # <<>> => pc \in {"load", "stream", "expert", "range"}
  /\ rd # Idle => jobs # <<>> /\ rd.via # "none" /\ Served(rd)

(* The plan of a bind, and the numbers of the parts that need them.        *)
RequestOk(r) == r.narrow \in BOOLEAN /\ r.want \in Nat /\ r.take \in Nat
IsPlan(p) == IsSeq(p) /\ \A k \in 1 .. Len(p) : RequestOk(p[k])
PlanHolds ==
  /\ IsPlan(reqs) /\ \A k \in 1 .. Len(reqs) : Hash[reqs[k].name] \in Nat
  /\ bad \in Nat /\ size \in Nat
  /\ pc \in {"resolve", "load", "manifest", "mem", "acquire"} => next \in 1 .. Len(reqs) + 1
  /\ pc = "load" /\ jobs # <<>> => next <= Len(reqs)
  /\ pc = "resolve" /\ bad = 0 => \A k \in 1 .. next - 1 : Find(reqs[k].name) # Missing
  /\ pc = "load" => \A k \in 1 .. Len(reqs) : Find(reqs[k].name) # Missing
  /\ blob = NoBlob \/ (blob = size /\ pc \in {"load", "done"})
CountersHold ==
  /\ pc \in {"open", "scan", "index", "closed", "resolve", "manifest", "mem", "acquire",
            "prepare", "load", "stream", "expert", "range", "done"}
  /\ rc \in {Pending, 0, -1} /\ (rc # Pending <=> pc = "done")
  /\ faults \in 0 .. MaxFaults
  /\ w \in Nat /\ (op.kind = "mem" => w <= WidenBytes)
  /\ pc = "acquire" => op.kind # "mem"
BindInv == StoreHolds /\ ListHolds /\ TableHolds /\ JobsHold /\ PlanHolds /\ CountersHold
-----------------------------------------------------------------------------
(* What the callers are given.  Each kind of call keeps to its own path,   *)
(* and a read in progress is the first of the jobs.                        *)
Binds == op.kind \in {"layer", "model"}
Packs == op.kind \in {"mem", "stream"}
Streams == op.kind \in {"embed_row", "project"}
PathOf ==
  /\ pc \in {"resolve", "load"} => Binds
  /\ pc = "manifest" => Packs
  /\ pc = "mem" => op.kind = "mem"
  /\ pc = "acquire" => op.kind = "stream"
  /\ pc = "prepare" => Streams \/ op.kind \in {"expert", "range"}
  /\ pc = "stream" => Streams
  /\ pc = "expert" => op.kind = "expert"
  /\ pc = "range" => op.kind = "range"
PathHolds ==
  /\ PathOf
  /\ AtWork => reqs = Requests
  /\ pc \in {"open", "scan", "index", "resolve", "manifest", "prepare"} =>
       held = <<>> /\ ~i8 /\ total = 0
  /\ pc = "manifest" => next = 1
  /\ rd # Idle => rd.off = Head(jobs).off /\ rd.n = Head(jobs).n

(* The blob of a bind: the first n requests have their places, one behind  *)
(* the other, and are narrow exactly if the struct's tag will say so.      *)
LaidOut(n) ==
  LET Size2(k) == reqs[k].take * (IF placed[k].narrow THEN 2 ELSE 4) IN
  /\ IsSeq(placed) /\ Len(placed) = n
  /\ \A k \in 1 .. n :
       LET r == reqs[k]
           t == Find(r.name) IN
       /\ t # Missing /\ Numel(t.shape) = r.want /\ r.take <= r.want
       /\ placed[k].narrow = NarrowOf(r, t)
       /\ demoted = 0 /\ r.narrow /\ narrow_ok => t.dtype = "BF16"
       /\ placed[k].at \in Nat /\ placed[k].at % 8 = 0
       /\ placed[k].at + Size2(k) <= size
  /\ \A j, k \in 1 .. n : j < k => placed[j].at + Size2(j) <= placed[k].at
LayoutHolds ==
  /\ demoted \in Nat /\ narrow_ok \in BOOLEAN
  /\ pc = "resolve" /\ bad = 0 => LaidOut(next - 1)
  /\ pc = "load" \/ (Binds /\ rc = 0) => LaidOut(Len(reqs)) /\ demoted = 0 /\ blob = size

(* Its loads: a destination that was reached has the first n bytes of its  *)
(* tensor, and the jobs left are the rest of it, in order.                 *)
Gives(k, n) ==
  LET r == reqs[k]
      t == Find(r.name)
      p == placed[k] IN
  held[r.dest] = Given("blob", p.at, r.take * (IF p.narrow THEN Esz(t.dtype) ELSE 4),
                       IF p.narrow THEN t.dtype ELSE "F32", Bytes(t.off, n))
Elements(k) == reqs[k].take * Esz(Find(reqs[k].name).dtype)
GivesTo(m) == DOMAIN held = {reqs[k].dest : k \in 1 .. m}
Tiles(js, from, to) ==
  /\ \A i \in 1 .. Len(js) : js[i].n \in Nat
  /\ \A i \in 1 .. Len(js) - 1 : js[i + 1].off = js[i].off + js[i].n
  /\ js[1].off = from /\ js[Len(js)].off + js[Len(js)].n = to
LoadHolds ==
  /\ pc = "load" =>
       LET fed == jobs[1].off - Find(Req.name).off IN
       /\ \A k \in 1 .. next - 1 : Gives(k, Elements(k))
       /\ jobs = <<>> => GivesTo(next - 1)
       /\ jobs # <<>> => /\ GivesTo(next)
                         /\ fed \in Nat /\ Gives(next, Min({fed, Elements(next)}))
                         /\ Tiles(jobs, jobs[1].off, Find(Req.name).off + Find(Req.name).nbytes)
  /\ Binds /\ rc = 0 =>
       /\ GivesTo(Len(reqs)) /\ \A k \in 1 .. Len(reqs) : Gives(k, Elements(k))
       /\ wdt = IF narrow_ok THEN "BF16" ELSE "F32"

(* The binder takes the packer's word for int8 rows: that the matrices of  *)
(* a layer are all int8 or none is, and how long its rows are; and an      *)
(* expert's header is taken at its word that no tensor is of negative size.*)
PackerTrue ==
  /\ op.kind = "mem" =>
       \A r \in ToSet(Requests) : r.name \in DOMAIN op.pack.t =>
         LET t == op.pack.t[r.name] IN
         /\ t.dtype = "I8R" /\ ~r.narrow => t.rows \in Nat \ {0} /\ t.nbytes = r.take + 4 * t.rows
         /\ t.dtype = "I8R" /\ r.narrow =>
              \A q \in ToSet(Requests) :
                q.narrow /\ q.name \in DOMAIN op.pack.t => op.pack.t[q.name].dtype \notin {"F32", "BF16"}
  /\ op.kind = "expert" =>
       \A k \in DOMAIN dir.shard : \A e \in ToSet(dir.shard[k].tensor) : e.o0 <= e.o1

(* A packed run: the first m requests are pointed at in it, or widened one *)
(* behind the other.                                                       *)
Source(k) == op.pack.t[reqs[k].name]
PackGives(k) ==
  LET r == reqs[k]
      t == Source(k)
      g == held[r.dest] IN
  /\ r.name \in DOMAIN op.pack.t
  /\ PackerTrue => g.bytes = ExpectedBytes(r)
  /\ g.fmt = IF r.narrow THEN t.dtype ELSE "F32"
  /\ \/ /\ g.where \in {"run", "rows"} /\ g.fmt = t.dtype /\ g.at = t.off
        /\ g.len \in Nat /\ g.len <= t.nbytes
     \/ /\ g.where \in {"widen", "arena"} /\ g.fmt = "F32"
        /\ g.at \in Nat /\ g.at % 8 = 0 /\ g.len \in Nat /\ g.at + g.len <= w
  /\ op.kind = "mem" /\ r.narrow =>
       \/ t.dtype = "BF16" \/ (t.dtype = "I8R" /\ i8) \/ (t.dtype = "F32" /\ ~narrowed_all)
PackGiven(m) ==
  /\ ManifestOk(op.pack) /\ GivesTo(m)
  /\ \A k \in 1 .. m : PackGives(k)
  /\ \A j, k \in 1 .. m :
       LET a == held[reqs[j].dest]
           b == held[reqs[k].dest] IN
       j < k /\ a.where = b.where /\ a.where \in Written => a.at + a.len <= b.at
  /\ i8 => \E k \in 1 .. m : reqs[k].narrow /\ Source(k).dtype = "I8R"
PackHolds ==
  /\ pc \in {"mem", "acquire"} => PackGiven(next - 1)
  /\ Packs /\ rc = 0 =>
       /\ PackGiven(Len(reqs))
       /\ op.kind = "stream" => wdt = "STREAM"
       /\ op.kind = "mem" => /\ wdt = (IF i8 THEN "I8R" ELSE "BF16") /\ (narrowed_all \/ i8)

(* Streamed rows: the chunks come one after the other, and m of them are   *)
(* here.                                                                   *)
Streamed == Find(StreamName)
Row == Cfg.hidden * Esz(Streamed.dtype)
PerChunk == RowsPerChunk(Streamed)
First(c) == IF op.kind = "embed_row" THEN op.row ELSE (c - 1) * PerChunk
Count(c) == IF op.kind = "embed_row" THEN 1 ELSE Min({PerChunk, Cfg.vocab - (c - 1) * PerChunk})
Chunks == IF op.kind = "embed_row" THEN 1 ELSE (Cfg.vocab + PerChunk - 1) \div PerChunk
Upto(m) == IF op.kind = "embed_row" THEN m ELSE IF m = Chunks THEN Cfg.vocab ELSE m * PerChunk
RowsGiven(m) ==
  /\ Streamable(Streamed) /\ PerChunk >= 1
  /\ DOMAIN held = {<<"row", First(c)>> : c \in 1 .. m} /\ IsFiniteSet(DOMAIN held)
  /\ \A c \in 1 .. m :
       LET g == held[<<"row", First(c)>>] IN
       /\ g.len \in Nat /\ g.bytes = Bytes(Streamed.off + First(c) * Row, g.len)
       /\ g.at % Esz(Streamed.dtype) = 0
  /\ SumFunction([d \in DOMAIN held |-> held[d].len \div Row]) = Upto(m)
StreamHolds ==
  /\ pc = "stream" =>
       LET m == Chunks - Len(jobs) IN
       /\ m \in 0 .. Chunks - 1 /\ RowsGiven(m)
       /\ \A i \in 1 .. Len(jobs) : jobs[i] = RowJob(Streamed, First(m + i), Count(m + i))
  /\ Streams /\ rc = 0 => RowsGiven(Chunks)

(* The parts of an expert: what came is no more than was asked for, and if *)
(* it is as much, every part came whole.                                   *)
Parts(m) == SumFunction([j \in 1 .. m |-> Part(j).nbytes])
PartGiven(k) == held[Six[k]].bytes = Bytes(Part(k).off, Part(k).nbytes)
PartsHold ==
  /\ pc = "expert" \/ (op.kind = "expert" /\ rc = 0) => ExpertFits
  /\ pc = "expert" =>
       LET m == 6 - Len(jobs) IN
       IF Contiguous THEN jobs = ExpertJobs /\ held = <<>> /\ total = 0
       ELSE /\ m \in 0 .. 5 /\ \A i \in 1 .. Len(jobs) : jobs[i] = ExpertJobs[m + i]
            /\ DOMAIN held = {Six[k] : k \in 1 .. m}
            /\ PackerTrue => /\ total \in Nat /\ total <= Parts(m)
                             /\ total = Parts(m) => \A k \in 1 .. m : PartGiven(k)
  /\ PackerTrue /\ op.kind = "expert" /\ rc = 0 => \A k \in 1 .. 6 : PartGiven(k)
GiveInv == PathHolds /\ LayoutHolds /\ LoadHolds /\ PackHolds /\ StreamHolds /\ PartsHold
-----------------------------------------------------------------------------
(* When a whole directory may not be refused (HonestBinds).  What the code *)
(* leaves to the files and the configuration: that no offset of a header   *)
(* is negative, that a layer keeps no more of a tensor than it has, that   *)
(* its widened vectors, each rounded up to 8 bytes, fit their area, that a *)
(* row fits a chunk and is one there is, and that what a caller takes for  *)
(* a whole expert is one.                                                  *)
Area8(r) == IF r.name \in Bf16OnDisk THEN Align8(4 * r.take) ELSE 0
AreaOf(p, m) == SumFunction([k \in 1 .. m |-> Area8(p[k])])
PartsOnDisk ==
  /\ \A k \in 1 .. 6 : /\ \E x \in DirTensors : x[2].name = Six[k]
                       /\ TruthOf(Six[k])[1] = TruthOf(Six[1])[1]
  /\ \A k \in {1, 3, 5} : PairFits(TruthOf(Six[k])[2], TruthOf(Six[k + 1])[2])
Fitting ==
  /\ \A k \in DOMAIN dir.shard : \A e \in ToSet(dir.shard[k].tensor) :
       e.o0 \in Nat /\ (op.kind = "expert" => e.o0 <= e.o1)
  /\ \A r \in ToSet(Requests) : r.take <= r.want
  /\ op.kind = "mem" =>
       /\ AreaOf(Requests, Len(Requests)) <= WidenBytes
       /\ \A r \in ToSet(Requests) :
            r.name \in DOMAIN op.pack.t /\ op.pack.t[r.name].dtype = "I8R" /\ ~r.narrow =>
              op.pack.t[r.name].rows \in Nat \ {0}
  /\ Streams => 4 * Hidden <= StreamChunk
  /\ op.kind = "embed_row" => op.row < Cfg.vocab
  /\ op.kind = "expert" => (op.whole => PartsOnDisk)

(* While it is opened: every entry of the shards scanned is listed, once,  *)
(* so that no name of a whole directory comes twice.                       *)
Counted(n) == SumFunction([k \in 1 .. n |-> Len(dir.shard[k].tensor)])
OpensWhole ==
  /\ pc \in {"open", "scan", "index", "manifest"} => w = 0 /\ narrowed_all
  /\ pc = "scan" => Len(store.t) = Counted(next - 1)
  /\ pc = "index" => Len(store.t) = Counted(Len(dir.shard))
  /\ pc = "closed" => faults > 0 \/ ~DirWhole

(* The reads a caller makes are of ranges there are, with room for their   *)
(* windows; without a fault they come whole.                               *)
Available(j) ==
  /\ j.off \in Nat /\ j.n \in Nat /\ j.off + j.n <= dir.shard[j.shard].size
  /\ j.cap >= j.n + (IF j.via = "aligned" THEN 2 * Align ELSE 0)
ComesWhole(r) ==
  LET size_r == dir.shard[r.shard].size IN
  /\ r.n \in Nat /\ r.pad + r.n <= r.len /\ r.off + r.n <= size_r
  /\ r.path \in {"archive", "remote"} => r.lo + r.len <= size_r
  /\ r.done => r.pad + r.n <= r.got
Honest == faults = 0 /\ Fitting /\ DirWhole /\ CallWhole
Serves ==
  /\ rc # -1
  /\ \A k \in 1 .. Len(jobs) : Available(jobs[k])
  /\ rd # Idle => ComesWhole(rd)
  /\ pc = "resolve" => bad = 0
  /\ pc = "mem" => narrowed_all /\ Align8(w) <= AreaOf(reqs, next - 1)
  /\ pc = "expert" /\ ~Contiguous => total = Parts(6 - Len(jobs))
ServesWhole == AtWork /\ Honest => Serves
HonestInv == OpensWhole /\ ServesWhole
=============================================================================
