----------------------------- MODULE ShardStore -----------------------------
(***************************************************************************)
(* The safetensors store of src/src/io/k3_st.c: k3_st_open scans every     *)
(* shard of a directory and indexes its tensors by name; k3_st_read and    *)
(* k3_st_read_aligned then serve byte ranges of a shard from the plain     *)
(* file, from an O_DIRECT window around the range, from a compressed       *)
(* archive, or from the bridge of a remote checkpoint (k3_remote.h).       *)
(*                                                                         *)
(* A byte of a shard is its offset.  A read in progress is the record rd:  *)
(* rd.buf says which byte of the shard each byte of the caller's buffer    *)
(* holds.  A buffer has room for rd.cap bytes at address rd.addr; via says *)
(* which of the two read functions was called.                             *)
(***************************************************************************)
EXTENDS ShardArchive, SequencesExt

CONSTANTS
  Hash,         \* fnv1a: from tensor names to numbers
  MinBuckets,   \* 1024, a power of two
  PreadMax, RemoteChunk,
  MaxFaults,    \* I/O errors and short reads one run may meet
  Calls         \* what may be asked of which directory: a set of [dir, op]

VARIABLES
  dir, op,      \* the directory, and what is asked of it: one of Calls
  pc,           \* where the caller is
  next,         \* the next shard to scan, then the next step of the caller
  store,        \* K3St: the tensors in order of discovery, as shard and
                \* position in its header, and the buckets
  rd,           \* the read in progress
  faults

input == <<dir, op>>
storeVars == <<input, store>>

Esz(dt) == CASE dt = "U8" -> 1 [] dt \in {"BF16", "F16"} -> 2 [] dt = "F32" -> 4 [] OTHER -> 0
Numel(shape) == FoldLeft(LAMBDA a, d : a * d, 1, shape)
NoByte == -1
NoArchive == [raw |-> -1]
Empty == -1
Closed == [t |-> <<>>, bucket |-> <<>>]
-----------------------------------------------------------------------------
(* Opening.  A shard is [opens, json, hlen, local, size, z, dfd, tensor]:  *)
(* whether its file opens, its header parses, the header's length, the     *)
(* size on this machine and of the shard, its archive, whether O_DIRECT is *)
(* to be had, and the header's entries.  A header of more than 64 MiB,     *)
(* which k3_st refuses unread, is one that does not parse.                 *)
Base(sh) == 8 + sh.hlen
Packed(sh) == sh.z # NoArchive

(* The numbers of a header are what its author wrote, negative ones too.   *)
HeaderType(sh) ==
  /\ sh.hlen \in Nat
  /\ Len(sh.tensor) \in Nat /\ DOMAIN sh.tensor = 1 .. Len(sh.tensor)
  /\ \A e \in DOMAIN sh.tensor :
       /\ sh.tensor[e].o0 \in Int /\ sh.tensor[e].o1 \in Int
       /\ Hash[sh.tensor[e].name] \in Nat
ShardType(sh) == /\ sh.size \in Nat /\ sh.dfd \in BOOLEAN
                 /\ HeaderType(sh)
                 /\ Packed(sh) => ArchiveType(sh.z)
ASSUME StoreAssumption ==
  /\ PreadMax \in Nat \ {0} /\ RemoteChunk \in Nat \ {0} /\ MinBuckets \in Nat \ {0}
  /\ \A c \in Calls :
       /\ Len(c.dir.shard) \in Nat /\ DOMAIN c.dir.shard = 1 .. Len(c.dir.shard)
       /\ \A k \in DOMAIN c.dir.shard : ShardType(c.dir.shard[k])

(* An archived shard is as long as what it stands for; a remote one, whose *)
(* size the bridge tells, is refused if it is archived.                    *)
ASSUME ArchiveSizes ==
  \A c \in Calls : \A k \in DOMAIN c.dir.shard :
    LET sh == c.dir.shard[k] IN
    Packed(sh) /\ c.dir.remote = "no" => sh.size = sh.z.raw

EntryOk(sh, e) ==
  /\ Esz(e.dtype) > 0 /\ Len(e.shape) <= 4
  /\ e.o1 - e.o0 = Numel(e.shape) * Esz(e.dtype)
  /\ Base(sh) + e.o1 <= sh.size
ScanOk(sh) ==
  /\ sh.opens
  /\ Packed(sh) => (dir.remote = "no" /\ ZOpen(sh.z))
  /\ sh.hlen > 0 /\ Base(sh) <= sh.local /\ Base(sh) <= sh.size
  /\ sh.json
  /\ \A k \in DOMAIN sh.tensor : EntryOk(sh, sh.tensor[k])

Tensor(x) ==
  LET sh == dir.shard[x[1]]
      e == sh.tensor[x[2]] IN
  [name |-> e.name, shard |-> x[1], dtype |-> e.dtype, shape |-> e.shape,
   off |-> Base(sh) + e.o0, nbytes |-> e.o1 - e.o0]
NameOf(x) == dir.shard[x[1]].tensor[x[2]].name

(* The first bucket from a name's own that is free or has that name.       *)
Probe(t, bucket, name) ==
  LET nb == Cardinality(DOMAIN bucket)
      At(k) == (Hash[name] + k) % nb
      Stops(k) == bucket[At(k)] = Empty \/ NameOf(t[bucket[At(k)]]) = name
  IN  At(CHOOSE k \in 0 .. nb - 1 : Stops(k) /\ \A j \in 0 .. k - 1 : ~Stops(j))

(* Doubled until the table is at most half full: nb[k] after k turns.      *)
Buckets(nt) ==
  LET nb[k \in 0 .. nt] ==
        IF k = 0 THEN MinBuckets
        ELSE LET n == nb[k - 1] IN IF n < 2 * nt THEN 2 * n ELSE n
  IN  nb[nt]
Named(t, bucket, name) == bucket[Probe(t, bucket, name)] # Empty
Missing == [name |-> ""]
Find(name) ==                                           \* k3_st_find
  LET k == store.bucket[Probe(store.t, store.bucket, name)]
  IN  IF k = Empty THEN Missing ELSE Tensor(store.t[k])
-----------------------------------------------------------------------------
(* Reading.                                                                *)
Idle == [via |-> "none", done |-> FALSE]
Refused(r) == [r EXCEPT !.len = 0, !.done = TRUE]

(* k3_zread refuses a range that leaves the archive, so the window of a    *)
(* selective one ends with the file; a range that runs past the end is     *)
(* refused on every other path of an archive and here read up to the end.  *)
StartRead(via, k, off, n, cap, addr) ==
  LET sh == dir.shard[k]
      lo == RoundDown(off)
      hi == RoundUp(off + n)
      zhi == Min({hi, sh.z.raw})
      exact == [via |-> via, shard |-> k, off |-> off, n |-> n, lo |-> off, len |-> n,
                pad |-> 0, got |-> 0, addr |-> addr, done |-> FALSE, path |-> "fd",
                buf |-> [j \in 0 .. cap - 1 |-> NoByte]]
      Window(to) == [exact EXCEPT !.lo = lo, !.len = to - lo, !.pad = off - lo]
      widened == via = "aligned" /\ sh.dfd
  IN
  IF off < 0 \/ n < 0 \/ cap < n THEN Refused(exact)
  ELSE IF dir.remote = "yes" THEN [exact EXCEPT !.path = "remote"]
  ELSE IF Packed(sh) THEN
         LET r == IF widened /\ sh.z.mapped /\ zhi - lo <= cap THEN Window(zhi) ELSE exact
         IN  IF ZInRange(sh.z, r.lo, r.len) THEN [r EXCEPT !.path = "archive"] ELSE Refused(r)
  ELSE IF ~widened THEN [exact EXCEPT !.path = IF via = "st" THEN "fd" ELSE "buffered"]
  ELSE IF hi - lo > cap THEN Refused(exact)
  ELSE [Window(hi) EXCEPT !.path = "direct"]

(* What the caller is told; of a range of less than nothing, nothing.      *)
Result(r) == IF r.n < 0 THEN 0
             ELSE IF r.got >= r.pad + r.n THEN r.n
             ELSE IF r.got > r.pad THEN r.got - r.pad ELSE 0

(* One round of the loop: at most Ask bytes from Pos on, of which the file *)
(* has Avail; remote and archive rounds deliver all they ask for or fail.  *)
Left == rd.len - rd.got
Pos == rd.lo + rd.got
Avail == dir.shard[rd.shard].size - Pos
AskUnclamped == IF rd.path = "archive" THEN ZTake(dir.shard[rd.shard].z, Pos, Left) ELSE PreadMax
Ask ==
  CASE rd.path = "archive" -> ZTake(dir.shard[rd.shard].z, Pos, Left)
    [] rd.path = "remote" -> Min({Left, RemoteChunk})
    [] rd.path = "buffered" -> Left
    [] OTHER -> Min({Left, PreadMax})
AllOrNothing == rd.path \in {"archive", "remote"}
Sound == rd.path = "archive" => ZSound(dir.shard[rd.shard].z, Pos)

ByteOf(r, j) ==
  IF rd.path = "archive"
  THEN ZByte(dir.shard[rd.shard].z, Pos, r, rd.addr + rd.got, dir.shard[rd.shard].dfd, j)
  ELSE Pos + j
Copied(r) ==
  [rd EXCEPT !.got = @ + r,
             !.buf = [b \in DOMAIN @ |-> IF b - rd.got \in 0 .. r - 1
                                         THEN ByteOf(r, b - rd.got) ELSE @[b]]]

Reading == rd.via # "none" /\ ~rd.done
FullRound ==
  /\ Reading /\ Left > 0 /\ Sound
  /\ AllOrNothing => Ask <= Avail
  /\ Min({Ask, Avail}) > 0
  /\ rd' = Copied(Min({Ask, Avail}))
  /\ UNCHANGED faults
ShortRound ==
  /\ Reading /\ Left > 0 /\ ~AllOrNothing /\ faults < MaxFaults
  /\ \E r \in 1 .. Min({Ask, Avail}) - 1 : rd' = Copied(r)
  /\ faults' = faults + 1
FailedRound ==
  /\ Reading /\ Left > 0 /\ faults < MaxFaults
  /\ rd' = [rd EXCEPT !.done = TRUE]
  /\ faults' = faults + 1
AtEnd ==
  /\ Reading
  /\ Left > 0 => ~Sound \/ Avail <= 0 \/ (AllOrNothing /\ Ask > Avail)
  /\ rd' = [rd EXCEPT !.done = TRUE]
  /\ UNCHANGED faults
Round == FullRound \/ ShortRound \/ FailedRound \/ AtEnd
-----------------------------------------------------------------------------
StoreInit ==
  /\ \E c \in Calls : dir = c.dir /\ op = c.op
  /\ pc = "open" /\ next = 1 /\ store = Closed /\ rd = Idle /\ faults = 0

DirRefused ==
  \/ dir.incomplete \/ dir.shard = <<>> \/ dir.remote = "bad"
  \/ dir.remote = "yes" /\ ~dir.socket
OpenDir ==
  /\ pc = "open"
  /\ pc' = IF DirRefused THEN "closed" ELSE "scan"
  /\ UNCHANGED <<storeVars, next, rd, faults>>

Scan ==
  /\ pc = "scan" /\ next <= Len(dir.shard)
  /\ LET sh == dir.shard[next] IN
     IF ScanOk(sh)
     THEN /\ store' = [store EXCEPT !.t = @ \o [k \in DOMAIN sh.tensor |-> <<next, k>>]]
          /\ next' = next + 1 /\ UNCHANGED pc
     ELSE store' = Closed /\ pc' = "closed" /\ UNCHANGED next
  /\ UNCHANGED <<input, rd, faults>>
(* The bridge does not answer the query for a shard's size.                *)
ScanUnanswered ==
  /\ pc = "scan" /\ next <= Len(dir.shard) /\ dir.remote = "yes" /\ faults < MaxFaults
  /\ store' = Closed /\ pc' = "closed" /\ faults' = faults + 1
  /\ UNCHANGED <<input, next, rd>>

(* The index: a duplicate name refuses the directory.                      *)
StartIndex ==
  /\ pc = "scan" /\ next > Len(dir.shard)
  /\ store' = [store EXCEPT !.bucket = [j \in 0 .. Buckets(Len(store.t)) - 1 |-> Empty]]
  /\ pc' = "index" /\ next' = 1
  /\ UNCHANGED <<input, rd, faults>>
IndexNext ==
  /\ pc = "index" /\ next <= Len(store.t)
  /\ LET name == NameOf(store.t[next]) IN
     IF Named(store.t, store.bucket, name)
     THEN store' = Closed /\ pc' = "closed" /\ next' = 1
     ELSE /\ store' = [store EXCEPT !.bucket[Probe(store.t, store.bucket, name)] = next]
          /\ next' = next + 1 /\ UNCHANGED pc
  /\ UNCHANGED <<input, rd, faults>>
Opened == pc = "index" /\ next > Len(store.t)

Open == OpenDir \/ Scan \/ ScanUnanswered \/ StartIndex \/ IndexNext
=============================================================================
