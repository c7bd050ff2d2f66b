# Verification of the K3 streaming engine

TLA+ specifications of `kimi-k3-for-me`: of the parts that decide *which bytes a
multiplication reads*, of those that decide *which ids a run consumes and emits*, and of the
files that outlive a run; the TLC configurations that check them on small instances, and TLAPS
proofs of the most important results for every instance. The reference is the code; paths
below are relative to the repository's parent directory `src/`, as in
`src/src/io/k3_trunk.c`.

## 1. The system

The engine runs a mixture-of-experts model whose weights do not fit in memory. One process
generates tokens: for every token `forward()` walks the layers of the stack, and for every
layer it needs two kinds of weights from disk.

| component | source | state it keeps | operations |
|---|---|---|---|
| Trunk layer ring | `io/k3_trunk.c` | pinned prefix, 1 or 2 ring slots, `layer_of`, `slot_of`, `ring`; the hand-off record `K3TrunkIO` shared with one reader thread | open, bind, prefetch, close; the reader's loop |
| Trunk memory plan | `io/k3_trunk.c` `trunk_open` | ring size, slot size, pinned prefix | a fixed-point loop of at most four passes |
| Trunk row pipeline | `io/k3_trunk.c` (`rows_*`, `kvb_*`) | two row buffers, one job shared with a reader thread, the vector arena, kv_b buffers | acquire, apply, apply rows, bind, close |
| Expert cache | `cache/k3_cache.c` | slots with a key each (three states), stamps, pins; the batch shared with up to 16 workers | getmany, get, resident, pin, prefetch, drain, free |
| MoE driver | `core/k3_ops.c` | the token's top-k, or a chunk's union of experts | k3_moe, k3_moe_prefill |
| Forward pass | `cli/k3_run.c` `forward` | walk position, KDA state, MLA cache rows, per-pass token sets | one pass over the layers |
| Prefill and checkpoints | `cli/k3_run.c` | positions cached, checkpoint file and its `.tmp` | read-in by chunks, save, pause on Ctrl-C, resume |
| State files | `cli/k3_run.c` | header, ids, recurrent state, caches | save, peek, load |
| Speculative decode | `cli/k3_run.c`, `core/k3_ops.c` | pending id, tentative log, the draft model's lag | draft, verify sweep, commit, stop |
| Tensor store | `io/k3_st.c`, `k3_zfile.h`, `k3_zmap.h`, `k3_remote.h` | tensor index, file handles, block maps | open, find, read, aligned read |
| Binding and expert loads | `model/k3_bind.c`, `io/k3_load.c` | the blob, the widening area | plan, resolve, load; bind from a packed run or by rows; stream rows of the vocabulary |
| Kernels, tokenizer, CLI | `core/k3_ops.c`, `tokenizer/`, `cli/` | — | arithmetic and parsing |

How they interact: `forward` calls `k3_trunk_bind`, then `k3_trunk_prefetch` with the next
executed layer, then computes; inside a layer `k3_moe` hands its experts to the cache's
`getmany` and asks for them with `get`. A trunk's bind hands what it read to
`k3_bind_layer_mem`; with `--trunk-rows` it hands out row sources instead, and every product
reads its own matrix. The cache's reads and the binders of a plain checkpoint go through the
tensor store. `main` wraps `forward`: it reads a prompt in, decodes one id at a time or
speculatively, and saves what the layers carry. Three kinds of threads run beside the main
one: the trunk's reader and the row pipeline's reader (each with a mutex and a condition variable), and
the cache's workers (those of `K3CachePipe`, joined by `drain`). Nothing else is concurrent.
Crashes matter to files only.

What is hard, and therefore what the properties are about: reads that overlap with compute
and must not land in memory in use; index entries that outlive the bytes they name; a read
that fails after its slot was given away; wake-ups between two threads that share one
condition variable; an order of layers that is fixed except when it is not (loops, early
exits, fewer layers than the file holds); pins and reservations that together could leave no
slot to evict; a sizing loop whose two unknowns depend on each other; rows cut into tiles and
put together again; positions consumed tentatively and taken back; files cut short; offsets
mapped through windows, blocks and extents. `PROJECT.json` lists each hazard at its line, with
the property that watches it.

## 2. The modules

| module | models | kind |
|---|---|---|
| `LayerWalk` | the order `forward` executes layers in | operators |
| `LayerBinding` | what `forward` is promised by a trunk | abstract specification |
| `TrunkRing` | ring, reader thread and the `forward` loop that drives them | detailed specification, refines `LayerBinding` |
| `TrunkRingInv`, `TrunkRing_proofs` | inductive invariant of the ring; theorems | predicates, proofs |
| `TrunkBudget`, `TrunkBudget_proofs` | the sizing loop of `trunk_open`; theorems | specification, proofs |
| `RowTiles` | row selections and how they are cut into tiles | operators |
| `RowProduct` | what a product is promised by a row source | abstract specification |
| `TrunkRows` | the row pipeline: bind, tiles, reader thread, kv_b buffers | detailed specification, refines `RowProduct` |
| `NumberFacts` | least elements, `\div` and `%`, products | lemmas |
| `TrunkRowsInv`, `TrunkRows_proofs` | inductive invariant of the pipeline; tiles cover their selection; theorems | predicates, proofs |
| `ExpertStore` | what the MoE is promised by a `K3ExpertSrc` | abstract specification |
| `ExpertCache` | cache, workers and the MoE that drives them | detailed specification, refines `ExpertStore` |
| `ExpertCacheInv`, `ExpertCache_proofs` | inductive invariant of the cache; theorems | predicates, proofs |
| `KdaState` | what a recurrent layer carries, logs and replays | operators |
| `DraftRule` | the n-gram drafter, acceptance, `emit_keep` | operators |
| `StateFile` | what a state file holds and when it loads | operators |
| `Session` | two runs of the program: read-in, decode, sweeps, saves, crashes | specification |
| `SessionInv`, `Session_proofs` | inductive invariant of a run; what it carries as a function of the ids; theorems | predicates, proofs |
| `WeightPlan` | the configuration and the tensors a layer needs | operators |
| `ShardArchive` | the two compressed shard formats | operators |
| `ShardStore` | scan and index of a directory, the read loop | operators and actions |
| `WeightBinding` | binders, vocabulary streaming and expert loads over the store | specification, extends `ShardStore` and `WeightPlan` |
| `WeightBindingInv`, `WeightBinding_proofs`, `WeightGives_proofs` | inductive invariants of the store and of the call on it; archives read back as the file; what a call has handed over and has still to read; theorems | predicates, proofs |
| `MC*` | instances for TLC | |

Bytes are abstracted to *whose* bytes they are, or where they come from. In the ring and the cache
a read is two steps: `BeginRead` marks the slot as being written by a thread, `EndRead` leaves
the layer's (or expert's) bytes there if the read succeeded. Two readers in one slot leave
`Torn`. So "the multiplication saw the right weights" is a statement about `content`,
independent of the index the code keeps, and the refinement checks compare the two. In the store
a byte *is* its offset in the shard.

### LayerWalk, LayerBinding, TrunkRing

A walk is a record `[bound, a, b, passes, adaptive]`: how many layers the run binds
(`--layers`), the looped span and how often it runs (`--loop-layers`, `--loop-count`), and
whether tokens may stop early (`--loop-exit`). `LayerAt(w, v)` is the code's `vmap[v]`;
`Following` is the next `v` of the loop in `forward`, or 0 for the next token.

`TrunkRing` keeps the fields of `K3Trunk` and `K3TrunkIO` under their names. The control state
`mpc` of the main thread is: `bind` (about to call `k3_trunk_bind`), `waiting` (in
`trunk_io_wait`), `reading` (in its own `load_run`), `bound` (bind has returned), `compute` (hint
given), `failed`, `joining` and `closed`. Every critical section under `io->mu` is one action;
`layer_of`, `slot_of` and `ring` are written by the main thread alone, also outside the mutex.
`BindHit`, `BindMiss`/`ReadSync`, `WaitTake`/`WaitSleep` and `BindPinned` are the branches of
`k3_trunk_bind`; `Prefetch`/`PrefetchIgnored` those of `k3_trunk_prefetch`; `ReaderPoll` and
`ReaderPost` the two halves of `trunk_io_main`'s loop. Any read may fail; either thread may wake
up spuriously; a layer may fail before or after the hint.

The pin count and ring size are arbitrary in the initial state: `TrunkBudget` is the module
about how they are chosen, and nothing in the ring relies on more.

### TrunkBudget

One action, `Pass`, is one iteration of the loop; sizes are in units of which `Page` make one
`K3_TRUNK_ALIGN`. A run of a layer is a whole number of pages (`pack_trunk.py` pads it); the
widened vectors are any number of units, as `k3_bind_widen_bytes` rounds nothing: K3's 25888768 bytes
are 6320.5 pages. `Allocated` is what `k3_trunk_open` then asks the system for: every pinned
layer and the ring go through `k3_alloc_direct`, which rounds lengths up to `Huge` (2 MB, or
nothing with `K3_NOHUGE`).

### RowTiles, RowProduct, TrunkRows

A selection `[blk, r0, nr]` takes `nr` rows from row `r0` on of every block of `blk`; `SelRow`,
`SelCount`, `SelTile` and `TilePart` are the code's helpers, `Selected` says what they are for.
`TrunkRows` keeps the fields of `K3Rows`. `BindStart` is `k3_trunk_bind` in row mode,
`AcquireMatrix`, `AcquireVector` with `VectorBegin`/`VectorEnd` are `rows_acquire`; `Pass` begins
`rows_run`, `TileReady` submits the next tile and `ApplyTile` applies the one at hand;
`KvbPass`, `KvbFill` and `KvbApply` are `rows_apply_rows` with a kv_b buffer in the modes ACTIVE
and PIN. `rows_whole_tiles` is `K3_ROWS_WHOLE_TILES`: the reads are then cut from the whole
matrix and the selection is applied to each tile. The reader is `ReaderSleep`, `ReaderTake`,
`ReaderPost`; a read may fail, and either thread may wake up spuriously. A product is the triple
of layer, matrix and row it was computed from, whatever the buffer then held.

`RowProduct` owes a set of such triples: it delivers every one to its own row of `y`, or
fails, zeroes `y` and delivers nothing ever after.

### ExpertStore, ExpertCache

`ExpertCache` covers the serial path (OpenMP loop, publication in disk order, here any order) and
`K3_EXPERT_PIPELINE` (worker threads), chosen by the variable `pipeline`; `batching` is the
absence of `K3_NOPREFETCH`. `missing` is the set of experts whose tensors the shard set lacks or
whose run exceeds a slot. `key_of` has the code's three states. Stamps are kept as ranks
(`used_at`), which is all `pick_victim` compares. Workers between two reads are counted in
`idle`; one that reads is its batch entry in state `reading`. The MoE is `Begin` (a list is
chosen), `NextExpert` (an expert was multiplied, or dropped: then `forward` fails and no further
list comes), and `DraftUse` (the draft model's `resident`). Between lists the rest of the
interface may be called: pin, unpin, prefetch, the reporting calls, free.

### KdaState, DraftRule, StateFile, Session

A behaviour of `Session` is two commands: the first reads `Prompt` in (with `--checkpoint` if
it says so), decodes and saves; the second loads what was saved and goes on with `Again`. After
a pause or a crash the same command is given again. What a layer carries is kept as the ids it
consumed: `fed` for the recurrent matrix, the last `Hist` of them for the ShortConv history, and
the rows of the MLA cache, one set for every pass of the layer loop. Under `--loop-exit` pass
`p` consumes only the positions of depth at least `p`, so `pcached` counts rows per pass. The model is
a constant (`Worlds`): which id follows the last `Window` ids of a context, and how deep an id
runs. `Window` is any number, so long a context as one likes; two are enough for TLC to tell a
world that looks back from one that does not.

`Init` draws a world, a command and a file that may already be at the checkpoint path.
`StartFresh`, `StartLoaded` and `StartRefused` are the load phase of `main`; `ReadChunk` is one
chunk of `prefill`; `OpenTmp`, `WriteTmp`, `Rename` are `checkpoint_write`, a state file being
written in three parts; `First` is the end of step 0, where the draft model reads the sequence
in. `SerialStep`, `NgramStep` and `FirstDraft`/`NextDraft` are the three ways a decode step
begins; `Sweep` is the tentative `forward` over the pending id and the drafts, `Commit` is
`spec_commit` with the replay (`k3_kda_advance`) of what `emit_keep` let through.
`BeginSave`, `OpenState`, `WriteState`, `SaveFails` are `--save-state`. `Crash` may come between
any two steps, `Interrupt` is Ctrl-C.

### WeightPlan, ShardArchive, ShardStore, WeightBinding

`Calls` is a set of pairs of a directory and an operation. A directory is a sequence of shards,
each with what its header says, its size, its archive if it is compressed, and whether direct
I/O is to be had. `OpenDir`, `Scan`, `StartIndex` and `IndexNext` are `k3_st_open`: every shard
is scanned and checked, then the names are entered in an open-addressed table. `StartRead`
begins `k3_st_read` or `k3_st_read_aligned`: it picks plain, buffered, direct, archived or
remote, and the window, which for a selective archive ends with the file at the latest (a range
that runs past the end is then read up to it, where every other archive path refuses it); `Round` is one turn of the loop — `FullRound`, `ShortRound`,
`FailedRound`, `AtEnd`. `Ask` is what a round asks for, `ZByte` what byte of the file comes out
of an archive: blocks and extents, the byte shuffle, the direct interior of a raw extent. A
frame's identity is what its writer bound into it; zstd is external.

`WeightBinding` has the callers. `Resolve`, `Relayout`, `Allocate`, `LoadNext`, `Loaded`,
`BindDone` are `plan_resolve`, `plan_load` and the layer and model binds over them;
`Manifest` and the `Mem*` actions are `k3_bind_layer_mem`, `Acquire` is `k3_bind_layer_stream`,
`Prepare` and `StreamedRows` are `k3_model_stream`, `ExpertPart` is the expert load in one run
or six parts, `RangeRead` a bare aligned read. `held` says for every destination where it lies,
in which format, and which bytes of the source it was made from.

## 3. Runs

| run | question | bound |
|---|---|---|
| `ring_full` | all ring properties, refinement and liveness | 5 layers, pins 0–5, rings 1 and 2, plain walk and every span looped 2 or 3 times |
| `ring_short_bytes` | fewer layers bound than the file holds | 4 layers, 3 bound |
| `ring_exit_overwrite` | `--loop-exit` | 5 layers, every span, 3 passes |
| `budget` | sizing, what it adds up to and what is allocated | 4 layers of 1–3 pages, every budget, six sizes of the widened vectors |
| `budget_slot` | the same without the exception for budgets that waver | 3 layers of 1–3 pages |
| `budget_huge` | does what is allocated stay within the grant | 3 layers of 1–3 pages |
| `rows_passes` | all properties of the row pipeline, refinement and liveness | 3 layers of up to 4 tensors and 6 rows, buffers of 1 and 3 rows, 5 selections, 3 kv_b modes |
| `cache_pins` | all cache invariants, pins, refinement | 4 experts, 3 slots, top-1, batches of 2, 2 workers, lists of up to 3 |
| `cache_token` | tokens keep their experts | the same with top-2: the smallest cache the code admits |
| `cache_live` | gets and drains end | 3 experts, 2 slots, top-1 |
| `session` | state, output, drafts and files are those of serial decode; a read-in completes | 2 ids, prompt of 4, 12 worlds, 6 commands, 3 passes, 2 faults |
| `binding` | reads return the range, binds give their tensors, nothing whole is refused | 3 layers of a small configuration, one I/O fault |

Why the bounds are enough.

*Ring*: the ring alternates between two slots, so what matters is whether 0, 1, 2 or at least 3
layers stream, where the pinned prefix ends and where the walk wraps; five layers contain every
combination, with a looped span before, across and after the pins. *Budget*: a layer of three pages
among layers of one page is the extreme the code is written for (one dense layer), the widened
vectors end on a page, just before one, just after one and in its middle, and a huge page is two pages;
the pass bound is the code's.

*Rows*: matrices of four and six rows with buffers of one and three give passes of a single
tile, of an even and an odd number of tiles, and a last tile that is shorter; the selections are
whole, half of every block, a run of two in the middle of a block, and one the shape test must
refuse. Layers are bound in any order and any number of times, kv_b lies at a different place in
each layer that has one and differs in size from the other matrices, and one layer has none, so
a stale buffer would show. One vector is longer than a buffer of one row, so it is
read in pieces. `MaxMatrices` (the code's 64) is not reached, as in the code.

*Cache*: three slots allow one pinned, one in flight and one resident; two workers and two
entries allow publication out of order; four experts and lists of three exceed both the batch
and the cache, so reservation stops early. `MaxList` is the only bound not in the code: a list
is any sequence of up to that many distinct experts, or a top-k with a repetition. `BatchCap`
stands for `K3_MAX_TOPK` and `MaxTh` for the ceiling of the pool.

*Session*: a prompt of four ids with chunks of one, two, three and four leaves 1 to 4 chunks, so there are
pauses before, in and after the last but one checkpoint; `--gen` from 0 to 7 lets a sweep be cut by
`--gen`, by a stop id, by the room left, or not at all; drafts of one to three ids are accepted
wholly, partly or not, since the worlds repeat, alternate, or depend on two ids, and the draft
model may propose anything. Two faults allow a crash while resuming after a crash, and a
failed save followed by a crash. ShortConv histories of two are shorter and longer than what is
fed at once. Three passes allow a middle one that some ids skip.

*Binding*: the widths are those of a layer with every kind of tensor; alignment 4, reads of at
most 6 and chunks of 5 and 7 bytes make every range cross several rounds, blocks and extents;
ranges begin and end on, before and after each boundary. Each flawed directory has one thing
wrong: a tensor missing, of another shape or type, a header, an archive entry, a frame, a
duplicate name. One I/O error or short read may fall on any round of any read.

`cache_pins` and `cache_token` use the symmetry of experts; they check no liveness.
No run disables deadlock checking: `Terminated`, `Sized`, `Freed`, `Closed`, `Over_` and `Ended` (and
`StartRefused`, a command that is refused again and again) are the only stuttering ends.

### Fairness

`FairSpec` of the ring, `FairCSpec` and `FairRowsSpec` assume weak fairness of each running
thread: the main or calling thread inside a call, and the reader threads. They are ordinary
threads that hold no lock while they block elsewhere, so an enabled step is eventually taken. What
the user asks for, when the run ends, which reads fail and spurious wake-ups are not fair. For
the cache's workers it is enough that *some* worker step happens while one is enabled: each such
step uses up part of a finite batch. `FairSpec` of `Session` assumes that the process runs
(`RunStep`) and that a command which can start is given again (`Start`): the promise of
`--checkpoint` is made to someone who repeats the command. Crashes are bounded by `MaxFaults`,
interrupts are not.

### What the checks show

On these instances the ring, the row pipeline and the cache serve the bytes that are asked for,
never lose a slot or a wake-up, and keep what they promise to keep; whatever chunks, pauses,
resumes, sweeps and rejections a run goes through, what the layers carry, what is emitted and
what is saved is what serial decode would have produced, and the checkpoint on disk only ever
changes to a whole, longer one; every binder gives the struct the bytes of its own tensors from
every kind of shard, or fails; and no I/O-error-free call on a whole directory is refused. The
exceptions are each a run that TLC refutes by design and a finding in `PROJECT.json`:

* **Fewer layers than the file holds** (`--layers`). The hint after the last layer names layer
  `n_bound`, which exists in the file, so the reader reads it, although `trunk_open` says only bound
  layers are ever read. The read is never waited for, and until the reader gets to it the hand-off
  record is busy. At the next token the synchronous miss for layer 0 takes the other slot, its hint for layer
  1 is dropped, and the synchronous miss for layer 1 goes round to the slot the pending read
  owns: layer 1 is computed on from what two threads wrote there, and the refinement of `LayerBinding`
  fails (`ring_short_bytes`).
* **`--loop-exit`**. When every token has stopped, `forward` steps over a pass whose first layer was
  hinted, although a comment there says the hint is never wrong. The hinted read holds a slot and the hand-off
  record; the miss behind the span takes the other slot, its hint is dropped, and the next miss reads into
  the slot the reader is filling (`ring_exit_overwrite`).
* **Sizing**. The two unknowns can chase each other: one slot sized for layer 0 leaves room to pin it, two
  smaller slots do not. The loop then ends after its four passes on a slot size that belongs to the other
  pin count, and layer 0 streams through a slot too small for it (`budget_slot`). It takes widened vectors that end
  inside a page, as K3's do, and a budget less than a page short of two slots for layer 0 (for K3,
  at most 2048 bytes): `Wavers` is the exact condition, and `budget` checks that outside it
  nothing of the kind happens.
* **Huge pages**. The budget is divided without the rounding of `k3_alloc_direct`, so what is allocated can
  exceed it by up to 2 MB for each pinned layer and for the ring (`budget_huge`), although the budget
  "has to come first" and the memory plan charges no more than it. `WithinBudget` says how far
  it can be off.

Things the runs take as given, and that a reader of the code may want to know:

* A checkpoint is renamed without an `fsync`. The model's rename is atomic and what was written
  survives: that is a killed process, not a power failure.
* A `--save-state` that fails leaves a truncated file at its path and the run exits 0
  (`SaveFails`). The next run refuses the file; if it is also the file the run was loaded from,
  the earlier state is gone.
* Ctrl-C during the last chunk of a read-in is reported as accepted, but there is no checkpoint
  after that chunk, so nothing pauses (`First` resets the handler).
* A packed int8 layer with a float32 or bf16 matrix among its matrices is accepted and tagged
  int8, and the size of an int8 matrix is not compared with its shape. `pack_trunk.py` and
  `int8_trunk.py` write neither; `MCWeightBinding` leaves them out.
* The branch that catches a draft model up when it lags by more than one id is shown never to
  be needed (`DraftTrails`), and is not modelled.
* Without `--incremental` nothing is carried from one step to the next; that mode has no model.

## 4. Proofs

### The ring

`TrunkRing_proofs` is checked by TLAPS for any number of layers, any pin count and both ring sizes.

* `TypeCorrect`: `RSpec => []RTypeOK`, for every set of walks.
* `FullInvariant`: `RSpec => []FullInv`, that is, `IInv` along every walk that binds the whole stack
  and repeats its span a fixed number of times, once included (`FullWalk`), whatever other walks the
  instance has. These are the runs of `main` without `--layers` and `--loop-exit`.
* For the runs of such walks (`FullSpec`): `FullNoOverwrite`, `FullNamedSlotsHold`,
  `FullHintNeverWrong`, `FullOverlaps` (`EveryOtherReadOverlaps`: the main thread itself
  reads only layer 0 of a forward) and `FullRefines` (`FullSpec => BindsTheLayer`). The restriction is the
  point: under `--layers` and `--loop-exit` the statements are false (see above).

They rest on `WalkAssumption` alone: the trunk has at least one layer, and the walks are well formed.

The argument. Two facts must be strengthened. *Who owns a slot*: the reader writes only the slot in the
hand-off record, the main thread only `cur`, and only when nothing is pending (`HandOff`, `Bytes`,
`Index`). *Where the ring is*: with two slots `ring` is the older slot, and what both may hold is a
function of the position of the walk. Either at most two layers stream and all of them rest in
the ring (`Settled`), or the ring is `Moving`: the newer slot holds the layer being served and the older
one the layer before it (`Before`). That makes the layer asked for next not resident, hence
every hint taken up, hence the claimed slot never the one in use.

A repeated span breaks this in two ways, and the invariant has a case for each. If at most two layers of the
span stream (`Short`), they stay in the ring once the first pass is over: every repeat finds
them there, hints are ignored, and the slots are those the last layer `b` of the span left
(`Resting`). The same holds of a longer span whose first layers are pinned, as long as a pinned one is
served. Otherwise the walk turns back from layer `b` to the first streamed one, `From`, and there
the older slot holds `b` (`Turned`). `HintMisses` and `HintHeld` show that these
cases are all there are: a hint the ring does not hold leaves the layer in use in the other slot, and
one it does hold means that the next position is `Resting` or pinned, never that the ring has run
ahead of the walk. `ForwardEnds` does the same for the wrap to the next forward. That positions of a
walk are layers counted up, with a step back from `b` to `a` while repeats are left, is arithmetic
with `%` (`WalkSteps`). `FullInv` was model-checked with six layers, every span and one to three passes
before it was proved.

### The memory plan

`TrunkBudget_proofs` is checked for any number of layers, any run sizes, any size of the widened
vectors, any budget, any size of a huge page and any bound on the passes. It rests on `BudgetAssumption`
alone (runs are whole pages, as `pack_trunk.py` writes them).

* `SlotsSuffice` (`SlotsFit`) and `OnlyImproves` (`Monotone`), for every budget that does not waver.
* `BudgetKept` (`WithinBudget`), for every budget.
* `NarrowWindow`: a budget that wavers falls short of two slots for layer 0 by at least 1 and at most
  `RoundUp(widen) - widen`, the part of a page the widened vectors leave unused. So none does
  if they take whole pages, and at most 2048 do for K3.
* `WaveringFails`: with an even bound on the passes, as the code's 4, every budget that
  wavers ends on slots too small for layer 0. So `Wavers` excludes nothing that would have been right.

The argument does not ask whether the loop converged. After every pass the slots are those of some
prefix no longer than the pinned one, and the pinned prefix is the longest the budget pays for next to
that ring (`Sizing`, `SizedFor`). A slot sized for a shorter prefix holds every layer that remains
to stream. What has to be shown is that the prefix never shrinks. With two slots, smaller slots still
make two, so the ring gets cheaper. With one slot, dropping below half the budget would buy
a second slot and could cost pins. Two slots of the present size did not fit the budget, so all pins
together take less than such a slot and the part of a page a slot has more than a pin. That leaves two cases
(`OneSlotStays`): the layer the slot was sized for is not pinned, and the next pass asks for the same
slot; or it is layer 0, the only pin, which unless the budget wavers stays pinned next to two smaller
slots. `PagesApart` is the step to whole pages: sizes of runs differ by a page or not at all. For the exact window `WaveringFails` follows the loop pass by pass
(`Chasing`): it is at the larger slot after odd passes, at the smaller after even ones. The prefix sums
are a recursive function; that
it exists, and that it grows, is shown by a least counterexample (`Least` in `NumberFacts`).

### The row pipeline

`TrunkRows_proofs` is checked for every model (any layers, tensors, kv_b places), every set of
selections, every buffer size and every kv_b mode. It rests on `RowsAssumption`: layers are numbered
from 0 to one less than there are of them,
tensors have at least one row, no matrix exceeds `MaxRows`, buffers hold at least one row.

* `RowsInvariant`: `RowsSpec => []RowsInv`; from it `RowsTypes`, `RowsNoTileOverwritten`,
  `RowsNoReadOutstanding`, `RowsArenaHolds` (`ArenaHolds`: a bind never runs out of the vector arena).
* `RowsOwnRows`: `RowsSpec => OwnRows`, the refinement of `RowProduct`.

The argument. The reader is busy only inside `rows_run` (`Quiet`), and while a tile is applied it
fills the other buffer (`Spared`): that settles who writes where. `Filled` says what is in the buffer
to be applied next, or on its way there: the bytes of the tile the pass has come to, whose
first row and length are functions of `k`. `KvbHolds` says the same of the kv_b buffers: a valid
one holds all rows of the matrix it names. `Delivered` says that every selected row before the
current tile has its product. That the next tile goes on where this one ends is arithmetic:
`TilesCover` shows that a tile is not empty, fits its buffer and its
matrix, applies exactly the selected rows it contains, and that no selected row lies
between its end and the beginning of the next, whether tiles are cut from the selection or from the whole
matrix. `Laid` says how far the arena is filled: as far as the vectors the bind has passed take,
`Used(l)[j]` after the first `j` tensors. The size `rows_open` counts is a fold over all of them;
`FoldDefined` and `SmallIsUsed` show, by a least counterexample over the beginnings of the layer,
that the fold is the last of these numbers, `UsedGrows` that none before it is larger. `NumberFacts` has the facts about `\div` and `%` it needs. None of
`NoTileOverwritten` or `OwnRows` is inductive: a job for the wrong buffer, or a tile of the
wrong rows, is only ruled out by what the pass had submitted one step before.

### The cache

`ExpertCache_proofs` is checked for every set of experts, every set of lists, any number of slots and
workers, both read paths and every choice of pins. It rests on `CacheAssumption`: what `k3_cache_init`
enforces (at least `topk + 1` slots), what `k3_cfg.h` enforces (`topk` within `K3_MAX_TOPK`), and lists
that are not empty.

* `CacheInvariant`: `CSpec => []CInv`. From it `CacheTypes`, `CacheOneReader`, `CacheResident`,
  `CacheLosesNoSlot` and `CacheReadsOnce`.
* `CacheIndexed` (`key_of` and `slot_of` are inverse to each other) and, with it, `CachePinsHold`
  (`CSpec => PinsHold`).
* `CacheServes`: `CSpec => ServesTheExpert`, the refinement of `ExpertStore`.
* `RoomInvariant`: `CSpec => []RoomInv`. From it `CacheHasAVictim` (`CSpec => []AlwaysAVictim`),
  `CacheReserves` (`CSpec => TokenReserved`) and `CacheKeepsToken` (`CSpec => TokenStays`).

The argument for what is served is ownership. An entry of the batch is open from its reservation until its read is published
or buried, and an open entry owns its slot: the slot is in flight, no expert points at it, no other
entry and no synchronous read shares it (`Owned`, `SyncOwns`). So a read can only disturb a slot nobody
reads from, and `Finish` is the only way back into the index (`Registered`). `Progress` ties the
workers to the batch: as long as an entry is unread there is a worker left, so a drain leaves no entry
open. The three parts cannot be had one without the other: `ResidentHolds` is not inductive, because
nothing in it keeps a worker off a resident slot.

The argument for capacity counts slots. Pins of both kinds bar at most `NSlots - topk - 1` slots
(`PinsFit`, `FewBarred`), so whenever no slot is free more than `topk` are in flight, hold an expert of
the list or can be evicted (`PoolHolds`). For `getmany` with a list of at most `topk` experts that
leaves a slot at every entry (`Reserving`, `TokenRoom`). A `get` that reads by itself is harder: a batch
may hold every slot pins leave. `Behind` says that the list is worked through in the order it was
reserved in, so a get past the last reserved request finds nothing in flight. A get before it reads by itself
only if the reservation came to nothing, and then `Room` says that it left a free slot behind: there are
as many free slots as requests reserved in vain. So either nobody is evicted, which is why batches keep
a token's experts, or nothing is in flight. Without batches (`K3_NOPREFETCH`) the order of
the stamps does it: the slots stamped since the list began are on top (`Recent`), at most as many as
there were requests, and more than `topk` slots can be evicted, so the victim is not one of them.
`RoomInv` was model-checked on the instances of `cache_pins` and `cache_token` before it was proved.

### Store, reads and binds

`WeightBinding_proofs` is checked for every set of calls: any directory with any number of
shards of any kind, any hash function, any configuration, and any number of short and failed
rounds.

* `ZReadsTheFile`: for every archive of either format that passes its open
  checks, every position, every amount left, every destination address and with or without direct I/O, byte `j`
  of what a round copies is byte `pos + j` of the file. The
  steps: the entry looked up holds the position (`EntryHolds`: blocks by division, extents
  by the first end past it); a frame that passes the identity check decodes to its own
  block; handing out even and odd halves undoes the split (`Shuffle`); and the spans of a raw
  transfer cover it without a shift (`SpansCover`). Without the identity check the
  theorem is false, which is the mutant `AnyFrame`.
* `RoundServes`: whatever a round of the read loop does, what has come so
  far are the first bytes of the window and the range begins `pad` bytes into it (`Served`).
* `BindInvariant`: `Spec => []BindInv`. From it `BindTypes` (`BTypeOK`), `BindReads`
  (`ReadReturnsRange`, for the reads of every binder, of the vocabulary stream, of the expert loads
  and bare ones; a window of a selective archive that is cut at the end of the file gives the beginning
  of the range) and `BindFinds` (`FindsAll`).
* `BindFinds`: once `k3_st_open` has returned, a search for a name gives the one header entry that
  has it, and gives nothing exactly if no header has the name; no two entries share a name.

They rest on five assumptions. `ArchiveAssumption`: the alignment is positive. `StoreAssumption`:
a read, a remote chunk and the smallest table are at least 1; shards are typed, with *any* integers
for a header's offsets, negative ones too. `CountsAssumption`: no count of a configuration
is negative; `k3_cfg_load` does not check that, and its callers take it for granted.
`CallsAssumption`: what is asked for is a call of the code (a layer that exists, `size_t` numbers for
a range, `int64_t` ones for a manifest), and a conversion chunk holds at least one float.
`ArchiveSizes`: the size of an archived shard is the size of what it stands for, as the scan sets it
(`k3_st.c:219`); only `BindHonest` below needs it.

`BindInv` (`WeightBindingInv`) has what the properties lean on:

* `StoreHolds`: every shard was scanned before it is read, so its archive passed the open
  checks.
* `ListHolds`: the list of tensors has the entries of all scanned headers and nothing else.
* `TableHolds`: the table is at most half full and every bucket taken is taken by another
  entry, so a free one is met (`FreeBucket`: going round the table, every bucket is met, and they
  cannot all be taken by fewer entries). An entry sits behind buckets that are taken by other names (`Sits`), which is
  what makes a probe find it and a duplicate be noticed on the way. `k3_st_open` doubles the table until it is
  twice the entries; that the doubling gets there is `BucketsEnough`.
* `JobsHold`: every job of a caller names a shard of the directory, and the read of the
  first one is `Served`. The shard comes out of the name table, hence `TableHolds`.
* `PlanHolds`: a step of a bind is a request of its plan, a request that was resolved was found, and a
  blob has the size that was laid out.

A negative offset in a header is why `StartRead` refuses `off < 0`: the code compares there, and
the proof does not go through without it.

`WeightGives_proofs` says what the callers get, under the same assumptions.

* `GiveInvariant`: `Spec => []GiveInv`.
* `BindGives`: `Spec => [](PackerTrue => StructHolds)`.

`StructHolds` only speaks of a call that has succeeded; `GiveInv` says on the way there what has been
handed over so far, one conjunct for each kind of call:

* `LayoutHolds`, `LoadHolds`: the blob of a bind. The places are apart, aligned and inside what
  will be allocated; the loads go through them in order, and the one under way has the bytes of its tensor
  up to where its next job begins (`Tiles`). That the conversion chunks tile a tensor,
  whatever its size and the chunk's, is `LoadJobsTile`.
* `PackHolds`: the packed run. What has been passed is pointed at in the run, or widened into an
  area of its own behind what was widened before; an int8 vector is widened row by row, scale and elements
  in their places (`WidenTakes`).
* `StreamHolds`: the vocabulary stream. The rows here are those of the first `m` chunks; the
  chunks do not meet and their rows add up (`RowsCome`), to the whole vocabulary at the end.
* `PartsHold`: the six tensors of an expert. In one read, each is cut out where it lies; in six reads the
  loader only compares the *sum* of what came with the sum of what was asked for, and no read
  returns more than it was asked for, so if the sums agree every part came whole.

`PackerTrue` is what the code does not check, and the theorem is false without either part: of a packed
layer that the int8 entries have a scale and a row's elements per row, as many as the tensor is asked for,
and that no float32 or bf16 matrix stands beside an int8 one (the hazard at `k3_bind.c:474`); of an expert, that no header
gives a tensor a negative size, which `k3_st.c` does not refuse and which would let the sum of six
lengths agree with a part missing. Binds from a directory, streamed layers of the trunk
and streamed rows need neither. On the instance of the run `binding` calls of every kind succeed
with `PackerTrue`, and the conjuncts of `GiveInv` were model-checked there before they were proved.

The converse, that nothing is refused which should not be, is in the same module.

* `HonestInvariant`: `Spec => []HonestInv`.
* `BindHonest`: `Spec => [](Fitting => HonestBinds)`.
* `AreaFits`: the area of widened vectors is large enough for every layer.

`HonestBinds` speaks of the end of a call; `HonestInv` of what is still to come of a whole directory:

* `OpensWhole`: while it is opened, the list has the entries of the scanned shards, each once. As
  no two entries of a whole directory share a name, no probe meets a duplicate.
* `ServesWhole`: every job still to be read is of a range its shard has, with room for the window around
  it (`Available`); the read under way ends with all its bytes unless a fault is met
  (`ComesWhole`: from a file, a chunk at a time from the bridge, or out of an archive); no request
  was found wanting; the widened vectors of a packed run, each rounded up to 8 bytes, are inside
  their area; and the parts of an expert that came add up to what was asked for.

`Fitting` is what the code leaves to files and configuration, with the call being
made otherwise one that `CallWhole` allows:

* no header gives a negative offset, and for an expert none gives a tensor a negative size;
* a layer keeps no more of a tensor than the tensor has (the prefix of `A_log`: no more KDA
  heads than a head has elements);
* the vectors to be widened fit `k3_bind_widen_bytes`, and an int8 vector has a row;
* a row of the vocabulary fits the chunk of the stream, and a row asked for is one there is;
* what the loader may read as one whole expert lies in one shard, with scales that fit their weights.

Where one of these does not hold, a whole directory may be refused. On the instance of
the run `binding` every call that is whole satisfies `Fitting`, so there the theorem says what the run checks;
`HonestInv` was model-checked on that instance before it was proved.

The vectors' area is the hazard at `k3_bind.c:347`: `k3_bind_widen_bytes` counts the norms,
`routed_expert_norm` and the router's gate, and not `o_norm`, which a KDA layer widens too. `AreaFits` shows
that the slack of 4096 bytes, meant for rounding, pays for it whenever `4 * kda_head_dim + 40` bytes
are no more than the slack; K3's heads of 128 need 552. The hypothesis suffices and is not necessary: the run's
instance has a slack of 8 bytes, and its layers fit because none widens all that is counted.

### Sessions

`Session_proofs` is checked for every two prompts, every set of commands (chunk sizes, pauses,
`--spec`, `--draft-trunk`, `--gen`, stop ids), every model (`Worlds`), any `Hist`, `Window` and
number of passes, any number of crashes, failed writes and interrupts, and any well-formed
file found at the checkpoint path. It rests on `SessionAssumption`, which is what `main` refuses
or settles before a run begins: a prompt has an id, a chunk is at least one position, a draft
trunk comes with `--spec`; ids are not the code's "none"; a found file's header agrees with its
ids; a model gives every context a next id and every id a depth of 1 to `RMax` passes.

* `SessionInvariant`: `Spec => []SInv`. From it `SessionTypes`, `SessionCarriesSerial`
  (`CarriedIsSerial`), `SessionEmitsSerial` (`SerialOutput`), `SessionSavesSerial`
  (`SavedIsSerial`) and `SessionDraftTrails` (`DraftTrails`).
* `SessionCheckpoints`: `Spec => CheckpointAdvances`.

The argument is a comparison with serial decode, whose state after a run of ids is a function of
the ids alone (`StateAfter`, `RowsAfter`, `CountsAfter`). None of the properties is inductive
by itself; `SInv` (`SessionInv`) adds, by program counter, what each of them leans on:

* `Buffers`: the room of a run. What is missing to `--gen` ids always fits, with a position to
  spare, so a sweep of `spec_n + 1` positions never leaves the cache.
* `Tentative`: between `Sweep` and `Commit` the rows behind the carried ones, the passes of
  their positions and the log are those of the whole batch. The ids kept are a prefix of the
  batch (`Replays`: an accepted draft *is* what the model emits, `emit_keep` only shortens), and
  a log replayed up to a prefix gives the state of the prefix (`CommitCarries`). For pass
  `p` of the loop the prefix is counted in the positions that reached it (`CountsReached`).
* `Draft`: the draft model has consumed a prefix of the sequence, and its log is what was fed since;
  `CommitDrafts` shows that the lag is 0 or 1 after every commit that leaves room to draft.
* `ReadIn`: the read-in writes nothing past the positions it has fed, and the checkpoint on disk
  is not ahead of memory. With it a checkpoint only moves forward, and a resumed run carries
  what a run that was never interrupted carries (`CutBehind`).
* `Saved`: after `BeginSave` has blanked what rejected drafts left, rows and passes up to the
  saved position are serial decode's (`SaveClears`). Without that clearing the theorem is
  false, which is the mutant `ClearNothing`.
* `Files`: an unfinished file is a prefix of what memory holds, and memory does not change while
  it is written (`WholeStateIsSerial`).

The module begins with the lemmas about the operators: consuming ids one by one, or first some and then
the others (`UptoConcat`), rows written over a buffer (`Over`), and the ShortConv history
after any number of ids, fewer or more than it holds (`ConvAfter`). `Upto` is a recursive function; that
it exists and is what its equation says is shown by a least counterexample.

`SInv` was model-checked on the instance of the run `session` before it was proved.

### Only model-checked

Everything about liveness and fairness (out of the prover's reach, as is `ENABLED`): `BindReturns`,
`CloseReturns`, `GetReturns`, `DrainReturns`, `CallReturns`, `ReadInCompletes`. Every safety invariant and
action property of a passing run is stated by a theorem: `StructHolds` under `PackerTrue`,
`HonestBinds` under `Fitting`, the others as they are checked.

## 5. Not modelled

Kernels' arithmetic, dequantisation, the tokenizer, JSON parsing, option parsing, printing, the
Python tools and the benchmarks are not: they are either floating-point arithmetic or sequential
parsing. A configuration is a record that satisfies `k3_cfg_load`'s checks; its two JSON layouts
and aliases are not modelled; the refusal of a header above 64 MiB, and of archives whose blocks are too large
or too many, are part of what makes a header or an archive unusable. Of the MoE driver only the order it asks the cache in is. The remote bridge
answers a request whole or not at all; its wire format is not modelled. zstd and the index
checksum are external.

In the modelled parts, counters, timings, the request trace and the histogram are left out, the
OpenMP chunks of one read are one read, and `trunk_open`'s validation of `trunk.json` is the part
`ManifestOk` states. Guards against 64-bit overflow are left out where offsets are file offsets.
State files of version 1 are not distinguished from those of version 2.

What could follow: state files of version 1.
