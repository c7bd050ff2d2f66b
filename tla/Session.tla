------------------------------ MODULE Session -------------------------------
(***************************************************************************)
(* Incremental runs of the program (src/src/cli/k3_run.c): a prompt is     *)
(* read in by chunks with --checkpoint, ids are generated one by one or    *)
(* speculatively (--spec, --draft-trunk), the state is saved, and a later  *)
(* run loads it and goes on.  A run may die anywhere, and the same command *)
(* is then given again.                                                    *)
(*                                                                         *)
(* What the layers carry is kept as the ids they consumed (KdaState): one  *)
(* state and one set of cache rows for every pass of the layer loop, pass  *)
(* p having consumed only the positions that ran p passes (--loop-exit).   *)
(* Elements are numbered from 1: position i of the code is seq[i + 1].     *)
(***************************************************************************)
EXTENDS KdaState, DraftRule, StateFile, Functions

CONSTANTS
  Id,             \* token ids, positive
  Prompt, Again,  \* the prompts of the first command and of the one after
  Found,          \* what may already be at the --checkpoint path
  Commands,       \* [chunk, pause_after, ckpt, spec_n, hybrid, gen, stop]
  Worlds,         \* the model: [next, depth, layout]
  Window,         \* ids of the context the next one depends on
  RMax,           \* passes of the loop (loop_rmax)
  MaxFaults       \* crashes and failures in a behaviour

Passes == 1 .. RMax

(* A prompt has at least one id; what main refuses or settles before a run *)
(* begins (--prefill-chunk, --gen, --draft-trunk without --spec).          *)
ASSUME SessionAssumption ==
  /\ Hist \in Nat /\ Window \in Nat /\ RMax \in Nat \ {0} /\ MaxFaults \in Nat
  /\ Id \subseteq Nat \ {NoId}
  /\ Prompt \in Seq(Id) \ {<<>>} /\ Again \in Seq(Id) \ {<<>>}
  /\ \A f \in Found \ {NoFile} : /\ f.ids \in Seq(Id) /\ f.cached \in 0 .. Len(f.ids)
                                 /\ f.parts \in 0 .. Whole
  /\ \A c \in Commands :
       /\ c.chunk \in Nat \ {0} /\ c.pause_after \in Nat /\ c.ckpt \in BOOLEAN
       /\ c.spec_n \in Nat /\ c.gen \in Nat /\ c.stop \subseteq Id
       /\ c.hybrid \in BOOLEAN /\ (c.hybrid => c.spec_n > 0)
  /\ \A w \in Worlds : /\ w.next \in [[1 .. Window -> Id \cup {NoId}] -> Id]
                       /\ w.depth \in [Id -> Passes]

VARIABLES
  world, cmd,     \* fixed in a behaviour
  disk,           \* the files: ckpt, its .tmp, and the saved state
  pc, turn, faults,
  seq, nout, cached, Tmax, resumed,     \* main's locals
  ks, rows, passes, pcached,            \* Weights: what the layers carry
  log, sweep_pcached,                   \* the sweep log, and where it began
  d, dw, dlog,                          \* the draft, and the draft model
  written, sigint

fixed   == <<world, cmd>>
decoded == <<seq, nout, cached, Tmax, resumed>>
carried == <<ks, rows, passes, pcached>>
tentative == <<log, sweep_pcached>>
drafts  == <<d, dw, dlog>>
vars == <<fixed, disk, pc, turn, faults, decoded, carried, tentative, drafts, written, sigint>>

T == Len(seq)

(* The model: the id it emits after a context, and the passes a position   *)
(* takes to settle.  A pass consumes the positions that reach it.          *)
LastIds(ctx) ==
  [j \in 1 .. Window |->
     IF Len(ctx) - Window + j > 0 THEN ctx[Len(ctx) - Window + j] ELSE NoId]
Greedy(ctx) == world.next[LastIds(ctx)]

Consume(depth, p, fed, x) == IF depth[x] >= p THEN Append(fed, x) ELSE fed
Upto(depth, p, ids) ==
  LET fed[n \in 0 .. Len(ids)] ==
        IF n = 0 THEN <<>> ELSE Consume(depth, p, fed[n - 1], ids[n])
  IN fed
Reach(depth, p, ids) == Upto(depth, p, ids)[Len(ids)]
Reaching(p, ids) == Reach(world.depth, p, ids)
DepthsOf(ids) == [i \in DOMAIN ids |-> world.depth[ids[i]]]

(* The cache rows of a pass, and ids written over them from row at on.     *)
Blank(n) == [i \in 1 .. n |-> NoId]
Over(r, at, ids) ==
  [i \in DOMAIN r |-> IF i > at /\ i - at <= Len(ids) THEN ids[i - at] ELSE r[i]]

(* What serial decode holds after consuming ids, in a cache of cap rows.   *)
StateAfter(ids)  == [p \in Passes |-> Feed(ZeroState, Reaching(p, ids))]
RowsAfter(ids, cap) == [p \in Passes |-> Over(Blank(cap), 0, Reaching(p, ids))]
CountsAfter(ids) == [p \in 2 .. RMax |-> Len(Reaching(p, ids))]

FileAfter(ids, n, layout) ==
  LET fed == SubSeq(ids, 1, n)
  IN [parts |-> Whole, ids |-> ids, cached |-> n, layout |-> layout,
      ks |-> StateAfter(fed), rows |-> RowsAfter(fed, n),
      passes |-> Over(Blank(Len(ids)), 0, DepthsOf(fed)), pcached |-> CountsAfter(fed)]

NoMemory ==
  /\ seq' = <<>> /\ nout' = 0 /\ cached' = 0 /\ Tmax' = 0 /\ resumed' = 0
  /\ ks' = StateAfter(<<>>) /\ rows' = RowsAfter(<<>>, 0)
  /\ passes' = <<>> /\ pcached' = CountsAfter(<<>>)
  /\ log' = [p \in Passes |-> <<>>] /\ sweep_pcached' = CountsAfter(<<>>)
  /\ d' = <<>> /\ dw' = [cached |-> 0, ks |-> ZeroState, row |-> 0] /\ dlog' = <<>>
  /\ written' = 0 /\ sigint' = "default"

Init ==
  /\ world \in Worlds /\ cmd \in Commands
  /\ disk \in [ckpt : {IF f = NoFile THEN f
                       ELSE [FileAfter(f.ids, f.cached, f.layout) EXCEPT !.parts = f.parts]
                         : f \in Found},
               tmp : {NoFile}, state : {NoFile}]
  /\ pc = "idle" /\ turn = 1 /\ faults = 0
  /\ seq = <<>> /\ nout = 0 /\ cached = 0 /\ Tmax = 0 /\ resumed = 0
  /\ ks = StateAfter(<<>>) /\ rows = RowsAfter(<<>>, 0)
  /\ passes = <<>> /\ pcached = CountsAfter(<<>>)
  /\ log = [p \in Passes |-> <<>>] /\ sweep_pcached = CountsAfter(<<>>)
  /\ d = <<>> /\ dw = [cached |-> 0, ks |-> ZeroState, row |-> 0] /\ dlog = <<>>
  /\ written = 0 /\ sigint = "default"
-----------------------------------------------------------------------------
(* The command of a turn: the first reads Prompt in, with --checkpoint if  *)
(* so asked; the second continues the saved state with Again.              *)
Given == IF turn = 1 THEN Prompt ELSE Again
Checkpointing == turn = 1 /\ cmd.ckpt
Source == IF turn = 1 THEN disk.ckpt ELSE disk.state
Loading == turn = 2 \/ (Checkpointing /\ disk.ckpt # NoFile)
NewIds == IF turn = 1 THEN SubSeq(Given, Len(Source.ids) + 1, Len(Given)) ELSE Given
Ceiling(prior, np) == prior + np + cmd.gen + 1
Acceptable ==
  /\ Source # NoFile /\ IsStateFile(Source)
  /\ turn = 1 => IsReadIn(Source, Given)
  /\ Loads(Source, world.layout, Ceiling(Len(Source.ids), Len(NewIds)))

(* Buffers are allocated for the whole run and cleared.                    *)
Alloc(cap) ==
  /\ Tmax' = cap
  /\ nout' = 0 /\ written' = 0 /\ d' = <<>>
  /\ log' = [p \in Passes |-> NoRows(cmd.spec_n + 1)] /\ dlog' = NoRows(cmd.spec_n + 1)
  /\ dw' = [cached |-> 0, ks |-> ZeroState, row |-> 0]
  /\ sweep_pcached' = CountsAfter(<<>>)
  /\ sigint' = IF Checkpointing THEN "armed" ELSE "default"

StartFresh ==
  /\ pc = "idle" /\ ~Loading
  /\ Alloc(Ceiling(0, Len(Given)))
  /\ seq' = Given /\ cached' = 0 /\ resumed' = 0
  /\ ks' = StateAfter(<<>>) /\ rows' = RowsAfter(<<>>, Tmax')
  /\ passes' = Blank(Tmax') /\ pcached' = CountsAfter(<<>>)
  /\ pc' = "read"
  /\ UNCHANGED <<fixed, disk, turn, faults>>

StartLoaded ==
  /\ pc = "idle" /\ Loading /\ Acceptable
  /\ Alloc(Ceiling(Len(Source.ids), Len(NewIds)))
  /\ seq' = Source.ids \o NewIds
  /\ cached' = Source.cached /\ resumed' = Len(Source.ids)
  /\ ks' = Source.ks /\ pcached' = Source.pcached
  /\ rows' = [p \in Passes |-> Over(Blank(Tmax'), 0, Source.rows[p])]
  /\ passes' = Over(Blank(Tmax'), 0, Source.passes)
  /\ pc' = "read"
  /\ UNCHANGED <<fixed, disk, turn, faults>>

StartRefused ==
  /\ pc = "idle" /\ Loading /\ ~Acceptable
  /\ UNCHANGED vars

(* The process is gone: a crash, a kill, a forward or a checkpoint that    *)
(* failed.  What it had written stays, whole or not.                       *)
Crash ==
  /\ pc \notin {"idle", "over"} /\ faults < MaxFaults
  /\ faults' = faults + 1
  /\ pc' = "idle"
  /\ NoMemory
  /\ UNCHANGED <<fixed, disk, turn>>

(* k3_on_sigint.  A second Ctrl-C is a Crash.                              *)
Interrupt ==
  /\ pc \in {"read", "open", "write", "rename"} /\ sigint = "armed"
  /\ sigint' = "requested"
  /\ UNCHANGED <<fixed, disk, pc, turn, faults, decoded, carried, tentative, drafts, written>>
-----------------------------------------------------------------------------
(* forward on the exact model, carrying: q ids from position cached on.    *)
Forward(ids) ==
  /\ ks' = [p \in Passes |-> Feed(ks[p], Reaching(p, ids))]
  /\ rows' = [p \in Passes |-> Over(rows[p], IF p = 1 THEN cached ELSE pcached[p],
                                    Reaching(p, ids))]
  /\ passes' = Over(passes, cached, DepthsOf(ids))
  /\ pcached' = [p \in 2 .. RMax |-> pcached[p] + Len(Reaching(p, ids))]

(* prefill: one chunk.                                                     *)
Left == T - cached
Chunk == Min({Left, cmd.chunk})
ReadChunk ==
  /\ pc = "read"
  /\ Forward(SubSeq(seq, cached + 1, cached + Chunk))
  /\ cached' = cached + Chunk
  /\ pc' = IF Chunk = Left THEN "first" ELSE IF Checkpointing THEN "open" ELSE "read"
  /\ UNCHANGED <<fixed, disk, turn, faults, seq, nout, Tmax, resumed, tentative, drafts,
                 written, sigint>>

(* k3_state_save of n ids, as far as it has come: k parts.                 *)
Memory(n, k) ==
  [parts |-> k, ids |-> SubSeq(seq, 1, n), cached |-> cached, layout |-> world.layout,
   ks |-> IF k = Whole THEN ks ELSE StateAfter(<<>>),
   rows |-> [p \in Passes |-> SubSeq(rows[p], 1, cached)],
   passes |-> SubSeq(passes, 1, n), pcached |-> pcached]

(* checkpoint_write: PATH.tmp, then the rename.                            *)
CkptInPlace == "ckpt"
CkptTarget == "tmp"
OpenTmp ==
  /\ pc = "open"
  /\ disk' = [disk EXCEPT ![CkptTarget] = Memory(cached, 0)]
  /\ pc' = "write"
  /\ UNCHANGED <<fixed, turn, faults, decoded, carried, tentative, drafts, written, sigint>>

WriteTmp ==
  /\ pc = "write"
  /\ disk' = [disk EXCEPT ![CkptTarget] = Memory(cached, @.parts + 1)]
  /\ pc' = IF disk[CkptTarget].parts + 1 = Whole THEN "rename" ELSE "write"
  /\ UNCHANGED <<fixed, turn, faults, decoded, carried, tentative, drafts, written, sigint>>

PauseNow(n) == (cmd.pause_after > 0 /\ n >= cmd.pause_after) \/ sigint = "requested"

Rename ==
  /\ pc = "rename"
  /\ disk' = [disk EXCEPT !.ckpt = disk[CkptTarget], !.tmp = NoFile]
  /\ IF PauseNow(written + 1)
     THEN pc' = "idle" /\ NoMemory
     ELSE /\ pc' = "read" /\ written' = written + 1
          /\ UNCHANGED <<decoded, carried, tentative, drafts, sigint>>
  /\ UNCHANGED <<fixed, turn, faults>>
-----------------------------------------------------------------------------
(* The output loop: the first keep ids of emit are appended.               *)
Keep(emit) == EmitKeep(emit, cmd.gen - nout, Tmax - T, cmd.stop)

Emit(emit, keep) ==
  /\ seq' = SubSeq(seq, 1, T) \o SubSeq(emit, 1, keep)
  /\ nout' = nout + keep
  /\ pc' = IF \/ keep > 0 /\ emit[keep] \in cmd.stop
              \/ T + keep >= Tmax
              \/ nout + keep >= cmd.gen
           THEN "save" ELSE "step"

(* The end of step 0: the first id, and the draft model reads the whole    *)
(* sequence in, its state being saved nowhere.                             *)
First ==
  /\ pc = "first"
  /\ sigint' = "default"
  /\ LET emit == <<Greedy(ks[1].fed)>> IN Emit(emit, Keep(emit))
  /\ dw' = IF cmd.hybrid THEN [cached |-> cached, ks |-> Feed(ZeroState, seq), row |-> 0]
           ELSE dw
  /\ UNCHANGED <<fixed, disk, turn, faults, cached, Tmax, resumed, carried, tentative, d,
                 dlog, written>>

(* Room to speculate.                                                      *)
MayDraft ==
  /\ cmd.spec_n > 0
  /\ T + cmd.spec_n + 1 < Tmax
  /\ cached + cmd.spec_n + 1 <= Tmax                             \* kv_cap

NgramDraft == SpecDraft(seq, cmd.spec_n)
Drafted == IF MayDraft /\ ~cmd.hybrid THEN NgramDraft ELSE <<>>

SerialStep ==
  /\ pc = "step"
  /\ ~(MayDraft /\ cmd.hybrid) /\ Drafted = <<>>
  /\ LET ids  == <<seq[cached + 1]>>
         emit == <<Greedy(ks[1].fed \o ids)>>
     IN /\ Forward(ids)
        /\ Emit(emit, Keep(emit))
  /\ cached' = cached + 1
  /\ UNCHANGED <<fixed, disk, turn, faults, Tmax, resumed, tentative, drafts, written, sigint>>

NgramStep ==
  /\ pc = "step" /\ Drafted # <<>>
  /\ d' = Drafted
  /\ pc' = "sweep"
  /\ UNCHANGED <<fixed, disk, turn, faults, decoded, carried, tentative, dw, dlog, written,
                 sigint>>

(* The draft model proposes, each of its calls logged from row dw.row on.  *)
(* The first also feeds the accepted id it has not seen, if there is one.  *)
Lag == cached - dw.cached

DraftCall(ids) ==
  /\ dlog' = Record(dlog, dw.row, ids)
  /\ \E x \in Id : d' = Append(d, x)
  /\ pc' = IF Len(d) + 1 = cmd.spec_n THEN "sweep" ELSE "draft"
  /\ UNCHANGED <<fixed, disk, turn, faults, decoded, carried, tentative, written, sigint>>

FirstDraft ==
  /\ pc = "step" /\ MayDraft /\ cmd.hybrid
  /\ DraftCall(SubSeq(seq, dw.cached + 1, cached + 1))
  /\ dw' = [dw EXCEPT !.row = Lag + 1]

NextDraft ==
  /\ pc = "draft"
  /\ DraftCall(<<d[Len(d)]>>)
  /\ dw' = [dw EXCEPT !.row = @ + 1]

(* The verify sweep: the pending id and the drafts, tentatively.  No KDA   *)
(* state moves; cache rows and pass counts past cached do.                 *)
Batch == <<seq[cached + 1]>> \o d
Sweep ==
  /\ pc = "sweep"
  /\ sweep_pcached' = pcached
  /\ log' = [p \in Passes |-> Record(log[p], 0, Reaching(p, Batch))]
  /\ rows' = [p \in Passes |-> Over(rows[p], IF p = 1 THEN cached ELSE pcached[p],
                                    Reaching(p, Batch))]
  /\ passes' = Over(passes, cached, DepthsOf(Batch))
  /\ pcached' = [p \in 2 .. RMax |-> pcached[p] + Len(Reaching(p, Batch))]
  /\ pc' = "commit"
  /\ UNCHANGED <<fixed, disk, turn, faults, decoded, ks, drafts, written, sigint>>

(* What the sweep emitted.                                                 *)
Arg == [i \in 1 .. Len(Batch) |-> Greedy(ks[1].fed \o SubSeq(Batch, 1, i))]
SweepEmit == LET m == Accepted(d, Arg) IN SubSeq(d, 1, m) \o <<Arg[m + 1]>>

(* spec_commit: the first n positions of the sweep.                        *)
ReachedBy(p, n) == Cardinality({i \in 1 .. n : passes[cached + i] >= p})
CutCount(p, n) == sweep_pcached[p] + ReachedBy(p, n)
DraftKeptAll(keep) == keep
DraftKept(keep) == Min({keep, Len(d)})

Commit ==
  /\ pc = "commit"
  /\ LET keep == Keep(SweepEmit)
     IN /\ Emit(SweepEmit, keep)
        /\ ks' = [p \in Passes |->
                    Advance(ks[p], log[p], IF p = 1 THEN keep ELSE ReachedBy(p, keep))]
        /\ pcached' = [p \in 2 .. RMax |-> CutCount(p, keep)]
        /\ cached' = cached + keep
        /\ dw' = IF cmd.hybrid
                 THEN [cached |-> cached + DraftKept(keep), row |-> 0,
                       ks |-> Advance(dw.ks, dlog, Lag + DraftKept(keep))]
                 ELSE dw
  /\ d' = <<>>
  /\ UNCHANGED <<fixed, disk, turn, faults, Tmax, resumed, rows, passes, tentative, dlog,
                 written, sigint>>
-----------------------------------------------------------------------------
(* --save-state, in place, after clearing what rejected sweeps left.       *)
ClearNothing(n) == rows
Cleared(n) == [p \in Passes |-> IF p = 1 THEN rows[p]
                                ELSE [i \in DOMAIN rows[p] |->
                                        IF i > pcached[p] /\ i <= n THEN NoId ELSE rows[p][i]]]

BeginSave ==
  /\ pc = "save"
  /\ rows' = Cleared(cached)
  /\ passes' = [i \in DOMAIN passes |-> IF i > cached /\ i <= T THEN NoId ELSE passes[i]]
  /\ pc' = "opened"
  /\ UNCHANGED <<fixed, disk, turn, faults, decoded, ks, pcached, tentative, drafts, written, sigint>>

OpenState ==
  /\ pc = "opened"
  /\ disk' = [disk EXCEPT !.state = Memory(T, 0)]
  /\ pc' = "saving"
  /\ UNCHANGED <<fixed, turn, faults, decoded, carried, tentative, drafts, written, sigint>>

EndRun ==
  /\ turn' = turn + 1
  /\ pc' = IF turn = 1 THEN "idle" ELSE "over"
  /\ NoMemory

WriteState ==
  /\ pc = "saving"
  /\ disk' = [disk EXCEPT !.state = Memory(T, @.parts + 1)]
  /\ IF disk.state.parts + 1 = Whole THEN EndRun
     ELSE UNCHANGED <<pc, turn, decoded, carried, tentative, drafts, written, sigint>>
  /\ UNCHANGED <<fixed, faults>>

(* A failed write is reported and the run ends as if it had been whole.    *)
SaveFails ==
  /\ pc = "saving" /\ faults < MaxFaults
  /\ faults' = faults + 1
  /\ EndRun
  /\ UNCHANGED <<fixed, disk>>

Over_ == pc = "over" /\ UNCHANGED vars

Start == StartFresh \/ StartLoaded
RunStep == \/ ReadChunk \/ OpenTmp \/ WriteTmp \/ Rename \/ First
           \/ SerialStep \/ NgramStep \/ FirstDraft \/ NextDraft \/ Sweep \/ Commit
           \/ BeginSave \/ OpenState \/ WriteState
Next == Start \/ StartRefused \/ RunStep \/ Crash \/ Interrupt \/ SaveFails \/ Over_

(* The process runs, and the command is given again after it is gone.      *)
Spec == Init /\ [][Next]_vars
FairSpec == Spec /\ WF_vars(Start) /\ WF_vars(RunStep)
-----------------------------------------------------------------------------
(* Type invariant.                                                         *)
SessionTypeOK ==
  /\ pc \in {"idle", "read", "open", "write", "rename", "first", "step", "draft", "sweep",
             "commit", "save", "opened", "saving", "over"}
  /\ turn \in 1 .. 3 /\ faults \in 0 .. MaxFaults
  /\ seq \in Seq(Id) /\ d \in Seq(Id)
  /\ cached \in 0 .. T /\ nout \in 0 .. cmd.gen /\ written \in Nat
  /\ \A f \in {"ckpt", "tmp", "state"} : disk[f].parts \in -1 .. Whole
  /\ sigint \in {"default", "armed", "requested"}

(* Whatever chunks, resumes, sweeps and rejections led here, the layers    *)
(* carry what serial decode carries after the same positions, to the row,  *)
(* and outside the read-in exactly one id is pending ("its carried state   *)
(* must end exactly one position short of the last kept id").              *)
Fed == SubSeq(seq, 1, cached)
CarriedIsSerial ==
  /\ ks = StateAfter(Fed)
  /\ CountsAfter(Fed) = IF pc = "commit" THEN sweep_pcached ELSE pcached
  /\ \A p \in Passes : IsPrefix(Reaching(p, Fed), rows[p])
  /\ SubSeq(passes, 1, cached) = DepthsOf(Fed)
  /\ pc \in {"step", "draft", "sweep", "commit", "save", "opened", "saving"} =>
       T = cached + (IF cmd.gen = 0 THEN 0 ELSE 1)

(* The ids a run emits are those of greedy decode one id at a time, and it *)
(* stops where that stops: at --gen ids or the first stop id.              *)
SerialOutput ==
  /\ \A i \in T - nout + 1 .. T : seq[i] = Greedy(SubSeq(seq, 1, i - 1))
  /\ \A i \in T - nout + 1 .. T - 1 : seq[i] \notin cmd.stop
  /\ pc \in {"step", "draft", "sweep", "commit"} => nout < cmd.gen /\ seq[T] \notin cmd.stop
  /\ pc \in {"save", "opened", "saving"} => nout = cmd.gen \/ seq[T] \in cmd.stop

(* "The draft trails by at most one token whenever it drafts": so its log  *)
(* holds the lag and the new drafts, the catch-up by an unlogged read-in   *)
(* is never needed, and every proposal is made from the whole context.     *)
DraftTrails ==
  cmd.hybrid =>
    /\ pc = "step" /\ MayDraft => Lag \in {0, 1}
    /\ pc \in {"draft", "sweep", "commit"} =>
         /\ Lag + cmd.spec_n <= cmd.spec_n + 1
         /\ dw.ks.fed \o SubSeq(dlog, 1, dw.row) =
              SubSeq(seq, 1, cached + 1) \o SubSeq(d, 1, Len(d) - 1)
    /\ pc \in {"step", "draft", "sweep", "commit", "save"} =>
         dw.ks = Feed(ZeroState, SubSeq(seq, 1, dw.cached))

(* The checkpoint changes only to a whole file that the same command can   *)
(* resume, further on than the one before ("an interruption mid-write      *)
(* leaves the previous checkpoint whole").                                 *)
CheckpointAdvances ==
  [][disk'.ckpt # disk.ckpt =>
       \E n \in 1 .. Len(Prompt) - 1 :
         /\ disk'.ckpt = FileAfter(SubSeq(Prompt, 1, n), n, world.layout)
         /\ disk.ckpt # NoFile => disk.ckpt.cached < n]_vars

(* A saved state that is whole is the one serial decode writes, byte for   *)
(* byte, and the next run can load it.                                     *)
SavedIsSerial ==
  disk.state.parts = Whole =>
    /\ disk.state = FileAfter(disk.state.ids, disk.state.cached, world.layout)
    /\ Loads(disk.state, world.layout, Len(disk.state.ids))

(* A prompt is read in at last if the same command is given again after    *)
(* every pause and after every crash, however short its chunks.            *)
ReadInCompletes ==
  (pc = "idle" /\ turn = 1 /\ (Loading => Acceptable)) ~> (turn = 2)
=============================================================================
