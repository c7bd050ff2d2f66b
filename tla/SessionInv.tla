----------------------------- MODULE SessionInv -----------------------------
(***************************************************************************)
(* The inductive invariant of Session: what holds between any two steps of *)
(* a run, by program counter.                                              *)
(***************************************************************************)
EXTENDS Session

Cell == Id \cup {NoId}

Reading   == {"read", "open", "write", "rename", "first"}
Drafting  == {"draft", "sweep", "commit"}
Saving    == {"save", "opened", "saving"}
Decoding  == {"step"} \cup Drafting \cup Saving
Running   == Reading \cup Decoding

(* Between runs memory is empty, and after the second nothing is given.    *)
Idle ==
  pc \notin Running =>
    /\ pc = "idle" => turn \in 1 .. 2
    /\ seq = <<>> /\ nout = 0 /\ cached = 0 /\ d = <<>>
    /\ ks = StateAfter(<<>>) /\ rows = RowsAfter(<<>>, 0)
    /\ passes = <<>> /\ pcached = CountsAfter(<<>>)

(* The buffers of a run, and its room: what is missing to --gen ids always *)
(* fits, with a position to spare.                                         *)
Buffers ==
  pc \in Running =>
    /\ turn \in 1 .. 2 /\ T > nout
    /\ Tmax = T - nout + cmd.gen + 1
    /\ rows \in [Passes -> Seq(Cell)] /\ \A p \in Passes : Len(rows[p]) = Tmax
    /\ passes \in Seq(0 .. RMax) /\ Len(passes) = Tmax
    /\ log \in [Passes -> Seq(Cell)] /\ \A p \in Passes : Len(log[p]) = cmd.spec_n + 1
    /\ dlog \in Seq(Cell) /\ Len(dlog) = cmd.spec_n + 1

(* The read-in writes nothing past the positions it has fed.               *)
ReadIn ==
  pc \in Reading =>
    /\ rows = RowsAfter(Fed, Tmax)
    /\ passes = Over(Blank(Tmax), 0, DepthsOf(Fed))
    /\ nout = 0
    /\ IF pc = "first" THEN cached = T ELSE cached < T
    /\ turn = 1 => seq = Prompt
    /\ pc \in {"open", "write", "rename"} => Checkpointing /\ cached > 0
    /\ Checkpointing /\ disk.ckpt # NoFile =>
         IF pc = "read" THEN disk.ckpt.cached <= cached
         ELSE pc # "first" => disk.ckpt.cached < cached

(* What a tentative sweep wrote: the rows after the carried ones, the      *)
(* passes of its positions and, to be replayed, its log.                   *)
Tentative ==
  /\ pc \in Drafting =>
       /\ T + cmd.spec_n + 1 < Tmax
       /\ Len(d) \in 1 .. cmd.spec_n
       /\ pc = "draft" => cmd.hybrid /\ Len(d) < cmd.spec_n
       /\ pc # "draft" /\ cmd.hybrid => Len(d) = cmd.spec_n
  /\ pc \in Running \ Drafting => d = <<>>
  /\ pc = "commit" =>
       /\ \A p \in Passes : /\ IsPrefix(Reaching(p, Batch), log[p])
                            /\ IsPrefix(Reaching(p, Fed \o Batch), rows[p])
       /\ \A i \in 1 .. Len(Batch) : passes[cached + i] = world.depth[Batch[i]]

(* The draft model's state and its log of the calls since.                 *)
Draft ==
  cmd.hybrid =>
    /\ pc \in {"step", "save"} \cup Drafting =>
         /\ dw.cached \in 0 .. cached
         /\ dw.ks = Feed(ZeroState, SubSeq(seq, 1, dw.cached))
    /\ pc = "step" => dw.row = 0 /\ (MayDraft => Lag \in {0, 1})
    /\ pc \in Drafting =>
         /\ Lag \in {0, 1} /\ dw.row = Lag + Len(d)
         /\ SubSeq(dlog, 1, dw.row) =
              SubSeq(seq, dw.cached + 1, cached + 1) \o SubSeq(d, 1, Len(d) - 1)

(* After BeginSave only what serial decode wrote is left.                  *)
Saved ==
  pc \in {"opened", "saving"} =>
    /\ \A p \in Passes : SubSeq(rows[p], 1, cached) = RowsAfter(Fed, cached)[p]
    /\ SubSeq(passes, 1, T) = Over(Blank(T), 0, DepthsOf(Fed))

(* What the files hold; an unfinished one is as far as memory went.        *)
Files ==
  /\ disk.ckpt # NoFile =>
       /\ disk.ckpt.ids \in Seq(Id) /\ disk.ckpt.cached \in 0 .. Len(disk.ckpt.ids)
       /\ disk.ckpt.parts \in 0 .. Whole
       /\ disk.ckpt = [FileAfter(disk.ckpt.ids, disk.ckpt.cached, disk.ckpt.layout)
                         EXCEPT !.parts = disk.ckpt.parts]
  /\ pc = "write" => disk.tmp.parts \in 0 .. Whole - 1 /\ disk.tmp = Memory(cached, disk.tmp.parts)
  /\ pc = "rename" => disk.tmp = Memory(cached, Whole)
  /\ pc = "saving" => disk.state.parts \in 0 .. Whole - 1 /\ disk.state = Memory(T, disk.state.parts)
  /\ disk.state.parts = Whole =>
       /\ disk.state.ids \in Seq(Id) \ {<<>>}
       /\ disk.state.cached \in Nat
       /\ Len(disk.state.ids) \in disk.state.cached .. disk.state.cached + 1

Constants == world \in Worlds /\ cmd \in Commands
Records ==
  /\ disk = [ckpt |-> disk.ckpt, tmp |-> disk.tmp, state |-> disk.state]
  /\ dw = [cached |-> dw.cached, ks |-> dw.ks, row |-> dw.row]

SInv ==
  /\ Constants /\ Records
  /\ SessionTypeOK /\ Idle /\ Buffers
  /\ CarriedIsSerial /\ SerialOutput /\ SavedIsSerial
  /\ ReadIn /\ Tentative /\ Draft /\ Saved /\ Files
=============================================================================
