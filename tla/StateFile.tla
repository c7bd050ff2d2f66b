----------------------------- MODULE StateFile ------------------------------
(***************************************************************************)
(* A state file (--save-state, --load-state, --checkpoint), as             *)
(* k3_state_save writes it and k3_state_peek, k3_state_read_ids and        *)
(* k3_state_load read it (src/src/cli/k3_run.c).  It is written in place,  *)
(* front to back: parts counts what a reader finds whole, 1 the header     *)
(* with the loop record, 2 the ids, 3 everything.  layout stands for all   *)
(* the header says of the run that wrote it and that a reader compares for *)
(* equality: loop record, fingerprint, layer counts, KV layout.            *)
(***************************************************************************)
EXTENDS Integers, Sequences, SequencesExt

NoFile == [parts |-> -1]
Whole == 3

IsStateFile(f) == f.parts >= 1                \* k3_state_peek

(* A file found at the --checkpoint path is resumed only as a read-in of   *)
(* this prompt with a position left to read.                               *)
IsReadIn(f, prompt) ==
  /\ Len(f.ids) <= Len(prompt) /\ f.cached < Len(prompt)
  /\ f.parts >= 2                             \* k3_state_read_ids
  /\ IsPrefix(f.ids, prompt)

(* k3_state_load, for a run of the given layout whose cache holds cap      *)
(* positions: the saved sequence is the cached positions and at most one   *)
(* pending id, and nothing is missing.                                     *)
LoadsPending(f, layout, cap) ==
  /\ f.layout = layout
  /\ f.cached <= cap
  /\ Len(f.ids) = f.cached + 1
  /\ f.parts = Whole
Loads(f, layout, cap) ==
  /\ f.layout = layout
  /\ f.cached <= cap
  /\ f.cached <= Len(f.ids) /\ Len(f.ids) <= f.cached + 1
  /\ f.parts = Whole
=============================================================================
