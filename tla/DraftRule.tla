----------------------------- MODULE DraftRule ------------------------------
(***************************************************************************)
(* The two decisions of a speculative step that read only ids              *)
(* (src/src/cli/k3_run.c): what the n-gram drafter proposes, and how much  *)
(* of what a sweep would emit the output keeps.  Sequences are numbered    *)
(* from 1, so position j of the code is element j + 1.                     *)
(***************************************************************************)
EXTENDS Integers, Sequences, FiniteSetsExt, SequencesExt

(* Where the last n ids occur earlier, as the code numbers positions.      *)
Matches(seq, n) ==
  {j \in 0 .. Len(seq) - n - 1 :
     SubSeq(seq, j + 1, j + n) = SubSeq(seq, Len(seq) - n + 1, Len(seq))}

(* The ids that followed the most recent match, up to where the match      *)
(* before it, if there is one, stops agreeing.                             *)
Continuation(seq, n, cap) ==
  LET ms  == Matches(seq, n)
      m1  == Max(ms)
      ms2 == ms \ {m1}
      Agrees(i) == /\ m1 + n + i < Len(seq)
                   /\ ms2 # {} => LET m2 == Max(ms2)
                                  IN /\ m2 + n + i < m1
                                     /\ seq[m2 + n + i + 1] = seq[m1 + n + i + 1]
      nd == Max({k \in 0 .. cap : \A i \in 0 .. k - 1 : Agrees(i)})
  IN IF ms = {} THEN <<>> ELSE SubSeq(seq, m1 + n + 1, m1 + n + nd)

SpecDraft(seq, cap) ==
  LET four == Continuation(seq, 4, cap)
  IN IF four # <<>> THEN four ELSE Continuation(seq, 3, cap)

(* The accepted prefix of a draft, arg[i] being the model's own next id    *)
(* after batch position i.                                                 *)
Accepted(d, arg) ==
  Max({m \in 0 .. Len(d) : \A i \in 1 .. m : arg[i] = d[i]})

(* emit_keep: the ids of emit the output keeps, with room for left more    *)
(* ids of --gen, space positions below the ceiling, and the stop ids stop. *)
EmitKeepPastStop(emit, left, space, stop) ==
  Max({k \in 0 .. Len(emit) : k <= left /\ k <= space})
EmitKeepPastGen(emit, left, space, stop) ==
  Max({k \in 0 .. Len(emit) : /\ k <= space /\ \A i \in 1 .. k - 1 : emit[i] \notin stop})
EmitKeep(emit, left, space, stop) ==
  Max({k \in 0 .. Len(emit) : /\ k <= left /\ k <= space
                              /\ \A i \in 1 .. k - 1 : emit[i] \notin stop})
=============================================================================
