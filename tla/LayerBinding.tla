---------------------------- MODULE LayerBinding ----------------------------
(***************************************************************************)
(* What the forward pass is promised by whatever stands behind             *)
(* k3_trunk_bind: the layers of the walk come one after the other, and for *)
(* as long as a layer is computed on, the bytes under its weight pointers  *)
(* are that layer's own bytes.  Nothing is said of pins, slots, reader     *)
(* threads or prefetches: "Correctness does not depend on which path       *)
(* runs" (k3_trunk.h).                                                     *)
(***************************************************************************)
EXTENDS LayerWalk

VARIABLES walk,    \* the order this run executes layers in
          pos,     \* position of the walk being served
          phase,   \* "bind", "compute", "failed" or "closed"
          bytes    \* whose bytes the weight pointers reach, -1: none

vars == <<walk, pos, phase, bytes>>

-----------------------------------------------------------------------------
Init == /\ walk \in Walks
        /\ pos = 0
        /\ phase = "bind"
        /\ bytes = -1

Bind == /\ phase = "bind"
        /\ phase' = "compute"
        /\ bytes' = LayerAt(walk, pos)
        /\ UNCHANGED <<walk, pos>>

Compute == /\ phase = "compute"
           /\ phase' = "bind"
           /\ bytes' = -1
           /\ pos' \in Following(walk, pos)
           /\ UNCHANGED walk

Fail == /\ phase \in {"bind", "compute"}
        /\ phase' = "failed"
        /\ bytes' = -1
        /\ UNCHANGED <<walk, pos>>

Close == /\ phase \in {"bind", "failed"}
         /\ phase' = "closed"
         /\ UNCHANGED <<walk, pos, bytes>>

Next == Bind \/ Compute \/ Fail \/ Close

Spec == Init /\ [][Next]_vars
=============================================================================
