----------------------------- MODULE MCTrunkRing ----------------------------
(* TrunkRing on small stacks; every pin count and both ring sizes.         *)
EXTENDS TrunkRingInv

Plain(n) == [bound |-> n, a |-> 0, b |-> 0, passes |-> 1, adaptive |-> FALSE]

(* The whole stack bound, no loop. *)
PlainWalks == {Plain(NLayers)}

(* Every span of the whole stack, repeated to two or three passes. *)
FixedLoops ==
  {w \in [bound : {NLayers}, a : 0 .. NLayers - 1, b : 0 .. NLayers - 1,
          passes : {2, 3}, adaptive : {FALSE}] : w.a <= w.b}

FullWalks == PlainWalks \cup FixedLoops

(* --layers: fewer layers bound than the trunk file holds. *)
ShortWalks == {Plain(NLayers - 1)}

(* --loop-exit on the first or the middle span. *)
AdaptiveLoops ==
  {w \in [bound : {NLayers}, a : 0 .. NLayers - 1, b : 0 .. NLayers - 1,
          passes : {3}, adaptive : {TRUE}] : w.a <= w.b}
=============================================================================
