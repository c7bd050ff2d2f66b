------------------------------ MODULE LayerWalk -----------------------------
(***************************************************************************)
(* The order forward() executes layers in: the bound prefix of the stack,  *)
(* or the order --loop-layers makes of it.                                 *)
(***************************************************************************)
EXTENDS Integers

CONSTANTS NLayers,    \* layers of the packed trunk
          Walks       \* the walks a run may be started with

(***************************************************************************)
(* A walk is the plain stack 0 .. bound-1 in which the span a .. b is      *)
(* repeated until it has run `passes` times (passes = 1: no loop).         *)
(***************************************************************************)
WalkType == [bound : 1 .. NLayers, a : 0 .. NLayers - 1, b : 0 .. NLayers - 1,
             passes : Nat \ {0}, adaptive : BOOLEAN]

Span(w) == w.b - w.a + 1

NV(w) == w.bound + (w.passes - 1) * Span(w)

LayerAt(w, v) ==
  IF v <= w.b THEN v
  ELSE IF v <= w.b + (w.passes - 1) * Span(w)
       THEN w.a + ((v - w.b - 1) % Span(w))
       ELSE v - (w.passes - 1) * Span(w)

(***************************************************************************)
(* The positions execution can reach after v.  After the last position the *)
(* next forward pass starts at 0.  With an adaptive loop every token may   *)
(* have stopped when pass p, 2 <= p < passes, of the span has ended: the   *)
(* passes that remain are then stepped over.                               *)
(***************************************************************************)
AfterSpan(w) == w.b + 1 + (w.passes - 1) * Span(w)

CanStop(w, v) == /\ w.adaptive
                 /\ v > w.b
                 /\ v + 1 < AfterSpan(w)
                 /\ (v - w.b) % Span(w) = 0

Wrap(w, v) == IF v < NV(w) THEN v ELSE 0

Following(w, v) ==
  {Wrap(w, v + 1)} \cup (IF CanStop(w, v) THEN {Wrap(w, AfterSpan(w))} ELSE {})
-----------------------------------------------------------------------------
(* main() refuses a trunk with fewer layers than it binds, and a span that *)
(* does not lie within the bound layers.                                   *)
ASSUME WalkAssumption ==
  /\ NLayers \in Nat \ {0}
  /\ \A w \in Walks : w \in WalkType /\ w.a <= w.b /\ w.b < w.bound
=============================================================================
