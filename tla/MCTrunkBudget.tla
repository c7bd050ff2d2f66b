---------------------------- MODULE MCTrunkBudget ---------------------------
(* TrunkBudget with pages of four units and huge pages of two pages: every *)
(* assignment of run sizes to layers, every budget from nothing to more    *)
(* than the whole trunk takes, and widened areas that end on a page, just  *)
(* before one, and in the middle of one as K3's does (6320.5 pages).       *)
EXTENDS TrunkBudget

Grants   == 0 .. Page * 6 * NLayers
AnyWiden == {0, 1, 2, 3, 4, 6}
=============================================================================
