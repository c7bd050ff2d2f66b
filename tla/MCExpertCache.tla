---------------------------- MODULE MCExpertCache ---------------------------
(* ExpertCache with few experts; the lists include unions larger than the  *)
(* cache and, when TopK is 2, an expert named twice.                       *)
EXTENDS ExpertCacheInv, TLC

CONSTANT MaxList      \* longest list of the MoE

AnyList == UNION {[1 .. n -> Keys] : n \in 1 .. MaxList}

Distinct == {l \in AnyList : \A i, j \in DOMAIN l : l[i] = l[j] => i = j}

SomeList == Distinct \cup {l \in AnyList : Len(l) <= TopK}

Symmetry == Permutations(Keys)
=============================================================================
