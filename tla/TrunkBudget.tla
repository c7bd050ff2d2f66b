----------------------------- MODULE TrunkBudget ----------------------------
(***************************************************************************)
(* How k3_trunk_open divides --trunk-gb between the pinned prefix and the  *)
(* streaming ring (src/src/io/k3_trunk.c, trunk_open): ring size and pin   *)
(* count depend on each other, so the loop repeats until neither moves, or *)
(* MaxPasses times.  Sizes are in units of which Page make one             *)
(* K3_TRUNK_ALIGN.                                                         *)
(***************************************************************************)
EXTENDS Integers, FiniteSets, FiniteSetsExt

CONSTANTS NLayers,      \* layers of the packed trunk
          Page,         \* K3_TRUNK_ALIGN
          MaxPasses,    \* bound of the loop, 4 in the code
          RunSizes,     \* bytes a layer's run may have (pack_trunk.py pads it)
          WidenSizes,   \* values of k3_bind_widen_bytes, any number of bytes
          Budgets,      \* bytes granted
          Huge          \* what k3_alloc_direct rounds a length to: 2 MB, or 1
                        \* with K3_NOHUGE

VARIABLES nbytes, widen, budget,          \* the inputs
          pass,                           \* passes begun
          nslot, npin, slot_bytes, spent, \* RING, npin, ring_slot, spent
          state                           \* "sizing", "stable", "gave_up"

vars == <<nbytes, widen, budget, pass, nslot, npin, slot_bytes, spent, state>>

RING_WANT == 2
Layers    == 0 .. NLayers - 1

ASSUME BudgetAssumption ==
  /\ NLayers \in Nat \ {0} /\ Page \in Nat \ {0} /\ MaxPasses \in Nat \ {0}
  /\ RunSizes \subseteq {n \in Nat \ {0} : n % Page = 0}
  /\ WidenSizes \subseteq Nat /\ Budgets \subseteq Nat
  /\ Huge \in Nat \ {0}
-----------------------------------------------------------------------------
(* Slips the runs must notice are stated before the definition they would  *)
(* replace (PROJECT.json, mutants).                                        *)

RoundUp(n) == Page * ((n + Page - 1) \div Page)

LargestOfLast(n) == nbytes[IF n = NLayers THEN n - 1 ELSE n]
Largest(n) == IF n = NLayers THEN nbytes[NLayers - 1]
              ELSE Max({nbytes[i] : i \in n .. NLayers - 1})

(* A slot holds the largest streamed run and the widened vectors after it. *)
SlotUnwidened(n) == RoundUp(Largest(n))
SlotFor(n) == RoundUp(RoundUp(Largest(n)) + widen)

RingAlwaysTwo(rs) == RING_WANT
RingFor(rs) == IF RING_WANT * rs <= budget THEN RING_WANT ELSE 1

(* What the first n layers take, layer by layer.                           *)
Paid(cost) ==
  LET sum[n \in 0 .. NLayers] == IF n = 0 THEN 0 ELSE sum[n - 1] + cost[n - 1] IN sum
PinCost == [i \in Layers |-> nbytes[i] + widen]
Need(n) == Paid(PinCost)[n]

(* The longest prefix the budget still pays for once the ring is bought.   *)
PinsFor(sp) == Max({0} \cup {n \in 1 .. NLayers : sp + Need(n) <= budget})

Init == /\ nbytes \in [Layers -> RunSizes]
        /\ widen \in WidenSizes
        /\ budget \in Budgets
        /\ pass = 0 /\ nslot = RING_WANT /\ npin = 0
        /\ slot_bytes = 0 /\ spent = 0
        /\ state = "sizing"

Pass ==
  LET rs == SlotFor(npin)
      sp == RingFor(rs) * rs
      np == PinsFor(sp)
  IN /\ state = "sizing"
     /\ pass' = pass + 1
     /\ nslot' = RingFor(rs)
     /\ slot_bytes' = rs
     /\ npin' = np
     /\ spent' = sp + Need(np)
     /\ state' = IF rs = slot_bytes /\ np = npin THEN "stable"
                 ELSE IF pass' = MaxPasses THEN "gave_up" ELSE "sizing"
     /\ UNCHANGED <<nbytes, widen, budget>>

Sized == state # "sizing" /\ UNCHANGED vars

Next == Pass \/ Sized

Spec == Init /\ [][Next]_vars /\ WF_vars(Pass)
-----------------------------------------------------------------------------
(* What k3_trunk_open then allocates: the ring, and for each pinned layer  *)
(* its run rounded up to a page and the widened vectors, each allocation   *)
(* rounded up to whole huge pages.                                         *)
AllocDirect(n) == Huge * ((n + Huge - 1) \div Huge)
AllocCost == [i \in Layers |-> AllocDirect(RoundUp(nbytes[i]) + widen)]
Allocated == AllocDirect(nslot * slot_bytes) + Paid(AllocCost)[npin]

(* Whatever pass the loop ends on, every layer that will stream fits the   *)
(* slots it streams through: load_run writes nbytes and k3_bind_layer_mem  *)
(* widen bytes behind them with no further check.                          *)
SlotHoldsStreamed ==
  state # "sizing" =>
    \A i \in npin .. NLayers - 1 : RoundUp(nbytes[i]) + widen <= slot_bytes

(* The budgets for which the two unknowns chase each other.  One slot sized*)
(* for layer 0 leaves room to pin layer 0; without it the slots are smaller*)
(* and two of them fit, but then layer 0 no longer does.  A slot is rounded*)
(* up to a page and a pin is not, so this takes a widened area that ends   *)
(* inside a page, and a budget less than a page short of two slots for     *)
(* layer 0.                                                                *)
Wavers ==
  /\ SlotFor(0) + PinCost[0] <= budget /\ budget < RING_WANT * SlotFor(0)
  /\ RING_WANT * SlotFor(1) <= budget
  /\ budget < RING_WANT * SlotFor(1) + PinCost[0]

(* For every other budget and every size of the widened area the loop ends *)
(* on slots that hold what will stream, converged or out of passes.        *)
SlotsFit == ~Wavers => SlotHoldsStreamed

(* What the loop adds up stays within the budget the caller asked for      *)
(* unless it is the floor, one slot and no pinned layer; and what is then  *)
(* allocated exceeds that sum by less than a huge page for each pinned     *)
(* layer and for the ring.                                                 *)
WithinBudget ==
  state # "sizing" =>
    /\ spent <= budget \/ (nslot = 1 /\ npin = 0)
    /\ Allocated - spent \in 0 .. (npin + 1) * (Huge - 1)

(* "The budget the caller asked for has to come first": what is allocated  *)
(* above the floor, huge pages and all, is no more than was granted.       *)
AllocatesGranted ==
  state # "sizing" => Allocated <= budget \/ (nslot = 1 /\ npin = 0)

(* "It converges ... and is monotone": from the second pass on no layer    *)
(* loses its pin and the slots do not grow, unless they chase each other.  *)
Monotone ==
  [][pass > 0 /\ ~Wavers => npin' >= npin /\ slot_bytes' <= slot_bytes]_vars
=============================================================================
