----------------------------- MODULE ExpertStore ----------------------------
(***************************************************************************)
(* What the MoE is promised by a K3ExpertSrc (include/k3/k3.h): it asks    *)
(* for experts one at a time, and each request is either answered with     *)
(* pointers to that expert's own bytes, which stay that expert's bytes     *)
(* until the MoE lets go of them, or refused.  Nothing is said of slots,   *)
(* evictions, batches or reader threads.                                   *)
(***************************************************************************)
CONSTANT Keys            \* (layer, expert) pairs

VARIABLES phase,         \* "rest", "asked", "use" or "closed"
          wanted,        \* the expert asked for
          bytes          \* whose bytes the pointers reach

None == "none"

vars == <<phase, wanted, bytes>>
-----------------------------------------------------------------------------
Init == phase = "rest" /\ wanted = None /\ bytes = None

Ask == /\ phase = "rest"
       /\ phase' = "asked"
       /\ wanted' \in Keys
       /\ UNCHANGED bytes

Serve == /\ phase = "asked"
         /\ phase' = "use"
         /\ bytes' = wanted
         /\ UNCHANGED wanted

Refuse == /\ phase = "asked"
          /\ phase' = "rest"
          /\ wanted' = None
          /\ UNCHANGED bytes

Release == /\ phase = "use"
           /\ phase' = "rest"
           /\ wanted' = None /\ bytes' = None

Close == /\ phase = "rest"
         /\ phase' = "closed"
         /\ UNCHANGED <<wanted, bytes>>

Next == Ask \/ Serve \/ Refuse \/ Release \/ Close

Spec == Init /\ [][Next]_vars
=============================================================================
