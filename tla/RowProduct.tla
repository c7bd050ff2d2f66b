----------------------------- MODULE RowProduct -----------------------------
(***************************************************************************)
(* What a streamed matrix product promises its caller, whatever tiles,     *)
(* buffers and threads are behind it.  A pass owes a set of products, each *)
(* <<layer, matrix, row>>.  It delivers every one of them to its own row   *)
(* of y and touches no other row; or it fails, zeroes every row, and no    *)
(* product is delivered ever after.                                        *)
(***************************************************************************)
EXTENDS Integers

CONSTANTS Row, Product, Old, Zero

VARIABLES y, owed, active, err

pvars == <<y, owed, active, err>>

PInit == /\ y = [r \in Row |-> Old]
         /\ owed = {}
         /\ active = FALSE
         /\ err = FALSE

Start ==
  /\ ~active
  /\ active'
  /\ owed' \in SUBSET Product
  /\ y' = [r \in Row |-> Old]
  /\ UNCHANGED err

Deliver ==
  /\ active /\ ~err /\ ~err'
  /\ owed' \subseteq owed
  /\ y' = [r \in Row |-> IF \E p \in owed \ owed' : p[3] = r
                         THEN CHOOSE p \in owed \ owed' : p[3] = r
                         ELSE y[r]]
  /\ active' \/ owed' = {}

Fail ==
  /\ err'
  /\ owed' = {}
  /\ y' = [r \in Row |-> Zero]
  /\ ~active'

(* The caller has used the products.                                       *)
Consume ==
  /\ ~active
  /\ y' = [r \in Row |-> Old]
  /\ UNCHANGED <<owed, active, err>>

PNext == Start \/ Deliver \/ Fail \/ Consume

PSpec == PInit /\ [][PNext]_pvars
=============================================================================
