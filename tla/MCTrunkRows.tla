----------------------------- MODULE MCTrunkRows ----------------------------
(* TrunkRows on three layers: two with a kv_b of different places and sizes *)
(* and a matrix too large for its buffer, one without kv_b.                *)
EXTENDS TrunkRows

Matrix(n) == [kind |-> "matrix", n |-> n]
Vector(n) == [kind |-> "vector", n |-> n]

MCTensors == (0 :> <<Vector(1), Matrix(4)>>)
          @@ (1 :> <<Matrix(6), Vector(3), Matrix(4), Vector(1)>>)
          @@ (2 :> <<Matrix(4), Vector(1)>>)
MCKvb == (0 :> 2) @@ (1 :> 3) @@ (2 :> 0)

(* Whole matrices, one half of every block as --kv-latent asks for, a run  *)
(* of two in the middle of a block, and a shape a pass must refuse.        *)
MCSels == {Whole(4), Whole(6), [blk |-> 2, r0 |-> 0, nr |-> 1],
           [blk |-> 3, r0 |-> 1, nr |-> 2], [blk |-> 2, r0 |-> 1, nr |-> 2]}
=============================================================================
