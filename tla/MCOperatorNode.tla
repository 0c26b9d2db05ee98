--------------------------- MODULE MCOperatorNode ---------------------------
(* Small instance of OperatorNode: two headers of one height, with different roots, *)
(* and two deliveries of the block with the first root, by two DA transactions.      *)
EXTENDS OperatorNode

CONSTANTS r1, a, b, t1, t2

MCHeaders == {[id |-> 1, rollup |-> r1, number |-> 1, root |-> a],
              [id |-> 2, rollup |-> r1, number |-> 1, root |-> b]}

MCDeliveries == {[id |-> 1, rollup |-> r1, number |-> 1, root |-> a, da |-> t1],
                 [id |-> 2, rollup |-> r1, number |-> 1, root |-> a, da |-> t2]}
=============================================================================
