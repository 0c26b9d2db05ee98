---------------------- MODULE MCMessageBlsAggregation ----------------------
(* Small instances of MessageBlsAggregation for TLC. *)
EXTENDS MessageBlsAggregation, FiniteSets, FiniteSetsExt, TLC

CONSTANTS k1, k2, d1, d2, o1, o2, o3, s1, s2

SumStakes(q, S) == MapThenSumSet(LAMBDA o : q[o], S)

\* Everyone in; o3 not registered at the block.
EqualStakes == {[o \in {o1, o2, o3} |-> 1], o1 :> 1 @@ o2 :> 1 @@ o3 :> 0}

\* Unequal stakes: o1 alone has the threshold.
UnequalStakes == {o1 :> 3 @@ o2 :> 1, o1 :> 0 @@ o2 :> 1}

Symmetry == Permutations({d1, d2}) \cup Permutations({s1, s2})
====
