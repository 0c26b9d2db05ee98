--------------------------- MODULE MCAggregatorLoop ---------------------------
(* Small instances of AggregatorLoop for TLC. *)
EXTENDS AggregatorLoop, FiniteSetsExt, TLC

CONSTANTS k1, d1, d2, o1, o2, s1, s2

SumStakes(q, S) == MapThenSumSet(LAMBDA o : q[o], S)

\* One operator state: o1 alone has the threshold, o2 completes the stake.
SameStakes == {o1 :> 2 @@ o2 :> 1}

Symmetry == Permutations({d1, d2}) \cup Permutations({s1, s2})
====
