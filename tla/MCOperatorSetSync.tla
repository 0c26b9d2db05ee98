-------------------------- MODULE MCOperatorSetSync --------------------------
(* Small instance of OperatorSetSync. *)
EXTENDS OperatorSetSync, FiniteSetsExt, TLC

MCWeightOf(w, S) == MapThenSumSet(LAMBDA p : w[p], S)

\* Nobody, two operators of which the first alone is a quorum, and the second alone.
MCOperatorSets == {NoWeights, (1 :> 2) @@ (2 :> 1), (1 :> 0) @@ (2 :> 3)}
=============================================================================
