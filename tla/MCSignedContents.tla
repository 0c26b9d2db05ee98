-------------------------- MODULE MCSignedContents --------------------------
(***************************************************************************)
(* Small instances, for TLC, of the two things that operators compute and  *)
(* sign: the list of an operator set update (OperatorSetDelta) and the     *)
(* tree of a checkpoint (CheckpointTree).  The two have nothing to do with *)
(* each other, and only one of them moves in a behaviour.                  *)
(***************************************************************************)
EXTENDS OperatorSetDelta, CheckpointTree, TLC

CONSTANTS n1, d1, d2

MCSymmetry == Permutations({d1, d2})

ContentsInit == Init /\ TreeInit

Nobody == [p \in Pubkeys |-> Absent]

ContentsNext ==
  \/ DOMAIN tree = {} /\ ~committed /\ Next /\ UNCHANGED treeVars
  \/ /\ previousOperatorSet = Nobody /\ newOperatorSet = Nobody
     /\ \A n \in Nodes : pc[n] = "collect"
     /\ TreeNext /\ UNCHANGED vars

ContentsSpec == ContentsInit /\ [][ContentsNext]_<<vars, treeVars>>
====
