--------------------------- MODULE OperatorSetCopy ---------------------------
(***************************************************************************)
(* What a rollup's registry promises about its copy of the operator set:   *)
(* the copy is set up once while it is empty, and from then on changes     *)
(* only by whole operator set updates, one id after the other.             *)
(***************************************************************************)
EXTENDS Integers, Sequences

CONSTANTS
  Pubkeys, \* hashes of BLS public keys
  Deltas   \* operator lists of messages: sequences of [pubkey, weight]

VARIABLES weights, nextOperatorUpdateId

copyVars == <<weights, nextOperatorUpdateId>>

NoWeights == [p \in Pubkeys |-> 0]

\* The weights after the first n entries of delta were written over w in order.
Overwritten(w, delta, n) ==
  [p \in Pubkeys |->
     LET writes == {i \in 1..n : delta[i].pubkey = p}
     IN IF writes = {} THEN w[p]
        ELSE delta[CHOOSE i \in writes : \A j \in writes : j <= i].weight]

CopyInit == weights = NoWeights /\ nextOperatorUpdateId = 0

SetInitial(delta) ==
  /\ weights = NoWeights
  /\ weights' = Overwritten(weights, delta, Len(delta))
  /\ nextOperatorUpdateId' \in Nat

Update(delta) ==
  /\ weights' = Overwritten(weights, delta, Len(delta))
  /\ nextOperatorUpdateId' = nextOperatorUpdateId + 1

CopyNext ==
  \E delta \in Deltas : Update(delta) \/ SetInitial(delta)

CopySpec == CopyInit /\ [][CopyNext]_copyVars
====
