-------------------------- MODULE OperatorSetDelta --------------------------
(***************************************************************************)
(* GetOperatorSetUpdateDelta (core/chainio/avs_reader.go): every operator  *)
(* computes the list of an operator set update from the sets before and    *)
(* after it, as read from getOperatorSetUpdate, and signs it.              *)
(*                                                                         *)
(* The list is first in the order in which Go happens to iterate over a    *)
(* map, another one for every node, and is then sorted with sort.Slice.    *)
(* sort.Slice moves the elements of the list; the comparison function      *)
(* reads the hashes, which stay where they are.  Up to twelve elements     *)
(* sort.Slice is an insertion sort, one comparison per step here.          *)
(***************************************************************************)
EXTENDS Integers, Sequences, FiniteSets, Functions

CONSTANTS
  Pubkeys, \* public keys, numbered in the order of their hashes
  Weights, \* stakes of registered operators
  Nodes,   \* operator nodes that compute the list
  Absent   \* not registered

\* Up to here sort.Slice is an insertion sort.
InsertionSortLength == 12

ASSUME DeltaAssumption ==
  /\ Pubkeys \subseteq Nat /\ IsFiniteSet(Pubkeys)
  /\ Cardinality(Pubkeys) <= InsertionSortLength
  /\ Weights \subseteq Nat /\ Absent \notin Weights

VARIABLES
  previousOperatorSet, newOperatorSet, \* pubkey -> weight or Absent, from the registry
  delta,   \* node -> list of [pubkey, weight]
  hashes,  \* node -> hashes, in the order delta had before sorting
  i, j,    \* node -> indices of the insertion sort
  pc       \* node -> where it is

vars == <<previousOperatorSet, newOperatorSet, delta, hashes, i, j, pc>>

OperatorSets == [Pubkeys -> Weights \cup {Absent}]

Init ==
  /\ previousOperatorSet \in OperatorSets
  /\ newOperatorSet \in OperatorSets
  /\ delta = [n \in Nodes |-> <<>>]
  /\ hashes = [n \in Nodes |-> <<>>]
  /\ i = [n \in Nodes |-> 0]
  /\ j = [n \in Nodes |-> 0]
  /\ pc = [n \in Nodes |-> "collect"]

WeightIn(set, p) == IF set[p] = Absent THEN 0 ELSE set[p]

\* Mutant: only the new set is gone through, so nobody ever leaves.
ChangedInNewSet ==
  {p \in Pubkeys : /\ newOperatorSet[p] # Absent
                   /\ WeightIn(previousOperatorSet, p) # newOperatorSet[p]}

\* The operators whose previous and new weight differ.
Changed ==
  {p \in Pubkeys : WeightIn(previousOperatorSet, p) # WeightIn(newOperatorSet, p)}

\* The orders of a set, as sequences.
Orders(S) == Bijection(1..Cardinality(S), S)

\* The two maps are merged, the changes collected in map order and hashed.
Collect(n, order) ==
  /\ pc[n] = "collect"
  /\ delta' = [delta EXCEPT ![n] = [k \in DOMAIN order |->
       [pubkey |-> order[k], weight |-> WeightIn(newOperatorSet, order[k])]]]
  /\ hashes' = [hashes EXCEPT ![n] = order]
  /\ i' = [i EXCEPT ![n] = 2]
  /\ j' = [j EXCEPT ![n] = 2]
  /\ pc' = [pc EXCEPT ![n] = "sort"]
  /\ UNCHANGED <<previousOperatorSet, newOperatorSet>>

\* The comparison function given to sort.Slice.
Less(n, a, b) == hashes[n][a] < hashes[n][b]

SwapStep(n) ==
  LET k == j[n] IN
  /\ pc[n] = "sort" /\ i[n] <= Len(delta[n])
  /\ k > 1 /\ Less(n, k, k - 1)
  /\ delta' = [delta EXCEPT ![n][k] = delta[n][k - 1], ![n][k - 1] = delta[n][k]]
  /\ j' = [j EXCEPT ![n] = k - 1]
  /\ UNCHANGED <<previousOperatorSet, newOperatorSet, hashes, i, pc>>

AdvanceStep(n) ==
  LET k == j[n] IN
  /\ pc[n] = "sort" /\ i[n] <= Len(delta[n])
  /\ ~(k > 1 /\ Less(n, k, k - 1))
  /\ i' = [i EXCEPT ![n] = @ + 1]
  /\ j' = [j EXCEPT ![n] = i[n] + 1]
  /\ UNCHANGED <<previousOperatorSet, newOperatorSet, delta, hashes, pc>>

Return(n) ==
  /\ pc[n] = "sort" /\ i[n] > Len(delta[n])
  /\ pc' = [pc EXCEPT ![n] = "done"]
  /\ UNCHANGED <<previousOperatorSet, newOperatorSet, delta, hashes, i, j>>

Next ==
  \E n \in Nodes :
    \/ \E order \in Orders(Changed) : Collect(n, order)
    \/ SwapStep(n)
    \/ AdvanceStep(n)
    \/ Return(n)

Spec == Init /\ [][Next]_vars

-----------------------------------------------------------------------------
(* Properties *)

Copy == INSTANCE OperatorSetCopy WITH
  Deltas <- {}, weights <- newOperatorSet, nextOperatorUpdateId <- 0

\* A computed list does what it is for: written over the previous set it gives
\* the new one, and no entry repeats what the set already has when it is written
\* ("Operator is up to date" in RollupOperators.update would revert the whole
\* update), wherever the sort moved the entries.
DeltaLeadsToNewSet ==
  \A n \in Nodes : pc[n] = "done" =>
    LET before == [p \in Pubkeys |-> WeightIn(previousOperatorSet, p)]
        d == delta[n] IN
    /\ Copy!Overwritten(before, d, Len(d)) = [p \in Pubkeys |-> WeightIn(newOperatorSet, p)]
    /\ \A k \in 1..Len(d) : d[k].weight # Copy!Overwritten(before, d, k - 1)[d[k].pubkey]

\* The operators agree on each operator set delta: all nodes compute, and so sign,
\* the same list (docs/docs/design/overview.md:140).
NodesAgree ==
  \A n, m \in Nodes : pc[n] = "done" /\ pc[m] = "done" => delta[n] = delta[m]

-----------------------------------------------------------------------------
(* The inductive invariant behind the first property. *)

Entries == [pubkey : Pubkeys, weight : Weights \cup {0}]

DeltaDomains ==
  /\ previousOperatorSet \in OperatorSets /\ newOperatorSet \in OperatorSets
  /\ delta \in [Nodes -> Seq(Entries)]
  /\ hashes \in [Nodes -> Seq(Pubkeys)]
  /\ i \in [Nodes -> Nat] /\ j \in [Nodes -> Nat]
  /\ \A n \in Nodes : j[n] <= i[n]
  /\ pc \in [Nodes -> {"collect", "sort", "done"}]

\* The list d has each changed operator once, with its new weight.
ListsChanges(d) ==
  /\ \A p \in Changed : \E k \in 1..Len(d) : d[k].pubkey = p
  /\ \A k \in 1..Len(d) :
       /\ d[k].pubkey \in Changed
       /\ d[k].weight = WeightIn(newOperatorSet, d[k].pubkey)
  /\ \A k, l \in 1..Len(d) : d[k].pubkey = d[l].pubkey => k = l

DeltaInv ==
  /\ DeltaDomains
  /\ \A n \in Nodes : pc[n] # "collect" => ListsChanges(delta[n])
====
