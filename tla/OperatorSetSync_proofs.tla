------------------------ MODULE OperatorSetSync_proofs ------------------------
(***************************************************************************)
(* Proofs about OperatorSetSync, for every number of operators, operator   *)
(* sets and weights, and every bound on blocks, broadcasts, errors and     *)
(* crashes.                                                                *)
(*                                                                         *)
(* The argument: between two updates the operator set of Ethereum does not *)
(* change, so the set of the block before an update, which signs it, is    *)
(* the set that the update before it left.  The copy of a rollup is that   *)
(* set for its next update.  What is on its way to the rollup is about     *)
(* mined updates only, whose sets never change again.                      *)
(***************************************************************************)
EXTENDS OperatorSetSync, TLAPS

Sets == OperatorSets \cup {NoWeights}

\* The set that the first n updates left.
SetOf(n) == IF n = 0 THEN NoWeights ELSE blocks[updates[n]]

\* Updates are numbered in the order of their blocks, and a block has the set
\* of the last update up to it.
ChainInv ==
  /\ blocks \in Seq(Sets) /\ Len(blocks) >= 2
  /\ updates \in Seq(Nat)
  /\ \A i \in 1..Len(updates) : updates[i] >= 2 /\ updates[i] <= Len(blocks)
  /\ \A i, j \in 1..Len(updates) : i < j => updates[i] < updates[j]
  /\ \A n \in 0..Len(updates), b \in 1..Len(blocks) :
       /\ n > 0 => updates[n] <= b
       /\ n < Len(updates) => b < updates[n + 1]
       => blocks[b] = SetOf(n)

\* The copy is the set before its next update.
CopyInv ==
  /\ nextOperatorUpdateId <= Mined
  /\ weights = SetOf(nextOperatorUpdateId)

\* A quorum of the set before the update signed it.
Signed(u) ==
  LET set == SetOf(u.id) IN
  /\ u.id < Mined
  /\ u.members = Support(set)
  /\ u.nonSigners \subseteq u.members
  /\ u.members \ u.nonSigners # {}
  /\ WeightOf(set, u.members \ u.nonSigners) * 100 >= WeightOf(set, Pubkeys) * Threshold

Sendable(tx) ==
  /\ tx.id < Mined
  /\ tx.kind = "update" => tx.update.id = tx.id /\ Signed(tx.update)

\* Whatever waits, is being written or is in the mempool is about a mined update.
PendingInv ==
  /\ \A u \in waiting : Signed(u)
  /\ writer # None => Sendable(writer.tx)
  /\ \A i \in 1..Len(mempool) : Sendable(mempool[i])
  /\ initializer.pc \in {"check", "fetch", "lock"} => initializer.id < Mined

IInv == TypeOK /\ ChainInv /\ CopyInv /\ PendingInv

WriterStates == [tx : Txs, pc : {"read", "assemble", "sent"}, tries : 1..Retries]

-----------------------------------------------------------------------------
(* Types *)

\* The fields of a transaction.
LEMMA TxFields ==
  ASSUME NEW tx \in Txs
  PROVE  /\ tx.kind \in {"init", "update"} /\ tx.id \in Nat
         /\ tx.kind = "update" => tx.update \in Updates
BY DEF Txs

\* The transactions that the writer makes.
LEMMA NewTxs ==
  /\ \A id \in Nat : /\ InitTx(id) \in Txs
                     /\ InitTx(id).id = id /\ InitTx(id).kind = "init"
  /\ \A u \in Updates : /\ UpdateTx(u) \in Txs
                        /\ UpdateTx(u).id = u.id /\ UpdateTx(u).kind = "update"
                        /\ UpdateTx(u).update = u
BY DEF Txs, InitTx, UpdateTx, Updates

\* A new writer, and what is left of one after a failed try.
LEMMA AcquiredTyped ==
  ASSUME NEW tx \in Txs
  PROVE  Acquired(tx) \in WriterStates /\ Acquired(tx).tx = tx
BY SyncAssumption DEF Acquired, FirstPc, WriterStates

\* After a failure the writer gives up or sends the same transaction again.
LEMMA AfterFailureTyped ==
  ASSUME writer # None, writer \in WriterStates
  PROVE  AfterFailure = None \/ (AfterFailure \in WriterStates /\ AfterFailure.tx = writer.tx)
<1>1. CASE writer.tries = 1
  BY <1>1 DEF AfterFailure
<1>2. CASE writer.tries # 1
  <2>1. writer.tries - 1 \in 1..Retries
    BY <1>2, SyncAssumption DEF WriterStates
  <2>2. AfterFailure = [writer EXCEPT !.pc = FirstPc(writer.tx), !.tries = writer.tries - 1]
    BY <1>2 DEF AfterFailure, WriterStates
  <2>3. FirstPc(writer.tx) \in {"read", "assemble", "sent"}
    BY DEF FirstPc
  <2> HIDE DEF FirstPc
  <2> QED BY <2>1, <2>2, <2>3 DEF WriterStates
<1> QED BY <1>1, <1>2

\* A writer in another place of its call.
LEMMA WriterMoves ==
  ASSUME writer \in WriterStates, NEW pc \in {"read", "assemble", "sent"}
  PROVE  /\ [writer EXCEPT !.pc = pc] \in WriterStates
         /\ [writer EXCEPT !.pc = pc].tx = writer.tx
BY DEF WriterStates

-----------------------------------------------------------------------------
(* Ethereum *)

\* Blocks and updates change only where Ethereum takes a step.
ChainActions == MineBlock \/ \E set \in OperatorSets : ChangeOperators(set)

\* Only the actions of the chain change the chain.
LEMMA ChainFrame ==
  ASSUME [Next]_vars
  PROVE  ChainActions \/ UNCHANGED chainVars
BY Zenon DEF Next, ChainActions, Broadcast, BroadcasterStep, NewRollupBroadcaster,
  SubscribeToOperatorSetUpdates, ReceiveOperatorSetUpdate, TryInitialize,
  FetchOperatorSet, InitializerFails, Initializer, WriterStep, LockForUpdate,
  LockForInitialize, ReadNextId, AssembleAndSend, OperationFails, MineTransaction, Crash,
  vars

\* Where the updates that are mined end.
LEMMA MinedEnds ==
  ASSUME ChainInv
  PROVE  /\ Mined \in Nat /\ Mined <= Len(updates) /\ Len(updates) <= Mined + 1
         /\ \A i \in 1..Mined : updates[i] < Len(blocks)
         /\ Len(updates) = Mined + 1 => updates[Mined + 1] = Len(blocks)
<1>1. Len(updates) \in Nat /\ Len(blocks) \in Nat /\ (updates # <<>> <=> Len(updates) > 0)
  BY DEF ChainInv
<1>2. \A i \in 1..Len(updates) : updates[i] \in Nat /\ updates[i] <= Len(blocks)
  BY DEF ChainInv
<1>3. CASE updates # <<>> /\ updates[Len(updates)] = Len(blocks)
  <2>1. Mined = Len(updates) - 1
    BY <1>3 DEF Mined
  <2>2. \A i \in 1..Len(updates) - 1 : updates[i] < updates[Len(updates)]
    <3>1. \A i \in 1..Len(updates) - 1 : i \in 1..Len(updates) /\ i < Len(updates)
      BY <1>1
    <3>2. Len(updates) \in 1..Len(updates)
      BY <1>1, <1>3
    <3> QED BY <3>1, <3>2, Zenon DEF ChainInv
  <2> QED BY <1>1, <1>3, <2>1, <2>2
<1>4. CASE ~(updates # <<>> /\ updates[Len(updates)] = Len(blocks))
  <2>1. Mined = Len(updates)
    BY <1>4 DEF Mined
  <2>2. ASSUME NEW i \in 1..Len(updates)
        PROVE  updates[i] < Len(blocks)
    <3>1. CASE i = Len(updates)
      BY <1>1, <1>2, <1>4, <3>1
    <3>2. CASE i < Len(updates)
      <4>1. updates[i] < updates[Len(updates)]
        BY <1>1, <3>2 DEF ChainInv
      <4> QED BY <1>1, <1>2, <4>1
    <3> QED BY <1>1, <3>1, <3>2
  <2> QED BY <1>1, <2>1, <2>2
<1> QED BY <1>3, <1>4

\* The operators that sign update n are those of the set that the updates
\* before it left.
LEMMA SignersBefore ==
  ASSUME ChainInv, NEW n \in 0..Len(updates) - 1
  PROVE  AggregationSet(n) = SetOf(n)
<1>1. Len(updates) \in Nat /\ Len(blocks) \in Nat
  BY DEF ChainInv
<1>2. /\ updates[n + 1] \in Nat /\ updates[n + 1] >= 2 /\ updates[n + 1] <= Len(blocks)
      /\ n > 0 => updates[n] \in Nat /\ updates[n] < updates[n + 1]
  <2>1. n + 1 \in 1..Len(updates) /\ (n > 0 => n \in 1..Len(updates) /\ n < n + 1)
    BY <1>1
  <2> QED BY <2>1 DEF ChainInv
<1>3. updates[n + 1] - 1 \in 1..Len(blocks)
  BY <1>1, <1>2
<1>4. /\ n > 0 => updates[n] <= updates[n + 1] - 1
      /\ n < Len(updates) => updates[n + 1] - 1 < updates[n + 1]
  BY <1>1, <1>2
<1>5. blocks[updates[n + 1] - 1] = SetOf(n)
  <2>1. n \in 0..Len(updates)
    BY <1>1
  <2> QED BY <1>3, <1>4, <2>1, Zenon DEF ChainInv
<1> QED BY <1>5 DEF AggregationSet, BlockOf

\* The set after an update is an operator set.
LEMMA SetOfTyped ==
  ASSUME ChainInv, NEW n \in 0..Len(updates)
  PROVE  SetOf(n) \in Sets
<1>1. CASE n = 0
  BY <1>1 DEF SetOf, Sets
<1>2. CASE n # 0
  <2>1. updates[n] \in 1..Len(blocks)
    BY <1>2 DEF ChainInv
  <2> QED BY <1>2, <2>1 DEF SetOf, ChainInv
<1> QED BY <1>1, <1>2

\* Operator sets have natural weights.
LEMMA SetsTyped == Sets \subseteq [Pubkeys -> Nat]
BY SyncAssumption DEF Sets, NoWeights

\* A new block starts with the set of the last one.
LEMMA ChainMines ==
  ASSUME ChainInv, MineBlock
  PROVE  /\ blocks' \in Seq(Sets) /\ Len(blocks') = Len(blocks) + 1
         /\ \A b \in 1..Len(blocks) : blocks'[b] = blocks[b]
         /\ blocks'[Len(blocks) + 1] = blocks[Len(blocks)]
         /\ updates' = updates
         /\ Mined' = Len(updates)
<1>1. /\ Len(blocks) \in Nat /\ Len(blocks) >= 2
      /\ Len(updates) \in Nat /\ (updates = <<>> <=> Len(updates) = 0)
      /\ blocks \in Seq(Sets)
  BY DEF ChainInv
<1>2. blocks[Len(blocks)] \in Sets
  BY <1>1
<1>3. /\ blocks' \in Seq(Sets) /\ Len(blocks') = Len(blocks) + 1
      /\ \A b \in 1..Len(blocks) : blocks'[b] = blocks[b]
      /\ blocks'[Len(blocks) + 1] = blocks[Len(blocks)]
  BY <1>1, <1>2 DEF MineBlock
<1>4. updates' = updates
  BY DEF MineBlock
<1>5. Len(updates) > 0 => updates[Len(updates)] <= Len(blocks) /\ updates[Len(updates)] \in Nat
  BY <1>1 DEF ChainInv
<1>6. Mined' = Len(updates)
  BY <1>1, <1>3, <1>4, <1>5 DEF Mined
<1> QED BY <1>3, <1>4, <1>6

\* A change of the set gives the block that is being built its update, if it
\* has none yet.
LEMMA ChainChanges ==
  ASSUME ChainInv, NEW set \in OperatorSets, ChangeOperators(set)
  PROVE  /\ blocks' \in Seq(Sets) /\ Len(blocks') = Len(blocks)
         /\ \A b \in 1..Len(blocks) - 1 : blocks'[b] = blocks[b]
         /\ blocks'[Len(blocks)] = set
         /\ updates' \in Seq(Nat) /\ Len(updates') = Mined + 1
         /\ \A i \in 1..Len(updates) : updates'[i] = updates[i]
         /\ updates'[Mined + 1] = Len(blocks)
         /\ Mined' = Mined
<1>1. /\ Len(blocks) \in Nat /\ Len(blocks) >= 2
      /\ Len(updates) \in Nat /\ (updates = <<>> <=> Len(updates) = 0)
      /\ blocks \in Seq(Sets) /\ updates \in Seq(Nat)
  BY DEF ChainInv
<1>2. set \in Sets
  BY DEF Sets
<1>3. /\ blocks' \in Seq(Sets) /\ Len(blocks') = Len(blocks)
      /\ \A b \in 1..Len(blocks) - 1 : blocks'[b] = blocks[b]
      /\ blocks'[Len(blocks)] = set
  BY <1>1, <1>2 DEF ChangeOperators
<1>4. updates' = Recorded
  BY DEF ChangeOperators
<1>5. /\ updates' \in Seq(Nat) /\ Len(updates') = Mined + 1
      /\ \A i \in 1..Len(updates) : updates'[i] = updates[i]
      /\ updates'[Mined + 1] = Len(blocks)
  <2>1. CASE updates # <<>> /\ updates[Len(updates)] = Len(blocks)
    BY <1>1, <1>4, <2>1 DEF Recorded, Mined
  <2>2. CASE ~(updates # <<>> /\ updates[Len(updates)] = Len(blocks))
    BY <1>1, <1>4, <2>2 DEF Recorded, Mined
  <2> QED BY <2>1, <2>2
<1>6. Mined \in Nat
  BY MinedEnds
<1>7. Mined' = Mined
  <2>1. updates' # <<>> /\ updates'[Len(updates')] = Len(blocks')
    BY <1>3, <1>5, <1>6
  <2>2. Mined' = Len(updates') - 1
    BY <2>1 DEF Mined
  <2> QED BY <1>5, <1>6, <2>2
<1> QED BY <1>3, <1>5, <1>7

\* The sets of mined updates stay.
LEMMA SetsStay ==
  ASSUME ChainInv, [Next]_vars
  PROVE  /\ Mined' \in Nat /\ Mined' >= Mined
         /\ \A n \in 0..Mined : SetOf(n)' = SetOf(n)
<1>1. Mined \in Nat /\ Mined <= Len(updates) /\ Len(updates) \in Nat /\ Len(blocks) \in Nat
  BY MinedEnds DEF ChainInv
<1>2. \A i \in 1..Mined : updates[i] \in 1..Len(blocks) - 1
  <2> TAKE i \in 1..Mined
  <2>1. i \in 1..Len(updates)
    BY <1>1
  <2>2. updates[i] \in Nat /\ updates[i] >= 2
    BY <2>1 DEF ChainInv
  <2>3. updates[i] < Len(blocks)
    BY MinedEnds
  <2> QED BY <1>1, <2>2, <2>3
<1>3. ASSUME \A b \in 1..Len(blocks) - 1 : blocks'[b] = blocks[b],
             \A i \in 1..Len(updates) : updates'[i] = updates[i]
      PROVE  \A n \in 0..Mined : SetOf(n)' = SetOf(n)
  <2> TAKE n \in 0..Mined
  <2>1. CASE n = 0
    BY <2>1 DEF SetOf
  <2>2. CASE n # 0
    <3>1. n \in 1..Mined /\ n \in 1..Len(updates)
      BY <1>1, <2>2
    <3>2. blocks'[updates'[n]] = blocks[updates[n]]
      BY <1>2, <1>3, <3>1
    <3> QED BY <2>2, <3>2 DEF SetOf
  <2> QED BY <2>1, <2>2
<1>4. CASE MineBlock
  BY <1>1, <1>3, <1>4, ChainMines
<1>5. ASSUME NEW set \in OperatorSets, ChangeOperators(set)
      PROVE  /\ Mined' \in Nat /\ Mined' >= Mined
             /\ \A n \in 0..Mined : SetOf(n)' = SetOf(n)
  BY <1>1, <1>3, <1>5, ChainChanges
<1>6. CASE UNCHANGED chainVars
  <2>1. Mined' = Mined
    BY <1>6 DEF chainVars, Mined
  <2> QED BY <1>1, <1>3, <1>6, <2>1 DEF chainVars
<1> QED BY <1>4, <1>5, <1>6, ChainFrame DEF ChainActions

\* Every step keeps the invariant of the chain.
LEMMA ChainStep ==
  ASSUME ChainInv, [Next]_vars
  PROVE  ChainInv'
<1> DEFINE L == Len(blocks)
           U == Len(updates)
<1>1. /\ L \in Nat /\ L >= 2 /\ U \in Nat
      /\ blocks \in Seq(Sets) /\ updates \in Seq(Nat)
  BY DEF ChainInv
<1>2. \A i \in 1..U : updates[i] \in Nat /\ updates[i] >= 2 /\ updates[i] <= L
  BY DEF ChainInv
<1>3. \A i, j \in 1..U : i < j => updates[i] < updates[j]
  BY DEF ChainInv
<1>4. CASE MineBlock
  <2>1. /\ blocks' \in Seq(Sets) /\ Len(blocks') = L + 1
        /\ \A b \in 1..L : blocks'[b] = blocks[b]
        /\ blocks'[L + 1] = blocks[L]
        /\ updates' = updates
    BY <1>4, ChainMines
  <2>2. \A n \in 0..U : SetOf(n)' = SetOf(n)
    <3> TAKE n \in 0..U
    <3>1. CASE n = 0
      BY <3>1 DEF SetOf
    <3>2. CASE n # 0
      <4>1. n \in 1..U
        BY <1>1, <3>2
      <4>2. updates[n] \in 1..L
        BY <1>1, <1>2, <4>1
      <4> QED BY <2>1, <3>2, <4>2 DEF SetOf
    <3> QED BY <3>1, <3>2
  <2>3. ASSUME NEW n \in 0..Len(updates'), NEW b \in 1..Len(blocks'),
               n > 0 => updates'[n] <= b,
               n < Len(updates') => b < updates'[n + 1]
        PROVE  blocks'[b] = SetOf(n)'
    <3>1. CASE b \in 1..L
      <4>1. blocks[b] = SetOf(n)
        BY <2>1, <2>3, <3>1, Zenon DEF ChainInv
      <4> QED BY <2>1, <2>2, <3>1, <4>1
    <3>2. CASE b = L + 1
      <4>1. n = U
        <5>1. n < U => n + 1 \in 1..U
          BY <1>1, <2>1
        <5> HIDE DEF L, U
        <5> QED BY <1>1, <1>2, <2>1, <2>3, <3>2, <5>1 DEF U
      <4>2. L \in 1..L /\ (n > 0 => updates[n] <= L) /\ n \in 0..U /\ ~(n < U)
        BY <1>1, <1>2, <4>1
      <4>3. blocks[L] = SetOf(n)
        BY <4>2, Zenon DEF ChainInv
      <4> QED BY <2>1, <2>2, <3>2, <4>2, <4>3
    <3> QED BY <1>1, <2>1, <3>1, <3>2
  <2>4. \A i \in 1..Len(updates') : updates'[i] >= 2 /\ updates'[i] <= Len(blocks')
    BY <1>1, <1>2, <2>1
  <2>5. \A i, j \in 1..Len(updates') : i < j => updates'[i] < updates'[j]
    BY <1>3, <2>1
  <2>6. Len(blocks') >= 2
    BY <1>1, <2>1
  <2> HIDE DEF L, U
  <2> QED BY <1>1, <2>1, <2>3, <2>4, <2>5, <2>6, Zenon DEF ChainInv
<1>5. ASSUME NEW set \in OperatorSets, ChangeOperators(set)
      PROVE  ChainInv'
  <2> DEFINE M == Mined
  <2>1. /\ blocks' \in Seq(Sets) /\ Len(blocks') = L
        /\ \A b \in 1..L - 1 : blocks'[b] = blocks[b]
        /\ updates' \in Seq(Nat) /\ Len(updates') = M + 1
        /\ \A i \in 1..U : updates'[i] = updates[i]
        /\ updates'[M + 1] = L
    BY <1>5, ChainChanges
  <2>2. /\ M \in Nat /\ M <= U /\ U <= M + 1
        /\ \A i \in 1..M : updates[i] < L
    BY MinedEnds
  <2> HIDE DEF M, L, U
  <2>3. \A i \in 1..M : updates'[i] = updates[i] /\ i \in 1..U
    BY <1>1, <2>1, <2>2
  <2>4. \A i \in 1..M + 1 : updates'[i] \in Nat /\ updates'[i] >= 2 /\ updates'[i] <= L
    <3>1. \A i \in 1..M : updates'[i] \in Nat /\ updates'[i] >= 2 /\ updates'[i] <= L
      BY <1>2, <2>3
    <3> QED BY <1>1, <2>1, <2>2, <3>1
  <2>5. \A i, j \in 1..M + 1 : i < j => updates'[i] < updates'[j]
    <3> TAKE i, j \in 1..M + 1
    <3> HAVE i < j
    <3>1. i \in 1..M
      BY <2>2
    <3>2. CASE j = M + 1
      BY <2>1, <2>2, <2>3, <3>1, <3>2, SMTT(30)
    <3>3. CASE j \in 1..M
      BY <1>3, <2>3, <3>1, <3>3
    <3> QED BY <2>2, <3>2, <3>3
  <2>6. ASSUME NEW n \in 0..M + 1, NEW b \in 1..L,
               n > 0 => updates'[n] <= b,
               n < M + 1 => b < updates'[n + 1]
        PROVE  blocks'[b] = SetOf(n)'
    <3>1. CASE b = L
      <4>1. n = M + 1
        <5>1. n < M + 1 => n + 1 \in 1..M + 1
          BY <2>2
        <5> QED BY <1>1, <2>2, <2>4, <2>6, <3>1, <5>1
      <4>2. SetOf(n)' = blocks'[updates'[M + 1]]
        BY <2>2, <4>1 DEF SetOf
      <4> QED BY <2>1, <3>1, <4>2
    <3>2. CASE b < L
      <4>1. n \in 0..M /\ n \in 0..U
        BY <1>1, <2>1, <2>2, <2>6, <3>2
      <4>2. n > 0 => updates[n] <= b
        BY <2>2, <2>3, <2>6, <4>1
      <4>3. n < U => b < updates[n + 1]
        <5> HAVE n < U
        <5>1. n + 1 \in 1..U /\ n < M + 1
          BY <1>1, <2>2, <4>1
        <5> QED BY <2>1, <2>6, <5>1
      <4>4. blocks[b] = SetOf(n)
        BY <4>1, <4>2, <4>3, Zenon DEF ChainInv, L, U
      <4>5. SetOf(n)' = SetOf(n)
        BY <4>1, SetsStay DEF M
      <4> QED BY <1>1, <2>1, <3>2, <4>4, <4>5
    <3> QED BY <1>1, <3>1, <3>2
  <2>7. Len(blocks') >= 2
    BY <1>1, <2>1
  <2> QED BY <2>1, <2>4, <2>5, <2>6, <2>7, Zenon DEF ChainInv
<1>6. CASE UNCHANGED chainVars
  BY <1>6, Zenon DEF chainVars, ChainInv, SetOf
<1> QED BY <1>4, <1>5, <1>6, ChainFrame DEF ChainActions

-----------------------------------------------------------------------------
(* The rollup *)

\* Only a mined transaction changes the rollup.
LEMMA RollupFrame ==
  ASSUME [Next]_vars
  PROVE  MineTransaction \/ UNCHANGED rollupVars
BY Zenon DEF Next, ChangeOperators, MineBlock, Broadcast, BroadcasterStep,
  NewRollupBroadcaster, SubscribeToOperatorSetUpdates, ReceiveOperatorSetUpdate,
  TryInitialize, FetchOperatorSet, InitializerFails, Initializer, WriterStep,
  LockForUpdate, LockForInitialize, ReadNextId, AssembleAndSend, OperationFails, Crash,
  vars

\* The two views of getOperatorSetUpdate, by the number of updates before.
LEMMA ViewsOf ==
  ASSUME NEW id \in Nat
  PROVE  /\ PreviousOperatorSet(id) = SetOf(id)
         /\ NewOperatorSet(id) = SetOf(id + 1)
<1>1. id - 1 + 1 = id /\ id + 1 # 0
  OBVIOUS
<1> QED BY <1>1 DEF PreviousOperatorSet, NewOperatorSet, SetOf, BlockOf

\* An accepted transaction leaves the set of its update.
LEMMA AcceptedLeavesSet ==
  ASSUME IInv, NEW tx \in Txs, Sendable(tx), Accepts(tx)
  PROVE  SetAfter(tx) = SetOf(tx.id + 1)
<1>1. tx.id \in Nat
  BY TxFields
<1>2. CASE tx.kind = "init"
  BY <1>1, <1>2, ViewsOf DEF SetAfter
<1>3. CASE tx.kind # "init"
  <2>1. tx.id = nextOperatorUpdateId
    BY <1>3 DEF Accepts
  <2>2. weights = SetOf(tx.id)
    BY <2>1 DEF IInv, CopyInv
  <2>3. tx.id + 1 \in 0..Len(updates)
    BY <1>1, MinedEnds, SMTT(30) DEF IInv, Sendable, ChainInv
  <2>4. SetOf(tx.id + 1) \in [Pubkeys -> Nat]
    BY <2>3, SetOfTyped, SetsTyped DEF IInv
  <2>5. SetAfter(tx) = [p \in Pubkeys |-> IF SetOf(tx.id)[p] # SetOf(tx.id + 1)[p]
                                          THEN SetOf(tx.id + 1)[p] ELSE SetOf(tx.id)[p]]
    BY <1>1, <1>3, <2>2, ViewsOf DEF SetAfter
  <2> QED BY <2>4, <2>5
<1> QED BY <1>2, <1>3

\* Every step keeps the copy a set of the chain.
LEMMA CopyStep ==
  ASSUME IInv, [Next]_vars
  PROVE  CopyInv'
<1>1. Mined \in Nat /\ Mined' \in Nat /\ Mined' >= Mined /\ nextOperatorUpdateId \in Nat
  BY SetsStay, MinedEnds DEF IInv, TypeOK
<1>2. ASSUME NEW n \in 0..Mined, nextOperatorUpdateId' = n, weights' = SetOf(n)
      PROVE  CopyInv'
  <2>1. SetOf(n)' = SetOf(n)
    BY SetsStay DEF IInv
  <2>2. SetOf(nextOperatorUpdateId)' = SetOf(n)'
    BY <1>2 DEF SetOf
  <2> QED BY <1>1, <1>2, <2>1, <2>2 DEF CopyInv
<1>3. CASE UNCHANGED rollupVars
  BY <1>1, <1>2, <1>3 DEF IInv, CopyInv, rollupVars
<1>4. CASE MineTransaction /\ Accepts(Head(mempool))
  <2> DEFINE tx == Head(mempool)
  <2>1. mempool \in Seq(Txs) /\ mempool # <<>>
    BY <1>4 DEF IInv, TypeOK, MineTransaction
  <2>2. tx \in Txs /\ tx = mempool[1] /\ 1 \in 1..Len(mempool)
    BY <2>1
  <2>3. Sendable(tx)
    BY <2>2 DEF IInv, PendingInv
  <2>4. weights' = SetAfter(tx) /\ nextOperatorUpdateId' = tx.id + 1
    BY <1>4 DEF MineTransaction
  <2>5. SetAfter(tx) = SetOf(tx.id + 1)
    BY <1>4, <2>2, <2>3, AcceptedLeavesSet
  <2>6. tx.id + 1 \in 0..Mined
    BY <1>1, <2>2, <2>3, TxFields DEF Sendable
  <2> HIDE DEF tx
  <2> QED BY <1>2, <2>4, <2>5, <2>6
<1>5. CASE MineTransaction /\ ~Accepts(Head(mempool))
  BY <1>3, <1>5 DEF MineTransaction
<1> QED BY <1>3, <1>4, <1>5, RollupFrame

-----------------------------------------------------------------------------
(* What is on its way to the rollup *)

\* A writer that sends has a transaction it may send.
LEMMA WriterTyped ==
  ASSUME IInv, writer # None
  PROVE  writer \in WriterStates /\ writer.tx \in Txs /\ Sendable(writer.tx)
<1>1. writer \in WriterStates
  BY DEF IInv, TypeOK, WriterStates
<1> QED BY <1>1 DEF IInv, PendingInv, WriterStates

\* The writer is released, or writes a transaction that may be sent.
WriterNext ==
  \/ writer' = None
  \/ writer' \in WriterStates /\ Sendable(writer'.tx)

\* Only its own steps change the writer.
LEMMA WriterSends ==
  ASSUME IInv, [Next]_vars
  PROVE  writer' = writer \/ WriterNext
<1>1. ASSUME writer # None
      PROVE  /\ writer' = AfterFailure => WriterNext
             /\ \A pc \in {"read", "assemble", "sent"} :
                  writer' = [writer EXCEPT !.pc = pc] => WriterNext
  <2>1. writer \in WriterStates /\ Sendable(writer.tx)
    BY <1>1, WriterTyped
  <2>2. writer' = AfterFailure => WriterNext
    BY <1>1, <2>1, AfterFailureTyped DEF WriterNext
  <2>3. ASSUME NEW pc \in {"read", "assemble", "sent"}, writer' = [writer EXCEPT !.pc = pc]
        PROVE  WriterNext
    BY <2>1, <2>3, WriterMoves DEF WriterNext
  <2> QED BY <2>2, <2>3
<1>2. ASSUME NEW u \in waiting, LockForUpdate(u)
      PROVE  WriterNext
  <2>1. u \in Updates /\ Signed(u)
    BY DEF IInv, TypeOK, PendingInv
  <2>2. UpdateTx(u) \in Txs /\ Sendable(UpdateTx(u))
    BY <2>1, NewTxs DEF Sendable, Signed
  <2>3. writer' = Acquired(UpdateTx(u))
    BY <1>2 DEF LockForUpdate
  <2> QED BY <2>2, <2>3, AcquiredTyped DEF WriterNext
<1>3. CASE LockForInitialize
  <2>1. initializer.id \in Nat /\ initializer.id < Mined
    BY <1>3 DEF LockForInitialize, IInv, TypeOK, PendingInv
  <2>2. InitTx(initializer.id) \in Txs /\ Sendable(InitTx(initializer.id))
    BY <2>1, NewTxs DEF Sendable
  <2>3. writer' = Acquired(InitTx(initializer.id))
    BY <1>3 DEF LockForInitialize
  <2> QED BY <2>2, <2>3, AcquiredTyped DEF WriterNext
<1>4. CASE ReadNextId
  <2>1. writer # None /\ (writer' = None \/ writer' = [writer EXCEPT !.pc = "assemble"])
    BY <1>4 DEF ReadNextId
  <2> QED BY <1>1, <2>1 DEF WriterNext
<1>5. CASE AssembleAndSend
  <2>1. writer # None /\ (writer' = AfterFailure \/ writer' = [writer EXCEPT !.pc = "sent"])
    BY <1>5 DEF AssembleAndSend
  <2> QED BY <1>1, <2>1
<1>6. CASE OperationFails
  BY <1>1, <1>6 DEF OperationFails
<1>7. CASE MineTransaction
  <2>1. \/ writer' = writer
        \/ writer # None /\ (writer' = None \/ writer' = AfterFailure)
    BY <1>7, Zenon DEF MineTransaction
  <2> QED BY <1>1, <2>1 DEF WriterNext
<1>8. CASE Crash
  BY <1>8 DEF Crash, WriterNext
<1>9. \/ writer' = writer \/ Crash \/ MineTransaction \/ OperationFails \/ AssembleAndSend
      \/ ReadNextId \/ LockForInitialize \/ \E u \in waiting : LockForUpdate(u)
  BY Zenon DEF Next, ChangeOperators, MineBlock, Broadcast, BroadcasterStep,
    NewRollupBroadcaster, SubscribeToOperatorSetUpdates, ReceiveOperatorSetUpdate,
    TryInitialize, FetchOperatorSet, InitializerFails, Initializer, WriterStep, vars
<1> QED BY <1>2, <1>3, <1>4, <1>5, <1>6, <1>7, <1>8, <1>9

\* A transaction enters the mempool only from the writer.
LEMMA MempoolSends ==
  ASSUME IInv, [Next]_vars
  PROVE  /\ mempool' \in Seq(Txs)
         /\ \A i \in 1..Len(mempool') : Sendable(mempool'[i])
<1>1. mempool \in Seq(Txs) /\ \A i \in 1..Len(mempool) : Sendable(mempool[i])
  BY DEF IInv, TypeOK, PendingInv
<1>2. CASE mempool' = mempool
  BY <1>1, <1>2
<1>3. CASE mempool # <<>> /\ mempool' = Tail(mempool)
  <2>1. /\ Len(mempool') = Len(mempool) - 1 /\ mempool' \in Seq(Txs) /\ Len(mempool) \in Nat
        /\ \A i \in 1..Len(mempool') : mempool'[i] = mempool[i + 1]
    BY <1>1, <1>3
  <2> QED BY <1>1, <2>1
<1>4. CASE writer # None /\ mempool' = Append(mempool, writer.tx)
  <2>1. writer.tx \in Txs /\ Sendable(writer.tx)
    BY <1>4, WriterTyped
  <2>2. /\ Len(mempool') = Len(mempool) + 1 /\ mempool' \in Seq(Txs) /\ Len(mempool) \in Nat
        /\ \A i \in 1..Len(mempool) : mempool'[i] = mempool[i]
        /\ mempool'[Len(mempool) + 1] = writer.tx
    BY <1>1, <1>4, <2>1
  <2> QED BY <1>1, <2>1, <2>2
<1>5. \/ mempool' = mempool
      \/ mempool # <<>> /\ mempool' = Tail(mempool)
      \/ writer # None /\ mempool' = Append(mempool, writer.tx)
  BY Zenon DEF Next, ChangeOperators, MineBlock, Broadcast, BroadcasterStep,
    NewRollupBroadcaster, SubscribeToOperatorSetUpdates, ReceiveOperatorSetUpdate,
    TryInitialize, FetchOperatorSet, InitializerFails, Initializer, WriterStep,
    LockForUpdate, LockForInitialize, ReadNextId, AssembleAndSend, OperationFails,
    MineTransaction, Crash, vars
<1> QED BY <1>2, <1>3, <1>4, <1>5

\* What was signed or may be sent stays so, because mined updates stay.
LEMMA SignedStays ==
  ASSUME IInv, [Next]_vars, NEW u \in Updates, Signed(u)
  PROVE  Signed(u)'
<1>1. u.id \in Nat /\ u.id < Mined /\ Mined \in Nat /\ Mined' \in Nat /\ Mined' >= Mined
  BY SetsStay, MinedEnds DEF IInv, Signed, Updates
<1>2. SetOf(u.id)' = SetOf(u.id)
  BY <1>1, SetsStay DEF IInv
<1>3. u.id < Mined'
  BY <1>1
<1> QED BY <1>2, <1>3 DEF Signed

\* A transaction that may be sent may be sent later as well.
LEMMA SendableStays ==
  ASSUME IInv, [Next]_vars, NEW tx \in Txs, Sendable(tx)
  PROVE  Sendable(tx)'
<1>1. tx.id \in Nat /\ tx.id < Mined /\ Mined \in Nat /\ Mined' \in Nat /\ Mined' >= Mined
  BY SetsStay, MinedEnds, TxFields DEF IInv, Sendable
<1>2. tx.kind = "update" => tx.update.id = tx.id /\ Signed(tx.update)'
  BY TxFields, SignedStays DEF Sendable
<1> QED BY <1>1, <1>2 DEF Sendable

\* The writer keeps a transaction it may send.
LEMMA WriterInv ==
  ASSUME IInv, [Next]_vars
  PROVE  /\ writer' = None \/ writer' \in WriterStates
         /\ writer' # None => Sendable(writer.tx)'
<1>1. writer' = None \/ (writer' \in WriterStates /\ Sendable(writer'.tx))
  BY WriterSends, WriterTyped DEF WriterNext
<1>2. ASSUME writer' # None
      PROVE  Sendable(writer.tx)'
  <2>1. PICK x \in Txs : x = writer'.tx
    BY <1>1, <1>2 DEF WriterStates
  <2>2. Sendable(x)'
    BY <1>1, <1>2, <2>1, SendableStays, SMTT(30)
  <2> QED BY <2>1, <2>2 DEF Sendable, Signed, SetOf
<1> QED BY <1>1, <1>2

\* So does the mempool.
LEMMA MempoolInv ==
  ASSUME IInv, [Next]_vars
  PROVE  \A i \in 1..Len(mempool') : Sendable(mempool[i])'
<1> TAKE i \in 1..Len(mempool')
<1>1. PICK x \in Txs : x = mempool'[i] /\ Sendable(x)
  BY MempoolSends
<1>2. Sendable(x)'
  BY <1>1, SendableStays
<1> QED BY <1>1, <1>2 DEF Sendable, Signed, SetOf

\* A broadcast hands over what a quorum of the set before the update signed.
LEMMA BroadcastSigned ==
  ASSUME IInv, NEW id \in 0..Mined - 1, NEW nonSigners \in SUBSET Pubkeys,
         Broadcast(id, nonSigners)
  PROVE  \A u \in waiting' : u \in Updates /\ Signed(u)
<1> DEFINE set == AggregationSet(id)
           new == [id |-> id, members |-> Support(set), nonSigners |-> nonSigners]
<1>1. Mined \in Nat /\ Mined <= Len(updates) /\ Len(updates) \in Nat
  BY MinedEnds DEF IInv, ChainInv
<1>2. id \in Nat /\ id < Mined /\ id \in 0..Len(updates) - 1
  BY <1>1
<1>3. set = SetOf(id)
  BY <1>2, SignersBefore DEF IInv
<1>4. /\ nonSigners \subseteq Support(set) /\ Support(set) \ nonSigners # {}
      /\ WeightOf(set, Support(set) \ nonSigners) * 100 >= WeightOf(set, Pubkeys) * Threshold
      /\ waiting' = waiting \cup {new}
  BY DEF Broadcast
<1>5. Support(set) \subseteq Pubkeys
  BY DEF Support
<1> HIDE DEF set
<1>6. new \in Updates
  BY <1>2, <1>5 DEF Updates
<1>7. Signed(new)
  BY <1>2, <1>3, <1>4 DEF Signed
<1>8. \A u \in waiting : u \in Updates /\ Signed(u)
  BY DEF IInv, TypeOK, PendingInv
<1> HIDE DEF new
<1> QED BY <1>4, <1>6, <1>7, <1>8

\* An update that waits for the writer was signed.
LEMMA WaitingInv ==
  ASSUME IInv, [Next]_vars
  PROVE  waiting' \subseteq Updates /\ \A u \in waiting' : Signed(u)'
<1>1. \A u \in waiting' : u \in Updates /\ Signed(u)
  <2>1. CASE waiting' \subseteq waiting
    BY <2>1 DEF IInv, TypeOK, PendingInv
  <2>2. ASSUME NEW id \in 0..Mined - 1, NEW nonSigners \in SUBSET Pubkeys,
               Broadcast(id, nonSigners)
        PROVE  \A u \in waiting' : u \in Updates /\ Signed(u)
    BY <2>2, BroadcastSigned
  <2>3. \/ waiting' \subseteq waiting
        \/ \E id \in 0..Mined - 1, nonSigners \in SUBSET Pubkeys : Broadcast(id, nonSigners)
    BY Zenon DEF Next, ChangeOperators, MineBlock, BroadcasterStep,
      NewRollupBroadcaster, SubscribeToOperatorSetUpdates, ReceiveOperatorSetUpdate,
      TryInitialize, FetchOperatorSet, InitializerFails, Initializer, WriterStep,
      LockForUpdate, LockForInitialize, ReadNextId, AssembleAndSend, OperationFails,
      MineTransaction, Crash, vars
  <2> QED BY <2>1, <2>2, <2>3
<1> QED BY <1>1, SignedStays

\* The initializer only ever captures the id of a mined update.
LEMMA InitializerInv ==
  ASSUME IInv, [Next]_vars
  PROVE  /\ initializer' \in [pc : InitializerPcs, id : Nat]
         /\ initializer'.pc \in {"check", "fetch", "lock"} => initializer'.id < Mined'
<1> DEFINE Captured(i) == /\ i \in [pc : InitializerPcs, id : Nat]
                          /\ i.pc \in {"check", "fetch", "lock"} => i.id < Mined
<1>1. Mined \in Nat /\ Mined' \in Nat /\ Mined' >= Mined
  BY SetsStay, MinedEnds DEF IInv
<1>2. Captured(initializer)
  BY DEF IInv, TypeOK, PendingInv
<1>3. initializer \in [pc : InitializerPcs, id : Nat]
  BY <1>2
<1>4. Captured(initializer')
  <2>1. CASE initializer' = initializer
    BY <1>2, <2>1
  <2>2. CASE NewRollupBroadcaster
    <3>1. CASE Mined = 0
      BY <2>2, <3>1 DEF NewRollupBroadcaster, Initializer, InitializerPcs
    <3>2. CASE Mined # 0
      <4>1. initializer' = [pc |-> "check", id |-> Mined - 1]
        BY <2>2, <3>2 DEF NewRollupBroadcaster, Initializer
      <4> QED BY <1>1, <3>2, <4>1 DEF InitializerPcs
    <3> QED BY <3>1, <3>2
  <2>3. CASE SubscribeToOperatorSetUpdates
    BY <1>1, <2>3 DEF SubscribeToOperatorSetUpdates, Initializer, InitializerPcs
  <2>4. CASE ReceiveOperatorSetUpdate
    <3>1. /\ initializer.id \in Nat /\ initializer.id < Mined
          /\ \/ initializer' = [pc |-> "lock", id |-> initializer.id]
             \/ initializer' = [pc |-> "subscribed", id |-> initializer.id + 1]
      BY <1>3, <2>4 DEF ReceiveOperatorSetUpdate, Initializer
    <3> QED BY <3>1 DEF InitializerPcs
  <2>5. CASE TryInitialize
    <3>1. /\ initializer.id \in Nat /\ initializer.id < Mined
          /\ \/ initializer' = [pc |-> "done", id |-> initializer.id]
             \/ initializer' = [pc |-> "fetch", id |-> initializer.id]
      BY <1>2, <2>5 DEF TryInitialize, Initializer
    <3> QED BY <3>1 DEF InitializerPcs
  <2>6. CASE FetchOperatorSet
    <3>1. /\ initializer.id \in Nat /\ initializer.id < Mined
          /\ initializer' = [pc |-> "lock", id |-> initializer.id]
      BY <1>2, <2>6 DEF FetchOperatorSet, Initializer
    <3> QED BY <3>1 DEF InitializerPcs
  <2>7. CASE InitializerFails
    BY <1>3, <2>7 DEF InitializerFails, Initializer, InitializerPcs
  <2>8. CASE LockForInitialize
    BY <1>3, <2>8 DEF LockForInitialize, InitializerPcs
  <2>9. CASE Crash
    BY <2>9 DEF Crash, InitializerPcs
  <2>10. \/ initializer' = initializer \/ NewRollupBroadcaster \/ SubscribeToOperatorSetUpdates
         \/ ReceiveOperatorSetUpdate \/ TryInitialize \/ FetchOperatorSet
         \/ InitializerFails \/ LockForInitialize \/ Crash
    BY Zenon DEF Next, ChangeOperators, MineBlock, Broadcast, BroadcasterStep,
      WriterStep, LockForUpdate, ReadNextId, AssembleAndSend, OperationFails,
      MineTransaction, vars
  <2> QED BY <2>1, <2>2, <2>3, <2>4, <2>5, <2>6, <2>7, <2>8, <2>9, <2>10
<1> QED BY <1>1, <1>4

\* The bounds of the model stay in their types.
LEMMA CountersTyped ==
  ASSUME IInv, [Next]_vars
  PROVE  broadcasts' \in [Ids -> Nat] /\ errors' \in Nat /\ crashes' \in Nat
<1>1. broadcasts \in [Ids -> Nat] /\ errors \in Nat /\ crashes \in Nat
  BY DEF IInv, TypeOK
<1>2. \/ broadcasts' = broadcasts
      \/ \E id \in 0..Mined - 1 : broadcasts' = [broadcasts EXCEPT ![id] = @ + 1]
  BY Zenon DEF Next, ChangeOperators, MineBlock, Broadcast, BroadcasterStep,
    NewRollupBroadcaster, SubscribeToOperatorSetUpdates, ReceiveOperatorSetUpdate,
    TryInitialize, FetchOperatorSet, InitializerFails, Initializer, WriterStep,
    LockForUpdate, LockForInitialize, ReadNextId, AssembleAndSend, OperationFails,
    MineTransaction, Crash, vars
<1>3. errors' = errors \/ errors' = errors + 1
  BY Zenon DEF Next, ChangeOperators, MineBlock, Broadcast, BroadcasterStep,
    NewRollupBroadcaster, SubscribeToOperatorSetUpdates, ReceiveOperatorSetUpdate,
    TryInitialize, FetchOperatorSet, InitializerFails, Initializer, WriterStep,
    LockForUpdate, LockForInitialize, ReadNextId, AssembleAndSend, OperationFails,
    MineTransaction, Crash, vars
<1>4. crashes' = crashes \/ crashes' = crashes + 1
  BY Zenon DEF Next, ChangeOperators, MineBlock, Broadcast, BroadcasterStep,
    NewRollupBroadcaster, SubscribeToOperatorSetUpdates, ReceiveOperatorSetUpdate,
    TryInitialize, FetchOperatorSet, InitializerFails, Initializer, WriterStep,
    LockForUpdate, LockForInitialize, ReadNextId, AssembleAndSend, OperationFails,
    MineTransaction, Crash, vars
<1>5. broadcasts' \in [Ids -> Nat]
  BY <1>1, <1>2
<1> QED BY <1>1, <1>3, <1>4, <1>5

\* The invariant holds at the start.
LEMMA InitInv == Init => IInv
<1> HAVE Init
<1>1. NoWeights \in Sets /\ NoWeights \in [Pubkeys -> Nat]
  BY SetsTyped DEF Sets
<1>2. /\ blocks = <<NoWeights, NoWeights>> /\ updates = <<>> /\ weights = NoWeights
      /\ nextOperatorUpdateId = 0 /\ mempool = <<>> /\ waiting = {} /\ writer = None
      /\ initializer = [pc |-> "start", id |-> 0]
  BY DEF Init
<1>3. Mined = 0
  BY <1>2 DEF Mined
<1>4. TypeOK
  <2>1. blocks \in Seq([Pubkeys -> Nat]) /\ updates \in Seq(Nat) /\ mempool \in Seq(Txs)
    BY <1>1, <1>2
  <2>2. broadcasts \in [Ids -> Nat] /\ errors \in Nat /\ crashes \in Nat
    BY DEF Init
  <2> QED BY <1>1, <1>2, <2>1, <2>2 DEF TypeOK, InitializerPcs
<1>5. ChainInv
  <2>1. blocks \in Seq(Sets) /\ Len(blocks) = 2 /\ updates \in Seq(Nat) /\ Len(updates) = 0
    BY <1>1, <1>2
  <2>2. \A b \in 1..2 : blocks[b] = NoWeights
    BY <1>2
  <2>3. \A n \in 0..Len(updates), b \in 1..Len(blocks) : blocks[b] = SetOf(n)
    BY <2>1, <2>2 DEF SetOf
  <2> QED BY <2>1, <2>3 DEF ChainInv
<1>6. CopyInv
  BY <1>2, <1>3 DEF CopyInv, SetOf
<1>7. PendingInv
  BY <1>2 DEF PendingInv
<1> QED BY <1>4, <1>5, <1>6, <1>7 DEF IInv

\* Every step keeps the invariant.
LEMMA StepInv ==
  ASSUME IInv, [Next]_vars
  PROVE  IInv'
<1>1. ChainInv'
  BY ChainStep DEF IInv
<1>2. CopyInv'
  BY CopyStep
<1>3. PendingInv'
  BY WaitingInv, WriterInv, MempoolInv, InitializerInv DEF PendingInv
<1>4. TypeOK'
  <2>1. blocks' \in Seq([Pubkeys -> Nat]) /\ updates' \in Seq(Nat)
    BY <1>1, SetsTyped DEF ChainInv
  <2>2. nextOperatorUpdateId' \in Nat
    <3>1. CASE UNCHANGED rollupVars
      BY <3>1 DEF IInv, TypeOK, rollupVars
    <3>2. CASE MineTransaction
      <4>1. mempool \in Seq(Txs) /\ mempool # <<>> /\ nextOperatorUpdateId \in Nat
        BY <3>2 DEF IInv, TypeOK, MineTransaction
      <4>2. Head(mempool) \in Txs
        BY <4>1
      <4>3. \/ nextOperatorUpdateId' = nextOperatorUpdateId
            \/ nextOperatorUpdateId' = Head(mempool).id + 1
        BY <3>2 DEF MineTransaction, rollupVars
      <4> QED BY <4>1, <4>2, <4>3, TxFields
    <3> QED BY <3>1, <3>2, RollupFrame
  <2>3. weights' \in [Pubkeys -> Nat]
    <3>1. CASE nextOperatorUpdateId' = 0
      BY <1>2, <3>1, SetsTyped DEF CopyInv, SetOf, Sets
    <3>2. CASE nextOperatorUpdateId' # 0
      <4>1. Mined' <= Len(updates') /\ Mined' \in Int /\ Len(updates') \in Nat
        BY <2>1 DEF Mined
      <4>2. nextOperatorUpdateId' \in 1..Len(updates')
        BY <1>2, <2>2, <3>2, <4>1 DEF CopyInv
      <4>3. updates'[nextOperatorUpdateId'] \in 1..Len(blocks')
        BY <1>1, <4>2 DEF ChainInv
      <4>4. weights' = blocks'[updates'[nextOperatorUpdateId']]
        BY <1>2, <3>2 DEF CopyInv, SetOf
      <4> QED BY <2>1, <4>3, <4>4
    <3> QED BY <3>1, <3>2
  <2> QED BY <2>1, <2>2, <2>3, WaitingInv, WriterInv, MempoolSends, InitializerInv,
             CountersTyped, Zenon DEF TypeOK, WriterStates
<1> QED BY <1>1, <1>2, <1>3, <1>4 DEF IInv

\* The invariant holds always.
LEMMA Inductive == Spec => []IInv
<1>1. IInv /\ [Next]_vars => IInv'
  BY StepInv
<1> QED BY InitInv, <1>1, PTL DEF Spec

-----------------------------------------------------------------------------
(* Theorems *)

\* The variables of the contracts, the broadcaster and the writer keep their types.
THEOREM SyncTypeCorrect == Spec => []TypeOK
<1>1. IInv => TypeOK
  BY DEF IInv
<1> QED BY Inductive, <1>1, PTL

\* However the broadcaster and the writer drop, retry or repeat, and whatever a
\* crash forgets, the copy that setInitialOperatorSet and updateOperatorSet write
\* is the operator set of Ethereum at the update before the rollup's next one.
THEOREM CopyFollowsMainnetHolds == Spec => []CopyFollowsMainnet
<1>1. IInv => CopyFollowsMainnet
  <2> SUFFICES ASSUME IInv, nextOperatorUpdateId > 0
               PROVE  /\ nextOperatorUpdateId <= Mined
                      /\ weights = NewOperatorSet(nextOperatorUpdateId - 1)
    BY DEF CopyFollowsMainnet
  <2>1. nextOperatorUpdateId - 1 \in Nat /\ nextOperatorUpdateId - 1 + 1 = nextOperatorUpdateId
    BY DEF IInv, TypeOK
  <2>2. NewOperatorSet(nextOperatorUpdateId - 1) = SetOf(nextOperatorUpdateId)
    BY <2>1, ViewsOf
  <2> QED BY <2>2 DEF IInv, CopyInv
<1> QED BY Inductive, <1>1, PTL

\* The next update of a rollup passes updateOperatorSet: a quorum of the very
\* set that the rollup holds has signed it.
THEOREM NextUpdateVerifiesHolds == Spec => []NextUpdateVerifies
<1>1. ASSUME IInv, NEW u \in Updates, Signed(u), u.id = nextOperatorUpdateId
      PROVE  Verified(u)
  <2> DEFINE signers == Support(weights) \ u.nonSigners
  <2>1. weights = SetOf(u.id) /\ u.id \in Nat
    BY <1>1 DEF IInv, CopyInv, Updates
  <2>2. u.id \in 0..Len(updates)
    <3>1. Mined \in Nat /\ Mined <= Len(updates) /\ Len(updates) \in Nat
      BY <1>1, MinedEnds DEF IInv, TypeOK
    <3> QED BY <1>1, <2>1, <3>1 DEF Signed
  <2>3. weights \in Sets
    BY <1>1, <2>1, <2>2, SetOfTyped DEF IInv
  <2>4. /\ u.members = Support(weights) /\ u.nonSigners \subseteq Support(weights)
        /\ signers # {}
        /\ WeightOf(weights, signers) * 100 >= WeightOf(weights, Pubkeys) * Threshold
    BY <1>1, <2>1 DEF Signed
  <2>5. WeightOf(weights, Pubkeys) # 0
    <3>1. PICK p \in Pubkeys : weights[p] # 0
      BY <2>4 DEF Support
    <3>2. weights # NoWeights
      BY <3>1 DEF NoWeights
    <3> QED BY <2>3, <3>2, SyncAssumption DEF Sets
  <2>6. WeightOf(weights, signers) >= (WeightOf(weights, Pubkeys) * Threshold) \div 100
    <3>1. signers \in SUBSET Pubkeys /\ Pubkeys \in SUBSET Pubkeys
      BY DEF Support
    <3>2. WeightOf(weights, signers) \in Nat /\ WeightOf(weights, Pubkeys) \in Nat
      BY <2>3, <3>1, SyncAssumption DEF Sets
    <3>3. WeightOf(weights, Pubkeys) * Threshold \in Nat
      BY <3>2, SyncAssumption
    <3>4. \A a, b \in Nat : a * 100 >= b => a >= b \div 100
      OBVIOUS
    <3> HIDE DEF signers
    <3> QED BY <2>4, <3>2, <3>3, <3>4
  <2>7. PreviousOperatorSet(u.id) = weights
    BY <2>1, ViewsOf
  <2> QED BY <2>4, <2>5, <2>6, <2>7 DEF Verified
<1>2. ASSUME IInv, NEW u \in Pending
      PROVE  u \in Updates /\ Signed(u)
  <2>1. CASE u \in waiting
    BY <1>2, <2>1 DEF IInv, TypeOK, PendingInv
  <2>2. CASE writer # None /\ writer.tx.kind = "update" /\ u = writer.tx.update
    BY <1>2, <2>2, WriterTyped, TxFields DEF Sendable
  <2>3. ASSUME NEW i \in DOMAIN mempool, mempool[i].kind = "update", u = mempool[i].update
        PROVE  u \in Updates /\ Signed(u)
    <3>1. mempool[i] \in Txs /\ Sendable(mempool[i])
      <4>1. mempool \in Seq(Txs) /\ i \in 1..Len(mempool)
        BY <1>2 DEF IInv, TypeOK
      <4> QED BY <1>2, <4>1 DEF IInv, PendingInv
    <3> QED BY <2>3, <3>1, TxFields DEF Sendable
  <2> QED BY <2>1, <2>2, <2>3 DEF Pending
<1>3. IInv => NextUpdateVerifies
  BY <1>1, <1>2 DEF NextUpdateVerifies
<1> QED BY Inductive, <1>3, PTL

\* setInitialOperatorSet is the only way back, and only an empty copy lets it pass:
\* updateOperatorSet takes the id of the next update and adds one.
THEOREM NextIdNeverGoesBackHolds == Spec => NextIdNeverGoesBack
<1>1. ASSUME IInv, [Next]_vars
      PROVE  nextOperatorUpdateId' >= nextOperatorUpdateId \/ weights = NoWeights
  <2>1. nextOperatorUpdateId \in Nat
    BY <1>1 DEF IInv, TypeOK
  <2>2. CASE UNCHANGED rollupVars
    BY <2>1, <2>2 DEF rollupVars
  <2>3. CASE MineTransaction
    <3> DEFINE tx == Head(mempool)
    <3>1. CASE Accepts(tx)
      <4>1. weights = NoWeights \/ tx.id = nextOperatorUpdateId
        BY <3>1 DEF Accepts
      <4>2. nextOperatorUpdateId' = tx.id + 1
        BY <2>3, <3>1 DEF MineTransaction
      <4> QED BY <2>1, <4>1, <4>2
    <3>2. CASE ~Accepts(tx)
      BY <2>1, <2>3, <3>2 DEF MineTransaction, rollupVars
    <3> QED BY <3>1, <3>2
  <2> QED BY <1>1, <2>2, <2>3, RollupFrame
<1>2. IInv /\ [Next]_vars
        => [nextOperatorUpdateId' >= nextOperatorUpdateId \/ weights = NoWeights]_vars
  BY <1>1
<1> QED BY Inductive, <1>2, PTL DEF Spec, NextIdNeverGoesBack
=============================================================================
