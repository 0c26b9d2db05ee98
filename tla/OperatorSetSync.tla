--------------------------- MODULE OperatorSetSync ---------------------------
(***************************************************************************)
(* How a rollup's copy of the operator set follows Ethereum:               *)
(*   - SFFLRegistryCoordinator and SFFLOperatorSetUpdateRegistry number    *)
(*     the blocks in which the operator set changes;                       *)
(*   - the operators attest each update; the aggregator collects a quorum  *)
(*     of the set of the block before it and broadcasts the result;        *)
(*   - aggregator/rollup_broadcaster.go initializes the rollup's copy, and *)
(*     aggregator/rollup_writer.go sends the updates, one goroutine per    *)
(*     broadcast, one at a time under operatorSetUpdateLock;               *)
(*   - the contract of SFFLRegistryRollup.tla, one transaction per step.   *)
(*                                                                         *)
(* One rollup: the writers of several share nothing.  Transactions of the  *)
(* aggregator's account are mined in the order of their nonces, and the    *)
(* writer may stop waiting for one that is mined later.  The aggregator    *)
(* may crash and restart; transactions it has sent stay.                   *)
(***************************************************************************)
EXTENDS Integers, Sequences

CONSTANTS
  Pubkeys,
  OperatorSets,    \* pubkey -> weight, 0 for an operator that is not registered
  WeightOf(_, _),  \* WeightOf(w, S): the sum of the weights w of S
  Threshold,       \* MESSAGE_AGGREGATION_QUORUM_THRESHOLD, also set on the rollup
  Retries,         \* UPDATE_OPERATOR_SET_RETRIES, INITIALIZE_OPERATOR_SET_RETRIES
  MaxBlocks,       \* bound: blocks of Ethereum
  MaxBroadcasts,   \* bound: broadcasts of one update
  MaxErrors,       \* bound: calls and transactions that fail for no fault of theirs
  MaxCrashes,      \* bound: restarts of the aggregator
  None

NoWeights == [p \in Pubkeys |-> 0]

ASSUME SyncAssumption ==
  /\ OperatorSets \subseteq [Pubkeys -> Nat]
  /\ Threshold \in 51..100
  /\ Retries \in Nat \ {0} /\ MaxBlocks \in Nat
  /\ MaxBroadcasts \in Nat /\ MaxErrors \in Nat /\ MaxCrashes \in Nat
  /\ None \notin Nat
  /\ \A w \in OperatorSets \cup {NoWeights} :
       /\ \A S \in SUBSET Pubkeys : WeightOf(w, S) \in Nat
       /\ w # NoWeights => WeightOf(w, Pubkeys) # 0

VARIABLES
  blocks,      \* Ethereum: operator set at the end of each block; the last is being built
  updates,     \* operatorSetUpdateIdToBlockNumber; update id is updates[id + 1]
  weights,     \* rollup: pubkeyHashToWeight
  nextOperatorUpdateId,
  mempool,     \* rollup: transactions of the aggregator's account, by nonce
  initializer, \* the goroutine that initializes the rollup's operator set
  waiting,     \* goroutines of BroadcastOperatorSetUpdate that want the lock
  writer,      \* the holder of operatorSetUpdateLock
  broadcasts,  \* id -> broadcasts so far (bounded by MaxBroadcasts)
  errors,
  crashes

chainVars == <<blocks, updates>>
rollupVars == <<weights, nextOperatorUpdateId>>
vars == <<chainVars, rollupVars, mempool, initializer, waiting, writer, broadcasts,
          errors, crashes>>

Ids == 0..MaxBlocks - 3  \* one update in each of the blocks 2 to MaxBlocks - 1
InitializerPcs == {"start", "subscribing", "subscribed", "check", "fetch", "lock", "done"}

Init ==
  /\ blocks = <<NoWeights, NoWeights>>
  /\ updates = <<>>
  /\ weights = NoWeights
  /\ nextOperatorUpdateId = 0
  /\ mempool = <<>>
  /\ initializer = [pc |-> "start", id |-> 0]
  /\ waiting = {}
  /\ writer = None
  /\ broadcasts = [id \in Ids |-> 0]
  /\ errors = 0
  /\ crashes = 0

-----------------------------------------------------------------------------
(* Ethereum *)

\* Mutant: the update of the block that is being built is read too.
MinedAndPending == Len(updates)

\* The updates of mined blocks, which is all that anyone reads.
Mined ==
  IF updates # <<>> /\ updates[Len(updates)] = Len(blocks)
  THEN Len(updates) - 1 ELSE Len(updates)

BlockOf(id) == updates[id + 1]

\* recordOperatorSetUpdate: one update per block.
Recorded ==
  IF updates # <<>> /\ updates[Len(updates)] = Len(blocks)
  THEN updates ELSE Append(updates, Len(blocks))

\* An entry point of SFFLRegistryCoordinator: registerOperator,
\* registerOperatorWithChurn, deregisterOperator, updateOperators,
\* updateOperatorsForQuorum, ejectOperator.
ChangeOperators(set) ==
  /\ Len(blocks) < MaxBlocks
  /\ updates' = Recorded
  /\ blocks' = [blocks EXCEPT ![Len(blocks)] = set]
  /\ UNCHANGED <<rollupVars, mempool, initializer, waiting, writer, broadcasts, errors,
                 crashes>>

MineBlock ==
  /\ Len(blocks) < MaxBlocks
  /\ blocks' = Append(blocks, blocks[Len(blocks)])
  /\ UNCHANGED <<updates, rollupVars, mempool, initializer, waiting, writer,
                 broadcasts, errors, crashes>>

\* getOperatorSetUpdate
NewOperatorSet(id) == blocks[BlockOf(id)]
PreviousOperatorSet(id) == IF id = 0 THEN NoWeights ELSE blocks[BlockOf(id - 1)]

-----------------------------------------------------------------------------
(* Attestation *)

Support(w) == {p \in Pubkeys : w[p] # 0}

\* Mutant: the quorum is taken from the set of the update itself.
AggregationSetAtUpdate(id) == blocks[BlockOf(id)]

\* ProcessSignedOperatorSetUpdateMessage aggregates at the block before the update.
AggregationSet(id) == blocks[BlockOf(id) - 1]

\* A finished aggregation of update id, without the operators nonSigners, is
\* handed to BroadcastOperatorSetUpdate, which starts a goroutine for the writer.
Broadcast(id, nonSigners) ==
  LET set == AggregationSet(id)
      signers == Support(set) \ nonSigners IN
  /\ initializer.pc # "start"
  /\ broadcasts[id] < MaxBroadcasts
  /\ nonSigners \subseteq Support(set)
  /\ signers # {}
  /\ WeightOf(set, signers) * 100 >= WeightOf(set, Pubkeys) * Threshold
  /\ broadcasts' = [broadcasts EXCEPT ![id] = @ + 1]
  /\ waiting' = waiting \cup {[id |-> id, members |-> Support(set), nonSigners |-> nonSigners]}
  /\ UNCHANGED <<chainVars, rollupVars, mempool, initializer, writer, errors, crashes>>

-----------------------------------------------------------------------------
(* The contract *)

InitTx(id) == [kind |-> "init", id |-> id]
UpdateTx(u) == [kind |-> "update", id |-> u.id, update |-> u]

\* updateOperatorSet: right id, a set with weight, non-signers with weight, the
\* aggregate key, the quorum, and every entry of the list a change.
Verified(u) ==
  LET new == NewOperatorSet(u.id)
      changed == {p \in Pubkeys : PreviousOperatorSet(u.id)[p] # new[p]} IN
  /\ WeightOf(weights, Pubkeys) # 0
  /\ u.nonSigners \subseteq Support(weights)
  /\ u.members \ u.nonSigners = Support(weights) \ u.nonSigners
  /\ WeightOf(weights, Support(weights) \ u.nonSigners) >=
       (WeightOf(weights, Pubkeys) * Threshold) \div 100
  /\ \A p \in changed : new[p] # weights[p]

\* Mutant: an initial set is accepted at any time.
AcceptsInitAlways(tx) ==
  tx.kind = "init" \/ (tx.id = nextOperatorUpdateId /\ Verified(tx.update))

Accepts(tx) ==
  IF tx.kind = "init" THEN weights = NoWeights
  ELSE tx.id = nextOperatorUpdateId /\ Verified(tx.update)

\* The set that a transaction leaves: the initial set is given whole, an update
\* as the list of the operators that changed.
SetAfter(tx) ==
  IF tx.kind = "init" THEN NewOperatorSet(tx.id)
  ELSE [p \in Pubkeys |->
          IF PreviousOperatorSet(tx.id)[p] # NewOperatorSet(tx.id)[p]
          THEN NewOperatorSet(tx.id)[p] ELSE weights[p]]

-----------------------------------------------------------------------------
(* RollupWriter: InitializeOperatorSet and UpdateOperatorSet *)

FirstPc(tx) == IF tx.kind = "init" THEN "assemble" ELSE "read"

\* Lock, then the retry loop.
Acquired(tx) == [tx |-> tx, pc |-> FirstPc(tx), tries |-> Retries]

LockForUpdate(u) ==
  /\ writer = None
  /\ waiting' = waiting \ {u}
  /\ writer' = Acquired(UpdateTx(u))
  /\ UNCHANGED <<chainVars, rollupVars, mempool, initializer, broadcasts, errors, crashes>>

LockForInitialize ==
  /\ initializer.pc = "lock"
  /\ writer = None
  /\ initializer' = [initializer EXCEPT !.pc = "done"]
  /\ writer' = Acquired(InitTx(initializer.id))
  /\ UNCHANGED <<chainVars, rollupVars, mempool, waiting, broadcasts, errors, crashes>>

\* An update that is not the next one is dropped, and the call returns nil.
ReadNextId ==
  /\ writer # None /\ writer.pc = "read"
  /\ writer' = IF writer.tx.id # nextOperatorUpdateId THEN None
               ELSE [writer EXCEPT !.pc = "assemble"]
  /\ UNCHANGED <<chainVars, rollupVars, mempool, initializer, waiting, broadcasts, errors,
                 crashes>>

\* Mutant: no second try.
AfterFailureGivesUp == None

\* operation() returned an error: wait and try again, or give up.
AfterFailure ==
  IF writer.tries = 1 THEN None
  ELSE [writer EXCEPT !.pc = FirstPc(writer.tx), !.tries = @ - 1]

\* Assembling estimates the gas, which fails for a call that would revert.
AssembleAndSend ==
  /\ writer # None /\ writer.pc = "assemble"
  /\ IF Accepts(writer.tx)
     THEN /\ mempool' = Append(mempool, writer.tx)
          /\ writer' = [writer EXCEPT !.pc = "sent"]
     ELSE writer' = AfterFailure /\ UNCHANGED mempool
  /\ UNCHANGED <<chainVars, rollupVars, initializer, waiting, broadcasts, errors, crashes>>

\* A read, assembling or sending fails.  A transaction that was sent stays in
\* the mempool.
OperationFails ==
  /\ writer # None
  /\ errors < MaxErrors
  /\ errors' = errors + 1
  /\ writer' = AfterFailure
  /\ UNCHANGED <<chainVars, rollupVars, mempool, initializer, waiting, broadcasts, crashes>>

\* The oldest transaction is executed or reverts.  The writer that waits for it
\* returns; whether a reverted one counts as sent is the transaction manager's.
MineTransaction ==
  LET tx == Head(mempool)
      awaited == writer # None /\ writer.pc = "sent" /\ Len(mempool) = 1 IN
  /\ mempool # <<>>
  /\ mempool' = Tail(mempool)
  /\ IF Accepts(tx)
     THEN /\ weights' = SetAfter(tx)
          /\ nextOperatorUpdateId' = tx.id + 1
          /\ writer' = IF awaited THEN None ELSE writer
     ELSE /\ UNCHANGED rollupVars
          /\ writer' \in IF awaited THEN {None, AfterFailure} ELSE {writer}
  /\ UNCHANGED <<chainVars, initializer, waiting, broadcasts, errors, crashes>>

-----------------------------------------------------------------------------
(* RollupBroadcaster: the initial operator set *)

Initializer(pc, id) ==
  /\ initializer' = [pc |-> pc, id |-> id]
  /\ UNCHANGED <<chainVars, rollupVars, mempool, waiting, writer, broadcasts, crashes>>

\* NewRollupBroadcaster captures GetNextOperatorSetUpdateId.
NewRollupBroadcaster ==
  /\ initializer.pc = "start"
  /\ IF Mined = 0 THEN Initializer("subscribing", 0) ELSE Initializer("check", Mined - 1)
  /\ UNCHANGED errors

\* initializeRollupOperatorSetsOnUpdate sees the updates mined from here on.
SubscribeToOperatorSetUpdates ==
  /\ initializer.pc = "subscribing"
  /\ Initializer("subscribed", Mined)
  /\ UNCHANGED errors

ReceiveOperatorSetUpdate ==
  /\ initializer.pc = "subscribed"
  /\ initializer.id < Mined
  /\ \/ Initializer("lock", initializer.id) /\ UNCHANGED errors
     \/ /\ errors < MaxErrors
        /\ errors' = errors + 1
        /\ Initializer("subscribed", initializer.id + 1)

\* tryInitializeRollupOperatorSet leaves a rollup alone that has a set.
TryInitialize ==
  /\ initializer.pc = "check"
  /\ Initializer(IF nextOperatorUpdateId # 0 THEN "done" ELSE "fetch", initializer.id)
  /\ UNCHANGED errors

\* tryGetOperatorSetById
FetchOperatorSet ==
  /\ initializer.pc = "fetch"
  /\ Initializer("lock", initializer.id)
  /\ UNCHANGED errors

\* The subscription ends, or a read fails for good: nothing tries again.
InitializerFails ==
  /\ initializer.pc \in {"subscribed", "check", "fetch"}
  /\ errors < MaxErrors
  /\ errors' = errors + 1
  /\ Initializer("done", initializer.id)

-----------------------------------------------------------------------------
Crash ==
  /\ crashes < MaxCrashes
  /\ initializer.pc # "start"
  /\ crashes' = crashes + 1
  /\ initializer' = [pc |-> "start", id |-> 0]
  /\ waiting' = {}
  /\ writer' = None
  /\ UNCHANGED <<chainVars, rollupVars, mempool, broadcasts, errors>>

BroadcasterStep ==
  \/ NewRollupBroadcaster \/ SubscribeToOperatorSetUpdates \/ ReceiveOperatorSetUpdate
  \/ TryInitialize \/ FetchOperatorSet \/ InitializerFails

WriterStep ==
  \/ \E u \in waiting : LockForUpdate(u)
  \/ LockForInitialize
  \/ ReadNextId \/ AssembleAndSend \/ OperationFails

Next ==
  \/ \E set \in OperatorSets : ChangeOperators(set)
  \/ MineBlock
  \/ \E id \in 0..Mined - 1, nonSigners \in SUBSET Pubkeys : Broadcast(id, nonSigners)
  \/ BroadcasterStep
  \/ WriterStep
  \/ MineTransaction
  \/ Crash

Spec == Init /\ [][Next]_vars

-----------------------------------------------------------------------------
Updates == [id : Nat, members : SUBSET Pubkeys, nonSigners : SUBSET Pubkeys]
Txs == [kind : {"init"}, id : Nat] \cup [kind : {"update"}, id : Nat, update : Updates]

\* Type invariant.
TypeOK ==
  /\ blocks \in Seq([Pubkeys -> Nat]) /\ updates \in Seq(Nat)
  /\ weights \in [Pubkeys -> Nat] /\ nextOperatorUpdateId \in Nat
  /\ mempool \in Seq(Txs)
  /\ initializer \in [pc : InitializerPcs, id : Nat]
  /\ waiting \subseteq Updates
  /\ writer = None \/ writer \in [tx : Txs, pc : {"read", "assemble", "sent"}, tries : 1..Retries]
  /\ broadcasts \in [Ids -> Nat] /\ errors \in Nat /\ crashes \in Nat

\* Whatever is dropped, retried, mined late or lost in a crash, a rollup whose
\* next update is n holds exactly the operator set that Ethereum had at update
\* n - 1: setInitialOperatorSet and updateOperatorSet, driven by the
\* broadcaster and the writer, never leave a mixture of two sets.
CopyFollowsMainnet ==
  nextOperatorUpdateId > 0 =>
    /\ nextOperatorUpdateId <= Mined
    /\ weights = NewOperatorSet(nextOperatorUpdateId - 1)

\* An update that was aggregated over the set of the block before it, and that
\* is the next one of the rollup, verifies there: the rollup's own set at that
\* time is the one that signed.
Pending ==
  waiting \cup (IF writer # None /\ writer.tx.kind = "update" THEN {writer.tx.update} ELSE {})
    \cup {mempool[i].update : i \in {j \in DOMAIN mempool : mempool[j].kind = "update"}}

NextUpdateVerifies == \A u \in Pending : u.id = nextOperatorUpdateId => Verified(u)

\* The id of the next update never goes back, however initial sets and updates
\* are sent twice or mined late, except where updateOperatorSet has copied an
\* empty set: setInitialOperatorSet then passes again, and an initializer of
\* a restarted aggregator that read nextOperatorUpdateId = 0 before an earlier
\* transaction was mined sets the copy back to the id it captured.
NextIdNeverGoesBack ==
  [][nextOperatorUpdateId' >= nextOperatorUpdateId \/ weights = NoWeights]_vars

\* An update that waits for operatorSetUpdateLock while it is the rollup's next one
\* reaches the rollup, or another transaction has moved the rollup on: fewer errors
\* than UPDATE_OPERATOR_SET_RETRIES, a transaction that the writer stopped waiting for
\* and other holders of the lock do not stop it.  Only a crash may forget it.  (Nobody
\* signs update 0: there is no operator set before it.)
NextUpdateArrives ==
  \A id \in Ids \ {0} :
    (nextOperatorUpdateId = id /\ \E u \in waiting : u.id = id)
      ~> (nextOperatorUpdateId # id \/ errors >= Retries \/ crashes > 0)

\* The goroutines of the writer run, and sent transactions are mined.
FairSpec == Spec /\ WF_vars(WriterStep) /\ WF_vars(MineTransaction)
=============================================================================
