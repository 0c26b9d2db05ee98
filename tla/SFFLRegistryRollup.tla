------------------------- MODULE SFFLRegistryRollup -------------------------
(***************************************************************************)
(* The registry contract on a rollup                                       *)
(* (contracts/evm/src/rollup/SFFLRegistryRollup.sol) and the operator set  *)
(* library it uses (contracts/evm/src/base/utils/RollupOperators.sol).     *)
(*                                                                         *)
(* A transaction that verifies an agreement or updates the operator set is *)
(* executed in steps, one per iteration of its loops: `tx' is the          *)
(* transaction under way and what it would write, and no other transaction *)
(* runs before it commits or reverts.  A group element is the integer      *)
(* combination of public keys it is made of, so one function stands for    *)
(* apkG2 and for the signers of sigma; the pairing check compares it with  *)
(* the key the contract computed.  Public keys are numbered by hash.       *)
(***************************************************************************)
EXTENDS Integers, Sequences

CONSTANTS
  Pubkeys,          \* hashes of public keys, as numbers
  Weights,          \* weights that messages carry, and zero
  WeightOf(_, _),   \* WeightOf(w, S): the sum of the weights w of S
  MaxUint128,       \* largest uint128
  Deltas,           \* operator lists of messages
  Agreements,       \* SignatureInfo: non-signers and signers
  Thresholds,       \* quorum thresholds the owner sets
  Heights, Roots,   \* of state root updates
  MaxId,            \* bound: largest operator set update id
  None

Points == [Pubkeys -> Int]

ASSUME RollupAssumption ==
  /\ Pubkeys \subseteq Nat
  /\ MaxUint128 \in Nat
  /\ Weights \subseteq 0..MaxUint128 /\ 0 \in Weights
  /\ Deltas \subseteq Seq([pubkey : Pubkeys, weight : Weights])
  /\ Agreements \subseteq [nonSigners : Seq(Pubkeys), sig : Points]
  /\ Thresholds \subseteq 0..100
  /\ MaxId \in Nat
  /\ None \notin Roots

\* WeightOf is a sum.
ASSUME WeightAssumption ==
  \A w \in [Pubkeys -> Weights] :
    /\ \A S \in SUBSET Pubkeys : (\A p \in S : w[p] = 0) => WeightOf(w, S) = 0
    /\ \A p \in Pubkeys : WeightOf(w, {p}) = w[p]
    /\ \A S \in SUBSET Pubkeys : WeightOf(w, S) \in Nat
    /\ \A S, T \in SUBSET Pubkeys :
         S \cap T = {} => WeightOf(w, S \cup T) = WeightOf(w, S) + WeightOf(w, T)
    /\ \A v \in [Pubkeys -> Weights], S \in SUBSET Pubkeys :
         (\A p \in S : v[p] = w[p]) => WeightOf(v, S) = WeightOf(w, S)

VARIABLES
  weights,              \* pubkeyHashToWeight
  totalWeight,
  apk,
  quorumThreshold,
  nextOperatorUpdateId,
  paused,               \* the functions that are paused
  stateRoots,           \* _stateRootBuffers
  tx,                   \* the transaction under way
  accepted              \* history: the agreement the last transaction relied on

vars == <<weights, totalWeight, apk, quorumThreshold, nextOperatorUpdateId, paused,
          stateRoots, tx, accepted>>
setVars == <<weights, totalWeight, apk, nextOperatorUpdateId>>

NoWeights == [p \in Pubkeys |-> 0]
Zero == [p \in Pubkeys |-> 0]
Pausable == {"updateOperatorSet", "updateStateRoot"}
NoAgreement == [nonSigners |-> <<>>, sig |-> Zero]

\* One transaction: i is the loop index; weight and nonSignersApk belong to
\* verifyCalldata; weights, newTotalWeight and newApk to update.
Txs ==
  [kind : {"set", "root"}, stage : {"verify", "update"}, i : Nat,
   delta : Deltas \cup {<<>>}, next : Nat, agreement : Agreements \cup {NoAgreement},
   height : Heights \cup {None}, root : Roots \cup {None},
   weight : Nat, nonSignersApk : Points, weights : [Pubkeys -> Weights],
   newTotalWeight : 0..MaxUint128, newApk : Points]

Init ==
  /\ weights = NoWeights
  /\ totalWeight = 0
  /\ apk = Zero
  /\ quorumThreshold \in Thresholds
  /\ nextOperatorUpdateId = 0
  /\ paused = {}
  /\ stateRoots = [h \in Heights |-> None]
  /\ tx = None
  /\ accepted = None

-----------------------------------------------------------------------------
(* Transactions start. *)

Begin(kind, stage, delta, next, agreement, height, root) ==
  /\ tx' = [kind |-> kind, stage |-> stage, i |-> 1, delta |-> delta, next |-> next,
            agreement |-> agreement, height |-> height, root |-> root,
            weight |-> totalWeight, nonSignersApk |-> Zero,
            weights |-> weights, newTotalWeight |-> totalWeight, newApk |-> apk]
  /\ accepted' = None
  /\ UNCHANGED <<setVars, quorumThreshold, paused, stateRoots>>

\* Mutant: nothing keeps the set from being initialized again.
SetInitialOperatorSetAnytime(delta, id) ==
  Begin("set", "update", delta, id, NoAgreement, None, None)

\* The aggregator may set the operator set whenever its total weight is zero.
SetInitialOperatorSet(delta, id) ==
  /\ totalWeight = 0
  /\ Begin("set", "update", delta, id, NoAgreement, None, None)

\* verifyCalldata first requires a set with weight.
UpdateOperatorSet(id, delta, agreement) ==
  /\ "updateOperatorSet" \notin paused
  /\ id = nextOperatorUpdateId
  /\ totalWeight # 0
  /\ Begin("set", "verify", delta, id + 1, agreement, None, None)

ForceOperatorSetUpdate(id, delta) ==
  /\ id = nextOperatorUpdateId
  /\ Begin("set", "update", delta, id + 1, NoAgreement, None, None)

\* updateStateRoot; updateAndGetStorageValue takes the same way when it finds no
\* stored root, and changes nothing when it finds one.
UpdateStateRoot(height, root, agreement) ==
  /\ "updateStateRoot" \notin paused
  /\ totalWeight # 0
  /\ Begin("root", "verify", <<>>, 0, agreement, height, root)

-----------------------------------------------------------------------------
(* RollupOperators.verifyCalldata *)

Plus(P, Q) == [p \in Pubkeys |-> P[p] + Q[p]]
Minus(P, Q) == [p \in Pubkeys |-> P[p] - Q[p]]
Point(p) == [q \in Pubkeys |-> IF q = p THEN 1 ELSE 0]

Revert ==
  /\ tx' = None
  /\ accepted' = None
  /\ UNCHANGED <<setVars, stateRoots>>

\* The requirements on non-signer i; the checked subtraction is one of them.
NonSignerOk(i) ==
  LET ns == tx.agreement.nonSigners IN
  /\ i > 1 => ns[i] > ns[i - 1]
  /\ weights[ns[i]] # 0
  /\ weights[ns[i]] <= tx.weight

VerifyNonSigner ==
  LET p == tx.agreement.nonSigners[tx.i] IN
  /\ tx # None /\ tx.stage = "verify"
  /\ tx.i <= Len(tx.agreement.nonSigners)
  /\ IF NonSignerOk(tx.i)
     THEN /\ tx' = [tx EXCEPT !.i = @ + 1, !.weight = @ - weights[p],
                              !.nonSignersApk = Plus(@, Point(p))]
          /\ UNCHANGED <<setVars, stateRoots, accepted>>
     ELSE Revert
  /\ UNCHANGED <<quorumThreshold, paused>>

\* Mutant: the quorum check uses the weight of the set instead of the signers'.
AgreementOkTotalWeight ==
  /\ tx.agreement.sig = Minus(apk, tx.nonSignersApk)
  /\ totalWeight * quorumThreshold <= MaxUint128
  /\ totalWeight >= (totalWeight * quorumThreshold) \div 100

\* The pairing check and the quorum check; the product is a checked uint128.
AgreementOk ==
  /\ tx.agreement.sig = Minus(apk, tx.nonSignersApk)
  /\ totalWeight * quorumThreshold <= MaxUint128
  /\ tx.weight >= (totalWeight * quorumThreshold) \div 100

AcceptedAgreement ==
  [sig |-> tx.agreement.sig, weights |-> weights, threshold |-> quorumThreshold]

\* The end of verifyCalldata: a state root is stored, an operator set update
\* goes on to update.
VerifyDone ==
  /\ tx # None /\ tx.stage = "verify"
  /\ tx.i > Len(tx.agreement.nonSigners)
  /\ \/ /\ AgreementOk /\ tx.kind = "root"
        /\ stateRoots' = [stateRoots EXCEPT ![tx.height] = tx.root]
        /\ tx' = None
        /\ accepted' = AcceptedAgreement
        /\ UNCHANGED setVars
     \/ /\ AgreementOk /\ tx.kind = "set"
        /\ tx' = [tx EXCEPT !.stage = "update", !.i = 1]
        /\ accepted' = AcceptedAgreement
        /\ UNCHANGED <<setVars, stateRoots>>
     \/ ~AgreementOk /\ Revert
  /\ UNCHANGED <<quorumThreshold, paused>>

-----------------------------------------------------------------------------
(* RollupOperators.update *)

\* Mutant: an operator whose weight changes is added to the key again.
ApkAfterAlways(p, current, weight) ==
  IF weight = 0 THEN Minus(tx.newApk, Point(p)) ELSE Plus(tx.newApk, Point(p))

ApkAfter(p, current, weight) ==
  IF current = 0 THEN Plus(tx.newApk, Point(p))
  ELSE IF weight = 0 THEN Minus(tx.newApk, Point(p))
  ELSE tx.newApk

\* Mutant: an operator whose weight changes is handled like one that leaves.
TotalAfterLeaving(current, weight) ==
  IF current = 0 THEN tx.newTotalWeight + weight ELSE tx.newTotalWeight - current

TotalAfter(current, weight) == tx.newTotalWeight - current + weight

\* "Operator is up to date", and the checked subtraction and addition.
EntryOk(entry, current) ==
  /\ entry.weight # current
  /\ current <= tx.newTotalWeight
  /\ TotalAfter(current, entry.weight) <= MaxUint128

UpdateEntry ==
  LET entry == tx.delta[tx.i]
      current == tx.weights[entry.pubkey] IN
  /\ tx # None /\ tx.stage = "update"
  /\ tx.i <= Len(tx.delta)
  /\ IF EntryOk(entry, current)
     THEN /\ tx' = [tx EXCEPT !.i = @ + 1,
                              !.newTotalWeight = TotalAfter(current, entry.weight),
                              !.weights[entry.pubkey] = entry.weight,
                              !.newApk = ApkAfter(entry.pubkey, current, entry.weight)]
          /\ UNCHANGED <<setVars, stateRoots, accepted>>
     ELSE Revert
  /\ UNCHANGED <<quorumThreshold, paused>>

\* The end of the transaction.
CommitUpdate ==
  /\ tx # None /\ tx.stage = "update"
  /\ tx.i > Len(tx.delta)
  /\ weights' = tx.weights
  /\ totalWeight' = tx.newTotalWeight
  /\ apk' = tx.newApk
  /\ nextOperatorUpdateId' = tx.next
  /\ tx' = None
  /\ UNCHANGED <<quorumThreshold, paused, stateRoots, accepted>>

-----------------------------------------------------------------------------
(* Owner and pauser *)

SetQuorumThreshold(threshold) ==
  /\ quorumThreshold' = threshold
  /\ accepted' = None
  /\ UNCHANGED <<setVars, paused, stateRoots, tx>>

SetPaused(functions) ==
  /\ paused' = functions
  /\ accepted' = None
  /\ UNCHANGED <<setVars, quorumThreshold, stateRoots, tx>>

\* A transaction arrives; one that fails its first requirements changes nothing.
Transaction ==
  /\ tx = None
  /\ \/ \E delta \in Deltas, id \in 0..MaxId :
          \/ SetInitialOperatorSet(delta, id)
          \/ id < MaxId /\ ForceOperatorSetUpdate(id, delta)
          \/ \E agreement \in Agreements :
               id < MaxId /\ UpdateOperatorSet(id, delta, agreement)
     \/ \E h \in Heights, r \in Roots, agreement \in Agreements :
          UpdateStateRoot(h, r, agreement)
     \/ \E t \in Thresholds : SetQuorumThreshold(t)
     \/ \E f \in SUBSET Pausable : SetPaused(f)

Next ==
  \/ Transaction
  \/ VerifyNonSigner
  \/ VerifyDone
  \/ UpdateEntry
  \/ CommitUpdate

Spec == Init /\ [][Next]_vars

-----------------------------------------------------------------------------
(* Properties *)

\* Every variable stays in its domain; the total weight fits its uint128.
TypeOK ==
  /\ weights \in [Pubkeys -> Weights]
  /\ totalWeight \in 0..MaxUint128
  /\ apk \in Points
  /\ quorumThreshold \in Thresholds
  /\ nextOperatorUpdateId \in Nat
  /\ paused \subseteq Pausable
  /\ stateRoots \in [Heights -> Roots \cup {None}]
  /\ tx \in Txs \cup {None}
  /\ accepted \in {None} \cup
       [sig : Points, weights : [Pubkeys -> Weights], threshold : Thresholds]

\* The key of the operators that have weight.
Support(w) == [p \in Pubkeys |-> IF w[p] # 0 THEN 1 ELSE 0]

\* Total weight w, key k and the weights of the operators agree.
Consistent(ws, total, key) ==
  total = WeightOf(ws, Pubkeys) /\ key = Support(ws)

\* After every transaction the stored total weight is the sum of the operators'
\* weights and the stored key the sum of the keys with weight, although update
\* maintains both incrementally, entry by entry, also for a list that names an
\* operator twice.
OperatorSetConsistent == Consistent(weights, totalWeight, apk)

\* An accepted agreement is worth its quorum: the signature is made of exactly
\* one signature of each of a set of operators with weight, and they hold the
\* threshold of the whole weight, rounded down (verifyCalldata never counts
\* signers: it subtracts whom the caller names as non-signers).
AgreementHasQuorum ==
  accepted # None =>
    LET signers == {p \in Pubkeys : accepted.sig[p] # 0} IN
    /\ \A p \in signers : accepted.sig[p] = 1 /\ accepted.weights[p] # 0
    /\ WeightOf(accepted.weights, signers) * 100 + 99 >=
         WeightOf(accepted.weights, Pubkeys) * accepted.threshold

\* The checked subtractions never revert an otherwise valid call: whatever is
\* subtracted is part of what it is subtracted from.
NeverUnderflows ==
  tx # None =>
    /\ tx.stage = "update" /\ tx.i <= Len(tx.delta) =>
         tx.weights[tx.delta[tx.i].pubkey] <= tx.newTotalWeight
    /\ LET ns == tx.agreement.nonSigners IN
       tx.stage = "verify" /\ tx.i <= Len(ns) /\ (tx.i > 1 => ns[tx.i] > ns[tx.i - 1])
         => weights[ns[tx.i]] <= tx.weight

Copy == INSTANCE OperatorSetCopy

\* The contract implements OperatorSetCopy: updates are applied whole or not at
\* all, last write wins, each moves the id by one, and the set is initialized
\* only while it has no operators.
ImplementsCopy == Copy!CopySpec

-----------------------------------------------------------------------------
(* The inductive invariant behind the properties. *)

\* Loop invariant of verifyCalldata: the non-signers passed so far are distinct
\* operators with weight, and weight and key are those of all the others.
VerifyInv ==
  LET ns == tx.agreement.nonSigners
      passed == {ns[j] : j \in 1..(tx.i - 1)} IN
  /\ tx.agreement \in Agreements
  /\ tx.i \in 1..(Len(ns) + 1)
  /\ \A j \in 1..(tx.i - 1) : ns[j] <= ns[tx.i - 1] /\ weights[ns[j]] # 0
  /\ tx.weight = WeightOf(weights, Pubkeys \ passed)
  /\ tx.nonSignersApk = [p \in Pubkeys |-> IF p \in passed THEN 1 ELSE 0]
  /\ tx.weights = weights /\ tx.newTotalWeight = totalWeight /\ tx.newApk = apk

\* Loop invariant of update: what would be written now is a consistent set, the
\* stored one overwritten by the entries so far.
UpdateInv ==
  /\ tx.i \in 1..(Len(tx.delta) + 1)
  /\ Consistent(tx.weights, tx.newTotalWeight, tx.newApk)
  /\ tx.weights = Copy!Overwritten(weights, tx.delta, tx.i - 1)

TxInv ==
  tx # None =>
    /\ tx.stage = "verify" => VerifyInv
    /\ tx.stage = "update" => UpdateInv /\ tx.kind = "set"
    /\ tx.kind = "set" =>
         /\ tx.delta \in Deltas
         /\ tx.next = nextOperatorUpdateId + 1 \/ (weights = NoWeights /\ tx.stage = "update")
    /\ tx.kind = "root" => tx.height \in Heights /\ tx.root \in Roots

Inv == TypeOK /\ OperatorSetConsistent /\ AgreementHasQuorum /\ TxInv
====
