---------------------- MODULE SFFLRegistryRollup_proofs ----------------------
(***************************************************************************)
(* Proofs about SFFLRegistryRollup: the operator set stays consistent,     *)
(* accepted agreements have their quorum, checked subtractions never       *)
(* underflow, and the contract implements OperatorSetCopy.                 *)
(***************************************************************************)
EXTENDS SFFLRegistryRollup, TLAPS

WeightMaps == [Pubkeys -> Weights]

-----------------------------------------------------------------------------
(* What is assumed of weights, messages and agreements, in pieces *)

\* Weights are uint128 values.
LEMMA WeightRange ==
  /\ MaxUint128 \in Nat
  /\ \A v \in Weights : v \in Nat /\ v <= MaxUint128
  /\ 0 \in Weights
<1>1. MaxUint128 \in Nat /\ Weights \subseteq 0..MaxUint128 /\ 0 \in Weights
  BY RollupAssumption, Zenon
<1> QED BY <1>1

\* The elements of a sequence.
LEMMA Elements ==
  ASSUME NEW S, NEW s \in Seq(S)
  PROVE  Len(s) \in Nat /\ \A i \in 1..Len(s) : s[i] \in S
OBVIOUS

\* An operator list holds public keys and weights.
LEMMA DeltaEntries ==
  ASSUME NEW delta \in Deltas
  PROVE  /\ Len(delta) \in Nat
         /\ \A i \in 1..Len(delta) :
              delta[i].pubkey \in Pubkeys /\ delta[i].weight \in Weights
<1>1. delta \in Seq([pubkey : Pubkeys, weight : Weights])
  BY RollupAssumption, Zenon
<1>2. Len(delta) \in Nat /\ \A i \in 1..Len(delta) : delta[i] \in [pubkey : Pubkeys, weight : Weights]
  BY <1>1, Elements, Zenon
<1> QED BY <1>2

\* An agreement names public keys and carries a point.
LEMMA AgreementParts ==
  ASSUME NEW a \in Agreements
  PROVE  /\ Len(a.nonSigners) \in Nat
         /\ \A i \in 1..Len(a.nonSigners) : a.nonSigners[i] \in Pubkeys
         /\ a.sig \in Points
<1>1. a \in [nonSigners : Seq(Pubkeys), sig : Points]
  BY RollupAssumption, Zenon
<1> QED BY <1>1

\* Public keys are numbered.
LEMMA PubkeysAreNumbers == Pubkeys \subseteq Nat
BY RollupAssumption, Zenon

-----------------------------------------------------------------------------
(* Sums of weights *)

\* The total weight splits into an operator's weight and the rest.
LEMMA WeightSplit ==
  ASSUME NEW w \in WeightMaps, NEW S \in SUBSET Pubkeys, NEW p \in S
  PROVE  /\ WeightOf(w, S) = WeightOf(w, S \ {p}) + w[p]
         /\ WeightOf(w, S) \in Nat /\ WeightOf(w, S \ {p}) \in Nat
         /\ w[p] \in Nat /\ w[p] <= WeightOf(w, S)
<1>1. (S \ {p}) \cup {p} = S /\ (S \ {p}) \cap {p} = {}
  OBVIOUS
<1>2. S \ {p} \in SUBSET Pubkeys /\ {p} \in SUBSET Pubkeys /\ p \in Pubkeys
  OBVIOUS
<1>3. WeightOf(w, (S \ {p}) \cup {p}) = WeightOf(w, S \ {p}) + WeightOf(w, {p})
  BY <1>1, <1>2, WeightAssumption, ZenonT(30) DEF WeightMaps
<1>4. WeightOf(w, {p}) = w[p]
  BY <1>2, WeightAssumption DEF WeightMaps
<1>5. WeightOf(w, S) \in Nat /\ WeightOf(w, S \ {p}) \in Nat
  BY <1>2, WeightAssumption DEF WeightMaps
<1>6. w[p] \in Nat
  BY <1>2, WeightRange DEF WeightMaps
<1>7. WeightOf(w, S) = WeightOf(w, S \ {p}) + w[p]
  BY <1>1, <1>3, <1>4, Zenon
<1> QED BY <1>5, <1>6, <1>7

\* Overwriting one operator's weight changes the total by the difference.
LEMMA WeightOverwrite ==
  ASSUME NEW w \in WeightMaps, NEW p \in Pubkeys, NEW v \in Weights
  PROVE  WeightOf([w EXCEPT ![p] = v], Pubkeys) = WeightOf(w, Pubkeys) - w[p] + v
<1> DEFINE u == [w EXCEPT ![p] = v]
           R == Pubkeys \ {p}
<1>1. u \in WeightMaps /\ u[p] = v
  BY DEF WeightMaps
<1>2. \A q \in R : u[q] = w[q]
  BY DEF WeightMaps
<1> HIDE DEF u, R
<1>3. WeightOf(u, R) = WeightOf(w, R)
  <2>1. u \in [Pubkeys -> Weights] /\ w \in [Pubkeys -> Weights] /\ R \in SUBSET Pubkeys
    BY <1>1 DEF WeightMaps, R
  <2> QED BY <2>1, <1>2, WeightAssumption, Zenon
<1>4. /\ WeightOf(u, Pubkeys) = WeightOf(u, R) + u[p]
      /\ WeightOf(u, Pubkeys) \in Nat /\ WeightOf(u, R) \in Nat
  BY <1>1, WeightSplit DEF R
<1>5. /\ WeightOf(w, Pubkeys) = WeightOf(w, R) + w[p]
      /\ WeightOf(w, Pubkeys) \in Nat /\ WeightOf(w, R) \in Nat /\ w[p] \in Nat
  BY WeightSplit DEF R
<1>6. v \in Nat
  BY WeightRange
<1>7. WeightOf(u, Pubkeys) = WeightOf(w, Pubkeys) - w[p] + v
  BY <1>1, <1>3, <1>4, <1>5, <1>6
<1> QED BY <1>7 DEF u

\* Operators without weight do not count.
LEMMA WeightOfSupport ==
  ASSUME NEW w \in WeightMaps, NEW S \in SUBSET Pubkeys
  PROVE  WeightOf(w, {p \in S : w[p] # 0}) = WeightOf(w, S)
<1> DEFINE P == {p \in S : w[p] # 0}
           Z == {p \in S : w[p] = 0}
<1>1. P \cup Z = S /\ P \cap Z = {} /\ P \in SUBSET Pubkeys /\ Z \in SUBSET Pubkeys
  OBVIOUS
<1>2. WeightOf(w, Z) = 0
  <2>1. \A p \in Z : w[p] = 0
    OBVIOUS
  <2> QED BY <1>1, <2>1, WeightAssumption, Zenon DEF WeightMaps
<1> HIDE DEF P, Z
<1>3. WeightOf(w, P \cup Z) = WeightOf(w, P) + WeightOf(w, Z)
  BY <1>1, WeightAssumption, Zenon DEF WeightMaps
<1>4. WeightOf(w, P) \in Nat
  BY <1>1, WeightAssumption DEF WeightMaps
<1>5. WeightOf(w, S) = WeightOf(w, P) + 0
  BY <1>1, <1>2, <1>3, Zenon
<1> QED BY <1>4, <1>5 DEF P

-----------------------------------------------------------------------------
(* Overwriting *)

\* Nothing is written yet.
LEMMA OverwrittenNone ==
  ASSUME NEW w \in WeightMaps, NEW delta \in Deltas \cup {<<>>}
  PROVE  Copy!Overwritten(w, delta, 0) = w
BY DEF Copy!Overwritten, WeightMaps

\* One more entry is written.
LEMMA OverwrittenNext ==
  ASSUME NEW w \in WeightMaps, NEW delta \in Deltas, NEW i \in 1..Len(delta)
  PROVE  Copy!Overwritten(w, delta, i) =
           [Copy!Overwritten(w, delta, i - 1) EXCEPT ![delta[i].pubkey] = delta[i].weight]
<1> DEFINE writes(n, p) == {j \in 1..n : delta[j].pubkey = p}
           lastOf(n, p) == CHOOSE j \in writes(n, p) : \A k \in writes(n, p) : k <= j
<1>1. i \in Nat /\ i >= 1 /\ i - 1 \in Nat
  BY DeltaEntries
<1>2. PICK q \in Pubkeys : q = delta[i].pubkey
  BY DeltaEntries
<1>3. \A p \in Pubkeys : p # q => writes(i, p) = writes(i - 1, p)
  BY <1>1, <1>2
<1>4. writes(i, q) # {} /\ lastOf(i, q) = i
  <2>1. i \in writes(i, q) /\ \A k \in writes(i, q) : k <= i
    BY <1>1, <1>2
  <2>2. \A j \in writes(i, q) : (\A k \in writes(i, q) : k <= j) => j = i
    BY <1>1, <2>1
  <2>3. lastOf(i, q) \in writes(i, q) /\ \A k \in writes(i, q) : k <= lastOf(i, q)
    BY <2>1, Zenon
  <2> QED BY <2>1, <2>2, <2>3, Zenon
<1>5. \A n \in Nat, p \in Pubkeys :
        Copy!Overwritten(w, delta, n)[p] =
          IF writes(n, p) = {} THEN w[p] ELSE delta[lastOf(n, p)].weight
  BY DEF Copy!Overwritten
<1>6. \A n : Copy!Overwritten(w, delta, n) = [p \in Pubkeys |-> Copy!Overwritten(w, delta, n)[p]]
  BY DEF Copy!Overwritten
<1> HIDE DEF writes
<1>10. \A p \in Pubkeys : p # q => lastOf(i, p) = lastOf(i - 1, p)
  BY <1>3, Zenon
<1> HIDE DEF lastOf
<1>7. Copy!Overwritten(w, delta, i)[q] = delta[i].weight
  BY <1>1, <1>4, <1>5, SMT
<1>8. \A p \in Pubkeys :
        p # q => Copy!Overwritten(w, delta, i)[p] = Copy!Overwritten(w, delta, i - 1)[p]
  <2> SUFFICES ASSUME NEW p \in Pubkeys, p # q
               PROVE  Copy!Overwritten(w, delta, i)[p] = Copy!Overwritten(w, delta, i - 1)[p]
    OBVIOUS
  <2>1. writes(i, p) = writes(i - 1, p) /\ lastOf(i, p) = lastOf(i - 1, p)
    BY <1>3, <1>10
  <2>2. Copy!Overwritten(w, delta, i)[p] =
          IF writes(i, p) = {} THEN w[p] ELSE delta[lastOf(i, p)].weight
    BY <1>1, <1>5
  <2>3. Copy!Overwritten(w, delta, i - 1)[p] =
          IF writes(i - 1, p) = {} THEN w[p] ELSE delta[lastOf(i - 1, p)].weight
    BY <1>1, <1>5
  <2> QED BY <2>1, <2>2, <2>3, SMT
<1> QED BY <1>2, <1>6, <1>7, <1>8

-----------------------------------------------------------------------------
(* The invariant *)

\* The fields of a transaction under way.
LEMMA TxFields ==
  ASSUME TypeOK, tx # None
  PROVE  /\ tx \in Txs
         /\ tx.kind \in {"set", "root"} /\ tx.stage \in {"verify", "update"}
         /\ tx.i \in Nat /\ tx.next \in Nat
         /\ tx.weight \in Nat /\ tx.nonSignersApk \in Points
         /\ tx.weights \in WeightMaps
         /\ tx.newTotalWeight \in 0..MaxUint128 /\ tx.newApk \in Points
BY DEF TypeOK, Txs, WeightMaps

\* A set without total weight has no operators.
LEMMA EmptySet ==
  ASSUME TypeOK, OperatorSetConsistent, totalWeight = 0
  PROVE  weights = NoWeights
<1>1. weights \in WeightMaps
  BY DEF TypeOK, WeightMaps
<1>2. \A p \in Pubkeys : weights[p] \in Nat /\ weights[p] <= 0
  BY <1>1, WeightSplit DEF OperatorSetConsistent, Consistent
<1> QED BY <1>1, <1>2 DEF NoWeights, WeightMaps

\* The deployed contract satisfies the invariant.
LEMMA InvInit == Init => Inv
<1> SUFFICES ASSUME Init PROVE Inv
  OBVIOUS
<1>1. NoWeights \in WeightMaps /\ \A p \in Pubkeys : NoWeights[p] = 0
  BY WeightRange DEF NoWeights, WeightMaps
<1>2. WeightOf(NoWeights, Pubkeys) = 0
  <2>1. NoWeights \in [Pubkeys -> Weights] /\ Pubkeys \in SUBSET Pubkeys
    BY <1>1 DEF WeightMaps
  <2> QED BY <2>1, <1>1, WeightAssumption, Zenon
<1>3. TypeOK
  BY <1>1, WeightRange DEF Init, TypeOK, WeightMaps, Points, Zero, Pausable
<1>4. OperatorSetConsistent
  BY <1>1, <1>2 DEF Init, OperatorSetConsistent, Consistent, Support, Zero
<1>5. AgreementHasQuorum /\ TxInv
  BY DEF Init, AgreementHasQuorum, TxInv
<1> QED BY <1>3, <1>4, <1>5 DEF Inv

\* What Begin leaves: nothing accepted, the set as it was, the loops at their start.
LEMMA BeginInv ==
  ASSUME Inv, NEW kind \in {"set", "root"}, NEW stage \in {"verify", "update"},
         NEW delta \in Deltas \cup {<<>>}, NEW next \in Nat,
         NEW agreement \in Agreements \cup {NoAgreement},
         NEW height \in Heights \cup {None}, NEW root \in Roots \cup {None},
         Begin(kind, stage, delta, next, agreement, height, root),
         stage = "verify" => agreement \in Agreements,
         stage = "update" => kind = "set",
         kind = "set" => /\ delta \in Deltas
                         /\ \/ next = nextOperatorUpdateId + 1
                            \/ weights = NoWeights /\ stage = "update",
         kind = "root" => height \in Heights /\ root \in Roots
  PROVE  Inv'
<1> USE DEF Inv
<1>1. weights \in WeightMaps /\ totalWeight \in 0..MaxUint128 /\ apk \in Points
  BY DEF TypeOK, WeightMaps
<1>2. Zero \in Points
  BY DEF Zero, Points
<1>3. totalWeight \in Nat
  BY <1>1, WeightRange
<1>4. tx' \in Txs
  BY <1>1, <1>2, <1>3 DEF Begin, Txs, WeightMaps
<1>5. TypeOK'
  BY <1>4 DEF Begin, TypeOK, setVars
<1>6. OperatorSetConsistent' /\ AgreementHasQuorum'
  BY DEF Begin, OperatorSetConsistent, AgreementHasQuorum, setVars, Consistent, Support
<1>7. stage = "verify" => VerifyInv'
  <2> SUFFICES ASSUME stage = "verify" PROVE VerifyInv'
    OBVIOUS
  <2>1. /\ tx'.agreement = agreement /\ tx'.i = 1 /\ tx'.weight = totalWeight
        /\ tx'.nonSignersApk = Zero /\ tx'.weights = weights
        /\ tx'.newTotalWeight = totalWeight /\ tx'.newApk = apk
        /\ weights' = weights /\ totalWeight' = totalWeight /\ apk' = apk
    BY DEF Begin, setVars
  <2>2. agreement \in Agreements /\ Len(agreement.nonSigners) \in Nat
    BY AgreementParts
  <2>3. {agreement.nonSigners[j] : j \in 1..(1 - 1)} = {}
    OBVIOUS
  <2>4. totalWeight = WeightOf(weights, Pubkeys)
    BY DEF OperatorSetConsistent, Consistent
  <2>5. Pubkeys \ {} = Pubkeys
    OBVIOUS
  <2>6. totalWeight = WeightOf(weights, Pubkeys \ {agreement.nonSigners[j] : j \in 1..(1 - 1)})
    BY <2>3, <2>4, <2>5, Zenon
  <2>7. Zero = [p \in Pubkeys |->
                  IF p \in {agreement.nonSigners[j] : j \in 1..(1 - 1)} THEN 1 ELSE 0]
    BY <2>3 DEF Zero
  <2>8. \A j \in 1..(1 - 1) : FALSE
    OBVIOUS
  <2> QED BY <2>1, <2>2, <2>6, <2>7, <2>8 DEF VerifyInv
<1>8. stage = "update" => UpdateInv'
  <2> SUFFICES ASSUME stage = "update" PROVE UpdateInv'
    OBVIOUS
  <2>1. /\ tx'.delta = delta /\ tx'.i = 1 /\ tx'.weights = weights
        /\ tx'.newTotalWeight = totalWeight /\ tx'.newApk = apk /\ weights' = weights
    BY DEF Begin, setVars
  <2>2. delta \in Deltas /\ Len(delta) \in Nat
    BY DeltaEntries
  <2>3. weights = Copy!Overwritten(weights, delta, 0)
    BY <1>1, <2>2, OverwrittenNone
  <2> QED BY <2>1, <2>2, <2>3 DEF UpdateInv, OperatorSetConsistent
<1>9. TxInv'
  BY <1>7, <1>8 DEF TxInv, Begin, setVars
<1> QED BY <1>5, <1>6, <1>9

\* Transactions that start.
LEMMA TransactionInv == Inv /\ Transaction => Inv'
<1> SUFFICES ASSUME Inv, Transaction PROVE Inv'
  OBVIOUS
<1> USE DEF Inv
<1>0. nextOperatorUpdateId \in Nat /\ MaxId \in Nat
  BY RollupAssumption, Zenon DEF TypeOK
<1>1. ASSUME NEW delta \in Deltas, NEW id \in 0..MaxId, SetInitialOperatorSet(delta, id)
      PROVE  Inv'
  <2>1. weights = NoWeights
    BY <1>1, EmptySet DEF SetInitialOperatorSet
  <2>2. /\ "set" \in {"set", "root"} /\ "update" \in {"verify", "update"}
        /\ "set" # "root" /\ "update" # "verify" /\ id \in Nat
        /\ delta \in Deltas \cup {<<>>} /\ NoAgreement \in Agreements \cup {NoAgreement}
        /\ None \in Heights \cup {None} /\ None \in Roots \cup {None}
    BY <1>0
  <2>3. Begin("set", "update", delta, id, NoAgreement, None, None)
    BY <1>1 DEF SetInitialOperatorSet
  <2> QED BY <1>1, <2>1, <2>2, <2>3, BeginInv, Zenon
<1>2. ASSUME NEW delta \in Deltas, NEW id \in 0..MaxId, ForceOperatorSetUpdate(id, delta)
      PROVE  Inv'
  <2>1. PICK n \in Nat : n = nextOperatorUpdateId + 1
    BY <1>0
  <2>2. Begin("set", "update", delta, n, NoAgreement, None, None)
    BY <1>2, <2>1 DEF ForceOperatorSetUpdate
  <2> QED BY <2>1, <2>2, BeginInv
<1>3. ASSUME NEW delta \in Deltas, NEW id \in 0..MaxId, NEW agreement \in Agreements,
             UpdateOperatorSet(id, delta, agreement)
      PROVE  Inv'
  BY <1>0, <1>3, BeginInv DEF UpdateOperatorSet
<1>4. ASSUME NEW h \in Heights, NEW r \in Roots, NEW agreement \in Agreements,
             UpdateStateRoot(h, r, agreement)
      PROVE  Inv'
  <2>1. "root" \in {"set", "root"} /\ "verify" \in {"verify", "update"} /\ "root" # "set"
        /\ "verify" # "update" /\ <<>> \in Deltas \cup {<<>>} /\ 0 \in Nat
    OBVIOUS
  <2>2. Begin("root", "verify", <<>>, 0, agreement, h, r)
    BY <1>4 DEF UpdateStateRoot
  <2> QED BY <2>1, <2>2, BeginInv, Zenon
<1>5. tx = None
  BY DEF Transaction
<1>6. ASSUME NEW t \in Thresholds, SetQuorumThreshold(t)
      PROVE  Inv'
  BY <1>5, <1>6 DEF SetQuorumThreshold, TypeOK, OperatorSetConsistent, Consistent,
                    Support, AgreementHasQuorum, TxInv, setVars
<1>7. ASSUME NEW f \in SUBSET Pausable, SetPaused(f)
      PROVE  Inv'
  BY <1>5, <1>7 DEF SetPaused, TypeOK, OperatorSetConsistent, Consistent, Support,
                    AgreementHasQuorum, TxInv, setVars
<1> QED BY <1>1, <1>2, <1>3, <1>4, <1>6, <1>7 DEF Transaction

\* A reverted transaction.
LEMMA RevertInv ==
  ASSUME Inv, Revert, UNCHANGED <<quorumThreshold, paused>>
  PROVE  Inv'
BY DEF Inv, Revert, TypeOK, OperatorSetConsistent, Consistent, Support,
       AgreementHasQuorum, TxInv, setVars

\* One non-signer more was passed.
LEMMA VerifyNonSignerInv == Inv /\ VerifyNonSigner => Inv'
<1> SUFFICES ASSUME Inv, VerifyNonSigner PROVE Inv'
  OBVIOUS
<1> USE DEF Inv
<1>1. CASE ~NonSignerOk(tx.i)
  BY <1>1, RevertInv DEF VerifyNonSigner
<1>2. CASE NonSignerOk(tx.i)
  <2>1. PICK a \in Agreements, i \in Nat : a = tx.agreement /\ i = tx.i /\ i >= 1
    BY TxFields DEF VerifyNonSigner, TxInv, VerifyInv
  <2>2. PICK ns : ns = a.nonSigners
    OBVIOUS
  <2>3. /\ Len(ns) \in Nat /\ i \in 1..Len(ns)
        /\ \A j \in 1..Len(ns) : ns[j] \in Pubkeys /\ ns[j] \in Nat
    BY <2>1, <2>2, AgreementParts, PubkeysAreNumbers DEF VerifyNonSigner
  <2>4. PICK p \in Pubkeys : p = ns[i]
    BY <2>3
  <2> DEFINE passed(n) == {ns[j] : j \in 1..(n - 1)}
  <2>5. /\ tx # None /\ tx.stage = "verify" /\ VerifyInv
        /\ tx.kind \in {"set", "root"} /\ tx.weight \in Nat /\ tx.nonSignersApk \in Points
        /\ tx \in Txs
    BY TxFields DEF VerifyNonSigner, TxInv
  <2>6. /\ \A j \in 1..(i - 1) : ns[j] <= ns[i - 1] /\ weights[ns[j]] # 0
        /\ tx.weight = WeightOf(weights, Pubkeys \ passed(i))
        /\ tx.nonSignersApk = [q \in Pubkeys |-> IF q \in passed(i) THEN 1 ELSE 0]
    BY <2>1, <2>2, <2>5 DEF VerifyInv
  <2>7. (i > 1 => p > ns[i - 1]) /\ weights[p] # 0 /\ weights[p] <= tx.weight
    BY <1>2, <2>1, <2>2, <2>4 DEF NonSignerOk
  <2>8. tx' = [tx EXCEPT !.i = i + 1, !.weight = tx.weight - weights[p],
                         !.nonSignersApk = Plus(tx.nonSignersApk, Point(p))]
    BY <1>2, <2>1, <2>2, <2>4 DEF VerifyNonSigner
  <2>9. \A j \in 1..(i - 1) : ns[j] < p /\ ns[j] # p
    BY <2>3, <2>4, <2>6, <2>7
  <2>10. p \notin passed(i) /\ passed(i + 1) = passed(i) \cup {p} /\ passed(i) \subseteq Pubkeys
    BY <2>3, <2>4, <2>9
  <2>11. weights \in WeightMaps
    BY DEF TypeOK, WeightMaps
  <2> HIDE DEF passed
  <2>12. WeightOf(weights, Pubkeys \ passed(i)) =
           WeightOf(weights, Pubkeys \ passed(i + 1)) + weights[p]
    <3>1. Pubkeys \ passed(i) \in SUBSET Pubkeys /\ p \in Pubkeys \ passed(i)
      BY <2>10
    <3>2. Pubkeys \ passed(i + 1) = (Pubkeys \ passed(i)) \ {p}
      BY <2>10
    <3>3. WeightOf(weights, Pubkeys \ passed(i)) =
            WeightOf(weights, (Pubkeys \ passed(i)) \ {p}) + weights[p]
      BY <2>11, <3>1, WeightSplit
    <3> QED BY <3>2, <3>3, Zenon
  <2>13. WeightOf(weights, Pubkeys \ passed(i + 1)) \in Nat /\ weights[p] \in Nat
    <3>1. weights \in [Pubkeys -> Weights] /\ Pubkeys \ passed(i + 1) \in SUBSET Pubkeys
      BY <2>11 DEF WeightMaps
    <3>2. WeightOf(weights, Pubkeys \ passed(i + 1)) \in Nat
      BY <3>1, WeightAssumption, Zenon
    <3> QED BY <3>1, <3>2, WeightRange
  <2>14. tx.weight - weights[p] = WeightOf(weights, Pubkeys \ passed(i + 1))
    BY <2>6, <2>12, <2>13
  <2>15. Plus(tx.nonSignersApk, Point(p)) =
           [q \in Pubkeys |-> IF q \in passed(i + 1) THEN 1 ELSE 0]
    BY <2>6, <2>10 DEF Plus, Point
  <2>16. Plus(tx.nonSignersApk, Point(p)) \in Points
    BY <2>5 DEF Plus, Point, Points
  <2>17. tx' \in Txs
    <3>1. i + 1 \in Nat /\ tx.weight - weights[p] \in Nat
      BY <2>13, <2>14
    <3>2. PICK n \in Nat, v \in Nat, P \in Points :
            tx' = [tx EXCEPT !.i = n, !.weight = v, !.nonSignersApk = P]
      BY <2>8, <2>16, <3>1
    <3> QED BY <2>5, <3>2 DEF Txs
  <2>18. UNCHANGED <<setVars, stateRoots, accepted, quorumThreshold, paused>>
    BY <1>2 DEF VerifyNonSigner
  <2>19. TypeOK' /\ OperatorSetConsistent' /\ AgreementHasQuorum'
    BY <2>17, <2>18 DEF TypeOK, OperatorSetConsistent, Consistent, Support,
                        AgreementHasQuorum, setVars
  <2>20. /\ tx'.agreement = a /\ tx'.i = i + 1 /\ tx'.stage = "verify"
         /\ tx'.weight = tx.weight - weights[p]
         /\ tx'.nonSignersApk = Plus(tx.nonSignersApk, Point(p))
         /\ tx'.weights = tx.weights /\ tx'.newTotalWeight = tx.newTotalWeight
         /\ tx'.newApk = tx.newApk /\ tx'.kind = tx.kind /\ tx'.delta = tx.delta
         /\ tx'.next = tx.next /\ tx'.height = tx.height /\ tx'.root = tx.root
    BY <2>1, <2>5, <2>8 DEF Txs
  <2>21. \A j \in 1..i : ns[j] <= ns[i] /\ weights[ns[j]] # 0
    BY <2>3, <2>4, <2>7, <2>9, <2>6
  <2>22. VerifyInv'
    <3>1. i + 1 \in 1..(Len(ns) + 1) /\ (i + 1) - 1 = i
      BY <2>3
    <3>2. /\ tx'.weight = WeightOf(weights, Pubkeys \ passed(i + 1))
          /\ tx'.nonSignersApk = [q \in Pubkeys |-> IF q \in passed(i + 1) THEN 1 ELSE 0]
      BY <2>14, <2>15, <2>20
    <3>3. tx'.weights = weights /\ tx'.newTotalWeight = totalWeight /\ tx'.newApk = apk
      BY <2>5, <2>20 DEF VerifyInv
    <3> QED BY <2>2, <2>18, <2>20, <2>21, <3>1, <3>2, <3>3 DEF VerifyInv, setVars, passed
  <2>23. TxInv'
    BY <2>5, <2>18, <2>20, <2>22 DEF TxInv, setVars
  <2> QED BY <2>19, <2>23
<1> QED BY <1>1, <1>2

\* The agreement is accepted, or the transaction reverts.
LEMMA VerifyDoneInv == Inv /\ VerifyDone => Inv'
<1> SUFFICES ASSUME Inv, VerifyDone PROVE Inv'
  OBVIOUS
<1> USE DEF Inv
<1>1. CASE ~AgreementOk
  BY <1>1, RevertInv DEF VerifyDone
<1>2. CASE AgreementOk
  <2>1. /\ tx # None /\ tx.stage = "verify" /\ VerifyInv /\ tx \in Txs
        /\ tx.kind \in {"set", "root"}
    BY TxFields DEF VerifyDone, TxInv
  <2>2. PICK a \in Agreements : a = tx.agreement
    BY <2>1 DEF VerifyInv
  <2>3. PICK N : N = {a.nonSigners[j] : j \in 1..(tx.i - 1)}
    OBVIOUS
  <2>4. /\ tx.weight = WeightOf(weights, Pubkeys \ N)
        /\ tx.nonSignersApk = [p \in Pubkeys |-> IF p \in N THEN 1 ELSE 0]
        /\ \A p \in N : weights[p] # 0
    BY <2>1, <2>2, <2>3 DEF VerifyInv
  <2>5. apk = Support(weights) /\ totalWeight = WeightOf(weights, Pubkeys)
    BY DEF OperatorSetConsistent, Consistent
  <2>6. \A p \in Pubkeys : a.sig[p] = IF weights[p] # 0 /\ p \notin N THEN 1 ELSE 0
    <3>1. a.sig = Minus(Support(weights), [p \in Pubkeys |-> IF p \in N THEN 1 ELSE 0])
      BY <1>2, <2>2, <2>4, <2>5, Zenon DEF AgreementOk
    <3>2. \A p \in Pubkeys : a.sig[p] =
            (IF weights[p] # 0 THEN 1 ELSE 0) - (IF p \in N THEN 1 ELSE 0)
      BY <3>1 DEF Minus, Support
    <3> SUFFICES ASSUME NEW p \in Pubkeys
                 PROVE  a.sig[p] = IF weights[p] # 0 /\ p \notin N THEN 1 ELSE 0
      OBVIOUS
    <3>3. CASE p \in N
      <4>1. a.sig[p] = 1 - 1
        BY <2>4, <3>2, <3>3
      <4> QED BY <3>3, <4>1
    <3>4. CASE p \notin N /\ weights[p] # 0
      <4>1. a.sig[p] = 1 - 0
        BY <3>2, <3>4
      <4> QED BY <3>4, <4>1
    <3>5. CASE p \notin N /\ weights[p] = 0
      <4>1. a.sig[p] = 0 - 0
        BY <3>2, <3>5
      <4> QED BY <3>5, <4>1
    <3> QED BY <3>3, <3>4, <3>5
  <2>7. weights \in WeightMaps
    BY DEF TypeOK, WeightMaps
  <2>8. PICK S \in SUBSET Pubkeys : S = {p \in Pubkeys : a.sig[p] # 0}
    OBVIOUS
  <2>9. S = {p \in Pubkeys \ N : weights[p] # 0}
    BY <2>6, <2>8
  <2>10. WeightOf(weights, S) = tx.weight
    <3>1. Pubkeys \ N \in SUBSET Pubkeys
      OBVIOUS
    <3>2. WeightOf(weights, {p \in Pubkeys \ N : weights[p] # 0}) = WeightOf(weights, Pubkeys \ N)
      BY <2>7, <3>1, WeightOfSupport
    <3> QED BY <2>4, <2>9, <3>2, Zenon
  <2>11. quorumThreshold \in Nat /\ totalWeight \in Nat /\ tx.weight \in Nat
    <3>1. Thresholds \subseteq 0..100
      BY RollupAssumption, Zenon
    <3> QED BY <3>1, <2>1, WeightRange, TxFields DEF TypeOK
  <2>12. tx.weight * 100 + 99 >= totalWeight * quorumThreshold
    <3>1. PICK n \in Nat : n = totalWeight * quorumThreshold
      BY <2>11
    <3>2. tx.weight >= n \div 100
      BY <1>2, <3>1 DEF AgreementOk
    <3>3. n <= 100 * (n \div 100) + 99
      BY <3>1
    <3> QED BY <2>11, <3>1, <3>2, <3>3
  <2>13. accepted' = [sig |-> a.sig, weights |-> weights, threshold |-> quorumThreshold]
    BY <1>2, <2>2 DEF VerifyDone, AcceptedAgreement
  <2>14. AgreementHasQuorum'
    <3>1. \A p \in S : a.sig[p] = 1 /\ weights[p] # 0
      BY <2>6, <2>8
    <3>2. WeightOf(weights, S) * 100 + 99 >= WeightOf(weights, Pubkeys) * quorumThreshold
      BY <2>5, <2>10, <2>12
    <3>3. /\ accepted'.sig = a.sig /\ accepted'.weights = weights
          /\ accepted'.threshold = quorumThreshold
      BY <2>13
    <3>4. {p \in Pubkeys : accepted'.sig[p] # 0} = S
      BY <2>8, <3>3
    <3> QED BY <3>1, <3>2, <3>3, <3>4, Zenon DEF AgreementHasQuorum
  <2>15. a.sig \in Points
    BY AgreementParts
  <2>16. accepted' \in [sig : Points, weights : [Pubkeys -> Weights], threshold : Thresholds]
    BY <2>7, <2>13, <2>15 DEF TypeOK, WeightMaps
  <2>17. UNCHANGED <<setVars, quorumThreshold, paused>>
    BY <1>2 DEF VerifyDone
  <2>18. OperatorSetConsistent'
    BY <2>17 DEF OperatorSetConsistent, Consistent, Support, setVars
  <2>19. CASE tx.kind = "root"
    <3>1. tx' = None /\ stateRoots' = [stateRoots EXCEPT ![tx.height] = tx.root]
      BY <1>2, <2>19 DEF VerifyDone
    <3>2. tx.root \in Roots
      BY <2>1, <2>19 DEF TxInv
    <3>3. TypeOK'
      BY <2>16, <2>17, <3>1, <3>2 DEF TypeOK, setVars
    <3>4. TxInv'
      BY <3>1 DEF TxInv
    <3> QED BY <2>14, <2>18, <3>3, <3>4
  <2>20. CASE tx.kind = "set"
    <3>1. tx' = [tx EXCEPT !.stage = "update", !.i = 1] /\ UNCHANGED stateRoots
      BY <1>2, <2>20 DEF VerifyDone
    <3>2. tx' \in Txs
      BY <2>1, <3>1 DEF Txs
    <3>3. TypeOK'
      BY <2>16, <2>17, <3>1, <3>2 DEF TypeOK, setVars
    <3>4. /\ tx'.stage = "update" /\ tx'.i = 1 /\ tx'.kind = "set" /\ tx'.delta = tx.delta
          /\ tx'.weights = tx.weights /\ tx'.newTotalWeight = tx.newTotalWeight
          /\ tx'.newApk = tx.newApk /\ tx'.next = tx.next
      BY <2>1, <2>20, <3>1 DEF Txs
    <3>5. tx.delta \in Deltas /\ tx.next = nextOperatorUpdateId + 1
      BY <2>1, <2>20 DEF TxInv
    <3>6. tx.weights = weights /\ tx.newTotalWeight = totalWeight /\ tx.newApk = apk
      BY <2>1 DEF VerifyInv
    <3>7. Copy!Overwritten(weights, tx.delta, 0) = weights /\ Len(tx.delta) \in Nat
      BY <2>7, <3>5, OverwrittenNone, DeltaEntries
    <3>8. UpdateInv'
      BY <2>17, <3>4, <3>6, <3>7 DEF UpdateInv, OperatorSetConsistent, setVars
    <3>9. TxInv'
      BY <2>17, <3>4, <3>5, <3>8 DEF TxInv, setVars
    <3> QED BY <2>14, <2>18, <3>3, <3>9
  <2> QED BY <2>1, <2>19, <2>20
<1> QED BY <1>1, <1>2

\* One entry more was written.
LEMMA UpdateEntryInv == Inv /\ UpdateEntry => Inv'
<1> SUFFICES ASSUME Inv, UpdateEntry PROVE Inv'
  OBVIOUS
<1> USE DEF Inv
<1>1. /\ tx # None /\ tx.stage = "update" /\ UpdateInv /\ tx.kind = "set" /\ tx \in Txs
      /\ tx.weights \in WeightMaps /\ tx.newTotalWeight \in 0..MaxUint128
      /\ tx.newApk \in Points /\ tx.i \in Nat
  BY TxFields DEF UpdateEntry, TxInv
<1>0. PICK delta \in Deltas : delta = tx.delta
  BY <1>1 DEF TxInv
<1>2. PICK i \in 1..Len(delta) : delta = tx.delta /\ i = tx.i
  BY <1>0, <1>1, DeltaEntries DEF UpdateEntry, UpdateInv
<1>3. PICK p \in Pubkeys, v \in Weights : p = delta[i].pubkey /\ v = delta[i].weight
  BY <1>2, DeltaEntries
<1>4. PICK c \in Weights : c = tx.weights[p]
  BY <1>1 DEF WeightMaps
<1>5. PICK e : e = delta[i]
  OBVIOUS
<1>6. CASE ~EntryOk(e, c)
  BY <1>2, <1>3, <1>4, <1>5, <1>6, RevertInv DEF UpdateEntry
<1>7. CASE EntryOk(e, c)
  <2>1. v # c /\ c <= tx.newTotalWeight /\ TotalAfter(c, v) <= MaxUint128
    BY <1>3, <1>5, <1>7, SMTT(30) DEF EntryOk
  <2>2. /\ tx' = [tx EXCEPT !.i = i + 1, !.newTotalWeight = TotalAfter(c, v),
                            !.weights[p] = v, !.newApk = ApkAfter(p, c, v)]
        /\ UNCHANGED <<setVars, stateRoots, accepted, quorumThreshold, paused>>
    BY <1>2, <1>3, <1>4, <1>5, <1>7 DEF UpdateEntry
  <2>3. TotalAfter(c, v) = tx.newTotalWeight - c + v /\ c \in Nat /\ v \in Nat
        /\ tx.newTotalWeight \in Nat
    BY <1>1, WeightRange DEF TotalAfter
  <2>4. TotalAfter(c, v) \in 0..MaxUint128
    BY <2>1, <2>3, WeightRange
  <2>5. PICK u \in WeightMaps : u = [tx.weights EXCEPT ![p] = v]
    BY <1>1 DEF WeightMaps
  <2>6. ApkAfter(p, c, v) \in Points
    BY <1>1 DEF ApkAfter, Plus, Minus, Point, Points
  <2>7. i + 1 \in Nat
    BY <1>1, <1>2
  <2>8. tx' \in Txs
    <3>0. tx' = [tx EXCEPT !.i = i + 1, !.newTotalWeight = TotalAfter(c, v),
                           !.weights = u, !.newApk = ApkAfter(p, c, v)]
      BY <1>1, <2>2, <2>5 DEF Txs
    <3>1. PICK n \in Nat, t \in 0..MaxUint128, P \in Points :
            tx' = [tx EXCEPT !.i = n, !.newTotalWeight = t, !.weights = u, !.newApk = P]
      BY <2>4, <2>6, <2>7, <3>0, Zenon
    <3> QED BY <1>1, <2>5, <3>1 DEF Txs, WeightMaps
  <2>9. /\ tx'.i = i + 1 /\ tx'.newTotalWeight = TotalAfter(c, v) /\ tx'.weights = u
        /\ tx'.newApk = ApkAfter(p, c, v) /\ tx'.stage = "update" /\ tx'.kind = "set"
        /\ tx'.delta = delta /\ tx'.next = tx.next
    BY <1>1, <1>2, <2>2, <2>5 DEF Txs
  <2>10. TypeOK' /\ OperatorSetConsistent' /\ AgreementHasQuorum'
    BY <2>2, <2>8 DEF TypeOK, OperatorSetConsistent, Consistent, Support,
                      AgreementHasQuorum, setVars
  <2>11. /\ tx.newTotalWeight = WeightOf(tx.weights, Pubkeys) /\ tx.newApk = Support(tx.weights)
         /\ tx.weights = Copy!Overwritten(weights, delta, i - 1)
    BY <1>1, <1>2 DEF UpdateInv, Consistent
  <2>12. TotalAfter(c, v) = WeightOf(u, Pubkeys)
    <3>1. WeightOf([tx.weights EXCEPT ![p] = v], Pubkeys) = WeightOf(tx.weights, Pubkeys) - tx.weights[p] + v
      BY <1>1, WeightOverwrite
    <3>2. WeightOf(u, Pubkeys) = WeightOf(tx.weights, Pubkeys) - tx.weights[p] + v
      BY <2>5, <3>1, Zenon
    <3> QED BY <1>4, <2>3, <2>11, <3>2
  <2>13. ApkAfter(p, c, v) = Support(u)
    <3>1. \A q \in Pubkeys : u[q] = IF q = p THEN v ELSE tx.weights[q]
      BY <1>1, <2>5 DEF WeightMaps
    <3>2. \A q \in Pubkeys : tx.newApk[q] = IF tx.weights[q] # 0 THEN 1 ELSE 0
      BY <2>11 DEF Support
    <3>3. CASE c = 0
      <4>1. v # 0
        BY <2>1, <3>3
      <4>2. \A q \in Pubkeys : tx.newApk[q] + (IF q = p THEN 1 ELSE 0) = IF u[q] # 0 THEN 1 ELSE 0
        <5> TAKE q \in Pubkeys
        <5>1. CASE q = p
          <6>1. tx.newApk[q] = 0 /\ u[q] # 0
            BY <1>4, <3>1, <3>2, <3>3, <4>1, <5>1
          <6> QED BY <5>1, <6>1
        <5>2. CASE q # p
          <6>1. u[q] = tx.weights[q] /\ tx.newApk[q] \in {0, 1}
            BY <3>1, <3>2, <5>2
          <6> QED BY <3>2, <5>2, <6>1
        <5> QED BY <5>1, <5>2
      <4> QED BY <3>3, <4>2 DEF ApkAfter, Plus, Point, Support
    <3>4. CASE c # 0 /\ v = 0
      <4>1. \A q \in Pubkeys : tx.newApk[q] - (IF q = p THEN 1 ELSE 0) = IF u[q] # 0 THEN 1 ELSE 0
        <5> TAKE q \in Pubkeys
        <5>1. CASE q = p
          <6>1. tx.newApk[q] = 1 /\ u[q] = 0
            BY <1>4, <3>1, <3>2, <3>4, <5>1
          <6> QED BY <5>1, <6>1
        <5>2. CASE q # p
          <6>1. u[q] = tx.weights[q] /\ tx.newApk[q] \in {0, 1}
            BY <3>1, <3>2, <5>2
          <6> QED BY <3>2, <5>2, <6>1
        <5> QED BY <5>1, <5>2
      <4> QED BY <3>4, <4>1 DEF ApkAfter, Minus, Point, Support
    <3>5. CASE c # 0 /\ v # 0
      <4>1. \A q \in Pubkeys : tx.newApk[q] = IF u[q] # 0 THEN 1 ELSE 0
        BY <1>4, <3>1, <3>2, <3>5
      <4> QED BY <1>1, <3>5, <4>1 DEF ApkAfter, Support, Points
    <3> QED BY <3>3, <3>4, <3>5
  <2>14. weights \in WeightMaps
    BY DEF TypeOK, WeightMaps
  <2>15. u = Copy!Overwritten(weights, delta, i)
    <3>1. Copy!Overwritten(weights, delta, i) =
            [Copy!Overwritten(weights, delta, i - 1) EXCEPT ![delta[i].pubkey] = delta[i].weight]
      BY <2>14, OverwrittenNext
    <3> QED BY <1>3, <2>5, <2>11, <3>1
  <2>16. UpdateInv'
    <3>1. i + 1 \in 1..(Len(delta) + 1) /\ (i + 1) - 1 = i
      BY <1>2, DeltaEntries
    <3>2. weights' = weights
      BY <2>2 DEF setVars
    <3>3. Consistent(u, TotalAfter(c, v), ApkAfter(p, c, v))
      BY <2>12, <2>13 DEF Consistent
    <3> QED BY <2>9, <2>15, <3>1, <3>2, <3>3 DEF UpdateInv, Consistent
  <2>17. TxInv'
    BY <1>1, <2>2, <2>9, <2>16 DEF TxInv, setVars
  <2> QED BY <2>10, <2>17
<1> QED BY <1>6, <1>7

\* The transaction commits.
LEMMA CommitUpdateInv == Inv /\ CommitUpdate => Inv'
<1> SUFFICES ASSUME Inv, CommitUpdate PROVE Inv'
  OBVIOUS
<1> USE DEF Inv
<1>1. /\ Consistent(tx.weights, tx.newTotalWeight, tx.newApk) /\ tx.weights \in WeightMaps
      /\ tx.newTotalWeight \in 0..MaxUint128 /\ tx.newApk \in Points /\ tx.next \in Nat
  BY TxFields DEF CommitUpdate, TxInv, UpdateInv
<1>2. TypeOK'
  BY <1>1, SMTT(30) DEF CommitUpdate, TypeOK, WeightMaps
<1>3. OperatorSetConsistent' /\ AgreementHasQuorum' /\ TxInv'
  BY <1>1 DEF CommitUpdate, OperatorSetConsistent, Consistent, Support,
              AgreementHasQuorum, TxInv
<1> QED BY <1>2, <1>3

\* Every step preserves the invariant.
LEMMA InvNext == Inv /\ [Next]_vars => Inv'
<1>1. ASSUME Inv, UNCHANGED vars PROVE Inv'
  <2> USE DEF Inv
  <2>1. TypeOK'
    BY <1>1 DEF vars, TypeOK
  <2>2. OperatorSetConsistent' /\ AgreementHasQuorum'
    BY <1>1 DEF vars, OperatorSetConsistent, Consistent, Support, AgreementHasQuorum
  <2>3. /\ tx' = tx /\ weights' = weights /\ totalWeight' = totalWeight /\ apk' = apk
        /\ nextOperatorUpdateId' = nextOperatorUpdateId
    BY <1>1 DEF vars
  <2>4. VerifyInv => VerifyInv'
    <3> DEFINE Holds(t, w, total, key) ==
          LET ns == t.agreement.nonSigners
              passed == {ns[j] : j \in 1..(t.i - 1)} IN
          /\ t.agreement \in Agreements
          /\ t.i \in 1..(Len(ns) + 1)
          /\ \A j \in 1..(t.i - 1) : ns[j] <= ns[t.i - 1] /\ w[ns[j]] # 0
          /\ t.weight = WeightOf(w, Pubkeys \ passed)
          /\ t.nonSignersApk = [p \in Pubkeys |-> IF p \in passed THEN 1 ELSE 0]
          /\ t.weights = w /\ t.newTotalWeight = total /\ t.newApk = key
    <3>1. VerifyInv = Holds(tx, weights, totalWeight, apk)
      BY Zenon DEF VerifyInv
    <3>2. VerifyInv' = Holds(tx', weights', totalWeight', apk')
      BY Zenon DEF VerifyInv
    <3> HIDE DEF Holds
    <3> QED BY <2>3, <3>1, <3>2, Zenon
  <2>5. UpdateInv => UpdateInv'
    BY <2>3, Zenon DEF UpdateInv, Consistent
  <2>6. TxInv'
    BY <1>1, <2>3, <2>4, <2>5, Zenon DEF TxInv
  <2> QED BY <2>1, <2>2, <2>6
<1> QED
  BY <1>1, TransactionInv, VerifyNonSignerInv, VerifyDoneInv, UpdateEntryInv,
     CommitUpdateInv DEF Next

-----------------------------------------------------------------------------
(* Theorems *)

\* The contract's state keeps its types; in particular the total weight never
\* leaves uint128.
THEOREM RollupTypeCorrect == Spec => []TypeOK
<1>1. Inv => TypeOK
  BY DEF Inv
<1> QED BY <1>1, InvInit, InvNext, PTL DEF Spec

\* Total weight and aggregate key always match the operators' weights, whatever
\* sequence of initializations, updates and forced updates is executed.
THEOREM OperatorSetConsistentHolds == Spec => []OperatorSetConsistent
<1>1. Inv => OperatorSetConsistent
  BY DEF Inv
<1> QED BY <1>1, InvInit, InvNext, PTL DEF Spec

\* Every agreement verifyCalldata accepts is signed by operators that hold the
\* threshold of the total weight.
THEOREM AgreementHasQuorumHolds == Spec => []AgreementHasQuorum
<1>1. Inv => AgreementHasQuorum
  BY DEF Inv
<1> QED BY <1>1, InvInit, InvNext, PTL DEF Spec

\* No checked subtraction of update or verifyCalldata underflows.
THEOREM NeverUnderflowsHolds == Spec => []NeverUnderflows
<1>1. Inv => NeverUnderflows
  <2> SUFFICES ASSUME Inv, tx # None PROVE NeverUnderflows
    BY DEF NeverUnderflows
  <2> USE DEF Inv
  <2>1. ASSUME tx.stage = "update", tx.i <= Len(tx.delta)
        PROVE  tx.weights[tx.delta[tx.i].pubkey] <= tx.newTotalWeight
    <3>1. UpdateInv /\ tx.delta \in Deltas
      BY <2>1, Zenon DEF TxInv
    <3>2. /\ tx.i \in 1..(Len(tx.delta) + 1)
          /\ tx.newTotalWeight = WeightOf(tx.weights, Pubkeys)
      BY <3>1, Zenon DEF UpdateInv, Consistent
    <3>3. /\ Len(tx.delta) \in Nat
          /\ \A i \in 1..Len(tx.delta) : tx.delta[i].pubkey \in Pubkeys
      BY <3>1, DeltaEntries, Zenon
    <3>4. tx.i \in 1..Len(tx.delta)
      BY <2>1, <3>2, <3>3
    <3>5. PICK p \in Pubkeys : p = tx.delta[tx.i].pubkey
      BY <3>3, <3>4, Zenon
    <3>6. tx.weights \in WeightMaps
      BY TxFields, Zenon
    <3>7. tx.weights[p] <= WeightOf(tx.weights, Pubkeys)
      BY <3>6, WeightSplit
    <3> QED BY <3>2, <3>5, <3>7, Zenon
  <2>2. ASSUME tx.stage = "verify", tx.i <= Len(tx.agreement.nonSigners),
               tx.i > 1 => tx.agreement.nonSigners[tx.i] > tx.agreement.nonSigners[tx.i - 1]
        PROVE  weights[tx.agreement.nonSigners[tx.i]] <= tx.weight
    <3>1. VerifyInv /\ tx.i \in Nat
      BY <2>2, TxFields, Zenon DEF TxInv
    <3>2. PICK a \in Agreements, i \in Nat : a = tx.agreement /\ i = tx.i /\ i >= 1
      <4>1. tx.agreement \in Agreements /\ tx.i \in 1..(Len(tx.agreement.nonSigners) + 1)
        BY <3>1, Zenon DEF VerifyInv
      <4>2. tx.i >= 1
        BY <3>1, <4>1
      <4> QED BY <3>1, <4>1, <4>2, Zenon
    <3>3. PICK ns : ns = a.nonSigners
      OBVIOUS
    <3>4. /\ Len(ns) \in Nat /\ i \in 1..Len(ns)
          /\ \A j \in 1..Len(ns) : ns[j] \in Pubkeys /\ ns[j] \in Nat
      <4>1. /\ Len(a.nonSigners) \in Nat
            /\ \A j \in 1..Len(a.nonSigners) : a.nonSigners[j] \in Pubkeys
        BY AgreementParts
      <4>2. i <= Len(ns)
        BY <2>2, <3>2, <3>3
      <4>3. Len(ns) \in Nat /\ \A j \in 1..Len(ns) : ns[j] \in Pubkeys
        BY <3>3, <4>1, Zenon
      <4>4. i \in Nat /\ i >= 1
        BY <3>2
      <4>5. i \in 1..Len(ns)
        BY <4>2, <4>3, <4>4
      <4> QED BY <4>3, <4>5, PubkeysAreNumbers
    <3>5. PICK N : N = {ns[j] : j \in 1..(i - 1)}
      OBVIOUS
    <3>6. /\ \A j \in 1..(i - 1) : ns[j] <= ns[i - 1]
          /\ tx.weight = WeightOf(weights, Pubkeys \ N)
      <4>1. i = tx.i /\ ns = tx.agreement.nonSigners
        BY <3>2, <3>3
      <4>2. \A j \in 1..(i - 1) : ns[j] <= ns[i - 1]
        BY <3>1, <4>1 DEF VerifyInv
      <4>3. N = {tx.agreement.nonSigners[j] : j \in 1..(tx.i - 1)}
        BY <3>5, <4>1, Zenon
      <4>4. tx.weight = WeightOf(weights, Pubkeys \ N)
        BY <3>1, <4>3, Zenon DEF VerifyInv
      <4> QED BY <4>2, <4>4
    <3>7. ns[i] \in Pubkeys \ N
      <4>1. i > 1 => ns[i] > ns[i - 1]
        BY <2>2, <3>2, <3>3
      <4>2. \A j \in 1..(i - 1) : ns[j] # ns[i]
        <5> SUFFICES ASSUME NEW j \in 1..(i - 1) PROVE ns[j] # ns[i]
          OBVIOUS
        <5>1. i > 1 /\ j \in 1..Len(ns) /\ i - 1 \in 1..Len(ns)
          BY <3>2, <3>4
        <5>2. ns[j] \in Nat /\ ns[i] \in Nat /\ ns[i - 1] \in Nat
          BY <3>4, <5>1
        <5> QED BY <3>6, <4>1, <5>1, <5>2
      <4> QED BY <3>4, <3>5, <4>2
    <3>8. weights \in WeightMaps /\ Pubkeys \ N \in SUBSET Pubkeys
      BY DEF TypeOK, WeightMaps
    <3>9. weights[ns[i]] <= WeightOf(weights, Pubkeys \ N)
      BY <3>7, <3>8, WeightSplit
    <3> QED BY <3>2, <3>3, <3>6, <3>9
  <2> QED BY <2>1, <2>2 DEF NeverUnderflows
<1> QED BY <1>1, InvInit, InvNext, PTL DEF Spec

\* The contract implements OperatorSetCopy: only the commit of an initialization
\* or an update changes the copy, and it applies the whole list.
THEOREM ImplementsCopyHolds == Spec => ImplementsCopy
<1>1. Init => Copy!CopyInit
  BY DEF Init, Copy!CopyInit, NoWeights, Copy!NoWeights
<1>2. Inv /\ [Next]_vars => [Copy!CopyNext]_(Copy!copyVars)
  <2> SUFFICES ASSUME Inv, [Next]_vars,
                      ~UNCHANGED <<weights, nextOperatorUpdateId>>
               PROVE  Copy!CopyNext
    BY DEF Copy!copyVars
  <2>1. CommitUpdate
    <3>1. UNCHANGED vars => FALSE
      BY DEF vars
    <3>2. Transaction => FALSE
      BY DEF Transaction, SetInitialOperatorSet, UpdateOperatorSet, ForceOperatorSetUpdate,
             UpdateStateRoot, Begin, SetQuorumThreshold, SetPaused, setVars
    <3>3. VerifyNonSigner => FALSE
      BY DEF VerifyNonSigner, Revert, setVars
    <3>4. VerifyDone => FALSE
      BY DEF VerifyDone, Revert, setVars
    <3>5. UpdateEntry => FALSE
      BY DEF UpdateEntry, Revert, setVars
    <3> QED BY <3>1, <3>2, <3>3, <3>4, <3>5 DEF Next
  <2>2. /\ UpdateInv /\ tx.delta \in Deltas /\ tx.i \in Nat /\ tx.next \in Nat
        /\ tx.next = nextOperatorUpdateId + 1 \/ weights = NoWeights
    BY <2>1, TxFields DEF Inv, TxInv, CommitUpdate
  <2>3. tx.i - 1 = Len(tx.delta)
    BY <2>1, <2>2, DeltaEntries DEF UpdateInv, CommitUpdate
  <2>4. /\ weights' = Copy!Overwritten(weights, tx.delta, Len(tx.delta))
        /\ nextOperatorUpdateId' = tx.next
    BY <2>1, <2>2, <2>3 DEF UpdateInv, CommitUpdate
  <2>5. CASE tx.next = nextOperatorUpdateId + 1
    BY <2>2, <2>4, <2>5 DEF Copy!CopyNext, Copy!Update
  <2>6. CASE weights = NoWeights
    BY <2>2, <2>4, <2>6 DEF Copy!CopyNext, Copy!SetInitial, NoWeights, Copy!NoWeights
  <2> QED BY <2>2, <2>5, <2>6
<1> QED BY <1>1, <1>2, InvInit, InvNext, PTL DEF Spec, ImplementsCopy, Copy!CopySpec
====
