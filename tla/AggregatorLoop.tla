--------------------------- MODULE AggregatorLoop ---------------------------
(***************************************************************************)
(* The aggregator's main loop on top of the BLS aggregation service        *)
(* (aggregator/aggregator.go, aggregator/database/database.go): responses  *)
(* are taken one at a time, stored in the message database, and finished   *)
(* operator set updates are broadcast to the rollups.                      *)
(*                                                                         *)
(* A response carries pointers to the round's signature aggregate and to   *)
(* its aggregated public key, and the goroutine of the round goes on       *)
(* adding to both while the loop stores the response: `live' is what the   *)
(* pointers refer to now, `sig' what they referred to on delivery.         *)
(* Database writes may fail.  The process may crash and restart: the       *)
(* database survives, everything else is lost.  The services of the loop   *)
(* aggregate messages, so that TaskKeys is empty in its instances.         *)
(***************************************************************************)
EXTENDS MessageBlsAggregation

CONSTANTS
  OperatorSetKeys, \* the keys of operator set updates; the others are state roots
  MaxCrashes       \* bound: restarts of the process

ASSUME LoopAssumption ==
  /\ OperatorSetKeys \subseteq Keys
  /\ MaxCrashes \in Nat

VARIABLES
  inHand,        \* the response the loop is handling
  dbMessage,     \* key -> digest of the stored message
  dbAggregation, \* key -> stored aggregation
  broadcast,     \* operator set updates handed to the rollup broadcaster
  counted,       \* history: key -> <<operator, digest>> ever counted
  repeated,      \* history: keys of which a round counted an operator twice
  crashes        \* restarts so far (bounded by MaxCrashes)

loopVars == <<inHand, dbMessage, dbAggregation, broadcast>>
historyVars == <<counted, repeated>>
allVars == <<vars, loopVars, historyVars, crashes>>

\* An aggregation as stored or sent: a point that was read while it was being
\* written to is None.
Aggregations ==
  [digest : Digests, members : SUBSET Operators, nonSigners : SUBSET Operators,
   sig : Bags \cup {None}, apk : Bags \cup {None}]

InHand ==
  [key : Keys, round : Nat, digest : Digests, finished : BOOLEAN,
   members : SUBSET Operators, nonSigners : SUBSET Operators,
   sig : Bags, live : Bags, stage : {"message", "aggregation"}]

Answers == [message : Digests, aggregation : Aggregations]

\* nil is neither in hand, nor stored, nor an answer.
ASSUME LoopNoneAssumption == None \notin InHand \cup Aggregations \cup Answers

LoopInit ==
  /\ Init
  /\ inHand = None
  /\ dbMessage = [k \in Keys |-> None]
  /\ dbAggregation = [k \in Keys |-> None]
  /\ broadcast = {}
  /\ counted = [k \in Keys |-> {}]
  /\ repeated = {}
  /\ crashes = 0

-----------------------------------------------------------------------------
(* The loop. *)

\* Start receives a response; the handlers return at once on an error.
ReceiveResponse(k) ==
  LET r == pending[k] IN
  /\ inHand = None
  /\ DeliverResponse(k)
  /\ inHand' = IF r.err THEN None
               ELSE [key |-> k, round |-> rounds[k], digest |-> r.digest,
                     finished |-> r.finished, members |-> Members(k),
                     nonSigners |-> r.nonSigners, sig |-> r.sig, live |-> r.sig,
                     stage |-> "message"]
  /\ UNCHANGED <<dbMessage, dbAggregation, broadcast, historyVars, crashes>>

\* What reading a point of the response in hand gives: while the goroutine adds a
\* signature to it, the old, the new or neither value.
PointRead ==
  IF inHand.live = inHand.sig THEN {inHand.sig} ELSE {inHand.sig, inHand.live, None}

AggregationRead(sig, apk) ==
  [digest |-> inHand.digest, members |-> inHand.members,
   nonSigners |-> inHand.nonSigners, sig |-> sig, apk |-> apk]

\* Mutant: every quorum of an operator set update is broadcast, not the last only.
HandlerReturnsAndBroadcasts ==
  /\ inHand' = None
  /\ IF inHand.key \in OperatorSetKeys
     THEN \E sig, apk \in PointRead :
            broadcast' = broadcast \cup {AggregationRead(sig, apk)}
     ELSE UNCHANGED broadcast

\* The handler returns; a finished operator set update is broadcast by the
\* deferred call, whether or not it was stored.
HandlerReturns ==
  /\ inHand' = None
  /\ IF inHand.finished /\ inHand.key \in OperatorSetKeys
     THEN \E sig, apk \in PointRead :
            broadcast' = broadcast \cup {AggregationRead(sig, apk)}
     ELSE UNCHANGED broadcast

\* StoreStateRootUpdate, StoreOperatorSetUpdate: FirstOrCreate keeps the message
\* that was stored first for the key.
StoreMessage ==
  /\ inHand # None /\ inHand.stage = "message"
  /\ dbMessage' = [dbMessage EXCEPT ![inHand.key] =
       IF @ = None THEN inHand.digest ELSE @]
  /\ inHand' = [inHand EXCEPT !.stage = "aggregation"]
  /\ UNCHANGED <<vars, dbAggregation, broadcast, historyVars, crashes>>

\* StoreStateRootUpdateAggregation, StoreOperatorSetUpdateAggregation: Replace.
StoreAggregation ==
  /\ inHand # None /\ inHand.stage = "aggregation"
  /\ \E sig, apk \in PointRead :
       dbAggregation' = [dbAggregation EXCEPT ![inHand.key] = AggregationRead(sig, apk)]
  /\ HandlerReturns
  /\ UNCHANGED <<vars, dbMessage, historyVars, crashes>>

\* Mutant: the handler goes on after the message could not be stored.
StoreFailsGoesOn ==
  /\ inHand # None
  /\ IF inHand.stage = "message"
     THEN inHand' = [inHand EXCEPT !.stage = "aggregation"] /\ UNCHANGED broadcast
     ELSE HandlerReturns
  /\ UNCHANGED <<vars, dbMessage, dbAggregation, historyVars, crashes>>

\* Either write may fail; the handler logs the error and returns.
StoreFails ==
  /\ inHand # None
  /\ HandlerReturns
  /\ UNCHANGED <<vars, dbMessage, dbAggregation, historyVars, crashes>>

\* The process stops anywhere and starts again with the database it left.
Crash ==
  /\ crashes < MaxCrashes
  /\ crashes' = crashes + 1
  /\ signedMessageCs' = [k \in Keys |-> 0]
  /\ phase' = [k \in Keys |-> "none"]
  /\ avs' = [k \in Keys |-> NoStake]
  /\ cell' = [k \in Keys |-> NoStake]
  /\ first' = [k \in Keys |-> NoFirst]
  /\ sigs' = [k \in Keys |-> NoSignatures]
  /\ majority' = [k \in Keys |-> None]
  /\ pending' = [k \in Keys |-> None]
  /\ last' = [k \in Keys |-> None]
  /\ calls' = [s \in Senders |-> Returned("nil")]
  /\ inHand' = None
  /\ UNCHANGED <<rounds, made, dbMessage, dbAggregation, broadcast, historyVars>>

-----------------------------------------------------------------------------
(* The service underneath. *)

\* The pointers of the response in hand follow the round they belong to.
FollowPointers(k) ==
  inHand' = IF inHand # None /\ inHand.key = k /\ inHand.round = rounds[k]
               /\ phase'[k] # "none"
            THEN [inHand EXCEPT !.live = sigs'[k][inHand.digest]]
            ELSE inHand

\* History of what the goroutine counted.
Record(k) ==
  LET added == {od \in Operators \X Digests :
                  sigs'[k][od[2]][od[1]] > sigs[k][od[2]][od[1]]}
  IN /\ counted' = [counted EXCEPT ![k] = @ \cup added]
     /\ repeated' = repeated \cup
          {i \in {k} : \E od \in added, d \in Digests : sigs[k][d][od[1]] > 0}

ServiceStep ==
  \/ /\ \/ \E s \in Senders, o \in Operators, k \in Keys, d \in Digests :
             Call(s, o, k, d)
        \/ \E s \in Senders : CallStep(s)
     /\ UNCHANGED <<loopVars, historyVars, crashes>>
  \/ \E k \in Keys :
       /\ GoroutineStep(k)
       /\ FollowPointers(k)
       /\ Record(k)
       /\ UNCHANGED <<dbMessage, dbAggregation, broadcast, crashes>>

LoopNext ==
  \/ ServiceStep
  \/ \E k \in Keys : ReceiveResponse(k)
  \/ StoreMessage
  \/ StoreAggregation
  \/ StoreFails
  \/ Crash

LoopSpec == LoopInit /\ [][LoopNext]_allVars

-----------------------------------------------------------------------------
(* Properties *)

\* Every variable of the loop stays in its domain.
LoopTypeOK ==
  /\ inHand \in InHand \cup {None}
  /\ dbMessage \in [Keys -> Digests \cup {None}]
  /\ dbAggregation \in [Keys -> Aggregations \cup {None}]
  /\ broadcast \subseteq Aggregations
  /\ counted \in [Keys -> SUBSET (Operators \X Digests)]
  /\ repeated \subseteq Keys
  /\ crashes \in 0..MaxCrashes

\* What verifyCalldata of the rollup accepts as a signature: one signature of
\* every operator that is not listed as a non-signer, and the sum of their keys.
Verifies(a) ==
  LET signers == [o \in Operators |-> IF o \in a.members \ a.nonSigners THEN 1 ELSE 0]
  IN a.sig = signers /\ a.apk = signers

\* A broadcast operator set update verifies on the rollups: its signature is the
\* sum of exactly the operators it does not list as non-signers.  The goroutine
\* must be past its last signature when the deferred broadcast reads the points.
BroadcastVerifies == repeated = {} => \A a \in broadcast : Verifies(a)

\* The operators that took part in the key signed one digest each, once a round.
Honest(k) ==
  /\ k \notin repeated
  /\ \A o \in Operators, d, e \in Digests :
       <<o, d>> \in counted[k] /\ <<o, e>> \in counted[k] => d = e

\* FetchStateRootUpdate, FetchOperatorSetUpdate; None is the error "not found".
FetchMessage(k) == dbMessage[k]

\* FetchStateRootUpdateAggregation, FetchOperatorSetUpdateAggregation: the
\* aggregation hangs on its message.
FetchAggregation(k) == IF dbMessage[k] = None THEN None ELSE dbAggregation[k]

\* What the REST server answers for a key.  A stored message never changes, so
\* that the two reads may as well be one.
GetAggregation(k) ==
  IF FetchMessage(k) = None \/ FetchAggregation(k) = None THEN None
  ELSE [message |-> FetchMessage(k), aggregation |-> FetchAggregation(k)]

\* A stored aggregation is served, with the message that it signs, although the
\* first stored message stays and every later round, also after a restart or a
\* failed write, replaces the aggregation: for operators that never sign two
\* digests for a key and an operator state that stays the same, two rounds cannot
\* end with different digests.
StoredPairMatches ==
  \A k \in Keys :
    Honest(k) /\ dbAggregation[k] # None =>
      /\ GetAggregation(k) # None
      /\ GetAggregation(k).message = GetAggregation(k).aggregation.digest

-----------------------------------------------------------------------------
(* The inductive invariant behind the properties. *)

\* Signatures are the members', on record, and one per operator unless the
\* history says otherwise.
SignaturesRecorded(k) ==
  /\ \A d \in Digests, o \in Operators :
       sigs[k][d][o] > 0 => o \in Members(k) /\ <<o, d>> \in counted[k]
  /\ k \notin repeated => DupFree(k)

\* A response without an error that waits to be received shows the state of its
\* round, in which a digest that got there has the signatures of a quorum.
ResponseExact(k) ==
  /\ pending[k] # None /\ ~pending[k].err =>
       /\ pending[k].digest \in Digests
       /\ first[k][pending[k].digest] # None
       /\ pending[k].sig = sigs[k][pending[k].digest]
       /\ pending[k].nonSigners = Members(k) \ Signers(k, pending[k].digest)
       /\ DupFree(k) => HasQuorum(k, pending[k].digest)
  /\ phase[k] = "thresholdReached" /\ DupFree(k) => HasQuorum(k, majority[k])

\* The response in hand: its points were one signature per operator that it does
\* not list, and of a finished one they stay so, because its round is over.
InHandExact ==
  inHand # None =>
    /\ inHand.round <= rounds[inHand.key]
    /\ \A s \in Senders : calls[s].pc = "fetch" /\ calls[s].key = inHand.key =>
                            inHand.round < rounds[inHand.key]
    /\ inHand.key \notin repeated =>
         \A o \in Operators :
           inHand.sig[o] = IF o \in inHand.members \ inHand.nonSigners THEN 1 ELSE 0
    /\ inHand.finished =>
         /\ inHand.live = inHand.sig
         /\ inHand.round = rounds[inHand.key] => phase[inHand.key] \in {"none", "closing"}

LoopInv ==
  /\ Inv /\ LoopTypeOK /\ InHandExact /\ BroadcastVerifies
  /\ \A k \in Keys : SignaturesRecorded(k) /\ ResponseExact(k)

\* The operators ever counted for digest d of key k hold the threshold of a
\* positive total stake, in some operator state.
CountedFor(k, d) == {o \in Operators : <<o, d>> \in counted[k]}
CountedQuorum(k, d) ==
  \E q \in AvsStates :
    /\ StakeOf(q, Operators) > 0
    /\ StakeOf(q, CountedFor(k, d)) * 100 >= StakeOf(q, Operators) * Threshold

\* What is in hand and what is stored of an honest key was signed by a quorum; the
\* aggregation is stored after its message.
StoredBacked ==
  /\ inHand # None =>
       /\ Honest(inHand.key) => CountedQuorum(inHand.key, inHand.digest)
       /\ inHand.stage = "aggregation" => dbMessage[inHand.key] # None
  /\ \A k \in Keys :
       /\ dbAggregation[k] # None => dbMessage[k] # None
       /\ Honest(k) /\ dbMessage[k] # None => CountedQuorum(k, dbMessage[k])
       /\ Honest(k) /\ dbAggregation[k] # None => CountedQuorum(k, dbAggregation[k].digest)
====
