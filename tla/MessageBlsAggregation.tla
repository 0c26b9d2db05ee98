------------------------ MODULE MessageBlsAggregation ------------------------
(***************************************************************************)
(* The BLS aggregation service of the aggregator                           *)
(* (aggregator/blsagg/message_blsagg.go).                                  *)
(*                                                                         *)
(* RPC handler goroutines (Senders) register a channel per message key,    *)
(* fetch the operator state at a block, start one aggregation goroutine    *)
(* per registered channel and hand it signatures over that unbuffered      *)
(* channel.  The goroutine adds up stake per digest, sends responses on    *)
(* the unbuffered aggregatedResponsesC and unregisters the channel when it *)
(* ends.  A "round" is one registered channel of a key: after a round has  *)
(* ended, a late signature opens the next one.                             *)
(*                                                                         *)
(* Abstractions.  There is one quorum (core/types/fields.go:11).  A        *)
(* signature aggregate and an aggregated G2 key are the same bag of        *)
(* operators, so one function operator -> multiplicity stands for both.    *)
(* Timers are untimed: they may fire at any moment of the phase they       *)
(* belong to.  Receiving a signed message, handling it and answering its   *)
(* sender are one step: nothing else reads the goroutine's state between.  *)
(***************************************************************************)
EXTENDS Integers

CONSTANTS
  Keys,           \* message keys
  TaskKeys,       \* the keys whose channel only sendNewCheckpointTask registers
  Digests,        \* digests that messages of one key may have
  Operators,      \* operator ids known to the AVS at some block
  Senders,        \* goroutines that call the service
  AvsStates,      \* operator -> stake, as fetched at a block; 0 is not registered
  StakeOf(_, _),  \* StakeOf(q, S): the stake of the operators S in q
  Threshold,      \* quorumThresholdPercentages[0]
  MaxCalls,       \* bound: RPC calls per operator
  None

\* validateQuorumThresholdPercentages accepts 51..100 only.
ASSUME ConstantsAssumption ==
  /\ TaskKeys \subseteq Keys
  /\ AvsStates \subseteq [Operators -> Nat]
  /\ Threshold \in 51..100
  /\ MaxCalls \in Nat
  /\ None \notin Digests \cup Operators \cup Keys

\* The operator state of a key that no goroutine works on.
NoStake == [o \in Operators |-> 0]

\* The stake registry's totals are sums of the operators' stakes.
ASSUME StakeAssumption ==
  \A q \in AvsStates \cup {NoStake} :
    /\ StakeOf(q, {}) = 0
    /\ \A o \in Operators : StakeOf(q, {o}) = q[o]
    /\ \A S, T \in SUBSET Operators :
         /\ StakeOf(q, S) \in Nat
         /\ S \cap T = {} => StakeOf(q, S \cup T) = StakeOf(q, S) + StakeOf(q, T)

VARIABLES
  signedMessageCs, \* key -> round of the registered channel, 0 when there is none
  rounds,          \* key -> channels made so far
  phase,           \* key -> where the aggregation goroutine is
  avs,             \* key -> operator state fetched for the round
  cell,            \* key -> operator -> StakePerQuorum, as the round mutates it
  first,           \* key -> digest -> operator whose stake map holds the digest's total
  sigs,            \* key -> digest -> operator -> times its signature was added
  majority,        \* key -> digest that reached the threshold
  pending,         \* key -> response the goroutine is blocked sending
  last,            \* key -> last response of the round taken from the channel
  calls,           \* sender -> the call it is executing
  made             \* operator -> RPC calls made (bounded by MaxCalls)

vars == <<signedMessageCs, rounds, phase, avs, cell, first, sigs, majority,
          pending, last, calls, made>>

aggVars == <<phase, avs, cell, first, sigs, majority, pending, last>>

Phases == {"none", "preThreshold", "thresholdReached", "closing"}
Statuses == {"none", "full", "notReached", "reached"}
Bags == [Operators -> Nat]
NoSigs == [o \in Operators |-> 0]
NoSignatures == [d \in Digests |-> NoSigs]
NoFirst == [d \in Digests |-> None]

Responses ==
  [digest : Digests \cup {None}, status : Statuses, finished : BOOLEAN,
   err : BOOLEAN, nonSigners : SUBSET Operators, sig : Bags]

\* nil is not a response.
ASSUME NoneAssumption == None \notin Responses

Pcs == {"idle", "initialize", "fetch", "lookup", "send"}
Results == {"nil", "error"}
Calls ==
  [pc : Pcs, op : Operators \cup {None}, key : Keys \cup {None},
   digest : Digests \cup {None}, chan : Nat, result : Results]

Returned(r) ==
  [pc |-> "idle", op |-> None, key |-> None, digest |-> None, chan |-> 0,
   result |-> r]

Init ==
  /\ signedMessageCs = [k \in Keys |-> 0]
  /\ rounds = [k \in Keys |-> 0]
  /\ phase = [k \in Keys |-> "none"]
  /\ avs = [k \in Keys |-> NoStake]
  /\ cell = [k \in Keys |-> NoStake]
  /\ first = [k \in Keys |-> NoFirst]
  /\ sigs = [k \in Keys |-> NoSignatures]
  /\ majority = [k \in Keys |-> None]
  /\ pending = [k \in Keys |-> None]
  /\ last = [k \in Keys |-> None]
  /\ calls = [s \in Senders |-> Returned("nil")]
  /\ made = [o \in Operators |-> 0]

-----------------------------------------------------------------------------
(* What the goroutine computes from the state of its round. *)

Members(k) == {o \in Operators : avs[k][o] > 0}
TotalStake(k) == StakeOf(avs[k], Operators)
SignersOf(bag) == {o \in Operators : bag[o] > 0}

\* Mutant: the threshold is rounded down to whole units of stake.
RoundedStakeThresholdsMet(k, stake) == stake >= (TotalStake(k) * Threshold) \div 100

\* checkIfStakeThresholdsMet
StakeThresholdsMet(k, stake) == stake * 100 >= TotalStake(k) * Threshold

\* getMessageBlsAggregationStatus; the full-stake test is an equality
StatusOf(k, stake) ==
  IF stake = TotalStake(k) THEN "full"
  ELSE IF StakeThresholdsMet(k, stake) THEN "reached" ELSE "notReached"

\* Mutant: the digest's total is added to the new signer's map instead.
CellAfterOwnMap(k, o, d) ==
  IF first[k][d] = None THEN cell[k]
  ELSE [cell[k] EXCEPT ![o] = @ + cell[k][first[k][d]]]

\* handleSignedMessageDigest: the first signer's stake map becomes the digest's
\* total by reference, and later signers' stakes are added to it in place.
CellAfter(k, o, d) ==
  IF first[k][d] = None THEN cell[k]
  ELSE [cell[k] EXCEPT ![first[k][d]] = @ + cell[k][o]]

FirstAfter(k, o, d) ==
  IF first[k][d] = None THEN [first[k] EXCEPT ![d] = o] ELSE first[k]

SigsAfter(k, o, d) == [sigs[k] EXCEPT ![d][o] = @ + 1]

\* getMessageBlsAggregationResponse for a digest that has signers; indicesOk is
\* the outcome of GetCheckSignaturesIndices, stake and bag the digest's totals.
ResponseFor(k, d, stake, bag, indicesOk, forceFinished) ==
  LET status == StatusOf(k, stake) IN
  IF indicesOk
  THEN [digest |-> d, status |-> status,
        finished |-> status = "full" \/ forceFinished, err |-> FALSE,
        nonSigners |-> Members(k) \ SignersOf(bag), sig |-> bag]
  ELSE [digest |-> d, status |-> "none", finished |-> forceFinished,
        err |-> TRUE, nonSigners |-> {}, sig |-> NoSigs]

ExpiredResponse ==
  [digest |-> None, status |-> "none", finished |-> TRUE, err |-> TRUE,
   nonSigners |-> {}, sig |-> NoSigs]

-----------------------------------------------------------------------------
(* The callers: InitializeMessageIfNotExists and ProcessNewSignature. *)

\* Mutant: a task response registers its key like every other message.
CallAlwaysInitializes(s, o, k, d) ==
  /\ calls[s].pc = "idle"
  /\ made[o] < MaxCalls
  /\ made' = [made EXCEPT ![o] = @ + 1]
  /\ calls' = [calls EXCEPT ![s] =
       [pc |-> "initialize", op |-> o, key |-> k, digest |-> d, chan |-> 0,
        result |-> "nil"]]
  /\ UNCHANGED <<signedMessageCs, rounds, aggVars>>

\* ProcessSignedStateRootUpdateMessage and ProcessSignedOperatorSetUpdateMessage
\* initialize and then process; ProcessSignedCheckpointTaskResponse only processes.
\* A call modelled here has passed validateMessageTimestamp and verifySignature:
\* one that has not returns before it touches the service.
Call(s, o, k, d) ==
  /\ calls[s].pc = "idle"
  /\ made[o] < MaxCalls
  /\ made' = [made EXCEPT ![o] = @ + 1]
  /\ calls' = [calls EXCEPT ![s] =
       [pc |-> IF k \in TaskKeys THEN "lookup" ELSE "initialize",
        op |-> o, key |-> k, digest |-> d, chan |-> 0, result |-> "nil"]]
  /\ UNCHANGED <<signedMessageCs, rounds, aggVars>>

\* sendNewCheckpointTask initializes the key of the task it has just created,
\* whose index no earlier task has.
CallForTask(s, k) ==
  /\ calls[s].pc = "idle"
  /\ rounds[k] = 0
  /\ \A t \in Senders : calls[t].op = None => calls[t].key # k
  /\ calls' = [calls EXCEPT ![s] =
       [pc |-> "initialize", op |-> None, key |-> k, digest |-> None,
        chan |-> 0, result |-> "nil"]]
  /\ UNCHANGED <<signedMessageCs, rounds, aggVars, made>>

\* What a call does once InitializeMessageIfNotExists returned nil.
Initialized(call) ==
  IF call.op = None THEN Returned("nil") ELSE [call EXCEPT !.pc = "lookup"]

\* Mutant: the channel is made without checking for a registered one.
InitializeMessageChanUnchecked(s) ==
  LET k == calls[s].key IN
  /\ calls[s].pc = "initialize"
  /\ rounds' = [rounds EXCEPT ![k] = @ + 1]
  /\ signedMessageCs' = [signedMessageCs EXCEPT ![k] = rounds[k] + 1]
  /\ calls' = [calls EXCEPT ![s].pc = "fetch"]
  /\ UNCHANGED <<aggVars, made>>

\* initializeMessageChan, under the write lock: a registered key is left alone.
InitializeMessageChan(s) ==
  LET k == calls[s].key IN
  /\ calls[s].pc = "initialize"
  /\ \/ /\ signedMessageCs[k] # 0
        /\ calls' = [calls EXCEPT ![s] = Initialized(@)]
        /\ UNCHANGED <<signedMessageCs, rounds>>
     \/ /\ signedMessageCs[k] = 0
        /\ rounds' = [rounds EXCEPT ![k] = @ + 1]
        /\ signedMessageCs' = [signedMessageCs EXCEPT ![k] = rounds[k] + 1]
        /\ calls' = [calls EXCEPT ![s].pc = "fetch"]
  /\ UNCHANGED <<aggVars, made>>

\* fetchValidationInfo succeeded: the aggregation goroutine starts.
StartAggregation(s) ==
  LET k == calls[s].key IN
  /\ calls[s].pc = "fetch"
  /\ \E q \in AvsStates :
       /\ avs' = [avs EXCEPT ![k] = q]
       /\ cell' = [cell EXCEPT ![k] = q]
  /\ phase' = [phase EXCEPT ![k] = "preThreshold"]
  /\ first' = [first EXCEPT ![k] = NoFirst]
  /\ sigs' = [sigs EXCEPT ![k] = NoSignatures]
  /\ last' = [last EXCEPT ![k] = None]
  /\ calls' = [calls EXCEPT ![s] = Initialized(@)]
  /\ UNCHANGED <<signedMessageCs, rounds, majority, pending, made>>

\* fetchValidationInfo failed: the call returns the error and the channel stays
\* registered although no goroutine will ever receive from it.
FetchFails(s) ==
  /\ calls[s].pc = "fetch"
  /\ calls' = [calls EXCEPT ![s] = Returned("error")]
  /\ UNCHANGED <<signedMessageCs, rounds, aggVars, made>>

\* Mutant: a key without a channel is waited for.
LookupChanWaits(s) ==
  LET k == calls[s].key IN
  /\ calls[s].pc = "lookup"
  /\ signedMessageCs[k] # 0
  /\ calls' = [calls EXCEPT ![s].pc = "send", ![s].chan = signedMessageCs[k]]
  /\ UNCHANGED <<signedMessageCs, rounds, aggVars, made>>

\* ProcessNewSignature up to its select: look the channel up under the read lock.
LookupChan(s) ==
  LET k == calls[s].key IN
  /\ calls[s].pc = "lookup"
  /\ calls' = [calls EXCEPT ![s] =
       IF signedMessageCs[k] = 0 THEN Returned("error")
       ELSE [@ EXCEPT !.pc = "send", !.chan = signedMessageCs[k]]]
  /\ UNCHANGED <<signedMessageCs, rounds, aggVars, made>>

Blocked(s) == calls[s].pc = "send"

-----------------------------------------------------------------------------
(* The aggregation goroutine of key k. *)

\* The goroutine of k is at its select in phase p and sender s offers on its
\* channel.  A sender of an earlier round holds a channel nobody receives from.
Offers(s, k, p) ==
  /\ Blocked(s)
  /\ calls[s].key = k
  /\ calls[s].chan = signedMessageCs[k]
  /\ phase[k] = p
  /\ pending[k] = None

Answer(s, r) == calls' = [calls EXCEPT ![s] = Returned(r)]

\* verifySignature: the signer was not registered at the round's block.  (Its
\* signature itself was verified by the caller, against the same public key.)
RejectSignature(s, k) ==
  /\ \/ Offers(s, k, "preThreshold")
     \/ Offers(s, k, "thresholdReached") /\ calls[s].digest = majority[k]
  /\ calls[s].op \notin Members(k)
  /\ Answer(s, "error")
  /\ UNCHANGED <<signedMessageCs, rounds, aggVars, made>>

\* handleSignedMessageDigest on success.
AddSignature(k, o, d) ==
  /\ o \in Members(k)
  /\ cell' = [cell EXCEPT ![k] = CellAfter(k, o, d)]
  /\ first' = [first EXCEPT ![k] = FirstAfter(k, o, d)]
  /\ sigs' = [sigs EXCEPT ![k] = SigsAfter(k, o, d)]

\* The response built right after the signature of o on d was added.
ResponseAfter(k, o, d, indicesOk) ==
  ResponseFor(k, d, CellAfter(k, o, d)[FirstAfter(k, o, d)[d]],
              SigsAfter(k, o, d)[d], indicesOk, FALSE)

\* handleSignedMessagePreThreshold, a signed message was received.
HandleSignedMessagePreThreshold(s, k, indicesOk) ==
  LET o == calls[s].op
      d == calls[s].digest
      r == ResponseAfter(k, o, d, indicesOk) IN
  /\ Offers(s, k, "preThreshold")
  /\ AddSignature(k, o, d)
  /\ Answer(s, "nil")
  /\ pending' = [pending EXCEPT ![k] = IF r.status = "notReached" THEN None ELSE r]
  /\ phase' = [phase EXCEPT ![k] =
       CASE r.status = "reached" -> "thresholdReached"
         [] r.status = "full" -> "closing"
         [] OTHER -> "preThreshold"]
  /\ majority' = [majority EXCEPT ![k] = IF r.status = "reached" THEN d ELSE @]
  /\ UNCHANGED <<signedMessageCs, rounds, avs, last, made>>

\* Mutant: the loop goes on after the expiry was reported.
MessageExpiredGoesOn(k) ==
  /\ phase[k] = "preThreshold"
  /\ pending[k] = None
  /\ pending' = [pending EXCEPT ![k] = ExpiredResponse]
  /\ UNCHANGED <<signedMessageCs, rounds, phase, avs, cell, first, sigs, majority,
                 last, calls, made>>

\* handleSignedMessagePreThreshold, messageExpiredTimer fired.
MessageExpired(k) ==
  /\ phase[k] = "preThreshold"
  /\ pending[k] = None
  /\ pending' = [pending EXCEPT ![k] = ExpiredResponse]
  /\ phase' = [phase EXCEPT ![k] = "closing"]
  /\ UNCHANGED <<signedMessageCs, rounds, avs, cell, first, sigs, majority, last,
                 calls, made>>

\* handleSignedMessageThresholdReached, a message with another digest: answered
\* with nil and ignored.
IgnoreNonMajority(s, k) ==
  /\ Offers(s, k, "thresholdReached")
  /\ calls[s].digest # majority[k]
  /\ Answer(s, "nil")
  /\ UNCHANGED <<signedMessageCs, rounds, aggVars, made>>

\* Mutant: the digest is not compared with the majority's.
HandleSignedMessageAnyDigest(s, k, indicesOk) ==
  LET o == calls[s].op
      d == calls[s].digest
      r == ResponseAfter(k, o, d, indicesOk) IN
  /\ Offers(s, k, "thresholdReached")
  /\ AddSignature(k, o, d)
  /\ Answer(s, "nil")
  /\ pending' = [pending EXCEPT ![k] = r]
  /\ phase' = [phase EXCEPT ![k] = IF r.status = "full" THEN "closing" ELSE @]
  /\ UNCHANGED <<signedMessageCs, rounds, avs, majority, last, made>>

\* handleSignedMessageThresholdReached, a message with the majority digest.
HandleSignedMessageThresholdReached(s, k, indicesOk) ==
  LET o == calls[s].op
      d == calls[s].digest
      r == ResponseAfter(k, o, d, indicesOk) IN
  /\ Offers(s, k, "thresholdReached")
  /\ d = majority[k]
  /\ AddSignature(k, o, d)
  /\ Answer(s, "nil")
  /\ pending' = [pending EXCEPT ![k] = r]
  /\ phase' = [phase EXCEPT ![k] = IF r.status = "full" THEN "closing" ELSE @]
  /\ UNCHANGED <<signedMessageCs, rounds, avs, majority, last, made>>

\* handleSignedMessageThresholdReached, thresholdReachedTimer fired.
AggregationTimeout(k, indicesOk) ==
  LET d == majority[k] IN
  /\ phase[k] = "thresholdReached"
  /\ pending[k] = None
  /\ pending' = [pending EXCEPT ![k] =
       ResponseFor(k, d, cell[k][first[k][d]], sigs[k][d], indicesOk, TRUE)]
  /\ phase' = [phase EXCEPT ![k] = "closing"]
  /\ UNCHANGED <<signedMessageCs, rounds, avs, cell, first, sigs, majority, last,
                 calls, made>>

\* The receiver of aggregatedResponsesC takes the response.
DeliverResponse(k) ==
  /\ pending[k] # None
  /\ last' = [last EXCEPT ![k] = pending[k]]
  /\ pending' = [pending EXCEPT ![k] = None]
  /\ UNCHANGED <<signedMessageCs, rounds, phase, avs, cell, first, sigs, majority,
                 calls, made>>

\* closeMessageGoroutine, deferred by singleMessageAggregatorGoroutineFunc; the
\* validationInfo of the round dies with the goroutine.
CloseMessageGoroutine(k) ==
  /\ phase[k] = "closing"
  /\ pending[k] = None
  /\ signedMessageCs' = [signedMessageCs EXCEPT ![k] = 0]
  /\ phase' = [phase EXCEPT ![k] = "none"]
  /\ avs' = [avs EXCEPT ![k] = NoStake]
  /\ cell' = [cell EXCEPT ![k] = NoStake]
  /\ first' = [first EXCEPT ![k] = NoFirst]
  /\ sigs' = [sigs EXCEPT ![k] = NoSignatures]
  /\ majority' = [majority EXCEPT ![k] = None]
  /\ UNCHANGED <<rounds, pending, last, calls, made>>

-----------------------------------------------------------------------------

CallStep(s) ==
  \/ InitializeMessageChan(s)
  \/ StartAggregation(s)
  \/ FetchFails(s)
  \/ LookupChan(s)

GoroutineStep(k) ==
  \/ \E s \in Senders :
       \/ RejectSignature(s, k)
       \/ IgnoreNonMajority(s, k)
       \/ \E ok \in BOOLEAN :
            \/ HandleSignedMessagePreThreshold(s, k, ok)
            \/ HandleSignedMessageThresholdReached(s, k, ok)
  \/ MessageExpired(k)
  \/ \E ok \in BOOLEAN : AggregationTimeout(k, ok)
  \/ CloseMessageGoroutine(k)

Next ==
  \/ \E s \in Senders, o \in Operators, k \in Keys, d \in Digests : Call(s, o, k, d)
  \/ \E s \in Senders, k \in TaskKeys : CallForTask(s, k)
  \/ \E s \in Senders : CallStep(s)
  \/ \E k \in Keys : GoroutineStep(k)
  \/ \E k \in Keys : DeliverResponse(k)

Spec == Init /\ [][Next]_vars

-----------------------------------------------------------------------------
(* Fairness.  A runnable goroutine runs; select picks among its ready cases at  *)
(* random, so a case that is ready again and again is taken; timers fire; the   *)
(* aggregator's loop keeps receiving from aggregatedResponsesC.                 *)

Fairness ==
  /\ \A s \in Senders : WF_vars(CallStep(s))
  /\ \A k \in Keys :
       /\ WF_vars(GoroutineStep(k))
       /\ WF_vars(DeliverResponse(k))
       /\ SF_vars(MessageExpired(k))
       /\ SF_vars(\E ok \in BOOLEAN : AggregationTimeout(k, ok))

FairSpec == Spec /\ Fairness

-----------------------------------------------------------------------------
(* Properties *)

\* Every variable stays in its domain.
TypeOK ==
  /\ signedMessageCs \in [Keys -> Nat]
  /\ rounds \in [Keys -> Nat]
  /\ phase \in [Keys -> Phases]
  /\ avs \in [Keys -> AvsStates \cup {NoStake}]
  /\ cell \in [Keys -> Bags]
  /\ first \in [Keys -> [Digests -> Operators \cup {None}]]
  /\ sigs \in [Keys -> [Digests -> Bags]]
  /\ majority \in [Keys -> Digests \cup {None}]
  /\ pending \in [Keys -> Responses \cup {None}]
  /\ last \in [Keys -> Responses \cup {None}]
  /\ calls \in [Senders -> Calls]
  /\ made \in [Operators -> Nat]

Signers(k, d) == SignersOf(sigs[k][d])
SignedStake(k, d) == StakeOf(avs[k], Signers(k, d))
HasQuorum(k, d) == SignedStake(k, d) * 100 >= TotalStake(k) * Threshold
IsQuorumResponse(r) == r # None /\ r.status \in {"reached", "full"}

\* Every operator contributed at most one signature to the round.
DupFree(k) ==
  \A o \in Operators, d, e \in Digests :
    /\ sigs[k][d][o] <= 1
    /\ sigs[k][d][o] > 0 /\ sigs[k][e][o] > 0 => d = e

ResponseBacked(k) ==
  DupFree(k) /\ IsQuorumResponse(pending[k]) =>
    /\ HasQuorum(k, pending[k].digest)
    /\ pending[k].status = "full" => SignedStake(k, pending[k].digest) = TotalStake(k)

\* A response that claims a quorum is backed by it: as long as no operator got
\* two signatures into the round, the distinct registered operators that signed
\* the response's digest hold at least the threshold of the total stake, and all
\* of it when the response says so (handleSignedMessageDigest adds stakes into
\* the first signer's own map, so the totals are not sums by construction).
QuorumBacked == \A k \in Keys : ResponseBacked(k)

NoQuorumMissed(k) ==
  DupFree(k) /\ phase[k] = "preThreshold" /\ pending[k] = None /\ last[k] = None
    => \A d \in Digests : Signers(k, d) # {} => ~HasQuorum(k, d)

\* A quorum is never overlooked: while the goroutine still waits for the
\* threshold and no response of the round failed (GetCheckSignaturesIndices),
\* no digest has the signatures of a quorum.
QuorumNoticed == \A k \in Keys : NoQuorumMissed(k)

\* A key is worked on by one goroutine at a time: at most one caller is fetching
\* the operator state for it, and none while an aggregation goroutine runs; either
\* way the channel is registered (initializeMessageChan's check under the lock).
OneRoundAtATime ==
  \A s \in Senders, k \in Keys :
    /\ calls[s].pc = "fetch" /\ calls[s].key = k =>
         /\ phase[k] = "none"
         /\ signedMessageCs[k] = rounds[k] /\ rounds[k] > 0
         /\ \A t \in Senders \ {s} : ~(calls[t].pc = "fetch" /\ calls[t].key = k)
    /\ phase[k] # "none" => signedMessageCs[k] = rounds[k] /\ rounds[k] > 0

EndsFinished(k) ==
  phase[k] = "closing" /\ pending[k] = None => last[k] # None /\ last[k].finished

\* A round never ends silently: when the goroutine is about to unregister its
\* channel, the last response it delivered was marked Finished.
RoundEndsFinished == \A k \in Keys : EndsFinished(k)

\* Finished is final: after a Finished response nothing else is delivered in the
\* same round, and after a quorum response only responses of the same digest are
\* (Start acts on each response as it comes and never goes back).
ResponsesOfARound ==
  [][\A k \in Keys :
       rounds'[k] = rounds[k] /\ last[k] # None /\ last'[k] \notin {None, last[k]} =>
         /\ ~last[k].finished
         /\ IsQuorumResponse(last[k]) => last'[k].digest = last[k].digest]_vars

\* A published quorum response stands for a sufficient amount of operators, no
\* matter what was sent to the aggregator before: the distinct signers of its
\* digest hold the threshold (docs/docs/design/overview.md:105-112).
QuorumOfDistinctSigners ==
  \A k \in Keys :
    IsQuorumResponse(pending[k]) => HasQuorum(k, pending[k].digest)

\* A checkpoint task is aggregated once: its responses never register the key, so
\* one that comes after the round has ended cannot open another round
\* (ProcessSignedCheckpointTaskResponse skips InitializeMessageIfNotExists).
TaskAggregatedOnce == \A k \in TaskKeys : rounds[k] <= 1

\* Every started round ends: the key becomes free for a new round again.
RoundTerminates == \A k \in Keys : phase[k] # "none" ~> phase[k] = "none"

\* The sender holds a channel that no goroutine will receive from: its round has
\* been closed, or the operator state of its round could not be fetched.
Orphaned(s) ==
  LET k == calls[s].key IN
  Blocked(s) /\ (signedMessageCs[k] # calls[s].chan \/ phase[k] = "none")

\* A caller either gets an answer or holds a channel that lost its goroutine.
CallsReturnOrOrphaned ==
  \A s \in Senders : calls[s].pc # "idle" ~> calls[s].pc = "idle" \/ Orphaned(s)

-----------------------------------------------------------------------------
(* The inductive invariant behind the safety properties. *)

\* A call under way knows its key, and its operator and digest unless it is
\* sendNewCheckpointTask's, which never gets to ProcessNewSignature.
CallsOK ==
  \A s \in Senders :
    calls[s].pc # "idle" =>
      /\ calls[s].key \in Keys
      /\ \/ calls[s].op = None /\ calls[s].pc \in {"initialize", "fetch"}
         \/ calls[s].op \in Operators /\ calls[s].digest \in Digests

\* The first signer of a digest is a signer of it; the digest the goroutine waits
\* to be completed has one.
FirstSigners ==
  \A k \in Keys :
    /\ \A d \in Digests :
         IF first[k][d] = None
         THEN \A o \in Operators : sigs[k][d][o] = 0
         ELSE sigs[k][d][first[k][d]] > 0
    /\ phase[k] = "thresholdReached" =>
         majority[k] \in Digests /\ first[k][majority[k]] # None

\* Without double signatures the first signer's stake map holds the exact stake
\* of the digest's signers, and every other operator's map its own stake.
ExactStakes(k) ==
  DupFree(k) =>
    /\ \A d \in Digests :
         first[k][d] # None => cell[k][first[k][d]] = SignedStake(k, d)
    /\ \A o \in Operators :
         (\A d \in Digests : first[k][d] # o) => cell[k][o] = avs[k][o]

\* How the response being sent and the last one delivered fit the phase.
ResponsesFitPhase(k) ==
  /\ phase[k] = "none" => pending[k] = None
  /\ phase[k] = "preThreshold" =>
       /\ pending[k] # None => ~IsQuorumResponse(pending[k]) /\ ~pending[k].finished
       /\ last[k] # None => ~IsQuorumResponse(last[k]) /\ ~last[k].finished
  /\ phase[k] = "thresholdReached" =>
       /\ pending[k] # None => pending[k].digest = majority[k] /\ ~pending[k].finished
       /\ last[k] # None =>
            ~last[k].finished /\ (IsQuorumResponse(last[k]) => last[k].digest = majority[k])
  /\ phase[k] = "closing" /\ pending[k] # None =>
       /\ pending[k].finished
       /\ last[k] # None =>
            /\ ~last[k].finished
            /\ IsQuorumResponse(last[k]) => pending[k].digest = last[k].digest

TypeInv == TypeOK /\ CallsOK /\ FirstSigners /\ OneRoundAtATime

KeyInv(k) ==
  ExactStakes(k) /\ ResponsesFitPhase(k) /\ ResponseBacked(k) /\ NoQuorumMissed(k)
  /\ EndsFinished(k)

Inv == TypeInv /\ \A k \in Keys : KeyInv(k)

\* A caller about to register the channel of task k, before its round, is
\* sendNewCheckpointTask's, and the only one.
OpensTask(k) ==
  \A s \in Senders :
    calls[s].pc = "initialize" /\ calls[s].key = k =>
      /\ calls[s].op = None
      /\ rounds[k] = 0
      /\ \A t \in Senders \ {s} : ~(calls[t].pc = "initialize" /\ calls[t].key = k)

TaskInv == \A k \in TaskKeys : rounds[k] <= 1 /\ OpensTask(k)
====
