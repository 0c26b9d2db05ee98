------------------------------ MODULE DaIndexer ------------------------------
(***************************************************************************)
(* The indexer, from NEAR to RabbitMQ: indexer/src/block_listener.rs finds *)
(* the submissions in NEAR's blocks and passes them on through a bounded   *)
(* channel; candidates_validator.rs holds them until they have been        *)
(* executed; rmq_publisher.rs publishes them to an exchange that routes    *)
(* them to the queues bound at that time.                                  *)
(*                                                                         *)
(* A candidate is the index of its transaction in da, and every            *)
(* transaction has one payload.  A flush holds the lock of its queue from  *)
(* beginning to end, and only one task puts candidates into it.            *)
(***************************************************************************)
EXTENDS Relayer, FiniteSets

CONSTANTS
  Rollups,       \* rollupIds of the consumer, a sequence
  Rollup,        \* the one whose relayer is modelled
  ChannelSize    \* of the channel of candidates

ASSUME IndexerAssumption == ChannelSize \in Nat \ {0} /\ Rollup \in Range(Rollups)

VARIABLES
  cursor,        \* transactions that the block listener has seen
  blockQueue,    \* its candidates that found the channel full
  candidates,    \* the channel
  validator,     \* whether process_candidates runs, and its queue
  publishC,
  connected,     \* RmqPublisherState::Connected
  exchange,      \* RabbitMQ: the exchange is declared
  bound,         \* RabbitMQ: rollups whose queue is bound
  queue          \* RabbitMQ: the queue of Rollup

indexerVars == <<cursor, blockQueue, candidates, validator, publishC, connected>>
brokerVars == <<exchange, bound, queue>>

IndexerInit ==
  /\ RelayerInit
  /\ cursor = 0
  /\ blockQueue = <<>> /\ candidates = <<>> /\ publishC = <<>>
  /\ validator = [running |-> TRUE, queue |-> <<>>]
  /\ connected = FALSE
  /\ exchange = FALSE /\ bound = {} /\ queue = <<>>

pathVars == <<headsVars, listener, ticker, start, done, da, pendingTx, received, timedOut>>

BlocksOf(tx) == Range(da[tx].blocks)
Lose(txs) == lost' = lost \cup UNION {BlocksOf(tx) : tx \in txs}

-----------------------------------------------------------------------------
(* block_listener.rs *)

\* flush, after the first n candidates have expired: what fits into the channel.
Flushed(n) ==
  LET left == SubSeq(blockQueue, n + 1, Len(blockQueue))
      room == ChannelSize - Len(candidates)
      sent == IF room < Len(left) THEN room ELSE Len(left)
  IN  [sent |-> candidates \o SubSeq(left, 1, sent),
       rest |-> SubSeq(left, sent + 1, Len(left))]

\* process_stream: flush the queue, then send the new candidate or queue it.
ProcessStream(n) ==
  /\ validator.running /\ cursor < Len(da) /\ n <= Len(blockQueue)
  /\ cursor' = cursor + 1
  /\ LET f == Flushed(n)
         fits == f.rest = <<>> /\ Len(f.sent) < ChannelSize
     IN  /\ candidates' = IF fits THEN Append(f.sent, cursor') ELSE f.sent
         /\ blockQueue' = IF fits THEN <<>> ELSE Append(f.rest, cursor')
  /\ Lose({blockQueue[i] : i \in 1..n})
  /\ UNCHANGED <<pathVars, validator, publishC, connected, brokerVars>>

\* The ticker of the block listener.
ListenerFlush(n) ==
  /\ validator.running /\ blockQueue # <<>> /\ n <= Len(blockQueue)
  /\ candidates' = Flushed(n).sent
  /\ blockQueue' = Flushed(n).rest
  /\ Lose({blockQueue[i] : i \in 1..n})
  /\ UNCHANGED <<pathVars, cursor, validator, publishC, connected, brokerVars>>

-----------------------------------------------------------------------------
(* candidates_validator.rs *)

\* Mutant: a failed execution is sent as well.
SucceededAny(tx) == TRUE

\* FinalExecutionStatus::SuccessValue; the submissions of others are executed too.
Succeeded(tx) == da[tx].kind # "failed"

\* The numbers of S in ascending order, as a set of one sequence.
InOrder(S) ==
  {f \in [1..Cardinality(S) -> S] : \A i, j \in 1..Cardinality(S) : i < j => f[i] < f[j]}

\* flush sends the candidates before the first one whose execution has not
\* finished.  NEAR is asked about a candidate until it has, so that its answers
\* are free: the first n candidates of q have finished.
FlushValidator(q, n) ==
  /\ validator' = [validator EXCEPT !.queue = SubSeq(q, n + 1, Len(q))]
  /\ \E executed \in InOrder({i \in 1..n : Succeeded(q[i])}) :
       publishC' = publishC \o [k \in DOMAIN executed |-> q[executed[k]]]
  /\ UNCHANGED <<pathVars, lost, cursor, blockQueue, connected, brokerVars>>

\* process_candidates, for one candidate: it is sent when nothing is left before
\* it and it has finished itself, and queued otherwise.
ProcessCandidate(n) ==
  /\ validator.running /\ candidates # <<>> /\ n <= Len(validator.queue) + 1
  /\ candidates' = Tail(candidates)
  /\ FlushValidator(Append(validator.queue, Head(candidates)), n)

\* The ticker of the validator.
ValidatorFlush(n) ==
  /\ validator.running /\ n \in 1..Len(validator.queue)
  /\ FlushValidator(validator.queue, n)
  /\ UNCHANGED candidates

\* The view client fails in process_candidates: the task ends, with its ticker,
\* its queue and the candidate; the block listener finds the channel closed.
ValidatorFails ==
  /\ validator.running /\ candidates # <<>>
  /\ validator' = [running |-> FALSE, queue |-> <<>>]
  /\ candidates' = <<>> /\ blockQueue' = <<>>
  /\ Lose(Range(candidates) \cup Range(blockQueue) \cup Range(validator.queue))
  /\ UNCHANGED <<pathVars, cursor, publishC, connected, brokerVars>>

-----------------------------------------------------------------------------
(* rmq_publisher.rs *)

\* connect, with exchange_declare.
PublisherConnects ==
  /\ ~connected
  /\ connected' = TRUE
  /\ exchange' = TRUE
  /\ UNCHANGED <<pathVars, lost, cursor, blockQueue, candidates, validator, publishC, bound,
                 queue>>

\* A message that no queue is bound for is dropped by the exchange.
Publish ==
  LET tx == Head(publishC) IN
  /\ connected /\ publishC # <<>>
  /\ publishC' = Tail(publishC)
  /\ IF Rollup \in bound
     THEN queue' = Append(queue, tx) /\ UNCHANGED lost
     ELSE Lose({tx}) /\ UNCHANGED queue
  /\ UNCHANGED <<pathVars, cursor, blockQueue, candidates, validator, connected, exchange,
                 bound>>

\* The message is gone; without publisher confirms an error may go unnoticed.
PublishFails(noticed) ==
  /\ connected /\ publishC # <<>>
  /\ publishC' = Tail(publishC)
  /\ connected' = ~noticed
  /\ Lose({Head(publishC)})
  /\ UNCHANGED <<pathVars, cursor, blockQueue, candidates, validator, brokerVars>>

\* MESSAGE_TTL_MS
MessageExpires ==
  /\ queue # <<>>
  /\ queue' = Tail(queue)
  /\ Lose({Head(queue)})
  /\ UNCHANGED <<pathVars, indexerVars, exchange, bound>>

IndexerStep ==
  \/ ProcessStream(0) \/ ListenerFlush(0)
  \/ \E n \in 0..Len(validator.queue) + 1 : ProcessCandidate(n) \/ ValidatorFlush(n)
  \/ PublisherConnects \/ Publish

\* n candidates have waited for EXPIRATION_TIMEOUT.
IndexerFault ==
  \/ \E n \in 1..Len(blockQueue) : ProcessStream(n) \/ ListenerFlush(n)
  \/ ValidatorFails
  \/ \E b \in BOOLEAN : PublishFails(b)
  \/ MessageExpires

IndexerTypeOK ==
  LET Txs == Seq(DOMAIN da) IN
  /\ cursor \in 0..Len(da)
  /\ blockQueue \in Txs /\ candidates \in Txs /\ Len(candidates) <= ChannelSize
  /\ validator \in [running : BOOLEAN, queue : Txs]
  /\ publishC \in Txs /\ connected \in BOOLEAN
  /\ exchange \in BOOLEAN /\ bound \subseteq Range(Rollups) /\ queue \in Txs

-----------------------------------------------------------------------------
(* The inductive invariant behind the properties. *)

IndexerDomains ==
  /\ cursor \in 0..Len(da)
  /\ blockQueue \in Seq(Nat) /\ publishC \in Seq(Nat)
  /\ candidates \in Seq(Nat) /\ Len(candidates) <= ChannelSize
  /\ validator \in [running : BOOLEAN, queue : Seq(Nat)] /\ queue \in Seq(Nat)

\* The transactions that the indexer and RabbitMQ hold.
Held ==
  Range(blockQueue) \cup Range(candidates) \cup Range(validator.queue) \cup
  Range(publishC) \cup Range(queue)

\* They were included, and those that were published were executed.
HeldIncluded ==
  /\ Held \subseteq 1..Len(da)
  /\ \A tx \in Range(publishC) \cup Range(queue) : Succeeded(tx)
=============================================================================
