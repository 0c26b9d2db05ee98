------------------------------- MODULE DaPath -------------------------------
(***************************************************************************)
(* The way of a block from its rollup's node to an operator: the relayer,  *)
(* NEAR DA, the indexer, RabbitMQ, and the operator's consumer,            *)
(* operator/consumer/consumer.go and queues_listener.go.                   *)
(*                                                                         *)
(* The consumer keeps a connection with one channel, on which it declares, *)
(* binds and consumes the queue of each rollup; a goroutine for each queue *)
(* hands the blocks of a delivery to the attestor and then acknowledges    *)
(* it.  When the channel closes RabbitMQ requeues what is not acknowledged *)
(* while the goroutine goes on with the delivery it has.                   *)
(*                                                                         *)
(* An error of a call on a channel has closed it (amqp091-go), and only    *)
(* errors of channels are recoverable.                                     *)
(***************************************************************************)
EXTENDS DaIndexer

CONSTANTS
  MaxInputs,     \* bound of the rollup's blocks and the submissions of others
  MaxEvents      \* bound of these and of everything that goes wrong

ASSUME PathAssumption == MaxInputs \in Nat /\ MaxEvents \in Nat

VARIABLES
  consumer,      \* the goroutine of reconnect; conn is whether its connection lives
  listeners,     \* goroutines of listen for Rollup that have, or may get, a delivery
  mqBlocks,      \* blocks that the attestor received, with their transaction
  faults

consumerVars == <<consumer, listeners, mqBlocks>>
daVars == <<pathVars, lost, indexerVars, brokerVars, consumerVars, faults>>

Idle(gen) == [gen |-> gen, open |-> TRUE, tx |-> 0, todo |-> <<>>]

PathInit ==
  /\ IndexerInit
  /\ consumer = [pc |-> "dial", next |-> 1, conn |-> FALSE, gen |-> 0]
  /\ listeners = {}
  /\ mqBlocks = {}
  /\ faults = 0

UpstreamUnchanged == UNCHANGED <<pathVars, lost, indexerVars>>

-----------------------------------------------------------------------------
(* reconnect, ResetChannel and setupChannel *)

Connect ==
  /\ consumer.pc = "dial"
  /\ consumer' = [consumer EXCEPT !.pc = "setup", !.next = 1, !.conn = TRUE, !.gen = @ + 1]
  /\ UpstreamUnchanged /\ UNCHANGED <<brokerVars, listeners, mqBlocks>>

\* Declare, bind and consume the next queue, and listen.
SetupQueue ==
  LET rollup == Rollups[consumer.next] IN
  /\ consumer.pc = "setup" /\ consumer.conn /\ exchange
  /\ bound' = bound \cup {rollup}
  /\ listeners' = IF rollup = Rollup THEN listeners \cup {Idle(consumer.gen)} ELSE listeners
  /\ consumer' = IF consumer.next = Len(Rollups) THEN [consumer EXCEPT !.pc = "ready"]
                 ELSE [consumer EXCEPT !.next = @ + 1]
  /\ UpstreamUnchanged /\ UNCHANGED <<exchange, queue, mqBlocks>>

\* What the listeners of the channel have not acknowledged goes back to the head.
ChannelCloses ==
  /\ \E back \in InOrder({l.tx : l \in {k \in listeners : k.open /\ k.tx # 0}}) :
       queue' = back \o queue
  /\ listeners' = {[l EXCEPT !.open = FALSE] : l \in {k \in listeners : k.tx # 0}}

\* setupChannel fails because there is no exchange to bind to, or otherwise.
SetupFails ==
  /\ consumer.pc = "setup" /\ consumer.conn
  /\ consumer' = [consumer EXCEPT !.pc = "retry"]
  /\ ChannelCloses
  /\ UpstreamUnchanged /\ UNCHANGED <<exchange, bound, mqBlocks>>

\* RECHANNEL_DELAY is over.
RetrySetup ==
  /\ consumer.pc = "retry" /\ consumer.conn
  /\ consumer' = [consumer EXCEPT !.pc = "setup", !.next = 1]
  /\ UpstreamUnchanged /\ UNCHANGED <<brokerVars, listeners, mqBlocks>>

\* The connection closes during the setup, which fails: ResetChannel gives up for good.
SetupGivesUp ==
  /\ consumer.pc \in {"setup", "retry"} /\ ~consumer.conn
  /\ consumer' = [consumer EXCEPT !.pc = "returned"]
  /\ UpstreamUnchanged /\ UNCHANGED <<brokerVars, listeners, mqBlocks>>

\* Mutant: after an error that cannot be recovered the loop goes on waiting.
ReconnectWaits ==
  /\ consumer.pc = "ready" /\ ~consumer.conn
  /\ UpstreamUnchanged /\ UNCHANGED <<brokerVars, consumerVars>>

\* The channel or the connection of a consumer that was set up has closed.
\* The break leaves the select statement only, so that any error reconnects.
Reconnect ==
  /\ consumer.pc = "ready" /\ ~consumer.conn
  /\ consumer' = [consumer EXCEPT !.pc = "dial"]
  /\ UpstreamUnchanged /\ UNCHANGED <<brokerVars, listeners, mqBlocks>>

\* The connection closes, or the channel of a consumer that was set up.
ConnectionCloses ==
  /\ consumer.conn /\ consumer.pc # "returned"
  /\ consumer' = [consumer EXCEPT !.conn = FALSE]
  /\ ChannelCloses
  /\ UpstreamUnchanged /\ UNCHANGED <<exchange, bound, mqBlocks>>

\* Close of a consumer that is ready.  The goroutine sees the cancelled context,
\* or first the nil that a closed notification channel gives, and panics.
ConsumerCloses ==
  /\ consumer.pc = "ready" /\ consumer.conn
  /\ \E pc \in {"returned", "panicked"} : consumer' = [consumer EXCEPT !.pc = pc, !.conn = FALSE]
  /\ ChannelCloses
  /\ UpstreamUnchanged /\ UNCHANGED <<exchange, bound, mqBlocks>>

-----------------------------------------------------------------------------
(* listen *)

Update(l, k) == listeners' = (listeners \ {l}) \cup {k}

\* A delivery in which nothing decodes is rejected, or acknowledged without blocks.
TakeDelivery(l) ==
  LET tx == Head(queue) IN
  /\ l.open /\ l.tx = 0 /\ queue # <<>>
  /\ queue' = Tail(queue)
  /\ IF da[tx].kind = "foreign" THEN UNCHANGED listeners
     ELSE Update(l, [l EXCEPT !.tx = tx, !.todo = da[tx].blocks])
  /\ UpstreamUnchanged /\ UNCHANGED <<exchange, bound, consumer, mqBlocks>>

\* receivedBlocksC <- blockData, received by the attestor
SendBlock(l) ==
  /\ l.todo # <<>>
  /\ mqBlocks' = mqBlocks \cup {[block |-> Head(l.todo), tx |-> l.tx]}
  /\ Update(l, [l EXCEPT !.todo = Tail(@)])
  /\ UpstreamUnchanged /\ UNCHANGED <<brokerVars, consumer>>

\* Mutant: a delivery is acknowledged when it has arrived.
AckEarly(l) ==
  /\ l.tx # 0
  /\ IF l.open THEN Update(l, Idle(l.gen)) ELSE listeners' = listeners \ {l}
  /\ UpstreamUnchanged /\ UNCHANGED <<brokerVars, consumer, mqBlocks>>

\* The acknowledgement on a closed channel fails unnoticed, and the goroutine returns.
Ack(l) ==
  /\ l.tx # 0 /\ l.todo = <<>>
  /\ IF l.open THEN Update(l, Idle(l.gen)) ELSE listeners' = listeners \ {l}
  /\ UpstreamUnchanged /\ UNCHANGED <<brokerVars, consumer, mqBlocks>>

-----------------------------------------------------------------------------
ConsumerStep ==
  \/ Connect \/ SetupQueue \/ (~exchange /\ SetupFails) \/ RetrySetup \/ SetupGivesUp \/ Reconnect
  \/ \E l \in listeners : TakeDelivery(l) \/ SendBlock(l) \/ Ack(l)

ConsumerFault == (exchange /\ SetupFails) \/ ConnectionCloses \/ ConsumerCloses

Inputs == headNumber + Cardinality({tx \in DOMAIN da : da[tx].kind = "foreign"})

RelayerOnly(A) == A /\ UNCHANGED <<indexerVars, brokerVars, consumerVars>>

Step ==
  \/ RelayerOnly(RelayerStep)
  \/ IndexerStep /\ UNCHANGED consumerVars

Fault ==
  /\ Inputs + faults < MaxEvents
  /\ faults' = faults + 1
  /\ \/ RelayerOnly(RelayerFault)
     \/ IndexerFault /\ UNCHANGED consumerVars
     \/ ConsumerFault

Environment ==
  \/ /\ Inputs < MaxInputs /\ Inputs + faults < MaxEvents
     /\ RelayerOnly((NewHead /\ UNCHANGED relayerVars) \/ OtherSubmits)
  \/ \E batch \in pendingTx : RelayerOnly(IncludeLate(batch))

PathNext ==
  \/ (Step \/ ConsumerStep \/ Environment) /\ UNCHANGED faults
  \/ Fault

PathSpec == PathInit /\ [][PathNext]_daVars

\* The goroutines and tasks go on.  Setting up a channel before there is an
\* exchange goes round in circles, hence the consumer's own conjunct.
PathFairSpec ==
  /\ PathSpec
  /\ WF_daVars(Step /\ UNCHANGED faults)
  /\ WF_daVars(ConsumerStep /\ UNCHANGED faults)

-----------------------------------------------------------------------------
\* Type invariant.
PathTypeOK ==
  /\ RelayerTypeOK /\ IndexerTypeOK
  /\ consumer \in [pc : {"dial", "setup", "retry", "ready", "returned", "panicked"},
                   next : 1..Len(Rollups), conn : BOOLEAN, gen : Nat]
  /\ listeners \subseteq [gen : Nat, open : BOOLEAN, tx : 0..Len(da), todo : Batches]
  /\ mqBlocks \subseteq [block : 1..headNumber, tx : DOMAIN da]

\* A block reaches the attestor under a transaction of NEAR DA that holds it and
\* was executed, as the message that the operator signs says.
ReceivedFromDa ==
  \A m \in mqBlocks : m.block \in BlocksOf(m.tx) /\ da[m.tx].kind = "ok"

Carried(txs) == UNION {BlocksOf(tx) : tx \in txs}

InTransit ==
  Range(listener.blocks) \cup (IF start.pc = "submit" THEN Range(start.batch) ELSE {}) \cup
  Carried(cursor + 1..Len(da)) \cup Carried(Range(blockQueue)) \cup
  Carried(Range(candidates)) \cup Carried(Range(validator.queue)) \cup
  Carried(Range(publishC)) \cup Carried(Range(queue)) \cup
  UNION {Range(l.todo) : l \in listeners}

Delivered == {m.block : m \in mqBlocks}

\* A header that the relayer received is under way, has reached the attestor, or
\* was given up at one of the places that give up: retries that ran out, an
\* expired or failed candidate, a message that was not published or not routed
\* in time.  Batches, queues, redeliveries and acknowledgements lose none.
NoBlockVanishes == Range(received) \subseteq InTransit \cup Delivered \cup lost

\* Parts of the path that have come to an end.
Stopped ==
  \/ done \/ TickerLost \/ ~validator.running
  \/ consumer.pc \in {"returned", "panicked"}

\* Every header that the relayer received reaches the attestor or was given up,
\* however often connections are lost, unless a part of the path has stopped.
BlocksArrive == []<>(Range(received) \subseteq Delivered \cup lost \/ Stopped)

-----------------------------------------------------------------------------
(* The inductive invariant behind the properties. *)

Listening == [gen : Nat, open : BOOLEAN, tx : Nat, todo : Seq(Nat)]

\* A goroutine has a delivery of an executed transaction, whose blocks it sends.
DeliveriesOfDa ==
  /\ consumer \in [pc : {"dial", "setup", "retry", "ready", "returned", "panicked"},
                   next : Nat, conn : BOOLEAN, gen : Nat]
  /\ listeners \subseteq Listening /\ IsFiniteSet(listeners)
  /\ \A l \in listeners :
       /\ l.tx = 0 => l.todo = <<>>
       /\ l.tx # 0 => /\ l.tx \in 1..Len(da) /\ da[l.tx].kind = "ok"
                      /\ Range(l.todo) \subseteq BlocksOf(l.tx)
  /\ \A m \in mqBlocks : m.tx \in 1..Len(da)
=============================================================================
