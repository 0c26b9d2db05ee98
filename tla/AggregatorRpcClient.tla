------------------------ MODULE AggregatorRpcClient ------------------------
(***************************************************************************)
(* The operator's connection to the aggregator (operator/rpc_client.go):   *)
(* a goroutine per signed message (sendOperatorMessage), one per checkpoint*)
(* request (sendRequest), one per broken connection (handleRpcShutdown) and*)
(* the resend ticker (onTick), which dials and empties unsentMessages.     *)
(*                                                                         *)
(* rpcClientLock is not a variable: a goroutine inside a call of the client*)
(* holds it for reading (Reading), the ticker holds it for writing while it*)
(* dials, and handleRpcShutdown takes it for one step.  unsentMessagesLock *)
(* is held by the ticker while it resends.  A signed message is an         *)
(* identifier, used again once the previous message of that name is        *)
(* settled.                                                                *)
(***************************************************************************)
EXTENDS Integers, Sequences, FiniteSets

CONSTANTS
  Messages,      \* signed messages
  Requests,      \* goroutines that ask for the messages of a checkpoint
  MaxRetries,
  MaxOutages,    \* bound: times that the aggregator goes down
  MaxShutdowns   \* bound: goroutines that wait in handleRpcShutdown

ASSUME RpcClientAssumption ==
  /\ MaxRetries \in Nat \ {0} /\ MaxShutdowns \in Nat \ {0}
  /\ MaxOutages \in Nat
  /\ IsFiniteSet(Messages) /\ IsFiniteSet(Requests)
  /\ Messages \cap Requests = {}

VARIABLES
  aggregator,     \* its RPC server: up or not, since how many outages
  sameCoordinator,\* whether it serves this operator's registry coordinator
  running,        \* whether the operator's process is
  rpcClient,      \* "nil", "open", or "broken": closed by the other side
  notifiedInitialized,
  sender,         \* message -> its goroutine of sendOperatorMessage
  request,        \* goroutine -> its call of sendRequest
  shutdowns,      \* goroutines of handleRpcShutdown that wait for the lock
  ticker,         \* the goroutine of onTick
  unsentMessages,
  i, errorPos,    \* of tryResendFromDeque, counted from 1 and from 0
  accepted,       \* messages that the aggregator has processed
  dropped,        \* messages given up after MaxRetries
  lost            \* messages gone with a process

world == <<aggregator, sameCoordinator, running>>
client == <<rpcClient, notifiedInitialized>>
queue == <<unsentMessages, i, errorPos>>
fate == <<accepted, dropped, lost>>
rpcVars == <<world, client, sender, request, shutdowns, ticker, queue, fate>>

\* State of a new process: NewAggregatorRpcClient.
Fresh ==
  /\ rpcClient = "nil"
  /\ notifiedInitialized = FALSE
  /\ sender = [m \in Messages |-> "none"]
  /\ request = [r \in Requests |-> "none"]
  /\ shutdowns = 0
  /\ ticker = "wait"
  /\ unsentMessages = <<>>
  /\ i = 1 /\ errorPos = 0

RpcInit ==
  /\ aggregator = [up |-> FALSE, outages |-> 0]
  /\ sameCoordinator \in BOOLEAN
  /\ running = TRUE
  /\ Fresh
  /\ accepted = {} /\ dropped = {} /\ lost = {}

-----------------------------------------------------------------------------
(* The aggregator's server and the connection to it (external: net/rpc) *)

AggregatorStarts ==
  /\ ~aggregator.up
  /\ aggregator' = [aggregator EXCEPT !.up = TRUE]
  /\ UNCHANGED <<sameCoordinator, running, client, sender, request, shutdowns, ticker,
                 queue, fate>>

\* An open connection breaks with the server at its other end, one that is being
\* set up too.
AggregatorStops ==
  /\ aggregator.up /\ aggregator.outages < MaxOutages
  /\ aggregator' = [up |-> FALSE, outages |-> aggregator.outages + 1]
  /\ rpcClient' = IF rpcClient = "open" THEN "broken" ELSE rpcClient
  /\ ticker' = IF ticker = "notify" THEN "notifyBroken" ELSE ticker
  /\ UNCHANGED <<sameCoordinator, running, notifiedInitialized, sender, request,
                 shutdowns, queue, fate>>

\* How Call returns.  The server's own errors, and io.ErrUnexpectedEOF of a call
\* that was pending when the server went away, are "error"; rpc.ErrShutdown and a
\* *net.OpError are "network".
Results == IF rpcClient = "open" THEN {"ok", "error"} ELSE {"error", "network"}

\* The aggregator processed the message of a call with this result; a call that a
\* broken connection cut off may have been processed too.
Processed(m, result) ==
  CASE result = "ok" -> accepted' = accepted \cup {m}
    [] result # "ok" /\ rpcClient = "open" -> UNCHANGED accepted
    [] result # "ok" /\ rpcClient = "broken" -> accepted' \in {accepted, accepted \cup {m}}

isShutdownOrNetworkError(result) == result = "network"

-----------------------------------------------------------------------------
(* rpcClientLock, handleRpcError, handleRpcShutdown *)

InCall == {"call", "append"}
Reading ==
  \/ \E m \in Messages : sender[m] \in InCall
  \/ \E r \in Requests : request[r] = "call"
  \/ ticker \in {"resend", "resendCall"}
Dialing == ticker \in {"dial", "notify", "notifyBroken"}

\* Room for one more goroutine of handleRpcShutdown when all calls have failed.
Room ==
  LET calls == {m \in Messages : sender[m] = "call"} \cup {r \in Requests : request[r] = "call"}
  IN  shutdowns + Cardinality(calls) < MaxShutdowns

\* Mutant: the error is not looked at.
IgnoreRpcError(result) == UNCHANGED shutdowns

handleRpcError(result) ==
  shutdowns' = IF isShutdownOrNetworkError(result) THEN shutdowns + 1 ELSE shutdowns

\* Closes whatever client there is by now.
handleRpcShutdown ==
  /\ running /\ shutdowns > 0 /\ ~Reading /\ ~Dialing
  /\ shutdowns' = shutdowns - 1
  /\ rpcClient' = "nil"
  /\ UNCHANGED <<world, notifiedInitialized, sender, request, ticker, queue, fate>>

-----------------------------------------------------------------------------
(* sendOperatorMessage and sendRequest *)

InQueue(m) == \E k \in 1..Len(unsentMessages) : unsentMessages[k].message = m

\* go SendSigned...ToAggregator(m)
Spawn(m) ==
  /\ running /\ sender[m] \in {"none", "done"} /\ ~InQueue(m)
  /\ sender' = [sender EXCEPT ![m] = "spawned"]
  /\ accepted' = accepted \ {m} /\ dropped' = dropped \ {m} /\ lost' = lost \ {m}
  /\ UNCHANGED <<world, client, request, shutdowns, ticker, queue>>

\* Call on a broken client returns rpc.ErrShutdown at once.
SendBegin(m) ==
  /\ running /\ sender[m] = "spawned" /\ ~Dialing /\ Room
  /\ sender' = [sender EXCEPT ![m] = IF rpcClient = "open" THEN "call" ELSE "append"]
  /\ IF rpcClient = "broken" THEN handleRpcError("network") ELSE UNCHANGED shutdowns
  /\ UNCHANGED <<world, client, request, ticker, queue, fate>>

SendReturns(m) ==
  /\ running /\ sender[m] = "call"
  /\ \E result \in Results :
       /\ Processed(m, result)
       /\ handleRpcError(result)
       /\ sender' = [sender EXCEPT ![m] = IF result = "ok" THEN "done" ELSE "append"]
  /\ UNCHANGED <<world, client, request, ticker, queue, dropped, lost>>

appendProtected(m) ==
  /\ running /\ sender[m] = "append" /\ ticker \notin {"resend", "resendCall"}
  /\ unsentMessages' = Append(unsentMessages, [message |-> m, retries |-> 0])
  /\ sender' = [sender EXCEPT ![m] = "done"]
  /\ UNCHANGED <<world, client, request, shutdowns, ticker, i, errorPos, fate>>

\* sendRequest: "failed" is the error that the caller gets.
RequestBegin(r) ==
  /\ running /\ request[r] \in {"none", "answered", "failed"} /\ ~Dialing /\ Room
  /\ request' = [request EXCEPT ![r] = IF rpcClient = "open" THEN "call" ELSE "failed"]
  /\ IF rpcClient = "broken" THEN handleRpcError("network") ELSE UNCHANGED shutdowns
  /\ UNCHANGED <<world, client, sender, ticker, queue, fate>>

RequestReturns(r) ==
  /\ running /\ request[r] = "call"
  /\ \E result \in Results :
       /\ handleRpcError(result)
       /\ request' = [request EXCEPT ![r] = IF result = "ok" THEN "answered" ELSE "failed"]
  /\ UNCHANGED <<world, client, sender, ticker, queue, fate>>

-----------------------------------------------------------------------------
(* onTick *)

TickerStep(pc) ==
  /\ ticker' = pc
  /\ UNCHANGED <<world, sender, request, shutdowns, queue, fate>>

\* InitializeClientIfNotExist
Tick ==
  /\ running /\ ticker = "wait"
  /\ IF rpcClient # "nil" THEN TickerStep("check") ELSE ~Reading /\ TickerStep("dial")
  /\ UNCHANGED client

\* DialHTTP and GetRegistryCoordinatorAddress
DialOk ==
  /\ running /\ ticker = "dial" /\ aggregator.up
  /\ TickerStep("notify")
  /\ UNCHANGED client

\* The dial, the request for the address or the notification fails.
DialFails ==
  /\ running
  /\ ticker = "dial" \/ (Dialing /\ ~notifiedInitialized)
  /\ TickerStep("wait")
  /\ UNCHANGED client

\* NotifyOperatorInitialization, unless it has been called; the client is kept
\* only if the aggregator serves the configured registry coordinator.
SetClient ==
  /\ running
  /\ ticker = "notify" \/ (ticker = "notifyBroken" /\ notifiedInitialized)
  /\ notifiedInitialized' = TRUE
  /\ sameCoordinator
  /\ rpcClient' = IF ticker = "notify" THEN "open" ELSE "broken"
  /\ TickerStep("check")

\* The length is read under unsentMessagesLock only.
CheckUnsent ==
  /\ running /\ ticker = "check"
  /\ TickerStep(IF unsentMessages = <<>> THEN "wait" ELSE "lock")
  /\ UNCHANGED client

\* tryResendFromDeque takes both locks.
ResendBegin ==
  /\ running /\ ticker = "lock"
  /\ ticker' = "resend"
  /\ i' = 1 /\ errorPos' = 0
  /\ UNCHANGED <<world, client, sender, request, shutdowns, unsentMessages, fate>>

\* The entries from `from` on are moved down to `to`, and the rest is cut off.
Compact(s, from, to) == SubSeq(s, 1, to) \o SubSeq(s, from, Len(s))

ResendEnd(s) ==
  /\ unsentMessages' = s
  /\ ticker' = "wait" /\ i' = 1 /\ errorPos' = 0

ResendCall ==
  /\ running /\ ticker = "resend" /\ i <= Len(unsentMessages) /\ rpcClient = "open"
  /\ TickerStep("resendCall")
  /\ UNCHANGED client

\* The head of the rest was sent.
ResendOk ==
  /\ Processed(unsentMessages[i].message, "ok")
  /\ i' = i + 1
  /\ ticker' = "resend"
  /\ UNCHANGED <<unsentMessages, errorPos, dropped>>

\* Mutant: the rest is cut off after a shutdown.
ResendForgets ==
  /\ ResendEnd(SubSeq(unsentMessages, 1, errorPos))
  /\ UNCHANGED dropped

\* A shutdown keeps the head and all that follow; nobody is told of it.
ResendShutdown ==
  /\ ResendEnd(Compact(unsentMessages, i, errorPos))
  /\ UNCHANGED dropped

\* Mutant: a failed entry stays where it was.
ResendErrorInPlace ==
  LET entry == [unsentMessages[i] EXCEPT !.retries = @ + 1]
      last == entry.retries >= MaxRetries
  IN  /\ unsentMessages' = IF last THEN unsentMessages
                           ELSE [unsentMessages EXCEPT ![i] = entry]
      /\ errorPos' = IF last THEN errorPos ELSE errorPos + 1
      /\ dropped' = IF last THEN dropped \cup {entry.message} ELSE dropped
      /\ i' = i + 1
      /\ ticker' = "resend"

\* The entry is kept for the next tick, until it has failed MaxRetries times.
ResendError ==
  LET entry == [unsentMessages[i] EXCEPT !.retries = @ + 1]
      last == entry.retries >= MaxRetries
  IN  /\ unsentMessages' = IF last THEN unsentMessages
                           ELSE [unsentMessages EXCEPT ![errorPos + 1] = entry]
      /\ errorPos' = IF last THEN errorPos ELSE errorPos + 1
      /\ dropped' = IF last THEN dropped \cup {entry.message} ELSE dropped
      /\ i' = i + 1
      /\ ticker' = "resend"

ResendReturns ==
  /\ running /\ ticker = "resendCall"
  /\ \/ rpcClient = "open" /\ ResendOk
     \/ rpcClient = "open" /\ ResendError /\ UNCHANGED accepted
     \/ rpcClient = "broken" /\ ResendError /\ Processed(unsentMessages[i].message, "error")
     \/ rpcClient = "broken" /\ ResendShutdown /\ Processed(unsentMessages[i].message, "network")
  /\ UNCHANGED <<world, client, sender, request, shutdowns, lost>>

\* Call on a broken client.
ResendAtOnce ==
  /\ running /\ ticker = "resend" /\ i <= Len(unsentMessages) /\ rpcClient = "broken"
  /\ ResendShutdown
  /\ UNCHANGED <<world, client, sender, request, shutdowns, accepted, lost>>

ResendDone ==
  /\ running /\ ticker = "resend" /\ i > Len(unsentMessages)
  /\ ResendEnd(SubSeq(unsentMessages, 1, errorPos))
  /\ UNCHANGED <<world, client, sender, request, shutdowns, fate>>

-----------------------------------------------------------------------------
(* The end of the process *)

\* What a running process has not delivered or given up.
Unsettled ==
  {m \in Messages : sender[m] \in {"spawned", "call", "append"} \/ InQueue(m)} \ dropped

Exit ==
  /\ running' = FALSE
  /\ lost' = lost \cup (Unsettled \ accepted)
  /\ UNCHANGED <<aggregator, sameCoordinator, client, sender, request, shutdowns, ticker,
                 queue, accepted, dropped>>

\* logger.Fatal: the aggregator serves another registry coordinator.
FatalCoordinator ==
  /\ running /\ ticker = "notify" /\ ~sameCoordinator
  /\ Exit

\* Call on a nil client.
PanicNilClient ==
  /\ running /\ ticker = "resend" /\ i <= Len(unsentMessages) /\ rpcClient = "nil"
  /\ Exit

Restart ==
  /\ ~running
  /\ running' = TRUE
  /\ rpcClient' = "nil" /\ notifiedInitialized' = FALSE
  /\ sender' = [m \in Messages |-> "none"] /\ request' = [r \in Requests |-> "none"]
  /\ shutdowns' = 0 /\ ticker' = "wait"
  /\ unsentMessages' = <<>> /\ i' = 1 /\ errorPos' = 0
  /\ UNCHANGED <<aggregator, sameCoordinator, fate>>

-----------------------------------------------------------------------------
RpcNext ==
  \/ AggregatorStarts \/ AggregatorStops \/ handleRpcShutdown
  \/ \E m \in Messages : Spawn(m) \/ SendBegin(m) \/ SendReturns(m) \/ appendProtected(m)
  \/ \E r \in Requests : RequestBegin(r) \/ RequestReturns(r)
  \/ Tick \/ DialOk \/ DialFails \/ SetClient \/ CheckUnsent
  \/ ResendBegin \/ ResendCall \/ ResendReturns \/ ResendAtOnce \/ ResendDone
  \/ FatalCoordinator \/ PanicNilClient \/ Restart

RpcSpec == RpcInit /\ [][RpcNext]_rpcVars

\* Goroutines run and calls return.  A writer of rpcClientLock is not overtaken by
\* later readers for ever, nor a reader by writers (sync.RWMutex), and a waiter of
\* unsentMessagesLock gets it in the end (sync.Mutex).  The aggregator comes back,
\* dials succeed in the end, and checkpoints keep being asked for.
RpcFairness ==
  /\ WF_rpcVars(AggregatorStarts) /\ WF_rpcVars(Restart) /\ WF_rpcVars(PanicNilClient)
  /\ WF_rpcVars(\/ \E m \in Messages : SendReturns(m)
                \/ \E r \in Requests : RequestReturns(r))
  /\ SF_rpcVars(\E m \in Messages : appendProtected(m))
  /\ WF_rpcVars(DialFails \/ CheckUnsent \/ ResendBegin \/ ResendCall \/ ResendReturns
                   \/ ResendAtOnce \/ ResendDone)
  /\ SF_rpcVars(Tick) /\ SF_rpcVars(DialOk) /\ SF_rpcVars(SetClient \/ FatalCoordinator)
  /\ SF_rpcVars(\E r \in Requests : RequestBegin(r))
  /\ SF_rpcVars(handleRpcShutdown)

RpcFairSpec == RpcSpec /\ RpcFairness

-----------------------------------------------------------------------------
(* Properties *)

Entries == [message : Messages, retries : 0..MaxRetries - 1]

\* What is still to be sent: while the ticker resends, the entries between errorPos
\* and i have been dealt with.
Pending ==
  IF ticker \in {"resend", "resendCall"} THEN Compact(unsentMessages, i, errorPos)
  ELSE unsentMessages
MessagesOf(s) == [k \in 1..Len(s) |-> s[k].message]

\* Type invariant of the client; the cursors of tryResendFromDeque stay in range.
RpcTypeOK ==
  /\ aggregator \in [up : BOOLEAN, outages : 0..MaxOutages]
  /\ sameCoordinator \in BOOLEAN
  /\ running \in BOOLEAN
  /\ rpcClient \in {"nil", "open", "broken"}
  /\ notifiedInitialized \in BOOLEAN
  /\ sender \in [Messages -> {"none", "spawned", "call", "append", "done"}]
  /\ request \in [Requests -> {"none", "call", "answered", "failed"}]
  /\ shutdowns \in 0..MaxShutdowns
  /\ ticker \in {"wait", "dial", "notify", "notifyBroken", "check", "lock", "resend",
                 "resendCall"}
  /\ unsentMessages \in Seq(Entries)
  /\ errorPos \in Nat /\ i \in Nat /\ errorPos < i
  /\ i <= Len(unsentMessages) + 1
  /\ accepted \subseteq Messages /\ dropped \subseteq Messages /\ lost \subseteq Messages

\* Nothing is lost silently: a message whose goroutine of sendOperatorMessage has
\* ended was processed by the aggregator, was given up after MaxRetries, or is among
\* the entries that tryResendFromDeque still has to send, at every moment of its
\* compaction in place; no message is among them twice.
NothingLost ==
  running =>
    /\ \A m \in Messages : sender[m] = "done" =>
         m \in accepted \cup dropped \/ \E k \in 1..Len(Pending) : Pending[k].message = m
    /\ \A j, k \in 1..Len(Pending) : Pending[j].message = Pending[k].message => j = k

\* The queue keeps its order: a step of a process leaves the messages to be sent as
\* they are, appends one, or takes one out that the aggregator has processed or that
\* has failed MaxRetries times.
QueueStep ==
  [][running /\ running' =>
       \/ MessagesOf(Pending') = MessagesOf(Pending)
       \/ \E m \in Messages : MessagesOf(Pending') = Append(MessagesOf(Pending), m)
       \/ \E k \in 1..Len(Pending) :
            /\ MessagesOf(Pending') = Compact(MessagesOf(Pending), k + 1, k - 1)
            /\ Pending[k].message \in accepted' \/ Pending[k].retries + 1 = MaxRetries]_rpcVars

\* An operator never gives a message to an aggregator of another registry
\* coordinator: dialAggregatorRpcClient exits before it publishes the client.
OnlyOwnAggregator == ~sameCoordinator => accepted = {} /\ rpcClient = "nil"

\* Every queued message is sent or given up in the end.  The ticker only dials when
\* rpcClient is nil, and a failed resend leaves a broken client in place: the queue
\* moves again because some request or message fails and handleRpcShutdown runs.
QueueDrains ==
  \A m \in Messages : (\E k \in 1..Len(Pending) : Pending[k].message = m)
                       ~> ~(\E k \in 1..Len(Pending) : Pending[k].message = m)

=============================================================================
