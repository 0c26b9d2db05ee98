---------------------- MODULE AggregatorRpcClient_proofs ----------------------
(***************************************************************************)
(* Proofs about AggregatorRpcClient, for any number of messages, requests, *)
(* retries, outages and waiting goroutines, and any length of the queue.   *)
(*                                                                         *)
(* tryResendFromDeque compacts unsentMessages in place.  The proofs follow *)
(* the positions that still count (Live): those before errorPos, which are *)
(* kept, and those from i on, which are to come.  An entry of the queue is *)
(* that of a goroutine that has ended, so a message that is appended is    *)
(* not there yet.                                                          *)
(***************************************************************************)
EXTENDS AggregatorRpcClient, FiniteSetTheorems, SequenceTheorems, TLAPS

\* A leaf that names no prover is Zenon's.
USE Zenon

Resending == ticker \in {"resend", "resendCall"}

\* Positions of the queue that count.
Live ==
  IF Resending THEN (1..errorPos) \cup (i..Len(unsentMessages)) ELSE 1..Len(unsentMessages)

Calls == {m \in Messages : sender[m] = "call"} \cup {r \in Requests : request[r] = "call"}

\* A call has a client, which no other aggregator gave, and has room to fail.
ClientInv ==
  /\ Calls # {} \/ ticker = "resendCall" => rpcClient # "nil"
  /\ ~sameCoordinator => rpcClient = "nil" /\ accepted = {}
  /\ shutdowns + Cardinality(Calls) <= MaxShutdowns
  /\ ticker = "resendCall" => i <= Len(unsentMessages)

QueueInv ==
  /\ \A k \in 1..Len(unsentMessages) : sender[unsentMessages[k].message] = "done"
  /\ \A m \in Messages : sender[m] = "done" =>
       m \in accepted \cup dropped \/ \E k \in Live : unsentMessages[k].message = m
  /\ \A j, k \in Live : unsentMessages[j].message = unsentMessages[k].message => j = k

RpcInv == RpcTypeOK /\ ClientInv /\ QueueInv

-----------------------------------------------------------------------------
(* The queue *)

\* Where the entries of a compacted queue were.
LEMMA Compacted ==
  ASSUME NEW S, NEW s \in Seq(S), NEW from \in 1..Len(s) + 1, NEW to \in 0..from - 1
  PROVE  /\ Compact(s, from, to) \in Seq(S)
         /\ Len(Compact(s, from, to)) = to + Len(s) - from + 1
         /\ \A k \in 1..to : Compact(s, from, to)[k] = s[k]
         /\ \A k \in from..Len(s) :
              /\ k - from + 1 + to \in to + 1..Len(Compact(s, from, to))
              /\ Compact(s, from, to)[k - from + 1 + to] = s[k]
         /\ \A k \in to + 1..Len(Compact(s, from, to)) :
              /\ k - to + from - 1 \in from..Len(s)
              /\ Compact(s, from, to)[k] = s[k - to + from - 1]
<1> DEFINE a == SubSeq(s, 1, to)
           b == SubSeq(s, from, Len(s))
<1>1. Len(s) \in Nat
  BY SMT
<1>2. a \in Seq(S) /\ Len(a) = to /\ \A k \in 1..to : a[k] = s[k]
  BY <1>1, SMT
<1>3. b \in Seq(S) /\ Len(b) = Len(s) - from + 1
  BY <1>1, SMT
<1>4. \A k \in 1..Len(s) - from + 1 : b[k] = s[from + k - 1]
  BY <1>1, SMT
<1>5. Compact(s, from, to) = a \o b
  BY DEF Compact
<1> HIDE DEF a, b
<1>6. a \o b \in Seq(S) /\ Len(a \o b) = to + Len(s) - from + 1
  <2>1. a \o b \in Seq(S) /\ Len(a \o b) = Len(a) + Len(b)
    BY <1>2, <1>3, ConcatProperties
  <2> QED BY <1>1, <1>2, <1>3, <2>1, SMT
<1>7. \A k \in 1..to : (a \o b)[k] = s[k]
  BY <1>1, <1>2, <1>3, SMT
<1>8. ASSUME NEW k \in to + 1..Len(a \o b)
      PROVE  k - to + from - 1 \in from..Len(s) /\ (a \o b)[k] = s[k - to + from - 1]
  <2>1. k - to \in 1..Len(s) - from + 1 /\ from + (k - to) - 1 = k - to + from - 1
    BY <1>1, <1>6, SMT
  <2>2. (a \o b)[k] = b[k - to]
    <3>1. k \in 1..Len(a) + Len(b) /\ k > Len(a) /\ Len(a) = to
      BY <1>1, <1>2, <1>3, <1>6, SMT
    <3>2. (a \o b)[k] = IF k <= Len(a) THEN a[k] ELSE b[k - Len(a)]
      BY <1>2, <1>3, <3>1, ConcatProperties
    <3>3. ~(k <= Len(a)) /\ k - Len(a) = k - to
      BY <1>1, <3>1, SMT
    <3> QED BY <3>2, <3>3
  <2>3. b[k - to] = s[k - to + from - 1]
    BY <1>4, <2>1
  <2>4. k - to + from - 1 \in from..Len(s)
    BY <1>1, <2>1, SMT
  <2> QED BY <2>2, <2>3, <2>4
<1>9. ASSUME NEW k \in from..Len(s)
      PROVE  /\ k - from + 1 + to \in to + 1..Len(a \o b)
             /\ (a \o b)[k - from + 1 + to] = s[k]
  <2>1. k - from + 1 + to \in to + 1..Len(a \o b)
    BY <1>1, <1>6, SMT
  <2>2. (k - from + 1 + to) - to + from - 1 = k
    BY <1>1, SMT
  <2> QED BY <1>8, <2>1, <2>2
<1> QED BY <1>5, <1>6, <1>7, <1>8, <1>9

-----------------------------------------------------------------------------
(* Types *)

\* The goroutines move one at a time, or all of them are gone with the process.
LEMMA GoroutinesMove ==
  ASSUME RpcTypeOK, [RpcNext]_rpcVars
  PROVE  /\ sender' \in [Messages -> {"none", "spawned", "call", "append", "done"}]
         /\ request' \in [Requests -> {"none", "call", "answered", "failed"}]
<1>1. \/ sender' = sender
      \/ \E m \in Messages, pc \in {"spawned", "call", "append", "done"} :
           sender' = [sender EXCEPT ![m] = pc]
      \/ sender' = [m \in Messages |-> "none"]
  BY DEF RpcNext, AggregatorStarts, AggregatorStops, handleRpcShutdown, Spawn, SendBegin,
    SendReturns, appendProtected, RequestBegin, RequestReturns, Tick, DialOk, DialFails,
    SetClient, CheckUnsent, TickerStep, ResendBegin, ResendCall, ResendReturns, ResendOk,
    ResendError, ResendShutdown, ResendEnd, ResendAtOnce, ResendDone, FatalCoordinator,
    PanicNilClient, Exit, Restart, rpcVars, world, client, queue, fate
<1>2. \/ request' = request
      \/ \E r \in Requests, pc \in {"call", "answered", "failed"} :
           request' = [request EXCEPT ![r] = pc]
      \/ request' = [r \in Requests |-> "none"]
  BY DEF RpcNext, AggregatorStarts, AggregatorStops, handleRpcShutdown, Spawn, SendBegin,
    SendReturns, appendProtected, RequestBegin, RequestReturns, Tick, DialOk, DialFails,
    SetClient, CheckUnsent, TickerStep, ResendBegin, ResendCall, ResendReturns, ResendOk,
    ResendError, ResendShutdown, ResendEnd, ResendAtOnce, ResendDone, FatalCoordinator,
    PanicNilClient, Exit, Restart, rpcVars, world, client, queue, fate
<1>3. sender' \in [Messages -> {"none", "spawned", "call", "append", "done"}]
  BY <1>1 DEF RpcTypeOK
<1>4. request' \in [Requests -> {"none", "call", "answered", "failed"}]
  BY <1>2 DEF RpcTypeOK
<1> QED BY <1>3, <1>4

\* The world, the client and the ticker.
LEMMA ClientTyped ==
  ASSUME RpcTypeOK, [RpcNext]_rpcVars
  PROVE  /\ aggregator' \in [up : BOOLEAN, outages : 0..MaxOutages]
         /\ sameCoordinator' \in BOOLEAN /\ running' \in BOOLEAN
         /\ rpcClient' \in {"nil", "open", "broken"} /\ notifiedInitialized' \in BOOLEAN
         /\ ticker' \in {"wait", "dial", "notify", "notifyBroken", "check", "lock", "resend",
                         "resendCall"}
<1>1. \/ aggregator' = aggregator
      \/ aggregator' = [aggregator EXCEPT !.up = TRUE]
      \/ /\ aggregator.outages < MaxOutages
         /\ aggregator' = [up |-> FALSE, outages |-> aggregator.outages + 1]
  BY DEF RpcNext, AggregatorStarts, AggregatorStops, handleRpcShutdown, Spawn, SendBegin,
    SendReturns, appendProtected, RequestBegin, RequestReturns, Tick, DialOk, DialFails,
    SetClient, CheckUnsent, TickerStep, ResendBegin, ResendCall, ResendReturns, ResendOk,
    ResendError, ResendShutdown, ResendEnd, ResendAtOnce, ResendDone, FatalCoordinator,
    PanicNilClient, Exit, Restart, rpcVars, world, client, queue, fate
<1>2. aggregator' \in [up : BOOLEAN, outages : 0..MaxOutages]
  <2>1. /\ aggregator \in [up : BOOLEAN, outages : 0..MaxOutages]
        /\ MaxOutages \in Nat
    BY RpcClientAssumption DEF RpcTypeOK
  <2>2. CASE aggregator' = [aggregator EXCEPT !.up = TRUE]
    BY <2>1, <2>2
  <2>3. CASE /\ aggregator.outages < MaxOutages
             /\ aggregator' = [up |-> FALSE, outages |-> aggregator.outages + 1]
    <3>1. aggregator.outages + 1 \in 0..MaxOutages
      BY <2>1, <2>3, SMT
    <3> QED BY <2>3, <3>1
  <2> QED BY <1>1, <2>1, <2>2, <2>3
<1>3. /\ sameCoordinator' = sameCoordinator
      /\ running' = running \/ running' = TRUE \/ running' = FALSE
      /\ notifiedInitialized' = notifiedInitialized \/ notifiedInitialized' = TRUE
           \/ notifiedInitialized' = FALSE
  BY DEF RpcNext, AggregatorStarts, AggregatorStops, handleRpcShutdown, Spawn, SendBegin,
    SendReturns, appendProtected, RequestBegin, RequestReturns, Tick, DialOk, DialFails,
    SetClient, CheckUnsent, TickerStep, ResendBegin, ResendCall, ResendReturns, ResendOk,
    ResendError, ResendShutdown, ResendEnd, ResendAtOnce, ResendDone, FatalCoordinator,
    PanicNilClient, Exit, Restart, rpcVars, world, client, queue, fate
<1>4. rpcClient' = rpcClient \/ rpcClient' \in {"nil", "open", "broken"}
  BY DEF RpcNext, AggregatorStarts, AggregatorStops, handleRpcShutdown, Spawn, SendBegin,
    SendReturns, appendProtected, RequestBegin, RequestReturns, Tick, DialOk, DialFails,
    SetClient, CheckUnsent, TickerStep, ResendBegin, ResendCall, ResendReturns, ResendOk,
    ResendError, ResendShutdown, ResendEnd, ResendAtOnce, ResendDone, FatalCoordinator,
    PanicNilClient, Exit, Restart, rpcVars, world, client, queue, fate
<1>5. \/ ticker' = ticker
      \/ ticker' \in {"wait", "dial", "notify", "notifyBroken", "check", "lock", "resend",
                      "resendCall"}
  BY DEF RpcNext, AggregatorStarts, AggregatorStops, handleRpcShutdown, Spawn, SendBegin,
    SendReturns, appendProtected, RequestBegin, RequestReturns, Tick, DialOk, DialFails,
    SetClient, CheckUnsent, TickerStep, ResendBegin, ResendCall, ResendReturns, ResendOk,
    ResendError, ResendShutdown, ResendEnd, ResendAtOnce, ResendDone, FatalCoordinator,
    PanicNilClient, Exit, Restart, rpcVars, world, client, queue, fate
<1> QED BY <1>2, <1>3, <1>4, <1>5 DEF RpcTypeOK

-----------------------------------------------------------------------------
(* tryResendFromDeque *)

\* What becomes of the entry at i: it is sent, kept for the next tick, given up,
\* or kept with all that follow.
NextEntry ==
  /\ i <= Len(unsentMessages) /\ Resending /\ Resending'
  /\ i' = i + 1
  /\ UNCHANGED sender

Sent ==
  /\ NextEntry
  /\ UNCHANGED <<unsentMessages, errorPos, dropped>>
  /\ accepted' = accepted \cup {unsentMessages[i].message}

Kept ==
  /\ NextEntry
  /\ unsentMessages[i].retries + 1 < MaxRetries
  /\ unsentMessages' = [unsentMessages EXCEPT ![errorPos + 1] =
                          [unsentMessages[i] EXCEPT !.retries = @ + 1]]
  /\ errorPos' = errorPos + 1
  /\ dropped' = dropped /\ accepted \subseteq accepted'

GivenUp ==
  /\ NextEntry
  /\ unsentMessages[i].retries + 1 = MaxRetries
  /\ UNCHANGED <<unsentMessages, errorPos>>
  /\ dropped' = dropped \cup {unsentMessages[i].message} /\ accepted \subseteq accepted'

Stopped ==
  /\ i <= Len(unsentMessages) + 1 /\ Resending /\ ~Resending'
  /\ unsentMessages' = Compact(unsentMessages, i, errorPos)
  /\ i' = 1 /\ errorPos' = 0
  /\ dropped' = dropped /\ accepted \subseteq accepted' /\ UNCHANGED sender

\* The entry that is being sent.
LEMMA CurrentEntry ==
  ASSUME RpcTypeOK, NEW k \in 1..Len(unsentMessages)
  PROVE  /\ unsentMessages[k] \in Entries
         /\ unsentMessages[k].message \in Messages
         /\ unsentMessages[k].retries \in Nat /\ unsentMessages[k].retries + 1 <= MaxRetries
<1>1. unsentMessages[k] \in Entries
  BY SMT DEF RpcTypeOK
<1> QED BY <1>1, RpcClientAssumption, SMT DEF Entries

\* A call adds at most its own message to what the aggregator has.
LEMMA ProcessedGrows ==
  ASSUME NEW m, NEW result \in {"ok", "error", "network"}, Processed(m, result),
         rpcClient \in {"open", "broken"}
  PROVE  /\ accepted \subseteq accepted' /\ accepted' \subseteq accepted \cup {m}
         /\ result = "ok" => accepted' = accepted \cup {m}
<1>1. CASE result = "ok"
  BY <1>1 DEF Processed
<1>2. CASE result # "ok" /\ rpcClient = "open"
  BY <1>2 DEF Processed
<1>3. CASE result # "ok" /\ rpcClient = "broken"
  BY <1>3 DEF Processed
<1> QED BY <1>1, <1>2, <1>3

\* A call of a resend ends in one of four ways.
LEMMA ResendCases ==
  ASSUME RpcTypeOK, ClientInv, ResendReturns
  PROVE  /\ Sent \/ Kept \/ GivenUp \/ Stopped
         /\ accepted' \subseteq accepted \cup {unsentMessages[i].message}
<1> DEFINE e == unsentMessages[i]
           f == [e EXCEPT !.retries = @ + 1]
<1>1. /\ ticker = "resendCall" /\ i <= Len(unsentMessages) /\ i \in 1..Len(unsentMessages)
      /\ Len(unsentMessages) \in Nat /\ i \in Nat
  BY SMT DEF ResendReturns, RpcTypeOK, ClientInv
<1>2. Resending /\ sender' = sender
  BY <1>1 DEF Resending, ResendReturns
<1>3. CASE rpcClient = "open" /\ ResendOk
  <2>1. accepted' = accepted \cup {e.message}
    BY <1>3 DEF ResendOk, Processed
  <2>2. Sent
    BY <1>1, <1>2, <1>3, <2>1 DEF ResendOk, Sent, NextEntry, Resending
  <2> QED BY <2>1, <2>2
<1>4. ASSUME ResendError, accepted \subseteq accepted'
      PROVE  Kept \/ GivenUp
  <2>1. e \in Entries /\ e.retries \in Nat /\ e.retries + 1 <= MaxRetries /\ MaxRetries \in Nat
    BY <1>1, CurrentEntry, RpcClientAssumption
  <2>2. f.retries = e.retries + 1 /\ f.message = e.message
    BY <2>1 DEF Entries
  <2>3. NextEntry
    BY <1>1, <1>2, <1>4 DEF ResendError, NextEntry, Resending
  <2>4. CASE f.retries >= MaxRetries
    <3>1. e.retries + 1 = MaxRetries
      BY <2>1, <2>2, <2>4, SMT
    <3>2. /\ UNCHANGED <<unsentMessages, errorPos>>
          /\ dropped' = dropped \cup {f.message}
      BY <1>4, <2>4 DEF ResendError
    <3> QED BY <1>4, <2>2, <2>3, <3>1, <3>2 DEF GivenUp
  <2>5. CASE ~(f.retries >= MaxRetries)
    <3>1. e.retries + 1 < MaxRetries
      BY <2>1, <2>2, <2>5, SMT
    <3>2. /\ unsentMessages' = [unsentMessages EXCEPT ![errorPos + 1] = f]
          /\ errorPos' = errorPos + 1 /\ dropped' = dropped
      BY <1>4, <2>5 DEF ResendError
    <3> QED BY <1>4, <2>3, <3>1, <3>2 DEF Kept
  <2> QED BY <2>4, <2>5
<1>5. CASE rpcClient = "open" /\ ResendError /\ UNCHANGED accepted
  BY <1>4, <1>5
<1>6. CASE rpcClient = "broken" /\ ResendError /\ Processed(e.message, "error")
  <2>1. accepted \subseteq accepted' /\ accepted' \subseteq accepted \cup {e.message}
    BY <1>6, ProcessedGrows
  <2> QED BY <1>4, <1>6, <2>1
<1>7. CASE rpcClient = "broken" /\ ResendShutdown /\ Processed(e.message, "network")
  <2>1. accepted \subseteq accepted' /\ accepted' \subseteq accepted \cup {e.message}
    BY <1>7, ProcessedGrows
  <2>2. Stopped
    BY <1>1, <1>2, <1>7, <2>1, SMT DEF ResendShutdown, ResendEnd, Stopped, Resending
  <2> QED BY <2>1, <2>2
<1> QED BY <1>3, <1>5, <1>6, <1>7 DEF ResendReturns

\* A resend that finds the client broken stops without a call.
LEMMA ResendAtOnceStops ==
  ASSUME RpcTypeOK, ResendAtOnce
  PROVE  Stopped /\ accepted' = accepted
BY DEF ResendAtOnce, ResendShutdown, ResendEnd, Stopped, Resending, RpcTypeOK

\* At the end of the queue there is nothing from i on to be moved.
LEMMA ResendDoneStops ==
  ASSUME RpcTypeOK, ResendDone
  PROVE  Stopped /\ accepted' = accepted
<1>1. /\ i = Len(unsentMessages) + 1 /\ errorPos \in 0..i - 1 /\ i \in Nat
      /\ unsentMessages \in Seq(Entries) /\ Len(unsentMessages) \in Nat
      /\ i <= Len(unsentMessages) + 1
  BY SMT DEF ResendDone, RpcTypeOK
<1>2. SubSeq(unsentMessages, i, Len(unsentMessages)) = <<>>
  BY <1>1, SMT
<1>3. SubSeq(unsentMessages, 1, errorPos) \in Seq(Entries)
  BY <1>1, SMT
<1>4. Compact(unsentMessages, i, errorPos) = SubSeq(unsentMessages, 1, errorPos)
  BY <1>2, <1>3, ConcatEmptySeq DEF Compact
<1> QED BY <1>1, <1>4 DEF ResendDone, ResendEnd, Stopped, Resending, fate

\* The steps, as the queue and the messages see them.
Elsewhere ==
  UNCHANGED <<queue, sender, accepted, dropped>> /\ (Resending' <=> Resending)

MessageStep(m) == Spawn(m) \/ SendBegin(m) \/ SendReturns(m) \/ appendProtected(m)

\* A step of the client, by what it does to the queue.
LEMMA Steps ==
  ASSUME RpcTypeOK, ClientInv, [RpcNext]_rpcVars
  PROVE  \/ Elsewhere \/ (\E m \in Messages : MessageStep(m))
         \/ ResendBegin \/ Sent \/ Kept \/ GivenUp \/ Stopped \/ Restart
<1>1. ASSUME UNCHANGED <<queue, sender, accepted, dropped, ticker>>
      PROVE  Elsewhere
  BY <1>1 DEF Elsewhere, Resending
<1>2. ASSUME UNCHANGED <<queue, sender, accepted, dropped>>,
             ticker \notin {"resend", "resendCall"}, ticker' \notin {"resend", "resendCall"}
      PROVE  Elsewhere
  BY <1>2 DEF Elsewhere, Resending
<1>3. CASE UNCHANGED rpcVars
  BY <1>1, <1>3 DEF rpcVars, fate
<1>4. CASE AggregatorStarts \/ handleRpcShutdown \/ FatalCoordinator \/ PanicNilClient
             \/ \E r \in Requests : RequestBegin(r) \/ RequestReturns(r)
  BY <1>1, <1>4 DEF AggregatorStarts, handleRpcShutdown, FatalCoordinator,
    PanicNilClient, Exit, RequestBegin, RequestReturns, fate
<1>5. CASE AggregatorStops
  <2>1. UNCHANGED <<queue, sender, accepted, dropped>>
    BY <1>5 DEF AggregatorStops, fate
  <2>2. ticker' = ticker \/ (ticker = "notify" /\ ticker' = "notifyBroken")
    BY <1>5 DEF AggregatorStops
  <2> QED BY <1>1, <1>2, <2>1, <2>2
<1>6. CASE Tick \/ DialOk \/ DialFails \/ SetClient \/ CheckUnsent
  <2>1. UNCHANGED <<queue, sender, accepted, dropped>>
    BY <1>6 DEF Tick, DialOk, DialFails, SetClient, CheckUnsent, TickerStep, fate
  <2>2. ticker \in {"wait", "dial", "notify", "notifyBroken", "check"}
    BY <1>6 DEF Tick, DialOk, DialFails, SetClient, CheckUnsent, Dialing
  <2>3. ticker' \in {"check", "dial", "notify", "wait", "lock"}
    BY <1>6 DEF Tick, DialOk, DialFails, SetClient, CheckUnsent, TickerStep
  <2> QED BY <1>2, <2>1, <2>2, <2>3
<1>7. CASE ResendCall
  BY <1>7 DEF ResendCall, TickerStep, Elsewhere, Resending, fate
<1>8. CASE ResendReturns \/ ResendAtOnce \/ ResendDone
  BY <1>8, ResendCases, ResendAtOnceStops, ResendDoneStops
<1>9. CASE (\E m \in Messages : MessageStep(m)) \/ ResendBegin \/ Restart
  BY <1>9
<1> QED BY <1>3, <1>4, <1>5, <1>6, <1>7, <1>8, <1>9 DEF RpcNext, MessageStep

\* What the steps of a message's goroutine do to it, apart from appending.
LEMMA MessageMoves ==
  ASSUME RpcTypeOK, ClientInv, NEW m \in Messages,
         Spawn(m) \/ SendBegin(m) \/ SendReturns(m)
  PROVE  /\ UNCHANGED <<queue, ticker>>
         /\ sender[m] # "done" \/ ~InQueue(m)
         /\ \A o \in Messages \ {m} : /\ sender'[o] = sender[o]
                                      /\ o \in accepted => o \in accepted'
                                      /\ o \in dropped => o \in dropped'
         /\ sender'[m] = "done" => m \in accepted'
         /\ accepted' \subseteq accepted \cup {m} /\ dropped' \subseteq dropped
         /\ ~Spawn(m) => accepted \subseteq accepted'
<1>1. sender \in [Messages -> {"none", "spawned", "call", "append", "done"}]
  BY DEF RpcTypeOK
<1>2. CASE Spawn(m)
  BY <1>1, <1>2 DEF Spawn
<1>3. CASE SendBegin(m)
  <2>1. /\ UNCHANGED <<queue, ticker, accepted, dropped>> /\ sender[m] = "spawned"
        /\ \E pc \in {"call", "append"} : sender' = [sender EXCEPT ![m] = pc]
    BY <1>3 DEF SendBegin, fate
  <2> QED BY <1>1, <2>1
<1>4. CASE SendReturns(m)
  <2>1. PICK result \in Results :
          /\ Processed(m, result)
          /\ sender' = [sender EXCEPT ![m] = IF result = "ok" THEN "done" ELSE "append"]
    BY <1>4 DEF SendReturns
  <2>2. UNCHANGED <<queue, ticker, dropped>> /\ sender[m] = "call"
    BY <1>4 DEF SendReturns
  <2>3. rpcClient \in {"open", "broken"}
    <3>1. Calls # {}
      BY <2>2 DEF Calls
    <3> QED BY <3>1 DEF ClientInv, RpcTypeOK
  <2>4. result \in {"ok", "error", "network"}
    BY DEF Results
  <2>5. /\ accepted \subseteq accepted' /\ accepted' \subseteq accepted \cup {m}
        /\ result = "ok" => m \in accepted'
    BY <2>1, <2>3, <2>4, ProcessedGrows, SMT
  <2> QED BY <1>1, <2>1, <2>2, <2>5
<1> QED BY <1>2, <1>3, <1>4

\* The queue and the cursors of tryResendFromDeque.
QueueTypeOK ==
  /\ unsentMessages \in Seq(Entries)
  /\ errorPos \in Nat /\ i \in Nat /\ errorPos < i
  /\ i <= Len(unsentMessages) + 1

\* The queue and the cursors of the compaction stay in their types.
LEMMA QueueTyped ==
  ASSUME RpcTypeOK, ClientInv, [RpcNext]_rpcVars
  PROVE  QueueTypeOK'
<1>1. QueueTypeOK /\ Len(unsentMessages) \in Nat
  BY SMT DEF RpcTypeOK, QueueTypeOK
<1>2. CASE UNCHANGED queue
  BY <1>1, <1>2 DEF queue, QueueTypeOK
<1>3. ASSUME NEW m \in Messages, appendProtected(m)
      PROVE  QueueTypeOK'
  <2>1. [message |-> m, retries |-> 0] \in Entries
    BY RpcClientAssumption, SMT DEF Entries
  <2> QED BY <1>1, <1>3, <2>1, SMT DEF appendProtected, QueueTypeOK
<1>4. CASE ResendBegin
  BY <1>1, <1>4, SMT DEF ResendBegin, QueueTypeOK
<1>5. CASE Sent \/ GivenUp
  BY <1>1, <1>5, SMT DEF Sent, GivenUp, NextEntry, QueueTypeOK
<1>6. CASE Kept
  <2>1. i \in 1..Len(unsentMessages) /\ errorPos + 1 \in 1..Len(unsentMessages)
    BY <1>1, <1>6, SMT DEF Kept, NextEntry, QueueTypeOK
  <2>2. unsentMessages[i] \in Entries /\ unsentMessages[i].retries \in Nat
    BY <2>1, CurrentEntry
  <2>3. [unsentMessages[i] EXCEPT !.retries = @ + 1] \in Entries
    <3>1. unsentMessages[i].retries + 1 \in 0..MaxRetries - 1
      BY <1>6, <2>2, RpcClientAssumption, SMT DEF Kept
    <3> QED BY <2>2, <3>1 DEF Entries
  <2>4. unsentMessages' \in Seq(Entries) /\ Len(unsentMessages') = Len(unsentMessages)
    BY <1>1, <1>6, <2>1, <2>3, SMT DEF Kept, QueueTypeOK
  <2>5. errorPos' = errorPos + 1 /\ i' = i + 1 /\ i <= Len(unsentMessages)
    BY <1>6 DEF Kept, NextEntry
  <2> QED BY <1>1, <2>4, <2>5, SMT DEF QueueTypeOK
<1>7. CASE Stopped
  <2>1. i \in 1..Len(unsentMessages) + 1 /\ errorPos \in 0..i - 1
    BY <1>1, SMT DEF QueueTypeOK
  <2>2. Compact(unsentMessages, i, errorPos) \in Seq(Entries)
    BY <1>1, <2>1, Compacted DEF QueueTypeOK
  <2> QED BY <1>7, <2>2, SMT DEF Stopped, QueueTypeOK
<1>8. CASE Restart
  BY <1>8, SMT DEF Restart, QueueTypeOK
<1>9. ASSUME NEW m \in Messages, MessageStep(m)
      PROVE  UNCHANGED queue \/ appendProtected(m)
  BY <1>9, MessageMoves DEF MessageStep
<1> QED BY <1>2, <1>3, <1>4, <1>5, <1>6, <1>7, <1>8, <1>9, Steps DEF Elsewhere

\* What became of the messages stays in its types.
LEMMA FateTyped ==
  ASSUME RpcTypeOK, ClientInv, [RpcNext]_rpcVars
  PROVE  /\ accepted' \subseteq Messages /\ dropped' \subseteq Messages /\ lost' \subseteq Messages
         /\ ~sameCoordinator => accepted' = {}
<1>1. /\ accepted \subseteq Messages /\ dropped \subseteq Messages /\ lost \subseteq Messages
      /\ ~sameCoordinator => accepted = {} /\ rpcClient = "nil"
  BY DEF RpcTypeOK, ClientInv
<1>2. \/ lost' = lost \/ lost' = lost \cup (Unsettled \ accepted)
      \/ \E m \in Messages : lost' = lost \ {m}
  BY DEF RpcNext, AggregatorStarts, AggregatorStops, handleRpcShutdown, Spawn, SendBegin,
    SendReturns, appendProtected, RequestBegin, RequestReturns, Tick, DialOk, DialFails,
    SetClient, CheckUnsent, TickerStep, ResendBegin, ResendCall, ResendReturns, ResendOk,
    ResendError, ResendShutdown, ResendEnd, ResendAtOnce, ResendDone, FatalCoordinator,
    PanicNilClient, Exit, Restart, rpcVars, world, client, queue, fate
<1>3. lost' \subseteq Messages
  BY <1>1, <1>2 DEF Unsettled
<1>4. CASE UNCHANGED <<accepted, dropped>>
  BY <1>1, <1>3, <1>4
<1>5. CASE ResendReturns
  <2>1. /\ i \in 1..Len(unsentMessages) /\ rpcClient # "nil"
    BY <1>5, SMT DEF ResendReturns, ClientInv, RpcTypeOK
  <2>2. accepted' \subseteq accepted \cup {unsentMessages[i].message}
    BY <1>5, ResendCases
  <2>3. dropped' \subseteq dropped \cup {unsentMessages[i].message}
    BY <1>5, ResendCases DEF Sent, Kept, GivenUp, Stopped
  <2> QED BY <1>1, <1>3, <2>1, <2>2, <2>3, CurrentEntry
<1>6. ASSUME NEW m \in Messages, Spawn(m)
      PROVE  /\ accepted' \subseteq Messages /\ dropped' \subseteq Messages
             /\ ~sameCoordinator => accepted' = {}
  BY <1>1, <1>6 DEF Spawn
<1>7. ASSUME NEW m \in Messages, SendReturns(m)
      PROVE  /\ accepted' \subseteq Messages /\ dropped' \subseteq Messages
             /\ ~sameCoordinator => accepted' = {}
  <2>1. Calls # {}
    BY <1>7 DEF SendReturns, Calls
  <2>2. rpcClient # "nil"
    BY <2>1 DEF ClientInv
  <2> QED BY <1>1, <1>7, <2>2, MessageMoves
<1>8. \/ UNCHANGED <<accepted, dropped>> \/ ResendReturns
      \/ \E m \in Messages : Spawn(m) \/ SendReturns(m)
  BY DEF RpcNext, AggregatorStarts, AggregatorStops, handleRpcShutdown, SendBegin,
    appendProtected, RequestBegin, RequestReturns, Tick, DialOk, DialFails,
    SetClient, CheckUnsent, TickerStep, ResendBegin, ResendCall,
    ResendShutdown, ResendEnd, ResendAtOnce, ResendDone, FatalCoordinator,
    PanicNilClient, Exit, Restart, rpcVars, fate
<1> QED BY <1>3, <1>4, <1>5, <1>6, <1>7, <1>8

-----------------------------------------------------------------------------
(* No message is lost, and none is queued twice *)

\* The live positions of the queue, while it is compacted and otherwise.
LEMMA LiveInQueue ==
  ASSUME RpcTypeOK
  PROVE  /\ Live \subseteq 1..Len(unsentMessages)
         /\ Resending => Live = (1..errorPos) \cup (i..Len(unsentMessages))
         /\ ~Resending => Live = 1..Len(unsentMessages)
<1>1. errorPos \in Nat /\ i \in Nat /\ errorPos < i /\ i <= Len(unsentMessages) + 1
      /\ Len(unsentMessages) \in Nat
  BY SMT DEF RpcTypeOK
<1> QED BY <1>1, SMT DEF Live

\* A message that is signed or sent leaves the queue as it is.
LEMMA QueueInvMessage ==
  ASSUME RpcInv, NEW m \in Messages, Spawn(m) \/ SendBegin(m) \/ SendReturns(m)
  PROVE  QueueInv'
<1>1. /\ UNCHANGED <<queue, ticker>>
      /\ sender[m] # "done" \/ ~InQueue(m)
      /\ \A o \in Messages \ {m} : /\ sender'[o] = sender[o]
                                   /\ o \in accepted => o \in accepted'
                                   /\ o \in dropped => o \in dropped'
      /\ sender'[m] = "done" => m \in accepted'
  BY MessageMoves DEF RpcInv
<1>2. unsentMessages' = unsentMessages /\ Live' = Live
  BY <1>1 DEF queue, Live, Resending
<1>3. \A k \in 1..Len(unsentMessages) :
        /\ unsentMessages[k].message \in Messages \ {m}
        /\ sender[unsentMessages[k].message] = "done"
  BY <1>1, CurrentEntry DEF RpcInv, QueueInv, InQueue
<1>4. \A k \in 1..Len(unsentMessages') : sender'[unsentMessages'[k].message] = "done"
  BY <1>1, <1>2, <1>3
<1>5. ASSUME NEW o \in Messages, sender'[o] = "done"
      PROVE  o \in accepted' \cup dropped' \/ \E k \in Live' : unsentMessages'[k].message = o
  <2>1. CASE o = m
    BY <1>1, <1>5, <2>1
  <2>2. CASE o # m
    <3>1. sender[o] = "done"
      BY <1>1, <1>5, <2>2
    <3>2. o \in accepted \cup dropped \/ \E k \in Live : unsentMessages[k].message = o
      BY <3>1 DEF RpcInv, QueueInv
    <3> QED BY <1>1, <1>2, <2>2, <3>2
  <2> QED BY <2>1, <2>2
<1>6. \A j, k \in Live' : unsentMessages'[j].message = unsentMessages'[k].message => j = k
  BY <1>2 DEF RpcInv, QueueInv
<1> QED BY <1>4, <1>5, <1>6 DEF QueueInv

\* A message that could not be sent is queued once.
LEMMA QueueInvAppend ==
  ASSUME RpcInv, NEW m \in Messages, appendProtected(m)
  PROVE  QueueInv'
<1> DEFINE n == Len(unsentMessages)
<1>1. /\ unsentMessages \in Seq(Entries) /\ n \in Nat
      /\ sender \in [Messages -> {"none", "spawned", "call", "append", "done"}]
  BY SMT DEF RpcInv, RpcTypeOK
<1>2. /\ Len(unsentMessages') = n + 1
      /\ \A k \in 1..n : unsentMessages'[k] = unsentMessages[k]
      /\ unsentMessages'[n + 1].message = m
  BY <1>1, SMT DEF appendProtected
<1>3. /\ Live = 1..n /\ Live' = 1..n + 1
      /\ sender' = [sender EXCEPT ![m] = "done"] /\ sender[m] = "append"
      /\ UNCHANGED <<accepted, dropped>>
  BY <1>2 DEF appendProtected, Live, Resending, fate
<1>4. \A k \in 1..n : /\ sender[unsentMessages[k].message] = "done"
                      /\ unsentMessages[k].message \in Messages \ {m}
  BY <1>3, CurrentEntry DEF RpcInv, QueueInv
<1> HIDE DEF n
<1>5. \A k \in 1..n + 1 : sender'[unsentMessages'[k].message] = "done"
  <2>1. \A k \in 1..n : sender'[unsentMessages'[k].message] = "done"
    BY <1>1, <1>2, <1>3, <1>4
  <2>2. sender'[unsentMessages'[n + 1].message] = "done"
    BY <1>1, <1>2, <1>3
  <2> QED BY <1>1, <2>1, <2>2, SMT
<1>6. ASSUME NEW o \in Messages, sender'[o] = "done"
      PROVE  o \in accepted' \cup dropped' \/ \E k \in Live' : unsentMessages'[k].message = o
  <2>1. CASE o = m
    <3>1. n + 1 \in Live'
      BY <1>1, <1>3, SMT
    <3> QED BY <1>2, <2>1, <3>1
  <2>2. CASE o # m
    <3>1. sender[o] = "done"
      BY <1>1, <1>3, <1>6, <2>2
    <3>2. o \in accepted \cup dropped \/ \E k \in Live : unsentMessages[k].message = o
      BY <3>1 DEF RpcInv, QueueInv
    <3>3. \A k \in Live : k \in Live' /\ unsentMessages'[k] = unsentMessages[k]
      BY <1>1, <1>2, <1>3, SMT
    <3> QED BY <1>3, <3>2, <3>3
  <2> QED BY <2>1, <2>2
<1>7. ASSUME NEW j \in 1..n + 1, NEW k \in 1..n + 1,
             unsentMessages'[j].message = unsentMessages'[k].message
      PROVE  j = k
  <2>1. CASE j \in 1..n /\ k \in 1..n
    BY <1>2, <1>3, <1>7, <2>1 DEF RpcInv, QueueInv
  <2>2. CASE j = n + 1 \/ k = n + 1
    BY <1>1, <1>2, <1>4, <1>7, <2>2, SMT
  <2> QED BY <1>1, <2>1, <2>2, SMT
<1> QED BY <1>2, <1>3, <1>5, <1>6, <1>7 DEF QueueInv

\* The entry at i was sent or given up.
LEMMA QueueInvSettled ==
  ASSUME RpcInv, Sent \/ GivenUp
  PROVE  QueueInv'
<1>1. /\ UNCHANGED <<unsentMessages, errorPos, sender>> /\ i' = i + 1
      /\ i <= Len(unsentMessages) /\ Resending /\ Resending'
      /\ accepted \subseteq accepted' /\ dropped \subseteq dropped'
      /\ unsentMessages[i].message \in accepted' \cup dropped'
  BY DEF Sent, GivenUp, NextEntry
<1>2. errorPos \in Nat /\ i \in Nat /\ errorPos < i /\ Len(unsentMessages) \in Nat
  BY SMT DEF RpcInv, RpcTypeOK
<1>3. /\ Live = (1..errorPos) \cup (i..Len(unsentMessages))
      /\ Live' = (1..errorPos) \cup (i + 1..Len(unsentMessages))
  BY <1>1 DEF Live
<1>4. Live' \subseteq Live /\ Live \subseteq Live' \cup {i}
  BY <1>1, <1>2, <1>3, SMT
<1>5. ASSUME NEW o \in Messages, sender'[o] = "done"
      PROVE  o \in accepted' \cup dropped' \/ \E k \in Live' : unsentMessages'[k].message = o
  <2>1. o \in accepted \cup dropped \/ \E k \in Live : unsentMessages[k].message = o
    BY <1>1, <1>5 DEF RpcInv, QueueInv
  <2> QED BY <1>1, <1>4, <2>1
<1>6. /\ \A k \in 1..Len(unsentMessages') : sender'[unsentMessages'[k].message] = "done"
      /\ \A j, k \in Live' : unsentMessages'[j].message = unsentMessages'[k].message => j = k
  BY <1>1, <1>4 DEF RpcInv, QueueInv
<1> QED BY <1>5, <1>6 DEF QueueInv

\* The entry at i is moved down behind the ones kept before it.
LEMMA QueueInvKept ==
  ASSUME RpcInv, Kept
  PROVE  QueueInv'
<1> DEFINE n == Len(unsentMessages)
           e == errorPos + 1
<1>1. /\ i <= n /\ Resending /\ Resending' /\ i' = i + 1 /\ errorPos' = e
      /\ UNCHANGED <<sender, dropped>> /\ accepted \subseteq accepted'
      /\ unsentMessages' = [unsentMessages EXCEPT ![e] = [unsentMessages[i] EXCEPT !.retries = @ + 1]]
  BY DEF Kept, NextEntry
<1>2. errorPos \in Nat /\ i \in Nat /\ errorPos < i /\ n \in Nat /\ unsentMessages \in Seq(Entries)
  BY SMT DEF RpcInv, RpcTypeOK
<1>3. e \in 1..n /\ i \in 1..n
  BY <1>1, <1>2, SMT
<1>4. /\ Len(unsentMessages') = n
      /\ \A k \in 1..n : k # e => unsentMessages'[k] = unsentMessages[k]
  BY <1>1, <1>2, <1>3, SMT
<1>5. unsentMessages'[e].message = unsentMessages[i].message
  <2>1. unsentMessages[i] \in Entries
    BY <1>2, <1>3, SMT
  <2>2. unsentMessages'[e] = [unsentMessages[i] EXCEPT !.retries = @ + 1]
    BY <1>1, <1>2, <1>3, SMT
  <2> QED BY <2>1, <2>2 DEF Entries
<1>6. /\ Live = (1..errorPos) \cup (i..n)
      /\ Live' = (1..e) \cup (i + 1..n)
  BY <1>1, <1>4 DEF Live
<1> HIDE DEF n
<1>7. /\ \A k \in Live' : k = e \/ (k \in Live /\ k # e /\ k # i)
      /\ \A k \in Live : k = i \/ (k \in Live' /\ k # e)
      /\ e \in Live' /\ i \in Live
      /\ Live \subseteq 1..n /\ Live' \subseteq 1..n
  BY <1>1, <1>2, <1>3, <1>6, SMT
<1> HIDE DEF e
<1>8. \A k \in 1..n : sender'[unsentMessages'[k].message] = "done"
  BY <1>1, <1>3, <1>4, <1>5, SMT DEF RpcInv, QueueInv, n
<1>9. ASSUME NEW o \in Messages, sender'[o] = "done"
      PROVE  o \in accepted' \cup dropped' \/ \E k \in Live' : unsentMessages'[k].message = o
  <2>1. o \in accepted \cup dropped \/ \E k \in Live : unsentMessages[k].message = o
    BY <1>1, <1>9 DEF RpcInv, QueueInv
  <2>2. ASSUME NEW k \in Live, unsentMessages[k].message = o
        PROVE  \E j \in Live' : unsentMessages'[j].message = o
    <3>1. CASE k = i
      BY <1>5, <1>7, <2>2, <3>1
    <3>2. CASE k # i
      BY <1>4, <1>7, <2>2, <3>2
    <3> QED BY <3>1, <3>2
  <2> QED BY <1>1, <2>1, <2>2
<1>10. ASSUME NEW j \in Live', NEW k \in Live',
              unsentMessages'[j].message = unsentMessages'[k].message
       PROVE  j = k
  <2>1. \A a, b \in Live : unsentMessages[a].message = unsentMessages[b].message => a = b
    BY DEF RpcInv, QueueInv
  <2>2. \A l \in Live' \ {e} : l \in Live /\ l # i /\ unsentMessages'[l] = unsentMessages[l]
    BY <1>4, <1>7
  <2>3. CASE j = e /\ k # e
    BY <1>5, <1>7, <1>10, <2>1, <2>2, <2>3
  <2>4. CASE j # e /\ k = e
    BY <1>5, <1>7, <1>10, <2>1, <2>2, <2>4
  <2>5. CASE j # e /\ k # e
    BY <1>10, <2>1, <2>2, <2>5
  <2> QED BY <2>3, <2>4, <2>5
<1> QED BY <1>4, <1>8, <1>9, <1>10 DEF QueueInv

\* What is kept moves together.
LEMMA QueueInvStopped ==
  ASSUME RpcInv, Stopped
  PROVE  QueueInv'
<1> DEFINE n == Len(unsentMessages)
           From(k) == IF k <= errorPos THEN k ELSE k - errorPos + i - 1
           To(k) == IF k <= errorPos THEN k ELSE k - i + 1 + errorPos
<1>1. /\ Resending /\ ~Resending' /\ UNCHANGED <<sender, dropped>> /\ accepted \subseteq accepted'
      /\ unsentMessages' = Compact(unsentMessages, i, errorPos)
  BY DEF Stopped
<1>2. /\ errorPos \in Nat /\ i \in Nat /\ errorPos < i /\ n \in Nat /\ i <= n + 1
      /\ unsentMessages \in Seq(Entries) /\ i \in 1..n + 1 /\ errorPos \in 0..i - 1
  BY SMT DEF RpcInv, RpcTypeOK
<1>3. /\ Len(unsentMessages') = errorPos + n - i + 1
      /\ \A k \in 1..errorPos : unsentMessages'[k] = unsentMessages[k]
      /\ \A k \in i..n : /\ k - i + 1 + errorPos \in errorPos + 1..Len(unsentMessages')
                         /\ unsentMessages'[k - i + 1 + errorPos] = unsentMessages[k]
      /\ \A k \in errorPos + 1..Len(unsentMessages') :
           /\ k - errorPos + i - 1 \in i..n
           /\ unsentMessages'[k] = unsentMessages[k - errorPos + i - 1]
  <2> DEFINE c == Compact(unsentMessages, i, errorPos)
  <2>1. /\ Len(c) = errorPos + n - i + 1
        /\ \A k \in 1..errorPos : c[k] = unsentMessages[k]
        /\ \A k \in i..n : /\ k - i + 1 + errorPos \in errorPos + 1..Len(c)
                           /\ c[k - i + 1 + errorPos] = unsentMessages[k]
        /\ \A k \in errorPos + 1..Len(c) : /\ k - errorPos + i - 1 \in i..n
                                           /\ c[k] = unsentMessages[k - errorPos + i - 1]
    <3>1. unsentMessages \in Seq(Entries) /\ i \in 1..Len(unsentMessages) + 1
      BY <1>2
    <3> HIDE DEF c
    <3> QED BY <1>2, <3>1, Compacted, SMT DEF c
  <2> HIDE DEF c, n
  <2> QED BY <1>1, <2>1 DEF c
<1>4. Live = (1..errorPos) \cup (i..n) /\ Live' = 1..Len(unsentMessages')
  BY <1>1 DEF Live
<1> HIDE DEF n
<1>5. \A k \in Live' : /\ From(k) \in Live
                       /\ unsentMessages'[k] = unsentMessages[From(k)]
                       /\ To(From(k)) = k
  <2> TAKE k \in Live'
  <2>1. CASE k <= errorPos
    BY <1>2, <1>3, <1>4, <2>1, SMT
  <2>2. CASE ~(k <= errorPos)
    <3>1. k \in errorPos + 1..Len(unsentMessages')
      BY <1>2, <1>3, <1>4, <2>2, SMT
    <3>2. From(k) \in i..n /\ unsentMessages'[k] = unsentMessages[From(k)]
      BY <1>3, <2>2, <3>1
    <3>3. To(From(k)) = k
      BY <1>2, <2>2, <3>1, <3>2, SMT
    <3> QED BY <1>4, <3>2, <3>3
  <2> QED BY <2>1, <2>2
<1>6. \A k \in Live : To(k) \in Live' /\ unsentMessages'[To(k)] = unsentMessages[k]
  <2> TAKE k \in Live
  <2>1. CASE k <= errorPos
    BY <1>2, <1>3, <1>4, <2>1, SMT
  <2>2. CASE ~(k <= errorPos)
    <3>1. k \in i..n
      BY <1>2, <1>4, <2>2, SMT
    <3>2. To(k) \in errorPos + 1..Len(unsentMessages') /\ unsentMessages'[To(k)] = unsentMessages[k]
      BY <1>3, <2>2, <3>1
    <3> QED BY <1>2, <1>4, <3>2, SMT
  <2> QED BY <2>1, <2>2
<1> HIDE DEF From, To
<1>7. \A k \in 1..Len(unsentMessages') : sender'[unsentMessages'[k].message] = "done"
  <2>1. Live \subseteq 1..Len(unsentMessages)
    BY LiveInQueue DEF RpcInv
  <2> QED BY <1>1, <1>4, <1>5, <2>1, SMT DEF RpcInv, QueueInv
<1>8. ASSUME NEW o \in Messages, sender'[o] = "done"
      PROVE  o \in accepted' \cup dropped' \/ \E k \in Live' : unsentMessages'[k].message = o
  <2>1. o \in accepted \cup dropped \/ \E k \in Live : unsentMessages[k].message = o
    BY <1>1, <1>8 DEF RpcInv, QueueInv
  <2> QED BY <1>1, <1>6, <2>1
<1>9. ASSUME NEW j \in Live', NEW k \in Live',
             unsentMessages'[j].message = unsentMessages'[k].message
      PROVE  j = k
  <2>1. From(j) = From(k)
    BY <1>5, <1>9, SMT DEF RpcInv, QueueInv
  <2> QED BY <1>5, <2>1
<1> QED BY <1>7, <1>8, <1>9 DEF QueueInv

\* Every step keeps each message in one place.
LEMMA QueueInvStep ==
  ASSUME RpcInv, [RpcNext]_rpcVars
  PROVE  QueueInv'
<1>1. CASE Elsewhere
  <2>1. UNCHANGED <<unsentMessages, sender, accepted, dropped>> /\ Live' = Live
    BY <1>1 DEF Elsewhere, queue, Live
  <2> QED BY <2>1 DEF RpcInv, QueueInv
<1>2. CASE ResendBegin
  <2>1. UNCHANGED <<unsentMessages, sender, accepted, dropped>>
    BY <1>2 DEF ResendBegin, fate
  <2>2. Live' = (1..0) \cup (1..Len(unsentMessages)) /\ Live = 1..Len(unsentMessages)
    BY <1>2 DEF ResendBegin, Live, Resending
  <2>3. Live' = Live
    BY <2>2, SMT
  <2> QED BY <2>1, <2>3 DEF RpcInv, QueueInv
<1>3. CASE Restart
  <2>1. unsentMessages' = <<>> /\ sender' = [m \in Messages |-> "none"] /\ ~Resending'
    BY <1>3 DEF Restart, Resending
  <2>2. Len(unsentMessages') = 0 /\ Live' = {}
    BY <2>1, SMT DEF Live
  <2> QED BY <2>1, <2>2, SMT DEF QueueInv
<1> QED BY <1>1, <1>2, <1>3, Steps, QueueInvMessage, QueueInvAppend, QueueInvSettled,
           QueueInvKept, QueueInvStopped DEF RpcInv, MessageStep

-----------------------------------------------------------------------------
(* Calls *)

\* There are finitely many calls.
LEMMA CallsFinite ==
  ASSUME RpcTypeOK
  PROVE  IsFiniteSet(Calls) /\ Cardinality(Calls) \in Nat
<1>1. IsFiniteSet(Messages \cup Requests)
  BY RpcClientAssumption, FS_Union
<1>2. Calls \subseteq Messages \cup Requests
  BY DEF Calls
<1>3. IsFiniteSet(Calls)
  BY <1>1, <1>2, FS_Subset
<1> QED BY <1>3, FS_CardinalityType

\* A call begins or returns at a time, and leaves at most one goroutine of
\* handleRpcShutdown behind.
LEMMA CallsMove ==
  ASSUME RpcTypeOK, [RpcNext]_rpcVars
  PROVE  \/ Calls' = Calls /\ shutdowns' = shutdowns
         \/ Calls' = Calls /\ shutdowns' = shutdowns + 1 /\ Room
         \/ Calls' = Calls /\ shutdowns' = shutdowns - 1 /\ shutdowns > 0
         \/ \E x : /\ Calls' = Calls \cup {x} /\ shutdowns' = shutdowns /\ Room
                   /\ rpcClient' = rpcClient /\ rpcClient = "open"
         \/ \E x \in Calls : /\ Calls' = Calls \ {x}
                             /\ shutdowns' = shutdowns \/ shutdowns' = shutdowns + 1
         \/ Calls' = {} /\ shutdowns' = 0
<1>1. /\ sender \in [Messages -> {"none", "spawned", "call", "append", "done"}]
      /\ request \in [Requests -> {"none", "call", "answered", "failed"}]
  BY DEF RpcTypeOK
<1>2. ASSUME NEW m \in Messages, NEW pc, sender' = [sender EXCEPT ![m] = pc], request' = request
      PROVE  /\ sender[m] # "call" /\ pc # "call" => Calls' = Calls
             /\ pc = "call" => Calls' = Calls \cup {m}
             /\ sender[m] = "call" /\ pc # "call" => m \in Calls /\ Calls' = Calls \ {m}
  BY <1>1, <1>2, RpcClientAssumption DEF Calls
<1>3. ASSUME NEW r \in Requests, NEW pc, request' = [request EXCEPT ![r] = pc], sender' = sender
      PROVE  /\ request[r] # "call" /\ pc # "call" => Calls' = Calls
             /\ pc = "call" => Calls' = Calls \cup {r}
             /\ request[r] = "call" /\ pc # "call" => r \in Calls /\ Calls' = Calls \ {r}
  BY <1>1, <1>3, RpcClientAssumption DEF Calls
<1>4. UNCHANGED <<sender, request>> => Calls' = Calls
  BY DEF Calls
<1>5. ASSUME UNCHANGED <<sender, request, shutdowns>>
      PROVE  Calls' = Calls /\ shutdowns' = shutdowns
  BY <1>4, <1>5
<1>6. ASSUME NEW result
      PROVE  handleRpcError(result) => shutdowns' = shutdowns \/ shutdowns' = shutdowns + 1
  BY DEF handleRpcError
<1>7. ASSUME NEW m \in Messages, Spawn(m) \/ appendProtected(m)
      PROVE  Calls' = Calls /\ shutdowns' = shutdowns
  <2>1. sender[m] # "call" /\ request' = request /\ shutdowns' = shutdowns
    BY <1>7 DEF Spawn, appendProtected
  <2>2. \E pc \in {"spawned", "done"} : sender' = [sender EXCEPT ![m] = pc]
    BY <1>7 DEF Spawn, appendProtected
  <2> QED BY <1>2, <2>1, <2>2
<1>8. ASSUME NEW m \in Messages, SendBegin(m)
      PROVE  \/ Calls' = Calls /\ shutdowns' = shutdowns
             \/ Calls' = Calls /\ shutdowns' = shutdowns + 1 /\ Room
             \/ /\ Calls' = Calls \cup {m} /\ shutdowns' = shutdowns /\ Room
                /\ rpcClient' = rpcClient /\ rpcClient = "open"
  <2>1. /\ sender[m] = "spawned" /\ request' = request /\ Room /\ rpcClient' = rpcClient
        /\ sender' = [sender EXCEPT ![m] = IF rpcClient = "open" THEN "call" ELSE "append"]
    BY <1>8 DEF SendBegin, client
  <2>2. CASE rpcClient = "open"
    <3>1. shutdowns' = shutdowns
      BY <1>8, <2>2 DEF SendBegin
    <3>2. Calls' = Calls \cup {m}
      BY <1>2, <2>1, <2>2
    <3> QED BY <2>1, <2>2, <3>1, <3>2
  <2>3. CASE rpcClient # "open"
    <3>1. Calls' = Calls
      BY <1>2, <2>1, <2>3
    <3>2. shutdowns' = shutdowns \/ shutdowns' = shutdowns + 1
      BY <1>6, <1>8 DEF SendBegin
    <3> QED BY <2>1, <3>1, <3>2
  <2> QED BY <2>2, <2>3
<1>9. ASSUME NEW m \in Messages, SendReturns(m)
      PROVE  /\ m \in Calls /\ Calls' = Calls \ {m}
             /\ shutdowns' = shutdowns \/ shutdowns' = shutdowns + 1
  <2>1. /\ sender[m] = "call" /\ request' = request
        /\ \E pc \in {"done", "append"} : sender' = [sender EXCEPT ![m] = pc]
        /\ \E result \in Results : handleRpcError(result)
    BY <1>9 DEF SendReturns
  <2> QED BY <1>2, <1>6, <2>1
<1>10. ASSUME NEW r \in Requests, RequestBegin(r)
       PROVE  \/ Calls' = Calls /\ shutdowns' = shutdowns
              \/ Calls' = Calls /\ shutdowns' = shutdowns + 1 /\ Room
              \/ /\ Calls' = Calls \cup {r} /\ shutdowns' = shutdowns /\ Room
                 /\ rpcClient' = rpcClient /\ rpcClient = "open"
  <2>1. /\ request[r] # "call" /\ sender' = sender /\ Room /\ rpcClient' = rpcClient
        /\ request' = [request EXCEPT ![r] = IF rpcClient = "open" THEN "call" ELSE "failed"]
    BY <1>10 DEF RequestBegin, client
  <2>2. CASE rpcClient = "open"
    <3>1. shutdowns' = shutdowns
      BY <1>10, <2>2 DEF RequestBegin
    <3>2. Calls' = Calls \cup {r}
      BY <1>3, <2>1, <2>2
    <3> QED BY <2>1, <2>2, <3>1, <3>2
  <2>3. CASE rpcClient # "open"
    <3>1. Calls' = Calls
      BY <1>3, <2>1, <2>3
    <3>2. shutdowns' = shutdowns \/ shutdowns' = shutdowns + 1
      BY <1>6, <1>10 DEF RequestBegin
    <3> QED BY <2>1, <3>1, <3>2
  <2> QED BY <2>2, <2>3
<1>11. ASSUME NEW r \in Requests, RequestReturns(r)
       PROVE  /\ r \in Calls /\ Calls' = Calls \ {r}
              /\ shutdowns' = shutdowns \/ shutdowns' = shutdowns + 1
  <2>1. /\ request[r] = "call" /\ sender' = sender
        /\ \E pc \in {"answered", "failed"} : request' = [request EXCEPT ![r] = pc]
        /\ \E result \in Results : handleRpcError(result)
    BY <1>11 DEF RequestReturns
  <2> QED BY <1>3, <1>6, <2>1
<1>12. CASE handleRpcShutdown
  BY <1>4, <1>12 DEF handleRpcShutdown
<1>13. CASE Restart
  BY <1>13 DEF Restart, Calls
<1>14. \/ UNCHANGED <<sender, request, shutdowns>> \/ handleRpcShutdown \/ Restart
       \/ \E m \in Messages : Spawn(m) \/ appendProtected(m) \/ SendBegin(m) \/ SendReturns(m)
       \/ \E r \in Requests : RequestBegin(r) \/ RequestReturns(r)
  BY DEF RpcNext, AggregatorStarts, AggregatorStops, Tick, DialOk, DialFails,
    SetClient, CheckUnsent, TickerStep, ResendBegin, ResendCall, ResendReturns, ResendAtOnce,
    ResendDone, FatalCoordinator, PanicNilClient, Exit, rpcVars
<1> QED BY <1>5, <1>7, <1>8, <1>9, <1>10, <1>11, <1>12, <1>13, <1>14

\* handleRpcError never has more goroutines waiting than there was room for.
LEMMA ShutdownsBounded ==
  ASSUME RpcTypeOK, ClientInv, [RpcNext]_rpcVars
  PROVE  /\ shutdowns' \in 0..MaxShutdowns
         /\ shutdowns' + Cardinality(Calls)' <= MaxShutdowns
<1> DEFINE c == Cardinality(Calls)
<1>1. /\ shutdowns \in Nat /\ c \in Nat /\ MaxShutdowns \in Nat /\ shutdowns + c <= MaxShutdowns
      /\ IsFiniteSet(Calls)
  BY CallsFinite, RpcClientAssumption, SMT DEF RpcTypeOK, ClientInv
<1>2. Room => shutdowns + c < MaxShutdowns
  BY DEF Room, Calls
<1>3. \A x : Cardinality(Calls \cup {x}) \in {c, c + 1}
  BY <1>1, FS_AddElement
<1>4. \A x \in Calls : Cardinality(Calls \ {x}) = c - 1 /\ c - 1 \in Nat
  <2> TAKE x \in Calls
  <2>1. Cardinality(Calls \ {x}) = c - 1
    BY <1>1, FS_RemoveElement
  <2>2. IsFiniteSet(Calls \ {x})
    BY <1>1, FS_RemoveElement
  <2> QED BY <2>1, <2>2, FS_CardinalityType
<1>5. Cardinality({}) = 0
  BY FS_EmptySet
<1> HIDE DEF c
<1>6. CASE Calls' = Calls
  <2>1. Cardinality(Calls)' = c
    BY <1>6 DEF c
  <2>2. \/ shutdowns' = shutdowns \/ (shutdowns' = shutdowns + 1 /\ Room)
        \/ (shutdowns' = shutdowns - 1 /\ shutdowns > 0) \/ shutdowns' = 0
        \/ \E x \in Calls : Calls' = Calls \ {x}
    BY CallsMove
  <2>3. ~\E x \in Calls : Calls' = Calls \ {x}
    BY <1>6
  <2> QED BY <1>1, <1>2, <2>1, <2>2, <2>3, SMT
<1>7. ASSUME NEW x, Calls' = Calls \cup {x}, shutdowns' = shutdowns, Room
      PROVE  /\ shutdowns' \in 0..MaxShutdowns
             /\ shutdowns' + Cardinality(Calls)' <= MaxShutdowns
  <2>1. Cardinality(Calls)' \in {c, c + 1}
    BY <1>3, <1>7
  <2> QED BY <1>1, <1>2, <1>7, <2>1, SMT
<1>8. ASSUME NEW x \in Calls, Calls' = Calls \ {x},
             shutdowns' = shutdowns \/ shutdowns' = shutdowns + 1
      PROVE  /\ shutdowns' \in 0..MaxShutdowns
             /\ shutdowns' + Cardinality(Calls)' <= MaxShutdowns
  <2>1. Cardinality(Calls)' = c - 1 /\ c - 1 \in Nat
    BY <1>4, <1>8
  <2> QED BY <1>1, <1>8, <2>1, SMT
<1>9. ASSUME Calls' = {}, shutdowns' = 0
      PROVE  /\ shutdowns' \in 0..MaxShutdowns
             /\ shutdowns' + Cardinality(Calls)' <= MaxShutdowns
  <2>1. Cardinality(Calls)' = 0
    BY <1>5, <1>9
  <2> QED BY <1>1, <1>9, <2>1, SMT
<1> QED BY <1>6, <1>7, <1>8, <1>9, CallsMove

\* Every step keeps the locks, the calls and the connection consistent.
LEMMA ClientInvStep ==
  ASSUME RpcTypeOK, ClientInv, [RpcNext]_rpcVars
  PROVE  ClientInv'
<1>1. \/ rpcClient' = rpcClient \/ handleRpcShutdown \/ Restart \/ SetClient
      \/ rpcClient = "open" /\ rpcClient' = "broken"
  BY DEF RpcNext, AggregatorStarts, AggregatorStops, handleRpcShutdown, Spawn, SendBegin,
    SendReturns, appendProtected, RequestBegin, RequestReturns, Tick, DialOk, DialFails,
    SetClient, CheckUnsent, TickerStep, ResendBegin, ResendCall, ResendReturns, ResendOk,
    ResendError, ResendShutdown, ResendEnd, ResendAtOnce, ResendDone, FatalCoordinator,
    PanicNilClient, Exit, Restart, rpcVars, world, client, queue, fate
<1>2. SetClient => sameCoordinator /\ rpcClient' \in {"open", "broken"}
  BY DEF SetClient
<1>3. \/ ticker' # "resendCall" \/ ResendCall \/ (ticker = "resendCall" /\ UNCHANGED queue)
  BY DEF RpcNext, AggregatorStarts, AggregatorStops, handleRpcShutdown, Spawn, SendBegin,
    SendReturns, appendProtected, RequestBegin, RequestReturns, Tick, DialOk, DialFails,
    SetClient, CheckUnsent, TickerStep, ResendBegin, ResendCall, ResendReturns, ResendOk,
    ResendError, ResendShutdown, ResendEnd, ResendAtOnce, ResendDone, FatalCoordinator,
    PanicNilClient, Exit, Restart, rpcVars, world, client, queue, fate
<1>4. ASSUME Calls' # {} \/ ticker' = "resendCall"
      PROVE  rpcClient' # "nil"
  <2>1. CASE handleRpcShutdown
    <3>1. Calls' = Calls /\ ticker' = ticker
      BY <2>1 DEF handleRpcShutdown, Calls
    <3>2. Calls = {} /\ ticker # "resendCall"
      BY <2>1 DEF handleRpcShutdown, Reading, InCall, Calls
    <3> QED BY <1>4, <3>1, <3>2
  <2>2. CASE Restart
    BY <1>4, <2>2 DEF Restart, Calls
  <2>3. CASE SetClient
    BY <1>2, <2>3
  <2>4. CASE rpcClient = "open" /\ rpcClient' = "broken"
    BY <2>4
  <2>5. CASE rpcClient' = rpcClient
    <3>1. CASE Calls # {} \/ ticker = "resendCall"
      BY <2>5, <3>1 DEF ClientInv
    <3>2. CASE Calls = {} /\ ticker # "resendCall"
      <4>1. Calls' # {} => rpcClient = "open"
        BY <3>2, CallsMove
      <4>2. ticker' = "resendCall" => rpcClient = "open"
        BY <1>3, <3>2 DEF ResendCall
      <4> QED BY <1>4, <2>5, <4>1, <4>2
    <3> QED BY <3>1, <3>2
  <2> QED BY <1>1, <2>1, <2>2, <2>3, <2>4, <2>5
<1>5. sameCoordinator' = sameCoordinator
  BY DEF RpcNext, AggregatorStarts, AggregatorStops, handleRpcShutdown, Spawn, SendBegin,
    SendReturns, appendProtected, RequestBegin, RequestReturns, Tick, DialOk, DialFails,
    SetClient, CheckUnsent, TickerStep, ResendBegin, ResendCall, ResendReturns, ResendOk,
    ResendError, ResendShutdown, ResendEnd, ResendAtOnce, ResendDone, FatalCoordinator,
    PanicNilClient, Exit, Restart, rpcVars, world, client, queue, fate
<1>6. ~sameCoordinator => rpcClient' = "nil"
  BY <1>1, <1>2 DEF ClientInv, handleRpcShutdown, Restart
<1>7. ~sameCoordinator => accepted' = {}
  BY FateTyped
<1>8. ticker' = "resendCall" => i' <= Len(unsentMessages')
  <2>1. CASE ResendCall
    BY <2>1 DEF ResendCall, TickerStep, queue
  <2>2. CASE ticker = "resendCall" /\ UNCHANGED queue
    BY <2>2 DEF ClientInv, queue
  <2> QED BY <1>3, <2>1, <2>2
<1> QED BY <1>4, <1>5, <1>6, <1>7, <1>8, ShutdownsBounded, ZenonT(30) DEF ClientInv

\* The invariant holds at the start.
LEMMA InitInv == RpcInit => RpcInv
<1> HAVE RpcInit
<1>1. /\ aggregator = [up |-> FALSE, outages |-> 0] /\ sameCoordinator \in BOOLEAN
      /\ running = TRUE /\ rpcClient = "nil" /\ notifiedInitialized = FALSE
      /\ sender = [m \in Messages |-> "none"] /\ request = [r \in Requests |-> "none"]
      /\ shutdowns = 0 /\ ticker = "wait" /\ unsentMessages = <<>> /\ i = 1 /\ errorPos = 0
      /\ accepted = {} /\ dropped = {} /\ lost = {}
  BY DEF RpcInit, Fresh
<1>2. RpcTypeOK
  <2>1. aggregator \in [up : BOOLEAN, outages : 0..MaxOutages] /\ shutdowns \in 0..MaxShutdowns
    BY <1>1, RpcClientAssumption, SMT
  <2>2. /\ sender \in [Messages -> {"none", "spawned", "call", "append", "done"}]
        /\ request \in [Requests -> {"none", "call", "answered", "failed"}]
    BY <1>1
  <2>3. QueueTypeOK
    BY <1>1, SMT DEF QueueTypeOK
  <2> QED BY <1>1, <2>1, <2>2, <2>3 DEF RpcTypeOK, QueueTypeOK
<1>3. ClientInv
  <2>1. Calls = {}
    BY <1>1 DEF Calls
  <2>2. Cardinality(Calls) = 0
    BY <2>1, FS_EmptySet
  <2> QED BY <1>1, <2>1, <2>2, RpcClientAssumption, SMT DEF ClientInv
<1>4. QueueInv
  <2>1. Len(unsentMessages) = 0 /\ Live = {}
    BY <1>1, SMT DEF Live, Resending
  <2> QED BY <1>1, <2>1, SMT DEF QueueInv
<1> QED BY <1>2, <1>3, <1>4 DEF RpcInv

\* Every step keeps the invariant.
LEMMA StepInv ==
  ASSUME RpcInv, [RpcNext]_rpcVars
  PROVE  RpcInv'
<1>1. RpcTypeOK'
  BY GoroutinesMove, ClientTyped, QueueTyped, FateTyped, ShutdownsBounded
    DEF RpcInv, RpcTypeOK, QueueTypeOK
<1>2. ClientInv'
  BY ClientInvStep DEF RpcInv
<1>3. QueueInv'
  BY QueueInvStep
<1> QED BY <1>1, <1>2, <1>3 DEF RpcInv

\* The invariant holds always.
LEMMA Inductive == RpcSpec => []RpcInv
<1>1. RpcInv /\ [RpcNext]_rpcVars => RpcInv'
  BY StepInv
<1> QED BY InitInv, <1>1, PTL DEF RpcSpec

-----------------------------------------------------------------------------
(* The queue as the property sees it *)

\* The messages of a queue, entry by entry.
LEMMA MessagesAt ==
  ASSUME NEW s \in Seq(Entries)
  PROVE  /\ MessagesOf(s) \in Seq(Messages) /\ Len(MessagesOf(s)) = Len(s)
         /\ \A k \in 1..Len(s) : MessagesOf(s)[k] = s[k].message
<1>1. Len(s) \in Nat /\ \A k \in 1..Len(s) : s[k].message \in Messages
  <2>1. Len(s) \in Nat /\ \A k \in 1..Len(s) : s[k] \in Entries
    BY SMT
  <2>2. \A e \in Entries : e.message \in Messages
    BY DEF Entries
  <2> QED BY <2>1, <2>2
<1> QED BY <1>1, SMT DEF MessagesOf

\* The messages of a queue, entry by entry.
LEMMA SameMessages ==
  ASSUME NEW s \in Seq(Entries), NEW t \in Seq(Messages), Len(t) = Len(s),
         \A k \in 1..Len(s) : t[k] = s[k].message
  PROVE  MessagesOf(s) = t
BY MessagesAt, SeqEqual, SMT

\* The position of an entry before the compaction.
From(k, from, to) == IF k <= to THEN k ELSE k - to + from - 1

\* c is s without its positions to + 1..from - 1.
Without(c, s, S, from, to) ==
  /\ c \in Seq(S) /\ Len(c) = to + Len(s) - from + 1
  /\ \A k \in 1..to + Len(s) - from + 1 : c[k] = s[From(k, from, to)]

\* The compaction takes out what lies between the cursors and nothing else.
LEMMA CompactedFrom ==
  ASSUME NEW S, NEW s \in Seq(S), NEW from \in 1..Len(s) + 1, NEW to \in 0..from - 1
  PROVE  Without(Compact(s, from, to), s, S, from, to)
<1>1. Len(s) \in Nat
  BY SMT
<1>2. /\ Compact(s, from, to) \in Seq(S)
      /\ Len(Compact(s, from, to)) = to + Len(s) - from + 1
      /\ \A k \in 1..to : Compact(s, from, to)[k] = s[k]
      /\ \A k \in to + 1..Len(Compact(s, from, to)) :
           Compact(s, from, to)[k] = s[k - to + from - 1]
  BY Compacted, SMT
<1>3. ASSUME NEW k \in 1..to + Len(s) - from + 1
      PROVE  Compact(s, from, to)[k] = s[From(k, from, to)]
  <2>1. CASE k <= to
    <3>1. k \in 1..to
      BY <1>1, <2>1, SMT
    <3> QED BY <1>2, <2>1, <3>1 DEF From
  <2>2. CASE ~(k <= to)
    <3>1. k \in to + 1..Len(Compact(s, from, to))
      BY <1>1, <1>2, <2>2, SMT
    <3> QED BY <1>2, <2>2, <3>1 DEF From
  <2> QED BY <2>1, <2>2
<1> QED BY <1>2, <1>3 DEF Without

\* What the queue will be after the compaction.
LEMMA PendingTyped ==
  ASSUME RpcTypeOK
  PROVE  /\ Resending => Pending = Compact(unsentMessages, i, errorPos)
         /\ ~Resending => Pending = unsentMessages
         /\ Pending \in Seq(Entries) /\ Len(Pending) \in Nat
         /\ Resending => Without(Pending, unsentMessages, Entries, i, errorPos)
<1>1. /\ unsentMessages \in Seq(Entries) /\ Len(unsentMessages) \in Nat
      /\ i \in 1..Len(unsentMessages) + 1 /\ errorPos \in 0..i - 1
  BY SMT DEF RpcTypeOK
<1>2. Without(Compact(unsentMessages, i, errorPos), unsentMessages, Entries, i, errorPos)
  BY <1>1, CompactedFrom
<1>3. /\ Resending => Pending = Compact(unsentMessages, i, errorPos)
      /\ ~Resending => Pending = unsentMessages
  BY DEF Pending, Resending
<1>4. Pending \in Seq(Entries)
  BY <1>1, <1>2, <1>3 DEF Without
<1> QED BY <1>2, <1>3, <1>4, SMT

\* A step leaves the messages to be sent as they are.
LEMMA PendingStays ==
  ASSUME RpcInv, RpcTypeOK',
         Elsewhere \/ ResendBegin \/ Kept \/ Stopped
           \/ \E m \in Messages : Spawn(m) \/ SendBegin(m) \/ SendReturns(m)
  PROVE  MessagesOf(Pending') = MessagesOf(Pending)
<1>1. RpcTypeOK
  BY DEF RpcInv
<1>2. ASSUME UNCHANGED queue, Resending' <=> Resending
      PROVE  Pending' = Pending
  BY <1>2 DEF Pending, Resending, queue
<1>3. CASE Elsewhere
  BY <1>2, <1>3 DEF Elsewhere
<1>4. ASSUME NEW m \in Messages, Spawn(m) \/ SendBegin(m) \/ SendReturns(m)
      PROVE  Pending' = Pending
  <2>1. UNCHANGED <<queue, ticker>>
    BY <1>4, MessageMoves DEF RpcInv
  <2> QED BY <1>2, <2>1 DEF Resending
<1>5. CASE Stopped
  <2>1. Pending = Compact(unsentMessages, i, errorPos)
    BY <1>1, <1>5, PendingTyped DEF Stopped
  <2>2. Pending' = unsentMessages'
    BY <1>5 DEF Stopped, Pending, Resending
  <2> QED BY <1>5, <2>1, <2>2 DEF Stopped
<1>6. CASE ResendBegin
  <2>1. Pending = unsentMessages /\ Pending' = Compact(unsentMessages, 1, 0)
    BY <1>6 DEF ResendBegin, Pending
  <2>2. unsentMessages \in Seq(Entries) /\ Len(unsentMessages) \in Nat
    BY <1>1, SMT DEF RpcTypeOK
  <2>3. 1 \in 1..Len(unsentMessages) + 1 /\ 0 \in 0..1 - 1
    BY <2>2, SMT
  <2>4. Len(Pending') = 0 + Len(unsentMessages) - 1 + 1 /\ Pending' \in Seq(Entries)
        /\ \A k \in 1..0 + Len(unsentMessages) - 1 + 1 : Pending'[k] = unsentMessages[From(k, 1, 0)]
    <3>1. Without(Compact(unsentMessages, 1, 0), unsentMessages, Entries, 1, 0)
      BY <2>2, <2>3, CompactedFrom
    <3>2. Without(Pending', unsentMessages, Entries, 1, 0)
      BY <2>1, <3>1
    <3> QED BY <3>2 DEF Without
  <2>5. \A k \in 1..Len(unsentMessages) : From(k, 1, 0) = k
    BY <2>2, SMT DEF From
  <2>6. Len(Pending') = Len(Pending) /\ \A k \in 1..Len(Pending) : Pending'[k] = Pending[k]
    BY <2>1, <2>2, <2>4, <2>5, SMT
  <2> QED BY <2>1, <2>2, <2>4, <2>6, SeqEqual
<1>7. CASE Kept
  <2> DEFINE n == Len(unsentMessages)
             e == errorPos
             L == e + n - i + 1
  <2>1. /\ unsentMessages \in Seq(Entries) /\ n \in Nat /\ i \in Nat /\ e \in Nat /\ e < i
        /\ i <= n /\ i \in 1..n + 1 /\ e \in 0..i - 1
    <3>1. i <= n
      BY <1>7 DEF Kept, NextEntry
    <3> QED BY <1>1, <3>1, SMT DEF RpcTypeOK
  <2>2. /\ unsentMessages' = [unsentMessages EXCEPT ![e + 1] =
                                [unsentMessages[i] EXCEPT !.retries = @ + 1]]
        /\ i' = i + 1 /\ errorPos' = e + 1 /\ Resending /\ Resending'
    BY <1>7 DEF Kept, NextEntry
  <2>3. unsentMessages' \in Seq(Entries)
    BY DEF RpcTypeOK
  <2>4. /\ Len(unsentMessages') = n
        /\ \A k \in 1..n : k # e + 1 => unsentMessages'[k] = unsentMessages[k]
        /\ unsentMessages'[e + 1].message = unsentMessages[i].message
    <3>1. e + 1 \in 1..n /\ i \in 1..n
      BY <2>1, SMT
    <3>2. unsentMessages[i] \in Entries
      BY <2>1, <3>1, SMT
    <3>3. unsentMessages'[e + 1] = [unsentMessages[i] EXCEPT !.retries = @ + 1]
      BY <2>1, <2>2, <3>1, SMT
    <3>4. unsentMessages'[e + 1].message = unsentMessages[i].message
      BY <3>2, <3>3 DEF Entries
    <3> QED BY <2>1, <2>2, <3>1, <3>4, SMT
  <2>5. /\ Pending \in Seq(Entries) /\ Len(Pending) = L
        /\ \A k \in 1..L : Pending[k] = unsentMessages[From(k, i, e)]
    <3>1. Without(Pending, unsentMessages, Entries, i, errorPos)
      BY <1>1, <2>2, PendingTyped
    <3> QED BY <3>1 DEF Without
  <2>6. /\ Pending' \in Seq(Entries) /\ Len(Pending') = (e + 1) + n - (i + 1) + 1
        /\ \A k \in 1..(e + 1) + n - (i + 1) + 1 :
             Pending'[k] = unsentMessages'[From(k, i + 1, e + 1)]
    <3>1. Pending' = Compact(unsentMessages', i + 1, e + 1)
      BY <2>2 DEF Pending, Resending
    <3>2. i + 1 \in 1..Len(unsentMessages') + 1 /\ e + 1 \in 0..(i + 1) - 1
      BY <2>1, <2>4, SMT
    <3> DEFINE s == unsentMessages'
    <3> HIDE DEF s
    <3>3. s \in Seq(Entries) /\ i + 1 \in 1..Len(s) + 1 /\ e + 1 \in 0..(i + 1) - 1
      BY <2>3, <3>2 DEF s
    <3>4. Without(Compact(s, i + 1, e + 1), s, Entries, i + 1, e + 1)
      BY <3>3, CompactedFrom
    <3> QED BY <2>4, <3>1, <3>4 DEF s, Without
  <2> HIDE DEF n, e
  <2>7. L \in Int /\ (e + 1) + n - (i + 1) + 1 = L
    BY <2>1, SMT
  <2>8. ASSUME NEW k \in 1..L
        PROVE  Pending'[k].message = Pending[k].message
    <3>1. Pending[k] = unsentMessages[From(k, i, e)] /\ Pending'[k] = unsentMessages'[From(k, i + 1, e + 1)]
      BY <2>5, <2>6, <2>7
    <3>2. CASE k <= e
      <4>1. From(k, i, e) = k /\ From(k, i + 1, e + 1) = k /\ k # e + 1 /\ k \in 1..n
        BY <2>1, <2>7, <3>2, SMT DEF From
      <4> QED BY <2>4, <3>1, <4>1
    <3>3. CASE k = e + 1
      <4>1. From(k, i, e) = i /\ From(k, i + 1, e + 1) = e + 1
        BY <2>1, <2>7, <3>3, SMT DEF From
      <4> QED BY <2>4, <3>1, <4>1
    <3>4. CASE k > e + 1
      <4>1. /\ From(k, i, e) = k - e + i - 1 /\ From(k, i + 1, e + 1) = k - e + i - 1
            /\ k - e + i - 1 # e + 1 /\ k - e + i - 1 \in 1..n
        BY <2>1, <2>7, <3>4, SMT DEF From
      <4> QED BY <2>4, <3>1, <4>1
    <3> QED BY <2>1, <2>7, <3>2, <3>3, <3>4, SMT
  <2>9. Len(Pending') = Len(Pending) /\ Len(Pending) = L
    BY <2>5, <2>6, <2>7
  <2>10. /\ MessagesOf(Pending) \in Seq(Messages) /\ Len(MessagesOf(Pending)) = Len(Pending')
         /\ \A k \in 1..Len(Pending') : MessagesOf(Pending)[k] = Pending'[k].message
    BY <2>5, <2>8, <2>9, MessagesAt
  <2> QED BY <2>6, <2>10, SameMessages
<1> QED BY <1>3, <1>4, <1>5, <1>6, <1>7

\* The entry at i leaves the queue.
LEMMA PendingLeaves ==
  ASSUME RpcInv, Sent \/ GivenUp
  PROVE  /\ errorPos + 1 \in 1..Len(Pending)
         /\ Pending[errorPos + 1] = unsentMessages[i]
         /\ MessagesOf(Pending') = Compact(MessagesOf(Pending), errorPos + 2, errorPos)
<1> DEFINE n == Len(unsentMessages)
           e == errorPos
           L == e + n - i + 1
           M == MessagesOf(Pending)
<1>1. RpcTypeOK
  BY DEF RpcInv
<1>2. /\ unsentMessages \in Seq(Entries) /\ n \in Nat /\ i \in Nat /\ e \in Nat /\ e < i
      /\ i <= n /\ i \in 1..n + 1 /\ e \in 0..i - 1
      /\ i + 1 \in 1..n + 1 /\ e \in 0..(i + 1) - 1
  BY <1>1, SMT DEF RpcTypeOK, Sent, GivenUp, NextEntry
<1>3. UNCHANGED <<unsentMessages, errorPos>> /\ i' = i + 1 /\ Resending /\ Resending'
  BY DEF Sent, GivenUp, NextEntry
<1>4. /\ Pending \in Seq(Entries) /\ Len(Pending) = L
      /\ \A k \in 1..L : Pending[k] = unsentMessages[From(k, i, e)]
  <2>1. Without(Pending, unsentMessages, Entries, i, errorPos)
    BY <1>1, <1>3, PendingTyped
  <2> QED BY <2>1 DEF Without
<1>5. /\ Pending' \in Seq(Entries) /\ Len(Pending') = e + n - (i + 1) + 1
      /\ \A k \in 1..e + n - (i + 1) + 1 : Pending'[k] = unsentMessages[From(k, i + 1, e)]
  <2>1. Pending' = Compact(unsentMessages, i + 1, e)
    BY <1>3 DEF Pending, Resending
  <2>2. Without(Compact(unsentMessages, i + 1, e), unsentMessages, Entries, i + 1, e)
    BY <1>2, CompactedFrom
  <2> QED BY <2>1, <2>2 DEF Without
<1> HIDE DEF n, e
<1>6. /\ L \in Nat /\ e + n - (i + 1) + 1 = L - 1 /\ e + 1 \in 1..L
      /\ e + 2 \in 1..L + 1 /\ e \in 0..(e + 2) - 1
  BY <1>2, SMT
<1>7. Pending[e + 1] = unsentMessages[i]
  <2>1. From(e + 1, i, e) = i
    BY <1>2, SMT DEF From
  <2> QED BY <1>4, <1>6, <2>1
<1>8. M \in Seq(Messages) /\ Len(M) = L /\ \A k \in 1..L : M[k] = Pending[k].message
  BY <1>4, MessagesAt
<1> HIDE DEF L, M
<1>9. /\ Compact(M, e + 2, e) \in Seq(Messages)
      /\ Len(Compact(M, e + 2, e)) = e + L - (e + 2) + 1
      /\ \A k \in 1..e + L - (e + 2) + 1 : Compact(M, e + 2, e)[k] = M[From(k, e + 2, e)]
  <2>1. M \in Seq(Messages) /\ e + 2 \in 1..Len(M) + 1 /\ e \in 0..(e + 2) - 1
    BY <1>6, <1>8
  <2>2. Without(Compact(M, e + 2, e), M, Messages, e + 2, e)
    BY <2>1, CompactedFrom
  <2> QED BY <1>8, <2>2 DEF Without
<1>10. e + L - (e + 2) + 1 = L - 1
  BY <1>2, <1>6, SMT
<1>11. ASSUME NEW k \in 1..L - 1
       PROVE  Compact(M, e + 2, e)[k] = Pending'[k].message
  <2>1. From(k, e + 2, e) \in 1..L /\ From(From(k, e + 2, e), i, e) = From(k, i + 1, e)
    <3>1. CASE k <= e
      BY <1>2, <1>6, <3>1, SMT DEF From
    <3>2. CASE ~(k <= e)
      <4>1. From(k, e + 2, e) = k + 1 /\ From(k, i + 1, e) = k - e + i
        BY <1>2, <1>6, <3>2, SMT DEF From
      <4>2. From(k + 1, i, e) = k - e + i
        BY <1>2, <1>6, <3>2, SMT DEF From
      <4> QED BY <1>6, <4>1, <4>2, SMT
    <3> QED BY <3>1, <3>2
  <2>2. Compact(M, e + 2, e)[k] = Pending[From(k, e + 2, e)].message
    BY <1>8, <1>9, <1>10, <2>1
  <2>3. Pending[From(k, e + 2, e)] = unsentMessages[From(k, i + 1, e)]
    BY <1>4, <2>1 DEF L
  <2>4. Pending'[k] = unsentMessages[From(k, i + 1, e)]
    BY <1>5, <1>6
  <2> QED BY <2>2, <2>3, <2>4
<1>12. MessagesOf(Pending') = Compact(M, e + 2, e)
  <2>1. Len(Pending') = L - 1 /\ Len(Compact(M, e + 2, e)) = L - 1
    BY <1>5, <1>6, <1>9, <1>10
  <2> QED BY <1>5, <1>9, <1>11, <2>1, SameMessages
<1> QED BY <1>4, <1>6, <1>7, <1>12 DEF e, M

\* An appended message comes last, also during a compaction.
LEMMA PendingGrows ==
  ASSUME RpcInv, NEW m \in Messages, appendProtected(m)
  PROVE  MessagesOf(Pending') = Append(MessagesOf(Pending), m)
<1> DEFINE new == [message |-> m, retries |-> 0]
           M == MessagesOf(Pending)
<1>1. /\ Pending = unsentMessages /\ Pending' = Append(unsentMessages, new)
      /\ unsentMessages \in Seq(Entries) /\ Len(unsentMessages) \in Nat
  BY SMT DEF RpcInv, RpcTypeOK, appendProtected, Pending
<1>2. new \in Entries /\ new.message = m
  BY RpcClientAssumption, SMT DEF Entries
<1> HIDE DEF new
<1>3. /\ Pending' \in Seq(Entries) /\ Len(Pending') = Len(Pending) + 1
      /\ \A k \in 1..Len(Pending) : Pending'[k] = Pending[k]
      /\ Pending'[Len(Pending) + 1].message = m
  BY <1>1, <1>2, SMT
<1>4. M \in Seq(Messages) /\ Len(M) = Len(Pending) /\ \A k \in 1..Len(M) : M[k] = Pending[k].message
  BY <1>1, MessagesAt
<1> HIDE DEF M
<1>5. /\ Append(M, m) \in Seq(Messages) /\ Len(Append(M, m)) = Len(Pending')
      /\ \A k \in 1..Len(Pending) : Append(M, m)[k] = Pending'[k].message
      /\ Append(M, m)[Len(Pending) + 1] = Pending'[Len(Pending) + 1].message
  BY <1>1, <1>3, <1>4, SMT
<1>6. \A k \in 1..Len(Pending') : Append(M, m)[k] = Pending'[k].message
  BY <1>1, <1>3, <1>5, SMT
<1> QED BY <1>3, <1>5, <1>6, SameMessages DEF M

-----------------------------------------------------------------------------
(* Theorems *)

\* The variables of the client keep their types, the cursors of tryResendFromDeque
\* stay in the queue, and the goroutines of handleRpcShutdown within their bound.
THEOREM RpcTypeCorrect == RpcSpec => []RpcTypeOK
<1>1. RpcInv => RpcTypeOK
  BY DEF RpcInv
<1> QED BY Inductive, <1>1, PTL

\* No interleaving of the senders, the ticker, broken connections and the compaction
\* of unsentMessages loses a signed message or queues it twice.
THEOREM NothingLostHolds == RpcSpec => []NothingLost
<1> DEFINE Pos(k) == IF Resending THEN From(k, i, errorPos) ELSE k
           n == Len(unsentMessages)
<1>1. ASSUME RpcInv
      PROVE  /\ \A k \in 1..Len(Pending) : Pos(k) \in Live /\ Pending[k] = unsentMessages[Pos(k)]
             /\ \A j, k \in 1..Len(Pending) : Pos(j) = Pos(k) => j = k
             /\ \A l \in Live : \E k \in 1..Len(Pending) : Pending[k] = unsentMessages[l]
  <2>1. /\ RpcTypeOK /\ unsentMessages \in Seq(Entries) /\ n \in Nat /\ i \in Nat
        /\ errorPos \in Nat /\ errorPos < i
        /\ i \in 1..n + 1 /\ errorPos \in 0..i - 1
    BY <1>1, SMT DEF RpcInv, RpcTypeOK
  <2>2. CASE ~Resending
    BY <2>1, <2>2, LiveInQueue, PendingTyped
  <2>3. CASE Resending
    <3> DEFINE L == errorPos + n - i + 1
    <3>1. /\ Len(Pending) = L /\ L \in Nat
          /\ \A k \in 1..L : Pending[k] = unsentMessages[From(k, i, errorPos)]
          /\ \A k \in i..n : /\ k - i + 1 + errorPos \in errorPos + 1..Len(Pending)
                             /\ Pending[k - i + 1 + errorPos] = unsentMessages[k]
      <4>1. /\ Len(Pending) = L
            /\ \A k \in 1..L : Pending[k] = unsentMessages[From(k, i, errorPos)]
        <5>1. Without(Pending, unsentMessages, Entries, i, errorPos)
          BY <2>1, <2>3, PendingTyped
        <5> QED BY <5>1 DEF Without
      <4>2. ASSUME NEW k \in i..n
            PROVE  /\ k - i + 1 + errorPos \in errorPos + 1..Len(Pending)
                   /\ Pending[k - i + 1 + errorPos] = unsentMessages[k]
        <5> HIDE DEF n
        <5>1. /\ k - i + 1 + errorPos \in errorPos + 1..L
              /\ k - i + 1 + errorPos \in 1..L
              /\ From(k - i + 1 + errorPos, i, errorPos) = k
          BY <2>1, SMT DEF From
        <5> HIDE DEF L
        <5> QED BY <4>1, <5>1
      <4> QED BY <2>1, <4>1, <4>2, SMT
    <3>2. Live = (1..errorPos) \cup (i..n)
      BY <2>1, <2>3, LiveInQueue
    <3> HIDE DEF n
    <3>3. \A k \in 1..L : Pos(k) \in Live
      BY <2>1, <2>3, <3>1, <3>2, SMT DEF From
    <3>4. \A j, k \in 1..L : Pos(j) = Pos(k) => j = k
      BY <2>1, <2>3, <3>1, SMT DEF From
    <3>5. ASSUME NEW l \in Live
          PROVE  \E k \in 1..Len(Pending) : Pending[k] = unsentMessages[l]
      <4>1. CASE l \in 1..errorPos
        <5>1. l \in 1..L /\ From(l, i, errorPos) = l
          BY <2>1, <3>1, <4>1, SMT DEF From
        <5> QED BY <3>1, <5>1
      <4>2. CASE l \in i..n
        <5>1. l - i + 1 + errorPos \in 1..Len(Pending)
          BY <2>1, <3>1, <4>2, SMT
        <5> QED BY <3>1, <4>2, <5>1
      <4> QED BY <3>2, <4>1, <4>2
    <3> QED BY <2>3, <3>1, <3>3, <3>4, <3>5
  <2> QED BY <2>2, <2>3
<1> HIDE DEF Pos
<1>2. ASSUME RpcInv
      PROVE  NothingLost
  <2>1. ASSUME NEW m \in Messages, sender[m] = "done"
        PROVE  m \in accepted \cup dropped \/ \E k \in 1..Len(Pending) : Pending[k].message = m
    <3>1. m \in accepted \cup dropped \/ \E l \in Live : unsentMessages[l].message = m
      BY <1>2, <2>1 DEF RpcInv, QueueInv
    <3> QED BY <1>1, <1>2, <3>1
  <2>2. ASSUME NEW j \in 1..Len(Pending), NEW k \in 1..Len(Pending),
               Pending[j].message = Pending[k].message
        PROVE  j = k
    <3>1. /\ Pos(j) \in Live /\ Pending[j] = unsentMessages[Pos(j)]
          /\ Pos(k) \in Live /\ Pending[k] = unsentMessages[Pos(k)]
      BY <1>1, <1>2
    <3>2. \A x, y \in Live : unsentMessages[x].message = unsentMessages[y].message => x = y
      BY <1>2 DEF RpcInv, QueueInv
    <3>3. Pos(j) = Pos(k)
      BY <2>2, <3>1, <3>2
    <3> QED BY <1>1, <1>2, <3>3
  <2> QED BY <2>1, <2>2 DEF NothingLost
<1> QED BY Inductive, <1>2, PTL

\* The queue keeps its order in every step of a process, for a queue of any length.
THEOREM QueueStepHolds == RpcSpec => QueueStep
<1> DEFINE A == running /\ running' =>
                  \/ MessagesOf(Pending') = MessagesOf(Pending)
                  \/ \E m \in Messages : MessagesOf(Pending') = Append(MessagesOf(Pending), m)
                  \/ \E k \in 1..Len(Pending) :
                       /\ MessagesOf(Pending') = Compact(MessagesOf(Pending), k + 1, k - 1)
                       /\ Pending[k].message \in accepted' \/ Pending[k].retries + 1 = MaxRetries
<1>1. ASSUME RpcInv, RpcInv', [RpcNext]_rpcVars
      PROVE  A
  <2>1. RpcTypeOK /\ ClientInv /\ RpcTypeOK'
    BY <1>1 DEF RpcInv
  <2>2. CASE Elsewhere \/ ResendBegin \/ Kept \/ Stopped
               \/ \E m \in Messages : Spawn(m) \/ SendBegin(m) \/ SendReturns(m)
    BY <1>1, <2>1, <2>2, PendingStays
  <2>3. CASE Sent \/ GivenUp
    <3>1. /\ errorPos + 1 \in 1..Len(Pending)
          /\ Pending[errorPos + 1] = unsentMessages[i]
          /\ MessagesOf(Pending') = Compact(MessagesOf(Pending), errorPos + 2, errorPos)
      BY <1>1, <2>3, PendingLeaves
    <3>2. (errorPos + 1) + 1 = errorPos + 2 /\ (errorPos + 1) - 1 = errorPos
      BY <2>1, SMT DEF RpcTypeOK
    <3>3. \/ Pending[errorPos + 1].message \in accepted'
          \/ Pending[errorPos + 1].retries + 1 = MaxRetries
      BY <2>3, <3>1 DEF Sent, GivenUp
    <3> QED BY <3>1, <3>2, <3>3
  <2>4. ASSUME NEW m \in Messages, appendProtected(m)
        PROVE  A
    BY <1>1, <2>4, PendingGrows
  <2>5. CASE Restart
    BY <2>5 DEF Restart
  <2> HIDE DEF A
  <2> QED BY <1>1, <2>1, <2>2, <2>3, <2>4, <2>5, Steps DEF MessageStep
<1>2. RpcInv /\ RpcInv' /\ [RpcNext]_rpcVars => [A]_rpcVars
  BY <1>1
<1> QED BY Inductive, <1>2, PTL DEF RpcSpec, QueueStep

\* The client of an aggregator with another registry coordinator is never published,
\* so no message reaches it.
THEOREM OnlyOwnAggregatorHolds == RpcSpec => []OnlyOwnAggregator
<1>1. RpcInv => OnlyOwnAggregator
  BY DEF RpcInv, ClientInv, OnlyOwnAggregator
<1> QED BY Inductive, <1>1, PTL
=============================================================================
