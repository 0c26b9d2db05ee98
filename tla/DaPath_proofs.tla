---------------------------- MODULE DaPath_proofs ----------------------------
(***************************************************************************)
(* Proofs for DaPath: blocks are posted once unless a submission timed     *)
(* out, they reach the attestor with their own transaction, and none       *)
(* vanishes on the way.                                                    *)
(***************************************************************************)
EXTENDS DaPath, FiniteSetTheorems, TLAPS

\* A leaf that names no prover is Zenon's.
USE Zenon

-----------------------------------------------------------------------------
(* Sequences and what they hold *)

\* Nothing is in the empty sequence.
LEMMA RangeEmpty == Range(<<>>) = {}
BY SMT DEF Range

\* The elements of a sequence, by position.
LEMMA RangeSeq ==
  ASSUME NEW S, NEW s \in Seq(S)
  PROVE  /\ Range(s) = {s[i] : i \in 1..Len(s)}
         /\ Range(s) \subseteq S
BY SMT DEF Range

\* An element is added at the end.
LEMMA RangeAppend ==
  ASSUME NEW S, NEW s \in Seq(S), NEW x \in S
  PROVE  Range(Append(s, x)) = Range(s) \cup {x}
<1>1. /\ Append(s, x) \in Seq(S) /\ Len(Append(s, x)) = Len(s) + 1 /\ Len(s) \in Nat
      /\ \A i \in 1..Len(s) : Append(s, x)[i] = s[i]
      /\ Append(s, x)[Len(s) + 1] = x
  BY SMT
<1>2. Range(Append(s, x)) = {Append(s, x)[i] : i \in 1..(Len(s) + 1)}
  BY <1>1, RangeSeq
<1>3. Range(s) = {s[i] : i \in 1..Len(s)}
  BY RangeSeq
<1>4. \A i : i \in 1..(Len(s) + 1) <=> i \in 1..Len(s) \/ i = Len(s) + 1
  BY <1>1, SMT
<1> QED BY <1>1, <1>2, <1>3, <1>4

\* A longer sequence is one.
LEMMA AppendType ==
  ASSUME NEW S, NEW s \in Seq(S), NEW x \in S
  PROVE  Append(s, x) \in Seq(S)
BY SMT

\* The first element is removed.
LEMMA RangeTail ==
  ASSUME NEW S, NEW s \in Seq(S), s # <<>>
  PROVE  /\ Range(s) = {Head(s)} \cup Range(Tail(s))
         /\ Head(s) \in S /\ Tail(s) \in Seq(S)
<1>1. /\ Tail(s) \in Seq(S) /\ Len(s) \in Nat /\ Len(s) >= 1 /\ Len(Tail(s)) = Len(s) - 1
      /\ Head(s) = s[1] /\ Head(s) \in S
      /\ \A i \in 1..(Len(s) - 1) : Tail(s)[i] = s[i + 1]
  BY SMT
<1>2. Range(Tail(s)) = {Tail(s)[i] : i \in 1..(Len(s) - 1)}
  BY <1>1, RangeSeq
<1>3. Range(s) = {s[i] : i \in 1..Len(s)}
  BY RangeSeq
<1>4. \A i \in 1..Len(s) : i = 1 \/ (i - 1 \in 1..(Len(s) - 1) /\ s[i] = Tail(s)[i - 1])
  BY <1>1, SMT
<1>5. \A i \in 1..(Len(s) - 1) : i + 1 \in 1..Len(s) /\ Tail(s)[i] = s[i + 1]
  BY <1>1, SMT
<1>6. Range(s) \subseteq {Head(s)} \cup Range(Tail(s))
  BY <1>1, <1>2, <1>3, <1>4, SMTT(30)
<1>7. {Head(s)} \cup Range(Tail(s)) \subseteq Range(s)
  <2>1. 1 \in 1..Len(s)
    BY <1>1, SMT
  <2> QED BY <1>1, <1>2, <1>3, <1>5, <2>1
<1> QED BY <1>1, <1>6, <1>7

\* Two sequences, one after the other.
LEMMA RangeConcat ==
  ASSUME NEW S, NEW s \in Seq(S), NEW t \in Seq(S)
  PROVE  s \o t \in Seq(S) /\ Range(s \o t) = Range(s) \cup Range(t)
<1>1. /\ s \o t \in Seq(S) /\ Len(s \o t) = Len(s) + Len(t) /\ Len(s) \in Nat /\ Len(t) \in Nat
      /\ \A i \in 1..Len(s) : (s \o t)[i] = s[i]
      /\ \A i \in 1..Len(t) : (s \o t)[Len(s) + i] = t[i]
  BY SMT
<1>2. Range(s \o t) = {(s \o t)[i] : i \in 1..(Len(s) + Len(t))}
  BY <1>1, RangeSeq
<1>3. Range(s) = {s[i] : i \in 1..Len(s)} /\ Range(t) = {t[i] : i \in 1..Len(t)}
  BY RangeSeq
<1>4. \A i \in 1..(Len(s) + Len(t)) :
        i \in 1..Len(s) \/ (i - Len(s) \in 1..Len(t) /\ Len(s) + (i - Len(s)) = i)
  BY <1>1, SMT
<1>5. Range(s \o t) \subseteq Range(s) \cup Range(t)
  <2> SUFFICES ASSUME NEW i \in 1..(Len(s) + Len(t))
               PROVE  (s \o t)[i] \in Range(s) \cup Range(t)
    BY <1>2
  <2>1. CASE i \in 1..Len(s)
    BY <1>1, <1>3, <2>1
  <2>2. CASE i - Len(s) \in 1..Len(t) /\ Len(s) + (i - Len(s)) = i
    <3>1. (s \o t)[i] = t[i - Len(s)]
      BY <1>1, <2>2
    <3> QED BY <1>3, <2>2, <3>1
  <2> QED BY <1>4, <2>1, <2>2
<1>6. Range(s) \subseteq Range(s \o t)
  <2>1. \A i \in 1..Len(s) : i \in 1..(Len(s) + Len(t))
    BY <1>1, SMT
  <2> QED BY <1>1, <1>2, <1>3, <2>1
<1>7. Range(t) \subseteq Range(s \o t)
  <2>1. \A i \in 1..Len(t) : Len(s) + i \in 1..(Len(s) + Len(t))
    BY <1>1, SMT
  <2> QED BY <1>1, <1>2, <1>3, <2>1
<1> QED BY <1>1, <1>5, <1>6, <1>7

\* A sequence cut in two.
LEMMA RangeCut ==
  ASSUME NEW S, NEW s \in Seq(S), NEW n \in 0..Len(s)
  PROVE  /\ SubSeq(s, 1, n) \in Seq(S) /\ SubSeq(s, n + 1, Len(s)) \in Seq(S)
         /\ Range(SubSeq(s, 1, n)) = {s[i] : i \in 1..n}
         /\ Range(s) = Range(SubSeq(s, 1, n)) \cup Range(SubSeq(s, n + 1, Len(s)))
<1> DEFINE t == SubSeq(s, 1, n)
           u == SubSeq(s, n + 1, Len(s))
<1>1. Len(s) \in Nat /\ n \in Nat /\ n <= Len(s)
  BY SMT
<1>2. /\ t \in Seq(S) /\ u \in Seq(S) /\ Len(t) = n /\ Len(u) = Len(s) - n
      /\ \A i \in 1..n : t[i] = s[i]
      /\ \A i \in 1..(Len(s) - n) : u[i] = s[n + i]
  BY SMT
<1> HIDE DEF t, u
<1>3. /\ Range(t) = {t[i] : i \in 1..n} /\ Range(u) = {u[i] : i \in 1..(Len(s) - n)}
      /\ Range(s) = {s[i] : i \in 1..Len(s)}
  BY <1>2, RangeSeq
<1>4. Range(t) = {s[i] : i \in 1..n}
  BY <1>2, <1>3
<1>5. Range(s) \subseteq Range(t) \cup Range(u)
  <2> SUFFICES ASSUME NEW i \in 1..Len(s) PROVE s[i] \in Range(t) \cup Range(u)
    BY <1>3
  <2>1. CASE i <= n
    BY <1>1, <1>4, <2>1, SMT
  <2>2. CASE i > n
    <3>1. i - n \in 1..(Len(s) - n) /\ n + (i - n) = i
      BY <1>1, <2>2, SMT
    <3>2. u[i - n] = s[i]
      BY <1>2, <3>1
    <3> QED BY <1>3, <3>1, <3>2
  <2> QED BY <1>1, <2>1, <2>2, SMT
<1>6. Range(t) \cup Range(u) \subseteq Range(s)
  <2>1. \A i \in 1..n : i \in 1..Len(s)
    BY <1>1, SMT
  <2>2. \A i \in 1..(Len(s) - n) : n + i \in 1..Len(s)
    BY <1>1, SMT
  <2> QED BY <1>2, <1>3, <1>4, <2>1, <2>2, SMT
<1> QED BY <1>2, <1>4, <1>5, <1>6 DEF t, u

\* A function on 1..n is a sequence.
LEMMA SequenceFrom ==
  ASSUME NEW S, NEW n \in Nat, NEW f \in [1..n -> S]
  PROVE  f \in Seq(S) /\ Len(f) = n /\ DOMAIN f = 1..n
<1>1. \E m \in Nat : f \in [1..m -> S]
  OBVIOUS
<1>2. f \in Seq(S)
  BY <1>1, SMT
<1>3. DOMAIN f = 1..n
  OBVIOUS
<1>4. Len(f) = n
  BY <1>2, <1>3, SMT
<1> QED BY <1>2, <1>3, <1>4

\* The ascending sequence of a finite set of numbers holds that set.
LEMMA InOrderHolds ==
  ASSUME NEW S \in SUBSET Nat, IsFiniteSet(S), NEW f \in InOrder(S)
  PROVE  /\ f \in Seq(S) /\ f \in Seq(Nat) /\ Range(f) = S
         /\ DOMAIN f = 1..Len(f)
<1> DEFINE n == Cardinality(S)
<1>1. n \in Nat
  BY FS_CardinalityType
<1>2. f \in [1..n -> S] /\ \A i, j \in 1..n : i < j => f[i] < f[j]
  BY DEF InOrder
<1> HIDE DEF n
<1>3. \A i, j \in 1..n : f[i] = f[j] => i = j
  <2> SUFFICES ASSUME NEW i \in 1..n, NEW j \in 1..n, f[i] = f[j], i # j PROVE FALSE
    OBVIOUS
  <2>1. f[i] \in Nat /\ f[j] \in Nat
    BY <1>2
  <2>2. i < j \/ j < i
    BY <1>1, SMT
  <2> QED BY <1>2, <2>1, <2>2, SMT
<1>4. f \in Injection(1..n, S)
  BY <1>2, <1>3 DEF Injection, IsInjective
<1>5. Cardinality(1..n) = n
  BY <1>1, FS_Interval, SMT
<1>6. f \in Surjection(1..n, S)
  BY <1>4, <1>5, FS_Injection DEF n
<1>7. Range(f) = S
  BY <1>2, <1>6 DEF Surjection, Range
<1>8. f \in Seq(S) /\ Len(f) = n /\ DOMAIN f = 1..n
  BY <1>1, <1>2, SequenceFrom
<1>9. f \in Seq(Nat)
  <2>1. f \in [1..n -> Nat]
    BY <1>2
  <2> QED BY <1>1, <2>1, SequenceFrom
<1> QED BY <1>7, <1>8, <1>9

\* The image of a finite set is finite.
LEMMA FiniteRange ==
  ASSUME NEW S, IsFiniteSet(S), NEW f, DOMAIN f = S, f = [x \in S |-> f[x]]
  PROVE  IsFiniteSet({f[x] : x \in S})
<1>1. f \in Surjection(S, {f[x] : x \in S})
  BY DEF Surjection
<1> QED BY <1>1, FS_Surjection

-----------------------------------------------------------------------------
(* The steps of the path, by the part that takes them *)

RelayerMove ==
  \/ RelayerStep \/ RelayerFault
  \/ NewHead /\ UNCHANGED relayerVars
  \/ OtherSubmits
  \/ \E batch \in pendingTx : IncludeLate(batch)

IndexerMove == IndexerStep \/ IndexerFault

ConsumerMove == ConsumerStep \/ ConsumerFault

\* A step of the path is one of the relayer with NEAR, of the indexer with RabbitMQ,
\* or of the consumer.
LEMMA PathCases ==
  ASSUME [PathNext]_daVars
  PROVE  \/ RelayerMove /\ UNCHANGED <<indexerVars, brokerVars, consumerVars>>
         \/ IndexerMove /\ UNCHANGED consumerVars
         \/ ConsumerMove
         \/ UNCHANGED <<pathVars, lost, indexerVars, brokerVars, consumerVars>>
<1>1. CASE Step
  BY <1>1 DEF Step, RelayerOnly, RelayerMove, IndexerMove
<1>2. CASE ConsumerStep
  BY <1>2 DEF ConsumerMove
<1>3. CASE Environment
  BY <1>3 DEF Environment, RelayerOnly, RelayerMove
<1>4. CASE Fault
  BY <1>4 DEF Fault, RelayerOnly, RelayerMove, IndexerMove, ConsumerMove
<1>5. CASE UNCHANGED daVars
  BY <1>5 DEF daVars
<1> QED BY <1>1, <1>2, <1>3, <1>4, <1>5 DEF PathNext

\* The indexer and the consumer leave the relayer and NEAR alone.
LEMMA DownstreamLeaves ==
  ASSUME IndexerMove \/ ConsumerMove
  PROVE  UNCHANGED pathVars
<1>1. CASE IndexerMove
  BY <1>1 DEF IndexerMove, IndexerStep, IndexerFault, ProcessStream, ListenerFlush,
       ProcessCandidate, ValidatorFlush, FlushValidator, ValidatorFails, PublisherConnects,
       Publish, PublishFails, MessageExpires
<1>2. CASE ConsumerMove
  BY <1>2 DEF ConsumerMove, ConsumerStep, ConsumerFault, Connect, SetupQueue, SetupFails,
       RetrySetup, SetupGivesUp, Reconnect, TakeDelivery, SendBlock, Ack, ConnectionCloses,
       ConsumerCloses, UpstreamUnchanged
<1> QED BY <1>1, <1>2

-----------------------------------------------------------------------------
(* The relayer *)

\* What the goroutine of the header subscription does.
HeadsMove ==
  \/ TakeHead \/ TickReceived \/ UnderlyingEnds(TRUE) \/ TickResub
  \/ HeadsReturn(done \/ start.pc = "closing")
  \/ FeedStops \/ UnderlyingEnds(FALSE)

\* The steps of the relayer, one by one.
LEMMA RelayerCases ==
  ASSUME RelayerMove
  PROVE  \/ (HeadsMove \/ NewHead) /\ UNCHANGED relayerVars
         \/ ReceiveHeader \/ Tick \/ HandOver \/ StopTicker \/ ListenerReturns
         \/ SubmitOk \/ ResetTicker \/ Close \/ StartReturns \/ Cancel
         \/ \E b \in BOOLEAN : SubmitRetries(b) \/ SubmitFails(b)
         \/ OtherSubmits
         \/ \E batch \in pendingTx : IncludeLate(batch)
BY DEF RelayerMove, RelayerStep, RelayerFault, HeadsStep, HeadsFault, HeadsMove

HeadsType == [pc : {"select", "send", "returned"}, receivedBlock : BOOLEAN, header : Nat]
ListenerType == [pc : {"select", "handing", "stopping", "returned"}, blocks : Seq(Nat)]
StartType ==
  [pc : {"select", "submit", "reset", "closing", "returned"}, batch : Seq(Nat), tries : Nat]
TxType == [blocks : Seq(Nat), kind : {"ok", "failed", "foreign"}]

\* The state of the relayer and of NEAR stays well-formed.
LEMMA RelayerDomainsNext ==
  ASSUME RelayerDomains, RelayerMove \/ UNCHANGED pathVars
  PROVE  RelayerDomains'
<1>0. /\ headNumber \in Nat /\ proxyC \in Seq(Nat) /\ heads \in HeadsType
      /\ listener \in ListenerType /\ start \in StartType /\ da \in Seq(TxType)
      /\ pendingTx \subseteq Seq(Nat) /\ received \in Seq(Nat)
  BY DEF RelayerDomains, HeadsType, ListenerType, StartType, TxType
<1>1. ASSUME /\ headNumber' \in Nat /\ proxyC' \in Seq(Nat) /\ heads' \in HeadsType
             /\ listener' \in ListenerType /\ start' \in StartType /\ da' \in Seq(TxType)
             /\ pendingTx' \subseteq Seq(Nat) /\ received' \in Seq(Nat)
      PROVE  RelayerDomains'
  BY <1>1 DEF RelayerDomains, HeadsType, ListenerType, StartType, TxType
<1>2. CASE HeadsMove /\ UNCHANGED relayerVars
  <2>1. headNumber' = headNumber /\ UNCHANGED <<listener, start, da, pendingTx, received>>
    BY <1>2 DEF HeadsMove, TakeHead, TickReceived, UnderlyingEnds, TickResub, HeadsReturn,
         FeedStops, relayerVars
  <2>2. CASE TakeHead
    <3>1. Head(proxyC) \in Nat /\ Tail(proxyC) \in Seq(Nat)
      BY <1>0, <2>2, SMT DEF TakeHead
    <3>2. heads' \in HeadsType /\ proxyC' \in Seq(Nat)
      BY <2>2, <3>1 DEF TakeHead, HeadsType
    <3> QED BY <1>0, <1>1, <2>1, <3>2
  <2>3. CASE ~TakeHead
    <3>1. /\ proxyC' = proxyC
          /\ \/ heads' = heads \/ heads' = [heads EXCEPT !.receivedBlock = FALSE]
             \/ heads' = [heads EXCEPT !.pc = "returned"]
      BY <1>2, <2>3 DEF HeadsMove, TickReceived, UnderlyingEnds, TickResub, HeadsReturn,
           FeedStops
    <3>2. heads' \in HeadsType
      BY <1>0, <3>1 DEF HeadsType
    <3> QED BY <1>0, <1>1, <2>1, <3>1, <3>2
  <2> QED BY <2>2, <2>3
<1>3. CASE NewHead /\ UNCHANGED relayerVars
  <2>1. /\ headNumber' = headNumber + 1
        /\ proxyC' = proxyC \/ proxyC' = Append(proxyC, headNumber + 1)
        /\ UNCHANGED <<heads, listener, start, da, pendingTx, received>>
    BY <1>3 DEF NewHead, relayerVars
  <2>2. headNumber' \in Nat /\ headNumber + 1 \in Nat
    BY <1>0, <2>1, SMT
  <2>3. proxyC' \in Seq(Nat)
    BY <1>0, <2>1, <2>2, AppendType
  <2> QED BY <1>0, <1>1, <2>1, <2>2, <2>3
<1>4. CASE ReceiveHeader
  <2>1. /\ UNCHANGED <<headNumber, proxyC, start, da, pendingTx>>
        /\ heads' = [heads EXCEPT !.pc = "select", !.header = 0]
        /\ listener' = [listener EXCEPT !.blocks = Append(@, heads.header)]
        /\ received' = Append(received, heads.header)
    BY <1>4 DEF ReceiveHeader, SendHead
  <2>2. heads' \in HeadsType /\ heads.header \in Nat
    BY <1>0, <2>1 DEF HeadsType
  <2>3. listener' \in ListenerType /\ received' \in Seq(Nat)
    <3>1. listener.blocks \in Seq(Nat)
      BY <1>0 DEF ListenerType
    <3>2. Append(listener.blocks, heads.header) \in Seq(Nat) /\ received' \in Seq(Nat)
      BY <1>0, <2>1, <2>2, <3>1, AppendType
    <3>3. listener' = [listener EXCEPT !.blocks = Append(listener.blocks, heads.header)]
      BY <2>1
    <3> QED BY <1>0, <3>2, <3>3 DEF ListenerType
  <2> QED BY <1>0, <1>1, <2>1, <2>2, <2>3
<1>5. CASE Tick \/ StopTicker \/ ListenerReturns
  <2>1. UNCHANGED <<headNumber, proxyC, heads, start, da, pendingTx, received>>
    BY <1>5 DEF Tick, StopTicker, ListenerReturns, headsVars
  <2>2. \E pc \in {"select", "handing", "returned"} : listener' = [listener EXCEPT !.pc = pc]
    BY <1>5 DEF Tick, StopTicker, ListenerReturns
  <2>3. listener' \in ListenerType
    BY <1>0, <2>2 DEF ListenerType
  <2> QED BY <1>0, <1>1, <2>1, <2>3
<1>6. CASE HandOver
  <2>1. /\ UNCHANGED <<headNumber, proxyC, heads, da, pendingTx, received>>
        /\ start' = [pc |-> "submit", batch |-> listener.blocks, tries |-> 0]
        /\ listener' = [pc |-> "stopping", blocks |-> <<>>]
    BY <1>6 DEF HandOver, headsVars
  <2>2. start' \in StartType /\ listener' \in ListenerType
    BY <1>0, <2>1, SMT DEF StartType, ListenerType
  <2> QED BY <1>0, <1>1, <2>1, <2>2
<1>7. CASE ResetTicker \/ Close \/ StartReturns \/ Cancel
  <2>1. UNCHANGED <<headNumber, proxyC, heads, listener, da, pendingTx, received>>
    BY <1>7 DEF ResetTicker, Close, StartReturns, Cancel, headsVars
  <2>2. \/ start' = start \/ start' = [pc |-> "select", batch |-> <<>>, tries |-> 0]
        \/ start' = [start EXCEPT !.pc = "closing"] \/ start' = [start EXCEPT !.pc = "returned"]
    BY <1>7 DEF ResetTicker, Close, StartReturns, Cancel
  <2>3. start' \in StartType
    <3>1. [pc |-> "select", batch |-> <<>>, tries |-> 0] \in StartType
      BY SMT DEF StartType
    <3>2. /\ [start EXCEPT !.pc = "closing"] \in StartType
          /\ [start EXCEPT !.pc = "returned"] \in StartType
      BY <1>0 DEF StartType
    <3> QED BY <1>0, <2>2, <3>1, <3>2
  <2> QED BY <1>0, <1>1, <2>1, <2>3
<1>8. ASSUME NEW b \in BOOLEAN, SubmitOk \/ SubmitRetries(b) \/ SubmitFails(b)
      PROVE  RelayerDomains'
  <2>1. UNCHANGED <<headNumber, proxyC, heads, listener, received>>
    BY <1>8 DEF SubmitOk, SubmitRetries, SubmitFails, headsVars
  <2>2. /\ start' = [start EXCEPT !.pc = "reset"] \/ start' = AfterRetry
        /\ pendingTx' = pendingTx \/ pendingTx' = pendingTx \cup {start.batch}
        /\ \/ da' = da \/ da' = Append(da, Tx(start.batch, "ok"))
           \/ da' = Append(da, Tx(start.batch, "failed"))
    <3>1. CASE SubmitOk
      BY <3>1 DEF SubmitOk
    <3>2. CASE SubmitRetries(b)
      BY <3>2 DEF SubmitRetries
    <3>3. CASE SubmitFails(b)
      BY <3>3 DEF SubmitFails
    <3> QED BY <1>8, <3>1, <3>2, <3>3
  <2>3. start.batch \in Seq(Nat) /\ start.tries + 1 \in Nat
    BY <1>0, SMT DEF StartType
  <2>4. start' \in StartType
    BY <1>0, <2>2, <2>3 DEF StartType, AfterRetry
  <2>5. pendingTx' \subseteq Seq(Nat)
    BY <1>0, <2>2, <2>3
  <2>6. Tx(start.batch, "ok") \in TxType /\ Tx(start.batch, "failed") \in TxType
    BY <2>3 DEF Tx, TxType
  <2>7. da' \in Seq(TxType)
    BY <1>0, <2>2, <2>6, AppendType
  <2> QED BY <1>0, <1>1, <2>1, <2>4, <2>5, <2>7
<1>9. ASSUME OtherSubmits \/ \E batch \in pendingTx : IncludeLate(batch)
      PROVE  RelayerDomains'
  <2>1. /\ UNCHANGED <<headNumber, proxyC, heads, listener, start, received>>
        /\ pendingTx' \subseteq pendingTx
        /\ \/ da' = Append(da, Tx(<<>>, "foreign"))
           \/ \E batch \in pendingTx : da' = Append(da, Tx(batch, "ok"))
    BY <1>9 DEF OtherSubmits, IncludeLate, headsVars
  <2>2. Tx(<<>>, "foreign") \in TxType /\ \A batch \in pendingTx : Tx(batch, "ok") \in TxType
    BY <1>0, SMT DEF Tx, TxType
  <2>3. da' \in Seq(TxType)
    BY <1>0, <2>1, <2>2, AppendType
  <2> QED BY <1>0, <1>1, <2>1, <2>3
<1>10. CASE UNCHANGED pathVars
  BY <1>0, <1>1, <1>10 DEF pathVars, headsVars
<1> QED BY <1>2, <1>3, <1>4, <1>5, <1>6, <1>7, <1>8, <1>9, <1>10, RelayerCases

\* Headers stay in order.
LEMMA HeadsInOrderNext ==
  ASSUME RelayerDomains, HeadsInOrder, RelayerMove \/ UNCHANGED pathVars
  PROVE  HeadsInOrder'
<1>0. /\ headNumber \in Nat /\ proxyC \in Seq(Nat) /\ received \in Seq(Nat)
      /\ heads.header \in Nat /\ Len(proxyC) \in Nat
      /\ heads \in HeadsType
  BY SMT DEF RelayerDomains, HeadsType
<1>1. ASSUME UNCHANGED <<headNumber, proxyC, received>>,
             heads'.pc = "send" => heads.pc = "send" /\ heads'.header = heads.header
      PROVE  HeadsInOrder'
  BY <1>1 DEF HeadsInOrder
<1>2. /\ \A b \in Range(received) : b \in Nat
      /\ \A i \in 1..Len(proxyC) : proxyC[i] \in Nat
  BY <1>0, RangeSeq, SMT
<1>3. CASE TakeHead /\ UNCHANGED relayerVars
  <2>1. /\ proxyC # <<>> /\ heads' = [pc |-> "send", receivedBlock |-> TRUE, header |-> Head(proxyC)]
        /\ proxyC' = Tail(proxyC) /\ headNumber' = headNumber /\ received' = received
    BY <1>3 DEF TakeHead, relayerVars
  <2>2. /\ 1 \in 1..Len(proxyC) /\ heads'.header = proxyC[1]
        /\ Len(proxyC') = Len(proxyC) - 1
        /\ \A i \in 1..Len(proxyC') : i + 1 \in 1..Len(proxyC) /\ proxyC'[i] = proxyC[i + 1]
    BY <1>0, <2>1, SMT
  <2>3. \A i \in 1..Len(proxyC') : i \in Nat /\ 1 < i + 1
    BY <1>0, <2>2, SMT
  <2>4. ASSUME NEW i \in 1..Len(proxyC')
        PROVE  /\ proxyC'[i] <= headNumber'
               /\ \A j \in 1..Len(proxyC') : i < j => proxyC'[i] < proxyC'[j]
               /\ heads'.header < proxyC'[i]
               /\ \A b \in Range(received') : b < proxyC'[i]
    <3>1. i + 1 \in 1..Len(proxyC) /\ proxyC'[i] = proxyC[i + 1] /\ i \in Nat /\ 1 < i + 1
      BY <2>2, <2>3
    <3>2. /\ proxyC[i + 1] <= headNumber
          /\ proxyC[1] < proxyC[i + 1]
          /\ \A b \in Range(received) : b < proxyC[i + 1]
      BY <2>2, <3>1 DEF HeadsInOrder
    <3>3. ASSUME NEW j \in 1..Len(proxyC'), i < j
          PROVE  proxyC'[i] < proxyC'[j]
      <4>1. j + 1 \in 1..Len(proxyC) /\ proxyC'[j] = proxyC[j + 1] /\ i + 1 < j + 1
        BY <2>2, <2>3, <3>1, <3>3, SMT
      <4> QED BY <3>1, <4>1 DEF HeadsInOrder
    <3> QED BY <2>1, <2>2, <3>1, <3>2, <3>3
  <2>5. /\ heads'.header <= headNumber'
        /\ \A b \in Range(received') : b < heads'.header /\ b <= headNumber'
    BY <2>1, <2>2 DEF HeadsInOrder
  <2> QED BY <2>4, <2>5 DEF HeadsInOrder
<1>4. CASE HeadsMove /\ ~TakeHead /\ UNCHANGED relayerVars
  <2>1. /\ UNCHANGED <<headNumber, proxyC, received>>
        /\ \/ heads' = heads \/ heads' = [heads EXCEPT !.receivedBlock = FALSE]
           \/ heads' = [heads EXCEPT !.pc = "returned"]
    BY <1>4 DEF HeadsMove, TickReceived, UnderlyingEnds, TickResub, HeadsReturn,
         FeedStops, relayerVars
  <2>2. heads'.pc = "send" => heads.pc = "send" /\ heads'.header = heads.header
    BY <1>0, <2>1 DEF HeadsType
  <2> QED BY <1>1, <2>1, <2>2
<1>5. CASE NewHead /\ UNCHANGED relayerVars
  <2>1. /\ headNumber' = headNumber + 1
        /\ proxyC' = proxyC \/ proxyC' = Append(proxyC, headNumber + 1)
        /\ UNCHANGED <<heads, received>>
    BY <1>5 DEF NewHead, relayerVars
  <2>2. \A i \in 1..Len(proxyC') :
          \/ i \in 1..Len(proxyC) /\ proxyC'[i] = proxyC[i]
          \/ i = Len(proxyC) + 1 /\ proxyC'[i] = headNumber + 1
    <3>1. CASE proxyC' = proxyC
      BY <3>1
    <3>2. CASE proxyC' = Append(proxyC, headNumber + 1)
      <4>1. /\ Len(proxyC') = Len(proxyC) + 1
            /\ \A i \in 1..Len(proxyC) : proxyC'[i] = proxyC[i]
            /\ proxyC'[Len(proxyC) + 1] = headNumber + 1
        BY <1>0, <3>2, SMT
      <4>2. \A i \in 1..(Len(proxyC) + 1) : i \in 1..Len(proxyC) \/ i = Len(proxyC) + 1
        BY <1>0, SMT
      <4> QED BY <4>1, <4>2
    <3> QED BY <2>1, <3>1, <3>2
  <2>3. ASSUME NEW i \in 1..Len(proxyC')
        PROVE  /\ proxyC'[i] <= headNumber'
               /\ heads'.pc = "send" => heads'.header < proxyC'[i]
               /\ \A b \in Range(received') : b < proxyC'[i]
    <3>1. CASE i \in 1..Len(proxyC) /\ proxyC'[i] = proxyC[i]
      BY <1>0, <1>2, <2>1, <3>1, SMT DEF HeadsInOrder
    <3>2. CASE proxyC'[i] = headNumber + 1
      BY <1>0, <1>2, <2>1, <3>2, SMT DEF HeadsInOrder
    <3> QED BY <2>2, <3>1, <3>2
  <2>4. ASSUME NEW i \in 1..Len(proxyC'), NEW j \in 1..Len(proxyC'), i < j
        PROVE  proxyC'[i] < proxyC'[j]
    <3>1. i \in 1..Len(proxyC) /\ proxyC'[i] = proxyC[i]
      <4>1. Len(proxyC') = Len(proxyC) \/ Len(proxyC') = Len(proxyC) + 1
        BY <1>0, <2>1, SMT
      <4>2. i # Len(proxyC) + 1
        BY <1>0, <2>4, <4>1, SMT
      <4> QED BY <2>2, <4>2
    <3>2. CASE j \in 1..Len(proxyC) /\ proxyC'[j] = proxyC[j]
      BY <2>4, <3>1, <3>2 DEF HeadsInOrder
    <3>3. CASE proxyC'[j] = headNumber + 1
      <4>1. proxyC[i] <= headNumber
        BY <3>1 DEF HeadsInOrder
      <4> QED BY <1>0, <1>2, <3>1, <3>3, <4>1, SMT
    <3> QED BY <2>2, <3>2, <3>3
  <2>5. /\ heads'.pc = "send" =>
             heads'.header <= headNumber' /\ \A b \in Range(received') : b < heads'.header
        /\ \A b \in Range(received') : b <= headNumber'
    <3>1. heads.pc = "send" => heads.header <= headNumber /\ \A b \in Range(received) : b < heads.header
      BY DEF HeadsInOrder
    <3>2. \A b \in Range(received) : b <= headNumber
      BY DEF HeadsInOrder
    <3> QED BY <1>0, <1>2, <2>1, <3>1, <3>2, SMT
  <2> QED BY <2>3, <2>4, <2>5 DEF HeadsInOrder
<1>6. CASE ReceiveHeader
  <2>1. /\ heads.pc = "send" /\ UNCHANGED <<headNumber, proxyC>>
        /\ heads' = [heads EXCEPT !.pc = "select", !.header = 0]
        /\ received' = Append(received, heads.header)
    BY <1>6 DEF ReceiveHeader, SendHead
  <2>2. heads'.pc = "select"
    BY <1>0, <2>1 DEF HeadsType
  <2>3. Range(received') = Range(received) \cup {heads.header}
    BY <1>0, <2>1, RangeAppend, SMTT(30)
  <2> QED BY <2>1, <2>2, <2>3 DEF HeadsInOrder
<1>7. CASE \/ Tick \/ HandOver \/ StopTicker \/ ListenerReturns \/ SubmitOk \/ ResetTicker \/ Close
           \/ StartReturns \/ Cancel \/ OtherSubmits
           \/ \E b \in BOOLEAN : SubmitRetries(b) \/ SubmitFails(b)
           \/ \E batch \in pendingTx : IncludeLate(batch)
           \/ UNCHANGED pathVars
  <2>1. UNCHANGED <<headNumber, proxyC, heads, received>>
    BY <1>7 DEF Tick, HandOver, StopTicker, ListenerReturns, SubmitOk, ResetTicker, Close,
         StartReturns, Cancel, OtherSubmits, SubmitRetries, SubmitFails, IncludeLate, pathVars, headsVars
  <2> QED BY <1>1, <2>1
<1> QED BY <1>3, <1>4, <1>5, <1>6, <1>7, RelayerCases

\* A transaction is included.
LEMMA DaAppend ==
  ASSUME da \in Seq(TxType), NEW t \in TxType, da' = Append(da, t)
  PROVE  /\ Len(da) \in Nat /\ Len(da') = Len(da) + 1
         /\ \A i \in 1..Len(da) : i \in 1..Len(da') /\ da'[i] = da[i]
         /\ da'[Len(da) + 1] = t
         /\ \A i \in 1..Len(da') : i \in 1..Len(da) \/ i = Len(da) + 1
<1>1. Len(da) \in Nat /\ Len(da') = Len(da) + 1
  BY SMT
<1>2. (\A i \in 1..Len(da) : da'[i] = da[i]) /\ da'[Len(da) + 1] = t
  BY SMT
<1>3. /\ \A i \in 1..Len(da) : i \in 1..(Len(da) + 1)
      /\ \A i \in 1..(Len(da) + 1) : i \in 1..Len(da) \/ i = Len(da) + 1
  BY <1>1, SMT
<1> QED BY <1>1, <1>2, <1>3

\* PostedOnce, by position.
PostedApart ==
  \A i, j \in 1..Len(da) :
    i # j => Range(da[i].blocks) \cap Range(da[j].blocks) \subseteq timedOut

\* Batches stay apart, in NEAR DA and before.
LEMMA BatchesApartNext ==
  ASSUME RelayerDomains, HeadsInOrder, BatchesApart, PostedApart, RelayerMove \/ UNCHANGED pathVars
  PROVE  BatchesApart' /\ PostedApart'
<1>0. /\ received \in Seq(Nat) /\ listener \in ListenerType /\ listener.blocks \in Seq(Nat)
      /\ start \in StartType /\ start.batch \in Seq(Nat) /\ da \in Seq(TxType)
      /\ heads.header \in Nat /\ pendingTx \subseteq Seq(Nat)
  BY DEF RelayerDomains, ListenerType, StartType, TxType
<1>1. ASSUME UNCHANGED <<da, pendingTx, received, timedOut>>, listener'.blocks = listener.blocks,
             start'.pc = "submit" => start.pc = "submit" /\ start'.batch = start.batch
      PROVE  BatchesApart' /\ PostedApart'
  BY <1>1, SMT DEF BatchesApart, HandedOver, PostedApart
<1>2. CASE (HeadsMove \/ NewHead) /\ UNCHANGED relayerVars
  BY <1>1, <1>2 DEF relayerVars
<1>3. CASE ReceiveHeader
  <2>1. /\ heads.pc = "send" /\ UNCHANGED <<da, pendingTx, start, timedOut>>
        /\ listener' = [listener EXCEPT !.blocks = Append(@, heads.header)]
        /\ received' = Append(received, heads.header)
    BY <1>3 DEF ReceiveHeader, SendHead
  <2>2. listener'.blocks = Append(listener.blocks, heads.header)
    BY <1>0, <2>1 DEF ListenerType
  <2>3. /\ Range(listener'.blocks) = Range(listener.blocks) \cup {heads.header}
        /\ Range(received') = Range(received) \cup {heads.header}
    <3>1. /\ Range(Append(listener.blocks, heads.header)) = Range(listener.blocks) \cup {heads.header}
          /\ Range(Append(received, heads.header)) = Range(received) \cup {heads.header}
      <4>1. \A s \in Seq(Nat), x \in Nat : Range(Append(s, x)) = Range(s) \cup {x}
        BY RangeAppend
      <4> QED BY <1>0, <4>1
    <3> QED BY <2>1, <2>2, <3>1
  <2>4. heads.header \notin Range(received)
    <3>1. \A b \in Range(received) : b < heads.header
      BY <2>1 DEF HeadsInOrder
    <3> QED BY <1>0, <3>1, SMT
  <2>5. ASSUME NEW S, HandedOver(S) PROVE S \subseteq Range(received') \ Range(listener'.blocks)
    BY <2>3, <2>4, <2>5 DEF HandedOver
  <2>6. BatchesApart'
    BY <2>1, <2>3, <2>5, SMT DEF BatchesApart, HandedOver
  <2>7. PostedApart'
    BY <2>1 DEF PostedApart
  <2> QED BY <2>6, <2>7
<1>4. CASE Tick \/ StopTicker \/ ListenerReturns
  <2>1. UNCHANGED <<start, da, pendingTx, received, timedOut>>
    BY <1>4 DEF Tick, StopTicker, ListenerReturns
  <2>2. \E pc : listener' = [listener EXCEPT !.pc = pc]
    BY <1>4 DEF Tick, StopTicker, ListenerReturns
  <2>3. listener'.blocks = listener.blocks
    BY <1>0, <2>2 DEF ListenerType
  <2> QED BY <1>1, <2>1, <2>3
<1>5. CASE HandOver
  <2>1. /\ UNCHANGED <<da, pendingTx, received, timedOut>>
        /\ start' = [pc |-> "submit", batch |-> listener.blocks, tries |-> 0]
        /\ listener' = [pc |-> "stopping", blocks |-> <<>>]
    BY <1>5 DEF HandOver
  <2>2. /\ Range(listener'.blocks) = {} /\ start'.batch = listener.blocks
    BY <2>1, RangeEmpty
  <2>3. ASSUME NEW S, HandedOver(S) PROVE S \subseteq Range(received') \ Range(listener'.blocks)
    BY <2>1, <2>2, <2>3 DEF HandedOver
  <2>4. Range(start'.batch) \subseteq Range(received') \ Range(listener'.blocks)
    BY <2>1, <2>2 DEF BatchesApart
  <2>5. \A i \in 1..Len(da) : Range(start'.batch) \cap Range(da[i].blocks) = {}
    BY <2>2 DEF BatchesApart, HandedOver
  <2>6. BatchesApart'
    BY <2>1, <2>2, <2>3, <2>4, <2>5 DEF BatchesApart, HandedOver
  <2>7. PostedApart'
    BY <2>1 DEF PostedApart
  <2> QED BY <2>6, <2>7
<1>6. CASE ResetTicker \/ Close \/ StartReturns \/ Cancel
  <2>1. UNCHANGED <<listener, da, pendingTx, received, timedOut>>
    BY <1>6 DEF ResetTicker, Close, StartReturns, Cancel
  <2>2. \/ start' = start \/ start' = [pc |-> "select", batch |-> <<>>, tries |-> 0]
        \/ start' = [start EXCEPT !.pc = "closing"] \/ start' = [start EXCEPT !.pc = "returned"]
    BY <1>6 DEF ResetTicker, Close, StartReturns, Cancel
  <2>3. start' = start \/ start'.pc # "submit"
    BY <1>0, <2>2, SMT DEF StartType
  <2> QED BY <1>1, <2>1, <2>3
<1>7. ASSUME NEW t \in TxType, da' = Append(da, t), UNCHANGED <<listener, received, timedOut>>,
             pendingTx' \subseteq pendingTx, HandedOver(Range(t.blocks)),
             \A i \in 1..Len(da) : Range(t.blocks) \cap Range(da[i].blocks) \subseteq timedOut,
             start'.pc = "submit" => /\ start' = start
                                     /\ Range(start.batch) \cap Range(t.blocks) \subseteq timedOut
      PROVE  BatchesApart' /\ PostedApart'
  <2>1. /\ Len(da) \in Nat /\ Len(da') = Len(da) + 1
        /\ \A i \in 1..Len(da) : i \in 1..Len(da') /\ da'[i] = da[i]
        /\ da'[Len(da) + 1] = t
        /\ \A i \in 1..Len(da') : i \in 1..Len(da) \/ i = Len(da) + 1
    BY <1>0, <1>7, DaAppend
  <2>2. \A S : HandedOver(S) => HandedOver(S)'
    BY <1>7 DEF HandedOver
  <2>3. ASSUME NEW i \in 1..Len(da') PROVE HandedOver(Range(da'[i].blocks))
    BY <1>7, <2>1 DEF BatchesApart
  <2>4. ASSUME start'.pc = "submit", NEW i \in 1..Len(da')
        PROVE  Range(start'.batch) \cap Range(da'[i].blocks) \subseteq timedOut'
    BY <1>7, <2>1, <2>4 DEF BatchesApart
  <2>5. BatchesApart'
    BY <1>7, <2>3, <2>4 DEF BatchesApart, HandedOver
  <2>6. ASSUME NEW i \in 1..Len(da'), NEW j \in 1..Len(da'), i # j
        PROVE  Range(da'[i].blocks) \cap Range(da'[j].blocks) \subseteq timedOut'
    <3>1. CASE i \in 1..Len(da) /\ j \in 1..Len(da)
      BY <1>7, <2>1, <2>6, <3>1 DEF PostedApart
    <3>2. CASE i = Len(da) + 1 /\ j \in 1..Len(da)
      BY <1>7, <2>1, <3>2
    <3>3. CASE j = Len(da) + 1 /\ i \in 1..Len(da)
      BY <1>7, <2>1, <3>3
    <3> QED BY <2>1, <2>6, <3>1, <3>2, <3>3
  <2>7. PostedApart'
    BY <2>6 DEF PostedApart
  <2> QED BY <2>5, <2>7
<1>8. CASE SubmitOk
  <2>1. /\ start.pc = "submit" /\ da' = Append(da, Tx(start.batch, "ok"))
        /\ start' = [start EXCEPT !.pc = "reset"]
        /\ UNCHANGED <<listener, pendingTx, received, timedOut>>
    BY <1>8 DEF SubmitOk, Submitting
  <2>2. Tx(start.batch, "ok") \in TxType /\ Tx(start.batch, "ok").blocks = start.batch
    BY <1>0 DEF Tx, TxType
  <2>3. start'.pc # "submit"
    BY <1>0, <2>1 DEF StartType
  <2>4. /\ HandedOver(Range(start.batch))
        /\ \A i \in 1..Len(da) : Range(start.batch) \cap Range(da[i].blocks) \subseteq timedOut
    BY <2>1 DEF BatchesApart
  <2> QED BY <1>7, <2>1, <2>2, <2>3, <2>4
<1>9. ASSUME NEW b \in BOOLEAN, SubmitFails(b)
      PROVE  BatchesApart' /\ PostedApart'
  <2>1. /\ start.pc = "submit"
        /\ (da' = da) \/ (da' = Append(da, Tx(start.batch, "failed")))
        /\ start' = [start EXCEPT !.pc = "reset"]
        /\ UNCHANGED <<listener, pendingTx, received, timedOut>>
    BY <1>9 DEF SubmitFails, Submitting
  <2>2. Tx(start.batch, "failed") \in TxType /\ Tx(start.batch, "failed").blocks = start.batch
    BY <1>0 DEF Tx, TxType
  <2>3. start'.pc # "submit"
    BY <1>0, <2>1 DEF StartType
  <2>4. /\ HandedOver(Range(start.batch))
        /\ \A i \in 1..Len(da) : Range(start.batch) \cap Range(da[i].blocks) \subseteq timedOut
    BY <2>1 DEF BatchesApart
  <2>5. CASE da' = da
    BY <1>1, <2>1, <2>3, <2>5
  <2>6. CASE da' = Append(da, Tx(start.batch, "failed"))
    BY <1>7, <2>1, <2>2, <2>3, <2>4, <2>6
  <2> QED BY <2>1, <2>5, <2>6
<1>10. ASSUME NEW b \in BOOLEAN, SubmitRetries(b)
       PROVE  BatchesApart' /\ PostedApart'
  <2>1. /\ start.pc = "submit" /\ start' = AfterRetry /\ UNCHANGED <<listener, da, received>>
        /\ \/ pendingTx' = pendingTx /\ timedOut' = timedOut
           \/ /\ pendingTx' = pendingTx \cup {start.batch}
              /\ timedOut' = timedOut \cup Range(start.batch)
    BY <1>10 DEF SubmitRetries, Submitting
  <2>2. start'.batch = start.batch
    BY <1>0, <2>1 DEF StartType, AfterRetry
  <2>3. \A S : HandedOver(S) => HandedOver(S)'
    BY <2>1 DEF HandedOver
  <2>4. HandedOver(Range(start.batch))
    BY <2>1 DEF BatchesApart
  <2>5. timedOut \subseteq timedOut'
    BY <2>1
  <2>6. \A p \in pendingTx' : HandedOver(Range(p)) /\ Range(p) \subseteq timedOut'
    BY <2>1, <2>4, <2>5 DEF BatchesApart
  <2>7. BatchesApart'
    BY <2>1, <2>2, <2>4, <2>5, <2>6 DEF BatchesApart, HandedOver
  <2>8. PostedApart'
    BY <2>1, <2>5 DEF PostedApart
  <2> QED BY <2>7, <2>8
<1>11. CASE OtherSubmits
  <2>1. da' = Append(da, Tx(<<>>, "foreign"))
        /\ UNCHANGED <<listener, start, pendingTx, received, timedOut>>
    BY <1>11 DEF OtherSubmits
  <2>2. Tx(<<>>, "foreign") \in TxType /\ Range(Tx(<<>>, "foreign").blocks) = {}
    BY RangeEmpty, SMT DEF Tx, TxType
  <2>3. HandedOver({})
    BY DEF HandedOver
  <2> QED BY <1>7, <2>1, <2>2, <2>3
<1>12. ASSUME NEW batch \in pendingTx, IncludeLate(batch)
       PROVE  BatchesApart' /\ PostedApart'
  <2>1. /\ da' = Append(da, Tx(batch, "ok")) /\ pendingTx' \subseteq pendingTx
        /\ UNCHANGED <<listener, start, received, timedOut>>
    BY <1>12 DEF IncludeLate
  <2>2. Tx(batch, "ok") \in TxType /\ Tx(batch, "ok").blocks = batch
    BY <1>0 DEF Tx, TxType
  <2>3. HandedOver(Range(batch)) /\ Range(batch) \subseteq timedOut
    BY DEF BatchesApart
  <2> QED BY <1>7, <2>1, <2>2, <2>3
<1>13. CASE UNCHANGED pathVars
  BY <1>1, <1>13 DEF pathVars
<1> QED BY <1>2, <1>3, <1>4, <1>5, <1>6, <1>8, <1>9, <1>10, <1>11, <1>12, <1>13, RelayerCases

\* What is handed on without the relayer.
LEMMA RelayerOrNot ==
  ASSUME [PathNext]_daVars
  PROVE  RelayerMove \/ UNCHANGED pathVars
BY PathCases, DownstreamLeaves

\* Nothing has been received, posted or handed over at the start.
LEMMA RelayerInitApart ==
  ASSUME PathInit
  PROVE  RelayerDomains /\ HeadsInOrder /\ BatchesApart /\ PostedApart /\ GivenUp
<1>1. RelayerInit /\ HeadsInit
  BY DEF PathInit, IndexerInit, RelayerInit
<1>2. RelayerDomains
  BY <1>1, SMT DEF RelayerInit, HeadsInit, RelayerDomains
<1>3. /\ proxyC = <<>> /\ received = <<>> /\ heads.pc = "select" /\ listener.blocks = <<>>
      /\ start.pc = "select" /\ da = <<>> /\ pendingTx = {} /\ Len(<<>>) = 0
  BY <1>1, SMT DEF RelayerInit, HeadsInit
<1>4. 1..Len(proxyC) = {} /\ 1..Len(da) = {} /\ Range(received) = {} /\ Range(listener.blocks) = {}
  BY <1>3, RangeEmpty, SMT
<1> QED BY <1>2, <1>3, <1>4 DEF HeadsInOrder, BatchesApart, PostedApart, GivenUp

\* A block is in two transactions of NEAR DA only when a submission of it timed out,
\* for any number of blocks, retries and connections lost: batches do not overlap,
\* and a failure is retried only where the first try cannot have been executed.
THEOREM PostedOnceHolds == PathSpec => []PostedOnce
<1> DEFINE J == RelayerDomains /\ HeadsInOrder /\ BatchesApart /\ PostedApart
<1>1. PathInit => J
  BY RelayerInitApart
<1>2. J /\ [PathNext]_daVars => J'
  BY RelayerOrNot, RelayerDomainsNext, HeadsInOrderNext, BatchesApartNext
<1>3. J => PostedOnce
  <2> SUFFICES ASSUME J PROVE PostedOnce
    OBVIOUS
  <2>1. DOMAIN da = 1..Len(da)
    BY SMT DEF RelayerDomains
  <2> QED BY <2>1 DEF PostedApart, PostedOnce
<1> QED BY <1>1, <1>2, <1>3, PTL DEF PathSpec

-----------------------------------------------------------------------------
(* Where the blocks are *)

\* What a step of the relayer and of NEAR does to NEAR DA and to the blocks of
\* the relayer.
RelayerGoes ==
  /\ \/ da' = da
     \/ \E t \in TxType : /\ da' = Append(da, t)
                          /\ t.kind = "foreign" => t.blocks = <<>>
                          /\ t.kind = "failed" => Range(t.blocks) \subseteq lost'
  /\ lost \subseteq lost'
  /\ Range(received') \subseteq Range(received) \cup Range(listener'.blocks)
  /\ \A b \in Range(listener.blocks) :
       b \in Range(listener'.blocks) \/ (start'.pc = "submit" /\ b \in Range(start'.batch))
  /\ start.pc = "submit" =>
       \/ start'.pc = "submit" /\ start'.batch = start.batch
       \/ Range(start.batch) \subseteq lost'
       \/ da' = Append(da, Tx(start.batch, "ok"))

\* A received block is collected, a collected one handed over, and one that was
\* handed over is retried, posted or given up.
LEMMA RelayerStepGoes ==
  ASSUME RelayerDomains, RelayerMove \/ UNCHANGED <<pathVars, lost>>
  PROVE  RelayerGoes
<1>0. /\ received \in Seq(Nat) /\ listener \in ListenerType /\ listener.blocks \in Seq(Nat)
      /\ start \in StartType /\ start.batch \in Seq(Nat) /\ da \in Seq(TxType)
      /\ heads.header \in Nat /\ pendingTx \subseteq Seq(Nat)
  BY DEF RelayerDomains, ListenerType, StartType, TxType
<1>1. ASSUME UNCHANGED <<da, received>>, lost \subseteq lost', listener'.blocks = listener.blocks,
             start.pc = "submit" => \/ start'.pc = "submit" /\ start'.batch = start.batch
                                    \/ Range(start.batch) \subseteq lost'
      PROVE  RelayerGoes
  BY <1>1 DEF RelayerGoes
<1>2. CASE (HeadsMove \/ NewHead) /\ UNCHANGED relayerVars
  BY <1>1, <1>2 DEF relayerVars
<1>3. CASE ReceiveHeader
  <2>1. /\ UNCHANGED <<da, start, lost>>
        /\ listener' = [listener EXCEPT !.blocks = Append(@, heads.header)]
        /\ received' = Append(received, heads.header)
    BY <1>3 DEF ReceiveHeader
  <2>2. listener'.blocks = Append(listener.blocks, heads.header)
    BY <1>0, <2>1 DEF ListenerType
  <2>3. \A s \in Seq(Nat), x \in Nat : Range(Append(s, x)) = Range(s) \cup {x}
    BY RangeAppend
  <2>4. /\ Range(listener'.blocks) = Range(listener.blocks) \cup {heads.header}
        /\ Range(received') = Range(received) \cup {heads.header}
    BY <1>0, <2>1, <2>2, <2>3
  <2> QED BY <2>1, <2>4 DEF RelayerGoes
<1>4. CASE Tick \/ StopTicker \/ ListenerReturns
  <2>1. UNCHANGED <<start, da, received, lost>>
    BY <1>4 DEF Tick, StopTicker, ListenerReturns
  <2>2. \E pc : listener' = [listener EXCEPT !.pc = pc]
    BY <1>4 DEF Tick, StopTicker, ListenerReturns
  <2>3. listener'.blocks = listener.blocks
    BY <1>0, <2>2 DEF ListenerType
  <2> QED BY <1>1, <2>1, <2>3
<1>5. CASE HandOver
  <2>1. /\ UNCHANGED <<da, received, lost>> /\ start.pc # "submit"
        /\ start' = [pc |-> "submit", batch |-> listener.blocks, tries |-> 0]
    BY <1>5 DEF HandOver
  <2> QED BY <2>1 DEF RelayerGoes
<1>6. CASE ResetTicker \/ Close \/ StartReturns \/ Cancel
  <2>1. UNCHANGED <<listener, da, received, lost>>
    BY <1>6 DEF ResetTicker, Close, StartReturns, Cancel
  <2>2. start.pc # "submit" \/ start' = start
    BY <1>6 DEF ResetTicker, Close, StartReturns, Cancel
  <2> QED BY <1>1, <2>1, <2>2
<1>7. CASE SubmitOk
  <2>1. /\ start.pc = "submit" /\ da' = Append(da, Tx(start.batch, "ok"))
        /\ UNCHANGED <<listener, received, lost>>
    BY <1>7 DEF SubmitOk, Submitting
  <2>2. Tx(start.batch, "ok") \in TxType /\ Tx(start.batch, "ok").kind = "ok"
    BY <1>0 DEF Tx, TxType
  <2> QED BY <2>1, <2>2 DEF RelayerGoes
<1>8. ASSUME NEW b \in BOOLEAN, SubmitFails(b)
      PROVE  RelayerGoes
  <2>1. /\ (da' = da) \/ (da' = Append(da, Tx(start.batch, "failed")))
        /\ lost' = lost \cup Range(start.batch)
        /\ UNCHANGED <<listener, received>>
    BY <1>8 DEF SubmitFails, Submitting
  <2>2. /\ Tx(start.batch, "failed") \in TxType /\ Tx(start.batch, "failed").kind = "failed"
        /\ Tx(start.batch, "failed").blocks = start.batch
    BY <1>0 DEF Tx, TxType
  <2> QED BY <2>1, <2>2 DEF RelayerGoes
<1>9. ASSUME NEW b \in BOOLEAN, SubmitRetries(b)
      PROVE  RelayerGoes
  <2>1. /\ start.pc = "submit" /\ start' = AfterRetry /\ UNCHANGED <<listener, da, received>>
        /\ lost' = IF start'.pc = "reset" THEN lost \cup Range(start.batch) ELSE lost
    BY <1>9 DEF SubmitRetries, Submitting
  <2>2. start'.batch = start.batch /\ (start'.pc = "reset" \/ start'.pc = "submit")
    BY <1>0, <2>1 DEF StartType, AfterRetry
  <2>3. lost \subseteq lost' /\ (start'.pc = "reset" => Range(start.batch) \subseteq lost')
    BY <2>1
  <2> QED BY <1>1, <2>1, <2>2, <2>3
<1>10. CASE OtherSubmits
  <2>1. da' = Append(da, Tx(<<>>, "foreign")) /\ UNCHANGED <<listener, start, received, lost>>
    BY <1>10 DEF OtherSubmits
  <2>2. /\ Tx(<<>>, "foreign") \in TxType /\ Tx(<<>>, "foreign").blocks = <<>>
        /\ Tx(<<>>, "foreign").kind = "foreign"
    BY SMT DEF Tx, TxType
  <2> QED BY <2>1, <2>2 DEF RelayerGoes
<1>11. ASSUME NEW batch \in pendingTx, IncludeLate(batch)
       PROVE  RelayerGoes
  <2>1. da' = Append(da, Tx(batch, "ok")) /\ UNCHANGED <<listener, start, received, lost>>
    BY <1>11 DEF IncludeLate
  <2>2. Tx(batch, "ok") \in TxType /\ Tx(batch, "ok").kind = "ok"
    BY <1>0 DEF Tx, TxType
  <2> QED BY <2>1, <2>2 DEF RelayerGoes
<1>12. CASE UNCHANGED <<pathVars, lost>>
  BY <1>1, <1>12 DEF pathVars
<1> QED BY <1>2, <1>3, <1>4, <1>5, <1>6, <1>7, <1>8, <1>9, <1>10, <1>11, <1>12, RelayerCases,
           Zenon

\* The transactions that the block listener has still to see, and those held.
Moving == (cursor + 1..Len(da)) \cup Held

\* NoBlockVanishes, for one block and by place.
Placed(b) ==
  \/ b \in Range(listener.blocks)
  \/ start.pc = "submit" /\ b \in Range(start.batch)
  \/ \E tx \in Moving : b \in BlocksOf(tx)
  \/ \E l \in listeners : b \in Range(l.todo)
  \/ \E m \in mqBlocks : b = m.block
  \/ b \in lost

\* The two ways to say that no block vanishes are the same.
LEMMA PlacedIs ==
  NoBlockVanishes <=> \A b \in Range(received) : Placed(b)
<1>1. ASSUME NEW b
      PROVE  b \in InTransit \cup Delivered \cup lost <=> Placed(b)
  <2>1. b \in Delivered <=> \E m \in mqBlocks : b = m.block
    BY DEF Delivered
  <2>2. \A T : b \in Carried(T) <=> \E tx \in T : b \in BlocksOf(tx)
    BY DEF Carried
  <2>3. b \in UNION {Range(l.todo) : l \in listeners} <=> \E l \in listeners : b \in Range(l.todo)
    OBVIOUS
  <2>4. b \in (IF start.pc = "submit" THEN Range(start.batch) ELSE {})
        <=> start.pc = "submit" /\ b \in Range(start.batch)
    OBVIOUS
  <2>5. (\E tx \in Moving : b \in BlocksOf(tx)) <=>
          \/ b \in Carried(cursor + 1..Len(da)) \/ b \in Carried(Range(blockQueue))
          \/ b \in Carried(Range(candidates)) \/ b \in Carried(Range(validator.queue))
          \/ b \in Carried(Range(publishC)) \/ b \in Carried(Range(queue))
    BY <2>2 DEF Moving, Held
  <2> QED BY <2>1, <2>3, <2>4, <2>5 DEF InTransit, Placed
<1> QED BY <1>1 DEF NoBlockVanishes

-----------------------------------------------------------------------------
(* The indexer *)

ValidatorType == [running : BOOLEAN, queue : Seq(Nat)]

\* What a step of the indexer and of RabbitMQ does to the transactions that have
\* not been consumed.
IndexerGoes ==
  /\ lost \subseteq lost'
  /\ Held' \subseteq Moving
  /\ \A tx \in Range(publishC') \cup Range(queue') :
       tx \in Range(publishC) \cup Range(queue) \/ Succeeded(tx)
  /\ \A tx \in Moving : tx \in Moving' \/ BlocksOf(tx) \subseteq lost'

\* A flush of the block listener drops what has expired and keeps the rest.
LEMMA FlushedHolds ==
  ASSUME IndexerDomains, NEW n \in 0..Len(blockQueue)
  PROVE  /\ Flushed(n).sent \in Seq(Nat) /\ Flushed(n).rest \in Seq(Nat)
         /\ Len(Flushed(n).sent) <= ChannelSize
         /\ Range(blockQueue) \cup Range(candidates)
              = {blockQueue[i] : i \in 1..n} \cup Range(Flushed(n).sent) \cup Range(Flushed(n).rest)
<1> DEFINE left == SubSeq(blockQueue, n + 1, Len(blockQueue))
           room == ChannelSize - Len(candidates)
           sent == IF room < Len(left) THEN room ELSE Len(left)
           head == SubSeq(left, 1, sent)
           rest == SubSeq(left, sent + 1, Len(left))
<1>1. blockQueue \in Seq(Nat) /\ candidates \in Seq(Nat) /\ Len(candidates) <= ChannelSize
  BY DEF IndexerDomains
<1>2. Flushed(n).sent = candidates \o head /\ Flushed(n).rest = rest
  BY DEF Flushed
<1>3. /\ left \in Seq(Nat)
      /\ Range(blockQueue) = {blockQueue[i] : i \in 1..n} \cup Range(left)
  BY <1>1, RangeCut
<1> HIDE DEF left
<1>4. sent \in 0..Len(left) /\ sent <= room /\ sent \in Nat
  <2>1. Len(left) \in Nat /\ Len(candidates) \in Nat /\ ChannelSize \in Nat
    BY <1>1, <1>3, IndexerAssumption, SMT
  <2> QED BY <1>1, <2>1, SMT
<1>5. Len(candidates) + sent <= ChannelSize
  <2>1. Len(candidates) \in Nat /\ ChannelSize \in Nat
    BY <1>1, IndexerAssumption, SMT
  <2> QED BY <1>4, <2>1, SMT
<1> HIDE DEF sent
<1>6. /\ head \in Seq(Nat) /\ rest \in Seq(Nat)
      /\ Range(left) = Range(head) \cup Range(rest)
  BY <1>3, <1>4, RangeCut
<1>7. Len(head) = sent
  BY <1>3, <1>4, SMT
<1> HIDE DEF head, rest
<1>8. /\ candidates \o head \in Seq(Nat)
      /\ Range(candidates \o head) = Range(candidates) \cup Range(head)
  BY <1>1, <1>6, RangeConcat, SMT
<1>9. Len(candidates \o head) <= ChannelSize
  <2>1. Len(candidates \o head) = Len(candidates) + Len(head)
    BY <1>1, <1>6, SMT
  <2> QED BY <1>5, <1>7, <2>1
<1> QED BY <1>2, <1>3, <1>6, <1>8, <1>9

\* A flush of the validator sends those of the first n that were executed.
LEMMA FlushValidatorHolds ==
  ASSUME IndexerDomains, NEW q \in Seq(Nat), NEW n \in 0..Len(q), FlushValidator(q, n)
  PROVE  /\ validator' \in ValidatorType /\ publishC' \in Seq(Nat)
         /\ Range(q) = {q[i] : i \in 1..n} \cup Range(validator'.queue)
         /\ Range(publishC') = Range(publishC) \cup {q[i] : i \in {k \in 1..n : Succeeded(q[k])}}
<1> DEFINE S == {i \in 1..n : Succeeded(q[i])}
<1>1. /\ validator' = [validator EXCEPT !.queue = SubSeq(q, n + 1, Len(q))]
      /\ \E executed \in InOrder(S) : publishC' = publishC \o [k \in DOMAIN executed |-> q[executed[k]]]
  BY DEF FlushValidator
<1>2. /\ SubSeq(q, n + 1, Len(q)) \in Seq(Nat)
      /\ Range(q) = {q[i] : i \in 1..n} \cup Range(SubSeq(q, n + 1, Len(q)))
  BY RangeCut
<1>3. validator \in ValidatorType /\ publishC \in Seq(Nat)
  BY DEF IndexerDomains, ValidatorType
<1>4. validator' \in ValidatorType /\ validator'.queue = SubSeq(q, n + 1, Len(q))
  BY <1>1, <1>2, <1>3 DEF ValidatorType
<1>5. S \in SUBSET Nat /\ IsFiniteSet(S) /\ S \subseteq 1..Len(q)
  <2>1. IsFiniteSet(1..n) /\ Len(q) \in Nat /\ n \in Nat
    BY FS_Interval, SMT
  <2>2. S \subseteq 1..n
    OBVIOUS
  <2>3. IsFiniteSet(S)
    BY <2>1, <2>2, FS_Subset
  <2>4. 1..n \subseteq Nat /\ 1..n \subseteq 1..Len(q)
    BY <2>1, SMT
  <2> QED BY <2>2, <2>3, <2>4
<1> HIDE DEF S
<1>6. PICK e \in InOrder(S) : publishC' = publishC \o [k \in DOMAIN e |-> q[e[k]]]
  BY <1>1
<1>7. e \in Seq(S) /\ Range(e) = S /\ DOMAIN e = 1..Len(e) /\ Len(e) \in Nat
  BY <1>5, InOrderHolds, SMT
<1> DEFINE g == [k \in 1..Len(e) |-> q[e[k]]]
<1>8. \A k \in 1..Len(e) : e[k] \in S
  BY <1>7, SMT
<1>9. g \in [1..Len(e) -> Nat]
  <2>1. \A i \in 1..Len(q) : q[i] \in Nat
    BY SMT
  <2>2. \A k \in 1..Len(e) : q[e[k]] \in Nat
    BY <1>5, <1>8, <2>1
  <2> QED BY <2>2
<1>10. g \in Seq(Nat) /\ DOMAIN g = 1..Len(e)
  BY <1>7, <1>9, SequenceFrom
<1>11. Range(g) = {q[i] : i \in S}
  <2>1. Range(g) = {g[k] : k \in 1..Len(e)}
    BY <1>10 DEF Range
  <2>2. Range(e) = {e[k] : k \in 1..Len(e)}
    BY <1>7 DEF Range
  <2> QED BY <1>7, <2>1, <2>2
<1>12. publishC' = publishC \o g
  BY <1>6, <1>7
<1> HIDE DEF g
<1>13. publishC' \in Seq(Nat) /\ Range(publishC') = Range(publishC) \cup Range(g)
  BY <1>3, <1>10, <1>12, RangeConcat, SMT
<1> QED BY <1>2, <1>4, <1>11, <1>13 DEF S

\* process_stream keeps what it finds.
LEMMA ProcessStreamGoes ==
  ASSUME IndexerDomains, RelayerDomains, NEW n \in 0..Len(blockQueue), ProcessStream(n)
  PROVE  IndexerDomains' /\ IndexerGoes
<1> DEFINE f == Flushed(n)
           new == cursor + 1
<1>1. /\ cursor < Len(da) /\ cursor' = new
      /\ \/ candidates' = Append(f.sent, new) /\ blockQueue' = <<>> /\ f.rest = <<>>
              /\ Len(f.sent) < ChannelSize
         \/ candidates' = f.sent /\ blockQueue' = Append(f.rest, new)
      /\ lost' = lost \cup UNION {BlocksOf(tx) : tx \in {blockQueue[i] : i \in 1..n}}
      /\ UNCHANGED <<da, validator, publishC, queue>>
  BY DEF ProcessStream, Lose, pathVars, brokerVars
<1>2. /\ f.sent \in Seq(Nat) /\ f.rest \in Seq(Nat) /\ Len(f.sent) <= ChannelSize
      /\ Range(blockQueue) \cup Range(candidates)
           = {blockQueue[i] : i \in 1..n} \cup Range(f.sent) \cup Range(f.rest)
  BY FlushedHolds
<1>3. /\ cursor \in Nat /\ Len(da) \in Nat /\ new \in Nat /\ new \in 0..Len(da)
      /\ \A tx : tx \in cursor + 1..Len(da) <=> tx = new \/ tx \in new + 1..Len(da)
  <2>1. cursor \in 0..Len(da) /\ Len(da) \in Nat
    BY SMT DEF IndexerDomains, RelayerDomains
  <2> QED BY <1>1, <2>1, SMT
<1> HIDE DEF f, new
<1>4. \A s \in Seq(Nat), x \in Nat :
        Append(s, x) \in Seq(Nat) /\ Len(Append(s, x)) = Len(s) + 1 /\ Len(s) \in Nat
  BY SMT
<1>5. \A s \in Seq(Nat), x \in Nat : Range(Append(s, x)) = Range(s) \cup {x}
  BY RangeAppend
<1>6. /\ candidates' \in Seq(Nat) /\ blockQueue' \in Seq(Nat) /\ Len(candidates') <= ChannelSize
      /\ Range(candidates') \cup Range(blockQueue') = Range(f.sent) \cup Range(f.rest) \cup {new}
  <2>1. CASE candidates' = Append(f.sent, new) /\ blockQueue' = <<>> /\ f.rest = <<>>
               /\ Len(f.sent) < ChannelSize
    <3>1. candidates' \in Seq(Nat) /\ Len(candidates') = Len(f.sent) + 1 /\ Len(f.sent) \in Nat
      BY <1>2, <1>3, <1>4, <2>1
    <3>2. Len(candidates') <= ChannelSize
      BY <2>1, <3>1, IndexerAssumption, SMT
    <3>3. /\ Range(candidates') = Range(f.sent) \cup {new}
          /\ Range(blockQueue') = {} /\ Range(f.rest) = {}
      BY <1>2, <1>3, <1>5, <2>1, RangeEmpty
    <3>4. blockQueue' \in Seq(Nat)
      BY <2>1, SMT
    <3> QED BY <3>1, <3>2, <3>3, <3>4
  <2>2. CASE candidates' = f.sent /\ blockQueue' = Append(f.rest, new)
    <3>1. blockQueue' \in Seq(Nat) /\ Range(blockQueue') = Range(f.rest) \cup {new}
      BY <1>2, <1>3, <1>4, <1>5, <2>2
    <3> QED BY <1>2, <2>2, <3>1
  <2> QED BY <1>1, <2>1, <2>2
<1>7. IndexerDomains'
  BY <1>1, <1>3, <1>6 DEF IndexerDomains
<1>8. lost \subseteq lost' /\ \A tx \in {blockQueue[i] : i \in 1..n} : BlocksOf(tx) \subseteq lost'
  BY <1>1
<1>9. Held' \subseteq Moving
  BY <1>1, <1>2, <1>3, <1>6 DEF Held, Moving, new
<1>10. \A tx \in Moving : tx \in Moving' \/ tx \in {blockQueue[i] : i \in 1..n}
  BY <1>1, <1>2, <1>3, <1>6 DEF Held, Moving
<1> QED BY <1>1, <1>7, <1>8, <1>9, <1>10 DEF IndexerGoes

\* So does the flush of its ticker.
LEMMA ListenerFlushGoes ==
  ASSUME IndexerDomains, NEW n \in 0..Len(blockQueue), ListenerFlush(n)
  PROVE  IndexerDomains' /\ IndexerGoes
<1> DEFINE f == Flushed(n)
<1>1. /\ candidates' = f.sent /\ blockQueue' = f.rest
      /\ lost' = lost \cup UNION {BlocksOf(tx) : tx \in {blockQueue[i] : i \in 1..n}}
      /\ UNCHANGED <<cursor, da, validator, publishC, queue>>
  BY DEF ListenerFlush, Lose, pathVars, brokerVars
<1>2. /\ f.sent \in Seq(Nat) /\ f.rest \in Seq(Nat) /\ Len(f.sent) <= ChannelSize
      /\ Range(blockQueue) \cup Range(candidates)
           = {blockQueue[i] : i \in 1..n} \cup Range(f.sent) \cup Range(f.rest)
  BY FlushedHolds
<1> HIDE DEF f
<1>3. IndexerDomains'
  BY <1>1, <1>2 DEF IndexerDomains
<1>4. lost \subseteq lost' /\ \A tx \in {blockQueue[i] : i \in 1..n} : BlocksOf(tx) \subseteq lost'
  BY <1>1
<1>5. Held' \subseteq Moving
  BY <1>1, <1>2 DEF Held, Moving
<1>6. \A tx \in Moving : tx \in Moving' \/ tx \in {blockQueue[i] : i \in 1..n}
  BY <1>1, <1>2 DEF Held, Moving
<1> QED BY <1>1, <1>3, <1>4, <1>5, <1>6 DEF IndexerGoes

\* The validator passes on what was executed; the rest was given up by the relayer.
LEMMA ValidatorGoes ==
  ASSUME IndexerDomains, HeldIncluded, GivenUp, NEW n \in 0..Len(validator.queue) + 1,
         ProcessCandidate(n) \/ ValidatorFlush(n)
  PROVE  IndexerDomains' /\ IndexerGoes
<1>0. /\ validator \in ValidatorType /\ candidates \in Seq(Nat) /\ validator.queue \in Seq(Nat)
      /\ Len(candidates) <= ChannelSize /\ Len(validator.queue) \in Nat
  BY SMT DEF IndexerDomains, ValidatorType
<1>1. ASSUME NEW q \in Seq(Nat), n \in 0..Len(q), FlushValidator(q, n),
             Range(q) \cup Range(candidates') = Range(validator.queue) \cup Range(candidates),
             candidates' \in Seq(Nat), Len(candidates') <= ChannelSize
      PROVE  IndexerDomains' /\ IndexerGoes
  <2>1. /\ validator' \in ValidatorType /\ publishC' \in Seq(Nat)
        /\ Range(q) = {q[i] : i \in 1..n} \cup Range(validator'.queue)
        /\ Range(publishC') = Range(publishC) \cup {q[i] : i \in {k \in 1..n : Succeeded(q[k])}}
    BY <1>1, FlushValidatorHolds
  <2>2. UNCHANGED <<da, lost, cursor, blockQueue, queue>>
    BY <1>1 DEF FlushValidator, pathVars, brokerVars
  <2>3. IndexerDomains'
    BY <1>1, <2>1, <2>2 DEF IndexerDomains, ValidatorType
  <2>4. \A tx \in Range(publishC') : tx \in Range(publishC) \/ (tx \in Range(q) /\ Succeeded(tx))
    BY <2>1
  <2>5. Held' \subseteq Moving
    BY <1>1, <2>1, <2>2, <2>4 DEF Held, Moving
  <2>6. \A tx \in Range(q) : tx \in Range(validator'.queue) \/ tx \in Range(publishC') \/ ~Succeeded(tx)
    BY <2>1
  <2>7. \A tx \in Moving : tx \in Moving' \/ (tx \in Range(q) /\ ~Succeeded(tx))
    BY <1>1, <2>1, <2>2, <2>6 DEF Held, Moving
  <2>8. ASSUME NEW tx \in Range(q), ~Succeeded(tx)
        PROVE  BlocksOf(tx) \subseteq lost'
    <3>1. tx \in 1..Len(da)
      BY <1>1 DEF HeldIncluded, Held
    <3> QED BY <2>2, <2>8, <3>1 DEF GivenUp, Succeeded, BlocksOf
  <2> QED BY <2>2, <2>3, <2>4, <2>5, <2>7, <2>8 DEF IndexerGoes
<1>2. CASE ProcessCandidate(n)
  <2> DEFINE q == Append(validator.queue, Head(candidates))
  <2>1. /\ candidates # <<>> /\ n <= Len(validator.queue) + 1 /\ candidates' = Tail(candidates)
        /\ FlushValidator(q, n)
    BY <1>2 DEF ProcessCandidate
  <2>2. /\ Range(candidates) = {Head(candidates)} \cup Range(Tail(candidates))
        /\ Head(candidates) \in Nat /\ Tail(candidates) \in Seq(Nat)
    BY <1>0, <2>1, RangeTail
  <2>3. q \in Seq(Nat) /\ Len(q) = Len(validator.queue) + 1
    BY <1>0, <2>2, SMT
  <2>4. Range(q) = Range(validator.queue) \cup {Head(candidates)}
    BY <1>0, <2>2, RangeAppend, SMT
  <2>5. Len(Tail(candidates)) <= ChannelSize
    <3>1. Len(Tail(candidates)) = Len(candidates) - 1 /\ Len(candidates) \in Nat
      BY <1>0, <2>1, SMT
    <3> QED BY <1>0, <3>1, IndexerAssumption, SMT
  <2>6. n \in 0..Len(q)
    BY <2>3
  <2> HIDE DEF q
  <2> QED BY <1>1, <2>1, <2>2, <2>3, <2>4, <2>5, <2>6
<1>3. CASE ValidatorFlush(n)
  <2>1. n \in 1..Len(validator.queue) /\ FlushValidator(validator.queue, n) /\ candidates' = candidates
    BY <1>3 DEF ValidatorFlush
  <2>2. n \in 0..Len(validator.queue)
    BY <2>1, SMT
  <2> QED BY <1>0, <1>1, <2>1, <2>2
<1> QED BY <1>2, <1>3

\* Publishing, and what is lost where a part fails or a message expires.
LEMMA PublisherGoes ==
  ASSUME IndexerDomains,
         \/ ValidatorFails \/ PublisherConnects \/ Publish \/ MessageExpires
         \/ \E b \in BOOLEAN : PublishFails(b)
  PROVE  IndexerDomains' /\ IndexerGoes
<1>0. /\ blockQueue \in Seq(Nat) /\ candidates \in Seq(Nat) /\ publishC \in Seq(Nat)
      /\ queue \in Seq(Nat) /\ validator \in ValidatorType
  BY DEF IndexerDomains, ValidatorType
<1>1. CASE ValidatorFails
  <2>1. /\ validator' = [running |-> FALSE, queue |-> <<>>] /\ candidates' = <<>> /\ blockQueue' = <<>>
        /\ lost' = lost \cup UNION {BlocksOf(tx) : tx \in Range(candidates) \cup Range(blockQueue)
                                                            \cup Range(validator.queue)}
        /\ UNCHANGED <<cursor, da, publishC, queue>>
    BY <1>1 DEF ValidatorFails, Lose, pathVars, brokerVars
  <2>2. /\ validator' \in ValidatorType /\ candidates' \in Seq(Nat) /\ Len(candidates') = 0
        /\ blockQueue' \in Seq(Nat) /\ 0 <= ChannelSize
    BY <2>1, IndexerAssumption, SMT DEF ValidatorType
  <2>3. IndexerDomains'
    BY <2>1, <2>2 DEF IndexerDomains, ValidatorType
  <2>4. Range(candidates') = {} /\ Range(blockQueue') = {} /\ Range(validator'.queue) = {}
    BY <2>1, RangeEmpty
  <2>5. \A tx \in Range(candidates) \cup Range(blockQueue) \cup Range(validator.queue) :
          BlocksOf(tx) \subseteq lost'
    BY <2>1
  <2>6. lost \subseteq lost'
    BY <2>1
  <2> QED BY <2>1, <2>3, <2>4, <2>5, <2>6 DEF IndexerGoes, Held, Moving
<1>2. CASE PublisherConnects
  <2>1. UNCHANGED <<da, lost, cursor, blockQueue, candidates, validator, publishC, queue>>
    BY <1>2 DEF PublisherConnects, pathVars
  <2> QED BY <2>1 DEF IndexerDomains, IndexerGoes, Held, Moving
<1>3. ASSUME publishC # <<>>, publishC' = Tail(publishC),
             UNCHANGED <<da, cursor, blockQueue, candidates, validator>>,
             \/ queue' = Append(queue, Head(publishC)) /\ lost' = lost
             \/ queue' = queue /\ lost' = lost \cup UNION {BlocksOf(tx) : tx \in {Head(publishC)}}
      PROVE  IndexerDomains' /\ IndexerGoes
  <2>1. /\ Range(publishC) = {Head(publishC)} \cup Range(publishC')
        /\ Head(publishC) \in Nat /\ publishC' \in Seq(Nat)
    BY <1>0, <1>3, RangeTail
  <2>2. CASE queue' = Append(queue, Head(publishC)) /\ lost' = lost
    <3>1. queue' \in Seq(Nat) /\ Range(queue') = Range(queue) \cup {Head(publishC)}
      BY <1>0, <2>1, <2>2, AppendType, RangeAppend, SMT
    <3> QED BY <1>3, <2>1, <2>2, <3>1 DEF IndexerDomains, IndexerGoes, Held, Moving
  <2>3. CASE queue' = queue /\ lost' = lost \cup UNION {BlocksOf(tx) : tx \in {Head(publishC)}}
    <3>1. lost \subseteq lost' /\ BlocksOf(Head(publishC)) \subseteq lost'
      BY <2>3
    <3> QED BY <1>3, <2>1, <2>3, <3>1 DEF IndexerDomains, IndexerGoes, Held, Moving
  <2> QED BY <1>3, <2>2, <2>3
<1>4. CASE Publish
  BY <1>3, <1>4 DEF Publish, Lose, pathVars
<1>5. CASE \E b \in BOOLEAN : PublishFails(b)
  BY <1>3, <1>5 DEF PublishFails, Lose, pathVars, brokerVars
<1>6. CASE MessageExpires
  <2>1. /\ queue # <<>> /\ queue' = Tail(queue)
        /\ lost' = lost \cup UNION {BlocksOf(tx) : tx \in {Head(queue)}}
        /\ UNCHANGED <<da, cursor, blockQueue, candidates, validator, publishC>>
    BY <1>6 DEF MessageExpires, Lose, pathVars, indexerVars
  <2>2. Range(queue) = {Head(queue)} \cup Range(queue') /\ queue' \in Seq(Nat)
    BY <1>0, <2>1, RangeTail
  <2>3. lost \subseteq lost' /\ BlocksOf(Head(queue)) \subseteq lost'
    BY <2>1
  <2> QED BY <2>1, <2>2, <2>3 DEF IndexerDomains, IndexerGoes, Held, Moving
<1> QED BY <1>1, <1>2, <1>4, <1>5, <1>6

\* All steps of the indexer and of RabbitMQ.
LEMMA IndexerStepGoes ==
  ASSUME RelayerDomains, IndexerDomains, HeldIncluded, GivenUp, IndexerMove
  PROVE  IndexerDomains' /\ IndexerGoes
<1>1. Len(blockQueue) \in Nat /\ 0 \in 0..Len(blockQueue)
      /\ \A n \in 1..Len(blockQueue) : n \in 0..Len(blockQueue)
  <2>1. Len(blockQueue) \in Nat
    BY SMT DEF IndexerDomains
  <2> QED BY <2>1, SMT
<1>2. CASE \E n \in 0..Len(blockQueue) : ProcessStream(n) \/ ListenerFlush(n)
  BY <1>2, ProcessStreamGoes, ListenerFlushGoes
<1>3. CASE \E n \in 0..Len(validator.queue) + 1 : ProcessCandidate(n) \/ ValidatorFlush(n)
  BY <1>3, ValidatorGoes
<1>4. CASE \/ ValidatorFails \/ PublisherConnects \/ Publish \/ MessageExpires
           \/ \E b \in BOOLEAN : PublishFails(b)
  BY <1>4, PublisherGoes
<1> QED BY <1>1, <1>2, <1>3, <1>4 DEF IndexerMove, IndexerStep, IndexerFault

\* What the proof keeps about what is on its way.
PathKept ==
  GivenUp /\ IndexerDomains /\ HeldIncluded /\ DeliveriesOfDa /\ ReceivedFromDa

AllPlaced == \A b \in Range(received) : Placed(b)

\* The steps of the indexer keep it, and lose no block.
LEMMA IndexerKeeps ==
  ASSUME RelayerDomains, PathKept, IndexerMove, UNCHANGED consumerVars
  PROVE  PathKept' /\ (AllPlaced => AllPlaced')
<1>1. IndexerDomains' /\ IndexerGoes
  BY IndexerStepGoes DEF PathKept
<1>2. /\ UNCHANGED <<da, received, listener, start, consumer, listeners, mqBlocks>>
  BY DownstreamLeaves DEF pathVars, consumerVars
<1>3. Moving \subseteq 1..Len(da)
  <2>1. Held \subseteq 1..Len(da) /\ cursor \in Nat /\ Len(da) \in Nat
    BY SMT DEF PathKept, HeldIncluded, IndexerDomains, RelayerDomains
  <2>2. cursor + 1..Len(da) \subseteq 1..Len(da)
    BY <2>1, SMT
  <2> QED BY <2>1, <2>2 DEF Moving
<1>4. \A tx : (Succeeded(tx) <=> Succeeded(tx)') /\ BlocksOf(tx)' = BlocksOf(tx)
  BY <1>2 DEF Succeeded, BlocksOf
<1>5. HeldIncluded'
  <2>1. Held' \subseteq 1..Len(da')
    BY <1>1, <1>2, <1>3 DEF IndexerGoes
  <2>2. ASSUME NEW tx \in Range(publishC') \cup Range(queue') PROVE Succeeded(tx)'
    <3>1. Succeeded(tx)
      BY <1>1, <2>2 DEF IndexerGoes, PathKept, HeldIncluded
    <3> QED BY <1>4, <3>1
  <2> QED BY <2>1, <2>2 DEF HeldIncluded
<1>6. GivenUp'
  BY <1>1, <1>2 DEF IndexerGoes, PathKept, GivenUp
<1>7. DeliveriesOfDa' /\ ReceivedFromDa'
  BY <1>2, <1>4 DEF PathKept, DeliveriesOfDa, ReceivedFromDa
<1>8. ASSUME AllPlaced PROVE AllPlaced'
  <2> SUFFICES ASSUME NEW b \in Range(received) PROVE Placed(b)'
    BY <1>2 DEF AllPlaced
  <2>1. Placed(b)
    BY <1>8 DEF AllPlaced
  <2>2. ASSUME NEW tx \in Moving, b \in BlocksOf(tx) PROVE Placed(b)'
    <3>1. tx \in Moving' \/ BlocksOf(tx) \subseteq lost'
      BY <1>1 DEF IndexerGoes
    <3>2. b \in BlocksOf(tx)'
      BY <1>4, <2>2
    <3> QED BY <2>2, <3>1, <3>2 DEF Placed
  <2>3. lost \subseteq lost'
    BY <1>1 DEF IndexerGoes
  <2> QED BY <1>2, <2>1, <2>2, <2>3 DEF Placed
<1> QED BY <1>1, <1>5, <1>6, <1>7, <1>8 DEF PathKept

\* The steps of the relayer keep it, and lose no block.
LEMMA RelayerKeeps ==
  ASSUME RelayerDomains, PathKept, RelayerGoes, UNCHANGED <<indexerVars, brokerVars, consumerVars>>
  PROVE  PathKept' /\ (AllPlaced => AllPlaced')
<1>0. /\ da \in Seq(TxType) /\ Len(da) \in Nat
      /\ UNCHANGED <<cursor, blockQueue, candidates, validator, publishC, queue>>
      /\ UNCHANGED <<consumer, listeners, mqBlocks>>
  BY SMT DEF RelayerDomains, TxType, indexerVars, brokerVars, consumerVars
<1>1. /\ Len(da') \in Nat /\ Len(da) <= Len(da')
      /\ \A i \in 1..Len(da) : i \in 1..Len(da') /\ da'[i] = da[i]
      /\ \A i \in 1..Len(da') :
           \/ i \in 1..Len(da)
           \/ /\ da'[i].kind = "foreign" => da'[i].blocks = <<>>
              /\ da'[i].kind = "failed" => Range(da'[i].blocks) \subseteq lost'
  <2>1. CASE da' = da
    BY <1>0, <2>1, SMT
  <2>2. ASSUME NEW t \in TxType, da' = Append(da, t), t.kind = "foreign" => t.blocks = <<>>,
               t.kind = "failed" => Range(t.blocks) \subseteq lost'
        PROVE  <1>1!1
    <3>1. /\ Len(da') = Len(da) + 1
          /\ \A i \in 1..Len(da) : i \in 1..Len(da') /\ da'[i] = da[i]
          /\ da'[Len(da) + 1] = t
          /\ \A i \in 1..Len(da') : i \in 1..Len(da) \/ i = Len(da) + 1
      BY <1>0, <2>2, DaAppend
    <3>2. Len(da') \in Nat /\ Len(da) <= Len(da')
      BY <1>0, <3>1, SMT
    <3> QED BY <2>2, <3>1, <3>2
  <2> QED BY <2>1, <2>2, SMT DEF RelayerGoes
<1>2. lost \subseteq lost'
  BY DEF RelayerGoes
<1>3. \A tx \in 1..Len(da) : /\ tx \in 1..Len(da') /\ da'[tx] = da[tx]
                             /\ BlocksOf(tx)' = BlocksOf(tx) /\ (Succeeded(tx) => Succeeded(tx)')
  BY <1>1 DEF BlocksOf, Succeeded
<1>4. GivenUp'
  <2> SUFFICES ASSUME NEW i \in 1..Len(da')
               PROVE  /\ da'[i].kind = "foreign" => da'[i].blocks = <<>>
                      /\ da'[i].kind = "failed" => Range(da'[i].blocks) \subseteq lost'
    BY DEF GivenUp
  <2>1. CASE i \in 1..Len(da)
    BY <1>1, <1>2, <2>1 DEF PathKept, GivenUp
  <2> QED BY <1>1, <2>1
<1>5. cursor \in 0..Len(da) /\ cursor' \in 0..Len(da') /\ IndexerDomains'
  <2>1. cursor \in 0..Len(da)
    BY DEF PathKept, IndexerDomains
  <2>2. cursor' \in 0..Len(da')
    BY <1>0, <1>1, <2>1, SMT
  <2> QED BY <1>0, <2>1, <2>2 DEF PathKept, IndexerDomains
<1>6. Held' = Held /\ HeldIncluded'
  <2>1. Held' = Held
    BY <1>0 DEF Held
  <2>2. Range(publishC) \cup Range(queue) \subseteq Held /\ Held \subseteq 1..Len(da)
    BY DEF PathKept, HeldIncluded, Held
  <2>3. Held' \subseteq 1..Len(da')
    BY <1>1, <2>1, <2>2
  <2>4. \A tx \in Range(publishC) \cup Range(queue) : Succeeded(tx)'
    BY <1>3, <2>2 DEF PathKept, HeldIncluded
  <2> QED BY <1>0, <2>1, <2>3, <2>4 DEF HeldIncluded
<1>7. DeliveriesOfDa'
  <2>1. DeliveriesOfDa
    BY DEF PathKept
  <2>2. ASSUME NEW l \in listeners, l.tx # 0
        PROVE  /\ l.tx \in 1..Len(da') /\ da'[l.tx].kind = "ok"
               /\ Range(l.todo) \subseteq BlocksOf(l.tx)'
    <3>1. l.tx \in 1..Len(da) /\ da[l.tx].kind = "ok" /\ Range(l.todo) \subseteq BlocksOf(l.tx)
      BY <2>1, <2>2 DEF DeliveriesOfDa
    <3> QED BY <1>3, <3>1
  <2>3. \A m \in mqBlocks : m.tx \in 1..Len(da')
    BY <1>3, <2>1 DEF DeliveriesOfDa
  <2> QED BY <1>0, <2>1, <2>2, <2>3 DEF DeliveriesOfDa
<1>8. ReceivedFromDa'
  BY <1>0, <1>3 DEF PathKept, DeliveriesOfDa, ReceivedFromDa
<1>9. ASSUME AllPlaced PROVE AllPlaced'
  <2> SUFFICES ASSUME NEW b \in Range(received') PROVE Placed(b)'
    BY DEF AllPlaced
  <2>1. CASE b \in Range(listener'.blocks)
    BY <2>1 DEF Placed
  <2>2. CASE b \in Range(received)
    <3>1. Placed(b)
      BY <1>9, <2>2 DEF AllPlaced
    <3>2. CASE b \in Range(listener.blocks)
      BY <3>2 DEF RelayerGoes, Placed
    <3>3. CASE start.pc = "submit" /\ b \in Range(start.batch)
      <4>1. CASE start'.pc = "submit" /\ start'.batch = start.batch
        BY <3>3, <4>1 DEF Placed
      <4>2. CASE Range(start.batch) \subseteq lost'
        BY <3>3, <4>2 DEF Placed
      <4>3. CASE da' = Append(da, Tx(start.batch, "ok"))
        <5>1. Tx(start.batch, "ok") \in TxType /\ Tx(start.batch, "ok").blocks = start.batch
          BY DEF RelayerDomains, Tx, TxType
        <5>2. da'[Len(da) + 1] = Tx(start.batch, "ok") /\ Len(da') = Len(da) + 1
          BY <1>0, <4>3, <5>1, DaAppend
        <5>3. PICK k : k = Len(da) + 1
          OBVIOUS
        <5>4. k \in cursor' + 1..Len(da')
          BY <1>0, <1>5, <5>2, <5>3, SMT
        <5>5. b \in BlocksOf(k)'
          BY <3>3, <5>1, <5>2, <5>3 DEF BlocksOf
        <5>6. k \in Moving'
          BY <5>4 DEF Moving
        <5> QED BY <5>5, <5>6 DEF Placed
      <4> QED BY <3>3, <4>1, <4>2, <4>3 DEF RelayerGoes
    <3>4. ASSUME NEW tx \in Moving, b \in BlocksOf(tx) PROVE Placed(b)'
      <4>1. tx \in 1..Len(da) /\ tx \in Moving'
        <5>1. CASE tx \in Held
          BY <1>6, <5>1 DEF PathKept, HeldIncluded, Moving
        <5>2. CASE tx \in cursor + 1..Len(da)
          <6>1. tx \in 1..Len(da) /\ tx \in cursor' + 1..Len(da')
            BY <1>0, <1>1, <1>5, <5>2, SMT
          <6> QED BY <6>1 DEF Moving
        <5> QED BY <3>4, <5>1, <5>2 DEF Moving
      <4>2. b \in BlocksOf(tx)'
        BY <1>3, <3>4, <4>1
      <4> QED BY <4>1, <4>2 DEF Placed
    <3>5. CASE \/ \E l \in listeners : b \in Range(l.todo)
               \/ \E m \in mqBlocks : b = m.block
               \/ b \in lost
      BY <1>0, <1>2, <3>5 DEF Placed
    <3> QED BY <3>1, <3>2, <3>3, <3>4, <3>5 DEF Placed
  <2> QED BY <2>1, <2>2 DEF RelayerGoes
<1> QED BY <1>4, <1>5, <1>6, <1>7, <1>8, <1>9 DEF PathKept

-----------------------------------------------------------------------------
(* The consumer *)

ConsumerType ==
  [pc : {"dial", "setup", "retry", "ready", "returned", "panicked"}, next : Nat, conn : BOOLEAN,
   gen : Nat]

\* A goroutine that listens, as DeliveriesOfDa has it.
Proper(l) ==
  /\ l \in Listening
  /\ l.tx = 0 => l.todo = <<>>
  /\ l.tx # 0 => /\ l.tx \in 1..Len(da) /\ da[l.tx].kind = "ok"
                 /\ Range(l.todo) \subseteq BlocksOf(l.tx)

\* What a step of the consumer does to deliveries and blocks.
ConsumerGoes ==
  /\ DeliveriesOfDa' /\ ReceivedFromDa'
  /\ queue' \in Seq(Nat)
  /\ \A tx \in Range(queue') : tx \in Range(queue) \/ (tx \in 1..Len(da) /\ da[tx].kind = "ok")
  /\ mqBlocks \subseteq mqBlocks'
  /\ \A tx \in Range(queue) :
       tx \in Range(queue') \/ \A b \in BlocksOf(tx) : \E l \in listeners' : b \in Range(l.todo)
  /\ \A l \in listeners : \A b \in Range(l.todo) :
       (\E k \in listeners' : b \in Range(k.todo)) \/ (\E m \in mqBlocks' : b = m.block)

\* DeliveriesOfDa, goroutine by goroutine.
LEMMA ProperListeners ==
  DeliveriesOfDa <=> /\ consumer \in ConsumerType /\ IsFiniteSet(listeners)
                     /\ \A l \in listeners : Proper(l)
                     /\ \A m \in mqBlocks : m.tx \in 1..Len(da)
BY DEF DeliveriesOfDa, ConsumerType, Proper

\* The same, after a step that leaves NEAR DA alone.
LEMMA ProperNext ==
  ASSUME UNCHANGED da, consumer' \in ConsumerType, IsFiniteSet(listeners'),
         \A l \in listeners' : Proper(l), \A m \in mqBlocks' : m.tx \in 1..Len(da)
  PROVE  DeliveriesOfDa'
<1>1. \A l \in listeners' : Proper(l)'
  BY DEF Proper, BlocksOf
<1> QED BY <1>1 DEF DeliveriesOfDa, ConsumerType, Proper

\* Steps that change the consumer alone.
LEMMA ReconnectGoes ==
  ASSUME DeliveriesOfDa, ReceivedFromDa, IndexerDomains,
         Connect \/ RetrySetup \/ SetupGivesUp \/ Reconnect
  PROVE  ConsumerGoes
<1>1. /\ consumer \in ConsumerType /\ IsFiniteSet(listeners) /\ \A l \in listeners : Proper(l)
      /\ \A m \in mqBlocks : m.tx \in 1..Len(da)
  BY ProperListeners
<1>2. UNCHANGED <<da, queue, listeners, mqBlocks>>
  BY DEF Connect, RetrySetup, SetupGivesUp, Reconnect, UpstreamUnchanged, pathVars, brokerVars
<1>3. \/ consumer' = [consumer EXCEPT !.pc = "setup", !.next = 1, !.conn = TRUE, !.gen = @ + 1]
      \/ consumer' = [consumer EXCEPT !.pc = "setup", !.next = 1]
      \/ consumer' = [consumer EXCEPT !.pc = "returned"]
      \/ consumer' = [consumer EXCEPT !.pc = "dial"]
  BY DEF Connect, RetrySetup, SetupGivesUp, Reconnect
<1>4. consumer' \in ConsumerType
  <2>1. CASE consumer' = [consumer EXCEPT !.pc = "setup", !.next = 1, !.conn = TRUE, !.gen = @ + 1]
    <3>1. consumer.gen + 1 \in Nat /\ 1 \in Nat
      BY <1>1, SMT DEF ConsumerType
    <3> QED BY <1>1, <2>1, <3>1 DEF ConsumerType
  <2>2. CASE consumer' = [consumer EXCEPT !.pc = "setup", !.next = 1]
    BY <1>1, <2>2 DEF ConsumerType
  <2>3. CASE \/ consumer' = [consumer EXCEPT !.pc = "returned"]
             \/ consumer' = [consumer EXCEPT !.pc = "dial"]
    BY <1>1, <2>3 DEF ConsumerType
  <2> QED BY <1>3, <2>1, <2>2, <2>3
<1>5. DeliveriesOfDa'
  BY <1>1, <1>2, <1>4, ProperNext
<1>6. ReceivedFromDa' /\ queue' \in Seq(Nat)
  BY <1>2 DEF ReceivedFromDa, BlocksOf, IndexerDomains
<1> QED BY <1>2, <1>5, <1>6 DEF ConsumerGoes

\* A goroutine that starts to listen has nothing.
LEMMA SetupQueueGoes ==
  ASSUME DeliveriesOfDa, ReceivedFromDa, IndexerDomains, SetupQueue
  PROVE  ConsumerGoes
<1>1. /\ consumer \in ConsumerType /\ IsFiniteSet(listeners) /\ \A l \in listeners : Proper(l)
      /\ \A m \in mqBlocks : m.tx \in 1..Len(da)
  BY ProperListeners
<1>2. /\ UNCHANGED <<da, queue, mqBlocks>>
      /\ (listeners' = listeners) \/ (listeners' = listeners \cup {Idle(consumer.gen)})
      /\ \/ consumer' = [consumer EXCEPT !.pc = "ready"]
         \/ consumer' = [consumer EXCEPT !.next = @ + 1]
  BY DEF SetupQueue, UpstreamUnchanged, pathVars
<1>3. consumer' \in ConsumerType /\ consumer.gen \in Nat
  BY <1>1, <1>2, SMT DEF ConsumerType
<1>4. Proper(Idle(consumer.gen))
  BY <1>3, SMT DEF Proper, Idle, Listening
<1>5. IsFiniteSet(listeners') /\ listeners \subseteq listeners' /\ \A l \in listeners' : Proper(l)
  BY <1>1, <1>2, <1>4, FS_AddElement
<1>6. DeliveriesOfDa'
  BY <1>1, <1>2, <1>3, <1>5, ProperNext
<1>7. ReceivedFromDa' /\ queue' \in Seq(Nat)
  BY <1>2 DEF ReceivedFromDa, BlocksOf, IndexerDomains
<1> QED BY <1>2, <1>5, <1>6, <1>7 DEF ConsumerGoes

\* When the channel closes what was not acknowledged is requeued, and the goroutines
\* go on with it.
LEMMA ChannelClosesGoes ==
  ASSUME DeliveriesOfDa, ReceivedFromDa, IndexerDomains, ChannelCloses,
         UNCHANGED <<da, mqBlocks>>, consumer' \in ConsumerType
  PROVE  ConsumerGoes
<1>1. /\ IsFiniteSet(listeners) /\ \A l \in listeners : Proper(l)
      /\ \A m \in mqBlocks : m.tx \in 1..Len(da)
  BY ProperListeners
<1> DEFINE busy == {k \in listeners : k.tx # 0}
           unacked == {k \in listeners : k.open /\ k.tx # 0}
           S == {l.tx : l \in unacked}
           closed(l) == [l EXCEPT !.open = FALSE]
<1>2. /\ \E back \in InOrder(S) : queue' = back \o queue
      /\ listeners' = {closed(l) : l \in busy}
  BY DEF ChannelCloses
<1>3. \A l \in listeners : l.tx # 0 => l.tx \in 1..Len(da) /\ da[l.tx].kind = "ok"
  BY <1>1 DEF Proper
<1>4. S \in SUBSET Nat /\ IsFiniteSet(S)
  <2>1. IsFiniteSet(unacked)
    BY <1>1, FS_Subset
  <2>2. IsFiniteSet(S)
    <3> DEFINE f == [l \in unacked |-> l.tx]
    <3>1. DOMAIN f = unacked /\ f = [l \in unacked |-> f[l]]
      OBVIOUS
    <3>2. S = {f[l] : l \in unacked}
      OBVIOUS
    <3> HIDE DEF f, unacked, S
    <3>3. IsFiniteSet({f[l] : l \in unacked})
      BY <2>1, <3>1, FiniteRange, SMT
    <3> QED BY <3>2, <3>3
  <2> QED BY <1>3, <2>2, SMT
<1>5. \A tx \in S : tx \in 1..Len(da) /\ da[tx].kind = "ok"
  BY <1>3
<1> HIDE DEF S
<1>6. PICK back \in InOrder(S) : queue' = back \o queue
  BY <1>2
<1>7. back \in Seq(Nat) /\ Range(back) = S
  BY <1>4, InOrderHolds
<1>8. queue' \in Seq(Nat) /\ Range(queue') = S \cup Range(queue)
  BY <1>6, <1>7, RangeConcat, SMT DEF IndexerDomains
<1>9. IsFiniteSet(listeners')
  <2>1. IsFiniteSet(busy)
    BY <1>1, FS_Subset
  <2> DEFINE f == [l \in busy |-> closed(l)]
  <2>2. IsFiniteSet({f[l] : l \in busy})
    <3> HIDE DEF busy, closed
    <3>1. DOMAIN f = busy /\ f = [l \in busy |-> f[l]]
      OBVIOUS
    <3> HIDE DEF f
    <3> QED BY <2>1, <3>1, FiniteRange, SMT
  <2>3. listeners' = {f[l] : l \in busy}
    BY <1>2
  <2> QED BY <2>2, <2>3
<1>10. ASSUME NEW l \in busy
       PROVE  Proper(closed(l)) /\ closed(l).todo = l.todo /\ closed(l) \in listeners'
  <2>1. Proper(l) /\ l \in Listening
    BY <1>1 DEF Proper
  <2>2. closed(l) \in Listening /\ closed(l).tx = l.tx /\ closed(l).todo = l.todo
    BY <2>1 DEF Listening
  <2> QED BY <1>2, <2>1, <2>2 DEF Proper
<1>11. \A l \in listeners' : Proper(l)
  BY <1>2, <1>10
<1>12. DeliveriesOfDa'
  BY <1>1, <1>9, <1>11, ProperNext
<1>13. \A l \in listeners : \A b \in Range(l.todo) : \E k \in listeners' : b \in Range(k.todo)
  <2> SUFFICES ASSUME NEW l \in listeners, NEW b \in Range(l.todo)
               PROVE  \E k \in listeners' : b \in Range(k.todo)
    OBVIOUS
  <2>1. CASE l.tx = 0
    <3>1. l.todo = <<>>
      BY <1>1, <2>1 DEF Proper
    <3> QED BY <3>1, RangeEmpty
  <2>2. CASE l.tx # 0
    BY <1>10, <2>2
  <2> QED BY <2>1, <2>2
<1>14. ReceivedFromDa'
  BY DEF ReceivedFromDa, BlocksOf
<1> QED BY <1>5, <1>8, <1>12, <1>13, <1>14 DEF ConsumerGoes

\* One goroutine changes its delivery.
LEMMA UpdateListener ==
  ASSUME DeliveriesOfDa, NEW l \in listeners, NEW k, Proper(k), Update(l, k), UNCHANGED da,
         consumer' = consumer, \A m \in mqBlocks' : m.tx \in 1..Len(da)
  PROVE  DeliveriesOfDa' /\ k \in listeners' /\ \A j \in listeners : j = l \/ j \in listeners'
<1>1. /\ consumer \in ConsumerType /\ IsFiniteSet(listeners) /\ \A j \in listeners : Proper(j)
  BY ProperListeners
<1>2. listeners' = (listeners \ {l}) \cup {k}
  BY DEF Update
<1>3. IsFiniteSet(listeners')
  <2>1. IsFiniteSet(listeners \ {l})
    BY <1>1, FS_Subset
  <2> QED BY <1>2, <2>1, FS_AddElement
<1>4. \A j \in listeners' : Proper(j)
  BY <1>1, <1>2
<1>5. DeliveriesOfDa'
  BY <1>1, <1>3, <1>4, ProperNext
<1> QED BY <1>2, <1>5

\* A delivery is taken, block by block, and acknowledged.
LEMMA ListenGoes ==
  ASSUME RelayerDomains, PathKept, NEW l \in listeners, TakeDelivery(l) \/ SendBlock(l) \/ Ack(l)
  PROVE  ConsumerGoes
<1>0. /\ consumer \in ConsumerType /\ IsFiniteSet(listeners) /\ \A j \in listeners : Proper(j)
      /\ \A m \in mqBlocks : m.tx \in 1..Len(da)
      /\ DeliveriesOfDa /\ ReceivedFromDa /\ queue \in Seq(Nat)
  BY ProperListeners DEF PathKept, IndexerDomains
<1>1. Proper(l) /\ l \in Listening
  BY <1>0 DEF Proper
<1>2. CASE TakeDelivery(l)
  <2> DEFINE tx == Head(queue)
             k == [l EXCEPT !.tx = tx, !.todo = da[tx].blocks]
  <2>1. /\ l.tx = 0 /\ queue # <<>> /\ queue' = Tail(queue) /\ UNCHANGED <<da, consumer, mqBlocks>>
        /\ IF da[tx].kind = "foreign" THEN listeners' = listeners ELSE Update(l, k)
    BY <1>2 DEF TakeDelivery, UpstreamUnchanged, pathVars
  <2>2. Range(queue) = {tx} \cup Range(queue') /\ tx \in Nat /\ queue' \in Seq(Nat)
    BY <1>0, <2>1, RangeTail
  <2>3. tx \in 1..Len(da) /\ Succeeded(tx)
    BY <2>2 DEF PathKept, HeldIncluded, Held
  <2>4. l.todo = <<>> /\ Range(l.todo) = {}
    BY <1>1, <2>1, RangeEmpty DEF Proper
  <2>5. ReceivedFromDa'
    BY <1>0, <2>1 DEF ReceivedFromDa, BlocksOf
  <2> HIDE DEF tx
  <2>6. CASE da[tx].kind = "foreign"
    <3>1. BlocksOf(tx) = {}
      BY <2>3, <2>6, RangeEmpty DEF PathKept, GivenUp, BlocksOf
    <3>2. DeliveriesOfDa' /\ listeners' = listeners
      BY <1>0, <2>1, <2>6, ProperNext
    <3> QED BY <2>1, <2>2, <2>5, <3>1, <3>2 DEF ConsumerGoes
  <2>7. CASE da[tx].kind # "foreign"
    <3>1. da[tx] \in TxType
      <4>1. da \in Seq(TxType)
        BY DEF RelayerDomains, TxType
      <4> QED BY <2>3, <4>1, SMT
    <3>2. da[tx].kind = "ok" /\ da[tx].blocks \in Seq(Nat)
      BY <2>3, <2>7, <3>1 DEF TxType, Succeeded
    <3>3. k \in Listening /\ k.tx = tx /\ k.todo = da[tx].blocks
      BY <1>1, <2>2, <3>2 DEF Listening
    <3>4. Proper(k) /\ Range(k.todo) = BlocksOf(tx)
      <4>1. tx # 0
        BY <2>3, SMT
      <4> QED BY <2>3, <3>2, <3>3, <4>1 DEF Proper, BlocksOf
    <3> HIDE DEF k
    <3>5. DeliveriesOfDa' /\ k \in listeners' /\ \A j \in listeners : j = l \/ j \in listeners'
      BY <1>0, <2>1, <2>7, <3>4, UpdateListener
    <3> QED BY <2>1, <2>2, <2>4, <2>5, <3>4, <3>5 DEF ConsumerGoes
  <2> QED BY <2>6, <2>7
<1>3. CASE SendBlock(l)
  <2> DEFINE k == [l EXCEPT !.todo = Tail(@)]
             m == [block |-> Head(l.todo), tx |-> l.tx]
  <2>1. /\ l.todo # <<>> /\ mqBlocks' = mqBlocks \cup {m} /\ Update(l, k)
        /\ UNCHANGED <<da, consumer, queue>>
    BY <1>3 DEF SendBlock, UpstreamUnchanged, pathVars, brokerVars
  <2>2. l.todo \in Seq(Nat)
    BY <1>1 DEF Listening
  <2>3. Range(l.todo) = {Head(l.todo)} \cup Range(Tail(l.todo)) /\ Tail(l.todo) \in Seq(Nat)
    BY <2>1, <2>2, RangeTail
  <2>4. /\ l.tx # 0 /\ l.tx \in 1..Len(da) /\ da[l.tx].kind = "ok"
        /\ Range(l.todo) \subseteq BlocksOf(l.tx)
    BY <1>1, <2>1 DEF Proper
  <2>5. k \in Listening /\ k.tx = l.tx /\ k.todo = Tail(l.todo)
    BY <1>1, <2>3 DEF Listening
  <2>6. Proper(k)
    BY <2>3, <2>4, <2>5 DEF Proper
  <2>7. m.block = Head(l.todo) /\ m.tx = l.tx
    OBVIOUS
  <2> HIDE DEF k, m
  <2>8. \A x \in mqBlocks' : x.tx \in 1..Len(da)
    BY <1>0, <2>1, <2>4, <2>7
  <2>9. DeliveriesOfDa' /\ k \in listeners' /\ \A j \in listeners : j = l \/ j \in listeners'
    BY <1>0, <2>1, <2>6, <2>8, UpdateListener
  <2>10. ReceivedFromDa'
    <3>1. \A x \in mqBlocks' : x.block \in BlocksOf(x.tx) /\ da[x.tx].kind = "ok"
      BY <1>0, <2>1, <2>3, <2>4, <2>7 DEF ReceivedFromDa
    <3> QED BY <2>1, <3>1 DEF ReceivedFromDa, BlocksOf
  <2>11. ASSUME NEW j \in listeners, NEW b \in Range(j.todo)
         PROVE  (\E i \in listeners' : b \in Range(i.todo)) \/ (\E x \in mqBlocks' : b = x.block)
    <3>1. CASE j = l /\ b = Head(l.todo)
      BY <2>1, <2>7, <3>1
    <3>2. CASE j = l /\ b \in Range(Tail(l.todo))
      BY <2>5, <2>9, <3>2
    <3>3. CASE j \in listeners'
      BY <2>11, <3>3
    <3> QED BY <2>3, <2>9, <2>11, <3>1, <3>2, <3>3
  <2> QED BY <1>0, <2>1, <2>9, <2>10, <2>11 DEF ConsumerGoes
<1>4. CASE Ack(l)
  <2>1. /\ l.todo = <<>> /\ (Update(l, Idle(l.gen)) \/ listeners' = listeners \ {l})
        /\ UNCHANGED <<da, consumer, queue, mqBlocks>>
    BY <1>4 DEF Ack, UpstreamUnchanged, pathVars, brokerVars
  <2>2. Proper(Idle(l.gen)) /\ Range(l.todo) = {}
    BY <1>1, <2>1, RangeEmpty DEF Proper, Idle, Listening
  <2>3. DeliveriesOfDa' /\ \A j \in listeners : j = l \/ j \in listeners'
    <3>1. CASE Update(l, Idle(l.gen))
      BY <1>0, <2>1, <2>2, <3>1, UpdateListener
    <3>2. CASE listeners' = listeners \ {l}
      <4>1. IsFiniteSet(listeners') /\ \A j \in listeners' : Proper(j)
        BY <1>0, <3>2, FS_Subset
      <4> QED BY <1>0, <2>1, <3>2, <4>1, ProperNext
    <3> QED BY <2>1, <3>1, <3>2
  <2>4. ReceivedFromDa'
    BY <1>0, <2>1 DEF ReceivedFromDa, BlocksOf
  <2> QED BY <1>0, <2>1, <2>2, <2>3, <2>4 DEF ConsumerGoes
<1> QED BY <1>2, <1>3, <1>4

\* All steps of the consumer.
LEMMA ConsumerStepGoes ==
  ASSUME RelayerDomains, PathKept, ConsumerMove
  PROVE  ConsumerGoes /\ UNCHANGED <<pathVars, lost, indexerVars>>
<1>0. DeliveriesOfDa /\ ReceivedFromDa /\ IndexerDomains /\ consumer \in ConsumerType
  BY ProperListeners DEF PathKept
<1>1. UNCHANGED <<pathVars, lost, indexerVars>>
  BY DEF ConsumerMove, ConsumerStep, ConsumerFault, Connect, SetupQueue, SetupFails,
       RetrySetup, SetupGivesUp, Reconnect, TakeDelivery, SendBlock, Ack, ConnectionCloses,
       ConsumerCloses, UpstreamUnchanged
<1>2. CASE Connect \/ RetrySetup \/ SetupGivesUp \/ Reconnect
  BY <1>0, <1>1, <1>2, ReconnectGoes
<1>3. CASE SetupQueue
  BY <1>0, <1>1, <1>3, SetupQueueGoes
<1>4. CASE SetupFails \/ ConnectionCloses \/ ConsumerCloses
  <2>1. ChannelCloses /\ UNCHANGED <<da, mqBlocks>>
    BY <1>1, <1>4 DEF SetupFails, ConnectionCloses, ConsumerCloses, pathVars
  <2>2. \/ consumer' = [consumer EXCEPT !.pc = "retry"]
        \/ consumer' = [consumer EXCEPT !.conn = FALSE]
        \/ \E pc \in {"returned", "panicked"} : consumer' = [consumer EXCEPT !.pc = pc, !.conn = FALSE]
    BY <1>4 DEF SetupFails, ConnectionCloses, ConsumerCloses
  <2>3. consumer' \in ConsumerType
    BY <1>0, <2>2 DEF ConsumerType
  <2> QED BY <1>0, <1>1, <2>1, <2>3, ChannelClosesGoes
<1>5. CASE \E l \in listeners : TakeDelivery(l) \/ SendBlock(l) \/ Ack(l)
  BY <1>1, <1>5, ListenGoes
<1> QED BY <1>1, <1>2, <1>3, <1>4, <1>5 DEF ConsumerMove, ConsumerStep, ConsumerFault

\* The steps of the consumer keep what is known of the path, and lose no block.
LEMMA ConsumerKeeps ==
  ASSUME RelayerDomains, PathKept, ConsumerMove
  PROVE  PathKept' /\ (AllPlaced => AllPlaced')
<1>1. /\ ConsumerGoes /\ UNCHANGED <<da, received, listener, start, lost>>
      /\ UNCHANGED <<cursor, blockQueue, candidates, validator, publishC>>
  BY ConsumerStepGoes DEF pathVars, indexerVars
<1>2. GivenUp' /\ IndexerDomains'
  BY <1>1 DEF PathKept, GivenUp, IndexerDomains, ConsumerGoes
<1>3. \A tx : (Succeeded(tx) => Succeeded(tx)') /\ BlocksOf(tx)' = BlocksOf(tx)
  BY <1>1 DEF Succeeded, BlocksOf
<1>4. HeldIncluded'
  <2>1. \A tx \in Range(queue') : tx \in 1..Len(da) /\ Succeeded(tx)
    <3> SUFFICES ASSUME NEW tx \in Range(queue') PROVE tx \in 1..Len(da) /\ Succeeded(tx)
      OBVIOUS
    <3>1. CASE tx \in Range(queue)
      BY <3>1 DEF PathKept, HeldIncluded, Held
    <3>2. CASE tx \in 1..Len(da) /\ da[tx].kind = "ok"
      BY <3>2 DEF Succeeded
    <3> QED BY <1>1, <3>1, <3>2 DEF ConsumerGoes
  <2>2. Held' \subseteq 1..Len(da')
    BY <1>1, <2>1 DEF PathKept, HeldIncluded, Held
  <2>3. \A tx \in Range(publishC) : Succeeded(tx)
    BY DEF PathKept, HeldIncluded
  <2>4. \A tx \in Range(publishC') \cup Range(queue') : Succeeded(tx)'
    BY <1>1, <1>3, <2>1, <2>3
  <2> QED BY <2>2, <2>4 DEF HeldIncluded
<1>5. DeliveriesOfDa' /\ ReceivedFromDa'
  BY <1>1 DEF ConsumerGoes
<1>6. ASSUME AllPlaced PROVE AllPlaced'
  <2> SUFFICES ASSUME NEW b \in Range(received) PROVE Placed(b)'
    BY <1>1 DEF AllPlaced
  <2>1. Placed(b)
    BY <1>6 DEF AllPlaced
  <2>2. ASSUME NEW tx \in Moving, b \in BlocksOf(tx) PROVE Placed(b)'
    <3>1. CASE tx \in Range(queue)
      <4>1. tx \in Range(queue') \/ \E l \in listeners' : b \in Range(l.todo)
        BY <1>1, <2>2, <3>1 DEF ConsumerGoes
      <4>2. tx \in Range(queue') => tx \in Moving' /\ b \in BlocksOf(tx)'
        BY <1>3, <2>2 DEF Moving, Held
      <4> QED BY <4>1, <4>2 DEF Placed
    <3>2. CASE tx \notin Range(queue)
      <4>1. tx \in Moving' /\ b \in BlocksOf(tx)'
        BY <1>1, <1>3, <2>2, <3>2 DEF Moving, Held
      <4> QED BY <4>1 DEF Placed
    <3> QED BY <3>1, <3>2
  <2>3. CASE \E l \in listeners : b \in Range(l.todo)
    BY <1>1, <2>3 DEF ConsumerGoes, Placed
  <2>4. CASE \E m \in mqBlocks : b = m.block
    BY <1>1, <2>4 DEF ConsumerGoes, Placed
  <2>5. CASE \/ b \in Range(listener.blocks) \/ b \in lost
             \/ start.pc = "submit" /\ b \in Range(start.batch)
    BY <1>1, <2>5 DEF Placed
  <2> QED BY <2>1, <2>2, <2>3, <2>4, <2>5 DEF Placed
<1> QED BY <1>2, <1>4, <1>5, <1>6 DEF PathKept

-----------------------------------------------------------------------------
(* The theorems *)

\* Nothing is on its way at the start.
LEMMA PathInitKept ==
  ASSUME PathInit
  PROVE  RelayerDomains /\ PathKept /\ AllPlaced
<1>1. RelayerDomains /\ GivenUp
  BY RelayerInitApart
<1>2. /\ IndexerInit /\ RelayerInit /\ listeners = {} /\ mqBlocks = {}
      /\ consumer = [pc |-> "dial", next |-> 1, conn |-> FALSE, gen |-> 0]
  BY DEF PathInit, IndexerInit
<1>3. /\ cursor = 0 /\ blockQueue = <<>> /\ candidates = <<>> /\ publishC = <<>> /\ queue = <<>>
      /\ validator = [running |-> TRUE, queue |-> <<>>]
  BY <1>2 DEF IndexerInit
<1>4. received = <<>>
  BY <1>2 DEF RelayerInit
<1>5. IndexerDomains
  <2>1. Len(da) \in Nat
    BY <1>1, SMT DEF RelayerDomains
  <2>2. 0 \in 0..Len(da) /\ Len(<<>>) = 0 /\ 0 <= ChannelSize /\ <<>> \in Seq(Nat)
    BY <2>1, IndexerAssumption, SMT
  <2>3. validator \in [running : BOOLEAN, queue : Seq(Nat)]
    BY <1>3, <2>2
  <2> QED BY <1>3, <2>2, <2>3 DEF IndexerDomains
<1>6. Held = {} /\ Range(publishC) \cup Range(queue) = {}
  BY <1>3, RangeEmpty DEF Held
<1>7. HeldIncluded
  BY <1>6 DEF HeldIncluded
<1>8. DeliveriesOfDa /\ ReceivedFromDa
  <2>1. IsFiniteSet({})
    BY FS_EmptySet
  <2>2. consumer \in ConsumerType
    BY <1>2 DEF ConsumerType
  <2> QED BY <1>2, <2>1, <2>2, ProperListeners DEF ReceivedFromDa
<1>9. AllPlaced
  BY <1>4, RangeEmpty DEF AllPlaced
<1> QED BY <1>1, <1>5, <1>7, <1>8, <1>9 DEF PathKept

\* Every step of the path keeps it, and loses no block.
LEMMA PathNextKept ==
  ASSUME RelayerDomains, PathKept, [PathNext]_daVars
  PROVE  RelayerDomains' /\ PathKept' /\ (AllPlaced => AllPlaced')
<1>1. RelayerDomains'
  BY RelayerOrNot, RelayerDomainsNext
<1>2. CASE /\ RelayerMove \/ UNCHANGED <<pathVars, lost>>
           /\ UNCHANGED <<indexerVars, brokerVars, consumerVars>>
  BY <1>1, <1>2, RelayerStepGoes, RelayerKeeps
<1>3. CASE IndexerMove /\ UNCHANGED consumerVars
  BY <1>1, <1>3, IndexerKeeps
<1>4. CASE ConsumerMove
  BY <1>1, <1>4, ConsumerKeeps
<1> QED BY <1>2, <1>3, <1>4, PathCases

\* A block reaches the attestor only under a transaction of NEAR DA that holds it
\* and was executed, for any number of blocks, rollups, failures and redeliveries:
\* the validator passes on no failed transaction, and a goroutine whose channel has
\* closed goes on under the transaction of its own delivery.
THEOREM ReceivedFromDaHolds == PathSpec => []ReceivedFromDa
<1> DEFINE J == RelayerDomains /\ PathKept
<1>1. PathInit => J
  BY PathInitKept
<1>2. J /\ [PathNext]_daVars => J'
  BY PathNextKept
<1>3. J => ReceivedFromDa
  BY DEF PathKept
<1> QED BY <1>1, <1>2, <1>3, PTL DEF PathSpec

\* A header that the relayer received is under way, has reached the attestor or was
\* given up where the code gives up, for any sizes of channels and batches and any
\* number of failures: batches, queues, flushes, redeliveries and acknowledgements
\* lose none.
THEOREM NoBlockVanishesHolds == PathSpec => []NoBlockVanishes
<1> DEFINE J == RelayerDomains /\ PathKept /\ AllPlaced
<1>1. PathInit => J
  BY PathInitKept
<1>2. J /\ [PathNext]_daVars => J'
  BY PathNextKept
<1>3. J => NoBlockVanishes
  BY PlacedIs DEF AllPlaced
<1> QED BY <1>1, <1>2, <1>3, PTL DEF PathSpec
====
