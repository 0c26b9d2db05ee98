---------------------- MODULE OperatorRegistrations_proofs ----------------------
(***************************************************************************)
(* Proofs about OperatorRegistrations over SafeClientLogs, for every set   *)
(* of logs, every size of chunk, range and cache, and every bound on       *)
(* blocks and faults.                                                      *)
(*                                                                         *)
(* The argument: what a subscription sent, what it took and did not send,  *)
(* what its proxy holds and what the filter found are parts of the chain's *)
(* order of its logs, and every log up to the newest block it looked at is *)
(* in one of them.  A log comes twice only out of the overlap of a         *)
(* resubscription, and the cache stops it there while it remembers it.     *)
(* The cache holds the last logs that were sent, so it forgets none while  *)
(* they fit in it.                                                         *)
(***************************************************************************)
EXTENDS OperatorRegistrations, TLAPS

\* A leaf that names no prover is Zenon's.
USE Zenon

-----------------------------------------------------------------------------
(* Logs in sequences *)

\* Numbers of logs and blocks.
LEMMA LogFacts ==
  /\ \A l \in Logs : l.id \in Nat /\ l.block \in Nat /\ l.block >= 1 /\ l.sub \in Subs
  /\ \A k, l \in Logs : k.id = l.id => k = l
  /\ \A k, l \in Logs : k.id < l.id => k.block <= l.block
  /\ \A k, l \in Logs : k.block < l.block => k.id < l.id
<1>1. \A l \in Logs : l.id \in Nat /\ l.block \in Nat /\ l.block >= 1 /\ l.sub \in Subs
  BY LogsAssumption, SMT
<1>2. \A k, l \in Logs : (k.id = l.id => k = l) /\ (k.id < l.id => k.block <= l.block)
  BY LogsAssumption
<1>3. ASSUME NEW k \in Logs, NEW l \in Logs, k.block < l.block
      PROVE  k.id < l.id
  <2>1. k.id < l.id \/ l.id < k.id \/ k.id = l.id
    BY <1>1, SMT
  <2>2. k # l
    BY <1>1, <1>3, SMT
  <2>3. ~(l.block <= k.block)
    BY <1>1, <1>3, SMT
  <2> QED BY <1>2, <2>1, <2>2, <2>3
<1> QED BY <1>1, <1>2, <1>3

\* The order of the chain is one.
LEMMA ChainOrder ==
  /\ \A j, k, l \in Logs : j.id < k.id /\ k.id < l.id => j.id < l.id
  /\ \A k, l \in Logs : k.id < l.id \/ k = l \/ l.id < k.id
  /\ \A l \in Logs : ~(l.id < l.id)
  /\ \A k, l \in Logs : ~(k.id < l.id /\ l.id < k.id)
<1>1. \A l \in Logs : l.id \in Nat
  BY LogFacts
<1>2. \A k, l \in Logs : k.id = l.id => k = l
  BY LogFacts
<1>3. \A k, l \in Logs : k.id < l.id \/ k.id = l.id \/ l.id < k.id
  BY <1>1, SMT
<1>4. \A j, k, l \in Logs : j.id < k.id /\ k.id < l.id => j.id < l.id
  BY <1>1, SMT
<1>5. \A l \in Logs : ~(l.id < l.id)
  BY <1>1, SMT
<1>6. \A k, l \in Logs : ~(k.id < l.id /\ l.id < k.id)
  BY <1>1, SMT
<1> QED BY <1>2, <1>3, <1>4, <1>5, <1>6

\* Nothing is in the empty sequence, one thing in a sequence of one.
LEMMA RangeSmall ==
  /\ Range(<<>>) = {}
  /\ \A x : Range(<<x>>) = {x}
BY SMT DEF Range

\* The elements of a sequence, by position.
LEMMA RangeSeq ==
  ASSUME NEW S, NEW q \in Seq(S)
  PROVE  /\ Range(q) = {q[k] : k \in 1..Len(q)}
         /\ Range(q) \subseteq S
         /\ Len(q) \in Nat
BY SMT DEF Range

\* A log is added at the end.
LEMMA LogAppended ==
  ASSUME NEW q \in Seq(Logs), NEW x \in Logs
  PROVE  /\ Append(q, x) \in Seq(Logs) /\ Len(Append(q, x)) = Len(q) + 1
         /\ \A k \in 1..Len(q) : Append(q, x)[k] = q[k]
         /\ Append(q, x)[Len(q) + 1] = x
         /\ Range(Append(q, x)) = Range(q) \cup {x}
         /\ Ascending(q) /\ (\A l \in Range(q) : l.id < x.id) => Ascending(Append(q, x))
<1>1. /\ Append(q, x) \in Seq(Logs) /\ Len(Append(q, x)) = Len(q) + 1 /\ Len(q) \in Nat
      /\ \A k \in 1..Len(q) : Append(q, x)[k] = q[k]
      /\ Append(q, x)[Len(q) + 1] = x
  BY SMT
<1>2. Range(Append(q, x)) = {Append(q, x)[k] : k \in 1..(Len(q) + 1)}
  BY <1>1, RangeSeq
<1>3. Range(q) = {q[k] : k \in 1..Len(q)}
  BY RangeSeq
<1>4. \A k : k \in 1..(Len(q) + 1) <=> k \in 1..Len(q) \/ k = Len(q) + 1
  BY <1>1, SMT
<1>5. ASSUME Ascending(q), \A l \in Range(q) : l.id < x.id PROVE Ascending(Append(q, x))
  <2> SUFFICES ASSUME NEW j \in 1..(Len(q) + 1), NEW k \in 1..(Len(q) + 1), j < k
               PROVE  Append(q, x)[j].id < Append(q, x)[k].id
    BY <1>1 DEF Ascending
  <2>1. j \in 1..Len(q)
    BY <1>1, SMT
  <2>2. CASE k \in 1..Len(q)
    BY <1>1, <1>5, <2>1, <2>2 DEF Ascending
  <2>3. CASE k = Len(q) + 1
    BY <1>1, <1>3, <1>5, <2>1, <2>3
  <2> QED BY <1>4, <2>2, <2>3
<1>6. Range(Append(q, x)) = Range(q) \cup {x}
  BY <1>1, <1>2, <1>3, <1>4
<1> QED BY <1>1, <1>5, <1>6

\* The first log is removed.
LEMMA LogTaken ==
  ASSUME NEW q \in Seq(Logs), q # <<>>
  PROVE  /\ Head(q) \in Logs /\ Tail(q) \in Seq(Logs)
         /\ Range(q) = {Head(q)} \cup Range(Tail(q))
         /\ Len(q) = 1 <=> Tail(q) = <<>>
         /\ Ascending(q) => /\ Ascending(Tail(q))
                            /\ \A l \in Range(Tail(q)) : Head(q).id < l.id
<1>1. /\ Tail(q) \in Seq(Logs) /\ Len(q) \in Nat /\ Len(q) >= 1 /\ Len(Tail(q)) = Len(q) - 1
      /\ Head(q) = q[1] /\ Head(q) \in Logs
      /\ \A k \in 1..(Len(q) - 1) : Tail(q)[k] = q[k + 1]
  BY SMT
<1>2. Len(q) = 1 <=> Tail(q) = <<>>
  BY <1>1, SMT
<1>3. Range(Tail(q)) = {Tail(q)[k] : k \in 1..(Len(q) - 1)}
  BY <1>1, RangeSeq
<1>4. Range(q) = {q[k] : k \in 1..Len(q)}
  BY RangeSeq
<1>5. \A k \in 1..Len(q) : k = 1 \/ (k - 1 \in 1..(Len(q) - 1) /\ q[k] = Tail(q)[k - 1])
  BY <1>1, SMT
<1>6. \A k \in 1..(Len(q) - 1) : k + 1 \in 1..Len(q) /\ Tail(q)[k] = q[k + 1] /\ 1 < k + 1
  BY <1>1, SMT
<1>7. 1 \in 1..Len(q)
  BY <1>1, SMT
<1>8. Range(q) = {Head(q)} \cup Range(Tail(q))
  <2>1. Range(q) \subseteq {Head(q)} \cup Range(Tail(q))
    BY <1>1, <1>3, <1>4, <1>5, SMT
  <2>2. {Head(q)} \cup Range(Tail(q)) \subseteq Range(q)
    BY <1>1, <1>3, <1>4, <1>6, <1>7
  <2> QED BY <2>1, <2>2
<1>9. ASSUME Ascending(q)
      PROVE  Ascending(Tail(q)) /\ \A l \in Range(Tail(q)) : Head(q).id < l.id
  <2>1. \A l \in Range(Tail(q)) : Head(q).id < l.id
    BY <1>1, <1>3, <1>6, <1>7, <1>9, ZenonT(30) DEF Ascending
  <2>2. ASSUME NEW j \in 1..(Len(q) - 1), NEW k \in 1..(Len(q) - 1), j < k
        PROVE  Tail(q)[j].id < Tail(q)[k].id
    <3>1. j + 1 < k + 1
      BY <2>2, SMT
    <3> QED BY <1>6, <1>9, <3>1 DEF Ascending
  <2> QED BY <1>1, <2>1, <2>2 DEF Ascending
<1> QED BY <1>1, <1>2, <1>8, <1>9

\* Logs after logs.
LEMMA LogsAppended ==
  ASSUME NEW q \in Seq(Logs), NEW r \in Seq(Logs)
  PROVE  /\ q \o r \in Seq(Logs) /\ Range(q \o r) = Range(q) \cup Range(r)
         /\ /\ Ascending(q) /\ Ascending(r)
            /\ \A k \in Range(q), l \in Range(r) : k.id < l.id
            => Ascending(q \o r)
<1>1. /\ q \o r \in Seq(Logs) /\ Len(q \o r) = Len(q) + Len(r)
      /\ Len(q) \in Nat /\ Len(r) \in Nat
      /\ \A k \in 1..Len(q) : (q \o r)[k] = q[k]
      /\ \A k \in 1..Len(r) : (q \o r)[Len(q) + k] = r[k]
  BY SMT
<1>2. Range(q \o r) = {(q \o r)[k] : k \in 1..(Len(q) + Len(r))}
  BY <1>1, RangeSeq
<1>3. Range(q) = {q[k] : k \in 1..Len(q)} /\ Range(r) = {r[k] : k \in 1..Len(r)}
  BY RangeSeq
<1>4. ASSUME NEW k \in 1..(Len(q) + Len(r))
      PROVE  \/ k \in 1..Len(q) /\ (q \o r)[k] = q[k]
             \/ k - Len(q) \in 1..Len(r) /\ (q \o r)[k] = r[k - Len(q)] /\ Len(q) < k
  <2>1. k \in 1..Len(q) \/ (k - Len(q) \in 1..Len(r) /\ Len(q) + (k - Len(q)) = k /\ Len(q) < k)
    BY <1>1, SMT
  <2>2. CASE k \in 1..Len(q)
    BY <1>1, <2>2
  <2>3. CASE k - Len(q) \in 1..Len(r) /\ Len(q) + (k - Len(q)) = k /\ Len(q) < k
    <3>1. (q \o r)[Len(q) + (k - Len(q))] = r[k - Len(q)]
      BY <1>1, <2>3
    <3> QED BY <2>3, <3>1
  <2> QED BY <2>1, <2>2, <2>3
<1>5. Range(q \o r) \subseteq Range(q) \cup Range(r)
  BY <1>2, <1>3, <1>4
<1>6. Range(q) \subseteq Range(q \o r)
  <2>1. \A k \in 1..Len(q) : k \in 1..(Len(q) + Len(r))
    BY <1>1, SMT
  <2> QED BY <1>1, <1>2, <1>3, <2>1
<1>7. Range(r) \subseteq Range(q \o r)
  <2>1. \A k \in 1..Len(r) : Len(q) + k \in 1..(Len(q) + Len(r))
    BY <1>1, SMT
  <2> QED BY <1>1, <1>2, <1>3, <2>1
<1>8. ASSUME Ascending(q), Ascending(r), \A k \in Range(q), l \in Range(r) : k.id < l.id
      PROVE  Ascending(q \o r)
  <2> SUFFICES ASSUME NEW j \in 1..(Len(q) + Len(r)), NEW k \in 1..(Len(q) + Len(r)), j < k
               PROVE  (q \o r)[j].id < (q \o r)[k].id
    BY <1>1 DEF Ascending
  <2>1. CASE j \in 1..Len(q) /\ k \in 1..Len(q)
    BY <1>1, <1>8, <2>1 DEF Ascending
  <2>2. CASE j \in 1..Len(q) /\ k \notin 1..Len(q)
    BY <1>1, <1>3, <1>4, <1>8, <2>2, ZenonT(30)
  <2>3. CASE j \notin 1..Len(q)
    <3>1. k \notin 1..Len(q) /\ j - Len(q) < k - Len(q)
      BY <1>1, <2>3, SMT
    <3> QED BY <1>4, <1>8, <2>3, <3>1 DEF Ascending
  <2> QED BY <2>1, <2>2, <2>3
<1> QED BY <1>1, <1>5, <1>6, <1>7, <1>8

\* What FilterLogs relies on (proved below, with what is known of finite sets).
FilterInOrder ==
  \A S \in SUBSET Logs :
    InChainOrder(S) \in Seq(Logs) /\ Range(InChainOrder(S)) = S /\ Ascending(InChainOrder(S))

\* What a node returns for a range of blocks.
LEMMA FilterLogsHolds ==
  ASSUME FilterInOrder, NEW s \in Subs, NEW from, NEW to
  PROVE  /\ FilterLogs(s, from, to) \in Seq(Logs)
         /\ Range(FilterLogs(s, from, to)) = LogsIn(s, from, to)
         /\ Ascending(FilterLogs(s, from, to))
<1>1. LogsIn(s, from, to) \in SUBSET Logs
  BY DEF LogsIn
<1> QED BY <1>1 DEF FilterInOrder, FilterLogs

-----------------------------------------------------------------------------
(* One subscription *)

\* What the invariant says of a subscription.
SubInv(s) ==
  /\ Places(s) /\ Streams(s) /\ Accounted(s)
  /\ NextInOrder(s) /\ Fetched(s) /\ OldBlocks(s)

\* A step does nothing to a subscription, although others may excuse logs.
Quiet(s) ==
  /\ height' = height /\ excused \subseteq excused'
  /\ sub'[s] = sub[s] /\ wire'[s] = wire[s] /\ proxyC'[s] = proxyC[s]
  /\ delivered'[s] = delivered[s]

\* The parts of a subscription.
LEMMA SubTypes ==
  ASSUME LogsDomains, NEW s \in Subs
  PROVE  /\ height \in Nat
         /\ sub[s].pc \in {"none", "opening", "select", "send", "height", "fetch"}
         /\ sub[s].live \in BOOLEAN /\ sub[s].start \in Nat /\ sub[s].lastBlock \in Nat
         /\ sub[s].from \in Nat /\ sub[s].to \in Nat
         /\ sub[s].todo \in Seq(Logs) /\ wire[s] \in Seq(Logs) /\ proxyC[s] \in Seq(Logs)
         /\ delivered[s] \in Seq(Logs) /\ logCache[s] \in Seq(Nat)
         /\ Range(sub[s].todo) \subseteq Logs /\ Range(wire[s]) \subseteq Logs
         /\ Range(proxyC[s]) \subseteq Logs /\ Range(delivered[s]) \subseteq Logs
<1>1. /\ height \in Nat
      /\ sub[s].pc \in {"none", "opening", "select", "send", "height", "fetch"}
      /\ sub[s].live \in BOOLEAN /\ sub[s].start \in Nat /\ sub[s].lastBlock \in Nat
      /\ sub[s].from \in Nat /\ sub[s].to \in Nat
      /\ sub[s].todo \in Seq(Logs) /\ wire[s] \in Seq(Logs) /\ proxyC[s] \in Seq(Logs)
      /\ delivered[s] \in Seq(Logs) /\ logCache[s] \in Seq(Nat)
  BY SMT DEF LogsDomains, SubRecords
<1> QED BY <1>1, RangeSeq

\* A subscription that a step leaves alone.
LEMMA QuietKeeps ==
  ASSUME NEW s \in Subs, Quiet(s), SubInv(s)
  PROVE  SubInv(s)'
<1>1. Waiting(s)' \subseteq Waiting(s)
  BY DEF Quiet, Waiting, Undelivered
<1>2. Places(s)' /\ Streams(s)' /\ OldBlocks(s)'
  <2>1. Places(s)'
    BY DEF Quiet, SubInv, Places, Opened
  <2>2. Streams(s)'
    BY DEF Quiet, SubInv, Streams, Opened
  <2>3. OldBlocks(s)'
    BY DEF Quiet, SubInv, OldBlocks
  <2> QED BY <2>1, <2>2, <2>3
<1>3. Accounted(s)'
  BY <1>1 DEF Quiet, SubInv, Accounted, Opened
<1>4. NextInOrder(s)'
  BY <1>1 DEF Quiet, SubInv, NextInOrder
<1>5. Fetched(s)'
  BY <1>1 DEF Quiet, SubInv, Fetched
<1> QED BY <1>2, <1>3, <1>4, <1>5 DEF SubInv

\* A block is mined: its logs come after all others.
LEMMA MineKeeps ==
  ASSUME FilterInOrder, LogsDomains, NEW s \in Subs, SubInv(s), Mine
  PROVE  SubInv(s)'
<1> DEFINE new == LogsIn(s, height', height')
<1>1. /\ height' = height + 1 /\ height \in Nat /\ height' \in Nat
      /\ sub' = sub /\ proxyC' = proxyC /\ delivered' = delivered /\ excused' = excused
      /\ wire'[s] = IF sub[s].live THEN wire[s] \o FilterLogs(s, height', height') ELSE wire[s]
  BY SMT DEF Mine, LogsDomains
<1>2. new \in SUBSET Logs /\ \A l \in new : l.sub = s /\ l.block = height'
  BY <1>1, SMT DEF LogsIn
<1>3. \A l \in new, k \in Logs : k.block <= height => k.id < l.id
  <2>1. ASSUME NEW l \in new, NEW k \in Logs, k.block <= height PROVE k.id < l.id
    <3>1. k.block \in Nat /\ l.block = height + 1
      BY <1>1, <1>2, LogFacts
    <3>2. k.block < l.block
      BY <1>1, <2>1, <3>1, SMT
    <3> QED BY <1>2, <3>2, LogFacts
  <2> QED BY <2>1
<1>4. Waiting(s)' \subseteq Waiting(s) \cup new
  <2> SUFFICES ASSUME NEW l \in Waiting(s)', l \notin Waiting(s) PROVE l \in new
    OBVIOUS
  <2>1. /\ l \in Logs /\ l.sub = s /\ l.block <= height'
        /\ ~(l.block <= height)
    BY <1>1 DEF Waiting, Undelivered
  <2>2. l.block \in Nat
    BY <2>1, LogFacts
  <2>3. l.block \in height'..height'
    BY <1>1, <2>1, <2>2, SMT
  <2> QED BY <2>1, <2>3 DEF LogsIn
<1>5. /\ FilterLogs(s, height', height') \in Seq(Logs)
      /\ Range(FilterLogs(s, height', height')) = new
      /\ Ascending(FilterLogs(s, height', height'))
  BY FilterLogsHolds
<1> HIDE DEF new
<1>6. /\ Range(wire'[s]) = IF sub[s].live THEN Range(wire[s]) \cup new ELSE Range(wire[s])
      /\ Ascending(wire'[s])
  <2>1. wire[s] \in Seq(Logs) /\ Range(wire[s]) \subseteq Logs
    BY SubTypes
  <2>2. Ascending(wire[s]) /\ \A l \in Range(wire[s]) : l.block <= height
    BY DEF SubInv, Streams
  <2>3. \A k \in Range(wire[s]), l \in new : k.id < l.id
    BY <1>3, <2>1, <2>2
  <2>4. CASE sub[s].live
    BY <1>1, <1>5, <2>1, <2>2, <2>3, <2>4, LogsAppended
  <2>5. CASE ~sub[s].live
    BY <1>1, <2>2, <2>5
  <2> QED BY <2>4, <2>5
<1>7. \A n \in Nat : n <= height => n <= height' /\ n < height'
  BY <1>1, SMT
<1>8. Places(s)'
  <2>1. ~sub[s].live => wire'[s] = <<>>
    BY <1>1 DEF SubInv, Places
  <2>2. /\ sub[s].start \in Nat /\ sub[s].lastBlock \in Nat /\ sub[s].to \in Nat
    BY SubTypes
  <2> QED BY <1>1, <1>7, <2>1, <2>2 DEF SubInv, Places, Opened
<1>9. Streams(s)'
  <2>1. /\ Range(proxyC[s]) \subseteq Logs /\ Range(wire[s]) \subseteq Logs
        /\ Range(sub[s].todo) \subseteq Logs
        /\ sub[s].start \in Nat
    BY SubTypes
  <2>2. \A l \in Logs : l.block <= height => l.block <= height'
    BY <1>7, LogFacts
  <2>3. sub[s].start < height' /\ height' <= height'
    BY <1>1, <1>7, <2>1, SMT DEF SubInv, Places
  <2>4. \A p \in Range(proxyC[s]), w \in Range(wire'[s]) : p.id < w.id
    BY <1>3, <1>6, <2>1 DEF SubInv, Streams
  <2>5. \A l \in Range(proxyC[s]) \cup Range(wire'[s]) :
           l.sub = s /\ sub[s].start < l.block /\ l.block <= height'
    BY <1>2, <1>6, <2>1, <2>2, <2>3 DEF SubInv, Streams
  <2>6. \A l \in Range(sub[s].todo) : l.sub = s /\ l.block <= height'
    BY <2>1, <2>2 DEF SubInv, Streams
  <2> QED BY <1>1, <1>6, <2>4, <2>5, <2>6 DEF SubInv, Streams, Opened
<1>10. Accounted(s)'
  <2> SUFFICES ASSUME NEW l \in Waiting(s)', Opened(s), sub[s].pc # "height"
               PROVE  \/ l \in Range(sub[s].todo) \cup Range(proxyC[s]) \cup Range(wire'[s])
                      \/ sub[s].pc = "fetch" /\ sub[s].from <= l.block /\ l.block <= sub[s].to
                      \/ ~sub[s].live /\ \A p \in Range(proxyC[s]) : p.id < l.id
    BY <1>1 DEF Accounted, Opened
  <2>1. Range(wire[s]) \subseteq Range(wire'[s])
    BY <1>6
  <2>2. CASE l \in Waiting(s)
    BY <2>1, <2>2 DEF SubInv, Accounted
  <2>3. CASE l \in new /\ sub[s].live
    BY <1>6, <2>3
  <2>4. CASE l \in new /\ ~sub[s].live
    <3>1. \A p \in Range(proxyC[s]) : p \in Logs /\ p.block <= height
      BY SubTypes DEF SubInv, Streams
    <3> QED BY <1>3, <2>4, <3>1
  <2> QED BY <1>4, <2>2, <2>3, <2>4
<1>11. NextInOrder(s)'
  <2>1. \A d \in Range(delivered[s]) : d \in Logs /\ d.block <= height
    <3>1. \A d \in Range(delivered[s]) : d \in Logs /\ d.block <= sub[s].lastBlock
      BY SubTypes DEF SubInv, Streams
    <3>2. sub[s].lastBlock <= height /\ sub[s].lastBlock \in Nat
      BY SubTypes DEF SubInv, Places
    <3>3. \A n \in Nat : n <= sub[s].lastBlock => n <= height
      BY <1>1, <3>2, SMT
    <3> QED BY <3>1, <3>3, LogFacts
  <2>2. \A t \in Range(sub[s].todo) : t \in Logs /\ t.block <= height
    BY SubTypes DEF SubInv, Streams
  <2>3. ASSUME NEW l \in new
        PROVE  /\ \A d \in Range(delivered[s]) : d.id < l.id
               /\ \A t \in Range(sub[s].todo) : t.id < l.id
    BY <1>3, <2>1, <2>2
  <2> QED BY <1>1, <1>4, <2>3 DEF SubInv, NextInOrder
<1>12. Fetched(s)'
  <2>1. ASSUME sub[s].pc = "fetch", NEW l \in new PROVE sub[s].from <= l.block
    <3>1. sub[s].from <= sub[s].to /\ sub[s].to <= height
      BY <2>1 DEF SubInv, Places
    <3>2. l.block = height + 1 /\ sub[s].from \in Nat /\ sub[s].to \in Nat
      BY <1>1, <1>2, SubTypes
    <3> QED BY <1>1, <3>1, <3>2, SMT
  <2> QED BY <1>1, <1>4, <2>1 DEF SubInv, Fetched
<1>13. OldBlocks(s)'
  BY <1>1 DEF SubInv, OldBlocks
<1> QED BY <1>8, <1>9, <1>10, <1>11, <1>12, <1>13 DEF SubInv

\* A log arrives.
LEMMA ArriveKeeps ==
  ASSUME LogsDomains, NEW s \in Subs, SubInv(s), Arrive(s)
  PROVE  SubInv(s)'
<1> DEFINE h == Head(wire[s])
<1>1. /\ height' = height /\ sub' = sub /\ delivered' = delivered /\ excused' = excused
      /\ wire'[s] = Tail(wire[s]) /\ proxyC'[s] = Append(proxyC[s], h)
      /\ wire[s] # <<>>
  BY DEF Arrive, LogsDomains
<1>2. sub[s].live /\ Opened(s)
  BY <1>1 DEF SubInv, Places
<1>3. wire[s] \in Seq(Logs) /\ proxyC[s] \in Seq(Logs)
  BY SubTypes
<1>4. /\ h \in Logs /\ Range(wire[s]) = {h} \cup Range(wire'[s])
      /\ Ascending(wire'[s]) /\ \A l \in Range(wire'[s]) : h.id < l.id
  BY <1>1, <1>3, LogTaken DEF SubInv, Streams
<1> HIDE DEF h
<1>5. \A p \in Range(proxyC[s]), w \in Range(wire[s]) : p.id < w.id
  BY DEF SubInv, Streams
<1>6. Range(proxyC'[s]) = Range(proxyC[s]) \cup {h} /\ Ascending(proxyC'[s])
  <2>1. \A p \in Range(proxyC[s]) : p.id < h.id
    BY <1>4, <1>5
  <2>2. Ascending(proxyC[s])
    BY DEF SubInv, Streams
  <2>3. /\ Range(Append(proxyC[s], h)) = Range(proxyC[s]) \cup {h}
        /\ Ascending(Append(proxyC[s], h))
    BY <1>3, <1>4, <2>1, <2>2, LogAppended
  <2> QED BY <1>1, <2>3
<1>7. Waiting(s)' = Waiting(s)
  BY <1>1 DEF Waiting, Undelivered
<1>8. Places(s)'
  BY <1>1, <1>2 DEF SubInv, Places, Opened
<1>9. Streams(s)'
  <2>1. \A p \in Range(proxyC'[s]), w \in Range(wire'[s]) : p.id < w.id
    BY <1>4, <1>5, <1>6
  <2>2. \A l \in Range(proxyC'[s]) \cup Range(wire'[s]) :
           l.sub = s /\ sub[s].start < l.block /\ l.block <= height
    BY <1>4, <1>6 DEF SubInv, Streams
  <2> QED BY <1>1, <1>4, <1>6, <2>1, <2>2 DEF SubInv, Streams, Opened
<1>10. Accounted(s)'
  BY <1>1, <1>2, <1>4, <1>6, <1>7, ZenonT(30) DEF SubInv, Accounted, Opened
<1>11. NextInOrder(s)'
  BY <1>1, <1>7 DEF SubInv, NextInOrder
<1>12. Fetched(s)' /\ OldBlocks(s)'
  BY <1>1, <1>7 DEF SubInv, Fetched, OldBlocks
<1> QED BY <1>8, <1>9, <1>10, <1>11, <1>12 DEF SubInv

\* The connection is lost, with the logs that come after those in proxyC.
LEMMA DisconnectKeeps ==
  ASSUME LogsDomains, NEW s \in Subs, SubInv(s), Disconnect(s)
  PROVE  SubInv(s)'
<1>1. /\ height' = height /\ delivered' = delivered /\ excused' = excused /\ proxyC' = proxyC
      /\ wire'[s] = <<>> /\ sub[s].live
  BY DEF Disconnect, LogsDomains
<1>2. /\ sub'[s].pc = sub[s].pc /\ sub'[s].live = FALSE /\ sub'[s].start = sub[s].start
      /\ sub'[s].lastBlock = sub[s].lastBlock /\ sub'[s].from = sub[s].from
      /\ sub'[s].to = sub[s].to /\ sub'[s].todo = sub[s].todo
  BY SMT DEF Disconnect, LogsDomains, SubRecords
<1>3. Opened(s)
  BY <1>1 DEF SubInv, Places
<1>4. Waiting(s)' = Waiting(s)
  BY <1>1, <1>2 DEF Waiting, Undelivered
<1>5. Places(s)'
  BY <1>1, <1>2, <1>3 DEF SubInv, Places, Opened
<1>6. Range(wire'[s]) = {} /\ Ascending(wire'[s])
  <2>1. Ascending(<<>>)
    BY SMT DEF Ascending
  <2> QED BY <1>1, <2>1, RangeSmall
<1>7. Streams(s)'
  BY <1>1, <1>2, <1>3, <1>6 DEF SubInv, Streams, Opened
<1>8. Accounted(s)'
  <2>1. \A p \in Range(proxyC[s]), w \in Range(wire[s]) : p.id < w.id
    BY DEF SubInv, Streams
  <2> SUFFICES ASSUME NEW l \in Waiting(s), sub[s].pc # "height",
                      l \notin Range(sub[s].todo) \cup Range(proxyC[s]),
                      ~(sub[s].pc = "fetch" /\ sub[s].from <= l.block /\ l.block <= sub[s].to)
               PROVE  \A p \in Range(proxyC[s]) : p.id < l.id
    BY <1>1, <1>2, <1>4 DEF Accounted
  <2>2. l \in Range(wire[s])
    BY <1>1, <1>3 DEF SubInv, Accounted
  <2> QED BY <2>1, <2>2
<1>9. NextInOrder(s)'
  BY <1>1, <1>2, <1>4 DEF SubInv, NextInOrder
<1>10. Fetched(s)'
  BY <1>1, <1>2, <1>4 DEF SubInv, Fetched
<1>11. OldBlocks(s)'
  BY <1>1, <1>2 DEF SubInv, OldBlocks
<1> QED BY <1>5, <1>7, <1>8, <1>9, <1>10, <1>11 DEF SubInv

\* The number of the current block is read.
LEMMA SubscribeBeginKeeps ==
  ASSUME LogsDomains, NEW s \in Subs, SubInv(s), SubscribeBegin(s)
  PROVE  SubInv(s)'
<1>1. /\ height' = height /\ delivered' = delivered /\ excused' = excused /\ proxyC' = proxyC
      /\ wire' = wire /\ sub[s].pc = "none"
  BY DEF SubscribeBegin
<1>2. /\ sub'[s].pc = "opening" /\ sub'[s].live = sub[s].live /\ sub'[s].start = sub[s].start
      /\ sub'[s].lastBlock = height /\ sub'[s].todo = sub[s].todo
  BY SMT DEF SubscribeBegin, LogsDomains, SubRecords
<1>3. height <= height
  BY SMT DEF LogsDomains
<1>4. /\ delivered[s] = <<>> /\ sub[s].todo = <<>> /\ proxyC[s] = <<>>
      /\ sub[s].start = 0 /\ ~sub[s].live /\ wire[s] = <<>>
  BY <1>1 DEF SubInv, Places, Opened
<1>5. Range(delivered[s]) = {}
  BY <1>4, RangeSmall
<1>6. Places(s)'
  BY <1>1, <1>2, <1>3, <1>4 DEF SubInv, Places, Opened
<1>7. Streams(s)'
  BY <1>1, <1>2, <1>5 DEF SubInv, Streams, Opened
<1>8. Accounted(s)' /\ Fetched(s)'
  BY <1>2 DEF Accounted, Opened, Fetched
<1>9. NextInOrder(s)'
  BY <1>1, <1>2, <1>5 DEF NextInOrder
<1>10. OldBlocks(s)'
  BY <1>1, <1>2, <1>5 DEF OldBlocks
<1> QED BY <1>6, <1>7, <1>8, <1>9, <1>10 DEF SubInv

\* The subscription begins after the current block.
LEMMA SubscribeEndKeeps ==
  ASSUME LogsDomains, NEW s \in Subs, SubInv(s), SubscribeEnd(s)
  PROVE  SubInv(s)'
<1>1. /\ height' = height /\ delivered' = delivered /\ excused' = excused /\ proxyC' = proxyC
      /\ wire' = wire /\ sub[s].pc = "opening"
  BY DEF SubscribeEnd
<1>2. /\ sub'[s].pc = "select" /\ sub'[s].live = TRUE /\ sub'[s].start = height
      /\ sub'[s].lastBlock = sub[s].lastBlock /\ sub'[s].todo = sub[s].todo
  BY SMT DEF SubscribeEnd, LogsDomains, SubRecords
<1>3. height <= height /\ \A n \in Nat : ~(height < n /\ n <= height)
  BY SMT DEF LogsDomains
<1>4. /\ delivered[s] = <<>> /\ sub[s].todo = <<>> /\ proxyC[s] = <<>> /\ wire[s] = <<>>
      /\ sub[s].lastBlock <= height
  BY <1>1 DEF SubInv, Places, Opened
<1>5. Range(delivered[s]) = {} /\ Range(proxyC[s]) = {} /\ Range(wire[s]) = {}
  BY <1>4, RangeSmall
<1>6. Places(s)'
  BY <1>1, <1>2, <1>3, <1>4 DEF Places, Opened
<1>7. Streams(s)'
  BY <1>1, <1>2, <1>4, <1>5 DEF SubInv, Streams
<1>8. Waiting(s)' = {}
  BY <1>1, <1>2, <1>3, LogFacts DEF Waiting, Undelivered
<1>9. Accounted(s)' /\ Fetched(s)'
  BY <1>2, <1>8 DEF Accounted, Fetched
<1>10. NextInOrder(s)'
  BY <1>2, <1>8 DEF NextInOrder
<1>11. OldBlocks(s)'
  BY <1>1, <1>2, <1>5 DEF OldBlocks
<1> QED BY <1>6, <1>7, <1>9, <1>10, <1>11 DEF SubInv

\* A log is taken from proxyC.  No log that was not sent comes before it.
LEMMA TakeLogKeeps ==
  ASSUME LogsDomains, NEW s \in Subs, SubInv(s), TakeLog(s)
  PROVE  SubInv(s)'
<1> DEFINE h == Head(proxyC[s])
<1>1. /\ height' = height /\ delivered' = delivered /\ excused' = excused /\ wire' = wire
      /\ proxyC'[s] = Tail(proxyC[s]) /\ proxyC[s] # <<>> /\ sub[s].pc = "select"
  BY DEF TakeLog, LogsDomains
<1>2. /\ sub'[s].pc = "send" /\ sub'[s].live = sub[s].live /\ sub'[s].start = sub[s].start
      /\ sub'[s].lastBlock = sub[s].lastBlock /\ sub'[s].todo = <<h>>
  BY SMT DEF TakeLog, LogsDomains, SubRecords
<1>3. /\ h \in Logs /\ Range(proxyC[s]) = {h} \cup Range(proxyC'[s])
      /\ Ascending(proxyC'[s]) /\ \A l \in Range(proxyC'[s]) : h.id < l.id
  <2>1. proxyC[s] \in Seq(Logs)
    BY SubTypes
  <2>2. Ascending(proxyC[s])
    BY DEF SubInv, Streams
  <2> QED BY <1>1, <2>1, <2>2, LogTaken
<1> HIDE DEF h
<1>4. Range(sub'[s].todo) = {h} /\ Ascending(sub'[s].todo) /\ sub'[s].todo # <<>>
  <2>1. Ascending(<<h>>) /\ <<h>> # <<>>
    BY SMT DEF Ascending
  <2> QED BY <1>2, <2>1, RangeSmall
<1>5. sub[s].todo = <<>> /\ Range(sub[s].todo) = {} /\ Opened(s)
  BY <1>1, RangeSmall DEF SubInv, Places, Opened
<1>6. Waiting(s)' = Waiting(s)
  BY <1>1, <1>2 DEF Waiting, Undelivered
<1>7. h.sub = s /\ sub[s].start < h.block /\ h.block <= height
  BY <1>3 DEF SubInv, Streams
<1>8. ASSUME NEW m \in Waiting(s), m # h PROVE h.id < m.id
  <2>1. \A w \in Range(wire[s]) : h.id < w.id
    BY <1>3 DEF SubInv, Streams
  <2>2. \/ m \in Range(proxyC'[s]) \/ m \in Range(wire[s])
        \/ \A p \in Range(proxyC[s]) : p.id < m.id
    BY <1>1, <1>3, <1>5, <1>8 DEF SubInv, Accounted
  <2> QED BY <1>3, <2>1, <2>2
<1>9. Places(s)'
  BY <1>1, <1>2, <1>4, <1>5 DEF SubInv, Places, Opened
<1>10. Streams(s)'
  BY <1>1, <1>2, <1>3, <1>4, <1>5, <1>7 DEF SubInv, Streams, Opened
<1>11. Accounted(s)'
  BY <1>1, <1>2, <1>3, <1>4, <1>5, <1>6 DEF SubInv, Accounted
<1>12. NextInOrder(s)'
  <2>1. \A l \in Waiting(s), d \in Range(delivered[s]) : d.id < l.id
    BY DEF SubInv, NextInOrder
  <2>2. h \in Range(delivered[s]) \cup excused \/ h \in Waiting(s)
    BY <1>3, <1>7 DEF Waiting, Undelivered
  <2> QED BY <1>1, <1>4, <1>6, <1>8, <2>1, <2>2 DEF NextInOrder
<1>13. Fetched(s)'
  BY <1>2 DEF Fetched
<1>14. OldBlocks(s)'
  <2>1. LogsIn(s, h.block, sub[s].start) = {}
    <3>1. h.block \in Nat /\ sub[s].start \in Nat
      BY <1>3, LogFacts, SubTypes
    <3>2. \A n : n \notin h.block..sub[s].start
      BY <1>7, <3>1, SMT
    <3> QED BY <3>2 DEF LogsIn
  <2>2. \A d \in Range(delivered[s]) : \A l \in LogsIn(s, d.block, sub[s].start) :
           l \in Range(delivered[s])
    BY <1>1 DEF SubInv, OldBlocks
  <2> QED BY <1>1, <1>2, <1>4, <2>1, <2>2 DEF OldBlocks
<1> QED BY <1>9, <1>10, <1>11, <1>12, <1>13, <1>14 DEF SubInv

\* The rest of what is to be sent.
LEMMA RestGoes ==
  ASSUME LogsDomains, NEW s \in Subs, sub[s].pc = "send", SubInv(s)
  PROVE  /\ Rest(s).pc = (IF Rest(s).todo = <<>> THEN "select" ELSE "send")
         /\ Rest(s).todo = Tail(sub[s].todo)
         /\ Rest(s).live = sub[s].live /\ Rest(s).start = sub[s].start
         /\ Rest(s).lastBlock = sub[s].lastBlock
         /\ Rest(s).from = sub[s].from /\ Rest(s).to = sub[s].to
         /\ Rest(s) \in SubRecords
         /\ Head(sub[s].todo) \in Logs
         /\ Range(sub[s].todo) = {Head(sub[s].todo)} \cup Range(Rest(s).todo)
         /\ Ascending(Rest(s).todo)
         /\ \A l \in Range(Rest(s).todo) : Head(sub[s].todo).id < l.id
<1>1. sub[s].todo \in Seq(Logs) /\ sub[s].todo # <<>> /\ Ascending(sub[s].todo)
  BY SubTypes DEF SubInv, Places, Streams
<1>2. /\ Head(sub[s].todo) \in Logs /\ Tail(sub[s].todo) \in Seq(Logs)
      /\ Range(sub[s].todo) = {Head(sub[s].todo)} \cup Range(Tail(sub[s].todo))
      /\ Len(sub[s].todo) = 1 <=> Tail(sub[s].todo) = <<>>
      /\ Ascending(Tail(sub[s].todo))
      /\ \A l \in Range(Tail(sub[s].todo)) : Head(sub[s].todo).id < l.id
  BY <1>1, LogTaken
<1>3. sub[s] \in SubRecords
  BY DEF LogsDomains
<1>4. CASE Len(sub[s].todo) = 1
  <2>1. Rest(s) = [sub[s] EXCEPT !.pc = "select", !.todo = <<>>] /\ Tail(sub[s].todo) = <<>>
    BY <1>2, <1>4 DEF Rest
  <2>2. /\ Rest(s).pc = "select" /\ Rest(s).todo = <<>>
        /\ Rest(s).live = sub[s].live /\ Rest(s).start = sub[s].start
        /\ Rest(s).lastBlock = sub[s].lastBlock
        /\ Rest(s).from = sub[s].from /\ Rest(s).to = sub[s].to
    BY <1>3, <2>1, SMT DEF SubRecords
  <2>3. Rest(s) \in SubRecords
    BY <1>2, <1>3, <2>1, ZenonT(30) DEF SubRecords
  <2> QED BY <1>2, <2>1, <2>2, <2>3
<1>5. CASE Len(sub[s].todo) # 1
  <2>1. Rest(s) = [sub[s] EXCEPT !.todo = Tail(sub[s].todo)] /\ Tail(sub[s].todo) # <<>>
    BY <1>2, <1>5 DEF Rest
  <2>2. /\ Rest(s).pc = "send" /\ Rest(s).todo = Tail(sub[s].todo)
        /\ Rest(s).live = sub[s].live /\ Rest(s).start = sub[s].start
        /\ Rest(s).lastBlock = sub[s].lastBlock
        /\ Rest(s).from = sub[s].from /\ Rest(s).to = sub[s].to
    BY <1>2, <1>3, <2>1, SMT DEF SubRecords
  <2>3. Rest(s) \in SubRecords
    BY <1>2, <1>3, <2>1 DEF SubRecords
  <2> QED BY <1>2, <2>1, <2>2, <2>3
<1> QED BY <1>4, <1>5

\* A log that the cache knows is skipped: it was sent.
LEMMA SkipLogKeeps ==
  ASSUME LogsDomains, NEW s \in Subs, SubInv(s), SkipLog(s)
  PROVE  SubInv(s)'
<1> DEFINE h == Head(sub[s].todo)
<1>1. /\ height' = height /\ delivered' = delivered /\ excused' = excused /\ wire' = wire
      /\ proxyC' = proxyC /\ sub[s].pc = "send" /\ h.id \in Range(logCache[s])
      /\ sub'[s] = Rest(s)
  BY DEF SkipLog, LogsDomains, tryCacheLog
<1>2. /\ sub'[s].pc = (IF sub'[s].todo = <<>> THEN "select" ELSE "send")
      /\ sub'[s].live = sub[s].live /\ sub'[s].start = sub[s].start
      /\ sub'[s].lastBlock = sub[s].lastBlock
      /\ h \in Logs /\ Range(sub[s].todo) = {h} \cup Range(sub'[s].todo)
      /\ Ascending(sub'[s].todo)
  BY <1>1, RestGoes
<1>3. h \in Range(delivered[s])
  <2>1. PICK d \in Range(delivered[s]) : d.id = h.id
    BY <1>1 DEF LogsDomains
  <2>2. d \in Logs
    BY SubTypes
  <2> QED BY <1>2, <2>1, <2>2, LogFacts
<1> HIDE DEF h
<1>4. Waiting(s)' = Waiting(s) /\ h \notin Waiting(s)
  BY <1>1, <1>2, <1>3 DEF Waiting, Undelivered
<1>5. Opened(s) /\ Opened(s)' /\ sub'[s].pc \in {"select", "send"}
  BY <1>1, <1>2 DEF Opened
<1>6. Places(s)'
  BY <1>1, <1>2, <1>5 DEF SubInv, Places
<1>7. Streams(s)'
  BY <1>1, <1>2, <1>5 DEF SubInv, Streams
<1>8. Accounted(s)'
  BY <1>1, <1>2, <1>4, <1>5 DEF SubInv, Accounted
<1>9. NextInOrder(s)'
  BY <1>1, <1>2, <1>4 DEF SubInv, NextInOrder
<1>10. Fetched(s)'
  BY <1>5 DEF Fetched
<1>11. OldBlocks(s)'
  <2>1. sub'[s].pc = "select" => Range(sub'[s].todo) = {}
    BY <1>2, RangeSmall
  <2>2. \A d \in Range(delivered[s]) \cup Range(sub[s].todo) :
           \A l \in LogsIn(s, d.block, sub[s].start) :
             l \in Range(delivered[s]) \cup Range(sub[s].todo)
    BY <1>1 DEF SubInv, OldBlocks
  <2>3. Range(delivered[s]) \cup Range(sub[s].todo)
        = Range(delivered[s]) \cup (IF sub'[s].pc = "send" THEN Range(sub'[s].todo) ELSE {})
    BY <1>2, <1>3, <1>5, <2>1
  <2> QED BY <1>1, <1>2, <2>2, <2>3 DEF OldBlocks
<1> QED BY <1>6, <1>7, <1>8, <1>9, <1>10, <1>11 DEF SubInv

\* A log is sent for the first time, after all that came before it.
LEMMA SendLogKeeps ==
  ASSUME LogsDomains, NEW s \in Subs, SubInv(s), NEW l \in Logs, SendLog(s, l), Remembered
  PROVE  /\ SubInv(s)'
         /\ l \notin Range(delivered[s])
         /\ \A d \in Range(delivered[s]) : d.id < l.id \/ l \in excused
<1>1. /\ height' = height /\ excused' = excused /\ wire' = wire /\ proxyC' = proxyC
      /\ sub[s].pc = "send" /\ l = Head(sub[s].todo) /\ l.id \notin Range(logCache[s])
      /\ delivered'[s] = Append(delivered[s], l)
      /\ sub'[s] = [Rest(s) EXCEPT !.lastBlock = Larger(Rest(s).lastBlock, l.block)]
  BY DEF SendLog, LogsDomains, tryCacheLog
<1>2. /\ Rest(s).pc = (IF Rest(s).todo = <<>> THEN "select" ELSE "send")
      /\ Rest(s).live = sub[s].live /\ Rest(s).start = sub[s].start
      /\ Rest(s).lastBlock = sub[s].lastBlock
      /\ Rest(s) \in SubRecords
  BY <1>1, RestGoes
<1>3. /\ Range(sub[s].todo) = {l} \cup Range(Rest(s).todo)
      /\ Ascending(Rest(s).todo) /\ \A t \in Range(Rest(s).todo) : l.id < t.id
  BY <1>1, RestGoes
<1>4. /\ sub'[s].pc = Rest(s).pc /\ sub'[s].todo = Rest(s).todo
      /\ sub'[s].live = sub[s].live /\ sub'[s].start = sub[s].start
      /\ sub'[s].lastBlock = Larger(sub[s].lastBlock, l.block)
  BY <1>1, <1>2, SMT DEF SubRecords
<1>5. Range(delivered'[s]) = Range(delivered[s]) \cup {l}
  <2>1. delivered[s] \in Seq(Logs)
    BY SubTypes
  <2>2. Range(Append(delivered[s], l)) = Range(delivered[s]) \cup {l}
    BY <2>1, LogAppended
  <2> QED BY <1>1, <2>2
<1>6. l \notin Range(delivered[s])
  BY <1>1, <1>3 DEF Remembered
<1>7. /\ Opened(s) /\ Opened(s)' /\ sub'[s].pc \in {"select", "send"}
      /\ sub'[s].pc = "select" <=> sub'[s].todo = <<>>
  BY <1>1, <1>2, <1>4 DEF Opened
<1>8. Waiting(s)' = Waiting(s) \ {l}
  BY <1>1, <1>4, <1>5 DEF Waiting, Undelivered
<1>9. l.block \in Nat /\ sub[s].lastBlock \in Nat /\ height \in Nat
  BY LogFacts, SubTypes
<1>10. l.sub = s /\ l.block <= height /\ sub[s].lastBlock <= height
  BY <1>3 DEF SubInv, Streams, Places
<1>11. /\ sub'[s].lastBlock <= height
       /\ l.block <= sub'[s].lastBlock
       /\ sub'[s].lastBlock = sub[s].lastBlock \/ sub'[s].lastBlock = l.block
       /\ \A n \in Nat : n <= sub[s].lastBlock => n <= sub'[s].lastBlock
  BY <1>4, <1>9, <1>10, SMT DEF Larger
<1>12. \A d \in Range(delivered[s]) : d.id < l.id \/ l \in excused
  BY <1>1, <1>3, <1>6 DEF SubInv, NextInOrder
<1>13. Places(s)'
  BY <1>1, <1>4, <1>7, <1>11 DEF SubInv, Places
<1>14. Streams(s)'
  <2>1. \A d \in Range(delivered'[s]) : d.sub = s /\ d.block <= sub'[s].lastBlock
    <3>1. \A d \in Range(delivered[s]) : d.sub = s /\ d.block <= sub[s].lastBlock /\ d.block \in Nat
      BY SubTypes, LogFacts DEF SubInv, Streams
    <3> QED BY <1>5, <1>10, <1>11, <3>1
  <2>2. sub'[s].lastBlock <= sub'[s].start
        \/ \E d \in Range(delivered'[s]) : d.block = sub'[s].lastBlock
    BY <1>4, <1>5, <1>7, <1>11 DEF SubInv, Streams
  <2> QED BY <1>1, <1>3, <1>4, <2>1, <2>2 DEF SubInv, Streams
<1>15. Accounted(s)'
  BY <1>1, <1>3, <1>4, <1>7, <1>8 DEF SubInv, Accounted
<1>16. NextInOrder(s)'
  <2>1. \A m \in Waiting(s)' : m \in Range(Rest(s).todo) \/ \A t \in Range(sub[s].todo) : t.id < m.id
    BY <1>1, <1>3, <1>8 DEF SubInv, NextInOrder
  <2>2. \A m \in Waiting(s)' : l.id < m.id
    BY <1>3, <2>1
  <2>3. \A m \in Waiting(s)', d \in Range(delivered'[s]) : d.id < m.id
    BY <1>5, <1>8, <2>2 DEF SubInv, NextInOrder
  <2>4. \A t \in Range(Rest(s).todo), d \in Range(delivered'[s]) :
           t \in Range(delivered'[s]) \cup excused \/ d.id < t.id
    BY <1>1, <1>3, <1>5 DEF SubInv, NextInOrder
  <2> QED BY <1>1, <1>3, <1>4, <2>1, <2>3, <2>4 DEF NextInOrder
<1>17. Fetched(s)'
  BY <1>7 DEF Fetched
<1>18. OldBlocks(s)'
  <2>1. sub'[s].pc = "select" => Range(sub'[s].todo) = {}
    BY <1>7, RangeSmall
  <2>2. \A d \in Range(delivered[s]) \cup Range(sub[s].todo) :
           \A k \in LogsIn(s, d.block, sub[s].start) :
             k \in Range(delivered[s]) \cup Range(sub[s].todo)
    BY <1>1 DEF SubInv, OldBlocks
  <2>3. Range(delivered[s]) \cup Range(sub[s].todo)
        = Range(delivered'[s]) \cup (IF sub'[s].pc = "send" THEN Range(sub'[s].todo) ELSE {})
    BY <1>3, <1>4, <1>5, <1>7, <2>1
  <2> QED BY <1>4, <2>2, <2>3 DEF OldBlocks
<1> QED BY <1>6, <1>12, <1>13, <1>14, <1>15, <1>16, <1>17, <1>18 DEF SubInv

\* A new underlying subscription: what the old one had under way is lost.
LEMMA ResubscribeKeeps ==
  ASSUME LogsDomains, NEW s \in Subs, SubInv(s), Resubscribe(s)
  PROVE  SubInv(s)'
<1>1. /\ height' = height /\ delivered' = delivered /\ excused' = excused /\ proxyC' = proxyC
      /\ wire'[s] = <<>> /\ sub[s].pc = "select"
  BY DEF Resubscribe, LogsDomains
<1>2. /\ sub'[s].pc = "height" /\ sub'[s].live = TRUE /\ sub'[s].start = sub[s].start
      /\ sub'[s].lastBlock = sub[s].lastBlock /\ sub'[s].todo = sub[s].todo
  BY SMT DEF Resubscribe, LogsDomains, SubRecords
<1>3. Opened(s) /\ Opened(s)'
  BY <1>1, <1>2 DEF Opened
<1>4. Waiting(s)' = Waiting(s)
  BY <1>1, <1>2 DEF Waiting, Undelivered
<1>5. Range(wire'[s]) = {} /\ Ascending(wire'[s])
  <2>1. Ascending(<<>>)
    BY SMT DEF Ascending
  <2> QED BY <1>1, <2>1, RangeSmall
<1>6. Places(s)'
  BY <1>1, <1>2, <1>3 DEF SubInv, Places
<1>7. Streams(s)'
  BY <1>1, <1>2, <1>3, <1>5 DEF SubInv, Streams
<1>8. Accounted(s)' /\ Fetched(s)'
  BY <1>2 DEF Accounted, Fetched
<1>9. NextInOrder(s)'
  BY <1>1, <1>2, <1>4 DEF SubInv, NextInOrder
<1>10. OldBlocks(s)'
  BY <1>1, <1>2 DEF SubInv, OldBlocks
<1> QED BY <1>6, <1>7, <1>8, <1>9, <1>10 DEF SubInv

\* A fetch that does not happen: the logs that are not under way are excused.
LEMMA NoFetchKeeps ==
  ASSUME LogsDomains, NEW s \in Subs, SubInv(s), sub[s].pc \in {"height", "fetch"},
         height' = height, delivered' = delivered, proxyC' = proxyC, wire' = wire,
         excused' = excused \cup Missing(s),
         sub'[s].pc = "select", sub'[s].live = sub[s].live, sub'[s].start = sub[s].start,
         sub'[s].lastBlock = sub[s].lastBlock, sub'[s].todo = <<>>
  PROVE  SubInv(s)'
<1>1. Opened(s) /\ Opened(s)'
  BY DEF Opened
<1>2. Range(sub'[s].todo) = {} /\ Ascending(sub'[s].todo)
  <2>1. Ascending(<<>>)
    BY SMT DEF Ascending
  <2> QED BY <2>1, RangeSmall
<1>3. Waiting(s)' \subseteq Waiting(s) /\ Waiting(s)' \subseteq Range(proxyC[s]) \cup Range(wire[s])
  BY DEF Waiting, Undelivered, Missing
<1>4. Places(s)'
  BY <1>1 DEF SubInv, Places
<1>5. Streams(s)'
  BY <1>1, <1>2 DEF SubInv, Streams
<1>6. Accounted(s)' /\ Fetched(s)'
  BY <1>3 DEF Accounted, Fetched
<1>7. NextInOrder(s)'
  BY <1>3 DEF SubInv, NextInOrder
<1>8. OldBlocks(s)'
  BY DEF SubInv, OldBlocks
<1> QED BY <1>4, <1>5, <1>6, <1>7, <1>8 DEF SubInv

\* A call of resub fails.
LEMMA ResubFailsKeeps ==
  ASSUME LogsDomains, NEW s \in Subs, SubInv(s), ResubFails(s)
  PROVE  SubInv(s)'
<1>1. /\ height' = height /\ delivered' = delivered /\ proxyC' = proxyC /\ wire' = wire
      /\ excused' = excused \cup Missing(s) /\ sub[s].pc \in {"height", "fetch"}
  BY DEF ResubFails
<1>2. /\ sub'[s].pc = "select" /\ sub'[s].live = sub[s].live /\ sub'[s].start = sub[s].start
      /\ sub'[s].lastBlock = sub[s].lastBlock /\ sub'[s].todo = <<>>
  BY SMT DEF ResubFails, LogsDomains, SubRecords
<1> QED BY <1>1, <1>2, NoFetchKeeps

\* The range of a fetch begins in the last block seen, or where BlockMaxRange ends.
LEMMA FromBlockRange ==
  ASSUME NEW last \in Nat, NEW current \in Nat, last < current
  PROVE  /\ FromBlock(last, current) \in Nat
         /\ last <= FromBlock(last, current) /\ FromBlock(last, current) <= current
         /\ \A b \in Nat : last <= b /\ b >= 1 /\ ~(b + BlockMaxRange <= current)
                           => FromBlock(last, current) <= b
<1>1. BlockMaxRange \in Nat /\ BlockMaxRange >= 1
  BY LogsAssumption, SMT
<1> QED BY <1>1, SMT DEF FromBlock, Larger

\* The current block is read, and the range to fetch chosen: it has every log that was
\* not sent and is not too old.
LEMMA ResubBlockNumberKeeps ==
  ASSUME LogsDomains, NEW s \in Subs, SubInv(s), ResubBlockNumber(s)
  PROVE  SubInv(s)'
<1> DEFINE from == FromBlock(sub[s].lastBlock, height)
<1>1. /\ height' = height /\ delivered' = delivered /\ proxyC' = proxyC /\ wire' = wire
      /\ sub[s].pc = "height"
  BY DEF ResubBlockNumber
<1>2. sub[s].todo = <<>> /\ Opened(s)
  BY <1>1 DEF SubInv, Places, Opened
<1>3. CASE sub[s].lastBlock >= height
  <2>1. excused' = excused \cup Missing(s) /\ sub' = [sub EXCEPT ![s].pc = "select"]
    BY <1>3 DEF ResubBlockNumber
  <2>2. /\ sub'[s].pc = "select" /\ sub'[s].live = sub[s].live /\ sub'[s].start = sub[s].start
        /\ sub'[s].lastBlock = sub[s].lastBlock /\ sub'[s].todo = sub[s].todo
    BY <2>1, SMT DEF LogsDomains, SubRecords
  <2> QED BY <1>1, <1>2, <2>1, <2>2, NoFetchKeeps
<1>4. CASE ~(sub[s].lastBlock >= height)
  <2>1. /\ excused' = excused \cup {l \in Undelivered(s) : l.block + BlockMaxRange <= height}
        /\ sub' = [sub EXCEPT ![s].pc = "fetch", ![s].from = from, ![s].to = height]
    BY <1>4 DEF ResubBlockNumber
  <2> HIDE DEF from
  <2>2. /\ sub'[s].pc = "fetch" /\ sub'[s].live = sub[s].live /\ sub'[s].start = sub[s].start
        /\ sub'[s].lastBlock = sub[s].lastBlock /\ sub'[s].todo = sub[s].todo
        /\ sub'[s].from = from /\ sub'[s].to = height
    BY <2>1, SMT DEF LogsDomains, SubRecords
  <2>3. height \in Nat /\ sub[s].lastBlock \in Nat /\ sub[s].start \in Nat
    BY SubTypes
  <2>4. sub[s].lastBlock < height /\ height <= height
    BY <1>4, <2>3, SMT
  <2>5. /\ from \in Nat /\ sub[s].lastBlock <= from /\ from <= height
        /\ \A b \in Nat : /\ sub[s].lastBlock <= b /\ b >= 1
                          /\ ~(b + BlockMaxRange <= height)
                          => from <= b
    BY <2>3, <2>4, FromBlockRange DEF from
  <2>6. Waiting(s)' \subseteq Waiting(s)
    BY <1>1, <2>1, <2>2 DEF Waiting, Undelivered
  <2>7. \A l \in Waiting(s)' : from <= l.block /\ l.block <= height
    <3> SUFFICES ASSUME NEW l \in Waiting(s)' PROVE from <= l.block /\ l.block <= height
      OBVIOUS
    <3>1. /\ l \in Logs /\ l.sub = s /\ sub[s].start < l.block /\ l.block <= height
          /\ l \in Undelivered(s) /\ l \notin excused'
      BY <2>6 DEF Waiting, Undelivered
    <3>2. ~(l.block + BlockMaxRange <= height) /\ l.block \in Nat /\ l.block >= 1
      BY <2>1, <3>1, LogFacts
    <3>3. sub[s].lastBlock <= l.block
      <4>1. CASE sub[s].lastBlock <= sub[s].start
        BY <2>3, <3>1, <3>2, <4>1, SMT
      <4>2. CASE \E d \in Range(delivered[s]) : d.block = sub[s].lastBlock
        <5>1. PICK d \in Range(delivered[s]) : d.block = sub[s].lastBlock
          BY <4>2
        <5>2. d.id < l.id /\ d \in Logs
          BY <2>6, SubTypes DEF SubInv, NextInOrder
        <5> QED BY <3>1, <5>1, <5>2, LogFacts
      <4> QED BY <1>2, <4>1, <4>2 DEF SubInv, Streams
    <3> QED BY <2>5, <3>1, <3>2, <3>3
  <2>8. Range(sub'[s].todo) = {}
    BY <1>2, <2>2, RangeSmall
  <2>9. Places(s)'
    BY <1>1, <1>2, <2>2, <2>4, <2>5 DEF SubInv, Places, Opened
  <2>10. Streams(s)'
    BY <1>1, <1>2, <2>2 DEF SubInv, Streams, Opened
  <2>11. Accounted(s)' /\ Fetched(s)'
    BY <2>2, <2>7, <2>8 DEF Accounted, Fetched
  <2>12. NextInOrder(s)'
    BY <1>1, <2>2, <2>6 DEF SubInv, NextInOrder
  <2>13. OldBlocks(s)'
    BY <1>1, <2>2 DEF SubInv, OldBlocks
  <2> QED BY <2>9, <2>10, <2>11, <2>12, <2>13 DEF SubInv
<1> QED BY <1>3, <1>4

\* A chunk is fetched: after the last one, what was found is sent, and it has all logs
\* from some block on.
LEMMA ResubFilterLogsKeeps ==
  ASSUME FilterInOrder, LogsDomains, NEW s \in Subs, SubInv(s), ResubFilterLogs(s)
  PROVE  SubInv(s)'
<1> DEFINE from == sub[s].from
           to == Smaller(from + BlockChunkSize - 1, sub[s].to)
           chunk == LogsIn(s, from, to)
           todo == sub[s].todo \o FilterLogs(s, from, to)
           pc == IF to < sub[s].to THEN "fetch" ELSE IF todo = <<>> THEN "select" ELSE "send"
<1>1. /\ height' = height /\ delivered' = delivered /\ proxyC' = proxyC /\ wire' = wire
      /\ excused' = excused /\ sub[s].pc = "fetch"
      /\ sub' = [sub EXCEPT ![s].pc = pc, ![s].todo = todo,
                            ![s].from = IF pc = "fetch" THEN from + BlockChunkSize ELSE 0,
                            ![s].to = IF pc = "fetch" THEN @ ELSE 0]
  BY DEF ResubFilterLogs
<1>2. /\ from \in Nat /\ sub[s].to \in Nat /\ sub[s].lastBlock \in Nat /\ height \in Nat
      /\ sub[s].start \in Nat
      /\ sub[s].todo \in Seq(Logs) /\ Range(sub[s].todo) \subseteq Logs
      /\ Range(delivered[s]) \subseteq Logs
  BY SubTypes
<1>3. /\ from <= sub[s].to /\ sub[s].to <= height /\ sub[s].start <= sub[s].to
      /\ sub[s].lastBlock <= from /\ Opened(s)
  BY <1>1 DEF SubInv, Places, Opened
<1>4. /\ to \in Nat /\ from <= to /\ to <= sub[s].to
      /\ to < sub[s].to => from + BlockChunkSize = to + 1 /\ to + 1 <= sub[s].to
      /\ ~(to < sub[s].to) => to = sub[s].to
  <2>1. BlockChunkSize \in Nat /\ BlockChunkSize >= 1
    BY LogsAssumption, SMT
  <2> QED BY <1>2, <1>3, <2>1, SMT DEF Smaller
<1>5. /\ FilterLogs(s, from, to) \in Seq(Logs)
      /\ Range(FilterLogs(s, from, to)) = chunk
      /\ Ascending(FilterLogs(s, from, to))
  BY FilterLogsHolds
<1>6. \A l \in chunk : l \in Logs /\ l.sub = s /\ from <= l.block /\ l.block <= to
  <2>1. \A n \in from..to : from <= n /\ n <= to
    BY <1>2, <1>4, SMT
  <2> QED BY <2>1 DEF LogsIn
<1>7. \A l \in Logs : l.sub = s /\ from <= l.block /\ l.block <= to => l \in chunk
  <2>1. \A n \in Nat : from <= n /\ n <= to => n \in from..to
    BY <1>2, <1>4, SMT
  <2> QED BY <2>1, LogFacts DEF LogsIn
<1>8. /\ \A t \in Range(sub[s].todo) : sub[s].lastBlock <= t.block /\ t.block < from
      /\ \A l \in Waiting(s) : l \in Range(sub[s].todo) \/ from <= l.block
      /\ \A t \in Range(sub[s].todo) : \A l \in LogsIn(s, t.block, from - 1) :
           l \in Range(sub[s].todo)
  BY <1>1 DEF SubInv, Fetched
<1>9. /\ todo \in Seq(Logs) /\ Range(todo) = Range(sub[s].todo) \cup chunk
      /\ Ascending(todo)
  <2>1. \A k \in Range(sub[s].todo), l \in chunk : k.id < l.id
    <3> SUFFICES ASSUME NEW k \in Range(sub[s].todo), NEW l \in chunk PROVE k.id < l.id
      OBVIOUS
    <3>1. k \in Logs /\ l \in Logs /\ k.block \in Nat /\ l.block \in Nat
      BY <1>2, <1>6, LogFacts
    <3>2. k.block < from /\ from <= l.block
      BY <1>6, <1>8
    <3>3. k.block < l.block
      BY <1>2, <3>1, <3>2, SMT
    <3> QED BY <3>1, <3>3, LogFacts
  <2>2. Ascending(sub[s].todo)
    BY DEF SubInv, Streams
  <2> QED BY <1>2, <1>5, <2>1, <2>2, LogsAppended
<1> HIDE DEF from, to, chunk, todo, pc
<1>10. /\ sub'[s].pc = pc /\ sub'[s].todo = todo
       /\ sub'[s].live = sub[s].live /\ sub'[s].start = sub[s].start
       /\ sub'[s].lastBlock = sub[s].lastBlock
       /\ pc = "fetch" => sub'[s].from = from + BlockChunkSize /\ sub'[s].to = sub[s].to
  BY <1>1, SMT DEF LogsDomains, SubRecords
<1>11. Opened(s)'
  BY <1>10 DEF Opened, pc
<1>12. Waiting(s)' = Waiting(s)
  BY <1>1, <1>10 DEF Waiting, Undelivered
<1>13. \A t \in Range(todo) : /\ t \in Logs /\ t.sub = s /\ t.block \in Nat
                               /\ sub[s].lastBlock <= t.block /\ t.block <= to
  <2> SUFFICES ASSUME NEW t \in Range(todo)
               PROVE  /\ t \in Logs /\ t.sub = s /\ t.block \in Nat
                      /\ sub[s].lastBlock <= t.block /\ t.block <= to
    OBVIOUS
  <2>1. t \in Logs /\ t.sub = s
    BY <1>2, <1>6, <1>9 DEF SubInv, Streams
  <2>2. t.block \in Nat
    BY <2>1, LogFacts
  <2>3. \/ sub[s].lastBlock <= t.block /\ t.block < from
        \/ from <= t.block /\ t.block <= to
    BY <1>6, <1>8, <1>9
  <2>4. sub[s].lastBlock <= t.block /\ t.block <= to
    BY <1>2, <1>3, <1>4, <2>2, <2>3, SMT
  <2> QED BY <2>1, <2>2, <2>4
<1>14. \A l \in Waiting(s) : l \in Range(todo) \/ (~(l.block <= to) /\ l.block \in Nat)
  <2> SUFFICES ASSUME NEW l \in Waiting(s), l.block <= to PROVE l \in Range(todo)
    BY LogFacts DEF Waiting, Undelivered
  <2>1. l \in Logs /\ l.sub = s
    BY DEF Waiting, Undelivered
  <2> QED BY <1>7, <1>8, <1>9, <2>1
<1>15. Streams(s)'
  <2>1. \A t \in Range(todo) : t.sub = s /\ t.block <= height
    <3>1. \A n \in Nat : n <= to => n <= height
      BY <1>2, <1>3, <1>4, SMT
    <3> QED BY <1>13, <3>1
  <2> QED BY <1>1, <1>3, <1>9, <1>10, <1>11, <2>1 DEF SubInv, Streams
<1>16. CASE to < sub[s].to
  <2>1. /\ pc = "fetch" /\ sub'[s].from = to + 1 /\ sub'[s].to = sub[s].to
    BY <1>4, <1>10, <1>16 DEF pc
  <2>2. Places(s)'
    <3>1. sub[s].lastBlock <= to + 1 /\ to + 1 <= sub[s].to
      BY <1>2, <1>3, <1>4, <1>16, SMT
    <3> QED BY <1>1, <1>3, <1>10, <1>11, <2>1, <3>1 DEF SubInv, Places
  <2>3. \A l \in Waiting(s) : l \in Range(todo) \/ to + 1 <= l.block
    <3>1. \A n \in Nat : ~(n <= to) => to + 1 <= n
      BY <1>4, SMT
    <3> QED BY <1>14, <3>1
  <2>4. Accounted(s)'
    BY <1>1, <1>3, <1>9, <1>10, <1>12, <2>1, <2>3 DEF SubInv, Accounted
  <2>5. NextInOrder(s)'
    BY <1>1, <1>10, <1>12, <2>1 DEF SubInv, NextInOrder
  <2>6. Fetched(s)'
    <3>1. \A t \in Range(todo) : sub[s].lastBlock <= t.block /\ t.block < to + 1
      <4>1. \A n \in Nat : n <= to => n < to + 1
        BY <1>4, SMT
      <4> QED BY <1>13, <4>1
    <3>2. ASSUME NEW t \in Range(todo), NEW l \in LogsIn(s, t.block, sub'[s].from - 1)
          PROVE  l \in Range(todo)
      <4>1. l \in Logs /\ l.sub = s /\ l.block \in t.block..(sub'[s].from - 1) /\ l.block \in Nat
        BY LogFacts DEF LogsIn
      <4>2. t.block \in Nat
        BY <1>13
      <4>3. CASE from <= l.block
        <5>1. l.block <= to
          BY <1>4, <2>1, <4>1, <4>2, SMT
        <5> QED BY <1>7, <1>9, <4>1, <4>3, <5>1
      <4>4. CASE ~(from <= l.block)
        <5>1. ~(from <= t.block) /\ l.block \in t.block..(from - 1)
          BY <1>2, <1>4, <2>1, <4>1, <4>2, <4>4, SMT
        <5>2. t \in Range(sub[s].todo)
          BY <1>6, <1>9, <5>1
        <5>3. l \in LogsIn(s, t.block, from - 1)
          BY <4>1, <5>1 DEF LogsIn
        <5> QED BY <1>8, <1>9, <5>2, <5>3
      <4> QED BY <4>3, <4>4
    <3>3. /\ \A t \in Range(todo) : sub[s].lastBlock <= t.block /\ t.block < sub'[s].from
          /\ \A l \in Waiting(s) : l \in Range(todo) \/ sub'[s].from <= l.block
          /\ \A t \in Range(todo) : \A l \in LogsIn(s, t.block, sub'[s].from - 1) : l \in Range(todo)
      BY <2>1, <2>3, <3>1, <3>2
    <3> QED BY <1>10, <1>12, <3>3 DEF Fetched
  <2>7. OldBlocks(s)'
    BY <1>1, <1>10, <2>1 DEF SubInv, OldBlocks
  <2> QED BY <1>15, <2>2, <2>4, <2>5, <2>6, <2>7 DEF SubInv
<1>17. CASE ~(to < sub[s].to)
  <2>1. /\ to = sub[s].to /\ pc # "fetch" /\ pc \in {"select", "send"}
        /\ pc = "select" <=> todo = <<>>
    BY <1>4, <1>17 DEF pc
  <2>2. Places(s)'
    BY <1>1, <1>3, <1>10, <1>11, <2>1 DEF SubInv, Places
  <2>3. Accounted(s)'
    BY <1>1, <1>3, <1>9, <1>10, <1>12, <1>14, <2>1 DEF SubInv, Accounted
  <2>4. \A l \in Waiting(s), d \in Range(delivered[s]) : d.id < l.id
    BY DEF SubInv, NextInOrder
  <2>5. \A d \in Range(delivered[s]) : \A l \in LogsIn(s, d.block, sub[s].start) :
           l \in Range(delivered[s])
    BY <1>1 DEF SubInv, OldBlocks
  <2>6. ASSUME NEW l \in Waiting(s), NEW t \in Range(todo), l \notin Range(todo)
        PROVE  t.id < l.id
    <3>1. ~(l.block <= to) /\ l.block \in Nat /\ t.block \in Nat /\ t.block <= to
      BY <1>13, <1>14, <2>6
    <3>2. t.block < l.block
      BY <1>4, <3>1, SMT
    <3>3. l \in Logs /\ t \in Logs
      BY <1>13 DEF Waiting, Undelivered
    <3> QED BY <3>2, <3>3, LogFacts
  <2>7. ASSUME NEW t \in Range(todo), NEW d \in Range(delivered[s]),
               t \notin Range(delivered[s]) \cup excused
        PROVE  d.id < t.id
    <3>1. t \in Logs /\ t.sub = s /\ t.block \in Nat /\ sub[s].lastBlock <= t.block
          /\ d \in Logs /\ d.block \in Nat /\ d.block <= sub[s].lastBlock
      BY <1>2, <1>13, LogFacts DEF SubInv, Streams
    <3>2. t.block <= height
      BY <1>2, <1>3, <1>4, <1>13, SMT
    <3>3. CASE sub[s].start < t.block
      <4>1. t \in Waiting(s)
        BY <2>7, <3>1, <3>2, <3>3 DEF Waiting, Undelivered
      <4> QED BY <2>4, <4>1
    <3>4. CASE ~(sub[s].start < t.block) /\ d.block < t.block
      BY <3>1, <3>4, LogFacts
    <3>5. CASE ~(sub[s].start < t.block) /\ ~(d.block < t.block)
      <4>1. t.block \in d.block..sub[s].start
        BY <1>2, <3>1, <3>5, SMT
      <4>2. t \in LogsIn(s, d.block, sub[s].start)
        BY <3>1, <4>1 DEF LogsIn
      <4> QED BY <2>5, <2>7, <4>2
    <3> QED BY <3>3, <3>4, <3>5
  <2>8. NextInOrder(s)'
    BY <1>1, <1>10, <1>12, <2>4, <2>6, <2>7 DEF NextInOrder
  <2>9. Fetched(s)'
    BY <1>10, <2>1 DEF Fetched
  <2>10. ASSUME NEW t \in Range(todo), NEW l \in LogsIn(s, t.block, sub[s].start)
         PROVE  l \in Range(todo)
    <3>1. l \in Logs /\ l.sub = s /\ l.block \in t.block..sub[s].start /\ l.block \in Nat
      BY LogFacts DEF LogsIn
    <3>2. t.block \in Nat
      BY <1>13
    <3>3. CASE from <= l.block
      <4>1. l.block <= to
        BY <1>2, <1>3, <2>1, <3>1, <3>2, SMT
      <4> QED BY <1>7, <1>9, <3>1, <3>3, <4>1
    <3>4. CASE ~(from <= l.block)
      <4>1. ~(from <= t.block) /\ l.block \in t.block..(from - 1)
        BY <1>2, <3>1, <3>2, <3>4, SMT
      <4>2. t \in Range(sub[s].todo)
        BY <1>6, <1>9, <4>1
      <4>3. l \in LogsIn(s, t.block, from - 1)
        BY <3>1, <4>1 DEF LogsIn
      <4> QED BY <1>8, <1>9, <4>2, <4>3
    <3> QED BY <3>3, <3>4
  <2>11. OldBlocks(s)'
    <3>1. CASE pc = "select"
      BY <1>1, <1>10, <2>5, <3>1 DEF OldBlocks
    <3>2. CASE pc = "send"
      BY <1>1, <1>10, <2>5, <2>10, <3>2 DEF OldBlocks
    <3> QED BY <2>1, <3>1, <3>2
  <2> QED BY <1>15, <2>2, <2>3, <2>8, <2>9, <2>11 DEF SubInv
<1> QED BY <1>16, <1>17

-----------------------------------------------------------------------------
(* All subscriptions *)

\* What the steps of a subscription do to the others: at most excuse logs.
OthersQuiet(s) == \A k \in Subs : k # s => Quiet(k)

\* Steps that send nothing.
LEMMA StepTypes ==
  ASSUME FilterInOrder, LogsDomains, NEW s \in Subs, SubInv(s),
         \/ Arrive(s) \/ Disconnect(s) \/ SubscribeBegin(s) \/ SubscribeEnd(s) \/ TakeLog(s)
         \/ SkipLog(s) \/ Resubscribe(s) \/ ResubBlockNumber(s) \/ ResubFilterLogs(s)
         \/ ResubFails(s)
  PROVE  /\ LogsDomains' /\ OthersQuiet(s)
         /\ delivered' = delivered /\ excused \subseteq excused'
<1>1. /\ height \in Nat /\ sub \in [Subs -> SubRecords] /\ sub[s] \in SubRecords
      /\ wire \in [Subs -> Seq(Logs)] /\ proxyC \in [Subs -> Seq(Logs)]
      /\ wire[s] \in Seq(Logs) /\ proxyC[s] \in Seq(Logs) /\ <<>> \in Seq(Logs)
  <2>1. <<>> \in Seq(Logs)
    BY SMT
  <2> QED BY <2>1 DEF LogsDomains
<1>2. ASSUME height' = height, delivered' = delivered, logCache' = logCache,
             sub' \in [Subs -> SubRecords], wire' \in [Subs -> Seq(Logs)],
             proxyC' \in [Subs -> Seq(Logs)]
      PROVE  LogsDomains'
  BY <1>2 DEF LogsDomains
<1>3. CASE Arrive(s)
  <2>1. /\ Head(wire[s]) \in Logs /\ Tail(wire[s]) \in Seq(Logs)
    BY <1>1, <1>3, LogTaken DEF Arrive
  <2>2. Append(proxyC[s], Head(wire[s])) \in Seq(Logs)
    BY <1>1, <2>1, LogAppended
  <2>3. wire' \in [Subs -> Seq(Logs)] /\ proxyC' \in [Subs -> Seq(Logs)]
    BY <1>1, <1>3, <2>1, <2>2 DEF Arrive
  <2>4. OthersQuiet(s)
    BY <1>1, <1>3 DEF Arrive, OthersQuiet, Quiet
  <2> QED BY <1>1, <1>2, <1>3, <2>3, <2>4 DEF Arrive
<1>4. CASE Disconnect(s)
  <2>1. sub' \in [Subs -> SubRecords] /\ wire' \in [Subs -> Seq(Logs)]
    BY <1>1, <1>4 DEF Disconnect, SubRecords
  <2>2. OthersQuiet(s)
    BY <1>1, <1>4 DEF Disconnect, OthersQuiet, Quiet
  <2> QED BY <1>1, <1>2, <1>4, <2>1, <2>2 DEF Disconnect
<1>5. CASE SubscribeBegin(s)
  <2>1. sub' \in [Subs -> SubRecords]
    BY <1>1, <1>5 DEF SubscribeBegin, SubRecords
  <2>2. OthersQuiet(s)
    BY <1>1, <1>5 DEF SubscribeBegin, OthersQuiet, Quiet
  <2> QED BY <1>1, <1>2, <1>5, <2>1, <2>2 DEF SubscribeBegin
<1>6. CASE SubscribeEnd(s)
  <2>1. sub' \in [Subs -> SubRecords]
    BY <1>1, <1>6 DEF SubscribeEnd, SubRecords
  <2>2. OthersQuiet(s)
    BY <1>1, <1>6 DEF SubscribeEnd, OthersQuiet, Quiet
  <2> QED BY <1>1, <1>2, <1>6, <2>1, <2>2 DEF SubscribeEnd
<1>7. CASE TakeLog(s)
  <2>1. Head(proxyC[s]) \in Logs /\ Tail(proxyC[s]) \in Seq(Logs)
    BY <1>1, <1>7, LogTaken DEF TakeLog
  <2>2. <<Head(proxyC[s])>> \in Seq(Logs)
    BY <2>1, SMT
  <2>3. sub' \in [Subs -> SubRecords] /\ proxyC' \in [Subs -> Seq(Logs)]
    BY <1>1, <1>7, <2>1, <2>2 DEF TakeLog, SubRecords
  <2>4. OthersQuiet(s)
    BY <1>1, <1>7 DEF TakeLog, OthersQuiet, Quiet
  <2> QED BY <1>1, <1>2, <1>7, <2>3, <2>4 DEF TakeLog
<1>8. CASE SkipLog(s)
  <2>1. Rest(s) \in SubRecords
    BY <1>8, RestGoes DEF SkipLog
  <2>2. sub' \in [Subs -> SubRecords]
    BY <1>1, <1>8, <2>1 DEF SkipLog
  <2>3. OthersQuiet(s)
    BY <1>1, <1>8 DEF SkipLog, OthersQuiet, Quiet
  <2> QED BY <1>1, <1>2, <1>8, <2>2, <2>3 DEF SkipLog
<1>9. CASE Resubscribe(s)
  <2>1. sub' \in [Subs -> SubRecords] /\ wire' \in [Subs -> Seq(Logs)]
    BY <1>1, <1>9 DEF Resubscribe, SubRecords
  <2>2. OthersQuiet(s)
    BY <1>1, <1>9 DEF Resubscribe, OthersQuiet, Quiet
  <2> QED BY <1>1, <1>2, <1>9, <2>1, <2>2 DEF Resubscribe
<1>10. CASE ResubFails(s)
  <2>1. sub' \in [Subs -> SubRecords]
    <3>1. 0 \in Nat
      BY SMT
    <3> QED BY <1>1, <1>10, <3>1 DEF ResubFails, SubRecords
  <2>2. OthersQuiet(s)
    BY <1>1, <1>10 DEF ResubFails, OthersQuiet, Quiet
  <2> QED BY <1>1, <1>2, <1>10, <2>1, <2>2 DEF ResubFails
<1>11. CASE ResubBlockNumber(s)
  <2> DEFINE from == FromBlock(sub[s].lastBlock, height)
  <2>1. ~(sub[s].lastBlock >= height) => from \in Nat
    <3>1. sub[s].lastBlock \in Nat
      BY SubTypes
    <3>2. ~(sub[s].lastBlock >= height) => sub[s].lastBlock < height
      BY <1>1, <3>1, SMT
    <3> QED BY <1>1, <3>1, <3>2, FromBlockRange
  <2>2. /\ IF sub[s].lastBlock >= height
           THEN sub' = [sub EXCEPT ![s].pc = "select"]
           ELSE sub' = [sub EXCEPT ![s].pc = "fetch", ![s].from = from, ![s].to = height]
        /\ excused \subseteq excused'
    BY <1>11 DEF ResubBlockNumber
  <2> HIDE DEF from
  <2>3. sub' \in [Subs -> SubRecords] /\ \A k \in Subs : k # s => sub'[k] = sub[k]
    <3>1. CASE sub[s].lastBlock >= height
      <4>1. sub' = [sub EXCEPT ![s].pc = "select"]
        BY <2>2, <3>1
      <4>2. sub' \in [Subs -> SubRecords]
        BY <1>1, <4>1 DEF SubRecords
      <4> QED BY <1>1, <4>1, <4>2
    <3>2. CASE ~(sub[s].lastBlock >= height)
      <4>1. sub' = [sub EXCEPT ![s].pc = "fetch", ![s].from = from, ![s].to = height]
        BY <2>2, <3>2
      <4>2. sub' \in [Subs -> SubRecords]
        BY <1>1, <2>1, <3>2, <4>1 DEF SubRecords
      <4> QED BY <1>1, <4>1, <4>2
    <3> QED BY <3>1, <3>2
  <2>4. OthersQuiet(s)
    BY <1>11, <2>2, <2>3 DEF ResubBlockNumber, OthersQuiet, Quiet
  <2> QED BY <1>1, <1>2, <1>11, <2>3, <2>4 DEF ResubBlockNumber
<1>12. CASE ResubFilterLogs(s)
  <2> DEFINE from == sub[s].from
             to == Smaller(from + BlockChunkSize - 1, sub[s].to)
             todo == sub[s].todo \o FilterLogs(s, from, to)
             pc == IF to < sub[s].to THEN "fetch" ELSE IF todo = <<>> THEN "select" ELSE "send"
             next == IF pc = "fetch" THEN from + BlockChunkSize ELSE 0
             end == IF pc = "fetch" THEN sub[s].to ELSE 0
  <2>1. sub' = [sub EXCEPT ![s].pc = pc, ![s].todo = todo, ![s].from = next, ![s].to = end]
    BY <1>1, <1>12 DEF ResubFilterLogs, SubRecords
  <2>2. todo \in Seq(Logs)
    <3>1. sub[s].todo \in Seq(Logs)
      BY SubTypes
    <3> QED BY <3>1, FilterLogsHolds, LogsAppended
  <2>3. pc \in {"select", "send", "fetch"}
    OBVIOUS
  <2>4. next \in Nat /\ end \in Nat
    <3>1. BlockChunkSize \in Nat /\ sub[s].from \in Nat /\ sub[s].to \in Nat
      BY LogsAssumption, SubTypes, SMT
    <3> HIDE DEF pc
    <3> QED BY <3>1, SMT
  <2> HIDE DEF pc, todo, next, end
  <2>5. sub' \in [Subs -> SubRecords]
    BY <1>1, <2>1, <2>2, <2>3, <2>4 DEF SubRecords
  <2>6. OthersQuiet(s)
    <3>1. \A k \in Subs : k # s => sub'[k] = sub[k]
      BY <1>1, <2>1
    <3> QED BY <1>12, <3>1 DEF ResubFilterLogs, OthersQuiet, Quiet
  <2> QED BY <1>1, <1>2, <1>12, <2>5, <2>6 DEF ResubFilterLogs
<1> QED BY <1>3, <1>4, <1>5, <1>6, <1>7, <1>8, <1>9, <1>10, <1>11, <1>12

\* A log is sent: the cache then has its id, perhaps instead of the oldest one.
LEMMA SendTypes ==
  ASSUME LogsDomains, NEW s \in Subs, SubInv(s), NEW l \in Logs, SendLog(s, l)
  PROVE  LogsDomains' /\ OthersQuiet(s)
<1>1. /\ height \in Nat /\ sub \in [Subs -> SubRecords] /\ delivered \in [Subs -> Seq(Logs)]
      /\ logCache \in [Subs -> Seq(Nat)] /\ delivered[s] \in Seq(Logs)
      /\ logCache[s] \in Seq(Nat)
  BY DEF LogsDomains
<1>2. /\ logCache' = [logCache EXCEPT ![s] = Cached(s, l)]
      /\ delivered' = [delivered EXCEPT ![s] = Append(delivered[s], l)]
      /\ sub' = [sub EXCEPT ![s] = [Rest(s) EXCEPT !.lastBlock = Larger(Rest(s).lastBlock, l.block)]]
      /\ height' = height /\ wire' = wire /\ proxyC' = proxyC /\ excused' = excused
      /\ sub[s].pc = "send"
  BY <1>1 DEF SendLog
<1>3. l.id \in Nat /\ l.block \in Nat
  BY LogFacts
<1>4. /\ Append(delivered[s], l) \in Seq(Logs)
      /\ Range(Append(delivered[s], l)) = Range(delivered[s]) \cup {l}
  BY <1>1, LogAppended
<1>5. Cached(s, l) \in Seq(Nat) /\ Range(Cached(s, l)) \subseteq Range(logCache[s]) \cup {l.id}
  <2> DEFINE all == Append(logCache[s], l.id)
  <2>1. /\ all \in Seq(Nat) /\ Len(all) = Len(logCache[s]) + 1 /\ Len(logCache[s]) \in Nat
        /\ \A k \in 1..Len(all) : all[k] = l.id \/ (k \in 1..Len(logCache[s]) /\ all[k] = logCache[s][k])
    BY <1>1, <1>3, SMT
  <2>2. Range(logCache[s]) = {logCache[s][k] : k \in 1..Len(logCache[s])}
    BY <1>1, RangeSeq
  <2>3. \A k \in 1..Len(all) : all[k] \in Range(logCache[s]) \cup {l.id}
    BY <2>1, <2>2
  <2> HIDE DEF all
  <2>4. CASE Len(all) > CacheSize
    <3>1. Cached(s, l) = Tail(all)
      BY <2>4 DEF Cached, all
    <3>2. CacheSize \in Nat
      BY LogsAssumption, SMT
    <3>3. /\ Tail(all) \in Seq(Nat) /\ Len(Tail(all)) = Len(all) - 1
          /\ \A k \in 1..(Len(all) - 1) : Tail(all)[k] = all[k + 1] /\ k + 1 \in 1..Len(all)
      BY <2>1, <2>4, <3>2, SMT
    <3>4. Range(Tail(all)) = {Tail(all)[k] : k \in 1..(Len(all) - 1)}
      BY <3>3, RangeSeq
    <3>5. \A k \in 1..(Len(all) - 1) : Tail(all)[k] \in Range(logCache[s]) \cup {l.id}
      BY <2>3, <3>3
    <3>6. Range(Tail(all)) \subseteq Range(logCache[s]) \cup {l.id}
      BY <3>4, <3>5
    <3> QED BY <3>1, <3>3, <3>6
  <2>5. CASE ~(Len(all) > CacheSize)
    <3>1. Cached(s, l) = all
      BY <2>5 DEF Cached, all
    <3>2. Range(all) = {all[k] : k \in 1..Len(all)}
      BY <2>1, RangeSeq
    <3>3. Range(all) \subseteq Range(logCache[s]) \cup {l.id}
      BY <2>3, <3>2
    <3> QED BY <2>1, <3>1, <3>3
  <2> QED BY <2>4, <2>5
<1>6. [Rest(s) EXCEPT !.lastBlock = Larger(Rest(s).lastBlock, l.block)] \in SubRecords
  <2>1. Rest(s) \in SubRecords /\ Rest(s).lastBlock = sub[s].lastBlock
    BY <1>2, RestGoes
  <2>2. sub[s].lastBlock \in Nat
    BY SubTypes
  <2>3. Larger(Rest(s).lastBlock, l.block) \in Nat
    BY <1>3, <2>1, <2>2, SMT DEF Larger
  <2> QED BY <2>1, <2>3 DEF SubRecords
<1>7. /\ sub' \in [Subs -> SubRecords] /\ delivered' \in [Subs -> Seq(Logs)]
      /\ logCache' \in [Subs -> Seq(Nat)]
  BY <1>1, <1>2, <1>4, <1>5, <1>6
<1>8. OthersQuiet(s)
  BY <1>1, <1>2 DEF OthersQuiet, Quiet
<1>9. ASSUME NEW k \in Subs, NEW n \in Range(logCache'[k])
      PROVE  \E d \in Range(delivered'[k]) : d.id = n
  <2>1. \A m \in Range(logCache[k]) : \E d \in Range(delivered[k]) : d.id = m
    BY DEF LogsDomains
  <2>2. CASE k = s
    <3>1. logCache'[k] = Cached(s, l) /\ delivered'[k] = Append(delivered[s], l)
      BY <1>1, <1>2, <2>2
    <3>2. n \in Range(logCache[s]) \/ n = l.id
      BY <1>5, <1>9, <3>1
    <3> QED BY <1>4, <2>1, <2>2, <3>1, <3>2
  <2>3. CASE k # s
    <3>1. logCache'[k] = logCache[k] /\ delivered'[k] = delivered[k]
      BY <1>1, <1>2, <2>3
    <3> QED BY <2>1, <3>1
  <2> QED BY <2>2, <2>3
<1>10. LogsDomains'
  <2>1. height' \in Nat /\ wire' \in [Subs -> Seq(Logs)] /\ proxyC' \in [Subs -> Seq(Logs)]
    BY <1>2 DEF LogsDomains
  <2> QED BY <1>7, <1>9, <2>1 DEF LogsDomains
<1> QED BY <1>8, <1>10

\* Types after a new block.
LEMMA MineTypes ==
  ASSUME FilterInOrder, LogsDomains, Mine
  PROVE  LogsDomains' /\ delivered' = delivered /\ excused' = excused
<1>1. height' \in Nat
  BY SMT DEF LogsDomains, Mine
<1>2. wire' \in [Subs -> Seq(Logs)]
  <2>1. \A s \in Subs : wire[s] \in Seq(Logs) /\ wire[s] \o FilterLogs(s, height', height') \in Seq(Logs)
    BY FilterLogsHolds, LogsAppended DEF LogsDomains
  <2> QED BY <2>1 DEF Mine
<1> QED BY <1>1, <1>2 DEF LogsDomains, Mine

\* Nothing is sent and perhaps more excused.
LEMMA OrderKept ==
  ASSUME LogsOnceInOrder, delivered' = delivered, excused \subseteq excused'
  PROVE  LogsOnceInOrder'
BY DEF LogsOnceInOrder

\* The invariant of the subscriptions, with the properties of each.
LEMMA LogsInvOf ==
  /\ LogsInv <=> LogsDomains /\ LogsOnceInOrder /\ \A s \in Subs : SubInv(s)
  /\ LogsInv' <=> LogsDomains' /\ LogsOnceInOrder' /\ \A s \in Subs : SubInv(s)'
BY DEF LogsInv, SubInv

\* Steps of a subscription that send nothing keep the invariant.
LEMMA LogsKept ==
  ASSUME FilterInOrder, LogsInv, NEW s \in Subs,
         \/ Arrive(s) \/ Disconnect(s) \/ SubscribeBegin(s) \/ SubscribeEnd(s) \/ TakeLog(s)
         \/ SkipLog(s) \/ Resubscribe(s) \/ ResubBlockNumber(s) \/ ResubFilterLogs(s)
         \/ ResubFails(s)
  PROVE  LogsInv'
<1>1. LogsDomains /\ LogsOnceInOrder /\ \A k \in Subs : SubInv(k)
  BY LogsInvOf
<1>2. LogsDomains' /\ OthersQuiet(s) /\ delivered' = delivered /\ excused \subseteq excused'
  BY <1>1, StepTypes
<1>3. SubInv(s)'
  BY <1>1, ArriveKeeps, DisconnectKeeps, SubscribeBeginKeeps, SubscribeEndKeeps, TakeLogKeeps,
     SkipLogKeeps, ResubscribeKeeps, ResubBlockNumberKeeps, ResubFilterLogsKeeps, ResubFailsKeeps
<1>4. ASSUME NEW k \in Subs, k # s PROVE SubInv(k)'
  BY <1>1, <1>2, <1>4, QuietKeeps DEF OthersQuiet
<1>5. LogsOnceInOrder'
  BY <1>1, <1>2, OrderKept
<1> QED BY <1>2, <1>3, <1>4, <1>5, LogsInvOf

\* A new block keeps the invariant.
LEMMA LogsMined ==
  ASSUME FilterInOrder, LogsInv, Mine
  PROVE  LogsInv'
<1>1. LogsDomains /\ LogsOnceInOrder /\ \A k \in Subs : SubInv(k)
  BY LogsInvOf
<1>2. LogsDomains' /\ delivered' = delivered /\ excused' = excused
  BY <1>1, MineTypes
<1>3. \A k \in Subs : SubInv(k)'
  BY <1>1, MineKeeps
<1>4. LogsOnceInOrder'
  BY <1>1, <1>2, OrderKept
<1> QED BY <1>2, <1>3, <1>4, LogsInvOf

\* A log that is sent while the cache remembers keeps the invariant.
LEMMA LogsSent ==
  ASSUME LogsInv, Remembered, NEW s \in Subs, NEW l \in Logs, SendLog(s, l)
  PROVE  LogsInv'
<1>1. LogsDomains /\ LogsOnceInOrder /\ \A k \in Subs : SubInv(k)
  BY LogsInvOf
<1>2. LogsDomains' /\ OthersQuiet(s)
  BY <1>1, SendTypes
<1>3. /\ SubInv(s)' /\ l \notin Range(delivered[s])
      /\ \A d \in Range(delivered[s]) : d.id < l.id \/ l \in excused
  BY <1>1, SendLogKeeps
<1>4. ASSUME NEW k \in Subs, k # s PROVE SubInv(k)'
  BY <1>1, <1>2, <1>4, QuietKeeps DEF OthersQuiet
<1>5. /\ delivered' = [delivered EXCEPT ![s] = Append(delivered[s], l)] /\ excused' = excused
      /\ delivered \in [Subs -> Seq(Logs)] /\ delivered[s] \in Seq(Logs)
  BY <1>1 DEF SendLog, LogsDomains
<1>6. ASSUME NEW t \in Subs, NEW j \in 1..Len(delivered'[t]), NEW k \in 1..Len(delivered'[t]), j < k
      PROVE  /\ delivered'[t][j] # delivered'[t][k]
             /\ delivered'[t][j].id < delivered'[t][k].id \/ delivered'[t][k] \in excused'
  <2>1. CASE t # s
    <3>1. delivered'[t] = delivered[t]
      BY <1>5, <2>1
    <3> QED BY <1>1, <1>5, <1>6, <3>1 DEF LogsOnceInOrder
  <2>2. CASE t = s
    <3> DEFINE q == delivered[s]
    <3>1. delivered'[t] = Append(q, l)
      BY <1>5, <2>2
    <3>2. /\ Len(Append(q, l)) = Len(q) + 1 /\ Append(q, l)[Len(q) + 1] = l
          /\ \A i \in 1..Len(q) : Append(q, l)[i] = q[i]
      BY <1>5, LogAppended
    <3>3. Len(q) \in Nat /\ Range(q) = {q[i] : i \in 1..Len(q)}
      BY <1>5, RangeSeq
    <3>4. j \in 1..Len(q) /\ (k \in 1..Len(q) \/ k = Len(q) + 1)
      BY <1>6, <3>1, <3>2, <3>3, SMT
    <3>5. Append(q, l)[j] = q[j] /\ q[j] \in Range(q)
      BY <3>2, <3>3, <3>4
    <3>6. CASE k \in 1..Len(q)
      <4>1. Append(q, l)[k] = q[k]
        BY <3>2, <3>6
      <4>2. q[j] # q[k] /\ (q[j].id < q[k].id \/ q[k] \in excused)
        BY <1>1, <1>6, <3>4, <3>6 DEF LogsOnceInOrder
      <4> QED BY <1>5, <3>1, <3>5, <4>1, <4>2
    <3>7. CASE k = Len(q) + 1
      <4>1. Append(q, l)[k] = l
        BY <3>2, <3>7
      <4>2. q[j] # l /\ (q[j].id < l.id \/ l \in excused)
        BY <1>3, <3>5
      <4> QED BY <1>5, <3>1, <3>5, <4>1, <4>2
    <3> QED BY <3>4, <3>6, <3>7
  <2> QED BY <2>1, <2>2
<1>7. LogsOnceInOrder'
  BY <1>6 DEF LogsOnceInOrder
<1> QED BY <1>2, <1>3, <1>4, <1>7, LogsInvOf

\* Before the first step.
LEMMA LogsStart ==
  ASSUME LogsInit
  PROVE  LogsInv
<1>1. /\ height = 0 /\ sub = [s \in Subs |-> NoSub] /\ wire = [s \in Subs |-> <<>>]
      /\ proxyC = [s \in Subs |-> <<>>] /\ logCache = [s \in Subs |-> <<>>]
      /\ delivered = [s \in Subs |-> <<>>] /\ excused = {}
  BY DEF LogsInit
<1>2. 0 \in Nat /\ <<>> \in Seq(Logs) /\ <<>> \in Seq(Nat) /\ 0 <= 0 /\ Ascending(<<>>) /\ 1..Len(<<>>) = {}
  BY SMT DEF Ascending
<1>3. NoSub \in SubRecords
  BY <1>2 DEF NoSub, SubRecords
<1>4. LogsDomains
  BY <1>1, <1>2, <1>3, RangeSmall DEF LogsDomains
<1>5. LogsOnceInOrder
  BY <1>1, <1>2 DEF LogsOnceInOrder
<1>6. ASSUME NEW s \in Subs PROVE SubInv(s)
  <2>1. /\ sub[s].pc = "none" /\ ~sub[s].live /\ sub[s].start = 0 /\ sub[s].lastBlock = 0
        /\ sub[s].todo = <<>> /\ wire[s] = <<>> /\ proxyC[s] = <<>> /\ delivered[s] = <<>>
    BY <1>1 DEF NoSub
  <2>2. /\ Range(sub[s].todo) = {} /\ Range(wire[s]) = {} /\ Range(proxyC[s]) = {}
        /\ Range(delivered[s]) = {}
    BY <2>1, RangeSmall
  <2>3. Places(s)
    BY <1>1, <1>2, <2>1 DEF Places, Opened
  <2>4. Streams(s)
    BY <1>2, <2>1, <2>2 DEF Streams, Opened
  <2>5. Accounted(s) /\ NextInOrder(s) /\ Fetched(s)
    BY <2>1, <2>2 DEF Accounted, NextInOrder, Fetched, Opened
  <2>6. OldBlocks(s)
    BY <2>1, <2>2 DEF OldBlocks
  <2> QED BY <2>3, <2>4, <2>5, <2>6 DEF SubInv
<1> QED BY <1>4, <1>5, <1>6, LogsInvOf

\* What the service does on its own changes no subscription.
LEMMA LogsUntouched ==
  ASSUME LogsInv,
         UNCHANGED <<height, sub, wire, proxyC, logCache, delivered, excused>>
  PROVE  LogsInv'
<1>1. LogsDomains /\ LogsOnceInOrder /\ \A k \in Subs : SubInv(k)
  BY LogsInvOf
<1>2. LogsDomains'
  BY <1>1 DEF LogsDomains
<1>3. ASSUME NEW k \in Subs PROVE SubInv(k)'
  BY <1>1, QuietKeeps DEF Quiet
<1>4. LogsOnceInOrder'
  BY <1>1, OrderKept
<1> QED BY <1>2, <1>3, <1>4, LogsInvOf

-----------------------------------------------------------------------------
(* The service *)

\* The invariant of the subscriptions holds in the service too, as long as the cache
\* remembers.
LEMMA LogsNext ==
  ASSUME FilterInOrder, LogsInv, Remembered, OrsNext
  PROVE  LogsInv'
<1>1. CASE Mine
  BY <1>1, LogsMined
<1>2. ASSUME NEW s \in Subs, Arrive(s) \/ Disconnect(s) \/ LogsStep(s) \/ Resubscribe(s) \/ ResubFails(s)
      PROVE  LogsInv'
  BY <1>2, LogsKept DEF LogsStep
<1>3. CASE OrsSubscribe
  BY <1>3, LogsKept DEF OrsSubscribe
<1>4. CASE QueryPubkeys \/ QuerySockets \/ OrsFails
  <2>1. UNCHANGED <<height, sub, wire, proxyC, logCache, delivered, excused>>
    BY <1>4 DEF QueryPubkeys, QuerySockets, OrsFails, logsVars
  <2> QED BY <2>1, LogsUntouched
<1>5. CASE OnPubkey \/ OnSocket
  <2>1. "pubkeys" \in Subs /\ "sockets" \in Subs
    BY RegistrationsAssumption
  <2> QED BY <1>5, <2>1, LogsSent DEF OnPubkey, OnSocket
<1> QED BY <1>1, <1>2, <1>3, <1>4, <1>5 DEF OrsNext

\* The two subscriptions.
LEMMA TwoSubs ==
  /\ "pubkeys" \in Subs /\ "sockets" \in Subs
  /\ \A s \in Subs : s = "pubkeys" \/ s = "sockets"
BY RegistrationsAssumption

\* Steps of the chain and of the subscriptions that send nothing to the service.
OrsStill ==
  /\ UNCHANGED registrationsVars /\ delivered' = delivered
  /\ height \in Nat /\ height' \in Nat /\ height <= height'
  /\ \A s \in Subs : sub'[s].start = sub[s].start /\ (Opened(s) => Opened(s)')

\* A step that leaves the service alone preserves its invariant.
LEMMA OrsStillKeeps ==
  ASSUME LogsInv, OrsInv, OrsStill
  PROVE  OrsInv'
<1>1. /\ ors' = ors /\ pubkeysById' = pubkeysById /\ socketById' = socketById
      /\ delivered' = delivered
  BY DEF OrsStill, registrationsVars
<1>2. \A n \in Nat : n <= height => n <= height'
  BY SMT DEF OrsStill
<1>3. PastLogs("pubkeys") \subseteq PastLogs("pubkeys")'
  BY <1>2, LogFacts DEF PastLogs
<1>4. \A l : Before(l)' <=> Before(l)
  BY DEF OrsStill, Before
<1>5. ASSUME NEW o, SocketKnown(o) PROVE SocketKnown(o)'
  <2>1. sub'["sockets"].start = sub["sockets"].start /\ sub["sockets"].start \in Nat
    BY TwoSubs, SubTypes DEF OrsStill, LogsInv
  <2>2. sub["sockets"].start..height \subseteq sub["sockets"].start..height'
    BY <2>1, SMT DEF OrsStill
  <2> QED BY <1>1, <1>5, <2>1, <2>2 DEF SocketKnown
<1>6. /\ ors.pc \notin {"pubkeys", "failed"} => Opened("pubkeys")'
      /\ ors.pc \in {"query pubkeys", "query sockets", "loop"} => Opened("sockets")'
  BY TwoSubs DEF OrsInv, OrsStill
<1>7. \A o \in pubkeysById \cup ors.found : o \in {l.operator : l \in PastLogs("pubkeys")'}
  BY <1>3 DEF OrsInv
<1>8. ors.pc = "query sockets" => \A l \in Logs : Before(l)' => l.operator \in ors.found
  BY <1>4 DEF OrsInv
<1>9. ors.pc = "loop" =>
       /\ \A l \in Logs : Before(l)' => l.operator \in pubkeysById \cap DOMAIN socketById
       /\ \A l \in Range(delivered["pubkeys"]) : l.operator \in pubkeysById
       /\ \A l \in Range(delivered["sockets"]) : l.operator \in DOMAIN socketById
       /\ \A o \in DOMAIN socketById : SocketKnown(o)'
  BY <1>4, <1>5 DEF OrsInv
<1> QED BY <1>1, <1>6, <1>7, <1>8, <1>9 DEF OrsInv

\* No step of a subscription changes where one that is open began.
LEMMA StepStill ==
  ASSUME FilterInOrder, LogsInv, NEW s \in Subs, UNCHANGED registrationsVars,
         Arrive(s) \/ Disconnect(s) \/ LogsStep(s) \/ Resubscribe(s) \/ ResubFails(s)
  PROVE  OrsStill
<1>1. LogsDomains /\ SubInv(s)
  BY LogsInvOf
<1>2. OthersQuiet(s) /\ delivered' = delivered
  BY <1>1, StepTypes DEF LogsStep
<1>3. height' = height
  BY DEF Arrive, Disconnect, LogsStep, TakeLog, SkipLog, ResubBlockNumber, ResubFilterLogs,
         Resubscribe, ResubFails
<1>4. height \in Nat /\ height <= height
  BY <1>1, SMT DEF LogsDomains
<1>5. sub'[s].start = sub[s].start /\ (Opened(s) => Opened(s)')
  <2>1. CASE Arrive(s)
    BY <2>1 DEF Arrive, Opened
  <2>2. CASE Disconnect(s)
    BY <1>1, <2>2, SMT DEF Disconnect, LogsDomains, SubRecords, Opened
  <2>3. CASE TakeLog(s)
    BY <1>1, <2>3, SMT DEF TakeLog, LogsDomains, SubRecords, Opened
  <2>4. CASE SkipLog(s)
    <3>1. sub'[s] = Rest(s) /\ sub[s].pc = "send"
      BY <1>1, <2>4 DEF SkipLog, LogsDomains
    <3>2. Rest(s).start = sub[s].start /\ Rest(s).pc \in {"select", "send"}
      BY <1>1, <3>1, RestGoes
    <3> QED BY <3>1, <3>2 DEF Opened
  <2>5. CASE ResubBlockNumber(s)
    <3> DEFINE from == FromBlock(sub[s].lastBlock, height)
    <3>1. \/ sub' = [sub EXCEPT ![s].pc = "select"]
          \/ sub' = [sub EXCEPT ![s].pc = "fetch", ![s].from = from, ![s].to = height]
      BY <2>5 DEF ResubBlockNumber
    <3> HIDE DEF from
    <3>2. CASE sub' = [sub EXCEPT ![s].pc = "select"]
      BY <1>1, <3>2, SMT DEF LogsDomains, SubRecords, Opened
    <3>3. CASE sub' = [sub EXCEPT ![s].pc = "fetch", ![s].from = from, ![s].to = height]
      BY <1>1, <3>3, SMT DEF LogsDomains, SubRecords, Opened
    <3> QED BY <3>1, <3>2, <3>3
  <2>6. CASE ResubFilterLogs(s)
    <3> DEFINE to == Smaller(sub[s].from + BlockChunkSize - 1, sub[s].to)
               todo == sub[s].todo \o FilterLogs(s, sub[s].from, to)
               pc == IF to < sub[s].to THEN "fetch" ELSE IF todo = <<>> THEN "select" ELSE "send"
    <3>1. sub' = [sub EXCEPT ![s].pc = pc, ![s].todo = todo,
                             ![s].from = IF pc = "fetch" THEN sub[s].from + BlockChunkSize ELSE 0,
                             ![s].to = IF pc = "fetch" THEN @ ELSE 0]
      BY <2>6 DEF ResubFilterLogs
    <3>2. pc \in {"select", "send", "fetch"}
      OBVIOUS
    <3> HIDE DEF to, todo, pc
    <3>3. sub'[s].pc = pc /\ sub'[s].start = sub[s].start
      BY <1>1, <3>1, SMT DEF LogsDomains, SubRecords
    <3> QED BY <3>2, <3>3 DEF Opened
  <2>7. CASE Resubscribe(s)
    BY <1>1, <2>7, SMT DEF Resubscribe, LogsDomains, SubRecords, Opened
  <2>8. CASE ResubFails(s)
    BY <1>1, <2>8, SMT DEF ResubFails, LogsDomains, SubRecords, Opened
  <2> QED BY <2>1, <2>2, <2>3, <2>4, <2>5, <2>6, <2>7, <2>8 DEF LogsStep
<1>6. ASSUME NEW k \in Subs, k # s
      PROVE  sub'[k].start = sub[k].start /\ (Opened(k) => Opened(k)')
  BY <1>2, <1>6 DEF OthersQuiet, Quiet, Opened
<1> QED BY <1>2, <1>3, <1>4, <1>5, <1>6 DEF OrsStill

\* The subscriptions are opened one after the other.
LEMMA OrsSubscribeKeeps ==
  ASSUME FilterInOrder, LogsInv, OrsInv, OrsSubscribe
  PROVE  OrsInv'
<1>1. PICK s \in Subs :
      /\ s \in {"pubkeys", "sockets"} /\ ors.pc = s
      /\ pubkeysById' = pubkeysById /\ socketById' = socketById
      /\ \/ SubscribeBegin(s) /\ ors' = ors
         \/ SubscribeEnd(s) /\ ors' = [ors EXCEPT !.pc = InitOrder(s)]
  BY TwoSubs DEF OrsSubscribe
<1>2. LogsDomains /\ SubInv(s)
  BY <1>1, LogsInvOf
<1>3. OthersQuiet(s) /\ delivered' = delivered
  BY <1>1, <1>2, StepTypes
<1>4. height' = height
  BY <1>1 DEF SubscribeBegin, SubscribeEnd
<1>5. /\ ors'.found = ors.found
      /\ ors'.pc = s \/ (ors'.pc = InitOrder(s) /\ SubscribeEnd(s))
  <2>1. ors \in [pc : {"pubkeys", "sockets", "query pubkeys", "query sockets", "loop", "failed"},
                 found : SUBSET Operators]
    BY DEF OrsInv
  <2> QED BY <1>1, <2>1
<1>6. InitOrder("pubkeys") = "sockets" /\ InitOrder("sockets") = "query pubkeys"
  BY DEF InitOrder
<1>7. ASSUME SubscribeEnd(s) PROVE Opened(s)'
  <2>1. sub \in [Subs -> SubRecords] /\ s \in Subs
    BY <1>1, <1>2 DEF LogsDomains
  <2>2. sub'[s].pc = "select"
    BY <1>7, <2>1, SMT DEF SubscribeEnd, SubRecords
  <2> QED BY <2>2 DEF Opened
<1>8. s = "sockets" => Opened("pubkeys")'
  <2>1. s = "sockets" => Opened("pubkeys")
    BY <1>1 DEF OrsInv
  <2> QED BY <1>3, <2>1, TwoSubs DEF OthersQuiet, Quiet, Opened
<1>9. /\ ors'.pc \in {"pubkeys", "sockets", "query pubkeys"}
      /\ ors'.pc # "pubkeys" => Opened("pubkeys")'
      /\ ors'.pc = "query pubkeys" => Opened("sockets")'
  <2>1. CASE s = "pubkeys"
    BY <1>5, <1>6, <1>7, <2>1
  <2>2. CASE s = "sockets"
    BY <1>5, <1>6, <1>7, <1>8, <2>2
  <2> QED BY <1>1, <2>1, <2>2
<1>10. ors' \in [pc : {"pubkeys", "sockets", "query pubkeys", "query sockets", "loop", "failed"},
                 found : SUBSET Operators]
  <2>1. ors \in [pc : {"pubkeys", "sockets", "query pubkeys", "query sockets", "loop", "failed"},
                 found : SUBSET Operators]
    BY DEF OrsInv
  <2>2. InitOrder(s) \in {"sockets", "query pubkeys"}
    BY <1>1, <1>6
  <2> QED BY <1>1, <2>1, <2>2
<1>11. DOMAIN socketById = {} /\ \A k \in Subs : delivered[k] = <<>>
  BY <1>1 DEF OrsInv
<1>12. \A o \in pubkeysById \cup ors.found : o \in {l.operator : l \in PastLogs("pubkeys")'}
  BY <1>4 DEF OrsInv, PastLogs
<1>13. pubkeysById \subseteq Operators
  BY DEF OrsInv
<1> QED BY <1>1, <1>3, <1>5, <1>9, <1>10, <1>11, <1>12, <1>13 DEF OrsInv

\* The past registrations are read after both subscriptions have begun.
LEMMA QueryPubkeysKeeps ==
  ASSUME LogsInv, OrsInv, QueryPubkeys
  PROVE  OrsInv'
<1>1. /\ ors.pc = "query pubkeys"
      /\ ors' = [pc |-> "query sockets", found |-> {l.operator : l \in PastLogs("pubkeys")}]
      /\ height' = height /\ sub' = sub /\ delivered' = delivered
      /\ pubkeysById' = pubkeysById /\ socketById' = socketById
  BY DEF QueryPubkeys, InitOrder, logsVars
<1>2. /\ ors'.pc = "query sockets"
      /\ ors'.found = {l.operator : l \in PastLogs("pubkeys")}
  BY <1>1
<1>3. {l.operator : l \in PastLogs("pubkeys")} \in SUBSET Operators
  BY DEF PastLogs, Operators
<1>4. ors' \in [pc : {"pubkeys", "sockets", "query pubkeys", "query sockets", "loop", "failed"},
                found : SUBSET Operators]
  BY <1>1, <1>3
<1>5. PastLogs("pubkeys")' = PastLogs("pubkeys")
  BY <1>1 DEF PastLogs
<1>6. ASSUME NEW l \in Logs, Before(l) PROVE l \in PastLogs("pubkeys")
  <2>1. PICK s \in Subs : l.block <= sub[s].start
    BY <1>6 DEF Before
  <2>2. /\ l.block \in Nat /\ sub[s].start \in Nat /\ height \in Nat /\ sub[s].start <= height
    BY LogFacts, SubTypes, LogsInvOf DEF SubInv, Places
  <2>3. l.block <= height
    BY <2>1, <2>2, SMT
  <2> QED BY <1>6, <2>3 DEF Before, PastLogs
<1>7. \A l \in Logs : Before(l)' => l.operator \in ors'.found
  BY <1>1, <1>2, <1>6 DEF Before
<1>8. Opened("pubkeys")' /\ Opened("sockets")'
  BY <1>1 DEF OrsInv, Opened
<1>9. /\ pubkeysById \subseteq Operators
      /\ \A o \in pubkeysById : o \in {l.operator : l \in PastLogs("pubkeys")}
      /\ DOMAIN socketById = {} /\ \A k \in Subs : delivered[k] = <<>>
  BY <1>1 DEF OrsInv
<1> QED BY <1>1, <1>2, <1>4, <1>5, <1>7, <1>8, <1>9 DEF OrsInv

\* The sockets are read for the registrations found.
LEMMA QuerySocketsKeeps ==
  ASSUME LogsInv, OrsInv, QuerySockets
  PROVE  OrsInv'
<1> DEFINE entries == [o \in ors.found |-> LastSocket(PastLogs("sockets"), o)]
<1>1. /\ ors.pc = "query sockets" /\ ors' = [pc |-> "loop", found |-> {}]
      /\ height' = height /\ sub' = sub /\ delivered' = delivered
      /\ pubkeysById' = pubkeysById \cup ors.found /\ socketById' = Assigned(socketById, entries)
  BY DEF QuerySockets, InitOrder, logsVars
<1>2. ors'.pc = "loop" /\ ors'.found = {}
  BY <1>1
<1>3. ors' \in [pc : {"pubkeys", "sockets", "query pubkeys", "query sockets", "loop", "failed"},
                found : SUBSET Operators]
  BY <1>1
<1>4. /\ pubkeysById \subseteq Operators /\ ors.found \subseteq Operators
      /\ \A o \in pubkeysById \cup ors.found : o \in {l.operator : l \in PastLogs("pubkeys")}
      /\ DOMAIN socketById = {} /\ \A k \in Subs : delivered[k] = <<>>
      /\ \A l \in Logs : Before(l) => l.operator \in ors.found
      /\ Opened("pubkeys") /\ Opened("sockets")
  BY <1>1 DEF OrsInv
<1>5. /\ DOMAIN socketById' = ors.found
      /\ \A o \in ors.found : socketById'[o] = LastSocket(PastLogs("sockets"), o)
  BY <1>1, <1>4 DEF Assigned
<1>6. delivered["pubkeys"] = <<>> /\ delivered["sockets"] = <<>>
  BY <1>4, TwoSubs
<1>7. ASSUME NEW o \in ors.found PROVE SocketKnown(o)'
  <2>1. sub["sockets"].start \in Nat /\ height \in Nat /\ sub["sockets"].start <= height
    BY TwoSubs, SubTypes, LogsInvOf DEF SubInv, Places
  <2>2. height \in sub["sockets"].start..height /\ \A n \in Nat : n \in 0..height <=> n <= height
    BY <2>1, SMT
  <2>3. LogsIn("sockets", 0, height) = PastLogs("sockets")
    BY <2>2, LogFacts DEF LogsIn, PastLogs
  <2>4. 1..Len(delivered["sockets"]) = {}
    BY <1>6, SMT
  <2>5. socketById'[o] = LastSocket(LogsIn("sockets", 0, height), o)
    BY <1>5, <2>3
  <2> QED BY <1>1, <2>2, <2>4, <2>5 DEF SocketKnown
<1>8. /\ PastLogs("pubkeys")' = PastLogs("pubkeys") /\ \A l \in Logs : Before(l)' <=> Before(l)
      /\ Opened("pubkeys")' /\ Opened("sockets")'
  BY <1>1, <1>4 DEF PastLogs, Before, Opened
<1>9. Range(delivered'["pubkeys"]) = {} /\ Range(delivered'["sockets"]) = {}
  BY <1>1, <1>6, RangeSmall
<1> HIDE DEF entries
<1>10. \A l \in Logs : Before(l)' => l.operator \in pubkeysById' \cap DOMAIN socketById'
  BY <1>1, <1>4, <1>5, <1>8
<1> QED BY <1>1, <1>2, <1>3, <1>4, <1>5, <1>7, <1>8, <1>9, <1>10 DEF OrsInv

\* The service fails before its loop.
LEMMA OrsFailsKeeps ==
  ASSUME OrsInv, OrsFails
  PROVE  OrsInv'
<1>1. /\ ors.pc # "loop" /\ ors' = [pc |-> "failed", found |-> {}]
      /\ height' = height /\ delivered' = delivered
      /\ pubkeysById' = pubkeysById /\ socketById' = socketById
  BY DEF OrsFails
<1>2. ors'.pc = "failed" /\ ors'.found = {}
  BY <1>1
<1>3. ors' \in [pc : {"pubkeys", "sockets", "query pubkeys", "query sockets", "loop", "failed"},
                found : SUBSET Operators]
  BY <1>1
<1>4. PastLogs("pubkeys")' = PastLogs("pubkeys")
  BY <1>1 DEF PastLogs
<1>5. /\ pubkeysById \subseteq Operators
      /\ \A o \in pubkeysById : o \in {l.operator : l \in PastLogs("pubkeys")}
      /\ DOMAIN socketById = {} /\ \A k \in Subs : delivered[k] = <<>>
  BY <1>1 DEF OrsInv
<1> QED BY <1>1, <1>2, <1>3, <1>4, <1>5 DEF OrsInv

\* A registration reaches the service.
LEMMA OnPubkeyKeeps ==
  ASSUME LogsInv, OrsInv, OnPubkey
  PROVE  OrsInv'
<1>1. PICK l \in Logs : SendLog("pubkeys", l) /\ pubkeysById' = pubkeysById \cup {l.operator}
  BY DEF OnPubkey
<1>2. /\ ors.pc = "loop" /\ ors' = ors /\ socketById' = socketById
  BY DEF OnPubkey
<1>3. LogsDomains /\ SubInv("pubkeys") /\ "pubkeys" \in Subs /\ "sockets" \in Subs
  BY LogsInvOf, TwoSubs
<1>4. OthersQuiet("pubkeys") /\ height' = height
  BY <1>1, <1>3, SendTypes DEF SendLog
<1>5. /\ delivered'["sockets"] = delivered["sockets"] /\ sub'["sockets"] = sub["sockets"]
  BY <1>3, <1>4 DEF OthersQuiet, Quiet
<1>6. /\ sub["pubkeys"].pc = "send" /\ l = Head(sub["pubkeys"].todo)
      /\ delivered'["pubkeys"] = Append(delivered["pubkeys"], l)
      /\ sub'["pubkeys"] = [Rest("pubkeys") EXCEPT !.lastBlock = Larger(Rest("pubkeys").lastBlock, l.block)]
  BY <1>1, <1>3 DEF SendLog, LogsDomains
<1>7. /\ Range(sub["pubkeys"].todo) = {l} \cup Range(Rest("pubkeys").todo)
      /\ Rest("pubkeys").start = sub["pubkeys"].start /\ Rest("pubkeys").pc \in {"select", "send"}
      /\ Rest("pubkeys") \in SubRecords
  BY <1>3, <1>6, RestGoes
<1>8. sub'["pubkeys"].start = sub["pubkeys"].start /\ sub'["pubkeys"].pc \in {"select", "send"}
  BY <1>6, <1>7, SMT DEF SubRecords
<1>9. Range(delivered'["pubkeys"]) = Range(delivered["pubkeys"]) \cup {l}
  <2>1. delivered["pubkeys"] \in Seq(Logs)
    BY <1>3, SubTypes
  <2>2. Range(Append(delivered["pubkeys"], l)) = Range(delivered["pubkeys"]) \cup {l}
    BY <2>1, LogAppended
  <2> QED BY <1>6, <2>2
<1>10. l \in PastLogs("pubkeys")
  BY <1>3, <1>7 DEF SubInv, Streams, PastLogs
<1>11. Opened("pubkeys")' /\ Opened("sockets")'
  BY <1>2, <1>5, <1>8 DEF OrsInv, Opened
<1>12. \A m \in Logs : Before(m)' <=> Before(m)
  <2>1. \A s \in Subs : sub'[s].start = sub[s].start
    BY <1>5, <1>8, TwoSubs
  <2> QED BY <2>1 DEF Before
<1>13. PastLogs("pubkeys")' = PastLogs("pubkeys")
  BY <1>4 DEF PastLogs
<1>14. \A o \in DOMAIN socketById : SocketKnown(o)'
  <2>1. \A o \in DOMAIN socketById : SocketKnown(o)
    BY <1>2 DEF OrsInv
  <2> QED BY <1>2, <1>4, <1>5, <2>1, SMT DEF SocketKnown
<1>15. /\ \A m \in Logs : Before(m)' => m.operator \in pubkeysById' \cap DOMAIN socketById
       /\ \A m \in Range(delivered'["pubkeys"]) : m.operator \in pubkeysById'
       /\ \A m \in Range(delivered'["sockets"]) : m.operator \in DOMAIN socketById
  BY <1>1, <1>2, <1>5, <1>9, <1>12 DEF OrsInv
<1>16. /\ pubkeysById' \subseteq Operators
       /\ \A o \in pubkeysById' \cup ors.found : o \in {m.operator : m \in PastLogs("pubkeys")}
  BY <1>1, <1>10 DEF OrsInv, Operators
<1> QED BY <1>2, <1>11, <1>13, <1>14, <1>15, <1>16 DEF OrsInv

\* An update of a socket reaches the service: it is the operator's last one.
LEMMA OnSocketKeeps ==
  ASSUME LogsInv, OrsInv, OnSocket
  PROVE  OrsInv'
<1> DEFINE q == delivered["sockets"]
<1>1. PICK l \in Logs : /\ SendLog("sockets", l)
                        /\ socketById' = Assigned(socketById, [o \in {l.operator} |-> l.socket])
  BY DEF OnSocket
<1>2. /\ ors.pc = "loop" /\ ors' = ors /\ pubkeysById' = pubkeysById
  BY DEF OnSocket
<1>3. LogsDomains /\ SubInv("sockets") /\ "pubkeys" \in Subs /\ "sockets" \in Subs
  BY LogsInvOf, TwoSubs
<1>4. OthersQuiet("sockets") /\ height' = height
  BY <1>1, <1>3, SendTypes DEF SendLog
<1>5. /\ delivered'["pubkeys"] = delivered["pubkeys"] /\ sub'["pubkeys"] = sub["pubkeys"]
  BY <1>3, <1>4 DEF OthersQuiet, Quiet
<1>6. /\ sub["sockets"].pc = "send" /\ l = Head(sub["sockets"].todo)
      /\ delivered'["sockets"] = Append(q, l)
      /\ sub'["sockets"] = [Rest("sockets") EXCEPT !.lastBlock = Larger(Rest("sockets").lastBlock, l.block)]
  BY <1>1, <1>3 DEF SendLog, LogsDomains
<1>7. /\ Rest("sockets").start = sub["sockets"].start /\ Rest("sockets").pc \in {"select", "send"}
      /\ Rest("sockets") \in SubRecords
  BY <1>3, <1>6, RestGoes
<1>8. sub'["sockets"].start = sub["sockets"].start /\ sub'["sockets"].pc \in {"select", "send"}
  BY <1>6, <1>7, SMT DEF SubRecords
<1>9. /\ Range(Append(q, l)) = Range(q) \cup {l}
      /\ Len(Append(q, l)) = Len(q) + 1 /\ Append(q, l)[Len(q) + 1] = l
      /\ \A j \in 1..Len(q) : Append(q, l)[j] = q[j]
      /\ Len(q) \in Nat
  <2>1. q \in Seq(Logs)
    BY <1>3, SubTypes
  <2> QED BY <2>1, LogAppended, RangeSeq
<1>10. /\ DOMAIN socketById' = DOMAIN socketById \cup {l.operator}
       /\ socketById'[l.operator] = l.socket
       /\ \A o \in DOMAIN socketById : o # l.operator => socketById'[o] = socketById[o]
  BY <1>1 DEF Assigned
<1>11. Opened("pubkeys")' /\ Opened("sockets")'
  BY <1>2, <1>5, <1>8 DEF OrsInv, Opened
<1>12. \A m \in Logs : Before(m)' <=> Before(m)
  <2>1. \A s \in Subs : sub'[s].start = sub[s].start
    BY <1>5, <1>8, TwoSubs
  <2> QED BY <2>1 DEF Before
<1>13. PastLogs("pubkeys")' = PastLogs("pubkeys")
  BY <1>4 DEF PastLogs
<1> DEFINE own(o) == {j \in 1..Len(q) : q[j].operator = o}
           ownNext(o) == {j \in 1..Len(Append(q, l)) : Append(q, l)[j].operator = o}
           n == Len(q) + 1
<1>14. ASSUME NEW o \in DOMAIN socketById' PROVE SocketKnown(o)'
  <2>1. CASE o = l.operator
    <3>1. n \in ownNext(o) /\ \A k \in ownNext(o) : k <= n
      <4>1. n \in 1..Len(Append(q, l)) /\ \A k \in 1..Len(Append(q, l)) : k <= n
        BY <1>9, SMT
      <4> QED BY <1>9, <2>1, <4>1
    <3>2. socketById'[o] = Append(q, l)[n].socket
      BY <1>9, <1>10, <2>1
    <3> QED BY <1>6, <3>1, <3>2 DEF SocketKnown
  <2>2. CASE o # l.operator
    <3>1. SocketKnown(o) /\ socketById'[o] = socketById[o]
      BY <1>2, <1>10, <1>14, <2>2 DEF OrsInv
    <3>2. ownNext(o) = own(o)
      <4>1. \A j : j \in 1..Len(Append(q, l)) <=> j \in 1..Len(q) \/ j = n
        BY <1>9, SMT
      <4>2. Append(q, l)[n].operator # o
        BY <1>9, <2>2
      <4> QED BY <1>9, <4>1, <4>2
    <3>3. \A j \in own(o) : Append(q, l)[j] = q[j]
      BY <1>9
    <3> HIDE DEF n
    <3>4. CASE own(o) = {}
      <4>1. \E h \in sub["sockets"].start..height :
               socketById[o] = LastSocket(LogsIn("sockets", 0, h), o)
        BY <3>1, <3>4 DEF SocketKnown
      <4>2. \E h \in sub'["sockets"].start..height' :
               socketById'[o] = LastSocket(LogsIn("sockets", 0, h), o)
        BY <1>4, <1>8, <3>1, <4>1
      <4>3. {j \in 1..Len(delivered'["sockets"]) : delivered'["sockets"][j].operator = o} = {}
        BY <1>6, <3>2, <3>4
      <4> QED BY <4>2, <4>3 DEF SocketKnown
    <3>5. CASE own(o) # {}
      <4>1. PICK j \in own(o) : (\A k \in own(o) : k <= j) /\ socketById[o] = q[j].socket
        BY <3>1, <3>5 DEF SocketKnown
      <4>2. socketById'[o] = Append(q, l)[j].socket /\ j \in ownNext(o)
            /\ \A k \in ownNext(o) : k <= j
        BY <3>1, <3>2, <3>3, <4>1
      <4> QED BY <1>6, <4>2 DEF SocketKnown
    <3> QED BY <3>4, <3>5
  <2> QED BY <2>1, <2>2
<1>15. /\ \A m \in Logs : Before(m)' => m.operator \in pubkeysById \cap DOMAIN socketById'
       /\ \A m \in Range(delivered'["pubkeys"]) : m.operator \in pubkeysById
       /\ \A m \in Range(delivered'["sockets"]) : m.operator \in DOMAIN socketById'
  BY <1>2, <1>5, <1>6, <1>9, <1>10, <1>12 DEF OrsInv
<1> HIDE DEF q
<1> QED BY <1>2, <1>11, <1>13, <1>14, <1>15 DEF OrsInv

\* The invariants hold at the start, and every step keeps them.
LEMMA OrsStart ==
  ASSUME OrsInit
  PROVE  LogsInv /\ OrsInv
<1>1. LogsInv
  BY LogsStart DEF OrsInit
<1>2. /\ ors = [pc |-> "pubkeys", found |-> {}] /\ pubkeysById = {} /\ socketById = <<>>
      /\ delivered = [s \in Subs |-> <<>>]
  BY DEF OrsInit, LogsInit, InitOrder
<1>3. DOMAIN <<>> = {}
  BY SMT
<1>4. ors.pc = "pubkeys" /\ ors.found = {}
  BY <1>2
<1>5. ors \in [pc : {"pubkeys", "sockets", "query pubkeys", "query sockets", "loop", "failed"},
               found : SUBSET Operators]
  BY <1>2
<1>6. OrsInv
  BY <1>2, <1>3, <1>4, <1>5 DEF OrsInv
<1> QED BY <1>1, <1>6

\* Every step preserves the invariant of the service.
LEMMA OrsKept ==
  ASSUME FilterInOrder, LogsInv, OrsInv, OrsNext
  PROVE  OrsInv'
<1>1. CASE Mine /\ UNCHANGED registrationsVars
  <2>1. height \in Nat
    BY LogsInvOf DEF LogsDomains
  <2>2. height' \in Nat /\ height <= height'
    BY <1>1, <2>1, SMT DEF Mine
  <2>3. OrsStill
    BY <1>1, <2>1, <2>2 DEF Mine, OrsStill, Opened
  <2> QED BY <2>3, OrsStillKeeps
<1>2. ASSUME NEW s \in Subs, UNCHANGED registrationsVars,
             Arrive(s) \/ Disconnect(s) \/ LogsStep(s) \/ Resubscribe(s) \/ ResubFails(s)
      PROVE  OrsInv'
  BY <1>2, StepStill, OrsStillKeeps
<1> QED BY <1>1, <1>2, OrsSubscribeKeeps, QueryPubkeysKeeps, QuerySocketsKeeps, OrsFailsKeeps,
           OnPubkeyKeeps, OnSocketKeeps DEF OrsNext

\* So does a step that changes nothing, for both invariants.
LEMMA OrsStutter ==
  ASSUME LogsInv, OrsInv, UNCHANGED orsVars
  PROVE  LogsInv' /\ OrsInv'
<1>1. /\ UNCHANGED <<height, sub, wire, proxyC, logCache, delivered, excused>>
      /\ UNCHANGED registrationsVars
  BY DEF orsVars, logsVars, registrationsVars
<1>2. LogsInv'
  BY <1>1, LogsUntouched
<1>3. height \in Nat
  BY LogsInvOf DEF LogsDomains
<1>4. height <= height
  BY <1>3, SMT
<1>5. OrsStill
  BY <1>1, <1>3, <1>4 DEF OrsStill, Opened
<1> QED BY <1>2, <1>5, OrsStillKeeps

\* With nothing under way, every log of a block after the subscription began has been
\* sent or is excused.
LEMMA SettledSent ==
  ASSUME LogsInv, NEW s \in Subs, Settled(s), NEW l \in Logs, l.sub = s, l.block <= height,
         l \notin excused
  PROVE  l \in Range(delivered[s]) \/ l.block <= sub[s].start
<1>1. SubInv(s) /\ LogsDomains
  BY LogsInvOf
<1>2. Range(sub[s].todo) = {} /\ Range(proxyC[s]) = {} /\ Range(wire[s]) = {} /\ sub[s].live
      /\ sub[s].pc = "select"
  BY <1>1, RangeSmall DEF Settled, SubInv, Places
<1>3. l \notin Waiting(s)
  BY <1>1, <1>2 DEF SubInv, Accounted, Opened
<1>4. l \in Range(delivered[s]) \/ ~(sub[s].start < l.block)
  BY <1>3 DEF Waiting, Undelivered
<1>5. sub[s].start \in Nat /\ l.block \in Nat
  BY <1>1, SubTypes, LogFacts
<1>6. ~(sub[s].start < l.block) => l.block <= sub[s].start
  BY <1>5, SMT
<1> QED BY <1>4, <1>6

\* The last log of an operator among those that reached the service is its last log.
LEMMA LastSent ==
  ASSUME LogsInv, NEW s \in Subs, Settled(s), NEW o, \A l \in excused : l.operator # o,
         NEW j \in 1..Len(delivered[s]), delivered[s][j].operator = o,
         \A k \in 1..Len(delivered[s]) : delivered[s][k].operator = o => k <= j
  PROVE  LastSocket(PastLogs(s), o) = delivered[s][j].socket
<1> DEFINE d == delivered[s][j]
           own == {l \in PastLogs(s) : l.operator = o}
<1>1. SubInv(s) /\ LogsDomains /\ LogsOnceInOrder
  BY LogsInvOf
<1>2. /\ delivered[s] \in Seq(Logs) /\ sub[s].lastBlock \in Nat /\ sub[s].start \in Nat
      /\ height \in Nat
  BY <1>1, SubTypes
<1>3. /\ Range(delivered[s]) = {delivered[s][k] : k \in 1..Len(delivered[s])}
      /\ Range(delivered[s]) \subseteq Logs /\ Len(delivered[s]) \in Nat
  BY <1>2, RangeSeq
<1>4. d \in Range(delivered[s]) /\ d \in Logs /\ d.id \in Nat /\ d.block \in Nat
  BY <1>3, LogFacts
<1>5. d \in own
  <2>1. d.sub = s /\ d.block <= sub[s].lastBlock /\ sub[s].lastBlock <= height
    BY <1>1, <1>4 DEF SubInv, Streams, Places
  <2>2. d.block <= height
    BY <1>2, <1>4, <2>1, SMT
  <2> QED BY <1>4, <2>1, <2>2 DEF PastLogs
<1>6. d \notin excused
  OBVIOUS
<1>7. ASSUME NEW m \in own PROVE m.id <= d.id
  <2>1. /\ m \in Logs /\ m.sub = s /\ m.block <= height /\ m.operator = o
        /\ m.id \in Nat /\ m.block \in Nat
    BY LogFacts DEF PastLogs
  <2>2. CASE m \in Range(delivered[s])
    <3>1. PICK k \in 1..Len(delivered[s]) : delivered[s][k] = m
      BY <1>3, <2>2
    <3>2. k <= j
      BY <2>1, <3>1
    <3>3. k < j \/ k = j
      BY <1>3, <3>2, SMT
    <3>4. k < j => m.id < d.id
      BY <1>1, <1>6, <3>1 DEF LogsOnceInOrder
    <3>5. m.id < d.id \/ m = d
      BY <3>1, <3>3, <3>4
    <3> HIDE DEF d
    <3> QED BY <1>4, <2>1, <3>5, SMT
  <2>3. CASE m \notin Range(delivered[s])
    <3>1. m.block <= sub[s].start
      BY <2>1, <2>3, SettledSent
    <3>2. ASSUME d.id < m.id PROVE FALSE
      <4>1. d.block <= m.block
        BY <1>4, <2>1, <3>2, LogFacts
      <4> HIDE DEF d
      <4>2. m.block \in d.block..sub[s].start
        BY <1>2, <1>4, <2>1, <3>1, <4>1, SMT
      <4>3. m \in LogsIn(s, d.block, sub[s].start)
        BY <2>1, <4>2 DEF LogsIn
      <4>4. sub[s].pc = "select"
        BY DEF Settled
      <4> QED BY <1>1, <1>4, <2>3, <4>3, <4>4 DEF SubInv, OldBlocks
    <3> HIDE DEF d
    <3> QED BY <1>4, <2>1, <3>2, SMT
  <2> QED BY <2>2, <2>3
<1> DEFINE last == CHOOSE l \in own : \A k \in own : k.id <= l.id
<1>8. last \in own /\ d.id <= last.id
  BY <1>5, <1>7
<1>9. last = d
  <2>1. last \in Logs /\ last.id \in Nat /\ last.id <= d.id
    BY <1>7, <1>8, LogFacts DEF PastLogs
  <2> HIDE DEF last, d
  <2>2. last.id = d.id
    BY <1>4, <1>8, <2>1, SMT
  <2> QED BY <1>4, <2>1, <2>2, LogFacts
<1>10. LastSocket(PastLogs(s), o) = last.socket
  BY <1>5 DEF LastSocket
<1> HIDE DEF last
<1> QED BY <1>9, <1>10

\* Only an operator's own updates matter for its last socket.
LEMMA SameOwn ==
  ASSUME NEW U, NEW V, NEW o, {l \in U : l.operator = o} = {l \in V : l.operator = o}
  PROVE  LastSocket(U, o) = LastSocket(V, o)
<1> DEFINE A == {l \in U : l.operator = o}
           B == {l \in V : l.operator = o}
           F(S) == IF S = {} THEN NoSocket
                   ELSE (CHOOSE l \in S : \A k \in S : k.id <= l.id).socket
<1>1. A = B
  OBVIOUS
<1>2. LastSocket(U, o) = F(A) /\ LastSocket(V, o) = F(B)
  BY DEF LastSocket
<1> HIDE DEF A, B, F
<1> QED BY <1>1, <1>2

\* The invariants make the answers of the service current.
LEMMA CurrentAnswers ==
  ASSUME LogsInv, OrsInv
  PROVE  RegistrationsCurrent
<1> DEFINE registered == {l.operator : l \in PastLogs("pubkeys")}
<1> SUFFICES ASSUME ors.pc = "loop", \A s \in Subs : Settled(s),
                    NEW o \in Operators, \A l \in excused : l.operator # o
             PROVE  /\ VerifySignature(o, o) <=> o \in registered
                    /\ o \in registered =>
                         GetOperatorInfoById(o)[2] = LastSocket(PastLogs("sockets"), o)
  BY DEF RegistrationsCurrent
<1>1. /\ \A l \in Logs : Before(l) => l.operator \in pubkeysById \cap DOMAIN socketById
      /\ \A l \in Range(delivered["pubkeys"]) : l.operator \in pubkeysById
      /\ \A l \in Range(delivered["sockets"]) : l.operator \in DOMAIN socketById
      /\ \A p \in DOMAIN socketById : SocketKnown(p)
      /\ \A p \in pubkeysById : p \in registered
  BY DEF OrsInv
<1>2. ASSUME o \in registered PROVE o \in pubkeysById /\ o \in DOMAIN socketById
  <2>1. PICK l \in PastLogs("pubkeys") : l.operator = o
    BY <1>2
  <2>2. l \in Logs /\ l.sub = "pubkeys" /\ l.block <= height /\ l \notin excused
    BY <2>1 DEF PastLogs
  <2>3. CASE Before(l)
    BY <1>1, <2>1, <2>2, <2>3
  <2>4. CASE ~Before(l)
    <3>1. \A s \in Subs : ~(l.block <= sub[s].start)
      BY <2>2, <2>4 DEF Before
    <3>2. l \in Range(delivered["pubkeys"])
      BY <2>2, <3>1, TwoSubs, SettledSent
    <3>3. PICK k \in Logs : k.sub = "sockets" /\ k.operator = l.operator /\ k.block = l.block
      BY <2>2, RegistrationsAssumption
    <3>4. k \in Range(delivered["sockets"])
      <4>1. k \notin excused /\ k.block <= height /\ ~(k.block <= sub["sockets"].start)
        BY <2>1, <2>2, <3>1, <3>3, TwoSubs
      <4> QED BY <3>3, <4>1, TwoSubs, SettledSent
    <3> QED BY <1>1, <2>1, <3>2, <3>3, <3>4
  <2> QED BY <2>3, <2>4
<1>3. VerifySignature(o, o) <=> o \in pubkeysById /\ o \in DOMAIN socketById
  BY DEF VerifySignature, GetOperatorInfoById
<1>4. ASSUME o \in registered
      PROVE  socketById[o] = LastSocket(PastLogs("sockets"), o)
  <2> DEFINE own == {j \in 1..Len(delivered["sockets"]) : delivered["sockets"][j].operator = o}
  <2>1. SocketKnown(o)
    BY <1>1, <1>2, <1>4
  <2>2. CASE own = {}
    <3>1. PICK h \in sub["sockets"].start..height :
             socketById[o] = LastSocket(LogsIn("sockets", 0, h), o)
      BY <2>1, <2>2 DEF SocketKnown
    <3>2. sub["sockets"].start \in Nat /\ height \in Nat /\ delivered["sockets"] \in Seq(Logs)
      BY TwoSubs, SubTypes, LogsInvOf
    <3>3. /\ \A n \in Nat : n \in 0..h <=> n <= h
          /\ \A n \in Nat : n <= h => n <= height
          /\ \A n \in Nat : n <= sub["sockets"].start => n <= h
      BY <3>2, SMT
    <3>4. ASSUME NEW l \in PastLogs("sockets"), l.operator = o PROVE l \in LogsIn("sockets", 0, h)
      <4>1. l \in Logs /\ l.sub = "sockets" /\ l.block <= height /\ l \notin excused
        BY <3>4 DEF PastLogs
      <4>2. l \notin Range(delivered["sockets"])
        <5>1. \A d \in Range(delivered["sockets"]) :
                 \E k \in 1..Len(delivered["sockets"]) : d = delivered["sockets"][k]
          BY <3>2, SMT DEF Range
        <5> QED BY <2>2, <3>4, <5>1
      <4>3. l.block <= sub["sockets"].start
        BY <4>1, <4>2, TwoSubs, SettledSent
      <4>4. l.block \in Nat
        BY <4>1, LogFacts
      <4>5. l.block \in 0..h
        BY <3>3, <4>3, <4>4
      <4> QED BY <4>1, <4>5 DEF LogsIn
    <3>5. LogsIn("sockets", 0, h) \subseteq PastLogs("sockets")
      BY <3>3, LogFacts DEF LogsIn, PastLogs
    <3>6. {l \in PastLogs("sockets") : l.operator = o} = {l \in LogsIn("sockets", 0, h) : l.operator = o}
      BY <3>4, <3>5
    <3>7. LastSocket(LogsIn("sockets", 0, h), o) = LastSocket(PastLogs("sockets"), o)
      BY <3>6, SameOwn
    <3> QED BY <3>1, <3>7
  <2>3. CASE own # {}
    <3>1. PICK j \in own : /\ \A k \in own : k <= j
                           /\ socketById[o] = delivered["sockets"][j].socket
      BY <2>1, <2>3 DEF SocketKnown
    <3>2. LastSocket(PastLogs("sockets"), o) = delivered["sockets"][j].socket
      BY <3>1, TwoSubs, LastSent
    <3> QED BY <3>1, <3>2
  <2> QED BY <2>2, <2>3
<1>5. o \in registered => GetOperatorInfoById(o)[2] = socketById[o]
  BY <1>2 DEF GetOperatorInfoById
<1> HIDE DEF registered
<1> QED BY <1>1, <1>2, <1>3, <1>4, <1>5

-----------------------------------------------------------------------------
(* The cache *)

\* A cache c has the ids of the last logs of a sequence, as many as it can hold.
Older(m, n) == m - n

LastOnes(q, c) ==
  /\ Len(c) = Smaller(Len(q), CacheSize)
  /\ \A i \in 1..Len(c) : c[i] = q[Older(Len(q), Len(c)) + i].id

CacheInv ==
  /\ delivered \in [Subs -> Seq(Logs)] /\ logCache \in [Subs -> Seq(Nat)]
  /\ \A s \in Subs : LastOnes(delivered[s], logCache[s])

\* A log that is sent again was sent before the last CacheSize logs.
RepeatsApart ==
  \A s \in Subs : \A j, k \in 1..Len(delivered[s]) :
    j < k /\ delivered[s][j] = delivered[s][k] => j + CacheSize < k

\* A log joins the cache.
Joined(c, l) ==
  IF Len(Append(c, l.id)) > CacheSize THEN Tail(Append(c, l.id)) ELSE Append(c, l.id)

\* Positions counted from the other end.
LEMMA Positions ==
  ASSUME NEW m \in Nat, NEW n \in Nat, n <= m
  PROVE  /\ Older(m, n) \in Nat /\ Older(m, n) + n = m
         /\ Older(m + 1, n + 1) = Older(m, n)
         /\ \A i \in Nat : Older(m + 1, n) + i = Older(m, n) + (i + 1)
BY SMT DEF Older

\* A position that is not in the older part is one of the last n.
LEMMA PositionFromEnd ==
  ASSUME NEW m \in Nat, NEW n \in Nat, NEW j \in 1..m, NEW z \in Nat,
         n = Smaller(m, z), ~(j + z < m + 1)
  PROVE  \E i \in 1..n : Older(m, n) + i = j
<1>1. j - (m - n) \in 1..n /\ Older(m, n) + (j - (m - n)) = j
  BY SMT DEF Older, Smaller
<1> QED BY <1>1, SMT

\* The cache holds the last logs again, with the newest in and the oldest out.
LEMMA JoinedLast ==
  ASSUME NEW q \in Seq(Logs), NEW c \in Seq(Nat), NEW l \in Logs, LastOnes(q, c)
  PROVE  Joined(c, l) \in Seq(Nat) /\ LastOnes(Append(q, l), Joined(c, l))
<1> DEFINE all == Append(c, l.id)
           r == Append(q, l)
<1>1. CacheSize \in Nat /\ CacheSize >= 1 /\ l.id \in Nat
  BY LogsAssumption, LogFacts, SMT
<1>2. /\ all \in Seq(Nat) /\ Len(all) = Len(c) + 1 /\ Len(c) \in Nat
      /\ all[Len(c) + 1] = l.id /\ \A i \in 1..Len(c) : all[i] = c[i]
  BY <1>1, SMT
<1>3. /\ Len(r) = Len(q) + 1 /\ Len(q) \in Nat
      /\ r[Len(q) + 1] = l /\ \A i \in 1..Len(q) : r[i] = q[i]
  BY SMT
<1> HIDE DEF all, r
<1>4. /\ Len(c) = Smaller(Len(q), CacheSize)
      /\ Len(c) \in Nat /\ Len(q) \in Nat /\ Len(all) = Len(c) + 1 /\ Len(r) = Len(q) + 1
  BY <1>2, <1>3 DEF LastOnes
<1>5. Len(c) <= Len(q) /\ (Len(c) = Len(q) \/ Len(c) = CacheSize) /\ Len(c) <= CacheSize
  BY <1>1, <1>4, SMT DEF Smaller
<1>6. Older(Len(r), Len(all)) = Older(Len(q), Len(c)) /\ Older(Len(q), Len(c)) \in Nat /\ Older(Len(q), Len(c)) + Len(c) = Len(q)
  <2>1. Len(c) \in Nat /\ Len(q) \in Nat /\ Len(c) <= Len(q)
    BY <1>4, <1>5
  <2>2. Older(Len(q) + 1, Len(c) + 1) = Older(Len(q), Len(c))
    BY <2>1, Positions
  <2>3. Older(Len(q), Len(c)) \in Nat /\ Older(Len(q), Len(c)) + Len(c) = Len(q)
    BY <2>1, Positions
  <2>4. Len(all) = Len(c) + 1 /\ Len(r) = Len(q) + 1
    BY <1>4
  <2> QED BY <2>2, <2>3, <2>4
<1>7. \A i \in 1..Len(all) : all[i] = r[Older(Len(q), Len(c)) + i].id
  <2> SUFFICES ASSUME NEW i \in 1..Len(all) PROVE all[i] = r[Older(Len(q), Len(c)) + i].id
    OBVIOUS
  <2>1. i \in 1..Len(c) \/ i = Len(c) + 1
    BY <1>4, SMT
  <2>2. CASE i \in 1..Len(c)
    <3>1. Older(Len(q), Len(c)) + i \in 1..Len(q)
      BY <1>4, <1>6, <2>2, SMT
    <3>2. all[i] = q[Older(Len(q), Len(c)) + i].id
      BY <1>2, <2>2 DEF LastOnes
    <3> QED BY <1>3, <3>1, <3>2
  <2>3. CASE i = Len(c) + 1
    <3>1. Older(Len(q), Len(c)) + i = Len(q) + 1
      <4>1. \A a, b, n \in Nat : a + b = n => a + (b + 1) = n + 1
        BY SMT
      <4>2. Older(Len(q), Len(c)) + (Len(c) + 1) = Len(q) + 1
        BY <1>4, <1>6, <4>1
      <4> QED BY <2>3, <4>2
    <3> QED BY <1>2, <1>3, <2>3, <3>1
  <2> QED BY <2>1, <2>2, <2>3
<1>8. CASE Len(all) > CacheSize
  <2>1. Joined(c, l) = Tail(all)
    BY <1>8 DEF all, Joined
  <2>2. /\ Tail(all) \in Seq(Nat) /\ Len(Tail(all)) = Len(c)
        /\ \A i \in 1..Len(c) : Tail(all)[i] = all[i + 1] /\ i + 1 \in 1..Len(all)
    BY <1>2, SMT
  <2>3. Len(Tail(all)) = Smaller(Len(r), CacheSize)
    <3>1. Len(Tail(all)) = Len(c)
      BY <2>2
    <3> QED BY <1>1, <1>4, <1>5, <1>8, <3>1, SMT DEF Smaller
  <2>4. ASSUME NEW i \in 1..Len(Tail(all))
        PROVE  Tail(all)[i] = r[Older(Len(r), Len(Tail(all))) + i].id
    <3>1. i \in 1..Len(c) /\ Len(Tail(all)) = Len(c)
      BY <2>2, <2>4
    <3>2. Older(Len(r), Len(Tail(all))) + i = Older(Len(q), Len(c)) + (i + 1)
      <4>1. i \in Nat
        BY <3>1, SMT
      <4>2. Older(Len(q) + 1, Len(c)) + i = Older(Len(q), Len(c)) + (i + 1)
        <5>1. Len(c) \in Nat /\ Len(q) \in Nat /\ Len(c) <= Len(q)
          BY <1>4, <1>5
        <5>2. \A k \in Nat : Older(Len(q) + 1, Len(c)) + k = Older(Len(q), Len(c)) + (k + 1)
          BY <5>1, Positions, ZenonT(30)
        <5> QED BY <4>1, <5>2
      <4> QED BY <1>4, <3>1, <4>2
    <3> QED BY <1>7, <2>2, <3>1, <3>2
  <2> QED BY <2>1, <2>2, <2>3, <2>4 DEF LastOnes, r
<1>9. CASE ~(Len(all) > CacheSize)
  <2>1. Joined(c, l) = all
    BY <1>9 DEF all, Joined
  <2>2. Len(all) = Smaller(Len(r), CacheSize)
    BY <1>1, <1>4, <1>5, <1>9, SMT DEF Smaller
  <2>3. LastOnes(r, all)
    BY <1>6, <1>7, <2>2 DEF LastOnes
  <2> QED BY <1>2, <2>1, <2>3 DEF r
<1> QED BY <1>8, <1>9

\* What the cache does not have was not among the last logs.
LEMMA LongAgo ==
  ASSUME NEW q \in Seq(Logs), NEW c \in Seq(Nat), LastOnes(q, c), NEW j \in 1..Len(q),
         q[j].id \notin Range(c)
  PROVE  j + CacheSize < Len(q) + 1
<1>1. /\ CacheSize \in Nat /\ Len(q) \in Nat /\ Len(c) \in Nat
      /\ Len(c) = Smaller(Len(q), CacheSize)
  <2>1. CacheSize \in Nat
    BY LogsAssumption, SMT
  <2> QED BY <2>1, RangeSeq DEF LastOnes
<1>2. \A i \in 1..Len(c) : c[i] # q[j].id /\ c[i] = q[Older(Len(q), Len(c)) + i].id
  <2>1. Range(c) = {c[i] : i \in 1..Len(c)}
    BY RangeSeq
  <2> QED BY <2>1 DEF LastOnes
<1>3. ASSUME ~(j + CacheSize < Len(q) + 1) PROVE FALSE
  <2>1. \E i \in 1..Len(c) : Older(Len(q), Len(c)) + i = j
    BY <1>1, <1>3, PositionFromEnd, SMT
  <2> QED BY <1>2, <2>1
<1> QED BY <1>3

\* Logs are sent by the service's loop only, and these steps keep the cache.
LEMMA CacheSent ==
  ASSUME CacheInv, RepeatsApart, NEW s \in Subs, NEW l \in Logs, SendLog(s, l)
  PROVE  CacheInv' /\ RepeatsApart'
<1>1. /\ delivered' = [delivered EXCEPT ![s] = Append(delivered[s], l)]
      /\ logCache' = [logCache EXCEPT ![s] = Joined(logCache[s], l)]
      /\ l.id \notin Range(logCache[s])
      /\ delivered \in [Subs -> Seq(Logs)] /\ logCache \in [Subs -> Seq(Nat)]
      /\ delivered[s] \in Seq(Logs) /\ logCache[s] \in Seq(Nat)
  BY DEF SendLog, tryCacheLog, CacheInv, Cached, Joined
<1>2. LastOnes(delivered[s], logCache[s])
  BY DEF CacheInv
<1>3. /\ Joined(logCache[s], l) \in Seq(Nat)
      /\ LastOnes(Append(delivered[s], l), Joined(logCache[s], l))
  BY <1>1, <1>2, JoinedLast
<1>4. Append(delivered[s], l) \in Seq(Logs)
  BY <1>1, LogAppended
<1>5. ASSUME NEW k \in Subs
      PROVE  /\ k = s => delivered'[k] = Append(delivered[s], l) /\ logCache'[k] = Joined(logCache[s], l)
             /\ k # s => delivered'[k] = delivered[k] /\ logCache'[k] = logCache[k]
  BY <1>1
<1>6. ASSUME NEW k \in Subs PROVE LastOnes(delivered'[k], logCache'[k])
  <2>1. CASE k = s
    BY <1>3, <1>5, <2>1
  <2>2. CASE k # s
    BY <1>5, <2>2 DEF CacheInv
  <2> QED BY <2>1, <2>2
<1>7. CacheInv'
  <2>1. delivered' \in [Subs -> Seq(Logs)] /\ logCache' \in [Subs -> Seq(Nat)]
    BY <1>1, <1>3, <1>4
  <2> QED BY <1>6, <2>1 DEF CacheInv
<1>8. ASSUME NEW t \in Subs, NEW j \in 1..Len(delivered'[t]), NEW k \in 1..Len(delivered'[t]), j < k,
             delivered'[t][j] = delivered'[t][k]
      PROVE  j + CacheSize < k
  <2>1. CASE t # s
    <3>1. delivered'[t] = delivered[t]
      BY <1>5, <2>1
    <3> QED BY <1>8, <3>1 DEF RepeatsApart
  <2>2. CASE t = s
    <3> DEFINE q == delivered[s]
    <3>1. delivered'[t] = Append(q, l)
      BY <1>5, <2>2
    <3>2. /\ Len(Append(q, l)) = Len(q) + 1 /\ Append(q, l)[Len(q) + 1] = l
          /\ \A i \in 1..Len(q) : Append(q, l)[i] = q[i]
      BY <1>1, LogAppended
    <3>3. Len(q) \in Nat
      BY <1>1, RangeSeq
    <3>4. j \in 1..Len(q) /\ (k \in 1..Len(q) \/ k = Len(q) + 1)
      BY <1>8, <3>1, <3>2, <3>3, SMT
    <3>5. q[j] = Append(q, l)[k]
      BY <1>8, <3>1, <3>2, <3>4
    <3>6. CASE k \in 1..Len(q)
      BY <1>8, <3>2, <3>4, <3>5, <3>6 DEF RepeatsApart
    <3>7. CASE k = Len(q) + 1
      <4>1. q[j] = l
        BY <3>2, <3>5, <3>7
      <4>2. j + CacheSize < Len(q) + 1
        BY <1>1, <1>2, <3>4, <4>1, LongAgo
      <4> QED BY <3>7, <4>2
    <3> QED BY <3>4, <3>6, <3>7
  <2> QED BY <2>1, <2>2
<1>9. RepeatsApart'
  BY <1>8 DEF RepeatsApart
<1> QED BY <1>7, <1>9

\* The cache at the start and in steps that send nothing.
LEMMA CacheStart ==
  ASSUME LogsInit
  PROVE  CacheInv /\ RepeatsApart
<1>1. /\ delivered = [s \in Subs |-> <<>>] /\ logCache = [s \in Subs |-> <<>>]
  BY DEF LogsInit
<1>2. <<>> \in Seq(Logs) /\ <<>> \in Seq(Nat) /\ Len(<<>>) = 0 /\ 1..0 = {} /\ 0 \in Nat
  BY SMT
<1>3. Smaller(0, CacheSize) = 0
  BY LogsAssumption, SMT DEF Smaller
<1>4. LastOnes(<<>>, <<>>)
  BY <1>2, <1>3 DEF LastOnes
<1>5. CacheInv
  BY <1>1, <1>2, <1>4 DEF CacheInv
<1>6. RepeatsApart
  BY <1>1, <1>2 DEF RepeatsApart
<1> QED BY <1>5, <1>6

\* A step that sends nothing leaves the cache as it is.
LEMMA CacheUntouched ==
  ASSUME CacheInv, RepeatsApart, delivered' = delivered, logCache' = logCache
  PROVE  CacheInv' /\ RepeatsApart'
BY DEF CacheInv, RepeatsApart

\* Every step preserves the invariant of the cache.
LEMMA CacheNext ==
  ASSUME CacheInv, RepeatsApart, [OrsNext]_orsVars
  PROVE  CacheInv' /\ RepeatsApart'
<1>1. CASE OnPubkey \/ OnSocket
  BY <1>1, TwoSubs, CacheSent DEF OnPubkey, OnSocket
<1>2. CASE delivered' = delivered /\ logCache' = logCache
  BY <1>2, CacheUntouched
<1>3. Mine \/ QueryPubkeys \/ QuerySockets \/ OrsFails \/ OrsSubscribe \/ UNCHANGED orsVars
      => delivered' = delivered /\ logCache' = logCache
  BY DEF Mine, QueryPubkeys, QuerySockets, OrsFails, OrsSubscribe, SubscribeBegin, SubscribeEnd,
         orsVars, logsVars
<1>4. ASSUME NEW s \in Subs,
             Arrive(s) \/ Disconnect(s) \/ LogsStep(s) \/ Resubscribe(s) \/ ResubFails(s)
      PROVE  delivered' = delivered /\ logCache' = logCache
  BY <1>4 DEF Arrive, Disconnect, LogsStep, TakeLog, SkipLog, ResubBlockNumber, ResubFilterLogs,
             Resubscribe, ResubFails
<1> QED BY <1>1, <1>2, <1>3, <1>4 DEF OrsNext

-----------------------------------------------------------------------------
(* Theorems *)

\* A subscriber gets a log again only after more than CacheSize logs were sent since
\* (the LRU cache of tryCacheLog in SubscribeFilterLogs), whatever the connection loses,
\* repeats or reorders.
THEOREM RepeatsApartHolds == OrsSpec => []RepeatsApart
<1>1. OrsInit => CacheInv /\ RepeatsApart
  BY CacheStart DEF OrsInit
<1>2. CacheInv /\ RepeatsApart /\ [OrsNext]_orsVars => (CacheInv /\ RepeatsApart)'
  BY CacheNext
<1> QED BY <1>1, <1>2, PTL DEF OrsSpec

-----------------------------------------------------------------------------
(* The order of the chain *)

INSTANCE FiniteSetTheorems

\* The numbers of the logs up to one of them: its rank.
LEMMA ChainRanks ==
  ASSUME NEW S \in SUBSET Logs
  PROVE  /\ IsFiniteSet(S) /\ Cardinality(S) \in Nat
         /\ \A l \in S : Cardinality(UpTo(S, l)) \in 1..Cardinality(S)
         /\ \A k, l \in S : k.id < l.id => Cardinality(UpTo(S, k)) < Cardinality(UpTo(S, l))
<1>1. IsFiniteSet(Logs)
  BY LogsAssumption
<1>2. IsFiniteSet(S) /\ Cardinality(S) \in Nat
  BY <1>1, FS_Subset, FS_CardinalityType
<1>3. ASSUME NEW l \in S
      PROVE  /\ IsFiniteSet(UpTo(S, l)) /\ Cardinality(UpTo(S, l)) \in Nat
             /\ Cardinality(UpTo(S, l)) <= Cardinality(S)
             /\ l \in UpTo(S, l)
             /\ Cardinality(UpTo(S, l)) # 0
  <2>1. UpTo(S, l) \in SUBSET S
    BY DEF UpTo
  <2>2. IsFiniteSet(UpTo(S, l)) /\ Cardinality(UpTo(S, l)) \in Nat
        /\ Cardinality(UpTo(S, l)) <= Cardinality(S)
    BY <1>2, <2>1, FS_Subset, FS_CardinalityType
  <2>3. l.id \in Nat
    BY LogFacts
  <2>4. l \in UpTo(S, l)
    BY <2>3, SMT DEF UpTo
  <2>5. Cardinality(UpTo(S, l)) # 0
    BY <2>2, <2>4, FS_EmptySet
  <2> QED BY <2>2, <2>4, <2>5
<1>4. ASSUME NEW k \in S, NEW l \in S, k.id < l.id
      PROVE  Cardinality(UpTo(S, k)) < Cardinality(UpTo(S, l))
  <2>1. \A m \in S : m.id \in Nat
    BY LogFacts
  <2>2. \A m \in S : (m.id <= k.id => m.id <= l.id) /\ (m = l => ~(m.id <= k.id))
    BY <1>4, <2>1, SMT
  <2>3. UpTo(S, k) \in SUBSET (UpTo(S, l) \ {l})
    BY <2>2 DEF UpTo
  <2>4. /\ IsFiniteSet(UpTo(S, l) \ {l})
        /\ Cardinality(UpTo(S, l) \ {l}) = Cardinality(UpTo(S, l)) - 1
    BY <1>3, FS_RemoveElement
  <2>5. Cardinality(UpTo(S, k)) <= Cardinality(UpTo(S, l) \ {l})
    BY <2>3, <2>4, FS_Subset
  <2>6. Cardinality(UpTo(S, k)) <= Cardinality(UpTo(S, l)) - 1
    BY <2>4, <2>5
  <2>7. Cardinality(UpTo(S, k)) \in Nat /\ Cardinality(UpTo(S, l)) \in Nat
    BY <1>3
  <2> QED BY <2>6, <2>7, SMT
<1>5. ASSUME NEW l \in S PROVE Cardinality(UpTo(S, l)) \in 1..Cardinality(S)
  <2>1. /\ Cardinality(UpTo(S, l)) \in Nat /\ Cardinality(UpTo(S, l)) <= Cardinality(S)
        /\ Cardinality(UpTo(S, l)) # 0
    BY <1>3
  <2> QED BY <1>2, <2>1, SMT
<1> QED BY <1>2, <1>4, <1>5

\* InChainOrder has the logs of a set, in the order of the chain.
LEMMA InChainOrderHolds == FilterInOrder
<1> SUFFICES ASSUME NEW S \in SUBSET Logs
             PROVE  /\ InChainOrder(S) \in Seq(Logs)
                    /\ Range(InChainOrder(S)) = S
                    /\ Ascending(InChainOrder(S))
  BY DEF FilterInOrder
<1> DEFINE n == Cardinality(S)
           rank == [l \in S |-> Cardinality(UpTo(S, l))]
           q == InChainOrder(S)
<1>1. IsFiniteSet(S) /\ n \in Nat
  BY ChainRanks
<1>2. rank \in [S -> 1..n]
  BY ChainRanks
<1>3. \A k, l \in S : rank[k] = rank[l] => k = l
  <2>1. ASSUME NEW k \in S, NEW l \in S, k.id < l.id PROVE rank[k] # rank[l]
    <3>1. Cardinality(UpTo(S, k)) < Cardinality(UpTo(S, l))
      BY <2>1, ChainRanks
    <3>2. Cardinality(UpTo(S, k)) \in 1..n /\ Cardinality(UpTo(S, l)) \in 1..n
      BY ChainRanks
    <3>3. Cardinality(UpTo(S, k)) # Cardinality(UpTo(S, l))
      BY <1>1, <3>1, <3>2, SMT
    <3> QED BY <3>3
  <2> HIDE DEF rank
  <2> QED BY <2>1, ChainOrder
<1>4. IsInjective(rank)
  BY <1>2, <1>3 DEF IsInjective
<1>5. IsFiniteSet(1..n) /\ Cardinality(1..n) = n
  BY <1>1, FS_Interval, SMT
<1>6. \A k \in 1..n : \E l \in S : Cardinality(UpTo(S, l)) = k
  <2>1. rank \in Injection(S, 1..n)
    BY <1>2, <1>4 DEF Injection
  <2> HIDE DEF rank
  <2>2. rank \in Surjection(S, 1..n)
    BY <1>1, <1>5, <2>1, FS_Injection
  <2>3. \A k \in 1..n : \E l \in S : rank[l] = k
    BY <2>2 DEF Surjection
  <2> QED BY <2>3 DEF rank
<1>7. \A k \in 1..n : q[k] \in S /\ Cardinality(UpTo(S, q[k])) = k
  <2> TAKE k \in 1..n
  <2>1. q[k] = CHOOSE l \in S : Cardinality(UpTo(S, l)) = k
    BY DEF InChainOrder
  <2> HIDE DEF q
  <2> QED BY <1>6, <2>1
<1>8. q = [k \in 1..n |-> q[k]]
  <2> HIDE DEF n
  <2> QED BY SMT DEF InChainOrder, n
<1> HIDE DEF q
<1>9. q \in Seq(Logs) /\ Len(q) = n
  <2>1. \A k \in 1..n : q[k] \in Logs
    BY <1>7
  <2> HIDE DEF n
  <2> QED BY <1>1, <1>8, <2>1, SMT
<1>10. Range(q) = {q[k] : k \in 1..n}
  BY <1>9, RangeSeq
<1>11. S \subseteq Range(q)
  <2> SUFFICES ASSUME NEW l \in S PROVE l \in Range(q)
    OBVIOUS
  <2>1. rank[l] \in 1..n
    BY <1>2
  <2>2. q[rank[l]] \in S /\ rank[q[rank[l]]] = rank[l]
    BY <1>7, <2>1
  <2>3. q[rank[l]] = l
    BY <1>3, <2>2
  <2> QED BY <1>10, <2>1, <2>3
<1>12. Range(q) \subseteq S
  BY <1>7, <1>10
<1>13. ASSUME NEW j \in 1..n, NEW k \in 1..n, j < k PROVE q[j].id < q[k].id
  <2>1. q[j] \in Logs /\ q[k] \in Logs
    BY <1>7
  <2>2. ~(k < j) /\ j # k
    BY <1>1, <1>13, SMT
  <2>3. q[j] # q[k]
    BY <1>7, <2>2
  <2>4. ~(q[k].id < q[j].id)
    BY <1>7, <2>2, ChainRanks
  <2> QED BY <2>1, <2>3, <2>4, ChainOrder
<1>14. Ascending(q)
  BY <1>9, <1>13 DEF Ascending
<1> QED BY <1>9, <1>11, <1>12, <1>14 DEF q

-----------------------------------------------------------------------------
(* The service with its subscriptions *)

\* Both invariants, in behaviours in which the cache remembers.
LEMMA OrsInvariant == OrsSpec /\ []Remembered => [](LogsInv /\ OrsInv)
<1>1. OrsInit => LogsInv /\ OrsInv
  BY OrsStart
<1>2. LogsInv /\ OrsInv /\ Remembered /\ [OrsNext]_orsVars => (LogsInv /\ OrsInv)'
  <2> SUFFICES ASSUME LogsInv, OrsInv, Remembered, [OrsNext]_orsVars
               PROVE  LogsInv' /\ OrsInv'
    OBVIOUS
  <2>1. CASE OrsNext
    BY <2>1, InChainOrderHolds, LogsNext, OrsKept
  <2>2. CASE UNCHANGED orsVars
    BY <2>2, OrsStutter
  <2> QED BY <2>1, <2>2
<1> QED BY <1>1, <1>2, PTL DEF OrsSpec

\* As long as the cache still knows each log that is under way once more, a subscriber
\* gets a log once and in the order of the chain, although resub fetches from the last
\* block seen and the new subscription repeats what was fetched.
THEOREM LogsOnceInOrderHolds == OrsSpec /\ []Remembered => []LogsOnceInOrder
<1>1. LogsInv => LogsOnceInOrder
  BY DEF LogsInv
<1> QED BY <1>1, OrsInvariant, PTL

\* In the same behaviours the service answers with the operators of the chain and their
\* last sockets once nothing is under way.
THEOREM RegistrationsCurrentHolds == OrsSpec /\ []Remembered => []RegistrationsCurrent
<1>1. LogsInv /\ OrsInv => RegistrationsCurrent
  BY CurrentAnswers
<1> QED BY <1>1, OrsInvariant, PTL

\* The logs of each subscription fit in its cache.
FewLogs == \A s \in Subs : Cardinality({l \in Logs : l.sub = s}) <= CacheSize

\* Then none is ever forgotten.
LEMMA FewRemembered ==
  ASSUME FewLogs, LogsInv, CacheInv
  PROVE  Remembered
<1> SUFFICES ASSUME NEW s \in Subs, NEW l \in Range(delivered[s])
             PROVE  l.id \in Range(logCache[s])
  BY DEF Remembered
<1> DEFINE q == delivered[s]
           c == logCache[s]
           own == {k \in Logs : k.sub = s}
           f == [j \in 1..Len(q) |-> q[j]]
<1>1. q \in Seq(Logs) /\ c \in Seq(Nat) /\ LastOnes(q, c)
  BY DEF CacheInv
<1>2. Len(q) \in Nat /\ Range(q) = {q[j] : j \in 1..Len(q)} /\ Range(q) \subseteq Logs
  BY <1>1, RangeSeq
<1>3. Len(c) \in Nat /\ Range(c) = {c[j] : j \in 1..Len(c)}
  BY <1>1, RangeSeq
<1>4. Len(q) <= Cardinality(own) /\ Cardinality(own) \in Nat
  <2>1. IsFiniteSet(own) /\ Cardinality(own) \in Nat
    BY LogsAssumption, FS_Subset, FS_CardinalityType
  <2>2. f \in [1..Len(q) -> own]
    <3>1. \A j \in 1..Len(q) : q[j] \in Range(q)
      BY <1>2
    <3>2. \A k \in Range(q) : k \in own
      BY <1>2, LogsInvOf DEF SubInv, Streams
    <3> QED BY <3>1, <3>2
  <2>3. ASSUME NEW j \in 1..Len(q), NEW k \in 1..Len(q), f[j] = f[k] PROVE j = k
    <3>1. ~(j < k) /\ ~(k < j)
      BY <2>3, LogsInvOf DEF LogsOnceInOrder
    <3> QED BY <3>1, SMT
  <2>4. f \in Injection(1..Len(q), own)
    BY <2>2, <2>3 DEF Injection, IsInjective
  <2>5. Cardinality(1..Len(q)) = Len(q)
    BY <1>2, FS_Interval, SMT
  <2> HIDE DEF f
  <2>6. Cardinality(1..Len(q)) <= Cardinality(own)
    BY <2>1, <2>4, FS_Injection
  <2> QED BY <2>1, <2>5, <2>6
<1>5. Len(c) = Len(q)
  <2>1. Cardinality(own) <= CacheSize /\ CacheSize \in Nat
    BY LogsAssumption, SMT DEF FewLogs
  <2>2. Len(c) = Smaller(Len(q), CacheSize)
    BY <1>1 DEF LastOnes
  <2> HIDE DEF q, c, own
  <2> QED BY <1>2, <1>3, <1>4, <2>1, <2>2, SMT DEF Smaller
<1>6. PICK j \in 1..Len(q) : l = q[j]
  BY <1>2
<1>7. Older(Len(q), Len(c)) + j = j
  <2> HIDE DEF q, c
  <2> QED BY <1>2, <1>5, SMT DEF Older
<1>8. c[j] = q[Older(Len(q), Len(c)) + j].id
  BY <1>1, <1>5 DEF LastOnes
<1>9. c[j] = l.id
  BY <1>6, <1>7, <1>8
<1> QED BY <1>3, <1>5, <1>9

\* No log is repeated or out of order, and the answers are current, as long as the logs of
\* each subscription fit in its cache, whatever connections break and calls fail.
THEOREM FewLogsOnceInOrder ==
  ASSUME FewLogs
  PROVE  OrsSpec => []LogsOnceInOrder /\ []RegistrationsCurrent
<1> DEFINE Inv == LogsInv /\ OrsInv /\ CacheInv /\ RepeatsApart
<1>1. OrsInit => Inv
  BY OrsStart, CacheStart DEF OrsInit
<1>2. Inv /\ [OrsNext]_orsVars => Inv'
  <2> SUFFICES ASSUME Inv, [OrsNext]_orsVars PROVE Inv'
    OBVIOUS
  <2>1. Remembered
    BY FewRemembered
  <2>2. CacheInv' /\ RepeatsApart'
    BY CacheNext
  <2>3. CASE OrsNext
    BY <2>1, <2>2, <2>3, InChainOrderHolds, LogsNext, OrsKept
  <2>4. CASE UNCHANGED orsVars
    BY <2>2, <2>4, OrsStutter
  <2> QED BY <2>3, <2>4
<1>3. Inv => LogsOnceInOrder /\ RegistrationsCurrent
  BY CurrentAnswers DEF LogsInv
<1> HIDE DEF Inv
<1> QED BY <1>1, <1>2, <1>3, PTL DEF OrsSpec
====
