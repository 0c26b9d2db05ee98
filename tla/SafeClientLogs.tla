--------------------------- MODULE SafeClientLogs ---------------------------
(***************************************************************************)
(* Log subscriptions that survive their connection: SafeEthClient.         *)
(* SubscribeFilterLogs of core/safeclient/client.go.  A goroutine for each *)
(* subscription forwards logs to its subscriber, opens a new underlying    *)
(* subscription when the old one ends or an interval has passed, and       *)
(* fetches the logs from the last block it has seen.                       *)
(*                                                                         *)
(* Reorganisations and the end of a subscription are left out.             *)
(***************************************************************************)
EXTENDS Integers, Sequences, FiniteSets, Functions

CONSTANTS
  Subs,            \* subscriptions
  Logs,            \* the logs of the chain: id in their order, sub that selects it, block
  MaxHeight,       \* bound of the chain
  BlockChunkSize,  \* BLOCK_CHUNK_SIZE
  BlockMaxRange,   \* BLOCK_MAX_RANGE
  CacheSize,       \* capacity of logCache
  MaxFaults        \* bound of lost connections, ticker resubscriptions and failed calls

ASSUME LogsAssumption ==
  /\ MaxHeight \in Nat /\ MaxFaults \in Nat
  /\ BlockChunkSize \in Nat \ {0} /\ BlockMaxRange \in Nat \ {0} /\ CacheSize \in Nat \ {0}
  /\ IsFiniteSet(Logs)
  /\ \A l \in Logs : l.id \in Nat /\ l.sub \in Subs /\ l.block \in 1..MaxHeight
  /\ \A k, l \in Logs : /\ k.id = l.id => k = l
                        /\ k.id < l.id => k.block <= l.block

VARIABLES
  height,          \* the number of the last block
  sub,             \* the goroutine of a subscription; start is the height it begins at
  wire,            \* logs on their way from the node, lost with the connection
  proxyC,
  logCache,        \* hashes, the oldest first
  delivered,       \* logs sent to the subscriber
  excused,         \* ghost: logs that a failed fetch or BlockMaxRange let pass
  faults

logsVars == <<height, sub, wire, proxyC, logCache, delivered, excused, faults>>

NoSub == [pc |-> "none", live |-> FALSE, start |-> 0, lastBlock |-> 0,
          from |-> 0, to |-> 0, todo |-> <<>>]

LogsInit ==
  /\ height = 0
  /\ sub = [s \in Subs |-> NoSub]
  /\ wire = [s \in Subs |-> <<>>]
  /\ proxyC = [s \in Subs |-> <<>>]
  /\ logCache = [s \in Subs |-> <<>>]
  /\ delivered = [s \in Subs |-> <<>>]
  /\ excused = {}
  /\ faults = 0

LogsIn(s, from, to) == {l \in Logs : l.sub = s /\ l.block \in from..to}

\* Logs in the order of the chain, each after as many as come before it.
UpTo(S, l) == {k \in S : k.id <= l.id}
InChainOrder(S) ==
  [n \in 1..Cardinality(S) |-> CHOOSE l \in S : Cardinality(UpTo(S, l)) = n]

\* The logs that a node returns for a range of blocks.
FilterLogs(s, from, to) == InChainOrder(LogsIn(s, from, to))

-----------------------------------------------------------------------------
(* The node and the connection *)

Mine ==
  /\ height < MaxHeight
  /\ height' = height + 1
  /\ wire' = [s \in Subs |-> IF sub[s].live THEN wire[s] \o FilterLogs(s, height', height')
                             ELSE wire[s]]
  /\ UNCHANGED <<sub, proxyC, logCache, delivered, excused, faults>>

Arrive(s) ==
  /\ wire[s] # <<>>
  /\ wire' = [wire EXCEPT ![s] = Tail(@)]
  /\ proxyC' = [proxyC EXCEPT ![s] = Append(@, Head(wire[s]))]
  /\ UNCHANGED <<height, sub, logCache, delivered, excused, faults>>

Disconnect(s) ==
  /\ sub[s].live /\ faults < MaxFaults
  /\ sub' = [sub EXCEPT ![s].live = FALSE]
  /\ wire' = [wire EXCEPT ![s] = <<>>]
  /\ faults' = faults + 1
  /\ UNCHANGED <<height, proxyC, logCache, delivered, excused>>

-----------------------------------------------------------------------------
(* SubscribeFilterLogs *)

\* The current block, and then the subscription.
SubscribeBegin(s) ==
  /\ sub[s].pc = "none"
  /\ sub' = [sub EXCEPT ![s].pc = "opening", ![s].lastBlock = height]
  /\ UNCHANGED <<height, wire, proxyC, logCache, delivered, excused, faults>>

SubscribeEnd(s) ==
  /\ sub[s].pc = "opening"
  /\ sub' = [sub EXCEPT ![s].pc = "select", ![s].live = TRUE, ![s].start = height]
  /\ UNCHANGED <<height, wire, proxyC, logCache, delivered, excused, faults>>

TakeLog(s) ==
  /\ sub[s].pc = "select" /\ proxyC[s] # <<>>
  /\ sub' = [sub EXCEPT ![s].pc = "send", ![s].todo = <<Head(proxyC[s])>>]
  /\ proxyC' = [proxyC EXCEPT ![s] = Tail(@)]
  /\ UNCHANGED <<height, wire, logCache, delivered, excused, faults>>

Larger(a, b) == IF a < b THEN b ELSE a
Smaller(a, b) == IF a < b THEN a ELSE b

\* Mutant: every log is new.
tryCacheAny(s, l) == TRUE

tryCacheLog(s, l) == l.id \notin Range(logCache[s])

Cached(s, l) ==
  LET all == Append(logCache[s], l.id)
  IN  IF Len(all) > CacheSize THEN Tail(all) ELSE all

Rest(s) ==
  IF Len(sub[s].todo) = 1 THEN [sub[s] EXCEPT !.pc = "select", !.todo = <<>>]
  ELSE [sub[s] EXCEPT !.todo = Tail(@)]

SkipLog(s) ==
  /\ sub[s].pc = "send" /\ ~tryCacheLog(s, Head(sub[s].todo))
  /\ sub' = [sub EXCEPT ![s] = Rest(s)]
  /\ UNCHANGED <<height, wire, proxyC, logCache, delivered, excused, faults>>

\* The send to the subscriber's channel, when it receives l.
SendLog(s, l) ==
  /\ sub[s].pc = "send" /\ l = Head(sub[s].todo) /\ tryCacheLog(s, l)
  /\ logCache' = [logCache EXCEPT ![s] = Cached(s, l)]
  /\ delivered' = [delivered EXCEPT ![s] = Append(@, l)]
  /\ sub' = [sub EXCEPT ![s] = [Rest(s) EXCEPT !.lastBlock = Larger(@, l.block)]]
  /\ UNCHANGED <<height, wire, proxyC, excused, faults>>

-----------------------------------------------------------------------------
(* resub *)

Undelivered(s) ==
  {l \in Logs : l.sub = s /\ sub[s].start < l.block /\ l.block <= height} \ Range(delivered[s])

\* Logs that are not under way either.
Missing(s) == Undelivered(s) \ (Range(proxyC[s]) \cup Range(wire[s]))

\* A subscription that ended is replaced; the ticker replaces a live one, and what
\* the old one had under way is lost.  A failed call changes nothing: the ticker tries
\* again.
Resubscribe(s) ==
  /\ sub[s].pc = "select"
  /\ sub[s].live => faults < MaxFaults
  /\ faults' = IF sub[s].live THEN faults + 1 ELSE faults
  /\ sub' = [sub EXCEPT ![s].pc = "height", ![s].live = TRUE]
  /\ wire' = [wire EXCEPT ![s] = <<>>]
  /\ UNCHANGED <<height, proxyC, logCache, delivered, excused>>

\* Mutant: the fetch starts after the last block seen.
FromNextBlock(last, current) ==
  Larger(last + 1, (IF BlockMaxRange > current THEN 0 ELSE current - BlockMaxRange) + 1)

FromBlock(last, current) ==
  Larger(last, (IF BlockMaxRange > current THEN 0 ELSE current - BlockMaxRange) + 1)

\* The current block; nothing is fetched when its number is not above the last seen.
ResubBlockNumber(s) ==
  LET from == FromBlock(sub[s].lastBlock, height)
  IN  /\ sub[s].pc = "height"
      /\ IF sub[s].lastBlock >= height
         THEN /\ sub' = [sub EXCEPT ![s].pc = "select"]
              /\ excused' = excused \cup Missing(s)
         ELSE /\ sub' = [sub EXCEPT ![s].pc = "fetch", ![s].from = from, ![s].to = height]
              /\ excused' = excused \cup {l \in Undelivered(s) : l.block + BlockMaxRange <= height}
      /\ UNCHANGED <<height, wire, proxyC, logCache, delivered, faults>>

\* A chunk of the missed logs.
ResubFilterLogs(s) ==
  LET from == sub[s].from
      to == Smaller(from + BlockChunkSize - 1, sub[s].to)
      todo == sub[s].todo \o FilterLogs(s, from, to)
      pc == IF to < sub[s].to THEN "fetch" ELSE IF todo = <<>> THEN "select" ELSE "send"
  IN  /\ sub[s].pc = "fetch"
      /\ sub' = [sub EXCEPT ![s].pc = pc, ![s].todo = todo,
                            ![s].from = IF pc = "fetch" THEN from + BlockChunkSize ELSE 0,
                            ![s].to = IF pc = "fetch" THEN @ ELSE 0]
      /\ UNCHANGED <<height, wire, proxyC, logCache, delivered, excused, faults>>

\* One of these calls fails: the new subscription stays, the logs are not fetched.
ResubFails(s) ==
  /\ sub[s].pc \in {"height", "fetch"} /\ faults < MaxFaults
  /\ sub' = [sub EXCEPT ![s].pc = "select", ![s].todo = <<>>, ![s].from = 0, ![s].to = 0]
  /\ excused' = excused \cup Missing(s)
  /\ faults' = faults + 1
  /\ UNCHANGED <<height, wire, proxyC, logCache, delivered>>

\* Steps of the goroutine that need no one else.
LogsStep(s) == TakeLog(s) \/ SkipLog(s) \/ ResubBlockNumber(s) \/ ResubFilterLogs(s)

Reconnect(s) == ~sub[s].live /\ Resubscribe(s)

-----------------------------------------------------------------------------
(* Properties *)

\* Type invariant of the subscriptions; logs to send are held only while sending and
\* fetching.
LogsTypeOK ==
  /\ height \in 0..MaxHeight /\ faults \in 0..MaxFaults
  /\ excused \subseteq Logs
  /\ \A s \in Subs :
       /\ sub[s].pc \in {"none", "opening", "select", "send", "height", "fetch"}
       /\ sub[s].live \in BOOLEAN /\ sub[s].lastBlock \in 0..height
       /\ sub[s].pc # "fetch" => (sub[s].pc = "send" <=> sub[s].todo # <<>>)
       /\ Len(logCache[s]) <= CacheSize

\* A subscriber gets a log once and in the order of the chain, although the fetched
\* range overlaps what was forwarded and what the new subscription brings.  A log
\* that waits in proxyC while a fetch passes it is the exception.
LogsOnceInOrder ==
  \A s \in Subs : \A j, k \in 1..Len(delivered[s]) :
    j < k => /\ delivered[s][j] # delivered[s][k]
             /\ delivered[s][j].id < delivered[s][k].id \/ delivered[s][k] \in excused

-----------------------------------------------------------------------------
(* The inductive invariant behind the properties. *)

\* The cache still knows each log that was sent and is under way once more.
Remembered ==
  \A s \in Subs :
    \A l \in Range(sub[s].todo) \cup Range(proxyC[s]) \cup Range(wire[s]) :
      l \in Range(delivered[s]) => l.id \in Range(logCache[s])

\* Logs that a subscriber has a right to.
Waiting(s) == Undelivered(s) \ excused

SubRecords ==
  [pc : {"none", "opening", "select", "send", "height", "fetch"}, live : BOOLEAN,
   start : Nat, lastBlock : Nat, from : Nat, to : Nat, todo : Seq(Logs)]

LogsDomains ==
  /\ height \in Nat
  /\ sub \in [Subs -> SubRecords]
  /\ wire \in [Subs -> Seq(Logs)] /\ proxyC \in [Subs -> Seq(Logs)]
  /\ delivered \in [Subs -> Seq(Logs)] /\ logCache \in [Subs -> Seq(Nat)]
  /\ \A s \in Subs : \A n \in Range(logCache[s]) : \E l \in Range(delivered[s]) : l.id = n

Ascending(q) == \A j, k \in 1..Len(q) : j < k => q[j].id < q[k].id

Opened(s) == sub[s].pc \notin {"none", "opening"}

\* Where a goroutine is, and what it holds there.
Places(s) ==
  /\ ~Opened(s) =>
       /\ ~sub[s].live /\ proxyC[s] = <<>> /\ delivered[s] = <<>>
       /\ sub[s].start = 0
  /\ ~sub[s].live => wire[s] = <<>>
  /\ sub[s].pc \notin {"send", "fetch"} => sub[s].todo = <<>>
  /\ sub[s].pc = "send" => sub[s].todo # <<>>
  /\ sub[s].start <= height /\ sub[s].lastBlock <= height
  /\ sub[s].pc = "fetch" =>
       /\ sub[s].from <= sub[s].to /\ sub[s].to <= height
       /\ sub[s].start <= sub[s].to /\ sub[s].lastBlock <= sub[s].from

\* Connections bring the logs of new blocks in the order of the chain.
Streams(s) ==
  /\ Ascending(sub[s].todo) /\ Ascending(proxyC[s]) /\ Ascending(wire[s])
  /\ \A p \in Range(proxyC[s]), w \in Range(wire[s]) : p.id < w.id
  /\ \A l \in Range(proxyC[s]) \cup Range(wire[s]) :
       l.sub = s /\ sub[s].start < l.block /\ l.block <= height
  /\ \A l \in Range(sub[s].todo) : l.sub = s /\ l.block <= height
  /\ \A l \in Range(delivered[s]) : l.sub = s /\ l.block <= sub[s].lastBlock
  /\ \/ ~Opened(s) \/ sub[s].lastBlock <= sub[s].start
     \/ \E l \in Range(delivered[s]) : l.block = sub[s].lastBlock

\* A log that was not sent is under way or will be fetched; one that was lost with
\* the connection comes after all that waits in proxyC.
Accounted(s) ==
  \A l \in Waiting(s) :
    \/ ~Opened(s) \/ sub[s].pc = "height"
    \/ l \in Range(sub[s].todo) \cup Range(proxyC[s]) \cup Range(wire[s])
    \/ sub[s].pc = "fetch" /\ sub[s].from <= l.block /\ l.block <= sub[s].to
    \/ ~sub[s].live /\ \A p \in Range(proxyC[s]) : p.id < l.id

\* What is sent next comes before all that waits.
NextInOrder(s) ==
  /\ \A l \in Waiting(s), d \in Range(delivered[s]) : d.id < l.id
  /\ sub[s].pc = "send" =>
       /\ \A l \in Waiting(s) :
            l \in Range(sub[s].todo) \/ \A t \in Range(sub[s].todo) : t.id < l.id
       /\ \A t \in Range(sub[s].todo), d \in Range(delivered[s]) :
            t \in Range(delivered[s]) \cup excused \/ d.id < t.id

\* What a fetch has found so far is all there is from some block on.
Fetched(s) ==
  sub[s].pc = "fetch" =>
    /\ \A t \in Range(sub[s].todo) : sub[s].lastBlock <= t.block /\ t.block < sub[s].from
    /\ \A l \in Waiting(s) : l \in Range(sub[s].todo) \/ sub[s].from <= l.block
    /\ \A t \in Range(sub[s].todo) : \A l \in LogsIn(s, t.block, sub[s].from - 1) :
         l \in Range(sub[s].todo)

\* Logs from before the subscription are only found by a fetch, which then finds
\* all those after them.
OldBlocks(s) ==
  LET sending == IF sub[s].pc = "send" THEN Range(sub[s].todo) ELSE {}
  IN  \A d \in Range(delivered[s]) \cup sending : \A l \in LogsIn(s, d.block, sub[s].start) :
        l \in Range(delivered[s]) \cup sending

LogsInv ==
  /\ LogsDomains /\ LogsOnceInOrder
  /\ \A s \in Subs : /\ Places(s) /\ Streams(s) /\ Accounted(s)
                     /\ NextInOrder(s) /\ Fetched(s) /\ OldBlocks(s)
=============================================================================
