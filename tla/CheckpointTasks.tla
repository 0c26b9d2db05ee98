--------------------------- MODULE CheckpointTasks ---------------------------
(***************************************************************************)
(* Checkpoint tasks, from the aggregator's ticker to the task manager:     *)
(*   - the aggregator (aggregator/aggregator.go) creates a task for a time *)
(*     range that ends long enough ago for its messages to be settled;     *)
(*   - an operator (operator/operator.go) answers with the messages that   *)
(*     the aggregator's database has for the range;                        *)
(*   - the aggregator collects a quorum of one answer (the service of      *)
(*     MessageBlsAggregation.tla, here its outcome) and submits it;        *)
(*   - contracts/evm/src/eth/SFFLTaskManager.sol.                          *)
(*                                                                         *)
(* Ethereum has one block per unit of time, so that clock is its timestamp *)
(* and its block number.  An answer (two Merkle roots) is the set of       *)
(* messages it stands for.  Sent transactions are mined in any order, also *)
(* after their sender has stopped waiting for them.                        *)
(***************************************************************************)
EXTENDS Integers, Sequences, FiniteSets

CONSTANTS
  StateRootUpdates, OperatorSetUpdates,  \* messages, identified by their keys
  Timestamps,       \* timestamps of messages
  Operators,        \* of equal stake
  Quorum,           \* operators that make up the threshold
  Creators,         \* concurrent calls of sendNewCheckpointTask
  Submission,       \* MESSAGE_SUBMISSION_TIMEOUT
  Aggregation,      \* MESSAGE_BLS_AGGREGATION_TIMEOUT
  Latency,          \* from validateMessageTimestamp to the database write
  Interval,         \* checkpointInterval
  MaxCheckpointRange, \* of the messages that the RPC server hands out
  ResponseWindow,   \* TASK_RESPONSE_WINDOW_BLOCK
  Start, MaxClock,  \* bounds of the clock
  MaxCalls,         \* bound: calls of sendNewCheckpointTask
  MaxTasks,         \* bound: tasks created
  MaxCrashes,       \* bound: restarts of the aggregator
  None

Messages == StateRootUpdates \cup OperatorSetUpdates

\* The time that a message takes from the check of its timestamp to the database
\* is shorter than MESSAGE_BLS_AGGREGATION_TIMEOUT: an assumption on the node's
\* calls, which have no deadline.
ASSUME CheckpointAssumption ==
  /\ Submission \in Nat /\ Aggregation \in Nat /\ Latency \in Nat
  /\ Latency < Aggregation
  /\ Interval \in Nat \ {0} /\ ResponseWindow \in Nat
  /\ MaxCheckpointRange \in Nat
  /\ Start \in Nat /\ MaxClock \in Nat
  /\ MaxCalls \in Nat /\ MaxTasks \in Nat /\ MaxCrashes \in Nat
  /\ Submission + Aggregation + Interval < Start
  /\ Timestamps \subseteq Nat
  /\ Quorum \in Nat \ {0}
  /\ None \notin Creators

VARIABLES
  clock,
  timestamp,   \* message -> its timestamp
  message,     \* message -> how far its latest aggregation is
  created,     \* task manager: tasks by index (allCheckpointTaskHashes)
  lastCheckpointToTimestamp,
  allCheckpointTaskResponses,  \* task manager: index -> answer
  mempool,     \* transactions that may still be mined
  creators,    \* goroutines of sendNewCheckpointTask
  tasks,       \* aggregator: index -> task (agg.tasks)
  round,       \* aggregator: index -> aggregation of its answers
  answers,     \* operator -> index -> answer it computes and signs
  signed,      \* aggregator: <<index, operator, answer>> counted
  calls,       \* of sendNewCheckpointTask so far (bounded by MaxCalls)
  crashes

contractVars == <<created, lastCheckpointToTimestamp, allCheckpointTaskResponses>>
messageVars == <<timestamp, message>>
aggregatorVars == <<creators, tasks, round, signed>>
vars == <<clock, messageVars, contractVars, mempool, aggregatorVars, answers, calls,
          crashes>>

Indices == 0..MaxTasks - 1
Idle == [pc |-> "idle", from |-> 0, to |-> 0, index |-> 0]
NotStarted == [pc |-> "none", set |-> {}]
NoTask == [createdBlock |-> 0, from |-> 0, to |-> 0]
NotSeen == [phase |-> "idle", deadline |-> 0]

Init ==
  /\ clock = Start
  /\ timestamp \in [Messages -> Timestamps]
  /\ message = [m \in Messages |-> NotSeen]
  /\ created = <<>>
  /\ lastCheckpointToTimestamp = 0
  /\ allCheckpointTaskResponses = [i \in Indices |-> None]
  /\ mempool = {}
  /\ creators = [c \in Creators |-> Idle]
  /\ tasks = [i \in Indices |-> NoTask]
  /\ round = [i \in Indices |-> "none"]
  /\ answers = [o \in Operators |-> [i \in Indices |-> NotStarted]]
  /\ signed = {}
  /\ calls = 0
  /\ crashes = 0

\* Time passes, but not beyond the latency of a message in flight.
Tick ==
  /\ clock < MaxClock
  /\ \A m \in Messages : message[m].phase = "validated" => clock < message[m].deadline
  /\ clock' = clock + 1
  /\ UNCHANGED <<messageVars, contractVars, mempool, aggregatorVars, answers, calls,
                 crashes>>

-----------------------------------------------------------------------------
(* Messages *)

\* Mutant: the timestamp is not checked.
ValidateMessageNever(m) ==
  /\ message[m].phase = "idle"
  /\ message' = [message EXCEPT ![m] = [phase |-> "validated", deadline |-> clock + Latency]]
  /\ UNCHANGED <<clock, timestamp, contractVars, mempool, aggregatorVars, answers, calls,
                 crashes>>

\* The quorum's last signature on m passes validateMessageTimestamp.
ValidateMessageTimestamp(m) ==
  /\ message[m].phase = "idle"
  /\ timestamp[m] + Submission >= clock
  /\ message' = [message EXCEPT ![m] = [phase |-> "validated", deadline |-> clock + Latency]]
  /\ UNCHANGED <<clock, timestamp, contractVars, mempool, aggregatorVars, answers, calls,
                 crashes>>

\* The threshold is reached and message and aggregation are stored, or not.
StoreMessage(m) ==
  /\ message[m].phase = "validated"
  /\ message' \in {[message EXCEPT ![m] = [phase |-> p, deadline |-> 0]] :
                     p \in {"stored", "idle"}}
  /\ UNCHANGED <<clock, timestamp, contractVars, mempool, aggregatorVars, answers, calls,
                 crashes>>

Stored(from, to) ==
  {m \in Messages : message[m].phase = "stored" /\ timestamp[m] \in from..to}

-----------------------------------------------------------------------------
(* The aggregator creates a task: sendNewCheckpointTask *)

CreatorStep(c, next) ==
  /\ creators' = [creators EXCEPT ![c] = next]
  /\ UNCHANGED <<clock, messageVars, contractVars, signed, answers, crashes>>

\* Mutant: the range ends now.
ToTimestampNow == clock

ToTimestamp == clock - Submission - Aggregation

ReadBlock(c) ==
  /\ creators[c].pc = "idle"
  /\ calls < MaxCalls
  /\ calls' = calls + 1
  /\ CreatorStep(c, [pc |-> "last", from |-> 0, to |-> ToTimestamp, index |-> 0])
  /\ UNCHANGED <<mempool, tasks, round>>

FromTimestamp(to) ==
  IF lastCheckpointToTimestamp = 0 THEN to - Interval ELSE lastCheckpointToTimestamp + 1

ReadLastCheckpoint(c) ==
  /\ creators[c].pc = "last"
  /\ CreatorStep(c, [creators[c] EXCEPT !.pc = "send", !.from = FromTimestamp(creators[c].to)])
  /\ UNCHANGED <<calls, mempool, tasks, round>>

\* Mutant: the range may start before the end of the last one.
CreateOkUnordered(from, to) == to >= from /\ to <= clock

\* createCheckpointTask up to its effects, for a quorumThreshold of 66.
CreateOk(from, to) ==
  /\ to >= from
  /\ to <= clock
  /\ from = 0 \/ from > lastCheckpointToTimestamp

CreateTx(c) ==
  [kind |-> "create", from |-> creators[c].from, to |-> creators[c].to, creator |-> c]

\* SendNewCheckpointTask; assembling fails for a call that would revert.
SendNewCheckpointTask(c) ==
  /\ creators[c].pc = "send"
  /\ IF CreateOk(creators[c].from, creators[c].to)
     THEN /\ CreatorStep(c, [creators[c] EXCEPT !.pc = "sent"])
          /\ mempool' = mempool \cup {CreateTx(c)}
     ELSE CreatorStep(c, Idle) /\ UNCHANGED mempool
  /\ UNCHANGED <<calls, tasks, round>>

\* The transaction of creator c, or of nobody who still waits for it, is mined:
\* createCheckpointTask runs or reverts.
MineCreate(tx) ==
  LET task == [createdBlock |-> clock, from |-> tx.from, to |-> tx.to]
      index == Len(created)
      resume == IF tx.creator = None THEN creators
                ELSE [creators EXCEPT ![tx.creator] =
                        IF CreateOk(tx.from, tx.to)
                        THEN [@ EXCEPT !.pc = "store", !.index = index] ELSE Idle] IN
  /\ tx.kind = "create"
  /\ mempool' = mempool \ {tx}
  /\ IF CreateOk(tx.from, tx.to)
     THEN /\ index < MaxTasks
          /\ created' = Append(created, task)
          /\ lastCheckpointToTimestamp' = tx.to
     ELSE UNCHANGED <<created, lastCheckpointToTimestamp>>
  /\ creators' = resume
  /\ UNCHANGED <<clock, messageVars, allCheckpointTaskResponses, tasks, round, signed,
                 answers, calls, crashes>>

\* The task is put into agg.tasks before its aggregation can start.
StoreTask(c) ==
  /\ creators[c].pc = "store"
  /\ tasks' = [tasks EXCEPT ![creators[c].index] = created[creators[c].index + 1]]
  /\ CreatorStep(c, [creators[c] EXCEPT !.pc = "initialize"])
  /\ UNCHANGED <<calls, mempool, round>>

InitializeMessage(c) ==
  /\ creators[c].pc = "initialize"
  /\ round' = [round EXCEPT ![creators[c].index] = "open"]
  /\ CreatorStep(c, Idle)
  /\ UNCHANGED <<calls, mempool, tasks>>

\* A call fails; a transaction that was sent may still be mined.
CreatorFails(c) ==
  /\ creators[c].pc \notin {"idle", "store"}
  /\ mempool' = IF creators[c].pc = "sent"
                THEN (mempool \ {CreateTx(c)}) \cup {[CreateTx(c) EXCEPT !.creator = None]}
                ELSE mempool
  /\ CreatorStep(c, Idle)
  /\ UNCHANGED <<calls, tasks, round>>

-----------------------------------------------------------------------------
(* An operator answers: ProcessCheckpointTask *)

\* GetAggregatedCheckpointMessages of the RPC server: a task over a longer range is
\* refused to every operator, and stays without an answer.
IsValid(from, to) == from <= to /\ to - from <= MaxCheckpointRange

\* FetchCheckpointMessages queries one table, then the other.
FetchStateRootUpdates(o, i) ==
  /\ answers[o][i].pc = "none"
  /\ IsValid(created[i + 1].from, created[i + 1].to)
  /\ answers' = [answers EXCEPT ![o][i] =
       [pc |-> "half",
        set |-> Stored(created[i + 1].from, created[i + 1].to) \cap StateRootUpdates]]
  /\ UNCHANGED <<clock, messageVars, contractVars, mempool, aggregatorVars, calls, crashes>>

FetchOperatorSetUpdates(o, i) ==
  /\ answers[o][i].pc = "half"
  /\ answers' = [answers EXCEPT ![o][i] =
       [pc |-> "signed",
        set |-> @.set \cup
          (Stored(created[i + 1].from, created[i + 1].to) \cap OperatorSetUpdates)]]
  /\ UNCHANGED <<clock, messageVars, contractVars, mempool, aggregatorVars, calls, crashes>>

\* ProcessSignedCheckpointTaskResponse reaches an open aggregation.
CountAnswer(o, i) ==
  /\ answers[o][i].pc = "signed"
  /\ round[i] = "open"
  /\ signed' = signed \cup {<<i, o, answers[o][i].set>>}
  /\ UNCHANGED <<clock, messageVars, contractVars, mempool, creators, tasks, round,
                 answers, calls, crashes>>

-----------------------------------------------------------------------------
(* The aggregator submits: sendAggregatedResponseToContract *)

SignersOf(i, answer) == {o \in Operators : <<i, o, answer>> \in signed}

\* respondToCheckpointTask up to its effects: checkQuorum holds for an answer
\* that the aggregation finished, and the hash of the task is compared.
RespondOk(tx) ==
  /\ tx.task = created[tx.index + 1]
  /\ allCheckpointTaskResponses[tx.index] = None
  /\ clock <= tx.task.createdBlock + ResponseWindow

\* The task that the response is submitted with: a missing one reads as zero.
TaskOf(i) == tasks[i]

RespondTx(i, answer) ==
  [kind |-> "respond", index |-> i, task |-> TaskOf(i), answer |-> answer]

\* A finished aggregation is assembled and sent, or fails; the deferred call
\* deletes the task.
SendAggregatedResponse(i, answer) ==
  /\ round[i] = "open"
  /\ Cardinality(SignersOf(i, answer)) >= Quorum
  /\ round' = [round EXCEPT ![i] = "finished"]
  /\ tasks' = [tasks EXCEPT ![i] = NoTask]
  /\ mempool' \in {mempool \cup {RespondTx(i, answer)}, mempool}
  /\ UNCHANGED <<clock, messageVars, contractVars, creators, signed, answers, calls,
                 crashes>>

\* The aggregation expired, or failed at its end.
TaskExpires(i) ==
  /\ round[i] = "open"
  /\ round' = [round EXCEPT ![i] = "finished"]
  /\ tasks' = [tasks EXCEPT ![i] = NoTask]
  /\ UNCHANGED <<clock, messageVars, contractVars, mempool, creators, signed, answers, calls,
                 crashes>>

\* respondToCheckpointTask
MineRespond(tx) ==
  /\ tx.kind = "respond"
  /\ mempool' = mempool \ {tx}
  /\ allCheckpointTaskResponses' =
       IF RespondOk(tx) THEN [allCheckpointTaskResponses EXCEPT ![tx.index] = tx.answer]
       ELSE allCheckpointTaskResponses
  /\ UNCHANGED <<clock, messageVars, created, lastCheckpointToTimestamp, aggregatorVars,
                 answers, calls, crashes>>

\* The aggregator stops anywhere and starts again with nothing but its database.
Crash ==
  /\ crashes < MaxCrashes
  /\ crashes' = crashes + 1
  /\ message' = [m \in Messages |->
       IF message[m].phase = "stored" THEN message[m] ELSE NotSeen]
  /\ creators' = [c \in Creators |-> Idle]
  /\ tasks' = [i \in Indices |-> NoTask]
  /\ round' = [i \in Indices |-> "none"]
  /\ signed' = {}
  /\ mempool' = {IF tx.kind = "create" THEN [tx EXCEPT !.creator = None] ELSE tx :
                   tx \in mempool}
  /\ UNCHANGED <<clock, timestamp, contractVars, answers, calls>>

-----------------------------------------------------------------------------
Next ==
  \/ Tick
  \/ \E m \in Messages : ValidateMessageTimestamp(m) \/ StoreMessage(m)
  \/ \E c \in Creators :
       \/ ReadBlock(c) \/ ReadLastCheckpoint(c) \/ SendNewCheckpointTask(c)
       \/ StoreTask(c) \/ InitializeMessage(c) \/ CreatorFails(c)
  \/ \E tx \in mempool : MineCreate(tx) \/ MineRespond(tx)
  \/ \E i \in 0..Len(created) - 1 :
       \/ \E o \in Operators :
            FetchStateRootUpdates(o, i) \/ FetchOperatorSetUpdates(o, i) \/ CountAnswer(o, i)
       \/ \E answer \in SUBSET Messages : SendAggregatedResponse(i, answer)
       \/ TaskExpires(i)
  \/ Crash

Spec == Init /\ [][Next]_vars

-----------------------------------------------------------------------------
Tasks == [createdBlock : Nat, from : Int, to : Int]
Txs ==
  [kind : {"create"}, from : Int, to : Int, creator : Creators \cup {None}] \cup
  [kind : {"respond"}, index : Indices, task : Tasks, answer : SUBSET Messages]

CreatorStates == [pc : {"idle", "last", "send", "sent", "store", "initialize"},
                  from : Int, to : Int, index : Nat]

\* Type invariant.
TypeOK ==
  /\ clock \in Nat /\ lastCheckpointToTimestamp \in Int
  /\ calls \in Nat /\ crashes \in Nat
  /\ timestamp \in [Messages -> Timestamps]
  /\ message \in [Messages -> [phase : {"idle", "validated", "stored"}, deadline : Nat]]
  /\ created \in Seq(Tasks) /\ mempool \subseteq Txs
  /\ allCheckpointTaskResponses \in [Indices -> (SUBSET Messages) \cup {None}]
  /\ creators \in [Creators -> CreatorStates]
  /\ tasks \in [Indices -> Tasks]
  /\ round \in [Indices -> {"none", "open", "finished"}]
  /\ answers \in [Operators -> [Indices -> [pc : {"none", "half", "signed"},
                                            set : SUBSET Messages]]]
  /\ signed \subseteq Indices \X Operators \X SUBSET Messages

\* However the calls of sendNewCheckpointTask overlap, fail, or have their
\* transaction mined late, the ranges of the tasks that createCheckpointTask
\* accepts are not empty, follow each other and never overlap.
RangesFollow ==
  \A i \in 1..Len(created) :
    /\ created[i].from <= created[i].to
    /\ \A j \in 1..i - 1 : created[j].to < created[i].from

\* A task is created only when its range has settled: no message of the range is
\* stored afterwards, so that operators that fetch the messages at different
\* times get the same ones.
CheckpointIsSettled ==
  [][\A m \in Messages : message[m].phase # "stored" /\ message'[m].phase = "stored"
       => timestamp[m] > lastCheckpointToTimestamp]_vars

\* What the task manager keeps as the answer to a task is, then and later,
\* every stored message of the task's range and no other.
ResponseIsComplete ==
  \A i \in 0..Len(created) - 1 :
    allCheckpointTaskResponses[i] # None =>
      allCheckpointTaskResponses[i] = Stored(created[i + 1].from, created[i + 1].to)

\* A response is submitted with the task that was created under its index: the
\* task is in agg.tasks from before its aggregation opens until it is read.
SubmitsCreatedTask ==
  \A tx \in mempool : tx.kind = "respond" => tx.task = created[tx.index + 1]
=============================================================================
