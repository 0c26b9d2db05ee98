----------------------- MODULE CheckpointTasks_proofs -----------------------
(***************************************************************************)
(* Proofs about CheckpointTasks: the ranges of tasks follow each other, a  *)
(* range has settled when its task is created, a response is submitted     *)
(* with the task that it answers, and the answer that the task manager     *)
(* keeps is complete.  And about CheckpointTree: under the root of that    *)
(* answer the task manager accepts the proofs made from the tree, and no   *)
(* proof of the contrary.                                                  *)
(***************************************************************************)
EXTENDS CheckpointTasks, CheckpointTree, FiniteSetTheorems, SequenceTheorems,
        WellFoundedInduction, TLAPS

\* A leaf that names no prover is Zenon's.
USE Zenon

-----------------------------------------------------------------------------
(* The inductive invariant *)

\* No message with a timestamp up to t can be stored any more.
Settled(t) == t + Submission + Aggregation <= clock

\* The answer to the task of index i.
StoredFor(i) == Stored(created[i + 1].from, created[i + 1].to)

\* The task manager's ranges lie before its last timestamp, which has settled.
ChainInv ==
  /\ Start <= clock /\ Len(created) <= MaxTasks
  /\ lastCheckpointToTimestamp >= 0 /\ Settled(lastCheckpointToTimestamp)
  /\ \A i \in 1..Len(created) : created[i].to <= lastCheckpointToTimestamp
  /\ RangesFollow

\* A message on its way to the database gets there in time.
MessageInv ==
  \A m \in Messages : message[m].phase = "validated" =>
    clock <= message[m].deadline /\ message[m].deadline <= timestamp[m] + Submission + Latency

HasIndex(c) == creators[c].pc \in {"store", "initialize"}

\* A call of sendNewCheckpointTask holds a settled range, then an index of its own
\* whose aggregation has not been opened.
CreatorInv ==
  \A c \in Creators :
    /\ creators[c].pc # "idle" => creators[c].to > Interval /\ Settled(creators[c].to)
    /\ creators[c].pc \in {"send", "sent"} => creators[c].from > 0
    /\ HasIndex(c) =>
         /\ creators[c].index < Len(created)
         /\ round[creators[c].index] = "none"
         /\ \A d \in Creators \ {c} : HasIndex(d) => creators[d].index # creators[c].index
    /\ creators[c].pc = "initialize" =>
         tasks[creators[c].index] = created[creators[c].index + 1]

\* An open aggregation has its task.
RoundInv ==
  \A i \in Indices :
    /\ round[i] # "none" => i < Len(created)
    /\ round[i] = "open" => tasks[i] = created[i + 1]

\* A transaction that creates a task is that of a call that waits for it, or nobody's;
\* one that responds has the task and the whole answer.
MempoolInv ==
  \A tx \in mempool :
    /\ tx.kind = "create" =>
         /\ tx.from > 0 /\ Settled(tx.to)
         /\ tx.creator # None => creators[tx.creator].pc = "sent" /\ tx = CreateTx(tx.creator)
    /\ tx.kind = "respond" =>
         /\ tx.index < Len(created)
         /\ tx.task = created[tx.index + 1]
         /\ tx.answer = StoredFor(tx.index)

\* Operators compute, and the aggregator counts, the whole answer.
AnswerInv ==
  /\ \A o \in Operators, i \in Indices :
       /\ answers[o][i].pc # "none" => i < Len(created)
       /\ answers[o][i].pc = "half" => answers[o][i].set = StoredFor(i) \cap StateRootUpdates
       /\ answers[o][i].pc = "signed" => answers[o][i].set = StoredFor(i)
  /\ \A s \in signed : s[1] < Len(created) /\ s[3] = StoredFor(s[1])

\* The contract has whole answers, and none to a task that does not exist.
ResponseInv ==
  \A i \in Indices :
    allCheckpointTaskResponses[i] # None =>
      i < Len(created) /\ allCheckpointTaskResponses[i] = StoredFor(i)

IInv ==
  /\ TypeOK /\ ChainInv /\ MessageInv /\ CreatorInv /\ RoundInv /\ MempoolInv
  /\ AnswerInv /\ ResponseInv

-----------------------------------------------------------------------------
(* Facts used throughout *)

\* The constants that are numbers.
LEMMA Numbers ==
  /\ Submission \in Nat /\ Aggregation \in Nat /\ Latency \in Nat /\ Latency < Aggregation
  /\ Interval \in Nat /\ Interval > 0 /\ Start \in Nat /\ MaxTasks \in Nat
  /\ Submission + Aggregation + Interval < Start
  /\ Timestamps \subseteq Nat
  /\ Quorum \in Nat /\ Quorum > 0
  /\ None \notin Creators
BY CheckpointAssumption, SMT

\* The fields of the two kinds of transactions.
LEMMA TxFields ==
  ASSUME NEW tx \in Txs
  PROVE  /\ tx.kind \in {"create", "respond"}
         /\ tx.kind = "create" =>
              /\ tx \in [kind : {"create"}, from : Int, to : Int, creator : Creators \cup {None}]
              /\ tx.from \in Int /\ tx.to \in Int /\ tx.creator \in Creators \cup {None}
         /\ tx.kind = "respond" =>
              /\ tx \in [kind : {"respond"}, index : Indices, task : Tasks, answer : SUBSET Messages]
              /\ tx.index \in Indices /\ tx.task \in Tasks /\ tx.answer \in SUBSET Messages
BY DEF Txs

\* The indices of tasks that exist.
LEMMA Created ==
  ASSUME TypeOK, ChainInv
  PROVE  /\ Len(created) \in Nat
         /\ \A i \in 0..Len(created) - 1 :
              i \in Indices /\ i \in Nat /\ i + 1 \in 1..Len(created) /\ created[i + 1] \in Tasks
         /\ \A i \in Indices : i \in Nat /\ (i < Len(created) => i \in 0..Len(created) - 1)
<1>1. Len(created) \in Nat /\ \A j \in 1..Len(created) : created[j] \in Tasks
  BY SMT DEF TypeOK
<1>2. Len(created) <= MaxTasks /\ MaxTasks \in Nat
  BY Numbers DEF ChainInv
<1> QED BY <1>1, <1>2, SMT DEF Indices

-----------------------------------------------------------------------------
(* Types *)

\* A step of sendNewCheckpointTask keeps the types of what it leaves alone.
LEMMA CreatorStepTypes ==
  ASSUME TypeOK, NEW c \in Creators, NEW next \in CreatorStates, CreatorStep(c, next),
         calls' \in Nat, mempool' \subseteq Txs, tasks' \in [Indices -> Tasks],
         round' \in [Indices -> {"none", "open", "finished"}]
  PROVE  TypeOK'
<1>1. creators' \in [Creators -> CreatorStates]
  BY DEF CreatorStep, TypeOK
<1> QED BY <1>1 DEF CreatorStep, TypeOK, messageVars, contractVars

\* The next states of a call.
LEMMA CreatorUpdates ==
  ASSUME NEW s \in CreatorStates,
         NEW p \in {"idle", "last", "send", "sent", "store", "initialize"},
         NEW f \in Int, NEW n \in Nat
  PROVE  /\ [s EXCEPT !.pc = p] \in CreatorStates
         /\ [s EXCEPT !.pc = p, !.from = f] \in CreatorStates
         /\ [s EXCEPT !.pc = p, !.index = n] \in CreatorStates
BY DEF CreatorStates

\* The state of a creator that does nothing is one.
LEMMA IdleTyped == Idle \in CreatorStates
BY SMT DEF Idle, CreatorStates

\* The zero value of a task is one.
LEMMA NoTaskTyped == NoTask \in Tasks
BY SMT DEF NoTask, Tasks

\* Every step keeps the types.
LEMMA TypeStep ==
  ASSUME IInv, [Next]_vars
  PROVE  TypeOK'
<1> USE DEF messageVars, contractVars, aggregatorVars
<1>0. TypeOK /\ ChainInv
  BY DEF IInv
<1>1. CASE Tick
  BY <1>0, <1>1, SMT DEF Tick, TypeOK
<1>2. ASSUME NEW m \in Messages, ValidateMessageTimestamp(m)
      PROVE  TypeOK'
  BY <1>0, <1>2, Numbers, SMT DEF ValidateMessageTimestamp, TypeOK
<1>3. ASSUME NEW m \in Messages, StoreMessage(m)
      PROVE  TypeOK'
  <2>1. message' \in [Messages -> [phase : {"idle", "validated", "stored"}, deadline : Nat]]
    <3>1. PICK p \in {"stored", "idle"} :
            message' = [message EXCEPT ![m] = [phase |-> p, deadline |-> 0]]
      BY <1>3 DEF StoreMessage
    <3> QED BY <1>0, <3>1 DEF TypeOK
  <2> QED BY <1>0, <1>3, <2>1 DEF StoreMessage, TypeOK
<1>4. ASSUME NEW c \in Creators, ReadBlock(c)
      PROVE  TypeOK'
  <2>1. [pc |-> "last", from |-> 0, to |-> ToTimestamp, index |-> 0] \in CreatorStates
    BY <1>0, Numbers, SMT DEF ToTimestamp, TypeOK, CreatorStates
  <2>2. calls' \in Nat /\ mempool' \subseteq Txs /\ tasks' \in [Indices -> Tasks]
        /\ round' \in [Indices -> {"none", "open", "finished"}]
    BY <1>0, <1>4, SMT DEF ReadBlock, TypeOK
  <2>3. CreatorStep(c, [pc |-> "last", from |-> 0, to |-> ToTimestamp, index |-> 0])
    BY <1>4 DEF ReadBlock
  <2> QED BY <1>0, <2>1, <2>2, <2>3, CreatorStepTypes
<1>5. ASSUME NEW c \in Creators, ReadLastCheckpoint(c)
      PROVE  TypeOK'
  <2>1. FromTimestamp(creators[c].to) \in Int
    BY <1>0, Numbers, SMT DEF FromTimestamp, TypeOK, CreatorStates
  <2>2. [creators[c] EXCEPT !.pc = "send", !.from = FromTimestamp(creators[c].to)] \in CreatorStates
    BY <1>0, <2>1, CreatorUpdates DEF TypeOK
  <2> QED BY <1>0, <1>5, <2>2, CreatorStepTypes DEF ReadLastCheckpoint, TypeOK
<1>6. ASSUME NEW c \in Creators, SendNewCheckpointTask(c)
      PROVE  TypeOK'
  <2>1. CreateTx(c) \in Txs
    BY <1>0 DEF CreateTx, Txs, TypeOK, CreatorStates
  <2>2. [creators[c] EXCEPT !.pc = "sent"] \in CreatorStates
    BY <1>0, CreatorUpdates DEF TypeOK
  <2> QED BY <1>0, <1>6, <2>1, <2>2, IdleTyped, CreatorStepTypes DEF SendNewCheckpointTask, TypeOK
<1>7. ASSUME NEW c \in Creators, StoreTask(c)
      PROVE  TypeOK'
  <2>1. created[creators[c].index + 1] \in Tasks
    BY <1>0, <1>7, Created, SMT DEF StoreTask, IInv, CreatorInv, HasIndex, TypeOK, CreatorStates
  <2>2. tasks' \in [Indices -> Tasks]
    BY <1>0, <1>7, <2>1 DEF StoreTask, TypeOK
  <2>3. [creators[c] EXCEPT !.pc = "initialize"] \in CreatorStates
    BY <1>0, CreatorUpdates DEF TypeOK
  <2> QED BY <1>0, <1>7, <2>2, <2>3, CreatorStepTypes DEF StoreTask, TypeOK
<1>8. ASSUME NEW c \in Creators, InitializeMessage(c)
      PROVE  TypeOK'
  <2>1. round' \in [Indices -> {"none", "open", "finished"}]
    BY <1>0, <1>8 DEF InitializeMessage, TypeOK
  <2> QED BY <1>0, <1>8, <2>1, IdleTyped, CreatorStepTypes DEF InitializeMessage, TypeOK
<1>9. ASSUME NEW c \in Creators, CreatorFails(c)
      PROVE  TypeOK'
  <2>1. [CreateTx(c) EXCEPT !.creator = None] \in Txs
    BY <1>0 DEF CreateTx, Txs, TypeOK, CreatorStates
  <2>2. mempool' \subseteq Txs
    BY <1>0, <1>9, <2>1 DEF CreatorFails, TypeOK
  <2> QED BY <1>0, <1>9, <2>2, IdleTyped, CreatorStepTypes DEF CreatorFails, TypeOK
<1>10. ASSUME NEW tx \in mempool, MineCreate(tx)
       PROVE  TypeOK'
  <2>1. tx \in Txs /\ tx.from \in Int /\ tx.to \in Int /\ tx.creator \in Creators \cup {None}
    BY <1>0, <1>10, TxFields DEF MineCreate, TypeOK
  <2>2. created' \in Seq(Tasks) /\ lastCheckpointToTimestamp' \in Int
    <3>1. [createdBlock |-> clock, from |-> tx.from, to |-> tx.to] \in Tasks
      BY <1>0, <2>1 DEF Tasks, TypeOK
    <3>2. CASE CreateOk(tx.from, tx.to)
      <4>1. created' = Append(created, [createdBlock |-> clock, from |-> tx.from, to |-> tx.to])
        BY <1>10, <3>2 DEF MineCreate
      <4>2. lastCheckpointToTimestamp' = tx.to
        BY <1>10, <3>2 DEF MineCreate
      <4>3. created \in Seq(Tasks)
        BY <1>0 DEF TypeOK
      <4> QED BY <2>1, <3>1, <4>1, <4>2, <4>3, SMT
    <3>3. CASE ~CreateOk(tx.from, tx.to)
      BY <1>0, <1>10, <3>3 DEF MineCreate, TypeOK
    <3> QED BY <3>2, <3>3
  <2>3. creators' \in [Creators -> CreatorStates]
    <3>1. CASE tx.creator = None
      BY <1>0, <1>10, <3>1 DEF MineCreate, TypeOK
    <3>2. CASE tx.creator # None
      <4>1. [creators[tx.creator] EXCEPT !.pc = "store", !.index = Len(created)] \in CreatorStates
        BY <1>0, <2>1, <3>2, Created, CreatorUpdates DEF TypeOK
      <4> QED BY <1>0, <1>10, <2>1, <3>2, <4>1, IdleTyped DEF MineCreate, TypeOK
    <3> QED BY <3>1, <3>2
  <2> QED BY <1>0, <1>10, <2>2, <2>3 DEF MineCreate, TypeOK
<1>11. ASSUME NEW tx \in mempool, MineRespond(tx)
       PROVE  TypeOK'
  BY <1>0, <1>11, TxFields DEF MineRespond, TypeOK
<1>12. ASSUME NEW i \in 0..Len(created) - 1, NEW o \in Operators,
              FetchStateRootUpdates(o, i)
       PROVE  TypeOK'
  BY <1>0, <1>12, Created DEF FetchStateRootUpdates, Stored, TypeOK
<1>13. ASSUME NEW i \in 0..Len(created) - 1, NEW o \in Operators,
              FetchOperatorSetUpdates(o, i)
       PROVE  TypeOK'
  BY <1>0, <1>13, Created, SMT DEF FetchOperatorSetUpdates, Stored, TypeOK
<1>14. ASSUME NEW i \in 0..Len(created) - 1, NEW o \in Operators, CountAnswer(o, i)
       PROVE  TypeOK'
  BY <1>0, <1>14, Created, SMT DEF CountAnswer, TypeOK
<1>15. ASSUME NEW i \in 0..Len(created) - 1, NEW answer \in SUBSET Messages,
              SendAggregatedResponse(i, answer)
       PROVE  TypeOK'
  <2>1. i \in Indices
    BY <1>0, Created
  <2>2. RespondTx(i, answer) \in Txs
    BY <1>0, <2>1 DEF RespondTx, TaskOf, Txs, TypeOK
  <2>3. mempool' \subseteq Txs
    BY <1>0, <1>15, <2>2 DEF SendAggregatedResponse, TypeOK
  <2>4. /\ round' \in [Indices -> {"none", "open", "finished"}]
        /\ tasks' \in [Indices -> Tasks]
    BY <1>0, <1>15, NoTaskTyped DEF SendAggregatedResponse, TypeOK
  <2> QED BY <1>0, <1>15, <2>3, <2>4 DEF SendAggregatedResponse, TypeOK
<1>16. ASSUME NEW i \in 0..Len(created) - 1, TaskExpires(i)
       PROVE  TypeOK'
  <2>1. /\ round' \in [Indices -> {"none", "open", "finished"}]
        /\ tasks' \in [Indices -> Tasks]
    BY <1>0, <1>16, NoTaskTyped DEF TaskExpires, TypeOK
  <2> QED BY <1>0, <1>16, <2>1 DEF TaskExpires, TypeOK
<1>17. CASE Crash
  BY <1>0, <1>17, TxFields, SMT DEF Crash, Idle, NoTask, NotSeen, Tasks, Txs, TypeOK, CreatorStates
<1>18. CASE UNCHANGED vars
  BY <1>0, <1>18 DEF vars, TypeOK, Stored
<1> QED BY <1>1, <1>2, <1>3, <1>4, <1>5, <1>6, <1>7, <1>8, <1>9, <1>10, <1>11, <1>12,
           <1>13, <1>14, <1>15, <1>16, <1>17, <1>18 DEF Next

-----------------------------------------------------------------------------
(* What changes what *)

\* The actions that change the clock, messages, tasks and answers.
LEMMA Frame ==
  ASSUME [Next]_vars
  PROVE  /\ clock' = clock \/ Tick
         /\ timestamp' = timestamp
         /\ \/ message' = message
            \/ \E m \in Messages : ValidateMessageTimestamp(m) \/ StoreMessage(m)
            \/ Crash
         /\ \/ created' = created /\ lastCheckpointToTimestamp' = lastCheckpointToTimestamp
            \/ \E tx \in mempool : MineCreate(tx)
         /\ \/ allCheckpointTaskResponses' = allCheckpointTaskResponses
            \/ \E tx \in mempool : MineRespond(tx)
         /\ \/ answers' = answers
            \/ \E i \in 0..Len(created) - 1, o \in Operators :
                 FetchStateRootUpdates(o, i) \/ FetchOperatorSetUpdates(o, i)
         /\ \/ signed' = signed
            \/ \E i \in 0..Len(created) - 1, o \in Operators : CountAnswer(o, i)
            \/ Crash
<1> USE DEF messageVars, contractVars, aggregatorVars
<1>1. CASE Tick
  BY <1>1 DEF Tick
<1>2. CASE \E m \in Messages : ValidateMessageTimestamp(m) \/ StoreMessage(m)
  BY <1>2 DEF ValidateMessageTimestamp, StoreMessage
<1>3. CASE \E c \in Creators : ReadBlock(c) \/ ReadLastCheckpoint(c) \/ SendNewCheckpointTask(c)
  BY <1>3 DEF ReadBlock, ReadLastCheckpoint, SendNewCheckpointTask, CreatorStep
<1>4. CASE \E c \in Creators : StoreTask(c) \/ InitializeMessage(c) \/ CreatorFails(c)
  BY <1>4 DEF StoreTask, InitializeMessage, CreatorFails, CreatorStep
<1>5. CASE \E tx \in mempool : MineCreate(tx)
  BY <1>5 DEF MineCreate
<1>6. CASE \E tx \in mempool : MineRespond(tx)
  BY <1>6 DEF MineRespond
<1>7. CASE \E i \in 0..Len(created) - 1, o \in Operators :
             FetchStateRootUpdates(o, i) \/ FetchOperatorSetUpdates(o, i)
  BY <1>7 DEF FetchStateRootUpdates, FetchOperatorSetUpdates
<1>8. CASE \E i \in 0..Len(created) - 1, o \in Operators : CountAnswer(o, i)
  BY <1>8 DEF CountAnswer
<1>9. CASE \E i \in 0..Len(created) - 1 :
             TaskExpires(i) \/ \E answer \in SUBSET Messages : SendAggregatedResponse(i, answer)
  BY <1>9 DEF TaskExpires, SendAggregatedResponse
<1>10. CASE Crash
  BY <1>10 DEF Crash
<1>11. CASE UNCHANGED vars
  BY <1>11 DEF vars
<1> QED
  BY <1>1, <1>2, <1>3, <1>4, <1>5, <1>6, <1>7, <1>8, <1>9, <1>10, <1>11 DEF Next

\* Time goes forward, and what has settled stays settled.
LEMMA ClockStep ==
  ASSUME IInv, [Next]_vars
  PROVE  /\ clock \in Nat /\ clock' \in Nat /\ clock <= clock'
         /\ \A t \in Int : Settled(t) => Settled(t)'
<1>1. clock \in Nat /\ (clock' = clock \/ clock' = clock + 1)
  BY Frame DEF IInv, TypeOK, Tick
<1> QED BY <1>1, Numbers, SMT DEF Settled

\* A task stays under its index.
LEMMA TasksStay ==
  ASSUME IInv, [Next]_vars
  PROVE  /\ Len(created) \in Nat /\ Len(created') \in Nat /\ Len(created) <= Len(created')
         /\ \A i \in 0..Len(created) - 1 : created'[i + 1] = created[i + 1]
<1>1. created \in Seq(Tasks)
  BY DEF IInv, TypeOK
<1>2. CASE created' = created
  BY <1>1, <1>2, SMT
<1>3. ASSUME NEW task, created' = Append(created, task)
      PROVE  /\ Len(created') = Len(created) + 1
             /\ \A i \in 0..Len(created) - 1 : created'[i + 1] = created[i + 1]
  BY <1>1, <1>3, SMT
<1>4. created' = created \/ \E task : created' = Append(created, task)
  BY Frame DEF MineCreate
<1> QED BY <1>1, <1>2, <1>3, <1>4, SMT

\* A message that gets stored is later than every range.
LEMMA StoredLate ==
  ASSUME IInv, NEW m \in Messages, StoreMessage(m)
  PROVE  timestamp[m] > lastCheckpointToTimestamp
<1>1. /\ message[m].phase = "validated"
      /\ message[m].deadline \in Nat /\ timestamp[m] \in Nat /\ clock \in Nat
      /\ lastCheckpointToTimestamp \in Int
  BY Numbers DEF StoreMessage, IInv, TypeOK
<1>2. clock <= message[m].deadline /\ message[m].deadline <= timestamp[m] + Submission + Latency
  BY <1>1 DEF IInv, MessageInv
<1>3. lastCheckpointToTimestamp + Submission + Aggregation <= clock
  BY DEF IInv, ChainInv, Settled
<1> QED BY <1>1, <1>2, <1>3, Numbers, SMT

\* The messages of a range that a task has do not change.
LEMMA StoredStays ==
  ASSUME IInv, [Next]_vars, NEW i \in 0..Len(created) - 1
  PROVE  StoredFor(i)' = StoredFor(i)
<1>1. created'[i + 1] = created[i + 1]
  BY TasksStay
<1>2. /\ created[i + 1].to <= lastCheckpointToTimestamp
      /\ created[i + 1].from \in Int /\ created[i + 1].to \in Int
      /\ lastCheckpointToTimestamp \in Int
  BY Created DEF IInv, ChainInv, TypeOK, Tasks
<1>3. timestamp' = timestamp /\ \A m \in Messages : timestamp[m] \in Nat
  BY Frame, Numbers DEF IInv, TypeOK
<1>4. ASSUME NEW m \in Messages, timestamp[m] \in created[i + 1].from..created[i + 1].to
      PROVE  message'[m].phase = "stored" <=> message[m].phase = "stored"
  <2>1. CASE message' = message
    BY <2>1
  <2>2. ASSUME NEW n \in Messages, ValidateMessageTimestamp(n)
        PROVE  message'[m].phase = "stored" <=> message[m].phase = "stored"
    BY <2>2 DEF ValidateMessageTimestamp, IInv, TypeOK
  <2>3. ASSUME NEW n \in Messages, StoreMessage(n)
        PROVE  message'[m].phase = "stored" <=> message[m].phase = "stored"
    <3>1. timestamp[n] > lastCheckpointToTimestamp
      BY <2>3, StoredLate
    <3>2. m # n
      BY <1>2, <1>3, <1>4, <3>1, SMT
    <3> QED BY <2>3, <3>2 DEF StoreMessage, IInv, TypeOK
  <2>4. CASE Crash
    BY <2>4 DEF Crash, NotSeen
  <2> QED BY <2>1, <2>2, <2>3, <2>4, Frame
<1> QED BY <1>1, <1>3, <1>4 DEF StoredFor, Stored

-----------------------------------------------------------------------------
(* Tasks, messages and answers *)

\* createCheckpointTask accepts only what comes after the last range.
LEMMA ChainStep ==
  ASSUME IInv, [Next]_vars
  PROVE  ChainInv'
<1>1. CASE created' = created /\ lastCheckpointToTimestamp' = lastCheckpointToTimestamp
  BY <1>1, ClockStep, Numbers, SMT DEF IInv, TypeOK, ChainInv, RangesFollow, Settled
<1>2. ASSUME NEW tx \in mempool, MineCreate(tx), CreateOk(tx.from, tx.to)
      PROVE  ChainInv'
  <2> DEFINE task == [createdBlock |-> clock, from |-> tx.from, to |-> tx.to]
  <2>1. tx.from \in Int /\ tx.to \in Int /\ tx.from > 0 /\ Settled(tx.to)
    BY <1>2, TxFields DEF MineCreate, IInv, TypeOK, MempoolInv
  <2>2. /\ created' = Append(created, task) /\ lastCheckpointToTimestamp' = tx.to
        /\ Len(created) < MaxTasks
    BY <1>2 DEF MineCreate
  <2>3. tx.from <= tx.to /\ tx.from > lastCheckpointToTimestamp
    BY <1>2, <2>1, SMT DEF CreateOk
  <2>4. /\ created \in Seq(Tasks) /\ Len(created) \in Nat
        /\ Len(created') = Len(created) + 1 /\ created'[Len(created) + 1] = task
        /\ \A i \in 1..Len(created) : created'[i] = created[i]
    BY <2>2, SMT DEF IInv, TypeOK
  <2>5. /\ lastCheckpointToTimestamp \in Int
        /\ \A i \in 1..Len(created) : created[i].from \in Int /\ created[i].to \in Int
    <3>1. created \in Seq(Tasks) /\ lastCheckpointToTimestamp \in Int
      BY DEF IInv, TypeOK
    <3>2. \A i \in 1..Len(created) : created[i] \in Tasks
      BY <3>1, SMT
    <3> QED BY <3>1, <3>2 DEF Tasks
  <2>6. \A i \in 1..Len(created') : created'[i].to <= tx.to
    <3>1. ASSUME NEW i \in 1..Len(created)
          PROVE  created'[i].to <= tx.to
      <4>1. created'[i] = created[i] /\ created[i].to <= lastCheckpointToTimestamp
        BY <2>4 DEF IInv, ChainInv
      <4> QED BY <2>1, <2>3, <2>5, <4>1, SMT
    <3>2. created'[Len(created) + 1].to <= tx.to
      BY <2>1, <2>4, SMT
    <3> QED BY <2>4, <3>1, <3>2, SMT
  <2>7. RangesFollow'
    <3>1. ASSUME NEW i \in 1..Len(created')
          PROVE  /\ created'[i].from <= created'[i].to
                 /\ \A j \in 1..i - 1 : created'[j].to < created'[i].from
      <4>1. CASE i \in 1..Len(created)
        BY <2>4, <4>1, SMT DEF IInv, ChainInv, RangesFollow
      <4>2. CASE i = Len(created) + 1
        BY <2>1, <2>3, <2>4, <2>5, <4>2, SMT DEF IInv, ChainInv
      <4> QED BY <2>4, <4>1, <4>2, SMTT(30)
    <3> QED BY <3>1 DEF RangesFollow
  <2>8. Settled(tx.to)'
    BY <2>1, ClockStep
  <2>9. Len(created') <= MaxTasks
    BY <2>2, <2>4, Numbers, SMT
  <2>10. Start <= clock'
    BY ClockStep, Numbers, SMT DEF IInv, ChainInv
  <2> QED BY <2>1, <2>2, <2>3, <2>6, <2>7, <2>8, <2>9, <2>10, SMT DEF ChainInv, Settled
<1> QED BY <1>1, <1>2, Frame DEF MineCreate

\* Time does not pass over the deadline of a message, nor does a deadline come later
\* than the check of the timestamp allows.
LEMMA MessageStep ==
  ASSUME IInv, [Next]_vars
  PROVE  MessageInv'
<1>0. /\ message \in [Messages -> [phase : {"idle", "validated", "stored"}, deadline : Nat]]
      /\ timestamp' = timestamp /\ clock \in Nat
      /\ \A m \in Messages : timestamp[m] \in Nat
  BY Frame, Numbers DEF IInv, TypeOK
<1>1. CASE Tick
  BY <1>0, <1>1, Numbers, SMT DEF Tick, IInv, MessageInv, messageVars
<1>2. ASSUME NEW m \in Messages, ValidateMessageTimestamp(m)
      PROVE  MessageInv'
  BY <1>0, <1>2, Numbers, SMT DEF ValidateMessageTimestamp, IInv, MessageInv
<1>3. ASSUME NEW m \in Messages, StoreMessage(m)
      PROVE  MessageInv'
  <2>1. PICK p \in {"stored", "idle"} :
          message' = [message EXCEPT ![m] = [phase |-> p, deadline |-> 0]]
    BY <1>3 DEF StoreMessage
  <2>2. clock' = clock
    BY <1>3 DEF StoreMessage
  <2> QED BY <1>0, <2>1, <2>2 DEF IInv, MessageInv
<1>4. CASE Crash
  BY <1>0, <1>4 DEF Crash, NotSeen, IInv, MessageInv
<1>5. CASE message' = message /\ clock' = clock
  BY <1>0, <1>5 DEF IInv, MessageInv
<1> QED BY <1>1, <1>2, <1>3, <1>4, <1>5, Frame

\* Operators read whole answers, at whatever time they read.
LEMMA AnswerStep ==
  ASSUME IInv, [Next]_vars
  PROVE  AnswerInv'
<1>0. /\ Len(created) \in Nat /\ Len(created') \in Nat /\ Len(created) <= Len(created')
      /\ \A i \in Indices : i \in Nat /\ (i < Len(created) => i \in 0..Len(created) - 1)
      /\ \A i \in 0..Len(created) - 1 : i \in Indices /\ StoredFor(i)' = StoredFor(i)
  BY Created, TasksStay, StoredStays DEF IInv
<1> DEFINE Whole ==
       \A o \in Operators, i \in Indices :
         /\ answers'[o][i].pc # "none" => i < Len(created)
         /\ answers'[o][i].pc = "half" => answers'[o][i].set = StoredFor(i) \cap StateRootUpdates
         /\ answers'[o][i].pc = "signed" => answers'[o][i].set = StoredFor(i)
<1>1. Whole
  <2>1. CASE answers' = answers
    BY <2>1 DEF IInv, AnswerInv
  <2>2. ASSUME NEW i \in 0..Len(created) - 1, NEW o \in Operators, FetchStateRootUpdates(o, i)
        PROVE  Whole
    <3>1. answers' = [answers EXCEPT ![o][i] =
            [pc |-> "half", set |-> StoredFor(i) \cap StateRootUpdates]]
      BY <2>2 DEF FetchStateRootUpdates, StoredFor
    <3> QED BY <1>0, <3>1, SMT DEF IInv, TypeOK, AnswerInv
  <2>3. ASSUME NEW i \in 0..Len(created) - 1, NEW o \in Operators, FetchOperatorSetUpdates(o, i)
        PROVE  Whole
    <3>1. answers[o][i].set = StoredFor(i) \cap StateRootUpdates
      BY <1>0, <2>3 DEF FetchOperatorSetUpdates, IInv, AnswerInv
    <3>2. answers' = [answers EXCEPT ![o][i] = [pc |-> "signed",
            set |-> answers[o][i].set \cup (StoredFor(i) \cap OperatorSetUpdates)]]
      BY <1>0, <2>3 DEF FetchOperatorSetUpdates, StoredFor, IInv, TypeOK
    <3>3. answers[o][i].set \cup (StoredFor(i) \cap OperatorSetUpdates) = StoredFor(i)
      BY <3>1 DEF StoredFor, Stored, Messages
    <3> QED BY <1>0, <3>2, <3>3, SMT DEF IInv, TypeOK, AnswerInv
  <2> QED BY <2>1, <2>2, <2>3, Frame
<1> DEFINE Counted ==
       \A s \in signed' : s[1] \in Indices /\ s[1] < Len(created) /\ s[3] = StoredFor(s[1])
<1>2. Counted
  <2>1. \A s \in signed : s[1] \in Indices /\ s[1] < Len(created) /\ s[3] = StoredFor(s[1])
    BY DEF IInv, TypeOK, AnswerInv
  <2>2. ASSUME NEW i \in 0..Len(created) - 1, NEW o \in Operators, CountAnswer(o, i)
        PROVE  Counted
    BY <1>0, <2>1, <2>2, SMT DEF CountAnswer, IInv, AnswerInv
  <2>3. CASE Crash
    BY <2>3 DEF Crash
  <2> QED BY <2>1, <2>2, <2>3, Frame
<1>3. \A o \in Operators, i \in Indices :
        /\ answers'[o][i].pc # "none" => i < Len(created')
        /\ answers'[o][i].pc = "half" => answers'[o][i].set = StoredFor(i)' \cap StateRootUpdates
        /\ answers'[o][i].pc = "signed" => answers'[o][i].set = StoredFor(i)'
  BY <1>0, <1>1, SMT
<1>4. \A s \in signed' : s[1] < Len(created') /\ s[3] = StoredFor(s[1])'
  BY <1>0, <1>2, SMT
<1> QED BY <1>3, <1>4 DEF AnswerInv

\* The contract stores a whole answer, which stays whole.
LEMMA ResponseStep ==
  ASSUME IInv, [Next]_vars
  PROVE  ResponseInv'
<1>0. /\ Len(created) \in Nat /\ Len(created') \in Nat /\ Len(created) <= Len(created')
      /\ \A i \in Indices : i \in Nat /\ (i < Len(created) => i \in 0..Len(created) - 1)
      /\ \A i \in 0..Len(created) - 1 : i \in Indices /\ StoredFor(i)' = StoredFor(i)
  BY Created, TasksStay, StoredStays DEF IInv
<1> DEFINE Kept ==
       \A i \in Indices : allCheckpointTaskResponses'[i] # None =>
         i < Len(created) /\ allCheckpointTaskResponses'[i] = StoredFor(i)
<1>1. Kept
  <2>1. CASE allCheckpointTaskResponses' = allCheckpointTaskResponses
    BY <2>1 DEF IInv, ResponseInv
  <2>2. ASSUME NEW tx \in mempool, MineRespond(tx)
        PROVE  Kept
    <3>1. tx.index \in Indices /\ tx.index < Len(created) /\ tx.answer = StoredFor(tx.index)
      BY <2>2, TxFields DEF MineRespond, IInv, TypeOK, MempoolInv
    <3> QED BY <2>2, <3>1 DEF MineRespond, IInv, TypeOK, ResponseInv
  <2> QED BY <2>1, <2>2, Frame
<1> QED BY <1>0, <1>1, SMT DEF ResponseInv

-----------------------------------------------------------------------------
(* The aggregator *)

\* The actions that change what the aggregator holds or has sent.
LEMMA AggregatorFrame ==
  ASSUME [Next]_vars
  PROVE  \/ \E c \in Creators : ReadBlock(c) \/ ReadLastCheckpoint(c) \/ SendNewCheckpointTask(c)
         \/ \E c \in Creators : StoreTask(c) \/ InitializeMessage(c) \/ CreatorFails(c)
         \/ \E tx \in mempool : MineCreate(tx)
         \/ \E i \in 0..Len(created) - 1 :
              TaskExpires(i) \/ \E answer \in SUBSET Messages : SendAggregatedResponse(i, answer)
         \/ Crash
         \/ UNCHANGED <<creators, tasks, round, created>> /\ mempool' \subseteq mempool
<1> DEFINE Others == UNCHANGED <<creators, tasks, round, created>> /\ mempool' \subseteq mempool
<1> USE DEF messageVars, contractVars, aggregatorVars
<1>1. Tick => Others
  BY DEF Tick
<1>2. (\E m \in Messages : ValidateMessageTimestamp(m) \/ StoreMessage(m)) => Others
  BY DEF ValidateMessageTimestamp, StoreMessage
<1>3. (\E tx \in mempool : MineRespond(tx)) => Others
  BY DEF MineRespond
<1>4. (\E i \in 0..Len(created) - 1, o \in Operators :
         FetchStateRootUpdates(o, i) \/ FetchOperatorSetUpdates(o, i) \/ CountAnswer(o, i)) => Others
  BY DEF FetchStateRootUpdates, FetchOperatorSetUpdates, CountAnswer
<1>5. UNCHANGED vars => Others
  BY DEF vars
<1> QED BY <1>1, <1>2, <1>3, <1>4, <1>5 DEF Next

\* An aggregation is opened after its task is stored, and deletes it when it closes.
LEMMA RoundStep ==
  ASSUME IInv, [Next]_vars
  PROVE  RoundInv'
<1>0. /\ round \in [Indices -> {"none", "open", "finished"}] /\ tasks \in [Indices -> Tasks]
      /\ creators \in [Creators -> CreatorStates]
      /\ Len(created) \in Nat /\ Len(created') \in Nat /\ Len(created) <= Len(created')
      /\ \A i \in 0..Len(created) - 1 : created'[i + 1] = created[i + 1]
      /\ \A i \in Indices : i \in Nat /\ (i < Len(created) => i \in 0..Len(created) - 1)
  BY Created, TasksStay DEF IInv, TypeOK
<1> DEFINE HasTask(i, r, t) ==
      /\ r # "none" => i < Len(created)
      /\ r = "open" => t = created[i + 1]
<1>1. \A i \in Indices : HasTask(i, round[i], tasks[i])
  BY DEF IInv, RoundInv
<1>2. \A i \in Indices : HasTask(i, round'[i], tasks'[i])
  <2>1. CASE UNCHANGED <<round, tasks>>
    BY <1>1, <2>1
  <2>2. ASSUME NEW c \in Creators, StoreTask(c)
        PROVE  \A i \in Indices : HasTask(i, round'[i], tasks'[i])
    BY <1>0, <1>1, <2>2 DEF StoreTask
  <2>3. ASSUME NEW c \in Creators, InitializeMessage(c)
        PROVE  \A i \in Indices : HasTask(i, round'[i], tasks'[i])
    <3>1. /\ creators[c].index < Len(created)
          /\ tasks[creators[c].index] = created[creators[c].index + 1]
      BY <2>3 DEF InitializeMessage, IInv, CreatorInv, HasIndex
    <3> QED BY <1>0, <1>1, <2>3, <3>1 DEF InitializeMessage
  <2>4. ASSUME NEW i \in 0..Len(created) - 1, NEW answer \in SUBSET Messages,
               TaskExpires(i) \/ SendAggregatedResponse(i, answer)
        PROVE  \A j \in Indices : HasTask(j, round'[j], tasks'[j])
    BY <1>0, <1>1, <2>4 DEF TaskExpires, SendAggregatedResponse
  <2>5. CASE Crash
    BY <2>5 DEF Crash
  <2>6. \/ UNCHANGED <<round, tasks>>
        \/ \E c \in Creators : StoreTask(c) \/ InitializeMessage(c)
        \/ \E i \in 0..Len(created) - 1, answer \in SUBSET Messages :
             TaskExpires(i) \/ SendAggregatedResponse(i, answer)
        \/ Crash
    <3>1. (\E c \in Creators : ReadBlock(c) \/ ReadLastCheckpoint(c) \/ SendNewCheckpointTask(c)
             \/ CreatorFails(c)) => UNCHANGED <<round, tasks>>
      BY DEF ReadBlock, ReadLastCheckpoint, SendNewCheckpointTask, CreatorFails
    <3>2. (\E tx \in mempool : MineCreate(tx)) => UNCHANGED <<round, tasks>>
      BY DEF MineCreate
    <3>3. {} \in SUBSET Messages
      OBVIOUS
    <3> QED BY <3>1, <3>2, <3>3, AggregatorFrame
  <2> QED BY <2>1, <2>2, <2>3, <2>4, <2>5, <2>6
<1> QED BY <1>0, <1>2, SMT DEF RoundInv

\* What holds of one call of sendNewCheckpointTask by itself.
CallInv(c) ==
  /\ creators[c].pc # "idle" => creators[c].to > Interval /\ Settled(creators[c].to)
  /\ creators[c].pc \in {"send", "sent"} => creators[c].from > 0
  /\ HasIndex(c) => creators[c].index < Len(created) /\ round[creators[c].index] = "none"
  /\ creators[c].pc = "initialize" => tasks[creators[c].index] = created[creators[c].index + 1]

\* Two calls have different indices.
OwnIndices ==
  \A c \in Creators : HasIndex(c) =>
    \A d \in Creators \ {c} : HasIndex(d) => creators[d].index # creators[c].index

\* The invariant of the creators, creator by creator.
LEMMA CreatorParts == CreatorInv <=> (\A c \in Creators : CallInv(c)) /\ OwnIndices
BY DEF CreatorInv, CallInv, OwnIndices

\* A call whose state, index and time are unchanged.
LEMMA CallStays ==
  ASSUME IInv, [Next]_vars, NEW c \in Creators, creators'[c] = creators[c],
         HasIndex(c) => /\ round'[creators[c].index] = round[creators[c].index]
                        /\ tasks'[creators[c].index] = tasks[creators[c].index]
  PROVE  CallInv(c)'
<1>1. CallInv(c) /\ creators[c] \in CreatorStates
  BY CreatorParts DEF IInv, TypeOK
<1>2. /\ Len(created) \in Nat /\ Len(created') \in Nat /\ Len(created) <= Len(created')
      /\ \A i \in 0..Len(created) - 1 : created'[i + 1] = created[i + 1]
  BY TasksStay
<1>3. creators[c].to \in Int /\ creators[c].index \in Nat
  BY <1>1 DEF CreatorStates
<1>4. Settled(creators[c].to) => Settled(creators[c].to)'
  BY <1>3, ClockStep
<1>5. HasIndex(c)' <=> HasIndex(c)
  BY DEF HasIndex
<1> QED BY <1>1, <1>2, <1>3, <1>4, <1>5, SMT DEF CallInv, HasIndex, Settled

\* A step of one call that keeps tasks and aggregations, and leaves it without an index.
LEMMA CallMoves ==
  ASSUME IInv, [Next]_vars, NEW c \in Creators, NEW next \in CreatorStates,
         creators' = [creators EXCEPT ![c] = next], UNCHANGED <<created, tasks, round, clock>>,
         next.pc \notin {"store", "initialize"},
         next.pc # "idle" => next.to > Interval /\ Settled(next.to),
         next.pc \in {"send", "sent"} => next.from > 0
  PROVE  CreatorInv'
<1>0. creators \in [Creators -> CreatorStates] /\ OwnIndices
  BY CreatorParts DEF IInv, TypeOK
<1>1. CallInv(c)'
  BY <1>0 DEF CallInv, HasIndex, Settled
<1>2. ASSUME NEW d \in Creators, d # c
      PROVE  CallInv(d)'
  BY <1>0, <1>2, CallStays
<1>3. OwnIndices'
  BY <1>0 DEF OwnIndices, HasIndex
<1>4. \A d \in Creators : CallInv(d)'
  BY <1>1, <1>2
<1> QED BY <1>3, <1>4, CreatorParts DEF CreatorInv, CallInv, OwnIndices

\* Calls of sendNewCheckpointTask keep to settled ranges and to their own index.
LEMMA CreatorInvStep ==
  ASSUME IInv, [Next]_vars
  PROVE  CreatorInv'
<1>0. /\ creators \in [Creators -> CreatorStates] /\ OwnIndices
      /\ \A c \in Creators : CallInv(c) /\ creators[c].index \in Nat /\ creators[c].to \in Int
  BY CreatorParts DEF IInv, TypeOK, CreatorStates
<1>a. /\ clock \in Nat /\ Start <= clock /\ lastCheckpointToTimestamp \in Nat
      /\ round \in [Indices -> {"none", "open", "finished"}] /\ tasks \in [Indices -> Tasks]
  BY SMT DEF IInv, TypeOK, ChainInv
<1>b. /\ Len(created) \in Nat /\ Len(created) <= MaxTasks
      /\ \A i \in 0..Len(created) - 1 : i \in Indices
      /\ \A c \in Creators : HasIndex(c) => creators[c].index \in Indices
  BY <1>0, Created, SMT DEF IInv, ChainInv, CallInv
<1>1. ASSUME NEW c \in Creators, ReadBlock(c)
      PROVE  CreatorInv'
  <2>1. [pc |-> "last", from |-> 0, to |-> ToTimestamp, index |-> 0] \in CreatorStates
    BY <1>a, Numbers, SMT DEF ToTimestamp, CreatorStates
  <2>2. ToTimestamp > Interval /\ Settled(ToTimestamp)
    BY <1>a, Numbers, SMT DEF ToTimestamp, Settled
  <2> QED BY <1>1, <2>1, <2>2, CallMoves DEF ReadBlock, CreatorStep, contractVars
<1>2. ASSUME NEW c \in Creators, ReadLastCheckpoint(c)
      PROVE  CreatorInv'
  <2> DEFINE next == [creators[c] EXCEPT !.pc = "send", !.from = FromTimestamp(creators[c].to)]
  <2>1. creators[c].to > Interval /\ Settled(creators[c].to)
    BY <1>0, <1>2 DEF ReadLastCheckpoint, CallInv
  <2>2. FromTimestamp(creators[c].to) \in Int /\ FromTimestamp(creators[c].to) > 0
    BY <1>0, <1>a, <2>1, Numbers, SMT DEF FromTimestamp
  <2>3. next \in CreatorStates
    BY <1>0, <2>2, CreatorUpdates
  <2>4. next.pc = "send" /\ next.to = creators[c].to /\ next.from = FromTimestamp(creators[c].to)
    BY <1>0 DEF CreatorStates
  <2> HIDE DEF next
  <2>5. creators' = [creators EXCEPT ![c] = next] /\ UNCHANGED <<created, tasks, round, clock>>
    BY <1>2 DEF ReadLastCheckpoint, CreatorStep, contractVars, next
  <2> QED BY <2>1, <2>2, <2>3, <2>4, <2>5, CallMoves
<1>3. ASSUME NEW c \in Creators, SendNewCheckpointTask(c)
      PROVE  CreatorInv'
  <2> DEFINE next == [creators[c] EXCEPT !.pc = "sent"]
  <2>1. creators[c].to > Interval /\ Settled(creators[c].to) /\ creators[c].from > 0
    BY <1>0, <1>3 DEF SendNewCheckpointTask, CallInv
  <2>2. next \in CreatorStates
    BY <1>0, CreatorUpdates
  <2>3. next.pc = "sent" /\ next.to = creators[c].to /\ next.from = creators[c].from
    BY <1>0 DEF CreatorStates
  <2> HIDE DEF next
  <2>4. UNCHANGED <<created, tasks, round, clock>>
    BY <1>3 DEF SendNewCheckpointTask, CreatorStep, contractVars
  <2>5. CASE creators' = [creators EXCEPT ![c] = next]
    BY <2>1, <2>2, <2>3, <2>4, <2>5, CallMoves
  <2>6. CASE creators' = [creators EXCEPT ![c] = Idle]
    BY <2>4, <2>6, IdleTyped, CallMoves DEF Idle
  <2> QED BY <1>3, <2>5, <2>6 DEF SendNewCheckpointTask, CreatorStep, next
<1>4. ASSUME NEW c \in Creators, StoreTask(c)
      PROVE  CreatorInv'
  <2>1. /\ creators' = [creators EXCEPT ![c] = [creators[c] EXCEPT !.pc = "initialize"]]
        /\ UNCHANGED <<created, round, clock>>
        /\ tasks' = [tasks EXCEPT ![creators[c].index] = created[creators[c].index + 1]]
        /\ HasIndex(c)
    BY <1>4 DEF StoreTask, CreatorStep, contractVars, HasIndex
  <2>2. /\ creators'[c].pc = "initialize" /\ creators'[c].to = creators[c].to
        /\ creators'[c].index = creators[c].index
        /\ \A d \in Creators \ {c} : creators'[d] = creators[d]
    BY <1>0, <2>1 DEF CreatorStates
  <2>3. CallInv(c)'
    BY <1>0, <1>b, <1>a, <2>1, <2>2 DEF CallInv, HasIndex, Settled
  <2>4. ASSUME NEW d \in Creators \ {c}
        PROVE  CallInv(d)'
    <3>1. HasIndex(d) => creators[d].index # creators[c].index
      BY <1>0, <2>1 DEF OwnIndices
    <3> QED BY <1>a, <1>b, <2>1, <2>2, <3>1, CallStays
  <2>5. OwnIndices'
    BY <1>0, <2>1, <2>2, SMT DEF OwnIndices, HasIndex
  <2> QED BY <2>3, <2>4, <2>5 DEF CreatorInv, CallInv, OwnIndices
<1>5. ASSUME NEW c \in Creators, InitializeMessage(c)
      PROVE  CreatorInv'
  <2>1. /\ creators' = [creators EXCEPT ![c] = Idle]
        /\ UNCHANGED <<created, tasks, clock>>
        /\ round' = [round EXCEPT ![creators[c].index] = "open"]
        /\ HasIndex(c)
    BY <1>5 DEF InitializeMessage, CreatorStep, contractVars, HasIndex
  <2>2. CallInv(c)'
    BY <1>0, <2>1 DEF CallInv, HasIndex, Idle
  <2>3. ASSUME NEW d \in Creators \ {c}
        PROVE  CallInv(d)'
    <3>1. HasIndex(d) => creators[d].index # creators[c].index
      BY <1>0, <2>1 DEF OwnIndices
    <3> QED BY <1>0, <1>a, <1>b, <2>1, <3>1, CallStays
  <2>4. OwnIndices'
    BY <1>0, <2>1 DEF OwnIndices, HasIndex, Idle
  <2> QED BY <2>2, <2>3, <2>4 DEF CreatorInv, CallInv, OwnIndices
<1>6. ASSUME NEW c \in Creators, CreatorFails(c)
      PROVE  CreatorInv'
  BY <1>6, IdleTyped, CallMoves DEF CreatorFails, CreatorStep, contractVars, Idle
<1>7. ASSUME NEW tx \in mempool, MineCreate(tx)
      PROVE  CreatorInv'
  <2>0. tx \in Txs /\ tx.kind = "create" /\ tx.creator \in Creators \cup {None}
    BY <1>7, TxFields DEF MineCreate, IInv, TypeOK
  <2>1. UNCHANGED <<tasks, round, clock>>
    BY <1>7 DEF MineCreate
  <2>2. CASE creators' = creators
    <3>1. \A c \in Creators : CallInv(c)'
      BY <2>1, <2>2, CallStays
    <3>2. OwnIndices'
      BY <1>0, <2>2 DEF OwnIndices, HasIndex
    <3> QED BY <3>1, <3>2 DEF CreatorInv, CallInv, OwnIndices
  <2>3. CASE tx.creator # None /\ CreateOk(tx.from, tx.to)
    <3> DEFINE c == tx.creator
    <3>1. c \in Creators /\ creators[c].pc = "sent"
      BY <2>0, <2>3 DEF IInv, MempoolInv
    <3>2. creators' = [creators EXCEPT ![c] = [creators[c] EXCEPT !.pc = "store", !.index = Len(created)]]
      BY <1>7, <2>3, <3>1, <1>0 DEF MineCreate
    <3> HIDE DEF c
    <3>3. /\ creators'[c].pc = "store" /\ creators'[c].to = creators[c].to
          /\ creators'[c].index = Len(created)
          /\ \A d \in Creators \ {c} : creators'[d] = creators[d]
      BY <1>0, <3>1, <3>2 DEF CreatorStates
    <3>4. Len(created) < MaxTasks /\ Len(created') = Len(created) + 1
      <4>1. /\ Len(created) < MaxTasks
            /\ created' = Append(created, [createdBlock |-> clock, from |-> tx.from, to |-> tx.to])
        BY <1>7, <2>3 DEF MineCreate
      <4>2. created \in Seq(Tasks)
        BY DEF IInv, TypeOK
      <4> QED BY <4>1, <4>2, SMT
    <3>5. Len(created) \in Indices /\ round[Len(created)] = "none"
      BY <1>b, <3>4, Numbers, SMT DEF Indices, IInv, RoundInv
    <3>6. CallInv(c)'
      BY <1>0, <1>b, <2>1, <3>1, <3>3, <3>4, <3>5, SMT DEF CallInv, HasIndex, Settled
    <3>7. ASSUME NEW d \in Creators \ {c}
          PROVE  CallInv(d)'
      BY <2>1, <3>3, CallStays
    <3>8. \A d \in Creators \ {c} : HasIndex(d) => creators[d].index < Len(created)
      BY <1>0 DEF CallInv
    <3>9. OwnIndices'
      BY <1>0, <1>b, <3>1, <3>3, <3>8, SMT DEF OwnIndices, HasIndex
    <3> QED BY <3>6, <3>7, <3>9 DEF CreatorInv, CallInv, OwnIndices
  <2>4. CASE tx.creator # None /\ ~CreateOk(tx.from, tx.to)
    <3>1. tx.creator \in Creators
      BY <2>0, <2>4
    <3>2. creators' = [creators EXCEPT ![tx.creator] = Idle] /\ created' = created
      BY <1>7, <2>4 DEF MineCreate
    <3> QED BY <2>1, <3>1, <3>2, IdleTyped, CallMoves DEF Idle
  <2> QED BY <1>7, <2>2, <2>3, <2>4 DEF MineCreate
<1>8. ASSUME NEW i \in 0..Len(created) - 1, NEW answer \in SUBSET Messages,
             TaskExpires(i) \/ SendAggregatedResponse(i, answer)
      PROVE  CreatorInv'
  <2>1. /\ round[i] = "open" /\ i \in Indices
        /\ round' = [round EXCEPT ![i] = "finished"] /\ tasks' = [tasks EXCEPT ![i] = NoTask]
        /\ UNCHANGED <<creators, created, clock>>
    BY <1>8, <1>b DEF TaskExpires, SendAggregatedResponse, contractVars
  <2>2. ASSUME NEW c \in Creators
        PROVE  CallInv(c)'
    <3>1. HasIndex(c) => creators[c].index # i
      BY <1>0, <2>1 DEF CallInv
    <3> QED BY <1>a, <1>b, <2>1, <3>1, CallStays
  <2>3. OwnIndices'
    BY <1>0, <2>1 DEF OwnIndices, HasIndex
  <2> QED BY <2>2, <2>3 DEF CreatorInv, CallInv, OwnIndices
<1>9. CASE Crash
  BY <1>9 DEF Crash, Idle, CreatorInv, HasIndex
<1>10. CASE UNCHANGED <<creators, tasks, round, created>>
  <2>1. \A c \in Creators : CallInv(c)'
    BY <1>10, CallStays
  <2>2. OwnIndices'
    BY <1>0, <1>10 DEF OwnIndices, HasIndex
  <2> QED BY <2>1, <2>2 DEF CreatorInv, CallInv, OwnIndices
<1>11. {} \in SUBSET Messages
  OBVIOUS
<1> QED BY <1>1, <1>2, <1>3, <1>4, <1>5, <1>6, <1>7, <1>8, <1>9, <1>10, <1>11,
           AggregatorFrame

\* What holds of one transaction.
TxInv(tx) ==
  /\ tx.kind = "create" =>
       /\ tx.from > 0 /\ Settled(tx.to)
       /\ tx.creator # None => creators[tx.creator].pc = "sent" /\ tx = CreateTx(tx.creator)
  /\ tx.kind = "respond" =>
       /\ tx.index < Len(created)
       /\ tx.task = created[tx.index + 1]
       /\ tx.answer = StoredFor(tx.index)

\* The invariant of the mempool, transaction by transaction.
LEMMA MempoolParts == MempoolInv <=> \A tx \in mempool : TxInv(tx)
BY DEF MempoolInv, TxInv

\* A transaction whose sender does not move.
LEMMA TxStays ==
  ASSUME IInv, [Next]_vars, NEW tx \in mempool,
         tx.kind = "create" /\ tx.creator # None => creators'[tx.creator] = creators[tx.creator]
  PROVE  TxInv(tx)'
<1>0. TxInv(tx) /\ tx \in Txs
  BY MempoolParts DEF IInv, TypeOK
<1>1. CASE tx.kind = "create"
  <2>1. tx.to \in Int
    BY <1>0, <1>1, TxFields
  <2>2. Settled(tx.to)'
    BY <1>0, <1>1, <2>1, ClockStep DEF TxInv
  <2> QED BY <1>0, <1>1, <2>2 DEF TxInv, CreateTx, Settled
<1>2. CASE tx.kind = "respond"
  <2>1. tx.index \in Indices /\ tx.index < Len(created)
    BY <1>0, <1>2, TxFields DEF TxInv
  <2>2. tx.index \in 0..Len(created) - 1
    BY <2>1, Created DEF IInv
  <2>3. /\ StoredFor(tx.index)' = StoredFor(tx.index)
        /\ created'[tx.index + 1] = created[tx.index + 1]
        /\ tx.index < Len(created')
    BY <2>2, StoredStays, TasksStay, SMT
  <2> QED BY <1>0, <1>2, <2>3 DEF TxInv
<1> QED BY <1>0, <1>1, <1>2, TxFields

\* An answer with a quorum is one that an operator has computed.
LEMMA CountedAnswer ==
  ASSUME IInv, NEW i \in 0..Len(created) - 1, NEW answer \in SUBSET Messages,
         SendAggregatedResponse(i, answer)
  PROVE  answer = StoredFor(i)
<1>1. Cardinality({}) = 0
  BY FS_EmptySet
<1>2. SignersOf(i, answer) # {}
  <2> SUFFICES ASSUME SignersOf(i, answer) = {} PROVE FALSE
    OBVIOUS
  <2>1. Cardinality(SignersOf(i, answer)) = 0
    BY <1>1
  <2>2. Cardinality(SignersOf(i, answer)) >= Quorum
    BY DEF SendAggregatedResponse
  <2> QED BY <2>1, <2>2, Numbers, SMT
<1>3. PICK o \in Operators : <<i, o, answer>> \in signed
  BY <1>2 DEF SignersOf
<1> QED BY <1>3 DEF IInv, AnswerInv

SendsOrExpires(i) ==
  TaskExpires(i) \/ \E answer \in SUBSET Messages : SendAggregatedResponse(i, answer)

\* Transactions are sent with what they should have, and keep it.
LEMMA MempoolStep ==
  ASSUME IInv, [Next]_vars
  PROVE  MempoolInv'
<1>0. /\ mempool \subseteq Txs /\ creators \in [Creators -> CreatorStates]
      /\ \A tx \in mempool : TxInv(tx)
      /\ \A tx \in mempool : tx.kind = "create" =>
           tx.from \in Int /\ tx.to \in Int /\ tx.creator \in Creators \cup {None}
  BY MempoolParts, TxFields DEF IInv, TypeOK
<1>1. ASSUME NEW c \in Creators, ReadBlock(c) \/ ReadLastCheckpoint(c)
      PROVE  \A tx \in mempool' : TxInv(tx)'
  <2>1. creators[c].pc # "sent" /\ mempool' = mempool
        /\ \A d \in Creators \ {c} : creators'[d] = creators[d]
    BY <1>0, <1>1 DEF ReadBlock, ReadLastCheckpoint, CreatorStep
  <2>2. \A tx \in mempool : tx.kind = "create" /\ tx.creator # None => tx.creator \in Creators \ {c}
    BY <1>0, <2>1 DEF TxInv
  <2> QED BY <2>1, <2>2, TxStays
<1>2. ASSUME NEW c \in Creators, SendNewCheckpointTask(c)
      PROVE  \A tx \in mempool' : TxInv(tx)'
  <2>1. creators[c].pc = "send" /\ (mempool' = mempool \cup {CreateTx(c)} \/ mempool' = mempool)
        /\ \A d \in Creators \ {c} : creators'[d] = creators[d]
    BY <1>0, <1>2 DEF SendNewCheckpointTask, CreatorStep
  <2>2. \A tx \in mempool : tx.kind = "create" /\ tx.creator # None => tx.creator \in Creators \ {c}
    BY <1>0, <2>1 DEF TxInv
  <2>3. \A tx \in mempool : TxInv(tx)'
    BY <2>1, <2>2, TxStays
  <2>4. CASE CreateTx(c) \in mempool' /\ CreateTx(c) \notin mempool
    <3>1. /\ CreateTx(c).kind = "create" /\ CreateTx(c).from = creators[c].from
          /\ CreateTx(c).to = creators[c].to /\ CreateTx(c).creator = c
      BY DEF CreateTx
    <3>2. creators[c].from > 0 /\ Settled(creators[c].to)
      BY <2>1 DEF IInv, CreatorInv
    <3>3. creators' = [creators EXCEPT ![c] = [creators[c] EXCEPT !.pc = "sent"]] /\ clock' = clock
      BY <1>2, <2>4 DEF SendNewCheckpointTask, CreatorStep
    <3>4. creators'[c].pc = "sent" /\ CreateTx(c)' = CreateTx(c)
      BY <1>0, <3>3 DEF CreateTx, CreatorStates
    <3>5. TxInv(CreateTx(c))'
      BY <3>1, <3>2, <3>3, <3>4 DEF TxInv, Settled
    <3> QED BY <2>1, <2>3, <3>4, <3>5
  <2> QED BY <2>1, <2>3, <2>4
<1>3. ASSUME NEW c \in Creators, StoreTask(c) \/ InitializeMessage(c)
      PROVE  \A tx \in mempool' : TxInv(tx)'
  <2>1. creators[c].pc # "sent" /\ mempool' = mempool
        /\ \A d \in Creators \ {c} : creators'[d] = creators[d]
    BY <1>0, <1>3 DEF StoreTask, InitializeMessage, CreatorStep
  <2>2. \A tx \in mempool : tx.kind = "create" /\ tx.creator # None => tx.creator \in Creators \ {c}
    BY <1>0, <2>1 DEF TxInv
  <2> QED BY <2>1, <2>2, TxStays
<1>4. ASSUME NEW c \in Creators, CreatorFails(c)
      PROVE  \A tx \in mempool' : TxInv(tx)'
  <2>0. clock' = clock /\ \A d \in Creators \ {c} : creators'[d] = creators[d]
    BY <1>0, <1>4 DEF CreatorFails, CreatorStep
  <2>1. ASSUME NEW tx \in mempool, tx.kind = "create" /\ tx.creator # None => tx.creator # c
        PROVE  TxInv(tx)'
    BY <1>0, <2>0, <2>1, TxStays
  <2>2. CASE creators[c].pc = "sent"
    <3> DEFINE orphan == [CreateTx(c) EXCEPT !.creator = None]
    <3>1. mempool' = (mempool \ {CreateTx(c)}) \cup {orphan}
      BY <1>4, <2>2 DEF CreatorFails
    <3>2. \A tx \in mempool : tx.kind = "create" /\ tx.creator = c /\ c # None => tx = CreateTx(c)
      BY <1>0 DEF TxInv
    <3>3. orphan.kind = "create" /\ orphan.creator = None /\ orphan.from = creators[c].from
          /\ orphan.to = creators[c].to
      BY DEF CreateTx
    <3>4. creators[c].from > 0 /\ Settled(creators[c].to)
      BY <2>2 DEF IInv, CreatorInv
    <3> HIDE DEF orphan
    <3>5. ASSUME NEW tx \in {orphan}
          PROVE  TxInv(tx)'
      BY <2>0, <3>3, <3>4 DEF TxInv, Settled
    <3> QED BY <2>1, <3>1, <3>2, <3>5
  <2>3. CASE creators[c].pc # "sent"
    <3>1. mempool' = mempool
      BY <1>4, <2>3 DEF CreatorFails
    <3>2. \A tx \in mempool : tx.kind = "create" /\ tx.creator # None => tx.creator # c
      BY <1>0, <2>3 DEF TxInv
    <3> QED BY <2>1, <3>1, <3>2
  <2> QED BY <2>2, <2>3
<1>5. ASSUME NEW mined \in mempool, MineCreate(mined)
      PROVE  \A tx \in mempool' : TxInv(tx)'
  <2>1. mempool' = mempool \ {mined} /\ mined.kind = "create"
    BY <1>5 DEF MineCreate
  <2>2. ASSUME NEW tx \in mempool', tx.kind = "create", tx.creator # None
        PROVE  creators'[tx.creator] = creators[tx.creator]
    <3>1. tx.creator \in Creators /\ tx = CreateTx(tx.creator) /\ tx # mined
      BY <1>0, <2>1, <2>2 DEF TxInv
    <3>2. mined.creator # None => mined = CreateTx(mined.creator)
      BY <1>0, <2>1 DEF TxInv
    <3>3. mined.creator # None => mined.creator # tx.creator
      BY <3>1, <3>2
    <3> QED BY <1>0, <1>5, <3>1, <3>3 DEF MineCreate
  <2> QED BY <2>1, <2>2, TxStays
<1>6. ASSUME NEW i \in 0..Len(created) - 1, SendsOrExpires(i)
      PROVE  \A tx \in mempool' : TxInv(tx)'
  <2>1. creators' = creators
    BY <1>6 DEF SendsOrExpires, TaskExpires, SendAggregatedResponse
  <2>2. \A tx \in mempool : TxInv(tx)'
    BY <2>1, TxStays
  <2>3. ASSUME NEW answer \in SUBSET Messages, SendAggregatedResponse(i, answer),
               NEW tx \in {RespondTx(i, answer)}
        PROVE  TxInv(tx)'
    <3>1. tx.kind = "respond" /\ tx.index = i /\ tx.task = tasks[i] /\ tx.answer = answer
      BY <2>3, SMT DEF RespondTx, TaskOf
    <3>2. tasks[i] = created[i + 1] /\ i \in Indices
      BY <2>3, Created DEF SendAggregatedResponse, IInv, RoundInv
    <3>3. answer = StoredFor(i)
      BY <2>3, CountedAnswer
    <3>4. /\ StoredFor(i)' = StoredFor(i) /\ created'[i + 1] = created[i + 1]
          /\ i < Len(created')
      BY StoredStays, TasksStay, SMT
    <3> QED BY <3>1, <3>2, <3>3, <3>4 DEF TxInv
  <2> QED BY <1>6, <2>2, <2>3, SMT DEF SendsOrExpires, TaskExpires, SendAggregatedResponse
<1>7. ASSUME Crash
      PROVE  \A tx \in mempool' : TxInv(tx)'
  <2>1. ASSUME NEW tx \in mempool, tx.kind = "create",
               NEW orphan \in {[tx EXCEPT !.creator = None]}
        PROVE  TxInv(orphan)'
    <3>1. tx \in [kind : {"create"}, from : Int, to : Int, creator : Creators \cup {None}]
      BY <1>0, <2>1, TxFields
    <3>2. orphan.kind = "create" /\ orphan.creator = None /\ orphan.from = tx.from /\ orphan.to = tx.to
      BY <2>1, <3>1
    <3>3. clock' = clock
      BY <1>7 DEF Crash
    <3> QED BY <1>0, <2>1, <3>2, <3>3 DEF TxInv, Settled
  <2>2. ASSUME NEW tx \in mempool, tx.kind # "create"
        PROVE  TxInv(tx)'
    BY <2>2, TxStays
  <2>3. mempool' = {IF tx.kind = "create" THEN [tx EXCEPT !.creator = None] ELSE tx : tx \in mempool}
    BY <1>7 DEF Crash
  <2>4. ASSUME NEW new \in mempool'
        PROVE  TxInv(new)'
    <3>1. PICK tx \in mempool :
            new = IF tx.kind = "create" THEN [tx EXCEPT !.creator = None] ELSE tx
      BY <2>3
    <3>2. CASE tx.kind = "create"
      <4>1. new \in {[tx EXCEPT !.creator = None]}
        BY <3>1, <3>2
      <4> QED BY <2>1, <3>2, <4>1
    <3>3. CASE tx.kind # "create"
      <4>1. new = tx
        BY <3>1, <3>3
      <4> QED BY <2>2, <3>3, <4>1
    <3> QED BY <3>2, <3>3
  <2> QED BY <2>4
<1>8. ASSUME UNCHANGED <<creators, tasks, round, created>> /\ mempool' \subseteq mempool
      PROVE  \A tx \in mempool' : TxInv(tx)'
  <2>1. ASSUME NEW tx \in mempool'
        PROVE  TxInv(tx)'
    <3>1. tx \in mempool /\ creators' = creators
      BY <1>8
    <3> QED BY <3>1, TxStays
  <2> QED BY <2>1
<1>9. \A tx \in mempool' : TxInv(tx)'
  BY <1>1, <1>2, <1>3, <1>4, <1>5, <1>6, <1>7, <1>8, AggregatorFrame DEF SendsOrExpires
<1> QED BY <1>9 DEF MempoolInv, TxInv

-----------------------------------------------------------------------------
(* Theorems *)

\* The invariant holds at the start.
LEMMA InitInv == Init => IInv
<1> SUFFICES ASSUME Init PROVE IInv
  OBVIOUS
<1>1. TypeOK
  <2>1. /\ clock \in Nat /\ lastCheckpointToTimestamp \in Int /\ calls \in Nat /\ crashes \in Nat
        /\ created \in Seq(Tasks) /\ mempool \subseteq Txs
        /\ signed \subseteq Indices \X Operators \X SUBSET Messages
    BY Numbers, SMT DEF Init
  <2>2. /\ timestamp \in [Messages -> Timestamps]
        /\ message \in [Messages -> [phase : {"idle", "validated", "stored"}, deadline : Nat]]
    BY DEF Init, NotSeen
  <2>3. /\ creators \in [Creators -> CreatorStates]
        /\ tasks \in [Indices -> Tasks]
        /\ round \in [Indices -> {"none", "open", "finished"}]
    BY IdleTyped, NoTaskTyped DEF Init
  <2>4. allCheckpointTaskResponses \in [Indices -> (SUBSET Messages) \cup {None}]
    BY DEF Init
  <2>5. answers \in [Operators -> [Indices -> [pc : {"none", "half", "signed"},
                                               set : SUBSET Messages]]]
    BY DEF Init, NotStarted
  <2> QED BY <2>1, <2>2, <2>3, <2>4, <2>5 DEF TypeOK
<1>2. ChainInv
  BY Numbers, SMT DEF Init, ChainInv, RangesFollow, Settled
<1>3. MessageInv /\ RoundInv /\ MempoolInv /\ AnswerInv /\ ResponseInv
  BY DEF Init, MessageInv, RoundInv, MempoolInv, AnswerInv, ResponseInv, NotSeen, NotStarted
<1>4. CreatorInv
  BY DEF Init, CreatorInv, HasIndex, Idle
<1> QED BY <1>1, <1>2, <1>3, <1>4 DEF IInv

\* Every step keeps the invariant.
LEMMA StepInv == IInv /\ [Next]_vars => IInv'
BY TypeStep, ChainStep, MessageStep, CreatorInvStep, RoundStep, MempoolStep, AnswerStep,
   ResponseStep DEF IInv

\* The invariant holds always.
LEMMA Inductive == Spec => []IInv
BY InitInv, StepInv, PTL DEF Spec

\* The state of messages, tasks, calls and transactions stays in its types.
THEOREM CheckpointTypeCorrect == Spec => []TypeOK
<1>1. IInv => TypeOK
  BY DEF IInv
<1> QED BY <1>1, Inductive, PTL

\* The ranges of the tasks that createCheckpointTask accepts are not empty, follow each
\* other and never overlap, for any number of concurrent calls.
THEOREM RangesFollowHolds == Spec => []RangesFollow
<1>1. IInv => RangesFollow
  BY DEF IInv, ChainInv
<1> QED BY <1>1, Inductive, PTL

\* No message of a range is stored after a task over the range, or over a later one,
\* was created.
THEOREM CheckpointIsSettledHolds == Spec => CheckpointIsSettled
<1>1. IInv /\ [Next]_vars =>
        [\A m \in Messages : message[m].phase # "stored" /\ message'[m].phase = "stored"
           => timestamp[m] > lastCheckpointToTimestamp]_vars
  <2> SUFFICES ASSUME IInv, [Next]_vars, NEW m \in Messages,
                      message[m].phase # "stored", message'[m].phase = "stored"
               PROVE  timestamp[m] > lastCheckpointToTimestamp
    OBVIOUS
  <2>0. message \in [Messages -> [phase : {"idle", "validated", "stored"}, deadline : Nat]]
    BY DEF IInv, TypeOK
  <2>1. ASSUME NEW n \in Messages, ValidateMessageTimestamp(n)
        PROVE  FALSE
    BY <2>0, <2>1 DEF ValidateMessageTimestamp
  <2>2. ASSUME NEW n \in Messages, StoreMessage(n)
        PROVE  n = m
    BY <2>0, <2>2 DEF StoreMessage
  <2>3. ~Crash
    BY SMT DEF Crash, NotSeen
  <2> QED BY <2>1, <2>2, <2>3, Frame, StoredLate
<1> QED BY <1>1, Inductive, PTL DEF Spec, CheckpointIsSettled

\* The answer that the task manager keeps is the stored messages of the task's range.
THEOREM ResponseIsCompleteHolds == Spec => []ResponseIsComplete
<1>1. IInv => ResponseIsComplete
  BY Created DEF IInv, ResponseInv, ResponseIsComplete, StoredFor
<1> QED BY <1>1, Inductive, PTL

\* A response is submitted with the task that was created under its index.
THEOREM SubmitsCreatedTaskHolds == Spec => []SubmitsCreatedTask
<1>1. IInv => SubmitsCreatedTask
  BY DEF IInv, MempoolInv, SubmitsCreatedTask
<1> QED BY <1>1, Inductive, PTL

-----------------------------------------------------------------------------
(* Induction *)

\* A set of natural numbers that is not empty has a least element.
LEMMA LeastElement ==
  ASSUME NEW T \in SUBSET Nat, T # {}
  PROVE  \E m \in T : \A k \in T : m <= k
<1>1. \A U \in SUBSET Nat :
        U # {} => \E m \in U : \A k \in U : ~(<<k, m>> \in OpToRel(<, Nat))
  BY NatLessThanWellFounded, WFMin
<1>2. PICK m \in T : \A k \in T : ~(<<k, m>> \in OpToRel(<, Nat))
  BY <1>1
<1>3. \A k \in T : <<k, m>> \in OpToRel(<, Nat) <=> k < m
  BY DEF OpToRel
<1>4. \A k \in T : ~(k < m)
  BY <1>2, <1>3
<1>5. \A k \in T : m <= k
  BY <1>4, SMT
<1> QED BY <1>5

\* A set of natural numbers that has zero and the successors of its elements has all.
LEMMA InductiveSet ==
  ASSUME NEW T \in SUBSET Nat, 0 \in T, \A n \in T : n + 1 \in T
  PROVE  T = Nat
<1> SUFFICES ASSUME T # Nat PROVE FALSE
  OBVIOUS
<1>1. Nat \ T \in SUBSET Nat /\ Nat \ T # {}
  OBVIOUS
<1>2. PICK m \in Nat \ T : \A k \in Nat \ T : m <= k
  BY <1>1, LeastElement
<1>3. m # 0 /\ m - 1 \in Nat
  BY <1>2, SMT
<1>4. m - 1 \in T
  BY <1>2, <1>3, SMT
<1>5. (m - 1) + 1 \in T
  BY <1>4
<1> QED BY <1>2, <1>5, SMT

\* The same up to a bound.
LEMMA InductiveTo ==
  ASSUME NEW n \in Nat, NEW T, 0 \in T, \A k \in 0..n - 1 : k \in T => k + 1 \in T
  PROVE  0..n \subseteq T
<1> DEFINE U == {k \in Nat : k <= n => k \in T}
<1>1. U \in SUBSET Nat /\ 0 \in U
  OBVIOUS
<1>2. \A k \in U : k + 1 \in U
  BY SMT
<1> HIDE DEF U
<1>3. U = Nat
  BY <1>1, <1>2, InductiveSet
<1> QED BY <1>3, SMT DEF U

-----------------------------------------------------------------------------
(* Powers of two and the bits of a key *)

\* PowerOf2 is what its definition says.
LEMMA PowerRecursion ==
  PowerOf2 = [e \in 0..Depth |-> IF e = 0 THEN 1 ELSE 2 * PowerOf2[e - 1]]
<1> DEFINE T == {n \in Nat : \E f : f = [e \in 0..n |-> IF e = 0 THEN 1 ELSE 2 * f[e - 1]]}
<1>1. 0 \in T
  <2> DEFINE f == [e \in 0..0 |-> 1]
  <2>1. f = [e \in 0..0 |-> IF e = 0 THEN 1 ELSE 2 * f[e - 1]]
    BY SMT
  <2> QED BY <2>1
<1>2. ASSUME NEW n \in T PROVE n + 1 \in T
  <2>1. n \in Nat
    OBVIOUS
  <2>2. PICK f : f = [e \in 0..n |-> IF e = 0 THEN 1 ELSE 2 * f[e - 1]]
    BY <1>2
  <2> DEFINE g == [e \in 0..n + 1 |-> IF e = n + 1 THEN 2 * f[n] ELSE f[e]]
  <2>3. \A e \in 0..n + 1 : g[e] = IF e = 0 THEN 1 ELSE 2 * g[e - 1]
    <3> TAKE e \in 0..n + 1
    <3>1. CASE e = n + 1
      BY <2>1, <3>1, SMT
    <3>2. CASE e # n + 1
      <4>1. e \in 0..n /\ g[e] = f[e] /\ (e # 0 => g[e - 1] = f[e - 1])
        BY <2>1, <3>2, SMT
      <4>2. f[e] = IF e = 0 THEN 1 ELSE 2 * f[e - 1]
        BY <2>2, <4>1
      <4> QED BY <4>1, <4>2
    <3> QED BY <3>1, <3>2
  <2>4. DOMAIN g = 0..n + 1
    OBVIOUS
  <2> HIDE DEF g
  <2>5. g = [e \in 0..n + 1 |-> g[e]]
    BY <2>4 DEF g
  <2>6. g = [e \in 0..n + 1 |-> IF e = 0 THEN 1 ELSE 2 * g[e - 1]]
    BY <2>3, <2>5
  <2> QED BY <2>1, <2>6, SMT
<1>0. T \in SUBSET Nat /\ Depth \in Nat
  BY TreeAssumption, SMT DEF Depth
<1> HIDE DEF T
<1>3. Depth \in T
  BY <1>0, <1>1, <1>2, InductiveSet
<1>4. \E f : f = [e \in 0..Depth |-> IF e = 0 THEN 1 ELSE 2 * f[e - 1]]
  BY <1>3 DEF T
<1> QED BY <1>4 DEF PowerOf2

\* Powers of two are positive numbers, each twice the one before.
LEMMA Powers ==
  /\ PowerOf2[0] = 1
  /\ \A e \in 0..Depth : PowerOf2[e] \in Nat \ {0}
  /\ \A e \in 0..Depth - 1 : PowerOf2[e + 1] = 2 * PowerOf2[e]
<1>0. Depth \in Nat
  BY TreeAssumption, SMT DEF Depth
<1>1. PowerOf2[0] = 1
  BY <1>0, PowerRecursion, SMT
<1>2. \A e \in 0..Depth - 1 : PowerOf2[e + 1] = 2 * PowerOf2[e]
  <2> TAKE e \in 0..Depth - 1
  <2>1. e + 1 \in 0..Depth /\ e + 1 # 0 /\ (e + 1) - 1 = e
    BY <1>0, SMT
  <2> QED BY <2>1, PowerRecursion
<1> DEFINE T == {e \in 0..Depth : PowerOf2[e] \in Nat \ {0}}
<1>3. 0 \in T
  BY <1>0, <1>1, SMT
<1>4. \A e \in 0..Depth - 1 : e \in T => e + 1 \in T
  BY <1>0, <1>2, SMT
<1> HIDE DEF T
<1>5. 0..Depth \subseteq T
  BY <1>0, <1>3, <1>4, InductiveTo
<1> QED BY <1>1, <1>2, <1>5 DEF T

\* 2^(a + b) = 2^a * 2^b.
LEMMA PowerOfSum ==
  ASSUME NEW a \in Nat, NEW b \in Nat, a + b <= Depth
  PROVE  PowerOf2[a + b] = PowerOf2[a] * PowerOf2[b]
<1>0. Depth \in Nat
  BY TreeAssumption, SMT DEF Depth
<1> DEFINE T == {c \in 0..b : PowerOf2[a + c] = PowerOf2[a] * PowerOf2[c]}
<1>1. 0 \in T
  <2>1. PowerOf2[a] \in Nat /\ a + 0 = a
    BY <1>0, Powers, SMT
  <2> QED BY <2>1, Powers, SMT
<1>2. ASSUME NEW c \in 0..b - 1, c \in T PROVE c + 1 \in T
  <2>1. a + c \in 0..Depth - 1 /\ c \in 0..Depth - 1 /\ a \in 0..Depth /\ a + (c + 1) = (a + c) + 1
    BY <1>0, SMT
  <2>2. PowerOf2[a + (c + 1)] = 2 * PowerOf2[a + c] /\ PowerOf2[c + 1] = 2 * PowerOf2[c]
    BY <2>1, Powers
  <2>3. PowerOf2[a] \in Nat /\ PowerOf2[c] \in Nat
    BY <1>0, <2>1, Powers, SMT
  <2>4. PowerOf2[a + c] = PowerOf2[a] * PowerOf2[c]
    BY <1>2
  <2>5. 2 * (PowerOf2[a] * PowerOf2[c]) = PowerOf2[a] * (2 * PowerOf2[c])
    BY <2>3, SMT
  <2>6. c + 1 \in 0..b
    BY SMT
  <2> QED BY <2>2, <2>4, <2>5, <2>6
<1> HIDE DEF T
<1>3. b \in T
  BY <1>1, <1>2, InductiveTo, SMT
<1> QED BY <1>3 DEF T

\* A quotient is between two multiples of the divisor.
LEMMA Quotient ==
  ASSUME NEW x \in Nat, NEW d \in Nat \ {0}, NEW q \in Nat
  PROVE  x \div d = q <=> q * d <= x /\ x < (q + 1) * d
<1>1. (x \div d) * d <= x /\ x < ((x \div d) + 1) * d
  BY SMT
<1>2. ASSUME q * d <= x, x < (q + 1) * d PROVE x \div d = q
  BY <1>2, SMT
<1> QED BY <1>1, <1>2

\* A multiple of a * d more, and the quotient by d is a multiple of a more.
LEMMA QuotientOfSum ==
  ASSUME NEW x \in Nat, NEW d \in Nat \ {0}, NEW r \in Nat, NEW a \in Nat
  PROVE  (x + r * (a * d)) \div d = (x \div d) + r * a
<1> DEFINE q == x \div d
<1>1. q \in Nat /\ q * d <= x /\ x < (q + 1) * d
  BY Quotient, SMT
<1> HIDE DEF q
<1> DEFINE c == r * a
<1>2. c \in Nat /\ r * (a * d) = c * d
  BY SMT
<1> HIDE DEF c
<1>3. (q + c) * d <= x + c * d /\ x + c * d < ((q + c) + 1) * d
  <2>1. (q + c) * d = q * d + c * d /\ ((q + c) + 1) * d = (q + 1) * d + c * d
    BY <1>1, <1>2, SMT
  <2>2. q * d \in Int /\ c * d \in Int /\ (q + 1) * d \in Int
    BY <1>1, <1>2, SMT
  <2> QED BY <1>1, <2>1, <2>2, SMT
<1>4. x + c * d \in Nat /\ q + c \in Nat
  BY <1>1, <1>2, SMT
<1>5. (x + c * d) \div d = q + c
  BY <1>3, <1>4, Quotient
<1> QED BY <1>2, <1>5 DEF q, c

\* The quotient by d * e of a number that has a remainder below d.
LEMMA QuotientByProduct ==
  ASSUME NEW x \in Nat, NEW d \in Nat \ {0}, NEW r \in Nat, NEW e \in Nat \ {0}, x < d
  PROVE  (x + r * d) \div (d * e) = r \div e
<1> DEFINE q == r \div e
<1>1. q \in Nat /\ q * e <= r /\ r < (q + 1) * e
  BY Quotient, SMT
<1> HIDE DEF q
<1>2. d * e \in Nat \ {0} /\ x + r * d \in Nat
  BY SMT
<1>3. q * (d * e) <= x + r * d
  <2>1. q * (d * e) = (q * e) * d /\ q * e \in Nat
    BY <1>1, SMT
  <2>2. (q * e) * d <= r * d
    BY <1>1, <2>1, SMT
  <2>3. r * d \in Nat /\ (q * e) * d \in Nat
    BY <2>1, SMT
  <2> QED BY <2>1, <2>2, <2>3, SMT
<1>4. x + r * d < (q + 1) * (d * e)
  <2>1. (q + 1) * (d * e) = ((q + 1) * e) * d /\ (q + 1) * e \in Nat
    BY <1>1, SMT
  <2>2. r + 1 <= (q + 1) * e
    BY <1>1, <2>1, SMT
  <2>3. (r + 1) * d <= ((q + 1) * e) * d
    BY <2>1, <2>2, SMT
  <2>4. (r + 1) * d = r * d + d /\ r * d \in Nat /\ ((q + 1) * e) * d \in Nat
    BY <2>1, SMT
  <2> QED BY <2>1, <2>3, <2>4, SMT
<1> QED BY <1>1, <1>2, <1>3, <1>4, Quotient DEF q

\* The bits of a number.
LEMMA BitsType ==
  ASSUME NEW x \in Nat, NEW w \in 0..Depth
  PROVE  Bits(x, w) \in [1..w -> {0, 1}]
<1>0. Depth \in Nat
  BY TreeAssumption, SMT DEF Depth
<1>1. ASSUME NEW b \in 1..w PROVE (x \div PowerOf2[w - b]) % 2 \in {0, 1}
  <2>1. PowerOf2[w - b] \in Nat \ {0}
    BY <1>0, Powers, SMT
  <2>2. x \div PowerOf2[w - b] \in Nat
    BY <2>1, Quotient, SMT
  <2> QED BY <2>2, SMT
<1> QED BY <1>1 DEF Bits

\* What is known of a message.
LEMMA MessageType ==
  ASSUME NEW m \in StateRootMessages
  PROVE  /\ m.rollup \in Nat /\ m.rollup < PowerOf2[RollupBits]
         /\ m.height \in Nat /\ m.height < PowerOf2[HeightBits]
         /\ m.digest \in Digests /\ m.digest # Default
<1>1. RollupBits \in 0..Depth /\ HeightBits \in 0..Depth
  BY TreeAssumption, SMT DEF Depth
<1>2. PowerOf2[RollupBits] \in Nat /\ PowerOf2[HeightBits] \in Nat
  BY <1>1, Powers
<1> QED BY <1>2, TreeAssumption, SMT DEF StateRootMessages

\* The key that the Go code puts together field by field is the index that the
\* contract computes with a shift.
LEMMA KeyIsIndex ==
  ASSUME NEW m \in StateRootMessages
  PROVE  Key(m) \in Keys /\ Index(m) = Key(m)
<1> DEFINE r == m.rollup
           h == m.height
           R == RollupBits
           H == HeightBits
<1>0. R \in Nat \ {0} /\ H \in Nat \ {0} /\ Depth = R + H /\ R \in 0..Depth /\ H \in 0..Depth
  BY TreeAssumption, SMT DEF Depth
<1>1. r \in Nat /\ h \in Nat /\ h < PowerOf2[H]
  BY MessageType
<1>2. Bits(r, R) \in [1..R -> {0, 1}] /\ Bits(h, H) \in [1..H -> {0, 1}]
  BY <1>0, <1>1, BitsType
<1>3. Key(m) = Bits(r, R) \o Bits(h, H)
  BY DEF Key
<1>4. /\ Key(m) \in [1..R + H -> {0, 1}]
      /\ \A b \in 1..R : Key(m)[b] = Bits(r, R)[b]
      /\ \A b \in 1..H : Key(m)[R + b] = Bits(h, H)[b]
  <2> DEFINE s == Bits(r, R)
             t == Bits(h, H)
  <2>1. s \in Seq({0, 1}) /\ Len(s) = R /\ t \in Seq({0, 1}) /\ Len(t) = H
    BY <1>0, <1>2, SMT
  <2> HIDE DEF s, t
  <2>2. /\ s \o t \in Seq({0, 1}) /\ Len(s \o t) = R + H
        /\ \A b \in 1..R : (s \o t)[b] = s[b]
        /\ \A b \in 1..H : (s \o t)[R + b] = t[b]
    BY <2>1, <1>0, SMT
  <2>3. s \o t \in [1..R + H -> {0, 1}]
    BY <2>2, LenProperties
  <2> QED BY <2>2, <2>3, <1>3 DEF s, t
<1>5. PowerOf2[H] \in Nat \ {0}
  BY <1>0, Powers
<1> DEFINE x == h + r * PowerOf2[H]
<1>6. x \in Nat
  BY <1>1, <1>5, SMT
<1>7. Index(m) \in [1..R + H -> {0, 1}]
  <2>1. Index(m) = Bits(x, Depth) /\ Depth \in 0..Depth
    BY <1>0, SMT DEF Index
  <2>2. Bits(x, Depth) \in [1..Depth -> {0, 1}]
    BY <2>1, <1>6, BitsType
  <2> QED BY <2>1, <2>2, <1>0
<1>8. ASSUME NEW b \in 1..R PROVE Index(m)[b] = Key(m)[b]
  <2>1. R - b \in Nat /\ Depth - b = H + (R - b) /\ Depth - b <= Depth /\ b \in 1..Depth
    BY <1>0, SMT
  <2>2. PowerOf2[R - b] \in Nat \ {0} /\ PowerOf2[Depth - b] = PowerOf2[H] * PowerOf2[R - b]
    BY <1>0, <2>1, Powers, PowerOfSum, SMTT(30)
  <2>3. x \div PowerOf2[Depth - b] = r \div PowerOf2[R - b]
    <3>1. (h + r * PowerOf2[H]) \div (PowerOf2[H] * PowerOf2[R - b]) = r \div PowerOf2[R - b]
      <4> HIDE DEF h, r
      <4> QED BY <1>1, <1>5, <2>2, QuotientByProduct, ZenonT(40)
    <3> QED BY <2>2, <3>1
  <2>4. Index(m)[b] = (x \div PowerOf2[Depth - b]) % 2
    BY <2>1 DEF Index, Bits
  <2>5. Bits(r, R)[b] = (r \div PowerOf2[R - b]) % 2
    BY DEF Bits
  <2> QED BY <1>4, <2>3, <2>4, <2>5
<1>9. ASSUME NEW b \in 1..H PROVE Index(m)[R + b] = Key(m)[R + b]
  <2> DEFINE d == PowerOf2[H - b]
  <2>1. H - b \in Nat /\ b \in Nat /\ Depth - (R + b) = H - b /\ R + b \in 1..Depth
        /\ b - 1 \in 0..Depth - 1 /\ (b - 1) + 1 = b /\ H = b + (H - b) /\ H - b \in 0..Depth
    BY <1>0, SMT
  <2>2. d \in Nat \ {0} /\ PowerOf2[H] = PowerOf2[b] * d
    BY <1>0, <2>1, Powers, PowerOfSum, SMTT(30)
  <2>3. PowerOf2[b] = 2 * PowerOf2[b - 1] /\ PowerOf2[b - 1] \in Nat
    BY <1>0, <2>1, Powers, SMT
  <2>4. PowerOf2[b] \in Nat
    BY <2>3, SMT
  <2> HIDE DEF d
  <2>5. x \div d = (h \div d) + r * PowerOf2[b]
    <3>1. (h + r * (PowerOf2[b] * d)) \div d = (h \div d) + r * PowerOf2[b]
      <4> HIDE DEF h, r
      <4> QED BY <1>1, <2>2, <2>4, QuotientOfSum, SMT
    <3> QED BY <2>2, <3>1
  <2>6. h \div d \in Nat
    BY <1>1, <2>2, Quotient, SMT
  <2> DEFINE u == r * PowerOf2[b - 1]
  <2>7. u \in Nat /\ r * PowerOf2[b] = 2 * u
    BY <1>1, <2>3, SMT
  <2> HIDE DEF u
  <2>8. ((h \div d) + 2 * u) % 2 = (h \div d) % 2
    BY <2>6, <2>7, SMT
  <2>9. Index(m)[R + b] = (x \div d) % 2
    BY <2>1 DEF Index, Bits, d
  <2>10. Bits(h, H)[b] = (h \div d) % 2
    BY DEF Bits, d
  <2> QED BY <1>4, <2>5, <2>7, <2>8, <2>9, <2>10
<1>10. \A b \in 1..R + H : Index(m)[b] = Key(m)[b]
  <2> TAKE b \in 1..R + H
  <2>1. b \in 1..R \/ (b - R \in 1..H /\ R + (b - R) = b)
    BY <1>0, SMT
  <2> QED BY <1>8, <1>9, <2>1
<1> QED BY <1>0, <1>4, <1>7, <1>10, SMT DEF Keys

-----------------------------------------------------------------------------
(* The tree *)

\* A hash determines what was hashed, and is neither zero nor a failure.
LEMMA HashInjective ==
  ASSUME NEW a, NEW l, NEW r
  PROVE  /\ Hash(a, l, r) # Default /\ Hash(a, l, r) # <<"reverts">>
         /\ \A b, x, y : Hash(a, l, r) = Hash(b, x, y) => a = b /\ l = x /\ r = y
         /\ Default # <<"reverts">>
         /\ Hash(a, l, r)[3] = l /\ Hash(a, l, r)[4] = r
BY DEF Hash, Default

\* The beginnings of a key.
LEMMA Beginnings ==
  ASSUME NEW key \in Keys, NEW n \in 0..Depth
  PROVE  /\ SubSeq(key, 1, n) \in [1..n -> {0, 1}]
         /\ SubSeq(key, 1, n) \in PathPrefixes
         /\ Len(SubSeq(key, 1, n)) = n
         /\ \A b \in 1..n : SubSeq(key, 1, n)[b] = key[b]
         /\ n < Depth => Append(SubSeq(key, 1, n), key[n + 1]) = SubSeq(key, 1, n + 1)
<1>0. Depth \in Nat
  BY TreeAssumption, SMT DEF Depth
<1>1. key \in Seq({0, 1}) /\ Len(key) = Depth
  BY <1>0, SMT DEF Keys
<1>2. ASSUME NEW k \in 0..Depth
      PROVE  /\ SubSeq(key, 1, k) \in Seq({0, 1}) /\ Len(SubSeq(key, 1, k)) = k
             /\ \A b \in 1..k : SubSeq(key, 1, k)[b] = key[b]
             /\ SubSeq(key, 1, k) = [b \in 1..k |-> key[b]]
  BY <1>0, <1>1, SMT
<1>3. SubSeq(key, 1, n) \in [1..n -> {0, 1}]
  BY <1>2, LenProperties
<1>4. SubSeq(key, 1, n) \in PathPrefixes
  BY <1>3 DEF PathPrefixes
<1>5. ASSUME n < Depth PROVE Append(SubSeq(key, 1, n), key[n + 1]) = SubSeq(key, 1, n + 1)
  <2>1. n + 1 \in 0..Depth /\ key[n + 1] \in {0, 1}
    BY <1>0, <1>1, <1>5, SMT DEF Keys
  <2>2. SubSeq(key, 1, n + 1) = [b \in 1..n + 1 |-> key[b]]
    BY <1>2, <2>1
  <2> DEFINE s == SubSeq(key, 1, n)
  <2>3. s \in Seq({0, 1}) /\ Len(s) = n /\ \A b \in 1..n : s[b] = key[b]
    BY <1>2
  <2> HIDE DEF s
  <2>4. Append(s, key[n + 1]) = [b \in 1..n + 1 |-> IF b = n + 1 THEN key[n + 1] ELSE s[b]]
    BY <2>1, <2>3, SMT
  <2>5. [b \in 1..n + 1 |-> IF b = n + 1 THEN key[n + 1] ELSE s[b]] = [b \in 1..n + 1 |-> key[b]]
    BY <2>3, SMT
  <2> QED BY <2>2, <2>4, <2>5 DEF s
<1> QED BY <1>2, <1>3, <1>4, <1>5

\* A beginning of paths that is not a whole one has two that are one bit longer.
LEMMA LongerPrefix ==
  ASSUME NEW p \in PathPrefixes, NEW b \in {0, 1}
  PROVE  /\ Len(p) \in 0..Depth
         /\ Len(p) < Depth => /\ Append(p, b) \in PathPrefixes
                              /\ Len(Append(p, b)) = Len(p) + 1
<1>0. Depth \in Nat
  BY TreeAssumption, SMT DEF Depth
<1>1. PICK n \in 0..Depth : p \in [1..n -> {0, 1}]
  BY DEF PathPrefixes
<1>2. n \in Nat /\ p \in Seq({0, 1}) /\ Len(p) = n
  BY <1>0, <1>1, SMT
<1>3. ASSUME n < Depth
      PROVE  Append(p, b) \in PathPrefixes /\ Len(Append(p, b)) = n + 1
  <2>1. Append(p, b) \in Seq({0, 1}) /\ Len(Append(p, b)) = n + 1
    BY <1>2, SMT
  <2>2. n + 1 \in 0..Depth
    BY <1>0, <1>3, SMT
  <2>3. Append(p, b) \in [1..n + 1 -> {0, 1}]
    BY <2>1, LenProperties
  <2> QED BY <2>1, <2>2, <2>3 DEF PathPrefixes
<1> QED BY <1>1, <1>2, <1>3

\* Of a finite tree the keys under a place are finitely many; under a whole path
\* there is at most that key.
LEMMA UnderFinite ==
  ASSUME TreeInv, NEW p
  PROVE  /\ IsFiniteSet(Under(p)) /\ Cardinality(Under(p)) \in Nat
         /\ Under(p) # {} => Cardinality(Under(p)) > 0
         /\ Under(p) \subseteq Keys
         /\ Cardinality(Under(p)) <= 1 => \A k, l \in Under(p) : k = l
         /\ (\A k, l \in Under(p) : k = l) => Cardinality(Under(p)) <= 1
<1>1. Under(p) \subseteq DOMAIN tree /\ IsFiniteSet(DOMAIN tree) /\ DOMAIN tree \subseteq Keys
  BY DEF Under, TreeInv
<1>2. IsFiniteSet(Under(p)) /\ Cardinality(Under(p)) \in Nat
  BY <1>1, FS_Subset, FS_CardinalityType
<1> DEFINE U == Under(p)
<1> HIDE DEF U
<1>3. ASSUME NEW k \in U PROVE Cardinality(U) > 0
  BY <1>2, <1>3, FS_EmptySet, SMT DEF U
<1>4. ASSUME NEW k \in U, NEW l \in U, k # l PROVE Cardinality(U) > 1
  <2>1. IsFiniteSet(U \ {k}) /\ Cardinality(U \ {k}) = Cardinality(U) - 1
    BY <1>2, FS_RemoveElement DEF U
  <2>2. l \in U \ {k}
    BY <1>4
  <2>3. Cardinality(U \ {k}) # 0
    BY <2>1, <2>2, FS_EmptySet
  <2> QED BY <1>2, <1>3, <2>1, <2>3, SMT DEF U
<1>5. ASSUME \A k, l \in U : k = l PROVE Cardinality(U) <= 1
  <2>1. CASE U = {}
    BY <2>1, FS_EmptySet, SMT
  <2>2. CASE U # {}
    <3>1. PICK k \in U : TRUE
      BY <2>2
    <3>2. U = {k}
      BY <1>5
    <3> QED BY <3>2, FS_Singleton, SMT
  <2> QED BY <2>1, <2>2
<1> QED BY <1>1, <1>2, <1>3, <1>4, <1>5, SMT DEF U

\* Under a whole path there is at most one key.
LEMMA UnderWholePath ==
  ASSUME TreeInv, NEW p \in PathPrefixes, Len(p) = Depth
  PROVE  Cardinality(Under(p)) <= 1
<1>1. ASSUME NEW k \in Under(p) PROVE k = p
  <2>1. k \in Keys /\ SubSeq(k, 1, Len(p)) = p
    BY UnderFinite DEF Under
  <2>2. Depth \in Nat
    BY TreeAssumption, SMT DEF Depth
  <2>3. SubSeq(k, 1, Depth) = k
    <3>1. SubSeq(k, 1, Depth) \in [1..Depth -> {0, 1}] /\ \A b \in 1..Depth : SubSeq(k, 1, Depth)[b] = k[b]
      BY <2>1, <2>2, Beginnings, SMT
    <3> QED BY <2>1, <3>1, SMT DEF Keys
  <2> QED BY <2>1, <2>3
<1> QED BY <1>1, UnderFinite

\* The node at p, when f has the nodes further down.
NodeOf(f, p) ==
  IF Under(p) = {} THEN Default
  ELSE IF Cardinality(Under(p)) > 1 THEN Hash(1, f[Append(p, 0)], f[Append(p, 1)])
  ELSE LET k == CHOOSE k \in Under(p) : TRUE IN Hash(0, k, tree[k])

\* The beginnings of paths that lack at most d bits.
Lacking(d) == {p \in PathPrefixes : Len(p) + d >= Depth}

\* Node is what its definition says.
LEMMA NodeRecursion ==
  ASSUME TreeInv
  PROVE  Node = [p \in PathPrefixes |-> NodeOf(Node, p)]
<1>0. Depth \in Nat /\ \A p \in PathPrefixes : Len(p) \in 0..Depth
  BY LongerPrefix, TreeAssumption, SMT DEF Depth
<1>1. ASSUME NEW p \in PathPrefixes, NEW f, NEW g,
             Len(p) < Depth => f[Append(p, 0)] = g[Append(p, 0)] /\ f[Append(p, 1)] = g[Append(p, 1)]
      PROVE  NodeOf(f, p) = NodeOf(g, p)
  <2>1. CASE Len(p) < Depth
    BY <1>1, <2>1, SMT DEF NodeOf
  <2>2. CASE Len(p) = Depth
    <3>1. Cardinality(Under(p)) <= 1 /\ Cardinality(Under(p)) \in Nat
      BY <2>2, UnderWholePath, UnderFinite
    <3>2. ~(Cardinality(Under(p)) > 1)
      BY <3>1, SMT
    <3> QED BY <3>2, SMT DEF NodeOf
  <2> QED BY <1>0, <2>1, <2>2, SMT
<1> DEFINE T == {d \in Nat : \E f : f = [p \in Lacking(d) |-> NodeOf(f, p)]}
<1>2. 0 \in T
  <2> DEFINE f == [p \in Lacking(0) |-> NodeOf(<<>>, p)]
  <2>1. ASSUME NEW p \in Lacking(0) PROVE NodeOf(<<>>, p) = NodeOf(f, p)
    <3>1. p \in PathPrefixes /\ ~(Len(p) < Depth)
      BY <1>0, SMT DEF Lacking
    <3> HIDE DEF f
    <3> QED BY <1>1, <3>1
  <2>2. f = [p \in Lacking(0) |-> NodeOf(f, p)]
    BY <2>1
  <2> QED BY <2>2
<1>3. ASSUME NEW d \in T PROVE d + 1 \in T
  <2>0. d \in Nat
    OBVIOUS
  <2>1. PICK f : f = [p \in Lacking(d) |-> NodeOf(f, p)]
    BY <1>3
  <2> DEFINE g == [p \in Lacking(d + 1) |-> IF p \in Lacking(d) THEN f[p] ELSE NodeOf(f, p)]
  <2>2. Lacking(d) \subseteq Lacking(d + 1)
    BY <1>0, <2>0, SMT DEF Lacking
  <2>3. ASSUME NEW p \in Lacking(d + 1) PROVE NodeOf(f, p) = NodeOf(g, p)
    <3>1. p \in PathPrefixes
      BY DEF Lacking
    <3>2. ASSUME Len(p) < Depth, NEW b \in {0, 1} PROVE f[Append(p, b)] = g[Append(p, b)]
      <4>1. Append(p, b) \in PathPrefixes /\ Len(Append(p, b)) = Len(p) + 1
        BY <3>1, <3>2, LongerPrefix
      <4>2. Append(p, b) \in Lacking(d)
        BY <1>0, <2>0, <3>1, <4>1, SMT DEF Lacking
      <4> QED BY <2>2, <4>2
    <3> HIDE DEF g
    <3> QED BY <1>1, <3>1, <3>2
  <2>4. ASSUME NEW p \in Lacking(d + 1) PROVE g[p] = NodeOf(f, p)
    <3>1. CASE p \in Lacking(d)
      <4>1. f[p] = NodeOf(f, p)
        BY <2>1, <3>1
      <4> QED BY <2>4, <3>1, <4>1
    <3>2. CASE p \notin Lacking(d)
      BY <2>4, <3>2
    <3> QED BY <3>1, <3>2
  <2>5. g = [p \in Lacking(d + 1) |-> g[p]]
    OBVIOUS
  <2> HIDE DEF g
  <2>6. g = [p \in Lacking(d + 1) |-> NodeOf(g, p)]
    BY <2>3, <2>4, <2>5
  <2> QED BY <2>0, <2>6, SMT
<1>4. T \in SUBSET Nat
  OBVIOUS
<1> HIDE DEF T
<1>5. Depth \in T
  BY <1>0, <1>2, <1>3, <1>4, InductiveSet
<1>6. Lacking(Depth) = PathPrefixes
  BY <1>0, SMT DEF Lacking
<1>7. \E f : f = [p \in PathPrefixes |-> NodeOf(f, p)]
  BY <1>5, <1>6 DEF T
<1>8. Node = CHOOSE f : f = [p \in PathPrefixes |-> NodeOf(f, p)]
  BY DEF Node, NodeOf
<1> QED BY <1>7, <1>8

\* What the node at p tells of the keys under p.
LEMMA NodeTells ==
  ASSUME TreeInv, NEW p \in PathPrefixes
  PROVE  /\ Under(p) = {} => Node[p] = Default
         /\ Under(p) # {} /\ Cardinality(Under(p)) > 1 =>
              Node[p] = Hash(1, Node[Append(p, 0)], Node[Append(p, 1)])
         /\ Under(p) # {} /\ ~(Cardinality(Under(p)) > 1) =>
              \E k \in Under(p) : Under(p) = {k} /\ Node[p] = Hash(0, k, tree[k])
<1>1. Node[p] = NodeOf(Node, p)
  BY NodeRecursion
<1>2. ASSUME Under(p) # {}, ~(Cardinality(Under(p)) > 1)
      PROVE  \E k \in Under(p) : Under(p) = {k} /\ Node[p] = Hash(0, k, tree[k])
  <2> DEFINE k == CHOOSE k \in Under(p) : TRUE
  <2>1. k \in Under(p)
    BY <1>2
  <2>2. Node[p] = Hash(0, k, tree[k])
    BY <1>1, <1>2 DEF NodeOf
  <2>3. Under(p) = {k}
    BY <1>2, <2>1, UnderFinite, SMT
  <2> QED BY <2>1, <2>2, <2>3
<1>3. Under(p) = {} => Node[p] = Default
  BY <1>1 DEF NodeOf
<1>4. Under(p) # {} /\ Cardinality(Under(p)) > 1 =>
        Node[p] = Hash(1, Node[Append(p, 0)], Node[Append(p, 1)])
  BY <1>1 DEF NodeOf
<1> QED BY <1>2, <1>3, <1>4

\* The hash after i steps of the contract's loop is what its definition says.
LEMMA HashRecursion ==
  ASSUME NEW proof, proof.numSideNodes \in Nat
  PROVE  /\ CurrentHash(proof)[0] = ComputeLeaf(proof)
         /\ \A s \in 1..proof.numSideNodes :
              CurrentHash(proof)[s] =
                IF proof.key[proof.numSideNodes - s + 1] = 0
                THEN Hash(1, CurrentHash(proof)[s - 1], SideNode(proof, s - 1))
                ELSE Hash(1, SideNode(proof, s - 1), CurrentHash(proof)[s - 1])
<1> DEFINE n == proof.numSideNodes
           Step(f, s) == IF s = 0 THEN ComputeLeaf(proof)
                         ELSE IF proof.key[n - s + 1] = 0
                              THEN Hash(1, f[s - 1], SideNode(proof, s - 1))
                              ELSE Hash(1, SideNode(proof, s - 1), f[s - 1])
           T == {c \in Nat : \E f : f = [s \in 0..c |-> Step(f, s)]}
<1>1. 0 \in T
  <2> DEFINE f == [s \in 0..0 |-> ComputeLeaf(proof)]
  <2>1. f = [s \in 0..0 |-> Step(f, s)]
    BY SMT
  <2> QED BY <2>1
<1>2. ASSUME NEW c \in T PROVE c + 1 \in T
  <2>0. c \in Nat
    OBVIOUS
  <2>1. PICK f : f = [s \in 0..c |-> Step(f, s)]
    BY <1>2
  <2> DEFINE g == [s \in 0..c + 1 |-> IF s \in 0..c THEN f[s] ELSE Step(f, s)]
  <2>2. ASSUME NEW s \in 0..c + 1 PROVE Step(f, s) = Step(g, s)
    <3>1. CASE s = 0
      BY <3>1
    <3>2. CASE s # 0
      <4>1. s - 1 \in 0..c /\ s - 1 \in 0..c + 1
        BY <2>0, <3>2, SMT
      <4>2. f[s - 1] = g[s - 1]
        BY <4>1
      <4> QED BY <3>2, <4>2
    <3> QED BY <3>1, <3>2
  <2>3. ASSUME NEW s \in 0..c + 1 PROVE g[s] = Step(f, s)
    <3> HIDE DEF Step
    <3>1. CASE s \in 0..c
      BY <2>1, <3>1
    <3>2. CASE s \notin 0..c
      BY <3>2
    <3> QED BY <3>1, <3>2
  <2>4. g = [s \in 0..c + 1 |-> g[s]]
    OBVIOUS
  <2> HIDE DEF g, Step
  <2>5. g = [s \in 0..c + 1 |-> Step(g, s)]
    BY <2>2, <2>3, <2>4
  <2> QED BY <2>0, <2>5, SMT
<1>3. T \in SUBSET Nat
  OBVIOUS
<1> HIDE DEF T
<1>4. n \in T
  BY <1>1, <1>2, <1>3, InductiveSet
<1>5. \E f : f = [s \in 0..n |-> Step(f, s)]
  BY <1>4 DEF T
<1>6. CurrentHash(proof) = CHOOSE f : f = [s \in 0..n |-> Step(f, s)]
  BY DEF CurrentHash
<1>7. CurrentHash(proof) = [s \in 0..n |-> Step(CurrentHash(proof), s)]
  <2> HIDE DEF Step
  <2> QED BY <1>5, <1>6
<1>8. \A s \in 0..n : CurrentHash(proof)[s] = Step(CurrentHash(proof), s)
  <2> HIDE DEF Step
  <2> DEFINE C == CurrentHash(proof)
  <2>1. C = [s \in 0..n |-> Step(C, s)]
    BY <1>7
  <2> HIDE DEF C
  <2>2. \A s \in 0..n : C[s] = Step(C, s)
    BY <2>1
  <2> QED BY <2>2 DEF C
<1>9. CurrentHash(proof)[0] = ComputeLeaf(proof)
  BY <1>8, SMT
<1>10. ASSUME NEW s \in 1..n
       PROVE  CurrentHash(proof)[s] =
                IF proof.key[n - s + 1] = 0
                THEN Hash(1, CurrentHash(proof)[s - 1], SideNode(proof, s - 1))
                ELSE Hash(1, SideNode(proof, s - 1), CurrentHash(proof)[s - 1])
  <2>1. s \in 0..n /\ s # 0
    BY SMT
  <2> QED BY <1>8, <2>1
<1> QED BY <1>9, <1>10

-----------------------------------------------------------------------------
(* Soundness *)

\* A node that is the hash of an inner node has the nodes below it inside.
LEMMA InnerNode ==
  ASSUME TreeInv, NEW p \in PathPrefixes, NEW x, NEW y, Node[p] = Hash(1, x, y)
  PROVE  x = Node[Append(p, 0)] /\ y = Node[Append(p, 1)]
<1>1. Under(p) # {}
  BY NodeTells, HashInjective, SMT
<1>2. Cardinality(Under(p)) > 1
  <2> SUFFICES ASSUME ~(Cardinality(Under(p)) > 1) PROVE FALSE
    OBVIOUS
  <2>1. PICK k \in Under(p) : Node[p] = Hash(0, k, tree[k])
    BY <1>1, NodeTells
  <2>2. 0 = 1
    BY <2>1, HashInjective, SMT
  <2> QED BY <2>2, SMT
<1>3. Node[p] = Hash(1, Node[Append(p, 0)], Node[Append(p, 1)])
  BY <1>1, <1>2, NodeTells
<1> QED BY <1>3, HashInjective, SMT

\* A walk that ends at the root has passed the nodes above the place of its key: it
\* began with the node at that place.
LEMMA WalkPassesNodes ==
  ASSUME TreeInv, NEW proof, proof.key \in Keys,
         proof.numSideNodes \in 0..Depth,
         CurrentHash(proof)[proof.numSideNodes] = Root
  PROVE  ComputeLeaf(proof) = Node[SubSeq(proof.key, 1, proof.numSideNodes)]
<1> DEFINE n == proof.numSideNodes
           key == proof.key
           C == CurrentHash(proof)
           P(d) == SubSeq(key, 1, d)
           T == {d \in 0..n : C[n - d] = Node[P(d)]}
<1>0. n \in Nat /\ Depth \in Nat /\ key \in Keys
  BY TreeAssumption, SMT DEF Depth
<1>1. 0 \in T
  <2>1. P(0) = <<>>
    BY <1>0, SMT DEF Keys
  <2>2. n - 0 = n /\ 0 \in 0..n
    BY <1>0, SMT
  <2>3. C[n - 0] = Node[<<>>]
    BY <2>2 DEF Root
  <2> QED BY <2>1, <2>2, <2>3
<1>2. ASSUME NEW d \in 0..n - 1, d \in T PROVE d + 1 \in T
  <2>1. /\ n - d \in 1..n /\ (n - d) - 1 = n - (d + 1) /\ n - (n - d) + 1 = d + 1
        /\ d \in 0..Depth /\ d < Depth /\ d + 1 \in 0..n /\ d + 1 \in 1..Depth
    BY <1>0, SMT
  <2>2. C[n - d] = IF key[d + 1] = 0
                   THEN Hash(1, C[n - (d + 1)], SideNode(proof, n - (d + 1)))
                   ELSE Hash(1, SideNode(proof, n - (d + 1)), C[n - (d + 1)])
    BY <1>0, <2>1, HashRecursion, SMT
  <2>3. P(d) \in PathPrefixes /\ Append(P(d), key[d + 1]) = P(d + 1)
    BY <1>0, <2>1, Beginnings
  <2>4. key[d + 1] \in {0, 1}
    BY <1>0, <2>1 DEF Keys
  <2>5. C[n - d] = Node[P(d)]
    BY <1>2
  <2> HIDE DEF C, P, key
  <2>6. CASE key[d + 1] = 0
    <3>1. Node[P(d)] = Hash(1, C[n - (d + 1)], SideNode(proof, n - (d + 1)))
      BY <2>2, <2>5, <2>6
    <3>2. C[n - (d + 1)] = Node[Append(P(d), 0)]
      BY <2>3, <3>1, InnerNode
    <3> QED BY <2>1, <2>3, <2>6, <3>2
  <2>7. CASE key[d + 1] = 1
    <3>1. Node[P(d)] = Hash(1, SideNode(proof, n - (d + 1)), C[n - (d + 1)])
      BY <2>2, <2>5, <2>7, SMT
    <3>2. C[n - (d + 1)] = Node[Append(P(d), 1)]
      BY <2>3, <3>1, InnerNode
    <3> QED BY <2>1, <2>3, <2>7, <3>2, ZenonT(30)
  <2> QED BY <2>4, <2>6, <2>7
<1> HIDE DEF T
<1>3. n \in T
  BY <1>0, <1>1, <1>2, InductiveTo, SMT
<1>4. C[n - n] = Node[P(n)] /\ n - n = 0
  BY <1>0, <1>3, SMT DEF T
<1>5. C[0] = ComputeLeaf(proof)
  BY <1>0, HashRecursion
<1> QED BY <1>4, <1>5

\* A proof that verifies tells the value of its key: whatever else is in it.
LEMMA VerifiedTells ==
  ASSUME TreeInv, NEW proof, proof.key \in Keys, proof.numSideNodes \in Nat,
         VerifyProof(Root, proof)
  PROVE  IF proof.value = Default THEN proof.key \notin DOMAIN tree
         ELSE proof.key \in DOMAIN tree /\ tree[proof.key] = proof.value
<1> DEFINE n == proof.numSideNodes
           key == proof.key
           p == SubSeq(key, 1, n)
<1>0. n \in 0..Depth /\ Depth \in Nat
  BY TreeAssumption, SMT DEF Depth, VerifyProof
<1>1. p \in PathPrefixes /\ Len(p) = n
  BY <1>0, Beginnings
<1>2. key \in DOMAIN tree => key \in Under(p)
  BY <1>1 DEF Under
<1>3. Root # <<"reverts">>
  <2>1. <<>> \in PathPrefixes
    <3>1. <<>> \in [1..0 -> {0, 1}] /\ 0 \in 0..Depth
      BY <1>0, SMT
    <3> QED BY <3>1 DEF PathPrefixes
  <2>2. Root = Default \/ \E a, l, r : Root = Hash(a, l, r)
    BY <2>1, NodeTells DEF Root
  <2> QED BY <2>2, HashInjective, SMT
<1>4. CurrentHash(proof)[n] = Root
  BY <1>3 DEF VerifyProof, ComputeRoot
<1>5. ComputeLeaf(proof) = Node[p]
  BY <1>0, <1>4, WalkPassesNodes
<1>6. ComputeLeaf(proof) # <<"reverts">>
  BY DEF VerifyProof
<1> HIDE DEF p
<1>7. ASSUME NEW path, NEW value, Node[p] = Hash(0, path, value)
      PROVE  Under(p) = {path} /\ tree[path] = value /\ path \in DOMAIN tree
  <2>1. Under(p) # {}
    BY <1>1, <1>7, NodeTells, HashInjective, SMT
  <2>2. ~(Cardinality(Under(p)) > 1)
    <3> SUFFICES ASSUME Cardinality(Under(p)) > 1 PROVE FALSE
      OBVIOUS
    <3>1. Node[p] = Hash(1, Node[Append(p, 0)], Node[Append(p, 1)])
      BY <1>1, <2>1, NodeTells, ZenonT(30)
    <3>2. 0 = 1
      BY <1>7, <3>1, HashInjective, SMT
    <3> QED BY <3>2, SMT
  <2>3. PICK k \in Under(p) : Under(p) = {k} /\ Node[p] = Hash(0, k, tree[k])
    BY <1>1, <2>1, <2>2, NodeTells, ZenonT(30)
  <2>4. k = path /\ tree[k] = value
    BY <1>7, <2>3, HashInjective, SMT
  <2> QED BY <2>3, <2>4 DEF Under
<1>8. CASE proof.value # Default
  <2>1. Node[p] = Hash(0, key, proof.value)
    BY <1>5, <1>8 DEF ComputeLeaf
  <2> QED BY <1>7, <1>8, <2>1
<1>9. CASE proof.value = Default /\ proof.nonMembershipLeafPath = Default
  <2>1. Node[p] = Default
    BY <1>5, <1>9 DEF ComputeLeaf
  <2>2. Under(p) = {}
    <3> SUFFICES ASSUME Under(p) # {} PROVE FALSE
      OBVIOUS
    <3>1. \E a, l, r : Node[p] = Hash(a, l, r)
      BY <1>1, NodeTells, SMT
    <3> QED BY <2>1, <3>1, HashInjective, SMT
  <2> QED BY <1>2, <1>9, <2>2
<1>10. CASE proof.value = Default /\ proof.nonMembershipLeafPath # Default
  <2>1. /\ proof.nonMembershipLeafPath # key
        /\ Node[p] = Hash(0, proof.nonMembershipLeafPath, proof.nonMembershipLeafValue)
    BY <1>5, <1>6, <1>10 DEF ComputeLeaf
  <2>2. Under(p) = {proof.nonMembershipLeafPath}
    BY <1>7, <2>1
  <2> QED BY <1>2, <1>10, <2>1, <2>2
<1> QED BY <1>8, <1>9, <1>10

\* The contract says of no message the contrary of what is in the tree, whatever it
\* is shown.
LEMMA AnyProofSound ==
  ASSUME TreeInv, NEW m \in StateRootMessages, NEW proof, proof.numSideNodes \in Nat
  PROVE  VerifyMessageInclusionState(m, Root, proof) \in
           {"reverts", IF Included(m) THEN "included" ELSE "not included"}
<1>1. CASE proof.key # Index(m) \/ ~VerifyProof(Root, proof)
  BY <1>1 DEF VerifyMessageInclusionState
<1>2. CASE proof.key = Index(m) /\ VerifyProof(Root, proof)
  <2>1. proof.key = Key(m) /\ Key(m) \in Keys
    BY <1>2, KeyIsIndex
  <2>2. IF proof.value = Default THEN Key(m) \notin DOMAIN tree
        ELSE Key(m) \in DOMAIN tree /\ tree[Key(m)] = proof.value
    BY <1>2, <2>1, VerifiedTells
  <2>3. m.digest # Default
    BY MessageType
  <2>4. proof.value = m.digest <=> Included(m)
    BY <2>2, <2>3 DEF Included
  <2> QED BY <1>2, <2>4 DEF VerifyMessageInclusionState
<1> QED BY <1>1, <1>2

\* The tree has messages of checkpoints only.
LEMMA TreeInvariant == TreeSpec => []TreeInv
<1>1. TreeInit => TreeInv
  <2> SUFFICES ASSUME TreeInit PROVE TreeInv
    OBVIOUS
  <2>1. tree = <<>> /\ DOMAIN tree = {}
    BY SMT DEF TreeInit
  <2>2. tree \in [{} -> Digests]
    BY <2>1, SMT
  <2> QED BY <2>1, <2>2, FS_EmptySet DEF TreeInv
<1>2. TreeInv /\ [TreeNext]_treeVars => TreeInv'
  <2> SUFFICES ASSUME TreeInv, [TreeNext]_treeVars PROVE TreeInv'
    OBVIOUS
  <2>1. ASSUME NEW m \in StateRootMessages, AddMessage(m) PROVE TreeInv'
    <3> DEFINE D == DOMAIN tree \cup {Key(m)}
    <3>1. Key(m) \in Keys /\ m.digest \in Digests
      BY KeyIsIndex, MessageType
    <3>2. tree' = [k \in D |-> IF k = Key(m) THEN m.digest ELSE tree[k]]
      BY <2>1 DEF AddMessage
    <3>3. DOMAIN tree' = D /\ tree' \in [D -> Digests]
      BY <3>1, <3>2 DEF TreeInv
    <3>4. IsFiniteSet(D)
      BY FS_AddElement DEF TreeInv
    <3> QED BY <3>1, <3>3, <3>4 DEF TreeInv
  <2>2. CASE Commit
    BY <2>2 DEF Commit, TreeInv
  <2>3. CASE UNCHANGED treeVars
    BY <2>3 DEF treeVars, TreeInv
  <2> QED BY <2>1, <2>2, <2>3 DEF TreeNext
<1> QED BY <1>1, <1>2, PTL DEF TreeSpec

\* Whatever proof the contract is shown under the root of a checkpoint, it does not
\* say of a message what is not so: with any leaf, any side nodes, any bit mask and
\* any depth, for keys and bytes of every length and any number of messages.
THEOREM ProofsSoundHolds == TreeSpec => []ProofsSound
<1>1. TreeInv => ProofsSound
  <2> SUFFICES ASSUME TreeInv, NEW m \in StateRootMessages, NEW proof \in Claims(m)
               PROVE  VerifyMessageInclusionState(m, Root, proof) \in
                        {"reverts", IF Included(m) THEN "included" ELSE "not included"}
    BY DEF ProofsSound
  <2>1. proof.numSideNodes \in 0..Depth
    <3>1. \E c, sides, mask : \E n \in 0..Depth : proof = Claim(m, c, n, sides, mask)
      BY SMT DEF Claims
    <3> QED BY <3>1, SMT DEF Claim
  <2>2. proof.numSideNodes \in Nat
    BY <2>1, SMT
  <2> QED BY <2>2, AnyProofSound
<1> QED BY <1>1, TreeInvariant, PTL

-----------------------------------------------------------------------------
(* The proofs that are made convince *)

\* The positions, from zero, of the side nodes that are nil.
NilBits(sides) == {b \in 0..Len(sides) - 1 : sides[b + 1] = Default}

\* The bit mask of a proof, turned for the contract, has the bits of the side nodes
\* that are nil.
LEMMA MaskOfSides ==
  ASSUME NEW n \in Nat, NEW sides, Len(sides) = n
  PROVE  SetBits(formatBitMask(BitMask(sides))) = NilBits(sides)
<1> DEFINE W == ByteBits
           B == (n + W - 1) \div W
           bytes == BitMask(sides)
           turned == formatBitMask(bytes)
<1>0. W \in Nat \ {0}
  BY TreeAssumption
<1>1. B \in Nat /\ n <= B * W
  <2>1. n + W - 1 \in Nat
    BY <1>0, SMT
  <2>2. B \in Nat /\ n + W - 1 < (B + 1) * W
    BY <1>0, <2>1, Quotient, SMT
  <2>3. (B + 1) * W = B * W + W /\ B * W \in Nat
    BY <1>0, <2>2, SMT
  <2> QED BY <1>0, <2>2, <2>3, SMT
<1>2. bytes = [b \in 1..B |-> [c \in 1..W |->
                 IF (b - 1) * W + c <= n /\ sides[(b - 1) * W + c] = Default THEN 1 ELSE 0]]
  BY DEF BitMask
<1> HIDE DEF B, bytes
<1>3. Len(bytes) = B /\ DOMAIN bytes = 1..B
  BY <1>1, <1>2, SMT
<1>4. ASSUME NEW q \in 0..B - 1, NEW r \in 0..W - 1
      PROVE  turned[B - q][W - r] = bytes[q + 1][r + 1]
  <2>1. B - q \in 1..B /\ B - (B - q) + 1 = q + 1 /\ q + 1 \in 1..B
    BY <1>1, SMT
  <2>2. turned[B - q] = ReverseByte(bytes[q + 1])
    BY <1>3, <2>1 DEF formatBitMask
  <2> DEFINE byte == bytes[q + 1]
  <2>3. byte \in [1..W -> {0, 1}]
    BY <1>2, <2>1
  <2>4. Len(byte) = W
    BY <1>0, <2>3, SMT
  <2>5. W - r \in 1..W /\ (W - (W - r)) + 1 = r + 1
    BY <1>0, SMT
  <2> HIDE DEF byte
  <2>6. ReverseByte(byte)[W - r] = byte[r + 1]
    BY <2>4, <2>5 DEF ReverseByte
  <2> QED BY <2>2, <2>6 DEF byte
<1>5. Len(turned) = B
  BY <1>1, <1>3, SMT DEF formatBitMask
<1> HIDE DEF turned
<1>6. ASSUME NEW t \in 0..B * W - 1
      PROVE  turned[B - (t \div W)][W - (t % W)] = 1 <=> t \in 0..n - 1 /\ sides[t + 1] = Default
  <2>0. t \in Nat /\ B * W \in Nat /\ t < B * W
    BY <1>0, <1>1, SMT
  <2> DEFINE q == t \div W
             r == t % W
  <2>1. q \in Nat /\ r \in 0..W - 1 /\ t = q * W + r
    BY <1>0, <2>0, SMT
  <2> HIDE DEF q, r
  <2>2. q < B
    <3> SUFFICES ASSUME q >= B PROVE FALSE
      BY <1>1, <2>1, SMT
    <3>1. q * W >= B * W
      BY <1>0, <1>1, <2>1, SMT
    <3>2. q * W \in Nat
      BY <1>0, <2>1, SMT
    <3> QED BY <1>0, <2>0, <2>1, <3>1, <3>2, SMT
  <2>3. q \in 0..B - 1 /\ q + 1 \in 1..B /\ r + 1 \in 1..W /\ (q + 1) - 1 = q
    BY <1>0, <1>1, <2>1, <2>2, SMT
  <2>4. turned[B - q][W - r] = bytes[q + 1][r + 1]
    BY <1>4, <2>1, <2>3
  <2>5. q * W + (r + 1) = t + 1 /\ q * W \in Nat
    BY <1>0, <2>1, SMT
  <2>6. bytes[q + 1][r + 1] =
          IF q * W + (r + 1) <= n /\ sides[q * W + (r + 1)] = Default THEN 1 ELSE 0
    BY <1>2, <2>3
  <2>7. bytes[q + 1][r + 1] = IF t + 1 <= n /\ sides[t + 1] = Default THEN 1 ELSE 0
    BY <2>5, <2>6
  <2> QED BY <2>0, <2>4, <2>7, SMT DEF q, r
<1>7. SetBits(turned) = {t \in 0..B * W - 1 : turned[B - (t \div W)][W - (t % W)] = 1}
  BY <1>5 DEF SetBits
<1>8. 0..n - 1 \subseteq 0..B * W - 1
  BY <1>0, <1>1, SMT
<1> QED BY <1>6, <1>7, <1>8 DEF turned, bytes, NilBits

\* Counting the elements of a set of positions up to one of them.
LEMMA Ranks ==
  ASSUME NEW n \in Nat, NEW K \in SUBSET (1..n)
  PROVE  /\ IsFiniteSet(K) /\ Cardinality(K) \in 0..n
         /\ \A k \in 0..n : IsFiniteSet(K \cap 1..k) /\ Cardinality(K \cap 1..k) \in 0..Cardinality(K)
         /\ \A k \in K : Cardinality(K \cap 1..k) > 0
         /\ \A k, l \in K : k < l => Cardinality(K \cap 1..k) < Cardinality(K \cap 1..l)
<1>1. IsFiniteSet(1..n) /\ Cardinality(1..n) = n
  BY FS_Interval, SMT
<1>2. IsFiniteSet(K) /\ Cardinality(K) \in Nat /\ Cardinality(K) <= n
  BY <1>1, FS_Subset, FS_CardinalityType
<1>3. \A k : IsFiniteSet(K \cap 1..k) /\ Cardinality(K \cap 1..k) \in Nat
             /\ Cardinality(K \cap 1..k) <= Cardinality(K)
  BY <1>2, FS_Subset, FS_CardinalityType
<1>4. ASSUME NEW k \in K PROVE Cardinality(K \cap 1..k) > 0
  <2>1. k \in K \cap 1..k
    BY SMT
  <2>2. Cardinality(K \cap 1..k) # 0
    BY <1>3, <2>1, FS_EmptySet
  <2> QED BY <1>3, <2>2, SMT
<1>5. ASSUME NEW k \in K, NEW l \in K, k < l
      PROVE  Cardinality(K \cap 1..k) < Cardinality(K \cap 1..l)
  <2>1. K \cap 1..k \subseteq K \cap 1..l /\ l \in K \cap 1..l /\ l \notin K \cap 1..k
    BY <1>5, SMT
  <2>2. K \cap 1..k \subseteq (K \cap 1..l) \ {l}
    BY <2>1
  <2>3. /\ IsFiniteSet((K \cap 1..l) \ {l})
        /\ Cardinality((K \cap 1..l) \ {l}) = Cardinality(K \cap 1..l) - 1
    BY <1>3, <2>1, FS_RemoveElement
  <2>4. Cardinality(K \cap 1..k) <= Cardinality((K \cap 1..l) \ {l})
    BY <2>2, <2>3, FS_Subset
  <2>5. Cardinality(K \cap 1..k) \in Nat /\ Cardinality(K \cap 1..l) \in Nat
    BY <1>3
  <2>6. Cardinality(K \cap 1..k) <= Cardinality(K \cap 1..l) - 1
    BY <2>3, <2>4
  <2> QED BY <2>5, <2>6, SMT
<1> QED BY <1>2, <1>3, <1>4, <1>5, SMT

\* A side node that is not nil is in the compact proof at its rank.
LEMMA CompactHasSide ==
  ASSUME NEW n \in Nat, NEW sides, Len(sides) = n, NEW k \in NotNil(sides)
  PROVE  CompactSides(sides)[Cardinality(NotNil(sides) \cap 1..k)] = sides[k]
<1> DEFINE K == NotNil(sides)
           r == Cardinality(K \cap 1..k)
           c == CHOOSE l \in K : Cardinality(K \cap 1..l) = r
<1>1. K \in SUBSET (1..n) /\ k \in 0..n
  BY SMT DEF NotNil
<1> HIDE DEF K
<1>2. k \in K
  BY DEF K
<1>3. r \in 1..Cardinality(K)
  BY <1>1, <1>2, Ranks, SMT
<1>4. c \in K /\ Cardinality(K \cap 1..c) = r
  BY <1>2
<1> HIDE DEF c
<1>5. c = k
  <2>1. c \in 1..n /\ k \in 1..n
    BY <1>1, <1>2, <1>4
  <2>2. r \in Nat
    BY <1>3, <1>1, Ranks, SMT
  <2>3. \A l, u \in K : l < u => Cardinality(K \cap 1..l) < Cardinality(K \cap 1..u)
    BY <1>1, Ranks
  <2>4. c < k => r < r
    BY <1>2, <1>4, <2>3
  <2>5. k < c => r < r
    BY <1>2, <1>4, <2>3
  <2> QED BY <2>1, <2>2, <2>4, <2>5, SMT
<1>6. CompactSides(sides)[r] = sides[c]
  BY <1>3 DEF CompactSides, AtPlaces, K, c
<1> QED BY <1>5, <1>6 DEF K

\* Counting from zero or from one.
LEMMA ShiftedCount ==
  ASSUME NEW n \in Nat, NEW K \in SUBSET (1..n), NEW k \in 0..n
  PROVE  Cardinality({b \in 0..k - 1 : b + 1 \in K}) = Cardinality(K \cap 1..k)
<1> DEFINE S == {b \in 0..k - 1 : b + 1 \in K}
           U == K \cap 1..k
           f == [b \in S |-> b + 1]
<1>1. IsFiniteSet(S)
  <2>1. IsFiniteSet(0..k - 1)
    BY FS_Interval, SMT
  <2> QED BY <2>1, FS_Subset
<1>2. f \in [S -> U]
  BY SMT
<1>3. IsInjective(f)
  BY SMT DEF IsInjective
<1>4. \A u \in U : \E b \in S : f[b] = u
  <2> TAKE u \in U
  <2>1. u - 1 \in S /\ (u - 1) + 1 = u
    BY SMT
  <2> QED BY <2>1
<1>5. f \in Bijection(S, U)
  BY <1>2, <1>3, <1>4 DEF Bijection, Injection, Surjection
<1> HIDE DEF f
<1>6. ExistsBijection(S, U)
  BY <1>5 DEF ExistsBijection
<1> QED BY <1>1, <1>6, FS_Bijection, SMT

\* The depth of a key: above it more than one key passes, at it at most one.
LEMMA DepthOfKey ==
  ASSUME TreeInv, NEW key \in Keys
  PROVE  /\ NumSideNodes(key) \in 0..Depth
         /\ Cardinality(Under(SubSeq(key, 1, NumSideNodes(key)))) <= 1
         /\ \A b \in 0..NumSideNodes(key) - 1 : Cardinality(Under(SubSeq(key, 1, b))) > 1
<1>0. Depth \in Nat
  BY TreeAssumption, SMT DEF Depth
<1> DEFINE Alone(n) == Cardinality(Under(SubSeq(key, 1, n))) <= 1
           T == {n \in 0..Depth : Alone(n)}
<1>1. Depth \in T
  <2>1. SubSeq(key, 1, Depth) \in PathPrefixes /\ Len(SubSeq(key, 1, Depth)) = Depth
    BY <1>0, Beginnings, SMT
  <2>2. Cardinality(Under(SubSeq(key, 1, Depth))) <= 1
    BY <2>1, UnderWholePath
  <2> QED BY <1>0, <2>2, SMT
<1>2. PICK n \in T : \A k \in T : n <= k
  <2>1. T \in SUBSET Nat /\ T # {}
    BY <1>0, <1>1, SMT
  <2> HIDE DEF T
  <2> QED BY <2>1, LeastElement
<1>3. ASSUME NEW b \in 0..n - 1 PROVE Cardinality(Under(SubSeq(key, 1, b))) > 1
  <2>1. b \in 0..Depth /\ ~(n <= b)
    BY <1>0, SMT
  <2>2. ~Alone(b)
    BY <1>2, <2>1
  <2>3. Cardinality(Under(SubSeq(key, 1, b))) \in Nat
    BY UnderFinite
  <2> QED BY <2>2, <2>3, SMT
<1>4. \E k \in 0..Depth :
        /\ Cardinality(Under(SubSeq(key, 1, k))) <= 1
        /\ \A b \in 0..k - 1 : Cardinality(Under(SubSeq(key, 1, b))) > 1
  BY <1>2, <1>3
<1> QED BY <1>4 DEF NumSideNodes

\* The side nodes of a key, from its depth to the root.
LEMMA SidesLength ==
  ASSUME TreeInv, NEW key \in Keys, NEW n, n = NumSideNodes(key)
  PROVE  n \in Nat /\ Len(SideNodes(key, n)) = n
<1>1. n \in Nat
  BY DepthOfKey, SMT
<1> QED BY <1>1, SMT DEF SideNodes

\* What the proof about a key is made of.
LEMMA ProofFields ==
  ASSUME TreeInv, NEW key \in Keys, NEW n, n = NumSideNodes(key),
         NEW sides, sides = SideNodes(key, n), NEW proof, proof = VerifierProof(key)
  PROVE  /\ proof.key = key /\ proof.numSideNodes = n
         /\ proof.value = (IF key \in DOMAIN tree THEN tree[key] ELSE Default)
         /\ proof.bitMask = NilBits(sides)
         /\ proof.sideNodes = CompactSides(sides)
<1>1. n \in Nat /\ Len(sides) = n
  BY SidesLength
<1>2. SetBits(formatBitMask(BitMask(sides))) = NilBits(sides)
  BY <1>1, MaskOfSides
<1>3. /\ proof.key = key /\ proof.numSideNodes = n
      /\ proof.value = (IF key \in DOMAIN tree THEN tree[key] ELSE Default)
      /\ proof.bitMask = SetBits(formatBitMask(BitMask(sides)))
      /\ proof.sideNodes = CompactSides(sides)
  BY DEF VerifierProof
<1> QED BY <1>2, <1>3

\* The contract finds each side node where the proof has it, and none is missing.
LEMMA SidesFound ==
  ASSUME NEW n \in Nat, NEW sides, Len(sides) = n
  PROVE  /\ \A b \in 0..n - 1 :
              sides[b + 1] =
                IF b \in NilBits(sides) THEN Default
                ELSE CompactSides(sides)[Cardinality((0..b) \ NilBits(sides))]
         /\ Cardinality((0..n - 1) \ NilBits(sides)) = Len(CompactSides(sides))
         /\ Len(CompactSides(sides)) \in 0..n
<1> DEFINE mask == NilBits(sides)
           list == CompactSides(sides)
<1>1. n \in Nat /\ Len(sides) = n
  OBVIOUS
<1>2. \A b \in 0..n - 1 : b \in mask <=> sides[b + 1] = Default
  BY DEF NilBits
<1> HIDE DEF mask
<1> DEFINE K == NotNil(sides)
<1>3. K \in SUBSET (1..n) /\ K = {t \in 1..n : sides[t] # Default}
  BY <1>1 DEF NotNil
<1> HIDE DEF K
<1>4. ASSUME NEW k \in 0..n
      PROVE  Cardinality((0..k - 1) \ mask) = Cardinality(K \cap 1..k)
  <2>1. (0..k - 1) \ mask = {b \in 0..k - 1 : b + 1 \in K}
    BY <1>1, <1>2, <1>3, SMT
  <2>2. Cardinality({b \in 0..k - 1 : b + 1 \in K}) = Cardinality(K \cap 1..k)
    BY <1>1, <1>3, ShiftedCount
  <2> QED BY <2>1, <2>2
<1>5. ASSUME NEW b \in 0..n - 1 PROVE sides[b + 1] = IF b \in mask THEN Default ELSE list[Cardinality((0..b) \ mask)]
  <2>1. CASE b \in mask
    BY <1>2, <2>1
  <2>2. CASE b \notin mask
    <3>1. b + 1 \in K
      BY <1>1, <1>2, <1>3, <2>2, SMT
    <3>2. b + 1 \in 0..n /\ (b + 1) - 1 = b
      BY <1>1, SMT
    <3>3. Cardinality((0..b) \ mask) = Cardinality(K \cap 1..b + 1)
      BY <1>4, <3>2
    <3>4. CompactSides(sides)[Cardinality(K \cap 1..b + 1)] = sides[b + 1]
      BY <1>1, <3>1, CompactHasSide DEF K
    <3> QED BY <1>2, <2>2, <3>3, <3>4
  <2> QED BY <2>1, <2>2
<1>6. IsFiniteSet(K) /\ Cardinality(K) \in 0..n
  BY <1>1, <1>3, Ranks
<1>7. Len(list) = Cardinality(K)
  BY <1>2, <1>6, SMT DEF CompactSides, AtPlaces, K
<1>8. Cardinality((0..n - 1) \ mask) = Cardinality(K)
  <2>1. n \in 0..n /\ K \cap 1..n = K
    BY <1>1, <1>3, SMT
  <2> QED BY <1>4, <2>1
<1> QED BY <1>5, <1>6, <1>7, <1>8 DEF mask

\* The contract finds each side node in the proof about a key.
LEMMA ProofHasSides ==
  ASSUME TreeInv, NEW key \in Keys
  PROVE  \A b \in 0..NumSideNodes(key) - 1 :
           SideNode(VerifierProof(key), b) = SideNodes(key, NumSideNodes(key))[b + 1]
<1>1. PICK n, sides, proof :
        n = NumSideNodes(key) /\ sides = SideNodes(key, n) /\ proof = VerifierProof(key)
  OBVIOUS
<1>2. n \in Nat /\ Len(sides) = n
  BY <1>1, SidesLength
<1>3. proof.bitMask = NilBits(sides) /\ proof.sideNodes = CompactSides(sides)
  BY <1>1, ProofFields, SMT
<1>4. \A b \in 0..n - 1 :
        sides[b + 1] = IF b \in NilBits(sides) THEN Default
                       ELSE CompactSides(sides)[Cardinality((0..b) \ NilBits(sides))]
  BY <1>2, SidesFound
<1>5. \A b \in 0..n - 1 : SideNode(proof, b) = sides[b + 1]
  BY <1>3, <1>4 DEF SideNode
<1> QED BY <1>1, <1>5

\* No side node is missing in it.
LEMMA ProofIsWhole ==
  ASSUME TreeInv, NEW key \in Keys, NEW n, n = NumSideNodes(key),
         NEW proof, proof = VerifierProof(key)
  PROVE  /\ Cardinality((0..n - 1) \ proof.bitMask) = Len(proof.sideNodes)
         /\ Len(proof.sideNodes) \in 0..n
<1>1. PICK sides : sides = SideNodes(key, n)
  OBVIOUS
<1>2. n \in Nat /\ Len(sides) = n
  BY <1>1, SidesLength
<1>3. proof.bitMask = NilBits(sides) /\ proof.sideNodes = CompactSides(sides)
  BY <1>1, ProofFields, SMT
<1>4. /\ Cardinality((0..n - 1) \ NilBits(sides)) = Len(CompactSides(sides))
      /\ Len(CompactSides(sides)) \in 0..n
  BY <1>2, SidesFound
<1> QED BY <1>3, <1>4

\* The contract computes the node at the place of the key.
LEMMA ProofHasLeaf ==
  ASSUME TreeInv, NEW key \in Keys, NEW proof, proof = VerifierProof(key)
  PROVE  /\ ComputeLeaf(proof) = Node[SubSeq(key, 1, NumSideNodes(key))]
         /\ ComputeLeaf(proof) # <<"reverts">>
<1> DEFINE n == NumSideNodes(key)
           p == SubSeq(key, 1, n)
           leaf == Node[p]
           other == leaf # Default /\ key \notin DOMAIN tree
<1>1. n \in 0..Depth /\ Cardinality(Under(p)) <= 1
  BY DepthOfKey
<1>2. p \in PathPrefixes /\ Len(p) = n
  BY <1>1, Beginnings
<1>3. key \in DOMAIN tree <=> key \in Under(p)
  BY <1>2 DEF Under
<1>4. proof.key = key /\ proof.value = (IF key \in DOMAIN tree THEN tree[key] ELSE Default)
  BY ProofFields, SMT
<1>5. /\ proof.nonMembershipLeafPath = (IF other THEN leaf[3] ELSE Default)
      /\ proof.nonMembershipLeafValue = (IF other THEN leaf[4] ELSE Default)
  BY DEF VerifierProof
<1> HIDE DEF n, p
<1>6. ~(Cardinality(Under(p)) > 1)
  BY <1>1, UnderFinite, SMT
<1>7. CASE Under(p) = {}
  <2>1. leaf = Default /\ key \notin DOMAIN tree
    BY <1>2, <1>3, <1>7, NodeTells
  <2>2. ComputeLeaf(proof) = Default
    BY <1>4, <1>5, <2>1 DEF ComputeLeaf
  <2> QED BY <2>1, <2>2, HashInjective DEF p, n
<1>8. CASE Under(p) # {}
  <2>1. PICK k \in Under(p) : Under(p) = {k} /\ leaf = Hash(0, k, tree[k])
    BY <1>2, <1>6, <1>8, NodeTells
  <2>2. k \in Keys /\ k # Default
    <3>1. k \in Keys
      BY <2>1, UnderFinite
    <3>2. Depth \in Nat \ {0}
      BY TreeAssumption, SMT DEF Depth
    <3>3. 1 \in DOMAIN k
      BY <3>1, <3>2, SMTT(30) DEF Keys
    <3> QED BY <3>1, <3>3, SMT DEF Default
  <2>3. leaf # Default /\ leaf[3] = k /\ leaf[4] = tree[k] /\ leaf # <<"reverts">>
    BY <2>1, HashInjective, SMT
  <2>4. CASE key \in DOMAIN tree
    <3>1. key = k
      BY <1>3, <2>1, <2>4
    <3>2. tree[key] # Default
      BY <2>4, TreeAssumption DEF TreeInv
    <3>3. ComputeLeaf(proof) = leaf
      BY <1>4, <2>1, <2>4, <3>1, <3>2, ZenonT(30) DEF ComputeLeaf
    <3> QED BY <2>3, <3>3 DEF p, n
  <2>5. CASE key \notin DOMAIN tree
    <3>1. key # k
      BY <1>3, <2>5
    <3>2. proof.value = Default /\ proof.nonMembershipLeafPath = k /\ proof.nonMembershipLeafValue = tree[k]
      BY <1>4, <1>5, <2>3, <2>5, ZenonT(30)
    <3>3. ComputeLeaf(proof) = leaf
      BY <1>4, <2>1, <2>2, <3>1, <3>2, ZenonT(30) DEF ComputeLeaf
    <3> QED BY <2>3, <3>3 DEF p, n
  <2> QED BY <2>4, <2>5
<1> QED BY <1>7, <1>8

\* The walk with the proof about a key goes through the nodes of the tree.
LEMMA WalkToRoot ==
  ASSUME TreeInv, NEW key \in Keys, NEW n, n = NumSideNodes(key),
         NEW proof, proof = VerifierProof(key)
  PROVE  CurrentHash(proof)[n] = Root
<1> DEFINE C == CurrentHash(proof)
           P(d) == SubSeq(key, 1, d)
           T == {t \in 0..n : C[t] = Node[P(n - t)]}
<1>0. n \in 0..Depth /\ n \in Nat /\ Depth \in Nat /\ proof.key = key /\ proof.numSideNodes = n
  BY DepthOfKey, SidesLength, ProofFields, TreeAssumption, SMTT(30) DEF Depth
<1>1. 0 \in T
  <2>1. C[0] = ComputeLeaf(proof)
    BY <1>0, HashRecursion
  <2>2. ComputeLeaf(proof) = Node[P(n)]
    BY ProofHasLeaf
  <2>3. n - 0 = n /\ 0 \in 0..n
    BY <1>0, SMT
  <2> HIDE DEF C, P
  <2> QED BY <2>1, <2>2, <2>3
<1>2. ASSUME NEW u \in 0..n - 1, u \in T PROVE u + 1 \in T
  <2> DEFINE t == u + 1
             d == n - t
  <2>1. /\ t \in 1..n /\ t - 1 = u /\ n - t + 1 = d + 1 /\ n - u = d + 1 /\ t \in 0..n
        /\ d \in 0..n - 1 /\ d \in 0..Depth /\ d < Depth /\ d + 1 \in 1..Depth
    BY <1>0, SMTT(30)
  <2>2. C[t] = IF key[d + 1] = 0 THEN Hash(1, C[u], SideNode(proof, u))
               ELSE Hash(1, SideNode(proof, u), C[u])
    BY <1>0, <2>1, HashRecursion, SMT
  <2>3. C[u] = Node[P(d + 1)]
    BY <1>2, <2>1
  <2>4. P(d) \in PathPrefixes /\ Append(P(d), key[d + 1]) = P(d + 1)
    BY <1>0, <2>1, Beginnings
  <2>5. key[d + 1] \in {0, 1}
    BY <2>1 DEF Keys
  <2>6. SideNode(proof, u) = SideNodes(key, n)[t]
    <3>1. \A b \in 0..n - 1 : SideNode(proof, b) = SideNodes(key, n)[b + 1]
      BY ProofHasSides
    <3> QED BY <3>1
  <2>7. SideNodes(key, n)[t] = Node[Append(P(d), 1 - key[d + 1])]
    BY <2>1 DEF SideNodes
  <2>8. Cardinality(Under(P(d))) > 1
    BY <2>1, DepthOfKey
  <2>9. Under(P(d)) # {}
    BY <2>8, FS_EmptySet, SMT
  <2>10. Node[P(d)] = Hash(1, Node[Append(P(d), 0)], Node[Append(P(d), 1)])
    BY <2>4, <2>8, <2>9, NodeTells, ZenonT(30)
  <2> HIDE DEF C, P, d, t
  <2>11. CASE key[d + 1] = 0
    <3>1. SideNode(proof, u) = Node[Append(P(d), 1)] /\ C[u] = Node[Append(P(d), 0)]
      <4>1. 1 - key[d + 1] = 1
        BY <2>11, SMT
      <4> QED BY <2>3, <2>4, <2>6, <2>7, <2>11, <4>1
    <3> QED BY <2>1, <2>2, <2>10, <2>11, <3>1 DEF d, t
  <2>12. CASE key[d + 1] = 1
    <3>1. SideNode(proof, u) = Node[Append(P(d), 0)] /\ C[u] = Node[Append(P(d), 1)]
      <4>1. 1 - key[d + 1] = 0
        BY <2>12, SMT
      <4> QED BY <2>3, <2>4, <2>6, <2>7, <2>12, <4>1
    <3> QED BY <2>1, <2>2, <2>10, <2>12, <3>1, ZenonT(30) DEF d, t
  <2> QED BY <2>5, <2>11, <2>12, ZenonT(30)
<1> HIDE DEF T
<1>3. n \in T
  BY <1>0, <1>1, <1>2, InductiveTo, SMTT(30)
<1>4. C[n] = Node[P(n - n)] /\ n - n = 0
  BY <1>0, <1>3, SMT DEF T
<1>5. P(0) = <<>>
  BY <1>0, SMT DEF Keys
<1> QED BY <1>4, <1>5, ZenonT(30) DEF Root

\* The proof that is made about the key of a message gets the right answer.
LEMMA MadeProofConvinces ==
  ASSUME TreeInv, NEW m \in StateRootMessages
  PROVE  VerifyMessageInclusionState(m, Root, VerifierProof(Key(m))) =
           IF Included(m) THEN "included" ELSE "not included"
<1> DEFINE key == Key(m)
           proof == VerifierProof(key)
           n == NumSideNodes(key)
<1>1. key \in Keys /\ Index(m) = key
  BY KeyIsIndex
<1>2. n \in 0..Depth /\ Depth \in Nat
  BY <1>1, DepthOfKey, TreeAssumption, SMTT(30) DEF Depth
<1>3. /\ proof.key = key /\ proof.numSideNodes = n
      /\ proof.value = (IF key \in DOMAIN tree THEN tree[key] ELSE Default)
  BY <1>1, ProofFields, SMT
<1>4. /\ Cardinality((0..n - 1) \ proof.bitMask) = Len(proof.sideNodes)
      /\ Len(proof.sideNodes) \in 0..n
  BY <1>1, ProofIsWhole
<1>5. ComputeLeaf(proof) # <<"reverts">>
  BY <1>1, ProofHasLeaf
<1>6. CurrentHash(proof)[n] = Root
  BY <1>1, WalkToRoot
<1> HIDE DEF proof, n
<1>7. ComputeRoot(proof) = Root
  <2>1. ~(Cardinality((0..n - 1) \ proof.bitMask) > Len(proof.sideNodes))
    BY <1>2, <1>4, SMT
  <2> QED BY <1>3, <1>6, <2>1 DEF ComputeRoot
<1>8. VerifyProof(Root, proof)
  <2>1. Len(proof.sideNodes) <= Depth /\ proof.numSideNodes <= Depth
    BY <1>2, <1>3, <1>4, SMT
  <2> QED BY <1>5, <1>7, <2>1 DEF VerifyProof
<1>9. m.digest # Default
  BY MessageType
<1>10. proof.value = m.digest <=> Included(m)
  BY <1>3, <1>9 DEF Included
<1>11. VerifyMessageInclusionState(m, Root, proof) =
         IF Included(m) THEN "included" ELSE "not included"
  BY <1>1, <1>3, <1>8, <1>10, ZenonT(30) DEF VerifyMessageInclusionState
<1> QED BY <1>11 DEF proof

\* The contract accepts the proof that the Go code makes about any key of a
\* checkpoint and answers rightly for every message of that key: for keys and bytes of
\* every length and any number of messages.
THEOREM ProofsConvinceHolds == TreeSpec => []ProofsConvince
<1>1. TreeInv => ProofsConvince
  BY MadeProofConvinces DEF ProofsConvince
<1> QED BY <1>1, TreeInvariant, PTL
====
