---------------------------- MODULE OperatorNode ----------------------------
(***************************************************************************)
(* An operator node (operator/operator.go, operator/avs_manager.go) around *)
(* the Attestor: its registration on start-up, the subscriptions of the    *)
(* AVS manager, the loop that hands signed messages to the aggregator's    *)
(* RPC client, and the plugin (plugin/cmd/operator_plugin.go) that         *)
(* registers and deregisters the operator meanwhile.                       *)
(*                                                                         *)
(* A call to a chain or to the aggregator may fail; one to the aggregator  *)
(* (net/rpc, no timeout) may never return.                                 *)
(***************************************************************************)
EXTENDS Attestor

CONSTANTS
  Tasks,         \* checkpoint tasks the task manager creates
  Updates,       \* operator set updates
  MaxInputs      \* bound of headers, blocks, events, ended subscriptions, opt-outs and
                 \* cancellation together

ASSUME NodeAssumption == MaxInputs \in Nat

VARIABLES
  node,          \* where the node is: NodePcs
  chain,         \* the operator on chain: [el, avs] registered with EigenLayer, the AVS
  optOuts,
  subs,          \* live subscriptions of the AVS manager
  task,          \* checkpoint task -> where its event is
  update,        \* operator set update -> where its event is
  calls          \* goroutines in a call of aggregatorRpcClient: <<kind, subject>>

chainVars == <<chain, optOuts>>
eventVars == <<subs, task, update, calls>>
nodeVars == <<attestorVars, node, chainVars, eventVars>>

NodePcs == {"off", "eigenlayer", "deposit", "check", "register", "ready", "attestor",
            "loop", "returned"}

NodeInit ==
  /\ AttestorInit
  /\ node = "off"
  /\ chain \in [el : BOOLEAN, avs : {FALSE}]
  /\ optOuts = 0
  /\ subs = {}
  /\ task = [t \in Tasks |-> "none"]
  /\ update = [u \in Updates |-> "none"]
  /\ calls = {}

\* SubscribeToNewTasks, SubscribeToOperatorSetUpdates
Subscribed == {"tasks", "updates"}

\* How much the environment has done to the node.
Inputs ==
  Cardinality({h \in Headers : header[h].pc # "none"})
    + Cardinality({d \in Deliveries : delivery[d].pc # "none"})
    + Cardinality({t \in Tasks : task[t] # "none"})
    + Cardinality({u \in Updates : update[u] # "none"})
    + Cardinality({s \in Subscribed : node \in {"attestor", "loop", "returned"} /\ s \notin subs})
    + optOuts + (IF done THEN 1 ELSE 0)

-----------------------------------------------------------------------------
(* Start-up: an error, Fatal or returned, ends the process. *)

NodeGoes(from, to) ==
  /\ node = from /\ node' = to
  /\ UNCHANGED <<attestorVars, eventVars>>

\* NewOperatorFromConfig, with or without RegisterOperatorOnStartup.
NewOperator ==
  /\ node = "off"
  /\ node' \in {"eigenlayer", "ready"}
  /\ UNCHANGED <<attestorVars, chainVars, eventVars>>

\* The error is only logged: the operator may have been registered before.  A zero
\* strategy address skips the deposit.
RegisterOperatorWithEigenlayer ==
  /\ \E next \in {"deposit", "check"} : NodeGoes("eigenlayer", next)
  /\ \/ ~chain.el /\ chain' = [chain EXCEPT !.el = TRUE]
     \/ UNCHANGED chain
  /\ UNCHANGED optOuts

\* Mint and deposit; the deposit itself is not modelled.
DepositIntoStrategy ==
  /\ \E next \in {"check", "off"} : NodeGoes("deposit", next)
  /\ UNCHANGED chainVars

CheckRegistered ==
  /\ \/ NodeGoes("check", IF chain.avs THEN "ready" ELSE "register")
     \/ NodeGoes("check", "off")
  /\ UNCHANGED chainVars

\* The AVS takes operators of EigenLayer, once.
RegisterOperatorWithAvs(ok) ==
  /\ ok => chain.el /\ ~chain.avs
  /\ chain' = [chain EXCEPT !.avs = @ \/ ok]
  /\ UNCHANGED optOuts

RegisterOnStartup ==
  \/ NodeGoes("register", "ready") /\ RegisterOperatorWithAvs(TRUE)
  \/ NodeGoes("register", "off") /\ RegisterOperatorWithAvs(FALSE)

\* Mutant: an operator that is not registered is started as well.
StartUnregistered ==
  /\ node = "ready" /\ node' = "attestor" /\ subs' = Subscribed
  /\ UNCHANGED <<attestorVars, chainVars, task, update, calls>>

\* AvsManager.Start: the check and the two subscriptions.
StartAvsManager ==
  /\ node = "ready"
  /\ \/ node' = "off" /\ UNCHANGED subs
     \/ chain.avs /\ node' = "attestor" /\ subs' = Subscribed
  /\ UNCHANGED <<attestorVars, chainVars, task, update, calls>>

\* A failed subscription to a rollup's headers is Fatal, and the process ends with
\* the events it had received.
StartAttestor ==
  /\ node = "attestor"
  /\ \/ node' = "loop" /\ UNCHANGED eventVars
     \/ /\ node' = "off" /\ subs' = {} /\ calls' = {}
        /\ task' = [t \in Tasks |-> IF task[t] = "sink" THEN "lost" ELSE task[t]]
        /\ update' = [u \in Updates |-> IF update[u] = "none" THEN "none" ELSE "lost"]
  /\ UNCHANGED <<attestorVars, chainVars>>

\* The plugin runs in a process of its own.
OptIn ==
  /\ \E ok \in BOOLEAN : RegisterOperatorWithAvs(ok)
  /\ UNCHANGED <<attestorVars, node, eventVars>>

OptOut ==
  /\ chain.avs
  /\ chain' = [chain EXCEPT !.avs = FALSE]
  /\ optOuts' = optOuts + 1
  /\ UNCHANGED <<attestorVars, node, eventVars>>

-----------------------------------------------------------------------------
(* AvsManager *)

\* The goroutine of a subscription holds one event at a time for the unbuffered
\* channel it was given.
EmitTask(t) ==
  /\ "tasks" \in subs /\ task[t] = "none" /\ \A o \in Tasks : task[o] # "sink"
  /\ task' = [task EXCEPT ![t] = "sink"]
  /\ UNCHANGED <<attestorVars, node, chainVars, subs, update, calls>>

EmitUpdate(u) ==
  /\ "updates" \in subs /\ update[u] = "none" /\ \A o \in Updates : update[o] # "sink"
  /\ update' = [update EXCEPT ![u] = "sink"]
  /\ UNCHANGED <<attestorVars, node, chainVars, subs, task, calls>>

\* The error of a subscription ends the goroutine that reads it, and the event
\* that waits is lost.
SubscriptionEnds(s) ==
  /\ s \in subs
  /\ subs' = subs \ {s}
  /\ task' = [t \in Tasks |-> IF s = "tasks" /\ task[t] = "sink" THEN "lost" ELSE task[t]]
  /\ update' = [u \in Updates |-> IF s = "updates" /\ update[u] = "sink" THEN "lost" ELSE update[u]]
  /\ UNCHANGED <<attestorVars, node, chainVars, calls>>

\* A goroutine of handleOperatorSetUpdate for the event.
ReceiveUpdate(u) ==
  /\ "updates" \in subs /\ update[u] = "sink"
  /\ update' = [update EXCEPT ![u] = "fetch"]
  /\ UNCHANGED <<attestorVars, node, chainVars, subs, task, calls>>

\* An update whose delta cannot be read is given up.
handleOperatorSetUpdate(u) ==
  /\ update[u] = "fetch"
  /\ \E next \in {"offer", "lost"} : update' = [update EXCEPT ![u] = next]
  /\ UNCHANGED <<attestorVars, node, chainVars, subs, task, calls>>

-----------------------------------------------------------------------------
(* The loop of Start *)

TakeSignedRoot(h) ==
  /\ node = "loop"
  /\ SendSignedRoot(h)
  /\ calls' = calls \cup {<<"send", h>>}
  /\ UNCHANGED <<node, chainVars, subs, task, update>>

TakeTask(t) ==
  /\ node = "loop" /\ task[t] = "sink"
  /\ task' = [task EXCEPT ![t] = "taken"]
  /\ calls' = calls \cup {<<"get", t>>}
  /\ UNCHANGED <<attestorVars, node, chainVars, subs, update>>

\* Mutant: the update is sent by the loop itself, after the calls before it.
TakeUpdateInline(u) ==
  /\ node = "loop" /\ update[u] = "offer" /\ calls = {}
  /\ update' = [update EXCEPT ![u] = "taken"]
  /\ calls' = {<<"send", u>>}
  /\ UNCHANGED <<attestorVars, node, chainVars, subs, task>>

TakeUpdate(u) ==
  /\ node = "loop" /\ update[u] = "offer"
  /\ update' = [update EXCEPT ![u] = "taken"]
  /\ calls' = calls \cup {<<"send", u>>}
  /\ UNCHANGED <<attestorVars, node, chainVars, subs, task>>

\* ProcessCheckpointTask: messages that cannot be fetched or answered end it.
ProcessCheckpointTask(t) ==
  /\ <<"get", t>> \in calls
  /\ \E answer \in {{}, {<<"send", t>>}} : calls' = (calls \ {<<"get", t>>}) \cup answer
  /\ UNCHANGED <<attestorVars, node, chainVars, subs, task, update>>

SendReturns(x) ==
  /\ <<"send", x>> \in calls
  /\ calls' = calls \ {<<"send", x>>}
  /\ UNCHANGED <<attestorVars, node, chainVars, subs, task, update>>

NodeReturns ==
  /\ done /\ node = "loop"
  /\ node' = "returned"
  /\ UNCHANGED <<attestorVars, chainVars, eventVars>>

-----------------------------------------------------------------------------
(* The node *)

\* What the goroutines of the node do by themselves.
NodeStep ==
  \/ AttestorStep /\ UNCHANGED <<node, chainVars, eventVars>>
  \/ \E h \in Headers : TakeSignedRoot(h)
  \/ \E t \in Tasks : TakeTask(t)
  \/ \E u \in Updates : ReceiveUpdate(u) \/ handleOperatorSetUpdate(u) \/ TakeUpdate(u)
  \/ NodeReturns

StartUp ==
  \/ RegisterOperatorWithEigenlayer \/ DepositIntoStrategy \/ CheckRegistered
  \/ RegisterOnStartup \/ StartAvsManager \/ StartAttestor

Time == node = "loop" /\ Tick(TRUE) /\ UNCHANGED <<node, chainVars, eventVars>>

\* What comes from outside, within the bound.
Input ==
  /\ Inputs < MaxInputs
  /\ \/ OptOut
     \/ \E s \in subs : SubscriptionEnds(s)
     \/ \E t \in Tasks : EmitTask(t)
     \/ \E u \in Updates : EmitUpdate(u)
     \/ /\ node = "loop"
        /\ \/ Cancel
           \/ \E h \in Headers : ReceiveHeader(h)
           \/ \E d \in Deliveries : ReceiveBlock(d)
        /\ UNCHANGED <<node, chainVars, eventVars>>

Environment ==
  \/ Input \/ NewOperator \/ OptIn
  \/ \E t \in Tasks : ProcessCheckpointTask(t)
  \/ \E x \in Headers \cup Tasks \cup Updates : SendReturns(x)

NodeNext == NodeStep \/ StartUp \/ Time \/ Environment

NodeSpec == NodeInit /\ [][NodeNext]_nodeVars

\* Goroutines that can step do, start-up goes on, and time passes.  Nothing is
\* assumed of the chain, of the aggregator or of the operator's decisions.
NodeFairSpec == NodeSpec /\ WF_nodeVars(NodeStep \/ StartUp \/ Time)

-----------------------------------------------------------------------------
(* Properties *)

\* Type invariant of the node; its goroutines only run once it has started.
NodeTypeOK ==
  /\ AttestorTypeOK
  /\ node \in NodePcs
  /\ chain \in [el : BOOLEAN, avs : BOOLEAN] /\ optOuts \in 0..MaxInputs
  /\ subs \subseteq Subscribed
  /\ task \in [Tasks -> {"none", "sink", "taken", "lost"}]
  /\ update \in [Updates -> {"none", "sink", "fetch", "offer", "taken", "lost"}]
  /\ node \notin {"loop", "returned"} =>
       /\ calls = {} /\ sent = {}
       /\ \A h \in Headers : header[h].pc = "none"

\* A node that serves is an operator of EigenLayer and of the AVS unless it was
\* opted out: failed transactions, a swallowed EigenLayer error and an opt-out
\* between two steps of start-up all end in a node that does not start.
ServesRegistered ==
  node \in {"attestor", "loop", "returned"} /\ optOuts = 0 => chain.el /\ chain.avs

\* Again and again every header that an operator has received is signed and its
\* goroutine has ended, however often its block is broadcast and whatever the
\* aggregator does with the messages sent to it, unless the node is stopped.
HeadersSigned ==
  LET Signed(h) == header[h].pc = "done" /\ \E s \in sent : s.header = h
  IN  []<>(done \/ \A h \in Headers : header[h].pc = "none" \/ Signed(h))

\* Again and again every event of the AVS that has reached the node is taken by its
\* loop, or lost with its subscription or its delta: a call that hangs does not keep
\* the loop from it.
EventsTaken ==
  []<>(\/ done
       \/ /\ \A t \in Tasks : task[t] # "sink"
          /\ \A u \in Updates : update[u] \in {"none", "taken", "lost"})

\* The inductive invariant behind ServesRegistered: the AVS only takes operators of
\* EigenLayer.
Registered ==
  /\ chain \in [el : BOOLEAN, avs : BOOLEAN] /\ optOuts \in Nat
  /\ chain.avs => chain.el
  /\ node \in {"attestor", "loop", "returned"} /\ optOuts = 0 => chain.avs
=============================================================================
