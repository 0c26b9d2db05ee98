------------------------ MODULE OperatorRegistrations -----------------------
(***************************************************************************)
(* The aggregator's view of the registered operators                       *)
(* (aggregator/operator_registrations_inmemory.go) over two subscriptions  *)
(* of a SafeEthClient: registrations of public keys and updates of sockets *)
(* are subscribed to, the past ones are queried, and then the events are   *)
(* applied by a loop that also answers the queries.                        *)
(***************************************************************************)
EXTENDS SafeClientLogs

CONSTANT NoSocket  \* the empty socket

ASSUME RegistrationsAssumption ==
  /\ Subs = {"pubkeys", "sockets"}
  /\ \A l \in Logs : {"operator", "socket"} \subseteq DOMAIN l
  \* registerOperator of RegistryCoordinator emits both.
  /\ \A l \in Logs : l.sub = "pubkeys" =>
       \E k \in Logs : k.sub = "sockets" /\ k.operator = l.operator /\ k.block = l.block

VARIABLES
  ors,           \* [pc, found: operators of the first query]
  pubkeysById,   \* operators whose public keys are known
  socketById     \* function on the operators that have an entry

registrationsVars == <<ors, pubkeysById, socketById>>
orsVars == <<logsVars, registrationsVars>>

Operators == {l.operator : l \in Logs}

\* Mutant: the past is queried before the subscriptions are open.
QueryFirst(pc) ==
  CASE pc = "start" -> "query pubkeys" [] pc = "query pubkeys" -> "query sockets"
    [] pc = "query sockets" -> "pubkeys" [] pc = "pubkeys" -> "sockets" [] pc = "sockets" -> "loop"

\* The steps of startServiceInGoroutine before its loop.
InitOrder(pc) ==
  CASE pc = "start" -> "pubkeys" [] pc = "pubkeys" -> "sockets" [] pc = "sockets" -> "query pubkeys"
    [] pc = "query pubkeys" -> "query sockets" [] pc = "query sockets" -> "loop"

OrsInit ==
  /\ LogsInit
  /\ ors = [pc |-> InitOrder("start"), found |-> {}]
  /\ pubkeysById = {}
  /\ socketById = <<>>

-----------------------------------------------------------------------------
(* startServiceInGoroutine *)

\* Opens the subscription named like the step.
OrsSubscribe ==
  /\ ors.pc \in Subs
  /\ \/ SubscribeBegin(ors.pc) /\ UNCHANGED ors
     \/ SubscribeEnd(ors.pc) /\ ors' = [ors EXCEPT !.pc = InitOrder(ors.pc)]
  /\ UNCHANGED <<pubkeysById, socketById>>

PastLogs(s) == {l \in Logs : l.sub = s /\ l.block <= height}

\* The socket that the last of an operator's updates in a set names.
LastSocket(updates, o) ==
  LET own == {l \in updates : l.operator = o}
  IN  IF own = {} THEN NoSocket
      ELSE (CHOOSE l \in own : \A k \in own : k.id <= l.id).socket

\* A map with the entries of another one.
Assigned(map, entries) ==
  [o \in DOMAIN map \cup DOMAIN entries |->
     IF o \in DOMAIN entries THEN entries[o] ELSE map[o]]

\* queryPastRegisteredOperators
QueryPubkeys ==
  /\ ors.pc = "query pubkeys"
  /\ ors' = [pc |-> InitOrder(ors.pc), found |-> {l.operator : l \in PastLogs("pubkeys")}]
  /\ UNCHANGED <<logsVars, pubkeysById, socketById>>

\* The sockets are read later than the public keys, and recorded for these.
QuerySockets ==
  /\ ors.pc = "query sockets"
  /\ ors' = [pc |-> InitOrder(ors.pc), found |-> {}]
  /\ pubkeysById' = pubkeysById \cup ors.found
  /\ socketById' = Assigned(socketById, [o \in ors.found |-> LastSocket(PastLogs("sockets"), o)])
  /\ UNCHANGED logsVars

\* A call fails, and the service with it: the aggregator does not start.
OrsFails ==
  /\ ors.pc \notin {"loop", "failed"} /\ faults < MaxFaults
  /\ ors' = [pc |-> "failed", found |-> {}]
  /\ faults' = faults + 1
  /\ UNCHANGED <<height, sub, wire, proxyC, logCache, delivered, excused, pubkeysById, socketById>>

OnPubkey ==
  /\ ors.pc = "loop"
  /\ \E l \in Logs : SendLog("pubkeys", l) /\ pubkeysById' = pubkeysById \cup {l.operator}
  /\ UNCHANGED <<ors, socketById>>

OnSocket ==
  /\ ors.pc = "loop"
  /\ \E l \in Logs :
       /\ SendLog("sockets", l)
       /\ socketById' = Assigned(socketById, [o \in {l.operator} |-> l.socket])
  /\ UNCHANGED <<ors, pubkeysById>>

\* The answer of GetOperatorInfoById, a pair of existence and socket.
GetOperatorInfoById(o) ==
  IF o \in pubkeysById /\ o \in DOMAIN socketById THEN <<TRUE, socketById[o]>>
  ELSE <<FALSE, NoSocket>>

\* verifySignature of the aggregator, for a message in the name of o.
VerifySignature(o, signer) == GetOperatorInfoById(o)[1] /\ signer = o

-----------------------------------------------------------------------------
(* The service and its subscriptions *)

OrsNext ==
  \/ /\ \/ Mine
        \/ \E s \in Subs : \/ Arrive(s) \/ Disconnect(s) \/ LogsStep(s)
                          \/ Resubscribe(s) \/ ResubFails(s)
     /\ UNCHANGED registrationsVars
  \/ OrsSubscribe \/ QueryPubkeys \/ QuerySockets \/ OrsFails \/ OnPubkey \/ OnSocket

OrsSpec == OrsInit /\ [][OrsNext]_orsVars

\* What the goroutines do by themselves, with a connection that delivers what it
\* carries and comes back when it is lost.
OrsStep ==
  \/ OrsSubscribe \/ QueryPubkeys \/ QuerySockets \/ OnPubkey \/ OnSocket
  \/ /\ \E s \in Subs : Arrive(s) \/ LogsStep(s) \/ Reconnect(s)
     /\ UNCHANGED registrationsVars

OrsFairSpec == OrsSpec /\ WF_orsVars(OrsStep)

-----------------------------------------------------------------------------
(* Properties *)

\* Type invariant of the service and its subscriptions.
OrsTypeOK ==
  /\ LogsTypeOK
  /\ ors.pc \in {"pubkeys", "sockets", "query pubkeys", "query sockets", "loop", "failed"}
  /\ pubkeysById \subseteq Operators
  /\ DOMAIN socketById \subseteq Operators

\* Nothing is on its way to the service.
Settled(s) ==
  /\ sub[s].pc = "select" /\ sub[s].live
  /\ wire[s] = <<>> /\ proxyC[s] = <<>>

\* Once the subscriptions have nothing under way, the service answers for every
\* operator of the chain with its last socket, from the query of the past or from an
\* event, and the aggregator takes the signatures of these operators and no others;
\* except for logs that a failed or limited fetch let pass.
RegistrationsCurrent ==
  ors.pc = "loop" /\ (\A s \in Subs : Settled(s)) =>
    LET registered == {l.operator : l \in PastLogs("pubkeys")} IN
    \A o \in Operators : (\A l \in excused : l.operator # o) =>
      /\ VerifySignature(o, o) <=> o \in registered
      /\ o \in registered =>
           GetOperatorInfoById(o)[2] = LastSocket(PastLogs("sockets"), o)

\* The service catches up with the chain again and again: every log of a block after
\* the subscription reaches it whatever connection broke in between, unless a fetch
\* after a resubscription failed, found no block after the last one seen, or was cut
\* to BlockMaxRange.
LogsArrive ==
  []<>(\/ ors.pc = "failed"
       \/ \A s \in Subs : Opened(s) /\ Undelivered(s) \subseteq excused)

-----------------------------------------------------------------------------
(* The inductive invariant behind RegistrationsCurrent. *)

\* Registrations that the query of the past comes after.
Before(l) == l.sub = "pubkeys" /\ \E s \in Subs : l.block <= sub[s].start

\* The socket of o is the one of its last event, or of the query.
SocketKnown(o) ==
  LET own == {j \in 1..Len(delivered["sockets"]) : delivered["sockets"][j].operator = o}
  IN  IF own = {}
      THEN \E h \in sub["sockets"].start..height :
             socketById[o] = LastSocket(LogsIn("sockets", 0, h), o)
      ELSE \E j \in own : /\ \A k \in own : k <= j
                          /\ socketById[o] = delivered["sockets"][j].socket

OrsInv ==
  /\ ors \in [pc : {"pubkeys", "sockets", "query pubkeys", "query sockets", "loop", "failed"},
              found : SUBSET Operators]
  /\ pubkeysById \subseteq Operators
  /\ ors.pc \notin {"pubkeys", "failed"} => Opened("pubkeys")
  /\ ors.pc \in {"query pubkeys", "query sockets", "loop"} => Opened("sockets")
  /\ ors.pc # "loop" => DOMAIN socketById = {} /\ \A s \in Subs : delivered[s] = <<>>
  /\ \A o \in pubkeysById \cup ors.found : o \in {l.operator : l \in PastLogs("pubkeys")}
  /\ ors.pc = "query sockets" => \A l \in Logs : Before(l) => l.operator \in ors.found
  /\ ors.pc = "loop" =>
       /\ \A l \in Logs : Before(l) => l.operator \in pubkeysById \cap DOMAIN socketById
       /\ \A l \in Range(delivered["pubkeys"]) : l.operator \in pubkeysById
       /\ \A l \in Range(delivered["sockets"]) : l.operator \in DOMAIN socketById
       /\ \A o \in DOMAIN socketById : SocketKnown(o)
=============================================================================
