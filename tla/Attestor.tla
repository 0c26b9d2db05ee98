------------------------------ MODULE Attestor ------------------------------
(***************************************************************************)
(* How an operator signs a state root (operator/attestor/attestor.go and   *)
(* notifier.go): a goroutine per header of a rollup node waits MQ_WAIT_    *)
(* TIMEOUT for the block that was posted to NEAR DA, and signs with its    *)
(* transaction and commitment or without.  Blocks from the message queue   *)
(* are broadcast twice, MQ_REBROADCAST_TIMEOUT apart.                      *)
(*                                                                         *)
(* Goroutines take no time: the clock only moves when none can step        *)
(* (Quiet).  Steps of one instant are in any order.                        *)
(***************************************************************************)
EXTENDS Integers, Sequences, FiniteSets, FiniteSetsExt

CONSTANTS
  Headers,       \* headers received: id (a header may come twice), rollup, number, root
  Deliveries,    \* blocks received: id, rollup, number, root, da
  Wait,          \* MQ_WAIT_TIMEOUT
  Rebroadcast,   \* MQ_REBROADCAST_TIMEOUT
  Buffer,        \* capacity of a subscriber's channel
  Horizon,       \* bound: no header or block comes after this instant
  NoDa           \* the zero transaction id and commitment

Rollups == {h.rollup : h \in Headers}

ASSUME AttestorAssumption ==
  /\ Wait \in Nat /\ Rebroadcast \in Nat /\ Rebroadcast < Wait
  /\ Buffer \in Nat \ {0} /\ Horizon \in Nat
  /\ \A d \in Deliveries : d.da # NoDa

VARIABLES
  clock,
  done,          \* whether the context is
  header,        \* header -> its goroutine of processHeader
  buffer,        \* header -> blocks in its channel notifierC
  subscribers,   \* rollupIdsToSubscribers, rollup -> list
  known,         \* rollups that have a list
  delivery,      \* block received -> its goroutine
  notifying,     \* the holder of notifierLock in a Notify that waits: at most one [d, todo]
  sent           \* what was sent on signedRootC: [header, da]

goroutines == <<header, buffer, subscribers, known, delivery, notifying>>
attestorVars == <<clock, done, goroutines, sent>>

NoHeader == [pc |-> "none", since |-> 0, da |-> NoDa]
NoDelivery == [pc |-> "none", at |-> 0]

AttestorInit ==
  /\ clock = 0
  /\ done = FALSE
  /\ header = [h \in Headers |-> NoHeader]
  /\ buffer = [h \in Headers |-> <<>>]
  /\ subscribers = [r \in Rollups |-> <<>>]
  /\ known = {}
  /\ delivery = [d \in Deliveries |-> NoDelivery]
  /\ notifying = {}
  /\ sent = {}

Unlocked == notifying = {}

-----------------------------------------------------------------------------
(* Notifier *)

Subscribe(h) ==
  /\ header[h].pc = "subscribe" /\ Unlocked
  /\ known' = known \cup {h.rollup}
  /\ subscribers' = [subscribers EXCEPT ![h.rollup] = Append(@, h)]
  /\ header' = [header EXCEPT ![h].pc = "wait", ![h].since = clock]
  /\ UNCHANGED <<clock, done, buffer, delivery, notifying, sent>>

\* Mutant: a block of another height or root is handed over.
AnyBlock(h, d) == d.rollup = h.rollup

\* The predicate that processHeader subscribes with.
Predicate(h, d) == d.rollup = h.rollup /\ d.number = h.number /\ d.root = h.root

\* Mutant: the channel holds one block.
RoomForOne(h) == buffer[h] = <<>>

Room(h) == Len(buffer[h]) < Buffer

\* The first broadcast is the main loop's, which then starts the goroutine of the
\* second one.
AfterNotify(d) ==
  IF delivery[d].pc = "notify"
  THEN [pc |-> "timer", at |-> clock + Rebroadcast]
  ELSE [pc |-> "done", at |-> delivery[d].at]

\* The loop of Notify over the subscribers that are left, with the lock held: it
\* skips those whose predicate fails and stops at one whose channel is full.
NotifyLoop(d, todo) ==
  LET full == {k \in 1..Len(todo) : Predicate(todo[k], d) /\ ~Room(todo[k])}
      reached == IF full = {} THEN Len(todo) ELSE Min(full) - 1
      passed == {todo[k] : k \in 1..reached}
  IN  /\ buffer' = [h \in Headers |-> IF h \in passed /\ Predicate(h, d)
                                      THEN Append(buffer[h], d) ELSE buffer[h]]
      /\ notifying' = IF full = {} THEN {}
                      ELSE {[d |-> d, todo |-> SubSeq(todo, reached + 1, Len(todo))]}
      /\ delivery' = IF full = {} THEN [delivery EXCEPT ![d] = AfterNotify(d)] ELSE delivery

\* A rollup without a list is unknownRollupIdError.
Notify(d) ==
  /\ delivery[d].pc \in {"notify", "renotify"} /\ Unlocked
  /\ IF d.rollup \in known
     THEN NotifyLoop(d, subscribers[d.rollup])
     ELSE delivery' = [delivery EXCEPT ![d] = AfterNotify(d)] /\ UNCHANGED <<buffer, notifying>>
  /\ UNCHANGED <<clock, done, header, subscribers, known, sent>>

\* The channel that Notify waits for has room again.
NotifyGoesOn(n) ==
  /\ Room(Head(n.todo))
  /\ NotifyLoop(n.d, n.todo)
  /\ UNCHANGED <<clock, done, header, subscribers, known, sent>>

\* list.Remove.
Remove(list, k) == SubSeq(list, 1, k - 1) \o SubSeq(list, k + 1, Len(list))

\* The element that Subscribe returned is removed; the goroutine ends, and its
\* channel with it.
Unsubscribe(h) ==
  /\ header[h].pc = "unsubscribe" /\ Unlocked
  /\ \E k \in 1..Len(subscribers[h.rollup]) :
       /\ subscribers[h.rollup][k] = h
       /\ subscribers' = [subscribers EXCEPT ![h.rollup] = Remove(@, k)]
  /\ buffer' = [buffer EXCEPT ![h] = <<>>]
  /\ header' = [header EXCEPT ![h].pc = "done"]
  /\ UNCHANGED <<clock, done, known, delivery, notifying, sent>>

-----------------------------------------------------------------------------
(* processMQBlocks *)

MainLoopIdle == \A d \in Deliveries : delivery[d].pc # "notify"

ReceiveBlock(d) ==
  /\ MainLoopIdle /\ clock <= Horizon
  /\ delivery[d].pc = "none"
  /\ delivery' = [delivery EXCEPT ![d].pc = "notify"]
  /\ UNCHANGED <<clock, done, header, buffer, subscribers, known, notifying, sent>>

\* Mutant: a block is broadcast once.
NoRebroadcast(d) ==
  /\ delivery[d].pc = "timer" /\ clock >= delivery[d].at
  /\ delivery' = [delivery EXCEPT ![d].pc = "done"]
  /\ UNCHANGED <<clock, done, header, buffer, subscribers, known, notifying, sent>>

Renotify(d) ==
  /\ delivery[d].pc = "timer" /\ clock >= delivery[d].at
  /\ delivery' = [delivery EXCEPT ![d].pc = "renotify"]
  /\ UNCHANGED <<clock, done, header, buffer, subscribers, known, notifying, sent>>

-----------------------------------------------------------------------------
(* processRollupHeaders and processHeader *)

ReceiveHeader(h) ==
  /\ header[h].pc = "none" /\ clock <= Horizon
  /\ header' = [header EXCEPT ![h].pc = "subscribe"]
  /\ UNCHANGED <<clock, done, buffer, subscribers, known, delivery, notifying, sent>>

FindMQBlock(h) ==
  /\ header[h].pc = "wait" /\ buffer[h] # <<>>
  /\ header' = [header EXCEPT ![h].pc = "offer", ![h].da = Head(buffer[h]).da]
  /\ buffer' = [buffer EXCEPT ![h] = Tail(@)]
  /\ UNCHANGED <<clock, done, subscribers, known, delivery, notifying, sent>>

MissMQBlock(h) ==
  /\ header[h].pc = "wait" /\ clock >= header[h].since + Wait
  /\ header' = [header EXCEPT ![h].pc = "offer"]
  /\ UNCHANGED <<clock, done, buffer, subscribers, known, delivery, notifying, sent>>

\* signedRootC is unbuffered: the signed message is handed over with the goroutine
\* still subscribed.
SendSignedRoot(h) ==
  /\ header[h].pc = "offer"
  /\ sent' = sent \cup {[header |-> h, da |-> header[h].da]}
  /\ header' = [header EXCEPT ![h].pc = "unsubscribe"]
  /\ UNCHANGED <<clock, done, buffer, subscribers, known, delivery, notifying>>

\* The context ends.  A select that finds it done may still take another of its
\* cases: the loops that receive blocks and headers return when nothing more comes.
Cancel ==
  /\ ~done
  /\ done' = TRUE
  /\ UNCHANGED <<clock, goroutines, sent>>

HeaderReturns(h) ==
  /\ done /\ header[h].pc = "wait"
  /\ header' = [header EXCEPT ![h].pc = "unsubscribe"]
  /\ UNCHANGED <<clock, done, buffer, subscribers, known, delivery, notifying, sent>>

RebroadcastReturns(d) ==
  /\ done /\ delivery[d].pc = "timer"
  /\ delivery' = [delivery EXCEPT ![d].pc = "done"]
  /\ UNCHANGED <<clock, done, header, buffer, subscribers, known, notifying, sent>>

-----------------------------------------------------------------------------
(* Time *)

AttestorStep ==
  \/ \E h \in Headers : \/ Subscribe(h) \/ FindMQBlock(h) \/ MissMQBlock(h)
                        \/ HeaderReturns(h) \/ Unsubscribe(h)
  \/ \E d \in Deliveries : Notify(d) \/ Renotify(d) \/ RebroadcastReturns(d)
  \/ \E n \in notifying : NotifyGoesOn(n)

\* No goroutine can step: `receiving` says whether signedRootC is received from.
Quiet(receiving) ==
  /\ ~done
  /\ \A n \in notifying : ~Room(Head(n.todo))
  /\ \A h \in Headers :
       /\ header[h].pc \in {"subscribe", "unsubscribe"} => ~Unlocked
       /\ header[h].pc = "offer" => ~receiving
       /\ header[h].pc = "wait" => buffer[h] = <<>> /\ clock < header[h].since + Wait
  /\ \A d \in Deliveries :
       /\ delivery[d].pc \in {"notify", "renotify"} => ~Unlocked
       /\ delivery[d].pc = "timer" => clock < delivery[d].at

\* Something is still to come or to expire.
Waiting ==
  \/ clock < Horizon
  \/ \E h \in Headers : header[h].pc = "wait"
  \/ \E d \in Deliveries : delivery[d].pc = "timer"

Tick(receiving) ==
  /\ Waiting /\ Quiet(receiving)
  /\ clock' = clock + 1
  /\ UNCHANGED <<done, goroutines, sent>>

-----------------------------------------------------------------------------
(* Properties *)

\* Type invariant of the attestor; a goroutine is on its rollup's list from
\* Subscribe to Unsubscribe, once.
AttestorTypeOK ==
  /\ clock \in 0..(Horizon + Wait)
  /\ done \in BOOLEAN
  /\ \A h \in Headers :
       /\ header[h].pc \in {"none", "subscribe", "wait", "offer", "unsubscribe", "done"}
       /\ Len(buffer[h]) <= Buffer
       /\ \A r \in Rollups :
            Len(SelectSeq(subscribers[r], LAMBDA g : g = h)) =
              IF r = h.rollup /\ header[h].pc \in {"wait", "offer", "unsubscribe"} THEN 1 ELSE 0
  /\ \A d \in Deliveries :
       delivery[d].pc \in {"none", "notify", "timer", "renotify", "done"}
  /\ known \subseteq Rollups

SameBlock(h, d) == h.rollup = d.rollup /\ h.number = d.number /\ h.root = d.root

\* A state root is signed with the NEAR DA transaction and commitment of a block of
\* the same rollup, height and state root, or with none.
SignedWithItsBlock ==
  \A s \in sent : s.da # NoDa =>
    \E d \in Deliveries : SameBlock(s.header, d) /\ s.da = d.da

\* A state root is signed without its DA block only if no broadcast of that block
\* was strictly between the goroutine's subscription and its timeout.  With the
\* rebroadcast, a block that came from Rebroadcast before the header to Wait after
\* it is found, whichever came first.
MissedOnlyWhenLate ==
  \A s \in sent : s.da = NoDa =>
    \A d \in Deliveries :
      SameBlock(s.header, d) /\ delivery[d].pc \in {"timer", "renotify", "done"} =>
        LET arrived == delivery[d].at - Rebroadcast
            since == header[s.header].since
        IN  arrived <= since - Rebroadcast \/ arrived >= since + Wait

-----------------------------------------------------------------------------
(* The inductive invariant behind the properties. *)

HeaderPcs == {"none", "subscribe", "wait", "offer", "unsubscribe", "done"}
DeliveryPcs == {"none", "notify", "timer", "renotify", "done"}
Das == {d.da : d \in Deliveries} \cup {NoDa}

Domains ==
  /\ clock \in Nat
  /\ header \in [Headers -> [pc : HeaderPcs, since : Nat, da : Das]]
  /\ buffer \in [Headers -> Seq(Deliveries)]
  /\ subscribers \in [Rollups -> Seq(Headers)]
  /\ known \subseteq Rollups
  /\ delivery \in [Deliveries -> [pc : DeliveryPcs, at : Nat]]
  /\ \A n \in notifying : n.d \in Deliveries
  /\ sent \subseteq [header : Headers, da : Das]

\* What a channel holds and what a goroutine took from it is of its header.
OwnBlocks ==
  \A h \in Headers :
    /\ \A k \in 1..Len(buffer[h]) : SameBlock(h, buffer[h][k])
    /\ header[h].da # NoDa => \E d \in Deliveries : SameBlock(h, d) /\ header[h].da = d.da

\* d has been broadcast, at delivery[d].at - Rebroadcast for the first time.
Broadcast(d) == delivery[d].pc \in {"timer", "renotify", "done"}

\* A goroutine is on its rollup's list from Subscribe to Unsubscribe.
Listed ==
  \A h \in Headers :
    header[h].pc \in {"wait", "offer", "unsubscribe"} =>
      /\ h.rollup \in known
      /\ \E k \in 1..Len(subscribers[h.rollup]) : subscribers[h.rollup][k] = h

\* Nobody sleeps past their timer.
OnTime ==
  /\ \A h \in Headers : header[h].pc = "wait" => clock <= header[h].since + Wait
  /\ \A d \in Deliveries :
       /\ Broadcast(d) => Rebroadcast <= delivery[d].at /\ delivery[d].at <= clock + Rebroadcast
       /\ delivery[d].pc = "timer" => clock <= delivery[d].at
       /\ delivery[d].pc = "renotify" => clock = delivery[d].at
       /\ delivery[d].pc = "done" => delivery[d].at <= clock \/ done

\* A block of a waiting header that was broadcast after its subscription is in its
\* channel, and its clock stands; one that came before is broadcast again in time.
WillBeFound(h, d) ==
  LET arrived == delivery[d].at - Rebroadcast
      since == header[h].since
  IN  /\ arrived > since => buffer[h] # <<>> /\ clock = arrived
      /\ arrived <= since /\ delivery[d].at > since =>
           /\ clock <= delivery[d].at
           /\ delivery[d].pc = "done" => buffer[h] # <<>> \/ done

\* The broadcasts of d were no use to h.
OutOfTime(h, d) ==
  LET arrived == delivery[d].at - Rebroadcast
      since == header[h].since
  IN  arrived <= since - Rebroadcast \/ arrived >= since + Wait

Missed(h) ==
  /\ clock >= header[h].since + Wait
  /\ \A d \in Deliveries : SameBlock(h, d) /\ Broadcast(d) => OutOfTime(h, d)

FoundOrMissed ==
  /\ \A h \in Headers :
       /\ header[h].pc = "wait" =>
            \A d \in Deliveries : SameBlock(h, d) /\ Broadcast(d) => WillBeFound(h, d)
       /\ header[h].pc = "offer" /\ header[h].da = NoDa => Missed(h)
  /\ \A s \in sent :
       /\ header[s.header].pc \in {"unsubscribe", "done"}
       /\ s.da = NoDa => Missed(s.header)

\* The blocks of h, those broadcast once and those broadcast twice.
BlocksOf(h) == {d \in Deliveries : SameBlock(h, d)}
OnceOf(h) == {d \in BlocksOf(h) : Broadcast(d)}
TwiceOf(h) == {d \in BlocksOf(h) : delivery[d].pc = "done"}

\* A channel holds at most what was broadcast of its header's blocks.
BuffersBounded ==
  \A h \in Headers : Len(buffer[h]) <= Cardinality(OnceOf(h)) + Cardinality(TwiceOf(h))
=============================================================================
