------------------------ MODULE OperatorNode_proofs ------------------------
(***************************************************************************)
(* Proofs about the operator: OperatorNode with its attestor serves        *)
(* registered and signs each block with the transaction that carried it,   *)
(* and the list of an operator set update that it signs, computed in       *)
(* OperatorSetDelta, leads to the new set.                                 *)
(***************************************************************************)
EXTENDS OperatorNode, OperatorSetDelta, FiniteSetTheorems, TLAPS

\* A leaf that names no prover is Zenon's.
USE Zenon

-----------------------------------------------------------------------------
(* Registration *)

\* Whatever start-up, the plugin and the chain do, the AVS knows the operator of a
\* node that serves and was not opted out.
THEOREM ServesRegisteredHolds == NodeSpec => []ServesRegistered
<1>1. NodeInit => Registered
  <2> SUFFICES ASSUME NodeInit PROVE Registered
    OBVIOUS
  <2>1. chain \in [el : BOOLEAN, avs : {FALSE}] /\ node = "off" /\ optOuts = 0
    BY DEF NodeInit
  <2>2. chain.avs = FALSE /\ chain \in [el : BOOLEAN, avs : BOOLEAN]
    BY <2>1
  <2> QED BY <2>1, <2>2 DEF Registered
<1>2. Registered /\ [NodeNext]_nodeVars => Registered'
  <2> SUFFICES ASSUME Registered, [NodeNext]_nodeVars PROVE Registered'
    OBVIOUS
  <2> USE DEF Registered
  <2>0. ASSUME UNCHANGED <<node, chainVars>> PROVE Registered'
    BY <2>0 DEF chainVars
  <2>1. CASE RegisterOperatorWithEigenlayer
    BY <2>1 DEF RegisterOperatorWithEigenlayer, NodeGoes
  <2>2. CASE DepositIntoStrategy \/ CheckRegistered \/ NewOperator
    BY <2>2 DEF DepositIntoStrategy, CheckRegistered, NewOperator, NodeGoes, chainVars
  <2>3. CASE RegisterOnStartup
    BY <2>3 DEF RegisterOnStartup, RegisterOperatorWithAvs, NodeGoes
  <2>4. CASE StartAvsManager
    BY <2>4 DEF StartAvsManager, chainVars
  <2>5. CASE StartAttestor \/ NodeReturns
    BY <2>5 DEF StartAttestor, NodeReturns, chainVars
  <2>6. CASE OptIn
    BY <2>6 DEF OptIn, RegisterOperatorWithAvs
  <2>7. CASE OptOut
    <3>1. optOuts' \in Nat /\ optOuts' # 0
      BY <2>7, SMT DEF OptOut
    <3>2. chain' = [chain EXCEPT !.avs = FALSE]
      BY <2>7 DEF OptOut
    <3>3. chain' \in [el : BOOLEAN, avs : BOOLEAN] /\ chain'.avs = FALSE
      BY <3>2
    <3> QED BY <3>1, <3>3
  <2>8. CASE NodeStep /\ ~NodeReturns
    BY <2>0, <2>8 DEF NodeStep, TakeSignedRoot, TakeTask, ReceiveUpdate,
                      handleOperatorSetUpdate, TakeUpdate
  <2>9. CASE Time \/ UNCHANGED nodeVars
    BY <2>0, <2>9 DEF Time, nodeVars
  <2>10. CASE Input /\ ~OptOut
    BY <2>0, <2>10 DEF Input, SubscriptionEnds, EmitTask, EmitUpdate
  <2>11. CASE \/ \E t \in Tasks : ProcessCheckpointTask(t)
              \/ \E x \in Headers \cup Tasks \cup Updates : SendReturns(x)
    BY <2>0, <2>11 DEF ProcessCheckpointTask, SendReturns
  <2> QED BY <2>1, <2>2, <2>3, <2>4, <2>5, <2>6, <2>7, <2>8, <2>9, <2>10, <2>11
          DEF NodeNext, StartUp, Environment
<1>3. Registered => ServesRegistered
  BY DEF Registered, ServesRegistered
<1> QED BY <1>1, <1>2, <1>3, PTL DEF NodeSpec

-----------------------------------------------------------------------------
(* The attestor inside the node *)

\* What the attestor does: its own steps, its inputs, the hand-over of a signed root
\* to the node's loop, and time while that loop receives.
AttestorNext ==
  \/ AttestorStep
  \/ \E h \in Headers : SendSignedRoot(h) \/ ReceiveHeader(h)
  \/ \E d \in Deliveries : ReceiveBlock(d)
  \/ Cancel
  \/ Tick(TRUE)

\* A step of the node is one of the attestor or leaves it alone.
LEMMA NodeIsAttestor == [NodeNext]_nodeVars => [AttestorNext]_attestorVars
<1> SUFFICES ASSUME [NodeNext]_nodeVars PROVE [AttestorNext]_attestorVars
  OBVIOUS
<1>1. CASE NodeStep
  BY <1>1 DEF NodeStep, TakeSignedRoot, TakeTask, ReceiveUpdate,
                     handleOperatorSetUpdate, TakeUpdate, NodeReturns, AttestorNext
<1>2. CASE StartUp
  BY <1>2 DEF StartUp, RegisterOperatorWithEigenlayer, DepositIntoStrategy,
                     CheckRegistered, RegisterOnStartup, StartAvsManager, StartAttestor,
                     NodeGoes
<1>3. CASE Time
  BY <1>3 DEF Time, AttestorNext
<1>4. CASE Environment
  BY <1>4 DEF Environment, Input, OptOut, SubscriptionEnds, EmitTask, EmitUpdate,
                     NewOperator, OptIn, ProcessCheckpointTask, SendReturns, AttestorNext
<1>5. CASE UNCHANGED nodeVars
  BY <1>5 DEF nodeVars
<1> QED BY <1>1, <1>2, <1>3, <1>4, <1>5 DEF NodeNext

\* The element at k is removed from a list: the others stay on it.
LEMMA RemovedFromList ==
  ASSUME NEW S, NEW s \in Seq(S), NEW k \in 1..Len(s)
  PROVE  /\ Remove(s, k) \in Seq(S)
         /\ \A x \in 1..Len(s) : x # k =>
              \E y \in 1..Len(Remove(s, k)) : Remove(s, k)[y] = s[x]
<1> DEFINE t == SubSeq(s, 1, k - 1)
           u == SubSeq(s, k + 1, Len(s))
           v == t \o u
<1>1. Len(s) \in Nat /\ k \in Nat /\ 1 <= k /\ k <= Len(s)
  BY SMT
<1>2. /\ t \in Seq(S) /\ u \in Seq(S) /\ Len(t) = k - 1 /\ Len(u) = Len(s) - k
      /\ \A x \in 1..(k - 1) : t[x] = s[x]
      /\ \A x \in 1..(Len(s) - k) : u[x] = s[k + x]
  BY SMT
<1>3. Remove(s, k) = v
  BY DEF Remove
<1> HIDE DEF t, u
<1>4. /\ v \in Seq(S) /\ Len(v) = Len(t) + Len(u)
      /\ \A x \in 1..Len(t) : v[x] = t[x]
      /\ \A x \in 1..Len(u) : v[Len(t) + x] = u[x]
  <2>1. t \in Seq(S) /\ u \in Seq(S)
    BY <1>2
  <2> QED BY <2>1, SMT
<1> HIDE DEF v
<1>5. Len(v) = Len(s) - 1
  BY <1>1, <1>2, <1>4, SMT
<1>6. ASSUME NEW x \in 1..Len(s), x # k
      PROVE  \E y \in 1..Len(v) : v[y] = s[x]
  <2>0. x \in Nat /\ 1 <= x /\ x <= Len(s)
    BY <1>1, SMT
  <2>1. CASE x < k
    <3>1. x \in 1..Len(t) /\ x \in 1..Len(v) /\ x \in 1..(k - 1)
      BY <2>0, <2>1, <1>1, <1>2, <1>5, SMT
    <3>2. v[x] = s[x]
      BY <3>1, <1>2, <1>4
    <3> QED BY <3>1, <3>2
  <2>2. CASE x > k
    <3>1. x - k \in 1..Len(u) /\ x - 1 \in 1..Len(v) /\ Len(t) + (x - k) = x - 1
          /\ k + (x - k) = x /\ x - k \in 1..(Len(s) - k)
      BY <2>0, <2>2, <1>1, <1>2, <1>5, SMT
    <3>2. v[Len(t) + (x - k)] = u[x - k] /\ u[x - k] = s[k + (x - k)]
      BY <3>1, <1>2, <1>4
    <3>3. v[x - 1] = s[x]
      BY <3>1, <3>2
    <3> QED BY <3>1, <3>3
  <2> QED BY <1>6, <2>0, <2>1, <2>2, <1>1, SMT
<1> QED BY <1>3, <1>4, <1>6

\* What a run of Notify's loop does, whether it gets to the end or not.
LEMMA LoopEffect ==
  ASSUME Domains, NEW d \in Deliveries, NEW todo, NotifyLoop(d, todo)
  PROVE  /\ buffer' \in [Headers -> Seq(Deliveries)]
         /\ \A h \in Headers : \/ buffer'[h] = buffer[h]
                               \/ SameBlock(h, d) /\ buffer'[h] = Append(buffer[h], d)
         /\ delivery' = delivery \/ delivery' = [delivery EXCEPT ![d] = AfterNotify(d)]
         /\ \A n \in notifying' : n.d = d
<1> DEFINE full == {k \in 1..Len(todo) : Predicate(todo[k], d) /\ ~Room(todo[k])}
           reached == IF full = {} THEN Len(todo) ELSE Min(full) - 1
           passed == {todo[k] : k \in 1..reached}
<1>1. /\ buffer' = [h \in Headers |-> IF h \in passed /\ Predicate(h, d)
                                      THEN Append(buffer[h], d) ELSE buffer[h]]
      /\ notifying' = IF full = {} THEN {}
                      ELSE {[d |-> d, todo |-> SubSeq(todo, reached + 1, Len(todo))]}
      /\ delivery' = IF full = {} THEN [delivery EXCEPT ![d] = AfterNotify(d)] ELSE delivery
  BY DEF NotifyLoop
<1> HIDE DEF full, reached, passed
<1>2. \A h, e : Predicate(h, e) <=> SameBlock(h, e)
  BY DEF Predicate, SameBlock
<1>3. ASSUME NEW h \in Headers
      PROVE  /\ buffer'[h] \in Seq(Deliveries)
             /\ \/ buffer'[h] = buffer[h]
                \/ SameBlock(h, d) /\ buffer'[h] = Append(buffer[h], d)
  <2>1. buffer[h] \in Seq(Deliveries)
    BY DEF Domains
  <2> QED BY <1>1, <1>2, <2>1, SMT
<1>4. buffer' \in [Headers -> Seq(Deliveries)]
  <2>1. buffer' = [h \in Headers |-> buffer'[h]]
    BY <1>1
  <2> QED BY <1>3, <2>1
<1>5. \A n \in notifying' : n.d = d
  BY <1>1, SMT
<1>6. delivery' = delivery \/ delivery' = [delivery EXCEPT ![d] = AfterNotify(d)]
  BY <1>1
<1> QED BY <1>3, <1>4, <1>5, <1>6

\* The delivery after its broadcast is well-formed.
LEMMA AfterNotifyType ==
  ASSUME Domains, NEW d \in Deliveries
  PROVE  AfterNotify(d) \in [pc : DeliveryPcs, at : Nat]
<1>1. delivery[d] \in [pc : DeliveryPcs, at : Nat] /\ clock + Rebroadcast \in Nat
  BY AttestorAssumption, SMT DEF Domains
<1> QED BY <1>1 DEF AfterNotify, DeliveryPcs

\* A broadcast, as seen from the channels, the block and the lock.
LEMMA BroadcastEffect ==
  ASSUME Domains, NEW d \in Deliveries,
         \/ Notify(d)
         \/ \E n \in notifying : n.d = d /\ NotifyGoesOn(n)
  PROVE  /\ buffer' \in [Headers -> Seq(Deliveries)]
         /\ \A h \in Headers : \/ buffer'[h] = buffer[h]
                               \/ SameBlock(h, d) /\ buffer'[h] = Append(buffer[h], d)
         /\ delivery' = delivery \/ delivery' = [delivery EXCEPT ![d] = AfterNotify(d)]
         /\ delivery' \in [Deliveries -> [pc : DeliveryPcs, at : Nat]]
         /\ \A n \in notifying' : n.d \in Deliveries
         /\ UNCHANGED <<clock, done, header, subscribers, known, sent>>
<1>1. UNCHANGED <<clock, done, header, subscribers, known, sent>>
  BY DEF Notify, NotifyGoesOn
<1>2. \/ \E todo : NotifyLoop(d, todo)
      \/ delivery' = [delivery EXCEPT ![d] = AfterNotify(d)] /\ UNCHANGED <<buffer, notifying>>
  BY DEF Notify, NotifyGoesOn
<1>3. AfterNotify(d) \in [pc : DeliveryPcs, at : Nat]
  BY AfterNotifyType
<1>4. /\ buffer' \in [Headers -> Seq(Deliveries)]
      /\ \A h \in Headers : \/ buffer'[h] = buffer[h]
                            \/ SameBlock(h, d) /\ buffer'[h] = Append(buffer[h], d)
      /\ delivery' = delivery \/ delivery' = [delivery EXCEPT ![d] = AfterNotify(d)]
      /\ \A n \in notifying' : n.d \in Deliveries
  <2>1. CASE \E todo : NotifyLoop(d, todo)
    BY <2>1, LoopEffect
  <2>2. CASE delivery' = [delivery EXCEPT ![d] = AfterNotify(d)] /\ UNCHANGED <<buffer, notifying>>
    BY <2>2 DEF Domains
  <2> QED BY <1>2, <2>1, <2>2
<1>5. delivery' \in [Deliveries -> [pc : DeliveryPcs, at : Nat]]
  BY <1>3, <1>4 DEF Domains
<1> QED BY <1>1, <1>4, <1>5

\* The goroutine of a header goes on to pc, with since and da.
LEMMA HeaderGoes ==
  ASSUME NEW f \in [Headers -> [pc : HeaderPcs, since : Nat, da : Das]],
         NEW h \in Headers, NEW place \in HeaderPcs, NEW since \in Nat, NEW da \in Das
  PROVE  /\ [f EXCEPT ![h].pc = place] \in [Headers -> [pc : HeaderPcs, since : Nat, da : Das]]
         /\ [f EXCEPT ![h].pc = place, ![h].since = since]
              \in [Headers -> [pc : HeaderPcs, since : Nat, da : Das]]
         /\ [f EXCEPT ![h].pc = place, ![h].da = da]
              \in [Headers -> [pc : HeaderPcs, since : Nat, da : Das]]
OBVIOUS

\* A block's goroutine goes on to pc.
LEMMA DeliveryGoes ==
  ASSUME NEW f \in [Deliveries -> [pc : DeliveryPcs, at : Nat]],
         NEW d \in Deliveries, NEW place \in DeliveryPcs
  PROVE  [f EXCEPT ![d].pc = place] \in [Deliveries -> [pc : DeliveryPcs, at : Nat]]
OBVIOUS

\* The steps of the attestor, by the goroutine that takes them.
LEMMA AttestorCases ==
  ASSUME Domains, [AttestorNext]_attestorVars
  PROVE  \/ \E h \in Headers : \/ Subscribe(h) \/ FindMQBlock(h)
                               \/ MissMQBlock(h) \/ HeaderReturns(h) \/ ReceiveHeader(h)
                               \/ Unsubscribe(h) \/ SendSignedRoot(h)
         \/ \E d \in Deliveries : \/ Notify(d) \/ \E n \in notifying : n.d = d /\ NotifyGoesOn(n)
                                  \/ Renotify(d) \/ RebroadcastReturns(d) \/ ReceiveBlock(d)
         \/ Cancel \/ Tick(TRUE) \/ UNCHANGED attestorVars
<1>1. \A n \in notifying : n.d \in Deliveries
  BY DEF Domains
<1> QED BY <1>1 DEF AttestorNext, AttestorStep

\* The state stays well-formed.
LEMMA DomainsNext ==
  ASSUME Domains, [AttestorNext]_attestorVars
  PROVE  Domains'
<1>0. /\ header \in [Headers -> [pc : HeaderPcs, since : Nat, da : Das]]
      /\ delivery \in [Deliveries -> [pc : DeliveryPcs, at : Nat]]
      /\ clock \in Nat /\ NoDa \in Das
      /\ {"subscribe", "wait", "offer", "unsubscribe", "done"} \subseteq HeaderPcs
      /\ {"notify", "renotify", "done"} \subseteq DeliveryPcs
  BY DEF Domains, Das, HeaderPcs, DeliveryPcs
<1>1. ASSUME NEW h \in Headers, Subscribe(h)
      PROVE  Domains'
  <2>1. h.rollup \in Rollups
    BY DEF Rollups
  <2>2. header' \in [Headers -> [pc : HeaderPcs, since : Nat, da : Das]]
    <3>1. header' = [header EXCEPT ![h].pc = "wait", ![h].since = clock]
      BY <1>1 DEF Subscribe
    <3> QED BY <1>0, <3>1, HeaderGoes
  <2>3. subscribers' \in [Rollups -> Seq(Headers)] /\ known' \subseteq Rollups
    BY <1>1, <2>1, SMT DEF Subscribe, Domains
  <2> QED BY <1>1, <2>2, <2>3 DEF Subscribe, Domains
<1>2. ASSUME NEW h \in Headers, FindMQBlock(h)
      PROVE  Domains'
  <2>1. buffer[h] \in Seq(Deliveries) /\ buffer[h] # <<>>
    BY <1>2 DEF FindMQBlock, Domains
  <2>2. Head(buffer[h]) \in Deliveries /\ Tail(buffer[h]) \in Seq(Deliveries)
    BY <2>1, SMT
  <2>3. Head(buffer[h]).da \in Das
    BY <2>2 DEF Das
  <2>4. buffer' \in [Headers -> Seq(Deliveries)]
    BY <1>2, <2>2 DEF FindMQBlock, Domains
  <2>5. header' \in [Headers -> [pc : HeaderPcs, since : Nat, da : Das]]
    <3>1. header' = [header EXCEPT ![h].pc = "offer", ![h].da = Head(buffer[h]).da]
      BY <1>2 DEF FindMQBlock
    <3> QED BY <1>0, <2>3, <3>1, HeaderGoes
  <2> QED BY <1>2, <2>4, <2>5 DEF FindMQBlock, Domains
<1>3. ASSUME NEW h \in Headers, MissMQBlock(h) \/ HeaderReturns(h) \/ ReceiveHeader(h)
      PROVE  Domains'
  <2>1. PICK place \in HeaderPcs : header' = [header EXCEPT ![h].pc = place]
    BY <1>0, <1>3 DEF MissMQBlock, HeaderReturns, ReceiveHeader
  <2>2. header' \in [Headers -> [pc : HeaderPcs, since : Nat, da : Das]]
    BY <1>0, <2>1, HeaderGoes
  <2>3. UNCHANGED <<clock, buffer, subscribers, known, delivery, notifying, sent>>
    BY <1>3 DEF MissMQBlock, HeaderReturns, ReceiveHeader
  <2> QED BY <2>2, <2>3 DEF Domains
<1>4. ASSUME NEW h \in Headers, Unsubscribe(h)
      PROVE  Domains'
  <2>1. PICK k \in 1..Len(subscribers[h.rollup]) :
          subscribers' = [subscribers EXCEPT ![h.rollup] = Remove(@, k)]
    BY <1>4 DEF Unsubscribe
  <2>2. h.rollup \in Rollups /\ subscribers[h.rollup] \in Seq(Headers)
    BY DEF Rollups, Domains
  <2>3. Remove(subscribers[h.rollup], k) \in Seq(Headers)
    BY <2>2, RemovedFromList
  <2>4. subscribers' \in [Rollups -> Seq(Headers)]
    BY <2>1, <2>2, <2>3 DEF Domains
  <2>5. header' = [header EXCEPT ![h].pc = "done"] /\ buffer' = [buffer EXCEPT ![h] = <<>>]
    BY <1>4 DEF Unsubscribe
  <2>6. header' \in [Headers -> [pc : HeaderPcs, since : Nat, da : Das]]
    BY <1>0, <2>5, HeaderGoes
  <2>7. buffer' \in [Headers -> Seq(Deliveries)]
    BY <2>5, SMT DEF Domains
  <2> QED BY <1>4, <2>4, <2>6, <2>7 DEF Unsubscribe, Domains
<1>5. ASSUME NEW d \in Deliveries, Notify(d) \/ \E n \in notifying : n.d = d /\ NotifyGoesOn(n)
      PROVE  Domains'
  BY <1>5, BroadcastEffect DEF Domains
<1>6. ASSUME NEW d \in Deliveries, Renotify(d) \/ RebroadcastReturns(d) \/ ReceiveBlock(d)
      PROVE  Domains'
  <2>1. PICK place \in DeliveryPcs : delivery' = [delivery EXCEPT ![d].pc = place]
    BY <1>0, <1>6 DEF Renotify, RebroadcastReturns, ReceiveBlock
  <2>2. delivery' \in [Deliveries -> [pc : DeliveryPcs, at : Nat]]
    BY <1>0, <2>1, DeliveryGoes
  <2>3. UNCHANGED <<clock, header, buffer, subscribers, known, notifying, sent>>
    BY <1>6 DEF Renotify, RebroadcastReturns, ReceiveBlock
  <2> QED BY <2>2, <2>3 DEF Domains
<1>7. ASSUME NEW h \in Headers, SendSignedRoot(h)
      PROVE  Domains'
  <2>1. [header |-> h, da |-> header[h].da] \in [header : Headers, da : Das]
    BY <1>0
  <2>2. header' = [header EXCEPT ![h].pc = "unsubscribe"]
    BY <1>7 DEF SendSignedRoot
  <2>3. header' \in [Headers -> [pc : HeaderPcs, since : Nat, da : Das]]
    BY <1>0, <2>2, HeaderGoes
  <2> QED BY <1>7, <2>1, <2>3 DEF SendSignedRoot, Domains
<1>8. CASE Cancel \/ Tick(TRUE) \/ UNCHANGED attestorVars
  <2>1. /\ clock' \in Nat
        /\ UNCHANGED <<header, buffer, subscribers, known, delivery, notifying, sent>>
    <3>1. /\ clock' = clock \/ clock' = clock + 1
          /\ UNCHANGED <<header, buffer, subscribers, known, delivery, notifying, sent>>
      BY <1>8 DEF Cancel, Tick, attestorVars, goroutines
    <3> QED BY <1>0, <3>1, SMT
  <2> QED BY <2>1 DEF Domains
<1> QED BY <1>1, <1>2, <1>3, <1>4, <1>5, <1>6, <1>7, <1>8, AttestorCases

\* What a channel holds, what a goroutine took and what was signed stay of the
\* header's block: a block is put in a channel only after the predicate.
LEMMA OwnBlocksNext ==
  ASSUME Domains, OwnBlocks, SignedWithItsBlock, [AttestorNext]_attestorVars
  PROVE  OwnBlocks' /\ SignedWithItsBlock'
<1>1. ASSUME NEW h \in Headers, FindMQBlock(h)
      PROVE  OwnBlocks' /\ SignedWithItsBlock'
  <2>1. buffer[h] \in Seq(Deliveries) /\ buffer[h] # <<>>
    BY <1>1 DEF FindMQBlock, Domains
  <2>2. /\ Head(buffer[h]) = buffer[h][1] /\ 1 \in 1..Len(buffer[h])
        /\ Head(buffer[h]) \in Deliveries
        /\ \A k \in 1..Len(Tail(buffer[h])) : 
             k + 1 \in 1..Len(buffer[h]) /\ Tail(buffer[h])[k] = buffer[h][k + 1]
    BY <2>1, SMT
  <2>3. SameBlock(h, Head(buffer[h]))
    BY <2>2 DEF OwnBlocks
  <2>4. \A k \in 1..Len(Tail(buffer[h])) : SameBlock(h, Tail(buffer[h])[k])
    BY <2>2 DEF OwnBlocks
  <2>5. /\ buffer' = [buffer EXCEPT ![h] = Tail(@)] /\ UNCHANGED sent
        /\ header' = [header EXCEPT ![h].pc = "offer", ![h].da = Head(buffer[h]).da]
    BY <1>1 DEF FindMQBlock
  <2>6. ASSUME NEW g \in Headers
        PROVE  /\ \A k \in 1..Len(buffer'[g]) : SameBlock(g, buffer'[g][k])
               /\ header'[g].da # NoDa =>
                    \E d \in Deliveries : SameBlock(g, d) /\ header'[g].da = d.da
    <3>1. CASE g = h
      <4>1. buffer'[g] = Tail(buffer[h]) /\ header'[g].da = Head(buffer[h]).da
        BY <2>5, <3>1 DEF Domains
      <4> QED BY <4>1, <2>2, <2>3, <2>4, <3>1
    <3>2. CASE g # h
      <4>1. buffer'[g] = buffer[g] /\ header'[g] = header[g]
        BY <2>5, <3>2 DEF Domains
      <4> QED BY <4>1 DEF OwnBlocks
    <3> QED BY <3>1, <3>2
  <2> QED BY <2>5, <2>6 DEF OwnBlocks, SameBlock, SignedWithItsBlock
<1>2. ASSUME NEW h \in Headers,
             \/ Subscribe(h) \/ MissMQBlock(h) \/ HeaderReturns(h) \/ ReceiveHeader(h)
             \/ Unsubscribe(h) \/ SendSignedRoot(h)
      PROVE  OwnBlocks' /\ SignedWithItsBlock'
  <2>1. \A g \in Headers : header'[g].da = header[g].da
    <3>1. header \in [Headers -> [pc : HeaderPcs, since : Nat, da : Das]]
      BY DEF Domains
    <3>2. CASE Subscribe(h)
      BY <3>1, <3>2 DEF Subscribe
    <3>3. CASE ~Subscribe(h)
      <4>1. \E place : header' = [header EXCEPT ![h].pc = place]
        BY <1>2, <3>3 DEF MissMQBlock, HeaderReturns, ReceiveHeader, Unsubscribe,
                                 SendSignedRoot
      <4> QED BY <3>1, <4>1, SMT
    <3> QED BY <3>2, <3>3
  <2>2. \A g \in Headers : buffer'[g] = buffer[g] \/ buffer'[g] = <<>>
    <3>1. buffer' = buffer \/ buffer' = [buffer EXCEPT ![h] = <<>>]
      BY <1>2 DEF Subscribe, MissMQBlock, HeaderReturns, ReceiveHeader, Unsubscribe,
                         SendSignedRoot
    <3> QED BY <3>1 DEF Domains
  <2>3. ASSUME NEW g \in Headers
        PROVE  \A k \in 1..Len(buffer'[g]) : SameBlock(g, buffer'[g][k])
    BY <2>2, SMT DEF OwnBlocks
  <2>4. OwnBlocks'
    BY <2>1, <2>3, SMT DEF OwnBlocks, SameBlock
  <2>5. sent' = sent \/ sent' = sent \cup {[header |-> h, da |-> header[h].da]}
    BY <1>2 DEF Subscribe, MissMQBlock, HeaderReturns, ReceiveHeader, Unsubscribe,
                SendSignedRoot
  <2>6. header[h].da # NoDa => \E d \in Deliveries : SameBlock(h, d) /\ header[h].da = d.da
    BY DEF OwnBlocks
  <2>7. SignedWithItsBlock'
    BY <2>5, <2>6, SMT DEF SignedWithItsBlock, SameBlock
  <2> QED BY <2>4, <2>7
<1>3. ASSUME NEW e \in Deliveries, Notify(e) \/ \E n \in notifying : n.d = e /\ NotifyGoesOn(n)
      PROVE  OwnBlocks' /\ SignedWithItsBlock'
  <2>1. /\ \A h \in Headers : \/ buffer'[h] = buffer[h]
                              \/ SameBlock(h, e) /\ buffer'[h] = Append(buffer[h], e)
        /\ UNCHANGED <<header, sent>>
    BY <1>3, BroadcastEffect
  <2>2. ASSUME NEW h \in Headers
        PROVE  \A k \in 1..Len(buffer'[h]) : SameBlock(h, buffer'[h][k])
    <3>1. CASE buffer'[h] = buffer[h]
      BY <3>1 DEF OwnBlocks
    <3>2. CASE SameBlock(h, e) /\ buffer'[h] = Append(buffer[h], e)
      <4>1. buffer[h] \in Seq(Deliveries)
        BY DEF Domains
      <4>2. \A k \in 1..Len(Append(buffer[h], e)) :
              \/ k \in 1..Len(buffer[h]) /\ Append(buffer[h], e)[k] = buffer[h][k]
              \/ Append(buffer[h], e)[k] = e
        BY <4>1, SMT
      <4> QED BY <3>2, <4>2 DEF OwnBlocks
    <3> QED BY <2>1, <3>1, <3>2
  <2> QED BY <2>1, <2>2 DEF OwnBlocks, SameBlock, SignedWithItsBlock
<1>4. CASE \/ \E d \in Deliveries : Renotify(d) \/ RebroadcastReturns(d) \/ ReceiveBlock(d)
           \/ Cancel \/ Tick(TRUE) \/ UNCHANGED attestorVars
  <2>1. UNCHANGED <<header, buffer, sent>>
    BY <1>4 DEF Renotify, RebroadcastReturns, ReceiveBlock, Cancel, Tick, attestorVars, goroutines
  <2> QED BY <2>1 DEF OwnBlocks, SameBlock, SignedWithItsBlock
<1> QED BY <1>1, <1>2, <1>3, <1>4, AttestorCases

\* It starts so.
LEMMA AttestorInitOwn == AttestorInit => Domains /\ OwnBlocks /\ SignedWithItsBlock
<1> SUFFICES ASSUME AttestorInit PROVE Domains /\ OwnBlocks /\ SignedWithItsBlock
  OBVIOUS
<1>1. NoHeader \in [pc : HeaderPcs, since : Nat, da : Das]
  BY DEF NoHeader, HeaderPcs, Das
<1>2. NoDelivery \in [pc : DeliveryPcs, at : Nat]
  BY DEF NoDelivery, DeliveryPcs
<1>3. Domains
  BY <1>1, <1>2, SMT DEF AttestorInit, Domains
<1>4. \A h \in Headers : buffer[h] = <<>> /\ header[h].da = NoDa
  BY DEF AttestorInit, NoHeader
<1> QED BY <1>3, <1>4, SMT DEF AttestorInit, OwnBlocks, SignedWithItsBlock

\* An operator signs a state root with the NEAR DA transaction and commitment of a
\* block of the same rollup, height and root, or with none, whatever the buffers, the
\* timeouts and the order of headers, blocks and broadcasts.
THEOREM SignedWithItsBlockHolds == NodeSpec => []SignedWithItsBlock
<1> DEFINE J == Domains /\ OwnBlocks /\ SignedWithItsBlock
<1>1. NodeInit => J
  BY AttestorInitOwn DEF NodeInit
<1>2. J /\ [NodeNext]_nodeVars => J'
  BY NodeIsAttestor, DomainsNext, OwnBlocksNext
<1>3. J => SignedWithItsBlock
  OBVIOUS
<1> QED BY <1>1, <1>2, <1>3, PTL DEF NodeSpec

-----------------------------------------------------------------------------
(* Notify does not wait *)

\* The blocks of a header are delivered at most half as often as its channel holds
\* (100 in the code): each delivery is broadcast twice.
FewDeliveries ==
  \A h \in Headers : IsFiniteSet(BlocksOf(h)) /\ 2 * Cardinality(BlocksOf(h)) <= Buffer

\* The sets that BuffersBounded counts.
LEMMA CountedFinite ==
  ASSUME FewDeliveries, NEW h \in Headers
  PROVE  /\ IsFiniteSet(OnceOf(h)) /\ IsFiniteSet(TwiceOf(h))
         /\ Cardinality(OnceOf(h)) \in Nat /\ Cardinality(TwiceOf(h)) \in Nat
         /\ Cardinality(BlocksOf(h)) \in Nat
         /\ Cardinality(OnceOf(h)) <= Cardinality(BlocksOf(h))
         /\ Cardinality(TwiceOf(h)) <= Cardinality(BlocksOf(h))
<1>1. IsFiniteSet(BlocksOf(h))
  BY DEF FewDeliveries
<1>2. OnceOf(h) \subseteq BlocksOf(h) /\ TwiceOf(h) \subseteq BlocksOf(h)
  BY DEF OnceOf, TwiceOf
<1> QED BY <1>1, <1>2, FS_Subset, FS_CardinalityType

\* A set without one of the elements of another is smaller.
LEMMA Fewer ==
  ASSUME NEW S, NEW T, IsFiniteSet(S), T \subseteq S, NEW x \in S, x \notin T
  PROVE  Cardinality(T) <= Cardinality(S) - 1
<1>1. IsFiniteSet(S \ {x}) /\ Cardinality(S \ {x}) = Cardinality(S) - 1
  BY FS_RemoveElement
<1>2. T \subseteq S \ {x}
  OBVIOUS
<1> QED BY <1>1, <1>2, FS_Subset, SMT

\* The channel of a header has room for each of its blocks that is about to be
\* broadcast.
LEMMA RoomForBlock ==
  ASSUME Domains, BuffersBounded, FewDeliveries, NEW h \in Headers, NEW d \in Deliveries,
         SameBlock(h, d), delivery[d].pc \in {"notify", "renotify"}
  PROVE  Room(h)
<1>1. d \in BlocksOf(h) /\ IsFiniteSet(BlocksOf(h)) /\ 2 * Cardinality(BlocksOf(h)) <= Buffer
  BY DEF BlocksOf, FewDeliveries
<1>2. OnceOf(h) \subseteq BlocksOf(h) /\ TwiceOf(h) \subseteq BlocksOf(h)
  BY DEF OnceOf, TwiceOf
<1>3. d \notin TwiceOf(h)
  BY DEF TwiceOf
<1>4. Cardinality(TwiceOf(h)) <= Cardinality(BlocksOf(h)) - 1
  BY <1>1, <1>2, <1>3, Fewer
<1>5. Len(buffer[h]) <= Cardinality(OnceOf(h)) + Cardinality(TwiceOf(h))
  BY DEF BuffersBounded
<1>6. Len(buffer[h]) \in Nat /\ Buffer \in Nat
  BY AttestorAssumption, SMT DEF Domains
<1> QED BY <1>1, <1>4, <1>5, <1>6, CountedFinite, SMT DEF Room

\* A broadcast is handed to every subscriber whose header it is of, and the lock is
\* released.
LEMMA NotifyAll ==
  ASSUME Domains, Unlocked, BuffersBounded, FewDeliveries, NEW d \in Deliveries, Notify(d)
  PROVE  /\ notifying' = {}
         /\ delivery' = [delivery EXCEPT ![d] = AfterNotify(d)]
         /\ \A h \in Headers :
              (/\ SameBlock(h, d) /\ d.rollup \in known
               /\ \E k \in 1..Len(subscribers[d.rollup]) : subscribers[d.rollup][k] = h)
                => buffer'[h] = Append(buffer[h], d)
<1>1. CASE d.rollup \notin known
  BY <1>1 DEF Notify, Unlocked
<1>2. CASE d.rollup \in known
  <2> DEFINE todo == subscribers[d.rollup]
             full == {k \in 1..Len(todo) : Predicate(todo[k], d) /\ ~Room(todo[k])}
             reached == IF full = {} THEN Len(todo) ELSE Min(full) - 1
             passed == {todo[k] : k \in 1..reached}
  <2>1. NotifyLoop(d, todo)
    BY <1>2 DEF Notify
  <2>2. /\ buffer' = [h \in Headers |-> IF h \in passed /\ Predicate(h, d)
                                        THEN Append(buffer[h], d) ELSE buffer[h]]
        /\ notifying' = IF full = {} THEN {}
                        ELSE {[d |-> d, todo |-> SubSeq(todo, reached + 1, Len(todo))]}
        /\ delivery' = IF full = {} THEN [delivery EXCEPT ![d] = AfterNotify(d)] ELSE delivery
    BY <2>1 DEF NotifyLoop
  <2>3. todo \in Seq(Headers)
    BY <1>2 DEF Domains
  <2>4. \A k \in 1..Len(todo) : todo[k] \in Headers
    BY <2>3, SMT
  <2>5. delivery[d].pc \in {"notify", "renotify"}
    BY DEF Notify
  <2>6. \A h \in Headers : Predicate(h, d) => Room(h)
    <3>1. \A h \in Headers : Predicate(h, d) => SameBlock(h, d)
      BY DEF Predicate, SameBlock
    <3> QED BY <3>1, <2>5, RoomForBlock
  <2>7. full = {}
    BY <2>4, <2>6
  <2>8. passed = {todo[k] : k \in 1..Len(todo)}
    BY <2>7
  <2> HIDE DEF todo, full, reached, passed
  <2>9. ASSUME NEW h \in Headers, SameBlock(h, d), \E k \in 1..Len(todo) : todo[k] = h
        PROVE  buffer'[h] = Append(buffer[h], d)
    <3>1. Predicate(h, d) /\ h \in passed
      BY <2>8, <2>9 DEF Predicate, SameBlock
    <3> QED BY <2>2, <3>1
  <2>10. notifying' = {} /\ delivery' = [delivery EXCEPT ![d] = AfterNotify(d)]
    BY <2>2, <2>7
  <2> QED BY <2>9, <2>10 DEF todo
<1> QED BY <1>1, <1>2

\* A step that takes nothing back from what was broadcast, and puts nothing in a
\* channel, keeps the bound.
LEMMA BoundStays ==
  ASSUME Domains, FewDeliveries, BuffersBounded,
         \A h \in Headers : /\ Len(buffer'[h]) \in Nat /\ Len(buffer'[h]) <= Len(buffer[h])
                            /\ OnceOf(h) \subseteq OnceOf(h)' /\ TwiceOf(h) \subseteq TwiceOf(h)'
  PROVE  BuffersBounded'
<1> SUFFICES ASSUME NEW h \in Headers
             PROVE  Len(buffer'[h]) <= Cardinality(OnceOf(h)') + Cardinality(TwiceOf(h)')
  BY DEF BuffersBounded
<1>1. OnceOf(h)' \subseteq BlocksOf(h) /\ TwiceOf(h)' \subseteq BlocksOf(h)
  BY DEF OnceOf, TwiceOf, BlocksOf, SameBlock
<1>2. IsFiniteSet(BlocksOf(h))
  BY DEF FewDeliveries
<1>3. IsFiniteSet(OnceOf(h)') /\ IsFiniteSet(TwiceOf(h)')
  BY <1>1, <1>2, FS_Subset
<1>4. /\ Cardinality(OnceOf(h)') \in Nat /\ Cardinality(TwiceOf(h)') \in Nat
      /\ Cardinality(OnceOf(h)) <= Cardinality(OnceOf(h)')
      /\ Cardinality(TwiceOf(h)) <= Cardinality(TwiceOf(h)')
  BY <1>3, FS_Subset, FS_CardinalityType
<1>5. Len(buffer[h]) <= Cardinality(OnceOf(h)) + Cardinality(TwiceOf(h))
  BY DEF BuffersBounded
<1>6. Len(buffer[h]) \in Nat
  BY SMT DEF Domains
<1> QED BY <1>4, <1>5, <1>6, CountedFinite, SMT

\* The bound over one broadcast.
LEMMA BoundNotify ==
  ASSUME Domains, Unlocked, FewDeliveries, BuffersBounded, NEW d \in Deliveries, Notify(d)
  PROVE  BuffersBounded'
<1> SUFFICES ASSUME NEW h \in Headers
             PROVE  Len(buffer'[h]) <= Cardinality(OnceOf(h)') + Cardinality(TwiceOf(h)')
  BY DEF BuffersBounded
<1>1. delivery' = [delivery EXCEPT ![d] = AfterNotify(d)]
  BY NotifyAll
<1>2. \/ buffer'[h] = buffer[h]
      \/ SameBlock(h, d) /\ buffer'[h] = Append(buffer[h], d)
  <2>1. \A g \in Headers : \/ buffer'[g] = buffer[g]
                           \/ SameBlock(g, d) /\ buffer'[g] = Append(buffer[g], d)
    BY BroadcastEffect
  <2> QED BY <2>1
<1>3. buffer[h] \in Seq(Deliveries)
  BY DEF Domains
<1>4. Len(buffer[h]) <= Cardinality(OnceOf(h)) + Cardinality(TwiceOf(h))
  BY DEF BuffersBounded
<1>5. delivery \in [Deliveries -> [pc : DeliveryPcs, at : Nat]]
  BY DEF Domains
<1>6. \A e \in Deliveries : e # d => delivery'[e] = delivery[e]
  BY <1>1, <1>5
<1>7. delivery'[d] = AfterNotify(d)
  BY <1>1, <1>5
<1>8. CASE ~SameBlock(h, d)
  <2>1. \A e \in BlocksOf(h) : delivery'[e] = delivery[e]
    BY <1>6, <1>8 DEF BlocksOf
  <2>2. OnceOf(h)' = OnceOf(h) /\ TwiceOf(h)' = TwiceOf(h)
    BY <2>1 DEF OnceOf, TwiceOf, BlocksOf, Broadcast, SameBlock
  <2> QED BY <1>2, <1>4, <1>8, <2>2
<1>9. CASE SameBlock(h, d) /\ delivery[d].pc = "notify"
  <2>1. d \in BlocksOf(h) /\ d \notin OnceOf(h)
    BY <1>9 DEF BlocksOf, OnceOf, Broadcast
  <2>2. delivery'[d].pc = "timer"
    BY <1>7, <1>9, SMT DEF AfterNotify
  <2>3. OnceOf(h)' = OnceOf(h) \cup {d}
    BY <1>6, <2>1, <2>2 DEF OnceOf, BlocksOf, Broadcast, SameBlock
  <2>4. TwiceOf(h)' = TwiceOf(h)
    BY <1>6, <1>9, <2>2 DEF TwiceOf, BlocksOf, SameBlock
  <2>5. Cardinality(OnceOf(h)') = Cardinality(OnceOf(h)) + 1
    BY <2>1, <2>3, CountedFinite, FS_AddElement
  <2>6. Len(buffer'[h]) <= Len(buffer[h]) + 1 /\ Len(buffer'[h]) \in Nat
    BY <1>2, <1>3, SMT
  <2>7. Len(buffer[h]) \in Nat
    BY <1>3, SMT
  <2> QED BY <1>4, <2>4, <2>5, <2>6, <2>7, CountedFinite, SMT
<1>10. CASE SameBlock(h, d) /\ delivery[d].pc = "renotify"
  <2>1. d \in BlocksOf(h) /\ d \notin TwiceOf(h) /\ d \in OnceOf(h)
    BY <1>10 DEF BlocksOf, OnceOf, TwiceOf, Broadcast
  <2>2. delivery'[d].pc = "done"
    BY <1>7, <1>10, SMT DEF AfterNotify
  <2>3. OnceOf(h)' = OnceOf(h)
    BY <1>6, <2>1, <2>2 DEF OnceOf, BlocksOf, Broadcast, SameBlock
  <2>4. TwiceOf(h)' = TwiceOf(h) \cup {d}
    BY <1>6, <2>1, <2>2 DEF TwiceOf, BlocksOf, SameBlock
  <2>5. Cardinality(TwiceOf(h)') = Cardinality(TwiceOf(h)) + 1
    BY <2>1, <2>4, CountedFinite, FS_AddElement
  <2>6. Len(buffer'[h]) <= Len(buffer[h]) + 1 /\ Len(buffer'[h]) \in Nat
    BY <1>2, <1>3, SMT
  <2>7. Len(buffer[h]) \in Nat
    BY <1>3, SMT
  <2> QED BY <1>4, <2>3, <2>5, <2>6, <2>7, CountedFinite, SMT
<1>11. delivery[d].pc \in {"notify", "renotify"}
  BY DEF Notify
<1> QED BY <1>8, <1>9, <1>10, <1>11

\* The lock is free after every step, and the channels stay within the bound.
LEMMA UnlockedNext ==
  ASSUME Domains, Unlocked, FewDeliveries, BuffersBounded, [AttestorNext]_attestorVars
  PROVE  Unlocked' /\ BuffersBounded'
<1>1. ASSUME UNCHANGED <<delivery, notifying>>,
             \A h \in Headers : Len(buffer'[h]) \in Nat /\ Len(buffer'[h]) <= Len(buffer[h])
      PROVE  Unlocked' /\ BuffersBounded'
  <2>1. \A h \in Headers : OnceOf(h)' = OnceOf(h) /\ TwiceOf(h)' = TwiceOf(h)
    BY <1>1 DEF OnceOf, TwiceOf, BlocksOf, Broadcast, SameBlock
  <2> QED BY <1>1, <2>1, BoundStays DEF Unlocked
<1>2. \A h \in Headers : buffer[h] \in Seq(Deliveries) /\ Len(buffer[h]) \in Nat
  BY SMT DEF Domains
<1>3. ASSUME NEW h \in Headers,
             \/ Subscribe(h) \/ FindMQBlock(h) \/ MissMQBlock(h) \/ HeaderReturns(h)
             \/ ReceiveHeader(h) \/ Unsubscribe(h) \/ SendSignedRoot(h)
      PROVE  Unlocked' /\ BuffersBounded'
  <2>1. /\ UNCHANGED <<delivery, notifying>>
        /\ \/ buffer' = buffer
           \/ buffer' = [buffer EXCEPT ![h] = <<>>]
           \/ buffer[h] # <<>> /\ buffer' = [buffer EXCEPT ![h] = Tail(@)]
    BY <1>3 DEF Subscribe, FindMQBlock, MissMQBlock, HeaderReturns, ReceiveHeader,
                       Unsubscribe, SendSignedRoot
  <2>2. buffer[h] # <<>> =>
          Len(Tail(buffer[h])) \in Nat /\ Len(Tail(buffer[h])) <= Len(buffer[h])
    BY <1>2, SMT
  <2>3. Len(<<>>) = 0
    OBVIOUS
  <2>4. ASSUME NEW g \in Headers
        PROVE  Len(buffer'[g]) \in Nat /\ Len(buffer'[g]) <= Len(buffer[g])
    <3>1. \/ buffer'[g] = buffer[g]
          \/ buffer'[g] = <<>>
          \/ g = h /\ buffer[h] # <<>> /\ buffer'[g] = Tail(buffer[h])
      BY <2>1 DEF Domains
    <3>2. CASE buffer'[g] = buffer[g]
      BY <1>2, <3>2, SMT
    <3>3. CASE buffer'[g] = <<>>
      BY <1>2, <2>3, <3>3, SMT
    <3>4. CASE g = h /\ buffer[h] # <<>> /\ buffer'[g] = Tail(buffer[h])
      BY <2>2, <3>4
    <3> QED BY <3>1, <3>2, <3>3, <3>4
  <2> QED BY <1>1, <2>1, <2>4
<1>4. ASSUME NEW d \in Deliveries, Notify(d)
      PROVE  Unlocked' /\ BuffersBounded'
  BY <1>4, NotifyAll, BoundNotify DEF Unlocked
<1>5. ASSUME NEW d \in Deliveries, Renotify(d) \/ RebroadcastReturns(d) \/ ReceiveBlock(d)
      PROVE  Unlocked' /\ BuffersBounded'
  <2>1. UNCHANGED <<buffer, notifying>>
    BY <1>5 DEF Renotify, RebroadcastReturns, ReceiveBlock
  <2>2. PICK place : /\ delivery' = [delivery EXCEPT ![d].pc = place]
                     /\ Broadcast(d) => place \in {"renotify", "done"}
                     /\ delivery[d].pc # "done"
    BY <1>5 DEF Renotify, RebroadcastReturns, ReceiveBlock, Broadcast
  <2>3. delivery \in [Deliveries -> [pc : DeliveryPcs, at : Nat]]
    BY DEF Domains
  <2>4. /\ delivery'[d].pc = place
        /\ \A e \in Deliveries : e # d => delivery'[e] = delivery[e]
    BY <2>2, <2>3
  <2>5. \A e \in Deliveries : /\ Broadcast(e) => Broadcast(e)'
                              /\ delivery[e].pc = "done" => delivery'[e].pc = "done"
    BY <2>2, <2>4 DEF Broadcast
  <2>6. \A h \in Headers : OnceOf(h) \subseteq OnceOf(h)' /\ TwiceOf(h) \subseteq TwiceOf(h)'
    BY <2>5 DEF OnceOf, TwiceOf, BlocksOf, SameBlock
  <2>7. \A h \in Headers : Len(buffer'[h]) \in Nat /\ Len(buffer'[h]) <= Len(buffer[h])
    BY <1>2, <2>1, SMT
  <2> QED BY <2>1, <2>6, <2>7, BoundStays DEF Unlocked
<1>6. CASE Cancel \/ Tick(TRUE) \/ UNCHANGED attestorVars
  <2>1. UNCHANGED <<buffer, delivery, notifying>>
    BY <1>6 DEF Cancel, Tick, attestorVars, goroutines
  <2>2. \A h \in Headers : Len(buffer'[h]) \in Nat /\ Len(buffer'[h]) <= Len(buffer[h])
    BY <1>2, <2>1, SMT
  <2> QED BY <1>1, <2>1, <2>2
<1>7. ~\E n \in notifying : NotifyGoesOn(n)
  BY DEF Unlocked
<1> QED BY <1>3, <1>4, <1>5, <1>6, <1>7, AttestorCases

\* The channels start empty and the lock free.
LEMMA AttestorInitUnlocked == FewDeliveries /\ AttestorInit => Unlocked /\ BuffersBounded
<1> SUFFICES ASSUME FewDeliveries, AttestorInit PROVE Unlocked /\ BuffersBounded
  OBVIOUS
<1>1. \A h \in Headers : Len(buffer[h]) = 0
  BY DEF AttestorInit
<1>2. ASSUME NEW h \in Headers
      PROVE  Len(buffer[h]) <= Cardinality(OnceOf(h)) + Cardinality(TwiceOf(h))
  BY <1>1, CountedFinite, SMT
<1> QED BY <1>2 DEF AttestorInit, Unlocked, BuffersBounded

\* When no header's block is delivered more often than half its channel holds, Notify
\* never waits on a full channel with notifierLock held, so that no subscriber and no
\* broadcast waits for the lock for longer than a step.
THEOREM NotifyNeverWaits ==
  ASSUME FewDeliveries
  PROVE  NodeSpec => []Unlocked
<1> DEFINE J == Domains /\ Unlocked /\ BuffersBounded
<1>1. NodeInit => J
  BY AttestorInitOwn, AttestorInitUnlocked DEF NodeInit
<1>2. J /\ [NodeNext]_nodeVars => J'
  BY NodeIsAttestor, DomainsNext, UnlockedNext
<1>3. J => Unlocked
  OBVIOUS
<1> QED BY <1>1, <1>2, <1>3, PTL DEF NodeSpec

-----------------------------------------------------------------------------
(* A block that came in time is found *)

\* A step of the goroutine of h touches no other goroutine of a header.
LEMMA HeaderStep ==
  ASSUME Domains, NEW h \in Headers,
         \/ Subscribe(h) \/ FindMQBlock(h) \/ MissMQBlock(h) \/ HeaderReturns(h)
         \/ ReceiveHeader(h) \/ Unsubscribe(h) \/ SendSignedRoot(h)
  PROVE  /\ UNCHANGED <<clock, done, delivery, notifying>>
         /\ \A g \in Headers : g # h => header'[g] = header[g] /\ buffer'[g] = buffer[g]
<1>1. UNCHANGED <<clock, done, delivery, notifying>>
  BY DEF Subscribe, FindMQBlock, MissMQBlock, HeaderReturns, ReceiveHeader, Unsubscribe,
               SendSignedRoot
<1>2. header \in [Headers -> [pc : HeaderPcs, since : Nat, da : Das]]
      /\ buffer \in [Headers -> Seq(Deliveries)]
  BY DEF Domains
<1>3. \A g \in Headers : g # h => header'[g] = header[g]
  <2>1. CASE Subscribe(h) \/ FindMQBlock(h)
    BY <1>2, <2>1 DEF Subscribe, FindMQBlock
  <2>2. CASE ~(Subscribe(h) \/ FindMQBlock(h))
    <3>1. \E place : header' = [header EXCEPT ![h].pc = place]
      BY <2>2 DEF MissMQBlock, HeaderReturns, ReceiveHeader, Unsubscribe, SendSignedRoot
    <3> QED BY <1>2, <3>1
  <2> QED BY <2>1, <2>2
<1>4. \A g \in Headers : g # h => buffer'[g] = buffer[g]
  <2>1. buffer' = buffer \/ \E b : buffer' = [buffer EXCEPT ![h] = b]
    BY DEF Subscribe, FindMQBlock, MissMQBlock, HeaderReturns, ReceiveHeader, Unsubscribe,
                 SendSignedRoot
  <2> QED BY <1>2, <2>1
<1> QED BY <1>1, <1>3, <1>4

\* A step of the goroutine of a block, apart from its broadcasts.
LEMMA DeliveryStep ==
  ASSUME Domains, NEW d \in Deliveries, Renotify(d) \/ RebroadcastReturns(d) \/ ReceiveBlock(d)
  PROVE  /\ UNCHANGED <<clock, done, header, buffer, subscribers, known, notifying, sent>>
         /\ \A e \in Deliveries : e # d => delivery'[e] = delivery[e]
         /\ delivery'[d].at = delivery[d].at
         /\ \/ delivery[d].pc = "none" /\ delivery'[d].pc = "notify"
            \/ /\ delivery[d].pc = "timer" /\ delivery'[d].pc = "renotify"
               /\ clock >= delivery[d].at
            \/ delivery[d].pc = "timer" /\ delivery'[d].pc = "done" /\ done
<1>1. delivery \in [Deliveries -> [pc : DeliveryPcs, at : Nat]]
  BY DEF Domains
<1>2. UNCHANGED <<clock, done, header, buffer, subscribers, known, notifying, sent>>
  BY DEF Renotify, RebroadcastReturns, ReceiveBlock
<1>3. CASE Renotify(d)
  BY <1>1, <1>2, <1>3 DEF Renotify
<1>4. CASE RebroadcastReturns(d)
  BY <1>1, <1>2, <1>4 DEF RebroadcastReturns
<1>5. CASE ReceiveBlock(d)
  BY <1>1, <1>2, <1>5 DEF ReceiveBlock
<1> QED BY <1>3, <1>4, <1>5

\* A broadcast, when Notify does not wait.
LEMMA NotifyStep ==
  ASSUME Domains, Unlocked, BuffersBounded, FewDeliveries, Listed,
         NEW d \in Deliveries, Notify(d)
  PROVE  /\ UNCHANGED <<clock, done, header, subscribers, known, notifying, sent>>
         /\ \A e \in Deliveries : e # d => delivery'[e] = delivery[e]
         /\ \/ /\ delivery[d].pc = "notify" /\ delivery'[d].pc = "timer"
               /\ delivery'[d].at = clock + Rebroadcast
            \/ /\ delivery[d].pc = "renotify" /\ delivery'[d].pc = "done"
               /\ delivery'[d].at = delivery[d].at
         /\ \A h \in Headers : buffer[h] # <<>> => buffer'[h] # <<>>
         /\ \A h \in Headers : header[h].pc = "wait" /\ SameBlock(h, d) => buffer'[h] # <<>>
<1>1. /\ notifying' = {} /\ delivery' = [delivery EXCEPT ![d] = AfterNotify(d)]
      /\ \A h \in Headers :
              (/\ SameBlock(h, d) /\ d.rollup \in known
               /\ \E k \in 1..Len(subscribers[d.rollup]) : subscribers[d.rollup][k] = h)
                => buffer'[h] = Append(buffer[h], d)
  BY NotifyAll
<1>2. UNCHANGED <<clock, done, header, subscribers, known, notifying, sent>>
  BY <1>1 DEF Notify, Unlocked
<1>3. delivery[d].pc \in {"notify", "renotify"}
  BY DEF Notify
<1>4. delivery'[d] = AfterNotify(d) /\ \A e \in Deliveries : e # d => delivery'[e] = delivery[e]
  BY <1>1 DEF Domains
<1>5. ASSUME NEW h \in Headers
      PROVE  Append(buffer[h], d) # <<>>
  <2>1. buffer[h] \in Seq(Deliveries)
    BY DEF Domains
  <2> QED BY <2>1, SMT
<1>6. \A h \in Headers : buffer[h] # <<>> => buffer'[h] # <<>>
  <2>1. \A h \in Headers : \/ buffer'[h] = buffer[h]
                           \/ SameBlock(h, d) /\ buffer'[h] = Append(buffer[h], d)
    BY BroadcastEffect
  <2> QED BY <1>5, <2>1
<1>7. ASSUME NEW h \in Headers, header[h].pc = "wait", SameBlock(h, d)
      PROVE  buffer'[h] # <<>>
  <2>1. h.rollup = d.rollup
    BY <1>7 DEF SameBlock
  <2>2. d.rollup \in known /\ \E k \in 1..Len(subscribers[d.rollup]) : subscribers[d.rollup][k] = h
    BY <1>7, <2>1 DEF Listed
  <2> QED BY <1>1, <1>5, <1>7, <2>2
<1>8. \/ /\ delivery[d].pc = "notify" /\ delivery'[d].pc = "timer"
         /\ delivery'[d].at = clock + Rebroadcast
      \/ /\ delivery[d].pc = "renotify" /\ delivery'[d].pc = "done"
         /\ delivery'[d].at = delivery[d].at
  BY <1>3, <1>4, SMT DEF AfterNotify
<1> QED BY <1>2, <1>4, <1>6, <1>7, <1>8

\* A goroutine stays on its list until Unsubscribe.
LEMMA ListedNext ==
  ASSUME Domains, Unlocked, Listed, [AttestorNext]_attestorVars
  PROVE  Listed'
<1> DEFINE On(g) == \E k \in 1..Len(subscribers[g.rollup]) : subscribers[g.rollup][k] = g
           Live(g) == header[g].pc \in {"wait", "offer", "unsubscribe"}
<1>1. ASSUME UNCHANGED <<known, subscribers>>, \A g \in Headers : Live(g)' => Live(g)
      PROVE  Listed'
  BY <1>1 DEF Listed
<1>2. \A g \in Headers : g.rollup \in Rollups /\ subscribers[g.rollup] \in Seq(Headers)
  BY DEF Rollups, Domains
<1>3. ASSUME NEW h \in Headers, Subscribe(h)
      PROVE  Listed'
  <2>1. /\ known' = known \cup {h.rollup}
        /\ subscribers' = [subscribers EXCEPT ![h.rollup] = Append(@, h)]
    BY <1>3 DEF Subscribe
  <2>2. \A g \in Headers : g # h => header'[g] = header[g]
    BY <1>3, HeaderStep
  <2>3. ASSUME NEW g \in Headers, header'[g].pc \in {"wait", "offer", "unsubscribe"}
        PROVE  /\ g.rollup \in known'
               /\ \E k \in 1..Len(subscribers'[g.rollup]) : subscribers'[g.rollup][k] = g
    <3>1. CASE g = h
      <4>1. subscribers'[g.rollup] = Append(subscribers[g.rollup], g)
        BY <1>2, <2>1, <3>1 DEF Domains
      <4> QED BY <1>2, <2>1, <3>1, <4>1, SMT
    <3>2. CASE g # h
      <4>1. g.rollup \in known
        BY <2>2, <2>3, <3>2 DEF Listed
      <4>2. PICK k \in 1..Len(subscribers[g.rollup]) : subscribers[g.rollup][k] = g
        BY <2>2, <2>3, <3>2 DEF Listed
      <4>3. \/ subscribers'[g.rollup] = subscribers[g.rollup]
            \/ subscribers'[g.rollup] = Append(subscribers[g.rollup], h)
        BY <1>2, <2>1 DEF Domains
      <4>4. subscribers[g.rollup] \in Seq(Headers)
        BY <1>2
      <4>5. k \in 1..Len(subscribers'[g.rollup]) /\ subscribers'[g.rollup][k] = g
        BY <4>2, <4>3, <4>4, SMT
      <4> QED BY <2>1, <4>1, <4>5
    <3> QED BY <3>1, <3>2
  <2> QED BY <2>3 DEF Listed
<1>4. ASSUME NEW h \in Headers, Unsubscribe(h)
      PROVE  Listed'
  <2>1. PICK y \in 1..Len(subscribers[h.rollup]) :
          /\ subscribers[h.rollup][y] = h
          /\ subscribers' = [subscribers EXCEPT ![h.rollup] = Remove(@, y)]
    BY <1>4 DEF Unsubscribe
  <2>2. header'[h].pc = "done" /\ known' = known
    BY <1>4 DEF Unsubscribe, Domains
  <2>3. \A g \in Headers : g # h => header'[g] = header[g]
    BY <1>4, HeaderStep
  <2>4. ASSUME NEW g \in Headers, header'[g].pc \in {"wait", "offer", "unsubscribe"}
        PROVE  /\ g.rollup \in known'
               /\ \E k \in 1..Len(subscribers'[g.rollup]) : subscribers'[g.rollup][k] = g
    <3>1. g # h
      BY <2>2, <2>4
    <3>2. g.rollup \in known
      BY <2>3, <2>4, <3>1 DEF Listed
    <3>3. PICK x \in 1..Len(subscribers[g.rollup]) : subscribers[g.rollup][x] = g
      BY <2>3, <2>4, <3>1 DEF Listed
    <3>4. CASE g.rollup # h.rollup
      <4>1. subscribers'[g.rollup] = subscribers[g.rollup]
        BY <1>2, <2>1, <3>4 DEF Domains
      <4> QED BY <2>2, <3>2, <3>3, <4>1
    <3>5. CASE g.rollup = h.rollup
      <4>1. subscribers'[g.rollup] = Remove(subscribers[g.rollup], y)
        BY <1>2, <2>1, <3>5 DEF Domains
      <4>2. x # y /\ y \in 1..Len(subscribers[g.rollup])
        BY <2>1, <3>1, <3>3, <3>5
      <4>3. \E k \in 1..Len(Remove(subscribers[g.rollup], y)) :
              Remove(subscribers[g.rollup], y)[k] = subscribers[g.rollup][x]
        BY <1>2, <3>3, <4>2, RemovedFromList
      <4> QED BY <2>2, <3>2, <3>3, <4>1, <4>3
    <3> QED BY <3>4, <3>5
  <2> QED BY <2>4 DEF Listed
<1>5. ASSUME NEW h \in Headers,
             \/ FindMQBlock(h) \/ MissMQBlock(h) \/ HeaderReturns(h) \/ ReceiveHeader(h)
             \/ SendSignedRoot(h)
      PROVE  Listed'
  <2>1. UNCHANGED <<known, subscribers>>
    BY <1>5 DEF FindMQBlock, MissMQBlock, HeaderReturns, ReceiveHeader, SendSignedRoot
  <2>2. \A g \in Headers : g # h => header'[g] = header[g]
    BY <1>5, HeaderStep
  <2>3. header \in [Headers -> [pc : HeaderPcs, since : Nat, da : Das]]
    BY DEF Domains
  <2>4. CASE FindMQBlock(h)
    BY <1>1, <2>1, <2>2, <2>4 DEF FindMQBlock
  <2>5. CASE MissMQBlock(h) \/ HeaderReturns(h) \/ SendSignedRoot(h)
    <3>1. header[h].pc \in {"wait", "offer"}
      BY <2>5 DEF MissMQBlock, HeaderReturns, SendSignedRoot
    <3> QED BY <1>1, <2>1, <2>2, <3>1
  <2>6. CASE ReceiveHeader(h)
    <3>1. header'[h].pc = "subscribe"
      BY <2>3, <2>6 DEF ReceiveHeader
    <3> QED BY <1>1, <2>1, <2>2, <3>1
  <2> QED BY <1>5, <2>4, <2>5, <2>6
<1>6. CASE \/ \E d \in Deliveries : \/ Notify(d) \/ \E n \in notifying : n.d = d /\ NotifyGoesOn(n)
                                    \/ Renotify(d) \/ RebroadcastReturns(d) \/ ReceiveBlock(d)
           \/ Cancel \/ Tick(TRUE) \/ UNCHANGED attestorVars
  <2>1. UNCHANGED <<header, known, subscribers>>
    BY <1>6 DEF Notify, NotifyGoesOn, Renotify, RebroadcastReturns, ReceiveBlock, Cancel,
                       Tick, attestorVars, goroutines
  <2> QED BY <1>1, <2>1
<1> QED BY <1>3, <1>4, <1>5, <1>6, AttestorCases

\* No timer is slept over: time stands while one has expired.
LEMMA OnTimeNext ==
  ASSUME Domains, Unlocked, BuffersBounded, FewDeliveries, Listed, OnTime,
         [AttestorNext]_attestorVars
  PROVE  OnTime'
<1> DEFINE H(h) == header[h].pc = "wait" => clock <= header[h].since + Wait
           D(d) == /\ Broadcast(d) => /\ Rebroadcast <= delivery[d].at
                                      /\ delivery[d].at <= clock + Rebroadcast
                   /\ delivery[d].pc = "timer" => clock <= delivery[d].at
                   /\ delivery[d].pc = "renotify" => clock = delivery[d].at
                   /\ delivery[d].pc = "done" => delivery[d].at <= clock \/ done
<1>1. (\A h \in Headers : H(h)) /\ (\A d \in Deliveries : D(d))
  BY DEF OnTime
<1>2. ASSUME \A h \in Headers : H(h)', \A d \in Deliveries : D(d)'
      PROVE  OnTime'
  BY <1>2 DEF OnTime
<1>3. /\ clock \in Nat /\ Wait \in Nat /\ Rebroadcast \in Nat
      /\ header \in [Headers -> [pc : HeaderPcs, since : Nat, da : Das]]
      /\ delivery \in [Deliveries -> [pc : DeliveryPcs, at : Nat]]
  BY AttestorAssumption DEF Domains
<1>4. /\ \A h \in Headers : header[h].since \in Nat
      /\ \A d \in Deliveries : delivery[d].at \in Nat /\ delivery[d].pc \in DeliveryPcs
  BY <1>3
<1>5. ASSUME NEW h \in Headers,
             \/ Subscribe(h) \/ FindMQBlock(h) \/ MissMQBlock(h) \/ HeaderReturns(h)
             \/ ReceiveHeader(h) \/ Unsubscribe(h) \/ SendSignedRoot(h)
      PROVE  OnTime'
  <2>1. /\ UNCHANGED <<clock, done, delivery, notifying>>
        /\ \A g \in Headers : g # h => header'[g] = header[g]
    BY <1>5, HeaderStep
  <2>2. \A d \in Deliveries : D(d)'
    BY <1>1, <2>1 DEF Broadcast
  <2>3. header'[h].pc # "wait" \/ header'[h].since = clock
    <3>1. CASE Subscribe(h)
      BY <1>3, <3>1 DEF Subscribe
    <3>2. CASE FindMQBlock(h)
      BY <1>3, <3>2 DEF FindMQBlock
    <3>3. CASE \/ MissMQBlock(h) \/ HeaderReturns(h) \/ ReceiveHeader(h)
               \/ Unsubscribe(h) \/ SendSignedRoot(h)
      <4>1. \E place \in {"offer", "unsubscribe", "subscribe", "done"} :
              header' = [header EXCEPT ![h].pc = place]
        BY <3>3 DEF MissMQBlock, HeaderReturns, ReceiveHeader, Unsubscribe, SendSignedRoot
      <4> QED BY <1>3, <4>1
    <3> QED BY <1>5, <3>1, <3>2, <3>3
  <2>4. H(h)'
    BY <1>3, <2>1, <2>3, SMT
  <2>5. \A g \in Headers : H(g)'
    BY <1>1, <2>1, <2>4
  <2> QED BY <1>2, <2>2, <2>5
<1>6. ASSUME NEW d \in Deliveries, Notify(d)
      PROVE  OnTime'
  <2>1. /\ UNCHANGED <<clock, done, header>>
        /\ \A e \in Deliveries : e # d => delivery'[e] = delivery[e]
        /\ \/ /\ delivery[d].pc = "notify" /\ delivery'[d].pc = "timer"
              /\ delivery'[d].at = clock + Rebroadcast
           \/ /\ delivery[d].pc = "renotify" /\ delivery'[d].pc = "done"
              /\ delivery'[d].at = delivery[d].at
    BY <1>6, NotifyStep
  <2>2. D(d)'
    <3>1. D(d)
      BY <1>1
    <3> QED BY <1>3, <1>4, <2>1, <3>1, SMT DEF Broadcast
  <2>3. \A e \in Deliveries : D(e)'
    BY <1>1, <2>1, <2>2 DEF Broadcast
  <2>4. \A h \in Headers : H(h)'
    BY <1>1, <2>1
  <2> QED BY <1>2, <2>3, <2>4
<1>7. ASSUME NEW d \in Deliveries, Renotify(d) \/ RebroadcastReturns(d) \/ ReceiveBlock(d)
      PROVE  OnTime'
  <2>1. /\ UNCHANGED <<clock, done, header>>
        /\ \A e \in Deliveries : e # d => delivery'[e] = delivery[e]
        /\ delivery'[d].at = delivery[d].at
        /\ \/ delivery[d].pc = "none" /\ delivery'[d].pc = "notify"
           \/ /\ delivery[d].pc = "timer" /\ delivery'[d].pc = "renotify"
              /\ clock >= delivery[d].at
           \/ delivery[d].pc = "timer" /\ delivery'[d].pc = "done" /\ done
    BY <1>7, DeliveryStep
  <2>2. D(d)'
    <3>1. D(d)
      BY <1>1
    <3>2. clock' = clock /\ done' = done /\ delivery'[d].at = delivery[d].at
          /\ delivery[d].at \in Nat
      BY <1>4, <2>1
    <3>3. CASE delivery'[d].pc = "notify"
      BY <3>3 DEF Broadcast
    <3>4. CASE delivery[d].pc = "timer" /\ delivery'[d].pc = "renotify" /\ clock >= delivery[d].at
      <4>1. clock = delivery[d].at
        <5>1. clock <= delivery[d].at
          BY <3>1, <3>4
        <5> QED BY <1>3, <3>2, <3>4, <5>1, SMTT(30)
      <4>2. Rebroadcast <= delivery[d].at /\ delivery[d].at <= clock + Rebroadcast
        BY <3>1, <3>4 DEF Broadcast
      <4> QED BY <3>2, <3>4, <4>1, <4>2 DEF Broadcast
    <3>5. CASE delivery[d].pc = "timer" /\ delivery'[d].pc = "done" /\ done
      BY <1>3, <3>1, <3>2, <3>5 DEF Broadcast
    <3> QED BY <2>1, <3>3, <3>4, <3>5
  <2>3. \A e \in Deliveries : D(e)'
    BY <1>1, <2>1, <2>2 DEF Broadcast
  <2>4. \A h \in Headers : H(h)'
    BY <1>1, <2>1
  <2> QED BY <1>2, <2>3, <2>4
<1>8. CASE Cancel \/ UNCHANGED attestorVars
  <2>1. UNCHANGED <<clock, header, delivery>> /\ (done => done')
    BY <1>8, SMT DEF Cancel, attestorVars, goroutines
  <2> QED BY <1>1, <1>2, <2>1 DEF Broadcast
<1>9. CASE Tick(TRUE)
  <2>1. clock' = clock + 1 /\ UNCHANGED <<done, header, delivery>> /\ Quiet(TRUE)
    BY <1>9 DEF Tick, goroutines
  <2>2. \A h \in Headers : header[h].pc = "wait" => clock < header[h].since + Wait
    BY <2>1 DEF Quiet
  <2>3. \A d \in Deliveries : /\ delivery[d].pc \notin {"notify", "renotify"}
                              /\ delivery[d].pc = "timer" => clock < delivery[d].at
    BY <2>1 DEF Quiet
  <2>4. \A h \in Headers : H(h)'
    BY <1>3, <1>4, <2>1, <2>2, SMT
  <2>5. ASSUME NEW d \in Deliveries
        PROVE  D(d)'
    <3>1. D(d) /\ delivery[d].at \in Nat
      BY <1>1, <1>4
    <3> QED BY <1>3, <2>1, <2>3, <3>1, SMT DEF Broadcast
  <2> QED BY <1>2, <2>4, <2>5
<1>10. ~\E n \in notifying : NotifyGoesOn(n)
  BY DEF Unlocked
<1> QED BY <1>5, <1>6, <1>7, <1>8, <1>9, <1>10, AttestorCases

\* At its timeout a goroutine has missed the blocks it did not find: one that is
\* broadcast at this very instant, or both of whose broadcasts were before it.
LEMMA MissedAtTimeout ==
  ASSUME Domains, OnTime, FoundOrMissed, NEW h \in Headers,
         header[h].pc = "wait", clock >= header[h].since + Wait
  PROVE  Missed(h)
<1>1. /\ clock \in Nat /\ Wait \in Nat /\ Rebroadcast \in Nat /\ Rebroadcast < Wait
      /\ header[h].since \in Nat
      /\ \A d \in Deliveries : delivery[d].at \in Nat
  BY AttestorAssumption DEF Domains
<1>2. clock = header[h].since + Wait
  BY <1>1, SMT DEF OnTime
<1>3. ASSUME NEW d \in Deliveries, SameBlock(h, d), Broadcast(d)
      PROVE  OutOfTime(h, d)
  <2>1. WillBeFound(h, d)
    BY <1>3 DEF FoundOrMissed
  <2>2. PICK at \in Nat : at = delivery[d].at
    BY <1>1
  <2>3. PICK since \in Nat : since = header[h].since
    BY <1>1
  <2>4. /\ at - Rebroadcast > since => clock = at - Rebroadcast
        /\ at - Rebroadcast <= since /\ at > since => clock <= at
    BY <2>1, <2>2, <2>3 DEF WillBeFound
  <2>5. at - Rebroadcast <= since - Rebroadcast \/ at - Rebroadcast >= since + Wait
    BY <1>1, <1>2, <2>3, <2>4, SMT
  <2> QED BY <2>2, <2>3, <2>5 DEF OutOfTime
<1> QED BY <1>3 DEF Missed

\* A block that is broadcast after the timeout comes too late.
LEMMA MissedStays ==
  ASSUME Domains, NEW h \in Headers, Missed(h),
         clock' = clock \/ clock' = clock + 1, header'[h].since = header[h].since,
         \A d \in Deliveries : Broadcast(d)' =>
           \/ Broadcast(d) /\ delivery'[d].at = delivery[d].at
           \/ delivery'[d].at = clock + Rebroadcast
  PROVE  Missed(h)'
<1>1. /\ clock \in Nat /\ Wait \in Nat /\ Rebroadcast \in Nat
      /\ header[h].since \in Nat
      /\ \A d \in Deliveries : delivery[d].at \in Nat
  BY AttestorAssumption DEF Domains
<1>2. clock' >= header'[h].since + Wait
  BY <1>1, SMT DEF Missed
<1>3. ASSUME NEW d \in Deliveries, SameBlock(h, d), Broadcast(d)'
      PROVE  OutOfTime(h, d)'
  <2>1. CASE Broadcast(d) /\ delivery'[d].at = delivery[d].at
    BY <1>3, <2>1 DEF Missed, OutOfTime
  <2>2. CASE delivery'[d].at = clock + Rebroadcast
    <3>1. delivery'[d].at - Rebroadcast = clock /\ clock >= header[h].since + Wait
      BY <1>1, <2>2, SMT DEF Missed
    <3> QED BY <3>1 DEF OutOfTime
  <2> QED BY <1>3, <2>1, <2>2
<1> QED BY <1>2, <1>3 DEF Missed, SameBlock

\* What WillBeFound says goes on with the block, the goroutine and the clock.
LEMMA FoundStays ==
  ASSUME NEW h \in Headers, NEW d \in Deliveries, WillBeFound(h, d),
         UNCHANGED clock, done => done', header'[h].since = header[h].since,
         buffer[h] # <<>> => buffer'[h] # <<>>, delivery'[d].at = delivery[d].at,
         delivery'[d].pc = "done" => delivery[d].pc = "done" \/ done' \/ buffer'[h] # <<>>
  PROVE  WillBeFound(h, d)'
BY DEF WillBeFound

\* A new subscriber: what was broadcast before is broadcast again, or the context is
\* done.
LEMMA FoundBySubscriber ==
  ASSUME Domains, OnTime, NEW h \in Headers, NEW d \in Deliveries, Broadcast(d),
         UNCHANGED <<clock, done, delivery>>, header'[h].since = clock
  PROVE  WillBeFound(h, d)'
<1>1. clock \in Nat /\ Rebroadcast \in Nat /\ delivery[d].at \in Nat
  BY AttestorAssumption DEF Domains
<1>2. /\ delivery[d].at <= clock + Rebroadcast
      /\ delivery[d].pc = "done" => delivery[d].at <= clock \/ done
  BY DEF OnTime
<1>3. ~(delivery[d].at - Rebroadcast > clock)
  BY <1>1, <1>2, SMT
<1>4. delivery[d].at > clock => clock <= delivery[d].at
  BY <1>1, SMT
<1>5. delivery[d].at > clock /\ delivery[d].pc = "done" => done
  BY <1>1, <1>2, SMT
<1> QED BY <1>3, <1>4, <1>5 DEF WillBeFound

\* A first broadcast finds the subscriber, or is repeated in time.
LEMMA FoundByBroadcast ==
  ASSUME Domains, NEW h \in Headers, NEW d \in Deliveries,
         UNCHANGED <<clock, header>>, buffer'[h] # <<>>,
         delivery'[d].pc = "timer", delivery'[d].at = clock + Rebroadcast
  PROVE  WillBeFound(h, d)'
<1>1. clock \in Nat /\ Rebroadcast \in Nat
  BY AttestorAssumption DEF Domains
<1>2. delivery'[d].at - Rebroadcast = clock /\ clock <= delivery'[d].at
  BY <1>1, SMT
<1> QED BY <1>2 DEF WillBeFound

\* Time passes: the goroutine waits for a broadcast that is still to come.
LEMMA FoundLater ==
  ASSUME Domains, Unlocked, NEW h \in Headers, NEW d \in Deliveries, header[h].pc = "wait",
         Broadcast(d), WillBeFound(h, d), Tick(TRUE)
  PROVE  WillBeFound(h, d)'
<1>1. clock \in Nat /\ Rebroadcast \in Nat /\ delivery[d].at \in Nat /\ header[h].since \in Nat
  BY AttestorAssumption DEF Domains
<1>2. clock' = clock + 1 /\ UNCHANGED <<done, header, delivery, buffer>> /\ Quiet(TRUE)
  BY DEF Tick, goroutines
<1>3. /\ buffer[h] = <<>> /\ ~done
      /\ delivery[d].pc \notin {"notify", "renotify"}
      /\ delivery[d].pc = "timer" => clock < delivery[d].at
  BY <1>2 DEF Quiet
<1>4. ~(delivery[d].at - Rebroadcast > header[h].since)
  BY <1>3 DEF WillBeFound
<1>5. CASE delivery[d].at > header[h].since
  <2>1. delivery[d].pc # "done"
    BY <1>1, <1>3, <1>4, <1>5, SMT DEF WillBeFound
  <2>2. clock < delivery[d].at
    BY <1>3, <2>1 DEF Broadcast
  <2>3. clock' <= delivery'[d].at /\ delivery'[d].pc # "done"
    BY <1>1, <1>2, <2>1, <2>2, SMT
  <2> QED BY <1>2, <1>4, <2>3 DEF WillBeFound
<1>6. CASE ~(delivery[d].at > header[h].since)
  BY <1>2, <1>4, <1>6 DEF WillBeFound
<1> QED BY <1>5, <1>6

\* The invariant, goroutine by goroutine and message by message.
Expects(h) ==
  header[h].pc = "wait" =>
    \A d \in Deliveries : SameBlock(h, d) /\ Broadcast(d) => WillBeFound(h, d)
OffersLate(h) == header[h].pc = "offer" /\ header[h].da = NoDa => Missed(h)
SentLate(s) ==
  /\ header[s.header].pc \in {"unsubscribe", "done"}
  /\ s.da = NoDa => Missed(s.header)

\* The parts, and the whole after a step.
LEMMA FoundOrMissedParts ==
  /\ FoundOrMissed <=> /\ \A h \in Headers : Expects(h) /\ OffersLate(h)
                       /\ \A s \in sent : SentLate(s)
  /\ FoundOrMissed' <=> /\ \A h \in Headers : Expects(h)' /\ OffersLate(h)'
                        /\ \A s \in sent' : SentLate(s)'
<1>1. FoundOrMissed <=> /\ \A h \in Headers : Expects(h) /\ OffersLate(h)
                        /\ \A s \in sent : SentLate(s)
  BY DEF FoundOrMissed, Expects, OffersLate, SentLate
<1>2. FoundOrMissed' <=> /\ \A h \in Headers : Expects(h)' /\ OffersLate(h)'
                         /\ \A s \in sent' : SentLate(s)'
  BY DEF FoundOrMissed, Expects, OffersLate, SentLate
<1> QED BY <1>1, <1>2

\* The goroutines of the other headers, in a step of the goroutine of h.
LEMMA OthersStay ==
  ASSUME Domains, FoundOrMissed, NEW g \in Headers,
         UNCHANGED <<clock, done, delivery>>, header'[g] = header[g], buffer'[g] = buffer[g]
  PROVE  Expects(g)' /\ OffersLate(g)' /\ (Missed(g) => Missed(g)')
<1>1. Expects(g) /\ OffersLate(g)
  BY FoundOrMissedParts
<1>2. Missed(g) => Missed(g)'
  BY DEF Missed, OutOfTime, SameBlock, Broadcast
<1>3. OffersLate(g)'
  BY <1>1, <1>2 DEF OffersLate
<1>4. Expects(g)'
  BY <1>1 DEF Expects, WillBeFound, SameBlock, Broadcast
<1> QED BY <1>2, <1>3, <1>4

\* A message that was sent, in a step of the goroutine of h: its own goroutine only
\* unsubscribes.
LEMMA SentStays ==
  ASSUME Domains, FoundOrMissed, NEW s \in sent, NEW h \in Headers,
         \/ Subscribe(h) \/ FindMQBlock(h) \/ MissMQBlock(h) \/ HeaderReturns(h)
         \/ ReceiveHeader(h) \/ Unsubscribe(h) \/ SendSignedRoot(h)
  PROVE  SentLate(s)'
<1>1. SentLate(s) /\ s.header \in Headers
  BY FoundOrMissedParts DEF Domains
<1>2. UNCHANGED <<clock, done, delivery>>
      /\ \A g \in Headers : g # h => header'[g] = header[g] /\ buffer'[g] = buffer[g]
  BY HeaderStep
<1>3. CASE s.header # h
  <2>1. header'[s.header] = header[s.header] /\ buffer'[s.header] = buffer[s.header]
    BY <1>1, <1>2, <1>3
  <2>2. Missed(s.header) => Missed(s.header)'
    BY <1>1, <1>2, <2>1, OthersStay
  <2> QED BY <1>1, <2>1, <2>2 DEF SentLate
<1>4. CASE s.header = h
  <2>1. header[h].pc \in {"unsubscribe", "done"}
    BY <1>1, <1>4 DEF SentLate
  <2>2. Unsubscribe(h)
    BY <2>1 DEF Subscribe, FindMQBlock, MissMQBlock, HeaderReturns, ReceiveHeader, SendSignedRoot
  <2>3. header'[h].pc = "done" /\ header'[h].since = header[h].since
    BY <2>2, SMT DEF Unsubscribe, Domains
  <2>4. Missed(h) => Missed(h)'
    BY <1>2, <2>3, MissedStays DEF Broadcast
  <2> QED BY <1>1, <1>4, <2>3, <2>4 DEF SentLate
<1> QED BY <1>3, <1>4

\* What the step of a header's goroutine leaves behind for that goroutine.
LEMMA OwnStepFound ==
  ASSUME Domains, OnTime, FoundOrMissed, NEW h \in Headers,
         \/ Subscribe(h) \/ FindMQBlock(h) \/ MissMQBlock(h) \/ HeaderReturns(h)
         \/ ReceiveHeader(h) \/ Unsubscribe(h) \/ SendSignedRoot(h)
  PROVE  Expects(h)' /\ OffersLate(h)'
<1>1. UNCHANGED <<clock, done, delivery>>
  BY HeaderStep
<1>2. header \in [Headers -> [pc : HeaderPcs, since : Nat, da : Das]]
  BY DEF Domains
<1>3. CASE Subscribe(h)
  <2>1. header'[h].pc = "wait" /\ header'[h].since = clock
    BY <1>2, <1>3 DEF Subscribe
  <2>2. \A d \in Deliveries : Broadcast(d) => WillBeFound(h, d)'
    BY <1>1, <2>1, FoundBySubscriber
  <2>3. \A d \in Deliveries : Broadcast(d)' => Broadcast(d)
    BY <1>1 DEF Broadcast
  <2> QED BY <2>1, <2>2, <2>3 DEF Expects, OffersLate
<1>4. CASE FindMQBlock(h)
  <2>1. header'[h].pc = "offer" /\ header'[h].da = Head(buffer[h]).da
    BY <1>2, <1>4 DEF FindMQBlock
  <2>2. Head(buffer[h]) \in Deliveries
    BY <1>4, SMT DEF FindMQBlock, Domains
  <2>3. header'[h].da # NoDa
    BY <2>1, <2>2, AttestorAssumption
  <2> QED BY <2>1, <2>3 DEF Expects, OffersLate
<1>5. CASE MissMQBlock(h)
  <2>1. header'[h].pc = "offer" /\ header'[h].since = header[h].since
    BY <1>2, <1>5 DEF MissMQBlock
  <2>2. Missed(h)
    BY <1>5, MissedAtTimeout DEF MissMQBlock
  <2>3. Missed(h)'
    BY <1>1, <2>1, <2>2, MissedStays DEF Broadcast
  <2> QED BY <2>1, <2>3 DEF Expects, OffersLate
<1>6. CASE HeaderReturns(h) \/ ReceiveHeader(h) \/ Unsubscribe(h) \/ SendSignedRoot(h)
  <2>1. \E place \in {"unsubscribe", "subscribe", "done"} : header' = [header EXCEPT ![h].pc = place]
    BY <1>6 DEF HeaderReturns, ReceiveHeader, Unsubscribe, SendSignedRoot
  <2>2. header'[h].pc \in {"unsubscribe", "subscribe", "done"}
    BY <1>2, <2>1
  <2> QED BY <2>2 DEF Expects, OffersLate
<1> QED BY <1>3, <1>4, <1>5, <1>6

\* The invariant over a step of the attestor.
LEMMA FoundOrMissedNext ==
  ASSUME Domains, Unlocked, BuffersBounded, FewDeliveries, Listed, OnTime, FoundOrMissed,
         [AttestorNext]_attestorVars
  PROVE  FoundOrMissed'
<1>1. /\ \A h \in Headers : Expects(h) /\ OffersLate(h)
      /\ \A s \in sent : SentLate(s) /\ s.header \in Headers
  BY FoundOrMissedParts DEF Domains
<1>2. ASSUME NEW h \in Headers,
             \/ Subscribe(h) \/ FindMQBlock(h) \/ MissMQBlock(h) \/ HeaderReturns(h)
             \/ ReceiveHeader(h) \/ Unsubscribe(h) \/ SendSignedRoot(h)
      PROVE  FoundOrMissed'
  <2>1. UNCHANGED <<clock, done, delivery>>
        /\ \A g \in Headers : g # h => header'[g] = header[g] /\ buffer'[g] = buffer[g]
    BY <1>2, HeaderStep
  <2>2. Expects(h)' /\ OffersLate(h)'
    BY <1>2, OwnStepFound
  <2>3. \A g \in Headers : g # h => Expects(g)' /\ OffersLate(g)'
    BY <2>1, OthersStay
  <2>4. \A s \in sent : SentLate(s)'
    BY <1>2, SentStays
  <2>5. ASSUME NEW s \in sent', s \notin sent
        PROVE  SentLate(s)'
    <3>1. SendSignedRoot(h)
      BY <1>2, <2>5 DEF Subscribe, FindMQBlock, MissMQBlock, HeaderReturns, ReceiveHeader,
                        Unsubscribe
    <3>2. /\ header[h].pc = "offer" /\ s = [header |-> h, da |-> header[h].da]
          /\ header' = [header EXCEPT ![h].pc = "unsubscribe"]
      BY <2>5, <3>1 DEF SendSignedRoot
    <3>3. header'[h].pc = "unsubscribe" /\ header'[h].since = header[h].since
      BY <3>2 DEF Domains
    <3>4. s.header = h /\ s.da = header[h].da
      BY <3>2
    <3>5. s.da = NoDa => Missed(h)
      BY <1>1, <3>2, <3>4 DEF OffersLate
    <3>6. Missed(h) => Missed(h)'
      BY <2>1, <3>3, MissedStays DEF Broadcast
    <3> QED BY <3>3, <3>4, <3>5, <3>6 DEF SentLate
  <2> QED BY <2>2, <2>3, <2>4, <2>5, FoundOrMissedParts
<1>3. ASSUME UNCHANGED <<header, sent>>, clock' = clock \/ clock' = clock + 1,
             \A d \in Deliveries : Broadcast(d)' =>
               \/ Broadcast(d) /\ delivery'[d].at = delivery[d].at
               \/ delivery'[d].at = clock + Rebroadcast,
             \A h \in Headers, d \in Deliveries :
               header[h].pc = "wait" /\ SameBlock(h, d) /\ Broadcast(d)' => WillBeFound(h, d)'
      PROVE  FoundOrMissed'
  <2>1. \A h \in Headers : Missed(h) => Missed(h)'
    BY <1>3, MissedStays
  <2>2. \A h \in Headers : Expects(h)'
    BY <1>3 DEF Expects, SameBlock
  <2>3. \A h \in Headers : OffersLate(h)'
    BY <1>1, <1>3, <2>1 DEF OffersLate
  <2>4. \A s \in sent' : SentLate(s)'
    BY <1>1, <1>3, <2>1 DEF SentLate
  <2> QED BY <2>2, <2>3, <2>4, FoundOrMissedParts
<1>4. \A h \in Headers, d \in Deliveries :
        header[h].pc = "wait" /\ SameBlock(h, d) /\ Broadcast(d) => WillBeFound(h, d)
  BY <1>1 DEF Expects
<1>5. ASSUME NEW e \in Deliveries, Notify(e)
      PROVE  FoundOrMissed'
  <2>1. /\ UNCHANGED <<clock, done, header, sent>>
        /\ \A d \in Deliveries : d # e => delivery'[d] = delivery[d]
        /\ \/ /\ delivery[e].pc = "notify" /\ delivery'[e].pc = "timer"
              /\ delivery'[e].at = clock + Rebroadcast
           \/ /\ delivery[e].pc = "renotify" /\ delivery'[e].pc = "done"
              /\ delivery'[e].at = delivery[e].at
        /\ \A h \in Headers : buffer[h] # <<>> => buffer'[h] # <<>>
        /\ \A h \in Headers : header[h].pc = "wait" /\ SameBlock(h, e) => buffer'[h] # <<>>
    BY <1>5, NotifyStep
  <2>2. \A d \in Deliveries : Broadcast(d)' =>
               \/ Broadcast(d) /\ delivery'[d].at = delivery[d].at
               \/ delivery'[d].at = clock + Rebroadcast
    BY <2>1 DEF Broadcast
  <2>3. ASSUME NEW h \in Headers, NEW d \in Deliveries,
               header[h].pc = "wait", SameBlock(h, d), Broadcast(d)'
        PROVE  WillBeFound(h, d)'
    <3>1. CASE d # e
      <4>1. delivery'[d] = delivery[d] /\ Broadcast(d)
        BY <2>1, <2>3, <3>1 DEF Broadcast
      <4>2. WillBeFound(h, d)
        BY <1>4, <2>3, <4>1
      <4> QED BY <2>1, <4>1, <4>2, FoundStays
    <3>2. CASE d = e /\ delivery'[e].pc = "timer"
      <4>1. delivery'[e].at = clock + Rebroadcast
        BY <2>1, <3>2
      <4> QED BY <2>1, <2>3, <3>2, <4>1, FoundByBroadcast
    <3>3. CASE d = e /\ delivery'[e].pc = "done"
      <4>1. delivery[e].pc = "renotify" /\ delivery'[e].at = delivery[e].at
        BY <2>1, <3>3
      <4>2. WillBeFound(h, d)
        BY <1>4, <2>3, <3>3, <4>1 DEF Broadcast
      <4> QED BY <2>1, <2>3, <3>3, <4>1, <4>2, FoundStays
    <3> QED BY <2>1, <3>1, <3>2, <3>3
  <2> QED BY <1>3, <2>1, <2>2, <2>3
<1>6. ASSUME NEW e \in Deliveries, Renotify(e) \/ RebroadcastReturns(e) \/ ReceiveBlock(e)
      PROVE  FoundOrMissed'
  <2>1. /\ UNCHANGED <<clock, done, header, buffer, sent>>
        /\ \A d \in Deliveries : d # e => delivery'[d] = delivery[d]
        /\ delivery'[e].at = delivery[e].at
        /\ \/ delivery[e].pc = "none" /\ delivery'[e].pc = "notify"
           \/ delivery[e].pc = "timer" /\ delivery'[e].pc = "renotify"
           \/ delivery[e].pc = "timer" /\ delivery'[e].pc = "done" /\ done
    BY <1>6, DeliveryStep
  <2>2. \A d \in Deliveries : Broadcast(d)' => Broadcast(d) /\ delivery'[d].at = delivery[d].at
    BY <2>1 DEF Broadcast
  <2>3. ASSUME NEW h \in Headers, NEW d \in Deliveries,
               header[h].pc = "wait", SameBlock(h, d), Broadcast(d)'
        PROVE  WillBeFound(h, d)'
    <3>1. WillBeFound(h, d) /\ delivery'[d].at = delivery[d].at
      BY <1>4, <2>2, <2>3
    <3>2. delivery'[d].pc = "done" => delivery[d].pc = "done" \/ done'
      BY <2>1
    <3> QED BY <2>1, <3>1, <3>2, FoundStays
  <2> QED BY <1>3, <2>1, <2>2, <2>3
<1>7. CASE Cancel \/ UNCHANGED attestorVars
  <2>1. UNCHANGED <<clock, header, delivery, buffer, sent>> /\ (done => done')
    BY <1>7, SMT DEF Cancel, attestorVars, goroutines
  <2>2. \A d \in Deliveries : Broadcast(d)' => Broadcast(d) /\ delivery'[d].at = delivery[d].at
    BY <2>1 DEF Broadcast
  <2>3. ASSUME NEW h \in Headers, NEW d \in Deliveries,
               header[h].pc = "wait", SameBlock(h, d), Broadcast(d)'
        PROVE  WillBeFound(h, d)'
    <3>1. WillBeFound(h, d)
      BY <1>4, <2>2, <2>3
    <3> QED BY <2>1, <3>1, FoundStays
  <2> QED BY <1>3, <2>1, <2>2, <2>3
<1>8. CASE Tick(TRUE)
  <2>1. clock' = clock + 1 /\ UNCHANGED <<header, delivery, sent>>
    BY <1>8 DEF Tick, goroutines
  <2>2. \A d \in Deliveries : Broadcast(d)' => Broadcast(d) /\ delivery'[d].at = delivery[d].at
    BY <2>1 DEF Broadcast
  <2>3. ASSUME NEW h \in Headers, NEW d \in Deliveries,
               header[h].pc = "wait", SameBlock(h, d), Broadcast(d)'
        PROVE  WillBeFound(h, d)'
    BY <1>4, <1>8, <2>2, <2>3, FoundLater
  <2> QED BY <1>3, <2>1, <2>2, <2>3
<1>9. ~\E n \in notifying : NotifyGoesOn(n)
  BY DEF Unlocked
<1> QED BY <1>2, <1>5, <1>6, <1>7, <1>8, <1>9, AttestorCases

\* What the theorem below needs at the start.
LEMMA AttestorInitFound == AttestorInit => Listed /\ OnTime /\ FoundOrMissed
<1> SUFFICES ASSUME AttestorInit PROVE Listed /\ OnTime /\ FoundOrMissed
  OBVIOUS
<1>1. /\ \A h \in Headers : header[h].pc = "none"
      /\ \A d \in Deliveries : delivery[d].pc = "none"
      /\ sent = {}
  BY DEF AttestorInit, NoHeader, NoDelivery
<1> QED BY <1>1 DEF Listed, OnTime, FoundOrMissed, Broadcast

\* A state root is signed without its DA block only if no broadcast of that block was
\* strictly between the goroutine's subscription and its timeout: the second
\* broadcast, half the wait later, finds the headers that came after their block.
\* For any number of rollups, headers, deliveries and interleavings, when no header's
\* block is delivered more often than half its channel holds.
THEOREM MissedOnlyWhenLateHolds ==
  ASSUME FewDeliveries
  PROVE  NodeSpec => []MissedOnlyWhenLate
<1> DEFINE J == /\ Domains /\ Unlocked /\ BuffersBounded
                /\ Listed /\ OnTime /\ FoundOrMissed
<1>1. NodeInit => J
  BY AttestorInitOwn, AttestorInitUnlocked, AttestorInitFound DEF NodeInit
<1>2. J /\ [NodeNext]_nodeVars => J'
  <2> SUFFICES ASSUME J, [NodeNext]_nodeVars PROVE J'
    OBVIOUS
  <2>1. [AttestorNext]_attestorVars
    BY NodeIsAttestor
  <2>2. Domains' /\ Unlocked' /\ BuffersBounded'
    BY <2>1, DomainsNext, UnlockedNext
  <2>3. Listed' /\ OnTime' /\ FoundOrMissed'
    BY <2>1, ListedNext, OnTimeNext, FoundOrMissedNext
  <2> QED BY <2>2, <2>3
<1>3. J => MissedOnlyWhenLate
  BY DEF FoundOrMissed, Missed, OutOfTime, Broadcast, MissedOnlyWhenLate
<1> QED BY <1>1, <1>2, <1>3, PTL DEF NodeSpec

-----------------------------------------------------------------------------
(* The list of an operator set update *)

\* An order of the changed operators has each of them once.
LEMMA OrderOfChanged ==
  ASSUME NEW order \in Orders(Changed)
  PROVE  /\ order \in Seq(Changed)
         /\ \A k, l \in 1..Len(order) : order[k] = order[l] => k = l
         /\ \A p \in Changed : \E k \in 1..Len(order) : order[k] = p
<1> DEFINE c == Cardinality(Changed)
<1>1. IsFiniteSet(Changed)
  BY FS_Subset, DeltaAssumption DEF Changed
<1>2. c \in Nat
  BY <1>1, FS_CardinalityType
<1>3. order \in [1..c -> Changed] /\ \A k, l \in 1..c : order[k] = order[l] => k = l
  BY DEF Orders, Bijection, Injection, IsInjective
<1>4. order \in Seq(Changed) /\ Len(order) = c
  BY <1>2, <1>3, SMT
<1>5. \A p \in Changed : \E k \in 1..c : order[k] = p
  BY DEF Orders, Bijection, Surjection
<1> QED BY <1>3, <1>4, <1>5

\* The weight of an operator that is registered or not.
LEMMA WeightType ==
  ASSUME NEW set \in OperatorSets, NEW p \in Pubkeys
  PROVE  WeightIn(set, p) \in Weights \cup {0}
BY DEF OperatorSets, WeightIn

\* The list that is collected has each changed operator once, with its new weight.
LEMMA CollectLists ==
  ASSUME DeltaInv, NEW n \in Nodes, NEW order \in Orders(Changed), Collect(n, order)
  PROVE  DeltaInv'
<1> DEFINE d == [k \in DOMAIN order |->
                   [pubkey |-> order[k], weight |-> WeightIn(newOperatorSet, order[k])]]
<1>0. DeltaDomains /\ \A m \in Nodes : pc[m] # "collect" => ListsChanges(delta[m])
  BY DEF DeltaInv
<1>1. /\ delta' = [delta EXCEPT ![n] = d]
      /\ hashes' = [hashes EXCEPT ![n] = order]
      /\ i' = [i EXCEPT ![n] = 2] /\ j' = [j EXCEPT ![n] = 2]
      /\ pc' = [pc EXCEPT ![n] = "sort"]
      /\ UNCHANGED <<previousOperatorSet, newOperatorSet>>
  BY DEF Collect
<1>2. /\ order \in Seq(Changed)
      /\ \A k, l \in 1..Len(order) : order[k] = order[l] => k = l
      /\ \A p \in Changed : \E k \in 1..Len(order) : order[k] = p
  BY OrderOfChanged
<1>3. Changed \subseteq Pubkeys /\ Changed' = Changed
  BY <1>1 DEF Changed, WeightIn
<1>4. DOMAIN order = 1..Len(order) /\ Len(order) \in Nat /\ \A k \in 1..Len(order) : order[k] \in Changed
  BY <1>2, SMT
<1>5. \A k \in 1..Len(order) : WeightIn(newOperatorSet, order[k]) \in Weights \cup {0}
  BY <1>0, <1>3, <1>4, WeightType DEF DeltaDomains
<1>6. \A k \in 1..Len(order) : d[k] \in Entries
  BY <1>3, <1>4, <1>5 DEF Entries
<1>7. d \in Seq(Entries) /\ Len(d) = Len(order)
  BY <1>4, <1>6, SMT
<1>8. \A k \in 1..Len(order) :
        d[k].pubkey = order[k] /\ d[k].weight = WeightIn(newOperatorSet, order[k])
  BY <1>4
<1>9. ListsChanges(d)
  BY <1>2, <1>4, <1>7, <1>8 DEF ListsChanges
<1> HIDE DEF d
<1>10. DeltaDomains'
  BY <1>0, <1>1, <1>2, <1>3, <1>7, SMTT(30) DEF DeltaDomains
<1>11. ASSUME NEW m \in Nodes, pc'[m] # "collect" PROVE ListsChanges(delta[m])'
  <2>1. ListsChanges(delta'[m])
    BY <1>0, <1>1, <1>9, <1>11 DEF DeltaDomains
  <2> QED BY <2>1, <1>1, <1>3, SMT DEF ListsChanges, WeightIn
<1> QED BY <1>10, <1>11 DEF DeltaInv

\* Whatever it compares, the sort only moves entries.
LEMMA SwapLists ==
  ASSUME DeltaInv, NEW n \in Nodes, SwapStep(n)
  PROVE  DeltaInv'
<1>0. DeltaDomains /\ \A m \in Nodes : pc[m] # "collect" => ListsChanges(delta[m])
  BY DEF DeltaInv
<1> DEFINE k == j[n]
           s == delta[n]
           d == [s EXCEPT ![k] = s[k - 1], ![k - 1] = s[k]]
<1>1. /\ pc[n] = "sort" /\ i[n] <= Len(s) /\ k > 1
      /\ delta' = [delta EXCEPT ![n] = d]
      /\ j' = [j EXCEPT ![n] = k - 1]
      /\ UNCHANGED <<previousOperatorSet, newOperatorSet, hashes, i, pc>>
  BY <1>0 DEF SwapStep, DeltaDomains
<1>2. s \in Seq(Entries) /\ k \in Nat /\ i[n] \in Nat /\ k <= i[n]
  BY <1>0 DEF DeltaDomains
<1>3. k \in 1..Len(s) /\ k - 1 \in 1..Len(s) /\ k - 1 # k /\ Len(s) \in Nat
  BY <1>1, <1>2, SMT
<1>4. ListsChanges(s)
  BY <1>0, <1>1
<1> HIDE DEF k, s
<1>5. d \in Seq(Entries) /\ Len(d) = Len(s)
  BY <1>2, <1>3, SMT
<1>6. \A l \in 1..Len(s) : d[l] = IF l = k - 1 THEN s[k] ELSE IF l = k THEN s[k - 1] ELSE s[l]
  BY <1>2, <1>3, SMT
<1> HIDE DEF d
<1>7. ListsChanges(d)
  <2>1. \A p \in Changed : \E l \in 1..Len(d) : d[l].pubkey = p
    <3> TAKE p \in Changed
    <3>1. PICK l \in 1..Len(s) : s[l].pubkey = p
      BY <1>4 DEF ListsChanges
    <3> QED BY <3>1, <1>3, <1>5, <1>6
  <2>2. \A l \in 1..Len(d) : \E m \in 1..Len(s) : d[l] = s[m]
    BY <1>3, <1>5, <1>6
  <2>3. \A l \in 1..Len(d) :
          d[l].pubkey \in Changed /\ d[l].weight = WeightIn(newOperatorSet, d[l].pubkey)
    BY <2>2, <1>4, SMT DEF ListsChanges
  <2>4. \A l, m \in 1..Len(d) : d[l].pubkey = d[m].pubkey => l = m
    <3>1. \A l, m \in 1..Len(s) : s[l].pubkey = s[m].pubkey => l = m
      BY <1>4 DEF ListsChanges
    <3> QED BY <3>1, <1>3, <1>5, <1>6
  <2> QED BY <2>1, <2>3, <2>4 DEF ListsChanges
<1>8. DeltaDomains'
  BY <1>0, <1>1, <1>2, <1>3, <1>5, SMTT(30) DEF DeltaDomains
<1>9. ASSUME NEW m \in Nodes, pc'[m] # "collect" PROVE ListsChanges(delta[m])'
  <2>1. ListsChanges(delta'[m])
    BY <1>0, <1>1, <1>7, <1>9 DEF DeltaDomains
  <2> QED BY <2>1, <1>1, SMT DEF ListsChanges, Changed, WeightIn
<1> QED BY <1>8, <1>9 DEF DeltaInv

\* Every step keeps the lists those of the changes.
LEMMA DeltaStep == DeltaInv /\ [Next]_vars => DeltaInv'
<1> SUFFICES ASSUME DeltaInv, [Next]_vars PROVE DeltaInv'
  OBVIOUS
<1>0. DeltaDomains /\ \A m \in Nodes : pc[m] # "collect" => ListsChanges(delta[m])
  BY DEF DeltaInv
<1>1. ASSUME NEW n \in Nodes, AdvanceStep(n) \/ Return(n) PROVE DeltaInv'
  <2>1. UNCHANGED <<previousOperatorSet, newOperatorSet, delta, hashes>>
    BY <1>1 DEF AdvanceStep, Return
  <2>2. DeltaDomains'
    <3>1. CASE AdvanceStep(n)
      <4>1. i[n] + 1 \in Nat
        BY <1>0, SMT DEF DeltaDomains
      <4>2. i' = [i EXCEPT ![n] = i[n] + 1] /\ j' = [j EXCEPT ![n] = i[n] + 1] /\ pc' = pc
        BY <3>1, <1>0 DEF AdvanceStep, DeltaDomains
      <4> QED BY <1>0, <2>1, <4>1, <4>2, SMT DEF DeltaDomains
    <3>2. CASE Return(n)
      BY <1>0, <2>1, <3>2 DEF DeltaDomains, Return
    <3> QED BY <1>1, <3>1, <3>2
  <2>3. \A m \in Nodes : pc'[m] # "collect" => pc[m] # "collect"
    BY <1>1 DEF DeltaInv, DeltaDomains, AdvanceStep, Return
  <2> QED BY <2>1, <2>2, <2>3, SMT DEF DeltaInv, ListsChanges, Changed, WeightIn
<1>2. CASE UNCHANGED vars
  <2>1. DeltaDomains'
    BY <1>0, <1>2, ZenonT(30) DEF vars, DeltaDomains
  <2>2. \A m \in Nodes : pc[m] # "collect" => ListsChanges(delta[m])'
    BY <1>0, <1>2, SMT DEF vars, ListsChanges, Changed, WeightIn
  <2> QED BY <1>2, <2>1, <2>2 DEF vars, DeltaInv
<1> QED BY <1>1, <1>2, CollectLists, SwapLists DEF Next

\* A list of the changes, written over the old set, gives the new one.
LEMMA ChangesLead ==
  ASSUME DeltaInv, NEW n \in Nodes, pc[n] = "done",
         NEW before, before = [p \in Pubkeys |-> WeightIn(previousOperatorSet, p)],
         NEW d, d = delta[n]
  PROVE  /\ Copy!Overwritten(before, d, Len(d)) = [p \in Pubkeys |-> WeightIn(newOperatorSet, p)]
         /\ \A k \in 1..Len(d) : d[k].weight # Copy!Overwritten(before, d, k - 1)[d[k].pubkey]
<1>0. d \in Seq(Entries) /\ Len(d) \in Nat /\ ListsChanges(d)
  BY SMT DEF DeltaInv, DeltaDomains
<1>1. ASSUME NEW p \in Pubkeys
      PROVE  Copy!Overwritten(before, d, Len(d))[p] = WeightIn(newOperatorSet, p)
  <2> DEFINE writes == {k \in 1..Len(d) : d[k].pubkey = p}
  <2>1. CASE writes = {}
    <3>1. p \notin Changed
      BY <2>1, <1>0, SMT DEF ListsChanges
    <3> QED BY <2>1, <3>1 DEF Copy!Overwritten, Changed
  <2>2. CASE writes # {}
    <3>1. PICK k \in writes : TRUE
      BY <2>2
    <3>2. writes = {k}
      BY <3>1, <1>0, SMT DEF ListsChanges
    <3>3. (CHOOSE l \in writes : \A m \in writes : m <= l) = k
      BY <3>1, <3>2, SMT
    <3> QED BY <3>1, <3>2, <3>3, <1>0, SMT DEF Copy!Overwritten, ListsChanges
  <2> QED BY <2>1, <2>2
<1>2. ASSUME NEW k \in 1..Len(d)
      PROVE  d[k].weight # Copy!Overwritten(before, d, k - 1)[d[k].pubkey]
  <2> DEFINE p == d[k].pubkey
  <2>1. p \in Changed /\ p \in Pubkeys /\ d[k].weight = WeightIn(newOperatorSet, p)
    BY <1>0 DEF ListsChanges, Changed
  <2>2. {l \in 1..k - 1 : d[l].pubkey = p} = {}
    BY <1>0, SMT DEF ListsChanges
  <2>3. Copy!Overwritten(before, d, k - 1)[p] = WeightIn(previousOperatorSet, p)
    BY <2>1, <2>2 DEF Copy!Overwritten
  <2> QED BY <2>1, <2>3 DEF Changed
<1>3. Copy!Overwritten(before, d, Len(d)) =
        [p \in Pubkeys |-> Copy!Overwritten(before, d, Len(d))[p]]
  BY SMT DEF Copy!Overwritten
<1> QED BY <1>1, <1>2, <1>3

\* The list that a node computes for an operator set update leads from the previous
\* operator set to the new one, and none of its entries makes the rollup's contract
\* revert: for any operators for which sort.Slice is an insertion sort, every map order
\* and although the sort compares hashes that do not move with the entries.
THEOREM DeltaLeadsToNewSetHolds == Spec => []DeltaLeadsToNewSet
<1>1. Init => DeltaInv
  BY SMT DEF Init, DeltaInv, DeltaDomains
<1>2. DeltaInv => DeltaLeadsToNewSet
  BY ChangesLead, SMT DEF DeltaLeadsToNewSet
<1> QED BY <1>1, <1>2, DeltaStep, PTL DEF Spec
====
