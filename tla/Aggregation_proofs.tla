------------------------ MODULE Aggregation_proofs ------------------------
(***************************************************************************)
(* Machine-checked proofs about the BLS aggregation service                *)
(* (MessageBlsAggregation) and about the aggregator's loop on top of it    *)
(* (AggregatorLoop).                                                       *)
(***************************************************************************)
EXTENDS AggregatorLoop, TLAPS

\* A leaf that names no prover is Zenon's.
USE Zenon

-----------------------------------------------------------------------------
(* Lemmas about the operators the goroutine computes with. *)

\* The stake of a set of operators is a natural number.
LEMMA StakeIsNat ==
  ASSUME NEW q \in AvsStates \cup {NoStake}, NEW S \in SUBSET Operators
  PROVE  StakeOf(q, S) \in Nat
BY StakeAssumption

\* An operator outside the set adds its own stake.
LEMMA StakeOfOneMore ==
  ASSUME NEW q \in AvsStates \cup {NoStake}, NEW S \in SUBSET Operators,
         NEW o \in Operators \ S
  PROVE  StakeOf(q, S \cup {o}) = StakeOf(q, S) + q[o]
<1>1. {o} \in SUBSET Operators /\ S \cap {o} = {}
  OBVIOUS
<1>2. StakeOf(q, S \cup {o}) = StakeOf(q, S) + StakeOf(q, {o})
  BY <1>1, StakeAssumption
<1>3. StakeOf(q, {o}) = q[o]
  BY StakeAssumption
<1> QED BY <1>2, <1>3

\* getMessageBlsAggregationResponse builds a well-formed response.
LEMMA ResponseForType ==
  ASSUME TypeOK, NEW k \in Keys, NEW d \in Digests, NEW stake \in Nat,
         NEW bag \in Bags, NEW ok \in BOOLEAN, NEW force \in BOOLEAN
  PROVE  ResponseFor(k, d, stake, bag, ok, force) \in Responses
<1> DEFINE status == StatusOf(k, stake)
<1>1. status \in Statuses
  BY DEF StatusOf, Statuses
<1>2. (status = "full" \/ force) \in BOOLEAN
  OBVIOUS
<1>3. Members(k) \ SignersOf(bag) \in SUBSET Operators
  BY DEF Members
<1>4. NoSigs \in Bags
  BY DEF NoSigs, Bags
<1> HIDE DEF status
<1>5. CASE ok
  BY <1>1, <1>2, <1>3, <1>5 DEF ResponseFor, Responses, status
<1>6. CASE ~ok
  BY <1>4, <1>6 DEF ResponseFor, Responses, Statuses
<1> QED BY <1>5, <1>6

\* handleSignedMessageDigest keeps its maps well-formed and leaves the digest with
\* a first signer.
LEMMA AddSignatureType ==
  ASSUME TypeInv, NEW k \in Keys, NEW o \in Operators, NEW d \in Digests
  PROVE  /\ CellAfter(k, o, d) \in Bags
         /\ FirstAfter(k, o, d) \in [Digests -> Operators \cup {None}]
         /\ FirstAfter(k, o, d)[d] \in Operators
         /\ SigsAfter(k, o, d) \in [Digests -> Bags]
         /\ \A ok \in BOOLEAN : ResponseAfter(k, o, d, ok) \in Responses
<1> USE ConstantsAssumption
<1>1. /\ cell[k] \in [Operators -> Nat]
      /\ first[k] \in [Digests -> Operators \cup {None}]
      /\ sigs[k] \in [Digests -> [Operators -> Nat]]
  BY DEF TypeInv, TypeOK, Bags
<1>2. CellAfter(k, o, d) \in Bags
  BY <1>1, SMT DEF CellAfter, Bags
<1>3. /\ FirstAfter(k, o, d) \in [Digests -> Operators \cup {None}]
      /\ FirstAfter(k, o, d)[d] \in Operators
  BY <1>1 DEF FirstAfter
<1>4. SigsAfter(k, o, d) \in [Digests -> Bags]
  BY <1>1, SMT DEF SigsAfter, Bags
<1>5. ASSUME NEW ok \in BOOLEAN PROVE ResponseAfter(k, o, d, ok) \in Responses
  <2>1. CellAfter(k, o, d)[FirstAfter(k, o, d)[d]] \in Nat
    BY <1>2, <1>3 DEF Bags
  <2>2. SigsAfter(k, o, d)[d] \in Bags
    BY <1>4
  <2> QED BY <2>1, <2>2, ResponseForType DEF ResponseAfter, TypeInv
<1> QED BY <1>2, <1>3, <1>4, <1>5

\* An expired message's response is well-formed.
LEMMA ExpiredResponseType == ExpiredResponse \in Responses
BY DEF ExpiredResponse, Responses, Statuses, NoSigs, Bags

\* A call that has returned is well-formed.
LEMMA ReturnedType ==
  ASSUME NEW r \in Results
  PROVE  Returned(r) \in Calls /\ Returned(r).pc = "idle"
BY DEF Returned, Calls, Pcs

\* So is one that goes on after InitializeMessageIfNotExists returned nil.
LEMMA InitializedType ==
  ASSUME NEW c \in Calls
  PROVE  /\ Initialized(c) \in Calls
         /\ Initialized(c).pc \in {"idle", "lookup"}
         /\ Initialized(c).pc = "lookup" =>
              Initialized(c).key = c.key /\ Initialized(c).op = c.op
              /\ Initialized(c).digest = c.digest /\ c.op # None
<1>1. CASE c.op = None
  BY <1>1, ReturnedType DEF Initialized, Results
<1>2. CASE c.op # None
  BY <1>2 DEF Initialized, Calls, Pcs
<1> QED BY <1>1, <1>2

-----------------------------------------------------------------------------
(* Type correctness and the bookkeeping of channels and first signers. *)

\* A new service (NewMessageBlsAggregatorService) is well-formed.
LEMMA TypeInvInit == Init => TypeInv
<1> SUFFICES ASSUME Init PROVE TypeInv
  OBVIOUS
<1> USE ConstantsAssumption DEF Init
<1>1. TypeOK
  <2>1. Returned("nil") \in Calls
    BY ReturnedType DEF Results
  <2>2. NoStake \in Bags /\ NoSignatures \in [Digests -> Bags]
    BY DEF NoStake, NoSignatures, NoSigs, Bags
  <2>3. NoFirst \in [Digests -> Operators \cup {None}]
    BY DEF NoFirst
  <2> QED BY <2>1, <2>2, <2>3 DEF TypeOK, Phases
<1>2. \A s \in Senders : calls[s].pc = "idle"
  BY ReturnedType DEF Results
<1>3. FirstSigners
  BY DEF FirstSigners, NoFirst, NoSignatures, NoSigs
<1> QED BY <1>1, <1>2, <1>3 DEF TypeInv, CallsOK, OneRoundAtATime

\* A step that only changes the call of one sender, and not into a fetch.
LEMMA CallChanges ==
  ASSUME TypeInv, NEW s \in Senders, NEW c \in Calls,
         calls' = [calls EXCEPT ![s] = c],
         c.pc # "idle" =>
           /\ c.key \in Keys
           /\ \/ c.op = None /\ c.pc \in {"initialize", "fetch"}
              \/ c.op \in Operators /\ c.digest \in Digests,
         c.pc # "fetch"
  PROVE  /\ calls' \in [Senders -> Calls]
         /\ CallsOK'
         /\ \A t \in Senders : calls'[t].pc = "fetch" => t # s /\ calls'[t] = calls[t]
<1>1. calls \in [Senders -> Calls]
  BY DEF TypeInv, TypeOK
<1>2. \A t \in Senders : calls'[t] = IF t = s THEN c ELSE calls[t]
  BY <1>1
<1>3. CallsOK'
  BY <1>2 DEF CallsOK, TypeInv
<1> QED BY <1>1, <1>2, <1>3

\* One round at a time survives a step that leaves the channels alone, starts no
\* fetch and no goroutine.
LEMMA OneRoundKept ==
  ASSUME TypeInv, UNCHANGED <<signedMessageCs, rounds>>,
         \A t \in Senders : calls'[t].pc = "fetch" => calls'[t] = calls[t],
         \A k \in Keys : phase[k] = "none" => phase'[k] = "none"
  PROVE  OneRoundAtATime'
BY SMT DEF OneRoundAtATime, TypeInv

\* A step of a caller that leaves channels and goroutines alone and starts no fetch.
LEMMA CallOnly ==
  ASSUME TypeInv, UNCHANGED <<signedMessageCs, rounds, aggVars, made>>,
         calls' \in [Senders -> Calls], CallsOK',
         \A t \in Senders : calls'[t].pc = "fetch" => calls'[t] = calls[t]
  PROVE  TypeInv'
<1>1. TypeOK'
  BY DEF TypeInv, TypeOK, aggVars
<1>2. OneRoundAtATime'
  BY OneRoundKept DEF aggVars
<1>3. FirstSigners'
  BY DEF TypeInv, FirstSigners, aggVars
<1> QED BY <1>1, <1>2, <1>3 DEF TypeInv

\* handleSignedMessageDigest records a first signer and never loses one.
LEMMA AddSignatureFirst ==
  ASSUME TypeInv, NEW k \in Keys, NEW o \in Operators, NEW d \in Digests,
         AddSignature(k, o, d)
  PROVE  /\ first' \in [Keys -> [Digests -> Operators \cup {None}]]
         /\ sigs' \in [Keys -> [Digests -> Bags]]
         /\ cell' \in [Keys -> Bags]
         /\ first'[k][d] \in Operators
         /\ \A i \in Keys, e \in Digests :
              IF first'[i][e] = None THEN \A p \in Operators : sigs'[i][e][p] = 0
              ELSE sigs'[i][e][first'[i][e]] > 0
         /\ \A i \in Keys, e \in Digests : first[i][e] # None => first'[i][e] # None
<1> USE ConstantsAssumption
<1>1. /\ cell \in [Keys -> [Operators -> Nat]]
      /\ first \in [Keys -> [Digests -> Operators \cup {None}]]
      /\ sigs \in [Keys -> [Digests -> [Operators -> Nat]]]
  BY DEF TypeInv, TypeOK, Bags
<1>2. /\ first' = [first EXCEPT ![k] = FirstAfter(k, o, d)]
      /\ sigs' = [sigs EXCEPT ![k] = SigsAfter(k, o, d)]
      /\ cell' = [cell EXCEPT ![k] = CellAfter(k, o, d)]
  BY DEF AddSignature
<1>3. /\ first' \in [Keys -> [Digests -> Operators \cup {None}]]
      /\ sigs' \in [Keys -> [Digests -> Bags]]
      /\ cell' \in [Keys -> Bags]
      /\ first'[k][d] \in Operators
  BY <1>1, <1>2, AddSignatureType DEF Bags
<1>4. ASSUME NEW i \in Keys, NEW e \in Digests
      PROVE  /\ IF first'[i][e] = None THEN \A p \in Operators : sigs'[i][e][p] = 0
                ELSE sigs'[i][e][first'[i][e]] > 0
             /\ first[i][e] # None => first'[i][e] # None
  <2>1. IF first[i][e] = None THEN \A p \in Operators : sigs[i][e][p] = 0
        ELSE sigs[i][e][first[i][e]] > 0
    BY DEF TypeInv, FirstSigners
  <2>2. CASE i # k
    BY <2>1, <2>2, <1>1, <1>2
  <2>3. CASE i = k /\ e # d
    BY <2>1, <2>3, <1>1, <1>2 DEF FirstAfter, SigsAfter
  <2>4. CASE i = k /\ e = d
    BY <2>1, <2>4, <1>1, <1>2, SMT DEF FirstAfter, SigsAfter
  <2> QED BY <2>2, <2>3, <2>4
<1> QED BY <1>3, <1>4

\* Every step of a caller or of an aggregation goroutine keeps the state
\* well-formed, one round per key, and a signer behind every digest's total.
LEMMA TypeInvNext == TypeInv /\ [Next]_vars => TypeInv'
<1> SUFFICES ASSUME TypeInv, [Next]_vars PROVE TypeInv'
  OBVIOUS
<1> USE ConstantsAssumption
<1>0. /\ TypeOK /\ CallsOK /\ FirstSigners /\ OneRoundAtATime
      /\ calls \in [Senders -> Calls]
      /\ Returned("nil") \in Calls /\ Returned("error") \in Calls
      /\ Returned("nil").pc = "idle" /\ Returned("error").pc = "idle"
  BY ReturnedType DEF TypeInv, TypeOK, Results
<1>1. ASSUME NEW s \in Senders, NEW o \in Operators, NEW k \in Keys, NEW d \in Digests,
             Call(s, o, k, d)
      PROVE  TypeInv'
  <2> DEFINE c == [pc |-> IF k \in TaskKeys THEN "lookup" ELSE "initialize",
                   op |-> o, key |-> k, digest |-> d, chan |-> 0, result |-> "nil"]
  <2>1. c \in Calls /\ calls' = [calls EXCEPT ![s] = c] /\ c.pc # "fetch"
    BY <1>1 DEF Call, Calls, Pcs, Results
  <2>2. /\ calls' \in [Senders -> Calls] /\ CallsOK'
        /\ \A t \in Senders : calls'[t].pc = "fetch" => calls'[t] = calls[t]
    BY <2>1, CallChanges
  <2>3. TypeOK'
    BY <1>0, <1>1, <2>2, SMT DEF Call, TypeOK, aggVars
  <2>4. OneRoundAtATime'
    BY <1>1, <2>2, OneRoundKept DEF Call, aggVars
  <2>5. FirstSigners'
    BY <1>0, <1>1 DEF Call, aggVars, FirstSigners
  <2> QED BY <2>2, <2>3, <2>4, <2>5 DEF TypeInv
<1>2. ASSUME NEW s \in Senders, NEW k \in TaskKeys, CallForTask(s, k)
      PROVE  TypeInv'
  <2> DEFINE c == [pc |-> "initialize", op |-> None, key |-> k, digest |-> None,
                   chan |-> 0, result |-> "nil"]
  <2>1. c \in Calls /\ calls' = [calls EXCEPT ![s] = c] /\ c.pc # "fetch" /\ k \in Keys
    BY <1>2 DEF CallForTask, Calls, Pcs, Results
  <2>2. /\ calls' \in [Senders -> Calls] /\ CallsOK'
        /\ \A t \in Senders : calls'[t].pc = "fetch" => calls'[t] = calls[t]
    BY <2>1, CallChanges
  <2>3. TypeOK'
    BY <1>0, <1>2, <2>2 DEF CallForTask, TypeOK, aggVars
  <2>4. OneRoundAtATime'
    BY <1>2, <2>2, OneRoundKept DEF CallForTask, aggVars
  <2>5. FirstSigners'
    BY <1>0, <1>2 DEF CallForTask, aggVars, FirstSigners
  <2> QED BY <2>2, <2>3, <2>4, <2>5 DEF TypeInv
<1>3. ASSUME NEW s \in Senders, InitializeMessageChan(s)
      PROVE  TypeInv'
  <2> DEFINE k == calls[s].key
  <2>0. k \in Keys /\ calls[s] \in Calls
    BY <1>0, <1>3 DEF InitializeMessageChan, CallsOK
  <2>1. CASE /\ calls' = [calls EXCEPT ![s] = Initialized(calls[s])]
             /\ UNCHANGED <<signedMessageCs, rounds, aggVars, made>>
    <3>1. /\ calls' \in [Senders -> Calls] /\ CallsOK'
          /\ \A t \in Senders : calls'[t].pc = "fetch" => calls'[t] = calls[t]
      <4> DEFINE c == Initialized(calls[s])
      <4>1. c \in Calls /\ c.pc \in {"idle", "lookup"}
        BY <2>0, InitializedType
      <4>2. c.pc = "lookup" => c.key \in Keys /\ c.op \in Operators /\ c.digest \in Digests
        BY <2>0, <1>0, <1>3, InitializedType DEF CallsOK, InitializeMessageChan
      <4> HIDE DEF c
      <4> QED BY <2>1, <4>1, <4>2, CallChanges DEF c
    <3> QED BY <2>1, <3>1, CallOnly
  <2>2. CASE /\ signedMessageCs[k] = 0
             /\ rounds' = [rounds EXCEPT ![k] = @ + 1]
             /\ signedMessageCs' = [signedMessageCs EXCEPT ![k] = rounds[k] + 1]
             /\ calls' = [calls EXCEPT ![s].pc = "fetch"]
             /\ UNCHANGED <<aggVars, made>>
    <3> HIDE DEF k
    <3>0. rounds \in [Keys -> Nat] /\ signedMessageCs \in [Keys -> Nat]
      BY <1>0 DEF TypeOK
    <3>1. /\ \A t \in Senders \ {s} : calls'[t] = calls[t]
          /\ calls'[s] \in Calls /\ calls'[s].pc = "fetch" /\ calls'[s].key = k
          /\ calls'[s].op = calls[s].op /\ calls'[s].digest = calls[s].digest
      BY <1>0, <2>0, <2>2, SMT DEF k, Calls, Pcs
    <3>2. calls' \in [Senders -> Calls]
      BY <1>0, <2>2, <3>1
    <3>3. CallsOK'
      BY <1>0, <1>3, <2>0, <3>1, SMT DEF CallsOK, InitializeMessageChan
    <3>4. TypeOK'
      BY <1>0, <2>0, <2>2, <3>0, <3>2, SMT DEF TypeOK, aggVars
    <3>5. /\ phase[k] = "none"
          /\ \A t \in Senders : ~(calls[t].pc = "fetch" /\ calls[t].key = k)
      BY <1>0, <2>0, <2>2, <3>0, SMT DEF OneRoundAtATime
    <3>6. OneRoundAtATime'
      BY <1>0, <2>0, <2>2, <3>0, <3>1, <3>5, SMT DEF OneRoundAtATime, aggVars
    <3>7. FirstSigners'
      BY <1>0, <2>2 DEF FirstSigners, aggVars
    <3> QED BY <3>3, <3>4, <3>6, <3>7 DEF TypeInv
  <2> QED BY <1>3, <2>1, <2>2 DEF InitializeMessageChan
<1>4. ASSUME NEW s \in Senders, StartAggregation(s)
      PROVE  TypeInv'
  <2> DEFINE k == calls[s].key
             c == Initialized(calls[s])
  <2>0. k \in Keys /\ calls[s] \in Calls /\ calls[s].pc = "fetch"
    BY <1>0, <1>4 DEF StartAggregation, CallsOK
  <2>1. c \in Calls /\ c.pc \in {"idle", "lookup"}
    BY <2>0, InitializedType
  <2>2. c.pc = "lookup" => c.key \in Keys /\ c.op \in Operators /\ c.digest \in Digests
    BY <2>0, <1>0, InitializedType DEF CallsOK
  <2>3. calls' = [calls EXCEPT ![s] = c]
    BY <1>4 DEF StartAggregation
  <2> HIDE DEF c
  <2>4. /\ calls' \in [Senders -> Calls] /\ CallsOK'
        /\ \A t \in Senders : calls'[t].pc = "fetch" => t # s /\ calls'[t] = calls[t]
    BY <2>1, <2>2, <2>3, CallChanges
  <2>5. PICK q \in AvsStates :
          /\ avs' = [avs EXCEPT ![k] = q]
          /\ cell' = [cell EXCEPT ![k] = q]
    BY <1>4 DEF StartAggregation
  <2>6. /\ phase' = [phase EXCEPT ![k] = "preThreshold"]
        /\ first' = [first EXCEPT ![k] = NoFirst]
        /\ sigs' = [sigs EXCEPT ![k] = NoSignatures]
        /\ last' = [last EXCEPT ![k] = None]
        /\ UNCHANGED <<signedMessageCs, rounds, majority, pending, made>>
    BY <1>4 DEF StartAggregation
  <2> HIDE DEF k
  <2>7. /\ q \in Bags /\ NoFirst \in [Digests -> Operators \cup {None}]
        /\ NoSignatures \in [Digests -> Bags]
    BY DEF Bags, NoFirst, NoSignatures, NoSigs
  <2>8. TypeOK'
    BY <1>0, <2>0, <2>4, <2>5, <2>6, <2>7 DEF TypeOK, Phases
  <2>9. /\ phase \in [Keys -> Phases] /\ rounds \in [Keys -> Nat]
        /\ signedMessageCs[k] = rounds[k] /\ rounds[k] > 0
        /\ \A t \in Senders \ {s} : ~(calls[t].pc = "fetch" /\ calls[t].key = k)
    BY <1>0, <1>4, <2>0 DEF OneRoundAtATime, TypeOK, k
  <2>10. OneRoundAtATime'
    BY <1>0, <2>0, <2>4, <2>6, <2>9, SMT DEF OneRoundAtATime
  <2>11. FirstSigners'
    BY <1>0, <2>0, <2>6, SMT DEF FirstSigners, TypeOK, NoFirst, NoSignatures, NoSigs
  <2> QED BY <2>4, <2>8, <2>10, <2>11 DEF TypeInv
<1>5. ASSUME NEW s \in Senders, FetchFails(s)
      PROVE  TypeInv'
  <2>1. /\ calls' \in [Senders -> Calls] /\ CallsOK'
        /\ \A t \in Senders : calls'[t].pc = "fetch" => calls'[t] = calls[t]
    BY <1>0, <1>5, CallChanges DEF FetchFails
  <2> QED BY <1>5, <2>1, CallOnly DEF FetchFails
<1>6. ASSUME NEW s \in Senders, LookupChan(s)
      PROVE  TypeInv'
  <2> DEFINE c == IF signedMessageCs[calls[s].key] = 0 THEN Returned("error")
                  ELSE [calls[s] EXCEPT !.pc = "send",
                                        !.chan = signedMessageCs[calls[s].key]]
  <2>0. /\ calls[s].key \in Keys /\ calls[s].op \in Operators
        /\ calls[s].digest \in Digests /\ calls[s] \in Calls
        /\ signedMessageCs[calls[s].key] \in Nat
    BY <1>0, <1>6 DEF LookupChan, CallsOK, TypeOK
  <2>1. /\ c \in Calls /\ c.pc \in {"idle", "send"}
        /\ c.pc = "send" => c.key \in Keys /\ c.op \in Operators /\ c.digest \in Digests
    BY <1>0, <2>0 DEF Calls, Pcs
  <2>2. calls' = [calls EXCEPT ![s] = c]
    BY <1>6 DEF LookupChan
  <2> HIDE DEF c
  <2>3. /\ calls' \in [Senders -> Calls] /\ CallsOK'
        /\ \A t \in Senders : calls'[t].pc = "fetch" => calls'[t] = calls[t]
    BY <2>1, <2>2, CallChanges
  <2> QED BY <1>6, <2>3, CallOnly DEF LookupChan
<1>7. ASSUME NEW s \in Senders, NEW k \in Keys, RejectSignature(s, k) \/ IgnoreNonMajority(s, k)
      PROVE  TypeInv'
  <2>1. /\ calls' \in [Senders -> Calls] /\ CallsOK'
        /\ \A t \in Senders : calls'[t].pc = "fetch" => calls'[t] = calls[t]
    BY <1>0, <1>7, CallChanges DEF RejectSignature, IgnoreNonMajority, Answer
  <2> QED BY <1>7, <2>1, CallOnly DEF RejectSignature, IgnoreNonMajority
<1>8. ASSUME NEW s \in Senders, NEW k \in Keys, NEW ok \in BOOLEAN,
             HandleSignedMessagePreThreshold(s, k, ok)
      PROVE  TypeInv'
  <2> DEFINE o == calls[s].op
             d == calls[s].digest
             r == ResponseAfter(k, o, d, ok)
  <2>0. o \in Operators /\ d \in Digests /\ phase[k] = "preThreshold"
    BY <1>0, <1>8 DEF HandleSignedMessagePreThreshold, Offers, Blocked, CallsOK
  <2>1. /\ AddSignature(k, o, d)
        /\ calls' = [calls EXCEPT ![s] = Returned("nil")]
        /\ pending' = [pending EXCEPT ![k] = IF r.status = "notReached" THEN None ELSE r]
        /\ phase' = [phase EXCEPT ![k] =
             CASE r.status = "reached" -> "thresholdReached"
               [] r.status = "full" -> "closing"
               [] OTHER -> "preThreshold"]
        /\ majority' = [majority EXCEPT ![k] = IF r.status = "reached" THEN d ELSE @]
        /\ UNCHANGED <<signedMessageCs, rounds, avs, last, made>>
    BY <1>8 DEF HandleSignedMessagePreThreshold, Answer
  <2> HIDE DEF o, d
  <2>2. r \in Responses
    BY <2>0, AddSignatureType
  <2> HIDE DEF r
  <2>3. /\ calls' \in [Senders -> Calls] /\ CallsOK'
        /\ \A t \in Senders : calls'[t].pc = "fetch" => calls'[t] = calls[t]
    BY <1>0, <2>1, CallChanges
  <2>4. phase \in [Keys -> Phases] /\ majority \in [Keys -> Digests \cup {None}]
    BY <1>0 DEF TypeOK
  <2>5. TypeOK'
    BY <1>0, <2>0, <2>1, <2>2, <2>3, <2>4, AddSignatureFirst DEF TypeOK, Phases
  <2>6. OneRoundAtATime'
    BY <2>0, <2>1, <2>3, <2>4, OneRoundKept
  <2>7. ASSUME NEW i \in Keys, phase'[i] = "thresholdReached"
        PROVE  majority'[i] \in Digests /\ first'[i][majority'[i]] # None
    <3>1. CASE i # k
      BY <1>0, <2>0, <2>1, <2>4, <2>7, <3>1, AddSignatureFirst DEF FirstSigners
    <3>2. CASE i = k
      <4>1. r.status = "reached"
        BY <2>1, <2>4, <2>7, <3>2
      <4>2. majority'[i] = d /\ first'[k][d] \in Operators
        BY <2>0, <2>1, <2>4, <3>2, <4>1, AddSignatureFirst
      <4> QED BY <2>0, <3>2, <4>2
    <3> QED BY <3>1, <3>2
  <2>8. FirstSigners'
    BY <2>0, <2>1, <2>7, AddSignatureFirst DEF FirstSigners
  <2> QED BY <2>3, <2>5, <2>6, <2>8 DEF TypeInv
<1>9. ASSUME NEW s \in Senders, NEW k \in Keys, NEW ok \in BOOLEAN,
             HandleSignedMessageThresholdReached(s, k, ok)
      PROVE  TypeInv'
  <2> DEFINE o == calls[s].op
             d == calls[s].digest
             r == ResponseAfter(k, o, d, ok)
  <2>0. o \in Operators /\ d \in Digests /\ phase[k] = "thresholdReached"
    BY <1>0, <1>9 DEF HandleSignedMessageThresholdReached, Offers, Blocked, CallsOK
  <2>1. /\ AddSignature(k, o, d)
        /\ calls' = [calls EXCEPT ![s] = Returned("nil")]
        /\ pending' = [pending EXCEPT ![k] = r]
        /\ phase' = [phase EXCEPT ![k] = IF r.status = "full" THEN "closing" ELSE @]
        /\ UNCHANGED <<signedMessageCs, rounds, avs, majority, last, made>>
    BY <1>9 DEF HandleSignedMessageThresholdReached, Answer
  <2> HIDE DEF o, d
  <2>2. r \in Responses
    BY <2>0, AddSignatureType
  <2> HIDE DEF r
  <2>3. /\ calls' \in [Senders -> Calls] /\ CallsOK'
        /\ \A t \in Senders : calls'[t].pc = "fetch" => calls'[t] = calls[t]
    BY <1>0, <2>1, CallChanges
  <2>4. phase \in [Keys -> Phases]
    BY <1>0 DEF TypeOK
  <2>5. TypeOK'
    BY <1>0, <2>0, <2>1, <2>2, <2>3, <2>4, AddSignatureFirst DEF TypeOK, Phases
  <2>6. OneRoundAtATime'
    BY <2>0, <2>1, <2>3, <2>4, OneRoundKept
  <2>7. FirstSigners'
    BY <1>0, <2>0, <2>1, <2>4, AddSignatureFirst DEF FirstSigners
  <2> QED BY <2>3, <2>5, <2>6, <2>7 DEF TypeInv
<1>10. ASSUME NEW k \in Keys, MessageExpired(k)
       PROVE  TypeInv'
  <2>1. TypeOK'
    BY <1>0, <1>10, ExpiredResponseType DEF TypeOK, MessageExpired, Phases
  <2>2. OneRoundAtATime'
    BY <1>0, <1>10, OneRoundKept DEF TypeOK, MessageExpired
  <2>3. CallsOK'
    BY <1>0, <1>10 DEF CallsOK, MessageExpired
  <2>4. FirstSigners'
    BY <1>0, <1>10, SMT DEF TypeOK, FirstSigners, MessageExpired
  <2> QED BY <2>1, <2>2, <2>3, <2>4 DEF TypeInv
<1>11. ASSUME NEW k \in Keys, NEW ok \in BOOLEAN, AggregationTimeout(k, ok)
       PROVE  TypeInv'
  <2> DEFINE d == majority[k]
             r == ResponseFor(k, d, cell[k][first[k][d]], sigs[k][d], ok, TRUE)
  <2>0. d \in Digests /\ first[k][d] # None
    BY <1>0, <1>11 DEF AggregationTimeout, FirstSigners
  <2>1. d \in Digests /\ first[k][d] \in Operators
    BY <1>0, <2>0, SMT DEF TypeOK
  <2>2. r \in Responses
    <3>1. cell[k][first[k][d]] \in Nat /\ sigs[k][d] \in Bags
      BY <1>0, <2>1, SMT DEF TypeOK, Bags
    <3> QED BY <1>0, <2>1, <3>1, ResponseForType
  <2>3. pending' = [pending EXCEPT ![k] = r]
    BY <1>11 DEF AggregationTimeout
  <2> HIDE DEF r
  <2>4. /\ phase[k] = "thresholdReached"
        /\ phase' = [phase EXCEPT ![k] = "closing"]
        /\ UNCHANGED <<signedMessageCs, rounds, avs, cell, first, sigs, majority, last,
                       calls, made>>
    BY <1>11 DEF AggregationTimeout
  <2>5. TypeOK'
    BY <1>0, <2>2, <2>3, <2>4 DEF TypeOK, Phases
  <2>6. OneRoundAtATime'
    BY <1>0, <2>4, OneRoundKept DEF TypeOK
  <2>7. CallsOK'
    BY <1>0, <2>4 DEF CallsOK
  <2>8. FirstSigners'
    BY <1>0, <2>4 DEF TypeOK, FirstSigners
  <2> QED BY <2>5, <2>6, <2>7, <2>8 DEF TypeInv
<1>12. ASSUME NEW k \in Keys, DeliverResponse(k)
       PROVE  TypeInv'
  <2>1. TypeOK'
    BY <1>0, <1>12 DEF TypeOK, DeliverResponse
  <2>2. OneRoundAtATime'
    BY <1>0, <1>12, OneRoundKept DEF DeliverResponse
  <2>3. CallsOK' /\ FirstSigners'
    BY <1>0, <1>12 DEF CallsOK, FirstSigners, DeliverResponse
  <2> QED BY <2>1, <2>2, <2>3 DEF TypeInv
<1>13. ASSUME NEW k \in Keys, CloseMessageGoroutine(k)
       PROVE  TypeInv'
  <2>1. /\ NoStake \in Bags /\ NoFirst \in [Digests -> Operators \cup {None}]
        /\ NoSignatures \in [Digests -> Bags]
    BY DEF Bags, NoStake, NoFirst, NoSignatures, NoSigs
  <2>2. TypeOK'
    BY <1>0, <1>13, <2>1 DEF TypeOK, CloseMessageGoroutine, Phases
  <2>3. FirstSigners'
    BY <1>0, <1>13, SMT DEF FirstSigners, TypeOK, CloseMessageGoroutine, NoFirst, NoSignatures, NoSigs
  <2>4. OneRoundAtATime'
    BY <1>0, <1>13, SMT DEF OneRoundAtATime, TypeOK, CloseMessageGoroutine
  <2> QED BY <1>0, <1>13, <2>2, <2>3, <2>4 DEF TypeInv, CallsOK, CloseMessageGoroutine
<1>14. CASE UNCHANGED vars
  BY <1>0, <1>14, OneRoundKept DEF TypeInv, TypeOK, CallsOK, FirstSigners, vars
<1> QED
  BY <1>1, <1>2, <1>3, <1>4, <1>5, <1>6, <1>7, <1>8, <1>9, <1>10, <1>11, <1>12, <1>13,
     <1>14 DEF Next, CallStep, GoroutineStep

\* The service's state is always well-formed: channels, rounds, stake maps,
\* signature aggregates, responses and calls stay in their domains.
THEOREM TypeCorrect == Spec => []TypeOK
<1>1. Spec => []TypeInv
  BY TypeInvInit, TypeInvNext, PTL DEF Spec
<1>2. TypeInv => TypeOK
  BY DEF TypeInv
<1> QED BY <1>1, <1>2, PTL

\* initializeMessageChan's check under the lock gives every key at most one
\* fetching caller or aggregation goroutine at a time.
THEOREM OneRoundAtATimeHolds == Spec => []OneRoundAtATime
<1>1. Spec => []TypeInv
  BY TypeInvInit, TypeInvNext, PTL DEF Spec
<1>2. TypeInv => OneRoundAtATime
  BY DEF TypeInv
<1> QED BY <1>1, <1>2, PTL

-----------------------------------------------------------------------------
(* Stake accounting and the responses of a round. *)

\* A key whose round is left alone keeps its part of the invariant.
LEMMA QuietKey ==
  ASSUME NEW k, KeyInv(k), avs'[k] = avs[k], cell'[k] = cell[k], first'[k] = first[k],
         sigs'[k] = sigs[k], phase'[k] = phase[k], pending'[k] = pending[k],
         last'[k] = last[k], majority'[k] = majority[k]
  PROVE  KeyInv(k)'
BY SMT DEF KeyInv, ExactStakes, ResponsesFitPhase, ResponseBacked, NoQuorumMissed,
       EndsFinished, DupFree, HasQuorum, StakeThresholdsMet, TotalStake, SignedStake,
       Signers, SignersOf, IsQuorumResponse

\* The accounting of a key depends on its stakes and signatures only.
LEMMA ExactStakesKept ==
  ASSUME NEW k, ExactStakes(k), avs'[k] = avs[k], cell'[k] = cell[k],
         first'[k] = first[k], sigs'[k] = sigs[k]
  PROVE  ExactStakes(k)'
BY DEF ExactStakes, DupFree, SignedStake, Signers, SignersOf

\* If no operator has two signatures in the round after handleSignedMessageDigest
\* added one, none had before, and the signature's operator had none at all.
LEMMA DupFreeBefore ==
  ASSUME TypeInv, NEW k \in Keys, NEW o \in Operators, NEW d \in Digests,
         AddSignature(k, o, d), DupFree(k)'
  PROVE  DupFree(k) /\ \A e \in Digests : sigs[k][e][o] = 0
<1>1. sigs \in [Keys -> [Digests -> [Operators -> Nat]]]
  BY DEF TypeInv, TypeOK, Bags
<1>2. sigs'[k] = [sigs[k] EXCEPT ![d][o] = @ + 1]
  BY <1>1 DEF AddSignature, SigsAfter
<1>3. \A e \in Digests, p \in Operators :
        /\ sigs[k][e][p] \in Nat
        /\ sigs'[k][e][p] = IF e = d /\ p = o THEN sigs[k][e][p] + 1 ELSE sigs[k][e][p]
  <2> SUFFICES ASSUME NEW e \in Digests, NEW p \in Operators
               PROVE  /\ sigs[k][e][p] \in Nat
                      /\ sigs'[k][e][p] = IF e = d /\ p = o THEN sigs[k][e][p] + 1
                                         ELSE sigs[k][e][p]
    OBVIOUS
  <2>1. sigs[k] \in [Digests -> [Operators -> Nat]]
    BY <1>1
  <2>2. CASE e = d
    <3>1. /\ sigs[k][d] \in [Operators -> Nat]
          /\ sigs'[k][d] = [sigs[k][d] EXCEPT ![o] = sigs[k][d][o] + 1]
      BY <1>2, <2>1
    <3> QED BY <2>2, <3>1
  <2>3. CASE e # d
    BY <1>2, <2>1, <2>3
  <2> QED BY <2>2, <2>3
<1>4. \A e \in Digests : sigs[k][e][o] = 0
  BY <1>3, SMT DEF DupFree
<1>5. DupFree(k)
  BY <1>3, SMT DEF DupFree
<1> QED BY <1>4, <1>5

\* The signers of a digest after handleSignedMessageDigest.
LEMMA SignersAfter ==
  ASSUME TypeInv, NEW k \in Keys, NEW o \in Operators, NEW d \in Digests,
         AddSignature(k, o, d)
  PROVE  /\ Signers(k, d)' = Signers(k, d) \cup {o}
         /\ \A e \in Digests \ {d} : Signers(k, e)' = Signers(k, e)
<1>1. sigs \in [Keys -> [Digests -> [Operators -> Nat]]]
  BY DEF TypeInv, TypeOK, Bags
<1>2. sigs'[k] = [sigs[k] EXCEPT ![d][o] = @ + 1]
  BY <1>1 DEF AddSignature, SigsAfter
<1> QED BY <1>1, <1>2, SMT DEF Signers, SignersOf

\* The signature handleSignedMessageDigest adds brings its operator's stake.
LEMMA SignedStakeAfter ==
  ASSUME TypeInv, NEW k \in Keys, NEW o \in Operators, NEW d \in Digests,
         AddSignature(k, o, d), avs'[k] = avs[k], DupFree(k)'
  PROVE  SignedStake(k, d)' = SignedStake(k, d) + avs[k][o]
<1>1. /\ o \in Operators \ Signers(k, d)
      /\ Signers(k, d) \in SUBSET Operators
      /\ avs[k] \in AvsStates \cup {NoStake}
  BY DupFreeBefore, SMT DEF Signers, SignersOf, TypeInv, TypeOK
<1>2. Signers(k, d)' = Signers(k, d) \cup {o}
  BY SignersAfter
<1>3. StakeOf(avs[k], Signers(k, d) \cup {o}) = StakeOf(avs[k], Signers(k, d)) + avs[k][o]
  BY <1>1, StakeOfOneMore
<1>4. SignedStake(k, d)' = StakeOf(avs[k], Signers(k, d) \cup {o})
  BY <1>2 DEF SignedStake
<1> QED BY <1>3, <1>4 DEF SignedStake

\* The accounting step: in a round without double signatures the stake that
\* handleSignedMessageDigest leaves in the digest's map is the stake of its signers.
LEMMA ExactStakesAfter ==
  ASSUME TypeInv, NEW k \in Keys, NEW o \in Operators, NEW d \in Digests,
         ExactStakes(k), AddSignature(k, o, d), avs'[k] = avs[k], DupFree(k)'
  PROVE  /\ ExactStakes(k)'
         /\ CellAfter(k, o, d)[FirstAfter(k, o, d)[d]] = SignedStake(k, d)'
<1> USE ConstantsAssumption
<1>0. /\ cell[k] \in [Operators -> Nat]
      /\ first[k] \in [Digests -> Operators \cup {None}]
      /\ avs[k] \in AvsStates \cup {NoStake}
      /\ cell'[k] = CellAfter(k, o, d)
      /\ first'[k] = FirstAfter(k, o, d)
  BY DEF TypeInv, TypeOK, Bags, AddSignature
<1>1. DupFree(k) /\ \A e \in Digests : sigs[k][e][o] = 0
  BY DupFreeBefore
<1>2. \A e \in Digests :
        IF first[k][e] = None THEN \A p \in Operators : sigs[k][e][p] = 0
        ELSE sigs[k][e][first[k][e]] > 0
  BY DEF TypeInv, FirstSigners
<1>3. \A e \in Digests : first[k][e] # o
  BY <1>1, <1>2, SMT
<1>4. cell[k][o] = avs[k][o]
  BY <1>1, <1>3 DEF ExactStakes
<1>5. /\ o \in Operators \ Signers(k, d)
      /\ Signers(k, d) \in SUBSET Operators
  BY <1>1, SMT DEF Signers, SignersOf
<1>6. SignedStake(k, d)' = SignedStake(k, d) + avs[k][o]
  BY SignedStakeAfter
<1>7. \A e \in Digests \ {d} : SignedStake(k, e)' = SignedStake(k, e)
  BY SignersAfter DEF SignedStake
<1>8. CASE first[k][d] = None
  <2>1. Signers(k, d) = {}
    BY <1>2, <1>8, SMT DEF Signers, SignersOf
  <2>2. SignedStake(k, d)' = avs[k][o]
    BY <1>0, <1>4, <1>6, <2>1, StakeAssumption, SMT DEF SignedStake
  <2>3. cell'[k] = cell[k] /\ first'[k] = [first[k] EXCEPT ![d] = o]
    BY <1>0, <1>8 DEF CellAfter, FirstAfter
  <2>4. ASSUME NEW e \in Digests, first'[k][e] # None
        PROVE  cell'[k][first'[k][e]] = SignedStake(k, e)'
    <3>1. CASE e = d
      BY <1>0, <1>4, <2>2, <2>3, <3>1
    <3>2. CASE e # d
      <4>1. first'[k][e] = first[k][e]
        BY <1>0, <2>3, <3>2
      <4>2. cell[k][first[k][e]] = SignedStake(k, e)
        BY <1>1, <2>4, <4>1 DEF ExactStakes
      <4>3. SignedStake(k, e)' = SignedStake(k, e)
        BY <1>7, <3>2
      <4> QED BY <2>3, <4>1, <4>2, <4>3
    <3> QED BY <3>1, <3>2
  <2>5. ASSUME NEW p \in Operators, \A e \in Digests : first'[k][e] # p
        PROVE  cell'[k][p] = avs'[k][p]
    <3>1. \A e \in Digests : first[k][e] # p
      BY <1>0, <1>8, <2>3, <2>5
    <3> QED BY <1>1, <2>3, <3>1 DEF ExactStakes
  <2>6. ExactStakes(k)'
    BY <2>4, <2>5 DEF ExactStakes
  <2> QED BY <1>0, <1>4, <2>2, <2>3, <2>6
<1>9. CASE first[k][d] # None
  <2> DEFINE f == first[k][d]
  <2>1. f \in Operators /\ f # o /\ cell[k][f] = SignedStake(k, d)
    BY <1>0, <1>1, <1>3, <1>9 DEF ExactStakes
  <2>2. \A e \in Digests \ {d} : first[k][e] # f
    BY <1>0, <1>1, <1>2, <1>9, SMT DEF DupFree
  <2>3. first'[k] = first[k] /\ cell'[k] = [cell[k] EXCEPT ![f] = @ + cell[k][o]]
    BY <1>0, <1>9 DEF CellAfter, FirstAfter
  <2>4. /\ cell'[k][f] = SignedStake(k, d)'
        /\ \A p \in Operators \ {f} : cell'[k][p] = cell[k][p]
    BY <1>0, <1>4, <1>6, <2>1, <2>3
  <2>5. ASSUME NEW e \in Digests, first'[k][e] # None
        PROVE  cell'[k][first'[k][e]] = SignedStake(k, e)'
    <3>1. CASE e = d
      BY <2>3, <2>4, <3>1
    <3>2. CASE e # d
      <4>1. first'[k][e] = first[k][e] /\ first[k][e] \in Operators \ {f}
        BY <1>0, <2>2, <2>3, <2>5, <3>2, SMT
      <4>2. cell[k][first[k][e]] = SignedStake(k, e)
        BY <1>1, <2>5, <4>1 DEF ExactStakes
      <4>3. SignedStake(k, e)' = SignedStake(k, e)
        BY <1>7, <3>2
      <4> QED BY <2>4, <4>1, <4>2, <4>3
    <3> QED BY <3>1, <3>2
  <2>6. ASSUME NEW p \in Operators, \A e \in Digests : first'[k][e] # p
        PROVE  cell'[k][p] = avs'[k][p]
    <3>1. (\A e \in Digests : first[k][e] # p) /\ p # f
      BY <2>3, <2>6
    <3>2. cell[k][p] = avs[k][p]
      BY <1>1, <3>1 DEF ExactStakes
    <3> QED BY <2>4, <3>1, <3>2
  <2>7. ExactStakes(k)'
    BY <2>5, <2>6 DEF ExactStakes
  <2> QED BY <1>0, <2>3, <2>4, <2>7
<1> QED BY <1>8, <1>9

\* What getMessageBlsAggregationStatus says about the stake it was given.
LEMMA StatusMeaning ==
  ASSUME TypeOK, NEW k \in Keys, NEW stake \in Nat
  PROVE  /\ StatusOf(k, stake) \in {"full", "reached", "notReached"}
         /\ StatusOf(k, stake) \in {"full", "reached"} <=> StakeThresholdsMet(k, stake)
         /\ StatusOf(k, stake) = "full" => stake = TotalStake(k)
<1>1. TotalStake(k) \in Nat
  BY StakeIsNat DEF TypeOK, TotalStake
<1>2. stake = TotalStake(k) => StakeThresholdsMet(k, stake)
  <2>1. \A m \in Nat : m * 100 >= m * Threshold
    BY ConstantsAssumption, SMT
  <2> QED BY <1>1, <2>1 DEF StakeThresholdsMet
<1> QED BY <1>2 DEF StatusOf

\* The response r on d claims no more and no less than the stake backs.
Claims(r, k, d, stake, force) ==
  /\ r # None
  /\ r.digest = d
  /\ r.status \in {"reached", "full"} => StakeThresholdsMet(k, stake)
  /\ r.status = "full" => stake = TotalStake(k)
  /\ r.status = "notReached" => ~StakeThresholdsMet(k, stake)
  /\ r.finished = (r.status = "full" \/ force)

\* What a response says about the stake it was computed from.
LEMMA ResponseMeaning ==
  ASSUME TypeOK, NEW k \in Keys, NEW d \in Digests, NEW stake \in Nat, NEW bag \in Bags,
         NEW ok \in BOOLEAN, NEW force \in BOOLEAN
  PROVE  Claims(ResponseFor(k, d, stake, bag, ok, force), k, d, stake, force)
<1> USE DEF Claims
<1> DEFINE r == ResponseFor(k, d, stake, bag, ok, force)
           status == StatusOf(k, stake)
<1>1. r # None
  BY ResponseForType, NoneAssumption
<1>2. CASE ok
  <2>1. /\ r.digest = d /\ r.status = status
        /\ r.finished = (status = "full" \/ force)
    BY <1>2 DEF ResponseFor
  <2> HIDE DEF r
  <2> QED BY <1>1, <2>1, StatusMeaning DEF r
<1>3. CASE ~ok
  <2>1. r.digest = d /\ r.status = "none" /\ r.finished = force
    BY <1>3 DEF ResponseFor
  <2> HIDE DEF r
  <2>2. "none" # "full" /\ "none" # "reached" /\ "none" # "notReached"
    OBVIOUS
  <2> QED BY <1>1, <2>1, <2>2 DEF r
<1> QED BY <1>2, <1>3

\* The response r, sent in this step, claims what the signers of d now back.
ClaimsAfter(r, k, d) ==
  /\ r # None
  /\ r.digest = d
  /\ r.finished = (r.status = "full")
  /\ DupFree(k)' =>
       /\ r.status \in {"reached", "full"} => HasQuorum(k, d)'
       /\ r.status = "full" => SignedStake(k, d)' = TotalStake(k)'
       /\ r.status = "notReached" => ~HasQuorum(k, d)'

\* The same for the response built right after a signature was added: its stake
\* is the signers' when no operator signed twice.
LEMMA ResponseAfterMeaning ==
  ASSUME TypeInv, NEW k \in Keys, NEW o \in Operators, NEW d \in Digests,
         NEW ok \in BOOLEAN, ExactStakes(k), AddSignature(k, o, d), avs'[k] = avs[k]
  PROVE  ClaimsAfter(ResponseAfter(k, o, d, ok), k, d)
<1> DEFINE stake == CellAfter(k, o, d)[FirstAfter(k, o, d)[d]]
           bag == SigsAfter(k, o, d)[d]
           r == ResponseFor(k, d, stake, bag, ok, FALSE)
<1>1. stake \in Nat /\ bag \in Bags
  BY AddSignatureType, SMT DEF Bags
<1>2. DupFree(k)' => stake = SignedStake(k, d)'
  BY ExactStakesAfter
<1>3. TotalStake(k)' = TotalStake(k)
  BY DEF TotalStake
<1> HIDE DEF stake, bag
<1>4. Claims(r, k, d, stake, FALSE)
  <2>1. TypeOK /\ FALSE \in BOOLEAN
    BY DEF TypeInv
  <2> QED BY <1>1, <2>1, ResponseMeaning
<1>5. DupFree(k)' => (HasQuorum(k, d)' <=> StakeThresholdsMet(k, stake))
  BY <1>2, <1>3 DEF HasQuorum, StakeThresholdsMet
<1>6. r = ResponseAfter(k, o, d, ok)
  BY DEF ResponseAfter, stake, bag
<1> HIDE DEF r
<1>7. r.finished = (r.status = "full")
  BY <1>4 DEF Claims
<1>8. ClaimsAfter(r, k, d)
  BY <1>2, <1>3, <1>4, <1>5, <1>7 DEF Claims, ClaimsAfter
<1> QED BY <1>6, <1>8

\* A signed message before the threshold: its response claims exactly what the
\* signers back, and none is due when it is not sent.
LEMMA PreThresholdKey ==
  ASSUME Inv, NEW s \in Senders, NEW k \in Keys, NEW ok \in BOOLEAN,
         HandleSignedMessagePreThreshold(s, k, ok)
  PROVE  KeyInv(k)'
<1>0. PICK o \in Operators, d \in Digests : o = calls[s].op /\ d = calls[s].digest
  BY DEF Inv, TypeInv, HandleSignedMessagePreThreshold, Offers, Blocked, CallsOK
<1> DEFINE r == ResponseAfter(k, o, d, ok)
<1>1. /\ TypeInv /\ KeyInv(k)
      /\ phase[k] = "preThreshold" /\ pending[k] = None
  BY DEF Inv, HandleSignedMessagePreThreshold, Offers
<1>2. /\ phase \in [Keys -> Phases] /\ majority \in [Keys -> Digests \cup {None}]
      /\ pending \in [Keys -> Responses \cup {None}]
  BY <1>1 DEF TypeInv, TypeOK
<1>3. /\ AddSignature(k, o, d)
      /\ pending'[k] = (IF r.status = "notReached" THEN None ELSE r)
      /\ phase'[k] = (CASE r.status = "reached" -> "thresholdReached"
                        [] r.status = "full" -> "closing"
                        [] OTHER -> "preThreshold")
      /\ majority'[k] = (IF r.status = "reached" THEN d ELSE majority[k])
      /\ avs'[k] = avs[k] /\ last'[k] = last[k]
  BY <1>0, <1>2 DEF HandleSignedMessagePreThreshold
<1>4. ExactStakes(k)
  BY <1>1 DEF KeyInv
<1>5. /\ r # None /\ r.digest = d /\ r.finished = (r.status = "full")
      /\ DupFree(k)' =>
           /\ r.status \in {"reached", "full"} => HasQuorum(k, d)'
           /\ r.status = "full" => SignedStake(k, d)' = TotalStake(k)'
           /\ r.status = "notReached" => ~HasQuorum(k, d)'
  <2>1. ClaimsAfter(r, k, d)
    BY <1>1, <1>3, <1>4, ResponseAfterMeaning
  <2> HIDE DEF r
  <2> QED BY <2>1 DEF ClaimsAfter
<1> HIDE DEF r
<1>6. /\ phase'[k] = "thresholdReached" <=> r.status = "reached"
      /\ phase'[k] = "closing" <=> r.status = "full"
      /\ phase'[k] # "none"
  BY <1>3
<1>7. ExactStakes(k)'
  <2>1. CASE DupFree(k)'
    BY <1>1, <1>3, <1>4, <2>1, ExactStakesAfter
  <2>2. CASE ~DupFree(k)'
    BY <2>2 DEF ExactStakes
  <2> QED BY <2>1, <2>2
<1>8. ResponsesFitPhase(k)'
  BY <1>1, <1>3, <1>5, <1>6 DEF KeyInv, ResponsesFitPhase, IsQuorumResponse
<1>9. ResponseBacked(k)'
  BY <1>3, <1>5 DEF ResponseBacked, IsQuorumResponse
<1>10. NoQuorumMissed(k)'
  <2> SUFFICES ASSUME DupFree(k)', phase'[k] = "preThreshold", pending'[k] = None,
                      last'[k] = None, NEW e \in Digests, Signers(k, e)' # {}
               PROVE  ~HasQuorum(k, e)'
    BY DEF NoQuorumMissed
  <2>1. r.status = "notReached"
    BY <1>3, <1>5
  <2>2. CASE e = d
    BY <1>5, <2>1, <2>2
  <2>3. CASE e # d
    <3>1. Signers(k, e)' = Signers(k, e) /\ DupFree(k)
      BY <1>1, <1>3, <2>3, SignersAfter, DupFreeBefore
    <3>2. ~HasQuorum(k, e)
      BY <1>1, <1>3, <3>1 DEF KeyInv, NoQuorumMissed
    <3> QED BY <1>3, <3>1, <3>2 DEF HasQuorum, SignedStake, StakeThresholdsMet, TotalStake
  <2> QED BY <2>2, <2>3
<1>11. EndsFinished(k)'
  BY <1>3, <1>5, <1>6 DEF EndsFinished
<1> QED BY <1>7, <1>8, <1>9, <1>10, <1>11 DEF KeyInv

\* A signed message with the majority digest after the threshold was reached.
LEMMA ThresholdReachedKey ==
  ASSUME Inv, NEW s \in Senders, NEW k \in Keys, NEW ok \in BOOLEAN,
         HandleSignedMessageThresholdReached(s, k, ok)
  PROVE  KeyInv(k)'
<1>0. PICK o \in Operators, d \in Digests : o = calls[s].op /\ d = calls[s].digest
  BY DEF Inv, TypeInv, HandleSignedMessageThresholdReached, Offers, Blocked, CallsOK
<1> DEFINE r == ResponseAfter(k, o, d, ok)
<1>1. /\ TypeInv /\ KeyInv(k) /\ d = majority[k]
      /\ phase[k] = "thresholdReached" /\ pending[k] = None
  BY <1>0 DEF Inv, HandleSignedMessageThresholdReached, Offers
<1>2. phase \in [Keys -> Phases] /\ pending \in [Keys -> Responses \cup {None}]
  BY <1>1 DEF TypeInv, TypeOK
<1>3. /\ AddSignature(k, o, d)
      /\ pending'[k] = r
      /\ phase'[k] = (IF r.status = "full" THEN "closing" ELSE "thresholdReached")
      /\ majority'[k] = majority[k] /\ avs'[k] = avs[k] /\ last'[k] = last[k]
  BY <1>0, <1>1, <1>2 DEF HandleSignedMessageThresholdReached
<1>4. ExactStakes(k)
  BY <1>1 DEF KeyInv
<1>5. /\ r # None /\ r.digest = d /\ r.finished = (r.status = "full")
      /\ DupFree(k)' =>
           /\ r.status \in {"reached", "full"} => HasQuorum(k, d)'
           /\ r.status = "full" => SignedStake(k, d)' = TotalStake(k)'
  <2>1. ClaimsAfter(r, k, d)
    BY <1>1, <1>3, <1>4, ResponseAfterMeaning
  <2> HIDE DEF r
  <2> QED BY <2>1 DEF ClaimsAfter
<1> HIDE DEF r
<1>6. ExactStakes(k)'
  <2>1. CASE DupFree(k)'
    BY <1>1, <1>3, <1>4, <2>1, ExactStakesAfter
  <2>2. CASE ~DupFree(k)'
    BY <2>2 DEF ExactStakes
  <2> QED BY <2>1, <2>2
<1>7. ResponsesFitPhase(k)'
  BY <1>1, <1>3, <1>5 DEF KeyInv, ResponsesFitPhase, IsQuorumResponse
<1>8. ResponseBacked(k)'
  BY <1>3, <1>5 DEF ResponseBacked, IsQuorumResponse
<1>9. NoQuorumMissed(k)' /\ EndsFinished(k)'
  BY <1>3, <1>5 DEF NoQuorumMissed, EndsFinished
<1> QED BY <1>6, <1>7, <1>8, <1>9 DEF KeyInv

\* thresholdReachedTimer: the final response repeats the stake reached so far.
LEMMA AggregationTimeoutKey ==
  ASSUME Inv, NEW k \in Keys, NEW ok \in BOOLEAN, AggregationTimeout(k, ok)
  PROVE  KeyInv(k)'
<1>0. PICK d \in Digests : d = majority[k] /\ first[k][d] # None
  BY DEF Inv, TypeInv, AggregationTimeout, FirstSigners
<1> DEFINE stake == cell[k][first[k][d]]
           r == ResponseFor(k, d, stake, sigs[k][d], ok, TRUE)
<1>1. /\ TypeInv /\ KeyInv(k) /\ phase[k] = "thresholdReached"
      /\ pending[k] = None
  BY DEF Inv, AggregationTimeout
<1>2. TypeOK /\ first[k][d] \in Operators
  BY <1>0, <1>1, SMT DEF TypeInv, TypeOK
<1>3. stake \in Nat /\ sigs[k][d] \in Bags
  BY <1>1, <1>2, SMT DEF TypeOK, Bags
<1>4. /\ pending'[k] = r /\ phase'[k] = "closing"
      /\ avs'[k] = avs[k] /\ cell'[k] = cell[k] /\ first'[k] = first[k]
      /\ sigs'[k] = sigs[k] /\ last'[k] = last[k]
  BY <1>0, <1>2 DEF AggregationTimeout, TypeOK
<1>5. DupFree(k) => stake = SignedStake(k, d)
  BY <1>0, <1>1 DEF KeyInv, ExactStakes
<1> HIDE DEF stake
<1>6. /\ r # None /\ r.digest = d /\ r.finished
      /\ r.status \in {"reached", "full"} => StakeThresholdsMet(k, stake)
      /\ r.status = "full" => stake = TotalStake(k)
  <2>1. TRUE \in BOOLEAN
    OBVIOUS
  <2>2. Claims(r, k, d, stake, TRUE)
    BY <1>2, <1>3, <2>1, ResponseMeaning
  <2> HIDE DEF r
  <2> QED BY <2>2 DEF Claims
<1> HIDE DEF r
<1>7. DupFree(k)' <=> DupFree(k)
  BY <1>4 DEF DupFree
<1>8. /\ SignedStake(k, d)' = SignedStake(k, d) /\ TotalStake(k)' = TotalStake(k)
      /\ HasQuorum(k, d)' <=> HasQuorum(k, d)
  BY <1>4 DEF HasQuorum, StakeThresholdsMet, SignedStake, TotalStake, Signers, SignersOf
<1>9. ExactStakes(k)'
  BY <1>1, <1>4, <1>7 DEF KeyInv, ExactStakes, SignedStake, Signers, SignersOf
<1>10. ResponseBacked(k)'
  BY <1>4, <1>5, <1>6, <1>7, <1>8 DEF ResponseBacked, IsQuorumResponse, HasQuorum,
                                     StakeThresholdsMet
<1>11. ResponsesFitPhase(k)'
  BY <1>0, <1>1, <1>4, <1>6 DEF KeyInv, ResponsesFitPhase, IsQuorumResponse
<1>12. NoQuorumMissed(k)' /\ EndsFinished(k)'
  BY <1>4, <1>6 DEF NoQuorumMissed, EndsFinished
<1> QED BY <1>9, <1>10, <1>11, <1>12 DEF KeyInv

\* A new service satisfies the invariant.
LEMMA InvInit == Init => Inv
<1> SUFFICES ASSUME Init PROVE Inv
  OBVIOUS
<1>1. TypeInv
  BY TypeInvInit
<1>2. ASSUME NEW k \in Keys PROVE KeyInv(k)
  BY <1>2 DEF Init, KeyInv, ExactStakes, ResponsesFitPhase, ResponseBacked,
              NoQuorumMissed, EndsFinished, IsQuorumResponse, NoFirst
<1> QED BY <1>1, <1>2 DEF Inv

\* Every step keeps the invariant: one case per action, and in it the key whose
\* round the action works on; the other keys are left alone.
LEMMA InvNext == Inv /\ [Next]_vars => Inv'
<1> SUFFICES ASSUME Inv, [Next]_vars PROVE Inv'
  OBVIOUS
<1>0. TypeInv' /\ TypeOK /\ \A k \in Keys : KeyInv(k)
  BY TypeInvNext DEF Inv, TypeInv
<1> SUFFICES \A k \in Keys : KeyInv(k)'
  BY <1>0 DEF Inv
<1>1. CASE UNCHANGED aggVars
  BY <1>0, <1>1, QuietKey DEF aggVars
<1>2. ASSUME NEW s \in Senders, StartAggregation(s)
      PROVE  \A k \in Keys : KeyInv(k)'
  <2>1. PICK k \in Keys : k = calls[s].key /\ calls[s].pc = "fetch"
    BY <1>2 DEF Inv, TypeInv, CallsOK, StartAggregation
  <2>2. \A i \in Keys \ {k} :
          /\ avs'[i] = avs[i] /\ cell'[i] = cell[i] /\ first'[i] = first[i]
          /\ sigs'[i] = sigs[i] /\ phase'[i] = phase[i] /\ pending'[i] = pending[i]
          /\ last'[i] = last[i] /\ majority'[i] = majority[i]
    BY <1>0, <1>2, <2>1 DEF StartAggregation, TypeOK
  <2>3. \A i \in Keys \ {k} : KeyInv(i)'
    BY <1>0, <2>2, QuietKey
  <2>4. /\ first'[k] = NoFirst /\ sigs'[k] = NoSignatures /\ last'[k] = None
        /\ phase'[k] = "preThreshold" /\ pending'[k] = pending[k] /\ cell'[k] = avs'[k]
    BY <1>0, <1>2, <2>1 DEF StartAggregation, TypeOK
  <2>5. pending[k] = None
    BY <1>0, <2>1 DEF Inv, TypeInv, OneRoundAtATime, KeyInv, ResponsesFitPhase
  <2>6. \A d \in Digests : Signers(k, d)' = {} /\ first'[k][d] = None
    BY <2>4, SMT DEF Signers, SignersOf, NoSignatures, NoSigs, NoFirst
  <2>7. KeyInv(k)'
    BY <2>4, <2>5, <2>6 DEF KeyInv, ExactStakes, ResponsesFitPhase, ResponseBacked,
                            NoQuorumMissed, EndsFinished, IsQuorumResponse
  <2> QED BY <2>3, <2>7
<1>3. ASSUME NEW s \in Senders, NEW k \in Keys, NEW ok \in BOOLEAN,
             \/ HandleSignedMessagePreThreshold(s, k, ok)
             \/ HandleSignedMessageThresholdReached(s, k, ok)
      PROVE  \A i \in Keys : KeyInv(i)'
  <2>1. KeyInv(k)'
    BY <1>3, PreThresholdKey, ThresholdReachedKey
  <2>2. \A i \in Keys \ {k} :
          /\ avs'[i] = avs[i] /\ cell'[i] = cell[i] /\ first'[i] = first[i]
          /\ sigs'[i] = sigs[i] /\ phase'[i] = phase[i] /\ pending'[i] = pending[i]
          /\ last'[i] = last[i] /\ majority'[i] = majority[i]
    <3>1. CASE HandleSignedMessagePreThreshold(s, k, ok)
      BY <1>0, <3>1 DEF HandleSignedMessagePreThreshold, AddSignature, TypeOK
    <3>2. CASE HandleSignedMessageThresholdReached(s, k, ok)
      BY <1>0, <3>2 DEF HandleSignedMessageThresholdReached, AddSignature, TypeOK
    <3> QED BY <1>3, <3>1, <3>2
  <2> QED BY <1>0, <2>1, <2>2, QuietKey
<1>4. ASSUME NEW k \in Keys, MessageExpired(k)
      PROVE  \A i \in Keys : KeyInv(i)'
  <2>1. \A i \in Keys \ {k} : KeyInv(i)'
    <3>1. \A i \in Keys \ {k} :
            /\ avs'[i] = avs[i] /\ cell'[i] = cell[i] /\ first'[i] = first[i]
            /\ sigs'[i] = sigs[i] /\ phase'[i] = phase[i] /\ pending'[i] = pending[i]
            /\ last'[i] = last[i] /\ majority'[i] = majority[i]
      BY <1>0, <1>4 DEF MessageExpired, TypeOK
    <3> QED BY <1>0, <3>1, QuietKey
  <2>2. /\ pending'[k] = ExpiredResponse /\ phase'[k] = "closing"
        /\ phase[k] = "preThreshold"
        /\ avs' = avs /\ cell' = cell /\ first' = first /\ sigs' = sigs /\ last' = last
    BY <1>0, <1>4 DEF MessageExpired, TypeOK
  <2>3. /\ ExpiredResponse # None /\ ExpiredResponse.finished
        /\ ~IsQuorumResponse(ExpiredResponse)
    BY ExpiredResponseType, NoneAssumption DEF ExpiredResponse, IsQuorumResponse
  <2>4. ExactStakes(k)'
    BY <1>0, <2>2, ExactStakesKept DEF KeyInv
  <2> HIDE DEF ExpiredResponse
  <2>5. KeyInv(k)'
    BY <1>0, <2>2, <2>3, <2>4 DEF KeyInv, ResponsesFitPhase, ResponseBacked,
                                  NoQuorumMissed, EndsFinished, IsQuorumResponse
  <2> QED BY <2>1, <2>5
<1>5. ASSUME NEW k \in Keys, NEW ok \in BOOLEAN, AggregationTimeout(k, ok)
      PROVE  \A i \in Keys : KeyInv(i)'
  <2>1. KeyInv(k)'
    BY <1>5, AggregationTimeoutKey
  <2>2. \A i \in Keys \ {k} :
          /\ avs'[i] = avs[i] /\ cell'[i] = cell[i] /\ first'[i] = first[i]
          /\ sigs'[i] = sigs[i] /\ phase'[i] = phase[i] /\ pending'[i] = pending[i]
          /\ last'[i] = last[i] /\ majority'[i] = majority[i]
    BY <1>0, <1>5 DEF AggregationTimeout, TypeOK
  <2> QED BY <1>0, <2>1, <2>2, QuietKey
<1>6. ASSUME NEW k \in Keys, DeliverResponse(k)
      PROVE  \A i \in Keys : KeyInv(i)'
  <2>1. \A i \in Keys \ {k} : KeyInv(i)'
    <3>1. \A i \in Keys \ {k} :
            /\ avs'[i] = avs[i] /\ cell'[i] = cell[i] /\ first'[i] = first[i]
            /\ sigs'[i] = sigs[i] /\ phase'[i] = phase[i] /\ pending'[i] = pending[i]
            /\ last'[i] = last[i] /\ majority'[i] = majority[i]
      BY <1>0, <1>6 DEF DeliverResponse, TypeOK
    <3> QED BY <1>0, <3>1, QuietKey
  <2>2. /\ pending[k] # None /\ pending'[k] = None /\ last'[k] = pending[k]
        /\ phase' = phase /\ avs' = avs /\ cell' = cell /\ first' = first
        /\ sigs' = sigs /\ majority' = majority
    BY <1>0, <1>6 DEF DeliverResponse, TypeOK
  <2>3. ExactStakes(k)'
    BY <1>0, <2>2, ExactStakesKept DEF KeyInv
  <2>4. phase[k] \in Phases
    BY <1>0 DEF TypeOK
  <2>5. ResponsesFitPhase(k)'
    BY <1>0, <2>2, <2>4 DEF KeyInv, ResponsesFitPhase, IsQuorumResponse, Phases
  <2>6. ResponseBacked(k)' /\ NoQuorumMissed(k)' /\ EndsFinished(k)'
    BY <1>0, <2>2 DEF KeyInv, ResponseBacked, NoQuorumMissed, EndsFinished,
                      IsQuorumResponse, ResponsesFitPhase
  <2> QED BY <2>1, <2>3, <2>5, <2>6 DEF KeyInv
<1>7. ASSUME NEW k \in Keys, CloseMessageGoroutine(k)
      PROVE  \A i \in Keys : KeyInv(i)'
  <2>1. \A i \in Keys \ {k} : KeyInv(i)'
    <3>1. \A i \in Keys \ {k} :
            /\ avs'[i] = avs[i] /\ cell'[i] = cell[i] /\ first'[i] = first[i]
            /\ sigs'[i] = sigs[i] /\ phase'[i] = phase[i] /\ pending'[i] = pending[i]
            /\ last'[i] = last[i] /\ majority'[i] = majority[i]
      BY <1>0, <1>7 DEF CloseMessageGoroutine, TypeOK
    <3> QED BY <1>0, <3>1, QuietKey
  <2>2. /\ pending[k] = None /\ pending' = pending /\ phase'[k] = "none"
        /\ first'[k] = NoFirst /\ cell'[k] = avs'[k]
    BY <1>0, <1>7 DEF CloseMessageGoroutine, TypeOK
  <2>3. \A d \in Digests : first'[k][d] = None
    BY <2>2 DEF NoFirst
  <2>4. KeyInv(k)'
    BY <2>2, <2>3 DEF KeyInv, ExactStakes, ResponsesFitPhase, ResponseBacked,
                      NoQuorumMissed, EndsFinished, IsQuorumResponse
  <2> QED BY <2>1, <2>4
<1>8. CASE UNCHANGED vars
  BY <1>1, <1>8 DEF vars, aggVars
<1>9. CASE Next
  <2>1. \/ UNCHANGED aggVars
        \/ \E s \in Senders : StartAggregation(s)
        \/ \E s \in Senders, k \in Keys, ok \in BOOLEAN :
             \/ HandleSignedMessagePreThreshold(s, k, ok)
             \/ HandleSignedMessageThresholdReached(s, k, ok)
        \/ \E k \in Keys : MessageExpired(k)
        \/ \E k \in Keys, ok \in BOOLEAN : AggregationTimeout(k, ok)
        \/ \E k \in Keys : DeliverResponse(k)
        \/ \E k \in Keys : CloseMessageGoroutine(k)
    BY <1>9 DEF Next, CallStep, GoroutineStep, Call, CallForTask, InitializeMessageChan,
                FetchFails, LookupChan, RejectSignature, IgnoreNonMajority
  <2> QED BY <2>1, <1>1, <1>2, <1>3, <1>4, <1>5, <1>6, <1>7
<1> QED BY <1>8, <1>9

\* A quorum response is backed by the stake of distinct registered operators,
\* whatever the interleaving of callers, rounds and timers, for any operator
\* states, stakes and threshold: proved from Inv, whose core is ExactStakes.
THEOREM QuorumBackedHolds == Spec => []QuorumBacked
<1>1. Spec => []Inv
  BY InvInit, InvNext, PTL DEF Spec
<1>2. Inv => QuorumBacked
  BY DEF Inv, KeyInv, QuorumBacked
<1> QED BY <1>1, <1>2, PTL

\* The goroutine never sits on a quorum it has not reported.
THEOREM QuorumNoticedHolds == Spec => []QuorumNoticed
<1>1. Spec => []Inv
  BY InvInit, InvNext, PTL DEF Spec
<1>2. Inv => QuorumNoticed
  BY DEF Inv, KeyInv, QuorumNoticed
<1> QED BY <1>1, <1>2, PTL

\* No round ends without a Finished response.
THEOREM RoundEndsFinishedHolds == Spec => []RoundEndsFinished
<1>1. Spec => []Inv
  BY InvInit, InvNext, PTL DEF Spec
<1>2. Inv => RoundEndsFinished
  BY DEF Inv, KeyInv, RoundEndsFinished
<1> QED BY <1>1, <1>2, PTL

\* What the next response of the round of k may be.
LEMMA NextResponse ==
  ASSUME Inv, Next, NEW k \in Keys, last[k] # None, last'[k] \notin {None, last[k]}
  PROVE  /\ ~last[k].finished
         /\ IsQuorumResponse(last[k]) => last'[k].digest = last[k].digest
<1>0. TypeOK /\ KeyInv(k)
  BY DEF Inv, TypeInv
<1>1. DeliverResponse(k)
  <2>0. /\ \A s \in Senders :
             InitializeMessageChan(s) \/ FetchFails(s) \/ LookupChan(s) => last' = last
        /\ \A i \in Keys : GoroutineStep(i) => last' = last
    <3>1. \A s \in Senders :
            InitializeMessageChan(s) \/ FetchFails(s) \/ LookupChan(s) => last' = last
      BY DEF InitializeMessageChan, FetchFails, LookupChan, aggVars
    <3>2. \A s \in Senders, i \in Keys :
            RejectSignature(s, i) \/ IgnoreNonMajority(s, i) => last' = last
      BY DEF RejectSignature, IgnoreNonMajority, aggVars
    <3>3. \A s \in Senders, i \in Keys, ok \in BOOLEAN :
            HandleSignedMessagePreThreshold(s, i, ok) => last' = last
      BY SMT DEF HandleSignedMessagePreThreshold
    <3>4. \A s \in Senders, i \in Keys, ok \in BOOLEAN :
            HandleSignedMessageThresholdReached(s, i, ok) => last' = last
      BY DEF HandleSignedMessageThresholdReached
    <3>5. \A i \in Keys, ok \in BOOLEAN : AggregationTimeout(i, ok) => last' = last
      BY DEF AggregationTimeout
    <3>6. \A i \in Keys : MessageExpired(i) \/ CloseMessageGoroutine(i) => last' = last
      BY DEF MessageExpired, CloseMessageGoroutine
    <3> QED BY <3>1, <3>2, <3>3, <3>4, <3>5, <3>6 DEF GoroutineStep
  <2>1. \/ UNCHANGED last
        \/ \E s \in Senders : StartAggregation(s)
        \/ \E i \in Keys : DeliverResponse(i)
    BY <2>0 DEF Next, CallStep, Call, CallForTask, aggVars
  <2>2. ASSUME NEW s \in Senders, StartAggregation(s) PROVE FALSE
    <3>1. calls[s].key \in Keys /\ last' = [last EXCEPT ![calls[s].key] = None]
      BY <2>2 DEF StartAggregation, Inv, TypeInv, CallsOK
    <3> QED BY <1>0, <3>1 DEF TypeOK
  <2>3. ASSUME NEW i \in Keys, DeliverResponse(i) PROVE DeliverResponse(k)
    BY <1>0, <2>3 DEF DeliverResponse, TypeOK
  <2> QED BY <2>1, <2>2, <2>3
<1>2. pending[k] # None /\ last'[k] = pending[k] /\ phase[k] \in Phases
  BY <1>0, <1>1 DEF DeliverResponse, TypeOK
<1>3. CASE phase[k] = "preThreshold"
  BY <1>0, <1>2, <1>3 DEF KeyInv, ResponsesFitPhase
<1>4. CASE phase[k] = "thresholdReached"
  BY <1>0, <1>2, <1>4 DEF KeyInv, ResponsesFitPhase
<1>5. CASE phase[k] = "closing"
  BY <1>0, <1>2, <1>5 DEF KeyInv, ResponsesFitPhase
<1>6. phase[k] # "none"
  BY <1>0, <1>2 DEF KeyInv, ResponsesFitPhase
<1> QED BY <1>2, <1>3, <1>4, <1>5, <1>6 DEF Phases

\* Nothing follows a Finished response in its round, and a quorum response is
\* followed by responses of the same digest only.
THEOREM ResponsesOfARoundHolds == Spec => ResponsesOfARound
<1> DEFINE A == \A k \in Keys :
                  rounds'[k] = rounds[k] /\ last[k] # None /\ last'[k] \notin {None, last[k]}
                    => /\ ~last[k].finished
                       /\ IsQuorumResponse(last[k]) => last'[k].digest = last[k].digest
<1>1. Spec => []Inv
  BY InvInit, InvNext, PTL DEF Spec
<1>2. Inv /\ [Next]_vars => [A]_vars
  BY NextResponse
<1>3. Spec => [][A]_vars
  BY <1>1, <1>2, PTL DEF Spec
<1> QED BY <1>3 DEF ResponsesOfARound

-----------------------------------------------------------------------------
(* A checkpoint task has one round. *)

\* Callers and rounds of a task, when a step leaves its rounds alone and no caller
\* newly gets to register its channel.
LEMMA TaskQuiet ==
  ASSUME TypeOK, TypeOK', NEW k \in TaskKeys, rounds[k] <= 1 /\ OpensTask(k),
         rounds'[k] = rounds[k],
         \A s \in Senders : calls'[s].pc = "initialize" /\ calls'[s].key = k =>
                              calls'[s] = calls[s]
  PROVE  (rounds[k] <= 1 /\ OpensTask(k))'
<1>1. rounds'[k] <= 1
  OBVIOUS
<1>2. OpensTask(k)'
  BY DEF OpensTask
<1> QED BY <1>1, <1>2

\* Only sendNewCheckpointTask registers the channel of a task, once.
LEMMA TaskInvNext == TypeInv /\ TaskInv /\ [Next]_vars => TaskInv'
<1> SUFFICES ASSUME TypeInv, TaskInv, [Next]_vars, NEW k \in TaskKeys
             PROVE  (rounds[k] <= 1 /\ OpensTask(k))'
  BY DEF TaskInv
<1>0. /\ TypeOK /\ TypeOK' /\ CallsOK /\ k \in Keys
      /\ rounds[k] <= 1 /\ OpensTask(k)
      /\ calls \in [Senders -> Calls] /\ rounds \in [Keys -> Nat]
  BY TypeInvNext, ConstantsAssumption DEF TypeInv, TypeOK, TaskInv
<1>r. ASSUME NEW r \in Results, NEW s \in Senders,
             calls' = [calls EXCEPT ![s] = Returned(r)], rounds' = rounds
      PROVE  (rounds[k] <= 1 /\ OpensTask(k))'
  <2>1. \A t \in Senders : calls'[t].pc = "initialize" => calls'[t] = calls[t]
    BY <1>0, <1>r, ReturnedType
  <2> QED BY <1>0, <1>r, <2>1, TaskQuiet
<1>1. ASSUME NEW s \in Senders, NEW o \in Operators, NEW i \in Keys, NEW d \in Digests,
             Call(s, o, i, d)
      PROVE  (rounds[k] <= 1 /\ OpensTask(k))'
  <2>1. /\ \A t \in Senders \ {s} : calls'[t] = calls[t]
        /\ calls'[s].key = i /\ (i \in TaskKeys => calls'[s].pc = "lookup")
        /\ rounds' = rounds
    BY <1>0, <1>1 DEF Call
  <2>2. \A t \in Senders : calls'[t].pc = "initialize" /\ calls'[t].key = k =>
                             calls'[t] = calls[t]
    BY <2>1
  <2> QED BY <1>0, <2>1, <2>2, TaskQuiet
<1>2. ASSUME NEW s \in Senders, NEW i \in TaskKeys, CallForTask(s, i)
      PROVE  (rounds[k] <= 1 /\ OpensTask(k))'
  <2>1. /\ \A t \in Senders \ {s} : calls'[t] = calls[t]
        /\ calls'[s].key = i /\ calls'[s].op = None
        /\ rounds' = rounds /\ rounds[i] = 0
        /\ \A t \in Senders : calls[t].op = None => calls[t].key # i
    BY <1>0, <1>2 DEF CallForTask
  <2>2. CASE i # k
    <3>1. \A t \in Senders : calls'[t].pc = "initialize" /\ calls'[t].key = k =>
                               calls'[t] = calls[t]
      BY <2>1, <2>2
    <3> QED BY <1>0, <2>1, <3>1, TaskQuiet
  <2>3. CASE i = k
    <3>1. \A t \in Senders : ~(calls[t].pc = "initialize" /\ calls[t].key = k)
      BY <1>0, <2>1, <2>3 DEF OpensTask
    <3>2. OpensTask(k)'
      BY <2>1, <2>3, <3>1 DEF OpensTask
    <3> QED BY <1>0, <2>1, <3>2
  <2> QED BY <2>2, <2>3
<1>3. ASSUME NEW s \in Senders, InitializeMessageChan(s)
      PROVE  (rounds[k] <= 1 /\ OpensTask(k))'
  <2> DEFINE i == calls[s].key
  <2>0. calls[s].pc = "initialize" /\ i \in Keys /\ calls[s] \in Calls
    BY <1>0, <1>3 DEF InitializeMessageChan, CallsOK
  <2>1. CASE /\ calls' = [calls EXCEPT ![s] = Initialized(@)]
             /\ UNCHANGED <<signedMessageCs, rounds>>
    <3>1. Initialized(calls[s]).pc # "initialize"
      BY <2>0, InitializedType
    <3>2. \A t \in Senders : calls'[t].pc = "initialize" => calls'[t] = calls[t]
      BY <1>0, <2>1, <3>1
    <3> QED BY <1>0, <2>1, <3>2, TaskQuiet
  <2>2. CASE /\ rounds' = [rounds EXCEPT ![i] = @ + 1]
             /\ calls' = [calls EXCEPT ![s].pc = "fetch"]
    <3>1. /\ calls'[s].pc = "fetch"
          /\ \A t \in Senders \ {s} : calls'[t] = calls[t]
      BY <1>0, <2>0, <2>2 DEF Calls
    <3>2. CASE i # k
      <4>1. rounds'[k] = rounds[k]
        BY <1>0, <2>2, <3>2
      <4> QED BY <1>0, <3>1, <4>1, TaskQuiet
    <3>3. CASE i = k
      <4>1. /\ rounds[k] = 0
            /\ \A t \in Senders \ {s} : ~(calls[t].pc = "initialize" /\ calls[t].key = k)
        BY <1>0, <2>0, <3>3 DEF OpensTask
      <4>2. rounds'[k] = 1
        BY <1>0, <2>2, <3>3, <4>1, SMT
      <4>3. OpensTask(k)'
        BY <3>1, <4>1 DEF OpensTask
      <4> QED BY <4>2, <4>3, SMT
    <3> QED BY <3>2, <3>3
  <2> QED BY <1>3, <2>1, <2>2 DEF InitializeMessageChan
<1>4. ASSUME NEW s \in Senders, StartAggregation(s) \/ FetchFails(s) \/ LookupChan(s)
      PROVE  (rounds[k] <= 1 /\ OpensTask(k))'
  <2>1. /\ rounds' = rounds
        /\ \A t \in Senders \ {s} : calls'[t] = calls[t]
        /\ calls'[s].pc # "initialize"
    <3>0. calls[s] \in Calls
      BY <1>0
    <3>1. CASE StartAggregation(s)
      BY <1>0, <3>0, <3>1, InitializedType DEF StartAggregation
    <3>2. CASE FetchFails(s)
      BY <1>0, <3>2, ReturnedType DEF FetchFails, Results
    <3>3. CASE LookupChan(s)
      BY <1>0, <3>0, <3>3, ReturnedType DEF LookupChan, Results, Calls
    <3> QED BY <1>4, <3>1, <3>2, <3>3
  <2>2. \A t \in Senders : calls'[t].pc = "initialize" => calls'[t] = calls[t]
    BY <2>1
  <2> QED BY <1>0, <2>1, <2>2, TaskQuiet
<1>5. ASSUME NEW i \in Keys, GoroutineStep(i)
      PROVE  (rounds[k] <= 1 /\ OpensTask(k))'
  <2>1. CASE \E s \in Senders :
               \/ RejectSignature(s, i)
               \/ IgnoreNonMajority(s, i)
               \/ \E ok \in BOOLEAN :
                    \/ HandleSignedMessagePreThreshold(s, i, ok)
                    \/ HandleSignedMessageThresholdReached(s, i, ok)
    <3>1. \E s \in Senders, r \in Results :
            calls' = [calls EXCEPT ![s] = Returned(r)] /\ rounds' = rounds
      BY <2>1 DEF RejectSignature, IgnoreNonMajority, HandleSignedMessagePreThreshold,
                  HandleSignedMessageThresholdReached, Answer, Results
    <3> QED BY <1>r, <3>1
  <2>2. CASE calls' = calls /\ rounds' = rounds
    BY <1>0, <2>2, TaskQuiet
  <2>3. ASSUME NEW ok \in BOOLEAN
        PROVE  AggregationTimeout(i, ok) => calls' = calls /\ rounds' = rounds
    BY DEF AggregationTimeout
  <2> QED BY <1>5, <2>1, <2>2, <2>3 DEF GoroutineStep, MessageExpired, CloseMessageGoroutine
<1>6. ASSUME NEW i \in Keys, DeliverResponse(i)
      PROVE  (rounds[k] <= 1 /\ OpensTask(k))'
  <2>1. calls' = calls /\ rounds' = rounds
    BY <1>6 DEF DeliverResponse
  <2> QED BY <1>0, <2>1, TaskQuiet
<1>7. CASE UNCHANGED vars
  <2>1. calls' = calls /\ rounds' = rounds
    BY <1>7 DEF vars
  <2> QED BY <1>0, <2>1, TaskQuiet
<1>8. CASE Next
  <2>1. \/ \E s \in Senders, o \in Operators, i \in Keys, d \in Digests : Call(s, o, i, d)
        \/ \E s \in Senders, i \in TaskKeys : CallForTask(s, i)
        \/ \E s \in Senders : CallStep(s)
        \/ \E i \in Keys : GoroutineStep(i)
        \/ \E i \in Keys : DeliverResponse(i)
    BY <1>8 DEF Next
  <2>2. ASSUME NEW s \in Senders, CallStep(s)
        PROVE  (rounds[k] <= 1 /\ OpensTask(k))'
    BY <1>3, <1>4, <2>2 DEF CallStep
  <2> QED BY <2>1, <2>2, <1>1, <1>2, <1>5, <1>6
<1> QED BY <1>7, <1>8

\* The responses to a checkpoint task never open a second round of its key, in
\* whatever order they, the task's creation and the end of its round come.
THEOREM TaskAggregatedOnceHolds == Spec => []TaskAggregatedOnce
<1>1. Init => TypeInv /\ TaskInv
  <2>1. ASSUME Init PROVE TaskInv
    <3>1. \A k \in TaskKeys : rounds[k] = 0
      BY <2>1, ConstantsAssumption DEF Init
    <3>2. \A s \in Senders : calls[s].pc = "idle"
      BY <2>1, ReturnedType DEF Init, Results
    <3> QED BY <3>1, <3>2, SMT DEF TaskInv, OpensTask
  <2> QED BY <2>1, TypeInvInit
<1>2. TypeInv /\ TaskInv /\ [Next]_vars => (TypeInv /\ TaskInv)'
  BY TypeInvNext, TaskInvNext
<1>3. TypeInv /\ TaskInv => TaskAggregatedOnce
  BY DEF TaskInv, TaskAggregatedOnce
<1> QED BY <1>1, <1>2, <1>3, PTL DEF Spec

-----------------------------------------------------------------------------
(* The service underneath the loop. *)

\* A restart leaves the service as new, but for the rounds and calls made so far.
LEMMA CrashInv == Inv /\ Crash => Inv'
<1> SUFFICES ASSUME Inv, Crash PROVE Inv'
  OBVIOUS
<1> USE ConstantsAssumption
<1>0. TypeOK
  BY DEF Inv, TypeInv
<1>1. TypeOK'
  <2>1. Returned("nil") \in Calls
    BY ReturnedType DEF Results
  <2>2. NoStake \in Bags /\ NoSignatures \in [Digests -> Bags]
    BY DEF NoStake, NoSignatures, NoSigs, Bags
  <2>3. NoFirst \in [Digests -> Operators \cup {None}]
    BY DEF NoFirst
  <2> QED BY <1>0, <2>1, <2>2, <2>3 DEF TypeOK, Phases, Crash
<1>2. \A s \in Senders : calls'[s].pc = "idle"
  BY ReturnedType DEF Results, Crash
<1>3. FirstSigners'
  BY DEF FirstSigners, NoFirst, NoSignatures, NoSigs, Crash
<1>4. \A k \in Keys : phase'[k] = "none" /\ pending'[k] = None
  BY DEF Crash
<1>5. TypeInv'
  BY <1>1, <1>2, <1>3, <1>4 DEF TypeInv, CallsOK, OneRoundAtATime
<1>6. ASSUME NEW k \in Keys PROVE KeyInv(k)'
  <2>1. /\ avs'[k] = NoStake /\ cell'[k] = NoStake
        /\ \A d \in Digests : first'[k][d] = None
    BY DEF Crash, NoFirst
  <2> QED BY <1>4, <2>1 DEF KeyInv, ExactStakes, ResponsesFitPhase, ResponseBacked,
                            NoQuorumMissed, EndsFinished, IsQuorumResponse
<1> QED BY <1>5, <1>6 DEF Inv

\* A step of the loop is a step of the service, a restart, or leaves it alone.
LEMMA LoopStep == LoopNext => [Next]_vars \/ Crash
<1> SUFFICES ASSUME LoopNext PROVE [Next]_vars \/ Crash
  OBVIOUS
<1>1. ServiceStep => Next
  BY DEF ServiceStep, Next
<1>2. ASSUME NEW k \in Keys, ReceiveResponse(k) PROVE Next
  BY <1>2 DEF ReceiveResponse, Next
<1>3. StoreMessage \/ StoreAggregation \/ StoreFails => UNCHANGED vars
  BY DEF StoreMessage, StoreAggregation, StoreFails
<1> QED BY <1>1, <1>2, <1>3 DEF LoopNext

\* The loop and its restarts keep the service's invariant.
LEMMA InvLoopNext == Inv /\ [LoopNext]_allVars => Inv'
<1> SUFFICES ASSUME Inv, [LoopNext]_allVars PROVE Inv'
  OBVIOUS
<1>1. [Next]_vars \/ Crash
  BY LoopStep DEF allVars
<1> QED BY <1>1, InvNext, CrashInv

\* The service's promises hold in the aggregator, with restarts and a loop that
\* takes the responses at its own pace.
THEOREM ServiceInLoop == LoopSpec => [](QuorumBacked /\ QuorumNoticed /\ OneRoundAtATime)
<1>1. LoopInit => Inv
  BY InvInit DEF LoopInit
<1>2. Inv => QuorumBacked /\ QuorumNoticed /\ OneRoundAtATime
  BY DEF Inv, KeyInv, TypeInv, QuorumBacked, QuorumNoticed
<1> QED BY <1>1, <1>2, InvLoopNext, PTL DEF LoopSpec

\* Finished stays final under the loop: a restart delivers nothing.
THEOREM ResponsesOfARoundInLoop == LoopSpec => ResponsesOfARound
<1> DEFINE A == \A k \in Keys :
                  rounds'[k] = rounds[k] /\ last[k] # None /\ last'[k] \notin {None, last[k]}
                    => /\ ~last[k].finished
                       /\ IsQuorumResponse(last[k]) => last'[k].digest = last[k].digest
<1>1. LoopInit => Inv
  BY InvInit DEF LoopInit
<1>2. Inv /\ [LoopNext]_allVars => [A]_vars
  <2> SUFFICES ASSUME Inv, [LoopNext]_allVars PROVE A \/ UNCHANGED vars
    OBVIOUS
  <2>1. Next \/ UNCHANGED vars \/ Crash
    BY LoopStep DEF allVars
  <2>2. CASE Next
    BY <2>2, NextResponse
  <2>3. CASE Crash
    BY <2>3 DEF Crash
  <2> QED BY <2>1, <2>2, <2>3
<1>3. LoopSpec => [][A]_vars
  BY <1>1, <1>2, InvLoopNext, PTL DEF LoopSpec
<1> QED BY <1>3 DEF ResponsesOfARound

-----------------------------------------------------------------------------
(* What a step of the goroutine of a key does to the rest. *)

\* A signature was added in the round of k, for operator o and digest d.
SignatureAdded(k, o, d) ==
  AddSignature(k, o, d) /\ avs'[k] = avs[k] /\ Record(k)

\* The history only grows.
LEMMA RecordGrows ==
  ASSUME LoopTypeOK, NEW k \in Keys, Record(k)
  PROVE  /\ counted' \in [Keys -> SUBSET (Operators \X Digests)]
         /\ repeated' \subseteq Keys
         /\ repeated \subseteq repeated'
         /\ \A i \in Keys : counted[i] \subseteq counted'[i]
<1> DEFINE added == {od \in Operators \X Digests :
                       sigs'[k][od[2]][od[1]] > sigs[k][od[2]][od[1]]}
<1>1. /\ counted' = [counted EXCEPT ![k] = @ \cup added]
      /\ repeated' = repeated \cup
           {i \in {k} : \E od \in added, d \in Digests : sigs[k][d][od[1]] > 0}
  BY DEF Record
<1>2. added \subseteq Operators \X Digests
  OBVIOUS
<1> HIDE DEF added
<1> QED BY <1>1, <1>2 DEF LoopTypeOK

\* What is added to the history when handleSignedMessageDigest adds a signature.
LEMMA RecordAdds ==
  ASSUME TypeInv, LoopTypeOK, NEW k \in Keys, NEW o \in Operators, NEW d \in Digests,
         AddSignature(k, o, d), Record(k)
  PROVE  /\ counted'[k] = counted[k] \cup {<<o, d>>}
         /\ k \notin repeated' => \A e \in Digests : sigs[k][e][o] = 0
<1> DEFINE added == {od \in Operators \X Digests :
                       sigs'[k][od[2]][od[1]] > sigs[k][od[2]][od[1]]}
<1>1. sigs \in [Keys -> [Digests -> [Operators -> Nat]]]
  BY DEF TypeInv, TypeOK, Bags
<1>2. sigs'[k] = [sigs[k] EXCEPT ![d][o] = @ + 1]
  BY <1>1 DEF AddSignature, SigsAfter
<1>3. \A e \in Digests, p \in Operators :
        sigs'[k][e][p] = IF e = d /\ p = o THEN sigs[k][e][p] + 1 ELSE sigs[k][e][p]
  BY <1>1, <1>2, SMT
<1>4. ASSUME NEW p \in Operators, NEW e \in Digests
      PROVE  sigs'[k][e][p] > sigs[k][e][p] <=> p = o /\ e = d
  BY <1>1, <1>3, SMT
<1>5. added = {<<o, d>>}
  BY <1>4, SMT
<1>6. /\ counted'[k] = counted[k] \cup added
      /\ repeated' = repeated \cup
           {i \in {k} : \E od \in added, e \in Digests : sigs[k][e][od[1]] > 0}
  BY DEF Record, LoopTypeOK
<1> HIDE DEF added
<1>7. ASSUME k \notin repeated', NEW e \in Digests PROVE sigs[k][e][o] = 0
  <2>1. ~(sigs[k][e][o] > 0)
    BY <1>5, <1>6, <1>7
  <2> QED BY <1>1, <2>1, SMT
<1> QED BY <1>5, <1>6, <1>7

\* A step of the goroutine of k leaves the other keys alone; in its own round it
\* adds at most one signature, and after the last response it only ends.
LEMMA GoroutineEffect ==
  ASSUME Inv, NEW k \in Keys, GoroutineStep(k)
  PROVE  /\ rounds' = rounds
         /\ \A i \in Keys \ {k} :
              /\ avs'[i] = avs[i] /\ first'[i] = first[i] /\ sigs'[i] = sigs[i]
              /\ phase'[i] = phase[i] /\ pending'[i] = pending[i]
              /\ majority'[i] = majority[i]
         /\ \A t \in Senders : calls'[t].pc = "fetch" => calls'[t] = calls[t]
         /\ phase[k] # "none"
         /\ phase[k] = "closing" => phase'[k] = "none"
         /\ \/ sigs'[k] = sigs[k] /\ avs'[k] = avs[k]
            \/ sigs'[k] = NoSignatures
            \/ \E o \in Operators, d \in Digests :
                 AddSignature(k, o, d) /\ avs'[k] = avs[k]
<1>0. TypeOK /\ CallsOK /\ calls \in [Senders -> Calls]
  BY DEF Inv, TypeInv, TypeOK
<1>1. ASSUME NEW s \in Senders, RejectSignature(s, k) \/ IgnoreNonMajority(s, k)
      PROVE  /\ UNCHANGED <<rounds, aggVars>> /\ phase[k] \notin {"none", "closing"}
             /\ \A t \in Senders : calls'[t].pc = "fetch" => calls'[t] = calls[t]
  BY <1>0, <1>1, ReturnedType DEF RejectSignature, IgnoreNonMajority, Offers, Answer, Results
<1>2. ASSUME NEW s \in Senders, NEW ok \in BOOLEAN,
             \/ HandleSignedMessagePreThreshold(s, k, ok)
             \/ HandleSignedMessageThresholdReached(s, k, ok)
      PROVE  /\ \E o \in Operators, d \in Digests : AddSignature(k, o, d)
             /\ UNCHANGED <<rounds, avs>> /\ phase[k] \notin {"none", "closing"}
             /\ \A i \in Keys \ {k} :
                  /\ phase'[i] = phase[i] /\ pending'[i] = pending[i]
                  /\ majority'[i] = majority[i]
             /\ \A t \in Senders : calls'[t].pc = "fetch" => calls'[t] = calls[t]
  <2>1. /\ AddSignature(k, calls[s].op, calls[s].digest)
        /\ calls[s].op \in Operators /\ calls[s].digest \in Digests
    BY <1>0, <1>2 DEF HandleSignedMessagePreThreshold,
                      HandleSignedMessageThresholdReached, Offers, Blocked, CallsOK
  <2>2. calls' = [calls EXCEPT ![s] = Returned("nil")]
    BY <1>2 DEF HandleSignedMessagePreThreshold, HandleSignedMessageThresholdReached, Answer
  <2>3. \A t \in Senders : calls'[t].pc = "fetch" => calls'[t] = calls[t]
    BY <1>0, <2>2, ReturnedType DEF Results
  <2>4. /\ UNCHANGED <<rounds, avs>> /\ phase[k] \notin {"none", "closing"}
        /\ \A i \in Keys \ {k} :
             /\ phase'[i] = phase[i] /\ pending'[i] = pending[i]
             /\ majority'[i] = majority[i]
    <3>1. CASE HandleSignedMessagePreThreshold(s, k, ok)
      BY <1>0, <3>1 DEF HandleSignedMessagePreThreshold, Offers, TypeOK
    <3>2. CASE HandleSignedMessageThresholdReached(s, k, ok)
      BY <1>0, <3>2 DEF HandleSignedMessageThresholdReached, Offers, TypeOK
    <3> QED BY <1>2, <3>1, <3>2
  <2> QED BY <2>1, <2>3, <2>4
<1>3. ASSUME NEW o, NEW d, AddSignature(k, o, d)
      PROVE  \A i \in Keys \ {k} : first'[i] = first[i] /\ sigs'[i] = sigs[i]
  BY <1>0, <1>3 DEF AddSignature, TypeOK
<1>4. ASSUME MessageExpired(k) \/ \E ok \in BOOLEAN : AggregationTimeout(k, ok)
      PROVE  /\ UNCHANGED <<rounds, avs, first, sigs, majority, calls>>
             /\ phase[k] \notin {"none", "closing"}
             /\ \A i \in Keys \ {k} : phase'[i] = phase[i] /\ pending'[i] = pending[i]
  <2>1. CASE MessageExpired(k)
    BY <1>0, <2>1 DEF MessageExpired, TypeOK
  <2>2. ASSUME NEW ok \in BOOLEAN, AggregationTimeout(k, ok)
        PROVE  /\ UNCHANGED <<rounds, avs, first, sigs, majority, calls>>
               /\ phase[k] \notin {"none", "closing"}
               /\ \A i \in Keys \ {k} : phase'[i] = phase[i] /\ pending'[i] = pending[i]
    BY <1>0, <2>2 DEF AggregationTimeout, TypeOK
  <2> QED BY <1>4, <2>1, <2>2
<1>5. ASSUME CloseMessageGoroutine(k)
      PROVE  /\ UNCHANGED <<rounds, pending, calls>>
             /\ phase[k] = "closing" /\ phase'[k] = "none" /\ sigs'[k] = NoSignatures
             /\ \A i \in Keys \ {k} :
                  /\ avs'[i] = avs[i] /\ first'[i] = first[i] /\ sigs'[i] = sigs[i]
                  /\ phase'[i] = phase[i] /\ majority'[i] = majority[i]
  BY <1>0, <1>5 DEF CloseMessageGoroutine, TypeOK
<1>6. CASE \E s \in Senders : RejectSignature(s, k) \/ IgnoreNonMajority(s, k)
  BY <1>1, <1>6 DEF aggVars
<1>7. CASE \E s \in Senders, ok \in BOOLEAN :
             \/ HandleSignedMessagePreThreshold(s, k, ok)
             \/ HandleSignedMessageThresholdReached(s, k, ok)
  BY <1>2, <1>3, <1>7
<1>8. CASE MessageExpired(k) \/ \E ok \in BOOLEAN : AggregationTimeout(k, ok)
  BY <1>4, <1>8
<1>9. CASE CloseMessageGoroutine(k)
  BY <1>5, <1>9
<1> QED BY <1>6, <1>7, <1>8, <1>9 DEF GoroutineStep

\* What a step of the loop does to the signatures of key k and to the history.
LEMMA SignaturesStep ==
  ASSUME Inv, LoopTypeOK, [LoopNext]_allVars, NEW k \in Keys
  PROVE  /\ counted[k] \subseteq counted'[k] /\ repeated \subseteq repeated'
         /\ \/ sigs'[k] = sigs[k] /\ avs'[k] = avs[k]
            \/ sigs'[k] = NoSignatures
            \/ \E o \in Operators, d \in Digests : SignatureAdded(k, o, d)
<1>0. TypeOK /\ CallsOK
  BY DEF Inv, TypeInv
<1>1. ASSUME NEW s \in Senders, CallStep(s)
      PROVE  \/ sigs'[k] = sigs[k] /\ avs'[k] = avs[k]
             \/ sigs'[k] = NoSignatures
  <2>1. CASE StartAggregation(s)
    <3>1. calls[s].key \in Keys
      BY <1>0, <2>1 DEF StartAggregation, CallsOK
    <3>2. CASE calls[s].key = k
      BY <1>0, <2>1, <3>2 DEF StartAggregation, TypeOK
    <3>3. CASE calls[s].key # k
      BY <1>0, <2>1, <3>1, <3>3 DEF StartAggregation, TypeOK
    <3> QED BY <3>2, <3>3
  <2>2. CASE InitializeMessageChan(s) \/ FetchFails(s) \/ LookupChan(s)
    BY <2>2 DEF InitializeMessageChan, FetchFails, LookupChan, aggVars
  <2> QED BY <1>1, <2>1, <2>2 DEF CallStep
<1>2. ASSUME NEW s \in Senders, NEW o \in Operators, NEW i \in Keys, NEW d \in Digests,
             Call(s, o, i, d)
      PROVE  sigs' = sigs /\ avs' = avs
  BY <1>2 DEF Call, aggVars
<1>3. ASSUME NEW i \in Keys, GoroutineStep(i), Record(i)
      PROVE  /\ counted[k] \subseteq counted'[k] /\ repeated \subseteq repeated'
             /\ \/ sigs'[k] = sigs[k] /\ avs'[k] = avs[k]
                \/ sigs'[k] = NoSignatures
                \/ \E o \in Operators, d \in Digests : SignatureAdded(k, o, d)
  BY <1>3, GoroutineEffect, RecordGrows DEF SignatureAdded
<1>4. ASSUME NEW i \in Keys, ReceiveResponse(i)
      PROVE  UNCHANGED <<sigs, avs, counted, repeated>>
  BY <1>4 DEF ReceiveResponse, DeliverResponse, historyVars
<1>5. CASE ServiceStep
  BY <1>1, <1>2, <1>3, <1>5 DEF ServiceStep, historyVars
<1>6. CASE StoreMessage \/ StoreAggregation \/ StoreFails \/ UNCHANGED allVars
  BY <1>6 DEF StoreMessage, StoreAggregation, StoreFails, vars, allVars, historyVars
<1>7. CASE Crash
  BY <1>7 DEF Crash, historyVars
<1> QED BY <1>4, <1>5, <1>6, <1>7 DEF LoopNext

\* The signatures stay members', on record and single.
LEMMA SignaturesRecordedNext ==
  ASSUME Inv, LoopTypeOK, [LoopNext]_allVars, NEW k \in Keys, SignaturesRecorded(k)
  PROVE  SignaturesRecorded(k)'
<1>0. TypeInv /\ sigs \in [Keys -> [Digests -> [Operators -> Nat]]]
  BY DEF Inv, TypeInv, TypeOK, Bags
<1>1. counted[k] \subseteq counted'[k] /\ repeated \subseteq repeated'
  BY SignaturesStep
<1>2. CASE sigs'[k] = sigs[k] /\ avs'[k] = avs[k]
  BY <1>1, <1>2 DEF SignaturesRecorded, Members, DupFree
<1>3. CASE sigs'[k] = NoSignatures
  BY <1>3, SMT DEF SignaturesRecorded, DupFree, NoSignatures, NoSigs
<1>4. ASSUME NEW o \in Operators, NEW d \in Digests, SignatureAdded(k, o, d)
      PROVE  SignaturesRecorded(k)'
  <2>1. /\ AddSignature(k, o, d) /\ avs'[k] = avs[k] /\ o \in Members(k)
        /\ counted'[k] = counted[k] \cup {<<o, d>>}
        /\ k \notin repeated' => \A e \in Digests : sigs[k][e][o] = 0
    BY <1>0, <1>4, RecordAdds DEF SignatureAdded, AddSignature
  <2>2. sigs'[k] = [sigs[k] EXCEPT ![d][o] = @ + 1]
    BY <1>0, <2>1 DEF AddSignature, SigsAfter
  <2>3. \A e \in Digests, p \in Operators :
          sigs'[k][e][p] = IF e = d /\ p = o THEN sigs[k][e][p] + 1 ELSE sigs[k][e][p]
    BY <1>0, <2>2, SMT
  <2>4. Members(k)' = Members(k)
    BY <2>1 DEF Members
  <2>5. ASSUME NEW e \in Digests, NEW p \in Operators, sigs'[k][e][p] > 0
        PROVE  p \in Members(k)' /\ <<p, e>> \in counted'[k]
    <3>1. CASE e = d /\ p = o
      BY <2>1, <2>4, <3>1
    <3>2. CASE ~(e = d /\ p = o)
      BY <2>1, <2>3, <2>4, <2>5, <3>2 DEF SignaturesRecorded
    <3> QED BY <3>1, <3>2
  <2>6. ASSUME k \notin repeated' PROVE DupFree(k)'
    <3>1. DupFree(k) /\ \A e \in Digests : sigs[k][e][o] = 0
      BY <1>1, <2>1, <2>6 DEF SignaturesRecorded
    <3> QED BY <1>0, <2>3, <3>1, SMT DEF DupFree
  <2> QED BY <2>5, <2>6 DEF SignaturesRecorded
<1> QED BY <1>2, <1>3, <1>4, SignaturesStep

-----------------------------------------------------------------------------
(* A response that waits to be received shows its round. *)

\* The response r shows digest d with the signatures in bag.
Shows(r, k, d, stake, bag) ==
  ~r.err => /\ r.digest = d /\ r.sig = bag
            /\ r.nonSigners = Members(k) \ SignersOf(bag)
            /\ r.status = StatusOf(k, stake)

\* What getMessageBlsAggregationResponse copies into a response without error.
LEMMA ResponseForShows ==
  ASSUME NEW k, NEW d, NEW stake, NEW bag, NEW ok \in BOOLEAN, NEW force
  PROVE  Shows(ResponseFor(k, d, stake, bag, ok, force), k, d, stake, bag)
<1>1. CASE ok
  BY <1>1 DEF ResponseFor, Shows
<1>2. CASE ~ok
  BY <1>2 DEF ResponseFor, Shows
<1> QED BY <1>1, <1>2

\* The same for the response built right after a signature was added.
LEMMA ResponseAfterShows ==
  ASSUME TypeInv, NEW k \in Keys, NEW o \in Operators, NEW d \in Digests,
         NEW ok \in BOOLEAN, AddSignature(k, o, d), avs'[k] = avs[k]
  PROVE  LET r == ResponseAfter(k, o, d, ok)
         IN  /\ first'[k][d] # None
             /\ ~r.err => /\ r.digest = d /\ r.sig = sigs'[k][d]
                          /\ r.nonSigners = Members(k)' \ Signers(k, d)'
                          /\ r.status \in {"full", "reached", "notReached"}
<1> DEFINE stake == CellAfter(k, o, d)[FirstAfter(k, o, d)[d]]
           bag == SigsAfter(k, o, d)[d]
           r == ResponseAfter(k, o, d, ok)
<1>1. r = ResponseFor(k, d, stake, bag, ok, FALSE)
  BY DEF ResponseAfter
<1>2. bag = sigs'[k][d]
  BY DEF AddSignature, TypeInv, TypeOK
<1>3. Members(k)' = Members(k) /\ Signers(k, d)' = SignersOf(bag)
  BY <1>2 DEF Members, Signers, SignersOf
<1>4. StatusOf(k, stake) \in {"full", "reached", "notReached"}
  BY DEF StatusOf
<1>5. first'[k][d] # None
  BY AddSignatureFirst, ConstantsAssumption, SMT
<1> HIDE DEF stake, bag, r
<1>6. Shows(r, k, d, stake, bag)
  BY <1>1, ResponseForShows
<1> QED BY <1>2, <1>3, <1>4, <1>5, <1>6 DEF r, Shows

\* A quorum is not lost when another operator's signature is added.
LEMMA QuorumKept ==
  ASSUME TypeInv, NEW k \in Keys, NEW o \in Operators, NEW d \in Digests,
         AddSignature(k, o, d), avs'[k] = avs[k], DupFree(k)', HasQuorum(k, d)
  PROVE  HasQuorum(k, d)'
<1>1. SignedStake(k, d)' = SignedStake(k, d) + avs[k][o]
  BY SignedStakeAfter
<1>2. avs[k] \in AvsStates \cup {NoStake} /\ avs[k] \in [Operators -> Nat]
  BY ConstantsAssumption, SMT DEF TypeInv, TypeOK, NoStake
<1>3. SignedStake(k, d) \in Nat /\ avs[k][o] \in Nat
  BY <1>2, StakeIsNat DEF SignedStake, Signers, SignersOf
<1>4. TotalStake(k) \in Nat /\ Threshold \in Nat
  BY <1>2, StakeIsNat, ConstantsAssumption, SMT DEF TotalStake
<1>5. TotalStake(k)' = TotalStake(k)
  BY DEF TotalStake
<1> HIDE DEF TotalStake, SignedStake
<1>6. TotalStake(k) * Threshold \in Nat
  BY <1>4, SMT
<1> DEFINE need == TotalStake(k) * Threshold
<1> HIDE DEF need
<1>7. SignedStake(k, d) * 100 >= need
  BY DEF HasQuorum, need
<1>8. SignedStake(k, d)' * 100 >= need
  BY <1>1, <1>3, <1>6, <1>7, SMT DEF need
<1> QED BY <1>5, <1>8 DEF HasQuorum, need

\* Nothing of the round of k changes.
LEMMA QuietResponse ==
  ASSUME NEW k, ResponseExact(k), avs'[k] = avs[k], first'[k] = first[k],
         sigs'[k] = sigs[k], phase'[k] = phase[k], pending'[k] = pending[k],
         majority'[k] = majority[k]
  PROVE  ResponseExact(k)'
BY DEF ResponseExact, DupFree, HasQuorum, SignedStake, TotalStake, Signers, SignersOf,
       Members

\* No response of k waits, and its round, if any, has no quorum yet.
LEMMA NoResponse ==
  ASSUME NEW k, pending'[k] = None, phase'[k] # "thresholdReached"
  PROVE  ResponseExact(k)'
BY DEF ResponseExact

\* handleSignedMessagePreThreshold, a signed message was received.
LEMMA PreThresholdExact ==
  ASSUME Inv, NEW s \in Senders, NEW k \in Keys, NEW ok \in BOOLEAN,
         HandleSignedMessagePreThreshold(s, k, ok)
  PROVE  ResponseExact(k)'
<1>0. PICK o \in Operators, d \in Digests : o = calls[s].op /\ d = calls[s].digest
  BY DEF Inv, TypeInv, HandleSignedMessagePreThreshold, Offers, Blocked, CallsOK
<1> DEFINE r == ResponseAfter(k, o, d, ok)
<1>1. /\ TypeInv /\ ExactStakes(k) /\ AddSignature(k, o, d) /\ avs'[k] = avs[k]
      /\ pending'[k] = (IF r.status = "notReached" THEN None ELSE r)
      /\ phase'[k] = (CASE r.status = "reached" -> "thresholdReached"
                        [] r.status = "full" -> "closing"
                        [] OTHER -> "preThreshold")
      /\ majority'[k] = (IF r.status = "reached" THEN d ELSE majority[k])
  BY <1>0 DEF HandleSignedMessagePreThreshold, Inv, TypeInv, TypeOK, KeyInv
<1>2. /\ first'[k][d] # None
      /\ ~r.err => /\ r.digest = d /\ r.sig = sigs'[k][d]
                   /\ r.nonSigners = Members(k)' \ Signers(k, d)'
                   /\ r.status \in {"full", "reached", "notReached"}
  BY <1>1, ResponseAfterShows, SMT
<1>3. r.status \in {"reached", "full"} /\ DupFree(k)' => HasQuorum(k, d)'
  BY <1>1, ResponseAfterMeaning DEF ClaimsAfter
<1> HIDE DEF r
<1>4. CASE r.status = "notReached"
  <2>1. pending'[k] = None /\ phase'[k] = "preThreshold"
    BY <1>1, <1>4
  <2> QED BY <2>1, NoResponse
<1>5. CASE r.status # "notReached"
  <2>1. pending'[k] = r
    BY <1>1, <1>5
  <2>2. ~pending'[k].err =>
          /\ pending'[k].digest = d /\ first'[k][d] # None
          /\ pending'[k].sig = sigs'[k][d]
          /\ pending'[k].nonSigners = Members(k)' \ Signers(k, d)'
          /\ DupFree(k)' => HasQuorum(k, d)'
    BY <1>2, <1>3, <1>5, <2>1
  <2>3. phase'[k] = "thresholdReached" /\ DupFree(k)' => (HasQuorum(k, majority[k]))'
    <3>1. phase'[k] = "thresholdReached" => r.status = "reached" /\ majority'[k] = d
      BY <1>1
    <3> QED BY <1>3, <3>1
  <2> QED BY <2>1, <2>2, <2>3 DEF ResponseExact
<1> QED BY <1>4, <1>5

\* handleSignedMessageThresholdReached, a message with the majority digest.
LEMMA ThresholdReachedExact ==
  ASSUME Inv, NEW s \in Senders, NEW k \in Keys, NEW ok \in BOOLEAN, ResponseExact(k),
         HandleSignedMessageThresholdReached(s, k, ok)
  PROVE  ResponseExact(k)'
<1>0. PICK o \in Operators, d \in Digests : o = calls[s].op /\ d = calls[s].digest
  BY DEF Inv, TypeInv, HandleSignedMessageThresholdReached, Offers, Blocked, CallsOK
<1> DEFINE r == ResponseAfter(k, o, d, ok)
<1>1. /\ TypeInv /\ AddSignature(k, o, d) /\ avs'[k] = avs[k]
      /\ d = majority[k] /\ majority' = majority /\ phase[k] = "thresholdReached"
      /\ pending'[k] = r
  BY <1>0 DEF HandleSignedMessageThresholdReached, Offers, Inv, TypeInv, TypeOK
<1>2. /\ first'[k][d] # None
      /\ ~r.err => /\ r.digest = d /\ r.sig = sigs'[k][d]
                   /\ r.nonSigners = Members(k)' \ Signers(k, d)'
  BY <1>1, ResponseAfterShows, SMT
<1>3. DupFree(k)' => HasQuorum(k, d)'
  <2> SUFFICES ASSUME DupFree(k)' PROVE HasQuorum(k, d)'
    OBVIOUS
  <2>1. DupFree(k)
    BY <1>1, DupFreeBefore
  <2>2. HasQuorum(k, d)
    BY <1>1, <2>1 DEF ResponseExact
  <2> QED BY <1>1, <2>2, QuorumKept
<1> HIDE DEF r
<1> QED BY <1>1, <1>2, <1>3 DEF ResponseExact

\* handleSignedMessageThresholdReached, thresholdReachedTimer fired.
LEMMA AggregationTimeoutExact ==
  ASSUME Inv, NEW k \in Keys, NEW ok \in BOOLEAN, ResponseExact(k),
         AggregationTimeout(k, ok)
  PROVE  ResponseExact(k)'
<1>0. PICK d \in Digests : d = majority[k] /\ first[k][d] # None
  BY DEF Inv, TypeInv, AggregationTimeout, FirstSigners
<1> DEFINE r == ResponseFor(k, d, cell[k][first[k][d]], sigs[k][d], ok, TRUE)
<1>1. /\ pending'[k] = r /\ phase[k] = "thresholdReached" /\ phase'[k] = "closing"
      /\ UNCHANGED <<avs, first, sigs, majority>>
  BY <1>0 DEF AggregationTimeout, Inv, TypeInv, TypeOK
<1>2. ~r.err => /\ r.digest = d /\ r.sig = sigs[k][d]
                /\ r.nonSigners = Members(k) \ SignersOf(sigs[k][d])
  <2>1. Shows(r, k, d, cell[k][first[k][d]], sigs[k][d])
    BY ResponseForShows
  <2> HIDE DEF r
  <2> QED BY <2>1 DEF Shows
<1>3. DupFree(k) => HasQuorum(k, d)
  BY <1>0, <1>1 DEF ResponseExact
<1>4. /\ Members(k)' = Members(k) /\ Signers(k, d)' = SignersOf(sigs[k][d])
      /\ DupFree(k)' => DupFree(k)
      /\ HasQuorum(k, d) => HasQuorum(k, d)'
  BY <1>1 DEF Members, Signers, SignersOf, DupFree, HasQuorum, SignedStake, TotalStake
<1> HIDE DEF r
<1> QED BY <1>0, <1>1, <1>2, <1>3, <1>4 DEF ResponseExact

\* A response shows its round for as long as it waits to be received.
LEMMA ResponseExactNext ==
  ASSUME Inv, LoopTypeOK, [LoopNext]_allVars, NEW k \in Keys, ResponseExact(k)
  PROVE  ResponseExact(k)'
<1>0. TypeOK /\ CallsOK /\ OneRoundAtATime /\ KeyInv(k)
  BY DEF Inv, TypeInv
<1>1. ASSUME NEW s \in Senders, CallStep(s) PROVE ResponseExact(k)'
  <2>1. CASE StartAggregation(s)
    <3>1. calls[s].key \in Keys
      BY <1>0, <2>1 DEF StartAggregation, CallsOK
    <3>2. CASE calls[s].key = k
      <4>1. phase[k] = "none"
        BY <1>0, <2>1, <3>2 DEF StartAggregation, OneRoundAtATime
      <4>2. pending'[k] = None /\ phase'[k] = "preThreshold"
        BY <1>0, <2>1, <3>2, <4>1 DEF StartAggregation, KeyInv, ResponsesFitPhase, TypeOK
      <4> QED BY <4>2, NoResponse
    <3>3. CASE calls[s].key # k
      <4>1. /\ avs'[k] = avs[k] /\ first'[k] = first[k] /\ sigs'[k] = sigs[k]
            /\ phase'[k] = phase[k] /\ pending'[k] = pending[k]
            /\ majority'[k] = majority[k]
        BY <1>0, <2>1, <3>1, <3>3 DEF StartAggregation, TypeOK
      <4> QED BY <4>1, QuietResponse
    <3> QED BY <3>2, <3>3
  <2>2. CASE InitializeMessageChan(s) \/ FetchFails(s) \/ LookupChan(s)
    <3>1. UNCHANGED aggVars
      BY <2>2 DEF InitializeMessageChan, FetchFails, LookupChan
    <3> QED BY <3>1, QuietResponse DEF aggVars
  <2> QED BY <1>1, <2>1, <2>2 DEF CallStep
<1>2. ASSUME NEW s \in Senders, NEW o \in Operators, NEW i \in Keys, NEW d \in Digests,
             Call(s, o, i, d)
      PROVE  ResponseExact(k)'
  BY <1>2, QuietResponse DEF Call, aggVars
<1>3. ASSUME NEW i \in Keys, GoroutineStep(i) PROVE ResponseExact(k)'
  <2>1. CASE i # k
    <3>1. /\ avs'[k] = avs[k] /\ first'[k] = first[k] /\ sigs'[k] = sigs[k]
          /\ phase'[k] = phase[k] /\ pending'[k] = pending[k]
          /\ majority'[k] = majority[k]
      BY <1>3, <2>1, GoroutineEffect
    <3> QED BY <3>1, QuietResponse
  <2>2. CASE i = k
    <3>1. ASSUME NEW s \in Senders, RejectSignature(s, k) \/ IgnoreNonMajority(s, k)
          PROVE  ResponseExact(k)'
      BY <3>1, QuietResponse DEF RejectSignature, IgnoreNonMajority, aggVars
    <3>2. CASE MessageExpired(k)
      <4>1. pending'[k] = ExpiredResponse /\ phase'[k] = "closing"
        BY <1>0, <3>2 DEF MessageExpired, TypeOK
      <4> QED BY <4>1, SMT DEF ResponseExact, ExpiredResponse
    <3>3. CASE CloseMessageGoroutine(k)
      <4>1. pending'[k] = None /\ phase'[k] = "none"
        BY <1>0, <3>3 DEF CloseMessageGoroutine, TypeOK
      <4> QED BY <4>1, NoResponse
    <3>4. GoroutineStep(k)
      BY <1>3, <2>2
    <3> QED BY <3>1, <3>2, <3>3, <3>4, PreThresholdExact, ThresholdReachedExact,
               AggregationTimeoutExact DEF GoroutineStep
  <2> QED BY <2>1, <2>2
<1>4. ASSUME NEW i \in Keys, ReceiveResponse(i) PROVE ResponseExact(k)'
  <2>1. /\ UNCHANGED <<avs, first, sigs, phase, majority>>
        /\ pending'[k] = IF i = k THEN None ELSE pending[k]
    BY <1>0, <1>4 DEF ReceiveResponse, DeliverResponse, TypeOK
  <2>2. CASE i # k
    BY <2>1, <2>2, QuietResponse
  <2>3. CASE i = k
    BY <2>1, <2>3 DEF ResponseExact, DupFree, HasQuorum, SignedStake, TotalStake, Signers,
                      SignersOf
  <2> QED BY <2>2, <2>3
<1>5. CASE ServiceStep
  BY <1>1, <1>2, <1>3, <1>5 DEF ServiceStep
<1>6. CASE StoreMessage \/ StoreAggregation \/ StoreFails \/ UNCHANGED allVars
  <2>1. UNCHANGED vars
    BY <1>6 DEF StoreMessage, StoreAggregation, StoreFails, allVars
  <2> QED BY <2>1, QuietResponse DEF vars
<1>7. CASE Crash
  BY <1>7, NoResponse DEF Crash
<1> QED BY <1>4, <1>5, <1>6, <1>7 DEF LoopNext

-----------------------------------------------------------------------------
(* The response in hand and what is stored and broadcast of it. *)

\* A read of a point gives a bag or a torn point.
LEMMA PointReadType ==
  ASSUME inHand \in InHand
  PROVE  /\ PointRead \subseteq Bags \cup {None}
         /\ \A sig, apk \in PointRead : AggregationRead(sig, apk) \in Aggregations
<1>1. PointRead \subseteq Bags \cup {None}
  BY DEF PointRead, InHand
<1>2. ASSUME NEW sig \in Bags \cup {None}, NEW apk \in Bags \cup {None}
      PROVE  AggregationRead(sig, apk) \in Aggregations
  BY DEF AggregationRead, Aggregations, InHand
<1> QED BY <1>1, <1>2

\* The handler's return broadcasts well-formed aggregations.
LEMMA HandlerReturnsType ==
  ASSUME LoopTypeOK, inHand # None, HandlerReturns
  PROVE  inHand' = None /\ broadcast' \subseteq Aggregations
<1>1. inHand \in InHand
  BY DEF LoopTypeOK
<1>2. \A sig, apk \in PointRead : AggregationRead(sig, apk) \in Aggregations
  BY <1>1, PointReadType
<1>3. CASE UNCHANGED broadcast
  BY <1>3 DEF LoopTypeOK, HandlerReturns
<1>4. ASSUME NEW sig \in PointRead, NEW apk \in PointRead,
             broadcast' = broadcast \cup {AggregationRead(sig, apk)}
      PROVE  broadcast' \subseteq Aggregations
  BY <1>2, <1>4 DEF LoopTypeOK
<1>5. \/ UNCHANGED broadcast
      \/ \E sig, apk \in PointRead : broadcast' = broadcast \cup {AggregationRead(sig, apk)}
  BY DEF HandlerReturns
<1>6. inHand' = None
  BY DEF HandlerReturns
<1> QED BY <1>3, <1>4, <1>5, <1>6

\* What ReceiveResponse takes in hand.
LEMMA ReceivedInHand ==
  ASSUME Inv, NEW k \in Keys, ResponseExact(k), ReceiveResponse(k), inHand' # None
  PROVE  /\ inHand' \in InHand
         /\ pending[k] # None /\ ~pending[k].err /\ phase[k] # "none"
         /\ pending[k].digest \in Digests
         /\ inHand'.key = k /\ inHand'.round = rounds[k] /\ inHand'.stage = "message"
         /\ inHand'.digest = pending[k].digest /\ inHand'.finished = pending[k].finished
         /\ inHand'.members = Members(k)
         /\ inHand'.nonSigners = Members(k) \ Signers(k, pending[k].digest)
         /\ inHand'.sig = sigs[k][pending[k].digest] /\ inHand'.live = inHand'.sig
<1> DEFINE r == pending[k]
<1>1. /\ r # None /\ ~r.err
      /\ inHand' = [key |-> k, round |-> rounds[k], digest |-> r.digest,
                    finished |-> r.finished, members |-> Members(k),
                    nonSigners |-> r.nonSigners, sig |-> r.sig, live |-> r.sig,
                    stage |-> "message"]
  BY DEF ReceiveResponse, DeliverResponse
<1>2. /\ r.digest \in Digests /\ r.sig = sigs[k][r.digest]
      /\ r.nonSigners = Members(k) \ Signers(k, r.digest)
  BY <1>1 DEF ResponseExact
<1>3. phase[k] # "none"
  BY <1>1 DEF Inv, KeyInv, ResponsesFitPhase
<1>4. /\ r \in Responses /\ rounds[k] \in Nat
  BY <1>1 DEF Inv, TypeInv, TypeOK
<1>5. /\ r.finished \in BOOLEAN /\ r.sig \in Bags /\ r.nonSigners \subseteq Operators
      /\ Members(k) \subseteq Operators
  BY <1>4 DEF Responses, Members
<1> HIDE DEF r
<1>6. inHand' \in InHand
  BY <1>1, <1>2, <1>4, <1>5 DEF InHand
<1>7. /\ inHand'.key = k /\ inHand'.round = rounds[k] /\ inHand'.stage = "message"
      /\ inHand'.digest = r.digest /\ inHand'.finished = r.finished
      /\ inHand'.members = Members(k) /\ inHand'.nonSigners = r.nonSigners
      /\ inHand'.sig = r.sig /\ inHand'.live = inHand'.sig
  BY <1>1
<1> QED BY <1>1, <1>2, <1>3, <1>6, <1>7 DEF r

\* The pointers of the response in hand are the only thing of it that a step of the
\* goroutine of k changes, and only while the round they belong to goes on.
LEMMA Followed ==
  ASSUME Inv, Inv', LoopTypeOK, NEW k \in Keys, FollowPointers(k)
  PROVE  /\ inHand' \in InHand \cup {None}
         /\ inHand' # None <=> inHand # None
         /\ inHand' # None =>
              /\ inHand'.key = inHand.key /\ inHand'.round = inHand.round
              /\ inHand'.digest = inHand.digest /\ inHand'.finished = inHand.finished
              /\ inHand'.members = inHand.members /\ inHand'.nonSigners = inHand.nonSigners
              /\ inHand'.sig = inHand.sig /\ inHand'.stage = inHand.stage
              /\ \/ inHand' = inHand
                 \/ inHand.key = k /\ inHand.round = rounds[k] /\ phase'[k] # "none"
<1>1. CASE inHand' = inHand
  BY <1>1 DEF LoopTypeOK
<1>2. CASE /\ inHand # None /\ inHand.key = k /\ inHand.round = rounds[k]
           /\ phase'[k] # "none"
           /\ inHand' = [inHand EXCEPT !.live = sigs'[k][inHand.digest]]
  <2>1. inHand \in InHand
    BY <1>2 DEF LoopTypeOK
  <2>2. inHand.digest \in Digests
    BY <2>1 DEF InHand
  <2>3. sigs'[k][inHand.digest] \in Bags
    BY <2>2, SMT DEF Inv, TypeInv, TypeOK
  <2>4. inHand' \in InHand
    BY <1>2, <2>1, <2>3 DEF InHand
  <2>5. inHand' # None
    BY <2>4, LoopNoneAssumption
  <2> QED BY <1>2, <2>1, <2>4, <2>5 DEF InHand
<1> QED BY <1>1, <1>2 DEF FollowPointers

\* The loop's variables stay in their domains.
LEMMA LoopTypeNext ==
  ASSUME Inv, Inv', LoopTypeOK, [LoopNext]_allVars, \A k \in Keys : ResponseExact(k)
  PROVE  LoopTypeOK'
<1>1. CASE ServiceStep
  <2>1. CASE UNCHANGED <<loopVars, historyVars, crashes>>
    BY <2>1 DEF LoopTypeOK, loopVars, historyVars
  <2>2. ASSUME NEW k \in Keys, FollowPointers(k), Record(k),
               UNCHANGED <<dbMessage, dbAggregation, broadcast, crashes>>
        PROVE  LoopTypeOK'
    <3>1. inHand' \in InHand \cup {None}
      BY <2>2, Followed
    <3>2. /\ counted' \in [Keys -> SUBSET (Operators \X Digests)]
          /\ repeated' \subseteq Keys
      BY <2>2, RecordGrows
    <3> QED BY <2>2, <3>1, <3>2 DEF LoopTypeOK
  <2> QED BY <1>1, <2>1, <2>2 DEF ServiceStep
<1>2. ASSUME NEW k \in Keys, ReceiveResponse(k) PROVE LoopTypeOK'
  <2>1. inHand' \in InHand \cup {None}
    BY <1>2, ReceivedInHand
  <2>2. UNCHANGED <<dbMessage, dbAggregation, broadcast, counted, repeated, crashes>>
    BY <1>2 DEF ReceiveResponse, historyVars
  <2> QED BY <2>1, <2>2 DEF LoopTypeOK
<1>3. CASE StoreMessage
  <2>1. inHand \in InHand /\ inHand.key \in Keys /\ inHand.digest \in Digests
    BY <1>3 DEF StoreMessage, LoopTypeOK, InHand
  <2>2. inHand' \in InHand
    BY <1>3, <2>1 DEF StoreMessage, InHand
  <2>3. dbMessage' \in [Keys -> Digests \cup {None}]
    BY <1>3, <2>1 DEF StoreMessage, LoopTypeOK
  <2> QED BY <1>3, <2>2, <2>3 DEF StoreMessage, LoopTypeOK, historyVars
<1>4. CASE StoreAggregation
  <2>1. inHand # None /\ inHand \in InHand /\ inHand.key \in Keys /\ HandlerReturns
    BY <1>4 DEF StoreAggregation, LoopTypeOK, InHand
  <2>2. dbAggregation' \in [Keys -> Aggregations \cup {None}]
    BY <1>4, <2>1, PointReadType, SMT DEF StoreAggregation, LoopTypeOK
  <2>3. inHand' = None /\ broadcast' \subseteq Aggregations
    BY <2>1, HandlerReturnsType
  <2> QED BY <1>4, <2>2, <2>3 DEF StoreAggregation, LoopTypeOK, historyVars
<1>5. CASE StoreFails
  <2>1. inHand' = None /\ broadcast' \subseteq Aggregations
    BY <1>5, HandlerReturnsType DEF StoreFails
  <2> QED BY <1>5, <2>1 DEF StoreFails, LoopTypeOK, historyVars
<1>6. CASE Crash
  BY <1>6, LoopAssumption, SMT DEF Crash, LoopTypeOK, historyVars
<1>7. CASE UNCHANGED allVars
  BY <1>7 DEF allVars, loopVars, historyVars, LoopTypeOK
<1> QED BY <1>1, <1>2, <1>3, <1>4, <1>5, <1>6, <1>7 DEF LoopNext

\* What InHandExact says of a response x.
ExactInHand(x) ==
  /\ x.round <= rounds[x.key]
  /\ \A s \in Senders : calls[s].pc = "fetch" /\ calls[s].key = x.key => x.round < rounds[x.key]
  /\ x.key \notin repeated =>
       \A o \in Operators : x.sig[o] = IF o \in x.members \ x.nonSigners THEN 1 ELSE 0
  /\ x.finished =>
       /\ x.live = x.sig
       /\ x.round = rounds[x.key] => phase[x.key] \in {"none", "closing"}

\* The response in hand is not affected by the steps of the callers: a new round
\* of its key has another number.
LEMMA CallersAndInHand ==
  ASSUME Inv, NEW x \in InHand, ExactInHand(x), repeated' = repeated,
         \/ \E s \in Senders, o \in Operators, k \in Keys, d \in Digests : Call(s, o, k, d)
         \/ \E s \in Senders : CallStep(s)
  PROVE  ExactInHand(x)'
<1>0. /\ TypeOK /\ CallsOK /\ x.key \in Keys /\ x.round \in Nat
      /\ calls \in [Senders -> Calls] /\ rounds \in [Keys -> Nat]
  BY DEF Inv, TypeInv, TypeOK, InHand
<1>q. ASSUME rounds'[x.key] = rounds[x.key], phase'[x.key] = phase[x.key],
             \A t \in Senders : calls'[t].pc = "fetch" => calls'[t] = calls[t]
      PROVE  ExactInHand(x)'
  BY <1>q DEF ExactInHand
<1>1. ASSUME NEW s \in Senders, NEW o \in Operators, NEW k \in Keys, NEW d \in Digests,
             Call(s, o, k, d)
      PROVE  ExactInHand(x)'
  <2>1. UNCHANGED <<rounds, phase>>
    BY <1>1 DEF Call, aggVars
  <2>2. \A t \in Senders : calls'[t].pc = "fetch" => calls'[t] = calls[t]
    BY <1>0, <1>1 DEF Call
  <2> QED BY <1>q, <2>1, <2>2
<1>2. ASSUME NEW s \in Senders, InitializeMessageChan(s) PROVE ExactInHand(x)'
  <2> DEFINE i == calls[s].key
  <2>0. i \in Keys /\ calls[s] \in Calls /\ UNCHANGED phase
    BY <1>0, <1>2 DEF InitializeMessageChan, CallsOK, aggVars
  <2>1. CASE /\ calls' = [calls EXCEPT ![s] = Initialized(@)]
             /\ UNCHANGED <<signedMessageCs, rounds>>
    <3>1. Initialized(calls[s]).pc # "fetch"
      BY <2>0, InitializedType
    <3>2. \A t \in Senders : calls'[t].pc = "fetch" => calls'[t] = calls[t]
      BY <1>0, <2>1, <3>1
    <3> QED BY <1>q, <2>0, <2>1, <3>2
  <2>2. CASE /\ rounds' = [rounds EXCEPT ![i] = @ + 1]
             /\ calls' = [calls EXCEPT ![s].pc = "fetch"]
    <3>1. /\ calls'[s].key = i
          /\ \A t \in Senders \ {s} : calls'[t] = calls[t]
      BY <1>0, <2>0, <2>2 DEF Calls
    <3>2. CASE i # x.key
      <4>1. rounds'[x.key] = rounds[x.key]
        BY <1>0, <2>2, <3>2
      <4>2. \A t \in Senders : calls'[t].pc = "fetch" /\ calls'[t].key = x.key =>
                                 calls'[t] = calls[t]
        BY <3>1, <3>2
      <4> QED BY <2>0, <4>1, <4>2 DEF ExactInHand
    <3>3. CASE i = x.key
      <4>1. rounds'[x.key] = rounds[x.key] + 1 /\ rounds[x.key] \in Nat
        BY <1>0, <2>2, <3>3
      <4>2. x.round < rounds'[x.key]
        BY <1>0, <4>1, SMT DEF ExactInHand
      <4>3. x.round <= rounds'[x.key] /\ x.round # rounds'[x.key]
        BY <1>0, <4>1, <4>2, SMT
      <4> QED BY <4>2, <4>3 DEF ExactInHand
    <3> QED BY <3>2, <3>3
  <2> QED BY <1>2, <2>1, <2>2 DEF InitializeMessageChan
<1>3. ASSUME NEW s \in Senders, StartAggregation(s) PROVE ExactInHand(x)'
  <2>0. calls[s].key \in Keys /\ calls[s].pc = "fetch" /\ calls[s] \in Calls
    BY <1>0, <1>3 DEF StartAggregation, CallsOK
  <2>1. /\ UNCHANGED rounds
        /\ calls' = [calls EXCEPT ![s] = Initialized(@)]
        /\ \A k \in Keys \ {calls[s].key} : phase'[k] = phase[k]
    BY <1>0, <1>3 DEF StartAggregation, TypeOK
  <2>2. \A t \in Senders : calls'[t].pc = "fetch" => calls'[t] = calls[t]
    BY <1>0, <2>0, <2>1, InitializedType
  <2>3. CASE calls[s].key # x.key
    BY <1>0, <1>q, <2>1, <2>2, <2>3
  <2>4. CASE calls[s].key = x.key
    <3>1. x.round < rounds[x.key]
      BY <2>0, <2>4 DEF ExactInHand
    <3>2. x.round # rounds'[x.key]
      BY <1>0, <2>1, <3>1, SMT
    <3> QED BY <2>1, <2>2, <3>2 DEF ExactInHand
  <2> QED BY <2>3, <2>4
<1>4. ASSUME NEW s \in Senders, FetchFails(s) \/ LookupChan(s) PROVE ExactInHand(x)'
  <2>1. UNCHANGED <<rounds, phase>>
    BY <1>4 DEF FetchFails, LookupChan, aggVars
  <2>2. CASE FetchFails(s)
    <3>1. \A t \in Senders : calls'[t].pc = "fetch" => calls'[t] = calls[t]
      BY <1>0, <2>2, ReturnedType DEF FetchFails, Results
    <3> QED BY <1>q, <2>1, <3>1
  <2>3. CASE LookupChan(s)
    <3>1. calls[s] \in Calls
      BY <1>0
    <3>2. \A t \in Senders : calls'[t].pc = "fetch" => calls'[t] = calls[t]
      BY <1>0, <2>3, <3>1, ReturnedType DEF LookupChan, Results, Calls
    <3> QED BY <1>q, <2>1, <3>2
  <2> QED BY <1>4, <2>2, <2>3
<1> QED BY <1>1, <1>2, <1>3, <1>4 DEF CallStep

\* A response that is received shows one signature of every operator it does not
\* list, and is the last of its round when it is finished.
LEMMA ReceivedExact ==
  ASSUME Inv, LoopTypeOK, NEW k \in Keys, SignaturesRecorded(k), ResponseExact(k),
         ReceiveResponse(k), inHand' # None
  PROVE  ExactInHand(inHand)'
<1> DEFINE d == pending[k].digest
<1>0. /\ d \in Digests /\ pending[k] # None /\ phase[k] # "none" /\ phase[k] \in Phases
      /\ inHand'.key = k /\ inHand'.round = rounds[k]
      /\ inHand'.finished = pending[k].finished
      /\ inHand'.members = Members(k)
      /\ inHand'.nonSigners = Members(k) \ Signers(k, d)
      /\ inHand'.sig = sigs[k][d] /\ inHand'.live = inHand'.sig
  BY ReceivedInHand DEF Inv, TypeInv, TypeOK
<1>1. UNCHANGED <<rounds, calls, phase, repeated>>
  BY DEF ReceiveResponse, DeliverResponse, historyVars
<1>2. rounds[k] \in Nat /\ sigs[k][d] \in [Operators -> Nat]
  BY <1>0, SMT DEF Inv, TypeInv, TypeOK, Bags
<1>3. \A s \in Senders : ~(calls[s].pc = "fetch" /\ calls[s].key = k)
  BY <1>0, ZenonT(30) DEF Inv, TypeInv, OneRoundAtATime
<1>4. ASSUME k \notin repeated, NEW o \in Operators
      PROVE  sigs[k][d][o] = IF o \in Members(k) \ (Members(k) \ Signers(k, d)) THEN 1 ELSE 0
  <2>1. sigs[k][d][o] \in Nat /\ sigs[k][d][o] <= 1
    BY <1>0, <1>2, <1>4 DEF SignaturesRecorded, DupFree
  <2>2. sigs[k][d][o] > 0 => o \in Members(k)
    BY <1>0 DEF SignaturesRecorded
  <2>3. o \in Signers(k, d) <=> sigs[k][d][o] > 0
    BY DEF Signers, SignersOf
  <2> QED BY <2>1, <2>2, <2>3, SMT
<1>5. pending[k].finished => phase[k] = "closing"
  BY <1>0 DEF Inv, KeyInv, ResponsesFitPhase, Phases
<1> HIDE DEF d
<1>6. (inHand.key \notin repeated)' =>
        \A o \in Operators :
          inHand'.sig[o] = IF o \in inHand'.members \ inHand'.nonSigners THEN 1 ELSE 0
  BY <1>0, <1>1, <1>4
<1> QED BY <1>0, <1>1, <1>2, <1>3, <1>5, <1>6, SMT DEF ExactInHand

\* The points of a finished response are not written to any more.
LEMMA InHandExactNext ==
  ASSUME Inv, Inv', LoopTypeOK, [LoopNext]_allVars, InHandExact,
         \A k \in Keys : SignaturesRecorded(k) /\ ResponseExact(k)
  PROVE  InHandExact'
<1> SUFFICES ASSUME inHand' # None PROVE ExactInHand(inHand)'
  BY DEF InHandExact, ExactInHand
<1>0. inHand # None => inHand \in InHand /\ ExactInHand(inHand)
  BY DEF InHandExact, ExactInHand, LoopTypeOK
<1>q. ASSUME inHand' = inHand, UNCHANGED <<rounds, calls, phase, repeated>>
      PROVE  ExactInHand(inHand)'
  BY <1>0, <1>q DEF ExactInHand
<1>1. CASE ServiceStep
  <2>1. CASE /\ \/ \E s \in Senders, o \in Operators, k \in Keys, d \in Digests :
                     Call(s, o, k, d)
                \/ \E s \in Senders : CallStep(s)
             /\ UNCHANGED <<loopVars, historyVars, crashes>>
    <3>1. inHand' = inHand /\ repeated' = repeated
      BY <2>1 DEF loopVars, historyVars
    <3>2. PICK x : x = inHand
      OBVIOUS
    <3>3. x \in InHand /\ ExactInHand(x) /\ x = inHand'
      BY <1>0, <3>1, <3>2
    <3>4. ExactInHand(x)'
      BY <2>1, <3>1, <3>3, CallersAndInHand
    <3> QED BY <3>3, <3>4 DEF ExactInHand
  <2>2. ASSUME NEW k \in Keys, GoroutineStep(k), FollowPointers(k), Record(k)
        PROVE  ExactInHand(inHand)'
    <3>1. /\ inHand # None /\ inHand.key \in Keys
          /\ inHand'.key = inHand.key /\ inHand'.round = inHand.round
          /\ inHand'.finished = inHand.finished
          /\ inHand'.members = inHand.members /\ inHand'.nonSigners = inHand.nonSigners
          /\ inHand'.sig = inHand.sig
          /\ \/ inHand' = inHand
             \/ inHand.key = k /\ inHand.round = rounds[k] /\ phase'[k] # "none"
      BY <1>0, <2>2, Followed DEF InHand
    <3>2. /\ rounds' = rounds /\ repeated \subseteq repeated'
          /\ \A t \in Senders : calls'[t].pc = "fetch" => calls'[t] = calls[t]
          /\ \A i \in Keys \ {k} : phase'[i] = phase[i]
          /\ phase[k] # "none"
          /\ phase[k] = "closing" => phase'[k] = "none"
      BY <2>2, GoroutineEffect, RecordGrows
    <3>3. ASSUME inHand.finished
          PROVE  /\ inHand'.live = inHand'.sig
                 /\ inHand.round = rounds[inHand.key] => phase'[inHand.key] \in {"none", "closing"}
      <4>1. /\ inHand.live = inHand.sig
            /\ inHand.round = rounds[inHand.key] => phase[inHand.key] \in {"none", "closing"}
        BY <1>0, <3>1, <3>3 DEF ExactInHand
      <4>2. CASE inHand' = inHand
        BY <3>1, <3>2, <4>1, <4>2, SMT
      <4>3. CASE inHand.key = k /\ inHand.round = rounds[k] /\ phase'[k] # "none"
        BY <3>2, <4>1, <4>3
      <4> QED BY <3>1, <4>2, <4>3
    <3> QED BY <1>0, <3>1, <3>2, <3>3 DEF ExactInHand
  <2> QED BY <1>1, <2>1, <2>2 DEF ServiceStep
<1>2. ASSUME NEW k \in Keys, ReceiveResponse(k) PROVE ExactInHand(inHand)'
  BY <1>2, ReceivedExact
<1>3. CASE StoreMessage
  <2>1. inHand # None /\ inHand \in InHand /\ ExactInHand(inHand)
    BY <1>0, <1>3 DEF StoreMessage
  <2>2. /\ inHand' = [inHand EXCEPT !.stage = "aggregation"]
        /\ UNCHANGED <<rounds, calls, phase, repeated>>
    BY <1>3 DEF StoreMessage, vars, historyVars
  <2>3. /\ inHand'.key = inHand.key /\ inHand'.round = inHand.round
        /\ inHand'.finished = inHand.finished
        /\ inHand'.members = inHand.members /\ inHand'.nonSigners = inHand.nonSigners
        /\ inHand'.sig = inHand.sig /\ inHand'.live = inHand.live
    BY <2>1, <2>2 DEF InHand
  <2> QED BY <2>1, <2>2, <2>3, SMT DEF ExactInHand
<1>4. CASE StoreAggregation \/ StoreFails \/ Crash
  BY <1>4 DEF StoreAggregation, StoreFails, Crash, HandlerReturns
<1>5. CASE UNCHANGED allVars
  BY <1>5, <1>q DEF allVars, vars, loopVars, historyVars
<1> QED BY <1>1, <1>2, <1>3, <1>4, <1>5 DEF LoopNext

\* The deferred broadcast sends what verifies, and the history only gets worse.
LEMMA BroadcastNext ==
  ASSUME Inv, LoopTypeOK, [LoopNext]_allVars, InHandExact, BroadcastVerifies
  PROVE  BroadcastVerifies'
<1> SUFFICES ASSUME repeated' = {} PROVE \A a \in broadcast' : Verifies(a)
  BY DEF BroadcastVerifies, Verifies
<1>1. CASE repeated = {} /\ broadcast' = broadcast
  BY <1>1 DEF BroadcastVerifies
<1>2. ASSUME inHand # None, HandlerReturns, repeated' = repeated
      PROVE  \A a \in broadcast' : Verifies(a)
  <2>0. repeated = {} /\ inHand \in InHand
    BY <1>2 DEF LoopTypeOK
  <2>1. CASE broadcast' = broadcast
    BY <1>1, <2>0, <2>1
  <2>2. CASE inHand.finished /\ \E sig, apk \in PointRead :
               broadcast' = broadcast \cup {AggregationRead(sig, apk)}
    <3> DEFINE a == AggregationRead(inHand.sig, inHand.sig)
    <3>1. /\ inHand.live = inHand.sig
          /\ \A o \in Operators :
               inHand.sig[o] = IF o \in inHand.members \ inHand.nonSigners THEN 1 ELSE 0
      BY <1>2, <2>0, <2>2 DEF InHandExact
    <3>2. PointRead = {inHand.sig}
      BY <3>1 DEF PointRead
    <3>3. broadcast' = broadcast \cup {a}
      BY <2>2, <3>2
    <3>4. inHand.sig \in [Operators -> Nat]
      BY <2>0 DEF InHand, Bags
    <3>5. inHand.sig =
            [o \in Operators |-> IF o \in inHand.members \ inHand.nonSigners THEN 1 ELSE 0]
      BY <3>1, <3>4
    <3>6. a.members = inHand.members /\ a.nonSigners = inHand.nonSigners
          /\ a.sig = inHand.sig /\ a.apk = inHand.sig
      BY DEF AggregationRead
    <3> HIDE DEF a
    <3>7. Verifies(a)
      BY <3>5, <3>6 DEF Verifies
    <3> QED BY <2>0, <3>3, <3>7 DEF BroadcastVerifies
  <2> QED BY <1>2, <2>1, <2>2 DEF HandlerReturns
<1>3. repeated \subseteq repeated'
  <2>1. CASE \E k \in Keys : TRUE
    BY <2>1, SignaturesStep
  <2>2. CASE ~\E k \in Keys : TRUE
    BY <2>2 DEF LoopTypeOK
  <2> QED BY <2>1, <2>2
<1>4. repeated = {}
  BY <1>3
<1>5. CASE StoreAggregation \/ StoreFails
  BY <1>2, <1>5 DEF StoreAggregation, StoreFails, historyVars
<1>6. CASE broadcast' = broadcast
  BY <1>1, <1>4, <1>6
<1>7. \/ StoreAggregation \/ StoreFails
      \/ broadcast' = broadcast
  <2>1. \A k \in Keys : ReceiveResponse(k) => broadcast' = broadcast
    BY DEF ReceiveResponse
  <2>2. ServiceStep => broadcast' = broadcast
    BY DEF ServiceStep, loopVars
  <2> QED BY <2>1, <2>2 DEF LoopNext, StoreMessage, Crash, allVars, loopVars
<1> QED BY <1>5, <1>6, <1>7

\* LoopInv is inductive.
LEMMA LoopInvInit == LoopInit => LoopInv
<1> SUFFICES ASSUME LoopInit PROVE LoopInv
  OBVIOUS
<1>1. Inv
  BY InvInit DEF LoopInit
<1>2. LoopTypeOK
  BY LoopAssumption, SMT DEF LoopInit, LoopTypeOK
<1>3. ASSUME NEW k \in Keys PROVE SignaturesRecorded(k) /\ ResponseExact(k)
  BY SMT DEF LoopInit, Init, SignaturesRecorded, ResponseExact, DupFree, NoSignatures, NoSigs
<1> QED BY <1>1, <1>2, <1>3 DEF LoopInit, LoopInv, InHandExact, BroadcastVerifies

\* Every step of the loop keeps the invariant.
LEMMA LoopInvNext == LoopInv /\ [LoopNext]_allVars => LoopInv'
<1> SUFFICES ASSUME LoopInv, [LoopNext]_allVars PROVE LoopInv'
  OBVIOUS
<1>0. /\ Inv /\ LoopTypeOK /\ InHandExact /\ BroadcastVerifies
      /\ \A k \in Keys : SignaturesRecorded(k) /\ ResponseExact(k)
  BY DEF LoopInv
<1>1. Inv'
  BY <1>0, InvLoopNext
<1>2. LoopTypeOK'
  BY <1>0, <1>1, LoopTypeNext
<1>3. InHandExact'
  BY <1>0, <1>1, InHandExactNext
<1>4. BroadcastVerifies'
  BY <1>0, BroadcastNext
<1>5. \A k \in Keys : SignaturesRecorded(k)' /\ ResponseExact(k)'
  BY <1>0, SignaturesRecordedNext, ResponseExactNext
<1> QED BY <1>1, <1>2, <1>3, <1>4, <1>5 DEF LoopInv

\* The deferred broadcast of a finished operator set update never reads a point
\* that its goroutine still adds to: what the rollups get verifies, for any number
\* of operators, rounds, failed writes and restarts.
THEOREM BroadcastVerifiesHolds == LoopSpec => []BroadcastVerifies
<1>1. LoopInv => BroadcastVerifies
  BY DEF LoopInv
<1> QED BY <1>1, LoopInvInit, LoopInvNext, PTL DEF LoopSpec

-----------------------------------------------------------------------------
(* Two digests of a key cannot both be signed by a quorum. *)

\* More operators hold no less stake.
LEMMA StakeMonotone ==
  ASSUME NEW q \in AvsStates \cup {NoStake}, NEW S \in SUBSET Operators,
         NEW T \in SUBSET Operators, S \subseteq T
  PROVE  StakeOf(q, S) <= StakeOf(q, T)
<1>1. T \ S \in SUBSET Operators /\ S \cap (T \ S) = {} /\ S \cup (T \ S) = T
  OBVIOUS
<1>2. StakeOf(q, S \cup (T \ S)) = StakeOf(q, S) + StakeOf(q, T \ S)
  BY <1>1, StakeAssumption
<1>3. StakeOf(q, T) = StakeOf(q, S) + StakeOf(q, T \ S)
  BY <1>1, <1>2
<1>4. StakeOf(q, S) \in Nat /\ StakeOf(q, T \ S) \in Nat
  BY <1>1, StakeIsNat
<1> QED BY <1>3, <1>4, SMT

\* Two disjoint sets cannot both hold more than half of a positive total.
LEMMA QuorumsMeet ==
  ASSUME NEW q \in AvsStates, NEW S \in SUBSET Operators, NEW T \in SUBSET Operators,
         StakeOf(q, Operators) > 0,
         StakeOf(q, S) * 100 >= StakeOf(q, Operators) * Threshold,
         StakeOf(q, T) * 100 >= StakeOf(q, Operators) * Threshold
  PROVE  S \cap T # {}
<1> SUFFICES ASSUME S \cap T = {} PROVE FALSE
  OBVIOUS
<1>1. StakeOf(q, S \cup T) = StakeOf(q, S) + StakeOf(q, T)
  BY StakeAssumption
<1>2. StakeOf(q, S \cup T) <= StakeOf(q, Operators)
  BY StakeMonotone
<1>3. /\ StakeOf(q, S) \in Nat /\ StakeOf(q, T) \in Nat /\ StakeOf(q, Operators) \in Nat
  BY StakeIsNat
<1>4. StakeOf(q, Operators) * Threshold >= StakeOf(q, Operators) * 51
  <2>1. \A m \in Nat : m * Threshold >= m * 51
    BY ConstantsAssumption, SMT
  <2> QED BY <1>3, <2>1
<1>5. StakeOf(q, Operators) * Threshold \in Int
  BY <1>3, ConstantsAssumption, SMT
<1> QED BY <1>1, <1>2, <1>3, <1>4, <1>5, SMT

\* The digest of an honest key that a quorum was counted for is unique, when the
\* operator state stays the same.
LEMMA CountedQuorumUnique ==
  ASSUME \A p, q \in AvsStates : p = q,
         NEW k \in Keys, NEW d \in Digests, NEW e \in Digests,
         Honest(k), CountedQuorum(k, d), CountedQuorum(k, e)
  PROVE  d = e
<1>1. PICK q \in AvsStates :
        /\ StakeOf(q, Operators) > 0
        /\ StakeOf(q, CountedFor(k, d)) * 100 >= StakeOf(q, Operators) * Threshold
        /\ StakeOf(q, CountedFor(k, e)) * 100 >= StakeOf(q, Operators) * Threshold
  BY DEF CountedQuorum
<1>2. /\ CountedFor(k, d) \in SUBSET Operators
      /\ CountedFor(k, e) \in SUBSET Operators
  BY DEF CountedFor
<1>3. CountedFor(k, d) \cap CountedFor(k, e) # {}
  BY <1>1, <1>2, QuorumsMeet
<1>4. PICK o \in Operators : <<o, d>> \in counted[k] /\ <<o, e>> \in counted[k]
  BY <1>3 DEF CountedFor
<1> QED BY <1>4 DEF Honest

\* A digest with the signatures of a quorum in its round was counted for a quorum.
LEMMA QuorumCounted ==
  ASSUME Inv, NEW k \in Keys, NEW d \in Digests, SignaturesRecorded(k),
         first[k][d] # None, HasQuorum(k, d)
  PROVE  CountedQuorum(k, d)
<1> DEFINE q == avs[k]
<1>1. TypeOK /\ FirstSigners
  BY DEF Inv, TypeInv
<1>2. /\ first[k][d] \in Operators /\ sigs[k][d][first[k][d]] > 0
      /\ q \in AvsStates \cup {NoStake} /\ q \in [Operators -> Nat]
  BY <1>1, ConstantsAssumption, SMT DEF TypeOK, FirstSigners, NoStake
<1>3. PICK o \in Operators : o = first[k][d]
  BY <1>2
<1>4. q[o] > 0 /\ q[o] \in Nat
  BY <1>2, <1>3, ZenonT(30) DEF SignaturesRecorded, Members
<1>5. q \in AvsStates
  BY <1>2, <1>4, SMT DEF NoStake
<1>6. Signers(k, d) \subseteq CountedFor(k, d)
  BY DEF Signers, SignersOf, CountedFor, SignaturesRecorded
<1>7. /\ Signers(k, d) \in SUBSET Operators /\ CountedFor(k, d) \in SUBSET Operators
      /\ {o} \in SUBSET Operators
  BY DEF Signers, SignersOf, CountedFor
<1> HIDE DEF q
<1>8. StakeOf(q, Operators) > 0
  <2>1. StakeOf(q, {o}) <= StakeOf(q, Operators)
    BY <1>5, <1>7, StakeMonotone
  <2>2. StakeOf(q, {o}) = q[o]
    BY <1>5, StakeAssumption
  <2>3. StakeOf(q, Operators) \in Nat
    BY <1>5, StakeIsNat
  <2> QED BY <1>4, <2>1, <2>2, <2>3, SMT
<1>9. StakeOf(q, CountedFor(k, d)) * 100 >= StakeOf(q, Operators) * Threshold
  <2>1. StakeOf(q, Signers(k, d)) <= StakeOf(q, CountedFor(k, d))
    BY <1>5, <1>6, <1>7, StakeMonotone
  <2>2. StakeOf(q, Signers(k, d)) * 100 >= StakeOf(q, Operators) * Threshold
    BY DEF HasQuorum, SignedStake, TotalStake, q
  <2>3. /\ StakeOf(q, Signers(k, d)) \in Nat /\ StakeOf(q, CountedFor(k, d)) \in Nat
        /\ StakeOf(q, Operators) * Threshold \in Int
    BY <1>5, <1>7, StakeIsNat, ConstantsAssumption, SMT
  <2> QED BY <2>1, <2>2, <2>3, SMT
<1> QED BY <1>5, <1>8, <1>9 DEF CountedQuorum

\* What is known of a digest that was handed on: it stays known.
Backed(k, d) == Honest(k) => CountedQuorum(k, d)

\* What backs a digest is not taken away.
LEMMA BackedStays ==
  ASSUME LoopInv, [LoopNext]_allVars, NEW k \in Keys, NEW d \in Digests, Backed(k, d)
  PROVE  Backed(k, d)'
<1>1. counted[k] \subseteq counted'[k] /\ repeated \subseteq repeated'
  BY SignaturesStep DEF LoopInv
<1> SUFFICES ASSUME Honest(k)' PROVE CountedQuorum(k, d)'
  BY DEF Backed
<1>2. Honest(k)
  BY <1>1 DEF Honest
<1>3. PICK q \in AvsStates :
        /\ StakeOf(q, Operators) > 0
        /\ StakeOf(q, CountedFor(k, d)) * 100 >= StakeOf(q, Operators) * Threshold
  BY <1>2 DEF Backed, CountedQuorum
<1>4. /\ CountedFor(k, d) \in SUBSET Operators /\ CountedFor(k, d)' \in SUBSET Operators
      /\ CountedFor(k, d) \subseteq CountedFor(k, d)'
  BY <1>1 DEF CountedFor
<1>5. PICK S \in SUBSET Operators, T \in SUBSET Operators :
        S = CountedFor(k, d) /\ T = CountedFor(k, d)'
  BY <1>4
<1>6. StakeOf(q, S) <= StakeOf(q, T)
  BY <1>4, <1>5, StakeMonotone
<1>7. /\ StakeOf(q, S) \in Nat /\ StakeOf(q, T) \in Nat
      /\ StakeOf(q, Operators) * Threshold \in Int
  BY StakeIsNat, ConstantsAssumption, SMT
<1>8. StakeOf(q, S) * 100 >= StakeOf(q, Operators) * Threshold
  BY <1>3, <1>5
<1>9. StakeOf(q, T) * 100 >= StakeOf(q, Operators) * Threshold
  BY <1>6, <1>7, <1>8, SMT
<1> QED BY <1>3, <1>5, <1>9 DEF CountedQuorum

\* What is in hand and stored of an honest key stays what a quorum signed.
LEMMA StoredBackedNext ==
  ASSUME LoopInv, LoopInv', StoredBacked, [LoopNext]_allVars
  PROVE  StoredBacked'
<1>0. /\ Inv /\ LoopTypeOK /\ LoopTypeOK' /\ Inv'
      /\ \A k \in Keys : SignaturesRecorded(k) /\ ResponseExact(k)
      /\ inHand # None => inHand \in InHand
  BY DEF LoopInv, LoopTypeOK
<1> DEFINE HandOK(x) == /\ Backed(x.key, x.digest)
                        /\ x.stage = "aggregation" => dbMessage[x.key] # None
           KeyOK(k) == /\ dbAggregation[k] # None => dbMessage[k] # None
                       /\ dbMessage[k] # None => Backed(k, dbMessage[k])
                       /\ dbAggregation[k] # None => Backed(k, dbAggregation[k].digest)
<1>1. /\ inHand # None => HandOK(inHand)
      /\ \A k \in Keys : KeyOK(k)
  BY DEF StoredBacked, Backed
<1> SUFFICES /\ inHand' # None => HandOK(inHand)'
             /\ \A k \in Keys : KeyOK(k)'
  BY DEF StoredBacked, Backed
<1>2. ASSUME NEW k \in Keys, dbMessage'[k] = dbMessage[k], dbAggregation'[k] = dbAggregation[k]
      PROVE  KeyOK(k)'
  <2>1. KeyOK(k) /\ dbMessage[k] \in Digests \cup {None}
        /\ dbAggregation[k] \in Aggregations \cup {None}
    BY <1>0, <1>1 DEF LoopTypeOK
  <2>2. ASSUME dbMessage[k] # None PROVE (Backed(k, dbMessage[k]))'
    <3>1. PICK d \in Digests : d = dbMessage[k]
      BY <2>1, <2>2
    <3>2. Backed(k, d)'
      BY <2>1, <2>2, <3>1, BackedStays
    <3> QED BY <1>2, <3>1, <3>2
  <2>3. ASSUME dbAggregation[k] # None PROVE (Backed(k, dbAggregation[k].digest))'
    <3>1. PICK d \in Digests : d = dbAggregation[k].digest
      BY <2>1, <2>3 DEF Aggregations
    <3>2. Backed(k, d)'
      BY <2>1, <2>3, <3>1, BackedStays
    <3> QED BY <1>2, <3>1, <3>2
  <2> QED BY <1>2, <2>1, <2>2, <2>3
<1>3. ASSUME inHand # None, inHand' # None, inHand'.key = inHand.key,
             inHand'.digest = inHand.digest,
             inHand'.stage = "aggregation" => dbMessage'[inHand.key] # None
      PROVE  HandOK(inHand)'
  <2>1. PICK k \in Keys, d \in Digests : k = inHand.key /\ d = inHand.digest
    BY <1>0, <1>3 DEF InHand
  <2>2. Backed(k, d)'
    BY <1>1, <1>3, <2>1, BackedStays
  <2> QED BY <1>3, <2>1, <2>2
<1>4. CASE ServiceStep
  <2>1. UNCHANGED <<dbMessage, dbAggregation>>
    BY <1>4 DEF ServiceStep, loopVars
  <2>2. CASE inHand' = inHand
    BY <1>1, <1>2, <1>3, <2>1, <2>2
  <2>3. ASSUME NEW k \in Keys, FollowPointers(k)
        PROVE  inHand' # None => HandOK(inHand)'
    <3> SUFFICES ASSUME inHand' # None PROVE HandOK(inHand)'
      OBVIOUS
    <3>1. /\ inHand # None /\ inHand'.key = inHand.key /\ inHand'.digest = inHand.digest
          /\ inHand'.stage = inHand.stage
      BY <1>0, <2>3, Followed
    <3> QED BY <1>1, <1>3, <2>1, <3>1
  <2>4. inHand' = inHand \/ \E k \in Keys : FollowPointers(k)
    BY <1>4 DEF ServiceStep, loopVars
  <2> QED BY <1>2, <2>1, <2>2, <2>3, <2>4
<1>5. ASSUME NEW k \in Keys, ReceiveResponse(k)
      PROVE  /\ inHand' # None => HandOK(inHand)'
             /\ \A i \in Keys : KeyOK(i)'
  <2>1. UNCHANGED <<dbMessage, dbAggregation>>
    BY <1>5 DEF ReceiveResponse
  <2>2. ASSUME inHand' # None PROVE HandOK(inHand)'
    <3>1. /\ inHand'.key = k /\ inHand'.digest = pending[k].digest
          /\ inHand'.stage = "message" /\ pending[k] # None /\ ~pending[k].err
          /\ pending[k].digest \in Digests
      BY <1>0, <1>5, <2>2, ReceivedInHand
    <3>2. PICK d \in Digests : d = pending[k].digest
      BY <3>1
    <3>3. Backed(k, d)
      <4> SUFFICES ASSUME Honest(k) PROVE CountedQuorum(k, d)
        BY DEF Backed
      <4>1. DupFree(k)
        BY <1>0 DEF Honest, SignaturesRecorded
      <4>2. HasQuorum(k, d) /\ first[k][d] # None
        BY <1>0, <3>1, <3>2, <4>1 DEF ResponseExact
      <4> QED BY <1>0, <4>2, QuorumCounted
    <3>4. Backed(k, d)'
      BY <3>3, BackedStays
    <3> QED BY <3>1, <3>2, <3>4
  <2> QED BY <1>2, <2>1, <2>2
<1>6. CASE StoreMessage
  <2>0. PICK k \in Keys, d \in Digests : k = inHand.key /\ d = inHand.digest
    BY <1>0, <1>6 DEF StoreMessage, InHand
  <2>1. /\ inHand # None /\ inHand \in InHand
        /\ dbMessage' = [dbMessage EXCEPT ![k] = IF @ = None THEN d ELSE @]
        /\ inHand' = [inHand EXCEPT !.stage = "aggregation"]
        /\ dbAggregation' = dbAggregation
    BY <1>0, <1>6, <2>0 DEF StoreMessage
  <2>2. dbMessage'[k] = (IF dbMessage[k] = None THEN d ELSE dbMessage[k]) /\ d # None
        /\ \A i \in Keys \ {k} : dbMessage'[i] = dbMessage[i]
    BY <1>0, <2>1, ConstantsAssumption DEF LoopTypeOK
  <2>3. inHand'.key = inHand.key /\ inHand'.digest = inHand.digest
    BY <2>1 DEF InHand
  <2>4. inHand' # None => HandOK(inHand)'
    BY <1>3, <2>0, <2>1, <2>2, <2>3
  <2>5. Backed(k, d)'
    BY <1>1, <2>0, <2>1, BackedStays
  <2>6. KeyOK(k)'
    <3>1. CASE dbMessage[k] # None
      BY <1>2, <2>1, <2>2, <3>1
    <3>2. CASE dbMessage[k] = None
      <4>1. dbAggregation'[k] = None /\ dbMessage'[k] = d
        BY <1>1, <2>1, <2>2, <3>2
      <4> QED BY <2>5, <4>1
    <3> QED BY <3>1, <3>2
  <2>7. \A i \in Keys \ {k} : KeyOK(i)'
    BY <1>2, <2>1, <2>2
  <2> QED BY <2>4, <2>6, <2>7
<1>7. CASE StoreAggregation
  <2>0. PICK k \in Keys, d \in Digests : k = inHand.key /\ d = inHand.digest
    BY <1>0, <1>7 DEF StoreAggregation, InHand
  <2>1. PICK sig \in PointRead, apk \in PointRead :
          dbAggregation' = [dbAggregation EXCEPT ![k] = AggregationRead(sig, apk)]
    BY <1>7, <2>0 DEF StoreAggregation
  <2>2. /\ inHand # None /\ inHand.stage = "aggregation" /\ inHand' = None
        /\ dbMessage' = dbMessage
    BY <1>7 DEF StoreAggregation, HandlerReturns
  <2>3. AggregationRead(sig, apk).digest = d
    BY <2>0 DEF AggregationRead
  <2>4. /\ dbAggregation'[k].digest = d
        /\ \A i \in Keys \ {k} : dbAggregation'[i] = dbAggregation[i]
    BY <1>0, <2>1, <2>3 DEF LoopTypeOK
  <2>5. Backed(k, d)' /\ dbMessage[k] # None
    BY <1>1, <2>0, <2>2, BackedStays
  <2>6. KeyOK(k)'
    <3>1. PICK e \in Digests : e = dbMessage[k]
      BY <1>0, <2>5 DEF LoopTypeOK
    <3>2. Backed(k, e)'
      BY <1>1, <2>5, <3>1, BackedStays
    <3> QED BY <2>2, <2>4, <2>5, <3>1, <3>2
  <2>7. \A i \in Keys \ {k} : KeyOK(i)'
    BY <1>2, <2>2, <2>4
  <2> QED BY <2>2, <2>6, <2>7
<1>8. CASE StoreFails \/ Crash
  BY <1>2, <1>8 DEF StoreFails, HandlerReturns, Crash
<1>9. CASE UNCHANGED allVars
  <2>1. UNCHANGED <<dbMessage, dbAggregation, inHand>>
    BY <1>9 DEF allVars, loopVars
  <2> QED BY <1>1, <1>2, <1>3, <2>1
<1> QED BY <1>4, <1>5, <1>6, <1>7, <1>8, <1>9 DEF LoopNext

\* The REST server serves every stored aggregation of an honest key with the
\* message that it signs, for any stakes that stay the same and any threshold the
\* aggregator accepts: two rounds, also before and after a restart or a failed
\* write, end with the same digest, because their quorums have an operator in
\* common.
THEOREM StoredPairMatchesHolds ==
  ASSUME \A p, q \in AvsStates : p = q
  PROVE  LoopSpec => []StoredPairMatches
<1> DEFINE I == LoopInv /\ StoredBacked
<1>1. LoopInit => I
  <2>1. LoopInit => StoredBacked
    BY DEF LoopInit, StoredBacked
  <2> QED BY <2>1, LoopInvInit
<1>2. I /\ [LoopNext]_allVars => I'
  BY LoopInvNext, StoredBackedNext
<1>3. I => StoredPairMatches
  <2> SUFFICES ASSUME I, NEW k \in Keys, Honest(k), dbAggregation[k] # None
               PROVE  /\ GetAggregation(k) # None
                      /\ GetAggregation(k).message = GetAggregation(k).aggregation.digest
    BY DEF StoredPairMatches
  <2>1. PICK d \in Digests, a \in Aggregations : d = dbMessage[k] /\ a = dbAggregation[k]
    BY DEF LoopInv, LoopTypeOK, StoredBacked
  <2>2. d # None /\ a # None /\ a.digest \in Digests
    BY <2>1, ConstantsAssumption, LoopNoneAssumption DEF Aggregations
  <2>3. d = a.digest
    BY <2>1, <2>2, CountedQuorumUnique DEF StoredBacked
  <2>4. GetAggregation(k) = [message |-> d, aggregation |-> a]
    BY <2>1, <2>2 DEF GetAggregation, FetchMessage, FetchAggregation
  <2>5. [message |-> d, aggregation |-> a] # None
    BY LoopNoneAssumption, SMT DEF Answers
  <2> QED BY <2>3, <2>4, <2>5, SMT
<1> QED BY <1>1, <1>2, <1>3, PTL DEF LoopSpec
=============================================================================
