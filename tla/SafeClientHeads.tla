--------------------------- MODULE SafeClientHeads ---------------------------
(***************************************************************************)
(* A subscription to block headers that survives its connection:           *)
(* SafeEthClient.SubscribeNewHead of core/safeclient/client.go.  Its       *)
(* goroutine forwards headers, opens a new underlying subscription when    *)
(* the old one ends, and also when a whole period of headerTicker has      *)
(* passed without a header.                                                *)
(*                                                                         *)
(* A header is its number.  What the node announces while the underlying   *)
(* subscription is not live is never fetched.                              *)
(***************************************************************************)
EXTENDS Integers, Sequences, Functions

VARIABLES
  headNumber,    \* the node's last block
  underlying,    \* "live", "mute", "ended" with its error to be read, or "dead" once read
  proxyC,
  heads,         \* the goroutine
  unsubscribed   \* of the SafeSubscription

headsVars == <<headNumber, underlying, proxyC, heads, unsubscribed>>

HeadsInit ==
  /\ headNumber = 0
  /\ underlying = "live"
  /\ proxyC = <<>>
  /\ heads = [pc |-> "select", receivedBlock |-> FALSE, header |-> 0]
  /\ unsubscribed = FALSE

-----------------------------------------------------------------------------
(* The node and the connection *)

NewHead ==
  /\ headNumber' = headNumber + 1
  /\ proxyC' = IF underlying = "live" THEN Append(proxyC, headNumber') ELSE proxyC
  /\ UNCHANGED <<underlying, heads, unsubscribed>>

\* The connection is lost, or the node stops announcing blocks on it.
FeedStops ==
  /\ underlying = "live"
  /\ underlying' \in {"ended", "mute"}
  /\ UNCHANGED <<headNumber, proxyC, heads, unsubscribed>>

-----------------------------------------------------------------------------
(* The goroutine *)

TakeHead ==
  /\ heads.pc = "select" /\ proxyC # <<>>
  /\ heads' = [pc |-> "send", receivedBlock |-> TRUE, header |-> Head(proxyC)]
  /\ proxyC' = Tail(proxyC)
  /\ UNCHANGED <<headNumber, underlying, unsubscribed>>

\* The receiver takes the header from ch.
SendHead ==
  /\ heads.pc = "send"
  /\ heads' = [heads EXCEPT !.pc = "select", !.header = 0]
  /\ UNCHANGED <<headNumber, underlying, proxyC, unsubscribed>>

\* The error of the underlying subscription is read only once; handleResub may fail.
UnderlyingEnds(ok) ==
  /\ heads.pc = "select" /\ underlying = "ended"
  /\ underlying' = IF ok THEN "live" ELSE "dead"
  /\ UNCHANGED <<headNumber, proxyC, heads, unsubscribed>>

TickReceived ==
  /\ heads.pc = "select" /\ heads.receivedBlock
  /\ heads' = [heads EXCEPT !.receivedBlock = FALSE]
  /\ UNCHANGED <<headNumber, underlying, proxyC, unsubscribed>>

\* Mutant: only a subscription that has ended is replaced.
TickResubEnded ==
  /\ heads.pc = "select" /\ ~heads.receivedBlock /\ underlying = "ended"
  /\ underlying' = "live"
  /\ UNCHANGED <<headNumber, proxyC, heads, unsubscribed>>

\* A failed handleResub leaves things as they are until the next tick.
TickResub ==
  /\ heads.pc = "select" /\ ~heads.receivedBlock
  /\ underlying' = "live"
  /\ UNCHANGED <<headNumber, proxyC, heads, unsubscribed>>

\* Mutant: the select statement is left, not the loop.
HeadsReturnBreaks(ended) ==
  /\ heads.pc = "select" /\ (ended \/ unsubscribed)
  /\ unsubscribed' = TRUE
  /\ UNCHANGED <<headNumber, underlying, proxyC, heads>>

\* The subscription, the context or the client has ended.
HeadsReturn(ended) ==
  /\ heads.pc = "select" /\ (ended \/ unsubscribed)
  /\ heads' = [heads EXCEPT !.pc = "returned"]
  /\ unsubscribed' = TRUE
  /\ UNCHANGED <<headNumber, underlying, proxyC>>

HeadsTypeOK ==
  /\ headNumber \in Nat /\ underlying \in {"live", "mute", "ended", "dead"}
  /\ proxyC \in Seq(1..headNumber) /\ unsubscribed \in BOOLEAN
  /\ heads \in [pc : {"select", "send", "returned"}, receivedBlock : BOOLEAN, header : 0..headNumber]
  /\ heads.pc = "send" <=> heads.header # 0
=============================================================================
