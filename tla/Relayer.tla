------------------------------- MODULE Relayer -------------------------------
(***************************************************************************)
(* The relayer of a rollup, relayer/relayer.go: a listener goroutine       *)
(* collects headers and hands them to Start in batches, at the ticks of a  *)
(* ticker that stands still while a batch is handled; Start submits a      *)
(* batch to NEAR DA, with retries.                                         *)
(*                                                                         *)
(* A tick that finds no blocks changes nothing and is left out; while the  *)
(* ticker runs there is a next tick.  A tick may lie in the ticker's       *)
(* channel when the ticker is stopped, and stays there.                    *)
(***************************************************************************)
EXTENDS SafeClientHeads

CONSTANTS
  Retries      \* SUBMIT_BLOCK_RETRIES

ASSUME RelayerAssumption == Retries \in Nat \ {0}

VARIABLES
  listener,    \* listenToBlocks
  ticker,      \* "runs", "stopped", or "left": stopped with a tick in its channel
  start,       \* Start, handleBlocks and submitEncodedBlocks
  done,        \* the context is cancelled
  da,          \* NEAR DA: the transactions that were included
  pendingTx,   \* NEAR DA: submissions that timed out and may be included yet
  received,    \* ghost: headers in the order the listener received them
  timedOut,    \* ghost: blocks of submissions that timed out
  lost         \* ghost: blocks that some part of the path has given up

relayerVars == <<listener, ticker, start, done, da, pendingTx, received, timedOut, lost>>

RelayerInit ==
  /\ HeadsInit
  /\ listener = [pc |-> "select", blocks |-> <<>>]
  /\ ticker = "runs"
  /\ start = [pc |-> "select", batch |-> <<>>, tries |-> 0]
  /\ done = FALSE
  /\ da = <<>> /\ pendingTx = {}
  /\ received = <<>> /\ timedOut = {} /\ lost = {}

\* A transaction of the DA contract: executed, or "failed"; a "foreign" one is the
\* submission of someone else, in which nothing decodes to blocks.
Tx(blocks, kind) == [blocks |-> blocks, kind |-> kind]

-----------------------------------------------------------------------------
(* listenToBlocks *)

ReceiveHeader ==
  /\ listener.pc = "select"
  /\ SendHead
  /\ listener' = [listener EXCEPT !.blocks = Append(@, heads.header)]
  /\ received' = Append(received, heads.header)
  /\ UNCHANGED <<ticker, start, done, da, pendingTx, timedOut, lost>>

Tick ==
  /\ listener.pc = "select" /\ ticker # "stopped"
  /\ listener.blocks # <<>> \/ ticker = "left"
  /\ listener' = [listener EXCEPT !.pc = IF listener.blocks = <<>> THEN "select" ELSE "handing"]
  /\ ticker' = IF ticker = "left" THEN "stopped" ELSE ticker
  /\ UNCHANGED <<headsVars, start, done, da, pendingTx, received, timedOut, lost>>

\* Mutant: the blocks are kept.
HandOverKeeps ==
  /\ listener.pc = "handing" /\ start.pc = "select"
  /\ start' = [pc |-> "submit", batch |-> listener.blocks, tries |-> 0]
  /\ listener' = [listener EXCEPT !.pc = "stopping"]
  /\ UNCHANGED <<headsVars, ticker, done, da, pendingTx, received, timedOut, lost>>

\* blockBatchC <- blocks, received by Start, and blocks = nil
HandOver ==
  /\ listener.pc = "handing" /\ start.pc = "select"
  /\ start' = [pc |-> "submit", batch |-> listener.blocks, tries |-> 0]
  /\ listener' = [pc |-> "stopping", blocks |-> <<>>]
  /\ UNCHANGED <<headsVars, ticker, done, da, pendingTx, received, timedOut, lost>>

StopTicker ==
  /\ listener.pc = "stopping"
  /\ listener' = [listener EXCEPT !.pc = "select"]
  /\ ticker' \in IF ticker = "runs" THEN {"stopped", "left"} ELSE {ticker}
  /\ UNCHANGED <<headsVars, start, done, da, pendingTx, received, timedOut, lost>>

\* The context is cancelled or the subscription has ended; Unsubscribe is deferred.
ListenerReturns ==
  /\ listener.pc = "select" /\ (done \/ unsubscribed)
  /\ listener' = [listener EXCEPT !.pc = "returned"]
  /\ unsubscribed' = TRUE
  /\ UNCHANGED <<headNumber, underlying, proxyC, heads, ticker, start, done, da, pendingTx,
                 received, timedOut, lost>>

-----------------------------------------------------------------------------
(* Start: submitEncodedBlocks, and the deferred Reset of handleBlocks *)

Submitting == start.pc = "submit"

SubmitOk ==
  /\ Submitting
  /\ da' = Append(da, Tx(start.batch, "ok"))
  /\ start' = [start EXCEPT !.pc = "reset"]
  /\ UNCHANGED <<headsVars, listener, ticker, done, pendingTx, received, timedOut, lost>>

AfterRetry == [start EXCEPT !.pc = IF start.tries + 1 = Retries THEN "reset" ELSE "submit",
                            !.tries = @ + 1]

\* InvalidNonce, Expired, or Timeout, after which NEAR may still include it.
SubmitRetries(timeout) ==
  /\ Submitting
  /\ start' = AfterRetry
  /\ lost' = IF start'.pc = "reset" THEN lost \cup Range(start.batch) ELSE lost
  /\ pendingTx' = IF timeout THEN pendingTx \cup {start.batch} ELSE pendingTx
  /\ timedOut' = IF timeout THEN timedOut \cup Range(start.batch) ELSE timedOut
  /\ UNCHANGED <<headsVars, listener, ticker, done, da, received>>

\* Any other error: the batch is dropped.  The transaction may have been executed
\* and have failed.
SubmitFails(included) ==
  /\ Submitting
  /\ da' = IF included THEN Append(da, Tx(start.batch, "failed")) ELSE da
  /\ start' = [start EXCEPT !.pc = "reset"]
  /\ lost' = lost \cup Range(start.batch)
  /\ UNCHANGED <<headsVars, listener, ticker, done, pendingTx, received, timedOut>>

ResetTicker ==
  /\ start.pc = "reset"
  /\ start' = [pc |-> "select", batch |-> <<>>, tries |-> 0]
  /\ ticker' = "runs"
  /\ UNCHANGED <<headsVars, listener, done, da, pendingTx, received, timedOut, lost>>

\* rpcClient.Close waits for the goroutine of the subscription.
Close ==
  /\ start.pc = "select" /\ done
  /\ start' = [start EXCEPT !.pc = "closing"]
  /\ UNCHANGED <<headsVars, listener, ticker, done, da, pendingTx, received, timedOut, lost>>

StartReturns ==
  /\ start.pc = "closing" /\ heads.pc = "returned"
  /\ start' = [start EXCEPT !.pc = "returned"]
  /\ UNCHANGED <<headsVars, listener, ticker, done, da, pendingTx, received, timedOut, lost>>

-----------------------------------------------------------------------------
(* NEAR, other submitters, and the operating system *)

IncludeLate(batch) ==
  /\ batch \in pendingTx
  /\ pendingTx' = pendingTx \ {batch}
  /\ da' = Append(da, Tx(batch, "ok"))
  /\ UNCHANGED <<headsVars, listener, ticker, start, done, received, timedOut, lost>>

OtherSubmits ==
  /\ da' = Append(da, Tx(<<>>, "foreign"))
  /\ UNCHANGED <<headsVars, listener, ticker, start, done, pendingTx, received, timedOut, lost>>

Cancel ==
  /\ ~done
  /\ done' = TRUE
  /\ UNCHANGED <<headsVars, listener, ticker, start, da, pendingTx, received, timedOut, lost>>

HeadsStep ==
  /\ \/ TakeHead \/ TickReceived \/ UnderlyingEnds(TRUE) \/ TickResub
     \/ HeadsReturn(done \/ start.pc = "closing")
  /\ UNCHANGED relayerVars

\* A failed resubscription.
HeadsFault ==
  /\ FeedStops \/ UnderlyingEnds(FALSE)
  /\ UNCHANGED relayerVars

RelayerStep ==
  \/ HeadsStep
  \/ ReceiveHeader \/ Tick \/ HandOver \/ StopTicker \/ ListenerReturns
  \/ SubmitOk \/ ResetTicker \/ Close \/ StartReturns

RelayerFault ==
  \/ HeadsFault \/ Cancel
  \/ \E b \in BOOLEAN : SubmitRetries(b) \/ SubmitFails(b)

-----------------------------------------------------------------------------
Batches == Seq(1..headNumber)

RelayerTypeOK ==
  /\ HeadsTypeOK
  /\ listener \in [pc : {"select", "handing", "stopping", "returned"}, blocks : Batches]
  /\ ticker \in {"runs", "stopped", "left"}
  /\ start \in [pc : {"select", "submit", "reset", "closing", "returned"}, batch : Batches,
                tries : 0..Retries]
  /\ start.pc = "submit" => start.tries < Retries
  /\ done \in BOOLEAN
  /\ da \in Seq([blocks : Batches, kind : {"ok", "failed", "foreign"}])
  /\ pendingTx \subseteq Batches /\ received \in Batches
  /\ timedOut \subseteq 1..headNumber /\ lost \subseteq 1..headNumber

\* A block is in two transactions of NEAR DA only when a submission of it timed
\* out: batches do not overlap, and a failure is retried only where the first
\* try cannot have been executed (listenToBlocks resets blocks, and
\* submitEncodedBlocks returns at an unknown error).
PostedOnce ==
  \A i, j \in DOMAIN da :
    i # j => Range(da[i].blocks) \cap Range(da[j].blocks) \subseteq timedOut

\* The ticker was reset before it was stopped, and nothing starts it again:
\* Reset of handleBlocks overtook Stop of listenToBlocks.
TickerLost == ticker = "stopped" /\ listener.pc = "select" /\ start.pc = "select"

\* The goroutine of the subscription waits to send a header that nobody receives.
HeadStuck ==
  heads.pc = "send" /\ start.pc = "closing" /\ listener.pc \in {"returned", "handing"}

\* A subscription to headers that has ended or gone mute is always replaced: a
\* period of headerTicker without a header brings a new one.
HeadsResume == []<>(underlying = "live" \/ heads.pc # "select")

\* After the context is cancelled Start returns, unless the goroutine of the
\* subscription had taken a header that the listener no longer receives.
StartEnds == []<>(done => start.pc = "returned" \/ HeadStuck)

-----------------------------------------------------------------------------
(* The inductive invariant behind the properties. *)

RelayerDomains ==
  /\ headNumber \in Nat /\ proxyC \in Seq(Nat)
  /\ heads \in [pc : {"select", "send", "returned"}, receivedBlock : BOOLEAN, header : Nat]
  /\ listener \in [pc : {"select", "handing", "stopping", "returned"}, blocks : Seq(Nat)]
  /\ start \in [pc : {"select", "submit", "reset", "closing", "returned"}, batch : Seq(Nat),
                tries : Nat]
  /\ da \in Seq([blocks : Seq(Nat), kind : {"ok", "failed", "foreign"}])
  /\ pendingTx \subseteq Seq(Nat) /\ received \in Seq(Nat)

\* Headers come once, in ascending order.
HeadsInOrder ==
  /\ \A i \in 1..Len(proxyC) :
       /\ proxyC[i] <= headNumber
       /\ \A j \in 1..Len(proxyC) : i < j => proxyC[i] < proxyC[j]
       /\ heads.pc = "send" => heads.header < proxyC[i]
       /\ \A b \in Range(received) : b < proxyC[i]
  /\ heads.pc = "send" =>
       heads.header <= headNumber /\ \A b \in Range(received) : b < heads.header
  /\ \A b \in Range(received) : b <= headNumber

\* Blocks that were received and handed to Start.
HandedOver(blocks) == blocks \subseteq Range(received) \ Range(listener.blocks)

\* A received header is collected or handed over, and only a batch that timed out
\* can be submitted while it is in NEAR DA or may get there.
BatchesApart ==
  /\ Range(listener.blocks) \subseteq Range(received)
  /\ start.pc = "submit" =>
       /\ HandedOver(Range(start.batch))
       /\ \A i \in 1..Len(da) : Range(start.batch) \cap Range(da[i].blocks) \subseteq timedOut
  /\ \A i \in 1..Len(da) : HandedOver(Range(da[i].blocks))
  /\ \A p \in pendingTx : HandedOver(Range(p)) /\ Range(p) \subseteq timedOut

\* What someone else submitted holds no block, and what failed was given up.
GivenUp ==
  \A i \in 1..Len(da) :
    /\ da[i].kind = "foreign" => da[i].blocks = <<>>
    /\ da[i].kind = "failed" => Range(da[i].blocks) \subseteq lost
=============================================================================
