----------------------------- MODULE ClientClose -----------------------------
(***************************************************************************)
(* Closing a client (tui/client/client.go): the outgoing queue, the write  *)
(* loop that is the transport's only writer, and CloseWithin, which asks   *)
(* the write loop to drain, waits for it within a budget, closes the       *)
(* transport and collects what never left.  The write loop, the callers of *)
(* enqueue and the caller of Close are separate goroutines; the queue, the *)
(* in-flight frame (dropMu) and the three channels are all they share.     *)
(***************************************************************************)
EXTENDS Naturals, Sequences, FiniteSets

CONSTANTS MaxFrames,  \* bound: frames handed to enqueue
          SendCap,    \* capacity of sendCh
          Flushing    \* the callers: TRUE with a flush budget, FALSE for CloseWithin(0)

ASSUME CloseAssumption == MaxFrames \in Nat /\ SendCap \in Nat \ {0} /\ Flushing \subseteq BOOLEAN

None == 0

VARIABLES made,       \* frames 1..made have been queued, in that order
          covered,    \* of those, the ones queued before CloseWithin was entered
          sendCh,
          wpc,        \* the write loop: select, taken, sending, drain, flushed
          frame,      \* the envelope the write loop holds
          draining,   \* drainForClose is running
          left,       \* its snapshot of the queue length, counted down
          inFlight,
          closing, cancelled, shut,  \* c.closing, c.ctx and the transport closed
          cpc,        \* CloseWithin: open, wait, cancel, shut, inflight, queue, returned
          late,       \* the flush budget ran out (or was zero)
          sent, named \* history: frames that left; frames in UnflushedError

writerVars == <<wpc, frame, draining, left>>
closerVars == <<cpc, late, covered, closing, shut, named>>
closeVars == <<made, covered, sendCh, writerVars, inFlight, closing, cancelled, shut, cpc, late, sent, named>>

CloseInit ==
  /\ made = 0 /\ covered = 0 /\ sendCh = <<>>
  /\ wpc = "select" /\ frame = None /\ draining = FALSE /\ left = 0 /\ inFlight = None
  /\ closing = FALSE /\ cancelled = FALSE /\ shut = FALSE
  /\ cpc = "open" /\ late = FALSE /\ sent = {} /\ named = {}

\* enqueue: blocks on a full queue; a cancelled context lets the caller give up,
\* which changes nothing here.
Enqueue ==
  /\ made < MaxFrames /\ Len(sendCh) < SendCap
  /\ made' = made + 1 /\ sendCh' = Append(sendCh, made + 1)
  /\ covered' = IF closing THEN covered ELSE made + 1
  /\ UNCHANGED <<writerVars, inFlight, closing, cancelled, shut, cpc, late, sent, named>>

------------------------------------------------------------------------------
(* writeLoop, drainForClose and writeEnvelope *)

TakeUp ==
  /\ frame' = Head(sendCh) /\ sendCh' = Tail(sendCh) /\ wpc' = "taken"

\* The select of writeLoop: any ready case may be the one chosen.
WriterSelect ==
  /\ wpc = "select"
  /\ \/ cancelled /\ wpc' = "flushed" /\ UNCHANGED <<frame, draining, left, sendCh>>
     \/ closing /\ wpc' = "drain" /\ draining' = TRUE /\ left' = Len(sendCh) /\ UNCHANGED <<frame, sendCh>>
     \/ sendCh # <<>> /\ TakeUp /\ UNCHANGED <<draining, left>>
  /\ UNCHANGED <<made, inFlight, cancelled, closerVars, sent>>

DrainStep ==
  /\ wpc = "drain"
  /\ IF left > 0 /\ sendCh # <<>>
     THEN TakeUp /\ left' = left - 1
     ELSE wpc' = "flushed" /\ UNCHANGED <<frame, left, sendCh>>
  /\ UNCHANGED <<made, draining, inFlight, cancelled, closerVars, sent>>

BeginSend ==
  /\ wpc = "taken"
  /\ wpc' = "sending" /\ inFlight' = frame
  /\ UNCHANGED <<made, frame, draining, left, sendCh, cancelled, closerVars, sent>>

\* Mutation: an in-flight frame forgotten when its write fails.
SendFailsForgets ==
  /\ wpc = "sending"
  /\ wpc' = "flushed" /\ frame' = None /\ inFlight' = None
  /\ cancelled' = (cancelled \/ ~draining)
  /\ UNCHANGED <<made, draining, left, sendCh, closerVars, sent>>

\* transport.Send and endSend.  A closed transport takes nothing; an open one may fail.
SendFails ==
  /\ wpc = "sending"
  /\ wpc' = "flushed" /\ frame' = None
  /\ cancelled' = (cancelled \/ ~draining)
  /\ UNCHANGED <<made, draining, left, sendCh, inFlight, closerVars, sent>>
SendWorks ==
  /\ wpc = "sending" /\ ~shut
  /\ wpc' = IF draining THEN "drain" ELSE "select"
  /\ frame' = None /\ inFlight' = None /\ sent' = sent \cup {frame}
  /\ UNCHANGED <<made, draining, left, sendCh, cancelled, closerVars>>

------------------------------------------------------------------------------
(* CloseWithin and takeUnflushed *)

EnterClose(flush) ==
  /\ cpc = "open"
  /\ closing' = TRUE
  /\ IF flush THEN cpc' = "wait" /\ late' = FALSE ELSE cpc' = "cancel" /\ late' = TRUE
  /\ UNCHANGED <<made, covered, sendCh, writerVars, inFlight, cancelled, shut, sent, named>>

CloseFlushed ==
  /\ cpc = "wait" /\ wpc = "flushed" /\ cpc' = "cancel"
  /\ UNCHANGED <<made, covered, sendCh, writerVars, inFlight, closing, cancelled, shut, late, sent, named>>
CloseDeadline ==
  /\ cpc = "wait" /\ cpc' = "cancel" /\ late' = TRUE
  /\ UNCHANGED <<made, covered, sendCh, writerVars, inFlight, closing, cancelled, shut, sent, named>>

CancelContext ==
  /\ cpc = "cancel" /\ cancelled' = TRUE /\ cpc' = "shut"
  /\ UNCHANGED <<made, covered, sendCh, writerVars, inFlight, closing, shut, late, sent, named>>
\* Mutation: the context is cancelled and the transport left to itself.
CloseTransportNot ==
  /\ cpc = "shut" /\ cpc' = "inflight"
  /\ UNCHANGED <<made, covered, sendCh, writerVars, inFlight, closing, cancelled, shut, late, sent, named>>
CloseTransport ==
  /\ cpc = "shut" /\ shut' = TRUE /\ cpc' = "inflight"
  /\ UNCHANGED <<made, covered, sendCh, writerVars, inFlight, closing, cancelled, late, sent, named>>
TakeInFlight ==
  /\ cpc = "inflight" /\ cpc' = "queue"
  /\ named' = IF inFlight # None THEN {inFlight} ELSE {}
  /\ inFlight' = None
  /\ UNCHANGED <<made, covered, sendCh, writerVars, closing, cancelled, shut, late, sent>>
TakeQueued ==
  /\ cpc = "queue"
  /\ IF sendCh # <<>>
     THEN named' = named \cup {Head(sendCh)} /\ sendCh' = Tail(sendCh) /\ UNCHANGED cpc
     ELSE cpc' = "returned" /\ UNCHANGED <<named, sendCh>>
  /\ UNCHANGED <<made, covered, writerVars, inFlight, closing, cancelled, shut, late, sent>>

Writer == WriterSelect \/ DrainStep \/ BeginSend \/ SendFails \/ SendWorks
Closer ==
  \/ CloseFlushed \/ CloseDeadline \/ CancelContext
  \/ CloseTransport \/ TakeInFlight \/ TakeQueued
CloseNext == Enqueue \/ Writer \/ (\E flush \in Flushing : EnterClose(flush)) \/ Closer

\* Both goroutines run on; a write the transport holds ends when the transport is closed.
CloseFair ==
  /\ WF_closeVars(WriterSelect) /\ WF_closeVars(DrainStep) /\ WF_closeVars(BeginSend)
  /\ WF_closeVars(shut /\ SendFails) /\ WF_closeVars(Closer)

------------------------------------------------------------------------------
(* Properties *)

Before == 1..covered

\* The write loop and CloseWithin together keep the promise of module Outbox: frames
\* leave in order, and a close that was not late names exactly the ones that did not.
Abstract == INSTANCE Outbox WITH
  accepted <- covered,
  delivered <- Cardinality(sent \cap Before),
  reported <- IF cpc = "returned" THEN named \cap Before ELSE {},
  stage <- CASE cpc = "open" -> "open"
             [] cpc = "returned" -> "closed"
             [] OTHER -> IF late THEN "late" ELSE "closing"
KeepsPromise == Abstract!OutSpec

\* CloseWithin returns and the write loop ends, whatever the transport does.
CloseReturns == closing ~> (cpc = "returned" /\ wpc = "flushed")
=============================================================================
