--------------------------- MODULE ClientIOProofs ----------------------------
(***************************************************************************)
(* Proofs about the four parts of the clients that MCClientIO checks       *)
(* together: Close (ClientClose implements Outbox), the artifact transfer  *)
(* (FileTransfer), the sneakernet room (Sneakernet) and the daemons        *)
(* (Watchers).  They share no state; each is proved of its own             *)
(* specification, without the bounds of the run.                           *)
(***************************************************************************)
EXTENDS ClientClose, FileTransfer, Sneakernet, Watchers,
        FiniteSetTheorems, SequenceTheorems, WellFoundedInduction, TLAPS

------------------------------------------------------------------------------
(* Close.  A frame is in the channel, in the hands of the write loop, sent, named, or lost. *)
(* BeforeCollect and WhileCollect say where, before and while takeUnflushed looks for it. *)

\* The frames of one client and its Close, on their own.
CloseSpec == CloseInit /\ [][CloseNext]_closeVars

\* What each variable of the close holds.
CloseTypeOK ==
  /\ made \in Nat /\ covered \in Nat /\ sendCh \in Seq(Nat)
  /\ wpc \in {"select", "taken", "sending", "drain", "flushed"}
  /\ frame \in Nat /\ inFlight \in Nat /\ left \in Nat
  /\ draining \in BOOLEAN /\ closing \in BOOLEAN /\ cancelled \in BOOLEAN
  /\ shut \in BOOLEAN /\ late \in BOOLEAN
  /\ cpc \in {"open", "wait", "cancel", "shut", "inflight", "queue", "returned"}
  /\ sent \subseteq Nat /\ named \subseteq Nat

\* The number of frames the write loop has taken from the channel.
Gone == made - Len(sendCh)

\* The channel holds the newest frames, in the order they were queued: what was taken is 1..Gone.
QueueInOrder ==
  /\ Len(sendCh) <= made
  /\ \A i \in 1..Len(sendCh) : sendCh[i] = Gone + i

\* How far Close has come: it covers what was queued when it began, it names frames only after
\* the transport is shut, and it goes on before the write loop is done only on the deadline.
CloserPlace ==
  /\ covered <= made /\ made <= MaxFrames
  /\ cpc = "open" <=> ~closing
  /\ cpc = "open" => covered = made
  /\ cpc \in {"open", "wait"} => ~late
  /\ cpc \in {"cancel", "shut", "inflight", "queue", "returned"} /\ ~late => wpc = "flushed"
  /\ cpc \in {"inflight", "queue", "returned"} <=> shut
  /\ cpc \notin {"queue", "returned"} => named = {}

\* What is in neither the queue nor the reach of takeUnflushed has left.
BeforeCollect ==
  \/ wpc \in {"select", "drain", "flushed"} /\ frame = None /\ inFlight = None /\ sent = 1..Gone
  \/ wpc = "taken" /\ Gone > 0 /\ frame = Gone /\ inFlight = None /\ sent = 1..(Gone - 1)
  \/ wpc = "sending" /\ Gone > 0 /\ frame = Gone /\ inFlight = Gone /\ sent = 1..(Gone - 1)
  \/ wpc = "flushed" /\ Gone > 0 /\ frame = None /\ inFlight = Gone /\ sent = 1..(Gone - 1)

\* Once the transport is closed the write loop can take up one frame more, and lose it.
Lost == (1..Gone) \ (sent \cup named)
\* While takeUnflushed collects, what was sent and what it named are disjoint, what was sent is a
\* prefix, and at most one taken frame is in neither.
WhileCollect ==
  /\ sent \cup named \subseteq 1..Gone /\ sent \cap named = {}
  /\ \E s \in 0..Gone : sent = 1..s
  /\ wpc \in {"select", "drain"} => Lost = {}
  /\ wpc \in {"taken", "sending"} => Lost \subseteq {frame}
  /\ wpc = "flushed" => \E m \in 0..Gone : Lost \subseteq {m}
  /\ ~late => Lost = {}

\* The inductive invariant of the close: KeepsPromise says nothing of where a frame is.
CloseInv ==
  /\ QueueInOrder /\ CloserPlace
  /\ cpc \notin {"queue", "returned"} => BeforeCollect
  /\ cpc \in {"queue", "returned"} => WhileCollect
  /\ cpc = "returned" => covered <= Gone

\* The write loop takes the oldest frame.
LEMMA TakeHead ==
  ASSUME CloseTypeOK, QueueInOrder, sendCh # <<>>, sendCh' = Tail(sendCh), made' = made
  PROVE  /\ Gone \in Nat /\ Gone' = Gone + 1 /\ Head(sendCh) = Gone + 1
         /\ QueueInOrder' /\ sendCh' \in Seq(Nat)
<1>1. Len(sendCh) > 0 /\ Len(sendCh) \in Nat BY DEF CloseTypeOK
<1>2. Len(sendCh') = Len(sendCh) - 1 /\ sendCh' \in Seq(Nat) BY <1>1 DEF CloseTypeOK
<1>3. \A i \in 1..Len(sendCh') : sendCh'[i] = sendCh[i + 1] BY <1>1 DEF CloseTypeOK
<1>4. Head(sendCh) = sendCh[1] BY <1>1 DEF CloseTypeOK
<1> QED BY <1>1, <1>2, <1>3, <1>4 DEF CloseTypeOK, QueueInOrder, Gone

\* send queues the next frame.
LEMMA AppendNext ==
  ASSUME CloseTypeOK, QueueInOrder, sendCh' = Append(sendCh, made + 1), made' = made + 1
  PROVE  /\ Gone \in Nat /\ Gone' = Gone /\ QueueInOrder' /\ sendCh' \in Seq(Nat)
<1>1. Len(sendCh) \in Nat BY DEF CloseTypeOK
<1>2. Len(sendCh') = Len(sendCh) + 1 /\ sendCh' \in Seq(Nat) BY <1>1 DEF CloseTypeOK
<1>3. \A i \in 1..Len(sendCh) : sendCh'[i] = sendCh[i] BY <1>1 DEF CloseTypeOK
<1>4. sendCh'[Len(sendCh) + 1] = made + 1 BY <1>1 DEF CloseTypeOK
<1> QED BY <1>1, <1>2, <1>3, <1>4 DEF CloseTypeOK, QueueInOrder, Gone

\* A step that leaves the channel alone.
LEMMA QueueStill ==
  ASSUME CloseTypeOK, QueueInOrder, sendCh' = sendCh, made' = made
  PROVE  /\ Gone \in Nat /\ Gone' = Gone /\ QueueInOrder' /\ sendCh' \in Seq(Nat)
<1>1. Len(sendCh) \in Nat BY DEF CloseTypeOK
<1> QED BY <1>1 DEF CloseTypeOK, QueueInOrder, Gone

\* Every step of the client, of its write loop and of Close keeps the invariant.
LEMMA CloseStep ==
  ASSUME CloseTypeOK, CloseInv, [CloseNext]_closeVars
  PROVE  CloseTypeOK' /\ CloseInv'
<1> USE CloseAssumption DEF None
<1>1. CASE Enqueue
  <2>1. Gone \in Nat /\ Gone' = Gone /\ QueueInOrder' /\ sendCh' \in Seq(Nat)
    BY <1>1, AppendNext DEF Enqueue, CloseInv
  <2>2. CloseTypeOK' BY <1>1, <2>1 DEF Enqueue, CloseTypeOK, writerVars
  <2>3. CloserPlace' BY <1>1 DEF Enqueue, CloseInv, CloserPlace, CloseTypeOK, writerVars
  <2>4. ASSUME cpc \notin {"queue", "returned"} PROVE BeforeCollect'
    BY <1>1, <2>1, <2>4 DEF Enqueue, CloseInv, BeforeCollect, writerVars
  <2>5. ASSUME cpc \in {"queue", "returned"} PROVE WhileCollect'
    BY <1>1, <2>1, <2>5 DEF Enqueue, CloseInv, WhileCollect, Lost, writerVars
  <2>6. cpc = "returned" => covered' <= Gone'
    BY <1>1, <2>1 DEF Enqueue, CloseInv, CloserPlace
  <2> QED BY <1>1, <2>1, <2>2, <2>3, <2>4, <2>5, <2>6 DEF Enqueue, CloseInv
<1>2. ASSUME wpc \in {"select", "drain"}, sendCh # <<>>, TakeUp, left' \in Nat,
             UNCHANGED <<made, draining, inFlight, cancelled, closerVars, sent>>
      PROVE  CloseTypeOK' /\ CloseInv'
  <2>1. /\ Gone \in Nat /\ Gone' = Gone + 1 /\ Head(sendCh) = Gone + 1
        /\ QueueInOrder' /\ sendCh' \in Seq(Nat)
    BY <1>2, TakeHead DEF TakeUp, CloseInv
  <2>2. CloseTypeOK' BY <1>2, <2>1 DEF TakeUp, CloseTypeOK, closerVars
  <2>3. CloserPlace' BY <1>2 DEF TakeUp, CloseInv, CloserPlace, CloseTypeOK, closerVars
  <2>4. ASSUME cpc \notin {"queue", "returned"} PROVE BeforeCollect'
    BY <1>2, <2>1, <2>4 DEF TakeUp, CloseInv, BeforeCollect, closerVars
  <2>5. ASSUME cpc \in {"queue", "returned"} PROVE WhileCollect'
    <3>1. WhileCollect /\ late BY <1>2, <2>5 DEF CloseInv, CloserPlace
    <3>2. Lost = {} BY <3>1, <1>2 DEF WhileCollect
    <3>3. Lost' \subseteq {frame'} BY <3>2, <2>1, <1>2 DEF Lost, TakeUp, closerVars
    <3> QED BY <1>2, <2>1, <3>1, <3>3 DEF TakeUp, WhileCollect, closerVars
  <2>6. cpc = "returned" => covered' <= Gone'
    BY <1>2, <2>1 DEF CloseInv, closerVars, CloseTypeOK
  <2> QED BY <1>2, <2>1, <2>2, <2>3, <2>4, <2>5, <2>6 DEF CloseInv, closerVars
<1>3. ASSUME NEW w \in {"flushed", "drain"}, wpc \in {"select", "drain"}, wpc' = w, w = "drain" => wpc = "select",
             w = "drain" => cpc # "open",
             left' \in Nat, draining' \in BOOLEAN,
             UNCHANGED <<made, frame, sendCh, inFlight, cancelled, closerVars, sent>>
      PROVE  CloseTypeOK' /\ CloseInv'
  <2>1. Gone \in Nat /\ Gone' = Gone /\ QueueInOrder' /\ sendCh' \in Seq(Nat)
    BY <1>3, QueueStill DEF CloseInv
  <2>2. CloseTypeOK' BY <1>3, <2>1 DEF CloseTypeOK, closerVars
  <2>3. CloserPlace' BY <1>3 DEF CloseInv, CloserPlace, CloseTypeOK, closerVars
  <2>4. ASSUME cpc \notin {"queue", "returned"} PROVE BeforeCollect'
    BY <1>3, <2>1, <2>4 DEF CloseInv, BeforeCollect, closerVars
  <2>5. ASSUME cpc \in {"queue", "returned"} PROVE WhileCollect'
    BY <1>3, <2>1, <2>5 DEF CloseInv, WhileCollect, Lost, closerVars
  <2> QED BY <1>3, <2>1, <2>2, <2>3, <2>4, <2>5 DEF CloseInv, closerVars
<1>4. CASE WriterSelect
  <2>0. Len(sendCh) \in Nat BY DEF CloseTypeOK
  <2>1. CASE cancelled /\ wpc' = "flushed" /\ UNCHANGED <<frame, draining, left, sendCh>>
    BY <1>4, <2>1, <1>3 DEF WriterSelect, CloseTypeOK
  <2>2. CASE closing /\ wpc' = "drain" /\ draining' = TRUE /\ left' = Len(sendCh) /\ UNCHANGED <<frame, sendCh>>
    BY <1>4, <2>0, <2>2, <1>3 DEF WriterSelect, CloseTypeOK, CloseInv, CloserPlace
  <2>3. CASE sendCh # <<>> /\ TakeUp /\ UNCHANGED <<draining, left>>
    BY <1>4, <2>3, <1>2 DEF WriterSelect, CloseTypeOK
  <2> QED BY <1>4, <2>1, <2>2, <2>3 DEF WriterSelect
<1>5. CASE DrainStep
  <2>1. CASE left > 0 /\ sendCh # <<>>
    BY <1>5, <2>1, <1>2 DEF DrainStep, CloseTypeOK
  <2>2. CASE ~(left > 0 /\ sendCh # <<>>)
    BY <1>5, <2>2, <1>3 DEF DrainStep, CloseTypeOK
  <2> QED BY <2>1, <2>2
<1>6. ASSUME UNCHANGED <<made, sendCh>>, BeginSend \/ SendFails \/ SendWorks
      PROVE CloseTypeOK' /\ CloseInv'
  <2>1. Gone \in Nat /\ Gone' = Gone /\ QueueInOrder' /\ sendCh' \in Seq(Nat)
    BY <1>6, QueueStill DEF CloseInv
  <2>2. CloseTypeOK'
    <3>1. CASE BeginSend BY <3>1, <2>1 DEF CloseTypeOK, closerVars, BeginSend
    <3>2. CASE SendFails BY <3>2, <2>1 DEF CloseTypeOK, closerVars, SendFails
    <3>3. CASE SendWorks
      <4>1. wpc' \in {"drain", "select"} BY <3>3 DEF SendWorks
      <4>2. sent' \subseteq Nat BY <3>3 DEF CloseTypeOK, SendWorks
      <4> QED BY <3>3, <2>1, <4>1, <4>2 DEF CloseTypeOK, closerVars, SendWorks
    <3> QED BY <1>6, <3>1, <3>2, <3>3
  <2>3. CloserPlace'
    <3>1. wpc # "flushed" /\ UNCHANGED <<made, closerVars>>
      BY <1>6 DEF BeginSend, SendFails, SendWorks
    <3> QED BY <3>1 DEF CloseInv, CloserPlace, closerVars
  <2>4. ASSUME cpc \notin {"queue", "returned"} PROVE BeforeCollect'
    <3>1. CASE BeginSend BY <3>1, <2>1, <2>4 DEF CloseInv, BeforeCollect, BeginSend
    <3>2. CASE SendFails BY <3>2, <2>1, <2>4 DEF CloseInv, BeforeCollect, SendFails
    <3>3. CASE SendWorks
      <4>1. wpc' \in {"drain", "select"} BY <3>3 DEF SendWorks
      <4>2. Gone > 0 /\ frame = Gone /\ sent = 1..(Gone - 1)
        BY <3>3, <2>4 DEF SendWorks, CloseInv, BeforeCollect
      <4>3. sent' = 1..Gone' BY <4>2, <3>3, <2>1 DEF SendWorks
      <4> QED BY <4>1, <4>3, <3>3 DEF BeforeCollect, SendWorks
    <3> QED BY <1>6, <3>1, <3>2, <3>3
  <2>5. ASSUME cpc \in {"queue", "returned"} PROVE WhileCollect'
    <3>1. WhileCollect /\ late /\ ~SendWorks
      BY <1>6, <2>5 DEF CloseInv, CloserPlace, BeginSend, SendFails, SendWorks
    <3>2. Lost' = Lost /\ Lost \subseteq {frame} /\ UNCHANGED <<sent, named, late>>
      BY <1>6, <2>1, <3>1 DEF WhileCollect, Lost, BeginSend, SendFails, closerVars
    <3>3. CASE BeginSend BY <3>1, <3>2, <3>3, <2>1 DEF WhileCollect, BeginSend
    <3>4. CASE SendFails
      <4>1. \E m \in 0..Gone : Lost \subseteq {m}
        BY <3>2, <2>1 DEF Lost
      <4> QED BY <3>1, <3>2, <3>4, <2>1, <4>1 DEF WhileCollect, SendFails
    <3> QED BY <1>6, <3>1, <3>3, <3>4
  <2> QED BY <1>6, <2>1, <2>2, <2>3, <2>4, <2>5 DEF CloseInv, closerVars, BeginSend, SendFails, SendWorks
<1>7. ASSUME UNCHANGED <<made, covered, sendCh, writerVars, inFlight, sent, named>>,
             closing' = TRUE, cancelled' \in BOOLEAN, shut' \in BOOLEAN, late' \in BOOLEAN,
             CloserPlace', cpc \notin {"queue", "returned"}, cpc' \in {"wait", "cancel", "shut", "inflight"}
      PROVE CloseTypeOK' /\ CloseInv'
  <2>1. Gone \in Nat /\ Gone' = Gone /\ QueueInOrder' /\ sendCh' \in Seq(Nat)
    BY <1>7, QueueStill DEF CloseInv
  <2>2. CloseTypeOK' BY <1>7, <2>1 DEF CloseTypeOK, writerVars
  <2>3. BeforeCollect'
    BY <1>7, <2>1 DEF CloseInv, BeforeCollect, writerVars
  <2> QED BY <1>7, <2>1, <2>2, <2>3 DEF CloseInv, writerVars
<1>8. CASE \E flush \in Flushing : EnterClose(flush)
  <2>1. PICK flush \in Flushing : EnterClose(flush) BY <1>8
  <2>2. /\ cpc' \in {"wait", "cancel"} /\ late' \in BOOLEAN
        /\ cpc' = "wait" => ~late'
        /\ cpc' = "cancel" => late'
    BY <2>1 DEF EnterClose
  <2>3. CloserPlace' BY <2>1, <2>2 DEF EnterClose, CloserPlace, CloseInv, writerVars
  <2> QED BY <2>1, <2>2, <2>3, <1>7 DEF EnterClose, CloseTypeOK
<1>9. CASE CloseFlushed
  BY <1>9, <1>7 DEF CloseFlushed, CloserPlace, CloseInv, CloseTypeOK, writerVars
<1>10. CASE CloseDeadline
  BY <1>10, <1>7 DEF CloseDeadline, CloserPlace, CloseInv, CloseTypeOK, writerVars
<1>11. CASE CancelContext
  BY <1>11, <1>7 DEF CancelContext, CloserPlace, CloseInv, CloseTypeOK, writerVars
<1>12. CASE CloseTransport
  BY <1>12, <1>7 DEF CloseTransport, CloserPlace, CloseInv, CloseTypeOK, writerVars
<1>13. CASE TakeInFlight
  <2>1. Gone \in Nat /\ Gone' = Gone /\ QueueInOrder' /\ sendCh' \in Seq(Nat)
    BY <1>13, QueueStill DEF CloseInv, TakeInFlight
  <2>2. CloseTypeOK' BY <1>13, <2>1 DEF CloseTypeOK, writerVars, TakeInFlight
  <2>3. CloserPlace' BY <1>13 DEF TakeInFlight, CloserPlace, CloseInv, CloseTypeOK, writerVars
  <2>4. BeforeCollect BY <1>13 DEF TakeInFlight, CloseInv
  <2>5. WhileCollect'
    BY <1>13, <2>1, <2>4 DEF TakeInFlight, BeforeCollect, WhileCollect, Lost, writerVars, CloseInv, CloserPlace
  <2> QED BY <1>13, <2>1, <2>2, <2>3, <2>5 DEF TakeInFlight, CloseInv
<1>14. CASE TakeQueued
  <2>1. CASE sendCh # <<>>
    <3>1. /\ Gone \in Nat /\ Gone' = Gone + 1 /\ Head(sendCh) = Gone + 1
          /\ QueueInOrder' /\ sendCh' \in Seq(Nat)
      BY <1>14, <2>1, TakeHead DEF TakeQueued, CloseInv
    <3>2. CloseTypeOK'
      <4>0. named' = named \cup {Head(sendCh)} /\ cpc' = cpc BY <1>14, <2>1 DEF TakeQueued
      <4>1. named' \subseteq Nat
        <5>1. Head(sendCh) \in Nat /\ named \subseteq Nat BY <3>1 DEF CloseTypeOK
        <5> QED BY <4>0, <5>1
      <4> QED BY <1>14, <4>0, <4>1, <3>1 DEF TakeQueued, CloseTypeOK, writerVars
    <3>3. CloserPlace' BY <1>14, <2>1 DEF TakeQueued, CloserPlace, CloseInv, writerVars
    <3>4. Lost' = Lost BY <1>14, <2>1, <3>1 DEF TakeQueued, Lost
    <3>5. WhileCollect'
      BY <1>14, <2>1, <3>1, <3>4 DEF TakeQueued, CloseInv, WhileCollect, writerVars
    <3> QED BY <1>14, <2>1, <3>1, <3>2, <3>3, <3>5 DEF TakeQueued, CloseInv
  <2>2. CASE sendCh = <<>>
    <3>1. Gone \in Nat /\ Gone' = Gone /\ QueueInOrder' /\ sendCh' \in Seq(Nat)
      BY <1>14, <2>2, QueueStill DEF TakeQueued, CloseInv
    <3>2. CloseTypeOK' BY <1>14, <2>2, <3>1 DEF TakeQueued, CloseTypeOK, writerVars
    <3>3. CloserPlace' BY <1>14, <2>2 DEF TakeQueued, CloserPlace, CloseInv, writerVars
    <3>4. WhileCollect'
      BY <1>14, <2>2, <3>1 DEF TakeQueued, CloseInv, WhileCollect, Lost, writerVars
    <3>5. covered' <= Gone' BY <1>14, <2>2, <3>1 DEF TakeQueued, CloseInv, CloserPlace, Gone, CloseTypeOK
    <3> QED BY <1>14, <2>2, <3>1, <3>2, <3>3, <3>4, <3>5 DEF TakeQueued, CloseInv
  <2> QED BY <2>1, <2>2
<1>15. CASE UNCHANGED closeVars
  <2>1. Gone' = Gone /\ QueueInOrder' BY <1>15, QueueStill DEF closeVars, CloseInv
  <2> QED BY <1>15, <2>1 DEF closeVars, writerVars, CloseTypeOK, CloseInv, CloserPlace, BeforeCollect, WhileCollect, Lost
<1>16. CASE BeginSend \/ SendFails \/ SendWorks
  BY <1>16, <1>6 DEF BeginSend, SendFails, SendWorks
<1> QED BY <1>1, <1>4, <1>5, <1>8, <1>9, <1>10, <1>11, <1>12, <1>13, <1>14, <1>15, <1>16
        DEF CloseNext, Writer, Closer

\* A connected client satisfies it.
LEMMA CloseStart == CloseInit => CloseTypeOK /\ CloseInv
<1> SUFFICES ASSUME CloseInit PROVE CloseTypeOK /\ CloseInv OBVIOUS
<1>0. sendCh \in Seq(Nat) /\ Len(sendCh) = 0 BY DEF CloseInit
<1>1. CloseTypeOK BY <1>0 DEF CloseInit, CloseTypeOK, None
<1>2. QueueInOrder /\ Gone = 0
  <2>1. made = 0 BY DEF CloseInit
  <2>2. 1..Len(sendCh) = {} BY <1>0
  <2>3. Gone = 0 BY <1>0, <2>1 DEF Gone
  <2>4. QueueInOrder BY <1>0, <2>1, <2>2 DEF QueueInOrder
  <2> QED BY <2>3, <2>4
<1>3. BeforeCollect BY <1>2 DEF CloseInit, BeforeCollect
<1> QED BY <1>1, <1>2, <1>3, CloseAssumption DEF CloseInit, CloseInv, CloserPlace

\* How many of the covered frames are among the sent ones.
LEMMA CommonPrefix ==
  ASSUME NEW s \in Nat, NEW c \in Nat
  PROVE  Cardinality((1..s) \cap (1..c)) = IF s <= c THEN s ELSE c
<1>0. ASSUME NEW n \in Nat PROVE Cardinality(1..n) = n
  <2>1. Cardinality(1..n) = IF 1 > n THEN 0 ELSE n - 1 + 1 BY FS_Interval
  <2> QED BY <2>1
<1>1. CASE s <= c
  <2>1. (1..s) \cap (1..c) = 1..s BY <1>1
  <2>2. Cardinality(1..s) = s BY <1>0
  <2> QED BY <1>1, <2>1, <2>2
<1>2. CASE ~(s <= c)
  <2>1. (1..s) \cap (1..c) = 1..c BY <1>2
  <2>2. Cardinality(1..c) = c BY <1>0
  <2> QED BY <1>2, <2>1, <2>2
<1> QED BY <1>1, <1>2

\* What has left is a prefix of what was queued.
LEMMA SentIsPrefix ==
  ASSUME CloseTypeOK, CloseInv
  PROVE  \E s \in 0..Gone : sent = 1..s
<1>0. Gone \in Nat BY DEF CloseTypeOK, CloseInv, QueueInOrder, Gone
<1>1. CASE cpc \in {"queue", "returned"} BY <1>1 DEF CloseInv, WhileCollect
<1>2. CASE cpc \notin {"queue", "returned"}
  BY <1>0, <1>2 DEF CloseInv, BeforeCollect
<1> QED BY <1>1, <1>2

\* Every step is, seen from outside, a step of Outbox or none.
LEMMA StepKeepsPromise ==
  ASSUME CloseTypeOK, CloseInv, [CloseNext]_closeVars
  PROVE  [Abstract!OutNext]_(Abstract!outVars)
<1> USE CloseAssumption
<1>0. Gone \in Nat /\ Gone <= made BY DEF CloseTypeOK, CloseInv, QueueInOrder, Gone
<1>s. PICK s \in 0..Gone : sent = 1..s BY SentIsPrefix
<1>1. ASSUME UNCHANGED <<covered, sent, cpc, late>>, cpc = "returned" => named' = named
      PROVE  UNCHANGED Abstract!outVars
  BY <1>1 DEF Abstract!outVars, Before
<1>2. CASE Enqueue
  <2>1. CASE closing BY <2>1, <1>2, <1>1 DEF Enqueue, CloseTypeOK
  <2>2. CASE ~closing
    <3>1. cpc = "open" /\ cpc' = "open" /\ covered' = covered + 1 /\ covered < MaxFrames
      BY <2>2, <1>2 DEF Enqueue, CloseInv, CloserPlace, CloseTypeOK
    <3>2. sent' \cap Before' = sent \cap Before
      <4>1. s <= covered /\ sent' = 1..s
        BY <1>0, <1>s, <1>2, <3>1 DEF Enqueue, CloseInv, CloserPlace
      <4> QED BY <1>s, <3>1, <4>1 DEF Before, CloseTypeOK
    <3>3. Abstract!Accept BY <3>1, <3>2 DEF Abstract!Accept
    <3> QED BY <3>3 DEF Abstract!OutNext
  <2> QED BY <2>1, <2>2
<1>3. CASE WriterSelect BY <1>3, <1>1 DEF WriterSelect, closerVars
<1>4. CASE DrainStep BY <1>4, <1>1 DEF DrainStep, closerVars
<1>5. CASE BeginSend BY <1>5, <1>1 DEF BeginSend, closerVars
<1>6. CASE SendFails BY <1>6, <1>1 DEF SendFails, closerVars
<1>7. CASE SendWorks
  <2>1. cpc \notin {"inflight", "queue", "returned"} BY <1>7 DEF SendWorks, CloseInv, CloserPlace
  <2>2. Gone > 0 /\ frame = Gone /\ sent = 1..(Gone - 1)
    BY <1>7, <2>1 DEF SendWorks, CloseInv, BeforeCollect
  <2>3. sent' = 1..Gone BY <2>2, <1>7, <1>0 DEF SendWorks
  <2>4. /\ Cardinality(sent \cap Before) = IF Gone - 1 <= covered THEN Gone - 1 ELSE covered
        /\ Cardinality(sent' \cap Before) = IF Gone <= covered THEN Gone ELSE covered
    BY <2>2, <2>3, <1>0, CommonPrefix DEF Before, CloseTypeOK
  <2>5. UNCHANGED <<covered, cpc, late, named>> /\ Before' = Before
    BY <1>7 DEF SendWorks, closerVars, Before
  <2>6. CASE Gone <= covered
    <3>1. Abstract!Deliver
      BY <2>1, <2>4, <2>5, <2>6, <1>0 DEF Abstract!Deliver, CloseTypeOK
    <3> QED BY <3>1 DEF Abstract!OutNext
  <2>7. CASE ~(Gone <= covered)
    <3>1. Cardinality(sent' \cap Before') = Cardinality(sent \cap Before)
      BY <2>4, <2>5, <2>7, <1>0 DEF CloseTypeOK
    <3> QED BY <3>1, <2>5 DEF Abstract!outVars
  <2> QED BY <2>6, <2>7
<1>8. CASE \E flush \in Flushing : EnterClose(flush)
  <2>1. PICK flush \in Flushing : EnterClose(flush) BY <1>8
  <2>2. /\ cpc = "open" /\ UNCHANGED <<covered, sent, named>>
        /\ \/ cpc' = "wait" /\ ~late'
           \/ cpc' = "cancel" /\ late'
    BY <2>1 DEF EnterClose
  <2>3. Abstract!StartClose BY <2>2 DEF Abstract!StartClose, Before
  <2> QED BY <2>3 DEF Abstract!OutNext
<1>9. CASE CloseFlushed
  BY <1>9 DEF CloseFlushed, Abstract!outVars, Before
<1>10. CASE CloseDeadline
  <2>1. /\ cpc = "wait" /\ ~late /\ cpc' = "cancel" /\ late' /\ UNCHANGED <<covered, sent, named>>
    BY <1>10 DEF CloseDeadline, CloseInv, CloserPlace
  <2>2. Abstract!RunLate BY <2>1 DEF Abstract!RunLate, Before
  <2> QED BY <2>2 DEF Abstract!OutNext
<1>11. CASE CancelContext
  BY <1>11 DEF CancelContext, Abstract!outVars, Before
<1>12. CASE CloseTransport
  BY <1>12 DEF CloseTransport, Abstract!outVars, Before
<1>13. CASE TakeInFlight
  BY <1>13 DEF TakeInFlight, Abstract!outVars, Before
<1>14. CASE TakeQueued
  <2>1. CASE sendCh # <<>>
    BY <2>1, <1>14, <1>1 DEF TakeQueued
  <2>2. CASE sendCh = <<>>
    <3>1. /\ cpc = "queue" /\ cpc' = "returned"
          /\ UNCHANGED <<covered, sent, named, late, made, sendCh>>
      BY <1>14, <2>2 DEF TakeQueued
    <3>2. Before \subseteq 1..Gone BY <2>2, <3>1 DEF Before, Gone, CloseInv, CloserPlace, CloseTypeOK
    <3>3. WhileCollect BY <3>1 DEF CloseInv
    <3>n. PICK n : n = Cardinality(sent \cap Before) OBVIOUS
    <3>4. n \in Nat /\ 1..n = sent \cap Before
      <4>2. s \in Nat /\ covered \in Nat BY <1>0, <1>s DEF CloseTypeOK
      <4>1. n = IF s <= covered THEN s ELSE covered
        BY <3>n, <1>s, <4>2, CommonPrefix DEF Before
      <4>3. CASE s <= covered BY <4>1, <4>2, <4>3, <1>s DEF Before
      <4>4. CASE ~(s <= covered) BY <4>1, <4>2, <4>4, <1>s DEF Before
      <4> QED BY <4>3, <4>4
    <3>5. named \cap Before \subseteq 1..covered BY DEF Before
    <3>6. ASSUME ~late PROVE named \cap Before = (1..covered) \ (1..n)
      BY <3>2, <3>3, <3>4, <3>6 DEF WhileCollect, Lost, Before
    <3>7. \A i, j \in (1..covered) \ ((1..n) \cup (named \cap Before)) : i = j
      <4>1. (1..covered) \ ((1..n) \cup (named \cap Before)) \subseteq Lost
        BY <3>2, <3>4 DEF Lost, Before
      <4>2. PICK m : Lost \subseteq {m} BY <3>3 DEF WhileCollect, CloseTypeOK
      <4> QED BY <4>1, <4>2
    <3>8. Abstract!Return
      <4>1. Before' = Before /\ sent' = sent /\ named' = named BY <3>1 DEF Before
      <4>2. CASE late BY SMTT(30), <3>n, <3>1, <3>5, <3>7, <4>1, <4>2 DEF Abstract!Return, Abstract!Missing
      <4>3. CASE ~late BY <3>n, <3>1, <3>5, <3>6, <3>7, <4>1, <4>3 DEF Abstract!Return, Abstract!Missing
      <4> QED BY <4>2, <4>3
    <3> QED BY <3>8 DEF Abstract!OutNext
  <2> QED BY <2>1, <2>2
<1>15. CASE UNCHANGED closeVars BY <1>15, <1>1 DEF closeVars
<1> QED BY <1>2, <1>3, <1>4, <1>5, <1>6, <1>7, <1>8, <1>9, <1>10, <1>11, <1>12, <1>13, <1>14, <1>15
        DEF CloseNext, Writer, Closer

\* Close implements what its caller was promised, for any number of frames and any queue: each
\* frame queued before Close was sent or is named in the error, in order, save at most one that
\* the write loop had in hand past the deadline (client.go Close, takeUnflushed).
THEOREM CloseKeepsPromise == CloseSpec => KeepsPromise
<1>1. CloseInit => CloseTypeOK /\ CloseInv BY CloseStart
<1>2. CloseTypeOK /\ CloseInv /\ [CloseNext]_closeVars => (CloseTypeOK /\ CloseInv)'
  BY CloseStep
<1>3. CloseInit => Abstract!OutInit
  <2> SUFFICES ASSUME CloseInit PROVE Abstract!OutInit OBVIOUS
  <2>1. sent \cap Before = {} BY DEF CloseInit
  <2>2. Cardinality(sent \cap Before) = 0 BY <2>1, FS_EmptySet
  <2> QED BY <2>2 DEF CloseInit, Abstract!OutInit
<1>4. CloseTypeOK /\ CloseInv /\ [CloseNext]_closeVars => [Abstract!OutNext]_(Abstract!outVars)
  BY StepKeepsPromise
<1> QED BY <1>1, <1>2, <1>3, <1>4, PTL DEF CloseSpec, KeepsPromise, Abstract!OutSpec

------------------------------------------------------------------------------
(* The artifact transfer.  A count the sender goes by was received by somebody: so are the *)
(* counts in its channel and on the wire, which AcksTrusted does not mention. *)

\* One transfer on its own.
FileSpec == FileInit /\ [][FileNext]_fileVars

\* What the wire carries.
Signals == [t : {"offer", "abort"}]
ChunkFrames == [t : {"chunk"}, k : Whole]
AckFrames == [t : {"ack"}, k : 0..Chunks]
Frames == Signals \cup ChunkFrames \cup AckFrames

\* What each variable of the transfer holds.
FileTypeOK ==
  /\ xpc \in {"idle", "offered", "stream", "sent", "failed", "gone"}
  /\ sending \in 0..Chunks /\ maxAck \in 0..Chunks
  /\ ackCh \in Seq(0..Chunks) /\ abortCh \in BOOLEAN /\ grace \in BOOLEAN
  /\ recv \in [Receivers -> {"none", "open", "written", "failed"}]
  /\ got \in [Receivers -> SUBSET Whole]
  /\ down \in [Receivers -> Seq(Frames)] /\ up \in Seq(Frames)
  /\ damage \in Nat

\* The counts that are no promise: some receiver has that many chunks.
Backed == {k \in 0..Chunks : k = 0 \/ \E r \in Receivers : k <= Received(r)}

\* Every count on its way to the sender, or believed by it, was received by somebody, unless the
\* sender has given up waiting.
AcksBacked ==
  /\ \A i \in 1..Len(up) : up[i].t = "ack" => up[i].k \in Backed
  /\ \A i \in 1..Len(ackCh) : ackCh[i] \in Backed
  /\ grace \/ maxAck \in Backed

\* The sender is at most one window ahead of somebody's chunks.
Paced ==
  /\ grace => sending = Chunks
  /\ \E k \in Backed : sending <= FileWindow + k
  /\ xpc = "sent" => maxAck = Chunks

\* The inductive invariant of a transfer.
FileInv == AcksBacked /\ Paced

\* The greatest of a bounded set is a member of it and bounds it.
LEMMA MaxIsMax ==
  ASSUME NEW N \in Nat, NEW S, S \subseteq 0..N, S # {}
  PROVE  Max(S) \in S /\ \A x \in S : x <= Max(S)
<1> DEFINE T == {n \in Nat : \A x \in S : x <= n}
<1> DEFINE R == OpToRel(<, Nat)
<1>1. N \in T OBVIOUS
<1>2. IsWellFoundedOn(R, Nat) BY NatLessThanWellFounded, Zenon
<1>3. PICK m \in T : \A y \in T : ~(<<y, m>> \in R)
  <2> HIDE DEF R
  <2> QED BY <1>1, <1>2, WFMin
<1>4. \A y \in T : ~(y < m)
  BY <1>3 DEF OpToRel
<1>5. m \in S
  <2> SUFFICES ASSUME m \notin S PROVE FALSE OBVIOUS
  <2>1. PICK x \in S : TRUE OBVIOUS
  <2>2. m > 0 BY <2>1
  <2>3. m - 1 \in T BY <2>2
  <2> QED BY <1>4, <2>3
<1>6. \E x \in S : \A y \in S : x >= y BY <1>5
<1> QED BY <1>6 DEF Max

\* The assumption on the constants, as the provers use it.
LEMMA ConstFacts == /\ Chunks \in Nat /\ Chunks > 0 /\ FileWindow \in Nat /\ WireCap \in Nat
                    /\ AckEvery \in Nat /\ AckCap \in Nat /\ Whole = 1..Chunks
BY FileAssumption DEF Whole

\* The count of received chunks, and its bound.
LEMMA CountInWhole ==
  ASSUME NEW S, S \subseteq Whole
  PROVE  /\ IsFiniteSet(S) /\ Cardinality(S) \in 0..Chunks
         /\ Cardinality(S) = Chunks => S = Whole
<1>1. IsFiniteSet(Whole) /\ Cardinality(Whole) = Chunks
  <2>1. /\ IsFiniteSet(1..Chunks)
        /\ Cardinality(1..Chunks) = IF 1 > Chunks THEN 0 ELSE Chunks - 1 + 1
    BY ConstFacts, FS_Interval
  <2> QED BY <2>1, ConstFacts
<1>2. IsFiniteSet(S) /\ Cardinality(S) <= Chunks /\ (Cardinality(S) = Chunks => S = Whole)
  BY <1>1, FS_Subset
<1>3. Cardinality(S) \in Nat BY <1>2, FS_CardinalityType
<1> QED BY <1>2, <1>3, ConstFacts

\* More chunks count for more.
LEMMA CountGrows ==
  ASSUME NEW S, NEW T, S \subseteq T, T \subseteq Whole
  PROVE  Cardinality(S) <= Cardinality(T)
<1>1. IsFiniteSet(T) BY CountInWhole
<1> QED BY <1>1, FS_Subset

\* A frame queued on a channel, if it finds room.
LEMMA PutKeeps ==
  ASSUME NEW S, NEW q \in Seq(S), NEW f \in S
  PROVE  Put(q, f) \in Seq(S)
BY DEF Put

\* Taking the first frame of a queue.
LEMMA TailKeeps ==
  ASSUME NEW S, NEW q \in Seq(S), q # <<>>
  PROVE  /\ Tail(q) \in Seq(S) /\ Head(q) \in S /\ Len(q) > 0 /\ Head(q) = q[1]
         /\ \A i \in 1..Len(Tail(q)) : i + 1 \in 1..Len(q) /\ Tail(q)[i] = q[i + 1]
OBVIOUS

\* A frame of the sender on its way to every receiver.
LEMMA ToAllType ==
  ASSUME FileTypeOK, NEW f \in Frames, ToAll(f)
  PROVE  down' \in [Receivers -> Seq(Frames)]
<1>1. \A r \in Receivers : Put(down[r], f) \in Seq(Frames) BY PutKeeps DEF FileTypeOK
<1> QED BY <1>1 DEF ToAll

\* A receiver handles a frame and answers.
LEMMA FromReceiverType ==
  ASSUME FileTypeOK, NEW f \in Frames, NEW r \in Receivers, down[r] # <<>>, FromReceiver(r, up, f)
  PROVE  /\ down' \in [Receivers -> Seq(Frames)] /\ up' \in Seq(Frames)
         /\ \A i \in 1..Len(up') : up'[i] = f \/ \E j \in 1..Len(up) : up'[i] = up[j]
<1>1. \A s \in Receivers : Put(down[s], f) \in Seq(Frames) BY PutKeeps DEF FileTypeOK
<1>2. Tail(down[r]) \in Seq(Frames) BY TailKeeps DEF FileTypeOK
<1>3. down' \in [Receivers -> Seq(Frames)] BY <1>1, <1>2 DEF FromReceiver
<1>4. up \in Seq(Frames) /\ up' = Put(up, f) BY DEF FileTypeOK, FromReceiver
<1>5. CASE up' = Append(up, f) BY <1>3, <1>4, <1>5
<1>6. CASE up' = up BY <1>3, <1>4, <1>6
<1> QED BY <1>4, <1>5, <1>6 DEF Put

\* A frame lost on the way to a receiver.
LEMMA DropType ==
  ASSUME FileTypeOK, NEW r \in Receivers, down[r] # <<>>, DropFrame(r)
  PROVE  down' \in [Receivers -> Seq(Frames)]
<1>1. Tail(down[r]) \in Seq(Frames) BY TailKeeps DEF FileTypeOK
<1> QED BY <1>1 DEF DropFrame, FileTypeOK

\* Which frames there are.
LEMMA FrameFacts ==
  /\ [t |-> "offer"] \in Frames /\ [t |-> "abort"] \in Frames
  /\ \A k \in Whole : [t |-> "chunk", k |-> k] \in Frames
  /\ \A k \in 0..Chunks : [t |-> "ack", k |-> k] \in Frames
  /\ \A f \in Frames : f.t = "chunk" => f.k \in Whole
  /\ \A f \in Frames : f.t = "ack" => f.k \in 0..Chunks
BY DEF Frames, Signals, ChunkFrames, AckFrames

\* waitAck takes an acknowledgement: the highest count never goes down.
LEMMA TakeAckType ==
  ASSUME FileTypeOK, TakeAck
  PROVE  /\ maxAck' \in 0..Chunks /\ ackCh' \in Seq(0..Chunks) /\ abortCh' \in BOOLEAN
         /\ maxAck' = maxAck \/ maxAck' = ackCh[1]
         /\ maxAck' >= maxAck
         /\ \A i \in 1..Len(ackCh') : i + 1 \in 1..Len(ackCh) /\ ackCh'[i] = ackCh[i + 1]
         /\ Len(ackCh) > 0 /\ xpc' = xpc
<1>1. /\ ackCh' \in Seq(0..Chunks) /\ Head(ackCh) \in 0..Chunks /\ Head(ackCh) = ackCh[1]
      /\ \A i \in 1..Len(ackCh') : i + 1 \in 1..Len(ackCh) /\ ackCh'[i] = ackCh[i + 1]
      /\ Len(ackCh) > 0
  BY TailKeeps DEF FileTypeOK, TakeAck
<1>2. /\ Max({maxAck, Head(ackCh)}) \in {maxAck, Head(ackCh)}
      /\ \A x \in {maxAck, Head(ackCh)} : x <= Max({maxAck, Head(ackCh)})
  <2>1. {maxAck, Head(ackCh)} \subseteq 0..Chunks BY <1>1 DEF FileTypeOK
  <2> QED BY <2>1, MaxIsMax, ConstFacts
<1> QED BY <1>1, <1>2 DEF FileTypeOK, TakeAck

\* Every step of a transfer keeps the types.
LEMMA FileTypeStep ==
  ASSUME FileTypeOK, [FileNext]_fileVars
  PROVE  FileTypeOK'
<1>1. CASE SendFile BY <1>1, ToAllType, FrameFacts DEF SendFile, FileTypeOK
<1>2. CASE RegisterSend BY <1>2 DEF RegisterSend, wireVars, FileTypeOK
<1>3. CASE StreamChunk
  <2>1. sending' \in 0..Chunks /\ sending + 1 \in Whole
    BY <1>3, ConstFacts DEF StreamChunk, FileTypeOK
  <2>2. down' \in [Receivers -> Seq(Frames)]
    BY <1>3, <2>1, ToAllType, FrameFacts DEF StreamChunk
  <2>3. /\ maxAck' \in 0..Chunks /\ ackCh' \in Seq(0..Chunks) /\ abortCh' \in BOOLEAN
        /\ xpc' \in {"stream", "failed"}
    <3>1. CASE TakeAck BY <1>3, <3>1, TakeAckType DEF StreamChunk
    <3>2. CASE TakeAbort BY <3>2 DEF TakeAbort, FileTypeOK
    <3>3. CASE UNCHANGED <<xpc, maxAck, ackCh, abortCh>> BY <1>3, <3>3 DEF StreamChunk, FileTypeOK
    <3> QED BY <1>3, <3>1, <3>2, <3>3 DEF StreamChunk
  <2> QED BY <1>3, <2>1, <2>2, <2>3 DEF StreamChunk, FileTypeOK
<1>4. CASE WaitForReceiver
  <2>1. /\ maxAck' \in 0..Chunks /\ ackCh' \in Seq(0..Chunks) /\ abortCh' \in BOOLEAN
        /\ xpc' \in {"stream", "failed"}
    <3>1. CASE TakeAck BY <1>4, <3>1, TakeAckType DEF WaitForReceiver, Waiting
    <3>2. CASE TakeAbort BY <3>2 DEF TakeAbort, FileTypeOK
    <3> QED BY <1>4, <3>1, <3>2 DEF WaitForReceiver
  <2> QED BY <1>4, <2>1 DEF WaitForReceiver, wireVars, FileTypeOK
<1>5. CASE Stall BY <1>5, ToAllType, FrameFacts DEF Stall, FileTypeOK
<1>6. CASE FlushDeadline BY <1>6, ConstFacts DEF FlushDeadline, wireVars, FileTypeOK
<1>7. CASE FileSent BY <1>7 DEF FileSent, wireVars, FileTypeOK
<1>8. CASE SenderGone BY <1>8, ToAllType, FrameFacts DEF SenderGone, FileTypeOK
<1>9. CASE OnSenderFrame
  <2>1. up' \in Seq(Frames) /\ Head(up) \in Frames
    BY <1>9, TailKeeps DEF OnSenderFrame, FileTypeOK
  <2>2. ackCh' \in Seq(0..Chunks)
    <3>1. CASE xpc = "stream" /\ Head(up).t = "ack" /\ Len(ackCh) < AckCap
      <4>1. Head(up).k \in 0..Chunks BY <2>1, <3>1, FrameFacts
      <4>2. ackCh' = Append(ackCh, Head(up).k) BY <1>9, <3>1 DEF OnSenderFrame
      <4> QED BY <4>1, <4>2 DEF FileTypeOK
    <3>2. CASE ~(xpc = "stream" /\ Head(up).t = "ack" /\ Len(ackCh) < AckCap)
      BY <1>9, <3>2 DEF OnSenderFrame, FileTypeOK
    <3> QED BY <3>1, <3>2
  <2>3. abortCh' \in BOOLEAN BY <1>9 DEF OnSenderFrame, FileTypeOK
  <2> QED BY <1>9, <2>1, <2>2, <2>3 DEF OnSenderFrame, FileTypeOK
<1>10. ASSUME NEW r \in Receivers, OnFileOffer(r) PROVE FileTypeOK'
  <2>1. down[r] # <<>> BY <1>10 DEF OnFileOffer, TakeFrame
  <2>2. CASE DropFrame(r) /\ UNCHANGED <<recv, up>>
    BY <1>10, <2>1, <2>2, DropType DEF OnFileOffer, senderVars, FileTypeOK
  <2>3. CASE recv' = [recv EXCEPT ![r] = "failed"] /\ FromReceiver(r, up, [t |-> "abort"])
    BY <1>10, <2>1, <2>3, FromReceiverType, FrameFacts DEF OnFileOffer, senderVars, FileTypeOK
  <2>4. CASE recv' = [recv EXCEPT ![r] = "open"] /\ DropFrame(r) /\ UNCHANGED up
    BY <1>10, <2>1, <2>4, DropType DEF OnFileOffer, senderVars, FileTypeOK
  <2> QED BY <1>10, <2>2, <2>3, <2>4 DEF OnFileOffer
<1>11. ASSUME NEW r \in Receivers, OnFileChunk(r) PROVE FileTypeOK'
  <2> DEFINE k == Head(down[r]).k
             n == Cardinality(got[r] \cup {k})
  <2>1. down[r] # <<>> /\ k \in Whole
    <3>1. down[r] # <<>> /\ Head(down[r]).t = "chunk" BY <1>11 DEF OnFileChunk, TakeFrame
    <3>2. Head(down[r]) \in Frames BY <3>1, TailKeeps DEF FileTypeOK
    <3> QED BY <3>1, <3>2, FrameFacts
  <2>2. got[r] \cup {k} \subseteq Whole BY <2>1 DEF FileTypeOK
  <2>3. n \in 0..Chunks BY <2>2, CountInWhole
  <2>4. got' = [got EXCEPT ![r] = @ \cup {k}] BY <1>11 DEF OnFileChunk
  <2>5. got' \in [Receivers -> SUBSET Whole]
    <3> HIDE DEF k
    <3> QED BY <2>2, <2>4 DEF FileTypeOK
  <2>6. down' \in [Receivers -> Seq(Frames)] /\ up' \in Seq(Frames)
    <3>1. CASE AckDue(n)
      <4>1. FromReceiver(r, up, [t |-> "ack", k |-> n]) BY <1>11, <3>1 DEF OnFileChunk, AckOf
      <4>2. [t |-> "ack", k |-> n] \in Frames BY <2>3, FrameFacts
      <4> QED BY <2>1, <4>1, <4>2, FromReceiverType
    <3>2. CASE ~AckDue(n)
      <4>1. DropFrame(r) /\ up' = up BY <1>11, <3>2 DEF OnFileChunk
      <4> QED BY <2>1, <4>1, DropType DEF FileTypeOK
    <3> QED BY <3>1, <3>2
  <2>7. recv' \in [Receivers -> {"none", "open", "written", "failed"}]
    <3>1. PICK fate \in {"open", "written", "failed"} : recv' = [recv EXCEPT ![r] = fate]
      BY <1>11 DEF OnFileChunk
    <3> QED BY <3>1 DEF FileTypeOK
  <2>8. UNCHANGED <<senderVars, damage>> BY <1>11 DEF OnFileChunk
  <2> QED BY <2>5, <2>6, <2>7, <2>8 DEF senderVars, FileTypeOK
<1>12. ASSUME NEW r \in Receivers, OnBadChunk(r) PROVE FileTypeOK'
  <2>1. down[r] # <<>> BY <1>12 DEF OnBadChunk, TakeFrame
  <2> QED BY <1>12, <2>1, FromReceiverType, FrameFacts DEF OnBadChunk, senderVars, FileTypeOK
<1>13. ASSUME NEW r \in Receivers, OnStrayFrame(r) PROVE FileTypeOK'
  <2>1. down[r] # <<>> BY <1>13 DEF OnStrayFrame, TakeFrame
  <2> QED BY <1>13, <2>1, DropType DEF OnStrayFrame, senderVars, FileTypeOK
<1>14. ASSUME NEW r \in Receivers, OnFileAbort(r) PROVE FileTypeOK'
  <2>1. down[r] # <<>> BY <1>14 DEF OnFileAbort, TakeFrame
  <2>2. down' \in [Receivers -> Seq(Frames)] BY <1>14, <2>1, DropType DEF OnFileAbort
  <2>3. recv' \in [Receivers -> {"none", "open", "written", "failed"}] BY <1>14 DEF OnFileAbort, FileTypeOK
  <2> QED BY <1>14, <2>2, <2>3 DEF OnFileAbort, senderVars, FileTypeOK
<1>15. CASE UNCHANGED fileVars BY <1>15 DEF fileVars, FileTypeOK
<1> QED BY <1>1, <1>2, <1>3, <1>4, <1>5, <1>6, <1>7, <1>8, <1>9, <1>10, <1>11, <1>12, <1>13, <1>14, <1>15
        DEF FileNext, SenderStep, ReceiverStep

\* Receivers only gain chunks, so what was backed stays backed.
LEMMA BackedStays ==
  ASSUME FileTypeOK, FileTypeOK', \A r \in Receivers : got[r] \subseteq got'[r]
  PROVE  Backed \subseteq Backed'
<1> SUFFICES ASSUME NEW k \in Backed PROVE k \in Backed' OBVIOUS
<1>0. k \in 0..Chunks BY DEF Backed
<1>1. CASE k = 0 BY <1>0, <1>1 DEF Backed
<1>2. CASE k # 0
  <2>1. PICK r \in Receivers : k <= Received(r) BY <1>2 DEF Backed
  <2>2. got[r] \subseteq Whole /\ got'[r] \subseteq Whole BY DEF FileTypeOK
  <2>3. /\ Cardinality(got[r]) \in 0..Chunks /\ Cardinality(got'[r]) \in 0..Chunks
        /\ Cardinality(got[r]) <= Cardinality(got'[r])
    BY <2>2, CountInWhole, CountGrows
  <2>4. k <= Cardinality(got'[r]) BY <1>0, <2>1, <2>3, ConstFacts DEF Received
  <2> QED BY <1>0, <2>4 DEF Backed, Received
<1> QED BY <1>1, <1>2

\* Every step keeps the invariant, lost, damaged and repeated chunks included.
LEMMA FileInvStep ==
  ASSUME FileTypeOK, FileTypeOK', FileInv, [FileNext]_fileVars
  PROVE  FileInv'
<1>1. \A r \in Receivers : got[r] \subseteq got'[r]
  <2>1. got' = got \/ \E r \in Receivers : OnFileChunk(r)
    BY DEF FileNext, SenderStep, ReceiverStep, fileVars, SendFile, RegisterSend, StreamChunk, WaitForReceiver,
           Stall, FlushDeadline, FileSent, SenderGone, OnSenderFrame, OnFileOffer, OnBadChunk,
           OnStrayFrame, OnFileAbort
  <2>2. ASSUME NEW r \in Receivers, OnFileChunk(r) PROVE \A s \in Receivers : got[s] \subseteq got'[s]
    BY <2>2 DEF OnFileChunk, FileTypeOK
  <2> QED BY <2>1, <2>2
<1>2. Backed \subseteq Backed' BY <1>1, BackedStays
\* The acknowledgements on the wire.
<1>3. ASSUME NEW f \in Frames, f.t = "ack" => f.k \in Backed',
             \A i \in 1..Len(up') : up'[i] = f \/ \E j \in 1..Len(up) : up'[i] = up[j]
      PROVE  \A i \in 1..Len(up') : up'[i].t = "ack" => up'[i].k \in Backed'
  <2> SUFFICES ASSUME NEW i \in 1..Len(up'), up'[i].t = "ack" PROVE up'[i].k \in Backed' OBVIOUS
  <2>1. CASE up'[i] = f BY <1>3, <2>1
  <2>2. ASSUME NEW j \in 1..Len(up), up'[i] = up[j] PROVE up'[i].k \in Backed'
    <3>1. up[j] \in Frames /\ up[j].t = "ack" BY <2>2 DEF FileTypeOK
    <3>3. up[j].k \in Backed BY <3>1 DEF FileInv, AcksBacked
    <3> QED BY <2>2, <3>3, <1>2
  <2> QED BY <1>3, <2>1, <2>2
<1>4. \A i \in 1..Len(up') : up'[i].t = "ack" => up'[i].k \in Backed'
  <2>1. ASSUME UNCHANGED up PROVE \A i \in 1..Len(up') : up'[i].t = "ack" => up'[i].k \in Backed'
    BY <1>3, <2>1, FrameFacts
  <2>2. ASSUME OnSenderFrame PROVE \A i \in 1..Len(up') : up'[i].t = "ack" => up'[i].k \in Backed'
    <3>1. \A i \in 1..Len(up') : i + 1 \in 1..Len(up) /\ up'[i] = up[i + 1]
      BY <2>2, TailKeeps DEF OnSenderFrame, FileTypeOK
    <3> QED BY <1>3, <3>1, FrameFacts
  <2>3. ASSUME NEW r \in Receivers, down[r] # <<>>, FromReceiver(r, up, [t |-> "abort"])
        PROVE  \A i \in 1..Len(up') : up'[i].t = "ack" => up'[i].k \in Backed'
    BY <1>3, <2>3, FromReceiverType, FrameFacts
  <2>4. ASSUME NEW r \in Receivers, OnFileChunk(r)
        PROVE  \A i \in 1..Len(up') : up'[i].t = "ack" => up'[i].k \in Backed'
    <3> DEFINE k == Head(down[r]).k
               n == Cardinality(got[r] \cup {k})
    <3>1. CASE AckDue(n)
      <4>1. FromReceiver(r, up, [t |-> "ack", k |-> n]) BY <2>4, <3>1 DEF OnFileChunk, AckOf
      <4>2. got'[r] = got[r] \cup {k} BY <2>4 DEF OnFileChunk, FileTypeOK
      <4>3. n \in 0..Chunks
        <5>1. got'[r] \subseteq Whole BY DEF FileTypeOK
        <5> QED BY <4>2, <5>1, CountInWhole
      <4>4. n \in Backed'
        <5>1. n = Cardinality(got'[r]) BY <4>2
        <5> HIDE DEF n
        <5> QED BY <4>3, <5>1, ConstFacts DEF Backed, Received
      <4>5. down[r] # <<>> BY <2>4 DEF OnFileChunk, TakeFrame
      <4> HIDE DEF n
      <4>6. [t |-> "ack", k |-> n] \in Frames BY <4>3, FrameFacts
      <4>7. \A i \in 1..Len(up') : up'[i] = [t |-> "ack", k |-> n] \/ \E j \in 1..Len(up) : up'[i] = up[j]
        BY <4>1, <4>5, <4>6, FromReceiverType
      <4> QED BY <4>4, <4>6, <4>7, <1>3
    <3>2. CASE ~AckDue(n)
      <4>1. up' = up BY <2>4, <3>2 DEF OnFileChunk
      <4> QED BY <4>1, <2>1
    <3> QED BY <3>1, <3>2
  <2>5. \/ up' = up \/ OnSenderFrame
        \/ \E r \in Receivers : OnFileChunk(r)
        \/ \E r \in Receivers : down[r] # <<>> /\ FromReceiver(r, up, [t |-> "abort"])
    BY DEF FileNext, SenderStep, ReceiverStep, fileVars, wireVars, SendFile, RegisterSend, StreamChunk, WaitForReceiver,
           Stall, FlushDeadline, FileSent, SenderGone, OnFileOffer, OnBadChunk,
           OnStrayFrame, OnFileAbort, TakeFrame
  <2> QED BY <2>1, <2>2, <2>3, <2>4, <2>5
\* The ones the read loop has routed to the sender, and the highest it went by.
<1>5. (\A i \in 1..Len(ackCh') : ackCh'[i] \in Backed') /\ (grace' \/ maxAck' \in Backed')
  <2>0. /\ \A i \in 1..Len(ackCh) : ackCh[i] \in Backed'
        /\ grace \/ maxAck \in Backed'
    BY <1>2 DEF FileInv, AcksBacked
  <2>1. CASE UNCHANGED <<ackCh, maxAck, grace>> BY <2>0, <2>1
  <2>2. CASE TakeAck /\ grace' = grace
    <3>1. /\ maxAck' = maxAck \/ maxAck' = ackCh[1]
          /\ \A i \in 1..Len(ackCh') : i + 1 \in 1..Len(ackCh) /\ ackCh'[i] = ackCh[i + 1]
          /\ Len(ackCh) > 0 /\ Len(ackCh) \in Nat
      BY <2>2, TakeAckType DEF FileTypeOK
    <3> QED BY <2>0, <2>2, <3>1
  <2>3. CASE FlushDeadline BY <2>0, <2>3 DEF FlushDeadline
  <2>4. CASE OnSenderFrame
    <3>1. CASE xpc = "stream" /\ Head(up).t = "ack" /\ Len(ackCh) < AckCap
      <4>1. Head(up) = up[1] /\ Head(up) \in Frames /\ Len(up) > 0 /\ Len(up) \in Nat
        BY <2>4, TailKeeps DEF OnSenderFrame, FileTypeOK
      <4>2. Head(up).k \in Backed /\ Head(up).k \in 0..Chunks
        BY <3>1, <4>1, FrameFacts DEF FileInv, AcksBacked
      <4>3. ackCh' = Append(ackCh, Head(up).k) BY <2>4, <3>1 DEF OnSenderFrame
      <4>4. \A i \in 1..Len(ackCh') : ackCh'[i] = Head(up).k \/ (i \in 1..Len(ackCh) /\ ackCh'[i] = ackCh[i])
        BY <4>2, <4>3 DEF FileTypeOK
      <4>5. Head(up).k \in Backed' BY <4>2, <1>2
      <4>6. \A i \in 1..Len(ackCh') : ackCh'[i] \in Backed'
        BY <4>4, <4>5, <2>0
      <4> QED BY <2>0, <2>4, <4>6 DEF OnSenderFrame
    <3>2. CASE ~(xpc = "stream" /\ Head(up).t = "ack" /\ Len(ackCh) < AckCap)
      BY <2>4, <3>2, <2>0 DEF OnSenderFrame
    <3> QED BY <3>1, <3>2
  <2>5. \/ UNCHANGED <<ackCh, maxAck, grace>> \/ FlushDeadline \/ OnSenderFrame
        \/ TakeAck /\ grace' = grace
    BY DEF FileNext, SenderStep, ReceiverStep, fileVars, wireVars, senderVars, SendFile, RegisterSend, StreamChunk,
           WaitForReceiver, Stall, FileSent, SenderGone, OnFileOffer, OnFileChunk, OnBadChunk,
           OnStrayFrame, OnFileAbort, TakeAbort
  <2> QED BY <2>1, <2>2, <2>3, <2>4, <2>5
<1>6. AcksBacked' BY <1>4, <1>5 DEF AcksBacked
\* The window.
<1>7. Paced'
  <2>1. PICK k \in Backed : sending <= FileWindow + k BY DEF FileInv, Paced
  <2>2. k \in Backed' BY <2>1, <1>2
  <2>3. CASE StreamChunk
    <3>1. sending' = sending + 1 /\ sending < Chunks /\ ~grace /\ ~grace' /\ xpc' # "sent"
      BY <2>3 DEF StreamChunk, FileInv, Paced, FileTypeOK, TakeAck, TakeAbort
    <3>2. maxAck \in Backed /\ maxAck \in 0..Chunks BY <3>1 DEF FileInv, AcksBacked, FileTypeOK
    <3>3. maxAck \in Backed' BY <3>2, <1>2
    <3>4. sending' <= FileWindow + maxAck BY <2>3, <3>1, ConstFacts DEF StreamChunk, FileTypeOK
    <3> QED BY <3>1, <3>3, <3>4 DEF Paced
  <2>4. CASE FlushDeadline
    BY <2>1, <2>2, <2>4 DEF FlushDeadline, Waiting, FileInv, Paced
  <2>5. CASE FileSent
    <3>1. maxAck = Chunks BY <2>5, ConstFacts DEF FileSent, FileTypeOK
    <3> QED BY <2>1, <2>2, <2>5, <3>1 DEF FileSent, FileInv, Paced
  <2>6. CASE UNCHANGED <<sending, grace>> /\ xpc' # "sent"
    BY <2>1, <2>2, <2>6 DEF FileInv, Paced
  <2>7. CASE UNCHANGED <<sending, grace, maxAck, xpc>>
    BY <2>1, <2>2, <2>7 DEF FileInv, Paced
  <2>8. \/ StreamChunk \/ FlushDeadline \/ FileSent
        \/ UNCHANGED <<sending, grace>> /\ xpc' # "sent"
        \/ UNCHANGED <<sending, grace, maxAck, xpc>>
    BY DEF FileNext, SenderStep, ReceiverStep, fileVars, wireVars, senderVars, SendFile, RegisterSend,
           WaitForReceiver, Waiting, Stall, SenderGone, OnSenderFrame, OnFileOffer, OnFileChunk, OnBadChunk,
           OnStrayFrame, OnFileAbort, TakeAbort, TakeAck
  <2> QED BY <2>3, <2>4, <2>5, <2>6, <2>7, <2>8
<1> QED BY <1>6, <1>7 DEF FileInv

\* A transfer begins with it.
LEMMA FileStart == FileInit => FileTypeOK /\ FileInv
<1> SUFFICES ASSUME FileInit PROVE FileTypeOK /\ FileInv OBVIOUS
<1>1. /\ ackCh \in Seq(0..Chunks) /\ Len(ackCh) = 0 /\ up \in Seq(Frames) /\ Len(up) = 0
      /\ down \in [Receivers -> Seq(Frames)]
  BY DEF FileInit
<1>2. FileTypeOK
  <2>1. sending \in 0..Chunks /\ maxAck \in 0..Chunks BY ConstFacts DEF FileInit
  <2>2. got \in [Receivers -> SUBSET Whole] /\ recv \in [Receivers -> {"none", "open", "written", "failed"}]
    BY DEF FileInit
  <2> QED BY <1>1, <2>1, <2>2 DEF FileInit, FileTypeOK
<1>3. 0 \in Backed BY ConstFacts DEF Backed
<1>4. AcksBacked BY <1>1, <1>3 DEF FileInit, AcksBacked
<1>5. Paced BY <1>3, ConstFacts DEF FileInit, Paced
<1> QED BY <1>2, <1>4, <1>5 DEF FileInv

\* The invariant says what AcksTrusted says.
LEMMA FileInvTrusted ==
  ASSUME FileTypeOK, FileInv
  PROVE  AcksTrusted
<1>1. WithinWindow
  <2> DEFINE S == {Received(r) : r \in Receivers} \cup {0}
  <2>1. S \subseteq 0..Chunks
    <3>1. \A r \in Receivers : Received(r) \in 0..Chunks
      BY CountInWhole DEF Received, FileTypeOK
    <3> QED BY <3>1, ConstFacts
  <2>2. Max(S) \in S /\ \A x \in S : x <= Max(S) BY <2>1, MaxIsMax, ConstFacts
  <2>3. PICK k \in Backed : sending <= FileWindow + k BY DEF FileInv, Paced
  <2>4. PICK x \in S : k <= x BY <2>3, ConstFacts DEF Backed
  <2>6. Max(S) \in 0..Chunks /\ x \in 0..Chunks /\ k \in 0..Chunks /\ x <= Max(S)
    BY <2>1, <2>2, <2>3 DEF Backed
  <2> HIDE DEF S
  <2>5. k <= Max(S) BY <2>4, <2>6, ConstFacts
  <2>7. sending <= FileWindow + Max(S) BY <2>3, <2>5, <2>6, ConstFacts DEF FileTypeOK
  <2> QED BY <2>7 DEF WithinWindow, S
<1>2. SentIsBacked
  <2> SUFFICES ASSUME xpc = "sent", ~grace PROVE \E r \in Receivers : got[r] = Whole
    BY DEF SentIsBacked
  <2>1. Chunks \in Backed BY DEF FileInv, AcksBacked, Paced
  <2>2. PICK r \in Receivers : Chunks <= Received(r) BY <2>1, ConstFacts DEF Backed
  <2>3. got[r] \subseteq Whole BY DEF FileTypeOK
  <2>4. Cardinality(got[r]) = Chunks BY <2>2, <2>3, CountInWhole, ConstFacts DEF Received
  <2> QED BY <2>3, <2>4, CountInWhole
<1> QED BY <1>1, <1>2 DEF AcksTrusted

\* A sender that believes a file arrived is right, and its window is never ahead of what some
\* receiver holds, for any number of chunks and receivers and any loss (file.go).
THEOREM FileAcksTrusted == FileSpec => []AcksTrusted
<1>1. FileInit => FileTypeOK /\ FileInv BY FileStart
<1>2. FileTypeOK /\ FileInv /\ [FileNext]_fileVars => (FileTypeOK /\ FileInv)'
  BY FileTypeStep, FileInvStep
<1>3. FileTypeOK /\ FileInv => AcksTrusted BY FileInvTrusted
<1> QED BY <1>1, <1>2, <1>3, PTL DEF FileSpec

------------------------------------------------------------------------------
(* The sneakernet room. *)

\* A sneakernet room on its own.
SneakerSpec == SneakerInit /\ [][SneakerNext]_sneakerVars

\* Where a member's connection is on the host, and what is on the wire.
Joined == {"welcome", "announce", "ask", "loop"}
CoFrames == {"welcome", "joined", "keyreq", "scuttle", "key", "msg", "left"} \X (Participants \cup {Nobody})
Typed == {"key", "msg", "scuttle"} \X (Participants \cup {Nobody})

\* What each variable of the room holds.
SneakerTypeOK ==
  /\ hostPc \in {"start", "browse", "hosting", "elsewhere"}
  /\ srv \in [Participants -> {"idle", "auth", "hello", "left", "gone"} \cup Joined]
  /\ live \subseteq Participants
  /\ order \in Seq(Participants)
  /\ toldFirst \subseteq Participants
  /\ asks \in [Participants -> Participants \cup {Nobody}]
  /\ outbox \in [Participants -> Seq(CoFrames)]
  /\ sends \in [Participants -> [to : SUBSET Participants, f : CoFrames \cup {<<>>}]]
  /\ \A p \in Participants : sends[p].to # {} => sends[p].f \in CoFrames
  /\ lines \in [Participants -> Seq(Typed)]
  /\ victims \subseteq Participants

\* join and leave keep a member in order exactly while its goroutine serves it.
OrderIsServed ==
  /\ \A i, j \in DOMAIN order : order[i] = order[j] => i = j
  /\ \A p \in Participants : p \in Present <=> srv[p] \in Joined
  /\ \A p \in toldFirst : srv[p] \notin {"idle", "auth", "hello"}
  /\ hostPc # "hosting" => srv[Host] = "idle"

\* A goroutine speaks for its own member only, and of its leaving last.
SendsItsOwn ==
  \A p \in Participants : sends[p].to # {} =>
    /\ srv[p] \in {"ask", "loop", "left"}
    /\ sends[p].f[2] = p \/ sends[p].f[1] = "scuttle"
    /\ sends[p].f[1] \in {"joined", "key", "msg", "scuttle", "left"}
    /\ sends[p].f[1] = "left" <=> srv[p] = "left"
\* Whose "left" is queued somewhere is no longer served.
Departed(s) == \A i \in 1..Len(s) : s[i][1] = "left" => s[i][2] \in Participants /\ srv[s[i][2]] \in {"left", "gone"}
\* Every notice of leaving that waits in an outbox is about somebody who has left.
LeftHaveLeft == \A r \in Participants : Departed(outbox[r])

\* The inductive invariant of a room.
SneakerInv == OrderIsServed /\ SendsItsOwn /\ LeftHaveLeft /\ RoomAgrees

\* A frame put in an outbox.
LEMMA SendType ==
  ASSUME SneakerTypeOK, NEW q, NEW f \in CoFrames
  PROVE  Send(outbox, q, f) \in [Participants -> Seq(CoFrames)]
<1>1. CASE q \in live /\ Len(outbox[q]) < OutCap
  <2>1. Append(outbox[q], f) \in Seq(CoFrames) BY <1>1 DEF SneakerTypeOK
  <2> QED BY <1>1, <2>1 DEF SneakerTypeOK, Send
<1>2. CASE ~(q \in live /\ Len(outbox[q]) < OutCap) BY <1>2 DEF SneakerTypeOK, Send
<1> QED BY <1>1, <1>2

\* A connection that ends.
LEMMA HangupType ==
  ASSUME SneakerTypeOK, NEW p \in Participants, Hangup(p)
  PROVE  live' \subseteq Participants /\ outbox' \in [Participants -> Seq(CoFrames)]
BY DEF SneakerTypeOK, Hangup

\* A frame that is about to go to several members.
LEMMA CastType ==
  ASSUME SneakerTypeOK, NEW p \in Participants, NEW to \in SUBSET Participants, NEW f \in CoFrames, Cast(p, to, f)
  PROVE  /\ sends' \in [Participants -> [to : SUBSET Participants, f : CoFrames \cup {<<>>}]]
         /\ \A q \in Participants : sends'[q].to # {} => sends'[q].f \in CoFrames
         /\ \A q \in Participants : sends'[q] = IF q = p THEN [to |-> to, f |-> f] ELSE sends[q]
BY DEF SneakerTypeOK, Cast

\* Which frames there are.
LEMMA FrameShapes ==
  /\ \A p \in Participants \cup {Nobody} :
       \A k \in {"welcome", "joined", "keyreq", "scuttle", "key", "msg", "left"} : <<k, p>> \in CoFrames
  /\ \A p \in Participants \cup {Nobody} : \A k \in {"key", "msg", "scuttle"} : <<k, p>> \in Typed
BY DEF CoFrames, Typed

\* leave takes the one entry of the member out and keeps the others in order.
LEMMA LeaveOrder ==
  ASSUME SneakerTypeOK, OrderIsServed, NEW m \in 1..Len(order)
  PROVE  LET s == RemoveFirst(order, order[m])
         IN  /\ s \in Seq(Participants) /\ Len(s) = Len(order) - 1
             /\ \A i \in 1..Len(s) : s[i] = IF i < m THEN order[i] ELSE order[i + 1]
<1> DEFINE s == RemoveFirst(order, order[m])
           I == {i \in 1..Len(order) : order[i] = order[m]}
<1>0. order \in Seq(Participants) /\ Len(order) \in Nat /\ DOMAIN order = 1..Len(order) BY DEF SneakerTypeOK
<1>1. I = {m} BY <1>0 DEF OrderIsServed
<1>2. Min(I) = m
  <2>1. m \in I /\ \A y \in I : m <= y BY <1>0, <1>1
  <2>2. Min(I) \in I BY <2>1 DEF Min
  <2> QED BY <2>2, <1>1
<1>3. s = RemoveAt(order, m)
  <2>1. s = RemoveAt(order, SelectInSeq(order, LAMBDA v : v = order[m])) BY DEF RemoveFirst
  <2>2. SelectInSeq(order, LAMBDA v : v = order[m]) = m BY <1>1, <1>2 DEF SelectInSeq
  <2> QED BY <2>1, <2>2
<1> DEFINE a == SubSeq(order, 1, m - 1)
           b == SubSeq(order, m + 1, Len(order))
<1>4. /\ a \in Seq(Participants) /\ Len(a) = m - 1 /\ \A i \in 1..(m - 1) : a[i] = order[i]
  BY <1>0
<1>5. /\ b \in Seq(Participants) /\ Len(b) = Len(order) - m
      /\ \A i \in 1..(Len(order) - m) : b[i] = order[i + m]
  <2>1. /\ b \in Seq(Participants)
        /\ Len(b) = IF m + 1 <= Len(order) THEN Len(order) - (m + 1) + 1 ELSE 0
        /\ \A i \in 1..(Len(order) - (m + 1) + 1) : b[i] = order[m + 1 + i - 1]
    <3>1. \A i \in (m + 1)..Len(order) : order[i] \in Participants BY <1>0
    <3> QED BY <1>0, <3>1, SubSeqProperties
  <2> HIDE DEF b
  <2>5. \A n \in Nat : \A k \in 1..n : /\ n - (k + 1) + 1 = n - k
                                       /\ (IF k + 1 <= n THEN n - (k + 1) + 1 ELSE 0) = n - k
    OBVIOUS
  <2>4. Len(order) - (m + 1) + 1 = Len(order) - m BY <1>0, <2>5
  <2>2. Len(b) = Len(order) - m BY <1>0, <2>1, <2>5
  <2>3. \A i \in 1..(Len(order) - m) : m + 1 + i - 1 = i + m BY <1>0
  <2> QED BY <2>1, <2>2, <2>3, <2>4
<1>6. s = a \o b BY <1>3 DEF RemoveAt
<1> HIDE DEF a, b, s
<1>9. /\ s \in Seq(Participants) /\ Len(s) = Len(a) + Len(b)
      /\ \A i \in 1..(Len(a) + Len(b)) : s[i] = IF i <= Len(a) THEN a[i] ELSE b[i - Len(a)]
  BY <1>4, <1>5, <1>6, ConcatProperties
<1>7. s \in Seq(Participants) /\ Len(s) = Len(order) - 1 BY <1>0, <1>4, <1>5, <1>9
<1>8. ASSUME NEW i \in 1..Len(s) PROVE s[i] = IF i < m THEN order[i] ELSE order[i + 1]
  <2>1. s[i] = IF i <= Len(a) THEN a[i] ELSE b[i - Len(a)] BY <1>9
  <2>2. CASE i < m BY <2>1, <2>2, <1>0, <1>4
  <2>3. CASE ~(i < m)
    <3>1. i - Len(a) \in 1..(Len(order) - m) BY <2>3, <1>0, <1>4, <1>7
    <3>2. b[i - Len(a)] = order[i - Len(a) + m] BY <3>1, <1>5
    <3>3. i - Len(a) + m = i + 1 BY <1>0, <1>4, <1>7
    <3> QED BY <2>1, <2>3, <3>2, <3>3, <1>0, <1>4, <1>7
  <2> QED BY <2>2, <2>3
<1> QED BY <1>7, <1>8 DEF s

\* Every step keeps the types.
LEMMA SneakerTypeStep ==
  ASSUME SneakerTypeOK, OrderIsServed, [SneakerNext]_sneakerVars
  PROVE  SneakerTypeOK'
<1> USE DEF Joined
<1>0. Present \subseteq Participants BY DEF Present, Range, SneakerTypeOK
<1>1. CASE Listen BY <1>1 DEF Listen, burnVars, SneakerTypeOK, coVars
<1>2. CASE HostHere BY <1>2 DEF HostHere, burnVars, SneakerTypeOK, coVars, Participants
<1>3. CASE PairElsewhere BY <1>0, <1>3 DEF PairElsewhere, SneakerTypeOK, coVars
<1>4. CASE CloseSnapshot BY <1>0, <1>4 DEF CloseSnapshot, SneakerTypeOK, coVars
<1>5. CASE CloseMember
  <2>1. CASE UNCHANGED <<live, outbox>> BY <1>5, <2>1 DEF CloseMember, SneakerTypeOK
  <2>2. ASSUME NEW p \in victims, Hangup(p), victims' = victims \ {p} PROVE SneakerTypeOK'
    <3>1. live' \subseteq Participants /\ outbox' \in [Participants -> Seq(CoFrames)]
      BY <2>2, HangupType DEF SneakerTypeOK
    <3> QED BY <1>5, <2>2, <3>1 DEF CloseMember, SneakerTypeOK
  <2> QED BY <1>5, <2>1, <2>2 DEF CloseMember
<1>6. ASSUME NEW p \in Peers, RunJoin(p) \/ JoinPeer(p) PROVE SneakerTypeOK'
  <2>1. Connects(p) \/ GivesUp(p) BY <1>6 DEF RunJoin, JoinPeer
  <2>2. UNCHANGED <<hostPc, coVars, lines, victims>> BY <1>6 DEF RunJoin, JoinPeer, burnVars
  <2>3. p \in Participants BY DEF Participants
  <2> QED BY <2>1, <2>2, <2>3 DEF Connects, GivesUp, SneakerTypeOK, coVars
<1>7. ASSUME NEW p \in Participants, Authenticate(p) PROVE SneakerTypeOK'
  BY <1>7 DEF Authenticate, burnVars, SneakerTypeOK, coVars
<1>8. ASSUME NEW p \in Participants, CoJoin(p) PROVE SneakerTypeOK'
  <2>1. order' \in Seq(Participants) BY <1>8 DEF CoJoin, burnVars, SneakerTypeOK
  <2>2. toldFirst' \subseteq Participants BY <1>8 DEF CoJoin, burnVars, SneakerTypeOK
  <2>3. asks' \in [Participants -> Participants \cup {Nobody}]
    <3>1. order # <<>> => Head(order) \in Participants BY DEF SneakerTypeOK
    <3>2. (IF order = <<>> THEN Nobody ELSE Head(order)) \in Participants \cup {Nobody} BY <3>1
    <3> QED BY <1>8, <3>2 DEF CoJoin, burnVars, SneakerTypeOK
  <2> QED BY <1>8, <2>1, <2>2, <2>3 DEF CoJoin, burnVars, SneakerTypeOK
<1>9. ASSUME NEW p \in Participants, HelloRefused(p) PROVE SneakerTypeOK'
  BY <1>9 DEF HelloRefused, burnVars, SneakerTypeOK, coVars
<1>10. ASSUME NEW p \in Participants, CoWelcome(p) PROVE SneakerTypeOK'
  <2>1. outbox' \in [Participants -> Seq(CoFrames)]
    BY <1>10, SendType, FrameShapes DEF CoWelcome
  <2> QED BY <1>10, <2>1 DEF CoWelcome, burnVars, SneakerTypeOK
<1>11. ASSUME NEW p \in Participants, CoAnnounce(p) PROVE SneakerTypeOK'
  <2>1. sends' \in [Participants -> [to : SUBSET Participants, f : CoFrames \cup {<<>>}]] /\ \A q \in Participants : sends'[q].to # {} => sends'[q].f \in CoFrames
    BY <1>0, <1>11, CastType, FrameShapes DEF CoAnnounce
  <2> QED BY <1>11, <2>1 DEF CoAnnounce, burnVars, SneakerTypeOK
<1>12. ASSUME NEW p \in Participants, CoAskKey(p) PROVE SneakerTypeOK'
  <2>1. outbox' \in [Participants -> Seq(CoFrames)]
    <3>1. CASE asks[p] = Nobody BY <1>12, <3>1 DEF CoAskKey, burnVars, SneakerTypeOK
    <3>2. CASE asks[p] # Nobody BY <1>12, <3>2, SendType, FrameShapes DEF CoAskKey
    <3> QED BY <3>1, <3>2
  <2> QED BY <1>12, <2>1 DEF CoAskKey, burnVars, SneakerTypeOK
<1>13. ASSUME NEW p \in Participants, SendOne(p) PROVE SneakerTypeOK'
  <2>1. PICK r \in sends[p].to : /\ outbox' = Send(outbox, r, sends[p].f)
                                 /\ Cast(p, sends[p].to \ {r}, sends[p].f)
    BY <1>13 DEF SendOne
  <2>2. sends[p].f \in CoFrames /\ sends[p].to \ {r} \in SUBSET Participants BY <2>1 DEF SneakerTypeOK
  <2>3. /\ sends' \in [Participants -> [to : SUBSET Participants, f : CoFrames \cup {<<>>}]]
        /\ \A q \in Participants : sends'[q].to # {} => sends'[q].f \in CoFrames
    BY <2>1, <2>2, CastType
  <2>4. outbox' \in [Participants -> Seq(CoFrames)] BY <2>1, <2>2, SendType
  <2> QED BY <1>13, <2>3, <2>4 DEF SendOne, burnVars, SneakerTypeOK
<1>14. ASSUME NEW p \in Participants, Route(p) PROVE SneakerTypeOK'
  <2> DEFINE f == Head(lines[p])
  <2>1. lines[p] # <<>> /\ lines[p] \in Seq(Typed) BY <1>14 DEF Route, RouteFrame, SneakerTypeOK
  <2>2. f \in Typed /\ Tail(lines[p]) \in Seq(Typed) BY <2>1
  <2>3. lines' \in [Participants -> Seq(Typed)] BY <1>14, <2>2 DEF Route, RouteFrame, SneakerTypeOK
  <2>4. \E to \in SUBSET Participants : \E g \in CoFrames : Cast(p, to, g)
    <3>1. Present \subseteq Participants /\ Present \ {p} \subseteq Participants /\ {f[2]} \cap Present \subseteq Participants
      BY <1>0
    <3>2. \/ Cast(p, Present, <<"scuttle", Nobody>>)
          \/ Cast(p, {f[2]} \cap Present, <<"key", p>>)
          \/ Cast(p, Present \ {p}, <<"msg", p>>)
      BY <1>14 DEF Route, RouteFrame
    <3>3. <<"scuttle", Nobody>> \in CoFrames /\ <<"key", p>> \in CoFrames /\ <<"msg", p>> \in CoFrames
      BY FrameShapes
    <3> HIDE DEF f
    <3> QED BY <3>1, <3>2, <3>3
  <2>5. /\ sends' \in [Participants -> [to : SUBSET Participants, f : CoFrames \cup {<<>>}]]
        /\ \A q \in Participants : sends'[q].to # {} => sends'[q].f \in CoFrames
    BY <2>4, CastType
  <2> QED BY <1>14, <2>3, <2>5 DEF Route, RouteFrame, SneakerTypeOK
<1>15. ASSUME NEW p \in Participants, CoLeave(p) PROVE SneakerTypeOK'
  <2>1. PICK m \in 1..Len(order) : order[m] = p
    BY <1>15 DEF CoLeave, OrderIsServed, Present, Range, SneakerTypeOK
  <2>2. order' \in Seq(Participants) BY <1>15, <2>1, LeaveOrder DEF CoLeave
  <2>3. /\ sends' \in [Participants -> [to : SUBSET Participants, f : CoFrames \cup {<<>>}]]
        /\ \A q \in Participants : sends'[q].to # {} => sends'[q].f \in CoFrames
    BY <1>0, <1>15, CastType, FrameShapes DEF CoLeave
  <2> QED BY <1>15, <2>2, <2>3 DEF CoLeave, burnVars, SneakerTypeOK
<1>16. ASSUME NEW p \in Participants, ServeEnds(p) PROVE SneakerTypeOK'
  BY <1>16 DEF ServeEnds, burnVars, SneakerTypeOK, coVars
<1>17. ASSUME NEW p \in Participants, Receive(p) PROVE SneakerTypeOK'
  <2> DEFINE f == Head(outbox[p])
  <2>1. outbox[p] # <<>> /\ outbox[p] \in Seq(CoFrames) BY <1>17 DEF Receive, SneakerTypeOK
  <2>2. f \in CoFrames /\ Tail(outbox[p]) \in Seq(CoFrames) BY <2>1
  <2>3. outbox' \in [Participants -> Seq(CoFrames)] BY <1>17, <2>2 DEF Receive, SneakerTypeOK
  <2>4. lines' \in [Participants -> Seq(Typed)]
    <3>1. CASE UNCHANGED lines BY <3>1 DEF SneakerTypeOK
    <3>2. CASE lines' = [lines EXCEPT ![p] = Append(@, <<"key", f[2]>>)]
      <4>1. <<"key", f[2]>> \in Typed BY <2>2 DEF CoFrames, Typed
      <4> HIDE DEF f
      <4>2. Append(lines[p], <<"key", f[2]>>) \in Seq(Typed) BY <4>1 DEF SneakerTypeOK
      <4> QED BY <3>2, <4>2 DEF SneakerTypeOK
    <3> QED BY <1>17, <3>1, <3>2 DEF Receive
  <2> QED BY <1>17, <2>3, <2>4 DEF Receive, SneakerTypeOK, burnVars
<1>18. ASSUME NEW p \in Participants, Type(p) PROVE SneakerTypeOK'
  <2>1. PICK c \in {"msg", "scuttle"} : lines' = [lines EXCEPT ![p] = Append(@, <<c, p>>)]
    BY <1>18 DEF Type
  <2>4. <<c, p>> \in Typed BY <2>1, FrameShapes
  <2>2. Append(lines[p], <<c, p>>) \in Seq(Typed) BY <2>4 DEF SneakerTypeOK
  <2>3. lines' \in [Participants -> Seq(Typed)] BY <2>1, <2>2 DEF SneakerTypeOK
  <2> QED BY <1>18, <2>3 DEF Type, SneakerTypeOK, coVars, burnVars
<1>19. ASSUME NEW p \in Participants, Quit(p) PROVE SneakerTypeOK'
  BY <1>19, HangupType DEF Quit, SneakerTypeOK, burnVars
<1>20. CASE UNCHANGED sneakerVars BY <1>20 DEF sneakerVars, coVars, burnVars, SneakerTypeOK
<1> QED BY <1>1, <1>2, <1>3, <1>4, <1>5, <1>6, <1>7, <1>8, <1>9, <1>10, <1>11, <1>12, <1>13, <1>14, <1>15,
           <1>16, <1>17, <1>18, <1>19, <1>20
        DEF SneakerNext, Serve

\* In what is queued for one member, nothing of somebody stands behind its "left".
LastWord(s) ==
  \A i, j \in 1..Len(s) :
    (s[i][1] = "left" /\ s[j][1] \in {"msg", "key", "joined"} /\ s[i][2] = s[j][2]) => j < i

\* LeftIsLast, outbox by outbox.
LEMMA LeftIsLastWord ==
  ASSUME SneakerTypeOK
  PROVE  LeftIsLast <=> \A r \in Participants : LastWord(outbox[r])
<1>1. \A r \in Participants : DOMAIN outbox[r] = 1..Len(outbox[r]) BY DEF SneakerTypeOK
<1> QED BY <1>1 DEF LeftIsLast, LastWord

\* A frame may follow a notice of leaving when it is not of the member that left.
LEMMA LastWordAppend ==
  ASSUME NEW s \in Seq(CoFrames), NEW f \in CoFrames, LastWord(s),
         f[1] \in {"msg", "key", "joined"} => \A i \in 1..Len(s) : s[i][1] = "left" => s[i][2] # f[2]
  PROVE  LastWord(Append(s, f))
<1> DEFINE t == Append(s, f)
<1>1. Len(s) \in Nat /\ Len(t) = Len(s) + 1 /\ t[Len(t)] = f /\ \A i \in 1..Len(s) : t[i] = s[i]
  OBVIOUS
<1> HIDE DEF t
<1> SUFFICES ASSUME NEW i \in 1..Len(t), NEW j \in 1..Len(t), t[i][1] = "left",
                    t[j][1] \in {"msg", "key", "joined"}, t[i][2] = t[j][2]
             PROVE  j < i
  BY DEF LastWord, t
<1>2. CASE i = Len(t)
  <2>1. j # i BY <1>1
  <2> QED BY <1>1, <1>2, <2>1
<1>3. CASE i # Len(t) /\ j = Len(t) BY <1>1, <1>3
<1>4. CASE i # Len(t) /\ j # Len(t) BY <1>1, <1>4 DEF LastWord
<1> QED BY <1>2, <1>3, <1>4

\* Delivering the oldest frame.
LEMMA LastWordTail ==
  ASSUME NEW s \in Seq(CoFrames), s # <<>>, LastWord(s)
  PROVE  LastWord(Tail(s))
<1> DEFINE t == Tail(s)
<1>1. Len(s) \in Nat /\ Len(t) = Len(s) - 1 /\ \A i \in 1..Len(t) : t[i] = s[i + 1] /\ i + 1 \in 1..Len(s)
  OBVIOUS
<1> HIDE DEF t
<1>2. LastWord(t)
  <2> SUFFICES ASSUME NEW i \in 1..Len(t), NEW j \in 1..Len(t), t[i][1] = "left",
                      t[j][1] \in {"msg", "key", "joined"}, t[i][2] = t[j][2]
               PROVE  j < i
    BY DEF LastWord
  <2>1. j + 1 < i + 1 BY <1>1 DEF LastWord
  <2> QED BY <2>1, <1>1
<1> QED BY <1>2 DEF t

\* A step of one goroutine that neither joins nor leaves.
LEMMA ServedMoves ==
  ASSUME SneakerTypeOK, OrderIsServed, OneMinter, UNCHANGED <<order, toldFirst>>,
         NEW p \in Participants, NEW w \in {"idle", "auth", "hello", "left", "gone"} \cup Joined,
         srv' = [srv EXCEPT ![p] = w],
         srv[p] \in Joined <=> w \in Joined,
         w \in {"idle", "auth", "hello"} => srv[p] \in {"idle", "auth", "hello"},
         hostPc' # "hosting" => hostPc # "hosting" /\ p # Host
  PROVE  OrderIsServed' /\ OneMinter'
<1>1. \A q \in Participants : srv'[q] = IF q = p THEN w ELSE srv[q] BY DEF SneakerTypeOK
<1>2. Present' = Present BY DEF Present
<1>3. Host \in Participants BY DEF Participants
<1>4. \A q \in Participants : q \in Present' <=> srv'[q] \in Joined BY <1>1, <1>2 DEF OrderIsServed
<1>5. \A q \in toldFirst' : srv'[q] \notin {"idle", "auth", "hello"} BY <1>1 DEF OrderIsServed, SneakerTypeOK
<1>6. hostPc' # "hosting" => srv'[Host] = "idle" BY <1>1, <1>3 DEF OrderIsServed
<1>7. OneMinter' BY DEF OneMinter
<1> QED BY <1>4, <1>5, <1>6, <1>7 DEF OrderIsServed

\* Every step keeps the roll of the members in order, and only the eldest mints.
LEMMA ServedStep ==
  ASSUME SneakerTypeOK, OrderIsServed, OneMinter, [SneakerNext]_sneakerVars
  PROVE  OrderIsServed' /\ OneMinter'
<1>0. Host \in Participants /\ Peers \subseteq Participants /\ Host \notin Peers BY SneakerAssumption DEF Participants
<1>1. ASSUME UNCHANGED <<order, toldFirst, srv>>, hostPc' # "hosting" => hostPc # "hosting"
      PROVE  OrderIsServed' /\ OneMinter'
  BY <1>1 DEF OrderIsServed, OneMinter, Present
<1>2. CASE HostHere
  BY <1>2, <1>0, ServedMoves DEF HostHere, coVars, OrderIsServed, Joined
<1>3. ASSUME NEW p \in Peers, RunJoin(p) \/ JoinPeer(p) PROVE OrderIsServed' /\ OneMinter'
  <2>1. srv[p] = "idle" /\ UNCHANGED <<hostPc, coVars>> /\ (Connects(p) \/ GivesUp(p))
    BY <1>3 DEF RunJoin, JoinPeer
  <2>2. p \in Participants /\ p # Host BY <1>0
  <2>3. CASE Connects(p) BY <2>1, <2>2, <2>3, ServedMoves DEF Connects, coVars, Joined
  <2>4. CASE GivesUp(p) BY <2>1, <2>2, <2>4, ServedMoves DEF GivesUp, coVars, Joined
  <2> QED BY <2>1, <2>3, <2>4
<1>4. ASSUME NEW p \in Participants, Authenticate(p) \/ HelloRefused(p) \/ CoWelcome(p) \/ CoAnnounce(p) \/ CoAskKey(p) \/ ServeEnds(p)
      PROVE  OrderIsServed' /\ OneMinter'
  <2>1. hostPc' = hostPc /\ srv[p] # "idle" /\ UNCHANGED <<order, toldFirst>>
    BY <1>4 DEF Authenticate, HelloRefused, CoWelcome, CoAnnounce, CoAskKey, ServeEnds, coVars
  <2>2. hostPc' # "hosting" => hostPc # "hosting" /\ p # Host BY <2>1 DEF OrderIsServed
  <2>3. PICK w \in {"hello", "gone", "announce", "ask", "loop"} :
          /\ srv' = [srv EXCEPT ![p] = w]
          /\ srv[p] \in Joined <=> w \in Joined
          /\ w = "hello" => srv[p] = "auth"
    BY <1>4 DEF Authenticate, HelloRefused, CoWelcome, CoAnnounce, CoAskKey, ServeEnds, Joined
  <2> QED BY <2>1, <2>2, <2>3, ServedMoves DEF Joined
<1>5. ASSUME NEW p \in Participants, CoJoin(p) PROVE OrderIsServed' /\ OneMinter'
  <2>0. order \in Seq(Participants) /\ Len(order) \in Nat /\ DOMAIN order = 1..Len(order) BY DEF SneakerTypeOK
  <2>1. p \notin Present /\ p \notin toldFirst BY <1>5 DEF CoJoin, OrderIsServed, Joined
  <2>2. /\ Len(order') = Len(order) + 1 /\ order'[Len(order) + 1] = p
        /\ \A i \in 1..Len(order) : order'[i] = order[i]
        /\ DOMAIN order' = 1..(Len(order) + 1)
    BY <2>0, <1>5 DEF CoJoin
  <2>3. \A i \in 1..Len(order) : order[i] # p BY <2>0, <2>1 DEF Present, Range
  <2>4. \A i, j \in DOMAIN order' : order'[i] = order'[j] => i = j
    BY <2>0, <2>2, <2>3 DEF OrderIsServed
  <2>5. Present' = Present \cup {p} BY <2>0, <2>2 DEF Present, Range
  <2>6. \A q \in Participants : srv'[q] = IF q = p THEN "welcome" ELSE srv[q]
    BY <1>5 DEF CoJoin, SneakerTypeOK
  <2>7. \A q \in Participants : q \in Present' <=> srv'[q] \in Joined
    BY <2>5, <2>6 DEF OrderIsServed, Joined
  <2>8. toldFirst' \subseteq toldFirst \cup {p} /\ (order # <<>> => toldFirst' = toldFirst)
    BY <1>5 DEF CoJoin
  <2>9. \A q \in toldFirst' : srv'[q] \notin {"idle", "auth", "hello"}
    BY <2>6, <2>8 DEF OrderIsServed, SneakerTypeOK
  <2>10. hostPc' # "hosting" => srv'[Host] = "idle"
    BY <1>0, <1>5, <2>6 DEF CoJoin, OrderIsServed
  <2>11. OneMinter'
    <3> SUFFICES ASSUME NEW i \in 1..(Len(order) + 1), order'[i] \in toldFirst' PROVE i = 1
      BY <2>2 DEF OneMinter
    <3>1. CASE order = <<>> BY <3>1, <2>0
    <3>2. CASE order # <<>>
      <4>1. toldFirst' = toldFirst BY <2>8, <3>2
      <4>2. i # Len(order) + 1 BY <4>1, <2>1, <2>2
      <4>3. i \in 1..Len(order) BY <4>2, <2>0
      <4> QED BY <4>1, <4>3, <2>0, <2>2 DEF OneMinter
    <3> QED BY <3>1, <3>2
  <2> QED BY <2>4, <2>7, <2>9, <2>10, <2>11 DEF OrderIsServed
<1>6. ASSUME NEW p \in Participants, CoLeave(p) PROVE OrderIsServed' /\ OneMinter'
  <2>0. order \in Seq(Participants) /\ Len(order) \in Nat /\ DOMAIN order = 1..Len(order) BY DEF SneakerTypeOK
  <2>1. PICK m \in 1..Len(order) : order[m] = p
    BY <2>0, <1>6 DEF CoLeave, OrderIsServed, Present, Range, Joined
  <2>2. /\ order' \in Seq(Participants) /\ Len(order') = Len(order) - 1
        /\ \A i \in 1..Len(order') : order'[i] = IF i < m THEN order[i] ELSE order[i + 1]
    BY <1>6, <2>1, LeaveOrder DEF CoLeave
  <2>3. DOMAIN order' = 1..(Len(order) - 1) BY <2>2
  <2>4. \A i, j \in DOMAIN order' : order'[i] = order'[j] => i = j
    BY SMTT(30), <2>0, <2>2, <2>3 DEF OrderIsServed
  <2>5. Present' = Present \ {p}
    <3>1. ASSUME NEW i \in DOMAIN order' PROVE order'[i] \in Present \ {p}
      <4>1. PICK j \in 1..Len(order) : j # m /\ order'[i] = order[j]
        <5>1. CASE i < m BY <5>1, <3>1, <2>0, <2>2, <2>3
        <5>2. CASE i >= m
          <6>1. i + 1 \in 1..Len(order) /\ i + 1 # m /\ order'[i] = order[i + 1] BY <5>2, <3>1, <2>0, <2>2, <2>3
          <6> QED BY <6>1
        <5> QED BY <5>1, <5>2, <3>1, <2>0, <2>3
      <4>2. order[j] # p BY <2>0, <2>1, <4>1 DEF OrderIsServed
      <4> QED BY <4>1, <4>2, <2>0 DEF Present, Range
    <3>2. ASSUME NEW i \in DOMAIN order, order[i] # p PROVE order[i] \in Present'
      <4>1. CASE i < m
        <5>1. i \in DOMAIN order' /\ order'[i] = order[i] BY <4>1, <2>0, <2>2, <2>3
        <5> QED BY <5>1 DEF Present, Range
      <4>2. CASE i > m
        <5>1. i - 1 \in DOMAIN order' /\ order'[i - 1] = order[i] BY <4>2, <2>0, <2>2, <2>3
        <5> QED BY <5>1 DEF Present, Range
      <4> QED BY <3>2, <4>1, <4>2, <2>0, <2>1
    <3> QED BY <3>1, <3>2 DEF Present, Range
  <2>6. \A q \in Participants : srv'[q] = IF q = p THEN "left" ELSE srv[q]
    BY <1>6 DEF CoLeave, SneakerTypeOK
  <2>7. \A q \in Participants : q \in Present' <=> srv'[q] \in Joined
    BY <2>5, <2>6 DEF OrderIsServed, Joined
  <2>8. \A q \in toldFirst' : srv'[q] \notin {"idle", "auth", "hello"}
    BY <1>6, <2>6 DEF OrderIsServed, SneakerTypeOK, CoLeave
  <2>9. hostPc' # "hosting" => srv'[Host] = "idle"
    BY <1>0, <1>6, <2>6 DEF CoLeave, OrderIsServed
  <2>10. OneMinter'
    <3> SUFFICES ASSUME NEW i \in 1..(Len(order) - 1), order'[i] \in toldFirst PROVE i = 1
      BY <1>6, <2>3 DEF OneMinter, CoLeave
    <3>1. CASE i < m BY <3>1, <2>0, <2>2 DEF OneMinter
    <3>2. CASE ~(i < m) BY <3>2, <2>0, <2>2 DEF OneMinter
    <3> QED BY <3>1, <3>2
  <2> QED BY <2>4, <2>7, <2>8, <2>9, <2>10 DEF OrderIsServed
<1>7. ASSUME NEW p \in Participants, SendOne(p) \/ Route(p) \/ Receive(p) \/ Type(p) \/ Quit(p)
      PROVE  OrderIsServed' /\ OneMinter'
  BY <1>7, <1>1 DEF SendOne, Route, RouteFrame, Receive, Type, Quit, coVars
<1>8. CASE Listen \/ PairElsewhere \/ CloseSnapshot \/ CloseMember \/ UNCHANGED sneakerVars
  BY <1>8, <1>1 DEF Listen, PairElsewhere, CloseSnapshot, CloseMember, sneakerVars, coVars
<1> QED BY <1>2, <1>3, <1>4, <1>5, <1>6, <1>7, <1>8 DEF SneakerNext, Serve

\* Frames queued with send: who speaks is still there.
LEMMA SendSpeaks ==
  ASSUME SneakerTypeOK, LeftHaveLeft, LeftIsLast, SneakerTypeOK',
         NEW q, NEW f \in CoFrames, outbox' = Send(outbox, q, f),
         \A p \in Participants : srv[p] \in {"left", "gone"} => srv'[p] \in {"left", "gone"},
         f[1] \in {"msg", "key", "joined"} => srv[f[2]] \notin {"left", "gone"},
         f[1] = "left" => f[2] \in Participants /\ srv[f[2]] \in {"left", "gone"}
  PROVE  LeftHaveLeft' /\ LeftIsLast'
<1>1. CASE outbox' = outbox
  BY <1>1 DEF LeftHaveLeft, Departed, LeftIsLast
<1>2. CASE q \in live /\ outbox' = [outbox EXCEPT ![q] = Append(@, f)]
  <2>0. q \in Participants BY <1>2 DEF SneakerTypeOK
  <2>1. outbox'[q] = Append(outbox[q], f) /\ \A r \in Participants \ {q} : outbox'[r] = outbox[r]
    BY <1>2, <2>0 DEF SneakerTypeOK
  <2>2. outbox[q] \in Seq(CoFrames) /\ Departed(outbox[q]) /\ LastWord(outbox[q])
    BY <2>0, LeftIsLastWord DEF SneakerTypeOK, LeftHaveLeft
  <2>3. LastWord(outbox'[q])
    <3>1. f[1] \in {"msg", "key", "joined"} =>
            \A i \in 1..Len(outbox[q]) : outbox[q][i][1] = "left" => outbox[q][i][2] # f[2]
      BY <2>2 DEF Departed
    <3> QED BY <2>1, <2>2, <3>1, LastWordAppend
  <2>4. \A i \in 1..Len(outbox'[q]) : outbox'[q][i] = f \/ (i \in 1..Len(outbox[q]) /\ outbox'[q][i] = outbox[q][i])
    BY <2>1, <2>2
  <2>5. \A i \in 1..Len(outbox'[q]) :
          outbox'[q][i][1] = "left" => outbox'[q][i][2] \in Participants /\ srv'[outbox'[q][i][2]] \in {"left", "gone"}
    BY <2>2, <2>4 DEF Departed
  <2>6. LeftHaveLeft'
    <3>1. ASSUME NEW r \in Participants, r # q
          PROVE  \A i \in 1..Len(outbox'[r]) : outbox'[r][i][1] = "left" =>
                   outbox'[r][i][2] \in Participants /\ srv'[outbox'[r][i][2]] \in {"left", "gone"}
      BY <2>1, <3>1 DEF LeftHaveLeft, Departed
    <3> QED BY <2>5, <3>1 DEF LeftHaveLeft, Departed
  <2>7. \A r \in Participants : LastWord(outbox'[r])
    BY <2>1, <2>3, LeftIsLastWord
  <2>8. LeftIsLast'
    <3>1. \A r \in Participants : DOMAIN outbox'[r] = 1..Len(outbox'[r]) BY DEF SneakerTypeOK
    <3> QED BY <2>7, <3>1 DEF LeftIsLast, LastWord
  <2> QED BY <2>6, <2>8
<1> QED BY <1>1, <1>2 DEF Send

\* Queues that only lose frames, and goroutines that do not come back.
LEMMA LessSaid ==
  ASSUME SneakerTypeOK, LeftHaveLeft, LeftIsLast, SneakerTypeOK',
         \A r \in Participants : outbox'[r] = outbox[r] \/ outbox'[r] = <<>> \/ (outbox[r] # <<>> /\ outbox'[r] = Tail(outbox[r])),
         \A p \in Participants : srv[p] \in {"left", "gone"} => srv'[p] \in {"left", "gone"}
  PROVE  LeftHaveLeft' /\ LeftIsLast'
<1>1. ASSUME NEW r \in Participants
      PROVE  /\ LastWord(outbox'[r])
             /\ \A i \in 1..Len(outbox'[r]) : outbox'[r][i][1] = "left" =>
                  outbox'[r][i][2] \in Participants /\ srv'[outbox'[r][i][2]] \in {"left", "gone"}
  <2>1. outbox[r] \in Seq(CoFrames) /\ Departed(outbox[r]) /\ LastWord(outbox[r])
    BY LeftIsLastWord DEF SneakerTypeOK, LeftHaveLeft
  <2>2. CASE outbox'[r] = outbox[r] BY <2>1, <2>2 DEF Departed
  <2>3. CASE outbox'[r] = <<>> BY <2>3 DEF LastWord
  <2>4. CASE outbox[r] # <<>> /\ outbox'[r] = Tail(outbox[r])
    <3>1. \A i \in 1..Len(outbox'[r]) : i + 1 \in 1..Len(outbox[r]) /\ outbox'[r][i] = outbox[r][i + 1]
      BY <2>1, <2>4
    <3>2. LastWord(outbox'[r]) BY <2>1, <2>4, LastWordTail
    <3> QED BY <2>1, <3>1, <3>2 DEF Departed
  <2> QED BY <2>2, <2>3, <2>4
<1>2. LeftHaveLeft' BY <1>1 DEF LeftHaveLeft, Departed
<1>3. \A r \in Participants : DOMAIN outbox'[r] = 1..Len(outbox'[r]) BY DEF SneakerTypeOK
<1>4. LeftIsLast' BY <1>1, <1>3 DEF LeftIsLast, LastWord
<1> QED BY <1>2, <1>4

\* A pending broadcast is always the sender's own, and nobody who has left comes back.
LEMMA SendsStep ==
  ASSUME SneakerTypeOK, SneakerTypeOK', OrderIsServed, SendsItsOwn, [SneakerNext]_sneakerVars
  PROVE  /\ SendsItsOwn'
         /\ \A p \in Participants : srv[p] \in {"left", "gone"} => srv'[p] \in {"left", "gone"}
<1>0. Host \in Participants /\ Peers \subseteq Participants /\ Host \notin Peers BY SneakerAssumption DEF Participants
<1>1. ASSUME UNCHANGED <<sends, srv>>
      PROVE  /\ SendsItsOwn'
             /\ \A p \in Participants : srv[p] \in {"left", "gone"} => srv'[p] \in {"left", "gone"}
  BY <1>1 DEF SendsItsOwn
<1>2. ASSUME NEW p \in Participants, NEW w, UNCHANGED sends, srv' = [srv EXCEPT ![p] = w],
             sends[p].to = {} \/ (srv[p] = "ask" /\ w = "loop"),
             srv[p] \in {"left", "gone"} => w \in {"left", "gone"}
      PROVE  /\ SendsItsOwn'
             /\ \A q \in Participants : srv[q] \in {"left", "gone"} => srv'[q] \in {"left", "gone"}
  <2>1. \A q \in Participants : srv'[q] = IF q = p THEN w ELSE srv[q] BY <1>2 DEF SneakerTypeOK
  <2> QED BY <1>2, <2>1 DEF SendsItsOwn
<1>3. ASSUME NEW p \in Participants, NEW to \in SUBSET Participants, NEW k \in {"joined", "key", "msg", "scuttle", "left"},
             NEW g \in Participants \cup {Nobody}, Cast(p, to, <<k, g>>), NEW w \in {"ask", "loop", "left"},
             srv' = [srv EXCEPT ![p] = w], srv[p] \notin {"left", "gone"},
             g = p \/ k = "scuttle", k = "left" <=> w = "left"
      PROVE  /\ SendsItsOwn'
             /\ \A q \in Participants : srv[q] \in {"left", "gone"} => srv'[q] \in {"left", "gone"}
  <2>1. \A q \in Participants : srv'[q] = IF q = p THEN w ELSE srv[q] BY <1>3 DEF SneakerTypeOK
  <2>2. \A q \in Participants : sends'[q] = IF q = p THEN [to |-> to, f |-> <<k, g>>] ELSE sends[q]
    BY <1>3, CastType, FrameShapes
  <2> QED BY <1>3, <2>1, <2>2 DEF SendsItsOwn
<1>4. CASE HostHere
  <2>1. srv[Host] = "idle" BY <1>4 DEF HostHere, OrderIsServed
  <2>2. sends[Host].to = {} BY <1>0, <2>1 DEF SendsItsOwn
  <2> QED BY <1>0, <1>2, <1>4, <2>1, <2>2 DEF HostHere, coVars
<1>5. ASSUME NEW p \in Peers, RunJoin(p) \/ JoinPeer(p)
      PROVE  /\ SendsItsOwn'
             /\ \A q \in Participants : srv[q] \in {"left", "gone"} => srv'[q] \in {"left", "gone"}
  <2>1. srv[p] = "idle" /\ UNCHANGED coVars /\ (Connects(p) \/ GivesUp(p)) BY <1>5 DEF RunJoin, JoinPeer
  <2>2. p \in Participants /\ sends[p].to = {} BY <1>0, <2>1 DEF SendsItsOwn
  <2> QED BY <1>2, <2>1, <2>2 DEF Connects, GivesUp, coVars
<1>6. ASSUME NEW p \in Participants,
             Authenticate(p) \/ CoJoin(p) \/ HelloRefused(p) \/ CoWelcome(p) \/ CoAskKey(p) \/ ServeEnds(p)
      PROVE  /\ SendsItsOwn'
             /\ \A q \in Participants : srv[q] \in {"left", "gone"} => srv'[q] \in {"left", "gone"}
  <2>1. PICK w \in {"hello", "gone", "welcome", "announce", "loop"} :
          /\ srv' = [srv EXCEPT ![p] = w] /\ sends' = sends
          /\ srv[p] \in {"auth", "hello", "welcome", "ask", "left"}
          /\ srv[p] \in {"ask", "left"} => sends[p].to = {}
          /\ srv[p] = "left" => w = "gone"
    BY <1>6 DEF Authenticate, CoJoin, HelloRefused, CoWelcome, CoAskKey, ServeEnds, Idle, coVars
  <2>2. sends[p].to = {} BY <2>1 DEF SendsItsOwn
  <2> QED BY <1>2, <2>1, <2>2
<1>7. Present \subseteq Participants BY DEF Present, Range, SneakerTypeOK
<1>8. ASSUME NEW p \in Participants, CoAnnounce(p)
      PROVE  /\ SendsItsOwn'
             /\ \A q \in Participants : srv[q] \in {"left", "gone"} => srv'[q] \in {"left", "gone"}
  <2>1. /\ Cast(p, Present \ {p}, <<"joined", p>>) /\ srv' = [srv EXCEPT ![p] = "ask"]
        /\ srv[p] \notin {"left", "gone"} /\ Present \ {p} \in SUBSET Participants
    BY <1>7, <1>8 DEF CoAnnounce
  <2> QED BY <1>3, <2>1
<1>9. ASSUME NEW p \in Participants, CoLeave(p)
      PROVE  /\ SendsItsOwn'
             /\ \A q \in Participants : srv[q] \in {"left", "gone"} => srv'[q] \in {"left", "gone"}
  <2>1. /\ Cast(p, Present \ {p}, <<"left", p>>) /\ srv' = [srv EXCEPT ![p] = "left"]
        /\ srv[p] \notin {"left", "gone"} /\ Present \ {p} \in SUBSET Participants
    BY <1>7, <1>9 DEF CoLeave
  <2> QED BY <1>3, <2>1
<1>10. ASSUME NEW p \in Participants, SendOne(p)
      PROVE  /\ SendsItsOwn'
             /\ \A q \in Participants : srv[q] \in {"left", "gone"} => srv'[q] \in {"left", "gone"}
  <2>1. PICK r \in sends[p].to : Cast(p, sends[p].to \ {r}, sends[p].f) BY <1>10 DEF SendOne
  <2>2. sends[p].f \in CoFrames /\ sends[p].to \ {r} \in SUBSET Participants BY <2>1 DEF SneakerTypeOK
  <2>3. \A q \in Participants : sends'[q] = IF q = p THEN [to |-> sends[p].to \ {r}, f |-> sends[p].f] ELSE sends[q]
    BY ZenonT(30), <2>1, <2>2, CastType
  <2>4. srv' = srv BY <1>10 DEF SendOne
  <2> QED BY <2>1, <2>3, <2>4 DEF SendsItsOwn
<1>11. ASSUME NEW p \in Participants, Route(p)
      PROVE  /\ SendsItsOwn'
             /\ \A q \in Participants : srv[q] \in {"left", "gone"} => srv'[q] \in {"left", "gone"}
  <2> DEFINE f == Head(lines[p])
  <2>1. srv[p] = "loop" /\ srv' = [srv EXCEPT ![p] = "loop"]
    BY <1>11 DEF Route, RouteFrame, SneakerTypeOK
  <2>2. \/ Cast(p, Present, <<"scuttle", Nobody>>)
        \/ Cast(p, {f[2]} \cap Present, <<"key", p>>)
        \/ Cast(p, Present \ {p}, <<"msg", p>>)
    BY <1>11 DEF Route, RouteFrame
  <2> HIDE DEF f
  <2>3. CASE Cast(p, Present, <<"scuttle", Nobody>>) BY <1>3, <1>7, <2>1, <2>3
  <2>4. CASE Cast(p, {f[2]} \cap Present, <<"key", p>>)
    <3>1. {f[2]} \cap Present \in SUBSET Participants BY <1>7
    <3> QED BY <1>3, <3>1, <2>1, <2>4
  <2>5. CASE Cast(p, Present \ {p}, <<"msg", p>>)
    <3>1. Present \ {p} \in SUBSET Participants BY <1>7
    <3> QED BY <1>3, <3>1, <2>1, <2>5
  <2> QED BY <2>2, <2>3, <2>4, <2>5
<1>12. ASSUME NEW p \in Participants, Receive(p) \/ Type(p) \/ Quit(p)
      PROVE  /\ SendsItsOwn'
             /\ \A q \in Participants : srv[q] \in {"left", "gone"} => srv'[q] \in {"left", "gone"}
  BY <1>12, <1>1 DEF Receive, Type, Quit, coVars
<1>13. CASE Listen \/ PairElsewhere \/ CloseSnapshot \/ CloseMember \/ UNCHANGED sneakerVars
  BY <1>13, <1>1 DEF Listen, PairElsewhere, CloseSnapshot, CloseMember, sneakerVars, coVars
<1> QED BY <1>4, <1>5, <1>6, <1>8, <1>9, <1>10, <1>11, <1>12, <1>13 DEF SneakerNext, Serve

\* Nothing of a member follows its notice of leaving.
LEMMA LeftStep ==
  ASSUME SneakerTypeOK, SneakerTypeOK', SneakerInv, [SneakerNext]_sneakerVars
  PROVE  LeftHaveLeft' /\ LeftIsLast'
<1>0. LeftHaveLeft /\ LeftIsLast BY DEF SneakerInv, RoomAgrees
<1>1. \A p \in Participants : srv[p] \in {"left", "gone"} => srv'[p] \in {"left", "gone"}
  BY SendsStep DEF SneakerInv
<1>2. ASSUME UNCHANGED outbox PROVE LeftHaveLeft' /\ LeftIsLast'
  BY <1>0, <1>1, <1>2, LessSaid
<1>3. ASSUME NEW p \in Participants, Hangup(p) PROVE LeftHaveLeft' /\ LeftIsLast'
  <2>1. \A r \in Participants : outbox'[r] = outbox[r] \/ outbox'[r] = <<>> BY <1>3 DEF Hangup, SneakerTypeOK
  <2> QED BY <1>0, <1>1, <2>1, LessSaid
<1>4. ASSUME NEW p \in Participants, Receive(p) PROVE LeftHaveLeft' /\ LeftIsLast'
  <2>1. \A r \in Participants : outbox'[r] = outbox[r] \/ (outbox[r] # <<>> /\ outbox'[r] = Tail(outbox[r]))
    BY <1>4 DEF Receive, SneakerTypeOK
  <2> QED BY <1>0, <1>1, <2>1, LessSaid
<1>5. ASSUME NEW p \in Participants, CoWelcome(p) PROVE LeftHaveLeft' /\ LeftIsLast'
  <2>1. outbox' = Send(outbox, p, <<"welcome", p>>) /\ <<"welcome", p>> \in CoFrames
    BY <1>5, FrameShapes DEF CoWelcome
  <2> QED BY <1>0, <1>1, <2>1, SendSpeaks
<1>6. ASSUME NEW p \in Participants, CoAskKey(p) PROVE LeftHaveLeft' /\ LeftIsLast'
  <2>1. CASE asks[p] = Nobody BY <1>2, <1>6, <2>1 DEF CoAskKey
  <2>2. CASE asks[p] # Nobody
    <3>1. outbox' = Send(outbox, asks[p], <<"keyreq", p>>) /\ <<"keyreq", p>> \in CoFrames
      BY <1>6, <2>2, FrameShapes DEF CoAskKey
    <3> QED BY <1>0, <1>1, <3>1, SendSpeaks
  <2> QED BY <2>1, <2>2
<1>7. ASSUME NEW p \in Participants, SendOne(p) PROVE LeftHaveLeft' /\ LeftIsLast'
  <2>1. PICK r \in sends[p].to : outbox' = Send(outbox, r, sends[p].f) BY <1>7 DEF SendOne
  <2>2. sends[p].f \in CoFrames BY <2>1 DEF SneakerTypeOK
  <2>3. /\ sends[p].f[1] \in {"msg", "key", "joined"} => srv[sends[p].f[2]] \notin {"left", "gone"}
        /\ sends[p].f[1] = "left" => sends[p].f[2] \in Participants /\ srv[sends[p].f[2]] \in {"left", "gone"}
    BY <2>1 DEF SneakerInv, SendsItsOwn
  <2> QED BY <1>0, <1>1, <2>1, <2>2, <2>3, SendSpeaks
<1>8. CASE CloseMember
  <2>1. CASE UNCHANGED outbox BY <1>2, <2>1
  <2>2. CASE \E p \in victims : Hangup(p) BY <1>3, <2>2 DEF SneakerTypeOK
  <2> QED BY <1>8, <2>1, <2>2 DEF CloseMember
<1>9. ASSUME NEW p \in Participants, Quit(p) PROVE LeftHaveLeft' /\ LeftIsLast' BY <1>3, <1>9 DEF Quit
<1>10. CASE Listen \/ HostHere \/ PairElsewhere \/ CloseSnapshot \/ UNCHANGED sneakerVars
  BY <1>2, <1>10 DEF Listen, HostHere, PairElsewhere, CloseSnapshot, sneakerVars, coVars
<1>11. ASSUME NEW p \in Peers, RunJoin(p) \/ JoinPeer(p) PROVE LeftHaveLeft' /\ LeftIsLast'
  BY <1>2, <1>11 DEF RunJoin, JoinPeer, coVars
<1>12. ASSUME NEW p \in Participants, Authenticate(p) \/ CoJoin(p) \/ HelloRefused(p) \/ CoAnnounce(p)
                                 \/ Route(p) \/ CoLeave(p) \/ ServeEnds(p) \/ Type(p)
       PROVE  LeftHaveLeft' /\ LeftIsLast'
  BY <1>2, <1>12 DEF Authenticate, CoJoin, HelloRefused, CoAnnounce, Route, RouteFrame, CoLeave, ServeEnds, Type, coVars
<1> QED BY <1>4, <1>5, <1>6, <1>7, <1>8, <1>9, <1>10, <1>11, <1>12 DEF SneakerNext, Serve

\* A room begins with the invariant.
LEMMA SneakerStart == SneakerInit => SneakerTypeOK /\ SneakerInv
<1> SUFFICES ASSUME SneakerInit PROVE SneakerTypeOK /\ SneakerInv OBVIOUS
<1>0. order = <<>> /\ DOMAIN order = {} BY DEF SneakerInit
<1>1. SneakerTypeOK
  <2>1. \A p \in Participants : outbox[p] \in Seq(CoFrames) /\ lines[p] \in Seq(Typed) BY DEF SneakerInit
  <2>2. outbox \in [Participants -> Seq(CoFrames)] /\ lines \in [Participants -> Seq(Typed)] BY <2>1 DEF SneakerInit
  <2>3. sends \in [Participants -> [to : SUBSET Participants, f : CoFrames \cup {<<>>}]] BY DEF SneakerInit
  <2>4. \A p \in Participants : sends[p].to = {} BY DEF SneakerInit
  <2>5. order \in Seq(Participants) BY <1>0
  <2> QED BY <2>2, <2>3, <2>4, <2>5 DEF SneakerInit, SneakerTypeOK
<1>2. Present = {} BY <1>0 DEF Present, Range
<1>3. OrderIsServed BY <1>0, <1>2 DEF SneakerInit, OrderIsServed, Joined, Participants
<1>4. SendsItsOwn BY DEF SneakerInit, SendsItsOwn
<1>5. \A r \in Participants : outbox[r] = <<>> /\ Len(outbox[r]) = 0 /\ DOMAIN outbox[r] = {} BY DEF SneakerInit
<1>6. LeftHaveLeft
  <2>1. \A r \in Participants : 1..Len(outbox[r]) = {} BY <1>5
  <2> QED BY <2>1 DEF LeftHaveLeft, Departed
<1>7. RoomAgrees BY <1>0, <1>5 DEF RoomAgrees, OneMinter, LeftIsLast
<1> QED BY <1>1, <1>3, <1>4, <1>6, <1>7 DEF SneakerInv

\* Of any number of members coming and going in any order while a scuttle burns the room, only the
\* oldest present was told to mint the key, and nothing of a member is queued behind the notice
\* that it left (tui/sneakernet).
THEOREM SneakerRoomAgrees == SneakerSpec => []RoomAgrees
<1>1. SneakerInit => SneakerTypeOK /\ SneakerInv BY SneakerStart
<1>2. SneakerTypeOK /\ SneakerInv /\ [SneakerNext]_sneakerVars => (SneakerTypeOK /\ SneakerInv)'
  <2> SUFFICES ASSUME SneakerTypeOK, SneakerInv, [SneakerNext]_sneakerVars
               PROVE  (SneakerTypeOK /\ SneakerInv)'
    OBVIOUS
  <2>1. SneakerTypeOK' BY SneakerTypeStep DEF SneakerInv
  <2>2. OrderIsServed' /\ OneMinter' BY ServedStep DEF SneakerInv, RoomAgrees
  <2>3. SendsItsOwn' BY <2>1, SendsStep DEF SneakerInv
  <2>4. LeftHaveLeft' /\ LeftIsLast' BY <2>1, LeftStep
  <2> QED BY <2>1, <2>2, <2>3, <2>4 DEF SneakerInv, RoomAgrees
<1>3. SneakerInv => RoomAgrees BY DEF SneakerInv
<1> QED BY <1>1, <1>2, <1>3, PTL DEF SneakerSpec

------------------------------------------------------------------------------
(* The daemons.  Event numbers fall along the feed, so what is taken next is nowhere yet. *)

\* One daemon on its own.
WatchersSpec == WatchersInit /\ [][WatchersNext]_watcherVars

\* A sequence of whatever it holds.
IsSeq(s) == s \in Seq({s[i] : i \in DOMAIN s})

\* What a sequence of anything satisfies.
LEMMA SeqFacts ==
  ASSUME NEW s, IsSeq(s)
  PROVE  /\ Len(s) \in Nat /\ DOMAIN s = 1..Len(s)
         /\ \A S : (\A i \in 1..Len(s) : s[i] \in S) => s \in Seq(S)
         /\ s = <<>> <=> Len(s) = 0
<1>1. s \in Seq({s[i] : i \in DOMAIN s}) BY DEF IsSeq
<1>2. Len(s) \in Nat /\ DOMAIN s = 1..Len(s) BY <1>1
<1>3. s = <<>> <=> Len(s) = 0 BY <1>1
<1>4. ASSUME NEW S, \A i \in 1..Len(s) : s[i] \in S PROVE s \in Seq(S)
  BY <1>1, <1>2, <1>4, SeqDef
<1> QED BY <1>2, <1>3, <1>4

\* A sequence over a known set is one.
LEMMA MakeSeq ==
  ASSUME NEW S, NEW s \in Seq(S)
  PROVE  IsSeq(s)
<1>1. DOMAIN s = 1..Len(s) /\ Len(s) \in Nat OBVIOUS
<1>2. \A i \in 1..Len(s) : s[i] \in {s[j] : j \in DOMAIN s} BY <1>1
<1>3. s = [i \in 1..Len(s) |-> s[i]] BY <1>1
<1>4. [i \in 1..Len(s) |-> s[i]] \in Seq({s[j] : j \in DOMAIN s}) BY <1>1, <1>2
<1> QED BY <1>3, <1>4 DEF IsSeq

\* Appending to a sequence.
LEMMA AppendKeeps ==
  ASSUME NEW s, IsSeq(s), NEW x
  PROVE  /\ IsSeq(Append(s, x)) /\ Len(Append(s, x)) = Len(s) + 1
         /\ \A i \in 1..Len(s) : Append(s, x)[i] = s[i]
         /\ Append(s, x)[Len(s) + 1] = x
<1> DEFINE S == {s[i] : i \in DOMAIN s} \cup {x}
<1>1. Len(s) \in Nat /\ s \in Seq(S)
  <2>1. \A i \in 1..Len(s) : s[i] \in S BY SeqFacts
  <2> QED BY <2>1, SeqFacts
<1>2. x \in S OBVIOUS
<1> HIDE DEF S
<1>3. Append(s, x) \in Seq(S) BY <1>1, <1>2
<1>4. IsSeq(Append(s, x)) BY <1>3, MakeSeq
<1> QED BY <1>1, <1>2, <1>3, <1>4

\* Taking the first of a sequence.
LEMMA RestKeeps ==
  ASSUME NEW s, IsSeq(s), s # <<>>
  PROVE  /\ IsSeq(Tail(s)) /\ Len(Tail(s)) = Len(s) - 1 /\ Len(s) > 0 /\ Head(s) = s[1]
         /\ \A i \in 1..(Len(s) - 1) : Tail(s)[i] = s[i + 1]
<1> DEFINE S == {s[i] : i \in DOMAIN s}
<1>1. s \in Seq(S) BY DEF IsSeq
<1> HIDE DEF S
<1>2. Tail(s) \in Seq(S) BY <1>1
<1>3. IsSeq(Tail(s)) BY <1>2, MakeSeq
<1> QED BY <1>1, <1>3

\* The events a daemon may report carry numbers of their own.
Reportable(e) == e.k \notin {"receipt", "invite"}
\* The events this daemon is meant to report.
Reported(e) == IF daemon = "siem" THEN mapEvent(e) ELSE Match(e)

\* The numbers in a batch, and in each of the places an event can be in.
Nums(s) == {s[k] : k \in DOMAIN s}
JobNums == UNION {Nums(jobs[j].evs) : j \in DOMAIN jobs}
LoopNums == Nums(hand["loop"])
TickerNums == Nums(hand["ticker"])
BufNums == Nums(buf)
Placed == JobNums \cup LoopNums \cup TickerNums \cup BufNums

\* A delivery has the parts the code gives it.
IsJob(j) ==
  j \in [evs : {j.evs}, by : {j.by}, tries : {j.tries}, stage : {"only", "attach", "note"},
         st : {"post", "backoff", "end"}, report : {"", "fired", "failed", "printed"}]

\* What each variable of a daemon holds; only netherchat-siem-out batches.
Shapes ==
  /\ daemon \in {"bridge", "slack", "teams", "itsm", "siem"}
  /\ IsSeq(feed) /\ IsSeq(events) /\ IsSeq(taken) /\ IsSeq(jobs)
  /\ buf \in Seq(Nat) /\ hand \in [{"loop", "ticker"} -> Seq(Nat)]
  /\ daemon # "siem" => buf = <<>> /\ hand["loop"] = <<>> /\ hand["ticker"] = <<>>
  /\ \A j \in 1..Len(jobs) : IsJob(jobs[j])

\* A delivery that ended was reported, and a daemon that exits for a lost connection has ended
\* them all.
Exits ==
  /\ exit = "done" => loop \in {"wait", "left"}
  /\ loop = "left" /\ exit = "done" => AllDone
  /\ \A j \in 1..Len(jobs) : jobs[j].st = "end" => jobs[j].report # ""

\* The events still queued carry falling numbers, above those of the frames to come.
Ordered ==
  /\ \A i \in 1..Len(events) : Reportable(events[i]) => events[i].n \in Nat /\ events[i].n > Len(feed)
  /\ \A i, k \in 1..Len(events) : i < k /\ Reportable(events[i]) /\ Reportable(events[k]) => events[i].n > events[k].n

\* No number is in two places.
PlacedOnce ==
  /\ \A j, k \in 1..Len(jobs) : j # k => Nums(jobs[j].evs) \cap Nums(jobs[k].evs) = {}
  /\ JobNums \cap LoopNums = {} /\ JobNums \cap TickerNums = {} /\ JobNums \cap BufNums = {}
  /\ LoopNums \cap TickerNums = {} /\ LoopNums \cap BufNums = {} /\ TickerNums \cap BufNums = {}

\* What is in a place was taken before everything still queued or to come, so a number taken next
\* is new.
PlacedBefore ==
  \A n \in Placed : /\ n \in Nat /\ n > Len(feed)
                    /\ \A i \in 1..Len(events) : Reportable(events[i]) => n > events[i].n

\* Nothing the daemon took and is meant to report has gone missing.
TakenPlaced == \A i \in 1..Len(taken) : Reported(taken[i]) => taken[i].n \in Placed

\* The inductive invariant of a daemon.
WatchersInv ==
  /\ Shapes /\ Exits /\ Ordered
  /\ daemon \in {"bridge", "siem"} => PlacedOnce /\ PlacedBefore /\ TakenPlaced

\* The client emits one frame's events, a receipt before its scuttle included.
LEMMA EmitsOrdered ==
  ASSUME Shapes, Ordered, feed # <<>>, Surface
  PROVE  /\ IsSeq(events') /\ IsSeq(feed') /\ Ordered'
         /\ daemon \in {"bridge", "siem"} /\ PlacedBefore => PlacedBefore'
<1> DEFINE f == Head(feed)
           m == Len(feed)
           r == [Event("receipt", f, m) EXCEPT !.by = Self]
           e == Event(f.k, f, m)
<1>0. m \in Nat /\ m > 0 /\ IsSeq(feed') /\ Len(feed') = m - 1 /\ IsSeq(events) /\ Len(events) \in Nat
  BY RestKeeps, SeqFacts DEF Shapes, Surface
<1>1. r.k = "receipt" /\ e.k = f.k /\ e.n = m BY DEF Event
<1>2. events' = Append(events, e) \/ events' = Append(Append(events, r), e)
  <2> HIDE DEF m
  <2> DEFINE S == {events[i] : i \in DOMAIN events} \cup {r, e}
  <2>1. events \in Seq(S) /\ r \in S /\ e \in S
    <3>1. \A i \in 1..Len(events) : events[i] \in S BY <1>0, SeqFacts
    <3> QED BY <1>0, <3>1, SeqFacts
  <2>2. Emits(f, m) = <<e>> \/ (Emits(f, m) = <<r, e>>) BY DEF Emits
  <2>3. events' = events \o Emits(f, m) BY DEF Surface, m
  <2> HIDE DEF S, r, e, f
  <2>4. events \o <<e>> = Append(events, e) BY <2>1
  <2>5. events \o <<r, e>> = Append(Append(events, r), e) BY <2>1
  <2> QED BY <2>2, <2>3, <2>4, <2>5
<1>3. ~Reportable(r) BY <1>1 DEF Reportable
<1>4. Placed' = Placed
  BY DEF Surface, Placed, JobNums, LoopNums, TickerNums, BufNums, Nums
<1> HIDE DEF r, e, f, m
<1>5. \A i \in 1..Len(events) : Reportable(events[i]) => events[i].n \in Nat /\ events[i].n > m BY DEF Ordered, m
<1>6. \A i, k \in 1..Len(events) : i < k /\ Reportable(events[i]) /\ Reportable(events[k]) => events[i].n > events[k].n BY DEF Ordered
<1>p. PlacedBefore => \A n \in Placed : n \in Nat /\ n > m /\ \A i \in 1..Len(events) : Reportable(events[i]) => n > events[i].n
  BY DEF PlacedBefore, m
<1>7. CASE events' = Append(events, e)
  <2>1. /\ IsSeq(events') /\ Len(events') = Len(events) + 1 /\ events'[Len(events) + 1] = e
        /\ \A i \in 1..Len(events) : events'[i] = events[i]
    BY <1>0, <1>7, AppendKeeps
  <2>2. Ordered' BY SMTT(30), <1>0, <1>1, <1>5, <1>6, <2>1 DEF Ordered
  <2>3. PlacedBefore => PlacedBefore' BY <1>0, <1>1, <1>4, <1>p, <2>1 DEF PlacedBefore
  <2> QED BY <1>0, <2>1, <2>2, <2>3
<1>8. CASE events' = Append(Append(events, r), e)
  <2> DEFINE s == Append(events, r)
  <2>0. /\ IsSeq(s) /\ Len(s) = Len(events) + 1 /\ s[Len(events) + 1] = r
        /\ \A i \in 1..Len(events) : s[i] = events[i]
    BY <1>0, AppendKeeps
  <2> HIDE DEF s
  <2>a. /\ IsSeq(events') /\ Len(events') = Len(s) + 1 /\ events'[Len(s) + 1] = e
        /\ \A i \in 1..Len(s) : events'[i] = s[i]
    BY <1>8, <2>0, AppendKeeps DEF s
  <2>1. /\ IsSeq(events') /\ Len(events') = Len(events) + 2 /\ events'[Len(events) + 2] = e /\ events'[Len(events) + 1] = r
        /\ \A i \in 1..Len(events) : events'[i] = events[i]
    BY <1>0, <2>0, <2>a
  <2>b. \A i \in 1..Len(events') : Reportable(events'[i]) => i \in 1..Len(events) \/ (i = Len(events) + 2 /\ events'[i].n = m)
    BY <1>0, <1>1, <1>3, <2>1
  <2>c. \A i \in 1..Len(events') : Reportable(events'[i]) => events'[i].n \in Nat /\ events'[i].n > Len(feed')
    BY <1>0, <1>5, <2>1, <2>b
  <2>d. \A i, k \in 1..Len(events') : i < k /\ Reportable(events'[i]) /\ Reportable(events'[k]) => events'[i].n > events'[k].n
    <3> SUFFICES ASSUME NEW i \in 1..Len(events'), NEW k \in 1..Len(events'), i < k, Reportable(events'[i]), Reportable(events'[k])
                 PROVE  events'[i].n > events'[k].n
      OBVIOUS
    <3>1. i \in 1..Len(events) BY <1>0, <2>1, <2>b
    <3> QED BY <1>0, <1>5, <1>6, <2>1, <2>b, <3>1
  <2>2. Ordered' BY <2>c, <2>d DEF Ordered
  <2>3. PlacedBefore => PlacedBefore' BY <1>0, <1>1, <1>3, <1>4, <1>p, <2>1 DEF PlacedBefore
  <2> QED BY <1>0, <2>1, <2>2, <2>3
<1> QED BY <1>2, <1>7, <1>8

\* A delivery started, and one that went on.
LEMMA JobAdded ==
  ASSUME IsSeq(jobs), NEW j, jobs' = Append(jobs, j)
  PROVE  /\ IsSeq(jobs') /\ Len(jobs) \in Nat /\ Len(jobs') = Len(jobs) + 1 /\ jobs'[Len(jobs) + 1] = j
         /\ \A i \in 1..Len(jobs) : jobs'[i] = jobs[i]
         /\ JobNums' = JobNums \cup Nums(j.evs)
<1>1. /\ IsSeq(jobs') /\ Len(jobs) \in Nat /\ Len(jobs') = Len(jobs) + 1 /\ jobs'[Len(jobs) + 1] = j
      /\ \A i \in 1..Len(jobs) : jobs'[i] = jobs[i]
  BY AppendKeeps, SeqFacts
<1>2. DOMAIN jobs = 1..Len(jobs) /\ DOMAIN jobs' = 1..(Len(jobs) + 1) BY <1>1, SeqFacts
<1>3. JobNums' \subseteq JobNums \cup Nums(j.evs)
  <2> SUFFICES ASSUME NEW i \in DOMAIN jobs' PROVE Nums(jobs'[i].evs) \subseteq JobNums \cup Nums(j.evs) BY DEF JobNums
  <2>1. CASE i = Len(jobs) + 1 BY <1>1, <2>1
  <2>2. CASE i \in DOMAIN jobs BY <1>1, <1>2, <2>2 DEF JobNums
  <2> QED BY <1>1, <1>2, <2>1, <2>2
<1>4. Nums(j.evs) \subseteq JobNums'
  <2>1. Len(jobs) + 1 \in DOMAIN jobs' BY <1>1, <1>2
  <2> QED BY <1>1, <2>1 DEF JobNums
<1>5. JobNums \subseteq JobNums'
  <2> SUFFICES ASSUME NEW i \in DOMAIN jobs PROVE Nums(jobs[i].evs) \subseteq JobNums' BY DEF JobNums
  <2>1. i \in DOMAIN jobs' /\ jobs'[i] = jobs[i] BY <1>1, <1>2
  <2> QED BY <2>1 DEF JobNums
<1> QED BY <1>1, <1>3, <1>4, <1>5

\* A delivery goes on or ends with the events it began with.
LEMMA JobKept ==
  ASSUME IsSeq(jobs), NEW i \in 1..Len(jobs), NEW j, jobs' = [jobs EXCEPT ![i] = j], j.evs = jobs[i].evs
  PROVE  /\ IsSeq(jobs') /\ Len(jobs') = Len(jobs) /\ DOMAIN jobs' = DOMAIN jobs /\ DOMAIN jobs = 1..Len(jobs)
         /\ jobs'[i] = j /\ \A k \in 1..Len(jobs) : (k # i => jobs'[k] = jobs[k]) /\ jobs'[k].evs = jobs[k].evs
         /\ JobNums' = JobNums
<1>1. Len(jobs) \in Nat /\ DOMAIN jobs = 1..Len(jobs) BY SeqFacts
<1> DEFINE S == {jobs[k] : k \in DOMAIN jobs} \cup {j}
<1>2. jobs \in Seq(S)
  <2>1. \A k \in 1..Len(jobs) : jobs[k] \in S BY <1>1
  <2> QED BY <2>1, SeqFacts
<1>3. j \in S OBVIOUS
<1> HIDE DEF S
<1>4. jobs' \in Seq(S) /\ Len(jobs') = Len(jobs) /\ DOMAIN jobs' = DOMAIN jobs BY <1>1, <1>2, <1>3
<1>5. jobs'[i] = j /\ \A k \in 1..Len(jobs) : k # i => jobs'[k] = jobs[k] BY <1>1
<1>6. \A k \in 1..Len(jobs) : jobs'[k].evs = jobs[k].evs BY <1>5
<1>7. JobNums' = JobNums BY <1>1, <1>4, <1>6 DEF JobNums
<1>8. IsSeq(jobs') BY <1>4, MakeSeq
<1> QED BY <1>1, <1>4, <1>5, <1>6, <1>7, <1>8

\* Taking the first event of the channel.
LEMMA TakeOrdered ==
  ASSUME Shapes, Ordered, Take
  PROVE  /\ IsSeq(events') /\ IsSeq(taken') /\ Ordered' /\ feed' = feed /\ IsSeq(events)
         /\ Head(events) = events[1] /\ 1 \in 1..Len(events) /\ Len(events') = Len(events) - 1 /\ Len(events) \in Nat
         /\ \A i \in 1..Len(events') : events'[i] = events[i + 1] /\ i + 1 \in 1..Len(events) /\ 1 < i + 1
         /\ Len(taken) \in Nat /\ Len(taken') = Len(taken) + 1 /\ taken'[Len(taken) + 1] = Head(events)
         /\ \A i \in 1..Len(taken) : taken'[i] = taken[i]
<1>0. IsSeq(events) /\ IsSeq(taken) /\ events # <<>> /\ feed' = feed BY DEF Take, Shapes
<1>1. /\ IsSeq(events') /\ Head(events) = events[1] /\ Len(events') = Len(events) - 1 /\ Len(events) \in Nat /\ Len(events) > 0
      /\ \A i \in 1..(Len(events) - 1) : events'[i] = events[i + 1]
  BY <1>0, RestKeeps, SeqFacts DEF Take
<1>2. /\ IsSeq(taken') /\ Len(taken) \in Nat /\ Len(taken') = Len(taken) + 1 /\ taken'[Len(taken) + 1] = Head(events)
      /\ \A i \in 1..Len(taken) : taken'[i] = taken[i]
  BY <1>0, AppendKeeps, SeqFacts DEF Take
<1>3. \A i \in 1..Len(events') : events'[i] = events[i + 1] /\ i + 1 \in 1..Len(events) /\ 1 < i + 1 BY <1>1
<1>4. \A i \in 1..Len(events') : Reportable(events'[i]) => events'[i].n \in Nat /\ events'[i].n > Len(feed')
  BY <1>0, <1>3 DEF Ordered
<1>5. \A i, k \in 1..Len(events') : i < k /\ Reportable(events'[i]) /\ Reportable(events'[k]) => events'[i].n > events'[k].n
  <2> SUFFICES ASSUME NEW i \in 1..Len(events'), NEW k \in 1..Len(events'), i < k, Reportable(events'[i]), Reportable(events'[k])
               PROVE  events'[i].n > events'[k].n
    OBVIOUS
  <2>1. i + 1 < k + 1 BY <1>1
  <2> QED BY <1>3, <2>1 DEF Ordered
<1>6. Ordered' BY <1>4, <1>5 DEF Ordered
<1> QED BY <1>0, <1>1, <1>2, <1>3, <1>6

\* A receipt and an invite are never reported by a bridge or by netherchat-siem-out.
LEMMA ReportedCount ==
  ASSUME NEW e, daemon \in {"bridge", "siem"}, Reported(e)
  PROVE  Reportable(e)
BY DEF Reported, Reportable, mapEvent, Match, validEvents

\* The event taken next is in no place yet.
LEMMA Fresh ==
  ASSUME Shapes, Ordered, PlacedBefore, Take, Reportable(Head(events))
  PROVE  Head(events).n \in Nat /\ Head(events).n \notin Placed
<1>1. Head(events) = events[1] /\ 1 \in 1..Len(events) BY TakeOrdered
<1>2. events[1].n \in Nat BY <1>1 DEF Ordered
<1>3. \A n \in Placed : n \in Nat /\ n > events[1].n BY <1>1 DEF PlacedBefore
<1> QED BY <1>1, <1>2, <1>3

\* Taking an event puts its number in a place exactly when it is to be reported.
LEMMA TakePlaces ==
  ASSUME Shapes, Ordered, PlacedBefore, TakenPlaced, Take, daemon \in {"bridge", "siem"},
         Placed' = IF Reported(Head(events)) THEN Placed \cup {Head(events).n} ELSE Placed
  PROVE  PlacedBefore' /\ TakenPlaced'
<1> DEFINE e == Head(events)
<1>1. /\ feed' = feed /\ e = events[1] /\ 1 \in 1..Len(events)
      /\ \A i \in 1..Len(events') : events'[i] = events[i + 1] /\ i + 1 \in 1..Len(events) /\ 1 < i + 1
      /\ Len(taken) \in Nat /\ Len(taken') = Len(taken) + 1 /\ taken'[Len(taken) + 1] = e
      /\ \A i \in 1..Len(taken) : taken'[i] = taken[i]
  BY TakeOrdered
<1>2. \A x : Reported(x)' <=> Reported(x) BY DEF Take, Reported, Match
<1>3. \A n \in Placed : n \in Nat /\ n > Len(feed) /\ \A i \in 1..Len(events) : Reportable(events[i]) => n > events[i].n
  BY DEF PlacedBefore
<1>4. Reported(e) => Reportable(e) BY ReportedCount
<1>5. Reportable(e) => /\ e.n \in Nat /\ e.n > Len(feed)
                       /\ \A i \in 1..Len(events) : 1 < i /\ Reportable(events[i]) => e.n > events[i].n
  BY <1>1 DEF Ordered
<1> HIDE DEF e
<1>6. Placed' = IF Reported(e) THEN Placed \cup {e.n} ELSE Placed BY DEF e
<1>7. PlacedBefore'
  <2>1. \A n \in Placed' : n \in Nat /\ n > Len(feed) /\ \A i \in 1..Len(events) : 1 < i /\ Reportable(events[i]) => n > events[i].n
    BY <1>3, <1>4, <1>5, <1>6
  <2> QED BY <1>1, <2>1 DEF PlacedBefore
<1>8. TakenPlaced'
  <2>1. \A i \in 1..Len(taken) : Reported(taken[i]) => taken[i].n \in Placed' BY <1>6 DEF TakenPlaced
  <2>2. Reported(e) => e.n \in Placed' BY <1>6
  <2>3. \A i \in 1..Len(taken') : i \in 1..Len(taken) \/ i = Len(taken) + 1 BY <1>1
  <2>4. \A i \in 1..Len(taken') : Reported(taken'[i]) => taken'[i].n \in Placed' BY <1>1, <2>1, <2>2, <2>3
  <2> QED BY <1>2, <2>4 DEF TakenPlaced
<1> QED BY <1>7, <1>8

\* A delivery that starts keeps the exits in order.
LEMMA JobStarts ==
  ASSUME Shapes, Exits, loop # "left", loop' = loop, exit' = exit,
         NEW j, IsJob(j), j.st = "post", jobs' = Append(jobs, j)
  PROVE  /\ IsSeq(jobs') /\ (\A i \in 1..Len(jobs') : IsJob(jobs'[i])) /\ Exits'
         /\ JobNums' = JobNums \cup Nums(j.evs)
<1>1. /\ IsSeq(jobs') /\ Len(jobs) \in Nat /\ Len(jobs') = Len(jobs) + 1 /\ jobs'[Len(jobs) + 1] = j
      /\ \A i \in 1..Len(jobs) : jobs'[i] = jobs[i]
      /\ JobNums' = JobNums \cup Nums(j.evs)
  BY JobAdded DEF Shapes
<1>2. \A i \in 1..Len(jobs') : i \in 1..Len(jobs) \/ i = Len(jobs) + 1 BY <1>1
<1>3. \A i \in 1..Len(jobs') : IsJob(jobs'[i]) BY <1>1, <1>2 DEF Shapes
<1>4. \A i \in 1..Len(jobs') : jobs'[i].st = "end" => jobs'[i].report # "" BY <1>1, <1>2 DEF Exits
<1>5. Exits' BY <1>4 DEF Exits
<1> QED BY <1>1, <1>3, <1>5

\* Each delivery's numbers are among all of them.
LEMMA JobNumsHold ==
  ASSUME Shapes
  PROVE  \A i \in 1..Len(jobs) : Nums(jobs[i].evs) \subseteq JobNums
BY SeqFacts DEF JobNums, Shapes

\* A delivery with new numbers shares none with the others.
LEMMA JobsApart ==
  ASSUME Shapes, NEW j, jobs' = Append(jobs, j), JobNums \cap Nums(j.evs) = {},
         \A i, k \in 1..Len(jobs) : i # k => Nums(jobs[i].evs) \cap Nums(jobs[k].evs) = {}
  PROVE  \A i, k \in 1..Len(jobs') : i # k => Nums(jobs'[i].evs) \cap Nums(jobs'[k].evs) = {}
<1>1. /\ IsSeq(jobs') /\ Len(jobs) \in Nat /\ Len(jobs') = Len(jobs) + 1 /\ jobs'[Len(jobs) + 1] = j
      /\ \A i \in 1..Len(jobs) : jobs'[i] = jobs[i]
  BY JobAdded DEF Shapes
<1>2. \A i \in 1..Len(jobs') : i \in 1..Len(jobs) \/ i = Len(jobs) + 1 BY <1>1
<1>3. \A i \in 1..Len(jobs) : Nums(jobs[i].evs) \subseteq JobNums BY JobNumsHold
<1>4. ASSUME NEW i \in 1..Len(jobs'), NEW k \in 1..Len(jobs'), i # k
      PROVE  Nums(jobs'[i].evs) \cap Nums(jobs'[k].evs) = {}
  BY <1>1, <1>2, <1>3, <1>4
<1> QED BY <1>4

\* The delivery of one event.
LEMMA JobOfEvent ==
  ASSUME NEW e, NEW by, NEW stage \in {"only", "attach"}
  PROVE  IsJob(Job(e, by, stage)) /\ Job(e, by, stage).st = "post" /\ Nums(Job(e, by, stage).evs) = {e.n}
<1>1. Job(e, by, stage).evs = <<e.n>> BY DEF Job
<1>2. Nums(<<e.n>>) = {e.n} BY DEF Nums
<1>3. IsJob(Job(e, by, stage)) /\ Job(e, by, stage).st = "post" BY DEF Job, IsJob
<1> QED BY <1>1, <1>2, <1>3

\* The loops that start a delivery for an event on the spot.
LEMMA DirectTakes ==
  ASSUME WatchersInv, Take, daemon # "siem"
  PROVE  WatchersInv'
<1> DEFINE e == Head(events)
<1>0. /\ Shapes /\ Exits /\ Ordered /\ daemon' = daemon /\ loop = "select" /\ loop' = loop /\ exit' = exit
      /\ buf' = buf /\ hand' = hand
  BY DEF WatchersInv, Take, bridgeTakes, slackTakes, teamsTakes, itsmTakes
<1>1. IsSeq(events') /\ IsSeq(taken') /\ Ordered' /\ feed' = feed BY <1>0, TakeOrdered
<1>2. \/ jobs' = jobs /\ (daemon = "bridge" => ~Reported(e))
      \/ \E by : \E stage \in {"only", "attach"} : jobs' = Append(jobs, Job(e, by, stage)) /\ (daemon = "bridge" => Reported(e))
  <2>1. CASE daemon = "bridge"
    BY <2>1 DEF Take, bridgeTakes, Reported
  <2>2. CASE daemon = "itsm"
    BY <2>2 DEF Take, itsmTakes
  <2>3. CASE daemon = "slack"
    BY <2>3 DEF Take, slackTakes, messages
  <2>4. CASE daemon = "teams"
    BY <2>4 DEF Take, teamsTakes, cards, messages
  <2> QED BY <1>0, <2>1, <2>2, <2>3, <2>4 DEF Shapes
<1> HIDE DEF e
<1>3. LoopNums' = LoopNums /\ TickerNums' = TickerNums /\ BufNums' = BufNums BY <1>0 DEF LoopNums, TickerNums, BufNums
<1>4. CASE jobs' = jobs /\ (daemon = "bridge" => ~Reported(e))
  <2>1. Shapes' /\ Exits' BY <1>0, <1>1, <1>4 DEF Shapes, Exits
  <2>2. JobNums' = JobNums BY <1>4 DEF JobNums
  <2>3. Placed' = Placed BY <1>3, <2>2 DEF Placed
  <2>4. ASSUME daemon = "bridge" PROVE PlacedOnce' /\ PlacedBefore' /\ TakenPlaced'
    <3>1. PlacedOnce /\ PlacedBefore /\ TakenPlaced BY <2>4 DEF WatchersInv
    <3>2. PlacedOnce' BY <1>3, <1>4, <2>2, <3>1 DEF PlacedOnce
    <3>3. PlacedBefore' /\ TakenPlaced' BY <1>0, <1>4, <2>3, <2>4, <3>1, TakePlaces DEF e
    <3> QED BY <3>2, <3>3
  <2> QED BY <1>0, <1>1, <2>1, <2>4 DEF WatchersInv
<1>5. CASE \E by : \E stage \in {"only", "attach"} : jobs' = Append(jobs, Job(e, by, stage)) /\ (daemon = "bridge" => Reported(e))
  <2>0. PICK by : \E stage \in {"only", "attach"} : jobs' = Append(jobs, Job(e, by, stage)) /\ (daemon = "bridge" => Reported(e)) BY <1>5
  <2>s. PICK stage \in {"only", "attach"} : jobs' = Append(jobs, Job(e, by, stage)) /\ (daemon = "bridge" => Reported(e)) BY <2>0
  <2> DEFINE j == Job(e, by, stage)
  <2>1. IsJob(j) /\ j.st = "post" /\ Nums(j.evs) = {e.n} BY JobOfEvent
  <2>2. jobs' = Append(jobs, j) BY <2>s
  <2> HIDE DEF j
  <2>3. /\ IsSeq(jobs') /\ (\A i \in 1..Len(jobs') : IsJob(jobs'[i])) /\ Exits'
        /\ JobNums' = JobNums \cup {e.n}
    BY <1>0, <2>1, <2>2, JobStarts
  <2>4. Shapes' BY <1>0, <1>1, <2>3 DEF Shapes
  <2>5. ASSUME daemon = "bridge" PROVE PlacedOnce' /\ PlacedBefore' /\ TakenPlaced'
    <3>1. PlacedOnce /\ PlacedBefore /\ TakenPlaced /\ Reported(e) BY <2>s, <2>5 DEF WatchersInv
    <3>2. e.n \notin Placed BY <1>0, <2>5, <3>1, Fresh, ReportedCount DEF e
    <3>3. Placed' = Placed \cup {e.n} BY <1>3, <2>3 DEF Placed
    <3>4. PlacedBefore' /\ TakenPlaced' BY <1>0, <2>5, <3>1, <3>3, TakePlaces DEF e
    <3>5. JobNums \cap Nums(j.evs) = {} BY <2>1, <3>2 DEF Placed
    <3>6. \A i, k \in 1..Len(jobs') : i # k => Nums(jobs'[i].evs) \cap Nums(jobs'[k].evs) = {}
      <4>1. \A i, k \in 1..Len(jobs) : i # k => Nums(jobs[i].evs) \cap Nums(jobs[k].evs) = {} BY <3>1 DEF PlacedOnce
      <4> QED BY <1>0, <2>2, <3>5, <4>1, JobsApart
    <3>7. e.n \notin LoopNums /\ e.n \notin TickerNums /\ e.n \notin BufNums BY <3>2 DEF Placed
    <3>8. PlacedOnce' BY <1>3, <2>3, <3>1, <3>6, <3>7 DEF PlacedOnce
    <3> QED BY <3>4, <3>8
  <2> QED BY <1>0, <1>1, <2>3, <2>4, <2>5 DEF WatchersInv
<1> QED BY <1>2, <1>4, <1>5

\* Batcher.Add puts one number more in the buffer.
LEMMA NumsAppend ==
  ASSUME NEW s \in Seq(Nat), NEW n \in Nat
  PROVE  Append(s, n) \in Seq(Nat) /\ Nums(Append(s, n)) = Nums(s) \cup {n}
<1>1. /\ Append(s, n) \in Seq(Nat) /\ DOMAIN Append(s, n) = 1..(Len(s) + 1) /\ DOMAIN s = 1..Len(s) /\ Len(s) \in Nat
      /\ Append(s, n)[Len(s) + 1] = n /\ \A i \in 1..Len(s) : Append(s, n)[i] = s[i]
  OBVIOUS
<1>2. 1..(Len(s) + 1) = (1..Len(s)) \cup {Len(s) + 1} BY <1>1
<1> QED BY <1>1, <1>2 DEF Nums

\* An empty batch holds no number.
LEMMA NumsEmpty == Nums(<<>>) = {}
BY DEF Nums

\* Batcher.Add, with or without the batch it completes.
LEMMA SiemTakes ==
  ASSUME WatchersInv, Take, daemon = "siem"
  PROVE  WatchersInv'
<1> DEFINE e == Head(events)
<1>0. /\ Shapes /\ Exits /\ Ordered /\ daemon' = daemon /\ loop = "select" /\ loop' = loop /\ exit' = exit
      /\ jobs' = jobs /\ siemTakes(e) /\ PlacedOnce /\ PlacedBefore /\ TakenPlaced
  BY DEF WatchersInv, Take, siemTakes
<1>1. IsSeq(events') /\ IsSeq(taken') /\ Ordered' /\ feed' = feed BY <1>0, TakeOrdered
<1>2. Reported(e) <=> mapEvent(e) BY DEF Reported
<1>3. JobNums' = JobNums BY <1>0 DEF JobNums
<1>4. Exits' BY <1>0 DEF Exits, AllDone
<1>5. ASSUME buf' \in Seq(Nat), hand' \in [{"loop", "ticker"} -> Seq(Nat)] PROVE Shapes'
  BY <1>0, <1>1, <1>5 DEF Shapes
<1>6. Reported(e) => Reportable(e) BY ReportedCount
<1>7. Reported(e) => e.n \in Nat /\ e.n \notin Placed BY <1>0, <1>6, Fresh
<1>8. buf \in Seq(Nat) /\ hand \in [{"loop", "ticker"} -> Seq(Nat)] BY <1>0 DEF Shapes
<1>9. ASSUME Placed' = IF Reported(e) THEN Placed \cup {e.n} ELSE Placed PROVE PlacedBefore' /\ TakenPlaced'
  BY <1>0, <1>9, TakePlaces
<1> HIDE DEF e
<1>10. CASE ~mapEvent(e)
  <2>1. buf' = buf /\ hand' = hand BY <1>0, <1>10 DEF siemTakes
  <2>2. Shapes' BY <1>5, <1>8, <2>1
  <2>3. LoopNums' = LoopNums /\ TickerNums' = TickerNums /\ BufNums' = BufNums BY <2>1 DEF LoopNums, TickerNums, BufNums
  <2>4. Placed' = Placed BY <1>3, <2>3 DEF Placed
  <2>5. PlacedOnce' BY <1>0, <1>3, <2>3 DEF PlacedOnce
  <2>6. PlacedBefore' /\ TakenPlaced' BY <1>2, <1>9, <1>10, <2>4
  <2> QED BY <1>1, <1>4, <2>2, <2>5, <2>6 DEF WatchersInv
<1>11. CASE mapEvent(e) /\ Len(buf) + 1 >= BatchSize
  <2>0. e.n \in Nat /\ e.n \notin Placed BY <1>2, <1>7, <1>11
  <2>1. hand["loop"] = <<>> /\ hand' = [hand EXCEPT !["loop"] = Append(buf, e.n)] /\ buf' = <<>>
    BY <1>0, <1>11 DEF siemTakes, Add
  <2>2. Append(buf, e.n) \in Seq(Nat) /\ Nums(Append(buf, e.n)) = Nums(buf) \cup {e.n} BY <1>8, <2>0, NumsAppend
  <2>3. hand'["loop"] = Append(buf, e.n) /\ hand'["ticker"] = hand["ticker"] /\ hand' \in [{"loop", "ticker"} -> Seq(Nat)]
    BY <1>8, <2>1, <2>2
  <2>4. Shapes' BY <1>5, <2>1, <2>3
  <2>5. LoopNums = {} /\ LoopNums' = BufNums \cup {e.n} /\ TickerNums' = TickerNums /\ BufNums' = {}
    BY <2>1, <2>2, <2>3, NumsEmpty DEF LoopNums, TickerNums, BufNums
  <2>6. Placed' = Placed \cup {e.n} BY <1>3, <2>5 DEF Placed
  <2>7. PlacedBefore' /\ TakenPlaced' BY <1>2, <1>9, <1>11, <2>6
  <2>8. e.n \notin JobNums /\ e.n \notin TickerNums BY <2>0 DEF Placed
  <2>9. PlacedOnce' BY <1>0, <1>3, <2>5, <2>8 DEF PlacedOnce
  <2> QED BY <1>1, <1>4, <2>4, <2>7, <2>9 DEF WatchersInv
<1>12. CASE mapEvent(e) /\ ~(Len(buf) + 1 >= BatchSize)
  <2>0. e.n \in Nat /\ e.n \notin Placed BY <1>2, <1>7, <1>12
  <2>1. hand' = hand /\ buf' = Append(buf, e.n)
    BY <1>0, <1>12 DEF siemTakes, Add
  <2>2. Append(buf, e.n) \in Seq(Nat) /\ Nums(Append(buf, e.n)) = Nums(buf) \cup {e.n} BY <1>8, <2>0, NumsAppend
  <2>4. Shapes' BY <1>5, <1>8, <2>1, <2>2
  <2>5. LoopNums' = LoopNums /\ TickerNums' = TickerNums /\ BufNums' = BufNums \cup {e.n}
    BY <2>1, <2>2 DEF LoopNums, TickerNums, BufNums
  <2>6. Placed' = Placed \cup {e.n} BY <1>3, <2>5 DEF Placed
  <2>7. PlacedBefore' /\ TakenPlaced' BY <1>2, <1>9, <1>12, <2>6
  <2>8. e.n \notin JobNums /\ e.n \notin TickerNums /\ e.n \notin LoopNums BY <2>0 DEF Placed
  <2>9. PlacedOnce' BY <1>0, <1>3, <2>5, <2>8 DEF PlacedOnce
  <2> QED BY <1>1, <1>4, <2>4, <2>7, <2>9 DEF WatchersInv
<1> QED BY <1>10, <1>11, <1>12

\* A batch becomes a delivery.
LEMMA HandOverStep ==
  ASSUME WatchersInv, NEW g \in {"loop", "ticker"}, HandOver(g)
  PROVE  WatchersInv'
<1> DEFINE j == [evs |-> hand[g], by |-> "", stage |-> "only", st |-> "post", tries |-> 0, report |-> ""]
<1>0. /\ Shapes /\ Exits /\ Ordered /\ daemon' = daemon /\ loop # "left" /\ loop' = loop /\ exit' = exit
      /\ events' = events /\ feed' = feed /\ taken' = taken /\ buf' = buf /\ on' = on
      /\ hand' = [hand EXCEPT ![g] = <<>>] /\ jobs' = Append(jobs, j)
  BY DEF WatchersInv, HandOver
<1>1. IsJob(j) /\ j.st = "post" /\ j.evs = hand[g] BY DEF IsJob
<1> HIDE DEF j
<1>2. IsSeq(jobs') /\ (\A i \in 1..Len(jobs') : IsJob(jobs'[i])) /\ Exits' /\ JobNums' = JobNums \cup Nums(hand[g])
  BY <1>0, <1>1, JobStarts
<1>3. hand \in [{"loop", "ticker"} -> Seq(Nat)] /\ <<>> \in Seq(Nat) BY <1>0 DEF Shapes
<1>4. /\ hand' \in [{"loop", "ticker"} -> Seq(Nat)] /\ hand'[g] = <<>>
      /\ \A h \in {"loop", "ticker"} : h # g => hand'[h] = hand[h]
  BY <1>0, <1>3
<1>5. Shapes' /\ Ordered' BY <1>0, <1>2, <1>4 DEF Shapes, Ordered
<1>6. ASSUME daemon \in {"bridge", "siem"} PROVE PlacedOnce' /\ PlacedBefore' /\ TakenPlaced'
  <2>1. PlacedOnce /\ PlacedBefore /\ TakenPlaced BY <1>6 DEF WatchersInv
  <2>2. BufNums' = BufNums BY <1>0 DEF BufNums
  <2>3. \/ g = "loop" /\ LoopNums' = {} /\ TickerNums' = TickerNums /\ JobNums' = JobNums \cup LoopNums
        \/ g = "ticker" /\ TickerNums' = {} /\ LoopNums' = LoopNums /\ JobNums' = JobNums \cup TickerNums
    BY <1>2, <1>4, NumsEmpty DEF LoopNums, TickerNums
  <2>4. Placed' = Placed BY <2>2, <2>3 DEF Placed
  <2>5. PlacedBefore' BY <1>0, <2>1, <2>4 DEF PlacedBefore
  <2>6. TakenPlaced' BY <1>0, <2>1, <2>4 DEF TakenPlaced, Reported, Match
  <2>7. JobNums \cap Nums(j.evs) = {} BY <1>1, <2>1 DEF PlacedOnce, LoopNums, TickerNums
  <2>8. \A i, k \in 1..Len(jobs') : i # k => Nums(jobs'[i].evs) \cap Nums(jobs'[k].evs) = {}
    <3>1. \A i, k \in 1..Len(jobs) : i # k => Nums(jobs[i].evs) \cap Nums(jobs[k].evs) = {} BY <2>1 DEF PlacedOnce
    <3> QED BY <1>0, <2>7, <3>1, JobsApart
  <2>9. PlacedOnce' BY <2>1, <2>2, <2>3, <2>8 DEF PlacedOnce
  <2> QED BY <2>5, <2>6, <2>9
<1> QED BY <1>0, <1>2, <1>5, <1>6 DEF WatchersInv

\* The ticker's Flush.
LEMMA RunStep ==
  ASSUME WatchersInv, Run
  PROVE  WatchersInv'
<1>0. /\ Shapes /\ Exits /\ Ordered /\ daemon = "siem" /\ daemon' = daemon /\ loop' = loop /\ exit' = exit
      /\ events' = events /\ feed' = feed /\ taken' = taken /\ jobs' = jobs /\ on' = on
      /\ hand["ticker"] = <<>> /\ hand' = [hand EXCEPT !["ticker"] = buf] /\ buf' = <<>>
      /\ PlacedOnce /\ PlacedBefore /\ TakenPlaced
  BY DEF WatchersInv, Run, Flush
<1>1. hand \in [{"loop", "ticker"} -> Seq(Nat)] /\ <<>> \in Seq(Nat) /\ buf \in Seq(Nat) BY <1>0 DEF Shapes
<1>2. hand' \in [{"loop", "ticker"} -> Seq(Nat)] /\ hand'["ticker"] = buf /\ hand'["loop"] = hand["loop"] BY <1>0, <1>1
<1>3. Shapes' /\ Ordered' /\ Exits' BY <1>0, <1>1, <1>2 DEF Shapes, Ordered, Exits, AllDone
<1>4. JobNums' = JobNums /\ LoopNums' = LoopNums /\ TickerNums = {} /\ TickerNums' = BufNums /\ BufNums' = {}
  BY <1>0, <1>2, NumsEmpty DEF JobNums, LoopNums, TickerNums, BufNums
<1>5. Placed' = Placed BY <1>4 DEF Placed
<1>6. PlacedOnce' BY <1>0, <1>4 DEF PlacedOnce
<1>7. PlacedBefore' BY <1>0, <1>5 DEF PlacedBefore
<1>8. TakenPlaced' BY <1>0, <1>5 DEF TakenPlaced, Reported, mapEvent
<1> QED BY <1>3, <1>6, <1>7, <1>8 DEF WatchersInv

\* A delivery that ends says how.
LEMMA Ended ==
  ASSUME NEW j, IsJob(j), NEW r \in {"fired", "failed", "printed"}
  PROVE  IsJob(End(j, r)) /\ End(j, r).evs = j.evs /\ (End(j, r).st = "end" => End(j, r).report # "")
BY DEF IsJob, End

\* What an answer or the end of a backoff makes of a delivery.
GoesOn(j, y) == IsJob(y) /\ y.evs = j.evs /\ (y.st = "end" => y.report # "")

\* Whatever the other system answers, each daemon's delivery keeps its events, and reports when
\* it ends.
LEMMA PostedGoesOn ==
  ASSUME Shapes, NEW j, IsJob(j), j.st = "post", NEW outcome \in {"ok", "refused", "error"}
  PROVE  GoesOn(j, Posted(j, outcome))
<1>1. GoesOn(j, End(j, "fired")) /\ GoesOn(j, End(j, "failed")) /\ GoesOn(j, End(j, "printed")) BY Ended DEF GoesOn
<1>2. GoesOn(j, [j EXCEPT !.st = "backoff"]) BY DEF GoesOn, IsJob
<1>3. GoesOn(j, [j EXCEPT !.stage = "note", !.tries = 0]) BY DEF GoesOn, IsJob
<1>4. CASE daemon = "bridge" BY <1>1, <1>2, <1>4 DEF Posted, bridgeFired
<1>5. CASE daemon = "itsm" BY <1>1, <1>2, <1>3, <1>5 DEF Posted, itsmDelivered
<1>6. CASE daemon = "slack" BY <1>1, <1>6 DEF Posted, slackPosted
<1>7. CASE daemon = "teams" BY <1>1, <1>7 DEF Posted, teamsPosted
<1>8. CASE daemon = "siem" BY <1>1, <1>8 DEF Posted, sinkSent
<1> QED BY <1>4, <1>5, <1>6, <1>7, <1>8 DEF Shapes

\* An answer, or the end of a backoff, keeps the invariant.
LEMMA DeliveryStep ==
  ASSUME WatchersInv, NEW i \in DOMAIN jobs, Fire(i) \/ Retry(i)
  PROVE  WatchersInv'
<1>0. /\ Shapes /\ Exits /\ Ordered /\ daemon' = daemon /\ loop # "left" /\ loop' = loop /\ exit' = exit
      /\ events' = events /\ feed' = feed /\ taken' = taken /\ buf' = buf /\ hand' = hand /\ on' = on
  BY DEF WatchersInv, Fire, Retry
<1>1. i \in 1..Len(jobs) /\ IsJob(jobs[i]) BY <1>0, SeqFacts DEF Shapes
<1>2. \E y : GoesOn(jobs[i], y) /\ jobs' = [jobs EXCEPT ![i] = y]
  <2>1. CASE Fire(i)
    <3>1. PICK outcome \in {"ok", "refused", "error"} : jobs' = [jobs EXCEPT ![i] = Posted(jobs[i], outcome)] BY <2>1 DEF Fire
    <3>2. GoesOn(jobs[i], Posted(jobs[i], outcome)) BY <1>0, <1>1, <2>1, PostedGoesOn DEF Fire
    <3> QED BY <3>1, <3>2
  <2>2. CASE Retry(i)
    <3>1. \/ \E t : jobs' = [jobs EXCEPT ![i] = [jobs[i] EXCEPT !.st = "post", !.tries = t]]
          \/ jobs' = [jobs EXCEPT ![i] = End(jobs[i], "failed")]
      BY <2>2 DEF Retry
    <3>2. GoesOn(jobs[i], End(jobs[i], "failed")) BY <1>1, Ended DEF GoesOn
    <3>3. \A t : GoesOn(jobs[i], [jobs[i] EXCEPT !.st = "post", !.tries = t]) BY <1>1 DEF GoesOn, IsJob
    <3> QED BY <3>1, <3>2, <3>3
  <2> QED BY <2>1, <2>2
<1>3. PICK y : GoesOn(jobs[i], y) /\ jobs' = [jobs EXCEPT ![i] = y] BY <1>2
<1>4. /\ IsSeq(jobs') /\ Len(jobs') = Len(jobs) /\ DOMAIN jobs = 1..Len(jobs)
      /\ jobs'[i] = y /\ \A k \in 1..Len(jobs) : (k # i => jobs'[k] = jobs[k]) /\ jobs'[k].evs = jobs[k].evs
      /\ JobNums' = JobNums
  BY <1>0, <1>1, <1>3, JobKept DEF Shapes, GoesOn
<1>5. \A k \in 1..Len(jobs') : IsJob(jobs'[k]) /\ (jobs'[k].st = "end" => jobs'[k].report # "")
  BY <1>0, <1>3, <1>4 DEF Shapes, Exits, GoesOn
<1>6. Shapes' BY <1>0, <1>4, <1>5 DEF Shapes
<1>7. Exits' BY <1>0, <1>5 DEF Exits
<1>8. Ordered' BY <1>0 DEF Ordered
<1>9. Placed' = Placed BY <1>0, <1>4 DEF Placed, LoopNums, TickerNums, BufNums
<1>10. ASSUME daemon \in {"bridge", "siem"} PROVE PlacedOnce' /\ PlacedBefore' /\ TakenPlaced'
  <2>1. PlacedOnce /\ PlacedBefore /\ TakenPlaced BY <1>10 DEF WatchersInv
  <2>2. PlacedOnce' BY <1>0, <1>4, <2>1 DEF PlacedOnce, LoopNums, TickerNums, BufNums
  <2>3. PlacedBefore' BY <1>0, <1>9, <2>1 DEF PlacedBefore
  <2>4. TakenPlaced' BY <1>0, <1>9, <2>1 DEF TakenPlaced, Reported, Match, mapEvent
  <2> QED BY <2>2, <2>3, <2>4
<1> QED BY <1>0, <1>6, <1>7, <1>8, <1>10 DEF WatchersInv

\* Every step of a daemon, its client and its ticker keeps the invariant.
LEMMA WatchersStep ==
  ASSUME WatchersInv, [WatchersNext]_watcherVars
  PROVE  WatchersInv'
<1>0. Shapes /\ Exits /\ Ordered BY DEF WatchersInv
<1>1. CASE Surface
  <2>1. /\ daemon' = daemon /\ taken' = taken /\ jobs' = jobs /\ buf' = buf /\ hand' = hand /\ loop' = loop /\ exit' = exit
        /\ on' = on /\ feed # <<>>
    BY <1>1 DEF Surface
  <2>2. IsSeq(events') /\ IsSeq(feed') /\ Ordered' /\ (daemon \in {"bridge", "siem"} /\ PlacedBefore => PlacedBefore')
    BY <1>0, <1>1, <2>1, EmitsOrdered
  <2>3. Shapes' /\ Exits' BY <1>0, <2>1, <2>2 DEF Shapes, Exits, AllDone
  <2>4. PlacedOnce => PlacedOnce' BY <2>1 DEF PlacedOnce, JobNums, LoopNums, TickerNums, BufNums
  <2>5. TakenPlaced => TakenPlaced' BY <2>1 DEF TakenPlaced, Reported, Match, Placed, JobNums, LoopNums, TickerNums, BufNums
  <2> QED BY <2>1, <2>2, <2>3, <2>4, <2>5 DEF WatchersInv
<1>2. CASE Invited
  <2> DEFINE e == [k |-> "invite", by |-> "", self |-> FALSE, replayed |-> FALSE, record |-> FALSE, n |-> 0]
  <2>1. /\ daemon' = daemon /\ taken' = taken /\ jobs' = jobs /\ buf' = buf /\ hand' = hand /\ loop' = loop /\ exit' = exit
        /\ on' = on /\ feed' = feed /\ events' = Append(events, e)
    BY <1>2 DEF Invited
  <2>2. ~Reportable(e) BY DEF Reportable
  <2> HIDE DEF e
  <2>3. /\ IsSeq(events') /\ Len(events) \in Nat /\ Len(events') = Len(events) + 1 /\ events'[Len(events) + 1] = e
        /\ \A i \in 1..Len(events) : events'[i] = events[i]
    BY <1>0, <2>1, AppendKeeps, SeqFacts DEF Shapes
  <2>4. \A i \in 1..Len(events') : Reportable(events'[i]) => i \in 1..Len(events) /\ events'[i] = events[i] BY <2>2, <2>3
  <2>5. Ordered' BY <1>0, <2>1, <2>4 DEF Ordered
  <2>6. Shapes' /\ Exits' BY <1>0, <2>1, <2>3 DEF Shapes, Exits, AllDone
  <2>7. Placed' = Placed BY <2>1 DEF Placed, JobNums, LoopNums, TickerNums, BufNums
  <2>8. PlacedOnce => PlacedOnce' BY <2>1 DEF PlacedOnce, JobNums, LoopNums, TickerNums, BufNums
  <2>9. TakenPlaced => TakenPlaced' BY <2>1, <2>7 DEF TakenPlaced, Reported, Match
  <2>10. PlacedBefore => PlacedBefore' BY <2>1, <2>4, <2>7 DEF PlacedBefore
  <2> QED BY <2>1, <2>5, <2>6, <2>8, <2>9, <2>10 DEF WatchersInv
<1>3. CASE Disconnect \/ Signal \/ SelectDone \/ SelectStop \/ Wait \/ waitWithTimeout \/ UNCHANGED watcherVars
  <2>1. /\ daemon' = daemon /\ events' = events /\ jobs' = jobs /\ buf' = buf /\ hand' = hand
        /\ on' = on /\ feed' = feed
    BY <1>3 DEF Disconnect, Signal, SelectDone, SelectStop, Wait, waitWithTimeout, watcherVars
  <2>t. taken' = taken
    BY <1>3 DEF Disconnect, Signal, SelectDone, SelectStop, Wait, waitWithTimeout, watcherVars
  <2>2. Exits' BY <1>0, <1>3, <2>1 DEF Exits, AllDone, Disconnect, Signal, SelectDone, SelectStop, Wait, waitWithTimeout, watcherVars
  <2>3. Shapes' /\ Ordered' BY <1>0, <2>1, <2>t DEF Shapes, Ordered
  <2>7. Placed' = Placed BY <2>1 DEF Placed, JobNums, LoopNums, TickerNums, BufNums
  <2>8. PlacedOnce => PlacedOnce' BY <2>1 DEF PlacedOnce, JobNums, LoopNums, TickerNums, BufNums
  <2>9. TakenPlaced => TakenPlaced' BY <2>1, <2>t, <2>7 DEF TakenPlaced, Reported, Match
  <2>10. PlacedBefore => PlacedBefore' BY <2>1, <2>7 DEF PlacedBefore
  <2> QED BY <2>1, <2>2, <2>3, <2>8, <2>9, <2>10 DEF WatchersInv
<1> QED BY <1>1, <1>2, <1>3, DirectTakes, SiemTakes, HandOverStep, RunStep, DeliveryStep DEF WatchersNext

\* The five programs.
LEMMA StartsAre ==
  ASSUME NEW c \in Commands, NEW s \in Starts(c)
  PROVE  s = c /\ s.daemon \in {"bridge", "slack", "teams", "itsm", "siem"}
BY WatchersAssumption DEF Starts, bridgeStarts, slackStarts, teamsStarts, itsmStarts, siemStarts

\* A daemon begins with it.
LEMMA WatchersStart == WatchersInit => WatchersInv
<1>0. SUFFICES ASSUME WatchersInit PROVE WatchersInv OBVIOUS
<1>1. /\ feed \in Feeds /\ events = <<>> /\ loop = "select" /\ exit = "" /\ taken = <<>> /\ buf = <<>>
      /\ hand = [g \in {"loop", "ticker"} |-> <<>>] /\ jobs = <<>>
  BY <1>0 DEF WatchersInit
<1>2. daemon \in {"bridge", "slack", "teams", "itsm", "siem"}
  <2>1. PICK s \in UNION {Starts(c) : c \in Commands} : daemon = s.daemon BY <1>0 DEF WatchersInit
  <2>2. PICK c \in Commands : s \in Starts(c) OBVIOUS
  <2>3. s.daemon \in {"bridge", "slack", "teams", "itsm", "siem"} BY <2>2, StartsAre
  <2> QED BY <2>1, <2>3
<1>3. IsSeq(feed) BY <1>1, WatchersAssumption DEF IsSeq
<1>e. <<>> \in Seq(Nat) /\ Len(<<>>) = 0 /\ DOMAIN <<>> = {} OBVIOUS
<1>4. IsSeq(<<>>) BY <1>e, MakeSeq
<1>5. hand \in [{"loop", "ticker"} -> Seq(Nat)] /\ hand["loop"] = <<>> /\ hand["ticker"] = <<>> BY <1>1, <1>e
<1>6. 1..Len(jobs) = {} /\ 1..Len(events) = {} /\ 1..Len(taken) = {} /\ DOMAIN jobs = {}
  <2>1. 1..0 = {} OBVIOUS
  <2>2. 1..Len(<<>>) = {} BY <1>e, <2>1
  <2> QED BY <1>1, <1>e, <2>2, Zenon
<1>7. Shapes BY <1>1, <1>2, <1>3, <1>4, <1>5, <1>6, <1>e DEF Shapes
<1>8. Exits BY <1>1, <1>6 DEF Exits
<1>9. Ordered BY <1>6 DEF Ordered
<1>10. LoopNums = {} /\ TickerNums = {} /\ BufNums = {} BY <1>1, <1>5, NumsEmpty DEF LoopNums, TickerNums, BufNums
<1>11. JobNums = {} BY <1>6 DEF JobNums
<1>12. PlacedOnce /\ PlacedBefore /\ TakenPlaced BY <1>6, <1>10, <1>11 DEF PlacedOnce, PlacedBefore, TakenPlaced, Placed
<1> QED BY <1>7, <1>8, <1>9, <1>12 DEF WatchersInv

\* A number in the deliveries is in one of them.
LEMMA InOneJob ==
  ASSUME Shapes, PlacedOnce, NEW n, n \in JobNums
  PROVE  \E p : InBatches(n) = {p}
<1>0. DOMAIN jobs = 1..Len(jobs) BY SeqFacts DEF Shapes
<1>1. PICK j \in DOMAIN jobs : n \in Nums(jobs[j].evs) BY DEF JobNums
<1>2. \A k \in DOMAIN jobs : n \in Nums(jobs[k].evs) => k = j BY <1>0, <1>1 DEF PlacedOnce
<1>3. {i \in DOMAIN jobs : n \in Nums(jobs[i].evs)} = {j} BY <1>1, <1>2
<1>4. InBatches(n) = {<<"job", i>> : i \in {j}} BY <1>3 DEF InBatches, Nums
<1> QED BY <1>4

\* A number in none of the deliveries.
LEMMA InNoJob ==
  ASSUME NEW n, n \notin JobNums
  PROVE  InBatches(n) = {}
<1>1. {i \in DOMAIN jobs : n \in Nums(jobs[i].evs)} = {} BY DEF JobNums
<1>2. InBatches(n) = {<<"job", i>> : i \in {}} BY <1>1 DEF InBatches, Nums
<1> QED BY <1>2

\* A number in some place is in one place.
LEMMA InOnePlace ==
  ASSUME Shapes, PlacedOnce, NEW n \in Placed
  PROVE  \E p : Places(n) = {p}
<1> DEFINE holders == {h \in DOMAIN hand : n \in Nums(hand[h])}
           H == {<<"hand", g>> : g \in holders}
           B == IF n \in BufNums THEN {<<"buf", 0>>} ELSE {}
<1>0. Places(n) = InBatches(n) \cup H \cup B BY DEF Places, Nums, BufNums
<1>1. holders = (IF n \in LoopNums THEN {"loop"} ELSE {}) \cup (IF n \in TickerNums THEN {"ticker"} ELSE {})
  BY DEF Shapes, LoopNums, TickerNums
<1>2. CASE n \in JobNums
  <2>1. n \notin LoopNums /\ n \notin TickerNums /\ n \notin BufNums BY <1>2 DEF PlacedOnce
  <2>2. H = {} /\ B = {} BY <1>1, <2>1
  <2> HIDE DEF H, B
  <2> QED BY <1>0, <1>2, <2>2, InOneJob
<1>3. CASE n \in LoopNums \/ n \in TickerNums
  <2>1. InBatches(n) = {} BY <1>3, InNoJob DEF PlacedOnce
  <2>2. B = {} BY <1>3 DEF PlacedOnce
  <2>3. \E g : holders = {g} BY <1>1, <1>3 DEF PlacedOnce
  <2>4. PICK g : holders = {g} BY <2>3
  <2>5. H = {<<"hand", g>>} BY <2>4
  <2> HIDE DEF H, B
  <2> QED BY <1>0, <2>1, <2>2, <2>5
<1>4. CASE n \in BufNums
  <2>1. InBatches(n) = {} BY <1>4, InNoJob DEF PlacedOnce
  <2>2. B = {<<"buf", 0>>} BY <1>4
  <2>3. holders = {} BY <1>1, <1>4 DEF PlacedOnce
  <2>4. H = {} BY <2>3
  <2> HIDE DEF H, B
  <2> QED BY <1>0, <2>1, <2>2, <2>4
<1> QED BY <1>2, <1>3, <1>4 DEF Placed

\* A set of one.
LEMMA OneIsOne ==
  ASSUME NEW S, \E p : S = {p}
  PROVE  Cardinality(S) = 1
BY FS_Singleton

\* The invariant says what Accounted says.
LEMMA WatchersInvAccounted == WatchersInv => Accounted
<1> SUFFICES ASSUME WatchersInv PROVE Accounted OBVIOUS
<1>0. Shapes /\ Exits BY DEF WatchersInv
<1>1. DOMAIN taken = 1..Len(taken) /\ DOMAIN jobs = 1..Len(jobs) BY <1>0, SeqFacts DEF Shapes
<1>2. ASSUME daemon = "siem", NEW i \in DOMAIN taken, mapEvent(taken[i]) PROVE Cardinality(Places(taken[i].n)) = 1
  <2>1. PlacedOnce /\ TakenPlaced BY <1>2 DEF WatchersInv
  <2>2. taken[i].n \in Placed BY <1>1, <1>2, <2>1 DEF TakenPlaced, Reported
  <2>3. \E p : Places(taken[i].n) = {p} BY <1>0, <2>1, <2>2, InOnePlace
  <2> QED BY <2>3, OneIsOne
<1>3. ASSUME daemon = "bridge", NEW i \in DOMAIN taken, Match(taken[i]) PROVE Cardinality(InBatches(taken[i].n)) = 1
  <2>1. PlacedOnce /\ TakenPlaced BY <1>3 DEF WatchersInv
  <2>2. taken[i].n \in Placed BY <1>1, <1>3, <2>1 DEF TakenPlaced, Reported
  <2>j. LoopNums = {} /\ TickerNums = {} /\ BufNums = {}
    BY <1>0, <1>3, NumsEmpty DEF Shapes, LoopNums, TickerNums, BufNums
  <2>3. \E p : InBatches(taken[i].n) = {p} BY <1>0, <2>1, <2>2, <2>j, InOneJob DEF Placed
  <2> QED BY <2>3, OneIsOne
<1>4. (loop = "left" /\ exit = "done") => \A j \in DOMAIN jobs : jobs[j].report # ""
  BY <1>0, <1>1 DEF Exits, AllDone
<1> QED BY <1>2, <1>3, <1>4 DEF Accounted

\* However events, flushes, answers, retries, a lost connection and a signal interleave, and for any
\* batch size and retry schedule, an event a daemon took and is meant to report is in exactly one
\* place, and a daemon that exits for a lost connection has reported every delivery
\* (bridgecmd.go, siemout Batcher).
THEOREM DaemonsAccount == WatchersSpec => []Accounted
<1>1. WatchersInit => WatchersInv BY WatchersStart
<1>2. WatchersInv /\ [WatchersNext]_watcherVars => WatchersInv' BY WatchersStep
<1>3. WatchersInv => Accounted BY WatchersInvAccounted
<1> QED BY <1>1, <1>2, <1>3, PTL DEF WatchersSpec
==============================================================================
