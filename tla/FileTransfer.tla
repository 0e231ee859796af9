---------------------------- MODULE FileTransfer ----------------------------
(***************************************************************************)
(* The ephemeral artifact courier (tui/client/file.go): one sender streams *)
(* the chunks of an artifact to every member of the room, paced by their   *)
(* acknowledgements; each receiver reassembles them in memory and writes   *)
(* the artifact out once.  The relay forwards the frames and drops what a  *)
(* full buffer cannot take.                                                *)
(*                                                                         *)
(* The sender has two goroutines: streamChunks, and the read loop that     *)
(* routes acknowledgements and aborts into its channels.                   *)
(***************************************************************************)
EXTENDS Naturals, Sequences, FiniteSets, FiniteSetsExt

CONSTANTS Receivers,   \* the other members of the room
          Chunks,      \* number of chunks of the artifact
          FileWindow,  \* fileWindow
          AckEvery,    \* fileAckEvery
          AckCap,      \* capacity of sendState.acks
          WireCap,     \* bound: frames queued towards one client; more are dropped
          MaxDamage    \* bound: chunks damaged on the way

ASSUME FileAssumption ==
  /\ {Chunks, FileWindow, AckEvery, AckCap, WireCap} \subseteq Nat \ {0}
  /\ MaxDamage \in Nat

VARIABLES xpc,      \* idle, offered (offer queued, c.sends not yet set), stream, sent, failed, gone
          sending,  \* i: chunks streamed so far
          maxAck,
          ackCh,    \* sendState.acks
          abortCh,  \* sendState.aborts, one slot
          grace,    \* history: the flush deadline stood in for an acknowledgement
          recv,     \* c.recvs by receiver: none, open, written, failed
          got,      \* the chunks a receiver has
          down,     \* frames on their way to a receiver
          up,       \* frames on their way to the sender
          damage

fileVars == <<xpc, sending, maxAck, ackCh, abortCh, grace, recv, got, down, up, damage>>
wireVars == <<down, up, damage>>

FileInit ==
  /\ xpc = "idle" /\ sending = 0 /\ maxAck = 0 /\ ackCh = <<>> /\ abortCh = FALSE /\ grace = FALSE
  /\ recv = [r \in Receivers |-> "none"]
  /\ got = [r \in Receivers |-> {}]
  /\ down = [r \in Receivers |-> <<>>]
  /\ up = <<>> /\ damage = 0

Put(q, f) == IF Len(q) < WireCap THEN Append(q, f) ELSE q
Whole == 1..Chunks
Received(r) == Cardinality(got[r])

\* enqueue by the sender, and the relay's fan-out to every receiver.
ToAll(f) == down' = [r \in Receivers |-> Put(down[r], f)]
\* enqueue by receiver r: the sender and the other receivers get it.
FromReceiver(r, q, f) ==
  /\ up' = Put(q, f)
  /\ down' = [s \in Receivers |-> IF s = r THEN Tail(down[s]) ELSE Put(down[s], f)]

------------------------------------------------------------------------------
(* SendFile and streamChunks *)

SendFile ==
  /\ xpc = "idle"
  /\ xpc' = "offered" /\ ToAll([t |-> "offer"])
  /\ UNCHANGED <<sending, maxAck, ackCh, abortCh, grace, recv, got, up, damage>>

\* c.sends[tid] = ss comes after the offer has been queued.
RegisterSend ==
  /\ xpc = "offered" /\ xpc' = "stream"
  /\ UNCHANGED <<sending, maxAck, ackCh, abortCh, grace, recv, got, wireVars>>

\* One acknowledgement, or the abort, out of sendState's channels.
TakeAck ==
  /\ ackCh # <<>>
  /\ maxAck' = Max({maxAck, Head(ackCh)}) /\ ackCh' = Tail(ackCh)
  /\ UNCHANGED <<xpc, abortCh>>
TakeAbort ==
  /\ abortCh
  /\ xpc' = "failed" /\ abortCh' = FALSE
  /\ UNCHANGED <<maxAck, ackCh>>

\* One chunk inside the window, then whatever is already in the channels.
StreamChunk ==
  /\ xpc = "stream" /\ sending < Chunks /\ sending - maxAck < FileWindow
  /\ sending' = sending + 1 /\ ToAll([t |-> "chunk", k |-> sending + 1])
  /\ \/ TakeAck \/ TakeAbort
     \/ ackCh = <<>> /\ ~abortCh /\ UNCHANGED <<xpc, maxAck, ackCh, abortCh>>
  /\ UNCHANGED <<grace, recv, got, up, damage>>

\* The window is full, or all chunks are out and the last acknowledgement is missing.
Waiting ==
  /\ xpc = "stream"
  /\ \/ sending < Chunks /\ sending - maxAck >= FileWindow
     \/ sending = Chunks /\ maxAck < Chunks
WaitForReceiver ==
  /\ Waiting /\ (TakeAck \/ TakeAbort)
  /\ UNCHANGED <<sending, grace, recv, got, wireVars>>

\* Mutation: no timer on a full window.
NoStall == FALSE /\ UNCHANGED fileVars

\* fileStall: give up and tell the receivers.
Stall ==
  /\ Waiting /\ sending < Chunks
  /\ xpc' = "failed" /\ ToAll([t |-> "abort"])
  /\ UNCHANGED <<sending, maxAck, ackCh, abortCh, grace, recv, got, up, damage>>

\* fileFlushGrace: "delivered as far as we can tell".
FlushDeadline ==
  /\ Waiting /\ sending = Chunks
  /\ maxAck' = Chunks /\ grace' = TRUE
  /\ UNCHANGED <<xpc, sending, ackCh, abortCh, recv, got, wireVars>>

FileSent ==
  /\ xpc = "stream" /\ sending = Chunks /\ maxAck >= Chunks
  /\ xpc' = "sent"
  /\ UNCHANGED <<sending, maxAck, ackCh, abortCh, grace, recv, got, wireVars>>

\* The sender's session ends; the relay aborts its transfer for the receivers.
SenderGone ==
  /\ xpc \in {"offered", "stream"}
  /\ xpc' = "gone" /\ ToAll([t |-> "abort"])
  /\ UNCHANGED <<sending, maxAck, ackCh, abortCh, grace, recv, got, up, damage>>

\* onFileAck and onFileAbort at the sender: only a registered transfer listens, a
\* full channel drops.
OnSenderFrame ==
  /\ up # <<>> /\ up' = Tail(up)
  /\ LET f == Head(up)
     IN /\ ackCh' = IF xpc = "stream" /\ f.t = "ack" /\ Len(ackCh) < AckCap
                    THEN Append(ackCh, f.k) ELSE ackCh
        /\ abortCh' = (abortCh \/ (xpc = "stream" /\ f.t = "abort"))
  /\ UNCHANGED <<xpc, sending, maxAck, grace, recv, got, down, damage>>

------------------------------------------------------------------------------
(* The receivers' read loops *)

TakeFrame(r, t) == down[r] # <<>> /\ Head(down[r]).t = t
DropFrame(r) == down' = [down EXCEPT ![r] = Tail(@)]
senderVars == <<xpc, sending, maxAck, ackCh, abortCh, grace>>

\* onFileOffer: without a room key, or from a member not known yet, the offer is passed
\* over; the size cap and sanitizeFilename may refuse it; otherwise buffering begins.
OnFileOffer(r) ==
  /\ TakeFrame(r, "offer")
  /\ \/ DropFrame(r) /\ UNCHANGED <<recv, up>>
     \/ recv' = [recv EXCEPT ![r] = "failed"] /\ FromReceiver(r, up, [t |-> "abort"])
     \/ recv' = [recv EXCEPT ![r] = "open"] /\ DropFrame(r) /\ UNCHANGED up
  /\ UNCHANGED <<senderVars, got, damage>>

\* Mutation: the position of the chunk taken for the number received.
AckOfIndex(n, k) == k

\* What an acknowledgement says, and when one is due: n chunks received, chunk k last.
AckOf(n, k) == n
AckDue(n) == n % AckEvery = 0 \/ n = Chunks

\* onFileChunk: counted once, acknowledged every AckEvery, written out when complete
\* (finalizeRecv: the digest matches what was sent, the local write may fail).
OnFileChunk(r) ==
  LET k == Head(down[r]).k
      n == Cardinality(got[r] \cup {k})
  IN /\ TakeFrame(r, "chunk") /\ recv[r] = "open"
     /\ got' = [got EXCEPT ![r] = @ \cup {k}]
     /\ IF AckDue(n) THEN FromReceiver(r, up, [t |-> "ack", k |-> AckOf(n, k)])
                     ELSE DropFrame(r) /\ UNCHANGED up
     /\ \E fate \in (IF n = Chunks THEN {"written", "failed"} ELSE {"open"}) :
          recv' = [recv EXCEPT ![r] = fate]
     /\ UNCHANGED <<senderVars, damage>>

\* A chunk that does not open: abortRecv.
OnBadChunk(r) ==
  /\ TakeFrame(r, "chunk") /\ recv[r] = "open" /\ damage < MaxDamage
  /\ damage' = damage + 1
  /\ recv' = [recv EXCEPT ![r] = "failed"]
  /\ FromReceiver(r, up, [t |-> "abort"])
  /\ UNCHANGED <<senderVars, got>>

\* A chunk of no transfer of ours, or another receiver's acknowledgement.
OnStrayFrame(r) ==
  /\ \/ TakeFrame(r, "ack")
     \/ TakeFrame(r, "chunk") /\ recv[r] # "open"
  /\ DropFrame(r)
  /\ UNCHANGED <<senderVars, recv, got, up, damage>>

\* onFileAbort at a receiver: from the sender or, relayed to the room, from another receiver.
OnFileAbort(r) ==
  /\ TakeFrame(r, "abort")
  /\ recv' = [recv EXCEPT ![r] = IF @ = "open" THEN "failed" ELSE @]
  /\ DropFrame(r)
  /\ UNCHANGED <<senderVars, got, up, damage>>

SenderStep == RegisterSend \/ StreamChunk \/ WaitForReceiver \/ Stall \/ FlushDeadline \/ FileSent
ReceiverStep(r) == OnFileOffer(r) \/ OnFileChunk(r) \/ OnBadChunk(r) \/ OnStrayFrame(r) \/ OnFileAbort(r)
FileNext == SendFile \/ SenderStep \/ SenderGone \/ OnSenderFrame \/ \E r \in Receivers : ReceiverStep(r)

\* The goroutines run on and the timers fire.
FileFair ==
  /\ WF_fileVars(SenderStep) /\ WF_fileVars(OnSenderFrame)
  /\ \A r \in Receivers : WF_fileVars(ReceiverStep(r))

------------------------------------------------------------------------------
(* Properties *)

\* Flow control as streamChunks has it: the sender never runs more than a window ahead of what
\* the QUICKEST receiver has, however late the acknowledgements are and whichever were dropped.
WithinWindow == sending <= FileWindow + Max({Received(r) : r \in Receivers} \cup {0})
                \/ sending = 0

\* Flow control as streamChunks promises it, "within a window of the slowest acknowledgement",
\* so that it "never overruns a receiver".  One maximum over all receivers cannot keep that.
SlowestPaced == \A r \in Receivers : recv[r] = "open" => sending <= FileWindow + Received(r)

\* EvFileSent before the flush deadline means that some receiver has the whole
\* artifact: an acknowledgement never counts more than was received.
SentIsBacked == (xpc = "sent" /\ ~grace) => \E r \in Receivers : got[r] = Whole

\* A transfer ends: sent, failed or given up with the session, even when every
\* receiver refuses, stalls or loses frames.
TransferEnds == (xpc \in {"offered", "stream"}) ~> (xpc \in {"sent", "failed", "gone"})

\* The acknowledgements a sender goes by, for its pace and for its verdict, are backed by what
\* SOME receiver has; the pace of the slowest is SlowestPaced.
AcksTrusted == WithinWindow /\ SentIsBacked
=============================================================================
