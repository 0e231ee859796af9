----------------------------- MODULE SealedRecord -----------------------------
(***************************************************************************)
(* The Sealed Record on every client of a room: the hash chain of marked   *)
(* entries (tui/record/record.go, Chain) and the multi-party /seal         *)
(* handshake over its head (tui/client/record.go).                         *)
(*                                                                         *)
(* A client runs three kinds of goroutine over Client.mu: the user's       *)
(* commands, the read loop, and the 30 s seal timer.  Commands and read    *)
(* loop unlock between reading the seal state and acting on it; upc and    *)
(* rpc are where they are, uhead and rhead the head they carry across the  *)
(* unlock.  SHA-256 is taken to be collision-free, so the head of a chain  *)
(* stands for the chain itself, and <<>> for no head: an empty chain is    *)
(* never sealed.                                                           *)
(*                                                                         *)
(* net[s][d] are the frames of s that d has yet to handle, in order.  A    *)
(* frame carries the epoch it was sealed in; a /vanish moves a client to   *)
(* the next epoch, and a frame of another epoch does not decrypt.          *)
(***************************************************************************)
EXTENDS Naturals, Sequences, FiniteSets

CONSTANTS Clients,
          Clocked,      \* clients whose incident clock runs at the start
          MaxEntries,   \* bound: entries signed in one behaviour
          MaxRounds,    \* bound: seal rounds in one behaviour
          MaxVanish,    \* bound: /vanish commands
          MaxLeave,     \* bound: members that leave
          MaxActs       \* bound: entries, rounds, /vanish commands and departures together

ASSUME ClockedAssumption == Clocked \subseteq Clients
ASSUME BoundsAssumption ==
  /\ MaxEntries \in Nat /\ MaxRounds \in Nat /\ MaxVanish \in Nat /\ MaxLeave \in Nat
  /\ MaxActs \in Nat
ASSUME ClientsAssumption == IsFiniteSet(Clients)

VARIABLES chain,      \* Client.chain: entry numbers
          clock,      \* clients whose clock notes are still to be added
          pending,    \* pendingSealHead
          sealHead,   \* sealHead; sealing is sealHead # nil
          sigs,       \* sealSigs: who has signed the active round
          lastHead,   \* lastSeal.head
          lastSigs,   \* lastSeal.sigs
          timer,      \* the active round's timer: none, armed, expired
          due,        \* timer callbacks that wait for the lock
          upc, uhead, \* the user's goroutine
          rpc, rhead, \* the read loop
          view,       \* Client.order, as a set
          epoch,      \* rk.Epoch
          gone,       \* clients that disconnected
          net,
          prevOf,     \* history: the chain each entry was signed onto
          held,       \* history: every chain a client has had
          signed,     \* history: <<client, head>> for every seal signature made
          handled,    \* history: signers of the current or last round's head whose
                      \* acks the sealer handled since the round began
          rounds,     \* history: rounds initiated
          complete,   \* history: EvSealComplete that are not amendments
          vanished    \* history: /vanish commands so far

roundVars == <<sealHead, sigs, lastHead, lastSigs, timer, handled, complete>>
userVars == <<upc, uhead>>
readVars == <<rpc, rhead>>
roomVars == <<view, epoch, gone, vanished>>
chainVars == <<chain, prevOf, held>>
vars == <<chainVars, clock, pending, roundVars, due, userVars, readVars, roomVars, net,
          signed, rounds>>

Entries == 1..Len(prevOf)
Heads == Seq(Nat)
Frame == [op : {"entry", "request", "ack", "vanish", "left"}, head : Heads, e : Nat, ep : Nat]

TypeOK ==
  /\ chain \in [Clients -> Heads] /\ pending \in [Clients -> Heads]
  /\ sealHead \in [Clients -> Heads] /\ lastHead \in [Clients -> Heads]
  /\ uhead \in [Clients -> Heads] /\ rhead \in [Clients -> Heads]
  /\ sigs \in [Clients -> SUBSET Clients] /\ lastSigs \in [Clients -> SUBSET Clients]
  /\ handled \in [Clients -> SUBSET Clients] /\ view \in [Clients -> SUBSET Clients]
  /\ clock \in SUBSET Clients /\ gone \in SUBSET Clients
  /\ timer \in [Clients -> {"none", "armed", "expired"}]
  /\ upc \in [Clients -> {"idle", "notes", "decide", "ack", "request", "check", "finalize"}]
  /\ rpc \in [Clients -> {"idle", "ack", "check", "finalize"}]
  /\ due \in [Clients -> Nat] /\ epoch \in [Clients -> Nat]
  /\ rounds \in [Clients -> Nat] /\ complete \in [Clients -> Nat] /\ vanished \in Nat
  /\ net \in [Clients -> [Clients -> Seq(Frame)]]
  /\ prevOf \in Seq(Heads)
  /\ held \in [Clients -> SUBSET Heads]
  /\ signed \in SUBSET (Clients \X Heads)

Init ==
  /\ chain = [c \in Clients |-> <<>>] /\ pending = [c \in Clients |-> <<>>]
  /\ sealHead = [c \in Clients |-> <<>>] /\ lastHead = [c \in Clients |-> <<>>]
  /\ uhead = [c \in Clients |-> <<>>] /\ rhead = [c \in Clients |-> <<>>]
  /\ sigs = [c \in Clients |-> {}] /\ lastSigs = [c \in Clients |-> {}]
  /\ handled = [c \in Clients |-> {}] /\ view = [c \in Clients |-> Clients]
  /\ clock = Clocked /\ gone = {} /\ signed = {}
  /\ timer = [c \in Clients |-> "none"]
  /\ upc = [c \in Clients |-> "idle"] /\ rpc = [c \in Clients |-> "idle"]
  /\ due = [c \in Clients |-> 0] /\ epoch = [c \in Clients |-> 0]
  /\ rounds = [c \in Clients |-> 0] /\ complete = [c \in Clients |-> 0] /\ vanished = 0
  /\ net = [s \in Clients |-> [d \in Clients |-> <<>>]]
  /\ prevOf = <<>> /\ held = [c \in Clients |-> {<<>>}]

Sealing(c) == sealHead[c] # <<>>

TotalRounds == Cardinality({x \in Clients \X (1..MaxRounds) : x[2] <= rounds[x[1]]})

\* The behaviour's bound on what its actors start is not used up.
MayAct == Len(prevOf) + TotalRounds + vanished + Cardinality(gone) < MaxActs

\* sealAndSend: the frame of a connected client goes to everyone else connected.
Sent(s, op, head, e) ==
  [d \in Clients |->
     IF d = s \/ {s, d} \cap gone # {} THEN net[s][d]
     ELSE Append(net[s][d], [op |-> op, head |-> head, e |-> e, ep |-> epoch[s]])]
Broadcast(s, op, head, e) == net' = [net EXCEPT ![s] = Sent(s, op, head, e)]

------------------------------------------------------------------------------
(* The chain *)

\* Chain.Append and the broadcast of the new entry (appendSpec): a fresh entry is
\* signed onto the local head.
AppendSpec(c) ==
  LET e == Len(prevOf) + 1
  IN /\ e <= MaxEntries /\ MayAct
     /\ prevOf' = Append(prevOf, chain[c])
     /\ chain' = [chain EXCEPT ![c] = Append(@, e)]
     /\ held' = [held EXCEPT ![c] = @ \cup {chain'[c]}]
     /\ Broadcast(c, "entry", chain[c], e)

\* Decide, Action, Mark.
Decide(c) ==
  /\ upc[c] = "idle" /\ c \notin gone
  /\ AppendSpec(c)
  /\ UNCHANGED <<clock, pending, roundVars, due, userVars, readVars, roomVars, signed, rounds>>

\* Mutation: only the sequence number is compared.
LinksBySeq(c, f) == Len(f.head) = Len(chain[c])

\* Chain.AppendRemote accepts an entry that continues the local chain: its Seq and
\* PrevHash say which chain it was signed onto.
Links(c, f) == f.head = chain[c]

------------------------------------------------------------------------------
(* The /seal command *)

\* sealWith, first critical section.
Seal(c) ==
  /\ upc[c] = "idle" /\ c \notin gone
  /\ upc' = [upc EXCEPT ![c] = IF pending[c] = <<>> /\ ~Sealing(c) THEN "notes" ELSE "decide"]
  /\ UNCHANGED <<chainVars, clock, pending, roundVars, due, uhead, readVars, roomVars, net,
                 signed, rounds>>

\* appendClockNotes: once per clock session (the two notes are one entry here).
AppendClockNotes(c) ==
  /\ upc[c] = "notes"
  /\ upc' = [upc EXCEPT ![c] = "decide"]
  /\ clock' = clock \ {c}
  /\ IF c \in clock THEN AppendSpec(c) ELSE UNCHANGED <<chainVars, net>>
  /\ UNCHANGED <<pending, roundVars, due, uhead, readVars, roomVars, signed, rounds>>

\* sealWith, second critical section, a request is pending and matches our head.
SealCosigns(c) ==
  /\ upc[c] = "decide" /\ chain[c] # <<>> /\ pending[c] = chain[c]
  /\ upc' = [upc EXCEPT ![c] = "ack"]
  /\ uhead' = [uhead EXCEPT ![c] = chain[c]]
  /\ UNCHANGED <<chainVars, clock, pending, roundVars, due, readVars, roomVars, net, signed,
                 rounds>>

\* ... or there is nothing to seal, the pending request is for another head, or a
\* seal of ours is in progress: an error is returned.
SealRefused(c) ==
  /\ upc[c] = "decide"
  /\ \/ chain[c] = <<>>
     \/ pending[c] # <<>> /\ pending[c] # chain[c]
     \/ pending[c] = <<>> /\ Sealing(c)
  /\ upc' = [upc EXCEPT ![c] = "idle"]
  /\ UNCHANGED <<chainVars, clock, pending, roundVars, due, uhead, readVars, roomVars, net,
                 signed, rounds>>

\* Mutation: the round has no timer.
SealInitiatesUntimed(c) ==
  /\ upc[c] = "decide" /\ chain[c] # <<>> /\ pending[c] = <<>> /\ ~Sealing(c)
  /\ TotalRounds < MaxRounds /\ MayAct
  /\ sealHead' = [sealHead EXCEPT ![c] = chain[c]]
  /\ sigs' = [sigs EXCEPT ![c] = {c}]
  /\ signed' = signed \cup {<<c, chain[c]>>}
  /\ lastHead' = [lastHead EXCEPT ![c] = <<>>]
  /\ lastSigs' = [lastSigs EXCEPT ![c] = {}]
  /\ handled' = [handled EXCEPT ![c] = {}]
  /\ rounds' = [rounds EXCEPT ![c] = @ + 1]
  /\ uhead' = [uhead EXCEPT ![c] = chain[c]]
  /\ upc' = [upc EXCEPT ![c] = "request"]
  /\ UNCHANGED <<chainVars, clock, pending, due, timer, readVars, roomVars, net, complete>>

\* ... or a new round starts: our own signature, the amend window of the previous
\* seal closed, the timer armed.
SealInitiates(c) ==
  /\ upc[c] = "decide" /\ chain[c] # <<>> /\ pending[c] = <<>> /\ ~Sealing(c)
  /\ TotalRounds < MaxRounds /\ MayAct
  /\ sealHead' = [sealHead EXCEPT ![c] = chain[c]]
  /\ sigs' = [sigs EXCEPT ![c] = {c}]
  /\ signed' = signed \cup {<<c, chain[c]>>}
  /\ lastHead' = [lastHead EXCEPT ![c] = <<>>]
  /\ lastSigs' = [lastSigs EXCEPT ![c] = {}]
  /\ timer' = [timer EXCEPT ![c] = "armed"]
  /\ handled' = [handled EXCEPT ![c] = {}]
  /\ rounds' = [rounds EXCEPT ![c] = @ + 1]
  /\ uhead' = [uhead EXCEPT ![c] = chain[c]]
  /\ upc' = [upc EXCEPT ![c] = "request"]
  /\ UNCHANGED <<chainVars, clock, pending, due, readVars, roomVars, net, complete>>

\* The initiator's broadcast, outside the lock; maybeFinalize follows.
SealRequest(c) ==
  /\ upc[c] = "request"
  /\ Broadcast(c, "request", uhead[c], 0)
  /\ upc' = [upc EXCEPT ![c] = "check"]
  /\ uhead' = [uhead EXCEPT ![c] = <<>>]
  /\ UNCHANGED <<chainVars, clock, pending, roundVars, due, readVars, roomVars, signed, rounds>>

\* sendSealAck: sign, clear whatever request is pending by now, broadcast.
SendSealAck(c, head) ==
  /\ signed' = signed \cup {<<c, head>>}
  /\ pending' = [pending EXCEPT ![c] = <<>>]
  /\ Broadcast(c, "ack", head, 0)

UserAcks(c) ==
  /\ upc[c] = "ack"
  /\ upc' = [upc EXCEPT ![c] = "idle"]
  /\ uhead' = [uhead EXCEPT ![c] = <<>>]
  /\ SendSealAck(c, uhead[c])
  /\ UNCHANGED <<chainVars, clock, roundVars, due, readVars, roomVars, rounds>>

ReaderAcks(c) ==
  /\ rpc[c] = "ack"
  /\ rpc' = [rpc EXCEPT ![c] = "idle"]
  /\ rhead' = [rhead EXCEPT ![c] = <<>>]
  /\ SendSealAck(c, rhead[c])
  /\ UNCHANGED <<chainVars, clock, roundVars, due, userVars, roomVars, rounds>>

------------------------------------------------------------------------------
(* Finalization *)

\* maybeFinalize's test.
AllSigned(c) == Sealing(c) /\ Cardinality(sigs[c]) >= Cardinality(view[c])

\* maybeFinalize: look under the lock, finalize after it.
MaybeFinalize(c) ==
  /\ \/ /\ upc[c] = "check" /\ UNCHANGED rpc
        /\ upc' = [upc EXCEPT ![c] = IF AllSigned(c) THEN "finalize" ELSE "idle"]
     \/ /\ rpc[c] = "check" /\ UNCHANGED upc
        /\ rpc' = [rpc EXCEPT ![c] = IF AllSigned(c) THEN "finalize" ELSE "idle"]
  /\ UNCHANGED <<chainVars, clock, pending, roundVars, due, uhead, rhead, roomVars, net,
                 signed, rounds>>

\* finalizeSeal: the round that is active becomes the retained snapshot; without one
\* nothing happens.
FinalizeSeal(c) ==
  IF Sealing(c)
  THEN /\ sealHead' = [sealHead EXCEPT ![c] = <<>>]
       /\ sigs' = [sigs EXCEPT ![c] = {}]
       /\ lastHead' = [lastHead EXCEPT ![c] = sealHead[c]]
       /\ lastSigs' = [lastSigs EXCEPT ![c] = sigs[c]]
       /\ timer' = [timer EXCEPT ![c] = "none"]
       /\ complete' = [complete EXCEPT ![c] = @ + 1]
       /\ UNCHANGED handled
  ELSE UNCHANGED roundVars

\* The collection window ends: the callback of the round's timer starts.
TimerFires(c) ==
  /\ timer[c] = "armed"
  /\ timer' = [timer EXCEPT ![c] = "expired"]
  /\ due' = [due EXCEPT ![c] = @ + 1]
  /\ UNCHANGED <<chainVars, clock, pending, sealHead, sigs, lastHead, lastSigs, handled,
                 complete, userVars, readVars, roomVars, net, signed, rounds>>

\* A timer callback gets the lock.
TimerFinalizes(c) ==
  /\ due[c] > 0
  /\ due' = [due EXCEPT ![c] = @ - 1]
  /\ FinalizeSeal(c)
  /\ UNCHANGED <<chainVars, clock, pending, userVars, readVars, roomVars, net, signed, rounds>>

\* A maybeFinalize that saw everyone's signature gets the lock again.
CallerFinalizes(c) ==
  /\ \/ upc[c] = "finalize" /\ upc' = [upc EXCEPT ![c] = "idle"] /\ UNCHANGED rpc
     \/ rpc[c] = "finalize" /\ rpc' = [rpc EXCEPT ![c] = "idle"] /\ UNCHANGED upc
  /\ FinalizeSeal(c)
  /\ UNCHANGED <<chainVars, clock, pending, due, uhead, rhead, roomVars, net, signed, rounds>>

------------------------------------------------------------------------------
(* The read loop *)

\* d's read loop is at the oldest frame of s.
Reads(s, d, op) ==
  /\ rpc[d] = "idle" /\ d \notin gone
  /\ net[s][d] # <<>> /\ Head(net[s][d]).op = op
  /\ net' = [net EXCEPT ![s][d] = Tail(@)]

\* handleEncrypted opens a frame of the reader's epoch.
Opens(s, d, op) == Reads(s, d, op) /\ Head(net[s][d]).ep = epoch[d]

\* A frame of another epoch does not decrypt.
Undecryptable(s, d) ==
  /\ \E op \in {"entry", "request", "ack"} : Reads(s, d, op)
  /\ Head(net[s][d]).ep # epoch[d]
  /\ UNCHANGED <<chainVars, clock, pending, roundVars, due, userVars, readVars, roomVars,
                 signed, rounds>>

\* onRecordEntry: append what links, reject the rest.
OnRecordEntry(s, d) ==
  LET f == Head(net[s][d])
  IN /\ Opens(s, d, "entry")
     /\ chain' = [chain EXCEPT ![d] = IF Links(d, f) THEN Append(@, f.e) ELSE @]
     /\ held' = [held EXCEPT ![d] = @ \cup {chain'[d]}]
     /\ UNCHANGED <<prevOf, clock, pending, roundVars, due, userVars, readVars, roomVars,
                    signed, rounds>>

\* onSealRequest: remember it, and co-sign at once if we are sealing the same head.
OnSealRequest(s, d) ==
  LET f == Head(net[s][d])
      autoAck == Sealing(d) /\ f.head = sealHead[d]
  IN /\ Opens(s, d, "request")
     /\ pending' = [pending EXCEPT ![d] = f.head]
     /\ rpc' = [rpc EXCEPT ![d] = IF autoAck THEN "ack" ELSE @]
     /\ rhead' = [rhead EXCEPT ![d] = IF autoAck THEN f.head ELSE @]
     /\ UNCHANGED <<chainVars, clock, roundVars, due, userVars, roomVars, signed, rounds>>

\* Mutation: an ack that is not for the active round is dropped.
OnSealAckActiveOnly(s, d) ==
  LET f == Head(net[s][d])
      active == Sealing(d) /\ f.head = sealHead[d]
      amend == ~active /\ lastHead[d] # <<>> /\ f.head = lastHead[d]
  IN /\ Opens(s, d, "ack")
     /\ sigs' = [sigs EXCEPT ![d] = IF active THEN @ \cup {s} ELSE @]
     /\ handled' = [handled EXCEPT ![d] = IF active \/ amend THEN @ \cup {s} ELSE @]
     /\ rpc' = [rpc EXCEPT ![d] = IF active THEN "check" ELSE @]
     /\ UNCHANGED <<chainVars, clock, pending, sealHead, lastHead, lastSigs, timer, complete,
                    due, userVars, rhead, roomVars, signed, rounds>>

\* onSealAck: count it in the active round, or amend the retained seal, or report it.
OnSealAck(s, d) ==
  LET f == Head(net[s][d])
      active == Sealing(d) /\ f.head = sealHead[d]
      amend == ~active /\ lastHead[d] # <<>> /\ f.head = lastHead[d]
  IN /\ Opens(s, d, "ack")
     /\ sigs' = [sigs EXCEPT ![d] = IF active THEN @ \cup {s} ELSE @]
     /\ lastSigs' = [lastSigs EXCEPT ![d] = IF amend THEN @ \cup {s} ELSE @]
     /\ handled' = [handled EXCEPT ![d] = IF active \/ amend THEN @ \cup {s} ELSE @]
     /\ rpc' = [rpc EXCEPT ![d] = IF active THEN "check" ELSE @]
     /\ UNCHANGED <<chainVars, clock, pending, sealHead, lastHead, timer, complete, due,
                    userVars, rhead, roomVars, signed, rounds>>

\* onMemberLeft.
OnMemberLeft(s, d) ==
  /\ Reads(s, d, "left")
  /\ view' = [view EXCEPT ![d] = @ \ {s}]
  /\ UNCHANGED <<chainVars, clock, pending, roundVars, due, userVars, readVars, epoch, gone,
                 vanished, signed, rounds>>

\* ratchetForward and resetCoordinationLocked, with clearSealLocked.
Reset(c) ==
  /\ epoch' = [epoch EXCEPT ![c] = @ + 1]
  /\ chain' = [chain EXCEPT ![c] = <<>>]
  /\ clock' = clock \ {c}
  /\ pending' = [pending EXCEPT ![c] = <<>>]
  /\ sealHead' = [sealHead EXCEPT ![c] = <<>>]
  /\ sigs' = [sigs EXCEPT ![c] = {}]
  /\ lastHead' = [lastHead EXCEPT ![c] = <<>>]
  /\ lastSigs' = [lastSigs EXCEPT ![c] = {}]
  /\ timer' = [timer EXCEPT ![c] = "none"]
  /\ handled' = [handled EXCEPT ![c] = {}]
  /\ UNCHANGED <<prevOf, held, complete, due, userVars, readVars, view, gone, signed, rounds>>

\* The /vanish command; its control frame is not encrypted.
Ratchets(c) ==
  /\ upc[c] = "idle" /\ c \notin gone /\ vanished < MaxVanish /\ MayAct
  /\ vanished' = vanished + 1
  /\ Reset(c)
Vanish(c) == Ratchets(c) /\ Broadcast(c, "vanish", <<>>, 0)

\* The same while the read loop, which has opened the first frame of s, waits for the
\* lock of its handler: the frame is handled all the same, as one of the new epoch.
VanishOver(s, c) ==
  /\ Ratchets(c) /\ s # c /\ rpc[c] = "idle"
  /\ net[s][c] # <<>> /\ Head(net[s][c]).op \in {"entry", "request", "ack"} /\ Head(net[s][c]).ep = epoch[c]
  /\ net' = [net EXCEPT ![c] = Sent(c, "vanish", <<>>, 0), ![s][c][1].ep = @ + 1]

\* onControl / ActionVanish.
OnVanish(s, d) ==
  /\ Reads(s, d, "vanish")
  /\ Reset(d)
  /\ UNCHANGED vanished

\* A client disconnects; the relay tells the others after its last frame.
Leave(c) ==
  /\ c \notin gone /\ Cardinality(gone) < MaxLeave /\ MayAct
  /\ gone' = gone \cup {c}
  /\ Broadcast(c, "left", <<>>, 0)
  /\ UNCHANGED <<chainVars, clock, pending, roundVars, due, userVars, readVars, view, epoch,
                 vanished, signed, rounds>>

Command(c) ==
  \/ Decide(c) \/ Seal(c) \/ AppendClockNotes(c) \/ SealCosigns(c) \/ SealRefused(c)
  \/ SealInitiates(c) \/ SealRequest(c) \/ UserAcks(c) \/ Vanish(c)
  \/ \E s \in Clients : VanishOver(s, c)

Read(s, d) ==
  \/ Undecryptable(s, d) \/ OnRecordEntry(s, d) \/ OnSealRequest(s, d) \/ OnSealAck(s, d)
  \/ OnMemberLeft(s, d) \/ OnVanish(s, d)

Next ==
  \/ \E c \in Clients : \/ Command(c) \/ ReaderAcks(c) \/ MaybeFinalize(c) \/ CallerFinalizes(c)
                        \/ TimerFires(c) \/ TimerFinalizes(c) \/ Leave(c)
  \/ \E s, d \in Clients : Read(s, d)

Spec == Init /\ [][Next]_vars

\* The runtime fires every armed timer and runs its callback.
SealFair == \A c \in Clients : WF_vars(TimerFires(c)) /\ WF_vars(TimerFinalizes(c))
FairSpec == Spec /\ SealFair

------------------------------------------------------------------------------
(* Properties *)

\* Every local chain is a chain: each entry sits on the very entries its author
\* signed it onto, whatever arrived in which order and whatever forked.
ChainLinked ==
  \A c \in Clients : \A i \in 1..Len(chain[c]) :
    /\ chain[c][i] \in Entries
    /\ prevOf[chain[c][i]] = SubSeq(chain[c], 1, i - 1)

\* Nobody vouches for a record it has not held: every seal signature is over a chain
\* the signer itself had, and every signature a sealer counts, in the open round or
\* in the retained record, was made over exactly that head.
SealSound ==
  /\ \A x \in signed : x[2] # <<>> /\ x[2] \in held[x[1]]
  /\ \A c \in Clients : /\ \A d \in sigs[c] : <<d, sealHead[c]>> \in signed
                        /\ \A d \in lastSigs[c] : <<d, lastHead[c]>> \in signed

\* "No verified signature is ever lost": a co-signature for the head of the open or
\* of the last finalized round, handled before or after finalization, is in it.
NoSignatureLost ==
  \A c \in Clients : handled[c] \subseteq (IF Sealing(c) THEN sigs[c] ELSE lastSigs[c])

\* A round completes at most once: timer, early completion and two goroutines that
\* both saw the last signature never finalize one round twice.
OneCompletion == \A c \in Clients : complete[c] + (IF Sealing(c) THEN 1 ELSE 0) <= rounds[c]

\* Both of the above: what a client holds as its record, and whose names it puts on it,
\* is what the room signed.
RecordSound == ChainLinked /\ SealSound

\* Both of the above: signature collection neither drops nor repeats, whichever of
\* read loop, command and timer finishes the round.
CollectedOnce == NoSignatureLost /\ OneCompletion

\* A client is not sealing forever.
SealEnds == \A c \in Clients : Sealing(c) ~> ~Sealing(c)
==============================================================================
