------------------------------- MODULE Session -------------------------------
(***************************************************************************)
(* The client session (tui/client/client.go) against the relay's join,     *)
(* departure and fan-out (server/internal/ws/server.go, Server.serve): who *)
(* a client believes is in the room, which room key it holds, and which    *)
(* frames it can open.                                                     *)
(*                                                                         *)
(* A client runs two goroutines that share its state: the read loop, which *)
(* handles the frames of inbox[c] in order, and the caller of Send, Ack,   *)
(* Handoff and Vanish (the user interface).  The relay runs one goroutine  *)
(* per connection; hub.Broadcast snapshots the recipients under the lock   *)
(* and sends to them one by one afterwards, so two broadcasts may reach    *)
(* two receivers in different orders (todo[c] holds the sends left).       *)
(*                                                                         *)
(* enqueue and the connection's read by the relay are one step: delaying a *)
(* client's later steps until the relay has read the frame changes nothing *)
(* anybody observes.  A connection joins once; a client that comes back is *)
(* another member of Clients, as the relay gives it a new id.              *)
(***************************************************************************)
EXTENDS Naturals, Sequences, FiniteSets, SequencesExt

CONSTANTS Clients,    \* connections
          Scenarios,  \* where to start and how far to go: [seated, absent, budget, keeps]
          NoKey,      \* c.rk = nil
          Zeroed,     \* the key material RoomKey.Zero leaves behind
          History,    \* bound: envelopes the store keeps per room
          OutCap      \* bound: frames queued towards one client (conn.out and its socket)

\* A RoomKey: what its bytes were derived from (the key a founder minted, or zeroes), the
\* epoch that was at, and the epoch it is at now.
Keys == [by : Clients \cup {Zeroed}, root : Nat, epoch : Nat]

ASSUME ClientsAssumption == IsFiniteSet(Clients)
ASSUME KeyMarks == NoKey \notin Clients /\ Zeroed \notin Clients /\ NoKey \notin Keys
ASSUME SessionBounds == History \in Nat \ {0} /\ OutCap \in Nat \ {0}
ASSUME ScenarioShape ==
  \A r \in Scenarios :
    /\ r.seated \in Seq(Clients)
    /\ \A i, j \in DOMAIN r.seated : r.seated[i] = r.seated[j] => i = j
    /\ r.budget \in [sends : Nat, vanishes : Nat, leaves : Nat]
    /\ r.keeps \in BOOLEAN

VARIABLES room,      \* hub room.order: the registered members, oldest first
          conn,      \* control point of Server.serve for this connection
          joinRes,   \* hub.JoinResult: the members found, oldest first
          todo,      \* the sends left of the broadcast this connection's goroutine is in
          keeps,     \* the room keeps history (cfg.PersistRoom)
          hist,      \* the room's stored envelopes
          inbox,     \* frames on their way to a client
          members,   \* c.members
          order,     \* c.order
          rk,        \* *c.rk
          pending,   \* c.pending
          acks,      \* c.acks for one tag
          ic,        \* c.ic, a member or NoKey for none
          rd,        \* the read loop between two critical sections of one handler
          ui,        \* the caller between two critical sections of one operation
          sent,      \* frames sealed so far, by client
          budget,    \* bound: sends, vanishes and departures still to come
          surfaced,  \* history: the frames a client surfaced, in order
          raced,     \* history: a /vanish overlapped a member's wait for its key, a member was
                     \* asked for a key it did not hold, or a full buffer dropped a frame
          slipped    \* history: the clients whose own /vanish found their read loop with a
                     \* frame it goes on to apply all the same

relayVars == <<room, conn, joinRes, todo, keeps, hist>>
clientVars == <<members, order, rk, pending, acks, ic, rd, ui>>
countVars == <<sent, budget, surfaced, raced, slipped>>
vars == <<relayVars, inbox, clientVars, countVars>>

Idle == [at |-> "idle"]
NoSends == [to |-> {}, msg |-> Idle]

\* A room in which the members of r.seated have joined one after the other and
\* everything has been delivered (the empty room among them); the clients of
\* r.absent never come.
Seated(r) ==
  LET in == ToSet(r.seated)
  IN /\ room = r.seated
     /\ conn = [c \in Clients |-> IF c \in in THEN "relay" ELSE IF c \in r.absent THEN "absent" ELSE "new"]
     /\ members = [c \in Clients |-> IF c \in in THEN in \ {c} ELSE {}]
     /\ order = [c \in Clients |-> IF c \in in THEN r.seated ELSE <<>>]
     /\ rk = [c \in Clients |-> IF c \in in THEN [by |-> Head(r.seated), root |-> 0, epoch |-> 0] ELSE NoKey]
     /\ ic = [c \in Clients |-> IF c \in in THEN Head(r.seated) ELSE NoKey]
     /\ budget = r.budget /\ keeps = r.keeps

Init ==
  /\ \E r \in Scenarios : Seated(r)
  /\ hist = <<>>
  /\ joinRes = [c \in Clients |-> <<>>]
  /\ todo = [c \in Clients |-> NoSends]
  /\ inbox = [c \in Clients |-> <<>>]
  /\ pending = [c \in Clients |-> <<>>]
  /\ acks = [c \in Clients |-> {}]
  /\ rd = [c \in Clients |-> Idle]
  /\ ui = [c \in Clients |-> Idle]
  /\ sent = [c \in Clients |-> 0]
  /\ surfaced = [c \in Clients |-> <<>>]
  /\ raced = FALSE /\ slipped = {}

------------------------------------------------------------------------------
(* The relay *)

Present == ToSet(room)
InFlight(c, t) == (\E i \in DOMAIN inbox[c] : inbox[c][i].t = t)
                  \/ \E d \in Clients : c \in todo[d].to /\ todo[d].msg.t = t

\* conn.send: a full outbound buffer drops the frame.
Overflows(c, msgs) == Len(inbox[c]) + Len(msgs) > OutCap
Queued(c, msgs) == inbox' = [inbox EXCEPT ![c] = IF Overflows(c, msgs) THEN SubSeq(@ \o msgs, 1, OutCap)
                                                 ELSE @ \o msgs]

\* The relay loop has this broadcast left: the sends to these members, and the entry in
\* the store, which follows them (relay, OpMessage).
Stored(msg) == keeps /\ msg.t = "enc" /\ msg.op = "message"
Sends(to, msg) == IF to = {} /\ ~Stored(msg) THEN NoSends ELSE [to |-> to, msg |-> msg]

\* hub.Broadcast, its first half: the recipients under the lock.
Broadcast(c, msg) ==
  /\ todo[c] = NoSends
  /\ todo' = [todo EXCEPT ![c] = Sends(Present \ {c}, msg)]

\* hub.Broadcast, one send to one recipient.
FanOut(c, d) ==
  /\ d \in todo[c].to
  /\ todo' = [todo EXCEPT ![c] = Sends(@.to \ {d}, @.msg)]
  /\ IF conn[d] \in {"leaving", "gone"} THEN UNCHANGED inbox ELSE Queued(d, <<todo[c].msg>>)
  /\ raced' = (raced \/ (conn[d] \notin {"leaving", "gone"} /\ Overflows(d, <<todo[c].msg>>)))
  /\ UNCHANGED <<room, conn, joinRes, keeps, hist, clientVars, sent, budget, surfaced, slipped>>

\* store.Append, after the fan-out.
Store(c) ==
  /\ todo[c] # NoSends /\ todo[c].to = {}
  /\ hist' = SubSeq(Append(hist, todo[c].msg), IF Len(hist) < History THEN 1 ELSE 2, Len(hist) + 1)
  /\ todo' = [todo EXCEPT ![c] = NoSends]
  /\ UNCHANGED <<room, conn, joinRes, keeps, inbox, clientVars, countVars>>

\* ConnectWith's Hello and hub.Join, under the hub's lock.
Join(c) ==
  /\ conn[c] = "new"
  /\ joinRes' = [joinRes EXCEPT ![c] = room]
  /\ room' = Append(room, c)
  /\ conn' = [conn EXCEPT ![c] = "joined"]
  /\ raced' = (raced \/ \E d \in Clients : InFlight(d, "vanish") \/ ui[d].at = "vanish")
  /\ UNCHANGED <<todo, keeps, hist, inbox, clientVars, sent, budget, surfaced, slipped>>

\* The Welcome, with the members hub.Join found.
SendWelcome(c) ==
  /\ conn[c] = "joined"
  /\ Queued(c, <<[t |-> "welcome", existing |-> joinRes[c]]>>)
  /\ raced' = (raced \/ Overflows(c, <<Idle>>))
  /\ conn' = [conn EXCEPT ![c] = "welcomed"]
  /\ UNCHANGED <<room, joinRes, todo, keeps, hist, clientVars, sent, budget, surfaced, slipped>>

\* History replay to the newcomer: store.History.
Replay(c) ==
  /\ conn[c] = "welcomed"
  /\ Queued(c, hist)
  /\ raced' = (raced \/ Overflows(c, hist))
  /\ conn' = [conn EXCEPT ![c] = "replayed"]
  /\ UNCHANGED <<room, joinRes, todo, keeps, hist, clientVars, sent, budget, surfaced, slipped>>

Announce(c) ==
  /\ conn[c] = "replayed"
  /\ Broadcast(c, [t |-> "joined", who |-> c])
  /\ conn' = [conn EXCEPT ![c] = "announced"]
  /\ UNCHANGED <<room, joinRes, keeps, hist, inbox, clientVars, countVars>>

\* Mutation: the request goes out only when the newcomer is the second member.
AskDistributorOnce(c) ==
  /\ conn[c] = "announced" /\ todo[c] = NoSends
  /\ conn' = [conn EXCEPT ![c] = "relay"]
  /\ IF Len(joinRes[c]) # 1 THEN UNCHANGED <<inbox, raced>>
     ELSE /\ Queued(Head(joinRes[c]), <<[t |-> "keyreq", who |-> c]>>)
          /\ raced' = (raced \/ Overflows(Head(joinRes[c]), <<Idle>>))
  /\ UNCHANGED <<room, joinRes, todo, keeps, hist, clientVars, sent, budget, surfaced, slipped>>

\* The key request to the distributor hub.Join named: the oldest member then.
AskDistributor(c) ==
  /\ conn[c] = "announced" /\ todo[c] = NoSends
  /\ conn' = [conn EXCEPT ![c] = "relay"]
  /\ IF joinRes[c] = <<>> \/ conn[Head(joinRes[c])] \in {"leaving", "gone"}
     THEN UNCHANGED <<inbox, raced>>
     ELSE /\ Queued(Head(joinRes[c]), <<[t |-> "keyreq", who |-> c]>>)
          /\ raced' = (raced \/ Overflows(Head(joinRes[c]), <<Idle>>))
  /\ UNCHANGED <<room, joinRes, todo, keeps, hist, clientVars, sent, budget, surfaced, slipped>>

\* The connection ends: hub.Leave.  The session is over and its state dropped.
Leave(c) ==
  /\ conn[c] = "relay" /\ todo[c] = NoSends /\ budget.leaves > 0
  /\ budget' = [budget EXCEPT !.leaves = @ - 1]
  /\ room' = RemoveFirst(room, c)
  /\ conn' = [conn EXCEPT ![c] = "leaving"]
  /\ joinRes' = [joinRes EXCEPT ![c] = <<>>]
  /\ inbox' = [inbox EXCEPT ![c] = <<>>]
  /\ members' = [members EXCEPT ![c] = {}]
  /\ order' = [order EXCEPT ![c] = <<>>]
  /\ rk' = [rk EXCEPT ![c] = NoKey]
  /\ pending' = [pending EXCEPT ![c] = <<>>]
  /\ acks' = [acks EXCEPT ![c] = {}]
  /\ ic' = [ic EXCEPT ![c] = NoKey]
  /\ rd' = [rd EXCEPT ![c] = Idle]
  /\ ui' = [ui EXCEPT ![c] = Idle]
  /\ surfaced' = [surfaced EXCEPT ![c] = <<>>]
  /\ UNCHANGED <<todo, keeps, hist, sent, raced, slipped>>

Depart(c) ==
  /\ conn[c] = "leaving"
  /\ Broadcast(c, [t |-> "left", who |-> c])
  /\ conn' = [conn EXCEPT ![c] = "gone"]
  /\ UNCHANGED <<room, joinRes, keeps, hist, inbox, clientVars, countVars>>

------------------------------------------------------------------------------
(* The client: helpers *)

\* Where the read loop goes when it is done with a frame: replayPending has these left.
Resume(left) == IF left = <<>> THEN Idle ELSE [at |-> "replay", left |-> left]

\* ratchetForward: nothing without a key; else the next epoch, and the old key's
\* bytes are zeroed under whoever still holds the pointer.
Wiped(key) == [key EXCEPT !.by = Zeroed, !.root = key.epoch]
Ratcheted(key) == IF key = NoKey THEN NoKey ELSE [key EXCEPT !.epoch = @ + 1]
ZeroHeld(hold, c) == IF "key" \in DOMAIN hold[c] /\ rk[c] # NoKey
                     THEN [hold EXCEPT ![c].key = Wiped(@)] ELSE hold

\* oldestHolderLocked
OldestHolder(c) == IF order[c] = <<>> THEN NoKey ELSE Head(order[c])

Take(c, t) == /\ conn[c] \notin {"leaving", "gone"}
              /\ rd[c] = Idle /\ inbox[c] # <<>> /\ Head(inbox[c]).t = t
Taken(c) == inbox' = [inbox EXCEPT ![c] = Tail(@)]

------------------------------------------------------------------------------
(* The client: frames handled by the read loop *)

\* onWelcome: order is rebuilt from the Welcome, members are only added; the
\* founder mints the epoch-0 key and replays what was pending.
OnWelcome(c) ==
  LET w == Head(inbox[c])
  IN /\ Take(c, "welcome") /\ Taken(c)
     /\ members' = [members EXCEPT ![c] = @ \cup ToSet(w.existing)]
     /\ order' = [order EXCEPT ![c] = Append(w.existing, c)]
     /\ ic' = [ic EXCEPT ![c] = Head(Append(w.existing, c))]
     /\ IF w.existing = <<>>
        THEN /\ rk' = [rk EXCEPT ![c] = [by |-> c, root |-> 0, epoch |-> 0]]
             /\ pending' = [pending EXCEPT ![c] = <<>>]
             /\ rd' = [rd EXCEPT ![c] = Resume(pending[c])]
        ELSE UNCHANGED <<rk, pending, rd>>
     /\ UNCHANGED <<relayVars, acks, ui, countVars>>

\* onMemberJoined: appended whether or not it is already listed.
OnMemberJoined(c) ==
  LET d == Head(inbox[c]).who
  IN /\ Take(c, "joined") /\ Taken(c)
     /\ members' = [members EXCEPT ![c] = @ \cup {d}]
     /\ order' = [order EXCEPT ![c] = Append(@, d)]
     /\ UNCHANGED <<relayVars, rk, pending, acks, ic, rd, ui, countVars>>

\* onMemberLeft: the first listing goes; the incident commander stays who it was.
OnMemberLeft(c) ==
  LET d == Head(inbox[c]).who
  IN /\ Take(c, "left") /\ Taken(c)
     /\ members' = [members EXCEPT ![c] = @ \ {d}]
     /\ order' = [order EXCEPT ![c] = IF d \in ToSet(@) THEN RemoveFirst(@, d) ELSE @]
     /\ UNCHANGED <<relayVars, rk, pending, acks, ic, rd, ui, countVars>>

\* onKeyRequest, first critical section: the key pointer, or an error event.
OnKeyRequest(c) ==
  /\ Take(c, "keyreq") /\ Taken(c)
  /\ rd' = [rd EXCEPT ![c] = IF rk[c] = NoKey THEN Idle
                             ELSE [at |-> "wrap", who |-> Head(inbox[c]).who, key |-> rk[c]]]
  /\ raced' = (raced \/ rk[c] = NoKey)
  /\ UNCHANGED <<relayVars, members, order, rk, pending, acks, ic, ui, sent, budget, surfaced, slipped>>

\* Mutation: the wrapped key is broadcast instead of sent to the newcomer.
DeliverKeyToAll(c) ==
  /\ rd[c].at = "wrap" /\ conn[c] = "relay"
  /\ rd' = [rd EXCEPT ![c] = Idle]
  /\ Broadcast(c, [t |-> "key", from |-> c, key |-> rd[c].key])
  /\ UNCHANGED <<room, conn, joinRes, keeps, hist, inbox, members, order, rk, pending, acks, ic, ui, countVars>>

\* onKeyRequest, after the unlock: wrap what the pointer holds now, and the
\* relay's hub.SendTo.
DeliverKey(c) ==
  LET d == rd[c].who
      msg == [t |-> "key", from |-> c, key |-> rd[c].key]
  IN /\ rd[c].at = "wrap" /\ todo[c] = NoSends /\ conn[c] = "relay"
     /\ rd' = [rd EXCEPT ![c] = Idle]
     /\ IF d \in Present THEN /\ Queued(d, <<msg>>)
                              /\ raced' = (raced \/ Overflows(d, <<msg>>))
                         ELSE UNCHANGED <<inbox, raced>>
     /\ UNCHANGED <<relayVars, members, order, rk, pending, acks, ic, ui, sent, budget, surfaced, slipped>>

\* onKeyDeliver: from a known member the key replaces whatever is held, and the
\* pending frames are replayed.
OnKeyDeliver(c) ==
  LET m == Head(inbox[c])
  IN /\ Take(c, "key") /\ Taken(c)
     /\ IF m.from \in members[c]
        THEN /\ rk' = [rk EXCEPT ![c] = m.key]
             /\ pending' = [pending EXCEPT ![c] = <<>>]
             /\ rd' = [rd EXCEPT ![c] = Resume(pending[c])]
        ELSE UNCHANGED <<rk, pending, rd>>
     /\ UNCHANGED <<relayVars, members, order, acks, ic, ui, countVars>>

\* handleEncrypted, its critical section: buffered without a key, dropped when the
\* sender is unknown; else the key pointer is taken along.
HandleEncrypted(c, m, left) ==
  /\ pending' = [pending EXCEPT ![c] = IF rk[c] = NoKey THEN Append(@, m) ELSE @]
  /\ rd' = [rd EXCEPT ![c] = IF rk[c] = NoKey \/ m.from \notin members[c] THEN Resume(left)
                             ELSE [at |-> "open", m |-> m, left |-> left, key |-> rk[c]]]
  /\ UNCHANGED <<relayVars, members, order, rk, acks, ic, ui, countVars>>

\* Mutation: frames buffered for want of a key are kept newest first.
OnEncryptedLate(c) ==
  /\ Take(c, "enc") /\ Taken(c)
  /\ IF rk[c] # NoKey THEN HandleEncrypted(c, Head(inbox[c]), <<>>)
     ELSE /\ pending' = [pending EXCEPT ![c] = <<Head(inbox[c])>> \o @]
          /\ UNCHANGED <<relayVars, members, order, rk, acks, ic, rd, ui, countVars>>

\* handleEncrypted of a frame off the wire ...
OnEncrypted(c) == Take(c, "enc") /\ Taken(c) /\ HandleEncrypted(c, Head(inbox[c]), <<>>)

\* ... and of the next one replayPending took from c.pending.
ReplayNext(c) ==
  /\ rd[c].at = "replay"
  /\ HandleEncrypted(c, Head(rd[c].left), Tail(rd[c].left))
  /\ UNCHANGED inbox

\* crypto.OpenMessage, after the unlock, under what the pointer holds now: another
\* epoch or other key material is an error event.  A message is surfaced; an ack or a
\* handoff has a critical section still to come.
OpenMessage(c) ==
  LET m == rd[c].m
      opens == m.key = rd[c].key
  IN /\ rd[c].at = "open"
     /\ rd' = [rd EXCEPT ![c] = IF opens /\ m.op # "message" THEN [at |-> "record", m |-> m, left |-> @.left]
                                ELSE Resume(@.left)]
     /\ surfaced' = [surfaced EXCEPT ![c] = IF opens /\ m.op = "message" THEN Append(@, m) ELSE @]
     /\ UNCHANGED <<relayVars, inbox, members, order, rk, pending, acks, ic, ui, sent, budget, raced, slipped>>

\* recordAck or setIC for a peer, then the event.
RecordPeer(c) ==
  LET m == rd[c].m
  IN /\ rd[c].at = "record"
     /\ rd' = [rd EXCEPT ![c] = Resume(@.left)]
     /\ surfaced' = [surfaced EXCEPT ![c] = Append(@, m)]
     /\ acks' = [acks EXCEPT ![c] = IF m.op = "ack" THEN @ \cup {[by |-> m.from, epoch |-> m.key.epoch]} ELSE @]
     /\ ic' = [ic EXCEPT ![c] = IF m.op = "handoff" THEN m.arg ELSE @]
     /\ UNCHANGED <<relayVars, inbox, members, order, rk, pending, ui, sent, budget, raced, slipped>>

\* onControl, ActionVanish: the ratchet, one critical section.
OnControl(c) ==
  /\ Take(c, "vanish") /\ Taken(c)
  /\ rk' = [rk EXCEPT ![c] = Ratcheted(@)]
  /\ ui' = ZeroHeld(ui, c)
  /\ rd' = [rd EXCEPT ![c] = [at |-> "reset"]]
  /\ UNCHANGED <<relayVars, members, order, pending, acks, ic, countVars>>

\* resetCoordinationLocked, the critical section after the ratchet's.
ResetCoordination(c) ==
  /\ acks' = [acks EXCEPT ![c] = {}]
  /\ ic' = [ic EXCEPT ![c] = OldestHolder(c)]

OnControlReset(c) ==
  /\ rd[c].at = "reset"
  /\ rd' = [rd EXCEPT ![c] = Idle]
  /\ ResetCoordination(c)
  /\ UNCHANGED <<relayVars, inbox, members, order, rk, pending, ui, countVars>>

------------------------------------------------------------------------------
(* The client: operations of the user interface *)

\* Send, Ack and Handoff enter sealAndSend: the key pointer under the lock.  A
\* handoff names a member LookupMember found.
StartSend(c, op, d) ==
  /\ conn[c] = "relay" /\ ui[c] = Idle /\ rk[c] # NoKey /\ budget.sends > 0
  /\ d \in IF op = "handoff" THEN members[c] ELSE {c}
  /\ ui' = [ui EXCEPT ![c] = [at |-> "seal", op |-> op, arg |-> d, key |-> rk[c]]]
  /\ sent' = [sent EXCEPT ![c] = @ + 1]
  /\ budget' = [budget EXCEPT !.sends = @ - 1]
  /\ UNCHANGED <<relayVars, inbox, members, order, rk, pending, acks, ic, rd, surfaced, raced, slipped>>

\* sealAndSend, after the unlock: seal under what the pointer holds now; the relay
\* broadcasts it.
SealAndSend(c) ==
  LET m == [t |-> "enc", op |-> ui[c].op, from |-> c, key |-> ui[c].key, n |-> sent[c],
            arg |-> ui[c].arg]
  IN /\ ui[c].at = "seal" /\ conn[c] = "relay"
     /\ Broadcast(c, m)
     /\ ui' = [ui EXCEPT ![c] = IF m.op = "message" THEN Idle
                                ELSE [at |-> m.op, arg |-> m.arg, epoch |-> m.key.epoch]]
     /\ UNCHANGED <<room, conn, joinRes, keeps, hist, inbox, members, order, rk, pending, acks, ic, rd, countVars>>

\* Ack's recordAck and Handoff's setIC for ourselves, a critical section of their own.
RecordOwn(c) ==
  /\ ui[c].at \in {"ack", "handoff"}
  /\ ui' = [ui EXCEPT ![c] = Idle]
  /\ IF ui[c].at = "ack"
     THEN acks' = [acks EXCEPT ![c] = @ \cup {[by |-> c, epoch |-> ui[c].epoch]}] /\ UNCHANGED ic
     ELSE ic' = [ic EXCEPT ![c] = ui[c].arg] /\ UNCHANGED acks
  /\ UNCHANGED <<relayVars, inbox, members, order, rk, pending, rd, countVars>>

\* Mutation: the initiator leaves its own key where it is and waits for an echo.
VanishNoRatchet(c) ==
  /\ conn[c] = "relay" /\ ui[c] = Idle /\ budget.vanishes > 0
  /\ ui' = [ui EXCEPT ![c] = [at |-> "vanish"]]
  /\ budget' = [budget EXCEPT !.vanishes = @ - 1]
  /\ raced' = (raced \/ \E d \in Present : rk[d] = NoKey)
  /\ UNCHANGED <<relayVars, inbox, members, order, rk, rd, pending, acks, ic, sent, surfaced, slipped>>

\* The read loop has opened a frame it has not applied yet, or is about to open one that
\* was itself sealed under the bytes Zero leaves.
Slips(at) == at.at = "record" \/ (at.at = "open" /\ at.m.key = Wiped(at.key))

\* Vanish: ratchetForward, even without a key to ratchet.
Vanish(c) ==
  /\ conn[c] = "relay" /\ ui[c] = Idle /\ budget.vanishes > 0
  /\ rk' = [rk EXCEPT ![c] = Ratcheted(@)]
  /\ rd' = ZeroHeld(rd, c)
  /\ ui' = [ui EXCEPT ![c] = [at |-> "vanish"]]
  /\ budget' = [budget EXCEPT !.vanishes = @ - 1]
  /\ raced' = (raced \/ \E d \in Present : rk[d] = NoKey)
  /\ slipped' = IF Slips(rd[c]) THEN slipped \cup {c} ELSE slipped
  /\ UNCHANGED <<relayVars, inbox, members, order, pending, acks, ic, sent, surfaced>>

\* Vanish: the reset, then the control frame to everybody else.
VanishTell(c) ==
  /\ ui[c].at = "vanish" /\ conn[c] = "relay"
  /\ ui' = [ui EXCEPT ![c] = Idle]
  /\ ResetCoordination(c)
  /\ Broadcast(c, [t |-> "vanish", from |-> c])
  /\ UNCHANGED <<room, conn, joinRes, keeps, hist, inbox, members, order, rk, pending, rd, countVars>>

------------------------------------------------------------------------------
RelayStep(c) ==
  \/ Join(c) \/ SendWelcome(c) \/ Replay(c) \/ Announce(c) \/ AskDistributor(c) \/ Depart(c)
  \/ Store(c)
  \/ \E d \in Clients : FanOut(c, d)
Reader(c) ==
  \/ OnWelcome(c) \/ OnMemberJoined(c) \/ OnMemberLeft(c) \/ OnKeyRequest(c) \/ DeliverKey(c)
  \/ OnKeyDeliver(c) \/ OnEncrypted(c) \/ ReplayNext(c) \/ OpenMessage(c) \/ RecordPeer(c)
  \/ OnControl(c) \/ OnControlReset(c)
Caller(c) ==
  \/ \E op \in {"message", "ack", "handoff"}, d \in Clients : StartSend(c, op, d)
  \/ SealAndSend(c) \/ RecordOwn(c) \/ Vanish(c) \/ VanishTell(c)
Next == \E c \in Clients : RelayStep(c) \/ Leave(c) \/ Reader(c) \/ Caller(c)

Spec == Init /\ [][Next]_vars

\* The relay's goroutines and the read loops keep running; callers may stop at will,
\* but an operation once entered runs on.
FairSpec ==
  /\ Spec
  /\ \A c \in Clients :
       /\ WF_vars(RelayStep(c)) /\ WF_vars(Reader(c))
       /\ WF_vars(SealAndSend(c) \/ RecordOwn(c) \/ VanishTell(c))

------------------------------------------------------------------------------
(* Properties *)

\* No vanish is on its way to c, and nobody is between ratcheting and telling.
KeySettled(c) == ~InFlight(c, "vanish") /\ \A d \in Clients : ui[d].at # "vanish"

\* ratchetForward promises that "every member that applies it lands on the same next
\* key without any key exchange": key holders with no vanish on the way hold the same
\* key, whoever vanished, how many at once and in whatever order the relay fanned it
\* out - unless a vanish overlapped somebody's wait for a key.
KeysAgree ==
  ~raced => \A c, d \in Present :
              (rk[c] # NoKey /\ rk[d] # NoKey /\ KeySettled(c) /\ KeySettled(d)) => rk[c] = rk[d]

\* Without stored history, frames surface at most once and in the order their sender
\* sealed them, also those that waited in c.pending for the key (handleEncrypted,
\* replayPending).  What is sent between hub.Join and store.History comes twice.
InOrder ==
  ~keeps => \A c \in Clients : \A i, j \in DOMAIN surfaced[c] :
    (i < j /\ surfaced[c][i].from = surfaced[c][j].from) => surfaced[c][i].n < surfaced[c][j].n

\* A peer's ack counted towards a quorum was sealed in the epoch we are in: an ack of
\* before a /vanish never survives resetCoordinationLocked or arrives after it, unless
\* our own /vanish slipped in between opening it and recordAck.
PeerAcksCurrent ==
  \A c \in Clients : (rd[c].at # "reset" /\ ui[c].at # "vanish" /\ c \notin slipped) =>
    \A a \in acks[c] : a.by # c => a.epoch = rk[c].epoch

\* Forward secrecy: a client that holds a key never goes back to an earlier epoch,
\* though onKeyDeliver overwrites c.rk unconditionally.
EpochNeverBack ==
  [][\A c \in Clients : (rk[c] # NoKey /\ conn'[c] # "leaving")
       => (rk'[c] # NoKey /\ rk'[c].epoch >= rk[c].epoch)]_vars

SomeoneLeft == \E d \in Clients : conn[d] \in {"leaving", "gone"}

\* One key request to the oldest member is enough: a joiner gets a room key, unless
\* somebody left, a frame was dropped, or the request reached a member still without
\* a key (onKeyRequest answers that with an error event and nothing else).
KeyArrives == \A c \in Clients : (conn[c] = "relay") ~> (rk[c] # NoKey \/ SomeoneLeft \/ raced)

\* What a client surfaces and what it counts belong where they are: frames in their
\* sender's order, acks in the epoch they were given in.
FramesInPlace == InOrder /\ PeerAcksCurrent
=============================================================================
