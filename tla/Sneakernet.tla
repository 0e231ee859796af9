----------------------------- MODULE Sneakernet -----------------------------
(***************************************************************************)
(* Relay-less mode (tui/sneakernet): a host peer runs the Coordinator, its *)
(* own client joins over a loopback, other peers dial in, prove their key  *)
(* and are served by one goroutine each.  serveMember's steps, the sends   *)
(* of a broadcast, the write pumps, the clients and the teardown timer all *)
(* interleave; the coordinator's lock covers join, leave and the snapshot  *)
(* of a broadcast only.                                                    *)
(***************************************************************************)
EXTENDS Naturals, Sequences, FiniteSets, SequencesExt

CONSTANTS Host, Peers,
          Lan,        \* RunLAN: listening and advertised before the host's own client joins
          Burnable,   \* [action.scuttle] quorum is at most one
          OutCap,     \* capacity of a member's out channel
          MaxLines    \* bound: lines the operators type

ASSUME SneakerAssumption ==
  /\ Host \notin Peers /\ {Lan, Burnable} \subseteq BOOLEAN
  /\ OutCap \in Nat \ {0} /\ MaxLines \in Nat

Participants == Peers \cup {Host}
Nobody == "nobody"

VARIABLES listener,  \* none, open, closed
          hostPc,    \* start, browse, hosting, elsewhere
          srv,       \* the member's goroutine: idle, auth, hello, welcome, announce, ask, loop, left, gone
          live,      \* the connection is open (closeConn not yet called, client not closed)
          order,     \* Coordinator.order; members are its range
          toldFirst, \* Welcome.YouAreFirst as sent
          asks,      \* the distributor join chose for a newcomer
          outbox,    \* the member's out channel
          sends,     \* the broadcast a goroutine is in: its frame and the recipients still to serve
          lines,     \* frames the client has written, unread by its goroutine
          typed,     \* lines typed so far
          keyed,     \* the client holds the room key (EvKeyReady)
          burn,      \* none, armed (coScuttleGrace running), closing, closed
          victims    \* Close: the snapshot of members still to be closed

coVars == <<order, toldFirst, asks, outbox, sends>>
burnVars == <<burn, victims>>
sneakerVars == <<listener, hostPc, srv, live, coVars, lines, typed, keyed, burnVars>>

SneakerInit ==
  /\ listener = "none" /\ hostPc = "start"
  /\ srv = [p \in Participants |-> "idle"]
  /\ live = {} /\ order = <<>> /\ toldFirst = {}
  /\ outbox = [p \in Participants |-> <<>>]
  /\ asks = [p \in Participants |-> Nobody]
  /\ sends = [p \in Participants |-> [to |-> {}, f |-> <<>>]]
  /\ lines = [p \in Participants |-> <<>>]
  /\ typed = 0
  /\ keyed = {} /\ burn = "none" /\ victims = {}

Present == Range(order)

\* coMember.send: a full channel drops the frame, a finished connection ignores it.
Send(box, p, f) ==
  IF p \in live /\ Len(box[p]) < OutCap THEN [box EXCEPT ![p] = Append(@, f)] ELSE box

\* closeConn, or the client's end going away: what was queued for it goes nowhere.
Hangup(p) == live' = live \ {p} /\ outbox' = [outbox EXCEPT ![p] = <<>>]

------------------------------------------------------------------------------
(* RunHost, RunLAN, RunJoin: setting up *)

Listen ==
  /\ hostPc = "start" /\ listener = "none"
  /\ listener' = "open" /\ hostPc' = "browse"
  /\ UNCHANGED <<srv, live, coVars, lines, typed, keyed, burnVars>>

\* Loopback and ConnectWith: no authentication, the Hello follows at once.  RunHost
\* prints its offer only after this; RunLAN has advertised all along.
HostHere ==
  /\ hostPc = "browse" /\ hostPc' = "hosting"
  /\ srv' = [srv EXCEPT ![Host] = "hello"] /\ live' = live \cup {Host}
  /\ UNCHANGED <<listener, coVars, lines, typed, keyed, burnVars>>

\* RunLAN, /pair: the host found somebody and joins there instead; its coordinator closes.
PairElsewhere ==
  /\ Lan /\ hostPc = "browse" /\ burn = "none"
  /\ hostPc' = "elsewhere" /\ burn' = "closing" /\ victims' = Present /\ listener' = "closed"
  /\ UNCHANGED <<srv, live, coVars, lines, typed, keyed>>

\* What a peer may have been handed as the offer: the host's blob as minted, an altered
\* copy, one past BlobTTL, or one whose addresses somebody else answers by now.
Offers == [intact : BOOLEAN, expired : BOOLEAN, answers : SUBSET {Host, Nobody}]
\* Blob.Verify: version, fingerprint and signature hold for the blob as a whole.
BlobVerifies(o) == o.intact /\ ~o.expired
\* dialAny: some address authenticates as the fingerprint of the offer.
DialAny(o) == Host \in o.answers

\* The connection is made; Serve goes on with the handshake.
Connects(p) == srv' = [srv EXCEPT ![p] = "auth"] /\ live' = live \cup {p}
\* RunJoin gives up before it has a session.
GivesUp(p) == srv' = [srv EXCEPT ![p] = "gone"] /\ UNCHANGED live

\* RunJoin: the host prints its offer only once its own client holds the key.
RunJoin(p) ==
  /\ srv[p] = "idle" /\ Host \in keyed
  /\ \E o \in Offers :
       IF BlobVerifies(o) /\ DialAny(o) /\ listener = "open" THEN Connects(p) ELSE GivesUp(p)
  /\ UNCHANGED <<listener, hostPc, coVars, lines, typed, keyed, burnVars>>

\* RunLAN at a peer: Browse saw the advertisement, /pair matched it, joinPeer dials.
\* The host advertises from the moment it listens, before its own client is in.
JoinPeer(p) ==
  /\ Lan /\ srv[p] = "idle" /\ hostPc # "start"
  /\ IF listener = "open" THEN Connects(p) ELSE GivesUp(p)
  /\ UNCHANGED <<listener, hostPc, coVars, lines, typed, keyed, burnVars>>

\* performAuth on both sides: proved, or the connection is dropped.
Authenticate(p) ==
  /\ srv[p] = "auth"
  /\ \/ p \in live /\ srv' = [srv EXCEPT ![p] = "hello"] /\ UNCHANGED live
     \/ srv' = [srv EXCEPT ![p] = "gone"] /\ live' = live \ {p}
  /\ UNCHANGED <<listener, hostPc, coVars, lines, typed, keyed, burnVars>>

------------------------------------------------------------------------------
(* serveMember *)

\* Mutation: the room looks empty to a newcomer who finds only the host in it.
CoJoinCounting(p) ==
  /\ srv[p] = "hello"
  /\ order' = Append(order, p)
  /\ toldFirst' = IF Len(order) <= 1 THEN toldFirst \cup {p} ELSE toldFirst
  /\ asks' = [asks EXCEPT ![p] = IF order = <<>> THEN Nobody ELSE Head(order)]
  /\ srv' = [srv EXCEPT ![p] = "welcome"]
  /\ UNCHANGED <<listener, hostPc, live, outbox, sends, lines, typed, keyed, burnVars>>

\* The Hello is read and its key is the one authenticated; join registers the member,
\* tells whether it is the first and picks the oldest member as its distributor.
CoJoin(p) ==
  /\ srv[p] = "hello"
  /\ order' = Append(order, p)
  /\ toldFirst' = IF order = <<>> THEN toldFirst \cup {p} ELSE toldFirst
  /\ asks' = [asks EXCEPT ![p] = IF order = <<>> THEN Nobody ELSE Head(order)]
  /\ srv' = [srv EXCEPT ![p] = "welcome"]
  /\ UNCHANGED <<listener, hostPc, live, outbox, sends, lines, typed, keyed, burnVars>>

\* The connection ends before the Hello, or the Hello names another key or room.
HelloRefused(p) ==
  /\ srv[p] = "hello" /\ p # Host
  /\ srv' = [srv EXCEPT ![p] = "gone"] /\ live' = live \ {p}
  /\ UNCHANGED <<listener, hostPc, coVars, lines, typed, keyed, burnVars>>

\* broadcast: the recipients are snapshotted under the lock and served after it.
Cast(p, to, f) == sends' = [sends EXCEPT ![p] = [to |-> to, f |-> f]]
Idle(p) == sends[p].to = {}

\* Welcome, then MemberJoined to the others, then KeyRequest to the distributor.
CoWelcome(p) ==
  /\ srv[p] = "welcome"
  /\ outbox' = Send(outbox, p, <<"welcome", p>>)
  /\ srv' = [srv EXCEPT ![p] = "announce"]
  /\ UNCHANGED <<listener, hostPc, live, order, toldFirst, asks, sends, lines, typed, keyed, burnVars>>
CoAnnounce(p) ==
  /\ srv[p] = "announce"
  /\ Cast(p, Present \ {p}, <<"joined", p>>)
  /\ srv' = [srv EXCEPT ![p] = "ask"]
  /\ UNCHANGED <<listener, hostPc, live, order, toldFirst, asks, outbox, lines, typed, keyed, burnVars>>
CoAskKey(p) ==
  /\ srv[p] = "ask" /\ Idle(p)
  /\ outbox' = IF asks[p] = Nobody THEN outbox ELSE Send(outbox, asks[p], <<"keyreq", p>>)
  /\ srv' = [srv EXCEPT ![p] = "loop"]
  /\ UNCHANGED <<listener, hostPc, live, order, toldFirst, asks, sends, lines, typed, keyed, burnVars>>

\* One send of the broadcast that goroutine p is in the middle of.
SendOne(p) ==
  /\ \E r \in sends[p].to :
       /\ outbox' = Send(outbox, r, sends[p].f)
       /\ Cast(p, sends[p].to \ {r}, sends[p].f)
  /\ UNCHANGED <<listener, hostPc, srv, live, order, toldFirst, asks, lines, typed, keyed, burnVars>>

\* route: scuttle is answered by the coordinator and arms the teardown; a key goes to
\* one member; everything else is stamped with the sender and fanned out.
RouteFrame(p) ==
  LET f == Head(lines[p])
  IN /\ lines[p] # <<>> /\ lines' = [lines EXCEPT ![p] = Tail(@)]
     /\ CASE f[1] = "scuttle" -> Cast(p, Present, <<"scuttle", Nobody>>)
          [] f[1] = "key" -> Cast(p, {f[2]} \cap Present, <<"key", p>>)
          [] OTHER -> Cast(p, Present \ {p}, <<"msg", p>>)
     /\ burn' = IF f[1] = "scuttle" /\ burn = "none" THEN "armed" ELSE burn
     /\ UNCHANGED <<listener, hostPc, srv, live, order, toldFirst, asks, outbox, typed, keyed, victims>>

Route(p) == srv[p] = "loop" /\ Idle(p) /\ RouteFrame(p)

\* The read fails once the connection is closed: leave, announce, close.
CoLeave(p) ==
  /\ srv[p] = "loop" /\ Idle(p) /\ p \notin live
  /\ order' = RemoveFirst(order, p)
  /\ Cast(p, Present \ {p}, <<"left", p>>)
  /\ srv' = [srv EXCEPT ![p] = "left"]
  /\ UNCHANGED <<listener, hostPc, live, toldFirst, asks, outbox, lines, typed, keyed, burnVars>>
ServeEnds(p) ==
  /\ srv[p] = "left" /\ Idle(p)
  /\ srv' = [srv EXCEPT ![p] = "gone"]
  /\ UNCHANGED <<listener, hostPc, live, coVars, lines, typed, keyed, burnVars>>

------------------------------------------------------------------------------
(* Close, after a scuttle's grace or when the host's session returns *)

\* A scuttle's grace is over, or the host's operator has quit.
CloseDue == \/ burn = "armed"
            \/ burn = "none" /\ srv[Host] \notin {"idle", "hello"} /\ Host \notin live

\* Mutation: Close stops the listener and leaves the members to their sockets.
CloseSnapshotNone ==
  /\ CloseDue
  /\ burn' = "closing" /\ victims' = {} /\ listener' = "closed"
  /\ UNCHANGED <<hostPc, srv, live, coVars, lines, typed, keyed>>

CloseSnapshot ==
  /\ CloseDue
  /\ burn' = "closing" /\ victims' = Present /\ listener' = "closed"
  /\ UNCHANGED <<hostPc, srv, live, coVars, lines, typed, keyed>>
CloseMember ==
  /\ burn = "closing"
  /\ IF victims = {} THEN burn' = "closed" /\ UNCHANGED <<victims, live, outbox>>
     ELSE \E p \in victims : victims' = victims \ {p} /\ Hangup(p) /\ UNCHANGED burn
  /\ UNCHANGED <<listener, hostPc, srv, order, toldFirst, asks, sends, lines, typed, keyed>>

------------------------------------------------------------------------------
(* The clients: readPump, waitKeyReady, runSession and handleCommand *)

\* One frame from the write pump, handled by the client.
Receive(p) ==
  /\ p \in live /\ outbox[p] # <<>>
  /\ outbox' = [outbox EXCEPT ![p] = Tail(@)]
  /\ LET f == Head(outbox[p])
     IN /\ keyed' = IF f[1] = "key" \/ (f[1] = "welcome" /\ p \in toldFirst)
                    THEN keyed \cup {p} ELSE keyed
        /\ lines' = IF f[1] = "keyreq" /\ p \in keyed
                    THEN [lines EXCEPT ![p] = Append(@, <<"key", f[2]>>)] ELSE lines
  /\ UNCHANGED <<listener, hostPc, srv, live, order, toldFirst, asks, sends, typed, burnVars>>

\* A line of the interactive session: a message or a command, once the key is there.
Type(p) ==
  /\ p \in keyed \cap live /\ typed < MaxLines
  /\ typed' = typed + 1
  /\ \E c \in {"msg"} \cup (IF Burnable THEN {"scuttle"} ELSE {}) :
       lines' = [lines EXCEPT ![p] = Append(@, <<c, p>>)]
  /\ UNCHANGED <<listener, hostPc, srv, live, coVars, keyed, burnVars>>

\* /quit, a key that does not come in time, or a broken link.
Quit(p) ==
  /\ p \in live /\ srv[p] \in {"welcome", "announce", "ask", "loop"}
  /\ Hangup(p)
  /\ UNCHANGED <<listener, hostPc, srv, order, toldFirst, asks, sends, lines, typed, keyed, burnVars>>

Serve(p) ==
  \/ Authenticate(p) \/ CoJoin(p) \/ HelloRefused(p)
  \/ CoWelcome(p) \/ CoAnnounce(p) \/ CoAskKey(p)
  \/ SendOne(p) \/ Route(p) \/ CoLeave(p) \/ ServeEnds(p)
SneakerNext ==
  \/ Listen \/ HostHere \/ PairElsewhere \/ CloseSnapshot \/ CloseMember
  \/ \E p \in Peers : RunJoin(p) \/ JoinPeer(p)
  \/ \E p \in Participants : Serve(p) \/ Receive(p) \/ Type(p) \/ Quit(p)

\* The goroutines run on and the grace timer fires; operators owe nothing.
SneakerFair ==
  /\ \A p \in Participants : WF_sneakerVars(Serve(p))
  /\ WF_sneakerVars(CloseSnapshot) /\ WF_sneakerVars(CloseMember)

------------------------------------------------------------------------------
(* Properties *)

\* One key: of the members present at most one was told to mint it, and it is the
\* oldest, even when a peer came in before the host's own client or after a teardown.
OneMinter ==
  \A i \in DOMAIN order : order[i] \in toldFirst => i = 1

\* A departure is a member's last word: nothing from it is queued behind its
\* MemberLeft, though every broadcast is sent outside the lock.
LeftIsLast ==
  \A r \in Participants : \A i, j \in DOMAIN outbox[r] :
    (outbox[r][i][1] = "left" /\ outbox[r][j][1] \in {"msg", "key", "joined"}
       /\ outbox[r][i][2] = outbox[r][j][2]) => j < i

\* Whoever is in the room when a scuttle is armed is out of it in the end, whatever is
\* still being routed then.
BurnEvicts ==
  \A p \in Participants : (burn = "armed" /\ p \in Present) ~> (p \notin Present)

\* The members agree on the room: on who minted its key and on when somebody left it.
RoomAgrees == OneMinter /\ LeftIsLast
=============================================================================
