-------------------------------- MODULE Relay --------------------------------
(***************************************************************************)
(* The blind relay: one goroutine per WebSocket connection                 *)
(* (server/internal/ws/server.go, Server.serve) over the shared room       *)
(* registry (Hub), the one-time tokens (Invites), the dead-man's switch    *)
(* (ScuttleManager), the transfer slots (Transfers), the Status Beacons    *)
(* (Beacons) and the break-glass war rooms (ephemeral.go).                 *)
(*                                                                         *)
(* pc[c] is where Server.serve is for connection c:                        *)
(*   new -Hello-> gate -Gate-> probe -Probe-> admitted -Join-> founding    *)
(*   -Found-> joined -Disconnect-> leaving -Leave-> left -Depart-> done    *)
(* A step is one critical section of one lock, or one goroutine's private  *)
(* step.  The frames the relay fans out are opaque to it and carry no      *)
(* state of these modules; they are modelled by the client-side modules.   *)
(***************************************************************************)
EXTENDS Hub, Invites, ScuttleManager, Transfers, Beacons

CONSTANTS NoToken,        \* a Hello without an invite token
          InviteOnly,     \* rooms configured invite_only
          OwnerLossBurn,  \* rooms configured owner_loss_burn
          TTLRooms,       \* rooms configured with an idle ttl
          WarRooms,       \* names /break-glass will draw
          MaxGrace        \* bound: burns of one room name in flight before ScuttleNow stops

ASSUME NoTokenAssumption == NoToken \notin Tokens
ASSUME RoomSetsAssumption ==
  /\ InviteOnly \subseteq Rooms /\ OwnerLossBurn \subseteq Rooms
  /\ TTLRooms \subseteq Rooms /\ WarRooms \subseteq Rooms
  /\ IdleBurn \subseteq Rooms /\ BeaconRooms \subseteq Rooms
ASSUME MaxGraceAssumption == MaxGrace \in Nat

VARIABLES pc,       \* control point of Server.serve
          room,     \* hello.Room
          token,    \* hello.InviteToken
          via,      \* history: what admitted the connection
          owner,    \* iAmOwner
          empty,    \* what hub.Leave returned
          war       \* ephemeral.Registry: unborn, live, doomed (unregistered by sweep,
                    \* ExpireRoom still to run), dead

serveVars == <<room, token, via, owner, empty>>
vars == <<hubVars, inviteVars, scuttleVars, transferVars, beaconVars, pc, serveVars, war>>

ServeTypeOK ==
  /\ pc \in [Conns -> {"new", "gate", "probe", "admitted", "founding", "joined",
                       "leaving", "left", "done"}]
  /\ room \in [Conns -> Rooms \cup {NoRoom}]
  /\ token \in [Conns -> Tokens \cup {NoToken}]
  /\ via \in [Conns -> {"none", "open", "token", "empty"}]
  /\ owner \in [Conns -> BOOLEAN]
  /\ empty \in [Conns -> BOOLEAN]
  /\ war \in [Rooms -> {"unborn", "live", "doomed", "dead"}]

TypeOK ==
  HubTypeOK /\ InviteTypeOK /\ ScuttleTypeOK /\ TransferTypeOK /\ BeaconTypeOK /\ ServeTypeOK

Init ==
  /\ HubInit /\ InviteInit /\ ScuttleInit /\ TransferInit /\ BeaconInit
  /\ pc = [c \in Conns |-> "new"]
  /\ room = [c \in Conns |-> NoRoom]
  /\ token = [c \in Conns |-> NoToken]
  /\ via = [c \in Conns |-> "none"]
  /\ owner = [c \in Conns |-> FALSE]
  /\ empty = [c \in Conns |-> FALSE]
  /\ war = [r \in Rooms |-> "unborn"]

GoTo(c, l) == pc' = [pc EXCEPT ![c] = l]

\* roomPolicy(room).InviteOnly: a registered war room overrides the static config.
GatedRoom(r) == r \in InviteOnly \/ war[r] = "live"

\* A war-room name is random, so nobody can say it before /break-glass drew it.
Speakable(r) == r \in WarRooms => war[r] # "unborn"

------------------------------------------------------------------------------
(* Admission *)

\* serve, steps 1 and 2: a well-formed Hello, and the room policy it meets.
Hello(c, r, t) ==
  /\ pc[c] = "new" /\ Speakable(r)
  /\ t # NoToken => tokState[t] # "unminted"
  /\ room' = [room EXCEPT ![c] = r]
  /\ token' = [token EXCEPT ![c] = t]
  /\ via' = [via EXCEPT ![c] = IF GatedRoom(r) THEN "none" ELSE "open"]
  /\ GoTo(c, IF GatedRoom(r) THEN "gate" ELSE "admitted")
  /\ UNCHANGED <<hubVars, inviteVars, scuttleVars, transferVars, beaconVars, owner, empty, war>>

\* The token check of an invite-only room: invites.Redeem, one critical section.
Gate(c) ==
  LET ok == token[c] # NoToken /\ Redeemable(token[c], room[c])
  IN /\ pc[c] = "gate"
     /\ IF token[c] = NoToken THEN UNCHANGED inviteVars ELSE Redeem(token[c], room[c])
     /\ via' = [via EXCEPT ![c] = IF ok THEN "token" ELSE @]
     /\ GoTo(c, IF ok THEN "admitted" ELSE "probe")
     /\ UNCHANGED <<hubVars, scuttleVars, transferVars, beaconVars, room, token, owner, empty, war>>

\* Without a token only an empty room admits: hub.IsEmpty, a critical section of
\* its own before the one of hub.Join.
Probe(c) ==
  /\ pc[c] = "probe"
  /\ via' = [via EXCEPT ![c] = IF IsEmpty(room[c]) THEN "empty" ELSE @]
  /\ GoTo(c, IF IsEmpty(room[c]) THEN "admitted" ELSE "done")
  /\ UNCHANGED <<hubVars, inviteVars, scuttleVars, transferVars, beaconVars,
                 room, token, owner, empty, war>>

\* serve, step 4: hub.Join, and iAmOwner = YouAreFirst.
Join(c) ==
  /\ pc[c] = "admitted"
  /\ HubJoin(room[c], c)
  /\ owner' = [owner EXCEPT ![c] = IsEmpty(room[c])]
  /\ GoTo(c, IF IsEmpty(room[c]) THEN "founding" ELSE "joined")
  /\ UNCHANGED <<inviteVars, scuttleVars, transferVars, beaconVars, room, token, via, empty, war>>

\* The founder's scuttle.Start.
Found(c) ==
  /\ pc[c] = "founding"
  /\ Start(room[c], c)
  /\ GoTo(c, "joined")
  /\ UNCHANGED <<hubVars, inviteVars, transferVars, beaconVars, serveVars, war>>

------------------------------------------------------------------------------
(* The relay loop.  Every frame first runs hub.Touch on the room name. *)

\* A frame with no state of its own here: Touch, then fan-out.
Frame(c) ==
  /\ pc[c] = "joined" /\ room[c] \in quiet
  /\ HubTouch(room[c])
  /\ UNCHANGED <<inviteVars, scuttleVars, transferVars, beaconVars, pc, serveVars, war>>

\* OpInviteRequest: mint a token for this room.
InviteRequest(c, t) ==
  /\ pc[c] = "joined"
  /\ Generate({t}, room[c])
  /\ HubTouch(room[c])
  /\ UNCHANGED <<scuttleVars, transferVars, beaconVars, pc, serveVars, war>>

\* OpControl / ActionScuttle.
ScuttleNow(c) ==
  /\ pc[c] = "joined" /\ grace[room[c]] < MaxGrace
  /\ HubScuttle(room[c])
  /\ quiet' = quiet \ {room[c]}
  /\ UNCHANGED <<inviteVars, scuttleVars, transferVars, beaconVars, pc, serveVars, war>>

\* OpControl / ActionScuttleArm with a positive duration.
ScuttleArm(c, t) ==
  /\ pc[c] = "joined"
  /\ Arm(room[c], t)
  /\ HubTouch(room[c])
  /\ UNCHANGED <<inviteVars, transferVars, beaconVars, pc, serveVars, war>>

\* OpBreakGlass: register a fresh war room and mint its tokens.  Name and tokens
\* are random and unknown to anyone until the reply, so the step is atomic.
BreakGlass(c, w, ts) ==
  /\ pc[c] = "joined" /\ w \in WarRooms /\ war[w] = "unborn"
  /\ war' = [war EXCEPT ![w] = "live"]
  /\ Generate(ts, w)
  /\ HubTouch(room[c])
  /\ UNCHANGED <<scuttleVars, transferVars, beaconVars, pc, serveVars>>

\* OpFileOffer.
FileOffer(c, i) ==
  /\ pc[c] = "joined"
  /\ TryStart(room[c], i, c)
  /\ HubTouch(room[c])
  /\ UNCHANGED <<inviteVars, scuttleVars, beaconVars, pc, serveVars, war>>

\* OpFileAbort, or the OpFileChunk with the last index: any member's frame frees
\* the slot it names.
FileEnd(c, i) ==
  /\ pc[c] = "joined" /\ slot[room[c]][i] # NoConn
  /\ Finish(room[c], i)
  /\ HubTouch(room[c])
  /\ UNCHANGED <<inviteVars, scuttleVars, beaconVars, pc, serveVars, war>>

------------------------------------------------------------------------------
(* Departure *)

\* c.Read fails: the peer went away, or the server closed the connection.
Disconnect(c) ==
  /\ pc[c] = "joined"
  /\ GoTo(c, "leaving")
  /\ UNCHANGED <<hubVars, inviteVars, scuttleVars, transferVars, beaconVars, serveVars, war>>

\* hub.Leave: in the room's current incarnation, whichever that is.
Leave(c) ==
  /\ pc[c] = "leaving"
  /\ HubLeave(room[c], c)
  /\ empty' = [empty EXCEPT ![c] = LeavesEmpty(room[c], c)]
  /\ GoTo(c, "left")
  /\ UNCHANGED <<inviteVars, scuttleVars, transferVars, beaconVars, room, token, via, owner, war>>

\* The rest of step 6: abort the connection's transfers, then stop the room's watch
\* if it was left empty, or run the owner-loss rule if a founder left.
Depart(c) ==
  /\ pc[c] = "left"
  /\ AbortBy(room[c], c)
  /\ \/ empty[c] /\ Stop(room[c]) /\ UNCHANGED hubVars
     \/ /\ ~empty[c] /\ owner[c] /\ room[c] \in OwnerLossBurn
        /\ HubScuttle(room[c]) /\ UNCHANGED <<quiet, scuttleVars>>
     \/ /\ ~empty[c] /\ ~(owner[c] /\ room[c] \in OwnerLossBurn)
        /\ UNCHANGED <<hubVars, scuttleVars>>
  /\ GoTo(c, "done")
  /\ UNCHANGED <<inviteVars, beaconVars, serveVars, war>>

------------------------------------------------------------------------------
(* Timers and janitors *)

\* Time passes without a frame in the room.
Quiesce(r) ==
  /\ r \notin quiet /\ ~IsEmpty(r)
  /\ quiet' = quiet \cup {r}
  /\ UNCHANGED <<regVars, told, grace, closing, purge, inviteVars, scuttleVars, transferVars,
                 beaconVars, pc, serveVars, war>>

\* History: the beacon is there when ExpireRoom tears the room down (nothing to tear down when
\* the last member has already left).
Outlived(r) == IF IsEmpty(r) THEN UNCHANGED beaconVars ELSE BeaconOutlives(r)

\* Mutation: the timer fires again and again.
GraceRefires(r) ==
  /\ grace' = [grace EXCEPT ![r] = @ - 1]
  /\ HubExpire(r)
  /\ Outlived(r)
  /\ UNCHANGED <<inviteVars, scuttleVars, transferVars, pc, serveVars, war>>

\* A scuttleCloseGrace timer fires: ExpireRoom by name.
GraceFires(r) ==
  /\ grace[r] > 0
  /\ grace' = [grace EXCEPT ![r] = @ - 1]
  /\ HubExpire(r)
  /\ Outlived(r)
  /\ UNCHANGED <<inviteVars, scuttleVars, transferVars, pc, serveVars, war>>

\* hub.janitor: the idle ttl of a configured room.
IdleTTL(r) ==
  /\ r \in TTLRooms \cap quiet /\ ~IsEmpty(r)
  /\ HubExpire(r) /\ UNCHANGED grace
  /\ BeaconOutlives(r)
  /\ UNCHANGED <<inviteVars, scuttleVars, transferVars, pc, serveVars, war>>

\* ephemeral.sweep past a war room's deadline: forget the room under the lock ...
SweepForgets(w) ==
  /\ w \in WarRooms /\ war[w] = "live"
  /\ war' = [war EXCEPT ![w] = "doomed"]
  /\ UNCHANGED <<hubVars, inviteVars, scuttleVars, transferVars, beaconVars, pc, serveVars>>

\* Mutation: the registry forgets the room without telling the hub's members.
SweepDrops(w) ==
  /\ war[w] = "doomed"
  /\ war' = [war EXCEPT ![w] = "dead"]
  /\ members' = [members EXCEPT ![w] = {}]
  /\ order' = [order EXCEPT ![w] = <<>>]
  /\ founder' = [founder EXCEPT ![w] = NoConn]
  /\ UNCHANGED <<quiet, told, grace, closing, purge, inviteVars, scuttleVars, transferVars,
                 beaconVars, pc, serveVars>>

\* ... then onExpire, hub.ExpireRoom, outside it.
SweepExpires(w) ==
  /\ war[w] = "doomed"
  /\ war' = [war EXCEPT ![w] = "dead"]
  /\ HubExpire(w) /\ UNCHANGED grace
  /\ Outlived(w)
  /\ UNCHANGED <<inviteVars, scuttleVars, transferVars, pc, serveVars>>

\* fireClose, after closeMembers: onClose is beacons.Delete.
FireClose(r) ==
  /\ purge[r] > 0
  /\ purge' = [purge EXCEPT ![r] = @ - 1]
  /\ BeaconDelete(r)
  /\ UNCHANGED <<regVars, quiet, told, grace, closing, inviteVars, scuttleVars, transferVars,
                 pc, serveVars, war>>

\* The REST side of the beacon store, and its expiry.
BeaconRequest(r) ==
  /\ BeaconPut(r) \/ (r \in beacon /\ BeaconDelete(r))
  /\ UNCHANGED <<hubVars, inviteVars, scuttleVars, transferVars, pc, serveVars, war>>

\* The steps of an idle janitor that do not burn.
Janitor(c) ==
  /\ \/ JanitorTick(c, IsEmpty(jroom[c]), jroom[c] \in quiet)
     \/ JanitorStops(c)
     \/ JanitorForgets(c)
  /\ UNCHANGED <<hubVars, inviteVars, transferVars, beaconVars, pc, serveVars, war>>

\* idleLoop's hub.Scuttle.
JanitorBurns(c) ==
  /\ jpc[c] = "burn"
  /\ jpc' = [jpc EXCEPT ![c] = "exit"]
  /\ HubScuttle(jroom[c])
  /\ UNCHANGED <<quiet, idle, jroom, jstop, armVars, inviteVars, transferVars, beaconVars,
                 pc, serveVars, war>>

\* The steps of an armed countdown that do not burn.
Timer(t) ==
  /\ TimerFires(t) \/ TimerUnregisters(t)
  /\ UNCHANGED <<hubVars, inviteVars, transferVars, beaconVars, pc, serveVars, war>>

\* The countdown's hub.Scuttle.
TimerBurns(t) ==
  /\ tpc[t] = "burn"
  /\ tpc' = [tpc EXCEPT ![t] = "done"]
  /\ HubScuttle(troom[t])
  /\ UNCHANGED <<quiet, armed, troom, janVars, inviteVars, transferVars, beaconVars,
                 pc, serveVars, war>>

\* Time and the invite janitor.
InviteStep ==
  /\ InviteSweep \/ \E t \in Tokens : TokenExpires(t)
  /\ UNCHANGED <<hubVars, scuttleVars, transferVars, beaconVars, pc, serveVars, war>>

TransferStep(r, i) ==
  /\ TransferAges(r, i)
  /\ UNCHANGED <<hubVars, inviteVars, scuttleVars, beaconVars, pc, serveVars, war>>

Admission(c) ==
  \/ \E r \in Rooms, t \in Tokens \cup {NoToken} : Hello(c, r, t)
  \/ Gate(c) \/ Probe(c) \/ Join(c) \/ Found(c)

Loop(c) ==
  \/ Frame(c) \/ ScuttleNow(c)
  \/ \E t \in Tokens : InviteRequest(c, t)
  \/ \E t \in Timers : ScuttleArm(c, t)
  \/ \E w \in WarRooms, ts \in SUBSET Tokens : BreakGlass(c, w, ts)
  \/ \E i \in Tids : FileOffer(c, i) \/ FileEnd(c, i)

Departure(c) == Disconnect(c) \/ Leave(c) \/ Depart(c)

Background ==
  \/ \E r \in Rooms : \/ Quiesce(r) \/ GraceFires(r) \/ IdleTTL(r) \/ FireClose(r)
                      \/ SweepForgets(r) \/ SweepExpires(r) \/ BeaconRequest(r)
                      \/ \E i \in Tids : TransferStep(r, i)
  \/ \E c \in Conns : Janitor(c) \/ JanitorBurns(c)
  \/ \E t \in Timers : Timer(t) \/ TimerBurns(t)
  \/ InviteStep

Next == (\E c \in Conns : Admission(c) \/ Loop(c) \/ Departure(c)) \/ Background

Spec == Init /\ [][Next]_vars

\* Every goroutine that can take its next step takes it, every timer fires, and a
\* connection the server closes sees its read fail.  Peers may stay forever, and
\* nobody has to join or to speak.
Fairness ==
  /\ \A c \in Conns : /\ WF_vars(Found(c)) /\ WF_vars(Leave(c)) /\ WF_vars(Depart(c))
                      /\ WF_vars(c \in closing /\ Disconnect(c))
                      /\ WF_vars(Janitor(c)) /\ WF_vars(JanitorBurns(c))
  /\ \A r \in Rooms : /\ WF_vars(GraceFires(r)) /\ WF_vars(FireClose(r))
                      /\ WF_vars(SweepForgets(r)) /\ WF_vars(SweepExpires(r))

FairSpec == Spec /\ Fairness

------------------------------------------------------------------------------
(* Properties *)

Present == {"founding", "joined", "leaving"}

\* The registry is sound: a room's order lists exactly its members, each once, and
\* every member is a connection that said this room's name and has not run
\* hub.Leave.  (hub.go keeps map and slice apart, and drops rooms under the feet of
\* connections that later leave a namesake.)
HubConsistent ==
  \A r \in Rooms :
    /\ \A c \in members[r] : room[c] = r /\ pc[c] \in Present
    /\ \A i \in 1..Len(order[r]) : order[r][i] \in members[r]
    /\ \A c \in members[r] : \E i \in 1..Len(order[r]) : order[r][i] = c
    /\ \A i, j \in 1..Len(order[r]) : order[r][i] = order[r][j] => i = j

\* One owner per incarnation: among the members of a room exactly the connection
\* that founded this incarnation believes iAmOwner, whatever admitted the others.
OneFounder ==
  \A r \in Rooms :
    /\ founder[r] = NoConn <=> IsEmpty(r)
    /\ \A c \in members[r] : owner[c] <=> founder[r] = c

\* Nobody is forgotten: a connection in the relay loop is a member of its room, or
\* the server is closing it; and a member that was told the room is burning has a
\* teardown of that room still to come.
NoStranded ==
  \A c \in Conns : pc[c] \in {"founding", "joined"} =>
    \/ c \in closing
    \/ c \in members[room[c]] /\ (c \in told => grace[room[c]] > 0)

\* A token admits one connection, to the room it was minted for.
TokenOnce ==
  \A c \in Conns : via[c] = "token" =>
    /\ token[c] \in Tokens
    /\ tokState[token[c]] = "spent"
    /\ tokRoom[token[c]] = room[c]
    /\ \A d \in Conns : via[d] = "token" /\ token[d] = token[c] => d = c

\* Every slot of the tracker belongs to a connection that will still run abortBy
\* for that room, and a room never holds more than the limit: no slot leaks when a
\* sender drops, a room is torn down or a namesake takes over.
SlotsAccounted ==
  \A r \in Rooms :
    /\ Cardinality(Held(r)) <= MaxTransfers
    /\ \A i \in Held(r) : /\ room[slot[r][i]] = r
                          /\ pc[slot[r][i]] \in {"joined", "leaving", "left"}

\* A beacon set before its room was torn down is always still to be purged, unless
\* it was overwritten or removed since.
StaleBeaconPurged == \A r \in stale : purge[r] > 0

\* The key distributor of a room, its oldest member, changes only by leaving.
DistributorStable ==
  [][\A r \in Rooms :
       ~IsEmpty(r) /\ order[r][1] \in members'[r] => order'[r][1] = order[r][1]]_vars

\* Everyone told that the room is burning is eventually disconnected and gone.  (Who has been
\* told stays told, and who is gone stays gone: whenever somebody is told, a time comes at which
\* nobody told is left.)
ScuttledLeave == []<>(\A c \in told : pc[c] = "done")

\* A janitor whose room name has died out ends: no watcher outlives the last
\* connection forever.
JanitorsEnd ==
  (\A c \in Conns : pc[c] = "done") ~> (\A c \in Conns : jpc[c] \in {"none", "exit"})

\* What ephemeral.go says of a war room: it is closed at its deadline, so nobody its
\* tokens admitted is a member past it.
WarRoomCloses ==
  \A c \in Conns : via[c] = "token" /\ war[room[c]] = "dead" => c \notin members[room[c]]

\* Registry and ownership agree, through churn, re-founding and every kind of teardown:
\* who is in a room, in which order, and which of them founded it.
OwnedRegistry == HubConsistent /\ OneFounder
==============================================================================
