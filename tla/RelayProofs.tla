----------------------------- MODULE RelayProofs -----------------------------
(***************************************************************************)
(* Proofs about Relay, for every set of connections, rooms, tokens, timers *)
(* and every policy.                                                       *)
(***************************************************************************)
EXTENDS Relay, FiniteSetTheorems, TLAPS

Arriving == {"new", "gate", "probe", "admitted"}

\* Past its Hello a connection has a room.
RoomKnown == \A c \in Conns : pc[c] # "new" => room[c] \in Rooms

\* Only a connection that ran hub.Join has founded a room or was told of a burn.
JoinedFirst ==
  /\ \A r \in Rooms : founder[r] # NoConn => pc[founder[r]] \notin Arriving
  /\ \A c \in told : pc[c] \notin Arriving

Typed == TypeOK /\ RoomKnown

\* The inductive strengthening of HubConsistent, OneFounder and NoStranded.
HubInv == HubConsistent /\ OneFounder /\ NoStranded /\ JoinedFirst

\* What the hub's registry and the connections' lifecycle are made of.
coreVars == <<members, order, founder, told, grace, closing, pc, room, owner>>

\* A burn of r by hub.Scuttle and a teardown of r by hub.ExpireRoom, whoever runs it.
Burns(r) == HubScuttle(r) /\ UNCHANGED <<pc, room, owner>>

TearsDown(r) ==
  /\ HubExpire(r)
  /\ UNCHANGED <<pc, room, owner>>
  /\ \/ UNCHANGED grace
     \/ grace[r] > 0 /\ grace' = [grace EXCEPT ![r] = @ - 1]

------------------------------------------------------------------------------
(* Cutting a member out of a room's order. *)

\* OrderWithout(s, c) lists, once each and in the old order, what s lists but c.
LEMMA OrderWithoutFacts ==
  ASSUME NEW S, NEW s \in Seq(S), NEW c,
         \A i, j \in 1..Len(s) : s[i] = s[j] => i = j
  PROVE  /\ OrderWithout(s, c) \in Seq(S)
         /\ \A i \in 1..Len(OrderWithout(s, c)) :
              /\ OrderWithout(s, c)[i] # c
              /\ \E k \in 1..Len(s) : OrderWithout(s, c)[i] = s[k]
         /\ \A k \in 1..Len(s) : s[k] # c =>
              \E i \in 1..Len(OrderWithout(s, c)) : OrderWithout(s, c)[i] = s[k]
         /\ \A i, j \in 1..Len(OrderWithout(s, c)) :
              OrderWithout(s, c)[i] = OrderWithout(s, c)[j] => i = j
         /\ Len(s) > 0 /\ s[1] # c => OrderWithout(s, c)[1] = s[1]
<1>1. CASE ~ \E i \in 1..Len(s) : s[i] = c
  <2>1. OrderWithout(s, c) = s
    BY <1>1 DEF OrderWithout
  <2> QED BY <1>1, <2>1
<1>2. CASE \E i \in 1..Len(s) : s[i] = c
  <2> DEFINE n == CHOOSE i \in 1..Len(s) : s[i] = c
             q == [j \in 1..(Len(s) - 1) |-> IF j < n THEN s[j] ELSE s[j + 1]]
  <2>1. n \in 1..Len(s) /\ s[n] = c
    BY <1>2
  <2>2. OrderWithout(s, c) = q
    BY <1>2 DEF OrderWithout
  <2>3. Len(s) \in Nat /\ \A i \in 1..Len(s) : s[i] \in S
    OBVIOUS
  <2> HIDE DEF n
  <2>4. \A j \in 1..(Len(s) - 1) : q[j] = IF j < n THEN s[j] ELSE s[j + 1]
    OBVIOUS
  <2>5. q \in Seq(S) /\ Len(q) = Len(s) - 1
    <3>1. Len(s) - 1 \in Nat
      BY <2>1, <2>3
    <3>2. q \in [1..(Len(s) - 1) -> S]
      BY <2>1, <2>3
    <3> QED BY <3>1, <3>2
  <2> HIDE DEF q
  <2>6. \A i \in 1..Len(q) : q[i] # c /\ \E k \in 1..Len(s) : q[i] = s[k]
    <3> TAKE i \in 1..Len(q)
    <3>1. CASE i < n
      <4>1. i \in 1..Len(s) /\ q[i] = s[i] /\ i # n
        BY <3>1, <2>1, <2>3, <2>4, <2>5
      <4> QED BY <4>1, <2>1
    <3>2. CASE ~(i < n)
      <4>1. i + 1 \in 1..Len(s) /\ q[i] = s[i + 1] /\ i + 1 # n
        BY <3>2, <2>1, <2>3, <2>4, <2>5
      <4> QED BY <4>1, <2>1
    <3> QED BY <3>1, <3>2
  <2>7. \A k \in 1..Len(s) : s[k] # c => \E i \in 1..Len(q) : q[i] = s[k]
    <3> SUFFICES ASSUME NEW k \in 1..Len(s), s[k] # c
                 PROVE  \E i \in 1..Len(q) : q[i] = s[k]
      OBVIOUS
    <3>1. CASE k < n
      <4>1. k \in 1..Len(q) /\ q[k] = s[k]
        BY <3>1, <2>1, <2>3, <2>4, <2>5
      <4> QED BY <4>1
    <3>2. CASE k > n
      <4>1. k - 1 \in 1..Len(q) /\ q[k - 1] = s[(k - 1) + 1] /\ (k - 1) + 1 = k
        BY <3>2, <2>1, <2>3, <2>4, <2>5
      <4> QED BY <4>1
    <3>3. k # n
      BY <2>1
    <3> QED BY <3>1, <3>2, <3>3, <2>1, <2>3
  <2>8. \A i, j \in 1..Len(q) : q[i] = q[j] => i = j
    <3> SUFFICES ASSUME NEW i \in 1..Len(q), NEW j \in 1..Len(q), q[i] = q[j]
                 PROVE  i = j
      OBVIOUS
    <3> DEFINE up(m) == IF m < n THEN m ELSE m + 1
    <3>1. up(i) \in 1..Len(s) /\ q[i] = s[up(i)]
      BY <2>1, <2>3, <2>4, <2>5
    <3>2. up(j) \in 1..Len(s) /\ q[j] = s[up(j)]
      BY <2>1, <2>3, <2>4, <2>5
    <3>3. up(i) = up(j)
      BY <3>1, <3>2
    <3> QED BY <3>3, <2>1, <2>3, <2>5
  <2>9. Len(s) > 0 /\ s[1] # c => q[1] = s[1]
    <3> SUFFICES ASSUME Len(s) > 0, s[1] # c PROVE q[1] = s[1]
      OBVIOUS
    <3>1. n > 1 /\ 1 \in 1..(Len(s) - 1)
      BY <2>1, <2>3
    <3> QED BY <3>1, <2>1, <2>4
  <2> QED BY <2>2, <2>5, <2>6, <2>7, <2>8, <2>9
<1> QED BY <1>1, <1>2

------------------------------------------------------------------------------
(* Types *)

\* Initially everything has its type.
LEMMA TypedInit == Init => Typed
<1> SUFFICES ASSUME Init PROVE Typed
  OBVIOUS
<1>1. HubTypeOK
  BY DEF Init, HubInit, HubTypeOK
<1>2. InviteTypeOK
  BY DEF Init, InviteInit, InviteTypeOK
<1>3. ScuttleTypeOK
  <2>1. (CHOOSE r \in Rooms : TRUE) \in Rooms
    BY RoomsAssumption
  <2> QED BY <2>1 DEF Init, ScuttleInit, ScuttleTypeOK
<1>4. TransferTypeOK /\ BeaconTypeOK
  BY DEF Init, TransferInit, TransferTypeOK, BeaconInit, BeaconTypeOK
<1>5. RoomKnown
  BY DEF Init, RoomKnown
<1> QED BY <1>1, <1>2, <1>3, <1>4, <1>5 DEF Init, Typed, TypeOK, ServeTypeOK

\* A step either leaves the registry and the connections' lifecycle alone, or is one
\* of the lifecycle steps, a burn, or a teardown.
LEMMA StepKinds ==
  ASSUME Typed, Next
  PROVE  \/ UNCHANGED coreVars
         \/ \E c \in Conns :
              \/ \E r \in Rooms, t \in Tokens \cup {NoToken} : Hello(c, r, t)
              \/ Gate(c) \/ Probe(c) \/ Join(c) \/ Found(c)
              \/ Disconnect(c) \/ Leave(c) \/ Depart(c)
         \/ \E r \in Rooms : Burns(r) \/ TearsDown(r)
<1> USE DEF coreVars
<1>1. ASSUME NEW c \in Conns, Loop(c)
      PROVE  UNCHANGED coreVars \/ \E r \in Rooms : Burns(r)
  <2>1. CASE Frame(c)
    BY <2>1 DEF Frame, HubTouch, regVars, serveVars
  <2>2. CASE ScuttleNow(c)
    <3>1. room[c] \in Rooms
      BY <2>2 DEF ScuttleNow, Typed, RoomKnown
    <3> QED BY <2>2, <3>1 DEF ScuttleNow, Burns, serveVars
  <2>3. ASSUME NEW t \in Tokens, InviteRequest(c, t)
        PROVE  UNCHANGED coreVars
    BY <2>3 DEF InviteRequest, HubTouch, regVars, serveVars
  <2>4. ASSUME NEW t \in Timers, ScuttleArm(c, t)
        PROVE  UNCHANGED coreVars
    BY <2>4 DEF ScuttleArm, HubTouch, regVars, serveVars
  <2>5. ASSUME NEW w \in WarRooms, NEW ts \in SUBSET Tokens, BreakGlass(c, w, ts)
        PROVE  UNCHANGED coreVars
    BY <2>5 DEF BreakGlass, HubTouch, regVars, serveVars
  <2>6. ASSUME NEW i \in Tids, FileOffer(c, i) \/ FileEnd(c, i)
        PROVE  UNCHANGED coreVars
    BY <2>6 DEF FileOffer, FileEnd, HubTouch, regVars, serveVars
  <2> QED BY <1>1, <2>1, <2>2, <2>3, <2>4, <2>5, <2>6 DEF Loop
<1>2. ASSUME NEW r \in Rooms,
             \/ Quiesce(r) \/ FireClose(r) \/ SweepForgets(r) \/ BeaconRequest(r)
             \/ \E i \in Tids : TransferStep(r, i)
      PROVE  UNCHANGED coreVars
  BY <1>2 DEF Quiesce, FireClose, SweepForgets, BeaconRequest, TransferStep,
              hubVars, regVars, serveVars
<1>3. ASSUME NEW r \in Rooms, GraceFires(r) \/ IdleTTL(r) \/ SweepExpires(r)
      PROVE  TearsDown(r)
  BY <1>3 DEF GraceFires, IdleTTL, SweepExpires, TearsDown, serveVars
<1>4. ASSUME NEW c \in Conns, Janitor(c)
      PROVE  UNCHANGED coreVars
  BY <1>4 DEF Janitor, hubVars, serveVars
<1>5. ASSUME NEW t \in Timers, Timer(t)
      PROVE  UNCHANGED coreVars
  BY <1>5 DEF Timer, hubVars, serveVars
<1>6. ASSUME InviteStep
      PROVE  UNCHANGED coreVars
  BY <1>6 DEF InviteStep, hubVars, serveVars
<1>7. ASSUME NEW c \in Conns, JanitorBurns(c)
      PROVE  \E r \in Rooms : Burns(r)
  <2>1. jroom[c] \in Rooms
    BY DEF Typed, TypeOK, ScuttleTypeOK
  <2> QED BY <1>7, <2>1 DEF JanitorBurns, Burns, serveVars
<1>8. ASSUME NEW t \in Timers, TimerBurns(t)
      PROVE  \E r \in Rooms : Burns(r)
  <2>1. troom[t] \in Rooms
    BY DEF Typed, TypeOK, ScuttleTypeOK
  <2> QED BY <1>8, <2>1 DEF TimerBurns, Burns, serveVars
<1>9. ASSUME Background
      PROVE  UNCHANGED coreVars \/ \E r \in Rooms : Burns(r) \/ TearsDown(r)
  <2> HIDE DEF coreVars
  <2> QED BY <1>2, <1>3, <1>4, <1>5, <1>6, <1>7, <1>8, <1>9 DEF Background
<1> HIDE DEF coreVars
<1>10. ASSUME NEW c \in Conns, Admission(c) \/ Loop(c) \/ Departure(c)
       PROVE  \/ UNCHANGED coreVars
              \/ \E r \in Rooms, t \in Tokens \cup {NoToken} : Hello(c, r, t)
              \/ Gate(c) \/ Probe(c) \/ Join(c) \/ Found(c)
              \/ Disconnect(c) \/ Leave(c) \/ Depart(c)
              \/ \E r \in Rooms : Burns(r)
  BY <1>1, <1>10 DEF Admission, Departure
<1> QED BY <1>9, <1>10 DEF Next

\* OrderWithout(s, c) is a sequence over what s is a sequence over.
LEMMA OrderWithoutType ==
  ASSUME NEW S, NEW s \in Seq(S), NEW c
  PROVE  OrderWithout(s, c) \in Seq(S)
<1>1. CASE ~ \E i \in 1..Len(s) : s[i] = c
  BY <1>1 DEF OrderWithout
<1>2. CASE \E i \in 1..Len(s) : s[i] = c
  <2> DEFINE n == CHOOSE i \in 1..Len(s) : s[i] = c
             q == [j \in 1..(Len(s) - 1) |-> IF j < n THEN s[j] ELSE s[j + 1]]
  <2>1. n \in 1..Len(s)
    BY <1>2
  <2>2. OrderWithout(s, c) = q
    BY <1>2 DEF OrderWithout
  <2> HIDE DEF n
  <2>3. Len(s) \in Nat /\ Len(s) - 1 \in Nat /\ \A i \in 1..Len(s) : s[i] \in S
    BY <2>1
  <2>4. q \in [1..(Len(s) - 1) -> S]
    BY <2>1, <2>3
  <2> QED BY <2>2, <2>3, <2>4
<1> QED BY <1>1, <1>2

\* A component nobody touches keeps its type.
LEMMA Frames ==
  ASSUME Typed
  PROVE  /\ UNCHANGED hubVars => HubTypeOK'
         /\ UNCHANGED inviteVars => InviteTypeOK'
         /\ UNCHANGED scuttleVars => ScuttleTypeOK'
         /\ UNCHANGED transferVars => TransferTypeOK'
         /\ UNCHANGED beaconVars => BeaconTypeOK'
BY DEF Typed, TypeOK, HubTypeOK, InviteTypeOK, ScuttleTypeOK, TransferTypeOK, BeaconTypeOK,
       hubVars, inviteVars, scuttleVars, transferVars, beaconVars

\* The operations of the hub keep its type.
LEMMA HubOps ==
  ASSUME HubTypeOK, NEW r \in Rooms
  PROVE  /\ \A c \in Conns : HubJoin(r, c) \/ HubLeave(r, c) => HubTypeOK'
         /\ HubExpire(r) /\ grace' \in [Rooms -> Nat] => HubTypeOK'
         /\ HubScuttle(r) /\ quiet' \in SUBSET Rooms => HubTypeOK'
         /\ HubTouch(r) => HubTypeOK'
<1> USE DEF HubTypeOK
<1>1. \A c \in Conns : HubJoin(r, c) => HubTypeOK'
  BY DEF HubJoin
<1>2. ASSUME NEW c \in Conns, HubLeave(r, c)
      PROVE  HubTypeOK'
  <2>1. order[r] \in Seq(Conns)
    OBVIOUS
  <2>2. OrderWithout(order[r], c) \in Seq(Conns)
    BY <2>1, OrderWithoutType
  <2> QED BY <1>2, <2>2 DEF HubLeave
<1>3. HubExpire(r) /\ grace' \in [Rooms -> Nat] => HubTypeOK'
  <2> SUFFICES ASSUME HubExpire(r), grace' \in [Rooms -> Nat] PROVE HubTypeOK'
    OBVIOUS
  <2>1. order' \in [Rooms -> Seq(Conns)]
    <3>1. <<>> \in Seq(Conns)
      OBVIOUS
    <3> QED BY <3>1 DEF HubExpire
  <2>2. members' \in [Rooms -> SUBSET Conns] /\ founder' \in [Rooms -> Conns \cup {NoConn}]
    BY DEF HubExpire
  <2>3. quiet' \in SUBSET Rooms /\ told' \in SUBSET Conns /\ closing' \in SUBSET Conns
    BY DEF HubExpire
  <2>4. purge' \in [Rooms -> Nat]
    BY DEF HubExpire
  <2> QED BY <2>1, <2>2, <2>3, <2>4
<1>4. HubScuttle(r) /\ quiet' \in SUBSET Rooms => HubTypeOK'
  BY DEF HubScuttle, regVars
<1>5. HubTouch(r) => HubTypeOK'
  BY DEF HubTouch, regVars
<1> QED BY <1>1, <1>2, <1>3, <1>4, <1>5

\* The operations on tokens keep their type.
LEMMA InviteOps ==
  ASSUME InviteTypeOK
  PROVE  /\ \A r \in Rooms, ts \in SUBSET Tokens : Generate(ts, r) => InviteTypeOK'
         /\ \A r \in Rooms, t \in Tokens : Redeem(t, r) => InviteTypeOK'
         /\ \A t \in Tokens : TokenExpires(t) => InviteTypeOK'
         /\ InviteSweep => InviteTypeOK'
BY DEF InviteTypeOK, Generate, Redeem, TokenExpires, InviteSweep

\* The operations of the scuttle manager keep its type.
LEMMA ScuttleOps ==
  ASSUME ScuttleTypeOK
  PROVE  /\ \A r \in Rooms, c \in Conns : Start(r, c) => ScuttleTypeOK'
         /\ \A r \in Rooms : Stop(r) => ScuttleTypeOK'
         /\ \A r \in Rooms, t \in Timers : Arm(r, t) => ScuttleTypeOK'
         /\ \A t \in Timers : TimerFires(t) \/ TimerUnregisters(t) => ScuttleTypeOK'
         /\ \A c \in Conns : JanitorStops(c) \/ JanitorForgets(c) => ScuttleTypeOK'
         /\ \A c \in Conns : jpc' = [jpc EXCEPT ![c] = "sawGone"]
                             \/ jpc' = [jpc EXCEPT ![c] = "sawIdle"]
                             \/ jpc' = [jpc EXCEPT ![c] = "exit"]
                             => (UNCHANGED <<idle, jroom, jstop, armVars>> => ScuttleTypeOK')
<1> USE DEF ScuttleTypeOK, janVars, armVars
<1>1. \A r \in Rooms, c \in Conns : Start(r, c) => ScuttleTypeOK'
  BY DEF Start
<1>2. ASSUME NEW r \in Rooms, Stop(r)
      PROVE  ScuttleTypeOK'
  BY <1>2 DEF Stop
<1>3. ASSUME NEW r \in Rooms, NEW t \in Timers, Arm(r, t)
      PROVE  ScuttleTypeOK'
  BY <1>3 DEF Arm
<1>4. \A t \in Timers : TimerFires(t) \/ TimerUnregisters(t) => ScuttleTypeOK'
  BY DEF TimerFires, TimerUnregisters
<1>5. \A c \in Conns : JanitorStops(c) \/ JanitorForgets(c) => ScuttleTypeOK'
  BY DEF JanitorStops, JanitorForgets
<1> QED BY <1>1, <1>2, <1>3, <1>4, <1>5

\* The operations of the transfer tracker keep its type.
LEMMA TransferOps ==
  ASSUME TransferTypeOK, NEW r \in Rooms
  PROVE  /\ \A i \in Tids, c \in Conns : TryStart(r, i, c) => TransferTypeOK'
         /\ \A i \in Tids : Finish(r, i) \/ TransferAges(r, i) => TransferTypeOK'
         /\ \A c \in Conns : AbortBy(r, c) => TransferTypeOK'
<1> USE DEF TransferTypeOK
<1>1. \A i \in Tids, c \in Conns : TryStart(r, i, c) => TransferTypeOK'
  <2>1. Swept(r) \in [Tids -> Conns \cup {NoConn}]
    BY DEF Swept
  <2> QED BY <2>1 DEF TryStart
<1>2. \A i \in Tids : Finish(r, i) => TransferTypeOK'
  BY DEF Finish
<1>3. \A c \in Conns : AbortBy(r, c) => TransferTypeOK'
  BY DEF AbortBy
<1>4. \A i \in Tids : TransferAges(r, i) => TransferTypeOK'
  BY DEF TransferAges
<1> QED BY <1>1, <1>2, <1>3, <1>4

\* The operations of the beacon store keep its type.
LEMMA BeaconOps ==
  ASSUME BeaconTypeOK, NEW r \in Rooms
  PROVE  BeaconPut(r) \/ BeaconDelete(r) \/ BeaconOutlives(r) \/ Outlived(r) => BeaconTypeOK'
BY RoomSetsAssumption DEF BeaconTypeOK, BeaconPut, BeaconDelete, BeaconOutlives, Outlived, beaconVars

\* Every step keeps every type, and a connection's room once it has one.
LEMMA TypedStep == ASSUME Typed, Next PROVE Typed'
<1> USE RoomSetsAssumption DEF serveVars
<1>0. /\ HubTypeOK /\ InviteTypeOK /\ ScuttleTypeOK /\ TransferTypeOK /\ BeaconTypeOK
      /\ ServeTypeOK /\ RoomKnown
  BY DEF Typed, TypeOK
<1>1. ASSUME NEW c \in Conns, Admission(c)
      PROVE  Typed'
  <2>1. ASSUME NEW r \in Rooms, NEW t \in Tokens \cup {NoToken}, Hello(c, r, t)
        PROVE  Typed'
    <3>1. ServeTypeOK' /\ RoomKnown'
      BY <1>0, <2>1 DEF Hello, ServeTypeOK, RoomKnown, GoTo
    <3> QED BY <2>1, <3>1, Frames DEF Hello, Typed, TypeOK
  <2>2. CASE Gate(c)
    <3>1. room[c] \in Rooms
      BY <1>0, <2>2 DEF Gate, RoomKnown
    <3>2. InviteTypeOK'
      <4>1. CASE token[c] = NoToken
        BY <2>2, <4>1, Frames DEF Gate
      <4>2. CASE token[c] # NoToken
        <5>1. token[c] \in Tokens
          BY <1>0, <4>2 DEF ServeTypeOK
        <5> QED BY <1>0, <2>2, <3>1, <4>2, <5>1, InviteOps DEF Gate
      <4> QED BY <4>1, <4>2
    <3>3. ServeTypeOK' /\ RoomKnown'
      BY <1>0, <2>2 DEF Gate, ServeTypeOK, RoomKnown, GoTo
    <3> QED BY <2>2, <3>2, <3>3, Frames DEF Gate, Typed, TypeOK
  <2>3. CASE Probe(c)
    <3>1. ServeTypeOK' /\ RoomKnown'
      BY <1>0, <2>3 DEF Probe, ServeTypeOK, RoomKnown, GoTo
    <3> QED BY <2>3, <3>1, Frames DEF Probe, Typed, TypeOK
  <2>4. CASE Join(c)
    <3>1. room[c] \in Rooms
      BY <1>0, <2>4 DEF Join, RoomKnown
    <3>2. ServeTypeOK' /\ RoomKnown'
      BY <1>0, <2>4 DEF Join, ServeTypeOK, RoomKnown, GoTo, IsEmpty
    <3> QED BY <1>0, <2>4, <3>1, <3>2, Frames, HubOps DEF Join, Typed, TypeOK
  <2>5. CASE Found(c)
    <3>1. room[c] \in Rooms
      BY <1>0, <2>5 DEF Found, RoomKnown
    <3>2. ServeTypeOK' /\ RoomKnown'
      BY <1>0, <2>5 DEF Found, ServeTypeOK, RoomKnown, GoTo
    <3>3. ScuttleTypeOK'
      BY <1>0, <2>5, <3>1, ScuttleOps DEF Found
    <3> QED BY <2>5, <3>2, <3>3, Frames DEF Found, Typed, TypeOK
  <2> QED BY <1>1, <2>1, <2>2, <2>3, <2>4, <2>5 DEF Admission
<1>2. ASSUME UNCHANGED <<pc, serveVars, war>>
      PROVE  ServeTypeOK' /\ RoomKnown'
  BY <1>0, <1>2 DEF ServeTypeOK, RoomKnown
<1>3. ASSUME NEW c \in Conns, Loop(c)
      PROVE  Typed'
  <2>0. pc[c] = "joined" => room[c] \in Rooms
    BY <1>0 DEF RoomKnown
  <2>1. CASE Frame(c)
    BY <1>0, <1>2, <2>0, <2>1, Frames, HubOps DEF Frame, Typed, TypeOK
  <2>2. CASE ScuttleNow(c)
    <3>1. quiet' \in SUBSET Rooms
      BY <1>0, <2>2 DEF ScuttleNow, HubTypeOK
    <3>2. HubTypeOK'
      BY <1>0, <2>0, <2>2, <3>1, HubOps DEF ScuttleNow
    <3> QED BY <1>2, <2>2, <3>2, Frames DEF ScuttleNow, Typed, TypeOK
  <2>3. ASSUME NEW t \in Tokens, InviteRequest(c, t)
        PROVE  Typed'
    <3>1. HubTypeOK' /\ InviteTypeOK'
      BY <1>0, <2>0, <2>3, HubOps, InviteOps DEF InviteRequest
    <3> QED BY <1>2, <2>3, <3>1, Frames DEF InviteRequest, Typed, TypeOK
  <2>4. ASSUME NEW t \in Timers, ScuttleArm(c, t)
        PROVE  Typed'
    <3>1. HubTypeOK' /\ ScuttleTypeOK'
      BY <1>0, <2>0, <2>4, HubOps, ScuttleOps DEF ScuttleArm
    <3> QED BY <1>2, <2>4, <3>1, Frames DEF ScuttleArm, Typed, TypeOK
  <2>5. ASSUME NEW w \in WarRooms, NEW ts \in SUBSET Tokens, BreakGlass(c, w, ts)
        PROVE  Typed'
    <3>1. HubTypeOK'
      BY <1>0, <2>0, <2>5, HubOps DEF BreakGlass
    <3>2. InviteTypeOK'
      BY <1>0, <2>5, InviteOps DEF BreakGlass
    <3>3. ServeTypeOK' /\ RoomKnown'
      BY <1>0, <2>5 DEF BreakGlass, ServeTypeOK, RoomKnown
    <3> QED BY <2>5, <3>1, <3>2, <3>3, Frames DEF BreakGlass, Typed, TypeOK
  <2>6. ASSUME NEW i \in Tids, FileOffer(c, i)
        PROVE  Typed'
    <3>1. HubTypeOK' /\ TransferTypeOK'
      BY <1>0, <2>0, <2>6, HubOps, TransferOps DEF FileOffer
    <3> QED BY <1>2, <2>6, <3>1, Frames DEF FileOffer, Typed, TypeOK
  <2>7. ASSUME NEW i \in Tids, FileEnd(c, i)
        PROVE  Typed'
    <3>1. HubTypeOK' /\ TransferTypeOK'
      BY <1>0, <2>0, <2>7, HubOps, TransferOps DEF FileEnd
    <3> QED BY <1>2, <2>7, <3>1, Frames DEF FileEnd, Typed, TypeOK
  <2> QED BY <1>3, <2>1, <2>2, <2>3, <2>4, <2>5, <2>6, <2>7 DEF Loop
<1>4. ASSUME NEW c \in Conns, Departure(c)
      PROVE  Typed'
  <2>1. CASE Disconnect(c)
    <3>1. ServeTypeOK' /\ RoomKnown'
      BY <1>0, <2>1 DEF Disconnect, ServeTypeOK, RoomKnown, GoTo
    <3> QED BY <2>1, <3>1, Frames DEF Disconnect, Typed, TypeOK
  <2>2. CASE Leave(c)
    <3>1. room[c] \in Rooms
      BY <1>0, <2>2 DEF Leave, RoomKnown
    <3>2. ServeTypeOK' /\ RoomKnown'
      BY <1>0, <2>2 DEF Leave, ServeTypeOK, RoomKnown, GoTo, LeavesEmpty
    <3>3. HubTypeOK'
      BY <1>0, <2>2, <3>1, HubOps DEF Leave
    <3> QED BY <2>2, <3>2, <3>3, Frames DEF Leave, Typed, TypeOK
  <2>3. CASE Depart(c)
    <3>1. room[c] \in Rooms
      BY <1>0, <2>3 DEF Depart, RoomKnown
    <3>2. ServeTypeOK' /\ RoomKnown'
      BY <1>0, <2>3 DEF Depart, ServeTypeOK, RoomKnown, GoTo
    <3>3. HubTypeOK'
      <4>1. UNCHANGED quiet => quiet' \in SUBSET Rooms
        BY <1>0 DEF HubTypeOK
      <4> QED BY <1>0, <2>3, <3>1, <4>1, HubOps, Frames DEF Depart
    <3>4. ScuttleTypeOK'
      BY <1>0, <2>3, <3>1, ScuttleOps, Frames DEF Depart
    <3>5. TransferTypeOK'
      BY <1>0, <2>3, <3>1, TransferOps DEF Depart
    <3> QED BY <2>3, <3>2, <3>3, <3>4, <3>5, Frames DEF Depart, Typed, TypeOK
  <2> QED BY <1>4, <2>1, <2>2, <2>3 DEF Departure
<1>5. ASSUME Background
      PROVE  Typed'
  <2>1. ASSUME NEW r \in Rooms, Quiesce(r)
        PROVE  Typed'
    <3>1. HubTypeOK'
      BY <1>0, <2>1 DEF Quiesce, HubTypeOK, regVars
    <3> QED BY <1>2, <2>1, <3>1, Frames DEF Quiesce, Typed, TypeOK
  <2>2. ASSUME NEW r \in Rooms, GraceFires(r)
        PROVE  Typed'
    <3>1. grace' \in [Rooms -> Nat]
      BY <1>0, <2>2 DEF GraceFires, HubTypeOK
    <3>2. HubTypeOK' /\ BeaconTypeOK'
      BY <1>0, <2>2, <3>1, HubOps, BeaconOps DEF GraceFires
    <3> QED BY <1>2, <2>2, <3>2, Frames DEF GraceFires, Typed, TypeOK
  <2>3. ASSUME NEW r \in Rooms, IdleTTL(r)
        PROVE  Typed'
    <3>1. grace' \in [Rooms -> Nat]
      BY <1>0, <2>3 DEF IdleTTL, HubTypeOK
    <3>2. HubTypeOK' /\ BeaconTypeOK'
      BY <1>0, <2>3, <3>1, HubOps, BeaconOps DEF IdleTTL
    <3> QED BY <1>2, <2>3, <3>2, Frames DEF IdleTTL, Typed, TypeOK
  <2>4. ASSUME NEW r \in Rooms, FireClose(r)
        PROVE  Typed'
    <3>1. HubTypeOK'
      BY <1>0, <2>4 DEF FireClose, HubTypeOK, regVars
    <3>2. BeaconTypeOK'
      BY <1>0, <2>4, BeaconOps DEF FireClose
    <3> QED BY <1>2, <2>4, <3>1, <3>2, Frames DEF FireClose, Typed, TypeOK
  <2>5. ASSUME NEW r \in Rooms, SweepForgets(r)
        PROVE  Typed'
    <3>1. ServeTypeOK' /\ RoomKnown'
      BY <1>0, <2>5 DEF SweepForgets, ServeTypeOK, RoomKnown
    <3> QED BY <2>5, <3>1, Frames DEF SweepForgets, Typed, TypeOK
  <2>6. ASSUME NEW r \in Rooms, SweepExpires(r)
        PROVE  Typed'
    <3>1. grace' \in [Rooms -> Nat]
      BY <1>0, <2>6 DEF SweepExpires, HubTypeOK
    <3>2. HubTypeOK' /\ BeaconTypeOK'
      BY <1>0, <2>6, <3>1, HubOps, BeaconOps DEF SweepExpires
    <3>3. ServeTypeOK' /\ RoomKnown'
      BY <1>0, <2>6 DEF SweepExpires, ServeTypeOK, RoomKnown
    <3> QED BY <2>6, <3>2, <3>3, Frames DEF SweepExpires, Typed, TypeOK
  <2>7. ASSUME NEW r \in Rooms, BeaconRequest(r)
        PROVE  Typed'
    <3>1. BeaconTypeOK'
      BY <1>0, <2>7, BeaconOps DEF BeaconRequest
    <3> QED BY <1>2, <2>7, <3>1, Frames DEF BeaconRequest, Typed, TypeOK
  <2>8. ASSUME NEW r \in Rooms, NEW i \in Tids, TransferStep(r, i)
        PROVE  Typed'
    <3>1. TransferTypeOK'
      BY <1>0, <2>8, TransferOps DEF TransferStep
    <3> QED BY <1>2, <2>8, <3>1, Frames DEF TransferStep, Typed, TypeOK
  <2>9. ASSUME NEW c \in Conns, Janitor(c)
        PROVE  Typed'
    <3>1. ScuttleTypeOK'
      BY <1>0, <2>9, ScuttleOps DEF Janitor, JanitorTick
    <3> QED BY <1>2, <2>9, <3>1, Frames DEF Janitor, Typed, TypeOK
  <2>10. ASSUME NEW c \in Conns, JanitorBurns(c)
         PROVE  Typed'
    <3>1. jroom[c] \in Rooms /\ quiet' \in SUBSET Rooms
      BY <1>0, <2>10 DEF JanitorBurns, ScuttleTypeOK, HubTypeOK
    <3>2. HubTypeOK' /\ ScuttleTypeOK'
      BY <1>0, <2>10, <3>1, HubOps, ScuttleOps DEF JanitorBurns
    <3> QED BY <1>2, <2>10, <3>2, Frames DEF JanitorBurns, Typed, TypeOK
  <2>11. ASSUME NEW t \in Timers, Timer(t)
         PROVE  Typed'
    <3>1. ScuttleTypeOK'
      BY <1>0, <2>11, ScuttleOps DEF Timer
    <3> QED BY <1>2, <2>11, <3>1, Frames DEF Timer, Typed, TypeOK
  <2>12. ASSUME NEW t \in Timers, TimerBurns(t)
         PROVE  Typed'
    <3>1. troom[t] \in Rooms /\ quiet' \in SUBSET Rooms
      BY <1>0, <2>12 DEF TimerBurns, ScuttleTypeOK, HubTypeOK
    <3>2. HubTypeOK'
      BY <1>0, <2>12, <3>1, HubOps DEF TimerBurns
    <3>3. ScuttleTypeOK'
      BY <1>0, <2>12 DEF TimerBurns, ScuttleTypeOK, janVars
    <3> QED BY <1>2, <2>12, <3>2, <3>3, Frames DEF TimerBurns, Typed, TypeOK
  <2>13. ASSUME InviteStep
         PROVE  Typed'
    <3>1. InviteTypeOK'
      BY <1>0, <2>13, InviteOps DEF InviteStep
    <3> QED BY <1>2, <2>13, <3>1, Frames DEF InviteStep, Typed, TypeOK
  <2> QED BY <1>5, <2>1, <2>2, <2>3, <2>4, <2>5, <2>6, <2>7, <2>8, <2>9, <2>10, <2>11, <2>12, <2>13
      DEF Background
<1> QED BY <1>1, <1>3, <1>4, <1>5 DEF Next

\* The type invariant of the relay: every registry, timer and lifecycle variable has
\* its type in every reachable state, for every instance (server/internal).
THEOREM TypeCorrect == Spec => []TypeOK
<1>1. Init => Typed
  BY TypedInit
<1>2. Typed /\ [Next]_vars => Typed'
  <2> SUFFICES ASSUME Typed, [Next]_vars PROVE Typed'
    OBVIOUS
  <2>1. CASE Next
    BY <2>1, TypedStep
  <2>2. CASE UNCHANGED vars
    <3>1. UNCHANGED <<pc, room, token, via, owner, empty, war>>
      BY <2>2 DEF vars, serveVars
    <3>2. ServeTypeOK' /\ RoomKnown'
      BY <3>1 DEF Typed, TypeOK, ServeTypeOK, RoomKnown
    <3> QED BY <2>2, <3>2, Frames DEF vars, Typed, TypeOK
  <2> QED BY <2>1, <2>2
<1>3. Typed => TypeOK
  BY DEF Typed
<1> QED BY <1>1, <1>2, <1>3, PTL DEF Spec

------------------------------------------------------------------------------
(* The registry *)

\* The registry starts empty and nobody has joined.
LEMMA HubInvInit == Init => HubInv
<1> SUFFICES ASSUME Init PROVE HubInv
  OBVIOUS
<1>1. HubConsistent
  <2>1. \A r \in Rooms : members[r] = {} /\ order[r] = <<>> /\ Len(order[r]) = 0
    BY DEF Init, HubInit
  <2> QED BY <2>1 DEF HubConsistent
<1>2. OneFounder /\ NoStranded /\ JoinedFirst
  BY DEF Init, HubInit, OneFounder, NoStranded, JoinedFirst, IsEmpty
<1> QED BY <1>1, <1>2 DEF HubInv

\* hub.Join: the newcomer is new to the room, so the order stays a list without
\* repetition; it owns the room exactly when it found none; nobody told it anything.
LEMMA JoinKeeps ==
  ASSUME Typed, HubInv, NEW c \in Conns, Join(c)
  PROVE  HubInv'
<1> DEFINE r == room[c]
<1>1. r \in Rooms /\ pc[c] = "admitted" /\ UNCHANGED <<room, told, grace, closing>>
  BY DEF Join, Typed, RoomKnown, HubJoin
<1>2. /\ members \in [Rooms -> SUBSET Conns] /\ order \in [Rooms -> Seq(Conns)]
      /\ founder \in [Rooms -> Conns \cup {NoConn}]
      /\ pc \in [Conns -> {"new", "gate", "probe", "admitted", "founding", "joined",
                           "leaving", "left", "done"}]
      /\ owner \in [Conns -> BOOLEAN]
  BY DEF Typed, TypeOK, HubTypeOK, ServeTypeOK
<1>3. \A q \in Rooms : c \notin members[q]
  BY <1>1 DEF HubInv, HubConsistent, Present
<1>4. /\ members' = [members EXCEPT ![r] = @ \cup {c}]
      /\ order' = [order EXCEPT ![r] = Append(@, c)]
      /\ founder' = [founder EXCEPT ![r] = IF IsEmpty(r) THEN c ELSE @]
      /\ owner' = [owner EXCEPT ![c] = IsEmpty(r)]
      /\ pc' = [pc EXCEPT ![c] = IF IsEmpty(r) THEN "founding" ELSE "joined"]
  BY DEF Join, HubJoin, GoTo
<1> HIDE DEF r
<1>5. HubConsistent'
  <2> SUFFICES ASSUME NEW q \in Rooms
               PROVE  /\ \A d \in members'[q] : room'[d] = q /\ pc'[d] \in Present
                      /\ \A i \in 1..Len(order'[q]) : order'[q][i] \in members'[q]
                      /\ \A d \in members'[q] : \E i \in 1..Len(order'[q]) : order'[q][i] = d
                      /\ \A i, j \in 1..Len(order'[q]) : order'[q][i] = order'[q][j] => i = j
    BY DEF HubConsistent
  <2>0. /\ \A d \in members[q] : room[d] = q /\ pc[d] \in Present
        /\ \A i \in 1..Len(order[q]) : order[q][i] \in members[q]
        /\ \A d \in members[q] : \E i \in 1..Len(order[q]) : order[q][i] = d
        /\ \A i, j \in 1..Len(order[q]) : order[q][i] = order[q][j] => i = j
    BY DEF HubInv, HubConsistent
  <2>1. \A d \in members'[q] : room'[d] = q /\ pc'[d] \in Present
    BY <1>1, <1>2, <1>3, <1>4, <2>0 DEF Present, r
  <2>2. CASE q # r
    BY <1>2, <1>4, <2>0, <2>1, <2>2
  <2>3. CASE q = r
    <3>1. order[q] \in Seq(Conns) /\ Len(order[q]) \in Nat
      BY <1>2
    <3>2. order'[q] = Append(order[q], c) /\ members'[q] = members[q] \cup {c}
      BY <1>2, <1>4, <2>3
    <3>3. /\ Len(order'[q]) = Len(order[q]) + 1
          /\ order'[q][Len(order[q]) + 1] = c
          /\ \A i \in 1..Len(order[q]) : order'[q][i] = order[q][i]
      BY <3>1, <3>2
    <3>4. \A i \in 1..Len(order'[q]) : order'[q][i] \in members'[q]
      BY <2>0, <3>1, <3>2, <3>3
    <3>5. \A d \in members'[q] : \E i \in 1..Len(order'[q]) : order'[q][i] = d
      BY <2>0, <3>1, <3>2, <3>3
    <3>6. \A i, j \in 1..Len(order'[q]) : order'[q][i] = order'[q][j] => i = j
      <4>1. \A i \in 1..Len(order[q]) : order'[q][i] # c
        BY <1>3, <2>0, <3>3
      <4>2. \A i \in 1..Len(order'[q]) : i \in 1..Len(order[q]) \/ i = Len(order[q]) + 1
        BY <3>1, <3>3
      <4> QED BY <2>0, <3>3, <4>1, <4>2
    <3> QED BY <2>1, <3>4, <3>5, <3>6
  <2> QED BY <2>2, <2>3
<1>6. OneFounder'
  <2> SUFFICES ASSUME NEW q \in Rooms
               PROVE  /\ founder'[q] = NoConn <=> members'[q] = {}
                      /\ \A d \in members'[q] : owner'[d] <=> founder'[q] = d
    BY DEF OneFounder, IsEmpty
  <2>1. /\ founder[q] = NoConn <=> members[q] = {}
        /\ \A d \in members[q] : owner[d] <=> founder[q] = d
    BY DEF HubInv, OneFounder, IsEmpty
  <2>2. founder[q] # c
    BY <1>1, NoConnAssumption DEF HubInv, JoinedFirst, Arriving
  <2>3. CASE q # r
    <3>1. members'[q] = members[q] /\ founder'[q] = founder[q]
      BY <1>2, <1>4, <2>3
    <3>2. \A d \in members[q] : d \in Conns /\ d # c /\ owner'[d] = owner[d]
      BY <1>2, <1>3, <1>4
    <3> QED BY <2>1, <3>1, <3>2
  <2>4. CASE q = r /\ members[q] = {}
    <3>1. members'[q] = {c} /\ founder'[q] = c /\ owner'[c]
      BY <1>1, <1>2, <1>4, <2>4 DEF IsEmpty
    <3> QED BY <3>1, NoConnAssumption
  <2>5. CASE q = r /\ members[q] # {}
    <3>1. members'[q] = members[q] \cup {c} /\ founder'[q] = founder[q] /\ ~owner'[c]
      BY <1>1, <1>2, <1>4, <2>5 DEF IsEmpty
    <3>2. \A d \in members[q] : d \in Conns /\ d # c /\ owner'[d] = owner[d]
      BY <1>2, <1>3, <1>4
    <3> QED BY <2>1, <2>2, <2>5, <3>1, <3>2
  <2> QED BY <2>3, <2>4, <2>5
<1>7. NoStranded'
  BY <1>1, <1>2, <1>4 DEF HubInv, NoStranded, JoinedFirst, Arriving, r
<1>8. JoinedFirst'
  BY <1>1, <1>2, <1>4 DEF HubInv, JoinedFirst, Arriving
<1> QED BY <1>5, <1>6, <1>7, <1>8 DEF HubInv

\* hub.Leave: the connection goes out of whatever room bears the name now.
LEMMA LeaveKeeps ==
  ASSUME Typed, HubInv, NEW c \in Conns, Leave(c)
  PROVE  HubInv'
<1> DEFINE r == room[c]
<1>1. r \in Rooms /\ pc[c] = "leaving" /\ UNCHANGED <<room, owner, told, grace, closing>>
  BY DEF Leave, Typed, RoomKnown, HubLeave
<1>2. /\ members \in [Rooms -> SUBSET Conns] /\ order \in [Rooms -> Seq(Conns)]
      /\ founder \in [Rooms -> Conns \cup {NoConn}]
      /\ pc \in [Conns -> {"new", "gate", "probe", "admitted", "founding", "joined",
                           "leaving", "left", "done"}]
  BY DEF Typed, TypeOK, HubTypeOK, ServeTypeOK
<1>3. /\ members' = [members EXCEPT ![r] = @ \ {c}]
      /\ order' = [order EXCEPT ![r] = OrderWithout(@, c)]
      /\ founder' = [founder EXCEPT ![r] = IF members[r] \ {c} = {} THEN NoConn ELSE @]
      /\ pc' = [pc EXCEPT ![c] = "left"]
  BY DEF Leave, HubLeave, GoTo, LeavesEmpty
<1>4. \A q \in Rooms : c \in members[q] => q = r
  BY DEF HubInv, HubConsistent
<1> HIDE DEF r
<1>5. HubConsistent'
  <2> SUFFICES ASSUME NEW q \in Rooms
               PROVE  /\ \A d \in members'[q] : room'[d] = q /\ pc'[d] \in Present
                      /\ \A i \in 1..Len(order'[q]) : order'[q][i] \in members'[q]
                      /\ \A d \in members'[q] : \E i \in 1..Len(order'[q]) : order'[q][i] = d
                      /\ \A i, j \in 1..Len(order'[q]) : order'[q][i] = order'[q][j] => i = j
    BY DEF HubConsistent
  <2>0. /\ \A d \in members[q] : room[d] = q /\ pc[d] \in Present
        /\ \A i \in 1..Len(order[q]) : order[q][i] \in members[q]
        /\ \A d \in members[q] : \E i \in 1..Len(order[q]) : order[q][i] = d
        /\ \A i, j \in 1..Len(order[q]) : order[q][i] = order[q][j] => i = j
    BY DEF HubInv, HubConsistent
  <2>1. \A d \in members'[q] : d \in members[q] /\ d # c
    BY <1>2, <1>3, <1>4
  <2>2. \A d \in members'[q] : room'[d] = q /\ pc'[d] \in Present
    BY <1>1, <1>2, <1>3, <2>0, <2>1
  <2>3. CASE q # r
    BY <1>2, <1>3, <2>0, <2>2, <2>3
  <2>4. CASE q = r
    <3>1. order[q] \in Seq(Conns)
      BY <1>2
    <3>2. order'[q] = OrderWithout(order[q], c) /\ members'[q] = members[q] \ {c}
      BY <1>2, <1>3, <2>4
    <3>3. /\ \A i \in 1..Len(order'[q]) :
                order'[q][i] # c /\ \E k \in 1..Len(order[q]) : order'[q][i] = order[q][k]
          /\ \A k \in 1..Len(order[q]) : order[q][k] # c =>
                \E i \in 1..Len(order'[q]) : order'[q][i] = order[q][k]
          /\ \A i, j \in 1..Len(order'[q]) : order'[q][i] = order'[q][j] => i = j
      <4> DEFINE s == order[q]
                 w == OrderWithout(s, c)
      <4>1. s \in Seq(Conns) /\ \A i, j \in 1..Len(s) : s[i] = s[j] => i = j
        BY <2>0, <3>1
      <4>2. w = order'[q]
        BY <3>2
      <4> HIDE DEF s
      <4>3. /\ \A i \in 1..Len(w) : w[i] # c /\ \E k \in 1..Len(s) : w[i] = s[k]
            /\ \A k \in 1..Len(s) : s[k] # c => \E i \in 1..Len(w) : w[i] = s[k]
            /\ \A i, j \in 1..Len(w) : w[i] = w[j] => i = j
        BY ZenonT(40), <4>1, OrderWithoutFacts
      <4> QED BY <4>2, <4>3 DEF s
    <3>4. \A i \in 1..Len(order'[q]) : order'[q][i] \in members'[q]
      BY <2>0, <3>2, <3>3
    <3>5. \A d \in members'[q] : \E i \in 1..Len(order'[q]) : order'[q][i] = d
      BY <2>0, <3>2, <3>3
    <3> QED BY <2>2, <3>3, <3>4, <3>5
  <2> QED BY <2>3, <2>4
<1>6. OneFounder'
  <2> SUFFICES ASSUME NEW q \in Rooms
               PROVE  /\ founder'[q] = NoConn <=> members'[q] = {}
                      /\ \A d \in members'[q] : owner'[d] <=> founder'[q] = d
    BY DEF OneFounder, IsEmpty
  <2>1. /\ founder[q] = NoConn <=> members[q] = {}
        /\ \A d \in members[q] : owner[d] <=> founder[q] = d
    BY DEF HubInv, OneFounder, IsEmpty
  <2>2. CASE q # r
    <3>1. members'[q] = members[q] /\ founder'[q] = founder[q]
      BY <1>2, <1>3, <2>2
    <3> QED BY <1>1, <2>1, <3>1
  <2>3. CASE q = r /\ members[q] \ {c} = {}
    <3>1. members'[q] = {} /\ founder'[q] = NoConn
      BY <1>2, <1>3, <2>3
    <3> QED BY <3>1
  <2>4. CASE q = r /\ members[q] \ {c} # {}
    <3>1. members'[q] = members[q] \ {c} /\ founder'[q] = founder[q] /\ members[q] # {}
      BY <1>2, <1>3, <2>4
    <3> QED BY <1>1, <2>1, <2>4, <3>1
  <2> QED BY <2>2, <2>3, <2>4
<1>7. NoStranded'
  <2> SUFFICES ASSUME NEW d \in Conns, pc'[d] \in {"founding", "joined"}, d \notin closing'
               PROVE  d \in members'[room'[d]] /\ (d \in told' => grace'[room'[d]] > 0)
    BY DEF NoStranded
  <2>1. d # c /\ pc[d] \in {"founding", "joined"} /\ d \notin closing
    BY <1>1, <1>2, <1>3
  <2>2. d \in members[room[d]] /\ (d \in told => grace[room[d]] > 0) /\ room[d] \in Rooms
    BY <2>1 DEF HubInv, NoStranded, Typed, RoomKnown
  <2> QED BY <1>1, <1>2, <1>3, <2>1, <2>2
<1>8. JoinedFirst'
  BY <1>1, <1>2, <1>3 DEF HubInv, JoinedFirst, Arriving
<1> QED BY <1>5, <1>6, <1>7, <1>8 DEF HubInv

\* hub.ExpireRoom: the room is gone and everyone who was in it is being closed.
LEMMA TearDownKeeps ==
  ASSUME Typed, HubInv, NEW r \in Rooms, TearsDown(r)
  PROVE  HubInv'
<1>1. /\ members' = [members EXCEPT ![r] = {}]
      /\ order' = [order EXCEPT ![r] = <<>>]
      /\ founder' = [founder EXCEPT ![r] = NoConn]
      /\ closing' = closing \cup members[r]
      /\ UNCHANGED <<told, pc, room, owner>>
      /\ \A q \in Rooms \ {r} : grace'[q] = grace[q]
  BY DEF TearsDown, HubExpire, Typed, TypeOK, HubTypeOK
<1>2. /\ members \in [Rooms -> SUBSET Conns] /\ order \in [Rooms -> Seq(Conns)]
      /\ founder \in [Rooms -> Conns \cup {NoConn}]
  BY DEF Typed, TypeOK, HubTypeOK
<1>3. /\ members'[r] = {} /\ order'[r] = <<>> /\ Len(order'[r]) = 0 /\ founder'[r] = NoConn
      /\ \A q \in Rooms \ {r} :
            members'[q] = members[q] /\ order'[q] = order[q] /\ founder'[q] = founder[q]
  BY <1>1, <1>2
<1>4. HubConsistent'
  BY <1>1, <1>3 DEF HubInv, HubConsistent
<1>5. OneFounder'
  BY <1>1, <1>3 DEF HubInv, OneFounder, IsEmpty
<1>6. NoStranded'
  <2> SUFFICES ASSUME NEW d \in Conns, pc'[d] \in {"founding", "joined"}, d \notin closing'
               PROVE  d \in members'[room'[d]] /\ (d \in told' => grace'[room'[d]] > 0)
    BY DEF NoStranded
  <2>1. d \in members[room[d]] /\ (d \in told => grace[room[d]] > 0) /\ room[d] \in Rooms
    BY <1>1 DEF HubInv, NoStranded, Typed, RoomKnown
  <2>2. room[d] # r
    BY <1>1, <2>1
  <2> QED BY <1>1, <1>3, <2>1, <2>2
<1>7. JoinedFirst'
  BY <1>1, <1>3 DEF HubInv, JoinedFirst
<1> QED BY <1>4, <1>5, <1>6, <1>7 DEF HubInv

\* hub.Scuttle: everyone told has the teardown that was just scheduled to come.
LEMMA BurnKeeps ==
  ASSUME Typed, HubInv, NEW r \in Rooms, HubScuttle(r), UNCHANGED <<room, owner>>,
         \A c \in Conns : pc'[c] = pc[c] \/ (pc[c] = "left" /\ pc'[c] = "done")
  PROVE  HubInv'
<1>1. /\ UNCHANGED <<members, order, founder, closing>>
      /\ told' = told \cup members[r]
      /\ grace' = [grace EXCEPT ![r] = IF members[r] = {} THEN @ ELSE @ + 1]
  BY DEF HubScuttle, regVars, IsEmpty
<1>2. /\ members \in [Rooms -> SUBSET Conns] /\ grace \in [Rooms -> Nat]
      /\ founder \in [Rooms -> Conns \cup {NoConn}] /\ told \in SUBSET Conns
  BY DEF Typed, TypeOK, HubTypeOK
<1>3. HubConsistent'
  <2>1. \A q \in Rooms : \A c \in members[q] : pc'[c] = pc[c]
    BY <1>2 DEF HubInv, HubConsistent, Present
  <2> QED BY <1>1, <2>1 DEF HubInv, HubConsistent
<1>4. OneFounder'
  BY <1>1 DEF HubInv, OneFounder, IsEmpty
<1>5. NoStranded'
  <2> SUFFICES ASSUME NEW d \in Conns, pc'[d] \in {"founding", "joined"}, d \notin closing'
               PROVE  d \in members'[room'[d]] /\ (d \in told' => grace'[room'[d]] > 0)
    BY DEF NoStranded
  <2>1. d \in members[room[d]] /\ (d \in told => grace[room[d]] > 0) /\ room[d] \in Rooms
    BY <1>1 DEF HubInv, NoStranded, Typed, RoomKnown
  <2>2. d \in members[r] => room[d] = r
    BY DEF HubInv, HubConsistent
  <2> QED BY <1>1, <1>2, <2>1, <2>2
<1>6. JoinedFirst'
  <2>1. \A c \in members[r] : c \in Conns /\ pc[c] \notin Arriving
    BY <1>2 DEF HubInv, HubConsistent, Present, Arriving
  <2>2. \A c \in Conns : pc[c] \notin Arriving => pc'[c] \notin Arriving
    BY DEF Arriving
  <2> QED BY <1>1, <1>2, <2>1, <2>2 DEF HubInv, JoinedFirst
<1> QED BY <1>3, <1>4, <1>5, <1>6 DEF HubInv

\* The lifecycle steps that leave the registry alone.
LEMMA LifecycleKeeps ==
  ASSUME Typed, HubInv, NEW c \in Conns,
         UNCHANGED <<members, order, founder, told, grace, closing, owner>>,
         \/ \E r \in Rooms, t \in Tokens \cup {NoToken} : Hello(c, r, t)
         \/ Gate(c) \/ Probe(c) \/ Found(c) \/ Disconnect(c) \/ Depart(c)
  PROVE  HubInv'
<1>1. pc \in [Conns -> {"new", "gate", "probe", "admitted", "founding", "joined",
                        "leaving", "left", "done"}]
      /\ members \in [Rooms -> SUBSET Conns] /\ told \in SUBSET Conns
      /\ founder \in [Rooms -> Conns \cup {NoConn}] /\ room \in [Conns -> Rooms \cup {NoRoom}]
  BY DEF Typed, TypeOK, HubTypeOK, ServeTypeOK
<1>2. /\ \A d \in Conns \ {c} : pc'[d] = pc[d] /\ room'[d] = room[d]
      /\ pc[c] # "new" => room'[c] = room[c]
      /\ pc[c] \in Present => pc'[c] \in Present
      /\ pc[c] \notin Arriving => pc'[c] \notin Arriving
      /\ pc'[c] \in {"founding", "joined"} => pc[c] \in {"founding", "joined"}
  <2>1. ASSUME NEW r \in Rooms, NEW t \in Tokens \cup {NoToken}, Hello(c, r, t)
        PROVE  /\ \A d \in Conns \ {c} : pc'[d] = pc[d] /\ room'[d] = room[d]
               /\ pc[c] = "new" /\ pc'[c] \in {"gate", "admitted"}
    BY <1>1, <2>1 DEF Hello, GoTo
  <2>2. CASE Gate(c)
    BY <1>1, <2>2 DEF Gate, GoTo, Present, Arriving
  <2>3. CASE Probe(c)
    BY <1>1, <2>3 DEF Probe, GoTo, Present, Arriving
  <2>4. CASE Found(c)
    BY <1>1, <2>4 DEF Found, GoTo, Present, Arriving, serveVars
  <2>5. CASE Disconnect(c)
    BY <1>1, <2>5 DEF Disconnect, GoTo, Present, Arriving, serveVars
  <2>6. CASE Depart(c)
    BY <1>1, <2>6 DEF Depart, GoTo, Present, Arriving, serveVars
  <2> QED BY <2>1, <2>2, <2>3, <2>4, <2>5, <2>6 DEF Present, Arriving
<1>3. HubConsistent'
  <2>1. \A q \in Rooms : \A d \in members[q] : room'[d] = room[d] /\ pc'[d] \in Present
    BY <1>1, <1>2 DEF HubInv, HubConsistent, Present
  <2> QED BY <2>1 DEF HubInv, HubConsistent
<1>4. OneFounder'
  BY DEF HubInv, OneFounder, IsEmpty
<1>5. NoStranded'
  BY <1>1, <1>2 DEF HubInv, NoStranded
<1>6. JoinedFirst'
  BY <1>1, <1>2 DEF HubInv, JoinedFirst
<1> QED BY <1>3, <1>4, <1>5, <1>6 DEF HubInv

\* Every step keeps the inductive invariant of the registry.
LEMMA HubInvStep == ASSUME Typed, HubInv, Next PROVE HubInv'
<1>1. CASE UNCHANGED coreVars
  BY <1>1 DEF coreVars, HubInv, HubConsistent, OneFounder, NoStranded, JoinedFirst, IsEmpty
<1>2. ASSUME NEW c \in Conns,
             \/ \E r \in Rooms, t \in Tokens \cup {NoToken} : Hello(c, r, t)
             \/ Gate(c) \/ Probe(c) \/ Found(c) \/ Disconnect(c)
      PROVE  HubInv'
  <2>1. UNCHANGED <<members, order, founder, told, grace, closing, owner>>
    BY <1>2 DEF Hello, Gate, Probe, Found, Disconnect, hubVars, serveVars
  <2> QED BY <1>2, <2>1, LifecycleKeeps
<1>3. ASSUME NEW c \in Conns, Depart(c)
      PROVE  HubInv'
  <2>1. CASE UNCHANGED hubVars
    <3>1. UNCHANGED <<members, order, founder, told, grace, closing, owner>>
      BY <1>3, <2>1 DEF Depart, hubVars, serveVars
    <3> QED BY <1>3, <3>1, LifecycleKeeps
  <2>2. CASE HubScuttle(room[c])
    <3>1. room[c] \in Rooms /\ UNCHANGED <<room, owner>>
      BY <1>3 DEF Depart, Typed, RoomKnown, serveVars
    <3>2. \A d \in Conns : pc'[d] = pc[d] \/ (pc[d] = "left" /\ pc'[d] = "done")
      BY <1>3 DEF Depart, GoTo, Typed, TypeOK, ServeTypeOK
    <3> QED BY <2>2, <3>1, <3>2, BurnKeeps
  <2> QED BY <1>3, <2>1, <2>2 DEF Depart
<1>4. ASSUME NEW r \in Rooms, Burns(r)
      PROVE  HubInv'
  BY <1>4, BurnKeeps DEF Burns
<1> QED BY <1>1, <1>2, <1>3, <1>4, JoinKeeps, LeaveKeeps, TearDownKeeps, StepKinds

\* Types and registry together.
LEMMA RelayInvariant == Spec => [](Typed /\ HubInv)
<1>1. Init => Typed /\ HubInv
  BY TypedInit, HubInvInit
<1>2. Typed /\ HubInv /\ [Next]_vars => (Typed /\ HubInv)'
  <2> SUFFICES ASSUME Typed, HubInv, [Next]_vars PROVE Typed' /\ HubInv'
    OBVIOUS
  <2>1. CASE Next
    BY <2>1, TypedStep, HubInvStep
  <2>2. CASE UNCHANGED vars
    <3>1. UNCHANGED coreVars /\ UNCHANGED <<pc, room, token, via, owner, empty, war>>
      BY <2>2 DEF vars, serveVars, hubVars, coreVars
    <3>2. HubInv'
      BY <3>1 DEF coreVars, HubInv, HubConsistent, OneFounder, NoStranded, JoinedFirst, IsEmpty
    <3>3. ServeTypeOK' /\ RoomKnown'
      BY <3>1 DEF Typed, TypeOK, ServeTypeOK, RoomKnown
    <3> QED BY <2>2, <3>2, <3>3, Frames DEF vars, Typed, TypeOK
  <2> QED BY <2>1, <2>2
<1> QED BY <1>1, <1>2, PTL DEF Spec

\* hub.go's map and slice never disagree: a room's order lists exactly its members,
\* once each, and every member is a live connection of that room.
THEOREM RegistrySound == Spec => []HubConsistent
<1>1. Typed /\ HubInv => HubConsistent
  BY DEF HubInv
<1> QED BY <1>1, RelayInvariant, PTL

\* Among the members of a room exactly the founder of this incarnation is the owner
\* (server.go's iAmOwner), through any interleaving of joins, leaves and teardowns.
THEOREM SingleOwner == Spec => []OneFounder
<1>1. Typed /\ HubInv => OneFounder
  BY DEF HubInv
<1> QED BY <1>1, RelayInvariant, PTL

\* What Hub.Join and Leave keep of a room, and who may believe to own it, hold together for
\* any number of connections, rooms and incarnations.
THEOREM RegistryOwned == Spec => []OwnedRegistry
<1>1. HubConsistent /\ OneFounder => OwnedRegistry  BY DEF OwnedRegistry
<1> QED  BY <1>1, RegistrySound, SingleOwner, PTL

\* No connection is left serving a room it is not in unless the server is closing it,
\* and nobody told of a burn is left without a pending teardown (hub.go Scuttle).
THEOREM NobodyStranded == Spec => []NoStranded
<1>1. Typed /\ HubInv => NoStranded
  BY DEF HubInv
<1> QED BY <1>1, RelayInvariant, PTL

\* The oldest member of a room, whom the relay asks to hand the room key to
\* newcomers, is replaced only by leaving (hub.go order, JoinResult.Distributor).
THEOREM DistributorIsStable == Spec => DistributorStable
<1> DEFINE A == \A r \in Rooms :
                  (~IsEmpty(r) /\ order[r][1] \in members'[r]) => order'[r][1] = order[r][1]
<1>1. ASSUME Typed, HubInv, Next
      PROVE  A
  <2> SUFFICES ASSUME NEW q \in Rooms, members[q] # {}, order[q][1] \in members'[q]
               PROVE  order'[q][1] = order[q][1]
    BY DEF IsEmpty
  <2>1. /\ order[q] \in Seq(Conns) /\ order \in [Rooms -> Seq(Conns)]
        /\ members \in [Rooms -> SUBSET Conns]
        /\ \A i, j \in 1..Len(order[q]) : order[q][i] = order[q][j] => i = j
    BY <1>1 DEF Typed, TypeOK, HubTypeOK, HubInv, HubConsistent
  <2>2. Len(order[q]) \in Nat /\ Len(order[q]) > 0
    <3>1. PICK i \in 1..Len(order[q]) : TRUE
      BY <1>1 DEF HubInv, HubConsistent
    <3> QED BY <2>1, <3>1
  <2>3. ASSUME NEW c \in Conns, Join(c)
        PROVE  order'[q][1] = order[q][1]
    <3>1. order'[q] = order[q] \/ order'[q] = Append(order[q], c)
      BY <2>1, <2>3 DEF Join, HubJoin
    <3> QED BY <2>1, <2>2, <3>1
  <2>4. ASSUME NEW c \in Conns, Leave(c)
        PROVE  order'[q][1] = order[q][1]
    <3>1. CASE q # room[c]
      BY <2>1, <2>4, <3>1 DEF Leave, HubLeave
    <3>2. CASE q = room[c]
      <4> DEFINE s == order[q]
      <4>1. order'[q] = OrderWithout(s, c) /\ s[1] # c
        BY <2>1, <2>4, <3>2 DEF Leave, HubLeave
      <4>2. s \in Seq(Conns) /\ Len(s) > 0 /\ \A i, j \in 1..Len(s) : s[i] = s[j] => i = j
        BY <2>1, <2>2
      <4> HIDE DEF s
      <4>3. OrderWithout(s, c)[1] = s[1]
        BY <4>1, <4>2, OrderWithoutFacts, Zenon
      <4> QED BY <4>1, <4>3 DEF s
    <3> QED BY <3>1, <3>2
  <2>5. ASSUME NEW r \in Rooms, TearsDown(r)
        PROVE  order'[q][1] = order[q][1]
    BY <2>1, <2>5 DEF TearsDown, HubExpire
  <2>6. ASSUME NEW r \in Rooms, Burns(r)
        PROVE  order'[q][1] = order[q][1]
    BY <2>6 DEF Burns, HubScuttle, regVars
  <2>7. ASSUME NEW c \in Conns,
               \/ \E r \in Rooms, t \in Tokens \cup {NoToken} : Hello(c, r, t)
               \/ Gate(c) \/ Probe(c) \/ Found(c) \/ Disconnect(c) \/ Depart(c)
        PROVE  order'[q][1] = order[q][1]
    BY <2>7 DEF Hello, Gate, Probe, Found, Disconnect, Depart, HubScuttle, hubVars, regVars
  <2>8. UNCHANGED coreVars => order'[q][1] = order[q][1]
    BY DEF coreVars
  <2> QED BY <1>1, <2>3, <2>4, <2>5, <2>6, <2>7, <2>8, StepKinds
<1>2. Typed /\ HubInv /\ [Next]_vars => [A]_vars
  BY <1>1
<1> QED BY <1>2, RelayInvariant, PTL DEF Spec, DistributorStable

------------------------------------------------------------------------------
(* Tokens *)

admitVars == <<inviteVars, room, token, via>>

\* The steps that touch a token or what a connection presented and was admitted by.
LEMMA TokenKinds ==
  ASSUME Typed, Next
  PROVE  \/ UNCHANGED admitVars
         \/ \E c \in Conns : \/ \E r \in Rooms, t \in Tokens \cup {NoToken} : Hello(c, r, t)
                             \/ Gate(c) \/ Probe(c)
         \/ /\ UNCHANGED <<room, token, via>>
            /\ \/ \E ts \in SUBSET Tokens, r \in Rooms : Generate(ts, r)
               \/ InviteSweep
               \/ \E t \in Tokens : TokenExpires(t)
<1> USE DEF admitVars, serveVars
<1>1. ASSUME NEW c \in Conns, Join(c) \/ Found(c) \/ Departure(c)
      PROVE  UNCHANGED admitVars
  BY <1>1 DEF Join, Found, Departure, Disconnect, Leave, Depart
<1>2. ASSUME NEW c \in Conns, Loop(c)
      PROVE  \/ UNCHANGED admitVars
             \/ /\ UNCHANGED <<room, token, via>>
                /\ \E ts \in SUBSET Tokens, r \in Rooms : Generate(ts, r)
  <2>0. pc[c] = "joined" => room[c] \in Rooms
    BY DEF Typed, RoomKnown
  <2>1. CASE Frame(c) \/ ScuttleNow(c)
    BY <2>1 DEF Frame, ScuttleNow
  <2>2. ASSUME NEW t \in Tokens, InviteRequest(c, t)
        PROVE  /\ UNCHANGED <<room, token, via>>
               /\ \E ts \in SUBSET Tokens, r \in Rooms : Generate(ts, r)
    <3>1. {t} \in SUBSET Tokens
      OBVIOUS
    <3> QED BY <2>0, <2>2, <3>1 DEF InviteRequest
  <2>3. ASSUME NEW t \in Timers, ScuttleArm(c, t)
        PROVE  UNCHANGED admitVars
    BY <2>3 DEF ScuttleArm
  <2>4. ASSUME NEW w \in WarRooms, NEW ts \in SUBSET Tokens, BreakGlass(c, w, ts)
        PROVE  /\ UNCHANGED <<room, token, via>>
               /\ \E us \in SUBSET Tokens, r \in Rooms : Generate(us, r)
    BY <2>4, RoomSetsAssumption DEF BreakGlass
  <2>5. ASSUME NEW i \in Tids, FileOffer(c, i) \/ FileEnd(c, i)
        PROVE  UNCHANGED admitVars
    BY <2>5 DEF FileOffer, FileEnd
  <2> HIDE DEF admitVars, serveVars
  <2> QED BY <1>2, <2>1, <2>2, <2>3, <2>4, <2>5 DEF Loop
<1>3. ASSUME Background, ~InviteStep
      PROVE  UNCHANGED admitVars
  <2>1. ASSUME NEW r \in Rooms,
               \/ Quiesce(r) \/ GraceFires(r) \/ IdleTTL(r) \/ FireClose(r)
               \/ SweepForgets(r) \/ SweepExpires(r) \/ BeaconRequest(r)
               \/ \E i \in Tids : TransferStep(r, i)
        PROVE  UNCHANGED admitVars
    BY <2>1 DEF Quiesce, GraceFires, IdleTTL, FireClose, SweepForgets, SweepExpires,
                BeaconRequest, TransferStep
  <2>2. ASSUME NEW c \in Conns, Janitor(c) \/ JanitorBurns(c)
        PROVE  UNCHANGED admitVars
    BY <2>2 DEF Janitor, JanitorBurns
  <2>3. ASSUME NEW t \in Timers, Timer(t) \/ TimerBurns(t)
        PROVE  UNCHANGED admitVars
    BY <2>3 DEF Timer, TimerBurns
  <2> HIDE DEF admitVars, serveVars
  <2> QED BY <1>3, <2>1, <2>2, <2>3 DEF Background
<1>4. CASE InviteStep
  BY <1>4 DEF InviteStep
<1> HIDE DEF admitVars, serveVars
<1> QED BY <1>1, <1>2, <1>3, <1>4 DEF Next, Admission

\* An invite token admits at most one connection, and only to the room it was minted
\* for, under every interleaving of redemptions, expiry and sweeps (invite.go Redeem).
THEOREM TokensAdmitOnce == Spec => []TokenOnce
<1>1. Init => TokenOnce
  BY DEF Init, TokenOnce
<1>2. ASSUME Typed, TokenOnce, [Next]_vars
      PROVE  TokenOnce'
  <2>0. /\ tokState \in [Tokens -> {"unminted", "live", "expired", "spent"}]
        /\ tokRoom \in [Tokens -> Rooms \cup {NoRoom}]
        /\ via \in [Conns -> {"none", "open", "token", "empty"}]
        /\ token \in [Conns -> Tokens \cup {NoToken}]
        /\ room \in [Conns -> Rooms \cup {NoRoom}]
    BY <1>2 DEF Typed, TypeOK, InviteTypeOK, ServeTypeOK
  <2>1. CASE UNCHANGED admitVars
    BY <1>2, <2>1 DEF admitVars, inviteVars, TokenOnce
  <2>2. ASSUME NEW c \in Conns, NEW r \in Rooms, NEW t \in Tokens \cup {NoToken}, Hello(c, r, t)
        PROVE  TokenOnce'
    BY <1>2, <2>0, <2>2 DEF Hello, TokenOnce, inviteVars
  <2>3. ASSUME NEW c \in Conns, Gate(c)
        PROVE  TokenOnce'
    <3>1. CASE token[c] # NoToken /\ Redeemable(token[c], room[c])
      BY <1>2, <2>0, <2>3, <3>1 DEF Gate, Redeem, Redeemable, TokenOnce
    <3>2. CASE ~(token[c] # NoToken /\ Redeemable(token[c], room[c]))
      <4>1. UNCHANGED <<room, token, tokRoom>> /\ via' = via
        BY <2>0, <2>3, <3>2 DEF Gate, Redeem, inviteVars
      <4>2. \A u \in Tokens : tokState[u] = "spent" => tokState'[u] = "spent"
        BY <2>0, <2>3, <3>2 DEF Gate, Redeem, inviteVars
      <4> QED BY <1>2, <4>1, <4>2 DEF TokenOnce
    <3> QED BY <3>1, <3>2
  <2>4. ASSUME NEW c \in Conns, Probe(c)
        PROVE  TokenOnce'
    BY <1>2, <2>0, <2>4 DEF Probe, TokenOnce, inviteVars
  <2>5. ASSUME UNCHANGED <<room, token, via>>,
               \/ \E ts \in SUBSET Tokens, r \in Rooms : Generate(ts, r)
               \/ InviteSweep
               \/ \E t \in Tokens : TokenExpires(t)
        PROVE  TokenOnce'
    <3>1. \A u \in Tokens : tokState[u] = "spent" =>
            tokState'[u] = "spent" /\ tokRoom'[u] = tokRoom[u]
      BY <2>0, <2>5 DEF Generate, InviteSweep, TokenExpires
    <3> QED BY <1>2, <2>5, <3>1 DEF TokenOnce
  <2>6. CASE UNCHANGED vars
    BY <1>2, <2>1, <2>6 DEF vars, admitVars, serveVars
  <2> QED BY <1>2, <2>1, <2>2, <2>3, <2>4, <2>5, <2>6, TokenKinds
<1>3. Typed /\ HubInv => Typed
  OBVIOUS
<1> QED BY <1>1, <1>2, <1>3, RelayInvariant, PTL DEF Spec

------------------------------------------------------------------------------
(* The Status Beacons and the transfer slots. *)

\* What the beacon store and the teardowns still to purge are made of.
purgeVars == <<beaconVars, purge>>

\* The steps that touch a beacon or a teardown's onClose.
LEMMA BeaconKinds ==
  ASSUME Typed, Next
  PROVE  \/ UNCHANGED purgeVars
         \/ \E r \in Rooms : \/ HubExpire(r) /\ Outlived(r)
                             \/ FireClose(r) \/ BeaconRequest(r)
<1> USE DEF purgeVars, beaconVars, hubVars
<1>1. ASSUME NEW c \in Conns, Admission(c) \/ Departure(c)
      PROVE  UNCHANGED purgeVars
  BY <1>1 DEF Admission, Hello, Gate, Probe, Join, Found, HubJoin, Departure, Disconnect, Leave, Depart, HubLeave, HubScuttle
<1>2. ASSUME NEW c \in Conns, Loop(c)
      PROVE  UNCHANGED purgeVars
  BY <1>2 DEF Loop, Frame, InviteRequest, ScuttleNow, ScuttleArm, BreakGlass, FileOffer, FileEnd, HubTouch, HubScuttle
<1>3. ASSUME NEW r \in Rooms, Quiesce(r) \/ SweepForgets(r) \/ \E i \in Tids : TransferStep(r, i)
      PROVE  UNCHANGED purgeVars
  BY <1>3 DEF Quiesce, SweepForgets, TransferStep
<1>4. ASSUME NEW r \in Rooms, GraceFires(r) \/ IdleTTL(r) \/ SweepExpires(r)
      PROVE  HubExpire(r) /\ Outlived(r)
  BY <1>4 DEF GraceFires, IdleTTL, SweepExpires, Outlived
<1>5. ASSUME NEW c \in Conns, Janitor(c) \/ JanitorBurns(c)
      PROVE  UNCHANGED purgeVars
  BY <1>5 DEF Janitor, JanitorBurns, HubScuttle
<1>6. ASSUME NEW t \in Timers, Timer(t) \/ TimerBurns(t)
      PROVE  UNCHANGED purgeVars
  BY <1>6 DEF Timer, TimerBurns, HubScuttle
<1>7. CASE InviteStep
  BY <1>7 DEF InviteStep
<1> HIDE DEF purgeVars, beaconVars, hubVars
<1> QED BY <1>1, <1>2, <1>3, <1>4, <1>5, <1>6, <1>7 DEF Next, Background

\* A beacon that was there when its room was torn down is removed, or overwritten, before
\* the last onClose of that room has run: no interleaving of teardowns, their callbacks and
\* the REST requests leaves it behind (hub.go fireClose, main.go's onClose).
THEOREM BeaconsArePurged == Spec => []StaleBeaconPurged
<1>1. Init => StaleBeaconPurged
  BY DEF Init, BeaconInit, StaleBeaconPurged
<1>2. ASSUME Typed, StaleBeaconPurged, [Next]_vars
      PROVE  StaleBeaconPurged'
  <2>0. purge \in [Rooms -> Nat] /\ stale \in SUBSET Rooms
    BY <1>2 DEF Typed, TypeOK, HubTypeOK, BeaconTypeOK
  <2>1. CASE UNCHANGED purgeVars
    BY <1>2, <2>1 DEF purgeVars, beaconVars, StaleBeaconPurged
  <2>2. ASSUME NEW r \in Rooms, HubExpire(r), Outlived(r)
        PROVE  StaleBeaconPurged'
    <3>1. CASE IsEmpty(r)
      BY <1>2, <2>0, <2>2, <3>1 DEF HubExpire, Outlived, StaleBeaconPurged, beaconVars
    <3>2. CASE ~IsEmpty(r)
      BY <1>2, <2>0, <2>2, <3>2 DEF HubExpire, Outlived, BeaconOutlives, StaleBeaconPurged
    <3> QED BY <3>1, <3>2
  <2>3. ASSUME NEW r \in Rooms, FireClose(r)
        PROVE  StaleBeaconPurged'
    BY <1>2, <2>0, <2>3 DEF FireClose, BeaconDelete, StaleBeaconPurged
  <2>4. ASSUME NEW r \in Rooms, BeaconRequest(r)
        PROVE  StaleBeaconPurged'
    BY <1>2, <2>0, <2>4 DEF BeaconRequest, BeaconPut, BeaconDelete, StaleBeaconPurged, hubVars
  <2>5. CASE UNCHANGED vars
    BY <2>1, <2>5 DEF vars, purgeVars, hubVars
  <2> QED BY <1>2, <2>1, <2>2, <2>3, <2>4, <2>5, BeaconKinds
<1>3. Typed /\ HubInv => Typed
  OBVIOUS
<1> QED BY <1>1, <1>2, <1>3, RelayInvariant, PTL DEF Spec

\* What SlotsAccounted needs to be inductive: the slots of a room are finitely many.
SlotsInv == SlotsAccounted /\ \A r \in Rooms : IsFiniteSet(Held(r))

\* What the tracker and the lifecycle of the connections behind its slots are made of.
slotVars == <<slot, room, pc>>

\* The steps that touch a slot or move a connection.
LEMMA SlotKinds ==
  ASSUME Typed, Next
  PROVE  \/ UNCHANGED slotVars
         \/ \E c \in Conns : Admission(c) \/ Departure(c) \/ \E i \in Tids : FileOffer(c, i) \/ FileEnd(c, i)
<1> USE DEF slotVars, transferVars, serveVars
<1>1. ASSUME NEW c \in Conns, Loop(c), ~\E i \in Tids : FileOffer(c, i) \/ FileEnd(c, i)
      PROVE  UNCHANGED slotVars
  BY <1>1 DEF Loop, Frame, InviteRequest, ScuttleNow, ScuttleArm, BreakGlass
<1>2. ASSUME NEW r \in Rooms,
             \/ Quiesce(r) \/ GraceFires(r) \/ IdleTTL(r) \/ FireClose(r)
             \/ SweepForgets(r) \/ SweepExpires(r) \/ BeaconRequest(r)
             \/ \E i \in Tids : TransferStep(r, i)
      PROVE  UNCHANGED slotVars
  BY <1>2 DEF Quiesce, GraceFires, IdleTTL, FireClose, SweepForgets, SweepExpires, BeaconRequest, TransferStep, TransferAges
<1>3. ASSUME NEW c \in Conns, Janitor(c) \/ JanitorBurns(c)
      PROVE  UNCHANGED slotVars
  BY <1>3 DEF Janitor, JanitorBurns
<1>4. ASSUME NEW t \in Timers, Timer(t) \/ TimerBurns(t)
      PROVE  UNCHANGED slotVars
  BY <1>4 DEF Timer, TimerBurns
<1>5. CASE InviteStep
  BY <1>5 DEF InviteStep
<1> HIDE DEF slotVars, transferVars, serveVars
<1> QED BY <1>1, <1>2, <1>3, <1>4, <1>5 DEF Next, Background

\* Fewer slots of the same owners are accounted for.
LEMMA FewerSlots ==
  ASSUME Typed, SlotsInv, slot' \in [Rooms -> [Tids -> Conns \cup {NoConn}]],
         \A r \in Rooms, i \in Tids : slot'[r][i] # NoConn =>
           /\ slot[r][i] = slot'[r][i] /\ room'[slot[r][i]] = room[slot[r][i]]
           /\ pc'[slot[r][i]] \in {"joined", "leaving", "left"}
  PROVE  SlotsInv'
<1>1. \A r \in Rooms : Held(r)' \subseteq Held(r) BY DEF Held
<1>2. \A r \in Rooms : IsFiniteSet(Held(r)) /\ Cardinality(Held(r)) <= MaxTransfers BY DEF SlotsInv, SlotsAccounted
<1>3. \A r \in Rooms : /\ IsFiniteSet(Held(r)') /\ Cardinality(Held(r)') <= Cardinality(Held(r))
                       /\ Cardinality(Held(r)') \in Nat /\ Cardinality(Held(r)) \in Nat
  BY <1>1, <1>2, FS_Subset, FS_CardinalityType
<1>4. \A r \in Rooms : Cardinality(Held(r)') <= MaxTransfers BY <1>2, <1>3, MaxTransfersAssumption
<1>5. \A r \in Rooms : \A i \in Held(r)' : room'[slot'[r][i]] = r /\ pc'[slot'[r][i]] \in {"joined", "leaving", "left"}
  <2> SUFFICES ASSUME NEW r \in Rooms, NEW i \in Held(r)'
               PROVE  room'[slot'[r][i]] = r /\ pc'[slot'[r][i]] \in {"joined", "leaving", "left"}
    OBVIOUS
  <2>1. i \in Tids /\ slot'[r][i] # NoConn BY DEF Held
  <2>2. i \in Held(r) BY <1>1
  <2>3. room[slot[r][i]] = r BY <2>2 DEF SlotsInv, SlotsAccounted
  <2> QED BY <2>1, <2>3
<1> HIDE DEF SlotsInv
<1>6. SlotsAccounted' BY <1>4, <1>5 DEF SlotsAccounted
<1> QED BY <1>3, <1>6 DEF SlotsInv

\* tryStart reserves one slot, for the connection that asked and within the limit.
LEMMA OfferAccounted ==
  ASSUME Typed, SlotsInv, NEW c \in Conns, NEW i \in Tids, FileOffer(c, i)
  PROVE  SlotsInv'
<1>q. room[c] \in Rooms BY DEF FileOffer, Typed, RoomKnown
<1> PICK q \in Rooms : q = room[c] BY <1>q
<1>0. /\ q \in Rooms /\ pc[c] = "joined" /\ TryStart(q, i, c) /\ pc' = pc /\ room' = room
  BY DEF FileOffer, serveVars
<1>1. /\ slot \in [Rooms -> [Tids -> Conns \cup {NoConn}]] /\ Swept(q) \in [Tids -> Conns \cup {NoConn}]
      /\ slot' \in [Rooms -> [Tids -> Conns \cup {NoConn}]]
  <2>1. TransferTypeOK /\ TransferTypeOK' BY <1>0, TransferOps DEF Typed, TypeOK
  <2> QED BY <1>0, <2>1 DEF TransferTypeOK, Swept
<1>2. \A j \in Tids : Swept(q)[j] # NoConn => Swept(q)[j] = slot[q][j] BY DEF Swept
<1>3. \A r \in Rooms : \A j \in Held(r) : room[slot[r][j]] = r /\ pc[slot[r][j]] \in {"joined", "leaving", "left"} BY DEF SlotsInv, SlotsAccounted
<1>4. CASE ~(HasSlot(q, i) /\ Swept(q)[i] = NoConn)
  <2>1. slot' = [slot EXCEPT ![q] = Swept(q)] BY <1>0, <1>4 DEF TryStart
  <2> QED BY <1>0, <1>1, <1>2, <1>3, <2>1, FewerSlots DEF Held
<1>5. CASE HasSlot(q, i) /\ Swept(q)[i] = NoConn
  <2> DEFINE kept == {j \in Tids : Swept(q)[j] # NoConn}
  <2>1. slot' = [slot EXCEPT ![q] = [Swept(q) EXCEPT ![i] = c]] BY <1>0, <1>5 DEF TryStart
  <2>2. i \notin kept /\ Cardinality(kept) < MaxTransfers BY <1>5 DEF HasSlot
  <2>3. Held(q)' = kept \cup {i} BY <1>0, <1>1, <2>1, NoConnAssumption DEF Held
  <2>4. kept \subseteq Held(q) BY <1>2 DEF Held
  <2>5. IsFiniteSet(kept) /\ Cardinality(kept) \in Nat BY <1>0, <2>4, FS_Subset, FS_CardinalityType DEF SlotsInv
  <2> HIDE DEF kept
  <2>6. IsFiniteSet(Held(q)') /\ Cardinality(Held(q)') = Cardinality(kept) + 1 BY <2>2, <2>3, <2>5, FS_AddElement
  <2>7. Cardinality(Held(q)') <= MaxTransfers BY <2>2, <2>5, <2>6, MaxTransfersAssumption
  <2>8. \A r \in Rooms : r # q => Held(r)' = Held(r) /\ slot'[r] = slot[r] BY <1>1, <2>1 DEF Held
  <2>9. \A j \in Held(q)' : room'[slot'[q][j]] = q /\ pc'[slot'[q][j]] \in {"joined", "leaving", "left"}
    <3>1. slot'[q] = [Swept(q) EXCEPT ![i] = c] BY <1>0, <1>1, <2>1
    <3>2. \A j \in Tids : slot'[q][j] = IF j = i THEN c ELSE Swept(q)[j] BY <1>1, <3>1
    <3> QED BY <1>0, <1>2, <1>3, <2>2, <2>3, <2>4, <3>2 DEF kept, Held
  <2>10. \A r \in Rooms : r # q => IsFiniteSet(Held(r)') /\ Cardinality(Held(r)') <= MaxTransfers BY <2>8 DEF SlotsInv, SlotsAccounted
  <2>11. \A r \in Rooms : \A j \in Held(r)' : room'[slot'[r][j]] = r /\ pc'[slot'[r][j]] \in {"joined", "leaving", "left"}
    <3>1. ASSUME NEW r \in Rooms, r # q, NEW j \in Held(r)' PROVE room'[slot'[r][j]] = r /\ pc'[slot'[r][j]] \in {"joined", "leaving", "left"}
      BY <1>0, <1>3, <2>8, <3>1
    <3>2. ASSUME NEW r \in Rooms, r = q, NEW j \in Held(r)' PROVE room'[slot'[r][j]] = r /\ pc'[slot'[r][j]] \in {"joined", "leaving", "left"}
      BY <2>9, <3>2
    <3> QED BY <3>1, <3>2
  <2>12. ASSUME NEW r \in Rooms PROVE IsFiniteSet(Held(r)') /\ Cardinality(Held(r)') <= MaxTransfers
    BY <2>6, <2>7, <2>10
  <2>13. SlotsAccounted' BY <2>11, <2>12 DEF SlotsAccounted
  <2> QED BY <2>12, <2>13 DEF SlotsInv
<1> QED BY <1>4, <1>5

\* Every transfer slot has an owner that will still run abortBy for its room, and no room
\* holds more than the limit, through drops, teardowns, re-founded names, sweeps and offers
\* repeated under one id (transfers.go).
THEOREM SlotsStayAccounted == Spec => []SlotsAccounted
<1>1. Init => SlotsInv
  <2> SUFFICES ASSUME Init PROVE SlotsInv OBVIOUS
  <2>1. \A r \in Rooms : Held(r) = {} BY DEF Init, TransferInit, Held
  <2> QED BY <2>1, FS_EmptySet, MaxTransfersAssumption DEF SlotsInv, SlotsAccounted
<1>2. ASSUME Typed, SlotsInv, [Next]_vars
      PROVE  SlotsInv'
  <2>0. /\ slot \in [Rooms -> [Tids -> Conns \cup {NoConn}]] /\ pc \in [Conns -> {"new", "gate", "probe", "admitted", "founding", "joined",
                       "leaving", "left", "done"}]
        /\ room \in [Conns -> Rooms \cup {NoRoom}]
        /\ \A r \in Rooms, j \in Tids : slot[r][j] # NoConn =>
             slot[r][j] \in Conns /\ room[slot[r][j]] = r /\ pc[slot[r][j]] \in {"joined", "leaving", "left"}
    <3>1. /\ slot \in [Rooms -> [Tids -> Conns \cup {NoConn}]] /\ pc \in [Conns -> {"new", "gate", "probe", "admitted", "founding", "joined",
                       "leaving", "left", "done"}]
          /\ room \in [Conns -> Rooms \cup {NoRoom}]
      BY <1>2 DEF Typed, TypeOK, TransferTypeOK, ServeTypeOK
    <3>2. \A r \in Rooms : \A j \in Held(r) : room[slot[r][j]] = r /\ pc[slot[r][j]] \in {"joined", "leaving", "left"}
      BY <1>2 DEF SlotsInv, SlotsAccounted
    <3>3. \A r \in Rooms, j \in Tids : slot[r][j] # NoConn => j \in Held(r) BY DEF Held
    <3> QED BY <3>1, <3>2, <3>3
  <2>1. CASE UNCHANGED slotVars
    BY <1>2, <2>0, <2>1, FewerSlots DEF slotVars
  <2>2. ASSUME NEW c \in Conns, Admission(c)
        PROVE  SlotsInv'
    <3>1. /\ slot' = slot /\ pc[c] \in {"new", "gate", "probe", "admitted", "founding"}
          /\ \A d \in Conns : d # c => pc'[d] = pc[d] /\ room'[d] = room[d]
      BY <2>0, <2>2 DEF Admission, Hello, Gate, Probe, Join, Found, GoTo, transferVars, serveVars
    <3>2. \A r \in Rooms, j \in Tids : slot[r][j] # c BY <2>0, <3>1, NoConnAssumption
    <3> QED BY <1>2, <2>0, <3>1, <3>2, FewerSlots
  <2>3. ASSUME NEW c \in Conns, Disconnect(c) \/ Leave(c)
        PROVE  SlotsInv'
    <3>1. /\ slot' = slot /\ room' = room /\ pc'[c] \in {"leaving", "left"} /\ \A d \in Conns : d # c => pc'[d] = pc[d]
      BY <2>0, <2>3 DEF Disconnect, Leave, GoTo, transferVars, serveVars
    <3> QED BY <1>2, <2>0, <3>1, FewerSlots
  <2>4. ASSUME NEW c \in Conns, Depart(c)
        PROVE  SlotsInv'
    <3>1. /\ room[c] \in Rooms /\ room' = room /\ \A d \in Conns : d # c => pc'[d] = pc[d]
          /\ slot' = [slot EXCEPT ![room[c]] = [j \in Tids |-> IF slot[room[c]][j] = c THEN NoConn ELSE slot[room[c]][j]]]
      BY <1>2, <2>0, <2>4 DEF Depart, GoTo, AbortBy, serveVars, Typed, RoomKnown
    <3>2. slot' \in [Rooms -> [Tids -> Conns \cup {NoConn}]] BY <2>0, <3>1
    <3>3. \A r \in Rooms, j \in Tids : slot'[r][j] # NoConn => slot'[r][j] = slot[r][j] /\ slot[r][j] # c
      BY <2>0, <3>1
    <3> QED BY <1>2, <2>0, <3>1, <3>2, <3>3, FewerSlots
  <2>5. ASSUME NEW c \in Conns, NEW i \in Tids, FileOffer(c, i)
        PROVE  SlotsInv'
    BY <1>2, <2>5, OfferAccounted
  <2>6. ASSUME NEW c \in Conns, NEW i \in Tids, FileEnd(c, i)
        PROVE  SlotsInv'
    <3>1. room[c] \in Rooms /\ room' = room /\ pc' = pc /\ slot' = [slot EXCEPT ![room[c]] = [slot[room[c]] EXCEPT ![i] = NoConn]]
      BY <1>2, <2>6 DEF FileEnd, Finish, serveVars, Typed, RoomKnown
    <3>2. slot' \in [Rooms -> [Tids -> Conns \cup {NoConn}]] BY <2>0, <3>1
    <3>3. \A r \in Rooms, j \in Tids : slot'[r][j] # NoConn => slot'[r][j] = slot[r][j]
      BY <2>0, <3>1
    <3> QED BY <1>2, <2>0, <3>1, <3>2, <3>3, FewerSlots
  <2>7. CASE UNCHANGED vars
    BY <2>1, <2>7 DEF vars, slotVars, transferVars, serveVars
  <2> QED BY <1>2, <2>1, <2>2, <2>3, <2>4, <2>5, <2>6, <2>7, SlotKinds DEF Departure
<1>3. SlotsInv => SlotsAccounted
  BY DEF SlotsInv
<1>4. Typed /\ HubInv => Typed
  OBVIOUS
<1> QED BY <1>1, <1>2, <1>3, <1>4, RelayInvariant, PTL DEF Spec
==============================================================================
