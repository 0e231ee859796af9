-------------------------------- MODULE App --------------------------------
(***************************************************************************)
(* The terminal interface (tui/ui/app): one Bubble Tea program that holds  *)
(* a client core for every joined room.  Update handles one message at a   *)
(* time; dialling a room and waiting on a client's event channel are       *)
(* commands that run on goroutines of their own and come back as messages, *)
(* in any order and addressed by the room's NAME.                          *)
(*                                                                         *)
(* Text, rendering and what the cores do with a request (the other client  *)
(* modules) are left out.  A room keeps which event each line came from,   *)
(* and a core keeps its event channel, the listeners waiting on it and the *)
(* messages those have posted.  A core echoes most requests on its own     *)
(* event channel, from inside Update: `wait' is an echo that finds the     *)
(* channel full, and Update handles nothing while it waits.                *)
(***************************************************************************)
EXTENDS Naturals, Sequences, FiniteSets, SequencesExt

CONSTANTS RoomNames, First, WarRoom, \* rooms by name; the one opened at start; the one /break-glass names
          Sittings,    \* what a run of the program meets: [macros, lines, arrivals, emits]
                       \*   macros: [macros] of netherchat.toml, macro name -> what its separators divide
                       \*   lines: what the operator types.  A line, or a piece of a macro, is
                       \*          [lead, name, arg]: it leads with "/", with "/ " (a slash and a
                       \*          space) or with neither
                       \*   arrivals: the kinds of event the read loops emit
                       \*   emits: bound, the events one core emits by itself
          EventCap,    \* capacity of a core's event channel
          MaxCores     \* bound: dials

\* The events of a core (client/events.go), by the part of handleRoomEvent that answers them.
PresenceKinds == {"connected", "key", "message", "server", "member"}
ControlKinds == {"vanish", "ttl", "ttlOff", "scuttle", "arm", "beaconSet", "beaconCleared"}
ClockKinds == {"clockStart", "clockStop"}
StreamKinds == {"update", "streamEnd"}
CoordinationKinds ==
  {"exec", "invite", "ack", "handoff", "sealRequest", "sealAck", "sealComplete", "rosterRequest", "rosterAck",
   "rosterComplete", "receiptAck", "breakGlass", "route", "entry", "receipt"}
ApprovalKinds ==
  {"request", "vetoed", "proposed", "approved", "executed", "expired", "artifactApproved",
   "artifactSealed", "artifactRejected", "artifactExpired"}
TransferKinds ==
  {"beaconResult", "beaconStatus", "fileSent", "fileFailed", "error", "fileOffer", "fileComplete", "disconnected"}
EventKinds == PresenceKinds \cup ControlKinds \cup ClockKinds \cup StreamKinds \cup CoordinationKinds
              \cup ApprovalKinds \cup TransferKinds

ASSUME AppAssumption == First \in RoomNames /\ WarRoom \in RoomNames /\ EventCap \in Nat \ {0}
\* A read loop emits only events there are.
ASSUME SittingsAssumption == \A s \in Sittings : s.arrivals \subseteq EventKinds

VARIABLES m,     \* the Model, with the goroutines it started
          input  \* the lines still to be typed, the kinds of event that may arrive, and the bound on them
appVars == <<m, input>>

------------------------------------------------------------------------------
(* Macros (ui/command/macro.go) *)

Builtins == {"send", "stream", "ttl", "clock", "vanish", "invite", "exec", "scuttle", "break-glass",
             "approve", "veto", "pending", "beacon", "ack", "handoff", "ic", "decide", "action",
             "mark", "propose", "approve-artifact", "reject-artifact", "seal", "roster", "join",
             "leave", "clear", "quit",
             "help", "theme", "font", "whoami", "peers", "pair", "issuer", "whois", "verify", "expand",
             "copy", "export", "mouse"}

\* A piece of a macro with nothing between its separators.
Blank == [lead |-> "", name |-> "", arg |-> ""]
splitMacro(exp) == SelectSeq(exp, LAMBDA p : p # Blank)
\* What the loader takes for the name of a command: what follows the slash, if there is one, up
\* to the first space.
commandName(p) == IF p.lead = "/ " THEN "" ELSE p.name

\* validate: every part that has a name is known, and no macro is met again on the way down.
validateMacrosShallow(raw) == \A n \in DOMAIN raw : \A p \in Range(splitMacro(raw[n])) :
  commandName(p) \in (Builtins \cup DOMAIN raw \cup {""}) \ {n}
validateMacros(raw) == LET
    down[path \in Seq(DOMAIN raw)] ==
      \A p \in Range(splitMacro(raw[Last(path)])) : LET cmd == commandName(p) IN
        /\ cmd \in Builtins \cup DOMAIN raw \cup {""}
        /\ cmd \in DOMAIN raw => cmd \notin Range(path) /\ down[Append(path, cmd)]
  IN \A n \in DOMAIN raw : down[<<n>>]

\* Only a text without any piece is an empty expansion.
LoadMacros(raw) ==
  /\ "" \notin DOMAIN raw /\ DOMAIN raw \cap Builtins = {}
  /\ \A n \in DOMAIN raw : raw[n] # <<Blank>>
  /\ validateMacros(raw)

\* Expand: the macros that the loader knows of are flattened, in order.
Expand(raw, name) == LET
    ex[n \in DOMAIN raw] ==
      FoldLeft(LAMBDA out, p : out \o (IF commandName(p) \in DOMAIN raw THEN ex[commandName(p)] ELSE <<p>>),
               <<>>, splitMacro(raw[n]))
  IN ex[name]

\* Parse: without a slash it is no command; a space between slash and name does no harm.
IsCommand(l) == l.lead \in {"/", "/ "}
Parse(l) == IF IsCommand(l) THEN [name |-> l.name, arg |-> l.arg] ELSE [name |-> "", arg |-> ""]

------------------------------------------------------------------------------
(* The Model and its goroutines *)

newRoom == [client |-> 0, connected |-> FALSE, keyReady |-> FALSE, unread |-> 0, ttl |-> FALSE,
            failed |-> FALSE, scuttled |-> FALSE, autoClock |-> FALSE, lines |-> <<>>,
            streams |-> 0, ended |-> FALSE, activeStream |-> FALSE]

\* A core from the moment connectRoom starts dialling for it.
\*   st: dialing; landed, refused (roomConnectedMsg posted); none (no client came of it); live;
\*       dead (the connection ended, Done closed); closed (the interface closed it)
\*   left: its room was left while it was dialling, or before its message was handled
newCore(name) == [room |-> name, st |-> "dialing", left |-> FALSE, q |-> <<>>, made |-> 0,
                  pumps |-> 0, posted |-> {}, goneMsgs |-> 0, clock |-> "off", asked |-> FALSE, lost |-> FALSE]

newModel(raw) ==
  [macros |-> raw, session |-> [n \in {First} |-> newRoom], order |-> <<First>>, active |-> First,
   clockTicking |-> FALSE, ticks |-> 0, lostOnClose |-> {}, shown |-> {}, receipts |-> {},
   cores |-> <<newCore(First)>>, todo |-> <<>>, wait |-> <<>>, relisten |-> 0, run |-> "up"]
\* Run: a macro table that does not load stops the program before the interface starts.
AppInit ==
  \E s \in Sittings :
    /\ m = [newModel(s.macros) EXCEPT !.run = IF LoadMacros(s.macros) THEN "up" ELSE "refused"]
    /\ input = [lines |-> s.lines, arrivals |-> s.arrivals, emits |-> s.emits]

Room(u) == u.session[u.active]
SetRoom(u, name, r) == [u EXCEPT !.session[name] = r]
\* A core of the session: the one its room holds.
Held(u, c) == \E n \in DOMAIN u.session : u.session[n].client = c
Unanswered(core) == core.st \in {"dialing", "landed", "refused"}
Settled(core) == core.st \in {"live", "dead"}

\* connectRoom: the dial ends, within its 15 seconds, with a client or an error.
Dialled(c, ok) ==
  /\ m.cores[c].st = "dialing"
  /\ m' = [m EXCEPT !.cores[c].st = IF ok THEN "landed" ELSE "refused"]
  /\ UNCHANGED input

\* recognizeClock, and a /vanish: "stray" is a clock that has been stopped and never started.
ClockAfter(clock, k) ==
  CASE k = "clockStart" -> IF clock \in {"off", "stray"} THEN "on" ELSE clock
    [] k = "clockStop" -> IF clock = "off" THEN "stray" ELSE IF clock = "on" THEN "stopped" ELSE clock
    [] k = "vanish" -> "off"
    [] OTHER -> clock

\* The read loop of a core that is connected emits what arrives, when its channel has room.
Arrives(c, k) == LET core == m.cores[c] IN
  /\ core.st \in {"landed", "live"} /\ core.made < input.emits /\ Len(core.q) < EventCap
  /\ m' = [m EXCEPT !.cores[c].made = @ + 1,
                    !.cores[c].q = Append(@, [c |-> c, n |-> core.made + 1, k |-> k, self |-> FALSE]),
                    !.cores[c].clock = ClockAfter(@, k)]
  /\ UNCHANGED input

\* The connection ends: readLoop emits EvDisconnected and then closes Done.
Drops(c) == LET core == m.cores[c] IN
  /\ core.st = "live" /\ Len(core.q) < EventCap /\ core.made < input.emits
  /\ m' = [m EXCEPT !.cores[c].st = "dead", !.cores[c].made = @ + 1,
                    !.cores[c].q = Append(@, [c |-> c, n |-> core.made + 1, k |-> "disconnected", self |-> FALSE])]
  /\ UNCHANGED input

\* listenRoom: select takes an event or Done, whichever is ready.
Listens(c) == LET core == m.cores[c] IN
  /\ core.pumps > 0
  /\ \/ /\ core.q # <<>>
        /\ m' = [m EXCEPT !.cores[c].pumps = @ - 1, !.cores[c].q = Tail(@),
                          !.cores[c].posted = @ \cup {Head(core.q)}]
     \/ /\ core.st \in {"dead", "closed"}
        /\ m' = [m EXCEPT !.cores[c].pumps = @ - 1, !.cores[c].goneMsgs = @ + 1]
  /\ UNCHANGED input
listenRoom(u, c) == [u EXCEPT !.cores[c].pumps = @ + 1]

\* Update takes a message only when it has finished the one before.
Free == m.run = "up" /\ m.todo = <<>> /\ m.wait = <<>>

------------------------------------------------------------------------------
(* Requests to a core, from inside Update *)

Ask(u) == [u EXCEPT !.cores[Room(u).client].asked = TRUE]
\* The core's own emit, on the channel Update reads.
Emit(u, c, k) == LET core == u.cores[c] IN
  [u EXCEPT !.cores[c].made = @ + 1, !.cores[c].q = Append(@, [c |-> c, n |-> core.made + 1, k |-> k, self |-> TRUE])]
Echo(u, c, k) == LET v == [u EXCEPT !.cores[c].asked = TRUE] IN
  IF Len(u.cores[c].q) < EventCap THEN Emit(v, c, k) ELSE [v EXCEPT !.wait = <<c, k>>]
\* ClockStart and ClockStop do nothing when there is nothing to start or stop.
ClockStart(u, c) ==
  IF u.cores[c].clock \in {"on", "stopped"} THEN u ELSE Echo([u EXCEPT !.cores[c].clock = "on"], c, "clockStart")
ClockStop(u, c) ==
  IF u.cores[c].clock # "on" THEN u ELSE Echo([u EXCEPT !.cores[c].clock = "stopped"], c, "clockStop")

\* What is left of the Update that was waiting: its listener.
Relisten(u) == IF u.relisten = 0 \/ u.wait # <<>> THEN u ELSE [listenRoom(u, u.relisten) EXCEPT !.relisten = 0]
EchoGoes ==
  /\ m.wait # <<>> /\ Len(m.cores[m.wait[1]].q) < EventCap
  /\ m' = Relisten([Emit(m, m.wait[1], m.wait[2]) EXCEPT !.wait = <<>>])
  /\ UNCHANGED input
\* A write that fails ends the context of the core, and with it the wait: the echo is dropped.
EchoDropped ==
  /\ m.wait # <<>>
  /\ m' = Relisten([m EXCEPT !.wait = <<>>])
  /\ UNCHANGED input

------------------------------------------------------------------------------
(* Rooms *)

joinRoomOpts(u, name, activate) ==
  IF name \in DOMAIN u.session
  THEN IF activate THEN [u EXCEPT !.active = name, !.session[name].unread = 0] ELSE u
  ELSE [u EXCEPT !.session = [n \in DOMAIN u.session \cup {name} |-> IF n = name THEN newRoom ELSE u.session[n]],
                 !.order = Append(@, name),
                 !.active = IF activate THEN name ELSE @,
                 !.cores = Append(@, newCore(name))]

\* closeLoss: Close of a room's client, and whether it reports evidence that never left.
closeLoss(u, c, lost) == IF c = 0 THEN u ELSE
  [u EXCEPT !.cores[c].st = "closed", !.cores[c].lost = lost /\ u.cores[c].asked]
Reported(u, c) == IF c # 0 /\ u.cores[c].lost THEN {c} ELSE {}
leaveRoomSilent(u, name, lost) == LET
    c == u.session[name].client
    closed == closeLoss(u, c, lost)
    gone == [closed EXCEPT !.session = [n \in DOMAIN u.session \ {name} |-> u.session[n]],
                           !.order = RemoveFirst(@, name)]
  IN IF gone.order = <<>> THEN [gone EXCEPT !.run = "quit"] ELSE
     [gone EXCEPT !.active = IF @ = name THEN gone.order[1] ELSE @, !.shown = @ \cup Reported(closed, c)]
leaveRoom(u, name, lost) == LET
    c == u.session[name].client
    closed == closeLoss(u, c, lost)
    gone == [closed EXCEPT
      !.session = [n \in DOMAIN u.session \ {name} |-> u.session[n]],
      !.order = RemoveFirst(@, name),
      !.cores = [i \in DOMAIN u.cores |->
        [closed.cores[i] EXCEPT !.left = @ \/ (u.cores[i].room = name /\ Unanswered(u.cores[i]))]]]
  IN IF gone.order = <<>>
     THEN [gone EXCEPT !.lostOnClose = @ \cup Reported(closed, c), !.run = "quit"]
     ELSE [gone EXCEPT !.active = IF @ = name THEN gone.order[1] ELSE @, !.shown = @ \cup Reported(closed, c)]

\* closeAll: every room the session holds, concurrently, and only then the exit.
closeAll(u, lost) == LET
    held == {u.session[n].client : n \in DOMAIN u.session} \ {0}
    closed == [u EXCEPT !.cores = [i \in DOMAIN u.cores |->
      IF i \in held THEN [u.cores[i] EXCEPT !.st = "closed", !.lost = lost /\ u.cores[i].asked] ELSE u.cores[i]]]
  IN [closed EXCEPT !.lostOnClose = @ \cup UNION {Reported(closed, c) : c \in held}, !.run = "quit"]

focus(u, name) == [u EXCEPT !.active = name, !.session[name].unread = 0]
cycleRoom(dir) == LET n == Len(m.order)
                      at == CHOOSE i \in 1..n : m.order[i] = m.active IN
  /\ Free /\ n >= 2
  /\ m' = focus(m, m.order[((at - 1 + dir + n) % n) + 1])
  /\ UNCHANGED input
handleClick(i) ==
  /\ Free /\ i \in DOMAIN m.order
  /\ m' = focus(m, m.order[i])
  /\ UNCHANGED input

\* Update, roomConnectedMsg: the room may have been left, or left and joined again.
onRoomConnected(u, c) == LET core == u.cores[c] IN
  CASE core.room \notin DOMAIN u.session ->
         [u EXCEPT !.cores[c].st = IF core.st = "landed" THEN "closed" ELSE "none"]
    [] core.room \in DOMAIN u.session /\ core.st = "refused" ->
         [u EXCEPT !.cores[c].st = "none", !.session[core.room].failed = TRUE]
    [] core.room \in DOMAIN u.session /\ core.st = "landed" ->
         listenRoom([u EXCEPT !.cores[c].st = "live", !.session[core.room].client = c,
                              !.session[core.room].connected = TRUE], c)
Connected(c) ==
  /\ Free /\ m.cores[c].st \in {"landed", "refused"}
  /\ m' = onRoomConnected(m, c)
  /\ UNCHANGED input

\* Update, roomGoneMsg: whichever core the room holds by now.
Gone(c) == LET name == m.cores[c].room
               v == [m EXCEPT !.cores[c].goneMsgs = @ - 1] IN
  /\ Free /\ m.cores[c].goneMsgs > 0
  /\ m' = IF name \notin DOMAIN m.session THEN v
          ELSE [v EXCEPT !.session[name].connected = FALSE, !.session[name].keyReady = FALSE]
  /\ UNCHANGED input

------------------------------------------------------------------------------
(* handleRoomEvent: what an event does to its room *)

Show(r, e, content) == [r EXCEPT !.lines = Append(@, [c |-> e.c, n |-> e.n, content |-> content])]
Note(r, yes) == IF yes THEN [r EXCEPT !.unread = @ + 1] ELSE r

\* Presence and messages.  (A key that is ready also starts a war room's clock.)
presence(r, e, away) ==
  CASE e.k = "connected" -> Show([r EXCEPT !.connected = TRUE], e, FALSE)
    [] e.k = "key" -> Show([r EXCEPT !.keyReady = TRUE, !.autoClock = FALSE], e, FALSE)
    [] e.k = "message" -> Note(Show(r, e, TRUE), away /\ ~e.self)
    [] e.k = "server" -> Note(Show(r, e, TRUE), away)
    [] e.k = "member" -> Show(r, e, FALSE)

\* stopActiveStream: our own /stream of the room, if there is one.
stopActiveStream(r) == [r EXCEPT !.activeStream = FALSE]
control(r, e, away) ==
  CASE e.k = "vanish" -> Show([stopActiveStream(r) EXCEPT !.lines = <<>>, !.streams = 0, !.ended = FALSE], e, FALSE)
    [] e.k = "ttl" -> Show([r EXCEPT !.ttl = TRUE], e, FALSE)
    [] e.k = "ttlOff" -> Show([r EXCEPT !.ttl = FALSE], e, FALSE)
    [] e.k = "scuttle" -> Note(Show([stopActiveStream(r) EXCEPT !.scuttled = TRUE, !.ended = r.streams > 0], e, FALSE), away)
    [] e.k = "arm" -> Show(r, e, FALSE)
    [] e.k = "beaconSet" -> Note(Show(r, e, FALSE), away)
    [] e.k = "beaconCleared" -> Show(r, e, FALSE)

\* A live log is one block, rewritten in place; `streams' is the update it shows.
streamEvent(r, e, away) ==
  CASE e.k = "update" -> LET placed == IF r.streams = 0 THEN Note(Show(r, e, FALSE), away /\ ~e.self) ELSE r IN
         IF e.n >= r.streams THEN [placed EXCEPT !.streams = e.n, !.ended = FALSE] ELSE placed
    [] e.k = "streamEnd" -> [r EXCEPT !.ended = r.streams > 0]

\* Coordination and record events: a line, and for some of them a mark on a room out of sight.
coordination(r, e, away) ==
  CASE e.k \in {"exec", "invite", "ack", "handoff", "sealRequest", "sealAck", "sealComplete", "rosterRequest",
                "rosterAck", "rosterComplete", "receiptAck", "breakGlass"} -> Show(r, e, e.k = "exec")
    [] e.k = "route" -> Note(Show(r, e, FALSE), away)
    [] e.k = "entry" -> Note(Show(r, e, FALSE), away /\ ~e.self)
    [] e.k = "receipt" -> Note(Show(r, e, FALSE), away)
\* Two-person requests and proposed artifacts.
approval(r, e, away) ==
  CASE e.k \in {"request", "vetoed", "proposed"} -> Note(Show(r, e, FALSE), away /\ ~e.self)
    [] e.k \in {"approved", "executed", "expired", "artifactApproved", "artifactSealed", "artifactRejected",
                "artifactExpired"} -> Show(r, e, FALSE)
\* Beacons, artifact transfers, errors and the end of the connection.
transfer(r, e, away) ==
  CASE e.k \in {"beaconResult", "beaconStatus", "fileSent", "fileFailed", "error"} -> Show(r, e, FALSE)
    [] e.k \in {"fileOffer", "fileComplete"} -> Note(Show(r, e, FALSE), away)
    [] e.k = "disconnected" -> [r EXCEPT !.connected = FALSE]

inRoom(r, e, away) ==
  CASE e.k \in PresenceKinds -> presence(r, e, away)
    [] e.k \in ControlKinds -> control(r, e, away)
    [] e.k \in ClockKinds -> Show(r, e, FALSE)
    [] e.k \in StreamKinds -> streamEvent(r, e, away)
    [] e.k \in CoordinationKinds -> coordination(r, e, away)
    [] e.k \in ApprovalKinds -> approval(r, e, away)
    [] e.k \in TransferKinds -> transfer(r, e, away)

\* EvClockStart begins the one-second refresh; EvBreakGlass brings the war room up in the
\* background; a receipt is written to disk.
handleRoomEvent(u, name, e) == LET
    v == SetRoom(u, name, inRoom(u.session[name], e, name # u.active))
  IN CASE e.k = "key" /\ u.session[name].autoClock /\ v.session[name].client # 0 -> ClockStart(v, v.session[name].client)
       [] e.k = "clockStart" /\ ~u.clockTicking -> [v EXCEPT !.clockTicking = TRUE, !.ticks = @ + 1]
       [] e.k = "breakGlass" -> LET w == joinRoomOpts(v, WarRoom, FALSE) IN [w EXCEPT !.session[WarRoom].autoClock = TRUE]
       [] e.k = "receipt" -> [v EXCEPT !.receipts = @ \cup {e.c}]
       [] OTHER -> v

\* Update, roomEventMsg: the event, then another listener on the core the room holds by now.
EventMsgActiveOnly(c, e) == LET name == m.cores[c].room
                                u == [m EXCEPT !.cores[c].posted = @ \ {e}] IN
  /\ Free /\ e \in m.cores[c].posted
  /\ e.k = "breakGlass" => Len(m.cores) < MaxCores
  /\ m' = IF name \notin DOMAIN m.session THEN u ELSE
          LET v == handleRoomEvent(u, name, e) IN
          Relisten([v EXCEPT !.relisten = IF name = v.active THEN v.session[name].client ELSE 0])
  /\ UNCHANGED input
EventMsg(c, e) == LET name == m.cores[c].room
                      u == [m EXCEPT !.cores[c].posted = @ \ {e}] IN
  /\ Free /\ e \in m.cores[c].posted
  /\ e.k = "breakGlass" => Len(m.cores) < MaxCores
  /\ m' = IF name \notin DOMAIN m.session THEN u ELSE
          LET v == handleRoomEvent(u, name, e) IN Relisten([v EXCEPT !.relisten = v.session[name].client])
  /\ UNCHANGED input

\* Update, tickMsg: lines older than a room's ttl go.  (recheckIdentities is in Identity.)
pruneExpired(r, cut) == LET
    kept[i \in 0..Len(r.lines)] ==   \* what the loop has kept of the first i lines
      IF i = 0 THEN <<>>
      ELSE IF r.lines[i].content /\ r.lines[i].n <= cut THEN kept[i - 1] ELSE Append(kept[i - 1], r.lines[i])
  IN IF ~r.ttl THEN r ELSE [r EXCEPT !.lines = kept[Len(r.lines)]]
Prune(cut) ==
  /\ Free
  /\ m' = [m EXCEPT !.session = [n \in DOMAIN @ |-> pruneExpired(@[n], cut)]]
  /\ UNCHANGED input

anyClockRunning(u) == \E n \in DOMAIN u.session : u.session[n].client # 0 /\ u.cores[u.session[n].client].clock = "on"
\* Update, clockTickMsg; a tick that finds a clock running only sets up the next one.
ClockTick ==
  /\ Free /\ m.ticks > 0 /\ ~anyClockRunning(m)
  /\ m' = [m EXCEPT !.clockTicking = FALSE, !.ticks = @ - 1]
  /\ UNCHANGED input

------------------------------------------------------------------------------
(* Slash commands.  `ok' is what the core answers to the request. *)

connected(u) == Room(u).client # 0 /\ Room(u).connected
\* The shape most handlers have: a connected room, arguments that parse, and a core that agrees.
Perform(u, parses, ok, k) ==
  IF ~(connected(u) /\ parses /\ ok) THEN u ELSE IF k = "" THEN Ask(u) ELSE Echo(u, Room(u).client, k)

runTTL(u, arg) ==
  IF ~connected(u) \/ arg \in {"", "bad"} THEN u
  ELSE Echo(SetRoom(u, u.active, [Room(u) EXCEPT !.ttl = arg # "off"]), Room(u).client, IF arg = "off" THEN "ttlOff" ELSE "ttl")
runStream(u, arg, opens) ==
  CASE arg = "" -> u
    [] arg = "stop" -> SetRoom(u, u.active, stopActiveStream(Room(u)))
    [] OTHER -> IF connected(u) /\ Room(u).keyReady /\ ~Room(u).activeStream /\ opens
                THEN Ask(SetRoom(u, u.active, [Room(u) EXCEPT !.activeStream = TRUE])) ELSE u
runClock(u, arg) ==
  CASE connected(u) /\ arg = "start" -> ClockStart(u, Room(u).client)
    [] connected(u) /\ arg = "stop" -> ClockStop(u, Room(u).client)
    [] OTHER -> u
runSend(u, arg, ok) == Perform(u, arg # "", ok, "")
runScuttle(u, arg, ok) == Perform(u, arg \in {"", "now", "arm"}, ok, "")
runBreakGlass(u, arg, ok) == Perform(u, arg # "bad", ok, "")
\* /approve shows what would be endorsed, and signs only on a second, explicit confirm.
runApproval(u, l, ok) ==
  CASE l.name = "approve" -> Perform(u, l.arg = "confirm", ok, "approved")
    [] l.name = "veto" -> Perform(u, l.arg # "", ok, "vetoed")
    [] l.name = "pending" -> u
runBeacon(u, arg, ok) == Perform(u, arg \in {"set", "clear", "status"}, ok, "")
runCoordination(u, l, ok) ==
  CASE l.name \in {"ack", "handoff"} -> Perform(u, l.arg # "", ok, l.name)
    [] l.name = "ic" -> u
runRecord(u, l, ok) ==
  CASE l.name \in {"decide", "action"} -> Perform(u, l.arg # "", ok, "entry")
    [] l.name = "mark" -> Perform(u, TRUE, ok, "entry")
runArtifact(u, l, ok) ==
  CASE l.name = "propose" -> Perform(u, l.arg # "", ok, "proposed")
    [] l.name = "approve-artifact" -> Perform(u, l.arg # "", ok, "artifactApproved")
    [] l.name = "reject-artifact" -> Perform(u, l.arg # "", ok, "artifactRejected")
runSeal(u, ok) == Perform(u, TRUE, ok, "sealRequest")
runRoster(u, arg, ok) == Perform(u, arg = "--signed", ok, "rosterRequest")
runVanish(u) ==
  IF connected(u) THEN Echo([u EXCEPT !.cores[Room(u).client].clock = "off"], Room(u).client, "vanish") ELSE u
\* A plain line goes to the active room's core, whether or not the room shows as connected.
say(u, ok) == IF Room(u).client # 0 /\ ok THEN Echo(u, Room(u).client, "message") ELSE u

runCommand(u, l, ok, lost) ==
  CASE l.name = "ttl" -> runTTL(u, l.arg)
    [] l.name = "stream" -> runStream(u, l.arg, ok)
    [] l.name = "clock" -> runClock(u, l.arg)
    [] l.name = "send" -> runSend(u, l.arg, ok)
    [] l.name = "vanish" -> runVanish(u)
    [] l.name = "invite" -> Perform(u, TRUE, TRUE, "")
    [] l.name = "exec" -> Perform(u, l.arg # "", ok, "exec")
    [] l.name = "scuttle" -> runScuttle(u, l.arg, ok)
    [] l.name = "break-glass" -> runBreakGlass(u, l.arg, ok)
    [] l.name \in {"approve", "veto", "pending"} -> runApproval(u, l, ok)
    [] l.name = "beacon" -> runBeacon(u, l.arg, ok)
    [] l.name \in {"ack", "handoff", "ic"} -> runCoordination(u, l, ok)
    [] l.name \in {"decide", "action", "mark"} -> runRecord(u, l, ok)
    [] l.name \in {"propose", "approve-artifact", "reject-artifact"} -> runArtifact(u, l, ok)
    [] l.name = "seal" -> runSeal(u, ok)
    [] l.name = "roster" -> runRoster(u, l.arg, ok)
    [] l.name = "join" -> joinRoomOpts(u, l.arg, TRUE)
    [] l.name = "leave" -> leaveRoom(u, u.active, lost)
    [] l.name = "clear" -> SetRoom(u, u.active, [Room(u) EXCEPT !.lines = <<>>])
    [] l.name = "quit" -> closeAll(u, lost)
    [] OTHER -> u   \* unknown, or one that only renders

\* onKey, enter: a command is run, any other line is sent.
Enter ==
  /\ Free /\ input.lines # <<>> /\ IsCommand(Head(input.lines))
  /\ m' = [m EXCEPT !.todo = <<Head(input.lines)>>]
  /\ input' = [input EXCEPT !.lines = Tail(@)]
Say(ok) ==
  /\ Free /\ input.lines # <<>> /\ Head(input.lines).lead = "" /\ Head(input.lines).name # "ctrl+c"
  /\ m' = say(m, ok)
  /\ input' = [input EXCEPT !.lines = Tail(@)]
\* onKey, ctrl+c.
CtrlC(lost) ==
  /\ Free /\ input.lines # <<>> /\ Head(input.lines).name = "ctrl+c"
  /\ m' = closeAll(m, lost) /\ UNCHANGED input
\* runCommand, of what this Update has still to run.  A macro stands for others, each of which
\* is parsed again as if it had been typed.
RunMacro ==
  /\ m.run = "up" /\ m.todo # <<>> /\ m.wait = <<>> /\ Parse(Head(m.todo)).name \in DOMAIN m.macros
  /\ m' = [m EXCEPT !.todo = Expand(m.macros, Parse(Head(@)).name) \o Tail(@)]
  /\ UNCHANGED input
\* Anything else is done; after a /leave the next command acts on whichever room is active then.
\* What a macro has left after a /quit, or after the last room, runs on closed cores before the
\* program ends: none of it outlives the exit, and it is left out.
Command(ok, lost) ==
  /\ m.run = "up" /\ m.todo # <<>> /\ m.wait = <<>> /\ Parse(Head(m.todo)).name \notin DOMAIN m.macros
  /\ LET l == Parse(Head(m.todo)) IN
     /\ l.name = "join" /\ l.arg \notin DOMAIN m.session => Len(m.cores) < MaxCores
     /\ LET u == runCommand([m EXCEPT !.todo = Tail(@)], l, ok, lost) IN
        m' = IF u.run = "quit" THEN [u EXCEPT !.todo = <<>>] ELSE u
  /\ UNCHANGED input
\* Run, once the interface is gone: what never left is printed, and the process ends.
Exit == m.run = "quit" /\ m' = [m EXCEPT !.run = "exited", !.shown = @ \cup m.lostOnClose] /\ UNCHANGED input

------------------------------------------------------------------------------
Core == m.run = "up" /\ \E c \in DOMAIN m.cores :
  \/ \E ok \in BOOLEAN : Dialled(c, ok)
  \/ \E k \in input.arrivals : Arrives(c, k)
  \/ Drops(c)
  \/ Listens(c)
Message == \E c \in DOMAIN m.cores : Connected(c) \/ Gone(c) \/ \E e \in m.cores[c].posted : EventMsg(c, e)
Key ==
  \/ Enter
  \/ RunMacro
  \/ \E ok \in BOOLEAN : Say(ok)
  \/ \E ok, lost \in BOOLEAN : Command(ok, lost)
  \/ \E lost \in BOOLEAN : CtrlC(lost)
  \/ \E dir \in {1, Len(m.order) - 1} : cycleRoom(dir)
  \/ \E i \in 1..Cardinality(RoomNames) : handleClick(i)
Timer == ClockTick \/ \E cut \in 1..input.emits : Prune(cut)
AppNext == Core \/ Message \/ Key \/ Timer \/ EchoGoes \/ EchoDropped \/ Exit

------------------------------------------------------------------------------
(* Properties *)

\* Every client that came out of a dial is held by the room it was dialled for, or has been
\* closed, unless that room was left while a dial for it was still out and then joined again.
ClientsHeld ==
  \A c \in DOMAIN m.cores : Settled(m.cores[c]) =>
    \/ Held(m, c)
    \/ \E d, e \in DOMAIN m.cores : d < e /\ {m.cores[d].room, m.cores[e].room} = {m.cores[c].room} /\ m.cores[d].left

Pumped ==
  \A n \in DOMAIN m.session : LET c == m.session[n].client IN
    m.run = "up" /\ c # 0 /\ m.cores[c].st = "live" =>
      m.cores[c].pumps > 0 \/ m.cores[c].posted # {} \/ m.relisten = c

ShownInOrder ==
  \A n \in DOMAIN m.session : LET ls == m.session[n].lines IN
    Cardinality({c \in DOMAIN m.cores : m.cores[c].room = n}) = 1 =>
      \A i, j \in DOMAIN ls : i < j => ls[i].n < ls[j].n

\* A room's client always has somebody on its event channel (a listener, a message on its way
\* to Update, or the Update that will start the next listener), and never two: a room opened
\* once shows its client's events in the order it emitted them, whatever order messages and
\* timers come in.
EventsFlow == Pumped /\ ShownInOrder

\* Evidence a client could not put on the wire as it closed is told to the operator: in a room
\* that is still there, or after the interface is gone.
LossTold ==
  \A c \in DOMAIN m.cores : m.cores[c].lost =>
    c \in m.shown \/ (c \in m.lostOnClose /\ m.run = "quit")

\* The macros that load are the ones whose names can be ranked so that each uses only lower
\* ones and commands there are, as the loader reads their names.  What they expand to is built
\* in where it is written as a command, a slash and a name; the loader vouches for no other part.
MacrosRun ==
  LET names == DOMAIN m.macros
      uses(n) == {commandName(p) : p \in Range(splitMacro(m.macros[n]))} \ {""} IN
  /\ m.run # "refused" <=>
       /\ names \cap (Builtins \cup {""}) = {}
       /\ \A n \in names : m.macros[n] # <<Blank>> /\ uses(n) \subseteq Builtins \cup names
       /\ \E rank \in [names -> 1..Cardinality(names)] :
            \A n \in names : \A p \in uses(n) \cap names : rank[p] < rank[n]
  /\ m.run # "refused" => \A n \in names : \A p \in Range(Expand(m.macros, n)) :
       p.lead = "/" /\ p.name # "" => Parse(p).name \in Builtins

\* Every command that is entered is done some time (Expand: "Cycles cannot occur").  Update runs
\* nothing else meanwhile.
CommandsEnd == m.todo # <<>> ~> m.todo = <<>>

\* A client the interface dialled is not lost sight of while it lives, nor what it could not
\* send when it ends.
ClientsAnswered == ClientsHeld /\ LossTold
=============================================================================
