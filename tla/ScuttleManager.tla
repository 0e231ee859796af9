---------------------------- MODULE ScuttleManager ----------------------------
(***************************************************************************)
(* The dead-man's switch of server/internal/scuttle/scuttle.go: one idle   *)
(* janitor goroutine per watched room and the one-shot timers of /scuttle  *)
(* arm.  Both are registered under the room NAME; every operation below is *)
(* one critical section of Manager.mu or one step of a goroutine.          *)
(*                                                                         *)
(* A janitor is named after the connection whose Start created it.         *)
(***************************************************************************)
EXTENDS RelayParams

CONSTANTS Timers, NoTimer,   \* the /scuttle arm timers a behaviour may use (a bound)
          IdleBurn           \* rooms whose policy has idle_after > 0

ASSUME NoTimerAssumption == NoTimer \notin Timers

VARIABLES idle,     \* Manager.idle: room -> registered janitor
          jpc,      \* janitor: none, wait, sawGone, sawIdle, burn, exit
          jroom,    \* the room name a janitor watches
          jstop,    \* its stop channel has been closed
          armed,    \* Manager.armed: room -> registered timer
          tpc,      \* timer: none, pending, firing, burn, done
          troom     \* the room name a timer will burn

janVars == <<idle, jpc, jroom, jstop>>
armVars == <<armed, tpc, troom>>
scuttleVars == <<idle, jpc, jroom, jstop, armed, tpc, troom>>

ScuttleTypeOK ==
  /\ idle \in [Rooms -> Conns \cup {NoConn}]
  /\ jpc \in [Conns -> {"none", "wait", "sawGone", "sawIdle", "burn", "exit"}]
  /\ jroom \in [Conns -> Rooms]
  /\ jstop \in [Conns -> BOOLEAN]
  /\ armed \in [Rooms -> Timers \cup {NoTimer}]
  /\ tpc \in [Timers -> {"none", "pending", "firing", "burn", "done"}]
  /\ troom \in [Timers -> Rooms]

ScuttleInit ==
  /\ idle = [r \in Rooms |-> NoConn]
  /\ jpc = [c \in Conns |-> "none"]
  /\ jroom = [c \in Conns |-> CHOOSE r \in Rooms : TRUE]
  /\ jstop = [c \in Conns |-> FALSE]
  /\ armed = [r \in Rooms |-> NoTimer]
  /\ tpc = [t \in Timers |-> "none"]
  /\ troom = [t \in Timers |-> CHOOSE r \in Rooms : TRUE]

\* Manager.Start: nothing without an idle policy, nothing when a janitor is
\* already registered under this name, else register and start a goroutine.
Start(r, c) ==
  /\ IF r \in IdleBurn /\ idle[r] = NoConn
     THEN /\ idle' = [idle EXCEPT ![r] = c]
          /\ jpc' = [jpc EXCEPT ![c] = "wait"]
          /\ jroom' = [jroom EXCEPT ![c] = r]
     ELSE UNCHANGED <<idle, jpc, jroom>>
  /\ UNCHANGED <<jstop, armVars>>

\* Manager.Stop: close and forget the registered janitor, cancel and forget the
\* registered timer.  A timer that already fired cannot be stopped.
Stop(r) ==
  /\ jstop' = [c \in Conns |-> jstop[c] \/ idle[r] = c]
  /\ idle' = [idle EXCEPT ![r] = NoConn]
  /\ tpc' = [t \in Timers |-> IF armed[r] = t /\ tpc[t] = "pending" THEN "done" ELSE tpc[t]]
  /\ armed' = [armed EXCEPT ![r] = NoTimer]
  /\ UNCHANGED <<jpc, jroom, troom>>

\* Manager.Arm with d > 0: stop the registered timer, schedule and register a new one.
Arm(r, t) ==
  /\ tpc[t] = "none"
  /\ tpc' = [u \in Timers |-> CASE u = t -> "pending"
                                [] u # t /\ armed[r] = u /\ tpc[u] = "pending" -> "done"
                                [] OTHER -> tpc[u]]
  /\ troom' = [troom EXCEPT ![t] = r]
  /\ armed' = [armed EXCEPT ![r] = t]
  /\ UNCHANGED janVars

\* The runtime starts the AfterFunc goroutine of a timer.
TimerFires(t) ==
  /\ tpc[t] = "pending"
  /\ tpc' = [tpc EXCEPT ![t] = "firing"]
  /\ UNCHANGED <<armed, troom, janVars>>

\* Its critical section: delete whatever is registered under the name.
TimerUnregisters(t) ==
  /\ tpc[t] = "firing"
  /\ tpc' = [tpc EXCEPT ![t] = "burn"]
  /\ armed' = [armed EXCEPT ![troom[t]] = NoTimer]
  /\ UNCHANGED <<troom, janVars>>

\* Mutation: a janitor that does not notice that its room is gone.
JanitorTickBlind(c, roomGone, roomQuiet) ==
  /\ jpc[c] = "wait"
  /\ ~roomGone /\ roomQuiet
  /\ jpc' = [jpc EXCEPT ![c] = "sawIdle"]
  /\ UNCHANGED <<idle, jroom, jstop, armVars>>

\* idleLoop on a tick: LastActivity says the room is gone, or quiet for idle_after.
\* With the stop channel closed too, select may still choose the tick.
JanitorTick(c, roomGone, roomQuiet) ==
  /\ jpc[c] = "wait"
  /\ roomGone \/ roomQuiet
  /\ jpc' = [jpc EXCEPT ![c] = IF roomGone THEN "sawGone" ELSE "sawIdle"]
  /\ UNCHANGED <<idle, jroom, jstop, armVars>>

\* idleLoop: the stop channel is chosen.
JanitorStops(c) ==
  /\ jpc[c] = "wait" /\ jstop[c]
  /\ jpc' = [jpc EXCEPT ![c] = "exit"]
  /\ UNCHANGED <<idle, jroom, jstop, armVars>>

\* Manager.forget: delete whatever janitor is registered under the name.
JanitorForgets(c) ==
  /\ jpc[c] \in {"sawGone", "sawIdle"}
  /\ idle' = [idle EXCEPT ![jroom[c]] = NoConn]
  /\ jpc' = [jpc EXCEPT ![c] = IF @ = "sawIdle" THEN "burn" ELSE "exit"]
  /\ UNCHANGED <<jroom, jstop, armVars>>

==============================================================================
