--------------------------------- MODULE Hub ---------------------------------
(***************************************************************************)
(* The relay's room registry, server/internal/hub/hub.go.  A room exists   *)
(* exactly while it has members: Join creates it, the removal of its last  *)
(* member deletes it, and an out-of-band teardown deletes it whole.  Every *)
(* operation below is one critical section of Hub.mu.                      *)
(*                                                                         *)
(* founder is history: the connection that was told YouAreFirst for the    *)
(* current incarnation of a room name.  The code keys rooms by name only;  *)
(* the properties need to tell two incarnations of one name apart.         *)
(***************************************************************************)
EXTENDS RelayParams, Naturals, Sequences

VARIABLES members,  \* room.members: the set of connections registered per name
          order,    \* room.order: the same connections, oldest first
          founder,  \* the YouAreFirst connection of the live incarnation
          quiet,    \* rooms whose lastActivity is older than their thresholds
          told,     \* connections a scuttle notice was sent to
          grace,    \* room -> pending scuttleCloseGrace timers
          closing,  \* connections closeMembers is terminating or has terminated
          purge     \* room -> teardowns whose onClose callback is still to run

regVars == <<members, order, founder>>
hubVars == <<members, order, founder, quiet, told, grace, closing, purge>>

HubTypeOK ==
  /\ members \in [Rooms -> SUBSET Conns]
  /\ order \in [Rooms -> Seq(Conns)]
  /\ founder \in [Rooms -> Conns \cup {NoConn}]
  /\ quiet \in SUBSET Rooms
  /\ told \in SUBSET Conns
  /\ grace \in [Rooms -> Nat]
  /\ closing \in SUBSET Conns
  /\ purge \in [Rooms -> Nat]

HubInit ==
  /\ members = [r \in Rooms |-> {}]
  /\ order = [r \in Rooms |-> <<>>]
  /\ founder = [r \in Rooms |-> NoConn]
  /\ quiet = {} /\ told = {} /\ closing = {}
  /\ grace = [r \in Rooms |-> 0]
  /\ purge = [r \in Rooms |-> 0]

\* Hub.IsEmpty: no such room, or a room without members.
IsEmpty(r) == members[r] = {}

\* Mutation: the newcomer goes to the front of the order.
HubJoinInFront(r, c) ==
  /\ members' = [members EXCEPT ![r] = @ \cup {c}]
  /\ order' = [order EXCEPT ![r] = <<c>> \o @]
  /\ founder' = [founder EXCEPT ![r] = IF IsEmpty(r) THEN c ELSE @]
  /\ quiet' = quiet \ {r}
  /\ UNCHANGED <<told, grace, closing, purge>>

\* Hub.Join: create the room if needed, stamp the activity, register the member
\* and append it to the order.
HubJoin(r, c) ==
  /\ members' = [members EXCEPT ![r] = @ \cup {c}]
  /\ order' = [order EXCEPT ![r] = Append(@, c)]
  /\ founder' = [founder EXCEPT ![r] = IF IsEmpty(r) THEN c ELSE @]
  /\ quiet' = quiet \ {r}
  /\ UNCHANGED <<told, grace, closing, purge>>

\* Mutation: the member stays in the order.
OrderKept(s, c) == s

\* room.order with the member cut out: member IDs are unique, so the first
\* occurrence the code removes is the only one.
OrderWithout(s, c) ==
  IF \E i \in 1..Len(s) : s[i] = c
  THEN LET i == CHOOSE i \in 1..Len(s) : s[i] = c
       IN [j \in 1..(Len(s) - 1) |-> IF j < i THEN s[j] ELSE s[j + 1]]
  ELSE s

\* What Hub.Leave returns: the room is gone once c is out of it.
LeavesEmpty(r, c) == members[r] \ {c} = {}

\* Hub.Leave: drop the member from map and order, delete a drained room.
HubLeave(r, c) ==
  /\ members' = [members EXCEPT ![r] = @ \ {c}]
  /\ order' = [order EXCEPT ![r] = OrderWithout(@, c)]
  /\ founder' = [founder EXCEPT ![r] = IF LeavesEmpty(r, c) THEN NoConn ELSE @]
  /\ quiet' = IF LeavesEmpty(r, c) THEN quiet \ {r} ELSE quiet
  /\ UNCHANGED <<told, grace, closing, purge>>

\* Mutation: a teardown that does not fire onClose.
HubExpireSilently(r) ==
  /\ members' = [members EXCEPT ![r] = {}]
  /\ order' = [order EXCEPT ![r] = <<>>]
  /\ founder' = [founder EXCEPT ![r] = NoConn]
  /\ quiet' = quiet \ {r}
  /\ closing' = closing \cup members[r]
  /\ UNCHANGED <<told, purge>>

\* Hub.ExpireRoom and one victim of expireIdleRooms: delete the room, then close
\* the members it had and fire onClose.  A room that is gone is a no-op.  The grace
\* timers are the caller's.
HubExpire(r) ==
  /\ members' = [members EXCEPT ![r] = {}]
  /\ order' = [order EXCEPT ![r] = <<>>]
  /\ founder' = [founder EXCEPT ![r] = NoConn]
  /\ quiet' = quiet \ {r}
  /\ closing' = closing \cup members[r]
  /\ purge' = [purge EXCEPT ![r] = IF IsEmpty(r) THEN @ ELSE @ + 1]
  /\ UNCHANGED told

\* Mutation: a scuttle that never schedules the teardown.
HubScuttleNoTimer(r) ==
  /\ told' = told \cup members[r]
  /\ UNCHANGED <<regVars, grace, closing, purge>>

\* Hub.Scuttle: notify the members of this instant, schedule ExpireRoom(name).  The
\* activity stamp is the caller's.
HubScuttle(r) ==
  /\ told' = told \cup members[r]
  /\ grace' = [grace EXCEPT ![r] = IF IsEmpty(r) THEN @ ELSE @ + 1]
  /\ UNCHANGED <<regVars, closing, purge>>

\* Hub.Touch: the room, if there is one, has just been active.
HubTouch(r) ==
  /\ quiet' = quiet \ {r}
  /\ UNCHANGED <<regVars, told, grace, closing, purge>>

==============================================================================
