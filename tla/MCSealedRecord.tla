--------------------------- MODULE MCSealedRecord ---------------------------
(***************************************************************************)
(* Two parts that share no state and in which what begins must end: the    *)
(* sealing of a record by the clients of a room, and the teardown of a     *)
(* room by the relay.  A behaviour belongs to the part its initial state   *)
(* names.                                                                  *)
(***************************************************************************)
EXTENDS SealedRecord, TLC

CONSTANTS a, b, c1, c2, r1, t1, Parts
CONSTANTS Conns, Rooms, Tokens, Timers, Tids, NoConn, NoRoom, NoToken, NoTimer,
          IdleBurn, MaxTransfers, BeaconRooms, InviteOnly, OwnerLossBurn, TTLRooms, WarRooms, MaxGrace

VARIABLE part
VARIABLES members, order, founder, quiet, told, grace, closing, purge, \* Hub
          tokState, tokRoom,                                           \* Invites
          idle, jpc, jroom, jstop, armed, tpc, troom,                  \* ScuttleManager
          slot, aged, beacon, stale,                                   \* Transfers, Beacons
          pc, room, token, via, owner, empty, war                      \* Relay
relayVars ==
  <<members, order, founder, quiet, told, grace, closing, purge, tokState, tokRoom, idle, jpc, jroom, jstop,
    armed, tpc, troom, slot, aged, beacon, stale, pc, room, token, via, owner, empty, war>>

R == INSTANCE Relay

\* The relay's properties, under names of their own.
ScuttledLeave == R!ScuttledLeave
JanitorsEnd == R!JanitorsEnd

\* A part that is not run stays in its one initial state, in which none of the actions its
\* fairness is about is enabled.
AllInit == part \in Parts /\ Init /\ R!Init
AllNext ==
  \/ part = "seal" /\ Next /\ UNCHANGED <<part, relayVars>>
  \/ part = "relay" /\ R!Next /\ UNCHANGED <<part, vars>>
AllSpec == AllInit /\ [][AllNext]_<<part, vars, relayVars>> /\ SealFair /\ R!Fairness
==============================================================================
