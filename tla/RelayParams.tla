----------------------------- MODULE RelayParams -----------------------------
(***************************************************************************)
(* What the components of the relay have in common: connections and rooms. *)
(***************************************************************************)
CONSTANTS Conns,    \* connections; a member ID is never reused (newID)
          Rooms,    \* room names, the key of every registry of the relay
          NoConn,   \* no connection
          NoRoom    \* no room

ASSUME NoConnAssumption == NoConn \notin Conns
ASSUME RoomsAssumption == Rooms # {}
ASSUME NoRoomAssumption == NoRoom \notin Rooms
==============================================================================
