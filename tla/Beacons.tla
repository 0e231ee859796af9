------------------------------- MODULE Beacons -------------------------------
(***************************************************************************)
(* The Status Beacon store, server/internal/beacon/beacon.go and its REST  *)
(* handlers, server/internal/api/beacon.go: at most one blob per room.     *)
(* stale is history: the beacon was set before the latest out-of-band      *)
(* teardown of its room and has not been overwritten or removed since.     *)
(***************************************************************************)
EXTENDS RelayParams

CONSTANT BeaconRooms   \* rooms with a beacon or webhook token: only these have beacons

VARIABLES beacon, stale

beaconVars == <<beacon, stale>>

BeaconTypeOK == beacon \in SUBSET BeaconRooms /\ stale \in SUBSET Rooms

BeaconInit == beacon = {} /\ stale = {}

\* PUT /beacon/<room> with the room's token: set or overwrite.
BeaconPut(r) ==
  /\ r \in BeaconRooms
  /\ beacon' = beacon \cup {r}
  /\ stale' = stale \ {r}

\* Store.Delete, and the expiry that Get and Purge apply.
BeaconDelete(r) ==
  /\ beacon' = beacon \ {r}
  /\ stale' = stale \ {r}

\* History kept by a teardown of r.
BeaconOutlives(r) ==
  /\ stale' = stale \cup (beacon \cap {r})
  /\ UNCHANGED beacon

==============================================================================
