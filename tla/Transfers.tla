------------------------------ MODULE Transfers ------------------------------
(***************************************************************************)
(* The relay's artifact-transfer tracker, server/internal/ws/transfers.go: *)
(* which connection opened each transfer that holds a slot of the room.    *)
(***************************************************************************)
EXTENDS RelayParams, Naturals, FiniteSets

CONSTANTS Tids,           \* transfer ids
          MaxTransfers    \* Limits.MaxConcurrentTransfers, at least 1 (newTransferTracker)

ASSUME MaxTransfersAssumption == MaxTransfers \in Nat \ {0}

VARIABLES slot,   \* xfer.owner per room and transfer id
          aged    \* <<room, id>> held longer than transferTTL

transferVars == <<slot, aged>>

TransferTypeOK ==
  /\ slot \in [Rooms -> [Tids -> Conns \cup {NoConn}]]
  /\ aged \in SUBSET (Rooms \X Tids)

TransferInit ==
  /\ slot = [r \in Rooms |-> [i \in Tids |-> NoConn]]
  /\ aged = {}

Held(r) == {i \in Tids : slot[r][i] # NoConn}

\* What sweepLocked leaves of the room's slots.
Swept(r) == [i \in Tids |-> IF <<r, i>> \in aged THEN NoConn ELSE slot[r][i]]

\* What tryStart answers, after its sweep.
HasSlot(r, i) ==
  LET kept == {j \in Tids : Swept(r)[j] # NoConn}
  IN i \in kept \/ Cardinality(kept) < MaxTransfers

\* transferTracker.tryStart: sweep, then reserve unless the id is tracked already
\* or the room is full.
TryStart(r, i, c) ==
  /\ slot' = [slot EXCEPT ![r] =
                IF HasSlot(r, i) /\ Swept(r)[i] = NoConn
                THEN [Swept(r) EXCEPT ![i] = c] ELSE Swept(r)]
  /\ aged' = aged \ ({r} \X Tids)

\* transferTracker.finish: whoever sent the final chunk or the abort.
Finish(r, i) ==
  /\ slot' = [slot EXCEPT ![r][i] = NoConn]
  /\ aged' = aged \ {<<r, i>>}

\* Mutation: transfers past their lifetime are left to the sweep.
AbortByFresh(r, c) ==
  /\ slot' = [slot EXCEPT ![r] =
                [i \in Tids |-> IF @[i] = c /\ <<r, i>> \notin aged THEN NoConn ELSE @[i]]]
  /\ UNCHANGED aged

\* transferTracker.abortBy.
AbortBy(r, c) ==
  /\ slot' = [slot EXCEPT ![r] = [i \in Tids |-> IF @[i] = c THEN NoConn ELSE @[i]]]
  /\ aged' = aged \ {<<r, i>> : i \in {j \in Tids : slot[r][j] = c}}

\* transferTTL passes for a held slot.
TransferAges(r, i) ==
  /\ slot[r][i] # NoConn /\ <<r, i>> \notin aged
  /\ aged' = aged \cup {<<r, i>>}
  /\ UNCHANGED slot

==============================================================================
