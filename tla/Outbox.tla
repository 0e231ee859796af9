------------------------------- MODULE Outbox -------------------------------
(***************************************************************************)
(* What Client.Close promises about the frames handed to the write loop    *)
(* before it (tui/client/client.go): they leave in the order they were     *)
(* queued with none skipped, and when Close returns each one has either    *)
(* left or is named in the error it returns.  A close that runs out of its *)
(* budget may miss the one frame the write loop was just taking up.        *)
(***************************************************************************)
EXTENDS Naturals

CONSTANT MaxFrames

VARIABLES accepted,   \* frames queued before Close: 1..accepted
          delivered,  \* of those, 1..delivered have left
          reported,   \* the frames UnflushedError names
          stage       \* open, closing, late (the budget ran out) or closed

outVars == <<accepted, delivered, reported, stage>>

OutInit == accepted = 0 /\ delivered = 0 /\ reported = {} /\ stage = "open"

Accept ==
  /\ stage = "open" /\ accepted < MaxFrames /\ accepted' = accepted + 1
  /\ UNCHANGED <<delivered, reported, stage>>
Deliver ==
  /\ delivered < accepted /\ delivered' = delivered + 1
  /\ UNCHANGED <<accepted, reported, stage>>
StartClose ==
  /\ stage = "open" /\ stage' \in {"closing", "late"}
  /\ UNCHANGED <<accepted, delivered, reported>>
RunLate ==
  /\ stage = "closing" /\ stage' = "late"
  /\ UNCHANGED <<accepted, delivered, reported>>

Missing(named) == (1..accepted) \ ((1..delivered) \cup named)
Return ==
  /\ stage \in {"closing", "late"} /\ stage' = "closed"
  /\ reported' \in SUBSET (1..accepted)
  /\ stage = "closing" => reported' = (1..accepted) \ (1..delivered)
  /\ \A m, n \in Missing(reported') : m = n
  /\ UNCHANGED <<accepted, delivered>>

OutNext == Accept \/ Deliver \/ StartClose \/ RunLate \/ Return
OutSpec == OutInit /\ [][OutNext]_outVars
=============================================================================
