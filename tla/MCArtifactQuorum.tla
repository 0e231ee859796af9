-------------------------- MODULE MCArtifactQuorum --------------------------
(***************************************************************************)
(* TLC instances of ArtifactQuorum.  Fingerprints are handed out so that   *)
(* the proposer is neither the lowest nor the highest.                     *)
(***************************************************************************)
EXTENDS ArtifactQuorum, TLC

CONSTANTS cp, ca, cb, cd

FprOfThree == (cp :> 2) @@ (ca :> 1) @@ (cb :> 3)
FprOfFour == (cp :> 2) @@ (ca :> 1) @@ (cb :> 3) @@ (cd :> 4)
==============================================================================
