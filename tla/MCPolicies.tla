------------------------------ MODULE MCPolicies ------------------------------
(***************************************************************************)
(* Two parts that share no state: the relay with the policies of its       *)
(* rooms, and the two-person rule in front of a client's /scuttle.  A      *)
(* behaviour belongs to the part its initial state names.                  *)
(***************************************************************************)
EXTENDS MCRelay, ActionQuorum

CONSTANTS p, a, b, Parts

VARIABLE part

\* Every client has an identity of its own; the approvers are interchangeable.
OwnIdentity == [c \in Clients |-> c]
AllSymmetric == Symmetric \cup Permutations(Clients \ {Requester})

\* A part that is not run stays in its initial state.
AllInit == part \in Parts /\ Init /\ ActionInit
AllNext ==
  \/ part = "relay" /\ Next /\ UNCHANGED <<part, actionVars>>
  \/ part = "action" /\ ActionNext /\ UNCHANGED <<part, vars>>
AllSpec == AllInit /\ [][AllNext]_<<part, vars, actionVars>>
==============================================================================
