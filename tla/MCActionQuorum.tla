--------------------------- MODULE MCActionQuorum ---------------------------
(* TLC instances of ActionQuorum: every client has an identity of its own. *)
EXTENDS ActionQuorum

CONSTANTS p, a, b

OwnIdentity == [c \in Clients |-> c]
==============================================================================
