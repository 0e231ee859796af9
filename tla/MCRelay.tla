------------------------------- MODULE MCRelay -------------------------------
(***************************************************************************)
(* TLC instances of Relay.  The .cfg files choose which policies the rooms *)
(* have, so that each run meets one family of interleavings.               *)
(***************************************************************************)
EXTENDS Relay, TLC

CONSTANTS c1, c2, c3, r1, w1, t1, t2

\* Connections, tokens and timers are interchangeable.
Symmetric == Permutations(Conns) \cup Permutations(Tokens)
==============================================================================
