------------------------------ MODULE MCSession ------------------------------
(* Three connections, from an empty room and from settled ones. *)
EXTENDS Session, TLC

CONSTANTS c1, c2, c3

Budget(s, v, l) == [sends |-> s, vanishes |-> v, leaves |-> l]
Founding(b) == [seated |-> <<>>, absent |-> {c3}, budget |-> b, keeps |-> FALSE]
OneSeated(b) == [seated |-> <<c1>>, absent |-> {}, budget |-> b, keeps |-> FALSE]
Visit(b) == [seated |-> <<c1>>, absent |-> {c3}, budget |-> b, keeps |-> FALSE]
Pair(b) == [seated |-> <<c1, c2>>, absent |-> {c3}, budget |-> b, keeps |-> FALSE]
TwoSeated(b) == [seated |-> <<c1, c2>>, absent |-> {}, budget |-> b, keeps |-> FALSE]

Keeping(r) == [r EXCEPT !.keeps = TRUE]

\* Two clients from the founding on; two that know each other; a third joining a
\* settled pair; two joining one; one joining a room that keeps history.
Start ==
  {Founding(Budget(1, 1, 1)), Founding(Budget(2, 0, 0)), Pair(Budget(0, 2, 0)),
   TwoSeated(Budget(0, 1, 1)), OneSeated(Budget(0, 0, 0)), Keeping(Visit(Budget(1, 1, 0)))}

=============================================================================
