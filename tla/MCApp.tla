-------------------------------- MODULE MCApp --------------------------------
(***************************************************************************)
(* The terminal program alone, on one operator at the keyboard.            *)
(***************************************************************************)
EXTENDS App

\* A command as it is typed, with a space after the slash, and a line that is none.
Line(name, arg) == [lead |-> "/", name |-> name, arg |-> arg]
Spaced(name) == [lead |-> "/ ", name |-> name, arg |-> ""]
Plain(name) == [lead |-> "", name |-> name, arg |-> ""]
Sitting(macros, typed, arrivals, emits) ==
  [macros |-> macros, lines |-> typed, arrivals |-> arrivals, emits |-> emits]

\* One macro, which names itself after a slash and a space, typed once.
MCLoop == {Sitting([n \in {"wrap"} |-> <<Line("help", ""), Spaced("wrap")>>], <<Line("wrap", "")>>, {}, 0)}

\* Update runs until the message it handles is done.
AppFair == WF_appVars(RunMacro \/ \E ok, lost \in BOOLEAN : Command(ok, lost)) /\ WF_appVars(EchoGoes)
AppFairSpec == AppInit /\ [][AppNext]_appVars /\ AppFair
=============================================================================
