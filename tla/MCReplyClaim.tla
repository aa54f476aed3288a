---------------------------- MODULE MCReplyClaim ----------------------------
(* Instances of ReplyClaim for TLC: a workflow of two questions, "buttons"   *)
(* (send_buttons) then "ask" (ask_question), on one conversation.            *)
EXTENDS ReplyClaim, TLC

CONSTANTS r1, r2, c1, c2, buttons, ask, m1, m2, m3, p1, p2, p3

BothToOne == [r \in Runs |-> c1]

RoutesDef == [s \in Steps |-> IF s = buttons THEN {ask, End} \cap (Steps \cup {End}) ELSE {End}]
NextDef == [s \in Steps |-> IF s = buttons /\ ask \in Steps THEN ask ELSE End]
AskAgain == [s \in Steps |-> IF s = buttons THEN ask ELSE buttons]
ToEnd == [s \in Steps |-> End]
NoErrorStep == [s \in Steps |-> None]
AskErrorStep == [s \in Steps |-> IF s = ask THEN End ELSE None]

AllToC1 == [m \in Msgs |-> c1]

Tap(i) == [token |-> i, text |-> {}, valid |-> TRUE]
Text(ok) == [token |-> None, text |-> {}, valid |-> ok]
TextOf(s) == [token |-> None, text |-> {s}, valid |-> TRUE]

\* m1 taps r1's button, the others are free text that is no valid answer.
TapThenWrong == [m \in Msgs |-> IF m = m1 THEN Tap(<<r1, buttons>>) ELSE Text(FALSE)]
\* The label of a button, typed; no valid answer to ask.
TypedLabels == [m \in Msgs |-> [TextOf(buttons) EXCEPT !.valid = FALSE]]

ProcSymmetry == Permutations(Procs)
RunSymmetry == Permutations(Procs) \cup Permutations(Runs) \cup Permutations(Msgs)
=============================================================================
