-------------------------- MODULE MCWorkflowEngine --------------------------
(* Instances of WorkflowEngine for TLC: "hello" (a message) leads to "pause"  *)
(* (a wait) or "menu" (wait_for_reply), whose answers lead back to "hello",   *)
(* to "chips" (Instagram buttons), then "again" (a message), or to the end.   *)
EXTENDS WorkflowEngine, TLC

CONSTANTS p1, p2, p3, hello, pause, menu, chips, again

KindDef == [s \in Steps |-> CASE s = pause -> "wait"
                              [] s = menu -> "wait_reply"
                              [] s = chips -> "direct"
                              [] OTHER -> "send"]
NextDef == [s \in Steps |-> CASE s = hello -> {pause, menu} \cap Steps
                              [] s = pause -> {menu} \cap Steps
                              [] s = menu -> {hello, chips, End} \cap (Steps \cup {End})
                              [] s = chips -> {again, End} \cap (Steps \cup {End})
                              [] OTHER -> {End}]
ToEnd == [s \in Steps |-> End]

\* Callers that hold the row; an enrolment that commits every save at once; and
\* Instagram's replies, which do so too, without and with the sweep.
LockedMode == [callers |-> {"trigger", "sweep", "reply"}, outerTx |-> TRUE,
               unreadable |-> FALSE, maxSteps |-> 6]
ApiMode == [callers |-> {"api", "sweep", "reply"}, outerTx |-> TRUE,
            unreadable |-> TRUE, maxSteps |-> 2]
InstagramMode == [callers |-> {"trigger", "api", "reply"}, outerTx |-> FALSE,
                  unreadable |-> TRUE, maxSteps |-> 2]
\* README: Modes {SweptMode} violates SentOnce.
SweptMode == [callers |-> {"api", "sweep", "reply"}, outerTx |-> FALSE,
              unreadable |-> FALSE, maxSteps |-> 3]
SafeModes == {LockedMode, ApiMode, InstagramMode}
=============================================================================
