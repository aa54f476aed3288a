--------------------------- MODULE MCOutboundSend ---------------------------
(* Instances of OutboundSend for TLC. *)
EXTENDS OutboundSend

CONSTANTS m1, m2, d1, d2

Plain == [metered |-> TRUE, campaign |-> FALSE, drains |-> Drains, brake |-> FALSE,
          users |-> FALSE, reports |-> FALSE, faults |-> {}]

\* Two drains, one unit of the plan for two messages, and workers that die.
Crashing == [Plain EXCEPT !.faults = {"crash", "database"}]
\* The platform brake and the channel switch.
Braked == [Plain EXCEPT !.brake = TRUE]
\* Free text, whose send fails while its result is recorded.
FreeText == [Plain EXCEPT !.metered = FALSE, !.drains = {d1}, !.reports = TRUE,
                          !.faults = {"commit", "database"}]
\* Meta's reports overtake the drain.
Reported == [Plain EXCEPT !.drains = {d1}, !.campaign = TRUE, !.reports = TRUE]
\* A campaign its users pause, resume and withdraw.
Handled == [Plain EXCEPT !.drains = {d1}, !.campaign = TRUE, !.users = TRUE]
\* A campaign whose tasks are lost and whose chunks fail.
Faulty == [Plain EXCEPT !.drains = {d1}, !.campaign = TRUE, !.faults = {"broker", "chunk", "crash"}]

AllScenes == {Crashing, Braked, FreeText, Reported, Handled, Faulty}
=============================================================================
