------------------------- MODULE MCInboundPipeline -------------------------
(* Instances of InboundPipeline for TLC. *)
EXTENDS InboundPipeline

CONSTANTS e1, e2, m1, m2

\* Two messages in one batch; the second comes again in another.
Batches == [e \in Events |-> IF e = e1 THEN {m1, m2} ELSE {m2}]

WA == [channel |-> "whatsapp", events |-> Events, switched |-> FALSE,
       faults |-> {"crash", "slow", "error", "swallow", "broker"}]
\* Instagram, where every save is a step: both events with crashes, one with
\* every failure.
Crashing == [WA EXCEPT !.channel = "instagram", !.faults = {"crash"}]
Failing == [WA EXCEPT !.channel = "instagram", !.events = {e1}]
\* The channel is switched off and on while events come.
SwitchedWA == [WA EXCEPT !.switched = TRUE, !.faults = {"broker", "crash"}]
SwitchedIG == [SwitchedWA EXCEPT !.channel = "instagram", !.events = {e1}]

AllScenes == {WA, Crashing, Failing, SwitchedWA, SwitchedIG}
=============================================================================
