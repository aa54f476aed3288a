---------------------------- MODULE MCScheduledJob ----------------------------
(* Instances of ScheduledJob for TLC. *)
EXTENDS ScheduledJob

CONSTANTS d1, d2

Once == [kind |-> "single", recurring |-> FALSE, times |-> 1, max |-> 3, faults |-> Faults]
Series == [Once EXCEPT !.recurring = TRUE, !.times = 2, !.max = 2]
Dying == {"crash", "slow", "database"}

\* An email or a campaign, once or twice, with everything that can go wrong, and
\* with drains that do not die.
AllScenes == {[s EXCEPT !.kind = k, !.faults = Faults \ f] :
                  s \in {Once, Series}, k \in {"single", "campaign"}, f \in {{}, Dying}}
=============================================================================
