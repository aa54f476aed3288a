--------------------------- MODULE MCEmailCampaign ---------------------------
(* Instances of EmailCampaign for TLC. *)
EXTENDS EmailCampaign, TLC

CONSTANTS a, b, d1, d2, s1, s2

Plain == [start |-> "draft", chunk |-> 1, limit |-> 2, grown |-> 2, optOuts |-> {}, max |-> 2, faults |-> {}]

\* The provider, the database and the switch fail.
Flaky == [Plain EXCEPT !.faults = {"refused", "off", "database"}]
\* Tasks die; both recipients are in one chunk.
Crashing == [Plain EXCEPT !.chunk = 2, !.faults = {"crash", "refused"}]
\* The plan has room for one recipient, and later for both.
Tight == [Plain EXCEPT !.chunk = 2, !.limit = 1, !.max = 1, !.faults = {"refused"}]
\* The breaker trips while a recipient is held, or while a send fails.
Halting == [Plain EXCEPT !.limit = 1, !.max = 1, !.faults = {"halt"}]
Failing == [Plain EXCEPT !.faults = {"halt", "refused"}]
\* A recipient unsubscribes.
Leaving == [Plain EXCEPT !.optOuts = {a}]
\* A scheduled campaign is cancelled too late, or fired twice (with no room, so
\* that nothing is sent: with room it is sent twice, README).
Cancelled == [Plain EXCEPT !.start = "queued", !.chunk = 2, !.max = 1, !.faults = {"cancel"}]
Again == [Plain EXCEPT !.start = "queued", !.chunk = 2, !.limit = 0, !.grown = 0, !.faults = {"again", "cancel"}]
\* The provider takes a message and does not say so.
Unanswered == [Plain EXCEPT !.max = 1, !.faults = {"unanswered"}]

AllScenes == {Flaky, Crashing, Tight, Halting, Failing, Leaving, Cancelled, Again, Unanswered}
LastTries == {[Plain EXCEPT !.faults = {"refused"}]}

=============================================================================
