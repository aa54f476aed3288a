-------------------------- MODULE MCVariantPublish --------------------------
(* Instances of VariantPublish for TLC. *)
EXTENDS VariantPublish, TLC

CONSTANTS w1, w2

WorkerSymmetry == Permutations(Workers)

Quiet == [video |-> FALSE, users |-> {"compose", "cancel"}, unready |-> FALSE, prompt |-> TRUE,
          faults |-> {}, outerTx |-> FALSE, retries |-> 0]

\* Every request, with a crash; a workflow that publishes inside its transaction,
\* lapsed approvals, retries and lost enqueues; a video with two containers.
Everyone == [Quiet EXCEPT !.users = Requests, !.faults = {"crash"}]
Workflow == [Quiet EXCEPT !.users = {"compose", "cancel", "reschedule", "workflow"},
                          !.unready = TRUE, !.faults = {"broker"}, !.outerTx = TRUE, !.retries = 1]
Video == [Quiet EXCEPT !.video = TRUE, !.faults = {"crash"}]
AllScenes == {Everyone, Workflow, Video}

LiveScenes == {[Quiet EXCEPT !.video = video, !.users = {"compose", "retry"},
                             !.faults = {"crash", "broker", "database"}] : video \in BOOLEAN}

LastRetry == {[Quiet EXCEPT !.users = {"compose"}, !.faults = {"database"}]}
Cancelled == {Quiet}
=============================================================================
