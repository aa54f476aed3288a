----------------------------- MODULE ScheduledJob -----------------------------
(***************************************************************************)
(* A ScheduledJob of apps.scheduler: an email or a campaign that goes out  *)
(* later, once or again and again.  Every minute a drain recovers the jobs *)
(* a dead one left in PROCESSING, claims those that are due under row      *)
(* locks, and fires them outside, saving copies of the row; users cancel   *)
(* and reschedule copies as well.  Drains may overlap.  Kind WHATSAPP is   *)
(* left out: nothing creates such a job.                                   *)
(***************************************************************************)
EXTENDS Integers, FiniteSets

CONSTANTS Drainers,
          MaxAttempts,  \* MAX_ATTEMPTS
          MaxOcc,       \* bound: the occurrences of a series
          Scenes,       \* what the job is and what can happen (see Init)
          None

Faults == {"crash", "database", "refused", "slow", "late", "off", "cancel", "move"}

ASSUME JobAssumption ==
    /\ {MaxAttempts, MaxOcc} \subseteq Nat \ {0}
    /\ \A s \in Scenes : /\ s.kind \in {"single", "campaign"} /\ s.recurring \in BOOLEAN
                         /\ s.times \in 1..MaxOcc       \* max_occurrences of a series
                         /\ s.max \in Nat               \* bound: faults of all kinds
                         /\ s.times + s.max <= MaxOcc + 1    \* each late occurrence is one more
                         /\ s.faults \subseteq Faults

VARIABLES
    scene,
    row,        \* the job; due abstracts fire_at, wait next_attempt_at, old updated_at;
                \* msg is target_message; occ (ghost) numbers the occurrence fire_at means
    camp,       \* target_campaign: the one made when a campaign was scheduled
    on,         \* the channel
    dpc, dmy,   \* drains: next step; their copy of the row, and what they remember
    user,       \* a user's request that has looked at the job
    fired,      \* ghost: how often each occurrence went out
    torn,       \* ghost: a step was left unrecorded, or overran another (see Torn)
    faults

worldVars == <<scene, on>>
drainVars == <<dpc, dmy>>
ghosts == <<fired, torn>>
vars == <<scene, row, camp, on, dpc, dmy, user, fired, torn, faults>>

Occs == 1..MaxOcc + 1
Terminal == {"sent", "completed", "cancelled", "failed"}
Active == {"scheduled", "processing", "running"}
Job == [status : Active \cup Terminal, due : {"later", "now", "late"}, wait : BOOLEAN,
        attempts : Nat, count : 0..MaxOcc, msg : BOOLEAN, old : BOOLEAN, occ : Occs]
Steps == {"idle", "recover", "claim", "fire", "late", "hold", "make", "queue", "dispatch", "save",
          "mark", "arm"}

Init ==
    /\ scene \in Scenes
    /\ row = [status |-> "scheduled", due |-> "later", wait |-> FALSE, attempts |-> 0, count |-> 0,
              msg |-> FALSE, old |-> FALSE, occ |-> 1]
    /\ camp = IF scene.kind = "campaign" THEN "scheduled" ELSE "none"
    /\ on = TRUE /\ user = "none"
    /\ dpc = [d \in Drainers |-> "idle"] /\ dmy = [d \in Drainers |-> None]
    /\ fired = [o \in Occs |-> 0] /\ torn = FALSE /\ faults = 0

Fault(kind) == kind \in scene.faults /\ faults < scene.max /\ faults' = faults + 1

Goto(d, step) == dpc' = [dpc EXCEPT ![d] = step] /\ UNCHANGED dmy
With(d, step, copy) == dpc' = [dpc EXCEPT ![d] = step] /\ dmy' = [dmy EXCEPT ![d] = copy]
Stop(d) == With(d, "idle", None)

\* The drains that have claimed the job and not done with it.
Holding == {d \in Drainers : dpc[d] \notin {"idle", "recover", "claim"}}

-----------------------------------------------------------------------------
(* Saves: each writes some fields of the copy c over the row.              *)

Sent(r, running) == [r EXCEPT !.status = IF running THEN "running" ELSE "sent", !.old = FALSE]

Failed(r, c, terminal) ==
    LET over == terminal \/ c.attempts + 1 >= MaxAttempts
    IN [r EXCEPT !.attempts = c.attempts + 1, !.old = FALSE, !.wait = ~over,
                 !.status = IF over THEN "failed" ELSE "scheduled"]

\* arm_next_occurrence, or COMPLETED when the series has no more.
NotCounted(c) == [c EXCEPT !.count = IF @ > 0 THEN @ - 1 ELSE 0]
ExhaustedLater(c) == c.count >= scene.times
Exhausted(c) == c.count + 1 >= scene.times
ArmedAnew(r, c) == [r EXCEPT !.status = "scheduled", !.due = "later", !.wait = FALSE,
                             !.attempts = 0, !.count = c.count, !.old = FALSE, !.occ = c.occ + 1]
Armed(r, c) ==
    IF Exhausted(c) THEN [r EXCEPT !.status = "completed"]
    ELSE [r EXCEPT !.status = "scheduled", !.due = "later", !.wait = FALSE, !.attempts = 0,
                   !.count = c.count + 1, !.old = FALSE, !.occ = c.occ + 1]

-----------------------------------------------------------------------------
(* drain.                                                                  *)

Stale == row.status = "processing" /\ row.old
Claimable == row.status = "scheduled" /\ row.due # "later" /\ ~row.wait /\ on

\* _recover_stale reads the stale jobs ...
Drain(d) ==
    /\ dpc[d] = "idle" /\ (Stale \/ Claimable)
    /\ IF Stale THEN With(d, "recover", row) ELSE Goto(d, "claim")
    /\ UNCHANGED <<row, camp, worldVars, user, ghosts, faults>>

\* ... and saves each: what has a message is SENT, the rest is fired again.
RecoveredAgain(r, c) == IF c.attempts >= MaxAttempts THEN Failed(r, c, TRUE)
                        ELSE [r EXCEPT !.status = "scheduled", !.old = FALSE]
RecoveredNever(r, c) == [r EXCEPT !.old = FALSE]
Recovered(r, c) == CASE c.msg -> Sent(r, FALSE)
                     [] ~c.msg /\ c.attempts >= MaxAttempts -> Failed(r, c, TRUE)
                     [] OTHER -> [r EXCEPT !.status = "scheduled", !.old = FALSE]
Recover(d) ==
    /\ dpc[d] = "recover" /\ row' = Recovered(row, dmy[d]) /\ Goto(d, "claim")
    /\ torn' = (torn \/ Holding # {} \/ row # dmy[d])
    /\ UNCHANGED <<camp, worldVars, user, fired, faults>>

\* _claim_due, one transaction under the lock of the row.
Claim(d) ==
    /\ dpc[d] = "claim"
    /\ IF Claimable THEN row' = [row EXCEPT !.status = "processing", !.old = FALSE] /\ Goto(d, "fire")
                    ELSE Stop(d) /\ UNCHANGED row
    /\ UNCHANGED <<camp, worldVars, user, ghosts, faults>>

\* _fire_one reads the job again, later in the batch.
Fire(d) ==
    /\ dpc[d] = "fire"
    /\ IF row.status # "processing" THEN Stop(d)
       ELSE With(d, CASE row.due = "late" -> "late" [] row.due # "late" /\ ~on -> "hold" [] OTHER -> "make", row)
    /\ UNCHANGED <<row, camp, worldVars, user, ghosts, faults>>

\* Too late: a one-off fails, a series skips the occurrence.
FireLate(d) ==
    /\ dpc[d] = "late" /\ Stop(d)
    /\ row' = IF scene.recurring THEN Armed(row, NotCounted(dmy[d])) ELSE Failed(row, dmy[d], TRUE)
    /\ UNCHANGED <<camp, worldVars, user, ghosts, faults>>

Hold(d) ==
    /\ dpc[d] = "hold" /\ Stop(d) /\ row' = [row EXCEPT !.status = "scheduled"]
    /\ UNCHANGED <<camp, worldVars, user, ghosts, faults>>

GoesOut(d) == fired' = [fired EXCEPT ![dmy[d].occ] = IF @ < 2 THEN @ + 1 ELSE @]

\* The message, or the fresh campaign of a series, is created and its task
\* enqueued; or this is refused, for good or for now.
Make(d) ==
    /\ dpc[d] = "make" /\ (scene.kind = "single" \/ scene.recurring)
    /\ \/ GoesOut(d) /\ Goto(d, IF scene.kind = "single" THEN "save" ELSE "mark") /\ UNCHANGED <<row, faults>>
       \/ /\ Fault("refused") /\ UNCHANGED fired
          /\ \E terminal \in BOOLEAN : row' = Failed(row, dmy[d], terminal)
          /\ Stop(d)
    /\ UNCHANGED <<camp, worldVars, user, torn>>

\* A campaign that goes out once: it is looked at, QUEUED if SCHEDULED ...
Look(d) ==
    /\ dpc[d] = "make" /\ scene.kind = "campaign" /\ ~scene.recurring
    /\ IF camp = "cancelled" THEN row' = Failed(row, dmy[d], TRUE) /\ Stop(d)
       ELSE Goto(d, IF camp = "scheduled" THEN "queue" ELSE "dispatch") /\ UNCHANGED row
    /\ UNCHANGED <<camp, worldVars, user, ghosts, faults>>
Queue(d) ==
    /\ dpc[d] = "queue" /\ camp' = "queued" /\ Goto(d, "dispatch")
    /\ UNCHANGED <<row, worldVars, user, ghosts, faults>>
\* ... and dispatched.
Dispatch(d) ==
    /\ dpc[d] = "dispatch" /\ GoesOut(d) /\ Goto(d, "mark")
    /\ UNCHANGED <<row, camp, worldVars, user, torn, faults>>

\* target_message is saved.
Save(d) ==
    /\ dpc[d] = "save" /\ Goto(d, "mark") /\ row' = [row EXCEPT !.msg = TRUE, !.old = FALSE]
    /\ UNCHANGED <<camp, worldVars, user, ghosts, faults>>

MarkSent(d) ==
    /\ dpc[d] = "mark" /\ row' = Sent(row, scene.kind = "campaign")
    /\ IF scene.recurring THEN Goto(d, "arm") ELSE Stop(d)
    /\ UNCHANGED <<camp, worldVars, user, ghosts, faults>>

Arm(d) ==
    /\ dpc[d] = "arm" /\ row' = Armed(row, dmy[d]) /\ Stop(d)
    /\ UNCHANGED <<camp, worldVars, user, ghosts, faults>>

\* What went out is not recorded yet: not as target_message, nor as RUNNING.
Unrecorded(d) == dpc[d] = "save" \/ (dpc[d] = "mark" /\ scene.kind = "campaign")

\* A save raises: while the job is being fired it is tried again, otherwise the
\* drain is over.
SaveFails(d) ==
    /\ dpc[d] \in {"queue", "save", "mark", "arm"} /\ Fault("database") /\ Stop(d)
    /\ row' = IF dpc[d] \in {"queue", "save"} THEN Failed(row, dmy[d], FALSE) ELSE row
    /\ torn' = (torn \/ Unrecorded(d))
    /\ UNCHANGED <<camp, worldVars, user, fired>>

Crash(d) ==
    /\ dpc[d] # "idle" /\ Fault("crash") /\ Stop(d)
    /\ torn' = (torn \/ Unrecorded(d))
    /\ UNCHANGED <<row, camp, worldVars, user, fired>>

-----------------------------------------------------------------------------
(* Users: cancel_job and reschedule_job look at a copy and save it later.  *)

Ask(what) ==
    /\ user = "none" /\ row.status = "scheduled" /\ Fault(what) /\ user' = what
    /\ UNCHANGED <<row, camp, worldVars, drainVars, ghosts>>

CancelJob ==
    /\ user = "cancel" /\ row' = [row EXCEPT !.status = "cancelled", !.old = FALSE]
    /\ user' = IF scene.kind = "campaign" THEN "cascade" ELSE "none"
    /\ torn' = (torn \/ row.status # "scheduled")
    /\ UNCHANGED <<camp, worldVars, drainVars, fired, faults>>

\* The API's copy of the campaign is as old as that of the job, the page's is fresh.
CancelCampaign ==
    /\ user = "cascade" /\ user' = "none"
    /\ \/ camp' = "cancelled"
       \/ camp # "scheduled" /\ UNCHANGED camp
    /\ UNCHANGED <<row, worldVars, drainVars, ghosts, faults>>

Reschedule ==
    /\ user = "move" /\ user' = "none"
    /\ row' = [row EXCEPT !.status = "scheduled", !.due = "later", !.wait = FALSE, !.attempts = 0, !.old = FALSE]
    /\ torn' = (torn \/ row.status # "scheduled")
    /\ UNCHANGED <<camp, worldVars, drainVars, fired, faults>>

-----------------------------------------------------------------------------
(* prune_scheduled_jobs, once a day.                                       *)

Reconcile ==
    /\ row.status = "running" /\ camp \in {"completed", "failed", "cancelled"}
    /\ row' = [row EXCEPT !.status = IF camp = "completed" THEN "completed" ELSE "failed"]
    /\ UNCHANGED <<camp, worldVars, drainVars, user, ghosts, faults>>

Orphan ==
    /\ camp = "scheduled" /\ row.status \notin Active /\ camp' = "failed"
    /\ UNCHANGED <<row, worldVars, drainVars, user, ghosts, faults>>

-----------------------------------------------------------------------------
(* The world.                                                              *)

\* fire_at passes, and six hours more; next_attempt_at passes; ten minutes pass
\* over a job, unless a drain that is not slow has it.
FireTime ==
    /\ row.due = "later" /\ row' = [row EXCEPT !.due = "now"]
    /\ UNCHANGED <<camp, worldVars, drainVars, user, ghosts, faults>>
TooLate ==
    /\ row.due = "now" /\ Fault("late") /\ row' = [row EXCEPT !.due = "late"]
    /\ UNCHANGED <<camp, worldVars, drainVars, user, ghosts>>
BackoffOver ==
    /\ row.wait /\ row' = [row EXCEPT !.wait = FALSE]
    /\ UNCHANGED <<camp, worldVars, drainVars, user, ghosts, faults>>
TenMinutes ==
    /\ row.status = "processing" /\ ~row.old /\ row' = [row EXCEPT !.old = TRUE]
    /\ IF Holding = {} THEN UNCHANGED faults ELSE Fault("slow")
    /\ UNCHANGED <<camp, worldVars, drainVars, user, ghosts>>

\* The campaign's dispatch and sends end (EmailCampaign).
CampaignDone ==
    /\ camp = "queued" /\ \E o \in Occs : fired[o] > 0
    /\ camp' = "completed"
    /\ UNCHANGED <<row, worldVars, drainVars, user, ghosts, faults>>

SwitchOff ==
    /\ on /\ Fault("off") /\ on' = FALSE
    /\ UNCHANGED <<scene, row, camp, drainVars, user, ghosts>>
SwitchOn ==
    /\ ~on /\ on' = TRUE
    /\ UNCHANGED <<scene, row, camp, drainVars, user, ghosts, faults>>

-----------------------------------------------------------------------------
DrainStep(d) == Recover(d) \/ Claim(d) \/ Fire(d) \/ FireLate(d) \/ Hold(d) \/ Make(d) \/ Look(d) \/ Queue(d)
                \/ Dispatch(d) \/ Save(d) \/ MarkSent(d) \/ Arm(d)
Users == (\E what \in {"cancel", "move"} : Ask(what)) \/ CancelJob \/ CancelCampaign \/ Reschedule
World == FireTime \/ TooLate \/ BackoffOver \/ TenMinutes \/ CampaignDone \/ SwitchOff \/ SwitchOn

Next == \/ \E d \in Drainers : Drain(d) \/ DrainStep(d) \/ SaveFails(d) \/ Crash(d)
        \/ Users \/ Reconcile \/ Orphan \/ World

Spec == Init /\ [][Next]_vars

\* Beat drains every minute and prunes every day; a drain that runs goes on;
\* time passes, Email is switched on again, a dispatched campaign ends.
Fairness ==
    /\ SF_vars(\E d \in Drainers : Drain(d)) /\ \A d \in Drainers : WF_vars(DrainStep(d))
    /\ WF_vars(Reconcile) /\ WF_vars(CampaignDone)
    /\ WF_vars(FireTime) /\ WF_vars(BackoffOver) /\ WF_vars(TenMinutes /\ Holding = {}) /\ WF_vars(SwitchOn)

FairSpec == Spec /\ Fairness

-----------------------------------------------------------------------------
(* Properties.                                                             *)

TypeOK ==
    /\ scene \in Scenes /\ row \in Job /\ faults \in 0..scene.max
    /\ camp \in {"none", "scheduled", "queued", "cancelled", "failed", "completed"}
    /\ on \in BOOLEAN /\ torn \in BOOLEAN /\ user \in {"none", "cancel", "cascade", "move"}
    /\ dpc \in [Drainers -> Steps] /\ dmy \in [Drainers -> Job \cup {None}]
    /\ fired \in [Occs -> 0..2]

\* "Concurrency safety (three layers)": an occurrence goes out once, whatever
\* drains overlap, die, retry, hold and recover, unless one was torn: it failed
\* between sending and recording it, was recovered while alive, or a user saved
\* a copy over its claim (README, for each).
FiredOnce == torn \/ \A o \in Occs : fired[o] <= 1

\* A series that is over has sent as often as it was to, if its first occurrence
\* was not too late; and it is over when it is COMPLETED, if no drain died
\* (README, for both).
Rest == \A d \in Drainers : dpc[d] = "idle"
Over == \/ row.status = "completed"
        \/ row.status \in {"sent", "running"} /\ scene.faults \cap {"crash", "slow", "database"} = {}
SeriesWhole ==
    scene.recurring /\ ~torn /\ Rest /\ Over /\ fired[1] > 0
        => Cardinality({o \in Occs : fired[o] > 0}) = scene.times

\* A one-off job that is due, or was claimed, ends or is moved: it is not left
\* PROCESSING, nor retried for ever, nor RUNNING when its campaign is over.
JobEnds ==
    ~scene.recurring /\ row.due # "later" /\ row.status \in Active
        ~> row.due = "later" \/ row.status \in Terminal

-----------------------------------------------------------------------------
(* What comments of the code say and the model refutes (README,           *)
(* "Disagreements").                                                       *)

\* drainer.py:165-166: a late occurrence "doesn't count toward max_occurrences".  The
\* first one does: its count of 0 is not decreased, and arming adds one.
CompletedIsWhole ==
    scene.recurring /\ Rest /\ row.status = "completed"
        => Cardinality({o \in Occs : fired[o] > 0}) = scene.times

\* api.py:172-175 cancels only what is SCHEDULED, but what it looked at is a copy:
\* a job that is CANCELLED has not gone out.
CancelledIsUnsent == row.status = "cancelled" => fired[row.occ] = 0

=============================================================================
