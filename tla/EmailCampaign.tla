---------------------------- MODULE EmailCampaign ----------------------------
(***************************************************************************)
(* A bulk email campaign of apps.email: dispatch_campaign fans it out to   *)
(* messages, a chunk at a time and a unit of the plan per recipient;       *)
(* send_bulk_recipient_email hands each to the provider and retries;       *)
(* retry_held_email_recipients takes up those the plan had no room for;    *)
(* the last recipient to end completes the campaign.  No step is inside a  *)
(* transaction: each save commits, and other tasks run between two saves.  *)
(* Celery acknowledges these tasks early: one that dies is gone.           *)
(***************************************************************************)
EXTENDS Integers, Sequences, FiniteSets

CONSTANTS Recs,         \* recipients
          Dispatchers,  \* workers of dispatch_campaign and of the beat task for held ones
          Senders,      \* workers of send_bulk_recipient_email
          MaxTries,     \* _MAX_RETRIES
          MaxCopies,    \* bound: messages created for one recipient
          Scenes,       \* what can happen (see Init)
          None

ASSUME EmailAssumption ==
    /\ {MaxTries, MaxCopies} \subseteq Nat \ {0}
    /\ IsFiniteSet(Recs) /\ None \notin Recs
    /\ \A s \in Scenes :
          /\ s.start \in {"draft", "queued"}      \* sent now, or by the drainer
          /\ s.chunk \in Nat \ {0}                \* _CAMPAIGN_CHUNK_SIZE
          /\ s.limit \in Nat /\ s.grown \in Nat    \* the plan's units, now and later
          /\ s.optOuts \subseteq Recs              \* who may unsubscribe or bounce
          /\ s.max \in Nat                        \* bound: faults of all kinds
          /\ s.faults \subseteq {"crash", "database", "refused", "unanswered", "again", "cancel", "off", "halt"}

VARIABLES
    scene,
    camp,       \* the campaign's status
    counts,     \* its sent_count and failed_count
    rec,        \* recipients: status, and which message they point to
    msg,        \* the messages of each recipient: status, provider_message_id, failed tries (cache)
    hold,       \* the usage reservation "email-recipient:<pk>"
    limit,      \* units of the plan
    on, halted, optedOut,      \* the channel, the sender's reputation, suppressed addresses
    dtasks, stasks,            \* Celery: dispatch_campaign, and sends per message
    dpc, dmy,   \* dispatchers: next step; the status they read, the recipients they took
    todo, smy,  \* senders: the steps left; the message
    accepted,   \* ghost: how often the provider took a mail for a recipient
    faults

campVars == <<camp, counts>>
planVars == <<hold, limit>>
worldVars == <<scene, on, halted, optedOut>>
dVars == <<dpc, dmy>>
sVars == <<todo, smy>>
taskVars == <<dtasks, stasks>>
vars == <<scene, camp, counts, rec, msg, hold, limit, on, halted, optedOut, dtasks, stasks,
          dpc, dmy, todo, smy, accepted, faults>>

Copies == 1..MaxCopies
Message == [status : {"none", "queued", "sent", "failed"}, pid : BOOLEAN, tries : Nat]
Unmade == [status |-> "none", pid |-> FALSE, tries |-> 0]
Rested == [copy |-> None, batch |-> {}, go |-> {}, new |-> {}, held |-> FALSE]

\* A campaign sent now starts in DRAFT with its dispatch enqueued; a scheduled
\* one is QUEUED by the drainer.
Init ==
    /\ scene \in Scenes
    /\ camp = scene.start /\ counts = [sent |-> 0, failed |-> 0]
    /\ rec = [r \in Recs |-> [status |-> "pending", msg |-> 0]]
    /\ msg = [r \in Recs |-> [k \in Copies |-> Unmade]]
    /\ hold = [r \in Recs |-> "none"] /\ limit = scene.limit
    /\ on = TRUE /\ halted = FALSE /\ optedOut = {}
    /\ dtasks = 1 /\ stasks = [r \in Recs |-> [k \in Copies |-> 0]]
    /\ dpc = [d \in Dispatchers |-> "idle"] /\ dmy = [d \in Dispatchers |-> Rested]
    /\ todo = [s \in Senders |-> <<>>] /\ smy = [s \in Senders |-> None]
    /\ accepted = [r \in Recs |-> 0] /\ faults = 0

Fault(kind) == kind \in scene.faults /\ faults < scene.max /\ faults' = faults + 1

In(statuses) == {r \in Recs : rec[r].status \in statuses}
Unsent == In({"pending", "queued"})
Pending == In({"pending"})
Open == In({"pending", "queued"})

-----------------------------------------------------------------------------
(* dispatch_campaign.                                                      *)

Goto(d, step) == dpc' = [dpc EXCEPT ![d] = step]
Stop(d) == dpc' = [dpc EXCEPT ![d] = "idle"] /\ dmy' = [dmy EXCEPT ![d] = Rested]

Ended == {"cancelled", "completed", "paused"}

\* A worker takes the task and reads the campaign.
Dispatch(d) ==
    /\ dpc[d] = "idle" /\ dtasks > 0 /\ dtasks' = dtasks - 1
    /\ IF camp \in Ended THEN UNCHANGED dVars
       ELSE dmy' = [dmy EXCEPT ![d].copy = camp] /\ Goto(d, "begin")
    /\ UNCHANGED <<campVars, rec, msg, planVars, worldVars, stasks, sVars, accepted, faults>>

\* The reputation breaker: mark_paused saves over whatever the status is now.
Pause(d) ==
    /\ dpc[d] = "begin" /\ halted /\ camp' = "paused" /\ Stop(d)
    /\ UNCHANGED <<counts, rec, msg, planVars, worldVars, taskVars, sVars, accepted, faults>>

\* mark_sending, which looks at the copy.
Begin(d) ==
    /\ dpc[d] = "begin" /\ ~halted /\ Goto(d, "chunk")
    /\ camp' = IF dmy[d].copy \in {"draft", "queued"} THEN "sending" ELSE camp
    /\ UNCHANGED <<dmy, counts, rec, msg, planVars, worldVars, taskVars, sVars, accepted, faults>>

\* The next chunk of PENDING recipients, if there is one ...
TakeChunk(d) ==
    /\ dpc[d] = "chunk" /\ Pending # {}
    /\ \E batch \in SUBSET Pending :
          /\ Cardinality(batch) <= scene.chunk
          /\ Cardinality(batch) = scene.chunk \/ batch = Pending
          /\ dmy' = [dmy EXCEPT ![d].batch = batch]
    /\ Goto(d, "refuse")
    /\ UNCHANGED <<campVars, rec, msg, planVars, worldVars, taskVars, sVars, accepted, faults>>

\* ... and the end of the campaign, if nothing is open.
NoChunk(d) ==
    /\ dpc[d] = "chunk" /\ Pending = {}
    /\ IF In({"queued"}) = {} THEN Goto(d, "complete") /\ UNCHANGED dmy ELSE Stop(d)
    /\ UNCHANGED <<campVars, rec, msg, planVars, worldVars, taskVars, sVars, accepted, faults>>

\* Suppressed and opted-out addresses are FAILED and counted.
Refuse(d) ==
    LET out == dmy[d].batch \cap optedOut IN
    /\ dpc[d] = "refuse" /\ Goto(d, "reserve")
    /\ rec' = [r \in Recs |-> IF r \in out THEN [rec[r] EXCEPT !.status = "failed"] ELSE rec[r]]
    /\ counts' = [counts EXCEPT !.failed = @ + Cardinality(out)]
    /\ dmy' = [dmy EXCEPT ![d].batch = @ \ out]
    /\ UNCHANGED <<camp, msg, planVars, worldVars, taskVars, sVars, accepted, faults>>

\* reserve_all per recipient, under a stable id: a reservation that stands is
\* taken as it is, one that was released is refused.
Used == Cardinality({r \in Recs : hold[r] \in {"reserved", "committed"}})
Fresh(batch) == {r \in batch : hold[r] = "none"}
Standing(batch) == {r \in batch : hold[r] \in {"reserved", "committed"}}
Fits(batch, got) == /\ got \subseteq Fresh(batch) /\ Used + Cardinality(got) <= limit
                    /\ got = Fresh(batch) \/ Used + Cardinality(got) = limit

Reserve(d) ==
    /\ dpc[d] = "reserve"
    /\ \E got \in SUBSET Recs :
          /\ Fits(dmy[d].batch, got)
          /\ hold' = [r \in Recs |-> IF r \in got THEN "reserved" ELSE hold[r]]
          /\ dmy' = [dmy EXCEPT ![d].go = got \cup Standing(dmy[d].batch)]
    /\ Goto(d, IF dmy[d].held THEN "create" ELSE "hold")
    /\ UNCHANGED <<campVars, rec, msg, limit, worldVars, taskVars, sVars, accepted, faults>>

\* Those the plan has no room for are HELD.
Hold(d) ==
    /\ dpc[d] = "hold" /\ Goto(d, "create")
    /\ rec' = [r \in Recs |-> IF r \in dmy[d].batch \ dmy[d].go THEN [rec[r] EXCEPT !.status = "held"]
                                                              ELSE rec[r]]
    /\ UNCHANGED <<dmy, campVars, msg, planVars, worldVars, taskVars, sVars, accepted, faults>>

-----------------------------------------------------------------------------
(* _queue_recipients: the messages, their recipients, and the send tasks,  *)
(* which leave at once, no transaction being open.                         *)

Made(r) == Cardinality({k \in Copies : msg[r][k].status # "none"})

Create(d) ==
    /\ dpc[d] = "create" /\ \A r \in dmy[d].go : Made(r) < MaxCopies
    /\ msg' = [r \in Recs |-> IF r \in dmy[d].go THEN [msg[r] EXCEPT ![Made(r) + 1].status = "queued"]
                                              ELSE msg[r]]
    /\ dmy' = [dmy EXCEPT ![d].new = {<<r, Made(r) + 1>> : r \in dmy[d].go}]
    /\ Goto(d, IF dmy[d].go # {} THEN "link" ELSE IF dmy[d].held THEN "reopen" ELSE "tail")
    /\ UNCHANGED <<campVars, rec, planVars, worldVars, taskVars, sVars, accepted, faults>>

UnpointedLink(d) ==
    /\ dpc[d] = "link" /\ Goto(d, "enqueue")
    /\ rec' = [r \in Recs |-> IF r \in dmy[d].go THEN [status |-> "queued", msg |-> None] ELSE rec[r]]
    /\ UNCHANGED <<dmy, campVars, msg, planVars, worldVars, taskVars, sVars, accepted, faults>>
Link(d) ==
    /\ dpc[d] = "link" /\ Goto(d, "enqueue")
    /\ rec' = [r \in Recs |-> IF \E k \in Copies : <<r, k>> \in dmy[d].new
                              THEN [status |-> "queued", msg |-> CHOOSE k \in Copies : <<r, k>> \in dmy[d].new]
                              ELSE rec[r]]
    /\ UNCHANGED <<dmy, campVars, msg, planVars, worldVars, taskVars, sVars, accepted, faults>>

Enqueue(d) ==
    /\ dpc[d] = "enqueue" /\ Goto(d, IF dmy[d].held THEN "reopen" ELSE "tail")
    /\ stasks' = [r \in Recs |-> [k \in Copies |-> stasks[r][k] + IF <<r, k>> \in dmy[d].new THEN 1 ELSE 0]]
    /\ UNCHANGED <<dmy, campVars, rec, msg, planVars, worldVars, dtasks, sVars, accepted, faults>>

\* dispatch_campaign enqueues itself again or looks whether all is done.
GoOn(d) ==
    /\ dpc[d] = "tail"
    /\ IF Pending # {} THEN dtasks' = dtasks + 1 /\ Stop(d)
       ELSE /\ IF In({"queued"}) = {} THEN Goto(d, "complete") /\ UNCHANGED dmy ELSE Stop(d)
            /\ UNCHANGED dtasks
    /\ UNCHANGED <<campVars, rec, msg, planVars, worldVars, stasks, sVars, accepted, faults>>

\* mark_completed, which saves over whatever the status is now.
Complete(d) ==
    /\ dpc[d] = "complete" /\ camp' = "completed" /\ Stop(d)
    /\ UNCHANGED <<counts, rec, msg, planVars, worldVars, taskVars, sVars, accepted, faults>>

\* retry_held_email_recipients: Beat starts it every 15 minutes, when the last
\* run has long ended.
RetryHeldOfOpen(d) ==
    /\ dpc[d] = "idle" /\ In({"held"}) # {} /\ \A e \in Dispatchers : ~dmy[e].held /\ camp = "sending"
    /\ dmy' = [dmy EXCEPT ![d] = [Rested EXCEPT !.copy = camp, !.batch = In({"held"}), !.held = TRUE]]
    /\ Goto(d, "reserve")
    /\ UNCHANGED <<campVars, rec, msg, planVars, worldVars, taskVars, sVars, accepted, faults>>
RetryHeld(d) ==
    /\ dpc[d] = "idle" /\ In({"held"}) # {} /\ \A e \in Dispatchers : ~dmy[e].held
    /\ dmy' = [dmy EXCEPT ![d] = [Rested EXCEPT !.copy = camp, !.batch = In({"held"}), !.held = TRUE]]
    /\ Goto(d, "reserve")
    /\ UNCHANGED <<campVars, rec, msg, planVars, worldVars, taskVars, sVars, accepted, faults>>

\* "Reopen briefly so the newly-queued rows' sends can close it out again."
Reopen(d) ==
    /\ dpc[d] = "reopen" /\ Stop(d)
    /\ camp' = IF dmy[d].copy = "completed" /\ dmy[d].go # {} THEN "sending" ELSE camp
    /\ UNCHANGED <<counts, rec, msg, planVars, worldVars, taskVars, sVars, accepted, faults>>

DispatcherDies(d) ==
    /\ dpc[d] # "idle" /\ Fault("crash") /\ Stop(d)
    /\ UNCHANGED <<campVars, rec, msg, planVars, worldVars, taskVars, sVars, accepted>>

-----------------------------------------------------------------------------
(* send_bulk_recipient_email.  todo is the rest of the task, a step for    *)
(* every save, read or call.                                               *)

At(s, step) == todo[s] # <<>> /\ Head(todo[s]) = step
Then(s, rest) == todo' = [todo EXCEPT ![s] = rest] /\ UNCHANGED smy
Finish(s) == Then(s, Tail(todo[s]))
Its(s) == msg[smy[s][1]][smy[s][2]]
Set(s, m) == msg' = [msg EXCEPT ![smy[s][1]][smy[s][2]] = m]
\* The recipient that points to the message, if one does.
Points(s) == {r \in Recs : r = smy[s][1] /\ rec[r].msg = smy[s][2]}

\* The rest of the task after the last look, and after the provider's answer.
DroppedUnsettled == <<"failed", "lost", "check">>
AcceptedUnchecked == <<"sent", "commit", "count">>
Suppressed == <<"failed", "release">>
Dropped == <<"failed", "lost", "check", "release">>
Accepted == <<"sent", "commit", "count", "check">>
LastTry == <<"release", "lost", "check", "retry">>

AlreadyAccepted(m) == m.pid \/ m.status = "sent"

Take(s, r, k) ==
    /\ todo[s] = <<>> /\ stasks[r][k] > 0
    /\ stasks' = [stasks EXCEPT ![r][k] = @ - 1]
    /\ IF AlreadyAccepted(msg[r][k]) THEN UNCHANGED sVars
       ELSE todo' = [todo EXCEPT ![s] = <<"gate">>] /\ smy' = [smy EXCEPT ![s] = <<r, k>>]
    /\ UNCHANGED <<campVars, rec, msg, planVars, worldVars, dtasks, dVars, accepted, faults>>

\* The last look at the channel, the suppression list and the reputation.
Gate(s) ==
    /\ At(s, "gate") /\ Then(s, CASE ~on -> <<"retry">>
                                  [] on /\ smy[s][1] \in optedOut -> Suppressed
                                  [] on /\ smy[s][1] \notin optedOut /\ halted -> Dropped
                                  [] OTHER -> <<"call">>)
    /\ UNCHANGED <<campVars, rec, msg, planVars, worldVars, taskVars, dVars, accepted, faults>>

Takes(r) == accepted' = [accepted EXCEPT ![r] = IF @ < 2 THEN @ + 1 ELSE @]

Send(s) ==
    /\ At(s, "call")
    /\ \/ /\ Takes(smy[s][1]) /\ Then(s, Accepted) /\ UNCHANGED faults
       \/ Fault("refused") /\ Then(s, <<"failed", "try">>) /\ UNCHANGED accepted
       \/ Fault("unanswered") /\ Takes(smy[s][1]) /\ Then(s, <<"failed", "try">>)
    /\ UNCHANGED <<campVars, rec, msg, planVars, worldVars, taskVars, dVars>>

MarkSent(s) ==
    /\ At(s, "sent") /\ Finish(s) /\ Set(s, [Its(s) EXCEPT !.status = "sent", !.pid = TRUE])
    /\ UNCHANGED <<campVars, rec, planVars, worldVars, taskVars, dVars, accepted, faults>>

MarkFailed(s) ==
    /\ At(s, "failed") /\ Finish(s) /\ Set(s, [Its(s) EXCEPT !.status = "failed"])
    /\ UNCHANGED <<campVars, rec, planVars, worldVars, taskVars, dVars, accepted, faults>>

\* The failed tries are counted in the cache; max_retries is always one more
\* than there have been, so that Celery retries after the last one, too.
CountTry(s) ==
    /\ At(s, "try") /\ Set(s, [Its(s) EXCEPT !.tries = @ + 1])
    /\ Then(s, IF Its(s).tries + 1 >= MaxTries THEN LastTry ELSE <<"retry">>)
    /\ UNCHANGED <<campVars, rec, planVars, worldVars, taskVars, dVars, accepted, faults>>

Retry(s) ==
    /\ At(s, "retry") /\ Finish(s)
    /\ stasks' = [stasks EXCEPT ![smy[s][1]][smy[s][2]] = @ + 1]
    /\ UNCHANGED <<campVars, rec, msg, planVars, worldVars, dtasks, dVars, accepted, faults>>

\* _settle_quota, under the id of the recipient that points to the message.
Settled(s, to) == [r \in Recs |-> IF r \in Points(s) /\ hold[r] = "reserved" THEN to ELSE hold[r]]

Commit(s) ==
    /\ At(s, "commit") /\ Finish(s) /\ hold' = Settled(s, "committed")
    /\ UNCHANGED <<campVars, rec, msg, limit, worldVars, taskVars, dVars, accepted, faults>>

Release(s) ==
    /\ At(s, "release") /\ Finish(s) /\ hold' = Settled(s, "released")
    /\ UNCHANGED <<campVars, rec, msg, limit, worldVars, taskVars, dVars, accepted, faults>>

\* The recipient is SENT, and counted if this is what made it so.
CountSent(s) ==
    LET changed == {r \in Points(s) : rec[r].status # "sent"} IN
    /\ At(s, "count") /\ Finish(s)
    /\ rec' = [r \in Recs |-> IF r \in changed THEN [rec[r] EXCEPT !.status = "sent"] ELSE rec[r]]
    /\ counts' = [counts EXCEPT !.sent = @ + Cardinality(changed)]
    /\ UNCHANGED <<camp, msg, planVars, worldVars, taskVars, dVars, accepted, faults>>

\* A failure is counted, and the recipient is FAILED.
CountLost(s) ==
    /\ At(s, "lost") /\ Finish(s)
    /\ rec' = [r \in Recs |-> IF r \in Points(s) THEN [rec[r] EXCEPT !.status = "failed"] ELSE rec[r]]
    /\ counts' = [counts EXCEPT !.failed = @ + 1]
    /\ UNCHANGED <<camp, msg, planVars, worldVars, taskVars, dVars, accepted, faults>>

\* _maybe_complete_campaign: it looks first and saves afterwards.
Check(s) ==
    /\ At(s, "check")
    /\ IF Open = {} THEN Then(s, <<"complete">> \o Tail(todo[s])) ELSE Finish(s)
    /\ UNCHANGED <<campVars, rec, msg, planVars, worldVars, taskVars, dVars, accepted, faults>>

MarkCompleted(s) ==
    /\ At(s, "complete") /\ Finish(s) /\ camp' = "completed"
    /\ UNCHANGED <<counts, rec, msg, planVars, worldVars, taskVars, dVars, accepted, faults>>

\* After the provider has taken the message, an error of a step does not keep
\* the others from happening (_after_send), and nothing is retried.
StepFails(s) ==
    /\ todo[s] # <<>> /\ (At(s, "sent") \/ Its(s).pid) /\ Fault("database") /\ Finish(s)
    /\ UNCHANGED <<campVars, rec, msg, planVars, worldVars, taskVars, dVars, accepted>>

SenderDies(s) ==
    /\ todo[s] # <<>> /\ Fault("crash") /\ Then(s, <<>>)
    /\ UNCHANGED <<campVars, rec, msg, planVars, worldVars, taskVars, dVars, accepted>>

-----------------------------------------------------------------------------
(* The world.                                                              *)

\* The drainer fires the campaign's job again (ScheduledJob).
FiredAgain ==
    /\ Fault("again") /\ scene.start = "queued" /\ dtasks < 2 /\ dtasks' = dtasks + 1
    /\ UNCHANGED <<campVars, rec, msg, planVars, worldVars, stasks, dVars, sVars, accepted>>

\* cancel_job, which saw the campaign SCHEDULED before the drainer took it.
CancelLate ==
    /\ Fault("cancel") /\ scene.start = "queued" /\ camp' = "cancelled"
    /\ UNCHANGED <<counts, rec, msg, planVars, worldVars, taskVars, dVars, sVars, accepted>>

\* An unsubscribe or a bounce; a bigger plan, or its next day.
OptOut(r) ==
    /\ r \in scene.optOuts \ optedOut /\ optedOut' = optedOut \cup {r}
    /\ UNCHANGED <<scene, on, halted, campVars, rec, msg, planVars, taskVars, dVars, sVars, accepted, faults>>
MoreRoom ==
    /\ limit < scene.grown /\ limit' = scene.grown
    /\ UNCHANGED <<hold, worldVars, campVars, rec, msg, taskVars, dVars, sVars, accepted, faults>>

\* An admin switches Email off and on again; the breaker trips.
SwitchOff ==
    /\ on /\ Fault("off") /\ on' = FALSE
    /\ UNCHANGED <<scene, halted, optedOut, campVars, rec, msg, planVars, taskVars, dVars, sVars, accepted>>
SwitchOn ==
    /\ ~on /\ on' = TRUE
    /\ UNCHANGED <<scene, halted, optedOut, campVars, rec, msg, planVars, taskVars, dVars, sVars, accepted, faults>>
Halt ==
    /\ ~halted /\ Fault("halt") /\ halted' = TRUE
    /\ UNCHANGED <<scene, on, optedOut, campVars, rec, msg, planVars, taskVars, dVars, sVars, accepted>>

-----------------------------------------------------------------------------
DispatchStep(d) == Pause(d) \/ Begin(d) \/ TakeChunk(d) \/ NoChunk(d) \/ Refuse(d) \/ Reserve(d) \/ Hold(d)
                   \/ Create(d) \/ Link(d) \/ Enqueue(d) \/ GoOn(d) \/ Complete(d) \/ Reopen(d)
SendStep(s) == Gate(s) \/ Send(s) \/ MarkSent(s) \/ MarkFailed(s) \/ CountTry(s) \/ Retry(s) \/ Commit(s)
               \/ Release(s) \/ CountSent(s) \/ CountLost(s) \/ Check(s) \/ MarkCompleted(s)
World == FiredAgain \/ CancelLate \/ (\E r \in Recs : OptOut(r)) \/ MoreRoom \/ SwitchOff \/ SwitchOn \/ Halt

Next ==
    \/ \E d \in Dispatchers : Dispatch(d) \/ RetryHeld(d) \/ DispatchStep(d) \/ DispatcherDies(d)
    \/ \E s \in Senders : \/ \E r \in Recs, k \in Copies : Take(s, r, k)
                          \/ SendStep(s) \/ StepFails(s) \/ SenderDies(s)
    \/ World

Spec == Init /\ [][Next]_vars

\* Workers take the tasks there are and go on with those they have; Beat looks
\* for held recipients; whoever switched Email off switches it on again, and
\* the plan has room again on the next day.
Fairness ==
    /\ \A d \in Dispatchers : WF_vars(DispatchStep(d))
    /\ WF_vars(\E d \in Dispatchers : Dispatch(d)) /\ SF_vars(\E d \in Dispatchers : RetryHeld(d))
    /\ \A s \in Senders : WF_vars(SendStep(s))
    /\ WF_vars(\E s \in Senders, r \in Recs, k \in Copies : Take(s, r, k))
    /\ WF_vars(SwitchOn) /\ WF_vars(MoreRoom)

FairSpec == Spec /\ Fairness

-----------------------------------------------------------------------------
(* Properties.                                                             *)

TypeOK ==
    /\ scene \in Scenes /\ faults \in 0..scene.max /\ limit \in Nat
    /\ camp \in {"draft", "queued", "sending", "paused", "completed", "cancelled"}
    /\ counts \in [sent : Nat, failed : Nat]
    /\ rec \in [Recs -> [status : {"pending", "queued", "held", "sent", "failed"}, msg : 0..MaxCopies]]
    /\ msg \in [Recs -> [Copies -> Message]]
    /\ hold \in [Recs -> {"none", "reserved", "committed", "released"}]
    /\ on \in BOOLEAN /\ halted \in BOOLEAN /\ optedOut \subseteq Recs
    /\ dtasks \in Nat /\ stasks \in [Recs -> [Copies -> Nat]]
    /\ dpc \in [Dispatchers -> {"idle", "begin", "chunk", "refuse", "reserve", "hold", "create", "link",
                                "enqueue", "tail", "reopen", "complete"}]
    /\ accepted \in [Recs -> 0..2]

\* "So a redelivered or re-run task can never send twice": the provider takes
\* one mail per recipient (unless it took one without an answer, or the
\* drainer fires twice, README).
SentOnce == scene.faults \cap {"unanswered", "again"} = {} => \A r \in Recs : accepted[r] <= 1

\* Nobody is at work and nothing waits.
AtRest == /\ dtasks = 0 /\ \A r \in Recs, k \in Copies : stasks[r][k] = 0
          /\ \A d \in Dispatchers : dpc[d] = "idle"
          /\ \A s \in Senders : todo[s] = <<>>

\* In the end the books agree with what the provider took: those recipients
\* and no others are SENT, paid for, and counted; a failure is counted once and
\* gives its unit back.  (Not after the last try, which README describes.)
Exhausted == \E r \in Recs, k \in Copies : msg[r][k].tries >= MaxTries
BooksAgree ==
    /\ AtRest /\ scene.faults \cap {"crash", "database", "unanswered", "again"} = {} /\ ~Exhausted
    => /\ counts.sent = Cardinality(In({"sent"})) /\ counts.failed = Cardinality(In({"failed"}))
       /\ \A r \in Recs : /\ (accepted[r] = 1) <=> (rec[r].status = "sent")
                          /\ (accepted[r] = 1) <=> (hold[r] \in {"reserved", "committed"})

\* A campaign does not stay SENDING: the last recipient to end completes it.
\* (Nothing is lost; nobody unsubscribes between dispatch and send; nobody was
\* held: in these cases it may stay, README.)
Dependable == scene.faults \cap {"crash", "database"} = {} /\ scene.optOuts = {}
CampaignEnds == Dependable /\ scene.limit >= Cardinality(Recs) /\ camp = "sending" ~> camp # "sending"

\* "Held, not sent and not lost": when the plan has room, a held recipient goes
\* out, or fails for a reason of its own.
HeldGoesOut ==
    \A r \in Recs : Dependable /\ scene.grown >= Cardinality(Recs) /\ rec[r].status = "held"
                    ~> rec[r].status \in {"sent", "failed"}

-----------------------------------------------------------------------------
\* email/tasks.py:325 "Retries are exhausted and the message is permanently failed".
FailedIsFinal == [][\A r \in Recs : rec[r].status = "failed" => rec'[r].status = "failed"]_vars
\* email/models.py CANCELLED: a cancelled campaign does not go on.
CancelledStays == [][camp = "cancelled" => camp' = "cancelled"]_vars
=============================================================================
