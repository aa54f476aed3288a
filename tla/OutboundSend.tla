---------------------------- MODULE OutboundSend ----------------------------
(***************************************************************************)
(* WhatsApp messages on their way to Meta: the outbound queue that several *)
(* drains empty (apps/whatsapp/tasks.py), the plan limit each of them      *)
(* reserves from (apps/billing/metering.py), the campaign that fills it    *)
(* chunk by chunk and may be paused or withdrawn                           *)
(* (apps/whatsapp/campaigns.py), and the status reports of Meta.           *)
(*                                                                         *)
(* A drain takes a claim in the cache, not a lock: every save of the row   *)
(* between the claim and the end is a step of its own and overwrites what  *)
(* others wrote.  accepted counts what Meta took, up to 2.                 *)
(***************************************************************************)
EXTENDS Integers, FiniteSets

CONSTANTS
    Msgs,          \* messages, each with its campaign recipient
    Drains,        \* drain_outbound_queue tasks
    None,
    Scenes,        \* what happens around the queue, see Scene
    Limit,         \* what the plan allows in this period
    MaxAttempts,   \* OutboundMessage.MAX_ATTEMPTS
    ChunkSize,     \* _CAMPAIGN_CHUNK_SIZE
    MaxTasks, MaxFaults   \* bounds of the checked instances

\* Template messages, which are metered, or free text; sent by a campaign; the
\* drains; whether the platform brake or the channel switch may hold sends back;
\* whether users pause, resume, withdraw; whether Meta reports; what may fail.
Scene == [metered : BOOLEAN, campaign : BOOLEAN, drains : SUBSET Drains, brake : BOOLEAN,
          users : BOOLEAN, reports : BOOLEAN,
          faults : SUBSET {"crash", "commit", "database", "broker", "chunk"}]

ASSUME OutboundAssumption ==
    /\ IsFiniteSet(Msgs) /\ Msgs # {} /\ None \notin Msgs
    /\ Scenes \subseteq Scene
    /\ Limit \in Nat /\ MaxAttempts \in Nat \ {0} /\ ChunkSize \in Nat \ {0}
    /\ MaxTasks \in Nat \ {0} /\ MaxFaults \in Nat

Waiting == {"queued", "held"}
Active == {"queued", "sending"}
Editable == {"draft", "scheduled"}

Message == [status : Waiting \cup {"absent", "sending", "sent", "failed", "cancelled", "unconfirmed"},
            due : BOOLEAN,           \* next_attempt_at has come
            tries : 0..MaxAttempts,  \* attempts
            stale : BOOLEAN]         \* SENDING for longer than _SENDING_STALE
Campaign == [status : Active \cup Editable \cup {"paused", "completed", "cancelled", "failed"},
             due : BOOLEAN,          \* scheduled_at has come
             started : BOOLEAN,      \* started_at is set
             quiet : BOOLEAN]        \* not updated for _STUCK_CAMPAIGN_THRESHOLD

VARIABLES
    row,        \* OutboundMessage rows
    log,        \* status of their MessageLog rows
    known,      \* messages whose log has Meta's message_id
    claims,     \* messages with a wa_outbound_claim key in the cache
    hold,       \* UsageReservation of each message
    used,       \* UsageCounter of the period
    accepted,   \* how often Meta took each message
    pc, my,     \* per drain: where it is; its message, what Meta said, whether it holds a reservation
    camp,       \* the campaign
    rec,        \* its recipients
    tasks,      \* send_campaign tasks waiting
    sender,     \* where the worker that runs one is
    seen,       \* the waiting messages a withdrawal has read, or None
    report,     \* Meta's status report of each message
    faults,
    scene       \* the scene of this behaviour, never changed

queueVars == <<row, log, known>>
meterVars == <<hold, used>>
drainVars == <<pc, my, claims>>
campVars == <<camp, rec, tasks, sender, seen>>
rest == <<faults, scene>>
vars == <<queueVars, meterVars, drainVars, campVars, accepted, report, rest>>

Idle == [m |-> None, said |-> "none", mine |-> FALSE]
NewRow == [status |-> "absent", due |-> TRUE, tries |-> 0, stale |-> FALSE]
QueuedRow == [NewRow EXCEPT !.status = "queued"]
Draft == [status |-> "draft", due |-> FALSE, started |-> FALSE, quiet |-> FALSE]

Init ==
    /\ scene \in Scenes
    /\ row = [m \in Msgs |-> IF scene.campaign THEN NewRow ELSE QueuedRow]
    /\ log = [m \in Msgs |-> "none"] /\ known = {} /\ claims = {}
    /\ hold = [m \in Msgs |-> "none"] /\ used = 0
    /\ accepted = [m \in Msgs |-> 0]
    /\ pc = [d \in Drains |-> "idle"] /\ my = [d \in Drains |-> Idle]
    /\ camp = [Draft EXCEPT !.status = IF scene.campaign THEN "draft" ELSE "completed"]
    /\ rec = [m \in Msgs |-> "none"]
    /\ tasks = 0 /\ sender = "idle" /\ seen = None
    /\ report = [m \in Msgs |-> "none"]
    /\ faults = 0

Fault(kind) == kind \in scene.faults /\ faults < MaxFaults /\ faults' = faults + 1

-----------------------------------------------------------------------------
(* Billing.                                                                *)

Reserved(m) == hold[m] = "reserved"
AlwaysRoom == TRUE
HasRoom == used + 1 <= Limit

\* reserve(renew_released=True): the counter and the reservation in one
\* transaction, the deletion of a released one before it.
Reserve(m) ==
    IF hold[m] \in {"none", "released"}
    THEN IF HasRoom THEN hold' = [hold EXCEPT ![m] = "reserved"] /\ used' = used + 1
                    ELSE hold' = [hold EXCEPT ![m] = "none"] /\ UNCHANGED used
    ELSE UNCHANGED meterVars

\* _settle: only an open reservation changes.
SettledAnyway(m, to) == [hold EXCEPT ![m] = to]
Settled(m, to) == IF Reserved(m) THEN [hold EXCEPT ![m] = to] ELSE hold

\* commit_stale: open for more than a day, and no drain is at work on it.
CommitStale(m) ==
    /\ Reserved(m) /\ \A d \in Drains : my[d].m # m
    /\ hold' = Settled(m, "committed")
    /\ UNCHANGED <<queueVars, used, drainVars, campVars, accepted, report, rest>>

-----------------------------------------------------------------------------
(* One drain and one message.                                              *)

\* The candidates, and _claim_for_send, which looks again under the claim.
Sendable(m) == row[m].status \in Waiting /\ row[m].due /\ camp.status # "paused"
Claim(d, m) ==
    /\ d \in scene.drains /\ pc[d] = "idle"
    /\ m \notin claims /\ Sendable(m)
    /\ claims' = claims \cup {m}
    /\ pc' = [pc EXCEPT ![d] = "ready"]
    /\ my' = [my EXCEPT ![d] = [Idle EXCEPT !.m = m]]
    /\ UNCHANGED <<queueVars, meterVars, campVars, accepted, report, rest>>

Goto(d, at) == pc' = [pc EXCEPT ![d] = at] /\ UNCHANGED claims
\* The finally clause: _release_send_claim.
Leave(d) == /\ pc' = [pc EXCEPT ![d] = "idle"]
            /\ my' = [my EXCEPT ![d] = Idle]
            /\ claims' = claims \ {my[d].m}

Logged(m, status) == [log EXCEPT ![m] = IF @ = "none" THEN @ ELSE status]
MarkFailedForever(m, terminal) ==
    [row EXCEPT ![m] = [@ EXCEPT !.tries = @ + 1, !.due = terminal,
                                 !.status = IF terminal THEN "failed" ELSE "queued"]]
MarkFailed(m, terminal) ==
    LET tries == IF row[m].tries < MaxAttempts THEN row[m].tries + 1 ELSE MaxAttempts
        over == terminal \/ tries >= MaxAttempts
    IN [row EXCEPT ![m] = [@ EXCEPT !.tries = tries, !.due = over,
                                    !.status = IF over THEN "failed" ELSE "queued"]]

\* _authorize_send raises SendNotAuthorized ...
Refuse(d) ==
    LET m == my[d].m
    IN /\ pc[d] = "ready"
       /\ row' = MarkFailed(m, TRUE)
       /\ Goto(d, "notify")
       /\ UNCHANGED <<log, known, meterVars, my, campVars, accepted, report, rest>>

\* ... the account has no provider ...
NoProvider(d) ==
    /\ pc[d] = "ready" /\ Goto(d, "failed")
    /\ my' = [my EXCEPT ![d].said = "busy"]
    /\ UNCHANGED <<queueVars, meterVars, campVars, accepted, report, rest>>

\* ... or the message may go, if the plan has room for it.
ReserveUnit(d) ==
    LET m == my[d].m
    IN /\ pc[d] = "ready" /\ scene.metered
       /\ Reserve(m)
       /\ Goto(d, CASE hold'[m] = "none"      -> "hold"
                    [] hold'[m] = "committed" -> "doubt"
                    [] OTHER                  -> "go")
       /\ my' = [my EXCEPT ![d].mine = hold'[m] # "none"]
       /\ UNCHANGED <<queueVars, campVars, accepted, report, rest>>
Unmetered(d) ==
    /\ pc[d] = "ready" /\ ~scene.metered /\ Goto(d, "go")
    /\ UNCHANGED <<queueVars, meterVars, my, campVars, accepted, report, rest>>

\* _hold.
Hold(d) ==
    LET m == my[d].m
    IN /\ pc[d] = "hold"
       /\ row' = [row EXCEPT ![m] = [@ EXCEPT !.status = "held", !.due = FALSE]]
       /\ log' = [log EXCEPT ![m] = "held"]
       /\ Leave(d)
       /\ UNCHANGED <<known, meterVars, campVars, accepted, report, rest>>

\* _platform_ceiling_reached: the unit goes back and the message waits.
Brake(d) ==
    /\ pc[d] = "go" /\ scene.brake
    /\ hold' = IF my[d].mine THEN Settled(my[d].m, "released") ELSE hold
    /\ my' = [my EXCEPT ![d] = [@ EXCEPT !.said = "brake", !.mine = hold' # hold]]
    /\ Goto(d, "uncount")
    /\ UNCHANGED <<queueVars, used, campVars, accepted, report, rest>>

\* _ensure_outbound_log, then SENDING.
Start(d) ==
    LET m == my[d].m
    IN /\ pc[d] = "go"
       /\ row' = [row EXCEPT ![m] = [@ EXCEPT !.status = "sending", !.stale = FALSE]]
       /\ log' = [log EXCEPT ![m] = IF @ = "none" THEN "queued" ELSE @]
       /\ Goto(d, "call")
       /\ UNCHANGED <<known, meterVars, my, campVars, accepted, report, rest>>

Taken(m) == [accepted EXCEPT ![m] = IF @ < 2 THEN @ + 1 ELSE @]

\* Meta takes the message, refuses it for good or for now, or does not answer.
DoubtUnlessBusy(d) == "failed"
Doubtful(d) == IF my[d].mine THEN "doubt" ELSE "failed"
Call(d) ==
    /\ pc[d] = "call"
    /\ \/ /\ accepted' = Taken(my[d].m) /\ Goto(d, "commit") /\ UNCHANGED my
       \/ /\ \E said \in {"refused", "busy"} : my' = [my EXCEPT ![d].said = said]
          /\ Goto(d, "failed") /\ UNCHANGED accepted
       \/ /\ accepted' \in {accepted, Taken(my[d].m)}
          /\ my' = [my EXCEPT ![d].said = "busy"]
          /\ Goto(d, Doubtful(d))
    /\ UNCHANGED <<queueVars, meterVars, campVars, report, rest>>

\* The answer is recorded: the unit, the log with Meta's id, the row.
Commit(d) ==
    /\ pc[d] = "commit"
    /\ hold' = IF my[d].mine THEN Settled(my[d].m, "committed") ELSE hold
    /\ Goto(d, "log")
    /\ UNCHANGED <<queueVars, used, my, campVars, accepted, report, rest>>
LogSent(d) ==
    /\ pc[d] = "log"
    /\ log' = [log EXCEPT ![my[d].m] = "sent"] /\ known' = known \cup {my[d].m}
    /\ Goto(d, "sent")
    /\ UNCHANGED <<row, meterVars, my, campVars, accepted, report, rest>>
RowSent(d) ==
    /\ pc[d] = "sent"
    /\ row' = [row EXCEPT ![my[d].m].status = "sent"]
    /\ Leave(d)
    /\ UNCHANGED <<log, known, meterVars, campVars, accepted, report, rest>>

\* A database error while it is recorded, or just after (register_outbound), is
\* an error like any other.
Raise(d) ==
    /\ \/ pc[d] = "commit" /\ Fault("commit") /\ UNCHANGED row
       \/ pc[d] = "log" /\ Fault("database") /\ UNCHANGED row
       \/ pc[d] = "sent" /\ Fault("database") /\ row' \in {row, [row EXCEPT ![my[d].m].status = "sent"]}
    /\ my' = [my EXCEPT ![d].said = "busy"]
    /\ Goto(d, "failed")
    /\ UNCHANGED <<log, known, meterVars, campVars, accepted, report, scene>>

\* mark_failed: refused for good, or one attempt fewer.
Fail(d) ==
    LET m == my[d].m
    IN /\ pc[d] = "failed"
       /\ row' = MarkFailed(m, my[d].said = "refused")
       /\ IF row'[m].status = "failed"
          THEN Goto(d, "release") /\ UNCHANGED my
          ELSE Leave(d)
       /\ UNCHANGED <<log, known, meterVars, campVars, accepted, report, rest>>

\* release: the reservation, then the counter.
Release(d) ==
    /\ pc[d] = "release"
    /\ hold' = IF my[d].mine THEN Settled(my[d].m, "released") ELSE hold
    /\ my' = [my EXCEPT ![d].mine = hold' # hold]
    /\ Goto(d, "uncount")
    /\ UNCHANGED <<queueVars, used, campVars, accepted, report, rest>>
Uncount(d) ==
    /\ pc[d] = "uncount"
    /\ used' = IF my[d].mine /\ used > 0 THEN used - 1 ELSE used
    /\ Goto(d, IF my[d].said = "brake" THEN "defer" ELSE "notify")
    /\ UNCHANGED <<queueVars, hold, my, campVars, accepted, report, rest>>
PutOff(d) ==
    /\ pc[d] = "defer"
    /\ row' = [row EXCEPT ![my[d].m].due = FALSE]
    /\ Leave(d)
    /\ UNCHANGED <<log, known, meterVars, campVars, accepted, report, rest>>

\* The log, and _notify_terminal_failure for the campaign recipient.
Notified(m) == [rec EXCEPT ![m] = IF @ = "none" THEN @ ELSE "failed"]
Notify(d) ==
    LET m == my[d].m
    IN /\ pc[d] = "notify"
       /\ log' = Logged(m, "failed") /\ rec' = Notified(m)
       /\ Leave(d)
       /\ UNCHANGED <<row, known, meterVars, camp, tasks, sender, seen, accepted, report, rest>>

\* _unconfirmed: counted, and never sent again.
Unconfirmed(m) ==
    /\ hold' = Settled(m, "committed")
    /\ row' = [row EXCEPT ![m] = [@ EXCEPT !.status = "unconfirmed", !.due = TRUE]]
    /\ log' = [log EXCEPT ![m] = "unconfirmed"]
Doubt(d) ==
    /\ pc[d] = "doubt"
    /\ Unconfirmed(my[d].m)
    /\ Leave(d)
    /\ UNCHANGED <<known, used, campVars, accepted, report, rest>>

\* The first thing a drain does: a message left SENDING is in doubt.
RecoverSending(m) ==
    /\ row[m].status = "sending" /\ row[m].stale
    /\ Unconfirmed(m)
    /\ UNCHANGED <<known, used, drainVars, campVars, accepted, report, rest>>

\* The channel is switched off: what is due waits a minute.
Defer(m) ==
    /\ scene.brake /\ row[m].status \in Waiting /\ row[m].due
    /\ row' = [row EXCEPT ![m].due = FALSE]
    /\ UNCHANGED <<log, known, meterVars, drainVars, campVars, accepted, report, rest>>

\* A worker dies in a drain; its request may have arrived, its claim stays
\* until it expires.
Crash(d) ==
    /\ pc[d] # "idle" /\ Fault("crash")
    /\ pc' = [pc EXCEPT ![d] = "idle"] /\ my' = [my EXCEPT ![d] = Idle]
    /\ \/ UNCHANGED accepted
       \/ pc[d] = "call" /\ accepted' = Taken(my[d].m)
    /\ UNCHANGED <<queueVars, meterVars, claims, campVars, report, scene>>

\* Time: a claim and a SENDING row get old only when no drain is at work on
\* the message.
Unworked(m) == \A d \in Drains : my[d].m # m
Expire(m) ==
    /\ m \in claims /\ Unworked(m)
    /\ claims' = claims \ {m}
    /\ UNCHANGED <<queueVars, meterVars, pc, my, campVars, accepted, report, rest>>
Tick(m) ==
    /\ \/ row[m].status \in Waiting /\ ~row[m].due /\ row' = [row EXCEPT ![m].due = TRUE]
       \/ /\ row[m].status = "sending" /\ ~row[m].stale /\ Unworked(m)
          /\ row' = [row EXCEPT ![m].stale = TRUE]
    /\ UNCHANGED <<log, known, meterVars, drainVars, campVars, accepted, report, rest>>

-----------------------------------------------------------------------------
(* The campaign.                                                           *)

Pending == {m \in Msgs : rec[m] = "pending"}
\* The campaign's row lock is free.
CampFree == seen = None

\* send_campaign.delay: taken by the broker, or lost.
Enqueue == \/ tasks' = (IF tasks < MaxTasks THEN tasks + 1 ELSE tasks) /\ UNCHANGED faults
           \/ Fault("broker") /\ UNCHANGED tasks

\* create_and_queue_campaign and save_draft, for an existing draft.
Schedule ==
    /\ scene.users /\ camp.status = "draft" /\ CampFree
    /\ camp' = [camp EXCEPT !.status = "scheduled", !.due = FALSE]
    /\ UNCHANGED <<queueVars, meterVars, drainVars, rec, tasks, sender, seen, accepted, report, rest>>
SaveDraft ==
    /\ scene.users /\ camp.status = "scheduled" /\ CampFree
    /\ camp' = [camp EXCEPT !.status = "draft", !.due = FALSE]
    /\ UNCHANGED <<queueVars, meterVars, drainVars, rec, tasks, sender, seen, accepted, report, rest>>

\* start_campaign, by a user or, when its time has come, by
\* dispatch_due_campaigns, which fails what cannot be sent; _materialize.
StartCampaign ==
    /\ camp.status \in Editable /\ CampFree
    /\ \/ /\ camp' = [camp EXCEPT !.status = "queued", !.quiet = FALSE]
          /\ rec' = [m \in Msgs |-> "pending"]
          /\ Enqueue
       \/ /\ camp.status = "scheduled" /\ camp.due
          /\ camp' = [camp EXCEPT !.status = "failed"]
          /\ UNCHANGED <<rec, tasks, faults>>
    /\ UNCHANGED <<queueVars, meterVars, drainVars, sender, seen, accepted, report, scene>>

\* send_campaign up to mark_sending.
TakeTask ==
    /\ tasks > 0 /\ sender = "idle" /\ CampFree
    /\ tasks' = tasks - 1
    /\ IF camp.status \in Active
       THEN camp' = [camp EXCEPT !.status = "sending", !.started = TRUE] /\ sender' = "chunk"
       ELSE UNCHANGED <<camp, sender>>
    /\ UNCHANGED <<queueVars, meterVars, drainVars, rec, seen, accepted, report, rest>>

\* _process_chunk, one transaction under the campaign's lock, then the next task.
ChunkOfPending(chunk) == chunk \subseteq Pending
Chunk(chunk, sent) ==
    /\ rec' = [m \in Msgs |-> IF m \in sent THEN "queued"
                              ELSE IF m \in chunk THEN "skipped" ELSE rec[m]]
    /\ row' = [m \in Msgs |-> IF m \in sent THEN QueuedRow ELSE row[m]]
    /\ camp' = [camp EXCEPT !.quiet = FALSE,
                            !.status = IF \E m \in Msgs : rec'[m] = "pending" THEN @ ELSE "completed"]
ProcessChunk ==
    /\ sender = "chunk" /\ CampFree
    /\ sender' = "idle"
    /\ \/ /\ camp.status \notin Active \/ Pending = {}
          /\ UNCHANGED <<row, rec, camp, tasks, faults>>
       \/ /\ camp.status \in Active /\ Pending # {}
          /\ \E chunk \in SUBSET Msgs : \E sent \in SUBSET chunk :
                /\ ChunkOfPending(chunk) /\ chunk # {}
                /\ Cardinality(chunk) = ChunkSize \/ Pending \subseteq chunk
                /\ Cardinality(chunk) <= ChunkSize
                /\ Chunk(chunk, sent)
          /\ IF camp'.status = "completed" THEN UNCHANGED <<tasks, faults>> ELSE Enqueue
    /\ UNCHANGED <<log, known, meterVars, drainVars, seen, accepted, report, scene>>

\* The chunk raises: the task is retried, or the campaign fails.
ChunkFails ==
    /\ sender = "chunk" /\ camp.status \in Active /\ Fault("chunk")
    /\ \/ sender' = "idle" /\ tasks' = (IF tasks < MaxTasks THEN tasks + 1 ELSE tasks)
       \/ sender' = "fail" /\ UNCHANGED tasks
    /\ UNCHANGED <<queueVars, meterVars, drainVars, camp, rec, seen, accepted, report, scene>>
CampaignFailed ==
    /\ sender = "fail" /\ CampFree
    /\ camp' = [camp EXCEPT !.status = "failed"]
    /\ sender' = "idle"
    /\ UNCHANGED <<queueVars, meterVars, drainVars, rec, tasks, seen, accepted, report, rest>>
SenderCrash ==
    /\ sender # "idle" /\ Fault("crash") /\ sender' = "idle"
    /\ UNCHANGED <<queueVars, meterVars, drainVars, camp, rec, tasks, seen, accepted, report, scene>>

\* sweep_stuck_whatsapp_campaigns.
QuietSending(c) == c.status = "sending" /\ c.quiet
Stuck(c) == c.status \in Active /\ c.quiet
Sweep ==
    /\ Stuck(camp) /\ Pending # {}
    /\ Enqueue
    /\ UNCHANGED <<queueVars, meterVars, drainVars, camp, rec, sender, seen, accepted, report, scene>>

WaitingMsgs == {m \in Msgs : rec[m] # "none" /\ row[m].status \in Waiting}
Pause ==
    /\ scene.users /\ CampFree
    /\ camp.status \in Active \/ (camp.status = "completed" /\ WaitingMsgs # {})
    /\ camp' = [camp EXCEPT !.status = "paused"]
    /\ UNCHANGED <<queueVars, meterVars, drainVars, rec, tasks, sender, seen, accepted, report, rest>>
Resume ==
    /\ CampFree /\ camp.status = "paused"
    /\ IF Pending = {}
       THEN camp' = [camp EXCEPT !.status = "completed"] /\ UNCHANGED <<tasks, faults>>
       ELSE /\ camp' = [camp EXCEPT !.status = IF camp.started THEN "sending" ELSE "queued"]
            /\ Enqueue
    /\ UNCHANGED <<queueVars, meterVars, drainVars, rec, sender, seen, accepted, report, scene>>

\* _withdraw (cancel_campaign, halt_campaign) under the campaign's lock: the
\* waiting messages nobody has claimed ...
WithdrawRead ==
    /\ scene.users /\ CampFree
    /\ camp.status \in Active \cup {"scheduled", "paused"}
         \/ (camp.status = "completed" /\ WaitingMsgs # {})
    /\ seen' = WaitingMsgs \ claims
    /\ UNCHANGED <<queueVars, meterVars, drainVars, camp, rec, tasks, sender, accepted, report, rest>>

\* ... are cancelled if they still wait; their logs in any case.
WithdrawWrite ==
    LET gone == {m \in seen : row[m].status \in Waiting}
    IN /\ seen # None
       /\ row' = [m \in Msgs |-> IF m \in gone THEN [row[m] EXCEPT !.status = "cancelled"] ELSE row[m]]
       /\ log' = [m \in Msgs |-> IF m \in seen THEN Logged(m, "failed")[m] ELSE log[m]]
       /\ rec' = [m \in Msgs |-> IF m \in gone \cup Pending THEN "skipped" ELSE rec[m]]
       /\ \E final \in {"cancelled", "failed"} : camp' = [camp EXCEPT !.status = final]
       /\ seen' = None
       /\ UNCHANGED <<known, meterVars, drainVars, tasks, sender, accepted, report, rest>>

\* cancel_stale_campaign_holds: held for three days.
CancelStaleHold(m) ==
    /\ row[m].status = "held" /\ rec[m] # "none" /\ Unworked(m)
    /\ row' = [row EXCEPT ![m].status = "cancelled"]
    /\ rec' = [rec EXCEPT ![m] = "skipped"]
    /\ UNCHANGED <<log, known, meterVars, drainVars, camp, tasks, sender, seen, accepted, report, rest>>

CampTick ==
    /\ \/ camp.status = "scheduled" /\ ~camp.due /\ camp' = [camp EXCEPT !.due = TRUE]
       \/ camp.status \in Active /\ ~camp.quiet /\ camp' = [camp EXCEPT !.quiet = TRUE]
    /\ CampFree
    /\ UNCHANGED <<queueVars, meterVars, drainVars, rec, tasks, sender, seen, accepted, report, rest>>

-----------------------------------------------------------------------------
(* Meta's status reports.                                                  *)

Report(m) ==
    /\ scene.reports /\ accepted[m] > 0 /\ report[m] = "none"
    /\ \E says \in {"delivered", "failed"} : report' = [report EXCEPT ![m] = says]
    /\ UNCHANGED <<queueVars, meterVars, drainVars, campVars, accepted, rest>>

\* _process_status_update and _record_delivery_failure; a report whose message
\* id is unknown is dropped, unless some message is being sent: then it is
\* tried again, three times.
Rank == [s \in {"queued", "unconfirmed", "sent", "delivered", "held", "failed"} |->
            CASE s = "sent" -> 1 [] s = "delivered" -> 2 [] s = "held" -> 98 [] s = "failed" -> 99
              [] OTHER -> 0]
ReportFound(m) ==
    /\ report[m] \in {"delivered", "failed"} /\ m \in known
    /\ log' = [log EXCEPT ![m] = IF Rank[@] < Rank[report[m]] THEN report[m] ELSE @]
    /\ IF report[m] = "failed" /\ row[m].status # "failed"
       THEN row' = [row EXCEPT ![m].status = "failed"] /\ rec' = Notified(m)
       ELSE UNCHANGED <<row, rec>>
    /\ report' = [report EXCEPT ![m] = "done"]
    /\ UNCHANGED <<known, meterVars, drainVars, camp, tasks, sender, seen, accepted, rest>>
ReportDropped(m) ==
    /\ report[m] \in {"delivered", "failed"} /\ m \notin known
    /\ report' = [report EXCEPT ![m] = "done"]
    /\ UNCHANGED <<queueVars, meterVars, drainVars, campVars, accepted, rest>>

-----------------------------------------------------------------------------
Work(d) == \/ Refuse(d) \/ NoProvider(d) \/ ReserveUnit(d) \/ Unmetered(d) \/ Hold(d) \/ Brake(d)
           \/ Start(d) \/ Call(d) \/ Commit(d) \/ LogSent(d) \/ RowSent(d) \/ Raise(d) \/ Fail(d)
           \/ Release(d) \/ Uncount(d) \/ PutOff(d) \/ Notify(d) \/ Doubt(d)
Campaigns == \/ Schedule \/ SaveDraft \/ StartCampaign \/ TakeTask \/ ProcessChunk \/ ChunkFails
             \/ CampaignFailed \/ SenderCrash \/ Sweep \/ Pause \/ Resume
             \/ WithdrawRead \/ WithdrawWrite \/ CampTick
Next ==
    \/ \E d \in Drains : Work(d) \/ Crash(d) \/ \E m \in Msgs : Claim(d, m)
    \/ \E m \in Msgs : \/ CommitStale(m) \/ RecoverSending(m) \/ Defer(m) \/ Expire(m) \/ Tick(m)
                        \/ CancelStaleHold(m) \/ Report(m) \/ ReportFound(m) \/ ReportDropped(m)
    \/ Campaigns

Spec == Init /\ [][Next]_vars
\* Workers and beat run, and time passes; users, Meta and failures are free.
FairSpec ==
    /\ Spec
    /\ \A d \in Drains : WF_vars(Work(d))
    /\ \A m \in Msgs : WF_vars(RecoverSending(m)) /\ WF_vars(Expire(m)) /\ WF_vars(Tick(m))
    /\ WF_vars(TakeTask) /\ WF_vars(ProcessChunk) /\ WF_vars(CampaignFailed)
    /\ WF_vars(WithdrawWrite) /\ WF_vars(Sweep) /\ WF_vars(CampTick)

-----------------------------------------------------------------------------
LogStatus == {"none", "queued", "held", "sent", "delivered", "failed", "unconfirmed"}
TypeQueue == row \in [Msgs -> Message] /\ log \in [Msgs -> LogStatus] /\ known \subseteq Msgs
TypeMeter ==
    hold \in [Msgs -> {"none", "reserved", "committed", "released"}] /\ used \in Nat
TypeDrains ==
    /\ claims \subseteq Msgs
    /\ pc \in [Drains -> {"idle", "ready", "hold", "go", "call", "commit", "log", "sent", "failed",
                           "release", "uncount", "defer", "notify", "doubt"}]
    /\ my \in [Drains -> [m : Msgs \cup {None}, said : {"none", "refused", "busy", "brake"}, mine : BOOLEAN]]
TypeCampaign ==
    /\ camp \in Campaign
    /\ rec \in [Msgs -> {"none", "pending", "queued", "skipped", "failed"}]
    /\ tasks \in 0..MaxTasks /\ sender \in {"idle", "chunk", "fail"}
    /\ seen = None \/ seen \in SUBSET Msgs
TypeRest ==
    /\ accepted \in [Msgs -> 0..2]
    /\ report \in [Msgs -> {"none", "delivered", "failed", "done"}]
    /\ faults \in 0..MaxFaults /\ scene \in Scenes
TypeOK == TypeQueue /\ TypeMeter /\ TypeDrains /\ TypeCampaign /\ TypeRest

\* What the reservation protects: a metered message, unless the database fails
\* at the very commit of its unit.
Protected == scene.metered /\ "commit" \notin scene.faults

\* Whatever crashes, times out or fails, however many drains overlap and
\* whatever the campaign's users do, Meta takes a metered message at most once.
AcceptedOnce == Protected => \A m \in Msgs : accepted[m] <= 1

\* A metered message Meta took keeps its unit of the plan: no failure path
\* gives it back, and no retry takes a second one (AcceptedOnce, Counted).
AcceptedIsCounted ==
    Protected => \A m \in Msgs : accepted[m] > 0 => hold[m] \in {"reserved", "committed"}

\* The counter never passes the plan's limit and never falls below the units
\* in use and the released ones a drain has yet to give back; it exceeds them
\* only by what a crash between the two leaves behind.
Open == {m \in Msgs : hold[m] \in {"reserved", "committed"}}
Owed == {d \in Drains : pc[d] = "uncount" /\ my[d].mine}
Counted ==
    /\ used <= Limit
    /\ Cardinality(Open) + Cardinality(Owed) <= used
    /\ "crash" \notin scene.faults => used = Cardinality(Open) + Cardinality(Owed)

\* A message does not stay SENDING: an answer, a failure or the recovery of
\* stale messages ends it.
SendingSettles == \A m \in Msgs : row[m].status = "sending" ~> row[m].status # "sending"

\* A campaign does not stay queued or sending, whatever tasks are lost.
CampaignEnds == camp.status \in Active ~> camp.status \notin Active

\* Neither the queue nor the campaign is left behind.
NothingStays == SendingSettles /\ CampaignEnds

\* What cancel_campaign tells the user: no message of a cancelled campaign
\* that was not sent by then goes out.
CancelledStays ==
    [][\A m \in Msgs : accepted'[m] > accepted[m] => row[m].status # "cancelled" /\ rec[m] # "skipped"]_vars
=============================================================================
