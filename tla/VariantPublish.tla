--------------------------- MODULE VariantPublish ---------------------------
(***************************************************************************)
(* One channel (ContentPostVariant) of a scheduled post on its way to      *)
(* Facebook or Instagram (apps/publishing/services.py, tasks.py, views.py, *)
(* composer.py): the scheduler and the Celery tasks that dispatch it, the  *)
(* claim a worker takes before it calls the Graph API without a lock, the  *)
(* poller of Instagram video containers, the beat tasks that recover       *)
(* abandoned claims, and the users and operators who cancel, reschedule,   *)
(* retry and reconcile meanwhile.                                          *)
(*                                                                         *)
(* The post has this one channel, so its status is a field of the row      *)
(* (parent).  A clock is a field too: the ages that the code compares with *)
(* its thresholds.  live counts what the customer's followers see.         *)
(***************************************************************************)
EXTENDS Naturals

CONSTANTS
    Workers,     \* Celery workers and web requests
    None,
    Scenes,      \* what happens around the channel, see Scene
    MaxRetries,  \* max_retries of the tasks, at most
    MaxQueue, MaxBoxes, MaxFaults   \* bounds of the checked instances

Requests == {"compose", "cancel", "reopen", "reschedule", "retry", "retry_post", "workflow"}
Task == [kind : {"scheduled", "retry", "post"}, left : 0..MaxRetries]
Boxes == 1..MaxBoxes

\* Whether the post is an Instagram video: a container is made, polled, published;
\* the requests of users and operators; whether an approval may lapse or the
\* channel be switched off; whether a worker is done with a provider before a
\* lease ends or an operator acts; what may fail; whether a workflow publishes
\* inside the transaction of advance_run; max_retries.
Scene == [video : BOOLEAN, users : SUBSET Requests, unready : BOOLEAN, prompt : BOOLEAN,
          faults : SUBSET {"crash", "broker", "database"}, outerTx : BOOLEAN,
          retries : 0..MaxRetries]

ASSUME PublishAssumption ==
    /\ None \notin Workers /\ None \notin Task
    /\ Scenes \subseteq Scene /\ Scenes # {}
    /\ MaxRetries \in Nat /\ MaxQueue \in Nat \ {0} /\ MaxBoxes \in Nat /\ MaxFaults \in Nat

Unstarted == {"draft", "scheduled"}
Schedulable == {"draft", "scheduled", "failed"}
Ongoing == {"publishing", "processing", "reconciling"}

Variant == [status : Schedulable \cup Ongoing \cup {"published", "cancelled"},
            parent : {"draft", "scheduled", "publishing", "published", "failed", "cancelled"},
            video : BOOLEAN,                             \* the media of an Instagram channel
            due : {"none", "later", "now"},              \* scheduled_at
            sent : {"none", "fresh", "stale"},           \* dispatched_at, stale after the grace
            age : {"none", "fresh", "lease", "stale"},   \* last_attempt_at: past 30 min, past 6 h
            long : {"none", "fresh", "old"},             \* processing_started_at: old after 48 h
            flag : BOOLEAN, token : Workers \cup {None}, \* claim_in_flight, claim_token
            claim : Workers \cup {None}, lapsed : BOOLEAN, \* publish_claim, publish_claim_at
            box : 0..MaxBoxes]                           \* ig_container_id

VARIABLES
    row,      \* the committed row
    lock,     \* the worker whose open transaction holds it
    draft,    \* that transaction's version of it
    pc, my,   \* per worker: where it is, what it remembers
    queue,    \* Celery tasks waiting, by kind and retries left
    boxes,    \* what Instagram says of each container
    live,     \* publications the followers can see, counted up to 2
    faults,   \* crashes, lost enqueues and database errors so far
    scene     \* the scene of this behaviour, never changed

vars == <<scene, row, lock, draft, pc, my, queue, boxes, live, faults>>

NewRow == [status |-> "draft", parent |-> "draft", video |-> FALSE, due |-> "none", sent |-> "none", age |-> "none",
           long |-> "none", flag |-> FALSE, token |-> None, claim |-> None, lapsed |-> FALSE,
           box |-> 0]
Nothing == [task |-> None, res |-> "none", seen |-> NewRow, box |-> 0]

Init ==
    /\ scene \in Scenes
    /\ row = [NewRow EXCEPT !.video = scene.video]
    /\ lock = None /\ draft = NewRow
    /\ pc = [w \in Workers |-> "idle"] /\ my = [w \in Workers |-> Nothing]
    /\ queue = [t \in Task |-> 0]
    /\ boxes = [b \in Boxes |-> "none"]
    /\ live = 0 /\ faults = 0

-----------------------------------------------------------------------------
(* Rows, queue, parent.                                                    *)

ParentAsChannel(status) == status

\* _aggregate_parent_status of a post with one channel.
Parent(status) ==
    CASE status \in Ongoing   -> "publishing"
      [] status \in Unstarted -> "scheduled"
      [] OTHER                -> status
NotRefreshed(r) == r
Refreshed(r) == [r EXCEPT !.parent = Parent(r.status)]

Seen(w) == IF lock = w THEN draft ELSE row

\* w saves r; a row another transaction holds makes it wait.
Update(w, r) == \/ lock = w /\ draft' = r /\ UNCHANGED <<row, lock>>
                \/ lock = None /\ row' = r /\ UNCHANGED <<lock, draft>>

\* Nobody holds the lock on the post.
PostFree == lock = None /\ \A w \in Workers : pc[w] # "schedule"

More(t) == [queue EXCEPT ![t] = IF @ < MaxQueue THEN @ + 1 ELSE @]
Fresh(kind) == [kind |-> kind, left |-> scene.retries]

Fault(kind) == kind \in scene.faults /\ faults < MaxFaults /\ faults' = faults + 1

\* .delay: the broker takes the task, or the call raises and it is lost.
Enqueue(t) == \/ queue' = More(t) /\ UNCHANGED faults
              \/ Fault("broker") /\ UNCHANGED queue
Lost == faults' # faults

Goto(w, at, mem) == pc' = [pc EXCEPT ![w] = at] /\ my' = [my EXCEPT ![w] = mem]
Stop(w) == Goto(w, "idle", Nothing)

\* _claim_blocked.
FlagOnly(r) == r.status = "publishing" /\ r.flag
Blocked(r) == \/ r.status \in {"published", "reconciling", "processing"}
              \/ r.status = "publishing" /\ r.flag

-----------------------------------------------------------------------------
(* Users: the composer, the post page.                                     *)

\* save_post locks the post and its channels: content, then the schedule.
Scheduled(r) == [r EXCEPT !.status = "scheduled", !.due = "later", !.sent = "none"]
Saved(r, to) ==
    LET v == IF r.status = "cancelled" THEN [r EXCEPT !.status = "draft"] ELSE r
        p == [v EXCEPT !.parent = to]
    IN IF v.status \notin Schedulable THEN p
       ELSE IF to = "scheduled" THEN Scheduled(p)
       ELSE IF v.status = "scheduled" THEN [p EXCEPT !.status = "draft"] ELSE p

Compose ==
    /\ "compose" \in scene.users
    /\ PostFree /\ row.parent \in {"draft", "scheduled"}
    /\ \/ \E to \in {"draft", "scheduled"} : row' = Saved(row, to) /\ UNCHANGED <<queue, faults>>
       \/ /\ Enqueue(Fresh("post"))
          /\ row' = [Saved(row, "publishing") EXCEPT !.parent = IF Lost THEN "draft" ELSE @]
    /\ UNCHANGED <<scene, lock, draft, pc, my, boxes, live>>

\* A page checks the post's status before it locks anything.
Look(w, request, status) ==
    /\ request \in scene.users
    /\ pc[w] = "idle" /\ row.parent = status
    /\ Goto(w, request, Nothing)
    /\ UNCHANGED <<scene, row, lock, draft, queue, boxes, live, faults>>
LookAtPost(w) == \/ Look(w, "cancel", "scheduled") \/ Look(w, "reopen", "cancelled")
                 \/ Look(w, "retry_post", "failed")

\* cancel_post: one UPDATE of the channels that have not started.
Cancel(w) ==
    /\ pc[w] = "cancel" /\ PostFree
    /\ row' = IF row.status \in Unstarted \cup {"cancelled"}
              THEN [row EXCEPT !.status = "cancelled", !.parent = "cancelled", !.sent = "none"]
              ELSE Refreshed(row)
    /\ Stop(w)
    /\ UNCHANGED <<scene, lock, draft, queue, boxes, live, faults>>

Reopen(w) ==
    /\ pc[w] = "reopen" /\ PostFree
    /\ row' = IF row.status = "cancelled"
              THEN [row EXCEPT !.status = "draft", !.parent = "draft", !.due = "none"]
              ELSE [row EXCEPT !.parent = "draft"]
    /\ Stop(w)
    /\ UNCHANGED <<scene, lock, draft, queue, boxes, live, faults>>

\* variant_reschedule, under the locks of the post and the channel.
Reschedule ==
    /\ "reschedule" \in scene.users
    /\ PostFree
    /\ row.status = "scheduled" \/ (row.status = "draft" /\ row.parent \in {"scheduled", "publishing"})
    /\ row' = Refreshed(Scheduled(row))
    /\ UNCHANGED <<scene, lock, draft, pc, my, queue, boxes, live, faults>>

\* post_retry_variant: FAILED becomes PUBLISHING under the lock ...
RetryClick(w) ==
    /\ "retry" \in scene.users
    /\ pc[w] = "idle" /\ lock = None /\ row.status = "failed"
    /\ row' = [row EXCEPT !.status = "publishing", !.age = "fresh"]
    /\ Goto(w, "enqueue", Nothing)
    /\ UNCHANGED <<scene, lock, draft, queue, boxes, live, faults>>

\* ... then the task is enqueued, or the row is set back.
RetryEnqueue(w) ==
    /\ pc[w] = "enqueue"
    /\ Enqueue(Fresh("retry"))
    /\ IF Lost
       THEN Update(w, [row EXCEPT !.status = "failed"])
       ELSE UNCHANGED <<row, lock, draft>>
    /\ Stop(w)
    /\ UNCHANGED <<scene, boxes, live>>

\* post_retry locks the post; apply_schedule reads the channels it may touch ...
RetryPostRead(w) ==
    /\ pc[w] = "retry_post" /\ PostFree
    /\ Goto(w, "schedule", [Nothing EXCEPT !.seen = row])
    /\ UNCHANGED <<scene, row, lock, draft, queue, boxes, live, faults>>

\* ... and saves them, without having locked them.
RetryPostWrite(w) ==
    /\ pc[w] = "schedule" /\ lock = None
    /\ row' = [(IF my[w].seen.status \in Schedulable THEN Scheduled(row) ELSE row)
                  EXCEPT !.parent = "scheduled"]
    /\ Stop(w)
    /\ UNCHANGED <<scene, lock, draft, queue, boxes, live, faults>>

-----------------------------------------------------------------------------
(* The scheduler.                                                          *)

\* publish_due_posts: a due channel, at most once per grace window.
Due(r) == r.status = "scheduled" /\ r.due = "now" /\ r.sent # "fresh"
PublishDueVariant ==
    /\ lock = None /\ Due(row)
    /\ row.parent \in {"scheduled", "publishing"}
    /\ row' = [row EXCEPT !.sent = "fresh"]
    /\ Enqueue(Fresh("scheduled"))
    /\ UNCHANGED <<scene, lock, draft, pc, my, boxes, live>>

\* publish_due_posts, the post scheduled only at post level.
PublishDuePost ==
    /\ row.parent = "scheduled" /\ row.due = "now"
    /\ row.status \notin {"scheduled", "published"}
    /\ PostFree
    /\ row' = [row EXCEPT !.parent = "publishing"]
    /\ Enqueue(Fresh("post"))
    /\ UNCHANGED <<scene, lock, draft, pc, my, boxes, live>>

\* recover_unstarted_publishing_posts; its grace window is any time.
RecoverUnstarted ==
    /\ row.parent = "publishing" /\ row.status \in Unstarted
    /\ Enqueue(Fresh("post"))
    /\ UNCHANGED <<scene, row, lock, draft, pc, my, boxes, live>>

-----------------------------------------------------------------------------
(* publish_variant and the tasks that call it.                             *)

\* publish_variant_async looks under the lock, which it then gives up.
Skipped(t) ==
    \/ row.status \in {"published", "cancelled", "reconciling", "processing"}
    \/ t.kind = "scheduled" /\ ~(row.status = "scheduled" /\ row.due = "now")
Unapproved(t) == IF t.kind = "scheduled" THEN Refreshed([row EXCEPT !.status = "draft"])
                 ELSE [row EXCEPT !.status = "failed"]

TakeVariant(w, t) ==
    /\ pc[w] = "idle" /\ lock = None
    /\ t.kind # "post" /\ queue[t] > 0
    /\ queue' = [queue EXCEPT ![t] = @ - 1]
    /\ \/ /\ Skipped(t) \/ Blocked(row) \/ scene.unready
          /\ UNCHANGED <<row, pc, my>>
       \/ /\ ~Skipped(t) /\ scene.unready /\ PostFree
          /\ row' = Unapproved(t)
          /\ UNCHANGED <<pc, my>>
       \/ /\ ~Skipped(t) /\ ~Blocked(row)
          /\ Goto(w, "claim", [Nothing EXCEPT !.task = t])
          /\ UNCHANGED row
    /\ UNCHANGED <<scene, lock, draft, boxes, live, faults>>

\* publish_post_async, then orchestrate_post_publication up to the claim.
Passed(r) == r.status \in {"published", "cancelled"} \/ (r.status = "scheduled" /\ r.due = "later")
TakePost(w, t) ==
    /\ pc[w] = "idle" /\ PostFree
    /\ t.kind = "post" /\ queue[t] > 0
    /\ queue' = [queue EXCEPT ![t] = @ - 1]
    /\ \/ /\ row.parent \notin {"publishing", "scheduled"}
          /\ UNCHANGED <<row, pc, my>>
       \/ /\ row.parent \in {"publishing", "scheduled"} /\ scene.unready
          /\ row' = [row EXCEPT !.parent = "draft"]
          /\ UNCHANGED <<pc, my>>
       \/ /\ row.parent \in {"publishing", "scheduled"}
          /\ Goto(w, IF Passed(row) \/ Blocked(row) THEN "refresh" ELSE "claim",
                  [Nothing EXCEPT !.task = t])
          /\ UNCHANGED row
    /\ UNCHANGED <<scene, lock, draft, boxes, live, faults>>

\* The claim: PUBLISHING, in flight, with this attempt's token, committed
\* before the provider is called.
Claimed(r, w) == [r EXCEPT !.status = "publishing", !.age = "fresh", !.long = "none",
                           !.flag = TRUE, !.token = w]
Claim(w) ==
    /\ pc[w] = "claim" /\ PostFree
    /\ \/ /\ ~Blocked(row)
          /\ row' = Claimed(row, w)
          /\ Goto(w, "call", my[w])
       \/ /\ Blocked(row) \/ scene.unready
          /\ IF my[w].task.kind = "post" THEN Goto(w, "refresh", my[w]) ELSE Stop(w)
          /\ UNCHANGED row
    /\ UNCHANGED <<scene, lock, draft, queue, boxes, live, faults>>

\* _run_publish_post: a workflow publishes now, scheduled for later or not; the
\* claim is a savepoint when advance_run has a transaction open.
WorkflowClaim(w) ==
    /\ "workflow" \in scene.users
    /\ pc[w] = "idle" /\ PostFree
    /\ row.parent \in {"draft", "scheduled", "failed"}
    /\ row.status \notin {"published", "cancelled"} /\ ~Blocked(row)
    /\ IF scene.outerTx THEN lock' = w /\ draft' = Claimed(row, w) /\ UNCHANGED row
                  ELSE row' = Claimed(row, w) /\ UNCHANGED <<lock, draft>>
    /\ Goto(w, "call", Nothing)
    /\ UNCHANGED <<scene, queue, boxes, live, faults>>

Landed == IF live < 2 THEN live + 1 ELSE live

\* The Graph API call, with no lock: a post goes live, is refused for good or
\* for now, or its outcome is unknown; a video becomes a container.  It lasts
\* longer than a write.
Call(w) ==
    /\ pc[w] = "call"
    /\ scene.prompt => \A v \in Workers : pc[v] # "write"
    /\ \/ /\ ~row.video
          /\ \/ Goto(w, "read", [my[w] EXCEPT !.res = "ok"]) /\ live' = Landed
             \/ \E res \in {"refused", "busy"} :
                   Goto(w, "read", [my[w] EXCEPT !.res = res]) /\ UNCHANGED live
             \/ Goto(w, "read", [my[w] EXCEPT !.res = "unknown"]) /\ live' \in {live, Landed}
          /\ UNCHANGED boxes
       \/ /\ row.video
          /\ \/ \E b \in Boxes :
                /\ boxes[b] = "none" /\ \A c \in Boxes : c < b => boxes[c] # "none"
                /\ boxes' = [boxes EXCEPT ![b] = "working"]
                /\ Goto(w, "read", [my[w] EXCEPT !.res = "box", !.box = b])
             \/ /\ \E res \in {"refused", "busy", "unknown"} :
                      Goto(w, "read", [my[w] EXCEPT !.res = res])
                /\ UNCHANGED boxes
          /\ UNCHANGED live
    /\ UNCHANGED <<scene, row, lock, draft, queue, faults>>

\* refresh_from_db: an outcome of an attempt that no longer owns the row is
\* dropped ...
Retryable == {t \in Task : t.kind # "post" /\ t.left > 0}
Retried(w) == /\ my[w].task \in Retryable
              /\ queue' = More([my[w].task EXCEPT !.left = @ - 1])
Owns(w, r) == r.token = w /\ r.status = "publishing"
ReadBack(w) ==
    LET r == Seen(w)
    IN /\ pc[w] = "read"
       /\ \/ /\ Owns(w, r)
             /\ Goto(w, "write", [my[w] EXCEPT !.seen = r])
             /\ UNCHANGED queue
          \/ /\ ~Owns(w, r)
             /\ IF my[w].task # None /\ my[w].task.kind = "post" THEN Goto(w, "refresh", my[w]) ELSE Stop(w)
             /\ \/ UNCHANGED queue
                \/ r.status \notin {"published", "processing", "reconciling"} /\ Retried(w)
       /\ UNCHANGED <<scene, row, lock, draft, boxes, live, faults>>

\* ... and that of one which did is saved; the fields come from what was read.
OutcomeNoClock(r, res, b) ==
    [r EXCEPT !.flag = FALSE, !.token = None, !.box = b,
              !.status = CASE res = "box" -> "processing" [] res = "unknown" -> "reconciling"
                           [] OTHER -> "failed"]
Outcome(r, res, b) ==
    LET freed == [r EXCEPT !.flag = FALSE, !.token = None, !.long = "none"]
    IN CASE res = "ok"      -> [freed EXCEPT !.status = "published", !.claim = None,
                                             !.lapsed = FALSE, !.box = 0]
         [] res = "unknown" -> [freed EXCEPT !.status = "reconciling"]
         [] res = "box"     -> [freed EXCEPT !.status = "processing", !.long = "fresh", !.box = b]
         [] OTHER           -> [freed EXCEPT !.status = "failed"]
WriteBack(w) ==
    LET o == Outcome(my[w].seen, my[w].res, my[w].box)
        r == Seen(w)
    IN /\ pc[w] = "write"
       /\ Update(w, [o EXCEPT !.parent = r.parent, !.due = r.due, !.sent = r.sent, !.age = r.age])
       /\ Goto(w, "refresh", [my[w] EXCEPT !.seen = NewRow])
       /\ UNCHANGED <<scene, queue, boxes, live, faults>>

\* refresh_parent_post; the task ends, or is retried after a passing failure.
\* The transaction of a workflow commits.
RefreshParent(w) ==
    /\ pc[w] = "refresh" /\ (PostFree \/ lock = w)
    /\ row' = Refreshed(Seen(w))
    /\ lock' = None /\ draft' = NewRow
    /\ Stop(w)
    /\ \/ my[w].res = "busy" /\ Retried(w)
       \/ (my[w].res # "busy" \/ my[w].task \notin Retryable) /\ UNCHANGED queue
    /\ UNCHANGED <<scene, boxes, live, faults>>

GivenUp(r) == IF r.status \in {"published", "processing", "reconciling"} THEN r
              ELSE [r EXCEPT !.status = "failed"]

\* An exception of publish_variant that is not the provider's: the task is
\* retried, and after the last time the row is marked as failed.
Raise(w) ==
    /\ pc[w] \in {"claim", "read", "write", "refresh"}
    /\ my[w].task # None
    /\ PostFree /\ Fault("database")
    /\ \/ /\ my[w].task.left > 0
          /\ queue' = More([my[w].task EXCEPT !.left = @ - 1])
          /\ UNCHANGED row
       \/ /\ my[w].task.left = 0
          /\ row' = IF my[w].task.kind # "post"
                    THEN GivenUp(row)
                    ELSE IF row.status \in Unstarted
                         THEN [row EXCEPT !.parent = "failed"] ELSE Refreshed(row)
          /\ UNCHANGED queue
    /\ Stop(w)
    /\ UNCHANGED <<scene, lock, draft, boxes, live>>

-----------------------------------------------------------------------------
(* poll_ig_variant_containers.                                             *)

\* The poll is noted under the lock, then Instagram is asked.
PollStart(w) ==
    /\ row.video
    /\ pc[w] = "idle" /\ lock = None
    /\ row.status = "processing" /\ row.box # 0
    /\ Goto(w, "poll", [Nothing EXCEPT !.box = row.box])
    /\ UNCHANGED <<scene, row, lock, draft, queue, boxes, live, faults>>
Poll(w) ==
    LET said == boxes[my[w].box]
    IN /\ pc[w] = "poll"
       /\ Goto(w, CASE said = "finished" -> "boxclaim"
                     [] said = "dead"     -> "boxfail"
                     [] OTHER             -> "refresh", my[w])
       /\ UNCHANGED <<scene, row, lock, draft, queue, boxes, live, faults>>

\* _claim_publish.
BoxClaim(w) ==
    /\ pc[w] = "boxclaim" /\ lock = None
    /\ \/ /\ row.status = "processing" /\ row.claim = None
          /\ row' = [row EXCEPT !.claim = w, !.lapsed = FALSE]
          /\ Goto(w, "boxcall", my[w])
       \/ /\ row.status # "processing" \/ row.claim # None
          /\ Goto(w, "refresh", my[w])
          /\ UNCHANGED row
    /\ UNCHANGED <<scene, lock, draft, queue, boxes, live, faults>>

\* publish_container: every failure is an unknown outcome.
BoxCall(w) ==
    LET b == my[w].box
        lands == boxes[b] = "finished"
    IN /\ pc[w] = "boxcall"
       /\ \/ /\ lands
             /\ boxes' = [boxes EXCEPT ![b] = "live"] /\ live' = Landed
             /\ \E res \in {"ok", "unknown"} : Goto(w, "boxwrite", [my[w] EXCEPT !.res = res])
          \/ /\ Goto(w, "boxwrite", [my[w] EXCEPT !.res = "unknown"])
             /\ UNCHANGED <<boxes, live>>
       /\ UNCHANGED <<scene, row, lock, draft, queue, faults>>

\* _persist_publish_outcome: only while PROCESSING and, with a claim, its own.
Settled(r, status) ==
    [r EXCEPT !.status = status, !.long = "none", !.claim = None, !.lapsed = FALSE,
              !.box = IF status = "published" THEN 0 ELSE @,
              !.flag = IF status = "published" THEN FALSE ELSE @,
              !.token = IF status = "published" THEN None ELSE @]
Writable(r, token) == r.status = "processing" /\ (token = None \/ r.claim = token)
BoxWrite(w) ==
    /\ pc[w] = "boxwrite" /\ lock = None
    /\ row' = IF Writable(row, w)
              THEN Settled(row, IF my[w].res = "ok" THEN "published" ELSE "reconciling") ELSE row
    /\ Goto(w, "refresh", [my[w] EXCEPT !.res = "none"])
    /\ UNCHANGED <<scene, lock, draft, queue, boxes, live, faults>>
BoxFail(w) ==
    /\ pc[w] = "boxfail" /\ lock = None
    /\ row' = IF Writable(row, None) THEN Settled(row, "failed") ELSE row
    /\ Goto(w, "refresh", my[w])
    /\ UNCHANGED <<scene, lock, draft, queue, boxes, live, faults>>

-----------------------------------------------------------------------------
(* Recovery by beat tasks and by operators.                                *)

\* reconcile_stale_publishing_variants, all of it under the lock.
Stuck(r) == r.status = "publishing" /\ r.age \in {"stale", "none"}
ReconcileStale ==
    /\ lock = None /\ Stuck(row)
    /\ row' = [row EXCEPT !.status = "reconciling", !.flag = FALSE]
    /\ UNCHANGED <<scene, lock, draft, pc, my, queue, boxes, live, faults>>

\* escalate_exhausted_processing_variants: the claim keys stay.
EscalateExhausted ==
    /\ lock = None
    /\ row.status = "processing" /\ row.long = "old"
    /\ row' = [row EXCEPT !.status = "reconciling"]
    /\ UNCHANGED <<scene, lock, draft, pc, my, queue, boxes, live, faults>>

\* recover_abandoned_publish_claims for a container ...
RecoverContainer ==
    /\ row.video /\ PostFree
    /\ row.status = "processing" /\ row.claim # None /\ row.lapsed
    /\ row' = Refreshed([row EXCEPT !.status = "reconciling", !.long = "none",
                                    !.claim = None, !.lapsed = FALSE])
    /\ UNCHANGED <<scene, lock, draft, pc, my, queue, boxes, live, faults>>

\* ... and for a claim of publish_variant: chosen by its age, without a lock,
\* then looked at again under the lock, but not its age.
RecoverSelect(w) ==
    /\ pc[w] = "idle"
    /\ row.status = "publishing" /\ row.token # None /\ row.age \in {"lease", "stale"}
    /\ Goto(w, "recover", Nothing)
    /\ UNCHANGED <<scene, row, lock, draft, queue, boxes, live, faults>>
Abandoned(r) == r.status = "publishing" /\ r.token # None
RecoverWrite(w) ==
    /\ pc[w] = "recover" /\ PostFree
    /\ row' = IF Abandoned(row)
              THEN Refreshed([row EXCEPT !.status = "reconciling", !.flag = FALSE, !.token = None])
              ELSE row
    /\ Stop(w)
    /\ UNCHANGED <<scene, lock, draft, queue, boxes, live, faults>>

\* The operator has looked at the provider's page.
InFlight == \E w \in Workers : pc[w] \in {"call", "write", "poll", "boxclaim", "boxcall", "boxfail", "recover"}
ConfirmPublished ==
    /\ PostFree /\ row.status = "reconciling" /\ live > 0
    /\ ~(scene.prompt /\ InFlight)
    /\ row' = Refreshed([row EXCEPT !.status = "published", !.flag = FALSE])
    /\ UNCHANGED <<scene, lock, draft, pc, my, queue, boxes, live, faults>>
ReconcileRetry ==
    /\ PostFree /\ row.status = "reconciling" /\ live = 0
    /\ ~(scene.prompt /\ InFlight)
    /\ row' = Refreshed([row EXCEPT !.status = "failed", !.flag = FALSE])
    /\ UNCHANGED <<scene, lock, draft, pc, my, queue, boxes, live, faults>>

-----------------------------------------------------------------------------
(* Faults, Instagram and time.                                             *)

\* The worker dies: its task is lost, its transaction rolled back; a request it
\* had sent may still arrive.
Crash(w) ==
    /\ pc[w] # "idle" /\ Fault("crash")
    /\ Stop(w)
    /\ IF lock = w THEN lock' = None /\ draft' = NewRow ELSE UNCHANGED <<lock, draft>>
    /\ \/ UNCHANGED <<live, boxes>>
       \/ pc[w] = "call" /\ ~row.video /\ live' = Landed /\ UNCHANGED boxes
       \/ /\ pc[w] = "boxcall" /\ boxes[my[w].box] = "finished"
          /\ live' = Landed /\ boxes' = [boxes EXCEPT ![my[w].box] = "live"]
    /\ UNCHANGED <<scene, row, queue>>

\* Instagram encodes a video, gives up on it, or lets it expire; a poll of an
\* earlier container is over by then.
Encode(b) ==
    /\ scene.prompt => \A w \in Workers : pc[w] \in {"poll", "boxclaim", "boxfail"} => my[w].box = b
    /\ \/ boxes[b] = "working" /\ boxes' = [boxes EXCEPT ![b] = "finished"]
       \/ boxes[b] \in {"working", "finished"} /\ boxes' = [boxes EXCEPT ![b] = "dead"]
    /\ UNCHANGED <<scene, row, lock, draft, pc, my, queue, live, faults>>

\* Ages count only in the states that read them.
Attempting(w) == pc[w] \in {"call", "read", "write"}
Older(age) == CASE age = "fresh" -> "lease" [] age = "lease" -> "stale" [] OTHER -> age
Tick ==
    /\ lock = None
    /\ \/ row.due = "later" /\ row' = [row EXCEPT !.due = "now"]
       \/ /\ row.status = "scheduled" /\ row.sent = "fresh"
          /\ row' = [row EXCEPT !.sent = "stale"]
       \/ /\ row.status = "publishing" /\ row.age \in {"fresh", "lease"}
          /\ scene.prompt => \A w \in Workers : pc[w] # "recover" /\ ~(Attempting(w) /\ row.token = w)
          /\ row' = [row EXCEPT !.age = Older(@)]
       \/ /\ row.status = "processing"
          /\ \/ row.long = "fresh" /\ row' = [row EXCEPT !.long = "old"]
             \/ /\ row.claim # None /\ ~row.lapsed
                /\ scene.prompt => \A w \in Workers : ~(pc[w] \in {"boxcall", "boxwrite"} /\ row.claim = w)
                /\ row' = [row EXCEPT !.lapsed = TRUE]
    /\ UNCHANGED <<scene, lock, draft, pc, my, queue, boxes, live, faults>>

-----------------------------------------------------------------------------
Attempt(w) == Claim(w) \/ Call(w) \/ ReadBack(w) \/ WriteBack(w) \/ RefreshParent(w)
Polling(w) == Poll(w) \/ BoxClaim(w) \/ BoxCall(w) \/ BoxWrite(w) \/ BoxFail(w)
Work(w) == Attempt(w) \/ Polling(w) \/ RecoverWrite(w) \/ RetryEnqueue(w)
           \/ Cancel(w) \/ Reopen(w) \/ RetryPostRead(w) \/ RetryPostWrite(w)
Take(w) == \E t \in Task : TakeVariant(w, t) \/ TakePost(w, t)
User(w) == RetryClick(w) \/ LookAtPost(w) \/ WorkflowClaim(w)

Next ==
    \/ Compose \/ Reschedule
    \/ PublishDueVariant \/ PublishDuePost \/ RecoverUnstarted
    \/ ReconcileStale \/ EscalateExhausted \/ RecoverContainer
    \/ ConfirmPublished \/ ReconcileRetry
    \/ \E w \in Workers : Work(w) \/ Take(w) \/ User(w) \/ PollStart(w) \/ RecoverSelect(w)
                          \/ Raise(w) \/ Crash(w)
    \/ \E b \in Boxes : Encode(b)
    \/ Tick

Spec == Init /\ [][Next]_vars

\* Workers finish what they start and drain the queue; the beat tasks run
\* again and again; time passes.
FairSpec ==
    /\ Spec
    /\ \A w \in Workers : WF_vars(Work(w))
    /\ SF_vars(\E w \in Workers : Take(w))
    /\ WF_vars(PublishDueVariant) /\ WF_vars(PublishDuePost) /\ WF_vars(RecoverUnstarted)
    /\ WF_vars(ReconcileStale) /\ WF_vars(EscalateExhausted) /\ WF_vars(RecoverContainer)
    /\ SF_vars(\E w \in Workers : RecoverSelect(w))
    /\ WF_vars(Tick)

-----------------------------------------------------------------------------
(* Properties.                                                             *)

TypeOK ==
    /\ row \in Variant /\ draft \in Variant /\ lock \in Workers \cup {None}
    /\ pc \in [Workers -> {"idle", "enqueue", "cancel", "reopen", "retry_post", "schedule", "claim", "call", "read", "write", "refresh",
                           "poll", "boxclaim", "boxcall", "boxwrite", "boxfail", "recover"}]
    /\ my \in [Workers -> [task : Task \cup {None}, seen : Variant, box : 0..MaxBoxes,
                           res : {"none", "ok", "refused", "busy", "unknown", "box"}]]
    /\ queue \in [Task -> 0..MaxQueue]
    /\ boxes \in [Boxes -> {"none", "working", "finished", "dead", "live"}]
    /\ scene \in Scenes /\ live \in 0..2 /\ faults \in 0..MaxFaults

\* "Safe for concurrent calls": the channel goes live at most once, whatever
\* workers, crashes, retries and operators do.
PublishedOnce == live <= 1

\* "Every transition that changes a variant calls this [refresh_parent_post]":
\* when no worker is busy and no task waits, the post says what its channel does
\* (not so after reopen_post and approvals, README).
AtRest == (\A w \in Workers : pc[w] = "idle") /\ (\A t \in Task : queue[t] = 0)
ParentAgrees ==
    faults = 0 /\ scene.users \subseteq {"compose", "cancel"} /\ ~scene.unready
        /\ AtRest /\ row.status \in Ongoing \cup {"published", "failed"}
        => row.parent = Parent(row.status)

\* A channel does not stay PUBLISHING or PROCESSING: its attempt settles it or a
\* beat task gives it to an operator.
AttemptEnds == row.status \in {"publishing", "processing"} ~> row.status \notin {"publishing", "processing"}

\* A channel that is due leaves SCHEDULED, unless its post is marked as failed.
DueGoesOut == row.status = "scheduled" /\ row.due = "now"
                 ~> row.status # "scheduled" \/ row.due # "now" \/ row.parent = "failed"

\* A channel is not left behind: due, or in the middle of an attempt.
Settles == AttemptEnds /\ DueGoesOut

-----------------------------------------------------------------------------
(* What comments of the code say and the model refutes (README,           *)
(* "Disagreements").                                                       *)

\* "A channel cancelled or moved after dispatch is left alone": what a scheduled
\* dispatch claims is neither cancelled nor waiting for a later time.
LeftAlone == [][\A w \in Workers :
    pc[w] = "claim" /\ pc'[w] = "call" /\ my[w].task.kind = "scheduled"
       => row.status # "cancelled" /\ ~(row.status = "scheduled" /\ row.due = "later")]_vars

\* "Anything that has started publishing keeps its state" when a schedule changes.
StartedKeeps == [][row.status \in Ongoing => row'.status \notin Unstarted]_vars

\* "A recovered (RECONCILING) or superseded claim must not be overwritten by a
\* late worker."
RecoveredKept == [][\A w \in Workers : pc[w] = "write" /\ pc'[w] # "write"
                                          => row.status # "reconciling" \/ row' = row]_vars

\* "A live worker is never mistaken for an abandoned one": a claim that is
\* recovered is older than its lease.
LiveNotAbandoned == [][\A w \in Workers : pc[w] = "recover" /\ pc'[w] # "recover"
                                             => row.age # "fresh" \/ row' = row]_vars

\* "A stale worker cannot overwrite a later outcome": a poll fails the channel only
\* for the container the channel has now.
OldPollDropped == [][\A w \in Workers : pc[w] = "boxfail" /\ pc'[w] # "boxfail"
                                           => row.box = my[w].box \/ row' = row]_vars
=============================================================================
