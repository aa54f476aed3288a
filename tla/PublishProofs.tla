---------------------------- MODULE PublishProofs ----------------------------
(***************************************************************************)
(* Proofs about VariantPublish, for any workers, requests, tasks waiting,  *)
(* containers and faults: types, that a channel goes live at most once,    *)
(* and that a post at rest says what its channel does.                     *)
(***************************************************************************)
EXTENDS VariantPublish, TLAPS

Statuses == Schedulable \cup Ongoing \cup {"published", "cancelled"}
Places == {"idle", "enqueue", "cancel", "reopen", "retry_post", "schedule", "claim", "call", "read", "write", "refresh",
           "poll", "boxclaim", "boxcall", "boxwrite", "boxfail", "recover"}
Answers == {"none", "ok", "refused", "busy", "unknown", "box"}
Memory == [task : Task \cup {None}, seen : Variant, box : 0..MaxBoxes, res : Answers]

-----------------------------------------------------------------------------
(* What the helpers return.                                                *)

LEMMA NewRowTyped == NewRow \in Variant /\ Nothing \in Memory
BY PublishAssumption DEF NewRow, Nothing, Memory, Variant, Answers, Schedulable

LEMMA ParentTyped == ASSUME NEW r \in Variant PROVE Refreshed(r) \in Variant
BY DEF Refreshed, Parent, Variant, Schedulable, Ongoing, Unstarted

LEMMA ScheduledTyped == ASSUME NEW r \in Variant PROVE Scheduled(r) \in Variant
BY DEF Scheduled, Variant, Schedulable

LEMMA SavedTyped ==
    ASSUME NEW r \in Variant, NEW to \in {"draft", "scheduled", "publishing"}
    PROVE  Saved(r, to) \in Variant
<1> DEFINE v == IF r.status = "cancelled" THEN [r EXCEPT !.status = "draft"] ELSE r
<1>1. v \in Variant
  BY DEF Variant, Schedulable
<1> HIDE DEF v
<1> DEFINE p == [v EXCEPT !.parent = to]
<1>2. p \in Variant
  BY <1>1 DEF Variant
<1> HIDE DEF p
<1>3. [p EXCEPT !.status = "draft"] \in Variant
  BY <1>2 DEF Variant, Schedulable
<1>4. Scheduled(p) \in Variant
  BY <1>2, ScheduledTyped
<1> QED BY <1>2, <1>3, <1>4 DEF Saved, v, p

LEMMA ClaimedTyped == ASSUME NEW r \in Variant, NEW w \in Workers PROVE Claimed(r, w) \in Variant
BY DEF Claimed, Variant, Ongoing

LEMMA FieldTyped ==
    ASSUME NEW r \in Variant
    PROVE  /\ \A status \in Statuses : [r EXCEPT !.status = status] \in Variant
           /\ \A long \in {"none", "fresh", "old"} : [r EXCEPT !.long = long] \in Variant
           /\ \A box \in 0..MaxBoxes : [r EXCEPT !.box = box] \in Variant
           /\ [r EXCEPT !.flag = FALSE] \in Variant
           /\ [r EXCEPT !.token = None] \in Variant
           /\ [r EXCEPT !.claim = None] \in Variant
           /\ [r EXCEPT !.lapsed = FALSE] \in Variant
           /\ \A p \in {"draft", "scheduled", "publishing", "failed", "cancelled"} : [r EXCEPT !.parent = p] \in Variant
           /\ [r EXCEPT !.sent = "none"] \in Variant /\ [r EXCEPT !.due = "none"] \in Variant
           /\ \A q \in Variant : /\ [r EXCEPT !.parent = q.parent] \in Variant
                                  /\ [r EXCEPT !.due = q.due] \in Variant
                                  /\ [r EXCEPT !.sent = q.sent] \in Variant
                                  /\ [r EXCEPT !.age = q.age] \in Variant
<1>1. \A status \in Statuses : [r EXCEPT !.status = status] \in Variant
  BY DEF Variant, Statuses
<1>2. \A long \in {"none", "fresh", "old"} : [r EXCEPT !.long = long] \in Variant
  BY DEF Variant
<1>3. \A box \in 0..MaxBoxes : [r EXCEPT !.box = box] \in Variant
  BY DEF Variant
<1>4. [r EXCEPT !.flag = FALSE] \in Variant
  BY DEF Variant
<1>5. [r EXCEPT !.token = None] \in Variant /\ [r EXCEPT !.claim = None] \in Variant
  BY DEF Variant
<1>6. [r EXCEPT !.lapsed = FALSE] \in Variant
  BY DEF Variant
<1>7. \A p \in {"draft", "scheduled", "publishing", "failed", "cancelled"} : [r EXCEPT !.parent = p] \in Variant
  BY DEF Variant
<1>8. [r EXCEPT !.sent = "none"] \in Variant /\ [r EXCEPT !.due = "none"] \in Variant
  BY DEF Variant
<1>9. ASSUME NEW q \in Variant
      PROVE  /\ [r EXCEPT !.parent = q.parent] \in Variant /\ [r EXCEPT !.due = q.due] \in Variant
             /\ [r EXCEPT !.sent = q.sent] \in Variant /\ [r EXCEPT !.age = q.age] \in Variant
  <2>1. [r EXCEPT !.parent = q.parent] \in Variant /\ [r EXCEPT !.due = q.due] \in Variant
    BY DEF Variant
  <2>2. [r EXCEPT !.sent = q.sent] \in Variant /\ [r EXCEPT !.age = q.age] \in Variant
    BY DEF Variant
  <2> QED BY <2>1, <2>2
<1> QED BY <1>1, <1>2, <1>3, <1>4, <1>5, <1>6, <1>7, <1>8, <1>9

LEMMA OutcomeTyped ==
    ASSUME NEW r \in Variant, NEW res \in Answers, NEW b \in 0..MaxBoxes
    PROVE  Outcome(r, res, b) \in Variant
<1> DEFINE f == [[[r EXCEPT !.flag = FALSE] EXCEPT !.token = None] EXCEPT !.long = "none"]
<1>1. f \in Variant
  BY FieldTyped
<1> HIDE DEF f
<1>2. 0 \in 0..MaxBoxes
  BY PublishAssumption
<1>3. [[[[f EXCEPT !.status = "published"] EXCEPT !.claim = None] EXCEPT !.lapsed = FALSE] EXCEPT !.box = 0] \in Variant
  BY <1>1, <1>2, FieldTyped DEF Statuses
<1>4. [f EXCEPT !.status = "reconciling"] \in Variant /\ [f EXCEPT !.status = "failed"] \in Variant
  BY <1>1, FieldTyped DEF Statuses, Ongoing, Schedulable
<1>5. [[[f EXCEPT !.status = "processing"] EXCEPT !.long = "fresh"] EXCEPT !.box = b] \in Variant
  BY <1>1, FieldTyped DEF Statuses, Ongoing
<1> QED BY <1>3, <1>4, <1>5 DEF Outcome, f, Answers

LEMMA QueueTyped ==
    ASSUME queue \in [Task -> 0..MaxQueue], NEW t \in Task
    PROVE  /\ More(t) \in [Task -> 0..MaxQueue]
           /\ queue[t] > 0 => [queue EXCEPT ![t] = @ - 1] \in [Task -> 0..MaxQueue]
BY PublishAssumption DEF More

\* The steps a worker takes between its places, and what the broker says.
LEMMA GotoTyped ==
    ASSUME TypeOK, NEW w \in Workers, NEW at \in Places, NEW mem \in Memory, Goto(w, at, mem)
    PROVE  pc' \in [Workers -> Places] /\ my' \in [Workers -> Memory]
BY DEF TypeOK, Goto, Places, Memory, Answers

LEMMA StopTyped ==
    ASSUME TypeOK, NEW w \in Workers, Stop(w)
    PROVE  pc' \in [Workers -> Places] /\ my' \in [Workers -> Memory]
BY NewRowTyped, GotoTyped DEF Stop, Places

LEMMA FaultTyped == ASSUME TypeOK, NEW k, Fault(k) PROVE faults' \in 0..MaxFaults
BY PublishAssumption DEF TypeOK, Fault

LEMMA EnqueueTyped ==
    ASSUME TypeOK, NEW t \in Task, Enqueue(t)
    PROVE  queue' \in [Task -> 0..MaxQueue] /\ faults' \in 0..MaxFaults
BY QueueTyped, FaultTyped DEF TypeOK, Enqueue

LEMMA FreshTyped == ASSUME TypeOK, NEW k \in {"scheduled", "retry", "post"} PROVE Fresh(k) \in Task
BY PublishAssumption DEF TypeOK, Fresh, Task, Scene

LEMMA UpdateTyped ==
    ASSUME TypeOK, NEW w \in Workers, NEW r \in Variant, Update(w, r)
    PROVE  row' \in Variant /\ draft' \in Variant /\ lock' \in Workers \cup {None}
BY DEF TypeOK, Update

LEMMA SettledTyped ==
    ASSUME NEW r \in Variant, NEW status \in {"published", "reconciling", "failed"}
    PROVE  Settled(r, status) \in Variant
<1> DEFINE s == [[[[r EXCEPT !.status = status] EXCEPT !.long = "none"] EXCEPT !.claim = None] EXCEPT !.lapsed = FALSE]
<1>1. s \in Variant
  BY FieldTyped DEF Statuses, Ongoing, Schedulable
<1> HIDE DEF s
<1>2. [[[s EXCEPT !.box = 0] EXCEPT !.flag = FALSE] EXCEPT !.token = None] \in Variant
  <2>1. 0 \in 0..MaxBoxes
    BY PublishAssumption
  <2> QED BY <1>1, <2>1, FieldTyped
<1>3. CASE status = "published"
  <2>1. Settled(r, status) = [[[s EXCEPT !.box = 0] EXCEPT !.flag = FALSE] EXCEPT !.token = None]
    BY <1>3 DEF Settled, s, Variant
  <2> QED BY <1>2, <2>1
<1>4. CASE status # "published"
  <2>1. Settled(r, status) = s
    BY <1>4 DEF Settled, s, Variant
  <2> QED BY <1>1, <2>1
<1> QED BY <1>3, <1>4

-----------------------------------------------------------------------------
(* Types.                                                                  *)

\* TypeOK, with the names of its sets.
LEMMA TypedAs ==
    TypeOK = ( /\ row \in Variant /\ draft \in Variant /\ lock \in Workers \cup {None}
               /\ pc \in [Workers -> Places] /\ my \in [Workers -> Memory]
               /\ queue \in [Task -> 0..MaxQueue]
               /\ boxes \in [Boxes -> {"none", "working", "finished", "dead", "live"}]
               /\ scene \in Scenes /\ live \in 0..2 /\ faults \in 0..MaxFaults )
BY DEF TypeOK, Places, Memory, Answers

LEMMA InitTyped == Init => TypeOK
<1> SUFFICES ASSUME Init PROVE TypeOK
  OBVIOUS
<1>1. scene \in Scene
  BY PublishAssumption DEF Init
<1>2. row \in Variant
  BY <1>1, NewRowTyped DEF Init, Variant, Scene
<1> QED BY <1>2, NewRowTyped, PublishAssumption, TypedAs DEF Init, Places

LEMMA SeenTyped == ASSUME TypeOK, NEW w \in Workers PROVE Seen(w) \in Variant
BY DEF TypeOK, Seen

LEMMA LandedTyped == ASSUME TypeOK PROVE Landed \in 0..2
BY DEF TypeOK, Landed

\* The steps that only write the row, and the queue.
LEMMA RowStepTyped ==
    ASSUME TypeOK, row' \in Variant,
           UNCHANGED <<scene, lock, draft, pc, my, boxes, live>>,
           queue' \in [Task -> 0..MaxQueue], faults' \in 0..MaxFaults
    PROVE  TypeOK'
BY TypedAs DEF TypeOK

LEMMA UsersTyped ==
    ASSUME TypeOK, Compose \/ Reschedule \/ PublishDueVariant \/ PublishDuePost \/ RecoverUnstarted
    PROVE  TypeOK'
<1>0. /\ row \in Variant /\ queue \in [Task -> 0..MaxQueue] /\ faults \in 0..MaxFaults
  BY TypedAs
<1>1. CASE Compose
  <2>1. \A to \in {"draft", "scheduled", "publishing"} : Saved(row, to) \in Variant
    BY <1>0, SavedTyped
  <2>2. \A r \in Variant : \A p \in {"draft", "publishing"} : [r EXCEPT !.parent = p] \in Variant
    BY DEF Variant
  <2>3. row' \in Variant
    <3>1. CASE row' = [Saved(row, "publishing") EXCEPT !.parent = IF Lost THEN "draft" ELSE @]
      <4>1. Saved(row, "publishing").parent \in {"draft", "publishing"}
        BY <1>0 DEF Saved, Scheduled, Variant
      <4> QED BY <2>1, <2>2, <3>1, <4>1
    <3> QED BY <1>1, <2>1, <3>1 DEF Compose
  <2>4. queue' \in [Task -> 0..MaxQueue] /\ faults' \in 0..MaxFaults
    BY <1>0, <1>1, FreshTyped, EnqueueTyped DEF Compose
  <2> QED BY <1>1, <2>3, <2>4, RowStepTyped DEF Compose
<1>2. CASE Reschedule
  <2>1. row' \in Variant
    BY <1>0, <1>2, ScheduledTyped, ParentTyped DEF Reschedule
  <2> QED BY <1>0, <1>2, <2>1, RowStepTyped DEF Reschedule
<1>3. CASE PublishDueVariant \/ PublishDuePost \/ RecoverUnstarted
  <2>1. row' \in Variant
    BY <1>0, <1>3 DEF PublishDueVariant, PublishDuePost, RecoverUnstarted, Variant
  <2>2. queue' \in [Task -> 0..MaxQueue] /\ faults' \in 0..MaxFaults
    BY <1>3, FreshTyped, EnqueueTyped DEF PublishDueVariant, PublishDuePost, RecoverUnstarted
  <2> QED BY <1>3, <2>1, <2>2, RowStepTyped DEF PublishDueVariant, PublishDuePost, RecoverUnstarted
<1> QED BY <1>1, <1>2, <1>3

LEMMA RecoveryTyped ==
    ASSUME TypeOK, ReconcileStale \/ EscalateExhausted \/ RecoverContainer \/ ConfirmPublished \/ ReconcileRetry \/ Tick
    PROVE  TypeOK'
<1>0. /\ row \in Variant /\ queue \in [Task -> 0..MaxQueue] /\ faults \in 0..MaxFaults
  BY TypedAs
<1>1. ASSUME ReconcileStale \/ EscalateExhausted PROVE row' \in Variant
  <2>1. [[row EXCEPT !.status = "reconciling"] EXCEPT !.flag = FALSE] \in Variant
    BY <1>0, FieldTyped DEF Statuses, Ongoing
  <2>2. [row EXCEPT !.status = "reconciling"] \in Variant
    BY <1>0, FieldTyped DEF Statuses, Ongoing
  <2> QED BY <1>1, <2>1, <2>2 DEF ReconcileStale, EscalateExhausted
<1>2. ASSUME RecoverContainer PROVE row' \in Variant
  <2>1. [[[[row EXCEPT !.status = "reconciling"] EXCEPT !.long = "none"] EXCEPT !.claim = None] EXCEPT !.lapsed = FALSE] \in Variant
    BY <1>0, FieldTyped DEF Statuses, Ongoing
  <2> QED BY <1>2, <2>1, ParentTyped DEF RecoverContainer
<1>3. ASSUME ConfirmPublished \/ ReconcileRetry PROVE row' \in Variant
  <2>1. \A s \in {"published", "failed"} : [[row EXCEPT !.status = s] EXCEPT !.flag = FALSE] \in Variant
    BY <1>0, FieldTyped DEF Statuses, Schedulable
  <2> QED BY <1>3, <2>1, ParentTyped DEF ConfirmPublished, ReconcileRetry
<1>4. ASSUME Tick PROVE row' \in Variant
  <2>1. [row EXCEPT !.due = "now"] \in Variant /\ [row EXCEPT !.sent = "stale"] \in Variant
    BY <1>0 DEF Variant
  <2>2. [row EXCEPT !.age = Older(@)] \in Variant
    BY <1>0 DEF Variant, Older
  <2>3. [row EXCEPT !.long = "old"] \in Variant /\ [row EXCEPT !.lapsed = TRUE] \in Variant
    BY <1>0 DEF Variant
  <2> QED BY <1>4, <2>1, <2>2, <2>3 DEF Tick
<1>5. UNCHANGED <<scene, lock, draft, pc, my, queue, boxes, live, faults>>
  BY DEF ReconcileStale, EscalateExhausted, RecoverContainer, ConfirmPublished, ReconcileRetry, Tick
<1> QED BY <1>0, <1>1, <1>2, <1>3, <1>4, <1>5, RowStepTyped

\* The steps of one worker.
LEMMA WorkerStepTyped ==
    ASSUME TypeOK, row' \in Variant, draft' \in Variant, lock' \in Workers \cup {None},
           pc' \in [Workers -> Places], my' \in [Workers -> Memory],
           queue' \in [Task -> 0..MaxQueue], faults' \in 0..MaxFaults, live' \in 0..2,
           boxes' \in [Boxes -> {"none", "working", "finished", "dead", "live"}], scene' = scene
    PROVE  TypeOK'
BY DEF TypeOK, Places, Memory, Answers

LEMMA PagesTyped ==
    ASSUME TypeOK, NEW w \in Workers,
           \/ LookAtPost(w) \/ Cancel(w) \/ Reopen(w) \/ RetryClick(w) \/ RetryEnqueue(w)
           \/ RetryPostRead(w) \/ RetryPostWrite(w)
    PROVE  TypeOK'
<1>0. /\ row \in Variant /\ draft \in Variant /\ lock \in Workers \cup {None}
      /\ queue \in [Task -> 0..MaxQueue] /\ faults \in 0..MaxFaults /\ live \in 0..2
      /\ boxes \in [Boxes -> {"none", "working", "finished", "dead", "live"}]
      /\ Nothing \in Memory
  BY TypedAs, NewRowTyped
<1>1. CASE LookAtPost(w)
  <2>1. pc' \in [Workers -> Places] /\ my' \in [Workers -> Memory]
    BY <1>0, <1>1, GotoTyped DEF LookAtPost, Look, Places
  <2>2. UNCHANGED <<scene, row, lock, draft, queue, boxes, live, faults>>
    BY <1>1 DEF LookAtPost, Look
  <2> QED BY <1>0, <2>1, <2>2, WorkerStepTyped
<1>2. CASE Cancel(w) \/ Reopen(w)
  <2>1. /\ [[[row EXCEPT !.status = "cancelled"] EXCEPT !.parent = "cancelled"] EXCEPT !.sent = "none"] \in Variant
        /\ [row EXCEPT !.parent = "draft"] \in Variant
        /\ [[[row EXCEPT !.status = "draft"] EXCEPT !.parent = "draft"] EXCEPT !.due = "none"] \in Variant
    BY <1>0, FieldTyped DEF Statuses, Schedulable
  <2>2. row' \in Variant
    BY <1>0, <1>2, <2>1, ParentTyped DEF Cancel, Reopen
  <2>3. pc' \in [Workers -> Places] /\ my' \in [Workers -> Memory]
    BY <1>2, StopTyped DEF Cancel, Reopen
  <2>4. UNCHANGED <<scene, lock, draft, queue, boxes, live, faults>>
    BY <1>2 DEF Cancel, Reopen
  <2> QED BY <1>0, <2>2, <2>3, <2>4, WorkerStepTyped
<1>3. CASE RetryClick(w)
  <2>1. row' \in Variant
    BY <1>0, <1>3 DEF RetryClick, Variant, Ongoing
  <2>2. pc' \in [Workers -> Places] /\ my' \in [Workers -> Memory]
    BY <1>0, <1>3, GotoTyped DEF RetryClick, Places
  <2>3. UNCHANGED <<scene, lock, draft, queue, boxes, live, faults>>
    BY <1>3 DEF RetryClick
  <2> QED BY <1>0, <2>1, <2>2, <2>3, WorkerStepTyped
<1>4. CASE RetryEnqueue(w)
  <2>1. [row EXCEPT !.status = "failed"] \in Variant
    BY <1>0, FieldTyped DEF Statuses, Schedulable
  <2>2. row' \in Variant /\ draft' \in Variant /\ lock' \in Workers \cup {None}
    BY <1>0, <1>4, <2>1, UpdateTyped DEF RetryEnqueue
  <2>3. queue' \in [Task -> 0..MaxQueue] /\ faults' \in 0..MaxFaults
    BY <1>4, FreshTyped, EnqueueTyped DEF RetryEnqueue
  <2>4. pc' \in [Workers -> Places] /\ my' \in [Workers -> Memory]
    BY <1>4, StopTyped DEF RetryEnqueue
  <2>5. UNCHANGED <<scene, boxes, live>>
    BY <1>4 DEF RetryEnqueue
  <2> QED BY <1>0, <2>2, <2>3, <2>4, <2>5, WorkerStepTyped
<1>5. CASE RetryPostRead(w)
  <2>1. [Nothing EXCEPT !.seen = row] \in Memory
    BY <1>0 DEF Memory
  <2>2. pc' \in [Workers -> Places] /\ my' \in [Workers -> Memory]
    BY <1>5, <2>1, GotoTyped DEF RetryPostRead, Places
  <2>3. UNCHANGED <<scene, row, lock, draft, queue, boxes, live, faults>>
    BY <1>5 DEF RetryPostRead
  <2> QED BY <1>0, <2>2, <2>3, WorkerStepTyped
<1>6. CASE RetryPostWrite(w)
  <2>1. \A r \in Variant : [r EXCEPT !.parent = "scheduled"] \in Variant
    BY DEF Variant
  <2>2. row' \in Variant
    BY <1>0, <1>6, <2>1, ScheduledTyped DEF RetryPostWrite
  <2>3. pc' \in [Workers -> Places] /\ my' \in [Workers -> Memory]
    BY <1>6, StopTyped DEF RetryPostWrite
  <2>4. UNCHANGED <<scene, lock, draft, queue, boxes, live, faults>>
    BY <1>6 DEF RetryPostWrite
  <2> QED BY <1>0, <2>2, <2>3, <2>4, WorkerStepTyped
<1> QED BY <1>1, <1>2, <1>3, <1>4, <1>5, <1>6

LEMMA TakeTyped ==
    ASSUME TypeOK, NEW w \in Workers, NEW t \in Task, TakeVariant(w, t) \/ TakePost(w, t)
    PROVE  TypeOK'
<1>0. /\ row \in Variant /\ draft \in Variant /\ lock \in Workers \cup {None}
      /\ queue \in [Task -> 0..MaxQueue] /\ faults \in 0..MaxFaults /\ live \in 0..2
      /\ boxes \in [Boxes -> {"none", "working", "finished", "dead", "live"}]
      /\ pc \in [Workers -> Places] /\ my \in [Workers -> Memory]
  BY TypedAs
<1>1. queue' \in [Task -> 0..MaxQueue]
  BY <1>0, QueueTyped DEF TakeVariant, TakePost
<1>2. [Nothing EXCEPT !.task = t] \in Memory
  BY NewRowTyped DEF Memory
<1>3. pc' \in [Workers -> Places] /\ my' \in [Workers -> Memory]
  <2>1. CASE UNCHANGED <<pc, my>>
    BY <1>0, <2>1
  <2>2. CASE \E at \in {"claim", "refresh"} : Goto(w, at, [Nothing EXCEPT !.task = t])
    BY <1>2, <2>2, GotoTyped DEF Places
  <2> QED BY <2>1, <2>2 DEF TakeVariant, TakePost
<1>4. row' \in Variant
  <2>1. [row EXCEPT !.status = "draft"] \in Variant /\ [row EXCEPT !.status = "failed"] \in Variant
    BY <1>0, FieldTyped DEF Statuses, Schedulable
  <2>2. Unapproved(t) \in Variant
    BY <2>1, ParentTyped DEF Unapproved
  <2>3. [row EXCEPT !.parent = "draft"] \in Variant
    BY <1>0 DEF Variant
  <2> QED BY <1>0, <2>2, <2>3 DEF TakeVariant, TakePost
<1>5. UNCHANGED <<scene, lock, draft, boxes, live, faults>>
  BY DEF TakeVariant, TakePost
<1> QED BY <1>0, <1>1, <1>3, <1>4, <1>5, WorkerStepTyped

LEMMA AttemptTyped ==
    ASSUME TypeOK, NEW w \in Workers, Claim(w) \/ WorkflowClaim(w) \/ Call(w) \/ ReadBack(w) \/ WriteBack(w) \/ RefreshParent(w)
    PROVE  TypeOK'
<1>0. /\ row \in Variant /\ draft \in Variant /\ lock \in Workers \cup {None}
      /\ queue \in [Task -> 0..MaxQueue] /\ faults \in 0..MaxFaults /\ live \in 0..2
      /\ boxes \in [Boxes -> {"none", "working", "finished", "dead", "live"}]
      /\ pc \in [Workers -> Places] /\ my \in [Workers -> Memory]
      /\ my[w] \in Memory /\ Nothing \in Memory /\ Seen(w) \in Variant
  BY TypedAs, NewRowTyped, SeenTyped
<1>1. /\ \A res \in Answers : [my[w] EXCEPT !.res = res] \in Memory
      /\ \A r \in Variant : [my[w] EXCEPT !.seen = r] \in Memory
      /\ \A b \in Boxes : [[my[w] EXCEPT !.res = "box"] EXCEPT !.box = b] \in Memory
  <2>1. \A m \in Memory : \A res \in Answers : [m EXCEPT !.res = res] \in Memory
    BY DEF Memory
  <2>2. \A m \in Memory : \A r \in Variant : [m EXCEPT !.seen = r] \in Memory
    BY DEF Memory
  <2>3. \A m \in Memory : \A b \in Boxes : [m EXCEPT !.box = b] \in Memory
    BY PublishAssumption DEF Memory, Boxes
  <2> QED BY <1>0, <2>1, <2>2, <2>3 DEF Answers
<1>2. CASE Claim(w)
  <2>1. row' \in Variant
    BY <1>0, <1>2, ClaimedTyped DEF Claim
  <2>2. pc' \in [Workers -> Places] /\ my' \in [Workers -> Memory]
    <3>1. CASE \E at \in {"call", "refresh"} : Goto(w, at, my[w])
      BY <1>0, <3>1, GotoTyped DEF Places
    <3>2. CASE Stop(w)
      BY <3>2, StopTyped
    <3> QED BY <1>2, <3>1, <3>2 DEF Claim
  <2>3. UNCHANGED <<scene, lock, draft, queue, boxes, live, faults>>
    BY <1>2 DEF Claim
  <2> QED BY <1>0, <2>1, <2>2, <2>3, WorkerStepTyped
<1>3. CASE WorkflowClaim(w)
  <2>1. row' \in Variant /\ draft' \in Variant /\ lock' \in Workers \cup {None}
    BY <1>0, <1>3, ClaimedTyped DEF WorkflowClaim
  <2>2. pc' \in [Workers -> Places] /\ my' \in [Workers -> Memory]
    BY <1>0, <1>3, GotoTyped DEF WorkflowClaim, Places
  <2>3. UNCHANGED <<scene, queue, boxes, live, faults>>
    BY <1>3 DEF WorkflowClaim
  <2> QED BY <1>0, <2>1, <2>2, <2>3, WorkerStepTyped
<1>4. CASE Call(w)
  <2>1. pc' \in [Workers -> Places] /\ my' \in [Workers -> Memory]
    <3>1. CASE \E res \in Answers : Goto(w, "read", [my[w] EXCEPT !.res = res])
      BY <1>1, <3>1, GotoTyped DEF Places
    <3>2. CASE \E b \in Boxes : Goto(w, "read", [my[w] EXCEPT !.res = "box", !.box = b])
      BY <1>1, <3>2, GotoTyped DEF Places
    <3> QED BY <1>4, <3>1, <3>2 DEF Call, Answers
  <2>2. live' \in 0..2
    BY <1>0, <1>4, LandedTyped DEF Call
  <2>3. boxes' \in [Boxes -> {"none", "working", "finished", "dead", "live"}]
    BY <1>0, <1>4 DEF Call
  <2>4. UNCHANGED <<scene, row, lock, draft, queue, faults>>
    BY <1>4 DEF Call
  <2> QED BY <1>0, <2>1, <2>2, <2>3, <2>4, WorkerStepTyped
<1>5. ASSUME Retried(w) PROVE queue' \in [Task -> 0..MaxQueue]
  <2>1. [my[w].task EXCEPT !.left = @ - 1] \in Task
    BY <1>5, PublishAssumption DEF Retried, Retryable, Task
  <2> QED BY <1>0, <1>5, <2>1, QueueTyped DEF Retried
<1>6. CASE ReadBack(w)
  <2>1. pc' \in [Workers -> Places] /\ my' \in [Workers -> Memory]
    <3>1. CASE Goto(w, "write", [my[w] EXCEPT !.seen = Seen(w)])
      BY <1>0, <1>1, <3>1, GotoTyped DEF Places
    <3>2. CASE Goto(w, "refresh", my[w])
      BY <1>0, <3>2, GotoTyped DEF Places
    <3>3. CASE Stop(w)
      BY <3>3, StopTyped
    <3> QED BY <1>6, <3>1, <3>2, <3>3 DEF ReadBack
  <2>2. queue' \in [Task -> 0..MaxQueue]
    BY <1>0, <1>5, <1>6 DEF ReadBack
  <2>3. UNCHANGED <<scene, row, lock, draft, boxes, live, faults>>
    BY <1>6 DEF ReadBack
  <2> QED BY <1>0, <2>1, <2>2, <2>3, WorkerStepTyped
<1>7. CASE WriteBack(w)
  <2>1. /\ my[w].seen \in Variant /\ my[w].res \in Answers /\ my[w].box \in 0..MaxBoxes
    BY <1>0 DEF Memory
  <2>2. PICK o \in Variant : o = Outcome(my[w].seen, my[w].res, my[w].box)
    BY <2>1, OutcomeTyped
  <2>3. PICK r \in Variant : r = Seen(w)
    BY <1>0
  <2>4. [[[[o EXCEPT !.parent = r.parent] EXCEPT !.due = r.due] EXCEPT !.sent = r.sent] EXCEPT !.age = r.age] \in Variant
    BY FieldTyped
  <2>5. row' \in Variant /\ draft' \in Variant /\ lock' \in Workers \cup {None}
    BY <1>7, <2>2, <2>3, <2>4, UpdateTyped DEF WriteBack
  <2>6. pc' \in [Workers -> Places] /\ my' \in [Workers -> Memory]
    BY <1>1, <1>7, NewRowTyped, GotoTyped DEF WriteBack, Places
  <2>7. UNCHANGED <<scene, queue, boxes, live, faults>>
    BY <1>7 DEF WriteBack
  <2> QED BY <1>0, <2>5, <2>6, <2>7, WorkerStepTyped
<1>8. CASE RefreshParent(w)
  <2>1. row' \in Variant /\ draft' \in Variant /\ lock' \in Workers \cup {None}
    BY <1>0, <1>8, ParentTyped, NewRowTyped DEF RefreshParent
  <2>2. pc' \in [Workers -> Places] /\ my' \in [Workers -> Memory]
    BY <1>8, StopTyped DEF RefreshParent
  <2>3. queue' \in [Task -> 0..MaxQueue]
    BY <1>0, <1>5, <1>8 DEF RefreshParent
  <2>4. UNCHANGED <<scene, boxes, live, faults>>
    BY <1>8 DEF RefreshParent
  <2> QED BY <1>0, <2>1, <2>2, <2>3, <2>4, WorkerStepTyped
<1> QED BY <1>2, <1>3, <1>4, <1>6, <1>7, <1>8

LEMMA PollTyped ==
    ASSUME TypeOK, NEW w \in Workers,
           \/ PollStart(w) \/ Poll(w) \/ BoxClaim(w) \/ BoxCall(w) \/ BoxWrite(w) \/ BoxFail(w)
           \/ RecoverSelect(w) \/ RecoverWrite(w)
    PROVE  TypeOK'
<1>0. /\ row \in Variant /\ draft \in Variant /\ lock \in Workers \cup {None}
      /\ queue \in [Task -> 0..MaxQueue] /\ faults \in 0..MaxFaults /\ live \in 0..2
      /\ boxes \in [Boxes -> {"none", "working", "finished", "dead", "live"}]
      /\ pc \in [Workers -> Places] /\ my \in [Workers -> Memory]
      /\ my[w] \in Memory /\ Nothing \in Memory
  BY TypedAs, NewRowTyped
<1>1. /\ \A res \in Answers : [my[w] EXCEPT !.res = res] \in Memory
      /\ [Nothing EXCEPT !.box = row.box] \in Memory
  BY <1>0 DEF Memory, Variant
<1>2. pc' \in [Workers -> Places] /\ my' \in [Workers -> Memory]
  <2>1. CASE \E at \in Places : Goto(w, at, my[w])
    BY <1>0, <2>1, GotoTyped
  <2>2. CASE \E at \in Places, res \in Answers : Goto(w, at, [my[w] EXCEPT !.res = res])
    BY <1>1, <2>2, GotoTyped
  <2>3. CASE Goto(w, "poll", [Nothing EXCEPT !.box = row.box]) \/ Goto(w, "recover", Nothing)
    BY <1>0, <1>1, <2>3, GotoTyped DEF Places
  <2>4. CASE Stop(w)
    BY <2>4, StopTyped
  <2>5. {"refresh", "boxclaim", "boxcall", "boxwrite", "boxfail"} \subseteq Places /\ {"ok", "unknown", "none"} \subseteq Answers
    BY DEF Places, Answers
  <2>6. CASE PollStart(w) \/ RecoverSelect(w) \/ RecoverWrite(w)
    BY <2>3, <2>4, <2>6 DEF PollStart, RecoverSelect, RecoverWrite
  <2>7. CASE Poll(w) \/ BoxClaim(w) \/ BoxFail(w)
    BY <2>1, <2>5, <2>7 DEF Poll, BoxClaim, BoxFail
  <2>8. CASE BoxCall(w) \/ BoxWrite(w)
    BY <2>2, <2>5, <2>8 DEF BoxCall, BoxWrite
  <2> QED BY <2>6, <2>7, <2>8
<1>3. row' \in Variant
  <2>1. CASE BoxClaim(w)
    <3>1. [row EXCEPT !.claim = w] \in Variant
      BY <1>0 DEF Variant
    <3>2. [[row EXCEPT !.claim = w] EXCEPT !.lapsed = FALSE] \in Variant
      BY <3>1, FieldTyped
    <3> QED BY <1>0, <2>1, <3>2 DEF BoxClaim
  <2>2. CASE BoxWrite(w) \/ BoxFail(w)
    BY <1>0, <2>2, SettledTyped DEF BoxWrite, BoxFail
  <2>3. CASE RecoverWrite(w)
    <3>1. [[[row EXCEPT !.status = "reconciling"] EXCEPT !.flag = FALSE] EXCEPT !.token = None] \in Variant
      BY <1>0, FieldTyped DEF Statuses, Ongoing
    <3> QED BY <1>0, <2>3, <3>1, ParentTyped DEF RecoverWrite
  <2>4. CASE row' = row
    BY <1>0, <2>4
  <2> QED BY <2>1, <2>2, <2>3, <2>4 DEF PollStart, Poll, BoxCall, RecoverSelect
<1>4. live' \in 0..2 /\ boxes' \in [Boxes -> {"none", "working", "finished", "dead", "live"}]
  BY <1>0, LandedTyped DEF PollStart, Poll, BoxClaim, BoxCall, BoxWrite, BoxFail, RecoverSelect, RecoverWrite
<1>5. UNCHANGED <<scene, lock, draft, queue, faults>>
  BY DEF PollStart, Poll, BoxClaim, BoxCall, BoxWrite, BoxFail, RecoverSelect, RecoverWrite
<1> QED BY <1>0, <1>2, <1>3, <1>4, <1>5, WorkerStepTyped

LEMMA FaultsTyped ==
    ASSUME TypeOK, NEW w \in Workers, Raise(w) \/ Crash(w)
    PROVE  TypeOK'
<1>0. /\ row \in Variant /\ draft \in Variant /\ lock \in Workers \cup {None}
      /\ queue \in [Task -> 0..MaxQueue] /\ faults \in 0..MaxFaults /\ live \in 0..2
      /\ boxes \in [Boxes -> {"none", "working", "finished", "dead", "live"}]
      /\ my[w] \in Memory /\ NewRow \in Variant
  BY TypedAs, NewRowTyped
<1>1. CASE Raise(w)
  <2>1. pc' \in [Workers -> Places] /\ my' \in [Workers -> Memory]
    BY <1>1, StopTyped DEF Raise
  <2>2. faults' \in 0..MaxFaults
    BY <1>1, FaultTyped DEF Raise
  <2>3. queue' \in [Task -> 0..MaxQueue]
    <3>1. CASE my[w].task.left > 0
      <4>1. my[w].task \in Task
        BY <1>0, <1>1 DEF Raise, Memory
      <4>2. [my[w].task EXCEPT !.left = @ - 1] \in Task
        BY <3>1, <4>1, PublishAssumption DEF Task
      <4> QED BY <1>0, <1>1, <4>2, QueueTyped DEF Raise
    <3> QED BY <1>0, <1>1, <3>1 DEF Raise
  <2>4. row' \in Variant
    <3>1. [row EXCEPT !.status = "failed"] \in Variant /\ [row EXCEPT !.parent = "failed"] \in Variant
      BY <1>0, FieldTyped DEF Statuses, Schedulable
    <3> QED BY <1>0, <1>1, <3>1, ParentTyped DEF Raise, GivenUp
  <2>5. UNCHANGED <<scene, lock, draft, boxes, live>>
    BY <1>1 DEF Raise
  <2> QED BY <1>0, <2>1, <2>2, <2>3, <2>4, <2>5, WorkerStepTyped
<1>2. CASE Crash(w)
  <2>1. pc' \in [Workers -> Places] /\ my' \in [Workers -> Memory]
    BY <1>2, StopTyped DEF Crash
  <2>2. faults' \in 0..MaxFaults
    BY <1>2, FaultTyped DEF Crash
  <2>3. draft' \in Variant /\ lock' \in Workers \cup {None}
    BY <1>0, <1>2 DEF Crash
  <2>4. live' \in 0..2 /\ boxes' \in [Boxes -> {"none", "working", "finished", "dead", "live"}]
    BY <1>0, <1>2, LandedTyped DEF Crash
  <2>5. UNCHANGED <<scene, row, queue>>
    BY <1>2 DEF Crash
  <2> QED BY <1>0, <2>1, <2>2, <2>3, <2>4, <2>5, WorkerStepTyped
<1> QED BY <1>1, <1>2

LEMMA EncodeTyped == ASSUME TypeOK, NEW b \in Boxes, Encode(b) PROVE TypeOK'
<1>1. boxes' \in [Boxes -> {"none", "working", "finished", "dead", "live"}]
  BY TypedAs DEF Encode
<1>2. UNCHANGED <<scene, row, lock, draft, pc, my, queue, live, faults>>
  BY DEF Encode
<1> QED BY <1>1, <1>2, TypedAs, WorkerStepTyped

LEMMA NextTyped == TypeOK /\ [Next]_vars => TypeOK'
<1> SUFFICES ASSUME TypeOK, [Next]_vars PROVE TypeOK'
  OBVIOUS
<1>1. CASE Compose \/ Reschedule \/ PublishDueVariant \/ PublishDuePost \/ RecoverUnstarted
  BY <1>1, UsersTyped
<1>2. CASE ReconcileStale \/ EscalateExhausted \/ RecoverContainer \/ ConfirmPublished \/ ReconcileRetry \/ Tick
  BY <1>2, RecoveryTyped
<1>3. ASSUME NEW w \in Workers, Work(w) \/ Take(w) \/ User(w) \/ PollStart(w) \/ RecoverSelect(w) \/ Raise(w) \/ Crash(w)
      PROVE  TypeOK'
  BY <1>3, PagesTyped, TakeTyped, AttemptTyped, PollTyped, FaultsTyped DEF Work, Take, User, Attempt, Polling
<1>4. ASSUME NEW b \in Boxes, Encode(b) PROVE TypeOK'
  BY <1>4, EncodeTyped
<1>5. CASE UNCHANGED vars
  BY <1>5 DEF vars, TypeOK
<1> QED BY <1>1, <1>2, <1>3, <1>4, <1>5 DEF Next

\* The types of the row, of what the workers remember, of the queue, and of
\* what Instagram says.
THEOREM TypeCorrect == Spec => []TypeOK
<1>1. Init => TypeOK
  BY InitTyped
<1> QED BY <1>1, NextTyped, PTL DEF Spec

-----------------------------------------------------------------------------
(* What the scene leaves out stays out.                                    *)

PollPlaces == {"poll", "boxclaim", "boxcall", "boxwrite", "boxfail"}

\* A channel that is not a video has no container to poll.
NoVideo ==
    ~scene.video => /\ ~row.video /\ ~draft.video
                    /\ \A w \in Workers : ~my[w].seen.video /\ pc[w] \notin PollPlaces

\* Nobody who may not press the retry button has left a retry behind.
NoRetry ==
    "retry" \notin scene.users =>
       /\ \A w \in Workers : pc[w] # "enqueue" /\ (my[w].task # None => my[w].task.kind # "retry")
       /\ \A t \in Task : t.kind = "retry" => queue[t] = 0

LEMMA SameVideo ==
    ASSUME NEW r \in Variant
    PROVE  /\ Refreshed(r).video = r.video /\ Scheduled(r).video = r.video
           /\ \A to \in {"draft", "scheduled", "publishing"} : Saved(r, to).video = r.video
           /\ \A w \in Workers : Claimed(r, w).video = r.video
           /\ \A res \in Answers, b \in 0..MaxBoxes : Outcome(r, res, b).video = r.video
           /\ \A status \in Statuses : Settled(r, status).video = r.video
           /\ GivenUp(r).video = r.video
<1>1. Refreshed(r).video = r.video /\ Scheduled(r).video = r.video /\ GivenUp(r).video = r.video
  BY DEF Refreshed, Scheduled, GivenUp, Variant
<1>2. ASSUME NEW to \in {"draft", "scheduled", "publishing"} PROVE Saved(r, to).video = r.video
  BY DEF Saved, Scheduled, Variant
<1>3. ASSUME NEW w \in Workers PROVE Claimed(r, w).video = r.video
  BY DEF Claimed, Variant
<1>4. ASSUME NEW res \in Answers, NEW b \in 0..MaxBoxes PROVE Outcome(r, res, b).video = r.video
  BY DEF Outcome, Variant
<1>5. ASSUME NEW status \in Statuses PROVE Settled(r, status).video = r.video
  BY DEF Settled, Variant
<1> QED BY <1>1, <1>2, <1>3, <1>4, <1>5

LEMMA InitNoVideo == Init => NoVideo
<1> SUFFICES ASSUME Init, ~scene.video PROVE NoVideo
  BY DEF NoVideo
<1>1. ~row.video
  BY DEF Init, NewRow
<1>2. \A w \in Workers : my[w] = Nothing /\ pc[w] = "idle" /\ draft = NewRow
  BY DEF Init
<1>3. ~NewRow.video /\ ~Nothing.seen.video
  BY DEF NewRow, Nothing
<1> QED BY <1>1, <1>2, <1>3 DEF NoVideo, PollPlaces, Init

\* No step changes what the channel is.
LEMMA RowVideo ==
    ASSUME TypeOK, NoVideo, ~scene.video, [Next]_vars
    PROVE  ~row'.video /\ ~draft'.video
<1>0. /\ row \in Variant /\ draft \in Variant /\ ~row.video /\ ~draft.video
      /\ \A w \in Workers : my[w] \in Memory /\ Seen(w) \in Variant /\ ~Seen(w).video /\ ~my[w].seen.video
      /\ ~NewRow.video
  BY TypedAs, SeenTyped DEF NoVideo, Seen, NewRow
<1>1. CASE Compose
  <2>1. \A to \in {"draft", "scheduled", "publishing"} : ~Saved(row, to).video /\ Saved(row, to) \in Variant
    BY <1>0, SameVideo, SavedTyped
  <2>2. \A r \in Variant : \A p : ~r.video => ~[r EXCEPT !.parent = p].video
    BY DEF Variant
  <2> QED BY <1>0, <1>1, <2>1, <2>2 DEF Compose
<1>2. CASE Reschedule
  BY <1>0, <1>2, SameVideo, ScheduledTyped DEF Reschedule
<1>3. CASE PublishDueVariant \/ PublishDuePost \/ RecoverUnstarted \/ ReconcileStale \/ EscalateExhausted \/ RecoverContainer \/ ConfirmPublished \/ ReconcileRetry
  BY <1>0, <1>3 DEF PublishDueVariant, PublishDuePost, RecoverUnstarted, ReconcileStale, EscalateExhausted, RecoverContainer, ConfirmPublished, ReconcileRetry, Refreshed, Variant
<1>4. CASE Tick
  BY <1>0, <1>4 DEF Tick, Variant
<1>5. ASSUME NEW w \in Workers, LookAtPost(w) \/ Cancel(w) \/ Reopen(w) \/ RetryClick(w) \/ RetryPostRead(w)
      PROVE  ~row'.video /\ ~draft'.video
  BY <1>0, <1>5 DEF LookAtPost, Look, Cancel, Reopen, RetryClick, RetryPostRead, Refreshed, Variant
<1>6. ASSUME NEW w \in Workers, RetryEnqueue(w) \/ RetryPostWrite(w)
      PROVE  ~row'.video /\ ~draft'.video
  BY <1>0, <1>6 DEF RetryEnqueue, Update, RetryPostWrite, Scheduled, Variant
<1>7. ASSUME NEW w \in Workers, NEW t \in Task, TakeVariant(w, t) \/ TakePost(w, t)
      PROVE  ~row'.video /\ ~draft'.video
  BY <1>0, <1>7 DEF TakeVariant, TakePost, Unapproved, Refreshed, Variant
<1>8. ASSUME NEW w \in Workers, Claim(w) \/ WorkflowClaim(w) \/ Call(w) \/ ReadBack(w)
      PROVE  ~row'.video /\ ~draft'.video
  <2>1. ~Claimed(row, w).video
    BY <1>0, SameVideo
  <2>2. CASE Claim(w) \/ WorkflowClaim(w)
    BY <1>0, <2>1, <2>2 DEF Claim, WorkflowClaim
  <2>3. CASE Call(w) \/ ReadBack(w)
    BY <1>0, <2>3 DEF Call, ReadBack
  <2> QED BY <1>8, <2>2, <2>3
<1>9. ASSUME NEW w \in Workers, WriteBack(w)
      PROVE  ~row'.video /\ ~draft'.video
  <2>1. /\ my[w].seen \in Variant /\ my[w].res \in Answers /\ my[w].box \in 0..MaxBoxes
    BY <1>0 DEF Memory
  <2>2. PICK o \in Variant : o = Outcome(my[w].seen, my[w].res, my[w].box)
    BY <2>1, OutcomeTyped
  <2>3. ~o.video
    BY <1>0, <2>1, <2>2, SameVideo
  <2>4. \A r \in Variant : ~[o EXCEPT !.parent = r.parent, !.due = r.due, !.sent = r.sent, !.age = r.age].video
    BY <2>3 DEF Variant
  <2>5. Update(w, [o EXCEPT !.parent = Seen(w).parent, !.due = Seen(w).due, !.sent = Seen(w).sent, !.age = Seen(w).age])
    BY <1>9, <2>2 DEF WriteBack
  <2> QED BY <1>0, <2>4, <2>5 DEF Update
<1>10. ASSUME NEW w \in Workers, RefreshParent(w)
       PROVE  ~row'.video /\ ~draft'.video
  BY <1>0, <1>10, SameVideo DEF RefreshParent
<1>11. ASSUME NEW w \in Workers, Raise(w) \/ Crash(w) \/ PollStart(w) \/ RecoverSelect(w) \/ RecoverWrite(w)
       PROVE  ~row'.video /\ ~draft'.video
  BY <1>0, <1>11 DEF Raise, GivenUp, Crash, PollStart, RecoverSelect, RecoverWrite, Refreshed, Variant
<1>12. ASSUME NEW w \in Workers PROVE ~Polling(w)
  BY DEF NoVideo, PollPlaces, Polling, Poll, BoxClaim, BoxCall, BoxWrite, BoxFail
<1>13. CASE (\E b \in Boxes : Encode(b)) \/ UNCHANGED vars
  BY <1>0, <1>13 DEF Encode, vars
<1> QED BY <1>1, <1>2, <1>3, <1>4, <1>5, <1>6, <1>7, <1>8, <1>9, <1>10, <1>11, <1>12, <1>13
        DEF Next, Work, Take, User, Attempt

\* A worker remembers the row it has read, and goes where the steps lead it.
LEMMA WorkerVideo ==
    ASSUME TypeOK, NoVideo, ~scene.video, [Next]_vars, NEW v \in Workers
    PROVE  ~my'[v].seen.video /\ pc'[v] \notin PollPlaces
<1>0. /\ row \in Variant /\ ~row.video /\ ~draft.video /\ ~NewRow.video
      /\ \A w \in Workers : my[w] \in Memory /\ ~Seen(w).video /\ ~my[w].seen.video /\ pc[w] \notin PollPlaces
      /\ ~Nothing.seen.video /\ Nothing \in Memory /\ my[v] \in Memory
      /\ pc \in [Workers -> Places] /\ my \in [Workers -> Memory]
  BY TypedAs, NewRowTyped DEF NoVideo, Seen, NewRow, Nothing
<1>1. ASSUME NEW w \in Workers, NEW at \in Places \ PollPlaces, NEW mem \in Memory, ~mem.seen.video, Goto(w, at, mem)
      PROVE  ~my'[v].seen.video /\ pc'[v] \notin PollPlaces
  BY <1>0, <1>1 DEF Goto
<1>2. ASSUME NEW w \in Workers, Stop(w)
      PROVE  ~my'[v].seen.video /\ pc'[v] \notin PollPlaces
  BY <1>0, <1>1, <1>2 DEF Stop, Places, PollPlaces
<1>3. {"idle", "enqueue", "cancel", "reopen", "retry_post", "schedule", "claim", "call", "read", "write", "refresh", "recover"}
         \subseteq Places \ PollPlaces
  BY DEF Places, PollPlaces
<1>4. CASE UNCHANGED <<pc, my>>
  BY <1>0, <1>4
<1>5. ASSUME NEW w \in Workers, LookAtPost(w) \/ Cancel(w) \/ Reopen(w) \/ RetryClick(w) \/ RetryEnqueue(w) \/ RetryPostWrite(w)
      PROVE  ~my'[v].seen.video /\ pc'[v] \notin PollPlaces
  BY <1>0, <1>1, <1>2, <1>3, <1>5 DEF LookAtPost, Look, Cancel, Reopen, RetryClick, RetryEnqueue, RetryPostWrite
<1>6. ASSUME NEW w \in Workers, RetryPostRead(w)
      PROVE  ~my'[v].seen.video /\ pc'[v] \notin PollPlaces
  <2>1. [Nothing EXCEPT !.seen = row] \in Memory /\ ~[Nothing EXCEPT !.seen = row].seen.video
    BY <1>0 DEF Memory
  <2> QED BY <1>1, <1>3, <1>6, <2>1 DEF RetryPostRead
<1>7. ASSUME NEW w \in Workers, NEW t \in Task, TakeVariant(w, t) \/ TakePost(w, t)
      PROVE  ~my'[v].seen.video /\ pc'[v] \notin PollPlaces
  <2>1. [Nothing EXCEPT !.task = t] \in Memory /\ ~[Nothing EXCEPT !.task = t].seen.video
    BY <1>0 DEF Memory
  <2>2. CASE \E at \in {"claim", "refresh"} : Goto(w, at, [Nothing EXCEPT !.task = t])
    BY <1>1, <1>3, <2>1, <2>2
  <2> QED BY <1>4, <1>7, <2>2 DEF TakeVariant, TakePost
<1>8. ASSUME NEW w \in Workers, Claim(w) \/ WorkflowClaim(w) \/ RefreshParent(w) \/ RecoverSelect(w) \/ RecoverWrite(w) \/ Raise(w) \/ Crash(w)
      PROVE  ~my'[v].seen.video /\ pc'[v] \notin PollPlaces
  <2>1. CASE Stop(w)
    BY <1>2, <2>1
  <2>2. CASE \E at \in {"call", "refresh"} : Goto(w, at, my[w])
    BY <1>0, <1>1, <1>3, <2>2
  <2>3. CASE \E at \in {"call", "recover"} : Goto(w, at, Nothing)
    BY <1>0, <1>1, <1>3, <2>3
  <2> QED BY <1>8, <2>1, <2>2, <2>3 DEF Claim, WorkflowClaim, RefreshParent, RecoverSelect, RecoverWrite, Raise, Crash
<1>9. ASSUME NEW w \in Workers, Call(w)
      PROVE  ~my'[v].seen.video /\ pc'[v] \notin PollPlaces
  <2>1. \A res \in Answers : [my[w] EXCEPT !.res = res] \in Memory /\ ~[my[w] EXCEPT !.res = res].seen.video
    BY <1>0 DEF Memory
  <2>2. PICK res \in Answers : Goto(w, "read", [my[w] EXCEPT !.res = res])
    BY <1>0, <1>9 DEF Call, Answers
  <2> QED BY <1>1, <1>3, <2>1, <2>2
<1>10. ASSUME NEW w \in Workers, ReadBack(w)
      PROVE  ~my'[v].seen.video /\ pc'[v] \notin PollPlaces
  <2>1. [my[w] EXCEPT !.seen = Seen(w)] \in Memory /\ ~[my[w] EXCEPT !.seen = Seen(w)].seen.video
    BY <1>0, SeenTyped DEF Memory
  <2>2. CASE Goto(w, "write", [my[w] EXCEPT !.seen = Seen(w)])
    BY <1>1, <1>3, <2>1, <2>2
  <2>3. CASE Goto(w, "refresh", my[w])
    BY <1>0, <1>1, <1>3, <2>3
  <2>4. CASE Stop(w)
    BY <1>2, <2>4
  <2> QED BY <1>10, <2>2, <2>3, <2>4 DEF ReadBack
<1>11. ASSUME NEW w \in Workers, WriteBack(w)
      PROVE  ~my'[v].seen.video /\ pc'[v] \notin PollPlaces
  <2>1. [my[w] EXCEPT !.seen = NewRow] \in Memory /\ ~[my[w] EXCEPT !.seen = NewRow].seen.video
    BY <1>0, NewRowTyped DEF Memory
  <2> QED BY <1>1, <1>3, <1>11, <2>1 DEF WriteBack
<1>12. ASSUME NEW w \in Workers PROVE ~Polling(w) /\ ~PollStart(w)
  BY <1>0 DEF PollPlaces, Polling, Poll, BoxClaim, BoxCall, BoxWrite, BoxFail, PollStart
<1>13. ASSUME NEW w \in Workers, Work(w) \/ Take(w) \/ User(w) \/ RecoverSelect(w) \/ Raise(w) \/ Crash(w)
       PROVE  ~my'[v].seen.video /\ pc'[v] \notin PollPlaces
  BY <1>5, <1>6, <1>7, <1>8, <1>9, <1>10, <1>11, <1>12, <1>13 DEF Work, Take, User, Attempt
<1>14. (~\E w \in Workers : \/ Work(w) \/ Take(w) \/ User(w) \/ PollStart(w) \/ RecoverSelect(w) \/ Raise(w) \/ Crash(w))
           => UNCHANGED <<pc, my>>
  BY DEF Next, Compose, Reschedule, PublishDueVariant, PublishDuePost, RecoverUnstarted, ReconcileStale, EscalateExhausted,
         RecoverContainer, ConfirmPublished, ReconcileRetry, Encode, Tick, vars
<1> QED BY <1>4, <1>12, <1>13, <1>14

LEMMA SceneKept == [Next]_vars => scene' = scene
<1> SUFFICES ASSUME [Next]_vars PROVE scene' = scene
  OBVIOUS
<1>1. ASSUME NEW w \in Workers, Attempt(w) \/ Polling(w) \/ PollStart(w) PROVE scene' = scene
  BY <1>1 DEF Attempt, Polling, Claim, Call, ReadBack, WriteBack, RefreshParent, Poll, BoxClaim, BoxCall, BoxWrite, BoxFail, PollStart
<1>2. ASSUME NEW w \in Workers, Work(w) PROVE scene' = scene
  BY <1>1, <1>2 DEF Work, RecoverWrite, RetryEnqueue, Cancel, Reopen, RetryPostRead, RetryPostWrite
<1>3. ASSUME NEW w \in Workers, Take(w) \/ User(w) PROVE scene' = scene
  BY <1>3 DEF Take, User, TakeVariant, TakePost, RetryClick, LookAtPost, Look, WorkflowClaim
<1>4. ASSUME NEW w \in Workers, RecoverSelect(w) \/ Raise(w) \/ Crash(w) PROVE scene' = scene
  BY <1>4 DEF RecoverSelect, Raise, Crash
<1>5. CASE ~\E w \in Workers : \/ Work(w) \/ Take(w) \/ User(w) \/ PollStart(w) \/ RecoverSelect(w) \/ Raise(w) \/ Crash(w)
  BY <1>5 DEF Next, Compose, Reschedule, PublishDueVariant, PublishDuePost, RecoverUnstarted, ReconcileStale, EscalateExhausted,
              RecoverContainer, ConfirmPublished, ReconcileRetry, Encode, Tick, vars
<1> QED BY <1>1, <1>2, <1>3, <1>4, <1>5

LEMMA VideoKept == TypeOK /\ NoVideo /\ [Next]_vars => NoVideo'
<1> SUFFICES ASSUME TypeOK, NoVideo, [Next]_vars, ~scene.video PROVE NoVideo'
  BY SceneKept DEF NoVideo
<1>1. ~row'.video /\ ~draft'.video
  BY RowVideo
<1>2. \A w \in Workers : ~my'[w].seen.video /\ pc'[w] \notin PollPlaces
  BY WorkerVideo
<1> QED BY <1>1, <1>2 DEF NoVideo

LEMMA InitNoRetry == Init => NoRetry
<1> SUFFICES ASSUME Init PROVE NoRetry
  OBVIOUS
<1>1. \A w \in Workers : my[w].task = None /\ pc[w] = "idle"
  BY DEF Init, Nothing
<1>2. \A t \in Task : queue[t] = 0
  BY DEF Init
<1> QED BY <1>1, <1>2 DEF NoRetry

\* The queue holds no retry, in particular none of a worker's task.
LEMMA QueueNoRetry ==
    ASSUME TypeOK, NoRetry, "retry" \notin scene.users, [Next]_vars, NEW t \in Task, t.kind = "retry"
    PROVE  queue'[t] = 0
<1>0. /\ queue \in [Task -> 0..MaxQueue] /\ queue[t] = 0
      /\ \A w \in Workers : my[w] \in Memory /\ pc[w] # "enqueue" /\ (my[w].task # None => my[w].task.kind # "retry")
  BY TypedAs DEF NoRetry
<1>1. ASSUME NEW s \in Task, s.kind # "retry" PROVE More(s)[t] = 0 /\ [queue EXCEPT ![s] = @ - 1][t] = 0
  BY <1>0, <1>1 DEF More
<1>2. ASSUME NEW k \in {"scheduled", "post"}, Enqueue(Fresh(k)) PROVE queue'[t] = 0
  <2>1. Fresh(k) \in Task /\ Fresh(k).kind # "retry"
    BY FreshTyped DEF Fresh
  <2> QED BY <1>0, <1>1, <1>2, <2>1 DEF Enqueue
<1>3. ASSUME NEW w \in Workers, my[w].task \in Task, my[w].task.left > 0,
             queue' = More([my[w].task EXCEPT !.left = @ - 1])
      PROVE  queue'[t] = 0
  <2>1. my[w].task.kind # "retry"
    BY <1>0, <1>3, PublishAssumption
  <2>2. [my[w].task EXCEPT !.left = @ - 1] \in Task /\ [my[w].task EXCEPT !.left = @ - 1].kind # "retry"
    BY <1>3, <2>1, PublishAssumption DEF Task
  <2> QED BY <1>1, <1>3, <2>2
<1>4. ASSUME NEW w \in Workers, Retried(w) PROVE queue'[t] = 0
  BY <1>3, <1>4 DEF Retried, Retryable
<1>5. CASE UNCHANGED queue
  BY <1>0, <1>5
<1>6. CASE Compose \/ PublishDueVariant \/ PublishDuePost \/ RecoverUnstarted
  BY <1>2, <1>5, <1>6 DEF Compose, PublishDueVariant, PublishDuePost, RecoverUnstarted
<1>7. ASSUME NEW w \in Workers, NEW s \in Task, TakeVariant(w, s) \/ TakePost(w, s) PROVE queue'[t] = 0
  <2>1. s # t
    BY <1>0, <1>7 DEF TakeVariant, TakePost
  <2> QED BY <1>0, <1>7, <2>1 DEF TakeVariant, TakePost
<1>8. ASSUME NEW w \in Workers, ReadBack(w) \/ RefreshParent(w) PROVE queue'[t] = 0
  BY <1>4, <1>5, <1>8 DEF ReadBack, RefreshParent
<1>9. ASSUME NEW w \in Workers, Raise(w) PROVE queue'[t] = 0
  <2>1. my[w].task \in Task
    BY <1>0, <1>9 DEF Raise, Memory
  <2> QED BY <1>3, <1>5, <1>9, <2>1 DEF Raise
<1>10. ASSUME NEW w \in Workers, ~Raise(w), ~ReadBack(w), ~RefreshParent(w), ~Take(w),
              Work(w) \/ User(w) \/ PollStart(w) \/ RecoverSelect(w) \/ Crash(w)
       PROVE  UNCHANGED queue
  <2>1. ASSUME Attempt(w) \/ Polling(w) \/ PollStart(w) PROVE UNCHANGED queue
    BY <1>10, <2>1 DEF Attempt, Polling, Claim, Call, WriteBack, Poll, BoxClaim, BoxCall, BoxWrite, BoxFail, PollStart
  <2>2. ~RetryEnqueue(w)
    BY <1>0 DEF RetryEnqueue
  <2>3. ASSUME Work(w) PROVE UNCHANGED queue
    BY <2>1, <2>2, <2>3 DEF Work, RecoverWrite, Cancel, Reopen, RetryPostRead, RetryPostWrite
  <2>4. ASSUME User(w) \/ RecoverSelect(w) \/ Crash(w) PROVE UNCHANGED queue
    BY <2>4 DEF User, RetryClick, LookAtPost, Look, WorkflowClaim, RecoverSelect, Crash
  <2> QED BY <1>10, <2>1, <2>3, <2>4
<1>11. CASE \/ Reschedule \/ ReconcileStale \/ EscalateExhausted \/ RecoverContainer \/ ConfirmPublished \/ ReconcileRetry
            \/ (\E b \in Boxes : Encode(b)) \/ Tick \/ UNCHANGED vars
  BY <1>5, <1>11 DEF Reschedule, ReconcileStale, EscalateExhausted, RecoverContainer, ConfirmPublished, ReconcileRetry, Encode, Tick, vars
<1>12. ASSUME NEW w \in Workers, Work(w) \/ Take(w) \/ User(w) \/ PollStart(w) \/ RecoverSelect(w) \/ Raise(w) \/ Crash(w)
       PROVE  queue'[t] = 0
  BY <1>5, <1>7, <1>8, <1>9, <1>10, <1>12 DEF Take
<1> QED BY <1>6, <1>11, <1>12 DEF Next

LEMMA WorkerNoRetry ==
    ASSUME TypeOK, NoRetry, "retry" \notin scene.users, [Next]_vars, NEW v \in Workers
    PROVE  pc'[v] # "enqueue" /\ (my'[v].task # None => my'[v].task.kind # "retry")
<1> DEFINE Free(m) == m.task # None => m.task.kind # "retry"
<1>0. /\ pc \in [Workers -> Places] /\ my \in [Workers -> Memory] /\ row \in Variant
      /\ \A w \in Workers : my[w] \in Memory /\ Seen(w) \in Variant /\ pc[w] # "enqueue" /\ Free(my[w])
      /\ Nothing \in Memory /\ Free(Nothing) /\ NewRow \in Variant
      /\ \A t \in Task : t.kind = "retry" => queue[t] = 0
  BY TypedAs, SeenTyped, NewRowTyped DEF NoRetry, Nothing
<1>00. \A m \in Memory : Free(m) =>
          /\ \A res \in Answers : [m EXCEPT !.res = res] \in Memory /\ Free([m EXCEPT !.res = res])
          /\ \A b \in 0..MaxBoxes : [m EXCEPT !.box = b] \in Memory /\ Free([m EXCEPT !.box = b])
          /\ \A r \in Variant : [m EXCEPT !.seen = r] \in Memory /\ Free([m EXCEPT !.seen = r])
  BY DEF Memory
<1>000. {"idle", "cancel", "reopen", "retry_post", "schedule", "claim", "call", "read", "write", "refresh", "recover",
         "poll", "boxclaim", "boxcall", "boxwrite", "boxfail"} \subseteq Places \ {"enqueue"}
  BY DEF Places
<1> HIDE DEF Free
<1>1. ASSUME NEW w \in Workers, NEW at \in Places \ {"enqueue"}, NEW mem \in Memory, Free(mem), Goto(w, at, mem)
      PROVE  pc'[v] # "enqueue" /\ Free(my'[v])
  BY <1>0, <1>1 DEF Goto
<1>2. ASSUME NEW w \in Workers, Stop(w)
      PROVE  pc'[v] # "enqueue" /\ Free(my'[v])
  BY <1>0, <1>000, <1>1, <1>2 DEF Stop
<1>3. ASSUME UNCHANGED <<pc, my>>
      PROVE  pc'[v] # "enqueue" /\ Free(my'[v])
  BY <1>0, <1>3
<1>4. ASSUME NEW w \in Workers, LookAtPost(w) \/ Cancel(w) \/ Reopen(w) \/ RetryPostWrite(w)
      PROVE  pc'[v] # "enqueue" /\ Free(my'[v])
  BY <1>0, <1>000, <1>1, <1>2, <1>4 DEF LookAtPost, Look, Cancel, Reopen, RetryPostWrite
<1>5. ASSUME NEW w \in Workers PROVE ~RetryClick(w) /\ ~RetryEnqueue(w)
  BY <1>0 DEF RetryClick, RetryEnqueue
<1>6. ASSUME NEW w \in Workers, RetryPostRead(w) \/ PollStart(w)
      PROVE  pc'[v] # "enqueue" /\ Free(my'[v])
  <2>1. row.box \in 0..MaxBoxes
    BY <1>0 DEF Variant
  <2>2. PICK seen \in Memory, box \in Memory : /\ seen = [Nothing EXCEPT !.seen = row] /\ Free(seen)
                                                /\ box = [Nothing EXCEPT !.box = row.box] /\ Free(box)
    BY <1>0, <1>00, <2>1
  <2> QED BY <1>000, <1>1, <1>6, <2>2 DEF RetryPostRead, PollStart
<1>7. ASSUME NEW w \in Workers, NEW t \in Task, TakeVariant(w, t) \/ TakePost(w, t)
      PROVE  pc'[v] # "enqueue" /\ Free(my'[v])
  <2>1. t.kind # "retry"
    BY <1>0, <1>7 DEF TakeVariant, TakePost
  <2>2. [Nothing EXCEPT !.task = t] \in Memory /\ Free([Nothing EXCEPT !.task = t])
    BY <1>0, <2>1 DEF Free, Memory
  <2>3. CASE \E at \in {"claim", "refresh"} : Goto(w, at, [Nothing EXCEPT !.task = t])
    BY <1>000, <1>1, <2>2, <2>3
  <2> QED BY <1>3, <1>7, <2>3 DEF TakeVariant, TakePost
<1>8. ASSUME NEW w \in Workers, Claim(w) \/ WorkflowClaim(w) \/ RefreshParent(w) \/ RecoverSelect(w) \/ RecoverWrite(w) \/ Raise(w) \/ Crash(w)
      PROVE  pc'[v] # "enqueue" /\ Free(my'[v])
  <2>1. CASE Stop(w)
    BY <1>2, <2>1
  <2>2. CASE \E at \in {"call", "refresh"} : Goto(w, at, my[w])
    BY <1>0, <1>000, <1>1, <2>2
  <2>3. CASE \E at \in {"call", "recover"} : Goto(w, at, Nothing)
    BY <1>0, <1>000, <1>1, <2>3
  <2> QED BY <1>8, <2>1, <2>2, <2>3 DEF Claim, WorkflowClaim, RefreshParent, RecoverSelect, RecoverWrite, Raise, Crash
<1>9. ASSUME NEW w \in Workers, Call(w)
      PROVE  pc'[v] # "enqueue" /\ Free(my'[v])
  <2>1. CASE \E res \in Answers : Goto(w, "read", [my[w] EXCEPT !.res = res])
    BY <1>0, <1>00, <1>000, <1>1, <2>1
  <2>2. CASE \E b \in Boxes : Goto(w, "read", [my[w] EXCEPT !.res = "box", !.box = b])
    <3>1. PICK b \in Boxes : Goto(w, "read", [[my[w] EXCEPT !.res = "box"] EXCEPT !.box = b])
      BY <2>2
    <3>2. b \in 0..MaxBoxes /\ "box" \in Answers
      BY PublishAssumption DEF Boxes, Answers
    <3>3. [my[w] EXCEPT !.res = "box"] \in Memory /\ Free([my[w] EXCEPT !.res = "box"])
      BY <1>0, <1>00, <3>2
    <3>4. [[my[w] EXCEPT !.res = "box"] EXCEPT !.box = b] \in Memory /\ Free([[my[w] EXCEPT !.res = "box"] EXCEPT !.box = b])
      BY <1>00, <3>2, <3>3
    <3> QED BY <1>000, <1>1, <3>1, <3>4
  <2> QED BY <1>9, <2>1, <2>2 DEF Call, Answers
<1>10. ASSUME NEW w \in Workers, ReadBack(w) \/ WriteBack(w)
      PROVE  pc'[v] # "enqueue" /\ Free(my'[v])
  <2>1. CASE \E r \in Variant, at \in {"write", "refresh"} : Goto(w, at, [my[w] EXCEPT !.seen = r])
    BY <1>0, <1>00, <1>000, <1>1, <2>1
  <2>2. CASE Goto(w, "refresh", my[w])
    BY <1>0, <1>000, <1>1, <2>2
  <2>3. CASE Stop(w)
    BY <1>2, <2>3
  <2> QED BY <1>0, <1>10, <2>1, <2>2, <2>3 DEF ReadBack, WriteBack
<1>11. ASSUME NEW w \in Workers, Polling(w)
       PROVE  pc'[v] # "enqueue" /\ Free(my'[v])
  <2>1. CASE \E at \in {"refresh", "boxclaim", "boxcall", "boxfail"} : Goto(w, at, my[w])
    BY <1>0, <1>000, <1>1, <2>1
  <2>2. CASE \E at \in {"refresh", "boxwrite"}, res \in {"ok", "unknown", "none"} : Goto(w, at, [my[w] EXCEPT !.res = res])
    BY <1>0, <1>00, <1>000, <1>1, <2>2 DEF Answers
  <2>3. CASE Poll(w) \/ BoxClaim(w) \/ BoxFail(w)
    BY <2>1, <2>3 DEF Poll, BoxClaim, BoxFail
  <2>4. CASE BoxCall(w) \/ BoxWrite(w)
    BY <2>2, <2>4 DEF BoxCall, BoxWrite
  <2> QED BY <1>11, <2>3, <2>4 DEF Polling
<1>12. ASSUME NEW w \in Workers, Work(w) \/ Take(w) \/ User(w) \/ PollStart(w) \/ RecoverSelect(w) \/ Raise(w) \/ Crash(w)
       PROVE  pc'[v] # "enqueue" /\ Free(my'[v])
  BY <1>4, <1>5, <1>6, <1>7, <1>8, <1>9, <1>10, <1>11, <1>12 DEF Work, Take, User, Attempt
<1>13. (~\E w \in Workers : \/ Work(w) \/ Take(w) \/ User(w) \/ PollStart(w) \/ RecoverSelect(w) \/ Raise(w) \/ Crash(w))
           => UNCHANGED <<pc, my>>
  BY DEF Next, Compose, Reschedule, PublishDueVariant, PublishDuePost, RecoverUnstarted, ReconcileStale, EscalateExhausted,
         RecoverContainer, ConfirmPublished, ReconcileRetry, Encode, Tick, vars
<1> QED BY <1>3, <1>12, <1>13 DEF Free

LEMMA RetryKept == TypeOK /\ NoRetry /\ [Next]_vars => NoRetry'
<1> SUFFICES ASSUME TypeOK, NoRetry, [Next]_vars, "retry" \notin scene.users PROVE NoRetry'
  BY SceneKept DEF NoRetry
<1>1. \A t \in Task : t.kind = "retry" => queue'[t] = 0
  BY QueueNoRetry
<1>2. \A w \in Workers : pc'[w] # "enqueue" /\ (my'[w].task # None => my'[w].task.kind # "retry")
  BY WorkerNoRetry
<1> QED BY <1>1, <1>2 DEF NoRetry

-----------------------------------------------------------------------------
(* A channel goes live at most once.                                       *)

\* The row as the next transaction finds it: the one that holds it commits.
Now == IF lock = None THEN row ELSE draft

Calling(w) == pc[w] \in {"call", "write"}

\* Only a workflow holds the row over a call, and the claim in it is its own;
\* nobody else has the row that the others see.
LockHeld == \A w \in Workers : lock = w =>
                /\ scene.outerTx
                /\ pc[w] = "refresh" \/ (Attempting(w) /\ draft.token = w)
                /\ \A v \in Workers : Attempting(v) /\ row.token = v => v = w

\* A claim stands as long as the worker whose token it bears is at it.
Owner == \A w \in Workers : Attempting(w) /\ Now.token = w => Now.status = "publishing" /\ Now.flag /\ Now.age = "fresh"

\* Who calls, or is about to save an answer, has the claim, or an operator has the channel.
Caller == \A w \in Workers : Calling(w) => Now.status = "reconciling" \/ Now.token = w
Alone == \A v, w \in Workers : Calling(v) /\ Calling(w) => v = w

\* Nothing is live when a call is made, and what is live is published, in doubt
\* or in the hands of a claim.
Before == \A w \in Workers : pc[w] = "call" => live = 0
InDoubt == live # 0 => /\ live = 1
                       /\ Now.status \in {"published", "reconciling"} \/ (Now.status = "publishing" /\ Now.flag)

\* An answer that will be saved does not deny what is live.
Result == \A w \in Workers : live # 0 /\ (pc[w] = "write" \/ (pc[w] = "read" /\ Now.token = w))
                                => my[w].res \in {"ok", "unknown"}

\* post_retry reschedules what nobody is publishing.
Schedules == \A w \in Workers : pc[w] = "schedule" =>
                /\ lock = None
                /\ my[w].seen.status \in Schedulable =>
                      live = 0 /\ \A v \in Workers : ~Calling(v) /\ ~(pc[v] = "read" /\ Now.token = v)

Once == LockHeld /\ Owner /\ Caller /\ Alone /\ Before /\ InDoubt /\ Result /\ Schedules

\* What may happen to the row while the workers at it stay where they are: the
\* claim is as it was, or there was none, or the channel is given to an
\* operator, or the operator decides, or nothing is live or under way.
Harmless ==
    \/ /\ Now'.token = Now.token /\ Now'.status = Now.status /\ Now'.flag = Now.flag
       /\ Now'.age = Now.age \/ \A w \in Workers : ~(Attempting(w) /\ Now.token = w)
    \/ Now.status \in Schedulable \cup {"cancelled"} /\ Now'.token = Now.token
    \/ /\ Now'.status = "reconciling"
       /\ Now'.token = None \/ (Now'.token = Now.token /\ (Now.status # "publishing" \/ Now.age # "fresh"))
    \/ /\ Now.status = "reconciling" /\ Now'.token = Now.token
       /\ \A w \in Workers : ~Calling(w)
       /\ live # 0 => Now'.status = "published"
    \/ /\ Now'.token = Now.token /\ live = 0
       /\ \A w \in Workers : ~Calling(w) /\ ~(Attempting(w) /\ Now.token = w)

\* Nobody begins or ends a step of an attempt.
Elsewhere == \A w \in Workers : pc'[w] \in {"call", "read", "write", "schedule"} => pc'[w] = pc[w] /\ my'[w] = my[w]

LEMMA HarmlessKept ==
    ASSUME Once, Harmless, Elsewhere, live' = live, lock = None => lock' = None
    PROVE  Owner' /\ Caller' /\ Alone' /\ Before' /\ InDoubt' /\ Result' /\ Schedules'
<1>0. None \notin Workers
  BY PublishAssumption
<1>1. \A w \in Workers : /\ (Attempting(w))' => Attempting(w)
                         /\ (Calling(w))' => Calling(w)
                         /\ Calling(w) => Attempting(w)
  BY DEF Elsewhere, Attempting, Calling
<1>2. \A w \in Workers : Attempting(w) /\ Now'.token = w => Now.token = w
  BY <1>0 DEF Harmless, Once, Owner, Caller
<1>3. Owner'
  <2> SUFFICES ASSUME NEW w \in Workers, Attempting(w), Now'.token = w
               PROVE  Now'.status = "publishing" /\ Now'.flag /\ Now'.age = "fresh"
    BY <1>1 DEF Owner
  <2>1. Now.token = w /\ Now.status = "publishing" /\ Now.flag /\ Now.age = "fresh"
    BY <1>2 DEF Once, Owner
  <2> QED BY <1>0, <2>1 DEF Harmless, Schedulable
<1>4. Caller'
  <2> SUFFICES ASSUME NEW w \in Workers, Calling(w)
               PROVE  Now'.status = "reconciling" \/ Now'.token = w
    BY <1>1 DEF Caller
  <2>1. Now.status = "reconciling" \/ (Now.token = w /\ Now.status = "publishing")
    BY <1>1 DEF Once, Caller, Owner
  <2> QED BY <2>1 DEF Harmless, Schedulable
<1>5. Alone'
  BY <1>1 DEF Once, Alone
<1>6. Before'
  BY DEF Once, Before, Elsewhere
<1>7. InDoubt'
  BY DEF Once, InDoubt, Harmless, Schedulable
<1>8. Result'
  BY <1>1, <1>2 DEF Once, Result, Elsewhere, Attempting
<1>9. Schedules'
  BY <1>1, <1>2 DEF Once, Schedules, Elsewhere, Attempting
<1> QED BY <1>3, <1>4, <1>5, <1>6, <1>7, <1>8, <1>9

LEMMA LockKept ==
    ASSUME LockHeld, scene' = scene, lock' = lock, lock # None => draft' = draft /\ row' = row,
           \A w \in Workers : /\ lock = w => pc'[w] = pc[w]
                              /\ (Attempting(w))' => Attempting(w)
    PROVE  LockHeld'
BY PublishAssumption DEF LockHeld, Attempting

LEMMA LockFree == lock' = None => LockHeld'
BY PublishAssumption DEF LockHeld

\* The scenes of the theorem.  Without any of these conditions but the first, TLC
\* refutes PublishedOnce: README, "Disagreements".
Covered ==
    /\ ~scene.video /\ scene.prompt /\ "database" \notin scene.faults
    /\ ~(scene.outerTx /\ "crash" \in scene.faults)
    /\ "retry" \in scene.users => "broker" \notin scene.faults /\ ~scene.unready

LEMMA InitOnce == Init => Once
<1> SUFFICES ASSUME Init PROVE Once
  OBVIOUS
<1>1. live = 0 /\ lock = None /\ \A w \in Workers : pc[w] = "idle"
  BY DEF Init
<1> QED BY <1>1, PublishAssumption DEF Once, LockHeld, Owner, Caller, Alone, Before, InDoubt, Result, Schedules, Attempting, Calling

\* The steps of no worker.
LEMMA RowOnce ==
    ASSUME TypeOK, NoVideo, Covered, Once,
           \/ Compose \/ Reschedule \/ PublishDueVariant \/ PublishDuePost \/ RecoverUnstarted \/ ReconcileStale
           \/ EscalateExhausted \/ RecoverContainer \/ ConfirmPublished \/ ReconcileRetry \/ Tick
           \/ (\E b \in Boxes : Encode(b)) \/ UNCHANGED vars
    PROVE  Once'
<1>0. row \in Variant /\ (lock = None => Now = row) /\ live \in 0..2
  BY TypedAs DEF Now
<1>1. /\ pc' = pc /\ my' = my /\ live' = live /\ lock' = lock /\ draft' = draft /\ scene' = scene
  BY DEF Compose, Reschedule, PublishDueVariant, PublishDuePost, RecoverUnstarted, ReconcileStale, EscalateExhausted,
         RecoverContainer, ConfirmPublished, ReconcileRetry, Encode, Tick, vars
<1> SUFFICES Harmless
  <2>1. lock # None => row' = row
    BY DEF Compose, Reschedule, PublishDueVariant, PublishDuePost, RecoverUnstarted, ReconcileStale, EscalateExhausted,
           RecoverContainer, ConfirmPublished, ReconcileRetry, Encode, Tick, vars, PostFree
  <2>2. Elsewhere /\ LockHeld'
    BY <1>1, <2>1, LockKept DEF Elsewhere, Once, Attempting
  <2> QED BY <1>1, <2>2, HarmlessKept DEF Once
<1>2. (lock = None => Now' = row') /\ (row' = row => Now' = Now)
  BY <1>1 DEF Now
<1>3. Now' = Now => Harmless
  BY DEF Harmless
<1>4. CASE Compose
  <2>1. lock = None
    BY <1>4 DEF Compose, PostFree
  <2>2. PICK to \in {"draft", "scheduled", "publishing"} : \E p : row' = [Saved(row, to) EXCEPT !.parent = p]
    <3>1. \A to \in {"draft", "scheduled", "publishing"} : Saved(row, to) = [Saved(row, to) EXCEPT !.parent = Saved(row, to).parent]
      BY <1>0, SavedTyped DEF Variant
    <3> QED BY <1>4, <3>1 DEF Compose
  <2>3. /\ row'.token = row.token
        /\ row.status \notin Schedulable \cup {"cancelled"} => row'.status = row.status /\ row'.flag = row.flag /\ row'.age = row.age
    BY <1>0, <2>2 DEF Saved, Scheduled, Variant, Schedulable
  <2> QED BY <1>0, <1>2, <2>1, <2>3 DEF Harmless
<1>5. CASE Reschedule
  <2>1. lock = None /\ row.status \in Schedulable /\ row'.token = row.token
    BY <1>0, <1>5 DEF Reschedule, PostFree, Schedulable, Refreshed, Scheduled, Variant
  <2> QED BY <1>0, <1>2, <2>1 DEF Harmless
<1>6. CASE PublishDueVariant \/ PublishDuePost \/ RecoverUnstarted
  <2>1. /\ row'.token = row.token /\ row'.status = row.status /\ row'.flag = row.flag /\ row'.age = row.age
    BY <1>0, <1>6 DEF PublishDueVariant, PublishDuePost, RecoverUnstarted, Variant
  <2>2. lock = None \/ row' = row
    BY <1>6 DEF PublishDueVariant, PublishDuePost, RecoverUnstarted, PostFree
  <2> QED BY <1>0, <1>2, <1>3, <2>1, <2>2 DEF Harmless
<1>7. CASE ReconcileStale \/ EscalateExhausted
  <2>1. /\ lock = None /\ row'.status = "reconciling" /\ row'.token = row.token
        /\ row.status # "publishing" \/ row.age # "fresh"
    BY <1>0, <1>7 DEF ReconcileStale, Stuck, EscalateExhausted, Variant
  <2> QED BY <1>0, <1>2, <2>1 DEF Harmless
<1>8. ~RecoverContainer
  BY DEF RecoverContainer, NoVideo, Covered
<1>9. CASE ConfirmPublished \/ ReconcileRetry
  <2>1. /\ lock = None /\ row.status = "reconciling" /\ row'.token = row.token /\ (live = 0 \/ row'.status = "published")
    BY <1>0, <1>9 DEF ConfirmPublished, ReconcileRetry, PostFree, Refreshed, Variant
  <2>2. \A w \in Workers : ~Calling(w)
    BY <1>9 DEF ConfirmPublished, ReconcileRetry, Covered, InFlight, Calling
  <2> QED BY <1>0, <1>2, <2>1, <2>2 DEF Harmless
<1>10. CASE Tick
  <2>1. /\ lock = None /\ row'.token = row.token /\ row'.status = row.status /\ row'.flag = row.flag
        /\ row'.age = row.age \/ \A w \in Workers : ~(Attempting(w) /\ row.token = w)
    BY <1>0, <1>10 DEF Tick, Covered, Variant
  <2> QED BY <1>0, <1>2, <2>1 DEF Harmless
<1>11. CASE (\E b \in Boxes : Encode(b)) \/ UNCHANGED vars
  BY <1>2, <1>3, <1>11 DEF Encode, vars
<1> QED BY <1>4, <1>5, <1>6, <1>7, <1>8, <1>9, <1>10, <1>11

\* The steps after which the worker makes no call and saves no answer.
LEMMA GotoElsewhere ==
    ASSUME TypeOK, NEW w \in Workers, NEW at \in Places \ {"call", "read", "write", "schedule"}, NEW mem, Goto(w, at, mem)
    PROVE  Elsewhere /\ \A v \in Workers : v # w => pc'[v] = pc[v]
BY TypedAs DEF Goto, Elsewhere

LEMMA LeavingOnce ==
    ASSUME Once, Harmless, live' = live, scene' = scene, NEW w \in Workers,
           Elsewhere /\ \A v \in Workers : v # w => pc'[v] = pc[v],
           lock' = None \/ (lock' = lock /\ draft' = draft /\ row' = row /\ lock # w)
    PROVE  Once'
<1>1. LockHeld'
  BY LockKept, LockFree DEF Once, Elsewhere, Attempting
<1>2. lock = None => lock' = None
  OBVIOUS
<1> QED BY <1>1, <1>2, HarmlessKept DEF Once

LEMMA PagesOnce ==
    ASSUME TypeOK, NoVideo, NoRetry, Covered, Once, NEW w \in Workers,
           LookAtPost(w) \/ Cancel(w) \/ Reopen(w) \/ RetryClick(w) \/ RetryEnqueue(w) \/ RetryPostWrite(w)
    PROVE  Once'
<1>0. /\ row \in Variant /\ live \in 0..2 /\ (lock = None => Now = row)
      /\ lock = w => pc[w] \in {"call", "read", "write", "refresh"}
      /\ None \notin Workers
  BY TypedAs, PublishAssumption DEF Now, Once, LockHeld, Attempting
<1>1. /\ live' = live /\ scene' = scene
      /\ Elsewhere /\ \A v \in Workers : v # w => pc'[v] = pc[v]
  <2>1. \E at \in {"idle", "cancel", "reopen", "retry_post", "enqueue"} : Goto(w, at, Nothing)
    BY DEF LookAtPost, Look, Cancel, Reopen, RetryClick, RetryEnqueue, RetryPostWrite, Stop
  <2>2. {"idle", "cancel", "reopen", "retry_post", "enqueue"} \subseteq Places \ {"call", "read", "write", "schedule"}
    BY DEF Places
  <2> QED BY <2>1, <2>2, GotoElsewhere DEF LookAtPost, Look, Cancel, Reopen, RetryClick, RetryEnqueue, RetryPostWrite
<1>2. (lock' = None \/ (lock' = lock /\ draft' = draft /\ row' = row /\ lock # w)) /\ Harmless
  <2>1. CASE LookAtPost(w)
    BY <1>0, <2>1 DEF LookAtPost, Look, Now, Harmless
  <2>2. CASE Cancel(w) \/ Reopen(w)
    <3>1. /\ lock = None /\ lock' = lock /\ draft' = draft
          /\ row'.token = row.token
          /\ row.status \in Schedulable \cup {"cancelled"} \/ (row'.status = row.status /\ row'.flag = row.flag /\ row'.age = row.age)
      BY <1>0, <2>2 DEF Cancel, Reopen, PostFree, Refreshed, Variant, Schedulable, Unstarted
    <3> QED BY <1>0, <3>1 DEF Now, Harmless
  <2>3. CASE RetryClick(w)
    <3>1. lock = None /\ lock' = lock /\ draft' = draft /\ row'.token = row.token /\ row.status \in Schedulable
      BY <1>0, <2>3 DEF RetryClick, Variant, Schedulable
    <3> QED BY <1>0, <3>1 DEF Now, Harmless
  <2>4. CASE RetryEnqueue(w)
    <3>1. pc[w] = "enqueue" /\ "broker" \notin scene.faults
      BY <2>4 DEF RetryEnqueue, NoRetry, Covered
    <3>2. ~Lost
      BY <2>4, <3>1 DEF RetryEnqueue, Enqueue, Fault, Lost
    <3> QED BY <1>0, <2>4, <3>1, <3>2 DEF RetryEnqueue, Now, Harmless
  <2>5. CASE RetryPostWrite(w)
    <3>1. /\ lock = None /\ lock' = lock /\ draft' = draft /\ row'.token = row.token
          /\ my[w].seen.status \in Schedulable \/ (row'.status = row.status /\ row'.flag = row.flag /\ row'.age = row.age)
      BY <1>0, <2>5 DEF RetryPostWrite, Scheduled, Variant
    <3>2. CASE my[w].seen.status \in Schedulable
      <4>1. live = 0 /\ \A v \in Workers : ~Calling(v) /\ ~(pc[v] = "read" /\ Now.token = v)
        BY <2>5, <3>2 DEF RetryPostWrite, Once, Schedules
      <4>2. \A v \in Workers : ~(Attempting(v) /\ Now.token = v)
        BY <4>1 DEF Attempting, Calling
      <4> QED BY <1>0, <3>1, <4>1, <4>2 DEF Now, Harmless
    <3> QED BY <1>0, <3>1, <3>2 DEF Now, Harmless
  <2> QED BY <2>1, <2>2, <2>3, <2>4, <2>5
<1> QED BY <1>1, <1>2, LeavingOnce

LEMMA TakeOnce ==
    ASSUME TypeOK, NoRetry, Covered, Once, NEW w \in Workers, NEW t \in Task, TakeVariant(w, t) \/ TakePost(w, t)
    PROVE  Once'
<1>0. row \in Variant /\ lock = None /\ Now = row /\ None \notin Workers
  BY TypedAs, PublishAssumption DEF Now, TakeVariant, TakePost, PostFree
<1>1. live' = live /\ scene' = scene /\ lock' = lock /\ draft' = draft /\ Now' = row'
  BY <1>0 DEF TakeVariant, TakePost, Now
<1>2. Elsewhere /\ \A v \in Workers : v # w => pc'[v] = pc[v]
  <2>1. CASE UNCHANGED <<pc, my>>
    BY <2>1 DEF Elsewhere
  <2>2. CASE \E at \in {"claim", "refresh"} : Goto(w, at, [Nothing EXCEPT !.task = t])
    BY <2>2, GotoElsewhere DEF Places
  <2> QED BY <2>1, <2>2 DEF TakeVariant, TakePost
<1>3. Harmless
  <2>1. CASE row' = row
    BY <1>0, <1>1, <2>1 DEF Harmless
  <2>2. CASE TakeVariant(w, t) /\ row' # row
    <3>1. row' = Unapproved(t) /\ scene.unready /\ ~Skipped(t) /\ queue[t] > 0 /\ t.kind # "post"
      BY <2>2 DEF TakeVariant
    <3>2. t.kind = "scheduled"
      BY <3>1 DEF NoRetry, Covered, Task
    <3>3. row.status \in Schedulable /\ row'.token = row.token
      BY <1>0, <3>1, <3>2 DEF Skipped, Unapproved, Refreshed, Variant, Schedulable
    <3> QED BY <1>0, <1>1, <3>3 DEF Harmless
  <2>3. CASE TakePost(w, t) /\ row' # row
    <3>1. /\ row'.token = row.token /\ row'.status = row.status /\ row'.flag = row.flag /\ row'.age = row.age
      BY <1>0, <2>3 DEF TakePost, Variant
    <3> QED BY <1>0, <1>1, <3>1 DEF Harmless
  <2> QED BY <2>1, <2>2, <2>3
<1> QED BY <1>0, <1>1, <1>2, <1>3, LeavingOnce

\* What an unchanged row and an idle worker's step leave as they are.
LEMMA RecoveryOnce ==
    ASSUME TypeOK, NoVideo, Covered, Once, NEW w \in Workers,
           PollStart(w) \/ RecoverSelect(w) \/ RecoverWrite(w) \/ Polling(w) \/ Raise(w)
    PROVE  Once'
<1>0. /\ row \in Variant /\ None \notin Workers
      /\ lock = w => pc[w] \in {"call", "read", "write", "refresh"}
  BY TypedAs, PublishAssumption DEF Once, LockHeld, Attempting
<1>1. ~PollStart(w) /\ ~Polling(w) /\ ~Raise(w)
  BY DEF NoVideo, Covered, PollPlaces, PollStart, Polling, Poll, BoxClaim, BoxCall, BoxWrite, BoxFail, Raise, Fault
<1>2. /\ live' = live /\ scene' = scene /\ lock' = lock /\ draft' = draft /\ lock # w
      /\ Elsewhere /\ \A v \in Workers : v # w => pc'[v] = pc[v]
  <2>1. \E at \in {"idle", "recover"} : Goto(w, at, Nothing)
    BY <1>1 DEF RecoverSelect, RecoverWrite, Stop
  <2>2. {"idle", "recover"} \subseteq Places \ {"call", "read", "write", "schedule"}
    BY DEF Places
  <2> QED BY <1>0, <1>1, <2>1, <2>2, GotoElsewhere DEF RecoverSelect, RecoverWrite
<1>3. Harmless
  <2>1. CASE row' = row
    BY <1>2, <2>1 DEF Now, Harmless
  <2>2. CASE RecoverWrite(w) /\ row' # row
    <3>1. lock = None /\ row'.status = "reconciling" /\ row'.token = None
      BY <1>0, <2>2 DEF RecoverWrite, PostFree, Refreshed, Variant
    <3> QED BY <1>2, <3>1 DEF Now, Harmless
  <2> QED BY <1>1, <2>1, <2>2 DEF RecoverSelect
<1>4. lock = None \/ row' = row
  BY <1>1 DEF RecoverSelect, RecoverWrite, PostFree
<1> QED BY <1>2, <1>3, <1>4, LeavingOnce

\* The claim of a task, and of a workflow, which may hold the row.
LEMMA NobodyCalls ==
    ASSUME Once, lock = None, ~Blocked(row)
    PROVE  live = 0 /\ \A v \in Workers : ~Calling(v) /\ ~(Attempting(v) /\ row.token = v)
<1>1. Now = row
  BY DEF Now
<1>2. live = 0
  BY <1>1 DEF Once, InDoubt, Blocked
<1>3. ASSUME NEW v \in Workers PROVE ~(Attempting(v) /\ row.token = v)
  BY <1>1 DEF Once, Owner, Blocked
<1>4. ASSUME NEW v \in Workers PROVE ~Calling(v)
  <2>1. Calling(v) => row.token = v \/ row.status = "reconciling"
    BY <1>1 DEF Once, Caller
  <2> QED BY <1>3, <2>1 DEF Calling, Attempting, Blocked
<1> QED BY <1>2, <1>3, <1>4

LEMMA ClaimOnce ==
    ASSUME TypeOK, Covered, Once, NEW w \in Workers, Claim(w) \/ WorkflowClaim(w)
    PROVE  Once'
<1>0. row \in Variant /\ lock = None /\ Now = row /\ None \notin Workers /\ pc \in [Workers -> Places] /\ my \in [Workers -> Memory]
  BY TypedAs, PublishAssumption DEF Now, Claim, WorkflowClaim, PostFree
<1>1. live' = live /\ scene' = scene
  BY DEF Claim, WorkflowClaim
<1>2. CASE Claim(w) /\ row' = row /\ pc'[w] # "call"
  <2>1. lock' = lock /\ draft' = draft /\ lock # w /\ Now' = Now
    BY <1>0, <1>2 DEF Claim, Now
  <2>2. Elsewhere /\ \A v \in Workers : v # w => pc'[v] = pc[v]
    <3>1. \E at \in {"idle", "refresh"}, mem \in {Nothing, my[w]} : Goto(w, at, mem)
      BY <1>0, <1>2 DEF Claim, Stop, Goto
    <3> QED BY <3>1, GotoElsewhere DEF Places
  <2>3. Harmless
    BY <2>1 DEF Harmless
  <2> QED BY <1>0, <1>1, <2>1, <2>2, <2>3, LeavingOnce
<1>3. CASE ~(Claim(w) /\ row' = row /\ pc'[w] # "call")
  <2>1. /\ ~Blocked(row) /\ PostFree /\ pc[w] \in {"idle", "claim"}
        /\ \E mem : Goto(w, "call", mem)
        /\ \/ lock' = None /\ row' = Claimed(row, w)
           \/ lock' = w /\ draft' = Claimed(row, w) /\ row' = row /\ scene.outerTx
    <3>1. CASE WorkflowClaim(w)
      BY <1>0, <3>1 DEF WorkflowClaim
    <3>2. CASE Claim(w) /\ ~(~Blocked(row) /\ row' = Claimed(row, w) /\ Goto(w, "call", my[w]))
      <4>1. row' = row /\ \E at \in {"idle", "refresh"}, mem \in {Nothing, my[w]} : Goto(w, at, mem)
        BY <3>2 DEF Claim, Stop
      <4>2. pc'[w] # "call"
        BY <1>0, <4>1 DEF Goto
      <4> QED BY <1>3, <3>2, <4>1, <4>2
    <3>3. CASE Claim(w) /\ ~Blocked(row) /\ row' = Claimed(row, w) /\ Goto(w, "call", my[w])
      BY <1>0, <3>3 DEF Claim
    <3> QED BY <3>1, <3>2, <3>3
  <2>2. live = 0 /\ \A v \in Workers : ~Calling(v) /\ ~(Attempting(v) /\ row.token = v)
    BY <1>0, <2>1, NobodyCalls
  <2>3. pc' = [pc EXCEPT ![w] = "call"] /\ \A v \in Workers : v # w => my'[v] = my[v]
    BY <1>0, <2>1 DEF Goto
  <2>4. Now' = Claimed(row, w)
    BY <1>0, <2>1 DEF Now
  <2>5. Now'.token = w /\ Now'.status = "publishing" /\ Now'.flag /\ Now'.age = "fresh"
    BY <1>0, <2>4 DEF Claimed, Variant
  <2>6. \A v \in Workers : /\ v # w => ((Calling(v))' <=> Calling(v)) /\ ((Attempting(v))' <=> Attempting(v))
                           /\ pc'[v] # "schedule"
    BY <1>0, <2>1, <2>3 DEF Calling, Attempting, PostFree
  <2>7. LockHeld'
    <3>1. CASE lock' = None
      BY <3>1, LockFree
    <3>2. CASE lock' = w /\ draft' = Claimed(row, w) /\ row' = row /\ scene.outerTx
      <4>1. draft'.token = w
        BY <2>4, <2>5, <3>2
      <4>2. pc'[w] = "call"
        BY <1>0, <2>3
      <4>3. \A v \in Workers : (Attempting(v))' /\ row'.token = v => v = w
        BY <2>2, <2>6, <3>2
      <4>4. \A v \in Workers : lock' = v => v = w
        BY <3>2
      <4>5. (Attempting(w))'
        BY <4>2 DEF Attempting
      <4> QED BY <1>1, <3>2, <4>1, <4>3, <4>4, <4>5 DEF LockHeld
    <3> QED BY <2>1, <3>1, <3>2
  <2>8. Owner' /\ Caller'
    BY <2>2, <2>5, <2>6 DEF Owner, Caller
  <2>9. Alone' /\ Before' /\ InDoubt' /\ Result' /\ Schedules'
    BY <1>0, <1>1, <2>2, <2>3, <2>6 DEF Alone, Before, InDoubt, Result, Schedules
  <2> QED BY <2>7, <2>8, <2>9 DEF Once
<1> QED BY <1>2, <1>3

\* What the provider's answer, or a worker that dies, may leave behind.
LEMMA WhoCalls ==
    ASSUME Once, NEW w \in Workers, pc[w] = "call"
    PROVE  /\ live = 0 /\ \A v \in Workers : Calling(v) => v = w
           /\ Now.status = "reconciling" \/ (Now.status = "publishing" /\ Now.flag)
           /\ \A v \in Workers : Attempting(v) /\ Now.token = v => v = w
           /\ \A v \in Workers : pc[v] = "schedule" => my[v].seen.status \notin Schedulable /\ lock = None
<1>1. live = 0
  BY DEF Once, Before
<1>2. Calling(w) /\ Attempting(w)
  BY DEF Calling, Attempting
<1>3. \A v \in Workers : Calling(v) => v = w
  BY <1>2 DEF Once, Alone
<1>4. Now.status = "reconciling" \/ (Now.token = w /\ Now.status = "publishing" /\ Now.flag)
  BY <1>2 DEF Once, Caller, Owner
<1>5. \A v \in Workers : Attempting(v) /\ Now.token = v => v = w
  BY <1>4 DEF Once, Owner
<1>6. \A v \in Workers : pc[v] = "schedule" => my[v].seen.status \notin Schedulable /\ lock = None
  BY <1>2 DEF Once, Schedules
<1> QED BY <1>1, <1>3, <1>4, <1>5, <1>6

LEMMA CallOnce ==
    ASSUME TypeOK, NoVideo, Covered, Once, NEW w \in Workers, Call(w)
    PROVE  Once'
<1>0. /\ pc[w] = "call" /\ ~row.video /\ pc \in [Workers -> Places] /\ my \in [Workers -> Memory] /\ my[w] \in Memory
  BY TypedAs DEF Call, NoVideo, Covered
<1>1. /\ scene' = scene /\ row' = row /\ lock' = lock /\ draft' = draft /\ Now' = Now
  BY DEF Call, Now
<1>2. PICK res \in Answers : /\ Goto(w, "read", [my[w] EXCEPT !.res = res])
                             /\ live' = live \/ (live' = Landed /\ res \in {"ok", "unknown"})
  BY <1>0 DEF Call, Answers
<1>3. /\ pc' = [pc EXCEPT ![w] = "read"] /\ my'[w].res = res /\ \A v \in Workers : v # w => my'[v] = my[v]
  BY <1>0, <1>2 DEF Goto, Memory
<1>4. /\ live = 0 /\ \A v \in Workers : Calling(v) => v = w
      /\ Now.status = "reconciling" \/ (Now.status = "publishing" /\ Now.flag)
      /\ \A v \in Workers : Attempting(v) /\ Now.token = v => v = w
      /\ \A v \in Workers : pc[v] = "schedule" => my[v].seen.status \notin Schedulable /\ lock = None
  BY <1>0, WhoCalls
<1>5. live' = 0 \/ (live' = 1 /\ res \in {"ok", "unknown"})
  BY <1>2, <1>4 DEF Landed
<1>6. \A v \in Workers : /\ (Attempting(v))' <=> Attempting(v)
                         /\ ~(Calling(v))' /\ pc'[v] # "write" /\ pc'[v] # "call"
                         /\ pc'[v] = "schedule" => pc[v] = "schedule" /\ my'[v] = my[v]
  BY <1>0, <1>3, <1>4 DEF Attempting, Calling
<1>7. LockHeld'
  BY <1>0, <1>1, <1>3, <1>6 DEF Once, LockHeld
<1>8. Owner' /\ Caller' /\ Alone' /\ Before'
  BY <1>1, <1>6 DEF Once, Owner, Caller, Alone, Before
<1>9. InDoubt'
  BY <1>1, <1>4, <1>5 DEF InDoubt
<1>10. Result'
  <2>1. \A v \in Workers : pc'[v] = "read" /\ Now.token = v => v = w
    BY <1>4, <1>6 DEF Attempting
  <2> QED BY <1>1, <1>3, <1>5, <1>6, <2>1 DEF Result
<1>11. Schedules'
  BY <1>1, <1>4, <1>6 DEF Schedules
<1> QED BY <1>7, <1>8, <1>9, <1>10, <1>11 DEF Once

\* An answer is read back by the owner of the claim, or dropped.
LEMMA ReadOnce ==
    ASSUME TypeOK, NoVideo, Covered, Once, NEW w \in Workers, ReadBack(w)
    PROVE  Once'
<1>0. /\ pc[w] = "read" /\ pc \in [Workers -> Places] /\ my \in [Workers -> Memory] /\ my[w] \in Memory
      /\ None \notin Workers
  BY TypedAs, PublishAssumption DEF ReadBack
<1>1. /\ scene' = scene /\ live' = live /\ row' = row /\ lock' = lock /\ draft' = draft /\ Now' = Now
  BY DEF ReadBack, Now
<1>2. CASE ~Owns(w, Seen(w))
  <2>1. lock # w
    <3>1. lock = w => Seen(w) = Now /\ Now = draft /\ draft.token = w /\ Attempting(w)
      BY <1>0 DEF Seen, Now, Once, LockHeld, Attempting
    <3> QED BY <1>2, <3>1 DEF Once, Owner, Owns
  <2>2. \E at \in {"refresh", "idle"}, mem \in {Nothing, my[w]} : Goto(w, at, mem)
    BY <1>2 DEF ReadBack, Stop
  <2>3. Elsewhere /\ \A v \in Workers : v # w => pc'[v] = pc[v]
    BY <2>2, GotoElsewhere DEF Places
  <2>4. Harmless
    BY <1>1 DEF Harmless
  <2> QED BY <1>1, <2>1, <2>3, <2>4, LeavingOnce
<1>3. CASE Owns(w, Seen(w))
  <2>0. Attempting(w) /\ ~Calling(w)
    BY <1>0 DEF Attempting, Calling
  <2>1. Seen(w) = Now
    <3>1. ASSUME lock \notin {None, w} PROVE FALSE
      <4>1. row.token = w
        BY <1>3, <3>1 DEF Seen, Owns
      <4>2. lock \in Workers
        BY <3>1, TypedAs
      <4> QED BY <2>0, <3>1, <4>1, <4>2 DEF Once, LockHeld
    <3> QED BY <1>0, <3>1 DEF Seen, Now
  <2>2. Now.token = w /\ Now.status = "publishing"
    BY <1>3, <2>1 DEF Owns
  <2>3. /\ pc' = [pc EXCEPT ![w] = "write"] /\ my'[w].res = my[w].res
        /\ \A v \in Workers : v # w => my'[v] = my[v]
    BY <1>0, <1>3 DEF ReadBack, Goto, Memory
  <2>4. \A v \in Workers : /\ (Attempting(v))' <=> Attempting(v)
                           /\ (Calling(v))' <=> Calling(v) \/ v = w
                           /\ v # w => pc'[v] = pc[v]
    BY <1>0, <2>3 DEF Attempting, Calling
  <2>5. pc'[w] = "write"
    BY <1>0, <2>3
  <2>6. \A v \in Workers : ~Calling(v)
    BY <2>0, <2>2 DEF Once, Caller
  <2>7. LockHeld'
    BY <1>0, <1>1, <2>4, <2>0 DEF Once, LockHeld
  <2>8. Owner' /\ Caller' /\ Alone'
    BY <1>1, <2>2, <2>4, <2>6 DEF Once, Owner, Caller, Alone
  <2>9. Before' /\ InDoubt'
    BY <1>1, <2>4, <2>5 DEF Once, Before, InDoubt
  <2>10. Result'
    BY <1>0, <1>1, <2>2, <2>3, <2>4 DEF Once, Result
  <2>11. Schedules'
    <3>1. \A v \in Workers : pc[v] = "schedule" => my[v].seen.status \notin Schedulable
      BY <1>0, <2>2 DEF Once, Schedules
    <3> QED BY <1>1, <2>3, <2>4, <2>5, <3>1 DEF Once, Schedules
  <2> QED BY <2>7, <2>8, <2>9, <2>10, <2>11 DEF Once
<1> QED BY <1>2, <1>3

\* A saved answer ends the claim, and leaves what is live published or in doubt.
LEMMA WriteOnce ==
    ASSUME TypeOK, Covered, Once, NEW w \in Workers, WriteBack(w)
    PROVE  Once'
<1>0. /\ pc[w] = "write" /\ pc \in [Workers -> Places] /\ my \in [Workers -> Memory]
      /\ my[w].seen \in Variant /\ my[w].res \in Answers /\ my[w].box \in 0..MaxBoxes
      /\ None \notin Workers /\ lock \in Workers \cup {None}
  BY TypedAs, PublishAssumption DEF WriteBack, Memory
<1>1. scene' = scene /\ live' = live /\ lock' = lock
  BY DEF WriteBack, Update
<1>2. PICK o \in Variant : o = Outcome(my[w].seen, my[w].res, my[w].box)
  BY <1>0, OutcomeTyped
<1>3. /\ o.token = None
      /\ my[w].res \in {"ok", "unknown"} => o.status \in {"published", "reconciling"}
  BY <1>0, <1>2 DEF Outcome, Variant
<1>4. PICK x : Update(w, x) /\ x.token = o.token /\ x.status = o.status
  <2>1. Update(w, [o EXCEPT !.parent = Seen(w).parent, !.due = Seen(w).due, !.sent = Seen(w).sent, !.age = Seen(w).age])
    BY <1>2 DEF WriteBack
  <2>2. \A r : /\ [o EXCEPT !.parent = r.parent, !.due = r.due, !.sent = r.sent, !.age = r.age].token = o.token
               /\ [o EXCEPT !.parent = r.parent, !.due = r.due, !.sent = r.sent, !.age = r.age].status = o.status
    BY DEF Variant
  <2> QED BY <2>1, <2>2
<1>5. Now' = x
  BY <1>0, <1>4 DEF Update, Now
<1>6. pc' = [pc EXCEPT ![w] = "refresh"] /\ \A v \in Workers : v # w => my'[v] = my[v]
  BY <1>0 DEF WriteBack, Goto
<1>7. \A v \in Workers : /\ (Attempting(v))' => Attempting(v)
                         /\ ~(Calling(v))' /\ pc'[v] # "call" /\ pc'[v] # "write"
                         /\ pc'[v] = "schedule" => pc[v] = "schedule" /\ my'[v] = my[v]
  <2>1. Calling(w)
    BY <1>0 DEF Calling
  <2> QED BY <1>0, <1>6, <2>1 DEF Once, Alone, Attempting, Calling
<1>8. LockHeld'
  <2>1. CASE lock = None
    BY <1>1, <2>1, LockFree
  <2>2. CASE lock = w
    <3>1. row' = row
      BY <1>0, <1>4, <2>2 DEF Update
    <3>2. pc'[w] = "refresh"
      BY <1>0, <1>6
    <3> QED BY <1>1, <1>7, <2>2, <3>1, <3>2 DEF Once, LockHeld
  <2> QED BY <1>0, <1>4, <2>1, <2>2 DEF Update
<1>9. Owner' /\ Caller' /\ Alone' /\ Before'
  BY <1>0, <1>3, <1>4, <1>5, <1>7 DEF Owner, Caller, Alone, Before
<1>10. InDoubt'
  <2>1. live # 0 => my[w].res \in {"ok", "unknown"} /\ live = 1
    BY <1>0 DEF Once, Result, InDoubt
  <2> QED BY <1>1, <1>3, <1>4, <1>5, <2>1 DEF InDoubt
<1>11. Result'
  BY <1>0, <1>3, <1>4, <1>5, <1>7 DEF Result
<1>12. Schedules'
  <2>1. Calling(w)
    BY <1>0 DEF Calling
  <2> QED BY <1>1, <1>7, <2>1 DEF Once, Schedules
<1> QED BY <1>8, <1>9, <1>10, <1>11, <1>12 DEF Once

LEMMA RefreshOnce ==
    ASSUME TypeOK, Once, NEW w \in Workers, RefreshParent(w)
    PROVE  Once'
<1>0. /\ row \in Variant /\ draft \in Variant /\ None \notin Workers
  BY TypedAs, PublishAssumption
<1>1. live' = live /\ scene' = scene /\ lock' = None
  BY DEF RefreshParent
<1>2. Seen(w) = Now /\ Now \in Variant /\ Now' = Refreshed(Now)
  BY <1>0, <1>1 DEF RefreshParent, PostFree, Seen, Now
<1>3. Now'.token = Now.token /\ Now'.status = Now.status /\ Now'.flag = Now.flag /\ Now'.age = Now.age
  BY <1>2 DEF Refreshed, Variant
<1>4. Elsewhere /\ \A v \in Workers : v # w => pc'[v] = pc[v]
  BY GotoElsewhere DEF RefreshParent, Stop, Places
<1>5. Harmless
  BY <1>3 DEF Harmless
<1> QED BY <1>1, <1>4, <1>5, LeavingOnce

\* What a worker that dies had sent may still go live: its claim stands until
\* the channel is in doubt.
LEMMA CrashOnce ==
    ASSUME TypeOK, NoVideo, Covered, Once, NEW w \in Workers, Crash(w)
    PROVE  Once'
<1>0. /\ pc \in [Workers -> Places] /\ my \in [Workers -> Memory] /\ None \notin Workers
      /\ pc[w] # "boxcall" /\ ~scene.outerTx
  BY TypedAs, PublishAssumption DEF NoVideo, Covered, PollPlaces, Crash, Fault
<1>1. lock # w
  BY <1>0 DEF Once, LockHeld
<1>2. /\ scene' = scene /\ lock' = lock /\ draft' = draft /\ row' = row /\ Stop(w)
  BY <1>1 DEF Crash
<1>3. Now' = Now
  BY <1>2 DEF Now
<1>4. Elsewhere /\ \A v \in Workers : v # w => pc'[v] = pc[v]
  BY <1>2, GotoElsewhere DEF Stop, Places
<1>5. CASE live' = live
  <2>1. Harmless
    BY <1>3 DEF Harmless
  <2> QED BY <1>1, <1>2, <1>4, <1>5, <2>1, LeavingOnce
<1>6. CASE live' # live
  <2>1. pc[w] = "call" /\ live' = Landed
    BY <1>0, <1>6 DEF Crash
  <2>2. /\ live = 0 /\ \A v \in Workers : Calling(v) => v = w
        /\ Now.status = "reconciling" \/ (Now.status = "publishing" /\ Now.flag)
        /\ \A v \in Workers : Attempting(v) /\ Now.token = v => v = w
        /\ \A v \in Workers : pc[v] = "schedule" => my[v].seen.status \notin Schedulable /\ lock = None
    BY <2>1, WhoCalls
  <2>3. live' = 1
    BY <2>1, <2>2 DEF Landed
  <2>4. pc'[w] = "idle"
    BY <1>0, <1>2 DEF Stop, Goto
  <2>5. \A v \in Workers : /\ (Attempting(v))' => Attempting(v) /\ v # w
                           /\ ~(Calling(v))' /\ pc'[v] # "call" /\ pc'[v] # "write"
                           /\ pc'[v] = "schedule" => pc[v] = "schedule" /\ my'[v] = my[v]
    BY <1>4, <2>2, <2>4 DEF Elsewhere, Attempting, Calling
  <2>6. LockHeld'
    BY <1>1, <1>2, <1>4, <2>5, LockKept DEF Once
  <2>7. Owner' /\ Caller' /\ Alone' /\ Before'
    BY <1>3, <2>5 DEF Once, Owner, Caller, Alone, Before
  <2>8. InDoubt'
    BY <1>3, <2>2, <2>3 DEF InDoubt
  <2>9. Result'
    BY <1>3, <2>2, <2>5 DEF Result, Attempting
  <2>10. Schedules'
    BY <1>2, <2>2, <2>5 DEF Schedules
  <2> QED BY <2>6, <2>7, <2>8, <2>9, <2>10 DEF Once
<1> QED BY <1>5, <1>6

\* post_retry reads a channel that has failed, with nothing live or under way.
LEMMA RetryReadOnce ==
    ASSUME TypeOK, Once, NEW w \in Workers, RetryPostRead(w)
    PROVE  Once'
<1>0. /\ pc \in [Workers -> Places] /\ my \in [Workers -> Memory] /\ None \notin Workers /\ lock = None
      /\ row \in Variant
  BY TypedAs, PublishAssumption DEF RetryPostRead, PostFree
<1>1. scene' = scene /\ row' = row /\ lock' = lock /\ draft' = draft /\ live' = live /\ Now' = Now /\ Now = row
  BY <1>0 DEF RetryPostRead, Now
<1>2. pc' = [pc EXCEPT ![w] = "schedule"] /\ my' = [my EXCEPT ![w] = [Nothing EXCEPT !.seen = row]]
  BY DEF RetryPostRead, Goto
<1>3. my'[w].seen = row
  BY <1>0, <1>2 DEF Nothing
<1>4. \A v \in Workers : /\ (Attempting(v))' => Attempting(v) /\ pc'[v] = pc[v] /\ my'[v] = my[v]
                         /\ (Calling(v))' => Calling(v)
  BY <1>0, <1>2 DEF Attempting, Calling
<1>5. LockHeld'
  BY <1>0, <1>1, LockFree
<1>6. Owner' /\ Caller' /\ Alone' /\ Before' /\ InDoubt'
  BY <1>0, <1>1, <1>2, <1>4 DEF Once, Owner, Caller, Alone, Before, InDoubt
<1>7. Result'
  BY <1>0, <1>1, <1>2 DEF Once, Result
<1>8. Schedules'
  <2>1. row.status \in Schedulable => live = 0 /\ \A v \in Workers : ~Calling(v) /\ ~(Attempting(v) /\ row.token = v)
    <3>1. row.status \in Schedulable => ~Blocked(row)
      BY DEF Schedulable, Blocked
    <3> QED BY <1>0, <3>1, NobodyCalls
  <2>2. \A v \in Workers : pc[v] # "schedule"
    BY DEF RetryPostRead, PostFree
  <2>3. \A v \in Workers : pc'[v] = "schedule" => v = w
    BY <1>0, <1>2, <2>2
  <2>4. \A v \in Workers : pc'[v] = "read" => (Attempting(v))'
    BY DEF Attempting
  <2> QED BY <1>0, <1>1, <1>3, <1>4, <2>1, <2>3, <2>4 DEF Schedules
<1> QED BY <1>5, <1>6, <1>7, <1>8 DEF Once

LEMMA NextOnce == TypeOK /\ NoVideo /\ NoRetry /\ Covered /\ Once /\ [Next]_vars => Once'
<1> SUFFICES ASSUME TypeOK, NoVideo, NoRetry, Covered, Once, [Next]_vars PROVE Once'
  OBVIOUS
<1>1. ASSUME NEW w \in Workers, Work(w) \/ Take(w) \/ User(w) \/ PollStart(w) \/ RecoverSelect(w) \/ Raise(w) \/ Crash(w)
      PROVE  Once'
  BY <1>1, PagesOnce, TakeOnce, RecoveryOnce, ClaimOnce, CallOnce, ReadOnce, WriteOnce, RefreshOnce, CrashOnce, RetryReadOnce
     DEF Work, Take, User, Attempt
<1> QED BY <1>1, RowOnce DEF Next

\* "Safe for concurrent calls": in each of these scenes, whatever the tasks,
\* workers, requests and crashes, a text or photo goes live at most once.
THEOREM LiveOnce == Spec => [](Covered => PublishedOnce)
<1> DEFINE I == TypeOK /\ NoVideo /\ NoRetry /\ (Covered => Once)
<1>1. Init => I
  BY InitTyped, InitNoVideo, InitNoRetry, InitOnce
<1>2. I /\ [Next]_vars => I'
  <2>1. [Next]_vars => (Covered' <=> Covered)
    BY SceneKept DEF Covered
  <2> QED BY <2>1, NextTyped, VideoKept, RetryKept, NextOnce
<1>3. I => (Covered => PublishedOnce)
  BY DEF Once, InDoubt, PublishedOnce, TypeOK
<1> QED BY <1>1, <1>2, <1>3, PTL DEF Spec

-----------------------------------------------------------------------------
(* A post at rest says what its channel does.                              *)

\* The scenes of ParentAgrees, with attempts that end before a lease does.
Plain == faults = 0 /\ scene.prompt /\ scene.users \subseteq {"compose", "cancel"} /\ ~scene.unready

NotAsked == {"enqueue", "reopen", "retry_post", "schedule", "recover"}
Unheld == lock = None /\ \A w \in Workers : pc[w] \notin NotAsked

\* A channel is PUBLISHING exactly while the worker of its claim is at it.
Claimant == \A w \in Workers : Attempting(w) => row.status = "publishing" /\ row.token = w
Publisher == row.status = "publishing" =>
                /\ row.flag /\ row.age = "fresh"
                /\ \E w \in Workers : row.token = w /\ Attempting(w)

\* The post may differ from its channel only while somebody will refresh it.
Refreshing(w) == Attempting(w) \/ pc[w] = "refresh"
Begun == Ongoing \cup {"published", "failed"}
Pending == row.status \in Begun => row.parent = Parent(row.status) \/ \E w \in Workers : Refreshing(w)

Tidy == Unheld /\ Claimant /\ Publisher /\ Pending

LEMMA ParentIs ==
    /\ \A s \in Ongoing : Parent(s) = "publishing"
    /\ \A s \in Begun : Parent(s) \in {"publishing", "published", "failed"}
<1>1. ASSUME NEW s \in Ongoing PROVE Parent(s) = "publishing"
  BY <1>1 DEF Parent, Ongoing, Unstarted
<1>2. Parent("published") = "published" /\ Parent("failed") = "failed"
  BY DEF Parent, Ongoing, Unstarted
<1> QED BY <1>1, <1>2 DEF Begun

LEMMA InitTidy == Init => Tidy
<1> SUFFICES ASSUME Init PROVE Tidy
  OBVIOUS
<1>1. row.status = "draft" /\ lock = None /\ \A w \in Workers : pc[w] = "idle"
  BY DEF Init, NewRow
<1> QED BY <1>1 DEF Tidy, Unheld, NotAsked, Claimant, Publisher, Pending, Begun, Ongoing, Attempting, Refreshing

\* The workers stay at their attempts, and the row keeps its claim, if it has one.
LEMMA TidyKept ==
    ASSUME Tidy, lock' = None,
           \A w \in Workers : /\ (Attempting(w))' <=> Attempting(w)
                              /\ Refreshing(w) => (Refreshing(w))'
                              /\ pc'[w] \notin NotAsked,
           \/ row'.status = row.status /\ row'.token = row.token /\ row'.flag = row.flag /\ row'.age = row.age
           \/ row.status # "publishing" /\ row'.status # "publishing",
           row'.status \in Begun =>
              row'.parent = Parent(row'.status) \/ \E w \in Workers : (Refreshing(w))'
    PROVE  Tidy'
<1>1. Unheld'
  BY DEF Unheld
<1>2. Claimant' /\ Publisher'
  BY DEF Tidy, Claimant, Publisher
<1>3. Pending'
  BY DEF Pending
<1> QED BY <1>1, <1>2, <1>3 DEF Tidy

\* The steps of no worker.
LEMMA RowTidy ==
    ASSUME TypeOK, Plain, Tidy, faults' = 0,
           \/ Compose \/ Reschedule \/ PublishDueVariant \/ PublishDuePost \/ RecoverUnstarted \/ ReconcileStale
           \/ EscalateExhausted \/ RecoverContainer \/ ConfirmPublished \/ ReconcileRetry \/ Tick
           \/ (\E b \in Boxes : Encode(b)) \/ UNCHANGED vars
    PROVE  Tidy'
<1>0. row \in Variant /\ lock = None
  BY TypedAs DEF Tidy, Unheld
<1>1. /\ pc' = pc /\ my' = my /\ lock' = lock
  BY DEF Compose, Reschedule, PublishDueVariant, PublishDuePost, RecoverUnstarted, ReconcileStale, EscalateExhausted,
         RecoverContainer, ConfirmPublished, ReconcileRetry, Encode, Tick, vars
<1>2. \A w \in Workers : /\ (Attempting(w))' <=> Attempting(w)
                         /\ (Refreshing(w))' <=> Refreshing(w)
                         /\ pc'[w] \notin NotAsked
  BY <1>1 DEF Attempting, Refreshing, Tidy, Unheld
<1>3. SUFFICES /\ \/ row'.status = row.status /\ row'.token = row.token /\ row'.flag = row.flag /\ row'.age = row.age
                  \/ row.status # "publishing" /\ row'.status # "publishing"
               /\ row'.status \in Begun => row'.parent = Parent(row'.status) \/ \E w \in Workers : Refreshing(w)
  BY <1>0, <1>1, <1>2, TidyKept
<1>4. row' = row /\ row'.status \in Begun => row'.parent = Parent(row'.status) \/ \E w \in Workers : Refreshing(w)
  BY DEF Tidy, Pending
<1>5. CASE Compose
  <2>1. row.parent \in {"draft", "scheduled"} /\ ~Lost
    BY <1>5 DEF Compose, Plain, Lost
  <2>2. \E to \in {"draft", "scheduled", "publishing"} : row' = Saved(row, to)
    <3>1. Saved(row, "publishing") \in Variant
      BY <1>0, SavedTyped
    <3>2. Saved(row, "publishing") = [Saved(row, "publishing") EXCEPT !.parent = @]
      BY <3>1 DEF Variant
    <3> QED BY <1>5, <2>1, <3>2 DEF Compose
  <2>3. /\ row.status \in Schedulable \cup {"cancelled"} => row'.status # "publishing"
        /\ row.status \in Unstarted \cup {"cancelled"} => row'.status \in Unstarted
        /\ row.status = "failed" => row'.status \in Schedulable
        /\ row.status \notin Schedulable \cup {"cancelled"} => row'.status = row.status /\ row'.token = row.token /\ row'.flag = row.flag /\ row'.age = row.age
    BY <1>0, <2>2 DEF Saved, Scheduled, Variant, Schedulable, Unstarted
  <2>4. row.status \in Begun => \E w \in Workers : Refreshing(w)
    BY <2>1, ParentIs DEF Tidy, Pending
  <2>5. row.status \notin Begun => row.status \in Unstarted \cup {"cancelled"}
    BY <1>0 DEF Variant, Begun, Schedulable, Unstarted, Ongoing
  <2> QED BY <2>3, <2>4, <2>5 DEF Begun, Schedulable, Unstarted, Ongoing
<1>6. ~Reschedule
  BY DEF Plain, Reschedule
<1>7. CASE PublishDueVariant \/ PublishDuePost
  <2>1. /\ row'.status = row.status /\ row'.token = row.token /\ row'.flag = row.flag /\ row'.age = row.age
        /\ row'.parent = row.parent \/ row.parent = "scheduled"
    BY <1>0, <1>7 DEF PublishDueVariant, PublishDuePost, Variant
  <2>2. row.status \in Begun => row.parent # "scheduled" \/ \E w \in Workers : Refreshing(w)
    BY ParentIs DEF Tidy, Pending
  <2> QED BY <2>1, <2>2 DEF Tidy, Pending
<1>8. ~ReconcileStale
  BY DEF ReconcileStale, Stuck, Tidy, Publisher
<1>9. CASE EscalateExhausted
  <2>1. row.status = "processing" /\ row'.status = "reconciling" /\ row'.parent = row.parent
    BY <1>0, <1>9 DEF EscalateExhausted, Variant
  <2>2. row.status \in Begun /\ Parent(row'.status) = Parent(row.status)
    BY <2>1, ParentIs DEF Begun, Ongoing
  <2> QED BY <2>1, <2>2 DEF Tidy, Pending
<1>10. CASE RecoverContainer \/ ConfirmPublished \/ ReconcileRetry
  <2>1. row.status \in {"processing", "reconciling"} /\ row'.status # "publishing" /\ row'.parent = Parent(row'.status)
    <3>1. CASE RecoverContainer
      BY <1>0, <3>1 DEF RecoverContainer, Refreshed, Variant
    <3>2. CASE ConfirmPublished
      BY <1>0, <3>2 DEF ConfirmPublished, Refreshed, Variant
    <3>3. CASE ReconcileRetry
      BY <1>0, <3>3 DEF ReconcileRetry, Refreshed, Variant
    <3> QED BY <1>10, <3>1, <3>2, <3>3
  <2> QED BY <2>1
<1>11. CASE Tick
  <2>1. ~(row.status = "publishing" /\ row'.age # row.age)
    <3>1. row.status = "publishing" => \E w \in Workers : row.token = w /\ Attempting(w)
      BY DEF Tidy, Publisher
    <3> QED BY <1>0, <1>11, <3>1 DEF Tick, Plain, Variant
  <2>2. row'.status = row.status /\ row'.token = row.token /\ row'.flag = row.flag /\ row'.parent = row.parent
    BY <1>0, <1>11 DEF Tick, Variant
  <2> QED BY <2>1, <2>2 DEF Tidy, Pending
<1>12. CASE RecoverUnstarted \/ (\E b \in Boxes : Encode(b)) \/ UNCHANGED vars
  BY <1>4, <1>12 DEF RecoverUnstarted, Encode, vars
<1> QED BY <1>5, <1>6, <1>7, <1>8, <1>9, <1>10, <1>11, <1>12

\* A worker that is not at an attempt, before or after its step.
LEMMA WorkerTidy ==
    ASSUME TypeOK, Tidy, NEW w \in Workers, lock' = None,
           \A v \in Workers : v # w => pc'[v] = pc[v],
           ~Attempting(w), pc'[w] \notin NotAsked \cup {"call", "read", "write"},
           \/ row'.status = row.status /\ row'.token = row.token /\ row'.flag = row.flag /\ row'.age = row.age
           \/ row.status # "publishing" /\ row'.status # "publishing",
           row'.status \in Begun =>
              \/ row'.parent = Parent(row'.status)
              \/ pc'[w] = "refresh"
              \/ pc[w] # "refresh" /\ row'.status = row.status /\ row'.parent = row.parent
    PROVE  Tidy'
<1>1. \A v \in Workers : (Attempting(v))' <=> Attempting(v)
  BY DEF Attempting
<1>2. Unheld'
  BY DEF Tidy, Unheld
<1>3. Claimant' /\ Publisher'
  BY <1>1 DEF Tidy, Claimant, Publisher
<1>4. Pending'
  <2> SUFFICES ASSUME row'.status \in Begun, row'.parent # Parent(row'.status)
               PROVE  \E v \in Workers : (Refreshing(v))'
    BY DEF Pending
  <2>1. CASE pc'[w] = "refresh"
    BY <2>1 DEF Refreshing
  <2>2. CASE pc[w] # "refresh" /\ row'.status = row.status /\ row'.parent = row.parent
    <3>1. PICK v \in Workers : Refreshing(v)
      BY <2>2 DEF Tidy, Pending
    <3>2. v # w
      BY <2>2, <3>1 DEF Refreshing
    <3> QED BY <3>1, <3>2 DEF Refreshing, Attempting
  <2> QED BY <2>1, <2>2
<1> QED BY <1>2, <1>3, <1>4 DEF Tidy

LEMMA Moved ==
    ASSUME TypeOK, NEW w \in Workers, NEW at, NEW mem, Goto(w, at, mem)
    PROVE  \A v \in Workers : pc'[v] = IF v = w THEN at ELSE pc[v]
BY TypedAs DEF Goto

\* A user looks at the post, or cancels the channel.
LEMMA UserTidy ==
    ASSUME TypeOK, Plain, Tidy, NEW w \in Workers, User(w) \/ Cancel(w)
    PROVE  Tidy'
<1>0. row \in Variant /\ lock = None
  BY TypedAs DEF Tidy, Unheld
<1>1. CASE User(w)
  <2>1. Look(w, "cancel", "scheduled")
    BY <1>1 DEF User, RetryClick, LookAtPost, Look, WorkflowClaim, Plain
  <2>2. /\ pc[w] = "idle" /\ pc'[w] = "cancel" /\ \A v \in Workers : v # w => pc'[v] = pc[v]
        /\ row' = row /\ lock' = None
    BY <1>0, <2>1, Moved DEF Look
  <2> QED BY <2>2, WorkerTidy DEF Attempting, NotAsked
<1>2. CASE Cancel(w)
  <2>1. /\ pc[w] = "cancel" /\ pc'[w] = "idle" /\ \A v \in Workers : v # w => pc'[v] = pc[v]
        /\ lock' = None
    BY <1>0, <1>2, Moved DEF Cancel, Stop
  <2>2. CASE row.status \in Unstarted \cup {"cancelled"}
    <3>1. row'.status = "cancelled"
      BY <1>0, <1>2, <2>2 DEF Cancel, Variant
    <3> QED BY <2>1, <2>2, <3>1, WorkerTidy DEF Attempting, NotAsked, Unstarted, Begun, Ongoing
  <2>3. CASE row.status \notin Unstarted \cup {"cancelled"}
    <3>1. /\ row'.status = row.status /\ row'.token = row.token /\ row'.flag = row.flag /\ row'.age = row.age
          /\ row'.parent = Parent(row.status)
      BY <1>0, <1>2, <2>3 DEF Cancel, Refreshed, Variant
    <3> QED BY <2>1, <3>1, WorkerTidy DEF Attempting, NotAsked
  <2> QED BY <2>2, <2>3
<1> QED BY <1>1, <1>2

\* A task is taken up.
LEMMA TakeTidy ==
    ASSUME TypeOK, Plain, Tidy, NEW w \in Workers, NEW t \in Task, TakeVariant(w, t) \/ TakePost(w, t)
    PROVE  Tidy'
<1>0. row \in Variant /\ lock = None
  BY TypedAs DEF Tidy, Unheld
<1>1. row' = row /\ lock' = None /\ pc[w] = "idle"
  BY <1>0 DEF TakeVariant, TakePost, Plain
<1>2. pc' = pc \/ \E at \in {"refresh", "claim"} : Goto(w, at, [Nothing EXCEPT !.task = t])
  BY DEF TakeVariant, TakePost, Plain
<1>3. pc'[w] \in {"idle", "refresh", "claim"} /\ \A v \in Workers : v # w => pc'[v] = pc[v]
  BY <1>1, <1>2, Moved
<1> QED BY <1>1, <1>3, WorkerTidy DEF Attempting, NotAsked

\* The claim is taken only when nobody has it.
LEMMA ClaimTidy ==
    ASSUME TypeOK, Plain, Tidy, NEW w \in Workers, Claim(w)
    PROVE  Tidy'
<1>0. /\ row \in Variant /\ lock = None /\ lock' = None /\ pc[w] = "claim"
      /\ pc \in [Workers -> Places]
  BY TypedAs DEF Claim, PostFree
<1>1. CASE ~Blocked(row) /\ row' = Claimed(row, w) /\ Goto(w, "call", my[w])
  <2>1. pc'[w] = "call" /\ \A v \in Workers : v # w => pc'[v] = pc[v]
    BY <1>1, Moved
  <2>2. row'.status = "publishing" /\ row'.age = "fresh" /\ row'.flag /\ row'.token = w
    BY <1>0, <1>1 DEF Claimed, Variant
  <2>3. \A v \in Workers : ~Attempting(v)
    BY <1>1 DEF Tidy, Claimant, Publisher, Blocked
  <2>4. \A v \in Workers : (Attempting(v))' <=> v = w
    BY <2>1, <2>3 DEF Attempting
  <2>5. Unheld'
    BY <1>0, <2>1 DEF Tidy, Unheld, NotAsked
  <2>6. Claimant' /\ Publisher' /\ Pending'
    BY <2>2, <2>4 DEF Claimant, Publisher, Pending, Refreshing
  <2> QED BY <2>5, <2>6 DEF Tidy
<1>2. CASE row' = row /\ (Goto(w, "refresh", my[w]) \/ Stop(w))
  <2>1. pc'[w] \in {"refresh", "idle"} /\ \A v \in Workers : v # w => pc'[v] = pc[v]
    BY <1>2, Moved DEF Stop
  <2> QED BY <1>0, <1>2, <2>1, WorkerTidy DEF Attempting, NotAsked
<1> QED BY <1>1, <1>2 DEF Claim

\* The attempt goes on with its claim ...
LEMMA CallTidy ==
    ASSUME TypeOK, Plain, Tidy, NEW w \in Workers, Call(w) \/ ReadBack(w)
    PROVE  Tidy'
<1>0. row \in Variant /\ lock = None /\ lock' = None /\ row' = row
  BY TypedAs DEF Tidy, Unheld, Call, ReadBack
<1>1. Attempting(w)
  BY DEF Call, ReadBack, Attempting
<1>2. Owns(w, Seen(w))
  BY <1>0, <1>1, PublishAssumption DEF Tidy, Claimant, Owns, Seen
<1>3. \E at \in {"read", "write"} : \E mem : Goto(w, at, mem)
  BY <1>2 DEF Call, ReadBack
<1>4. pc'[w] \in {"read", "write"} /\ \A v \in Workers : v # w => pc'[v] = pc[v]
  BY <1>3, Moved
<1>5. \A v \in Workers : ((Attempting(v))' <=> Attempting(v)) /\ (Refreshing(v) => (Refreshing(v))') /\ pc'[v] \notin NotAsked
  BY <1>1, <1>4 DEF Attempting, Refreshing, Tidy, Unheld, NotAsked
<1>6. row'.status \in Begun => row'.parent = Parent(row'.status) \/ \E v \in Workers : (Refreshing(v))'
  BY <1>1, <1>5 DEF Refreshing
<1> QED BY <1>0, <1>5, <1>6, TidyKept

\* ... until it saves the outcome, and with it gives the claim up.
LEMMA WriteTidy ==
    ASSUME TypeOK, Plain, Tidy, NEW w \in Workers, WriteBack(w)
    PROVE  Tidy'
<1>0. /\ row \in Variant /\ lock = None /\ my \in [Workers -> Memory] /\ pc[w] = "write"
      /\ None \notin Workers
  BY TypedAs, PublishAssumption DEF Tidy, Unheld, WriteBack
<1> DEFINE o == Outcome(my[w].seen, my[w].res, my[w].box)
           r == Seen(w)
<1>1. o \in Variant /\ o.status # "publishing"
  <2>1. my[w].seen \in Variant /\ my[w].res \in Answers /\ my[w].box \in 0..MaxBoxes
    BY <1>0 DEF Memory
  <2>2. o \in Variant
    BY <2>1, OutcomeTyped
  <2>3. o.status \in {"published", "reconciling", "processing", "failed"}
    BY <2>1 DEF Outcome, Variant
  <2> QED BY <2>2, <2>3
<1> HIDE DEF o
<1>2. /\ row' = [o EXCEPT !.parent = r.parent, !.due = r.due, !.sent = r.sent, !.age = r.age]
      /\ lock' = None
      /\ Goto(w, "refresh", [my[w] EXCEPT !.seen = NewRow])
  BY <1>0 DEF WriteBack, Update, o
<1>3. row'.status # "publishing"
  BY <1>1, <1>2 DEF Variant
<1>4. pc'[w] = "refresh" /\ \A v \in Workers : v # w => pc'[v] = pc[v]
  BY <1>2, Moved
<1>5. \A v \in Workers : Attempting(v) => v = w
  BY <1>0 DEF Tidy, Claimant, Attempting
<1>6. \A v \in Workers : ~(Attempting(v))'
  BY <1>4, <1>5 DEF Attempting
<1>7. Unheld'
  BY <1>2, <1>4 DEF Tidy, Unheld, NotAsked
<1>8. Claimant' /\ Publisher' /\ Pending'
  BY <1>3, <1>4, <1>6 DEF Claimant, Publisher, Pending, Refreshing
<1> QED BY <1>7, <1>8 DEF Tidy

\* The post is refreshed.
LEMMA RefreshTidy ==
    ASSUME TypeOK, Plain, Tidy, NEW w \in Workers, RefreshParent(w)
    PROVE  Tidy'
<1>0. row \in Variant /\ lock = None /\ lock' = None /\ pc[w] = "refresh" /\ None \notin Workers
  BY TypedAs, PublishAssumption DEF Tidy, Unheld, RefreshParent
<1>1. row' = Refreshed(row)
  BY <1>0 DEF RefreshParent, Seen
<1>2. /\ row'.status = row.status /\ row'.token = row.token /\ row'.flag = row.flag /\ row'.age = row.age
      /\ row'.parent = Parent(row'.status)
  BY <1>0, <1>1 DEF Refreshed, Variant
<1>3. pc'[w] = "idle" /\ \A v \in Workers : v # w => pc'[v] = pc[v]
  BY Moved DEF RefreshParent, Stop
<1> QED BY <1>0, <1>2, <1>3, WorkerTidy DEF Attempting, NotAsked

\* The poller leaves the row of a channel that is published as it is, and looks
\* after the post whenever it has settled one.
LEMMA PollTidy ==
    ASSUME TypeOK, Plain, Tidy, NEW w \in Workers, PollStart(w) \/ Polling(w)
    PROVE  Tidy'
<1>0. row \in Variant /\ lock = None /\ lock' = None
  BY TypedAs DEF Tidy, Unheld, PollStart, Polling, Poll, BoxClaim, BoxCall, BoxWrite, BoxFail
<1>1. pc[w] \in {"idle", "poll", "boxclaim", "boxcall", "boxwrite", "boxfail"}
  BY DEF PollStart, Polling, Poll, BoxClaim, BoxCall, BoxWrite, BoxFail
<1>2. \E at \in {"poll", "boxclaim", "boxcall", "boxwrite", "boxfail", "refresh"} : \E mem : Goto(w, at, mem)
  BY DEF PollStart, Polling, Poll, BoxClaim, BoxCall, BoxWrite, BoxFail
<1>3. pc'[w] \notin NotAsked \cup {"call", "read", "write"} /\ \A v \in Workers : v # w => pc'[v] = pc[v]
  BY <1>2, Moved DEF NotAsked
<1>4. CASE PollStart(w) \/ Poll(w) \/ BoxCall(w)
  <2>1. row' = row
    BY <1>4 DEF PollStart, Poll, BoxCall
  <2> QED BY <1>0, <1>1, <1>3, <2>1, WorkerTidy DEF Attempting
<1>5. CASE BoxClaim(w)
  <2>1. row'.status = row.status /\ row'.token = row.token /\ row'.flag = row.flag /\ row'.age = row.age /\ row'.parent = row.parent
    BY <1>0, <1>5 DEF BoxClaim, Variant
  <2> QED BY <1>0, <1>1, <1>3, <2>1, WorkerTidy DEF Attempting
<1>6. CASE BoxWrite(w) \/ BoxFail(w)
  <2>1. pc'[w] = "refresh"
    BY <1>6, Moved DEF BoxWrite, BoxFail
  <2>2. row' = row \/ (row.status = "processing" /\ \E s \in {"published", "reconciling", "failed"} : row' = Settled(row, s))
    BY <1>6 DEF BoxWrite, BoxFail, Writable
  <2>3. row' = row \/ (row.status # "publishing" /\ row'.status # "publishing")
    BY <1>0, <2>2 DEF Settled, Variant
  <2> QED BY <1>0, <1>1, <1>3, <2>1, <2>3, WorkerTidy DEF Attempting
<1> QED BY <1>4, <1>5, <1>6 DEF Polling

LEMMA FaultsKept == [Next]_vars => faults' \in {faults, faults + 1}
<1> SUFFICES ASSUME [Next]_vars PROVE faults' \in {faults, faults + 1}
  OBVIOUS
<1>1. CASE \/ Compose \/ Reschedule \/ PublishDueVariant \/ PublishDuePost \/ RecoverUnstarted \/ ReconcileStale
           \/ EscalateExhausted \/ RecoverContainer \/ ConfirmPublished \/ ReconcileRetry \/ Tick
           \/ (\E b \in Boxes : Encode(b)) \/ UNCHANGED vars
  BY <1>1 DEF Compose, Reschedule, PublishDueVariant, PublishDuePost, RecoverUnstarted, ReconcileStale, EscalateExhausted,
     RecoverContainer, ConfirmPublished, ReconcileRetry, Encode, Tick, Enqueue, Fault, vars
<1>2. ASSUME NEW w \in Workers, Work(w) \/ Take(w) \/ User(w) \/ PollStart(w) \/ RecoverSelect(w) \/ Raise(w) \/ Crash(w)
      PROVE  faults' \in {faults, faults + 1}
  <2>1. CASE Attempt(w) \/ Polling(w)
    BY <2>1 DEF Attempt, Claim, Call, ReadBack, WriteBack, RefreshParent, Polling, Poll, BoxClaim, BoxCall, BoxWrite, BoxFail
  <2>2. CASE RecoverWrite(w) \/ RetryEnqueue(w) \/ Cancel(w) \/ Reopen(w) \/ RetryPostRead(w) \/ RetryPostWrite(w)
    BY <2>2 DEF RecoverWrite, RetryEnqueue, Cancel, Reopen, RetryPostRead, RetryPostWrite, Enqueue, Fault
  <2>3. CASE Take(w) \/ User(w)
    BY <2>3 DEF Take, TakeVariant, TakePost, User, RetryClick, LookAtPost, Look, WorkflowClaim
  <2>4. CASE PollStart(w) \/ RecoverSelect(w) \/ Raise(w) \/ Crash(w)
    BY <2>4 DEF PollStart, RecoverSelect, Raise, Crash, Fault
  <2> QED BY <1>2, <2>1, <2>2, <2>3, <2>4 DEF Work
<1> QED BY <1>1, <1>2 DEF Next

LEMMA NextTidy == TypeOK /\ (Plain => Tidy) /\ [Next]_vars => (Plain => Tidy)'
<1> SUFFICES ASSUME TypeOK, Plain => Tidy, [Next]_vars, Plain' PROVE Tidy'
  OBVIOUS
<1>1. faults' \in {faults, faults + 1} /\ faults \in Nat
  BY FaultsKept, PublishAssumption DEF TypeOK
<1>2. Plain /\ Tidy /\ faults' = 0 /\ faults = 0
  BY <1>1, SceneKept DEF Plain
<1>3. ASSUME NEW w \in Workers, Work(w) \/ Take(w) \/ User(w) \/ PollStart(w) \/ RecoverSelect(w) \/ Raise(w) \/ Crash(w)
      PROVE  Tidy'
  <2>1. ~Raise(w) /\ ~Crash(w)
    BY <1>2 DEF Raise, Crash, Fault
  <2>2. ~RecoverSelect(w)
    BY <1>2 DEF RecoverSelect, Tidy, Publisher
  <2>3. pc[w] \notin NotAsked
    BY <1>2 DEF Tidy, Unheld
  <2>4. ~RecoverWrite(w) /\ ~RetryEnqueue(w) /\ ~Reopen(w) /\ ~RetryPostRead(w) /\ ~RetryPostWrite(w)
    BY <2>3 DEF NotAsked, RecoverWrite, RetryEnqueue, Reopen, RetryPostRead, RetryPostWrite
  <2> QED BY <1>2, <1>3, <2>1, <2>2, <2>4, UserTidy, TakeTidy, ClaimTidy, CallTidy, WriteTidy, RefreshTidy, PollTidy
          DEF Work, Take, Attempt
<1> QED BY <1>2, <1>3, RowTidy DEF Next

\* "Every transition that changes a variant calls this": while nothing fails and
\* attempts end before their lease, a post with no task waiting and no worker
\* busy says what its channel does.  (A channel that reconcile_stale_publishing_variants
\* takes from a worker leaves its post SCHEDULED: README, "Disagreements".)
THEOREM AtRestAgrees == Spec => [](scene.prompt => ParentAgrees)
<1> DEFINE I == TypeOK /\ (Plain => Tidy)
<1>1. Init => I
  BY InitTyped, InitTidy
<1>2. I /\ [Next]_vars => I'
  BY NextTyped, NextTidy
<1>3. I => (scene.prompt => ParentAgrees)
  BY DEF ParentAgrees, Plain, Tidy, Pending, Begun, AtRest, Refreshing, Attempting
<1> QED BY <1>1, <1>2, <1>3, PTL DEF Spec
=============================================================================
