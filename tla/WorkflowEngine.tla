--------------------------- MODULE WorkflowEngine ---------------------------
(***************************************************************************)
(* advance_run and its callers (apps/automation/workflow_engine.py) for    *)
(* one WorkflowRun row: run_due and a trigger call it inside a transaction *)
(* that holds the row, the enrolment endpoint and the reply to a           *)
(* wait_for_reply step on Instagram call it with every save committed at   *)
(* once.  advance_run works on its own copy of the row and saves only some *)
(* fields of it, so a cancel or a failed send can be overwritten.          *)
(*                                                                         *)
(* Steps are of four kinds: "wait", "wait_reply" (wait_for_reply), "send"  *)
(* (every step whose effect is a row in the database) and "direct" (the    *)
(* Instagram send_buttons, which calls Meta before the transaction ends    *)
(* and parks).  What an answer does to a parked "direct" step is the       *)
(* subject of ReplyClaim and a single action here.                         *)
(***************************************************************************)
EXTENDS Naturals

CONSTANTS
    Steps, Procs, None,
    End,          \* the empty step id ""
    FirstStep,    \* _first_step_id
    KindOf,       \* step["type"]
    NextOf,       \* where a step may lead: next, both sides of a branch, the reply routes
    OnTimeout,    \* step["on_timeout"]
    Modes,        \* how the engine is used, see Mode
    MaxCrashes    \* bound of the checked instances

Targets == Steps \cup {End}
Waits == {s \in Steps : KindOf[s] \in {"wait", "wait_reply"}}

\* The entry points in use; whether a reply is handled inside a transaction
\* (WhatsApp) or not (Instagram); whether channel_state can be "unknown";
\* _MAX_STEPS_PER_CALL.
Mode == [callers : SUBSET {"trigger", "api", "sweep", "reply"}, outerTx : BOOLEAN,
         unreadable : BOOLEAN, maxSteps : Nat \ {0}]

ASSUME GraphAssumption ==
    /\ FirstStep \in Steps /\ End \notin Steps
    /\ KindOf \in [Steps -> {"wait", "wait_reply", "send", "direct"}]
    /\ NextOf \in [Steps -> SUBSET Targets \ {{}}] /\ OnTimeout \in [Steps -> Targets]
ASSUME CallerAssumption ==
    /\ Modes \subseteq Mode /\ Modes # {}
    /\ None \notin Procs /\ MaxCrashes \in Nat

Live == {"active", "waiting"}
Terminal == {"completed", "failed", "cancelled"}
Row == [status : Live \cup Terminal \cup {"absent"}, step : Targets, due : {"none", "later", "now"}]

VARIABLES
    run,       \* the committed WorkflowRun row
    done,      \* committed WorkflowStepRun rows, by step
    sent,      \* committed outbound rows per step, counted up to 2
    got,       \* direct messages Meta has delivered per step, counted up to 2
    parked,    \* history: the wait steps the run was parked on
    unsent,    \* steps whose message was reported as permanently failed
    lock,      \* who holds the row FOR UPDATE
    pc, tx,    \* per process: where it is, and whether it is in a transaction
    my,        \* its copy of the row
    new,       \* step records and outbound rows its transaction has not committed
    fuel,      \* loop iterations it has left
    crashes,
    mode       \* the mode of this behaviour, never changed

vars == <<mode, run, done, sent, got, parked, unsent, lock, pc, tx, my, new, fuel, crashes>>

NoRow == [status |-> "absent", step |-> FirstStep, due |-> "none"]
Nothing == [done |-> {}, sent |-> {}]
Once(count, steps) == [s \in Steps |-> IF s \in steps /\ count[s] < 2 THEN count[s] + 1 ELSE count[s]]

Init ==
    /\ run = NoRow /\ done = {} /\ parked = {} /\ unsent = {}
    /\ sent = [s \in Steps |-> 0] /\ got = [s \in Steps |-> 0]
    /\ lock = None
    /\ pc = [p \in Procs |-> "idle"] /\ tx = [p \in Procs |-> FALSE]
    /\ my = [p \in Procs |-> NoRow] /\ new = [p \in Procs |-> Nothing]
    /\ fuel = [p \in Procs |-> 0] /\ crashes = 0
    /\ mode \in Modes

-----------------------------------------------------------------------------
(* Saving and leaving.                                                     *)

\* A write to the row waits while another transaction holds it.
Free(p) == lock \in {None, p}

Leave(p) ==
    /\ lock' = IF lock = p THEN None ELSE lock
    /\ pc' = [pc EXCEPT ![p] = "idle"]
    /\ tx' = [tx EXCEPT ![p] = FALSE]
    /\ my' = [my EXCEPT ![p] = NoRow]
    /\ new' = [new EXCEPT ![p] = Nothing]
    /\ fuel' = [fuel EXCEPT ![p] = 0]

\* p's copy becomes row, with more records and outbound rows; outside a
\* transaction the fields that were saved, base with them, are committed.
Save(p, row, committed, records, rows) ==
    /\ Free(p)
    /\ my' = [my EXCEPT ![p] = row]
    /\ IF tx[p]
       THEN /\ new' = [new EXCEPT ![p] = [done |-> @.done \cup records, sent |-> @.sent \cup rows]]
            /\ UNCHANGED <<run, done, sent>>
       ELSE /\ run' = committed
            /\ done' = done \cup records
            /\ sent' = Once(sent, rows)
            /\ UNCHANGED new

\* The same, and advance_run returns: a transaction commits.
SaveAndLeave(p, row, committed, records) ==
    /\ Free(p)
    /\ run' = IF tx[p] THEN row ELSE committed
    /\ done' = done \cup records \cup new[p].done
    /\ sent' = Once(sent, new[p].sent)
    /\ Leave(p)

StatusSaved(row) == [run EXCEPT !.status = row.status]
StepSaved(row) == [run EXCEPT !.step = row.step]
ParkSaved(row) == [run EXCEPT !.status = row.status, !.due = row.due]

-----------------------------------------------------------------------------
(* The loop of advance_run.                                                *)

AtTop(p) == pc[p] = "step" /\ fuel[p] > 0
At(p, kinds) == AtTop(p) /\ my[p].step \in Steps /\ KindOf[my[p].step] \in kinds
TimedOut(row) == row.status = "waiting" /\ row.due = "now"
Again(p, where) == /\ fuel' = [fuel EXCEPT ![p] = @ - 1]
                   /\ pc' = [pc EXCEPT ![p] = where]
NeverRecorded(p) == {}
Recorded(p) == done \cup new[p].done

ParkedOddly(row) == [row EXCEPT !.status = "parked", !.due = "later"]
ParkedUndated(row) == [row EXCEPT !.status = "waiting", !.due = "none"]
Parked(row) == [row EXCEPT !.status = "waiting", !.due = "later"]
Resumed(row, to) == [row EXCEPT !.status = "active", !.due = "none", !.step = to]

\* A wait, or wait_for_reply, parks the run.
ParkOnWait(p) ==
    LET row == Parked(my[p])
    IN /\ At(p, {"wait", "wait_reply"})
       /\ ~TimedOut(my[p])
       /\ SaveAndLeave(p, row, ParkSaved(row), {})
       /\ parked' = parked \cup {row.step}
       /\ UNCHANGED <<mode, got, unsent, crashes>>

\* The deadline of the step the run stands on has passed: go on from a wait,
\* take on_timeout from a question.
LeaveWait(p) ==
    LET s == my[p].step
    IN /\ At(p, {"wait", "wait_reply", "direct"})
       /\ TimedOut(my[p])
       /\ \E to \in (IF KindOf[s] = "wait" THEN NextOf[s] ELSE {OnTimeout[s]}) :
          /\ Save(p, Resumed(my[p], to), Resumed(my[p], to), {s}, {})
          /\ Again(p, IF to = End /\ KindOf[s] # "wait" THEN "end" ELSE "step")
       /\ UNCHANGED <<mode, got, parked, unsent, lock, tx, crashes>>

\* A step with a record is not executed again.
Executable(p) == At(p, {"send", "direct"}) /\ my[p].step \notin Recorded(p)
                 /\ (KindOf[my[p].step] = "direct" => ~TimedOut(my[p]))

Skip(p) ==
    LET s == my[p].step
        row(to) == [my[p] EXCEPT !.step = to]
    IN /\ At(p, {"send", "direct"})
       /\ s \in Recorded(p)
       /\ KindOf[s] = "direct" => ~TimedOut(my[p])
       /\ \E to \in NextOf[s] :
          /\ Save(p, row(to), StepSaved(row(to)), {}, {})
          /\ Again(p, IF to = s THEN "end" ELSE "step")
       /\ UNCHANGED <<mode, got, parked, unsent, lock, tx, crashes>>

\* The effect of a step, or nothing when its channel is switched off.
Execute(p) ==
    /\ Executable(p)
    /\ KindOf[my[p].step] = "send"
    /\ \E rows \in {{}, {my[p].step}} : Save(p, my[p], run, {}, rows)
    /\ pc' = [pc EXCEPT ![p] = "record"]
    /\ UNCHANGED <<mode, got, parked, unsent, lock, tx, fuel, crashes>>

\* _record, then the save of the next step.
Record(p) ==
    /\ pc[p] = "record"
    /\ Save(p, my[p], run, {my[p].step}, {})
    /\ pc' = [pc EXCEPT ![p] = "move"]
    /\ UNCHANGED <<mode, got, parked, unsent, lock, tx, fuel, crashes>>
Move(p) ==
    LET row(to) == [my[p] EXCEPT !.step = to]
    IN /\ pc[p] = "move"
       /\ \E to \in NextOf[my[p].step] :
          /\ Save(p, row(to), StepSaved(row(to)), {}, {})
          /\ Again(p, IF to = End THEN "end" ELSE "step")
       /\ UNCHANGED <<mode, got, parked, unsent, lock, tx, crashes>>

\* channel_state is "unknown": wait five minutes and run the step again.
RetryLater(p) ==
    LET row == Parked(my[p])
    IN /\ mode.unreadable
       /\ Executable(p)
       /\ KindOf[my[p].step] = "send"
       /\ SaveAndLeave(p, row, ParkSaved(row), {})
       /\ UNCHANGED <<mode, got, parked, unsent, crashes>>

\* The step raises.
Fail(p) ==
    LET row == [my[p] EXCEPT !.status = "failed"]
    IN /\ Executable(p)
       /\ SaveAndLeave(p, row, StatusSaved(row), {row.step})
       /\ UNCHANGED <<mode, got, parked, unsent, crashes>>

\* _run_interactive_instagram: open the question, enqueue, park, record, and
\* call Meta without waiting for the transaction.
SendDirect(p) ==
    LET row == Parked(my[p])
    IN /\ Executable(p)
       /\ KindOf[row.step] = "direct"
       /\ Save(p, row, ParkSaved(row), {row.step}, {row.step})
       /\ got' = Once(got, {row.step})
       /\ pc' = [pc EXCEPT ![p] = "parked"]
       /\ UNCHANGED <<mode, parked, unsent, lock, tx, fuel, crashes>>
ReturnParked(p) ==
    /\ pc[p] = "parked"
    /\ SaveAndLeave(p, my[p], run, {})
    /\ UNCHANGED <<mode, got, parked, unsent, crashes>>

\* _complete.
Complete(p) ==
    LET row == [my[p] EXCEPT !.status = "completed", !.due = "none"]
    IN /\ pc[p] = "end" \/ (AtTop(p) /\ row.step = End)
       /\ SaveAndLeave(p, row, ParkSaved(row), {})
       /\ UNCHANGED <<mode, got, parked, unsent, crashes>>

\* _MAX_STEPS_PER_CALL iterations used up.
HitLimit(p) ==
    /\ pc[p] = "step" /\ fuel[p] = 0
    /\ SaveAndLeave(p, my[p], run, {})
    /\ UNCHANGED <<mode, got, parked, unsent, crashes>>

-----------------------------------------------------------------------------
(* The callers of advance_run.                                             *)

Enter(p, row, inTx) ==
    /\ pc' = [pc EXCEPT ![p] = "step"]
    /\ my' = [my EXCEPT ![p] = row]
    /\ tx' = [tx EXCEPT ![p] = inTx]
    /\ fuel' = [fuel EXCEPT ![p] = mode.maxSteps]
    /\ lock' = IF inTx THEN p ELSE lock

\* enroll: inside the transaction of _enroll_matching or on_business_event the
\* new row shows only at the commit; the endpoint commits it at once.
Enroll(p) ==
    LET row == [NoRow EXCEPT !.status = "active"]
    IN /\ pc[p] = "idle" /\ run.status = "absent" /\ lock = None
       /\ \/ /\ "trigger" \in mode.callers
             /\ Enter(p, row, TRUE)
             /\ UNCHANGED run
          \/ /\ "api" \in mode.callers
             /\ Enter(p, row, FALSE)
             /\ run' = row
       /\ UNCHANGED <<mode, done, sent, got, parked, unsent, new, crashes>>

\* run_due: a selection in one transaction, the advance in another.
SweepRead(p) ==
    /\ "sweep" \in mode.callers
    /\ pc[p] = "idle" /\ lock = None
    /\ run.status \in Live /\ run.due = "now"
    /\ pc' = [pc EXCEPT ![p] = "sweep"]
    /\ UNCHANGED <<mode, run, done, sent, got, parked, unsent, lock, tx, my, new, fuel, crashes>>

ActiveOnly(row) == row.status = "active"
DueOnly(row) == row.due = "now"
StillDue(row) == row.status = "active" \/ TimedOut(row)
SweepLock(p) ==
    /\ pc[p] = "sweep" /\ lock = None
    /\ \/ /\ StillDue(run)
          /\ Enter(p, IF run.status = "active" THEN [run EXCEPT !.due = "none"] ELSE run, TRUE)
          /\ UNCHANGED new
       \/ /\ ~StillDue(run)
          /\ Leave(p)
    /\ UNCHANGED <<mode, run, done, sent, got, parked, unsent, crashes>>

\* resume_on_reply, the scan for a run parked on wait_for_reply: read without a
\* lock, then lock, look again and write the answer's route.
AwaitsReply(row) == row.status = "waiting" /\ row.due # "none" /\ row.step \in Steps
                    /\ KindOf[row.step] = "wait_reply"
ReplyRead(p) ==
    /\ "reply" \in mode.callers
    /\ pc[p] = "idle" /\ AwaitsReply(run)
    /\ pc' = [pc EXCEPT ![p] = "reply"]
    /\ my' = [my EXCEPT ![p] = run]
    /\ UNCHANGED <<mode, run, done, sent, got, parked, unsent, lock, tx, new, fuel, crashes>>
ReplyLock(p) ==
    LET s == my[p].step
    IN /\ pc[p] = "reply" /\ lock = None
       /\ \/ /\ run.status = "waiting" /\ run.step = s
             /\ \E to \in NextOf[s] :
                /\ Enter(p, Resumed(run, to), mode.outerTx)
                /\ IF mode.outerTx
                   THEN /\ new' = [new EXCEPT ![p].done = {s}]
                        /\ UNCHANGED <<run, done>>
                   ELSE /\ run' = Resumed(run, to) /\ done' = done \cup {s}
                        /\ UNCHANGED new
          \/ /\ run.status # "waiting" \/ run.step # s
             /\ Leave(p)
             /\ UNCHANGED <<run, done>>
       /\ UNCHANGED <<mode, sent, got, parked, unsent, crashes>>

\* A claimed answer to a question (ReplyClaim), with its due time for run_due.
Answered ==
    /\ lock = None
    /\ run.status = "waiting" /\ run.step \in Steps /\ KindOf[run.step] = "direct"
    /\ \E to \in NextOf[run.step] : run' = [status |-> "active", step |-> to, due |-> "later"]
    /\ UNCHANGED <<mode, done, sent, got, parked, unsent, lock, pc, tx, my, new, fuel, crashes>>

-----------------------------------------------------------------------------
(* Writers that do not advance the run, faults and time.                   *)

\* DELETE /workflow-runs/{id}: read, then write CANCELLED.
CancelRead(p) ==
    /\ pc[p] = "idle" /\ run.status \in Live
    /\ pc' = [pc EXCEPT ![p] = "cancel"]
    /\ UNCHANGED <<mode, run, done, sent, got, parked, unsent, lock, tx, my, new, fuel, crashes>>
CancelWrite(p) ==
    /\ pc[p] = "cancel" /\ lock = None
    /\ run' = [run EXCEPT !.status = "cancelled", !.due = "none"]
    /\ Leave(p)
    /\ UNCHANGED <<mode, done, sent, got, parked, unsent, crashes>>

\* integrations.whatsapp.mark_outbound_message_failed: a queued message was
\* rejected for good; the run read with the step record is failed.
HookRead(p, s) ==
    /\ pc[p] = "idle"
    /\ KindOf[s] = "send" /\ s \in done \ unsent /\ sent[s] > 0
    /\ unsent' = unsent \cup {s}
    /\ run.status \notin {"failed", "cancelled"}
    /\ pc' = [pc EXCEPT ![p] = "hook"]
    /\ UNCHANGED <<mode, run, done, sent, got, parked, lock, tx, my, new, fuel, crashes>>
HookWrite(p) ==
    /\ pc[p] = "hook" /\ lock = None
    /\ run' = [run EXCEPT !.status = "failed"]
    /\ Leave(p)
    /\ UNCHANGED <<mode, done, sent, got, parked, unsent, crashes>>

\* The worker dies: what its transaction has not committed is gone.
Crash(p) ==
    /\ pc[p] # "idle" /\ crashes < MaxCrashes
    /\ crashes' = crashes + 1
    /\ Leave(p)
    /\ UNCHANGED <<mode, run, done, sent, got, parked, unsent>>

Tick ==
    /\ lock = None /\ run.due = "later"
    /\ run' = [run EXCEPT !.due = "now"]
    /\ UNCHANGED <<mode, done, sent, got, parked, unsent, lock, pc, tx, my, new, fuel, crashes>>

-----------------------------------------------------------------------------
Advance(p) == ParkOnWait(p) \/ LeaveWait(p) \/ Skip(p) \/ Execute(p) \/ Record(p) \/ Move(p)
              \/ RetryLater(p) \/ Fail(p) \/ SendDirect(p) \/ ReturnParked(p) \/ Complete(p)
              \/ HitLimit(p)
Work(p) == Advance(p) \/ SweepLock(p) \/ ReplyLock(p) \/ CancelWrite(p) \/ HookWrite(p)

Next ==
    \/ \E p \in Procs : Work(p) \/ Enroll(p) \/ SweepRead(p) \/ ReplyRead(p)
                        \/ CancelRead(p) \/ Crash(p)
    \/ \E p \in Procs, s \in Steps : HookRead(p, s)
    \/ Answered
    \/ Tick

Spec == Init /\ [][Next]_vars

\* Workers keep running and get the row in their turn, time passes, and beat
\* calls run_due_workflows.
FairSpec == /\ Spec
            /\ \A p \in Procs : SF_vars(Work(p))
            /\ SF_vars(\E p \in Procs : SweepRead(p)) /\ WF_vars(Tick)

-----------------------------------------------------------------------------
(* Properties.                                                             *)

TypeOK ==
    /\ run \in Row /\ done \subseteq Steps /\ parked \subseteq Waits /\ unsent \subseteq Steps
    /\ sent \in [Steps -> 0..2] /\ got \in [Steps -> 0..2]
    /\ lock \in Procs \cup {None}
    /\ pc \in [Procs -> {"idle", "step", "record", "move", "end", "parked", "sweep", "reply",
                         "cancel", "hook"}]
    /\ tx \in [Procs -> BOOLEAN] /\ my \in [Procs -> Row]
    /\ new \in [Procs -> [done : SUBSET Steps, sent : SUBSET Steps]]
    /\ fuel \in [Procs -> 0..mode.maxSteps] /\ mode \in Modes /\ crashes \in 0..MaxCrashes

\* "Every step writes a WorkflowStepRun so a crashed/re-run advance_run never
\* double-sends": no step queues its message twice, whatever crashes, loops in
\* the graph and enrolments without a transaction do.  A reply without one can be
\* overtaken by the sweep (SentOnce below).
Overtaken == ~mode.outerTx /\ "sweep" \in mode.callers
QueuedOnce == Overtaken \/ \A s \in Steps : sent[s] <= 1

\* The trigger, the sweep and a WhatsApp reply hold the row in a transaction; the
\* other callers do not, and the rest holds only without them.
Locked == mode.outerTx /\ "api" \notin mode.callers

\* A run that was cancelled, failed or completed queues nothing more and is not
\* revived, although a sweeper may have selected it before it ended and a
\* worker may hold an older copy of its row.
NothingAfterTheEnd ==
    [][Locked /\ run.status \in Terminal => sent' = sent /\ run'.status \in Terminal]_vars

\* A live run that no worker advances has a due time, so it is swept some day.
Worked == \E p \in Procs : pc[p] \in {"step", "record", "move", "end", "parked"}
NeverStranded == Locked /\ run.status \in Live /\ ~Worked => run.due # "none"

\* A run whose deadline has passed is taken up, and a run that has been taken
\* up parks or ends, in spite of crashes.
MovesOn == /\ Locked /\ TimedOut(run) ~> ~TimedOut(run)
           /\ Locked /\ run.status = "active" ~> run.status # "active"

-----------------------------------------------------------------------------
(* What comments of the code say and the model refutes (README,           *)
(* "Disagreements").                                                       *)

\* workflow_engine.py:6 when a reply is handled without a transaction while the
\* sweep, which selected the run before the answer, advances it too.
SentOnce == \A s \in Steps : sent[s] <= 1

\* workflow_engine.py:3-6, when a step is retried as its channel is unreadable: a
\* wait is left only by a run that was parked on it.
WaitIsWaited == Locked => (done \cup UNION {new[p].done : p \in Procs}) \cap Waits \subseteq parked

\* workflow_engine.py:6 for a message that is sent inside the transaction.
DeliveredOnce == \A s \in Steps : got[s] <= 1
=============================================================================
