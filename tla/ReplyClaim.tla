----------------------------- MODULE ReplyClaim -----------------------------
(***************************************************************************)
(* How a customer's message is matched to the question a workflow run is   *)
(* waiting on, and how that races with the expiry sweeper, a second        *)
(* message, an API cancel, a failed send and process crashes               *)
(* (apps/automation/interaction.py and the parts of workflow_engine.py it  *)
(* relies on).                                                             *)
(*                                                                         *)
(* The granularity is the database's: a process takes row locks one        *)
(* SELECT ... FOR UPDATE at a time, its writes stay private until its      *)
(* transaction commits, and a crash drops its locks and its writes.  The   *)
(* workflow graph keeps only its question steps (send_buttons on Instagram *)
(* and ask_question); module WorkflowEngine has the other step types.      *)
(***************************************************************************)
EXTENDS Naturals, FiniteSets

CONSTANTS
    Runs,         \* WorkflowRun rows, one per (workflow, contact, subject)
    Convs,        \* Conversation rows
    Steps,        \* ids of the question steps of the workflow
    Msgs,         \* inbound provider messages, identified by message_key
    Procs,        \* worker processes: webhook handlers, beat, API requests
    None,         \* no row, no process, no step
    End,          \* the empty step id ""
    Timeout,      \* marks an exit caused by the deadline
    FirstStep,    \* step a new run starts on
    ConvOf,       \* conversation a run talks in
    Ask,          \* the ask_question steps; the others are send_buttons
    FreeText,     \* steps whose interaction accepts any typed text
    Routes,       \* where a button reply may lead, per step
    NextOf,       \* step["next"]
    OnTimeout,    \* step["on_timeout"], or the inherited one
    OnInvalid,    \* step["on_invalid"] or next
    OnError,      \* step["on_error"], None when not configured
    MaxAttempts,  \* step["max_attempts"]
    MsgConv,      \* conversation a message arrives in
    Reply,        \* per message: token it carries, options its text names, validity
    OuterTx,      \* TRUE when the caller already holds a transaction (WhatsApp)
    MaxSteps,     \* _MAX_STEPS_PER_CALL
    MaxDeliveries, MaxCrashes   \* bounds of the checked instances

Inters == Runs \X Steps
Targets == Steps \cup {End}

Live == {"active", "waiting"}
Terminal == {"completed", "failed", "cancelled"}

Row == [status : Live \cup Terminal \cup {"absent"}, step : Targets,
        due : {"none", "later", "now"}, done : SUBSET Steps,
        exits : SUBSET [step : Steps, by : Msgs \cup {Timeout}]]

Interaction == [status : {"none", "open", "answered", "cancelled"},
                bad : Nat, born : Nat]

ASSUME GraphAssumption ==
    /\ FirstStep \in Steps /\ End \notin Steps /\ None \notin Targets
    /\ Ask \subseteq Steps /\ FreeText \subseteq Steps
    /\ Routes \in [Steps -> SUBSET Targets]
    /\ NextOf \in [Steps -> Targets] /\ OnTimeout \in [Steps -> Targets]
    /\ OnInvalid \in [Steps -> Targets] /\ OnError \in [Steps -> Targets \cup {None}]

ASSUME MessageAssumption ==
    /\ ConvOf \in [Runs -> Convs] /\ MsgConv \in [Msgs -> Convs]
    /\ Reply \in [Msgs -> [token : Inters \cup {None}, text : SUBSET Steps, valid : BOOLEAN]]
    /\ IsFiniteSet(Inters) /\ None \notin Inters \cup Interaction /\ Timeout \notin Msgs /\ None \notin Msgs

ASSUME BoundAssumption ==
    /\ MaxAttempts \in Nat \ {0} /\ MaxSteps \in Nat \ {0, 1}
    /\ MaxDeliveries \in Nat /\ MaxCrashes \in Nat
    /\ OuterTx \in BOOLEAN /\ None \notin Procs /\ None \notin Runs

Results == {"claimed", "already_claimed", "unmatched", "stale_run", "wrong_conversation"}

\* What a process works on, and the uncommitted writes of its transaction.
Job == [msg : Msgs \cup {None}, run : Runs \cup {None}, step : Steps \cup {None}]
Tx == [run : Row, inter : [Inters -> Interaction \cup {None}],
       ans : SUBSET (Msgs \X Inters), fuel : 0..MaxSteps]

VARIABLES
    run,        \* committed WorkflowRun rows; exits is the history of its questions
    inter,      \* committed WorkflowInteraction rows, one per (run, step)
    answers,    \* committed InteractionAnswer rows
    convLock, intLock, runLock,   \* who holds each row FOR UPDATE
    pc,         \* where each process is
    job,        \* what it is working on
    mem,        \* the uncommitted writes of its transaction
    outcome,    \* results claim_reply returned, per message
    deliveries, crashes   \* bounded counters

rows == <<run, inter, answers>>
locks == <<convLock, intLock, runLock>>
vars == <<run, inter, answers, convLock, intLock, runLock, pc, job, mem,
          outcome, deliveries, crashes>>

NoRow == [status |-> "absent", step |-> FirstStep, due |-> "none", done |-> {}, exits |-> {}]
NoInter == [status |-> "none", bad |-> 0, born |-> 0]
NoJob == [msg |-> None, run |-> None, step |-> None]
NoMem == [run |-> NoRow, inter |-> [i \in Inters |-> None], ans |-> {}, fuel |-> 0]

Init ==
    /\ run = [r \in Runs |-> NoRow]
    /\ inter = [i \in Inters |-> NoInter]
    /\ answers = {}
    /\ convLock = [c \in Convs |-> None]
    /\ intLock = [i \in Inters |-> None]
    /\ runLock = [r \in Runs |-> None]
    /\ pc = [p \in Procs |-> "idle"]
    /\ job = [p \in Procs |-> NoJob]
    /\ mem = [p \in Procs |-> NoMem]
    /\ outcome = [m \in Msgs |-> {}]
    /\ deliveries = [m \in Msgs |-> 0]
    /\ crashes = 0

-----------------------------------------------------------------------------
(* Transactions.                                                           *)

Freed(lock, p) == [x \in DOMAIN lock |-> IF lock[x] = p THEN None ELSE lock[x]]

\* The process ends its transaction and takes no further step.
Finish(p) ==
    /\ convLock' = Freed(convLock, p)
    /\ intLock' = Freed(intLock, p)
    /\ runLock' = Freed(runLock, p)
    /\ pc' = [pc EXCEPT ![p] = "idle"]
    /\ job' = [job EXCEPT ![p] = NoJob]
    /\ mem' = [mem EXCEPT ![p] = NoMem]

\* claim_reply returns res without having matched anything.
Return(p, res) ==
    /\ outcome' = [outcome EXCEPT ![job[p].msg] = @ \cup {res}]
    /\ Finish(p)

\* The interaction row as p's transaction sees it.
Seen(p, i) == IF mem[p].inter[i] # None THEN mem[p].inter[i] ELSE inter[i]

Lapsed(rec) == [rec EXCEPT !.status = "expired"]
Closed(rec) == [rec EXCEPT !.status = "cancelled"]

\* cancel_open_interactions_for_run: the open interactions of r that no other
\* transaction has locked (SKIP LOCKED), and the writes that cancel them.
Cancellable(p, r) ==
    {i \in Inters : i[1] = r /\ Seen(p, i).status = "open" /\ intLock[i] \in {None, p}}
CancelWrites(p, r) ==
    [i \in Inters |-> IF i \in Cancellable(p, r) THEN Closed(Seen(p, i)) ELSE mem[p].inter[i]]

\* p's transaction ends with r's row and the interactions in writes.
Commit(p, row, writes) ==
    /\ run' = [run EXCEPT ![job[p].run] = row]
    /\ inter' = [i \in Inters |-> IF writes[i] # None THEN writes[i] ELSE inter[i]]
    /\ answers' = answers \cup mem[p].ans
    /\ outcome' = [m \in Msgs |-> IF \E a \in mem[p].ans : a[1] = m
                                  THEN outcome[m] \cup {"claimed"} ELSE outcome[m]]
    /\ Finish(p)

-----------------------------------------------------------------------------
(* claim_reply.                                                            *)

NeverClaimed(m) == FALSE
Claimed(m) == \E a \in answers : a[1] = m
OpenOn(c) == {i \in Inters : inter[i].status = "open" /\ ConvOf[i[1]] = c}

TokenKnown(m) == Reply[m].token # None /\ inter[Reply[m].token].born > 0

\* _pick_target: a tap takes the interaction of its token or nothing; typed
\* text takes the newest interaction that accepts it.
Eligible(m, open) == {i \in open : i[2] \in FreeText \cup Reply[m].text}
PickTarget(m, open) ==
    IF TokenKnown(m)
    THEN open \cap {Reply[m].token}
    ELSE {i \in Eligible(m, open) :
             \A j \in Eligible(m, open) : inter[j].born <= inter[i].born}
Miss(m) == IF TokenKnown(m) /\ ConvOf[Reply[m].token[1]] # MsgConv[m]
           THEN "wrong_conversation" ELSE "unmatched"

\* resume_on_reply hands the message to claim_reply when its conversation has
\* an open interaction; the pre-check on message_key takes no lock.  A message
\* carries the token of a question the customer has been sent.
ClaimStart(p, m) ==
    /\ pc[p] = "idle"
    /\ deliveries[m] < MaxDeliveries
    /\ Reply[m].token # None => TokenKnown(m)
    /\ OpenOn(MsgConv[m]) # {}
    /\ deliveries' = [deliveries EXCEPT ![m] = @ + 1]
    /\ \/ /\ Claimed(m)
          /\ outcome' = [outcome EXCEPT ![m] = @ \cup {"already_claimed"}]
          /\ UNCHANGED <<pc, job>>
       \/ /\ ~Claimed(m)
          /\ pc' = [pc EXCEPT ![p] = "conv"]
          /\ job' = [job EXCEPT ![p] = [NoJob EXCEPT !.msg = m]]
          /\ UNCHANGED outcome
    /\ UNCHANGED <<rows, locks, mem, crashes>>

\* Step 1: lock the conversation and look for the key again.
ClaimConversation(p) ==
    LET m == job[p].msg
        c == MsgConv[m]
    IN /\ pc[p] = "conv"
       /\ convLock[c] = None
       /\ \/ /\ Claimed(m)
             /\ Return(p, "already_claimed")
          \/ /\ ~Claimed(m)
             /\ convLock' = [convLock EXCEPT ![c] = p]
             /\ pc' = [pc EXCEPT ![p] = "inters"]
             /\ UNCHANGED <<intLock, runLock, job, mem, outcome>>
       /\ UNCHANGED <<rows, deliveries, crashes>>

\* Steps 2 and 3: lock every open interaction of the conversation, then choose.
ClaimInteractions(p) ==
    LET m == job[p].msg
        open == OpenOn(MsgConv[m])
    IN /\ pc[p] = "inters"
       /\ \A i \in open : intLock[i] = None
       /\ \/ /\ PickTarget(m, open) = {}
             /\ Return(p, Miss(m))
          \/ \E i \in PickTarget(m, open) :
             /\ intLock' = [j \in Inters |-> IF j \in open THEN p ELSE intLock[j]]
             /\ job' = [job EXCEPT ![p] = [msg |-> m, run |-> i[1], step |-> i[2]]]
             /\ pc' = [pc EXCEPT ![p] = "run"]
             /\ UNCHANGED <<convLock, runLock, mem, outcome>>
       /\ UNCHANGED <<rows, deliveries, crashes>>

MovedUnswept(row, s, to, by) ==
    [row EXCEPT !.status = "active", !.step = to, !.due = "none",
                !.exits = @ \cup {[step |-> s, by |-> by]}]
Moved(row, s, to, by) ==
    [row EXCEPT !.status = "active", !.step = to, !.due = "later",
                !.exits = @ \cup {[step |-> s, by |-> by]}]

\* _reprompt_invalid: the question stays open and its deadline is renewed.
RepromptClosed(row, rec) == <<[row EXCEPT !.due = "later"], [rec EXCEPT !.status = "answered"]>>
RepromptUncounted(row, rec) == <<[row EXCEPT !.due = "later"], rec>>
Reprompt(row, rec) == <<[row EXCEPT !.due = "later"], [rec EXCEPT !.bad = @ + 1]>>

\* _commit_claim and _commit_ask_question_answer: the rows the answer writes,
\* as <<run row, interaction row>>.  A wrong answer with attempts left keeps
\* the question open and renews its deadline.
AnswerEffects(row, rec, s, m) ==
    LET answered == [rec EXCEPT !.status = "answered"]
    IN IF s \notin Ask
       THEN {<<Moved(row, s, t, m), answered>> : t \in Routes[s]}
       ELSE IF Reply[m].valid
       THEN {<<Moved(row, s, NextOf[s], m), answered>>}
       ELSE IF rec.bad < MaxAttempts - 1
       THEN {Reprompt(row, rec)}
       ELSE {<<Moved(row, s, OnInvalid[s], m), answered>>}

\* _commit_claim looks at the run again once it holds its row.
WaitsAnywhere(row, s) == row.status = "waiting"
StandsAt(row, s) == row.step = s
WaitsOn(row, s) == row.status = "waiting" /\ row.step = s

\* The run has left the question: close the orphan, hand the message on.
ClaimStale(p) ==
    LET r == job[p].run
        i == <<r, job[p].step>>
    IN /\ pc[p] = "run"
       /\ runLock[r] = None
       /\ ~WaitsOn(run[r], job[p].step)
       /\ inter' = [inter EXCEPT ![i] = Closed(@)]
       /\ Return(p, "stale_run")
       /\ UNCHANGED <<run, answers, deliveries, crashes>>

\* InteractionAnswer has a unique message_key and is one-to-one with its
\* interaction: a second row for either raises IntegrityError, which is
\* reported as a duplicate.
Taken(m, i) == Claimed(m) \/ \E a \in answers : a[2] = i

ClaimDuplicate(p) ==
    LET r == job[p].run
        s == job[p].step
    IN /\ pc[p] = "run"
       /\ runLock[r] = None
       /\ WaitsOn(run[r], s)
       /\ Taken(job[p].msg, <<r, s>>)
       /\ Return(p, "already_claimed")
       /\ UNCHANGED <<rows, deliveries, crashes>>

\* Steps 4 to 6.  Called on its own, the claim commits here and the advance is
\* a second transaction; inside a caller's transaction nothing is released or
\* visible until the advance has finished too.
ClaimCommit(p) ==
    LET m == job[p].msg
        r == job[p].run
        s == job[p].step
        i == <<r, s>>
    IN /\ pc[p] = "run"
       /\ runLock[r] = None
       /\ WaitsOn(run[r], s)
       /\ ~Taken(m, i)
       /\ \E e \in AnswerEffects(run[r], inter[i], s, m) :
          IF OuterTx /\ e[1].status = "active"
          THEN /\ runLock' = [runLock EXCEPT ![r] = p]
               /\ mem' = [mem EXCEPT ![p] =
                           [run |-> [e[1] EXCEPT !.due = "none"],
                            inter |-> [NoMem.inter EXCEPT ![i] = e[2]],
                            ans |-> {<<m, i>>}, fuel |-> MaxSteps]]
               /\ pc' = [pc EXCEPT ![p] = "step"]
               /\ UNCHANGED <<rows, convLock, intLock, job, outcome>>
          ELSE /\ run' = [run EXCEPT ![r] = e[1]]
               /\ inter' = [inter EXCEPT ![i] = e[2]]
               /\ answers' = answers \cup {<<m, i>>}
               /\ outcome' = [outcome EXCEPT ![m] = @ \cup {"claimed"}]
               /\ convLock' = Freed(convLock, p)
               /\ intLock' = Freed(intLock, p)
               /\ pc' = [pc EXCEPT ![p] = "advance"]
               /\ job' = [job EXCEPT ![p] = [NoJob EXCEPT !.run = r]]
               /\ UNCHANGED <<runLock, mem>>
       /\ UNCHANGED <<deliveries, crashes>>

-----------------------------------------------------------------------------
(* advance_run, always on a locked row: after a claim, from the sweeper,   *)
(* from an enrolment.                                                      *)

\* Take r's row lock and start a transaction on row.
Begin(p, r, row) ==
    /\ runLock' = [runLock EXCEPT ![r] = p]
    /\ mem' = [mem EXCEPT ![p] = [NoMem EXCEPT !.run = row, !.fuel = MaxSteps]]
    /\ pc' = [pc EXCEPT ![p] = "step"]
    /\ job' = [job EXCEPT ![p] = [NoJob EXCEPT !.run = r]]
    /\ UNCHANGED <<rows, convLock, intLock, outcome, deliveries>>

\* _advance_after_commit, the fast path of a claim.
AdvanceAfterCommit(p) ==
    LET r == job[p].run
    IN /\ pc[p] = "advance"
       /\ runLock[r] = None
       /\ \/ /\ run[r].status = "active"
             /\ Begin(p, r, [run[r] EXCEPT !.due = "none"])
          \/ /\ run[r].status # "active"
             /\ Finish(p)
             /\ UNCHANGED <<rows, outcome, deliveries>>
       /\ UNCHANGED crashes

\* run_due selects the runs that look due; its first transaction then ends.
SweepStart(p, r) ==
    /\ pc[p] = "idle"
    /\ run[r].status \in Live /\ run[r].due = "now"
    /\ runLock[r] = None
    /\ pc' = [pc EXCEPT ![p] = "sweep"]
    /\ job' = [job EXCEPT ![p] = [NoJob EXCEPT !.run = r]]
    /\ UNCHANGED <<rows, locks, mem, outcome, deliveries, crashes>>

\* run_due locks the run again and skips it when it is no longer due.
StillDue(row) == row.status = "active" \/ (row.status = "waiting" /\ row.due = "now")
SweepLock(p) ==
    LET r == job[p].run
    IN /\ pc[p] = "sweep"
       /\ runLock[r] = None
       /\ \/ /\ StillDue(run[r])
             /\ Begin(p, r, IF run[r].status = "active"
                            THEN [run[r] EXCEPT !.due = "none"] ELSE run[r])
          \/ /\ ~StillDue(run[r])
             /\ Finish(p)
             /\ UNCHANGED <<rows, outcome, deliveries>>
       /\ UNCHANGED crashes

\* enroll inside the transaction of _enroll_matching.
Enroll(p, r) ==
    /\ pc[p] = "idle"
    /\ run[r].status = "absent" /\ runLock[r] = None
    /\ Begin(p, r, [NoRow EXCEPT !.status = "active"])
    /\ UNCHANGED crashes

\* One loop iteration of advance_run that stays inside the transaction.
Iterate(p, row, writes) ==
    /\ mem' = [mem EXCEPT ![p].run = row, ![p].inter = writes, ![p].fuel = @ - 1]
    /\ UNCHANGED <<rows, convLock, runLock, pc, job, outcome>>

AtStep(p) == pc[p] = "step" /\ mem[p].fuel > 0
Executing(p) == /\ AtStep(p) /\ mem[p].run.status = "active"
                /\ mem[p].run.step \in Steps \ mem[p].run.done

\* The deadline has passed: cancel what is open and take the timeout path.
StepTimeout(p) ==
    LET row == mem[p].run
    IN /\ AtStep(p)
       /\ row.status = "waiting"
       /\ intLock' = [i \in Inters |-> IF i \in Cancellable(p, job[p].run) THEN p ELSE intLock[i]]
       /\ Iterate(p, [Moved(row, row.step, OnTimeout[row.step], Timeout) EXCEPT !.due = "none"],
                  CancelWrites(p, job[p].run))
       /\ UNCHANGED <<deliveries, crashes>>

\* A step already recorded is skipped; one that leads to itself ends the run.
StepSkip(p) ==
    LET row == mem[p].run
    IN /\ AtStep(p)
       /\ row.status = "active" /\ row.step \in row.done
       /\ Iterate(p, [row EXCEPT !.step = IF NextOf[row.step] = row.step
                                          THEN End ELSE NextOf[row.step]], mem[p].inter)
       /\ UNCHANGED <<intLock, deliveries, crashes>>

\* ask_question cannot be sent (no conversation, window closed): on_error.
StepOnError(p) ==
    LET row == mem[p].run
    IN /\ Executing(p)
       /\ row.step \in Ask /\ OnError[row.step] # None
       /\ Iterate(p, [row EXCEPT !.step = OnError[row.step], !.done = @ \cup {row.step}],
                  mem[p].inter)
       /\ UNCHANGED <<intLock, deliveries, crashes>>

\* Open the interaction, enqueue the message and park the run.  The new row's
\* foreign key takes a KEY SHARE lock on the conversation, so the insert waits
\* while another transaction holds that conversation FOR UPDATE.
StepAsk(p) ==
    LET r == job[p].run
        row == mem[p].run
        i == <<r, row.step>>
        age == Cardinality({j \in Inters : inter[j].born > 0})
    IN /\ Executing(p)
       /\ convLock[ConvOf[r]] \in {None, p}
       /\ Commit(p, [row EXCEPT !.status = "waiting", !.due = "later", !.done = @ \cup {row.step}],
                 [mem[p].inter EXCEPT ![i] = [status |-> "open", bad |-> 0, born |-> age + 1]])
       /\ UNCHANGED <<deliveries, crashes>>

\* The step raises: record the error, fail the run, cancel its questions.
StepFail(p) ==
    LET row == mem[p].run
    IN /\ Executing(p)
       /\ row.step \in Ask => OnError[row.step] = None
       /\ Commit(p, [row EXCEPT !.status = "failed", !.done = @ \cup {row.step}],
                 CancelWrites(p, job[p].run))
       /\ UNCHANGED <<deliveries, crashes>>

\* _complete.
StepComplete(p) ==
    LET row == mem[p].run
    IN /\ AtStep(p)
       /\ row.status = "active" /\ row.step = End
       /\ Commit(p, [row EXCEPT !.status = "completed", !.due = "none"],
                 CancelWrites(p, job[p].run))
       /\ UNCHANGED <<deliveries, crashes>>

\* _MAX_STEPS_PER_CALL iterations used up.
StepLimit(p) ==
    /\ pc[p] = "step" /\ mem[p].fuel = 0
    /\ Commit(p, mem[p].run, mem[p].inter)
    /\ UNCHANGED <<deliveries, crashes>>

-----------------------------------------------------------------------------
(* Other writers, faults and time.                                         *)

\* DELETE /workflow-runs/{id} reads the run without a lock ...
CancelRead(p, r) ==
    /\ pc[p] = "idle"
    /\ run[r].status \in Live
    /\ pc' = [pc EXCEPT ![p] = "cancel"]
    /\ job' = [job EXCEPT ![p] = [NoJob EXCEPT !.run = r]]
    /\ UNCHANGED <<rows, locks, mem, outcome, deliveries, crashes>>

\* The open interactions of r nobody has locked, cancelled.
ClosedFor(r) == [i \in Inters |->
    IF i[1] = r /\ inter[i].status = "open" /\ intLock[i] = None THEN Closed(inter[i]) ELSE inter[i]]

\* ... and then writes CANCELLED over whatever the row has become.
CancelWrite(p) ==
    LET r == job[p].run
    IN /\ pc[p] = "cancel"
       /\ runLock[r] = None
       /\ run' = [run EXCEPT ![r].status = "cancelled", ![r].due = "none"]
       /\ inter' = ClosedFor(r)
       /\ Finish(p)
       /\ UNCHANGED <<answers, outcome, deliveries, crashes>>

\* integrations.instagram.mark_outbound_message_failed: the question could not
\* be delivered.
SendFailed(r) ==
    /\ runLock[r] = None
    /\ run[r].done # {}
    /\ run[r].status \notin {"failed", "cancelled"}
    /\ run' = [run EXCEPT ![r].status = "failed"]
    /\ inter' = ClosedFor(r)
    /\ UNCHANGED <<answers, locks, pc, job, mem, outcome, deliveries, crashes>>

\* The worker dies: the database rolls its transaction back.
Crash(p) ==
    /\ pc[p] # "idle"
    /\ crashes < MaxCrashes
    /\ crashes' = crashes + 1
    /\ Finish(p)
    /\ UNCHANGED <<rows, outcome, deliveries>>

\* The processes p is waiting for.
BlockedBy(p) ==
    LET r == job[p].run
    IN { q \in Procs \ {p} :
         \/ pc[p] = "conv" /\ convLock[MsgConv[job[p].msg]] = q
         \/ pc[p] = "inters" /\ \E i \in OpenOn(MsgConv[job[p].msg]) : intLock[i] = q
         \/ pc[p] \in {"run", "advance", "sweep", "cancel"} /\ runLock[r] = q
         \/ Executing(p) /\ convLock[ConvOf[r]] = q }

Deadlocked(S) == S # {} /\ \A p \in S : BlockedBy(p) \cap S # {}

\* PostgreSQL aborts one transaction of a deadlock.
DeadlockVictim(p) ==
    /\ \E S \in SUBSET Procs : p \in S /\ Deadlocked(S)
    /\ Finish(p)
    /\ UNCHANGED <<rows, outcome, deliveries, crashes>>

\* The deadline of a parked run, or the grace period of a claimed one, passes.
Tick(r) ==
    /\ run[r].due = "later"
    /\ run' = [run EXCEPT ![r].due = "now"]
    /\ UNCHANGED <<inter, answers, locks, pc, job, mem, outcome, deliveries, crashes>>

-----------------------------------------------------------------------------
Claim(p) == ClaimConversation(p) \/ ClaimInteractions(p) \/ ClaimStale(p)
            \/ ClaimDuplicate(p) \/ ClaimCommit(p)
Advance(p) == StepTimeout(p) \/ StepSkip(p) \/ StepOnError(p) \/ StepAsk(p)
              \/ StepFail(p) \/ StepComplete(p) \/ StepLimit(p)
Work(p) == Claim(p) \/ AdvanceAfterCommit(p) \/ SweepLock(p) \/ Advance(p)
           \/ CancelWrite(p) \/ DeadlockVictim(p)

Next ==
    \/ \E p \in Procs : Work(p) \/ Crash(p)
    \/ \E p \in Procs, m \in Msgs : ClaimStart(p, m)
    \/ \E p \in Procs, r \in Runs : SweepStart(p, r) \/ Enroll(p, r) \/ CancelRead(p, r)
    \/ \E r \in Runs : SendFailed(r) \/ Tick(r)

Spec == Init /\ [][Next]_vars

\* Workers keep running, the database resolves deadlocks, time passes and beat
\* keeps calling run_due (CELERY_BEAT_SCHEDULE).  Strong, not weak, fairness: a
\* process waiting for a row lock is queued and gets the lock in its turn.
Fairness ==
    /\ \A p \in Procs : SF_vars(Work(p))
    /\ \A r \in Runs : WF_vars(Tick(r)) /\ WF_vars(\E p \in Procs : SweepStart(p, r))

FairSpec == Spec /\ Fairness
-----------------------------------------------------------------------------
(* Properties.                                                             *)

TypeRows ==
    /\ run \in [Runs -> Row]
    /\ inter \in [Inters -> Interaction]
    /\ answers \in SUBSET (Msgs \X Inters)
TypeLocks ==
    /\ convLock \in [Convs -> Procs \cup {None}]
    /\ intLock \in [Inters -> Procs \cup {None}]
    /\ runLock \in [Runs -> Procs \cup {None}]
TypeProcs ==
    /\ pc \in [Procs -> {"idle", "conv", "inters", "run", "advance", "sweep", "step", "cancel"}]
    /\ job \in [Procs -> Job]
    /\ mem \in [Procs -> Tx]
TypeCounts ==
    /\ outcome \in [Msgs -> SUBSET Results]
    /\ deliveries \in [Msgs -> 0..MaxDeliveries]
    /\ crashes \in 0..MaxCrashes

\* Every variable holds rows and process states of the right shape.
TypeOK == TypeRows /\ TypeLocks /\ TypeProcs /\ TypeCounts

\* "An expiry/answer race yields exactly one transition": a run leaves each
\* question at most once, however the sweeper, the fast path and two messages
\* interleave.
OneExitPerQuestion ==
    \A r \in Runs : \A e, f \in run[r].exits : e.step = f.step => e = f

\* "A duplicate provider message never resumes a run twice" and two messages
\* resume at most one run each: one message moves at most one run, once.
OneRunPerMessage ==
    \A r, q \in Runs : \A e \in run[r].exits, f \in run[q].exits :
        e.by = f.by /\ e.by # Timeout => r = q /\ e = f

\* "An answer is never consumed without a run state transition": the answer
\* rows and the transitions of the runs agree, except for a wrong answer to
\* ask_question, which is used up by the re-prompt.
AnswersMatchExits ==
    /\ \A a \in answers : \/ [step |-> a[2][2], by |-> a[1]] \in run[a[2][1]].exits
                          \/ inter[a[2]].bad > 0
    /\ \A r \in Runs : \A e \in run[r].exits :
          e.by # Timeout => <<e.by, <<r, e.step>>>> \in answers

\* A run parked on a question can be answered: the interaction the customer's
\* buttons point at is open as long as the run waits, whatever cancels,
\* orphan clean-ups and skipped locks did to other interactions.
WaitingIsAnswerable ==
    \A r \in Runs : run[r].status = "waiting" => inter[<<r, run[r].step>>].status = "open"

\* A run that ended never runs or waits again.
EndedStaysEnded ==
    [][\A r \in Runs : run[r].status \in Terminal => run'[r].status \in Terminal]_vars

\* Each step of the claim protocol is a step of the promise in QuestionLife.
QState(i) ==
    LET r == i[1]
        left == {e \in run[r].exits : e.step = i[2]}
    IN IF \E e \in left : e.by # Timeout THEN "answered"
       ELSE IF left # {} THEN "expired"
       ELSE IF inter[i].born = 0 THEN "unasked"
       ELSE IF run[r].status \in Terminal THEN "dropped" ELSE "open"
QBy(i) ==
    LET msgs == {m \in Msgs : [step |-> i[2], by |-> m] \in run[i[1]].exits}
    IN IF msgs = {} THEN None ELSE CHOOSE m \in msgs : TRUE

Promise == INSTANCE QuestionLife WITH
    Questions <- Inters, Messages <- Msgs, NoMessage <- None,
    state <- [i \in Inters |-> QState(i)], by <- [i \in Inters |-> QBy(i)]
KeepsPromise == Promise!QSpec

\* A claimed run always moves on, although the process that claimed it may die
\* or be the victim of a deadlock.
ContinuationRuns == \A r \in Runs : run[r].status = "active" ~> run[r].status # "active"

\* No question is waited on for ever: an answer, the deadline or the end of the
\* run comes.
WaitEnds ==
    \A r \in Runs, s \in Steps :
        run[r].status = "waiting" /\ run[r].step = s
            ~> ~(run[r].status = "waiting" /\ run[r].step = s)

\* No run is left behind: claimed, or waiting.
MovesOn == ContinuationRuns /\ WaitEnds

-----------------------------------------------------------------------------
(* What comments of the code say and the model refutes (README,           *)
(* "Disagreements").                                                       *)

\* interaction.py:19, "this provider message was already processed".
AlreadyClaimedIsDuplicate ==
    \A m \in Msgs : "already_claimed" \in outcome[m] => Claimed(m)

\* interaction.py:600, an interaction skipped because a claim holds it is about
\* to be answered, so none stays open once its run has moved on.
SkippedIsAnswered ==
    \A i \in Inters :
        inter[i].status = "open" /\ intLock[i] = None /\ runLock[i[1]] = None
            => run[i[1]].status = "waiting" /\ run[i[1]].step = i[2]

\* models.py:200, one lock order for claim, open, cancel and expiry.
LockOrderHolds == ~ \E S \in SUBSET Procs : Deadlocked(S)

\* interaction.py:9, the claim is committed before advance_run is called.
ContinuationIsDurable == \A p \in Procs : pc[p] = "step" => mem[p].ans \subseteq answers
=============================================================================
