--------------------------- MODULE WorkflowProofs ---------------------------
(***************************************************************************)
(* Proofs about WorkflowEngine, for every workflow graph and any number of *)
(* processes and crashes: types, that no step queues its message twice,    *)
(* that a run that ended queues nothing more and stays ended, and that a   *)
(* live run is not stranded unless advance_run reaches its step limit.     *)
(***************************************************************************)
EXTENDS WorkflowEngine, TLAPS

Loop == {"step", "record", "move", "end"}
Inside == Loop \cup {"parked"}
Places == {"idle", "step", "record", "move", "end", "parked", "sweep", "reply", "cancel", "hook"}
Batch == [done : SUBSET Steps, sent : SUBSET Steps]

\* A transaction of advance_run holds the row, and only it has uncommitted rows;
\* what a process has in hand at each point of the loop and before it.
PlaceAt(p) ==
    /\ tx[p] <=> lock = p
    /\ tx[p] => pc[p] \in Inside
    /\ ~tx[p] => new[p] = Nothing
    /\ pc[p] \in Inside => my[p].status # "absent"
    /\ pc[p] \in {"record", "move"} => fuel[p] > 0 /\ my[p].step \in Steps
    /\ pc[p] = "parked" => my[p].status = "waiting" /\ my[p].due = "later" /\ my[p].step \in Steps
    /\ pc[p] = "reply" => my[p].step \in Steps
    /\ pc[p] = "sweep" => run.status # "absent" /\ "sweep" \in mode.callers
PlaceOK == \A p \in Procs : PlaceAt(p)

\* A process in the loop, or holding the row; one whose saves commit at once.
Busy(p) == tx[p] \/ pc[p] \in Loop
Bare(p) == ~tx[p] /\ pc[p] \in Loop

\* A row that nobody takes up: not due, not waiting, and not selected before.
Calm == /\ run.due = "none" /\ run.status \notin {"waiting", "absent"}
        /\ \A q \in Procs : pc[q] # "sweep"
Stuck == Calm /\ \A q \in Procs : ~Busy(q)

\* One process at a time is in the loop, and nobody can join one without a
\* transaction.
Alone == \A p, q \in Procs : Busy(p) /\ Busy(q) => p = q
Quiet == \A p \in Procs : Bare(p) => Calm
\* A step whose message is queued has its record, or the process that queued it
\* is about to write it, or died, and then nobody takes the run up again.
Settled == \A s \in Steps : sent[s] > 0 /\ s \notin done =>
               Stuck \/ \E p \in Procs : Bare(p) /\ pc[p] = "record" /\ my[p].step = s
\* A transaction queues what was not queued before, and records it.
Batched == \A p \in Procs : \A s \in new[p].sent :
               sent[s] = 0 /\ (s \in new[p].done \/ (pc[p] = "record" /\ my[p].step = s))
OnceInv == Alone /\ Quiet /\ Settled /\ Batched /\ \A s \in Steps : sent[s] <= 1

\* Where every caller holds the row, only its holder is in the loop, and the
\* row it holds has not ended.
HeldAt(p) == (pc[p] \in Inside => tx[p]) /\ (tx[p] => run.status \notin Terminal)
HeldInv == Locked => \A p \in Procs : HeldAt(p)

\* A live row has a due time: what the loop took from it is not committed before
\* the loop has parked it or ended it.
Dated == run.status \in Live => run.due # "none"

IInv == TypeOK /\ PlaceOK /\ (Overtaken \/ OnceInv) /\ HeldInv

-----------------------------------------------------------------------------
(* The helpers.                                                            *)

LEMMA ParkEdit ==
    ASSUME NEW r \in Row
    PROVE  /\ Parked(r) \in Row /\ Parked(r).status = "waiting" /\ Parked(r).due = "later"
           /\ Parked(r).step = r.step
BY DEF Row, Live, Parked

LEMMA ResumeEdit ==
    ASSUME NEW r \in Row, NEW to \in Targets
    PROVE  /\ Resumed(r, to) \in Row /\ Resumed(r, to).status = "active" /\ Resumed(r, to).due = "none"
           /\ Resumed(r, to).step = to
BY DEF Row, Live, Resumed

LEMMA StepEdit ==
    ASSUME NEW r \in Row, NEW to \in Targets
    PROVE  /\ [r EXCEPT !.step = to] \in Row /\ [r EXCEPT !.step = to].status = r.status
           /\ [r EXCEPT !.step = to].due = r.due /\ [r EXCEPT !.step = to].step = to
BY DEF Row

LEMMA StatusEdit ==
    ASSUME NEW r \in Row, NEW a \in Row
    PROVE  /\ [r EXCEPT !.status = a.status] \in Row /\ [r EXCEPT !.status = a.status].status = a.status
           /\ [r EXCEPT !.status = a.status, !.due = a.due] \in Row
           /\ [r EXCEPT !.status = a.status, !.due = a.due].status = a.status
           /\ [r EXCEPT !.status = a.status, !.due = a.due].due = a.due
BY DEF Row

LEMMA EndEdits ==
    ASSUME NEW r \in Row
    PROVE  /\ [r EXCEPT !.status = "failed"] \in Row /\ [r EXCEPT !.status = "failed"].status = "failed"
           /\ [r EXCEPT !.status = "failed"].due = r.due /\ [r EXCEPT !.status = "failed"].step = r.step
           /\ [r EXCEPT !.status = "completed", !.due = "none"] \in Row
           /\ [r EXCEPT !.status = "completed", !.due = "none"].status = "completed"
           /\ [r EXCEPT !.status = "cancelled", !.due = "none"] \in Row
           /\ [r EXCEPT !.status = "cancelled", !.due = "none"].status = "cancelled"
           /\ [r EXCEPT !.status = "cancelled", !.due = "none"].due = "none"
           /\ [r EXCEPT !.due = "none"] \in Row /\ [r EXCEPT !.due = "none"].status = r.status
           /\ [r EXCEPT !.due = "now"] \in Row /\ [r EXCEPT !.due = "now"].status = r.status
           /\ [r EXCEPT !.due = "now"].due = "now"
BY DEF Row, Live, Terminal

LEMMA NoRowTyped ==
    /\ NoRow \in Row /\ NoRow.due = "none" /\ NoRow.status = "absent"
    /\ [NoRow EXCEPT !.status = "active"] \in Row
    /\ [NoRow EXCEPT !.status = "active"].status = "active"
    /\ [NoRow EXCEPT !.status = "active"].due = "none"
    /\ Nothing \in Batch /\ Nothing.sent = {} /\ Nothing.done = {}
BY GraphAssumption DEF NoRow, Row, Targets, Live, Terminal, Nothing, Batch

LEMMA OnceTyped ==
    ASSUME NEW c \in [Steps -> 0..2], NEW S
    PROVE  /\ Once(c, S) \in [Steps -> 0..2]
           /\ \A s \in Steps : s \notin S => Once(c, S)[s] = c[s]
           /\ \A s \in Steps : s \in S /\ c[s] = 0 => Once(c, S)[s] = 1
BY DEF Once

LEMMA RoutesTyped ==
    \A s \in Steps : NextOf[s] \subseteq Targets /\ OnTimeout[s] \in Targets
BY GraphAssumption

LEMMA LimitTyped == TypeOK => mode.maxSteps \in Nat \ {0}
BY CallerAssumption DEF TypeOK, Mode

\* Only p holds the row, if anybody does.
LEMMA FreeAlone ==
    ASSUME PlaceOK, NEW p \in Procs, Free(p)
    PROVE  \A q \in Procs \ {p} : ~tx[q] /\ new[q] = Nothing
BY CallerAssumption DEF Free, PlaceOK, PlaceAt

\* A save changes p's copy and either its batch or the committed rows.
LEMMA SaveTyped ==
    ASSUME TypeOK, NEW p \in Procs, NEW row \in Row, NEW committed \in Row,
           NEW records \in SUBSET Steps, NEW rows \in SUBSET Steps,
           Save(p, row, committed, records, rows)
    PROVE  /\ run' \in Row /\ done' \subseteq Steps /\ sent' \in [Steps -> 0..2]
           /\ my' \in [Procs -> Row] /\ new' \in [Procs -> Batch]
           /\ my'[p] = row /\ (~tx[p] => new' = new)
           /\ \A q \in Procs \ {p} : my'[q] = my[q] /\ new'[q] = new[q]
<1>1. my' \in [Procs -> Row] /\ my'[p] = row /\ \A q \in Procs \ {p} : my'[q] = my[q]
  BY DEF Save, TypeOK
<1>2. CASE tx[p]
  <2>1. new' = [new EXCEPT ![p] = [done |-> new[p].done \cup records, sent |-> new[p].sent \cup rows]]
    BY <1>2 DEF Save
  <2>2. [done |-> new[p].done \cup records, sent |-> new[p].sent \cup rows] \in Batch
    BY DEF TypeOK, Batch
  <2>3. new' \in [Procs -> Batch] /\ \A q \in Procs \ {p} : new'[q] = new[q]
    BY <2>1, <2>2 DEF TypeOK, Batch
  <2> QED BY <1>1, <1>2, <2>3 DEF Save, TypeOK
<1>3. CASE ~tx[p]
  <2>1. run' = committed /\ done' = done \cup records /\ sent' = Once(sent, rows) /\ new' = new
    BY <1>3 DEF Save
  <2> QED BY <1>1, <2>1, OnceTyped DEF TypeOK, Batch
<1> QED BY <1>2, <1>3

\* What every step of p leaves alone.
Frame(p) == /\ mode' = mode
            /\ \A q \in Procs \ {p} : /\ pc'[q] = pc[q] /\ tx'[q] = tx[q] /\ my'[q] = my[q]
                                      /\ new'[q] = new[q] /\ fuel'[q] = fuel[q]
                                      /\ lock' = q <=> lock = q

LEMMA OnePlace ==
    ASSUME PlaceOK, NEW p \in Procs, Frame(p), run.status # "absent" => run'.status # "absent", PlaceAt(p)'
    PROVE  PlaceOK'
BY DEF PlaceOK, PlaceAt, Frame

\* Leaving: p is idle, with nothing in hand.
LEMMA LeaveTyped ==
    ASSUME TypeOK, PlaceOK, NEW p \in Procs, Leave(p), mode' = mode
    PROVE  /\ lock' \in Procs \cup {None} /\ pc' \in [Procs -> Places] /\ tx' \in [Procs -> BOOLEAN]
           /\ my' \in [Procs -> Row] /\ new' \in [Procs -> Batch] /\ fuel' \in [Procs -> 0..mode.maxSteps]
           /\ Frame(p) /\ PlaceAt(p)' /\ pc'[p] = "idle" /\ ~tx'[p] /\ new'[p] = Nothing
<1>1. 0 \in 0..mode.maxSteps
  BY LimitTyped
<1>2. /\ pc' \in [Procs -> Places] /\ tx' \in [Procs -> BOOLEAN] /\ my' \in [Procs -> Row]
      /\ new' \in [Procs -> Batch] /\ fuel' \in [Procs -> 0..mode.maxSteps]
  BY <1>1, NoRowTyped DEF Leave, TypeOK, Places, Batch
<1>3. pc'[p] = "idle" /\ ~tx'[p] /\ new'[p] = Nothing
  BY DEF Leave, TypeOK
<1>4. lock' \in Procs \cup {None} /\ lock' # p /\ \A q \in Procs \ {p} : lock' = q <=> lock = q
  BY CallerAssumption DEF Leave, TypeOK
<1>5. Frame(p)
  BY <1>4 DEF Frame, Leave, TypeOK
<1>6. PlaceAt(p)'
  BY <1>3, <1>4 DEF PlaceAt, Inside, Loop
<1> QED BY <1>2, <1>3, <1>4, <1>5, <1>6

LEMMA SaveAndLeaveTyped ==
    ASSUME TypeOK, PlaceOK, NEW p \in Procs, NEW row \in Row, NEW committed \in Row,
           NEW records \in SUBSET Steps, SaveAndLeave(p, row, committed, records),
           row.status # "absent", run.status # "absent" => committed.status # "absent",
           UNCHANGED <<mode, got, unsent, crashes>>, parked' \subseteq Waits
    PROVE  TypeOK' /\ PlaceOK' /\ Frame(p) /\ ~tx'[p] /\ pc'[p] = "idle"
<1>1. Leave(p) /\ mode' = mode
  BY DEF SaveAndLeave
<1>2. run' \in Row /\ (run.status # "absent" => run'.status # "absent")
  BY DEF SaveAndLeave
<1>3. done' \subseteq Steps /\ sent' \in [Steps -> 0..2]
  BY OnceTyped DEF SaveAndLeave, TypeOK
<1>4. TypeOK'
  BY <1>1, <1>2, <1>3, LeaveTyped DEF TypeOK, Places, Batch
<1>5. PlaceOK' /\ Frame(p) /\ ~tx'[p] /\ pc'[p] = "idle"
  BY <1>1, <1>2, LeaveTyped, OnePlace
<1> QED BY <1>4, <1>5

\* A save after which p goes on in the loop, or returns with the run parked.
LEMMA SaveAndStayTyped ==
    ASSUME TypeOK, PlaceOK, NEW p \in Procs, NEW row \in Row, NEW committed \in Row,
           NEW records \in SUBSET Steps, NEW rows \in SUBSET Steps, NEW at \in Inside,
           Save(p, row, committed, records, rows), pc' = [pc EXCEPT ![p] = at], pc[p] \in Loop,
           UNCHANGED <<mode, lock, tx, unsent, crashes>>, parked' \subseteq Waits,
           row.status # "absent", run.status # "absent" => committed.status # "absent",
           fuel' = fuel \/ (fuel[p] > 0 /\ fuel' = [fuel EXCEPT ![p] = @ - 1]),
           at \in {"record", "move"} => fuel'[p] > 0 /\ row.step \in Steps,
           at = "parked" => row.status = "waiting" /\ row.due = "later" /\ row.step \in Steps,
           got' \in [Steps -> 0..2]
    PROVE  TypeOK' /\ PlaceOK' /\ Frame(p)
<1>1. pc' \in [Procs -> Places] /\ pc'[p] = at /\ \A q \in Procs \ {p} : pc'[q] = pc[q]
  BY DEF TypeOK, Inside, Loop, Places
<1>2. fuel' \in [Procs -> 0..mode.maxSteps] /\ \A q \in Procs \ {p} : fuel'[q] = fuel[q]
  BY LimitTyped DEF TypeOK
<1>3. /\ run' \in Row /\ done' \subseteq Steps /\ sent' \in [Steps -> 0..2]
      /\ my' \in [Procs -> Row] /\ new' \in [Procs -> Batch]
      /\ my'[p] = row /\ (~tx[p] => new' = new)
      /\ \A q \in Procs \ {p} : my'[q] = my[q] /\ new'[q] = new[q]
  BY SaveTyped
<1>4. TypeOK'
  BY <1>1, <1>2, <1>3 DEF TypeOK, Places, Batch
<1>5. Frame(p)
  BY <1>1, <1>2, <1>3 DEF Frame
<1>6. PlaceAt(p)'
  BY <1>1, <1>3 DEF PlaceOK, PlaceAt, Inside, Loop
<1>7. run.status # "absent" => run'.status # "absent"
  BY DEF Save
<1> QED BY <1>4, <1>5, <1>6, <1>7, OnePlace

-----------------------------------------------------------------------------
(* The kinds of steps.  A step in the loop saves and stays in it ...       *)

StayStep(p, row, committed, records, rows, at) ==
    /\ Save(p, row, committed, records, rows)
    /\ pc[p] \in Loop /\ pc' = [pc EXCEPT ![p] = at]
    /\ fuel' = fuel \/ (fuel[p] > 0 /\ fuel' = [fuel EXCEPT ![p] = @ - 1])
    /\ UNCHANGED <<mode, parked, lock, tx, unsent, crashes>> /\ got' \in [Steps -> 0..2]
    /\ row.status # "absent" /\ (run.status # "absent" => committed.status # "absent")
    /\ at \in {"record", "move"} => fuel'[p] > 0 /\ row.step \in Steps
    /\ at = "parked" => row.status = "waiting" /\ row.due = "later" /\ row.step \in Steps
    \* what it saves leaves the run calm, until it parks it
    /\ at # "parked" /\ Calm => committed.due = "none" /\ committed.status \notin {"waiting", "absent"}
    \* it queues a message that is not recorded, and records it now or next
    /\ \A s \in rows : /\ s \notin done /\ pc[p] # "record"
                       /\ s \in records \/ (at = "record" /\ row.step = s)
    /\ pc[p] = "record" => my[p].step \in records
Stays(p) == \E row \in Row, committed \in Row, records \in SUBSET Steps, rows \in SUBSET Steps, at \in Inside :
                StayStep(p, row, committed, records, rows, at)

\* ... or returns, and commits what it has.
LeaveStep(p, row, committed, records) ==
    /\ SaveAndLeave(p, row, committed, records)
    /\ pc[p] \in Inside \ {"record"} /\ (pc[p] = "parked" => committed = run)
    /\ UNCHANGED <<mode, got, unsent, crashes>> /\ parked' \subseteq Waits
    /\ row.status # "absent" /\ (run.status # "absent" => committed.status # "absent")
    /\ row.status \notin Live \/ row.due # "none" \/ HitLimit(p)
Leaves(p) == \E row \in Row, committed \in Row, records \in SUBSET Steps : LeaveStep(p, row, committed, records)

\* A caller enters the loop.
EnterStep(p, row, inTx) ==
    /\ Enter(p, row, inTx) /\ lock = None /\ row.status # "absent"
    /\ pc[p] \in {"idle", "sweep", "reply"}
    /\ run.status \in {"waiting", "absent"} \/ (pc[p] = "sweep" /\ run.status \notin Terminal)
    /\ inTx => run' = run
    /\ ~inTx => run'.status = "active" /\ run'.due = "none" /\ (Overtaken \/ \A q \in Procs : pc[q] # "sweep")
    /\ Locked => inTx
    /\ run' \in Row /\ (run.status # "absent" => run'.status # "absent")
    /\ done \subseteq done' /\ done' \subseteq Steps
    /\ new' \in [Procs -> Batch] /\ new'[p].sent = {} /\ (~inTx => new' = new)
    /\ \A q \in Procs \ {p} : new'[q] = new[q]
    /\ UNCHANGED <<mode, sent, got, parked, unsent, crashes>>
Enters(p) == \E row \in Row, inTx \in BOOLEAN : EnterStep(p, row, inTx)

\* Everything else leaves loop, locks and messages alone.
Rests == /\ UNCHANGED <<mode, sent, done, new, tx, lock>>
         /\ \A q \in Procs : (pc[q] \in Inside \/ pc'[q] \in Inside) => pc'[q] = pc[q] /\ my'[q].step = my[q].step
         /\ (Calm => Calm') /\ (Dated => Dated')
         /\ lock # None => run'.status = run.status
         /\ run.status \in Terminal => run'.status \in Terminal

-----------------------------------------------------------------------------
(* Each kind keeps the invariants.                                         *)

LEMMA StayTyped ==
    ASSUME TypeOK, PlaceOK, NEW p \in Procs, Stays(p)
    PROVE  TypeOK' /\ PlaceOK'
<1>1. PICK row \in Row, committed \in Row, records \in SUBSET Steps, rows \in SUBSET Steps, at \in Inside :
          StayStep(p, row, committed, records, rows, at)
  BY DEF Stays
<1>2. parked' \subseteq Waits
  BY <1>1 DEF StayStep, TypeOK
<1> QED BY <1>1, <1>2, SaveAndStayTyped DEF StayStep

LEMMA StayOnce ==
    ASSUME TypeOK, PlaceOK, OnceInv, NEW p \in Procs, Stays(p)
    PROVE  OnceInv'
<1>1. PICK row \in Row, committed \in Row, records \in SUBSET Steps, rows \in SUBSET Steps, at \in Inside :
          StayStep(p, row, committed, records, rows, at)
  BY DEF Stays
<1>2. parked' \subseteq Waits
  BY <1>1 DEF StayStep, TypeOK
<1>3. Frame(p) /\ tx' = tx
  BY <1>1, <1>2, SaveAndStayTyped DEF StayStep
<1>4. Save(p, row, committed, records, rows) /\ pc[p] \in Loop /\ Busy(p)
  BY <1>1 DEF StayStep, Busy
<1>5. my'[p] = row /\ pc'[p] = at /\ (~tx[p] => new' = new)
  BY <1>1, SaveTyped DEF StayStep, TypeOK
<1>6. \A q \in Procs \ {p} : ~Busy(q) /\ ~Busy(q)' /\ ~Bare(q)' /\ new[q] = Nothing /\ new'[q] = Nothing
  <2>1. \A q \in Procs \ {p} : ~Busy(q) /\ ~tx[q]
    BY <1>4 DEF OnceInv, Alone, Busy
  <2>2. \A q \in Procs \ {p} : new[q] = Nothing
    BY <2>1 DEF PlaceOK, PlaceAt
  <2> QED BY <1>3, <2>1, <2>2 DEF Frame, Busy, Bare
<1>7. ~Stuck
  BY <1>4 DEF Stuck
<1>8. \A s \in Steps : sent[s] > 0 /\ s \notin done => ~tx[p] /\ pc[p] = "record" /\ my[p].step = s
  BY <1>6, <1>7 DEF OnceInv, Settled, Bare, Busy
<1>9. \A s \in rows : s \in Steps /\ sent[s] = 0
  <2>1. \A s \in rows : s \notin done /\ pc[p] # "record"
    BY <1>1 DEF StayStep
  <2>2. \A s \in rows : s \in Steps /\ ~(sent[s] > 0)
    BY <1>1, <1>8, <2>1
  <2> QED BY <2>2 DEF TypeOK
<1>10. Alone'
  BY <1>6 DEF Alone
<1>11. Quiet'
  <2> SUFFICES ASSUME NEW q \in Procs, Bare(q)' PROVE Calm'
    BY DEF Quiet
  <2>1. q = p
    BY <1>6
  <2>2. ~tx[p] /\ at # "parked" /\ Calm
    BY <1>3, <1>4, <1>5, <2>1 DEF Bare, Loop, OnceInv, Quiet
  <2>3. run' = committed /\ committed.due = "none" /\ committed.status \notin {"waiting", "absent"}
    BY <1>1, <1>4, <2>2 DEF StayStep, Save
  <2>4. \A r \in Procs : pc'[r] # "sweep"
    BY <1>3, <1>5, <2>2 DEF Calm, Frame, Inside, Loop
  <2> QED BY <2>3, <2>4 DEF Calm
<1>12. CASE tx[p]
  <2>1. /\ sent' = sent /\ done' = done
        /\ new' = [new EXCEPT ![p] = [done |-> new[p].done \cup records, sent |-> new[p].sent \cup rows]]
    BY <1>4, <1>12 DEF Save
  <2>2. new'[p].done = new[p].done \cup records /\ new'[p].sent = new[p].sent \cup rows
    BY <2>1 DEF TypeOK
  <2>3. Settled'
    BY <1>8, <1>12, <2>1 DEF Settled
  <2>4. Batched'
    <3> SUFFICES ASSUME NEW s \in new'[p].sent
                 PROVE  sent'[s] = 0 /\ (s \in new'[p].done \/ (pc'[p] = "record" /\ my'[p].step = s))
      BY <1>6, NoRowTyped DEF Batched
    <3>1. CASE s \in rows
      BY <1>1, <1>5, <1>9, <2>1, <2>2, <3>1 DEF StayStep
    <3>2. CASE s \in new[p].sent
      <4>1. sent[s] = 0 /\ (s \in new[p].done \/ (pc[p] = "record" /\ my[p].step = s))
        BY <3>2 DEF OnceInv, Batched
      <4>2. pc[p] = "record" => my[p].step \in records
        BY <1>1 DEF StayStep
      <4> QED BY <2>1, <2>2, <4>1, <4>2
    <3> QED BY <2>2, <3>1, <3>2
  <2> QED BY <1>10, <1>11, <2>1, <2>3, <2>4 DEF OnceInv
<1>13. CASE ~tx[p]
  <2>1. sent' = Once(sent, rows) /\ done' = done \cup records /\ new' = new /\ new[p] = Nothing
    BY <1>4, <1>13 DEF Save, PlaceOK, PlaceAt
  <2>2. Batched'
    BY <1>6, <2>1, NoRowTyped DEF Batched
  <2>3. \A s \in Steps : /\ s \notin rows => sent'[s] = sent[s]
                         /\ s \in rows => sent'[s] = 1
    BY <1>9, <2>1, OnceTyped DEF TypeOK
  <2>4. Settled'
    <3> SUFFICES ASSUME NEW s \in Steps, sent'[s] > 0, s \notin done'
                 PROVE  Bare(p)' /\ pc'[p] = "record" /\ my'[p].step = s
      BY DEF Settled
    <3>1. s \notin records /\ s \notin done
      BY <2>1
    <3>2. s \in rows
      <4>1. pc[p] = "record" => my[p].step \in records
        BY <1>1 DEF StayStep
      <4> QED BY <1>8, <2>3, <3>1, <4>1
    <3>3. at = "record" /\ row.step = s
      BY <1>1, <3>1, <3>2 DEF StayStep
    <3> QED BY <1>3, <1>5, <1>13, <3>3 DEF Bare, Loop
  <2>5. \A s \in Steps : sent'[s] <= 1
    BY <2>3 DEF OnceInv
  <2> QED BY <1>10, <1>11, <2>2, <2>4, <2>5 DEF OnceInv
<1> QED BY <1>12, <1>13

LEMMA StayHeld ==
    ASSUME TypeOK, PlaceOK, HeldInv, NEW p \in Procs, Stays(p)
    PROVE  HeldInv'
<1>1. PICK row \in Row, committed \in Row, records \in SUBSET Steps, rows \in SUBSET Steps, at \in Inside :
          StayStep(p, row, committed, records, rows, at)
  BY DEF Stays
<1>2. pc[p] \in Inside /\ Save(p, row, committed, records, rows) /\ tx' = tx /\ mode' = mode
  BY <1>1 DEF StayStep, Inside
<1>3. \A q \in Procs \ {p} : pc'[q] = pc[q]
  BY <1>1 DEF StayStep, TypeOK
<1>4. Locked => tx[p] /\ run' = run
  BY <1>2 DEF HeldInv, HeldAt, Save
<1> QED BY <1>2, <1>3, <1>4 DEF HeldInv, HeldAt, Locked

LEMMA LeaveKept ==
    ASSUME TypeOK, PlaceOK, NEW p \in Procs, Leaves(p)
    PROVE  TypeOK' /\ PlaceOK'
BY SaveAndLeaveTyped DEF Leaves, LeaveStep

LEMMA LeaveOnce ==
    ASSUME TypeOK, PlaceOK, OnceInv, NEW p \in Procs, Leaves(p)
    PROVE  OnceInv'
<1>1. PICK row \in Row, committed \in Row, records \in SUBSET Steps : LeaveStep(p, row, committed, records)
  BY DEF Leaves
<1>2. Frame(p) /\ ~tx'[p] /\ pc'[p] = "idle" /\ SaveAndLeave(p, row, committed, records) /\ PlaceOK'
  BY <1>1, SaveAndLeaveTyped DEF LeaveStep
<1>3. /\ sent' = Once(sent, new[p].sent) /\ done' = done \cup records \cup new[p].done
      /\ run' = IF tx[p] THEN row ELSE committed
  BY <1>2 DEF SaveAndLeave
<1>4. pc[p] \in Inside \ {"record"} /\ (pc[p] = "parked" => committed = run)
  BY <1>1 DEF LeaveStep
<1>5. ~Busy(p)' /\ \A q \in Procs \ {p} : (Busy(q)' <=> Busy(q)) /\ (Bare(q)' <=> Bare(q))
  BY <1>2 DEF Frame, Busy, Bare, Loop
<1>6. \A q \in Procs \ {p} : ~tx[q] /\ new'[q] = Nothing
  BY <1>2, FreeAlone DEF SaveAndLeave, Frame
<1>7. Alone'
  BY <1>5 DEF OnceInv, Alone
<1>8. Batched'
  <2>1. new'[p] = Nothing
    BY <1>2 DEF PlaceOK, PlaceAt
  <2> QED BY <1>6, <2>1, NoRowTyped DEF Batched
<1>9. \A s \in new[p].sent : s \in Steps /\ sent[s] = 0 /\ s \in done'
  BY <1>3, <1>4 DEF OnceInv, Batched, TypeOK
<1>10. \A s \in Steps : /\ s \notin new[p].sent => sent'[s] = sent[s]
                        /\ s \in new[p].sent => sent'[s] = 1
  BY <1>3, <1>9, OnceTyped DEF TypeOK
<1>11. \A s \in Steps : sent'[s] <= 1
  BY <1>10 DEF OnceInv
<1>12. \A s \in Steps : sent'[s] > 0 /\ s \notin done' => sent[s] > 0 /\ s \notin done
  BY <1>3, <1>9, <1>10
<1>13. CASE Busy(p)
  <2>1. \A q \in Procs \ {p} : ~Busy(q) /\ ~Bare(q)
    BY <1>13 DEF OnceInv, Alone, Busy, Bare
  <2>2. Quiet'
    BY <1>5, <2>1 DEF Quiet, Busy, Bare
  <2>3. \A s \in Steps : ~(sent[s] > 0 /\ s \notin done)
    BY <1>4, <1>13, <2>1 DEF OnceInv, Settled, Stuck
  <2>4. Settled'
    BY <1>12, <2>3 DEF Settled
  <2> QED BY <1>7, <1>8, <1>11, <2>2, <2>4 DEF OnceInv
<1>14. CASE ~Busy(p)
  <2>1. run' = run
    BY <1>3, <1>4, <1>14 DEF Busy, Inside
  <2>2. Calm => Calm'
    BY <1>2, <2>1 DEF Calm, Frame
  <2>3. Quiet'
    BY <1>5, <2>2 DEF OnceInv, Quiet, Busy, Bare
  <2>4. Settled'
    <3> SUFFICES ASSUME NEW s \in Steps, sent'[s] > 0, s \notin done'
                 PROVE  Stuck' \/ \E q \in Procs : Bare(q)' /\ pc'[q] = "record" /\ my'[q].step = s
      BY DEF Settled
    <3>1. CASE Stuck
      BY <1>5, <2>2, <3>1 DEF Stuck
    <3>2. ASSUME NEW q \in Procs, Bare(q), pc[q] = "record", my[q].step = s
          PROVE  Bare(q)' /\ pc'[q] = "record" /\ my'[q].step = s
      <4>1. q # p
        BY <1>4, <3>2
      <4> QED BY <1>2, <1>5, <3>2, <4>1 DEF Frame
    <3> QED BY <1>12, <3>1, <3>2 DEF OnceInv, Settled
  <2> QED BY <1>7, <1>8, <1>11, <2>3, <2>4 DEF OnceInv
<1> QED BY <1>13, <1>14

LEMMA LeaveHeld ==
    ASSUME TypeOK, PlaceOK, HeldInv, NEW p \in Procs, Leaves(p)
    PROVE  HeldInv'
<1>1. PICK row \in Row, committed \in Row, records \in SUBSET Steps : LeaveStep(p, row, committed, records)
  BY DEF Leaves
<1>2. Frame(p) /\ ~tx'[p] /\ pc'[p] = "idle" /\ Free(p)
  BY <1>1, SaveAndLeaveTyped DEF LeaveStep, SaveAndLeave
<1>3. \A q \in Procs \ {p} : ~tx[q]
  BY <1>2, FreeAlone
<1> QED BY <1>2, <1>3 DEF HeldInv, HeldAt, Frame, Locked, Inside, Loop

LEMMA EnterTyped ==
    ASSUME TypeOK, PlaceOK, NEW p \in Procs, NEW row \in Row, NEW inTx \in BOOLEAN, EnterStep(p, row, inTx)
    PROVE  /\ TypeOK' /\ PlaceOK' /\ Frame(p)
           /\ pc'[p] = "step" /\ tx'[p] = inTx /\ ~tx[p]
<1>1. /\ lock' \in Procs \cup {None} /\ pc' \in [Procs -> Places] /\ tx' \in [Procs -> BOOLEAN]
      /\ my' \in [Procs -> Row] /\ fuel' \in [Procs -> 0..mode.maxSteps]
  BY LimitTyped DEF EnterStep, Enter, TypeOK, Places
<1>2. pc'[p] = "step" /\ tx'[p] = inTx /\ my'[p] = row
  BY DEF EnterStep, Enter, TypeOK
<1>3. (lock' = p <=> inTx) /\ \A q \in Procs \ {p} : lock' = q <=> lock = q
  BY CallerAssumption DEF EnterStep, Enter
<1>4. ~tx[p] /\ new[p] = Nothing
  BY CallerAssumption DEF EnterStep, PlaceOK, PlaceAt
<1>5. Frame(p)
  BY <1>3 DEF Frame, EnterStep, Enter, TypeOK
<1>6. PlaceAt(p)'
  BY <1>2, <1>3, <1>4 DEF EnterStep, PlaceAt, Inside, Loop
<1>7. TypeOK'
  BY <1>1 DEF EnterStep, TypeOK, Places, Batch
<1>8. PlaceOK'
  BY <1>5, <1>6, OnePlace DEF EnterStep
<1> QED BY <1>2, <1>4, <1>5, <1>7, <1>8

LEMMA EnterKept ==
    ASSUME TypeOK, PlaceOK, HeldInv, NEW p \in Procs, Enters(p)
    PROVE  TypeOK' /\ PlaceOK' /\ HeldInv'
<1>1. PICK row \in Row, inTx \in BOOLEAN : EnterStep(p, row, inTx)
  BY DEF Enters
<1>2. /\ TypeOK' /\ PlaceOK' /\ Frame(p)
      /\ pc'[p] = "step" /\ tx'[p] = inTx
  BY <1>1, EnterTyped
<1>3. \A q \in Procs : ~tx[q]
  BY <1>1, CallerAssumption DEF EnterStep, PlaceOK, PlaceAt
<1>4. Locked => inTx /\ run' = run /\ run.status \notin Terminal
  BY <1>1 DEF EnterStep, Terminal
<1>5. Locked' <=> Locked
  BY <1>2 DEF Locked, Frame
<1>6. HeldInv'
  BY <1>2, <1>3, <1>4, <1>5 DEF HeldInv, HeldAt, Frame
<1> QED BY <1>2, <1>6

LEMMA EnterOnce ==
    ASSUME TypeOK, PlaceOK, OnceInv, ~Overtaken, NEW p \in Procs, Enters(p)
    PROVE  OnceInv'
<1>1. PICK row \in Row, inTx \in BOOLEAN : EnterStep(p, row, inTx)
  BY DEF Enters
<1>2. Frame(p) /\ pc'[p] = "step" /\ tx'[p] = inTx
  BY <1>1, EnterTyped
<1>3. ~Calm /\ \A q \in Procs : ~tx[q] /\ new[q] = Nothing
  BY <1>1, CallerAssumption DEF EnterStep, Calm, PlaceOK, PlaceAt
<1>4. \A q \in Procs : ~Busy(q)
  BY <1>3 DEF OnceInv, Quiet, Busy, Bare
<1>5. \A q \in Procs \ {p} : ~Busy(q)' /\ ~Bare(q)'
  BY <1>2, <1>4 DEF Frame, Busy, Bare
<1>6. Alone'
  BY <1>5 DEF Alone
<1>7. Quiet'
  <2> SUFFICES ASSUME Bare(p)' PROVE Calm'
    BY <1>5 DEF Quiet
  <2>1. ~inTx
    BY <1>2 DEF Bare
  <2>2. run'.status = "active" /\ run'.due = "none" /\ \A q \in Procs : pc[q] # "sweep"
    BY <1>1, <2>1 DEF EnterStep
  <2> QED BY <1>2, <2>2 DEF Calm, Frame
<1>8. Settled'
  <2>1. \A s \in Steps : sent[s] > 0 => s \in done
    BY <1>3, <1>4 DEF OnceInv, Settled, Stuck, Bare, Busy
  <2> QED BY <1>1, <2>1 DEF EnterStep, Settled
<1>9. Batched'
  BY <1>1, <1>2, <1>3, NoRowTyped DEF Batched, EnterStep, Frame
<1> QED BY <1>1, <1>6, <1>7, <1>8, <1>9 DEF OnceInv, EnterStep

LEMMA RestOnce ==
    ASSUME OnceInv, Rests
    PROVE  OnceInv'
<1>1. \A q \in Procs : (Busy(q)' <=> Busy(q)) /\ (Bare(q)' <=> Bare(q))
  BY DEF Rests, Busy, Bare, Inside
<1>2. Alone'
  BY <1>1 DEF OnceInv, Alone
<1>3. Quiet'
  BY <1>1 DEF OnceInv, Quiet, Rests
<1>4. Stuck => Stuck'
  BY <1>1 DEF Stuck, Rests
<1>5. \A q \in Procs : \A s : Bare(q) /\ pc[q] = "record" /\ my[q].step = s
                          => Bare(q)' /\ pc'[q] = "record" /\ my'[q].step = s
  BY <1>1 DEF Rests, Inside, Loop
<1>6. Settled'
  BY <1>4, <1>5 DEF OnceInv, Settled, Rests
<1>7. Batched'
  BY DEF OnceInv, Batched, Rests, Inside, Loop
<1> QED BY <1>2, <1>3, <1>6, <1>7 DEF OnceInv, Rests

LEMMA RestHeld ==
    ASSUME PlaceOK, HeldInv, Rests
    PROVE  HeldInv'
<1> SUFFICES ASSUME Locked, NEW q \in Procs PROVE HeldAt(q)'
  BY DEF HeldInv, Locked, Rests
<1>1. HeldAt(q) /\ (tx[q] => lock # None)
  BY CallerAssumption DEF HeldInv, PlaceOK, PlaceAt
<1>2. pc'[q] \in Inside => tx'[q]
  BY <1>1 DEF Rests, HeldAt
<1>3. tx'[q] => run'.status \notin Terminal
  BY <1>1 DEF Rests, HeldAt
<1> QED BY <1>2, <1>3 DEF HeldAt

\* A worker that dies in the loop leaves a run that nobody takes up, or what its
\* transaction did is undone.
LEMMA CrashOnce ==
    ASSUME TypeOK, PlaceOK, OnceInv, NEW p \in Procs, Crash(p)
    PROVE  OnceInv'
<1>1. Leave(p) /\ UNCHANGED <<mode, run, done, sent>>
  BY DEF Crash
<1>2. Frame(p) /\ pc'[p] = "idle" /\ ~tx'[p] /\ new'[p] = Nothing
  BY <1>1, LeaveTyped
<1>3. ~Busy(p)' /\ \A q \in Procs \ {p} : (Busy(q)' <=> Busy(q)) /\ (Bare(q)' <=> Bare(q))
  BY <1>2 DEF Frame, Busy, Bare, Loop
<1>4. Calm => Calm'
  BY <1>1, <1>2 DEF Calm, Frame
<1>5. Alone'
  BY <1>3 DEF OnceInv, Alone
<1>6. Quiet'
  BY <1>3, <1>4 DEF OnceInv, Quiet, Busy, Bare
<1>7. Batched'
  BY <1>1, <1>2, NoRowTyped DEF OnceInv, Batched, Frame
<1>8. Settled'
  <2> SUFFICES ASSUME NEW s \in Steps, sent[s] > 0, s \notin done
               PROVE  Stuck' \/ \E q \in Procs : Bare(q)' /\ pc'[q] = "record" /\ my'[q].step = s
    BY <1>1 DEF Settled
  <2>1. CASE Stuck
    BY <1>3, <1>4, <2>1 DEF Stuck
  <2>2. ASSUME NEW q \in Procs, Bare(q), pc[q] = "record", my[q].step = s
        PROVE  Stuck' \/ (Bare(q)' /\ pc'[q] = "record" /\ my'[q].step = s)
    <3>1. CASE q = p
      <4>1. Calm /\ \A r \in Procs \ {p} : ~Busy(r)
        BY <2>2, <3>1 DEF OnceInv, Quiet, Alone, Busy, Bare
      <4> QED BY <1>3, <1>4, <4>1 DEF Stuck
    <3>2. CASE q # p
      BY <1>2, <1>3, <2>2, <3>2 DEF Frame
    <3> QED BY <3>1, <3>2
  <2> QED BY <2>1, <2>2 DEF OnceInv, Settled
<1> QED BY <1>1, <1>5, <1>6, <1>7, <1>8 DEF OnceInv

LEMMA CrashKept ==
    ASSUME TypeOK, PlaceOK, HeldInv, NEW p \in Procs, Crash(p)
    PROVE  TypeOK' /\ PlaceOK' /\ HeldInv'
<1>1. Leave(p) /\ UNCHANGED <<mode, run, done, sent, got, parked, unsent>> /\ crashes' \in 0..MaxCrashes
  BY CallerAssumption DEF Crash, TypeOK
<1>2. Frame(p) /\ pc'[p] = "idle" /\ ~tx'[p] /\ PlaceAt(p)'
  BY <1>1, LeaveTyped
<1>3. TypeOK'
  BY <1>1, LeaveTyped DEF TypeOK, Places, Batch
<1>4. HeldInv'
  BY <1>1, <1>2 DEF HeldInv, HeldAt, Locked, Frame, Inside, Loop
<1> QED BY <1>1, <1>2, <1>3, <1>4, OnePlace

-----------------------------------------------------------------------------
(* Each action is a step of its kind.                                      *)

\* What a process at the top of the loop knows.
LEMMA AtTopKnown ==
    ASSUME TypeOK, PlaceOK, NEW p \in Procs, AtTop(p)
    PROVE  /\ pc[p] = "step" /\ fuel[p] > 0 /\ my[p] \in Row /\ run \in Row
           /\ my[p].status # "absent"
BY DEF TypeOK, PlaceOK, PlaceAt, AtTop, Inside, Loop

LEMMA LeaveWaitStays ==
    ASSUME TypeOK, PlaceOK, NEW p \in Procs, LeaveWait(p)
    PROVE  Stays(p)
<1> DEFINE s == my[p].step
<1>1. s \in Steps /\ AtTop(p)
  BY DEF LeaveWait, At
<1>2. PICK to \in (IF KindOf[s] = "wait" THEN NextOf[s] ELSE {OnTimeout[s]}) :
          /\ Save(p, Resumed(my[p], to), Resumed(my[p], to), {s}, {})
          /\ Again(p, IF to = End /\ KindOf[s] # "wait" THEN "end" ELSE "step")
  BY DEF LeaveWait
<1>3. to \in Targets
  BY <1>1, <1>2, RoutesTyped
<1> DEFINE at == IF to = End /\ KindOf[s] # "wait" THEN "end" ELSE "step"
           row == Resumed(my[p], to)
<1>4. row \in Row /\ row.status = "active" /\ row.due = "none"
  BY <1>1, <1>3, AtTopKnown, ResumeEdit
<1>5. at \in {"end", "step"}
  OBVIOUS
<1>6. Save(p, row, row, {s}, {}) /\ Again(p, at) /\ UNCHANGED <<mode, got, parked, unsent, lock, tx, crashes>>
  BY <1>2 DEF LeaveWait
<1> HIDE DEF at, row, s
<1>7. StayStep(p, row, row, {s}, {}, at)
  BY <1>1, <1>4, <1>5, <1>6, AtTopKnown DEF StayStep, Again, Loop, TypeOK
<1> QED BY <1>1, <1>4, <1>5, <1>7 DEF Stays, Inside, Loop

LEMMA SkipStays ==
    ASSUME TypeOK, PlaceOK, NEW p \in Procs, Skip(p)
    PROVE  Stays(p)
<1> DEFINE s == my[p].step
<1>1. s \in Steps /\ AtTop(p)
  BY DEF Skip, At
<1>2. PICK to \in NextOf[s] :
          /\ Save(p, [my[p] EXCEPT !.step = to], StepSaved([my[p] EXCEPT !.step = to]), {}, {})
          /\ Again(p, IF to = s THEN "end" ELSE "step")
  BY DEF Skip
<1>3. to \in Targets
  BY <1>1, <1>2, RoutesTyped
<1> DEFINE at == IF to = s THEN "end" ELSE "step"
           row == [my[p] EXCEPT !.step = to]
           committed == [run EXCEPT !.step = row.step]
<1>4. row \in Row /\ row.status = my[p].status /\ row.step = to
  BY <1>1, <1>3, AtTopKnown, StepEdit
<1>5. committed \in Row /\ committed.status = run.status /\ committed.due = run.due
  <2> HIDE DEF row
  <2> QED BY <1>1, <1>3, <1>4, AtTopKnown, StepEdit
<1>6. at \in {"end", "step"}
  OBVIOUS
<1>7. Save(p, row, committed, {}, {}) /\ Again(p, at) /\ UNCHANGED <<mode, got, parked, unsent, lock, tx, crashes>>
  BY <1>2 DEF Skip, StepSaved
<1> HIDE DEF at, row, committed, s
<1>8. StayStep(p, row, committed, {}, {}, at)
  BY <1>1, <1>4, <1>5, <1>6, <1>7, AtTopKnown DEF StayStep, Again, Loop, TypeOK, Calm
<1> QED BY <1>4, <1>5, <1>6, <1>8 DEF Stays, Inside, Loop

LEMMA ExecuteStays ==
    ASSUME TypeOK, PlaceOK, NEW p \in Procs, Execute(p)
    PROVE  Stays(p)
<1>1. my[p].step \in Steps /\ AtTop(p) /\ my[p].step \notin done
  BY DEF Execute, Executable, At, Recorded
<1>2. PICK rows \in {{}, {my[p].step}} : Save(p, my[p], run, {}, rows)
  BY DEF Execute
<1>3. StayStep(p, my[p], run, {}, rows, "record")
  BY <1>1, <1>2, AtTopKnown DEF Execute, StayStep, Loop, TypeOK, Calm
<1>4. my[p] \in Row /\ run \in Row /\ rows \in SUBSET Steps
  BY <1>1, <1>2, AtTopKnown
<1> QED BY <1>3, <1>4 DEF Stays, Inside, Loop

LEMMA RecordStays ==
    ASSUME TypeOK, PlaceOK, NEW p \in Procs, Record(p) \/ Move(p)
    PROVE  Stays(p)
<1>1. /\ my[p] \in Row /\ run \in Row /\ my[p].status # "absent" /\ fuel[p] > 0 /\ my[p].step \in Steps
      /\ pc[p] \in {"record", "move"}
  BY DEF Record, Move, TypeOK, PlaceOK, PlaceAt, Inside, Loop
<1>2. CASE Record(p)
  <2>1. StayStep(p, my[p], run, {my[p].step}, {}, "move")
    BY <1>1, <1>2 DEF Record, StayStep, Loop, TypeOK, Calm
  <2> QED BY <1>1, <2>1 DEF Stays, Inside, Loop
<1>3. CASE Move(p)
  <2>1. PICK to \in NextOf[my[p].step] :
            /\ Save(p, [my[p] EXCEPT !.step = to], StepSaved([my[p] EXCEPT !.step = to]), {}, {})
            /\ Again(p, IF to = End THEN "end" ELSE "step")
    BY <1>3 DEF Move
  <2>2. to \in Targets
    BY <1>1, <2>1, RoutesTyped
  <2> DEFINE at == IF to = End THEN "end" ELSE "step"
             row == [my[p] EXCEPT !.step = to]
             committed == [run EXCEPT !.step = row.step]
  <2>3. row \in Row /\ row.status = my[p].status /\ row.step = to
    BY <1>1, <2>2, StepEdit
  <2>4. committed \in Row /\ committed.status = run.status /\ committed.due = run.due
    <3> HIDE DEF row
    <3> QED BY <1>1, <2>2, <2>3, StepEdit
  <2>5. at \in {"end", "step"}
    OBVIOUS
  <2>6. Save(p, row, committed, {}, {}) /\ Again(p, at) /\ pc[p] = "move"
        /\ UNCHANGED <<mode, got, parked, unsent, lock, tx, crashes>>
    BY <1>3, <2>1 DEF Move, StepSaved
  <2> HIDE DEF at, row, committed
  <2>7. StayStep(p, row, committed, {}, {}, at)
    BY <1>1, <2>3, <2>4, <2>5, <2>6 DEF StayStep, Again, Loop, TypeOK, Calm
  <2> QED BY <2>3, <2>4, <2>5, <2>7 DEF Stays, Inside, Loop
<1> QED BY <1>2, <1>3

LEMMA SendDirectStays ==
    ASSUME TypeOK, PlaceOK, NEW p \in Procs, SendDirect(p)
    PROVE  Stays(p)
<1> DEFINE row == Parked(my[p])
           committed == [run EXCEPT !.status = row.status, !.due = row.due]
<1>1. my[p].step \in Steps /\ AtTop(p) /\ my[p].step \notin done
  BY DEF SendDirect, Executable, At, Recorded
<1>2. row \in Row /\ row.status = "waiting" /\ row.due = "later" /\ row.step = my[p].step
  BY <1>1, AtTopKnown, ParkEdit
<1>3. committed \in Row /\ committed.status = "waiting"
  <2> HIDE DEF row
  <2> QED BY <1>1, <1>2, AtTopKnown, StatusEdit
<1>4. /\ Save(p, row, committed, {row.step}, {row.step})
      /\ pc' = [pc EXCEPT ![p] = "parked"] /\ got' = Once(got, {row.step})
      /\ UNCHANGED <<mode, parked, unsent, lock, tx, fuel, crashes>>
  BY DEF SendDirect, ParkSaved
<1>5. got' \in [Steps -> 0..2]
  BY <1>4, OnceTyped DEF TypeOK
<1> HIDE DEF row, committed
<1>6. StayStep(p, row, committed, {row.step}, {row.step}, "parked")
  BY <1>1, <1>2, <1>3, <1>4, <1>5, AtTopKnown DEF StayStep, Loop
<1> QED BY <1>1, <1>2, <1>3, <1>6 DEF Stays, Inside, Loop

LEMMA ParkLeaves ==
    ASSUME TypeOK, PlaceOK, NEW p \in Procs, ParkOnWait(p) \/ RetryLater(p)
    PROVE  Leaves(p)
<1> DEFINE row == Parked(my[p])
           committed == [run EXCEPT !.status = row.status, !.due = row.due]
<1>1. my[p].step \in Steps /\ AtTop(p)
  BY DEF ParkOnWait, RetryLater, Executable, At
<1>2. row \in Row /\ row.status = "waiting" /\ row.due = "later" /\ row.step = my[p].step
  BY <1>1, AtTopKnown, ParkEdit
<1>3. committed \in Row /\ committed.status = "waiting"
  <2> HIDE DEF row
  <2> QED BY <1>1, <1>2, AtTopKnown, StatusEdit
<1>4. SaveAndLeave(p, row, committed, {}) /\ UNCHANGED <<mode, got, unsent, crashes>>
  BY DEF ParkOnWait, RetryLater, ParkSaved
<1>5. parked' \subseteq Waits
  BY <1>1, <1>2 DEF ParkOnWait, RetryLater, At, Waits, TypeOK
<1> HIDE DEF row, committed
<1>6. LeaveStep(p, row, committed, {})
  BY <1>1, <1>2, <1>3, <1>4, <1>5, AtTopKnown DEF LeaveStep, Inside, Loop
<1> QED BY <1>2, <1>3, <1>6 DEF Leaves

LEMMA EndLeaves ==
    ASSUME TypeOK, PlaceOK, NEW p \in Procs, Fail(p) \/ ReturnParked(p) \/ Complete(p) \/ HitLimit(p)
    PROVE  Leaves(p)
<1>0. /\ my[p] \in Row /\ run \in Row /\ pc[p] \in Inside \ {"record"} /\ my[p].status # "absent"
      /\ parked \subseteq Waits
  BY DEF Fail, ReturnParked, Complete, HitLimit, Executable, At, AtTop, TypeOK, PlaceOK, PlaceAt, Inside, Loop
<1>1. CASE Fail(p)
  <2> DEFINE row == [my[p] EXCEPT !.status = "failed"]
             committed == [run EXCEPT !.status = row.status]
  <2>1. row \in Row /\ row.status = "failed" /\ row.step \in Steps
    BY <1>0, <1>1, EndEdits DEF Fail, Executable, At
  <2>2. committed \in Row /\ committed.status = "failed"
    <3> HIDE DEF row
    <3> QED BY <1>0, <2>1, StatusEdit
  <2>3. SaveAndLeave(p, row, committed, {row.step}) /\ UNCHANGED <<mode, got, parked, unsent, crashes>>
        /\ pc[p] = "step"
    BY <1>1 DEF Fail, StatusSaved, Executable, At, AtTop
  <2> HIDE DEF row, committed
  <2>4. LeaveStep(p, row, committed, {row.step})
    BY <1>0, <2>1, <2>2, <2>3 DEF LeaveStep, Live
  <2> QED BY <2>1, <2>2, <2>4 DEF Leaves
<1>2. CASE ReturnParked(p) \/ HitLimit(p)
  <2>1. ReturnParked(p) => my[p].due = "later"
    BY DEF ReturnParked, PlaceOK, PlaceAt
  <2>2. LeaveStep(p, my[p], run, {})
    BY <1>0, <1>2, <2>1 DEF LeaveStep, ReturnParked, HitLimit
  <2> QED BY <1>0, <2>2 DEF Leaves
<1>3. CASE Complete(p)
  <2> DEFINE row == [my[p] EXCEPT !.status = "completed", !.due = "none"]
             committed == [run EXCEPT !.status = row.status, !.due = row.due]
  <2>1. row \in Row /\ row.status = "completed"
    BY <1>0, EndEdits
  <2>2. committed \in Row /\ committed.status = "completed"
    <3> HIDE DEF row
    <3> QED BY <1>0, <2>1, StatusEdit
  <2>3. SaveAndLeave(p, row, committed, {}) /\ UNCHANGED <<mode, got, parked, unsent, crashes>>
        /\ pc[p] \in {"end", "step"}
    BY <1>3 DEF Complete, ParkSaved, AtTop
  <2> HIDE DEF row, committed
  <2>4. LeaveStep(p, row, committed, {})
    BY <1>0, <2>1, <2>2, <2>3 DEF LeaveStep, Live
  <2> QED BY <2>1, <2>2, <2>4 DEF Leaves
<1> QED BY <1>1, <1>2, <1>3

LEMMA AdvanceKinds ==
    ASSUME TypeOK, PlaceOK, NEW p \in Procs, Advance(p)
    PROVE  Stays(p) \/ Leaves(p)
BY LeaveWaitStays, SkipStays, ExecuteStays, RecordStays, SendDirectStays, ParkLeaves, EndLeaves DEF Advance

\* Who finds the row unlocked is in no transaction and has nothing uncommitted.
LEMMA UnlockedKnown ==
    ASSUME TypeOK, PlaceOK, lock = None
    PROVE  \A q \in Procs : ~tx[q] /\ new[q] = Nothing
BY CallerAssumption DEF PlaceOK, PlaceAt

LEMMA EnrollEnters ==
    ASSUME TypeOK, PlaceOK, NEW p \in Procs, Enroll(p)
    PROVE  Enters(p)
<1> DEFINE row == [NoRow EXCEPT !.status = "active"]
<1>1. row \in Row /\ row.status = "active" /\ row.due = "none"
  BY NoRowTyped
<1>2. /\ pc[p] = "idle" /\ run.status = "absent" /\ lock = None
      /\ UNCHANGED <<mode, done, sent, got, parked, unsent, new, crashes>>
  BY DEF Enroll
<1>3. new \in [Procs -> Batch] /\ new[p].sent = {} /\ run \in Row /\ done \subseteq Steps
  BY <1>2, UnlockedKnown, NoRowTyped DEF TypeOK, Batch
<1>4. \A q \in Procs : pc[q] # "sweep"
  BY <1>2 DEF PlaceOK, PlaceAt
<1>5. \/ Enter(p, row, TRUE) /\ run' = run
      \/ "api" \in mode.callers /\ Enter(p, row, FALSE) /\ run' = row
  BY DEF Enroll
<1> HIDE DEF row
<1>6. CASE Enter(p, row, TRUE) /\ run' = run
  <2>1. EnterStep(p, row, TRUE)
    BY <1>1, <1>2, <1>3, <1>6 DEF EnterStep
  <2> QED BY <1>1, <2>1 DEF Enters
<1>7. CASE "api" \in mode.callers /\ Enter(p, row, FALSE) /\ run' = row
  <2>1. EnterStep(p, row, FALSE)
    BY <1>1, <1>2, <1>3, <1>4, <1>7 DEF EnterStep, Locked
  <2> QED BY <1>1, <2>1 DEF Enters
<1> QED BY <1>5, <1>6, <1>7

LEMMA SweepLockEnters ==
    ASSUME TypeOK, PlaceOK, NEW p \in Procs, SweepLock(p), StillDue(run)
    PROVE  Enters(p)
<1> DEFINE row == IF run.status = "active" THEN [run EXCEPT !.due = "none"] ELSE run
<1>1. run \in Row /\ run.status \in Live
  BY DEF TypeOK, StillDue, TimedOut, Live
<1>2. row \in Row /\ row.status # "absent"
  BY <1>1, EndEdits DEF Live
<1>3. /\ pc[p] = "sweep" /\ lock = None /\ Enter(p, row, TRUE)
      /\ UNCHANGED <<mode, run, done, sent, got, parked, unsent, new, crashes>>
  BY DEF SweepLock
<1>4. new \in [Procs -> Batch] /\ new[p].sent = {} /\ done \subseteq Steps
  BY <1>3, UnlockedKnown, NoRowTyped DEF TypeOK, Batch
<1> HIDE DEF row
<1>5. EnterStep(p, row, TRUE)
  BY <1>1, <1>2, <1>3, <1>4 DEF EnterStep, Live, Terminal
<1> QED BY <1>2, <1>5 DEF Enters

LEMMA ReplyLockEnters ==
    ASSUME TypeOK, PlaceOK, NEW p \in Procs, ReplyLock(p), run.status = "waiting", run.step = my[p].step
    PROVE  Enters(p)
<1> DEFINE s == my[p].step
<1>1. /\ pc[p] = "reply" /\ lock = None /\ s \in Steps /\ run \in Row
      /\ UNCHANGED <<mode, sent, got, parked, unsent, crashes>>
  BY DEF ReplyLock, TypeOK, PlaceOK, PlaceAt
<1>2. PICK to \in NextOf[s] :
          /\ Enter(p, Resumed(run, to), mode.outerTx)
          /\ IF mode.outerTx
             THEN /\ new' = [new EXCEPT ![p].done = {s}]
                  /\ UNCHANGED <<run, done>>
             ELSE /\ run' = Resumed(run, to) /\ done' = done \cup {s}
                  /\ UNCHANGED new
  BY DEF ReplyLock
<1>3. to \in Targets
  BY <1>1, <1>2, RoutesTyped
<1> DEFINE row == Resumed(run, to)
<1>4. row \in Row /\ row.status = "active" /\ row.due = "none"
  BY <1>1, <1>3, ResumeEdit
<1>5. new \in [Procs -> Batch] /\ new[p].sent = {} /\ done \subseteq Steps
  BY <1>1, UnlockedKnown, NoRowTyped DEF TypeOK, Batch
<1>6. mode.outerTx \in BOOLEAN
  BY CallerAssumption DEF TypeOK, Mode
<1> HIDE DEF row, s
<1>7. CASE mode.outerTx
  <2>1. /\ Enter(p, row, TRUE) /\ run' = run /\ done' = done
        /\ new' = [new EXCEPT ![p] = [new[p] EXCEPT !.done = {s}]]
    BY <1>2, <1>7 DEF row
  <2>2. [new[p] EXCEPT !.done = {s}] \in Batch /\ [new[p] EXCEPT !.done = {s}].sent = {}
    BY <1>1, <1>5 DEF Batch
  <2>3. /\ new' \in [Procs -> Batch] /\ new'[p].sent = {}
        /\ \A q \in Procs \ {p} : new'[q] = new[q]
    BY <1>5, <2>1, <2>2
  <2>4. EnterStep(p, row, TRUE)
    BY <1>1, <1>4, <1>5, <2>1, <2>3 DEF EnterStep
  <2> QED BY <1>4, <2>4 DEF Enters
<1>8. CASE ~mode.outerTx
  <2>1. Enter(p, row, FALSE) /\ run' = row /\ done' = done \cup {s} /\ new' = new
    BY <1>2, <1>6, <1>8 DEF row
  <2>2. Overtaken \/ \A q \in Procs : pc[q] # "sweep"
    BY <1>8 DEF Overtaken, PlaceOK, PlaceAt
  <2>3. EnterStep(p, row, FALSE)
    BY <1>1, <1>4, <1>5, <1>8, <2>1, <2>2 DEF EnterStep, Locked
  <2> QED BY <1>4, <2>3 DEF Enters
<1> QED BY <1>7, <1>8

\* A read before a write: p remembers where it is.
LEMMA ReadRests ==
    ASSUME TypeOK, PlaceOK, NEW p \in Procs, SweepRead(p) \/ ReplyRead(p) \/ CancelRead(p)
    PROVE  Rests /\ TypeOK' /\ PlaceOK'
<1>1. /\ pc[p] = "idle" /\ run.status \notin {"absent"} \cup Terminal
      /\ UNCHANGED <<mode, run, done, sent, got, parked, unsent, lock, tx, new, fuel, crashes>>
  BY DEF SweepRead, ReplyRead, CancelRead, AwaitsReply, Live, Terminal
<1>2. PICK at \in {"sweep", "reply", "cancel"} :
          /\ pc' = [pc EXCEPT ![p] = at]
          /\ at = "sweep" => run.due = "now" /\ "sweep" \in mode.callers
          /\ at = "reply" => run.step \in Steps /\ my' = [my EXCEPT ![p] = run]
          /\ at # "reply" => my' = my
  BY DEF SweepRead, ReplyRead, CancelRead, AwaitsReply
<1>3. my' \in [Procs -> Row] /\ \A q \in Procs \ {p} : my'[q] = my[q]
  BY <1>2 DEF TypeOK
<1>4. pc' \in [Procs -> Places] /\ pc'[p] = at /\ \A q \in Procs \ {p} : pc'[q] = pc[q]
  BY <1>2 DEF TypeOK, Places
<1>5. (Calm => Calm') /\ (Dated => Dated')
  BY <1>1, <1>2, <1>4 DEF Calm, Dated
<1>6. Rests
  BY <1>1, <1>2, <1>3, <1>4, <1>5 DEF Rests, Inside, Loop
<1>7. TypeOK'
  BY <1>1, <1>3, <1>4 DEF TypeOK, Places
<1>8. PlaceAt(p)'
  BY <1>1, <1>2, <1>4 DEF PlaceOK, PlaceAt, Inside, Loop, TypeOK
<1>9. Frame(p)
  BY <1>1, <1>3, <1>4 DEF Frame
<1> QED BY <1>1, <1>6, <1>7, <1>8, <1>9, OnePlace

LEMMA HookReadRests ==
    ASSUME TypeOK, PlaceOK, NEW p \in Procs, NEW s \in Steps, HookRead(p, s)
    PROVE  Rests /\ TypeOK' /\ PlaceOK'
<1>1. /\ pc[p] = "idle" /\ unsent' \subseteq Steps
      /\ UNCHANGED <<mode, run, done, sent, got, parked, lock, tx, my, new, fuel, crashes>>
  BY DEF HookRead, TypeOK
<1>2. pc' \in [Procs -> Places] /\ pc'[p] = "hook" /\ \A q \in Procs \ {p} : pc'[q] = pc[q]
  BY DEF HookRead, TypeOK, Places
<1>3. Rests
  BY <1>1, <1>2 DEF Rests, Inside, Loop, Calm, Dated
<1>4. TypeOK'
  BY <1>1, <1>2 DEF TypeOK, Places
<1>5. PlaceAt(p)' /\ Frame(p)
  BY <1>1, <1>2 DEF PlaceOK, PlaceAt, Inside, Loop, Frame
<1> QED BY <1>1, <1>3, <1>4, <1>5, OnePlace

\* A write to the unlocked row, after which p is idle.
LEMMA WriteRests ==
    ASSUME TypeOK, PlaceOK, NEW p \in Procs, pc[p] \notin Inside, lock = None, Leave(p), run' \in Row,
           UNCHANGED <<mode, done, sent, got, parked, unsent, crashes>>,
           run'.status \notin Live \cup {"absent"} \/ run' = run,
           run.due = "none" => run'.due = "none" /\ (run'.status # "waiting" \/ run.status = "waiting"),
           run.status \in Terminal => run'.status \in Terminal
    PROVE  Rests /\ TypeOK' /\ PlaceOK'
<1>1. /\ lock' \in Procs \cup {None} /\ pc' \in [Procs -> Places] /\ tx' \in [Procs -> BOOLEAN]
      /\ my' \in [Procs -> Row] /\ new' \in [Procs -> Batch] /\ fuel' \in [Procs -> 0..mode.maxSteps]
      /\ Frame(p) /\ PlaceAt(p)' /\ pc'[p] = "idle"
  BY LeaveTyped
<1>2. tx' = tx /\ new' = new /\ lock' = lock
  BY UnlockedKnown, CallerAssumption DEF Leave, TypeOK
<1>3. TypeOK'
  BY <1>1 DEF TypeOK, Places, Batch
<1>4. PlaceOK'
  BY <1>1, OnePlace
<1>5. (Calm => Calm') /\ (Dated => Dated')
  BY <1>1 DEF Calm, Dated, Frame, Live
<1>6. Rests
  BY <1>1, <1>2, <1>5 DEF Rests, Frame, Inside, Loop
<1> QED BY <1>3, <1>4, <1>6

LEMMA WriterRests ==
    ASSUME TypeOK, PlaceOK, NEW p \in Procs,
           \/ CancelWrite(p) \/ HookWrite(p)
           \/ SweepLock(p) /\ ~StillDue(run)
           \/ ReplyLock(p) /\ (run.status # "waiting" \/ run.step # my[p].step)
    PROVE  Rests /\ TypeOK' /\ PlaceOK'
<1>1. /\ pc[p] \notin Inside /\ lock = None /\ Leave(p) /\ run \in Row
      /\ UNCHANGED <<mode, done, sent, got, parked, unsent, crashes>>
  BY DEF CancelWrite, HookWrite, SweepLock, ReplyLock, Inside, Loop, TypeOK
<1>2. CASE CancelWrite(p)
  <2>1. run' = [run EXCEPT !.status = "cancelled", !.due = "none"]
    BY <1>2 DEF CancelWrite
  <2>2. run' \in Row /\ run'.status = "cancelled" /\ run'.due = "none"
    BY <1>1, <2>1, EndEdits
  <2> QED BY <1>1, <2>2, WriteRests DEF Terminal, Live
<1>3. CASE HookWrite(p)
  <2>1. run' = [run EXCEPT !.status = "failed"]
    BY <1>3 DEF HookWrite
  <2>2. run' \in Row /\ run'.status = "failed" /\ run'.due = run.due
    BY <1>1, <2>1, EndEdits
  <2> QED BY <1>1, <2>2, WriteRests DEF Terminal, Live
<1>4. CASE run' = run
  BY <1>1, <1>4, WriteRests
<1> QED BY <1>2, <1>3, <1>4 DEF SweepLock, ReplyLock

LEMMA RowRests ==
    ASSUME TypeOK, PlaceOK, Answered \/ Tick
    PROVE  Rests /\ TypeOK' /\ PlaceOK'
<1>1. UNCHANGED <<mode, done, sent, got, parked, unsent, lock, pc, tx, my, new, fuel, crashes>>
      /\ lock = None /\ run \in Row
  BY DEF Answered, Tick, TypeOK
<1>2. CASE Answered
  <2>1. PICK to \in NextOf[run.step] : run' = [status |-> "active", step |-> to, due |-> "later"]
    BY <1>2 DEF Answered
  <2>2. to \in Targets /\ run.status = "waiting"
    BY <1>2, <2>1, RoutesTyped DEF Answered
  <2>3. run' \in Row /\ run'.status = "active"
    BY <2>1, <2>2 DEF Row, Live
  <2>4. Rests
    BY <1>1, <2>1, <2>2, <2>3 DEF Rests, Calm, Dated, Terminal
  <2>5. TypeOK' /\ PlaceOK'
    BY <1>1, <2>3 DEF TypeOK, PlaceOK, PlaceAt
  <2> QED BY <2>4, <2>5
<1>3. CASE Tick
  <2>1. run.due = "later" /\ run' = [run EXCEPT !.due = "now"]
    BY <1>3 DEF Tick
  <2>2. run' \in Row /\ run'.status = run.status /\ run'.due = "now"
    BY <1>1, <2>1, EndEdits
  <2>3. Rests
    BY <1>1, <2>1, <2>2 DEF Rests, Calm, Dated
  <2>4. TypeOK' /\ PlaceOK'
    BY <1>1, <2>2 DEF TypeOK, PlaceOK, PlaceAt
  <2> QED BY <2>3, <2>4
<1> QED BY <1>2, <1>3

\* Every step is one of these kinds.
LEMMA StepKinds ==
    ASSUME TypeOK, PlaceOK, Next
    PROVE  \/ \E p \in Procs : Stays(p) \/ Leaves(p) \/ Enters(p) \/ Crash(p)
           \/ Rests /\ TypeOK' /\ PlaceOK'
<1>1. ASSUME NEW p \in Procs, Work(p) \/ Enroll(p) \/ SweepRead(p) \/ ReplyRead(p) \/ CancelRead(p) \/ Crash(p)
      PROVE  \/ Stays(p) \/ Leaves(p) \/ Enters(p) \/ Crash(p)
             \/ Rests /\ TypeOK' /\ PlaceOK'
  BY <1>1, AdvanceKinds, EnrollEnters, SweepLockEnters, ReplyLockEnters, ReadRests, WriterRests DEF Work
<1> QED BY <1>1, HookReadRests, RowRests DEF Next

-----------------------------------------------------------------------------
(* The theorems.                                                           *)

LEMMA InitIInv == Init => IInv
<1> SUFFICES ASSUME Init PROVE IInv
  OBVIOUS
<1>1. \A p \in Procs : ~tx[p] /\ pc[p] = "idle" /\ new[p] = Nothing /\ lock # p
  BY CallerAssumption DEF Init
<1>2. mode.maxSteps \in Nat \ {0} /\ 0 \in 0..MaxCrashes
  BY CallerAssumption DEF Init, Mode
<1>3. TypeOK
  BY <1>2, NoRowTyped DEF Init, TypeOK, Batch
<1>4. PlaceOK /\ HeldInv
  BY <1>1 DEF PlaceOK, PlaceAt, HeldInv, HeldAt, Inside, Loop
<1>5. Alone /\ Quiet /\ Batched
  BY <1>1, NoRowTyped DEF Alone, Quiet, Batched, Busy, Bare, Loop
<1>6. \A s \in Steps : sent[s] = 0
  BY DEF Init
<1>7. Settled /\ \A s \in Steps : sent[s] <= 1
  BY <1>6 DEF Settled
<1> QED BY <1>3, <1>4, <1>5, <1>7 DEF IInv, OnceInv

LEMMA ModeKept == Next => mode' = mode
BY DEF Next, Work, Advance, ParkOnWait, LeaveWait, Skip, Execute, Record, Move, RetryLater, Fail, SendDirect,
   ReturnParked, Complete, HitLimit, SweepLock, ReplyLock, CancelWrite, HookWrite, Enroll, SweepRead,
   ReplyRead, CancelRead, Crash, HookRead, Answered, Tick

LEMMA NextIInv == IInv /\ Next => IInv'
<1> SUFFICES ASSUME IInv, Next PROVE IInv'
  OBVIOUS
<1>1. TypeOK /\ PlaceOK /\ HeldInv /\ (Overtaken \/ OnceInv)
  BY DEF IInv
<1>2. ASSUME NEW p \in Procs, Stays(p) \/ Leaves(p) \/ Enters(p) \/ Crash(p)
      PROVE  TypeOK' /\ PlaceOK' /\ HeldInv' /\ (Overtaken \/ OnceInv')
  BY <1>1, <1>2, StayTyped, StayOnce, StayHeld, LeaveKept, LeaveOnce, LeaveHeld, EnterKept, EnterOnce,
     CrashKept, CrashOnce
<1>3. ASSUME Rests
      PROVE  HeldInv' /\ (Overtaken \/ OnceInv')
  BY <1>1, <1>3, RestHeld, RestOnce
<1>4. TypeOK' /\ PlaceOK' /\ HeldInv' /\ (Overtaken \/ OnceInv')
  BY <1>1, <1>2, <1>3, StepKinds
<1>5. mode' = mode
  BY ModeKept
<1> QED BY <1>4, <1>5 DEF IInv, Overtaken

LEMMA StutterIInv == IInv /\ UNCHANGED vars => IInv'
<1> SUFFICES ASSUME IInv, UNCHANGED vars PROVE IInv'
  OBVIOUS
<1>1. TypeOK' /\ PlaceOK' /\ HeldInv' /\ Overtaken' = Overtaken
  BY DEF IInv, vars, TypeOK, PlaceOK, PlaceAt, HeldInv, HeldAt, Locked, Overtaken
<1>2. OnceInv => OnceInv'
  BY DEF vars, OnceInv, Alone, Quiet, Settled, Batched, Calm, Stuck, Busy, Bare
<1> QED BY <1>1, <1>2 DEF IInv

LEMMA AlwaysIInv == Spec => []IInv
BY InitIInv, NextIInv, StutterIInv, PTL DEF Spec

\* The rows, the copies and the batches have the shapes of the code's records,
\* for every graph, number of workers, entry points in use and crashes.
THEOREM TypeCorrect == Spec => []TypeOK
<1>1. IInv => TypeOK
  BY DEF IInv
<1> QED BY <1>1, AlwaysIInv, PTL

\* No step queues its message twice, whatever crashes, loops in the graph,
\* re-read channels and enrolments without a transaction do, unless a reply that
\* is handled without a transaction can be overtaken by the sweep: _record and
\* the _already_done test of advance_run, with the row lock of run_due.
THEOREM QueuedAtMostOnce == Spec => []QueuedOnce
<1>1. IInv => QueuedOnce
  BY DEF IInv, OnceInv, QueuedOnce
<1> QED BY <1>1, AlwaysIInv, PTL

\* Under the row lock, a run that was cancelled, failed or completed queues
\* nothing more and is not revived: no caller enters the loop without seeing the
\* committed status, and no writer commits between that and the loop's commit.
THEOREM EndIsTheEnd == Spec => NothingAfterTheEnd
<1>1. IInv /\ Next /\ Locked /\ run.status \in Terminal => sent' = sent /\ run'.status \in Terminal
  <2> SUFFICES ASSUME IInv, Next, Locked, run.status \in Terminal
               PROVE  sent' = sent /\ run'.status \in Terminal
    OBVIOUS
  <2>1. TypeOK /\ PlaceOK /\ \A p \in Procs : pc[p] \notin Inside
    BY DEF IInv, HeldInv, HeldAt
  <2>2. ASSUME NEW p \in Procs PROVE ~Stays(p) /\ ~Leaves(p) /\ ~Enters(p)
    BY <2>1 DEF Stays, StayStep, Leaves, LeaveStep, Enters, EnterStep, Inside, Terminal
  <2>3. ASSUME NEW p \in Procs, Crash(p) PROVE sent' = sent /\ run' = run
    BY <2>3 DEF Crash
  <2> QED BY <2>1, <2>2, <2>3, StepKinds DEF Rests
<1>2. IInv /\ [Next]_vars => [Locked /\ run.status \in Terminal => sent' = sent /\ run'.status \in Terminal]_vars
  BY <1>1 DEF vars
<1> QED BY <1>2, AlwaysIInv, PTL DEF Spec, NothingAfterTheEnd

\* Under the row lock, a live run that no worker advances has a due time, so
\* run_due takes it up, provided no call of advance_run uses up its
\* _MAX_STEPS_PER_CALL iterations: that return leaves an active run undated.
THEOREM NotStranded == Spec /\ [][\A p \in Procs : ~HitLimit(p)]_vars => []NeverStranded
<1> DEFINE DInv == Locked => Dated
           Within == [\A p \in Procs : ~HitLimit(p)]_vars
<1>1. Init => DInv
  BY NoRowTyped DEF Init, Dated, Live
<1>2. IInv /\ DInv /\ [Next]_vars /\ Within => DInv'
  <2> SUFFICES ASSUME IInv, DInv, [Next]_vars, Within, Locked' PROVE Dated'
    OBVIOUS
  <2>1. CASE UNCHANGED vars
    BY <2>1 DEF vars, Locked, Dated
  <2>2. CASE Next /\ \A p \in Procs : ~HitLimit(p)
    <3>1. mode' = mode
      BY <2>2, ModeKept
    <3>2. TypeOK /\ PlaceOK /\ HeldInv /\ Locked /\ Dated
      BY <3>1 DEF IInv, Locked
    <3>3. ASSUME NEW p \in Procs, Stays(p) PROVE Dated'
      BY <3>2, <3>3 DEF Stays, StayStep, HeldInv, HeldAt, Inside, Save, Dated
    <3>4. ASSUME NEW p \in Procs, Leaves(p) PROVE Dated'
      BY <2>2, <3>2, <3>4 DEF Leaves, LeaveStep, HeldInv, HeldAt, SaveAndLeave, Dated
    <3>5. ASSUME NEW p \in Procs, Enters(p) PROVE Dated'
      BY <3>2, <3>5 DEF Enters, EnterStep, Dated
    <3>6. ASSUME NEW p \in Procs, Crash(p) PROVE Dated'
      BY <3>2, <3>6 DEF Crash, Dated
    <3> QED BY <2>2, <3>2, <3>3, <3>4, <3>5, <3>6, StepKinds DEF Rests
  <2> QED BY <2>1, <2>2
<1>3. DInv => NeverStranded
  BY DEF NeverStranded, Dated
<1> HIDE DEF DInv
<1> QED BY <1>1, <1>2, <1>3, AlwaysIInv, PTL DEF Spec
=============================================================================
