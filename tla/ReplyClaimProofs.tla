-------------------------- MODULE ReplyClaimProofs --------------------------
(***************************************************************************)
(* Proofs about ReplyClaim, for every workflow graph and any number of     *)
(* runs, messages and processes: types, that a run leaves each question at *)
(* most once, that one message moves at most one run and a run that ended  *)
(* stays ended, that the question a run waits on can be answered, that     *)
(* answers and transitions agree, and that the claim protocol implements   *)
(* the promise of QuestionLife.                                            *)
(***************************************************************************)
EXTENDS ReplyClaim, FiniteSetTheorems, TLAPS

\* What a process works on is known at each point of its program.
JobOK == \A p \in Procs :
    /\ pc[p] \in {"conv", "inters", "run"} => job[p].msg \in Msgs
    /\ pc[p] \in {"run", "advance", "sweep", "step", "cancel"} => job[p].run \in Runs
    /\ pc[p] = "run" => job[p].step \in Steps

\* A run row has left each of its recorded questions at most once, and has not
\* left the one it waits on.
RowOK(row) ==
    /\ \A e, f \in row.exits : e.step = f.step => e = f
    /\ \A e \in row.exits : e.step \in row.done
    /\ row.status = "waiting" => /\ row.step \in row.done
                                 /\ \A e \in row.exits : e.step # row.step
RowsOK == (\A r \in Runs : RowOK(run[r])) /\ (\A p \in Procs : RowOK(mem[p].run))

Inv == TypeOK /\ JobOK /\ RowsOK

-----------------------------------------------------------------------------
LEMMA NoRowOK == NoRow \in Row /\ RowOK(NoRow)
BY GraphAssumption DEF NoRow, Row, RowOK, Targets, Live, Terminal

LEMMA NoMemOK == NoMem \in Tx /\ NoMem.run = NoRow
BY NoRowOK, BoundAssumption DEF NoMem, Tx

THEOREM InitInv == Init => Inv
<1> SUFFICES ASSUME Init PROVE Inv
  OBVIOUS
<1>1. TypeOK
  BY NoRowOK, NoMemOK, BoundAssumption
  DEF Init, TypeOK, TypeRows, TypeLocks, TypeProcs, TypeCounts, NoInter, Interaction,
      NoJob, Job, Results
<1>2. JobOK
  BY DEF Init, JobOK
<1>3. RowsOK
  BY NoRowOK, NoMemOK DEF Init, RowsOK
<1> QED
  BY <1>1, <1>2, <1>3 DEF Inv

-----------------------------------------------------------------------------
(* The building blocks of the actions.                                     *)

LEMMA FinishOK ==
  ASSUME Inv, NEW p \in Procs, Finish(p)
  PROVE  TypeLocks' /\ TypeProcs' /\ JobOK' /\ \A q \in Procs : RowOK(mem[q].run)'
<1>1. TypeLocks'
  BY DEF Finish, Freed, Inv, TypeOK, TypeLocks
<1>2. TypeProcs'
  BY NoMemOK DEF Finish, Inv, TypeOK, TypeProcs, NoJob, Job
<1>3. JobOK'
  BY DEF Finish, Inv, TypeOK, TypeProcs, JobOK
<1>4. \A q \in Procs : RowOK(mem[q].run)'
  <2> SUFFICES ASSUME NEW q \in Procs PROVE RowOK(mem'[q].run)
    BY DEF RowOK
  <2> QED
    BY NoMemOK, NoRowOK DEF Finish, Inv, TypeOK, TypeProcs, RowsOK
<1> QED
  BY <1>1, <1>2, <1>3, <1>4

LEMMA BeginOK ==
  ASSUME Inv, NEW p \in Procs, NEW r \in Runs,
         NEW row \in Row, RowOK(row), Begin(p, r, row), UNCHANGED crashes
  PROVE  Inv'
<1>1. mem' \in [Procs -> Tx] /\ \A q \in Procs : mem'[q].run = IF q = p THEN row ELSE mem[q].run
  <2>0. NoMem \in Tx /\ MaxSteps \in 0..MaxSteps
    BY NoMemOK, BoundAssumption
  <2>1. /\ [NoMem EXCEPT !.run = row, !.fuel = MaxSteps] \in Tx
        /\ [NoMem EXCEPT !.run = row, !.fuel = MaxSteps].run = row
    BY <2>0 DEF Tx
  <2> QED
    BY <2>1 DEF Begin, Inv, TypeOK, TypeProcs
<1>2. TypeOK'
  BY <1>1 DEF Begin, Inv, TypeOK, TypeRows, TypeLocks, TypeProcs, TypeCounts, rows, NoJob, Job
<1>3. JobOK' /\ RowsOK'
  BY <1>1 DEF Begin, Inv, TypeOK, TypeProcs, JobOK, NoJob, RowsOK, RowOK, rows
<1> QED
  BY <1>1, <1>2, <1>3 DEF Inv

LEMMA CommitOK ==
  ASSUME Inv, NEW p \in Procs, pc[p] = "step",
         NEW row \in Row, RowOK(row), NEW writes \in [Inters -> Interaction \cup {None}],
         Commit(p, row, writes), UNCHANGED <<deliveries, crashes>>
  PROVE  Inv'
<1>1. job[p].run \in Runs /\ mem[p].ans \in SUBSET (Msgs \X Inters)
  BY DEF Inv, JobOK, TypeOK, TypeProcs, Tx
<1>2. /\ TypeLocks' /\ TypeProcs' /\ JobOK'
      /\ \A q \in Procs : RowOK(mem[q].run)'
  BY FinishOK DEF Commit
<1>3. TypeRows' /\ \A r \in Runs : RowOK(run[r])'
  BY <1>1 DEF Commit, Inv, TypeOK, TypeRows, RowsOK, RowOK
<1>4. TypeCounts'
  <2>1. outcome' \in [Msgs -> SUBSET Results]
    BY <1>1 DEF Commit, Inv, TypeOK, TypeCounts, Results
  <2> QED
    BY <2>1 DEF Inv, TypeOK, TypeCounts
<1> QED
  BY <1>2, <1>3, <1>4 DEF Inv, TypeOK, RowsOK

LEMMA IterateOK ==
  ASSUME Inv, NEW p \in Procs, AtStep(p),
         NEW row \in Row, RowOK(row), NEW writes \in [Inters -> Interaction \cup {None}],
         Iterate(p, row, writes), intLock' \in [Inters -> Procs \cup {None}],
         UNCHANGED <<deliveries, crashes>>
  PROVE  Inv'
<1>1. mem[p] \in Tx /\ mem[p].fuel \in 1..MaxSteps
  BY BoundAssumption DEF Inv, TypeOK, TypeProcs, Tx, AtStep
<1>2. mem' \in [Procs -> Tx] /\ \A q \in Procs : mem'[q].run = IF q = p THEN row ELSE mem[q].run
  <2>1. [mem[p] EXCEPT !.run = row, !.inter = writes, !.fuel = @ - 1] \in Tx
    <3>1. mem[p].fuel - 1 \in 0..MaxSteps
      BY <1>1, BoundAssumption
    <3> QED
      BY <1>1, <3>1 DEF Tx
  <2>2. mem' = [mem EXCEPT ![p] = [mem[p] EXCEPT !.run = row, !.inter = writes, !.fuel = @ - 1]]
    BY <1>1 DEF Iterate, Inv, TypeOK, TypeProcs, Tx
  <2> QED
    BY <1>1, <2>1, <2>2 DEF Inv, TypeOK, TypeProcs, Tx
<1>3. TypeOK'
  BY <1>2 DEF Iterate, Inv, TypeOK, TypeRows, TypeLocks, TypeProcs, TypeCounts, rows
<1>4. JobOK' /\ RowsOK'
  BY <1>2 DEF Iterate, Inv, JobOK, RowsOK, RowOK, rows
<1> QED
  BY <1>3, <1>4 DEF Inv

\* Leaving a question: the row of a run moved by an answer or the deadline.
LEMMA MovedOK ==
  ASSUME NEW row \in Row, RowOK(row), row.status = "waiting",
         NEW to \in Targets, NEW by \in Msgs \cup {Timeout}
  PROVE  /\ Moved(row, row.step, to, by) \in Row
         /\ RowOK(Moved(row, row.step, to, by))
<1> DEFINE exit == [step |-> row.step, by |-> by]
           mv == Moved(row, row.step, to, by)
<1>1. row.step \in Steps /\ row.step \in row.done /\ \A e \in row.exits : e.step # row.step
  BY DEF RowOK, Row
<1>2. exit \in [step : Steps, by : Msgs \cup {Timeout}]
  BY <1>1
<1>3. /\ mv = [row EXCEPT !.status = "active", !.step = to, !.due = "later",
                          !.exits = row.exits \cup {exit}]
      /\ row.exits \cup {exit} \in SUBSET [step : Steps, by : Msgs \cup {Timeout}]
  BY <1>2 DEF Moved, Row
<1>4. mv \in Row
  BY <1>3 DEF Row, Live
<1>5. /\ mv.exits = row.exits \cup {exit} /\ mv.done = row.done
      /\ mv.status = "active"
  BY <1>3 DEF Row
<1>6. RowOK(mv)
  BY <1>1, <1>5 DEF RowOK
<1> QED
  BY <1>4, <1>6

LEMMA CancelWritesOK ==
  ASSUME Inv, NEW p \in Procs, NEW r \in Runs
  PROVE  CancelWrites(p, r) \in [Inters -> Interaction \cup {None}]
<1>1. mem[p].inter \in [Inters -> Interaction \cup {None}]
  BY DEF Inv, TypeOK, TypeProcs, Tx
<1>2. \A i \in Inters : Seen(p, i) \in Interaction
  BY <1>1 DEF Seen, Inv, TypeOK, TypeRows
<1> QED
  BY <1>1, <1>2 DEF CancelWrites, Closed, Interaction

-----------------------------------------------------------------------------
(* One lemma per group of actions.                                         *)

LEMMA ReturnOK ==
  ASSUME Inv, NEW p \in Procs, pc[p] \in {"conv", "inters", "run"},
         NEW res \in Results, Return(p, res),
         inter' \in [Inters -> Interaction], UNCHANGED <<run, answers, deliveries, crashes>>
  PROVE  Inv'
<1>1. job[p].msg \in Msgs /\ Finish(p)
  BY DEF Return, Inv, JobOK
<1>2. TypeLocks' /\ TypeProcs' /\ JobOK' /\ \A q \in Procs : RowOK(mem[q].run)'
  BY <1>1, FinishOK
<1>3. TypeCounts'
  BY <1>1 DEF Return, Inv, TypeOK, TypeCounts
<1>4. TypeRows' /\ \A r \in Runs : RowOK(run[r])'
  BY DEF Inv, TypeOK, TypeRows, RowsOK, RowOK
<1> QED
  BY <1>2, <1>3, <1>4 DEF Inv, TypeOK, RowsOK

LEMMA AnswerEffectsOK ==
  ASSUME NEW row \in Row, RowOK(row), row.status = "waiting",
         NEW rec \in Interaction, NEW m \in Msgs,
         NEW e \in AnswerEffects(row, rec, row.step, m)
  PROVE  e[1] \in Row /\ RowOK(e[1]) /\ e[2] \in Interaction
<1> DEFINE answered == [rec EXCEPT !.status = "answered"]
           s == row.step
<1>1. s \in Steps /\ answered \in Interaction
  BY DEF RowOK, Row, Interaction
<1>2. \A to \in Targets : Moved(row, s, to, m) \in Row /\ RowOK(Moved(row, s, to, m))
  BY MovedOK
<1>3. CASE \E to \in Targets : e = <<Moved(row, s, to, m), answered>>
  BY <1>1, <1>2, <1>3
<1>4. CASE e = <<[row EXCEPT !.due = "later"], [rec EXCEPT !.bad = @ + 1]>>
  <2>1. [row EXCEPT !.due = "later"] \in Row /\ [rec EXCEPT !.bad = @ + 1] \in Interaction
    BY DEF Row, Interaction
  <2>2. RowOK([row EXCEPT !.due = "later"])
    BY DEF RowOK, Row
  <2> QED
    BY <1>4, <2>1, <2>2
<1>5. \/ \E to \in Targets : e = <<Moved(row, s, to, m), answered>>
      \/ e = <<[row EXCEPT !.due = "later"], [rec EXCEPT !.bad = @ + 1]>>
  BY <1>1, GraphAssumption DEF AnswerEffects, Reprompt
<1> QED
  BY <1>3, <1>4, <1>5

LEMMA ClaimCommitOK ==
  ASSUME Inv, NEW p \in Procs, ClaimCommit(p)
  PROVE  Inv'
<1> DEFINE m == job[p].msg
           r == job[p].run
           s == job[p].step
           i == <<r, s>>
<1>1. /\ m \in Msgs /\ r \in Runs /\ s \in Steps /\ i \in Inters
      /\ run[r].status = "waiting" /\ run[r].step = s
      /\ run[r] \in Row /\ RowOK(run[r]) /\ inter[i] \in Interaction
      /\ UNCHANGED <<deliveries, crashes>>
  BY DEF ClaimCommit, WaitsOn, Inv, JobOK, TypeOK, TypeRows, RowsOK, Inters
<1>2. PICK e \in AnswerEffects(run[r], inter[i], s, m) :
        IF OuterTx /\ e[1].status = "active"
        THEN /\ runLock' = [runLock EXCEPT ![r] = p]
             /\ mem' = [mem EXCEPT ![p] =
                         [run |-> [e[1] EXCEPT !.due = "none"],
                          inter |-> [NoMem.inter EXCEPT ![i] = e[2]],
                          ans |-> {<<m, i>>}, fuel |-> MaxSteps]]
             /\ pc' = [pc EXCEPT ![p] = "step"]
             /\ UNCHANGED <<rows, convLock, intLock, job, outcome>>
        ELSE /\ run' = [run EXCEPT ![r] = e[1]]
             /\ inter' = [inter EXCEPT ![i] = e[2]]
             /\ answers' = answers \cup {<<m, i>>}
             /\ outcome' = [outcome EXCEPT ![m] = @ \cup {"claimed"}]
             /\ convLock' = Freed(convLock, p)
             /\ intLock' = Freed(intLock, p)
             /\ pc' = [pc EXCEPT ![p] = "advance"]
             /\ job' = [job EXCEPT ![p] = [NoJob EXCEPT !.run = r]]
             /\ UNCHANGED <<runLock, mem>>
  BY DEF ClaimCommit
<1>3. e[1] \in Row /\ RowOK(e[1]) /\ e[2] \in Interaction
  BY <1>1, AnswerEffectsOK
<1>4. CASE OuterTx /\ e[1].status = "active"
  <2> DEFINE row == [e[1] EXCEPT !.due = "none"]
             tx == [run |-> row, inter |-> [NoMem.inter EXCEPT ![i] = e[2]],
                    ans |-> {<<m, i>>}, fuel |-> MaxSteps]
  <2>1. row \in Row /\ RowOK(row)
    <3>1. row \in Row
      BY <1>3 DEF Row
    <3>2. row.exits = e[1].exits /\ row.done = e[1].done /\ row.status = e[1].status
          /\ row.step = e[1].step
      BY <1>3 DEF Row
    <3> QED
      BY <1>3, <3>1, <3>2 DEF RowOK
  <2>2. tx \in Tx /\ tx.run = row
    <3>1. MaxSteps \in 0..MaxSteps
      BY BoundAssumption
    <3>2. [NoMem.inter EXCEPT ![i] = e[2]] \in [Inters -> Interaction \cup {None}]
      BY <1>1, <1>3, NoMemOK DEF Tx
    <3> QED
      BY <1>1, <2>1, <3>1, <3>2 DEF Tx
  <2>3. mem' \in [Procs -> Tx] /\ \A q \in Procs : mem'[q].run = IF q = p THEN row ELSE mem[q].run
    <3>1. mem' = [mem EXCEPT ![p] = tx]
      BY <1>2, <1>4
    <3> QED
      BY <2>2, <3>1 DEF Inv, TypeOK, TypeProcs
  <2>4. TypeOK'
    BY <1>1, <1>2, <1>4, <2>3
    DEF Inv, TypeOK, TypeRows, TypeLocks, TypeProcs, TypeCounts, rows
  <2>5. JobOK'
    BY <1>1, <1>2, <1>4 DEF Inv, TypeOK, TypeProcs, JobOK
  <2>6. RowsOK'
    <3> HIDE DEF row
    <3>1. run' = run /\ \A q \in Procs : RowOK(mem'[q].run)
      BY <1>2, <1>4, <2>1, <2>3 DEF Inv, RowsOK, rows
    <3> QED
      BY <3>1 DEF Inv, RowsOK, RowOK
  <2> QED
    BY <2>4, <2>5, <2>6 DEF Inv
<1>5. CASE ~(OuterTx /\ e[1].status = "active")
  <2>1. TypeRows' /\ RowsOK'
    <3>1. /\ run' = [run EXCEPT ![r] = e[1]] /\ inter' = [inter EXCEPT ![i] = e[2]]
          /\ answers' = answers \cup {<<m, i>>} /\ mem' = mem
      BY <1>2, <1>5
    <3>2. TypeRows'
      BY <1>1, <1>3, <3>1 DEF Inv, TypeOK, TypeRows
    <3>3. \A q \in Runs : RowOK(run'[q])
      BY <1>1, <1>3, <3>1 DEF Inv, TypeOK, TypeRows, RowsOK
    <3> QED
      BY <3>1, <3>2, <3>3 DEF Inv, RowsOK, RowOK
  <2>2. TypeLocks'
    BY <1>2, <1>5 DEF Inv, TypeOK, TypeLocks, Freed
  <2>3. TypeProcs' /\ JobOK'
    <3>1. /\ pc' = [pc EXCEPT ![p] = "advance"]
          /\ job' = [job EXCEPT ![p] = [NoJob EXCEPT !.run = r]] /\ mem' = mem
      BY <1>2, <1>5
    <3>2. TypeProcs'
      BY <1>1, <3>1 DEF Inv, TypeOK, TypeProcs, NoJob, Job
    <3>3. JobOK'
      BY <1>1, <3>1 DEF Inv, TypeOK, TypeProcs, JobOK, NoJob
    <3> QED
      BY <3>2, <3>3
  <2>4. TypeCounts'
    BY <1>1, <1>2, <1>5 DEF Inv, TypeOK, TypeCounts, Results
  <2> QED
    BY <2>1, <2>2, <2>3, <2>4 DEF Inv, TypeOK
<1> QED
  BY <1>4, <1>5

LEMMA ClaimPreservesInv ==
  ASSUME Inv, NEW p \in Procs, Claim(p)
  PROVE  Inv'
<1>0. inter \in [Inters -> Interaction]
  BY DEF Inv, TypeOK, TypeRows
<1>1. CASE ClaimConversation(p)
  <2>1. pc[p] = "conv" /\ UNCHANGED <<run, inter, answers, deliveries, crashes>>
    BY <1>1 DEF ClaimConversation, rows
  <2>2. CASE Return(p, "already_claimed")
    BY <1>0, <2>1, <2>2, ReturnOK DEF Results
  <2>3. CASE ~Return(p, "already_claimed")
    BY <1>1, <2>1, <2>3 DEF ClaimConversation, Inv, TypeOK, TypeRows, TypeLocks, TypeProcs,
       TypeCounts, JobOK, RowsOK, RowOK
  <2> QED
    BY <2>2, <2>3
<1>2. CASE ClaimInteractions(p)
  <2>1. /\ pc[p] = "inters" /\ UNCHANGED <<run, inter, answers, deliveries, crashes>>
        /\ Miss(job[p].msg) \in Results
    BY <1>2 DEF ClaimInteractions, rows, Miss, Results
  <2>2. CASE Return(p, Miss(job[p].msg))
    BY <1>0, <2>1, <2>2, ReturnOK
  <2>3. CASE ~Return(p, Miss(job[p].msg))
    <3>1. PICK i \in PickTarget(job[p].msg, OpenOn(MsgConv[job[p].msg])) :
            /\ intLock' = [j \in Inters |-> IF j \in OpenOn(MsgConv[job[p].msg])
                                            THEN p ELSE intLock[j]]
            /\ job' = [job EXCEPT ![p] = [msg |-> job[p].msg, run |-> i[1], step |-> i[2]]]
            /\ pc' = [pc EXCEPT ![p] = "run"]
            /\ UNCHANGED <<convLock, runLock, mem, outcome>>
      BY <1>2, <2>3 DEF ClaimInteractions
    <3>2. i \in Inters /\ i[1] \in Runs /\ i[2] \in Steps /\ job[p].msg \in Msgs
      BY <2>1 DEF PickTarget, Eligible, OpenOn, Inters, Inv, JobOK
    <3>3. TypeLocks' /\ TypeProcs' /\ JobOK'
      BY <3>1, <3>2 DEF Inv, TypeOK, TypeLocks, TypeProcs, Job, JobOK
    <3> QED
      BY <2>1, <3>1, <3>3 DEF Inv, TypeOK, TypeRows, TypeCounts, RowsOK, RowOK
  <2> QED
    BY <2>2, <2>3
<1>3. CASE ClaimStale(p)
  <2>1. /\ UNCHANGED <<run, answers, deliveries, crashes>>
        /\ Return(p, "stale_run") /\ pc[p] = "run"
    BY <1>3 DEF ClaimStale
  <2>2. inter' \in [Inters -> Interaction]
    <3>1. \A rec \in Interaction : Closed(rec) \in Interaction
      BY DEF Closed, Interaction
    <3> QED
      BY <1>3, <3>1 DEF ClaimStale, Inv, TypeOK, TypeRows
  <2> QED
    BY <2>1, <2>2, ReturnOK DEF Results
<1>4. CASE ClaimDuplicate(p)
  <2>1. /\ UNCHANGED <<run, inter, answers, deliveries, crashes>>
        /\ Return(p, "already_claimed") /\ pc[p] = "run"
    BY <1>4 DEF ClaimDuplicate, rows
  <2> QED
    BY <1>0, <2>1, ReturnOK DEF Results
<1>5. CASE ClaimCommit(p)
  BY <1>5, ClaimCommitOK
<1> QED
  BY <1>1, <1>2, <1>3, <1>4, <1>5 DEF Claim

LEMMA TxFacts ==
  ASSUME Inv, NEW p \in Procs, pc[p] = "step"
  PROVE  /\ job[p].run \in Runs /\ mem[p].run \in Row /\ RowOK(mem[p].run)
         /\ mem[p].inter \in [Inters -> Interaction \cup {None}]
         /\ intLock \in [Inters -> Procs \cup {None}]
BY DEF Inv, JobOK, TypeOK, TypeProcs, TypeLocks, Tx, RowsOK

LEMMA AdvancePreservesInv ==
  ASSUME Inv, NEW p \in Procs, Advance(p)
  PROVE  Inv'
<1> DEFINE row == mem[p].run
           r == job[p].run
<1>0. pc[p] = "step"
  BY DEF Advance, StepTimeout, StepSkip, StepOnError, StepAsk, StepFail, StepComplete,
     StepLimit, AtStep, Executing
<1>1. /\ r \in Runs /\ row \in Row /\ RowOK(row)
      /\ mem[p].inter \in [Inters -> Interaction \cup {None}]
      /\ intLock \in [Inters -> Procs \cup {None}]
      /\ CancelWrites(p, r) \in [Inters -> Interaction \cup {None}]
  BY <1>0, TxFacts, CancelWritesOK
<1>2. CASE StepTimeout(p)
  <2> DEFINE to == OnTimeout[row.step]
             new == [Moved(row, row.step, to, Timeout) EXCEPT !.due = "none"]
  <2>1. AtStep(p) /\ row.status = "waiting" /\ Iterate(p, new, CancelWrites(p, r))
        /\ UNCHANGED <<deliveries, crashes>>
    BY <1>2 DEF StepTimeout
  <2>2. row.step \in Steps /\ to \in Targets
    BY <1>1, <2>1, GraphAssumption DEF RowOK, Row
  <2>3. Moved(row, row.step, to, Timeout) \in Row /\ RowOK(Moved(row, row.step, to, Timeout))
    BY <1>1, <2>1, <2>2, MovedOK
  <2>4. new \in Row /\ RowOK(new)
    BY <2>3 DEF Row, RowOK
  <2>5. intLock' \in [Inters -> Procs \cup {None}]
    BY <1>1, <1>2 DEF StepTimeout
  <2> QED
    BY <1>1, <2>1, <2>4, <2>5, IterateOK
<1>3. CASE StepSkip(p)
  <2> DEFINE to == IF NextOf[row.step] = row.step THEN End ELSE NextOf[row.step]
             new == [row EXCEPT !.step = to]
  <2>1. /\ AtStep(p) /\ row.status = "active" /\ row.step \in row.done
        /\ Iterate(p, new, mem[p].inter) /\ UNCHANGED <<intLock, deliveries, crashes>>
    BY <1>3 DEF StepSkip
  <2>2. to \in Targets
    BY <1>1, <2>1, GraphAssumption DEF Row, Targets
  <2>3. new \in Row /\ RowOK(new)
    BY <1>1, <2>1, <2>2 DEF Row, RowOK
  <2> QED
    BY <1>1, <2>1, <2>3, IterateOK
<1>4. CASE StepOnError(p)
  <2> DEFINE new == [row EXCEPT !.step = OnError[row.step], !.done = @ \cup {row.step}]
  <2>1. /\ AtStep(p) /\ row.status = "active" /\ row.step \in Steps /\ OnError[row.step] # None
        /\ Iterate(p, new, mem[p].inter) /\ UNCHANGED <<intLock, deliveries, crashes>>
    BY <1>4 DEF StepOnError, Executing
  <2>2. OnError[row.step] \in Targets
    BY <2>1, GraphAssumption
  <2>3. new \in Row /\ RowOK(new)
    BY <1>1, <2>1, <2>2 DEF Row, RowOK
  <2> QED
    BY <1>1, <2>1, <2>3, IterateOK
<1>5. CASE StepAsk(p)
  <2> DEFINE i == <<r, row.step>>
             age == Cardinality({j \in Inters : inter[j].born > 0})
             asked == [status |-> "open", bad |-> 0, born |-> age + 1]
             new == [row EXCEPT !.status = "waiting", !.due = "later", !.done = @ \cup {row.step}]
  <2>1. /\ row.status = "active" /\ row.step \in Steps \ row.done
        /\ Commit(p, new, [mem[p].inter EXCEPT ![i] = asked]) /\ UNCHANGED <<deliveries, crashes>>
    BY <1>5 DEF StepAsk, Executing
  <2>2. age \in Nat
    <3>1. IsFiniteSet({j \in Inters : inter[j].born > 0})
      BY MessageAssumption, FS_Subset
    <3> QED
      BY <3>1, FS_CardinalityType
  <2>3. asked \in Interaction
    BY <2>2 DEF Interaction
  <2>4. [mem[p].inter EXCEPT ![i] = asked] \in [Inters -> Interaction \cup {None}]
    BY <1>1, <2>3
  <2>5. new \in Row
    BY <1>1, <2>1 DEF Row, Live
  <2>6. RowOK(new)
    BY <1>1, <2>1 DEF Row, RowOK
  <2> QED
    BY <1>0, <2>1, <2>4, <2>5, <2>6, CommitOK
<1>6. CASE StepFail(p)
  <2> DEFINE new == [row EXCEPT !.status = "failed", !.done = @ \cup {row.step}]
  <2>1. /\ row.status = "active" /\ row.step \in Steps \ row.done
        /\ Commit(p, new, CancelWrites(p, r)) /\ UNCHANGED <<deliveries, crashes>>
    BY <1>6 DEF StepFail, Executing
  <2>2. new \in Row /\ RowOK(new)
    BY <1>1, <2>1 DEF Row, RowOK, Terminal
  <2> QED
    BY <1>0, <1>1, <2>1, <2>2, CommitOK
<1>7. CASE StepComplete(p)
  <2> DEFINE new == [row EXCEPT !.status = "completed", !.due = "none"]
  <2>1. Commit(p, new, CancelWrites(p, r)) /\ UNCHANGED <<deliveries, crashes>>
    BY <1>7 DEF StepComplete
  <2>2. new \in Row /\ RowOK(new)
    BY <1>1 DEF Row, RowOK, Terminal
  <2> QED
    BY <1>0, <1>1, <2>1, <2>2, CommitOK
<1>8. CASE StepLimit(p)
  BY <1>0, <1>1, <1>8, CommitOK DEF StepLimit
<1> QED
  BY <1>2, <1>3, <1>4, <1>5, <1>6, <1>7, <1>8 DEF Advance

-----------------------------------------------------------------------------
LEMMA ClaimStartPreservesInv ==
  ASSUME Inv, NEW p \in Procs, NEW m \in Msgs, ClaimStart(p, m)
  PROVE  Inv'
<1>1. UNCHANGED <<run, inter, answers, convLock, intLock, runLock, mem, crashes>>
  BY DEF ClaimStart, rows, locks
<1>2. /\ pc' \in [Procs -> {"idle", "conv", "inters", "run", "advance", "sweep", "step", "cancel"}]
      /\ job' \in [Procs -> Job] /\ JobOK'
  BY DEF ClaimStart, Inv, TypeOK, TypeProcs, JobOK, NoJob, Job
<1>3. outcome' \in [Msgs -> SUBSET Results] /\ deliveries' \in [Msgs -> 0..MaxDeliveries]
  <2>1. deliveries[m] \in 0..MaxDeliveries /\ deliveries[m] < MaxDeliveries
    BY DEF ClaimStart, Inv, TypeOK, TypeCounts
  <2>2. deliveries[m] + 1 \in 0..MaxDeliveries
    BY <2>1, BoundAssumption
  <2> QED
    BY <2>2 DEF ClaimStart, Inv, TypeOK, TypeCounts, Results
<1> QED
  BY <1>1, <1>2, <1>3 DEF Inv, TypeOK, TypeRows, TypeLocks, TypeProcs, TypeCounts, RowsOK, RowOK

\* A run is ended by a writer that holds no transaction of the engine.
LEMMA EndRunOK ==
  ASSUME Inv, NEW q \in Runs, NEW st \in Terminal, NEW due \in {"none", run[q].due},
         run' = [run EXCEPT ![q].status = st, ![q].due = due],
         inter' = ClosedFor(q)
  PROVE  /\ run' \in [Runs -> Row] /\ \A x \in Runs : RowOK(run'[x])
         /\ inter' \in [Inters -> Interaction]
<1>0. /\ run \in [Runs -> Row] /\ inter \in [Inters -> Interaction]
      /\ \A x \in Runs : run[x] \in Row /\ RowOK(run[x])
  BY DEF Inv, TypeOK, TypeRows, RowsOK
<1> DEFINE new == [run[q] EXCEPT !.status = st, !.due = due]
<1>1. new \in Row /\ RowOK(new)
  BY <1>0 DEF Row, RowOK, Terminal
<1>2. run' = [run EXCEPT ![q] = new]
  BY <1>0
<1>3. inter' \in [Inters -> Interaction]
  BY <1>0 DEF ClosedFor, Closed, Interaction
<1> QED
  BY <1>0, <1>1, <1>2, <1>3

\* A process that takes a run's row lock, gives up or dies.
LEMMA WorkerPreservesInv ==
  ASSUME Inv, NEW p \in Procs,
         \/ AdvanceAfterCommit(p) \/ SweepLock(p) \/ CancelWrite(p)
         \/ DeadlockVictim(p) \/ Crash(p)
  PROVE  Inv'
<1>0. /\ \A q \in Runs : run[q] \in Row /\ RowOK(run[q])
      /\ pc[p] \in {"advance", "sweep", "cancel"} => job[p].run \in Runs
  BY DEF Inv, TypeOK, TypeRows, RowsOK, JobOK
<1> DEFINE Idle == /\ UNCHANGED <<run, inter, answers, outcome, deliveries>>
                   /\ crashes' \in 0..MaxCrashes /\ Finish(p)
<1>a. ASSUME Idle PROVE Inv'
  BY <1>a, FinishOK DEF Inv, TypeOK, TypeRows, TypeCounts, RowsOK, RowOK
<1>1. CASE AdvanceAfterCommit(p)
  <2>1. CASE run[job[p].run].status = "active"
    <3> DEFINE row == [run[job[p].run] EXCEPT !.due = "none"]
    <3>1. job[p].run \in Runs /\ Begin(p, job[p].run, row) /\ UNCHANGED crashes
      BY <1>0, <1>1, <2>1 DEF AdvanceAfterCommit
    <3>2. row \in Row /\ RowOK(row)
      BY <1>0, <3>1 DEF Row, RowOK
    <3> QED
      BY <3>1, <3>2, BeginOK
  <2>2. CASE run[job[p].run].status # "active"
    BY <1>1, <1>a, <2>2 DEF AdvanceAfterCommit, rows, Inv, TypeOK, TypeCounts
  <2> QED
    BY <2>1, <2>2
<1>2. CASE SweepLock(p)
  <2> DEFINE old == run[job[p].run]
             row == IF old.status = "active" THEN [old EXCEPT !.due = "none"] ELSE old
  <2>1. CASE StillDue(old)
    <3>1. job[p].run \in Runs /\ Begin(p, job[p].run, row) /\ UNCHANGED crashes
      BY <1>0, <1>2, <2>1 DEF SweepLock
    <3>2. row \in Row /\ RowOK(row)
      BY <1>0, <3>1 DEF Row, RowOK
    <3> QED
      BY <3>1, <3>2, BeginOK
  <2>2. CASE ~StillDue(old)
    BY <1>2, <1>a, <2>2 DEF SweepLock, rows, Inv, TypeOK, TypeCounts
  <2> QED
    BY <2>1, <2>2
<1>3. CASE CancelWrite(p)
  <2>1. /\ job[p].run \in Runs /\ Finish(p)
        /\ UNCHANGED <<answers, outcome, deliveries, crashes>>
        /\ run' = [run EXCEPT ![job[p].run].status = "cancelled", ![job[p].run].due = "none"]
        /\ inter' = ClosedFor(job[p].run)
    BY <1>0, <1>3 DEF CancelWrite
  <2>2. /\ run' \in [Runs -> Row] /\ \A x \in Runs : RowOK(run'[x])
        /\ inter' \in [Inters -> Interaction]
    BY <2>1, EndRunOK DEF Terminal
  <2> QED
    BY <2>1, <2>2, FinishOK DEF Inv, TypeOK, TypeRows, TypeCounts, RowsOK, RowOK
<1>4. CASE DeadlockVictim(p)
  BY <1>4, <1>a DEF DeadlockVictim, rows, Inv, TypeOK, TypeCounts
<1>5. CASE Crash(p)
  <2>1. crashes' \in 0..MaxCrashes
    BY <1>5, BoundAssumption DEF Crash, Inv, TypeOK, TypeCounts
  <2> QED
    BY <1>5, <1>a, <2>1 DEF Crash, rows
<1> QED
  BY <1>1, <1>2, <1>3, <1>4, <1>5

LEMMA StartPreservesInv ==
  ASSUME Inv, NEW p \in Procs, NEW r \in Runs,
         SweepStart(p, r) \/ Enroll(p, r) \/ CancelRead(p, r)
  PROVE  Inv'
<1>1. CASE SweepStart(p, r) \/ CancelRead(p, r)
  <2>1. /\ UNCHANGED <<rows, locks, mem, outcome, deliveries, crashes>>
        /\ job' = [job EXCEPT ![p] = [NoJob EXCEPT !.run = r]]
        /\ \/ pc' = [pc EXCEPT ![p] = "sweep"]
           \/ pc' = [pc EXCEPT ![p] = "cancel"]
    BY <1>1 DEF SweepStart, CancelRead
  <2>2. pc' \in [Procs -> {"idle", "conv", "inters", "run", "advance", "sweep", "step", "cancel"}]
    BY <2>1 DEF Inv, TypeOK, TypeProcs
  <2>3. job' \in [Procs -> Job]
    BY <2>1 DEF Inv, TypeOK, TypeProcs, NoJob, Job
  <2>4. JobOK'
    BY <2>1 DEF Inv, TypeOK, TypeProcs, NoJob, JobOK
  <2>5. TypeRows' /\ TypeLocks' /\ TypeCounts' /\ mem' \in [Procs -> Tx] /\ RowsOK'
    BY <2>1 DEF rows, locks, Inv, TypeOK, TypeRows, TypeLocks, TypeProcs, TypeCounts, RowsOK, RowOK
  <2> QED
    BY <2>2, <2>3, <2>4, <2>5 DEF Inv, TypeOK, TypeProcs
<1>2. CASE Enroll(p, r)
  <2> DEFINE row == [NoRow EXCEPT !.status = "active"]
  <2>1. row \in Row /\ RowOK(row)
    BY NoRowOK DEF Row, RowOK, Live
  <2> QED
    BY <1>2, <2>1, BeginOK DEF Enroll
<1> QED
  BY <1>1, <1>2

LEMMA EnvironmentPreservesInv ==
  ASSUME Inv, NEW r \in Runs, SendFailed(r) \/ Tick(r)
  PROVE  Inv'
<1>0. run[r] \in Row /\ RowOK(run[r]) /\ run \in [Runs -> Row]
  BY DEF Inv, TypeOK, TypeRows, RowsOK
<1>1. CASE SendFailed(r)
  <2>1. [run EXCEPT ![r].status = "failed"]
          = [run EXCEPT ![r].status = "failed", ![r].due = run[r].due]
    BY <1>0 DEF Row
  <2>2. /\ run' \in [Runs -> Row] /\ \A x \in Runs : RowOK(run'[x])
        /\ inter' \in [Inters -> Interaction]
    BY <1>1, <2>1, EndRunOK DEF SendFailed, Terminal
  <2> QED
    BY <1>1, <2>2 DEF SendFailed, locks, Inv, TypeOK, TypeRows, TypeLocks, TypeProcs,
       TypeCounts, JobOK, RowsOK, RowOK
<1>2. CASE Tick(r)
  <2>1. UNCHANGED <<inter, answers, convLock, intLock, runLock, pc, job, mem, outcome,
                    deliveries, crashes>>
        /\ run' = [run EXCEPT ![r] = [run[r] EXCEPT !.due = "now"]]
    BY <1>2 DEF Tick, locks
  <2>2. [run[r] EXCEPT !.due = "now"] \in Row /\ RowOK([run[r] EXCEPT !.due = "now"])
    BY <1>0 DEF Row, RowOK
  <2> QED
    BY <1>0, <2>1, <2>2 DEF Inv, TypeOK, TypeRows, TypeLocks, TypeProcs, TypeCounts, JobOK,
       RowsOK, RowOK
<1> QED
  BY <1>1, <1>2

LEMMA StutterPreservesInv == Inv /\ UNCHANGED vars => Inv'
BY DEF vars, Inv, TypeOK, TypeRows, TypeLocks, TypeProcs, TypeCounts, JobOK, RowsOK, RowOK

LEMMA NextPreservesInv == Inv /\ [Next]_vars => Inv'
<1> SUFFICES ASSUME Inv, [Next]_vars PROVE Inv'
  OBVIOUS
<1>1. ASSUME NEW p \in Procs, Work(p) \/ Crash(p) PROVE Inv'
  BY <1>1, ClaimPreservesInv, AdvancePreservesInv, WorkerPreservesInv DEF Work
<1>2. ASSUME NEW p \in Procs, NEW m \in Msgs, ClaimStart(p, m) PROVE Inv'
  BY <1>2, ClaimStartPreservesInv
<1>3. ASSUME NEW p \in Procs, NEW r \in Runs,
             SweepStart(p, r) \/ Enroll(p, r) \/ CancelRead(p, r)
      PROVE  Inv'
  BY <1>3, StartPreservesInv
<1>4. ASSUME NEW r \in Runs, SendFailed(r) \/ Tick(r) PROVE Inv'
  BY <1>4, EnvironmentPreservesInv
<1> QED
  BY <1>1, <1>2, <1>3, <1>4, StutterPreservesInv DEF Next

\* The invariant holds in every reachable state.
THEOREM InvHolds == Spec => []Inv
BY InitInv, NextPreservesInv, PTL DEF Spec

\* Every variable keeps rows and process states of the right shape.
THEOREM TypeCorrect == Spec => []TypeOK
<1>1. Inv => TypeOK
  BY DEF Inv
<1> QED
  BY <1>1, InvHolds, PTL

\* A run leaves each question at most once, however claims, expiry sweeps,
\* cancels and crashes interleave (claim_reply, advance_run).
THEOREM ExitOnce == Spec => []OneExitPerQuestion
<1>1. Inv => OneExitPerQuestion
  BY DEF Inv, RowsOK, RowOK, OneExitPerQuestion
<1> QED
  BY <1>1, InvHolds, PTL

-----------------------------------------------------------------------------
(* One message moves at most one run, once, and a run that ended stays    *)
(* ended. Both rest on what the row locks protect: a claim keeps its      *)
(* conversation from the look at the message key to its commit, an        *)
(* advance keeps its run.                                                 *)

\* The answers behind the transitions of r's row are all in ans.
Recorded(row, r, ans) ==
    \A e \in row.exits : e.by # Timeout => <<e.by, <<r, e.step>>>> \in ans

\* An advance holds its run, which has not ended.
RunHeld(p) == pc[p] = "step" =>
    runLock[job[p].run] = p /\ run[job[p].run].status \notin Terminal

\* A claim past the second look at the key holds its conversation, and the key
\* is still free.
KeyHeld(p) == pc[p] \in {"inters", "run"} =>
    convLock[MsgConv[job[p].msg]] = p /\ ~Claimed(job[p].msg)

\* The same of an answer not yet committed, and it is the only one.
TxHeld(p) == pc[p] = "step" =>
    /\ \A a \in mem[p].ans : convLock[MsgConv[a[1]]] = p /\ ~Claimed(a[1])
    /\ \A a, b \in mem[p].ans : a = b
    /\ Recorded(mem[p].run, job[p].run, answers \cup mem[p].ans)

ProcHeld(p) == RunHeld(p) /\ KeyHeld(p) /\ TxHeld(p)

OneAnswer == \A a, b \in answers : a[1] = b[1] => a = b

HInv == /\ Inv
        /\ OneAnswer
        /\ \A r \in Runs : Recorded(run[r], r, answers)
        /\ \A p \in Procs : ProcHeld(p)

LEMMA InitHInv == Init => HInv
BY InitInv DEF Init, HInv, OneAnswer, Recorded, ProcHeld, RunHeld, KeyHeld, TxHeld, NoRow

-----------------------------------------------------------------------------
(* A step of one process: what it must respect for the rest to be kept.    *)

\* The other processes, and the locks they hold, are as before.
OthersKept(p) ==
    /\ \A q \in Procs \ {p} : pc'[q] = pc[q] /\ job'[q] = job[q] /\ mem'[q] = mem[q]
    /\ \A c \in Convs : convLock[c] \in {None, p} \/ convLock'[c] = convLock[c]
    /\ \A r \in Runs : runLock[r] \in {None, p} \/ runLock'[r] = runLock[r]

\* New answers are to free keys of conversations p holds, and there is one.
AnswersKept(p) ==
    /\ answers \subseteq answers'
    /\ \A a \in answers' \ answers : ~Claimed(a[1]) /\ convLock[MsgConv[a[1]]] = p
    /\ \A a, b \in answers' \ answers : a = b

\* Rows change only when nobody else holds them, and stay recorded.
RowsKept(p) ==
    \A r \in Runs : \/ run'[r] = run[r]
                    \/ runLock[r] \in {None, p} /\ Recorded(run'[r], r, answers')

LEMMA StepKeepsHInv ==
  ASSUME HInv, Inv', NEW p \in Procs,
         OthersKept(p), AnswersKept(p), RowsKept(p), ProcHeld(p)'
  PROVE  HInv'
<1>1. OneAnswer'
  BY DEF HInv, OneAnswer, AnswersKept, Claimed
<1>2. \A r \in Runs : Recorded(run'[r], r, answers')
  BY DEF HInv, RowsKept, AnswersKept, Recorded
<1>3. ASSUME NEW q \in Procs \ {p} PROVE ProcHeld(q)'
  <2>0. /\ pc'[q] = pc[q] /\ job'[q] = job[q] /\ mem'[q] = mem[q]
        /\ ProcHeld(q) /\ q # None /\ q # p
    BY <1>3, BoundAssumption DEF OthersKept, HInv
  <2>1. RunHeld(q)'
    <3> SUFFICES ASSUME pc[q] = "step"
                 PROVE  runLock'[job[q].run] = q /\ run'[job[q].run].status \notin Terminal
      BY <2>0 DEF RunHeld
    <3>1. job[q].run \in Runs /\ runLock[job[q].run] = q
      BY <2>0 DEF ProcHeld, RunHeld, HInv, Inv, JobOK
    <3>2. runLock'[job[q].run] = q /\ run'[job[q].run] = run[job[q].run]
      BY <2>0, <3>1 DEF OthersKept, RowsKept
    <3> QED
      BY <2>0, <3>2 DEF ProcHeld, RunHeld
  <2>2. ASSUME NEW m \in Msgs, convLock[MsgConv[m]] = q, ~Claimed(m)
        PROVE  convLock'[MsgConv[m]] = q /\ ~Claimed(m)'
    <3>1. convLock'[MsgConv[m]] = q
      BY <2>0, <2>2, MessageAssumption DEF OthersKept
    <3>2. ~Claimed(m)'
      BY <2>0, <2>2 DEF AnswersKept, Claimed
    <3> QED
      BY <3>1, <3>2
  <2>3. KeyHeld(q)'
    <3>1. pc[q] \in {"inters", "run"} => job[q].msg \in Msgs
      BY DEF HInv, Inv, JobOK
    <3> QED
      BY <2>0, <2>2, <3>1 DEF ProcHeld, KeyHeld
  <2>4. TxHeld(q)'
    <3> SUFFICES ASSUME pc[q] = "step"
                 PROVE  /\ \A a \in mem[q].ans : convLock'[MsgConv[a[1]]] = q /\ ~Claimed(a[1])'
                        /\ \A a, b \in mem[q].ans : a = b
                        /\ Recorded(mem[q].run, job[q].run, answers' \cup mem[q].ans)
      BY <2>0 DEF TxHeld, Claimed
    <3>1. \A a \in mem[q].ans : a[1] \in Msgs
      BY DEF HInv, Inv, TypeOK, TypeProcs, Tx
    <3> QED
      BY <2>0, <2>2, <3>1 DEF ProcHeld, TxHeld, Recorded, AnswersKept
  <2> QED
    BY <2>1, <2>3, <2>4 DEF ProcHeld
<1> QED
  BY <1>1, <1>2, <1>3 DEF HInv

\* A process that does nothing but keep or change its own state and locks.
LEMMA QuietKeepsHInv ==
  ASSUME HInv, Inv', NEW p \in Procs, OthersKept(p), UNCHANGED <<run, answers>>, ProcHeld(p)'
  PROVE  HInv'
BY StepKeepsHInv DEF AnswersKept, RowsKept

\* Finish ends p's part of everything.
LEMMA FinishKept ==
  ASSUME Inv, NEW p \in Procs, Finish(p)
  PROVE  OthersKept(p) /\ ProcHeld(p)'
<1>1. pc'[p] = "idle"
  BY DEF Finish, Inv, TypeOK, TypeProcs
<1>2. OthersKept(p)
  BY DEF OthersKept, Finish, Freed, Inv, TypeOK, TypeProcs, TypeLocks
<1> QED
  BY <1>1, <1>2 DEF ProcHeld, RunHeld, KeyHeld, TxHeld

-----------------------------------------------------------------------------
(* The building blocks of the actions.                                     *)

LEMMA BeginKeepsHInv ==
  ASSUME HInv, Inv', NEW p \in Procs, NEW r \in Runs, NEW row \in Row,
         runLock[r] = None, run[r].status \notin Terminal,
         row.exits \subseteq run[r].exits, Begin(p, r, row)
  PROVE  HInv'
<1>1. /\ pc'[p] = "step" /\ job'[p].run = r /\ runLock'[r] = p
      /\ mem'[p].run = row /\ mem'[p].ans = {}
      /\ UNCHANGED <<run, answers, convLock>>
  BY NoMemOK DEF Begin, rows, HInv, Inv, TypeOK, TypeProcs, TypeLocks, Tx, NoMem, NoJob
<1>2. Recorded(row, r, answers)
  BY DEF HInv, Recorded
<1>3. ProcHeld(p)'
  BY <1>1, <1>2 DEF ProcHeld, RunHeld, KeyHeld, TxHeld, Recorded
<1>4. OthersKept(p)
  BY DEF OthersKept, Begin, HInv, Inv, TypeOK, TypeProcs, TypeLocks
<1> QED
  BY <1>1, <1>3, <1>4, QuietKeepsHInv

LEMMA IterateKeepsHInv ==
  ASSUME HInv, Inv', NEW p \in Procs, pc[p] = "step", NEW row, NEW writes,
         Recorded(row, job[p].run, answers \cup mem[p].ans), Iterate(p, row, writes)
  PROVE  HInv'
<1>1. /\ UNCHANGED <<run, answers, convLock, runLock, pc, job>>
      /\ mem'[p].run = row /\ mem'[p].ans = mem[p].ans
      /\ \A q \in Procs \ {p} : mem'[q] = mem[q]
  <2>1. mem \in [Procs -> Tx] /\ mem[p] \in Tx
    BY DEF HInv, Inv, TypeOK, TypeProcs
  <2>2. mem' = [mem EXCEPT ![p] = [mem[p] EXCEPT !.run = row, !.inter = writes, !.fuel = @ - 1]]
    BY <2>1 DEF Iterate, Tx
  <2> QED
    BY <2>1, <2>2 DEF Iterate, rows, Tx
<1>2. ProcHeld(p)'
  BY <1>1 DEF HInv, ProcHeld, RunHeld, KeyHeld, TxHeld, Recorded, Claimed
<1> QED
  BY <1>1, <1>2, QuietKeepsHInv DEF OthersKept

LEMMA CommitKeepsHInv ==
  ASSUME HInv, Inv', NEW p \in Procs, pc[p] = "step", NEW row, NEW writes,
         Recorded(row, job[p].run, answers \cup mem[p].ans), Commit(p, row, writes)
  PROVE  HInv'
<1>1. /\ Finish(p) /\ answers' = answers \cup mem[p].ans
      /\ run' = [run EXCEPT ![job[p].run] = row]
      /\ run \in [Runs -> Row] /\ job[p].run \in Runs
  BY DEF Commit, HInv, Inv, TypeOK, TypeRows, JobOK
<1>2. RunHeld(p) /\ TxHeld(p)
  BY DEF HInv, ProcHeld
<1>3. AnswersKept(p)
  BY <1>1, <1>2 DEF AnswersKept, TxHeld
<1>4. RowsKept(p)
  BY <1>1, <1>2 DEF RowsKept, RunHeld
<1>5. OthersKept(p) /\ ProcHeld(p)'
  BY <1>1, FinishKept DEF HInv
<1> QED
  BY <1>3, <1>4, <1>5, StepKeepsHInv

-----------------------------------------------------------------------------
(* One lemma per group of actions.                                         *)

\* What an answer writes is recorded once the answer is.
LEMMA AnswerRecorded ==
  ASSUME NEW row \in Row, NEW r \in Runs, NEW rec \in Interaction, NEW m \in Msgs,
         row.step \in Steps, NEW ans, Recorded(row, r, ans),
         NEW e \in AnswerEffects(row, rec, row.step, m)
  PROVE  Recorded(e[1], r, ans \cup {<<m, <<r, row.step>>>>})
<1>1. \/ e[1].exits = row.exits
      \/ e[1].exits = row.exits \cup {[step |-> row.step, by |-> m]}
  <2>1. \A to : Moved(row, row.step, to, m).exits
                  = row.exits \cup {[step |-> row.step, by |-> m]}
    BY DEF Moved, Row
  <2>2. Reprompt(row, rec)[1].exits = row.exits
    BY DEF Reprompt, Row
  <2> QED
    BY <2>1, <2>2 DEF AnswerEffects
<1> QED
  BY <1>1 DEF Recorded

LEMMA ClaimCommitKeepsHInv ==
  ASSUME HInv, Inv', NEW p \in Procs, ClaimCommit(p)
  PROVE  HInv'
<1> DEFINE m == job[p].msg
           r == job[p].run
           s == job[p].step
           i == <<r, s>>
<1>1. /\ m \in Msgs /\ r \in Runs /\ s \in Steps /\ i \in Inters
      /\ run[r].status = "waiting" /\ run[r].step = s /\ runLock[r] = None
      /\ run[r] \in Row /\ inter[i] \in Interaction /\ run \in [Runs -> Row]
      /\ convLock[MsgConv[m]] = p /\ ~Claimed(m)
      /\ Recorded(run[r], r, answers)
  BY DEF ClaimCommit, WaitsOn, HInv, ProcHeld, KeyHeld, Inv, JobOK, TypeOK, TypeRows, Inters
<1>2. PICK e \in AnswerEffects(run[r], inter[i], s, m) :
        IF OuterTx /\ e[1].status = "active"
        THEN /\ runLock' = [runLock EXCEPT ![r] = p]
             /\ mem' = [mem EXCEPT ![p] =
                         [run |-> [e[1] EXCEPT !.due = "none"],
                          inter |-> [NoMem.inter EXCEPT ![i] = e[2]],
                          ans |-> {<<m, i>>}, fuel |-> MaxSteps]]
             /\ pc' = [pc EXCEPT ![p] = "step"]
             /\ UNCHANGED <<rows, convLock, intLock, job, outcome>>
        ELSE /\ run' = [run EXCEPT ![r] = e[1]]
             /\ inter' = [inter EXCEPT ![i] = e[2]]
             /\ answers' = answers \cup {<<m, i>>}
             /\ outcome' = [outcome EXCEPT ![m] = @ \cup {"claimed"}]
             /\ convLock' = Freed(convLock, p)
             /\ intLock' = Freed(intLock, p)
             /\ pc' = [pc EXCEPT ![p] = "advance"]
             /\ job' = [job EXCEPT ![p] = [NoJob EXCEPT !.run = r]]
             /\ UNCHANGED <<runLock, mem>>
  BY DEF ClaimCommit
<1>3. Recorded(e[1], r, answers \cup {<<m, i>>})
  BY <1>1, AnswerRecorded
<1>4. CASE OuterTx /\ e[1].status = "active"
  <2>1. /\ pc'[p] = "step" /\ job' = job /\ runLock'[r] = p
        /\ mem'[p].run = [e[1] EXCEPT !.due = "none"] /\ mem'[p].ans = {<<m, i>>}
        /\ UNCHANGED <<run, answers, convLock>>
    BY <1>1, <1>2, <1>4 DEF rows, HInv, Inv, TypeOK, TypeProcs, TypeLocks
  <2>2. [e[1] EXCEPT !.due = "none"].exits = e[1].exits
    BY <1>1, AnswerEffectsOK DEF HInv, Inv, RowsOK, Row
  <2>3. ProcHeld(p)'
    BY <1>1, <1>3, <2>1, <2>2
    DEF ProcHeld, RunHeld, KeyHeld, TxHeld, Recorded, Claimed, Terminal
  <2>4. OthersKept(p)
    BY <1>1, <1>2, <1>4 DEF OthersKept, HInv, Inv, TypeOK, TypeProcs, TypeLocks
  <2> QED
    BY <2>1, <2>3, <2>4, QuietKeepsHInv
<1>5. CASE ~(OuterTx /\ e[1].status = "active")
  <2>1. AnswersKept(p)
    BY <1>1, <1>2, <1>5 DEF AnswersKept
  <2>2. RowsKept(p)
    BY <1>1, <1>2, <1>3, <1>5 DEF RowsKept
  <2>3. OthersKept(p)
    BY <1>2, <1>5 DEF OthersKept, Freed, HInv, Inv, TypeOK, TypeProcs, TypeLocks
  <2>4. pc'[p] = "advance"
    BY <1>2, <1>5 DEF HInv, Inv, TypeOK, TypeProcs
  <2>5. ProcHeld(p)'
    BY <2>4 DEF ProcHeld, RunHeld, KeyHeld, TxHeld
  <2> QED
    BY <2>1, <2>2, <2>3, <2>5, StepKeepsHInv
<1> QED
  BY <1>4, <1>5

\* A process that ends its transaction without writing a run.
LEMMA GiveUpKeepsHInv ==
  ASSUME HInv, Inv', NEW p \in Procs, Finish(p), UNCHANGED <<run, answers>>
  PROVE  HInv'
BY FinishKept, QuietKeepsHInv DEF HInv

LEMMA ClaimKeepsHInv ==
  ASSUME HInv, Inv', NEW p \in Procs, Claim(p)
  PROVE  HInv'
<1>1. CASE ClaimConversation(p) /\ ~Finish(p)
  <2>1. /\ ~Claimed(job[p].msg) /\ convLock[MsgConv[job[p].msg]] = None /\ pc[p] = "conv"
        /\ convLock' = [convLock EXCEPT ![MsgConv[job[p].msg]] = p]
        /\ pc' = [pc EXCEPT ![p] = "inters"]
        /\ UNCHANGED <<run, answers, runLock, job, mem>>
    BY <1>1 DEF ClaimConversation, Return, rows
  <2>2. MsgConv[job[p].msg] \in Convs
    BY <2>1, MessageAssumption DEF HInv, Inv, JobOK
  <2>3. OthersKept(p) /\ pc'[p] = "inters" /\ convLock'[MsgConv[job[p].msg]] = p
    BY <2>1, <2>2 DEF OthersKept, HInv, Inv, TypeOK, TypeProcs, TypeLocks
  <2>4. ProcHeld(p)'
    BY <2>1, <2>3 DEF ProcHeld, RunHeld, KeyHeld, TxHeld, Claimed
  <2> QED
    BY <2>1, <2>3, <2>4, QuietKeepsHInv
<1>2. CASE ClaimInteractions(p) /\ ~Finish(p)
  <2>1. /\ pc[p] = "inters" /\ pc' = [pc EXCEPT ![p] = "run"]
        /\ \E x, y : job' = [job EXCEPT ![p] = [msg |-> job[p].msg, run |-> x, step |-> y]]
        /\ UNCHANGED <<run, answers, convLock, runLock, mem>>
    BY <1>2 DEF ClaimInteractions, Return, rows
  <2>2. OthersKept(p) /\ pc'[p] = "run" /\ job'[p].msg = job[p].msg
    BY <2>1 DEF OthersKept, HInv, Inv, TypeOK, TypeProcs
  <2>3. ProcHeld(p)'
    BY <2>1, <2>2 DEF HInv, ProcHeld, RunHeld, KeyHeld, TxHeld, Claimed
  <2> QED
    BY <2>1, <2>2, <2>3, QuietKeepsHInv
<1>3. CASE ClaimCommit(p)
  BY <1>3, ClaimCommitKeepsHInv
<1>4. CASE Finish(p) /\ ~ClaimCommit(p)
  <2>1. UNCHANGED <<run, answers>>
    BY <1>4 DEF Claim, ClaimConversation, ClaimInteractions, ClaimStale, ClaimDuplicate, rows
  <2> QED
    BY <1>4, <2>1, GiveUpKeepsHInv
<1>5. ClaimStale(p) \/ ClaimDuplicate(p) => Finish(p)
  BY DEF ClaimStale, ClaimDuplicate, Return
<1> QED
  BY <1>1, <1>2, <1>3, <1>4, <1>5 DEF Claim
LEMMA AdvanceKeepsHInv ==
  ASSUME HInv, Inv', NEW p \in Procs, Advance(p)
  PROVE  HInv'
<1> DEFINE row == mem[p].run
           known == answers \cup mem[p].ans
<1>1. pc[p] = "step" /\ row \in Row
  BY DEF Advance, StepTimeout, StepSkip, StepOnError, StepAsk, StepFail, StepComplete,
     StepLimit, AtStep, Executing, HInv, Inv, TypeOK, TypeProcs, Tx
<1>2. Recorded(row, job[p].run, known)
  BY <1>1 DEF HInv, ProcHeld, TxHeld
<1>3. ASSUME NEW new, new.exits = row.exits PROVE Recorded(new, job[p].run, known)
  BY <1>2, <1>3 DEF Recorded
<1>4. CASE StepTimeout(p)
  <2> DEFINE new == [Moved(row, row.step, OnTimeout[row.step], Timeout) EXCEPT !.due = "none"]
  <2>1. new.exits = row.exits \cup {[step |-> row.step, by |-> Timeout]}
    BY <1>1 DEF Moved, Row
  <2>2. Recorded(new, job[p].run, known)
    BY <1>2, <2>1 DEF Recorded
  <2> QED
    BY <1>1, <1>4, <2>2, IterateKeepsHInv DEF StepTimeout
<1>5. CASE StepSkip(p)
  <2> DEFINE new == [row EXCEPT !.step = IF NextOf[row.step] = row.step
                                         THEN End ELSE NextOf[row.step]]
  <2>1. Recorded(new, job[p].run, known)
    BY <1>1, <1>3 DEF Row
  <2> QED
    BY <1>1, <1>5, <2>1, IterateKeepsHInv DEF StepSkip
<1>6. CASE StepOnError(p)
  <2> DEFINE new == [row EXCEPT !.step = OnError[row.step], !.done = @ \cup {row.step}]
  <2>1. Recorded(new, job[p].run, known)
    BY <1>1, <1>3 DEF Row
  <2> QED
    BY <1>1, <1>6, <2>1, IterateKeepsHInv DEF StepOnError
<1>7. CASE StepAsk(p)
  <2> DEFINE new == [row EXCEPT !.status = "waiting", !.due = "later", !.done = @ \cup {row.step}]
  <2>1. Recorded(new, job[p].run, known)
    BY <1>1, <1>3 DEF Row
  <2> QED
    BY <1>1, <1>7, <2>1, CommitKeepsHInv DEF StepAsk
<1>8. CASE StepFail(p)
  <2> DEFINE new == [row EXCEPT !.status = "failed", !.done = @ \cup {row.step}]
  <2>1. Recorded(new, job[p].run, known)
    BY <1>1, <1>3 DEF Row
  <2> QED
    BY <1>1, <1>8, <2>1, CommitKeepsHInv DEF StepFail
<1>9. CASE StepComplete(p)
  <2> DEFINE new == [row EXCEPT !.status = "completed", !.due = "none"]
  <2>1. Recorded(new, job[p].run, known)
    BY <1>1, <1>3 DEF Row
  <2> QED
    BY <1>1, <1>9, <2>1, CommitKeepsHInv DEF StepComplete
<1>10. CASE StepLimit(p)
  BY <1>1, <1>2, <1>10, CommitKeepsHInv DEF StepLimit
<1> QED
  BY <1>4, <1>5, <1>6, <1>7, <1>8, <1>9, <1>10 DEF Advance

\* A process that takes a run's row lock, cancels, gives up or dies.
LEMMA WorkerKeepsHInv ==
  ASSUME HInv, Inv', NEW p \in Procs,
         \/ AdvanceAfterCommit(p) \/ SweepLock(p) \/ CancelWrite(p)
         \/ DeadlockVictim(p) \/ Crash(p)
  PROVE  HInv'
<1> DEFINE r == job[p].run
<1>0. /\ pc[p] \in {"advance", "sweep", "cancel"} => r \in Runs /\ run[r] \in Row
      /\ run \in [Runs -> Row]
  BY DEF HInv, Inv, TypeOK, TypeRows, JobOK
<1>1. CASE AdvanceAfterCommit(p)
  <2>1. CASE run[r].status = "active"
    <3> DEFINE row == [run[r] EXCEPT !.due = "none"]
    <3>1. r \in Runs /\ runLock[r] = None /\ Begin(p, r, row)
      BY <1>0, <1>1, <2>1 DEF AdvanceAfterCommit
    <3>2. row \in Row /\ row.exits = run[r].exits
      BY <1>0, <1>1 DEF AdvanceAfterCommit, Row
    <3> QED
      BY <2>1, <3>1, <3>2, BeginKeepsHInv DEF Terminal
  <2>2. CASE run[r].status # "active"
    BY <1>1, <2>2, GiveUpKeepsHInv DEF AdvanceAfterCommit, rows
  <2> QED
    BY <2>1, <2>2
<1>2. CASE SweepLock(p)
  <2>1. CASE StillDue(run[r])
    <3> DEFINE row == IF run[r].status = "active" THEN [run[r] EXCEPT !.due = "none"]
                      ELSE run[r]
    <3>1. r \in Runs /\ runLock[r] = None /\ Begin(p, r, row)
      BY <1>0, <1>2, <2>1 DEF SweepLock
    <3>2. row \in Row /\ row.exits = run[r].exits
      BY <1>0, <1>2 DEF SweepLock, Row
    <3> QED
      BY <2>1, <3>1, <3>2, BeginKeepsHInv DEF StillDue, Terminal
  <2>2. CASE ~StillDue(run[r])
    BY <1>2, <2>2, GiveUpKeepsHInv DEF SweepLock, rows
  <2> QED
    BY <2>1, <2>2
<1>3. CASE CancelWrite(p)
  <2>1. /\ Finish(p) /\ UNCHANGED answers /\ runLock[r] = None /\ r \in Runs
        /\ \A x \in Runs \ {r} : run'[x] = run[x]
        /\ run'[r].exits = run[r].exits
    BY <1>0, <1>3 DEF CancelWrite, Row
  <2>2. RowsKept(p)
    BY <2>1 DEF RowsKept, HInv, Recorded
  <2>3. OthersKept(p) /\ ProcHeld(p)' /\ AnswersKept(p)
    BY <2>1, FinishKept DEF HInv, AnswersKept
  <2> QED
    BY <2>2, <2>3, StepKeepsHInv
<1>4. CASE DeadlockVictim(p) \/ Crash(p)
  BY <1>4, GiveUpKeepsHInv DEF DeadlockVictim, Crash, rows
<1> QED
  BY <1>1, <1>2, <1>3, <1>4

LEMMA StartKeepsHInv ==
  ASSUME HInv, Inv', NEW p \in Procs,
         \/ \E m \in Msgs : ClaimStart(p, m)
         \/ \E r \in Runs : SweepStart(p, r) \/ CancelRead(p, r) \/ Enroll(p, r)
  PROVE  HInv'
<1>1. CASE \E r \in Runs : Enroll(p, r)
  <2>1. PICK r \in Runs : Enroll(p, r)
    BY <1>1
  <2> DEFINE row == [NoRow EXCEPT !.status = "active"]
  <2>2. row \in Row /\ row.exits = {}
    BY NoRowOK DEF Row, Live, NoRow
  <2> QED
    BY <2>1, <2>2, BeginKeepsHInv DEF Enroll, Terminal
<1>2. CASE ~ \E r \in Runs : Enroll(p, r)
  <2>1. /\ UNCHANGED <<run, answers, convLock, runLock, mem>> /\ pc[p] = "idle"
        /\ pc' \in {pc, [pc EXCEPT ![p] = "conv"], [pc EXCEPT ![p] = "sweep"],
                    [pc EXCEPT ![p] = "cancel"]}
        /\ \E j : job' \in {job, [job EXCEPT ![p] = j]}
    BY <1>2 DEF ClaimStart, SweepStart, CancelRead, rows, locks
  <2>2. pc'[p] \in {"idle", "conv", "sweep", "cancel"} /\ OthersKept(p)
    BY <2>1 DEF OthersKept, HInv, Inv, TypeOK, TypeProcs
  <2>3. ProcHeld(p)'
    BY <2>2 DEF ProcHeld, RunHeld, KeyHeld, TxHeld
  <2> QED
    BY <2>1, <2>2, <2>3, QuietKeepsHInv
<1> QED
  BY <1>1, <1>2

LEMMA EnvironmentKeepsHInv ==
  ASSUME HInv, Inv', NEW r \in Runs, SendFailed(r) \/ Tick(r)
  PROVE  HInv'
<1>1. /\ UNCHANGED <<answers, convLock, runLock, pc, job, mem>>
      /\ \A x \in Runs : run'[x].exits = run[x].exits
      /\ \A x \in Runs : runLock[x] = None \/ run'[x].status = run[x].status
  BY DEF SendFailed, Tick, locks, HInv, Inv, TypeOK, TypeRows, Row
<1>2. OneAnswer' /\ \A x \in Runs : Recorded(run'[x], x, answers')
  BY <1>1 DEF HInv, OneAnswer, Recorded
<1>3. ASSUME NEW p \in Procs PROVE ProcHeld(p)'
  <2>1. ProcHeld(p) /\ p # None /\ (pc[p] = "step" => job[p].run \in Runs)
    BY BoundAssumption DEF HInv, Inv, JobOK
  <2>2. KeyHeld(p)' /\ TxHeld(p)'
    BY <1>1, <2>1 DEF ProcHeld, KeyHeld, TxHeld, Recorded, Claimed
  <2>3. RunHeld(p)'
    BY <1>1, <2>1 DEF ProcHeld, RunHeld
  <2> QED
    BY <2>2, <2>3 DEF ProcHeld
<1> QED
  BY <1>2, <1>3 DEF HInv

LEMMA NextKeepsHInv == HInv /\ [Next]_vars => HInv'
<1> SUFFICES ASSUME HInv, [Next]_vars PROVE HInv'
  OBVIOUS
<1>0. Inv'
  BY NextPreservesInv DEF HInv
<1>1. ASSUME NEW p \in Procs, Work(p) \/ Crash(p) PROVE HInv'
  BY <1>0, <1>1, ClaimKeepsHInv, AdvanceKeepsHInv, WorkerKeepsHInv DEF Work
<1>2. ASSUME NEW p \in Procs, NEW m \in Msgs, ClaimStart(p, m) PROVE HInv'
  BY <1>0, <1>2, StartKeepsHInv
<1>3. ASSUME NEW p \in Procs, NEW r \in Runs,
             SweepStart(p, r) \/ Enroll(p, r) \/ CancelRead(p, r)
      PROVE  HInv'
  BY <1>0, <1>3, StartKeepsHInv
<1>4. ASSUME NEW r \in Runs, SendFailed(r) \/ Tick(r) PROVE HInv'
  BY <1>0, <1>4, EnvironmentKeepsHInv
<1>5. CASE UNCHANGED vars
  BY <1>0, <1>5 DEF vars, HInv, OneAnswer, Recorded, ProcHeld, RunHeld, KeyHeld, TxHeld, Claimed
<1> QED
  BY <1>1, <1>2, <1>3, <1>4, <1>5 DEF Next

THEOREM HInvHolds == Spec => []HInv
BY InitHInv, NextKeepsHInv, PTL DEF Spec

-----------------------------------------------------------------------------
\* One message moves at most one run, and once, although providers deliver it
\* twice and two webhook workers process it together (claim_reply, steps 1 and 5).
THEOREM MessageOnce == Spec => []OneRunPerMessage
<1>1. HInv => OneRunPerMessage
  <2> SUFFICES ASSUME HInv, NEW r \in Runs, NEW q \in Runs,
                      NEW e \in run[r].exits, NEW f \in run[q].exits,
                      e.by = f.by, e.by # Timeout
               PROVE  r = q /\ e = f
    BY DEF OneRunPerMessage
  <2>1. <<e.by, <<r, e.step>>>> \in answers /\ <<f.by, <<q, f.step>>>> \in answers
    BY DEF HInv, Recorded
  <2>2. r = q /\ e.step = f.step
    BY <2>1 DEF HInv, OneAnswer
  <2>3. /\ e \in [step : Steps, by : Msgs \cup {Timeout}]
        /\ f \in [step : Steps, by : Msgs \cup {Timeout}]
    BY DEF HInv, Inv, TypeOK, TypeRows, Row
  <2> QED
    BY <2>2, <2>3
<1> QED
  BY <1>1, HInvHolds, PTL

LEMMA EndedStep ==
  ASSUME HInv, [Next]_vars, NEW r \in Runs, run[r].status \in Terminal
  PROVE  run'[r].status \in Terminal
<1>0. /\ run \in [Runs -> Row] /\ run[r] \in Row
      /\ \A p \in Procs : RunHeld(p)
      /\ \A p \in Procs : pc[p] = "run" => job[p].run \in Runs
  BY DEF HInv, Inv, TypeOK, TypeRows, JobOK, ProcHeld
<1>1. ASSUME NEW p \in Procs, Claim(p) PROVE run'[r].status \in Terminal
  <2>1. CASE ClaimCommit(p)
    <3>1. run[job[p].run].status = "waiting" /\ job[p].run \in Runs
      BY <1>0, <2>1 DEF ClaimCommit, WaitsOn
    <3>2. run' = run \/ \E row : run' = [run EXCEPT ![job[p].run] = row]
      BY <2>1 DEF ClaimCommit, rows
    <3> QED
      BY <1>0, <3>1, <3>2 DEF Terminal
  <2>2. CASE ~ClaimCommit(p)
    BY <1>1, <2>2 DEF Claim, ClaimConversation, ClaimInteractions, ClaimStale,
       ClaimDuplicate, rows
  <2> QED
    BY <2>1, <2>2
<1>2. ASSUME NEW p \in Procs, Advance(p) PROVE run'[r].status \in Terminal
  <2>1. pc[p] = "step"
    BY <1>2 DEF Advance, StepTimeout, StepSkip, StepOnError, StepAsk, StepFail,
       StepComplete, StepLimit, AtStep, Executing
  <2>2. job[p].run # r
    BY <1>0, <2>1 DEF RunHeld
  <2>3. run' = run \/ \E row : run' = [run EXCEPT ![job[p].run] = row]
    BY <1>2 DEF Advance, StepTimeout, StepSkip, StepOnError, StepAsk, StepFail,
       StepComplete, StepLimit, Iterate, Commit, rows
  <2> QED
    BY <1>0, <2>2, <2>3
<1>3. ASSUME NEW p \in Procs, CancelWrite(p) PROVE run'[r].status \in Terminal
  BY <1>0, <1>3 DEF CancelWrite, Row, Terminal
<1>4. ASSUME NEW p \in Procs,
             AdvanceAfterCommit(p) \/ SweepLock(p) \/ DeadlockVictim(p) \/ Crash(p)
      PROVE  run'[r].status \in Terminal
  BY <1>4 DEF AdvanceAfterCommit, SweepLock, DeadlockVictim, Crash, Begin, rows
<1>5. ASSUME NEW p \in Procs,
             \/ \E m \in Msgs : ClaimStart(p, m)
             \/ \E q \in Runs : SweepStart(p, q) \/ Enroll(p, q) \/ CancelRead(p, q)
      PROVE  run'[r].status \in Terminal
  BY <1>5 DEF ClaimStart, SweepStart, Enroll, CancelRead, Begin, rows
<1>6. ASSUME NEW q \in Runs, SendFailed(q) \/ Tick(q) PROVE run'[r].status \in Terminal
  BY <1>0, <1>6 DEF SendFailed, Tick, Row, Terminal
<1>7. CASE UNCHANGED vars
  BY <1>7 DEF vars
<1> QED
  BY <1>1, <1>2, <1>3, <1>4, <1>5, <1>6, <1>7 DEF Next, Work

\* A run that ended never runs or waits again, whichever stale worker, late
\* answer or sweep comes after the end.
THEOREM EndIsFinal == Spec => EndedStaysEnded
<1>1. HInv /\ [Next]_vars
        => [\A r \in Runs : run[r].status \in Terminal => run'[r].status \in Terminal]_vars
  BY EndedStep
<1> QED
  BY <1>1, HInvHolds, PTL DEF Spec, EndedStaysEnded

-----------------------------------------------------------------------------
(* The question a run waits on can be answered, and answers and           *)
(* transitions agree. Both rest on what an advance may have written       *)
(* before it commits.                                                     *)

Left(exits, s) == \E e \in exits : e.step = s
Asked(r, s) == inter[<<r, s>>].born > 0

\* A run has asked only what it has done; a question it has asked and not left
\* is the one it waits on, unless it ended; and that one is open.
QuestionOK(r) == \A s \in Steps :
    /\ Asked(r, s) => s \in run[r].done
    /\ Asked(r, s) /\ run[r].status \notin Terminal /\ ~Left(run[r].exits, s)
          => run[r].status = "waiting" /\ run[r].step = s
    /\ run[r].status = "waiting" /\ run[r].step = s
          => Asked(r, s) /\ inter[<<r, s>>].status = "open"

\* An answer moved its run, or was counted as wrong.
AnswerOK(a) == /\ Asked(a[2][1], a[2][2])
               /\ \/ [step |-> a[2][2], by |-> a[1]] \in run[a[2][1]].exits
                  \/ inter[a[2]].bad > 0

\* What an advance has written: it leaves one question at most, the one its run
\* waits on, because of the answer or of the deadline.
WritesOK(p, r) == \A i \in Inters : mem[p].inter[i] # None =>
    i[1] = r /\ mem[p].inter[i].born = inter[i].born /\ mem[p].inter[i].bad = inter[i].bad
NotMoved(p, old, new) ==
    /\ new.exits = old.exits /\ mem[p].ans = {}
    /\ new.status = "active" => old.status # "waiting"
    /\ new.status = "waiting" => /\ old.status = "waiting" /\ new.step = old.step
                                 /\ \A i \in Inters : mem[p].inter[i] = None
MovedBy(p, r, old, new, by) ==
    /\ old.status = "waiting" /\ new.status = "active"
    /\ new.exits = old.exits \cup {[step |-> old.step, by |-> by]}
    /\ mem[p].ans = IF by = Timeout THEN {} ELSE {<<by, <<r, old.step>>>>}
TxOK(p) == pc[p] = "step" =>
    LET r == job[p].run
        old == run[r]
        new == mem[p].run
    IN /\ WritesOK(p, r)
       /\ old.done \subseteq new.done /\ new.status \in Live
       /\ NotMoved(p, old, new) \/ \E by \in Msgs \cup {Timeout} : MovedBy(p, r, old, new, by)

\* A run that is not there has no history.
NewOK(r) == run[r].status = "absent" => run[r].exits = {} /\ run[r].done = {}

QInv == /\ \A r \in Runs : QuestionOK(r) /\ NewOK(r)
        /\ \A a \in answers : AnswerOK(a)
        /\ \A p \in Procs : TxOK(p)

LEMMA InitQInv == Init => QInv
BY DEF Init, QInv, QuestionOK, Asked, NewOK, TxOK, NoRow, NoInter, Inters

-----------------------------------------------------------------------------
(* What a step must respect.                                               *)

RunSame(r) ==
    /\ run'[r].status = run[r].status /\ run'[r].step = run[r].step
    /\ run'[r].exits = run[r].exits /\ run'[r].done = run[r].done
    /\ \A s \in Steps : /\ inter'[<<r, s>>].born = inter[<<r, s>>].born
                         /\ inter'[<<r, s>>].bad = inter[<<r, s>>].bad

\* S takes a step: no process, or one; the others hold on to their runs.
StepOf(S) ==
    /\ \A q \in Procs \ S : pc'[q] = pc[q] /\ job'[q] = job[q] /\ mem'[q] = mem[q]
    /\ \A r \in Runs : runLock[r] \in {None} \cup S \/ RunSame(r)

LEMMA StepKeepsQInv ==
    ASSUME HInv, QInv, NEW S, StepOf(S), \A p \in Procs \cap S : TxOK(p)',
           \A r \in Runs : QuestionOK(r)' /\ NewOK(r)', \A a \in answers' : AnswerOK(a)'
    PROVE  QInv'
<1>1. ASSUME NEW q \in Procs \ S, pc[q] = "step" PROVE TxOK(q)'
  <2>1. PICK r \in Runs : r = job[q].run /\ runLock[r] = q /\ q # None
    BY <1>1, BoundAssumption DEF HInv, Inv, JobOK, ProcHeld, RunHeld
  <2>2. pc'[q] = pc[q] /\ job'[q] = job[q] /\ mem'[q] = mem[q] /\ RunSame(r)
    BY <2>1 DEF StepOf
  <2>3. TxOK(q)
    BY DEF QInv
  <2>4. WritesOK(q, r)'
    <3>1. ASSUME NEW i \in Inters, mem[q].inter[i] # None
          PROVE  i[1] = r /\ mem[q].inter[i].born = inter'[i].born /\ mem[q].inter[i].bad = inter'[i].bad
      <4>1. i[1] = r /\ mem[q].inter[i].born = inter[i].born /\ mem[q].inter[i].bad = inter[i].bad
        BY <1>1, <2>1, <2>3, <3>1 DEF TxOK, WritesOK
      <4>2. i = <<r, i[2]>> /\ i[2] \in Steps
        BY <4>1 DEF Inters
      <4> QED BY <2>2, <4>1, <4>2 DEF RunSame
    <3> QED BY <2>2, <3>1 DEF WritesOK
  <2>5. run[r].done \subseteq mem[q].run.done /\ mem[q].run.status \in Live
        /\ (NotMoved(q, run[r], mem[q].run)
            \/ \E by \in Msgs \cup {Timeout} : MovedBy(q, r, run[r], mem[q].run, by))
    BY <1>1, <2>1, <2>3 DEF TxOK
  <2>6. NotMoved(q, run[r], mem[q].run) => NotMoved(q, run[r], mem[q].run)'
    BY <2>2 DEF NotMoved, RunSame
  <2>7. ASSUME NEW by, MovedBy(q, r, run[r], mem[q].run, by) PROVE MovedBy(q, r, run[r], mem[q].run, by)'
    BY <2>2, <2>7 DEF MovedBy, RunSame
  <2>8. /\ WritesOK(q, r)' /\ run'[r].done \subseteq mem'[q].run.done /\ mem'[q].run.status \in Live
        /\ (NotMoved(q, run[r], mem[q].run)'
            \/ \E by \in Msgs \cup {Timeout} : MovedBy(q, r, run[r], mem[q].run, by)')
    BY <2>2, <2>4, <2>5, <2>6, <2>7 DEF RunSame
  <2> QED BY <2>1, <2>2, <2>8 DEF TxOK
<1>2. ASSUME NEW q \in Procs \ S, pc[q] # "step" PROVE TxOK(q)'
  BY <1>2 DEF StepOf, TxOK
<1> QED BY <1>1, <1>2 DEF QInv

\* The rows are as before.
LEMMA QuietKeepsQInv ==
    ASSUME HInv, QInv, NEW p \in Procs, OthersKept(p), UNCHANGED <<run, inter, answers>>, TxOK(p)'
    PROVE  QInv'
<1>1. StepOf({p}) /\ \A q \in Procs \cap {p} : TxOK(q)'
  BY DEF StepOf, RunSame, OthersKept
<1>2. \A r \in Runs : QuestionOK(r)' /\ NewOK(r)'
  BY DEF QInv, QuestionOK, NewOK, Asked
<1>3. \A a \in answers' : AnswerOK(a)'
  BY DEF QInv, AnswerOK, Asked
<1> QED BY <1>1, <1>2, <1>3, StepKeepsQInv

LEMMA IdleTx == ASSUME NEW p \in Procs, pc'[p] # "step" PROVE TxOK(p)'
BY DEF TxOK

LEMMA FinishTx ==
    ASSUME Inv, NEW p \in Procs, Finish(p)
    PROVE  OthersKept(p) /\ pc'[p] = "idle" /\ TxOK(p)'
<1>1. pc'[p] = "idle"
  BY DEF Finish, Inv, TypeOK, TypeProcs
<1> QED BY <1>1, FinishKept, IdleTx

\* Answers stay right when runs only leave questions, and wrong answers only add up.
LEMMA AnswersStay ==
    ASSUME Inv, QInv, \A r \in Runs : run[r].exits \subseteq run'[r].exits,
           \A i \in Inters : /\ inter[i].born > 0 => inter'[i].born > 0
                             /\ inter[i].born > 0 /\ inter[i].bad > 0 => inter'[i].bad > 0
    PROVE  \A a \in answers : AnswerOK(a)'
<1> SUFFICES ASSUME NEW a \in answers PROVE AnswerOK(a)'
  OBVIOUS
<1>1. AnswerOK(a) /\ a[2] \in Inters /\ a[2] = <<a[2][1], a[2][2]>> /\ a[2][1] \in Runs
  BY DEF QInv, Inv, TypeOK, TypeRows, Inters
<1> QED BY <1>1 DEF AnswerOK, Asked

-----------------------------------------------------------------------------
(* The building blocks of the actions.                                     *)

LEMMA BeginKeepsQInv ==
    ASSUME HInv, QInv, NEW p \in Procs, NEW r \in Runs, NEW row \in Row,
           row.exits = run[r].exits, row.done = run[r].done,
           \/ row.status = "active" /\ run[r].status # "waiting"
           \/ row.status = "waiting" /\ row = run[r],
           runLock[r] = None, Begin(p, r, row)
    PROVE  QInv'
<1>1. /\ pc'[p] = "step" /\ job'[p].run = r /\ mem'[p].run = row /\ mem'[p].ans = {}
      /\ \A i \in Inters : mem'[p].inter[i] = None
      /\ UNCHANGED <<run, inter, answers>>
  BY NoMemOK DEF Begin, rows, HInv, Inv, TypeOK, TypeProcs, Tx, NoMem, NoJob
<1>2. NotMoved(p, run[r], mem[p].run)' /\ WritesOK(p, r)'
  BY <1>1 DEF NotMoved, WritesOK
<1>3. TxOK(p)'
  BY <1>1, <1>2 DEF TxOK, Live
<1>4. OthersKept(p)
  BY DEF OthersKept, Begin, HInv, Inv, TypeOK, TypeProcs, TypeLocks
<1> QED BY <1>1, <1>3, <1>4, QuietKeepsQInv

\* One iteration of an advance, with the deadline or without.
LEMMA IterateKeepsQInv ==
    ASSUME HInv, QInv, NEW p \in Procs, pc[p] = "step", NEW row, NEW writes, Iterate(p, row, writes),
           \A i \in Inters : writes[i] # None =>
               i[1] = job[p].run /\ writes[i].born = inter[i].born /\ writes[i].bad = inter[i].bad,
           mem[p].run.done \subseteq row.done, row.status = "active",
           \/ mem[p].run.status = "active" /\ row.exits = mem[p].run.exits
           \/ /\ mem[p].run.status = "waiting"
              /\ row.exits = mem[p].run.exits \cup {[step |-> mem[p].run.step, by |-> Timeout]}
    PROVE  QInv'
<1> DEFINE r == job[p].run
           old == run[r]
           new == mem[p].run
<1>1. /\ UNCHANGED <<run, inter, answers, convLock, runLock, pc, job>>
      /\ mem'[p].run = row /\ mem'[p].ans = mem[p].ans /\ mem'[p].inter = writes
      /\ \A q \in Procs \ {p} : mem'[q] = mem[q]
  <2>1. mem \in [Procs -> Tx] /\ mem[p] \in Tx
    BY DEF HInv, Inv, TypeOK, TypeProcs
  <2>2. mem' = [mem EXCEPT ![p] = [mem[p] EXCEPT !.run = row, !.inter = writes, !.fuel = @ - 1]]
    BY <2>1 DEF Iterate, Tx
  <2> QED BY <2>1, <2>2 DEF Iterate, rows, Tx
<1>2. /\ old.done \subseteq row.done
      /\ NotMoved(p, old, new) \/ \E by \in Msgs \cup {Timeout} : MovedBy(p, r, old, new, by)
  BY DEF QInv, TxOK
<1>3. WritesOK(p, r)'
  BY <1>1 DEF WritesOK
<1>4. \/ NotMoved(p, run[r], mem[p].run)'
      \/ \E by \in Msgs \cup {Timeout} : MovedBy(p, r, run[r], mem[p].run, by)'
  <2>1. CASE new.status = "active" /\ row.exits = new.exits
    <3>1. NotMoved(p, old, new) => NotMoved(p, run[r], mem[p].run)'
      BY <1>1, <2>1 DEF NotMoved
    <3>2. \A by : MovedBy(p, r, old, new, by) => MovedBy(p, r, run[r], mem[p].run, by)'
      BY <1>1, <2>1 DEF MovedBy
    <3> QED BY <1>2, <3>1, <3>2
  <2>2. CASE new.status = "waiting" /\ row.exits = new.exits \cup {[step |-> new.step, by |-> Timeout]}
    <3>1. NotMoved(p, old, new)
      BY <1>2, <2>2 DEF MovedBy
    <3>2. MovedBy(p, r, run[r], mem[p].run, Timeout)'
      BY <1>1, <2>2, <3>1 DEF MovedBy, NotMoved
    <3> QED BY <3>2
  <2> QED BY <2>1, <2>2
<1>5. TxOK(p)'
  BY <1>1, <1>2, <1>3, <1>4 DEF TxOK, Live
<1> QED BY <1>1, <1>5, QuietKeepsQInv DEF OthersKept

\* What an advance knows of its run.
LEMMA TxKnows ==
    ASSUME HInv, QInv, NEW p \in Procs, pc[p] = "step", NEW r \in Runs, r = job[p].run
    PROVE  /\ run[r] \in Row /\ mem[p].run \in Row /\ runLock[r] = p /\ run[r].status \notin Terminal
           /\ run[r].exits \subseteq mem[p].run.exits /\ run[r].done \subseteq mem[p].run.done
           /\ run[r].status = "waiting" => run[r].step \in Steps
           /\ \A a \in mem[p].ans : /\ a[2] \in Inters /\ a[2][1] = r /\ Asked(a[2][1], a[2][2])
                                    /\ [step |-> a[2][2], by |-> a[1]] \in mem[p].run.exits
           /\ mem[p].run.status = "active" => \A s \in Steps : Asked(r, s) => Left(mem[p].run.exits, s)
<1>1. /\ run[r] \in Row /\ mem[p].run \in Row /\ runLock[r] = p /\ run[r].status \notin Terminal
      /\ RowOK(run[r]) /\ QuestionOK(r) /\ TxOK(p)
  BY DEF HInv, Inv, TypeOK, TypeRows, TypeProcs, Tx, RowsOK, ProcHeld, RunHeld, QInv
<1>2. run[r].status = "waiting" => run[r].step \in Steps
  BY <1>1 DEF RowOK, Row
<1>3. CASE NotMoved(p, run[r], mem[p].run)
  BY <1>1, <1>2, <1>3 DEF NotMoved, TxOK, QuestionOK
<1>4. ASSUME NEW by \in Msgs \cup {Timeout}, MovedBy(p, r, run[r], mem[p].run, by)
      PROVE  /\ run[r].exits \subseteq mem[p].run.exits
             /\ \A a \in mem[p].ans : /\ a[2] \in Inters /\ a[2][1] = r /\ Asked(a[2][1], a[2][2])
                                      /\ [step |-> a[2][2], by |-> a[1]] \in mem[p].run.exits
             /\ \A s \in Steps : Asked(r, s) => Left(mem[p].run.exits, s)
  <2> DEFINE exit == [step |-> run[r].step, by |-> by]
  <2>1. /\ run[r].status = "waiting" /\ run[r].step \in Steps /\ Asked(r, run[r].step)
        /\ mem[p].run.exits = run[r].exits \cup {exit}
        /\ mem[p].ans \subseteq {<<by, <<r, run[r].step>>>>}
    BY <1>1, <1>2, <1>4 DEF MovedBy, QuestionOK
  <2>2. ASSUME NEW a \in mem[p].ans
        PROVE  /\ a[2] \in Inters /\ a[2][1] = r /\ Asked(a[2][1], a[2][2])
               /\ [step |-> a[2][2], by |-> a[1]] \in mem[p].run.exits
    <3>1. a = <<by, <<r, run[r].step>>>>
      BY <2>1
    <3>2. a[1] = by /\ a[2] = <<r, run[r].step>> /\ a[2][1] = r /\ a[2][2] = run[r].step
      BY <3>1
    <3> QED BY <2>1, <3>2 DEF Inters
  <2>3. ASSUME NEW s \in Steps, Asked(r, s) PROVE Left(mem[p].run.exits, s)
    <3>1. CASE s = run[r].step
      <4>1. exit \in mem[p].run.exits /\ exit.step = run[r].step
        BY <2>1
      <4> QED BY <3>1, <4>1 DEF Left
    <3>2. CASE s # run[r].step
      BY <1>1, <2>1, <2>3, <3>2 DEF Left, QuestionOK
    <3> QED BY <3>1, <3>2
  <2> QED BY <2>1, <2>2, <2>3
<1>5. run[r].done \subseteq mem[p].run.done
  BY <1>1 DEF TxOK
<1> QED BY <1>1, <1>2, <1>3, <1>4, <1>5 DEF TxOK

LEMMA CommitWrites ==
    ASSUME HInv, NEW p \in Procs, pc[p] = "step", NEW row, NEW writes, Commit(p, row, writes),
           NEW r \in Runs, r = job[p].run
    PROVE  /\ \A x \in Runs : run'[x] = IF x = r THEN row ELSE run[x]
           /\ \A i \in Inters : inter'[i] = IF writes[i] # None THEN writes[i] ELSE inter[i]
           /\ answers' = answers \cup mem[p].ans
           /\ OthersKept(p) /\ TxOK(p)'
BY FinishTx DEF Commit, HInv, Inv, TypeOK, TypeRows

\* The run ends, or rests where it is.
LEMMA RestKeepsQInv ==
    ASSUME HInv, QInv, NEW p \in Procs, pc[p] = "step", NEW row \in Row, NEW writes, Commit(p, row, writes),
           \A i \in Inters : writes[i] # None =>
               i[1] = job[p].run /\ writes[i].born = inter[i].born /\ writes[i].bad = inter[i].bad,
           row.exits = mem[p].run.exits, mem[p].run.done \subseteq row.done,
           \/ row.status \in Terminal
           \/ row = mem[p].run /\ writes = mem[p].inter
    PROVE  QInv'
<1>0. PICK r \in Runs : r = job[p].run
  BY DEF HInv, Inv, JobOK
<1>1. /\ \A x \in Runs : run'[x] = IF x = r THEN row ELSE run[x]
      /\ \A i \in Inters : inter'[i] = IF writes[i] # None THEN writes[i] ELSE inter[i]
      /\ answers' = answers \cup mem[p].ans
      /\ OthersKept(p) /\ TxOK(p)'
  BY <1>0, CommitWrites
<1>2. /\ run[r] \in Row /\ mem[p].run \in Row /\ runLock[r] = p /\ run[r].status \notin Terminal
      /\ run[r].exits \subseteq mem[p].run.exits /\ run[r].done \subseteq mem[p].run.done
      /\ run[r].status = "waiting" => run[r].step \in Steps
      /\ \A a \in mem[p].ans : /\ a[2] \in Inters /\ a[2][1] = r /\ Asked(a[2][1], a[2][2])
                               /\ [step |-> a[2][2], by |-> a[1]] \in mem[p].run.exits
      /\ mem[p].run.status = "active" => \A s \in Steps : Asked(r, s) => Left(mem[p].run.exits, s)
  BY <1>0, TxKnows
<1>3. \A i \in Inters : /\ inter'[i].born = inter[i].born /\ inter'[i].bad = inter[i].bad
                        /\ i[1] # r => inter'[i] = inter[i]
  BY <1>0, <1>1
<1>4. \A x \in Runs, s \in Steps : <<x, s>> \in Inters /\ <<x, s>>[1] = x /\ (Asked(x, s)' <=> Asked(x, s))
  BY <1>3 DEF Inters, Asked
<1>5. StepOf({p}) /\ \A q \in Procs \cap {p} : TxOK(q)'
  BY <1>1, <1>2, <1>3, <1>4 DEF StepOf, RunSame, OthersKept
<1>6. ASSUME NEW x \in Runs PROVE QuestionOK(x)' /\ NewOK(x)'
  <2>1. CASE x # r
    BY <1>1, <1>3, <1>4, <2>1 DEF QInv, QuestionOK, NewOK, Asked
  <2>2. CASE x = r
    <3>1. row.status # "absent" /\ run'[r] = row
      BY <1>0, <1>1 DEF QInv, TxOK, Live, Terminal
    <3>2. \A s \in Steps : Asked(r, s)' => s \in row.done
      BY <1>2, <1>4 DEF QInv, QuestionOK
    <3>3. CASE row.status \in Terminal
      BY <2>2, <3>1, <3>2, <3>3 DEF QuestionOK, NewOK, Terminal
    <3>4. CASE row = mem[p].run /\ writes = mem[p].inter /\ row.status = "active"
      BY <1>2, <1>4, <2>2, <3>1, <3>2, <3>4 DEF QuestionOK, NewOK
    <3>5. CASE row = mem[p].run /\ writes = mem[p].inter /\ row.status = "waiting"
      <4>1. NotMoved(p, run[r], mem[p].run)
        BY <1>0, <3>5 DEF QInv, TxOK, MovedBy
      <4>2. /\ run[r].status = "waiting" /\ row.step = run[r].step /\ row.exits = run[r].exits
            /\ \A i \in Inters : inter'[i] = inter[i]
        BY <1>1, <3>5, <4>1 DEF NotMoved
      <4>3. QuestionOK(r)
        BY DEF QInv
      <4>4. \A s \in Steps : inter'[<<r, s>>] = inter[<<r, s>>] /\ (Asked(r, s)' <=> Asked(r, s))
        BY <1>4, <4>2
      <4>5. run'[r].status = run[r].status /\ run'[r].step = run[r].step /\ run'[r].exits = run[r].exits
        BY <3>1, <3>5, <4>2
      <4> QED BY <2>2, <3>1, <3>2, <4>2, <4>3, <4>4, <4>5 DEF QuestionOK, NewOK
    <3> QED BY <1>0, <3>3, <3>4, <3>5 DEF QInv, TxOK, Live
  <2> QED BY <2>1, <2>2
<1>7. \A a \in answers' : AnswerOK(a)'
  <2>1. \A x \in Runs : run[x].exits \subseteq run'[x].exits
    BY <1>1, <1>2
  <2>2. \A a \in answers : AnswerOK(a)'
    BY <1>3, <2>1, AnswersStay DEF HInv
  <2>3. ASSUME NEW a \in mem[p].ans PROVE AnswerOK(a)'
    <3>1. a[2][2] \in Steps /\ Asked(a[2][1], a[2][2])' /\ run'[a[2][1]] = row
      BY <1>1, <1>2, <1>4 DEF Inters
    <3> QED BY <1>2, <3>1 DEF AnswerOK
  <2> QED BY <1>1, <2>2, <2>3
<1> QED BY <1>5, <1>6, <1>7, StepKeepsQInv

\* The run asks its next question.
LEMMA AskEffect ==
    ASSUME HInv, QInv, NEW p \in Procs, StepAsk(p)
    PROVE  \E r \in Runs, n \in Steps :
      /\ r = job[p].run /\ pc[p] = "step" /\ mem[p].run.status = "active"
      /\ ~Asked(r, n) /\ inter'[<<r, n>>].born > 0 /\ inter'[<<r, n>>].status = "open"
      /\ run'[r].status = "waiting" /\ run'[r].step = n
      /\ run'[r].exits = mem[p].run.exits /\ run'[r].done = mem[p].run.done \cup {n}
      /\ \A x \in Runs \ {r} : run'[x] = run[x]
      /\ \A i \in Inters \ {<<r, n>>} : /\ inter'[i].born = inter[i].born /\ inter'[i].bad = inter[i].bad
                                        /\ i[1] # r => inter'[i] = inter[i]
      /\ answers' = answers \cup mem[p].ans /\ OthersKept(p) /\ TxOK(p)'
<1>0. PICK r \in Runs, n \in Steps : r = job[p].run /\ n = mem[p].run.step /\ pc[p] = "step"
  BY DEF HInv, Inv, JobOK, StepAsk, Executing, AtStep
<1> DEFINE old == mem[p].run
           row == [old EXCEPT !.status = "waiting", !.due = "later", !.done = @ \cup {old.step}]
           age == Cardinality({j \in Inters : inter[j].born > 0})
           asked == [status |-> "open", bad |-> 0, born |-> age + 1]
           writes == [mem[p].inter EXCEPT ![<<r, n>>] = asked]
<1>1. /\ n = old.step /\ n \in Steps \ old.done /\ old.status = "active" /\ Commit(p, row, writes)
      /\ <<r, n>> \in Inters /\ mem[p].inter \in [Inters -> Interaction \cup {None}]
  BY <1>0 DEF StepAsk, Executing, Inters, HInv, Inv, TypeOK, TypeProcs, Tx
<1>2. asked.born > 0 /\ asked.status = "open" /\ asked # None
  <2>1. IsFiniteSet({j \in Inters : inter[j].born > 0})
    BY MessageAssumption, FS_Subset
  <2>2. age \in Nat
    BY <2>1, FS_CardinalityType
  <2>3. asked \in Interaction
    BY <2>2 DEF Interaction
  <2>4. asked.born = age + 1 /\ age + 1 > 0 /\ asked.status = "open"
    BY <2>2
  <2> HIDE DEF asked
  <2> QED BY <2>3, <2>4, MessageAssumption
<1>3. /\ \A x \in Runs : run'[x] = IF x = r THEN row ELSE run[x]
      /\ \A i \in Inters : inter'[i] = IF writes[i] # None THEN writes[i] ELSE inter[i]
      /\ answers' = answers \cup mem[p].ans
      /\ OthersKept(p) /\ TxOK(p)'
  <2> HIDE DEF row, writes
  <2> QED BY <1>0, <1>1, CommitWrites
<1>4. /\ row.status = "waiting" /\ row.step = n /\ row.exits = old.exits /\ row.done = old.done \cup {n}
      /\ run[r].done \subseteq old.done
  BY <1>0, <1>1, TxKnows DEF Row
<1>5. ~Asked(r, n)
  BY <1>1, <1>4 DEF QInv, QuestionOK
<1> HIDE DEF asked, row, age
<1>6. /\ inter'[<<r, n>>] = asked
      /\ \A i \in Inters \ {<<r, n>>} : /\ inter'[i].born = inter[i].born /\ inter'[i].bad = inter[i].bad
                                        /\ i[1] # r => inter'[i] = inter[i]
  <2>1. \A i \in Inters \ {<<r, n>>} : writes[i] = mem[p].inter[i]
    BY <1>1
  <2>2. writes[<<r, n>>] = asked
    BY <1>1
  <2>3. WritesOK(p, r)
    BY <1>0 DEF QInv, TxOK
  <2> HIDE DEF writes
  <2> QED BY <1>1, <1>2, <1>3, <2>1, <2>2, <2>3 DEF WritesOK
<1> QED BY <1>0, <1>1, <1>2, <1>3, <1>4, <1>5, <1>6

LEMMA AskKeepsQInv ==
    ASSUME HInv, QInv, NEW p \in Procs, StepAsk(p)
    PROVE  QInv'
<1>1. PICK r \in Runs, n \in Steps :
      /\ r = job[p].run /\ pc[p] = "step" /\ mem[p].run.status = "active"
      /\ ~Asked(r, n) /\ inter'[<<r, n>>].born > 0 /\ inter'[<<r, n>>].status = "open"
      /\ run'[r].status = "waiting" /\ run'[r].step = n
      /\ run'[r].exits = mem[p].run.exits /\ run'[r].done = mem[p].run.done \cup {n}
      /\ \A x \in Runs \ {r} : run'[x] = run[x]
      /\ \A i \in Inters \ {<<r, n>>} : /\ inter'[i].born = inter[i].born /\ inter'[i].bad = inter[i].bad
                                        /\ i[1] # r => inter'[i] = inter[i]
      /\ answers' = answers \cup mem[p].ans /\ OthersKept(p) /\ TxOK(p)'
  BY AskEffect
<1> DEFINE old == mem[p].run
<1>2. /\ runLock[r] = p /\ run[r].exits \subseteq old.exits /\ run[r].done \subseteq old.done
      /\ \A a \in mem[p].ans : /\ a[2] \in Inters /\ a[2][1] = r /\ Asked(a[2][1], a[2][2])
                               /\ [step |-> a[2][2], by |-> a[1]] \in old.exits
      /\ \A s \in Steps : Asked(r, s) => Left(old.exits, s)
  BY <1>1, TxKnows
<1>3. \A x \in Runs, s \in Steps :
          /\ <<x, s>> \in Inters /\ <<x, s>>[1] = x
          /\ x # r \/ s # n => <<x, s>> # <<r, n>> /\ (Asked(x, s)' <=> Asked(x, s))
  BY <1>1 DEF Inters, Asked
<1>4. StepOf({p}) /\ \A q \in Procs \cap {p} : TxOK(q)'
  BY <1>1, <1>2, <1>3 DEF StepOf, RunSame, OthersKept
<1>5. ASSUME NEW x \in Runs PROVE QuestionOK(x)' /\ NewOK(x)'
  <2>1. CASE x # r
    BY <1>1, <1>3, <2>1 DEF QInv, QuestionOK, NewOK, Asked
  <2>2. CASE x = r
    <3>1. Asked(r, n)'
      BY <1>1 DEF Asked
    <3>2. ASSUME NEW s \in Steps, Asked(r, s)' PROVE s \in run'[r].done
      BY <1>1, <1>2, <1>3, <3>2 DEF QInv, QuestionOK
    <3>3. ASSUME NEW s \in Steps, Asked(r, s)', ~Left(run'[r].exits, s) PROVE s = n
      BY <1>1, <1>2, <1>3, <3>3
    <3> QED BY <1>1, <2>2, <3>1, <3>2, <3>3 DEF QuestionOK, NewOK
  <2> QED BY <2>1, <2>2
<1>6. \A a \in answers' : AnswerOK(a)'
  <2>1. \A x \in Runs : run[x].exits \subseteq run'[x].exits
    BY <1>1, <1>2
  <2>2. \A i \in Inters : /\ inter[i].born > 0 => inter'[i].born > 0
                          /\ inter[i].born > 0 /\ inter[i].bad > 0 => inter'[i].bad > 0
    BY <1>1 DEF Asked
  <2>3. \A a \in answers : AnswerOK(a)'
    BY <2>1, <2>2, AnswersStay DEF HInv
  <2>4. ASSUME NEW a \in mem[p].ans PROVE AnswerOK(a)'
    <3>1. a[2][2] \in Steps /\ Asked(a[2][1], a[2][2])' /\ a[2][1] = r
      BY <1>1, <1>2, <1>3 DEF Inters
    <3> QED BY <1>1, <1>2, <3>1 DEF AnswerOK
  <2> QED BY <1>1, <2>3, <2>4
<1> QED BY <1>4, <1>5, <1>6, StepKeepsQInv

-----------------------------------------------------------------------------
(* One lemma per group of actions.                                         *)

\* An answer moves its run or counts as wrong.
LEMMA AnswerShape ==
    ASSUME NEW row \in Row, NEW rec \in Interaction, NEW s \in Steps, NEW m \in Msgs,
           NEW e \in AnswerEffects(row, rec, s, m)
    PROVE  /\ e[2].born = rec.born /\ e[1].done = row.done
           /\ \/ /\ e[1].status = "active" /\ e[2].bad = rec.bad
                 /\ e[1].exits = row.exits \cup {[step |-> s, by |-> m]}
              \/ /\ e[1].status = row.status /\ e[1].step = row.step /\ e[1].exits = row.exits
                 /\ e[2].status = rec.status /\ e[2].bad = rec.bad + 1
<1> DEFINE answered == [rec EXCEPT !.status = "answered"]
<1>1. CASE \E to : e = <<Moved(row, s, to, m), answered>>
  <2>1. PICK to : e[1] = Moved(row, s, to, m) /\ e[2] = answered
    BY <1>1
  <2>2. /\ e[1].status = "active" /\ e[1].done = row.done
        /\ e[1].exits = row.exits \cup {[step |-> s, by |-> m]}
    BY <2>1 DEF Moved, Row
  <2>3. e[2].born = rec.born /\ e[2].bad = rec.bad
    BY <2>1 DEF Interaction
  <2> QED BY <2>2, <2>3
<1>2. CASE e = <<[row EXCEPT !.due = "later"], [rec EXCEPT !.bad = @ + 1]>>
  <2>1. e[1] = [row EXCEPT !.due = "later"] /\ e[2] = [rec EXCEPT !.bad = @ + 1]
    BY <1>2
  <2> QED BY <2>1 DEF Row, Interaction
<1> QED BY <1>1, <1>2 DEF AnswerEffects, Reprompt

LEMMA ClaimCommitKeepsQInv ==
    ASSUME HInv, QInv, NEW p \in Procs, ClaimCommit(p)
    PROVE  QInv'
<1>0. PICK m \in Msgs, r \in Runs, s \in Steps : m = job[p].msg /\ r = job[p].run /\ s = job[p].step
  BY DEF ClaimCommit, HInv, Inv, JobOK
<1>1. /\ <<r, s>> \in Inters /\ run[r] \in Row /\ inter[<<r, s>>] \in Interaction
      /\ run[r].status = "waiting" /\ run[r].step = s /\ runLock[r] = None
      /\ QuestionOK(r) /\ Asked(r, s)
  BY <1>0 DEF ClaimCommit, WaitsOn, HInv, Inv, TypeOK, TypeRows, Inters, QInv, QuestionOK
<1>2. PICK e \in AnswerEffects(run[r], inter[<<r, s>>], s, m) :
        IF OuterTx /\ e[1].status = "active"
        THEN /\ runLock' = [runLock EXCEPT ![r] = p]
             /\ mem' = [mem EXCEPT ![p] =
                         [run |-> [e[1] EXCEPT !.due = "none"],
                          inter |-> [NoMem.inter EXCEPT ![<<r, s>>] = e[2]],
                          ans |-> {<<m, <<r, s>>>>}, fuel |-> MaxSteps]]
             /\ pc' = [pc EXCEPT ![p] = "step"]
             /\ UNCHANGED <<rows, convLock, intLock, job, outcome>>
        ELSE /\ run' = [run EXCEPT ![r] = e[1]]
             /\ inter' = [inter EXCEPT ![<<r, s>>] = e[2]]
             /\ answers' = answers \cup {<<m, <<r, s>>>>}
             /\ outcome' = [outcome EXCEPT ![m] = @ \cup {"claimed"}]
             /\ convLock' = Freed(convLock, p)
             /\ intLock' = Freed(intLock, p)
             /\ pc' = [pc EXCEPT ![p] = "advance"]
             /\ job' = [job EXCEPT ![p] = [NoJob EXCEPT !.run = r]]
             /\ UNCHANGED <<runLock, mem>>
  BY <1>0 DEF ClaimCommit
<1> DEFINE exit == [step |-> s, by |-> m]
<1>3. /\ e[2].born = inter[<<r, s>>].born /\ e[1].done = run[r].done
      /\ \/ /\ e[1].status = "active" /\ e[2].bad = inter[<<r, s>>].bad
            /\ e[1].exits = run[r].exits \cup {exit}
         \/ /\ e[1].status = "waiting" /\ e[1].step = s /\ e[1].exits = run[r].exits
            /\ e[2].status = inter[<<r, s>>].status /\ e[2].bad = inter[<<r, s>>].bad + 1
  BY <1>1, AnswerShape
<1>4. e[1] \in Row /\ e[2] \in Interaction
  BY <1>1, AnswerEffectsOK DEF HInv, Inv, RowsOK
<1>5. CASE OuterTx /\ e[1].status = "active"
  <2>1. /\ pc'[p] = "step" /\ job' = job /\ UNCHANGED <<run, inter, answers>>
        /\ mem'[p].run = [e[1] EXCEPT !.due = "none"] /\ mem'[p].ans = {<<m, <<r, s>>>>}
        /\ mem'[p].inter = [NoMem.inter EXCEPT ![<<r, s>>] = e[2]]
    BY <1>2, <1>5 DEF rows, HInv, Inv, TypeOK, TypeProcs
  <2>2. /\ mem'[p].run.exits = run[r].exits \cup {exit} /\ mem'[p].run.status = "active"
        /\ mem'[p].run.done = run[r].done
    BY <1>3, <1>4, <1>5, <2>1 DEF Row
  <2>3. \A i \in Inters : mem'[p].inter[i] # None => i = <<r, s>> /\ mem'[p].inter[i] = e[2]
    BY <1>1, <2>1 DEF NoMem
  <2>4. WritesOK(p, r)'
    <3>1. ASSUME NEW i \in Inters, mem'[p].inter[i] # None
          PROVE  i[1] = r /\ mem'[p].inter[i].born = inter'[i].born /\ mem'[p].inter[i].bad = inter'[i].bad
      <4>1. i = <<r, s>> /\ mem'[p].inter[i] = e[2] /\ inter'[i] = inter[<<r, s>>]
        BY <2>1, <2>3, <3>1
      <4>2. e[2].bad = inter[<<r, s>>].bad
        BY <1>1, <1>3, <1>5
      <4> QED BY <1>3, <4>1, <4>2
    <3> QED BY <3>1 DEF WritesOK
  <2>5. MovedBy(p, r, run[r], mem[p].run, m)'
    BY <1>1, <2>1, <2>2, MessageAssumption DEF MovedBy
  <2>6. TxOK(p)'
    BY <1>0, <2>1, <2>2, <2>4, <2>5 DEF TxOK, Live
  <2>7. OthersKept(p)
    BY <1>1, <1>2, <1>5 DEF OthersKept, HInv, Inv, TypeOK, TypeProcs, TypeLocks
  <2> QED BY <2>1, <2>6, <2>7, QuietKeepsQInv
<1>6. CASE ~(OuterTx /\ e[1].status = "active")
  <2>1. /\ \A x \in Runs : run'[x] = IF x = r THEN e[1] ELSE run[x]
        /\ \A i \in Inters : inter'[i] = IF i = <<r, s>> THEN e[2] ELSE inter[i]
        /\ answers' = answers \cup {<<m, <<r, s>>>>} /\ pc'[p] = "advance"
    BY <1>2, <1>6 DEF HInv, Inv, TypeOK, TypeRows, TypeProcs
  <2>2. \A x \in Runs, t \in Steps : /\ <<x, t>> \in Inters /\ (Asked(x, t)' <=> Asked(x, t))
                                      /\ (x # r \/ t # s => inter'[<<x, t>>] = inter[<<x, t>>])
    BY <1>3, <2>1 DEF Inters, Asked
  <2>3. StepOf({p}) /\ \A q \in Procs \cap {p} : TxOK(q)'
    <3>1. \A q \in Procs \ {p} : pc'[q] = pc[q] /\ job'[q] = job[q] /\ mem'[q] = mem[q]
      BY <1>2, <1>6 DEF HInv, Inv, TypeOK, TypeProcs
    <3>2. \A x \in Runs : runLock[x] = None \/ RunSame(x)
      BY <1>1, <2>1, <2>2 DEF RunSame
    <3> QED BY <2>1, <3>1, <3>2, IdleTx DEF StepOf
  <2>4. ASSUME NEW x \in Runs PROVE QuestionOK(x)' /\ NewOK(x)'
    <3>1. CASE x # r
      BY <2>1, <2>2, <3>1 DEF QInv, QuestionOK, NewOK, Asked
    <3>2. CASE x = r /\ e[1].status = "active"
      <4>1. run'[r] = e[1] /\ \A t \in Steps : Asked(r, t) => t \in e[1].done
        BY <1>1, <1>3, <2>1 DEF QuestionOK
      <4>2. e[1].exits = run[r].exits \cup {exit}
        BY <1>3, <3>2
      <4>3. \A t \in Steps : Asked(r, t) => Left(e[1].exits, t)
        <5>1. ASSUME NEW t \in Steps, Asked(r, t), t # s PROVE Left(run[r].exits, t)
          BY <1>1, <5>1 DEF QuestionOK, Terminal
        <5>2. Left(e[1].exits, s)
          <6>1. exit \in e[1].exits /\ exit.step = s
            BY <4>2
          <6> QED BY <6>1 DEF Left
        <5>3. \A t : Left(run[r].exits, t) => Left(e[1].exits, t)
          BY <4>2 DEF Left
        <5> QED BY <5>1, <5>2, <5>3
      <4> QED BY <2>2, <3>2, <4>1, <4>3 DEF QuestionOK, NewOK
    <3>3. CASE x = r /\ e[1].status # "active"
      <4>1. /\ run'[r] = e[1] /\ e[1].status = run[r].status /\ e[1].step = run[r].step
            /\ e[1].exits = run[r].exits /\ e[1].done = run[r].done
        BY <1>1, <1>3, <2>1, <3>3
      <4>2. \A t \in Steps : inter'[<<r, t>>].status = inter[<<r, t>>].status /\ (Asked(r, t)' <=> Asked(r, t))
        BY <1>1, <1>3, <2>1, <2>2, <3>3
      <4> QED BY <1>1, <3>3, <4>1, <4>2 DEF QuestionOK, NewOK
    <3> QED BY <3>1, <3>2, <3>3
  <2>5. \A a \in answers' : AnswerOK(a)'
    <3>1. \A i \in Inters : inter[i].bad \in Nat /\ inter[i].born \in Nat
      BY DEF HInv, Inv, TypeOK, TypeRows, Interaction
    <3>2. \A i \in Inters : /\ inter[i].born > 0 => inter'[i].born > 0
                            /\ inter[i].born > 0 /\ inter[i].bad > 0 => inter'[i].bad > 0
      BY <1>1, <1>3, <2>1, <3>1
    <3>3. \A a \in answers : AnswerOK(a)'
      BY <1>3, <2>1, <3>2, AnswersStay DEF HInv
    <3>4. exit \in run'[r].exits \/ inter'[<<r, s>>].bad > 0
      BY <1>1, <1>3, <2>1, <3>1
    <3>5. ASSUME NEW a, a = <<m, <<r, s>>>> PROVE AnswerOK(a)'
      <4>1. a[1] = m /\ a[2] = <<r, s>> /\ a[2][1] = r /\ a[2][2] = s
        BY <3>5
      <4> QED BY <1>1, <2>2, <3>4, <4>1 DEF AnswerOK
    <3> QED BY <2>1, <3>3, <3>5
  <2> QED BY <2>3, <2>4, <2>5, StepKeepsQInv
<1> QED BY <1>5, <1>6

\* A claim that closes a stale question touches none its run waits on.
LEMMA ClaimStaleKeepsQInv ==
    ASSUME HInv, QInv, NEW p \in Procs, ClaimStale(p)
    PROVE  QInv'
<1>0. PICK r \in Runs, s \in Steps : r = job[p].run /\ s = job[p].step
  BY DEF ClaimStale, HInv, Inv, JobOK
<1>1. /\ Finish(p) /\ UNCHANGED <<run, answers>> /\ ~WaitsOn(run[r], s)
      /\ inter' = [inter EXCEPT ![<<r, s>>] = Closed(@)]
  BY <1>0 DEF ClaimStale, Return
<1>2. \A i \in Inters : /\ inter'[i].born = inter[i].born /\ inter'[i].bad = inter[i].bad
                        /\ i # <<r, s>> => inter'[i] = inter[i]
  BY <1>1 DEF Closed, HInv, Inv, TypeOK, TypeRows, Interaction
<1>3. OthersKept(p) /\ TxOK(p)'
  BY <1>1, FinishTx DEF HInv
<1>4. \A x \in Runs, t \in Steps : /\ <<x, t>> \in Inters /\ (Asked(x, t)' <=> Asked(x, t))
                                    /\ (x # r \/ t # s => inter'[<<x, t>>] = inter[<<x, t>>])
  BY <1>2 DEF Inters, Asked
<1>5. StepOf({p}) /\ \A q \in Procs \cap {p} : TxOK(q)'
  BY <1>1, <1>2, <1>3, <1>4 DEF StepOf, RunSame, OthersKept
<1>6. ASSUME NEW x \in Runs PROVE QuestionOK(x)' /\ NewOK(x)'
  BY <1>1, <1>4 DEF QInv, QuestionOK, NewOK, WaitsOn
<1>7. \A a \in answers' : AnswerOK(a)'
  BY <1>1, <1>2, AnswersStay DEF HInv
<1> QED BY <1>5, <1>6, <1>7, StepKeepsQInv

LEMMA ClaimKeepsQInv ==
    ASSUME HInv, QInv, NEW p \in Procs, Claim(p)
    PROVE  QInv'
<1>1. CASE Finish(p) /\ ~ClaimCommit(p) /\ ~ClaimStale(p)
  <2>1. UNCHANGED <<run, inter, answers>>
    BY <1>1 DEF Claim, ClaimConversation, ClaimInteractions, ClaimDuplicate, rows
  <2> QED BY <1>1, <2>1, FinishTx, QuietKeepsQInv DEF HInv
<1>2. CASE (ClaimConversation(p) \/ ClaimInteractions(p)) /\ ~Finish(p)
  <2>1. /\ pc' \in {[pc EXCEPT ![p] = "inters"], [pc EXCEPT ![p] = "run"]}
        /\ \E j : job' \in {job, [job EXCEPT ![p] = j]}
        /\ \/ convLock' = convLock
           \/ \E c : convLock[c] = None /\ convLock' = [convLock EXCEPT ![c] = p]
        /\ UNCHANGED <<run, inter, answers, runLock, mem>>
    BY <1>2 DEF ClaimConversation, ClaimInteractions, Return, rows
  <2>2. pc'[p] # "step" /\ OthersKept(p)
    BY <2>1 DEF OthersKept, HInv, Inv, TypeOK, TypeProcs, TypeLocks
  <2> QED BY <2>1, <2>2, IdleTx, QuietKeepsQInv
<1>3. ClaimDuplicate(p) => Finish(p)
  BY DEF ClaimDuplicate, Return
<1> QED BY <1>1, <1>2, <1>3, ClaimStaleKeepsQInv, ClaimCommitKeepsQInv DEF Claim

\* A run is ended from outside, and the questions of it nobody holds are closed.
LEMMA EndKeepsQInv ==
    ASSUME HInv, QInv, NEW S, \A q \in Procs \ S : pc'[q] = pc[q] /\ job'[q] = job[q] /\ mem'[q] = mem[q],
           \A q \in Procs \cap S : TxOK(q)', NEW r \in Runs, runLock[r] = None,
           \A x \in Runs \ {r} : run'[x] = run[x], run'[r].status \in Terminal,
           run'[r].exits = run[r].exits, run'[r].done = run[r].done,
           inter' = ClosedFor(r), answers' = answers
    PROVE  QInv'
<1>1. \A i \in Inters : /\ inter'[i].born = inter[i].born /\ inter'[i].bad = inter[i].bad
                        /\ i[1] # r => inter'[i] = inter[i]
  BY DEF ClosedFor, Closed, HInv, Inv, TypeOK, TypeRows, Interaction
<1>2. \A x \in Runs, t \in Steps : /\ <<x, t>> \in Inters /\ <<x, t>>[1] = x
                                    /\ (Asked(x, t)' <=> Asked(x, t))
  BY <1>1 DEF Inters, Asked
<1>3. StepOf(S)
  BY <1>1, <1>2 DEF StepOf, RunSame
<1>4. ASSUME NEW x \in Runs PROVE QuestionOK(x)' /\ NewOK(x)'
  <2>1. CASE x = r
    BY <1>2, <2>1 DEF QInv, QuestionOK, NewOK, Terminal
  <2>2. CASE x # r
    BY <1>1, <1>2, <2>2 DEF QInv, QuestionOK, NewOK
  <2> QED BY <2>1, <2>2
<1>5. \A x \in Runs : run[x].exits \subseteq run'[x].exits
  OBVIOUS
<1>6. \A a \in answers' : AnswerOK(a)'
  BY <1>1, <1>5, AnswersStay DEF HInv
<1> QED BY <1>3, <1>4, <1>6, StepKeepsQInv

LEMMA CancelWritesSame ==
    ASSUME NEW p \in Procs, NEW r, WritesOK(p, r)
    PROVE  \A i \in Inters : CancelWrites(p, r)[i] # None =>
               /\ i[1] = r /\ CancelWrites(p, r)[i].born = inter[i].born
               /\ CancelWrites(p, r)[i].bad = inter[i].bad
<1> SUFFICES ASSUME NEW i \in Inters, CancelWrites(p, r)[i] # None
             PROVE  /\ i[1] = r /\ CancelWrites(p, r)[i].born = inter[i].born
                    /\ CancelWrites(p, r)[i].bad = inter[i].bad
  OBVIOUS
<1>1. CASE i \in Cancellable(p, r)
  <2>1. CancelWrites(p, r)[i] = Closed(Seen(p, i)) /\ i[1] = r
    BY <1>1 DEF CancelWrites, Cancellable
  <2>2. \A rec : Closed(rec).born = rec.born /\ Closed(rec).bad = rec.bad
    BY DEF Closed
  <2>3. Seen(p, i).born = inter[i].born /\ Seen(p, i).bad = inter[i].bad
    BY DEF Seen, WritesOK
  <2> QED BY <2>1, <2>2, <2>3
<1>2. CASE i \notin Cancellable(p, r)
  <2>1. CancelWrites(p, r)[i] = mem[p].inter[i]
    BY <1>2 DEF CancelWrites
  <2> QED BY <2>1 DEF WritesOK
<1> QED BY <1>1, <1>2

LEMMA AdvanceKeepsQInv ==
    ASSUME HInv, QInv, NEW p \in Procs, Advance(p)
    PROVE  QInv'
<1> DEFINE row == mem[p].run
           r == job[p].run
<1>1. /\ pc[p] = "step" /\ row \in Row /\ WritesOK(p, r) /\ row.status \in Live
      /\ mem[p].inter \in [Inters -> Interaction \cup {None}]
  BY TxFacts DEF Advance, StepTimeout, StepSkip, StepOnError, StepAsk, StepFail, StepComplete,
     StepLimit, AtStep, Executing, HInv, QInv, TxOK
<1>2. \A i \in Inters : CancelWrites(p, r)[i] # None =>
          /\ i[1] = r /\ CancelWrites(p, r)[i].born = inter[i].born
          /\ CancelWrites(p, r)[i].bad = inter[i].bad
  BY <1>1, CancelWritesSame
<1>3. \A i \in Inters : mem[p].inter[i] # None =>
          i[1] = r /\ mem[p].inter[i].born = inter[i].born /\ mem[p].inter[i].bad = inter[i].bad
  BY <1>1 DEF WritesOK
<1>4. CASE StepTimeout(p)
  <2> DEFINE new == [Moved(row, row.step, OnTimeout[row.step], Timeout) EXCEPT !.due = "none"]
  <2>1. Iterate(p, new, CancelWrites(p, r)) /\ row.status = "waiting"
    BY <1>4 DEF StepTimeout
  <2>2. /\ new.status = "active" /\ new.done = row.done
        /\ new.exits = row.exits \cup {[step |-> row.step, by |-> Timeout]}
    BY <1>1 DEF Moved, Row
  <2> HIDE DEF new
  <2> QED BY <1>1, <1>2, <2>1, <2>2, IterateKeepsQInv
<1>5. CASE StepSkip(p)
  <2> DEFINE new == [row EXCEPT !.step = IF NextOf[row.step] = row.step
                                         THEN End ELSE NextOf[row.step]]
  <2>1. Iterate(p, new, mem[p].inter) /\ row.status = "active"
    BY <1>5 DEF StepSkip
  <2>2. new.status = row.status /\ new.done = row.done /\ new.exits = row.exits
    BY <1>1 DEF Row
  <2> HIDE DEF new
  <2> QED BY <1>1, <1>3, <2>1, <2>2, IterateKeepsQInv
<1>6. CASE StepOnError(p)
  <2> DEFINE new == [row EXCEPT !.step = OnError[row.step], !.done = @ \cup {row.step}]
  <2>1. Iterate(p, new, mem[p].inter) /\ row.status = "active"
    BY <1>6 DEF StepOnError, Executing
  <2>2. new.status = row.status /\ row.done \subseteq new.done /\ new.exits = row.exits
    BY <1>1 DEF Row
  <2> HIDE DEF new
  <2> QED BY <1>1, <1>3, <2>1, <2>2, IterateKeepsQInv
<1>7. CASE StepAsk(p)
  BY <1>7, AskKeepsQInv
<1>8. CASE StepFail(p)
  <2> DEFINE new == [row EXCEPT !.status = "failed", !.done = @ \cup {row.step}]
  <2>1. Commit(p, new, CancelWrites(p, r)) /\ row.step \in Steps
    BY <1>8 DEF StepFail, Executing
  <2>2. /\ new \in Row /\ new.status \in Terminal /\ row.done \subseteq new.done
        /\ new.exits = row.exits
    BY <1>1, <2>1 DEF Row, Terminal
  <2> HIDE DEF new
  <2> QED BY <1>1, <1>2, <2>1, <2>2, RestKeepsQInv
<1>9. CASE StepComplete(p)
  <2> DEFINE new == [row EXCEPT !.status = "completed", !.due = "none"]
  <2>1. Commit(p, new, CancelWrites(p, r))
    BY <1>9 DEF StepComplete
  <2>2. /\ new \in Row /\ new.status \in Terminal /\ row.done \subseteq new.done
        /\ new.exits = row.exits
    BY <1>1 DEF Row, Terminal
  <2> HIDE DEF new
  <2> QED BY <1>1, <1>2, <2>1, <2>2, RestKeepsQInv
<1>10. CASE StepLimit(p)
  <2>1. Commit(p, row, mem[p].inter)
    BY <1>10 DEF StepLimit
  <2> QED BY <1>1, <1>3, <2>1, RestKeepsQInv
<1> QED BY <1>4, <1>5, <1>6, <1>7, <1>8, <1>9, <1>10, <1>1 DEF Advance

\* A process that takes a run's row lock, cancels, gives up or dies.
LEMMA WorkerKeepsQInv ==
    ASSUME HInv, QInv, NEW p \in Procs,
           \/ AdvanceAfterCommit(p) \/ SweepLock(p) \/ CancelWrite(p)
           \/ DeadlockVictim(p) \/ Crash(p)
    PROVE  QInv'
<1>1. ASSUME Finish(p), UNCHANGED rows PROVE QInv'
  BY <1>1, FinishTx, QuietKeepsQInv DEF HInv, rows
<1>2. CASE DeadlockVictim(p) \/ Crash(p)
  BY <1>1, <1>2 DEF DeadlockVictim, Crash
<1>3. CASE ~(DeadlockVictim(p) \/ Crash(p))
  <2>1. PICK r \in Runs : r = job[p].run /\ run[r] \in Row /\ runLock[r] = None
    BY <1>3 DEF AdvanceAfterCommit, SweepLock, CancelWrite, HInv, Inv, JobOK, TypeOK, TypeRows
  <2>2. CASE CancelWrite(p)
    <3>1. /\ Finish(p) /\ inter' = ClosedFor(r) /\ answers' = answers
          /\ \A x \in Runs \ {r} : run'[x] = run[x]
          /\ run'[r] = [run[r] EXCEPT !.status = "cancelled", !.due = "none"]
      BY <2>1, <2>2 DEF CancelWrite, HInv, Inv, TypeOK, TypeRows
    <3>2. run'[r].status \in Terminal /\ run'[r].exits = run[r].exits /\ run'[r].done = run[r].done
      BY <2>1, <3>1 DEF Row, Terminal
    <3>3. OthersKept(p) /\ TxOK(p)'
      BY <3>1, FinishTx DEF HInv
    <3>4. /\ \A q \in Procs \ {p} : pc'[q] = pc[q] /\ job'[q] = job[q] /\ mem'[q] = mem[q]
          /\ \A q \in Procs \cap {p} : TxOK(q)'
      BY <3>3 DEF OthersKept
    <3> QED BY <2>1, <3>1, <3>2, <3>4, EndKeepsQInv
  <2>3. CASE (AdvanceAfterCommit(p) \/ SweepLock(p)) /\ Finish(p)
    BY <1>1, <2>3 DEF AdvanceAfterCommit, SweepLock, Begin
  <2>4. CASE (AdvanceAfterCommit(p) \/ SweepLock(p)) /\ ~Finish(p)
    <3>1. PICK row : /\ Begin(p, r, row)
                     /\ \/ run[r].status = "active" /\ row = [run[r] EXCEPT !.due = "none"]
                        \/ run[r].status = "waiting" /\ row = run[r]
      BY <2>1, <2>4 DEF AdvanceAfterCommit, SweepLock, StillDue
    <3>2. /\ row \in Row /\ row.exits = run[r].exits /\ row.done = run[r].done
          /\ row.status = run[r].status
      BY <2>1, <3>1 DEF Row
    <3> QED BY <2>1, <3>1, <3>2, BeginKeepsQInv
  <2> QED BY <1>3, <2>2, <2>3, <2>4
<1> QED BY <1>2, <1>3

LEMMA StartKeepsQInv ==
    ASSUME HInv, QInv, NEW p \in Procs,
           \/ \E m \in Msgs : ClaimStart(p, m)
           \/ \E r \in Runs : SweepStart(p, r) \/ CancelRead(p, r) \/ Enroll(p, r)
    PROVE  QInv'
<1>1. CASE \E r \in Runs : Enroll(p, r)
  <2>1. PICK r \in Runs : Enroll(p, r)
    BY <1>1
  <2> DEFINE row == [NoRow EXCEPT !.status = "active"]
  <2>2. row \in Row /\ row.exits = {} /\ row.done = {} /\ row.status = "active"
    BY NoRowOK DEF Row, Live, NoRow
  <2>3. run[r].exits = {} /\ run[r].done = {} /\ run[r].status # "waiting"
    BY <2>1 DEF Enroll, QInv, NewOK
  <2>4. runLock[r] = None /\ Begin(p, r, row)
    BY <2>1 DEF Enroll
  <2> HIDE DEF row
  <2> QED BY <2>2, <2>3, <2>4, BeginKeepsQInv
<1>2. CASE ~ \E r \in Runs : Enroll(p, r)
  <2>1. /\ UNCHANGED <<run, inter, answers, convLock, runLock, mem>> /\ pc[p] = "idle"
        /\ pc' \in {pc, [pc EXCEPT ![p] = "conv"], [pc EXCEPT ![p] = "sweep"],
                    [pc EXCEPT ![p] = "cancel"]}
        /\ \E j : job' \in {job, [job EXCEPT ![p] = j]}
    BY <1>2 DEF ClaimStart, SweepStart, CancelRead, rows, locks
  <2>2. pc'[p] # "step" /\ OthersKept(p)
    BY <2>1 DEF OthersKept, HInv, Inv, TypeOK, TypeProcs
  <2> QED BY <2>1, <2>2, IdleTx, QuietKeepsQInv
<1> QED BY <1>1, <1>2

LEMMA EnvironmentKeepsQInv ==
    ASSUME HInv, QInv, NEW r \in Runs, SendFailed(r) \/ Tick(r)
    PROVE  QInv'
<1>1. UNCHANGED <<answers, pc, job, mem>> /\ run \in [Runs -> Row] /\ run[r] \in Row
  BY DEF SendFailed, Tick, locks, HInv, Inv, TypeOK, TypeRows
<1>2. CASE SendFailed(r)
  <2>1. /\ run'[r].status \in Terminal /\ run'[r].exits = run[r].exits /\ run'[r].done = run[r].done
        /\ \A x \in Runs \ {r} : run'[x] = run[x]
    BY <1>1, <1>2 DEF SendFailed, Row, Terminal
  <2>2. runLock[r] = None /\ inter' = ClosedFor(r)
    BY <1>2 DEF SendFailed
  <2>3. /\ \A q \in Procs \ {} : pc'[q] = pc[q] /\ job'[q] = job[q] /\ mem'[q] = mem[q]
        /\ \A q \in Procs \cap {} : TxOK(q)'
    BY <1>1
  <2> QED BY <1>1, <2>1, <2>2, <2>3, EndKeepsQInv
<1>3. CASE Tick(r)
  <2>1. inter' = inter /\ \A x \in Runs : /\ run'[x].status = run[x].status /\ run'[x].step = run[x].step
                                          /\ run'[x].exits = run[x].exits /\ run'[x].done = run[x].done
    BY <1>1, <1>3 DEF Tick, Row
  <2>2. StepOf({})
    BY <1>1, <2>1 DEF StepOf, RunSame
  <2>3. \A x \in Runs : QuestionOK(x)' /\ NewOK(x)'
    BY <2>1 DEF QInv, QuestionOK, NewOK, Asked
  <2>4. \A a \in answers' : AnswerOK(a)'
    BY <1>1, <2>1, AnswersStay DEF HInv
  <2> QED BY <2>2, <2>3, <2>4, StepKeepsQInv
<1> QED BY <1>2, <1>3

LEMMA NextKeepsQInv == HInv /\ QInv /\ [Next]_vars => QInv'
<1> SUFFICES ASSUME HInv, QInv, [Next]_vars PROVE QInv'
  OBVIOUS
<1>1. ASSUME NEW p \in Procs, Work(p) \/ Crash(p) PROVE QInv'
  BY <1>1, ClaimKeepsQInv, AdvanceKeepsQInv, WorkerKeepsQInv DEF Work
<1>2. ASSUME NEW p \in Procs, NEW m \in Msgs, ClaimStart(p, m) PROVE QInv'
  BY <1>2, StartKeepsQInv
<1>3. ASSUME NEW p \in Procs, NEW r \in Runs,
             SweepStart(p, r) \/ Enroll(p, r) \/ CancelRead(p, r)
      PROVE  QInv'
  BY <1>3, StartKeepsQInv
<1>4. ASSUME NEW r \in Runs, SendFailed(r) \/ Tick(r) PROVE QInv'
  BY <1>4, EnvironmentKeepsQInv
<1>5. CASE UNCHANGED vars
  <2>1. UNCHANGED <<run, inter, answers, pc, job, mem>>
    BY <1>5 DEF vars
  <2>2. StepOf({})
    BY <2>1 DEF StepOf, RunSame
  <2>3. \A r \in Runs : QuestionOK(r)' /\ NewOK(r)'
    BY <2>1 DEF QInv, QuestionOK, NewOK, Asked
  <2>4. \A a \in answers' : AnswerOK(a)'
    BY <2>1 DEF QInv, AnswerOK, Asked
  <2> QED BY <2>2, <2>3, <2>4, StepKeepsQInv
<1> QED BY <1>1, <1>2, <1>3, <1>4, <1>5 DEF Next

LEMMA QInvHolds == Spec => []QInv
<1>1. Init => QInv
  BY InitQInv
<1> QED BY <1>1, NextKeepsQInv, HInvHolds, PTL DEF Spec

-----------------------------------------------------------------------------
\* The question a run is parked on is open, whatever cancels, orphan clean-ups
\* and skipped locks did to other questions: the customer's buttons still work.
THEOREM Answerable == Spec => []WaitingIsAnswerable
<1>1. HInv /\ QInv => WaitingIsAnswerable
  <2> SUFFICES ASSUME HInv, QInv, NEW r \in Runs, run[r].status = "waiting"
               PROVE  inter[<<r, run[r].step>>].status = "open"
    BY DEF WaitingIsAnswerable
  <2>1. run[r].step \in Steps
    BY DEF HInv, Inv, RowsOK, RowOK, TypeOK, TypeRows, Row
  <2> QED BY <2>1 DEF QInv, QuestionOK
<1> QED BY <1>1, HInvHolds, QInvHolds, PTL

\* An answer is never used up without moving its run, except by a wrong answer
\* to ask_question, and no answer moves a run without its row (claim_reply).
THEOREM AnswersAgree == Spec => []AnswersMatchExits
<1>1. HInv /\ QInv => AnswersMatchExits
  BY DEF HInv, QInv, AnswerOK, Recorded, AnswersMatchExits
<1> QED BY <1>1, HInvHolds, QInvHolds, PTL

-----------------------------------------------------------------------------
(* The claim protocol implements the promise of QuestionLife, step by     *)
(* step.                                                                  *)

\* A step leaves question i as it is.
Same(i) == QState(i)' = QState(i) /\ QBy(i)' = QBy(i)

Ended(r) == run[r].status \in Terminal

-----------------------------------------------------------------------------
(* Steps of the promise, question by question.                             *)

LEMMA StutterMap ==
    ASSUME \A i \in Inters : Same(i)
    PROVE  UNCHANGED Promise!qvars
BY DEF Same, Promise!qvars

LEMMA SettleMap ==
    ASSUME NEW q \in Inters, QState(q) = "open", \A i \in Inters \ {q} : Same(i),
           \/ QState(q)' \in {"expired", "dropped"} /\ QBy(q)' = QBy(q)
           \/ \E m \in Msgs : /\ QState(q)' = "answered" /\ QBy(q)' = m
                              /\ \A o \in Inters : QBy(o) # m
    PROVE  Promise!QNext
<1> DEFINE st == [i \in Inters |-> QState(i)]
           who == [i \in Inters |-> QBy(i)]
<1>1. ASSUME NEW v, QState(q)' = v PROVE st' = [st EXCEPT ![q] = v]
  BY <1>1 DEF Same
<1>2. ASSUME NEW m, QBy(q)' = m PROVE who' = [who EXCEPT ![q] = m]
  BY <1>2 DEF Same
<1>3. QBy(q)' = QBy(q) => who' = who
  BY DEF Same
<1>4. CASE QState(q)' = "expired" /\ QBy(q)' = QBy(q)
  BY <1>1, <1>3, <1>4 DEF Promise!QNext, Promise!Settle, Promise!Expire
<1>5. CASE QState(q)' = "dropped" /\ QBy(q)' = QBy(q)
  BY <1>1, <1>3, <1>5 DEF Promise!QNext, Promise!Settle, Promise!Drop
<1>6. ASSUME NEW m \in Msgs, QState(q)' = "answered", QBy(q)' = m, \A o \in Inters : QBy(o) # m
      PROVE  Promise!QNext
  BY <1>1, <1>2, <1>6 DEF Promise!QNext, Promise!Settle, Promise!Answer
<1> QED BY <1>4, <1>5, <1>6

LEMMA PutMap ==
    ASSUME NEW n \in Inters, QState(n) = "unasked", QState(n)' = "open", QBy(n)' = QBy(n),
           \A i \in Inters \ {n} : Same(i)
    PROVE  Promise!QNext
<1> DEFINE st == [i \in Inters |-> QState(i)]
           who == [i \in Inters |-> QBy(i)]
<1>1. st' = [st EXCEPT ![n] = "open"] /\ who' = who
  BY DEF Same
<1> QED BY <1>1 DEF Promise!QNext, Promise!Put

LEMMA ThenMap ==
    ASSUME NEW q \in Inters, NEW n \in Inters, q # n, QState(q) = "open",
           QState(n) = "unasked", QState(n)' = "open", QBy(n)' = QBy(n),
           \A i \in Inters \ {q, n} : Same(i),
           \/ QState(q)' = "expired" /\ QBy(q)' = QBy(q)
           \/ \E m \in Msgs : /\ QState(q)' = "answered" /\ QBy(q)' = m
                              /\ \A o \in Inters : QBy(o) # m
    PROVE  Promise!QNext
<1> DEFINE st == [i \in Inters |-> QState(i)]
           who == [i \in Inters |-> QBy(i)]
<1>1. ASSUME NEW v, QState(q)' = v PROVE st' = [st EXCEPT ![q] = v, ![n] = "open"]
  BY <1>1 DEF Same
<1>2. ASSUME NEW m, QBy(q)' = m PROVE who' = [who EXCEPT ![q] = m]
  BY <1>2 DEF Same
<1>3. QBy(q)' = QBy(q) => who' = who
  BY DEF Same
<1>4. CASE QState(q)' = "expired" /\ QBy(q)' = QBy(q)
  BY <1>1, <1>3, <1>4 DEF Promise!QNext, Promise!Then
<1>5. ASSUME NEW m \in Msgs, QState(q)' = "answered", QBy(q)' = m, \A o \in Inters : QBy(o) # m
      PROVE  Promise!QNext
  BY <1>1, <1>2, <1>5 DEF Promise!QNext, Promise!Then
<1> QED BY <1>4, <1>5

-----------------------------------------------------------------------------
(* What a step does to one question.                                       *)

LEMMA OpenState ==
    ASSUME NEW r \in Runs, NEW s \in Steps
    PROVE  QState(<<r, s>>) = "open"
             <=> ~Left(run[r].exits, s) /\ inter[<<r, s>>].born # 0 /\ ~Ended(r)
BY DEF QState, Left, Ended

LEMMA ByStays ==
    ASSUME NEW r \in Runs, NEW s \in Steps,
           \A e : e.step = s => (e \in run'[r].exits <=> e \in run[r].exits)
    PROVE  QBy(<<r, s>>)' = QBy(<<r, s>>)
<1>1. \A m : [step |-> s, by |-> m] \in run'[r].exits <=> [step |-> s, by |-> m] \in run[r].exits
  OBVIOUS
<1> DEFINE old == {m \in Msgs : [step |-> s, by |-> m] \in run[r].exits}
           new == {m \in Msgs : [step |-> s, by |-> m] \in run'[r].exits}
<1>2. old = new
  BY <1>1
<1>3. QBy(<<r, s>>) = IF old = {} THEN None ELSE CHOOSE m \in old : TRUE
  BY DEF QBy
<1>4. QBy(<<r, s>>)' = IF new = {} THEN None ELSE CHOOSE m \in new : TRUE
  BY DEF QBy
<1> HIDE DEF old, new
<1> QED BY <1>2, <1>3, <1>4

\* A question nobody leaves stays as it is, unless its run ends under it.
LEMMA StaysAsItIs ==
    ASSUME NEW r \in Runs, NEW s \in Steps,
           \A e : e.step = s => (e \in run'[r].exits <=> e \in run[r].exits),
           inter'[<<r, s>>].born = inter[<<r, s>>].born,
           Left(run[r].exits, s) \/ inter[<<r, s>>].born = 0 \/ (Ended(r)' <=> Ended(r))
    PROVE  Same(<<r, s>>)
<1>1. QBy(<<r, s>>)' = QBy(<<r, s>>)
  BY ByStays
<1>2. {e \in run'[r].exits : e.step = s} = {e \in run[r].exits : e.step = s}
  OBVIOUS
<1>3. QState(<<r, s>>)' = QState(<<r, s>>)
  BY <1>2 DEF QState, Left, Ended
<1> QED BY <1>1, <1>3 DEF Same

LEMMA LeavesIt ==
    ASSUME Inv, NEW r \in Runs, NEW s \in Steps, NEW by \in Msgs \cup {Timeout},
           ~Left(run[r].exits, s), run'[r].exits = run[r].exits \cup {[step |-> s, by |-> by]}
    PROVE  /\ by = Timeout => QState(<<r, s>>)' = "expired" /\ QBy(<<r, s>>)' = QBy(<<r, s>>)
           /\ by # Timeout => QState(<<r, s>>)' = "answered" /\ QBy(<<r, s>>)' = by
<1> DEFINE exit == [step |-> s, by |-> by]
           msgs == {m \in Msgs : [step |-> s, by |-> m] \in run[r].exits}
           now == {m \in Msgs : [step |-> s, by |-> m] \in run'[r].exits}
<1>1. {e \in run'[r].exits : e.step = s} = {exit}
  BY DEF Left
<1>2. msgs = {}
  BY DEF Left
<1>3. now = IF by = Timeout THEN {} ELSE {by}
  <2>1. ASSUME NEW m PROVE [step |-> s, by |-> m] = exit <=> m = by
    <3>1. [step |-> s, by |-> m].by = m /\ exit.by = by
      OBVIOUS
    <3> QED BY <3>1
  <2>2. \A m : [step |-> s, by |-> m] \notin run[r].exits
    BY DEF Left
  <2> QED BY <2>1, <2>2, MessageAssumption
<1>4. QState(<<r, s>>)' = IF by = Timeout THEN "expired" ELSE "answered"
  <2>1. exit.by = by
    OBVIOUS
  <2> DEFINE left == {e \in run'[r].exits : e.step = s}
  <2>2. (\E e \in left : e.by # Timeout) <=> by # Timeout
    BY <1>1, <2>1
  <2>3. left # {}
    BY <1>1
  <2> QED BY <2>2, <2>3 DEF QState
<1>5. QBy(<<r, s>>) = None
  BY <1>2 DEF QBy
<1>6. QBy(<<r, s>>)' = IF by = Timeout THEN None ELSE by
  BY <1>3 DEF QBy
<1> QED BY <1>4, <1>5, <1>6

\* A message that has answered nothing has not moved a run either.
LEMMA NothingBy ==
    ASSUME HInv, NEW m \in Msgs, ~Claimed(m), NEW o \in Inters
    PROVE  QBy(o) # m
<1> SUFFICES ASSUME QBy(o) = m PROVE FALSE
  OBVIOUS
<1>1. [step |-> o[2], by |-> m] \in run[o[1]].exits /\ o[1] \in Runs
  BY MessageAssumption DEF QBy, Inters
<1>2. <<m, <<o[1], o[2]>>>> \in answers
  BY <1>1, MessageAssumption DEF HInv, Recorded
<1> QED BY <1>2 DEF Claimed

LEMMA BornAsked == ASSUME HInv, NEW r \in Runs, NEW s \in Steps
                   PROVE  Asked(r, s) <=> inter[<<r, s>>].born # 0
BY DEF Asked, Inters, HInv, Inv, TypeOK, TypeRows, Interaction

LEMMA WaitsOnOne ==
    ASSUME HInv, QInv, NEW r \in Runs, run[r].status = "waiting"
    PROVE  \E s \in Steps : s = run[r].step /\ Asked(r, s) /\ ~Left(run[r].exits, s)
<1>1. RowOK(run[r]) /\ run[r] \in Row
  BY DEF HInv, Inv, RowsOK, TypeOK, TypeRows
<1>2. run[r].step \in Steps /\ ~Left(run[r].exits, run[r].step)
  BY <1>1 DEF RowOK, Row, Left
<1>3. Asked(r, run[r].step)
  BY <1>2 DEF QInv, QuestionOK
<1> QED BY <1>2, <1>3

-----------------------------------------------------------------------------
(* What a step does to all questions.                                      *)

\* The run leaves the question it waits on.
LEMMA SettleStep ==
    ASSUME HInv, QInv, NEW r \in Runs, NEW by \in Msgs \cup {Timeout}, run[r].status = "waiting",
           run'[r].exits = run[r].exits \cup {[step |-> run[r].step, by |-> by]},
           by # Timeout => ~Claimed(by), \A x \in Runs \ {r} : run'[x] = run[x],
           \A i \in Inters : inter'[i].born = inter[i].born
    PROVE  Promise!QNext
<1>1. PICK s \in Steps : s = run[r].step /\ Asked(r, s) /\ ~Left(run[r].exits, s)
  BY WaitsOnOne
<1>2. QState(<<r, s>>) = "open" /\ <<r, s>> \in Inters
  BY <1>1, OpenState, BornAsked DEF Ended, Terminal, Inters
<1>3. ASSUME NEW i \in Inters \ {<<r, s>>} PROVE Same(i)
  <2>1. PICK x \in Runs, t \in Steps : i = <<x, t>>
    BY DEF Inters
  <2>2. CASE x # r
    BY <2>1, <2>2, StaysAsItIs DEF Ended
  <2>3. CASE x = r /\ t # s
    <3>1. Left(run[r].exits, t) \/ inter[<<r, t>>].born = 0
      BY <1>1, <2>3, BornAsked DEF QInv, QuestionOK, Terminal
    <3>2. \A e : e.step = t => (e \in run'[r].exits <=> e \in run[r].exits)
      BY <1>1, <2>3
    <3> QED BY <2>1, <2>3, <3>1, <3>2, StaysAsItIs
  <2> QED BY <1>3, <2>1, <2>2, <2>3
<1>4. /\ by = Timeout => QState(<<r, s>>)' = "expired" /\ QBy(<<r, s>>)' = QBy(<<r, s>>)
      /\ by # Timeout => QState(<<r, s>>)' = "answered" /\ QBy(<<r, s>>)' = by
  BY <1>1, LeavesIt DEF HInv
<1>5. by # Timeout => \A o \in Inters : QBy(o) # by
  BY NothingBy
<1> QED BY <1>2, <1>3, <1>4, <1>5, SettleMap

\* No run leaves a question, and no run but r ends.
LEMMA EndStep ==
    ASSUME HInv, QInv, NEW r \in Runs, \A x \in Runs : run'[x].exits = run[x].exits,
           \A x \in Runs \ {r} : Ended(x)' <=> Ended(x), Ended(r) => Ended(r)',
           \A i \in Inters : inter'[i].born = inter[i].born
    PROVE  [Promise!QNext]_(Promise!qvars)
<1>1. ASSUME NEW i \in Inters,
             i[1] # r \/ Left(run[r].exits, i[2]) \/ inter[i].born = 0 \/ (Ended(r)' <=> Ended(r))
      PROVE  Same(i)
  <2>1. PICK x \in Runs, t \in Steps : i = <<x, t>>
    BY DEF Inters
  <2> QED BY <1>1, <2>1, StaysAsItIs
<1>2. CASE Ended(r)' /\ ~Ended(r) /\ run[r].status = "waiting"
  <2>1. PICK s \in Steps : s = run[r].step /\ Asked(r, s) /\ ~Left(run[r].exits, s)
    BY <1>2, WaitsOnOne
  <2>2. QState(<<r, s>>) = "open" /\ <<r, s>> \in Inters
    BY <1>2, <2>1, OpenState, BornAsked DEF Inters
  <2>3. QState(<<r, s>>)' = "dropped" /\ QBy(<<r, s>>)' = QBy(<<r, s>>)
    BY <1>2, <2>1, <2>2 DEF QState, QBy, Left, Ended
  <2>4. ASSUME NEW i \in Inters \ {<<r, s>>} PROVE Same(i)
    <3>1. PICK x \in Runs, t \in Steps : i = <<x, t>>
      BY DEF Inters
    <3>2. x = r => Left(run[r].exits, t) \/ inter[<<r, t>>].born = 0
      BY <1>2, <2>1, <3>1, BornAsked DEF QInv, QuestionOK, Ended
    <3> QED BY <1>1, <3>1, <3>2
  <2> QED BY <2>2, <2>3, <2>4, SettleMap
<1>3. CASE ~(Ended(r)' /\ ~Ended(r) /\ run[r].status = "waiting")
  <2>1. ASSUME NEW i \in Inters PROVE Same(i)
    <3>1. PICK x \in Runs, t \in Steps : i = <<x, t>>
      BY DEF Inters
    <3>2. x = r /\ Ended(r)' /\ ~Ended(r) => Left(run[r].exits, t) \/ inter[<<r, t>>].born = 0
      BY <1>3, <3>1, BornAsked DEF QInv, QuestionOK, Ended
    <3> QED BY <1>1, <3>1, <3>2
  <2> QED BY <2>1, StutterMap
<1> QED BY <1>2, <1>3

\* The run asks: the first question, or the next one after the one it leaves.
LEMMA AskStep ==
    ASSUME HInv, QInv, HInv', NEW p \in Procs, StepAsk(p)
    PROVE  Promise!QNext
<1>1. PICK r \in Runs, n \in Steps :
      /\ r = job[p].run /\ pc[p] = "step" /\ mem[p].run.status = "active"
      /\ ~Asked(r, n) /\ inter'[<<r, n>>].born > 0 /\ inter'[<<r, n>>].status = "open"
      /\ run'[r].status = "waiting" /\ run'[r].step = n
      /\ run'[r].exits = mem[p].run.exits /\ run'[r].done = mem[p].run.done \cup {n}
      /\ \A x \in Runs \ {r} : run'[x] = run[x]
      /\ \A i \in Inters \ {<<r, n>>} : /\ inter'[i].born = inter[i].born /\ inter'[i].bad = inter[i].bad
                                        /\ i[1] # r => inter'[i] = inter[i]
      /\ answers' = answers \cup mem[p].ans /\ OthersKept(p) /\ TxOK(p)'
  BY AskEffect
<1>2. /\ run[r].exits \subseteq run'[r].exits /\ run[r].status \notin Terminal
      /\ \A t \in Steps : Asked(r, t) => Left(run'[r].exits, t)
  BY <1>1, TxKnows
<1>3. ~Left(run'[r].exits, n) /\ ~Left(run[r].exits, n) /\ <<r, n>> \in Inters
  <2>1. RowOK(run'[r])
    BY DEF HInv, Inv, RowsOK, RowOK
  <2> QED BY <1>1, <1>2, <2>1 DEF RowOK, Left, Inters
<1>4. /\ QState(<<r, n>>) = "unasked" /\ QState(<<r, n>>)' = "open"
      /\ QBy(<<r, n>>)' = QBy(<<r, n>>)
  <2>1. inter[<<r, n>>].born = 0 /\ inter'[<<r, n>>].born # 0
    BY <1>1, BornAsked
  <2>2. QState(<<r, n>>) = "unasked"
    BY <1>3, <2>1 DEF QState, Left
  <2>3. QState(<<r, n>>)' = "open"
    BY <1>1, <1>3, <2>1 DEF QState, Left, Terminal
  <2>4. QBy(<<r, n>>)' = QBy(<<r, n>>)
    BY <1>3, ByStays DEF Left
  <2> QED BY <2>2, <2>3, <2>4
<1>5. ASSUME NEW i \in Inters \ {<<r, n>>},
             \A e : e.step = i[2] => (e \in run'[r].exits <=> e \in run[r].exits)
      PROVE  Same(i)
  <2>1. PICK x \in Runs, t \in Steps : i = <<x, t>>
    BY DEF Inters
  <2>2. CASE x # r
    BY <1>1, <2>1, <2>2, StaysAsItIs DEF Ended, Inters
  <2>3. CASE x = r
    <3>1. Left(run[r].exits, t) \/ inter[<<r, t>>].born = 0
      BY <1>2, <1>5, <2>1, BornAsked DEF Left
    <3> QED BY <1>1, <1>5, <2>1, <2>3, <3>1, StaysAsItIs DEF Inters
  <2> QED BY <2>2, <2>3
<1>6. \/ NotMoved(p, run[r], mem[p].run)
      \/ \E by \in Msgs \cup {Timeout} : MovedBy(p, r, run[r], mem[p].run, by)
  BY <1>1 DEF QInv, TxOK
<1>7. CASE NotMoved(p, run[r], mem[p].run)
  <2>1. run'[r].exits = run[r].exits
    BY <1>1, <1>7 DEF NotMoved
  <2> QED BY <1>3, <1>4, <1>5, <2>1, PutMap
<1>8. ASSUME NEW by \in Msgs \cup {Timeout}, MovedBy(p, r, run[r], mem[p].run, by)
      PROVE  Promise!QNext
  <2>1. PICK s \in Steps : s = run[r].step /\ Asked(r, s) /\ ~Left(run[r].exits, s)
    BY <1>8, WaitsOnOne DEF MovedBy
  <2>2. run'[r].exits = run[r].exits \cup {[step |-> s, by |-> by]}
    BY <1>1, <1>8, <2>1 DEF MovedBy
  <2>3. QState(<<r, s>>) = "open" /\ <<r, s>> \in Inters /\ <<r, s>> # <<r, n>>
    BY <1>1, <1>2, <2>1, OpenState, BornAsked DEF Ended, Inters
  <2>4. /\ by = Timeout => QState(<<r, s>>)' = "expired" /\ QBy(<<r, s>>)' = QBy(<<r, s>>)
        /\ by # Timeout => QState(<<r, s>>)' = "answered" /\ QBy(<<r, s>>)' = by
    BY <2>1, <2>2, LeavesIt DEF HInv
  <2>5. by # Timeout => \A o \in Inters : QBy(o) # by
    <3>1. by # Timeout => by \in Msgs /\ <<by, <<r, s>>>> \in mem[p].ans
      BY <1>8, <2>1 DEF MovedBy
    <3>2. by # Timeout => ~Claimed(by)
      BY <1>1, <3>1 DEF HInv, ProcHeld, TxHeld
    <3> QED BY <3>1, <3>2, NothingBy
  <2>6. ASSUME NEW i \in Inters \ {<<r, s>>, <<r, n>>} PROVE Same(i)
    <3>1. PICK x \in Runs, t \in Steps : i = <<x, t>>
      BY DEF Inters
    <3>2. CASE x = r
      <4>1. t # s
        BY <3>1, <3>2, <2>6
      <4>2. \A e : e.step = t => (e \in run'[r].exits <=> e \in run[r].exits)
        BY <2>2, <4>1
      <4> QED BY <1>5, <3>1, <4>2
    <3>3. CASE x # r
      BY <1>1, <3>1, <3>3, StaysAsItIs DEF Ended, Inters
    <3> QED BY <3>2, <3>3
  <2> QED BY <1>3, <1>4, <2>3, <2>4, <2>5, <2>6, ThenMap
<1> QED BY <1>6, <1>7, <1>8

\* A transaction that ends or rests commits the move it holds, if any.
LEMMA RestStep ==
    ASSUME HInv, QInv, NEW p \in Procs, pc[p] = "step", NEW row \in Row, NEW writes, Commit(p, row, writes),
           \A i \in Inters : writes[i] # None => writes[i].born = inter[i].born,
           row.exits = mem[p].run.exits
    PROVE  [Promise!QNext]_(Promise!qvars)
<1>1. PICK r \in Runs : r = job[p].run
  BY DEF HInv, Inv, JobOK
<1>2. /\ \A x \in Runs : run'[x] = IF x = r THEN row ELSE run[x]
      /\ \A i \in Inters : inter'[i].born = inter[i].born
  BY <1>1, CommitWrites
<1>3. /\ run[r].status \notin Terminal
      /\ NotMoved(p, run[r], mem[p].run)
         \/ \E by \in Msgs \cup {Timeout} : MovedBy(p, r, run[r], mem[p].run, by)
  BY <1>1, TxKnows DEF QInv, TxOK
<1>4. CASE NotMoved(p, run[r], mem[p].run)
  <2>1. \A x \in Runs : run'[x].exits = run[x].exits
    BY <1>2, <1>4 DEF NotMoved
  <2> QED BY <1>2, <1>3, <2>1, EndStep DEF Ended
<1>5. ASSUME NEW by \in Msgs \cup {Timeout}, MovedBy(p, r, run[r], mem[p].run, by)
      PROVE  Promise!QNext
  <2>1. /\ run[r].status = "waiting"
        /\ run'[r].exits = run[r].exits \cup {[step |-> run[r].step, by |-> by]}
    BY <1>2, <1>5 DEF MovedBy
  <2>2. by # Timeout => ~Claimed(by)
    <3>1. by # Timeout => <<by, <<r, run[r].step>>>> \in mem[p].ans
      BY <1>5 DEF MovedBy
    <3> QED BY <3>1 DEF HInv, ProcHeld, TxHeld
  <2> QED BY <1>2, <2>1, <2>2, SettleStep
<1> QED BY <1>3, <1>4, <1>5

-----------------------------------------------------------------------------
(* One lemma per group of actions.                                         *)

LEMMA QuietStep == UNCHANGED <<run, inter>> => UNCHANGED Promise!qvars
BY DEF QState, QBy, Promise!qvars

LEMMA ClaimStep ==
    ASSUME HInv, QInv, NEW p \in Procs, Claim(p)
    PROVE  [Promise!QNext]_(Promise!qvars)
<1>1. CASE ClaimConversation(p) \/ ClaimInteractions(p) \/ ClaimDuplicate(p)
  BY <1>1, QuietStep DEF ClaimConversation, ClaimInteractions, ClaimDuplicate, rows
<1>2. CASE ClaimStale(p) \/ ClaimCommit(p)
  <2>0. PICK m \in Msgs, r \in Runs, s \in Steps : m = job[p].msg /\ r = job[p].run /\ s = job[p].step
    BY <1>2 DEF ClaimStale, ClaimCommit, HInv, Inv, JobOK
  <2>1. /\ <<r, s>> \in Inters /\ run[r] \in Row /\ inter[<<r, s>>] \in Interaction
        /\ run \in [Runs -> Row] /\ inter \in [Inters -> Interaction]
    BY DEF HInv, Inv, TypeOK, TypeRows, Inters
  <2>2. CASE ClaimStale(p)
    <3>1. run' = run /\ inter' = [inter EXCEPT ![<<r, s>>] = Closed(@)]
      BY <2>0, <2>2 DEF ClaimStale
    <3>2. \A i \in Inters : inter'[i].born = inter[i].born
      BY <2>1, <3>1 DEF Closed, Interaction
    <3> QED BY <3>1, <3>2, EndStep DEF Ended
  <2>3. CASE ClaimCommit(p) /\ ~UNCHANGED <<run, inter>>
    <3>1. /\ run[r].status = "waiting" /\ run[r].step = s /\ ~Claimed(m)
          /\ \E e \in AnswerEffects(run[r], inter[<<r, s>>], s, m) :
                run' = [run EXCEPT ![r] = e[1]] /\ inter' = [inter EXCEPT ![<<r, s>>] = e[2]]
      BY <2>0, <2>3 DEF ClaimCommit, WaitsOn, Taken, rows
    <3>2. PICK e \in AnswerEffects(run[r], inter[<<r, s>>], s, m) :
             run' = [run EXCEPT ![r] = e[1]] /\ inter' = [inter EXCEPT ![<<r, s>>] = e[2]]
      BY <3>1
    <3>3. /\ \A x \in Runs : run'[x] = IF x = r THEN e[1] ELSE run[x]
          /\ \A i \in Inters : inter'[i] = IF i = <<r, s>> THEN e[2] ELSE inter[i]
      BY <2>1, <3>2
    <3>4. /\ e[2].born = inter[<<r, s>>].born
          /\ \/ e[1].exits = run[r].exits \cup {[step |-> s, by |-> m]}
             \/ e[1].status = "waiting" /\ e[1].exits = run[r].exits
      BY <2>1, <3>1, AnswerShape
    <3>5. \A i \in Inters : inter'[i].born = inter[i].born
      BY <3>3, <3>4
    <3>6. CASE e[1].exits = run[r].exits \cup {[step |-> s, by |-> m]}
      BY <3>1, <3>3, <3>5, <3>6, SettleStep
    <3>7. CASE e[1].status = "waiting" /\ e[1].exits = run[r].exits
      BY <3>1, <3>3, <3>5, <3>7, EndStep DEF Ended, Terminal
    <3> QED BY <3>4, <3>6, <3>7
  <2> QED BY <1>2, <2>2, <2>3, QuietStep
<1> QED BY <1>1, <1>2 DEF Claim

LEMMA AdvanceStep ==
    ASSUME HInv, QInv, HInv', NEW p \in Procs, Advance(p)
    PROVE  [Promise!QNext]_(Promise!qvars)
<1> DEFINE row == mem[p].run
           r == job[p].run
<1>1. /\ pc[p] = "step" /\ row \in Row /\ WritesOK(p, r)
  BY TxFacts DEF Advance, StepTimeout, StepSkip, StepOnError, StepAsk, StepFail, StepComplete,
     StepLimit, AtStep, Executing, HInv, QInv, TxOK
<1>2. \A i \in Inters : CancelWrites(p, r)[i] # None => CancelWrites(p, r)[i].born = inter[i].born
  BY <1>1, CancelWritesSame
<1>3. CASE StepTimeout(p) \/ StepSkip(p) \/ StepOnError(p)
  BY <1>3, QuietStep DEF StepTimeout, StepSkip, StepOnError, Iterate, rows
<1>4. CASE StepAsk(p)
  BY <1>4, AskStep
<1>5. CASE StepFail(p)
  <2> DEFINE new == [row EXCEPT !.status = "failed", !.done = @ \cup {row.step}]
  <2>1. Commit(p, new, CancelWrites(p, r)) /\ row.step \in Steps
    BY <1>5 DEF StepFail, Executing
  <2>2. new \in Row /\ new.exits = row.exits
    BY <1>1, <2>1 DEF Row, Terminal
  <2> HIDE DEF new
  <2> QED BY <1>1, <1>2, <2>1, <2>2, RestStep
<1>6. CASE StepComplete(p)
  <2> DEFINE new == [row EXCEPT !.status = "completed", !.due = "none"]
  <2>1. Commit(p, new, CancelWrites(p, r))
    BY <1>6 DEF StepComplete
  <2>2. new \in Row /\ new.exits = row.exits
    BY <1>1 DEF Row, Terminal
  <2> HIDE DEF new
  <2> QED BY <1>1, <1>2, <2>1, <2>2, RestStep
<1>7. CASE StepLimit(p)
  <2>1. Commit(p, row, mem[p].inter)
    BY <1>7 DEF StepLimit
  <2> QED BY <1>1, <2>1, RestStep DEF WritesOK
<1> QED BY <1>3, <1>4, <1>5, <1>6, <1>7 DEF Advance

\* Ends from outside, and everything that leaves the questions alone.
LEMMA OtherStep ==
    ASSUME HInv, QInv,
           \/ \E p \in Procs : \/ AdvanceAfterCommit(p) \/ SweepLock(p) \/ CancelWrite(p)
                               \/ DeadlockVictim(p) \/ Crash(p)
                               \/ \E m \in Msgs : ClaimStart(p, m)
                               \/ \E r \in Runs : SweepStart(p, r) \/ CancelRead(p, r) \/ Enroll(p, r)
           \/ \E r \in Runs : SendFailed(r) \/ Tick(r)
           \/ UNCHANGED vars
    PROVE  [Promise!QNext]_(Promise!qvars)
<1>0. run \in [Runs -> Row] /\ inter \in [Inters -> Interaction]
  BY DEF HInv, Inv, TypeOK, TypeRows
<1>1. ASSUME NEW r \in Runs PROVE \A i \in Inters : ClosedFor(r)[i].born = inter[i].born
  BY <1>0 DEF ClosedFor, Closed, Interaction
<1>2. ASSUME NEW p \in Procs, CancelWrite(p) PROVE [Promise!QNext]_(Promise!qvars)
  <2>1. PICK r \in Runs : r = job[p].run
    BY <1>2 DEF CancelWrite, HInv, Inv, JobOK
  <2>2. /\ \A x \in Runs \ {r} : run'[x] = run[x]
        /\ run'[r] = [run[r] EXCEPT !.status = "cancelled", !.due = "none"]
        /\ inter' = ClosedFor(r)
    BY <1>0, <1>2, <2>1 DEF CancelWrite
  <2>3. run'[r].status \in Terminal /\ run'[r].exits = run[r].exits
    BY <1>0, <2>2 DEF Row, Terminal
  <2> QED BY <1>1, <2>2, <2>3, EndStep DEF Ended
<1>3. ASSUME NEW r \in Runs, SendFailed(r) PROVE [Promise!QNext]_(Promise!qvars)
  <2>1. /\ \A x \in Runs \ {r} : run'[x] = run[x]
        /\ run'[r] = [run[r] EXCEPT !.status = "failed"] /\ inter' = ClosedFor(r)
    BY <1>0, <1>3 DEF SendFailed
  <2>2. run'[r].status \in Terminal /\ run'[r].exits = run[r].exits
    BY <1>0, <2>1 DEF Row, Terminal
  <2> QED BY <1>1, <2>1, <2>2, EndStep DEF Ended
<1>4. ASSUME NEW r \in Runs, Tick(r) PROVE [Promise!QNext]_(Promise!qvars)
  <2>1. inter' = inter /\ \A x \in Runs : run'[x].status = run[x].status /\ run'[x].exits = run[x].exits
    BY <1>0, <1>4 DEF Tick, Row
  <2> QED BY <2>1, EndStep DEF Ended
<1>5. ASSUME UNCHANGED <<run, inter>> PROVE [Promise!QNext]_(Promise!qvars)
  BY <1>5, QuietStep
<1> QED BY <1>2, <1>3, <1>4, <1>5
  DEF AdvanceAfterCommit, SweepLock, DeadlockVictim, Crash, ClaimStart, SweepStart, CancelRead,
      Enroll, Begin, rows, vars

-----------------------------------------------------------------------------
\* A question is asked once, and then one thing happens to it: one message
\* answers it, its deadline passes, or its run ends; a message answers one
\* question at most.  Claims, sweeps, cancels and crashes do no more than that.
THEOREM PromiseKept == Spec => KeepsPromise
<1>1. Init => Promise!QInit
  <2> SUFFICES ASSUME Init PROVE Promise!QInit
    OBVIOUS
  <2>1. ASSUME NEW i \in Inters PROVE QState(i) = "unasked" /\ QBy(i) = None
    BY <2>1 DEF Init, QState, QBy, NoRow, NoInter, Inters
  <2> QED BY <2>1 DEF Promise!QInit
<1>2. HInv /\ HInv' /\ QInv /\ [Next]_vars => [Promise!QNext]_(Promise!qvars)
  BY ClaimStep, AdvanceStep, OtherStep DEF Next, Work
<1> QED BY <1>1, <1>2, HInvHolds, QInvHolds, PTL DEF Spec, KeepsPromise, Promise!QSpec
=============================================================================
