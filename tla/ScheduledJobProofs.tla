-------------------------- MODULE ScheduledJobProofs --------------------------
(***************************************************************************)
(* Proofs about ScheduledJob: its type invariant, that an occurrence goes  *)
(* out at most once, and that a series that is over went out as often as   *)
(* it was to, for any drains, scenes, attempts and number of faults.       *)
(***************************************************************************)
EXTENDS ScheduledJob, FiniteSetTheorems, TLAPS

\* Each occurrence after the first was counted, or was too late, which is a
\* fault; f is the number of faults so far.
Numbered(r, s, f) == /\ r.occ <= r.count + 1 + f
                     /\ r.due = "late" => r.occ <= r.count + f
                     /\ r.count < s.times

\* The copy of a drain that has one.
HasCopy(step) == step \notin {"idle", "claim", "fire"}
CopyOK(d) == HasCopy(dpc[d]) => /\ dmy[d] \in Job /\ Numbered(dmy[d], scene, faults)
                                /\ dpc[d] = "late" => dmy[d].due = "late"
                                /\ dpc[d] = "recover" => dmy[d].status = "processing"

TInv == TypeOK /\ Numbered(row, scene, faults) /\ \A d \in Drainers : CopyOK(d)

\* The steps of a drain before the occurrence goes out, and from there to its record.
Before == {"fire", "late", "hold", "make", "queue", "dispatch"}
After == {"save", "mark"}

\* One drain at most is at work on the job ...
OneHolder == \A d, e \in Holding : d = e
\* ... and the row is PROCESSING until that drain has recorded what it did; it
\* works on the occurrence the row means.
Owns(d) == /\ IF dpc[d] = "arm" THEN row.status \notin {"scheduled", "processing"}
                                 ELSE row.status = "processing"
           /\ dpc[d] # "fire" => dmy[d].occ = row.occ
           /\ dpc[d] \in Before => fired[row.occ] = 0
           /\ dpc[d] = "mark" /\ scene.kind = "single" => row.msg
           /\ dpc[d] \in {"queue", "dispatch"} => scene.kind # "single"
HolderOwns == \A d \in Holding : Owns(d)
\* What may be claimed, or recovered to be claimed again, has not gone out.
NotYet == /\ row.status = "scheduled" => fired[row.occ] = 0
          /\ row.status = "processing" /\ fired[row.occ] # 0
                => row.msg \/ \E d \in Drainers : dpc[d] \in After
          /\ \A o \in Occs : o > row.occ => fired[o] = 0
          /\ \A o \in Occs : fired[o] <= 1

OnceInv == ~torn => OneHolder /\ HolderOwns /\ NotYet
IInv == TInv /\ OnceInv

-----------------------------------------------------------------------------
(* Types: the helpers.                                                     *)

LEMMA FaultBounded ==
    ASSUME TypeOK, NEW kind, Fault(kind)
    PROVE  faults' \in 0..scene.max /\ faults' >= faults
BY JobAssumption DEF TypeOK, Fault

LEMMA SceneTyped ==
    ASSUME TypeOK
    PROVE  /\ MaxOcc \in Nat \ {0} /\ MaxAttempts \in Nat \ {0} /\ faults \in Nat
           /\ scene.times \in 1..MaxOcc /\ scene.max \in Nat /\ scene.times + scene.max <= MaxOcc + 1
BY JobAssumption DEF TypeOK

\* A save that leaves the occurrence, the count and the message alone.
Same(q, r) == q.occ = r.occ /\ q.count = r.count /\ q.msg = r.msg /\ (q.due = "late" => r.due = "late")

LEMMA SentTyped ==
    ASSUME NEW r \in Job, NEW running
    PROVE  /\ Sent(r, running) \in Job /\ Same(Sent(r, running), r)
           /\ Sent(r, running).status \in {"running", "sent"}
BY DEF Sent, Job, Active, Terminal, Same

LEMMA FailedTyped ==
    ASSUME NEW r \in Job, NEW c \in Job, NEW terminal \in BOOLEAN
    PROVE  /\ Failed(r, c, terminal) \in Job /\ Same(Failed(r, c, terminal), r)
           /\ Failed(r, c, terminal).status \in {"failed", "scheduled"}
           /\ terminal => Failed(r, c, terminal).status = "failed"
<1> DEFINE over == terminal \/ c.attempts + 1 >= MaxAttempts
<1>1. c.attempts + 1 \in Nat /\ over \in BOOLEAN /\ (terminal => over)
  BY DEF Job
<1>2. Failed(r, c, terminal) = [r EXCEPT !.attempts = c.attempts + 1, !.old = FALSE, !.wait = ~over,
                                         !.status = IF over THEN "failed" ELSE "scheduled"]
  BY DEF Failed
<1> HIDE DEF over
<1> QED BY <1>1, <1>2 DEF Job, Active, Terminal, Same

LEMMA RecoveredTyped ==
    ASSUME NEW r \in Job, NEW c \in Job
    PROVE  /\ Recovered(r, c) \in Job /\ Same(Recovered(r, c), r)
           /\ Recovered(r, c).status \in {"sent", "failed", "scheduled"}
           /\ c.msg => Recovered(r, c).status = "sent"
<1>1. CASE c.msg
  <2>1. Recovered(r, c) = Sent(r, FALSE)
    BY <1>1 DEF Recovered
  <2>2. Sent(r, FALSE).status = "sent"
    BY DEF Sent, Job
  <2> QED BY <1>1, <2>1, <2>2, SentTyped
<1>2. CASE ~c.msg /\ c.attempts >= MaxAttempts
  BY <1>2, FailedTyped DEF Recovered
<1>3. CASE ~c.msg /\ ~(c.attempts >= MaxAttempts)
  <2>1. Recovered(r, c) = [r EXCEPT !.status = "scheduled", !.old = FALSE]
    BY <1>3 DEF Recovered
  <2> QED BY <1>3, <2>1 DEF Job, Active, Terminal, Same
<1> QED BY <1>1, <1>2, <1>3 DEF Job

LEMMA SameNumbered ==
    ASSUME TypeOK, NEW r \in Job, NEW q \in Job, Same(q, r), Numbered(r, scene, faults),
           NEW f \in Nat, f >= faults
    PROVE  Numbered(q, scene, f)
BY SceneTyped DEF Same, Numbered, Job, Occs

LEMMA MoreFaults ==
    ASSUME TypeOK, NEW r \in Job, Numbered(r, scene, faults), NEW f \in Nat, f >= faults
    PROVE  Numbered(r, scene, f)
BY SameNumbered DEF Same

\* The next occurrence, or the end of the series.
LEMMA ArmedTyped ==
    ASSUME TypeOK, NEW r \in Job, NEW c \in Job, NEW k \in 0..MaxOcc,
           Numbered(r, scene, faults), Numbered(c, scene, faults),
           c.occ <= k + faults + 1, k < scene.times
    PROVE  LET q == Armed(r, [c EXCEPT !.count = k])
           IN /\ q \in Job /\ Numbered(q, scene, faults) /\ q.msg = r.msg
              /\ \/ q.status = "completed" /\ q.occ = r.occ
                 \/ q.status = "scheduled" /\ q.occ = c.occ + 1
<1> DEFINE b == [c EXCEPT !.count = k]
<1>1. b \in Job /\ b.count = k /\ b.occ = c.occ
  BY DEF Job
<1>2. CASE Exhausted(b)
  <2>1. Armed(r, b) = [r EXCEPT !.status = "completed"]
    BY <1>2 DEF Armed
  <2> QED BY <2>1 DEF Job, Active, Terminal, Numbered
<1>3. CASE ~Exhausted(b)
  <2>1. Armed(r, b) = [r EXCEPT !.status = "scheduled", !.due = "later", !.wait = FALSE, !.attempts = 0,
                                !.count = k + 1, !.old = FALSE, !.occ = c.occ + 1]
    BY <1>1, <1>3 DEF Armed
  <2>2. k + 1 < scene.times /\ k + 1 \in 0..MaxOcc
    BY <1>1, <1>3, SceneTyped DEF Exhausted
  <2>3. c.occ + 1 \in Occs /\ c.occ + 1 <= (k + 1) + 1 + faults
    <3>1. c.occ \in Occs
      BY DEF Job
    <3>2. faults \in 0..scene.max
      BY DEF TypeOK
    <3>3. scene.times + faults <= MaxOcc + 1
      BY <3>2, SceneTyped
    <3> QED BY <2>2, <3>1, <3>3, SceneTyped DEF Occs
  <2> DEFINE q == Armed(r, b)
  <2>4. q \in Job /\ q.msg = r.msg /\ q.status = "scheduled" /\ q.occ = c.occ + 1
        /\ q.count = k + 1 /\ q.due = "later"
    <3> DEFINE a == [r EXCEPT !.status = "scheduled", !.due = "later", !.wait = FALSE, !.attempts = 0,
                              !.count = k + 1, !.old = FALSE, !.occ = c.occ + 1]
    <3>1. a \in Job
      BY <2>2, <2>3 DEF Job, Active, Terminal
    <3>2. a.msg = r.msg /\ a.status = "scheduled" /\ a.occ = c.occ + 1 /\ a.count = k + 1 /\ a.due = "later"
      BY DEF Job
    <3> HIDE DEF a
    <3> QED BY <2>1, <3>1, <3>2 DEF a
  <2> HIDE DEF q
  <2>5. Numbered(q, scene, faults)
    BY <2>2, <2>3, <2>4 DEF Numbered
  <2> QED BY <2>4, <2>5 DEF q
<1> QED BY <1>2, <1>3

-----------------------------------------------------------------------------
(* Types: what a step does to the drains.                                  *)

Typed == /\ dpc \in [Drainers -> Steps] /\ dmy \in [Drainers -> Job \cup {None}]
         /\ \A d \in Drainers : CopyOK(d)

LEMMA OthersTyped ==
    ASSUME TInv, UNCHANGED <<scene, dpc, dmy>>, faults' \in Nat, faults' >= faults
    PROVE  Typed'
<1>1. ASSUME NEW d \in Drainers PROVE CopyOK(d)'
  <2>1. CASE HasCopy(dpc[d])
    <3>1. dmy[d] \in Job /\ Numbered(dmy[d], scene, faults) /\ CopyOK(d)
      BY <2>1 DEF TInv, CopyOK
    <3>2. Numbered(dmy[d], scene, faults')
      BY <3>1, MoreFaults DEF TInv
    <3> QED BY <3>1, <3>2 DEF CopyOK
  <2>2. CASE ~HasCopy(dpc[d])
    BY <2>2 DEF CopyOK
  <2> QED BY <2>1, <2>2
<1> QED BY <1>1 DEF Typed, TInv, TypeOK

LEMMA WithTyped ==
    ASSUME TInv, NEW d \in Drainers, NEW step \in Steps, NEW copy \in Job \cup {None},
           UNCHANGED scene, faults' \in Nat, faults' >= faults, With(d, step, copy),
           HasCopy(step) => copy \in Job /\ Numbered(copy, scene, faults),
           step = "late" => copy.due = "late", step = "recover" => copy.status = "processing"
    PROVE  Typed'
<1>1. dpc' = [dpc EXCEPT ![d] = step] /\ dmy' = [dmy EXCEPT ![d] = copy]
  BY DEF With
<1>2. ASSUME NEW e \in Drainers PROVE CopyOK(e)'
  <2>1. dpc'[e] = (IF e = d THEN step ELSE dpc[e]) /\ dmy'[e] = (IF e = d THEN copy ELSE dmy[e])
    BY <1>1 DEF TInv, TypeOK
  <2>2. CASE e = d /\ HasCopy(step)
    <3>1. Numbered(copy, scene, faults')
      BY <2>2, MoreFaults DEF TInv
    <3> QED BY <2>1, <2>2, <3>1 DEF CopyOK
  <2>3. CASE e # d /\ HasCopy(dpc[e])
    <3>1. dmy[e] \in Job /\ Numbered(dmy[e], scene, faults) /\ CopyOK(e)
      BY <2>3 DEF TInv, CopyOK
    <3>2. Numbered(dmy[e], scene, faults')
      BY <3>1, MoreFaults DEF TInv
    <3> QED BY <2>1, <2>3, <3>1, <3>2 DEF CopyOK
  <2> QED BY <2>1, <2>2, <2>3 DEF CopyOK
<1> QED BY <1>1, <1>2 DEF Typed, TInv, TypeOK

LEMMA StopTyped ==
    ASSUME TInv, NEW d \in Drainers, UNCHANGED scene, faults' \in Nat, faults' >= faults, Stop(d)
    PROVE  Typed'
BY WithTyped DEF Stop, HasCopy, Steps

LEMMA GotoTyped ==
    ASSUME TInv, NEW d \in Drainers, NEW step \in Steps \ {"late", "recover"},
           UNCHANGED scene, faults' \in Nat, faults' >= faults, Goto(d, step),
           HasCopy(step) => HasCopy(dpc[d])
    PROVE  Typed'
<1>1. dmy[d] \in Job \cup {None} /\ With(d, step, dmy[d])
  BY DEF TInv, TypeOK, Goto, With
<1>2. HasCopy(step) => dmy[d] \in Job /\ Numbered(dmy[d], scene, faults)
  BY DEF TInv, CopyOK
<1> QED BY <1>1, <1>2, WithTyped

\* A drain at work has a copy with all this.
LEMMA CopyOf ==
    ASSUME TInv, NEW d \in Drainers, HasCopy(dpc[d])
    PROVE  dmy[d] \in Job /\ Numbered(dmy[d], scene, faults)
BY DEF TInv, CopyOK

LEMMA OutTyped ==
    ASSUME TypeOK, NEW d \in Drainers, GoesOut(d)
    PROVE  fired' \in [Occs -> 0..2]
<1>1. \A n \in 0..2 : (IF n < 2 THEN n + 1 ELSE n) \in 0..2
  OBVIOUS
<1> QED BY <1>1 DEF TypeOK, GoesOut

\* Together.
LEMMA TypesKept ==
    ASSUME TypeOK, scene' = scene, row' \in Job, Numbered(row', scene, faults'), Typed',
           faults' \in 0..scene.max, on' \in BOOLEAN, torn' \in BOOLEAN, fired' \in [Occs -> 0..2],
           camp' \in {"none", "scheduled", "queued", "cancelled", "failed", "completed"},
           user' \in {"none", "cancel", "cascade", "move"}
    PROVE  TInv'
BY DEF TypeOK, TInv, Typed

-----------------------------------------------------------------------------
(* Types: the actions.                                                     *)

LEMMA InitTyped == Init => TInv
<1> SUFFICES ASSUME Init PROVE TInv
  OBVIOUS
<1>1. 1 \in Occs /\ 0 \in 0..MaxOcc /\ scene.times \in Nat \ {0} /\ scene.max \in Nat
  BY JobAssumption DEF Init, Occs
<1>2. row \in Job /\ Numbered(row, scene, faults)
  BY <1>1 DEF Init, Job, Active, Terminal, Numbered
<1>3. dpc \in [Drainers -> Steps] /\ dmy \in [Drainers -> Job \cup {None}] /\ \A d \in Drainers : CopyOK(d)
  BY DEF Init, Steps, CopyOK, HasCopy
<1>4. faults \in 0..scene.max /\ fired \in [Occs -> 0..2] /\ scene \in Scenes
  BY <1>1 DEF Init
<1> QED BY <1>2, <1>3, <1>4 DEF Init, TInv, TypeOK

LEMMA ClaimTyped ==
    ASSUME TInv, NEW d \in Drainers, Drain(d) \/ Recover(d) \/ Claim(d) \/ Fire(d)
    PROVE  TInv'
<1> USE DEF worldVars, ghosts
<1>1. faults' = faults /\ scene' = scene /\ faults' \in Nat /\ faults' >= faults
  BY SceneTyped DEF TInv, Drain, Recover, Claim, Fire
<1>2. row \in Job /\ Numbered(row, scene, faults) /\ TypeOK
  BY DEF TInv, TypeOK
<1>3. CASE Drain(d)
  <2>1. Typed'
    <3>1. CASE With(d, "recover", row) /\ Stale
      BY <1>1, <1>2, <3>1, WithTyped DEF Steps, Stale
    <3>2. CASE Goto(d, "claim")
      BY <1>1, <3>2, GotoTyped DEF Steps, HasCopy
    <3> QED BY <1>3, <3>1, <3>2 DEF Drain
  <2> QED BY <1>1, <1>2, <1>3, <2>1, TypesKept DEF Drain, TypeOK
<1>4. CASE Recover(d)
  <2>1. HasCopy(dpc[d]) /\ dmy[d] \in Job
    BY <1>4, CopyOf DEF Recover, HasCopy
  <2>2. row' \in Job /\ Same(row', row)
    BY <1>2, <1>4, <2>1, RecoveredTyped DEF Recover
  <2>3. Numbered(row', scene, faults')
    BY <1>1, <1>2, <2>2, SameNumbered
  <2>4. Typed'
    BY <1>1, <1>4, GotoTyped DEF Recover, Steps, HasCopy
  <2>5. torn' \in BOOLEAN
    BY <1>4 DEF Recover
  <2> QED BY <1>1, <1>2, <1>4, <2>2, <2>3, <2>4, <2>5, TypesKept DEF Recover, TypeOK
<1>5. CASE Claim(d)
  <2>1. row' \in Job /\ Same(row', row)
    BY <1>2, <1>5 DEF Claim, Job, Active, Same
  <2>2. Numbered(row', scene, faults')
    BY <1>1, <1>2, <2>1, SameNumbered
  <2>3. Typed'
    BY <1>1, <1>5, GotoTyped, StopTyped DEF Claim, Steps, HasCopy
  <2> QED BY <1>1, <1>2, <1>5, <2>1, <2>2, <2>3, TypesKept DEF Claim, TypeOK
<1>6. CASE Fire(d)
  <2>1. Typed'
    <3>1. CASE Stop(d)
      BY <1>1, <3>1, StopTyped
    <3>2. ASSUME NEW step \in {"late", "hold", "make"}, With(d, step, row), step = "late" => row.due = "late"
          PROVE  Typed'
      BY <1>1, <1>2, <3>2, WithTyped DEF Steps
    <3>3. \/ Stop(d)
          \/ \E step \in {"late", "hold", "make"} : With(d, step, row) /\ (step = "late" => row.due = "late")
      <4> DEFINE step == CASE row.due = "late" -> "late" [] row.due # "late" /\ ~on -> "hold" [] OTHER -> "make"
      <4>1. step \in {"late", "hold", "make"} /\ (step = "late" => row.due = "late")
        OBVIOUS
      <4> QED BY <1>6, <4>1 DEF Fire
    <3> QED BY <3>1, <3>2, <3>3
  <2> QED BY <1>1, <1>2, <1>6, <2>1, TypesKept DEF Fire, TypeOK
<1> QED BY <1>3, <1>4, <1>5, <1>6

LEMMA LateTyped ==
    ASSUME TInv, NEW d \in Drainers, FireLate(d) \/ Hold(d)
    PROVE  TInv'
<1> USE DEF worldVars, ghosts
<1>1. faults' = faults /\ scene' = scene /\ faults' \in Nat /\ faults' >= faults
  <2>1. faults' = faults /\ scene' = scene
    BY DEF FireLate, Hold
  <2> QED BY <2>1, SceneTyped DEF TInv
<1>2. row \in Job /\ Numbered(row, scene, faults) /\ TypeOK
  BY DEF TInv, TypeOK
<1>3. Typed'
  BY <1>1, StopTyped DEF FireLate, Hold
<1>4. row' \in Job /\ Numbered(row', scene, faults')
  <2>1. CASE FireLate(d)
    <3> DEFINE c == dmy[d]
               k == IF c.count > 0 THEN c.count - 1 ELSE 0
    <3>1. c \in Job /\ Numbered(c, scene, faults) /\ c.due = "late"
      BY <2>1, CopyOf DEF FireLate, HasCopy, TInv, CopyOK
    <3>2. k \in 0..MaxOcc /\ k < scene.times /\ c.occ <= k + faults + 1
      BY <1>2, <3>1, SceneTyped DEF Job, Numbered, Occs
    <3>3. NotCounted(c) = [c EXCEPT !.count = k]
      BY DEF NotCounted
    <3>4. CASE scene.recurring
      <4>1. row' = Armed(row, [c EXCEPT !.count = k])
        BY <2>1, <3>3, <3>4 DEF FireLate
      <4> HIDE DEF k, c
      <4> QED BY <1>1, <1>2, <3>1, <3>2, <4>1, ArmedTyped
    <3>5. CASE ~scene.recurring
      <4>1. row' = Failed(row, c, TRUE)
        BY <2>1, <3>5 DEF FireLate
      <4> QED BY <1>1, <1>2, <3>1, <4>1, FailedTyped, SameNumbered
    <3> QED BY <3>4, <3>5
  <2>2. CASE Hold(d)
    <3>1. row' \in Job /\ Same(row', row)
      BY <1>2, <2>2 DEF Hold, Job, Active, Same
    <3> QED BY <1>1, <1>2, <3>1, SameNumbered
  <2> QED BY <2>1, <2>2
<1> QED BY <1>1, <1>2, <1>3, <1>4, TypesKept DEF FireLate, Hold, TypeOK

LEMMA SendTyped ==
    ASSUME TInv, NEW d \in Drainers, Make(d) \/ Look(d) \/ Queue(d) \/ Dispatch(d)
    PROVE  TInv'
<1> USE DEF worldVars, ghosts
<1>1. row \in Job /\ Numbered(row, scene, faults) /\ TypeOK /\ faults \in Nat
  BY SceneTyped DEF TInv, TypeOK
<1>2. scene' = scene /\ faults' \in 0..scene.max /\ faults' \in Nat /\ faults' >= faults
  <2>1. scene' = scene /\ (faults' = faults \/ Fault("refused"))
    BY DEF Make, Look, Queue, Dispatch
  <2>2. faults \in 0..scene.max /\ scene.max \in Nat
    BY <1>1, SceneTyped DEF TypeOK
  <2>3. CASE Fault("refused")
    BY <1>1, <2>1, <2>2, <2>3, FaultBounded
  <2> QED BY <2>1, <2>2, <2>3
<1>3. HasCopy(dpc[d]) /\ dmy[d] \in Job
  BY CopyOf DEF Make, Look, Queue, Dispatch, HasCopy
<1>4. fired' \in [Occs -> 0..2]
  BY <1>1, OutTyped DEF Make, Look, Queue, Dispatch, TypeOK
<1>5. row' \in Job /\ Same(row', row)
  <2>1. row' = row \/ \E terminal \in BOOLEAN : row' = Failed(row, dmy[d], terminal)
    BY DEF Make, Look, Queue, Dispatch
  <2>2. CASE row' = row
    BY <1>1, <2>2 DEF Same
  <2>3. ASSUME NEW terminal \in BOOLEAN, row' = Failed(row, dmy[d], terminal)
        PROVE  row' \in Job /\ Same(row', row)
    BY <1>1, <1>3, <2>3, FailedTyped
  <2> QED BY <2>1, <2>2, <2>3
<1>6. Numbered(row', scene, faults')
  BY <1>1, <1>2, <1>5, SameNumbered
<1>7. Typed'
  <2>1. Stop(d) \/ \E step \in {"save", "mark", "queue", "dispatch"} : Goto(d, step)
    BY DEF Make, Look, Queue, Dispatch
  <2>2. ASSUME NEW step \in {"save", "mark", "queue", "dispatch"}, Goto(d, step) PROVE Typed'
    BY <1>2, <1>3, <2>2, GotoTyped DEF Steps
  <2> QED BY <1>2, <2>1, <2>2, StopTyped
<1> QED BY <1>1, <1>2, <1>4, <1>5, <1>6, <1>7, TypesKept DEF Make, Look, Queue, Dispatch, TypeOK

LEMMA RecordTyped ==
    ASSUME TInv, NEW d \in Drainers, Save(d) \/ MarkSent(d) \/ Arm(d)
    PROVE  TInv'
<1> USE DEF worldVars, ghosts
<1>1. row \in Job /\ Numbered(row, scene, faults) /\ TypeOK /\ faults \in Nat
  BY SceneTyped DEF TInv, TypeOK
<1>2. scene' = scene /\ faults' = faults /\ faults' \in Nat /\ faults' >= faults
  BY <1>1 DEF Save, MarkSent, Arm
<1>3. HasCopy(dpc[d]) /\ dmy[d] \in Job /\ Numbered(dmy[d], scene, faults)
  BY CopyOf DEF Save, MarkSent, Arm, HasCopy
<1>4. Typed'
  <2>1. Stop(d) \/ \E step \in {"mark", "arm"} : Goto(d, step)
    BY DEF Save, MarkSent, Arm
  <2>2. ASSUME NEW step \in {"mark", "arm"}, Goto(d, step) PROVE Typed'
    BY <1>2, <1>3, <2>2, GotoTyped DEF Steps
  <2> QED BY <1>2, <2>1, <2>2, StopTyped
<1>5. row' \in Job /\ Numbered(row', scene, faults')
  <2>1. CASE Save(d)
    <3>1. row' \in Job /\ row'.occ = row.occ /\ row'.count = row.count /\ row'.due = row.due
      BY <1>1, <2>1 DEF Save, Job
    <3> QED BY <1>1, <1>2, <3>1 DEF Numbered
  <2>2. CASE MarkSent(d)
    BY <1>1, <1>2, <2>2, SentTyped, SameNumbered DEF MarkSent
  <2>3. CASE Arm(d)
    <3> DEFINE c == dmy[d]
    <3>1. c.count \in 0..MaxOcc /\ c = [c EXCEPT !.count = c.count]
      BY <1>3 DEF Job
    <3>2. c.occ <= c.count + faults + 1 /\ c.count < scene.times
      BY <1>1, <1>3 DEF Numbered, Job, Occs
    <3>3. row' = Armed(row, [c EXCEPT !.count = c.count])
      BY <2>3, <3>1 DEF Arm
    <3> HIDE DEF c
    <3> QED BY <1>1, <1>2, <1>3, <3>1, <3>2, <3>3, ArmedTyped DEF c
  <2> QED BY <2>1, <2>2, <2>3
<1> QED BY <1>1, <1>2, <1>4, <1>5, TypesKept DEF Save, MarkSent, Arm, TypeOK

LEMMA FaultTyped ==
    ASSUME TInv, NEW d \in Drainers, SaveFails(d) \/ Crash(d)
    PROVE  TInv'
<1> USE DEF worldVars, ghosts
<1>1. row \in Job /\ Numbered(row, scene, faults) /\ TypeOK
  BY DEF TInv, TypeOK
<1>2. scene' = scene /\ faults' \in 0..scene.max /\ faults' \in Nat /\ faults' >= faults
  <2>1. scene' = scene /\ (Fault("database") \/ Fault("crash"))
    BY DEF SaveFails, Crash
  <2>2. faults \in Nat /\ scene.max \in Nat
    BY <1>1, SceneTyped
  <2>3. faults' \in 0..scene.max /\ faults' >= faults
    BY <1>1, <2>1, FaultBounded
  <2> QED BY <2>1, <2>2, <2>3
<1>3. Typed'
  BY <1>2, StopTyped DEF SaveFails, Crash
<1>4. row' \in Job /\ Same(row', row)
  <2>1. row' = row \/ (HasCopy(dpc[d]) /\ row' = Failed(row, dmy[d], FALSE))
    BY DEF SaveFails, Crash, HasCopy
  <2>2. CASE row' = row
    BY <1>1, <2>2 DEF Same
  <2>3. CASE HasCopy(dpc[d]) /\ row' = Failed(row, dmy[d], FALSE)
    <3>1. dmy[d] \in Job
      BY <2>3, CopyOf
    <3> QED BY <1>1, <2>3, <3>1, FailedTyped
  <2> QED BY <2>1, <2>2, <2>3
<1>5. Numbered(row', scene, faults')
  BY <1>1, <1>2, <1>4, SameNumbered
<1>6. torn' \in BOOLEAN
  BY DEF SaveFails, Crash
<1> QED BY <1>1, <1>2, <1>3, <1>4, <1>5, <1>6, TypesKept DEF SaveFails, Crash, TypeOK

LEMMA UserTyped ==
    ASSUME TInv, (\E what \in {"cancel", "move"} : Ask(what)) \/ CancelJob \/ CancelCampaign \/ Reschedule
                 \/ Reconcile \/ Orphan
    PROVE  TInv'
<1> USE DEF worldVars, ghosts, drainVars
<1>1. row \in Job /\ Numbered(row, scene, faults) /\ TypeOK
  BY DEF TInv, TypeOK
<1>2. scene' = scene /\ faults' \in 0..scene.max /\ faults' \in Nat /\ faults' >= faults
  BY <1>1, FaultBounded, SceneTyped DEF Ask, CancelJob, CancelCampaign, Reschedule, Reconcile, Orphan, TypeOK
<1>3. Typed'
  BY <1>2, OthersTyped DEF Ask, CancelJob, CancelCampaign, Reschedule, Reconcile, Orphan
<1>4. row' \in Job /\ Same(row', row)
  <2>1. CASE UNCHANGED row
    BY <1>1, <2>1 DEF Same
  <2>2. CASE CancelJob
    BY <1>1, <2>2 DEF CancelJob, Job, Terminal, Same
  <2>3. CASE Reschedule
    BY <1>1, <2>3 DEF Reschedule, Job, Active, Same
  <2>4. CASE Reconcile
    BY <1>1, <2>4 DEF Reconcile, Job, Terminal, Same
  <2> QED BY <2>1, <2>2, <2>3, <2>4 DEF Ask, CancelCampaign, Orphan
<1>5. Numbered(row', scene, faults')
  BY <1>1, <1>2, <1>4, SameNumbered
<1>6. torn' \in BOOLEAN /\ user' \in {"none", "cancel", "cascade", "move"}
  BY <1>1 DEF Ask, CancelJob, CancelCampaign, Reschedule, Reconcile, Orphan, TypeOK
<1>7. /\ on' \in BOOLEAN /\ fired' \in [Occs -> 0..2]
      /\ camp' \in {"none", "scheduled", "queued", "cancelled", "failed", "completed"}
  BY <1>1 DEF Ask, CancelJob, CancelCampaign, Reschedule, Reconcile, Orphan, TypeOK
<1> QED BY <1>1, <1>2, <1>3, <1>4, <1>5, <1>6, <1>7, TypesKept

LEMMA WorldTyped ==
    ASSUME TInv, World
    PROVE  TInv'
<1> USE DEF worldVars, ghosts, drainVars
<1>1. row \in Job /\ Numbered(row, scene, faults) /\ TypeOK
  BY DEF TInv, TypeOK
<1>2. scene' = scene /\ faults' \in 0..scene.max /\ faults' \in Nat /\ faults' >= faults
  BY <1>1, FaultBounded, SceneTyped
  DEF World, FireTime, TooLate, BackoffOver, TenMinutes, CampaignDone, SwitchOff, SwitchOn, TypeOK
<1>3. Typed'
  BY <1>2, OthersTyped DEF World, FireTime, TooLate, BackoffOver, TenMinutes, CampaignDone, SwitchOff, SwitchOn
<1>4. row' \in Job /\ Numbered(row', scene, faults')
  <2>1. CASE TooLate
    <3>1. faults' = faults + 1 /\ row' = [row EXCEPT !.due = "late"]
      BY <2>1 DEF TooLate, Fault
    <3> QED BY <1>1, <3>1, SceneTyped DEF Numbered, Job, Occs
  <2>2. CASE row' \in Job /\ Same(row', row)
    BY <1>1, <1>2, <2>2, SameNumbered
  <2>3. TooLate \/ (row' \in Job /\ Same(row', row))
    BY <1>1 DEF World, FireTime, BackoffOver, TenMinutes, CampaignDone, SwitchOff, SwitchOn, Job, Same
  <2> QED BY <2>1, <2>2, <2>3
<1>5. /\ on' \in BOOLEAN /\ fired' \in [Occs -> 0..2] /\ torn' \in BOOLEAN
      /\ camp' \in {"none", "scheduled", "queued", "cancelled", "failed", "completed"}
      /\ user' \in {"none", "cancel", "cascade", "move"}
  BY <1>1 DEF World, FireTime, TooLate, BackoffOver, TenMinutes, CampaignDone, SwitchOff, SwitchOn, TypeOK
<1> QED BY <1>1, <1>2, <1>3, <1>4, <1>5, TypesKept

LEMMA NextTyped == TInv /\ [Next]_vars => TInv'
<1> SUFFICES ASSUME TInv, [Next]_vars PROVE TInv'
  OBVIOUS
<1>1. ASSUME NEW d \in Drainers, DrainStep(d) PROVE TInv'
  BY <1>1, ClaimTyped, LateTyped, SendTyped, RecordTyped DEF DrainStep
<1>2. CASE UNCHANGED vars
  <2>1. Typed' /\ faults' \in Nat
    BY <1>2, OthersTyped, SceneTyped DEF vars, TInv
  <2> QED BY <1>2, <2>1, TypesKept DEF vars, TInv, TypeOK
<1> QED BY <1>1, <1>2, ClaimTyped, FaultTyped, UserTyped, WorldTyped DEF Next, Users

\* Type correctness, for any drains, scenes, series, attempts and faults.
THEOREM TypeCorrect == Spec => []TypeOK
<1>1. TInv => TypeOK
  BY DEF TInv
<1> QED BY <1>1, InitTyped, NextTyped, PTL DEF Spec

-----------------------------------------------------------------------------
(* An occurrence goes out once: the frames.                                *)

\* Nothing that matters changes.
LEMMA NothingMoves ==
    ASSUME OnceInv, UNCHANGED <<scene, dpc, dmy, fired>>, torn => torn',
           row'.status = row.status, row'.occ = row.occ, row'.msg = row.msg
    PROVE  OnceInv'
BY DEF OnceInv, OneHolder, HolderOwns, Owns, NotYet, Holding

\* A drain takes a step, and no other drain is at work on the job.
LEMMA OneMoves ==
    ASSUME NEW d \in Drainers, Holding \subseteq {d}, \A e \in Drainers \ {d} : dpc'[e] = dpc[e],
           d \in Holding' => Owns(d)', NotYet'
    PROVE  OnceInv'
<1>1. Holding' \subseteq {d}
  BY DEF Holding
<1> QED BY <1>1 DEF OnceInv, OneHolder, HolderOwns, Holding

\* A drain that is not at work on the job takes a step.
LEMMA BystanderMoves ==
    ASSUME TypeOK, OnceInv, NEW d \in Drainers, d \notin Holding, d \notin Holding',
           \A e \in Drainers \ {d} : dpc'[e] = dpc[e] /\ dmy'[e] = dmy[e],
           UNCHANGED <<scene, row, fired>>, torn => torn'
    PROVE  OnceInv'
<1> SUFFICES ASSUME ~torn' PROVE (OneHolder /\ HolderOwns /\ NotYet)'
  BY DEF OnceInv
<1>1. OneHolder /\ HolderOwns /\ NotYet
  BY DEF OnceInv
<1>2. Holding' = Holding
  BY DEF Holding
<1>3. \A e \in Holding : Owns(e)'
  BY <1>1 DEF HolderOwns, Owns, Holding
<1>4. \A e \in Drainers : dpc[e] \in After => e \in Holding /\ e # d /\ dpc'[e] = dpc[e]
  BY DEF After, Holding
<1> QED BY <1>1, <1>2, <1>3, <1>4 DEF OneHolder, HolderOwns, NotYet

LEMMA Moved ==
    ASSUME TypeOK, NEW d \in Drainers, NEW step,
           Goto(d, step) \/ (step = "idle" /\ Stop(d)) \/ \E c : With(d, step, c)
    PROVE  dpc'[d] = step /\ \A e \in Drainers \ {d} : dpc'[e] = dpc[e] /\ dmy'[e] = dmy[e]
BY DEF TypeOK, Goto, Stop, With

\* The drain at work, when nothing is torn.
LEMMA TheHolder ==
    ASSUME OnceInv, ~torn, NEW d \in Drainers, dpc[d] \notin {"idle", "recover", "claim"}
    PROVE  Holding \subseteq {d} /\ Owns(d) /\ NotYet
BY DEF OnceInv, OneHolder, HolderOwns, Holding

\* No drain is at work on a SCHEDULED job.
LEMMA NobodyHolds ==
    ASSUME OnceInv, ~torn, row.status = "scheduled"
    PROVE  Holding = {} /\ NotYet /\ fired[row.occ] = 0
BY DEF OnceInv, HolderOwns, Owns, NotYet

LEMMA WentOut ==
    ASSUME TInv, NotYet, NEW d \in Drainers, GoesOut(d), dmy[d].occ = row.occ, fired[row.occ] = 0
    PROVE  /\ \A o \in Occs : fired'[o] = IF o = row.occ THEN 1 ELSE fired[o]
           /\ row.occ \in Occs /\ row.occ \in Nat
BY DEF TInv, TypeOK, GoesOut, Job, Occs

-----------------------------------------------------------------------------
(* An occurrence goes out once: the actions.                               *)

LEMMA InitOnce == Init => OnceInv
BY JobAssumption DEF Init, OnceInv, OneHolder, HolderOwns, NotYet, Holding, Occs

LEMMA ClaimOnce ==
    ASSUME TInv, OnceInv, NEW d \in Drainers, Drain(d) \/ Recover(d) \/ Claim(d) \/ Fire(d)
    PROVE  OnceInv'
<1> USE DEF worldVars, ghosts
<1>0. TypeOK /\ row \in Job
  BY DEF TInv, TypeOK
<1>1. CASE Drain(d)
  <2>1. dpc'[d] \in {"recover", "claim"} /\ \A e \in Drainers \ {d} : dpc'[e] = dpc[e] /\ dmy'[e] = dmy[e]
    BY <1>0, <1>1, Moved DEF Drain
  <2> QED BY <1>0, <1>1, <2>1, BystanderMoves DEF Drain, Holding
<1>2. CASE Recover(d)
  <2> SUFFICES ASSUME ~torn' PROVE OnceInv'
    BY DEF OnceInv
  <2>1. ~torn /\ Holding = {} /\ row = dmy[d]
    BY <1>2 DEF Recover
  <2>2. dpc'[d] = "claim" /\ \A e \in Drainers \ {d} : dpc'[e] = dpc[e]
    BY <1>0, <1>2, Moved DEF Recover
  <2>3. row.status = "processing" /\ row' = Recovered(row, row)
    BY <1>2, <2>1 DEF Recover, TInv, CopyOK, HasCopy
  <2>4. row'.occ = row.occ /\ row'.status # "processing" /\ (row.msg => row'.status = "sent")
    BY <1>0, <2>3, RecoveredTyped DEF Same
  <2>5. NotYet
    BY <2>1 DEF OnceInv
  <2>6. fired[row.occ] # 0 => row.msg
    BY <2>1, <2>3, <2>5 DEF NotYet, Holding, After
  <2>7. fired' = fired /\ NotYet'
    BY <1>2, <2>3, <2>4, <2>5, <2>6 DEF Recover, NotYet
  <2> QED BY <2>1, <2>2, <2>7, OneMoves DEF Holding
<1>3. CASE Claim(d)
  <2>1. CASE Claimable
    <3> SUFFICES ASSUME ~torn' PROVE OnceInv'
      BY DEF OnceInv
    <3>1. ~torn /\ row.status = "scheduled" /\ row' = [row EXCEPT !.status = "processing", !.old = FALSE] /\ Goto(d, "fire")
      BY <1>3, <2>1 DEF Claim, Claimable
    <3>2. Holding = {} /\ NotYet /\ fired[row.occ] = 0
      BY <3>1, NobodyHolds
    <3>3. dpc'[d] = "fire" /\ \A e \in Drainers \ {d} : dpc'[e] = dpc[e]
      BY <1>0, <3>1, Moved
    <3>4. row'.status = "processing" /\ row'.occ = row.occ /\ fired' = fired
      BY <1>0, <1>3, <3>1 DEF Claim, Job
    <3>5. NotYet' /\ Owns(d)'
      BY <3>2, <3>3, <3>4 DEF NotYet, Owns
    <3> QED BY <3>2, <3>3, <3>5, OneMoves
  <2>2. CASE ~Claimable
    <3>1. dpc'[d] = "idle" /\ \A e \in Drainers \ {d} : dpc'[e] = dpc[e] /\ dmy'[e] = dmy[e]
      BY <1>0, <1>3, <2>2, Moved DEF Claim
    <3> QED BY <1>0, <1>3, <2>2, <3>1, BystanderMoves DEF Claim, Holding
  <2> QED BY <2>1, <2>2
<1>4. CASE Fire(d)
  <2> SUFFICES ASSUME ~torn' PROVE OnceInv'
    BY DEF OnceInv
  <2>1. ~torn /\ dpc[d] = "fire" /\ row' = row /\ fired' = fired /\ scene' = scene
    BY <1>4 DEF Fire
  <2>2. Holding \subseteq {d} /\ Owns(d) /\ NotYet
    BY <2>1, TheHolder
  <2>3. row.status = "processing" /\ fired[row.occ] = 0
    BY <2>1, <2>2 DEF Owns, Before
  <2>4. PICK step \in {"late", "hold", "make"} : With(d, step, row)
    BY <1>4, <2>3 DEF Fire
  <2>5. dpc'[d] = step /\ dmy'[d] = row /\ \A e \in Drainers \ {d} : dpc'[e] = dpc[e]
    BY <1>0, <2>4 DEF With, TypeOK
  <2>6. Owns(d)' /\ NotYet'
    BY <2>1, <2>2, <2>3, <2>5 DEF Owns, NotYet
  <2> QED BY <2>2, <2>5, <2>6, OneMoves
<1> QED BY <1>1, <1>2, <1>3, <1>4

LEMMA LateOnce ==
    ASSUME TInv, OnceInv, NEW d \in Drainers, FireLate(d) \/ Hold(d)
    PROVE  OnceInv'
<1> USE DEF worldVars, ghosts
<1> SUFFICES ASSUME ~torn' PROVE OnceInv'
  BY DEF OnceInv
<1>1. ~torn /\ dpc[d] \in {"late", "hold"} /\ fired' = fired /\ Stop(d) /\ row \in Job /\ TypeOK
  BY DEF FireLate, Hold, TInv, TypeOK
<1>2. Holding \subseteq {d} /\ Owns(d) /\ NotYet /\ dmy[d] \in Job /\ Numbered(dmy[d], scene, faults)
  BY <1>1, TheHolder, CopyOf DEF HasCopy
<1>3. dmy[d].occ = row.occ /\ fired[row.occ] = 0 /\ row.occ \in Nat
  BY <1>1, <1>2 DEF Owns, Before, Job, Occs
<1>4. dpc'[d] = "idle" /\ \A e \in Drainers \ {d} : dpc'[e] = dpc[e]
  BY <1>1, Moved
<1>5. row'.occ \in Nat /\ row'.status # "processing"
      /\ (row'.occ = row.occ \/ (row'.occ = row.occ + 1))
  <2>1. CASE FireLate(d)
    <3> DEFINE c == NotCounted(dmy[d])
    <3>1. c.occ = row.occ
      BY <1>2, <1>3 DEF NotCounted, Job
    <3>2. CASE scene.recurring /\ Exhausted(c)
      BY <1>1, <1>3, <2>1, <3>2 DEF FireLate, Armed, Job
    <3>3. CASE scene.recurring /\ ~Exhausted(c)
      <4>1. row' = [row EXCEPT !.status = "scheduled", !.due = "later", !.wait = FALSE, !.attempts = 0,
                               !.count = c.count + 1, !.old = FALSE, !.occ = c.occ + 1]
        BY <2>1, <3>3 DEF FireLate, Armed
      <4> HIDE DEF c
      <4> QED BY <1>1, <1>3, <3>1, <4>1 DEF Job
    <3>4. CASE ~scene.recurring
      BY <1>1, <1>2, <1>3, <2>1, <3>4, FailedTyped DEF FireLate, Same
    <3> QED BY <3>2, <3>3, <3>4
  <2>2. CASE Hold(d)
    BY <1>1, <1>3, <2>2 DEF Hold, Job
  <2> QED BY <2>1, <2>2
<1>7. NotYet'
  <2>1. fired[row'.occ] = 0
    <3>1. row'.occ \in Occs
      BY LateTyped DEF TInv, TypeOK, Job
    <3> QED BY <1>2, <1>3, <1>5, <3>1 DEF NotYet
  <2>2. \A o \in Occs : o > row'.occ => o > row.occ
    BY <1>3, <1>5 DEF Occs
  <2> QED BY <1>1, <1>2, <1>5, <2>1, <2>2 DEF NotYet
<1> QED BY <1>2, <1>4, <1>7, OneMoves DEF Holding

LEMMA SendOnce ==
    ASSUME TInv, OnceInv, NEW d \in Drainers, Make(d) \/ Look(d) \/ Queue(d) \/ Dispatch(d)
    PROVE  OnceInv'
<1> USE DEF worldVars, ghosts
<1> SUFFICES ASSUME ~torn' PROVE OnceInv'
  BY DEF OnceInv
<1>1. /\ ~torn /\ dpc[d] \in {"make", "queue", "dispatch"} /\ scene' = scene /\ row \in Job /\ TypeOK
  BY DEF Make, Look, Queue, Dispatch, TInv, TypeOK
<1>2. Holding \subseteq {d} /\ Owns(d) /\ NotYet /\ dmy[d] \in Job
  BY <1>1, TheHolder, CopyOf DEF HasCopy
<1>3. dmy[d].occ = row.occ /\ fired[row.occ] = 0 /\ row.status = "processing"
  BY <1>1, <1>2 DEF Owns, Before
<1>4. CASE GoesOut(d) /\ row' = row /\ \E step \in {"save", "mark"} : Goto(d, step) /\ (step = "mark" => scene.kind # "single")
  <2>1. PICK step \in {"save", "mark"} : Goto(d, step) /\ (step = "mark" => scene.kind # "single")
    BY <1>4
  <2>2. dpc'[d] = step /\ dmy'[d] = dmy[d] /\ \A e \in Drainers \ {d} : dpc'[e] = dpc[e]
    BY <1>1, <2>1 DEF Goto, TypeOK
  <2>3. /\ \A o \in Occs : fired'[o] = IF o = row.occ THEN 1 ELSE fired[o]
        /\ row.occ \in Occs /\ row.occ \in Nat
    BY <1>2, <1>3, <1>4, WentOut
  <2>4. NotYet'
    BY <1>2, <1>3, <1>4, <2>2, <2>3 DEF NotYet, After, Occs
  <2>5. Owns(d)'
    BY <1>1, <1>3, <1>4, <2>1, <2>2 DEF Owns, Before
  <2> QED BY <1>2, <2>2, <2>4, <2>5, OneMoves
<1>5. CASE fired' = fired /\ row' = row /\ scene.kind # "single" /\ \E step \in {"queue", "dispatch"} : Goto(d, step)
  <2>1. PICK step \in {"queue", "dispatch"} : Goto(d, step)
    BY <1>5
  <2>2. dpc'[d] = step /\ dmy'[d] = dmy[d] /\ \A e \in Drainers \ {d} : dpc'[e] = dpc[e]
    BY <1>1, <2>1 DEF Goto, TypeOK
  <2>3. NotYet' /\ Owns(d)'
    <3>1. NotYet'
      BY <1>2, <1>3, <1>5 DEF NotYet
    <3> QED BY <1>1, <1>3, <1>5, <2>2, <3>1 DEF Owns
  <2> QED BY <1>2, <2>2, <2>3, OneMoves
<1>6. CASE fired' = fired /\ Stop(d) /\ \E terminal \in BOOLEAN : row' = Failed(row, dmy[d], terminal)
  <2>1. dpc'[d] = "idle" /\ \A e \in Drainers \ {d} : dpc'[e] = dpc[e]
    BY <1>1, <1>6, Moved
  <2>2. row'.occ = row.occ /\ row'.status # "processing"
    <3>1. PICK terminal \in BOOLEAN : row' = Failed(row, dmy[d], terminal)
      BY <1>6
    <3> QED BY <1>1, <1>2, <3>1, FailedTyped DEF Same
  <2>3. NotYet'
    BY <1>2, <1>3, <1>6, <2>2 DEF NotYet
  <2> QED BY <1>2, <2>1, <2>3, OneMoves DEF Holding
<1>7. CASE Make(d)
  BY <1>4, <1>6, <1>7 DEF Make, TInv, TypeOK
<1>8. CASE Look(d)
  BY <1>5, <1>6, <1>8 DEF Look
<1>9. CASE Queue(d)
  BY <1>2, <1>5, <1>9 DEF Queue, Owns
<1>10. CASE Dispatch(d)
  BY <1>2, <1>4, <1>10 DEF Dispatch, Owns
<1> QED BY <1>7, <1>8, <1>9, <1>10

LEMMA RecordOnce ==
    ASSUME TInv, OnceInv, NEW d \in Drainers, Save(d) \/ MarkSent(d) \/ Arm(d)
    PROVE  OnceInv'
<1> USE DEF worldVars, ghosts
<1> SUFFICES ASSUME ~torn' PROVE OnceInv'
  BY DEF OnceInv
<1>1. /\ ~torn /\ dpc[d] \in {"save", "mark", "arm"} /\ scene' = scene /\ fired' = fired
      /\ row \in Job /\ TypeOK
  BY DEF Save, MarkSent, Arm, TInv, TypeOK
<1>2. Holding \subseteq {d} /\ Owns(d) /\ NotYet /\ dmy[d] \in Job
  BY <1>1, TheHolder, CopyOf DEF HasCopy
<1>3. dmy[d].occ = row.occ /\ row.occ \in Nat
  BY <1>1, <1>2 DEF Owns, Job, Occs
<1>4. CASE Save(d)
  <2>1. dpc'[d] = "mark" /\ dmy'[d] = dmy[d] /\ \A e \in Drainers \ {d} : dpc'[e] = dpc[e]
    BY <1>1, <1>4 DEF Save, Goto, TypeOK
  <2>2. row'.msg /\ row'.occ = row.occ /\ row'.status = "processing"
    BY <1>1, <1>2, <1>4 DEF Save, Job, Owns
  <2>3. NotYet' /\ Owns(d)'
    BY <1>1, <1>2, <1>3, <2>1, <2>2 DEF NotYet, Owns, Before
  <2> QED BY <1>2, <2>1, <2>3, OneMoves
<1>5. CASE MarkSent(d)
  <2>1. row'.occ = row.occ /\ row'.status \in {"running", "sent"}
    BY <1>1, <1>5, SentTyped DEF MarkSent, Same
  <2>2. NotYet'
    BY <1>1, <1>2, <2>1 DEF NotYet
  <2>3. CASE Goto(d, "arm")
    <3>1. dpc'[d] = "arm" /\ dmy'[d] = dmy[d] /\ \A e \in Drainers \ {d} : dpc'[e] = dpc[e]
      BY <1>1, <2>3 DEF Goto, TypeOK
    <3>2. Owns(d)'
      BY <1>1, <1>3, <2>1, <3>1 DEF Owns, Before
    <3> QED BY <1>2, <2>2, <3>1, <3>2, OneMoves
  <2>4. CASE Stop(d)
    <3>1. dpc'[d] = "idle" /\ \A e \in Drainers \ {d} : dpc'[e] = dpc[e]
      BY <1>1, <2>4, Moved
    <3> QED BY <1>2, <2>2, <3>1, OneMoves DEF Holding
  <2> QED BY <1>5, <2>3, <2>4 DEF MarkSent
<1>6. CASE Arm(d)
  <2>1. dpc'[d] = "idle" /\ \A e \in Drainers \ {d} : dpc'[e] = dpc[e]
    BY <1>1, <1>6, Moved DEF Arm
  <2>2. row' \in Job
    BY <1>6, RecordTyped DEF TInv, TypeOK
  <2>3. \/ row'.occ = row.occ /\ row'.status \notin {"scheduled", "processing"}
        \/ row'.occ = row.occ + 1 /\ row'.status # "processing"
    <3> DEFINE c == dmy[d]
    <3>1. CASE Exhausted(c)
      BY <1>1, <1>6, <3>1 DEF Arm, Armed, Job
    <3>2. CASE ~Exhausted(c)
      <4>1. row' = [row EXCEPT !.status = "scheduled", !.due = "later", !.wait = FALSE, !.attempts = 0,
                               !.count = c.count + 1, !.old = FALSE, !.occ = c.occ + 1]
        BY <1>6, <3>2 DEF Arm, Armed
      <4> QED BY <1>1, <1>3, <4>1 DEF Job
    <3> QED BY <3>1, <3>2
  <2>4. NotYet'
    <3>1. row'.occ \in Occs /\ row'.occ \in Nat
      BY <2>2 DEF Job, Occs
    <3>2. row'.status = "scheduled" => fired[row'.occ] = 0
      BY <1>2, <1>3, <2>3, <3>1 DEF NotYet
    <3>3. \A o \in Occs : o > row'.occ => o > row.occ
      BY <1>3, <2>3, <3>1 DEF Occs
    <3> QED BY <1>1, <1>2, <2>3, <3>2, <3>3 DEF NotYet
  <2> QED BY <1>2, <2>1, <2>4, OneMoves DEF Holding
<1> QED BY <1>4, <1>5, <1>6

LEMMA FaultOnce ==
    ASSUME TInv, OnceInv, NEW d \in Drainers, SaveFails(d) \/ Crash(d)
    PROVE  OnceInv'
<1> USE DEF worldVars, ghosts
<1> SUFFICES ASSUME ~torn' PROVE OnceInv'
  BY DEF OnceInv
<1>1. ~torn /\ ~Unrecorded(d) /\ Stop(d) /\ fired' = fired /\ scene' = scene /\ row \in Job /\ TypeOK
  BY DEF SaveFails, Crash, TInv, TypeOK
<1>2. dpc'[d] = "idle" /\ \A e \in Drainers \ {d} : dpc'[e] = dpc[e] /\ dmy'[e] = dmy[e]
  BY <1>1, Moved
<1>3. CASE d \notin Holding
  <2>1. row' = row
    BY <1>3 DEF SaveFails, Crash, Holding
  <2> QED BY <1>1, <1>2, <1>3, <2>1, BystanderMoves DEF Holding
<1>4. CASE d \in Holding
  <2>1. Holding \subseteq {d} /\ Owns(d) /\ NotYet
    BY <1>1, <1>4, TheHolder DEF Holding
  <2>2. scene.kind \in {"single", "campaign"} /\ dpc[d] \in Steps
    BY <1>1, JobAssumption DEF TypeOK
  <2>3. row.status = "processing" => fired[row.occ] = 0 \/ row.msg
    BY <1>1, <1>4, <2>1, <2>2 DEF Owns, Unrecorded, Before, Steps, Holding
  <2>4. CASE row' = row
    <3>1. NotYet'
      BY <1>1, <2>1, <2>3, <2>4 DEF NotYet
    <3> QED BY <1>2, <2>1, <3>1, OneMoves DEF Holding
  <2>5. CASE dpc[d] = "queue" /\ row' = Failed(row, dmy[d], FALSE)
    <3>1. dmy[d] \in Job /\ fired[row.occ] = 0
      BY <2>1, <2>5, CopyOf DEF HasCopy, Owns, Before
    <3>2. row'.occ = row.occ /\ row'.status # "processing"
      BY <1>1, <2>5, <3>1, FailedTyped DEF Same
    <3>3. NotYet'
      BY <1>1, <2>1, <3>1, <3>2 DEF NotYet
    <3> QED BY <1>2, <2>1, <3>3, OneMoves DEF Holding
  <2> QED BY <1>1, <2>4, <2>5 DEF SaveFails, Crash, Unrecorded
<1> QED BY <1>3, <1>4

LEMMA UserOnce ==
    ASSUME TInv, OnceInv,
           (\E what \in {"cancel", "move"} : Ask(what)) \/ CancelJob \/ CancelCampaign \/ Reschedule
           \/ Reconcile \/ Orphan
    PROVE  OnceInv'
<1> USE DEF worldVars, ghosts, drainVars
<1>0. row \in Job
  BY DEF TInv, TypeOK
<1>1. CASE (\E what \in {"cancel", "move"} : Ask(what)) \/ CancelCampaign \/ Orphan
  BY <1>1, NothingMoves DEF Ask, CancelCampaign, Orphan
<1>2. CASE CancelJob \/ Reschedule
  <2> SUFFICES ASSUME ~torn' PROVE OnceInv'
    BY DEF OnceInv
  <2>1. ~torn /\ row.status = "scheduled"
    BY <1>2 DEF CancelJob, Reschedule
  <2>2. Holding = {} /\ NotYet /\ fired[row.occ] = 0
    BY <2>1, NobodyHolds
  <2>3. row'.occ = row.occ /\ row'.status \in {"scheduled", "cancelled"}
    BY <1>0, <1>2 DEF CancelJob, Reschedule, Job
  <2>4. Holding' = {} /\ fired' = fired
    BY <1>2, <2>2 DEF CancelJob, Reschedule, Holding
  <2> QED BY <2>2, <2>3, <2>4 DEF OnceInv, OneHolder, HolderOwns, NotYet
<1>3. CASE Reconcile
  <2> SUFFICES ASSUME ~torn' PROVE OnceInv'
    BY DEF OnceInv
  <2>1. ~torn /\ row.status = "running" /\ UNCHANGED <<scene, dpc, dmy, fired>>
    BY <1>3 DEF Reconcile
  <2>2. row'.occ = row.occ /\ row'.msg = row.msg /\ row'.status \in {"completed", "failed"}
    BY <1>0, <1>3 DEF Reconcile, Job
  <2>3. OneHolder /\ HolderOwns /\ NotYet /\ Holding' = Holding
    BY <2>1 DEF OnceInv, Holding
  <2>4. HolderOwns'
    BY <2>1, <2>2, <2>3 DEF HolderOwns, Owns
  <2> QED BY <2>1, <2>2, <2>3, <2>4 DEF OnceInv, OneHolder, NotYet
<1> QED BY <1>1, <1>2, <1>3

LEMMA WorldOnce ==
    ASSUME TInv, OnceInv, World
    PROVE  OnceInv'
<1>1. row \in Job
  BY DEF TInv, TypeOK
<1>2. row'.status = row.status /\ row'.occ = row.occ /\ row'.msg = row.msg
  BY <1>1 DEF World, FireTime, TooLate, BackoffOver, TenMinutes, CampaignDone, SwitchOff, SwitchOn, Job
<1> QED BY <1>2, NothingMoves
  DEF World, FireTime, TooLate, BackoffOver, TenMinutes, CampaignDone, SwitchOff, SwitchOn,
      worldVars, ghosts, drainVars

LEMMA NextOnce == TInv /\ OnceInv /\ [Next]_vars => OnceInv'
<1> SUFFICES ASSUME TInv, OnceInv, [Next]_vars PROVE OnceInv'
  OBVIOUS
<1>1. ASSUME NEW d \in Drainers, DrainStep(d) PROVE OnceInv'
  BY <1>1, ClaimOnce, LateOnce, SendOnce, RecordOnce DEF DrainStep
<1>2. CASE UNCHANGED vars
  BY <1>2, NothingMoves DEF vars
<1> QED BY <1>1, <1>2, ClaimOnce, FaultOnce, UserOnce, WorldOnce DEF Next, Users

\* drainer.py, "Concurrency safety": whatever drains overlap, die, are held up, retry
\* and recover, and whatever users do, an occurrence goes out at most once, unless it
\* was torn.
THEOREM FireOnce == Spec => []FiredOnce
<1>1. IInv => FiredOnce
  BY DEF IInv, OnceInv, NotYet, FiredOnce
<1>2. Init => IInv
  BY InitTyped, InitOnce DEF IInv
<1>3. IInv /\ [Next]_vars => IInv'
  BY NextTyped, NextOnce DEF IInv
<1> QED BY <1>1, <1>2, <1>3, PTL DEF Spec


-----------------------------------------------------------------------------
(* A series goes out as often as it was to.                                *)

\* A series has no campaign of its own to be queued.
NeverInv == scene.recurring => /\ camp \notin {"queued", "completed"}
                               /\ \A d \in Drainers : dpc[d] \notin {"queue", "dispatch"}

\* While no drain dies, and none is slow, a series is always in somebody's hands
\* between its claim and its arming: it is never stale.
Whole == scene.recurring /\ scene.faults \cap {"crash", "slow", "database"} = {}
GoingInv == Whole => /\ ~row.old
                     /\ \A d \in Drainers : dpc[d] # "recover"
                     /\ row.status = "processing" => Holding # {}
                     /\ row.status \in {"sent", "running"} => \E d \in Drainers : dpc[d] = "arm"

\* The count is the number of occurrences, other than the one fire_at means,
\* that went out, once the first did; the copy of the drain at work has it.
Gone == {o \in Occs : fired[o] > 0}
Books == /\ row.status # "completed" /\ (row.occ = 1 \/ fired[1] > 0)
               => Cardinality(Gone \ {row.occ}) = row.count
         /\ row.status = "completed" => /\ Holding = {}
                                        /\ fired[1] > 0 => Cardinality(Gone) = scene.times
Carries(d) == dpc[d] # "fire" => /\ dmy[d].count = row.count
                                 /\ dpc[d] \in {"save", "mark", "arm"} => fired[row.occ] > 0
SeriesInv == scene.recurring /\ ~torn => Books /\ \A d \in Holding : Carries(d)

LEMMA InitSeries == Init => NeverInv /\ GoingInv /\ SeriesInv
<1> SUFFICES ASSUME Init PROVE NeverInv /\ GoingInv /\ SeriesInv
  OBVIOUS
<1>1. row.status = "scheduled" /\ row.occ = 1 /\ row.count = 0 /\ row.old = FALSE
  BY DEF Init
<1>2. Holding = {} /\ Gone = {} /\ Gone \ {row.occ} = {}
  BY DEF Init, Holding, Gone
<1>3. Cardinality({}) = 0
  BY FS_EmptySet
<1> QED BY <1>1, <1>2, <1>3 DEF Init, NeverInv, GoingInv, SeriesInv, Books

LEMMA NextNever ==
    ASSUME TInv, NeverInv, [Next]_vars
    PROVE  NeverInv'
<1> USE DEF worldVars, ghosts, drainVars
<1> SUFFICES ASSUME scene'.recurring PROVE NeverInv'
  BY DEF NeverInv
<1>1. scene' = scene /\ NeverInv /\ scene.recurring
  BY DEF Next, DrainStep, Users, World, Drain, Recover, Claim, Fire, FireLate, Hold, Make, Look, Queue,
         Dispatch, Save, MarkSent, Arm, SaveFails, Crash, Ask, CancelJob, CancelCampaign, Reschedule, Reconcile,
         Orphan, FireTime, TooLate, BackoffOver, TenMinutes, CampaignDone, SwitchOff, SwitchOn, vars
<1>2. camp \notin {"queued", "completed"} /\ \A d \in Drainers : dpc[d] \notin {"queue", "dispatch"}
  BY <1>1 DEF NeverInv
<1>3. camp' \notin {"queued", "completed"}
  BY <1>2 DEF Next, DrainStep, Users, World, Drain, Recover, Claim, Fire, FireLate, Hold, Make, Look, Queue,
         Dispatch, Save, MarkSent, Arm, SaveFails, Crash, Ask, CancelJob, CancelCampaign, Reschedule, Reconcile,
         Orphan, FireTime, TooLate, BackoffOver, TenMinutes, CampaignDone, SwitchOff, SwitchOn, vars
<1>4. \/ dpc' = dpc
      \/ \E d \in Drainers, step \in Steps \ {"queue", "dispatch"} : dpc' = [dpc EXCEPT ![d] = step]
  <2>1. ASSUME NEW d \in Drainers, Drain(d) \/ DrainStep(d) \/ SaveFails(d) \/ Crash(d)
        PROVE  \E step \in Steps \ {"queue", "dispatch"} : dpc' = [dpc EXCEPT ![d] = step]
    <3>1. ~(Look(d) \/ Queue(d) \/ Dispatch(d))
      BY <1>1, <1>2 DEF Look, Queue, Dispatch
    <3>2. CASE Drain(d) \/ Recover(d) \/ Claim(d) \/ FireLate(d) \/ Hold(d) \/ Make(d)
      BY <3>2 DEF Drain, Recover, Claim, FireLate, Hold, Make, With, Goto, Stop, Steps
    <3>3. CASE Fire(d)
      BY <3>3 DEF Fire, With, Stop, Steps
    <3>4. CASE Save(d) \/ MarkSent(d) \/ Arm(d) \/ SaveFails(d) \/ Crash(d)
      BY <3>4 DEF Save, MarkSent, Arm, SaveFails, Crash, With, Goto, Stop, Steps
    <3> QED BY <2>1, <3>1, <3>2, <3>3, <3>4 DEF DrainStep
  <2>2. CASE Users \/ Reconcile \/ Orphan \/ World \/ UNCHANGED vars
    BY <2>2 DEF Users, World, Ask, CancelJob, CancelCampaign, Reschedule, Reconcile, Orphan, FireTime,
                TooLate, BackoffOver, TenMinutes, CampaignDone, SwitchOff, SwitchOn, vars
  <2> QED BY <2>1, <2>2 DEF Next
<1>5. \A d \in Drainers : dpc'[d] \notin {"queue", "dispatch"}
  BY <1>2, <1>4 DEF TInv, TypeOK
<1> QED BY <1>3, <1>5 DEF NeverInv

\* Saves that keep a job fresh, and where they leave it.
LEMMA FreshSaves ==
    ASSUME NEW r \in Job, ~r.old, NEW c
    PROVE  /\ \A t : ~Failed(r, c, t).old /\ Failed(r, c, t).status \in {"failed", "scheduled"}
           /\ \A t : ~Sent(r, t).old
           /\ ~Armed(r, c).old /\ Armed(r, c).status \in {"completed", "scheduled"}
<1>1. ASSUME NEW t
      PROVE  ~Failed(r, c, t).old /\ Failed(r, c, t).status \in {"failed", "scheduled"} /\ ~Sent(r, t).old
  BY DEF Failed, Sent, Job
<1>2. CASE Exhausted(c)
  BY <1>1, <1>2 DEF Armed, Job
<1>3. CASE ~Exhausted(c)
  BY <1>1, <1>3 DEF Armed, Job
<1> QED BY <1>1, <1>2, <1>3

\* A drain takes a step, and leaves the job in somebody's hands or out of reach.
LEMMA GoingMoves ==
    ASSUME Whole, GoingInv, NEW d \in Drainers, scene' = scene, ~row'.old,
           \A e \in Drainers \ {d} : dpc'[e] = dpc[e], dpc'[d] # "recover",
           row'.status = "processing" => d \in Holding' \/ (row.status = "processing" /\ d \notin Holding),
           row'.status \in {"sent", "running"}
               => dpc'[d] = "arm" \/ (row.status \in {"sent", "running"} /\ dpc[d] # "arm")
    PROVE  GoingInv'
<1>1. \A e \in Drainers : dpc'[e] # "recover"
  BY DEF GoingInv
<1>2. row'.status = "processing" => Holding' # {}
  BY DEF GoingInv, Holding
<1>3. row'.status \in {"sent", "running"} => \E e \in Drainers : dpc'[e] = "arm"
  BY DEF GoingInv
<1> QED BY <1>1, <1>2, <1>3 DEF GoingInv

LEMMA ClaimGoing ==
    ASSUME TInv, GoingInv, Whole, NEW d \in Drainers, Drain(d) \/ Recover(d) \/ Claim(d) \/ Fire(d)
    PROVE  GoingInv'
<1> USE DEF worldVars, ghosts
<1>1. row \in Job /\ TypeOK /\ ~row.old /\ dpc[d] # "recover" /\ scene' = scene
  BY DEF TInv, TypeOK, GoingInv, Drain, Recover, Claim, Fire
<1>2. CASE Drain(d)
  <2>1. dpc[d] = "idle" /\ Goto(d, "claim") /\ row' = row
    BY <1>1, <1>2 DEF Drain, Stale
  <2>2. dpc'[d] = "claim" /\ \A e \in Drainers \ {d} : dpc'[e] = dpc[e]
    BY <1>1, <2>1, Moved
  <2> QED BY <1>1, <2>1, <2>2, GoingMoves DEF Holding
<1>3. CASE Claim(d)
  <2>1. CASE Claimable
    <3>1. dpc'[d] = "fire" /\ \A e \in Drainers \ {d} : dpc'[e] = dpc[e]
      BY <1>1, <1>3, <2>1, Moved DEF Claim
    <3>2. row'.status = "processing" /\ ~row'.old
      BY <1>1, <1>3, <2>1 DEF Claim, Job
    <3> QED BY <1>1, <3>1, <3>2, GoingMoves DEF Holding
  <2>2. CASE ~Claimable
    <3>1. dpc'[d] = "idle" /\ \A e \in Drainers \ {d} : dpc'[e] = dpc[e]
      BY <1>1, <1>3, <2>2, Moved DEF Claim
    <3> QED BY <1>1, <1>3, <2>2, <3>1, GoingMoves DEF Claim, Holding
  <2> QED BY <2>1, <2>2
<1>4. CASE Fire(d)
  <2>1. dpc[d] = "fire" /\ row' = row
    BY <1>4 DEF Fire
  <2>2. CASE row.status # "processing"
    <3>1. dpc'[d] = "idle" /\ \A e \in Drainers \ {d} : dpc'[e] = dpc[e]
      BY <1>1, <1>4, <2>2, Moved DEF Fire
    <3> QED BY <1>1, <2>1, <2>2, <3>1, GoingMoves
  <2>3. CASE row.status = "processing"
    <3>1. PICK step \in {"late", "hold", "make"} : With(d, step, row)
      BY <1>4, <2>3 DEF Fire
    <3>2. dpc'[d] = step /\ \A e \in Drainers \ {d} : dpc'[e] = dpc[e]
      BY <1>1, <3>1, Moved
    <3> QED BY <1>1, <2>1, <2>3, <3>2, GoingMoves DEF Holding
  <2> QED BY <2>2, <2>3
<1> QED BY <1>1, <1>2, <1>3, <1>4 DEF Recover

LEMMA SendGoing ==
    ASSUME TInv, NeverInv, GoingInv, Whole, NEW d \in Drainers,
           FireLate(d) \/ Hold(d) \/ Make(d) \/ Look(d) \/ Queue(d) \/ Dispatch(d)
    PROVE  GoingInv'
<1> USE DEF worldVars, ghosts
<1>1. row \in Job /\ TypeOK /\ ~row.old /\ scene' = scene
  BY DEF TInv, TypeOK, GoingInv, FireLate, Hold, Make, Look, Queue, Dispatch
<1>2. ~(Look(d) \/ Queue(d) \/ Dispatch(d))
  BY DEF Whole, NeverInv, Look, Queue, Dispatch
<1>3. CASE Stop(d) /\ ~row'.old /\ row'.status \in {"completed", "scheduled", "failed"}
  <2>1. dpc'[d] = "idle" /\ \A e \in Drainers \ {d} : dpc'[e] = dpc[e]
    BY <1>1, <1>3, Moved
  <2> QED BY <1>1, <1>3, <2>1, GoingMoves
<1>4. CASE FireLate(d)
  BY <1>1, <1>3, <1>4, FreshSaves DEF FireLate, Whole
<1>5. CASE Hold(d)
  BY <1>1, <1>3, <1>5 DEF Hold, Job
<1>6. CASE Make(d)
  <2>1. CASE \E step \in {"save", "mark"} : Goto(d, step) /\ row' = row
    <3>1. PICK step \in {"save", "mark"} : Goto(d, step) /\ row' = row
      BY <2>1
    <3>2. dpc'[d] = step /\ \A e \in Drainers \ {d} : dpc'[e] = dpc[e]
      BY <1>1, <3>1, Moved
    <3> QED BY <1>1, <1>6, <3>1, <3>2, GoingMoves DEF Holding, Make
  <2>2. CASE Stop(d) /\ \E terminal \in BOOLEAN : row' = Failed(row, dmy[d], terminal)
    BY <1>1, <1>3, <2>2, FreshSaves
  <2> QED BY <1>6, <2>1, <2>2 DEF Make
<1> QED BY <1>2, <1>4, <1>5, <1>6

LEMMA RecordGoing ==
    ASSUME TInv, GoingInv, Whole, NEW d \in Drainers,
           Save(d) \/ MarkSent(d) \/ Arm(d) \/ SaveFails(d) \/ Crash(d)
    PROVE  GoingInv'
<1> USE DEF worldVars, ghosts
<1>1. row \in Job /\ TypeOK /\ ~row.old /\ scene' = scene
  BY DEF TInv, TypeOK, GoingInv, Save, MarkSent, Arm, SaveFails, Crash
<1>2. ~(SaveFails(d) \/ Crash(d))
  BY DEF SaveFails, Crash, Fault, Whole
<1>3. CASE Save(d)
  <2>1. dpc'[d] = "mark" /\ \A e \in Drainers \ {d} : dpc'[e] = dpc[e]
    BY <1>1, <1>3, Moved DEF Save
  <2>2. ~row'.old /\ row'.status = row.status /\ dpc[d] = "save"
    BY <1>1, <1>3 DEF Save, Job
  <2> QED BY <1>1, <2>1, <2>2, GoingMoves DEF Holding
<1>4. CASE MarkSent(d)
  <2>1. dpc'[d] = "arm" /\ \A e \in Drainers \ {d} : dpc'[e] = dpc[e]
    BY <1>1, <1>4, Moved DEF MarkSent, Whole
  <2>2. ~row'.old
    BY <1>1, <1>4, FreshSaves DEF MarkSent
  <2> QED BY <1>1, <2>1, <2>2, GoingMoves DEF Holding
<1>5. CASE Arm(d)
  <2>1. dpc'[d] = "idle" /\ \A e \in Drainers \ {d} : dpc'[e] = dpc[e]
    BY <1>1, <1>5, Moved DEF Arm
  <2>2. ~row'.old /\ row'.status \in {"completed", "scheduled"}
    BY <1>1, <1>5, FreshSaves DEF Arm
  <2> QED BY <1>1, <2>1, <2>2, GoingMoves
<1> QED BY <1>2, <1>3, <1>4, <1>5

LEMMA OthersGoing ==
    ASSUME TInv, GoingInv, Whole, Users \/ Reconcile \/ Orphan \/ World \/ UNCHANGED vars
    PROVE  GoingInv'
<1> USE DEF worldVars, ghosts, drainVars
<1>1. row \in Job /\ ~row.old
  BY DEF TInv, TypeOK, GoingInv
<1>2. UNCHANGED <<scene, dpc, dmy>>
  BY DEF Users, World, Ask, CancelJob, CancelCampaign, Reschedule, Reconcile, Orphan, FireTime, TooLate,
         BackoffOver, TenMinutes, CampaignDone, SwitchOff, SwitchOn, vars
<1>3. ~TenMinutes
  <2>1. ~Fault("slow")
    BY DEF Fault, Whole
  <2> QED BY <2>1 DEF TenMinutes, GoingInv
<1>4. ~row'.old /\ (row'.status = row.status \/ row'.status \notin {"processing", "sent", "running"})
  <2>1. CASE Users \/ Reconcile \/ Orphan \/ UNCHANGED vars
    BY <1>1, <2>1 DEF Users, Ask, CancelJob, CancelCampaign, Reschedule, Reconcile, Orphan, vars, Job
  <2>2. CASE World
    BY <1>1, <1>3, <2>2 DEF World, FireTime, TooLate, BackoffOver, CampaignDone, SwitchOff, SwitchOn, Job
  <2> QED BY <2>1, <2>2
<1> QED BY <1>2, <1>4 DEF GoingInv, Whole, Holding

LEMMA NextGoing ==
    ASSUME TInv, NeverInv, GoingInv, [Next]_vars
    PROVE  GoingInv'
<1> USE DEF worldVars, ghosts, drainVars
<1> SUFFICES ASSUME Whole' PROVE GoingInv'
  BY DEF GoingInv
<1>1. scene' = scene
  BY DEF Next, DrainStep, Users, World, Drain, Recover, Claim, Fire, FireLate, Hold, Make, Look, Queue,
         Dispatch, Save, MarkSent, Arm, SaveFails, Crash, Ask, CancelJob, CancelCampaign, Reschedule, Reconcile,
         Orphan, FireTime, TooLate, BackoffOver, TenMinutes, CampaignDone, SwitchOff, SwitchOn, vars
<1>2. Whole
  BY <1>1 DEF Whole
<1>3. ASSUME NEW d \in Drainers, Drain(d) \/ DrainStep(d) \/ SaveFails(d) \/ Crash(d) PROVE GoingInv'
  BY <1>2, <1>3, ClaimGoing, SendGoing, RecordGoing DEF DrainStep
<1> QED BY <1>2, <1>3, OthersGoing DEF Next

\* The number of occurrences that went out.
LEMMA GoneFinite ==
    /\ IsFiniteSet(Gone) /\ Cardinality(Gone) \in Nat
    /\ \A o : IsFiniteSet(Gone \ {o})
<1>1. IsFiniteSet(Occs)
  <2>1. MaxOcc + 1 \in Int /\ 1 \in Int
    BY JobAssumption
  <2> QED BY <2>1, FS_Interval DEF Occs
<1>2. Gone \subseteq Occs
  BY DEF Gone
<1>3. IsFiniteSet(Gone)
  BY <1>1, <1>2, FS_Subset
<1> QED BY <1>3, FS_Subset, FS_CardinalityType

\* A save that leaves the occurrence and the count alone.
LEMMA BooksFrame ==
    ASSUME Books, fired' = fired, row'.occ = row.occ, row'.count = row.count,
           row.status # "completed", row'.status # "completed"
    PROVE  Books'
BY DEF Books, Gone

LEMMA NothingReckoned ==
    ASSUME SeriesInv, UNCHANGED <<scene, dpc, dmy, fired>>, torn => torn',
           row'.occ = row.occ, row'.count = row.count,
           row'.status = row.status \/ "completed" \notin {row.status, row'.status}
    PROVE  SeriesInv'
<1> SUFFICES ASSUME scene.recurring, ~torn' PROVE (Books /\ \A d \in Holding : Carries(d))'
  BY DEF SeriesInv
<1>1. Books /\ (\A d \in Holding : Carries(d)) /\ Holding' = Holding
  BY DEF SeriesInv, Holding
<1>2. \A d \in Holding : Carries(d)'
  BY <1>1 DEF Carries
<1>3. Books'
  BY <1>1 DEF Books, Gone
<1> QED BY <1>1, <1>2, <1>3

LEMMA OneReckons ==
    ASSUME NEW d \in Drainers, Holding \subseteq {d}, \A e \in Drainers \ {d} : dpc'[e] = dpc[e],
           d \in Holding' => Carries(d)', Books'
    PROVE  SeriesInv'
<1>1. Holding' \subseteq {d}
  BY DEF Holding
<1> QED BY <1>1 DEF SeriesInv

LEMMA BystanderReckons ==
    ASSUME SeriesInv, NEW d \in Drainers, d \notin Holding, d \notin Holding',
           \A e \in Drainers \ {d} : dpc'[e] = dpc[e] /\ dmy'[e] = dmy[e],
           UNCHANGED <<scene, row, fired>>, torn => torn'
    PROVE  SeriesInv'
<1> SUFFICES ASSUME scene.recurring, ~torn' PROVE (Books /\ \A e \in Holding : Carries(e))'
  BY DEF SeriesInv
<1>1. Books /\ (\A e \in Holding : Carries(e)) /\ Holding' = Holding
  BY DEF SeriesInv, Holding
<1>2. \A e \in Holding : Carries(e)'
  BY <1>1 DEF Carries, Holding
<1>3. Books'
  BY <1>1 DEF Books, Gone
<1> QED BY <1>1, <1>2, <1>3

\* What the drain at work knows of the books.
LEMMA TheReckoner ==
    ASSUME TInv, SeriesInv, scene.recurring, ~torn, NEW d \in Drainers,
           dpc[d] \notin {"idle", "recover", "claim"}
    PROVE  Books /\ Carries(d) /\ row.status # "completed" /\ d \in Holding
BY DEF SeriesInv, Books, Holding

LEMMA ClaimSeries ==
    ASSUME TInv, OnceInv, SeriesInv, NEW d \in Drainers, Drain(d) \/ Recover(d) \/ Claim(d) \/ Fire(d)
    PROVE  SeriesInv'
<1> USE DEF worldVars, ghosts
<1>0. TypeOK /\ row \in Job /\ scene' = scene /\ fired' = fired
  BY DEF TInv, TypeOK, Drain, Recover, Claim, Fire
<1> SUFFICES ASSUME scene.recurring, ~torn' PROVE SeriesInv'
  BY <1>0 DEF SeriesInv
<1>1. CASE Drain(d)
  <2>1. dpc'[d] \in {"recover", "claim"} /\ \A e \in Drainers \ {d} : dpc'[e] = dpc[e] /\ dmy'[e] = dmy[e]
    BY <1>0, <1>1, Moved DEF Drain
  <2> QED BY <1>0, <1>1, <2>1, BystanderReckons DEF Drain, Holding
<1>2. CASE Recover(d)
  <2>1. ~torn /\ Holding = {} /\ row = dmy[d]
    BY <1>2 DEF Recover
  <2>2. dpc'[d] = "claim" /\ \A e \in Drainers \ {d} : dpc'[e] = dpc[e]
    BY <1>0, <1>2, Moved DEF Recover
  <2>3. row.status = "processing" /\ row' = Recovered(row, row)
    BY <1>2, <2>1 DEF Recover, TInv, CopyOK, HasCopy
  <2>4. row'.occ = row.occ /\ row'.count = row.count /\ row'.status # "completed"
    BY <1>0, <2>3, RecoveredTyped DEF Same
  <2>5. Books'
    BY <1>0, <2>1, <2>3, <2>4, BooksFrame DEF SeriesInv
  <2> QED BY <2>1, <2>2, <2>5, OneReckons DEF Holding
<1>3. CASE Claim(d)
  <2>1. CASE Claimable
    <3>1. ~torn /\ row.status = "scheduled" /\ row' = [row EXCEPT !.status = "processing", !.old = FALSE] /\ Goto(d, "fire")
      BY <1>3, <2>1 DEF Claim, Claimable
    <3>2. Holding = {}
      BY <3>1, NobodyHolds
    <3>3. dpc'[d] = "fire" /\ \A e \in Drainers \ {d} : dpc'[e] = dpc[e]
      BY <1>0, <3>1, Moved
    <3>4. row'.status = "processing" /\ row'.occ = row.occ /\ row'.count = row.count
      BY <1>0, <3>1 DEF Job
    <3>5. Books' /\ Carries(d)'
      BY <1>0, <3>1, <3>3, <3>4, BooksFrame DEF SeriesInv, Carries
    <3> QED BY <3>2, <3>3, <3>5, OneReckons
  <2>2. CASE ~Claimable
    <3>1. dpc'[d] = "idle" /\ \A e \in Drainers \ {d} : dpc'[e] = dpc[e] /\ dmy'[e] = dmy[e]
      BY <1>0, <1>3, <2>2, Moved DEF Claim
    <3> QED BY <1>0, <1>3, <2>2, <3>1, BystanderReckons DEF Claim, Holding
  <2> QED BY <2>1, <2>2
<1>4. CASE Fire(d)
  <2>1. ~torn /\ dpc[d] = "fire" /\ row' = row
    BY <1>4 DEF Fire
  <2>2. Holding \subseteq {d} /\ Owns(d)
    BY <2>1, TheHolder
  <2>3. row.status = "processing"
    BY <2>1, <2>2 DEF Owns
  <2>4. PICK step \in {"late", "hold", "make"} : With(d, step, row)
    BY <1>4, <2>3 DEF Fire
  <2>5. dpc'[d] = step /\ dmy'[d] = row /\ \A e \in Drainers \ {d} : dpc'[e] = dpc[e]
    BY <1>0, <2>4 DEF With, TypeOK
  <2>6. Books' /\ Carries(d)'
    BY <1>0, <2>1, <2>3, <2>5, BooksFrame DEF SeriesInv, Carries
  <2> QED BY <2>2, <2>5, <2>6, OneReckons
<1> QED BY <1>1, <1>2, <1>3, <1>4

\* The books of the next occurrence, which has not gone out.
LEMMA NextBooks ==
    ASSUME TInv, NotYet, fired' = fired, NEW k \in Nat,
           row'.status = "scheduled", row'.occ = row.occ + 1, row'.count = k,
           fired[1] > 0 => Cardinality(Gone) = k
    PROVE  Books'
<1>1. row.occ \in Nat \ {0} /\ row'.occ # 1
  BY DEF TInv, TypeOK, Job, Occs
<1>2. Gone \ {row'.occ} = Gone
  BY <1>1 DEF Gone, NotYet, Occs
<1>3. Gone' = Gone
  BY DEF Gone
<1> QED BY <1>1, <1>2, <1>3 DEF Books

LEMMA LateSeries ==
    ASSUME TInv, OnceInv, SeriesInv, NEW d \in Drainers, FireLate(d) \/ Hold(d)
    PROVE  SeriesInv'
<1> USE DEF worldVars, ghosts
<1>0. /\ TypeOK /\ row \in Job /\ scene' = scene /\ fired' = fired /\ torn' = torn
      /\ dpc[d] \in {"late", "hold"} /\ Stop(d)
  BY DEF TInv, TypeOK, FireLate, Hold
<1> SUFFICES ASSUME scene.recurring, ~torn' PROVE SeriesInv'
  BY <1>0 DEF SeriesInv
<1>1. Holding \subseteq {d} /\ Owns(d) /\ NotYet /\ dmy[d] \in Job /\ Numbered(dmy[d], scene, faults)
  BY <1>0, TheHolder, CopyOf DEF HasCopy
<1>2. Books /\ Carries(d) /\ row.status # "completed"
  BY <1>0, TheReckoner
<1>3. dpc'[d] = "idle" /\ \A e \in Drainers \ {d} : dpc'[e] = dpc[e]
  BY <1>0, Moved
<1>4. dmy[d].occ = row.occ /\ dmy[d].count = row.count /\ fired[row.occ] = 0
      /\ row.occ \in Occs /\ row.count \in Nat /\ row.count < scene.times /\ scene.times \in Nat
  BY <1>0, <1>1, <1>2, SceneTyped DEF Owns, Before, Carries, Job, Numbered
<1>5. Holding' = {}
  BY <1>1, <1>3 DEF Holding
<1>6. Gone \ {row.occ} = Gone
  BY <1>4 DEF Gone
<1>7. Books'
  <2>1. CASE Hold(d)
    <3>1. row'.occ = row.occ /\ row'.count = row.count /\ row'.status = "scheduled"
      BY <1>0, <2>1 DEF Hold, Job
    <3> QED BY <1>0, <1>2, <3>1, BooksFrame
  <2>2. CASE FireLate(d)
    <3> DEFINE c == NotCounted(dmy[d])
    <3>1. c.occ = row.occ /\ c.count = (IF row.count > 0 THEN row.count - 1 ELSE 0)
      BY <1>1, <1>4 DEF NotCounted, Job
    <3>2. row' = Armed(row, c)
      BY <2>2 DEF FireLate
    <3> HIDE DEF c
    <3>3. CASE row.count > 0
      <4>1. ~Exhausted(c)
        BY <1>4, <3>1, <3>3 DEF Exhausted
      <4>2. row'.status = "scheduled" /\ row'.occ = row.occ + 1 /\ row'.count = c.count + 1
        BY <1>0, <3>1, <3>2, <4>1 DEF Armed, Job
      <4>3. c.count + 1 = row.count
        BY <1>4, <3>1, <3>3
      <4>4. fired[1] > 0 => Cardinality(Gone) = row.count
        BY <1>2, <1>6 DEF Books
      <4> QED BY <1>0, <1>1, <1>4, <4>2, <4>3, <4>4, NextBooks
    <3>4. CASE row.count = 0
      <4>1. ~(fired[1] > 0)
        <5> SUFFICES ASSUME fired[1] > 0 PROVE FALSE
          OBVIOUS
        <5>1. Cardinality(Gone) = 0
          BY <1>2, <1>6, <3>4 DEF Books
        <5>2. 1 \in Gone
          BY JobAssumption DEF Gone, Occs
        <5> QED BY <5>1, <5>2, GoneFinite, FS_EmptySet
      <4>2. CASE Exhausted(c)
        <5>1. row'.status = "completed"
          BY <1>0, <3>2, <4>2 DEF Armed, Job
        <5> QED BY <1>0, <1>5, <4>1, <5>1 DEF Books
      <4>3. CASE ~Exhausted(c)
        <5>1. row'.status = "scheduled" /\ row'.occ = row.occ + 1 /\ row'.count = c.count + 1
          BY <1>0, <3>1, <3>2, <4>3 DEF Armed, Job
        <5> QED BY <1>0, <1>1, <3>1, <3>4, <4>1, <5>1, NextBooks
      <4> QED BY <4>2, <4>3
    <3> QED BY <1>4, <3>3, <3>4
  <2> QED BY <2>1, <2>2
<1> QED BY <1>1, <1>3, <1>5, <1>7, OneReckons

LEMMA SendSeries ==
    ASSUME TInv, OnceInv, NeverInv, SeriesInv, NEW d \in Drainers,
           Make(d) \/ Look(d) \/ Queue(d) \/ Dispatch(d)
    PROVE  SeriesInv'
<1> USE DEF worldVars, ghosts
<1>0. TypeOK /\ row \in Job /\ scene' = scene /\ torn' = torn
  BY DEF TInv, TypeOK, Make, Look, Queue, Dispatch
<1> SUFFICES ASSUME scene.recurring, ~torn' PROVE SeriesInv'
  BY <1>0 DEF SeriesInv
<1>1. Make(d) /\ dpc[d] = "make" /\ HasCopy(dpc[d])
  BY DEF NeverInv, Make, Look, Queue, Dispatch, HasCopy
<1>2. Holding \subseteq {d} /\ Owns(d) /\ NotYet /\ dmy[d] \in Job
  BY <1>0, <1>1, TheHolder, CopyOf
<1>3. Books /\ Carries(d) /\ row.status = "processing"
  BY <1>0, <1>1, <1>2, TheReckoner DEF Owns
<1>4. dmy[d].occ = row.occ /\ dmy[d].count = row.count /\ fired[row.occ] = 0 /\ row.occ \in Occs
  BY <1>0, <1>1, <1>2, <1>3 DEF Owns, Before, Carries, Job
<1>5. CASE GoesOut(d) /\ row' = row /\ \E step \in {"save", "mark"} : Goto(d, step)
  <2>1. PICK step \in {"save", "mark"} : Goto(d, step)
    BY <1>5
  <2>2. dpc'[d] = step /\ dmy'[d] = dmy[d] /\ \A e \in Drainers \ {d} : dpc'[e] = dpc[e]
    BY <1>0, <2>1 DEF Goto, TypeOK
  <2>3. \A o \in Occs : fired'[o] = IF o = row.occ THEN 1 ELSE fired[o]
    BY <1>2, <1>4, <1>5, WentOut
  <2>4. Gone' \ {row.occ} = Gone \ {row.occ}
    BY <2>3 DEF Gone
  <2>5. 1 \in Occs
    BY JobAssumption DEF Occs
  <2>6. row.occ # 1 => fired'[1] = fired[1]
    BY <2>3, <2>5
  <2>7. Books'
    BY <1>3, <1>5, <2>4, <2>6 DEF Books
  <2>8. Carries(d)'
    BY <1>4, <1>5, <2>2, <2>3 DEF Carries
  <2> QED BY <1>2, <2>2, <2>7, <2>8, OneReckons
<1>6. CASE fired' = fired /\ Stop(d) /\ \E terminal \in BOOLEAN : row' = Failed(row, dmy[d], terminal)
  <2>1. dpc'[d] = "idle" /\ \A e \in Drainers \ {d} : dpc'[e] = dpc[e]
    BY <1>0, <1>6, Moved
  <2>2. row'.occ = row.occ /\ row'.count = row.count /\ row'.status # "completed"
    <3>1. PICK terminal \in BOOLEAN : row' = Failed(row, dmy[d], terminal)
      BY <1>6
    <3> QED BY <1>0, <1>2, <3>1, FailedTyped DEF Same
  <2>3. Books'
    BY <1>3, <1>6, <2>2, BooksFrame
  <2> QED BY <1>2, <2>1, <2>3, OneReckons DEF Holding
<1> QED BY <1>1, <1>5, <1>6 DEF Make

LEMMA RecordSeries ==
    ASSUME TInv, OnceInv, SeriesInv, NEW d \in Drainers, Save(d) \/ MarkSent(d) \/ Arm(d)
    PROVE  SeriesInv'
<1> USE DEF worldVars, ghosts
<1>0. /\ TypeOK /\ row \in Job /\ scene' = scene /\ torn' = torn /\ fired' = fired
      /\ dpc[d] \in {"save", "mark", "arm"} /\ HasCopy(dpc[d])
  BY DEF TInv, TypeOK, Save, MarkSent, Arm, HasCopy
<1> SUFFICES ASSUME scene.recurring, ~torn' PROVE SeriesInv'
  BY <1>0 DEF SeriesInv
<1>1. Holding \subseteq {d} /\ Owns(d) /\ NotYet /\ dmy[d] \in Job /\ Numbered(dmy[d], scene, faults)
  BY <1>0, TheHolder, CopyOf
<1>2. Books /\ Carries(d) /\ row.status # "completed"
  BY <1>0, TheReckoner
<1>3. dmy[d].occ = row.occ /\ dmy[d].count = row.count /\ fired[row.occ] > 0
      /\ row.occ \in Occs /\ row.count \in Nat /\ row.count < scene.times /\ scene.times \in Nat
  BY <1>0, <1>1, <1>2, SceneTyped DEF Owns, Carries, Job, Numbered
<1>4. CASE Save(d)
  <2>1. dpc'[d] = "mark" /\ dmy'[d] = dmy[d] /\ \A e \in Drainers \ {d} : dpc'[e] = dpc[e]
    BY <1>0, <1>4 DEF Save, Goto, TypeOK
  <2>2. row'.occ = row.occ /\ row'.count = row.count /\ row'.status = row.status
    BY <1>0, <1>4 DEF Save, Job
  <2>3. Books' /\ Carries(d)'
    BY <1>0, <1>2, <1>3, <2>1, <2>2, BooksFrame DEF Carries
  <2> QED BY <1>1, <2>1, <2>3, OneReckons
<1>5. CASE MarkSent(d)
  <2>1. row'.occ = row.occ /\ row'.count = row.count /\ row'.status \in {"running", "sent"}
    BY <1>0, <1>5, SentTyped DEF MarkSent, Same
  <2>2. dpc'[d] = "arm" /\ dmy'[d] = dmy[d] /\ \A e \in Drainers \ {d} : dpc'[e] = dpc[e]
    BY <1>0, <1>5 DEF MarkSent, Goto, TypeOK
  <2>3. Books' /\ Carries(d)'
    BY <1>0, <1>2, <1>3, <2>1, <2>2, BooksFrame DEF Carries
  <2> QED BY <1>1, <2>2, <2>3, OneReckons
<1>6. CASE Arm(d)
  <2>1. dpc'[d] = "idle" /\ \A e \in Drainers \ {d} : dpc'[e] = dpc[e]
    BY <1>0, <1>6, Moved DEF Arm
  <2>2. Holding' = {}
    BY <1>1, <2>1 DEF Holding
  <2>3. fired[1] > 0 => Cardinality(Gone) = row.count + 1
    <3> SUFFICES ASSUME fired[1] > 0 PROVE Cardinality(Gone) = row.count + 1
      OBVIOUS
    <3>1. Cardinality(Gone \ {row.occ}) = row.count
      BY <1>2 DEF Books
    <3>2. row.occ \in Gone
      BY <1>3 DEF Gone
    <3>3. Cardinality(Gone \ {row.occ}) = Cardinality(Gone) - 1
      BY <3>2, GoneFinite, FS_RemoveElement
    <3> QED BY <3>1, <3>3, GoneFinite
  <2>4. CASE Exhausted(dmy[d])
    <3>1. row'.status = "completed"
      BY <1>0, <1>6, <2>4 DEF Arm, Armed, Job
    <3>2. row.count + 1 = scene.times
      BY <1>3, <2>4 DEF Exhausted
    <3>3. Gone' = Gone
      BY <1>0 DEF Gone
    <3> QED BY <1>0, <1>1, <2>1, <2>2, <2>3, <3>1, <3>2, <3>3, OneReckons DEF Books
  <2>5. CASE ~Exhausted(dmy[d])
    <3>1. row'.status = "scheduled" /\ row'.occ = row.occ + 1 /\ row'.count = row.count + 1
      BY <1>0, <1>3, <1>6, <2>5 DEF Arm, Armed, Job
    <3>2. Books'
      BY <1>0, <1>1, <1>3, <2>3, <3>1, NextBooks
    <3> QED BY <1>1, <2>1, <2>2, <3>2, OneReckons
  <2> QED BY <2>4, <2>5
<1> QED BY <1>4, <1>5, <1>6

LEMMA FaultSeries ==
    ASSUME TInv, OnceInv, NeverInv, SeriesInv, NEW d \in Drainers, SaveFails(d) \/ Crash(d)
    PROVE  SeriesInv'
<1> USE DEF worldVars, ghosts
<1>0. TypeOK /\ scene' = scene /\ fired' = fired /\ Stop(d) /\ (torn => torn')
  BY DEF TInv, TypeOK, SaveFails, Crash
<1> SUFFICES ASSUME scene.recurring, ~torn' PROVE SeriesInv'
  BY <1>0 DEF SeriesInv
<1>1. dpc'[d] = "idle" /\ \A e \in Drainers \ {d} : dpc'[e] = dpc[e] /\ dmy'[e] = dmy[e]
  BY <1>0, Moved
<1>2. ~torn /\ row' = row
  BY DEF SaveFails, Crash, Unrecorded, NeverInv
<1>3. CASE d \notin Holding
  BY <1>0, <1>1, <1>2, <1>3, BystanderReckons DEF Holding
<1>4. CASE d \in Holding
  <2>1. Holding \subseteq {d}
    BY <1>2, <1>4, TheHolder DEF Holding
  <2>2. Books /\ row.status # "completed"
    BY <1>2, <1>4, TheReckoner DEF Holding
  <2>3. Books'
    BY <1>0, <1>2, <2>2, BooksFrame
  <2> QED BY <1>1, <2>1, <2>3, OneReckons DEF Holding
<1> QED BY <1>3, <1>4

LEMMA OthersSeries ==
    ASSUME TInv, NeverInv, SeriesInv, Users \/ Reconcile \/ Orphan \/ World \/ UNCHANGED vars
    PROVE  SeriesInv'
<1> USE DEF worldVars, ghosts, drainVars
<1>1. row \in Job /\ UNCHANGED <<scene, dpc, dmy, fired>> /\ (torn => torn')
  BY DEF TInv, TypeOK, Users, World, Ask, CancelJob, CancelCampaign, Reschedule, Reconcile, Orphan,
         FireTime, TooLate, BackoffOver, TenMinutes, CampaignDone, SwitchOff, SwitchOn, vars
<1> SUFFICES ASSUME scene.recurring, ~torn' PROVE SeriesInv'
  BY <1>1 DEF SeriesInv
<1>2. row'.occ = row.occ /\ row'.count = row.count
      /\ (row'.status = row.status \/ "completed" \notin {row.status, row'.status})
  <2>1. CASE CancelJob \/ Reschedule
    BY <1>1, <2>1 DEF CancelJob, Reschedule, Job
  <2>2. CASE Reconcile
    BY <1>1, <2>2 DEF Reconcile, NeverInv, Job
  <2>3. CASE World
    BY <1>1, <2>3 DEF World, FireTime, TooLate, BackoffOver, TenMinutes, CampaignDone, SwitchOff, SwitchOn, Job
  <2> QED BY <2>1, <2>2, <2>3 DEF Users, Ask, CancelCampaign, Orphan, vars
<1> QED BY <1>1, <1>2, NothingReckoned

LEMMA NextSeries ==
    ASSUME TInv, OnceInv, NeverInv, SeriesInv, [Next]_vars
    PROVE  SeriesInv'
<1>1. ASSUME NEW d \in Drainers, Drain(d) \/ DrainStep(d) \/ SaveFails(d) \/ Crash(d) PROVE SeriesInv'
  BY <1>1, ClaimSeries, LateSeries, SendSeries, RecordSeries, FaultSeries DEF DrainStep
<1> QED BY <1>1, OthersSeries DEF Next

\* arm_next_occurrence of models.py, _fire_one of drainer.py: a series that is over has
\* gone out max_occurrences times, no fewer and no more, whatever drains overlap and
\* retry and whichever occurrences are skipped, unless the first was too late or a step
\* was torn; one left SENT or RUNNING is over as well, unless a drain died or was slow.
THEOREM SeriesComplete == Spec => []SeriesWhole
<1> DEFINE SInv == TInv /\ OnceInv /\ NeverInv /\ GoingInv /\ SeriesInv
<1>1. SInv => SeriesWhole
  <2> SUFFICES ASSUME SInv, scene.recurring, ~torn, Rest, Over, fired[1] > 0
               PROVE  Cardinality(Gone) = scene.times
    BY DEF SeriesWhole, Gone
  <2>1. CASE row.status = "completed"
    BY <2>1 DEF SeriesInv, Books
  <2>2. CASE row.status \in {"sent", "running"} /\ scene.faults \cap {"crash", "slow", "database"} = {}
    BY <2>2 DEF GoingInv, Whole, Rest
  <2> QED BY <2>1, <2>2 DEF Over
<1>2. Init => SInv
  BY InitTyped, InitOnce, InitSeries
<1>3. SInv /\ [Next]_vars => SInv'
  BY NextTyped, NextOnce, NextNever, NextGoing, NextSeries
<1> QED BY <1>1, <1>2, <1>3, PTL DEF Spec
=============================================================================
