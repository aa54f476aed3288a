--------------------------- MODULE InboundProofs ---------------------------
(***************************************************************************)
(* Proofs about InboundPipeline: its type invariant, that the workflows    *)
(* are given a message at most once, and that a processed event has left   *)
(* nothing out, for any events, messages, batches, workers, scenes and     *)
(* number of faults.                                                       *)
(***************************************************************************)
EXTENDS InboundPipeline, TLAPS

\* A worker at work has an event, and one inside record_inbound_dm a message.
Busy == \A w \in Workers : /\ pc[w] # "idle" => my[w].e \in Events
                           /\ pc[w] \in {"spine", "emit", "enroll"} => my[w].m \in Msgs

\* Only a recorded message was given to the workflows.
Untold == \A m \in Msgs : m \notin emitted => enrolled[m] = 0
\* A worker about to enroll has recorded the message, nobody gave it before ...
Entered == \A w \in Workers : pc[w] = "enroll" => my[w].m \in emitted /\ enrolled[my[w].m] = 0
\* ... and nobody else is about to.
Alone == \A v, w \in Workers : pc[v] = "enroll" /\ pc[w] = "enroll" /\ my[v].m = my[w].m => v = w

OnceInv == Untold /\ Entered /\ Alone /\ HandledOnce
IInv == TypeOK /\ Busy /\ OnceInv

\* What a processed event has done for a message, but for the enrolment; none of
\* it is ever undone.
Done(m) == /\ m \in logged /\ (WhatsApp => m \in consent)
           /\ m \in spine \/ m \in swallowed

\* A worker has done what it has taken off its batch, unless an item was bad.
Passed(w) == pc[w] \in {"items", "spine", "emit", "enroll", "mark"} /\ ~my[w].bad
             => \A m \in Carries[my[w].e] \ my[w].todo : Done(m)
\* Only Instagram goes save by save, and the saves come in their order.
InOrder(w) == /\ WhatsApp => pc[w] \notin {"start", "spine", "emit", "enroll"}
              /\ pc[w] = "start" => my[w].todo = Carries[my[w].e]
              /\ pc[w] \in {"spine", "emit", "enroll"} => my[w].m \in logged
              /\ pc[w] \in {"emit", "enroll"} => my[w].m \in spine
              /\ pc[w] = "mark" => my[w].todo = {} /\ ~my[w].bad
Progress == \A w \in Workers : Passed(w) /\ InOrder(w)

\* A message between two saves has a worker that will go on, unless a crash or an
\* error stopped it.
Between(m, at) == \E w \in Workers : pc[w] = at /\ my[w].m = m
SpineTold == \A m \in spine \ emitted : m \in swallowed \/ Between(m, "emit") \/ Interrupted
EmittedTold == \A m \in emitted : enrolled[m] = 1 \/ m \in swallowed \/ Between(m, "enroll") \/ Interrupted
Told == emitted \subseteq spine /\ (WhatsApp => logged \subseteq consent) /\ SpineTold /\ EmittedTold

Kept == \A e \in Events : Processed(e) => \A m \in Carries[e] : Done(m)
HInv == IInv /\ Progress /\ Told /\ Kept

Doing == {"idle", "read", "start", "items", "spine", "emit", "enroll", "mark", "fail", "end"}
Statuses == {"absent", "received", "processing", "failed", "processed"}
Held == [e : Events \cup {None}, m : Msgs \cup {None}, todo : SUBSET Msgs, tries : 0..MaxAttempts, bad : BOOLEAN]

-----------------------------------------------------------------------------
(* The helpers stay in their types.                                        *)

LEMMA FaultBounded ==
    ASSUME TypeOK, NEW kind, Fault(kind)
    PROVE  faults' \in 0..MaxFaults
BY InboundAssumption DEF TypeOK, Fault

LEMMA QueuedTyped ==
    ASSUME TypeOK, NEW e \in Events
    PROVE  Queued(e) \in [Events -> 0..MaxTasks]
BY InboundAssumption DEF TypeOK, Queued

LEMMA EnqueueTyped ==
    ASSUME TypeOK, NEW e \in Events, Enqueue(e)
    PROVE  tasks' \in [Events -> 0..MaxTasks] /\ faults' \in 0..MaxFaults
BY QueuedTyped, FaultBounded DEF TypeOK, Enqueue

LEMMA FreeTyped == Free \in Held /\ \A e \in Events : [Free EXCEPT !.e = e] \in Held
<1>1. None \in Events \cup {None} /\ None \in Msgs \cup {None} /\ {} \in SUBSET Msgs /\ 0 \in 0..MaxAttempts
  BY InboundAssumption
<1>2. Free \in Held
  BY <1>1 DEF Free, Held
<1>3. ASSUME NEW e \in Events PROVE [Free EXCEPT !.e = e] \in Held
  BY <1>2 DEF Held
<1> QED BY <1>2, <1>3

\* What the steps write into an event's row ...
LEMMA EditedEvent ==
    ASSUME NEW r \in Event, NEW s \in Statuses
    PROVE  /\ [r EXCEPT !.status = s] \in Event
           /\ \A h \in BOOLEAN : /\ [r EXCEPT !.status = s, !.held = h] \in Event
                                 /\ [r EXCEPT !.held = h, !.status = s] \in Event
           /\ \A n \in 0..MaxAttempts : [r EXCEPT !.tries = n, !.status = s] \in Event
           /\ [r EXCEPT !.old = TRUE] \in Event
BY DEF Event, Statuses

LEMMA RowSet ==
    ASSUME TypeOK, NEW e \in Events, NEW r \in Event, event' = [event EXCEPT ![e] = r]
    PROVE  event' \in [Events -> Event]
BY DEF TypeOK

\* ... and into a worker's copy.
LEMMA EditedCopy ==
    ASSUME NEW c \in Held
    PROVE  /\ \A m \in Msgs : [c EXCEPT !.m = m] \in Held
           /\ \A todo \in SUBSET Msgs :
                /\ [c EXCEPT !.todo = todo] \in Held
                /\ [c EXCEPT !.todo = todo, !.m = None] \in Held
                /\ [c EXCEPT !.todo = todo, !.bad = TRUE] \in Held
                /\ \A n \in 0..MaxAttempts : [c EXCEPT !.tries = n, !.todo = todo] \in Held
BY DEF Held

LEMMA GivenTyped ==
    ASSUME TypeOK, NEW m \in Msgs
    PROVE  Given(m) \in [Msgs -> 0..2]
BY DEF TypeOK, Given

\* The next item of the batch: the worker forgets the message it had.
LEMMA NextItemTyped ==
    ASSUME TypeOK, Busy, NEW w \in Workers, pc[w] # "idle", NextItem(w)
    PROVE  /\ pc' \in [Workers -> Doing] /\ my' \in [Workers -> Held]
           /\ Busy' /\ pc'[w] = "items"
           /\ \A v \in Workers \ {w} : pc'[v] = pc[v] /\ my'[v] = my[v]
<1> DEFINE next == [my[w] EXCEPT !.todo = my[w].todo \ {my[w].m}, !.m = None]
<1>1. my[w] \in Held /\ my[w].todo \ {my[w].m} \in SUBSET Msgs /\ my[w].e \in Events
  BY DEF TypeOK, Busy, Held
<1>2. next \in Held /\ next.e = my[w].e
  BY <1>1, EditedCopy DEF Held
<1>3. my' = [my EXCEPT ![w] = next] /\ pc' = [pc EXCEPT ![w] = "items"]
  BY DEF NextItem, Goto
<1>4. \A v \in Workers : /\ pc'[v] = IF v = w THEN "items" ELSE pc[v]
                         /\ my'[v] = IF v = w THEN next ELSE my[v]
  BY <1>3 DEF TypeOK
<1>5. pc' \in [Workers -> Doing] /\ my' \in [Workers -> Held]
  BY <1>2, <1>3 DEF TypeOK, Doing, Held
<1>6. Busy'
  BY <1>1, <1>2, <1>4 DEF Busy
<1> QED BY <1>4, <1>5, <1>6

-----------------------------------------------------------------------------
(* Types: the steps of the event rows, then those of a worker.             *)

LEMMA InitTyped == Init => TypeOK /\ Busy
BY InboundAssumption, FreeTyped DEF Init, TypeOK, Busy, Absent, Event, Held

LEMMA ReceiveTyped ==
    ASSUME TypeOK, Busy, NEW e \in Events, ReceiveRead(e) \/ Receive(e)
    PROVE  TypeOK' /\ Busy'
<1>1. CASE ReceiveRead(e)
  BY <1>1 DEF ReceiveRead, TypeOK, Busy, workVars, effects
<1>2. CASE Receive(e)
  <2>1. tasks' \in [Events -> 0..MaxTasks] /\ faults' \in 0..MaxFaults
    BY <1>2, EnqueueTyped DEF Receive, TypeOK
  <2>2. event' \in [Events -> Event]
    <3>1. event[e] \in Event /\ (arriving[e] = "held") \in BOOLEAN
      BY DEF TypeOK
    <3>2. [event[e] EXCEPT !.status = "received", !.held = arriving[e] = "held"] \in Event
      BY <3>1, EditedEvent, InboundAssumption DEF Statuses
    <3> QED BY <1>2, <3>2, RowSet DEF Receive
  <2> QED BY <1>2, <2>1, <2>2 DEF Receive, TypeOK, Busy, effects
<1> QED BY <1>1, <1>2

LEMMA ReleaseTyped ==
    ASSUME TypeOK, Busy, NEW e \in Events, Release(e) \/ ReleaseEnqueue(e) \/ ReleaseCrash(e)
    PROVE  TypeOK' /\ Busy'
<1>1. CASE Release(e)
  <2>1. event' \in [Events -> Event]
    <3>1. event[e] \in Event /\ (IF Instagram THEN "received" ELSE event[e].status) \in Statuses
      BY DEF TypeOK, Event, Statuses
    <3>2. [event[e] EXCEPT !.held = FALSE, !.status = IF Instagram THEN "received" ELSE event[e].status] \in Event
      BY <3>1, EditedEvent, InboundAssumption
    <3> QED BY <1>1, <3>2, RowSet DEF Release, Released
  <2> QED BY <1>1, <2>1 DEF Release, TypeOK, Busy, workVars, effects
<1>2. CASE ReleaseEnqueue(e)
  <2>1. event' \in [Events -> Event]
    <3>1. event[e] \in Event /\ (IF Instagram THEN "received" ELSE event[e].status) \in Statuses
      BY DEF TypeOK, Event, Statuses
    <3>2. [event[e] EXCEPT !.held = TRUE, !.status = IF Instagram THEN "received" ELSE event[e].status] \in Event
      BY <3>1, EditedEvent, InboundAssumption
    <3>3. \/ UNCHANGED event
          \/ event' = [event EXCEPT ![e] = [@ EXCEPT !.held = TRUE, !.status = IF Instagram THEN "received" ELSE event[e].status]]
      BY <1>2 DEF ReleaseEnqueue
    <3> QED BY <3>2, <3>3, RowSet DEF TypeOK
  <2>2. tasks' \in [Events -> 0..MaxTasks] /\ faults' \in 0..MaxFaults
    BY <1>2, QueuedTyped, FaultBounded DEF ReleaseEnqueue, TypeOK
  <2> QED BY <1>2, <2>1, <2>2 DEF ReleaseEnqueue, TypeOK, Busy, effects
<1>3. CASE ReleaseCrash(e)
  BY <1>3, FaultBounded DEF ReleaseCrash, TypeOK, Busy, workVars, effects
<1> QED BY <1>1, <1>2, <1>3

LEMMA RowTyped ==
    ASSUME TypeOK, Busy, NEW e \in Events, Sweep(e) \/ Age(e) \/ Expire(e) \/ Switch
    PROVE  TypeOK' /\ Busy'
<1>1. CASE Sweep(e)
  BY <1>1, EnqueueTyped DEF Sweep, TypeOK, Busy, rowVars, effects
<1>2. CASE Age(e)
  <2>1. event' \in [Events -> Event]
    <3>1. event[e] \in Event /\ event[e].status \in Statuses
      BY DEF TypeOK, Event, Statuses
    <3>2. [event[e] EXCEPT !.old = TRUE] \in Event
      BY <3>1, EditedEvent
    <3> QED BY <1>2, <3>2, RowSet DEF Age
  <2> QED BY <1>2, <2>1 DEF Age, TypeOK, Busy, workVars, effects
<1>3. CASE Expire(e)
  BY <1>3, FaultBounded DEF Expire, TypeOK, Busy, rowVars, effects
<1>4. CASE Switch
  BY <1>4 DEF Switch, TypeOK, Busy, workVars, effects
<1> QED BY <1>1, <1>2, <1>3, <1>4

LEMMA TakeTyped ==
    ASSUME TypeOK, Busy, NEW w \in Workers, NEW e \in Events, Take(w, e)
    PROVE  TypeOK' /\ Busy'
<1>1. tasks' \in [Events -> 0..MaxTasks] /\ locks' \subseteq Events
  BY InboundAssumption DEF Take, Took, TypeOK
<1>2. [Free EXCEPT !.e = e] \in Held /\ [Free EXCEPT !.e = e].e = e
  BY FreeTyped DEF Free
<1>3. CASE WhatsApp /\ e \in locks
  BY <1>1, <1>3 DEF Take, TypeOK, Busy, rowVars, effects
<1>4. CASE ~(WhatsApp /\ e \in locks)
  <2> DEFINE new == [Free EXCEPT !.e = e]
  <2>0. my' = [my EXCEPT ![w] = new] /\ pc' = [pc EXCEPT ![w] = "read"]
    BY <1>4 DEF Take, Goto
  <2> HIDE DEF new
  <2>1. pc' \in [Workers -> Doing] /\ my' \in [Workers -> Held]
    BY <1>2, <2>0 DEF TypeOK, Doing, Held, new
  <2>2. Busy'
    BY <1>2, <2>0 DEF TypeOK, Busy, new
  <2> QED BY <1>1, <2>1, <2>2 DEF Take, TypeOK, rowVars, effects, Doing, Held
<1> QED BY <1>3, <1>4

\* The steps around the items of an event.
LEMMA EventTyped ==
    ASSUME TypeOK, Busy, NEW w \in Workers,
           Read(w) \/ Start(w) \/ Finish(w) \/ Raise(w) \/ Mark(w) \/ Fail(w)
    PROVE  TypeOK' /\ Busy'
<1>1. CASE Read(w)
  <2>1. my[w].e \in Events /\ Carries[my[w].e] \subseteq Msgs /\ event[my[w].e].tries \in 0..MaxAttempts
    BY <1>1, InboundAssumption DEF Read, TypeOK, Busy, Event
  <2> DEFINE new == [my[w] EXCEPT !.tries = event[my[w].e].tries, !.todo = Carries[my[w].e]]
             at == IF Processed(my[w].e) THEN "end" ELSE IF Instagram THEN "start" ELSE "items"
  <2>a. new \in Held /\ new.e = my[w].e
    <3>1. my[w] \in Held
      BY DEF TypeOK, Held
    <3>2. new \in Held
      BY <2>1, <3>1, EditedCopy
    <3> QED BY <3>1, <3>2 DEF Held
  <2>b. my' = [my EXCEPT ![w] = new] /\ pc' = [pc EXCEPT ![w] = at] /\ at \in {"end", "start", "items"}
    BY <1>1 DEF Read, Goto
  <2> HIDE DEF new, at
  <2>2. pc' \in [Workers -> Doing] /\ my' \in [Workers -> Held] /\ Busy'
    BY <2>1, <2>a, <2>b DEF TypeOK, Busy, Doing, Held
  <2> QED BY <1>1, <2>2 DEF Read, TypeOK, rowVars, effects, Doing, Held
<1>2. CASE Start(w)
  BY <1>2 DEF Start, TypeOK, Busy, Goto, Event, effects
<1>3. CASE Finish(w)
  BY <1>3, FaultBounded DEF Finish, TypeOK, Busy, Goto, rowVars, effects
<1>4. CASE Raise(w)
  BY <1>4, FaultBounded DEF Raise, TypeOK, Busy, Goto, rowVars, effects
<1>5. CASE Mark(w)
  BY <1>5 DEF Mark, TypeOK, Busy, Goto, Event, effects
<1>6. CASE Fail(w)
  <2>1. my[w].e \in Events /\ my[w].tries \in 0..MaxAttempts
    BY <1>6 DEF Fail, TypeOK, Busy
  <2>2. (IF my[w].tries < MaxAttempts THEN my[w].tries + 1 ELSE MaxAttempts) \in 0..MaxAttempts
    BY <2>1, InboundAssumption
  <2>3. event' \in [Events -> Event]
    <3>1. event[my[w].e] \in Event /\ (IF Instagram THEN "failed" ELSE event[my[w].e].status) \in Statuses
      BY <2>1 DEF TypeOK, Event, Statuses
    <3>2. [event[my[w].e] EXCEPT
              !.tries = IF my[w].tries < MaxAttempts THEN my[w].tries + 1 ELSE MaxAttempts,
              !.status = IF Instagram THEN "failed" ELSE event[my[w].e].status] \in Event
      BY <2>2, <3>1, EditedEvent
    <3> QED BY <1>6, <2>1, <3>2, RowSet DEF Fail
  <2>4. tasks' \in [Events -> 0..MaxTasks]
    BY <1>6, <2>1, QueuedTyped DEF Fail, TypeOK
  <2> QED BY <1>6, <2>3, <2>4 DEF Fail, TypeOK, Busy, Goto, effects
<1> QED BY <1>1, <1>2, <1>3, <1>4, <1>5, <1>6

\* The steps that end a worker's event.
LEMMA LeaveTyped ==
    ASSUME TypeOK, Busy, NEW w \in Workers, End(w) \/ Crash(w)
    PROVE  TypeOK' /\ Busy'
<1>1. pc' \in [Workers -> Doing] /\ my' \in [Workers -> Held] /\ Busy'
  <2>1. pc' = [pc EXCEPT ![w] = "idle"] /\ my' = [my EXCEPT ![w] = Free]
    BY DEF End, Crash
  <2> QED BY <2>1, FreeTyped DEF TypeOK, Busy, Doing, Held
<1>2. CASE End(w)
  BY <1>1, <1>2 DEF End, TypeOK, rowVars, effects, Doing, Held
<1>3. CASE Crash(w)
  <2>1. my[w].e \in Events
    BY <1>3 DEF Crash, Busy
  <2> QED BY <1>1, <1>3, <2>1, QueuedTyped, FaultBounded DEF Crash, TypeOK, rowVars, effects, Doing, Held
<1> QED BY <1>2, <1>3

\* WhatsApp's items.
LEMMA ItemTyped ==
    ASSUME TypeOK, Busy, NEW w \in Workers, NEW m \in Msgs, Item(w, m) \/ BadItem(w, m)
    PROVE  TypeOK' /\ Busy'
<1>1. my' \in [Workers -> Held] /\ pc' = pc /\ Busy'
  <2>1. my[w] \in Held /\ my[w].todo \ {m} \in SUBSET Msgs
    BY DEF TypeOK, Held
  <2>2. PICK new \in Held : my' = [my EXCEPT ![w] = new] /\ new.e = my[w].e /\ new.m = my[w].m /\ pc' = pc
    <3>1. CASE Item(w, m)
      <4> DEFINE new == [my[w] EXCEPT !.todo = my[w].todo \ {m}]
      <4>1. new \in Held /\ new.e = my[w].e /\ new.m = my[w].m
        BY <2>1, EditedCopy DEF Held
      <4>2. my' = [my EXCEPT ![w] = new] /\ pc' = pc
        BY <3>1 DEF Item
      <4> QED BY <4>1, <4>2
    <3>2. CASE BadItem(w, m)
      <4> DEFINE new == [my[w] EXCEPT !.todo = my[w].todo \ {m}, !.bad = TRUE]
      <4>1. new \in Held
        BY <2>1, EditedCopy
      <4>2. new.e = my[w].e /\ new.m = my[w].m
        BY <2>1 DEF Held
      <4>3. my' = [my EXCEPT ![w] = new] /\ pc' = pc
        BY <3>2 DEF BadItem, Spoiled
      <4> QED BY <4>1, <4>2, <4>3
    <3> QED BY <3>1, <3>2
  <2> QED BY <2>2 DEF TypeOK, Busy, Held
<1>2. CASE Item(w, m)
  <2>1. logged' \subseteq Msgs /\ consent' \subseteq Msgs
    BY <1>2 DEF Item, Recorded, TypeOK
  <2>2. /\ spine' \subseteq Msgs /\ emitted' \subseteq Msgs /\ swallowed' \subseteq Msgs
        /\ enrolled' \in [Msgs -> 0..2] /\ faults' \in 0..MaxFaults
    BY <1>2, GivenTyped, FaultBounded DEF Item, Project, TypeOK
  <2> QED BY <1>1, <1>2, <2>1, <2>2 DEF Item, TypeOK, rowVars, Held
<1>3. CASE BadItem(w, m)
  BY <1>1, <1>3, FaultBounded DEF BadItem, TypeOK, rowVars, effects, Held
<1> QED BY <1>2, <1>3

\* Instagram's items, save by save.
LEMMA SaveTyped ==
    ASSUME TypeOK, Busy, NEW w \in Workers,
           (\E m \in Msgs : Store(w, m)) \/ ToSpine(w) \/ Emit(w) \/ Enroll(w)
    PROVE  TypeOK' /\ Busy'
<1>1. ASSUME NEW m \in Msgs, Store(w, m) PROVE TypeOK' /\ Busy'
  <2>1. pc' \in [Workers -> Doing] /\ my' \in [Workers -> Held] /\ Busy'
    BY <1>1 DEF Store, TypeOK, Busy, Goto, Doing, Held
  <2> QED BY <1>1, <2>1 DEF Store, TypeOK, rowVars, Doing, Held
<1>2. CASE ToSpine(w)
  <2>1. my[w].m \in Msgs
    BY <1>2 DEF ToSpine, Busy
  <2>2. CASE my[w].m \in spine
    BY <1>2, <2>2, NextItemTyped DEF ToSpine, TypeOK, rowVars, Doing, Held
  <2>3. CASE my[w].m \notin spine
    BY <1>2, <2>1, <2>3 DEF ToSpine, TypeOK, Busy, Goto, rowVars
  <2> QED BY <2>2, <2>3
<1>3. CASE Emit(w)
  <2>1. my[w].m \in Msgs
    BY <1>3 DEF Emit, Busy
  <2>2. CASE my[w].m \in emitted
    BY <1>3, <2>1, <2>2, NextItemTyped DEF Emit, TypeOK, rowVars, Doing, Held
  <2>3. CASE my[w].m \notin emitted
    BY <1>3, <2>1, <2>3 DEF Emit, TypeOK, Busy, Goto, rowVars
  <2> QED BY <2>2, <2>3
<1>4. CASE Enroll(w)
  <2>1. my[w].m \in Msgs
    BY <1>4 DEF Enroll, Busy
  <2>2. pc' \in [Workers -> Doing] /\ my' \in [Workers -> Held] /\ Busy'
    BY <1>4, NextItemTyped DEF Enroll
  <2>3. enrolled' \in [Msgs -> 0..2] /\ swallowed' \subseteq Msgs /\ faults' \in 0..MaxFaults
    BY <1>4, <2>1, GivenTyped, FaultBounded DEF Enroll, TypeOK
  <2> QED BY <1>4, <2>2, <2>3 DEF Enroll, TypeOK, rowVars, Doing, Held
<1> QED BY <1>1, <1>2, <1>3, <1>4

LEMMA TypeStep ==
    ASSUME TypeOK, Busy, [Next]_vars
    PROVE  TypeOK' /\ Busy'
<1>1. CASE UNCHANGED vars
  BY <1>1 DEF vars, rowVars, workVars, effects, TypeOK, Busy
<1>2. ASSUME NEW w \in Workers, Work(w) PROVE TypeOK' /\ Busy'
  BY <1>2, EventTyped, LeaveTyped, ItemTyped, SaveTyped DEF Work
<1>3. ASSUME NEW w \in Workers, Crash(w) \/ \E e \in Events : Take(w, e) PROVE TypeOK' /\ Busy'
  BY <1>3, LeaveTyped, TakeTyped
<1>4. ASSUME NEW e \in Events, \/ ReceiveRead(e) \/ Receive(e) \/ Release(e) \/ ReleaseEnqueue(e)
                               \/ ReleaseCrash(e) \/ Sweep(e) \/ Age(e) \/ Expire(e)
      PROVE  TypeOK' /\ Busy'
  BY <1>4, ReceiveTyped, ReleaseTyped, RowTyped
<1>5. CASE Switch
  BY <1>5 DEF Switch, TypeOK, Busy, workVars, effects
<1> QED BY <1>1, <1>2, <1>3, <1>4, <1>5 DEF Next

-----------------------------------------------------------------------------
(* Given once.                                                             *)

LEMMA InitOnce == Init => OnceInv
BY DEF Init, OnceInv, Untold, Entered, Alone, HandledOnce

\* A step that gives the workflows nothing and brings no worker to "enroll".
LEMMA OthersOnce ==
    ASSUME TypeOK, Busy, OnceInv, emitted' = emitted, enrolled' = enrolled,
           \A w \in Workers : pc'[w] = "enroll" => pc[w] = "enroll" /\ my'[w].m = my[w].m
    PROVE  OnceInv'
BY DEF OnceInv, Untold, Entered, Alone, HandledOnce

\* A step that leaves the workers alone and gives one message, if fresh.
LEMMA ProjectOnce ==
    ASSUME TypeOK, Busy, OnceInv, NEW w \in Workers, NEW m \in Msgs, Item(w, m)
    PROVE  OnceInv'
<1>1. \A v \in Workers : pc'[v] = pc[v] /\ my'[v].m = my[v].m
  BY DEF Item, TypeOK, Held
<1>2. \/ emitted' = emitted /\ enrolled' = enrolled
      \/ m \notin emitted /\ emitted' = emitted \cup {m} /\ enrolled' = enrolled
      \/ m \notin emitted /\ emitted' = emitted \cup {m} /\ enrolled' = Given(m)
  BY DEF Item, Project, Fresh
<1>3. CASE emitted' = emitted /\ enrolled' = enrolled
  BY <1>1, <1>3, OthersOnce
<1>4. CASE m \notin emitted /\ emitted' = emitted \cup {m} /\ enrolled' = enrolled
  BY <1>1, <1>4 DEF OnceInv, Untold, Entered, Alone, HandledOnce
<1>5. CASE m \notin emitted /\ emitted' = emitted \cup {m} /\ enrolled' = Given(m)
  <2>1. enrolled'[m] = 1 /\ \A n \in Msgs \ {m} : enrolled'[n] = enrolled[n]
    BY <1>5 DEF OnceInv, Untold, TypeOK, Given
  <2>2. \A v \in Workers : pc[v] = "enroll" => my[v].m # m
    BY <1>5 DEF OnceInv, Entered
  <2>3. Entered'
    BY <1>1, <1>5, <2>1, <2>2 DEF OnceInv, Entered, Busy
  <2> QED BY <1>1, <1>5, <2>1, <2>3 DEF OnceInv, Untold, Alone, HandledOnce
<1> QED BY <1>2, <1>3, <1>4, <1>5

\* The first to record the message goes on to give it.
LEMMA EmitOnce ==
    ASSUME TypeOK, Busy, OnceInv, NEW w \in Workers, Emit(w)
    PROVE  OnceInv'
<1> DEFINE m == my[w].m
<1>1. m \in Msgs /\ pc[w] # "idle"
  BY DEF Emit, Busy
<1>2. CASE m \in emitted
  <2>1. pc'[w] = "items" /\ \A v \in Workers \ {w} : pc'[v] = pc[v] /\ my'[v] = my[v]
    BY <1>1, <1>2, NextItemTyped DEF Emit
  <2>2. emitted' = emitted /\ enrolled' = enrolled
    BY <1>2 DEF Emit
  <2> QED BY <2>1, <2>2, OthersOnce
<1>3. CASE m \notin emitted
  <2>1. /\ pc'[w] = "enroll" /\ my' = my
        /\ \A v \in Workers \ {w} : pc'[v] = pc[v]
    BY <1>3 DEF Emit, Goto, TypeOK
  <2>2. enrolled[m] = 0 /\ \A v \in Workers : pc[v] = "enroll" => my[v].m # m
    BY <1>1, <1>3 DEF OnceInv, Untold, Entered
  <2>3. emitted' = emitted \cup {m} /\ enrolled' = enrolled
    BY DEF Emit
  <2>4. Untold' /\ Entered' /\ HandledOnce'
    BY <2>1, <2>2, <2>3 DEF OnceInv, Untold, Entered, HandledOnce
  <2>5. Alone'
    BY <2>1, <2>2 DEF OnceInv, Alone
  <2> QED BY <2>4, <2>5 DEF OnceInv
<1> QED BY <1>2, <1>3

LEMMA EnrollOnce ==
    ASSUME TypeOK, Busy, OnceInv, NEW w \in Workers, Enroll(w)
    PROVE  OnceInv'
<1> DEFINE m == my[w].m
<1>1. m \in Msgs /\ pc[w] = "enroll" /\ m \in emitted /\ enrolled[m] = 0
  BY DEF Enroll, Busy, OnceInv, Entered
<1>2. pc'[w] = "items" /\ \A v \in Workers \ {w} : pc'[v] = pc[v] /\ my'[v] = my[v]
  BY <1>1, NextItemTyped DEF Enroll
<1>3. emitted' = emitted
  BY DEF Enroll
<1>4. CASE enrolled' = enrolled
  BY <1>2, <1>3, <1>4, OthersOnce
<1>5. CASE enrolled' = Given(m)
  <2>1. enrolled'[m] = 1 /\ \A n \in Msgs \ {m} : enrolled'[n] = enrolled[n]
    BY <1>1, <1>5 DEF TypeOK, Given
  <2>2. \A v \in Workers \ {w} : pc[v] = "enroll" => my[v].m # m
    BY <1>1 DEF OnceInv, Alone
  <2>3. Entered'
    BY <1>2, <1>3, <2>1, <2>2 DEF OnceInv, Entered, Busy
  <2> QED BY <1>1, <1>2, <1>3, <2>1, <2>3 DEF OnceInv, Untold, Alone, HandledOnce
<1> QED BY <1>4, <1>5 DEF Enroll

LEMMA WorkOnce ==
    ASSUME TypeOK, Busy, OnceInv, NEW w \in Workers, Work(w)
    PROVE  OnceInv'
<1>1. CASE Read(w)
  BY <1>1, OthersOnce DEF Read, Goto, TypeOK, effects
<1>2. CASE Start(w) \/ Finish(w) \/ Mark(w) \/ Fail(w) \/ Raise(w)
  BY <1>2, OthersOnce DEF Start, Finish, Mark, Fail, Raise, Goto, TypeOK, effects
<1>3. CASE End(w)
  BY <1>3, OthersOnce DEF End, TypeOK, effects
<1>4. CASE ToSpine(w)
  <2>1. CASE my[w].m \in spine
    BY <1>4, <2>1, NextItemTyped, OthersOnce DEF ToSpine
  <2>2. CASE my[w].m \notin spine
    BY <1>4, <2>2, OthersOnce DEF ToSpine, Goto, TypeOK
  <2> QED BY <2>1, <2>2
<1>5. CASE Emit(w)
  BY <1>5, EmitOnce
<1>6. CASE Enroll(w)
  BY <1>6, EnrollOnce
<1>7. ASSUME NEW m \in Msgs, Item(w, m) PROVE OnceInv'
  BY <1>7, ProjectOnce
<1>8. ASSUME NEW m \in Msgs, BadItem(w, m) PROVE OnceInv'
  BY <1>8, OthersOnce DEF BadItem, Spoiled, TypeOK, effects
<1>9. ASSUME NEW m \in Msgs, Store(w, m) PROVE OnceInv'
  BY <1>9, OthersOnce DEF Store, Goto, TypeOK
<1> QED BY <1>1, <1>2, <1>3, <1>4, <1>5, <1>6, <1>7, <1>8, <1>9 DEF Work

LEMMA OnceStep ==
    ASSUME TypeOK, Busy, OnceInv, [Next]_vars
    PROVE  OnceInv'
<1>1. CASE UNCHANGED vars
  BY <1>1, OthersOnce DEF vars, workVars, effects
<1>2. ASSUME NEW w \in Workers, Work(w) PROVE OnceInv'
  BY <1>2, WorkOnce
<1>3. ASSUME NEW w \in Workers, Crash(w) PROVE OnceInv'
  BY <1>3, OthersOnce DEF Crash, TypeOK, effects
<1>4. ASSUME NEW w \in Workers, NEW e \in Events, Take(w, e) PROVE OnceInv'
  BY <1>4, OthersOnce DEF Take, Goto, TypeOK, effects
<1>5. ASSUME NEW e \in Events, \/ ReceiveRead(e) \/ Receive(e) \/ Release(e) \/ ReleaseEnqueue(e)
                               \/ ReleaseCrash(e) \/ Sweep(e) \/ Age(e) \/ Expire(e)
      PROVE  OnceInv'
  <2>1. pc' = pc /\ my' = my /\ emitted' = emitted /\ enrolled' = enrolled
    BY <1>5 DEF ReceiveRead, Receive, Release, ReleaseEnqueue, ReleaseCrash, Sweep, Age, Expire,
                workVars, effects
  <2> QED BY <2>1, OthersOnce
<1>6. CASE Switch
  BY <1>6, OthersOnce DEF Switch, workVars, effects
<1> QED BY <1>1, <1>2, <1>3, <1>4, <1>5, <1>6 DEF Next

-----------------------------------------------------------------------------
(* A processed event has left nothing out.                                 *)

\* No effect is undone.
Grows == /\ logged \subseteq logged' /\ consent \subseteq consent' /\ spine \subseteq spine'
         /\ swallowed \subseteq swallowed' /\ scene' = scene
\* A step of w leaves the other workers alone.
Others(w) == \A v \in Workers \ {w} : pc'[v] = pc[v] /\ my'[v] = my[v]

LEMMA DoneStays ==
    ASSUME Grows, NEW m, Done(m)
    PROVE  Done(m)'
BY DEF Grows, Done, WhatsApp

LEMMA ChannelKnown == TypeOK => (WhatsApp \/ Instagram)
BY InboundAssumption DEF TypeOK, WhatsApp, Instagram, Scene

LEMMA SameProgress ==
    ASSUME NEW w \in Workers, Passed(w), InOrder(w), Grows, pc'[w] = pc[w], my'[w] = my[w]
    PROVE  Passed(w)' /\ InOrder(w)'
<1>1. Passed(w)'
  BY DoneStays DEF Passed
<1>2. InOrder(w)'
  BY DEF InOrder, Grows, WhatsApp
<1> QED BY <1>1, <1>2

LEMMA OneProgress ==
    ASSUME Progress, Grows, NEW w \in Workers, Others(w), Passed(w)', InOrder(w)'
    PROVE  Progress'
<1>1. ASSUME NEW v \in Workers PROVE Passed(v)' /\ InOrder(v)'
  <2>1. CASE v = w
    BY <2>1
  <2>2. CASE v # w
    BY <2>2, SameProgress DEF Progress, Others
  <2> QED BY <2>1, <2>2
<1> QED BY <1>1 DEF Progress

\* A worker that stands where nothing is claimed of it.
LEMMA IdleProgress ==
    ASSUME Progress, Grows, NEW w \in Workers, Others(w), pc'[w] \in {"idle", "read", "end", "fail"}
    PROVE  Progress'
<1>1. Passed(w)' /\ InOrder(w)'
  BY DEF Passed, InOrder
<1> QED BY <1>1, OneProgress

\* Between the saves nobody is taken from a message, unless the run is
\* interrupted, and no message is newly begun.
LEMMA SameTold ==
    ASSUME Told, UNCHANGED effects, scene' = scene,
           \A w \in Workers : pc[w] \in {"emit", "enroll"} =>
               (pc'[w] = pc[w] /\ my'[w].m = my[w].m) \/ Interrupted
    PROVE  Told'
<1>1. Interrupted' <=> Interrupted
  BY DEF Interrupted, Instagram
<1>2. \A m : Between(m, "emit") => Between(m, "emit")' \/ Interrupted
  BY DEF Between
<1>3. \A m : Between(m, "enroll") => Between(m, "enroll")' \/ Interrupted
  BY DEF Between
<1>4. SpineTold'
  BY <1>1, <1>2 DEF Told, SpineTold, effects
<1>5. EmittedTold'
  BY <1>1, <1>3 DEF Told, EmittedTold, effects
<1> QED BY <1>4, <1>5 DEF Told, effects, WhatsApp

\* A fault that interrupts Instagram's saves.
LEMMA FaultInterrupts ==
    ASSUME Fault("crash") \/ Fault("error"), Instagram
    PROVE  Interrupted
BY DEF Fault, Interrupted

LEMMA KeptStays ==
    ASSUME Kept, Grows, \A e \in Events : Processed(e)' => Processed(e) \/ \A m \in Carries[e] : Done(m)
    PROVE  Kept'
BY DoneStays DEF Kept

\* The rows: none becomes processed.
LEMMA RowsHandled ==
    ASSUME HInv, NEW e \in Events,
           \/ ReceiveRead(e) \/ Receive(e) \/ Release(e) \/ ReleaseEnqueue(e)
           \/ ReleaseCrash(e) \/ Sweep(e) \/ Age(e) \/ Expire(e) \/ Switch
    PROVE  Progress' /\ Told' /\ Kept'
<1>1. pc' = pc /\ my' = my /\ UNCHANGED effects /\ scene' = scene
  BY DEF ReceiveRead, Receive, Release, ReleaseEnqueue, ReleaseCrash, Sweep, Age, Expire, Switch, workVars
<1>2. Grows
  BY <1>1 DEF Grows, effects
<1>3. Progress'
  BY <1>1, <1>2, SameProgress DEF HInv, Progress
<1>4. Told'
  BY <1>1, SameTold DEF HInv
<1>5. \A f \in Events : Processed(f)' => Processed(f)
  <2>1. event \in [Events -> Event]
    BY DEF HInv, IInv, TypeOK
  <2>2. CASE ReceiveRead(e) \/ ReleaseCrash(e) \/ Sweep(e) \/ Expire(e) \/ Switch
    BY <2>2 DEF ReceiveRead, ReleaseCrash, Sweep, Expire, Switch, rowVars, Processed
  <2>3. CASE Receive(e)
    BY <2>1, <2>3 DEF Receive, Processed, Event
  <2>4. CASE Release(e)
    BY <2>1, <2>4 DEF Release, Released, Processed, Event
  <2>5. CASE ReleaseEnqueue(e)
    BY <2>1, <2>5 DEF ReleaseEnqueue, Processed, Event
  <2>6. CASE Age(e)
    BY <2>1, <2>6 DEF Age, Processed, Event
  <2> QED BY <2>2, <2>3, <2>4, <2>5, <2>6
<1>6. Kept'
  BY <1>2, <1>5, KeptStays DEF HInv
<1> QED BY <1>3, <1>4, <1>6

\* A worker takes an event, ends it, dies or gives it up.
LEMMA LeaveHandled ==
    ASSUME HInv, NEW w \in Workers,
           (\E e \in Events : Take(w, e)) \/ End(w) \/ Crash(w) \/ Raise(w) \/ Fail(w)
    PROVE  Progress' /\ Told' /\ Kept'
<1>0. TypeOK
  BY DEF HInv, IInv
<1>1. UNCHANGED effects /\ scene' = scene /\ Others(w)
  BY <1>0 DEF Take, End, Crash, Raise, Fail, Goto, Others, TypeOK
<1>2. Grows
  BY <1>1 DEF Grows, effects
<1>3. pc'[w] \in {"idle", "read", "end", "fail"}
  BY <1>0 DEF Take, End, Crash, Raise, Fail, Goto, TypeOK
<1>4. Progress'
  BY <1>1, <1>2, <1>3, IdleProgress DEF HInv
<1>5. pc[w] \in {"emit", "enroll"} => Interrupted
  <2>1. pc[w] \in {"emit", "enroll"} => Instagram
    BY <1>0, ChannelKnown DEF HInv, Progress, InOrder
  <2>2. pc[w] \in {"emit", "enroll"} => Fault("crash") \/ Fault("error")
    BY DEF Take, End, Crash, Raise, Fail
  <2> QED BY <2>1, <2>2, FaultInterrupts
<1>6. Told'
  BY <1>1, <1>5, SameTold DEF HInv, Others
<1>7. \A f \in Events : Processed(f)' => Processed(f)
  <2>1. CASE event' = event
    BY <2>1 DEF Processed
  <2>2. CASE Fail(w)
    BY <1>0, <2>2 DEF Fail, Processed, TypeOK, Event
  <2> QED BY <2>1, <2>2 DEF Take, End, Crash, Raise, rowVars
<1> QED BY <1>2, <1>4, <1>6, <1>7, KeptStays DEF HInv

\* A worker reads its event, starts, and finishes its batch.
LEMMA AroundHandled ==
    ASSUME HInv, NEW w \in Workers, Read(w) \/ Start(w) \/ Finish(w) \/ Mark(w)
    PROVE  Progress' /\ Told' /\ Kept'
<1>0. TypeOK /\ Passed(w) /\ InOrder(w) /\ (WhatsApp \/ Instagram)
  BY ChannelKnown DEF HInv, IInv, Progress
<1>1. UNCHANGED effects /\ scene' = scene /\ Others(w)
  BY <1>0 DEF Read, Start, Finish, Mark, Goto, Others, TypeOK
<1>2. Grows
  BY <1>1 DEF Grows, effects
<1>3. Told'
  <2>1. pc[w] \notin {"emit", "enroll"}
    BY DEF Read, Start, Finish, Mark
  <2> QED BY <1>1, <2>1, SameTold DEF HInv, Others
<1>4. CASE Read(w)
  <2> DEFINE new == [my[w] EXCEPT !.tries = event[my[w].e].tries, !.todo = Carries[my[w].e]]
             at == IF Processed(my[w].e) THEN "end" ELSE IF Instagram THEN "start" ELSE "items"
  <2>1. my'[w] = new /\ pc'[w] = at
    BY <1>0, <1>4 DEF Read, Goto, TypeOK
  <2>2. new.todo = Carries[new.e]
    BY <1>0 DEF TypeOK
  <2>3. at \in {"end", "start", "items"} /\ (at = "start" => Instagram)
    OBVIOUS
  <2> HIDE DEF new, at
  <2>4. Passed(w)' /\ InOrder(w)'
    <3>1. ~(WhatsApp' /\ Instagram)
      BY <1>1 DEF WhatsApp, Instagram
    <3> QED BY <2>1, <2>2, <2>3, <3>1 DEF Passed, InOrder
  <2>5. event' = event
    BY <1>4 DEF Read, rowVars
  <2>6. Kept'
    BY <1>2, <2>5, KeptStays DEF HInv, Processed
  <2> QED BY <1>1, <1>2, <1>3, <2>4, <2>6, OneProgress DEF HInv
<1>5. CASE Start(w)
  <2>1. pc'[w] = "items" /\ my'[w] = my[w] /\ pc[w] = "start"
    BY <1>0, <1>5 DEF Start, Goto, TypeOK
  <2>2. Passed(w)' /\ InOrder(w)'
    BY <1>0, <2>1 DEF Passed, InOrder
  <2>3. \A f \in Events : Processed(f)' => Processed(f)
    BY <1>0, <1>5 DEF Start, Processed, TypeOK, Event
  <2>4. Kept'
    BY <1>2, <2>3, KeptStays DEF HInv
  <2> QED BY <1>1, <1>2, <1>3, <2>2, <2>4, OneProgress DEF HInv
<1>6. CASE Finish(w)
  <2>1. /\ pc[w] = "items" /\ my'[w] = my[w] /\ my[w].todo = {} /\ event' = event
        /\ pc'[w] \in {"mark", "fail"} /\ (pc'[w] = "mark" => ~my[w].bad)
    BY <1>0, <1>6 DEF Finish, Goto, TypeOK, rowVars
  <2>2. Passed(w)' /\ InOrder(w)'
    <3>1. Passed(w)'
      BY <1>0, <1>2, <2>1, DoneStays DEF Passed
    <3> QED BY <2>1, <3>1 DEF InOrder
  <2>3. Kept'
    BY <1>2, <2>1, KeptStays DEF HInv, Processed
  <2> QED BY <1>1, <1>2, <1>3, <2>2, <2>3, OneProgress DEF HInv
<1>7. CASE Mark(w)
  <2>1. pc'[w] = "end" /\ pc[w] = "mark" /\ my[w].e \in Events
    BY <1>0, <1>7 DEF Mark, Goto, TypeOK, HInv, IInv, Busy
  <2>2. \A f \in Events : Processed(f)' => Processed(f) \/ f = my[w].e
    BY <1>0, <1>7, <2>1 DEF Mark, Processed, TypeOK, Event
  <2>3. \A m \in Carries[my[w].e] : Done(m)
    BY <1>0, <2>1 DEF Passed, InOrder
  <2>4. Kept'
    BY <1>2, <2>2, <2>3, KeptStays DEF HInv
  <2>5. Progress'
    BY <1>1, <1>2, <2>1, IdleProgress DEF HInv
  <2> QED BY <1>3, <2>4, <2>5
<1> QED BY <1>4, <1>5, <1>6, <1>7

\* WhatsApp's items.
LEMMA ItemHandled ==
    ASSUME HInv, NEW w \in Workers, NEW m \in Msgs, Item(w, m)
    PROVE  Progress' /\ Told' /\ Kept'
<1>0. TypeOK /\ Passed(w) /\ InOrder(w) /\ Told /\ OnceInv /\ pc[w] = "items"
  BY DEF HInv, IInv, Progress, Item
<1>1. scene' = scene /\ Others(w) /\ pc' = pc /\ event' = event
  BY <1>0 DEF Item, Others, TypeOK, rowVars
<1>2. Grows
  BY <1>1 DEF Item, Recorded, Project, Grows
<1>3. /\ my'[w].todo = my[w].todo \ {m} /\ my'[w].bad = my[w].bad /\ my'[w].e = my[w].e
      /\ \A v \in Workers : my'[v].m = my[v].m
  BY <1>0 DEF Item, TypeOK
<1>4. Done(m)'
  BY <1>0, <1>1 DEF Item, Recorded, Project, Fresh, Done, Told, WhatsApp
<1>5. Progress'
  <2>1. Passed(w)'
    BY <1>0, <1>1, <1>2, <1>3, <1>4, DoneStays DEF Passed
  <2>2. InOrder(w)'
    BY <1>0, <1>1 DEF InOrder
  <2> QED BY <1>1, <1>2, <2>1, <2>2, OneProgress DEF HInv
<1>6. Told'
  <2>1. Interrupted' <=> Interrupted
    BY <1>1 DEF Interrupted, Instagram
  <2>2. \A n, at : Between(n, at)' <=> Between(n, at)
    BY <1>1, <1>3 DEF Between
  <2>3. emitted' \subseteq spine' /\ (WhatsApp' => logged' \subseteq consent')
    BY <1>0, <1>1 DEF Item, Recorded, Project, Told, WhatsApp
  <2>4. SpineTold'
    BY <1>0, <2>1, <2>2 DEF Item, Project, Told, SpineTold
  <2>5. EmittedTold'
    <3>1. \A n \in Msgs \ {m} : enrolled'[n] = enrolled[n]
      BY <1>0 DEF Item, Project, Given, TypeOK
    <3>2. m \in emitted' => (m \in emitted /\ enrolled'[m] = enrolled[m]) \/ m \in swallowed' \/ enrolled'[m] = 1
      BY <1>0 DEF Item, Project, Fresh, Given, TypeOK, OnceInv, Untold
    <3>3. emitted' \subseteq emitted \cup {m} /\ swallowed \subseteq swallowed' /\ emitted \subseteq Msgs
      BY <1>0 DEF Item, Project, TypeOK
    <3> QED BY <1>0, <2>1, <2>2, <3>1, <3>2, <3>3 DEF Told, EmittedTold
  <2> QED BY <2>3, <2>4, <2>5 DEF Told
<1> QED BY <1>1, <1>2, <1>5, <1>6, KeptStays DEF HInv, Processed

LEMMA BadItemHandled ==
    ASSUME HInv, NEW w \in Workers, NEW m \in Msgs, BadItem(w, m)
    PROVE  Progress' /\ Told' /\ Kept'
<1>0. TypeOK /\ pc[w] = "items"
  BY DEF HInv, IInv, BadItem
<1>1. scene' = scene /\ Others(w) /\ pc' = pc /\ event' = event /\ UNCHANGED effects
  BY <1>0 DEF BadItem, Spoiled, Others, TypeOK, rowVars
<1>2. Grows
  BY <1>1 DEF Grows, effects
<1>3. my'[w].bad
  BY <1>0 DEF BadItem, Spoiled, TypeOK
<1>4. Passed(w)' /\ InOrder(w)'
  BY <1>0, <1>1, <1>3 DEF Passed, InOrder
<1>5. Told'
  BY <1>0, <1>1, SameTold DEF HInv, Others
<1>6. Kept'
  BY <1>1, <1>2, KeptStays DEF HInv, Processed
<1> QED BY <1>1, <1>2, <1>4, <1>5, <1>6, OneProgress DEF HInv

\* Instagram's items: the message is stored, ...
LEMMA StoreHandled ==
    ASSUME HInv, NEW w \in Workers, NEW m \in Msgs, Store(w, m)
    PROVE  Progress' /\ Told' /\ Kept'
<1>0. TypeOK /\ Passed(w) /\ Told /\ pc[w] = "items" /\ Instagram
  BY DEF HInv, IInv, Store, Progress
<1>1. scene' = scene /\ Others(w) /\ event' = event /\ logged' = logged \cup {m}
  BY <1>0 DEF Store, Goto, Others, TypeOK, rowVars
<1>2. UNCHANGED <<spine, emitted, enrolled, consent, swallowed>>
  BY DEF Store
<1>3. Grows
  BY <1>1, <1>2 DEF Grows
<1>4. /\ pc'[w] = "spine" /\ my'[w].m = m /\ my'[w].todo = my[w].todo /\ my'[w].bad = my[w].bad
      /\ my'[w].e = my[w].e
  BY <1>0 DEF Store, Goto, TypeOK
<1>5. Passed(w)' /\ InOrder(w)'
  <2>1. Passed(w)'
    BY <1>0, <1>3, <1>4, DoneStays DEF Passed
  <2>2. ~WhatsApp'
    BY <1>0, <1>1 DEF WhatsApp, Instagram
  <2> QED BY <1>1, <1>4, <2>1, <2>2 DEF InOrder
<1>6. Told'
  <2>1. (Interrupted' <=> Interrupted) /\ ~WhatsApp'
    BY <1>0, <1>1 DEF Interrupted, Instagram, WhatsApp
  <2>2. \A n : (Between(n, "emit") => Between(n, "emit")') /\ (Between(n, "enroll") => Between(n, "enroll")')
    BY <1>0, <1>1 DEF Between, Others
  <2> QED BY <1>0, <1>2, <2>1, <2>2 DEF Told, SpineTold, EmittedTold
<1> QED BY <1>1, <1>3, <1>5, <1>6, OneProgress, KeptStays DEF HInv, Processed

\* ... a worker that goes to the next item leaves this one done, ...
LEMMA NextProgress ==
    ASSUME HInv, Grows, NEW w \in Workers, pc[w] \in {"spine", "emit", "enroll"}, NextItem(w),
           my[w].m \in spine
    PROVE  Progress'
<1>0. TypeOK /\ Busy /\ Passed(w) /\ InOrder(w) /\ my[w].m \in logged /\ ~WhatsApp
  BY DEF HInv, IInv, Progress, InOrder
<1>1. pc'[w] = "items" /\ Others(w)
  BY <1>0, NextItemTyped DEF Others
<1>2. my'[w].todo = my[w].todo \ {my[w].m} /\ my'[w].bad = my[w].bad /\ my'[w].e = my[w].e
  BY <1>0 DEF NextItem, TypeOK
<1>3. Done(my[w].m)
  BY <1>0 DEF Done
<1>4. Passed(w)'
  BY <1>0, <1>1, <1>2, <1>3, DoneStays DEF Passed
<1>5. InOrder(w)'
  BY <1>1 DEF InOrder
<1> QED BY <1>1, <1>4, <1>5, OneProgress DEF HInv

\* ... and each save hands the message on to the next.
LEMMA SpineHandled ==
    ASSUME HInv, NEW w \in Workers, ToSpine(w)
    PROVE  Progress' /\ Told' /\ Kept'
<1>m. PICK m \in Msgs : my[w].m = m
  BY DEF HInv, IInv, Busy, ToSpine
<1>0. my[w].m = m /\ TypeOK /\ Busy /\ Passed(w) /\ InOrder(w) /\ Told /\ pc[w] = "spine" /\ ~WhatsApp /\ m \in logged
  BY <1>m DEF HInv, IInv, ToSpine, Progress, InOrder
<1>1. scene' = scene /\ event' = event /\ UNCHANGED <<logged, emitted, enrolled, consent, swallowed>>
  BY DEF ToSpine, rowVars
<1>2. Grows
  BY <1>1 DEF ToSpine, Grows
<1>3. Kept'
  BY <1>1, <1>2, KeptStays DEF HInv, Processed
<1>4. CASE m \in spine
  <2>1. NextItem(w) /\ UNCHANGED effects
    BY <1>0, <1>1, <1>4 DEF ToSpine, effects
  <2>2. Others(w)
    BY <1>0, <2>1, NextItemTyped DEF Others
  <2>3. Told'
    BY <1>0, <1>1, <2>1, <2>2, SameTold DEF Others
  <2> QED BY <1>0, <1>2, <1>3, <1>4, <2>1, <2>3, NextProgress
<1>5. CASE m \notin spine
  <2>1. spine' = spine \cup {m} /\ my' = my /\ pc'[w] = "emit" /\ Others(w)
    BY <1>0, <1>5 DEF ToSpine, Goto, Others, TypeOK
  <2>2. (Interrupted' <=> Interrupted) /\ ~WhatsApp'
    BY <1>0, <1>1 DEF Interrupted, Instagram, WhatsApp
  <2>3. Passed(w)'
    BY <1>0, <1>2, <2>1, DoneStays DEF Passed
  <2>4. InOrder(w)'
    BY <1>0, <1>1, <2>1, <2>2 DEF InOrder
  <2>5. Between(m, "emit")'
    BY <1>0, <2>1 DEF Between
  <2>6. \A n : (Between(n, "emit") => Between(n, "emit")') /\ (Between(n, "enroll") => Between(n, "enroll")')
    BY <1>0, <2>1 DEF Between, Others
  <2>7. Told'
    <3>1. SpineTold'
      BY <1>0, <1>1, <2>1, <2>2, <2>5, <2>6 DEF Told, SpineTold
    <3>2. EmittedTold'
      BY <1>0, <1>1, <2>2, <2>6 DEF Told, EmittedTold
    <3> QED BY <1>0, <1>1, <2>1, <2>2, <3>1, <3>2 DEF Told
  <2> QED BY <1>2, <1>3, <2>1, <2>3, <2>4, <2>7, OneProgress DEF HInv
<1> QED BY <1>4, <1>5

LEMMA EmitHandled ==
    ASSUME HInv, NEW w \in Workers, Emit(w)
    PROVE  Progress' /\ Told' /\ Kept'
<1>m. PICK m \in Msgs : my[w].m = m
  BY DEF HInv, IInv, Busy, Emit
<1>0. my[w].m = m /\ TypeOK /\ Busy /\ Passed(w) /\ InOrder(w) /\ Told /\ pc[w] = "emit" /\ ~WhatsApp /\ m \in logged /\ m \in spine
  BY <1>m DEF HInv, IInv, Emit, Progress, InOrder
<1>1. scene' = scene /\ event' = event /\ UNCHANGED <<logged, spine, enrolled, consent, swallowed>>
  BY DEF Emit, rowVars
<1>2. Grows
  BY <1>1 DEF Grows
<1>3. Kept'
  BY <1>1, <1>2, KeptStays DEF HInv, Processed
<1>a. (Interrupted' <=> Interrupted) /\ ~WhatsApp' /\ emitted' = emitted \cup {m}
  BY <1>0, <1>1 DEF Emit, Interrupted, Instagram, WhatsApp
<1>b. Progress' /\ (\A n : Between(n, "enroll") => Between(n, "enroll")')
      /\ (\A n : n # m /\ Between(n, "emit") => Between(n, "emit")')
      /\ (m \in emitted \/ Between(m, "enroll")')
  <2>1. CASE m \in emitted
    <3>1. NextItem(w)
      BY <1>0, <2>1 DEF Emit
    <3>2. Others(w)
      BY <1>0, <3>1, NextItemTyped DEF Others
    <3>3. Progress'
      BY <1>0, <1>2, <3>1, NextProgress
    <3> QED BY <1>0, <2>1, <3>2, <3>3 DEF Between, Others
  <2>2. CASE m \notin emitted
    <3>1. my' = my /\ pc'[w] = "enroll" /\ Others(w)
      BY <1>0, <2>2 DEF Emit, Goto, Others, TypeOK
    <3>2. Passed(w)'
      BY <1>0, <1>2, <3>1, DoneStays DEF Passed
    <3>3. InOrder(w)'
      BY <1>0, <1>1, <1>a, <3>1 DEF InOrder
    <3>4. Progress'
      BY <1>2, <3>1, <3>2, <3>3, OneProgress DEF HInv
    <3>5. ASSUME NEW n, n # m, Between(n, "emit") PROVE Between(n, "emit")'
      BY <1>0, <3>1, <3>5 DEF Between, Others
    <3>6. (\A n : Between(n, "enroll") => Between(n, "enroll")') /\ Between(m, "enroll")'
      BY <1>0, <3>1 DEF Between, Others
    <3> QED BY <3>4, <3>5, <3>6
  <2> QED BY <2>1, <2>2
<1>c. Told'
  <2>1. SpineTold'
    BY <1>0, <1>1, <1>a, <1>b DEF Told, SpineTold
  <2>2. EmittedTold'
    BY <1>0, <1>1, <1>a, <1>b DEF Told, EmittedTold
  <2> QED BY <1>0, <1>1, <1>a, <2>1, <2>2 DEF Told
<1> QED BY <1>3, <1>b, <1>c

LEMMA EnrollHandled ==
    ASSUME HInv, NEW w \in Workers, Enroll(w)
    PROVE  Progress' /\ Told' /\ Kept'
<1>m. PICK m \in Msgs : my[w].m = m
  BY DEF HInv, IInv, Busy, Enroll
<1>0. /\ my[w].m = m /\ TypeOK /\ Busy /\ OnceInv /\ Told /\ pc[w] = "enroll"
      /\ ~WhatsApp /\ m \in logged /\ m \in spine /\ m \in emitted /\ m \in Msgs /\ enrolled[m] = 0
  BY <1>m DEF HInv, IInv, Enroll, Progress, InOrder, OnceInv, Entered, Busy
<1>1. scene' = scene /\ event' = event /\ UNCHANGED <<logged, spine, emitted, consent>> /\ NextItem(w)
  BY DEF Enroll, rowVars
<1>2. Grows
  BY <1>1 DEF Enroll, Grows
<1>3. Kept'
  BY <1>1, <1>2, KeptStays DEF HInv, Processed
<1>4. Progress'
  BY <1>0, <1>1, <1>2, NextProgress
<1>5. Others(w)
  BY <1>0, <1>1, NextItemTyped DEF Others
<1>6. (Interrupted' <=> Interrupted) /\ ~WhatsApp' /\ swallowed \subseteq swallowed'
  BY <1>0, <1>1 DEF Enroll, Interrupted, Instagram, WhatsApp
<1>7. \A n : /\ n # m /\ Between(n, "enroll") => Between(n, "enroll")'
             /\ Between(n, "emit") => Between(n, "emit")'
  BY <1>0, <1>5 DEF Between, Others
<1>8. (enrolled'[m] = 1 \/ m \in swallowed') /\ \A n \in Msgs \ {m} : enrolled'[n] = enrolled[n]
  BY <1>0 DEF Enroll, Given, TypeOK
<1>9. Told'
  <2>1. SpineTold'
    BY <1>0, <1>1, <1>6, <1>7 DEF Told, SpineTold
  <2>2. EmittedTold'
    <3>1. emitted \subseteq Msgs
      BY <1>0 DEF TypeOK
    <3> QED BY <1>0, <1>1, <1>6, <1>7, <1>8, <3>1 DEF Told, EmittedTold
  <2> QED BY <1>0, <1>1, <1>6, <2>1, <2>2 DEF Told
<1> QED BY <1>3, <1>4, <1>9

LEMMA InitHandled == Init => Progress /\ Told /\ Kept
BY DEF Init, Progress, Passed, InOrder, Told, SpineTold, EmittedTold, Kept, Processed, Absent

LEMMA HandledStep ==
    ASSUME HInv, [Next]_vars
    PROVE  Progress' /\ Told' /\ Kept'
<1>1. CASE UNCHANGED vars
  <2>1. Grows /\ pc' = pc /\ my' = my /\ UNCHANGED effects /\ scene' = scene /\ event' = event
    BY <1>1 DEF vars, rowVars, workVars, effects, Grows
  <2> QED BY <2>1, SameProgress, SameTold, KeptStays DEF HInv, Progress, Processed
<1>2. ASSUME NEW w \in Workers, Work(w) PROVE Progress' /\ Told' /\ Kept'
  BY <1>2, LeaveHandled, AroundHandled, ItemHandled, BadItemHandled, StoreHandled, SpineHandled,
     EmitHandled, EnrollHandled DEF Work
<1>3. ASSUME NEW w \in Workers, Crash(w) \/ \E e \in Events : Take(w, e) PROVE Progress' /\ Told' /\ Kept'
  BY <1>3, LeaveHandled
<1>4. ASSUME NEW e \in Events, \/ ReceiveRead(e) \/ Receive(e) \/ Release(e) \/ ReleaseEnqueue(e)
                               \/ ReleaseCrash(e) \/ Sweep(e) \/ Age(e) \/ Expire(e)
      PROVE  Progress' /\ Told' /\ Kept'
  BY <1>4, RowsHandled
<1>5. CASE Switch
  <2>1. Grows /\ pc' = pc /\ my' = my /\ UNCHANGED effects /\ scene' = scene /\ event' = event
    BY <1>5 DEF Switch, workVars, effects, Grows
  <2> QED BY <2>1, SameProgress, SameTold, KeptStays DEF HInv, Progress, Processed
<1> QED BY <1>1, <1>2, <1>3, <1>4, <1>5 DEF Next

-----------------------------------------------------------------------------
\* Every variable keeps its type.
THEOREM TypeCorrect == Spec => []TypeOK
<1>1. Init => TypeOK /\ Busy
  BY InitTyped
<1>2. TypeOK /\ Busy /\ [Next]_vars => TypeOK' /\ Busy'
  BY TypeStep
<1> QED BY <1>1, <1>2, PTL DEF Spec

\* However a message is batched, delivered again, swept, retried or worked on
\* by any number of workers at once, with any faults, the workflows are given
\* it at most once.
THEOREM GivenOnce == Spec => []HandledOnce
<1>1. Init => IInv
  BY InitTyped, InitOnce DEF IInv
<1>2. IInv /\ [Next]_vars => IInv'
  BY TypeStep, OnceStep DEF IInv
<1>3. IInv => HandledOnce
  BY DEF IInv, OnceInv
<1> QED BY <1>1, <1>2, <1>3, PTL DEF Spec

\* An event marked processed has stored its messages and shown them in the
\* inbox, has honoured a STOP, and has given them to the workflows or is about
\* to, but for a projection or an enrolment that raised and, for Instagram, an
\* enrolment a crash or an error cut off: however often it was delivered,
\* released, swept or worked on by two workers at once.
THEOREM ProcessedHandled == Spec => []ProcessedIsHandled
<1>1. Init => HInv
  BY InitTyped, InitOnce, InitHandled DEF HInv, IInv
<1>2. HInv /\ [Next]_vars => HInv'
  BY TypeStep, OnceStep, HandledStep DEF HInv, IInv
<1>3. HInv => ProcessedIsHandled
  <2> SUFFICES ASSUME HInv, NEW e \in Events, Processed(e), NEW m \in Carries[e]
               PROVE  /\ Done(m)
                      /\ enrolled[m] = 1 \/ m \in swallowed \/ Handing(m) \/ Interrupted
    BY DEF ProcessedIsHandled, Done
  <2>1. Done(m)
    BY DEF HInv, Kept
  <2>2. \A n : Between(n, "emit") \/ Between(n, "enroll") => Handing(n)
    BY DEF Between, Handing
  <2>3. m \in spine => enrolled[m] = 1 \/ m \in swallowed \/ Handing(m) \/ Interrupted
    BY <2>2 DEF HInv, Told, SpineTold, EmittedTold
  <2> QED BY <2>1, <2>3 DEF Done
<1> QED BY <1>1, <1>2, <1>3, PTL DEF Spec
=============================================================================
