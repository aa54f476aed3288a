-------------------------- MODULE InboundPipeline --------------------------
(***************************************************************************)
(* A webhook of Meta from the request that stores it to the last effect of *)
(* its messages: the views that store or hold it (apps/whatsapp/views.py,  *)
(* apps/instagram/views.py), the tasks that process it, the release of     *)
(* held events and the sweep of stuck ones (apps/core/webhook_replay.py),  *)
(* and the projection into the inbox (apps/conversations/services.py).     *)
(*                                                                         *)
(* WhatsApp takes a lock in the cache per event and commits each message   *)
(* in one transaction; Instagram takes none and commits every save.        *)
(***************************************************************************)
EXTENDS Integers, FiniteSets

CONSTANTS
    Events, Msgs,
    Carries,       \* the messages each event carries; Meta batches as it likes
    Workers, None,
    Scenes,
    MaxAttempts,   \* _MAX_SWEEP_ATTEMPTS
    MaxTasks, MaxFaults   \* bounds of the checked instances

\* The channel, the events that come, whether an operator switches it off and on, what may fail: a
\* worker dies, the broker loses a task, an item raises, a projection or an
\* enrolment raises and is swallowed, work outlasts the lock.
Scene == [channel : {"whatsapp", "instagram"}, events : SUBSET Events, switched : BOOLEAN,
          faults : SUBSET {"crash", "broker", "error", "swallow", "slow"}]

ASSUME InboundAssumption ==
    /\ IsFiniteSet(Events) /\ None \notin Events \cup Msgs
    /\ Carries \in [Events -> SUBSET Msgs]
    /\ Scenes \subseteq Scene
    /\ MaxAttempts \in Nat \ {0} /\ MaxTasks \in Nat \ {0} /\ MaxFaults \in Nat

Event == [status : {"absent", "received", "processing", "failed", "processed"},
          held : BOOLEAN, tries : 0..MaxAttempts,
          old : BOOLEAN]   \* stored more than _STUCK_AFTER_MINUTES ago

VARIABLES
    event,      \* WebhookEventLog rows
    arriving,   \* what the view that will store an event has decided
    on,         \* the channel is enabled
    releasing,  \* events a replay has released and not yet enqueued
    tasks,      \* process_..._event messages in the broker, per event
    locks,      \* wa_event_processing keys in the cache
    pc, my,     \* per worker
    logged,     \* messages with a MessageLog or InstagramMessage
    spine,      \* messages in the inbox (conversations.Message)
    emitted,    \* messages whose conversation.message_received is recorded
    enrolled,   \* how often the workflows were given each message, up to 2
    consent,    \* messages whose STOP or START was applied
    swallowed,  \* messages whose projection or enrolment raised and was logged only
    faults, scene

rowVars == <<event, arriving, on, releasing>>
workVars == <<tasks, locks, pc, my>>
effects == <<logged, spine, emitted, enrolled, consent, swallowed>>
vars == <<rowVars, workVars, effects, faults, scene>>

Absent == [status |-> "absent", held |-> FALSE, tries |-> 0, old |-> FALSE]
Free == [e |-> None, m |-> None, todo |-> {}, tries |-> 0, bad |-> FALSE]

Init ==
    /\ scene \in Scenes
    /\ event = [e \in Events |-> Absent] /\ arriving = [e \in Events |-> "no"]
    /\ on = TRUE /\ releasing = {}
    /\ tasks = [e \in Events |-> 0] /\ locks = {}
    /\ pc = [w \in Workers |-> "idle"] /\ my = [w \in Workers |-> Free]
    /\ logged = {} /\ spine = {} /\ emitted = {} /\ consent = {} /\ swallowed = {}
    /\ enrolled = [m \in Msgs |-> 0]
    /\ faults = 0

WhatsApp == scene.channel = "whatsapp"
Instagram == scene.channel = "instagram"
Stored(e) == event[e].status # "absent"
Processed(e) == event[e].status = "processed"
Fault(kind) == kind \in scene.faults /\ faults < MaxFaults /\ faults' = faults + 1

Queued(e) == [tasks EXCEPT ![e] = IF @ < MaxTasks THEN @ + 1 ELSE @]
\* delay(): the broker takes the task, or it is lost.
Enqueue(e) == \/ tasks' = Queued(e) /\ UNCHANGED faults
              \/ Fault("broker") /\ UNCHANGED tasks

-----------------------------------------------------------------------------
(* Arrival, hold and release.                                              *)

\* The view: held while the channel is off or older events are held ...
ReceiveRead(e) ==
    /\ e \in scene.events /\ ~Stored(e) /\ arriving[e] = "no"
    /\ arriving' = [arriving EXCEPT ![e] =
                       IF ~on \/ \E f \in Events : event[f].held THEN "held" ELSE "open"]
    /\ UNCHANGED <<event, on, releasing, workVars, effects, faults, scene>>

\* ... stored, then enqueued on commit; the same body again is a duplicate.
Receive(e) ==
    /\ arriving[e] # "no" /\ ~Stored(e)
    /\ event' = [event EXCEPT ![e] = [@ EXCEPT !.status = "received", !.held = arriving[e] = "held"]]
    /\ IF arriving[e] = "held" THEN UNCHANGED <<tasks, faults>> ELSE Enqueue(e)
    /\ UNCHANGED <<arriving, on, releasing, locks, pc, my, effects, scene>>

Switch ==
    /\ scene.switched /\ on' = ~on
    /\ UNCHANGED <<event, arriving, releasing, workVars, effects, faults, scene>>

\* replay_held_webhooks: the claim of an event, oldest first ...
ReleasedUnknown(e) == [event EXCEPT ![e] = [@ EXCEPT !.held = FALSE, !.status = "released"]]
Released(e) == [event EXCEPT ![e] = [@ EXCEPT !.held = FALSE,
                                              !.status = IF Instagram THEN "received" ELSE event[e].status]]
Release(e) ==
    /\ on /\ event[e].held
    /\ event' = Released(e)
    /\ releasing' = releasing \cup {e}
    /\ UNCHANGED <<arriving, on, workVars, effects, faults, scene>>

\* ... and its task; without a broker it is held again.
ReleaseEnqueue(e) ==
    /\ e \in releasing
    /\ releasing' = releasing \ {e}
    /\ \/ tasks' = Queued(e) /\ UNCHANGED <<event, faults>>
       \/ /\ Fault("broker") /\ UNCHANGED tasks
          /\ event' = [event EXCEPT ![e] = [@ EXCEPT !.held = TRUE,
                                                     !.status = IF Instagram THEN "received" ELSE event[e].status]]
    /\ UNCHANGED <<arriving, on, locks, pc, my, effects, scene>>
ReleaseCrash(e) ==
    /\ e \in releasing /\ Fault("crash")
    /\ releasing' = releasing \ {e}
    /\ UNCHANGED <<event, arriving, on, workVars, effects, scene>>

\* sweep_stuck_webhooks: stored, acknowledged, not processed.
FailedOnly(e) == event[e].status = "failed" /\ ~event[e].held /\ event[e].old /\ event[e].tries < MaxAttempts
Stuck(e) == /\ event[e].status \in {"received", "processing", "failed"}
            /\ ~event[e].held /\ event[e].old /\ event[e].tries < MaxAttempts
Sweep(e) ==
    /\ on /\ Stuck(e) /\ Enqueue(e)
    /\ UNCHANGED <<rowVars, locks, pc, my, effects, scene>>

Age(e) ==
    /\ Stored(e) /\ ~event[e].old
    /\ event' = [event EXCEPT ![e].old = TRUE]
    /\ UNCHANGED <<arriving, on, releasing, workVars, effects, faults, scene>>

-----------------------------------------------------------------------------
(* A worker and its event.                                                 *)

Goto(w, at) == pc' = [pc EXCEPT ![w] = at]
Took(e) == [tasks EXCEPT ![e] = @ - 1]

\* process_whatsapp_event takes the lock; one that finds it taken comes back
\* later, which changes nothing, or has come too often.
Take(w, e) ==
    /\ pc[w] = "idle" /\ tasks[e] > 0
    /\ tasks' = Took(e)
    /\ IF WhatsApp /\ e \in locks
       THEN UNCHANGED <<locks, pc, my>>
       ELSE /\ locks' = IF WhatsApp THEN locks \cup {e} ELSE locks
            /\ my' = [my EXCEPT ![w] = [Free EXCEPT !.e = e]]
            /\ Goto(w, "read")
    /\ UNCHANGED <<rowVars, effects, faults, scene>>

\* The event is loaded; a processed one is left.
Read(w) ==
    LET e == my[w].e
    IN /\ pc[w] = "read"
       /\ my' = [my EXCEPT ![w] = [@ EXCEPT !.tries = event[e].tries, !.todo = Carries[e]]]
       /\ Goto(w, IF Processed(e) THEN "end" ELSE IF Instagram THEN "start" ELSE "items")
       /\ UNCHANGED <<rowVars, tasks, locks, effects, faults, scene>>

\* Instagram: mark_processing.
Start(w) ==
    /\ pc[w] = "start"
    /\ event' = [event EXCEPT ![my[w].e].status = "processing"]
    /\ Goto(w, "items")
    /\ UNCHANGED <<arriving, on, releasing, tasks, locks, my, effects, faults, scene>>

Given(m) == [enrolled EXCEPT ![m] = IF @ < 2 THEN @ + 1 ELSE @]
EveryTime(m) == TRUE
\* Message.get_or_create and emit_event create what is not there.
Fresh(m) == m \notin spine /\ m \notin emitted

\* record_inbound_whatsapp_message, if nothing raises; project_to_inbox and the
\* enrolment swallow what does.
Project(m) ==
    \/ /\ Fresh(m)
       /\ spine' = spine \cup {m} /\ emitted' = emitted \cup {m} /\ enrolled' = Given(m)
       /\ UNCHANGED <<swallowed, faults>>
    \/ ~Fresh(m) /\ UNCHANGED <<spine, emitted, enrolled, swallowed, faults>>
    \/ /\ Fresh(m) /\ Fault("swallow")
       /\ swallowed' = swallowed \cup {m}
       /\ \/ UNCHANGED <<spine, emitted>>
          \/ spine' = spine \cup {m} /\ emitted' = emitted \cup {m}
       /\ UNCHANGED enrolled

\* WhatsAppInboundService.handle: one transaction for each message of the
\* batch, so its effects come together or not at all; a worker that inserts the
\* same log waits for it.
Recorded(m) ==
    /\ logged' = logged \cup {m}
    /\ consent' = IF m \in logged THEN consent ELSE consent \cup {m}
Item(w, m) ==
    /\ WhatsApp /\ pc[w] = "items" /\ m \in my[w].todo
    /\ my' = [my EXCEPT ![w].todo = @ \ {m}]
    /\ Recorded(m) /\ Project(m)
    /\ UNCHANGED <<rowVars, tasks, locks, pc, scene>>

\* One that raises does not stop the others (_for_each_item).
Skipped(w, m) == [my EXCEPT ![w].todo = @ \ {m}]
Spoiled(w, m) == [my EXCEPT ![w] = [@ EXCEPT !.todo = my[w].todo \ {m}, !.bad = TRUE]]
BadItem(w, m) ==
    /\ WhatsApp /\ pc[w] = "items" /\ m \in my[w].todo /\ Fault("error")
    /\ my' = Spoiled(w, m)
    /\ UNCHANGED <<rowVars, tasks, locks, pc, effects, scene>>

\* Instagram, _record_inbound_dm: the message, then
\* record_inbound_instagram_message save by save.
Store(w, m) ==
    /\ Instagram /\ pc[w] = "items" /\ m \in my[w].todo
    /\ logged' = logged \cup {m}
    /\ my' = [my EXCEPT ![w].m = m] /\ Goto(w, "spine")
    /\ UNCHANGED <<rowVars, tasks, locks, spine, emitted, enrolled, consent, swallowed, faults, scene>>
NextItem(w) ==
    /\ my' = [my EXCEPT ![w] = [@ EXCEPT !.todo = my[w].todo \ {my[w].m}, !.m = None]]
    /\ Goto(w, "items")
ToSpine(w) ==
    LET m == my[w].m
    IN /\ pc[w] = "spine"
       /\ IF m \in spine
          THEN NextItem(w) /\ UNCHANGED spine
          ELSE spine' = spine \cup {m} /\ Goto(w, "emit") /\ UNCHANGED my
       /\ UNCHANGED <<rowVars, tasks, locks, logged, emitted, enrolled, consent, swallowed, faults, scene>>
Emit(w) ==
    LET m == my[w].m
    IN /\ pc[w] = "emit"
       /\ emitted' = emitted \cup {m}
       /\ IF m \in emitted THEN NextItem(w) ELSE Goto(w, "enroll") /\ UNCHANGED my
       /\ UNCHANGED <<rowVars, tasks, locks, logged, spine, enrolled, consent, swallowed, faults, scene>>
Enroll(w) ==
    /\ pc[w] = "enroll"
    /\ \/ enrolled' = Given(my[w].m) /\ UNCHANGED <<swallowed, faults>>
       \/ Fault("swallow") /\ swallowed' = swallowed \cup {my[w].m} /\ UNCHANGED enrolled
    /\ NextItem(w)
    /\ UNCHANGED <<rowVars, tasks, locks, logged, spine, emitted, consent, scene>>

\* All items are done: a bad one, or a status report that comes too early,
\* fails the event.
Finish(w) ==
    /\ pc[w] = "items" /\ my[w].todo = {}
    /\ \/ Goto(w, IF my[w].bad THEN "fail" ELSE "mark") /\ UNCHANGED faults
       \/ WhatsApp /\ Fault("error") /\ Goto(w, "fail")
    /\ UNCHANGED <<rowVars, tasks, locks, my, effects, scene>>
\* Instagram: any error ends the batch.
Raise(w) ==
    /\ Instagram /\ pc[w] \in {"items", "spine", "emit"} /\ Fault("error")
    /\ Goto(w, "fail")
    /\ UNCHANGED <<rowVars, tasks, locks, my, effects, scene>>

Mark(w) ==
    /\ pc[w] = "mark"
    /\ event' = [event EXCEPT ![my[w].e].status = "processed"]
    /\ Goto(w, "end")
    /\ UNCHANGED <<arriving, on, releasing, tasks, locks, my, effects, faults, scene>>

\* mark_failed saves the attempts of the copy; Celery retries, up to a point.
Fail(w) ==
    LET e == my[w].e
    IN /\ pc[w] = "fail"
       /\ event' = [event EXCEPT ![e] =
                       [@ EXCEPT !.tries = IF my[w].tries < MaxAttempts THEN my[w].tries + 1 ELSE MaxAttempts,
                                 !.status = IF Instagram THEN "failed" ELSE event[e].status]]
       /\ tasks' \in {tasks, Queued(e)}
       /\ Goto(w, "end")
       /\ UNCHANGED <<arriving, on, releasing, locks, my, effects, faults, scene>>

\* finally: the lock is deleted, whoever holds it by now.
End(w) ==
    /\ pc[w] = "end"
    /\ locks' = locks \ {my[w].e}
    /\ pc' = [pc EXCEPT ![w] = "idle"] /\ my' = [my EXCEPT ![w] = Free]
    /\ UNCHANGED <<rowVars, tasks, effects, faults, scene>>

\* A worker dies: the task is delivered again (acks_late), the lock stays.
Crash(w) ==
    /\ pc[w] # "idle" /\ Fault("crash")
    /\ tasks' = Queued(my[w].e)
    /\ pc' = [pc EXCEPT ![w] = "idle"] /\ my' = [my EXCEPT ![w] = Free]
    /\ UNCHANGED <<rowVars, locks, effects, scene>>

\* The lock's 300 seconds are over.
Expire(e) ==
    /\ e \in locks
    /\ \/ (\A w \in Workers : my[w].e # e) /\ UNCHANGED faults
       \/ Fault("slow")
    /\ locks' = locks \ {e}
    /\ UNCHANGED <<rowVars, tasks, pc, my, effects, scene>>

-----------------------------------------------------------------------------
Work(w) == \/ Read(w) \/ Start(w) \/ Finish(w) \/ Mark(w) \/ Fail(w) \/ End(w)
           \/ ToSpine(w) \/ Emit(w) \/ Enroll(w) \/ Raise(w)
           \/ \E m \in Msgs : Item(w, m) \/ BadItem(w, m) \/ Store(w, m)
Next ==
    \/ \E w \in Workers : Work(w) \/ Crash(w) \/ \E e \in Events : Take(w, e)
    \/ \E e \in Events : \/ ReceiveRead(e) \/ Receive(e) \/ Release(e) \/ ReleaseEnqueue(e)
                         \/ ReleaseCrash(e) \/ Sweep(e) \/ Age(e) \/ Expire(e)
    \/ Switch

Spec == Init /\ [][Next]_vars
\* Workers, beat and the clock, and a queue that passes no task over for ever;
\* Meta, operators and failures are free.
FairSpec ==
    /\ Spec
    /\ \A w \in Workers : WF_vars(Work(w))
    /\ \A e \in Events : /\ SF_vars(\E w \in Workers : Take(w, e))
                         /\ WF_vars(ReleaseEnqueue(e)) /\ WF_vars(Release(e)) /\ WF_vars(Sweep(e))
                         /\ WF_vars(Age(e)) /\ WF_vars(Expire(e))

-----------------------------------------------------------------------------
TypeOK ==
    /\ event \in [Events -> Event]
    /\ arriving \in [Events -> {"no", "held", "open"}]
    /\ on \in BOOLEAN /\ releasing \subseteq Events
    /\ tasks \in [Events -> 0..MaxTasks] /\ locks \subseteq Events
    /\ pc \in [Workers -> {"idle", "read", "start", "items", "spine", "emit", "enroll", "mark", "fail", "end"}]
    /\ my \in [Workers -> [e : Events \cup {None}, m : Msgs \cup {None}, todo : SUBSET Msgs,
                           tries : 0..MaxAttempts, bad : BOOLEAN]]
    /\ logged \subseteq Msgs /\ spine \subseteq Msgs /\ emitted \subseteq Msgs
    /\ consent \subseteq Msgs /\ swallowed \subseteq Msgs
    /\ enrolled \in [Msgs -> 0..2]
    /\ faults \in 0..MaxFaults /\ scene \in Scenes

\* However a message is batched, delivered again, swept, retried or worked on
\* by two workers at once, the workflows are given it at most once.
HandledOnce == \A m \in Msgs : enrolled[m] <= 1

\* An event marked processed has left nothing out: its messages are stored and
\* in the inbox, STOP was honoured, and the workflows were given them or are
\* about to be; only a projection or enrolment that raised may be missing and,
\* for Instagram, the enrolment after a crash or an error (see README).
Handing(m) == \E w \in Workers : my[w].m = m /\ pc[w] \in {"emit", "enroll"}
Interrupted == Instagram /\ scene.faults \cap {"crash", "error"} # {}
ProcessedIsHandled ==
    \A e \in Events : Processed(e) => \A m \in Carries[e] :
        /\ m \in logged /\ (WhatsApp => m \in consent)
        /\ m \in spine \/ m \in swallowed
        /\ enrolled[m] = 1 \/ m \in swallowed \/ Handing(m) \/ Interrupted

\* What record_inbound_instagram_message promises: the same behaviour on both
\* channels, so no message's enrolment is lost by a crash or an error.
ReplyHandled ==
    \A e \in Events : Processed(e) => \A m \in Carries[e] : enrolled[m] = 1 \/ m \in swallowed \/ Handing(m)

\* An event stored and acknowledged is processed in the end, or has failed so
\* often that it is left to a person; it waits only while its channel is off.
EventsSettle == \A e \in Events : Stored(e) ~> Processed(e) \/ event[e].tries >= MaxAttempts \/ ~on
=============================================================================
