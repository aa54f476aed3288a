# Akilent: specifications of its core protocols

Akilent (`src/`) is a Django and Celery application for small businesses: an inbox
for WhatsApp and Instagram, workflows that talk to customers, campaigns by WhatsApp and
email, sends that are scheduled, publishing to Facebook and Instagram, and the billing of all that. Its state is in PostgreSQL; its actors are web requests,
webhook handlers, Celery workers and beat tasks, which meet on rows of the
database and nowhere else. What goes wrong in such a system goes wrong between two
transactions: a row read before it was locked, a crash after the provider was
called, a message delivered twice, a retry of what was done already. Those are
the behaviours specified here.

Run a check with `tlc -config claim_one_run.cfg MCReplyClaim.tla` (the run names are
the names of the .cfg files), a proof with `tlapm ReplyClaimProofs.tla`, and likewise of
`WorkflowProofs`, `PublishProofs`, `OutboundSendProofs`, `InboundProofs`, `PaymentProofs`, `CampaignProofs` and
`ScheduledJobProofs`.

## 1. The system

| Component | State it keeps | Operations | What would make it wrong |
|---|---|---|---|
| **Reply claim** `automation/interaction.py` | `WorkflowInteraction` (open, answered, expired, cancelled), `InteractionAnswer`, the waiting `WorkflowRun` | `claim_reply`, its continuation `_advance_after_commit`, `cancel_open_interactions_for_run` | one message moves two runs, a question is left twice, an answer is recorded and nothing moves |
| **Workflow engine** `automation/workflow_engine.py` | `WorkflowRun` (status, step, next_due_at), `WorkflowStepRun`, outbound rows | `advance_run`, `run_due`, `enroll`, `resume_on_reply`, cancel (`api/workflow_views.py`), failed sends (`automation/integrations/`) | a message sent twice, a run stranded, a run that lives on after its end |
| **Publishing** `publishing/services.py`, `tasks.py`, `views.py`, `composer.py` | `ContentPost`, `ContentPostVariant` (status, claim fields, schedule) | dispatch, claim, Graph API call, outcome, retries, container polling, recovery, reconciliation, compose, cancel, reopen, reschedule | a post published twice, a published channel open to publishing, a channel stuck |
| **Outbound WhatsApp** `whatsapp/tasks.py`, `whatsapp/campaigns.py`, `billing/metering.py` | `OutboundMessage`, `MessageLog`, a claim in the cache, `UsageReservation` and `UsageCounter`, `WhatsAppCampaign` and its recipients | `drain_outbound_queue`, `reserve`, `commit`, `release`, start, chunk, pause, resume, withdraw, sweep, delivery reports | a message sent twice, a sent message not paid for, a limit passed, a campaign that never ends, a withdrawn message sent |
| **Inbound webhooks** `whatsapp/`, `instagram/`, `core/webhook_replay.py`, `conversations/services.py` | `WebhookEventLog` of each channel, a lock in the cache, message logs, inbox messages, events | receive, hold, release, process, fail, sweep, project | a message lost or handed to the workflows twice, an event never processed |
| **Paying for a period** `billing/payments.py`, `renewals.py`, `credit.py`, `providers/` | `BillingPayment`, `CreditTransaction`, `Subscription`, `ProcessedWebhookEvent` | renewal run, checkout, return, webhook, `abandon_stale` | a card charged twice, credit lost or used twice, money taken and no period granted |
| **Email campaigns** `email/tasks.py`, `email/models.py` | `BulkEmailCampaign`, `BulkEmailRecipient`, `EmailMessage`, `UsageReservation`, a counter of failed tries in the cache | `dispatch_campaign`, `send_bulk_recipient_email`, `retry_held_email_recipients`, completion | a recipient mailed twice, counters or units that say otherwise, a campaign that stays SENDING, a held recipient forgotten |
| **Scheduled sends** `scheduler/drainer.py`, `models.py`, `api.py`, `tasks.py` | `ScheduledJob` (status, attempts, series), the campaign made for it | claim under SKIP LOCKED, fire outside the lock, recover, hold, arm the next occurrence, cancel, reschedule, reconcile | an occurrence sent twice or lost, a series cut short, a job that never ends |
| Instagram outbox, tokens, moderation | outbox rows, tokens | outbox drain, direct sends | the same as for WhatsApp |
| Conversations `conversations/` | `Conversation`, follow-ups, routing | routing, assignment, follow-ups | sequential rules |
| AI `ai/` | proposals and autopilot decisions | propose, approve, send | a stale proposal sent |
| Contacts `contacts/` | contacts, consents | merge, erasure | a row written to a contact merged away |
| HubSpot `hubspot/` | links and sync jobs | enqueue, push, pull | updates lost or echoed |
| Core, events, commerce, CRM, chatbot, insights, accounts, API | settings, event rows, reports | synchronous rules and plumbing | sequential logic, left to the unit tests |

How they interact: a webhook's view stores the event and enqueues its task; the task
projects each message to the inbox, records the event `conversation.message_received`
and gives the message to the workflows once. `resume_on_reply` calls `claim_reply` when the
conversation has open interactions (`conversations/services.py:442-494`). A claim commits the
answer with the run's next step and then advances the run. `advance_run` executes
steps, some of which queue outbound rows, call Meta or publish a post. The drain
reserves a unit of the plan for each row and calls Meta; a delivery report that says
failed comes back as a webhook and fails the run. Billing decides which limits there
are. The scheduler's drain creates emails and dispatches campaigns when their time has come;
email campaigns reserve units of the plan as the WhatsApp drain does. Beat runs `run_due_workflows`, the drain, the sweeps, the renewals and the publishing
tasks (`automator/settings.py:717-914`). Locks are row locks (`SELECT ... FOR UPDATE`) or keys in
the cache that expire; provider calls are meant to happen outside row locks.

What is hard in it: two actors on one row, at every point between a read and the
write that depends on it; callers in autocommit mixed with callers in a
transaction; crashes between a provider call and its record; deliveries and Celery
tasks that come twice, late, or never; leases compared with clocks; lock orders;
what a provider did when it did not answer.

## 2. The modules

| Module | Models | State | Granularity |
|---|---|---|---|
| `ReplyClaim` | reply claim and what it needs of the engine | `run`, `inter`, `answers` are the committed rows; `convLock`, `intLock`, `runLock` the row locks; `mem` what a transaction has written so far; `outcome` what `claim_reply` returned | one action per lock taken (claim steps 1 to 3, 4, and 5 with 6), per loop iteration of `advance_run`, per read or write of the API's cancel |
| `QuestionLife` | what a customer may rely on: a question is asked once, then one thing happens to it, and a message answers one question | `state`, `by` per question | the abstract specification `ReplyClaim` implements (`KeepsPromise`) |
| `WorkflowEngine` | `advance_run` and all its callers for one run and every kind of step | `run` committed, `my` each worker's copy, `new` what its transaction has not committed, `done`, `sent` the step records and outbound rows | one action per save of `advance_run`; a crash may fall between any two |
| `VariantPublish` | one channel of a post from the composer to the provider | `row` (the variant, with the status of its post), `draft` an open transaction's version, `pc` and `my` per worker, the Celery `queue`, `boxes` Instagram's containers, `live` what followers see | one action per transaction or provider call |
| `OutboundSend` | the outbound queue, its meter, the campaign that fills it, Meta's reports | `row`, `log`, `known` the message rows; `claims` the keys in the cache; `hold`, `used` the meter; `pc`, `my` per drain; `camp`, `rec`, `tasks`, `sender`, `seen` the campaign; `accepted` how often Meta took each message | one action per save or call of the drain, per transaction of the campaign |
| `InboundPipeline` | a webhook from the view that stores it to the effects of its messages, on both channels | `event` the logs; `arriving`, `releasing` what a view or a replay has decided and not yet done; `tasks`, `locks`; `pc`, `my` per worker; `logged`, `spine`, `emitted`, `enrolled`, `consent` the effects | WhatsApp: one action per message, its transaction; Instagram: one per save |
| `PeriodPayment` | paying for a period of a plan | `db` the payments, the credit, what each payment holds and granted, the subscription; `at`, `my` per run, tab, return, webhook and sweep, with the copy of the row it works on; `page`, `money`, `events` the provider's side; `charges` calls to a saved method | one action per transaction or provider call |
| `EmailCampaign` | a bulk campaign of emails from its dispatch to its completion | `camp`, `counts` the campaign; `rec` the recipients, each with the message it points to; `msg` the messages; `hold`, `limit` the plan; `dtasks`, `stasks` the Celery queues; `dpc`, `dmy` per dispatcher; `todo`, `smy` what a send task has still to do | one action per save, query or call: nothing here is in a transaction |
| `ScheduledJob` | a scheduled email or campaign, once or as a series, from its creation to its end | `row` the job, with its times relative to now; `camp` the campaign; `dpc`, `dmy` per drain, with its copy of the row; `user` a request that has looked at the job; `fired` how often each occurrence went out | one action per save or call of the drain, one for the claim's transaction |
| `MC...` | the instances for TLC | | |
| `ReplyClaimProofs`, `WorkflowProofs`, `PublishProofs`, `OutboundSendProofs`, `InboundProofs`, `PaymentProofs`, `CampaignProofs`, `ScheduledJobProofs` | theorems of `ReplyClaim`, `WorkflowEngine`, `VariantPublish`, `OutboundSend`, `InboundPipeline`, `PeriodPayment`, `EmailCampaign` and `ScheduledJob` | | |

A few operators are used by no action (`AlwaysRoom`, `LeastAsked`, `EveryTime`, ...). Each
is what a plausible bug would make of a definition next to it: with it in the place
of that definition, the runs find a property violated.

### How actions correspond to code

`ReplyClaim`. `ClaimStart`, `ClaimConversation`, `ClaimInteractions`, and then
`ClaimStale`, `ClaimDuplicate` or `ClaimCommit`, are the numbered steps of `claim_reply`
(interaction.py:54-198): the locks are taken in that order, and the run is looked at
only in step 4. `AnswerEffects` is `_commit_claim` or `_commit_ask_question_answer`.
`AdvanceAfterCommit` locks the run again before `advance_run`, unless the caller
already has a transaction (`OuterTx`), when `ClaimCommit` keeps all its locks and goes
on. `Step...` are the iterations of `advance_run` on a question. `SweepStart` and
`SweepLock` are the selection and the locked re-check of `run_due`; `CancelRead` and
`CancelWrite` the API's cancel, which reads the run before it locks anything;
`SendFailed` the webhook for a message that Instagram refused. `Deadlocked` finds a
cycle of processes waiting for each other's row locks; `DeadlockVictim` rolls one back.

`WorkflowEngine`. A step is "wait", "wait_reply", "send" (all that writes rows) or
"direct" (Instagram buttons, which call Meta inside the transaction). `Enter` copies the
row; `ParkOnWait`, `LeaveWait`, `Skip`, `Execute`, `Record`, `Move`, `RetryLater`, `Fail`, `SendDirect`,
`ReturnParked`, `Complete` and `HitLimit` are the saves of the loop. In a transaction
(`tx`) they are seen by nobody until `Leave`; in autocommit each is committed. `Save` writes
the fields its `update_fields` names and no others, so stale copies overwrite what
the code lets them overwrite.

`VariantPublish`. `TakeVariant` and `TakePost` are the Celery tasks up to the claim, `Claim`
the transaction that commits PUBLISHING with a token, `Call` the Graph API, `ReadBack`
the unlocked `refresh_from_db`, `WriteBack` the save from what was read, `RefreshParent` the
parent. `Look` and then `Cancel`, `Reopen` or `RetryPost...` are pages that check a status before
their transaction. `PollStart` to `BoxFail` are the container poller, with its own
claim in the variant's options. The other actions are beat tasks, operators and the
outside world. `Raise` is an exception that is not the provider's, with the
handlers of both tasks.

`OutboundSend`. `Claim` is the candidate query with `_claim_for_send`, which adds a key to the
cache and looks at the row again. A drain then goes through `ReserveUnit` or `Unmetered`,
`Start` (the row is SENDING), `Call`, and after it `Commit`, `LogSent` and `RowSent`, or `Fail`,
`Release`, `Uncount` and `Notify`, or `Doubt`, which is `_unconfirmed`. `Refuse`, `NoProvider`,
`Hold` and `Brake` with `PutOff` end it earlier. `Leave` is the `finally` that deletes the claim.
`Raise` is a database error between Meta's answer and its record, which the drain's
handler takes for a failed send. `RecoverSending`, `CommitStale`, `Expire` and `CancelStaleHold` are what
time does to rows, reservations and claims. Of the campaign, `StartCampaign` is
`start_campaign` by a user or by `dispatch_due_campaigns`; `TakeTask`, `ProcessChunk`,
`ChunkFails` and `CampaignFailed` are `send_campaign`; `Sweep` is
`sweep_stuck_whatsapp_campaigns`. `WithdrawRead` and `WithdrawWrite` are `_withdraw`, which reads the
waiting messages and updates them by a second query. `ReportFound` and `ReportDropped` are
Meta's reports, found by the `message_id` that `LogSent` saves, or not.

`InboundPipeline`. `ReceiveRead` and `Receive` are the view: it decides whether to hold the event
and then stores it. `Release` and `ReleaseEnqueue` are `replay_held_webhooks`; `Sweep` is
`sweep_stuck_webhooks`. `Take`, `Read`, `Mark`, `Fail` and `End` are the tasks of both channels; `Start` is
Instagram's `mark_processing`. `Item` is WhatsApp's transaction per message, with the
projection (`Project`), whose exceptions are swallowed; `BadItem` an item that raises.
`Store`, `ToSpine`, `Emit` and `Enroll` are the same on Instagram, where each commits.

`PeriodPayment`. An operator from `db` to `db` (`Applied`, `Restored`, `Succeeded`, `Failed`,
`Recorded`, `Abandoned`, `MarkedUnresolved`) is one transaction of `credit.py` or `payments.py`;
actions compose them. `StartRenewal` is `renew` up to the commit of its subscription lock;
`Create`, `ApplyCredit`, `SaveCredit`, `SettleByCredit` and `GrantByCredit` are `_create_payment`, each
write a step, since no transaction is around them; `ClaimForCharge`, `Charge`, `ChargeAnswered` and
`NoMethod` charge the saved method. `StartCheckout`, `AbandonOpen` and `OpenPage` are a checkout;
`CustomerReturns` to `RecordReturn` the return; `Webhook`, `HookReads` and `HookCaptures` the provider's
webhooks; `SweepReads` to `GiveUp` one payment of `abandon_stale`.

`EmailCampaign`. `Dispatch` to `Complete` are `dispatch_campaign`: it reads the campaign, marks it SENDING
from that copy (`Begin`), takes a chunk of PENDING recipients, fails the suppressed ones (`Refuse`),
reserves a unit for each of the others, holds those without one, and makes messages (`Create`), points the
recipients to them (`Link`) and enqueues their sends (`Enqueue`), each a query of its own.
`RetryHeld` is the beat task for held recipients, which goes through the same steps from `Reserve`
and then may reopen the campaign (`Reopen`). A send task carries the list of steps it has left
(`todo`): `Gate` looks at the channel, the suppression list and the breaker and decides which they are,
`Send` is the provider's call, and `MarkSent`, `MarkFailed`, `CountTry`, `Commit`, `Release`, `CountSent`,
`CountLost`, `Check`, `MarkCompleted` and `Retry` are the saves. `StepFails` is an exception in one of the steps
after the provider's answer, which `_after_send` isolates from the others.

`ScheduledJob`. `Drain` and `Recover` are `_recover_stale`, `Claim` is `_claim_due`, and from `Fire` on it is
`_fire_one`: `FireLate` and `Hold` its guards, `Make` and `Save` a message (or the fresh campaign of a series), `Look`, `Queue` and
`Dispatch` a campaign that was made when it was scheduled, `MarkSent` and `Arm` the end. An operator from a
row and a copy to a row (`Sent`, `Failed`, `Armed`, `Recovered`) is one save with its `update_fields`:
it takes what it computes from the copy and leaves the other fields as they are.
`SaveFails` is a database error, which inside the `try` of `_fire_one` counts as a failed fire.
`Ask` with `CancelJob`, `CancelCampaign` or `Reschedule` is a user's request between its check and its saves;
`Reconcile` and `Orphan` are `prune_scheduled_jobs`. In `EmailCampaign`, `FiredAgain` and `CancelLate` are what
this module does to a campaign.

### Abstractions

- Time is relative. A due time is none, later or now; the age of an attempt is fresh,
  past the 30 minute lease, or past 6 hours. `Tick` moves them at any moment. In
  `VariantPublish`, `Prompt` says that a worker is done with a provider before its lease
  ends, that an operator acts only when no call is in flight, and that a poll is over
  before its container is replaced: the code's timeouts are chosen for that. The
  disagreements in section 6 say which claims fail without it.
- Messages are what they match: a token, the options their text names, whether they
  are a valid answer. A token is sent only once its question exists.
- `ReplyClaim` has only question steps; what other steps do is `WorkflowEngine`.
  `WorkflowEngine` treats an answer to buttons as one action, since `ReplyClaim` has it.
- A post has one channel, so the parent's status is a field of the row.
- The foreign key of a new interaction locks the conversation (KEY SHARE) until the
  transaction ends: in PostgreSQL it conflicts with `FOR UPDATE`, so it is modelled.
- `Compose` and `save_post` are one transaction. Content, media, captions and options
  are left out.
- The re-entry of `_run_ask_question` with its interaction still open is not reachable
  through its callers and is left out.
- The projection of an inbound message gets or creates it by the provider's id, so a
  duplicate normally stops before `claim_reply` (`HandledOnce` of `InboundPipeline`); the
  model of `claim_reply` lets it through, because it guarantees it on its own.
- `OutboundSend`: a drain is done with a message before its claim expires after ten
  minutes, and before its SENDING row counts as stale (`Unworked`); requests to Meta
  time out in seconds. One worker runs `send_campaign` at a time; chunks still overlap with
  everything else, and tasks are delivered again. `RecoverSending` does in one step what the
  code does in two saves. Numbers, templates, pacing and media are left out.
- `InboundPipeline`: a WhatsApp message is one step because its transaction inserts the
  log first, where a second worker waits for the first. Bodies that are equal are dropped by a
  fingerprint when they arrive, so an event is received once; the same message may
  come in two events. The channel's switch is read fresh.
- `PeriodPayment`: one account, plan and period boundary; credit is one sum, so grants,
  their expiry and revocation are left out, as are refunds, proration, free plans, manual
  bank transfers, plan changes and mismatched amounts. Whether the subscription ends at
  the period's end is fixed at the start. `create_payment`'s check and insert are one step, and so
  are `clear_charge_started` with the `record_result` after it. A page is refused once at
  most. The timing assumed is `Untouched` with `RunDue` in `ADayPasses`: a visit or a run takes
  less than a day, and a run comes within a day of a period's end, as it is hourly.
- `EmailCampaign`: the day's and the month's limit are one. `Create`, `Link` and the
  increments of counters are one statement each in the code, too; `Refuse` and `CountLost` put two
  into one step. One beat task for held recipients runs at a time (it comes every 15 minutes), and
  the counter of failed tries does not expire (it lives a day). Rendering, tracking, test mode and
  emails without a campaign are left out.
- `ScheduledJob`: one job, and one user request at a time. `fire_at` is later, due, or
  past its grace of six hours; ten minutes (`TenMinutes`) pass over a claimed job only if its drain
  is gone, or slow in a scene that has "slow". The rule of a series always has a next occurrence, up to
  `max_occurrences`. MAX_ATTEMPTS is 2 for 5. That the campaign ends once dispatched is
  assumed here (`CampaignDone`) and is what `EmailCampaign` is about.
- `Scenes` (and `Modes`) say what may happen in a behaviour: a variable that never changes
  holds the scene, so that one run checks several environments.

## 3. Runs

| Run | Asks | Bounds | States |
|---|---|---|---|
| `claim_one_run` | one run through `send_buttons` and `ask_question`: refinement of `QuestionLife`, liveness | a tap and a wrong answer, each delivered twice, 1 attempt, 2 workers, 1 crash | 44 255 |
| `claim_outer` | two runs wait on one conversation, and a typed text matches both; the WhatsApp caller's transaction; a question asked again after a wrong answer; timeouts that lead back; the step limit | 2 runs, 2 messages, each delivered twice, 2 attempts, 2 steps per call, 2 workers | 2 440 631 |
| `engine` | `advance_run` from callers that hold the row, and from callers in autocommit; all step kinds, unreadable settings, the step limit, liveness | 5 steps with a loop through a wait, 2 or 6 steps per call, 2 workers, 1 crash | 46 007 |
| `publish_all` | every request of users and operators against two workers; a workflow that publishes inside its transaction; a video | 1 crash or lost task, 1 retry, 2 containers, 1 queued task of each kind | 2 612 255 |
| `publish_live` | liveness, photo and video | 1 worker, 1 crash, lost task or database error | 78 461 |
| `outbound` | the queue, the meter, the campaign and reports, safety and liveness | 2 messages, 2 drains, 1 unit for both, 2 attempts, chunks of 1, 2 tasks, 1 fault | 548 008 |
| `inbound` | both channels, safety and liveness | 2 events that share a message, 2 workers, 2 attempts, 1 fault | 306 776 |
| `billing` | renewals, checkouts, webhooks, sweep, safety and liveness | 2 runs or 2 tabs or one of each, price 2, credit 0 to 2, 1 fault | 64 923 |
| `email` | dispatches, sends and held recipients against refusals, crashes, database errors, the breaker, an unsubscribe, the switch and late cancels, safety and liveness | 2 recipients, 2 dispatchers, 2 senders, 2 tries, 2 messages per recipient, 2 faults | 196 579 |
| `scheduler` | overlapping drains of an email or a campaign, once or twice, with crashes, errors, refusals, a slow or late drain, the switch and users, safety and liveness | 2 drains, 2 attempts, a series of 2, 3 faults (2 for a series) | 230 158 |
| `billing_overlap`, `email_last_retry` | refute a comment of the code (section 6) | | |

The scenes of the passing runs from `publish_all` on are in their MC modules, each with what it is for.

Are the bounds enough? Every hazard here is between two actors and one fault, so
two workers interleave all of them; `claim_one_run` also has a sweeper, a cancel and a
failed send, which need no worker of their own to start, and `scheduler` has a user besides its
two drains. Two deliveries of a
message race with each other; a second message tests the recheck of the key; a
second run tests the choice among interactions. One crash falls between any two
steps of any transaction. Three containers would add nothing to two: a poll
remembers one, the row another. One queued task per kind is the interesting case,
since a second of the same kind is skipped for the same reason as the first.
`live`, `sent`, `accepted` and `enrolled` count up to 2, as the properties ask only whether
there are two. In `outbound` two messages compete for one unit, so that one is held, a
release makes room again, and a campaign needs two chunks. Two attempts are the last
one and one before it. In `inbound` the message of the second event is also in the
first, so it may be inserted by two workers at once. In `billing` credit of 1 covers half the
price, and credit of 2 all of it. In `email` two recipients are the last one and one before it, in one
chunk or in two; a second message of a recipient would be the second mail. In `scheduler` a series
of two has a first occurrence, where `occurrence_count` is 0, and a last one; a third fault lets an error
come on the attempt after a crash and a hold.

CHECK_DEADLOCK is off everywhere: messages, steps and requests are bounded, so a
run really ends. That no one waits on another for ever is said by the liveness
properties instead, and by `DeadlockVictim`, without which `ReplyClaim` would stop.

In these instances a message always reaches its run's own conversation, so the result
`wrong_conversation` of `Miss`, which changes no row, is in the model and in no run.

### Properties

Safety of questions: `OneExitPerQuestion`, `OneRunPerMessage`, `AnswersMatchExits`,
`WaitingIsAnswerable`, `EndedStaysEnded`, `KeepsPromise` (refinement). Of the
engine: `QueuedOnce`, `NeverStranded`, `NothingAfterTheEnd`. Of
publishing: `PublishedOnce`, `ParentAgrees`. Of the
outbound queue: `AcceptedOnce`, `AcceptedIsCounted`, `Counted`. Of the inbound pipeline:
`HandledOnce`, `ProcessedIsHandled`. Of billing: `OncePerPayment`, `CreditKept`. Of email campaigns: `SentOnce`,
`BooksAgree`. Of scheduled jobs: `FiredOnce`, `SeriesWhole`. Each module has
one type invariant, `TypeOK`. A property that excepts something (`Locked`, `Protected`, `Interrupted`, `torn`)
does so because the code breaks it there; section 6 says how.

The modules also have definitions that no run checks: what a comment of the code says and TLC
refutes (section 6).

### Liveness and fairness

`MovesOn` of `ReplyClaim` (a claimed run goes on, and a due wait ends), `MovesOn` of `WorkflowEngine` (a due run is served,
and an active one parks or ends), `Settles` (no channel stays in an attempt, and a due one goes out),
`NothingStays` (of messages in SENDING, and of campaigns), `EventsSettle`, `MoneyGranted`, `NothingHangs` (of periods
to be paid, and of open payments), `CampaignEnds`, `HeldGoesOut` and `JobEnds` are checked under fairness that PostgreSQL and beat provide:

- a worker that waits for a row lock gets it in its turn (a lock queue), hence strong
  fairness of a worker's own steps; in `VariantPublish` weak fairness is enough;
- the broker delivers its tasks to some worker again and again: strong fairness of taking
  a task;
- beat runs `run_due_workflows` every minute and the publishing tasks between
  every 30 seconds and every two hours (`automator/settings.py:717-914`): the sweeper and recovery actions are fair;
- beat runs the drain of scheduled jobs every minute and the task for held recipients every
  15 minutes, whatever else the workers do: strong fairness of `Drain` and `RetryHeld`;
- whoever switched Email off switches it on again, and the plan has room again on the next day
  (`SwitchOn`, `MoreRoom`); a job is not passed over by its drains for ever;
- a queue passes no task over for ever, although there are always others: strong fairness
  of `Take` for each event in `InboundPipeline`;
- the hourly sweep of payments looks at every one that is open, although others come
  and go: strong fairness of `SweepReads`; a day passes whoever visits: of `ADayPasses`;
- a provider decides a pending payment and delivers its webhooks in the end
  (`ProviderDecides`, `Webhook` in `PeriodPayment`);
- time passes: weak fairness of `Tick`, `Age`, `Expire` and `CampTick`.

Users, messages, faults and Instagram are never fair: a video may never finish, a
customer may never return, an operator may leave a channel off. `OpenSettles`, a part of `NothingHangs`, speaks of a
customer who stops coming back, since each visit to PayPal's return starts the charge again.

## 4. Proofs

Of the reply claim, `ReplyClaimProofs` proves, for any number of processes, runs, conversations, messages and steps and for every workflow graph:

- `TypeCorrect`: `Spec => []TypeOK`;
- `ExitOnce`: `Spec => []OneExitPerQuestion`, whatever workers, duplicates, crashes,
  timeouts and cancels do;
- `MessageOnce`: `Spec => []OneRunPerMessage`, although a message is delivered again and
  several workers process it at once;
- `EndIsFinal`: `Spec => EndedStaysEnded`, an action property;
- `Answerable`: `Spec => []WaitingIsAnswerable`;
- `AnswersAgree`: `Spec => []AnswersMatchExits`;
- `PromiseKept`: `Spec => KeepsPromise`, the refinement of `QuestionLife`.

`OneExitPerQuestion` is not inductive. The invariant is `Inv == TypeOK /\ JobOK /\ RowsOK`:

- `RowOK(row)`: a row has left each question at most once, each question it has left is
  among its recorded steps, and the one it waits on has been recorded and not left.
  The last two make the first inductive: a question is left only by a run that waits
  on it, and a question already recorded is skipped and never asked again.
- `RowsOK` says so of the committed rows and also of the row that a process holds in its
  open transaction, which it will commit.
- `JobOK`: a process at a point of its program has the message, run and step that the code
  below works on.

`MessageOnce` and `EndIsFinal` follow from `HInv`, which adds to `Inv` what the
row locks protect:

- `KeyHeld(p)`: from the second look at the message key (step 1) a claim holds the
  conversation the message came in, and no answer has its key. Without the lock, two
  deliveries could both pass the look.
- `TxHeld(p)`: the same of an answer written in a transaction that is still open (the
  WhatsApp caller), which writes one answer only, and the transitions of its row are all
  recorded by committed answers or that one.
- `RunHeld(p)`: a process inside `advance_run` holds the run, and the committed run has not
  ended. Every writer that ends a run needs that lock, so an end is never overwritten.
- `OneAnswer` and `Recorded`: a message has one answer row, and each transition by a message
  is backed by the row of that message for that question. Two transitions by one message
  are then one.

`StepKeepsHInv` says what a step of one process must respect (`OthersKept`, `AnswersKept`,
`RowsKept`) for the facts about the other processes to stay true; each action is then
looked at for its own process only. `HInv` was model-checked on the instances of
`claim_one_run` and `claim_outer` before it was proved.

`Answerable` and `AnswersAgree` need one more invariant on top of `HInv`,
`QInv`, because an advance writes in a transaction that nobody sees before it commits:

- `QuestionOK(r)`: a question the run has asked and not left is the one it waits on, unless the
  run has ended; and the one it waits on has been asked and is open. A run that leaves, times
  out or ends closes its own questions only, so no clean-up closes the question of a waiting run.
- `TxOK(p)`: compared with the committed row, an open transaction has either left no question
  (`NotMoved`) or left the one question the run waits on, because of the answer it holds or of
  the deadline (`MovedBy`); its uncommitted writes are to the run's own interactions and never change
  when one was asked or how many wrong answers it has had.
- `AnswerOK(a)`: an answer was to a question that had been asked, and moved the run or was counted as
  wrong.

`RunSame` is what a step must leave alone in a run somebody else holds; it lets an orphan clean-up
change the status of an interaction under an advance, as `claim_reply` does.

`PromiseKept` maps every step to the promise: a claim that commits on its own
and a transaction that ends a run after leaving its question are `Settle`; one that asks is `Put`, or
`Then` when it has left the question before in the same transaction; a cancel, a failed send or the end of
a run drop the one question it waits on; all others change nothing the customer sees. That a message
answers one question only is `KeyHeld` and `TxHeld` again, through `Recorded`: a message
whose key is free has moved no run (`NothingBy`).

Assumed of the constants is what `ReplyClaim` states (`GraphAssumption`,
`MessageAssumption`, `BoundAssumption`): the graph's links lead to steps or to the end, messages
have a conversation, and sentinels are not data. TLC evaluates them in every run.

Each proof has a lemma per building block (`FinishOK`, `BeginOK`, `CommitOK`, `IterateOK`,
`AnswerEffectsOK`) and one per group of actions; `NextPreservesInv`, `NextKeepsHInv` and
`NextKeepsQInv` put them together, one invariant on top of the other.

Of the workflow engine, `WorkflowProofs` proves, for every workflow graph and any number of processes
and crashes:

- `TypeCorrect`: `Spec => []TypeOK`;
- `QueuedAtMostOnce`: `Spec => []QueuedOnce`, a step queues its message once;
- `EndIsTheEnd`: `Spec => NothingAfterTheEnd`, an action property;
- `NotStranded`: `Spec /\ [][\A p \in Procs : ~HitLimit(p)]_vars => []NeverStranded`. The
  hypothesis is that no call of `advance_run` uses up its steps: that return does strand an active
  run (section 6), so the theorem is not true without it.

The invariant is `IInv == TypeOK /\ PlaceOK /\ (Overtaken \/ OnceInv) /\ HeldInv`:

- `PlaceAt` ties the row lock to the open transaction and says what a process has in hand at each point.
- `OnceInv`: one process at a time is in the loop (`Alone`); while one without a transaction is, nobody else can
  take the run up (`Quiet`); a message that is queued has its `WorkflowStepRun`, or its process is about to write it, or
  that process died and the run is one nobody takes up again (`Settled`: this is where a crash between the two
  saves goes); a transaction queues what was not queued before (`Batched`).
- `HeldInv`: where every caller holds the row, only its holder is in the loop, and the row it holds has not ended.

`NotStranded` needs only `Dated`, that a live committed row has a due time, on top of it: what the loop takes
from its copy is not committed before it has parked or ended the run.

Of publishing, `PublishProofs` proves, for any workers, containers, tasks waiting, `max_retries` and faults:

- `TypeCorrect`: `Spec => []TypeOK`;
- `LiveOnce`: `Spec => [](Covered => PublishedOnce)`, a text or a photo goes live at most once;
- `AtRestAgrees`: `Spec => [](scene.prompt => ParentAgrees)`, a post at rest says what its channel does.

For the first, `NoVideo` and `NoRetry` say what the scene leaves out: no poller at work, and without the
retry button no task of its kind. `Once` says of the row as the worker at it sees it (`Now`: the committed one, or the version
of a workflow's open transaction): an attempt whose token is in the row has it PUBLISHING, in flight and fresh (`Owner`), so neither
the beat tasks nor another claim touch it; a worker in the call, or about to save, has its token there, or the row is
RECONCILING (`Caller`), and there is one such worker (`Alone`); before the call
nothing is live (`Before`); what is live is published, in doubt, or still in flight (`InDoubt`), with a worker that knows that it may be
(`Result`); a user who goes to schedule the post again has read a channel that is not at it (`Schedules`).
The token is what keeps a worker that was taken for dead from saving over a later attempt,
and `_claim_blocked` what keeps a second one from starting. The conditions of `Covered` are those without which the code
publishes twice (section 6), but for videos. Of these TLC shows it with two workers and two containers; a poll of an
earlier container may fail the channel (`OldPollDropped`), so nothing is claimed of more.

For the parent, `Tidy` says that the row is PUBLISHING just while its worker is at the attempt (`Claimant`, `Publisher`),
and that where post and channel differ somebody is on the way to `refresh_parent_post` (`Pending`).
It needs attempts that end before their lease, since `reconcile_stale_publishing_variants` refreshes no post, and covers videos
too. Both invariants were model-checked first; `PublishAssumption` is all that is assumed of the constants.

Of the outbound queue, `OutboundSendProofs` proves, for any number of messages and drains, any limit,
number of attempts, chunk size and faults, and every scene:

- `TypeCorrect`: `Spec => []TypeOK`;
- `AcceptOnce`: `Spec => []AcceptedOnce`, Meta takes a metered message at most once, whatever overlaps,
  crashes, times out or is withdrawn;
- `AcceptCounted`: `Spec => []AcceptedIsCounted`, its unit of the plan is never given back;
- `CounterExact`: `Spec => []Counted`, the period's counter stays within the limit and is the number of units in
  use and of those being given back; only a crash between the two saves of a release leaves it higher.

`AcceptedOnce` and `AcceptedIsCounted` are not inductive. The invariant is
`Inv == TypeOK /\ ClaimsOK /\ RowsOK /\ (Protected => UnitsOK /\ TakenOK)`:

- `ClaimsOK`: a drain at work has the claim of its message, and no other drain has that message.
  The claim is a key in the cache, so this is where the assumption about its expiry
  (`Unworked`) is used.
- `RowsOK`: what is claimed, reported or sent has a row in the queue, and a drain that has not started to
  send finds the row not SENDING.
- `UnitsOK`: a drain on its way to Meta holds an open reservation; from `Start` to the commit the row is
  SENDING and not stale, so that `RecoverSending` and the candidates' query pass it over; after the
  commit the unit is committed. `ReserveUnit` of a later drain finds it so and goes to `Doubt`.
- `TakenOK`: a message Meta took is either committed, so that `Doubt` is all that can happen to it,
  or its unit is still reserved, its row is SENDING, and only a drain that is about to commit it
  or to declare it in doubt is at work on it.

`Protected` says that the message is metered and the database does not fail at the commit of
the unit itself; in both other cases the code sends twice (section 6). The proof splits
by variable: `ClaimsKept`, `RowsKept`, `UnitsKept` and `TakenKept` say what a step must leave alone for
each part, a frame lemma each (`RowsFrame`, `UnitsFrame`, `TakenFrame`) covers the many actions that do, and
what remains is looked at action by action (`CallShape`, `TickShape`, `FailShape`, `ChunkShape` say
what the four that touch most can do). `Inv` was model-checked on the instance of `outbound` first.
For the counter, `CountInv == IsFiniteSet(Owed) /\ Counted` is inductive on top of `Inv`: a reservation adds one to
the open units and to the counter, both within the limit it checked; a release moves a unit from `Open` to `Owed`; `Uncount`
takes it off the counter and off `Owed`; a crash in between takes it off `Owed` alone. That `Owed` is finite is part of the invariant
because the set of drains need not be. `OutboundAssumption` is all that is assumed of the constants.

Of the inbound pipeline, `InboundProofs` proves, for any events, messages, batches, workers, scenes and
number of faults:

- `TypeCorrect`: `Spec => []TypeOK`;
- `GivenOnce`: `Spec => []HandledOnce`, no message is given to the workflows twice, although its event may be
  received, released, swept and processed any number of times, by workers whose lock has expired.

What keeps it is the row of the event `conversation.message_received`, which is unique per message: the
worker that creates it is the only one that goes on to the workflows. So the invariant adds to
`TypeOK` and `Busy` (a worker at work has an event, and in the projection a message) three facts:
`Untold`, a message without its row was given to nobody; `Entered`, a worker about to enroll has made the row
and nobody gave the message before; `Alone`, no two workers are about to enroll the same message.
The lock of the event is not needed: `HandledOnce` would hold without it. `InboundAssumption` is all
that is assumed.

- `ProcessedHandled`: `Spec => []ProcessedIsHandled`, a processed event has left nothing out.

Its invariant, `HInv`, adds that a worker has done with the messages it no longer has to do (`Progress`); that a
message between two saves has a worker that will go on, unless a crash or an error stopped it (`Told`); and
`Kept`, the property. No step takes an effect back (`Grows`), so a second worker on the same event
does not disturb the first.

Of paying for a period, `PaymentProofs` proves, for every price and any number of runs, tabs and faults:

- `TypeCorrect`: `Spec => []TypeOK`;
- `CreditConserved`: what is left of the credit and what the payments hold add up, always;
- `ChargedOnce`: a saved method is charged once per payment, always;
- `PaidOnce`: `Spec => [](OneRun => OncePerPayment)`, a payment also grants one period at most;
- `CreditSafe`: `Spec => [](NoneShare => CreditKept)`, a payment that was given up holds no credit.

`OneRun` says that there is no credit or one renewal run, `NoneShare` that there is no credit or one run
and one tab. Without them the code breaks both properties (section 6), and all scenes
of `billing` satisfy them. The invariant is `Base /\ (OneRun => GrantInv) /\ (NoneShare => CreditInv)`:

- `Base` holds always: types, `Balanced`, `RowsOK` (a ledger holds at most the price), `HandsOK` (what a
  request has in hand at each point), `ChargeInv` and `AgeInv`.
- `ChargeInv`: the run that claims the row is the only one to charge, and nothing opens the
  claim again, because `fail` and the sweep save a copy that had been claimed, or one of a row nobody claims
  any more. That is `AgeInv`: the sweep takes up a renewal only when no run works on it and none will.
- `GrantInv`: a renewal payment that has granted is paid, or, if a stale copy failed it since, every way to grant it again is
  used up (`Spent`): the webhook was handled and no run has a success in hand.
- `CreditInv`: while the credit of a payment is being taken, nobody may give that payment up (`Fresh`).

`Balanced` is a sum over a finite set. `SumUnfolds`, `SumBounds` and `SumChanges` say what a sum is made of and what it does when one
entry changes; they rest on `SubsetInduction`, which is proved from the well-foundedness of the strict subset order in
`FiniteSetTheorems`, with a set of counterexamples in the place of the predicate a library theorem
would ask for. `IInv` was model-checked on the instance of `billing` first. Assumed are `PaymentAssumption` (a request is of one kind, and there
are finitely many) and `NoneAssumption`.

Of the email campaign, `CampaignProofs` proves, for any recipients, dispatchers, senders, chunk, limit of the
plan, number of tries and faults:

- `TypeCorrect`: `Spec => []TypeOK`;
- `MailedOnce`: `Spec => []SentOnce`, the provider takes one mail per recipient;
- `BooksKept`: `Spec => []BooksAgree`, at rest the rows, the reservations and the two counters say what the provider took.

None of the three is inductive. What a task has still to do is data (`todo`), so `HandsOK` first says which
plans there are (`Trying`, `Dropping`, `Closing`); the lemmas `Tails`, `Heads` and `Joins` compute with them.
For `SentOnce`, `OnceInv` says that the next mail of a recipient is in one place (`MailOK`): the row that
waits, a dispatcher about to enqueue it, a task, or a sender; once the provider took a mail, only a sender that
will not call again is left. It rests on `OneWorker` (one plain dispatcher and one for held recipients, since
a dispatch enqueues its successor when it ends) and `WorkOK` (the rows they took are still as they found them, as the
two kinds take PENDING and HELD ones). It needs neither the locks nor the reservation, and it is what `"again"` breaks.
For `BooksAgree`, `Books` says what the holder of a recipient's mail finds: `PlanAt` gives the status of the row, the
message it points to, the reservation and what the provider took for each plan; with no holder
left they are as in `Over`; `Counts` says what the counters count. A dispatcher finds no reservation on the rows
it took (`Alone`), so nobody's unit is taken twice; a task never finds its message accepted. After the last try
(`Exhausted`) none of it holds, which section 6 describes. All of it was model-checked on the instance of `email` first.

Of the scheduled job, `ScheduledJobProofs` proves, for any drains, any MAX_ATTEMPTS, any scene and any
number of faults:

- `TypeCorrect`: `Spec => []TypeOK`;
- `FireOnce`: `Spec => []FiredOnce`, an occurrence goes out at most once, unless it was torn;
- `SeriesComplete`: `Spec => []SeriesWhole`, a series that is over went out `times` times, with the exceptions of the property.

The types need an invariant of their own, because a drain writes the numbers of its copy over the
row: `Numbered`, an occurrence after the first was counted or was too late, in the row and in every
copy. It bounds the occurrences by `times` plus the faults, which is why `JobAssumption` asks that
`MaxOcc` has room for them; that is a condition on the bounds of the model only.
`FiredOnce` rests on three facts, each "unless torn": `OneHolder`, one drain at most is at work on the
job; `HolderOwns`, until that drain has recorded what it did the row is PROCESSING, so that nobody
claims it, and means the occurrence of the drain's copy, which has not gone out as long as the
drain is before the send; `NotYet`, what is SCHEDULED has not gone out, and what is PROCESSING and has gone out either has its
`target_message` or a drain about to record it, so that a recovery does not fire it again.
The lock of `_claim_due` is what makes `OneHolder` hold, `_recover_stale`'s look at `target_message` what
keeps `NotYet`; no invariant says anything about `attempts`, `wait` or the campaign, so neither the
backoff nor the campaign's own status is needed for it.
`SeriesWhole` adds the books on top of those facts. `Books`: once the first occurrence went out, the row's count is the number of
occurrences that went out other than the one `fire_at` means, and with COMPLETED that number is `times` and nobody is at work;
`Carries`: the drain at work has the row's count in its copy, and past the send its occurrence is out. So arming,
which compares the count plus one with `times`, completes exactly when `times` went out, and a skipped occurrence
takes one off the count and adds it again. With a count of 0 there is nothing to take off: then the first occurrence did not
go out, the exception of the property. `GoingInv` is for a series left SENT or RUNNING: without a crash, a slow drain or a database
error some drain is still to arm it. `NeverInv` (a series has no campaign of its own) keeps
`prune_scheduled_jobs` from completing it.

Model-checked only: the liveness properties, as the prover has no fairness.

## 5. Not modelled, and the plan

What would come next, in this order:

1. `PostStatus`: two channels under one post. Each ends at the same time as the other and derives
   the parent from what it read (`services.py:1452`), and a Celery message keeps its
   identity over its retries (`tasks.py:214`: the retry of a scheduled dispatch finds the
   row FAILED and is skipped). It composes two `VariantPublish` rows with a parent.
2. Webhook delivery (`automation/tasks.py`), which shares the claim, fire outside the lock, recover pattern
   with `ScheduledJob`; emails that belong to no campaign, and the provider's reports about them.
3. Refunds, plan changes and manual transfers around `PeriodPayment`; several credit grants and
   their expiry.
4. Contacts: a merge and an erasure against concurrent writes.

An abstract `ClaimedCall` (a row is claimed, an external effect happens at most once, its
outcome is recorded or handed to a person) is what `VariantPublish`, `OutboundSend`, `ScheduledJob` and
`PeriodPayment` promise alike; each should be shown to implement it.

Proofs worth adding: that each of the four implements `ClaimedCall`, step by step; `PublishedOnce` for videos, which needs a poll
that compares containers (the run covers what TLC can).

Left out for good: the language model behind AI, provider APIs beyond their outcomes,
read models and reports, authentication, content pages, migrations.

## 6. Disagreements

Where a comment of the code says one thing and its execution shows another. The
first two have runs. The others TLC finds when the configuration of the named run
checks the named property alone, with the scenes of the third column.

| What the code says | What it does | To see it |
|---|---|---|
| billing/renewals.py:7-8 "Credit is used first; if it covers the period, the subscription is renewed with no charge" | `_create_payment` (payments.py:124) is not a transaction (the decorator at 96 is on `_before_credit`): a second run finds the payment before credit is used and charges the card as well | `billing_overlap` |
| email/tasks.py:325 "Retries are exhausted and the message is permanently failed" | after the last try its unit is given back and the failure counted, and then `task.retry` gets a `max_retries` one above the retries so far (338-342), so Celery always tries again: the message may be sent, unpaid and counted as failed | `email_last_retry` |
| publishing/services.py:1097-1099 an outcome that "is unknown and must be reconciled, never blindly retried" | a database error after a successful call, on the last retry, makes the task's handler mark its own claim FAILED (tasks.py:263): the live channel is published again | `PublishedOnce` in `publish_live`, LastRetry |
| workflow_engine.py:5-6 "Every step writes a `WorkflowStepRun` so a crashed/re-run `advance_run` never double-sends" | a legacy reply without a transaction commits its answer and then advances the run without its lock (1541), while the sweep that had selected the run advances it too | `SentOnce` in `engine`, Modes {SweptMode} |
| interaction.py:19 "already_claimed – this provider message was already processed (duplicate)" | `ask_question` asked again keeps its interaction, whose answer row exists: `InteractionAnswer.interaction` is one to one (models.py:263), so the second, different answer violates it and is dropped as a duplicate. A re-prompted question can only time out. | `AlreadyClaimedIsDuplicate` in `claim_outer` |
| interaction.py:600-602 a skipped interaction is "about to be answered" | the claim that held it may roll back or take another; it stays open on an ended run | `SkippedIsAnswered` in `claim_outer` |
| automation/models.py:200-202 "Lock order (always): Conversation row → interactions → WorkflowRun" | a new question's foreign key locks the conversation after the run: deadlock with a claim | `LockOrderHolds` in `claim_one_run` |
| interaction.py:10-11 "the run state is committed before advance_run is called" | not inside the WhatsApp handler's transaction | `ContinuationIsDurable` in `claim_outer` |
| workflow_engine.py:3-6 "a wait step parks the run with next_due_at" | a step retried as its channel was unreadable (2053) leaves the run WAITING with a past deadline; the next wait takes this for its own and is over at once | `WaitIsWaited` in `engine`, Modes {[LockedMode EXCEPT !.unreadable = TRUE]} |
| workflow_engine.py:2090 "hit step limit; parking" | a cycle of recorded steps ends there ACTIVE without a due time, and no sweep finds it | `NeverStranded` in `engine`, "hello" and "again" leading to each other |
| workflow_engine.py:5-6 as above | Instagram buttons are sent inside the transaction that records them; a crash before its commit sends them again | `DeliveredOnce` in `engine` |
| publishing/tasks.py:176-178 "a channel cancelled or moved after dispatch is left alone" | the check is under a lock that is given up before the claim, and `_claim_blocked` (services.py:757) knows neither CANCELLED nor the schedule | `LeftAlone` in `publish_all`, {Quiet} |
| publishing/services.py:135 "anything that has started publishing keeps its state" | `apply_schedule` saves a channel it read without a lock: a retry started meanwhile goes back to SCHEDULED | `StartedKeeps` in `publish_all`, {[Everyone EXCEPT !.faults = {}]} |
| publishing/services.py:933-934 a recovered claim "must not be overwritten by a late worker" | the re-read takes no lock: a recovery before the save is overwritten | `RecoveredKept` in `publish_all`, {[Everyone EXCEPT !.prompt = FALSE]} |
| publishing/services.py:579-580 "a live worker is never mistaken for an abandoned one" | `recover_abandoned_publish_claims` chooses by age without a lock and does not look again; a token left by reconciliation lets it choose a row that a retry then claims | `LiveNotAbandoned` in `publish_all`, {Everyone} |
| publishing/services.py:612-613 "a stale worker cannot overwrite a later outcome" | a poll that finds its container dead writes FAILED without comparing containers | `OldPollDropped` in `publish_all`, {[Video EXCEPT !.prompt = FALSE]} |
| publishing/services.py:793-794 "releases lock before API calls" | `publish_post` runs in the transaction `run_due` opened: the claim is a savepoint, a crash undoes it after the call, the post goes out twice | `PublishedOnce` in `publish_all`, {[Workflow EXCEPT !.faults = {"crash"}]} |
| publishing/services.py:1445-1446 "Every transition that changes a variant calls this" | the last retry's handler does not, nor does `reconcile_stale_publishing_variants` (tasks.py:455-468), nor a crash between outcome and parent: the post keeps SCHEDULED or PUBLISHING. A late `post_reopen` or `post_cancel`, which checked the status before its lock, and the retry button do not restore it either | `ParentAgrees` without its first line, {Everyone}; `ParentAgrees`, {[Quiet EXCEPT !.prompt = FALSE]} |
| whatsapp/campaigns.py:450 "Send nothing more. Returns how many customers won't get it now" | `_withdraw` looks at the claims and then updates by status: a drain that claims a message in between sends it although it is CANCELLED and its recipient counted as "not sent" | `CancelledStays` in `outbound` |
| conversations/services.py:209-212 "a business gets the same behaviour whichever channel the customer writes on" | every save of it commits; a crash or an error between the message or its event and the enrolment loses the enrolment, since the redelivery finds them | `ReplyHandled` in `inbound` |
| billing/payments.py:4-5 `record_result` "is the only code that marks a payment paid or failed, and it does so once, under a row lock" | `fail` (573-582) saves the copy its caller read (renewals.py:140, the sweep of renewals): SUCCEEDED by a webhook becomes FAILED, and its credit goes back | `PaidStaysPaid` in `billing` |
| billing/payments.py:575-576 "an unpaid renewal makes the subscription past due" | it looks at no period: a renewal that fails after a checkout has paid for the period shows the paid subscription PAST_DUE; at the end of that period `past_due_since` is older than the grace, and it expires without an attempt | `PaidNotPastDue` in `billing` |
| billing/payments.py:4-6 a payment "can never grant a period twice" | two runs on credit that covers the price: one settles by credit, the other charges, and both grant | `OncePerPayment` in `billing`, OnCredit |
| billing/payments.py:223 "A checkout nobody finished releases its credit" | a checkout given up by a second tab between its creation and the use of credit takes the credit afterwards and keeps it | `CreditKept` in `billing`, {[Plain EXCEPT !.credit = 1, !.tabs = Tabs, !.faults = {}]} |
| billing/renewals.py:3-5 the engine decides "when a period ends and what happens next" | a crash after the payment by credit is saved SUCCEEDED and before `activate_subscription`: no run ever grants the period or ends it, each finds the payment "renewed" | `PeriodAnswered` in `billing`, {[Plain EXCEPT !.credit = 2, !.runs = {r1}]} |
| scheduler/drainer.py:126-127 "dispatch_campaign no-ops on a non-QUEUED campaign, so a duplicate tick is harmless" | it goes on unless the campaign is CANCELLED, COMPLETED or PAUSED; two dispatches of a SENDING campaign take the same PENDING chunk and mail it twice | `SentOnce` of `email` without its condition, {[Plain EXCEPT !.start = "queued", !.chunk = 2, !.faults = {"again"}]} |
| email/tasks.py:368 "a redelivered or re-run task can never send twice" | a call the provider accepted without an answer is a failed try, and is tried again | the same, {Unanswered} |
| email/models.py: a campaign that is CANCELLED | `cancel_job` saves over a campaign the drainer has taken; `mark_sending`, `mark_completed` and `Reopen`'s save from a copy bring it back | `CancelledStays` in `email`, {Cancelled} |
| email/tasks.py:437-443 "Mark a campaign COMPLETED once no recipients are PENDING/QUEUED ... after each recipient's terminal send outcome" | the gate for suppressed addresses (224-228) fails the message and leaves its recipient QUEUED: the campaign stays SENDING. A run for held recipients that reopens the campaign after their sends have ended has the same effect, and so has a crash before the tasks are enqueued, as nothing looks for such a campaign | `CampaignEnds` in `email` without its conditions, {Leaving}, {Tight} or {[Plain EXCEPT !.faults = {"crash"}]} |
| scheduler/models.py:73-74 an idempotency key is "threaded into create_and_queue_* so a materialise-retry after a mid-fire crash cannot double-create" | it is not passed on: a crash or a database error between `create_and_queue_message` and the save of `target_message` (drainer.py:98-100) sends again | `FiredOnce` in `scheduler` without `torn`, {[Once EXCEPT !.faults = {"database"}]} or {"crash"} |
| scheduler/drainer.py:47 "If the fire clearly completed before the crash, don't re-fire it." | a batch that takes longer than ten minutes is recovered while it is alive, and fired twice | the same, {"slow"} |
| the same comment | `target_message` of an earlier occurrence is still set: a later one that a crash interrupted before its send is marked SENT, and the series is over | `SeriesWhole` with `Over` for every "sent", {[Series EXCEPT !.faults = {"crash"}]} |
| scheduler/drainer.py:165-166 a late occurrence "doesn't count toward max_occurrences" | the first one does: its count is max(0 - 1, 0), and arming the next adds one | `CompletedIsWhole` in `scheduler`, {[Series EXCEPT !.faults = {"late"}]} |
| scheduler/api.py:172-175 a job that is not SCHEDULED "can no longer be cancelled" (162-165: rescheduled) | both look at a copy: a cancel saves CANCELLED over a job that is firing or has gone out; a reschedule arms one that was sent, which goes out twice | `CancelledIsUnsent` in `scheduler`, {[Once EXCEPT !.faults = {"cancel"}]}; `FiredOnce` without `torn`, {"move"} |

Four more combinations of requests make the publishing properties fail, and the
passing runs leave them out for that reason:

- An operator who answers "retry" while the worker's call is still in flight, after its lease has
  ended: the channel is published by both (`prompt`).
- A broker that refuses the retry button's task, with another attempt under way: the
  handler writes FAILED over that attempt's claim (views.py:1766-1786), and the channel can be
  published again.
- A retry task that comes when the approval has lapsed marks FAILED a channel another attempt
  has in flight (tasks.py:240-254), with the same effect.
- A lapsed approval sends the post to DRAFT (`publish_post_async`) although its channel may be
  published or in doubt; scheduling the draft again shows it as SCHEDULED.

`NothingAfterTheEnd` and the other properties under `Locked` of `WorkflowEngine` hold for callers that
hold the row. An autocommit caller (API enrolment, a legacy Instagram reply) can revive
a cancelled run from its copy, and a crash of an enrolment strands the run; `QueuedOnce`
is what still holds then, unless a reply and the sweep meet (`SweptMode`).

What the outbound queue does that its properties except or do not mention:

- A database error at the very commit of the unit, and for messages that are not metered
  also an unanswered request or an error just after the row is SENT, is handled as a failed
  send: the message goes out again (`Protected`).
- `commit_stale` commits the unit of a message that has been retried or paused for over a day; the
  next drain finds it committed and marks the message UNCONFIRMED without sending it.
- A report of failure between `LogSent` and `RowSent` is lost: the drain's SENT overwrites it.
- A withdrawal marks as FAILED the logs of all messages it had read, also of one that was sent
  meanwhile.
- A campaign that fails in a chunk says that nothing more will be sent; the messages of earlier chunks
  are still queued and go out.
- A message refused by policy, or without a provider, after an earlier attempt keeps its reserved
  unit until `commit_stale` counts it.

Of the inbound pipeline: an event that arrives between the release of the last held one and its
enqueue overtakes it; `mark_processing` of a second Instagram task may put a PROCESSED event back
to PROCESSING; the lock's `finally` deletes the key of another worker when its own has expired.
None of these hands a message over twice.

Of billing: a crash between the use of credit and the save of the reduced price makes the next run
charge the full price while the credit stays held. PayPal's CHECKOUT.ORDER.APPROVED handler captures
inside its transaction; its rollback clears `charge_started_at` although money may have moved, so the
payment no longer counts as in flight until the event is delivered again. The scenes of `billing` leave
out two runs with credit, one run with full credit and crashes, and two tabs with credit,
for the reasons given in the table.

Of email campaigns: the breaker pauses a campaign over whatever status it has by then. Nothing enqueues the
sends of messages that were made before their dispatcher died. A send waits for Email to be switched
on again without a limit, and its message may be sent long after the campaign was cancelled.

Of scheduled jobs: the drain that dies between `mark_sent` and `arm_next_occurrence` leaves a series of
campaigns RUNNING for ever, since `prune_scheduled_jobs` looks only at jobs with a `target_campaign`. A
cancel whose copy of the campaign is as old as its copy of the job cancels a campaign that has been
dispatched, and the job is then reconciled to FAILED. A job of kind WHATSAPP that found its message
unsent would stay RUNNING, as nothing looks at it again; nothing in `src/` creates one.
