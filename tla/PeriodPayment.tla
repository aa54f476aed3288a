---------------------------- MODULE PeriodPayment ----------------------------
(***************************************************************************)
(* Paying for a period of a plan (apps/billing): the hourly renewal run,   *)
(* the customer's checkout and return, the provider's webhooks, and the    *)
(* hourly sweep of payments nobody finished, around one account's credit,  *)
(* its payments and its subscription.                                      *)
(*                                                                         *)
(* db is what the database holds; an operator from db to db is one         *)
(* transaction.  A process works on the copy of the row it read: what      *)
(* renewals.renew and abandon_stale hand to fail is that copy.             *)
(***************************************************************************)
EXTENDS Integers, FiniteSetsExt

CONSTANTS
    Runs,        \* renewal runs that may overlap
    Tabs,        \* the customer's browser tabs; each starts one checkout
    Renewal,     \* the renewal payment of the period that has ended
    None,
    Scenes,      \* who pays how, see Scene
    Price,       \* price_for(plan, period)
    MaxFaults    \* bound of the checked instances

Payments == Tabs \cup {Renewal}
Watchers == {"sweep", "return", "hook"}
Procs == Runs \cup Tabs \cup Watchers

Cards == {"stripe", "flutterwave"}      \* off_session_charge
Providers == Cards \cup {"paypal"}
CanReconcile(provider) == provider = "paypal"

Scene == [provider : Providers, credit : Nat, saved : BOOLEAN, cancels : BOOLEAN,
          runs : SUBSET Runs, tabs : SUBSET Tabs, returns : BOOLEAN, faults : SUBSET {"crash", "lost"}]

ASSUME PaymentAssumption ==
    /\ Renewal \notin Tabs /\ None \notin Payments /\ IsFiniteSet(Tabs)
    /\ Runs \cap Tabs = {} /\ (Runs \cup Tabs) \cap Watchers = {}
    /\ Scenes \subseteq Scene /\ Price \in Nat \ {0} /\ MaxFaults \in Nat

VARIABLES
    db,         \* the database, see TypeOK
    at, my,     \* where each process is; the payment it works on, its copy, the provider's answer
    page,       \* the provider's page of a checkout
    money,      \* what became of a payment at the provider
    events,     \* webhooks the provider has sent: payment, what it says, which event
    handled,    \* ProcessedWebhookEvent
    charges,    \* how often a saved method was charged for a payment
    faults,
    scene       \* the scene of this behaviour, never changed

vars == <<db, at, my, page, money, events, handled, charges, faults, scene>>

OpenStatus == {"pending", "action"}
GivenUp == {"failed", "abandoned", "action"}
Row == [status : OpenStatus \cup GivenUp \cup {"succeeded"},
        provider : Providers \cup {"credit"},
        held : 0..Price,          \* credit_applied
        due : 0..Price,           \* amount_due
        claimed : BOOLEAN,        \* provider_ref is set
        started : BOOLEAN,        \* charge_started_at is set
        unresolved : BOOLEAN,     \* resolution
        lag : BOOLEAN,            \* charge sent RECHECK_IN_FLIGHT_AFTER ago
        day : BOOLEAN]            \* created (a renewal: saved) ABANDON_AFTER ago
Subscription == [status : {"active", "past_due", "cancelled", "expired"},
                 ended : BOOLEAN,     \* current_period_end has passed
                 atEnd : BOOLEAN,     \* cancel_at_period_end
                 overdue : BOOLEAN]   \* past due for BILLING_GRACE_DAYS
ASSUME NoneAssumption == None \notin Row
Results == {"none", "succeeded", "failed", "action", "pending", "uncaptured", "unknown", "lost"}

NewPayment == [status |-> "pending", provider |-> scene.provider, held |-> 0, due |-> Price,
               claimed |-> FALSE, started |-> FALSE, unresolved |-> FALSE,
               lag |-> FALSE, day |-> FALSE]
Idle == [pay |-> None, copy |-> None, got |-> "none", todo |-> {}]

Init ==
    /\ scene \in Scenes
    /\ \E atEnd \in {FALSE, scene.cancels} :
         db = [rows |-> [p \in Payments |-> None], balance |-> scene.credit,
               ledger |-> [p \in Payments |-> 0], granted |-> [p \in Payments |-> 0],
               sub |-> [status |-> "active", ended |-> scene.runs # {}, atEnd |-> atEnd, overdue |-> FALSE]]
    /\ at = [x \in Procs |-> "idle"] /\ my = [x \in Procs |-> Idle]
    /\ page = [p \in Payments |-> "none"] /\ money = [p \in Payments |-> "none"]
    /\ events = {} /\ handled = {}
    /\ charges = [p \in Payments |-> 0] /\ faults = 0

-----------------------------------------------------------------------------
(* Transactions.  ledger[p] is the credit p holds (_net_applied), granted  *)
(* counts the periods activate_subscription gave for p.                    *)

Exists(p) == db.rows[p] # None
InFlight(row) == row.unresolved \/ (row.status = "pending" /\ row.started)
LeastAsked(a, b) == b
Least(a, b) == IF a <= b THEN a ELSE b

\* credit.apply and credit.restore: what the ledger says, once.
Applied(b, p, max) ==
    LET used == Least(b.balance, max)
    IN  IF b.ledger[p] > 0 THEN b ELSE [b EXCEPT !.balance = @ - used, !.ledger[p] = used]
RestoredFromRow(b, p) == [b EXCEPT !.balance = @ + b.rows[p].held, !.ledger[p] = 0]
Restored(b, p) == [b EXCEPT !.balance = @ + b.ledger[p], !.ledger[p] = 0]

Saved(b, p, row) == [b EXCEPT !.rows[p] = row]
Activated(b, p) ==
    [b EXCEPT !.granted[p] = @ + 1,
              !.sub = [status |-> "active", ended |-> FALSE, atEnd |-> FALSE, overdue |-> FALSE]]
PastDue(b) == IF b.sub.status \in {"active", "past_due"}
              THEN [b EXCEPT !.sub.status = "past_due"] ELSE b

\* fail: saves the whole row it was given.
FailedQuietly(b, p, row, status) == Restored(Saved(b, p, [row EXCEPT !.status = status]), p)
Failed(b, p, row, status) ==
    LET done == Restored(Saved(b, p, [row EXCEPT !.status = status]), p)
    IN  IF p = Renewal THEN PastDue(done) ELSE done

\* _succeed: credit given back when the payment was given up is taken again.
Succeeded(b, p, row) ==
    LET paid == Saved(b, p, [row EXCEPT !.status = "succeeded"])
        full == IF row.status \in GivenUp /\ row.held > 0 THEN Applied(paid, p, row.held) ELSE paid
    IN  Activated(full, p)

\* record_result, under the row lock.
RecordedIfOpen(b, p, provider, result) ==
    LET row == b.rows[p] IN
    IF row = None \/ row.status \notin OpenStatus THEN b
    ELSE IF result = "succeeded" THEN Succeeded(b, p, [row EXCEPT !.unresolved = FALSE])
    ELSE IF result \in {"failed", "action"}
         THEN Failed(b, p, [row EXCEPT !.unresolved = FALSE], result)
    ELSE b
Recorded(b, p, provider, result) ==
    LET row == b.rows[p]
        known == [row EXCEPT !.unresolved = FALSE]
    IN  IF row = None \/ row.provider # provider \/ row.status = "succeeded" THEN b
        ELSE CASE result = "succeeded" -> Succeeded(b, p, known)
               [] result \in {"failed", "action"} -> Failed(b, p, known, result)
               [] result = "pending" -> Saved(b, p, IF p = Renewal THEN [row EXCEPT !.day = FALSE] ELSE row)

\* _abandon and mark_unresolved look again under the row lock.
Abandoned(b, p) ==
    IF b.rows[p].status \in OpenStatus
    THEN Restored(Saved(b, p, [b.rows[p] EXCEPT !.status = "abandoned"]), p) ELSE b
MarkedUnresolved(b, p) ==
    IF b.rows[p].status \in OpenStatus /\ ~b.rows[p].unresolved
    THEN Saved(b, p, [b.rows[p] EXCEPT !.unresolved = TRUE, !.day = @ /\ p # Renewal]) ELSE b

MarkedStarted(b, p) ==
    IF b.rows[p].started THEN b
    ELSE Saved(b, p, [b.rows[p] EXCEPT !.started = TRUE, !.lag = FALSE])
Cleared(b, p) == Saved(b, p, [b.rows[p] EXCEPT !.started = FALSE, !.lag = FALSE])

-----------------------------------------------------------------------------
(* Steps of a process.                                                     *)

Goto(x, to) == at' = [at EXCEPT ![x] = to]
Leave(x) == at' = [at EXCEPT ![x] = "idle"] /\ my' = [my EXCEPT ![x] = Idle]
Take(x, p, row, to) ==
    Goto(x, to) /\ my' = [my EXCEPT ![x] = [Idle EXCEPT !.pay = p, !.copy = row]]
Fault(kind) == kind \in scene.faults /\ faults < MaxFaults /\ faults' = faults + 1

outside == <<page, money, events, handled, charges>>
quiet == <<outside, faults, scene>>

RunDue == db.sub.ended /\ db.sub.status \in {"active", "past_due"}

\* renew, as far as the transaction that locks the subscription goes.
StartRenewal(r) ==
    /\ r \in scene.runs /\ at[r] = "idle" /\ RunDue
    /\ CASE db.sub.atEnd ->
              db' = [db EXCEPT !.sub.status = "cancelled"] /\ UNCHANGED <<at, my>>
         [] ~db.sub.atEnd /\ db.sub.status = "past_due" /\ db.sub.overdue ->
              db' = [db EXCEPT !.sub.status = "expired"] /\ UNCHANGED <<at, my>>
         [] OTHER -> Take(r, Renewal, None, "create") /\ UNCHANGED db
    /\ UNCHANGED quiet

\* checkout: abandon_open_checkouts reads, then gives up one after the other.
StartCheckout(t) ==
    /\ t \in scene.tabs /\ at[t] = "idle" /\ ~Exists(t)
    /\ Goto(t, "clear")
    /\ my' = [my EXCEPT ![t] = [Idle EXCEPT !.pay = t, !.todo =
                {p \in Tabs : /\ Exists(p) /\ db.rows[p].status \in OpenStatus
                              /\ ~InFlight(db.rows[p])}]]
    /\ UNCHANGED <<db, quiet>>
AbandonOpen(t) ==
    /\ at[t] = "clear"
    /\ IF my[t].todo = {} THEN Goto(t, "create") /\ UNCHANGED <<db, my>>
       ELSE \E p \in my[t].todo : /\ db' = Abandoned(db, p)
                                  /\ my' = [my EXCEPT ![t].todo = @ \ {p}] /\ UNCHANGED at
    /\ UNCHANGED quiet

\* create_payment: a renewal finds the row of its reference, or makes it; a
\* checkout refuses while a charge is in flight.
Create(x) ==
    LET p == my[x].pay IN
    /\ at[x] = "create"
    /\ IF Exists(p) THEN Take(x, p, db.rows[p], "claim") /\ UNCHANGED db
       ELSE IF p # Renewal /\ \E q \in Payments : /\ Exists(q) /\ db.rows[q].status \in OpenStatus
                                                  /\ InFlight(db.rows[q])
            THEN Leave(x) /\ UNCHANGED db
            ELSE db' = Saved(db, p, NewPayment) /\ Take(x, p, NewPayment, "apply")
    /\ UNCHANGED quiet

\* _create_payment: each write of it is a transaction of its own.
ApplyCredit(x) ==
    LET p == my[x].pay
        after == Applied(db, p, my[x].copy.due)
        used == after.ledger[p]
    IN
    /\ at[x] = "apply"
    /\ db' = after
    /\ my' = [my EXCEPT ![x].copy.held = used, ![x].copy.due = @ - used]
    /\ Goto(x, IF used > 0 THEN "save" ELSE IF p = Renewal THEN "claim" ELSE "open")
    /\ UNCHANGED quiet
SaveCredit(x) ==
    LET p == my[x].pay  copy == my[x].copy IN
    /\ at[x] = "save"
    /\ db' = Saved(db, p, [db.rows[p] EXCEPT !.held = copy.held, !.due = copy.due])
    /\ Goto(x, IF copy.due = 0 THEN "settle" ELSE IF p = Renewal THEN "claim" ELSE "open")
    /\ UNCHANGED <<my, quiet>>
SettleByCredit(x) ==
    LET p == my[x].pay IN
    /\ at[x] = "settle"
    /\ db' = Saved(db, p, [db.rows[p] EXCEPT !.status = "succeeded", !.provider = "credit"])
    /\ Goto(x, "grant")
    /\ UNCHANGED <<my, quiet>>
GrantByCredit(x) ==
    /\ at[x] = "grant"
    /\ db' = Activated(db, my[x].pay)
    /\ Leave(x)
    /\ UNCHANGED quiet

-----------------------------------------------------------------------------
(* The saved method of a renewal.                                          *)

Event(p, said, n) == <<p, said, n>>
\* A Stripe page reports a payment as a session and as a payment intent.
Reported(p, said) ==
    {Event(p, said, n) : n \in IF p # Renewal /\ scene.provider = "stripe" /\ said = "succeeded"
                               THEN {1, 2} ELSE {1}}
Told(p, to) == events \cup (CASE to = "taken" -> Reported(p, "succeeded")
                              [] to = "refused" -> Reported(p, "failed")
                              [] OTHER -> {})

\* claim_for_charge: one conditional UPDATE.
ClaimPending(row) == row.status = "pending"
Claimable(row) == row.status = "pending" /\ ~row.claimed
ClaimForCharge(r) ==
    /\ at[r] = "claim"
    /\ IF my[r].copy.status = "pending" /\ Claimable(db.rows[Renewal])
       THEN /\ db' = Saved(db, Renewal, [db.rows[Renewal] EXCEPT !.claimed = TRUE, !.started = TRUE,
                                                                 !.lag = FALSE, !.day = FALSE])
            /\ Goto(r, "charge") /\ UNCHANGED my
       ELSE Leave(r) /\ UNCHANGED db
    /\ UNCHANGED quiet

Chargeable == scene.saved /\ scene.provider \in Cards
NoMethod(r) ==
    /\ at[r] = "charge" /\ ~Chargeable
    /\ db' = Failed(db, Renewal, my[r].copy, "failed")
    /\ Leave(r)
    /\ UNCHANGED quiet

\* charge_saved_method.  What the provider does with the charge, and what it
\* answers; a lost answer, or a charge that never arrived, is a fault.
Charge(r) ==
    /\ at[r] = "charge" /\ Chargeable
    /\ charges' = [charges EXCEPT ![Renewal] = @ + 1]
    /\ \E to \in {"taken", "refused", "pending", "none"}, got \in Results :
         /\ got \in CASE to = "taken" -> {"succeeded", "pending", "lost"}
                      [] to = "refused" -> {"failed", "lost"}
                      [] to = "pending" -> {"pending", "action", "lost"}
                      [] to = "none" -> {"lost"}
         /\ got = "action" => scene.provider = "stripe"
         /\ IF got = "lost" THEN Fault("lost") ELSE UNCHANGED faults
         /\ money' = [money EXCEPT ![Renewal] = to]
         /\ events' = Told(Renewal, to)
         /\ my' = [my EXCEPT ![r].got = got]
    /\ Goto(r, "answer")
    /\ UNCHANGED <<db, page, handled, scene>>

\* A ProviderError (Stripe) fails the copy; Flutterwave reports it as FAILED.
ChargeAnswered(r) ==
    LET got == my[r].got IN
    /\ at[r] = "answer" /\ r \in Runs
    /\ db' = IF got = "lost" /\ scene.provider = "stripe"
             THEN Failed(db, Renewal, my[r].copy, "failed")
             ELSE Recorded(db, Renewal, scene.provider, IF got = "lost" THEN "failed" ELSE got)
    /\ Leave(r)
    /\ UNCHANGED quiet

-----------------------------------------------------------------------------
(* The customer at the provider's page, and the return from it.            *)

\* start_checkout sends the customer there whatever the row has become.
OpenPage(t) ==
    /\ at[t] = "open"
    /\ page' = [page EXCEPT ![t] = "open"]
    /\ Leave(t)
    /\ UNCHANGED <<db, money, events, handled, charges, faults, scene>>

CustomerPays(t) ==
    /\ scene.provider \in Cards /\ page[t] = "open" /\ money[t] \in {"none", "refused"}
    /\ \E to \in {"taken", "refused", "pending"} :
         /\ money[t] = "refused" => to = "taken"     \* bound: one refusal a page
         /\ money' = [money EXCEPT ![t] = to]
         /\ events' = Told(t, to)
    /\ UNCHANGED <<db, at, my, page, handled, charges, faults, scene>>
CustomerApproves(t) ==
    /\ scene.provider = "paypal" /\ page[t] = "open"
    /\ page' = [page EXCEPT ![t] = "approved"]
    /\ events' = events \cup {Event(t, "approved", 1)}
    /\ UNCHANGED <<db, at, my, money, handled, charges, faults, scene>>
ProviderDecides(p) ==
    /\ money[p] = "pending"
    /\ \E to \in {"taken", "refused"} :
         money' = [money EXCEPT ![p] = to] /\ events' = Told(p, to)
    /\ UNCHANGED <<db, at, my, page, handled, charges, faults, scene>>

\* payment_return; PayPal captures only a payment that is open.
CustomerReturns(t) ==
    /\ scene.returns /\ at["return"] = "idle" /\ page[t] # "none" /\ Exists(t)
    /\ db.rows[t].status # "succeeded"
    /\ scene.provider = "paypal" => db.rows[t].status \in OpenStatus
    /\ IF scene.provider = "paypal" THEN Take("return", t, db.rows[t], "mark")
                                    ELSE Take("return", t, None, "verify")
    /\ UNCHANGED <<db, quiet>>

Said(p) == CASE money[p] = "taken" -> "succeeded" [] money[p] = "refused" -> "failed"
             [] OTHER -> "pending"
Verify ==
    /\ at["return"] = "verify"
    /\ my' = [my EXCEPT !["return"].got = Said(my["return"].pay)]
    /\ Goto("return", "record")
    /\ UNCHANGED <<db, quiet>>

MarkChargeStarted ==
    /\ at["return"] = "mark"
    /\ db' = IF my["return"].copy.started THEN db ELSE MarkedStarted(db, my["return"].pay)
    /\ Goto("return", "capture")
    /\ UNCHANGED <<my, quiet>>

\* An order is captured once; a second capture reads it.  "action" is a refusal
\* the buyer can mend by approving again.
Capture(p, to, got) ==
    /\ got \in IF money[p] # "none" THEN {Said(p), "lost"}
               ELSE IF page[p] = "approved"
                    THEN CASE to = "taken" -> {"succeeded", "lost"} [] to = "pending" -> {"pending", "lost"}
                           [] to = "refused" -> {"failed", "lost"} [] to = "none" -> {"action", "lost"}
                    ELSE {"uncaptured"}
    /\ money[p] # "none" \/ page[p] # "approved" => to = money[p]
    /\ money' = [money EXCEPT ![p] = to]
    /\ page' = IF got = "action" THEN [page EXCEPT ![p] = "open"] ELSE page
    /\ events' = IF money[p] = "none" THEN Told(p, to) ELSE events
\* What no money moved for is no longer in flight.
CaptureRecorded(b, p, got) ==
    CASE got = "uncaptured" -> Cleared(b, p)
      [] got = "action" -> Recorded(Cleared(b, p), p, "paypal", got)
      [] OTHER -> Recorded(b, p, "paypal", got)

CaptureOnReturn ==
    LET p == my["return"].pay IN
    /\ at["return"] = "capture"
    /\ \E to \in {"taken", "refused", "pending", "none"}, got \in Results :
         /\ Capture(p, to, got)
         /\ IF got = "lost" THEN Fault("lost") /\ Leave("return")
            ELSE /\ my' = [my EXCEPT !["return"].got = got]
                 /\ Goto("return", "record") /\ UNCHANGED faults
    /\ UNCHANGED <<db, handled, charges, scene>>
RecordReturn ==
    /\ at["return"] = "record"
    /\ db' = CaptureRecorded(db, my["return"].pay, my["return"].got)
    /\ Leave("return")
    /\ UNCHANGED quiet

-----------------------------------------------------------------------------
(* Webhooks: each event is handled once, with its results, in one          *)
(* transaction.                                                            *)

Webhook(e) ==
    /\ e \in events \ handled /\ e[2] # "approved"
    /\ handled' = handled \cup {e}
    /\ db' = Recorded(db, e[1], scene.provider, e[2])
    /\ UNCHANGED <<at, my, page, money, events, charges, faults, scene>>

\* CHECKOUT.ORDER.APPROVED captures inside that transaction: an error rolls
\* the mark back although the money may have moved.
HookReads(t) ==
    LET e == Event(t, "approved", 1) IN
    /\ at["hook"] = "idle" /\ e \in events \ handled
    /\ IF Exists(t) /\ db.rows[t].status \in OpenStatus
       THEN Take("hook", t, None, "capture") /\ UNCHANGED handled
       ELSE handled' = handled \cup {e} /\ UNCHANGED <<at, my>>
    /\ UNCHANGED <<db, page, money, events, charges, faults, scene>>
HookCaptures ==
    LET p == my["hook"].pay IN
    /\ at["hook"] = "capture"
    /\ \E to \in {"taken", "refused", "pending", "none"}, got \in Results :
         /\ Capture(p, to, got)
         /\ IF got = "lost" THEN Fault("lost") /\ UNCHANGED <<db, handled>>
            ELSE /\ db' = CaptureRecorded(MarkedStarted(db, p), p, got)
                 /\ handled' = handled \cup {Event(p, "approved", 1)} /\ UNCHANGED faults
    /\ Leave("hook")
    /\ UNCHANGED <<charges, scene>>

-----------------------------------------------------------------------------
(* abandon_stale, one payment of its list.                                 *)

Overdue(row) == row.day /\ ~row.unresolved
Recheck(row) == row.started /\ CanReconcile(row.provider)
                /\ (row.unresolved \/ (row.status = "pending" /\ row.lag) \/ row.day)
Listed(p) == /\ Exists(p)
             /\ db.rows[p].status \in IF p = Renewal THEN {"pending"} ELSE OpenStatus
             /\ Overdue(db.rows[p]) \/ Recheck(db.rows[p])
SweepReads(p) ==
    /\ at["sweep"] = "idle" /\ Listed(p)
    /\ Take("sweep", p, IF p = Renewal THEN db.rows[p] ELSE None,
            IF Recheck(db.rows[p]) THEN "ask" ELSE "give_up")
    /\ UNCHANGED <<db, quiet>>

\* _reconcile: without an order, or without an answer, the outcome is unknown.
AskProvider ==
    LET p == my["sweep"].pay IN
    /\ at["sweep"] = "ask"
    /\ \E got \in {"unknown", "uncaptured", Said(p)} :
         /\ my' = [my EXCEPT !["sweep"].got = got]
         /\ IF page[p] = "none" THEN got = "unknown" /\ UNCHANGED faults
            ELSE IF got = "unknown" THEN Fault("lost")
            ELSE (got = "uncaptured" <=> money[p] = "none") /\ UNCHANGED faults
    /\ Goto("sweep", "reconcile")
    /\ UNCHANGED <<db, outside, scene>>
\* ALERT_PENDING_AFTER is days: a payment under review may be escalated.
Reconcile ==
    LET p == my["sweep"].pay  got == my["sweep"].got IN
    /\ at["sweep"] = "reconcile"
    /\ db' \in CASE got = "unknown" -> {MarkedUnresolved(db, p)}
                 [] got = "pending" -> {db} \cup (IF db.rows[p].day /\ InFlight(db.rows[p])
                                                 THEN {MarkedUnresolved(db, p)} ELSE {})
                 [] OTHER -> {CaptureRecorded(db, p, got)}
    /\ Leave("sweep")
    /\ UNCHANGED quiet
\* _abandon for a checkout; fail on the copy for a renewal.
GiveUp ==
    LET p == my["sweep"].pay IN
    /\ at["sweep"] = "give_up"
    /\ db' = IF p = Renewal THEN Failed(db, p, my["sweep"].copy, "failed") ELSE Abandoned(db, p)
    /\ Leave("sweep")
    /\ UNCHANGED quiet

-----------------------------------------------------------------------------
(* Time and faults.                                                        *)

\* A visit or a run takes minutes at most, and runs come every hour: within a
\* day one has taken up the payment of a period that is due.
Untouched(p) ==
    LET done == IF db.rows[p].claimed THEN {"idle", "create", "claim"} ELSE {"idle"}
    IN  \A x \in Procs \ {"sweep"} : at[x] \notin done => my[x].pay # p
AQuarterPasses(p) ==
    /\ Exists(p) /\ Untouched(p) /\ db.rows[p].started /\ ~db.rows[p].lag
    /\ CanReconcile(db.rows[p].provider) /\ db.rows[p].status \in OpenStatus
    /\ db' = [db EXCEPT !.rows[p].lag = TRUE]
    /\ UNCHANGED <<at, my, quiet>>
ADayPasses(p) ==
    /\ Exists(p) /\ Untouched(p) /\ db.rows[p].status \in OpenStatus /\ ~db.rows[p].day
    /\ p = Renewal => db.rows[p].claimed \/ ~RunDue
    /\ db' = [db EXCEPT !.rows[p].day = TRUE]
    /\ UNCHANGED <<at, my, quiet>>
GraceEnds ==
    /\ db.sub.status = "past_due" /\ ~db.sub.overdue
    /\ db' = [db EXCEPT !.sub.overdue = TRUE]
    /\ UNCHANGED <<at, my, quiet>>

Crash(x) ==
    /\ at[x] # "idle" /\ Fault("crash")
    /\ Leave(x)
    /\ UNCHANGED <<db, outside, scene>>

Creating(x) == Create(x) \/ ApplyCredit(x) \/ SaveCredit(x) \/ SettleByCredit(x) \/ GrantByCredit(x)
Renewing(r) == StartRenewal(r) \/ Creating(r) \/ ClaimForCharge(r) \/ NoMethod(r) \/ Charge(r) \/ ChargeAnswered(r)
CheckingOut(t) == AbandonOpen(t) \/ Creating(t) \/ OpenPage(t)
Returning == Verify \/ MarkChargeStarted \/ CaptureOnReturn \/ RecordReturn
Hooking == HookCaptures \/ \E t \in Tabs : HookReads(t)
Sweeping == AskProvider \/ Reconcile \/ GiveUp

Next ==
    \/ \E r \in Runs : Renewing(r)
    \/ \E t \in Tabs : \/ StartCheckout(t) \/ CheckingOut(t)
                       \/ CustomerPays(t) \/ CustomerApproves(t) \/ CustomerReturns(t)
    \/ \E p \in Payments : ProviderDecides(p) \/ SweepReads(p) \/ AQuarterPasses(p) \/ ADayPasses(p)
    \/ Returning \/ Hooking \/ Sweeping \/ GraceEnds
    \/ \E e \in events : Webhook(e)
    \/ \E x \in Procs : Crash(x)

Spec == Init /\ [][Next]_vars

\* Workers and the beat go on, the provider decides and delivers, a day passes
\* whoever visits, and the sweep passes no payment over.  Nothing obliges the
\* customer.
Fairness ==
    /\ \A r \in Runs : WF_vars(Renewing(r))
    /\ WF_vars(\E t \in Tabs : CheckingOut(t))
    /\ WF_vars(Hooking \/ (\E p \in Payments : ProviderDecides(p)) \/ (\E e \in events : Webhook(e)))
    /\ WF_vars(Returning) /\ WF_vars(Sweeping)
    /\ \A p \in Payments : SF_vars(SweepReads(p))
    /\ SF_vars(\E p \in Payments : ADayPasses(p))
FairSpec == Spec /\ Fairness

-----------------------------------------------------------------------------
(* Properties.                                                             *)

\* Every variable has its type.
TypeOK ==
    /\ scene \in Scenes
    /\ db \in [rows : [Payments -> Row \cup {None}], balance : 0..scene.credit,
               ledger : [Payments -> 0..scene.credit], granted : [Payments -> Nat], sub : Subscription]
    /\ at \in [Procs -> {"idle", "clear", "create", "apply", "save", "settle", "grant", "open", "claim",
                         "charge", "answer", "verify", "mark", "capture", "record", "ask", "reconcile",
                         "give_up"}]
    /\ my \in [Procs -> [pay : Payments \cup {None}, copy : Row \cup {None}, got : Results,
                         todo : SUBSET Tabs]]
    /\ page \in [Payments -> {"none", "open", "approved"}]
    /\ money \in [Payments -> {"none", "pending", "taken", "refused"}]
    /\ events \subseteq Payments \X {"succeeded", "failed", "approved"} \X {1, 2}
    /\ handled \subseteq events
    /\ charges \in [Payments -> Nat] /\ faults \in 0..MaxFaults

\* However runs, returns, webhooks and the sweep overlap, a saved method is
\* charged at most once for a payment, and a payment grants at most one period
\* (payments.py:4-6, 167-170).
OncePerPayment == \A p \in Payments : charges[p] <= 1 /\ db.granted[p] <= 1

\* Credit is neither made nor lost: what payments hold and what is left add up
\* to what was granted, and a payment that was given up holds none, whoever
\* gave it up and however often (credit.py:129-131).
CreditKept ==
    /\ db.balance + MapThenSumSet(LAMBDA p : db.ledger[p], Payments) = scene.credit
    /\ \A p \in Payments : Exists(p) /\ db.rows[p].status \in GivenUp => db.ledger[p] = 0

\* Money the provider took grants its period, also when the payment had been
\* given up meanwhile or its answer was lost (payments.py:223-226).
MoneyGranted == \A p \in Payments : money[p] = "taken" ~> db.granted[p] >= 1

\* A paid period that ends does not stay active: it is renewed, goes past due,
\* ends, or waits for an operator with a charge nobody can confirm.
PeriodAnswered ==
    (db.sub.ended /\ db.sub.status = "active")
        ~> \/ ~db.sub.ended \/ db.sub.status # "active"
           \/ Exists(Renewal) /\ db.rows[Renewal].unresolved

\* Once the customer stops coming back, a payment nobody finishes is settled,
\* given up or marked UNRESOLVED, so its credit comes back (payments.py:46-53).
OpenSettles ==
    <>[](at["return"] = "idle") =>
        \A p \in Payments :
            (Exists(p) /\ db.rows[p].status = "pending")
                ~> (Exists(p) /\ (db.rows[p].status # "pending" \/ db.rows[p].unresolved))

\* Neither the period nor a payment is left hanging.
NothingHangs == PeriodAnswered /\ OpenSettles

\* A period that credit pays for is not charged to the card as well
\* (renewals.py:7-8).  Two overlapping runs break it.
CreditOrCard == \A p \in Payments : db.granted[p] > 0 /\ db.rows[p].provider = "credit" => charges[p] = 0

\* A payment once paid stays paid (payments.py:4-6, 475-477).  fail, which saves
\* the copy its caller read, breaks it.
PaidStaysPaid ==
    [][\A p \in Payments : Exists(p) /\ db.rows[p].status = "succeeded" => db'.rows[p].status = "succeeded"]_vars

\* A subscription whose paid period goes on is not past due.  The failure of a
\* renewal payment, after a checkout has paid for the period, breaks it.
PaidNotPastDue == db.sub.status = "past_due" => db.sub.ended
=============================================================================
