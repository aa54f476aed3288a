------------------------- MODULE OutboundSendProofs -------------------------
(***************************************************************************)
(* OutboundSend for every number of messages, drains and retries: types,   *)
(* that Meta takes a metered message at most once and counted, and what    *)
(* the counter of the plan's units counts.                                 *)
(*                                                                         *)
(* The argument is Inv.  The claim gives a message to one drain            *)
(* (ClaimsOK).  A drain between its reservation and Meta's answer holds an *)
(* open unit and a fresh SENDING row (UnitsOK), so no other step settles   *)
(* it.  Once Meta took the message its unit is committed, or is about to   *)
(* be: open, the row SENDING, and nobody but a drain that waits to record  *)
(* the answer at work on it (TakenOK).  A drain that comes later finds the *)
(* unit open or committed: committed sends it to "doubt", open means the   *)
(* row is SENDING, which no drain claims (RowsOK).                         *)
(***************************************************************************)
EXTENDS OutboundSend, FiniteSetTheorems, TLAPS

\* A drain at work has a claimed message that no other drain has.
ClaimsOK ==
    /\ \A d \in Drains : pc[d] = "idle" <=> my[d].m = None
    /\ \A d \in Drains : my[d].m # None => my[d].m \in claims
    /\ \A d, e \in Drains : d # e /\ my[d].m # None => my[d].m # my[e].m

\* Only queued messages are claimed or reported, only waiting ones sent.
RowsOK ==
    /\ \A d \in Drains : my[d].m # None => row[my[d].m].status # "absent"
    /\ \A d \in Drains : pc[d] \in {"ready", "go"} => row[my[d].m].status # "sending"
    /\ \A m \in known : row[m].status # "absent"
    /\ \A m \in Msgs : rec[m] = "pending" => row[m].status = "absent"
    /\ camp.status \in Editable => \A m \in Msgs : row[m].status = "absent"

\* What a metered drain holds where.
UnitsOK ==
    /\ \A d \in Drains : pc[d] \in {"go", "call", "commit"} => my[d].mine /\ hold[my[d].m] = "reserved"
    /\ \A d \in Drains : pc[d] \in {"call", "commit"} =>
                             row[my[d].m].status = "sending" /\ ~row[my[d].m].stale
    /\ \A d \in Drains : pc[d] \in {"log", "sent"} => hold[my[d].m] = "committed"
    /\ \A m \in known : hold[m] = "committed"

\* Meta takes a message once, and then its unit is or will be committed.
TakenOK ==
    \A m \in Msgs :
        /\ accepted[m] <= 1
        /\ accepted[m] > 0 =>
             \/ hold[m] = "committed"
             \/ /\ hold[m] = "reserved" /\ row[m].status = "sending"
                /\ \A d \in Drains : my[d].m = m => pc[d] \in {"commit", "doubt"}

Inv == TypeOK /\ ClaimsOK /\ RowsOK /\ (Protected => UnitsOK /\ TakenOK)

-----------------------------------------------------------------------------
\* A drain at work has a message.
LEMMA Facts ==
  ASSUME Inv, NEW d \in Drains, pc[d] # "idle"
  PROVE  my[d].m \in Msgs
BY DEF Inv, TypeOK, TypeDrains, ClaimsOK

\* mark_failed writes one row: FAILED, or QUEUED with one attempt more.
LEMMA MarkedTyped ==
  ASSUME TypeQueue, NEW m \in Msgs, NEW terminal \in BOOLEAN
  PROVE  /\ MarkFailed(m, terminal) \in [Msgs -> Message]
         /\ MarkFailed(m, terminal)[m].status \in {"failed", "queued"}
         /\ \A n \in Msgs \ {m} : MarkFailed(m, terminal)[n] = row[n]
<1> DEFINE tries == IF row[m].tries < MaxAttempts THEN row[m].tries + 1 ELSE MaxAttempts
           over == terminal \/ tries >= MaxAttempts
           new == [row[m] EXCEPT !.tries = tries, !.due = over,
                                 !.status = IF over THEN "failed" ELSE "queued"]
<1>1. tries \in 0..MaxAttempts /\ over \in BOOLEAN
  BY OutboundAssumption DEF TypeQueue, Message
<1>2. new \in Message /\ new.status \in {"failed", "queued"}
  BY <1>1 DEF TypeQueue, Message, Waiting
<1>3. MarkFailed(m, terminal) = [row EXCEPT ![m] = new]
  BY DEF MarkFailed, TypeQueue
<1> QED
  BY <1>2, <1>3 DEF TypeQueue

\* The request: Meta took it or did not, and an unsettled unit is never "failed".
LEMMA CallShape ==
  ASSUME Inv, NEW d \in Drains, Call(d)
  PROVE  \E at \in {"commit", "failed", "doubt"}, said \in {my[d].said, "refused", "busy"} :
            /\ my[d].m \in Msgs /\ pc[d] = "call"
            /\ pc' = [pc EXCEPT ![d] = at] /\ my' = [my EXCEPT ![d].said = said]
            /\ accepted' \in {accepted, Taken(my[d].m)}
            /\ my[d].mine /\ at = "failed" => accepted' = accepted
            /\ UNCHANGED <<claims, row, known, hold, rec, camp>>
<1>1. my[d].m \in Msgs /\ pc[d] = "call" /\ UNCHANGED <<claims, row, known, hold, rec, camp>>
  BY Facts DEF Call, Goto, queueVars, meterVars, campVars
<1>2. my = [my EXCEPT ![d].said = my[d].said]
  BY DEF Inv, TypeOK, TypeDrains
<1>3. CASE accepted' = Taken(my[d].m) /\ Goto(d, "commit") /\ UNCHANGED my
  BY <1>1, <1>2, <1>3 DEF Goto
<1>4. CASE /\ \E said \in {"refused", "busy"} : my' = [my EXCEPT ![d].said = said]
           /\ Goto(d, "failed") /\ UNCHANGED accepted
  BY <1>1, <1>4 DEF Goto
<1>5. CASE /\ accepted' \in {accepted, Taken(my[d].m)}
           /\ my' = [my EXCEPT ![d].said = "busy"] /\ Goto(d, Doubtful(d))
  BY <1>1, <1>5 DEF Goto, Doubtful
<1> QED
  BY <1>3, <1>4, <1>5 DEF Call

\* Time changes no status, and no row a drain works on gets stale.
LEMMA TickShape ==
  ASSUME Inv, NEW m \in Msgs, Tick(m)
  PROVE  /\ UNCHANGED <<pc, my, claims, known, hold, rec, camp, accepted>>
         /\ row' \in [Msgs -> Message]
         /\ \A n \in Msgs : row'[n].status = row[n].status
         /\ \A n \in Msgs : row'[n].stale # row[n].stale => Unworked(n)
<1>1. UNCHANGED <<pc, my, claims, known, hold, rec, camp, accepted>>
  BY DEF Tick, meterVars, drainVars, campVars
<1>2. \/ row' = [row EXCEPT ![m].due = TRUE]
      \/ row' = [row EXCEPT ![m].stale = TRUE] /\ Unworked(m)
  BY DEF Tick
<1>3. \E r \in Message : /\ row' = [row EXCEPT ![m] = r] /\ r.status = row[m].status
                         /\ r.stale # row[m].stale => Unworked(m)
  <2>1. row[m] \in Message
    BY DEF Inv, TypeOK, TypeQueue
  <2>2. CASE row' = [row EXCEPT ![m].due = TRUE]
    <3> DEFINE r == [row[m] EXCEPT !.due = TRUE]
    <3>1. r \in Message /\ r.status = row[m].status /\ r.stale = row[m].stale
      BY <2>1 DEF Message
    <3> QED
      BY <2>2, <3>1
  <2>3. CASE row' = [row EXCEPT ![m].stale = TRUE] /\ Unworked(m)
    <3> DEFINE r == [row[m] EXCEPT !.stale = TRUE]
    <3>1. r \in Message /\ r.status = row[m].status
      BY <2>1 DEF Message
    <3> QED
      BY <2>3, <3>1
  <2> QED
    BY <1>2, <2>2, <2>3
<1> QED
  BY <1>1, <1>3 DEF Inv, TypeOK, TypeQueue

\* A failed attempt touches its own row and drain only.
LEMMA FailShape ==
  ASSUME Inv, NEW d \in Drains, Fail(d)
  PROVE  /\ my[d].m \in Msgs /\ pc[d] = "failed"
         /\ row' \in [Msgs -> Message]
         /\ row'[my[d].m].status \in {"failed", "queued"}
         /\ \A n \in Msgs \ {my[d].m} : row'[n] = row[n]
         /\ \E at \in {"idle", "release"} : pc' = [pc EXCEPT ![d] = at]
         /\ my' \in {my, [my EXCEPT ![d] = Idle]}
         /\ UNCHANGED <<known, hold, rec, camp, accepted>>
<1>1. /\ my[d].m \in Msgs /\ pc[d] = "failed" /\ (my[d].said = "refused") \in BOOLEAN
      /\ row' = MarkFailed(my[d].m, my[d].said = "refused")
      /\ UNCHANGED <<known, hold, rec, camp, accepted>>
  BY Facts DEF Fail, meterVars, campVars
<1>2. Leave(d) \/ (Goto(d, "release") /\ UNCHANGED my)
  BY DEF Fail
<1>3. /\ \E at \in {"idle", "release"} : pc' = [pc EXCEPT ![d] = at]
      /\ my' \in {my, [my EXCEPT ![d] = Idle]}
  BY <1>2 DEF Leave, Goto
<1>4. /\ row' \in [Msgs -> Message]
      /\ row'[my[d].m].status \in {"failed", "queued"}
      /\ \A n \in Msgs \ {my[d].m} : row'[n] = row[n]
  BY <1>1, MarkedTyped DEF Inv, TypeOK
<1> QED
  BY <1>1, <1>3, <1>4

\* Steps that move no drain to "ready" or "go", and revive no row, keep RowsOK.
LEMMA RowsFrame ==
  ASSUME Inv, UNCHANGED known,
         \A e \in Drains : my'[e].m # None => my'[e].m = my[e].m,
         \A e \in Drains : pc'[e] \in {"ready", "go"} => pc'[e] = pc[e] /\ my'[e].m = my[e].m,
         \A n \in Msgs : \/ row'[n].status = row[n].status
                         \/ row[n].status # "absent" /\ row'[n].status \notin {"absent", "sending"},
         \A n \in Msgs : rec'[n] = "pending" => rec[n] = "pending",
         camp'.status \in Editable => camp.status \in Editable
  PROVE  RowsOK'
<1>1. \A e \in Drains : my[e].m \in Msgs \cup {None} /\ (pc[e] \in {"ready", "go"} => my[e].m \in Msgs)
  BY Facts DEF Inv, TypeOK, TypeDrains
<1>2. known \subseteq Msgs
  BY DEF Inv, TypeOK, TypeQueue
<1> QED
  BY <1>1, <1>2 DEF Inv, RowsOK

\* Steps that settle no unit and leave the rows being sent alone keep UnitsOK.
LEMMA UnitsFrame ==
  ASSUME Inv, UnitsOK, UNCHANGED <<known, hold>>,
         \A e \in Drains : pc'[e] \in {"go", "call", "commit", "log", "sent"}
              => /\ pc'[e] = pc[e] \/ (pc[e] = "call" /\ pc'[e] = "commit")
                 /\ my'[e].m = my[e].m /\ my'[e].mine = my[e].mine,
         \A e \in Drains : pc[e] \in {"call", "commit"} =>
              \/ row'[my[e].m] = row[my[e].m]
              \/ pc'[e] \notin {"call", "commit"}
              \/ /\ row'[my[e].m].status = row[my[e].m].status
                 /\ row'[my[e].m].stale = row[my[e].m].stale
  PROVE  UnitsOK'
BY DEF UnitsOK

\* Steps that leave Meta, the units and the SENDING rows alone keep TakenOK.
LEMMA TakenFrame ==
  ASSUME Inv, TakenOK, UNCHANGED <<accepted, hold>>,
         \A n \in Msgs : row[n].status = "sending" =>
              \/ row'[n].status = "sending"
              \/ \E e \in Drains : my[e].m = n /\ pc[e] \notin {"commit", "doubt"},
         \A e \in Drains : my'[e].m # None =>
              my'[e].m = my[e].m /\ (pc'[e] = pc[e] \/ pc[e] \notin {"commit", "doubt"})
  PROVE  TakenOK'
BY OutboundAssumption DEF TakenOK

\* A chunk queues pending recipients only, and leaves no draft behind.
LEMMA ChunkShape ==
  ASSUME Inv, ProcessChunk
  PROVE  /\ UNCHANGED <<pc, my, claims, known, hold, accepted>>
         /\ row' \in [Msgs -> Message]
         /\ \A n \in Msgs : row'[n] # row[n] => rec[n] = "pending" /\ row'[n].status = "queued"
         /\ \A n \in Msgs : rec'[n] = "pending" => rec[n] = "pending" /\ row'[n] = row[n]
         /\ camp'.status \in Editable => camp.status \in Editable /\ row' = row
<1>1. UNCHANGED <<pc, my, claims, known, hold, accepted>>
  BY DEF ProcessChunk, meterVars, drainVars
<1>2. CASE UNCHANGED <<row, rec, camp>>
  BY <1>1, <1>2 DEF Inv, TypeOK, TypeQueue
<1>3. CASE camp.status \in Active /\ \E chunk \in SUBSET Msgs : \E sent \in SUBSET chunk :
               ChunkOfPending(chunk) /\ Chunk(chunk, sent)
  <2>1. PICK chunk \in SUBSET Msgs, sent \in SUBSET Msgs :
            sent \subseteq chunk /\ ChunkOfPending(chunk) /\ Chunk(chunk, sent)
    BY <1>3
  <2>2. /\ \A n \in chunk : n \in Msgs /\ rec[n] = "pending"
        /\ sent \subseteq chunk
    BY <2>1 DEF ChunkOfPending, Pending
  <2>3. QueuedRow \in Message /\ QueuedRow.status = "queued"
    <3>1. NewRow \in Message
      BY OutboundAssumption DEF NewRow, Message, Waiting
    <3> QED
      BY <3>1 DEF QueuedRow, Message, Waiting
  <2>4. /\ row' = [n \in Msgs |-> IF n \in sent THEN QueuedRow ELSE row[n]]
        /\ rec' = [n \in Msgs |-> IF n \in sent THEN "queued"
                                  ELSE IF n \in chunk THEN "skipped" ELSE rec[n]]
    BY <2>1 DEF Chunk
  <2>5. camp'.status \notin Editable
    BY <1>3, <2>1 DEF Chunk, Active, Editable, Inv, TypeOK, TypeCampaign, Campaign
  <2> QED
    BY <1>1, <2>2, <2>3, <2>4, <2>5 DEF Inv, TypeOK, TypeQueue
<1> QED
  BY <1>2, <1>3 DEF ProcessChunk


\* One lemma per group of variables; in each, one step per action that changes one.
LEMMA QueueTyped ==
  ASSUME Inv, Next PROVE TypeQueue'
<1>1. ASSUME NEW d \in Drains, Refuse(d) PROVE TypeQueue'
  <2>1. my[d].m \in Msgs
    BY <1>1, Facts DEF Refuse
  <2> QED
    BY <1>1, <2>1, MarkedTyped DEF Refuse, Inv, TypeOK, TypeQueue
<1>2. ASSUME NEW d \in Drains, Hold(d) PROVE TypeQueue'
  BY <1>2, Facts DEF Hold, Inv, TypeOK, TypeQueue, Message, Waiting, LogStatus
<1>3. ASSUME NEW d \in Drains, Start(d) PROVE TypeQueue'
  BY <1>3, Facts DEF Start, Inv, TypeOK, TypeQueue, Message, Waiting, LogStatus
<1>4. ASSUME NEW d \in Drains, LogSent(d) PROVE TypeQueue'
  BY <1>4, Facts DEF LogSent, Inv, TypeOK, TypeQueue, Message, Waiting, LogStatus
<1>5. ASSUME NEW d \in Drains, RowSent(d) PROVE TypeQueue'
  BY <1>5, Facts DEF RowSent, Inv, TypeOK, TypeQueue, Message, Waiting
<1>6. ASSUME NEW d \in Drains, Raise(d) PROVE TypeQueue'
  BY <1>6, Facts DEF Raise, Inv, TypeOK, TypeQueue, Message, Waiting
<1>7. ASSUME NEW d \in Drains, Fail(d) PROVE TypeQueue'
  <2>1. my[d].m \in Msgs /\ (my[d].said = "refused") \in BOOLEAN
    BY <1>7, Facts DEF Fail
  <2>2. row' = MarkFailed(my[d].m, my[d].said = "refused") /\ UNCHANGED <<log, known>>
    BY <1>7 DEF Fail
  <2> QED
    BY <2>1, <2>2, MarkedTyped DEF Inv, TypeOK, TypeQueue
<1>8. ASSUME NEW d \in Drains, PutOff(d) PROVE TypeQueue'
  BY <1>8, Facts DEF PutOff, Inv, TypeOK, TypeQueue, Message, Waiting
<1>9. ASSUME NEW d \in Drains, Notify(d) PROVE TypeQueue'
  BY <1>9, Facts DEF Notify, Logged, Inv, TypeOK, TypeQueue, Message, Waiting, LogStatus
<1>10. ASSUME NEW d \in Drains, Doubt(d) PROVE TypeQueue'
  BY <1>10, Facts DEF Doubt, Unconfirmed, Inv, TypeOK, TypeQueue, Message, Waiting,
         LogStatus
<1>11. ASSUME NEW m \in Msgs, RecoverSending(m) PROVE TypeQueue'
  BY <1>11, Facts DEF RecoverSending, Unconfirmed, Inv, TypeOK, TypeQueue, Message, Waiting,
         LogStatus
<1>12. ASSUME NEW m \in Msgs, Defer(m) PROVE TypeQueue'
  BY <1>12, Facts DEF Defer, Inv, TypeOK, TypeQueue, Message, Waiting
<1>13. ASSUME NEW m \in Msgs, Tick(m) PROVE TypeQueue'
  BY <1>13, TickShape DEF Tick, Inv, TypeOK, TypeQueue
<1>14. ASSUME NEW m \in Msgs, CancelStaleHold(m) PROVE TypeQueue'
  BY <1>14, Facts DEF CancelStaleHold, Unworked, Inv, TypeOK, TypeQueue, Message, Waiting
<1>15. ASSUME NEW m \in Msgs, ReportFound(m) PROVE TypeQueue'
  BY <1>15, Facts DEF ReportFound, Rank, Inv, TypeOK, TypeQueue, Message, Waiting, LogStatus
<1>16. ASSUME ProcessChunk PROVE TypeQueue'
  BY <1>16, ChunkShape DEF ProcessChunk, Inv, TypeOK, TypeQueue
<1>17. ASSUME WithdrawWrite PROVE TypeQueue'
  BY <1>17, Facts DEF WithdrawWrite, Logged, Pending, Inv, TypeOK, TypeQueue, Message,
         Waiting, LogStatus
<1>18. ASSUME NEW d \in Drains,
            NoProvider(d) \/ ReserveUnit(d) \/ Unmetered(d) \/ Brake(d) \/ Call(d) \/ Commit(d) \/ Release(d) \/
               Uncount(d) \/ Crash(d)
      PROVE TypeQueue'
  BY <1>18, Facts DEF NoProvider, ReserveUnit, Unmetered, Brake, Call, Commit, Release,
         Uncount, Crash, queueVars, Inv, TypeOK, TypeQueue, Message, Waiting
<1>19. ASSUME NEW d \in Drains, NEW m \in Msgs,
            Claim(d, m)
      PROVE TypeQueue'
  BY <1>19, Facts DEF Claim, queueVars, Inv, TypeOK, TypeQueue, Message, Waiting
<1>20. ASSUME NEW m \in Msgs,
            CommitStale(m) \/ Expire(m) \/ Report(m) \/ ReportDropped(m)
      PROVE TypeQueue'
  BY <1>20, Facts DEF CommitStale, Expire, Report, ReportDropped, queueVars, Inv, TypeOK,
         TypeQueue, Message, Waiting
<1>21. ASSUME Schedule \/ SaveDraft \/ StartCampaign \/ TakeTask \/ ChunkFails \/ CampaignFailed \/ SenderCrash \/
               Sweep \/ Pause \/ Resume \/ WithdrawRead \/ CampTick
      PROVE TypeQueue'
  BY <1>21, Facts DEF Schedule, SaveDraft, StartCampaign, TakeTask, ChunkFails,
         CampaignFailed, SenderCrash, Sweep, Pause, Resume, WithdrawRead, CampTick,
         queueVars, Inv, TypeOK, TypeQueue, Message, Waiting
<1> QED
  BY <1>1, <1>2, <1>3, <1>4, <1>5, <1>6, <1>7, <1>8, <1>9, <1>10, <1>11, <1>12, <1>13,
     <1>14, <1>15, <1>16, <1>17, <1>18, <1>19, <1>20, <1>21 DEF Next, Work, Campaigns

\* Reservations and the counter.
LEMMA MeterTyped ==
  ASSUME Inv, Next PROVE TypeMeter'
<1>1. ASSUME NEW d \in Drains, ReserveUnit(d) PROVE TypeMeter'
  BY <1>1, Facts DEF ReserveUnit, Reserve, HasRoom, Inv, TypeOK, TypeMeter, meterVars
<1>2. ASSUME NEW d \in Drains, Brake(d) PROVE TypeMeter'
  BY <1>2, Facts DEF Brake, Settled, Reserved, Inv, TypeOK, TypeMeter
<1>3. ASSUME NEW d \in Drains, Commit(d) PROVE TypeMeter'
  BY <1>3, Facts DEF Commit, Settled, Reserved, Inv, TypeOK, TypeMeter
<1>4. ASSUME NEW d \in Drains, Release(d) PROVE TypeMeter'
  BY <1>4, Facts DEF Release, Settled, Reserved, Inv, TypeOK, TypeMeter
<1>5. ASSUME NEW d \in Drains, Uncount(d) PROVE TypeMeter'
  BY <1>5, Facts DEF Uncount, Inv, TypeOK, TypeMeter
<1>6. ASSUME NEW d \in Drains, Doubt(d) PROVE TypeMeter'
  BY <1>6, Facts DEF Doubt, Unconfirmed, Settled, Reserved, Inv, TypeOK, TypeMeter
<1>7. ASSUME NEW m \in Msgs, CommitStale(m) PROVE TypeMeter'
  BY <1>7, Facts DEF CommitStale, Settled, Reserved, Inv, TypeOK, TypeMeter
<1>8. ASSUME NEW m \in Msgs, RecoverSending(m) PROVE TypeMeter'
  BY <1>8, Facts DEF RecoverSending, Unconfirmed, Settled, Reserved, Inv, TypeOK, TypeMeter
<1>9. ASSUME NEW d \in Drains,
            Refuse(d) \/ NoProvider(d) \/ Unmetered(d) \/ Hold(d) \/ Start(d) \/ Call(d) \/ LogSent(d) \/ RowSent(d) \/
               Raise(d) \/ Fail(d) \/ PutOff(d) \/ Notify(d) \/ Crash(d)
      PROVE TypeMeter'
  BY <1>9, Facts DEF Refuse, NoProvider, Unmetered, Hold, Start, Call, LogSent, RowSent,
         Raise, Fail, PutOff, Notify, Crash, meterVars, Inv, TypeOK, TypeMeter
<1>10. ASSUME NEW d \in Drains, NEW m \in Msgs,
            Claim(d, m)
      PROVE TypeMeter'
  BY <1>10, Facts DEF Claim, meterVars, Inv, TypeOK, TypeMeter
<1>11. ASSUME NEW m \in Msgs,
            Defer(m) \/ Expire(m) \/ Tick(m) \/ CancelStaleHold(m) \/ Report(m) \/ ReportFound(m) \/
               ReportDropped(m)
      PROVE TypeMeter'
  BY <1>11, Facts DEF Defer, Expire, Tick, CancelStaleHold, Report, ReportFound,
         ReportDropped, meterVars, Inv, TypeOK, TypeMeter
<1>12. ASSUME Schedule \/ SaveDraft \/ StartCampaign \/ TakeTask \/ ProcessChunk \/ ChunkFails \/ CampaignFailed \/
               SenderCrash \/ Sweep \/ Pause \/ Resume \/ WithdrawRead \/ WithdrawWrite \/ CampTick
      PROVE TypeMeter'
  BY <1>12, Facts DEF Schedule, SaveDraft, StartCampaign, TakeTask, ProcessChunk,
         ChunkFails, CampaignFailed, SenderCrash, Sweep, Pause, Resume, WithdrawRead,
         WithdrawWrite, CampTick, meterVars, Inv, TypeOK, TypeMeter
<1> QED
  BY <1>1, <1>2, <1>3, <1>4, <1>5, <1>6, <1>7, <1>8, <1>9, <1>10, <1>11, <1>12 DEF Next, Work, Campaigns

\* Drains and their claims.
LEMMA DrainsTyped ==
  ASSUME Inv, Next PROVE TypeDrains'
<1>1. ASSUME NEW d \in Drains, Refuse(d) PROVE TypeDrains'
  BY <1>1 DEF Refuse, Goto, MarkFailed, Inv, TypeOK, TypeDrains, Idle
<1>2. ASSUME NEW d \in Drains, NoProvider(d) PROVE TypeDrains'
  BY <1>2 DEF NoProvider, Goto, Inv, TypeOK, TypeDrains, Idle
<1>3. ASSUME NEW d \in Drains, ReserveUnit(d) PROVE TypeDrains'
  BY <1>3 DEF ReserveUnit, Goto, Reserve, HasRoom, Inv, TypeOK, TypeDrains, Idle, meterVars
<1>4. ASSUME NEW d \in Drains, Unmetered(d) PROVE TypeDrains'
  BY <1>4 DEF Unmetered, Goto, Inv, TypeOK, TypeDrains, Idle
<1>5. ASSUME NEW d \in Drains, Hold(d) PROVE TypeDrains'
  BY <1>5 DEF Hold, Leave, Inv, TypeOK, TypeDrains, Idle
<1>6. ASSUME NEW d \in Drains, Brake(d) PROVE TypeDrains'
  BY <1>6 DEF Brake, Goto, Settled, Inv, TypeOK, TypeDrains, Idle
<1>7. ASSUME NEW d \in Drains, Start(d) PROVE TypeDrains'
  BY <1>7 DEF Start, Goto, Inv, TypeOK, TypeDrains, Idle
<1>8. ASSUME NEW d \in Drains, Call(d) PROVE TypeDrains'
  BY <1>8 DEF Call, Goto, Doubtful, Inv, TypeOK, TypeDrains, Idle
<1>9. ASSUME NEW d \in Drains, Commit(d) PROVE TypeDrains'
  BY <1>9 DEF Commit, Goto, Settled, Inv, TypeOK, TypeDrains, Idle
<1>10. ASSUME NEW d \in Drains, LogSent(d) PROVE TypeDrains'
  BY <1>10 DEF LogSent, Goto, Inv, TypeOK, TypeDrains, Idle
<1>11. ASSUME NEW d \in Drains, RowSent(d) PROVE TypeDrains'
  BY <1>11 DEF RowSent, Leave, Inv, TypeOK, TypeDrains, Idle
<1>12. ASSUME NEW d \in Drains, Raise(d) PROVE TypeDrains'
  BY <1>12 DEF Raise, Goto, Inv, TypeOK, TypeDrains, Idle
<1>13. ASSUME NEW d \in Drains, Fail(d) PROVE TypeDrains'
  <2>1. Leave(d) \/ (Goto(d, "release") /\ UNCHANGED my)
    BY <1>13 DEF Fail
  <2> QED
    <3>1. CASE Leave(d)
      BY <3>1 DEF Leave, Inv, TypeOK, TypeDrains, Idle
    <3>2. CASE Goto(d, "release") /\ UNCHANGED my
      BY <3>2 DEF Goto, Inv, TypeOK, TypeDrains
    <3> QED
      BY <2>1, <3>1, <3>2
<1>14. ASSUME NEW d \in Drains, Release(d) PROVE TypeDrains'
  BY <1>14 DEF Release, Goto, Settled, Inv, TypeOK, TypeDrains, Idle
<1>15. ASSUME NEW d \in Drains, Uncount(d) PROVE TypeDrains'
  BY <1>15 DEF Uncount, Goto, Inv, TypeOK, TypeDrains, Idle
<1>16. ASSUME NEW d \in Drains, PutOff(d) PROVE TypeDrains'
  BY <1>16 DEF PutOff, Leave, Inv, TypeOK, TypeDrains, Idle
<1>17. ASSUME NEW d \in Drains, Notify(d) PROVE TypeDrains'
  BY <1>17 DEF Notify, Leave, Inv, TypeOK, TypeDrains, Idle
<1>18. ASSUME NEW d \in Drains, Doubt(d) PROVE TypeDrains'
  BY <1>18 DEF Doubt, Leave, Settled, Inv, TypeOK, TypeDrains, Idle
<1>19. ASSUME NEW d \in Drains, Crash(d) PROVE TypeDrains'
  BY <1>19 DEF Crash, Inv, TypeOK, TypeDrains, Idle
<1>20. ASSUME NEW d \in Drains, NEW m \in Msgs, Claim(d, m) PROVE TypeDrains'
  BY <1>20 DEF Claim, Inv, TypeOK, TypeDrains, Idle
<1>21. ASSUME NEW m \in Msgs, Expire(m) PROVE TypeDrains'
  BY <1>21 DEF Expire, Unworked, Inv, TypeOK, TypeDrains, Idle
<1>22. ASSUME NEW m \in Msgs,
            CommitStale(m) \/ RecoverSending(m) \/ Defer(m) \/ Tick(m) \/ CancelStaleHold(m) \/ Report(m) \/
               ReportFound(m) \/ ReportDropped(m)
      PROVE TypeDrains'
  BY <1>22 DEF CommitStale, RecoverSending, Defer, Tick, CancelStaleHold, Report,
         ReportFound, ReportDropped, drainVars, Inv, TypeOK, TypeDrains, Idle
<1>23. ASSUME Schedule \/ SaveDraft \/ StartCampaign \/ TakeTask \/ ProcessChunk \/ ChunkFails \/ CampaignFailed \/
               SenderCrash \/ Sweep \/ Pause \/ Resume \/ WithdrawRead \/ WithdrawWrite \/ CampTick
      PROVE TypeDrains'
  BY <1>23 DEF Schedule, SaveDraft, StartCampaign, TakeTask, ProcessChunk, ChunkFails,
         CampaignFailed, SenderCrash, Sweep, Pause, Resume, WithdrawRead, WithdrawWrite,
         CampTick, drainVars, Inv, TypeOK, TypeDrains, Idle
<1> QED
  BY <1>1, <1>2, <1>3, <1>4, <1>5, <1>6, <1>7, <1>8, <1>9, <1>10, <1>11, <1>12, <1>13,
     <1>14, <1>15, <1>16, <1>17, <1>18, <1>19, <1>20, <1>21, <1>22, <1>23 DEF Next, Work, Campaigns

\* The campaign, its recipients, tasks and withdrawal.
LEMMA CampaignTyped ==
  ASSUME Inv, Next PROVE TypeCampaign'
<1>1. ASSUME NEW d \in Drains, Notify(d) PROVE TypeCampaign'
  BY <1>1, OutboundAssumption DEF Notify, Notified, Inv, TypeOK, TypeCampaign, Campaign,
         Active, Editable
<1>2. ASSUME NEW m \in Msgs, CancelStaleHold(m) PROVE TypeCampaign'
  BY <1>2, OutboundAssumption DEF CancelStaleHold, Inv, TypeOK, TypeCampaign, Campaign,
         Active, Editable
<1>3. ASSUME NEW m \in Msgs, ReportFound(m) PROVE TypeCampaign'
  BY <1>3, OutboundAssumption DEF ReportFound, Notified, Inv, TypeOK, TypeCampaign,
         Campaign, Active, Editable
<1>4. ASSUME Schedule PROVE TypeCampaign'
  BY <1>4, OutboundAssumption DEF Schedule, Inv, TypeOK, TypeCampaign, Campaign, Active,
         Editable
<1>5. ASSUME SaveDraft PROVE TypeCampaign'
  BY <1>5, OutboundAssumption DEF SaveDraft, Inv, TypeOK, TypeCampaign, Campaign, Active,
         Editable
<1>6. ASSUME StartCampaign PROVE TypeCampaign'
  <2>1. camp' \in Campaign
    BY <1>6 DEF StartCampaign, Inv, TypeOK, TypeCampaign, Campaign, Active, Editable
  <2>2. tasks' \in 0..MaxTasks
    BY <1>6, OutboundAssumption DEF StartCampaign, Enqueue, Inv, TypeOK, TypeCampaign
  <2>3. rec' \in [Msgs -> {"none", "pending", "queued", "skipped", "failed"}]
    BY <1>6 DEF StartCampaign, Inv, TypeOK, TypeCampaign
  <2> QED
    BY <1>6, <2>1, <2>2, <2>3 DEF StartCampaign, Inv, TypeOK, TypeCampaign
<1>7. ASSUME TakeTask PROVE TypeCampaign'
  <2>1. tasks' = tasks - 1 /\ tasks > 0 /\ UNCHANGED <<rec, seen>>
    BY <1>7 DEF TakeTask
  <2>2. \/ camp' = [camp EXCEPT !.status = "sending", !.started = TRUE] /\ sender' = "chunk"
        \/ UNCHANGED <<camp, sender>>
    BY <1>7 DEF TakeTask
  <2>3. camp' \in Campaign /\ sender' \in {"idle", "chunk", "fail"}
    BY <2>2 DEF Inv, TypeOK, TypeCampaign, Campaign, Active
  <2>4. tasks' \in 0..MaxTasks
    BY <2>1, OutboundAssumption DEF Inv, TypeOK, TypeCampaign
  <2> QED
    BY <2>1, <2>3, <2>4 DEF Inv, TypeOK, TypeCampaign
<1>8. ASSUME ProcessChunk PROVE TypeCampaign'
  <2>1. camp' \in Campaign
    BY <1>8 DEF ProcessChunk, Chunk, Inv, TypeOK, TypeCampaign, Campaign, Active, Editable
  <2>2. tasks' \in 0..MaxTasks
    BY <1>8, OutboundAssumption DEF ProcessChunk, Enqueue, Inv, TypeOK, TypeCampaign
  <2>3. rec' \in [Msgs -> {"none", "pending", "queued", "skipped", "failed"}]
    BY <1>8 DEF ProcessChunk, Chunk, Inv, TypeOK, TypeCampaign
  <2> QED
    BY <1>8, <2>1, <2>2, <2>3 DEF ProcessChunk, Inv, TypeOK, TypeCampaign
<1>9. ASSUME ChunkFails PROVE TypeCampaign'
  BY <1>9, OutboundAssumption DEF ChunkFails, Inv, TypeOK, TypeCampaign, Campaign, Active,
         Editable
<1>10. ASSUME CampaignFailed PROVE TypeCampaign'
  BY <1>10, OutboundAssumption DEF CampaignFailed, Inv, TypeOK, TypeCampaign, Campaign,
         Active, Editable
<1>11. ASSUME SenderCrash PROVE TypeCampaign'
  BY <1>11, OutboundAssumption DEF SenderCrash, Inv, TypeOK, TypeCampaign, Campaign, Active,
         Editable
<1>12. ASSUME Sweep PROVE TypeCampaign'
  BY <1>12, OutboundAssumption DEF Sweep, Enqueue, Inv, TypeOK, TypeCampaign, Campaign,
         Active, Editable
<1>13. ASSUME Pause PROVE TypeCampaign'
  BY <1>13, OutboundAssumption DEF Pause, Inv, TypeOK, TypeCampaign, Campaign, Active,
         Editable
<1>14. ASSUME Resume PROVE TypeCampaign'
  BY <1>14, OutboundAssumption DEF Resume, Enqueue, Inv, TypeOK, TypeCampaign, Campaign,
         Active, Editable
<1>15. ASSUME WithdrawRead PROVE TypeCampaign'
  BY <1>15, OutboundAssumption DEF WithdrawRead, WaitingMsgs, Inv, TypeOK, TypeCampaign,
         Campaign, Active, Editable
<1>16. ASSUME WithdrawWrite PROVE TypeCampaign'
  BY <1>16, OutboundAssumption DEF WithdrawWrite, Pending, Inv, TypeOK, TypeCampaign,
         Campaign, Active, Editable
<1>17. ASSUME CampTick PROVE TypeCampaign'
  <2>1. camp' = [camp EXCEPT !.due = TRUE] \/ camp' = [camp EXCEPT !.quiet = TRUE]
    BY <1>17 DEF CampTick
  <2>2. camp' \in Campaign
    BY <2>1 DEF Inv, TypeOK, TypeCampaign, Campaign
  <2> QED
    BY <1>17, <2>2 DEF CampTick, Inv, TypeOK, TypeCampaign
<1>18. ASSUME NEW d \in Drains,
            Refuse(d) \/ NoProvider(d) \/ ReserveUnit(d) \/ Unmetered(d) \/ Hold(d) \/ Brake(d) \/ Start(d) \/
               Call(d) \/ Commit(d) \/ LogSent(d) \/ RowSent(d) \/ Raise(d) \/ Fail(d) \/ Release(d) \/
               Uncount(d) \/ PutOff(d) \/ Doubt(d) \/ Crash(d)
      PROVE TypeCampaign'
  BY <1>18, OutboundAssumption DEF Refuse, NoProvider, ReserveUnit, Unmetered, Hold, Brake,
         Start, Call, Commit, LogSent, RowSent, Raise, Fail, Release, Uncount, PutOff,
         Doubt, Crash, campVars, Inv, TypeOK, TypeCampaign, Campaign, Active, Editable
<1>19. ASSUME NEW d \in Drains, NEW m \in Msgs,
            Claim(d, m)
      PROVE TypeCampaign'
  BY <1>19, OutboundAssumption DEF Claim, campVars, Inv, TypeOK, TypeCampaign, Campaign,
         Active, Editable
<1>20. ASSUME NEW m \in Msgs,
            CommitStale(m) \/ RecoverSending(m) \/ Defer(m) \/ Expire(m) \/ Tick(m) \/ Report(m) \/ ReportDropped(m)
      PROVE TypeCampaign'
  BY <1>20, OutboundAssumption DEF CommitStale, RecoverSending, Defer, Expire, Tick, Report,
         ReportDropped, campVars, Inv, TypeOK, TypeCampaign, Campaign, Active, Editable
<1> QED
  BY <1>1, <1>2, <1>3, <1>4, <1>5, <1>6, <1>7, <1>8, <1>9, <1>10, <1>11, <1>12, <1>13,
     <1>14, <1>15, <1>16, <1>17, <1>18, <1>19, <1>20 DEF Next, Work, Campaigns

\* What Meta took and reports, faults, the scene.
LEMMA RestTyped ==
  ASSUME Inv, Next PROVE TypeRest'
<1>1. ASSUME NEW d \in Drains, Call(d) PROVE TypeRest'
  BY <1>1, OutboundAssumption DEF Call, Taken, rest, Inv, TypeOK, TypeRest
<1>2. ASSUME NEW d \in Drains, Raise(d) PROVE TypeRest'
  BY <1>2, OutboundAssumption DEF Raise, Fault, Inv, TypeOK, TypeRest
<1>3. ASSUME NEW d \in Drains, Crash(d) PROVE TypeRest'
  BY <1>3, OutboundAssumption DEF Crash, Fault, Taken, Inv, TypeOK, TypeRest
<1>4. ASSUME NEW m \in Msgs, Report(m) PROVE TypeRest'
  BY <1>4, OutboundAssumption DEF Report, rest, Inv, TypeOK, TypeRest
<1>5. ASSUME NEW m \in Msgs, ReportFound(m) PROVE TypeRest'
  BY <1>5, OutboundAssumption DEF ReportFound, rest, Inv, TypeOK, TypeRest
<1>6. ASSUME NEW m \in Msgs, ReportDropped(m) PROVE TypeRest'
  BY <1>6, OutboundAssumption DEF ReportDropped, rest, Inv, TypeOK, TypeRest
<1>7. ASSUME StartCampaign PROVE TypeRest'
  BY <1>7, OutboundAssumption DEF StartCampaign, Enqueue, Fault, Inv, TypeOK, TypeRest
<1>8. ASSUME ProcessChunk PROVE TypeRest'
  BY <1>8, OutboundAssumption DEF ProcessChunk, Enqueue, Fault, Inv, TypeOK, TypeRest
<1>9. ASSUME ChunkFails PROVE TypeRest'
  BY <1>9, OutboundAssumption DEF ChunkFails, Fault, Inv, TypeOK, TypeRest
<1>10. ASSUME SenderCrash PROVE TypeRest'
  BY <1>10, OutboundAssumption DEF SenderCrash, Fault, Inv, TypeOK, TypeRest
<1>11. ASSUME Sweep PROVE TypeRest'
  BY <1>11, OutboundAssumption DEF Sweep, Enqueue, Fault, Inv, TypeOK, TypeRest
<1>12. ASSUME Resume PROVE TypeRest'
  BY <1>12, OutboundAssumption DEF Resume, Enqueue, Fault, Inv, TypeOK, TypeRest
<1>13. ASSUME NEW d \in Drains,
            Refuse(d) \/ NoProvider(d) \/ ReserveUnit(d) \/ Unmetered(d) \/ Hold(d) \/ Brake(d) \/ Start(d) \/
               Commit(d) \/ LogSent(d) \/ RowSent(d) \/ Fail(d) \/ Release(d) \/ Uncount(d) \/
               PutOff(d) \/ Notify(d) \/ Doubt(d)
      PROVE TypeRest'
  BY <1>13, OutboundAssumption DEF Refuse, NoProvider, ReserveUnit, Unmetered, Hold, Brake,
         Start, Commit, LogSent, RowSent, Fail, Release, Uncount, PutOff, Notify, Doubt,
         rest, Inv, TypeOK, TypeRest
<1>14. ASSUME NEW d \in Drains, NEW m \in Msgs,
            Claim(d, m)
      PROVE TypeRest'
  BY <1>14, OutboundAssumption DEF Claim, rest, Inv, TypeOK, TypeRest
<1>15. ASSUME NEW m \in Msgs,
            CommitStale(m) \/ RecoverSending(m) \/ Defer(m) \/ Expire(m) \/ Tick(m) \/ CancelStaleHold(m)
      PROVE TypeRest'
  BY <1>15, OutboundAssumption DEF CommitStale, RecoverSending, Defer, Expire, Tick,
         CancelStaleHold, rest, Inv, TypeOK, TypeRest
<1>16. ASSUME Schedule \/ SaveDraft \/ TakeTask \/ CampaignFailed \/ Pause \/ WithdrawRead \/ WithdrawWrite \/ CampTick
      PROVE TypeRest'
  BY <1>16, OutboundAssumption DEF Schedule, SaveDraft, TakeTask, CampaignFailed, Pause,
         WithdrawRead, WithdrawWrite, CampTick, rest, Inv, TypeOK, TypeRest
<1> QED
  BY <1>1, <1>2, <1>3, <1>4, <1>5, <1>6, <1>7, <1>8, <1>9, <1>10, <1>11, <1>12, <1>13,
     <1>14, <1>15, <1>16 DEF Next, Work, Campaigns

\* The scene never changes.
LEMMA SceneKept ==
  ASSUME Inv, Next PROVE scene' = scene
<1>1. ASSUME NEW d \in Drains,
            Refuse(d) \/ NoProvider(d) \/ ReserveUnit(d) \/ Unmetered(d) \/ Hold(d) \/ Brake(d) \/ Start(d) \/
               Call(d) \/ Commit(d) \/ LogSent(d) \/ RowSent(d) \/ Raise(d) \/ Fail(d) \/ Release(d) \/
               Uncount(d) \/ PutOff(d) \/ Notify(d) \/ Doubt(d) \/ Crash(d)
      PROVE scene' = scene
  BY <1>1 DEF Refuse, NoProvider, ReserveUnit, Unmetered, Hold, Brake, Start, Call, Commit,
         LogSent, RowSent, Raise, Fail, Release, Uncount, PutOff, Notify, Doubt, Crash, rest
<1>2. ASSUME NEW d \in Drains, NEW m \in Msgs,
            Claim(d, m)
      PROVE scene' = scene
  BY <1>2 DEF Claim, rest
<1>3. ASSUME NEW m \in Msgs,
            CommitStale(m) \/ RecoverSending(m) \/ Defer(m) \/ Expire(m) \/ Tick(m) \/ CancelStaleHold(m) \/
               Report(m) \/ ReportFound(m) \/ ReportDropped(m)
      PROVE scene' = scene
  BY <1>3 DEF CommitStale, RecoverSending, Defer, Expire, Tick, CancelStaleHold, Report,
         ReportFound, ReportDropped, rest
<1>4. ASSUME Schedule \/ SaveDraft \/ StartCampaign \/ TakeTask \/ ProcessChunk \/ ChunkFails \/ CampaignFailed \/
               SenderCrash \/ Sweep \/ Pause \/ Resume \/ WithdrawRead \/ WithdrawWrite \/ CampTick
      PROVE scene' = scene
  BY <1>4 DEF Schedule, SaveDraft, StartCampaign, TakeTask, ProcessChunk, ChunkFails,
         CampaignFailed, SenderCrash, Sweep, Pause, Resume, WithdrawRead, WithdrawWrite,
         CampTick, rest
<1> QED
  BY <1>1, <1>2, <1>3, <1>4 DEF Next, Work, Campaigns

\* A drain that goes on keeps its claim ...
LEMMA ClaimsStay ==
  ASSUME Inv, NEW d \in Drains, pc[d] # "idle", NEW at, at # "idle", pc' = [pc EXCEPT ![d] = at],
         claims' = claims, \A e \in Drains : my'[e].m = my[e].m
  PROVE  ClaimsOK'
<1>1. \A e \in Drains : pc'[e] = IF e = d THEN at ELSE pc[e]
  BY DEF Inv, TypeOK, TypeDrains
<1> QED
  BY <1>1 DEF Inv, ClaimsOK

\* ... and one that leaves gives back no other's.
LEMMA ClaimsLeft ==
  ASSUME Inv, NEW d \in Drains, Leave(d) PROVE ClaimsOK'
<1>1. \A e \in Drains \ {d} : pc'[e] = pc[e] /\ my'[e] = my[e]
  BY DEF Leave, Inv, TypeOK, TypeDrains
<1>2. pc'[d] = "idle" /\ my'[d].m = None /\ claims' = claims \ {my[d].m}
  BY DEF Leave, Inv, TypeOK, TypeDrains, Idle
<1>3. \A e \in Drains \ {d} : my[e].m # None => my[e].m \in claims /\ my[e].m # my[d].m
  BY DEF Inv, ClaimsOK
<1> QED
  BY <1>1, <1>2, <1>3 DEF Inv, ClaimsOK


\* Claims stay exclusive.
LEMMA ClaimsKept ==
  ASSUME Inv, Next PROVE ClaimsOK'
<1>1. ASSUME NEW d \in Drains, Refuse(d) PROVE ClaimsOK'
  BY <1>1, OutboundAssumption DEF Refuse, Goto, MarkFailed, Inv, TypeOK, TypeDrains,
         ClaimsOK, Idle
<1>2. ASSUME NEW d \in Drains, NoProvider(d) PROVE ClaimsOK'
  BY <1>2, OutboundAssumption DEF NoProvider, Goto, Inv, TypeOK, TypeDrains, ClaimsOK, Idle
<1>3. ASSUME NEW d \in Drains, ReserveUnit(d) PROVE ClaimsOK'
  BY <1>3, OutboundAssumption DEF ReserveUnit, Goto, Reserve, HasRoom, Inv, TypeOK,
         TypeDrains, ClaimsOK, Idle, meterVars
<1>4. ASSUME NEW d \in Drains, Unmetered(d) PROVE ClaimsOK'
  BY <1>4, OutboundAssumption DEF Unmetered, Goto, Inv, TypeOK, TypeDrains, ClaimsOK, Idle
<1>5. ASSUME NEW d \in Drains, Hold(d) PROVE ClaimsOK'
  BY <1>5, ClaimsLeft DEF Hold
<1>6. ASSUME NEW d \in Drains, Brake(d) PROVE ClaimsOK'
  BY <1>6, OutboundAssumption DEF Brake, Goto, Settled, Inv, TypeOK, TypeDrains, ClaimsOK,
         Idle
<1>7. ASSUME NEW d \in Drains, Start(d) PROVE ClaimsOK'
  BY <1>7, OutboundAssumption DEF Start, Goto, Inv, TypeOK, TypeDrains, ClaimsOK, Idle
<1>8. ASSUME NEW d \in Drains, Call(d) PROVE ClaimsOK'
  BY <1>8, CallShape DEF Inv, TypeOK, TypeDrains, ClaimsOK
<1>9. ASSUME NEW d \in Drains, Commit(d) PROVE ClaimsOK'
  BY <1>9, OutboundAssumption DEF Commit, Goto, Settled, Inv, TypeOK, TypeDrains, ClaimsOK,
         Idle
<1>10. ASSUME NEW d \in Drains, LogSent(d) PROVE ClaimsOK'
  BY <1>10, OutboundAssumption DEF LogSent, Goto, Inv, TypeOK, TypeDrains, ClaimsOK, Idle
<1>11. ASSUME NEW d \in Drains, RowSent(d) PROVE ClaimsOK'
  BY <1>11, ClaimsLeft DEF RowSent
<1>12. ASSUME NEW d \in Drains, Raise(d) PROVE ClaimsOK'
  BY <1>12, OutboundAssumption DEF Raise, Goto, Inv, TypeOK, TypeDrains, ClaimsOK, Idle
<1>13. ASSUME NEW d \in Drains, Fail(d) PROVE ClaimsOK'
  <2>1. CASE Leave(d)
    BY <2>1, ClaimsLeft
  <2>2. CASE Goto(d, "release") /\ UNCHANGED my
    BY <1>13, <2>2, ClaimsStay DEF Fail, Goto
  <2> QED
    BY <1>13, <2>1, <2>2 DEF Fail
<1>14. ASSUME NEW d \in Drains, Release(d) PROVE ClaimsOK'
  BY <1>14, OutboundAssumption DEF Release, Goto, Settled, Inv, TypeOK, TypeDrains,
         ClaimsOK, Idle
<1>15. ASSUME NEW d \in Drains, Uncount(d) PROVE ClaimsOK'
  BY <1>15, OutboundAssumption DEF Uncount, Goto, Inv, TypeOK, TypeDrains, ClaimsOK, Idle
<1>16. ASSUME NEW d \in Drains, PutOff(d) PROVE ClaimsOK'
  BY <1>16, ClaimsLeft DEF PutOff
<1>17. ASSUME NEW d \in Drains, Notify(d) PROVE ClaimsOK'
  BY <1>17, ClaimsLeft DEF Notify
<1>18. ASSUME NEW d \in Drains, Doubt(d) PROVE ClaimsOK'
  BY <1>18, ClaimsLeft DEF Doubt
<1>19. ASSUME NEW d \in Drains, Crash(d) PROVE ClaimsOK'
  BY <1>19, OutboundAssumption DEF Crash, Inv, TypeOK, TypeDrains, ClaimsOK, Idle
<1>20. ASSUME NEW d \in Drains, NEW m \in Msgs, Claim(d, m) PROVE ClaimsOK'
  BY <1>20, OutboundAssumption DEF Claim, Inv, TypeOK, TypeDrains, ClaimsOK, Idle
<1>21. ASSUME NEW m \in Msgs, Expire(m) PROVE ClaimsOK'
  BY <1>21, OutboundAssumption DEF Expire, Unworked, Inv, TypeOK, TypeDrains, ClaimsOK, Idle
<1>22. ASSUME NEW m \in Msgs,
            CommitStale(m) \/ RecoverSending(m) \/ Defer(m) \/ Tick(m) \/ CancelStaleHold(m) \/ Report(m) \/
               ReportFound(m) \/ ReportDropped(m)
      PROVE ClaimsOK'
  BY <1>22, OutboundAssumption DEF CommitStale, RecoverSending, Defer, Tick,
         CancelStaleHold, Report, ReportFound, ReportDropped, drainVars, Inv, TypeOK,
         TypeDrains, ClaimsOK, Idle
<1>23. ASSUME Schedule \/ SaveDraft \/ StartCampaign \/ TakeTask \/ ProcessChunk \/ ChunkFails \/ CampaignFailed \/
               SenderCrash \/ Sweep \/ Pause \/ Resume \/ WithdrawRead \/ WithdrawWrite \/ CampTick
      PROVE ClaimsOK'
  BY <1>23, OutboundAssumption DEF Schedule, SaveDraft, StartCampaign, TakeTask,
         ProcessChunk, ChunkFails, CampaignFailed, SenderCrash, Sweep, Pause, Resume,
         WithdrawRead, WithdrawWrite, CampTick, drainVars, Inv, TypeOK, TypeDrains,
         ClaimsOK, Idle
<1> QED
  BY <1>1, <1>2, <1>3, <1>4, <1>5, <1>6, <1>7, <1>8, <1>9, <1>10, <1>11, <1>12, <1>13,
     <1>14, <1>15, <1>16, <1>17, <1>18, <1>19, <1>20, <1>21, <1>22, <1>23 DEF Next, Work, Campaigns

\* Rows keep step with the drains and the campaign.
LEMMA RowsKept ==
  ASSUME Inv, Next PROVE RowsOK'
<1>1. ASSUME NEW d \in Drains, Refuse(d) PROVE RowsOK'
  BY <1>1, OutboundAssumption DEF Refuse, Goto, MarkFailed, campVars, Inv, TypeOK,
         TypeDrains, TypeMeter, TypeQueue, ClaimsOK, TypeCampaign, RowsOK, Message, Idle,
         Waiting, Editable, Active
<1>2. ASSUME NEW d \in Drains, NoProvider(d) PROVE RowsOK'
  BY <1>2, OutboundAssumption DEF NoProvider, Goto, queueVars, campVars, Inv, TypeOK,
         TypeDrains, TypeMeter, TypeQueue, ClaimsOK, TypeCampaign, RowsOK, Message, Idle,
         Waiting, Editable, Active
<1>3. ASSUME NEW d \in Drains, ReserveUnit(d) PROVE RowsOK'
  BY <1>3, OutboundAssumption DEF ReserveUnit, Goto, Reserve, HasRoom, queueVars, campVars,
         Inv, TypeOK, TypeDrains, TypeMeter, TypeQueue, ClaimsOK, TypeCampaign, RowsOK,
         Message, Idle, Waiting, Editable, Active, meterVars
<1>4. ASSUME NEW d \in Drains, Unmetered(d) PROVE RowsOK'
  BY <1>4, OutboundAssumption DEF Unmetered, Goto, queueVars, campVars, Inv, TypeOK,
         TypeDrains, TypeMeter, TypeQueue, ClaimsOK, TypeCampaign, RowsOK, Message, Idle,
         Waiting, Editable, Active
<1>5. ASSUME NEW d \in Drains, Hold(d) PROVE RowsOK'
  BY <1>5, OutboundAssumption DEF Hold, Leave, campVars, Inv, TypeOK, TypeDrains, TypeMeter,
         TypeQueue, ClaimsOK, TypeCampaign, RowsOK, Message, Idle, Waiting, Editable, Active
<1>6. ASSUME NEW d \in Drains, Brake(d) PROVE RowsOK'
  BY <1>6, OutboundAssumption DEF Brake, Goto, Settled, queueVars, campVars, Inv, TypeOK,
         TypeDrains, TypeMeter, TypeQueue, ClaimsOK, TypeCampaign, RowsOK, Message, Idle,
         Waiting, Editable, Active
<1>7. ASSUME NEW d \in Drains, Start(d) PROVE RowsOK'
  BY <1>7, OutboundAssumption DEF Start, Goto, campVars, Inv, TypeOK, TypeDrains, TypeMeter,
         TypeQueue, ClaimsOK, TypeCampaign, RowsOK, Message, Idle, Waiting, Editable, Active
<1>8. ASSUME NEW d \in Drains, Call(d) PROVE RowsOK'
  <2>1. PICK at \in {"commit", "failed", "doubt"}, said \in {my[d].said, "refused", "busy"} :
            pc' = [pc EXCEPT ![d] = at] /\ my' = [my EXCEPT ![d].said = said]
    BY <1>8, CallShape
  <2>2. \A e \in Drains : my'[e].m = my[e].m /\ (e = d \/ pc'[e] = pc[e])
    BY <2>1 DEF Inv, TypeOK, TypeDrains
  <2>3. pc'[d] \notin {"ready", "go"}
    BY <2>1 DEF Inv, TypeOK, TypeDrains
  <2>4. UNCHANGED <<known, row, rec, camp>>
    BY <1>8, CallShape
  <2> QED
    BY <2>2, <2>3, <2>4, RowsFrame
<1>9. ASSUME NEW d \in Drains, Commit(d) PROVE RowsOK'
  BY <1>9, OutboundAssumption DEF Commit, Goto, Settled, queueVars, campVars, Inv, TypeOK,
         TypeDrains, TypeMeter, TypeQueue, ClaimsOK, TypeCampaign, RowsOK, Message, Idle,
         Waiting, Editable, Active
<1>10. ASSUME NEW d \in Drains, LogSent(d) PROVE RowsOK'
  BY <1>10, OutboundAssumption DEF LogSent, Goto, campVars, Inv, TypeOK, TypeDrains,
         TypeMeter, TypeQueue, ClaimsOK, TypeCampaign, RowsOK, Message, Idle, Waiting,
         Editable, Active
<1>11. ASSUME NEW d \in Drains, RowSent(d) PROVE RowsOK'
  BY <1>11, OutboundAssumption DEF RowSent, Leave, campVars, Inv, TypeOK, TypeDrains,
         TypeMeter, TypeQueue, ClaimsOK, TypeCampaign, RowsOK, Message, Idle, Waiting,
         Editable, Active
<1>12. ASSUME NEW d \in Drains, Raise(d) PROVE RowsOK'
  <2>1. /\ my[d].m \in Msgs /\ pc[d] # "idle" /\ pc' = [pc EXCEPT ![d] = "failed"]
        /\ my' = [my EXCEPT ![d].said = "busy"]
        /\ row' \in {row, [row EXCEPT ![my[d].m].status = "sent"]}
        /\ UNCHANGED <<known, rec, camp>>
    BY <1>12, Facts DEF Raise, Goto, campVars
  <2>2. \A e \in Drains : my'[e].m = my[e].m /\ (pc'[e] = pc[e] \/ pc'[e] = "failed")
    BY <2>1 DEF Inv, TypeOK, TypeDrains
  <2>3. row[my[d].m].status # "absent"
    BY <2>1, OutboundAssumption DEF Inv, RowsOK
  <2>4. \A n \in Msgs : \/ row'[n].status = row[n].status
                        \/ row[n].status # "absent" /\ row'[n].status = "sent"
    BY <2>1, <2>3 DEF Inv, TypeOK, TypeQueue, Message
  <2> QED
    BY <2>1, <2>2, <2>4, RowsFrame
<1>13. ASSUME NEW d \in Drains, Fail(d) PROVE RowsOK'
  <2>1. /\ my[d].m \in Msgs /\ pc[d] = "failed" /\ UNCHANGED <<known, rec, camp>>
        /\ row'[my[d].m].status \in {"failed", "queued"}
        /\ \A n \in Msgs \ {my[d].m} : row'[n] = row[n]
    BY <1>13, FailShape
  <2>2. /\ \A e \in Drains : my'[e].m # None => my'[e].m = my[e].m
        /\ \A e \in Drains : pc'[e] \in {"ready", "go"} => pc'[e] = pc[e] /\ my'[e].m = my[e].m
    BY <1>13, FailShape DEF Inv, TypeOK, TypeDrains, Idle
  <2>3. row[my[d].m].status # "absent"
    BY <2>1, OutboundAssumption DEF Inv, RowsOK
  <2>4. \A n \in Msgs : \/ row'[n].status = row[n].status
                        \/ row[n].status # "absent" /\ row'[n].status \notin {"absent", "sending"}
    BY <2>1, <2>3
  <2> QED
    BY <2>1, <2>2, <2>4, RowsFrame
<1>14. ASSUME NEW d \in Drains, Release(d) PROVE RowsOK'
  BY <1>14, OutboundAssumption DEF Release, Goto, Settled, queueVars, campVars, Inv, TypeOK,
         TypeDrains, TypeMeter, TypeQueue, ClaimsOK, TypeCampaign, RowsOK, Message, Idle,
         Waiting, Editable, Active
<1>15. ASSUME NEW d \in Drains, Uncount(d) PROVE RowsOK'
  BY <1>15, OutboundAssumption DEF Uncount, Goto, queueVars, campVars, Inv, TypeOK,
         TypeDrains, TypeMeter, TypeQueue, ClaimsOK, TypeCampaign, RowsOK, Message, Idle,
         Waiting, Editable, Active
<1>16. ASSUME NEW d \in Drains, PutOff(d) PROVE RowsOK'
  BY <1>16, OutboundAssumption DEF PutOff, Leave, campVars, Inv, TypeOK, TypeDrains,
         TypeMeter, TypeQueue, ClaimsOK, TypeCampaign, RowsOK, Message, Idle, Waiting,
         Editable, Active
<1>17. ASSUME NEW d \in Drains, Notify(d) PROVE RowsOK'
  BY <1>17, OutboundAssumption DEF Notify, Leave, Notified, Inv, TypeOK, TypeDrains,
         TypeMeter, TypeQueue, ClaimsOK, TypeCampaign, RowsOK, Message, Idle, Waiting,
         Editable, Active
<1>18. ASSUME NEW d \in Drains, Doubt(d) PROVE RowsOK'
  BY <1>18, OutboundAssumption DEF Doubt, Leave, Unconfirmed, Settled, campVars, Inv,
         TypeOK, TypeDrains, TypeMeter, TypeQueue, ClaimsOK, TypeCampaign, RowsOK, Message,
         Idle, Waiting, Editable, Active
<1>19. ASSUME NEW d \in Drains, Crash(d) PROVE RowsOK'
  BY <1>19, OutboundAssumption DEF Crash, queueVars, campVars, Inv, TypeOK, TypeDrains,
         TypeMeter, TypeQueue, ClaimsOK, TypeCampaign, RowsOK, Message, Idle, Waiting,
         Editable, Active
<1>20. ASSUME NEW d \in Drains, NEW m \in Msgs, Claim(d, m) PROVE RowsOK'
  BY <1>20, OutboundAssumption DEF Claim, Sendable, queueVars, campVars, Inv, TypeOK,
         TypeDrains, TypeMeter, TypeQueue, ClaimsOK, TypeCampaign, RowsOK, Message, Idle,
         Waiting, Editable, Active
<1>21. ASSUME NEW m \in Msgs, RecoverSending(m) PROVE RowsOK'
  BY <1>21, OutboundAssumption DEF RecoverSending, Unconfirmed, Settled, drainVars,
         campVars, Inv, TypeOK, TypeDrains, TypeMeter, TypeQueue, ClaimsOK, TypeCampaign,
         RowsOK, Message, Idle, Waiting, Editable, Active
<1>22. ASSUME NEW m \in Msgs, Defer(m) PROVE RowsOK'
  BY <1>22, OutboundAssumption DEF Defer, drainVars, campVars, Inv, TypeOK, TypeDrains,
         TypeMeter, TypeQueue, ClaimsOK, TypeCampaign, RowsOK, Message, Idle, Waiting,
         Editable, Active
<1>23. ASSUME NEW m \in Msgs, Tick(m) PROVE RowsOK'
  BY <1>23, TickShape, RowsFrame
<1>24. ASSUME NEW m \in Msgs, CancelStaleHold(m) PROVE RowsOK'
  BY <1>24, OutboundAssumption DEF CancelStaleHold, Unworked, drainVars, Inv, TypeOK,
         TypeDrains, TypeMeter, TypeQueue, ClaimsOK, TypeCampaign, RowsOK, Message, Idle,
         Waiting, Editable, Active
<1>25. ASSUME NEW m \in Msgs, ReportFound(m) PROVE RowsOK'
  <2>1. /\ m \in known /\ UNCHANGED <<pc, my, known, camp>>
        /\ \/ UNCHANGED <<row, rec>>
           \/ row' = [row EXCEPT ![m].status = "failed"] /\ rec' = Notified(m)
    BY <1>25 DEF ReportFound, drainVars
  <2>2. \A n \in Msgs : rec'[n] = "pending" => rec[n] = "pending"
    BY <2>1 DEF Notified, Inv, TypeOK, TypeCampaign
  <2>3. row[m].status # "absent"
    BY <2>1 DEF Inv, RowsOK
  <2>4. \A n \in Msgs : \/ row'[n].status = row[n].status
                        \/ row[n].status # "absent" /\ row'[n].status = "failed"
    BY <2>1, <2>3 DEF Inv, TypeOK, TypeQueue, Message
  <2> QED
    BY <2>1, <2>2, <2>4, RowsFrame
<1>26. ASSUME Schedule PROVE RowsOK'
  BY <1>26, OutboundAssumption DEF Schedule, queueVars, drainVars, Inv, TypeOK, TypeDrains,
         TypeMeter, TypeQueue, ClaimsOK, TypeCampaign, RowsOK, Message, Idle, Waiting,
         Editable, Active
<1>27. ASSUME SaveDraft PROVE RowsOK'
  BY <1>27, OutboundAssumption DEF SaveDraft, queueVars, drainVars, Inv, TypeOK, TypeDrains,
         TypeMeter, TypeQueue, ClaimsOK, TypeCampaign, RowsOK, Message, Idle, Waiting,
         Editable, Active
<1>28. ASSUME StartCampaign PROVE RowsOK'
  BY <1>28, OutboundAssumption DEF StartCampaign, queueVars, drainVars, Inv, TypeOK,
         TypeDrains, TypeMeter, TypeQueue, ClaimsOK, TypeCampaign, RowsOK, Message, Idle,
         Waiting, Editable, Active
<1>29. ASSUME TakeTask PROVE RowsOK'
  <2>1. UNCHANGED <<pc, my, row, rec, known>>
    BY <1>29 DEF TakeTask, queueVars, drainVars
  <2>2. camp'.status \in Editable => camp.status \in Editable
    BY <1>29 DEF TakeTask, Active, Editable, Inv, TypeOK, TypeCampaign, Campaign
  <2> QED
    BY <2>1, <2>2 DEF Inv, RowsOK
<1>30. ASSUME ProcessChunk PROVE RowsOK'
  BY <1>30, ChunkShape DEF Inv, TypeOK, TypeDrains, TypeQueue, ClaimsOK, RowsOK
<1>31. ASSUME CampaignFailed PROVE RowsOK'
  BY <1>31, OutboundAssumption DEF CampaignFailed, queueVars, drainVars, Inv, TypeOK,
         TypeDrains, TypeMeter, TypeQueue, ClaimsOK, TypeCampaign, RowsOK, Message, Idle,
         Waiting, Editable, Active
<1>32. ASSUME Pause PROVE RowsOK'
  BY <1>32, OutboundAssumption DEF Pause, queueVars, drainVars, Inv, TypeOK, TypeDrains,
         TypeMeter, TypeQueue, ClaimsOK, TypeCampaign, RowsOK, Message, Idle, Waiting,
         Editable, Active
<1>33. ASSUME Resume PROVE RowsOK'
  <2>1. UNCHANGED <<pc, my, row, rec, known>>
    BY <1>33 DEF Resume, queueVars, drainVars
  <2>2. camp'.status \in Editable => camp.status \in Editable
    BY <1>33 DEF Resume, Active, Editable, Inv, TypeOK, TypeCampaign, Campaign
  <2> QED
    BY <2>1, <2>2 DEF Inv, RowsOK
<1>34. ASSUME WithdrawWrite PROVE RowsOK'
  BY <1>34, OutboundAssumption DEF WithdrawWrite, Pending, drainVars, Inv, TypeOK,
         TypeDrains, TypeMeter, TypeQueue, ClaimsOK, TypeCampaign, RowsOK, Message, Idle,
         Waiting, Editable, Active
<1>35. ASSUME CampTick PROVE RowsOK'
  <2>1. UNCHANGED <<pc, my, row, rec, known>>
    BY <1>35 DEF CampTick, queueVars, drainVars
  <2>2. camp'.status \in Editable => camp.status \in Editable
    BY <1>35 DEF CampTick, Active, Editable, Inv, TypeOK, TypeCampaign, Campaign
  <2> QED
    BY <2>1, <2>2 DEF Inv, RowsOK
<1>36. ASSUME NEW m \in Msgs,
            CommitStale(m) \/ Expire(m) \/ Report(m) \/ ReportDropped(m)
      PROVE RowsOK'
  BY <1>36, OutboundAssumption DEF CommitStale, Expire, Report, ReportDropped, queueVars,
         drainVars, campVars, Inv, TypeOK, TypeDrains, TypeMeter, TypeQueue, ClaimsOK,
         TypeCampaign, RowsOK, Message, Idle, Waiting, Editable, Active
<1>37. ASSUME ChunkFails \/ SenderCrash \/ Sweep \/ WithdrawRead
      PROVE RowsOK'
  BY <1>37, OutboundAssumption DEF ChunkFails, SenderCrash, Sweep, WithdrawRead, queueVars,
         drainVars, Inv, TypeOK, TypeDrains, TypeMeter, TypeQueue, ClaimsOK, TypeCampaign,
         RowsOK, Message, Idle, Waiting, Editable, Active
<1> QED
  BY <1>1, <1>2, <1>3, <1>4, <1>5, <1>6, <1>7, <1>8, <1>9, <1>10, <1>11, <1>12, <1>13,
     <1>14, <1>15, <1>16, <1>17, <1>18, <1>19, <1>20, <1>21, <1>22, <1>23, <1>24, <1>25,
     <1>26, <1>27, <1>28, <1>29, <1>30, <1>31, <1>32, <1>33, <1>34, <1>35, <1>36, <1>37 DEF Next, Work, Campaigns

\* Units keep step with the drains.
LEMMA UnitsKept ==
  ASSUME Inv, Protected, Next PROVE UnitsOK'
<1>1. ASSUME NEW d \in Drains, Refuse(d) PROVE UnitsOK'
  BY <1>1, OutboundAssumption DEF Refuse, Goto, MarkFailed, meterVars, Inv, TypeOK,
         TypeDrains, TypeMeter, TypeQueue, ClaimsOK, RowsOK, UnitsOK, TakenOK, Protected,
         Message, Idle
<1>2. ASSUME NEW d \in Drains, NoProvider(d) PROVE UnitsOK'
  BY <1>2, OutboundAssumption DEF NoProvider, Goto, queueVars, meterVars, Inv, TypeOK,
         TypeDrains, TypeMeter, TypeQueue, ClaimsOK, RowsOK, UnitsOK, TakenOK, Protected,
         Message, Idle
<1>3. ASSUME NEW d \in Drains, ReserveUnit(d) PROVE UnitsOK'
  <2> DEFINE m == my[d].m
  <2>1. /\ m \in Msgs /\ UNCHANGED <<row, known>> /\ pc[d] = "ready"
        /\ \/ hold' = hold /\ hold[m] \notin {"none", "released"}
           \/ /\ hold[m] \in {"none", "released"}
              /\ \E to \in {"none", "reserved"} : hold' = [hold EXCEPT ![m] = to]
    BY <1>3, Facts DEF ReserveUnit, Reserve, queueVars, meterVars
  <2>2. /\ \E at \in {"hold", "doubt", "go"} : pc' = [pc EXCEPT ![d] = at]
        /\ pc'[d] = "go" => hold'[m] \notin {"none", "committed"}
        /\ my' = [my EXCEPT ![d].mine = hold'[m] # "none"]
    BY <1>3 DEF ReserveUnit, Goto, Inv, TypeOK, TypeDrains
  <2>3. pc'[d] = "go" => hold'[m] = "reserved"
    BY <2>1, <2>2 DEF Inv, TypeOK, TypeMeter
  <2>4. pc'[d] = "go" => my'[d].mine
    <3>1. my'[d].mine = (hold'[m] # "none")
      BY <2>2 DEF Inv, TypeOK, TypeDrains
    <3> QED
      BY <2>3, <3>1
  <2>5. \A e \in Drains \ {d} : pc'[e] = pc[e] /\ my'[e] = my[e]
    BY <2>2 DEF Inv, TypeOK, TypeDrains
  <2>6. my'[d].m = m /\ pc'[d] \in {"hold", "doubt", "go"}
    BY <2>2 DEF Inv, TypeOK, TypeDrains
  <2>7. \A n \in Msgs : hold[n] \in {"reserved", "committed"} => hold'[n] = hold[n]
    BY <2>1 DEF Inv, TypeOK, TypeMeter
  <2>8. /\ \A e \in Drains : pc[e] # "idle" => my[e].m \in Msgs
        /\ known \subseteq Msgs
    BY Facts DEF Inv, TypeOK, TypeQueue
  <2>9. UnitsOK
    BY DEF Inv
  <2> QED
    BY <2>1, <2>3, <2>4, <2>5, <2>6, <2>7, <2>8, <2>9 DEF UnitsOK
<1>4. ASSUME NEW d \in Drains, Unmetered(d) PROVE UnitsOK'
  BY <1>4, OutboundAssumption DEF Unmetered, Goto, queueVars, meterVars, Inv, TypeOK,
         TypeDrains, TypeMeter, TypeQueue, ClaimsOK, RowsOK, UnitsOK, TakenOK, Protected,
         Message, Idle
<1>5. ASSUME NEW d \in Drains, Hold(d) PROVE UnitsOK'
  BY <1>5, OutboundAssumption DEF Hold, Leave, meterVars, Inv, TypeOK, TypeDrains,
         TypeMeter, TypeQueue, ClaimsOK, RowsOK, UnitsOK, TakenOK, Protected, Message, Idle
<1>6. ASSUME NEW d \in Drains, Brake(d) PROVE UnitsOK'
  BY <1>6, OutboundAssumption DEF Brake, Goto, Settled, Reserved, queueVars, Inv, TypeOK,
         TypeDrains, TypeMeter, TypeQueue, ClaimsOK, RowsOK, UnitsOK, TakenOK, Protected,
         Message, Idle
<1>7. ASSUME NEW d \in Drains, Start(d) PROVE UnitsOK'
  BY <1>7, OutboundAssumption DEF Start, Goto, meterVars, Inv, TypeOK, TypeDrains,
         TypeMeter, TypeQueue, ClaimsOK, RowsOK, UnitsOK, TakenOK, Protected, Message, Idle
<1>8. ASSUME NEW d \in Drains, Call(d) PROVE UnitsOK'
  BY <1>8, CallShape DEF Inv, TypeOK, TypeDrains, ClaimsOK, UnitsOK
<1>9. ASSUME NEW d \in Drains, Commit(d) PROVE UnitsOK'
  BY <1>9, OutboundAssumption DEF Commit, Goto, Settled, Reserved, queueVars, Inv, TypeOK,
         TypeDrains, TypeMeter, TypeQueue, ClaimsOK, RowsOK, UnitsOK, TakenOK, Protected,
         Message, Idle
<1>10. ASSUME NEW d \in Drains, LogSent(d) PROVE UnitsOK'
  BY <1>10, OutboundAssumption DEF LogSent, Goto, meterVars, Inv, TypeOK, TypeDrains,
         TypeMeter, TypeQueue, ClaimsOK, RowsOK, UnitsOK, TakenOK, Protected, Message, Idle
<1>11. ASSUME NEW d \in Drains, RowSent(d) PROVE UnitsOK'
  BY <1>11, OutboundAssumption DEF RowSent, Leave, meterVars, Inv, TypeOK, TypeDrains,
         TypeMeter, TypeQueue, ClaimsOK, RowsOK, UnitsOK, TakenOK, Protected, Message, Idle
<1>12. ASSUME NEW d \in Drains, Raise(d) PROVE UnitsOK'
  BY <1>12, OutboundAssumption DEF Raise, Goto, meterVars, Inv, TypeOK, TypeDrains,
         TypeMeter, TypeQueue, ClaimsOK, RowsOK, UnitsOK, TakenOK, Protected, Message, Idle
<1>13. ASSUME NEW d \in Drains, Fail(d) PROVE UnitsOK'
  <2>1. /\ my[d].m \in Msgs /\ pc[d] = "failed" /\ UNCHANGED <<known, hold>>
        /\ \A n \in Msgs \ {my[d].m} : row'[n] = row[n]
        /\ pc'[d] \in {"idle", "release"}
        /\ \A e \in Drains \ {d} : pc'[e] = pc[e] /\ my'[e] = my[e]
    BY <1>13, FailShape DEF Inv, TypeOK, TypeDrains
  <2>2. \A e \in Drains : pc[e] \in {"call", "commit"} => my[e].m \in Msgs \ {my[d].m}
    BY <2>1, Facts, OutboundAssumption DEF Inv, ClaimsOK
  <2> QED
    BY <2>1, <2>2, UnitsFrame DEF Inv
<1>14. ASSUME NEW d \in Drains, Release(d) PROVE UnitsOK'
  BY <1>14, OutboundAssumption DEF Release, Goto, Settled, Reserved, queueVars, Inv, TypeOK,
         TypeDrains, TypeMeter, TypeQueue, ClaimsOK, RowsOK, UnitsOK, TakenOK, Protected,
         Message, Idle
<1>15. ASSUME NEW d \in Drains, Uncount(d) PROVE UnitsOK'
  BY <1>15, OutboundAssumption DEF Uncount, Goto, queueVars, Inv, TypeOK, TypeDrains,
         TypeMeter, TypeQueue, ClaimsOK, RowsOK, UnitsOK, TakenOK, Protected, Message, Idle
<1>16. ASSUME NEW d \in Drains, PutOff(d) PROVE UnitsOK'
  BY <1>16, OutboundAssumption DEF PutOff, Leave, meterVars, Inv, TypeOK, TypeDrains,
         TypeMeter, TypeQueue, ClaimsOK, RowsOK, UnitsOK, TakenOK, Protected, Message, Idle
<1>17. ASSUME NEW d \in Drains, Notify(d) PROVE UnitsOK'
  BY <1>17, OutboundAssumption DEF Notify, Leave, meterVars, Inv, TypeOK, TypeDrains,
         TypeMeter, TypeQueue, ClaimsOK, RowsOK, UnitsOK, TakenOK, Protected, Message, Idle
<1>18. ASSUME NEW d \in Drains, Doubt(d) PROVE UnitsOK'
  BY <1>18, OutboundAssumption DEF Doubt, Leave, Unconfirmed, Settled, Reserved, Inv,
         TypeOK, TypeDrains, TypeMeter, TypeQueue, ClaimsOK, RowsOK, UnitsOK, TakenOK,
         Protected, Message, Idle
<1>19. ASSUME NEW d \in Drains, Crash(d) PROVE UnitsOK'
  BY <1>19, OutboundAssumption DEF Crash, queueVars, meterVars, Inv, TypeOK, TypeDrains,
         TypeMeter, TypeQueue, ClaimsOK, RowsOK, UnitsOK, TakenOK, Protected, Message, Idle
<1>20. ASSUME NEW d \in Drains, NEW m \in Msgs, Claim(d, m) PROVE UnitsOK'
  BY <1>20, OutboundAssumption DEF Claim, Sendable, queueVars, meterVars, Inv, TypeOK,
         TypeDrains, TypeMeter, TypeQueue, ClaimsOK, RowsOK, UnitsOK, TakenOK, Protected,
         Message, Idle
<1>21. ASSUME NEW m \in Msgs, CommitStale(m) PROVE UnitsOK'
  BY <1>21, OutboundAssumption DEF CommitStale, Settled, Reserved, queueVars, drainVars,
         Inv, TypeOK, TypeDrains, TypeMeter, TypeQueue, ClaimsOK, RowsOK, UnitsOK, TakenOK,
         Protected, Message, Idle
<1>22. ASSUME NEW m \in Msgs, RecoverSending(m) PROVE UnitsOK'
  BY <1>22, OutboundAssumption DEF RecoverSending, Unconfirmed, Settled, Reserved,
         drainVars, Inv, TypeOK, TypeDrains, TypeMeter, TypeQueue, ClaimsOK, RowsOK,
         UnitsOK, TakenOK, Protected, Message, Idle
<1>23. ASSUME NEW m \in Msgs, Defer(m) PROVE UnitsOK'
  BY <1>23, OutboundAssumption DEF Defer, meterVars, drainVars, Inv, TypeOK, TypeDrains,
         TypeMeter, TypeQueue, ClaimsOK, RowsOK, UnitsOK, TakenOK, Protected, Message, Idle
<1>24. ASSUME NEW m \in Msgs, Tick(m) PROVE UnitsOK'
  <2>1. /\ UNCHANGED <<pc, my, known, hold>>
        /\ \A n \in Msgs : row'[n].status = row[n].status
        /\ \A n \in Msgs : row'[n].stale # row[n].stale => Unworked(n)
    BY <1>24, TickShape
  <2>2. \A e \in Drains : pc[e] \in {"call", "commit"} => my[e].m \in Msgs /\ ~Unworked(my[e].m)
    BY Facts DEF Unworked
  <2> QED
    BY <2>1, <2>2, UnitsFrame DEF Inv
<1>25. ASSUME NEW m \in Msgs, CancelStaleHold(m) PROVE UnitsOK'
  BY <1>25, OutboundAssumption DEF CancelStaleHold, Unworked, meterVars, drainVars, Inv,
         TypeOK, TypeDrains, TypeMeter, TypeQueue, ClaimsOK, RowsOK, UnitsOK, TakenOK,
         Protected, Message, Idle
<1>26. ASSUME NEW m \in Msgs, ReportFound(m) PROVE UnitsOK'
  <2>1. /\ m \in known /\ UNCHANGED <<pc, my, known, hold>>
        /\ row' \in {row, [row EXCEPT ![m].status = "failed"]}
    BY <1>26 DEF ReportFound, drainVars, meterVars
  <2>2. \A e \in Drains : pc[e] \in {"call", "commit"} => my[e].m # m /\ my[e].m \in Msgs
    BY <2>1, Facts DEF Inv, UnitsOK
  <2>3. \A n \in Msgs : n # m => row'[n] = row[n]
    BY <2>1 DEF Inv, TypeOK, TypeQueue
  <2> QED
    BY <2>1, <2>2, <2>3, UnitsFrame DEF Inv
<1>27. ASSUME ProcessChunk PROVE UnitsOK'
  <2>1. \A n \in Msgs : row[n].status = "sending" => row'[n] = row[n]
    BY <1>27, ChunkShape DEF Inv, RowsOK
  <2> QED
    BY <1>27, <2>1, ChunkShape DEF Inv, TypeOK, TypeDrains, ClaimsOK, UnitsOK
<1>28. ASSUME WithdrawWrite PROVE UnitsOK'
  <2>1. /\ UNCHANGED <<pc, my, known, hold>>
        /\ \A n \in Msgs : row[n].status = "sending" => row'[n] = row[n]
    BY <1>28 DEF WithdrawWrite, Waiting, drainVars, meterVars, Inv, TypeOK, TypeQueue
  <2> QED
    BY <2>1 DEF Inv, TypeOK, TypeDrains, ClaimsOK, UnitsOK
<1>29. ASSUME NEW m \in Msgs,
            Expire(m) \/ Report(m) \/ ReportDropped(m)
      PROVE UnitsOK'
  BY <1>29, OutboundAssumption DEF Expire, Report, ReportDropped, queueVars, meterVars,
         drainVars, Inv, TypeOK, TypeDrains, TypeMeter, TypeQueue, ClaimsOK, RowsOK,
         UnitsOK, TakenOK, Protected, Message, Idle
<1>30. ASSUME Schedule \/ SaveDraft \/ StartCampaign \/ TakeTask \/ ChunkFails \/ CampaignFailed \/ SenderCrash \/
               Sweep \/ Pause \/ Resume \/ WithdrawRead \/ CampTick
      PROVE UnitsOK'
  BY <1>30, OutboundAssumption DEF Schedule, SaveDraft, StartCampaign, TakeTask, ChunkFails,
         CampaignFailed, SenderCrash, Sweep, Pause, Resume, WithdrawRead, CampTick,
         queueVars, meterVars, drainVars, Inv, TypeOK, TypeDrains, TypeMeter, TypeQueue,
         ClaimsOK, RowsOK, UnitsOK, TakenOK, Protected, Message, Idle
<1> QED
  BY <1>1, <1>2, <1>3, <1>4, <1>5, <1>6, <1>7, <1>8, <1>9, <1>10, <1>11, <1>12, <1>13,
     <1>14, <1>15, <1>16, <1>17, <1>18, <1>19, <1>20, <1>21, <1>22, <1>23, <1>24, <1>25,
     <1>26, <1>27, <1>28, <1>29, <1>30 DEF Next, Work, Campaigns

\* Nothing Meta took is sent again or given back.
LEMMA TakenKept ==
  ASSUME Inv, Protected, Next PROVE TakenOK'
<1>1. ASSUME NEW d \in Drains, Refuse(d) PROVE TakenOK'
  BY <1>1, OutboundAssumption DEF Refuse, Goto, MarkFailed, meterVars, Inv, TypeOK,
         TypeDrains, TypeMeter, TypeQueue, ClaimsOK, TypeRest, RowsOK, UnitsOK, TakenOK,
         Protected, Message, Idle, Waiting
<1>2. ASSUME NEW d \in Drains, NoProvider(d) PROVE TakenOK'
  BY <1>2, OutboundAssumption DEF NoProvider, Goto, queueVars, meterVars, Inv, TypeOK,
         TypeDrains, TypeMeter, TypeQueue, ClaimsOK, TypeRest, RowsOK, UnitsOK, TakenOK,
         Protected, Message, Idle, Waiting
<1>3. ASSUME NEW d \in Drains, ReserveUnit(d) PROVE TakenOK'
  BY <1>3, OutboundAssumption DEF ReserveUnit, Goto, Reserve, HasRoom, queueVars, Inv,
         TypeOK, TypeDrains, TypeMeter, TypeQueue, ClaimsOK, TypeRest, RowsOK, UnitsOK,
         TakenOK, Protected, Message, Idle, Waiting, meterVars
<1>4. ASSUME NEW d \in Drains, Unmetered(d) PROVE TakenOK'
  BY <1>4, OutboundAssumption DEF Unmetered, Goto, queueVars, meterVars, Inv, TypeOK,
         TypeDrains, TypeMeter, TypeQueue, ClaimsOK, TypeRest, RowsOK, UnitsOK, TakenOK,
         Protected, Message, Idle, Waiting
<1>5. ASSUME NEW d \in Drains, Hold(d) PROVE TakenOK'
  BY <1>5, OutboundAssumption DEF Hold, Leave, meterVars, Inv, TypeOK, TypeDrains,
         TypeMeter, TypeQueue, ClaimsOK, TypeRest, RowsOK, UnitsOK, TakenOK, Protected,
         Message, Idle, Waiting
<1>6. ASSUME NEW d \in Drains, Brake(d) PROVE TakenOK'
  BY <1>6, OutboundAssumption DEF Brake, Goto, Settled, Reserved, queueVars, Inv, TypeOK,
         TypeDrains, TypeMeter, TypeQueue, ClaimsOK, TypeRest, RowsOK, UnitsOK, TakenOK,
         Protected, Message, Idle, Waiting
<1>7. ASSUME NEW d \in Drains, Start(d) PROVE TakenOK'
  BY <1>7, OutboundAssumption DEF Start, Goto, meterVars, Inv, TypeOK, TypeDrains,
         TypeMeter, TypeQueue, ClaimsOK, TypeRest, RowsOK, UnitsOK, TakenOK, Protected,
         Message, Idle, Waiting
<1>8. ASSUME NEW d \in Drains, Call(d) PROVE TakenOK'
  <2> DEFINE m == my[d].m
  <2>1. /\ m \in Msgs /\ pc[d] = "call" /\ accepted[m] = 0
        /\ my[d].mine /\ hold[m] = "reserved" /\ row[m].status = "sending"
    BY <1>8, CallShape DEF Inv, TypeOK, TypeRest, UnitsOK, TakenOK
  <2>2. PICK at \in {"commit", "failed", "doubt"}, said \in {my[d].said, "refused", "busy"} :
            /\ pc' = [pc EXCEPT ![d] = at] /\ my' = [my EXCEPT ![d].said = said]
            /\ accepted' \in {accepted, Taken(m)} /\ (at = "failed" => accepted' = accepted)
            /\ UNCHANGED <<row, hold>>
    BY <1>8, <2>1, CallShape
  <2>3. \A e \in Drains : my'[e].m = my[e].m /\ (e = d \/ pc'[e] = pc[e])
    BY <2>2 DEF Inv, TypeOK, TypeDrains
  <2>4. pc'[d] = at /\ \A e \in Drains \ {d} : my[e].m # m
    BY <2>1, <2>2, OutboundAssumption DEF Inv, TypeOK, TypeDrains, ClaimsOK
  <2>5. CASE accepted' = accepted
    BY <2>1, <2>2, <2>3, <2>4, <2>5, TakenFrame, OutboundAssumption DEF Inv
  <2>6. CASE accepted' = Taken(m) /\ at # "failed"
    <3>1. accepted'[m] = 1 /\ \A n \in Msgs \ {m} : accepted'[n] = accepted[n]
      BY <2>1, <2>6 DEF Taken, Inv, TypeOK, TypeRest
    <3>2. TakenOK
      BY DEF Inv
    <3> QED
      BY <2>1, <2>2, <2>3, <2>4, <2>6, <3>1, <3>2 DEF TakenOK
  <2> QED
    BY <2>2, <2>5, <2>6
<1>9. ASSUME NEW d \in Drains, Commit(d) PROVE TakenOK'
  BY <1>9, OutboundAssumption DEF Commit, Goto, Settled, Reserved, queueVars, Inv, TypeOK,
         TypeDrains, TypeMeter, TypeQueue, ClaimsOK, TypeRest, RowsOK, UnitsOK, TakenOK,
         Protected, Message, Idle, Waiting
<1>10. ASSUME NEW d \in Drains, LogSent(d) PROVE TakenOK'
  BY <1>10, OutboundAssumption DEF LogSent, Goto, meterVars, Inv, TypeOK, TypeDrains,
         TypeMeter, TypeQueue, ClaimsOK, TypeRest, RowsOK, UnitsOK, TakenOK, Protected,
         Message, Idle, Waiting
<1>11. ASSUME NEW d \in Drains, RowSent(d) PROVE TakenOK'
  BY <1>11, OutboundAssumption DEF RowSent, Leave, meterVars, Inv, TypeOK, TypeDrains,
         TypeMeter, TypeQueue, ClaimsOK, TypeRest, RowsOK, UnitsOK, TakenOK, Protected,
         Message, Idle, Waiting
<1>12. ASSUME NEW d \in Drains, Raise(d) PROVE TakenOK'
  <2>1. /\ my[d].m \in Msgs /\ hold[my[d].m] = "committed"
        /\ pc' = [pc EXCEPT ![d] = "failed"] /\ my' = [my EXCEPT ![d].said = "busy"]
        /\ UNCHANGED <<hold, accepted>>
        /\ row' \in {row, [row EXCEPT ![my[d].m].status = "sent"]}
    BY <1>12, Facts DEF Raise, Fault, Goto, meterVars, Protected, Inv, UnitsOK
  <2> QED
    BY <2>1 DEF Inv, TypeOK, TypeDrains, TypeQueue, TakenOK
<1>13. ASSUME NEW d \in Drains, Fail(d) PROVE TakenOK'
  <2>1. /\ my[d].m \in Msgs /\ pc[d] = "failed" /\ UNCHANGED <<accepted, hold>>
        /\ \A n \in Msgs \ {my[d].m} : row'[n] = row[n]
    BY <1>13, FailShape
  <2>2. \A e \in Drains : /\ my'[e].m # None => my'[e].m = my[e].m
                          /\ e # d => pc'[e] = pc[e]
    BY <1>13, FailShape DEF Inv, TypeOK, TypeDrains, Idle
  <2>3. \A n \in Msgs : \/ row'[n] = row[n]
                        \/ \E e \in Drains : my[e].m = n /\ pc[e] \notin {"commit", "doubt"}
    BY <2>1
  <2>4. \A e \in Drains : my'[e].m # None =>
              my'[e].m = my[e].m /\ (pc'[e] = pc[e] \/ pc[e] \notin {"commit", "doubt"})
    BY <2>1, <2>2
  <2>5. TakenOK
    BY DEF Inv
  <2> QED
    BY <2>1, <2>3, <2>4, <2>5, TakenFrame
<1>14. ASSUME NEW d \in Drains, Release(d) PROVE TakenOK'
  BY <1>14, OutboundAssumption DEF Release, Goto, Settled, Reserved, queueVars, Inv, TypeOK,
         TypeDrains, TypeMeter, TypeQueue, ClaimsOK, TypeRest, RowsOK, UnitsOK, TakenOK,
         Protected, Message, Idle, Waiting
<1>15. ASSUME NEW d \in Drains, Uncount(d) PROVE TakenOK'
  BY <1>15, OutboundAssumption DEF Uncount, Goto, queueVars, Inv, TypeOK, TypeDrains,
         TypeMeter, TypeQueue, ClaimsOK, TypeRest, RowsOK, UnitsOK, TakenOK, Protected,
         Message, Idle, Waiting
<1>16. ASSUME NEW d \in Drains, PutOff(d) PROVE TakenOK'
  BY <1>16, OutboundAssumption DEF PutOff, Leave, meterVars, Inv, TypeOK, TypeDrains,
         TypeMeter, TypeQueue, ClaimsOK, TypeRest, RowsOK, UnitsOK, TakenOK, Protected,
         Message, Idle, Waiting
<1>17. ASSUME NEW d \in Drains, Notify(d) PROVE TakenOK'
  BY <1>17, OutboundAssumption DEF Notify, Leave, meterVars, Inv, TypeOK, TypeDrains,
         TypeMeter, TypeQueue, ClaimsOK, TypeRest, RowsOK, UnitsOK, TakenOK, Protected,
         Message, Idle, Waiting
<1>18. ASSUME NEW d \in Drains, Doubt(d) PROVE TakenOK'
  BY <1>18, OutboundAssumption DEF Doubt, Leave, Unconfirmed, Settled, Reserved, Inv,
         TypeOK, TypeDrains, TypeMeter, TypeQueue, ClaimsOK, TypeRest, RowsOK, UnitsOK,
         TakenOK, Protected, Message, Idle, Waiting
<1>19. ASSUME NEW d \in Drains, Crash(d) PROVE TakenOK'
  <2> DEFINE m == my[d].m
  <2>1. m \in Msgs /\ UNCHANGED <<row, hold>>
    BY <1>19, Facts DEF Crash, queueVars, meterVars
  <2>2. \A e \in Drains : my'[e].m # None => e # d /\ my'[e].m = my[e].m /\ pc'[e] = pc[e]
    BY <1>19 DEF Crash, Idle, Inv, TypeOK, TypeDrains
  <2>3. TakenOK
    BY DEF Inv
  <2>4. CASE accepted' = accepted
    BY <2>1, <2>2, <2>3, <2>4, TakenFrame
  <2>5. CASE pc[d] = "call" /\ accepted' = Taken(m)
    <3>1. accepted[m] = 0 /\ hold[m] = "reserved" /\ row[m].status = "sending"
      BY <2>1, <2>5 DEF Inv, TypeOK, TypeRest, UnitsOK, TakenOK
    <3>2. accepted'[m] = 1 /\ \A n \in Msgs \ {m} : accepted'[n] = accepted[n]
      BY <2>1, <2>5, <3>1 DEF Taken, Inv, TypeOK, TypeRest
    <3>3. \A e \in Drains : e # d => my[e].m # m
      BY <2>1, OutboundAssumption DEF Inv, ClaimsOK
    <3> QED
      BY <2>1, <2>2, <2>3, <3>1, <3>2, <3>3, OutboundAssumption DEF TakenOK
  <2> QED
    BY <1>19, <2>4, <2>5 DEF Crash
<1>20. ASSUME NEW d \in Drains, NEW m \in Msgs, Claim(d, m) PROVE TakenOK'
  BY <1>20, OutboundAssumption DEF Claim, Sendable, queueVars, meterVars, Inv, TypeOK,
         TypeDrains, TypeMeter, TypeQueue, ClaimsOK, TypeRest, RowsOK, UnitsOK, TakenOK,
         Protected, Message, Idle, Waiting
<1>21. ASSUME NEW m \in Msgs, CommitStale(m) PROVE TakenOK'
  BY <1>21, OutboundAssumption DEF CommitStale, Settled, Reserved, queueVars, drainVars,
         Inv, TypeOK, TypeDrains, TypeMeter, TypeQueue, ClaimsOK, TypeRest, RowsOK, UnitsOK,
         TakenOK, Protected, Message, Idle, Waiting
<1>22. ASSUME NEW m \in Msgs, RecoverSending(m) PROVE TakenOK'
  BY <1>22, OutboundAssumption DEF RecoverSending, Unconfirmed, Settled, Reserved,
         drainVars, Inv, TypeOK, TypeDrains, TypeMeter, TypeQueue, ClaimsOK, TypeRest,
         RowsOK, UnitsOK, TakenOK, Protected, Message, Idle, Waiting
<1>23. ASSUME NEW m \in Msgs, Defer(m) PROVE TakenOK'
  BY <1>23, OutboundAssumption DEF Defer, meterVars, drainVars, Inv, TypeOK, TypeDrains,
         TypeMeter, TypeQueue, ClaimsOK, TypeRest, RowsOK, UnitsOK, TakenOK, Protected,
         Message, Idle, Waiting
<1>24. ASSUME NEW m \in Msgs, Tick(m) PROVE TakenOK'
  BY <1>24, TickShape DEF Inv, TakenOK
<1>25. ASSUME NEW m \in Msgs, CancelStaleHold(m) PROVE TakenOK'
  BY <1>25, OutboundAssumption DEF CancelStaleHold, Unworked, meterVars, drainVars, Inv,
         TypeOK, TypeDrains, TypeMeter, TypeQueue, ClaimsOK, TypeRest, RowsOK, UnitsOK,
         TakenOK, Protected, Message, Idle, Waiting
<1>26. ASSUME NEW m \in Msgs, ReportFound(m) PROVE TakenOK'
  BY <1>26, OutboundAssumption DEF ReportFound, meterVars, drainVars, Inv, TypeOK,
         TypeDrains, TypeMeter, TypeQueue, ClaimsOK, TypeRest, RowsOK, UnitsOK, TakenOK,
         Protected, Message, Idle, Waiting
<1>27. ASSUME ProcessChunk PROVE TakenOK'
  BY <1>27, ChunkShape DEF Inv, RowsOK, TakenOK
<1>28. ASSUME WithdrawWrite PROVE TakenOK'
  BY <1>28, OutboundAssumption DEF WithdrawWrite, Pending, meterVars, drainVars, Inv,
         TypeOK, TypeDrains, TypeMeter, TypeQueue, ClaimsOK, TypeRest, RowsOK, UnitsOK,
         TakenOK, Protected, Message, Idle, Waiting
<1>29. ASSUME NEW m \in Msgs,
            Expire(m) \/ Report(m) \/ ReportDropped(m)
      PROVE TakenOK'
  BY <1>29, OutboundAssumption DEF Expire, Report, ReportDropped, queueVars, meterVars,
         drainVars, Inv, TypeOK, TypeDrains, TypeMeter, TypeQueue, ClaimsOK, TypeRest,
         RowsOK, UnitsOK, TakenOK, Protected, Message, Idle, Waiting
<1>30. ASSUME Schedule \/ SaveDraft \/ StartCampaign \/ TakeTask \/ ChunkFails \/ CampaignFailed \/ SenderCrash \/
               Sweep \/ Pause \/ Resume \/ WithdrawRead \/ CampTick
      PROVE TakenOK'
  BY <1>30, OutboundAssumption DEF Schedule, SaveDraft, StartCampaign, TakeTask, ChunkFails,
         CampaignFailed, SenderCrash, Sweep, Pause, Resume, WithdrawRead, CampTick,
         queueVars, meterVars, drainVars, Inv, TypeOK, TypeDrains, TypeMeter, TypeQueue,
         ClaimsOK, TypeRest, RowsOK, UnitsOK, TakenOK, Protected, Message, Idle, Waiting
<1> QED
  BY <1>1, <1>2, <1>3, <1>4, <1>5, <1>6, <1>7, <1>8, <1>9, <1>10, <1>11, <1>12, <1>13,
     <1>14, <1>15, <1>16, <1>17, <1>18, <1>19, <1>20, <1>21, <1>22, <1>23, <1>24, <1>25,
     <1>26, <1>27, <1>28, <1>29, <1>30 DEF Next, Work, Campaigns
-----------------------------------------------------------------------------
\* Nothing is claimed, reserved or sent at first.
LEMMA InitInv == Init => Inv
<1> SUFFICES ASSUME Init PROVE Inv
  OBVIOUS
<1>1. NewRow \in Message /\ QueuedRow \in Message
  <2>1. NewRow \in Message
    BY OutboundAssumption DEF NewRow, Message, Waiting
  <2> QED
    BY <2>1 DEF QueuedRow, Message, Waiting
<1>2. TypeQueue /\ TypeMeter /\ TypeDrains
  BY <1>1 DEF Init, TypeQueue, TypeMeter, TypeDrains, LogStatus, Idle
<1>3. TypeCampaign
  <2>1. camp \in Campaign
    BY DEF Init, Campaign, Draft, Active, Editable
  <2>2. tasks \in 0..MaxTasks
    BY OutboundAssumption DEF Init
  <2> QED
    BY <2>1, <2>2 DEF Init, TypeCampaign
<1>4. TypeRest
  BY OutboundAssumption DEF Init, TypeRest
<1>5. ClaimsOK
  BY DEF Init, ClaimsOK, Idle
<1>6. RowsOK
  <2>1. \A d \in Drains : my[d].m = None /\ pc[d] = "idle"
    BY DEF Init, Idle
  <2>2. camp.status \in Editable => \A m \in Msgs : row[m].status = "absent"
    BY DEF Init, Editable, Draft, NewRow
  <2> QED
    BY <2>1, <2>2 DEF Init, RowsOK
<1>7. UnitsOK /\ TakenOK
  BY DEF Init, UnitsOK, TakenOK
<1> QED
  BY <1>2, <1>3, <1>4, <1>5, <1>6, <1>7 DEF Inv, TypeOK

\* Inv reads no other variable.
LEMMA StutterKept == Inv /\ UNCHANGED vars => Inv'
BY DEF vars, queueVars, meterVars, drainVars, campVars, rest, Inv, TypeOK, TypeQueue, TypeMeter,
       TypeDrains, TypeCampaign, TypeRest, ClaimsOK, RowsOK, UnitsOK, TakenOK, Protected, Pending, Unworked

\* Inv is inductive.
LEMMA NextKept == Inv /\ Next => Inv'
<1> SUFFICES ASSUME Inv, Next PROVE Inv'
  OBVIOUS
<1>1. TypeOK'
  BY QueueTyped, MeterTyped, DrainsTyped, CampaignTyped, RestTyped DEF TypeOK
<1>2. ClaimsOK' /\ RowsOK'
  BY ClaimsKept, RowsKept
<1>3. ASSUME Protected' PROVE UnitsOK' /\ TakenOK'
  <2>1. Protected
    BY <1>3, SceneKept DEF Protected
  <2> QED
    BY <2>1, UnitsKept, TakenKept
<1> QED
  BY <1>1, <1>2, <1>3 DEF Inv

\* Inv holds always.
LEMMA InvHolds == Spec => []Inv
<1>1. Inv /\ [Next]_vars => Inv'
  BY NextKept, StutterKept
<1> QED
  BY InitInv, <1>1, PTL DEF Spec

-----------------------------------------------------------------------------
\* Every row, counter and program counter keeps its type: mark_failed never
\* counts an attempt past MAX_ATTEMPTS, no conditional save invents a state.
THEOREM TypeCorrect == Spec => []TypeOK
<1>1. Inv => TypeOK
  BY DEF Inv
<1> QED
  BY InvHolds, <1>1, PTL

\* Whatever crashes, times out or fails, and however many drains and campaign
\* users there are, Meta takes a metered message at most once
\* (_claim_for_send, _send_metered, _recover_sending).
THEOREM AcceptOnce == Spec => []AcceptedOnce
<1>1. Inv => AcceptedOnce
  BY DEF Inv, TakenOK, AcceptedOnce
<1> QED
  BY InvHolds, <1>1, PTL

\* A metered message Meta took holds a unit of the plan for ever after:
\* release, the brake and commit_stale never give it back (metering.py).
THEOREM AcceptCounted == Spec => []AcceptedIsCounted
<1>1. Inv => AcceptedIsCounted
  BY DEF Inv, TakenOK, AcceptedIsCounted
<1> QED
  BY InvHolds, <1>1, PTL

-----------------------------------------------------------------------------
(* The counter of the period counts the units in use, and those that a     *)
(* drain has released and not yet taken off.                               *)

CountInv == IsFiniteSet(Owed) /\ Counted

Used(m) == hold[m] \in {"reserved", "committed"}
Owing(d) == pc[d] = "uncount" /\ my[d].mine

LEMMA OpenFinite == IsFiniteSet(Open) /\ Cardinality(Open) \in Nat
BY OutboundAssumption, FS_Subset, FS_CardinalityType DEF Open

\* Steps that neither reserve nor give back.
LEMMA CountFrame ==
  ASSUME CountInv, \A m \in Msgs : (Used(m))' <=> Used(m), \A d \in Drains : (Owing(d))' <=> Owing(d),
         used' = used, scene' = scene
  PROVE  CountInv'
<1>1. Open' = Open
  BY DEF Open, Used
<1>2. Owed' = Owed
  BY DEF Owed, Owing
<1> QED
  BY <1>1, <1>2 DEF CountInv, Counted

\* A unit is settled as it was meant: in use, unless it is released.
LEMMA SettledUsed ==
  ASSUME Inv, NEW m \in Msgs
  PROVE  /\ \A n \in Msgs : Settled(m, "committed")[n] \in {"reserved", "committed"} <=> Used(n)
         /\ Settled(m, "released") # hold <=> Reserved(m)
         /\ Reserved(m) => {n \in Msgs : Settled(m, "released")[n] \in {"reserved", "committed"}} = Open \ {m}
BY DEF Inv, TypeOK, TypeMeter, Settled, Reserved, Used, Open

\* A drain that was not to give a unit back, and is not now.
LEMMA OwingFrame ==
  ASSUME Inv, NEW d \in Drains, pc[d] # "uncount", pc'[d] # "uncount",
         \A e \in Drains \ {d} : pc'[e] = pc[e] /\ my'[e] = my[e]
  PROVE  \A e \in Drains : (Owing(e))' <=> Owing(e)
BY DEF Owing

\* A drain goes from one place to another and changes what only it remembers.
LEMMA GoneOwing ==
  ASSUME Inv, NEW d \in Drains, pc[d] # "uncount", NEW at, at # "uncount", pc' = [pc EXCEPT ![d] = at],
         \A e \in Drains \ {d} : my'[e] = my[e]
  PROVE  \A e \in Drains : (Owing(e))' <=> Owing(e)
<1>1. pc'[d] = at /\ \A e \in Drains \ {d} : pc'[e] = pc[e]
  BY DEF Inv, TypeOK, TypeDrains
<1> QED
  BY <1>1, OwingFrame

\* Most steps of a drain.
LEMMA DrainCounted ==
  ASSUME Inv, CountInv, NEW d \in Drains,
         \/ Refuse(d) \/ NoProvider(d) \/ Unmetered(d) \/ Hold(d) \/ Start(d) \/ Call(d) \/ Commit(d) \/ LogSent(d)
         \/ RowSent(d) \/ Raise(d) \/ Fail(d) \/ PutOff(d) \/ Notify(d) \/ Doubt(d)
  PROVE  CountInv'
<1>0. pc[d] \notin {"uncount", "idle"} /\ used' = used
  BY DEF Refuse, NoProvider, Unmetered, Hold, Start, Call, Commit, LogSent, RowSent, Raise, Fail, PutOff, Notify, Doubt, meterVars
<1>1. my[d].m \in Msgs
  BY <1>0, Facts
<1>2. \A m \in Msgs : (Used(m))' <=> Used(m)
  <2>1. CASE Commit(d) \/ Doubt(d)
    <3>1. hold' = hold \/ hold' = Settled(my[d].m, "committed")
      BY <2>1 DEF Commit, Doubt, Unconfirmed
    <3> QED
      BY <1>1, <3>1, SettledUsed DEF Used
  <2>2. CASE ~(Commit(d) \/ Doubt(d))
    <3>1. hold' = hold
      BY <2>2 DEF Refuse, NoProvider, Unmetered, Hold, Start, Call, LogSent, RowSent, Raise, Fail, PutOff, Notify, meterVars
    <3> QED
      BY <3>1 DEF Used
  <2> QED
    BY <2>1, <2>2
<1>3. \A e \in Drains : (Owing(e))' <=> Owing(e)
  <2>1. CASE Leave(d)
    <3>1. \A e \in Drains \ {d} : my'[e] = my[e]
      BY <2>1 DEF Leave, Inv, TypeOK, TypeDrains
    <3> QED
      BY <1>0, <2>1, <3>1, GoneOwing DEF Leave
  <2>2. CASE ~Leave(d)
    <3>1. \E at \in {"notify", "failed", "go", "call", "commit", "doubt", "log", "sent", "release"} : Goto(d, at)
      BY <2>2 DEF Refuse, NoProvider, Unmetered, Hold, Start, Call, Commit, LogSent, RowSent, Raise, Fail, PutOff, Notify,
                  Doubt, Doubtful
    <3>2. my' = my \/ \E said : my' = [my EXCEPT ![d].said = said]
      BY <2>2 DEF Refuse, NoProvider, Unmetered, Hold, Start, Call, Commit, LogSent, RowSent, Raise, Fail, PutOff, Notify, Doubt
    <3>3. \A e \in Drains \ {d} : my'[e] = my[e]
      BY <3>2 DEF Inv, TypeOK, TypeDrains
    <3> QED
      BY <1>0, <3>1, <3>3, GoneOwing DEF Goto
  <2> QED
    BY <2>1, <2>2
<1>4. scene' = scene
  BY DEF Refuse, NoProvider, Unmetered, Hold, Start, Call, Commit, LogSent, RowSent, Raise, Fail, PutOff, Notify, Doubt, rest
<1> QED
  BY <1>0, <1>2, <1>3, <1>4, CountFrame

\* reserve: the counter and the reservation together, while there is room.
LEMMA ReserveCounted ==
  ASSUME Inv, CountInv, NEW d \in Drains, ReserveUnit(d) PROVE CountInv'
<1> DEFINE m == my[d].m
<1>0. /\ pc[d] = "ready" /\ m \in Msgs /\ scene' = scene
      /\ hold \in [Msgs -> {"none", "reserved", "committed", "released"}] /\ used \in Nat
  BY Facts DEF ReserveUnit, rest, Inv, TypeOK, TypeMeter
<1>1. Owed' = Owed
  <2>1. \A e \in Drains \ {d} : my'[e] = my[e]
    BY DEF ReserveUnit, Inv, TypeOK, TypeDrains
  <2>2. \E at \in {"hold", "doubt", "go"} : Goto(d, at)
    BY DEF ReserveUnit
  <2> QED
    BY <1>0, <2>1, <2>2, GoneOwing DEF Goto, Owed, Owing
<1>2. Reserve(m)
  BY DEF ReserveUnit
<1>3. CASE hold[m] \in {"none", "released"} /\ HasRoom
  <2>1. hold' = [hold EXCEPT ![m] = "reserved"] /\ used' = used + 1 /\ used + 1 <= Limit
    BY <1>2, <1>3 DEF Reserve, HasRoom
  <2>2. Open' = Open \cup {m} /\ m \notin Open
    BY <1>0, <1>3, <2>1 DEF Open
  <2>3. Cardinality(Open') = Cardinality(Open) + 1
    BY <2>2, OpenFinite, FS_AddElement
  <2> QED
    BY <1>0, <1>1, <2>1, <2>3, OpenFinite, FS_CardinalityType DEF CountInv, Counted
<1>4. CASE ~(hold[m] \in {"none", "released"} /\ HasRoom)
  <2>1. used' = used /\ (hold' = hold \/ (hold[m] \in {"none", "released"} /\ hold' = [hold EXCEPT ![m] = "none"]))
    BY <1>2, <1>4 DEF Reserve, meterVars
  <2>2. Open' = Open
    BY <1>0, <2>1 DEF Open
  <2> QED
    BY <1>0, <1>1, <2>1, <2>2 DEF CountInv, Counted
<1> QED
  BY <1>3, <1>4

\* release: the reservation now, the counter in the next step of this drain.
LEMMA ReleaseCounted ==
  ASSUME Inv, CountInv, NEW d \in Drains, Brake(d) \/ Release(d) PROVE CountInv'
<1> DEFINE m == my[d].m
<1>0. /\ pc[d] \in {"go", "release"} /\ m \in Msgs /\ scene' = scene /\ used' = used /\ used \in Nat
      /\ my \in [Drains -> [m : Msgs \cup {None}, said : {"none", "refused", "busy", "brake"}, mine : BOOLEAN]]
      /\ pc' = [pc EXCEPT ![d] = "uncount"]
  BY Facts DEF Brake, Release, Goto, rest, Inv, TypeOK, TypeMeter, TypeDrains
<1>1. my'[d].mine = (hold' # hold) /\ \A e \in Drains \ {d} : my'[e] = my[e]
  BY <1>0 DEF Brake, Release
<1>2. pc'[d] = "uncount" /\ \A e \in Drains \ {d} : pc'[e] = pc[e]
  BY <1>0 DEF Inv, TypeOK, TypeDrains
<1>3. hold' = hold \/ hold' = Settled(m, "released")
  BY DEF Brake, Release
<1>4. d \notin Owed
  BY <1>0 DEF Owed
<1>5. CASE hold' = hold
  <2>1. Owed' = Owed
    BY <1>1, <1>2, <1>4, <1>5 DEF Owed
  <2> QED
    BY <1>0, <1>5, <2>1 DEF CountInv, Counted, Open
<1>6. CASE hold' # hold
  <2>1. hold' = Settled(m, "released") /\ Reserved(m)
    BY <1>0, <1>3, <1>6, SettledUsed
  <2>2. Open' = Open \ {m} /\ m \in Open
    BY <1>0, <2>1, SettledUsed DEF Open, Reserved
  <2>3. Owed' = Owed \cup {d}
    BY <1>1, <1>2, <1>6 DEF Owed
  <2>4. Cardinality(Open') = Cardinality(Open) - 1
    BY <2>2, OpenFinite, FS_RemoveElement
  <2>5. IsFiniteSet(Owed') /\ Cardinality(Owed') = Cardinality(Owed) + 1
    BY <1>4, <2>3, FS_AddElement DEF CountInv
  <2>6. Cardinality(Owed) \in Nat
    BY FS_CardinalityType DEF CountInv
  <2>7. Cardinality(Open') + Cardinality(Owed') = Cardinality(Open) + Cardinality(Owed)
    BY <2>4, <2>5, <2>6, OpenFinite
  <2>8. used' = used /\ scene' = scene
    BY <1>0
  <2> QED
    BY <2>5, <2>7, <2>8 DEF CountInv, Counted
<1> QED
  BY <1>5, <1>6

\* A drain no longer owes: it takes the unit off, or dies before.
LEMMA UncountCounted ==
  ASSUME Inv, CountInv, NEW d \in Drains, Uncount(d) \/ Crash(d) PROVE CountInv'
<1>0. /\ scene' = scene /\ used \in Nat /\ hold' = hold
      /\ my \in [Drains -> [m : Msgs \cup {None}, said : {"none", "refused", "busy", "brake"}, mine : BOOLEAN]]
  BY DEF Uncount, Crash, rest, meterVars, Inv, TypeOK, TypeMeter, TypeDrains
<1>1. Owed' = Owed \ {d}
  <2>1. \E at \in {"defer", "notify", "idle"} : pc' = [pc EXCEPT ![d] = at]
    BY DEF Uncount, Crash, Goto
  <2>2. pc'[d] # "uncount" /\ \A e \in Drains \ {d} : pc'[e] = pc[e]
    BY <2>1 DEF Inv, TypeOK, TypeDrains
  <2>3. \A e \in Drains \ {d} : my'[e] = my[e]
    BY <1>0 DEF Uncount, Crash
  <2> QED
    BY <2>2, <2>3 DEF Owed
<1>2. Open' = Open
  BY <1>0 DEF Open
<1>3. IsFiniteSet(Owed') /\ Cardinality(Owed') = IF d \in Owed THEN Cardinality(Owed) - 1 ELSE Cardinality(Owed)
  BY <1>1, FS_RemoveElement DEF CountInv
<1>4. Cardinality(Owed) \in Nat /\ Cardinality(Owed') \in Nat /\ Cardinality(Open) \in Nat
  BY <1>3, OpenFinite, FS_CardinalityType DEF CountInv
<1>5. CASE Uncount(d)
  <2>1. used' = IF d \in Owed /\ used > 0 THEN used - 1 ELSE used
    BY <1>5 DEF Uncount, Owed
  <2> QED
    BY <1>0, <1>2, <1>3, <1>4, <2>1, OutboundAssumption DEF CountInv, Counted
<1>6. CASE Crash(d)
  <2>1. used' = used /\ "crash" \in scene.faults
    BY <1>6 DEF Crash, Fault, meterVars
  <2> QED
    BY <1>0, <1>2, <1>3, <1>4, <2>1 DEF CountInv, Counted
<1> QED
  BY <1>5, <1>6

LEMMA NextCounted ==
  ASSUME Inv, CountInv, Next \/ UNCHANGED vars PROVE CountInv'
<1>1. ASSUME NEW d \in Drains, NEW m \in Msgs, Claim(d, m) PROVE CountInv'
  <2>1. /\ pc' = [pc EXCEPT ![d] = "ready"] /\ pc[d] = "idle" /\ hold' = hold /\ used' = used /\ scene' = scene
        /\ \A e \in Drains \ {d} : my'[e] = my[e]
    BY <1>1 DEF Claim, meterVars, rest, Inv, TypeOK, TypeDrains
  <2>2. \A e \in Drains : (Owing(e))' <=> Owing(e)
    BY <2>1, GoneOwing
  <2> QED
    BY <2>1, <2>2, CountFrame DEF Used
<1>2. ASSUME NEW m \in Msgs, CommitStale(m) \/ RecoverSending(m) PROVE CountInv'
  <2>1. hold' = Settled(m, "committed") /\ used' = used /\ scene' = scene /\ pc' = pc /\ my' = my
    BY <1>2 DEF CommitStale, RecoverSending, Unconfirmed, drainVars, rest
  <2>2. \A n \in Msgs : (Used(n))' <=> Used(n)
    BY <2>1, SettledUsed DEF Used
  <2> QED
    BY <2>1, <2>2, CountFrame DEF Owing
<1>3. CASE \/ \E m \in Msgs : \/ Defer(m) \/ Expire(m) \/ Tick(m) \/ CancelStaleHold(m) \/ Report(m) \/ ReportFound(m)
                              \/ ReportDropped(m)
           \/ Campaigns \/ UNCHANGED vars
  <2>1. hold' = hold /\ used' = used /\ scene' = scene /\ pc' = pc /\ my' = my
    BY <1>3 DEF Defer, Expire, Tick, CancelStaleHold, Report, ReportFound, ReportDropped, Campaigns, Schedule, SaveDraft,
           StartCampaign, TakeTask, ProcessChunk, ChunkFails, CampaignFailed, SenderCrash, Sweep, Pause, Resume,
           WithdrawRead, WithdrawWrite, CampTick, vars, drainVars, meterVars, rest
  <2> QED
    BY <2>1, CountFrame DEF Used, Owing
<1> QED
  BY <1>1, <1>2, <1>3, DrainCounted, ReserveCounted, ReleaseCounted, UncountCounted DEF Next, Work

\* The counter never passes the plan's limit, never falls below the units in
\* use and those being given back, and exceeds them only by what a crash between
\* the two saves of release leaves behind (reserve, commit, release of metering.py).
THEOREM CounterExact == Spec => []Counted
<1>1. Init => CountInv
  <2> SUFFICES ASSUME Init PROVE CountInv
    OBVIOUS
  <2>1. Open = {} /\ Owed = {} /\ used = 0
    BY DEF Init, Open, Owed
  <2> QED
    BY <2>1, FS_EmptySet, OutboundAssumption DEF CountInv, Counted
<1>2. Inv /\ CountInv /\ [Next]_vars => CountInv'
  BY NextCounted
<1>3. CountInv => Counted
  BY DEF CountInv
<1> QED
  BY InvHolds, <1>1, <1>2, <1>3, PTL DEF Spec
=============================================================================
