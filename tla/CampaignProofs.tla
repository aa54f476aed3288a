--------------------------- MODULE CampaignProofs ---------------------------
(***************************************************************************)
(* Proofs about EmailCampaign, for any recipients, workers, chunk, limit   *)
(* of the plan, number of tries and faults: types, that the provider takes *)
(* one mail per recipient, and that in the end the books agree with it.    *)
(***************************************************************************)
EXTENDS EmailCampaign, FiniteSetTheorems, SequenceTheorems, TLAPS

Statuses == {"draft", "queued", "sending", "paused", "completed", "cancelled"}
Places == {"idle", "begin", "chunk", "refuse", "reserve", "hold", "create", "link",
           "enqueue", "tail", "reopen", "complete"}
Mail == Recs \X Copies
Hand == [copy : Statuses \cup {None}, batch : SUBSET Recs, go : SUBSET Recs, new : SUBSET Mail, held : BOOLEAN]

\* What a send task may still have to do: until the provider has answered or
\* the message is dropped, after a drop, and after the mail was taken.
Trying == {<<"gate">>, <<"call">>, <<"failed", "try">>, <<"try">>, <<"retry">>,
           LastTry, <<"lost", "check", "retry">>, <<"check", "retry">>, <<"complete", "retry">>}
Dropping == {Suppressed, Dropped, <<"lost", "check", "release">>,
             <<"check", "release">>, <<"complete", "release">>, <<"release">>}
Closing == {Accepted, <<"commit", "count", "check">>, <<"count", "check">>, <<"check">>, <<"complete">>}
Plans == {<<>>} \cup Trying \cup Dropping \cup Closing

-----------------------------------------------------------------------------
(* The plans of a send task.                                               *)

LEMMA Tails ==
    /\ Tail(<<"failed", "try">>) = <<"try">> /\ Tail(<<"retry">>) = <<>>
    /\ Tail(LastTry) = <<"lost", "check", "retry">>
    /\ Tail(<<"lost", "check", "retry">>) = <<"check", "retry">>
    /\ Tail(<<"check", "retry">>) = <<"retry">> /\ Tail(<<"complete", "retry">>) = <<"retry">>
    /\ Tail(<<"gate">>) = <<>> /\ Tail(<<"call">>) = <<>> /\ Tail(<<"try">>) = <<>>
    /\ Tail(Suppressed) = <<"release">> /\ Tail(<<"release">>) = <<>>
    /\ Tail(Dropped) = <<"lost", "check", "release">>
    /\ Tail(<<"lost", "check", "release">>) = <<"check", "release">>
    /\ Tail(<<"check", "release">>) = <<"release">> /\ Tail(<<"complete", "release">>) = <<"release">>
    /\ Tail(Accepted) = <<"commit", "count", "check">>
    /\ Tail(<<"commit", "count", "check">>) = <<"count", "check">>
    /\ Tail(<<"count", "check">>) = <<"check">> /\ Tail(<<"check">>) = <<>> /\ Tail(<<"complete">>) = <<>>
BY DEF LastTry, Suppressed, Dropped, Accepted

\* "complete" in the place of "check".
LEMMA Joins ==
    /\ <<"complete">> \o <<>> = <<"complete">>
    /\ <<"complete">> \o <<"retry">> = <<"complete", "retry">>
    /\ <<"complete">> \o <<"release">> = <<"complete", "release">>
<1> DEFINE S == {"complete", "retry", "release"}
<1>1. ASSUME NEW x \in S PROVE <<"complete">> \o <<x>> = <<"complete", x>>
  <2> DEFINE u == <<"complete">> \o <<x>>
             v == <<"complete", x>>
  <2>1. <<"complete">> \in Seq(S) /\ <<x>> \in Seq(S) /\ v \in Seq(S)
    OBVIOUS
  <2>2. Len(<<"complete">>) = 1 /\ Len(<<x>>) = 1 /\ Len(v) = 2
    OBVIOUS
  <2>3. u \in Seq(S) /\ Len(u) = 2
    BY <2>1, <2>2
  <2>4. u[1] = "complete" /\ u[2] = x
    BY <2>1, <2>2
  <2>5. v[1] = "complete" /\ v[2] = x
    OBVIOUS
  <2> HIDE DEF u, v
  <2>6. \A i \in 1..Len(u) : u[i] = v[i]
    BY <2>2, <2>3, <2>4, <2>5
  <2>7. u = v
    BY <2>1, <2>2, <2>3, <2>6, SeqEqual
  <2> QED BY <2>7 DEF u, v
<1>2. <<"complete">> \o <<>> = <<"complete">>
  BY <<"complete">> \in Seq(S)
<1> QED BY <1>1, <1>2

\* Which plan it is, from its first step.
LEMMA Heads ==
    ASSUME NEW p \in Plans, p # <<>>
    PROVE  /\ Head(p) = "gate" => p = <<"gate">>
           /\ Head(p) = "call" => p = <<"call">>
           /\ Head(p) = "try" => p = <<"try">>
           /\ Head(p) = "retry" => p = <<"retry">>
           /\ Head(p) = "failed" => p \in {<<"failed", "try">>, Suppressed, Dropped}
           /\ Head(p) = "release" => p \in {LastTry, <<"release">>}
           /\ Head(p) = "lost" => p \in {<<"lost", "check", "retry">>, <<"lost", "check", "release">>}
           /\ Head(p) = "check" => p \in {<<"check", "retry">>, <<"check", "release">>, <<"check">>}
           /\ Head(p) = "complete" => p \in {<<"complete", "retry">>, <<"complete", "release">>, <<"complete">>}
           /\ Head(p) = "sent" => p = Accepted
           /\ Head(p) = "commit" => p = <<"commit", "count", "check">>
           /\ Head(p) = "count" => p = <<"count", "check">>
BY DEF Plans, Trying, Dropping, Closing, LastTry, Suppressed, Dropped, Accepted

LEMMA PlanSteps ==
    ASSUME NEW p \in Plans, p # <<>>
    PROVE  /\ Tail(p) \in Plans /\ (Tail(p) \in Trying => p \in Trying)
           /\ Head(p) = "check" => /\ <<"complete">> \o Tail(p) \in Plans
                                   /\ <<"complete">> \o Tail(p) \in Trying => p \in Trying
           /\ Head(p) = "retry" => Tail(p) = <<>>
<1>0. \A q \in Dropping \cup Closing : q \notin Trying
  BY DEF Trying, Dropping, Closing, LastTry, Suppressed, Dropped, Accepted
<1>00. <<>> \notin Trying
  BY DEF Trying, LastTry
<1>1. CASE p \in Trying
  <2>1. Tail(p) \in Trying \cup {<<>>}
    BY <1>1, Tails DEF Trying
  <2>2. Head(p) = "check" => p = <<"check", "retry">>
    BY <1>1, Heads DEF Plans, Trying, LastTry
  <2>3. Head(p) = "retry" => p = <<"retry">>
    BY Heads
  <2> QED BY <1>1, <2>1, <2>2, <2>3, Tails, Joins DEF Plans, Trying
<1>2. CASE p \in Dropping
  <2>1. Tail(p) \in Dropping \cup {<<>>}
    BY <1>2, Tails DEF Dropping
  <2>2. Head(p) = "check" => p = <<"check", "release">>
    BY <1>2, Heads DEF Plans, Dropping, Suppressed, Dropped
  <2>3. Head(p) # "retry"
    BY <1>2, <1>0, Heads DEF Trying
  <2> QED BY <1>0, <1>00, <2>1, <2>2, <2>3, Tails, Joins DEF Plans, Dropping
<1>3. CASE p \in Closing
  <2>1. Tail(p) \in Closing \cup {<<>>}
    BY <1>3, Tails DEF Closing
  <2>2. Head(p) = "check" => p = <<"check">>
    BY <1>3, Heads DEF Plans, Closing, Accepted
  <2>3. Head(p) # "retry"
    BY <1>3, <1>0, Heads DEF Trying
  <2> QED BY <1>0, <1>00, <2>1, <2>2, <2>3, Tails, Joins DEF Plans, Closing
<1> QED BY <1>1, <1>2, <1>3 DEF Plans

\* What a sender may have to do next after the last look, the call and a try.
LEMMA PlanNames ==
    /\ {<<>>, <<"gate">>, <<"retry">>, <<"call">>, <<"failed", "try">>, Suppressed, Dropped, Accepted, LastTry} \subseteq Plans
    /\ {<<"gate">>, <<"retry">>, <<"call">>, <<"failed", "try">>, <<"try">>, LastTry} \subseteq Trying
    /\ \A p \in {<<>>, Suppressed, Dropped, Accepted} : p \notin Trying
    /\ <<>> \notin {<<"gate">>, <<"retry">>, <<"call">>, <<"failed", "try">>, Suppressed, Dropped, Accepted, LastTry}
BY DEF Plans, Trying, Dropping, Closing, LastTry, Suppressed, Dropped, Accepted

-----------------------------------------------------------------------------
(* Types, and what the workers have in hand.                               *)

\* A dispatcher at rest has nothing in hand; the task for held recipients has its
\* own way; from the creation of messages on there is one per recipient.
HandAt(step, my) ==
    /\ step = "idle" => my = Rested
    /\ my.held => step \in {"reserve", "create", "link", "enqueue", "reopen"}
    /\ step = "reopen" => my.held
    /\ step \in {"link", "enqueue"} => \A r \in Recs : r \in my.go <=> \E k \in Copies : <<r, k>> \in my.new
    /\ \A r \in Recs, j, k \in Copies : <<r, j>> \in my.new /\ <<r, k>> \in my.new => j = k
HandsOK ==
    /\ dmy \in [Dispatchers -> Hand] /\ \A d \in Dispatchers : HandAt(dpc[d], dmy[d])
    /\ todo \in [Senders -> Plans] /\ smy \in [Senders -> Mail \cup {None}]
    /\ \A s \in Senders : todo[s] # <<>> => smy[s] \in Mail

TInv == TypeOK /\ HandsOK

LEMMA RestedHand == Rested \in Hand /\ HandAt("idle", Rested) /\ ~Rested.held /\ Rested.new = {}
BY DEF Rested, Hand, HandAt

\* One dispatcher goes to a step with something in hand.
Moves(d, step, my) == dpc' = [dpc EXCEPT ![d] = step] /\ dmy' = [dmy EXCEPT ![d] = my]

LEMMA MovesKeep ==
    ASSUME TInv, NEW d \in Dispatchers, NEW step \in Places, NEW my \in Hand, HandAt(step, my),
           Moves(d, step, my), UNCHANGED sVars
    PROVE  HandsOK' /\ dpc' \in [Dispatchers -> Places]
<1>1. dpc' \in [Dispatchers -> Places] /\ dmy' \in [Dispatchers -> Hand]
  BY DEF Moves, TInv, TypeOK, HandsOK, Places
<1>2. \A e \in Dispatchers : dpc'[e] = (IF e = d THEN step ELSE dpc[e]) /\ dmy'[e] = (IF e = d THEN my ELSE dmy[e])
  BY DEF Moves, TInv, TypeOK, HandsOK
<1>3. \A e \in Dispatchers : HandAt(dpc'[e], dmy'[e])
  BY <1>2 DEF TInv, HandsOK
<1> QED BY <1>1, <1>3 DEF TInv, HandsOK, sVars

\* One sender goes on with a plan and a message.
Goes(s, plan, mail) == todo' = [todo EXCEPT ![s] = plan] /\ smy' = [smy EXCEPT ![s] = mail]

LEMMA GoesKeep ==
    ASSUME TInv, NEW s \in Senders, NEW plan \in Plans, NEW mail \in Mail,
           Goes(s, plan, mail), UNCHANGED dVars
    PROVE  HandsOK' /\ dpc' \in [Dispatchers -> Places]
<1>1. todo' \in [Senders -> Plans] /\ smy' \in [Senders -> Mail \cup {None}]
  BY DEF Goes, TInv, HandsOK
<1>2. \A t \in Senders : todo'[t] # <<>> => smy'[t] \in Mail
  BY DEF Goes, TInv, HandsOK
<1> QED BY <1>1, <1>2 DEF TInv, HandsOK, TypeOK, dVars, Places

\* A sender with a plan goes on with a rest of it.
LEMMA ThenGoes ==
    ASSUME TInv, NEW s \in Senders, todo[s] # <<>>, NEW plan \in Plans, Then(s, plan)
    PROVE  /\ smy[s] \in Mail /\ todo[s] \in Plans /\ Goes(s, plan, smy[s])
           /\ smy[s][1] \in Recs /\ smy[s][2] \in Copies /\ smy[s] = <<smy[s][1], smy[s][2]>>
BY DEF TInv, HandsOK, Goes, Then, Mail

LEMMA FinishGoes ==
    ASSUME TInv, NEW s \in Senders, todo[s] # <<>>, Finish(s)
    PROVE  /\ smy[s] \in Mail /\ todo[s] \in Plans /\ Tail(todo[s]) \in Plans /\ Goes(s, Tail(todo[s]), smy[s])
           /\ smy[s][1] \in Recs /\ smy[s][2] \in Copies /\ smy[s] = <<smy[s][1], smy[s][2]>>
<1>1. todo[s] \in Plans /\ Tail(todo[s]) \in Plans
  BY PlanSteps DEF TInv, HandsOK
<1> QED BY <1>1, ThenGoes DEF Finish

-----------------------------------------------------------------------------
(* The dispatchers keep the types.                                         *)

RecRow == [status : {"pending", "queued", "held", "sent", "failed"}, msg : 0..MaxCopies]
RestTyped ==
    /\ scene \in Scenes /\ faults \in 0..scene.max /\ limit \in Nat /\ camp \in Statuses
    /\ counts \in [sent : Nat, failed : Nat] /\ rec \in [Recs -> RecRow]
    /\ msg \in [Recs -> [Copies -> Message]]
    /\ hold \in [Recs -> {"none", "reserved", "committed", "released"}]
    /\ on \in BOOLEAN /\ halted \in BOOLEAN /\ optedOut \subseteq Recs
    /\ dtasks \in Nat /\ stasks \in [Recs -> [Copies -> Nat]] /\ accepted \in [Recs -> 0..2]

LEMMA TypeParts == TypeOK <=> RestTyped /\ dpc \in [Dispatchers -> Places]
BY DEF TypeOK, RestTyped, RecRow, Statuses, Places

LEMMA SceneTyped ==
    ASSUME NEW s \in Scenes
    PROVE  /\ s.chunk \in Nat \ {0} /\ s.limit \in Nat /\ s.grown \in Nat /\ s.optOuts \subseteq Recs
           /\ s.max \in Nat /\ s.start \in {"draft", "queued"}
BY EmailAssumption

LEMMA Constants == /\ MaxTries \in Nat \ {0} /\ MaxCopies \in Nat \ {0} /\ IsFiniteSet(Recs)
                   /\ Copies = 1..MaxCopies /\ IsFiniteSet(Copies)
BY EmailAssumption, FS_Interval DEF Copies

LEMMA SubsetsCounted == \A S \in SUBSET Recs : IsFiniteSet(S) /\ Cardinality(S) \in Nat
BY Constants, FS_Subset, FS_CardinalityType

LEMMA MadeTyped == \A r \in Recs : Made(r) \in Nat
<1> TAKE r \in Recs
<1>1. IsFiniteSet({k \in Copies : msg[r][k].status # "none"})
  BY Constants, FS_Subset
<1> QED BY <1>1, FS_CardinalityType DEF Made

LEMMA HandEdits ==
    ASSUME NEW my \in Hand
    PROVE  /\ \A c \in Statuses : /\ [my EXCEPT !.copy = c] \in Hand
                                  /\ [my EXCEPT !.copy = c].new = my.new
                                  /\ [my EXCEPT !.copy = c].held = my.held
           /\ \A b \in SUBSET Recs : /\ [my EXCEPT !.batch = b] \in Hand
                                     /\ [my EXCEPT !.batch = b].batch = b
                                     /\ [my EXCEPT !.batch = b].go = my.go
                                     /\ [my EXCEPT !.batch = b].new = my.new
                                     /\ [my EXCEPT !.batch = b].held = my.held
           /\ \A g \in SUBSET Recs : /\ [my EXCEPT !.go = g] \in Hand
                                     /\ [my EXCEPT !.go = g].go = g
                                     /\ [my EXCEPT !.go = g].batch = my.batch
                                     /\ [my EXCEPT !.go = g].new = my.new
                                     /\ [my EXCEPT !.go = g].held = my.held
           /\ \A n \in SUBSET Mail : /\ [my EXCEPT !.new = n] \in Hand
                                     /\ [my EXCEPT !.new = n].new = n
                                     /\ [my EXCEPT !.new = n].go = my.go
                                     /\ [my EXCEPT !.new = n].batch = my.batch
                                     /\ [my EXCEPT !.new = n].held = my.held
BY DEF Hand

LEMMA MoveTyped ==
    ASSUME TInv, NEW d \in Dispatchers, NEW step \in Places, NEW my \in Hand, HandAt(step, my),
           Moves(d, step, my), UNCHANGED sVars, RestTyped'
    PROVE  TInv'
<1>1. HandsOK' /\ dpc' \in [Dispatchers -> Places]
  BY MovesKeep
<1>2. TypeOK'
  BY <1>1 DEF TypeOK, RestTyped, RecRow, Statuses, Places
<1> QED BY <1>1, <1>2 DEF TInv

\* A task taken up or passed over, the campaign paused, begun, completed or reopened.
LEMMA DispatchMoves ==
    ASSUME TInv, NEW d \in Dispatchers, Dispatch(d)
    PROVE  /\ RestTyped' /\ dpc[d] = "idle" /\ dtasks > 0 /\ dtasks' = dtasks - 1
           /\ UNCHANGED dVars \/ \E my \in Hand : HandAt("begin", my) /\ Moves(d, "begin", my) /\ ~my.held
<1>1. RestTyped'
  BY TypeParts DEF TInv, Dispatch, RestTyped, campVars, planVars, worldVars, sVars
<1>2. CASE camp \notin Ended
  <2> DEFINE my == [Rested EXCEPT !.copy = camp]
  <2>1. camp \in Statuses /\ dmy[d] = Rested
    BY <1>2 DEF TInv, TypeOK, HandsOK, HandAt, Dispatch, Statuses
  <2>2. my \in Hand /\ HandAt("begin", my) /\ ~my.held
    BY <2>1, RestedHand, HandEdits DEF HandAt
  <2>3. Moves(d, "begin", my)
    BY <1>2, <2>1 DEF Dispatch, Moves, Goto, TInv, HandsOK
  <2> QED BY <1>1, <2>2, <2>3 DEF Dispatch
<1>3. CASE camp \in Ended
  BY <1>1, <1>3 DEF Dispatch
<1> QED BY <1>2, <1>3

Stops == {"begin", "complete", "reopen"}
LEMMA StopsTyped ==
    ASSUME TInv, NEW d \in Dispatchers, Pause(d) \/ Complete(d) \/ Reopen(d)
    PROVE  /\ RestTyped' /\ Moves(d, "idle", Rested) /\ dpc[d] \in Stops
           /\ UNCHANGED <<counts, rec, msg, planVars, worldVars, taskVars, sVars, accepted, faults>>
<1>1. RestTyped'
  BY TypeParts DEF TInv, Pause, Complete, Reopen, RestTyped, Statuses, planVars, worldVars, taskVars
<1> QED BY <1>1 DEF Pause, Complete, Reopen, Stop, Moves, Stops

LEMMA BeginMoves ==
    ASSUME TInv, NEW d \in Dispatchers, Begin(d)
    PROVE  RestTyped' /\ dpc[d] = "begin" /\ Moves(d, "chunk", dmy[d]) /\ HandAt("chunk", dmy[d])
<1>1. RestTyped'
  BY TypeParts DEF TInv, Begin, RestTyped, Statuses, planVars, worldVars, taskVars
<1> QED BY <1>1 DEF Begin, Goto, Moves, TInv, HandsOK, HandAt

LEMMA ChunkMoves ==
    ASSUME TInv, NEW d \in Dispatchers, TakeChunk(d)
    PROVE  /\ RestTyped' /\ dpc[d] = "chunk"
           /\ \E batch \in SUBSET Pending : LET my == [dmy[d] EXCEPT !.batch = batch] IN
                 my \in Hand /\ Moves(d, "refuse", my) /\ HandAt("refuse", my)
<1>1. RestTyped'
  BY TypeParts DEF TInv, TakeChunk, RestTyped, campVars, planVars, worldVars, taskVars
<1>2. PICK batch \in SUBSET Pending : dmy' = [dmy EXCEPT ![d].batch = batch]
  BY DEF TakeChunk
<1> DEFINE my == [dmy[d] EXCEPT !.batch = batch]
<1>3. batch \in SUBSET Recs /\ dmy[d] \in Hand /\ HandAt("chunk", dmy[d])
  BY DEF Pending, In, TInv, HandsOK, TakeChunk
<1>4. my \in Hand /\ my.go = dmy[d].go /\ my.new = dmy[d].new /\ my.held = dmy[d].held
  BY <1>3, HandEdits
<1>5. Moves(d, "refuse", my)
  BY <1>2 DEF Moves, TakeChunk, Goto, TInv, HandsOK
<1>6. HandAt("refuse", my)
  BY <1>3, <1>4 DEF HandAt
<1> QED BY <1>1, <1>4, <1>5, <1>6 DEF TakeChunk

\* Where a dispatcher looks whether all is done.
LEMMA LookMoves ==
    ASSUME TInv, NEW d \in Dispatchers, NoChunk(d) \/ GoOn(d)
    PROVE  /\ RestTyped' /\ dpc[d] \in {"chunk", "tail"} /\ ~dmy[d].held
           /\ \/ Moves(d, "complete", dmy[d]) /\ HandAt("complete", dmy[d]) /\ dtasks' = dtasks
              \/ Moves(d, "idle", Rested) /\ dtasks' \in {dtasks, dtasks + 1}
<1>1. RestTyped'
  BY TypeParts DEF TInv, NoChunk, GoOn, RestTyped, campVars, planVars, worldVars, taskVars
<1>2. HandAt(dpc[d], dmy[d]) /\ dpc[d] \in {"chunk", "tail"} /\ dmy \in [Dispatchers -> Hand]
  BY DEF TInv, HandsOK, NoChunk, GoOn
<1>3. HandAt("complete", dmy[d]) /\ ~dmy[d].held
  BY <1>2 DEF HandAt
<1>4. \/ Goto(d, "complete") /\ UNCHANGED dmy /\ dtasks' = dtasks
      \/ Stop(d) /\ dtasks' \in {dtasks, dtasks + 1}
  BY DEF NoChunk, GoOn, taskVars
<1> QED BY <1>1, <1>2, <1>3, <1>4 DEF Goto, Stop, Moves

LEMMA RefuseMoves ==
    ASSUME TInv, NEW d \in Dispatchers, Refuse(d)
    PROVE  LET my == [dmy[d] EXCEPT !.batch = dmy[d].batch \ optedOut]
           IN  RestTyped' /\ dpc[d] = "refuse" /\ my \in Hand /\ Moves(d, "reserve", my) /\ HandAt("reserve", my)
<1> DEFINE out == dmy[d].batch \cap optedOut
           my == [dmy[d] EXCEPT !.batch = dmy[d].batch \ optedOut]
<1>1. dmy[d] \in Hand /\ HandAt("refuse", dmy[d]) /\ dmy[d].batch \subseteq Recs
  BY DEF TInv, HandsOK, Refuse, Hand
<1>2. out \in SUBSET Recs /\ Cardinality(out) \in Nat
  BY <1>1, SubsetsCounted
<1>3. counts' \in [sent : Nat, failed : Nat]
  BY <1>2, TypeParts DEF TInv, RestTyped, Refuse
<1>4. rec' \in [Recs -> RecRow]
  BY TypeParts DEF TInv, RestTyped, Refuse, RecRow
<1>5. RestTyped'
  BY <1>3, <1>4, TypeParts DEF TInv, Refuse, RestTyped, planVars, worldVars, taskVars
<1>6. my \in Hand /\ my.go = dmy[d].go /\ my.new = dmy[d].new /\ my.held = dmy[d].held
  BY <1>1, HandEdits
<1>7. Moves(d, "reserve", my)
  <2>1. dmy' = [dmy EXCEPT ![d].batch = dmy[d].batch \ out] /\ dmy[d].batch \ out = dmy[d].batch \ optedOut
    BY DEF Refuse, TInv, HandsOK
  <2> QED BY <2>1 DEF Moves, Refuse, Goto, TInv, HandsOK
<1>8. HandAt("reserve", my)
  BY <1>1, <1>6 DEF HandAt
<1> QED BY <1>5, <1>6, <1>7, <1>8 DEF Refuse

LEMMA ReserveMoves ==
    ASSUME TInv, NEW d \in Dispatchers, Reserve(d)
    PROVE  /\ RestTyped' /\ dpc[d] = "reserve"
           /\ \E got \in SUBSET Recs :
                 LET my == [dmy[d] EXCEPT !.go = got \cup Standing(dmy[d].batch)]
                     step == IF dmy[d].held THEN "create" ELSE "hold"
                 IN  /\ got \subseteq Fresh(dmy[d].batch)
                     /\ hold' = [r \in Recs |-> IF r \in got THEN "reserved" ELSE hold[r]]
                     /\ my \in Hand /\ Moves(d, step, my) /\ HandAt(step, my)
<1>1. PICK got \in SUBSET Recs :
          /\ Fits(dmy[d].batch, got)
          /\ hold' = [r \in Recs |-> IF r \in got THEN "reserved" ELSE hold[r]]
          /\ dmy' = [dmy EXCEPT ![d].go = got \cup Standing(dmy[d].batch)]
  BY DEF Reserve
<1> DEFINE go == got \cup Standing(dmy[d].batch)
           my == [dmy[d] EXCEPT !.go = go]
           step == IF dmy[d].held THEN "create" ELSE "hold"
<1>2. dmy[d] \in Hand /\ HandAt("reserve", dmy[d]) /\ dmy[d].batch \subseteq Recs
  BY DEF TInv, HandsOK, Reserve, Hand
<1>3. RestTyped'
  BY <1>1, TypeParts DEF TInv, Reserve, RestTyped, campVars, worldVars, taskVars
<1>4. go \in SUBSET Recs
  BY <1>2 DEF Standing
<1>5. my \in Hand /\ my.go = go /\ my.new = dmy[d].new /\ my.held = dmy[d].held
  BY <1>2, <1>4, HandEdits
<1>6. Moves(d, step, my)
  BY <1>1 DEF Moves, Reserve, Goto, TInv, HandsOK
<1>7. HandAt(step, my)
  BY <1>2, <1>5 DEF HandAt
<1>8. got \subseteq Fresh(dmy[d].batch)
  BY <1>1 DEF Fits
<1> QED BY <1>1, <1>3, <1>5, <1>6, <1>7, <1>8 DEF Reserve

LEMMA HoldMoves ==
    ASSUME TInv, NEW d \in Dispatchers, Hold(d)
    PROVE  RestTyped' /\ dpc[d] = "hold" /\ Moves(d, "create", dmy[d]) /\ HandAt("create", dmy[d])
<1>1. rec' \in [Recs -> RecRow]
  BY TypeParts DEF TInv, RestTyped, Hold, RecRow
<1>2. RestTyped'
  BY <1>1, TypeParts DEF TInv, Hold, RestTyped, campVars, planVars, worldVars, taskVars
<1> QED BY <1>2 DEF Hold, Goto, Moves, TInv, HandsOK, HandAt

LEMMA CreateMoves ==
    ASSUME TInv, NEW d \in Dispatchers, Create(d)
    PROVE  LET my == [dmy[d] EXCEPT !.new = {<<r, Made(r) + 1>> : r \in dmy[d].go}]
               step == IF dmy[d].go # {} THEN "link" ELSE IF dmy[d].held THEN "reopen" ELSE "tail"
           IN  /\ RestTyped' /\ dpc[d] = "create" /\ my \in Hand /\ Moves(d, step, my) /\ HandAt(step, my)
               /\ \A r \in Recs, k \in Copies : msg'[r][k].pid = msg[r][k].pid
                                             /\ msg'[r][k].tries = msg[r][k].tries
                                             /\ msg'[r][k].status \in {msg[r][k].status, "queued"}
<1> DEFINE new == {<<r, Made(r) + 1>> : r \in dmy[d].go}
           my == [dmy[d] EXCEPT !.new = new]
           step == IF dmy[d].go # {} THEN "link" ELSE IF dmy[d].held THEN "reopen" ELSE "tail"
<1>1. dmy[d] \in Hand /\ HandAt("create", dmy[d]) /\ dmy[d].go \subseteq Recs
  BY DEF TInv, HandsOK, Create, Hand
<1>2. \A r \in dmy[d].go : Made(r) + 1 \in Copies
  BY <1>1, MadeTyped, Constants DEF Create
<1>3. msg \in [Recs -> [Copies -> Message]]
  BY TypeParts DEF TInv, RestTyped
<1>4. \A r \in dmy[d].go : [msg[r] EXCEPT ![Made(r) + 1].status = "queued"] \in [Copies -> Message]
  BY <1>1, <1>2, <1>3 DEF Message
<1>5. msg' \in [Recs -> [Copies -> Message]]
  BY <1>3, <1>4 DEF Create
<1>6. RestTyped'
  BY <1>5, TypeParts DEF TInv, Create, RestTyped, campVars, planVars, worldVars, taskVars
<1>7. new \in SUBSET Mail
  BY <1>1, <1>2 DEF Mail
<1>8. my \in Hand /\ my.new = new /\ my.go = dmy[d].go /\ my.held = dmy[d].held
  BY <1>1, <1>7, HandEdits
<1>9. Moves(d, step, my)
  BY DEF Moves, Create, Goto, TInv, HandsOK
<1>10. \A r \in Recs, k \in Copies : <<r, k>> \in new <=> r \in dmy[d].go /\ k = Made(r) + 1
  OBVIOUS
<1>11. HandAt(step, my)
  <2>1. my = Rested \/ step # "idle"
    OBVIOUS
  <2>2. my.held => step \in {"reserve", "create", "link", "enqueue", "reopen"}
    BY <1>8
  <2>3. step = "reopen" => my.held
    BY <1>8
  <2>4. \A r \in Recs : r \in my.go <=> \E k \in Copies : <<r, k>> \in my.new
    BY <1>2, <1>8, <1>10
  <2>5. \A r \in Recs, j, k \in Copies : <<r, j>> \in my.new /\ <<r, k>> \in my.new => j = k
    BY <1>8, <1>10
  <2> HIDE DEF my, step
  <2> QED BY <2>1, <2>2, <2>3, <2>4, <2>5 DEF HandAt
<1>12. ASSUME NEW r \in Recs, NEW k \in Copies
       PROVE  /\ msg'[r][k].pid = msg[r][k].pid /\ msg'[r][k].tries = msg[r][k].tries
              /\ msg'[r][k].status \in {msg[r][k].status, "queued"}
  BY <1>1, <1>2, <1>3 DEF Create, Message
<1> QED BY <1>6, <1>8, <1>9, <1>11, <1>12 DEF Create

LEMMA LinkMoves ==
    ASSUME TInv, NEW d \in Dispatchers, Link(d)
    PROVE  /\ RestTyped' /\ dpc[d] = "link" /\ Moves(d, "enqueue", dmy[d]) /\ HandAt("enqueue", dmy[d])
           /\ \A r \in Recs : r \notin dmy[d].go => rec'[r] = rec[r]
           /\ \A r \in Recs, k \in Copies : <<r, k>> \in dmy[d].new => rec'[r] = [status |-> "queued", msg |-> k]
           /\ \A r \in Recs : r \in dmy[d].go => \E k \in Copies : <<r, k>> \in dmy[d].new
<1>1. dmy[d] \in Hand /\ HandAt("link", dmy[d])
  BY DEF TInv, HandsOK, Link
<1>2. HandAt("enqueue", dmy[d])
  BY <1>1 DEF HandAt
<1>3. \A r \in Recs : r \in dmy[d].go <=> \E k \in Copies : <<r, k>> \in dmy[d].new
  BY <1>1 DEF HandAt
<1>4. rec \in [Recs -> RecRow]
  BY TypeParts DEF TInv, RestTyped
<1>5. ASSUME NEW r \in Recs, NEW k \in Copies, <<r, k>> \in dmy[d].new
      PROVE  rec'[r] = [status |-> "queued", msg |-> k]
  <2>1. (CHOOSE j \in Copies : <<r, j>> \in dmy[d].new) = k
    BY <1>1, <1>5 DEF HandAt
  <2> QED BY <1>5, <2>1 DEF Link
<1>6. \A r \in Recs : r \notin dmy[d].go => rec'[r] = rec[r]
  BY <1>3 DEF Link
<1>7. \A r \in Recs : rec'[r] \in RecRow
  <2> TAKE r \in Recs
  <2>1. CASE r \notin dmy[d].go
    BY <1>4, <1>6, <2>1
  <2>2. CASE r \in dmy[d].go
    <3>1. PICK k \in Copies : <<r, k>> \in dmy[d].new
      BY <1>3, <2>2
    <3>2. k \in 0..MaxCopies
      BY Constants
    <3>3. rec'[r] = [status |-> "queued", msg |-> k]
      BY <1>5, <3>1
    <3>4. [status |-> "queued", msg |-> k] \in RecRow
      BY <3>2 DEF RecRow
    <3> QED BY <3>3, <3>4
  <2> QED BY <2>1, <2>2
<1>8. rec' \in [Recs -> RecRow]
  BY <1>7 DEF Link
<1>9. RestTyped'
  BY <1>8, TypeParts DEF TInv, Link, RestTyped, campVars, planVars, worldVars, taskVars
<1> QED BY <1>2, <1>3, <1>5, <1>6, <1>9 DEF Link, Goto, Moves, TInv, HandsOK

LEMMA EnqueueMoves ==
    ASSUME TInv, NEW d \in Dispatchers, Enqueue(d)
    PROVE  LET step == IF dmy[d].held THEN "reopen" ELSE "tail"
           IN  RestTyped' /\ dpc[d] = "enqueue" /\ Moves(d, step, dmy[d]) /\ HandAt(step, dmy[d])
<1>1. stasks' \in [Recs -> [Copies -> Nat]]
  BY TypeParts DEF TInv, RestTyped, Enqueue
<1>2. RestTyped'
  BY <1>1, TypeParts DEF TInv, Enqueue, RestTyped, campVars, planVars, worldVars
<1> QED BY <1>2 DEF Enqueue, Goto, Moves, TInv, HandsOK, HandAt

LEMMA HeldMoves ==
    ASSUME TInv, NEW d \in Dispatchers, RetryHeld(d)
    PROVE  \E my \in Hand : /\ RestTyped' /\ dpc[d] = "idle" /\ Moves(d, "reserve", my) /\ HandAt("reserve", my)
                            /\ my.batch = In({"held"}) /\ my.held
<1> DEFINE my == [Rested EXCEPT !.copy = camp, !.batch = In({"held"}), !.held = TRUE]
<1>1. camp \in Statuses /\ In({"held"}) \subseteq Recs
  BY TypeParts DEF TInv, RestTyped, In
<1>2. my \in Hand /\ my.batch = In({"held"}) /\ my.held /\ my.new = {} /\ my.go = {}
  BY <1>1 DEF Rested, Hand
<1>3. Moves(d, "reserve", my)
  BY DEF Moves, RetryHeld, Goto
<1>4. HandAt("reserve", my)
  BY <1>2 DEF HandAt
<1>5. RestTyped'
  BY TypeParts DEF TInv, RetryHeld, RestTyped, campVars, planVars, worldVars, taskVars
<1> HIDE DEF my
<1> QED BY <1>2, <1>3, <1>4, <1>5 DEF RetryHeld

LEMMA DiesMoves ==
    ASSUME TInv, NEW d \in Dispatchers, DispatcherDies(d)
    PROVE  RestTyped' /\ Moves(d, "idle", Rested)
<1>1. faults' \in 0..scene.max
  BY TypeParts, SceneTyped DEF TInv, RestTyped, DispatcherDies, Fault
<1>2. RestTyped'
  BY <1>1, TypeParts DEF TInv, DispatcherDies, RestTyped, campVars, planVars, worldVars, taskVars
<1> QED BY <1>2 DEF DispatcherDies, Stop, Moves

LEMMA DispatcherTyped ==
    ASSUME TInv, NEW d \in Dispatchers, Dispatch(d) \/ RetryHeld(d) \/ DispatchStep(d) \/ DispatcherDies(d)
    PROVE  TInv'
<1>0. UNCHANGED sVars
  BY DEF Dispatch, RetryHeld, DispatchStep, DispatcherDies, Pause, Begin, TakeChunk, NoChunk, Refuse, Reserve, Hold,
         Create, Link, Enqueue, GoOn, Complete, Reopen
<1>1. ASSUME RestTyped', UNCHANGED dVars PROVE TInv'
  BY <1>0, <1>1 DEF TInv, HandsOK, TypeOK, RestTyped, RecRow, Statuses, Places, dVars, sVars
<1>2. HandAt("idle", Rested) /\ Rested \in Hand
  BY RestedHand
<1>3. {"idle", "begin", "chunk", "refuse", "reserve", "hold", "create", "link", "tail", "reopen", "enqueue", "complete"} \subseteq Places
  BY DEF Places
<1>4. dmy[d] \in Hand
  BY DEF TInv, HandsOK
<1>5. CASE Dispatch(d)
  BY <1>0, <1>1, <1>3, <1>5, DispatchMoves, MoveTyped
<1>6. CASE RetryHeld(d)
  BY <1>0, <1>3, <1>6, HeldMoves, MoveTyped
<1>7. CASE Pause(d) \/ Complete(d) \/ Reopen(d)
  BY <1>0, <1>2, <1>3, <1>7, StopsTyped, MoveTyped
<1>8. CASE Begin(d)
  BY <1>0, <1>3, <1>4, <1>8, BeginMoves, MoveTyped
<1>9. CASE TakeChunk(d)
  BY <1>0, <1>3, <1>9, ChunkMoves, MoveTyped
<1>10. CASE NoChunk(d) \/ GoOn(d)
  BY <1>0, <1>2, <1>3, <1>4, <1>10, LookMoves, MoveTyped
<1>11. CASE Refuse(d)
  BY <1>0, <1>3, <1>11, RefuseMoves, MoveTyped
<1>12. CASE Reserve(d)
  BY <1>0, <1>3, <1>12, ReserveMoves, MoveTyped
<1>13. CASE Hold(d)
  BY <1>0, <1>3, <1>4, <1>13, HoldMoves, MoveTyped
<1>14. CASE Create(d)
  BY <1>0, <1>3, <1>14, CreateMoves, MoveTyped
<1>15. CASE Link(d)
  BY <1>0, <1>3, <1>4, <1>15, LinkMoves, MoveTyped
<1>16. CASE Enqueue(d)
  BY <1>0, <1>3, <1>4, <1>16, EnqueueMoves, MoveTyped
<1>17. CASE DispatcherDies(d)
  BY <1>0, <1>2, <1>3, <1>17, DiesMoves, MoveTyped
<1> QED BY <1>5, <1>6, <1>7, <1>8, <1>9, <1>10, <1>11, <1>12, <1>13, <1>14, <1>15, <1>16, <1>17 DEF DispatchStep

-----------------------------------------------------------------------------
(* The senders and the world keep the types.                               *)

LEMMA GoTyped ==
    ASSUME TInv, NEW s \in Senders, NEW plan \in Plans, NEW mail \in Mail,
           Goes(s, plan, mail), UNCHANGED dVars, RestTyped'
    PROVE  TInv'
<1>1. HandsOK' /\ dpc' \in [Dispatchers -> Places]
  BY GoesKeep
<1>2. TypeOK'
  BY <1>1 DEF TypeOK, RestTyped, RecRow, Statuses, Places
<1> QED BY <1>1, <1>2 DEF TInv

\* The message of a sender with a plan.
LEMMA AtHand ==
    ASSUME TInv, NEW s \in Senders, todo[s] # <<>>
    PROVE  /\ smy[s] \in Mail /\ smy[s][1] \in Recs /\ smy[s][2] \in Copies /\ smy[s] = <<smy[s][1], smy[s][2]>>
           /\ todo[s] \in Plans /\ Its(s) \in Message /\ Its(s) = msg[smy[s][1]][smy[s][2]]
<1>1. smy[s] \in Mail /\ todo[s] \in Plans /\ msg \in [Recs -> [Copies -> Message]]
  BY TypeParts DEF TInv, HandsOK, RestTyped
<1> QED BY <1>1 DEF Mail, Its

LEMMA SetTyped ==
    ASSUME TInv, NEW s \in Senders, todo[s] # <<>>, NEW m \in Message, Set(s, m)
    PROVE  /\ msg' \in [Recs -> [Copies -> Message]]
           /\ \A r \in Recs, k \in Copies : msg'[r][k] = IF <<r, k>> = smy[s] THEN m ELSE msg[r][k]
<1>1. smy[s][1] \in Recs /\ smy[s][2] \in Copies /\ smy[s] = <<smy[s][1], smy[s][2]>>
  BY AtHand
<1>2. msg \in [Recs -> [Copies -> Message]]
  BY TypeParts DEF TInv, RestTyped
<1> QED BY <1>1, <1>2 DEF Set

LEMMA PointsTyped ==
    ASSUME TInv, NEW s \in Senders, todo[s] # <<>>
    PROVE  /\ Points(s) \in SUBSET Recs /\ Points(s) \subseteq {smy[s][1]}
           /\ \A r \in Points(s) : rec[r].msg = smy[s][2]
BY DEF Points

LEMMA TakeMoves ==
    ASSUME TInv, NEW s \in Senders, NEW r \in Recs, NEW k \in Copies, Take(s, r, k)
    PROVE  /\ RestTyped' /\ todo[s] = <<>> /\ stasks[r][k] > 0
           /\ stasks' = [stasks EXCEPT ![r] = [stasks[r] EXCEPT ![k] = stasks[r][k] - 1]]
           /\ UNCHANGED sVars \/ (Goes(s, <<"gate">>, <<r, k>>) /\ <<r, k>> \in Mail)
<1>1. stasks' \in [Recs -> [Copies -> Nat]]
  BY TypeParts DEF TInv, RestTyped, Take
<1>2. RestTyped'
  BY <1>1, TypeParts DEF TInv, Take, RestTyped, campVars, planVars, worldVars
<1>3. stasks' = [stasks EXCEPT ![r] = [stasks[r] EXCEPT ![k] = stasks[r][k] - 1]]
  BY TypeParts DEF TInv, RestTyped, Take
<1> QED BY <1>2, <1>3 DEF Take, Goes, Mail

\* The plan after the last look.
LEMMA GateMoves ==
    ASSUME TInv, NEW s \in Senders, Gate(s)
    PROVE  /\ RestTyped' /\ todo[s] = <<"gate">>
           /\ \E plan \in {<<"retry">>, Suppressed, Dropped, <<"call">>} : Then(s, plan)
<1>1. RestTyped'
  BY TypeParts DEF TInv, Gate, RestTyped, campVars, planVars, worldVars, taskVars
<1>2. todo[s] = <<"gate">>
  BY Heads DEF TInv, HandsOK, Gate, At
<1>3. \E plan \in {<<"retry">>, Suppressed, Dropped, <<"call">>} : Then(s, plan)
  <2>1. CASE ~on
    BY <2>1 DEF Gate
  <2>2. CASE on /\ smy[s][1] \in optedOut
    BY <2>2 DEF Gate
  <2>3. CASE on /\ smy[s][1] \notin optedOut /\ halted
    BY <2>3 DEF Gate
  <2>4. CASE on /\ smy[s][1] \notin optedOut /\ ~halted
    BY <2>4 DEF Gate
  <2> QED BY <2>1, <2>2, <2>3, <2>4
<1> QED BY <1>1, <1>2, <1>3

LEMMA SendMoves ==
    ASSUME TInv, NEW s \in Senders, Send(s)
    PROVE  /\ RestTyped' /\ todo[s] = <<"call">> /\ smy[s][1] \in Recs
           /\ \/ accepted' = accepted /\ Then(s, <<"failed", "try">>)
              \/ /\ accepted' = [accepted EXCEPT ![smy[s][1]] = IF @ < 2 THEN @ + 1 ELSE @]
                 /\ Then(s, Accepted) \/ ("unanswered" \in scene.faults /\ Then(s, <<"failed", "try">>))
<1>1. todo[s] = <<"call">>
  BY Heads DEF TInv, HandsOK, Send, At
<1>2. smy[s][1] \in Recs
  BY AtHand DEF Send, At
<1>3. \/ accepted' = accepted /\ Then(s, <<"failed", "try">>)
      \/ /\ accepted' = [accepted EXCEPT ![smy[s][1]] = IF @ < 2 THEN @ + 1 ELSE @]
         /\ Then(s, Accepted) \/ ("unanswered" \in scene.faults /\ Then(s, <<"failed", "try">>))
  BY DEF Send, Takes, Fault
<1>4. accepted' \in [Recs -> 0..2]
  <2>1. accepted \in [Recs -> 0..2]
    BY TypeParts DEF TInv, RestTyped
  <2>2. \A n \in 0..2 : (IF n < 2 THEN n + 1 ELSE n) \in 0..2
    OBVIOUS
  <2>3. (IF accepted[smy[s][1]] < 2 THEN accepted[smy[s][1]] + 1 ELSE accepted[smy[s][1]]) \in 0..2
    BY <1>2, <2>1, <2>2
  <2> QED BY <1>2, <1>3, <2>1, <2>3
<1>5. faults' \in 0..scene.max
  BY TypeParts, SceneTyped DEF TInv, RestTyped, Send, Fault
<1>6. RestTyped'
  BY <1>4, <1>5, TypeParts DEF TInv, Send, RestTyped, campVars, planVars, worldVars, taskVars
<1> QED BY <1>1, <1>2, <1>3, <1>6

LEMMA TryMoves ==
    ASSUME TInv, NEW s \in Senders, CountTry(s)
    PROVE  /\ RestTyped' /\ todo[s] = <<"try">>
           /\ \/ Then(s, <<"retry">>)
              \/ Then(s, LastTry) /\ \E r \in Recs, k \in Copies : msg'[r][k].tries >= MaxTries
           /\ \A r \in Recs, k \in Copies : /\ AlreadyAccepted(msg'[r][k]) => AlreadyAccepted(msg[r][k])
                                            /\ msg'[r][k].tries >= msg[r][k].tries
<1>1. todo[s] = <<"try">> /\ todo[s] # <<>>
  BY Heads DEF TInv, HandsOK, CountTry, At
<1>2. Its(s) \in Message /\ smy[s][1] \in Recs /\ smy[s][2] \in Copies /\ smy[s] = <<smy[s][1], smy[s][2]>>
  BY <1>1, AtHand
<1> DEFINE m == [Its(s) EXCEPT !.tries = Its(s).tries + 1]
<1>3. m \in Message /\ m.tries = Its(s).tries + 1 /\ m.status = Its(s).status /\ m.pid = Its(s).pid
  BY <1>2 DEF Message
<1>4. Set(s, m)
  BY DEF CountTry
<1> HIDE DEF m
<1>5. /\ msg' \in [Recs -> [Copies -> Message]]
      /\ \A r \in Recs, k \in Copies : msg'[r][k] = IF <<r, k>> = smy[s] THEN m ELSE msg[r][k]
  BY <1>1, <1>3, <1>4, SetTyped
<1>6. RestTyped'
  BY <1>5, TypeParts DEF TInv, CountTry, RestTyped, campVars, planVars, worldVars, taskVars
<1>7. \/ Then(s, <<"retry">>)
      \/ Then(s, LastTry) /\ Its(s).tries + 1 >= MaxTries
  BY DEF CountTry
<1>8. msg'[smy[s][1]][smy[s][2]].tries = Its(s).tries + 1
  BY <1>2, <1>3, <1>5
<1>9. ASSUME NEW r \in Recs, NEW k \in Copies
      PROVE  /\ AlreadyAccepted(msg'[r][k]) => AlreadyAccepted(msg[r][k])
             /\ msg'[r][k].tries >= msg[r][k].tries
  <2>1. Its(s) = msg[smy[s][1]][smy[s][2]] /\ msg[r][k] \in Message /\ msg[r][k].tries \in Nat
    BY TypeParts DEF Its, TInv, RestTyped, Message
  <2>2. CASE <<r, k>> = smy[s]
    BY <1>2, <1>3, <1>5, <2>1, <2>2 DEF AlreadyAccepted, Message
  <2>3. CASE <<r, k>> # smy[s]
    BY <1>5, <2>1, <2>3
  <2> QED BY <2>2, <2>3
<1> QED BY <1>1, <1>2, <1>6, <1>7, <1>8, <1>9

\* The saves of a sender after the answer or the drop: one variable each, and
\* the rest of the plan.
Saves(s) == MarkSent(s) \/ MarkFailed(s) \/ Retry(s) \/ Commit(s) \/ Release(s)
            \/ CountSent(s) \/ CountLost(s) \/ MarkCompleted(s)

LEMMA MarkMoves ==
    ASSUME TInv, NEW s \in Senders, MarkSent(s) \/ MarkFailed(s)
    PROVE  /\ RestTyped' /\ todo[s] # <<>> /\ Finish(s)
           /\ \A r \in Recs, k \in Copies :
                 /\ msg'[r][k].tries = msg[r][k].tries
                 /\ AlreadyAccepted(msg'[r][k]) => \/ AlreadyAccepted(msg[r][k])
                                                   \/ <<r, k>> = smy[s] /\ MarkSent(s)
<1>1. todo[s] # <<>>
  BY DEF MarkSent, MarkFailed, At
<1>2. Its(s) \in Message /\ smy[s][1] \in Recs /\ smy[s][2] \in Copies /\ smy[s] = <<smy[s][1], smy[s][2]>>
  BY <1>1, AtHand
<1>3. ASSUME NEW m \in Message, Set(s, m), m.tries = Its(s).tries,
             AlreadyAccepted(m) => MarkSent(s) \/ AlreadyAccepted(Its(s)), UNCHANGED <<campVars, rec, planVars, worldVars,
             taskVars, dVars, accepted, faults>>
      PROVE  /\ RestTyped'
             /\ \A r \in Recs, k \in Copies :
                 /\ msg'[r][k].tries = msg[r][k].tries
                 /\ AlreadyAccepted(msg'[r][k]) => \/ AlreadyAccepted(msg[r][k])
                                                   \/ <<r, k>> = smy[s] /\ MarkSent(s)
  <2>1. /\ msg' \in [Recs -> [Copies -> Message]]
        /\ \A r \in Recs, k \in Copies : msg'[r][k] = IF <<r, k>> = smy[s] THEN m ELSE msg[r][k]
    BY <1>1, <1>3, SetTyped
  <2>2. RestTyped'
    BY <1>3, <2>1, TypeParts DEF TInv, RestTyped, campVars, planVars, worldVars, taskVars
  <2>3. ASSUME NEW r \in Recs, NEW k \in Copies
        PROVE  /\ msg'[r][k].tries = msg[r][k].tries
               /\ AlreadyAccepted(msg'[r][k]) => \/ AlreadyAccepted(msg[r][k])
                                                 \/ <<r, k>> = smy[s] /\ MarkSent(s)
    <3>1. CASE <<r, k>> # smy[s]
      BY <2>1, <3>1
    <3>2. CASE <<r, k>> = smy[s]
      <4>1. msg'[r][k] = m /\ msg[r][k] = Its(s)
        BY <1>2, <2>1, <3>2 DEF Its
      <4> QED BY <1>3, <3>2, <4>1
    <3> QED BY <3>1, <3>2
  <2> QED BY <2>2, <2>3
<1>4. CASE MarkSent(s)
  <2> DEFINE m == [Its(s) EXCEPT !.status = "sent", !.pid = TRUE]
  <2>1. m \in Message /\ m.tries = Its(s).tries
    BY <1>2 DEF Message
  <2>2. Set(s, m) /\ UNCHANGED <<campVars, rec, planVars, worldVars, taskVars, dVars, accepted, faults>>
    BY <1>4 DEF MarkSent
  <2> HIDE DEF m
  <2> QED BY <1>1, <1>3, <1>4, <2>1, <2>2 DEF MarkSent
<1>5. CASE MarkFailed(s)
  <2> DEFINE m == [Its(s) EXCEPT !.status = "failed"]
  <2>1. m \in Message /\ m.tries = Its(s).tries /\ m.pid = Its(s).pid /\ m.status = "failed"
    BY <1>2 DEF Message
  <2>2. Set(s, m) /\ UNCHANGED <<campVars, rec, planVars, worldVars, taskVars, dVars, accepted, faults>>
    BY <1>5 DEF MarkFailed
  <2>3. AlreadyAccepted(m) => AlreadyAccepted(Its(s))
    BY <2>1 DEF AlreadyAccepted
  <2> HIDE DEF m
  <2> QED BY <1>1, <1>3, <1>5, <2>1, <2>2, <2>3 DEF MarkFailed
<1> QED BY <1>4, <1>5

LEMMA SavesMove ==
    ASSUME TInv, NEW s \in Senders, Saves(s)
    PROVE  RestTyped' /\ todo[s] # <<>> /\ Finish(s)
<1>1. todo[s] # <<>> /\ Finish(s)
  BY DEF Saves, MarkSent, MarkFailed, Retry, Commit, Release, CountSent, CountLost, MarkCompleted, At
<1>2. smy[s][1] \in Recs /\ smy[s][2] \in Copies /\ Points(s) \in SUBSET Recs
  BY <1>1, AtHand, PointsTyped
<1>r. RestTyped
  BY TypeParts DEF TInv
<1>3. MarkSent(s) \/ MarkFailed(s) => RestTyped'
  BY MarkMoves
<1>4. ASSUME Retry(s) PROVE RestTyped'
  <2>1. stasks' \in [Recs -> [Copies -> Nat]]
    BY <1>2, <1>4, <1>r DEF RestTyped, Retry
  <2> QED BY <1>4, <1>r, <2>1 DEF Retry, RestTyped, campVars, planVars, worldVars
<1>5. ASSUME Commit(s) \/ Release(s) PROVE RestTyped'
  <2>1. hold' = Settled(s, "committed") \/ hold' = Settled(s, "released")
    BY <1>5 DEF Commit, Release
  <2>2. hold' \in [Recs -> {"none", "reserved", "committed", "released"}]
    BY <1>r, <2>1 DEF RestTyped, Settled
  <2>3. UNCHANGED <<campVars, rec, msg, limit, worldVars, taskVars, accepted, faults>>
    BY <1>5 DEF Commit, Release
  <2> QED BY <1>r, <2>2, <2>3 DEF RestTyped, campVars, taskVars, worldVars
<1>6. ASSUME CountSent(s) PROVE RestTyped'
  <2> DEFINE changed == {r \in Points(s) : rec[r].status # "sent"}
  <2>1. Cardinality(changed) \in Nat
    BY <1>2, SubsetsCounted
  <2>2. counts' = [counts EXCEPT !.sent = counts.sent + Cardinality(changed)]
    BY <1>6 DEF CountSent
  <2>3. rec' = [r \in Recs |-> IF r \in changed THEN [rec[r] EXCEPT !.status = "sent"] ELSE rec[r]]
    BY <1>6 DEF CountSent
  <2>4. UNCHANGED <<camp, msg, planVars, worldVars, taskVars, accepted, faults>>
    BY <1>6 DEF CountSent
  <2> HIDE DEF changed
  <2>5. counts' \in [sent : Nat, failed : Nat]
    BY <1>r, <2>1, <2>2 DEF RestTyped
  <2>6. rec' \in [Recs -> RecRow]
    BY <1>r, <2>3 DEF RestTyped, RecRow
  <2> QED BY <1>r, <2>4, <2>5, <2>6 DEF RestTyped, planVars, taskVars, worldVars
<1>7. ASSUME CountLost(s) PROVE RestTyped'
  <2>1. counts' \in [sent : Nat, failed : Nat]
    BY <1>r, <1>7 DEF RestTyped, CountLost
  <2>2. rec' \in [Recs -> RecRow]
    BY <1>r, <1>7 DEF RestTyped, CountLost, RecRow
  <2>3. UNCHANGED <<camp, msg, planVars, worldVars, taskVars, accepted, faults>>
    BY <1>7 DEF CountLost
  <2> QED BY <1>r, <2>1, <2>2, <2>3 DEF RestTyped, planVars, taskVars, worldVars
<1>8. ASSUME MarkCompleted(s) PROVE RestTyped'
  BY <1>8, <1>r DEF MarkCompleted, RestTyped, Statuses, planVars, taskVars, worldVars
<1> QED BY <1>1, <1>3, <1>4, <1>5, <1>6, <1>7, <1>8 DEF Saves

\* A look whether all is done, a step that fails, a worker that dies.
LEMMA CheckMoves ==
    ASSUME TInv, NEW s \in Senders, Check(s)
    PROVE  /\ RestTyped' /\ todo[s] # <<>> /\ Head(todo[s]) = "check"
           /\ Then(s, <<"complete">> \o Tail(todo[s])) \/ Finish(s)
<1>1. RestTyped'
  BY TypeParts DEF TInv, Check, RestTyped, campVars, planVars, worldVars, taskVars
<1> QED BY <1>1 DEF Check, At

LEMMA FailMoves ==
    ASSUME TInv, NEW s \in Senders, StepFails(s) \/ SenderDies(s)
    PROVE  RestTyped' /\ todo[s] # <<>> /\ (Finish(s) \/ Then(s, <<>>))
<1>1. faults' \in 0..scene.max
  BY TypeParts, SceneTyped DEF TInv, RestTyped, StepFails, SenderDies, Fault
<1>2. RestTyped'
  BY <1>1, TypeParts DEF TInv, StepFails, SenderDies, RestTyped, campVars, planVars, worldVars, taskVars
<1> QED BY <1>2 DEF StepFails, SenderDies

SenderActs(s) == SendStep(s) \/ StepFails(s) \/ SenderDies(s)

LEMMA SenderTyped ==
    ASSUME TInv, NEW s \in Senders, SenderActs(s)
    PROVE  TInv'
<1>0. UNCHANGED dVars
  BY DEF SenderActs, SendStep, Gate, Send, MarkSent, MarkFailed, CountTry, Retry, Commit, Release, CountSent,
         CountLost, Check, MarkCompleted, StepFails, SenderDies
<1>1. ASSUME NEW plan \in Plans, Then(s, plan), todo[s] # <<>>, RestTyped' PROVE TInv'
  BY <1>0, <1>1, ThenGoes, GoTyped
<1>2. ASSUME Finish(s), todo[s] # <<>>, RestTyped' PROVE TInv'
  BY <1>0, <1>2, FinishGoes, GoTyped
<1>3. CASE Gate(s)
  BY <1>1, <1>3, GateMoves, PlanNames
<1>4. CASE Send(s)
  BY <1>1, <1>4, SendMoves, PlanNames
<1>5. CASE CountTry(s)
  BY <1>1, <1>5, TryMoves, PlanNames
<1>6. CASE Saves(s)
  BY <1>2, <1>6, SavesMove
<1>7. CASE Check(s)
  <2>1. todo[s] \in Plans
    BY DEF TInv, HandsOK
  <2> QED BY <1>1, <1>2, <1>7, <2>1, CheckMoves, PlanSteps
<1>8. CASE StepFails(s) \/ SenderDies(s)
  BY <1>1, <1>2, <1>8, FailMoves, PlanNames
<1> QED BY <1>3, <1>4, <1>5, <1>6, <1>7, <1>8 DEF SenderActs, SendStep, Saves

LEMMA TakeTyped ==
    ASSUME TInv, NEW s \in Senders, NEW r \in Recs, NEW k \in Copies, Take(s, r, k)
    PROVE  TInv'
<1>1. UNCHANGED dVars
  BY DEF Take
<1>2. CASE UNCHANGED sVars
  BY <1>1, <1>2, TakeMoves DEF TInv, HandsOK, TypeOK, RestTyped, RecRow, Statuses, Places, dVars, sVars
<1>3. CASE Goes(s, <<"gate">>, <<r, k>>) /\ <<r, k>> \in Mail
  BY <1>1, <1>3, TakeMoves, GoTyped, PlanNames
<1> QED BY <1>2, <1>3, TakeMoves

LEMMA WorldTyped ==
    ASSUME TInv, World
    PROVE  /\ TInv' /\ UNCHANGED <<counts, rec, msg, hold, stasks, dVars, sVars, accepted, scene>>
           /\ dtasks' = dtasks \/ "again" \in scene.faults
<1>1. /\ UNCHANGED <<counts, rec, msg, hold, stasks, dVars, sVars, accepted, scene>>
      /\ dtasks' = dtasks \/ "again" \in scene.faults
  BY DEF World, FiredAgain, CancelLate, OptOut, MoreRoom, SwitchOff, SwitchOn, Halt, Fault, campVars, planVars,
         worldVars, taskVars
<1>2. faults' \in 0..scene.max
  BY TypeParts, SceneTyped DEF TInv, RestTyped, World, FiredAgain, CancelLate, OptOut, MoreRoom, SwitchOff, SwitchOn, Halt, Fault
<1>r. RestTyped
  BY TypeParts DEF TInv
<1>3. dtasks' \in Nat /\ camp' \in Statuses
  BY <1>r DEF RestTyped, World, FiredAgain, CancelLate, OptOut, MoreRoom, SwitchOff, SwitchOn, Halt, campVars, taskVars, Statuses
<1>5. limit' \in Nat
  BY <1>r, SceneTyped DEF RestTyped, World, FiredAgain, CancelLate, OptOut, MoreRoom, SwitchOff, SwitchOn, Halt, planVars
<1>6. on' \in BOOLEAN
  BY <1>r DEF RestTyped, World, FiredAgain, CancelLate, OptOut, MoreRoom, SwitchOff, SwitchOn, Halt, worldVars
<1>7. halted' \in BOOLEAN
  BY <1>r DEF RestTyped, World, FiredAgain, CancelLate, OptOut, MoreRoom, SwitchOff, SwitchOn, Halt, worldVars
<1>8. optedOut' \subseteq Recs
  BY <1>r, SceneTyped DEF RestTyped, World, FiredAgain, CancelLate, OptOut, MoreRoom, SwitchOff, SwitchOn, Halt, worldVars
<1>4. RestTyped' /\ dpc' \in [Dispatchers -> Places]
  BY <1>1, <1>2, <1>3, <1>5, <1>6, <1>7, <1>8, TypeParts DEF TInv, RestTyped, dVars
<1> QED BY <1>1, <1>4 DEF TInv, HandsOK, TypeOK, RestTyped, RecRow, Statuses, Places, dVars, sVars

LEMMA InitTyped == Init => TInv
<1> SUFFICES ASSUME Init PROVE TInv
  OBVIOUS
<1>1. TypeOK
  <2>1. 0 \in 0..MaxCopies /\ 0 \in 0..2
    BY Constants
  <2>2. rec \in [Recs -> RecRow]
    BY <2>1 DEF Init, RecRow
  <2>3. msg \in [Recs -> [Copies -> Message]]
    BY DEF Init, Unmade, Message
  <2>4. scene \in Scenes /\ scene.max \in Nat /\ scene.limit \in Nat /\ scene.start \in {"draft", "queued"}
    BY SceneTyped DEF Init
  <2>5. dpc \in [Dispatchers -> Places]
    BY DEF Init, Places
  <2>6. counts \in [sent : Nat, failed : Nat] /\ dtasks \in Nat /\ stasks \in [Recs -> [Copies -> Nat]]
        /\ accepted \in [Recs -> 0..2] /\ hold \in [Recs -> {"none", "reserved", "committed", "released"}]
    BY DEF Init
  <2>7. faults \in 0..scene.max /\ limit \in Nat /\ camp \in Statuses
    BY <2>4 DEF Init, Statuses
  <2>8. RestTyped
    BY <2>2, <2>3, <2>4, <2>6, <2>7 DEF RestTyped, Init
  <2> QED BY <2>5, <2>8, TypeParts
<1>2. HandsOK
  BY RestedHand, PlanNames DEF Init, HandsOK, Mail
<1> QED BY <1>1, <1>2 DEF TInv

LEMMA StepTyped == TInv /\ [Next]_vars => TInv'
<1> SUFFICES ASSUME TInv, [Next]_vars PROVE TInv'
  OBVIOUS
<1>1. CASE UNCHANGED vars
  BY <1>1 DEF vars, TInv, HandsOK, TypeOK
<1>2. CASE World
  BY <1>2, WorldTyped
<1>3. ASSUME NEW d \in Dispatchers, Dispatch(d) \/ RetryHeld(d) \/ DispatchStep(d) \/ DispatcherDies(d) PROVE TInv'
  BY <1>3, DispatcherTyped
<1>4. ASSUME NEW s \in Senders, SenderActs(s) PROVE TInv'
  BY <1>4, SenderTyped
<1>5. ASSUME NEW s \in Senders, NEW r \in Recs, NEW k \in Copies, Take(s, r, k) PROVE TInv'
  BY <1>5, TakeTyped
<1> QED BY <1>1, <1>2, <1>3, <1>4, <1>5 DEF Next, SenderActs

-----------------------------------------------------------------------------
(* One mail per recipient.  A recipient's next mail is in one place: the   *)
(* row that waits, a dispatcher about to enqueue it, a task, or a sender.   *)

Mine(my) == IF my.held THEN "held" ELSE "pending"
WorkAt(step, my, rows) ==
    /\ step \in {"refuse", "reserve", "hold"} => \A r \in my.batch : rows[r].status = Mine(my)
    /\ step \in {"hold", "create", "link"} => \A r \in my.go : rows[r].status = Mine(my)

\* One task of each kind, with rows of its own that are still as it found them.
OneWorker ==
    /\ dtasks <= 1
    /\ \A d \in Dispatchers : dtasks = 1 /\ dpc[d] # "idle" => dmy[d].held
    /\ \A d, e \in Dispatchers : dpc[d] # "idle" /\ dpc[e] # "idle" /\ dmy[d].held = dmy[e].held => d = e
WorkOK == \A d \in Dispatchers : WorkAt(dpc[d], dmy[d], rec)
Waiting == {"pending", "held"}
RowsOK == \A r \in Recs : rec[r].status \in Waiting => rec[r].msg = 0

RowHas(r) == rec[r].status \in Waiting
NewHas(r, d) == d \in Dispatchers /\ dpc[d] = "enqueue" /\ \E k \in Copies : <<r, k>> \in dmy[d].new
TaskHas(r, k) == k \in Copies /\ stasks[r][k] > 0
SenderHas(r, s) == s \in Senders /\ todo[s] # <<>> /\ smy[s][1] = r
Holds(r, kind, who) ==
    \/ kind = "row" /\ who = None /\ RowHas(r)
    \/ kind = "new" /\ NewHas(r, who)
    \/ kind = "task" /\ TaskHas(r, who)
    \/ kind = "sender" /\ SenderHas(r, who)

\* Once the provider took a mail, a sender that does not call it again is all
\* that is left.
MailOK(r) ==
    /\ \A k, l, v, w : Holds(r, k, v) /\ Holds(r, l, w) => k = l /\ v = w
    /\ \A k \in Copies : stasks[r][k] <= 1
    /\ accepted[r] <= 1
    /\ \A k, w : accepted[r] = 1 /\ Holds(r, k, w) => k = "sender" /\ todo[w] \notin Trying

Single == scene.faults \cap {"unanswered", "again"} = {}
OnceInv == OneWorker /\ WorkOK /\ RowsOK /\ \A r \in Recs : MailOK(r)
IInv == TInv /\ (Single => OnceInv)

LEMMA Kinds ==
    ASSUME NEW r, NEW w
    PROVE  /\ Holds(r, "row", w) <=> w = None /\ RowHas(r)
           /\ Holds(r, "new", w) <=> NewHas(r, w)
           /\ Holds(r, "task", w) <=> TaskHas(r, w)
           /\ Holds(r, "sender", w) <=> SenderHas(r, w)
BY DEF Holds

\* Nobody gets hold of the recipient's mail.
LEMMA MailStays ==
    ASSUME NEW r, MailOK(r), \A k, w : Holds(r, k, w)' => Holds(r, k, w),
           \A k \in Copies : stasks'[r][k] <= 1, accepted'[r] = accepted[r],
           \A s \in Senders : SenderHas(r, s)' /\ todo'[s] \in Trying => todo[s] \in Trying
    PROVE  MailOK(r)'
<1>1. \A k, l, v, w : Holds(r, k, v)' /\ Holds(r, l, w)' => k = l /\ v = w
  BY DEF MailOK
<1>2. ASSUME NEW k, NEW w, accepted'[r] = 1, Holds(r, k, w)' PROVE k = "sender" /\ todo'[w] \notin Trying
  <2>1. k = "sender" /\ todo[w] \notin Trying
    BY <1>2 DEF MailOK
  <2>2. SenderHas(r, w)' /\ w \in Senders
    BY <1>2, <2>1 DEF Holds, SenderHas
  <2> QED BY <2>1, <2>2
<1> QED BY <1>1, <1>2 DEF MailOK

\* It goes from one place to another.
LEMMA MailPasses ==
    ASSUME NEW r, MailOK(r), NEW k, NEW w, Holds(r, k, w), k = "sender" => todo[w] \in Trying, NEW l, NEW v,
           \A m, x : Holds(r, m, x)' => (m = l /\ x = v) \/ (Holds(r, m, x) /\ ~(m = k /\ x = w)),
           \A n \in Copies : stasks'[r][n] <= 1, accepted'[r] = accepted[r]
    PROVE  MailOK(r)'
<1>1. \A m, x : Holds(r, m, x)' => m = l /\ x = v
  BY DEF MailOK
<1>2. accepted[r] # 1
  BY DEF MailOK
<1> QED BY <1>1, <1>2 DEF MailOK

\* A step that moves no mail of a recipient.
LEMMA MailSame ==
    ASSUME NEW r, MailOK(r), RowHas(r)' => RowHas(r), \A d \in Dispatchers : NewHas(r, d)' => NewHas(r, d),
           \A k \in Copies : stasks'[r][k] = stasks[r][k], UNCHANGED sVars, accepted'[r] = accepted[r]
    PROVE  MailOK(r)'
<1>1. \A k \in Copies : stasks'[r][k] <= 1 /\ (TaskHas(r, k)' <=> TaskHas(r, k))
  BY DEF MailOK, TaskHas
<1>2. \A s \in Senders : SenderHas(r, s)' <=> SenderHas(r, s)
  BY DEF SenderHas, sVars
<1>3. \A k, w : Holds(r, k, w)' => Holds(r, k, w)
  BY <1>1, <1>2 DEF Holds, NewHas, TaskHas, SenderHas
<1>4. todo' = todo
  BY DEF sVars
<1> QED BY <1>1, <1>3, <1>4, MailStays

\* Who is at work, after a dispatcher moved.
LEMMA WorkerGoesOn ==
    ASSUME TInv, OneWorker, NEW d \in Dispatchers, NEW step \in Places, NEW my \in Hand, Moves(d, step, my),
           dpc[d] # "idle", my.held = dmy[d].held, dtasks' = dtasks
    PROVE  OneWorker'
<1>1. \A e \in Dispatchers : dpc'[e] = (IF e = d THEN step ELSE dpc[e]) /\ dmy'[e] = (IF e = d THEN my ELSE dmy[e])
  BY DEF Moves, TInv, TypeOK, HandsOK
<1> QED BY <1>1 DEF OneWorker

LEMMA WorkerStops ==
    ASSUME TInv, OneWorker, NEW d \in Dispatchers, Moves(d, "idle", Rested),
           dtasks' = dtasks \/ (dtasks' = dtasks + 1 /\ dpc[d] # "idle" /\ ~dmy[d].held)
    PROVE  OneWorker'
<1>1. \A e \in Dispatchers : /\ dpc'[e] = (IF e = d THEN "idle" ELSE dpc[e])
                             /\ dmy'[e] = (IF e = d THEN Rested ELSE dmy[e])
  BY DEF Moves, TInv, TypeOK, HandsOK
<1>2. \A e \in Dispatchers : dmy[e].held \in BOOLEAN
  BY DEF TInv, HandsOK, Hand
<1>3. dtasks \in Nat
  BY DEF TInv, TypeOK
<1>4. CASE dtasks' = dtasks
  BY <1>1, <1>4 DEF OneWorker
<1>5. CASE dtasks' = dtasks + 1 /\ dpc[d] # "idle" /\ ~dmy[d].held
  <2>1. dtasks = 0
    BY <1>3, <1>5 DEF OneWorker
  <2>2. \A e \in Dispatchers : e # d /\ dpc[e] # "idle" => dmy[e].held
    BY <1>2, <1>5 DEF OneWorker
  <2>3. dtasks' = 1
    BY <1>5, <2>1
  <2> QED BY <1>1, <2>2, <2>3 DEF OneWorker
<1> QED BY <1>4, <1>5

\* Its rows and those of the others.
LEMMA WorkMoves ==
    ASSUME TInv, OneWorker, WorkOK, NEW d \in Dispatchers, NEW step \in Places, NEW my \in Hand, Moves(d, step, my),
           WorkAt(step, my, rec'),
           rec' = rec \/ (dpc[d] # "idle" /\ \A r \in Recs : rec[r].status # Mine(dmy[d]) => rec'[r] = rec[r])
    PROVE  WorkOK'
<1>1. \A e \in Dispatchers : dpc'[e] = (IF e = d THEN step ELSE dpc[e]) /\ dmy'[e] = (IF e = d THEN my ELSE dmy[e])
  BY DEF Moves, TInv, TypeOK, HandsOK
<1>2. ASSUME NEW e \in Dispatchers, e # d PROVE WorkAt(dpc[e], dmy[e], rec')
  <2>1. WorkAt(dpc[e], dmy[e], rec)
    BY DEF WorkOK
  <2>2. CASE rec' = rec
    BY <2>1, <2>2
  <2>3. CASE dpc[e] = "idle"
    BY <2>3 DEF WorkAt
  <2>4. CASE dpc[d] # "idle" /\ dpc[e] # "idle" /\ \A r \in Recs : rec[r].status # Mine(dmy[d]) => rec'[r] = rec[r]
    <3>1. dmy[e].held # dmy[d].held /\ dmy[e].held \in BOOLEAN /\ dmy[d].held \in BOOLEAN
      BY <1>2, <2>4 DEF OneWorker, TInv, HandsOK, Hand
    <3>2. Mine(dmy[e]) # Mine(dmy[d])
      BY <3>1 DEF Mine
    <3>3. dmy[e].batch \subseteq Recs /\ dmy[e].go \subseteq Recs
      BY DEF TInv, HandsOK, Hand
    <3> QED BY <2>1, <2>4, <3>2, <3>3 DEF WorkAt
  <2> QED BY <2>2, <2>3, <2>4
<1> QED BY <1>1, <1>2 DEF WorkOK

LEMMA WorkerStarts ==
    ASSUME TInv, OneWorker, NEW d \in Dispatchers, NEW step \in Places, NEW my \in Hand, Moves(d, step, my),
           dpc[d] = "idle",
           \/ ~my.held /\ dtasks > 0 /\ dtasks' = dtasks - 1
           \/ my.held /\ dtasks' = dtasks /\ \A e \in Dispatchers : ~dmy[e].held
    PROVE  OneWorker'
<1>1. \A e \in Dispatchers : dpc'[e] = (IF e = d THEN step ELSE dpc[e]) /\ dmy'[e] = (IF e = d THEN my ELSE dmy[e])
  BY DEF Moves, TInv, TypeOK, HandsOK
<1>2. \A e \in Dispatchers : dmy[e].held \in BOOLEAN
  BY DEF TInv, HandsOK, Hand
<1>3. dtasks \in Nat /\ my.held \in BOOLEAN
  BY DEF TInv, TypeOK, Hand
<1>4. CASE ~my.held /\ dtasks > 0 /\ dtasks' = dtasks - 1
  <2>1. dtasks = 1 /\ dtasks' = 0
    BY <1>3, <1>4 DEF OneWorker
  <2>2. \A e \in Dispatchers : dpc[e] # "idle" => dmy[e].held
    BY <2>1 DEF OneWorker
  <2> QED BY <1>1, <1>2, <1>4, <2>1, <2>2 DEF OneWorker
<1>5. CASE my.held /\ dtasks' = dtasks /\ \A e \in Dispatchers : ~dmy[e].held
  BY <1>1, <1>2, <1>5 DEF OneWorker
<1> QED BY <1>4, <1>5

\* A dispatcher's step that puts no mail into its hands.
LEMMA QuietMoves ==
    ASSUME TInv, OnceInv, NEW d \in Dispatchers, NEW step \in Places, NEW my \in Hand, Moves(d, step, my),
           step # "enqueue", UNCHANGED <<sVars, stasks, accepted>>,
           \A r \in Recs : rec'[r].status \in Waiting => rec[r].status \in Waiting
    PROVE  \A r \in Recs : MailOK(r)'
<1> TAKE r \in Recs
<1>1. RowHas(r)' => RowHas(r)
  BY DEF RowHas
<1>2. \A e \in Dispatchers : NewHas(r, e)' => NewHas(r, e)
  BY DEF NewHas, Moves, TInv, TypeOK, HandsOK
<1>3. MailOK(r)
  BY DEF OnceInv
<1> QED BY <1>1, <1>2, <1>3, MailSame

\* The steps of a dispatcher that change no row.
LEMMA IdleMoves ==
    ASSUME TInv, OnceInv, NEW d \in Dispatchers, NEW step \in Places, NEW my \in Hand, Moves(d, step, my),
           step # "enqueue", UNCHANGED <<rec, sVars, stasks, accepted>>, OneWorker', WorkAt(step, my, rec)
    PROVE  OnceInv'
<1>1. \A r \in Recs : MailOK(r)'
  BY QuietMoves
<1>2. WorkAt(step, my, rec') /\ rec' = rec
  OBVIOUS
<1>3. WorkOK'
  BY <1>2, WorkMoves DEF OnceInv
<1>4. RowsOK'
  BY DEF OnceInv, RowsOK
<1> QED BY <1>1, <1>3, <1>4 DEF OnceInv

LEMMA NoWork ==
    \A step \in Places, my \in Hand :
        step \notin {"refuse", "reserve", "hold", "create", "link"} => WorkAt(step, my, rec)
BY DEF WorkAt

LEMMA StartOnce ==
    ASSUME TInv, OnceInv, NEW d \in Dispatchers, Dispatch(d) \/ RetryHeld(d)
    PROVE  OnceInv'
<1>0. {"begin", "reserve"} \subseteq Places /\ OneWorker
  BY DEF Places, OnceInv
<1>1. UNCHANGED <<rec, sVars, stasks, accepted>>
  BY DEF Dispatch, RetryHeld, taskVars
<1>2. CASE Dispatch(d) /\ UNCHANGED dVars
  <2>1. dtasks > 0 /\ dtasks' = dtasks - 1 /\ dtasks \in Nat
    BY <1>2 DEF Dispatch, TInv, TypeOK
  <2>2. OneWorker'
    BY <1>2, <2>1 DEF OnceInv, OneWorker, dVars
  <2>3. WorkOK' /\ RowsOK'
    BY <1>1, <1>2 DEF OnceInv, WorkOK, RowsOK, dVars
  <2>4. ASSUME NEW r \in Recs PROVE MailOK(r)'
    BY <1>1, <1>2, MailSame DEF RowHas, NewHas, dVars, OnceInv
  <2> QED BY <2>2, <2>3, <2>4 DEF OnceInv
<1>3. ASSUME NEW my \in Hand, HandAt("begin", my), Moves(d, "begin", my), ~my.held, Dispatch(d) PROVE OnceInv'
  <2>1. OneWorker'
    BY <1>0, <1>3, DispatchMoves, WorkerStarts
  <2> QED BY <1>0, <1>1, <1>3, <2>1, NoWork, IdleMoves
<1>4. CASE RetryHeld(d)
  <2>1. PICK my \in Hand : /\ Moves(d, "reserve", my) /\ my.batch = In({"held"}) /\ my.held
    BY <1>4, HeldMoves
  <2>2. OneWorker'
    BY <1>0, <1>4, <2>1, WorkerStarts DEF RetryHeld, taskVars
  <2>3. WorkAt("reserve", my, rec)
    BY <2>1 DEF WorkAt, Mine, In
  <2> QED BY <1>0, <1>1, <2>1, <2>2, <2>3, IdleMoves
<1> QED BY <1>2, <1>3, <1>4, DispatchMoves

LEMMA StepsOnce ==
    ASSUME TInv, OnceInv, NEW d \in Dispatchers,
           Pause(d) \/ Complete(d) \/ Reopen(d) \/ Begin(d) \/ TakeChunk(d) \/ NoChunk(d) \/ GoOn(d) \/ DispatcherDies(d)
    PROVE  OnceInv'
<1>0. {"idle", "begin", "chunk", "refuse", "complete"} \subseteq Places /\ OneWorker /\ dmy[d] \in Hand /\ Rested \in Hand
  BY RestedHand DEF Places, OnceInv, TInv, HandsOK
<1>1. UNCHANGED <<rec, sVars, stasks, accepted>>
  BY DEF Pause, Complete, Reopen, Begin, TakeChunk, NoChunk, GoOn, DispatcherDies, taskVars
<1>2. CASE Pause(d) \/ Complete(d) \/ Reopen(d) \/ DispatcherDies(d)
  <2>1. Moves(d, "idle", Rested) /\ dtasks' = dtasks
    BY <1>2, StopsTyped, DiesMoves DEF taskVars, DispatcherDies
  <2>2. OneWorker'
    BY <1>0, <2>1, WorkerStops
  <2> QED BY <1>0, <1>1, <2>1, <2>2, NoWork, IdleMoves
<1>3. CASE Begin(d)
  <2>1. Moves(d, "chunk", dmy[d]) /\ dpc[d] # "idle" /\ dtasks' = dtasks
    BY <1>3, BeginMoves DEF Begin, taskVars
  <2>2. OneWorker'
    BY <1>0, <2>1, WorkerGoesOn
  <2> QED BY <1>0, <1>1, <2>1, <2>2, NoWork, IdleMoves
<1>4. CASE TakeChunk(d)
  <2>1. PICK batch \in SUBSET Pending : LET my == [dmy[d] EXCEPT !.batch = batch] IN
                 my \in Hand /\ Moves(d, "refuse", my) /\ HandAt("refuse", my)
    BY <1>4, ChunkMoves
  <2>2. dpc[d] # "idle" /\ dtasks' = dtasks
    BY <1>4 DEF TakeChunk, taskVars
  <2>3. PICK my \in Hand : my = [dmy[d] EXCEPT !.batch = batch] /\ Moves(d, "refuse", my) /\ HandAt("refuse", my)
    BY <2>1
  <2>4. batch \in SUBSET Recs
    BY DEF Pending, In
  <2>5. my.held = dmy[d].held /\ my.batch = batch
    BY <1>0, <2>3, <2>4, HandEdits
  <2>6. OneWorker'
    BY <1>0, <2>2, <2>3, <2>5, WorkerGoesOn
  <2>7. ~my.held
    BY <2>3 DEF HandAt
  <2>8. WorkAt("refuse", my, rec)
    BY <2>5, <2>7 DEF WorkAt, Mine, Pending, In
  <2> QED BY <1>0, <1>1, <2>3, <2>6, <2>8, IdleMoves
<1>5. CASE NoChunk(d) \/ GoOn(d)
  <2>1. dpc[d] # "idle" /\ ~dmy[d].held
    BY <1>5, LookMoves
  <2>2. CASE Moves(d, "complete", dmy[d]) /\ dtasks' = dtasks
    <3>1. OneWorker'
      BY <1>0, <2>1, <2>2, WorkerGoesOn
    <3> QED BY <1>0, <1>1, <2>2, <3>1, NoWork, IdleMoves
  <2>3. CASE Moves(d, "idle", Rested) /\ dtasks' \in {dtasks, dtasks + 1}
    <3>1. OneWorker'
      BY <1>0, <2>1, <2>3, WorkerStops
    <3> QED BY <1>0, <1>1, <2>3, <3>1, NoWork, IdleMoves
  <2> QED BY <1>5, <2>2, <2>3, LookMoves
<1> QED BY <1>2, <1>3, <1>4, <1>5

LEMMA ReserveOnce ==
    ASSUME TInv, OnceInv, NEW d \in Dispatchers, Reserve(d)
    PROVE  OnceInv'
<1>0. {"create", "hold"} \subseteq Places /\ OneWorker /\ dmy[d] \in Hand /\ dmy[d].batch \subseteq Recs
  BY DEF Places, OnceInv, TInv, HandsOK, Hand
<1>1. UNCHANGED <<rec, sVars, stasks, accepted>> /\ dtasks' = dtasks /\ dpc[d] = "reserve"
  BY DEF Reserve, taskVars
<1>2. PICK got \in SUBSET Recs :
                 LET my == [dmy[d] EXCEPT !.go = got \cup Standing(dmy[d].batch)]
                     step == IF dmy[d].held THEN "create" ELSE "hold"
                 IN  /\ got \subseteq Fresh(dmy[d].batch)
                     /\ my \in Hand /\ Moves(d, step, my) /\ HandAt(step, my)
  BY ReserveMoves
<1>3. PICK my \in Hand, step \in {"create", "hold"} :
          my = [dmy[d] EXCEPT !.go = got \cup Standing(dmy[d].batch)] /\ Moves(d, step, my) /\ HandAt(step, my)
  BY <1>2
<1>4. got \cup Standing(dmy[d].batch) \subseteq dmy[d].batch
  BY <1>2 DEF Fresh, Standing
<1>5. my.held = dmy[d].held /\ my.batch = dmy[d].batch /\ my.go \subseteq my.batch
  BY <1>0, <1>3, <1>4, HandEdits
<1>6. OneWorker'
  BY <1>0, <1>1, <1>3, <1>5, WorkerGoesOn
<1>7. \A r \in my.batch : rec[r].status = Mine(my)
  BY <1>1, <1>5 DEF OnceInv, WorkOK, WorkAt, Mine
<1>8. WorkAt(step, my, rec)
  BY <1>5, <1>7 DEF WorkAt
<1> QED BY <1>0, <1>1, <1>3, <1>6, <1>8, IdleMoves

LEMMA CreateOnce ==
    ASSUME TInv, OnceInv, NEW d \in Dispatchers, Create(d)
    PROVE  OnceInv'
<1>0. {"link", "reopen", "tail"} \subseteq Places /\ OneWorker /\ dmy[d] \in Hand
  BY DEF Places, OnceInv, TInv, HandsOK
<1>1. UNCHANGED <<rec, sVars, stasks, accepted>> /\ dtasks' = dtasks /\ dpc[d] = "create"
  BY DEF Create, taskVars
<1>2. PICK my \in Hand, step \in {"link", "reopen", "tail"} :
          my = [dmy[d] EXCEPT !.new = {<<r, Made(r) + 1>> : r \in dmy[d].go}] /\ Moves(d, step, my)
  BY CreateMoves
<1>3. {<<r, Made(r) + 1>> : r \in dmy[d].go} \in SUBSET Mail
  BY <1>2 DEF Hand
<1>4. my.held = dmy[d].held /\ my.go = dmy[d].go
  BY <1>0, <1>2, <1>3, HandEdits
<1>5. OneWorker'
  BY <1>0, <1>1, <1>2, <1>4, WorkerGoesOn
<1>6. WorkAt(step, my, rec)
  BY <1>1, <1>4 DEF OnceInv, WorkOK, WorkAt, Mine
<1> QED BY <1>0, <1>1, <1>2, <1>5, <1>6, IdleMoves

LEMMA RefuseOnce ==
    ASSUME TInv, OnceInv, NEW d \in Dispatchers, Refuse(d)
    PROVE  OnceInv'
<1>0. "reserve" \in Places /\ OneWorker /\ WorkOK /\ dmy[d] \in Hand /\ dmy[d].batch \subseteq Recs /\ rec \in [Recs -> RecRow]
  BY TypeParts DEF Places, OnceInv, TInv, HandsOK, Hand, RestTyped
<1>1. UNCHANGED <<sVars, stasks, accepted>> /\ dtasks' = dtasks /\ dpc[d] = "refuse"
  BY DEF Refuse, taskVars
<1>2. PICK my \in Hand : my = [dmy[d] EXCEPT !.batch = dmy[d].batch \ optedOut] /\ Moves(d, "reserve", my)
  BY RefuseMoves
<1>3. my.held = dmy[d].held /\ my.batch = dmy[d].batch \ optedOut
  BY <1>0, <1>2, HandEdits
<1>4. \A r \in Recs : /\ r \in dmy[d].batch \cap optedOut => rec'[r].status = "failed"
                      /\ r \notin dmy[d].batch \cap optedOut => rec'[r] = rec[r]
  BY <1>0 DEF Refuse, RecRow
<1>5. \A r \in dmy[d].batch : rec[r].status = Mine(dmy[d])
  BY <1>0, <1>1 DEF WorkOK, WorkAt
<1>6. OneWorker'
  BY <1>0, <1>1, <1>2, <1>3, WorkerGoesOn
<1>7. WorkAt("reserve", my, rec')
  BY <1>0, <1>3, <1>4, <1>5 DEF WorkAt, Mine
<1>8. \A r \in Recs : rec[r].status # Mine(dmy[d]) => rec'[r] = rec[r]
  BY <1>4, <1>5
<1>9. WorkOK'
  BY <1>0, <1>1, <1>2, <1>7, <1>8, WorkMoves
<1>10. \A r \in Recs : rec'[r].status \in Waiting => rec'[r] = rec[r]
  BY <1>4 DEF Waiting
<1>11. RowsOK'
  BY <1>10 DEF OnceInv, RowsOK
<1>12. \A r \in Recs : MailOK(r)'
  BY <1>0, <1>1, <1>2, <1>10, QuietMoves
<1> QED BY <1>6, <1>9, <1>11, <1>12 DEF OnceInv

LEMMA HoldOnce ==
    ASSUME TInv, OnceInv, NEW d \in Dispatchers, Hold(d)
    PROVE  OnceInv'
<1>0. "create" \in Places /\ OneWorker /\ WorkOK /\ dmy[d] \in Hand /\ dmy[d].batch \subseteq Recs /\ dmy[d].go \subseteq Recs
      /\ rec \in [Recs -> RecRow]
  BY TypeParts DEF Places, OnceInv, TInv, HandsOK, Hand, RestTyped
<1>1. UNCHANGED <<sVars, stasks, accepted>> /\ dtasks' = dtasks /\ dpc[d] = "hold"
  BY DEF Hold, taskVars
<1>2. Moves(d, "create", dmy[d])
  BY HoldMoves
<1>3. \A r \in Recs : /\ r \in dmy[d].batch \ dmy[d].go => rec'[r].status = "held" /\ rec'[r].msg = rec[r].msg
                      /\ r \notin dmy[d].batch \ dmy[d].go => rec'[r] = rec[r]
  BY <1>0 DEF Hold, RecRow
<1>4. /\ \A r \in dmy[d].batch : rec[r].status = Mine(dmy[d])
      /\ \A r \in dmy[d].go : rec[r].status = Mine(dmy[d])
  BY <1>0, <1>1 DEF WorkOK, WorkAt
<1>5. OneWorker'
  BY <1>0, <1>1, <1>2, WorkerGoesOn
<1>6. WorkAt("create", dmy[d], rec')
  BY <1>0, <1>3, <1>4 DEF WorkAt
<1>7. \A r \in Recs : rec[r].status # Mine(dmy[d]) => rec'[r] = rec[r]
  BY <1>3, <1>4
<1>8. WorkOK'
  BY <1>0, <1>1, <1>2, <1>6, <1>7, WorkMoves
<1>9. Mine(dmy[d]) \in Waiting
  BY DEF Mine, Waiting
<1>10. \A r \in Recs : rec'[r].status \in Waiting => rec[r].status \in Waiting /\ rec'[r].msg = rec[r].msg
  BY <1>3, <1>4, <1>9
<1>11. RowsOK'
  BY <1>10 DEF OnceInv, RowsOK
<1>12. \A r \in Recs : MailOK(r)'
  BY <1>0, <1>1, <1>2, <1>10, QuietMoves
<1> QED BY <1>5, <1>8, <1>11, <1>12 DEF OnceInv

\* The rows give their mail to the dispatcher.
LEMMA LinkOnce ==
    ASSUME TInv, OnceInv, NEW d \in Dispatchers, Link(d)
    PROVE  OnceInv'
<1>0. "enqueue" \in Places /\ OneWorker /\ WorkOK /\ dmy[d] \in Hand /\ dmy[d].go \subseteq Recs
  BY DEF Places, OnceInv, TInv, HandsOK, Hand
<1>1. UNCHANGED <<sVars, stasks, accepted>> /\ dtasks' = dtasks /\ dpc[d] = "link"
  BY DEF Link, taskVars
<1>2. /\ Moves(d, "enqueue", dmy[d])
      /\ \A r \in Recs : r \notin dmy[d].go => rec'[r] = rec[r]
      /\ \A r \in Recs, k \in Copies : <<r, k>> \in dmy[d].new => rec'[r] = [status |-> "queued", msg |-> k]
      /\ \A r \in Recs : r \in dmy[d].go => \E k \in Copies : <<r, k>> \in dmy[d].new
  BY LinkMoves
<1>3. ASSUME NEW r \in dmy[d].go PROVE rec[r].status = Mine(dmy[d]) /\ rec'[r].status = "queued"
  <2>1. PICK k \in Copies : <<r, k>> \in dmy[d].new
    BY <1>0, <1>2
  <2>2. rec'[r] = [status |-> "queued", msg |-> k]
    BY <1>0, <1>2, <2>1
  <2>3. rec[r].status = Mine(dmy[d])
    BY <1>0, <1>1 DEF WorkOK, WorkAt
  <2> QED BY <2>2, <2>3
<1>4. OneWorker'
  BY <1>0, <1>1, <1>2, WorkerGoesOn
<1>5. WorkAt("enqueue", dmy[d], rec')
  BY DEF WorkAt
<1>6. \A r \in Recs : rec[r].status # Mine(dmy[d]) => rec'[r] = rec[r]
  BY <1>2, <1>3
<1>7. WorkOK'
  BY <1>0, <1>1, <1>2, <1>5, <1>6, WorkMoves
<1>8. \A r \in Recs : rec'[r].status \in Waiting => rec'[r] = rec[r]
  BY <1>2, <1>3 DEF Waiting
<1>9. RowsOK'
  BY <1>8 DEF OnceInv, RowsOK
<1>10. ASSUME NEW r \in Recs PROVE MailOK(r)'
  <2>1. \A k \in Copies : stasks'[r][k] <= 1 /\ (TaskHas(r, k)' <=> TaskHas(r, k))
    BY <1>1 DEF OnceInv, MailOK, TaskHas
  <2>2. \A s \in Senders : SenderHas(r, s)' <=> SenderHas(r, s)
    BY <1>1 DEF SenderHas, sVars
  <2>3. \A e \in Dispatchers : NewHas(r, e)' => NewHas(r, e) \/ (e = d /\ r \in dmy[d].go)
    <3>1. HandAt("link", dmy[d])
      BY <1>1 DEF TInv, HandsOK
    <3>2. \A e \in Dispatchers : dmy'[e] = dmy[e] /\ (e # d => dpc'[e] = dpc[e])
      BY <1>2 DEF Moves, TInv, HandsOK, TypeOK
    <3> QED BY <3>1, <3>2 DEF NewHas, HandAt
  <2>4. MailOK(r)
    BY DEF OnceInv
  <2>5. CASE r \notin dmy[d].go
    <3>1. RowHas(r)' => RowHas(r)
      BY <1>2, <2>5 DEF RowHas
    <3> QED BY <1>1, <2>3, <2>4, <2>5, <3>1, MailSame
  <2>6. CASE r \in dmy[d].go
    <3>1. RowHas(r) /\ ~RowHas(r)'
      BY <1>3, <2>6 DEF RowHas, Waiting, Mine
    <3>2. Holds(r, "row", None)
      BY <3>1, Kinds
    <3>3. \A m, x : Holds(r, m, x)' => (m = "new" /\ x = d) \/ (Holds(r, m, x) /\ ~(m = "row" /\ x = None))
      <4> TAKE m, x
      <4> HAVE Holds(r, m, x)'
      <4>1. CASE m = "new" /\ NewHas(r, x)'
        <5>1. x \in Dispatchers
          BY <4>1 DEF NewHas
        <5> QED BY <2>3, <4>1, <5>1 DEF Holds
      <4>2. CASE m = "task" /\ TaskHas(r, x)'
        <5>1. x \in Copies
          BY <4>2 DEF TaskHas
        <5> QED BY <2>1, <4>2, <5>1 DEF Holds
      <4>3. CASE m = "sender" /\ SenderHas(r, x)'
        <5>1. x \in Senders
          BY <4>3 DEF SenderHas
        <5> QED BY <2>2, <4>3, <5>1 DEF Holds
      <4> QED BY <3>1, <4>1, <4>2, <4>3 DEF Holds
    <3>4. \A n \in Copies : stasks'[r][n] <= 1
      BY <2>1
    <3>5. accepted'[r] = accepted[r]
      BY <1>1
    <3> QED BY <2>4, <3>2, <3>3, <3>4, <3>5, MailPasses
  <2> QED BY <2>5, <2>6
<1> QED BY <1>4, <1>7, <1>9, <1>10 DEF OnceInv

\* The dispatcher gives it to a task.
LEMMA EnqueueOnce ==
    ASSUME TInv, OnceInv, NEW d \in Dispatchers, Enqueue(d)
    PROVE  OnceInv'
<1>0. {"reopen", "tail"} \subseteq Places /\ OneWorker /\ WorkOK /\ dmy[d] \in Hand /\ stasks \in [Recs -> [Copies -> Nat]]
  BY TypeParts DEF Places, OnceInv, TInv, HandsOK, RestTyped
<1>1. UNCHANGED <<rec, sVars, accepted>> /\ dtasks' = dtasks /\ dpc[d] = "enqueue"
  BY DEF Enqueue
<1>2. PICK step \in {"reopen", "tail"} : Moves(d, step, dmy[d])
  BY EnqueueMoves
<1>3. OneWorker'
  BY <1>0, <1>1, <1>2, WorkerGoesOn
<1>4. WorkAt(step, dmy[d], rec')
  BY DEF WorkAt
<1>5. WorkOK'
  BY <1>0, <1>1, <1>2, <1>4, WorkMoves
<1>6. RowsOK'
  BY <1>1 DEF OnceInv, RowsOK
<1>7. ASSUME NEW r \in Recs PROVE MailOK(r)'
  <2>1. \A k \in Copies : stasks'[r][k] = stasks[r][k] + (IF <<r, k>> \in dmy[d].new THEN 1 ELSE 0)
    <3>1. stasks'[r] = [k \in Copies |-> stasks[r][k] + IF <<r, k>> \in dmy[d].new THEN 1 ELSE 0]
      BY DEF Enqueue
    <3>2. ASSUME NEW k \in Copies
          PROVE  stasks'[r][k] = stasks[r][k] + (IF <<r, k>> \in dmy[d].new THEN 1 ELSE 0)
      BY <3>1, Zenon
    <3> QED BY <3>2
  <2>2. \A s \in Senders : SenderHas(r, s)' <=> SenderHas(r, s)
    BY <1>1 DEF SenderHas, sVars
  <2>3. \A e \in Dispatchers : NewHas(r, e)' => NewHas(r, e) /\ e # d
    BY <1>2 DEF NewHas, Moves, TInv, HandsOK, TypeOK
  <2>4. MailOK(r) /\ (RowHas(r)' <=> RowHas(r))
    BY <1>1 DEF OnceInv, RowHas
  <2>5. CASE \A k \in Copies : <<r, k>> \notin dmy[d].new
    <3>1. ASSUME NEW k \in Copies PROVE stasks'[r][k] = stasks[r][k]
      <4>1. stasks'[r][k] = stasks[r][k] + 0
        BY <2>1, <2>5, Zenon
      <4>2. stasks[r][k] \in Nat
        BY <1>0
      <4> QED BY <4>1, <4>2
    <3> QED BY <1>1, <2>3, <2>4, <3>1, MailSame
  <2>6. ASSUME NEW k \in Copies, <<r, k>> \in dmy[d].new PROVE MailOK(r)'
    <3>1. Holds(r, "new", d)
      BY <1>1, <2>6 DEF NewHas, Holds
    <3>2. \A j \in Copies : ~TaskHas(r, j)
      BY <2>4, <3>1 DEF MailOK, Holds
    <3>3. \A j \in Copies : stasks[r][j] = 0
      BY <1>0, <3>2 DEF TaskHas
    <3>4. \A j \in Copies : <<r, j>> \in dmy[d].new => j = k
      BY <2>6 DEF TInv, HandsOK, HandAt
    <3>5. ASSUME NEW j \in Copies PROVE stasks'[r][j] <= 1 /\ (TaskHas(r, j)' => j = k)
      <4>1. stasks'[r][j] = IF <<r, j>> \in dmy[d].new THEN 1 ELSE 0
        BY <2>1, <3>3
      <4> QED BY <3>4, <4>1 DEF TaskHas
    <3>6. \A m, x : Holds(r, m, x)' => (m = "task" /\ x = k) \/ (Holds(r, m, x) /\ ~(m = "new" /\ x = d))
      <4> TAKE m, x
      <4> HAVE Holds(r, m, x)'
      <4>1. CASE m = "new" /\ NewHas(r, x)'
        <5>1. x \in Dispatchers
          BY <4>1 DEF NewHas
        <5> QED BY <2>3, <4>1, <5>1 DEF Holds
      <4>2. CASE m = "task" /\ TaskHas(r, x)'
        <5>1. x \in Copies
          BY <4>2 DEF TaskHas
        <5> QED BY <3>5, <4>2, <5>1 DEF Holds
      <4>3. CASE m = "sender" /\ SenderHas(r, x)'
        <5>1. x \in Senders
          BY <4>3 DEF SenderHas
        <5> QED BY <2>2, <4>3, <5>1 DEF Holds
      <4>4. CASE m = "row" /\ x = None /\ RowHas(r)'
        BY <2>4, <4>4 DEF Holds
      <4> QED BY <4>1, <4>2, <4>3, <4>4 DEF Holds
    <3>7. \A n \in Copies : stasks'[r][n] <= 1
      BY <3>5
    <3>8. accepted'[r] = accepted[r]
      BY <1>1
    <3> QED BY <2>4, <3>1, <3>6, <3>7, <3>8, MailPasses
  <2> QED BY <2>5, <2>6
<1> QED BY <1>3, <1>5, <1>6, <1>7 DEF OnceInv

\* A sender takes the task.
LEMMA TakeOnce ==
    ASSUME TInv, OnceInv, NEW s \in Senders, NEW q \in Recs, NEW k \in Copies, Take(s, q, k)
    PROVE  OnceInv'
<1>0. stasks \in [Recs -> [Copies -> Nat]] /\ todo[s] = <<>> /\ UNCHANGED <<rec, dtasks, dVars, accepted>>
  BY TypeParts DEF TInv, RestTyped, Take
<1>1. OneWorker' /\ WorkOK' /\ RowsOK'
  BY <1>0 DEF OnceInv, OneWorker, WorkOK, RowsOK, dVars
<1>2. /\ stasks[q][k] > 0 /\ stasks' = [stasks EXCEPT ![q] = [stasks[q] EXCEPT ![k] = stasks[q][k] - 1]]
      /\ UNCHANGED sVars \/ Goes(s, <<"gate">>, <<q, k>>)
  BY TakeMoves
<1>3. ASSUME NEW r \in Recs PROVE MailOK(r)'
  <2>0. MailOK(r) /\ (RowHas(r)' <=> RowHas(r)) /\ accepted'[r] = accepted[r]
    BY <1>0 DEF OnceInv, RowHas
  <2>1. \A e \in Dispatchers : NewHas(r, e)' <=> NewHas(r, e)
    BY <1>0 DEF NewHas, dVars
  <2>2. \A j \in Copies : /\ <<r, j>> # <<q, k>> => stasks'[r][j] = stasks[r][j]
                          /\ <<r, j>> = <<q, k>> => stasks'[r][j] = stasks[r][j] - 1
    BY <1>0, <1>2
  <2>3. \A j \in Copies : stasks[r][j] \in Nat /\ stasks[r][j] <= 1
    BY <1>0, <2>0 DEF MailOK
  <2>4. \A j \in Copies : stasks'[r][j] <= 1 /\ (TaskHas(r, j)' => TaskHas(r, j) /\ <<r, j>> # <<q, k>>)
    BY <2>2, <2>3 DEF TaskHas
  <2>5. CASE UNCHANGED sVars
    <3>1. \A t \in Senders : SenderHas(r, t)' <=> SenderHas(r, t)
      BY <2>5 DEF SenderHas, sVars
    <3>2. \A m, x : Holds(r, m, x)' => Holds(r, m, x)
      BY <2>0, <2>1, <2>4, <3>1 DEF Holds, NewHas, TaskHas, SenderHas
    <3>3. todo' = todo
      BY <2>5 DEF sVars
    <3> QED BY <2>0, <2>4, <3>2, <3>3, MailStays
  <2>6. CASE Goes(s, <<"gate">>, <<q, k>>)
    <3>1. \A t \in Senders : t # s => (SenderHas(r, t)' <=> SenderHas(r, t)) /\ todo'[t] = todo[t]
      BY <2>6 DEF SenderHas, Goes, TInv, HandsOK
    <3>2. SenderHas(r, s)' => r = q
      BY <2>6 DEF SenderHas, Goes, TInv, HandsOK
    <3>3. CASE r # q
      <4>1. \A m, x : Holds(r, m, x)' => Holds(r, m, x)
        BY <2>0, <2>1, <2>4, <3>1, <3>2, <3>3 DEF Holds, NewHas, TaskHas, SenderHas
      <4>2. \A t \in Senders : SenderHas(r, t)' /\ todo'[t] \in Trying => todo[t] \in Trying
        BY <3>1, <3>2, <3>3
      <4> QED BY <2>0, <2>4, <4>1, <4>2, MailStays
    <3>4. CASE r = q
      <4>1. Holds(r, "task", k)
        BY <1>2, <3>4 DEF Holds, TaskHas
      <4>2. \A m, x : Holds(r, m, x)' => (m = "sender" /\ x = s) \/ (Holds(r, m, x) /\ ~(m = "task" /\ x = k))
        <5> TAKE m, x
        <5> HAVE Holds(r, m, x)'
        <5>1. CASE m = "new" /\ NewHas(r, x)'
          <6>1. x \in Dispatchers
            BY <5>1 DEF NewHas
          <6> QED BY <2>1, <5>1, <6>1 DEF Holds
        <5>2. CASE m = "task" /\ TaskHas(r, x)'
          <6>1. x \in Copies
            BY <5>2 DEF TaskHas
          <6> QED BY <2>4, <3>4, <5>2, <6>1 DEF Holds
        <5>3. CASE m = "sender" /\ SenderHas(r, x)'
          <6>1. x \in Senders
            BY <5>3 DEF SenderHas
          <6> QED BY <3>1, <5>3, <6>1 DEF Holds
        <5>4. CASE m = "row" /\ x = None /\ RowHas(r)'
          BY <2>0, <5>4 DEF Holds
        <5> QED BY <5>1, <5>2, <5>3, <5>4 DEF Holds
      <4>3. \A n \in Copies : stasks'[r][n] <= 1
        BY <2>4
      <4> QED BY <2>0, <4>1, <4>2, <4>3, MailPasses
    <3> QED BY <3>3, <3>4
  <2> QED BY <1>2, <2>5, <2>6
<1> QED BY <1>1, <1>3 DEF OnceInv

\* What a sender's step leaves alone: the dispatchers and the rows that wait.
Apart == /\ UNCHANGED <<dtasks, dVars>>
         /\ \A r \in Recs : rec[r].status \in Waiting \/ rec'[r].status \in Waiting => rec'[r] = rec[r]

LEMMA ApartKeeps ==
    ASSUME TInv, OnceInv, Apart
    PROVE  /\ OneWorker' /\ WorkOK' /\ RowsOK'
           /\ \A r \in Recs : /\ MailOK(r) /\ (RowHas(r)' <=> RowHas(r))
                              /\ \A d \in Dispatchers : NewHas(r, d)' <=> NewHas(r, d)
<1>1. OneWorker'
  BY DEF Apart, OnceInv, OneWorker, dVars
<1>2. WorkOK'
  <2> SUFFICES ASSUME NEW d \in Dispatchers PROVE WorkAt(dpc[d], dmy[d], rec')
    BY DEF Apart, WorkOK, dVars
  <2>1. WorkAt(dpc[d], dmy[d], rec)
    BY DEF OnceInv, WorkOK
  <2>2. Mine(dmy[d]) \in Waiting /\ dmy[d].batch \subseteq Recs /\ dmy[d].go \subseteq Recs
    BY DEF Mine, Waiting, TInv, HandsOK, Hand
  <2> QED BY <2>1, <2>2 DEF Apart, WorkAt
<1>3. RowsOK'
  BY DEF Apart, OnceInv, RowsOK
<1>4. ASSUME NEW r \in Recs
      PROVE  /\ MailOK(r) /\ (RowHas(r)' <=> RowHas(r))
             /\ \A d \in Dispatchers : NewHas(r, d)' <=> NewHas(r, d)
  BY DEF Apart, OnceInv, RowHas, NewHas, dVars
<1> QED BY <1>1, <1>2, <1>3, <1>4

\* A sender goes on and keeps its mail, or drops it.
LEMMA ThenOnce ==
    ASSUME TInv, OnceInv, NEW s \in Senders, todo[s] # <<>>, NEW plan \in Plans, Then(s, plan),
           plan \in Trying => todo[s] \in Trying, Apart, UNCHANGED <<stasks, accepted>>
    PROVE  OnceInv'
<1>1. /\ OneWorker' /\ WorkOK' /\ RowsOK'
      /\ \A r \in Recs : /\ MailOK(r) /\ (RowHas(r)' <=> RowHas(r))
                         /\ \A d \in Dispatchers : NewHas(r, d)' <=> NewHas(r, d)
  BY ApartKeeps
<1>2. ASSUME NEW r \in Recs PROVE MailOK(r)'
  <2>1. \A t \in Senders : SenderHas(r, t)' => SenderHas(r, t)
    BY DEF SenderHas, Then, TInv, HandsOK
  <2>2. \A t \in Senders : todo'[t] \in Trying => todo[t] \in Trying
    BY DEF Then, TInv, HandsOK
  <2>3. \A m, x : Holds(r, m, x)' => Holds(r, m, x)
    BY <1>1, <2>1 DEF Holds, NewHas, TaskHas, SenderHas
  <2>4. \A k \in Copies : stasks'[r][k] <= 1
    BY <1>1 DEF MailOK
  <2>5. accepted'[r] = accepted[r] /\ MailOK(r)
    BY <1>1
  <2> QED BY <2>2, <2>3, <2>4, <2>5, MailStays
<1> QED BY <1>1, <1>2 DEF OnceInv

\* The provider takes the mail of a sender.
LEMMA SendOnce ==
    ASSUME TInv, OnceInv, Single, NEW s \in Senders, Send(s)
    PROVE  OnceInv'
<1>0. todo[s] = <<"call">> /\ smy[s][1] \in Recs /\ todo[s] # <<>> /\ todo[s] \in Trying
  BY SendMoves, PlanNames
<1>1. Apart /\ stasks' = stasks
  BY DEF Send, Apart, taskVars
<1>2. CASE accepted' = accepted /\ Then(s, <<"failed", "try">>)
  BY <1>0, <1>1, <1>2, ThenOnce, PlanNames
<1>3. CASE /\ accepted' = [accepted EXCEPT ![smy[s][1]] = IF @ < 2 THEN @ + 1 ELSE @]
           /\ Then(s, Accepted)
  <2> DEFINE q == smy[s][1]
  <2>1. /\ OneWorker' /\ WorkOK' /\ RowsOK'
        /\ \A r \in Recs : /\ MailOK(r) /\ (RowHas(r)' <=> RowHas(r))
                           /\ \A d \in Dispatchers : NewHas(r, d)' <=> NewHas(r, d)
    BY <1>1, ApartKeeps
  <2>2. ASSUME NEW r \in Recs PROVE MailOK(r)'
    <3>1. \A t \in Senders : SenderHas(r, t)' => SenderHas(r, t)
      BY <1>0, <1>3 DEF SenderHas, Then, TInv, HandsOK
    <3>2. \A t \in Senders : todo'[t] \in Trying => todo[t] \in Trying
      BY <1>0, <1>3 DEF Then, TInv, HandsOK
    <3>3. \A m, x : Holds(r, m, x)' => Holds(r, m, x)
      BY <1>1, <2>1, <3>1 DEF Holds, NewHas, TaskHas, SenderHas
    <3>4. MailOK(r) /\ \A k \in Copies : stasks'[r][k] <= 1
      BY <1>1, <2>1 DEF MailOK
    <3>5. accepted \in [Recs -> 0..2]
      BY TypeParts DEF TInv, RestTyped
    <3>6. CASE r # q
      <4>1. accepted'[r] = accepted[r]
        BY <1>3, <3>5, <3>6
      <4> QED BY <3>2, <3>3, <3>4, <4>1, MailStays
    <3>7. CASE r = q
      <4>1. Holds(r, "sender", s)
        BY <1>0, <3>7 DEF Holds, SenderHas
      <4>2. accepted[r] # 1 /\ accepted[r] <= 1 /\ accepted[r] \in 0..2
        BY <1>0, <3>4, <3>5, <4>1 DEF MailOK
      <4>3. accepted'[r] = 1
        BY <1>3, <3>5, <3>7, <4>2
      <4>4. \A m, x : Holds(r, m, x)' => m = "sender" /\ x = s
        BY <3>3, <3>4, <4>1 DEF MailOK
      <4>5. todo'[s] = Accepted /\ Accepted \notin Trying
        BY <1>3, PlanNames DEF Then, TInv, HandsOK
      <4> QED BY <3>4, <4>3, <4>4, <4>5 DEF MailOK
    <3> QED BY <3>6, <3>7
  <2> QED BY <2>1, <2>2 DEF OnceInv
<1> QED BY <1>2, <1>3, SendMoves DEF Single

\* A sender gives its mail back to a task.
LEMMA RetryOnce ==
    ASSUME TInv, OnceInv, NEW s \in Senders, Retry(s)
    PROVE  OnceInv'
<1>0. /\ todo[s] # <<>> /\ todo[s] \in Plans /\ Head(todo[s]) = "retry" /\ Finish(s)
      /\ smy[s][1] \in Recs /\ smy[s][2] \in Copies
  BY AtHand DEF Retry, At
<1>1. todo[s] = <<"retry">> /\ todo[s] \in Trying /\ Then(s, <<>>)
  BY <1>0, Heads, Tails, PlanNames DEF Finish
<1>2. Apart /\ accepted' = accepted
  BY DEF Retry, Apart
<1> DEFINE q == smy[s][1]
           k == smy[s][2]
<1>3. stasks \in [Recs -> [Copies -> Nat]] /\ stasks' = [stasks EXCEPT ![q] = [stasks[q] EXCEPT ![k] = stasks[q][k] + 1]]
  BY <1>0, TypeParts DEF TInv, RestTyped, Retry
<1>4. /\ OneWorker' /\ WorkOK' /\ RowsOK'
      /\ \A r \in Recs : /\ MailOK(r) /\ (RowHas(r)' <=> RowHas(r))
                         /\ \A d \in Dispatchers : NewHas(r, d)' <=> NewHas(r, d)
  BY <1>2, ApartKeeps
<1>5. ASSUME NEW r \in Recs PROVE MailOK(r)'
  <2>1. \A t \in Senders : SenderHas(r, t)' => SenderHas(r, t) /\ t # s
    BY <1>1 DEF SenderHas, Then, TInv, HandsOK
  <2>2. \A t \in Senders : todo'[t] \in Trying => todo[t] \in Trying
    BY <1>1, PlanNames DEF Then, TInv, HandsOK
  <2>3. MailOK(r) /\ accepted'[r] = accepted[r]
    BY <1>2, <1>4
  <2>4. CASE r # q
    <3>1. \A j \in Copies : stasks'[r][j] = stasks[r][j]
      BY <1>0, <1>3, <2>4
    <3>2. \A m, x : Holds(r, m, x)' => Holds(r, m, x)
      BY <1>4, <2>1, <3>1 DEF Holds, NewHas, TaskHas, SenderHas
    <3>3. \A j \in Copies : stasks'[r][j] <= 1
      BY <2>3, <3>1 DEF MailOK
    <3> QED BY <2>2, <2>3, <3>2, <3>3, MailStays
  <2>5. CASE r = q
    <3>1. Holds(r, "sender", s)
      BY <1>0, <2>5 DEF Holds, SenderHas
    <3>2. \A j \in Copies : ~TaskHas(r, j)
      BY <2>3, <3>1 DEF MailOK, Holds
    <3>3. \A j \in Copies : stasks[r][j] = 0
      BY <1>3, <3>2 DEF TaskHas
    <3>4. \A j \in Copies : stasks'[r][j] = IF j = k THEN 1 ELSE 0
      BY <1>0, <1>3, <2>5, <3>3
    <3>5. \A j \in Copies : stasks'[r][j] <= 1 /\ (TaskHas(r, j)' => j = k)
      BY <3>4 DEF TaskHas
    <3>6. \A m, x : Holds(r, m, x)' => (m = "task" /\ x = k) \/ (Holds(r, m, x) /\ ~(m = "sender" /\ x = s))
      <4> TAKE m, x
      <4> HAVE Holds(r, m, x)'
      <4>1. CASE m = "new" /\ NewHas(r, x)'
        <5>1. x \in Dispatchers
          BY <4>1 DEF NewHas
        <5> QED BY <1>4, <4>1, <5>1 DEF Holds
      <4>2. CASE m = "task" /\ TaskHas(r, x)'
        <5>1. x \in Copies
          BY <4>2 DEF TaskHas
        <5> QED BY <3>5, <4>2, <5>1
      <4>3. CASE m = "sender" /\ SenderHas(r, x)'
        <5>1. x \in Senders
          BY <4>3 DEF SenderHas
        <5> QED BY <2>1, <4>3, <5>1 DEF Holds
      <4>4. CASE m = "row" /\ x = None /\ RowHas(r)'
        BY <1>4, <4>4 DEF Holds
      <4> QED BY <4>1, <4>2, <4>3, <4>4 DEF Holds
    <3>7. \A j \in Copies : stasks'[r][j] <= 1
      BY <3>5
    <3>8. MailOK(r) /\ todo[s] \in Trying /\ accepted'[r] = accepted[r]
      BY <1>1, <2>3
    <3> HIDE DEF k, q
    <3> QED BY <3>1, <3>6, <3>7, <3>8, MailPasses
  <2> QED BY <2>4, <2>5
<1> QED BY <1>4, <1>5 DEF OnceInv

\* The other steps of a sender; those that count touch a row that points to
\* their message, which does not wait.
LEMMA ActsOnce ==
    ASSUME TInv, OnceInv, NEW s \in Senders,
           \/ Gate(s) \/ CountTry(s) \/ MarkSent(s) \/ MarkFailed(s) \/ Commit(s) \/ Release(s)
           \/ CountSent(s) \/ CountLost(s) \/ Check(s) \/ MarkCompleted(s) \/ StepFails(s) \/ SenderDies(s)
    PROVE  OnceInv'
<1>0. todo[s] # <<>> /\ todo[s] \in Plans /\ smy[s][2] \in Copies
  <2>1. todo[s] # <<>>
    BY DEF Gate, CountTry, MarkSent, MarkFailed, Commit, Release, CountSent, CountLost, Check, MarkCompleted,
           StepFails, SenderDies, At
  <2> QED BY <2>1, AtHand
<1>1. UNCHANGED <<stasks, accepted, dtasks, dVars>>
  BY DEF Gate, CountTry, MarkSent, MarkFailed, Commit, Release, CountSent, CountLost, Check, MarkCompleted,
         StepFails, SenderDies, taskVars
<1>2. Apart
  <2>1. CASE rec' = rec
    BY <1>1, <2>1 DEF Apart
  <2>2. ASSUME CountSent(s) \/ CountLost(s), NEW r \in Recs, rec[r].status \in Waiting \/ rec'[r].status \in Waiting
        PROVE  rec'[r] = rec[r]
    <3>1. rec \in [Recs -> RecRow]
      BY TypeParts DEF TInv, RestTyped
    <3>2. CASE r \in Points(s)
      <4>1. rec[r].msg = smy[s][2] /\ rec[r].msg # 0
        BY <1>0, <3>2, Constants DEF Points
      <4>2. rec[r].status \notin Waiting
        BY <4>1 DEF OnceInv, RowsOK
      <4>3. rec'[r] = rec[r] \/ rec'[r].status \in {"sent", "failed"}
        BY <2>2, <3>1 DEF CountSent, CountLost, RecRow
      <4> QED BY <2>2, <4>2, <4>3 DEF Waiting
    <3>3. CASE r \notin Points(s)
      BY <2>2, <3>3 DEF CountSent, CountLost
    <3> QED BY <3>2, <3>3
  <2>3. rec' = rec \/ CountSent(s) \/ CountLost(s)
    BY DEF Gate, CountTry, MarkSent, MarkFailed, Commit, Release, Check, MarkCompleted, StepFails, SenderDies
  <2> QED BY <1>1, <2>1, <2>2, <2>3 DEF Apart
<1>3. ASSUME NEW plan \in Plans, Then(s, plan), plan \in Trying => todo[s] \in Trying PROVE OnceInv'
  BY <1>0, <1>1, <1>2, <1>3, ThenOnce
<1>4. ASSUME Finish(s) PROVE OnceInv'
  BY <1>0, <1>3, <1>4, PlanSteps DEF Finish
<1>5. CASE Gate(s)
  BY <1>3, <1>5, GateMoves, PlanNames
<1>6. CASE CountTry(s)
  BY <1>3, <1>6, TryMoves, PlanNames DEF Trying
<1>7. CASE Check(s)
  BY <1>0, <1>3, <1>4, <1>7, CheckMoves, PlanSteps
<1>8. CASE StepFails(s) \/ SenderDies(s)
  BY <1>3, <1>4, <1>8, FailMoves, PlanNames
<1>9. CASE MarkSent(s) \/ MarkFailed(s) \/ Commit(s) \/ Release(s) \/ CountSent(s) \/ CountLost(s) \/ MarkCompleted(s)
  BY <1>4, <1>9, SavesMove DEF Saves
<1> QED BY <1>5, <1>6, <1>7, <1>8, <1>9

LEMMA InitIInv == Init => IInv
<1> SUFFICES ASSUME Init PROVE IInv
  OBVIOUS
<1>1. TInv
  BY InitTyped
<1>2. OneWorker /\ WorkOK /\ RowsOK
  BY DEF Init, OneWorker, WorkOK, WorkAt, RowsOK
<1>3. ASSUME NEW r \in Recs PROVE MailOK(r)
  <2>1. \A k, w : Holds(r, k, w) => k = "row" /\ w = None
    BY DEF Init, Holds, NewHas, TaskHas, SenderHas
  <2>2. \A k \in Copies : stasks[r][k] = 0
    BY DEF Init
  <2>3. accepted[r] = 0
    BY DEF Init
  <2> QED BY <2>1, <2>2, <2>3 DEF MailOK
<1> QED BY <1>1, <1>2, <1>3 DEF IInv, OnceInv

LEMMA SceneStays == [Next]_vars => scene' = scene
BY DEF Next, Dispatch, RetryHeld, DispatchStep, DispatcherDies, Pause, Begin, TakeChunk, NoChunk, Refuse, Reserve, Hold,
         Create, Link, Enqueue, GoOn, Complete, Reopen, Take, SendStep, Gate, Send, MarkSent, MarkFailed, CountTry, Retry,
         Commit, Release, CountSent, CountLost, Check, MarkCompleted, StepFails, SenderDies, World, FiredAgain, CancelLate,
         OptOut, MoreRoom, SwitchOff, SwitchOn, Halt, vars, worldVars

LEMMA NextIInv == IInv /\ [Next]_vars => IInv'
<1> SUFFICES ASSUME IInv, [Next]_vars PROVE IInv'
  OBVIOUS
<1>0. TInv /\ TInv'
  BY StepTyped DEF IInv
<1>1. scene' = scene
  BY SceneStays
<1> SUFFICES ASSUME Single PROVE OnceInv'
  BY <1>0, <1>1 DEF IInv, Single
<1>2. OnceInv
  BY DEF IInv
<1>3. ASSUME UNCHANGED <<rec, stasks, dVars, sVars, accepted, dtasks>> PROVE OnceInv'
  <2>1. OneWorker' /\ WorkOK' /\ RowsOK'
    BY <1>2, <1>3 DEF OnceInv, OneWorker, WorkOK, RowsOK, dVars
  <2>2. \A r \in Recs : MailOK(r)'
    BY <1>2, <1>3, MailSame DEF OnceInv, RowHas, NewHas, dVars
  <2> QED BY <2>1, <2>2 DEF OnceInv
<1>4. CASE UNCHANGED vars
  BY <1>3, <1>4 DEF vars, dVars, sVars
<1>5. CASE World
  BY <1>0, <1>3, <1>5, WorldTyped DEF Single
<1>6. ASSUME NEW d \in Dispatchers, Dispatch(d) \/ RetryHeld(d) \/ DispatchStep(d) \/ DispatcherDies(d) PROVE OnceInv'
  BY <1>0, <1>2, <1>6, StartOnce, StepsOnce, RefuseOnce, ReserveOnce, HoldOnce, CreateOnce, LinkOnce, EnqueueOnce
     DEF DispatchStep
<1>7. ASSUME NEW s \in Senders, SenderActs(s) PROVE OnceInv'
  BY <1>0, <1>2, <1>7, SendOnce, RetryOnce, ActsOnce DEF SenderActs, SendStep
<1>8. ASSUME NEW s \in Senders, NEW r \in Recs, NEW k \in Copies, Take(s, r, k) PROVE OnceInv'
  BY <1>0, <1>2, <1>8, TakeOnce
<1> QED BY <1>4, <1>5, <1>6, <1>7, <1>8 DEF Next, SenderActs

-----------------------------------------------------------------------------
(* The books.  While nothing fails that they do not allow for, the row of a *)
(* recipient, its reservation and what the provider took stand together as *)
(* the plan of the one that holds the mail says.                           *)

\* No fault the books do not allow for.
Sound == scene.faults \cap {"crash", "database", "unanswered", "again"} = {}

\* The row, the reservation and the provider, as they stand while a mail is under
\* way, when it is taken, and when nobody has to do with the recipient any more.
Underway(k, row, unit, took) == row.status = "queued" /\ row.msg = k /\ unit = "reserved" /\ took = 0
Over(row, unit, took) ==
    \/ row.status = "sent" /\ unit = "committed" /\ took = 1
    \/ row.status = "failed" /\ unit \in {"none", "released"} /\ took = 0
    \/ row.status = "queued" /\ unit = "released" /\ took = 0      \* refused at the last look

Going == {<<"gate">>, <<"call">>, <<"failed", "try">>, <<"try">>, <<"retry">>,
          Suppressed, Dropped, <<"lost", "check", "release">>}

\* What a send task finds, by what it has still to do.
PlanAt(plan, k, row, unit, took) ==
    \/ plan \in Going /\ Underway(k, row, unit, took)
    \/ plan \in {<<"check", "release">>, <<"complete", "release">>}
       /\ row.status = "failed" /\ row.msg = k /\ unit = "reserved" /\ took = 0
    \/ plan = <<"release">> /\ row.status \in {"queued", "failed"} /\ row.msg = k /\ unit = "reserved" /\ took = 0
    \/ plan \in {Accepted, <<"commit", "count", "check">>}
       /\ row.status = "queued" /\ row.msg = k /\ unit = "reserved" /\ took = 1
    \/ plan = <<"count", "check">> /\ row.status = "queued" /\ row.msg = k /\ unit = "committed" /\ took = 1
    \/ plan \in {<<"check">>, <<"complete">>} /\ row.status = "sent" /\ unit = "committed" /\ took = 1

\* A dispatcher has reserved a unit for the row and makes its message.
Prepares(d, r) == dpc[d] \in {"hold", "create", "link"} /\ r \in dmy[d].go
MadeFor(d, r, k) == dpc[d] = "enqueue" /\ <<r, k>> \in dmy[d].new
InFlight(r) == (\E d \in Dispatchers : NewHas(r, d)) \/ (\E k \in Copies : TaskHas(r, k))
               \/ (\E s \in Senders : SenderHas(r, s))
Book(r) ==
    /\ \A s \in Senders : SenderHas(r, s) => PlanAt(todo[s], smy[s][2], rec[r], hold[r], accepted[r])
    /\ \A k \in Copies : TaskHas(r, k) => Underway(k, rec[r], hold[r], accepted[r])
    /\ \A d \in Dispatchers, k \in Copies : MadeFor(d, r, k) => Underway(k, rec[r], hold[r], accepted[r])
    /\ \A d \in Dispatchers : Prepares(d, r) => hold[r] = "reserved"
    /\ RowHas(r) => /\ accepted[r] = 0 /\ hold[r] \in {"none", "reserved"}
                    /\ hold[r] = "reserved" => \E d \in Dispatchers : Prepares(d, r)
    /\ RowHas(r) \/ InFlight(r) \/ Over(rec[r], hold[r], accepted[r])
    /\ \A k \in Copies : AlreadyAccepted(msg[r][k]) => accepted[r] = 1
Counts == counts.sent = Cardinality(In({"sent"})) /\ counts.failed = Cardinality(In({"failed"}))
Books == (\A r \in Recs : Book(r)) /\ Counts

LEMMA BookSame ==
    ASSUME NEW r \in Recs, Book(r), rec'[r] = rec[r], hold'[r] = hold[r], accepted'[r] = accepted[r],
           \A k \in Copies : /\ stasks'[r][k] = stasks[r][k]
                             /\ AlreadyAccepted(msg'[r][k]) => AlreadyAccepted(msg[r][k]),
           \A s \in Senders : /\ SenderHas(r, s)' <=> SenderHas(r, s)
                              /\ SenderHas(r, s) => todo'[s] = todo[s] /\ smy'[s] = smy[s],
           \A d \in Dispatchers : /\ Prepares(d, r)' <=> Prepares(d, r)
                                  /\ \A k \in Copies : MadeFor(d, r, k)' <=> MadeFor(d, r, k)
    PROVE  Book(r)'
<1>1. \A k \in Copies : TaskHas(r, k)' <=> TaskHas(r, k)
  BY DEF TaskHas
<1>2. \A d \in Dispatchers : NewHas(r, d)' <=> NewHas(r, d)
  BY DEF NewHas, MadeFor
<1>3. (InFlight(r)' <=> InFlight(r)) /\ (RowHas(r)' <=> RowHas(r))
  BY <1>1, <1>2 DEF InFlight, RowHas
<1>4. \A s \in Senders : SenderHas(r, s)' => PlanAt(todo'[s], smy'[s][2], rec'[r], hold'[r], accepted'[r])
  BY DEF Book
<1>5. \A k \in Copies : TaskHas(r, k)' => Underway(k, rec'[r], hold'[r], accepted'[r])
  BY <1>1 DEF Book
<1>6. \A d \in Dispatchers, k \in Copies : MadeFor(d, r, k)' => Underway(k, rec'[r], hold'[r], accepted'[r])
  BY DEF Book
<1>7. RowHas(r)' \/ InFlight(r)' \/ Over(rec'[r], hold'[r], accepted'[r])
  BY <1>3 DEF Book
<1>8. \A k \in Copies : AlreadyAccepted(msg'[r][k]) => accepted'[r] = 1
  BY DEF Book
<1>9. /\ \A d \in Dispatchers : Prepares(d, r)' => hold'[r] = "reserved"
      /\ RowHas(r)' => /\ accepted'[r] = 0 /\ hold'[r] \in {"none", "reserved"}
                       /\ hold'[r] = "reserved" => \E d \in Dispatchers : Prepares(d, r)'
  BY <1>3 DEF Book
<1> QED BY <1>4, <1>5, <1>6, <1>7, <1>8, <1>9 DEF Book

LEMMA CountsSame ==
    ASSUME Counts, counts' = counts,
           \A r \in Recs : \A status \in {"sent", "failed"} : rec'[r].status = status <=> rec[r].status = status
    PROVE  Counts'
<1>1. In({"sent"})' = In({"sent"}) /\ In({"failed"})' = In({"failed"})
  BY DEF In
<1> QED BY <1>1 DEF Counts

\* A row that waits is in nobody's flight, and no other dispatcher prepares it.
LEMMA Alone ==
    ASSUME TInv, OnceInv, NEW r \in Recs, RowHas(r)
    PROVE  /\ \A d \in Dispatchers : ~NewHas(r, d) /\ \A k \in Copies : ~MadeFor(d, r, k)
           /\ \A k \in Copies : ~TaskHas(r, k)
           /\ \A s \in Senders : ~SenderHas(r, s)
           /\ \A d, e \in Dispatchers : dpc[d] # "idle" /\ rec[r].status = Mine(dmy[d]) /\ Prepares(e, r) => e = d
<1>1. Holds(r, "row", None) /\ MailOK(r)
  BY DEF Holds, OnceInv
<1>2. \A k, w : Holds(r, k, w) => k = "row"
  BY <1>1 DEF MailOK
<1>3. \A w : ~NewHas(r, w) /\ ~TaskHas(r, w) /\ ~SenderHas(r, w)
  BY <1>2, Kinds
<1>4. ASSUME NEW d \in Dispatchers, NEW e \in Dispatchers, dpc[d] # "idle", rec[r].status = Mine(dmy[d]), Prepares(e, r)
      PROVE  e = d
  <2>1. rec[r].status = Mine(dmy[e]) /\ dpc[e] # "idle"
    BY <1>4 DEF Prepares, OnceInv, WorkOK, WorkAt
  <2>2. dmy[d].held \in BOOLEAN /\ dmy[e].held \in BOOLEAN
    BY DEF TInv, HandsOK, Hand
  <2>3. dmy[d].held = dmy[e].held
    BY <1>4, <2>1, <2>2 DEF Mine
  <2> QED BY <1>4, <2>1, <2>3 DEF OnceInv, OneWorker
<1> QED BY <1>3, <1>4 DEF NewHas, MadeFor

\* Steps of a dispatcher that prepares nothing, before and after.
Busy == {"hold", "create", "link", "enqueue"}
LEMMA HandsSame ==
    ASSUME TInv, NEW d \in Dispatchers, NEW step \in Places, NEW my \in Hand, Moves(d, step, my),
           dpc[d] \notin Busy, step \notin Busy
    PROVE  \A r \in Recs, e \in Dispatchers :
              /\ Prepares(e, r)' <=> Prepares(e, r)
              /\ \A k \in Copies : MadeFor(e, r, k)' <=> MadeFor(e, r, k)
<1>1. \A e \in Dispatchers : dpc'[e] = (IF e = d THEN step ELSE dpc[e]) /\ dmy'[e] = (IF e = d THEN my ELSE dmy[e])
  BY DEF Moves, TInv, TypeOK, HandsOK
<1> QED BY <1>1 DEF Prepares, MadeFor, Busy

LEMMA SendersSame ==
    ASSUME UNCHANGED sVars, NEW r
    PROVE  \A s \in Senders : (SenderHas(r, s)' <=> SenderHas(r, s)) /\ todo'[s] = todo[s] /\ smy'[s] = smy[s]
BY DEF sVars, SenderHas

LEMMA IdleBooks ==
    ASSUME TInv, Books, NEW d \in Dispatchers, NEW step \in Places, NEW my \in Hand, Moves(d, step, my),
           dpc[d] \notin Busy, step \notin Busy, UNCHANGED <<counts, rec, msg, hold, sVars, stasks, accepted>>
    PROVE  Books'
<1>1. \A r \in Recs : Book(r)'
  BY BookSame, HandsSame, SendersSame DEF Books
<1>2. Counts'
  BY CountsSame DEF Books
<1> QED BY <1>1, <1>2 DEF Books

\* A mail in somebody's hands is in nobody else's.
LEMMA Lone ==
    ASSUME TInv, OnceInv, NEW r \in Recs, NEW kind, kind # "row", NEW w, Holds(r, kind, w)
    PROVE  /\ ~RowHas(r) /\ \A d \in Dispatchers : ~Prepares(d, r)
           /\ \A d \in Dispatchers, k \in Copies : NewHas(r, d) \/ MadeFor(d, r, k) => kind = "new" /\ d = w
           /\ \A k \in Copies : TaskHas(r, k) => kind = "task" /\ k = w
           /\ \A s \in Senders : SenderHas(r, s) => kind = "sender" /\ s = w
<1>1. \A l, v : Holds(r, l, v) => l = kind /\ v = w
  BY DEF MailOK, OnceInv
<1>2. ~RowHas(r)
  BY <1>1 DEF Holds
<1>3. \A d \in Dispatchers : ~Prepares(d, r)
  <2> SUFFICES ASSUME NEW d \in Dispatchers, Prepares(d, r) PROVE FALSE
    OBVIOUS
  <2>1. rec[r].status = Mine(dmy[d])
    BY DEF Prepares, OnceInv, WorkOK, WorkAt
  <2> QED BY <1>2, <2>1 DEF RowHas, Mine, Waiting
<1>4. \A d \in Dispatchers, k \in Copies : MadeFor(d, r, k) => NewHas(r, d)
  BY DEF MadeFor, NewHas
<1>5. \A v : /\ NewHas(r, v) => kind = "new" /\ v = w
             /\ TaskHas(r, v) => kind = "task" /\ v = w
             /\ SenderHas(r, v) => kind = "sender" /\ v = w
  BY <1>1, Kinds
<1> QED BY <1>2, <1>3, <1>4, <1>5

\* Nobody has to do with the recipient any more; its row waits.
LEMMA BookOver ==
    ASSUME NEW r \in Recs, Over(rec'[r], hold'[r], accepted'[r]), ~RowHas(r)', ~InFlight(r)',
           \A d \in Dispatchers : ~Prepares(d, r)',
           \A k \in Copies : AlreadyAccepted(msg'[r][k]) => accepted'[r] = 1
    PROVE  Book(r)'
<1>1. /\ \A s \in Senders : ~SenderHas(r, s)'
      /\ \A k \in Copies : ~TaskHas(r, k)'
      /\ \A d \in Dispatchers, k \in Copies : ~MadeFor(d, r, k)'
  BY DEF InFlight, MadeFor, NewHas
<1> QED BY <1>1 DEF Book

LEMMA BookWaits ==
    ASSUME NEW r \in Recs, RowHas(r)', ~InFlight(r)', accepted'[r] = 0, hold'[r] \in {"none", "reserved"},
           \A d \in Dispatchers : Prepares(d, r)' => hold'[r] = "reserved",
           hold'[r] = "reserved" => \E d \in Dispatchers : Prepares(d, r)',
           \A k \in Copies : ~AlreadyAccepted(msg'[r][k])
    PROVE  Book(r)'
<1>1. /\ \A s \in Senders : ~SenderHas(r, s)'
      /\ \A k \in Copies : ~TaskHas(r, k)'
      /\ \A d \in Dispatchers, k \in Copies : ~MadeFor(d, r, k)'
  BY DEF InFlight, MadeFor, NewHas
<1> QED BY <1>1 DEF Book

\* The dispatcher looks around, begins, stops.
LEMMA LooksBooks ==
    ASSUME TInv, Books, NEW d \in Dispatchers,
           \/ Dispatch(d) \/ RetryHeld(d) \/ Pause(d) \/ Begin(d) \/ TakeChunk(d)
           \/ NoChunk(d) \/ GoOn(d) \/ Complete(d) \/ Reopen(d)
    PROVE  Books'
<1>1. UNCHANGED <<counts, rec, msg, hold, sVars, stasks, accepted>>
  BY DEF Dispatch, RetryHeld, Pause, Begin, TakeChunk, NoChunk, GoOn, Complete, Reopen, campVars, planVars, taskVars
<1>2. CASE UNCHANGED dVars
  <2>1. \A r \in Recs, e \in Dispatchers : /\ Prepares(e, r)' <=> Prepares(e, r)
                                           /\ \A k \in Copies : MadeFor(e, r, k)' <=> MadeFor(e, r, k)
    BY <1>2 DEF dVars, Prepares, MadeFor
  <2>2. \A r \in Recs : Book(r)'
    BY <1>1, <2>1, BookSame, SendersSame DEF Books
  <2> QED BY <1>1, <2>2, CountsSame DEF Books
<1>3. ASSUME NEW step \in Places \ Busy, NEW my \in Hand, Moves(d, step, my), dpc[d] \notin Busy PROVE Books'
  BY <1>1, <1>3, IdleBooks
<1>4. {"idle", "begin", "chunk", "refuse", "reserve", "complete"} \subseteq Places \ Busy /\ Rested \in Hand /\ dmy[d] \in Hand
  BY RestedHand DEF Places, Busy, TInv, HandsOK
<1>5. CASE Dispatch(d)
  BY <1>2, <1>3, <1>4, <1>5, DispatchMoves DEF Busy
<1>6. CASE RetryHeld(d)
  BY <1>3, <1>4, <1>6, HeldMoves DEF Busy
<1>7. CASE Pause(d) \/ Complete(d) \/ Reopen(d)
  BY <1>3, <1>4, <1>7, StopsTyped DEF Busy, Stops
<1>8. CASE Begin(d)
  BY <1>3, <1>4, <1>8, BeginMoves DEF Busy
<1>9. CASE TakeChunk(d)
  BY <1>3, <1>4, <1>9, ChunkMoves DEF Busy
<1>10. CASE NoChunk(d) \/ GoOn(d)
  BY <1>3, <1>4, <1>10, LookMoves DEF Busy
<1> QED BY <1>5, <1>6, <1>7, <1>8, <1>9, <1>10

\* Those that are refused had no unit yet.
LEMMA RefuseBooks ==
    ASSUME TInv, OnceInv, Books, NEW d \in Dispatchers, Refuse(d)
    PROVE  Books'
<1> DEFINE out == dmy[d].batch \cap optedOut
<1>1. dpc[d] = "refuse" /\ dmy[d] \in Hand /\ WorkAt("refuse", dmy[d], rec) /\ ~dmy[d].held /\ out \subseteq Recs
  BY DEF Refuse, TInv, HandsOK, HandAt, OnceInv, WorkOK, Hand
<1>2. \A r \in out : rec[r].status = Mine(dmy[d]) /\ rec[r].status = "pending"
  BY <1>1 DEF WorkAt, Mine
<1>3. \E my \in Hand : Moves(d, "reserve", my)
  BY RefuseMoves
<1>4. \A r \in Recs, e \in Dispatchers : /\ Prepares(e, r)' <=> Prepares(e, r)
                                         /\ \A k \in Copies : MadeFor(e, r, k)' <=> MadeFor(e, r, k)
  BY <1>1, <1>3, HandsSame DEF Busy, Places
<1>5. /\ UNCHANGED <<msg, hold, sVars, stasks, accepted>> /\ rec \in [Recs -> RecRow]
      /\ \A r \in Recs : rec'[r] = IF r \in out THEN [rec[r] EXCEPT !.status = "failed"] ELSE rec[r]
  BY TypeParts DEF Refuse, planVars, taskVars, TInv, RestTyped
<1>6. ASSUME NEW r \in Recs PROVE Book(r)'
  <2>1. CASE r \notin out
    BY <1>4, <1>5, <2>1, BookSame, SendersSame DEF Books
  <2>2. CASE r \in out
    <3>1. RowHas(r) /\ rec[r].status = Mine(dmy[d]) /\ Book(r)
      BY <1>2, <2>2 DEF RowHas, Waiting, Books
    <3>2. \A e \in Dispatchers : ~Prepares(e, r)
      BY <1>1, <3>1, Alone DEF Prepares
    <3>3. accepted[r] = 0 /\ hold[r] = "none" /\ \A k \in Copies : ~AlreadyAccepted(msg[r][k])
      BY <3>1, <3>2 DEF Book
    <3>4. rec'[r].status = "failed"
      BY <1>5, <2>2 DEF RecRow
    <3>5. ~InFlight(r)
      BY <3>1, Alone DEF InFlight
    <3>6. ~InFlight(r)'
      BY <1>4, <1>5, <3>5 DEF InFlight, NewHas, TaskHas, SenderHas, MadeFor, sVars
    <3> QED BY <1>4, <1>5, <3>2, <3>3, <3>4, <3>6, BookOver DEF Over, RowHas, Waiting
  <2> QED BY <2>1, <2>2
<1>7. Counts'
  <2>1. In({"sent"})' = In({"sent"})
    BY <1>2, <1>5 DEF In, RecRow
  <2>2. In({"failed"})' = In({"failed"}) \cup out
    BY <1>1, <1>5 DEF In, RecRow
  <2>3. In({"failed"}) \cap out = {}
    BY <1>2 DEF In
  <2>4. In({"failed"}) \in SUBSET Recs /\ out \in SUBSET Recs
    BY <1>1 DEF In
  <2>5. Cardinality(In({"failed"}) \cup out) = Cardinality(In({"failed"})) + Cardinality(out)
    <3>1. Cardinality(In({"failed"}) \cup out)
            = Cardinality(In({"failed"})) + Cardinality(out) - Cardinality(In({"failed"}) \cap out)
      BY <2>4, SubsetsCounted, FS_Union
    <3>2. Cardinality(In({"failed"}) \cap out) = 0
      BY <2>3, FS_EmptySet
    <3> QED BY <2>4, <3>1, <3>2, SubsetsCounted
  <2>6. counts \in [sent : Nat, failed : Nat] /\ counts' = [counts EXCEPT !.failed = counts.failed + Cardinality(out)]
    BY TypeParts DEF TInv, RestTyped, Refuse
  <2>7. counts'.sent = counts.sent /\ counts'.failed = counts.failed + Cardinality(out)
    BY <2>6
  <2> HIDE DEF out
  <2> QED BY <2>1, <2>2, <2>5, <2>7 DEF Counts, Books
<1> QED BY <1>6, <1>7 DEF Books

\* A unit for those that have none.
LEMMA ReserveBooks ==
    ASSUME TInv, OnceInv, Books, NEW d \in Dispatchers, Reserve(d)
    PROVE  Books'
<1>1. dpc[d] = "reserve" /\ dmy[d] \in Hand /\ WorkAt("reserve", dmy[d], rec)
  BY DEF Reserve, TInv, HandsOK, OnceInv, WorkOK
<1> DEFINE batch == dmy[d].batch
<1>2. batch \subseteq Recs /\ \A r \in batch : rec[r].status = Mine(dmy[d]) /\ RowHas(r)
  BY <1>1 DEF Hand, WorkAt, Mine, RowHas, Waiting
<1>3. \A r \in batch : /\ hold[r] = "none" /\ accepted[r] = 0 /\ \A k \in Copies : ~AlreadyAccepted(msg[r][k])
                       /\ \A e \in Dispatchers : ~Prepares(e, r)
  <2> TAKE r \in batch
  <2>1. \A e \in Dispatchers : ~Prepares(e, r)
    BY <1>1, <1>2, Alone DEF Prepares
  <2> QED BY <1>2, <2>1 DEF Books, Book
<1>4. PICK got \in SUBSET Recs :
          LET my == [dmy[d] EXCEPT !.go = got \cup Standing(batch)]
              step == IF dmy[d].held THEN "create" ELSE "hold"
          IN  /\ got \subseteq Fresh(batch)
              /\ hold' = [r \in Recs |-> IF r \in got THEN "reserved" ELSE hold[r]]
              /\ my \in Hand /\ Moves(d, step, my)
  BY ReserveMoves
<1>5. Standing(batch) = {}
  BY <1>3 DEF Standing
<1>6. PICK my \in Hand : my.go = got /\ \E step \in {"hold", "create"} : Moves(d, step, my)
  <2> DEFINE you == [dmy[d] EXCEPT !.go = got \cup Standing(batch)]
  <2>1. you \in Hand /\ you.go = got
    BY <1>1, <1>4, <1>5, HandEdits
  <2>2. \E step \in {"hold", "create"} : Moves(d, step, you)
    BY <1>4
  <2> QED BY <2>1, <2>2
<1>7. PICK step \in {"hold", "create"} : Moves(d, step, my)
  BY <1>6
<1>8. \A e \in Dispatchers : dpc'[e] = (IF e = d THEN step ELSE dpc[e]) /\ dmy'[e] = (IF e = d THEN my ELSE dmy[e])
  BY <1>7 DEF Moves, TInv, TypeOK, HandsOK
<1>9. \A r \in Recs, e \in Dispatchers : /\ Prepares(e, r)' <=> Prepares(e, r) \/ (e = d /\ r \in got)
                                         /\ \A k \in Copies : MadeFor(e, r, k)' <=> MadeFor(e, r, k)
  BY <1>1, <1>6, <1>7, <1>8 DEF Prepares, MadeFor
<1>10. UNCHANGED <<rec, counts, msg, sVars, stasks, accepted>> /\ got \subseteq batch
  BY <1>4 DEF Reserve, campVars, taskVars, Fresh
<1>11. ASSUME NEW r \in Recs PROVE Book(r)'
  <2>1. CASE r \notin got
    <3>1. hold'[r] = hold[r]
      BY <1>4, <2>1
    <3> QED BY <1>9, <1>10, <2>1, <3>1, BookSame, SendersSame DEF Books
  <2>2. CASE r \in got
    <3>1. RowHas(r) /\ hold'[r] = "reserved"
      BY <1>2, <1>4, <1>10, <2>2
    <3>2. ~InFlight(r)
      BY <3>1, Alone DEF InFlight
    <3>3. ~InFlight(r)'
      BY <1>9, <1>10, <3>2 DEF InFlight, NewHas, TaskHas, SenderHas, MadeFor, sVars
    <3>4. RowHas(r)' /\ accepted'[r] = 0 /\ \A k \in Copies : ~AlreadyAccepted(msg'[r][k])
      BY <1>3, <1>10, <2>2, <3>1 DEF RowHas
    <3>5. Prepares(d, r)'
      BY <1>9, <2>2
    <3> QED BY <3>1, <3>3, <3>4, <3>5, BookWaits
  <2> QED BY <2>1, <2>2
<1>12. Counts'
  BY <1>10, CountsSame DEF Books
<1> QED BY <1>11, <1>12 DEF Books

\* Those that are held have none.
LEMMA HoldBooks ==
    ASSUME TInv, OnceInv, Books, NEW d \in Dispatchers, Hold(d)
    PROVE  Books'
<1> DEFINE back == dmy[d].batch \ dmy[d].go
<1>1. dpc[d] = "hold" /\ dmy[d] \in Hand /\ WorkAt("hold", dmy[d], rec) /\ ~dmy[d].held /\ back \subseteq Recs
  BY DEF Hold, TInv, HandsOK, HandAt, OnceInv, WorkOK, Hand
<1>2. \A r \in back : rec[r].status = Mine(dmy[d]) /\ rec[r].status = "pending"
  BY <1>1 DEF WorkAt, Mine
<1>3. Moves(d, "create", dmy[d])
  BY HoldMoves
<1>4. \A e \in Dispatchers : dpc'[e] = (IF e = d THEN "create" ELSE dpc[e]) /\ dmy'[e] = dmy[e]
  BY <1>3 DEF Moves, TInv, TypeOK, HandsOK
<1>5. \A r \in Recs, e \in Dispatchers : /\ Prepares(e, r)' <=> Prepares(e, r)
                                         /\ \A k \in Copies : MadeFor(e, r, k)' <=> MadeFor(e, r, k)
  BY <1>1, <1>4 DEF Prepares, MadeFor
<1>6. /\ UNCHANGED <<counts, msg, hold, sVars, stasks, accepted>> /\ rec \in [Recs -> RecRow]
      /\ \A r \in Recs : rec'[r] = IF r \in back THEN [rec[r] EXCEPT !.status = "held"] ELSE rec[r]
  BY TypeParts DEF Hold, campVars, planVars, taskVars, TInv, RestTyped
<1>7. ASSUME NEW r \in Recs PROVE Book(r)'
  <2>1. CASE r \notin back
    BY <1>5, <1>6, <2>1, BookSame, SendersSame DEF Books
  <2>2. CASE r \in back
    <3>1. RowHas(r) /\ rec[r].status = Mine(dmy[d]) /\ Book(r)
      BY <1>2, <2>2 DEF RowHas, Waiting, Books
    <3>2. \A e \in Dispatchers : ~Prepares(e, r)
      BY <1>1, <2>2, <3>1, Alone DEF Prepares
    <3>3. accepted[r] = 0 /\ hold[r] = "none" /\ \A k \in Copies : ~AlreadyAccepted(msg[r][k])
      BY <3>1, <3>2 DEF Book
    <3>4. RowHas(r)'
      BY <1>6, <2>2 DEF RecRow, RowHas, Waiting
    <3>5. ~InFlight(r)
      BY <3>1, Alone DEF InFlight
    <3>6. ~InFlight(r)'
      BY <1>5, <1>6, <3>5 DEF InFlight, NewHas, TaskHas, SenderHas, MadeFor, sVars
    <3> QED BY <1>5, <1>6, <3>2, <3>3, <3>4, <3>6, BookWaits
  <2> QED BY <2>1, <2>2
<1>8. Counts'
  <2>1. \A r \in Recs : \A status \in {"sent", "failed"} : rec'[r].status = status <=> rec[r].status = status
    BY <1>2, <1>6 DEF RecRow
  <2> QED BY <1>6, <2>1, CountsSame DEF Books
<1> QED BY <1>7, <1>8 DEF Books

\* Messages are made, queued.
LEMMA CreateBooks ==
    ASSUME TInv, Books, NEW d \in Dispatchers, Create(d)
    PROVE  Books'
<1>1. dpc[d] = "create" /\ dmy[d] \in Hand
  BY DEF Create, TInv, HandsOK
<1>2. PICK my \in Hand : /\ my.go = dmy[d].go
                         /\ Moves(d, IF dmy[d].go # {} THEN "link" ELSE IF dmy[d].held THEN "reopen" ELSE "tail", my)
  <2> DEFINE you == [dmy[d] EXCEPT !.new = {<<r, Made(r) + 1>> : r \in dmy[d].go}]
  <2>1. /\ you \in Hand
        /\ Moves(d, IF dmy[d].go # {} THEN "link" ELSE IF dmy[d].held THEN "reopen" ELSE "tail", you)
    BY CreateMoves
  <2>2. you.go = dmy[d].go
    BY <1>1 DEF Hand
  <2> QED BY <2>1, <2>2
<1>3. PICK step \in {"link", "reopen", "tail"} : Moves(d, step, my) /\ (dmy[d].go # {} => step = "link")
  BY <1>2
<1>4. \A e \in Dispatchers : dpc'[e] = (IF e = d THEN step ELSE dpc[e]) /\ dmy'[e] = (IF e = d THEN my ELSE dmy[e])
  BY <1>3 DEF Moves, TInv, TypeOK, HandsOK
<1>5. \A r \in Recs, e \in Dispatchers : /\ Prepares(e, r)' <=> Prepares(e, r)
                                         /\ \A k \in Copies : MadeFor(e, r, k)' <=> MadeFor(e, r, k)
  BY <1>1, <1>2, <1>3, <1>4 DEF Prepares, MadeFor
<1>6. UNCHANGED <<rec, counts, hold, sVars, stasks, accepted>>
  BY DEF Create, campVars, planVars, taskVars
<1>7. \A r \in Recs, k \in Copies : AlreadyAccepted(msg'[r][k]) => AlreadyAccepted(msg[r][k])
  BY CreateMoves DEF AlreadyAccepted
<1>8. \A r \in Recs : Book(r)'
  BY <1>5, <1>6, <1>7, BookSame, SendersSame DEF Books
<1> QED BY <1>6, <1>8, CountsSame DEF Books

\* The rows point to their messages.
LEMMA LinkBooks ==
    ASSUME TInv, OnceInv, Books, NEW d \in Dispatchers, Link(d)
    PROVE  Books'
<1>1. dpc[d] = "link" /\ dmy[d] \in Hand /\ HandAt("link", dmy[d]) /\ WorkAt("link", dmy[d], rec)
  BY DEF Link, TInv, HandsOK, OnceInv, WorkOK
<1>2. /\ Moves(d, "enqueue", dmy[d]) /\ \A r \in Recs : r \notin dmy[d].go => rec'[r] = rec[r]
      /\ \A r \in Recs, k \in Copies : <<r, k>> \in dmy[d].new => rec'[r] = [status |-> "queued", msg |-> k]
      /\ \A r \in Recs : r \in dmy[d].go <=> \E k \in Copies : <<r, k>> \in dmy[d].new
  BY <1>1, LinkMoves DEF HandAt
<1>3. \A e \in Dispatchers : dpc'[e] = (IF e = d THEN "enqueue" ELSE dpc[e]) /\ dmy'[e] = dmy[e]
  BY <1>2 DEF Moves, TInv, TypeOK, HandsOK
<1>4. \A r \in Recs, e \in Dispatchers :
          /\ Prepares(e, r)' <=> Prepares(e, r) /\ e # d
          /\ \A k \in Copies : MadeFor(e, r, k)' <=> MadeFor(e, r, k) \/ (e = d /\ <<r, k>> \in dmy[d].new)
  BY <1>1, <1>3 DEF Prepares, MadeFor
<1>5. UNCHANGED <<counts, msg, hold, sVars, stasks, accepted>>
  BY DEF Link, campVars, planVars, taskVars
<1>6. ASSUME NEW r \in Recs, r \in dmy[d].go
      PROVE  /\ RowHas(r) /\ rec[r].status = Mine(dmy[d]) /\ Prepares(d, r) /\ rec'[r].status = "queued"
             /\ rec[r].status \notin {"sent", "failed"}
  <2>1. PICK k \in Copies : <<r, k>> \in dmy[d].new
    BY <1>2, <1>6
  <2>2. rec'[r] = [status |-> "queued", msg |-> k]
    BY <1>2, <2>1
  <2>3. rec'[r].status = "queued"
    BY <2>2
  <2> QED BY <1>1, <1>6, <2>3 DEF WorkAt, Mine, RowHas, Waiting, Prepares
<1>7. ASSUME NEW r \in Recs PROVE Book(r)'
  <2>1. CASE r \notin dmy[d].go
    <3>1. \A e \in Dispatchers : /\ Prepares(e, r)' <=> Prepares(e, r)
                                 /\ \A k \in Copies : MadeFor(e, r, k)' <=> MadeFor(e, r, k)
      BY <1>2, <1>4, <2>1 DEF Prepares
    <3> QED BY <1>2, <1>5, <2>1, <3>1, BookSame, SendersSame DEF Books
  <2>2. CASE r \in dmy[d].go
    <3>1. PICK k \in Copies : <<r, k>> \in dmy[d].new
      BY <1>2, <2>2
    <3>2. rec'[r] = [status |-> "queued", msg |-> k]
      BY <1>2, <3>1
    <3>3. RowHas(r) /\ rec[r].status = Mine(dmy[d]) /\ Prepares(d, r) /\ Book(r)
      BY <1>6, <2>2 DEF Books
    <3>4. accepted[r] = 0 /\ hold[r] = "reserved" /\ \A j \in Copies : ~AlreadyAccepted(msg[r][j])
      BY <3>3 DEF Book
    <3>5. Underway(k, rec'[r], hold'[r], accepted'[r])
      BY <1>5, <3>2, <3>4 DEF Underway
    <3>6. \A e \in Dispatchers, j \in Copies : MadeFor(e, r, j)' => j = k
      BY <1>1, <1>4, <3>1, <3>3, Alone DEF HandAt
    <3>7. (\A j \in Copies : ~TaskHas(r, j)') /\ \A s \in Senders : ~SenderHas(r, s)'
      BY <1>5, <3>3, Alone DEF TaskHas, SenderHas, sVars
    <3>8. \A e \in Dispatchers : ~Prepares(e, r)'
      BY <1>1, <1>4, <3>3, Alone
    <3>9. NewHas(r, d)' /\ ~RowHas(r)'
      BY <1>3, <3>1, <3>2 DEF NewHas, RowHas, Waiting
    <3> QED BY <1>5, <3>4, <3>5, <3>6, <3>7, <3>8, <3>9 DEF Book, InFlight
  <2> QED BY <2>1, <2>2
<1>8. Counts'
  <2>1. \A r \in Recs : \A status \in {"sent", "failed"} : rec'[r].status = status <=> rec[r].status = status
    BY <1>2, <1>6
  <2> QED BY <1>5, <2>1, CountsSame DEF Books
<1> QED BY <1>7, <1>8 DEF Books

\* The tasks of the messages.
LEMMA Enqueued ==
    ASSUME TInv, NEW d \in Dispatchers, Enqueue(d), NEW r \in Recs, NEW k \in Copies
    PROVE  IF <<r, k>> \in dmy[d].new THEN stasks'[r][k] > 0 ELSE stasks'[r][k] = stasks[r][k]
<1>1. stasks'[r] = [j \in Copies |-> stasks[r][j] + IF <<r, j>> \in dmy[d].new THEN 1 ELSE 0]
  BY DEF Enqueue
<1>2. stasks'[r][k] = stasks[r][k] + (IF <<r, k>> \in dmy[d].new THEN 1 ELSE 0)
  BY <1>1, Zenon
<1>3. stasks[r][k] \in Nat
  BY TypeParts DEF TInv, RestTyped
<1>4. CASE <<r, k>> \in dmy[d].new
  <2>1. stasks'[r][k] = stasks[r][k] + 1
    BY <1>2, <1>4, Zenon
  <2>2. stasks'[r][k] > 0
    BY <1>3, <2>1
  <2> QED BY <1>4, <2>2
<1>5. CASE <<r, k>> \notin dmy[d].new
  <2>1. stasks'[r][k] = stasks[r][k] + 0
    BY <1>2, <1>5, Zenon
  <2>2. stasks'[r][k] = stasks[r][k]
    BY <1>3, <2>1
  <2> QED BY <1>5, <2>2
<1> QED BY <1>4, <1>5

LEMMA EnqueueBooks ==
    ASSUME TInv, OnceInv, Books, NEW d \in Dispatchers, Enqueue(d)
    PROVE  Books'
<1>1. dpc[d] = "enqueue" /\ dmy[d] \in Hand /\ HandAt("enqueue", dmy[d])
  BY DEF Enqueue, TInv, HandsOK
<1>2. PICK step \in {"reopen", "tail"} : Moves(d, step, dmy[d])
  BY EnqueueMoves
<1>3. \A e \in Dispatchers : dpc'[e] = (IF e = d THEN step ELSE dpc[e]) /\ dmy'[e] = dmy[e]
  BY <1>2 DEF Moves, TInv, TypeOK, HandsOK
<1>4. \A r \in Recs, e \in Dispatchers : /\ Prepares(e, r)' <=> Prepares(e, r)
                                         /\ \A k \in Copies : MadeFor(e, r, k)' <=> MadeFor(e, r, k) /\ e # d
  BY <1>1, <1>3 DEF Prepares, MadeFor
<1>5. UNCHANGED <<rec, counts, msg, hold, sVars, accepted>> /\ stasks \in [Recs -> [Copies -> Nat]]
  BY TypeParts DEF Enqueue, campVars, planVars, TInv, RestTyped
<1>6. \A r \in Recs, k \in Copies : IF <<r, k>> \in dmy[d].new THEN stasks'[r][k] > 0 ELSE stasks'[r][k] = stasks[r][k]
  BY Enqueued
<1>7. ASSUME NEW r \in Recs PROVE Book(r)'
  <2>1. CASE \A k \in Copies : <<r, k>> \notin dmy[d].new
    <3>1. \A e \in Dispatchers, k \in Copies : MadeFor(e, r, k)' <=> MadeFor(e, r, k)
      BY <1>4, <2>1 DEF MadeFor
    <3>2. \A k \in Copies : stasks'[r][k] = stasks[r][k]
      BY <1>5, <1>6, <2>1
    <3> QED BY <1>4, <1>5, <3>1, <3>2, BookSame, SendersSame DEF Books
  <2>2. ASSUME NEW k \in Copies, <<r, k>> \in dmy[d].new PROVE Book(r)'
    <3>1. Holds(r, "new", d) /\ MadeFor(d, r, k) /\ Book(r)
      BY <1>1, <2>2 DEF Holds, NewHas, MadeFor, Books
    <3>2. /\ ~RowHas(r) /\ (\A e \in Dispatchers : ~Prepares(e, r)) /\ (\A j \in Copies : ~TaskHas(r, j))
          /\ (\A s \in Senders : ~SenderHas(r, s)) /\ \A e \in Dispatchers, j \in Copies : MadeFor(e, r, j) => e = d
      BY <3>1, Lone
    <3>3. Underway(k, rec'[r], hold'[r], accepted'[r])
      BY <1>5, <3>1 DEF Book
    <3>4. \A j \in Copies : TaskHas(r, j)' => j = k
      <4>1. \A j \in Copies : ~(stasks[r][j] > 0)
        BY <3>2 DEF TaskHas
      <4>2. \A j \in Copies : <<r, j>> \in dmy[d].new => j = k
        BY <1>1, <2>2 DEF HandAt
      <4> QED BY <1>6, <4>1, <4>2 DEF TaskHas
    <3>5. TaskHas(r, k)'
      BY <1>5, <1>6, <2>2 DEF TaskHas
    <3>6. (\A s \in Senders : ~SenderHas(r, s)') /\ ~RowHas(r)'
      BY <1>5, <3>2 DEF SenderHas, sVars, RowHas
    <3>7. \A e \in Dispatchers : ~Prepares(e, r)' /\ \A j \in Copies : ~MadeFor(e, r, j)'
      BY <1>4, <3>2
    <3>8. \A j \in Copies : AlreadyAccepted(msg'[r][j]) => accepted'[r] = 1
      BY <1>5, <3>1 DEF Book
    <3> QED BY <3>3, <3>4, <3>5, <3>6, <3>7, <3>8 DEF Book, InFlight
  <2> QED BY <2>1, <2>2
<1> QED BY <1>5, <1>7, CountsSame DEF Books

\* A task is taken up; the provider has not taken its mail yet.
LEMMA TakeBooks ==
    ASSUME TInv, OnceInv, Books, NEW s \in Senders, NEW q \in Recs, NEW k \in Copies, Take(s, q, k)
    PROVE  Books'
<1>1. UNCHANGED <<rec, counts, msg, hold, dVars, accepted>> /\ stasks \in [Recs -> [Copies -> Nat]]
  BY TypeParts DEF Take, campVars, planVars, TInv, RestTyped
<1>0. todo[s] = <<>>
  BY DEF Take
<1>2. /\ stasks[q][k] > 0 /\ stasks' = [stasks EXCEPT ![q] = [stasks[q] EXCEPT ![k] = stasks[q][k] - 1]]
      /\ UNCHANGED sVars \/ Goes(s, <<"gate">>, <<q, k>>)
  BY TakeMoves
<1>t. TaskHas(q, k) /\ Book(q)
  BY <1>2 DEF TaskHas, Books
<1>3. Underway(k, rec[q], hold[q], accepted[q])
  BY <1>t DEF Book
<1>4. ~AlreadyAccepted(msg[q][k])
  BY <1>t, <1>3 DEF Book, Underway
<1>5. Goes(s, <<"gate">>, <<q, k>>)
  BY <1>4 DEF Take, Goes
<1>6. \A r \in Recs, e \in Dispatchers : /\ Prepares(e, r)' <=> Prepares(e, r)
                                         /\ \A j \in Copies : MadeFor(e, r, j)' <=> MadeFor(e, r, j)
  BY <1>1 DEF Prepares, MadeFor, dVars
<1>7. \A t \in Senders : /\ todo'[t] = (IF t = s THEN <<"gate">> ELSE todo[t])
                         /\ smy'[t] = (IF t = s THEN <<q, k>> ELSE smy[t])
  BY <1>5 DEF Goes, TInv, HandsOK
<1>8. ASSUME NEW r \in Recs PROVE Book(r)'
  <2>1. CASE r # q
    <3>1. \A t \in Senders : /\ SenderHas(r, t)' <=> SenderHas(r, t)
                             /\ SenderHas(r, t) => todo'[t] = todo[t] /\ smy'[t] = smy[t]
      BY <1>0, <1>7, <2>1 DEF SenderHas
    <3>2. \A j \in Copies : stasks'[r][j] = stasks[r][j]
      BY <1>1, <1>2, <2>1
    <3> QED BY <1>1, <1>6, <3>1, <3>2, BookSame DEF Books
  <2>2. CASE r = q
    <3>1. Holds(q, "task", k)
      BY <1>t DEF Holds
    <3>2. /\ ~RowHas(r) /\ (\A e \in Dispatchers : ~Prepares(e, r)) /\ (\A j \in Copies : TaskHas(r, j) => j = k)
          /\ (\A t \in Senders : ~SenderHas(r, t)) /\ \A e \in Dispatchers, j \in Copies : ~MadeFor(e, r, j)
      BY <2>2, <3>1, Lone
    <3>3. stasks[r][k] <= 1
      BY DEF OnceInv, MailOK
    <3>4. \A j \in Copies : ~TaskHas(r, j)'
      BY <1>1, <1>2, <2>2, <3>2, <3>3 DEF TaskHas
    <3>5. \A t \in Senders : SenderHas(r, t)' <=> t = s
      BY <1>7, <2>2, <3>2 DEF SenderHas
    <3>6. <<"gate">> \in Going
      BY DEF Going
    <3>7. PlanAt(todo'[s], smy'[s][2], rec'[r], hold'[r], accepted'[r])
      BY <1>1, <1>3, <1>7, <2>2, <3>6 DEF PlanAt
    <3>8. ~RowHas(r)' /\ \A j \in Copies : AlreadyAccepted(msg'[r][j]) => accepted'[r] = 1
      BY <1>1, <1>t, <2>2, <3>2 DEF Book, RowHas
    <3>9. \A e \in Dispatchers : ~Prepares(e, r)' /\ \A j \in Copies : ~MadeFor(e, r, j)'
      BY <1>6, <3>2
    <3> QED BY <3>4, <3>5, <3>7, <3>8, <3>9 DEF Book, InFlight
  <2> QED BY <2>1, <2>2
<1> QED BY <1>1, <1>8, CountsSame DEF Books

\* What it finds, plan by plan; the last try is never made.
LEMMA PlanCases ==
    ASSUME NEW k, NEW row, NEW unit, NEW took
    PROVE  /\ \A plan \in Going : PlanAt(plan, k, row, unit, took) <=> Underway(k, row, unit, took)
           /\ \A plan \in {LastTry, <<"lost", "check", "retry">>, <<"check", "retry">>, <<"complete", "retry">>} :
                 ~PlanAt(plan, k, row, unit, took)
           /\ \A plan \in {<<"check", "release">>, <<"complete", "release">>} :
                 PlanAt(plan, k, row, unit, took)
                 <=> row.status = "failed" /\ row.msg = k /\ unit = "reserved" /\ took = 0
           /\ PlanAt(<<"release">>, k, row, unit, took)
              <=> row.status \in {"queued", "failed"} /\ row.msg = k /\ unit = "reserved" /\ took = 0
           /\ \A plan \in {Accepted, <<"commit", "count", "check">>} :
                 PlanAt(plan, k, row, unit, took)
                 <=> row.status = "queued" /\ row.msg = k /\ unit = "reserved" /\ took = 1
           /\ PlanAt(<<"count", "check">>, k, row, unit, took)
              <=> row.status = "queued" /\ row.msg = k /\ unit = "committed" /\ took = 1
           /\ \A plan \in {<<"check">>, <<"complete">>} :
                 PlanAt(plan, k, row, unit, took) <=> row.status = "sent" /\ unit = "committed" /\ took = 1
BY DEF PlanAt, Going, LastTry, Suppressed, Dropped, Accepted

LEMMA PlanNotNone ==
    /\ \A plan \in Going : plan # <<>>
    /\ \A plan \in {<<"check", "release">>, <<"complete", "release">>, <<"release">>, Accepted, <<"commit", "count", "check">>,
                    <<"count", "check">>, <<"check">>, <<"complete">>} : plan # <<>>
BY DEF Going, Suppressed, Dropped, Accepted

LEMMA OneSender ==
    ASSUME TInv, OnceInv, NEW r \in Recs, NEW s \in Senders, SenderHas(r, s)
    PROVE  /\ ~RowHas(r)
           /\ \A d \in Dispatchers : ~Prepares(d, r)
           /\ \A k \in Copies : ~TaskHas(r, k)
           /\ \A t \in Senders : SenderHas(r, t) => t = s
           /\ \A d \in Dispatchers, k \in Copies : ~MadeFor(d, r, k)
<1>1. Holds(r, "sender", s)
  BY DEF Holds
<1> QED BY <1>1, Lone

\* A sender goes on; only its recipient is touched.
LEMMA SenderBook ==
    ASSUME TInv, OnceInv, Books, NEW s \in Senders, todo[s] # <<>>, NEW plan, Then(s, plan),
           UNCHANGED <<dVars, stasks>>, NEW q \in Recs, q = smy[s][1],
           \A r \in Recs : r # q => /\ rec'[r] = rec[r] /\ hold'[r] = hold[r] /\ accepted'[r] = accepted[r]
                                    /\ \A k \in Copies : AlreadyAccepted(msg'[r][k]) => AlreadyAccepted(msg[r][k]),
           \A k \in Copies : AlreadyAccepted(msg'[q][k]) => accepted'[q] = 1,
           rec'[q].status \notin Waiting,
           IF plan = <<>> THEN Over(rec'[q], hold'[q], accepted'[q])
           ELSE PlanAt(plan, smy[s][2], rec'[q], hold'[q], accepted'[q])
    PROVE  \A r \in Recs : Book(r)'
<1>1. \A r \in Recs, e \in Dispatchers : /\ Prepares(e, r)' <=> Prepares(e, r)
                                         /\ \A j \in Copies : MadeFor(e, r, j)' <=> MadeFor(e, r, j)
  BY DEF Prepares, MadeFor, dVars
<1>2. smy' = smy /\ \A t \in Senders : todo'[t] = IF t = s THEN plan ELSE todo[t]
  BY DEF Then, TInv, HandsOK
<1>3. ASSUME NEW r \in Recs, r # q PROVE Book(r)'
  <2>1. \A t \in Senders : /\ SenderHas(r, t)' <=> SenderHas(r, t)
                           /\ SenderHas(r, t) => todo'[t] = todo[t] /\ smy'[t] = smy[t]
    BY <1>2, <1>3 DEF SenderHas
  <2>2. Book(r) /\ \A k \in Copies : stasks'[r][k] = stasks[r][k]
    BY DEF Books
  <2> QED BY <1>1, <1>3, <2>1, <2>2, BookSame
<1>4. Book(q)'
  <2>1. SenderHas(q, s)
    BY DEF SenderHas
  <2>2. /\ \A e \in Dispatchers : ~Prepares(e, q)
        /\ \A j \in Copies : ~TaskHas(q, j)
        /\ \A t \in Senders : SenderHas(q, t) => t = s
        /\ \A e \in Dispatchers, j \in Copies : ~MadeFor(e, q, j)
    BY <2>1, OneSender
  <2>3. \A e \in Dispatchers : ~Prepares(e, q)' /\ \A j \in Copies : ~MadeFor(e, q, j)'
    BY <1>1, <2>2
  <2>4. (\A j \in Copies : ~TaskHas(q, j)') /\ ~RowHas(q)'
    BY <2>2 DEF TaskHas, RowHas
  <2>5. \A t \in Senders : SenderHas(q, t)' <=> t = s /\ plan # <<>>
    BY <1>2, <2>2 DEF SenderHas
  <2>6. CASE plan = <<>>
    BY <2>3, <2>4, <2>5, <2>6 DEF Book, InFlight
  <2>7. CASE plan # <<>>
    <3>1. SenderHas(q, s)' /\ PlanAt(todo'[s], smy'[s][2], rec'[q], hold'[q], accepted'[q])
      BY <1>2, <2>5, <2>7
    <3> QED BY <2>3, <2>4, <2>5, <3>1 DEF Book, InFlight
  <2> QED BY <2>6, <2>7
<1> QED BY <1>3, <1>4

\* What the sender at work finds.
LEMMA Finds ==
    ASSUME TInv, OnceInv, Books, NEW s \in Senders, todo[s] # <<>>, NEW q, q = smy[s][1]
    PROVE  /\ q \in Recs /\ smy[s][2] \in Copies /\ todo[s] \in Plans /\ Book(q)
           /\ PlanAt(todo[s], smy[s][2], rec[q], hold[q], accepted[q])
           /\ rec[q].status \notin Waiting
           /\ \A k \in Copies : AlreadyAccepted(msg[q][k]) => accepted[q] = 1
           /\ rec[q].msg = smy[s][2] => Points(s) = {q}
<1>1. q \in Recs /\ smy[s][2] \in Copies /\ todo[s] \in Plans
  BY AtHand
<1>2. Book(q) /\ SenderHas(q, s)
  BY <1>1 DEF Books, SenderHas
<1>4. ~RowHas(q)
  BY <1>1, <1>2, OneSender
<1> QED BY <1>1, <1>2, <1>4 DEF Book, RowHas, Points

\* The steps that change neither row nor reservation nor what the provider took.
LEMMA GateBooks ==
    ASSUME TInv, OnceInv, Books, NEW s \in Senders, Gate(s)
    PROVE  Books'
<1>1. todo[s] = <<"gate">> /\ todo[s] # <<>>
  BY GateMoves, PlanNames
<1>2. PICK plan \in {<<"retry">>, Suppressed, Dropped, <<"call">>} : Then(s, plan)
  BY GateMoves
<1>3. UNCHANGED <<rec, counts, msg, hold, dVars, stasks, accepted>>
  BY DEF Gate, campVars, planVars, taskVars
<1> DEFINE q == smy[s][1]
<1>4. plan \in Going /\ plan # <<>> /\ <<"gate">> \in Going
  BY PlanNotNone DEF Going
<1>5. /\ q \in Recs /\ rec[q].status \notin Waiting /\ Underway(smy[s][2], rec[q], hold[q], accepted[q])
      /\ \A k \in Copies : AlreadyAccepted(msg[q][k]) => accepted[q] = 1
  BY <1>1, <1>4, Finds, PlanCases
<1>6. PlanAt(plan, smy[s][2], rec[q], hold[q], accepted[q])
  BY <1>4, <1>5, PlanCases
<1> HIDE DEF q
<1>7. q = smy[s][1]
  BY DEF q
<1>8. \A r \in Recs : Book(r)'
  BY <1>1, <1>2, <1>3, <1>4, <1>5, <1>6, <1>7, SenderBook
<1> QED BY <1>3, <1>8, CountsSame DEF Books

\* The provider takes the mail, or refuses it.
LEMMA SendBooks ==
    ASSUME TInv, OnceInv, Books, Sound, NEW s \in Senders, Send(s)
    PROVE  Books'
<1>1. todo[s] = <<"call">> /\ todo[s] # <<>>
  BY SendMoves, PlanNames
<1>2. UNCHANGED <<rec, counts, msg, hold, dVars, stasks>> /\ accepted \in [Recs -> 0..2]
  BY TypeParts DEF Send, campVars, planVars, taskVars, TInv, RestTyped
<1> DEFINE q == smy[s][1]
<1>3. <<"call">> \in Going /\ <<"failed", "try">> \in Going
  BY DEF Going
<1>4. /\ q \in Recs /\ rec[q].status \notin Waiting /\ Underway(smy[s][2], rec[q], hold[q], accepted[q])
      /\ \A k \in Copies : AlreadyAccepted(msg[q][k]) => accepted[q] = 1
  BY <1>1, <1>3, Finds, PlanCases
<1>5. \/ accepted' = accepted /\ Then(s, <<"failed", "try">>)
      \/ accepted' = [accepted EXCEPT ![q] = IF @ < 2 THEN @ + 1 ELSE @] /\ Then(s, Accepted)
  BY SendMoves DEF Sound
<1> HIDE DEF q
<1>6. q = smy[s][1]
  BY DEF q
<1>7. ASSUME accepted' = accepted, Then(s, <<"failed", "try">>) PROVE \A r \in Recs : Book(r)'
  <2>1. PlanAt(<<"failed", "try">>, smy[s][2], rec[q], hold[q], accepted[q])
    BY <1>3, <1>4, PlanCases
  <2>2. <<"failed", "try">> # <<>>
    BY <1>3, PlanNotNone
  <2> QED BY <1>1, <1>2, <1>4, <1>6, <1>7, <2>1, <2>2, SenderBook
<1>8. ASSUME accepted' = [accepted EXCEPT ![q] = IF @ < 2 THEN @ + 1 ELSE @], Then(s, Accepted)
      PROVE  \A r \in Recs : Book(r)'
  <2>1. accepted'[q] = 1 /\ \A r \in Recs : r # q => accepted'[r] = accepted[r]
    BY <1>2, <1>4, <1>8 DEF Underway
  <2>2. PlanAt(Accepted, smy[s][2], rec[q], hold[q], accepted'[q])
    BY <1>4, <2>1, PlanCases DEF Underway
  <2>3. Accepted # <<>>
    BY PlanNotNone
  <2> QED BY <1>1, <1>2, <1>4, <1>6, <1>8, <2>1, <2>2, <2>3, SenderBook
<1>9. \A r \in Recs : Book(r)'
  BY <1>5, <1>7, <1>8
<1> QED BY <1>2, <1>9, CountsSame DEF Books

\* The message is saved as sent, or as failed.
LEMMA MarkBooks ==
    ASSUME TInv, OnceInv, Books, NEW s \in Senders, MarkSent(s) \/ MarkFailed(s)
    PROVE  Books'
<1>1. todo[s] # <<>> /\ Then(s, Tail(todo[s])) /\ (MarkSent(s) => At(s, "sent")) /\ (MarkFailed(s) => At(s, "failed"))
  BY MarkMoves DEF Finish, MarkSent, MarkFailed
<1>2. UNCHANGED <<rec, counts, hold, dVars, stasks, accepted>>
  BY DEF MarkSent, MarkFailed, campVars, planVars, taskVars
<1> DEFINE q == smy[s][1]
<1>3. /\ q \in Recs /\ rec[q].status \notin Waiting /\ todo[s] \in Plans
      /\ PlanAt(todo[s], smy[s][2], rec[q], hold[q], accepted[q])
      /\ \A k \in Copies : AlreadyAccepted(msg[q][k]) => accepted[q] = 1
      /\ smy[s] = <<q, smy[s][2]>>
  BY <1>1, Finds, AtHand
<1>q. q = smy[s][1]
  OBVIOUS
<1> HIDE DEF q
<1>4. \A r \in Recs, k \in Copies :
          AlreadyAccepted(msg'[r][k]) => AlreadyAccepted(msg[r][k]) \/ (<<r, k>> = smy[s] /\ MarkSent(s))
  BY MarkMoves
<1>5. CASE MarkSent(s)
  <2>1. todo[s] = Accepted /\ Tail(todo[s]) = <<"commit", "count", "check">>
    BY <1>1, <1>3, <1>5, Heads, Tails DEF At
  <2>2. PlanAt(Accepted, smy[s][2], rec[q], hold[q], accepted[q])
    BY <1>3, <2>1
  <2>3. /\ accepted[q] = 1 /\ rec[q].status = "queued" /\ rec[q].msg = smy[s][2] /\ hold[q] = "reserved"
    BY <2>2, PlanCases
  <2>4. PlanAt(<<"commit", "count", "check">>, smy[s][2], rec[q], hold[q], accepted[q])
    BY <2>3, PlanCases
  <2>5. <<"commit", "count", "check">> # <<>> /\ Then(s, <<"commit", "count", "check">>)
    BY <1>1, <2>1
  <2>6. \A r \in Recs : r # q => \A k \in Copies : AlreadyAccepted(msg'[r][k]) => AlreadyAccepted(msg[r][k])
    BY <1>3, <1>4
  <2>7. \A r \in Recs : Book(r)'
    BY <1>1, <1>2, <1>3, <1>q, <2>3, <2>4, <2>5, <2>6, SenderBook
  <2> QED BY <1>2, <2>7, CountsSame DEF Books
<1>6. CASE MarkFailed(s)
  <2>1. todo[s] \in {<<"failed", "try">>, Suppressed, Dropped}
    BY <1>1, <1>3, <1>6, Heads DEF At
  <2>2. todo[s] \in Going
    BY <2>1 DEF Going
  <2>3. Underway(smy[s][2], rec[q], hold[q], accepted[q])
    BY <1>3, <2>2, PlanCases
  <2>4. Tail(todo[s]) \in {<<"try">>, <<"release">>, <<"lost", "check", "release">>}
    BY <2>1, Tails
  <2>5. PICK p \in {<<"try">>, <<"release">>, <<"lost", "check", "release">>} : p = Tail(todo[s])
    BY <2>4
  <2>6. p \in Going \/ p = <<"release">>
    BY <2>5 DEF Going
  <2>7. PlanAt(p, smy[s][2], rec[q], hold[q], accepted[q])
    <3>1. CASE p \in Going
      BY <2>3, <3>1, PlanCases
    <3>2. CASE p = <<"release">>
      <4>1. rec[q].status = "queued" /\ rec[q].msg = smy[s][2] /\ hold[q] = "reserved" /\ accepted[q] = 0
        BY <2>3 DEF Underway
      <4>2. PlanAt(<<"release">>, smy[s][2], rec[q], hold[q], accepted[q])
        BY <4>1, PlanCases
      <4> QED BY <3>2, <4>2
    <3> QED BY <2>6, <3>1, <3>2
  <2>8. p # <<>> /\ Then(s, p)
    BY <1>1, <2>5, <2>6, PlanNotNone
  <2>9. ~MarkSent(s)
    BY <1>1, <1>6 DEF At
  <2>10. \A r \in Recs, k \in Copies : AlreadyAccepted(msg'[r][k]) => AlreadyAccepted(msg[r][k])
    BY <1>4, <2>9
  <2>11. \A r \in Recs : Book(r)'
    BY <1>1, <1>2, <1>3, <1>q, <2>7, <2>8, <2>10, SenderBook
  <2> QED BY <1>2, <2>11, CountsSame DEF Books
<1> QED BY <1>1, <1>5, <1>6

\* A refused try, which is not the last.
LEMMA TryBooks ==
    ASSUME TInv, OnceInv, Books, NEW s \in Senders, CountTry(s),
           ~\E r \in Recs, k \in Copies : msg'[r][k].tries >= MaxTries
    PROVE  Books'
<1>1. todo[s] = <<"try">> /\ todo[s] # <<>> /\ Then(s, <<"retry">>)
  BY TryMoves, PlanNames
<1>2. UNCHANGED <<rec, counts, hold, dVars, stasks, accepted>>
  BY DEF CountTry, campVars, planVars, taskVars
<1> DEFINE q == smy[s][1]
<1>3. <<"try">> \in Going /\ <<"retry">> \in Going /\ <<"retry">> # <<>>
  BY DEF Going
<1>4. /\ q \in Recs /\ rec[q].status \notin Waiting /\ Underway(smy[s][2], rec[q], hold[q], accepted[q])
      /\ \A k \in Copies : AlreadyAccepted(msg[q][k]) => accepted[q] = 1
  BY <1>1, <1>3, Finds, PlanCases
<1>5. PlanAt(<<"retry">>, smy[s][2], rec[q], hold[q], accepted[q])
  BY <1>3, <1>4, PlanCases
<1>6. \A r \in Recs, k \in Copies : AlreadyAccepted(msg'[r][k]) => AlreadyAccepted(msg[r][k])
  BY TryMoves
<1> HIDE DEF q
<1>7. q = smy[s][1]
  BY DEF q
<1>8. \A r \in Recs : Book(r)'
  BY <1>1, <1>2, <1>3, <1>4, <1>5, <1>6, <1>7, SenderBook
<1> QED BY <1>2, <1>8, CountsSame DEF Books

\* The unit is paid for, or given back.
LEMMA SettleBooks ==
    ASSUME TInv, OnceInv, Books, NEW s \in Senders, Commit(s) \/ Release(s)
    PROVE  Books'
<1>1. /\ todo[s] # <<>> /\ Then(s, Tail(todo[s])) /\ (Commit(s) => At(s, "commit")) /\ (Release(s) => At(s, "release"))
      /\ (Commit(s) => Head(todo[s]) = "commit") /\ (Release(s) => Head(todo[s]) = "release")
  BY DEF Finish, Commit, Release, At
<1>2. UNCHANGED <<rec, counts, msg, dVars, stasks, accepted>>
  BY DEF Commit, Release, campVars, taskVars
<1> DEFINE q == smy[s][1]
<1>3. /\ q \in Recs /\ rec[q].status \notin Waiting /\ todo[s] \in Plans
      /\ PlanAt(todo[s], smy[s][2], rec[q], hold[q], accepted[q])
      /\ \A k \in Copies : AlreadyAccepted(msg[q][k]) => accepted[q] = 1
      /\ rec[q].msg = smy[s][2] => Points(s) = {q}
  BY <1>1, Finds
<1>q. q = smy[s][1]
  OBVIOUS
<1> HIDE DEF q
<1>4. ASSUME NEW to, hold' = Settled(s, to), rec[q].msg = smy[s][2], hold[q] = "reserved"
      PROVE  hold'[q] = to /\ \A r \in Recs : r # q => hold'[r] = hold[r]
  BY <1>3, <1>4 DEF Settled
<1>5. CASE Commit(s)
  <2>1. todo[s] = <<"commit", "count", "check">> /\ Tail(todo[s]) = <<"count", "check">>
    BY <1>1, <1>3, <1>5, Heads, Tails
  <2>2. PlanAt(<<"commit", "count", "check">>, smy[s][2], rec[q], hold[q], accepted[q])
    BY <1>3, <2>1
  <2>3. /\ accepted[q] = 1 /\ rec[q].status = "queued" /\ rec[q].msg = smy[s][2] /\ hold[q] = "reserved"
    BY <2>2, PlanCases
  <2>4. hold'[q] = "committed" /\ \A r \in Recs : r # q => hold'[r] = hold[r]
    BY <1>4, <1>5, <2>3 DEF Commit
  <2>5. PlanAt(<<"count", "check">>, smy[s][2], rec[q], hold'[q], accepted[q])
    BY <2>3, <2>4, PlanCases
  <2>6. <<"count", "check">> # <<>> /\ Then(s, <<"count", "check">>)
    BY <1>1, <2>1
  <2>7. \A r \in Recs : Book(r)'
    BY <1>1, <1>2, <1>3, <1>q, <2>3, <2>4, <2>5, <2>6, SenderBook
  <2> QED BY <1>2, <2>7, CountsSame DEF Books
<1>6. CASE Release(s)
  <2>1. todo[s] \in {LastTry, <<"release">>}
    BY <1>1, <1>3, <1>6, Heads
  <2>n. ~PlanAt(LastTry, smy[s][2], rec[q], hold[q], accepted[q])
    BY PlanCases
  <2>m. todo[s] = <<"release">>
    BY <1>3, <2>1, <2>n
  <2>2. todo[s] = <<"release">> /\ Tail(todo[s]) = <<>>
    BY <2>m, Tails
  <2>3. PlanAt(<<"release">>, smy[s][2], rec[q], hold[q], accepted[q])
    BY <1>3, <2>2
  <2>4. rec[q].status \in {"queued", "failed"} /\ rec[q].msg = smy[s][2] /\ hold[q] = "reserved" /\ accepted[q] = 0
    BY <2>3, PlanCases
  <2>5. hold'[q] = "released" /\ \A r \in Recs : r # q => hold'[r] = hold[r]
    BY <1>4, <1>6, <2>4 DEF Release
  <2>6. Over(rec[q], hold'[q], accepted[q]) /\ Then(s, <<>>)
    BY <1>1, <2>2, <2>4, <2>5 DEF Over
  <2>7. \A r \in Recs : Book(r)'
    BY <1>1, <1>2, <1>3, <1>q, <2>5, <2>6, SenderBook
  <2> QED BY <1>2, <2>7, CountsSame DEF Books
<1> QED BY <1>5, <1>6

\* The recipient is counted, as sent or as failed.
LEMMA CountBooks ==
    ASSUME TInv, OnceInv, Books, NEW s \in Senders, CountSent(s) \/ CountLost(s)
    PROVE  Books'
<1>1. /\ todo[s] # <<>> /\ Then(s, Tail(todo[s]))
      /\ (CountSent(s) => Head(todo[s]) = "count") /\ (CountLost(s) => Head(todo[s]) = "lost")
  BY DEF Finish, CountSent, CountLost, At
<1>2. UNCHANGED <<hold, msg, dVars, stasks, accepted>> /\ rec \in [Recs -> RecRow] /\ counts \in [sent : Nat, failed : Nat]
  BY TypeParts DEF CountSent, CountLost, planVars, taskVars, TInv, RestTyped
<1> DEFINE q == smy[s][1]
<1>3. /\ q \in Recs /\ rec[q].status \notin Waiting /\ todo[s] \in Plans
      /\ PlanAt(todo[s], smy[s][2], rec[q], hold[q], accepted[q])
      /\ \A k \in Copies : AlreadyAccepted(msg[q][k]) => accepted[q] = 1
      /\ rec[q].msg = smy[s][2] => Points(s) = {q}
  BY <1>1, Finds
<1>q. q = smy[s][1]
  OBVIOUS
<1> HIDE DEF q
<1>4. \A S \in SUBSET {"sent", "failed"} : In(S) \in SUBSET Recs /\ IsFiniteSet(In(S))
  BY SubsetsCounted DEF In
<1>5. CASE CountSent(s)
  <2>1. todo[s] = <<"count", "check">> /\ Tail(todo[s]) = <<"check">>
    BY <1>1, <1>3, <1>5, Heads, Tails
  <2>2. PlanAt(<<"count", "check">>, smy[s][2], rec[q], hold[q], accepted[q])
    BY <1>3, <2>1
  <2>3. accepted[q] = 1 /\ rec[q].status = "queued" /\ rec[q].msg = smy[s][2] /\ hold[q] = "committed"
    BY <2>2, PlanCases
  <2>4. {r \in Points(s) : rec[r].status # "sent"} = {q}
    BY <1>3, <2>3
  <2>5. /\ rec' = [r \in Recs |-> IF r \in {q} THEN [rec[r] EXCEPT !.status = "sent"] ELSE rec[r]]
        /\ counts' = [counts EXCEPT !.sent = counts.sent + Cardinality({q})]
    BY <1>5, <2>4 DEF CountSent
  <2>6. /\ rec'[q].status = "sent" /\ \A r \in Recs : r # q => rec'[r] = rec[r]
        /\ counts'.sent = counts.sent + 1 /\ counts'.failed = counts.failed
    <3>1. Cardinality({q}) = 1
      BY FS_Singleton
    <3>2. counts'.sent = counts.sent + 1 /\ counts'.failed = counts.failed
      BY <1>2, <2>5, <3>1
    <3>3. rec'[q].status = "sent" /\ \A r \in Recs : r # q => rec'[r] = rec[r]
      BY <1>2, <1>3, <2>5 DEF RecRow
    <3> QED BY <3>2, <3>3
  <2>7. PlanAt(<<"check">>, smy[s][2], rec'[q], hold'[q], accepted'[q])
    BY <1>2, <2>3, <2>6, PlanCases
  <2>8. <<"check">> # <<>> /\ Then(s, <<"check">>) /\ rec'[q].status \notin Waiting
    BY <1>1, <2>1, <2>6 DEF Waiting
  <2>9. \A r \in Recs : Book(r)'
    BY <1>1, <1>2, <1>3, <1>q, <2>6, <2>7, <2>8, SenderBook
  <2>10. Counts'
    <3>1. In({"sent"})' = In({"sent"}) \cup {q} /\ q \notin In({"sent"}) /\ In({"failed"})' = In({"failed"})
      BY <1>3, <2>3, <2>6 DEF In
    <3>2. Cardinality(In({"sent"}) \cup {q}) = Cardinality(In({"sent"})) + 1
      BY <1>4, <3>1, FS_AddElement
    <3> QED BY <2>6, <3>1, <3>2 DEF Counts, Books
  <2> QED BY <2>9, <2>10 DEF Books
<1>6. CASE CountLost(s)
  <2>1. todo[s] \in {<<"lost", "check", "retry">>, <<"lost", "check", "release">>}
    BY <1>1, <1>3, <1>6, Heads
  <2>n. ~PlanAt(<<"lost", "check", "retry">>, smy[s][2], rec[q], hold[q], accepted[q])
    BY PlanCases
  <2>m. todo[s] = <<"lost", "check", "release">>
    BY <1>3, <2>1, <2>n
  <2>2. todo[s] = <<"lost", "check", "release">> /\ Tail(todo[s]) = <<"check", "release">>
    BY <2>m, Tails
  <2>3. PlanAt(<<"lost", "check", "release">>, smy[s][2], rec[q], hold[q], accepted[q]) /\ <<"lost", "check", "release">> \in Going
    BY <1>3, <2>2 DEF Going
  <2>u. Underway(smy[s][2], rec[q], hold[q], accepted[q])
    BY <2>3, PlanCases
  <2>4. accepted[q] = 0 /\ rec[q].status = "queued" /\ rec[q].msg = smy[s][2] /\ hold[q] = "reserved"
    BY <2>u DEF Underway
  <2>5. /\ rec' = [r \in Recs |-> IF r \in {q} THEN [rec[r] EXCEPT !.status = "failed"] ELSE rec[r]]
        /\ counts' = [counts EXCEPT !.failed = counts.failed + 1]
    BY <1>3, <1>6, <2>4 DEF CountLost
  <2>6. /\ rec'[q].status = "failed" /\ rec'[q].msg = rec[q].msg /\ \A r \in Recs : r # q => rec'[r] = rec[r]
        /\ counts'.failed = counts.failed + 1 /\ counts'.sent = counts.sent
    BY <1>2, <1>3, <2>5 DEF RecRow
  <2>7. PlanAt(<<"check", "release">>, smy[s][2], rec'[q], hold'[q], accepted'[q])
    BY <1>2, <2>4, <2>6, PlanCases
  <2>8. <<"check", "release">> # <<>> /\ Then(s, <<"check", "release">>) /\ rec'[q].status \notin Waiting
    BY <1>1, <2>2, <2>6 DEF Waiting
  <2>9. \A r \in Recs : Book(r)'
    BY <1>1, <1>2, <1>3, <1>q, <2>6, <2>7, <2>8, SenderBook
  <2>10. Counts'
    <3>1. In({"failed"})' = In({"failed"}) \cup {q} /\ q \notin In({"failed"}) /\ In({"sent"})' = In({"sent"})
      BY <1>3, <2>4, <2>6 DEF In
    <3>2. Cardinality(In({"failed"}) \cup {q}) = Cardinality(In({"failed"})) + 1
      BY <1>4, <3>1, FS_AddElement
    <3> QED BY <2>6, <3>1, <3>2 DEF Counts, Books
  <2> QED BY <2>9, <2>10 DEF Books
<1> QED BY <1>5, <1>6

\* The sender looks whether all is done, and completes the campaign.
LEMMA CheckBooks ==
    ASSUME TInv, OnceInv, Books, NEW s \in Senders, Check(s) \/ MarkCompleted(s)
    PROVE  Books'
<1>1. /\ todo[s] # <<>>
      /\ (Check(s) => Head(todo[s]) = "check") /\ (MarkCompleted(s) => Head(todo[s]) = "complete")
      /\ (Check(s) => Then(s, Tail(todo[s])) \/ Then(s, <<"complete">> \o Tail(todo[s])))
      /\ (MarkCompleted(s) => Then(s, Tail(todo[s])))
  BY CheckMoves DEF Finish, MarkCompleted, At
<1>2. UNCHANGED <<rec, counts, msg, hold, dVars, stasks, accepted>>
  BY DEF Check, MarkCompleted, campVars, planVars, taskVars
<1> DEFINE q == smy[s][1]
<1>3. /\ q \in Recs /\ rec[q].status \notin Waiting /\ todo[s] \in Plans
      /\ PlanAt(todo[s], smy[s][2], rec[q], hold[q], accepted[q])
      /\ \A k \in Copies : AlreadyAccepted(msg[q][k]) => accepted[q] = 1
  BY <1>1, Finds
<1>q. q = smy[s][1]
  OBVIOUS
<1> HIDE DEF q
<1>4. todo[s] \in {<<"check", "retry">>, <<"check", "release">>, <<"check">>,
                   <<"complete", "retry">>, <<"complete", "release">>, <<"complete">>}
  BY <1>1, <1>3, Heads
<1>5. /\ ~PlanAt(<<"check", "retry">>, smy[s][2], rec[q], hold[q], accepted[q])
      /\ ~PlanAt(<<"complete", "retry">>, smy[s][2], rec[q], hold[q], accepted[q])
  BY PlanCases
<1>6. ASSUME NEW plan, Then(s, plan),
             IF plan = <<>> THEN Over(rec[q], hold[q], accepted[q])
             ELSE PlanAt(plan, smy[s][2], rec[q], hold[q], accepted[q])
      PROVE  Books'
  <2>1. \A r \in Recs : Book(r)'
    BY <1>1, <1>2, <1>3, <1>q, <1>6, SenderBook
  <2> QED BY <1>2, <2>1, CountsSame DEF Books
<1>7. CASE todo[s] \in {<<"check", "release">>, <<"complete", "release">>}
  <2>1. PICK p \in {<<"check", "release">>, <<"complete", "release">>} : p = todo[s]
    BY <1>7
  <2>2. PlanAt(p, smy[s][2], rec[q], hold[q], accepted[q])
    BY <1>3, <2>1
  <2>3. rec[q].status = "failed" /\ rec[q].msg = smy[s][2] /\ hold[q] = "reserved" /\ accepted[q] = 0
    BY <2>2, PlanCases
  <2>4. /\ PlanAt(<<"complete", "release">>, smy[s][2], rec[q], hold[q], accepted[q])
        /\ PlanAt(<<"release">>, smy[s][2], rec[q], hold[q], accepted[q])
    BY <2>3, PlanCases
  <2>5. Tail(todo[s]) = <<"release">> /\ <<"complete">> \o Tail(todo[s]) = <<"complete", "release">>
    BY <1>7, Tails, Joins
  <2>6. Then(s, <<"release">>) \/ Then(s, <<"complete", "release">>)
    BY <1>1, <2>5
  <2> QED BY <1>6, <2>4, <2>6, PlanNotNone
<1>8. CASE todo[s] \in {<<"check">>, <<"complete">>}
  <2>1. PICK p \in {<<"check">>, <<"complete">>} : p = todo[s]
    BY <1>8
  <2>2. PlanAt(p, smy[s][2], rec[q], hold[q], accepted[q])
    BY <1>3, <2>1
  <2>3. rec[q].status = "sent" /\ hold[q] = "committed" /\ accepted[q] = 1
    BY <2>2, PlanCases
  <2>4. /\ PlanAt(<<"complete">>, smy[s][2], rec[q], hold[q], accepted[q])
        /\ Over(rec[q], hold[q], accepted[q])
    BY <2>3, PlanCases DEF Over
  <2>5. Tail(todo[s]) = <<>> /\ <<"complete">> \o Tail(todo[s]) = <<"complete">>
    BY <1>8, Tails, Joins
  <2>6. Then(s, <<>>) \/ Then(s, <<"complete">>)
    BY <1>1, <2>5
  <2> QED BY <1>6, <2>4, <2>6, PlanNotNone
<1>9. todo[s] # <<"check", "retry">> /\ todo[s] # <<"complete", "retry">>
  BY <1>3, <1>5
<1> QED BY <1>1, <1>4, <1>7, <1>8, <1>9

\* A sender gives its mail back to a task.
LEMMA RetryBooks ==
    ASSUME TInv, OnceInv, Books, NEW s \in Senders, Retry(s)
    PROVE  Books'
<1>1. todo[s] # <<>> /\ Head(todo[s]) = "retry" /\ Then(s, Tail(todo[s]))
  BY DEF Retry, At, Finish
<1>2. UNCHANGED <<rec, counts, msg, hold, dVars, accepted>> /\ stasks \in [Recs -> [Copies -> Nat]]
  BY TypeParts DEF Retry, campVars, planVars, TInv, RestTyped
<1>3. PICK q \in Recs, k \in Copies :
          /\ q = smy[s][1] /\ k = smy[s][2] /\ rec[q].status \notin Waiting /\ todo[s] \in Plans
          /\ PlanAt(todo[s], k, rec[q], hold[q], accepted[q]) /\ SenderHas(q, s)
          /\ \A j \in Copies : AlreadyAccepted(msg[q][j]) => accepted[q] = 1
  BY <1>1, Finds DEF SenderHas
<1>4. stasks' = [stasks EXCEPT ![q] = [stasks[q] EXCEPT ![k] = stasks[q][k] + 1]]
  BY <1>2, <1>3 DEF Retry
<1>5. todo[s] = <<"retry">> /\ Then(s, <<>>)
  BY <1>1, <1>3, Heads, Tails
<1>6. Underway(k, rec[q], hold[q], accepted[q])
  <2>1. PlanAt(<<"retry">>, k, rec[q], hold[q], accepted[q]) /\ <<"retry">> \in Going
    BY <1>3, <1>5 DEF Going
  <2> QED BY <2>1, PlanCases
<1>7. \A r \in Recs, e \in Dispatchers : /\ Prepares(e, r)' <=> Prepares(e, r)
                                         /\ \A j \in Copies : MadeFor(e, r, j)' <=> MadeFor(e, r, j)
  BY <1>2 DEF Prepares, MadeFor, dVars
<1>8. smy' = smy /\ \A t \in Senders : todo'[t] = IF t = s THEN <<>> ELSE todo[t]
  BY <1>5 DEF Then, TInv, HandsOK
<1>9. ASSUME NEW r \in Recs, r # q PROVE Book(r)'
  <2>1. \A t \in Senders : /\ SenderHas(r, t)' <=> SenderHas(r, t)
                           /\ SenderHas(r, t) => todo'[t] = todo[t] /\ smy'[t] = smy[t]
    BY <1>3, <1>8, <1>9 DEF SenderHas
  <2>2. Book(r) /\ \A j \in Copies : stasks'[r][j] = stasks[r][j]
    BY <1>2, <1>4, <1>9 DEF Books
  <2> QED BY <1>2, <1>7, <2>1, <2>2, BookSame
<1>10. Book(q)'
  <2>1. /\ ~RowHas(q)
        /\ \A e \in Dispatchers : ~Prepares(e, q)
        /\ \A j \in Copies : ~TaskHas(q, j)
        /\ \A t \in Senders : SenderHas(q, t) => t = s
        /\ \A e \in Dispatchers, j \in Copies : ~MadeFor(e, q, j)
    BY <1>3, OneSender
  <2>2. \A t \in Senders : ~SenderHas(q, t)'
    BY <1>8, <2>1 DEF SenderHas
  <2>3. \A j \in Copies : j # k => stasks'[q][j] = stasks[q][j]
    BY <1>2, <1>3, <1>4
  <2>4. stasks'[q][k] = stasks[q][k] + 1 /\ stasks[q][k] \in Nat
    BY <1>2, <1>3, <1>4
  <2>5. stasks'[q][k] > 0
    BY <2>4
  <2>6. TaskHas(q, k)' /\ \A j \in Copies : TaskHas(q, j)' => j = k
    BY <1>3, <2>1, <2>3, <2>5 DEF TaskHas
  <2>7. Underway(k, rec'[q], hold'[q], accepted'[q]) /\ ~RowHas(q)'
    BY <1>2, <1>6, <2>1 DEF RowHas
  <2>8. \A e \in Dispatchers : ~Prepares(e, q)' /\ \A j \in Copies : ~MadeFor(e, q, j)'
    BY <1>3, <1>7, <2>1
  <2> QED BY <1>2, <1>3, <2>2, <2>6, <2>7, <2>8 DEF Book, InFlight
<1> QED BY <1>2, <1>9, <1>10, CountsSame DEF Books

LEMMA InitBooks == Init => Books
<1> SUFFICES ASSUME Init PROVE Books
  OBVIOUS
<1>1. ASSUME NEW r \in Recs PROVE Book(r)
  <2>1. /\ RowHas(r) /\ hold[r] = "none" /\ accepted[r] = 0
        /\ \A k \in Copies : ~TaskHas(r, k) /\ ~AlreadyAccepted(msg[r][k])
        /\ \A s \in Senders : ~SenderHas(r, s)
        /\ \A d \in Dispatchers : ~Prepares(d, r) /\ \A k \in Copies : ~MadeFor(d, r, k)
    BY DEF Init, RowHas, Waiting, TaskHas, SenderHas, Prepares, MadeFor, AlreadyAccepted, Unmade
  <2> QED BY <2>1 DEF Book
<1>2. Counts
  <2>1. In({"sent"}) = {} /\ In({"failed"}) = {}
    BY DEF Init, In
  <2>2. Cardinality(In({"sent"})) = 0 /\ Cardinality(In({"failed"})) = 0
    BY <2>1, FS_EmptySet
  <2>3. counts.sent = 0 /\ counts.failed = 0
    BY DEF Init
  <2> QED BY <2>2, <2>3 DEF Counts
<1> QED BY <1>1, <1>2 DEF Books

\* Failed tries are not forgotten.
LEMMA StaysExhausted == TInv /\ [Next]_vars /\ Exhausted => Exhausted'
<1> SUFFICES ASSUME TInv, [Next]_vars, Exhausted PROVE Exhausted'
  OBVIOUS
<1>1. PICK r \in Recs, k \in Copies : msg[r][k].tries >= MaxTries
  BY DEF Exhausted
<1>2. msg[r][k].tries \in Nat /\ MaxTries \in Nat
  BY TypeParts, Constants DEF TInv, RestTyped, Message
<1>3. ASSUME msg' = msg PROVE Exhausted'
  BY <1>1, <1>3 DEF Exhausted
<1>4. ASSUME msg'[r][k].tries = msg[r][k].tries PROVE Exhausted'
  BY <1>1, <1>4 DEF Exhausted
<1>5. ASSUME NEW d \in Dispatchers, Dispatch(d) \/ RetryHeld(d) \/ DispatchStep(d) \/ DispatcherDies(d) PROVE Exhausted'
  <2>1. CASE Create(d)
    BY <1>4, <2>1, CreateMoves
  <2>2. Create(d) \/ msg' = msg
    BY <1>5 DEF Dispatch, RetryHeld, DispatchStep, DispatcherDies, Pause, Begin, TakeChunk, NoChunk, Refuse, Reserve, Hold,
         Link, Enqueue, GoOn, Complete, Reopen
  <2> QED BY <1>3, <2>1, <2>2
<1>6. ASSUME NEW s \in Senders, SenderActs(s) PROVE Exhausted'
  <2>1. CASE MarkSent(s) \/ MarkFailed(s)
    BY <1>4, <2>1, MarkMoves
  <2>2. CASE CountTry(s)
    <3>1. msg'[r][k].tries >= msg[r][k].tries /\ msg' \in [Recs -> [Copies -> Message]]
      BY <2>2, TryMoves DEF RestTyped
    <3>2. msg'[r][k].tries \in Nat
      BY <3>1 DEF Message
    <3>3. msg'[r][k].tries >= MaxTries
      BY <1>1, <1>2, <3>1, <3>2
    <3> QED BY <3>3 DEF Exhausted
  <2>3. MarkSent(s) \/ MarkFailed(s) \/ CountTry(s) \/ msg' = msg
    BY <1>6 DEF SenderActs, SendStep, Gate, Send, Retry, Commit, Release, CountSent, CountLost, Check, MarkCompleted,
         StepFails, SenderDies
  <2> QED BY <1>3, <2>1, <2>2, <2>3
<1>7. World \/ UNCHANGED vars \/ (\E s \in Senders, q \in Recs, j \in Copies : Take(s, q, j)) => msg' = msg
  BY DEF World, FiredAgain, CancelLate, OptOut, MoreRoom, SwitchOff, SwitchOn, Halt, vars, Take
<1> QED BY <1>3, <1>5, <1>6, <1>7 DEF Next, SenderActs

BookInv == Sound /\ ~Exhausted => Books
LEMMA NextBooks == IInv /\ BookInv /\ [Next]_vars => BookInv'
<1> SUFFICES ASSUME IInv, BookInv, [Next]_vars, Sound', ~Exhausted' PROVE Books'
  BY DEF BookInv
<1>0. TInv /\ ~Exhausted
  BY StaysExhausted DEF IInv
<1>1. scene' = scene
  BY SceneStays
<1>2. Sound /\ Single /\ Books
  BY <1>0, <1>1 DEF Sound, Single, BookInv
<1>3. OnceInv
  BY <1>2 DEF IInv
<1>4. ASSUME UNCHANGED <<rec, counts, msg, hold, dVars, sVars, stasks, accepted>> PROVE Books'
  <2>1. \A r \in Recs, e \in Dispatchers : /\ Prepares(e, r)' <=> Prepares(e, r)
                                           /\ \A k \in Copies : MadeFor(e, r, k)' <=> MadeFor(e, r, k)
    BY <1>4 DEF dVars, Prepares, MadeFor
  <2>2. \A r \in Recs : Book(r)'
    BY <1>2, <1>4, <2>1, BookSame, SendersSame DEF Books
  <2> QED BY <1>2, <1>4, <2>2, CountsSame DEF Books
<1>5. CASE UNCHANGED vars
  BY <1>4, <1>5 DEF vars, dVars, sVars
<1>6. CASE World
  BY <1>4, <1>6 DEF World, FiredAgain, CancelLate, OptOut, MoreRoom, SwitchOff, SwitchOn, Halt,
       campVars, planVars, taskVars
<1>7. ASSUME NEW d \in Dispatchers, Dispatch(d) \/ RetryHeld(d) \/ DispatchStep(d) \/ DispatcherDies(d) PROVE Books'
  <2>1. ~DispatcherDies(d)
    BY <1>2 DEF DispatcherDies, Fault, Sound
  <2> QED BY <1>0, <1>2, <1>3, <1>7, <2>1, LooksBooks, RefuseBooks, ReserveBooks, HoldBooks, CreateBooks, LinkBooks,
             EnqueueBooks DEF DispatchStep
<1>8. ASSUME NEW s \in Senders, SenderActs(s) PROVE Books'
  <2>1. ~StepFails(s) /\ ~SenderDies(s)
    BY <1>2 DEF StepFails, SenderDies, Fault, Sound
  <2>2. ~\E r \in Recs, k \in Copies : msg'[r][k].tries >= MaxTries
    BY DEF Exhausted
  <2> QED BY <1>0, <1>2, <1>3, <1>8, <2>1, <2>2, GateBooks, SendBooks, MarkBooks, TryBooks, RetryBooks, SettleBooks,
             CountBooks, CheckBooks DEF SenderActs, SendStep
<1>9. ASSUME NEW s \in Senders, NEW r \in Recs, NEW k \in Copies, Take(s, r, k) PROVE Books'
  BY <1>0, <1>2, <1>3, <1>9, TakeBooks
<1> QED BY <1>5, <1>6, <1>7, <1>8, <1>9 DEF Next, SenderActs

\* At rest nobody has to do with a recipient.
LEMMA RestAgrees == TInv /\ BookInv => BooksAgree
<1> SUFFICES ASSUME TInv, BookInv, AtRest, scene.faults \cap {"crash", "database", "unanswered", "again"} = {}, ~Exhausted
             PROVE  /\ counts.sent = Cardinality(In({"sent"})) /\ counts.failed = Cardinality(In({"failed"}))
                    /\ \A r \in Recs : /\ (accepted[r] = 1) <=> (rec[r].status = "sent")
                                       /\ (accepted[r] = 1) <=> (hold[r] \in {"reserved", "committed"})
  BY DEF BooksAgree
<1>1. Books
  BY DEF BookInv, Sound
<1>2. ASSUME NEW r \in Recs
      PROVE  /\ (accepted[r] = 1) <=> (rec[r].status = "sent")
             /\ (accepted[r] = 1) <=> (hold[r] \in {"reserved", "committed"})
  <2>1. ~InFlight(r) /\ \A d \in Dispatchers : ~Prepares(d, r)
    BY DEF AtRest, InFlight, NewHas, TaskHas, SenderHas, Prepares
  <2>2. CASE RowHas(r)
    <3>1. accepted[r] = 0 /\ hold[r] = "none"
      BY <1>1, <2>1, <2>2 DEF Books, Book
    <3> QED BY <2>2, <3>1 DEF RowHas, Waiting
  <2>3. CASE Over(rec[r], hold[r], accepted[r])
    BY <2>3 DEF Over
  <2> QED BY <1>1, <2>1, <2>2, <2>3 DEF Books, Book
<1> QED BY <1>1, <1>2 DEF Books, Counts

-----------------------------------------------------------------------------
\* Every variable keeps its type: the counters of the campaign and of the
\* queues do not fall below nothing, a recipient points to a message it has.
THEOREM TypeCorrect == Spec => []TypeOK
<1>1. TInv => TypeOK
  BY DEF TInv
<1> QED BY <1>1, InitTyped, StepTyped, PTL DEF Spec

\* The provider takes one mail per recipient, whatever workers of both kinds
\* overlap, die, retry, hold and take up again, unless it took one without an
\* answer or the drainer fired the campaign twice (tasks.py: "a redelivered or
\* re-run task can never send twice").
THEOREM MailedOnce == Spec => []SentOnce
<1>1. IInv => SentOnce
  BY DEF IInv, OnceInv, Single, SentOnce, MailOK
<1> QED BY <1>1, InitIInv, NextIInv, PTL DEF Spec

\* When nobody is at work, the recipients that are SENT, paid for and counted are
\* those whose mail the provider took, and each failure is counted once and has
\* given its unit back (_settle_quota, _after_send): whatever refusals, holds,
\* opt-outs, halts, cancels and switches happen on the way.
THEOREM BooksKept == Spec => []BooksAgree
<1>1. Init => IInv /\ BookInv
  BY InitIInv, InitBooks DEF BookInv
<1>2. IInv /\ BookInv /\ [Next]_vars => IInv' /\ BookInv'
  BY NextIInv, NextBooks
<1>3. IInv /\ BookInv => BooksAgree
  BY RestAgrees DEF IInv
<1> QED BY <1>1, <1>2, <1>3, PTL DEF Spec
=============================================================================
