---------------------------- MODULE QuestionLife ----------------------------
(***************************************************************************)
(* What claim_reply promises about one question put to a customer          *)
(* (apps/automation/interaction.py, the guarantees at its head): a         *)
(* question is asked once, and then exactly one thing happens to it: one   *)
(* message answers it, its deadline passes, or its run ends.  A message    *)
(* answers at most one question.                                           *)
(***************************************************************************)
CONSTANTS Questions, Messages, NoMessage

VARIABLES state,   \* what has happened to each question
          by       \* the message that answered it

qvars == <<state, by>>

QInit ==
    /\ state = [q \in Questions |-> "unasked"]
    /\ by = [q \in Questions |-> NoMessage]

Put(q) ==
    /\ state[q] = "unasked"
    /\ state' = [state EXCEPT ![q] = "open"]
    /\ UNCHANGED by

Answer(q, m) ==
    /\ state[q] = "open"
    /\ \A o \in Questions : by[o] # m
    /\ state' = [state EXCEPT ![q] = "answered"]
    /\ by' = [by EXCEPT ![q] = m]

Expire(q) ==
    /\ state[q] = "open"
    /\ state' = [state EXCEPT ![q] = "expired"]
    /\ UNCHANGED by

\* The run ended under the question: cancelled, or its message not delivered.
Drop(q) ==
    /\ state[q] = "open"
    /\ state' = [state EXCEPT ![q] = "dropped"]
    /\ UNCHANGED by

\* One transaction may settle a question and put the next one.
Settle(q) == Expire(q) \/ Drop(q) \/ \E m \in Messages : Answer(q, m)

Then(q, n) ==
    /\ q # n /\ state[q] = "open" /\ state[n] = "unasked"
    /\ \/ /\ state' = [state EXCEPT ![q] = "expired", ![n] = "open"]
          /\ UNCHANGED by
       \/ \E m \in Messages :
          /\ \A o \in Questions : by[o] # m
          /\ state' = [state EXCEPT ![q] = "answered", ![n] = "open"]
          /\ by' = [by EXCEPT ![q] = m]

QNext ==
    \/ \E q \in Questions : Put(q) \/ Settle(q)
    \/ \E q, n \in Questions : Then(q, n)

QSpec == QInit /\ [][QNext]_qvars
=============================================================================
