--------------------------- MODULE MCPeriodPayment ---------------------------
(* Instances of PeriodPayment for TLC. *)
EXTENDS PeriodPayment

CONSTANTS r1, r2, t1, t2

Plain == [provider |-> "stripe", credit |-> 0, saved |-> TRUE, cancels |-> FALSE,
          runs |-> {}, tabs |-> {}, returns |-> TRUE, faults |-> {"crash", "lost"}]

\* Two runs overlap, without credit.
Overlap == {[Plain EXCEPT !.provider = p, !.runs = Runs] : p \in Cards}
\* One run, credit that covers part of the price; a checkout beside it, whose
\* customer closes the tab.
PartCredit == {[Plain EXCEPT !.credit = 1, !.runs = {r1}],
               [Plain EXCEPT !.provider = "flutterwave", !.credit = 1, !.runs = {r1}, !.tabs = {t1},
                             !.returns = FALSE, !.faults = {}]}
\* One run, credit that covers the price, and nothing lost.
FullCredit == {[Plain EXCEPT !.credit = 2, !.runs = {r1}, !.tabs = {t1}, !.saved = saved,
                             !.cancels = saved, !.faults = {}] : saved \in BOOLEAN}
\* Checkouts in two tabs; PayPal with credit; a run while PayPal is the provider.
TwoTabs == {[Plain EXCEPT !.provider = "flutterwave", !.tabs = Tabs, !.faults = {}]}
PayPal == {[Plain EXCEPT !.provider = "paypal", !.credit = 1, !.tabs = {t1}],
           [Plain EXCEPT !.provider = "paypal", !.runs = {r1}]}

AllScenes == Overlap \cup PartCredit \cup FullCredit \cup TwoTabs \cup PayPal

\* Two runs overlap on credit that covers the price.
OnCredit == {[Plain EXCEPT !.credit = 2, !.runs = Runs, !.faults = {}]}
=============================================================================
