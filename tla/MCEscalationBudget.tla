-------------------------- MODULE MCEscalationBudget --------------------------
(* Instances of EscalationBudget for TLC.  Costs: a cheap call reserves 2,   *)
(* an Opus call 3, and an answer longer than its reservation costs 1 more.   *)
EXTENDS EscalationBudget

CONSTANTS c1, c2, b1, b2, none

TwoCalls   == {c1, c2}
TwoBriefs  == {b1, b2}

AskHardAuto == {"ask", "hard", "auto"}

Prices == [ask |-> 2, auto |-> 2, hard |-> 3]
=============================================================================
