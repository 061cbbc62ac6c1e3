------------------------------- MODULE SlotPool -------------------------------
(***************************************************************************)
(* What chat admission promises, without saying how: a resizable pool of   *)
(* slots.  A request takes one slot only while fewer than `cap` are taken, *)
(* keeps it until it gives it back, and a change of `cap` never evicts     *)
(* anybody (stream_admission.py, class AdmissionGate).                     *)
(***************************************************************************)
EXTENDS Integers, FiniteSets

CONSTANT Requests      \* the requests that may hold a slot

VARIABLES
    cap,               \* the number of slots
    holders            \* the requests that hold one

vars == <<cap, holders>>

Init == /\ cap \in Nat \ {0}
        /\ holders = {}

Take(r) ==
    /\ r \notin holders
    /\ Cardinality(holders) < cap
    /\ holders' = holders \cup {r}
    /\ UNCHANGED cap

Give(r) ==
    /\ r \in holders
    /\ holders' = holders \ {r}
    /\ UNCHANGED cap

Resize ==
    /\ cap' \in Nat \ {0}
    /\ UNCHANGED holders

Next == \/ \E r \in Requests : Take(r) \/ Give(r)
        \/ Resize

Spec == Init /\ [][Next]_vars
=============================================================================
