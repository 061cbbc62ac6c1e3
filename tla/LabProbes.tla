------------------------------- MODULE LabProbes -------------------------------
(***************************************************************************)
(* The live probes of vcfspec (validate/probes.py): the only layer that    *)
(* touches the network.  Hosts are gated by their declared address and by  *)
(* their name, appliances by their name and by the address the zone        *)
(* answers; every lookup runs on a thread of its own that is waited for    *)
(* until a deadline and then left behind.                                  *)
(*                                                                         *)
(* An address is the target's own declared one, another allowed one, or    *)
(* one outside the allowlist; a name is the one asked for, another under   *)
(* the allowed suffixes, or one outside them.                              *)
(***************************************************************************)
EXTENDS Integers, Sequences, FiniteSets, SequencesExt

CONSTANTS TargetLists    \* the documents: sequences of Target, hosts first

VARIABLES
    targets,      \* the document's targets
    i,            \* the one under way
    pc,           \* what is done next for it
    asking,       \* the lookup being waited for, or NoLookup
    left,         \* lookups left behind on their threads (counted up to one)
    canonical,    \* the canonical name of the forward answer, or "none"
    resolved,     \* the address of the forward answer, or "none"
    tally,        \* [candidates, permitted, lookups]
    findings,     \* records [code, at]
    touched,      \* what left the process: records [act, at, of]
    told          \* what the zone said of each target's PTR, as received

vars == <<targets, i, pc, asking, left, canonical, resolved, tally, findings, touched, told>>

Names     == {"own", "sibling", "foreign", "unusable"}
Addresses == {"declared", "inside", "outside"}
Target ==
    [kind : {"host"}, name : {"own", "foreign", "unusable"}, ip : {"declared", "outside"}]
    \cup [kind : {"appliance"}, name : {"own", "foreign"}, ptr : BOOLEAN]
NoLookup  == [act |-> "none"]
Forward   == [canon : {"own", "sibling", "foreign"}, addr : Addresses \cup {"empty"}]
\* Answers that are no pair: no answer, and one of another shape.
NoForward == {[canon |-> "none", addr |-> a] : a \in {"none", "malformed"}}
Pointers  == {"own", "sibling", "foreign", "none"}

Init ==
    /\ targets \in TargetLists
    /\ i = 1 /\ pc = "seams" /\ asking = NoLookup /\ left = FALSE
    /\ canonical = "none" /\ resolved = "none"
    /\ tally = [candidates |-> 0, permitted |-> 0, lookups |-> 0]
    /\ findings = {} /\ touched = {} /\ told = [t \in DOMAIN targets |-> "none"]

\* ProbeConfig.permits and permits_name.
Permits(a)      == a \in {"declared", "inside"}
PermitsName(n)  == n \in {"own", "sibling"}

This == targets[i]
Note(code) == findings' = findings \cup {[code |-> code, at |-> i]}
Quiet      == UNCHANGED findings
Same       == UNCHANGED <<targets, asking, left, touched, told>>
\* The next target, with nothing carried over from this one.
NextTarget == i' = i + 1 /\ pc' = "target" /\ canonical' = "none" /\ resolved' = "none"

-----------------------------------------------------------------------------
\* _unusable_reason: one seam that cannot be called ends the run at once.
CheckSeams ==
    /\ pc = "seams"
    /\ \/ pc' = "target" /\ Quiet
       \/ pc' = "done" /\ findings' = {[code |-> "SEAM-UNUSABLE", at |-> 0]}
    /\ Same /\ UNCHANGED <<i, canonical, resolved, tally>>

\* _bounded_resolve's start.  A lookup is counted when it is started.
Ask(act, of, then) ==
    /\ asking' = [act |-> act] /\ pc' = then
    /\ touched' = touched \cup {[act |-> act, at |-> i, of |-> of]}
    /\ UNCHANGED <<targets, left, told, i, canonical, resolved>>

\* For comparison: the name is looked up before it is checked.
HostGateLate(t) == IF ~Permits(t.ip) THEN "blocked"
                   ELSE IF t.name = "unusable" THEN "nameless" ELSE "clear"

\* _probe_host up to its first lookup.  A refused name leaves the host's own
\* address to be asked about: that one the operator declared.
HostGate(t) == IF ~Permits(t.ip) THEN "blocked"
               ELSE IF t.name = "unusable" THEN "nameless"
               ELSE IF ~PermitsName(t.name) THEN "name_blocked" ELSE "clear"
Gate(t) == HostGate(t)

Count(t) == [tally EXCEPT !.candidates = @ + 1, !.permitted = @ + (IF Permits(t.ip) THEN 1 ELSE 0)]

StartHost ==
    /\ pc = "target" /\ i <= Len(targets) /\ This.kind = "host"
    /\ \/ /\ Gate(This) \in {"blocked", "nameless"}
          /\ Note(IF Gate(This) = "blocked" THEN "TARGET-BLOCKED" ELSE "UNKNOWN")
          /\ tally' = Count(This) /\ NextTarget /\ Same
       \/ /\ Gate(This) = "name_blocked" /\ Note("NAME-BLOCKED")
          /\ tally' = Count(This) /\ pc' = "reverse"
          /\ Same /\ UNCHANGED <<i, canonical, resolved>>
       \/ /\ Gate(This) = "clear" /\ Quiet
          /\ tally' = [Count(This) EXCEPT !.lookups = 1]
          /\ Ask("forward", This.name, "forward")

\* _probe_appliance up to its first lookup.
StartAppliance ==
    /\ pc = "target" /\ i <= Len(targets) /\ This.kind = "appliance"
    /\ \/ /\ ~PermitsName(This.name) /\ Note("NAME-BLOCKED")
          /\ NextTarget /\ Same /\ UNCHANGED tally
       \/ /\ PermitsName(This.name) /\ Quiet
          /\ tally' = [tally EXCEPT !.lookups = 1]
          /\ Ask("forward", This.name, "forward")

\* The forward answer, or the deadline, which reads as no answer.
TakeForward(a, late) ==
    /\ pc = "forward" /\ asking.act = "forward"
    /\ asking' = NoLookup /\ left' = (left \/ late)
    /\ canonical' = a.canon /\ resolved' = IF a.addr \in Addresses THEN a.addr ELSE "none"
    /\ IF a.addr \notin Addresses THEN Note("UNKNOWN")
       ELSE IF This.kind = "host" /\ a.addr # "declared" THEN Note("FORWARD-MISMATCH")
       ELSE IF This.kind = "appliance" /\ ~Permits(a.addr) THEN Note("TARGET-BLOCKED")
       ELSE Quiet
    /\ pc' = IF This.kind = "host" \/ Permits(a.addr) THEN "reverse" ELSE "skip"
    /\ UNCHANGED <<targets, i, tally, touched, told>>

ForwardAnswered == \E a \in Forward \cup NoForward : TakeForward(a, FALSE)
\* For comparison: joined without a deadline.
JoinForever     == FALSE
ForwardDeadline == TakeForward([canon |-> "none", addr |-> "none"], TRUE)

\* An appliance that failed on the way is left.
Skip == pc = "skip" /\ NextTarget /\ Quiet /\ Same /\ UNCHANGED tally

\* The reverse lookup: of the declared address for a host, whatever became of
\* its name, and of the resolved one for an appliance.
AskReverse ==
    /\ pc = "reverse" /\ asking = NoLookup /\ Quiet
    /\ tally' = [tally EXCEPT !.lookups = 1]
    /\ Ask("reverse", IF This.kind = "host" THEN "declared" ELSE resolved, "reverse")

\* _round_trip, for comparison with any canonical name accepted.
AnyCanonical(reverse) == reverse \in {This.name, canonical}
RoundTrip(reverse)    == reverse = This.name \/ (reverse = canonical /\ PermitsName(canonical))

TakeReverse(r, late) ==
    /\ pc = "reverse" /\ asking.act = "reverse"
    /\ asking' = NoLookup /\ left' = (left \/ late) /\ told' = [told EXCEPT ![i] = r]
    /\ IF r = "none" THEN
          IF This.kind = "host" \/ This.ptr THEN Note("NO-REVERSE-DNS") ELSE Quiet
       ELSE IF RoundTrip(r) THEN Quiet ELSE Note("REVERSE-MISMATCH")
    /\ pc' = IF This.kind = "host" THEN "connect" ELSE "skip"
    /\ UNCHANGED <<targets, i, canonical, resolved, tally, touched>>

ReverseAnswered == \E r \in Pointers : TakeReverse(r, FALSE)
ReverseDeadline == TakeReverse("none", TRUE)

\* _guarded_connect: hosts only; it answers, does not, or raises.
Connect ==
    /\ pc = "connect"
    /\ touched' = touched \cup {[act |-> "connect", at |-> i, of |-> This.ip]}
    /\ Quiet \/ Note("UNKNOWN")
    /\ NextTarget /\ UNCHANGED <<targets, asking, left, told, tally>>

\* A thread left behind answers: its box is read by nobody.
LateAnswer ==
    /\ left /\ left' = FALSE
    /\ UNCHANGED <<targets, i, pc, asking, canonical, resolved, tally, findings, touched, told>>

\* run_probes' end: the vantage point when anything was looked up, then the
\* refusal to call nothing a pass.
NothingPermitted == tally.candidates > 0 /\ tally.permitted = 0
Conclude ==
    /\ pc = "target" /\ i > Len(targets) /\ pc' = "done"
    /\ \E vantage \in {{}, {[code |-> "UNKNOWN", at |-> 0]}, {[code |-> "RESOLVER-MISMATCH", at |-> 0]}} :
          /\ tally.lookups = 0 => vantage = {}
          /\ findings' = findings \cup vantage
                \cup IF NothingPermitted THEN {[code |-> "NOTHING-PERMITTED", at |-> 0]} ELSE {}
    /\ Same /\ UNCHANGED <<i, canonical, resolved, tally>>

\* What the probing thread does by itself; answers of the zone come or do not.
Own == CheckSeams \/ StartHost \/ StartAppliance \/ ForwardDeadline \/ Skip \/ AskReverse
       \/ ReverseDeadline \/ Connect \/ Conclude
Next == Own \/ ForwardAnswered \/ ReverseAnswered \/ LateAnswer

Spec == Init /\ [][Next]_vars /\ WF_vars(Own)

-------------------------------------------------------------------------------
TypeOK ==
    /\ i \in 1 .. Len(targets) + 1
    /\ pc \in {"seams", "target", "forward", "reverse", "connect", "skip", "done"}
    /\ left \in BOOLEAN /\ canonical \in {"own", "sibling", "foreign", "none"}
    /\ resolved \in Addresses \cup {"none"} /\ tally.permitted <= tally.candidates

Codes(t) == {f.code : f \in {g \in findings : g.at = t}}

\* No name outside the suffixes is ever asked for, no address outside the
\* allowlist asked about or connected to, and no appliance connected to
\* (probes.py: "the query is itself the leak").
StaysInside ==
    \A x \in touched :
        /\ x.act = "forward" => PermitsName(x.of)
        /\ x.act \in {"reverse", "connect"} => Permits(x.of)
        /\ x.act = "connect" => targets[x.at].kind = "host"

\* A PTR that names something outside the operator's own suffixes is always
\* reported, whatever the forward zone claims, and a run that was let near no
\* host says so (_round_trip, VCF-PROBE-NOTHING-PERMITTED).
NoFalsePass ==
    /\ \A t \in DOMAIN told : told[t] = "foreign" /\ targets[t].name # "foreign" => "REVERSE-MISMATCH" \in Codes(t)
    /\ pc = "done" /\ (\E t \in DOMAIN targets : targets[t].kind = "host")
         /\ (\A t \in DOMAIN targets : ~\E x \in touched : x.at = t)
         => findings # {}
===============================================================================
