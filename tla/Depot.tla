---------------------------------- MODULE Depot ---------------------------------
(***************************************************************************)
(* The offline-depot publisher (scripts/vcf-depot/vcfdepot.py): audit says *)
(* what one component of a release lacks, plan and publish survey its      *)
(* files over HTTP and in the staging directory, and publish copies what   *)
(* the catalogue vouches for into the share the fleet reads from.          *)
(*                                                                         *)
(* A file's content is the catalogue's ("good"), other bytes of the same   *)
(* size ("wrong"), a part of it ("short"), or "absent".                    *)
(***************************************************************************)
EXTENDS Integers, Sequences, FiniteSets, SequencesExt

CONSTANTS
    Files,          \* the component's files, a sequence of names
    Starts,         \* [served, staged, knows]: Files -> content or catalogue fields
    MaxCommands     \* bound: commands run one after the other

VARIABLES
    served,         \* file -> what the fleet reads under its name
    staged,         \* file -> what lies in the staging directory
    knows,          \* file -> what the catalogue gives: "both", "no_size", "no_checksum"
    scratch,        \* file -> this publisher's temporary copy
    count,          \* commands run
    cmd, at, pc,    \* the command, its file and its step
    row,            \* file -> [probe, staged], as surveyed
    fail,           \* problems so far
    verdict,        \* what the command said of the component
    swapped,        \* files whose staged copy changed after it was hashed
    before          \* what the fleet read when the command began

vars == <<served, staged, knows, scratch, count, cmd, at, pc, row, fail, verdict, swapped, before>>

Names    == ToSet(Files)
Contents == {"good", "wrong", "short", "absent"}
Commands == {"audit", "plan", "dry", "publish"}
Start    == [served : [Names -> Contents], staged : [Names -> Contents],
             knows : [Names -> {"both", "no_size", "no_checksum"}]]
Unseen   == [probe |-> "none", staged |-> FALSE]

Init ==
    /\ \E s \in Starts : served = s.served /\ staged = s.staged /\ knows = s.knows
    /\ scratch = [f \in Names |-> "absent"] /\ count = 0 /\ cmd = "none" /\ at = 1 /\ pc = "idle"
    /\ row = [f \in Names |-> Unseen] /\ fail = FALSE /\ verdict = "none" /\ swapped = {}
    /\ before = served

f0 == Files[at]
World == <<served, staged, knows, scratch, swapped, before>>

\* bom_for, resolve_version, required_files: a document that cannot be
\* fetched, or bundles that disagree about a file, stop the command.
Begin(c) ==
    /\ pc = "idle" /\ count < MaxCommands
    /\ count' = count + 1 /\ cmd' = c /\ at' = 1 /\ fail' = FALSE
    /\ row' = [f \in Names |-> Unseen] /\ swapped' = {} /\ before' = served
    /\ \/ pc' = "survey" /\ verdict' = "none"
       \/ pc' = "idle"   /\ verdict' = "stopped"
    /\ UNCHANGED <<served, staged, knows, scratch>>

\* head(): an answer is an answer; only three failed attempts are an error.
\* For comparison, the earlier head: a failed attempt reads as absent.
ErrorIsAbsent(f) == {"absent"}
Failed(f)        == {"error"}
Answer(f) ==
    IF served[f] = "absent" THEN "absent" ELSE IF served[f] = "short" THEN "other_size" ELSE "right_size"
HeadOf(f) == {Answer(f)} \cup Failed(f)

\* survey(): one file's HEAD, then its staged copy's size.
Survey ==
    /\ pc = "survey" /\ at <= Len(Files)
    /\ \E p \in HeadOf(f0) :
          row' = [row EXCEPT ![f0] = [probe  |-> p,
                                      staged |-> cmd # "audit" /\ knows[f0] = "both" /\ staged[f0] \in {"good", "wrong"}]]
    /\ at' = at + 1 /\ UNCHANGED <<World, count, cmd, pc, fail, verdict>>

Published(f) == row[f].probe = "right_size" /\ knows[f] # "no_size"
Unknown(f)   == ~Published(f) /\ (row[f].probe = "error" \/ knows[f] = "no_size")
Missing(f)   == ~Published(f) /\ ~Unknown(f)

\* cmd_audit and cmd_plan only report.
Conclude ==
    /\ pc = "survey" /\ at > Len(Files) /\ cmd \in {"audit", "plan"} /\ pc' = "idle"
    /\ verdict' = IF cmd = "plan" THEN "none"
                  ELSE IF \E f \in Names : Unknown(f) THEN "indeterminate"
                  ELSE IF \E f \in Names : Missing(f) THEN "incomplete" ELSE "complete"
    /\ UNCHANGED <<World, count, cmd, at, row, fail>>

StartPublishing ==
    /\ pc = "survey" /\ at > Len(Files) /\ cmd \in {"dry", "publish"}
    /\ at' = 1 /\ pc' = "file" /\ UNCHANGED <<World, count, cmd, row, fail, verdict>>

\* cmd_publish, one file: what is refused or skipped before anything is read.
Leave(f) == knows[f] # "both" \/ Published(f) \/ row[f].probe = "error" \/ ~row[f].staged
Pass ==
    /\ pc = "file" /\ at <= Len(Files) /\ Leave(f0)
    /\ fail' = (fail \/ knows[f0] # "both" \/ ~Published(f0))
    /\ at' = at + 1 /\ UNCHANGED <<World, count, cmd, pc, row, verdict>>

\* sha256_file, for comparison left at the size.
SizeOnly(f) == staged[f] \in {"good", "wrong"}
Verified(f) == staged[f] = "good"

Verify ==
    /\ pc = "file" /\ at <= Len(Files) /\ ~Leave(f0)
    /\ \/ /\ Verified(f0) /\ cmd = "publish" /\ pc' = "copy" /\ UNCHANGED <<at, fail>>
       \/ /\ Verified(f0) /\ cmd = "dry"     /\ at' = at + 1 /\ UNCHANGED <<pc, fail>>
       \/ /\ ~Verified(f0) /\ fail' = TRUE   /\ at' = at + 1 /\ UNCHANGED pc
    /\ UNCHANGED <<World, count, cmd, row, verdict>>

\* The staging directory is written to meanwhile (a download goes on).
StagingChanges(f, c) ==
    /\ pc \in {"file", "copy", "copying"} /\ staged[f] # c /\ swapped = {}
    /\ staged' = [staged EXCEPT ![f] = c] /\ swapped' = {f}
    /\ UNCHANGED <<served, knows, scratch, count, cmd, at, pc, row, fail, verdict, before>>

\* shutil.copyfile into a sibling, for comparison straight to the served name.
CopyInPlace ==
    /\ pc = "copy" /\ pc' = "copying"
    /\ served' = [served EXCEPT ![f0] = "short"] /\ scratch' = [scratch EXCEPT ![f0] = "short"]
    /\ UNCHANGED <<staged, knows, swapped, before, count, cmd, at, row, fail, verdict>>
StartCopy ==
    /\ pc = "copy" /\ pc' = "copying"
    /\ scratch' = [scratch EXCEPT ![f0] = "short"]
    /\ UNCHANGED <<served, staged, knows, swapped, before, count, cmd, at, row, fail, verdict>>

\* The copy is whole: its size decides.  The scratch file goes in any case.
FinishCopy ==
    /\ pc = "copying" /\ scratch' = [scratch EXCEPT ![f0] = "absent"]
    /\ at' = at + 1 /\ pc' = "file"
    /\ IF staged[f0] \in {"good", "wrong"}
       THEN served' = [served EXCEPT ![f0] = staged[f0]] /\ UNCHANGED fail
       ELSE fail' = TRUE /\ UNCHANGED served
    /\ UNCHANGED <<staged, knows, swapped, before, count, cmd, row, verdict>>

\* The share fails, or the operator interrupts: both end this copy, and an
\* interrupt the loop.
AbortCopy(interrupted) ==
    /\ pc \in {"copy", "copying"} /\ scratch' = [scratch EXCEPT ![f0] = "absent"]
    /\ fail' = TRUE
    /\ at' = IF interrupted THEN Len(Files) + 1 ELSE at + 1
    /\ pc' = "file"
    /\ UNCHANGED <<served, staged, knows, swapped, before, count, cmd, row, verdict>>

\* The process is killed: its `finally` does not run.
Kill ==
    /\ pc \in {"file", "copying", "confirm"} /\ pc' = "idle" /\ verdict' = "killed"
    /\ UNCHANGED <<World, count, cmd, at, row, fail>>

EndOfFiles ==
    /\ pc = "file" /\ at > Len(Files)
    /\ IF cmd = "publish" /\ ~fail THEN pc' = "confirm" /\ at' = 1 /\ UNCHANGED verdict
       ELSE pc' = "idle" /\ at' = at /\ verdict' = IF fail THEN "problems" ELSE "consistent"
    /\ UNCHANGED <<World, count, cmd, row, fail>>

\* What the fleet will read, over HTTP; by size alone.
Confirm ==
    /\ pc = "confirm" /\ at <= Len(Files)
    /\ \E p \in HeadOf(f0) : fail' = (fail \/ p # "right_size")
    /\ at' = at + 1 /\ UNCHANGED <<World, count, cmd, pc, row, verdict>>

Confirmed ==
    /\ pc = "confirm" /\ at > Len(Files) /\ pc' = "idle"
    /\ verdict' = IF fail THEN "problems" ELSE "consistent"
    /\ UNCHANGED <<World, count, cmd, at, row, fail>>

Next ==
    \/ \E c \in Commands : Begin(c)
    \/ Survey \/ Conclude \/ StartPublishing \/ Pass \/ Verify \/ StartCopy \/ FinishCopy
    \/ \E interrupted \in BOOLEAN : AbortCopy(interrupted)
    \/ EndOfFiles \/ Confirm \/ Confirmed \/ Kill
    \/ \E f \in Names, c \in Contents \ {"absent"} : StagingChanges(f, c)

Spec == Init /\ [][Next]_vars

-------------------------------------------------------------------------------
TypeOK ==
    /\ served \in [Names -> Contents] /\ staged \in [Names -> Contents] /\ scratch \in [Names -> Contents]
    /\ pc \in {"idle", "survey", "file", "copy", "copying", "confirm"} /\ at \in 1 .. Len(Files) + 1

\* However a publish is interrupted or killed, the fleet reads of each file
\* what it read before or the catalogue's content; other bytes only when the
\* staged copy was rewritten between its hash and its copy.
FleetReadsWhole ==
    \A f \in Names : served[f] \in {before[f], "good"} \/ (f \in swapped /\ served[f] = "wrong")

\* What the commands conclude: a component is called complete or incomplete on
\* the depot's answers alone, and a publish that ends well found every file
\* served at its size.
VerdictIsFounded ==
    /\ verdict = "complete"   => \A f \in Names : served[f] \in {"good", "wrong"}
    /\ verdict = "incomplete" => \E f \in Names : served[f] \in {"absent", "short"}
    /\ verdict = "consistent" /\ cmd = "publish" => \A f \in Names : served[f] \in {"good", "wrong"}
===============================================================================
