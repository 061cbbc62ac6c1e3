--------------------------- MODULE RunnerDispatch ---------------------------
(***************************************************************************)
(* The dispatcher of the agent runner (agent_runner_dispatch.py): a queue  *)
(* of GitHub issues whose state is their labels and comments.  One process *)
(* runs at a time, the lock file turns any other away before it reads      *)
(* anything; it keeps nothing between two runs, so whatever it has not     *)
(* written to GitHub when it dies is lost.                                 *)
(*                                                                         *)
(* What a handler does to GitHub is a list of calls, todo, which are made  *)
(* one at a time and in order: a call may fail, a label edit may be done   *)
(* in part, and the process may die between any two.                       *)
(***************************************************************************)
EXTENDS Integers, Sequences, FiniteSets

CONSTANTS
    Issues,         \* numbered in the order of their creation
    Repos, Repo,    \* the repo of each issue
    Tier,           \* "a", "b", or "none": tier:c, no tier or several
    Scripts,        \* issues labelled kind:script
    RelabelTries,   \* RELABEL_TRIES
    MaxAborts,      \* bound: runs that end in an exception or a crash
    MaxOrders       \* bound: issues made ready, withdrawn; halts set and lifted

NoIssue == 0

ASSUME DispatchAssumption ==
    /\ Issues \subseteq Nat \ {NoIssue} /\ IsFiniteSet(Issues)
    /\ Repo \in [Issues -> Repos] /\ Tier \in [Issues -> {"a", "b", "none"}]
    /\ Scripts \subseteq Issues
    /\ RelabelTries \in Nat \ {0} /\ MaxAborts \in Nat /\ MaxOrders \in Nat

VARIABLES
    labels,             \* GitHub: the runner's labels of each issue
    reported,           \* the report posted since the issue was made ready
    halt,               \* repos with an open runner:halt issue
    pc, queue, haltSeen, okSeen, task, todo, tries,     \* the process
    lost,               \* tasks whose run was cut short
    aborts, orders

github  == <<labels, reported, halt>>
memory  == <<pc, queue, haltSeen, okSeen, task, todo, tries>>
vars    == <<github, memory, lost, aborts, orders>>

Labels  == {"ready", "running", "done", "blocked", "needs-claude"}
Runner  == Labels \ {"needs-claude"}            \* the runner:* labels
Reports == {"none", "clean pass", "other"}
Says    == Reports \cup {"note"}
Calls   == [says : Says, remove : SUBSET Labels, add : SUBSET Labels]
Asked   == {"unasked", "yes", "no"}

\* comment() and relabel(), as the calls that are still to be made.
Comment(text)   == [says |-> text, remove |-> {}, add |-> {}]
Relabel(rm, ad) == [says |-> "none", remove |-> rm, add |-> ad]

TypeOK ==
    /\ labels \in [Issues -> SUBSET Labels] /\ reported \in [Issues -> Reports]
    /\ halt \subseteq Repos
    /\ pc \in {"off", "picking", "claiming", "running", "closing"}
    /\ queue \subseteq Issues /\ todo \in Seq(Calls) /\ tries \in 0..(RelabelTries - 1)
    /\ haltSeen \in [Repos -> Asked] /\ okSeen \in [Repos -> Asked]
    /\ task \in Issues \cup {NoIssue} /\ lost \subseteq Issues
    /\ aborts \in 0..MaxAborts /\ orders \in 0..MaxOrders

Unasked == [r \in Repos |-> "unasked"]

\* Only a tier b task asks for its repo's halt: those of other repos are not kept.
Haltable == {Repo[i] : i \in {j \in Issues : Tier[j] = "b"}}

Init ==
    /\ labels \in [Issues -> {{}, {"ready"}}] /\ reported = [i \in Issues |-> "none"]
    /\ halt \in SUBSET Haltable
    /\ pc = "off" /\ queue = {} /\ todo = <<>> /\ tries = 0 /\ task = NoIssue
    /\ haltSeen = Unasked /\ okSeen = Unasked
    /\ lost = {} /\ aborts = 0 /\ orders = 0

-----------------------------------------------------------------------------
(* The owner and the conductor.                                            *)

Order == orders < MaxOrders /\ orders' = orders + 1

\* "Fix the labels and set runner:ready again": also how a task that a dead run
\* left behind is repaired.  Nobody relabels a task that is being run.
MakeReady(i) ==
    /\ Order
    /\ i # task /\ "ready" \notin labels[i]
    /\ labels' = [labels EXCEPT ![i] = {"ready"}]
    /\ reported' = [reported EXCEPT ![i] = "none"]
    /\ lost' = lost \ {i}
    /\ UNCHANGED <<halt, memory, aborts>>

\* At any time, also between the listing and the claim.
Withdraw(i) ==
    /\ Order
    /\ labels[i] = {"ready"}
    /\ labels' = [labels EXCEPT ![i] = {}]
    /\ UNCHANGED <<reported, halt, memory, lost, aborts>>

ToggleHalt(r) ==
    /\ Order
    /\ halt' = IF r \in halt THEN halt \ {r} ELSE halt \cup {r}
    /\ UNCHANGED <<labels, reported, memory, lost, aborts>>

-----------------------------------------------------------------------------
(* main(), ready_issues() and pick().                                      *)

\* What the process forgets when it ends, normally or not.
Stop ==
    /\ pc' = "off" /\ queue' = {} /\ todo' = <<>> /\ tries' = 0 /\ task' = NoIssue
    /\ haltSeen' = Unasked /\ okSeen' = Unasked

\* Any call that raises, a kill, the unit's TimeoutStartSec, a reboot.
Abort ==
    /\ pc # "off"
    /\ aborts < MaxAborts /\ aborts' = aborts + 1
    /\ lost' = lost \cup ({task} \ {NoIssue})
    /\ Stop
    /\ UNCHANGED <<github, orders>>

\* An issue with a second runner:* label is skipped.
Listed(open) == {i \in Issues : labels[i] \cap Runner = {"ready"} /\ (open \/ i \in Scripts)}

\* With the lane closed only kind:script issues are considered.
Begin(open) ==
    /\ pc = "off"
    /\ Listed(open) # {}
    /\ pc' = "picking"
    /\ queue' = Listed(open)
    /\ UNCHANGED <<github, haltSeen, okSeen, task, todo, tries, lost, aborts, orders>>

\* The next issue that pick() looks at, the oldest first.
Looks(i) == pc = "picking" /\ todo = <<>> /\ i \in queue /\ \A j \in queue : i <= j

Skip(i) == queue' = queue \ {i} /\ UNCHANGED <<github, pc, haltSeen, okSeen, task, todo, tries, lost, aborts, orders>>

\* refuse_tier(): a refusal does not use up the cycle.
RefuseTier(i) ==
    /\ Looks(i) /\ Tier[i] = "none"
    /\ queue' = queue \ {i}
    /\ task' = i
    /\ todo' = <<Comment("note"), Relabel({"ready"}, {"blocked"})>>
    /\ UNCHANGED <<github, pc, haltSeen, okSeen, tries, lost, aborts, orders>>

\* Asked once for each repo and cycle.
AskHalted(i) ==
    /\ Looks(i) /\ Tier[i] = "b" /\ haltSeen[Repo[i]] = "unasked"
    /\ haltSeen' = [haltSeen EXCEPT ![Repo[i]] = IF Repo[i] \in halt THEN "yes" ELSE "no"]
    /\ UNCHANGED <<github, pc, queue, okSeen, task, todo, tries, lost, aborts, orders>>

\* Mutant of Hold: a held task ends the cycle.
HoldStops(i) ==
    /\ Looks(i) /\ Tier[i] = "b" /\ haltSeen[Repo[i]] = "yes"
    /\ Stop
    /\ UNCHANGED <<github, lost, aborts, orders>>

Hold(i) == Looks(i) /\ Tier[i] = "b" /\ haltSeen[Repo[i]] = "yes" /\ Skip(i)

MayRun(i) == Looks(i) /\ (Tier[i] = "a" \/ (Tier[i] = "b" /\ haltSeen[Repo[i]] = "no"))

\* agent-run --preflight, asked once for each repo and cycle.
AskReady(i, answer) ==
    /\ MayRun(i) /\ okSeen[Repo[i]] = "unasked"
    /\ okSeen' = [okSeen EXCEPT ![Repo[i]] = answer]
    /\ UNCHANGED <<github, pc, queue, haltSeen, task, todo, tries, lost, aborts, orders>>

SkipNotReady(i) == MayRun(i) /\ okSeen[Repo[i]] = "no" /\ Skip(i)

-----------------------------------------------------------------------------
(* dispatch() and dispatch_script().                                       *)

Does(i, step, calls) ==
    /\ pc' = step /\ task' = i /\ todo' = calls
    /\ queue' = {}
    /\ UNCHANGED <<github, haltSeen, okSeen, tries, lost, aborts, orders>>

Claim(i) ==
    /\ MayRun(i) /\ okSeen[Repo[i]] = "yes"
    /\ Does(i, "claiming", <<Relabel({"ready"}, {"running"}), Comment("note")>>)

\* refuse_script() before the claim: script mode is off, or there is no proper
\* Script: line.
RefuseScript(i) ==
    /\ MayRun(i) /\ okSeen[Repo[i]] = "yes" /\ i \in Scripts
    /\ Does(i, "closing", <<Relabel({"ready"}, {"blocked"}), Comment("note")>>)

\* The checkout is prepared and the task run; how that ends is chosen below, a
\* checkout that cannot be prepared included.
Run ==
    /\ pc = "claiming" /\ todo = <<>>
    /\ pc' = "running"
    /\ UNCHANGED <<github, queue, haltSeen, okSeen, task, todo, tries, lost, aborts, orders>>

Close(calls) == pc = "running" /\ Does(task, "closing", calls)

\* Mutants of Requeue: the label is left as it is; of Blocked: a task without
\* a report is reported blocked and tried again.
RequeueComments == Close(<<Comment("note")>>)
BlockedRetries == Close(<<Comment("other"), Relabel({"running"}, {"ready"})>>)

\* Exit 75 or 76, or the chat model was swapped under the agent.
Requeue == Close(<<Relabel({"running"}, {"ready"}), Comment("note")>>)

\* A kind:script task whose ref, commit or file is not there.
RefuseClaimed == task \in Scripts /\ Close(<<Relabel({"running"}, {"blocked"}), Comment("note")>>)

\* Mutant of Finish: the labels are set before the report is posted.
FinishLabelsFirst(verdict, final) ==
    Close(<<Relabel({"running"}, final), Comment(verdict)>>)

\* finish(), post_script_report(): the report, then the labels that go with it.
Finish(verdict, final) ==
    Close(<<Comment(verdict), Relabel({"running"}, final)>>)

\* PASS with no deviations and a clean exit.
Passed == Finish("clean pass", {"done"})
\* FAIL, INDETERMINATE, or a PASS with deviations or a nonzero exit.
Judged == Finish("other", {"done", "needs-claude"})
\* No checkout, timeout, no valid report, or a report that says BLOCKED.
Blocked == Finish("other", {"blocked", "needs-claude"})

-----------------------------------------------------------------------------
(* The calls to GitHub.                                                    *)

Doing == pc # "off" /\ todo # <<>>

\* The end of a handler: a refusal goes on picking, everything else stops.
EndTask ==
    /\ todo = <<>>
    /\ \/ pc = "picking" /\ queue = {}
       \/ pc = "closing"
    /\ Stop
    /\ UNCHANGED <<github, lost, aborts, orders>>

Made ==
    /\ todo' = Tail(todo) /\ tries' = 0
    /\ task' = IF pc = "picking" /\ Len(todo) = 1 THEN NoIssue ELSE task

PostComment ==
    /\ Doing /\ Head(todo).says # "none"
    /\ reported' = IF Head(todo).says = "note" THEN reported
                   ELSE [reported EXCEPT ![task] = Head(todo).says]
    /\ Made
    /\ UNCHANGED <<labels, halt, pc, queue, haltSeen, okSeen, lost, aborts, orders>>

Edited(rm, ad) == [labels EXCEPT ![task] = (@ \ rm) \cup ad]

EditLabels ==
    /\ Doing /\ Head(todo).says = "none"
    /\ labels' = Edited(Head(todo).remove, Head(todo).add)
    /\ Made
    /\ UNCHANGED <<reported, halt, pc, queue, haltSeen, okSeen, lost, aborts, orders>>

\* Mutant of StillMissing: what was removed shows that the edit was made.
MissingUnlessRemoved(have, rm, ad) ==
    IF rm \cap have = {} THEN Relabel({}, {}) ELSE Relabel(rm \cap have, ad \ have)

\* What a retry sends, given the labels read back.
StillMissing(have, rm, ad) == Relabel(rm \cap have, ad \ have)

\* Mutant of LastTry: the tries are counted from one, the bound is not.
LastTryLate == tries = RelabelTries

\* The tries are counted from zero here.
LastTry == tries = RelabelTries - 1

\* The edit fails after GitHub has applied any part of it.  The labels are read
\* back, if they can be, and the last failure ends the run.
EditFails ==
    LET call == Head(todo) IN
    /\ Doing /\ call.says = "none"
    /\ \E rm \in SUBSET call.remove, ad \in SUBSET call.add :
          LET after   == Edited(rm, ad)
              missing == StillMissing(after[task], call.remove, call.add) IN
          /\ labels' = after
          /\ \/ /\ LastTry
                /\ aborts < MaxAborts /\ aborts' = aborts + 1
                /\ lost' = lost \cup {task}
                /\ Stop
             \/ /\ ~LastTry
                /\ \/ missing = Relabel({}, {}) /\ Made
                   \/ \E resent \in {missing, call} :
                         /\ resent # Relabel({}, {})
                         /\ todo' = [todo EXCEPT ![1] = resent] /\ tries' = tries + 1
                         /\ UNCHANGED task
                /\ UNCHANGED <<pc, queue, haltSeen, okSeen, lost, aborts>>
    /\ UNCHANGED <<reported, halt, orders>>

-----------------------------------------------------------------------------
Pick(i) ==
    \/ RefuseTier(i) \/ AskHalted(i) \/ Hold(i) \/ SkipNotReady(i)
    \/ Claim(i) \/ RefuseScript(i)
    \/ \E answer \in {"yes", "no"} : AskReady(i, answer)

Answer == RefuseClaimed \/ Passed \/ Judged \/ Blocked

\* The steps of a run: each ends, every call to GitHub and the sandbox returning
\* an answer or an error.
Step ==
    \/ \E i \in Issues : Pick(i)
    \/ Run \/ Requeue \/ Answer
    \/ PostComment \/ EditLabels \/ EditFails \/ EndTask

Next ==
    \/ \E i \in Issues : MakeReady(i) \/ Withdraw(i)
    \/ \E r \in Haltable : ToggleHalt(r)
    \/ \E open \in BOOLEAN : Begin(open)
    \/ Step \/ Abort

Spec == Init /\ [][Next]_vars

\* The timer starts the dispatcher every five minutes, and the lane is open again
\* and again; so is some runner ready for a task that waits; a run that could end
\* with an answer does so again and again, instead of being put back.
Fairness ==
    /\ WF_vars(Step)
    /\ SF_vars(Begin(TRUE)) /\ SF_vars(\E i \in Issues : AskReady(i, "yes")) /\ SF_vars(Answer)
FairSpec == Spec /\ Fairness

-----------------------------------------------------------------------------
(* Properties.                                                             *)

\* A task carries runner:done only when its report is on the issue, whatever
\* call fails or wherever the process dies (finish() comments first).
ReportBeforeDone == \A i \in Issues : "done" \in labels[i] => reported[i] # "none"

\* A run that was not cut short leaves no task claimed or without a runner label:
\* every return of dispatch(), dispatch_script() and refuse_tier() relabels, and
\* relabel() returns only when the whole edit has been made, although GitHub may
\* apply half of one (the comment on relabel, SDG-ARMA3#1).
NothingStranded ==
    \A i \in Issues \ (lost \cup {task}) :
        /\ "running" \notin labels[i]
        /\ reported[i] # "none" => labels[i] \cap {"done", "blocked"} # {}

\* A task reported as anything but a clean PASS is marked for a second look
\* (needs_claude, script_needs_claude).
UncleanNeedsClaude ==
    \A i \in Issues \ (lost \cup {task}) :
        reported[i] = "other" => "needs-claude" \in labels[i]

\* The labels of an issue, by which alone the dispatcher and its owner know where
\* a task stands, agree with what has been posted on it.
LabelsTellTheTruth == ReportBeforeDone /\ NothingStranded /\ UncleanNeedsClaude

\* A task is answered once for each time it was made ready: no retry, crash or
\* half-made label edit makes a later run execute a reported task again.
ReportedOnce ==
    [][Run => reported[task] = "none"]_vars

\* A ready task is answered in the end, unless it is withdrawn, held by a halt of
\* its repo, or its run is cut short: no refused, held or unready task blocks
\* the queue behind it ("Refusals do not use up the cycle", pick).
Held(i) == Tier[i] = "b" /\ Repo[i] \in halt
ReadyIsAnswered ==
    \A i \in Issues :
        labels[i] = {"ready"} ~>
            \/ labels[i] \cap {"done", "blocked"} # {}
            \/ labels[i] = {} \/ Held(i) \/ i \in lost
=============================================================================
