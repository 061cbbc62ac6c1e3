-------------------------- MODULE MCRunnerDispatch --------------------------
(***************************************************************************)
(* The dispatcher's queue, and what it does with a task it has claimed.    *)
(*                                                                         *)
(* Three issues in two repos: the oldest may be held by a halt, the second *)
(* is a script, the youngest may never run.  A clone whose mirror branch   *)
(* the owner, a task's own push and others move.                           *)
(*                                                                         *)
(* RunnerDispatch takes a task's outcome from RunnerTask as a choice, so   *)
(* the two are looked at one by one: `part` is the one that moves.         *)
(***************************************************************************)
EXTENDS RunnerDispatch, RunnerTask

VARIABLE part

bothVars == <<part, vars, taskVars>>

ThreeIssues == 1..3
TwoRepos    == {"rust", "arma"}
MixedRepos  == <<"rust", "rust", "arma">>
MixedTiers  == <<"b", "a", "none">>
TheSecond   == {2}

\* Commit 3 is a rewrite of 2.  An issue names a commit or only its branch.
ThreeCommits == 1..3
TheParents   == <<0, 1, 1>>
TwoBranches  == {"main", "dev"}
TheMirror    == {"main"}
SomeAsks     == [script : BOOLEAN, branch : {"dev"}, sha : {0, 2}] \cup [script : BOOLEAN, branch : {"none"}, sha : {0}]

QueueRests == labels = [i \in Issues |-> {}] /\ halt = {}

BothInit == part \in {"queue", "task"} /\ Init /\ TaskInit /\ (part = "task" => QueueRests)

BothNext ==
    \/ part = "queue" /\ Next /\ UNCHANGED <<part, taskVars>>
    \/ part = "task" /\ TaskNext /\ UNCHANGED <<part, vars>>

BothSpec == BothInit /\ [][BothNext]_bothVars /\ Fairness
=============================================================================
