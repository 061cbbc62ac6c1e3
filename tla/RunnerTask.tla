------------------------------- MODULE RunnerTask -------------------------------
(***************************************************************************)
(* What the dispatcher does with a task it has claimed                     *)
(* (agent_runner_dispatch.py): bring the repo's clone to the ref the issue *)
(* names, run the agent or the script, and read its report.  The clone is  *)
(* kept from one task to the next; origin moves under it.                  *)
(*                                                                         *)
(* RunnerDispatch has the same task as one choice among its answers.       *)
(***************************************************************************)
EXTENDS Integers, Sequences, FiniteSets, SequencesExt, FiniteSetsExt

CONSTANTS
    Commits, Parent,    \* commit -> the one before it, 0 for the first
    Branches,
    Mirrors,            \* DISPATCH mirror branches of the repo
    Asks,               \* what an issue may ask: [script, branch, sha], sha 0 when it names none
    MaxTasks, MaxMoves  \* bounds: tasks in a row; pushes and owner's edits

VARIABLES
    origin,             \* branch -> its commit at origin
    local,              \* branch -> its commit in the clone, 0 when there is none
    tracking,           \* origin as last fetched
    known,              \* commits in the clone's object store
    head,               \* what is checked out: [on, at]
    dirty,              \* a tracked file has uncommitted changes
    ask, phase, err,    \* the task, its step, "the checkout failed"
    left,               \* mirrors still to be updated
    was,                \* local when the task was claimed
    ran, ref,           \* what ran, and the ref in the report
    printed,            \* the report blocks in the agent's text, or report.json
    ended, swapped,     \* how the run ended; the chat model went away under it
    outcome,
    tasks, moves

clone  == <<local, tracking, known, head, dirty>>
report == <<ran, ref, printed, ended, swapped, outcome>>
taskVars == <<origin, clone, ask, phase, err, left, was, report, tasks, moves>>

NoCommit == 0

ASSUME TaskAssumption ==
    /\ Commits \subseteq Nat \ {NoCommit} /\ 1 \in Commits       \* the first
    /\ Parent \in [Commits -> Commits \cup {NoCommit}]
    /\ Mirrors \subseteq Branches /\ Branches \cap {"detached", "none"} = {}
    /\ Asks \subseteq [script : BOOLEAN, branch : Branches \cup {"none"}, sha : Commits \cup {NoCommit}]
    /\ MaxTasks \in Nat /\ MaxMoves \in Nat

NoAsk    == [script |-> FALSE, branch |-> "none", sha |-> NoCommit]
NoRef    == [branch |-> "none", at |-> NoCommit]
\* A commit and all that came before it: the least set with every parent in it.
Lineage(c) ==
    {d \in Commits : \A S \in SUBSET (Commits \cup {NoCommit}) :
                        c \in S /\ (\A x \in S \ {NoCommit} : Parent[x] \in S) => d \in S}
Before(c, d) == c = NoCommit \/ c \in Lineage(d)        \* d contains c
Store        == UNION {Lineage(origin[b]) : b \in Branches}

Verdicts == {"pass", "other", "blocked"}                \* other: FAIL, INDETERMINATE, PASS with deviations
Blocks   == Verdicts \cup {"template", "foreign"}       \* the preamble's block echoed; another task's
Files    == Verdicts \cup {"none", "malformed"}         \* report.json

TaskTypeOK ==
    /\ origin \in [Branches -> Commits] /\ tracking \in [Branches -> Commits]
    /\ local \in [Branches -> Commits \cup {NoCommit}] /\ known \subseteq Commits
    /\ head \in [on : Branches \cup {"detached"}, at : Commits] /\ dirty \in BOOLEAN
    /\ ask \in Asks \cup {NoAsk} /\ err \in BOOLEAN /\ left \subseteq Mirrors
    /\ phase \in {"idle", "clean", "fetch", "switch", "pull", "mirrors", "verify", "run", "read"}
    /\ was \in [Branches -> Commits \cup {NoCommit}]
    /\ ran \in Commits \cup {NoCommit} /\ ref \in [branch : Branches \cup {"none"}, at : Commits \cup {NoCommit}]
    /\ ToSet(printed) \subseteq Blocks \cup Files /\ swapped \in BOOLEAN
    /\ ended \in {"none", "ok", "failed", "closed", "unready", "timeout"}
    /\ outcome \in {"none", "passed", "judged", "blocked", "requeued", "refused"}
    /\ tasks \in 0..MaxTasks /\ moves \in 0..MaxMoves

TaskInit ==
    /\ origin = [b \in Branches |-> 1] /\ tracking = origin /\ known = {1}
    /\ local = [b \in Branches |-> NoCommit] /\ head = [on |-> "detached", at |-> 1] /\ dirty = FALSE
    /\ ask = NoAsk /\ phase = "idle" /\ err = FALSE /\ left = {} /\ was = local
    /\ ran = NoCommit /\ ref = NoRef /\ printed = <<>> /\ ended = "none" /\ swapped = FALSE
    /\ outcome = "none" /\ tasks = 0 /\ moves = 0

-----------------------------------------------------------------------------
(* Others.                                                                 *)

Moves == moves < MaxMoves /\ moves' = moves + 1

\* A push to origin, forced or not, at any time.
Push(b, c) ==
    /\ Moves /\ origin[b] # c /\ origin' = [origin EXCEPT ![b] = c]
    /\ UNCHANGED <<clone, ask, phase, err, left, was, report, tasks>>

\* The owner works in the clone between two tasks.
EditClone ==
    /\ Moves /\ phase = "idle" /\ dirty' = ~dirty
    /\ UNCHANGED <<origin, local, tracking, known, head, ask, phase, err, left, was, report, tasks>>
CommitHere(c) ==
    /\ Moves /\ phase = "idle" /\ head.on \in Branches /\ Parent[c] = head.at
    /\ local' = [local EXCEPT ![head.on] = c] /\ head' = [head EXCEPT !.at = c] /\ known' = known \cup {c}
    /\ UNCHANGED <<origin, tracking, dirty, ask, phase, err, left, was, report, tasks>>

-----------------------------------------------------------------------------
(* The checkout.                                                           *)

\* parse_ref raises unless the field names exactly one branch, and at most one sha.
Readable(a) == a.branch \in Branches

\* dispatch(), dispatch_script() after the claim; the ref field is read first.
ClaimTask(a) ==
    /\ phase = "idle" /\ tasks < MaxTasks /\ tasks' = tasks + 1
    /\ ask' = a /\ was' = local /\ left' = Mirrors /\ outcome' = "none"
    /\ err' = ~Readable(a)
    /\ phase' = IF Readable(a) /\ (a.script => a.sha # NoCommit) THEN "clean" ELSE "read"
    /\ UNCHANGED <<origin, clone, ran, ref, printed, ended, swapped, moves>>

Goes(next)  == phase' = next /\ UNCHANGED err
CannotCheck == phase' = "read" /\ err' = TRUE
Rest        == <<origin, ask, was, report, tasks, moves>>

Clean ==
    /\ phase = "clean" /\ (IF dirty THEN CannotCheck ELSE Goes("fetch"))
    /\ UNCHANGED <<clone, left, Rest>>

\* git fetch; a script's task fetches its branch by name as well.
Fetch ==
    /\ phase = "fetch"
    /\ \/ tracking' = origin /\ known' = known \cup Store /\ Goes("switch")
       \/ CannotCheck /\ UNCHANGED <<tracking, known>>
    /\ UNCHANGED <<local, head, dirty, left, Rest>>

\* git switch makes the branch when only origin has it.
Switch ==
    /\ phase = "switch" /\ ~ask.script
    /\ LET c == IF local[ask.branch] = NoCommit THEN tracking[ask.branch] ELSE local[ask.branch] IN
       local' = [local EXCEPT ![ask.branch] = c] /\ head' = [on |-> ask.branch, at |-> c]
    /\ Goes("pull") /\ UNCHANGED <<tracking, known, dirty, left, Rest>>

\* prepare_exact_checkout: the commit itself, detached, if the store has it.
Detach ==
    /\ phase = "switch" /\ ask.script
    /\ IF ask.sha \in known
       THEN head' = [on |-> "detached", at |-> ask.sha] /\ Goes("mirrors")
       ELSE CannotCheck /\ UNCHANGED head
    /\ UNCHANGED <<local, tracking, known, dirty, left, Rest>>

\* git pull --ff-only fetches again.
Pull ==
    /\ phase = "pull"
    /\ LET b == ask.branch IN
       \/ /\ tracking' = origin /\ known' = known \cup Store
          /\ \/ /\ Before(local[b], origin[b])
                /\ local' = [local EXCEPT ![b] = origin[b]] /\ head' = [head EXCEPT !.at = origin[b]]
                /\ Goes("mirrors")
             \/ Before(origin[b], local[b]) /\ Goes("mirrors") /\ UNCHANGED <<local, head>>
             \/ ~Before(local[b], origin[b]) /\ ~Before(origin[b], local[b])
                /\ CannotCheck /\ UNCHANGED <<local, head>>
       \/ CannotCheck /\ UNCHANGED <<tracking, known, local, head>>
    /\ UNCHANGED <<dirty, left, Rest>>

\* update_mirrors, with no '+'.  For comparison: a forced refspec.
AnyMirror(m)  == TRUE
FastForward(m) == Before(local[m], origin[m])
Mirror ==
    /\ phase = "mirrors"
    /\ \/ \E m \in left :
             /\ left' = left \ {m}
             /\ IF m = head.on THEN UNCHANGED <<local, known>> /\ Goes("mirrors")
                ELSE IF FastForward(m)
                THEN /\ local' = [local EXCEPT ![m] = origin[m]]
                     /\ known' = known \cup Lineage(origin[m]) /\ Goes("mirrors")
                ELSE CannotCheck /\ UNCHANGED <<local, known>>
       \/ left = {} /\ Goes("verify") /\ UNCHANGED <<local, known, left>>
    /\ UNCHANGED <<tracking, head, dirty, Rest>>

\* HEAD against the sha the issue asks for, if it asks for one.
Verify ==
    /\ phase = "verify"
    /\ IF ask.script \/ ask.sha \in {NoCommit, head.at}
       THEN Goes("run") /\ ref' = [branch |-> ask.branch, at |-> head.at]
       ELSE CannotCheck /\ UNCHANGED ref
    /\ UNCHANGED <<clone, left, origin, ask, was, ran, printed, ended, swapped, outcome, tasks, moves>>

-----------------------------------------------------------------------------
(* The run and its report.                                                 *)

\* run_agent, run_script: what the agent printed or the script left, and how it
\* ended; nothing of it runs on after the process group is killed.
Runs ==
    /\ phase = "run" /\ phase' = "read"
    /\ \E e \in {"ok", "failed", "closed", "unready", "timeout"} :
          /\ ended' = e /\ (ask.script => e # "closed")
          /\ IF e \in {"closed", "unready"}
             THEN printed' = <<>> /\ swapped' = FALSE /\ UNCHANGED ran
             ELSE /\ ran' = head.at
                  /\ IF ask.script
                     THEN printed' \in {<<f>> : f \in Files} /\ swapped' = FALSE
                     ELSE /\ printed' \in {<<>>} \cup {<<x>> : x \in Blocks} \cup {<<x, y>> : x, y \in Blocks}
                          /\ swapped' \in BOOLEAN
    /\ UNCHANGED <<origin, clone, ask, err, left, was, ref, outcome, tasks, moves>>

\* find_report: the last block for this task.  For comparison: the last block
\* of any task.
LastOfAny(blocks) == IF blocks = <<>> THEN "none" ELSE Last(blocks)
FindReport(blocks) ==
    LET mine == {n \in DOMAIN blocks : blocks[n] # "foreign"}
    IN  IF mine = {} THEN "none" ELSE blocks[Max(mine)]

\* finish(), post_script_report().
Answered(v) == CASE v = "blocked" -> "blocked" [] v = "pass" /\ ended = "ok" -> "passed" [] OTHER -> "judged"

ReadAgent ==
    LET v == FindReport(printed) IN
    CASE err                                          -> "blocked"
      [] ended \in {"closed", "unready"}       -> "requeued"
      [] ended # "timeout" /\ v \notin Verdicts /\ swapped -> "requeued"
      [] ended = "timeout" \/ v \notin Verdicts       -> "blocked"
      [] OTHER                                        -> Answered(v)

\* load_script_report: a malformed report is never read as a pass.
ReadScript ==
    CASE err \/ ask.sha = NoCommit             -> "refused"
      [] ended = "unready"                   -> "requeued"
      [] Last(printed) \notin Verdicts         -> "blocked"
      [] OTHER                                 -> Answered(Last(printed))

Read ==
    /\ phase = "read" /\ phase' = "idle"
    /\ outcome' = IF ask.script THEN ReadScript ELSE ReadAgent
    /\ ask' = NoAsk /\ err' = FALSE /\ left' = {}
    /\ ran' = NoCommit /\ ref' = NoRef /\ printed' = <<>> /\ ended' = "none" /\ swapped' = FALSE
    /\ UNCHANGED <<origin, clone, was, tasks, moves>>

TaskNext ==
    \/ \E b \in Branches, c \in Commits : Push(b, c)
    \/ EditClone \/ \E c \in Commits : CommitHere(c)
    \/ \E a \in Asks : ClaimTask(a)
    \/ Clean \/ Fetch \/ Switch \/ Detach \/ Pull \/ Mirror \/ Verify \/ Runs \/ Read
TaskSpec == TaskInit /\ [][TaskNext]_taskVars

-----------------------------------------------------------------------------
\* What runs is what the issue asks for and what the report's ref names: the sha
\* it names, however origin moved between the fetches (prepare_checkout,
\* prepare_exact_checkout).
RunsWhatWasAsked ==
    ran # NoCommit =>
        /\ ref.at = ran /\ ref.branch = ask.branch
        /\ ask.sha # NoCommit => ran = ask.sha
        /\ ran \in known /\ ~err

\* "Never discards local work" (both checkouts): a branch of the clone only
\* moves forward, and a tree with uncommitted changes is never switched.
KeepsLocalWork ==
    phase # "idle" =>
        /\ \A b \in Branches : Before(was[b], local[b])
        /\ dirty => phase \in {"clean", "read"}

\* A clean PASS is the last word of this task's own report, printed by a run of
\* it that ended by itself with no error (find_report, needs_claude,
\* load_script_report), and a report is not thrown away for a retry.
VerdictIsTheReports ==
    [][ Read =>
        /\ outcome' = "passed" =>
               /\ ran # NoCommit /\ ended = "ok"
               /\ \E n \in DOMAIN printed :
                      printed[n] = "pass" /\ \A k \in n + 1..Len(printed) : printed[k] = "foreign"
        /\ (outcome' = "requeued" /\ ran # NoCommit) =>
               \A n \in DOMAIN printed : printed[n] \in Verdicts =>
                   \E k \in n + 1..Len(printed) : printed[k] = "template" ]_taskVars

\* What a claimed task runs, what happens to the clone it runs in, and what its
\* report is taken for (prepare_checkout, prepare_exact_checkout, update_mirrors,
\* find_report, load_script_report).
TaskIsTrue ==
    /\ [](TaskTypeOK /\ RunsWhatWasAsked /\ KeepsLocalWork)
    /\ VerdictIsTheReports
===============================================================================
