--------------------------------- MODULE Grading --------------------------------
(***************************************************************************)
(* From an agent's turn to a graded change (scripts/tools/workforce: oc.py *)
(* runs the agent, paths.py and workspace.py say what may leave its        *)
(* workspace, grade.py rebuilds a tree and judges it, cli.py imports it).  *)
(*                                                                         *)
(* A path holds the snapshot's content ("pristine"), the agent's, a        *)
(* symlink, the bundle's hidden test, or nothing.                          *)
(***************************************************************************)
EXTENDS Naturals, FiniteSets, Functions

CONSTANTS
    Paths,
    InSnapshot,     \* paths the snapshot has
    Protected,      \* paths is_protected refuses
    Defs,           \* task.json: [files, tests, hidden], sets of paths
    MaxEdits        \* bound: files the agent's processes touch

VARIABLES
    def,            \* the task
    ws,             \* path -> content of the workspace
    procs,          \* the turn's live processes: "main", "child", "detached"
    owner,          \* whose the workspace is
    edits,
    pc,
    allowed,        \* classify()'s answer
    patch,          \* path -> content, the exported patch
    tree,           \* path -> content of the grading tree
    target,         \* what the tree is for: "visible" tests or "grade"
    ran,            \* test -> what came of it
    exit,           \* how pytest ended
    result,         \* the grade: "none", "pass", "fail"
    header,         \* tests the header of the visible run counts as passed
    branch,         \* paths the import committed
    worktree        \* the import's throwaway checkout is there

runVars  == <<ws, procs, owner, edits>>
treeVars == <<tree, target, ran, exit, result, header>>
vars == <<def, runVars, pc, allowed, patch, treeVars, branch, worktree>>

Contents == {"pristine", "absent", "agent", "link", "hidden"}
Snapshot == [p \in Paths |-> IF p \in InSnapshot THEN "pristine" ELSE "absent"]
Extra    == "extra"                     \* a test nobody expected
Nothing  == [p \in {} |-> "agent"]
Tests    == def.tests \cup (IF target = "grade" THEN def.hidden ELSE {})

TypeOK ==
    /\ def \in Defs /\ ws \in [Paths -> Contents] /\ owner \in {"agent", "harness"}
    /\ procs \subseteq {"main", "child", "detached"} /\ edits \in 0..MaxEdits
    /\ pc \in {"load", "turn", "kill", "own", "classify", "patch", "tree", "tests", "judge",
               "import", "commit", "done", "refused"}
    /\ allowed \subseteq Paths /\ DOMAIN patch \subseteq Paths /\ Range(patch) \subseteq Contents
    /\ tree \in [Paths -> Contents] /\ target \in {"visible", "grade"}
    /\ exit \in {"none", "normal", "early", "error", "timeout"} /\ result \in {"none", "pass", "fail"}
    /\ Range(ran) \subseteq {"passed", "failed", "skipped"} /\ header \in 0..Cardinality(Paths)
    /\ branch \subseteq Paths /\ worktree \in BOOLEAN

Init ==
    /\ def \in Defs /\ ws = Snapshot /\ procs = {} /\ owner = "harness" /\ edits = 0
    /\ pc = "load" /\ allowed = {} /\ patch = Nothing
    /\ tree = Snapshot /\ target = "visible" /\ ran = Nothing /\ exit = "none"
    /\ result = "none" /\ header = 0 /\ branch = {} /\ worktree = FALSE

-----------------------------------------------------------------------------
(* The agent's turn.                                                       *)

\* load_task: the declared files, the visible and the hidden tests are apart.
WellFormed(d) ==
    /\ d.files \cap (d.tests \cup d.hidden) = {}
    /\ d.hidden \cap d.tests = {}
\* Then Pipeline._run_as hands the workspace over and Opencode.run begins.
Load ==
    /\ pc = "load"
    /\ IF WellFormed(def)
       THEN pc' = "turn" /\ procs' = {"main"} /\ owner' = "agent"
       ELSE pc' = "refused" /\ UNCHANGED <<procs, owner>>
    /\ UNCHANGED <<def, ws, edits, allowed, patch, treeVars, branch, worktree>>

\* Any process of the turn edits, deletes or links a file it owns.
Edit ==
    /\ procs # {} /\ owner = "agent" /\ edits < MaxEdits /\ edits' = edits + 1
    /\ \E p \in Paths, c \in {"absent", "agent", "link"} : c # ws[p] /\ ws' = [ws EXCEPT ![p] = c]
    /\ UNCHANGED <<def, procs, owner, pc, allowed, patch, treeVars, branch, worktree>>
Spawn ==
    /\ pc = "turn" /\ procs = {"main"} /\ \E c \in {"child", "detached"} : procs' = procs \cup {c}
    /\ UNCHANGED <<def, ws, owner, edits, pc, allowed, patch, treeVars, branch, worktree>>

\* proc.wait() returns with the exit code, or by the time limit.
TurnEnds ==
    /\ pc = "turn" /\ pc' = "kill" /\ (procs' = procs \ {"main"} \/ procs' = procs)
    /\ UNCHANGED <<def, ws, owner, edits, allowed, patch, treeVars, branch, worktree>>

\* SystemdScopeLauncher.kill: the scope's whole cgroup, after every turn.
Kill ==
    /\ pc = "kill" /\ procs' = {} /\ pc' = "own"
    /\ UNCHANGED <<def, ws, owner, edits, allowed, patch, treeVars, branch, worktree>>

\* _run_as takes the workspace back.
Own ==
    /\ pc = "own" /\ owner' = "harness" /\ pc' = "classify"
    /\ UNCHANGED <<def, ws, procs, edits, allowed, patch, treeVars, branch, worktree>>

-----------------------------------------------------------------------------
(* What leaves the workspace.                                              *)

Changed == {p \in Paths : ws[p] # Snapshot[p]}
\* classify().
Allowed(names, kind) == {p \in names : p \notin Protected /\ kind[p] # "link" /\ p \in def.files}

\* Workspace.changes() and classify().
Classify ==
    /\ pc = "classify" /\ allowed' = Allowed(Changed, ws) /\ pc' = "patch"
    /\ UNCHANGED <<def, runVars, patch, treeVars, branch, worktree>>

\* Workspace.patch(), for the packet's test run or for the grade.
Patch ==
    /\ pc = "patch" /\ patch' = Restrict(ws, allowed \cap Changed) /\ pc' = "tree"
    /\ target' \in {"visible", "grade"} /\ exit' = "none" /\ ran' = Nothing
    /\ UNCHANGED <<def, runVars, allowed, tree, result, header, branch, worktree>>

-----------------------------------------------------------------------------
(* The grading tree and its verdict.                                       *)

\* prepare_tree (check_visible without the hidden tests): the snapshot, the
\* patch over it, the tests over that.
Built(p) ==
    IF p \in def.hidden /\ target = "grade" THEN "hidden"
    ELSE IF p \in def.tests THEN Snapshot[p]
    ELSE IF p \in DOMAIN patch THEN patch[p] ELSE Snapshot[p]
BuildTree ==
    /\ pc = "tree"
    /\ tree' = [p \in Paths |-> Built(p)] /\ pc' = "tests" /\ UNCHANGED result
    /\ UNCHANGED <<def, runVars, allowed, patch, target, ran, exit, header, branch, worktree>>
\* PatchError: the visible run has nothing to show, the grade is a failure.
PatchFails ==
    /\ pc = "tree" /\ DOMAIN patch # {}
    /\ result' = IF target = "grade" THEN "fail" ELSE result
    /\ pc' = IF target = "grade" THEN "done" ELSE "classify"
    /\ header' = 0
    /\ UNCHANGED <<def, runVars, allowed, patch, tree, target, ran, exit, branch, worktree>>

\* The runner: the tests run inside the process, which may end by itself.
RunTests ==
    /\ pc = "tests" /\ pc' = "judge"
    /\ \E e \in {"normal", "early", "error", "timeout"}, seen \in SUBSET (Tests \cup {Extra}) :
          /\ e = "normal" => Tests \subseteq seen
          /\ exit' = e /\ ran' \in [seen -> {"passed", "failed", "skipped"}]
    /\ UNCHANGED <<def, runVars, allowed, patch, tree, target, result, header, branch, worktree>>

\* pytest exits 0 when nothing failed, and so does a process that ends itself;
\* only a session that ends writes its report.
Rc == IF exit = "early" \/ (exit = "normal" /\ "failed" \notin Range(ran)) THEN 0 ELSE 1
Report == IF exit = "normal" THEN ran ELSE Nothing
PassedIn(r) == {x \in DOMAIN r : r[x] = "passed"}

\* grade()'s last lines.  For comparison: the exit code alone.
RcAlone == Rc = 0
Passes  == Rc = 0 /\ Tests # {} /\ Tests \subseteq PassedIn(Report) /\ Range(Report) \subseteq {"passed"}

Judge ==
    /\ pc = "judge"
    /\ \/ /\ target = "visible" /\ pc' = "classify"
          /\ header' = IF exit = "timeout" THEN 0 ELSE Cardinality(Tests \cap PassedIn(Report))
          /\ UNCHANGED result
       \/ /\ target = "grade"
          /\ result' = IF exit # "timeout" /\ Passes THEN "pass" ELSE "fail"
          /\ pc' = IF result' = "pass" THEN "import" ELSE "done"
          /\ UNCHANGED header
    /\ UNCHANGED <<def, runVars, allowed, patch, tree, target, ran, exit, branch, worktree>>

-----------------------------------------------------------------------------
(* import_patch, on the workstation.                                       *)

\* The file is the run's patch or one with other paths in it.
Importable(names) ==
    names # {} /\ Allowed(names, [p \in Paths |-> "agent"]) = names

Import ==
    /\ pc = "import"
    /\ \E names \in SUBSET Paths :
          IF Importable(names)
          THEN patch' = [p \in names |-> "agent"] /\ worktree' = TRUE /\ pc' = "commit"
          ELSE pc' = "done" /\ UNCHANGED <<patch, worktree>>
    /\ UNCHANGED <<def, runVars, allowed, treeVars, branch>>
\* git apply and commit, or not; the worktree goes either way.
Commit ==
    /\ pc = "commit" /\ worktree' = FALSE /\ pc' = "done"
    /\ branch' = DOMAIN patch \/ branch' = {}
    /\ UNCHANGED <<def, runVars, allowed, patch, treeVars>>

Next ==
    \/ Load \/ Edit \/ Spawn \/ TurnEnds \/ Kill \/ Own
    \/ Classify \/ Patch \/ BuildTree \/ PatchFails \/ RunTests \/ Judge
    \/ Import \/ Commit
Spec == Init /\ [][Next]_vars

-----------------------------------------------------------------------------
\* What the harness reads it reads from a workspace nobody writes (oc.py on the
\* kill reaching detached processes, pipeline.py on who owns what).
HandsOff ==
    pc \in {"classify", "patch", "tree", "tests", "judge", "import", "commit", "done"} =>
        procs = {} /\ owner = "harness"

\* Only declared, unprotected, regular files leave (paths.py), in the patch, in
\* the tree and in the branch.
OnlyTheDeclaredLeaves ==
    /\ \A p \in DOMAIN patch : p \in def.files \ Protected /\ patch[p] # "link"
    /\ \A p \in Paths : tree[p] \in {"agent", "link"} => p \in def.files \ Protected
    /\ branch \subseteq def.files \ Protected
    /\ pc = "done" => ~worktree

\* The tests that judge are the bundle's, the hidden ones only in the grade
\* (prepare_tree, check_visible).
TestsArePristine ==
    pc \in {"tests", "judge"} =>
        /\ \A p \in def.tests : tree[p] = Snapshot[p]
        /\ \A p \in def.hidden : tree[p] = "hidden" <=> target = "grade"

\* A pass is every expected test run to its end and passed, with nothing failed
\* or skipped (grade()'s docstring), and such a run is a pass.
PassIsEarned ==
    (result # "none" /\ exit # "none" /\ target = "grade") =>
        (result = "pass" <=>
            /\ exit = "normal" /\ Tests # {} /\ Tests \subseteq DOMAIN ran
            /\ \A x \in DOMAIN ran : ran[x] = "passed")
===============================================================================
