-------------------------------- MODULE Workforce -------------------------------
(***************************************************************************)
(* The workforce harness: a run with a review pool, one without, one       *)
(* without reviews, the way from a turn to a graded change, the window of  *)
(* the host a run is measured in, and the loop metric.                     *)
(*                                                                         *)
(* The three runs are the same program under other flags and the other     *)
(* parts run by themselves; `part` is the one looked at, and the variables *)
(* of the others rest at 0.                                                *)
(***************************************************************************)
EXTENDS ReviewPipeline, Integers

CONSTANTS
    Parts,                                          \* the parts a run looks at
    PlainImpls, SoloImpls, PlainRounds,             \* the runs without a pool, without reviews
    Paths, InSnapshot, Protected, Defs, MaxEdits,   \* see Grading
    Sessions, MinReps, MaxPeriod,                   \* see LoopMetric
    Enabled, MaxChat                                \* see RunWindow

Runs     == {"pool", "plain", "solo"}
AllParts == Runs \cup {"grade", "loops", "window"}

ASSUME WorkforceAssumption ==
    /\ Parts \subseteq AllParts
    /\ IsFiniteSet(PlainImpls) /\ IsFiniteSet(SoloImpls) /\ PlainRounds \in Nat
    /\ {Lead, "none"} \cap (PlainImpls \cup SoloImpls) = {}
    /\ IsFiniteSet(Paths) /\ MaxEdits \in Nat
    /\ Defs \subseteq [files : SUBSET Paths, tests : SUBSET Paths, hidden : SUBSET Paths]
    /\ \A s \in Sessions : s \in Seq(Range(s))
    /\ MinReps \in Nat \ {0} /\ MaxPeriod \in Nat
    /\ Enabled \subseteq {"restart", "refresh", "embed"} /\ MaxChat \in Nat \ {0}

VARIABLES part,
    pending2, rework2, leadQ2, act2, work2, records2, up2, believed2, outages2,
    def, ws, procs, owner, edits, pc, allowed, patch, tree, target, ran, exit, result, header,
    branch, worktree,
    keys, i, out,
    on, jobs, chat, saved, at, opened, found, before, disturbed, run

boardVars == <<pending2, rework2, leadQ2, act2, work2, records2, up2, believed2, outages2>>
gradeVars == <<def, ws, procs, owner, edits, pc, allowed, patch, tree, target, ran, exit, result,
               header, branch, worktree>>
loopVars  == <<keys, i, out>>
winVars   == <<on, jobs, chat, saved, at, opened, found, before, disturbed, run>>
allVars == <<part, vars, boardVars, gradeVars, loopVars, winVars>>

Plain == INSTANCE ReviewPipeline WITH
            Impls <- PlainImpls, GpuImpls <- {}, Lanes <- {}, Reviewing <- TRUE, Budget <- 0,
            MaxRounds <- PlainRounds, EnforceRead <- TRUE, MaxOutages <- 0,
            pending <- pending2, rework <- rework2, leadQ <- leadQ2, act <- act2, work <- work2,
            records <- records2, up <- up2, believed <- believed2, outages <- outages2
Solo == INSTANCE ReviewPipeline WITH
            Impls <- SoloImpls, GpuImpls <- SoloImpls, Lanes <- {}, Reviewing <- FALSE, Budget <- 0,
            MaxRounds <- PlainRounds, EnforceRead <- FALSE, MaxOutages <- 0,
            pending <- pending2, rework <- rework2, leadQ <- leadQ2, act <- act2, work <- work2,
            records <- records2, up <- up2, believed <- believed2, outages <- outages2
Grade  == INSTANCE Grading
Loops  == INSTANCE LoopMetric
Window == INSTANCE RunWindow

-----------------------------------------------------------------------------
\* A part that is not looked at.
BoardRests ==
    /\ pending2 = 0 /\ rework2 = 0 /\ leadQ2 = 0 /\ act2 = 0 /\ work2 = 0 /\ records2 = 0 /\ up2 = 0
    /\ believed2 = 0 /\ outages2 = 0
GradeRests ==
    /\ def = 0 /\ ws = 0 /\ procs = 0 /\ owner = 0 /\ edits = 0 /\ pc = 0 /\ allowed = 0 /\ patch = 0
    /\ tree = 0 /\ target = 0 /\ ran = 0 /\ exit = 0 /\ result = 0 /\ header = 0 /\ branch = 0
    /\ worktree = 0
LoopsRest == keys = 0 /\ i = 0 /\ out = 0
WindowRests ==
    /\ on = 0 /\ jobs = 0 /\ chat = 0 /\ saved = 0 /\ at = 0 /\ opened = 0 /\ found = 0
    /\ before = 0 /\ disturbed = 0 /\ run = 0

PartsInit ==
    /\ part \in Parts /\ Init
    /\ \/ part = "pool"  /\ BoardRests /\ GradeRests /\ LoopsRest /\ WindowRests
       \/ part = "plain" /\ Plain!Init /\ GradeRests /\ LoopsRest /\ WindowRests
       \/ part = "solo"  /\ Solo!Init  /\ GradeRests /\ LoopsRest /\ WindowRests
       \/ part = "grade" /\ Grade!Init /\ BoardRests /\ LoopsRest /\ WindowRests
       \/ part = "loops" /\ Loops!Init /\ BoardRests /\ GradeRests /\ WindowRests
       \/ part = "window" /\ Window!Init /\ BoardRests /\ GradeRests /\ LoopsRest

InPool(A)  == part = "pool"  /\ A /\ UNCHANGED <<part, boardVars, gradeVars, loopVars, winVars>>
InPlain(A) == part = "plain" /\ A /\ UNCHANGED <<part, vars, gradeVars, loopVars, winVars>>
InSolo(A)  == part = "solo"  /\ A /\ UNCHANGED <<part, vars, gradeVars, loopVars, winVars>>
InGrade(A) == part = "grade" /\ A /\ UNCHANGED <<part, vars, boardVars, loopVars, winVars>>
InLoops(A) == part = "loops" /\ A /\ UNCHANGED <<part, vars, boardVars, gradeVars, winVars>>
InWindow(A) == part = "window" /\ A /\ UNCHANGED <<part, vars, boardVars, gradeVars, loopVars>>

PartsNext ==
    \/ InPool(Next) \/ InPlain(Plain!Next) \/ InSolo(Solo!Next)
    \/ InGrade(Grade!Next) \/ InLoops(Loops!Next) \/ InWindow(Window!Next)

\* The pipeline's threads run, its turns end by their time limits, its health
\* monitor polls.
PartsSpec ==
    /\ PartsInit /\ [][PartsNext]_allVars
    /\ \A x \in Threads : WF_allVars(InPool(Own(x)))
    /\ WF_allVars(InPool(PollOnce))
    /\ \A x \in PlainImpls \cup {Lead} : WF_allVars(InPlain(Plain!Own(x)))
    /\ \A x \in SoloImpls : WF_allVars(InSolo(Solo!Own(x)))

\* Every other part keeps its types.
TypesKept ==
    /\ part = "grade" => Grade!TypeOK
    /\ part = "loops" => Loops!TypeOK
    /\ part = "window" => Window!TypeOK

\* The same harness under the other flags, whose outcomes are as true.  With a
\* pool, the GPU takes one implementer's turn and the lead's: with a budget of at
\* most max_rounds + 1 no lane takes "a third GPU slot" (cli.py).
RunsAreSound ==
    /\ Budget <= MaxRounds + 1 => LanesKeepToReviews
    /\ Budget <= MaxRounds + 1 /\ Cardinality(GpuImpls) <= 1 => TwoGpuSlots
    /\ part = "plain" => Plain!OutcomesAreTrue
    /\ part = "solo"  => Solo!OutcomesAreTrue

\* What is graded is what was declared, and what passes passed (paths.py,
\* workspace.py, grade.py, oc.py), a loop is counted where there is one
\* (loops.py), a run called valid was measured undisturbed, and the host is put
\* back as it was (runmeta.py:validity, wf-window.sh).  The lanes of a run with a
\* pool keep to reviews, and the outcomes are as true under the other flags.
MeasuredRight ==
    /\ TypesKept /\ RunsAreSound
    /\ part = "grade" => Grade!HandsOff /\ Grade!OnlyTheDeclaredLeaves /\ Grade!TestsArePristine
                          /\ Grade!PassIsEarned
    /\ part = "loops" => Loops!LoopsAreFound
    /\ part = "window" => Window!PutBack /\ Window!ValidIsUndisturbed

\* A run ends, every task recorded (run() joins every thread).
RunEnds ==
    part \in Runs ~>
        \/ part = "pool"  /\ Ended
        \/ part = "plain" /\ Plain!Ended
        \/ part = "solo"  /\ Solo!Ended
-----------------------------------------------------------------------------
(* A small instance.                                                       *)

TwoTasks == <<"a", "b">>
TaskDefs ==
    [files : {{"src"}, {"src", "conf"}, {"src", "vis"}, {"hid"}}, tests : {{"vis"}},
     hidden : {{"hid"}, {}, {"vis"}}]
Calls == UNION {[1..n -> {"x", "y"}] : n \in 0..12}
===============================================================================
