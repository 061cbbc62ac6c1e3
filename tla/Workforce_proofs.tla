--------------------------- MODULE Workforce_proofs ---------------------------
(***************************************************************************)
(* Theorems about Workforce: every part of the harness, for any tasks,     *)
(* implementers, lanes, budgets, definitions, sessions and units.          *)
(*                                                                         *)
(* Each part has an inductive invariant of its own.  The three runs share  *)
(* the one of ReviewPipeline_proofs: once for the constants of the module  *)
(* and once, by INSTANCE, for each of the other two sets of flags.         *)
(***************************************************************************)
EXTENDS Workforce, ReviewPipeline_proofs, SequenceTheorems, WellFoundedInduction

-----------------------------------------------------------------------------
(* A run without a pool and a run without reviews.                         *)

PlainRun == INSTANCE ReviewPipeline_proofs WITH
            Impls <- PlainImpls, GpuImpls <- {}, Lanes <- {}, Reviewing <- TRUE, Budget <- 0,
            MaxRounds <- PlainRounds, EnforceRead <- TRUE, MaxOutages <- 0,
            pending <- pending2, rework <- rework2, leadQ <- leadQ2, act <- act2, work <- work2,
            records <- records2, up <- up2, believed <- believed2, outages <- outages2
SoloRun == INSTANCE ReviewPipeline_proofs WITH
            Impls <- SoloImpls, GpuImpls <- SoloImpls, Lanes <- {}, Reviewing <- FALSE, Budget <- 0,
            MaxRounds <- PlainRounds, EnforceRead <- FALSE, MaxOutages <- 0,
            pending <- pending2, rework <- rework2, leadQ <- leadQ2, act <- act2, work <- work2,
            records <- records2, up <- up2, believed <- believed2, outages <- outages2

LEMMA PlainSame ==
    ASSUME NEW x
    PROVE  /\ Plain!TakeRework(x) <=> PlainRun!TakeRework(x)
           /\ Plain!TakeNew(x) <=> PlainRun!TakeNew(x)
           /\ Plain!Implement(x) <=> PlainRun!Implement(x)
           /\ Plain!InfraError(x) <=> PlainRun!InfraError(x)
           /\ Plain!Take(x) <=> PlainRun!Take(x)
           /\ Plain!Review(x) <=> PlainRun!Review(x)
           /\ Plain!VerdictTurn(x) <=> PlainRun!VerdictTurn(x)
           /\ Plain!Reread(x) <=> PlainRun!Reread(x)
           /\ Plain!WorkerFailed(x) <=> PlainRun!WorkerFailed(x)
           /\ Plain!Judge(x) <=> PlainRun!Judge(x)
           /\ Plain!LeadFix(x) <=> PlainRun!LeadFix(x)
           /\ Plain!HarnessError(x) <=> PlainRun!HarnessError(x)
           /\ Plain!Leave(x) <=> PlainRun!Leave(x)
<1> USE DEF Plain!Now, PlainRun!Now, Plain!At, PlainRun!At, Plain!Workers, PlainRun!Workers,
            Plain!Revise, PlainRun!Revise, Plain!Record, PlainRun!Record, Plain!Free,
            PlainRun!Free, Plain!Idle, PlainRun!Idle, Plain!Board, PlainRun!Board, Plain!NoTask,
            PlainRun!NoTask, Plain!Lead, PlainRun!Lead, Plain!Verdicts, PlainRun!Verdicts
<1>1. Plain!TakeRework(x) <=> PlainRun!TakeRework(x)
  BY DEF Plain!TakeRework, PlainRun!TakeRework
<1>2. Plain!TakeNew(x) <=> PlainRun!TakeNew(x)
  BY DEF Plain!TakeNew, PlainRun!TakeNew
<1>3. Plain!Implement(x) <=> PlainRun!Implement(x)
  BY DEF Plain!Implement, PlainRun!Implement, Plain!Final, PlainRun!Final
<1>4. Plain!InfraError(x) <=> PlainRun!InfraError(x)
  BY DEF Plain!InfraError, PlainRun!InfraError
<1>5. Plain!Take(x) <=> PlainRun!Take(x)
  BY DEF Plain!Take, PlainRun!Take, Plain!Eligible, PlainRun!Eligible, Plain!Forced,
         PlainRun!Forced, Plain!Anyone, PlainRun!Anyone, Plain!RemoveAt, PlainRun!RemoveAt
<1>6. Plain!Review(x) <=> PlainRun!Review(x)
  BY DEF Plain!Review, PlainRun!Review, Plain!Onwards, PlainRun!Onwards
<1>7. Plain!VerdictTurn(x) <=> PlainRun!VerdictTurn(x)
  BY DEF Plain!VerdictTurn, PlainRun!VerdictTurn, Plain!Onwards, PlainRun!Onwards
<1>8. Plain!Reread(x) <=> PlainRun!Reread(x)
  BY DEF Plain!Reread, PlainRun!Reread
<1>9. Plain!WorkerFailed(x) <=> PlainRun!WorkerFailed(x)
  BY DEF Plain!WorkerFailed, PlainRun!WorkerFailed
<1>10. Plain!Judge(x) <=> PlainRun!Judge(x)
  BY DEF Plain!Judge, PlainRun!Judge
<1>11. Plain!LeadFix(x) <=> PlainRun!LeadFix(x)
  BY DEF Plain!LeadFix, PlainRun!LeadFix
<1>12. Plain!HarnessError(x) <=> PlainRun!HarnessError(x)
  BY DEF Plain!HarnessError, PlainRun!HarnessError
<1>13. Plain!Leave(x) <=> PlainRun!Leave(x)
  BY DEF Plain!Leave, PlainRun!Leave, Plain!Finished, PlainRun!Finished, Plain!Stopped,
         PlainRun!Stopped
<1> QED
  BY <1>1, <1>2, <1>3, <1>4, <1>5, <1>6, <1>7, <1>8, <1>9, <1>10, <1>11, <1>12, <1>13

LEMMA PlainNextSame == (Plain!Init <=> PlainRun!Init) /\ (Plain!Next <=> PlainRun!Next)
<1>1. Plain!Init <=> PlainRun!Init
  BY DEF Plain!Init, PlainRun!Init, Plain!Constructed, PlainRun!Constructed, Plain!Threads,
         PlainRun!Threads, Plain!Readers, PlainRun!Readers, Plain!Idle, PlainRun!Idle,
         Plain!NoTask, PlainRun!NoTask, Plain!Lead, PlainRun!Lead
<1>2. ASSUME NEW x PROVE Plain!Own(x) <=> PlainRun!Own(x)
  BY PlainSame DEF Plain!Own, PlainRun!Own, Plain!Readers, PlainRun!Readers, Plain!Lead,
                   PlainRun!Lead
<1>3. Plain!Threads = PlainRun!Threads
  BY DEF Plain!Threads, PlainRun!Threads, Plain!Readers, PlainRun!Readers, Plain!Lead, PlainRun!Lead
<1>4. Plain!PollOnce <=> PlainRun!PollOnce
  BY DEF Plain!PollOnce, PlainRun!PollOnce, Plain!Board, PlainRun!Board
<1> QED
  BY <1>1, <1>2, <1>3, <1>4 DEF Plain!Next, PlainRun!Next

LEMMA PlainClaimsSame == PlainRun!OutcomesAreTrue => Plain!OutcomesAreTrue
<1>1. PlainRun!TypeOK <=> Plain!TypeOK
  BY DEF Plain!TypeOK, PlainRun!TypeOK, Plain!Threads, PlainRun!Threads, Plain!Readers,
         PlainRun!Readers, Plain!Lead, PlainRun!Lead, Plain!NoTask, PlainRun!NoTask,
         Plain!Verdicts, PlainRun!Verdicts, Plain!Outcomes, PlainRun!Outcomes
<1>2. PlainRun!OutcomeIsEarned <=> Plain!OutcomeIsEarned
  BY DEF Plain!OutcomeIsEarned, PlainRun!OutcomeIsEarned
<1>3. PlainRun!OneOwner <=> Plain!OneOwner
  <2>1. \A S : Plain!Cardinality(S) = PlainRun!Cardinality(S)
    BY DEF Plain!Cardinality, PlainRun!Cardinality
  <2>2. \A q, t : Plain!Times(q, t) = PlainRun!Times(q, t)
    BY <2>1 DEF Plain!Times, PlainRun!Times
  <2>3. \A t : Plain!OtherQueues(t) = PlainRun!OtherQueues(t)
    BY <2>2 DEF Plain!OtherQueues, PlainRun!OtherQueues
  <2>4. \A t : Plain!Holders(t) = PlainRun!Holders(t)
    BY DEF Plain!Holders, PlainRun!Holders, Plain!Threads, PlainRun!Threads, Plain!Readers,
           PlainRun!Readers, Plain!Lead, PlainRun!Lead
  <2> QED BY <2>1, <2>2, <2>3, <2>4 DEF Plain!OneOwner, PlainRun!OneOwner
<1> QED
  BY <1>1, <1>2, <1>3 DEF Plain!OutcomesAreTrue, PlainRun!OutcomesAreTrue

LEMMA PlainAssumed == PlainRun!PipelineAssumption
<1>1. IsFiniteSet({})
  BY FS_EmptySet
<1> QED
  BY <1>1, PipelineAssumption, WorkforceAssumption
     DEF PlainRun!PipelineAssumption, PlainRun!NoTask, PlainRun!Lead, NoTask, Lead,
         PlainRun!IsFiniteSet, IsFiniteSet,
         PlainRun!IsInjective, IsInjective, PlainRun!Range, Range

LEMMA PlainHolds ==
    /\ Plain!Init => PlainRun!IInv
    /\ PlainRun!IInv /\ Plain!Next => PlainRun!IInv'
    /\ PlainRun!IInv => Plain!OutcomesAreTrue
BY PlainAssumed, PlainNextSame, PlainClaimsSame, PlainRun!InitIInv, PlainRun!NextIInv,
     PlainRun!OnePlace, PlainRun!EachEarned
   DEF PlainRun!IInv, PlainRun!OutcomesAreTrue

LEMMA SoloSame ==
    ASSUME NEW x
    PROVE  /\ Solo!TakeRework(x) <=> SoloRun!TakeRework(x)
           /\ Solo!TakeNew(x) <=> SoloRun!TakeNew(x)
           /\ Solo!Implement(x) <=> SoloRun!Implement(x)
           /\ Solo!InfraError(x) <=> SoloRun!InfraError(x)
           /\ Solo!Take(x) <=> SoloRun!Take(x)
           /\ Solo!Review(x) <=> SoloRun!Review(x)
           /\ Solo!VerdictTurn(x) <=> SoloRun!VerdictTurn(x)
           /\ Solo!Reread(x) <=> SoloRun!Reread(x)
           /\ Solo!WorkerFailed(x) <=> SoloRun!WorkerFailed(x)
           /\ Solo!Judge(x) <=> SoloRun!Judge(x)
           /\ Solo!LeadFix(x) <=> SoloRun!LeadFix(x)
           /\ Solo!HarnessError(x) <=> SoloRun!HarnessError(x)
           /\ Solo!Leave(x) <=> SoloRun!Leave(x)
<1> USE DEF Solo!Now, SoloRun!Now, Solo!At, SoloRun!At, Solo!Workers, SoloRun!Workers,
            Solo!Revise, SoloRun!Revise, Solo!Record, SoloRun!Record, Solo!Free, SoloRun!Free,
            Solo!Idle, SoloRun!Idle, Solo!Board, SoloRun!Board, Solo!NoTask, SoloRun!NoTask,
            Solo!Lead, SoloRun!Lead, Solo!Verdicts, SoloRun!Verdicts
<1>1. Solo!TakeRework(x) <=> SoloRun!TakeRework(x)
  BY DEF Solo!TakeRework, SoloRun!TakeRework
<1>2. Solo!TakeNew(x) <=> SoloRun!TakeNew(x)
  BY DEF Solo!TakeNew, SoloRun!TakeNew
<1>3. Solo!Implement(x) <=> SoloRun!Implement(x)
  BY DEF Solo!Implement, SoloRun!Implement, Solo!Final, SoloRun!Final
<1>4. Solo!InfraError(x) <=> SoloRun!InfraError(x)
  BY DEF Solo!InfraError, SoloRun!InfraError
<1>5. Solo!Take(x) <=> SoloRun!Take(x)
  BY DEF Solo!Take, SoloRun!Take, Solo!Eligible, SoloRun!Eligible, Solo!Forced, SoloRun!Forced,
         Solo!Anyone, SoloRun!Anyone, Solo!RemoveAt, SoloRun!RemoveAt
<1>6. Solo!Review(x) <=> SoloRun!Review(x)
  BY DEF Solo!Review, SoloRun!Review, Solo!Onwards, SoloRun!Onwards
<1>7. Solo!VerdictTurn(x) <=> SoloRun!VerdictTurn(x)
  BY DEF Solo!VerdictTurn, SoloRun!VerdictTurn, Solo!Onwards, SoloRun!Onwards
<1>8. Solo!Reread(x) <=> SoloRun!Reread(x)
  BY DEF Solo!Reread, SoloRun!Reread
<1>9. Solo!WorkerFailed(x) <=> SoloRun!WorkerFailed(x)
  BY DEF Solo!WorkerFailed, SoloRun!WorkerFailed
<1>10. Solo!Judge(x) <=> SoloRun!Judge(x)
  BY DEF Solo!Judge, SoloRun!Judge
<1>11. Solo!LeadFix(x) <=> SoloRun!LeadFix(x)
  BY DEF Solo!LeadFix, SoloRun!LeadFix
<1>12. Solo!HarnessError(x) <=> SoloRun!HarnessError(x)
  BY DEF Solo!HarnessError, SoloRun!HarnessError
<1>13. Solo!Leave(x) <=> SoloRun!Leave(x)
  BY DEF Solo!Leave, SoloRun!Leave, Solo!Finished, SoloRun!Finished, Solo!Stopped, SoloRun!Stopped
<1> QED
  BY <1>1, <1>2, <1>3, <1>4, <1>5, <1>6, <1>7, <1>8, <1>9, <1>10, <1>11, <1>12, <1>13

LEMMA SoloNextSame == (Solo!Init <=> SoloRun!Init) /\ (Solo!Next <=> SoloRun!Next)
<1>1. Solo!Init <=> SoloRun!Init
  BY DEF Solo!Init, SoloRun!Init, Solo!Constructed, SoloRun!Constructed, Solo!Threads,
         SoloRun!Threads, Solo!Readers, SoloRun!Readers, Solo!Idle, SoloRun!Idle, Solo!NoTask,
         SoloRun!NoTask, Solo!Lead, SoloRun!Lead
<1>2. ASSUME NEW x PROVE Solo!Own(x) <=> SoloRun!Own(x)
  BY SoloSame DEF Solo!Own, SoloRun!Own, Solo!Readers, SoloRun!Readers, Solo!Lead, SoloRun!Lead
<1>3. Solo!Threads = SoloRun!Threads
  BY DEF Solo!Threads, SoloRun!Threads, Solo!Readers, SoloRun!Readers, Solo!Lead, SoloRun!Lead
<1>4. Solo!PollOnce <=> SoloRun!PollOnce
  BY DEF Solo!PollOnce, SoloRun!PollOnce, Solo!Board, SoloRun!Board
<1> QED
  BY <1>1, <1>2, <1>3, <1>4 DEF Solo!Next, SoloRun!Next

LEMMA SoloClaimsSame == SoloRun!OutcomesAreTrue => Solo!OutcomesAreTrue
<1>1. SoloRun!TypeOK <=> Solo!TypeOK
  BY DEF Solo!TypeOK, SoloRun!TypeOK, Solo!Threads, SoloRun!Threads, Solo!Readers,
         SoloRun!Readers, Solo!Lead, SoloRun!Lead, Solo!NoTask, SoloRun!NoTask, Solo!Verdicts,
         SoloRun!Verdicts, Solo!Outcomes, SoloRun!Outcomes
<1>2. SoloRun!OutcomeIsEarned <=> Solo!OutcomeIsEarned
  BY DEF Solo!OutcomeIsEarned, SoloRun!OutcomeIsEarned
<1>3. SoloRun!OneOwner <=> Solo!OneOwner
  <2>1. \A S : Solo!Cardinality(S) = SoloRun!Cardinality(S)
    BY DEF Solo!Cardinality, SoloRun!Cardinality
  <2>2. \A q, t : Solo!Times(q, t) = SoloRun!Times(q, t)
    BY <2>1 DEF Solo!Times, SoloRun!Times
  <2>3. \A t : Solo!OtherQueues(t) = SoloRun!OtherQueues(t)
    BY <2>2 DEF Solo!OtherQueues, SoloRun!OtherQueues
  <2>4. \A t : Solo!Holders(t) = SoloRun!Holders(t)
    BY DEF Solo!Holders, SoloRun!Holders, Solo!Threads, SoloRun!Threads, Solo!Readers,
           SoloRun!Readers, Solo!Lead, SoloRun!Lead
  <2> QED BY <2>1, <2>2, <2>3, <2>4 DEF Solo!OneOwner, SoloRun!OneOwner
<1> QED
  BY <1>1, <1>2, <1>3 DEF Solo!OutcomesAreTrue, SoloRun!OutcomesAreTrue

LEMMA SoloAssumed == SoloRun!PipelineAssumption
<1>1. IsFiniteSet({})
  BY FS_EmptySet
<1> QED
  BY <1>1, PipelineAssumption, WorkforceAssumption
     DEF SoloRun!PipelineAssumption, SoloRun!NoTask, SoloRun!Lead, NoTask, Lead,
         SoloRun!IsFiniteSet, IsFiniteSet,
         SoloRun!IsInjective, IsInjective, SoloRun!Range, Range

LEMMA SoloHolds ==
    /\ Solo!Init => SoloRun!IInv
    /\ SoloRun!IInv /\ Solo!Next => SoloRun!IInv'
    /\ SoloRun!IInv => Solo!OutcomesAreTrue
BY SoloAssumed, SoloNextSame, SoloClaimsSame, SoloRun!InitIInv, SoloRun!NextIInv,
     SoloRun!OnePlace, SoloRun!EachEarned
   DEF SoloRun!IInv, SoloRun!OutcomesAreTrue

-----------------------------------------------------------------------------
(* From a turn to a graded change.                                         *)

Declared == def.files \ Protected

\* Who may write, and what is left to do.
GradePhases ==
    /\ pc \notin {"load", "refused"} => Grade!WellFormed(def)
    /\ pc \in {"load", "refused", "own"} => procs = {}
    /\ pc \in {"load", "refused", "turn", "kill", "own"} => allowed = {}
    /\ Grade!HandsOff
    /\ worktree => pc = "commit"
    /\ result # "none" => pc \in {"import", "commit", "done"}
    /\ pc = "tree" => exit = "none"

\* What leaves: nothing that is a link, or was not declared, was ever allowed.
GradeDeclared ==
    /\ \A p \in allowed : p \in Declared /\ ws[p] # "link"
    /\ Grade!OnlyTheDeclaredLeaves

GradeInv ==
    /\ Grade!TypeOK /\ GradePhases /\ GradeDeclared
    /\ Grade!TestsArePristine /\ Grade!PassIsEarned

LEMMA GradeDefs ==
    ASSUME Grade!TypeOK
    PROVE  /\ def.files \subseteq Paths /\ def.tests \subseteq Paths /\ def.hidden \subseteq Paths
           /\ \A p \in Paths : ws[p] \in Grade!Contents /\ tree[p] \in Grade!Contents
           /\ \A p \in Paths : Grade!Snapshot[p] \in {"pristine", "absent"}
           /\ Grade!Snapshot \in [Paths -> Grade!Contents]
BY WorkforceAssumption DEF Grade!TypeOK, Grade!Snapshot, Grade!Contents

LEMMA GradeCardinality == \A S : Grade!Cardinality(S) = Cardinality(S)
BY DEF Grade!Cardinality, Cardinality

LEMMA RestrictIs ==
    ASSUME NEW f, NEW S
    PROVE  /\ DOMAIN Grade!Restrict(f, S) = S
           /\ \A p \in S : Grade!Restrict(f, S)[p] = f[p]
BY DEF Grade!Restrict

LEMMA GradeTypes == ASSUME Grade!TypeOK, Grade!Next PROVE Grade!TypeOK'
<1> USE DEF Grade!TypeOK, Grade!runVars, Grade!treeVars
<1>1. CASE Grade!Load
  BY <1>1 DEF Grade!Load
<1>2. CASE Grade!Edit
  <2>1. ws' \in [Paths -> Grade!Contents]
    BY <1>2 DEF Grade!Edit, Grade!Contents
  <2> QED BY <1>2, <2>1, WorkforceAssumption DEF Grade!Edit
<1>3. CASE Grade!Spawn
  BY <1>3 DEF Grade!Spawn
<1>4. CASE Grade!TurnEnds
  BY <1>4 DEF Grade!TurnEnds
<1>5. CASE Grade!Kill
  BY <1>5 DEF Grade!Kill
<1>6. CASE Grade!Own
  BY <1>6 DEF Grade!Own
<1>7. CASE Grade!Classify
  <2>1. allowed' \subseteq Paths
    BY <1>7 DEF Grade!Classify, Grade!Allowed, Grade!Changed
  <2> QED BY <1>7, <2>1 DEF Grade!Classify
<1>8. CASE Grade!Patch
  <2>1. DOMAIN patch' \subseteq Paths /\ Grade!Range(patch') \subseteq Grade!Contents
    BY <1>8, RestrictIs, GradeDefs DEF Grade!Patch, Grade!Range, Grade!Changed
  <2>2. Grade!Range(ran') \subseteq {"passed", "failed", "skipped"}
    BY <1>8 DEF Grade!Patch, Grade!Range, Grade!Nothing
  <2> QED BY <1>8, <2>1, <2>2 DEF Grade!Patch
<1>9. CASE Grade!BuildTree
  <2>1. ASSUME NEW p \in Paths PROVE Grade!Built(p) \in Grade!Contents
    BY GradeDefs DEF Grade!Built, Grade!Range, Grade!Contents
  <2>2. tree' \in [Paths -> Grade!Contents]
    BY <1>9, <2>1 DEF Grade!BuildTree
  <2> QED BY <1>9, <2>2 DEF Grade!BuildTree
<1>10. CASE Grade!PatchFails
  <2>1. 0 \in 0..Cardinality(Paths)
    BY WorkforceAssumption, FS_CardinalityType
  <2> QED BY <1>10, <2>1, GradeCardinality DEF Grade!PatchFails
<1>11. CASE Grade!RunTests
  <2>1. Grade!Range(ran') \subseteq {"passed", "failed", "skipped"}
    BY <1>11 DEF Grade!RunTests, Grade!Range
  <2> QED BY <1>11, <2>1 DEF Grade!RunTests
<1>12. CASE Grade!Judge
  <2>1. Grade!Tests \subseteq Paths
    BY GradeDefs DEF Grade!Tests
  <2>2. ASSUME NEW S PROVE Cardinality(Grade!Tests \cap S) \in 0..Cardinality(Paths)
    <3>1. Grade!Tests \cap S \subseteq Paths /\ IsFiniteSet(Paths)
      BY <2>1, WorkforceAssumption
    <3>2. IsFiniteSet(Grade!Tests \cap S) /\ Cardinality(Grade!Tests \cap S) <= Cardinality(Paths)
      BY <3>1, FS_Subset
    <3> QED BY <3>1, <3>2, FS_CardinalityType
  <2>3. 0 \in 0..Cardinality(Paths)
    BY WorkforceAssumption, FS_CardinalityType
  <2>4. header' \in 0..Cardinality(Paths)
    BY <1>12, <2>2, <2>3, GradeCardinality DEF Grade!Judge
  <2> QED BY <1>12, <2>4, GradeCardinality DEF Grade!Judge
<1>13. CASE Grade!Import
  <2>1. DOMAIN patch' \subseteq Paths /\ Grade!Range(patch') \subseteq Grade!Contents
    BY <1>13 DEF Grade!Import, Grade!Range, Grade!Contents
  <2> QED BY <1>13, <2>1 DEF Grade!Import
<1>14. CASE Grade!Commit
  BY <1>14 DEF Grade!Commit
<1> QED
  BY <1>1, <1>2, <1>3, <1>4, <1>5, <1>6, <1>7, <1>8, <1>9, <1>10, <1>11, <1>12, <1>13, <1>14 DEF Grade!Next

LEMMA GradePhasesStep == ASSUME Grade!TypeOK, GradePhases, Grade!Next PROVE GradePhases'
<1> USE DEF GradePhases, Grade!HandsOff, Grade!runVars, Grade!treeVars
<1>1. ASSUME def' = def PROVE Grade!WellFormed(def)' <=> Grade!WellFormed(def)
  BY <1>1 DEF Grade!WellFormed
<1>2. CASE Grade!Load
  BY <1>2, <1>1 DEF Grade!Load, Grade!WellFormed
<1>3. CASE Grade!Edit \/ Grade!Spawn \/ Grade!TurnEnds \/ Grade!Kill \/ Grade!Own
  BY <1>3, <1>1 DEF Grade!Edit, Grade!Spawn, Grade!TurnEnds, Grade!Kill, Grade!Own
<1>4. CASE Grade!Classify \/ Grade!Patch \/ Grade!BuildTree \/ Grade!PatchFails
  BY <1>4, <1>1 DEF Grade!Classify, Grade!Patch, Grade!BuildTree, Grade!PatchFails
<1>5. CASE Grade!RunTests \/ Grade!Judge \/ Grade!Import \/ Grade!Commit
  BY <1>5, <1>1 DEF Grade!RunTests, Grade!Judge, Grade!Import, Grade!Commit
<1> QED
  BY <1>2, <1>3, <1>4, <1>5 DEF Grade!Next

LEMMA GradeDeclaredStep ==
    ASSUME Grade!TypeOK, GradePhases, GradeDeclared, Grade!Next PROVE GradeDeclared'
<1> USE DEF GradeDeclared, Declared, Grade!OnlyTheDeclaredLeaves, Grade!runVars, Grade!treeVars
<1>1. CASE Grade!Load
  BY <1>1 DEF Grade!Load
<1>2. CASE Grade!Edit
  <2>1. allowed = {}
    BY <1>2 DEF Grade!Edit, GradePhases, Grade!HandsOff, Grade!TypeOK
  <2> QED BY <1>2, <2>1 DEF Grade!Edit
<1>3. CASE Grade!Spawn \/ Grade!TurnEnds \/ Grade!Kill \/ Grade!Own
  BY <1>3 DEF Grade!Spawn, Grade!TurnEnds, Grade!Kill, Grade!Own
<1>4. CASE Grade!Classify
  BY <1>4 DEF Grade!Classify, Grade!Allowed, Grade!Changed
<1>5. CASE Grade!Patch
  BY <1>5, RestrictIs DEF Grade!Patch
<1>6. CASE Grade!BuildTree
  <2>1. ASSUME NEW p \in Paths, tree'[p] \in {"agent", "link"} PROVE p \in Declared
    BY <1>6, <2>1, GradeDefs DEF Grade!BuildTree, Grade!Built
  <2> QED BY <1>6, <2>1 DEF Grade!BuildTree
<1>7. CASE Grade!PatchFails \/ Grade!RunTests
  BY <1>7 DEF Grade!PatchFails, Grade!RunTests, GradePhases
<1>8. CASE Grade!Judge
  BY <1>8 DEF Grade!Judge, GradePhases
<1>9. CASE Grade!Import
  BY <1>9 DEF Grade!Import, Grade!Importable, Grade!Allowed, GradePhases
<1>10. CASE Grade!Commit
  BY <1>10 DEF Grade!Commit
<1> QED
  BY <1>1, <1>2, <1>3, <1>4, <1>5, <1>6, <1>7, <1>8, <1>9, <1>10 DEF Grade!Next

LEMMA GradePristineStep ==
    ASSUME Grade!TypeOK, GradePhases, GradeDeclared, Grade!TestsArePristine, Grade!Next
    PROVE  Grade!TestsArePristine'
<1> USE DEF Grade!TestsArePristine, Grade!runVars, Grade!treeVars
<1>1. CASE Grade!BuildTree
  <2>1. Grade!WellFormed(def)
    BY <1>1 DEF Grade!BuildTree, GradePhases
  <2>2. ASSUME NEW p \in def.tests PROVE tree'[p] = Grade!Snapshot[p]
    BY <1>1, <2>1, GradeDefs DEF Grade!BuildTree, Grade!Built, Grade!WellFormed
  <2>3. ASSUME NEW p \in def.hidden PROVE tree'[p] = "hidden" <=> target = "grade"
    <3>1. p \in Paths /\ p \notin def.tests /\ p \notin DOMAIN patch
      BY <2>1, GradeDefs DEF Grade!WellFormed, GradeDeclared, Grade!OnlyTheDeclaredLeaves
    <3> QED BY <1>1, <3>1, GradeDefs DEF Grade!BuildTree, Grade!Built
  <2>4. def' = def /\ target' = target /\ Grade!Snapshot' = Grade!Snapshot
    BY <1>1 DEF Grade!BuildTree, Grade!Snapshot
  <2> QED BY <2>2, <2>3, <2>4
<1>2. CASE Grade!RunTests
  BY <1>2 DEF Grade!RunTests, Grade!Snapshot
<1>3. CASE Grade!Edit
  BY <1>3 DEF Grade!Edit, Grade!Snapshot
<1>4. CASE Grade!Load \/ Grade!Spawn \/ Grade!TurnEnds \/ Grade!Kill \/ Grade!Own
  BY <1>4 DEF Grade!Load, Grade!Spawn, Grade!TurnEnds, Grade!Kill, Grade!Own
<1>5. CASE Grade!Classify \/ Grade!Patch \/ Grade!PatchFails \/ Grade!Judge \/ Grade!Import \/ Grade!Commit
  BY <1>5 DEF Grade!Classify, Grade!Patch, Grade!PatchFails, Grade!Judge, Grade!Import, Grade!Commit
<1> QED
  BY <1>1, <1>2, <1>3, <1>4, <1>5 DEF Grade!Next

\* grade()'s lines: with the exit code, the report and no test skipped, a pass
\* is what it says.
LEMMA PassesMeans ==
    ASSUME Grade!TypeOK
    PROVE  (exit # "timeout" /\ Grade!Passes) <=>
               /\ exit = "normal" /\ Grade!Tests # {} /\ Grade!Tests \subseteq DOMAIN ran
               /\ \A x \in DOMAIN ran : ran[x] = "passed"
<1>1. CASE exit = "normal"
  BY <1>1 DEF Grade!Passes, Grade!Rc, Grade!Report, Grade!PassedIn, Grade!Range
<1>2. CASE exit # "normal"
  <2>1. Grade!PassedIn(Grade!Report) = {}
    BY <1>2 DEF Grade!PassedIn, Grade!Report, Grade!Nothing
  <2> QED BY <1>2, <2>1 DEF Grade!Passes
<1> QED
  BY <1>1, <1>2

LEMMA GradeEarnedStep ==
    ASSUME Grade!TypeOK, GradePhases, Grade!PassIsEarned, Grade!Next
    PROVE  Grade!PassIsEarned'
<1> USE DEF Grade!PassIsEarned, Grade!runVars, Grade!treeVars
<1>1. ASSUME UNCHANGED <<def, target>> PROVE Grade!Tests' = Grade!Tests
  BY <1>1 DEF Grade!Tests
<1>2. CASE Grade!Judge
  <2>1. CASE target = "visible"
    BY <1>2, <2>1 DEF Grade!Judge
  <2>2. CASE target = "grade"
    BY <1>2, <2>2, <1>1, PassesMeans DEF Grade!Judge
  <2> QED BY <2>1, <2>2 DEF Grade!TypeOK
<1>3. CASE Grade!PatchFails
  BY <1>3 DEF Grade!PatchFails, GradePhases
<1>4. CASE Grade!Patch \/ Grade!RunTests
  BY <1>4 DEF Grade!Patch, Grade!RunTests, GradePhases
<1>5. CASE Grade!Load \/ Grade!Edit \/ Grade!Spawn \/ Grade!TurnEnds \/ Grade!Kill \/ Grade!Own
  BY <1>5, <1>1 DEF Grade!Load, Grade!Edit, Grade!Spawn, Grade!TurnEnds, Grade!Kill, Grade!Own
<1>6. CASE Grade!Classify \/ Grade!BuildTree \/ Grade!Import \/ Grade!Commit
  BY <1>6, <1>1 DEF Grade!Classify, Grade!BuildTree, Grade!Import, Grade!Commit
<1> QED
  BY <1>2, <1>3, <1>4, <1>5, <1>6 DEF Grade!Next

LEMMA GradeStarts == Grade!Init => GradeInv
<1> SUFFICES ASSUME Grade!Init PROVE GradeInv
  OBVIOUS
<1>1. Grade!Snapshot \in [Paths -> Grade!Contents]
  BY DEF Grade!Snapshot, Grade!Contents
<1>2. \A p \in Paths : Grade!Snapshot[p] \notin {"agent", "link"}
  BY DEF Grade!Snapshot
<1>3. DOMAIN Grade!Nothing = {} /\ Grade!Range(Grade!Nothing) = {}
  BY DEF Grade!Nothing, Grade!Range
<1>4. Grade!TypeOK
  <2>1. 0 \in 0..Cardinality(Paths) /\ 0 \in 0..MaxEdits
    BY WorkforceAssumption, FS_CardinalityType
  <2> QED BY <1>1, <1>3, <2>1, GradeCardinality DEF Grade!Init, Grade!TypeOK
<1>5. GradePhases /\ GradeDeclared
  BY <1>2, <1>3 DEF Grade!Init, GradePhases, GradeDeclared, Grade!HandsOff, Grade!OnlyTheDeclaredLeaves
<1>6. Grade!TestsArePristine /\ Grade!PassIsEarned
  BY DEF Grade!Init, Grade!TestsArePristine, Grade!PassIsEarned
<1> QED
  BY <1>4, <1>5, <1>6 DEF GradeInv

LEMMA GradeGoesOn == GradeInv /\ Grade!Next => GradeInv'
BY GradeTypes, GradePhasesStep, GradeDeclaredStep, GradePristineStep, GradeEarnedStep DEF GradeInv

-----------------------------------------------------------------------------
(* The window a run is measured in.                                        *)

\* What open saved is what it found, whatever step open or close is at.
WindowKept ==
    /\ at \in {"idle", "save"} /\ saved = Window!NoState => on = found
    /\ at = "save" => saved = Window!NoState
    /\ at \in {"stop", "check", "guest", "host", "wait"} => saved # Window!NoState
    /\ saved # Window!NoState => \A u \in Window!Units : saved[u] = "active" <=> u \in found
    /\ at \in {"host", "wait"} => on \cap Window!InGuest = found \cap Window!InGuest
    /\ at = "wait" => on = found

\* While a window is open nothing that perturbs can run on the host, and a
\* restart of chat since the first stamp shows.
WindowSteady ==
    /\ opened => at = "idle" /\ saved # Window!NoState /\ "refresh" \notin on \cup jobs
    /\ before.steady => opened
    /\ before.chat <= chat
    /\ before.steady /\ before.chat = chat => ~disturbed

WindowInv == Window!TypeOK /\ WindowKept /\ WindowSteady /\ Window!ValidIsUndisturbed

LEMMA WindowValues ==
    /\ Window!Units = {"restart", "refresh", "embed"} /\ Window!Perturbers = {"restart", "refresh"}
    /\ Window!InGuest = {"restart", "embed"} /\ Window!NoState \in [Window!Units -> {"none"}]
    /\ Window!NoStamp.chat = 0 /\ ~Window!NoStamp.open /\ ~Window!NoStamp.steady
    /\ MaxChat \in Nat \ {0} /\ Enabled \subseteq Window!Units
BY WorkforceAssumption DEF Window!Units, Window!Perturbers, Window!InGuest, Window!NoState, Window!NoStamp

LEMMA WindowCounts ==
    ASSUME Window!TypeOK
    PROVE  /\ chat \in Nat /\ 1 <= chat /\ chat <= MaxChat /\ MaxChat \in Nat
           /\ before \in [chat : 0..MaxChat, open : BOOLEAN, steady : BOOLEAN]
           /\ before.chat \in 0..MaxChat /\ before.open \in BOOLEAN /\ before.steady \in BOOLEAN
           /\ disturbed \in BOOLEAN /\ opened \in BOOLEAN
<1>1. chat \in 1..MaxChat /\ MaxChat \in Nat /\ disturbed \in BOOLEAN /\ opened \in BOOLEAN
      /\ before \in [chat : 0..MaxChat, open : BOOLEAN, steady : BOOLEAN]
  BY WorkforceAssumption DEF Window!TypeOK
<1> QED
  BY <1>1

LEMMA WindowFound ==
    ASSUME NEW missed
    PROVE  /\ Window!Found(missed) \in [Window!Units -> {"active", "inactive", ""}]
           /\ Window!Found(missed) # Window!NoState
           /\ \A u \in Window!Units : Window!Found(missed)[u] = "active" <=> u \in on \ missed
<1>1. Window!Found(missed) \in [Window!Units -> {"active", "inactive", ""}]
  BY DEF Window!Found
<1>2. \A u \in Window!Units : Window!Found(missed)[u] = "active" <=> u \in on \ missed
  BY DEF Window!Found
<1>3. "restart" \in Window!Units /\ Window!Found(missed)["restart"] # "none" /\ Window!NoState["restart"] = "none"
  BY <1>1, WindowValues
<1> QED
  BY <1>1, <1>2, <1>3

LEMMA WindowTypes == ASSUME Window!TypeOK, Window!Next PROVE Window!TypeOK'
<1> USE DEF Window!TypeOK, Window!windowVars, Window!stampVars, Window!Steps
<1>1. ASSUME NEW u \in Window!Perturbers, Window!TimerFires(u) PROVE Window!TypeOK'
  BY <1>1 DEF Window!TimerFires
<1>2. ASSUME NEW u \in Window!Perturbers, Window!JobEnds(u) PROVE Window!TypeOK'
  <2>1. chat' \in 1..MaxChat
    <3> HIDE DEF Window!TypeOK
    <3> QED BY <1>2, WindowCounts DEF Window!JobEnds
  <2>2. /\ jobs' \subseteq jobs /\ disturbed' \in BOOLEAN
        /\ UNCHANGED <<on, saved, opened, found, at, before, run>>
    BY <1>2 DEF Window!JobEnds
  <2> QED BY <2>1, <2>2
<1>3. CASE Window!OwnerSets \/ Window!Open \/ Window!StopPerturbers \/ Window!Close
  BY <1>3, WindowValues DEF Window!OwnerSets, Window!Open, Window!StopPerturbers, Window!Close
<1>4. CASE Window!Boots
  <2>1. chat' \in 1..MaxChat /\ before' \in [chat : 0..MaxChat, open : BOOLEAN, steady : BOOLEAN]
    <3> HIDE DEF Window!TypeOK
    <3>1. chat < MaxChat /\ chat' = chat + 1 /\ before' = [before EXCEPT !.steady = FALSE]
      BY <1>4 DEF Window!Boots
    <3>2. chat' \in 1..MaxChat
      BY <3>1, WindowCounts
    <3>3. before \in [chat : 0..MaxChat, open : BOOLEAN, steady : BOOLEAN]
      BY WindowCounts
    <3> QED BY <3>1, <3>2, <3>3
  <2> QED BY <1>4, <2>1, WindowValues DEF Window!Boots
<1>5. CASE Window!Save
  <2>1. saved' \in [Window!Units -> {"active", "inactive", ""}] /\ found' \subseteq Window!Units
    <3>1. PICK missed \in SUBSET Window!InGuest : saved' = Window!Found(missed) /\ found' = on \ missed
      BY <1>5 DEF Window!Save
    <3> QED BY <3>1, WindowFound
  <2> QED BY <1>5, <2>1 DEF Window!Save
<1>6. CASE Window!Check
  BY <1>6, WindowValues DEF Window!Check
<1>7. CASE Window!RestoreGuest \/ Window!RestoreHost
  <2>1. on' \subseteq Window!Units
    BY <1>7, WindowValues DEF Window!RestoreGuest, Window!RestoreHost, Window!Wanted
  <2>2. /\ at' \in {at, "host", "wait"}
        /\ UNCHANGED <<jobs, chat, saved, opened, found, before, disturbed, run>>
    <3> HIDE DEF Window!TypeOK
    <3> QED BY <1>7 DEF Window!RestoreGuest, Window!RestoreHost, Window!Steps
  <2>3. /\ jobs' \subseteq Window!Perturbers /\ chat' \in 1..MaxChat /\ found' \subseteq Window!Units
        /\ opened' \in BOOLEAN /\ disturbed' \in BOOLEAN
        /\ at' \in {"idle", "save", "stop", "check", "guest", "host", "wait"}
    BY <2>2
  <2>4. /\ saved' \in {Window!NoState} \cup [Window!Units -> {"active", "inactive", ""}]
        /\ before' \in [chat : 0..MaxChat, open : BOOLEAN, steady : BOOLEAN]
        /\ run' \in [valid : BOOLEAN, steady : BOOLEAN, disturbed : BOOLEAN]
    BY <2>2
  <2> QED BY <2>1, <2>3, <2>4
<1>8. CASE Window!Closed
  BY <1>8 DEF Window!Closed
<1>9. CASE Window!Ends
  BY <1>9, WindowValues DEF Window!Ends, Window!Wanted
<1>10. CASE Window!StampBefore
  <2>1. before' \in [chat : 0..MaxChat, open : BOOLEAN, steady : BOOLEAN]
    <3> HIDE DEF Window!TypeOK
    <3> QED BY <1>10, WindowCounts, WindowValues DEF Window!StampBefore
  <2>2. UNCHANGED <<on, jobs, chat, saved, at, opened, found, run>>
    BY <1>10 DEF Window!StampBefore
  <2>3. disturbed' \in BOOLEAN
    BY <1>10 DEF Window!StampBefore
  <2> HIDE <1>10
  <2> QED BY <2>1, <2>2, <2>3
<1>11. CASE Window!StampAfter
  <2>1. before' \in [chat : 0..MaxChat, open : BOOLEAN, steady : BOOLEAN]
    <3> HIDE DEF Window!TypeOK
    <3> QED BY <1>11, WindowCounts, WindowValues DEF Window!StampAfter, Window!NoStamp
  <2>2. run' \in [valid : BOOLEAN, steady : BOOLEAN, disturbed : BOOLEAN]
    BY <1>11 DEF Window!StampAfter
  <2> QED BY <1>11, <2>1, <2>2 DEF Window!StampAfter
<1> QED
  BY <1>1, <1>2, <1>3, <1>4, <1>5, <1>6, <1>7, <1>8, <1>9, <1>10, <1>11 DEF Window!Next

LEMMA WindowKeptStep == ASSUME Window!TypeOK, WindowKept, Window!Next PROVE WindowKept'
<1> USE DEF Window!TypeOK, WindowKept, Window!windowVars, Window!stampVars, Window!Steps
<1>0. UNCHANGED <<Window!NoState, Window!Units, Window!InGuest>>
  BY DEF Window!NoState, Window!Units, Window!InGuest
<1>1. ASSUME NEW u \in Window!Perturbers, Window!TimerFires(u) \/ Window!JobEnds(u) PROVE WindowKept'
  BY <1>0, <1>1 DEF Window!TimerFires, Window!JobEnds
<1>2. CASE Window!OwnerSets \/ Window!Open \/ Window!StopPerturbers \/ Window!Check \/ Window!Close
  BY <1>0, <1>2 DEF Window!OwnerSets, Window!Open, Window!StopPerturbers, Window!Check, Window!Close
<1>3. CASE Window!Boots
  BY <1>0, <1>3 DEF Window!Boots
<1>4. CASE Window!Save
  <2>1. PICK missed \in SUBSET Window!InGuest : saved' = Window!Found(missed) /\ found' = on \ missed
    BY <1>4 DEF Window!Save
  <2>2. saved' # Window!NoState /\ \A u \in Window!Units : saved'[u] = "active" <=> u \in found'
    BY <2>1, WindowFound
  <2> QED BY <1>0, <1>4, <2>2 DEF Window!Save
<1>5. CASE Window!RestoreGuest
  <2>1. \A u \in Window!InGuest : u \in on' <=> u \in found
    BY <1>5, WindowValues DEF Window!RestoreGuest, Window!Wanted
  <2> QED BY <1>0, <1>5, <2>1 DEF Window!RestoreGuest
<1>6. CASE Window!RestoreHost
  <2>1. saved # Window!NoState /\ on \cap Window!InGuest = found \cap Window!InGuest
    BY <1>6 DEF Window!RestoreHost
  <2>2. \A u \in Window!Units : u \in on' <=> u \in found
    BY <1>6, <2>1, WindowValues DEF Window!RestoreHost, Window!Wanted
  <2>3. on' = found
    <3>1. on' \subseteq Window!Units
      BY <1>6 DEF Window!RestoreHost, Window!Wanted
    <3> QED BY <2>2, <3>1
  <2> QED BY <1>0, <1>6, <2>3 DEF Window!RestoreHost
<1>7. CASE Window!Closed \/ Window!Ends
  BY <1>0, <1>7 DEF Window!Closed, Window!Ends
<1>8. CASE Window!StampBefore \/ Window!StampAfter
  BY <1>0, <1>8 DEF Window!StampBefore, Window!StampAfter
<1> QED
  BY <1>1, <1>2, <1>3, <1>4, <1>5, <1>6, <1>7, <1>8 DEF Window!Next

LEMMA WindowSteadyStep ==
    ASSUME Window!TypeOK, WindowKept, WindowSteady, Window!ValidIsUndisturbed, Window!Next
    PROVE  WindowSteady' /\ Window!ValidIsUndisturbed'
<1> USE DEF WindowSteady, Window!ValidIsUndisturbed, Window!windowVars, Window!stampVars,
            Window!Steps
<1>0. UNCHANGED Window!NoState
  BY DEF Window!NoState
<1>1. ASSUME NEW u \in Window!Perturbers, Window!TimerFires(u)
      PROVE  WindowSteady' /\ Window!ValidIsUndisturbed'
  BY <1>0, <1>1, WindowCounts, WindowValues DEF Window!TimerFires
<1>2. ASSUME NEW u \in Window!Perturbers, Window!JobEnds(u)
      PROVE  WindowSteady' /\ Window!ValidIsUndisturbed'
  BY <1>0, <1>2, WindowCounts, WindowValues DEF Window!JobEnds
<1>3. CASE Window!OwnerSets \/ Window!Open \/ Window!Save \/ Window!StopPerturbers
  BY <1>0, <1>3, WindowCounts DEF Window!OwnerSets, Window!Open, Window!Save, Window!StopPerturbers
<1>4. CASE Window!Boots \/ Window!Close
  BY <1>0, <1>4, WindowCounts, WindowValues DEF Window!Boots, Window!Close
<1>5. CASE Window!Check
  BY <1>0, <1>5, WindowCounts, WindowValues DEF Window!Check, WindowKept
<1>6. CASE Window!RestoreGuest \/ Window!RestoreHost \/ Window!Closed \/ Window!Ends
  BY <1>0, <1>6, WindowCounts DEF Window!RestoreGuest, Window!RestoreHost, Window!Closed, Window!Ends
<1>7. CASE Window!StampBefore
  <2>1. /\ before'.chat = chat /\ (before'.steady <=> opened) /\ (disturbed' <=> "refresh" \in jobs)
        /\ UNCHANGED <<on, jobs, chat, saved, at, opened, run>>
    BY <1>7 DEF Window!StampBefore
  <2> QED BY <1>0, <2>1, WindowCounts
<1>8. CASE Window!StampAfter
  <2>1. /\ run'.valid => before.chat = chat
        /\ (run'.steady <=> before.steady) /\ (run'.disturbed <=> disturbed)
        /\ before' = Window!NoStamp /\ disturbed' = FALSE
        /\ UNCHANGED <<on, jobs, chat, saved, at, opened>>
    BY <1>8 DEF Window!StampAfter
  <2> QED BY <1>0, <2>1, WindowCounts, WindowValues
<1> QED
  BY <1>1, <1>2, <1>3, <1>4, <1>5, <1>6, <1>7, <1>8 DEF Window!Next

LEMMA WindowStarts == Window!Init => WindowInv
<1> SUFFICES ASSUME Window!Init PROVE WindowInv
  OBVIOUS
<1>1. Window!TypeOK
  <2>1. 1 \in 1..MaxChat /\ Window!NoStamp \in [chat : 0..MaxChat, open : BOOLEAN, steady : BOOLEAN]
    BY WindowValues DEF Window!NoStamp
  <2> QED BY <2>1 DEF Window!Init, Window!TypeOK
<1>2. WindowKept /\ Window!ValidIsUndisturbed
  BY DEF Window!Init, WindowKept, Window!ValidIsUndisturbed
<1>3. WindowSteady
  BY WindowValues DEF Window!Init, WindowSteady
<1> QED
  BY <1>1, <1>2, <1>3 DEF WindowInv

LEMMA WindowGoesOn == WindowInv /\ Window!Next => WindowInv'
BY WindowTypes, WindowKeptStep, WindowSteadyStep DEF WindowInv

LEMMA WindowHolds == WindowInv => Window!PutBack /\ Window!ValidIsUndisturbed
BY DEF WindowInv, WindowKept, Window!PutBack

-----------------------------------------------------------------------------
(* The loop metric.                                                        *)

\* The least-number principle, from the well-foundedness of finite sets under
\* strict inclusion; and induction over a set of naturals.
LEMMA Least ==
    ASSUME NEW T \in SUBSET Nat, T # {}
    PROVE  \E m \in T : \A k \in T : m <= k
<1> DEFINE F == {1 .. k : k \in T}
<1>1. F \subseteq FiniteSubsetsOf(Nat)
  BY FS_Interval DEF FiniteSubsetsOf
<1>2. F # {}
  OBVIOUS
<1>3. PICK x \in F : \A y \in F : <<y, x>> \notin StrictSubsetOrdering(Nat)
  <2> HIDE DEF F
  <2> QED BY <1>1, <1>2, WFMin, FS_StrictSubsetOrderingWellFounded
<1>4. PICK m \in T : x = 1 .. m
  OBVIOUS
<1>5. ASSUME NEW k \in T, k < m PROVE FALSE
  <2>1. 1 .. k \subseteq 1 .. m /\ 1 .. k # 1 .. m
    BY <1>5
  <2>2. <<1 .. k, x>> \in StrictSubsetOrdering(Nat)
    BY <2>1, <1>4 DEF StrictSubsetOrdering
  <2> QED BY <2>2, <1>3
<1> QED
  BY <1>5

LEMMA Induction ==
    ASSUME NEW T, 0 \in T, \A k \in Nat : k \in T => k + 1 \in T
    PROVE  \A n \in Nat : n \in T
<1> SUFFICES ASSUME Nat \ T # {} PROVE FALSE
  OBVIOUS
<1>1. PICK m \in Nat \ T : \A k \in Nat \ T : m <= k
  BY Least
<1>2. m - 1 \in Nat /\ m - 1 \in T
  BY <1>1
<1> QED
  BY <1>1, <1>2

LEMMA Division ==
    ASSUME NEW p \in Nat \ {0}
    PROVE  \A k \in Nat : \E m, r \in Nat : k = m * p + r /\ r < p
<1> DEFINE T == {k \in Nat : \E m, r \in Nat : k = m * p + r /\ r < p}
<1>1. 0 \in T
  <2>1. 0 = 0 * p + 0 /\ 0 < p
    OBVIOUS
  <2> QED BY <2>1
<1>2. ASSUME NEW k \in Nat, k \in T PROVE k + 1 \in T
  <2>1. PICK m \in Nat, r \in Nat : k = m * p + r /\ r < p
    BY <1>2
  <2>2. m * p \in Nat /\ (m + 1) * p = m * p + p
    OBVIOUS
  <2>3. CASE r + 1 < p
    <3>1. k + 1 = m * p + (r + 1) /\ r + 1 \in Nat
      BY <2>1, <2>2
    <3> QED BY <2>3, <3>1
  <2>4. CASE ~(r + 1 < p)
    <3>1. r + 1 = p
      BY <2>1, <2>4
    <3>2. k + 1 = m * p + p
      BY <2>1, <2>2, <3>1
    <3>3. k + 1 = (m + 1) * p + 0 /\ m + 1 \in Nat /\ 0 < p
      BY <2>2, <3>2
    <3>4. \E x, y \in Nat : k + 1 = x * p + y /\ y < p
      <4> WITNESS m + 1 \in Nat, 0 \in Nat
      <4> QED BY <3>3
    <3> QED BY <3>4
  <2> QED BY <2>3, <2>4
<1>3. \A k \in Nat : k \in T
  <2> HIDE DEF T
  <2> QED BY <1>1, <1>2, Induction
<1> QED
  BY <1>3

LEMMA Multiples ==
    ASSUME NEW p \in Nat \ {0}, NEW m \in Nat, NEW n \in Nat
    PROVE  /\ m * p \in Nat /\ (m + 1) * p = m * p + p /\ 1 * p = p /\ 0 * p = 0
           /\ m <= n => m * p <= n * p
           /\ m < n => m * p + p <= n * p
           /\ m <= m * p
<1>1. m * p \in Nat /\ n * p \in Nat /\ (m + 1) * p = m * p + p /\ 1 * p = p /\ 0 * p = 0
  OBVIOUS
<1>2. m <= n => m * p <= n * p
  OBVIOUS
<1>3. ASSUME m < n PROVE m * p + p <= n * p
  <2>1. m + 1 <= n /\ m + 1 \in Nat
    BY <1>3
  <2>2. (m + 1) * p <= n * p
    BY <2>1
  <2> QED BY <1>1, <2>2
<1>4. m <= m * p
  OBVIOUS
<1> QED
  BY <1>1, <1>2, <1>3, <1>4

-----------------------------------------------------------------------------
(* Blocks of keys, and how often one is repeated.                          *)

LEMMA LoopValues ==
    ASSUME keys \in Sessions
    PROVE  /\ keys \in Seq(Range(keys)) /\ Len(keys) \in Nat
           /\ MinReps \in Nat \ {0} /\ MaxPeriod \in Nat
BY WorkforceAssumption

LEMMA SliceIs ==
    ASSUME keys \in Sessions, NEW a \in Nat \ {0}, NEW p \in Nat \ {0}
    PROVE  /\ a + p - 1 <= Len(keys) =>
                 Loops!Slice(a, p) = [r \in 1..p |-> keys[a + r - 1]]
           /\ ~(a + p - 1 <= Len(keys)) => DOMAIN Loops!Slice(a, p) # 1..p
<1> DEFINE e == IF a + p - 1 <= Len(keys) THEN a + p - 1 ELSE Len(keys)
<1>1. e \in Nat /\ Loops!Slice(a, p) = SubSeq(keys, a, e)
  BY LoopValues DEF Loops!Slice
<1>2. \A x \in a..e : keys[x] \in Range(keys)
  <2>1. \A x \in 1..Len(keys) : keys[x] \in Range(keys)
    BY LoopValues
  <2> QED BY <2>1, LoopValues
<1>3. /\ SubSeq(keys, a, e) \in Seq(Range(keys))
      /\ Len(SubSeq(keys, a, e)) = IF a <= e THEN e - a + 1 ELSE 0
      /\ \A r \in 1..e - a + 1 : SubSeq(keys, a, e)[r] = keys[a + r - 1]
  <2> HIDE DEF e
  <2>1. a \in Int /\ e \in Int
    BY <1>1
  <2> QED BY <1>2, <2>1, SubSeqProperties
<1>4. ASSUME a + p - 1 <= Len(keys) PROVE Loops!Slice(a, p) = [r \in 1..p |-> keys[a + r - 1]]
  <2>1. e - a + 1 = p /\ a <= e
    BY <1>4, LoopValues
  <2> HIDE DEF e
  <2>2. Len(SubSeq(keys, a, e)) = p /\ \A r \in 1..p : SubSeq(keys, a, e)[r] = keys[a + r - 1]
    BY <1>3, <2>1
  <2>3. SubSeq(keys, a, e) = [r \in 1..p |-> SubSeq(keys, a, e)[r]]
    BY <1>3, <2>2
  <2> QED BY <1>1, <2>2, <2>3
<1>5. ASSUME ~(a + p - 1 <= Len(keys)) PROVE DOMAIN Loops!Slice(a, p) # 1..p
  <2>1. Len(SubSeq(keys, a, e)) < p /\ Len(SubSeq(keys, a, e)) \in Nat
    BY <1>3, <1>5, LoopValues
  <2> HIDE DEF e
  <2> DEFINE L == Len(SubSeq(keys, a, e))
  <2>2. DOMAIN SubSeq(keys, a, e) = 1..L
    BY <1>3
  <2>3. DOMAIN Loops!Slice(a, p) = 1..L /\ L \in Nat /\ L < p
    BY <1>1, <2>1, <2>2
  <2> HIDE DEF L
  <2>4. p \in 1..p /\ p \notin 1..L
    BY <2>3
  <2> QED BY <2>3, <2>4
<1> QED
  BY <1>4, <1>5

\* The block at b is the one at j, which is whole.
LEMMA SliceSame ==
    ASSUME keys \in Sessions, NEW j \in Nat \ {0}, NEW b \in Nat \ {0}, NEW p \in Nat \ {0},
           j + p - 1 <= Len(keys)
    PROVE  Loops!Slice(b, p) = Loops!Slice(j, p) <=>
               b + p - 1 <= Len(keys) /\ \A r \in 0..p - 1 : keys[b + r] = keys[j + r]
<1> DEFINE S(x) == [r \in 1..p |-> keys[x + r - 1]]
<1>1. Loops!Slice(j, p) = S(j) /\ DOMAIN Loops!Slice(j, p) = 1..p
  BY SliceIs
<1>2. ASSUME ~(b + p - 1 <= Len(keys)) PROVE Loops!Slice(b, p) # Loops!Slice(j, p)
  BY <1>1, <1>2, SliceIs
<1>3. ASSUME b + p - 1 <= Len(keys)
      PROVE  Loops!Slice(b, p) = Loops!Slice(j, p) <=> \A r \in 0..p - 1 : keys[b + r] = keys[j + r]
  <2>1. Loops!Slice(b, p) = S(b)
    BY <1>3, SliceIs
  <2>2. ASSUME S(b) = S(j), NEW r \in 0..p - 1 PROVE keys[b + r] = keys[j + r]
    <3>1. r + 1 \in 1..p /\ b + (r + 1) - 1 = b + r /\ j + (r + 1) - 1 = j + r
      OBVIOUS
    <3>2. S(b)[r + 1] = keys[b + (r + 1) - 1] /\ S(j)[r + 1] = keys[j + (r + 1) - 1]
      BY <3>1
    <3> QED BY <2>2, <3>1, <3>2
  <2>3. ASSUME \A r \in 0..p - 1 : keys[b + r] = keys[j + r] PROVE S(b) = S(j)
    <3>1. ASSUME NEW r \in 1..p PROVE keys[b + r - 1] = keys[j + r - 1]
      <4>1. r - 1 \in 0..p - 1 /\ b + (r - 1) = b + r - 1 /\ j + (r - 1) = j + r - 1
        OBVIOUS
      <4> QED BY <2>3, <4>1
    <3> QED BY <3>1
  <2> HIDE DEF S
  <2> QED BY <1>1, <2>1, <2>2, <2>3
<1> QED
  BY <1>2, <1>3

LEMMA SameIs ==
    ASSUME keys \in Sessions, NEW j \in Nat \ {0}, NEW p \in Nat \ {0}, NEW n \in Nat,
           j + p - 1 <= Len(keys)
    PROVE  Loops!Same(j, n, p) <=>
               j + n * p + p - 1 <= Len(keys) /\ \A r \in 0..p - 1 : keys[j + n * p + r] = keys[j + r]
<1>1. n * p \in Nat
  OBVIOUS
<1>2. j + n * p \in Nat \ {0}
  BY <1>1
<1> QED
  BY <1>2, SliceSame DEF Loops!Same

LEMMA RepsIs ==
    ASSUME keys \in Sessions, NEW j \in Nat \ {0}, NEW p \in Nat \ {0}, j + p - 1 <= Len(keys)
    PROVE  /\ Loops!Reps(j, p) \in 1..Len(keys) /\ ~Loops!Same(j, Loops!Reps(j, p), p)
           /\ \A m \in 1..Loops!Reps(j, p) - 1 : Loops!Same(j, m, p)
<1> DEFINE T == {n \in Nat : n >= 1 /\ ~Loops!Same(j, n, p)}
<1>1. Len(keys) \in T
  <2>1. Len(keys) <= Len(keys) * p /\ Len(keys) * p \in Nat /\ Len(keys) \in Nat
    BY LoopValues, Multiples
  <2>2. ~(j + Len(keys) * p + p - 1 <= Len(keys)) /\ Len(keys) >= 1
    BY <2>1
  <2> QED BY <2>1, <2>2, SameIs
<1>2. PICK n \in T : \A k \in T : n <= k
  <2>1. T \in SUBSET Nat /\ T # {}
    BY <1>1
  <2> HIDE DEF T
  <2> QED BY <2>1, Least
<1>3. n \in 1..Len(keys) /\ ~Loops!Same(j, n, p)
  BY <1>1, <1>2, LoopValues
<1>4. \A m \in 1..n - 1 : Loops!Same(j, m, p)
  BY <1>2
<1> QED
  BY <1>3, <1>4 DEF Loops!Reps

\* An episode ends in the session.
LEMMA RepsEnd ==
    ASSUME keys \in Sessions, NEW j \in Nat \ {0}, NEW p \in Nat \ {0}, j + p - 1 <= Len(keys)
    PROVE  /\ Loops!Reps(j, p) * p \in Nat \ {0} /\ Loops!Reps(j, p) \in Nat \ {0}
           /\ j + Loops!Reps(j, p) * p - 1 <= Len(keys)
<1> DEFINE R == Loops!Reps(j, p)
<1>1. R \in 1..Len(keys) /\ \A m \in 1..R - 1 : Loops!Same(j, m, p)
  BY RepsIs
<1>2. R \in Nat \ {0}
  BY <1>1, LoopValues
<1>3. CASE R = 1
  BY <1>2, <1>3, Multiples
<1>4. CASE R # 1
  <2>1. R - 1 \in 1..R - 1 /\ R - 1 \in Nat
    BY <1>2, <1>4
  <2>2. Loops!Same(j, R - 1, p)
    BY <1>1, <2>1
  <2>3. j + (R - 1) * p + p - 1 <= Len(keys)
    BY <2>1, <2>2, SameIs
  <2>4. (R - 1) * p \in Nat /\ ((R - 1) + 1) * p = (R - 1) * p + p
    BY <2>1, Multiples
  <2>5. (R - 1) + 1 = R
    BY <1>2
  <2> HIDE DEF R
  <2>6. R * p = (R - 1) * p + p
    BY <2>4, <2>5
  <2> DEFINE a == (R - 1) * p
             b == R * p
  <2>7. a \in Nat /\ b = a + p /\ j + a + p - 1 <= Len(keys) /\ Len(keys) \in Nat
    BY <2>3, <2>4, <2>6, LoopValues
  <2> HIDE DEF a, b
  <2>8. b \in Nat \ {0} /\ j + b - 1 <= Len(keys)
    BY <2>7
  <2> QED BY <1>2, <2>8 DEF b, R
<1> QED
  BY <1>3, <1>4

-----------------------------------------------------------------------------
(* What the scan counts is a loop, and no loop is passed over.             *)

LEMMA RepeatsIsLoop ==
    ASSUME keys \in Sessions, NEW j \in Nat \ {0}, NEW p \in Nat \ {0}, Loops!Repeats(j, p)
    PROVE  Loops!IsLoop(j, p)
<1> DEFINE R == Loops!Reps(j, p)
<1>1. /\ j + p - 1 <= Len(keys) /\ MinReps <= R /\ R \in Nat \ {0} /\ MinReps \in Nat \ {0}
      /\ R * p \in Nat /\ j + R * p - 1 <= Len(keys) /\ Len(keys) \in Nat
  BY RepsEnd, LoopValues DEF Loops!Repeats
<1>2. \A m \in 1..R - 1 : Loops!Same(j, m, p)
  BY <1>1, RepsIs
<1> HIDE DEF R
<1>3. MinReps * p \in Nat /\ MinReps * p <= R * p
  BY <1>1, Multiples
<1>4. ASSUME NEW m \in Nat, m <= MinReps - 1, NEW r \in 0..p - 1 PROVE keys[j + m * p + r] = keys[j + r]
  <2>1. CASE m = 0
    BY <2>1
  <2>2. CASE m # 0
    <3>1. m \in 1..R - 1
      BY <1>1, <1>4, <2>2
    <3> QED BY <3>1, <1>1, <1>2, SameIs
  <2> QED BY <2>1, <2>2
<1>5. ASSUME NEW k \in 0..(MinReps - 1) * p - 1 PROVE keys[j + k] = keys[j + k + p]
  <2>1. MinReps - 1 \in Nat /\ (MinReps - 1) * p \in Nat
    BY <1>1
  <2>2. k \in Nat /\ k < (MinReps - 1) * p
    BY <1>5, <2>1
  <2>3. PICK m \in Nat, r \in Nat : k = m * p + r /\ r < p
    BY <2>2, Division
  <2>4. m * p \in Nat /\ (m + 1) * p = m * p + p /\ m + 1 \in Nat
    BY Multiples
  <2>5. m < MinReps - 1
    <3>1. SUFFICES ASSUME MinReps - 1 <= m PROVE FALSE
      BY <2>1
    <3>2. (MinReps - 1) * p <= m * p
      BY <3>1, <2>1, Multiples
    <3> QED BY <2>1, <2>2, <2>3, <2>4, <3>2
  <2>6. r \in 0..p - 1 /\ m <= MinReps - 1 /\ m + 1 <= MinReps - 1
    BY <2>1, <2>3, <2>5
  <2>7. keys[j + m * p + r] = keys[j + r] /\ keys[j + (m + 1) * p + r] = keys[j + r]
    BY <1>4, <2>4, <2>6
  <2>8. j + k = j + m * p + r /\ j + k + p = j + (m + 1) * p + r
    BY <2>3, <2>4
  <2> QED BY <2>7, <2>8
<1> QED
  BY <1>1, <1>3, <1>5 DEF Loops!IsLoop

LEMMA LoopRepeats ==
    ASSUME keys \in Sessions, NEW a \in Nat \ {0}, NEW p \in Nat \ {0}, Loops!IsLoop(a, p)
    PROVE  Loops!Repeats(a, p)
<1>1. MinReps \in Nat \ {0} /\ Len(keys) \in Nat
  BY LoopValues
<1>2. /\ MinReps * p \in Nat /\ p <= MinReps * p /\ a + MinReps * p - 1 <= Len(keys)
      /\ \A k \in 0..(MinReps - 1) * p - 1 : keys[a + k] = keys[a + k + p]
  <2>1. 1 * p <= MinReps * p /\ 1 * p = p /\ MinReps * p \in Nat
    BY <1>1, Multiples
  <2> QED BY <2>1 DEF Loops!IsLoop
<1>3. a + p - 1 <= Len(keys)
  BY <1>1, <1>2
<1>4. ASSUME NEW r \in 0..p - 1
      PROVE  \A n \in Nat : n < MinReps => keys[a + n * p + r] = keys[a + r]
  <2> DEFINE T == {n \in Nat : n < MinReps => keys[a + n * p + r] = keys[a + r]}
  <2>1. 0 \in T
    OBVIOUS
  <2>2. ASSUME NEW n \in Nat, n \in T PROVE n + 1 \in T
    <3> SUFFICES ASSUME n + 1 < MinReps PROVE keys[a + (n + 1) * p + r] = keys[a + r]
      OBVIOUS
    <3>1. keys[a + n * p + r] = keys[a + r]
      BY <2>2, <1>1
    <3>2. n * p \in Nat /\ (n + 1) * p = n * p + p /\ n < MinReps - 1 /\ MinReps - 1 \in Nat
      BY <1>1, Multiples
    <3>3. n * p + p <= (MinReps - 1) * p /\ (MinReps - 1) * p \in Nat
      BY <3>2, Multiples
    <3>4. n * p + r \in 0..(MinReps - 1) * p - 1
      BY <3>2, <3>3
    <3>5. keys[a + (n * p + r)] = keys[a + (n * p + r) + p]
      BY <1>2, <3>4
    <3>6. a + (n * p + r) = a + n * p + r /\ a + (n * p + r) + p = a + (n + 1) * p + r
      BY <3>2
    <3> QED BY <3>1, <3>5, <3>6
  <2>3. \A n \in Nat : n \in T
    <3> HIDE DEF T
    <3> QED BY <2>1, <2>2, Induction
  <2> QED BY <2>3
<1>5. ASSUME Loops!Reps(a, p) < MinReps PROVE FALSE
  <2> DEFINE R == Loops!Reps(a, p)
  <2>1. R \in Nat /\ ~Loops!Same(a, R, p)
    BY <1>3, RepsIs, RepsEnd
  <2>2. R * p \in Nat /\ R * p + p <= MinReps * p
    <3> HIDE DEF R
    <3> QED BY <1>1, <1>5, <2>1, Multiples DEF R
  <2>3. a + R * p + p - 1 <= Len(keys)
    BY <1>1, <1>2, <2>2
  <2>4. \A r \in 0..p - 1 : keys[a + R * p + r] = keys[a + r]
    BY <1>4, <1>5, <2>1
  <2> QED BY <1>3, <2>1, <2>3, <2>4, SameIs
<1> QED
  BY <1>1, <1>3, <1>5, RepsEnd DEF Loops!Repeats

-----------------------------------------------------------------------------
(* The scan.                                                               *)

Episodes == [start : 1..Len(keys), length : 1..Len(keys), period : 1..MaxPeriod]

LoopsInv ==
    /\ keys \in Sessions /\ i \in 1..Len(keys) + 1 /\ out \in Seq(Episodes)
    /\ \A n \in 1..Len(out) : Loops!IsLoop(out[n].start, out[n].period) /\ out[n].start + out[n].length <= i
    /\ \A n \in 1..Len(out) - 1 : out[n].start + out[n].length <= out[n + 1].start
    /\ \A a \in 1..i - 1 : Loops!Covered(a) \/ \A p \in 1..MaxPeriod : ~Loops!Repeats(a, p)

LEMMA LoopsStart == Loops!Init => LoopsInv
<1> SUFFICES ASSUME Loops!Init PROVE LoopsInv
  OBVIOUS
<1>1. keys \in Sessions /\ i = 1 /\ out = <<>> /\ Len(keys) \in Nat
  BY LoopValues DEF Loops!Init
<1>2. out \in Seq(Episodes) /\ Len(out) = 0
  BY <1>1
<1>3. i \in 1..Len(keys) + 1 /\ 1..i - 1 = {} /\ 1..Len(out) = {} /\ 1..Len(out) - 1 = {}
  BY <1>1, <1>2
<1> QED
  BY <1>1, <1>2, <1>3 DEF LoopsInv

LEMMA LoopsSame ==
    ASSUME keys' = keys
    PROVE  /\ \A j, p : Loops!Repeats(j, p)' <=> Loops!Repeats(j, p)
           /\ \A a, p : Loops!IsLoop(a, p)' <=> Loops!IsLoop(a, p)
           /\ Episodes' = Episodes
BY DEF Loops!Repeats, Loops!Reps, Loops!Same, Loops!Slice, Loops!IsLoop, Episodes

LEMMA EpisodeIs ==
    ASSUME out \in Seq(Episodes), Len(keys) \in Nat, NEW n \in 1..Len(out)
    PROVE  /\ out[n] \in Episodes /\ out[n].start \in 1..Len(keys) /\ out[n].length \in 1..Len(keys)
           /\ out[n].start \in Nat /\ out[n].length \in Nat
<1>1. out[n] \in Episodes
  OBVIOUS
<1>2. out[n].start \in 1..Len(keys) /\ out[n].length \in 1..Len(keys)
  BY <1>1 DEF Episodes
<1> QED
  BY <1>1, <1>2

LEMMA LoopsFound ==
    ASSUME LoopsInv, i <= Len(keys), keys' = keys, NEW p \in 1..MaxPeriod, Loops!Found(p)
    PROVE  LoopsInv'
<1> DEFINE e == [start |-> i, length |-> Loops!Reps(i, p) * p, period |-> p]
<1>1. /\ keys \in Sessions /\ i \in Nat \ {0} /\ p \in Nat \ {0} /\ out \in Seq(Episodes)
      /\ Len(keys) \in Nat /\ Loops!Repeats(i, p) /\ out' = Append(out, e) /\ i' = i + e.length
  BY LoopValues DEF LoopsInv, Loops!Found
<1>2. e.length \in Nat \ {0} /\ i + e.length - 1 <= Len(keys)
  BY <1>1, RepsEnd DEF Loops!Repeats
<1>3. e \in Episodes
  <2>1. Loops!Reps(i, p) * p \in 1..Len(keys) /\ i \in 1..Len(keys)
    BY <1>1, <1>2
  <2> QED BY <2>1 DEF Episodes
<1>4. e.start = i /\ e.period = p
  OBVIOUS
<1> HIDE DEF e
<1>5. /\ out' \in Seq(Episodes) /\ Len(out') = Len(out) + 1 /\ out'[Len(out) + 1] = e /\ Len(out) \in Nat
      /\ \A n \in 1..Len(out) : out'[n] = out[n]
      /\ DOMAIN out = 1..Len(out) /\ DOMAIN out' = 1..Len(out) + 1
  BY <1>1, <1>3
<1>6. i' \in 1..Len(keys) + 1 /\ i < i'
  BY <1>1, <1>2
<1>7. ASSUME NEW n \in 1..Len(out) PROVE out[n].start \in Nat /\ out[n].length \in Nat
  BY <1>1, <1>7, EpisodeIs
<1>8. \A n \in 1..Len(out') : Loops!IsLoop(out'[n].start, out'[n].period) /\ out'[n].start + out'[n].length <= i'
  <2>1. ASSUME NEW n \in 1..Len(out)
        PROVE  Loops!IsLoop(out'[n].start, out'[n].period) /\ out'[n].start + out'[n].length <= i'
    BY <1>1, <1>5, <1>6, <1>7 DEF LoopsInv
  <2>2. Loops!IsLoop(e.start, e.period) /\ e.start + e.length <= i'
    BY <1>1, <1>2, <1>4, RepeatsIsLoop
  <2>3. \A n \in 1..Len(out') : n \in 1..Len(out) \/ n = Len(out) + 1
    BY <1>5
  <2> QED BY <2>1, <2>2, <2>3, <1>5
<1>9. \A n \in 1..Len(out') - 1 : out'[n].start + out'[n].length <= out'[n + 1].start
  <2> SUFFICES ASSUME NEW n \in 1..Len(out) PROVE out'[n].start + out'[n].length <= out'[n + 1].start
    BY <1>5
  <2>1. CASE n = Len(out)
    BY <2>1, <1>4, <1>5 DEF LoopsInv
  <2>2. CASE n # Len(out)
    <3>1. n \in 1..Len(out) - 1 /\ n + 1 \in 1..Len(out)
      <4>1. Len(out) \in Nat
        BY <1>5
      <4> QED BY <2>2, <4>1
    <3>2. out'[n] = out[n] /\ out'[n + 1] = out[n + 1]
      BY <3>1, <1>5
    <3> QED BY <3>1, <3>2 DEF LoopsInv
  <2> QED BY <2>1, <2>2
<1>10. ASSUME NEW a \in 1..i' - 1 PROVE Loops!Covered(a)' \/ \A q \in 1..MaxPeriod : ~Loops!Repeats(a, q)
  <2>1. CASE a < i
    <3>1. a \in 1..i - 1
      BY <2>1, <1>1, <1>10
    <3>2. Loops!Covered(a) => Loops!Covered(a)'
      BY <1>5 DEF Loops!Covered
    <3> QED BY <3>1, <3>2 DEF LoopsInv
  <2>2. CASE ~(a < i)
    <3>1. a \in e.start..e.start + e.length - 1
      BY <2>2, <1>1, <1>2, <1>4, <1>10
    <3>2. Len(out) + 1 \in DOMAIN out' /\ out'[Len(out) + 1] = e
      BY <1>5
    <3> QED BY <3>1, <3>2 DEF Loops!Covered
  <2> QED BY <2>1, <2>2
<1> QED
  BY <1>1, <1>5, <1>6, <1>8, <1>9, <1>10, LoopsSame DEF LoopsInv

LEMMA LoopsPass ==
    ASSUME LoopsInv, i <= Len(keys), keys' = keys, \A p \in 1..MaxPeriod : ~Loops!Repeats(i, p),
           i' = i + 1, out' = out
    PROVE  LoopsInv'
<1>1. keys \in Sessions /\ i \in Nat \ {0} /\ Len(keys) \in Nat /\ out \in Seq(Episodes)
  BY LoopValues DEF LoopsInv
<1>2. i' \in 1..Len(keys) + 1
  BY <1>1
<1>3. ASSUME NEW n \in 1..Len(out) PROVE out[n].start + out[n].length <= i'
  <2>1. out[n].start \in Nat /\ out[n].length \in Nat /\ out[n].start + out[n].length <= i
    BY <1>1, <1>3, EpisodeIs DEF LoopsInv
  <2> QED BY <1>1, <2>1
<1>4. ASSUME NEW a \in 1..i' - 1 PROVE Loops!Covered(a)' \/ \A p \in 1..MaxPeriod : ~Loops!Repeats(a, p)
  <2>1. Loops!Covered(a)' <=> Loops!Covered(a)
    BY DEF Loops!Covered
  <2>2. a = i \/ a \in 1..i - 1
    BY <1>1, <1>4
  <2> QED BY <2>1, <2>2 DEF LoopsInv
<1> QED
  BY <1>1, <1>2, <1>3, <1>4, LoopsSame DEF LoopsInv

LEMMA LoopsGoOn == LoopsInv /\ Loops!Next => LoopsInv'
BY LoopsFound, LoopsPass DEF Loops!Next, Loops!Scan

LEMMA LoopsHold == LoopsInv => Loops!TypeOK /\ Loops!LoopsAreFound
<1> SUFFICES ASSUME LoopsInv PROVE Loops!TypeOK /\ Loops!LoopsAreFound
  OBVIOUS
<1>1. /\ keys \in Sessions /\ i \in Nat \ {0} /\ Len(keys) \in Nat /\ out \in Seq(Episodes) /\ Len(out) \in Nat
      /\ DOMAIN out = 1..Len(out)
  BY LoopValues DEF LoopsInv
<1>2. Loops!TypeOK
  <2>1. \A n \in DOMAIN out : out[n] \in Episodes
    BY <1>1, EpisodeIs
  <2> QED BY <1>1, <2>1 DEF LoopsInv, Loops!TypeOK, Episodes
<1>3. ASSUME NEW n \in DOMAIN out
      PROVE  /\ Loops!IsLoop(out[n].start, out[n].period)
             /\ out[n].start + out[n].length <= IF n = Len(out) THEN i ELSE out[n + 1].start
  <2>1. CASE n = Len(out)
    BY <1>1, <1>3, <2>1 DEF LoopsInv
  <2>2. CASE n # Len(out)
    <3>1. n \in 1..Len(out) - 1
      BY <1>1, <1>3, <2>2
    <3> QED BY <1>1, <1>3, <2>2, <3>1 DEF LoopsInv
  <2> QED BY <2>1, <2>2
<1>4. ASSUME NEW a \in 1..Len(keys), NEW p \in 1..MaxPeriod, Loops!IsLoop(a, p), a + MinReps * p - 1 < i
      PROVE  \E x \in a..a + MinReps * p - 1 : Loops!Covered(x)
  <2>1. p \in Nat \ {0} /\ a \in Nat \ {0} /\ MinReps \in Nat \ {0} /\ MaxPeriod \in Nat
    BY <1>1, <1>4, LoopValues
  <2>2. Loops!Repeats(a, p)
    BY <1>1, <1>4, <2>1, LoopRepeats
  <2>3. MinReps <= MinReps * p /\ MinReps * p \in Nat
    BY <2>1, Multiples
  <2>4. a \in 1..i - 1 /\ a \in a..a + MinReps * p - 1
    BY <1>1, <1>4, <2>1, <2>3
  <2>5. Loops!Covered(a)
    BY <1>4, <2>2, <2>4 DEF LoopsInv
  <2> QED BY <2>4, <2>5
<1> QED
  BY <1>2, <1>3, <1>4 DEF Loops!LoopsAreFound

-----------------------------------------------------------------------------
(* The parts together.                                                     *)

\* What holds whichever part is looked at, and of that part.
WorkforceInv ==
    /\ part \in AllParts /\ IInv /\ Constructed
    /\ part = "plain" => PlainRun!IInv
    /\ part = "solo" => SoloRun!IInv
    /\ part = "grade" => GradeInv
    /\ part = "loops" => LoopsInv
    /\ part = "window" => WindowInv

LEMMA BoardSame ==
    ASSUME UNCHANGED boardVars
    PROVE  (PlainRun!IInv => PlainRun!IInv') /\ (SoloRun!IInv => SoloRun!IInv')
<1>1. UNCHANGED PlainRun!vars /\ UNCHANGED SoloRun!vars
  BY DEF boardVars, PlainRun!vars, SoloRun!vars
<1> QED
  BY <1>1, PlainAssumed, SoloAssumed, PlainRun!NextIInv, SoloRun!NextIInv

LEMMA GradeSame == GradeInv /\ UNCHANGED gradeVars => GradeInv'
<1> USE DEF gradeVars
<1>1. Grade!TypeOK /\ UNCHANGED gradeVars => Grade!TypeOK'
  BY DEF Grade!TypeOK
<1>2. GradePhases /\ UNCHANGED gradeVars => GradePhases'
  BY DEF GradePhases, Grade!HandsOff
<1>3. GradeDeclared /\ UNCHANGED gradeVars => GradeDeclared'
  BY DEF GradeDeclared, Grade!OnlyTheDeclaredLeaves, Declared
<1>4. Grade!TestsArePristine /\ UNCHANGED gradeVars => Grade!TestsArePristine'
  BY DEF Grade!TestsArePristine
<1>5. Grade!PassIsEarned /\ UNCHANGED gradeVars => Grade!PassIsEarned'
  BY DEF Grade!PassIsEarned, Grade!Tests
<1> QED
  BY <1>1, <1>2, <1>3, <1>4, <1>5 DEF GradeInv

LEMMA LoopsStay == LoopsInv /\ UNCHANGED loopVars => LoopsInv'
<1> SUFFICES ASSUME LoopsInv, UNCHANGED loopVars PROVE LoopsInv'
  OBVIOUS
<1>1. keys' = keys /\ i' = i /\ out' = out
  BY DEF loopVars
<1>2. \A a : Loops!Covered(a)' <=> Loops!Covered(a)
  BY <1>1 DEF Loops!Covered
<1> QED
  BY <1>1, <1>2, LoopsSame DEF LoopsInv

LEMMA WindowSame == WindowInv /\ UNCHANGED winVars => WindowInv'
<1> USE DEF winVars
<1>1. Window!TypeOK /\ UNCHANGED winVars => Window!TypeOK'
  BY DEF Window!TypeOK
<1>2. WindowKept /\ UNCHANGED winVars => WindowKept'
  BY DEF WindowKept
<1>3. WindowSteady /\ UNCHANGED winVars => WindowSteady'
  BY DEF WindowSteady
<1>4. Window!ValidIsUndisturbed /\ UNCHANGED winVars => Window!ValidIsUndisturbed'
  BY DEF Window!ValidIsUndisturbed
<1> QED
  BY <1>1, <1>2, <1>3, <1>4 DEF WindowInv

LEMMA PartsStart == PartsInit => WorkforceInv
<1> SUFFICES ASSUME PartsInit PROVE WorkforceInv
  OBVIOUS
<1>1. part \in AllParts /\ IInv /\ Constructed
  BY WorkforceAssumption, InitIInv DEF PartsInit, Init
<1>2. /\ part = "plain" => Plain!Init
      /\ part = "solo" => Solo!Init
      /\ part = "grade" => Grade!Init
      /\ part = "loops" => Loops!Init
      /\ part = "window" => Window!Init
  BY DEF PartsInit
<1> QED
  BY <1>1, <1>2, PlainHolds, SoloHolds, GradeStarts, LoopsStart, WindowStarts DEF WorkforceInv

LEMMA PartsGoOn == WorkforceInv /\ [PartsNext]_allVars => WorkforceInv'
<1> SUFFICES ASSUME WorkforceInv, [PartsNext]_allVars PROVE WorkforceInv'
  OBVIOUS
<1>1. Constructed' /\ part \in AllParts
  BY DEF WorkforceInv, Constructed
<1>2. UNCHANGED vars => IInv'
  BY NextIInv DEF WorkforceInv
<1>3. CASE InPool(Next)
  <2>1. part' = "pool" /\ IInv'
    BY <1>3, NextIInv DEF InPool, WorkforceInv
  <2> QED BY <1>1, <2>1 DEF WorkforceInv, AllParts, Runs
<1>4. CASE InPlain(Plain!Next)
  <2>1. part' = "plain" /\ PlainRun!IInv' /\ UNCHANGED vars
    BY <1>4, PlainHolds DEF InPlain, WorkforceInv
  <2> QED BY <1>1, <1>2, <2>1 DEF WorkforceInv, AllParts, Runs
<1>5. CASE InSolo(Solo!Next)
  <2>1. part' = "solo" /\ SoloRun!IInv' /\ UNCHANGED vars
    BY <1>5, SoloHolds DEF InSolo, WorkforceInv
  <2> QED BY <1>1, <1>2, <2>1 DEF WorkforceInv, AllParts, Runs
<1>6. CASE InGrade(Grade!Next)
  <2>1. part' = "grade" /\ GradeInv' /\ UNCHANGED vars
    BY <1>6, GradeGoesOn DEF InGrade, WorkforceInv
  <2> QED BY <1>1, <1>2, <2>1 DEF WorkforceInv, AllParts
<1>7. CASE InLoops(Loops!Next)
  <2>1. part' = "loops" /\ LoopsInv' /\ UNCHANGED vars
    BY <1>7, LoopsGoOn DEF InLoops, WorkforceInv
  <2> QED BY <1>1, <1>2, <2>1 DEF WorkforceInv, AllParts
<1>8. CASE InWindow(Window!Next)
  <2>1. part' = "window" /\ WindowInv' /\ UNCHANGED vars
    BY <1>8, WindowGoesOn DEF InWindow, WorkforceInv
  <2> QED BY <1>1, <1>2, <2>1 DEF WorkforceInv, AllParts
<1>9. CASE UNCHANGED allVars
  <2>1. part' = part /\ UNCHANGED <<vars, boardVars, gradeVars, loopVars, winVars>>
    BY <1>9 DEF allVars
  <2> QED BY <1>1, <1>2, <2>1, BoardSame, GradeSame, LoopsStay, WindowSame DEF WorkforceInv
<1> QED
  BY <1>3, <1>4, <1>5, <1>6, <1>7, <1>8, <1>9 DEF PartsNext

LEMMA PartsHold == WorkforceInv => MeasuredRight
<1> SUFFICES ASSUME WorkforceInv PROVE MeasuredRight
  OBVIOUS
<1>1. RunsAreSound
  BY LanesOnlyReview, TwoSlotsEnough, PlainHolds, SoloHolds DEF WorkforceInv, RunsAreSound
<1>2. part = "grade" => Grade!TypeOK /\ Grade!HandsOff /\ Grade!OnlyTheDeclaredLeaves
                         /\ Grade!TestsArePristine /\ Grade!PassIsEarned
  BY DEF WorkforceInv, GradeInv, GradePhases, GradeDeclared
<1>3. part = "loops" => Loops!TypeOK /\ Loops!LoopsAreFound
  BY LoopsHold DEF WorkforceInv
<1>4. part = "window" => Window!TypeOK /\ Window!PutBack /\ Window!ValidIsUndisturbed
  BY WindowHolds DEF WorkforceInv, WindowInv
<1> QED
  BY <1>1, <1>2, <1>3, <1>4 DEF MeasuredRight, TypesKept

\* What the harness reports was measured: only what a task declares leaves its
\* workspace, the tests a change is graded with are the task's own and a pass is
\* earned (paths.py, workspace.py, grade.py), a loop counted is one (loops.py), a
\* valid run was undisturbed and its host is put back (runmeta.py, wf-window.sh),
\* the outcomes of a run without a pool or without reviews are true (pipeline.py),
\* and with a budget of at most max_rounds + 1 no lane takes a third GPU slot
\* (cli.py).
THEOREM HarnessMeasuresRight == PartsSpec => []MeasuredRight
BY PartsStart, PartsGoOn, PartsHold, PTL DEF PartsSpec
===============================================================================
