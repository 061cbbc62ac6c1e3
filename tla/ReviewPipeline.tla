----------------------------- MODULE ReviewPipeline -----------------------------
(***************************************************************************)
(* The workforce harness (scripts/tools/workforce/pipeline.py): one thread *)
(* per implementer, one per review lane, a shared board of tasks.  A task  *)
(* is implemented, reviewed, sent back to the same implementer or fixed by *)
(* the lead, and recorded.                                                 *)
(*                                                                         *)
(* A turn of an agent is one step with the outcomes the harness tells      *)
(* apart; grading the finished change is Grading's subject.                *)
(***************************************************************************)
EXTENDS Naturals, Sequences, FiniteSets, SequencesExt

CONSTANTS
    Tasks,          \* the tasks
    Order,          \* them in a sequence, as the bundles were loaded
    Impls,          \* the arm's implementers
    GpuImpls,       \* those that run on the GPU
    Lanes,          \* review lanes on workers; {} without a review pool
    Reviewing,      \* FALSE: implementers' work is graded directly
    Budget,         \* --review-budget; 0 when there is none
    MaxRounds,      \* Limits.max_rounds
    MaxReviewInfra, \* MAX_REVIEW_INFRA
    EnforceRead,    \* --enforce-read
    MaxOutages      \* bound: times a worker goes away

Lead    == "lead"
NoTask  == "no-task"
Readers == IF Reviewing THEN Lanes \cup {Lead} ELSE {}
Threads == Impls \cup Readers

ASSUME PipelineAssumption ==
    /\ IsFiniteSet(Tasks) /\ NoTask \notin Tasks
    /\ Order \in Seq(Tasks) /\ IsInjective(Order) /\ Range(Order) = Tasks
    /\ IsFiniteSet(Impls) /\ IsFiniteSet(Lanes) /\ GpuImpls \subseteq Impls
    /\ Impls \cap Lanes = {} /\ Lead \notin Impls \cup Lanes /\ "none" \notin Impls
    /\ {Budget, MaxRounds, MaxOutages} \subseteq Nat /\ MaxReviewInfra \in Nat \ {0}
    /\ {Reviewing, EnforceRead} \subseteq BOOLEAN

VARIABLES
    pending,        \* new tasks, in order
    rework,         \* implementer -> tasks sent back to it
    leadQ,          \* tasks that wait for a review
    act,            \* thread -> [task, step, said]
    work,           \* task -> what its record will say
    records,        \* task -> its outcome, or "none"
    up,             \* worker -> it answers
    believed,       \* worker -> the health monitor holds it for up
    outages         \* times a worker went away

vars == <<pending, rework, leadQ, act, work, records, up, believed, outages>>

Idle    == [task |-> NoTask, step |-> "idle", said |-> "NONE"]
Stopped == [Idle EXCEPT !.step = "stopped"]
At(t, s, v) == [task |-> t, step |-> s, said |-> v]
Verdicts == {"ACCEPT", "REVISE", "NONE"}
Outcomes == {"none", "implemented", "implementer-accepted", "reworked-unreviewed", "lead-fixed",
             "infra-error", "harness-error"}

TypeOK ==
    /\ pending \in Seq(Tasks) /\ leadQ \in Seq(Tasks) /\ rework \in [Impls -> Seq(Tasks)]
    /\ act \in [Threads -> [task : Tasks \cup {NoTask}, said : Verdicts,
                            step : {"idle", "turn", "review", "verdict", "reread", "judge", "fix", "stopped"}]]
    /\ work \in [Tasks -> [agent : Impls \cup {"none"}, rounds : Nat, reviews : Nat, seen : Nat,
                           verdict : Verdicts, infra : 0..MaxReviewInfra]]
    /\ records \in [Tasks -> Outcomes]
    /\ up \in [Lanes -> BOOLEAN] /\ believed \in [Lanes -> BOOLEAN] /\ outages \in 0..MaxOutages

\* Pipeline.__init__ and cli.py's checks: review lanes need a budget.
Constructed == Lanes # {} => Budget # 0

Init ==
    /\ Constructed
    /\ pending = Order /\ leadQ = <<>> /\ rework = [a \in Impls |-> <<>>]
    /\ act = [x \in Threads |-> Idle]
    /\ work = [t \in Tasks |-> [agent |-> "none", rounds |-> 0, reviews |-> 0, seen |-> 0,
                                verdict |-> "NONE", infra |-> 0]]
    /\ records = [t \in Tasks |-> "none"]
    /\ up = [l \in Lanes |-> TRUE] /\ believed = [l \in Lanes |-> TRUE] /\ outages = 0

Board    == <<pending, rework, leadQ>>
Workers  == <<up, believed, outages>>
Finished == \A t \in Tasks : records[t] # "none"
Final(t) == Budget # 0 /\ work[t].reviews >= Budget
Forced(t) == work[t].infra >= MaxReviewInfra
Anyone   == \E l \in Lanes : believed[l]

Now(x, t, s, v) == act' = [act EXCEPT ![x] = At(t, s, v)]
Free(x)         == act' = [act EXCEPT ![x] = Idle]

\* _write_record and _complete: counted once.
Record(x, t, outcome) ==
    /\ records' = [records EXCEPT ![t] = outcome]
    /\ Free(x)

\* Everything a task has been through so far.
Revise(t, w) == work' = [work EXCEPT ![t] = w]

-----------------------------------------------------------------------------
(* The implementers.                                                       *)

\* _impl_loop: rework first, then a new task, until every task is recorded.
TakeRework(a) ==
    /\ act[a].step = "idle" /\ rework[a] # <<>>
    /\ Now(a, rework[a][1], "turn", "NONE") /\ rework' = [rework EXCEPT ![a] = Tail(@)]
    /\ UNCHANGED <<pending, leadQ, work, records, Workers>>

TakeNew(a) ==
    /\ act[a].step = "idle" /\ rework[a] = <<>> /\ pending # <<>>
    /\ Now(a, pending[1], "turn", "NONE") /\ pending' = Tail(pending)
    /\ UNCHANGED <<rework, leadQ, work, records, Workers>>

\* _implement: the run ended, by itself or by its time limit.
Implement(a) ==
    /\ act[a].step = "turn"
    /\ LET t == act[a].task IN
       /\ Revise(t, [work[t] EXCEPT !.agent = a, !.rounds = @ + 1])
       /\ \/ ~Reviewing /\ Record(a, t, "implemented") /\ UNCHANGED leadQ
          \/ Reviewing /\ Final(t) /\ Record(a, t, "reworked-unreviewed") /\ UNCHANGED leadQ
          \/ Reviewing /\ ~Final(t) /\ leadQ' = Append(leadQ, t) /\ Free(a) /\ UNCHANGED records
    /\ UNCHANGED <<pending, rework, Workers>>

\* Every attempt of the turn failed outright.
InfraError(a) ==
    /\ act[a].step = "turn"
    /\ Revise(act[a].task, [work[act[a].task] EXCEPT !.agent = a])
    /\ Record(a, act[a].task, "infra-error") /\ UNCHANGED <<Board, Workers>>

-----------------------------------------------------------------------------
(* The review lanes.                                                       *)

\* _eligible: a worker's lane reads while its worker is believed up; the lead
\* what was forced to it, and anything while no worker is.  For comparison: a
\* worker's lane takes whatever is first.
AnyReview(t, l) ==
    IF l = Lead THEN Forced(t) \/ ~Anyone ELSE believed[l]
Eligible(t, l) ==
    IF l = Lead THEN Forced(t) \/ ~Anyone ELSE ~Forced(t) /\ believed[l]

Take(l) ==
    /\ act[l].step = "idle"
    /\ \E i \in 1..Len(leadQ) :
          /\ Eligible(leadQ[i], l) /\ \A j \in 1..i - 1 : ~Eligible(leadQ[j], l)
          /\ Now(l, leadQ[i], "review", "NONE") /\ leadQ' = RemoveAt(leadQ, i)
    /\ UNCHANGED <<pending, rework, work, records, Workers>>

\* Where the review goes on after an answer.
Onwards(v, session, inspected) ==
    IF v = "NONE" /\ session THEN "verdict"
    ELSE IF v # "NONE" /\ session /\ EnforceRead /\ ~inspected THEN "reread" ELSE "judge"

\* _review's first run, on a copy of the workspace as it is now.  A worker that
\* is away can only time out, before the session has begun.
Review(l) ==
    /\ act[l].step = "review"
    /\ LET t == act[l].task IN
       \E v \in Verdicts, session \in BOOLEAN, inspected \in BOOLEAN :
          /\ l \in Lanes /\ ~up[l] => v = "NONE" /\ ~session
          /\ Revise(t, [work[t] EXCEPT !.seen = work[t].rounds])
          /\ Now(l, t, Onwards(v, session, inspected), v)
    /\ UNCHANGED <<Board, records, Workers>>

\* The same session's turn that may only answer.
VerdictTurn(l) ==
    /\ act[l].step = "verdict"
    /\ \E v \in Verdicts, inspected \in BOOLEAN :
          /\ l \in Lanes /\ ~up[l] => v = "NONE"
          /\ Now(l, act[l].task, IF v = "NONE" THEN "judge" ELSE Onwards(v, TRUE, inspected), v)
    /\ UNCHANGED <<Board, work, records, Workers>>

\* A verdict that read nothing is asked for once more; no answer keeps it.
Reread(l) ==
    /\ act[l].step = "reread"
    /\ \E v \in Verdicts :
          /\ l \in Lanes /\ ~up[l] => v = "NONE"
          /\ Now(l, act[l].task, "judge", IF v = "NONE" THEN act[l].said ELSE v)
    /\ UNCHANGED <<Board, work, records, Workers>>

\* _worker_failed: no review, back to the front of the queue, the worker taken
\* for down.  For comparison: the failure is counted as a review.
FailureCounts(l) ==
    /\ l \in Lanes /\ act[l].step \in {"review", "verdict"}
    /\ LET t == act[l].task IN
       /\ Revise(t, [work[t] EXCEPT !.infra = @ + 1, !.reviews = @ + 1])
       /\ leadQ' = <<t>> \o leadQ
    /\ believed' = [believed EXCEPT ![l] = FALSE] /\ Free(l)
    /\ UNCHANGED <<pending, rework, records, up, outages>>
WorkerFailed(l) ==
    /\ l \in Lanes /\ act[l].step \in {"review", "verdict"}
    /\ LET t == act[l].task IN
       /\ Revise(t, [work[t] EXCEPT !.infra = @ + 1])
       /\ leadQ' = <<t>> \o leadQ
    /\ believed' = [believed EXCEPT ![l] = FALSE] /\ Free(l)
    /\ UNCHANGED <<pending, rework, records, up, outages>>

\* _review's end.
Judge(l) ==
    /\ act[l].step = "judge"
    /\ LET t == act[l].task
           v == act[l].said
           w == [work[t] EXCEPT !.reviews = @ + 1, !.verdict = v]
           again == (Budget # 0 /\ w.reviews >= Budget) \/ w.rounds <= MaxRounds
       IN
       /\ Revise(t, w)
       /\ \/ v = "ACCEPT" /\ Record(l, t, "implementer-accepted") /\ UNCHANGED rework
          \/ /\ v # "ACCEPT" /\ again
             /\ rework' = [rework EXCEPT ![w.agent] = Append(@, t)] /\ Free(l) /\ UNCHANGED records
          \/ v # "ACCEPT" /\ ~again /\ Now(l, t, "fix", v) /\ UNCHANGED <<rework, records>>
    /\ UNCHANGED <<pending, leadQ, Workers>>

\* _lead_fix, whatever came of the fixer's run.
LeadFix(l) ==
    /\ act[l].step = "fix" /\ Record(l, act[l].task, "lead-fixed")
    /\ UNCHANGED <<Board, work, Workers>>

-----------------------------------------------------------------------------
(* Every thread.                                                           *)

\* _guarded: an exception in the harness's own code ends the task.
HarnessError(x) ==
    /\ act[x].task # NoTask /\ Record(x, act[x].task, "harness-error")
    /\ UNCHANGED <<Board, work, Workers>>

\* The loops' ends.  For comparison: an implementer's thread ends when there is
\* nothing for it now.
LeaveEarly(x) ==
    /\ act[x].step = "idle"
    /\ IF x \in Impls THEN rework[x] = <<>> /\ pending = <<>> ELSE Finished
    /\ act' = [act EXCEPT ![x] = Stopped]
    /\ UNCHANGED <<Board, work, records, Workers>>
Leave(x) ==
    /\ act[x].step = "idle" /\ Finished
    /\ x \in Impls => rework[x] = <<>> /\ pending = <<>>
    /\ act' = [act EXCEPT ![x] = Stopped]
    /\ UNCHANGED <<Board, work, records, Workers>>

\* The workers come and go; HealthMonitor looks now and then.
Goes(l) ==
    /\ up[l] /\ outages < MaxOutages /\ ~Finished
    /\ up' = [up EXCEPT ![l] = FALSE] /\ outages' = outages + 1
    /\ UNCHANGED <<Board, act, work, records, believed>>
Returns(l) ==
    /\ ~up[l] /\ up' = [up EXCEPT ![l] = TRUE]
    /\ UNCHANGED <<Board, act, work, records, believed, outages>>
PollOnce ==
    /\ believed # up /\ believed' = up
    /\ UNCHANGED <<Board, act, work, records, up, outages>>

Own(x) ==
    \/ x \in Impls /\ (TakeRework(x) \/ TakeNew(x) \/ Implement(x) \/ InfraError(x))
    \/ x \in Readers /\ (Take(x) \/ Review(x) \/ VerdictTurn(x) \/ Reread(x) \/ WorkerFailed(x)
                           \/ Judge(x) \/ LeadFix(x))
    \/ HarnessError(x) \/ Leave(x)

Next ==
    \/ \E x \in Threads : Own(x)
    \/ \E l \in Lanes : Goes(l) \/ Returns(l)
    \/ PollOnce

\* Threads run, turns end by their time limits, the monitor polls.
Fairness == (\A x \in Threads : WF_vars(Own(x))) /\ WF_vars(PollOnce)
Spec == Init /\ [][Next]_vars /\ Fairness

-----------------------------------------------------------------------------
\* Queue and hand a task is in; _impl_loop, _review and _worker_failed pass it
\* on under the condition's lock.
Holders(t)  == {x \in Threads : act[x].task = t}
Times(q, t) == Cardinality({i \in 1..Len(q) : q[i] = t})
OtherQueues(t) == {a \in Impls : Times(rework[a], t) > 0}

\* A task is in one place: a queue, one thread's hands, or recorded; its rework
\* is with the implementer whose session it resumes.
OneOwner ==
    \A t \in Tasks :
        /\ Times(pending, t) + Times(leadQ, t) + Cardinality(OtherQueues(t)) + Cardinality(Holders(t))
               + (IF records[t] # "none" THEN 1 ELSE 0) = 1
        /\ \A a \in OtherQueues(t) : Times(rework[a], t) = 1 /\ a = work[t].agent

\* What the outcomes claim (_finalize, _record): an accepted change is the one
\* the last review read; only the rework after the last budgeted review ships
\* unread; the lead fixes after the last round; failures are never rounds.
OutcomeIsEarned ==
    \A t \in Tasks :
        LET w == work[t] IN
        /\ records[t] = "implementer-accepted" =>
               w.verdict = "ACCEPT" /\ w.seen = w.rounds /\ w.reviews = w.rounds
        /\ records[t] = "reworked-unreviewed" =>
               w.verdict # "ACCEPT" /\ w.reviews = Budget /\ w.rounds = Budget + 1
        /\ records[t] = "lead-fixed" =>
               w.verdict # "ACCEPT" /\ w.rounds = MaxRounds + 1 /\ w.reviews = w.rounds
        /\ w.reviews <= w.rounds /\ w.rounds <= w.reviews + 1
        /\ Budget # 0 => w.reviews <= Budget

\* The GPU takes two turns at a time, an implementer's and the lead's
\* (pipeline.py and cli.py on --review-pool).
GpuTurns ==
    {a \in GpuImpls : act[a].step = "turn"}
    \cup {l \in Readers : act[l].step = "fix" \/ (l = Lead /\ act[l].step \in {"review", "verdict", "reread"})}
TwoGpuSlots == Cardinality(GpuTurns) <= 2

\* A worker's lane never has a forced task, and never runs the lead's fix.
LanesKeepToReviews ==
    \A l \in Lanes \cap Readers : (act[l].task # NoTask => ~Forced(act[l].task)) /\ act[l].step # "fix"

\* A task is in one place and its outcome says what happened to it (pipeline.py:
\* the queues, _review, _worker_failed, _finalize).
OutcomesAreTrue == TypeOK /\ OneOwner /\ OutcomeIsEarned

\* run() returns: every task is recorded and every thread has stopped.
Ended == Finished /\ \A x \in Threads : act[x].step = "stopped"
===============================================================================
