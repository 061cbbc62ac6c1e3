------------------------ MODULE RunnerDispatch_proofs ------------------------
(***************************************************************************)
(* Theorems about RunnerDispatch, for any issues, repos, tiers, tries and  *)
(* any number of crashes and failed calls.                                 *)
(*                                                                         *)
(* The labels agree with the reports in every state only because of what   *)
(* the process still has to send: the inductive invariant says, for each   *)
(* place where the process can be, which calls are left in todo and what   *)
(* they will have made of the task's labels when they have been made.  A   *)
(* half-made edit keeps it, since what is sent again covers what is still  *)
(* missing.                                                                *)
(*                                                                         *)
(* Then about RunnerTask, what is done with a claimed task, for any        *)
(* history of commits, any branches and any moves of others.               *)
(***************************************************************************)
EXTENDS RunnerDispatch, RunnerTask, TLAPS

Note == Comment("note")

\* A label edit that takes off at most rm and puts on at most ad.
Edit(e, rm, ad) == e.says = "none" /\ e.remove \subseteq rm /\ e.add \subseteq ad

\* Nothing has been answered on the issue.
Open(i) == reported[i] = "none" /\ "done" \notin labels[i]

\* The edit that is still to be made takes the label off, if it is still there.
Clears(e, l) == l \in labels[task] => l \in e.remove

\* What is or will be on the issue tells the verdict.
Tells(v, have) == /\ have \cap {"done", "blocked"} # {}
                  /\ v = "other" => "needs-claude" \in have
Settles(v, e) == /\ Edit(e, {"running"}, {"done", "blocked", "needs-claude"})
                 /\ Clears(e, "running") /\ "ready" \notin labels[task]
                 /\ Tells(v, labels[task] \cup e.add)

Picking ==
    \/ task = NoIssue /\ todo = <<>>
    \/ /\ task \in Issues \ queue /\ Open(task) /\ "running" \notin labels[task]
       /\ \E e \in Calls : /\ Edit(e, {"ready"}, {"blocked"})
                           /\ todo \in {<<Note, e>>, <<e>>}

Claiming ==
    /\ task \in Issues /\ Open(task)
    /\ \/ \E e \in Calls : /\ Edit(e, {"ready"}, {"running"}) /\ Clears(e, "ready")
                           /\ todo = <<e, Note>>
       \/ "ready" \notin labels[task] /\ todo \in {<<Note>>, <<>>}

Running == task \in Issues /\ Open(task) /\ "ready" \notin labels[task] /\ todo = <<>>

Refusing ==
    /\ Open(task)
    /\ \/ \E e \in Calls : /\ Edit(e, {"ready", "running"}, {"ready", "blocked"}) /\ Clears(e, "running")
                           /\ todo = <<e, Note>>
       \/ "running" \notin labels[task] /\ todo \in {<<Note>>, <<>>}

Answering ==
    \/ \E v \in {"clean pass", "other"}, e \in Calls :
          Open(task) /\ Settles(v, e) /\ todo = <<Comment(v), e>>
    \/ \E e \in Calls : reported[task] # "none" /\ Settles(reported[task], e) /\ todo = <<e>>
    \/ /\ reported[task] # "none" /\ Tells(reported[task], labels[task])
       /\ {"running", "ready"} \cap labels[task] = {} /\ todo = <<>>

\* Where the process stands with its task.
AtTask ==
    /\ pc = "off"      => task = NoIssue /\ todo = <<>> /\ queue = {}
    /\ pc = "picking"  => Picking
    /\ pc = "claiming" => Claiming
    /\ pc = "running"  => Running
    /\ pc = "closing"  => task \in Issues /\ (Refusing \/ Answering)
    /\ pc \in {"claiming", "running", "closing"} => queue = {}

ReadyUnreported == \A i \in Issues : "ready" \in labels[i] => reported[i] = "none"
QueueWaits == \A i \in queue : reported[i] = "none" /\ labels[i] \cap Runner \subseteq {"ready"}

IInv == TypeOK /\ AtTask /\ LabelsTellTheTruth /\ ReadyUnreported /\ QueueWaits

-----------------------------------------------------------------------------
\* The calls of a handler are at most two.
LEMMA OneOrTwo ==
    ASSUME NEW S, NEW a \in S, NEW b \in S
    PROVE  /\ <<a>> \in Seq(S) /\ <<a, b>> \in Seq(S) /\ <<>> \in Seq(S)
           /\ Head(<<a>>) = a /\ Tail(<<a>>) = <<>> /\ Len(<<a>>) = 1
           /\ Head(<<a, b>>) = a /\ Tail(<<a, b>>) = <<b>> /\ Len(<<a, b>>) = 2
           /\ <<a>> # <<>> /\ <<a, b>> # <<>> /\ <<a>> # <<a, b>>
OBVIOUS

LEMMA Replaced ==
    ASSUME NEW a, NEW b, NEW c
    PROVE  [<<a>> EXCEPT ![1] = c] = <<c>> /\ [<<a, b>> EXCEPT ![1] = c] = <<c, b>>
OBVIOUS

LEMMA CallTypes ==
    ASSUME NEW t \in Says, NEW rm \in SUBSET Labels, NEW ad \in SUBSET Labels
    PROVE  Comment(t) \in Calls /\ Relabel(rm, ad) \in Calls
BY DEF Comment, Relabel, Calls, Says, Reports

LEMMA InitIInv == Init => IInv
<1> SUFFICES ASSUME Init PROVE IInv
  OBVIOUS
<1>1. TypeOK
  BY DispatchAssumption DEF Init, TypeOK, Unasked, Asked, Haltable, Labels, Reports
<1>2. LabelsTellTheTruth
  BY DEF Init, LabelsTellTheTruth, ReportBeforeDone, NothingStranded, UncleanNeedsClaude
<1>3. AtTask /\ ReadyUnreported /\ QueueWaits
  BY DEF Init, AtTask, ReadyUnreported, QueueWaits
<1> QED
  BY <1>1, <1>2, <1>3 DEF IInv

-----------------------------------------------------------------------------
(* The owner, the timer and the crash.                                     *)

\* A step that leaves the process and the issue of its task alone.
LEMMA TaskUntouched ==
    ASSUME IInv, UNCHANGED <<pc, queue, task, todo>>,
           task \in Issues => labels'[task] = labels[task] /\ reported'[task] = reported[task]
    PROVE  AtTask'
<1> USE DEF Open, Clears, Settles, Tells
<1>1. Picking => Picking'
  BY DEF Picking
<1>2. Claiming => Claiming'
  BY DEF Claiming
<1>3. Running => Running'
  BY DEF Running
<1>4. task \in Issues /\ (Refusing \/ Answering) => (Refusing \/ Answering)'
  BY DEF Refusing, Answering
<1> QED
  BY <1>1, <1>2, <1>3, <1>4 DEF IInv, AtTask

LEMMA OwnerStep ==
    ASSUME IInv, \/ \E i \in Issues : MakeReady(i)
                 \/ \E r \in Haltable : ToggleHalt(r)
    PROVE  IInv'
<1>1. ASSUME NEW i \in Issues, MakeReady(i) PROVE IInv'
  <2> USE DEF MakeReady, Order, memory
  <2>0. labels' \in [Issues -> SUBSET Labels] /\ reported' \in [Issues -> Reports]
    BY <1>1 DEF IInv, TypeOK, Labels, Reports
  <2>1. TypeOK'
    BY <1>1, <2>0, DispatchAssumption DEF IInv, TypeOK
  <2>2. AtTask'
    BY <1>1, TaskUntouched DEF IInv, TypeOK
  <2>3. LabelsTellTheTruth'
    BY <1>1 DEF IInv, TypeOK, LabelsTellTheTruth, ReportBeforeDone, NothingStranded, UncleanNeedsClaude
  <2>4. ReadyUnreported' /\ QueueWaits'
    BY <1>1 DEF IInv, TypeOK, ReadyUnreported, QueueWaits, Runner, Labels
  <2> QED
    BY <2>1, <2>2, <2>3, <2>4 DEF IInv
<1>2. ASSUME NEW r \in Haltable, ToggleHalt(r) PROVE IInv'
  <2> USE DEF ToggleHalt, Order, memory
  <2>1. r \in Repos
    BY DispatchAssumption DEF Haltable
  <2>2. TypeOK'
    BY <1>2, <2>1, DispatchAssumption DEF IInv, TypeOK
  <2>3. AtTask'
    BY <1>2, TaskUntouched
  <2> QED
    BY <1>2, <2>2, <2>3
    DEF IInv, LabelsTellTheTruth, ReportBeforeDone, NothingStranded, UncleanNeedsClaude,
        ReadyUnreported, QueueWaits
<1> QED
  BY <1>1, <1>2

\* The withdrawn issue may be the one whose refusal or claim is being sent.
LEMMA WithdrawStep ==
    ASSUME IInv, NEW i \in Issues, Withdraw(i)
    PROVE  IInv'
<1> USE DEF Withdraw, Order, memory
<1>1. TypeOK'
  BY DispatchAssumption DEF IInv, TypeOK, Labels
<1>2. LabelsTellTheTruth' /\ ReadyUnreported' /\ QueueWaits'
  BY DEF IInv, TypeOK, LabelsTellTheTruth, ReportBeforeDone, NothingStranded, UncleanNeedsClaude,
         ReadyUnreported, QueueWaits
<1>3. AtTask'
  <2>1. CASE i # task
    BY <2>1, TaskUntouched DEF IInv, TypeOK
  <2>2. CASE i = task
    <3> USE <2>2 DEF IInv, TypeOK, Open, Clears
    <3>1. labels'[task] = {} /\ reported'[task] = "none" /\ labels[task] = {"ready"}
      BY DEF ReadyUnreported
    <3>2. Picking => Picking'
      BY <3>1 DEF Picking
    <3>3. Claiming => Claiming'
      BY <3>1 DEF Claiming
    <3>4. Running => Running'
      BY <3>1 DEF Running
    <3>5. Refusing => Refusing'
      BY <3>1 DEF Refusing
    <3>6. ~Answering
      BY <3>1 DEF Answering, Settles, ReadyUnreported
    <3> QED
      BY <3>2, <3>3, <3>4, <3>5, <3>6 DEF AtTask
  <2> QED
    BY <2>1, <2>2
<1> QED
  BY <1>1, <1>2, <1>3 DEF IInv

\* What is left behind is lost, or else nothing is left behind.
LEMMA StopStep ==
    ASSUME IInv, Stop, UNCHANGED <<reported, halt, orders>>,
           aborts' \in 0..MaxAborts, lost' \subseteq Issues, lost \subseteq lost',
           labels' \in [Issues -> SUBSET Labels],
           \A i \in Issues \ {task} : labels'[i] = labels[i],
           task \in Issues =>
              /\ "ready" \in labels'[task] => reported[task] = "none"
              /\ "done" \in labels'[task] => reported[task] # "none",
           task \in Issues \ lost' =>
              /\ "running" \notin labels'[task]
              /\ reported[task] # "none" => Tells(reported[task], labels'[task])
    PROVE  IInv'
<1> USE DEF Stop
<1>1. TypeOK'
  BY DispatchAssumption DEF IInv, TypeOK, Unasked, Asked, OneOrTwo
<1>2. LabelsTellTheTruth'
  BY DEF IInv, TypeOK, LabelsTellTheTruth, ReportBeforeDone, NothingStranded, UncleanNeedsClaude, Tells
<1>3. ReadyUnreported' /\ QueueWaits' /\ AtTask'
  BY DEF IInv, TypeOK, ReadyUnreported, QueueWaits, AtTask
<1> QED
  BY <1>1, <1>2, <1>3 DEF IInv

\* What the labels of the task may say while its calls are made.
LEMMA TaskLabels ==
    ASSUME IInv, task \in Issues
    PROVE  /\ "ready" \in labels[task] => reported[task] = "none"
           /\ "done" \in labels[task] => reported[task] # "none"
BY DEF IInv, LabelsTellTheTruth, ReportBeforeDone, ReadyUnreported

LEMMA AbortStep == ASSUME IInv, Abort PROVE IInv'
<1>1. /\ Stop /\ UNCHANGED <<labels, reported, halt, orders>> /\ lost' = lost \cup ({task} \ {NoIssue})
      /\ aborts' \in 0..MaxAborts
  BY DispatchAssumption DEF Abort, github, IInv, TypeOK
<1>2. lost' \subseteq Issues /\ task \notin Issues \ lost'
  BY <1>1, DispatchAssumption DEF IInv, TypeOK
<1> QED
  BY <1>1, <1>2, TaskLabels, StopStep DEF IInv, TypeOK

LEMMA BeginStep == ASSUME IInv, NEW open \in BOOLEAN, Begin(open) PROVE IInv'
<1> USE DEF Begin, github
<1>1. TypeOK'
  BY DEF IInv, TypeOK, Listed
<1>2. QueueWaits'
  BY DEF IInv, TypeOK, ReadyUnreported, QueueWaits, Listed
<1>3. AtTask'
  BY DEF IInv, AtTask, Picking
<1> QED
  BY <1>1, <1>2, <1>3 DEF IInv, LabelsTellTheTruth, ReportBeforeDone, NothingStranded,
                          UncleanNeedsClaude, ReadyUnreported

-----------------------------------------------------------------------------
(* The steps of the process that leave GitHub alone.                       *)

\* The process moves on without letting go of a task.
LEMMA MoveStep ==
    ASSUME IInv, UNCHANGED <<labels, reported, halt, tries, lost, aborts, orders>>,
           pc' \in {"picking", "claiming", "running", "closing"},
           queue' \subseteq queue, todo' \in Seq(Calls),
           haltSeen' \in [Repos -> Asked], okSeen' \in [Repos -> Asked],
           task' \in Issues \cup {NoIssue}, task \in Issues => task' = task,
           AtTask'
    PROVE  IInv'
<1>1. TypeOK' /\ ReadyUnreported' /\ QueueWaits'
  BY DEF IInv, TypeOK, ReadyUnreported, QueueWaits
<1>2. LabelsTellTheTruth'
  BY DEF IInv, TypeOK, LabelsTellTheTruth, ReportBeforeDone, NothingStranded, UncleanNeedsClaude
<1> QED
  BY <1>1, <1>2 DEF IInv

\* The issue that pick() looks at has not been answered and is not claimed.
LEMMA Looked ==
    ASSUME IInv, NEW i \in Issues, Looks(i)
    PROVE  /\ pc = "picking" /\ task = NoIssue /\ task \notin Issues /\ i \in queue
           /\ Open(i) /\ "running" \notin labels[i]
<1>1. i \in queue /\ pc = "picking" /\ todo = <<>>
  BY DEF Looks
<1>2. task = NoIssue /\ task \notin Issues
  BY <1>1, OneOrTwo, DispatchAssumption DEF IInv, AtTask, Picking
<1>3. "done" \notin labels[i] /\ "running" \notin labels[i] /\ reported[i] = "none"
  BY <1>1 DEF IInv, QueueWaits, Runner, Labels
<1> QED
  BY <1>1, <1>2, <1>3 DEF Open

LEMMA SkipStep ==
    ASSUME IInv, NEW i \in Issues, Looks(i), Skip(i)
    PROVE  IInv'
<1> USE DEF Skip, github
<1>1. AtTask'
  BY Looked DEF Looks, IInv, AtTask, Picking
<1> QED
  BY <1>1, Looked, MoveStep DEF IInv, TypeOK

LEMMA AskStep ==
    ASSUME IInv, NEW i \in Issues,
           AskHalted(i) \/ \E answer \in {"yes", "no"} : AskReady(i, answer)
    PROVE  IInv'
<1> USE DEF AskHalted, AskReady, github
<1>1. Looks(i) /\ Repo[i] \in Repos
  BY DispatchAssumption DEF MayRun
<1>2. haltSeen' \in [Repos -> Asked] /\ okSeen' \in [Repos -> Asked]
  BY <1>1 DEF IInv, TypeOK, Asked
<1>3. AtTask'
  BY TaskUntouched
<1> QED
  BY <1>1, <1>2, <1>3, Looked, MoveStep DEF IInv, TypeOK

LEMMA RefuseTierStep == ASSUME IInv, NEW i \in Issues, RefuseTier(i) PROVE IInv'
<1> USE DEF RefuseTier, github
<1>1. Looks(i)
  OBVIOUS
<1> DEFINE e == Relabel({"ready"}, {"blocked"})
<1>2. Note \in Calls /\ e \in Calls /\ Edit(e, {"ready"}, {"blocked"})
  BY CallTypes DEF Note, Says, Labels, Edit, Relabel
<1>3. todo' = <<Note, e>> /\ todo' \in Seq(Calls)
  BY <1>2, OneOrTwo DEF Note
<1>4. Picking'
  BY <1>1, <1>2, <1>3, Looked DEF Picking, Open, Edit
<1>5. AtTask'
  BY <1>1, <1>4, Looked DEF AtTask
<1> QED
  BY <1>1, <1>3, <1>5, Looked, MoveStep DEF IInv, TypeOK

LEMMA ClaimStep == ASSUME IInv, NEW i \in Issues, Claim(i) PROVE IInv'
<1> USE DEF Claim, Does, github
<1>1. Looks(i)
  BY DEF MayRun
<1> DEFINE e == Relabel({"ready"}, {"running"})
<1>2. Note \in Calls /\ e \in Calls /\ Edit(e, {"ready"}, {"running"})
  BY CallTypes DEF Note, Says, Labels, Edit, Relabel
<1>3. todo' = <<e, Note>> /\ todo' \in Seq(Calls)
  BY <1>2, OneOrTwo DEF Note
<1>4. Claiming'
  BY <1>1, <1>2, <1>3, Looked DEF Claiming, Open, Clears, Edit, Relabel
<1>5. AtTask'
  BY <1>4 DEF AtTask
<1> QED
  BY <1>1, <1>3, <1>5, Looked, MoveStep DEF IInv, TypeOK

LEMMA RefuseScriptStep == ASSUME IInv, NEW i \in Issues, RefuseScript(i) PROVE IInv'
<1> USE DEF RefuseScript, Does, github
<1>1. Looks(i)
  BY DEF MayRun
<1> DEFINE e == Relabel({"ready"}, {"blocked"})
<1>2. Note \in Calls /\ e \in Calls /\ Edit(e, {"ready", "running"}, {"ready", "blocked"})
  BY CallTypes DEF Note, Says, Labels, Edit, Relabel
<1>3. todo' = <<e, Note>> /\ todo' \in Seq(Calls)
  BY <1>2, OneOrTwo DEF Note
<1>4. Refusing'
  BY <1>1, <1>2, <1>3, Looked DEF Refusing, Open, Clears, Edit
<1>5. AtTask'
  BY <1>4 DEF AtTask
<1> QED
  BY <1>1, <1>3, <1>5, Looked, MoveStep DEF IInv, TypeOK

LEMMA PickStep == ASSUME IInv, NEW i \in Issues, Pick(i) PROVE IInv'
<1>1. CASE Hold(i) \/ SkipNotReady(i)
  BY <1>1, SkipStep DEF Hold, SkipNotReady, MayRun
<1> QED
  BY <1>1, AskStep, RefuseTierStep, ClaimStep, RefuseScriptStep DEF Pick

LEMMA RunStep == ASSUME IInv, Run PROVE IInv' /\ reported[task] = "none"
<1> USE DEF Run, github
<1>1. Claiming
  BY DEF IInv, AtTask
<1>2. Running'
  BY <1>1, OneOrTwo DEF Claiming, Running, Open
<1>3. AtTask'
  BY <1>2 DEF IInv, AtTask
<1> QED
  BY <1>1, <1>3, MoveStep DEF IInv, TypeOK, Claiming, Open

\* How a run ends: put back, refused, or answered.
LEMMA CloseStep == ASSUME IInv, Requeue \/ Answer PROVE IInv'
<1> USE DEF Close, Does, github
<1>1. PICK calls : Close(calls)
  BY DEF Requeue, Answer, RefuseClaimed, Passed, Judged, Blocked, Finish
<1>2. pc = "running" /\ Running /\ task \in Issues /\ UNCHANGED <<task, labels, reported>>
  BY <1>1 DEF IInv, AtTask, Running
<1>3. ASSUME NEW ad \in {{"ready"}, {"blocked"}}, Close(<<Relabel({"running"}, ad), Note>>)
      PROVE  Refusing' /\ todo' \in Seq(Calls)
  <2> DEFINE e == Relabel({"running"}, ad)
  <2>1. /\ Note \in Calls /\ e \in Calls /\ Edit(e, {"ready", "running"}, {"ready", "blocked"})
        /\ "running" \in e.remove
    BY CallTypes DEF Note, Says, Labels, Edit, Relabel
  <2>2. todo' = <<e, Note>> /\ todo' \in Seq(Calls)
    BY <1>3, <2>1, OneOrTwo
  <2> QED
    BY <1>2, <2>1, <2>2 DEF Refusing, Running, Open, Clears, Edit
<1>4. ASSUME NEW v \in {"clean pass", "other"}, NEW final \in SUBSET Labels,
             final \subseteq {"done", "blocked", "needs-claude"}, Tells(v, final), Finish(v, final)
      PROVE  Answering' /\ todo' \in Seq(Calls)
  <2> DEFINE e == Relabel({"running"}, final)
  <2>0. v \in Says /\ {"running"} \in SUBSET Labels
    BY DEF Says, Reports, Labels
  <2>1. /\ Comment(v) \in Calls /\ e \in Calls /\ Edit(e, {"running"}, {"done", "blocked", "needs-claude"})
        /\ e.remove = {"running"} /\ e.add = final
    BY <1>4, <2>0, CallTypes DEF Edit, Relabel
  <2>2. todo' = <<Comment(v), e>> /\ todo' \in Seq(Calls)
    BY <1>4, <2>1, OneOrTwo DEF Finish
  <2>3. Open(task)' /\ Settles(v, e)'
    BY <1>2, <2>1, <1>4 DEF Running, Open, Settles, Edit, Clears, Tells
  <2> QED
    BY <2>1, <2>2, <2>3 DEF Answering
<1>5. (Refusing \/ Answering)' /\ todo' \in Seq(Calls)
  <2>1. CASE Requeue \/ RefuseClaimed
    BY <2>1, <1>3 DEF Requeue, RefuseClaimed, Note
  <2>2. CASE Passed \/ Judged \/ Blocked
    <3>1. /\ Tells("clean pass", {"done"}) /\ Tells("other", {"done", "needs-claude"})
          /\ Tells("other", {"blocked", "needs-claude"})
          /\ {"done"} \in SUBSET Labels /\ {"done", "needs-claude"} \in SUBSET Labels
          /\ {"blocked", "needs-claude"} \in SUBSET Labels
      BY DEF Tells, Labels
    <3> QED
      BY <2>2, <3>1, <1>4 DEF Passed, Judged, Blocked
  <2> QED
    BY <2>1, <2>2 DEF Answer
<1>6. AtTask'
  BY <1>1, <1>2, <1>5 DEF AtTask
<1> QED
  BY <1>1, <1>2, <1>5, <1>6, MoveStep DEF IInv, TypeOK

-----------------------------------------------------------------------------
(* The calls to GitHub.                                                    *)

LEMMA EndStep == ASSUME IInv, EndTask PROVE IInv'
<1> USE DEF EndTask, github
<1>1. ASSUME task \in Issues, pc = "closing"
      PROVE  "running" \notin labels[task] /\ (reported[task] # "none" => Tells(reported[task], labels[task]))
  <2>1. Refusing \/ Answering
    BY <1>1 DEF IInv, AtTask
  <2> QED
    BY <1>1, <2>1, OneOrTwo DEF Refusing, Answering, Open, Note
<1>2. ASSUME task \in Issues, pc = "picking" PROVE FALSE
  BY <1>2, OneOrTwo, DispatchAssumption DEF IInv, AtTask, Picking
<1> QED
  BY <1>1, <1>2, TaskLabels, StopStep DEF IInv, TypeOK

\* A call to GitHub changes nothing but the issue of the task, and the process
\* goes on with the rest of its calls.
LEMMA CallStep ==
    ASSUME IInv, task \in Issues, UNCHANGED <<pc, queue, halt, haltSeen, okSeen, lost, aborts, orders>>,
           todo' \in Seq(Calls), tries' \in 0..(RelabelTries - 1),
           task' = task \/ (task' = NoIssue /\ Open(task) /\ "running" \notin labels'[task]),
           labels' \in [Issues -> SUBSET Labels], reported' \in [Issues -> Reports],
           \A i \in Issues \ {task} : labels'[i] = labels[i] /\ reported'[i] = reported[i],
           "ready" \in labels'[task] => reported'[task] = "none",
           "done" \in labels'[task] => reported'[task] # "none",
           task' # task => reported'[task] = "none",
           task \notin queue,
           AtTask'
    PROVE  IInv'
<1>1. TypeOK' /\ ReadyUnreported' /\ QueueWaits'
  BY DEF IInv, TypeOK, ReadyUnreported, QueueWaits
<1>2. LabelsTellTheTruth'
  BY DEF IInv, TypeOK, LabelsTellTheTruth, ReportBeforeDone, NothingStranded, UncleanNeedsClaude
<1> QED
  BY <1>1, <1>2 DEF IInv

LEMMA DoingTask ==
    ASSUME IInv, Doing
    PROVE  task \in Issues /\ task \notin queue /\ todo \in Seq(Calls) /\ Head(todo) \in Calls
<1>1. todo \in Seq(Calls) /\ todo # <<>> /\ pc \in {"picking", "claiming", "running", "closing"}
  BY DEF Doing, IInv, TypeOK
<1>2. task \in Issues /\ task \notin queue
  BY <1>1 DEF IInv, AtTask, Picking, Claiming, Running, TypeOK
<1> QED
  BY <1>1, <1>2

LEMMA PostCommentStep == ASSUME IInv, PostComment PROVE IInv'
<1> USE DEF PostComment, Made
<1>1. task \in Issues /\ task \notin queue /\ todo \in Seq(Calls) /\ Head(todo) \in Calls /\ Doing
  BY DoingTask
<1>2. todo' \in Seq(Calls) /\ tries' \in 0..(RelabelTries - 1)
  BY <1>1, DispatchAssumption DEF Doing
<1>3. /\ Note.says = "note" /\ Note \in Calls
      /\ \A v \in Reports : Comment(v).says = v /\ Comment(v) \in Calls
  BY CallTypes DEF Note, Comment, Says
<1>4. CASE pc = "picking"
  <2>1. PICK e \in Calls : Edit(e, {"ready"}, {"blocked"}) /\ todo = <<Note, e>>
    BY <1>1, <1>3, <1>4, OneOrTwo DEF IInv, AtTask, Picking, Edit, Doing
  <2>2. /\ Head(todo) = Note /\ Len(todo) = 2 /\ todo' = <<e>> /\ task' = task /\ reported' = reported
    BY <1>3, <2>1, OneOrTwo
  <2>3. Picking
    BY <1>4 DEF IInv, AtTask
  <2>4. Picking'
    BY <1>1, <2>1, <2>2, <2>3, DispatchAssumption DEF Picking, Open
  <2>5. AtTask'
    BY <1>4, <2>4 DEF AtTask
  <2> QED
    BY <1>1, <1>2, <2>2, <2>5, TaskLabels, CallStep DEF IInv, TypeOK
<1>5. CASE pc = "claiming"
  <2>1. Claiming
    BY <1>5 DEF IInv, AtTask
  <2>2. todo = <<Note>> /\ "ready" \notin labels[task]
    BY <1>1, <1>3, <2>1, OneOrTwo DEF Claiming, Edit, Doing
  <2>3. todo' = <<>> /\ task' = task /\ reported' = reported
    BY <1>3, <1>5, <2>2, OneOrTwo
  <2>4. AtTask'
    BY <1>5, <2>1, <2>2, <2>3 DEF IInv, AtTask, Claiming, Open
  <2> QED
    BY <1>1, <1>2, <2>3, <2>4, TaskLabels, CallStep DEF IInv, TypeOK
<1>6. CASE pc = "closing"
  <2>1. CASE Refusing
    <3>1. todo = <<Note>> /\ "running" \notin labels[task]
      BY <1>1, <1>3, <2>1, OneOrTwo DEF Refusing, Edit, Doing
    <3>2. todo' = <<>> /\ task' = task /\ reported' = reported
      BY <1>3, <1>6, <3>1, OneOrTwo
    <3>3. Refusing'
      BY <2>1, <3>1, <3>2 DEF Refusing, Open
    <3>4. AtTask'
      BY <1>1, <1>6, <3>2, <3>3 DEF IInv, AtTask
    <3> QED
      BY <1>1, <1>2, <3>2, <3>4, TaskLabels, CallStep DEF IInv, TypeOK
  <2>2. CASE Answering
    <3>1. PICK v \in {"clean pass", "other"}, e \in Calls :
             Open(task) /\ Settles(v, e) /\ todo = <<Comment(v), e>>
      BY <1>1, <2>2, OneOrTwo DEF Answering, Settles, Edit, Doing
    <3>2. v \in Reports /\ v # "note" /\ v # "none"
      BY DEF Reports
    <3>0. Comment(v) \in Calls /\ Comment(v).says = v
      BY <1>3, <3>2
    <3>6. Head(todo) = Comment(v) /\ todo' = <<e>>
      BY <3>0, <3>1, OneOrTwo
    <3>3. /\ todo' = <<e>> /\ task' = task
          /\ reported' = [reported EXCEPT ![task] = v] /\ reported'[task] = v
      BY <1>1, <1>6, <3>0, <3>2, <3>6 DEF IInv, TypeOK
    <3>4. Answering'
      BY <3>1, <3>2, <3>3 DEF Answering, Settles, Clears
    <3>5. AtTask'
      BY <1>1, <1>6, <3>3, <3>4 DEF IInv, AtTask
    <3>7. reported' \in [Issues -> Reports]
      BY <3>2, <3>3 DEF IInv, TypeOK
    <3> QED
      BY <1>1, <1>2, <3>1, <3>2, <3>3, <3>5, <3>7, CallStep DEF IInv, TypeOK, Settles
  <2> QED
    BY <1>6, <2>1, <2>2 DEF IInv, AtTask
<1>7. pc # "running"
  BY <1>1 DEF IInv, AtTask, Running, Doing
<1> QED
  BY <1>1, <1>4, <1>5, <1>6, <1>7 DEF IInv, TypeOK, Doing

\* What is left of an edit e of which rm has been taken off and ad put on.
Leaves(e, rm, ad, rest) ==
    /\ rm \subseteq e.remove /\ ad \subseteq e.add
    /\ rest.says = "none" /\ rest.remove \subseteq e.remove /\ rest.add \subseteq e.add
    /\ e.remove \cap ((labels[task] \ rm) \cup ad) \subseteq rest.remove \cup e.add
    /\ e.add \subseteq rest.add \cup ((labels[task] \ rm) \cup ad)

\* The shapes that todo has when an edit is next.
LEMMA EditNext ==
    ASSUME IInv, Doing, Head(todo).says = "none"
    PROVE  LET e == Head(todo) IN
           \/ /\ pc = "picking" /\ Open(task) /\ todo = <<e>>
              /\ Edit(e, {"ready"}, {"blocked"}) /\ "running" \notin labels[task]
           \/ /\ pc = "claiming" /\ Open(task) /\ todo = <<e, Note>>
              /\ Edit(e, {"ready"}, {"running"}) /\ Clears(e, "ready")
           \/ /\ pc = "closing" /\ Open(task) /\ todo = <<e, Note>>
              /\ Edit(e, {"ready", "running"}, {"ready", "blocked"}) /\ Clears(e, "running")
           \/ /\ pc = "closing" /\ reported[task] # "none" /\ todo = <<e>>
              /\ Settles(reported[task], e)
<1>1. /\ Note.says # "none" /\ Note \in Calls
      /\ \A v \in {"clean pass", "other"} : Comment(v).says # "none" /\ Comment(v) \in Calls
  BY CallTypes DEF Note, Comment, Says, Reports
<1>2. todo # <<>> /\ pc # "off" /\ pc \in {"off", "picking", "claiming", "running", "closing"}
  BY DEF Doing, IInv, TypeOK
<1>3. CASE pc = "picking"
  <2>1. PICK e \in Calls : /\ Edit(e, {"ready"}, {"blocked"}) /\ todo \in {<<Note, e>>, <<e>>}
                           /\ Open(task) /\ "running" \notin labels[task]
    BY <1>2, <1>3 DEF IInv, AtTask, Picking
  <2>2. Head(<<Note, e>>) = Note /\ Head(<<e>>) = e
    OBVIOUS
  <2>3. todo # <<Note, e>>
    BY <1>1, <2>2
  <2>4. todo = <<e>> /\ Head(todo) = e
    BY <2>1, <2>2, <2>3
  <2> QED
    BY <1>3, <2>1, <2>4
<1>4. CASE pc = "claiming"
  <2>1. PICK e \in Calls : /\ Edit(e, {"ready"}, {"running"}) /\ Clears(e, "ready")
                           /\ todo = <<e, Note>> /\ Open(task)
    BY <1>1, <1>2, <1>4, OneOrTwo DEF IInv, AtTask, Claiming
  <2>2. Head(todo) = e
    BY <1>1, <2>1, OneOrTwo
  <2> QED
    BY <1>4, <2>1, <2>2
<1>5. CASE pc = "closing" /\ Refusing
  <2>1. PICK e \in Calls : /\ Edit(e, {"ready", "running"}, {"ready", "blocked"}) /\ Clears(e, "running")
                           /\ todo = <<e, Note>> /\ Open(task)
    BY <1>1, <1>2, <1>5, OneOrTwo DEF Refusing
  <2>2. Head(todo) = e
    BY <1>1, <2>1, OneOrTwo
  <2> QED
    BY <1>5, <2>1, <2>2
<1>6. CASE pc = "closing" /\ Answering
  <2>1. ASSUME NEW v \in {"clean pass", "other"}, NEW e \in Calls, todo = <<Comment(v), e>>
        PROVE  FALSE
    <3>1. Comment(v) \in Calls /\ Comment(v).says # "none"
      BY <1>1
    <3> QED
      BY <2>1, <3>1, OneOrTwo
  <2>2. PICK e \in Calls : reported[task] # "none" /\ Settles(reported[task], e) /\ todo = <<e>>
    BY <1>2, <1>6, <2>1 DEF Answering
  <2>3. Head(todo) = e
    BY <2>2, OneOrTwo
  <2> QED
    BY <1>6, <2>2, <2>3
<1> QED
  BY <1>2, <1>3, <1>4, <1>5, <1>6 DEF IInv, AtTask, Running

LEMMA EditedTask ==
    ASSUME IInv, task \in Issues, NEW rm, NEW ad, ad \subseteq Labels, labels' = Edited(rm, ad)
    PROVE  /\ labels' \in [Issues -> SUBSET Labels]
           /\ labels'[task] = (labels[task] \ rm) \cup ad
           /\ \A i \in Issues \ {task} : labels'[i] = labels[i]
BY DEF Edited, IInv, TypeOK

\* Nothing of the edit is left: the process goes on with the next call.
LEMMA EditMade ==
    ASSUME IInv, Doing, Head(todo).says = "none", NEW rm, NEW ad,
           Leaves(Head(todo), rm, ad, Relabel({}, {})), labels' = Edited(rm, ad), Made,
           UNCHANGED <<reported, halt, pc, queue, haltSeen, okSeen, lost, aborts, orders>>
    PROVE  IInv'
<1> DEFINE e == Head(todo)
<1>0. task \in Issues /\ task \notin queue /\ todo \in Seq(Calls) /\ e \in Calls /\ Note \in Calls
  BY DoingTask, CallTypes DEF Note, Says
<1>1. /\ ad \subseteq Labels /\ rm \subseteq e.remove /\ ad \subseteq e.add
      /\ e.remove \cap labels'[task] \subseteq e.add /\ e.add \subseteq labels'[task]
      /\ labels'[task] = (labels[task] \ rm) \cup ad
      /\ labels' \in [Issues -> SUBSET Labels]
      /\ \A i \in Issues \ {task} : labels'[i] = labels[i]
  <2>1. ad \subseteq Labels
    BY <1>0 DEF Leaves, Calls
  <2> QED
    BY <1>0, <2>1, EditedTask DEF Leaves, Relabel
<1>2. todo' \in Seq(Calls) /\ tries' \in 0..(RelabelTries - 1) /\ reported' = reported
  BY <1>0, DispatchAssumption DEF Doing, Made
<1>3. CASE /\ pc = "picking" /\ Open(task) /\ todo = <<e>>
           /\ Edit(e, {"ready"}, {"blocked"}) /\ "running" \notin labels[task]
  <2>1. todo' = <<>> /\ task' = NoIssue
    BY <1>0, <1>3, OneOrTwo DEF Made
  <2>2. Open(task) /\ "running" \notin labels'[task] /\ "done" \notin labels'[task]
    BY <1>1, <1>3 DEF Edit, Open
  <2>3. AtTask'
    BY <1>3, <2>1 DEF AtTask, Picking
  <2> QED
    BY <1>0, <1>1, <1>2, <2>1, <2>2, <2>3, CallStep DEF IInv, TypeOK, Open
<1>4. CASE /\ pc = "claiming" /\ Open(task) /\ todo = <<e, Note>>
           /\ Edit(e, {"ready"}, {"running"}) /\ Clears(e, "ready")
  <2>0. Tail(<<e, Note>>) = <<Note>>
    BY <1>0, OneOrTwo
  <2>1. todo' = <<Note>> /\ task' = task
    BY <1>4, <2>0 DEF Made
  <2>2. Open(task) /\ Open(task)' /\ "ready" \notin labels'[task]
    BY <1>1, <1>2, <1>4, <2>1 DEF Edit, Open, Clears
  <2>3. AtTask'
    BY <1>0, <1>4, <2>1, <2>2 DEF IInv, AtTask, Claiming
  <2> QED
    BY <1>0, <1>1, <1>2, <2>1, <2>2, <2>3, CallStep DEF IInv, TypeOK, Open
<1>5. CASE /\ pc = "closing" /\ Open(task) /\ todo = <<e, Note>>
           /\ Edit(e, {"ready", "running"}, {"ready", "blocked"}) /\ Clears(e, "running")
  <2>0. Tail(<<e, Note>>) = <<Note>>
    BY <1>0, OneOrTwo
  <2>1. todo' = <<Note>> /\ task' = task
    BY <1>5, <2>0 DEF Made
  <2>2. Open(task)' /\ "running" \notin labels'[task]
    BY <1>1, <1>2, <1>5, <2>1 DEF Edit, Open, Clears
  <2>3. AtTask'
    BY <1>0, <1>5, <2>1, <2>2 DEF IInv, AtTask, Refusing
  <2> QED
    BY <1>0, <1>1, <1>2, <1>5, <2>1, <2>2, <2>3, CallStep DEF IInv, TypeOK, Open
<1>6. CASE pc = "closing" /\ reported[task] # "none" /\ todo = <<e>> /\ Settles(reported[task], e)
  <2>1. todo' = <<>> /\ task' = task
    BY <1>0, <1>6, OneOrTwo DEF Made
  <2>2. Tells(reported[task], labels'[task]) /\ {"running", "ready"} \cap labels'[task] = {}
    BY <1>1, <1>6 DEF Settles, Edit, Tells, Clears
  <2>3. AtTask'
    BY <1>0, <1>2, <1>6, <2>1, <2>2 DEF IInv, AtTask, Answering
  <2> QED
    BY <1>0, <1>1, <1>2, <1>6, <2>1, <2>2, <2>3, CallStep DEF IInv, TypeOK
<1> QED
  BY <1>3, <1>4, <1>5, <1>6, EditNext

\* Something is left of it: that is sent next.
LEMMA EditResent ==
    ASSUME IInv, Doing, Head(todo).says = "none", NEW rm, NEW ad, NEW rest \in Calls,
           Leaves(Head(todo), rm, ad, rest), labels' = Edited(rm, ad),
           todo' = [todo EXCEPT ![1] = rest], tries' \in 0..(RelabelTries - 1),
           UNCHANGED <<task, reported, halt, pc, queue, haltSeen, okSeen, lost, aborts, orders>>
    PROVE  IInv'
<1> DEFINE e == Head(todo)
<1>0. task \in Issues /\ task \notin queue /\ todo \in Seq(Calls) /\ e \in Calls /\ Note \in Calls
  BY DoingTask, CallTypes DEF Note, Says
<1>1. /\ ad \subseteq Labels /\ rm \subseteq e.remove /\ ad \subseteq e.add
      /\ rest.says = "none" /\ rest.remove \subseteq e.remove /\ rest.add \subseteq e.add
      /\ e.remove \cap labels'[task] \subseteq rest.remove \cup e.add
      /\ e.add \subseteq rest.add \cup labels'[task]
      /\ labels'[task] = (labels[task] \ rm) \cup ad
      /\ labels' \in [Issues -> SUBSET Labels]
      /\ \A i \in Issues \ {task} : labels'[i] = labels[i]
  <2>1. ad \subseteq Labels
    BY <1>0 DEF Leaves, Calls
  <2> QED
    BY <1>0, <2>1, EditedTask DEF Leaves
<1>2. todo' = <<rest>> \/ todo' = <<rest, Note>>
  BY EditNext, Replaced
<1>3. todo' \in Seq(Calls)
  BY <1>0, <1>2, OneOrTwo
<1>4. CASE /\ pc = "picking" /\ Open(task) /\ todo = <<e>>
           /\ Edit(e, {"ready"}, {"blocked"}) /\ "running" \notin labels[task]
  <2>1. todo' = <<rest>>
    BY <1>4, Replaced
  <2>2. Open(task) /\ Open(task)' /\ "running" \notin labels'[task] /\ Edit(rest, {"ready"}, {"blocked"})
    BY <1>1, <1>4 DEF Edit, Open
  <2>3. AtTask'
    BY <1>0, <1>4, <2>1, <2>2 DEF AtTask, Picking
  <2> QED
    BY <1>0, <1>1, <1>3, <2>2, <2>3, CallStep DEF IInv, TypeOK, Open
<1>5. CASE /\ pc = "claiming" /\ Open(task) /\ todo = <<e, Note>>
           /\ Edit(e, {"ready"}, {"running"}) /\ Clears(e, "ready")
  <2>1. todo' = <<rest, Note>>
    BY <1>5, Replaced
  <2>2. Open(task) /\ Open(task)' /\ Edit(rest, {"ready"}, {"running"}) /\ Clears(rest, "ready")'
    BY <1>1, <1>5 DEF Edit, Open, Clears
  <2>3. AtTask'
    BY <1>0, <1>5, <2>1, <2>2 DEF IInv, AtTask, Claiming
  <2> QED
    BY <1>0, <1>1, <1>3, <2>2, <2>3, CallStep DEF IInv, TypeOK, Open
<1>6. CASE /\ pc = "closing" /\ Open(task) /\ todo = <<e, Note>>
           /\ Edit(e, {"ready", "running"}, {"ready", "blocked"}) /\ Clears(e, "running")
  <2>1. todo' = <<rest, Note>>
    BY <1>6, Replaced
  <2>2. /\ Open(task)' /\ Edit(rest, {"ready", "running"}, {"ready", "blocked"})
        /\ Clears(rest, "running")'
    BY <1>1, <1>6 DEF Edit, Open, Clears
  <2>3. AtTask'
    BY <1>0, <1>6, <2>1, <2>2 DEF IInv, AtTask, Refusing
  <2> QED
    BY <1>0, <1>1, <1>3, <1>6, <2>2, <2>3, CallStep DEF IInv, TypeOK, Open
<1>7. CASE pc = "closing" /\ reported[task] # "none" /\ todo = <<e>> /\ Settles(reported[task], e)
  <2>1. todo' = <<rest>>
    BY <1>7, Replaced
  <2>2. Settles(reported[task], rest)'
    BY <1>1, <1>7 DEF Settles, Edit, Tells, Clears
  <2>3. AtTask'
    BY <1>0, <1>7, <2>1, <2>2 DEF IInv, AtTask, Answering
  <2> QED
    BY <1>0, <1>1, <1>3, <1>7, <2>2, <2>3, CallStep DEF IInv, TypeOK, Settles
<1> QED
  BY <1>4, <1>5, <1>6, <1>7, EditNext

LEMMA EditLabelsStep == ASSUME IInv, EditLabels PROVE IInv'
<1> DEFINE e == Head(todo)
<1>1. e \in Calls
  BY DoingTask DEF EditLabels
<1>2. Leaves(e, e.remove, e.add, Relabel({}, {}))
  BY <1>1 DEF Leaves, Relabel, Calls
<1> QED
  BY <1>2, EditMade DEF EditLabels

\* Whatever part of the edit GitHub has applied, and whether the labels could be
\* read back or not.
LEMMA EditFailsStep == ASSUME IInv, EditFails PROVE IInv'
<1> DEFINE e == Head(todo)
<1>1. Doing /\ e.says = "none" /\ UNCHANGED <<reported, halt, orders>>
  BY DEF EditFails
<1>2. task \in Issues /\ e \in Calls
  BY <1>1, DoingTask
<1>3. PICK rm \in SUBSET e.remove, ad \in SUBSET e.add :
         /\ labels' = Edited(rm, ad)
         /\ LET missing == StillMissing(Edited(rm, ad)[task], e.remove, e.add) IN
            \/ /\ LastTry
               /\ aborts < MaxAborts /\ aborts' = aborts + 1
               /\ lost' = lost \cup {task}
               /\ Stop
            \/ /\ ~LastTry
               /\ \/ missing = Relabel({}, {}) /\ Made
                  \/ \E resent \in {missing, e} :
                        /\ resent # Relabel({}, {})
                        /\ todo' = [todo EXCEPT ![1] = resent] /\ tries' = tries + 1
                        /\ UNCHANGED task
               /\ UNCHANGED <<pc, queue, haltSeen, okSeen, lost, aborts>>
  BY DEF EditFails
<1> DEFINE missing == StillMissing(Edited(rm, ad)[task], e.remove, e.add)
<1>4. e.remove \in SUBSET Labels /\ e.add \in SUBSET Labels
  BY <1>2 DEF Calls
<1>5. /\ labels' \in [Issues -> SUBSET Labels]
      /\ labels'[task] = (labels[task] \ rm) \cup ad
      /\ \A i \in Issues \ {task} : labels'[i] = labels[i]
  BY <1>2, <1>3, <1>4, EditedTask
<1>6. /\ missing.says = "none"
      /\ missing.remove = e.remove \cap ((labels[task] \ rm) \cup ad)
      /\ missing.add = e.add \ ((labels[task] \ rm) \cup ad)
      /\ missing \in Calls
  <2>1. missing = Relabel(e.remove \cap labels'[task], e.add \ labels'[task])
    BY <1>3 DEF StillMissing
  <2>2. missing \in Calls
    BY <1>4, <2>1, CallTypes DEF Says
  <2> HIDE DEF missing
  <2> QED
    BY <1>5, <2>1, <2>2 DEF Relabel
<1>7. CASE /\ LastTry /\ Stop /\ aborts < MaxAborts /\ aborts' = aborts + 1
           /\ lost' = lost \cup {task}
  <2>1. aborts' \in 0..MaxAborts /\ lost' \subseteq Issues /\ lost \subseteq lost'
    BY <1>2, <1>7, DispatchAssumption DEF IInv, TypeOK
  <2>2. /\ "ready" \in labels'[task] => reported[task] = "none"
        /\ "done" \in labels'[task] => reported[task] # "none"
    BY <1>1, <1>2, <1>5, TaskLabels, EditNext DEF Open, Settles, Edit
  <2> QED
    BY <1>1, <1>5, <1>7, <2>1, <2>2, StopStep
<1>8. CASE missing = Relabel({}, {}) /\ Made /\ UNCHANGED <<pc, queue, haltSeen, okSeen, lost, aborts>>
  <2>1. Leaves(e, rm, ad, Relabel({}, {}))
    BY <1>6, <1>8 DEF Leaves, Relabel
  <2> QED
    BY <1>1, <1>3, <1>8, <2>1, EditMade
<1>9. ASSUME NEW resent \in {missing, e}, ~LastTry,
             todo' = [todo EXCEPT ![1] = resent], tries' = tries + 1,
             UNCHANGED <<task, pc, queue, haltSeen, okSeen, lost, aborts>>
      PROVE  IInv'
  <2>1. Leaves(e, rm, ad, resent) /\ resent \in Calls
    BY <1>1, <1>2, <1>4, <1>6 DEF Leaves
  <2>2. tries' \in 0..(RelabelTries - 1)
    BY <1>9, DispatchAssumption DEF IInv, TypeOK, LastTry
  <2> QED
    BY <1>1, <1>3, <1>9, <2>1, <2>2, EditResent
<1> QED
  BY <1>3, <1>7, <1>8, <1>9

-----------------------------------------------------------------------------
LEMMA NextIInv == IInv /\ [Next]_vars => IInv'
<1> SUFFICES ASSUME IInv, [Next]_vars PROVE IInv'
  OBVIOUS
<1>1. CASE Step
  BY <1>1, PickStep, RunStep, CloseStep, PostCommentStep, EditLabelsStep, EditFailsStep, EndStep DEF Step
<1>2. CASE Next /\ ~Step
  BY <1>2, OwnerStep, WithdrawStep, BeginStep, AbortStep DEF Next
<1>3. CASE UNCHANGED vars
  <2>1. AtTask'
    BY <1>3, TaskUntouched DEF vars, github, memory
  <2> QED
    BY <1>3, <2>1 DEF vars, github, memory, IInv, TypeOK, LabelsTellTheTruth, ReportBeforeDone,
           NothingStranded, UncleanNeedsClaude, ReadyUnreported, QueueWaits
<1> QED
  BY <1>1, <1>2, <1>3

LEMMA Invariance == Spec => []IInv
BY InitIInv, NextIInv, PTL DEF Spec

\* Every variable keeps its type: what is left to send is a sequence of comments
\* and label edits, and no edit is tried more than RELABEL_TRIES times.
THEOREM TypeCorrect == Spec => []TypeOK
BY Invariance, PTL DEF IInv

\* The labels of every issue agree with what has been posted on it, whatever call
\* fails, however half an edit is applied and wherever the process dies
\* (finish, relabel, dispatch and refuse_tier).
THEOREM LabelsAreTrue == Spec => []LabelsTellTheTruth
BY Invariance, PTL DEF IInv

\* No retry, crash or half-made edit makes the dispatcher run a task whose
\* report is already on the issue.
THEOREM NoTaskRunTwice == Spec => ReportedOnce
<1>1. IInv /\ [Next]_vars => [Run => reported[task] = "none"]_vars
  BY RunStep
<1> QED
  BY <1>1, Invariance, PTL DEF Spec, ReportedOnce
-----------------------------------------------------------------------------
(* A claimed task.                                                         *)

\* Every commit the clone names is in its store.
HasCommits ==
    /\ head.at \in known
    /\ \A b \in Branches : local[b] \in known \cup {NoCommit} /\ tracking[b] \in known

\* What the steps before have settled.
Checking == {"clean", "fetch", "switch", "pull", "mirrors", "verify", "run"}
Prepared ==
    /\ phase \in Checking => ask.branch \in Branches /\ ~err /\ (ask.script => ask.sha # NoCommit)
    /\ phase = "pull" => ~ask.script
    /\ phase \in {"mirrors", "verify", "run"} /\ ask.script => head.at = ask.sha
    /\ phase = "run" => ref = [branch |-> ask.branch, at |-> head.at] /\ (ask.sha # NoCommit => head.at = ask.sha)

\* What is there to be read, and since when.
AgentTexts  == {<<>>} \cup {<<x>> : x \in Blocks} \cup {<<x, y>> : x, y \in Blocks}
ReportFiles == {<<f>> : f \in Files}
Answers ==
    /\ phase # "read" => ran = NoCommit /\ ended = "none"
    /\ ran # NoCommit <=> ended \in {"ok", "failed", "timeout"}
    /\ printed \in AgentTexts \cup ReportFiles
    /\ ran = NoCommit => printed = <<>>
    /\ ran # NoCommit => printed \in IF ask.script THEN ReportFiles ELSE AgentTexts

TaskInv == TaskTypeOK /\ HasCommits /\ Prepared /\ Answers /\ RunsWhatWasAsked /\ KeepsLocalWork
-----------------------------------------------------------------------------
(* Commits.                                                                *)

LEMMA LineageFacts ==
    /\ \A c \in Commits : c \in Lineage(c)
    /\ \A c : Lineage(c) \subseteq Commits
    /\ Lineage(NoCommit) = {}
<1>1. \A c \in Commits : c \in Lineage(c)
  BY DEF Lineage
<1>2. \A c : Lineage(c) \subseteq Commits
  BY DEF Lineage
<1>3. ASSUME NEW d \in Lineage(NoCommit) PROVE FALSE
  <2> DEFINE S == {NoCommit}
  <2>1. S \in SUBSET (Commits \cup {NoCommit}) /\ NoCommit \in S /\ \A x \in S \ {NoCommit} : Parent[x] \in S
    OBVIOUS
  <2>2. d \in Commits /\ d \in S
    BY <1>3, <2>1 DEF Lineage
  <2> QED BY <2>2, TaskAssumption DEF NoCommit
<1> QED
  BY <1>1, <1>2, <1>3

LEMMA LineageGrows ==
    ASSUME NEW d, NEW e, d \in Lineage(e)
    PROVE  Lineage(d) \subseteq Lineage(e)
<1> SUFFICES ASSUME NEW c \in Lineage(d), NEW S \in SUBSET (Commits \cup {NoCommit}),
                    e \in S, \A x \in S \ {NoCommit} : Parent[x] \in S
             PROVE  c \in S
  BY DEF Lineage
<1>1. d \in S
  BY DEF Lineage
<1> QED
  BY <1>1 DEF Lineage

LEMMA BeforeOrder ==
    /\ \A c \in Commits \cup {NoCommit} : Before(c, c)
    /\ \A c, d, e : Before(c, d) /\ Before(d, e) => Before(c, e)
<1>1. \A c \in Commits \cup {NoCommit} : Before(c, c)
  BY LineageFacts DEF Before
<1>2. ASSUME NEW c, NEW d, NEW e, Before(c, d), Before(d, e) PROVE Before(c, e)
  <2>1. CASE c = NoCommit
    BY <2>1 DEF Before
  <2>2. CASE c \in Lineage(d) /\ d = NoCommit
    BY <2>2, LineageFacts
  <2>3. CASE c \in Lineage(d) /\ d \in Lineage(e)
    BY <2>3, LineageGrows DEF Before
  <2> QED BY <1>2, <2>1, <2>2, <2>3 DEF Before
<1> QED
  BY <1>1, <1>2

LEMMA StoreFacts ==
    ASSUME TaskTypeOK
    PROVE  Store \subseteq Commits /\ \A b \in Branches : origin[b] \in Commits /\ origin[b] \in Store
<1>1. \A b \in Branches : origin[b] \in Commits
  BY DEF TaskTypeOK
<1> QED
  BY <1>1, LineageFacts DEF Store
-----------------------------------------------------------------------------
(* The steps of others.                                                    *)

LEMMA TaskInitInv == ASSUME TaskInit PROVE TaskInv
<1>1. TaskTypeOK
  <2>1. origin \in [Branches -> Commits] /\ tracking \in [Branches -> Commits] /\ known \subseteq Commits
    BY TaskAssumption DEF TaskInit
  <2>2. /\ local \in [Branches -> Commits \cup {NoCommit}] /\ was \in [Branches -> Commits \cup {NoCommit}]
        /\ head \in [on : Branches \cup {"detached"}, at : Commits]
    BY TaskAssumption DEF TaskInit
  <2>3. ToSet(printed) \subseteq Blocks \cup Files
    BY DEF TaskInit, ToSet
  <2>4. tasks \in 0..MaxTasks /\ moves \in 0..MaxMoves
    BY TaskAssumption DEF TaskInit
  <2>5. ref \in [branch : Branches \cup {"none"}, at : Commits \cup {NoCommit}] /\ ran \in Commits \cup {NoCommit}
    BY DEF TaskInit, NoRef
  <2> QED BY <2>1, <2>2, <2>3, <2>4, <2>5 DEF TaskInit, TaskTypeOK
<1>2. HasCommits /\ Prepared /\ Answers /\ RunsWhatWasAsked /\ KeepsLocalWork
  BY DEF TaskInit, HasCommits, Prepared, Checking, Answers, AgentTexts, RunsWhatWasAsked, KeepsLocalWork, NoCommit
<1> QED
  BY <1>1, <1>2 DEF TaskInv

LEMMA PushStep == ASSUME TaskInv, NEW b \in Branches, NEW c \in Commits, Push(b, c) PROVE TaskInv'
<1>1. /\ UNCHANGED <<local, tracking, known, head, dirty, ask, phase, err, left, was, ran, ref, printed, ended, swapped,
                    outcome, tasks>>
      /\ origin' = [origin EXCEPT ![b] = c] /\ moves' = moves + 1 /\ moves < MaxMoves
  BY DEF Push, Moves, clone, report
<1>2. TaskTypeOK'
  <2>1. moves' \in 0..MaxMoves /\ origin' \in [Branches -> Commits]
    BY <1>1, TaskAssumption DEF TaskInv, TaskTypeOK
  <2> QED BY <1>1, <2>1 DEF TaskInv, TaskTypeOK
<1> QED
  BY <1>1, <1>2 DEF TaskInv, HasCommits, Prepared, Answers, RunsWhatWasAsked, KeepsLocalWork

LEMMA EditCloneStep == ASSUME TaskInv, EditClone PROVE TaskInv'
<1>1. /\ UNCHANGED <<origin, local, tracking, known, head, ask, phase, err, left, was, ran, ref, printed, ended, swapped,
                    outcome, tasks>>
      /\ dirty' = ~dirty /\ phase = "idle" /\ moves' = moves + 1 /\ moves < MaxMoves
  BY DEF EditClone, Moves, report
<1>2. TaskTypeOK'
  <2>1. moves' \in 0..MaxMoves /\ dirty' \in BOOLEAN
    BY <1>1, TaskAssumption DEF TaskInv, TaskTypeOK
  <2> QED BY <1>1, <2>1 DEF TaskInv, TaskTypeOK
<1> QED
  BY <1>1, <1>2 DEF TaskInv, HasCommits, Prepared, Answers, RunsWhatWasAsked, KeepsLocalWork

LEMMA CommitStep == ASSUME TaskInv, NEW c \in Commits, CommitHere(c) PROVE TaskInv'
<1>1. /\ UNCHANGED <<origin, tracking, dirty, ask, phase, err, left, was, ran, ref, printed, ended, swapped, outcome, tasks>>
      /\ phase = "idle" /\ moves' = moves + 1 /\ moves < MaxMoves /\ head.on \in Branches
      /\ local' = [local EXCEPT ![head.on] = c] /\ head' = [head EXCEPT !.at = c] /\ known' = known \cup {c}
  BY DEF CommitHere, Moves, report
<1>2. TaskTypeOK'
  <2>1. moves' \in 0..MaxMoves /\ known' \subseteq Commits
    BY <1>1, TaskAssumption DEF TaskInv, TaskTypeOK
  <2>2. local' \in [Branches -> Commits \cup {NoCommit}] /\ head' \in [on : Branches \cup {"detached"}, at : Commits]
    BY <1>1 DEF TaskInv, TaskTypeOK
  <2> QED BY <1>1, <2>1, <2>2 DEF TaskInv, TaskTypeOK
<1>3. HasCommits'
  <2>1. head'.at = c /\ \A b \in Branches : local'[b] \in {c, local[b]}
    BY <1>1 DEF TaskInv, TaskTypeOK
  <2> QED BY <1>1, <2>1 DEF TaskInv, HasCommits
<1>4. ran = NoCommit
  BY <1>1 DEF TaskInv, Answers
<1> QED
  BY <1>1, <1>2, <1>3, <1>4 DEF TaskInv, Prepared, Checking, Answers, RunsWhatWasAsked, KeepsLocalWork
-----------------------------------------------------------------------------
(* The steps of the checkout.                                              *)

LEMMA NoRecordYet ==
    ASSUME TaskInv, phase # "read"
    PROVE  ran = NoCommit /\ ended = "none" /\ printed = <<>>
BY DEF TaskInv, Answers

\* What a step of the checkout that leaves the rest alone owes.
LEMMA CheckoutMoves ==
    ASSUME TaskInv, UNCHANGED Rest, dirty' = dirty, phase \in Checking \ {"run"},
           local' \in [Branches -> Commits \cup {NoCommit}], tracking' \in [Branches -> Commits],
           known' \subseteq Commits, head' \in [on : Branches \cup {"detached"}, at : Commits],
           left' \subseteq Mirrors, HasCommits',
           \A b \in Branches : Before(local[b], local'[b]),
           \/ phase' = "read" /\ err' = TRUE
           \/ /\ err' = err /\ ~dirty /\ phase' \in {"fetch", "switch", "pull", "mirrors", "verify"}
              /\ phase' = "pull" => ~ask.script
              /\ phase' \in {"mirrors", "verify"} /\ ask.script => head'.at = ask.sha
    PROVE  TaskInv'
<1>1. UNCHANGED <<origin, ask, was, ran, ref, printed, ended, swapped, outcome, tasks, moves>>
  BY DEF Rest, report
<1>2. ran = NoCommit /\ ended = "none" /\ printed = <<>>
  BY NoRecordYet DEF Checking
<1>3. TaskTypeOK'
  <2>1. phase' \in {"read", "fetch", "switch", "pull", "mirrors", "verify"} /\ err' \in BOOLEAN
    BY DEF TaskInv, TaskTypeOK
  <2> QED BY <1>1, <2>1 DEF TaskInv, TaskTypeOK
<1>4. Prepared'
  BY <1>1 DEF TaskInv, Prepared, Checking
<1>5. Answers' /\ RunsWhatWasAsked'
  BY <1>1, <1>2 DEF Answers, RunsWhatWasAsked, AgentTexts
<1>6. KeepsLocalWork'
  <2>1. \A b \in Branches : Before(was[b], local[b])
    BY DEF TaskInv, KeepsLocalWork, Checking
  <2>2. \A b \in Branches : Before(was[b], local'[b])
    BY <2>1, BeforeOrder
  <2> QED BY <1>1, <2>2 DEF KeepsLocalWork
<1> QED
  BY <1>3, <1>4, <1>5, <1>6 DEF TaskInv

\* What the checkout may use.
LEMMA CheckoutNow ==
    ASSUME TaskInv, phase \in {"clean", "fetch", "switch", "pull", "mirrors", "verify"}
    PROVE  /\ local \in [Branches -> Commits \cup {NoCommit}] /\ tracking \in [Branches -> Commits]
           /\ origin \in [Branches -> Commits]
           /\ known \subseteq Commits /\ head \in [on : Branches \cup {"detached"}, at : Commits]
           /\ left \subseteq Mirrors /\ Mirrors \subseteq Branches /\ HasCommits
           /\ phase # "clean" => ~dirty
           /\ ask.branch \in Branches /\ ~err
           /\ \A b \in Branches : Before(local[b], local[b])
<1>1. \A b \in Branches : Before(local[b], local[b])
  BY BeforeOrder DEF TaskInv, TaskTypeOK
<1> QED
  BY <1>1, TaskAssumption DEF TaskInv, TaskTypeOK, Prepared, Checking, KeepsLocalWork

LEMMA ClaimTaskStep == ASSUME TaskInv, NEW a \in Asks, ClaimTask(a) PROVE TaskInv'
<1>1. /\ UNCHANGED <<origin, local, tracking, known, head, dirty, ran, ref, printed, ended, swapped, moves>>
      /\ phase = "idle" /\ tasks < MaxTasks /\ tasks' = tasks + 1
      /\ ask' = a /\ was' = local /\ left' = Mirrors /\ outcome' = "none" /\ err' = ~Readable(a)
      /\ phase' = IF Readable(a) /\ (a.script => a.sha # NoCommit) THEN "clean" ELSE "read"
  BY DEF ClaimTask, clone
<1>2. ran = NoCommit /\ ended = "none" /\ printed = <<>>
  BY <1>1, NoRecordYet
<1>3. TaskTypeOK'
  <2>1. tasks' \in 0..MaxTasks /\ err' \in BOOLEAN
    BY <1>1, TaskAssumption DEF TaskInv, TaskTypeOK, Readable
  <2> QED BY <1>1, <2>1 DEF TaskInv, TaskTypeOK
<1>4. HasCommits' /\ Answers' /\ RunsWhatWasAsked'
  BY <1>1, <1>2 DEF TaskInv, HasCommits, Answers, AgentTexts, RunsWhatWasAsked
<1>6. Prepared'
  BY <1>1 DEF Prepared, Checking, Readable
<1>5. KeepsLocalWork'
  <2>1. \A b \in Branches : Before(local[b], local[b])
    BY BeforeOrder DEF TaskInv, TaskTypeOK
  <2> QED BY <1>1, <2>1 DEF KeepsLocalWork
<1> QED
  BY <1>3, <1>4, <1>5, <1>6 DEF TaskInv

LEMMA CleanStep == ASSUME TaskInv, Clean PROVE TaskInv'
<1>1. /\ UNCHANGED <<local, tracking, known, head, dirty, left>> /\ UNCHANGED Rest /\ phase = "clean"
      /\ \/ phase' = "read" /\ err' = TRUE
         \/ ~dirty /\ phase' = "fetch" /\ err' = err
  BY DEF Clean, clone, CannotCheck, Goes
<1>2. HasCommits'
  BY <1>1, CheckoutNow DEF HasCommits
<1> QED
  BY <1>1, <1>2, CheckoutNow, CheckoutMoves DEF Checking

LEMMA FetchStep == ASSUME TaskInv, Fetch PROVE TaskInv'
<1>1. /\ UNCHANGED <<local, head, dirty, left>> /\ UNCHANGED Rest /\ phase = "fetch"
      /\ \/ tracking' = origin /\ known' = known \cup Store /\ phase' = "switch" /\ err' = err
         \/ phase' = "read" /\ err' = TRUE /\ UNCHANGED <<tracking, known>>
  BY DEF Fetch, CannotCheck, Goes
<1>2. Store \subseteq Commits /\ \A b \in Branches : origin[b] \in Store
  BY StoreFacts DEF TaskInv
<1>3. HasCommits' /\ tracking' \in [Branches -> Commits] /\ known' \subseteq Commits
  BY <1>1, <1>2, CheckoutNow DEF HasCommits
<1> QED
  BY <1>1, <1>3, CheckoutNow, CheckoutMoves DEF Checking

LEMMA SwitchStep == ASSUME TaskInv, Switch PROVE TaskInv'
<1> DEFINE b == ask.branch
           c == IF local[b] = NoCommit THEN tracking[b] ELSE local[b]
<1>1. /\ UNCHANGED <<tracking, known, dirty, left>> /\ UNCHANGED Rest /\ phase = "switch" /\ ~ask.script
      /\ local' = [local EXCEPT ![b] = c] /\ head' = [on |-> b, at |-> c] /\ phase' = "pull" /\ err' = err
  BY DEF Switch, Goes
<1>2. b \in Branches /\ c \in known /\ c \in Commits /\ Before(local[b], c)
  <2>1. b \in Branches /\ HasCommits /\ known \subseteq Commits /\ Before(local[b], local[b])
    BY <1>1, CheckoutNow
  <2>2. c \in known
    BY <2>1 DEF HasCommits
  <2> QED BY <2>1, <2>2 DEF Before
<1> HIDE DEF b, c
<1>3. /\ local' \in [Branches -> Commits \cup {NoCommit}] /\ head' \in [on : Branches \cup {"detached"}, at : Commits]
      /\ head'.at = c /\ local'[b] = c /\ \A d \in Branches : d # b => local'[d] = local[d]
  BY <1>1, <1>2, CheckoutNow
<1>4. HasCommits' /\ \A d \in Branches : Before(local[d], local'[d])
  BY <1>1, <1>2, <1>3, CheckoutNow DEF HasCommits
<1> QED
  BY <1>1, <1>3, <1>4, CheckoutNow, CheckoutMoves DEF Checking

LEMMA DetachStep == ASSUME TaskInv, Detach PROVE TaskInv'
<1>1. /\ UNCHANGED <<local, tracking, known, dirty, left>> /\ UNCHANGED Rest /\ phase = "switch" /\ ask.script
      /\ \/ /\ ask.sha \in known /\ head' = [on |-> "detached", at |-> ask.sha] /\ phase' = "mirrors" /\ err' = err
         \/ phase' = "read" /\ err' = TRUE /\ head' = head
  BY DEF Detach, CannotCheck, Goes
<1>2. HasCommits' /\ head' \in [on : Branches \cup {"detached"}, at : Commits]
  BY <1>1, CheckoutNow DEF HasCommits
<1>3. phase' = "mirrors" => head'.at = ask.sha
  BY <1>1
<1>4. \/ phase' = "read" /\ err' = TRUE
      \/ phase' = "mirrors" /\ err' = err /\ ~dirty
  BY <1>1, CheckoutNow
<1> QED
  BY <1>1, <1>2, <1>3, <1>4, CheckoutNow, CheckoutMoves DEF Checking

LEMMA PullStep == ASSUME TaskInv, Pull PROVE TaskInv'
<1> DEFINE b == ask.branch
           c == origin[b]
<1>1. /\ UNCHANGED <<dirty, left>> /\ UNCHANGED Rest /\ phase = "pull"
      /\ \/ /\ tracking' = origin /\ known' = known \cup Store /\ Before(local[b], c)
            /\ local' = [local EXCEPT ![b] = c] /\ head' = [head EXCEPT !.at = c] /\ phase' = "mirrors" /\ err' = err
         \/ /\ tracking' = origin /\ known' = known \cup Store /\ UNCHANGED <<local, head>>
            /\ phase' = "mirrors" /\ err' = err
         \/ /\ tracking' = origin /\ known' = known \cup Store /\ UNCHANGED <<local, head>>
            /\ phase' = "read" /\ err' = TRUE
         \/ UNCHANGED <<tracking, known, local, head>> /\ phase' = "read" /\ err' = TRUE
  BY DEF Pull, CannotCheck, Goes
<1>2. b \in Branches /\ c \in Commits /\ ~ask.script
  BY <1>1, CheckoutNow DEF TaskInv, Prepared
<1>3. Store \subseteq Commits /\ \A d \in Branches : origin[d] \in Store
  BY StoreFacts DEF TaskInv
<1>4. tracking' \in [Branches -> Commits] /\ known' \subseteq Commits /\ known \subseteq known'
      /\ \A d \in Branches : tracking'[d] \in known'
  BY <1>1, <1>3, CheckoutNow DEF HasCommits
<1>5. c \in Store
  BY <1>2, <1>3
<1> HIDE DEF b, c
<1>6. CASE /\ known' = known \cup Store /\ Before(local[b], c)
           /\ local' = [local EXCEPT ![b] = c] /\ head' = [head EXCEPT !.at = c] /\ phase' = "mirrors" /\ err' = err
  <2>1. /\ local' \in [Branches -> Commits \cup {NoCommit}] /\ head' \in [on : Branches \cup {"detached"}, at : Commits]
        /\ head'.at = c /\ local'[b] = c /\ \A d \in Branches : d # b => local'[d] = local[d]
    BY <1>1, <1>2, <1>6, CheckoutNow
  <2>2. HasCommits' /\ \A d \in Branches : Before(local[d], local'[d])
    BY <1>1, <1>4, <1>5, <1>6, <2>1, CheckoutNow DEF HasCommits
  <2> QED BY <1>1, <1>2, <1>4, <1>6, <2>1, <2>2, CheckoutNow, CheckoutMoves DEF Checking
<1>7. CASE UNCHANGED <<local, head>> /\ ((phase' = "mirrors" /\ err' = err) \/ (phase' = "read" /\ err' = TRUE))
  <2>1. HasCommits'
    BY <1>1, <1>4, <1>7, CheckoutNow DEF HasCommits
  <2> QED BY <1>1, <1>2, <1>4, <1>7, <2>1, CheckoutNow, CheckoutMoves DEF Checking
<1> QED
  BY <1>1, <1>6, <1>7

LEMMA MirrorStep == ASSUME TaskInv, Mirror PROVE TaskInv'
<1>1. /\ UNCHANGED <<tracking, head, dirty>> /\ UNCHANGED Rest /\ phase = "mirrors"
      /\ \/ \E m \in left :
              /\ left' = left \ {m}
              /\ \/ UNCHANGED <<local, known>> /\ phase' = "mirrors" /\ err' = err
                 \/ /\ Before(local[m], origin[m]) /\ local' = [local EXCEPT ![m] = origin[m]]
                    /\ known' = known \cup Lineage(origin[m]) /\ phase' = "mirrors" /\ err' = err
                 \/ UNCHANGED <<local, known>> /\ phase' = "read" /\ err' = TRUE
         \/ phase' = "verify" /\ err' = err /\ UNCHANGED <<local, known, left>>
  BY DEF Mirror, FastForward, CannotCheck, Goes
<1>2. left' \subseteq Mirrors
  BY <1>1, CheckoutNow
<1>3. ask.script => head'.at = ask.sha
  BY <1>1 DEF TaskInv, Prepared
<1>4. CASE UNCHANGED <<local, known>> /\ ((phase' \in {"mirrors", "verify"} /\ err' = err) \/ (phase' = "read" /\ err' = TRUE))
  <2>1. HasCommits'
    BY <1>1, <1>4, CheckoutNow DEF HasCommits
  <2> QED BY <1>1, <1>2, <1>3, <1>4, <2>1, CheckoutNow, CheckoutMoves DEF Checking
<1>5. ASSUME NEW m \in left, Before(local[m], origin[m]), local' = [local EXCEPT ![m] = origin[m]],
             known' = known \cup Lineage(origin[m]), phase' = "mirrors", err' = err
      PROVE  TaskInv'
  <2> DEFINE c == origin[m]
  <2>1. m \in Branches /\ c \in Commits /\ c \in Lineage(c) /\ Lineage(c) \subseteq Commits
    BY <1>1, CheckoutNow, LineageFacts
  <2> HIDE DEF c
  <2>2. /\ local' \in [Branches -> Commits \cup {NoCommit}] /\ local'[m] = c
        /\ \A d \in Branches : d # m => local'[d] = local[d]
    BY <1>1, <1>5, <2>1, CheckoutNow DEF c
  <2>3. HasCommits' /\ known' \subseteq Commits
    BY <1>1, <1>5, <2>1, <2>2, CheckoutNow DEF HasCommits, c
  <2>4. \A d \in Branches : Before(local[d], local'[d])
    BY <1>1, <1>5, <2>2, CheckoutNow DEF c
  <2> QED BY <1>1, <1>2, <1>3, <1>5, <2>2, <2>3, <2>4, CheckoutNow, CheckoutMoves DEF Checking
<1> QED
  BY <1>1, <1>4, <1>5

LEMMA VerifyStep == ASSUME TaskInv, Verify PROVE TaskInv'
<1>1. /\ UNCHANGED <<local, tracking, known, head, dirty, left, origin, ask, was, ran, printed, ended, swapped, outcome,
                    tasks, moves>>
      /\ phase = "verify"
      /\ \/ /\ ask.script \/ ask.sha \in {NoCommit, head.at}
            /\ phase' = "run" /\ err' = err /\ ref' = [branch |-> ask.branch, at |-> head.at]
         \/ phase' = "read" /\ err' = TRUE /\ ref' = ref
  BY DEF Verify, clone, Goes, CannotCheck
<1>2. ran = NoCommit /\ ended = "none" /\ printed = <<>> /\ ~dirty
  BY <1>1, NoRecordYet, CheckoutNow
<1>3. ask.script => head.at = ask.sha
  BY <1>1 DEF TaskInv, Prepared
<1>4. TaskTypeOK'
  <2>1. ref' \in [branch : Branches \cup {"none"}, at : Commits \cup {NoCommit}]
    BY <1>1, CheckoutNow DEF TaskInv, TaskTypeOK
  <2>2. phase' \in {"run", "read"} /\ err' \in BOOLEAN
    BY <1>1 DEF TaskInv, TaskTypeOK
  <2> QED BY <1>1, <2>1, <2>2 DEF TaskInv, TaskTypeOK
<1>5. HasCommits' /\ Answers' /\ RunsWhatWasAsked'
  BY <1>1, <1>2 DEF TaskInv, HasCommits, Answers, AgentTexts, RunsWhatWasAsked
<1>6. Prepared'
  BY <1>1, <1>3 DEF TaskInv, Prepared, Checking
<1>7. KeepsLocalWork'
  BY <1>1, <1>2 DEF TaskInv, KeepsLocalWork
<1> QED
  BY <1>4, <1>5, <1>6, <1>7 DEF TaskInv
-----------------------------------------------------------------------------
(* The run and its report.                                                 *)

LEMMA TextTypes == \A x \in AgentTexts \cup ReportFiles : ToSet(x) \subseteq Blocks \cup Files
<1>1. ASSUME NEW x \in Blocks PROVE ToSet(<<x>>) \subseteq Blocks
  BY DEF ToSet
<1>2. ASSUME NEW x \in Files PROVE ToSet(<<x>>) \subseteq Files
  BY DEF ToSet
<1>3. ASSUME NEW x \in Blocks, NEW y \in Blocks PROVE ToSet(<<x, y>>) \subseteq Blocks
  BY DEF ToSet
<1>4. ToSet(<<>>) = {}
  BY DEF ToSet
<1> QED
  BY <1>1, <1>2, <1>3, <1>4 DEF AgentTexts, ReportFiles

LEMMA RunsStep == ASSUME TaskInv, Runs PROVE TaskInv'
<1>1. /\ UNCHANGED <<origin, local, tracking, known, head, dirty, ask, err, left, was, ref, outcome, tasks, moves>>
      /\ phase = "run" /\ phase' = "read" /\ ended' \in {"ok", "failed", "closed", "unready", "timeout"}
      /\ \/ /\ ended' \in {"closed", "unready"} /\ printed' = <<>> /\ swapped' = FALSE /\ ran' = ran
         \/ /\ ended' \in {"ok", "failed", "timeout"} /\ ran' = head.at /\ swapped' \in BOOLEAN
            /\ printed' \in IF ask.script THEN ReportFiles ELSE AgentTexts
  <2>1. PICK e \in {"ok", "failed", "closed", "unready", "timeout"} :
            /\ ended' = e
            /\ IF e \in {"closed", "unready"}
               THEN printed' = <<>> /\ swapped' = FALSE /\ UNCHANGED ran
               ELSE /\ ran' = head.at
                    /\ IF ask.script THEN printed' \in ReportFiles /\ swapped' = FALSE
                                     ELSE printed' \in AgentTexts /\ swapped' \in BOOLEAN
    BY DEF Runs, ReportFiles, AgentTexts
  <2>2. /\ UNCHANGED <<origin, local, tracking, known, head, dirty, ask, err, left, was, ref, outcome, tasks, moves>>
        /\ phase = "run" /\ phase' = "read"
    BY DEF Runs, clone
  <2> QED BY <2>1, <2>2
<1>2. ran = NoCommit
  BY <1>1, NoRecordYet
<1>3. /\ ref = [branch |-> ask.branch, at |-> head.at] /\ (ask.sha # NoCommit => head.at = ask.sha) /\ ~err
      /\ head.at \in known /\ head.at \in Commits /\ head.at # NoCommit /\ ~dirty
  BY <1>1, TaskAssumption DEF TaskInv, TaskTypeOK, Prepared, Checking, HasCommits, KeepsLocalWork
<1>4. printed' \in AgentTexts \cup ReportFiles
  BY <1>1 DEF AgentTexts
<1>5. TaskTypeOK'
  <2>1. ToSet(printed') \subseteq Blocks \cup Files
    BY <1>4, TextTypes
  <2>2. ran' \in Commits \cup {NoCommit} /\ swapped' \in BOOLEAN
    BY <1>1, <1>2, <1>3
  <2> QED BY <1>1, <2>1, <2>2 DEF TaskInv, TaskTypeOK
<1>6. Answers'
  BY <1>1, <1>2, <1>3, <1>4 DEF Answers
<1>7. RunsWhatWasAsked'
  BY <1>1, <1>2, <1>3 DEF RunsWhatWasAsked
<1>8. HasCommits' /\ Prepared' /\ KeepsLocalWork'
  BY <1>1, <1>3 DEF TaskInv, HasCommits, Prepared, Checking, KeepsLocalWork
<1> QED
  BY <1>5, <1>6, <1>7, <1>8 DEF TaskInv

LEMMA OutcomeTypes == ASSUME TaskInv, Read PROVE outcome' \in {"passed", "judged", "blocked", "requeued", "refused"}
<1>1. \A v : Answered(v) \in {"passed", "judged", "blocked"}
  BY DEF Answered
<1> QED
  BY <1>1 DEF Read, ReadScript, ReadAgent

LEMMA ReadStep == ASSUME TaskInv, Read PROVE TaskInv'
<1>1. /\ UNCHANGED <<origin, local, tracking, known, head, dirty, was, tasks, moves>>
      /\ phase' = "idle" /\ ask' = NoAsk /\ err' = FALSE /\ left' = {}
      /\ ran' = NoCommit /\ ref' = NoRef /\ printed' = <<>> /\ ended' = "none" /\ swapped' = FALSE
  BY DEF Read, clone
<1>2. TaskTypeOK'
  <2>1. ref' \in [branch : Branches \cup {"none"}, at : Commits \cup {NoCommit}]
    BY <1>1 DEF NoRef
  <2>2. ToSet(printed') \subseteq Blocks \cup Files
    BY <1>1, TextTypes DEF AgentTexts
  <2> QED BY <1>1, <2>1, <2>2, OutcomeTypes DEF TaskInv, TaskTypeOK
<1> QED
  BY <1>1, <1>2 DEF TaskInv, HasCommits, Prepared, Checking, Answers, AgentTexts, RunsWhatWasAsked, KeepsLocalWork

LEMMA TaskNextInv == ASSUME TaskInv, [TaskNext]_taskVars PROVE TaskInv'
<1>1. CASE UNCHANGED taskVars
  BY <1>1 DEF taskVars, clone, report, TaskInv, TaskTypeOK, HasCommits, Prepared, Answers, RunsWhatWasAsked, KeepsLocalWork
<1> QED
  BY <1>1, PushStep, EditCloneStep, CommitStep, ClaimTaskStep, CleanStep, FetchStep, SwitchStep, DetachStep, PullStep,
     MirrorStep, VerifyStep, RunsStep, ReadStep DEF TaskNext

\* The block found is this task's, and none of its own comes after it.
LEMMA FoundIsLast ==
    ASSUME NEW p \in AgentTexts
    PROVE  \/ FindReport(p) = "none" /\ \A n \in DOMAIN p : p[n] = "foreign"
           \/ \E n \in DOMAIN p : /\ FindReport(p) = p[n] /\ p[n] # "foreign" /\ p[n] \in Blocks
                                  /\ \A k \in n + 1..Len(p) : p[k] = "foreign"
                                  /\ \A k \in DOMAIN p : p[k] # "foreign" => k <= n
<1> DEFINE mine == {n \in DOMAIN p : p[n] # "foreign"}
<1>1. Len(p) \in 0..2 /\ DOMAIN p = 1..Len(p) /\ \A n \in DOMAIN p : p[n] \in Blocks
  BY DEF AgentTexts
<1>2. CASE mine = {}
  BY <1>2 DEF FindReport
<1>3. CASE mine # {}
  <2>1. \E x \in mine : \A y \in mine : x >= y
    <3>1. mine \subseteq 1..2
      BY <1>1
    <3>2. CASE 2 \in mine
      BY <3>1, <3>2
    <3>3. CASE 2 \notin mine
      BY <1>3, <3>1, <3>3
    <3> QED BY <3>2, <3>3
  <2>2. Max(mine) \in mine /\ \A y \in mine : Max(mine) >= y
    BY <2>1 DEF Max
  <2> DEFINE n == Max(mine)
  <2>3. FindReport(p) = p[n]
    BY <1>3 DEF FindReport
  <2>4. n \in DOMAIN p /\ p[n] # "foreign" /\ \A k \in DOMAIN p : p[k] # "foreign" => k <= n
    BY <1>1, <2>2
  <2> HIDE DEF n
  <2>5. \A k \in n + 1..Len(p) : p[k] = "foreign"
    BY <1>1, <2>4
  <2> QED BY <1>1, <2>3, <2>4, <2>5
<1> QED
  BY <1>2, <1>3

LEMMA VerdictStep ==
    ASSUME TaskInv, Read
    PROVE  /\ outcome' = "passed" =>
               /\ ran # NoCommit /\ ended = "ok"
               /\ \E n \in DOMAIN printed :
                      printed[n] = "pass" /\ \A k \in n + 1..Len(printed) : printed[k] = "foreign"
           /\ (outcome' = "requeued" /\ ran # NoCommit) =>
               \A n \in DOMAIN printed : printed[n] \in Verdicts =>
                   \E k \in n + 1..Len(printed) : printed[k] = "template"
<1>1. /\ ran # NoCommit <=> ended \in {"ok", "failed", "timeout"}
      /\ ran # NoCommit => printed \in IF ask.script THEN ReportFiles ELSE AgentTexts
  BY DEF TaskInv, Answers
<1>2. \A v : (Answered(v) = "passed" => v = "pass" /\ ended = "ok") /\ Answered(v) # "requeued"
  BY DEF Answered
<1>3. CASE ask.script
  <2>1. outcome' = ReadScript
    BY <1>3 DEF Read
  <2>2. outcome' # "requeued" \/ ended = "unready"
    BY <1>2, <2>1 DEF ReadScript
  <2>3. ASSUME outcome' = "passed" PROVE Last(printed) = "pass" /\ ended = "ok"
    BY <1>2, <2>1, <2>3 DEF ReadScript
  <2>4. ASSUME outcome' = "passed" PROVE 1 \in DOMAIN printed /\ printed[1] = "pass" /\ Len(printed) = 1
    <3>1. PICK f \in Files : printed = <<f>>
      BY <1>1, <1>3, <2>3, <2>4 DEF ReportFiles
    <3> QED BY <2>3, <2>4, <3>1 DEF Last
  <2>5. ASSUME outcome' = "passed" PROVE \A k \in 1 + 1..Len(printed) : printed[k] = "foreign"
    <3>1. Len(printed) = 1
      BY <2>4, <2>5
    <3> QED BY <3>1
  <2>6. outcome' = "passed" => ran # NoCommit
    BY <1>1, <2>3
  <2>7. ~(outcome' = "requeued" /\ ran # NoCommit)
    BY <1>1, <2>2
  <2> QED BY <2>3, <2>4, <2>5, <2>6, <2>7
<1>4. CASE ~ask.script
  <2> DEFINE v == FindReport(printed)
  <2>1. outcome' = ReadAgent
    BY <1>4 DEF Read
  <2>2. ASSUME outcome' = "passed" PROVE v = "pass" /\ ended = "ok" /\ ran # NoCommit
    BY <1>1, <1>2, <2>1, <2>2 DEF ReadAgent
  <2>3. ASSUME outcome' = "requeued", ran # NoCommit PROVE v \notin Verdicts
    BY <1>1, <1>2, <2>1, <2>3 DEF ReadAgent
  <2>4. ASSUME ran # NoCommit
        PROVE  \/ v = "none" /\ \A n \in DOMAIN printed : printed[n] = "foreign"
               \/ \E n \in DOMAIN printed : /\ v = printed[n] /\ printed[n] # "foreign" /\ printed[n] \in Blocks
                                            /\ \A k \in n + 1..Len(printed) : printed[k] = "foreign"
                                            /\ \A k \in DOMAIN printed : printed[k] # "foreign" => k <= n
    BY <1>1, <1>4, <2>4, FoundIsLast
  <2> HIDE DEF v
  <2>5. ASSUME outcome' = "passed"
        PROVE  \E n \in DOMAIN printed : printed[n] = "pass" /\ \A k \in n + 1..Len(printed) : printed[k] = "foreign"
    BY <2>2, <2>4, <2>5
  <2>6. ASSUME outcome' = "requeued", ran # NoCommit, NEW n \in DOMAIN printed, printed[n] \in Verdicts
        PROVE  \E k \in n + 1..Len(printed) : printed[k] = "template"
    <3>1. printed[n] # "foreign"
      BY <2>6 DEF Verdicts
    <3>2. PICK k \in DOMAIN printed : v = printed[k] /\ printed[k] # "foreign" /\ printed[k] \in Blocks /\ n <= k
      BY <2>4, <2>6, <3>1
    <3>3. printed[k] = "template" /\ k # n
      BY <2>3, <2>6, <3>2 DEF Blocks
    <3>4. DOMAIN printed = 1..Len(printed) /\ Len(printed) \in Nat
      BY <1>1, <1>4, <2>6 DEF AgentTexts
    <3> QED BY <3>2, <3>3, <3>4
  <2> QED BY <2>2, <2>5, <2>6
<1> QED
  BY <1>3, <1>4

\* Whatever moves at origin and in the clone, whichever check fails and however
\* a run ends: what runs is what the issue asks for, a branch of the clone only
\* moves forward, and a clean PASS is the last word of the task's own report
\* (prepare_checkout, prepare_exact_checkout, find_report, load_script_report).
THEOREM TaskHolds == TaskSpec => TaskIsTrue
<1>1. TaskInit => TaskInv
  BY TaskInitInv
<1>2. TaskInv /\ [TaskNext]_taskVars => TaskInv'
  BY TaskNextInv
<1>3. TaskInv => TaskTypeOK /\ RunsWhatWasAsked /\ KeepsLocalWork
  BY DEF TaskInv
<1> DEFINE Sound == Read =>
        /\ outcome' = "passed" =>
               /\ ran # NoCommit /\ ended = "ok"
               /\ \E n \in DOMAIN printed :
                      printed[n] = "pass" /\ \A k \in n + 1..Len(printed) : printed[k] = "foreign"
        /\ (outcome' = "requeued" /\ ran # NoCommit) =>
               \A n \in DOMAIN printed : printed[n] \in Verdicts =>
                   \E k \in n + 1..Len(printed) : printed[k] = "template"
<1>4. TaskInv /\ [TaskNext]_taskVars => [Sound]_taskVars
  BY VerdictStep
<1>5. TaskSpec => [](TaskTypeOK /\ RunsWhatWasAsked /\ KeepsLocalWork)
  BY <1>1, <1>2, <1>3, PTL DEF TaskSpec
<1>6. TaskSpec => [][Sound]_taskVars
  BY <1>1, <1>2, <1>4, PTL DEF TaskSpec
<1> QED
  BY <1>5, <1>6 DEF TaskIsTrue, VerdictIsTheReports
===============================================================================
