----------------------------- MODULE JournalFollower -----------------------------
(***************************************************************************)
(* The follower of the chat journal (live_dashboard/collectors.py): a loop *)
(* that runs journalctl again and again, for every child a watcher thread  *)
(* that reports a quiet one up, and stop(), called from the main thread.   *)
(*                                                                         *)
(* A cycle is one child; its flags `ended` and `reported` are its own and  *)
(* outlive it in the watcher.  Lines carry nothing here.                   *)
(***************************************************************************)
EXTENDS Integers, Sequences, FiniteSets

CONSTANTS
    MaxCycles   \* bound: children started

VARIABLES
    pc,        \* where the follower thread is
    cycle,     \* number of the cycle it is in
    child,     \* per cycle: the journalctl process
    ended,     \* per cycle: the Event
    reported,  \* per cycle: up["reported"]
    watcher,   \* per cycle: its alive_watch thread
    proc,      \* self._proc: the cycle whose child is published
    stop,      \* self._stop
    stopper,   \* the thread in stop(), and the child it saw
    state      \* what on_state was told, in order of the calls

vars == <<pc, cycle, child, ended, reported, watcher, proc, stop, stopper, state>>

Cycles == 1..MaxCycles

Init ==
    /\ pc = "loop" /\ cycle = 0
    /\ child = [c \in Cycles |-> "none"]
    /\ ended = [c \in Cycles |-> FALSE] /\ reported = [c \in Cycles |-> FALSE]
    /\ watcher = [c \in Cycles |-> "none"]
    /\ proc = 0 /\ stop = FALSE
    /\ stopper = [pc |-> "none", saw |-> 0]
    /\ state = <<>>

-------------------------------------------------------------------------------
\* Popen, which may fail; the child is not published yet.
Spawn ==
    /\ pc = "loop" /\ ~stop /\ cycle < MaxCycles
    /\ cycle' = cycle + 1
    /\ \/ child' = [child EXCEPT ![cycle + 1] = "alive"] /\ pc' = "publish"
       \/ pc' = "down" /\ UNCHANGED child
    /\ UNCHANGED <<ended, reported, watcher, proc, stop, stopper, state>>

Publish ==
    /\ pc = "publish"
    /\ proc' = cycle /\ pc' = "check"
    /\ UNCHANGED <<cycle, child, ended, reported, watcher, stop, stopper, state>>

\* A cycle that reads without looking at _stop again, for comparison.
CheckNothing ==
    /\ pc = "check"
    /\ pc' = "read" /\ watcher' = [watcher EXCEPT ![cycle] = "waits"]
    /\ UNCHANGED <<cycle, child, ended, reported, proc, stop, stopper, state>>

\* stop() may have run before _proc was published.
Check ==
    /\ pc = "check"
    /\ IF stop THEN pc' = "ending" /\ UNCHANGED watcher
               ELSE pc' = "read" /\ watcher' = [watcher EXCEPT ![cycle] = "waits"]
    /\ UNCHANGED <<cycle, child, ended, reported, proc, stop, stopper, state>>

\* report_up without the test of `ended`, for comparison.
ReportUpLate(c) ==
    IF ~reported[c] THEN state' = Append(state, "up") /\ reported' = [reported EXCEPT ![c] = TRUE]
    ELSE UNCHANGED <<state, reported>>

\* Under the cycle's gate: never after its end.
ReportUp(c) ==
    IF ~ended[c] /\ ~reported[c] THEN state' = Append(state, "up") /\ reported' = [reported EXCEPT ![c] = TRUE]
    ELSE UNCHANGED <<state, reported>>

\* A line arrived; when stop is set the loop ends with it.
Reads ==
    /\ pc = "read" /\ child[cycle] = "alive"
    /\ ReportUp(cycle)
    /\ pc' = IF stop THEN "ending" ELSE "read"
    /\ UNCHANGED <<cycle, child, ended, watcher, proc, stop, stopper>>

EndOfOutput ==
    /\ pc = "read" /\ child[cycle] = "dead"
    /\ pc' = "ending"
    /\ UNCHANGED <<cycle, child, ended, reported, watcher, proc, stop, stopper, state>>

CycleEnds ==
    /\ pc = "ending"
    /\ ended' = [ended EXCEPT ![cycle] = TRUE]
    /\ pc' = "reap"
    /\ UNCHANGED <<cycle, child, reported, watcher, proc, stop, stopper, state>>

\* _end: terminate, then kill, whoever calls it.
End(c) == [child EXCEPT ![c] = IF @ = "alive" THEN "dead" ELSE @]

Reap ==
    /\ pc = "reap"
    /\ child' = End(cycle) /\ pc' = "down"
    /\ UNCHANGED <<cycle, ended, reported, watcher, proc, stop, stopper, state>>

\* on_state(False), then the backoff, cut short by stop.
Down ==
    /\ pc = "down"
    /\ state' = Append(state, "down")
    /\ pc' = IF stop THEN "finished" ELSE "loop"
    /\ UNCHANGED <<cycle, child, ended, reported, watcher, proc, stop, stopper>>

LoopEnds ==
    /\ pc = "loop" /\ stop
    /\ pc' = "finished"
    /\ UNCHANGED <<cycle, child, ended, reported, watcher, proc, stop, stopper, state>>

ChildDies ==
    /\ \E c \in Cycles : child[c] = "alive" /\ child' = [child EXCEPT ![c] = "dead"]
    /\ UNCHANGED <<pc, cycle, ended, reported, watcher, proc, stop, stopper, state>>

\* alive_watch: not ended in time, then is the child alive, then report.
WatcherWakes(c) ==
    /\ watcher[c] = "waits"
    /\ watcher' = [watcher EXCEPT ![c] = IF ended[c] THEN "none" ELSE "polls"]
    /\ UNCHANGED <<pc, cycle, child, ended, reported, proc, stop, stopper, state>>

WatcherPolls(c) ==
    /\ watcher[c] = "polls"
    /\ watcher' = [watcher EXCEPT ![c] = IF child[c] = "alive" THEN "reports" ELSE "none"]
    /\ UNCHANGED <<pc, cycle, child, ended, reported, proc, stop, stopper, state>>

WatcherReports(c) ==
    /\ watcher[c] = "reports"
    /\ ReportUp(c)
    /\ watcher' = [watcher EXCEPT ![c] = "none"]
    /\ UNCHANGED <<pc, cycle, child, ended, proc, stop, stopper>>

\* stop(): set the flag, read _proc, end that child, join for 5 s.
StopSets ==
    /\ stopper.pc = "none"
    /\ stop' = TRUE /\ stopper' = [stopper EXCEPT !.pc = "look"]
    /\ UNCHANGED <<pc, cycle, child, ended, reported, watcher, proc, state>>

StopLooks ==
    /\ stopper.pc = "look"
    /\ stopper' = [pc |-> "end", saw |-> proc]
    /\ UNCHANGED <<pc, cycle, child, ended, reported, watcher, proc, stop, state>>

StopEnds ==
    /\ stopper.pc = "end"
    /\ child' = IF stopper.saw # 0 THEN End(stopper.saw) ELSE child
    /\ stopper' = [stopper EXCEPT !.pc = "join"]
    /\ UNCHANGED <<pc, cycle, ended, reported, watcher, proc, stop, state>>

Next ==
    \/ Spawn \/ Publish \/ Check \/ Reads \/ EndOfOutput \/ CycleEnds \/ Reap \/ Down \/ LoopEnds
    \/ ChildDies \/ StopSets \/ StopLooks \/ StopEnds
    \/ \E c \in Cycles : WatcherWakes(c) \/ WatcherPolls(c) \/ WatcherReports(c)

\* The thread runs whenever it can; a child may stay silent for ever.
Follower == Publish \/ Check \/ EndOfOutput \/ CycleEnds \/ Reap \/ Down \/ LoopEnds
Fairness == WF_vars(Follower) /\ WF_vars(StopLooks) /\ WF_vars(StopEnds)

Spec == Init /\ [][Next]_vars /\ Fairness

-------------------------------------------------------------------------------
TypeOK ==
    /\ cycle \in 0..MaxCycles /\ proc \in 0..cycle
    /\ \A c \in Cycles : child[c] \in {"none", "alive", "dead"} /\ watcher[c] \in {"none", "waits", "polls", "reports"}
    /\ stopper.pc \in {"none", "look", "end", "join"}

\* The journal is last reported up only while the cycle that said so runs, and
\* at most one child is alive (collectors.py:208-212, 233-236).
UpOnlyWhileFollowing ==
    /\ (state # <<>> /\ state[Len(state)] = "up") => (cycle > 0 /\ reported[cycle] /\ pc \in {"read", "ending", "reap", "down"})
    /\ \A i \in 1..(Len(state) - 1) : ~(state[i] = "up" /\ state[i + 1] = "up")
    /\ Cardinality({c \in Cycles : child[c] = "alive"}) <= 1

\* stop() ends the thread and leaves no journalctl behind, wherever it meets
\* the cycle (collectors.py:222, 252-258).
Stopped == pc = "finished" /\ \A c \in Cycles : child[c] # "alive"
===============================================================================
