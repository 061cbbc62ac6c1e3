----------------------------- MODULE RequestTracker -----------------------------
(***************************************************************************)
(* The dashboard's request tracker (live_dashboard/tracker.py) and the two *)
(* ways it is fed by the Hub: journal lines of the chat server, in order   *)
(* but only while journalctl is attached, and a poll of /slots once a      *)
(* second, fetched outside the Hub's lock and applied under it.            *)
(*                                                                         *)
(* The chat server is the environment.  Token counts, speeds and progress  *)
(* are left out; time is counted in polls.  A server run is its number;    *)
(* task ids start again with every run, as llama.cpp's do.                 *)
(***************************************************************************)
EXTENDS Integers, Sequences, FiniteSets

CONSTANTS
    Slots,
    MaxRuns,      \* bound: how often the chat server starts
    MaxTasks,     \* bound: requests, over all server runs
    MaxGaps,      \* bound: how often journalctl dies
    MaxLog,       \* bound: lines not read yet
    Grace,        \* approx_grace_s, in polls
    Unreachable,  \* unreachable_s, in polls
    BootPolls     \* how long a starting server refuses /slots, at least

VARIABLES
    server,     \* the chat server: its state, run, next task id
    slot,       \* what each of its slots does
    fate,       \* how each request it accepted ended
    log,        \* journal lines the follower has not read
    attached,   \* journalctl -f is running
    gaps,
    reading,    \* the /slots answer a poll holds between its fetch and the lock
    t           \* the Tracker

vars == <<server, slot, fate, log, attached, gaps, reading, t>>
serverVars == <<server, slot, fate>>

Idle   == [st |-> "idle", task |-> 0]
NoRow  == [open |-> FALSE]
NoPoll == [held |-> FALSE]
Runs   == 1..MaxRuns
Tasks  == 1..MaxTasks

\* `epoch` stands for the wall time server_run; `blind` records that a server
\* start was missed and no rule has noticed yet.
NewTracker ==
    [epoch |-> 1, last |-> 0, up |-> TRUE, away |-> 0, rekeyed |-> FALSE, open |-> [s \in Slots |-> NoRow],
     cancelled |-> {}, idle |-> [s \in Slots |-> 0], rows |-> {}, blind |-> FALSE]

Init ==
    /\ server = [st |-> "up", run |-> 1, next |-> 1, boot |-> 0]
    /\ slot = [s \in Slots |-> Idle]
    /\ fate = [p \in Runs \X Tasks |-> "none"]
    /\ log = <<>> /\ attached = TRUE /\ gaps = 0
    /\ reading = NoPoll
    /\ t = NewTracker

-------------------------------------------------------------------------------
(* The chat server                                                         *)

Line(kind, s, k, run) == [kind |-> kind, slot |-> s, task |-> k, run |-> run]
AnySlot == CHOOSE s \in Slots : TRUE

\* A line nobody follows is lost: journalctl starts again with -n 0.
Logs(line) ==
    /\ Len(log) < MaxLog
    /\ log' = IF attached THEN Append(log, line) ELSE log

Launch(s) ==
    /\ server.st = "up" /\ slot[s].st = "idle" /\ Cardinality({p \in DOMAIN fate : fate[p] # "none"}) < MaxTasks
    /\ Logs(Line("start", s, server.next, server.run))
    /\ slot' = [slot EXCEPT ![s] = [st |-> "busy", task |-> server.next]]
    /\ fate' = [fate EXCEPT ![<<server.run, server.next>>] = "running"]
    /\ server' = [server EXCEPT !.next = @ + 1]
    /\ UNCHANGED <<attached, gaps, reading, t>>

\* The timing block, printed only for a request that ran to its end.
Times(s) ==
    /\ server.st = "up" /\ slot[s].st = "busy"
    /\ Logs(Line("eval", s, slot[s].task, server.run))
    /\ slot' = [slot EXCEPT ![s].st = "timed"]
    /\ fate' = [fate EXCEPT ![<<server.run, slot[s].task>>] = "done"]
    /\ UNCHANGED <<server, attached, gaps, reading, t>>

\* The client leaves: its task is cancelled at any stage, the release follows.
Cancels(s) ==
    /\ server.st = "up" /\ slot[s].st = "busy"
    /\ Logs(Line("cancel", s, slot[s].task, server.run))
    /\ slot' = [slot EXCEPT ![s].st = "stopping"]
    /\ fate' = [fate EXCEPT ![<<server.run, slot[s].task>>] = "cancelled"]
    /\ UNCHANGED <<server, attached, gaps, reading, t>>

Releases(s) ==
    /\ server.st = "up" /\ slot[s].st \in {"timed", "stopping"}
    /\ Logs(Line("release", s, slot[s].task, server.run))
    /\ slot' = [slot EXCEPT ![s] = Idle]
    /\ UNCHANGED <<server, fate, attached, gaps, reading, t>>

Crashes ==
    /\ server.st # "dead" /\ server.run < MaxRuns
    /\ server' = [server EXCEPT !.st = "dead"]
    /\ slot' = [s \in Slots |-> Idle]
    /\ fate' = [p \in DOMAIN fate |-> IF fate[p] = "running" THEN "killed" ELSE fate[p]]
    /\ UNCHANGED <<log, attached, gaps, reading, t>>

Starts ==
    /\ server.st = "dead"
    /\ Logs(Line("server_start", AnySlot, 0, server.run + 1))
    /\ server' = [st |-> "booting", run |-> server.run + 1, next |-> 1, boot |-> 0]
    /\ t' = [t EXCEPT !.blind = @ \/ ~attached]
    /\ UNCHANGED <<slot, fate, attached, gaps, reading>>

\* Loading the model takes far longer than reading a line.
Listens ==
    /\ server.st = "booting" /\ server.boot >= BootPolls
    /\ \A i \in DOMAIN log : log[i].kind # "server_start"
    /\ Logs(Line("server_ready", AnySlot, 0, server.run))
    /\ server' = [server EXCEPT !.st = "up"]
    /\ UNCHANGED <<slot, fate, attached, gaps, reading, t>>

-------------------------------------------------------------------------------
(* Tracker                                                                 *)

Row(tr, s, k, run) ==
    [open |-> TRUE, key |-> <<tr.epoch, s, k>>, task |-> k, eval |-> FALSE, req |-> <<run, k>>]

NewRow(tr, s, k, run) == [tr EXCEPT !.open[s] = Row(tr, s, k, run), !.idle[s] = 0]

\* A finished row goes to the history, where its key replaces an older one.
Finish(tr, s, status) ==
    IF ~tr.open[s].open THEN [tr EXCEPT !.idle[s] = 0]
    ELSE [tr EXCEPT !.open[s] = NoRow, !.idle[s] = 0,
                    !.rows = {r \in @ : r.key # tr.open[s].key} \cup
                             {[key |-> tr.open[s].key, req |-> tr.open[s].req, status |-> status, sure |-> ~tr.blind]}]

\* The slots one after the other, each by itself: a row that goes to the
\* history bears its slot in its key, and touches no other slot's.
EachSlot(tr, after) ==
    [tr EXCEPT !.open = [s \in Slots |-> after[s].open[s]], !.idle = [s \in Slots |-> after[s].idle[s]],
               !.rows = {r \in UNION {after[s].rows : s \in Slots} :
                            r \in tr.rows => \A s \in Slots : r \in after[s].rows}]

FinishAll(tr, status) == EachSlot(tr, [s \in Slots |-> Finish(tr, s, status)])

\* A new server run without a new epoch for the keys, for comparison.
RekeySameRun(tr) == [tr EXCEPT !.cancelled = {}, !.blind = FALSE]

\* A new server run: task ids start again, and so do the keys of rows.
Rekey(tr) == [tr EXCEPT !.epoch = @ + 1, !.cancelled = {}, !.blind = FALSE]

\* A restart that keeps the cancelled tasks, for comparison.
RestartKeepsCancels(tr) ==
    [FinishAll(tr, "interrupted") EXCEPT !.epoch = @ + 1, !.idle = [s \in Slots |-> 0], !.blind = FALSE]

Restart(tr) == [Rekey(FinishAll(tr, "interrupted")) EXCEPT !.idle = [s \in Slots |-> 0]]

Released(tr, s) ==
    LET k == tr.open[s].task
        status == IF k \in tr.cancelled THEN "cancelled" ELSE IF tr.open[s].eval THEN "done" ELSE "approx"
    IN  Finish([tr EXCEPT !.cancelled = @ \ {k}], s, status)

\* A start line that meets another row of its slot, whose release was missed.
Started(tr, line) ==
    IF tr.open[line.slot].open /\ tr.open[line.slot].task = line.task THEN tr
    ELSE NewRow(Finish(tr, line.slot, "approx"), line.slot, line.task, line.run)

Matches(tr, line) == tr.open[line.slot].open /\ tr.open[line.slot].task = line.task

\* on_journal.  The prefix runs backwards when a line of a newer run follows.
OnJournal(tr0, line) ==
    LET backwards == tr0.last # 0 /\ line.run > tr0.last
        restarted == IF line.kind = "server_start" \/ backwards THEN Restart(tr0) ELSE tr0
        tr == [restarted EXCEPT !.last = line.run]
    IN  CASE line.kind = "cancel" -> [tr EXCEPT !.cancelled = @ \cup {line.task}]
          [] line.kind = "start" -> Started(tr, line)
          [] line.kind = "eval" /\ Matches(tr, line) -> [tr EXCEPT !.open[line.slot].eval = TRUE]
          [] line.kind = "release" /\ Matches(tr, line) -> Released(tr, line.slot)
          [] OTHER -> tr

\* Polls since a row's slot was first seen idle: 0 before.
Older(n) == IF n = 0 THEN 0 ELSE IF n > Grace THEN n ELSE n + 1

\* One busy slot: only a tracker without a journal opens or replaces rows.
Busy(tr, s, k, run) ==
    IF tr.open[s].open /\ tr.open[s].task = k THEN [tr EXCEPT !.idle[s] = 0]
    ELSE IF tr.up THEN tr
    ELSE NewRow(Finish(tr, s, "approx"), s, k, run)

\* The grace period begun again with every poll, for comparison.
SeenIdleAnew(tr, s) == IF ~tr.open[s].open THEN tr ELSE [tr EXCEPT !.idle[s] = 1]

\* An idle slot whose row is open: a release the journal will still report, or
\* one that was missed.
SeenIdle(tr, s) ==
    LET first == [tr EXCEPT !.idle[s] = IF @ = 0 THEN 1 ELSE @]
    IN  IF ~tr.open[s].open THEN tr
        ELSE IF ~tr.up \/ first.idle[s] > Grace THEN Finish(first, s, "approx") ELSE first

\* on_slots(None): without a journal a long silence ends what is open, once.
OnNoSlots(tr) ==
    LET away == [tr EXCEPT !.away = IF @ > Unreachable THEN @ ELSE @ + 1]
        gone == ~tr.up /\ away.away > Unreachable
        ended == IF gone THEN FinishAll(away, "interrupted") ELSE away
    IN  IF gone /\ ~tr.rekeyed THEN [Rekey(ended) EXCEPT !.rekeyed = TRUE] ELSE ended

OnSlots(tr, slots, run) ==
    LET there == [tr EXCEPT !.away = 0, !.rekeyed = FALSE]
    IN  EachSlot(there, [s \in Slots |-> IF slots[s].st = "idle" THEN SeenIdle(there, s)
                                         ELSE Busy(there, s, slots[s].task, run)])

SetJournalUp(tr, isUp) == [tr EXCEPT !.up = isUp, !.last = 0]

-------------------------------------------------------------------------------
(* The Hub                                                                 *)

\* on_journal_line: one line, under the lock.
ReadLine ==
    /\ log # <<>> /\ t.up
    /\ t' = OnJournal(t, Head(log))
    /\ log' = Tail(log)
    /\ UNCHANGED <<serverVars, attached, gaps, reading>>

\* journalctl dies; the lines it wrote are read before the end of its output,
\* and the first one at once, which is what says that it is up.
JournalDies ==
    /\ attached /\ gaps < MaxGaps /\ (t.up \/ log = <<>>)
    /\ attached' = FALSE /\ gaps' = gaps + 1
    /\ UNCHANGED <<serverVars, log, reading, t>>

\* on_journal_state: a poll under way is void.
JournalState(isUp) ==
    /\ t' = SetJournalUp(t, isUp)
    /\ reading' = IF reading.held THEN [reading EXCEPT !.void = TRUE] ELSE reading
    /\ UNCHANGED <<serverVars, log, gaps>>

JournalDown == ~attached /\ t.up /\ log = <<>> /\ JournalState(FALSE) /\ UNCHANGED attached

Reattach == ~attached /\ ~t.up /\ attached' = TRUE /\ UNCHANGED <<serverVars, log, gaps, reading, t>>

JournalUp == attached /\ ~t.up /\ JournalState(TRUE) /\ UNCHANGED attached

\* poll_fast notes _journal_gen, then asks /slots without the lock.
Fetch ==
    /\ ~reading.held
    /\ reading' = [held |-> TRUE, void |-> FALSE, ok |-> server.st = "up", slots |-> slot, run |-> server.run]
    /\ UNCHANGED <<serverVars, log, attached, gaps, t>>

\* A poll that applies a reading of before the journal went down or came up,
\* for comparison.
Applied(tr) == IF reading.ok THEN OnSlots(tr, reading.slots, reading.run) ELSE OnNoSlots(tr)
AppliedAlways(tr) == Applied(tr)

AppliedIfFresh(tr) == IF reading.void THEN tr ELSE Applied(tr)

\* Under the lock; a second has passed since the poll before.
Apply ==
    /\ reading.held
    /\ t' = AppliedIfFresh([t EXCEPT !.idle = [s \in Slots |-> Older(t.idle[s])]])
    /\ reading' = NoPoll
    /\ server' = [server EXCEPT !.boot = IF server.st = "booting" /\ @ < BootPolls THEN @ + 1 ELSE @]
    /\ UNCHANGED <<slot, fate, log, attached, gaps>>

PollStep   == Fetch \/ Apply
FollowStep == JournalDown \/ Reattach \/ JournalUp
Boots      == Starts \/ Listens
Works(s)   == Times(s) \/ Releases(s)

Next ==
    \/ \E s \in Slots : Launch(s) \/ Cancels(s) \/ Works(s)
    \/ Crashes \/ Boots \/ JournalDies \/ ReadLine \/ FollowStep \/ PollStep

\* The poller and the follower are loops of their own threads; systemd starts
\* the chat server again and a request it runs ends.
Fairness ==
    /\ WF_vars(PollStep) /\ WF_vars(FollowStep) /\ WF_vars(ReadLine) /\ WF_vars(Boots)
    /\ \A s \in Slots : WF_vars(Works(s))

Spec == Init /\ [][Next]_vars /\ Fairness

-------------------------------------------------------------------------------
TypeOK ==
    /\ server.st \in {"dead", "booting", "up"} /\ server.run \in Runs
    /\ \A s \in Slots : slot[s].st \in {"idle", "busy", "timed", "stopping"}
    /\ \A r \in t.rows : r.req \in Runs \X Tasks /\ r.status \in {"done", "cancelled", "approx", "interrupted"}
    /\ \A s \in Slots : t.open[s].open => t.open[s].req \in Runs \X Tasks
    /\ t.cancelled \subseteq Tasks

\* What the history says of a request is what became of it: done and cancelled
\* rows were, and while the journal was never interrupted every request that
\* ended is recorded exactly once, approximately if its lines came too late
\* (tracker.py:on_journal, on_slots, _restart).
RowsTellTheTruth ==
    /\ \A r \in t.rows : r.sure /\ r.status \in {"done", "cancelled"} => fate[r.req] = r.status
    /\ (gaps = 0) =>
         /\ \A r \in t.rows : r.status = "interrupted" => fate[r.req] # "running"
         /\ \A r1, r2 \in t.rows : r1.req = r2.req => r1 = r2
         /\ (log = <<>>) => \A p \in DOMAIN fate :
              fate[p] \in {"done", "cancelled"} =>
                  \/ \E r \in t.rows : r.req = p
                  \/ \E s \in Slots : t.open[s].open /\ t.open[s].req = p

\* A row of the history is never replaced by another request's, although task
\* ids repeat with every server run (server_run in the key).
NoRowOverwritten ==
    [][t'.blind \/ t.blind \/ \A r \in t.rows : \E r2 \in t'.rows : r2.key = r.key /\ r2.req = r.req]_vars

\* A row is still open although its request ended.
Ended(s) == t.open[s].open /\ fate[t.open[s].req] # "running"
===============================================================================
