------------------------------- MODULE HubSources -------------------------------
(***************************************************************************)
(* The dashboard's sources (live_dashboard/collectors.py, parsers.py):     *)
(* pollers that fetch outside the Hub's lock and apply under it, each      *)
(* source marked good or stale on its own, the keys read from /proc and    *)
(* read again after a 401, and rates computed from counters that start     *)
(* again with the chat server.                                             *)
(*                                                                         *)
(* A fetched body is represented by what becomes of it; the counters are   *)
(* the prompt tokens computed and the prompt tokens found in the cache.    *)
(***************************************************************************)
EXTENDS Integers, Sequences, FiniteSets

CONSTANTS
    Sources,     \* a subset of SOURCES: those with a key, one without
    Keyed,       \* sources whose request carries a key: server key or router key
    MaxRuns,     \* bound: starts of a server
    MaxCount,    \* bound of the counters
    MaxNow       \* bound of the clock

VARIABLES
    server,     \* per keyed source: its server's run, and the key that run wants
    known,      \* Hub._key, Hub._router_key: 0 for None
    held,       \* per source: what its poller fetched and has not applied
    src,        \* per source: ok, stale_since
    since,      \* per source: when its failures began, 0 while it is good
    counters,   \* the chat server's counters
    prev,       \* Hub._prev_metrics
    reuse,      \* the last reuse rate pushed, in percent
    now

vars == <<server, known, held, src, since, counters, prev, reuse, now>>

None == -1
Zero == [new |-> 0, cached |-> 0]

Init ==
    /\ server = [s \in Keyed |-> [up |-> TRUE, run |-> 1, key |-> 1]] /\ known = [s \in Keyed |-> 0]
    /\ held = [s \in Sources |-> "nothing"]
    /\ src = [s \in Sources |-> [ok |-> FALSE, stale |-> 0]]
    /\ since = [s \in Sources |-> 0]
    /\ counters = Zero /\ prev = [some |-> FALSE, at |-> Zero] /\ reuse = 0
    /\ now = 1

-------------------------------------------------------------------------------
(* Fetching                                                                *)

\* find_llama_key, find_router_key: the argv or environ of the process in its
\* container; nothing while it is not running.
Find(s) == IF server[s].up THEN server[s].key ELSE 0

\* _llama, poll_escalation: look the key up first, ask, look it up after a 401.
KeyAfter(s, outcome) == IF known[s] = 0 \/ outcome = "refused" THEN Find(s) ELSE known[s]

Asked(s) == IF known[s] = 0 THEN Find(s) ELSE known[s]

\* What a keyed server answers to the key it is asked with.
Answers(s) ==
    IF ~server[s].up THEN {"down"}
    ELSE IF Asked(s) = server[s].key THEN {"good"} ELSE {"refused"}

FetchKeyed(s) ==
    /\ held[s] = "nothing"
    /\ \E outcome \in Answers(s) :
         /\ held' = [held EXCEPT ![s] = outcome]
         /\ known' = [known EXCEPT ![s] = KeyAfter(s, outcome)]
    /\ UNCHANGED <<server, src, since, counters, prev, reuse, now>>

\* sysfs, /proc, /healthz: read, unreadable, or a reader that raises (_try).
FetchPlain(s) ==
    /\ held[s] = "nothing"
    /\ \E outcome \in {"good", "down", "raises"} : held' = [held EXCEPT ![s] = outcome]
    /\ UNCHANGED <<server, known, src, since, counters, prev, reuse, now>>

-------------------------------------------------------------------------------
(* Applying, under the lock                                                *)

\* mark_fail that forgets when the failures began, for comparison.
MarkFailAnew(s) ==
    /\ src' = [src EXCEPT ![s] = [ok |-> FALSE, stale |-> now]]
    /\ since' = [since EXCEPT ![s] = IF @ = 0 THEN now ELSE @]

MarkFail(s) ==
    /\ src' = [src EXCEPT ![s] = [ok |-> FALSE, stale |-> IF @.ok \/ @.stale = 0 THEN now ELSE @.stale]]
    /\ since' = [since EXCEPT ![s] = IF @ = 0 THEN now ELSE @]

MarkOk(s) ==
    /\ src' = [src EXCEPT ![s] = [ok |-> TRUE, stale |-> 0]]
    /\ since' = [since EXCEPT ![s] = 0]

\* The reuse rate pushed whenever anything moved, for comparison.
ReuseUnchecked(m) ==
    LET new == m.new - prev.at.new
        cached == m.cached - prev.at.cached
    IN  IF ~prev.some \/ new + cached <= 0 THEN None ELSE (100 * cached) \div (new + cached)

\* A rate of two readings: none across a server restart.
Reuse(m) ==
    LET new == m.new - prev.at.new
        cached == m.cached - prev.at.cached
    IN  IF ~prev.some \/ new + cached <= 0 \/ new < 0 \/ cached < 0 THEN None
        ELSE (100 * cached) \div (new + cached)

\* A push of None leaves the ring as it is.
Push(v) == reuse' = IF v = None THEN reuse ELSE v

ApplyGood(s) ==
    /\ held[s] = "good" /\ held' = [held EXCEPT ![s] = "nothing"]
    /\ MarkOk(s)
    /\ IF s = "metrics"
         THEN Push(Reuse(counters)) /\ prev' = [some |-> TRUE, at |-> counters]
         ELSE UNCHANGED <<prev, reuse>>
    /\ UNCHANGED <<server, known, counters, now>>

\* Not 200, a reader that raised, a body that does not parse: only its own
\* source is marked.
ApplyBad(s) ==
    /\ held[s] \notin {"nothing"} /\ held' = [held EXCEPT ![s] = "nothing"]
    /\ MarkFail(s)
    /\ UNCHANGED <<server, known, counters, prev, reuse, now>>

-------------------------------------------------------------------------------
(* The servers                                                             *)

ServerStops(s) ==
    /\ server[s].up /\ server[s].run < MaxRuns
    /\ server' = [server EXCEPT ![s].up = FALSE]
    /\ UNCHANGED <<known, held, src, since, counters, prev, reuse, now>>

\* A restarted server may want another key, and counts from zero.
ServerStarts(s) ==
    /\ ~server[s].up
    /\ \E k \in {server[s].key, server[s].run + 1} :
         server' = [server EXCEPT ![s] = [up |-> TRUE, run |-> @.run + 1, key |-> k]]
    /\ counters' = IF s = "metrics" THEN Zero ELSE counters
    /\ UNCHANGED <<known, held, src, since, prev, reuse, now>>

Serves ==
    /\ \/ counters.new < MaxCount /\ counters' = [counters EXCEPT !.new = @ + 1]
       \/ counters.cached < MaxCount /\ counters' = [counters EXCEPT !.cached = @ + 1]
    /\ UNCHANGED <<server, known, held, src, since, prev, reuse, now>>

Tick == now < MaxNow /\ now' = now + 1
        /\ UNCHANGED <<server, known, held, src, since, counters, prev, reuse>>

PollKeyed(s) == FetchKeyed(s) \/ ApplyGood(s) \/ ApplyBad(s)
PollPlain(s) == FetchPlain(s) \/ ApplyGood(s) \/ ApplyBad(s)

Next ==
    \/ \E s \in Sources \ Keyed : PollPlain(s)
    \/ \E s \in Keyed : PollKeyed(s) \/ ServerStops(s) \/ ServerStarts(s)
    \/ Serves \/ Tick

Spec == Init /\ [][Next]_vars

-------------------------------------------------------------------------------
TypeOK ==
    /\ \A s \in Keyed : known[s] \in 0..MaxRuns /\ server[s].key \in 1..MaxRuns
    /\ \A s \in Sources : held[s] \in {"nothing", "good", "down", "refused", "raises"}
    /\ counters.new \in 0..MaxCount /\ counters.cached \in 0..MaxCount

\* The page's "stale since" is when a source's present failures began, and the
\* reuse rate it shows is one, however the counters were reset in between
\* (Source.mark_fail, _apply_metrics).
ShownIsTrue ==
    /\ \A s \in Sources : src[s].stale = since[s] /\ (src[s].ok => since[s] = 0)
    /\ reuse \in 0..100
===============================================================================
