------------------------------- MODULE Dashboard -------------------------------
(***************************************************************************)
(* The live dashboard's threads (request tracker, history writer, journal  *)
(* follower, stream server, pollers) and the memory bridge.                *)
(*                                                                         *)
(* The parts meet only in calls that carry values (a line, a finished row, *)
(* a snapshot), so a property of one part holds in their product iff it    *)
(* holds while the others rest: `part`, chosen at the start, is the one    *)
(* that moves, and the sizes add up instead of multiplying.                *)
(***************************************************************************)
EXTENDS HistoryStore

CONSTANTS
    Slots, MaxRuns, MaxTasks, MaxGaps, MaxLog, Grace, Unreachable, BootPolls,   \* see RequestTracker
    MaxCycles,                                                                  \* see JournalFollower
    Conns, MaxConn, Cap,                                                        \* see StreamServer
    Sources, Keyed, MaxServerRuns, MaxCount, MaxNow,                            \* see HubSources
    Requests, Spaces, Default                                                   \* see MemoryBridge

ASSUME DashboardAssumption ==
    /\ IsFiniteSet(Slots) /\ Slots # {} /\ {MaxRuns, MaxTasks} \subseteq Nat \ {0}
    /\ {MaxGaps, MaxLog, Grace, Unreachable, BootPolls, MaxCycles} \subseteq Nat
    /\ IsFiniteSet(Conns) /\ {MaxConn, Cap} \subseteq Nat
    /\ Keyed \subseteq Sources /\ MaxServerRuns \in Nat \ {0} /\ {MaxCount, MaxNow} \subseteq Nat \ {0}
    /\ Default \in Spaces

VARIABLES part,
    server, slot, fate, log, attached, gaps, reading, t,
    pc, cycle, child, ended, reported, watcher, proc, stop, stopper, state,
    free, h, n, lock, stopping,
    keyServer, knownKeys, held, src, since, counters, prev, reuse, now,
    req, knownSpaces, created, refusing, stored

trackVars  == <<server, slot, fate, log, attached, gaps, reading, t>>
followVars == <<pc, cycle, child, ended, reported, watcher, proc, stop, stopper, state>>
streamVars == <<free, h, n, lock, stopping>>
hubVars    == <<keyServer, knownKeys, held, src, since, counters, prev, reuse, now>>
memoryVars == <<req, knownSpaces, created, refusing, stored>>
allVars    == <<part, vars, trackVars, followVars, streamVars, hubVars, memoryVars>>

Track  == INSTANCE RequestTracker
Follow == INSTANCE JournalFollower
Stream == INSTANCE StreamServer
Hub    == INSTANCE HubSources WITH server <- keyServer, known <- knownKeys, MaxRuns <- MaxServerRuns
Memory == INSTANCE MemoryBridge WITH known <- knownSpaces

DashboardInit ==
    /\ part \in {"tracker", "history", "follower", "streams", "sources", "memory"}
    /\ Init /\ Track!Init /\ Follow!Init /\ Stream!Init /\ Hub!Init /\ Memory!Init
    /\ (part # "history") => ok

InTracker(A) ==
    part = "tracker" /\ A /\ UNCHANGED <<part, vars, followVars, streamVars, hubVars, memoryVars>>
InHistory(A) ==
    part = "history" /\ A /\ UNCHANGED <<part, trackVars, followVars, streamVars, hubVars, memoryVars>>
InFollower(A) ==
    part = "follower" /\ A /\ UNCHANGED <<part, vars, trackVars, streamVars, hubVars, memoryVars>>
InStreams(A) ==
    part = "streams" /\ A /\ UNCHANGED <<part, vars, trackVars, followVars, hubVars, memoryVars>>
InSources(A) ==
    part = "sources" /\ A /\ UNCHANGED <<part, vars, trackVars, followVars, streamVars, memoryVars>>
InMemory(A) ==
    part = "memory" /\ A /\ UNCHANGED <<part, vars, trackVars, followVars, streamVars, hubVars>>

DashboardNext ==
    \/ InTracker(Track!Next) \/ InHistory(Next) \/ InFollower(Follow!Next)
    \/ InStreams(Stream!Next) \/ InSources(Hub!Next) \/ InMemory(Memory!Next)

\* The fairness of each part, for the part that moves: the poller and the
\* follower are loops of their own threads, systemd starts the chat server
\* again and a request it runs ends; handler threads run.
TrackFair ==
    /\ WF_allVars(InTracker(Track!PollStep)) /\ WF_allVars(InTracker(Track!FollowStep))
    /\ WF_allVars(InTracker(Track!ReadLine)) /\ WF_allVars(InTracker(Track!Boots))
    /\ \A s \in Slots : WF_allVars(InTracker(Track!Works(s)))
FollowFair ==
    WF_allVars(InFollower(Follow!Follower)) /\ WF_allVars(InFollower(Follow!StopLooks \/ Follow!StopEnds))
StreamFair == \A c \in Conns : WF_allVars(InStreams(Stream!Runs(c)))

DashboardSpec == DashboardInit /\ [][DashboardNext]_allVars /\ TrackFair /\ FollowFair /\ StreamFair

\* Every part keeps its types; the history's are part of HistoryIsHonest.
TypesKept == Track!TypeOK /\ Follow!TypeOK /\ Stream!TypeOK /\ Hub!TypeOK /\ Memory!TypeOK

\* What the dashboard records and shows is what happened: the ends of requests,
\* the state of the journal and of every source; viewers and connections are
\* counted, and a memory lies where it was sent (tracker.py, collectors.py,
\* server.py:172-198, memory-vault-bridge.py).
ShowsWhatHappened ==
    /\ TypesKept
    /\ Track!RowsTellTheTruth /\ Follow!UpOnlyWhileFollowing /\ Hub!ShownIsTrue
    /\ Stream!ViewersCounted /\ Memory!StoredWhereAsked

\* No request's row replaces another's in the history, across restarts of the
\* chat server (tracker.py:_key, _restart).
NoRowOverwritten == Track!NoRowOverwritten

\* Rows close, the follower and the streams end when the service stops
\* (tracker.py:177-180, collectors.py:252, server.py:190).
Awaited(s) ==
    \/ part = "tracker" /\ Track!Ended(s)
    \/ part = "follower" /\ stopper.pc = "join"
    \/ part = "streams" /\ stopping
Reached(s) ==
    \/ part = "tracker" /\ ~Track!Ended(s)
    \/ part = "follower" /\ Follow!Stopped
    \/ part = "streams" /\ n = 0
NothingHangs == \A s \in Slots : Awaited(s) ~> Reached(s)
===============================================================================
