------------------------------ MODULE StreamServer ------------------------------
(***************************************************************************)
(* The dashboard's HTTP server (live_dashboard/server.py): one thread per  *)
(* connection under a bounded semaphore, a count of live streams under a   *)
(* lock, and the stop event that ends them.                                *)
(*                                                                         *)
(* A peer may go away, or stop reading so that every write to it blocks    *)
(* until the socket timeout.                                               *)
(***************************************************************************)
EXTENDS Integers, FiniteSets

CONSTANTS
    Conns,    \* connections that may be open together
    MaxConn,  \* max_connections
    Cap       \* max_stream_clients

VARIABLES
    free,      \* permits of _conn_sem
    h,         \* per connection: where its handler thread is
    n,         \* clients["n"]
    lock,      \* who holds the lock around it
    stopping   \* stop_event

vars == <<free, h, n, lock, stopping>>
Nobody == "nobody"
Streaming == {"headers", "event", "pause", "leaving"}

Init ==
    /\ free = MaxConn
    /\ h = [c \in Conns |-> "none"]
    /\ n = 0 /\ lock = Nobody
    /\ stopping = FALSE

-------------------------------------------------------------------------------
Goes(c, to) == h' = [h EXCEPT ![c] = to]

\* A semaphore whose answer is ignored, for comparison.
AcceptAlways(c) ==
    /\ h[c] = "none" /\ ~stopping
    /\ free' = free - 1 /\ Goes(c, "request")
    /\ UNCHANGED <<n, lock, stopping>>

\* process_request: a full server drops the connection without a thread; a
\* thread that cannot be started gives its permit back.
Accept(c) ==
    /\ h[c] = "none" /\ ~stopping
    /\ free > 0
    /\ \/ free' = free - 1 /\ Goes(c, "request")
       \/ UNCHANGED <<free, h>>
    /\ UNCHANGED <<n, lock, stopping>>

\* The request line and headers, cut off by the header deadline; every other
\* path answers at once, a refused method closes the connection.
PlainRequest(c) ==
    /\ h[c] = "request"
    /\ Goes(c, "close")
    /\ UNCHANGED <<free, n, lock, stopping>>

AsksForStream(c) ==
    /\ h[c] = "request" /\ lock = Nobody
    /\ lock' = c /\ Goes(c, "admission")
    /\ UNCHANGED <<free, n, stopping>>

\* A cap checked before the lock is taken, for comparison.
AdmitUncounted(c) ==
    /\ h[c] = "admission"
    /\ n' = n + 1 /\ lock' = Nobody /\ Goes(c, "headers")
    /\ UNCHANGED <<free, stopping>>

Admit(c) ==
    /\ h[c] = "admission" /\ n < Cap
    /\ n' = n + 1 /\ lock' = Nobody /\ Goes(c, "headers")
    /\ UNCHANGED <<free, stopping>>

\* One viewer too many: the 503 is written with the lock held, and the lock is
\* released when that write ends, fails or times out.
Refuse(c) ==
    /\ h[c] = "admission" /\ n >= Cap
    /\ lock' = Nobody /\ Goes(c, "close")
    /\ UNCHANGED <<free, n, stopping>>

Writes(c) ==
    /\ h[c] \in {"headers", "event"}
    /\ \/ Goes(c, "pause")
       \/ Goes(c, "leaving")   \* the peer is gone or the write timed out
    /\ UNCHANGED <<free, n, lock, stopping>>

\* The loop looks at stop_event between events.
LoopTurns(c) ==
    /\ h[c] = "pause"
    /\ Goes(c, IF stopping THEN "leaving" ELSE "event")
    /\ UNCHANGED <<free, n, lock, stopping>>

\* finally: the lock, then the count.
Leaves(c) ==
    /\ h[c] = "leaving" /\ lock = Nobody
    /\ n' = n - 1 /\ Goes(c, "close")
    /\ UNCHANGED <<free, lock, stopping>>

\* The thread ends: its permit comes back whatever happened.
Closes(c) ==
    /\ h[c] = "close"
    /\ free' = free + 1 /\ Goes(c, "none")
    /\ UNCHANGED <<n, lock, stopping>>

\* run_service: stop_event, then the listener is shut down.
Stop ==
    /\ ~stopping /\ stopping' = TRUE
    /\ UNCHANGED <<free, h, n, lock>>

\* What a handler thread does once it has a request.
Runs(c) == PlainRequest(c) \/ Admit(c) \/ Refuse(c) \/ Writes(c) \/ LoopTurns(c) \/ Closes(c) \/ Leaves(c)

Next == Stop \/ \E c \in Conns : Accept(c) \/ AsksForStream(c) \/ Runs(c)

\* Threads run.
Fairness == \A c \in Conns : WF_vars(Runs(c))

Spec == Init /\ [][Next]_vars /\ Fairness

-------------------------------------------------------------------------------
TypeOK ==
    /\ free \in 0..MaxConn /\ n \in 0..Cardinality(Conns) /\ lock \in Conns \cup {Nobody}
    /\ \A c \in Conns : h[c] \in {"none", "request", "admission", "close"} \cup Streaming

\* The permits and the viewer count match the threads that hold them, whatever
\* way a stream ends, and stay within their limits (server.py:32-46, 172-198).
ViewersCounted ==
    /\ n = Cardinality({c \in Conns : h[c] \in Streaming}) /\ n <= Cap
    /\ free = MaxConn - Cardinality({c \in Conns : h[c] # "none"})
===============================================================================
