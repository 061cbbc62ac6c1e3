------------------------------ MODULE HistoryStore ------------------------------
(***************************************************************************)
(* The dashboard's request history (live_dashboard/history.py): a bounded  *)
(* queue in front of one writer thread that owns the database, a bounded   *)
(* backlog while the database is broken, and flush(), which promises that  *)
(* nothing was lost.                                                       *)
(*                                                                         *)
(* Rows are numbers in the order they were added.  The writer, the thread  *)
(* that adds and the thread that flushes interleave at every queue         *)
(* operation and at every read or write of the flags they share.           *)
(***************************************************************************)
EXTENDS Integers, Sequences, FiniteSets, SequencesExt

CONSTANTS
    MaxRows,     \* bound: rows added
    MaxFlushes,  \* bound: calls of flush
    QueueMax,    \* QUEUE_MAX
    BacklogMax   \* BACKLOG_MAX

ASSUME HistoryAssumption ==
    {MaxRows, MaxFlushes} \subseteq Nat /\ {QueueMax, BacklogMax} \subseteq Nat \ {0}

VARIABLES
    q,        \* the queue, items being rows or flushes
    backlog,  \* rows kept while the database is broken
    db,       \* rows committed
    dropped,  \* rows given up
    wr,       \* the writer: where it is and the item in its hand
    ok,       \* History.ok
    lost,     \* History._lost
    closed,   \* History._closed
    added,    \* rows added so far
    fl        \* the flush under way or last made

vars == <<q, backlog, db, dropped, wr, ok, lost, closed, added, fl>>

Item(kind, n) == [kind |-> kind, n |-> n]
Nothing == Item("none", 0)

NoFlush == [pc |-> "idle", n |-> 0, from |-> 0, upto |-> 0, done |-> "pending", result |-> FALSE, gaveUp |-> FALSE]

Init ==
    /\ q = <<>> /\ backlog = <<>> /\ db = {} /\ dropped = {}
    /\ wr = [pc |-> "get", item |-> Nothing]
    /\ ok \in BOOLEAN /\ lost = FALSE /\ closed = FALSE
    /\ added = 0
    /\ fl = NoFlush

-------------------------------------------------------------------------------
(* The threads that use it                                                 *)

\* add: a full queue drops the row and says so.  A bad row is refused alike.
Add ==
    /\ ~closed /\ added < MaxRows
    /\ added' = added + 1
    /\ IF Len(q) < QueueMax
         THEN q' = Append(q, Item("row", added + 1)) /\ UNCHANGED <<dropped, lost>>
         ELSE dropped' = dropped \cup {added + 1} /\ lost' = TRUE /\ UNCHANGED q
    /\ UNCHANGED <<backlog, db, wr, ok, closed, fl>>

\* flush: a noop behind everything queued so far, or a queue full for too long.
Flush ==
    /\ fl.pc = "idle" /\ fl.n < MaxFlushes /\ ~closed
    /\ \/ /\ Len(q) < QueueMax
          /\ q' = Append(q, Item("noop", fl.n + 1))
          /\ fl' = [fl EXCEPT !.pc = "waits", !.n = @ + 1, !.upto = added, !.done = "pending"]
       \/ /\ Len(q) = QueueMax
          /\ fl' = [fl EXCEPT !.pc = "returned", !.n = @ + 1, !.upto = added, !.result = FALSE]
          /\ UNCHANGED q
    /\ UNCHANGED <<backlog, db, dropped, wr, ok, lost, closed, added>>

\* The event is set, or the caller's time is over: its noop stays queued.
FlushReturns ==
    /\ fl.pc = "waits"
    /\ \/ fl.done # "pending" /\ fl' = [fl EXCEPT !.pc = "returned", !.result = (fl.done = "true")]
       \/ fl.done = "pending" /\ fl' = [fl EXCEPT !.pc = "returned", !.result = FALSE, !.gaveUp = TRUE]
    /\ UNCHANGED <<q, backlog, db, dropped, wr, ok, lost, closed, added>>

\* `from` marks the rows added since that call came back.
FlushAgain ==
    /\ fl.pc = "returned"
    /\ fl' = [fl EXCEPT !.pc = "idle", !.from = added]
    /\ UNCHANGED <<q, backlog, db, dropped, wr, ok, lost, closed, added>>

\* close: no more adds; the writer ends behind what is queued.
Close ==
    /\ ~closed /\ fl.pc # "waits"
    /\ closed' = TRUE
    /\ q' = IF Len(q) < QueueMax THEN Append(q, Item("stop", 0)) ELSE q
    /\ UNCHANGED <<backlog, db, dropped, wr, ok, lost, added, fl>>

-------------------------------------------------------------------------------
(* The writer thread                                                       *)

\* A backlog that drops its oldest row without a word, for comparison.
KeepQuietly(row) ==
    /\ backlog' = IF Len(backlog) = BacklogMax THEN Append(Tail(backlog), row) ELSE Append(backlog, row)
    /\ dropped' = IF Len(backlog) = BacklogMax THEN dropped \cup {Head(backlog)} ELSE dropped
    /\ UNCHANGED lost

Keep(row) ==
    /\ backlog' = IF Len(backlog) = BacklogMax THEN Append(Tail(backlog), row) ELSE Append(backlog, row)
    /\ dropped' = IF Len(backlog) = BacklogMax THEN dropped \cup {Head(backlog)} ELSE dropped
    /\ lost' = (lost \/ Len(backlog) = BacklogMax)

\* _run: committed after some retries, dropped for its values or after the
\* last retry, or a failure that lasts.
Written(row) == db' = db \cup {row} /\ UNCHANGED <<dropped, lost, ok, backlog>>
GivenUp(row) == dropped' = dropped \cup {row} /\ lost' = TRUE /\ UNCHANGED <<db, ok, backlog>>
Broken(row)  == ok' = FALSE /\ Keep(row) /\ UNCHANGED db

Get ==
    /\ wr.pc = "get" /\ q # <<>>
    /\ wr' = [pc |-> IF Head(q).kind = "stop" THEN "dead" ELSE "recover", item |-> Head(q)]
    /\ q' = Tail(q)
    /\ UNCHANGED <<backlog, db, dropped, ok, lost, closed, added, fl>>

\* The timeout of get() while not ok: a turn without an item.
Turn ==
    /\ wr.pc = "get" /\ q = <<>> /\ ~ok
    /\ wr' = [pc |-> "recover", item |-> Nothing]
    /\ UNCHANGED <<q, backlog, db, dropped, ok, lost, closed, added, fl>>

ItemDone(next) == wr' = [pc |-> next, item |-> wr.item]

\* The recovery is not due, or it fails; the item is handled all the same.
NoRecovery ==
    /\ wr.pc = "recover"
    /\ ItemDone("handle")
    /\ UNCHANGED <<q, backlog, db, dropped, ok, lost, closed, added, fl>>

Recovers ==
    /\ wr.pc = "recover" /\ ~ok
    /\ ok' = TRUE
    /\ ItemDone("drain")
    /\ UNCHANGED <<q, backlog, db, dropped, lost, closed, added, fl>>

\* The backlog is written oldest first; a row that fails again goes back.
Drain ==
    /\ wr.pc = "drain"
    /\ IF backlog = <<>> \/ ~ok
         THEN ItemDone("handle") /\ UNCHANGED <<backlog, db, dropped, ok, lost>>
         ELSE /\ \/ /\ db' = db \cup {Head(backlog)} /\ backlog' = Tail(backlog)
                    /\ UNCHANGED <<dropped, lost, ok>>
                 \/ /\ dropped' = dropped \cup {Head(backlog)} /\ lost' = TRUE /\ backlog' = Tail(backlog)
                    /\ UNCHANGED <<db, ok>>
                 \/ /\ ok' = FALSE /\ backlog' = Append(Tail(backlog), Head(backlog))
                    /\ UNCHANGED <<db, dropped, lost>>
              /\ UNCHANGED wr
    /\ UNCHANGED <<q, closed, added, fl>>

HandleRow ==
    /\ wr.pc = "handle" /\ wr.item.kind = "row"
    /\ IF ok THEN Written(wr.item.n) \/ GivenUp(wr.item.n) \/ Broken(wr.item.n)
             ELSE Keep(wr.item.n) /\ UNCHANGED <<db, ok>>
    /\ ItemDone("get")
    /\ UNCHANGED <<q, closed, added, fl>>

\* A noop: done["ok"] is computed, then _lost is cleared, then the event set.
HandleNoop ==
    /\ wr.pc = "handle" /\ wr.item.kind = "noop"
    /\ wr' = [pc |-> "clear", item |-> Item(IF ok /\ ~lost THEN "true" ELSE "false", wr.item.n)]
    /\ UNCHANGED <<q, backlog, db, dropped, ok, lost, closed, added, fl>>

ClearLost ==
    /\ wr.pc = "clear"
    /\ lost' = FALSE
    /\ fl' = [fl EXCEPT !.done = IF wr.item.n = fl.n /\ fl.pc = "waits" THEN wr.item.kind ELSE @]
    /\ ItemDone("get")
    /\ UNCHANGED <<q, backlog, db, dropped, ok, closed, added>>

HandleTick ==
    /\ wr.pc = "handle" /\ wr.item.kind = "none"
    /\ ItemDone("get")
    /\ UNCHANGED <<q, backlog, db, dropped, ok, lost, closed, added, fl>>

Next ==
    \/ Add \/ Flush \/ FlushReturns \/ FlushAgain \/ Close
    \/ Get \/ Turn \/ NoRecovery \/ Recovers \/ Drain \/ HandleRow \/ HandleNoop \/ ClearLost \/ HandleTick

Spec == Init /\ [][Next]_vars

-------------------------------------------------------------------------------
TypeOK ==
    /\ q \in Seq([kind : {"row", "noop", "stop"}, n : Nat]) /\ Len(q) <= QueueMax
    /\ backlog \in Seq(1..MaxRows) /\ Len(backlog) <= BacklogMax
    /\ db \subseteq 1..added /\ dropped \subseteq 1..added /\ added \in 0..MaxRows
    /\ wr \in [pc : {"get", "recover", "drain", "handle", "clear", "dead"},
               item : [kind : {"row", "noop", "stop", "none", "true", "false"}, n : Nat]]
    /\ {ok, lost, closed} \subseteq BOOLEAN
    /\ fl \in [pc : {"idle", "waits", "returned"}, n : 0..MaxFlushes, from : 0..MaxRows, upto : 0..MaxRows,
               done : {"pending", "true", "false"}, result : BOOLEAN, gaveUp : BOOLEAN]

\* Every row added is in one place: queued, in the writer's hand, kept, in the
\* database or given up.
InHand == IF wr.item.kind = "row" /\ wr.pc \in {"recover", "drain", "handle"} THEN {wr.item.n} ELSE {}
Queued == {q[i].n : i \in {j \in DOMAIN q : q[j].kind = "row"}}
RowsAccounted ==
    /\ 1..added = Queued \cup InHand \cup ToSet(backlog) \cup db \cup dropped
    /\ db \cap (Queued \cup InHand \cup ToSet(backlog) \cup dropped) = {}
    /\ Cardinality(ToSet(backlog)) = Len(backlog)

\* flush() is True only if everything added since the flush before it and up to
\* its call is in the database (history.py:218).  A flush that ran into its own
\* timeout leaves a noop behind, which takes a later loss away when the writer
\* comes to it: the promise is for callers none of whose calls gave up.
FlushHonest ==
    (fl.pc = "returned" /\ fl.result /\ ~fl.gaveUp) => ((fl.from + 1)..fl.upto) \subseteq db

\* The history and the promise of flush() together: rows are neither lost
\* without a word nor counted twice (history.py:95-260).
HistoryIsHonest == TypeOK /\ RowsAccounted /\ FlushHonest
===============================================================================
