---------------------------- MODULE Dashboard_proofs ----------------------------
(***************************************************************************)
(* Theorems about the dashboard and the memory bridge, for any slots, runs *)
(* and requests of the chat server, rows and flushes, connections, sources *)
(* and memories, whatever order the threads run in.  Each part has its     *)
(* inductive invariant; while a part moves the others rest.                *)
(*                                                                         *)
(* History: flush() answers for rows that a flag remembers.  The invariant *)
(* says what the flag is worth: as long as no call gave up, there is at    *)
(* most one noop, the one waited for, no row added before it is behind it, *)
(* and while it is not answered a row given up since the last call has set *)
(* the flag.                                                               *)
(*                                                                         *)
(* Tracker: it is about one server run, that of the line it reads next, or *)
(* it is blind: a start was missed and no rule has noticed.  Rows, cancels *)
(* and keys are of that run.  With a journal that was never cut a request  *)
(* is in the history, in an open row or in a line not read yet, once.      *)
(***************************************************************************)
EXTENDS Dashboard, FiniteSetTheorems, SequenceTheorems, TLAPS

-----------------------------------------------------------------------------
(* The history.                                                            *)


Items   == [kind : {"row", "noop", "stop"}, n : Nat]
Hands   == [kind : {"row", "noop", "stop", "none", "true", "false"}, n : Nat]
Writers == [pc : {"get", "recover", "drain", "handle", "clear", "dead"}, item : Hands]
Flushes == [pc : {"idle", "waits", "returned"}, n : 0..MaxFlushes, from : 0..MaxRows, upto : 0..MaxRows,
            done : {"pending", "true", "false"}, result : BOOLEAN, gaveUp : BOOLEAN]

\* Where the rows are.
RowsOf(s) == {r \in Nat : Item("row", r) \in Range(s)}
Waiting   == RowsOf(q)
Kept      == Range(backlog)
OneHome ==
    /\ 1..added = Waiting \cup InHand \cup Kept \cup db \cup dropped
    /\ Waiting \cap InHand = {} /\ Waiting \cap Kept = {} /\ Waiting \cap db = {} /\ Waiting \cap dropped = {}
    /\ InHand \cap Kept = {} /\ InHand \cap db = {} /\ InHand \cap dropped = {}
    /\ Kept \cap db = {} /\ Kept \cap dropped = {} /\ db \cap dropped = {}
Once ==
    /\ IsInjective(q) /\ IsInjective(backlog)
    /\ \A x \in Range(q) : (x.kind = "noop" => x.n <= fl.n) /\ (x.kind = "stop" => closed)

\* The writer.
Busy == wr.pc \in {"recover", "drain", "handle"}
Kinds ==
    /\ Busy => wr.item.kind \in {"row", "noop", "none"}
    /\ wr.pc = "clear" => wr.item.kind \in {"true", "false"}
Drained == ok /\ wr.pc # "drain" => backlog = <<>>

\* The flush that is waited for.
Behind(s, u) == \A i, j \in 1..Len(s) : i < j /\ s[i].kind = "noop" /\ s[j].kind = "row" => s[j].n > u
Answering == (Busy /\ wr.item.kind = "noop") \/ wr.pc = "clear"
Pending   == fl.pc = "waits" /\ fl.done = "pending"
Stored    == ((fl.from + 1)..fl.upto) \subseteq db
NoOtherNoop  == \A x \in Range(q) : x.kind = "noop" => x.n = fl.n /\ Pending /\ ~Answering
OnlyTheLater == Answering => wr.item.n = fl.n /\ Pending /\ \A r \in Waiting : r > fl.upto
LossIsFlagged ==
    fl.pc = "idle" \/ (Pending /\ wr.pc # "clear") => lost \/ \A r \in dropped : r <= fl.from
Honest ==
    /\ wr.pc = "clear" /\ wr.item.kind = "true" => Stored
    /\ fl.pc = "waits" /\ fl.done = "true" => Stored
    /\ fl.pc = "returned" /\ fl.result => Stored
Promised == NoOtherNoop /\ Behind(q, fl.upto) /\ OnlyTheLater /\ LossIsFlagged /\ Honest

IInv ==
    /\ TypeOK /\ OneHome /\ Once /\ Kinds /\ Drained
    /\ fl.from <= added /\ fl.upto <= added
    /\ ~fl.gaveUp => Promised
-----------------------------------------------------------------------------
(* Queues.                                                                 *)

LEMMA QueueType ==
    ASSUME NEW S, NEW s \in Seq(S)
    PROVE  Len(s) \in Nat /\ DOMAIN s = 1..Len(s) /\ Range(s) \subseteq S /\ \A i \in 1..Len(s) : s[i] \in Range(s)
BY DEF Range

LEMMA PutLast ==
    ASSUME NEW S, NEW s \in Seq(S), NEW x \in S
    PROVE  /\ Append(s, x) \in Seq(S) /\ Range(Append(s, x)) = Range(s) \cup {x}
           /\ IsInjective(s) /\ x \notin Range(s) => IsInjective(Append(s, x))
<1>1. /\ Append(s, x) \in Seq(S) /\ Len(Append(s, x)) = Len(s) + 1
      /\ \A i \in 1..Len(s) : Append(s, x)[i] = s[i]
      /\ Append(s, x)[Len(s) + 1] = x
  OBVIOUS
<1>2. DOMAIN s = 1..Len(s) /\ DOMAIN Append(s, x) = 1..(Len(s) + 1) /\ Len(s) \in Nat
  BY <1>1
<1>3. Range(s) \subseteq Range(Append(s, x)) /\ x \in Range(Append(s, x))
  BY <1>1, <1>2 DEF Range
<1>4. Range(Append(s, x)) \subseteq Range(s) \cup {x}
  BY <1>1, <1>2 DEF Range
<1>5. ASSUME IsInjective(s), x \notin Range(s) PROVE IsInjective(Append(s, x))
  BY <1>1, <1>2, <1>5 DEF Range, IsInjective
<1> QED
  BY <1>1, <1>3, <1>4, <1>5

LEMMA TakeFirst ==
    ASSUME NEW S, NEW s \in Seq(S), s # <<>>
    PROVE  /\ s[1] \in S /\ s[1] \in Range(s) /\ Tail(s) \in Seq(S)
           /\ IsInjective(s) => /\ Range(Tail(s)) = Range(s) \ {s[1]} /\ IsInjective(Tail(s))
<1>1. Len(s) \in Nat /\ Len(s) # 0 /\ 1 \in 1..Len(s)
  OBVIOUS
<1>2. s = <<s[1]>> \o Tail(s) /\ Tail(s) \in Seq(S)
  BY <1>1
<1>3. /\ Len(Tail(s)) = Len(s) - 1
      /\ \A i \in 1..(Len(s) - 1) : Tail(s)[i] = s[i + 1]
  BY <1>1
<1>4. DOMAIN s = 1..Len(s) /\ DOMAIN Tail(s) = 1..(Len(s) - 1)
  BY <1>1, <1>2, <1>3
<1>5. ASSUME IsInjective(s) PROVE Range(Tail(s)) = Range(s) \ {s[1]} /\ IsInjective(Tail(s))
  <2>0. \A i, j \in 1..Len(s) : s[i] = s[j] => i = j
    BY <1>4, <1>5 DEF IsInjective
  <2>1. \A i \in 1..(Len(s) - 1) : i + 1 \in 1..Len(s) /\ i + 1 # 1
    BY <1>1
  <2>2. Range(Tail(s)) \subseteq Range(s) \ {s[1]}
    BY <1>1, <1>3, <1>4, <2>0, <2>1 DEF Range
  <2>3. ASSUME NEW j \in 1..Len(s), j # 1 PROVE s[j] \in Range(Tail(s))
    <3>1. j - 1 \in 1..(Len(s) - 1) /\ (j - 1) + 1 = j
      BY <1>1, <2>3
    <3>2. Tail(s)[j - 1] = s[j]
      BY <1>3, <3>1
    <3> QED BY <1>4, <3>1, <3>2 DEF Range
  <2>4. Range(s) \ {s[1]} \subseteq Range(Tail(s))
    BY <1>4, <2>3 DEF Range
  <2>5. IsInjective(Tail(s))
    <3> SUFFICES ASSUME NEW i \in 1..(Len(s) - 1), NEW j \in 1..(Len(s) - 1), Tail(s)[i] = Tail(s)[j]
                 PROVE  i = j
      BY <1>4 DEF IsInjective
    <3>1. s[i + 1] = s[j + 1]
      BY <1>3
    <3>2. i + 1 = j + 1
      BY <2>0, <2>1, <3>1
    <3> QED BY <1>1, <3>2
  <2> QED BY <2>2, <2>4, <2>5
<1> QED
  BY <1>1, <1>2, <1>4, <1>5, QueueType


LEMMA Rows ==
    /\ \A x \in Items : x.kind = "row" => x = Item("row", x.n)
    /\ \A r \in Nat : Item("row", r) \in Items /\ Item("row", r).kind = "row" /\ Item("row", r).n = r
BY DEF Items, Item

\* What a queue's rows become.
LEMMA RowsPut ==
    ASSUME NEW s \in Seq(Items), NEW x \in Items
    PROVE  RowsOf(Append(s, x)) = RowsOf(s) \cup (IF x.kind = "row" THEN {x.n} ELSE {})
<1>1. Range(Append(s, x)) = Range(s) \cup {x}
  BY PutLast
<1>2. x.n \in Nat
  BY DEF Items
<1>3. \A r \in Nat : Item("row", r) = x <=> (x.kind = "row" /\ x.n = r)
  BY Rows
<1> QED
  BY <1>1, <1>2, <1>3 DEF RowsOf

LEMMA RowsTaken ==
    ASSUME NEW s \in Seq(Items), s # <<>>, IsInjective(s)
    PROVE  /\ RowsOf(Tail(s)) = RowsOf(s) \ (IF s[1].kind = "row" THEN {s[1].n} ELSE {})
           /\ s[1] \in Items /\ (s[1].kind = "row" => s[1].n \in RowsOf(s))
<1>1. Range(Tail(s)) = Range(s) \ {s[1]} /\ s[1] \in Items /\ s[1] \in Range(s)
  BY TakeFirst
<1>2. s[1].n \in Nat
  BY <1>1 DEF Items
<1>3. \A r \in Nat : Item("row", r) = s[1] <=> (s[1].kind = "row" /\ s[1].n = r)
  BY <1>1, Rows
<1> QED
  BY <1>1, <1>2, <1>3 DEF RowsOf

LEMMA RowsQueued ==
    ASSUME NEW s \in Seq(Items)
    PROVE  \A r \in Nat : r \in RowsOf(s) <=> \E x \in Range(s) : x.kind = "row" /\ x.n = r
<1>1. Range(s) \subseteq Items
  BY QueueType
<1> QED
  BY <1>1, Rows DEF RowsOf

LEMMA BehindPut ==
    ASSUME NEW s \in Seq(Items), NEW x \in Items, NEW u \in Nat, Behind(s, u), x.kind = "row" => x.n > u
    PROVE  Behind(Append(s, x), u)
<1>1. /\ Len(s) \in Nat /\ Len(Append(s, x)) = Len(s) + 1 /\ Append(s, x)[Len(s) + 1] = x
      /\ \A i \in 1..Len(s) : Append(s, x)[i] = s[i]
  OBVIOUS
<1> SUFFICES ASSUME NEW i \in 1..(Len(s) + 1), NEW j \in 1..(Len(s) + 1), i < j,
                    Append(s, x)[i].kind = "noop", Append(s, x)[j].kind = "row"
             PROVE  Append(s, x)[j].n > u
  BY <1>1 DEF Behind
<1>2. i \in 1..Len(s)
  BY <1>1
<1>3. CASE j \in 1..Len(s)
  BY <1>1, <1>2, <1>3 DEF Behind
<1>4. CASE j = Len(s) + 1
  BY <1>1, <1>4
<1> QED
  BY <1>1, <1>3, <1>4

LEMMA BehindTaken ==
    ASSUME NEW s \in Seq(Items), s # <<>>, NEW u \in Nat, Behind(s, u)
    PROVE  /\ Behind(Tail(s), u)
           /\ s[1].kind = "noop" => \A x \in Range(Tail(s)) : x.kind = "row" => x.n > u
<1>1. /\ Len(s) \in Nat /\ Len(s) # 0 /\ Tail(s) \in Seq(Items) /\ Len(Tail(s)) = Len(s) - 1
      /\ \A i \in 1..(Len(s) - 1) : Tail(s)[i] = s[i + 1]
  OBVIOUS
<1>2. \A i \in 1..(Len(s) - 1) : i + 1 \in 1..Len(s) /\ 1 < i + 1 /\ 1 \in 1..Len(s)
  BY <1>1
<1>3. Behind(Tail(s), u)
  <2> SUFFICES ASSUME NEW i \in 1..(Len(s) - 1), NEW j \in 1..(Len(s) - 1), i < j,
                      Tail(s)[i].kind = "noop", Tail(s)[j].kind = "row"
               PROVE  Tail(s)[j].n > u
    BY <1>1 DEF Behind
  <2>1. i + 1 < j + 1 /\ s[i + 1].kind = "noop" /\ s[j + 1].kind = "row"
    BY <1>1
  <2>2. s[j + 1].n > u
    BY <1>2, <2>1 DEF Behind
  <2> QED BY <1>1, <2>2
<1>4. ASSUME s[1].kind = "noop", NEW x \in Range(Tail(s)), x.kind = "row" PROVE x.n > u
  <2>1. PICK i \in 1..(Len(s) - 1) : x = Tail(s)[i]
    BY <1>1 DEF Range
  <2>2. x = s[i + 1] /\ i + 1 \in 1..Len(s) /\ 1 < i + 1 /\ 1 \in 1..Len(s)
    BY <1>1, <1>2, <2>1
  <2> QED BY <1>4, <2>2 DEF Behind
<1> QED
  BY <1>3, <1>4
-----------------------------------------------------------------------------
(* The steps of the callers.                                               *)

LEMMA Types ==
    ASSUME IInv
    PROVE  /\ q \in Seq(Items) /\ backlog \in Seq(1..MaxRows) /\ wr \in Writers /\ fl \in Flushes
           /\ Len(q) <= QueueMax /\ Len(backlog) <= BacklogMax
           /\ added \in Nat /\ added <= MaxRows /\ MaxRows \in Nat /\ MaxFlushes \in Nat
           /\ QueueMax \in Nat /\ BacklogMax \in Nat /\ QueueMax # 0 /\ BacklogMax # 0
           /\ ok \in BOOLEAN /\ lost \in BOOLEAN /\ closed \in BOOLEAN
           /\ fl.from \in Nat /\ fl.upto \in Nat /\ fl.n \in Nat /\ fl.from <= added /\ fl.upto <= added
           /\ Len(q) \in Nat /\ Len(backlog) \in Nat
           /\ db \subseteq 1..added /\ dropped \subseteq 1..added /\ Waiting \subseteq 1..added
           /\ Kept \subseteq 1..added /\ InHand \subseteq 1..added
<1>1. TypeOK /\ OneHome /\ fl.from <= added /\ fl.upto <= added
  BY DEF IInv
<1>2. q \in Seq(Items) /\ backlog \in Seq(1..MaxRows) /\ wr \in Writers /\ fl \in Flushes
  BY <1>1 DEF TypeOK, Items, Hands, Writers, Flushes
<1>3. /\ added \in Nat /\ added <= MaxRows /\ MaxRows \in Nat /\ MaxFlushes \in Nat
      /\ QueueMax \in Nat /\ BacklogMax \in Nat /\ QueueMax # 0 /\ BacklogMax # 0
  BY <1>1, HistoryAssumption DEF TypeOK
<1>4. fl.from \in Nat /\ fl.upto \in Nat /\ fl.n \in Nat
  BY <1>2, <1>3 DEF Flushes
<1>5. Len(q) \in Nat /\ Len(backlog) \in Nat
  BY <1>2
<1>6. Waiting \subseteq 1..added /\ Kept \subseteq 1..added /\ InHand \subseteq 1..added
  BY <1>1 DEF OneHome
<1> QED
  BY <1>1, <1>2, <1>3, <1>4, <1>5, <1>6 DEF TypeOK

\* The types of the next state, from those of what changed.
Typed ==
    /\ q \in Seq(Items) /\ Len(q) <= QueueMax /\ backlog \in Seq(1..MaxRows) /\ Len(backlog) <= BacklogMax
    /\ db \subseteq 1..added /\ dropped \subseteq 1..added /\ added \in 0..MaxRows
    /\ wr \in Writers /\ ok \in BOOLEAN /\ lost \in BOOLEAN /\ closed \in BOOLEAN /\ fl \in Flushes

LEMMA TypedNow == ASSUME IInv PROVE Typed
BY DEF IInv, Typed, TypeOK, Items, Hands, Writers, Flushes

LEMMA TypedNext == ASSUME Typed' PROVE TypeOK'
BY DEF Typed, TypeOK, Items, Hands, Writers, Flushes

LEMMA Numbers ==
    ASSUME IInv
    PROVE  /\ added \in Nat /\ MaxRows \in Nat /\ MaxFlushes \in Nat /\ added <= MaxRows
           /\ fl.from \in Nat /\ fl.upto \in Nat /\ fl.n \in Nat /\ fl.n <= MaxFlushes
           /\ fl.from <= added /\ fl.upto <= added
<1>1. fl \in Flushes /\ MaxFlushes \in Nat
  BY Types
<1>2. fl.n \in 0..MaxFlushes
  BY <1>1 DEF Flushes
<1> QED
  BY <1>1, <1>2, Types

LEMMA NewRow ==
    ASSUME IInv, added < MaxRows
    PROVE  /\ added + 1 \in Nat /\ added + 1 \in 0..MaxRows /\ 1..(added + 1) = (1..added) \cup {added + 1}
           /\ added + 1 \notin 1..added /\ added + 1 > fl.upto
           /\ fl.from <= added + 1 /\ fl.upto <= added + 1
BY Numbers

LEMMA OldNoops ==
    ASSUME IInv
    PROVE  \A x \in Range(q) : x.n \in Nat /\ (x.kind = "noop" => x.n <= fl.n /\ x.n <= fl.n + 1)
<1>1. Range(q) \subseteq Items
  BY Types, QueueType
<1>2. \A x \in Range(q) : x.n \in Nat /\ (x.kind = "noop" => x.n <= fl.n)
  BY <1>1 DEF Items, IInv, Once
<1> QED
  BY <1>2, Numbers

LEMMA StepAdd == ASSUME IInv, Add PROVE IInv'
<1>a. TypeOK /\ OneHome /\ Once /\ Kinds /\ Drained /\ (~fl.gaveUp => Promised)
  BY DEF IInv
<1>0. /\ backlog' = backlog /\ db' = db /\ wr' = wr /\ ok' = ok /\ closed' = closed /\ fl' = fl
      /\ added' = added + 1 /\ added < MaxRows
  BY DEF Add
<1>1. InHand' = InHand /\ Kept' = Kept /\ Kinds' /\ Drained' /\ fl'.from <= added' /\ fl'.upto <= added'
  BY <1>0, <1>a, NewRow DEF InHand, Kept, Kinds, Busy, Drained
<1>2. Answering' = Answering /\ Pending' = Pending /\ Stored' = Stored
  BY <1>0 DEF Answering, Pending, Stored, Busy
<1>3. CASE q' = Append(q, Item("row", added + 1)) /\ Len(q) < QueueMax /\ dropped' = dropped /\ lost' = lost
  <2> DEFINE x == Item("row", added + 1)
  <2>1. x \in Items /\ x.kind = "row" /\ x.n = added + 1
    BY <1>0, NewRow, Rows
  <2> HIDE DEF x
  <2>2. Waiting' = Waiting \cup {added + 1}
    BY <1>3, <2>1, Types, RowsPut DEF Waiting, x
  <2>3. x \notin Range(q)
    <3>1. added + 1 \notin Waiting
      BY <1>0, NewRow, Types
    <3> QED BY <1>0, <2>1, <3>1, NewRow, Types, RowsQueued DEF Waiting
  <2>4. q' \in Seq(Items) /\ Range(q') = Range(q) \cup {x} /\ IsInjective(q') /\ Len(q') <= QueueMax
    <3>1. q' = Append(q, x) /\ q \in Seq(Items) /\ IsInjective(q)
      BY <1>3, <1>a, Types DEF Once, x
    <3>2. Len(q') = Len(q) + 1
      BY <3>1
    <3> QED BY <1>3, <2>1, <2>3, <3>1, <3>2, PutLast, Types
  <2>5. Typed'
    BY <1>0, <1>3, <2>4, NewRow, Types, TypedNow DEF Typed
  <2>6. OneHome'
    <3> DEFINE new == added + 1
    <3>1. new \notin 1..added /\ 1..added' = (1..added) \cup {new}
      BY <1>0, NewRow
    <3>2. /\ Waiting' = Waiting \cup {new} /\ InHand' = InHand /\ Kept' = Kept
          /\ db' = db /\ dropped' = dropped
      BY <1>0, <1>1, <1>3, <2>2
    <3> HIDE DEF new
    <3> QED BY <1>a, <3>1, <3>2 DEF OneHome
  <2>7. Once'
    BY <1>0, <1>a, <2>1, <2>4 DEF Once
  <2>8. ASSUME Promised PROVE Promised'
    <3>1. NoOtherNoop'
      BY <1>0, <1>2, <2>1, <2>4, <2>8 DEF Promised, NoOtherNoop
    <3>2. Behind(q, fl.upto)'
      BY <1>0, <1>3, <2>1, <2>8, NewRow, Types, BehindPut DEF Promised, x
    <3>3. OnlyTheLater'
      BY <1>0, <1>2, <2>2, <2>8, NewRow DEF Promised, OnlyTheLater
    <3>4. LossIsFlagged' /\ Honest'
      BY <1>0, <1>2, <1>3, <2>8 DEF Promised, LossIsFlagged, Honest
    <3> QED BY <3>1, <3>2, <3>3, <3>4 DEF Promised
  <2> QED BY <1>0, <1>1, <1>a, <2>5, <2>6, <2>7, <2>8, TypedNext DEF IInv
<1>4. CASE dropped' = dropped \cup {added + 1} /\ lost' = TRUE /\ q' = q
  <2>1. Waiting' = Waiting
    BY <1>4 DEF Waiting
  <2>2. Typed'
    BY <1>0, <1>4, NewRow, Types, TypedNow DEF Typed
  <2>3. OneHome'
    BY <1>0, <1>1, <1>4, <1>a, <2>1, NewRow, Types DEF OneHome
  <2>4. Once'
    BY <1>0, <1>4, <1>a DEF Once
  <2>5. ASSUME Promised PROVE Promised'
    BY <1>0, <1>2, <1>4, <2>1, <2>5 DEF Promised, NoOtherNoop, OnlyTheLater, LossIsFlagged, Honest
  <2> QED BY <1>0, <1>1, <1>a, <2>2, <2>3, <2>4, <2>5, TypedNext DEF IInv
<1> QED
  BY <1>3, <1>4 DEF Add

\* A noop or the stop behind everything queued.
LEMMA QueuesOther ==
    ASSUME IInv, NEW x \in Items, x.kind # "row", x \notin Range(q), Len(q) < QueueMax, q' = Append(q, x)
    PROVE  /\ q' \in Seq(Items) /\ Len(q') <= QueueMax /\ Range(q') = Range(q) \cup {x}
           /\ IsInjective(q') /\ Waiting' = Waiting
<1>1. q \in Seq(Items) /\ IsInjective(q)
  BY Types DEF IInv, Once
<1>2. Len(q') = Len(q) + 1
  BY <1>1
<1>3. Waiting' = Waiting
  BY <1>1, RowsPut DEF Waiting
<1>4. q' \in Seq(Items) /\ Range(q') = Range(q) \cup {x} /\ IsInjective(q')
  BY <1>1, PutLast
<1> QED
  BY <1>2, <1>3, <1>4, Types

LEMMA StepFlush == ASSUME IInv, Flush PROVE IInv'
<1>a. TypeOK /\ OneHome /\ Once /\ Kinds /\ Drained /\ (~fl.gaveUp => Promised)
  BY DEF IInv
<1>0. /\ backlog' = backlog /\ db' = db /\ dropped' = dropped /\ wr' = wr /\ ok' = ok /\ lost' = lost
      /\ closed' = closed /\ added' = added /\ fl.pc = "idle" /\ fl.n < MaxFlushes
  BY DEF Flush
<1>1. InHand' = InHand /\ Kept' = Kept /\ Kinds' /\ Drained' /\ Answering' = Answering
  BY <1>0, <1>a DEF InHand, Kept, Kinds, Busy, Drained, Answering
<1>2. ASSUME Promised PROVE ~Answering /\ \A x \in Range(q) : x.kind # "noop"
  BY <1>0, <1>2 DEF Promised, NoOtherNoop, OnlyTheLater, Pending
<1>3. CASE /\ Len(q) < QueueMax /\ q' = Append(q, Item("noop", fl.n + 1))
           /\ fl' = [fl EXCEPT !.pc = "waits", !.n = @ + 1, !.upto = added, !.done = "pending"]
  <2> DEFINE x == Item("noop", fl.n + 1)
  <2>1. x \in Items /\ x.kind = "noop" /\ x.n = fl.n + 1
    BY Numbers DEF Item, Items
  <2> HIDE DEF x
  <2>2. x \notin Range(q)
    BY <1>a, <2>1, Numbers DEF Once
  <2>3. /\ q' \in Seq(Items) /\ Len(q') <= QueueMax /\ Range(q') = Range(q) \cup {x}
        /\ IsInjective(q') /\ Waiting' = Waiting
    BY <1>3, <2>1, <2>2, QueuesOther DEF x
  <2>4. /\ fl' \in Flushes /\ fl'.pc = "waits" /\ fl'.n = fl.n + 1 /\ fl'.upto = added /\ fl'.from = fl.from
        /\ fl'.done = "pending" /\ fl'.gaveUp = fl.gaveUp
    <3>1. fl.n + 1 \in 0..MaxFlushes /\ added \in 0..MaxRows
      BY <1>0, Numbers
    <3>2. fl' = [pc |-> "waits", n |-> fl.n + 1, from |-> fl.from, upto |-> added, done |-> "pending",
                 result |-> fl.result, gaveUp |-> fl.gaveUp]
      BY <1>3, Types DEF Flushes
    <3> QED BY <3>1, <3>2, Types DEF Flushes
  <2>5. Typed'
    BY <1>0, <2>3, <2>4, TypedNow DEF Typed
  <2>6. OneHome'
    BY <1>0, <1>1, <1>a, <2>3 DEF OneHome
  <2>7. Once'
    BY <1>0, <1>a, <2>1, <2>3, <2>4, Numbers, OldNoops DEF Once
  <2>8. ASSUME Promised PROVE Promised'
    <3>1. NoOtherNoop' /\ OnlyTheLater'
      BY <1>1, <1>2, <2>1, <2>3, <2>4, <2>8 DEF NoOtherNoop, OnlyTheLater, Pending
    <3>2. Behind(q, added)
      <4>1. \A i \in 1..Len(q) : q[i].kind # "noop"
        BY <1>2, <2>8, Types, QueueType
      <4> QED BY <4>1 DEF Behind
    <3>3. Behind(q', added)
      BY <1>3, <2>1, <3>2, Types, BehindPut DEF x
    <3>4. LossIsFlagged' /\ Honest'
      BY <1>0, <1>1, <1>2, <2>4, <2>8 DEF Promised, LossIsFlagged, Honest, Answering
    <3> QED BY <2>4, <3>1, <3>3, <3>4 DEF Promised
  <2> QED BY <1>0, <1>1, <1>a, <2>4, <2>5, <2>6, <2>7, <2>8, TypedNext, Numbers DEF IInv
<1>4. CASE /\ fl' = [fl EXCEPT !.pc = "returned", !.n = @ + 1, !.upto = added, !.result = FALSE] /\ q' = q
  <2>1. /\ fl' \in Flushes /\ fl'.pc = "returned" /\ fl'.n = fl.n + 1 /\ fl'.upto = added /\ fl'.from = fl.from
        /\ fl'.result = FALSE /\ fl'.gaveUp = fl.gaveUp
    <3>1. fl.n + 1 \in 0..MaxFlushes /\ added \in 0..MaxRows
      BY <1>0, Numbers
    <3>2. fl' = [pc |-> "returned", n |-> fl.n + 1, from |-> fl.from, upto |-> added, done |-> fl.done,
                 result |-> FALSE, gaveUp |-> fl.gaveUp]
      BY <1>4, Types DEF Flushes
    <3> QED BY <3>1, <3>2, Types DEF Flushes
  <2>2. Waiting' = Waiting
    BY <1>4 DEF Waiting
  <2>3. Typed'
    BY <1>0, <1>4, <2>1, TypedNow DEF Typed
  <2>4. OneHome'
    BY <1>0, <1>1, <1>a, <2>2 DEF OneHome
  <2>5. Once'
    BY <1>0, <1>4, <1>a, <2>1, Numbers, OldNoops DEF Once
  <2>6. ASSUME Promised PROVE Promised'
    <3>1. NoOtherNoop' /\ OnlyTheLater'
      BY <1>1, <1>2, <1>4, <2>6 DEF NoOtherNoop, OnlyTheLater
    <3>2. Behind(q', fl'.upto)
      <4>1. \A i \in 1..Len(q) : q[i].kind # "noop"
        BY <1>2, <2>6, Types, QueueType
      <4> QED BY <1>4, <4>1 DEF Behind
    <3>3. LossIsFlagged' /\ Honest'
      BY <1>1, <1>2, <2>1, <2>6 DEF LossIsFlagged, Honest, Answering, Pending
    <3> QED BY <3>1, <3>2, <3>3 DEF Promised
  <2> QED BY <1>0, <1>1, <1>a, <2>1, <2>3, <2>4, <2>5, <2>6, TypedNext, Numbers DEF IInv
<1> QED
  BY <1>3, <1>4 DEF Flush
\* A step of the caller that touches nothing but its own flush.
LEMMA FlushMoves ==
    ASSUME IInv, fl' \in Flushes, fl'.n = fl.n, fl'.from \in {fl.from, added}, fl'.upto = fl.upto,
           UNCHANGED <<q, backlog, db, dropped, wr, ok, lost, closed, added>>,
           ~fl'.gaveUp => Promised'
    PROVE  IInv'
<1>a. TypeOK /\ OneHome /\ Once /\ Kinds /\ Drained
  BY DEF IInv
<1>1. TypeOK'
  <2>1. Typed'
    BY TypedNow DEF Typed
  <2> QED BY <2>1, TypedNext
<1>2. Waiting' = Waiting /\ InHand' = InHand /\ Kept' = Kept
  BY DEF Waiting, InHand, Kept
<1>3. OneHome'
  BY <1>2, <1>a DEF OneHome
<1>4. Once' /\ Kinds' /\ Drained'
  BY <1>a DEF Once, Kinds, Drained, Busy
<1>5. fl'.from <= added' /\ fl'.upto <= added'
  BY Numbers
<1> QED
  BY <1>1, <1>3, <1>4, <1>5 DEF IInv

LEMMA StepFlushReturns == ASSUME IInv, FlushReturns PROVE IInv'
<1>0. /\ UNCHANGED <<q, backlog, db, dropped, wr, ok, lost, closed, added>>
      /\ fl.pc = "waits" /\ fl \in Flushes
  BY Types DEF FlushReturns
<1>1. CASE fl.done # "pending" /\ fl' = [fl EXCEPT !.pc = "returned", !.result = (fl.done = "true")]
  <2>1. fl' = [pc |-> "returned", n |-> fl.n, from |-> fl.from, upto |-> fl.upto, done |-> fl.done,
               result |-> (fl.done = "true"), gaveUp |-> fl.gaveUp]
    BY <1>0, <1>1 DEF Flushes
  <2>2. fl' \in Flushes
    BY <1>0, <2>1 DEF Flushes
  <2>3. /\ fl'.pc = "returned" /\ fl'.n = fl.n /\ fl'.from = fl.from /\ fl'.upto = fl.upto
        /\ fl'.gaveUp = fl.gaveUp /\ (fl'.result <=> fl.done = "true")
    BY <2>1
  <2>4. ASSUME ~fl'.gaveUp PROVE Promised'
    <3>1. Promised /\ ~Pending
      BY <1>1, <2>3, <2>4 DEF IInv, Pending
    <3>2. ~Answering /\ \A x \in Range(q) : x.kind # "noop"
      BY <3>1 DEF Promised, NoOtherNoop, OnlyTheLater
    <3>3. NoOtherNoop' /\ OnlyTheLater' /\ LossIsFlagged'
      BY <1>0, <2>3, <3>2 DEF NoOtherNoop, OnlyTheLater, LossIsFlagged, Pending, Answering, Busy
    <3>4. Behind(q', fl'.upto) /\ Honest'
      BY <1>0, <2>3, <3>1, <3>2 DEF Promised, Honest, Stored, Answering
    <3> QED BY <3>3, <3>4 DEF Promised
  <2> QED BY <1>0, <2>2, <2>3, <2>4, FlushMoves
<1>2. CASE fl.done = "pending" /\ fl' = [fl EXCEPT !.pc = "returned", !.result = FALSE, !.gaveUp = TRUE]
  <2>1. /\ fl' \in Flushes /\ fl'.n = fl.n /\ fl'.from = fl.from /\ fl'.upto = fl.upto /\ fl'.gaveUp = TRUE
    BY <1>0, <1>2 DEF Flushes
  <2> QED BY <1>0, <2>1, FlushMoves
<1> QED
  BY <1>1, <1>2 DEF FlushReturns

LEMMA StepFlushAgain == ASSUME IInv, FlushAgain PROVE IInv'
<1>0. /\ UNCHANGED <<q, backlog, db, dropped, wr, ok, lost, closed, added>>
      /\ fl.pc = "returned" /\ fl \in Flushes /\ fl' = [fl EXCEPT !.pc = "idle", !.from = added]
  BY Types DEF FlushAgain
<1>1. /\ fl' \in Flushes /\ fl'.pc = "idle" /\ fl'.n = fl.n /\ fl'.from = added /\ fl'.upto = fl.upto
      /\ fl'.gaveUp = fl.gaveUp
  <2>1. added \in 0..MaxRows
    BY Numbers
  <2> QED BY <1>0, <2>1 DEF Flushes
<1>2. ASSUME ~fl'.gaveUp PROVE Promised'
  <2>1. Promised /\ ~Pending
    BY <1>0, <1>1, <1>2 DEF IInv, Pending
  <2>2. ~Answering /\ \A x \in Range(q) : x.kind # "noop"
    BY <2>1 DEF Promised, NoOtherNoop, OnlyTheLater
  <2>3. NoOtherNoop' /\ OnlyTheLater'
    BY <1>0, <1>1, <2>2 DEF NoOtherNoop, OnlyTheLater, Answering, Busy
  <2>4. Behind(q', fl'.upto) /\ Honest'
    BY <1>0, <1>1, <2>1, <2>2 DEF Promised, Honest, Answering
  <2>5. LossIsFlagged'
    <3>1. \A r \in dropped : r <= added
      BY Types
    <3> QED BY <1>0, <1>1, <3>1 DEF LossIsFlagged
  <2> QED BY <2>3, <2>4, <2>5 DEF Promised
<1> QED
  BY <1>0, <1>1, <1>2, FlushMoves

LEMMA StepClose == ASSUME IInv, Close PROVE IInv'
<1>a. TypeOK /\ OneHome /\ Once /\ Kinds /\ Drained /\ (~fl.gaveUp => Promised)
  BY DEF IInv
<1>0. /\ backlog' = backlog /\ db' = db /\ dropped' = dropped /\ wr' = wr /\ ok' = ok /\ lost' = lost
      /\ added' = added /\ fl' = fl /\ ~closed /\ closed' = TRUE
      /\ q' = IF Len(q) < QueueMax THEN Append(q, Item("stop", 0)) ELSE q
  BY DEF Close
<1> DEFINE x == Item("stop", 0)
<1>1. x \in Items /\ x.kind = "stop"
  BY DEF Item, Items
<1>2. x \notin Range(q)
  BY <1>0, <1>1, <1>a DEF Once
<1>3. /\ q' \in Seq(Items) /\ Len(q') <= QueueMax /\ Range(q') \subseteq Range(q) \cup {x}
      /\ IsInjective(q') /\ Waiting' = Waiting
  <2>1. CASE Len(q) < QueueMax
    <3> HIDE DEF x
    <3> QED BY <1>0, <1>1, <1>2, <2>1, QueuesOther DEF x
  <2>2. CASE ~(Len(q) < QueueMax)
    BY <1>0, <1>a, <2>2, Types DEF Once, Waiting
  <2> QED BY <2>1, <2>2
<1> HIDE DEF x
<1>4. InHand' = InHand /\ Kept' = Kept /\ Kinds' /\ Drained' /\ Answering' = Answering /\ Pending' = Pending
  BY <1>0, <1>a DEF InHand, Kept, Kinds, Busy, Drained, Answering, Pending
<1>5. TypeOK'
  <2>1. Typed'
    BY <1>0, <1>3, TypedNow DEF Typed
  <2> QED BY <2>1, TypedNext
<1>6. OneHome'
  BY <1>0, <1>3, <1>4, <1>a DEF OneHome
<1>7. Once'
  BY <1>0, <1>1, <1>3, <1>a DEF Once
<1>8. ASSUME Promised PROVE Promised'
  <2>1. NoOtherNoop' /\ OnlyTheLater'
    BY <1>0, <1>1, <1>3, <1>4, <1>8 DEF Promised, NoOtherNoop, OnlyTheLater
  <2>2. Behind(q', fl'.upto)
    BY <1>0, <1>1, <1>8, Types, BehindPut DEF Promised, x
  <2>3. LossIsFlagged' /\ Honest'
    BY <1>0, <1>4, <1>8 DEF Promised, LossIsFlagged, Honest, Stored
  <2> QED BY <2>1, <2>2, <2>3 DEF Promised
<1> QED
  BY <1>0, <1>4, <1>5, <1>6, <1>7, <1>8, <1>a DEF IInv

-----------------------------------------------------------------------------
(* The steps of the writer.                                                *)

LEMMA StepGet == ASSUME IInv, Get PROVE IInv'
<1>a. TypeOK /\ OneHome /\ Once /\ Kinds /\ Drained /\ (~fl.gaveUp => Promised)
  BY DEF IInv
<1>0. /\ backlog' = backlog /\ db' = db /\ dropped' = dropped /\ ok' = ok /\ lost' = lost /\ closed' = closed
      /\ added' = added /\ fl' = fl /\ wr.pc = "get" /\ q # <<>> /\ q' = Tail(q)
  BY DEF Get
<1> DEFINE x == q[1]
<1>1. /\ q \in Seq(Items) /\ IsInjective(q) /\ x \in Items /\ x \in Range(q) /\ q' \in Seq(Items)
      /\ Range(q') = Range(q) \ {x} /\ IsInjective(q')
  <2>1. q \in Seq(Items) /\ IsInjective(q)
    BY <1>a, Types DEF Once
  <2> QED BY <1>0, <2>1, TakeFirst
<1>2. /\ Waiting' = Waiting \ (IF x.kind = "row" THEN {x.n} ELSE {})
      /\ x.kind = "row" => x.n \in Waiting
  BY <1>0, <1>1, RowsTaken DEF Waiting
<1>3. Len(q') <= QueueMax
  <2>1. Len(q') = Len(q) - 1 /\ Len(q) \in Nat
    BY <1>0, <1>1
  <2> QED BY <2>1, Types
<1>4. wr' = [pc |-> IF x.kind = "stop" THEN "dead" ELSE "recover", item |-> x]
  BY <1>0, <1>1 DEF Get
<1> HIDE DEF x
<1>5. x.kind \in {"row", "noop", "stop"} /\ x \in Hands /\ x.n \in Nat
  BY <1>1 DEF Items, Hands
<1>6. wr' \in Writers /\ wr'.item = x /\ wr'.pc = IF x.kind = "stop" THEN "dead" ELSE "recover"
  BY <1>4, <1>5 DEF Writers
<1>7. InHand = {} /\ InHand' = IF x.kind = "row" THEN {x.n} ELSE {}
  BY <1>0, <1>5, <1>6 DEF InHand
<1>8. TypeOK'
  <2>1. Typed'
    BY <1>0, <1>1, <1>3, <1>6, TypedNow DEF Typed
  <2> QED BY <2>1, TypedNext
<1>9. Kept' = Kept
  BY <1>0 DEF Kept
<1>10. OneHome'
  BY <1>0, <1>2, <1>7, <1>9, <1>a DEF OneHome
<1>11. Once'
  BY <1>0, <1>1, <1>a DEF Once
<1>12. Kinds' /\ Drained'
  BY <1>0, <1>5, <1>6, <1>a DEF Kinds, Busy, Drained
<1>13. ASSUME Promised PROVE Promised'
  <2>1. ~Answering /\ Pending' = Pending /\ Stored' = Stored /\ (Answering' <=> x.kind = "noop")
    BY <1>0, <1>5, <1>6 DEF Answering, Busy, Pending, Stored
  <2>2. \A y \in Range(q') : y.kind = "noop" => y.n = fl.n /\ Pending /\ x.kind # "noop"
    <3> SUFFICES ASSUME NEW y \in Range(q'), y.kind = "noop" PROVE y.n = fl.n /\ Pending /\ x.kind # "noop"
      OBVIOUS
    <3>1. y \in Range(q) /\ y # x /\ y \in Items
      BY <1>1, QueueType
    <3>2. y.n = fl.n /\ Pending
      BY <1>13, <3>1 DEF Promised, NoOtherNoop
    <3>3. ASSUME x.kind = "noop" PROVE FALSE
      <4>1. x.n = fl.n
        BY <1>1, <1>13, <3>3 DEF Promised, NoOtherNoop
      <4> QED BY <1>1, <3>1, <3>2, <3>3, <4>1 DEF Items
    <3> QED BY <3>2, <3>3
  <2>3. NoOtherNoop'
    BY <1>0, <2>1, <2>2 DEF NoOtherNoop
  <2>4. Behind(q', fl'.upto) /\ (x.kind = "noop" => \A y \in Range(q') : y.kind = "row" => y.n > fl.upto)
    BY <1>0, <1>1, <1>13, Numbers, BehindTaken DEF Promised, x
  <2>5. OnlyTheLater'
    <3> SUFFICES ASSUME x.kind = "noop" PROVE wr'.item.n = fl'.n /\ Pending' /\ \A r \in Waiting' : r > fl'.upto
      BY <2>1 DEF OnlyTheLater
    <3>1. x.n = fl.n /\ Pending
      BY <1>1, <1>13 DEF Promised, NoOtherNoop
    <3>2. \A r \in Waiting' : r > fl.upto
      BY <1>1, <2>4, RowsQueued DEF Waiting, RowsOf
    <3> QED BY <1>0, <1>6, <2>1, <3>1, <3>2
  <2>6. LossIsFlagged' /\ Honest'
    BY <1>0, <1>6, <1>13, <2>1 DEF Promised, LossIsFlagged, Honest
  <2> QED BY <2>3, <2>4, <2>5, <2>6 DEF Promised
<1> QED
  BY <1>0, <1>8, <1>10, <1>11, <1>12, <1>13, <1>a DEF IInv
\* What a step of the writer that leaves the queue and the flush alone owes.
LEMMA WriterMoves ==
    ASSUME IInv, UNCHANGED <<q, closed, added, fl>>, wr' \in Writers,
           backlog' \in Seq(1..MaxRows), Len(backlog') <= BacklogMax, IsInjective(backlog'),
           ok' \in BOOLEAN, lost' \in BOOLEAN,
           InHand' \cup Kept' \cup db' \cup dropped' = InHand \cup Kept \cup db \cup dropped,
           InHand' \cap Kept' = {}, InHand' \cap db' = {}, InHand' \cap dropped' = {},
           Kept' \cap db' = {}, Kept' \cap dropped' = {}, db' \cap dropped' = {},
           Kinds', Drained', ~fl.gaveUp => Promised'
    PROVE  IInv'
<1>a. TypeOK /\ OneHome /\ Once
  BY DEF IInv
<1>1. Waiting' = Waiting
  BY DEF Waiting
<1>2. db' \subseteq 1..added /\ dropped' \subseteq 1..added
  BY <1>a DEF OneHome
<1>3. TypeOK'
  <2>1. Typed'
    BY <1>2, TypedNow DEF Typed
  <2> QED BY <2>1, TypedNext
<1>4. OneHome'
  <2>1. 1..added = Waiting \cup InHand' \cup Kept' \cup db' \cup dropped'
    BY <1>a DEF OneHome
  <2>2. Waiting \cap InHand' = {} /\ Waiting \cap Kept' = {} /\ Waiting \cap db' = {} /\ Waiting \cap dropped' = {}
    BY <1>a DEF OneHome
  <2> QED BY <1>1, <2>1, <2>2 DEF OneHome
<1>5. Once'
  BY <1>a DEF Once
<1>6. fl'.from <= added' /\ fl'.upto <= added'
  BY Numbers
<1> QED
  BY <1>3, <1>4, <1>5, <1>6 DEF IInv

\* And why the promise survives it: nothing is answered, and what is given up is
\* flagged.
LEMMA NothingAnswered ==
    ASSUME IInv, Promised, UNCHANGED <<q, fl>>, wr.pc # "clear", wr'.pc # "clear",
           Answering' = Answering, Answering => wr'.item = wr.item,
           db \subseteq db', lost' \/ (lost' = lost /\ dropped' = dropped)
    PROVE  Promised'
<1>1. Waiting' = Waiting /\ Pending' = Pending /\ (Stored => Stored')
  BY DEF Waiting, Pending, Stored
<1>2. NoOtherNoop' /\ OnlyTheLater'
  BY <1>1 DEF Promised, NoOtherNoop, OnlyTheLater
<1>3. LossIsFlagged'
  BY <1>1 DEF Promised, LossIsFlagged
<1>4. Honest'
  BY <1>1 DEF Promised, Honest
<1> QED
  BY <1>2, <1>3, <1>4 DEF Promised

LEMMA Apart ==
    ASSUME IInv
    PROVE  /\ InHand \cap Kept = {} /\ InHand \cap db = {} /\ InHand \cap dropped = {}
           /\ Kept \cap db = {} /\ Kept \cap dropped = {} /\ db \cap dropped = {}
           /\ IsInjective(backlog) /\ Kinds /\ Drained /\ (~fl.gaveUp => Promised)
BY DEF IInv, OneHome, Once

LEMMA StepTurn == ASSUME IInv, Turn PROVE IInv'
<1>0. /\ UNCHANGED <<q, closed, added, fl>> /\ backlog' = backlog /\ db' = db /\ dropped' = dropped
      /\ ok' = ok /\ lost' = lost /\ wr.pc = "get" /\ wr' = [pc |-> "recover", item |-> Nothing]
  BY DEF Turn
<1>1. wr' \in Writers /\ wr'.pc = "recover" /\ wr'.item.kind = "none"
  BY <1>0 DEF Writers, Hands, Nothing, Item
<1>2. InHand = {} /\ InHand' = {} /\ Kept' = Kept /\ ~Answering /\ ~Answering'
  BY <1>0, <1>1 DEF InHand, Kept, Answering, Busy
<1>3. Kinds' /\ Drained'
  BY <1>0, <1>1, Apart DEF Kinds, Drained, Busy
<1>4. ASSUME ~fl.gaveUp PROVE Promised'
  <2>1. Promised /\ Answering' = Answering /\ (Answering => wr'.item = wr.item)
    BY <1>2, <1>4, Apart DEF Answering
  <2>2. wr.pc # "clear" /\ wr'.pc # "clear" /\ UNCHANGED <<q, fl>> /\ db \subseteq db'
    BY <1>0, <1>1
  <2> QED BY <1>0, <2>1, <2>2, NothingAnswered
<1> QED
  BY <1>0, <1>1, <1>2, <1>3, <1>4, Apart, Types, WriterMoves

\* The writer goes on with the item in its hand.
LEMMA ItemKept ==
    ASSUME IInv, NEW to \in {"get", "handle", "drain"}, ItemDone(to), wr.pc \in {"recover", "drain", "handle"}
    PROVE  /\ wr' \in Writers /\ wr'.pc = to /\ wr'.item = wr.item
           /\ to # "get" => Answering' = Answering /\ InHand' = InHand
           /\ to = "get" => ~Answering' /\ InHand' = {}
<1>1. wr \in Writers /\ wr' = [pc |-> to, item |-> wr.item]
  BY Types DEF ItemDone
<1>2. wr' \in Writers /\ wr'.pc = to /\ wr'.item = wr.item
  BY <1>1 DEF Writers
<1> QED
  BY <1>2 DEF Answering, Busy, InHand

LEMMA StepNoRecovery == ASSUME IInv, NoRecovery PROVE IInv'
<1>0. /\ UNCHANGED <<q, closed, added, fl>> /\ backlog' = backlog /\ db' = db /\ dropped' = dropped
      /\ ok' = ok /\ lost' = lost /\ wr.pc = "recover" /\ ItemDone("handle")
  BY DEF NoRecovery
<1>1. /\ wr' \in Writers /\ wr'.pc = "handle" /\ wr'.item = wr.item /\ Answering' = Answering
      /\ InHand' = InHand
  BY <1>0, ItemKept
<1>2. Kept' = Kept
  BY <1>0 DEF Kept
<1>3. Kinds' /\ Drained'
  BY <1>0, <1>1, Apart DEF Kinds, Drained, Busy
<1>4. ~fl.gaveUp => Promised'
  BY <1>0, <1>1, Apart, NothingAnswered
<1> QED
  BY <1>0, <1>1, <1>2, <1>3, <1>4, Apart, Types, WriterMoves

LEMMA StepRecovers == ASSUME IInv, Recovers PROVE IInv'
<1>0. /\ UNCHANGED <<q, closed, added, fl>> /\ backlog' = backlog /\ db' = db /\ dropped' = dropped
      /\ ok' = TRUE /\ lost' = lost /\ wr.pc = "recover" /\ ItemDone("drain")
  BY DEF Recovers
<1>1. /\ wr' \in Writers /\ wr'.pc = "drain" /\ wr'.item = wr.item /\ Answering' = Answering
      /\ InHand' = InHand
  BY <1>0, ItemKept
<1>2. Kept' = Kept
  BY <1>0 DEF Kept
<1>3. Kinds' /\ Drained'
  BY <1>0, <1>1, Apart DEF Kinds, Drained, Busy
<1>4. ~fl.gaveUp => Promised'
  BY <1>0, <1>1, Apart, NothingAnswered
<1> QED
  BY <1>0, <1>1, <1>2, <1>3, <1>4, Apart, Types, WriterMoves

\* The oldest row leaves the backlog.
LEMMA BacklogTaken ==
    ASSUME IInv, backlog # <<>>
    PROVE  /\ Head(backlog) \in 1..MaxRows /\ Head(backlog) \in Kept /\ Tail(backlog) \in Seq(1..MaxRows)
           /\ Range(Tail(backlog)) = Kept \ {Head(backlog)} /\ IsInjective(Tail(backlog))
           /\ Len(Tail(backlog)) + 1 = Len(backlog) /\ Len(Tail(backlog)) \in Nat
<1>1. backlog \in Seq(1..MaxRows) /\ IsInjective(backlog)
  BY Types, Apart
<1>2. Head(backlog) = backlog[1] /\ Len(Tail(backlog)) + 1 = Len(backlog) /\ Len(Tail(backlog)) \in Nat
  BY <1>1
<1>3. /\ backlog[1] \in 1..MaxRows /\ backlog[1] \in Range(backlog) /\ Tail(backlog) \in Seq(1..MaxRows)
      /\ Range(Tail(backlog)) = Range(backlog) \ {backlog[1]} /\ IsInjective(Tail(backlog))
  BY <1>1, TakeFirst
<1> QED
  BY <1>2, <1>3 DEF Kept

LEMMA StepDrain == ASSUME IInv, Drain PROVE IInv'
<1>0. UNCHANGED <<q, closed, added, fl>> /\ wr.pc = "drain"
  BY DEF Drain
<1> DEFINE b == Head(backlog)
<1>1. CASE /\ backlog = <<>> \/ ~ok
           /\ ItemDone("handle") /\ UNCHANGED <<backlog, db, dropped, ok, lost>>
  <2>1. /\ wr' \in Writers /\ wr'.pc = "handle" /\ wr'.item = wr.item /\ Answering' = Answering
        /\ InHand' = InHand
    BY <1>0, <1>1, ItemKept
  <2>2. Kept' = Kept /\ Kinds' /\ Drained'
    BY <1>0, <1>1, <2>1, Apart DEF Kept, Kinds, Drained, Busy
  <2>3. ~fl.gaveUp => Promised'
    BY <1>0, <1>1, <2>1, Apart, NothingAnswered
  <2> QED BY <1>0, <1>1, <2>1, <2>2, <2>3, Apart, Types, WriterMoves
<1>2. ASSUME wr' = wr PROVE InHand' = InHand /\ Answering' = Answering /\ Kinds' /\ wr' \in Writers
  BY <1>2, Apart, Types DEF InHand, Answering, Busy, Kinds
<1>3. CASE /\ backlog # <<>> /\ wr' = wr /\ db' = db \cup {b} /\ backlog' = Tail(backlog)
           /\ UNCHANGED <<dropped, lost, ok>>
  <2>1. Kept' = Kept \ {b} /\ b \in Kept
    BY <1>3, BacklogTaken DEF Kept
  <2>2. Drained'
    BY <1>0, <1>3 DEF Drained
  <2>3. ~fl.gaveUp => Promised'
    BY <1>0, <1>2, <1>3, Apart, NothingAnswered
  <2>4. backlog' \in Seq(1..MaxRows) /\ Len(backlog') <= BacklogMax /\ IsInjective(backlog')
    BY <1>3, BacklogTaken, Types
  <2> HIDE DEF b
  <2> QED BY <1>0, <1>2, <1>3, <2>1, <2>2, <2>3, <2>4, Apart, Types, WriterMoves
<1>4. CASE /\ backlog # <<>> /\ wr' = wr /\ dropped' = dropped \cup {b} /\ lost' = TRUE
           /\ backlog' = Tail(backlog) /\ UNCHANGED <<db, ok>>
  <2>1. Kept' = Kept \ {b} /\ b \in Kept
    BY <1>4, BacklogTaken DEF Kept
  <2>2. Drained'
    BY <1>0, <1>4 DEF Drained
  <2>3. ~fl.gaveUp => Promised'
    BY <1>0, <1>2, <1>4, Apart, NothingAnswered
  <2>4. backlog' \in Seq(1..MaxRows) /\ Len(backlog') <= BacklogMax /\ IsInjective(backlog')
    BY <1>4, BacklogTaken, Types
  <2> HIDE DEF b
  <2> QED BY <1>0, <1>2, <1>4, <2>1, <2>2, <2>3, <2>4, Apart, Types, WriterMoves
<1>5. CASE /\ backlog # <<>> /\ wr' = wr /\ ok' = FALSE /\ backlog' = Append(Tail(backlog), b)
           /\ UNCHANGED <<db, dropped, lost>>
  <2>1. /\ b \in 1..MaxRows /\ b \in Kept /\ Tail(backlog) \in Seq(1..MaxRows)
        /\ Range(Tail(backlog)) = Kept \ {b} /\ IsInjective(Tail(backlog))
        /\ Len(Tail(backlog)) + 1 = Len(backlog)
    BY <1>5, BacklogTaken
  <2> HIDE DEF b
  <2>2. /\ backlog' \in Seq(1..MaxRows) /\ Range(backlog') = Kept /\ IsInjective(backlog')
    <3>1. b \notin Range(Tail(backlog)) /\ (Kept \ {b}) \cup {b} = Kept
      BY <2>1
    <3>2. /\ Append(Tail(backlog), b) \in Seq(1..MaxRows) /\ IsInjective(Append(Tail(backlog), b))
          /\ Range(Append(Tail(backlog), b)) = Range(Tail(backlog)) \cup {b}
      <4> DEFINE S == 1..MaxRows
      <4>1. b \in S /\ Tail(backlog) \in Seq(S) /\ IsInjective(Tail(backlog)) /\ b \notin Range(Tail(backlog))
        BY <2>1, <3>1
      <4> HIDE DEF S
      <4>2. Append(Tail(backlog), b) \in Seq(S)
        BY <4>1, PutLast
      <4>3. /\ IsInjective(Append(Tail(backlog), b))
            /\ Range(Append(Tail(backlog), b)) = Range(Tail(backlog)) \cup {b}
        <5> DEFINE r == Tail(backlog)
        <5>1. r \in Seq(S) /\ IsInjective(r) /\ b \notin Range(r)
          BY <4>1
        <5> HIDE DEF r
        <5>2. IsInjective(Append(r, b)) /\ Range(Append(r, b)) = Range(r) \cup {b}
          BY <4>1, <5>1, PutLast
        <5> QED BY <5>2 DEF r
      <4> QED BY <4>2, <4>3 DEF S
    <3> QED BY <1>5, <2>1, <3>1, <3>2
  <2>3. Len(backlog') <= BacklogMax
    <3>1. Len(backlog') = Len(Tail(backlog)) + 1
      BY <1>5, <2>1
    <3> QED BY <2>1, <3>1, Types
  <2>4. Kept' = Kept /\ Drained'
    BY <1>5, <2>2 DEF Kept, Drained
  <2>5. ~fl.gaveUp => Promised'
    BY <1>0, <1>2, <1>5, Apart, NothingAnswered
  <2> QED BY <1>0, <1>2, <1>5, <2>2, <2>3, <2>4, <2>5, Apart, Types, WriterMoves
<1> QED
  BY <1>1, <1>3, <1>4, <1>5 DEF Drain

\* A row goes to the end of the backlog, and the oldest makes room for it.
LEMMA PutKept ==
    ASSUME IInv, NEW s \in Seq(1..MaxRows), NEW r \in 1..MaxRows, r \notin Range(s), IsInjective(s)
    PROVE  /\ Append(s, r) \in Seq(1..MaxRows) /\ Range(Append(s, r)) = Range(s) \cup {r}
           /\ IsInjective(Append(s, r)) /\ Len(Append(s, r)) = Len(s) + 1
<1> DEFINE S == 1..MaxRows
<1>1. s \in Seq(S) /\ r \in S
  OBVIOUS
<1>2. Append(s, r) \in Seq(S) /\ Len(Append(s, r)) = Len(s) + 1
  BY <1>1
<1> HIDE DEF S
<1>3. Range(Append(s, r)) = Range(s) \cup {r} /\ IsInjective(Append(s, r))
  BY <1>1, PutLast
<1> QED
  BY <1>2, <1>3 DEF S

LEMMA KeepRow ==
    ASSUME IInv, NEW r \in 1..MaxRows, r \notin Kept, Keep(r)
    PROVE  /\ backlog' \in Seq(1..MaxRows) /\ Len(backlog') <= BacklogMax /\ IsInjective(backlog')
           /\ lost' \in BOOLEAN
           /\ \/ Kept' = Kept \cup {r} /\ dropped' = dropped /\ lost' = lost
              \/ \E oldest \in Kept : Kept' = (Kept \ {oldest}) \cup {r} /\ dropped' = dropped \cup {oldest} /\ lost' = TRUE
<1>1. /\ backlog \in Seq(1..MaxRows) /\ IsInjective(backlog) /\ Len(backlog) \in Nat
      /\ Len(backlog) <= BacklogMax /\ BacklogMax \in Nat /\ BacklogMax # 0 /\ lost \in BOOLEAN
  BY Types, Apart
<1>2. CASE Len(backlog) = BacklogMax
  <2> DEFINE oldest == Head(backlog)
             rest == Tail(backlog)
  <2>1. backlog' = Append(rest, r) /\ dropped' = dropped \cup {oldest} /\ lost' = TRUE
    BY <1>2 DEF Keep
  <2>2. backlog # <<>>
    BY <1>1, <1>2
  <2>3. /\ oldest \in Kept /\ rest \in Seq(1..MaxRows) /\ Range(rest) = Kept \ {oldest} /\ IsInjective(rest)
        /\ Len(rest) + 1 = Len(backlog)
    BY <2>2, BacklogTaken
  <2> HIDE DEF oldest, rest
  <2>4. r \notin Range(rest)
    BY <2>3
  <2>5. /\ backlog' \in Seq(1..MaxRows) /\ IsInjective(backlog') /\ Range(backlog') = Range(rest) \cup {r}
        /\ Len(backlog') = Len(rest) + 1
    BY <2>1, <2>3, <2>4, PutKept
  <2>6. Kept' = (Kept \ {oldest}) \cup {r}
    BY <2>3, <2>5 DEF Kept
  <2> QED BY <1>1, <2>1, <2>3, <2>5, <2>6
<1>3. CASE Len(backlog) # BacklogMax
  <2>1. backlog' = Append(backlog, r) /\ dropped' = dropped /\ lost' = lost
    BY <1>1, <1>3 DEF Keep
  <2>2. /\ backlog' \in Seq(1..MaxRows) /\ IsInjective(backlog') /\ Range(backlog') = Range(backlog) \cup {r}
        /\ Len(backlog') = Len(backlog) + 1
    BY <1>1, <2>1, PutKept DEF Kept
  <2>3. Len(backlog') <= BacklogMax
    BY <1>1, <1>3, <2>2
  <2> QED BY <1>1, <2>1, <2>2, <2>3 DEF Kept
<1> QED
  BY <1>2, <1>3

LEMMA StepHandleRow == ASSUME IInv, HandleRow PROVE IInv'
<1> DEFINE r == wr.item.n
<1>0. /\ UNCHANGED <<q, closed, added, fl>> /\ wr.pc = "handle" /\ wr.item.kind = "row" /\ ItemDone("get")
  BY DEF HandleRow
<1>1. wr' \in Writers /\ wr'.pc = "get" /\ ~Answering' /\ InHand' = {}
  BY <1>0, ItemKept
<1>2. InHand = {r} /\ ~Answering
  BY <1>0 DEF InHand, Answering
<1>3. r \in 1..MaxRows /\ r \notin Kept /\ r \notin db /\ r \notin dropped
  <2>1. r \in 1..added
    BY <1>2, Types
  <2> QED BY <1>2, <2>1, Numbers, Apart
<1> HIDE DEF r
<1>4. Kinds'
  BY <1>1 DEF Kinds, Busy
<1>5. ASSUME ~fl.gaveUp, db \subseteq db', lost' \/ (lost' = lost /\ dropped' = dropped) PROVE Promised'
  <2>1. Promised /\ Answering' = Answering /\ (Answering => wr'.item = wr.item)
    BY <1>1, <1>2, <1>5, Apart DEF Answering
  <2>2. wr.pc # "clear" /\ wr'.pc # "clear" /\ UNCHANGED <<q, fl>>
    BY <1>0, <1>1
  <2> QED BY <1>5, <2>1, <2>2, NothingAnswered
<1>6. CASE db' = db \cup {r} /\ UNCHANGED <<dropped, lost, ok, backlog>>
  <2>1. Kept' = Kept /\ Drained'
    BY <1>0, <1>1, <1>6, Apart DEF Kept, Drained
  <2>2. ~fl.gaveUp => Promised'
    BY <1>5, <1>6
  <2> QED BY <1>0, <1>1, <1>2, <1>3, <1>4, <1>6, <2>1, <2>2, Apart, Types, WriterMoves
<1>7. CASE dropped' = dropped \cup {r} /\ lost' = TRUE /\ UNCHANGED <<db, ok, backlog>>
  <2>1. Kept' = Kept /\ Drained'
    BY <1>0, <1>1, <1>7, Apart DEF Kept, Drained
  <2>2. ~fl.gaveUp => Promised'
    BY <1>5, <1>7
  <2> QED BY <1>0, <1>1, <1>2, <1>3, <1>4, <1>7, <2>1, <2>2, Apart, Types, WriterMoves
<1>8. CASE Keep(r) /\ db' = db /\ ok' = FALSE
  <2>1. /\ backlog' \in Seq(1..MaxRows) /\ Len(backlog') <= BacklogMax /\ IsInjective(backlog')
        /\ lost' \in BOOLEAN
        /\ \/ Kept' = Kept \cup {r} /\ dropped' = dropped /\ lost' = lost
           \/ \E oldest \in Kept : Kept' = (Kept \ {oldest}) \cup {r} /\ dropped' = dropped \cup {oldest} /\ lost' = TRUE
    BY <1>3, <1>8, KeepRow
  <2>2. Drained'
    BY <1>8 DEF Drained
  <2>3. ~fl.gaveUp => Promised'
    BY <1>5, <1>8, <2>1
  <2>4. InHand' \cup Kept' \cup db' \cup dropped' = InHand \cup Kept \cup db \cup dropped
    BY <1>1, <1>2, <1>8, <2>1
  <2>5. /\ InHand' \cap Kept' = {} /\ InHand' \cap db' = {} /\ InHand' \cap dropped' = {}
        /\ Kept' \cap db' = {} /\ Kept' \cap dropped' = {} /\ db' \cap dropped' = {}
    BY <1>1, <1>3, <1>8, <2>1, Apart
  <2> QED BY <1>0, <1>1, <1>4, <1>8, <2>1, <2>2, <2>3, <2>4, <2>5, WriterMoves
<1>9. \/ db' = db \cup {r} /\ UNCHANGED <<dropped, lost, ok, backlog>>
      \/ dropped' = dropped \cup {r} /\ lost' = TRUE /\ UNCHANGED <<db, ok, backlog>>
      \/ Keep(r) /\ db' = db /\ ok' = FALSE
  <2>1. ok \in BOOLEAN
    BY Types
  <2> QED BY <2>1 DEF HandleRow, Written, GivenUp, Broken, r
<1> QED
  BY <1>6, <1>7, <1>8, <1>9

LEMMA StepHandleTick == ASSUME IInv, HandleTick PROVE IInv'
<1>0. /\ UNCHANGED <<q, closed, added, fl>> /\ backlog' = backlog /\ db' = db /\ dropped' = dropped
      /\ ok' = ok /\ lost' = lost /\ wr.pc = "handle" /\ wr.item.kind = "none" /\ ItemDone("get")
  BY DEF HandleTick
<1>1. wr' \in Writers /\ wr'.pc = "get" /\ ~Answering' /\ InHand' = {}
  BY <1>0, ItemKept
<1>2. InHand = {} /\ ~Answering /\ Kept' = Kept
  BY <1>0 DEF InHand, Answering, Kept
<1>3. Kinds' /\ Drained'
  BY <1>0, <1>1, Apart DEF Kinds, Drained, Busy
<1>4. ASSUME ~fl.gaveUp PROVE Promised'
  <2>1. Promised /\ Answering' = Answering /\ (Answering => wr'.item = wr.item)
    BY <1>1, <1>2, <1>4, Apart DEF Answering
  <2>2. wr.pc # "clear" /\ wr'.pc # "clear" /\ UNCHANGED <<q, fl>> /\ db \subseteq db'
    BY <1>0, <1>1
  <2> QED BY <1>0, <2>1, <2>2, NothingAnswered
<1> QED
  BY <1>0, <1>1, <1>2, <1>3, <1>4, Apart, Types, WriterMoves

LEMMA StepHandleNoop == ASSUME IInv, HandleNoop PROVE IInv'
<1> DEFINE kind == IF ok /\ ~lost THEN "true" ELSE "false"
<1>0. /\ UNCHANGED <<q, closed, added, fl>> /\ backlog' = backlog /\ db' = db /\ dropped' = dropped
      /\ ok' = ok /\ lost' = lost /\ wr.pc = "handle" /\ wr.item.kind = "noop"
      /\ wr' = [pc |-> "clear", item |-> [kind |-> kind, n |-> wr.item.n]]
  BY DEF HandleNoop, Item
<1>1. kind \in {"true", "false"} /\ (kind = "true" => ok /\ ~lost)
  OBVIOUS
<1> HIDE DEF kind
<1>2. wr' \in Writers /\ wr'.pc = "clear" /\ wr'.item.kind = kind /\ wr'.item.n = wr.item.n
  <2>1. wr.item.n \in Nat
    BY Types DEF Writers, Hands
  <2>2. [kind |-> kind, n |-> wr.item.n] \in Hands
    BY <1>1, <2>1 DEF Hands
  <2> QED BY <1>0, <2>2 DEF Writers
<1>3. InHand = {} /\ InHand' = {} /\ Kept' = Kept /\ Waiting' = Waiting /\ Answering /\ Answering'
  BY <1>0, <1>2 DEF InHand, Kept, Waiting, Answering, Busy
<1>4. Kinds' /\ Drained'
  BY <1>0, <1>1, <1>2, Apart DEF Kinds, Drained, Busy
<1>5. ASSUME ~fl.gaveUp PROVE Promised'
  <2>1. Promised /\ wr.item.n = fl.n /\ Pending /\ \A r \in Waiting : r > fl.upto
    BY <1>3, <1>5, Apart DEF Promised, OnlyTheLater
  <2>2. Pending' /\ fl.pc = "waits" /\ fl.done = "pending"
    BY <1>0, <2>1 DEF Pending
  <2>3. NoOtherNoop' /\ OnlyTheLater' /\ Behind(q', fl'.upto)
    BY <1>0, <1>2, <1>3, <2>1, <2>2 DEF Promised, NoOtherNoop, OnlyTheLater
  <2>4. LossIsFlagged'
    BY <1>0, <1>2, <2>2 DEF LossIsFlagged
  <2>5. ASSUME kind = "true" PROVE Stored
    <3> SUFFICES ASSUME NEW r \in (fl.from + 1)..fl.upto PROVE r \in db
      BY DEF Stored
    <3>1. r \in 1..added /\ r > fl.from /\ r <= fl.upto
      BY Numbers
    <3>2. r \notin Waiting
      <4>1. r \in Nat /\ ~(r > fl.upto)
        BY <3>1, Numbers
      <4> QED BY <2>1, <4>1
    <3>3. Kept = {}
      <4>1. backlog = <<>>
        BY <1>0, <1>1, <2>5, Apart DEF Drained
      <4> QED BY <4>1 DEF Kept, Range
    <3>4. r \notin dropped
      <4>1. \A d \in dropped : d <= fl.from
        BY <1>0, <1>1, <2>1, <2>5 DEF Promised, LossIsFlagged
      <4>2. ~(r <= fl.from)
        BY <3>1, Numbers
      <4> QED BY <4>1, <4>2
    <3> QED BY <1>3, <3>1, <3>2, <3>3, <3>4 DEF IInv, OneHome
  <2>6. Honest'
    <3>1. Stored' = Stored
      BY <1>0 DEF Stored
    <3> QED BY <1>0, <1>2, <2>2, <2>5, <3>1 DEF Honest
  <2> QED BY <2>3, <2>4, <2>6 DEF Promised
<1> QED
  BY <1>0, <1>2, <1>3, <1>4, <1>5, Apart, Types, WriterMoves

LEMMA StepClearLost == ASSUME IInv, ClearLost PROVE IInv'
<1>a. OneHome /\ Once /\ Kinds /\ Drained /\ fl.from <= added /\ fl.upto <= added
  BY DEF IInv
<1> DEFINE done == IF wr.item.n = fl.n /\ fl.pc = "waits" THEN wr.item.kind ELSE fl.done
<1>0. /\ UNCHANGED <<q, backlog, db, dropped, ok, closed, added>> /\ lost' = FALSE /\ wr.pc = "clear"
      /\ fl' = [fl EXCEPT !.done = done] /\ wr' = [pc |-> "get", item |-> wr.item]
  BY DEF ClearLost, ItemDone
<1>1. wr.item.kind \in {"true", "false"} /\ done \in {"pending", "true", "false"}
  BY <1>0, <1>a, Types DEF Kinds, Flushes
<1>2. wr' \in Writers /\ wr'.pc = "get"
  BY <1>0, Types DEF Writers
<1>3. /\ fl' \in Flushes /\ fl'.pc = fl.pc /\ fl'.n = fl.n /\ fl'.from = fl.from /\ fl'.upto = fl.upto
      /\ fl'.done = done /\ fl'.result = fl.result /\ fl'.gaveUp = fl.gaveUp
  <2> HIDE DEF done
  <2> QED BY <1>0, <1>1, Types DEF Flushes
<1>4. InHand = {} /\ InHand' = {} /\ Kept' = Kept /\ Waiting' = Waiting
  BY <1>0, <1>2 DEF InHand, Kept, Waiting
<1>5. TypeOK'
  <2>1. Typed'
    BY <1>0, <1>2, <1>3, TypedNow DEF Typed
  <2> QED BY <2>1, TypedNext
<1>6. OneHome' /\ Once'
  BY <1>0, <1>3, <1>4, <1>a DEF OneHome, Once
<1>7. Kinds' /\ Drained'
  BY <1>0, <1>2, <1>a DEF Kinds, Drained, Busy
<1>8. ASSUME ~fl'.gaveUp PROVE Promised'
  <2>1. Promised /\ Answering /\ ~Answering'
    BY <1>0, <1>2, <1>3, <1>8, Apart DEF Answering, Busy
  <2>2. wr.item.n = fl.n /\ Pending /\ \A x \in Range(q) : x.kind # "noop"
    BY <2>1 DEF Promised, OnlyTheLater, NoOtherNoop
  <2>3. done = wr.item.kind /\ ~Pending' /\ fl.pc = "waits"
    BY <1>1, <1>3, <2>2 DEF Pending
  <2>4. NoOtherNoop' /\ OnlyTheLater' /\ Behind(q', fl'.upto)
    BY <1>0, <1>3, <2>1, <2>2 DEF Promised, NoOtherNoop, OnlyTheLater
  <2>5. LossIsFlagged'
    BY <1>3, <2>3 DEF LossIsFlagged
  <2>6. Stored' = Stored /\ (wr.item.kind = "true" => Stored)
    BY <1>0, <1>3, <2>1 DEF Stored, Promised, Honest
  <2>7. Honest'
    BY <1>2, <1>3, <2>3, <2>6 DEF Honest
  <2> QED BY <2>4, <2>5, <2>7 DEF Promised
<1>9. fl'.from <= added' /\ fl'.upto <= added'
  BY <1>0, <1>3, <1>a
<1> QED
  BY <1>5, <1>6, <1>7, <1>8, <1>9 DEF IInv
-----------------------------------------------------------------------------
(* The invariant.                                                          *)

LEMMA InitIInv == ASSUME Init PROVE IInv
<1>0. /\ q = <<>> /\ backlog = <<>> /\ db = {} /\ dropped = {} /\ lost = FALSE /\ closed = FALSE /\ added = 0
      /\ wr = [pc |-> "get", item |-> Nothing] /\ ok \in BOOLEAN /\ fl = NoFlush
  BY DEF Init
<1>1. wr \in Writers /\ wr.pc = "get"
  BY <1>0 DEF Writers, Hands, Nothing, Item
<1>2. fl \in Flushes /\ fl.pc = "idle" /\ fl.from = 0 /\ fl.upto = 0
  BY <1>0, HistoryAssumption DEF Flushes, NoFlush
<1>3. Range(q) = {} /\ Range(backlog) = {} /\ IsInjective(q) /\ IsInjective(backlog)
  BY <1>0 DEF Range, IsInjective
<1>4. q \in Seq(Items) /\ backlog \in Seq(1..MaxRows) /\ Len(q) = 0 /\ Len(backlog) = 0
  BY <1>0
<1>5. TypeOK
  <2>1. 0 <= QueueMax /\ 0 <= BacklogMax /\ added \in 0..MaxRows /\ db \subseteq 1..added /\ dropped \subseteq 1..added
    BY <1>0, HistoryAssumption
  <2>2. ok \in BOOLEAN /\ lost \in BOOLEAN /\ closed \in BOOLEAN
    BY <1>0
  <2> QED BY <1>1, <1>2, <1>4, <2>1, <2>2 DEF TypeOK, Items, Hands, Writers, Flushes
<1>6. OneHome
  <2>1. Waiting = {} /\ InHand = {} /\ Kept = {}
    BY <1>1, <1>3 DEF Waiting, RowsOf, InHand, Kept
  <2>2. 1..added = {}
    BY <1>0
  <2> QED BY <1>0, <2>1, <2>2 DEF OneHome
<1>7. Once /\ Kinds /\ Drained
  BY <1>0, <1>1, <1>3 DEF Once, Kinds, Busy, Drained
<1>8. Promised
  <2>1. NoOtherNoop /\ OnlyTheLater
    BY <1>1, <1>3 DEF NoOtherNoop, OnlyTheLater, Answering, Busy
  <2>2. Behind(q, fl.upto)
    BY <1>0 DEF Behind
  <2>3. LossIsFlagged /\ Honest
    BY <1>0, <1>1, <1>2 DEF LossIsFlagged, Honest
  <2> QED BY <2>1, <2>2, <2>3 DEF Promised
<1> QED
  BY <1>0, <1>2, <1>5, <1>6, <1>7, <1>8 DEF IInv

LEMMA NextIInv == ASSUME IInv, [Next]_vars PROVE IInv'
<1>1. CASE UNCHANGED vars
  BY <1>1 DEF vars, IInv, TypeOK, OneHome, Waiting, InHand, Kept, Once, Kinds, Busy, Drained, Promised, NoOtherNoop,
      Pending, Answering, OnlyTheLater, LossIsFlagged, Honest, Stored
<1> QED
  BY <1>1, StepAdd, StepFlush, StepFlushReturns, StepFlushAgain, StepClose, StepGet, StepTurn, StepNoRecovery,
     StepRecovers, StepDrain, StepHandleRow, StepHandleNoop, StepClearLost, StepHandleTick DEF Next

\* A sequence without repetitions has as many elements as places.
LEMMA AllDifferent ==
    ASSUME NEW S, NEW s \in Seq(S), IsInjective(s)
    PROVE  Cardinality(ToSet(s)) = Len(s)
<1>1. Len(s) \in Nat /\ DOMAIN s = 1..Len(s) /\ s \in [1..Len(s) -> ToSet(s)]
  BY DEF ToSet
<1>2. s \in Bijection(1..Len(s), ToSet(s))
  BY <1>1 DEF Bijection, Injection, Surjection, IsInjective, ToSet
<1> QED
  BY <1>1, <1>2, FS_CountingElements DEF ExistsBijection

LEMMA HonestIInv == ASSUME IInv PROVE HistoryIsHonest
<1>1. TypeOK /\ OneHome
  BY DEF IInv
<1>2. Queued = Waiting
  <2>1. q \in Seq(Items)
    BY Types
  <2>2. \A r \in Nat : r \in Waiting <=> \E x \in Range(q) : x.kind = "row" /\ x.n = r
    BY <2>1, RowsQueued DEF Waiting
  <2>3. \A x \in Range(q) : x.n \in Nat
    <3>1. Range(q) \subseteq Items
      BY <2>1, QueueType
    <3> QED BY <3>1 DEF Items
  <2>4. Queued = {x.n : x \in {y \in Range(q) : y.kind = "row"}}
    BY DEF Queued, Range
  <2> QED BY <2>2, <2>3, <2>4 DEF Waiting, RowsOf
<1>3. ToSet(backlog) = Kept
  BY DEF ToSet, Kept, Range
<1>4. Cardinality(ToSet(backlog)) = Len(backlog)
  BY Apart, Types, AllDifferent
<1>5. RowsAccounted
  BY <1>1, <1>2, <1>3, <1>4 DEF RowsAccounted, OneHome
<1>6. FlushHonest
  BY Apart DEF FlushHonest, Promised, Honest, Stored
<1> QED
  BY <1>1, <1>5, <1>6 DEF HistoryIsHonest

-----------------------------------------------------------------------------
(* The stream server.                                                      *)

InUse   == {c \in Conns : h[c] # "none"}
Viewing == {c \in Conns : h[c] \in Stream!Streaming}
Places  == {"none", "request", "admission", "close"} \cup Stream!Streaming

StreamInv == Stream!TypeOK /\ Stream!ViewersCounted /\ h \in [Conns -> Places]

LEMMA ConnsFinite == IsFiniteSet(Conns) /\ MaxConn \in Nat /\ Cap \in Nat
BY DashboardAssumption

LEMMA StreamCardinality == \A S : Stream!Cardinality(S) = Cardinality(S)
BY DEF Stream!Cardinality, Cardinality

LEMMA StreamInit == Stream!Init => StreamInv
<1> SUFFICES ASSUME Stream!Init PROVE StreamInv
  OBVIOUS
<1>1. h = [c \in Conns |-> "none"] /\ free = MaxConn /\ n = 0 /\ lock = Stream!Nobody
  BY DEF Stream!Init
<1>2. InUse = {} /\ Viewing = {}
  BY <1>1 DEF InUse, Viewing, Stream!Streaming
<1>3. Cardinality({}) = 0 /\ Cardinality(Conns) \in Nat
  BY FS_EmptySet, FS_CardinalityType, ConnsFinite
<1>5. Cardinality(InUse) = 0 /\ Cardinality(Viewing) = 0
  BY <1>2, <1>3
<1>4. Stream!ViewersCounted
  BY <1>1, <1>5, ConnsFinite, StreamCardinality DEF Stream!ViewersCounted, InUse, Viewing
<1> QED
  BY <1>1, <1>3, <1>4, ConnsFinite, StreamCardinality DEF StreamInv, Stream!TypeOK, Places

\* A handler goes from one place to another.
LEMMA HandlerMoves ==
    ASSUME StreamInv, NEW c \in Conns, NEW to \in Places, h' = [h EXCEPT ![c] = to],
           n' = Cardinality(Viewing'), n' <= Cap, free' = MaxConn - Cardinality(InUse'), free' >= 0,
           lock' \in Conns \cup {Stream!Nobody}
    PROVE  StreamInv'
<1>1. h' \in [Conns -> Places]
  BY DEF StreamInv
<1>2. Viewing' \subseteq Conns /\ InUse' \subseteq Conns
  BY DEF Viewing, InUse
<1>3. Cardinality(Viewing') \in Nat /\ Cardinality(InUse') \in Nat /\ Cardinality(Conns) \in Nat
      /\ Cardinality(Viewing') <= Cardinality(Conns)
  BY <1>2, FS_Subset, FS_CardinalityType, ConnsFinite
<1>4. Stream!ViewersCounted'
  BY StreamCardinality DEF Stream!ViewersCounted, Viewing, InUse
<1>5. Stream!TypeOK'
  BY <1>1, <1>3, ConnsFinite, StreamCardinality DEF Stream!TypeOK, Places
<1> QED
  BY <1>1, <1>4, <1>5 DEF StreamInv

LEMMA Counts ==
    ASSUME StreamInv
    PROVE  /\ n = Cardinality(Viewing) /\ n <= Cap /\ n \in Nat
           /\ free = MaxConn - Cardinality(InUse) /\ free \in Nat /\ Cardinality(InUse) \in Nat
           /\ IsFiniteSet(Viewing) /\ IsFiniteSet(InUse)
<1>1. IsFiniteSet(Viewing) /\ IsFiniteSet(InUse)
  BY FS_Subset, ConnsFinite DEF Viewing, InUse
<1>2. Cardinality(Viewing) \in Nat /\ Cardinality(InUse) \in Nat
  BY <1>1, FS_CardinalityType
<1> QED
  BY <1>1, <1>2, ConnsFinite, StreamCardinality DEF StreamInv, Stream!ViewersCounted, Stream!TypeOK, Viewing, InUse

\* What a move does to the two sets.
LEMMA Moved ==
    ASSUME StreamInv, NEW c \in Conns, NEW to \in Places, h' = [h EXCEPT ![c] = to]
    PROVE  /\ Viewing' = IF to \in Stream!Streaming THEN Viewing \cup {c} ELSE Viewing \ {c}
           /\ InUse' = IF to = "none" THEN InUse \ {c} ELSE InUse \cup {c}
<1>1. \A d \in Conns : h'[d] = IF d = c THEN to ELSE h[d]
  BY DEF StreamInv
<1> QED
  BY <1>1 DEF Viewing, InUse

LEMMA StreamNext == StreamInv /\ Stream!Next => StreamInv'
<1> SUFFICES ASSUME StreamInv, Stream!Next PROVE StreamInv'
  OBVIOUS
<1>c. lock \in Conns \cup {Stream!Nobody}
  BY DEF StreamInv, Stream!TypeOK
<1> USE DEF Stream!Goes
<1>1. CASE Stream!Stop
  BY <1>1 DEF Stream!Stop, StreamInv, Stream!TypeOK, Stream!ViewersCounted
<1>2. ASSUME NEW c \in Conns, Stream!Accept(c) PROVE StreamInv'
  <2>1. CASE UNCHANGED <<free, h>>
    BY <1>2, <2>1 DEF Stream!Accept, StreamInv, Stream!TypeOK, Stream!ViewersCounted
  <2>2. CASE free' = free - 1 /\ h' = [h EXCEPT ![c] = "request"]
    <3>0. "request" \in Places /\ "request" \notin Stream!Streaming /\ "request" # "none"
      BY DEF Places, Stream!Streaming
    <3>5. InUse' = InUse \cup {c} /\ Viewing' = Viewing \ {c}
      BY <2>2, <3>0, Moved
    <3>6. h[c] = "none" /\ c \notin InUse /\ c \notin Viewing
      BY <1>2 DEF Stream!Accept, InUse, Viewing, Stream!Streaming
    <3>1. InUse' = InUse \cup {c} /\ c \notin InUse /\ Viewing' = Viewing
      BY <3>5, <3>6
    <3>2. Cardinality(InUse') = Cardinality(InUse) + 1
      BY <3>1, Counts, FS_AddElement
    <3>3. free > 0 /\ n' = n /\ lock' = lock
      BY <1>2 DEF Stream!Accept
    <3>4. free' = MaxConn - Cardinality(InUse') /\ free' >= 0 /\ n' = Cardinality(Viewing') /\ n' <= Cap
      BY <2>2, <3>1, <3>2, <3>3, Counts, ConnsFinite
    <3> QED BY <1>c, <2>2, <3>3, <3>4, HandlerMoves DEF Places
  <2> QED BY <1>2, <2>1, <2>2 DEF Stream!Accept
<1>3. ASSUME NEW c \in Conns,
             Stream!PlainRequest(c) \/ Stream!AsksForStream(c) \/ Stream!Refuse(c) \/ Stream!Writes(c) \/ Stream!LoopTurns(c)
      PROVE  StreamInv'
  <2>1. PICK to \in Places :
           /\ h' = [h EXCEPT ![c] = to] /\ free' = free /\ n' = n /\ lock' \in {lock, c, Stream!Nobody}
           /\ h[c] # "none" /\ to # "none" /\ (h[c] \in Stream!Streaming <=> to \in Stream!Streaming)
    BY <1>3 DEF Stream!PlainRequest, Stream!AsksForStream, Stream!Refuse, Stream!Writes, Stream!LoopTurns,
                Places, Stream!Streaming
  <2>2. Viewing' = Viewing /\ InUse' = InUse
    BY <2>1, Moved DEF Viewing, InUse
  <2>3. n' = Cardinality(Viewing') /\ n' <= Cap /\ free' = MaxConn - Cardinality(InUse') /\ free' >= 0
    BY <2>1, <2>2, Counts
  <2>4. lock' \in Conns \cup {Stream!Nobody}
    BY <1>c, <2>1
  <2> QED BY <2>1, <2>3, <2>4, HandlerMoves
<1>4. ASSUME NEW c \in Conns, Stream!Admit(c) PROVE StreamInv'
  <2>1. h' = [h EXCEPT ![c] = "headers"] /\ n' = n + 1 /\ n < Cap /\ free' = free /\ lock' = Stream!Nobody
    BY <1>4 DEF Stream!Admit
  <2>2. Viewing' = Viewing \cup {c} /\ c \notin Viewing /\ InUse' = InUse
    BY <1>4, <2>1, Moved DEF Stream!Admit, Viewing, InUse, Places, Stream!Streaming
  <2>3. Cardinality(Viewing') = Cardinality(Viewing) + 1
    BY <2>2, Counts, FS_AddElement
  <2>4. n' = Cardinality(Viewing') /\ n' <= Cap
    BY <2>1, <2>3, Counts, ConnsFinite
  <2>5. "headers" \in Places
    BY DEF Places, Stream!Streaming
  <2>6. free' = MaxConn - Cardinality(InUse') /\ free' >= 0
    BY <2>1, <2>2, Counts
  <2> QED BY <2>1, <2>4, <2>5, <2>6, HandlerMoves
<1>5. ASSUME NEW c \in Conns, Stream!Leaves(c) PROVE StreamInv'
  <2>1. h' = [h EXCEPT ![c] = "close"] /\ n' = n - 1 /\ free' = free /\ lock' = lock
    BY <1>5 DEF Stream!Leaves
  <2>2. Viewing' = Viewing \ {c} /\ c \in Viewing /\ InUse' = InUse
    BY <1>5, <2>1, Moved DEF Stream!Leaves, Viewing, InUse, Places, Stream!Streaming
  <2>3. Cardinality(Viewing') = Cardinality(Viewing) - 1
    BY <2>2, Counts, FS_RemoveElement
  <2>4. n' = Cardinality(Viewing') /\ n' <= Cap
    BY <2>1, <2>3, Counts, ConnsFinite
  <2>5. free' = MaxConn - Cardinality(InUse') /\ free' >= 0
    BY <2>1, <2>2, Counts
  <2>6. "close" \in Places
    BY DEF Places
  <2> QED BY <1>c, <2>1, <2>4, <2>5, <2>6, HandlerMoves
<1>6. ASSUME NEW c \in Conns, Stream!Closes(c) PROVE StreamInv'
  <2>1. h' = [h EXCEPT ![c] = "none"] /\ free' = free + 1 /\ n' = n /\ lock' = lock
    BY <1>6 DEF Stream!Closes
  <2>2. InUse' = InUse \ {c} /\ c \in InUse /\ Viewing' = Viewing
    BY <1>6, <2>1, Moved DEF Stream!Closes, Viewing, InUse, Places, Stream!Streaming
  <2>3. Cardinality(InUse') = Cardinality(InUse) - 1
    BY <2>2, Counts, FS_RemoveElement
  <2>4. free' = MaxConn - Cardinality(InUse') /\ free' >= 0
    BY <2>1, <2>3, Counts, ConnsFinite
  <2> QED BY <1>c, <2>1, <2>2, <2>4, Counts, HandlerMoves DEF Places
<1> QED
  BY <1>1, <1>2, <1>3, <1>4, <1>5, <1>6 DEF Stream!Next, Stream!Runs

-----------------------------------------------------------------------------
(* The memory bridge.                                                      *)

Meant(q1) == IF q1.overridden THEN q1.given ELSE q1.query
Calls == [pc : {"new", "ensure", "call", "answered"}, tool : {"remember", "recall", "forget", "memory_status"},
          query : Spaces, given : Spaces, space : Spaces, overridden : BOOLEAN,
          answer : {"none", "stored", "error", "hits"}]
MemoryInv ==
    /\ req \in [Requests -> Calls] /\ knownSpaces \subseteq Spaces /\ created \subseteq Spaces
    /\ \A r \in Requests : req[r].space = Meant(req[r])
    /\ Memory!StoredWhereAsked

LEMMA MemoryInit == Memory!Init => MemoryInv
BY DashboardAssumption
   DEF Memory!Init, Memory!NoRequest, MemoryInv, Calls, Meant, Memory!StoredWhereAsked

LEMMA MemoryNext == MemoryInv /\ Memory!Next => MemoryInv'
<1> SUFFICES ASSUME MemoryInv, NEW r \in Requests,
                    Memory!Arrives(r) \/ Memory!EnsureSpace(r) \/ Memory!Remember(r) \/ Memory!OtherTool(r)
             PROVE  MemoryInv'
  BY DEF Memory!Next
<1>0. req[r] \in Calls /\ req[r].space = Meant(req[r])
  BY DEF MemoryInv
<1>1. ASSUME NEW new \in Calls, req' = [req EXCEPT ![r] = new], new.space = Meant(new),
             knownSpaces' \subseteq Spaces, created' \subseteq Spaces, stored \subseteq stored',
             new.answer = "stored" => <<r, Meant(new)>> \in stored',
             knownSpaces' \subseteq created' \cup refusing'
      PROVE  MemoryInv'
  <2>1. \A o \in Requests : req'[o] = IF o = r THEN new ELSE req[o]
    BY <1>1 DEF MemoryInv
  <2>2. req' \in [Requests -> Calls]
    BY <1>1 DEF MemoryInv
  <2>3. \A o \in Requests : req'[o].answer = "stored" => <<o, Meant(req'[o])>> \in stored'
    BY <1>1, <2>1 DEF MemoryInv, Memory!StoredWhereAsked, Meant
  <2> QED BY <1>1, <2>1, <2>2, <2>3 DEF MemoryInv, Memory!StoredWhereAsked, Meant
<1>2. CASE Memory!Arrives(r)
  <2>1. PICK tool \in {"remember", "recall", "forget", "memory_status"}, query \in Spaces, given \in Spaces,
             overridden \in BOOLEAN :
           req' = [req EXCEPT ![r] =
                     [pc |-> IF tool \in {"remember", "recall"} THEN "ensure" ELSE "call",
                      tool |-> tool, query |-> query, given |-> given, overridden |-> overridden,
                      space |-> IF overridden THEN given ELSE query, answer |-> "none"]]
    BY <1>2 DEF Memory!Arrives, Memory!ContextSpace
  <2> DEFINE new == [pc |-> IF tool \in {"remember", "recall"} THEN "ensure" ELSE "call",
                     tool |-> tool, query |-> query, given |-> given, overridden |-> overridden,
                     space |-> IF overridden THEN given ELSE query, answer |-> "none"]
  <2>2. new \in Calls /\ new.space = Meant(new) /\ new.answer # "stored"
    BY DEF Calls, Meant
  <2>3. UNCHANGED <<knownSpaces, created, refusing, stored>>
    BY <1>2 DEF Memory!Arrives
  <2> QED BY <1>1, <2>1, <2>2, <2>3 DEF MemoryInv, Memory!StoredWhereAsked
<1>3. CASE Memory!EnsureSpace(r)
  <2> DEFINE new == [req[r] EXCEPT !.pc = "call"]
  <2>1. req' = [req EXCEPT ![r] = new]
    BY <1>3 DEF Memory!EnsureSpace
  <2>2. new \in Calls /\ new.space = Meant(new) /\ new.answer = req[r].answer /\ Meant(new) = Meant(req[r])
    BY <1>0 DEF Calls, Meant
  <2>3. /\ knownSpaces' \subseteq knownSpaces \cup {req[r].space} /\ created' \subseteq created \cup {req[r].space}
        /\ knownSpaces' \subseteq created' \cup refusing' /\ stored' = stored
    BY <1>3 DEF Memory!EnsureSpace, MemoryInv, Memory!StoredWhereAsked
  <2>4. req[r].space \in Spaces
    BY <1>0 DEF Calls
  <2>5. req[r].answer = "stored" => <<r, Meant(req[r])>> \in stored
    BY DEF MemoryInv, Memory!StoredWhereAsked, Meant
  <2> QED BY <1>1, <2>1, <2>2, <2>3, <2>4, <2>5 DEF MemoryInv
<1>4. CASE Memory!Remember(r)
  <2>1. PICK a \in {"stored", "error"} :
           /\ req' = [req EXCEPT ![r].pc = "answered", ![r].answer = a]
           /\ stored \subseteq stored' /\ (a = "stored" => <<r, req[r].space>> \in stored')
           /\ UNCHANGED <<knownSpaces, created, refusing>>
    BY <1>4 DEF Memory!Remember
  <2> DEFINE new == [req[r] EXCEPT !.pc = "answered", !.answer = a]
  <2>2. req' = [req EXCEPT ![r] = new]
    BY <2>1 DEF MemoryInv
  <2>3. new \in Calls /\ new.space = req[r].space /\ new.answer = a /\ Meant(new) = Meant(req[r])
    BY <1>0 DEF Calls, Meant
  <2> QED BY <1>0, <1>1, <2>1, <2>2, <2>3 DEF MemoryInv, Memory!StoredWhereAsked
<1>5. CASE Memory!OtherTool(r)
  <2>1. PICK a \in {"hits", "error"} :
           /\ req' = [req EXCEPT ![r].pc = "answered", ![r].answer = a]
           /\ UNCHANGED <<knownSpaces, created, refusing, stored>>
    BY <1>5 DEF Memory!OtherTool
  <2> DEFINE new == [req[r] EXCEPT !.pc = "answered", !.answer = a]
  <2>2. req' = [req EXCEPT ![r] = new]
    BY <2>1 DEF MemoryInv
  <2>3. new \in Calls /\ new.space = req[r].space /\ new.answer # "stored" /\ Meant(new) = Meant(req[r])
    BY <1>0 DEF Calls, Meant
  <2> QED BY <1>0, <1>1, <2>1, <2>2, <2>3 DEF MemoryInv, Memory!StoredWhereAsked
<1> QED
  BY <1>2, <1>3, <1>4, <1>5

LEMMA MemoryProperties == MemoryInv => Memory!TypeOK /\ Memory!StoredWhereAsked
<1> SUFFICES ASSUME MemoryInv PROVE Memory!TypeOK
  BY DEF MemoryInv
<1>1. \A r \in Requests : req[r] \in Calls
  BY DEF MemoryInv
<1> QED
  BY <1>1 DEF MemoryInv, Memory!TypeOK, Calls

-----------------------------------------------------------------------------
(* The journal follower.                                                   *)

Following == {"publish", "check", "read", "ending", "reap"}

FollowTypes ==
    /\ pc \in Following \cup {"loop", "down", "finished"}
    /\ cycle \in 0..MaxCycles /\ proc \in 0..cycle
    /\ child \in [Follow!Cycles -> {"none", "alive", "dead"}]
    /\ ended \in [Follow!Cycles -> BOOLEAN] /\ reported \in [Follow!Cycles -> BOOLEAN]
    /\ watcher \in [Follow!Cycles -> {"none", "waits", "polls", "reports"}]
    /\ stopper \in [pc : {"none", "look", "end", "join"}, saw : 0..MaxCycles]
    /\ state \in Seq({"up", "down"})

\* Only the present cycle's child may be alive, and an old cycle's watcher
\* finds its cycle ended.
OneCycle ==
    /\ cycle = 0 => pc \in {"loop", "finished"}
    /\ \A c \in Follow!Cycles : c > cycle => /\ child[c] = "none" /\ watcher[c] = "none"
                                             /\ ~ended[c] /\ ~reported[c]
    /\ \A c \in Follow!Cycles : child[c] = "alive" => c = cycle /\ pc \in Following
    /\ \A c \in Follow!Cycles : watcher[c] # "none" => ended[c] \/ (c = cycle /\ pc \in {"read", "ending"})

LastUp == state # <<>> /\ state[Len(state)] = "up"
Reported ==
    /\ LastUp => cycle > 0 /\ reported[cycle] /\ pc \in {"read", "ending", "reap", "down"}
    /\ \A i \in 1..(Len(state) - 1) : ~(state[i] = "up" /\ state[i + 1] = "up")

FollowInv == FollowTypes /\ OneCycle /\ Reported

LEMMA CyclesAre == Follow!Cycles = 1..MaxCycles /\ MaxCycles \in Nat
BY DashboardAssumption DEF Follow!Cycles

LEMMA FollowInit == Follow!Init => FollowInv
BY CyclesAre DEF Follow!Init, FollowInv, FollowTypes, OneCycle, LastUp, Reported, Following

\* A call of on_state at the end of the list.
LEMMA Told ==
    ASSUME state \in Seq({"up", "down"}), NEW told \in {"up", "down"}, state' = Append(state, told)
    PROVE  /\ state' \in Seq({"up", "down"}) /\ Len(state) \in Nat /\ Len(state') = Len(state) + 1
           /\ state' # <<>> /\ state'[Len(state')] = told
           /\ \A i \in 1..Len(state) : state'[i] = state[i]
           /\ state # <<>> => Len(state) > 0
OBVIOUS

\* report_up tells "up" only where the last call was no "up".
LEMMA ReportsUp ==
    ASSUME FollowInv, NEW c \in Follow!Cycles, Follow!ReportUp(c),
           ~ended[c] => c = cycle /\ pc \in {"read", "ending"}
    PROVE  /\ state' \in Seq({"up", "down"}) /\ reported' \in [Follow!Cycles -> BOOLEAN]
           /\ \A d \in Follow!Cycles : d > cycle => reported'[d] = reported[d]
           /\ LastUp' => cycle > 0 /\ reported'[cycle] /\ pc \in {"read", "ending", "reap", "down"}
           /\ \A i \in 1..(Len(state') - 1) : ~(state'[i] = "up" /\ state'[i + 1] = "up")
<1>1. CASE UNCHANGED <<state, reported>>
  BY <1>1 DEF FollowInv, FollowTypes, Reported, LastUp
<1>2. CASE ~ended[c] /\ ~reported[c] /\ state' = Append(state, "up") /\ reported' = [reported EXCEPT ![c] = TRUE]
  <2>1. /\ state' \in Seq({"up", "down"}) /\ Len(state) \in Nat /\ Len(state') = Len(state) + 1
        /\ \A i \in 1..Len(state) : state'[i] = state[i]
        /\ state # <<>> => Len(state) > 0
    BY <1>2, Told DEF FollowInv, FollowTypes
  <2>2. ~LastUp /\ c = cycle
    BY <1>2 DEF FollowInv, Reported
  <2>3. state = <<>> \/ state[Len(state)] # "up"
    BY <2>2 DEF LastUp
  <2>4. ASSUME NEW i \in 1..(Len(state') - 1), state'[i] = "up", state'[i + 1] = "up" PROVE FALSE
    <3>1. i \in 1..Len(state) /\ state'[i] = state[i]
      BY <2>1
    <3>2. CASE i = Len(state)
      BY <2>1, <2>3, <2>4, <3>1, <3>2
    <3>3. CASE i < Len(state)
      <4>1. i \in 1..(Len(state) - 1) /\ i + 1 \in 1..Len(state)
        BY <2>1, <3>1, <3>3
      <4> QED BY <2>1, <2>4, <3>1, <4>1 DEF FollowInv, Reported
    <3> QED BY <2>1, <3>1, <3>2, <3>3
  <2>5. /\ reported' \in [Follow!Cycles -> BOOLEAN] /\ reported'[c]
        /\ \A d \in Follow!Cycles : d # c => reported'[d] = reported[d]
    BY <1>2 DEF FollowInv, FollowTypes
  <2>6. cycle > 0 /\ \A d \in Follow!Cycles : d > cycle => d # c
    BY <2>2, CyclesAre
  <2> QED BY <1>2, <2>1, <2>2, <2>4, <2>5, <2>6
<1> QED
  BY <1>1, <1>2 DEF Follow!ReportUp

\* Steps of the follower, of a child and of stop() that tell nothing.
LEMMA FollowSilent ==
    ASSUME FollowInv,
           \/ Follow!Spawn \/ Follow!Publish \/ Follow!Check \/ Follow!EndOfOutput \/ Follow!CycleEnds
           \/ Follow!Reap \/ Follow!LoopEnds \/ Follow!ChildDies \/ Follow!StopSets \/ Follow!StopLooks
           \/ Follow!StopEnds \/ \E c \in Follow!Cycles : Follow!WatcherWakes(c) \/ Follow!WatcherPolls(c)
    PROVE  FollowInv'
<1> USE CyclesAre
<1>1. CASE Follow!Spawn
  <2>1. FollowTypes'
    BY <1>1 DEF Follow!Spawn, FollowInv, FollowTypes, Following
  <2>2. OneCycle'
    BY <1>1 DEF Follow!Spawn, FollowInv, FollowTypes, OneCycle, Following
  <2>3. ~LastUp /\ LastUp' = LastUp
    BY <1>1 DEF Follow!Spawn, FollowInv, Reported, LastUp
  <2> QED BY <1>1, <2>1, <2>2, <2>3 DEF Follow!Spawn, FollowInv, Reported
<1>2. CASE Follow!Publish
  BY <1>2 DEF Follow!Publish, FollowInv, FollowTypes, OneCycle, Following, Reported, LastUp
<1>3. CASE Follow!Check
  <2>1. FollowTypes'
    BY <1>3 DEF Follow!Check, FollowInv, FollowTypes, Following
  <2>2. OneCycle'
    BY <1>3 DEF Follow!Check, FollowInv, FollowTypes, OneCycle, Following
  <2>3. Reported'
    BY <1>3 DEF Follow!Check, FollowInv, Reported, LastUp
  <2> QED BY <2>1, <2>2, <2>3 DEF FollowInv
<1>4. CASE Follow!EndOfOutput
  BY <1>4 DEF Follow!EndOfOutput, FollowInv, FollowTypes, OneCycle, Following, Reported, LastUp
<1>5. CASE Follow!CycleEnds
  <2>1. cycle \in Follow!Cycles
    BY <1>5 DEF Follow!CycleEnds, FollowInv, FollowTypes, OneCycle
  <2>2. FollowTypes'
    BY <1>5 DEF Follow!CycleEnds, FollowInv, FollowTypes, Following
  <2>3. OneCycle'
    BY <1>5, <2>1 DEF Follow!CycleEnds, FollowInv, FollowTypes, OneCycle, Following
  <2>4. Reported'
    BY <1>5 DEF Follow!CycleEnds, FollowInv, Reported, LastUp
  <2> QED BY <2>2, <2>3, <2>4 DEF FollowInv
<1>6. CASE Follow!Reap
  <2>1. cycle \in Follow!Cycles
    BY <1>6 DEF Follow!Reap, FollowInv, FollowTypes, OneCycle
  <2>2. FollowTypes'
    BY <1>6, <2>1 DEF Follow!Reap, Follow!End, FollowInv, FollowTypes, Following
  <2>3. OneCycle'
    BY <1>6, <2>1 DEF Follow!Reap, Follow!End, FollowInv, FollowTypes, OneCycle, Following
  <2>4. Reported'
    BY <1>6 DEF Follow!Reap, FollowInv, Reported, LastUp
  <2> QED BY <2>2, <2>3, <2>4 DEF FollowInv
<1>7. CASE Follow!LoopEnds
  BY <1>7 DEF Follow!LoopEnds, FollowInv, FollowTypes, OneCycle, Following, Reported, LastUp
<1>8. CASE Follow!ChildDies
  <2>1. FollowTypes' /\ OneCycle'
    BY <1>8 DEF Follow!ChildDies, FollowInv, FollowTypes, OneCycle, Following
  <2>2. Reported'
    BY <1>8 DEF Follow!ChildDies, FollowInv, Reported, LastUp
  <2> QED BY <2>1, <2>2 DEF FollowInv
<1>9. CASE Follow!StopSets \/ Follow!StopLooks
  <2>1. FollowTypes'
    BY <1>9 DEF Follow!StopSets, Follow!StopLooks, FollowInv, FollowTypes
  <2>2. OneCycle' /\ Reported'
    BY <1>9 DEF Follow!StopSets, Follow!StopLooks, FollowInv, OneCycle, Reported, LastUp
  <2> QED BY <2>1, <2>2 DEF FollowInv
<1>10. CASE Follow!StopEnds
  <2>1. child' \in [Follow!Cycles -> {"none", "alive", "dead"}]
        /\ \A c \in Follow!Cycles : (child'[c] = "alive" => child[c] = "alive") /\ (child[c] = "none" => child'[c] = "none")
    BY <1>10 DEF Follow!StopEnds, Follow!End, FollowInv, FollowTypes
  <2>2. FollowTypes'
    BY <1>10, <2>1 DEF Follow!StopEnds, FollowInv, FollowTypes
  <2>3. OneCycle'
    BY <1>10, <2>1 DEF Follow!StopEnds, FollowInv, OneCycle
  <2>4. Reported'
    BY <1>10 DEF Follow!StopEnds, FollowInv, Reported, LastUp
  <2> QED BY <2>2, <2>3, <2>4 DEF FollowInv
<1>11. ASSUME NEW c \in Follow!Cycles, Follow!WatcherWakes(c) \/ Follow!WatcherPolls(c) PROVE FollowInv'
  <2>1. /\ watcher' \in [Follow!Cycles -> {"none", "waits", "polls", "reports"}]
        /\ watcher[c] # "none" /\ \A d \in Follow!Cycles : d # c => watcher'[d] = watcher[d]
        /\ UNCHANGED <<pc, cycle, child, ended, reported, proc, stop, stopper, state>>
    BY <1>11 DEF Follow!WatcherWakes, Follow!WatcherPolls, FollowInv, FollowTypes
  <2>2. FollowTypes'
    BY <2>1 DEF FollowInv, FollowTypes
  <2>3. OneCycle'
    BY <2>1 DEF FollowInv, OneCycle
  <2>4. Reported'
    BY <2>1 DEF FollowInv, Reported, LastUp
  <2> QED BY <2>2, <2>3, <2>4 DEF FollowInv
<1> QED
  BY <1>1, <1>2, <1>3, <1>4, <1>5, <1>6, <1>7, <1>8, <1>9, <1>10, <1>11

LEMMA FollowNext == FollowInv /\ Follow!Next => FollowInv'
<1> SUFFICES ASSUME FollowInv, Follow!Next PROVE FollowInv'
  OBVIOUS
<1> USE CyclesAre
<1>1. CASE Follow!Reads
  <2>1. cycle \in Follow!Cycles /\ Follow!ReportUp(cycle) /\ pc = "read" /\ pc' \in {"read", "ending"}
        /\ UNCHANGED <<cycle, child, ended, watcher, proc, stop, stopper>>
    BY <1>1 DEF Follow!Reads, FollowInv, FollowTypes, OneCycle
  <2>2. /\ state' \in Seq({"up", "down"}) /\ reported' \in [Follow!Cycles -> BOOLEAN]
        /\ \A d \in Follow!Cycles : d > cycle => reported'[d] = reported[d]
        /\ LastUp' => cycle > 0 /\ reported'[cycle]
        /\ \A i \in 1..(Len(state') - 1) : ~(state'[i] = "up" /\ state'[i + 1] = "up")
    BY <2>1, ReportsUp
  <2>3. FollowTypes'
    BY <2>1, <2>2 DEF FollowInv, FollowTypes, Following
  <2>4. OneCycle'
    BY <2>1, <2>2 DEF FollowInv, OneCycle, Following
  <2>5. Reported'
    BY <2>1, <2>2 DEF Reported
  <2> QED BY <2>3, <2>4, <2>5 DEF FollowInv
<1>2. CASE Follow!Down
  <2>1. pc = "down" /\ pc' \in {"loop", "finished"} /\ state' = Append(state, "down")
        /\ UNCHANGED <<cycle, child, ended, reported, watcher, proc, stop, stopper>>
    BY <1>2 DEF Follow!Down
  <2>2. state \in Seq({"up", "down"})
    BY DEF FollowInv, FollowTypes
  <2>3. /\ state' \in Seq({"up", "down"}) /\ Len(state) \in Nat /\ Len(state') = Len(state) + 1
        /\ state'[Len(state')] = "down" /\ \A i \in 1..Len(state) : state'[i] = state[i]
    BY <2>1, <2>2, Told
  <2>4. ASSUME NEW i \in 1..(Len(state') - 1), state'[i] = "up", state'[i + 1] = "up" PROVE FALSE
    <3>1. i \in 1..(Len(state) - 1) /\ i + 1 \in 1..Len(state)
      BY <2>3, <2>4
    <3> QED BY <2>3, <2>4, <3>1 DEF FollowInv, Reported
  <2>5. FollowTypes' /\ OneCycle'
    BY <2>1, <2>3 DEF FollowInv, FollowTypes, OneCycle, Following
  <2>6. Reported'
    BY <2>3, <2>4 DEF Reported, LastUp
  <2> QED BY <2>5, <2>6 DEF FollowInv
<1>3. ASSUME NEW c \in Follow!Cycles, Follow!WatcherReports(c) PROVE FollowInv'
  <2>1. watcher[c] = "reports" /\ Follow!ReportUp(c) /\ watcher' = [watcher EXCEPT ![c] = "none"]
        /\ UNCHANGED <<pc, cycle, child, ended, proc, stop, stopper>>
    BY <1>3 DEF Follow!WatcherReports
  <2>2. ~ended[c] => c = cycle /\ pc \in {"read", "ending"}
    BY <2>1 DEF FollowInv, OneCycle
  <2>3. /\ state' \in Seq({"up", "down"}) /\ reported' \in [Follow!Cycles -> BOOLEAN]
        /\ \A d \in Follow!Cycles : d > cycle => reported'[d] = reported[d]
        /\ LastUp' => cycle > 0 /\ reported'[cycle] /\ pc \in {"read", "ending", "reap", "down"}
        /\ \A i \in 1..(Len(state') - 1) : ~(state'[i] = "up" /\ state'[i + 1] = "up")
    BY <2>1, <2>2, ReportsUp
  <2>4. FollowTypes'
    BY <2>1, <2>3 DEF FollowInv, FollowTypes
  <2>5. OneCycle'
    BY <2>1, <2>3 DEF FollowInv, FollowTypes, OneCycle
  <2>6. Reported'
    BY <2>1, <2>3 DEF Reported
  <2> QED BY <2>4, <2>5, <2>6 DEF FollowInv
<1> QED
  BY <1>1, <1>2, <1>3, FollowSilent DEF Follow!Next

LEMMA FollowCardinality == \A S : Follow!Cardinality(S) = Cardinality(S)
BY DEF Follow!Cardinality, Cardinality

LEMMA FollowProperties == FollowInv => Follow!TypeOK /\ Follow!UpOnlyWhileFollowing
<1> SUFFICES ASSUME FollowInv PROVE Follow!TypeOK /\ Follow!UpOnlyWhileFollowing
  OBVIOUS
<1> DEFINE alive == {c \in Follow!Cycles : child[c] = "alive"}
<1>1. alive \subseteq {cycle}
  BY DEF FollowInv, OneCycle
<1>2. IsFiniteSet({cycle}) /\ Cardinality({cycle}) = 1
  BY FS_Singleton
<1>3. Cardinality(alive) \in Nat /\ Cardinality(alive) <= 1
  BY <1>1, <1>2, FS_Subset, FS_CardinalityType
<1>4. Follow!Cardinality(alive) <= 1
  BY <1>3, FollowCardinality
<1>5. Follow!TypeOK
  BY CyclesAre DEF FollowInv, FollowTypes, Follow!TypeOK
<1>6. /\ (state # <<>> /\ state[Len(state)] = "up")
            => (cycle > 0 /\ reported[cycle] /\ pc \in {"read", "ending", "reap", "down"})
      /\ \A i \in 1..(Len(state) - 1) : ~(state[i] = "up" /\ state[i + 1] = "up")
  BY DEF FollowInv, Reported, LastUp
<1> QED
  BY <1>4, <1>5, <1>6 DEF Follow!UpOnlyWhileFollowing

-----------------------------------------------------------------------------
(* The sources.                                                            *)

Servers  == [up : BOOLEAN, run : 1..MaxServerRuns, key : 1..MaxServerRuns]
Counters == [new : 0..MaxCount, cached : 0..MaxCount]

HubInv ==
    /\ keyServer \in [Keyed -> Servers] /\ \A s \in Keyed : ~keyServer[s].up => keyServer[s].run < MaxServerRuns
    /\ knownKeys \in [Keyed -> 0..MaxServerRuns]
    /\ held \in [Sources -> {"nothing", "good", "down", "refused", "raises"}]
    /\ src \in [Sources -> [ok : BOOLEAN, stale : Nat]] /\ since \in [Sources -> Nat] /\ now \in Nat
    /\ \A s \in Sources : src[s].stale = since[s] /\ (src[s].ok => since[s] = 0)
    /\ counters \in Counters /\ prev \in [some : BOOLEAN, at : Counters] /\ reuse \in 0..100

LEMMA HubNumbers == Keyed \subseteq Sources /\ MaxServerRuns \in Nat \ {0} /\ MaxCount \in Nat \ {0}
BY DashboardAssumption

LEMMA HubInit == Hub!Init => HubInv
BY HubNumbers DEF Hub!Init, Hub!Zero, HubInv, Servers, Counters

LEMMA DivFacts ==
    ASSUME NEW d \in Nat \ {0}, NEW m \in Int
    PROVE  m \div d \in Int /\ m % d \in 0..(d - 1) /\ m = d * (m \div d) + (m % d)
OBVIOUS

LEMMA MulAtLeast == ASSUME NEW d \in Nat \ {0}, NEW x \in Nat \ {0} PROVE d * x >= d
OBVIOUS

LEMMA Distributes ==
    ASSUME NEW d \in Int, NEW x \in Int, NEW y \in Int
    PROVE  d * (x - y) = d * x - d * y
OBVIOUS

\* A share of a whole is a percentage.
LEMMA Percent ==
    ASSUME NEW d \in Nat \ {0}, NEW m \in 0..d
    PROVE  (100 * m) \div d \in 0..100
<1> DEFINE share == (100 * m) \div d
           r == (100 * m) % d
           e == d * share
<1>1. share \in Int /\ r \in 0..(d - 1) /\ 100 * m = e + r /\ e \in Int
  BY DivFacts
<1>2. d * 0 = 0 /\ d * 100 = 100 * d
  OBVIOUS
<1>3. ASSUME 0 - share \in Nat \ {0} PROVE FALSE
  <2>1. d * (0 - share) >= d /\ d * (0 - share) = d * 0 - e
    BY <1>1, <1>3, MulAtLeast, Distributes
  <2>2. 0 - e >= d
    BY <1>2, <2>1
  <2> HIDE DEF e, share, r
  <2> QED BY <1>1, <2>2
<1>4. ASSUME share - 100 \in Nat \ {0} PROVE FALSE
  <2>1. d * (share - 100) >= d /\ d * (share - 100) = e - d * 100
    BY <1>1, <1>4, MulAtLeast, Distributes
  <2>2. e - 100 * d >= d
    BY <1>2, <2>1
  <2> HIDE DEF e, share, r
  <2> QED BY <1>1, <2>2
<1>5. share \in 0..100
  <2>1. share \in Int /\ 0 - share \notin Nat \ {0} /\ share - 100 \notin Nat \ {0}
    BY <1>1, <1>3, <1>4
  <2> HIDE DEF share, r, e
  <2> QED BY <2>1
<1> QED BY <1>5

LEMMA ReuseIsPercent ==
    ASSUME HubInv
    PROVE  Hub!Reuse(counters) = Hub!None \/ Hub!Reuse(counters) \in 0..100
<1> DEFINE new == counters.new - prev.at.new
           cached == counters.cached - prev.at.cached
<1>1. new \in Int /\ cached \in Int
  BY HubNumbers DEF HubInv, Counters
<1>2. CASE ~prev.some \/ new + cached <= 0 \/ new < 0 \/ cached < 0
  BY <1>2 DEF Hub!Reuse
<1>3. CASE ~(~prev.some \/ new + cached <= 0 \/ new < 0 \/ cached < 0)
  <2>1. Hub!Reuse(counters) = (100 * cached) \div (new + cached)
    BY <1>3 DEF Hub!Reuse
  <2>2. new + cached \in Nat \ {0} /\ cached \in 0..(new + cached)
    BY <1>1, <1>3
  <2> HIDE DEF new, cached
  <2> QED BY <2>1, <2>2, Percent
<1> QED
  BY <1>2, <1>3

\* What a mark does to its source.
LEMMA Marks ==
    ASSUME HubInv, NEW s \in Sources, Hub!MarkOk(s) \/ Hub!MarkFail(s)
    PROVE  /\ src' \in [Sources -> [ok : BOOLEAN, stale : Nat]] /\ since' \in [Sources -> Nat]
           /\ \A o \in Sources : src'[o].stale = since'[o] /\ (src'[o].ok => since'[o] = 0)
<1>1. src[s].ok \in BOOLEAN /\ src[s].stale \in Nat /\ since[s] \in Nat /\ now \in Nat
  BY DEF HubInv
<1>2. src \in [Sources -> [ok : BOOLEAN, stale : Nat]] /\ since \in [Sources -> Nat]
      /\ \A o \in Sources : src[o].stale = since[o] /\ (src[o].ok => since[o] = 0)
  BY DEF HubInv
<1>3. CASE Hub!MarkOk(s)
  BY <1>1, <1>2, <1>3 DEF Hub!MarkOk
<1>4. CASE Hub!MarkFail(s)
  <2>1. PICK x \in Nat : x = IF src[s].ok \/ src[s].stale = 0 THEN now ELSE src[s].stale
    BY <1>1
  <2>2. src' = [src EXCEPT ![s] = [ok |-> FALSE, stale |-> x]]
    BY <1>4, <2>1 DEF Hub!MarkFail
  <2>3. since' = [since EXCEPT ![s] = x]
    BY <1>2, <1>4, <2>1 DEF Hub!MarkFail
  <2> QED BY <1>2, <2>2, <2>3
<1> QED
  BY <1>3, <1>4

LEMMA HubNext == HubInv /\ Hub!Next => HubInv'
<1> SUFFICES ASSUME HubInv, Hub!Next PROVE HubInv'
  OBVIOUS
<1> USE HubNumbers
<1>1. ASSUME NEW s \in Keyed, Hub!FetchKeyed(s) PROVE HubInv'
  <2>1. PICK outcome \in Hub!Answers(s) :
           held' = [held EXCEPT ![s] = outcome] /\ knownKeys' = [knownKeys EXCEPT ![s] = Hub!KeyAfter(s, outcome)]
    BY <1>1 DEF Hub!FetchKeyed
  <2>2. outcome \in {"good", "down", "refused"}
    BY DEF Hub!Answers
  <2>3. Hub!KeyAfter(s, outcome) \in 0..MaxServerRuns
    BY DEF Hub!KeyAfter, Hub!Find, HubInv, Servers
  <2>4. knownKeys' \in [Keyed -> 0..MaxServerRuns]
    BY <2>1, <2>3 DEF HubInv
  <2>5. held' \in [Sources -> {"nothing", "good", "down", "refused", "raises"}]
    BY <2>1, <2>2 DEF HubInv
  <2> QED BY <1>1, <2>4, <2>5 DEF Hub!FetchKeyed, HubInv
<1>2. ASSUME NEW s \in Sources, Hub!FetchPlain(s) PROVE HubInv'
  <2>1. held' \in [Sources -> {"nothing", "good", "down", "refused", "raises"}]
    BY <1>2 DEF Hub!FetchPlain, HubInv
  <2> QED BY <1>2, <2>1 DEF Hub!FetchPlain, HubInv
<1>3. ASSUME NEW s \in Sources, Hub!ApplyGood(s) \/ Hub!ApplyBad(s) PROVE HubInv'
  <2>1. /\ src' \in [Sources -> [ok : BOOLEAN, stale : Nat]] /\ since' \in [Sources -> Nat]
        /\ \A o \in Sources : src'[o].stale = since'[o] /\ (src'[o].ok => since'[o] = 0)
    BY <1>3, Marks DEF Hub!ApplyGood, Hub!ApplyBad
  <2>2. held' \in [Sources -> {"nothing", "good", "down", "refused", "raises"}]
        /\ UNCHANGED <<keyServer, knownKeys, counters, now>>
    BY <1>3 DEF Hub!ApplyGood, Hub!ApplyBad, HubInv
  <2>3. prev' \in [some : BOOLEAN, at : Counters] /\ reuse' \in 0..100
    <3>1. CASE UNCHANGED <<prev, reuse>>
      BY <3>1 DEF HubInv
    <3>2. CASE Hub!Push(Hub!Reuse(counters)) /\ prev' = [some |-> TRUE, at |-> counters]
      BY <3>2, ReuseIsPercent DEF Hub!Push, HubInv
    <3> QED BY <1>3, <3>1, <3>2 DEF Hub!ApplyGood, Hub!ApplyBad
  <2> QED BY <2>1, <2>2, <2>3 DEF HubInv
<1>4. ASSUME NEW s \in Keyed, Hub!ServerStops(s) \/ Hub!ServerStarts(s) PROVE HubInv'
  <2>0. keyServer \in [Keyed -> Servers] /\ keyServer[s] \in Servers
        /\ \A o \in Keyed : ~keyServer[o].up => keyServer[o].run < MaxServerRuns
    BY DEF HubInv
  <2>1. PICK new \in Servers : keyServer' = [keyServer EXCEPT ![s] = new] /\ (~new.up => new.run < MaxServerRuns)
    <3>1. CASE Hub!ServerStops(s)
      <4>1. [keyServer[s] EXCEPT !.up = FALSE] \in Servers
        BY <2>0 DEF Servers
      <4> QED BY <2>0, <3>1, <4>1 DEF Hub!ServerStops, Servers
    <3>2. CASE Hub!ServerStarts(s)
      <4>1. PICK k \in {keyServer[s].key, keyServer[s].run + 1} :
               keyServer' = [keyServer EXCEPT ![s] = [up |-> TRUE, run |-> keyServer[s].run + 1, key |-> k]]
        BY <2>0, <3>2 DEF Hub!ServerStarts
      <4>2. keyServer[s].run \in 1..MaxServerRuns /\ keyServer[s].key \in 1..MaxServerRuns
            /\ keyServer[s].run < MaxServerRuns
        BY <2>0, <3>2 DEF Servers, Hub!ServerStarts
      <4>3. [up |-> TRUE, run |-> keyServer[s].run + 1, key |-> k] \in Servers
        BY <4>1, <4>2 DEF Servers
      <4> QED BY <4>1, <4>3
    <3> QED BY <1>4, <3>1, <3>2
  <2>2. keyServer' \in [Keyed -> Servers] /\ \A o \in Keyed : ~keyServer'[o].up => keyServer'[o].run < MaxServerRuns
    BY <2>0, <2>1
  <2>3. counters' \in Counters /\ UNCHANGED <<knownKeys, held, src, since, prev, reuse, now>>
    BY <1>4 DEF Hub!ServerStops, Hub!ServerStarts, Hub!Zero, Counters, HubInv
  <2> QED BY <2>2, <2>3 DEF HubInv
<1>5. CASE Hub!Serves
  <2>1. counters' \in Counters
    BY <1>5 DEF Hub!Serves, HubInv, Counters
  <2> QED BY <1>5, <2>1 DEF Hub!Serves, HubInv
<1>6. CASE Hub!Tick
  BY <1>6 DEF Hub!Tick, HubInv
<1> QED
  BY <1>1, <1>2, <1>3, <1>4, <1>5, <1>6 DEF Hub!Next, Hub!PollPlain, Hub!PollKeyed

LEMMA HubProperties == HubInv => Hub!TypeOK /\ Hub!ShownIsTrue
BY DEF HubInv, Servers, Counters, Hub!TypeOK, Hub!ShownIsTrue

-----------------------------------------------------------------------------
(* The request tracker.                                                    *)

Fates    == {"none", "running", "done", "cancelled", "killed"}
LineKinds    == {"start", "eval", "cancel", "release", "server_start", "server_ready"}
Statuses == {"done", "cancelled", "approx", "interrupted"}
Lines      == [kind : LineKinds, slot : Slots, task : 0..MaxTasks, run : Track!Runs]
SlotStates == [st : {"idle", "busy", "timed", "stopping"}, task : 0..MaxTasks]
Keys       == Nat \X Slots \X Track!Tasks
Asks       == Track!Runs \X Track!Tasks
OpenRows   == [open : {TRUE}, key : Keys, task : Track!Tasks, eval : BOOLEAN, req : Asks]
ClosedRows == [key : Keys, req : Asks, status : Statuses, sure : BOOLEAN]
Trackers ==
    [epoch : Nat, last : 0..MaxRuns, up : BOOLEAN, away : Nat, rekeyed : BOOLEAN,
     open : [Slots -> {Track!NoRow} \cup OpenRows], cancelled : SUBSET Track!Tasks, idle : [Slots -> Nat],
     rows : SUBSET ClosedRows, blind : BOOLEAN]

\* The server: what its slots do is what became of their requests, and the
\* tasks of its run are those it gave out.
ServerOK ==
    /\ server \in [st : {"dead", "booting", "up"}, run : Track!Runs, next : Nat \ {0}, boot : Nat]
    /\ slot \in [Slots -> SlotStates] /\ fate \in [Asks -> Fates]
    /\ server.st = "dead" => server.run < MaxRuns
    /\ \A s \in Slots :
         /\ slot[s].st # "idle" => server.st = "up" /\ slot[s].task \in Track!Tasks
         /\ slot[s].st = "busy" => fate[<<server.run, slot[s].task>>] = "running"
         /\ slot[s].st \in {"timed", "stopping"} => fate[<<server.run, slot[s].task>>] # "none"
    /\ \A s1, s2 \in Slots : slot[s1].st # "idle" /\ slot[s2].st # "idle" /\ slot[s1].task = slot[s2].task => s1 = s2
    /\ \A p \in Asks :
         /\ fate[p] # "none" => p[1] <= server.run
         /\ p[1] = server.run => (fate[p] # "none" <=> p[2] < server.next)
         /\ fate[p] = "running" => p[1] = server.run /\ server.st = "up"

\* The run the tracker is about: that of the line it reads next.
View ==
    IF log = <<>> THEN server.run
    ELSE IF log[1].kind = "server_start" THEN log[1].run - 1 ELSE log[1].run

\* The journal: the lines of one run, then the starts of later ones.
LineOK(i) ==
    /\ log[i].kind = "server_start" =>
         /\ server.st # "up" /\ \A j \in i..Len(log) : log[j].kind = "server_start"
         /\ i > 1 => log[i].run = (IF log[i - 1].kind = "server_start" THEN log[i - 1].run ELSE View) + 1
    /\ log[i].kind # "server_start" => log[i].run = View
    /\ log[i].kind \in {"start", "eval", "cancel", "release"} => log[i].task \in Track!Tasks
    /\ log[i].kind = "start" => fate[<<log[i].run, log[i].task>>] # "none"
    /\ log[i].kind = "eval" => fate[<<log[i].run, log[i].task>>] = "done"
    /\ log[i].kind = "cancel" => fate[<<log[i].run, log[i].task>>] = "cancelled"
    /\ \A j \in 1..Len(log) : log[i].kind = "start" /\ log[j].kind = "start" /\ i # j =>
         <<log[i].run, log[i].task>> # <<log[j].run, log[j].task>>

LogOK ==
    /\ log \in Seq(Lines) /\ attached \in BOOLEAN /\ gaps \in Nat
    /\ \A i \in 1..Len(log) : LineOK(i)
    /\ attached /\ log # <<>> => log[Len(log)].run = server.run
    /\ ~attached /\ ~t.up => log = <<>>
    /\ ~attached /\ ~t.blind /\ log # <<>> => log[Len(log)].run = server.run \/ log[1].kind = "server_start"
    /\ ~t.up => t.last = 0
    /\ t.last # 0 /\ (attached \/ log # <<>>) => t.last = View
    /\ gaps = 0 => attached /\ t.up /\ ~t.blind

\* A reading: its busy slots are requests of its run, and it may be applied
\* without the journal only while that is the run the tracker is about.
ReadingOK ==
    reading # Track!NoPoll =>
        /\ reading \in [held : {TRUE}, void : BOOLEAN, ok : BOOLEAN, slots : [Slots -> SlotStates], run : Track!Runs]
        /\ reading.ok => \A s \in Slots : reading.slots[s].st # "idle" =>
             reading.slots[s].task \in Track!Tasks /\ fate[<<reading.run, reading.slots[s].task>>] # "none"
        /\ reading.ok /\ ~reading.void /\ ~t.up /\ ~t.blind => reading.run = View

\* The rows of a tracker that is about `view`.
RowsOK(tr, view) ==
    /\ tr \in Trackers
    /\ \A s \in Slots : tr.open[s].open =>
         /\ tr.open[s].key = <<tr.epoch, s, tr.open[s].task>>
         /\ tr.open[s].req[2] = tr.open[s].task /\ fate[tr.open[s].req] # "none"
         /\ ~tr.blind => tr.open[s].req[1] = view /\ (tr.open[s].eval => fate[tr.open[s].req] = "done")
    /\ \A r \in tr.rows :
         /\ r.key[1] <= tr.epoch /\ fate[r.req] # "none"
         /\ ~tr.blind /\ r.key[1] = tr.epoch => r.req = <<view, r.key[3]>>
         /\ r.sure /\ r.status \in {"done", "cancelled"} => fate[r.req] = r.status
    /\ ~tr.blind => \A k \in tr.cancelled : <<view, k>> \in Asks /\ fate[<<view, k>>] = "cancelled"

\* With a journal that was never cut every request is recorded once: in the
\* history, in an open row, or by a line not read yet.
Unread == {<<log[i].run, log[i].task>> : i \in {j \in 1..Len(log) : log[j].kind = "start"}}
OpenAsks(tr) == {tr.open[s].req : s \in {o \in Slots : tr.open[o].open}}
RowAsks(tr)  == {r.req : r \in tr.rows}
OnceOK(tr, pending) ==
    /\ \A r1, r2 \in tr.rows : r1.req = r2.req => r1 = r2
    /\ \A s1, s2 \in Slots : tr.open[s1].open /\ tr.open[s2].open /\ tr.open[s1].req = tr.open[s2].req => s1 = s2
    /\ RowAsks(tr) \cap OpenAsks(tr) = {} /\ pending \cap RowAsks(tr) = {} /\ pending \cap OpenAsks(tr) = {}
    /\ \A p \in Asks : fate[p] # "none" => p \in RowAsks(tr) \cup OpenAsks(tr) \cup pending
    /\ \A r \in tr.rows : r.status = "interrupted" => fate[r.req] # "running"

TrackInv == ServerOK /\ LogOK /\ ReadingOK /\ RowsOK(t, View) /\ (gaps = 0 => OnceOK(t, Unread))

LEMMA TrackNumbers ==
    /\ Track!Runs = 1..MaxRuns /\ Track!Tasks = 1..MaxTasks /\ MaxRuns \in Nat \ {0} /\ MaxTasks \in Nat \ {0}
    /\ Slots # {} /\ IsFiniteSet(Slots) /\ {MaxLog, Grace, Unreachable, BootPolls} \subseteq Nat
BY DashboardAssumption DEF Track!Runs, Track!Tasks

LEMMA TrackCardinality == \A S : Track!Cardinality(S) = Cardinality(S)
BY DEF Track!Cardinality, Cardinality

LEMMA TrackInit == Track!Init => TrackInv
<1> SUFFICES ASSUME Track!Init PROVE TrackInv
  OBVIOUS
<1> USE TrackNumbers
<1>1. /\ server = [st |-> "up", run |-> 1, next |-> 1, boot |-> 0]
      /\ slot = [s \in Slots |-> Track!Idle] /\ fate = [p \in Asks |-> "none"]
      /\ log = <<>> /\ attached = TRUE /\ gaps = 0 /\ reading = Track!NoPoll /\ t = Track!NewTracker
  BY DEF Track!Init, Asks
<1>2. ServerOK
  BY <1>1 DEF ServerOK, SlotStates, Fates, Track!Idle, Asks
<1>3. LogOK
  BY <1>1 DEF LogOK, Track!NewTracker
<1>4. t \in Trackers
  BY <1>1 DEF Trackers, Track!NewTracker
<1>5. \A s \in Slots : ~t.open[s].open
  BY <1>1 DEF Track!NewTracker, Track!NoRow
<1>6. RowsOK(t, View)
  BY <1>1, <1>4, <1>5 DEF RowsOK, Track!NewTracker
<1>7. OnceOK(t, Unread)
  BY <1>1, <1>5 DEF OnceOK, Unread, OpenAsks, RowAsks, Track!NewTracker
<1> QED
  BY <1>1, <1>2, <1>3, <1>6, <1>7 DEF TrackInv, ReadingOK

-----------------------------------------------------------------------------
(* What the server does to its own state and to the fates.                 *)

\* A request ends once, and as it ended.
FateGrows ==
    \A p \in Asks : /\ fate[p] \notin {"none", "running"} => fate'[p] = fate[p]
                    /\ fate[p] = "running" => fate'[p] # "none"
                    /\ fate'[p] = "running" /\ fate[p] # "none" => fate[p] = "running"

\* A bound on all requests bounds the task ids of a run.
LEMMA TaskLeft ==
    ASSUME ServerOK, Track!Cardinality({p \in DOMAIN fate : fate[p] # "none"}) < MaxTasks
    PROVE  server.next \in Track!Tasks
<1> USE TrackNumbers
<1> DEFINE given == {p \in DOMAIN fate : fate[p] # "none"}
           ids == [k \in Track!Tasks |-> <<server.run, k>>]
<1>1. DOMAIN fate = Asks /\ server.run \in Track!Runs /\ server.next \in Nat \ {0}
  BY DEF ServerOK
<1>2. SUFFICES ASSUME server.next > MaxTasks PROVE FALSE
  BY <1>1
<1>3. IsFiniteSet(Track!Runs) /\ IsFiniteSet(Track!Tasks) /\ Cardinality(Track!Tasks) = MaxTasks
  <2>1. IsFiniteSet(1..MaxRuns) /\ IsFiniteSet(1..MaxTasks)
        /\ Cardinality(1..MaxTasks) = IF 1 > MaxTasks THEN 0 ELSE MaxTasks - 1 + 1
    BY FS_Interval
  <2> QED BY <2>1
<1>4. IsFiniteSet(Asks)
  BY <1>3, FS_Product DEF Asks
<1>5. IsFiniteSet(given)
  BY <1>1, <1>4, FS_Subset
<1>6. ids \in Injection(Track!Tasks, given)
  <2>1. ASSUME NEW k \in Track!Tasks PROVE ids[k] \in given
    BY <1>1, <1>2 DEF ServerOK, Asks
  <2>2. \A a, b \in Track!Tasks : ids[a] = ids[b] => a = b
    OBVIOUS
  <2> QED BY <2>1, <2>2 DEF Injection, IsInjective
<1>7. Cardinality(Track!Tasks) <= Cardinality(given) /\ Cardinality(given) \in Nat
  BY <1>5, <1>6, FS_Injection, FS_CardinalityType
<1>8. Cardinality(given) < MaxTasks
  BY TrackCardinality
<1> QED
  BY <1>3, <1>7, <1>8

\* A line of the server about its own run.
Speaks(line) ==
    /\ line \in Lines /\ line.kind # "server_start" /\ line.run = server.run /\ server'.run = server.run
    /\ Track!Logs(line) /\ UNCHANGED <<attached, gaps, reading, t>>
    /\ \A i \in 1..Len(log) : log[i].kind # "server_start"
    /\ line.kind \in {"start", "eval", "cancel", "release"} => line.task \in Track!Tasks
    /\ line.kind = "eval" => fate'[<<line.run, line.task>>] = "done"
    /\ line.kind = "cancel" => fate'[<<line.run, line.task>>] = "cancelled"
    /\ line.kind = "start" => fate[<<line.run, line.task>>] = "none" /\ fate'[<<line.run, line.task>>] # "none"
    /\ \A p \in Asks : fate[p] = "none" /\ fate'[p] # "none" => line.kind = "start" /\ p = <<line.run, line.task>>

LEMMA LaunchSpeaks ==
    ASSUME ServerOK, LogOK, NEW s \in Slots, Track!Launch(s)
    PROVE  ServerOK' /\ FateGrows /\ \E line \in Lines : Speaks(line)
<1> USE TrackNumbers
<1>1. /\ server.st = "up" /\ slot[s].st = "idle"
      /\ slot' = [slot EXCEPT ![s] = [st |-> "busy", task |-> server.next]]
      /\ fate' = [fate EXCEPT ![<<server.run, server.next>>] = "running"]
      /\ server' = [server EXCEPT !.next = @ + 1] /\ UNCHANGED <<attached, gaps, reading, t>>
      /\ Track!Logs(Track!Line("start", s, server.next, server.run))
  BY DEF Track!Launch
<1>2. server.next \in Track!Tasks /\ server.run \in Track!Runs /\ <<server.run, server.next>> \in Asks
  BY TaskLeft DEF Track!Launch, ServerOK, Asks
<1>3. /\ server'.st = server.st /\ server'.run = server.run /\ server'.next = server.next + 1
      /\ server' \in [st : {"dead", "booting", "up"}, run : Track!Runs, next : Nat \ {0}, boot : Nat]
  BY <1>1 DEF ServerOK
<1>4. /\ slot' \in [Slots -> SlotStates] /\ slot'[s].st = "busy" /\ slot'[s].task = server.next
      /\ \A o \in Slots : o # s => slot'[o] = slot[o]
  BY <1>1, <1>2 DEF ServerOK, SlotStates
<1>5. /\ fate' \in [Asks -> Fates] /\ fate'[<<server.run, server.next>>] = "running"
      /\ \A p \in Asks : p # <<server.run, server.next>> => fate'[p] = fate[p]
  BY <1>1, <1>2 DEF ServerOK, Fates
<1>6. fate[<<server.run, server.next>>] = "none"
  BY <1>2 DEF ServerOK
<1>7. \A o \in Slots : slot[o].st # "idle" => <<server.run, slot[o].task>> \in Asks /\ slot[o].task # server.next
                                             /\ fate[<<server.run, slot[o].task>>] # "none"
  BY <1>2, <1>6 DEF ServerOK, Asks, SlotStates
<1>8. \A p \in Asks : p[1] = server.run /\ p # <<server.run, server.next>> => p[2] # server.next
  BY DEF Asks
<1>9. \A o \in Slots :
        /\ slot'[o].st # "idle" => server'.st = "up" /\ slot'[o].task \in Track!Tasks
        /\ slot'[o].st = "busy" => fate'[<<server'.run, slot'[o].task>>] = "running"
        /\ slot'[o].st \in {"timed", "stopping"} => fate'[<<server'.run, slot'[o].task>>] # "none"
  BY <1>1, <1>2, <1>3, <1>4, <1>5, <1>7 DEF ServerOK
<1>10. \A s1, s2 \in Slots : slot'[s1].st # "idle" /\ slot'[s2].st # "idle" /\ slot'[s1].task = slot'[s2].task => s1 = s2
  <2>1. \A o \in Slots : o # s /\ slot'[o].st # "idle" => slot'[o].task # slot'[s].task
    BY <1>4, <1>7
  <2>2. \A s1, s2 \in Slots : slot[s1].st # "idle" /\ slot[s2].st # "idle" /\ slot[s1].task = slot[s2].task => s1 = s2
    BY DEF ServerOK
  <2> QED BY <1>4, <2>1, <2>2
<1>11. \A p \in Asks :
         /\ fate'[p] # "none" => p[1] <= server'.run
         /\ p[1] = server'.run => (fate'[p] # "none" <=> p[2] < server'.next)
         /\ fate'[p] = "running" => p[1] = server'.run /\ server'.st = "up"
  <2> TAKE p \in Asks
  <2>1. CASE p = <<server.run, server.next>>
    BY <1>1, <1>2, <1>3, <1>5, <2>1
  <2>2. CASE p # <<server.run, server.next>>
    BY <1>2, <1>3, <1>5, <1>8, <2>2 DEF ServerOK, Asks
  <2> QED BY <2>1, <2>2
<1>12. ServerOK'
  BY <1>1, <1>3, <1>4, <1>5, <1>9, <1>10, <1>11 DEF ServerOK
<1>13. FateGrows
  BY <1>5, <1>6 DEF FateGrows
<1>16. \A i \in 1..Len(log) : log[i].kind # "server_start"
  BY <1>1 DEF LogOK, LineOK
<1>17. \A p \in Asks : fate[p] = "none" /\ fate'[p] # "none" => p = <<server.run, server.next>>
  BY <1>5
<1>14. Speaks(Track!Line("start", s, server.next, server.run))
  <2> DEFINE line == Track!Line("start", s, server.next, server.run)
  <2>1. line \in Lines /\ line.kind = "start" /\ line.run = server.run /\ line.task = server.next
    BY <1>2 DEF Track!Line, Lines, LineKinds
  <2> HIDE DEF line
  <2>2. Track!Logs(line)
    BY <1>1 DEF line
  <2>3. <<line.run, line.task>> = <<server.run, server.next>>
    BY <2>1
  <2>4. fate[<<line.run, line.task>>] = "none" /\ fate'[<<line.run, line.task>>] # "none"
    BY <1>5, <1>6, <2>3
  <2>5. server'.run = server.run /\ UNCHANGED <<attached, gaps, reading, t>>
    BY <1>1, <1>3
  <2>6. \A p \in Asks : fate[p] = "none" /\ fate'[p] # "none" => line.kind = "start" /\ p = <<line.run, line.task>>
    BY <1>17, <2>1, <2>3
  <2>7. line.task \in Track!Tasks /\ line.kind # "server_start" /\ line.kind # "eval" /\ line.kind # "cancel"
    BY <1>2, <2>1
  <2>8. Speaks(line)
    BY <1>16, <2>1, <2>2, <2>4, <2>5, <2>6, <2>7 DEF Speaks
  <2> QED BY <2>8 DEF line
<1>15. Track!Line("start", s, server.next, server.run) \in Lines
  BY <1>2 DEF Track!Line, Lines, LineKinds
<1> QED
  BY <1>12, <1>13, <1>14, <1>15

\* A slot goes on with its task, and its request to a fate.
LEMMA SlotGoes ==
    ASSUME ServerOK, NEW s \in Slots, slot[s].st # "idle", NEW st \in {"timed", "stopping"},
           NEW as \in {"done", "cancelled"}, slot[s].st = "busy",
           slot' = [slot EXCEPT ![s].st = st], fate' = [fate EXCEPT ![<<server.run, slot[s].task>>] = as],
           UNCHANGED server
    PROVE  ServerOK' /\ FateGrows /\ fate'[<<server.run, slot[s].task>>] = as /\ slot[s].task \in Track!Tasks
           /\ \A p \in Asks : fate[p] = "none" => fate'[p] = "none"
<1> USE TrackNumbers
<1> DEFINE req1 == <<server.run, slot[s].task>>
<1>1. server.run \in Track!Runs /\ slot[s].task \in Track!Tasks /\ req1 \in Asks /\ fate[req1] = "running" /\ server.st = "up"
  BY DEF ServerOK, Asks
<1>2. /\ slot' \in [Slots -> SlotStates] /\ slot'[s].st = st /\ slot'[s].task = slot[s].task
      /\ \A o \in Slots : o # s => slot'[o] = slot[o]
  BY DEF ServerOK, SlotStates
<1>3. /\ fate' \in [Asks -> Fates] /\ fate'[req1] = as /\ \A p \in Asks : p # req1 => fate'[p] = fate[p]
  BY <1>1 DEF ServerOK, Fates
<1>4. \A o \in Slots : slot[o].st # "idle" /\ o # s => <<server.run, slot[o].task>> # req1
  BY DEF ServerOK
<1>5. \A o \in Slots :
        /\ slot'[o].st # "idle" => server.st = "up" /\ slot'[o].task \in Track!Tasks
        /\ slot'[o].st = "busy" => fate'[<<server.run, slot'[o].task>>] = "running"
        /\ slot'[o].st \in {"timed", "stopping"} => fate'[<<server.run, slot'[o].task>>] # "none"
  <2> TAKE o \in Slots
  <2>1. CASE o = s
    BY <1>1, <1>2, <1>3, <2>1
  <2>2. CASE o # s
    <3>1. slot[o].st # "idle" => <<server.run, slot[o].task>> \in Asks /\ <<server.run, slot[o].task>> # req1
      BY <1>1, <1>4, <2>2 DEF ServerOK, Asks
    <3> HIDE DEF req1
    <3>2. slot[o].st # "idle" => fate'[<<server.run, slot[o].task>>] = fate[<<server.run, slot[o].task>>]
      BY <1>3, <3>1
    <3>3. slot'[o] = slot[o]
      BY <1>2, <2>2
    <3>4. /\ slot[o].st # "idle" => server.st = "up" /\ slot[o].task \in Track!Tasks
          /\ slot[o].st = "busy" => fate[<<server.run, slot[o].task>>] = "running"
          /\ slot[o].st \in {"timed", "stopping"} => fate[<<server.run, slot[o].task>>] # "none"
      BY DEF ServerOK
    <3> QED BY <3>2, <3>3, <3>4
  <2> QED BY <2>1, <2>2
<1>6. \A s1, s2 \in Slots : slot'[s1].st # "idle" /\ slot'[s2].st # "idle" /\ slot'[s1].task = slot'[s2].task => s1 = s2
  BY <1>2 DEF ServerOK
<1>7. \A p \in Asks : (fate'[p] = "none" <=> fate[p] = "none") /\ (fate'[p] = "running" => fate[p] = "running")
  BY <1>1, <1>3
<1>9. \A p \in Asks :
        /\ fate'[p] # "none" => p[1] <= server.run
        /\ p[1] = server.run => (fate'[p] # "none" <=> p[2] < server.next)
        /\ fate'[p] = "running" => p[1] = server.run /\ server.st = "up"
  <2> HIDE DEF req1
  <2> QED BY <1>7 DEF ServerOK
<1>10. server \in [st : {"dead", "booting", "up"}, run : Track!Runs, next : Nat \ {0}, boot : Nat]
       /\ (server.st = "dead" => server.run < MaxRuns)
  BY DEF ServerOK
<1>8. ServerOK'
  <2> HIDE DEF req1
  <2>1. server' = server /\ slot' \in [Slots -> SlotStates] /\ fate' \in [Asks -> Fates]
    BY <1>2, <1>3
  <2>2. /\ (server.st = "dead" => server.run < MaxRuns)'
        /\ server'.st = server.st /\ server'.run = server.run /\ server'.next = server.next
    BY <1>10, <2>1
  <2> HIDE DEF SlotStates, Fates, Asks
  <2>3. (\A o \in Slots :
           /\ slot[o].st # "idle" => server.st = "up" /\ slot[o].task \in Track!Tasks
           /\ slot[o].st = "busy" => fate[<<server.run, slot[o].task>>] = "running"
           /\ slot[o].st \in {"timed", "stopping"} => fate[<<server.run, slot[o].task>>] # "none")'
    BY <1>5, <2>2
  <2>4. (\A p \in Asks :
           /\ fate[p] # "none" => p[1] <= server.run
           /\ p[1] = server.run => (fate[p] # "none" <=> p[2] < server.next)
           /\ fate[p] = "running" => p[1] = server.run /\ server.st = "up")'
    BY <1>9, <2>2
  <2> QED BY <1>6, <1>10, <2>1, <2>2, <2>3, <2>4 DEF ServerOK
<1> QED
  BY <1>1, <1>3, <1>7, <1>8 DEF FateGrows

LEMMA WorksSpeak ==
    ASSUME ServerOK, LogOK, NEW s \in Slots, Track!Times(s) \/ Track!Cancels(s) \/ Track!Releases(s) \/ Track!Listens
    PROVE  ServerOK' /\ FateGrows /\ \E line \in Lines : Speaks(line)
<1> USE TrackNumbers
<1>0. \A o \in Slots, kind \in LineKinds : Track!Line(kind, o, slot[s].task, server.run) \in Lines
                                      /\ Track!Line(kind, o, 0, server.run) \in Lines
  BY DEF ServerOK, Track!Line, Lines, SlotStates
<1>1. CASE Track!Times(s)
  <2>1. ServerOK' /\ FateGrows /\ fate'[<<server.run, slot[s].task>>] = "done" /\ slot[s].task \in Track!Tasks
        /\ \A p \in Asks : fate[p] = "none" => fate'[p] = "none"
    BY <1>1, SlotGoes DEF Track!Times
  <2>2. Speaks(Track!Line("eval", s, slot[s].task, server.run))
    BY <1>0, <1>1, <2>1 DEF Track!Times, Speaks, Track!Line, LineKinds, LogOK, LineOK
  <2> QED BY <1>0, <2>1, <2>2 DEF LineKinds
<1>2. CASE Track!Cancels(s)
  <2>1. ServerOK' /\ FateGrows /\ fate'[<<server.run, slot[s].task>>] = "cancelled" /\ slot[s].task \in Track!Tasks
        /\ \A p \in Asks : fate[p] = "none" => fate'[p] = "none"
    BY <1>2, SlotGoes DEF Track!Cancels
  <2>2. Speaks(Track!Line("cancel", s, slot[s].task, server.run))
    BY <1>0, <1>2, <2>1 DEF Track!Cancels, Speaks, Track!Line, LineKinds, LogOK, LineOK
  <2> QED BY <1>0, <2>1, <2>2 DEF LineKinds
<1>3. CASE Track!Releases(s)
  <2>1. /\ slot' \in [Slots -> SlotStates] /\ slot'[s].st = "idle" /\ \A o \in Slots : o # s => slot'[o] = slot[o]
    BY <1>3 DEF Track!Releases, Track!Idle, ServerOK, SlotStates
  <2>2. ServerOK'
    BY <1>3, <2>1 DEF Track!Releases, ServerOK
  <2>3. FateGrows
    BY <1>3 DEF Track!Releases, FateGrows, ServerOK
  <2>4. Speaks(Track!Line("release", s, slot[s].task, server.run))
    BY <1>0, <1>3 DEF Track!Releases, Speaks, Track!Line, LineKinds, LogOK, LineOK, ServerOK
  <2> QED BY <1>0, <2>2, <2>3, <2>4 DEF LineKinds
<1>4. CASE Track!Listens
  <2>1. server.st = "booting" /\ server' = [server EXCEPT !.st = "up"] /\ UNCHANGED <<slot, fate>>
    BY <1>4 DEF Track!Listens
  <2>2. ServerOK'
    BY <2>1 DEF ServerOK
  <2>3. FateGrows
    BY <2>1 DEF FateGrows
  <2>4. Track!AnySlot \in Slots
    BY DEF Track!AnySlot
  <2>5. log \in Seq(Lines)
    BY DEF LogOK
  <2>6. \A i \in 1..Len(log) : log[i].kind # "server_start"
    BY <1>4, <2>5 DEF Track!Listens
  <2>7. Speaks(Track!Line("server_ready", Track!AnySlot, 0, server.run))
    BY <1>0, <1>4, <2>1, <2>4, <2>6 DEF Track!Listens, Speaks, Track!Line, LineKinds, ServerOK
  <2> QED BY <1>0, <2>2, <2>3, <2>4, <2>7 DEF LineKinds
<1> QED
  BY <1>1, <1>2, <1>3, <1>4

LEMMA CrashKeeps ==
    ASSUME ServerOK, Track!Crashes
    PROVE  ServerOK' /\ FateGrows /\ server'.run = server.run /\ server'.st # "up"
           /\ \A p \in Asks : fate'[p] = "none" <=> fate[p] = "none"
<1> USE TrackNumbers
<1>1. server' = [server EXCEPT !.st = "dead"] /\ server.run < MaxRuns /\ DOMAIN fate = Asks
  BY DEF Track!Crashes, ServerOK
<1>2. server' \in [st : {"dead", "booting", "up"}, run : Track!Runs, next : Nat \ {0}, boot : Nat]
      /\ server'.st = "dead" /\ server'.run = server.run /\ server'.next = server.next
  BY <1>1 DEF ServerOK
<1>3. slot' \in [Slots -> SlotStates] /\ \A s \in Slots : slot'[s].st = "idle"
  BY DEF Track!Crashes, Track!Idle, SlotStates
<1>4. fate' \in [Asks -> Fates]
      /\ \A p \in Asks : fate'[p] = IF fate[p] = "running" THEN "killed" ELSE fate[p]
  BY <1>1 DEF Track!Crashes, Fates, ServerOK
<1>5. ServerOK'
  BY <1>1, <1>2, <1>3, <1>4 DEF ServerOK
<1> QED
  BY <1>2, <1>4, <1>5 DEF FateGrows

LEMMA StartKeeps ==
    ASSUME ServerOK, Track!Starts
    PROVE  ServerOK' /\ FateGrows /\ server'.run = server.run + 1 /\ server'.st # "up" /\ fate' = fate
<1> USE TrackNumbers
<1>1. server' = [st |-> "booting", run |-> server.run + 1, next |-> 1, boot |-> 0]
      /\ server.st = "dead" /\ UNCHANGED <<slot, fate>>
  BY DEF Track!Starts
<1>2. server' \in [st : {"dead", "booting", "up"}, run : Track!Runs, next : Nat \ {0}, boot : Nat]
  BY <1>1 DEF ServerOK
<1>3. \A s \in Slots : slot[s].st = "idle"
  BY <1>1 DEF ServerOK
<1>4. \A p \in Asks : fate[p] # "none" => p[1] <= server.run
  BY DEF ServerOK
<1>5. \A p \in Asks : fate[p] # "running"
  BY <1>1 DEF ServerOK
<1>6. server.run \in Nat /\ \A p \in Asks : p[1] \in Nat /\ p[2] \in Nat /\ p[2] >= 1
  BY DEF Asks, ServerOK
<1>7. \A p \in Asks : p[1] = server'.run => fate[p] = "none" /\ ~(p[2] < server'.next)
  BY <1>1, <1>4, <1>6
<1>8. \A p \in Asks : fate[p] # "none" => p[1] <= server'.run
  BY <1>1, <1>4, <1>6
<1>9. ServerOK'
  BY <1>1, <1>2, <1>3, <1>5, <1>7, <1>8 DEF ServerOK
<1> QED
  BY <1>1, <1>9 DEF FateGrows

-----------------------------------------------------------------------------
(* What the server does to the journal.                                    *)

\* The parts of LineOK that look at a line's own request.
LEMMA LineGrows ==
    ASSUME ServerOK, LogOK, FateGrows, NEW i \in 1..Len(log)
    PROVE  /\ log[i] \in Lines
           /\ log[i].kind \in {"start", "eval", "cancel"} => <<log[i].run, log[i].task>> \in Asks
           /\ log[i].kind = "start" => fate'[<<log[i].run, log[i].task>>] # "none"
           /\ log[i].kind = "eval" => fate'[<<log[i].run, log[i].task>>] = "done"
           /\ log[i].kind = "cancel" => fate'[<<log[i].run, log[i].task>>] = "cancelled"
<1>1. log[i] \in Lines /\ LineOK(i)
  BY DEF LogOK
<1>2. log[i].kind \in {"start", "eval", "cancel"} => <<log[i].run, log[i].task>> \in Asks
  BY <1>1 DEF LineOK, Lines, Asks
<1> QED
  BY <1>1, <1>2 DEF LineOK, FateGrows

LEMMA LogStays ==
    ASSUME ServerOK, LogOK, FateGrows, UNCHANGED <<log, attached, gaps, t>>, server'.run = server.run,
           (\E i \in 1..Len(log) : log[i].kind = "server_start") => server'.st # "up"
    PROVE  LogOK' /\ View' = View /\ Unread' = Unread
<1>1. View' = View /\ Unread' = Unread
  BY DEF View, Unread
<1>2. ASSUME NEW i \in 1..Len(log) PROVE LineOK(i)'
  BY <1>1, LineGrows DEF LogOK, LineOK
<1> QED
  BY <1>1, <1>2 DEF LogOK

LEMMA Appended ==
    ASSUME log \in Seq(Lines), NEW line \in Lines, log' = Append(log, line)
    PROVE  /\ log' \in Seq(Lines) /\ Len(log) \in Nat /\ Len(log') = Len(log) + 1 /\ log' # <<>>
           /\ log'[Len(log) + 1] = line /\ \A i \in 1..Len(log) : log'[i] = log[i]
           /\ log = <<>> <=> Len(log) = 0
OBVIOUS

LEMMA SpeaksLog ==
    ASSUME ServerOK, LogOK, ServerOK', FateGrows, NEW line, Speaks(line)
    PROVE  /\ LogOK' /\ View' = View
           /\ Unread' = Unread \cup {p \in {<<line.run, line.task>>} : attached /\ line.kind = "start"}
<1>0. /\ line \in Lines /\ line.kind # "server_start" /\ line.run = server.run /\ server'.run = server.run
      /\ Track!Logs(line) /\ UNCHANGED <<attached, gaps, reading, t>>
      /\ \A i \in 1..Len(log) : log[i].kind # "server_start"
      /\ log \in Seq(Lines)
  BY DEF Speaks, LogOK
<1>1. CASE ~attached
  <2>1. log' = log
    BY <1>0, <1>1 DEF Track!Logs
  <2> QED BY <1>0, <1>1, <2>1, LogStays
<1>2. CASE attached
  <2>1. /\ log' \in Seq(Lines) /\ Len(log) \in Nat /\ Len(log') = Len(log) + 1 /\ log' # <<>>
        /\ log'[Len(log) + 1] = line /\ \A i \in 1..Len(log) : log'[i] = log[i]
        /\ log = <<>> <=> Len(log) = 0
    BY <1>0, <1>2, Appended DEF Track!Logs
  <2>2. View' = View /\ View = server.run
    <3>1. CASE log = <<>>
      BY <1>0, <2>1, <3>1 DEF View
    <3>2. CASE log # <<>>
      <4>1. 1 \in 1..Len(log) /\ Len(log) \in 1..Len(log)
        BY <2>1, <3>2
      <4>2. log[Len(log)].run = View /\ log[Len(log)].run = server.run
        BY <1>0, <1>2, <3>2, <4>1 DEF LogOK, LineOK
      <4>3. View' = View
        BY <1>0, <2>1, <3>2, <4>1 DEF View
      <4> QED BY <4>2, <4>3
    <3> QED BY <3>1, <3>2
  <2>3. \A i \in 1..Len(log) : log[i].kind = "start" => <<log[i].run, log[i].task>> # <<line.run, line.task>> \/ line.kind # "start"
    <3> TAKE i \in 1..Len(log)
    <3>1. log[i].kind = "start" => fate[<<log[i].run, log[i].task>>] # "none"
      BY DEF LogOK, LineOK
    <3>2. line.kind = "start" => fate[<<line.run, line.task>>] = "none"
      BY DEF Speaks
    <3> QED BY <3>1, <3>2
  <2>4. ASSUME NEW i \in 1..Len(log') PROVE LineOK(i)'
    <3>1. CASE i \in 1..Len(log)
      <4>1. LineOK(i) /\ log'[i] = log[i]
        BY <2>1, <3>1 DEF LogOK
      <4>2. \A j \in 1..Len(log') : log'[i].kind = "start" /\ log'[j].kind = "start" /\ i # j =>
              <<log'[i].run, log'[i].task>> # <<log'[j].run, log'[j].task>>
        <5> TAKE j \in 1..Len(log')
        <5>1. CASE j = Len(log) + 1
          BY <2>1, <2>3, <3>1, <4>1, <5>1
        <5>2. CASE j \in 1..Len(log)
          BY <2>1, <3>1, <4>1, <5>2 DEF LineOK
        <5> QED BY <2>1, <5>1, <5>2
      <4> QED BY <1>0, <2>2, <3>1, <4>1, <4>2, LineGrows DEF LineOK
    <3>2. CASE i = Len(log) + 1
      <4>1. log'[i] = line
        BY <2>1, <3>2
      <4>2. \A j \in 1..Len(log') : log'[i].kind = "start" /\ log'[j].kind = "start" /\ i # j =>
              <<log'[i].run, log'[i].task>> # <<log'[j].run, log'[j].task>>
        <5> TAKE j \in 1..Len(log')
        <5>1. j # i => j \in 1..Len(log)
          BY <2>1, <3>2
        <5> QED BY <2>1, <2>3, <4>1, <5>1
      <4>3. /\ line.kind \in {"start", "eval", "cancel", "release"} => line.task \in Track!Tasks
            /\ line.kind = "eval" => fate'[<<line.run, line.task>>] = "done"
            /\ line.kind = "cancel" => fate'[<<line.run, line.task>>] = "cancelled"
            /\ line.kind = "start" => fate'[<<line.run, line.task>>] # "none"
        BY DEF Speaks
      <4> QED BY <1>0, <2>2, <4>1, <4>2, <4>3 DEF LineOK
    <3> QED BY <2>1, <3>1, <3>2
  <2>5. log'[Len(log')].run = server'.run
    BY <1>0, <2>1
  <2>6. t.last # 0 => t.last = View
    BY <1>2 DEF LogOK
  <2>7. LogOK'
    BY <1>0, <1>2, <2>1, <2>2, <2>4, <2>5, <2>6 DEF LogOK
  <2>8. Unread' = Unread \cup {p \in {<<line.run, line.task>>} : line.kind = "start"}
    <3>1. \A i \in 1..Len(log') : i = Len(log) + 1 \/ i \in 1..Len(log)
      BY <2>1
    <3>2. Len(log) + 1 \in 1..Len(log') /\ 1..Len(log) \subseteq 1..Len(log')
      BY <2>1
    <3>3. \A p \in Unread' : p \in Unread \/ (p = <<line.run, line.task>> /\ line.kind = "start")
      BY <2>1, <3>1 DEF Unread
    <3>4. \A p \in Unread : p \in Unread'
      BY <2>1, <3>2 DEF Unread
    <3>5. line.kind = "start" => <<line.run, line.task>> \in Unread'
      BY <2>1, <3>2 DEF Unread
    <3> QED BY <3>3, <3>4, <3>5
  <2> QED BY <1>2, <2>2, <2>7, <2>8
<1> QED
  BY <1>1, <1>2 DEF LogOK

\* The start of another run, seen or missed.
LEMMA StartsLog ==
    ASSUME ServerOK, LogOK, ServerOK', FateGrows, Track!Starts, t \in Trackers
    PROVE  LogOK' /\ (attached => View' = View) /\ Unread' = Unread
<1>0. /\ Track!Logs(Track!Line("server_start", Track!AnySlot, 0, server.run + 1))
      /\ server.st = "dead" /\ t' = [t EXCEPT !.blind = t.blind \/ ~attached] /\ UNCHANGED <<fate, attached, gaps>>
      /\ log \in Seq(Lines)
  BY DEF Track!Starts, LogOK
<1>1. server'.run = server.run + 1 /\ server'.st # "up" /\ server.run \in Nat
  BY StartKeeps, TrackNumbers DEF ServerOK
<1>2. t'.last = t.last /\ t'.up = t.up /\ (attached => (t'.blind <=> t.blind)) /\ (~attached => t'.blind)
  BY <1>0 DEF Trackers, LogOK
<1>3. CASE ~attached
  <2>1. log' = log
    BY <1>0, <1>3 DEF Track!Logs
  <2>2. log # <<>> => View' = View
    BY <2>1 DEF View
  <2>3. ASSUME NEW i \in 1..Len(log) PROVE LineOK(i)'
    <3>1. log # <<>>
      BY <1>0, <2>3
    <3> QED BY <1>1, <2>1, <2>2, <3>1, LineGrows DEF LogOK, LineOK
  <2>4. Unread' = Unread
    BY <2>1 DEF Unread
  <2> QED BY <1>0, <1>2, <1>3, <2>1, <2>2, <2>3, <2>4 DEF LogOK
<1>4. CASE attached
  <2> DEFINE line == Track!Line("server_start", Track!AnySlot, 0, server.run + 1)
  <2>1. line \in Lines /\ line.kind = "server_start" /\ line.run = server.run + 1
    <3>1. Track!AnySlot \in Slots /\ server.run + 1 \in Track!Runs
      BY <1>0, TrackNumbers DEF Track!AnySlot, ServerOK
    <3> QED BY <3>1, TrackNumbers DEF Track!Line, Lines, LineKinds
  <2> HIDE DEF line
  <2>2. log' = Append(log, line)
    BY <1>0, <1>4 DEF Track!Logs, line
  <2>3. /\ log' \in Seq(Lines) /\ Len(log) \in Nat /\ Len(log') = Len(log) + 1 /\ log' # <<>>
        /\ log'[Len(log) + 1] = line /\ \A i \in 1..Len(log) : log'[i] = log[i]
        /\ log = <<>> <=> Len(log) = 0
    BY <1>0, <2>1, <2>2, Appended
  <2>4. View' = View
    BY <1>1, <2>1, <2>3 DEF View
  <2>5. log # <<>> => log[Len(log)].run = server.run
    BY <1>4 DEF LogOK
  <2>6. ASSUME NEW i \in 1..Len(log') PROVE LineOK(i)'
    <3>1. CASE i \in 1..Len(log)
      <4>1. LineOK(i) /\ log'[i] = log[i]
        BY <2>3, <3>1 DEF LogOK
      <4>2. \A j \in 1..Len(log') : log'[i].kind = "start" /\ log'[j].kind = "start" /\ i # j =>
              <<log'[i].run, log'[i].task>> # <<log'[j].run, log'[j].task>>
        <5> TAKE j \in 1..Len(log')
        <5>1. CASE j = Len(log) + 1
          BY <2>1, <2>3, <5>1
        <5>2. CASE j \in 1..Len(log)
          BY <2>3, <3>1, <4>1, <5>2 DEF LineOK
        <5> QED BY <2>3, <5>1, <5>2
      <4>3. log'[i].kind = "server_start" =>
              /\ \A j \in i..Len(log') : log'[j].kind = "server_start"
              /\ i > 1 => log'[i].run = (IF log'[i - 1].kind = "server_start" THEN log'[i - 1].run ELSE View) + 1
        <5> SUFFICES ASSUME log[i].kind = "server_start"
                     PROVE  /\ \A j \in i..Len(log') : log'[j].kind = "server_start"
                            /\ i > 1 => log'[i].run = (IF log'[i - 1].kind = "server_start" THEN log'[i - 1].run ELSE View) + 1
          BY <4>1
        <5>1. \A j \in i..Len(log') : j = Len(log) + 1 \/ (j \in i..Len(log) /\ j \in 1..Len(log))
          BY <2>3, <3>1
        <5>2. i > 1 => i - 1 \in 1..Len(log)
          BY <2>3, <3>1
        <5> QED BY <2>1, <2>3, <4>1, <5>1, <5>2 DEF LineOK
      <4> QED BY <1>1, <2>4, <3>1, <4>1, <4>2, <4>3, LineGrows DEF LineOK
    <3>2. CASE i = Len(log) + 1
      <4>1. log'[i] = line /\ \A j \in i..Len(log') : j = i
        BY <2>3, <3>2
      <4>2. i > 1 => log'[i].run = (IF log'[i - 1].kind = "server_start" THEN log'[i - 1].run ELSE View) + 1
        <5> SUFFICES ASSUME i > 1 PROVE log'[i].run = (IF log'[i - 1].kind = "server_start" THEN log'[i - 1].run ELSE View) + 1
          OBVIOUS
        <5>1. Len(log) \in 1..Len(log) /\ i - 1 = Len(log) /\ log # <<>>
          BY <2>3, <3>2
        <5>2. LineOK(Len(log)) /\ log'[i - 1] = log[Len(log)]
          BY <2>3, <5>1 DEF LogOK
        <5>3. log[Len(log)].kind # "server_start" => View = server.run
          BY <2>5, <5>1, <5>2 DEF LineOK
        <5> QED BY <1>1, <2>1, <2>5, <4>1, <5>1, <5>2, <5>3
      <4> QED BY <1>1, <2>1, <2>4, <4>1, <4>2 DEF LineOK
    <3> QED BY <2>3, <3>1, <3>2
  <2>7. log'[Len(log')].run = server'.run
    BY <1>1, <2>1, <2>3
  <2>8. t.last # 0 => t.last = View
    BY <1>4 DEF LogOK
  <2>9. LogOK'
    BY <1>0, <1>2, <1>4, <2>3, <2>4, <2>6, <2>7, <2>8 DEF LogOK
  <2>10. Unread' = Unread
    <3>1. \A i \in 1..Len(log') : i = Len(log) + 1 \/ i \in 1..Len(log)
      BY <2>3
    <3>2. 1..Len(log) \subseteq 1..Len(log')
      BY <2>3
    <3>3. \A p \in Unread' : p \in Unread
      BY <2>1, <2>3, <3>1 DEF Unread
    <3>4. \A p \in Unread : p \in Unread'
      BY <2>3, <3>2 DEF Unread
    <3> QED BY <3>3, <3>4
  <2> QED BY <2>4, <2>9, <2>10
<1> QED
  BY <1>3, <1>4 DEF LogOK

-----------------------------------------------------------------------------
(* What the server does to the reading and to the tracker's rows.          *)

\* Requests in rows are requests.
LEMMA RowsAreAsks ==
    ASSUME NEW tr \in Trackers
    PROVE  /\ \A s \in Slots : tr.open[s].open => tr.open[s] \in OpenRows /\ tr.open[s].req \in Asks
           /\ \A r \in tr.rows : r \in ClosedRows /\ r.req \in Asks
           /\ \A s \in Slots : tr.open[s] \in OpenRows => tr.open[s].open
<1>1. tr.open \in [Slots -> {Track!NoRow} \cup OpenRows] /\ tr.rows \in SUBSET ClosedRows
  BY DEF Trackers
<1>2. \A s \in Slots : tr.open[s] = Track!NoRow \/ tr.open[s] \in OpenRows
  BY <1>1
<1>3. ~Track!NoRow.open
  BY DEF Track!NoRow
<1>4. \A s \in Slots : tr.open[s] \in OpenRows => tr.open[s].open = TRUE /\ tr.open[s].req \in Asks
  BY DEF OpenRows
<1>5. \A r \in tr.rows : r \in ClosedRows /\ r.req \in Asks
  BY <1>1 DEF ClosedRows
<1> QED
  BY <1>2, <1>3, <1>4, <1>5

LEMMA RowsKept ==
    ASSUME RowsOK(t, View), FateGrows, NEW b \in BOOLEAN, t' = [t EXCEPT !.blind = b],
           ~b => ~t.blind /\ View' = View
    PROVE  RowsOK(t, View)'
<1>1. t \in Trackers
  BY DEF RowsOK
<1>2. t' \in Trackers /\ t'.blind = b /\ t'.epoch = t.epoch /\ t'.open = t.open /\ t'.rows = t.rows
      /\ t'.cancelled = t.cancelled
  BY <1>1 DEF Trackers
<1>3. \A s \in Slots : t'.open[s].open =>
        /\ t'.open[s].key = <<t'.epoch, s, t'.open[s].task>>
        /\ t'.open[s].req[2] = t'.open[s].task /\ fate'[t'.open[s].req] # "none"
        /\ ~t'.blind => t'.open[s].req[1] = View' /\ (t'.open[s].eval => fate'[t'.open[s].req] = "done")
  BY <1>1, <1>2, RowsAreAsks DEF RowsOK, FateGrows
<1>4. \A r \in t'.rows :
        /\ r.key[1] <= t'.epoch /\ fate'[r.req] # "none"
        /\ ~t'.blind /\ r.key[1] = t'.epoch => r.req = <<View', r.key[3]>>
        /\ r.sure /\ r.status \in {"done", "cancelled"} => fate'[r.req] = r.status
  BY <1>1, <1>2, RowsAreAsks DEF RowsOK, FateGrows
<1>5. ~t'.blind => \A k \in t'.cancelled : <<View', k>> \in Asks /\ fate'[<<View', k>>] = "cancelled"
  BY <1>1, <1>2 DEF RowsOK, FateGrows
<1> QED
  BY <1>2, <1>3, <1>4, <1>5 DEF RowsOK

LEMMA OnceKept ==
    ASSUME RowsOK(t, View), OnceOK(t, Unread), FateGrows, t'.open = t.open, t'.rows = t.rows,
           NEW new, Unread' = Unread \cup new, \A p \in new : fate[p] = "none",
           \A p \in Asks : fate[p] = "none" /\ fate'[p] # "none" => p \in new
    PROVE  OnceOK(t, Unread)'
<1>1. t \in Trackers
  BY DEF RowsOK
<1>2. RowAsks(t)' = RowAsks(t) /\ OpenAsks(t)' = OpenAsks(t)
  BY DEF RowAsks, OpenAsks
<1>3. \A p \in RowAsks(t) \cup OpenAsks(t) : fate[p] # "none"
  BY DEF RowAsks, OpenAsks, RowsOK
<1>4. new \cap RowAsks(t) = {} /\ new \cap OpenAsks(t) = {}
  BY <1>3
<1>5. \A p \in Asks : fate'[p] # "none" => p \in RowAsks(t) \cup OpenAsks(t) \cup Unread'
  BY DEF OnceOK
<1>6. \A r \in t.rows : r.status = "interrupted" => fate'[r.req] # "running"
  BY <1>1, RowsAreAsks DEF OnceOK, FateGrows, RowsOK
<1> QED
  BY <1>2, <1>4, <1>5, <1>6 DEF OnceOK

LEMMA ReadingKept ==
    ASSUME ReadingOK, FateGrows, UNCHANGED reading, t'.up = t.up, ~t'.blind => ~t.blind /\ View' = View
    PROVE  ReadingOK'
<1>1. SUFFICES ASSUME reading # Track!NoPoll PROVE ReadingOK'
  BY DEF ReadingOK, Track!NoPoll
<1>2. reading \in [held : {TRUE}, void : BOOLEAN, ok : BOOLEAN, slots : [Slots -> SlotStates], run : Track!Runs]
  BY <1>1 DEF ReadingOK
<1>3. reading.ok => \A s \in Slots : reading.slots[s].st # "idle" =>
        reading.slots[s].task \in Track!Tasks /\ fate'[<<reading.run, reading.slots[s].task>>] # "none"
  BY <1>1, <1>2 DEF ReadingOK, FateGrows, Asks
<1> QED
  BY <1>1, <1>2, <1>3 DEF ReadingOK

LEMMA TrackSame == ASSUME t \in Trackers PROVE t = [t EXCEPT !.blind = t.blind] /\ t.blind \in BOOLEAN
BY DEF Trackers

LEMMA ServerKeeps ==
    ASSUME TrackInv,
           \/ \E s \in Slots : Track!Launch(s) \/ Track!Cancels(s) \/ Track!Works(s)
           \/ Track!Crashes \/ Track!Boots
    PROVE  TrackInv'
<1>0. ServerOK /\ LogOK /\ ReadingOK /\ RowsOK(t, View) /\ t \in Trackers
  BY DEF TrackInv, RowsOK
<1>1. ASSUME ServerOK', FateGrows, NEW line, Speaks(line) PROVE TrackInv'
  <2>1. /\ LogOK' /\ View' = View
        /\ Unread' = Unread \cup {p \in {<<line.run, line.task>>} : attached /\ line.kind = "start"}
    BY <1>0, <1>1, SpeaksLog
  <2>2. UNCHANGED <<attached, gaps, reading, t>>
    BY <1>1 DEF Speaks
  <2>3. RowsOK(t, View)' /\ ReadingOK'
    BY <1>0, <1>1, <2>1, <2>2, RowsKept, ReadingKept, TrackSame
  <2>4. ASSUME gaps' = 0 PROVE OnceOK(t, Unread)'
    <3>1. attached /\ OnceOK(t, Unread) /\ t'.open = t.open /\ t'.rows = t.rows
      BY <2>2, <2>4 DEF TrackInv, LogOK
    <3> DEFINE new == {p \in {<<line.run, line.task>>} : attached /\ line.kind = "start"}
    <3>2. \A p \in new : fate[p] = "none"
      BY <1>1 DEF Speaks
    <3>3. \A p \in Asks : fate[p] = "none" /\ fate'[p] # "none" => p \in new
      BY <1>1, <3>1 DEF Speaks
    <3> HIDE DEF new
    <3>4. Unread' = Unread \cup new
      BY <2>1 DEF new
    <3> QED BY <1>0, <1>1, <3>1, <3>2, <3>3, <3>4, OnceKept
  <2> QED BY <1>1, <2>1, <2>3, <2>4 DEF TrackInv
<1>2. ASSUME NEW s \in Slots, Track!Launch(s) PROVE TrackInv'
  <2>1. ServerOK' /\ FateGrows /\ \E line \in Lines : Speaks(line)
    BY <1>0, <1>2, LaunchSpeaks
  <2> QED BY <1>1, <2>1
<1>3. ASSUME NEW s \in Slots, Track!Cancels(s) \/ Track!Works(s) PROVE TrackInv'
  <2>1. ServerOK' /\ FateGrows /\ \E line \in Lines : Speaks(line)
    BY <1>0, <1>3, WorksSpeak DEF Track!Works
  <2> QED BY <1>1, <2>1
<1>4. CASE Track!Listens
  <2>1. PICK s \in Slots : TRUE
    BY TrackNumbers
  <2>2. ServerOK' /\ FateGrows /\ \E line \in Lines : Speaks(line)
    BY <1>0, <1>4, <2>1, WorksSpeak
  <2> QED BY <1>1, <2>2
<1>5. CASE Track!Crashes
  <2>1. ServerOK' /\ FateGrows /\ server'.run = server.run /\ server'.st # "up"
        /\ \A p \in Asks : fate'[p] = "none" <=> fate[p] = "none"
    BY <1>0, <1>5, CrashKeeps
  <2>2. UNCHANGED <<log, attached, gaps, reading, t>>
    BY <1>5 DEF Track!Crashes
  <2>3. LogOK' /\ View' = View /\ Unread' = Unread
    BY <1>0, <2>1, <2>2, LogStays
  <2>4. RowsOK(t, View)' /\ ReadingOK'
    BY <1>0, <2>1, <2>2, <2>3, RowsKept, ReadingKept, TrackSame
  <2>5. ASSUME gaps' = 0 PROVE OnceOK(t, Unread)'
    <3> DEFINE new == {}
    <3>1. OnceOK(t, Unread) /\ t'.open = t.open /\ t'.rows = t.rows /\ Unread' = Unread \cup new
      BY <2>2, <2>3, <2>5 DEF TrackInv
    <3>2. (\A p \in Asks : fate[p] = "none" /\ fate'[p] # "none" => p \in new) /\ (\A p \in new : fate[p] = "none")
      BY <2>1
    <3> HIDE DEF new
    <3> QED BY <1>0, <2>1, <3>1, <3>2, OnceKept
  <2> QED BY <2>1, <2>3, <2>4, <2>5 DEF TrackInv
<1>6. CASE Track!Starts
  <2>1. ServerOK' /\ FateGrows /\ fate' = fate
    BY <1>0, <1>6, StartKeeps
  <2>2. LogOK' /\ (attached => View' = View) /\ Unread' = Unread
    BY <1>0, <1>6, <2>1, StartsLog
  <2>3. t' = [t EXCEPT !.blind = t.blind \/ ~attached] /\ UNCHANGED <<attached, gaps, reading>>
        /\ (t.blind \/ ~attached) \in BOOLEAN
    BY <1>0, <1>6 DEF Track!Starts, Trackers, LogOK
  <2>4. t'.up = t.up /\ t'.open = t.open /\ t'.rows = t.rows /\ (t'.blind <=> (t.blind \/ ~attached))
    BY <1>0, <2>3 DEF Trackers
  <2>5. RowsOK(t, View)'
    BY <1>0, <2>1, <2>2, <2>3, RowsKept
  <2>6. ReadingOK'
    BY <1>0, <2>1, <2>2, <2>3, <2>4, ReadingKept
  <2>7. ASSUME gaps' = 0 PROVE OnceOK(t, Unread)'
    <3> DEFINE new == {}
    <3>1. OnceOK(t, Unread) /\ Unread' = Unread \cup new
      BY <2>2, <2>3, <2>7 DEF TrackInv
    <3>2. (\A p \in Asks : fate[p] = "none" /\ fate'[p] # "none" => p \in new) /\ (\A p \in new : fate[p] = "none")
      BY <2>1
    <3> HIDE DEF new
    <3> QED BY <1>0, <2>1, <2>4, <3>1, <3>2, OnceKept
  <2> QED BY <2>1, <2>2, <2>5, <2>6, <2>7 DEF TrackInv
<1> QED
  BY <1>2, <1>3, <1>4, <1>5, <1>6 DEF Track!Works, Track!Boots

-----------------------------------------------------------------------------
(* The journal's coming and going, and the fetch.                          *)

\* What does not touch the rows keeps what is said of them.
LEMMA RowsSame ==
    ASSUME NEW view, NEW tr, RowsOK(tr, view), NEW tr2 \in Trackers, tr2.epoch = tr.epoch, tr2.open = tr.open,
           tr2.rows = tr.rows, tr2.cancelled = tr.cancelled, tr2.blind = tr.blind
    PROVE  RowsOK(tr2, view)
BY DEF RowsOK

LEMMA OnceSame ==
    ASSUME NEW pending, NEW tr, OnceOK(tr, pending), NEW tr2, tr2.open = tr.open, tr2.rows = tr.rows
    PROVE  OnceOK(tr2, pending)
BY DEF OnceOK, RowAsks, OpenAsks

\* The rows of the next tracker, where no fate changes.
LEMMA RowsNext ==
    ASSUME NEW view, RowsOK(t', view), UNCHANGED fate, View' = view
    PROVE  RowsOK(t, View)'
BY DEF RowsOK

LEMMA OnceNext ==
    ASSUME NEW pending, OnceOK(t', pending), UNCHANGED fate, Unread' = pending
    PROVE  OnceOK(t, Unread)'
BY DEF OnceOK, RowAsks, OpenAsks

LEMMA ViewIsRun ==
    ASSUME LogOK, server.st = "up", attached \/ log = <<>>
    PROVE  View = server.run
<1>1. CASE log = <<>>
  BY <1>1 DEF View
<1>2. CASE log # <<>>
  <2>1. Len(log) \in 1..Len(log) /\ attached
    BY <1>2 DEF LogOK
  <2> QED BY <1>2, <2>1 DEF LogOK, LineOK
<1> QED
  BY <1>1, <1>2

LEMMA JournalSteps ==
    ASSUME TrackInv, Track!JournalDies \/ Track!FollowStep
    PROVE  TrackInv'
<1>0. ServerOK /\ LogOK /\ ReadingOK /\ RowsOK(t, View) /\ t \in Trackers
  BY DEF TrackInv, RowsOK
<1>1. UNCHANGED <<server, slot, fate, log>>
  BY DEF Track!JournalDies, Track!FollowStep, Track!JournalDown, Track!Reattach, Track!JournalUp,
         Track!JournalState, Track!serverVars
<1>2. ServerOK' /\ View' = View /\ Unread' = Unread
  BY <1>0, <1>1 DEF ServerOK, View, Unread
<1>3. \A i \in 1..Len(log) : LineOK(i)'
  BY <1>0, <1>1, <1>2 DEF LogOK, LineOK
<1>4. CASE Track!JournalDies
  <2>1. attached /\ attached' = FALSE /\ gaps' = gaps + 1 /\ UNCHANGED <<reading, t>> /\ (t.up \/ log = <<>>)
    BY <1>4 DEF Track!JournalDies
  <2>5. gaps' \in Nat /\ gaps' # 0
    BY <1>0, <2>1 DEF LogOK
  <2>6. /\ log # <<>> => log[Len(log)].run = server.run
        /\ ~t.up => log = <<>> /\ t.last = 0
        /\ t.last # 0 => t.last = View
        /\ log \in Seq(Lines)
    BY <1>0, <2>1 DEF LogOK
  <2>2. LogOK'
    BY <1>1, <1>2, <1>3, <2>1, <2>5, <2>6 DEF LogOK
  <2>3. RowsOK(t, View)' /\ ReadingOK'
    BY <1>0, <1>1, <1>2, <2>1, RowsNext DEF ReadingOK
  <2>4. gaps' # 0
    BY <1>0, <2>1 DEF LogOK
  <2> QED BY <1>2, <2>2, <2>3, <2>4 DEF TrackInv
<1>5. CASE Track!Reattach
  <2>1. ~attached /\ ~t.up /\ attached' = TRUE /\ UNCHANGED <<gaps, reading, t>>
    BY <1>5 DEF Track!Reattach
  <2>2. LogOK'
    BY <1>0, <1>1, <1>2, <1>3, <2>1 DEF LogOK
  <2>3. RowsOK(t, View)' /\ ReadingOK'
    BY <1>0, <1>1, <1>2, <2>1, RowsNext DEF ReadingOK
  <2>4. gaps' # 0
    BY <1>0, <2>1 DEF LogOK
  <2> QED BY <1>2, <2>2, <2>3, <2>4 DEF TrackInv
<1>6. CASE Track!JournalDown \/ Track!JournalUp
  <2>1. PICK isUp \in BOOLEAN :
           /\ t' = [t EXCEPT !.up = isUp, !.last = 0] /\ UNCHANGED <<gaps, attached>>
           /\ reading' = IF reading.held THEN [reading EXCEPT !.void = TRUE] ELSE reading
           /\ IF isUp THEN attached /\ ~t.up ELSE ~attached /\ log = <<>>
    BY <1>6 DEF Track!JournalDown, Track!JournalUp, Track!JournalState, Track!SetJournalUp
  <2>2. /\ t' \in Trackers /\ t'.up = isUp /\ t'.last = 0 /\ t'.epoch = t.epoch /\ t'.open = t.open
        /\ t'.rows = t.rows /\ t'.cancelled = t.cancelled /\ t'.blind = t.blind
    <3>1. 0 \in 0..MaxRuns
      BY TrackNumbers
    <3> QED BY <1>0, <2>1, <3>1 DEF Trackers
  <2>3. LogOK'
    BY <1>0, <1>1, <1>2, <1>3, <2>1, <2>2 DEF LogOK
  <2>4. ReadingOK'
    <3>1. CASE reading = Track!NoPoll
      BY <2>1, <3>1 DEF ReadingOK, Track!NoPoll
    <3>2. CASE reading # Track!NoPoll
      <4>1. reading \in [held : {TRUE}, void : BOOLEAN, ok : BOOLEAN, slots : [Slots -> SlotStates], run : Track!Runs]
        BY <1>0, <3>2 DEF ReadingOK
      <4>2. reading' = [reading EXCEPT !.void = TRUE]
        BY <2>1, <4>1
      <4>3. /\ reading' \in [held : {TRUE}, void : BOOLEAN, ok : BOOLEAN, slots : [Slots -> SlotStates], run : Track!Runs]
            /\ reading'.void /\ reading'.ok = reading.ok /\ reading'.slots = reading.slots /\ reading'.run = reading.run
        BY <4>1, <4>2
      <4> QED BY <1>0, <1>1, <3>2, <4>3 DEF ReadingOK
    <3> QED BY <3>1, <3>2
  <2>5. RowsOK(t', View)
    BY <1>0, <2>2, RowsSame
  <2>6. RowsOK(t, View)'
    BY <1>1, <1>2, <2>5, RowsNext
  <2>7. gaps' # 0
    BY <1>0, <2>1 DEF LogOK
  <2> QED BY <1>2, <2>3, <2>4, <2>6, <2>7 DEF TrackInv
<1> QED
  BY <1>4, <1>5, <1>6 DEF Track!FollowStep

LEMMA FetchKeeps ==
    ASSUME TrackInv, Track!Fetch
    PROVE  TrackInv'
<1>0. ServerOK /\ LogOK /\ RowsOK(t, View)
  BY DEF TrackInv
<1>1. /\ UNCHANGED <<server, slot, fate, log, attached, gaps, t>>
      /\ reading' = [held |-> TRUE, void |-> FALSE, ok |-> server.st = "up", slots |-> slot, run |-> server.run]
  BY DEF Track!Fetch, Track!serverVars
<1>2. ServerOK' /\ View' = View /\ Unread' = Unread
  BY <1>0, <1>1 DEF ServerOK, View, Unread
<1>3. LogOK'
  BY <1>0, <1>1, <1>2 DEF LogOK, LineOK
<1>4. reading' \in [held : {TRUE}, void : BOOLEAN, ok : BOOLEAN, slots : [Slots -> SlotStates], run : Track!Runs]
  BY <1>0, <1>1 DEF ServerOK
<1>5. \A s \in Slots : slot[s].st # "idle" =>
        slot[s].task \in Track!Tasks /\ fate[<<server.run, slot[s].task>>] # "none"
  BY <1>0 DEF ServerOK, SlotStates
<1>6. server.st = "up" /\ ~t.up => View = server.run
  BY <1>0, ViewIsRun DEF LogOK
<1>7. ReadingOK'
  BY <1>1, <1>2, <1>4, <1>5, <1>6 DEF ReadingOK
<1>8. RowsOK(t, View)' /\ (gaps' = 0 => OnceOK(t, Unread)')
  BY <1>0, <1>1, <1>2, RowsNext, OnceNext DEF TrackInv
<1> QED
  BY <1>2, <1>3, <1>7, <1>8 DEF TrackInv

-----------------------------------------------------------------------------
(* What becomes of the rows when some of them end.                         *)

Closed(tr, s, status) == [key |-> tr.open[s].key, req |-> tr.open[s].req, status |-> status, sure |-> ~tr.blind]

\* The rows of the slots `C` go to the history.
Ends(tr, tr2, C, st) ==
    /\ C \subseteq {s \in Slots : tr.open[s].open}
    /\ \A r \in tr2.rows : r \in tr.rows \/ \E s \in C : r = Closed(tr, s, st[s])
    /\ \A r \in tr.rows : r \in tr2.rows \/ \E s \in C : r.key = tr.open[s].key
    /\ \A s \in C : Closed(tr, s, st[s]) \in tr2.rows

\* A done or cancelled row was.
TrueEnds(tr, C, st) ==
    \A s \in C : ~tr.blind /\ st[s] \in {"done", "cancelled"} => fate[tr.open[s].req] = st[s]

\* A row just opened.
Fresh(tr, s, row, view) ==
    /\ row \in OpenRows /\ row.key = <<tr.epoch, s, row.task>> /\ row.req[2] = row.task /\ ~row.eval
    /\ fate[row.req] # "none" /\ (~tr.blind => row.req[1] = view)

LEMMA ClosedIs ==
    ASSUME NEW view, NEW tr, RowsOK(tr, view), NEW s \in Slots, tr.open[s].open, NEW status \in Statuses
    PROVE  /\ Closed(tr, s, status) \in ClosedRows /\ Closed(tr, s, status).key = <<tr.epoch, s, tr.open[s].task>>
           /\ Closed(tr, s, status).req = tr.open[s].req /\ Closed(tr, s, status).status = status
           /\ Closed(tr, s, status).sure <=> ~tr.blind
           /\ ~tr.blind => tr.open[s].req = <<view, tr.open[s].task>>
<1>1. tr \in Trackers
  BY DEF RowsOK
<1>2. tr.open[s] \in OpenRows /\ tr.blind \in BOOLEAN
  BY <1>1, RowsAreAsks DEF Trackers
<1>3. tr.open[s].key = <<tr.epoch, s, tr.open[s].task>> /\ tr.open[s].req[2] = tr.open[s].task
      /\ (~tr.blind => tr.open[s].req[1] = view)
  BY DEF RowsOK
<1>4. tr.open[s].key \in Keys /\ tr.open[s].req \in Asks
  BY <1>2 DEF OpenRows
<1>5. tr.open[s].req = <<tr.open[s].req[1], tr.open[s].req[2]>>
  BY <1>4 DEF Asks
<1> QED
  BY <1>2, <1>3, <1>4, <1>5 DEF Closed, ClosedRows

LEMMA RowsAfter ==
    ASSUME NEW view, NEW tr, RowsOK(tr, view), NEW tr2 \in Trackers, NEW C, NEW st \in [Slots -> Statuses],
           Ends(tr, tr2, C, st), TrueEnds(tr, C, st), tr2.epoch = tr.epoch, tr2.blind = tr.blind,
           tr2.cancelled \subseteq tr.cancelled,
           \A s \in Slots : tr2.open[s] = tr.open[s] \/ tr2.open[s] = Track!NoRow \/ Fresh(tr, s, tr2.open[s], view)
    PROVE  RowsOK(tr2, view)
<1>1. \A s \in Slots : tr2.open[s].open =>
        /\ tr2.open[s].key = <<tr2.epoch, s, tr2.open[s].task>>
        /\ tr2.open[s].req[2] = tr2.open[s].task /\ fate[tr2.open[s].req] # "none"
        /\ ~tr2.blind => tr2.open[s].req[1] = view /\ (tr2.open[s].eval => fate[tr2.open[s].req] = "done")
  <2> TAKE s \in Slots
  <2>1. CASE tr2.open[s] = tr.open[s]
    BY <2>1 DEF RowsOK
  <2>2. CASE tr2.open[s] = Track!NoRow
    BY <2>2 DEF Track!NoRow
  <2>3. CASE Fresh(tr, s, tr2.open[s], view)
    BY <2>3 DEF Fresh
  <2> QED BY <2>1, <2>2, <2>3
<1>2. ASSUME NEW r \in tr2.rows
      PROVE  /\ r.key[1] <= tr2.epoch /\ fate[r.req] # "none"
             /\ ~tr2.blind /\ r.key[1] = tr2.epoch => r.req = <<view, r.key[3]>>
             /\ r.sure /\ r.status \in {"done", "cancelled"} => fate[r.req] = r.status
  <2>1. CASE r \in tr.rows
    BY <2>1 DEF RowsOK
  <2>2. CASE \E s \in C : r = Closed(tr, s, st[s])
    <3>1. PICK s \in C : r = Closed(tr, s, st[s])
      BY <2>2
    <3>2. s \in Slots /\ tr.open[s].open /\ st[s] \in Statuses
      BY DEF Ends
    <3>3. /\ r.key = <<tr.epoch, s, tr.open[s].task>> /\ r.req = tr.open[s].req /\ r.status = st[s]
          /\ (r.sure <=> ~tr.blind) /\ (~tr.blind => tr.open[s].req = <<view, tr.open[s].task>>)
      BY <3>1, <3>2, ClosedIs
    <3>4. fate[tr.open[s].req] # "none" /\ tr.epoch \in Nat
      BY <3>2 DEF RowsOK, Trackers
    <3>5. (r.sure => ~tr.blind) /\ r.key[1] = tr.epoch /\ r.key[3] = tr.open[s].task /\ tr.epoch <= tr.epoch
      BY <3>3, <3>4
    <3>6. ~tr.blind /\ r.status \in {"done", "cancelled"} => fate[r.req] = r.status
      BY <3>3 DEF TrueEnds
    <3> QED BY <3>3, <3>4, <3>5, <3>6
  <2> QED BY <2>1, <2>2 DEF Ends
<1>3. ~tr2.blind => \A k \in tr2.cancelled : <<view, k>> \in Asks /\ fate[<<view, k>>] = "cancelled"
  BY DEF RowsOK
<1> QED
  BY <1>1, <1>2, <1>3 DEF RowsOK

\* No request's row gives way to another's.
Stays(tr, tr2) == tr.blind \/ \A r \in tr.rows : \E r2 \in tr2.rows : r2.key = r.key /\ r2.req = r.req

LEMMA EndsKeep ==
    ASSUME NEW view, NEW tr, RowsOK(tr, view), NEW tr2, NEW C, NEW st \in [Slots -> Statuses], Ends(tr, tr2, C, st)
    PROVE  Stays(tr, tr2)
<1> SUFFICES ASSUME ~tr.blind, NEW r \in tr.rows, r \notin tr2.rows
             PROVE  \E r2 \in tr2.rows : r2.key = r.key /\ r2.req = r.req
  BY DEF Stays
<1>1. PICK s \in C : r.key = tr.open[s].key
  BY DEF Ends
<1>2. s \in Slots /\ tr.open[s].open /\ st[s] \in Statuses /\ Closed(tr, s, st[s]) \in tr2.rows
  BY DEF Ends
<1>3. /\ Closed(tr, s, st[s]).key = <<tr.epoch, s, tr.open[s].task>>
      /\ Closed(tr, s, st[s]).req = <<view, tr.open[s].task>>
  BY <1>2, ClosedIs
<1>4. tr.open[s].key = <<tr.epoch, s, tr.open[s].task>>
  BY <1>2 DEF RowsOK
<1>5. r.key[1] = tr.epoch /\ r.key[3] = tr.open[s].task
  BY <1>1, <1>4
<1>6. r.req = <<view, r.key[3]>>
  BY <1>5 DEF RowsOK
<1> QED
  BY <1>1, <1>2, <1>3, <1>4, <1>5, <1>6

\* What ends is recorded once, and nothing else is lost.
LEMMA OnceEnds ==
    ASSUME NEW view, NEW tr, RowsOK(tr, view), ~tr.blind, NEW pending, OnceOK(tr, pending),
           NEW tr2, NEW C, NEW st \in [Slots -> Statuses], Ends(tr, tr2, C, st),
           \A s \in C : tr2.open[s] = Track!NoRow, \A s \in Slots \ C : tr2.open[s] = tr.open[s],
           \A s \in C : st[s] = "interrupted" => fate[tr.open[s].req] # "running"
    PROVE  OnceOK(tr2, pending)
<1>1. \A s \in C : /\ s \in Slots /\ tr.open[s].open /\ Closed(tr, s, st[s]).req = tr.open[s].req
                   /\ Closed(tr, s, st[s]).status = st[s] /\ Closed(tr, s, st[s]) \in tr2.rows
  BY ClosedIs DEF Ends
<1>2. \A s \in Slots : tr2.open[s].open => s \notin C /\ tr.open[s].open /\ tr2.open[s].req = tr.open[s].req
  BY DEF Track!NoRow
<1>3. \A r \in tr2.rows : r \in tr.rows \/ \E s \in C : r = Closed(tr, s, st[s])
  BY DEF Ends
<1>4. \A s \in Slots : tr.open[s].open => tr.open[s].req \in OpenAsks(tr) /\ tr.open[s].req \notin RowAsks(tr)
                                         /\ tr.open[s].req \notin pending
  BY DEF OnceOK, OpenAsks
<1>5. \A r \in tr.rows : r.req \in RowAsks(tr) /\ r.req \notin OpenAsks(tr) /\ r.req \notin pending
  BY DEF OnceOK, RowAsks
<1>6. \A s1, s2 \in Slots : tr.open[s1].open /\ tr.open[s2].open /\ tr.open[s1].req = tr.open[s2].req => s1 = s2
  BY DEF OnceOK
<1>7. \A r1, r2 \in tr2.rows : r1.req = r2.req => r1 = r2
  <2> TAKE r1, r2 \in tr2.rows
  <2>1. CASE r1 \in tr.rows /\ r2 \in tr.rows
    BY <2>1 DEF OnceOK
  <2>2. CASE r1 \notin tr.rows \/ r2 \notin tr.rows
    BY <1>1, <1>3, <1>4, <1>5, <1>6, <2>2
  <2> QED BY <2>1, <2>2
<1>8. \A s1, s2 \in Slots : tr2.open[s1].open /\ tr2.open[s2].open /\ tr2.open[s1].req = tr2.open[s2].req => s1 = s2
  BY <1>2, <1>6
<1>9. OpenAsks(tr2) \subseteq OpenAsks(tr)
  BY <1>2 DEF OpenAsks
<1>10. \A p \in RowAsks(tr2) : p \in RowAsks(tr) \/ \E s \in C : p = tr.open[s].req
  BY <1>1, <1>3 DEF RowAsks
<1>11. RowAsks(tr2) \cap OpenAsks(tr2) = {}
  <2> SUFFICES ASSUME NEW p \in RowAsks(tr2), p \in OpenAsks(tr2) PROVE FALSE
    OBVIOUS
  <2>1. PICK s \in Slots : tr2.open[s].open /\ p = tr2.open[s].req
    BY DEF OpenAsks
  <2>2. s \notin C /\ tr.open[s].open /\ p = tr.open[s].req
    BY <1>2, <2>1
  <2>3. p \notin RowAsks(tr)
    BY <1>4, <2>2
  <2> QED BY <1>1, <1>6, <1>10, <2>2, <2>3
<1>12. pending \cap RowAsks(tr2) = {} /\ pending \cap OpenAsks(tr2) = {}
  BY <1>1, <1>4, <1>9, <1>10 DEF OnceOK
<1>13. ASSUME NEW p \in RowAsks(tr) PROVE p \in RowAsks(tr2)
  <2>1. PICK r \in tr.rows : p = r.req
    BY DEF RowAsks
  <2>2. \E r2 \in tr2.rows : r2.req = r.req
    BY <2>1, EndsKeep DEF Stays
  <2> QED BY <2>1, <2>2 DEF RowAsks
<1>14. ASSUME NEW p \in OpenAsks(tr) PROVE p \in RowAsks(tr2) \cup OpenAsks(tr2)
  <2>1. PICK s \in Slots : tr.open[s].open /\ p = tr.open[s].req
    BY DEF OpenAsks
  <2>2. CASE s \in C
    BY <1>1, <2>1, <2>2 DEF RowAsks
  <2>3. CASE s \notin C
    BY <2>1, <2>3 DEF OpenAsks
  <2> QED BY <2>2, <2>3
<1>15. \A r \in tr2.rows : r.status = "interrupted" => fate[r.req] # "running"
  BY <1>1, <1>3 DEF OnceOK
<1> QED
  BY <1>7, <1>8, <1>11, <1>12, <1>13, <1>14, <1>15 DEF OnceOK

\* A row is opened for a request whose line was pending.
LEMMA OnceOpens ==
    ASSUME NEW tr, NEW pending, OnceOK(tr, pending), NEW s \in Slots, ~tr.open[s].open, NEW tr2,
           tr2.rows = tr.rows, tr2.open[s].open, tr2.open[s].req \in pending,
           \A o \in Slots : o # s => tr2.open[o] = tr.open[o]
    PROVE  OnceOK(tr2, pending \ {tr2.open[s].req})
<1> DEFINE p == tr2.open[s].req
<1>1. RowAsks(tr2) = RowAsks(tr)
  BY DEF RowAsks
<1>2. OpenAsks(tr2) = OpenAsks(tr) \cup {p}
  BY DEF OpenAsks
<1>3. p \notin RowAsks(tr) /\ p \notin OpenAsks(tr)
  BY DEF OnceOK
<1>4. \A o \in Slots : o # s /\ tr2.open[o].open => tr2.open[o].req # p
  BY <1>3 DEF OpenAsks
<1>5. \A s1, s2 \in Slots : tr2.open[s1].open /\ tr2.open[s2].open /\ tr2.open[s1].req = tr2.open[s2].req => s1 = s2
  BY <1>4 DEF OnceOK
<1> HIDE DEF p
<1>6. OnceOK(tr2, pending \ {p})
  BY <1>1, <1>2, <1>3, <1>5 DEF OnceOK
<1> QED BY <1>6 DEF p

-----------------------------------------------------------------------------
(* One slot, and all of them.                                              *)

OpenOf(tr) == {s \in Slots : tr.open[s].open}
Each(status) == [s \in Slots |-> status]

\* The slots of `C` end their rows, each by itself.
SlotsEnd(tr, after, status, C) ==
    /\ \A s \in Slots : after[s].open[s] \in {Track!NoRow} \cup OpenRows /\ after[s].idle[s] \in Nat
    /\ \A s \in C : /\ tr.open[s].open
                    /\ after[s].rows = {r \in tr.rows : r.key # tr.open[s].key} \cup {Closed(tr, s, status)}
    /\ \A s \in Slots \ C : after[s].rows = tr.rows

\* The fields that ending rows leaves alone.
Alike(tr, tr2) ==
    /\ tr2.epoch = tr.epoch /\ tr2.last = tr.last /\ tr2.up = tr.up /\ tr2.away = tr.away
    /\ tr2.rekeyed = tr.rekeyed /\ tr2.cancelled = tr.cancelled /\ tr2.blind = tr.blind

LEMMA OpenIs ==
    ASSUME NEW tr \in Trackers, NEW s \in Slots
    PROVE  /\ tr.open[s].open => tr.open[s] \in OpenRows /\ tr.open[s].key \in Keys /\ tr.open[s].req \in Asks
           /\ ~tr.open[s].open => tr.open[s] = Track!NoRow
           /\ tr.blind \in BOOLEAN
<1>1. tr.open[s] \in {Track!NoRow} \cup OpenRows /\ tr.blind \in BOOLEAN
  BY DEF Trackers
<1>2. ~Track!NoRow.open
  BY DEF Track!NoRow
<1>3. tr.open[s] \in OpenRows => tr.open[s].open /\ tr.open[s].key \in Keys /\ tr.open[s].req \in Asks
  BY DEF OpenRows
<1> QED
  BY <1>1, <1>2, <1>3

LEMMA FinishIs ==
    ASSUME NEW tr \in Trackers, NEW s \in Slots, NEW status \in Statuses
    PROVE  LET tr2 == Track!Finish(tr, s, status) IN
           /\ tr2 \in Trackers /\ Alike(tr, tr2)
           /\ Ends(tr, tr2, {s} \cap OpenOf(tr), Each(status))
           /\ tr2.open[s] = Track!NoRow /\ \A o \in Slots : o # s => tr2.open[o] = tr.open[o]
           /\ tr2.rows = IF tr.open[s].open
                         THEN {r \in tr.rows : r.key # tr.open[s].key} \cup {Closed(tr, s, status)} ELSE tr.rows
<1> DEFINE tr2 == Track!Finish(tr, s, status)
           C == {s} \cap OpenOf(tr)
           st == Each(status)
<1>1. CASE ~tr.open[s].open
  <2>1. tr2 = [tr EXCEPT !.idle[s] = 0]
    BY <1>1 DEF Track!Finish
  <2>2. tr2 \in Trackers /\ Alike(tr, tr2) /\ tr2.open = tr.open /\ tr2.rows = tr.rows
    BY <2>1 DEF Trackers, Alike
  <2>3. C = {} /\ tr.open[s] = Track!NoRow
    BY <1>1, OpenIs DEF OpenOf
  <2> HIDE DEF C, tr2, st
  <2>4. Ends(tr, tr2, C, st)
    BY <2>2, <2>3 DEF Ends
  <2> QED BY <1>1, <2>2, <2>3, <2>4 DEF C, tr2, st
<1>2. CASE tr.open[s].open
  <2> DEFINE keep == {r \in tr.rows : r.key # tr.open[s].key}
             row == Closed(tr, s, status)
  <2>1. tr2 = [tr EXCEPT !.open[s] = Track!NoRow, !.idle[s] = 0, !.rows = keep \cup {row}]
    BY <1>2 DEF Track!Finish, Closed
  <2>2. row \in ClosedRows
    BY <1>2, OpenIs DEF Closed, ClosedRows
  <2>3. C = {s} /\ st[s] = status /\ keep \subseteq tr.rows
    BY <1>2 DEF OpenOf, Each
  <2>4. \A r \in tr.rows : r \in keep \/ r.key = tr.open[s].key
    OBVIOUS
  <2>5. tr.open \in [Slots -> {Track!NoRow} \cup OpenRows] /\ tr.idle \in [Slots -> Nat] /\ tr.rows \in SUBSET ClosedRows
    BY DEF Trackers
  <2>6. keep \cup {row} \in SUBSET ClosedRows
    BY <2>2, <2>3, <2>5
  <2>7. tr2.rows = keep \cup {row}
    BY <2>1 DEF Trackers
  <2> HIDE DEF keep, row
  <2>8. tr2 \in Trackers /\ Alike(tr, tr2)
    <3> DEFINE open == [tr.open EXCEPT ![s] = Track!NoRow]
               idle == [tr.idle EXCEPT ![s] = 0]
               rows == keep \cup {row}
    <3>1. open \in [Slots -> {Track!NoRow} \cup OpenRows] /\ idle \in [Slots -> Nat]
      BY <2>5
    <3>2. tr2 = [tr EXCEPT !.open = open, !.idle = idle, !.rows = rows]
      BY <2>1
    <3>3. rows \in SUBSET ClosedRows
      BY <2>6
    <3> HIDE DEF open, idle, rows, tr2
    <3> QED BY <3>1, <3>2, <3>3 DEF Trackers, Alike
  <2>9. tr2.open = [tr.open EXCEPT ![s] = Track!NoRow]
    BY <2>1 DEF Trackers
  <2>10. Closed(tr, s, st[s]) = row
    BY <2>3 DEF row
  <2> HIDE DEF C, tr2, st
  <2>11. Ends(tr, tr2, C, st)
    BY <1>2, <2>3, <2>4, <2>7, <2>10 DEF Ends
  <2> QED BY <1>2, <2>5, <2>7, <2>8, <2>9, <2>11 DEF C, tr2, st, keep, row
<1> QED
  BY <1>1, <1>2

\* The slots one after the other: those of `C` end their rows.
LEMMA EachSlotIs ==
    ASSUME NEW view, NEW tr, RowsOK(tr, view), NEW after, NEW status \in Statuses, NEW C \in SUBSET Slots,
           SlotsEnd(tr, after, status, C)
    PROVE  LET tr2 == Track!EachSlot(tr, after) IN
           /\ tr2 \in Trackers /\ Alike(tr, tr2) /\ Ends(tr, tr2, C, Each(status))
           /\ \A s \in Slots : tr2.open[s] = after[s].open[s]
<1>0. /\ \A s \in Slots : after[s].open[s] \in {Track!NoRow} \cup OpenRows /\ after[s].idle[s] \in Nat
      /\ \A s \in C : /\ tr.open[s].open
                      /\ after[s].rows = {r \in tr.rows : r.key # tr.open[s].key} \cup {Closed(tr, s, status)}
      /\ \A s \in Slots \ C : after[s].rows = tr.rows
  BY DEF SlotsEnd
<1> DEFINE rows == {r \in UNION {after[s].rows : s \in Slots} : r \in tr.rows => \A s \in Slots : r \in after[s].rows}
           open == [s \in Slots |-> after[s].open[s]]
           idle == [s \in Slots |-> after[s].idle[s]]
           tr2  == Track!EachSlot(tr, after)
           st   == Each(status)
<1>1. tr \in Trackers /\ tr.rows \in SUBSET ClosedRows
  BY DEF RowsOK, Trackers
<1>2. ASSUME NEW s \in C
      PROVE  /\ s \in Slots /\ tr.open[s].open /\ Closed(tr, s, status) \in ClosedRows
             /\ Closed(tr, s, status).key = tr.open[s].key /\ tr.open[s].key = <<tr.epoch, s, tr.open[s].task>>
  <2>1. tr.open[s].key = <<tr.epoch, s, tr.open[s].task>>
    BY <1>0 DEF RowsOK
  <2> QED BY <1>0, <2>1, ClosedIs
<1>3. \A s \in C : \A r : r \in after[s].rows <=> (r \in tr.rows /\ r.key # tr.open[s].key) \/ r = Closed(tr, s, status)
  BY <1>0
<1>4. \A s1, s2 \in C : tr.open[s1].key = tr.open[s2].key => s1 = s2
  BY <1>2
<1>5. \A r \in rows : r \in tr.rows \/ \E s \in C : r = Closed(tr, s, status)
  <2> SUFFICES ASSUME NEW r \in rows, r \notin tr.rows PROVE \E s \in C : r = Closed(tr, s, status)
    OBVIOUS
  <2>1. PICK s \in Slots : r \in after[s].rows
    OBVIOUS
  <2>2. s \in C
    BY <1>0, <2>1
  <2> QED BY <1>3, <2>1, <2>2
<1>6. ASSUME NEW r \in tr.rows, \A s \in C : r.key # tr.open[s].key PROVE r \in rows
  <2>1. \A s \in Slots : r \in after[s].rows
    BY <1>0, <1>3, <1>6
  <2>2. PICK s \in Slots : TRUE
    BY TrackNumbers
  <2> QED BY <2>1, <2>2
<1>7. ASSUME NEW s \in C PROVE Closed(tr, s, status) \in rows
  <2>1. s \in Slots /\ Closed(tr, s, status) \in after[s].rows
    BY <1>2, <1>3
  <2>2. ASSUME Closed(tr, s, status) \in tr.rows, NEW o \in Slots PROVE Closed(tr, s, status) \in after[o].rows
    <3>1. CASE o \notin C
      BY <1>0, <2>2, <3>1
    <3>2. CASE o \in C /\ o # s
      <4>1. tr.open[o].key # tr.open[s].key
        BY <1>4, <3>2
      <4> QED BY <1>2, <1>3, <2>2, <3>2, <4>1
    <3>3. CASE o = s
      BY <2>1, <3>3
    <3> QED BY <3>1, <3>2, <3>3
  <2> QED BY <2>1, <2>2
<1>8. rows \in SUBSET ClosedRows
  BY <1>1, <1>2, <1>5
<1>9. open \in [Slots -> {Track!NoRow} \cup OpenRows] /\ idle \in [Slots -> Nat]
  BY <1>0
<1>10. tr2 = [tr EXCEPT !.open = open, !.idle = idle, !.rows = rows]
  BY DEF Track!EachSlot
<1>11. \A s \in Slots : open[s] = after[s].open[s]
  OBVIOUS
<1> HIDE DEF rows, open, idle, tr2
<1>12. tr2 \in Trackers /\ Alike(tr, tr2) /\ tr2.rows = rows /\ tr2.open = open
  BY <1>1, <1>8, <1>9, <1>10 DEF Trackers, Alike
<1>13. \A s \in C : st[s] = status
  BY <1>2 DEF Each
<1> HIDE DEF st
<1>14. Ends(tr, tr2, C, st)
  BY <1>2, <1>5, <1>6, <1>7, <1>12, <1>13 DEF Ends
<1> QED
  BY <1>11, <1>12, <1>14 DEF tr2, st

LEMMA FinishAllIs ==
    ASSUME NEW view, NEW tr, RowsOK(tr, view), NEW status \in Statuses
    PROVE  LET tr2 == Track!FinishAll(tr, status) IN
           /\ tr2 \in Trackers /\ Alike(tr, tr2)
           /\ Ends(tr, tr2, OpenOf(tr), Each(status))
           /\ \A s \in Slots : tr2.open[s] = Track!NoRow
<1> DEFINE after == [s \in Slots |-> Track!Finish(tr, s, status)]
           C == OpenOf(tr)
           tr2 == Track!EachSlot(tr, after)
<1>1. tr \in Trackers
  BY DEF RowsOK
<1>2. ASSUME NEW s \in Slots
      PROVE  /\ after[s] \in Trackers /\ after[s].open[s] = Track!NoRow
             /\ after[s].rows = IF tr.open[s].open
                               THEN {r \in tr.rows : r.key # tr.open[s].key} \cup {Closed(tr, s, status)} ELSE tr.rows
  BY <1>1, FinishIs
<1>3. \A s \in Slots : after[s].open[s] \in {Track!NoRow} \cup OpenRows /\ after[s].idle[s] \in Nat
  <2> TAKE s \in Slots
  <2>1. after[s].idle \in [Slots -> Nat]
    BY <1>2 DEF Trackers
  <2> QED BY <1>2, <2>1
<1>4. \A s \in C : /\ tr.open[s].open
                   /\ after[s].rows = {r \in tr.rows : r.key # tr.open[s].key} \cup {Closed(tr, s, status)}
  BY <1>2 DEF OpenOf
<1>5. \A s \in Slots \ C : after[s].rows = tr.rows
  BY <1>2 DEF OpenOf
<1>6. C \in SUBSET Slots
  BY DEF OpenOf
<1>7. \A s \in Slots : after[s].open[s] = Track!NoRow
  BY <1>2
<1>9. Track!FinishAll(tr, status) = tr2
  BY DEF Track!FinishAll
<1> HIDE DEF after, C
<1>10. SlotsEnd(tr, after, status, C)
  BY <1>3, <1>4, <1>5 DEF SlotsEnd
<1>8. /\ tr2 \in Trackers /\ Alike(tr, tr2) /\ Ends(tr, tr2, C, Each(status))
      /\ \A s \in Slots : tr2.open[s] = after[s].open[s]
  BY <1>6, <1>10, EachSlotIs
<1> HIDE DEF tr2
<1> QED
  BY <1>7, <1>8, <1>9 DEF C

\* A new epoch is about whatever run comes next.
LEMMA RekeyIs ==
    ASSUME NEW view, NEW tr, RowsOK(tr, view), \A s \in Slots : tr.open[s] = Track!NoRow, NEW view2
    PROVE  LET tr2 == Track!Rekey(tr) IN
           /\ RowsOK(tr2, view2) /\ tr2.rows = tr.rows /\ tr2.open = tr.open /\ tr2.idle = tr.idle /\ ~tr2.blind
           /\ tr2.last = tr.last /\ tr2.up = tr.up
<1> DEFINE tr2 == Track!Rekey(tr)
<1>1. tr \in Trackers
  BY DEF RowsOK
<1>2. /\ tr2 \in Trackers /\ tr2.epoch = tr.epoch + 1 /\ tr2.cancelled = {} /\ ~tr2.blind /\ tr2.rows = tr.rows
      /\ tr2.open = tr.open /\ tr2.idle = tr.idle /\ tr2.last = tr.last /\ tr2.up = tr.up
  <2>1. tr.epoch + 1 \in Nat /\ {} \in SUBSET Track!Tasks /\ tr2 = [tr EXCEPT !.epoch = tr.epoch + 1, !.cancelled = {}, !.blind = FALSE]
    BY <1>1 DEF Track!Rekey, Trackers
  <2> HIDE DEF tr2
  <2> QED BY <1>1, <2>1 DEF Trackers
<1> HIDE DEF tr2
<1>3. \A s \in Slots : ~tr2.open[s].open
  BY <1>2 DEF Track!NoRow
<1>4. ASSUME NEW r \in tr2.rows
      PROVE  /\ r.key[1] <= tr2.epoch /\ fate[r.req] # "none" /\ r.key[1] # tr2.epoch
             /\ r.sure /\ r.status \in {"done", "cancelled"} => fate[r.req] = r.status
  <2>1. r \in tr.rows /\ r \in ClosedRows /\ tr.epoch \in Nat
    BY <1>1, <1>2 DEF Trackers
  <2>2. r.key[1] \in Nat
    BY <2>1 DEF ClosedRows, Keys
  <2>3. r.key[1] <= tr.epoch
    BY <2>1 DEF RowsOK
  <2> QED BY <1>2, <2>1, <2>2, <2>3 DEF RowsOK
<1>5. RowsOK(tr2, view2)
  BY <1>2, <1>3, <1>4 DEF RowsOK
<1> QED
  BY <1>2, <1>5 DEF tr2

LEMMA RestartIs ==
    ASSUME NEW view, NEW tr, RowsOK(tr, view), NEW view2
    PROVE  LET tr2 == Track!Restart(tr) IN
           /\ RowsOK(tr2, view2) /\ Stays(tr, tr2) /\ ~tr2.blind /\ tr2.last = tr.last /\ tr2.up = tr.up
           /\ \A pending : ~tr.blind /\ OnceOK(tr, pending) /\ (\A s \in Slots : tr.open[s].open => fate[tr.open[s].req] # "running")
                => OnceOK(tr2, pending)
<1> DEFINE mid == Track!FinishAll(tr, "interrupted")
           C == OpenOf(tr)
           st == Each("interrupted")
           new == Track!Rekey(mid)
           tr2 == Track!Restart(tr)
<1>1. "interrupted" \in Statuses
  BY DEF Statuses
<1>2. /\ mid \in Trackers /\ Alike(tr, mid) /\ Ends(tr, mid, C, st) /\ \A s \in Slots : mid.open[s] = Track!NoRow
  BY <1>1, FinishAllIs
<1>3. st \in [Slots -> Statuses] /\ \A s \in Slots : st[s] = "interrupted"
  BY <1>1 DEF Each
<1>4. C \subseteq Slots /\ \A s \in C : tr.open[s].open
  BY DEF OpenOf
<1>5. \A s \in Slots \ C : tr.open[s] = Track!NoRow
  BY OpenIs DEF RowsOK, OpenOf
<1>6. tr2 = [new EXCEPT !.idle = [s \in Slots |-> 0]]
  BY DEF Track!Restart
<1> HIDE DEF mid, C, st
<1>7. TrueEnds(tr, C, st)
  BY <1>3, <1>4 DEF TrueEnds
<1>8. RowsOK(mid, view)
  BY <1>2, <1>3, <1>7, RowsAfter DEF Alike
<1>9. /\ RowsOK(new, view2) /\ new.rows = mid.rows /\ new.open = mid.open /\ ~new.blind
      /\ new.last = mid.last /\ new.up = mid.up
  BY <1>2, <1>8, RekeyIs
<1>10. Stays(tr, mid)
  BY <1>2, <1>3, EndsKeep
<1> HIDE DEF new, tr2
<1>11. /\ tr2 \in Trackers /\ tr2.rows = new.rows /\ tr2.open = new.open /\ tr2.blind = new.blind /\ tr2.last = new.last
       /\ tr2.up = new.up /\ tr2.epoch = new.epoch /\ tr2.cancelled = new.cancelled
  <2>1. new \in Trackers /\ [s \in Slots |-> 0] \in [Slots -> Nat]
    BY <1>9 DEF RowsOK
  <2> QED BY <1>6, <2>1 DEF Trackers
<1>12. RowsOK(tr2, view2)
  BY <1>9, <1>11, RowsSame
<1>13. Stays(tr, tr2)
  BY <1>9, <1>10, <1>11 DEF Stays
<1>14. ASSUME NEW pending, ~tr.blind, OnceOK(tr, pending), \A s \in Slots : tr.open[s].open => fate[tr.open[s].req] # "running"
       PROVE  OnceOK(tr2, pending)
  <2>1. \A s \in Slots \ C : mid.open[s] = tr.open[s]
    BY <1>2, <1>5
  <2>2. \A s \in C : mid.open[s] = Track!NoRow
    BY <1>2, <1>4
  <2>3. \A s \in C : st[s] = "interrupted" => fate[tr.open[s].req] # "running"
    BY <1>4, <1>14
  <2>4. OnceOK(mid, pending)
    BY <1>2, <1>3, <1>14, <2>1, <2>2, <2>3, OnceEnds
  <2> QED BY <1>9, <1>11, <2>4, OnceSame
<1>15. ~tr2.blind /\ tr2.last = tr.last /\ tr2.up = tr.up
  BY <1>2, <1>9, <1>11 DEF Alike
<1> QED
  BY <1>12, <1>13, <1>14, <1>15 DEF tr2

-----------------------------------------------------------------------------
(* A line of the journal.                                                  *)

\* What a handler leaves of a tracker that is about `view`.
Handled(tr, tr2, view) ==
    /\ RowsOK(tr2, view) /\ Stays(tr, tr2)
    /\ tr2.last = tr.last /\ tr2.up = tr.up /\ tr2.blind = tr.blind

\* One slot's row ends.
LEMMA FinishOK ==
    ASSUME NEW view, NEW tr, RowsOK(tr, view), NEW s \in Slots, NEW status \in Statuses,
           tr.open[s].open /\ ~tr.blind /\ status \in {"done", "cancelled"} => fate[tr.open[s].req] = status
    PROVE  LET tr2 == Track!Finish(tr, s, status) IN
           /\ Handled(tr, tr2, view) /\ Alike(tr, tr2)
           /\ tr2.open[s] = Track!NoRow /\ \A o \in Slots : o # s => tr2.open[o] = tr.open[o]
           /\ status # "interrupted" => \A pending : ~tr.blind /\ OnceOK(tr, pending) => OnceOK(tr2, pending)
<1> DEFINE tr2 == Track!Finish(tr, s, status)
           C == {s} \cap OpenOf(tr)
           st == Each(status)
<1>1. /\ tr2 \in Trackers /\ Alike(tr, tr2) /\ Ends(tr, tr2, C, st)
      /\ tr2.open[s] = Track!NoRow /\ \A o \in Slots : o # s => tr2.open[o] = tr.open[o]
  BY FinishIs DEF RowsOK
<1>2. st \in [Slots -> Statuses] /\ \A o \in Slots : st[o] = status
  BY DEF Each
<1>3. \A o \in C : o = s /\ tr.open[s].open
  BY DEF OpenOf
<1>4. s \notin C => tr.open[s] = Track!NoRow
  BY OpenIs DEF RowsOK, OpenOf
<1> HIDE DEF tr2, C, st
<1>5. TrueEnds(tr, C, st)
  BY <1>2, <1>3 DEF TrueEnds
<1>6. RowsOK(tr2, view)
  BY <1>1, <1>2, <1>5, RowsAfter DEF Alike
<1>7. Stays(tr, tr2)
  BY <1>1, <1>2, EndsKeep
<1>8. ASSUME status # "interrupted", NEW pending, ~tr.blind, OnceOK(tr, pending) PROVE OnceOK(tr2, pending)
  <2>1. \A o \in C : tr2.open[o] = Track!NoRow
    BY <1>1, <1>3
  <2>2. \A o \in Slots \ C : tr2.open[o] = tr.open[o]
    BY <1>1, <1>4
  <2>3. \A o \in C : st[o] = "interrupted" => fate[tr.open[o].req] # "running"
    BY <1>2, <1>3, <1>8
  <2> QED BY <1>1, <1>2, <1>8, <2>1, <2>2, <2>3, OnceEnds
<1>9. Handled(tr, tr2, view)
  BY <1>1, <1>6, <1>7 DEF Handled, Alike
<1> QED
  BY <1>1, <1>8, <1>9 DEF tr2

LEMMA KeptRows ==
    ASSUME NEW tr, NEW tr2, tr2.rows = tr.rows
    PROVE  Stays(tr, tr2)
BY DEF Stays

\* A row that is opened where none is, or in the place of one that ends.
LEMMA OpensOK ==
    ASSUME NEW view, NEW tr, RowsOK(tr, view), NEW s \in Slots, NEW k \in Track!Tasks, NEW run \in Track!Runs,
           fate[<<run, k>>] # "none", ~tr.blind => run = view
    PROVE  LET tr2 == Track!NewRow(Track!Finish(tr, s, "approx"), s, k, run) IN
           /\ Handled(tr, tr2, view) /\ Alike(tr, tr2) /\ tr2.open[s].open /\ tr2.open[s].req = <<run, k>>
           /\ \A o \in Slots : o # s => tr2.open[o] = tr.open[o]
           /\ tr2.rows = Track!Finish(tr, s, "approx").rows
           /\ \A pending : ~tr.blind /\ OnceOK(tr, pending) /\ <<run, k>> \in pending => OnceOK(tr2, pending \ {<<run, k>>})
<1> DEFINE mid == Track!Finish(tr, s, "approx")
           row == Track!Row(mid, s, k, run)
           tr2 == Track!NewRow(mid, s, k, run)
<1>0. "approx" \in Statuses /\ "approx" # "interrupted" /\ "approx" \notin {"done", "cancelled"}
  BY DEF Statuses
<1>1. /\ Handled(tr, mid, view) /\ Alike(tr, mid)
      /\ mid.open[s] = Track!NoRow /\ \A o \in Slots : o # s => mid.open[o] = tr.open[o]
      /\ \A pending : ~tr.blind /\ OnceOK(tr, pending) => OnceOK(mid, pending)
  BY <1>0, FinishOK
<1>2. tr2 = [mid EXCEPT !.open[s] = row, !.idle[s] = 0]
  BY DEF Track!NewRow
<1>9. row = [open |-> TRUE, key |-> <<mid.epoch, s, k>>, task |-> k, eval |-> FALSE, req |-> <<run, k>>]
  BY DEF Track!Row
<1> HIDE DEF mid, row, tr2
<1>3. mid \in Trackers /\ RowsOK(mid, view) /\ mid.epoch \in Nat
  BY <1>1 DEF Handled, RowsOK, Trackers
<1>4. /\ row \in OpenRows /\ row.open /\ row.req = <<run, k>> /\ row.key = <<mid.epoch, s, k>> /\ row.task = k
      /\ ~row.eval
  BY <1>3, <1>9 DEF OpenRows, Keys, Asks
<1>5. /\ tr2 \in Trackers /\ Alike(mid, tr2) /\ tr2.rows = mid.rows /\ tr2.open[s] = row
      /\ \A o \in Slots : o # s => tr2.open[o] = mid.open[o]
  <2>1. mid.open \in [Slots -> {Track!NoRow} \cup OpenRows] /\ mid.idle \in [Slots -> Nat]
    BY <1>3 DEF Trackers
  <2> DEFINE open == [mid.open EXCEPT ![s] = row]
             idle == [mid.idle EXCEPT ![s] = 0]
  <2>2. open \in [Slots -> {Track!NoRow} \cup OpenRows] /\ idle \in [Slots -> Nat]
        /\ open[s] = row /\ \A o \in Slots : o # s => open[o] = mid.open[o]
    BY <1>4, <2>1
  <2>3. tr2 = [mid EXCEPT !.open = open, !.idle = idle]
    BY <1>2
  <2> HIDE DEF open, idle
  <2> QED BY <1>3, <2>2, <2>3 DEF Trackers, Alike
<1>6. RowsOK(tr2, view)
  <2>1. Fresh(mid, s, row, view)
    BY <1>1, <1>4 DEF Fresh, Alike
  <2>2. Ends(mid, tr2, {}, Each("approx"))
    BY <1>5 DEF Ends
  <2>3. Each("approx") \in [Slots -> Statuses] /\ TrueEnds(mid, {}, Each("approx"))
    BY <1>0 DEF Each, TrueEnds
  <2>4. \A o \in Slots : tr2.open[o] = mid.open[o] \/ Fresh(mid, o, tr2.open[o], view)
    BY <1>5, <2>1
  <2> QED BY <1>3, <1>5, <2>2, <2>3, <2>4, RowsAfter DEF Alike
<1>7. ASSUME NEW pending, ~tr.blind, OnceOK(tr, pending), <<run, k>> \in pending
      PROVE  OnceOK(tr2, pending \ {<<run, k>>})
  <2>1. OnceOK(mid, pending) /\ ~mid.open[s].open
    BY <1>1, <1>7 DEF Track!NoRow
  <2>2. OnceOK(tr2, pending \ {tr2.open[s].req})
    BY <1>4, <1>5, <1>7, <2>1, OnceOpens
  <2> QED BY <1>4, <1>5, <2>2
<1>8. Handled(tr, tr2, view) /\ Alike(tr, tr2)
  BY <1>1, <1>5, <1>6 DEF Handled, Alike, Stays
<1>10. tr2.open[s].open /\ tr2.open[s].req = <<run, k>> /\ \A o \in Slots : o # s => tr2.open[o] = tr.open[o]
  BY <1>1, <1>4, <1>5
<1> QED
  BY <1>5, <1>7, <1>8, <1>10 DEF tr2, mid

\* One request less is pending when its start line is read.
Rest(pending, line) == pending \ {p \in {<<line.run, line.task>>} : line.kind = "start"}

\* Reading a line that opens no row leaves the records complete.
Complete(tr, tr2) == \A pending : ~tr.blind /\ OnceOK(tr, pending) => OnceOK(tr2, pending)

LEMMA CancelHandled ==
    ASSUME NEW view \in Track!Runs, NEW tr, RowsOK(tr, view), NEW k \in Track!Tasks, fate[<<view, k>>] = "cancelled"
    PROVE  LET tr2 == [tr EXCEPT !.cancelled = @ \cup {k}] IN Handled(tr, tr2, view) /\ Complete(tr, tr2)
<1> DEFINE tr2 == [tr EXCEPT !.cancelled = @ \cup {k}]
<1>1. tr \in Trackers
  BY DEF RowsOK
<1>2. /\ tr2 \in Trackers /\ tr2.cancelled = tr.cancelled \cup {k} /\ tr2.open = tr.open /\ tr2.rows = tr.rows
      /\ tr2.epoch = tr.epoch /\ tr2.blind = tr.blind /\ tr2.last = tr.last /\ tr2.up = tr.up
  <2> DEFINE more == tr.cancelled \cup {k}
  <2>1. more \in SUBSET Track!Tasks /\ tr2 = [tr EXCEPT !.cancelled = more]
    BY <1>1 DEF Trackers
  <2> HIDE DEF more, tr2
  <2>2. tr2 \in Trackers /\ tr2.cancelled = more /\ tr2.open = tr.open /\ tr2.rows = tr.rows
        /\ tr2.epoch = tr.epoch /\ tr2.blind = tr.blind /\ tr2.last = tr.last /\ tr2.up = tr.up
    BY <1>1, <2>1 DEF Trackers
  <2> QED BY <2>2 DEF more
<1> HIDE DEF tr2
<1>3. <<view, k>> \in Asks
  BY DEF Asks
<1>4. ~tr2.blind => \A c \in tr2.cancelled : <<view, c>> \in Asks /\ fate[<<view, c>>] = "cancelled"
  BY <1>2, <1>3 DEF RowsOK
<1>5. RowsOK(tr2, view)
  BY <1>2, <1>4 DEF RowsOK
<1>6. Complete(tr, tr2)
  BY <1>2, OnceSame DEF Complete
<1>7. Handled(tr, tr2, view)
  BY <1>2, <1>5, KeptRows DEF Handled
<1> QED
  BY <1>6, <1>7 DEF tr2

LEMMA EvalHandled ==
    ASSUME NEW view \in Track!Runs, NEW tr, RowsOK(tr, view), NEW s \in Slots, tr.open[s].open,
           fate[<<view, tr.open[s].task>>] = "done"
    PROVE  LET tr2 == [tr EXCEPT !.open[s].eval = TRUE] IN Handled(tr, tr2, view) /\ Complete(tr, tr2)
<1> DEFINE tr2 == [tr EXCEPT !.open[s].eval = TRUE]
           row == [tr.open[s] EXCEPT !.eval = TRUE]
           open == [tr.open EXCEPT ![s] = row]
<1>1. tr \in Trackers /\ tr.open \in [Slots -> {Track!NoRow} \cup OpenRows]
  BY DEF RowsOK, Trackers
<1>2. tr.open[s] \in OpenRows
  BY <1>1, OpenIs
<1>3. /\ row \in OpenRows /\ row.open /\ row.eval /\ row.key = tr.open[s].key /\ row.task = tr.open[s].task
      /\ row.req = tr.open[s].req
  BY <1>2 DEF OpenRows
<1>4. tr2 = [tr EXCEPT !.open = open]
  BY <1>1
<1> HIDE DEF row, tr2
<1>5. open \in [Slots -> {Track!NoRow} \cup OpenRows] /\ open[s] = row /\ \A o \in Slots : o # s => open[o] = tr.open[o]
  BY <1>1, <1>3
<1> HIDE DEF open
<1>6. /\ tr2 \in Trackers /\ tr2.open = open /\ tr2.cancelled = tr.cancelled /\ tr2.rows = tr.rows
      /\ tr2.epoch = tr.epoch /\ tr2.blind = tr.blind /\ tr2.last = tr.last /\ tr2.up = tr.up
  BY <1>1, <1>4, <1>5 DEF Trackers
<1>7. \A o \in Slots : /\ tr2.open[o].open => tr.open[o].open
                       /\ tr.open[o].open => /\ tr2.open[o].open /\ tr2.open[o].key = tr.open[o].key
                                             /\ tr2.open[o].task = tr.open[o].task /\ tr2.open[o].req = tr.open[o].req
                                             /\ o # s => tr2.open[o] = tr.open[o]
  BY <1>3, <1>5, <1>6
<1>8. ~tr.blind => tr.open[s].req = <<view, tr.open[s].task>>
  <2>1. "approx" \in Statuses
    BY DEF Statuses
  <2> QED BY <2>1, ClosedIs
<1>9. \A o \in Slots : tr2.open[o].open =>
        /\ tr2.open[o].key = <<tr2.epoch, o, tr2.open[o].task>>
        /\ tr2.open[o].req[2] = tr2.open[o].task /\ fate[tr2.open[o].req] # "none"
        /\ ~tr2.blind => tr2.open[o].req[1] = view /\ (tr2.open[o].eval => fate[tr2.open[o].req] = "done")
  BY <1>6, <1>7, <1>8 DEF RowsOK
<1>10. RowsOK(tr2, view)
  BY <1>6, <1>9 DEF RowsOK
<1>11. RowAsks(tr2) = RowAsks(tr) /\ OpenAsks(tr2) = OpenAsks(tr)
  BY <1>6, <1>7 DEF RowAsks, OpenAsks
<1>12. Complete(tr, tr2)
  BY <1>6, <1>7, <1>11 DEF Complete, OnceOK
<1>13. Handled(tr, tr2, view)
  BY <1>6, <1>10, KeptRows DEF Handled
<1> QED
  BY <1>12, <1>13 DEF tr2

\* What the release says of a row is what became of its request.
LEMMA ReleaseHandled ==
    ASSUME NEW view \in Track!Runs, NEW tr, RowsOK(tr, view), NEW s \in Slots, tr.open[s].open
    PROVE  LET tr2 == Track!Released(tr, s) IN Handled(tr, tr2, view) /\ Complete(tr, tr2)
<1> DEFINE k == tr.open[s].task
           mid == [tr EXCEPT !.cancelled = @ \ {k}]
           status == IF k \in tr.cancelled THEN "cancelled" ELSE IF tr.open[s].eval THEN "done" ELSE "approx"
           tr2 == Track!Released(tr, s)
<1>1. tr \in Trackers /\ tr.blind \in BOOLEAN
  BY DEF RowsOK, Trackers
<1>2. tr2 = Track!Finish(mid, s, status)
  BY DEF Track!Released
<1>3. status \in Statuses /\ status # "interrupted"
  BY DEF Statuses
<1>4. ~tr.blind => tr.open[s].req = <<view, k>>
  <2>1. "approx" \in Statuses
    BY DEF Statuses
  <2> QED BY <2>1, ClosedIs
<1>5. ~tr.blind /\ status \in {"done", "cancelled"} => fate[tr.open[s].req] = status
  <2>1. tr.open[s].req[2] = k /\ (~tr.blind /\ tr.open[s].eval => fate[tr.open[s].req] = "done")
    BY DEF RowsOK
  <2>2. ~tr.blind /\ k \in tr.cancelled => fate[<<view, k>>] = "cancelled"
    BY DEF RowsOK
  <2> HIDE DEF k
  <2> QED BY <1>4, <2>1, <2>2
<1>6. /\ mid \in Trackers /\ mid.cancelled = tr.cancelled \ {k} /\ mid.open = tr.open /\ mid.rows = tr.rows
      /\ mid.epoch = tr.epoch /\ mid.blind = tr.blind /\ mid.last = tr.last /\ mid.up = tr.up
  <2> DEFINE less == tr.cancelled \ {k}
  <2>1. less \in SUBSET Track!Tasks /\ mid = [tr EXCEPT !.cancelled = less]
    BY <1>1 DEF Trackers
  <2> HIDE DEF less, mid
  <2>2. mid \in Trackers /\ mid.cancelled = less /\ mid.open = tr.open /\ mid.rows = tr.rows
        /\ mid.epoch = tr.epoch /\ mid.blind = tr.blind /\ mid.last = tr.last /\ mid.up = tr.up
    BY <1>1, <2>1 DEF Trackers
  <2> QED BY <2>2 DEF less
<1> HIDE DEF k, mid, status, tr2
<1>7. RowsOK(mid, view)
  BY <1>6 DEF RowsOK
<1>8. Handled(mid, tr2, view) /\ \A pending : ~mid.blind /\ OnceOK(mid, pending) => OnceOK(tr2, pending)
  BY <1>2, <1>3, <1>5, <1>6, <1>7, FinishOK
<1>9. Handled(tr, tr2, view)
  BY <1>6, <1>8 DEF Handled, Stays
<1>10. Complete(tr, tr2)
  BY <1>6, <1>8, OnceSame DEF Complete
<1> QED
  BY <1>9, <1>10 DEF tr2

LEMMA StartHandled ==
    ASSUME NEW view \in Track!Runs, NEW tr, RowsOK(tr, view), NEW line \in Lines, line.task \in Track!Tasks,
           line.run = view, fate[<<view, line.task>>] # "none", NEW pending, <<view, line.task>> \in pending
    PROVE  LET tr2 == Track!Started(tr, line) IN
           Handled(tr, tr2, view) /\ (~tr.blind /\ OnceOK(tr, pending) => OnceOK(tr2, pending \ {<<view, line.task>>}))
<1> DEFINE s == line.slot
           tr2 == Track!Started(tr, line)
<1>0. s \in Slots /\ tr \in Trackers
  BY DEF Lines, RowsOK
<1>1. CASE tr.open[s].open /\ tr.open[s].task = line.task
  <2>1. tr2 = tr
    BY <1>1 DEF Track!Started
  <2>2. ~tr.blind => tr.open[s].req = <<view, line.task>>
    <3>1. "approx" \in Statuses
      BY DEF Statuses
    <3> QED BY <1>0, <1>1, <3>1, ClosedIs
  <2>3. ~tr.blind => ~OnceOK(tr, pending)
    BY <1>0, <1>1, <2>2 DEF OnceOK, OpenAsks
  <2> QED BY <2>1, <2>3 DEF Handled, Stays
<1>2. CASE ~(tr.open[s].open /\ tr.open[s].task = line.task)
  <2>1. tr2 = Track!NewRow(Track!Finish(tr, s, "approx"), s, line.task, view)
    BY <1>2 DEF Track!Started
  <2> HIDE DEF tr2
  <2>2. Handled(tr, tr2, view)
        /\ \A p : ~tr.blind /\ OnceOK(tr, p) /\ <<view, line.task>> \in p => OnceOK(tr2, p \ {<<view, line.task>>})
    BY <1>0, <2>1, OpensOK
  <2> QED BY <2>2 DEF tr2
<1> QED
  BY <1>1, <1>2

\* What a line of the run it is about leaves of the tracker.
Heard(tr, line) ==
    CASE line.kind = "cancel" -> [tr EXCEPT !.cancelled = @ \cup {line.task}]
      [] line.kind = "start" -> Track!Started(tr, line)
      [] line.kind = "eval" /\ Track!Matches(tr, line) -> [tr EXCEPT !.open[line.slot].eval = TRUE]
      [] line.kind = "release" /\ Track!Matches(tr, line) -> Track!Released(tr, line.slot)
      [] OTHER -> tr

LEMMA LineHandled ==
    ASSUME NEW view \in Track!Runs, NEW tr, RowsOK(tr, view), NEW line \in Lines,
           line.kind = "server_start" \/ line.run = view,
           line.kind \in {"start", "eval", "cancel", "release"} => line.task \in Track!Tasks,
           line.kind = "start" => fate[<<view, line.task>>] # "none",
           line.kind = "eval" => fate[<<view, line.task>>] = "done",
           line.kind = "cancel" => fate[<<view, line.task>>] = "cancelled",
           NEW pending, line.kind = "start" => <<view, line.task>> \in pending
    PROVE  LET tr2 == Heard(tr, line) IN
           Handled(tr, tr2, view) /\ (~tr.blind /\ OnceOK(tr, pending) => OnceOK(tr2, Rest(pending, line)))
<1> DEFINE tr2 == Heard(tr, line)
<1>0. line.slot \in Slots /\ line.kind # "start" => Rest(pending, line) = pending
  BY DEF Lines, Rest
<1>00. line.slot \in Slots
  BY DEF Lines
<1>1. CASE line.kind = "cancel"
  <2>1. tr2 = [tr EXCEPT !.cancelled = @ \cup {line.task}]
    BY <1>1 DEF Heard
  <2> QED BY <1>0, <1>00, <1>1, <2>1, CancelHandled DEF Complete
<1>2. CASE line.kind = "start"
  <2>1. tr2 = Track!Started(tr, line) /\ Rest(pending, line) = pending \ {<<view, line.task>>} /\ line.run = view
    BY <1>2 DEF Heard, Rest
  <2> QED BY <1>2, <2>1, StartHandled
<1>3. CASE line.kind = "eval" /\ Track!Matches(tr, line)
  <2>1. tr2 = [tr EXCEPT !.open[line.slot].eval = TRUE] /\ tr.open[line.slot].open /\ tr.open[line.slot].task = line.task
    BY <1>3 DEF Heard, Track!Matches
  <2> QED BY <1>0, <1>00, <1>3, <2>1, EvalHandled DEF Complete
<1>4. CASE line.kind = "release" /\ Track!Matches(tr, line)
  <2>1. tr2 = Track!Released(tr, line.slot) /\ tr.open[line.slot].open
    BY <1>4 DEF Heard, Track!Matches
  <2> QED BY <1>0, <1>00, <1>4, <2>1, ReleaseHandled DEF Complete
<1>5. CASE /\ line.kind # "cancel" /\ line.kind # "start"
           /\ ~(line.kind = "eval" /\ Track!Matches(tr, line)) /\ ~(line.kind = "release" /\ Track!Matches(tr, line))
  <2>1. tr2 = tr
    BY <1>5 DEF Heard
  <2> QED BY <1>0, <1>00, <1>5, <2>1 DEF Handled, Stays
<1> QED
  BY <1>1, <1>2, <1>3, <1>4, <1>5

\* A tracker that does not know its run says nothing of it.
LEMMA BlindRows ==
    ASSUME NEW view, NEW view2, NEW tr, RowsOK(tr, view), tr.blind PROVE RowsOK(tr, view2)
BY DEF RowsOK

\* The log without its first line.
LEMMA TailIs ==
    ASSUME LogOK, log # <<>>, log' = Tail(log)
    PROVE  /\ Head(log) = log[1] /\ Len(log) \in Nat \ {0} /\ Len(log') = Len(log) - 1 /\ log' \in Seq(Lines)
           /\ \A i \in 1..Len(log') : i + 1 \in 1..Len(log) /\ log'[i] = log[i + 1]
           /\ \A i \in 1..Len(log) : log[i] \in Lines /\ LineOK(i)
           /\ \A i \in 2..Len(log) : i - 1 \in 1..Len(log')
           /\ log' = <<>> <=> Len(log) = 1
<1>1. log \in Seq(Lines) /\ \A i \in 1..Len(log) : LineOK(i)
  BY DEF LogOK
<1>2. Len(log) \in Nat /\ Len(log) # 0 /\ \A i \in 1..Len(log) : log[i] \in Lines
  BY <1>1
<1>3. Head(log) = log[1] /\ log' \in Seq(Lines) /\ Len(log') = Len(log) - 1
      /\ \A i \in 1..Len(log') : log'[i] = log[i + 1]
  BY <1>1, <1>2
<1>4. log' = <<>> <=> Len(log') = 0
  BY <1>3, EmptySeq
<1>5. log' = <<>> <=> Len(log) = 1
  BY <1>2, <1>3, <1>4
<1>6. /\ \A i \in 1..Len(log') : i + 1 \in 1..Len(log)
      /\ \A i \in 2..Len(log) : i - 1 \in 1..Len(log')
  BY <1>2, <1>3
<1>7. Len(log) \in Nat \ {0}
  BY <1>2
<1> QED
  BY <1>1, <1>2, <1>3, <1>5, <1>6, <1>7

\* The starts of later runs come after all lines of this one.
LEMMA TailView ==
    ASSUME LogOK, log # <<>>, log' = Tail(log), UNCHANGED server
    PROVE  /\ log[1].kind # "server_start" => log[1].run = View
           /\ log' # <<>> => View' = log[1].run
           /\ log' = <<>> => View' = server.run
           /\ \A i \in 2..Len(log) : log[i].kind # "server_start" => log[1].kind # "server_start" /\ View' = View
<1> DEFINE ss(i) == log[i].kind = "server_start"
<1>1. /\ Len(log) \in Nat \ {0} /\ \A i \in 1..Len(log) : log[i] \in Lines /\ LineOK(i)
      /\ log' # <<>> => Len(log) >= 2 /\ log'[1] = log[2]
      /\ log' = <<>> <=> Len(log) = 1
  <2>1. log' # <<>> => Len(log') >= 1
    BY TailIs
  <2> QED BY <2>1, TailIs
<1>7. \A i \in 1..Len(log) : /\ ss(i) => /\ \A j \in i..Len(log) : ss(j)
                                         /\ i > 1 => log[i].run = (IF ss(i - 1) THEN log[i - 1].run ELSE View) + 1
                             /\ ~ss(i) => log[i].run = View
  BY <1>1 DEF LineOK
<1>2. \A i \in 1..Len(log), j \in 1..Len(log) : ss(i) /\ j >= i => ss(j)
  <2> SUFFICES ASSUME NEW i \in 1..Len(log), NEW j \in 1..Len(log), ss(i), j >= i PROVE ss(j)
    OBVIOUS
  <2>1. j \in i..Len(log)
    BY <1>1
  <2> QED BY <1>7, <2>1
<1>3. ~ss(1) => log[1].run = View
  <2>1. 1 \in 1..Len(log)
    BY <1>1
  <2> QED BY <1>7, <2>1
<1>4. ASSUME log' # <<>> PROVE View' = log[1].run /\ (~ss(2) => ~ss(1) /\ View' = View)
  <2>1. log'[1] = log[2] /\ 2 \in 1..Len(log) /\ 1 \in 1..Len(log)
    BY <1>1, <1>4
  <2>2. CASE ss(2)
    <3>1. log[2].run = (IF ss(1) THEN log[1].run ELSE View) + 1
      <4>1. 2 > 1 /\ 2 - 1 = 1
        OBVIOUS
      <4> QED BY <1>7, <2>1, <2>2, <4>1
    <3>2. log[2].run = log[1].run + 1 /\ log[1].run \in Int
      BY <1>1, <1>3, <2>1, <3>1, TrackNumbers DEF Lines
    <3>3. View' = log[2].run - 1
      BY <1>4, <2>1, <2>2 DEF View
    <3> QED BY <2>2, <3>2, <3>3
  <2>3. CASE ~ss(2)
    <3>1. ~ss(1)
      BY <1>2, <2>1, <2>3
    <3>2. log[2].run = View
      BY <1>1, <2>1, <2>3 DEF LineOK
    <3>3. View' = log[2].run
      BY <1>4, <2>1, <2>3 DEF View
    <3> QED BY <1>3, <3>1, <3>2, <3>3
  <2> QED BY <2>2, <2>3
<1>5. log' = <<>> => View' = server.run
  BY DEF View
<1>6. ASSUME NEW i \in 2..Len(log), ~ss(i) PROVE ~ss(1) /\ View' = View
  <2>1. Len(log) >= 2 /\ log' # <<>> /\ 2 \in 1..Len(log) /\ i \in 1..Len(log) /\ i >= 2
    BY <1>1
  <2>2. ~ss(2)
    BY <1>2, <1>6, <2>1
  <2> QED BY <1>4, <2>1, <2>2
<1> QED
  BY <1>3, <1>4, <1>5, <1>6

LEMMA TailPending ==
    ASSUME LogOK, log # <<>>, log' = Tail(log)
    PROVE  Unread' = Rest(Unread, log[1])
<1> DEFINE ask(i) == <<log[i].run, log[i].task>>
           go(i) == log[i].kind = "start"
<1>1. /\ Len(log) \in Nat \ {0} /\ Len(log') = Len(log) - 1
      /\ \A i \in 1..Len(log') : i + 1 \in 1..Len(log) /\ log'[i] = log[i + 1]
      /\ \A i \in 2..Len(log) : i - 1 \in 1..Len(log')
      /\ \A i \in 1..Len(log) : LineOK(i)
  BY TailIs
<1>2. \A p : p \in Unread <=> \E i \in 1..Len(log) : go(i) /\ p = ask(i)
  BY DEF Unread
<1>3. \A p : p \in Unread' <=> \E i \in 1..Len(log') : log'[i].kind = "start" /\ p = <<log'[i].run, log'[i].task>>
  BY DEF Unread
<1>4. \A i, j \in 1..Len(log) : go(i) /\ go(j) /\ i # j => ask(i) # ask(j)
  BY <1>1 DEF LineOK
<1>5. \A p : p \in Rest(Unread, log[1]) <=> p \in Unread /\ ~(go(1) /\ p = ask(1))
  BY DEF Rest
<1>6. \A p : p \in Unread' <=> \E i \in 2..Len(log) : go(i) /\ p = ask(i)
  <2> TAKE p
  <2>1. ASSUME NEW i \in 1..Len(log'), log'[i].kind = "start", p = <<log'[i].run, log'[i].task>>
        PROVE  \E j \in 2..Len(log) : go(j) /\ p = ask(j)
    <3>1. i + 1 \in 2..Len(log) /\ go(i + 1) /\ p = ask(i + 1)
      BY <1>1, <2>1
    <3> QED BY <3>1
  <2>2. ASSUME NEW i \in 2..Len(log), go(i), p = ask(i)
        PROVE  \E j \in 1..Len(log') : log'[j].kind = "start" /\ p = <<log'[j].run, log'[j].task>>
    <3>1. i - 1 \in 1..Len(log') /\ log'[i - 1] = log[i]
      BY <1>1
    <3> QED BY <2>2, <3>1
  <2> QED BY <1>3, <2>1, <2>2
<1>7. 1 \in 1..Len(log) /\ \A i \in 2..Len(log) : i \in 1..Len(log) /\ i # 1
  BY <1>1
<1>9. \A i \in 1..Len(log) : i = 1 \/ i \in 2..Len(log)
  BY <1>1
<1> HIDE DEF ask, go
<1>8. \A p : p \in Unread' <=> p \in Rest(Unread, log[1])
  <2> TAKE p
  <2>1. ASSUME p \in Unread' PROVE p \in Rest(Unread, log[1])
    BY <1>2, <1>4, <1>5, <1>6, <1>7, <2>1
  <2>2. ASSUME p \in Rest(Unread, log[1]) PROVE p \in Unread'
    BY <1>2, <1>5, <1>6, <1>9, <2>2
  <2> QED BY <2>1, <2>2
<1> QED
  BY <1>8

\* The lines after the one that is read.
LEMMA TailLines ==
    ASSUME LogOK, log # <<>>, log' = Tail(log), UNCHANGED <<server, fate>>
    PROVE  \A i \in 1..Len(log') : LineOK(i)'
<1> SUFFICES ASSUME NEW i \in 1..Len(log') PROVE LineOK(i)'
  OBVIOUS
<1>1. /\ Len(log) \in Nat \ {0} /\ Len(log') = Len(log) - 1
      /\ \A j \in 1..Len(log') : j + 1 \in 2..Len(log) /\ j + 1 \in 1..Len(log) /\ log'[j] = log[j + 1]
      /\ \A j \in 1..Len(log) : LineOK(j)
  BY TailIs
<1>2. LineOK(i + 1) /\ log'[i] = log[i + 1] /\ i + 1 \in 2..Len(log) /\ i \in Int /\ i >= 1
  BY <1>1
<1>3. log'[i].kind # "server_start" => log'[i].run = View'
  BY <1>2, TailView DEF LineOK
<1>4. log'[i].kind = "server_start" => \A j \in i..Len(log') : log'[j].kind = "server_start"
  <2> SUFFICES ASSUME log'[i].kind = "server_start", NEW j \in i..Len(log') PROVE log'[j].kind = "server_start"
    OBVIOUS
  <2>1. j \in 1..Len(log') /\ j + 1 \in (i + 1)..Len(log)
    BY <1>1, <1>2
  <2>2. log[j + 1].kind = "server_start"
    BY <1>2, <2>1 DEF LineOK
  <2> QED BY <1>1, <2>1, <2>2
<1>5. log'[i].kind = "server_start" /\ i > 1 =>
        log'[i].run = (IF log'[i - 1].kind = "server_start" THEN log'[i - 1].run ELSE View') + 1
  <2> SUFFICES ASSUME log'[i].kind = "server_start", i > 1
               PROVE  log'[i].run = (IF log'[i - 1].kind = "server_start" THEN log'[i - 1].run ELSE View') + 1
    OBVIOUS
  <2>1. i - 1 \in 1..Len(log') /\ (i - 1) + 1 = i /\ (i + 1) - 1 = i /\ i + 1 > 1 /\ i \in 2..Len(log)
    BY <1>1, <1>2
  <2>2. log'[i - 1] = log[i]
    BY <1>1, <2>1
  <2>3. log[i + 1].run = (IF log[i].kind = "server_start" THEN log[i].run ELSE View) + 1
    BY <1>2, <2>1 DEF LineOK
  <2>4. log[i].kind # "server_start" => View' = View
    BY <2>1, TailView
  <2> QED BY <1>2, <2>2, <2>3, <2>4
<1>6. \A j \in 1..Len(log') : log'[i].kind = "start" /\ log'[j].kind = "start" /\ i # j =>
        <<log'[i].run, log'[i].task>> # <<log'[j].run, log'[j].task>>
  <2> SUFFICES ASSUME NEW j \in 1..Len(log'), log'[i].kind = "start", log'[j].kind = "start", i # j
               PROVE  <<log'[i].run, log'[i].task>> # <<log'[j].run, log'[j].task>>
    OBVIOUS
  <2>1. j + 1 \in 1..Len(log) /\ log'[j] = log[j + 1] /\ i + 1 # j + 1
    BY <1>1, <1>2
  <2> QED BY <1>2, <2>1 DEF LineOK
<1> QED
  BY <1>2, <1>3, <1>4, <1>5, <1>6 DEF LineOK

LEMMA ReadKeeps ==
    ASSUME TrackInv, Track!ReadLine
    PROVE  TrackInv' /\ Stays(t, t')
<1> DEFINE line == log[1]
           ss == line.kind = "server_start"
<1>0. ServerOK /\ LogOK /\ ReadingOK /\ RowsOK(t, View) /\ t \in Trackers /\ t.up \in BOOLEAN /\ (gaps = 0 => OnceOK(t, Unread))
  BY DEF TrackInv, RowsOK, Trackers
<1>1. /\ log # <<>> /\ t.up /\ log' = Tail(log) /\ t' = Track!OnJournal(t, Head(log))
      /\ UNCHANGED <<server, slot, fate, attached, gaps, reading>>
  BY DEF Track!ReadLine, Track!serverVars
<1>2. Head(log) = line /\ line \in Lines /\ LineOK(1) /\ 1 \in 1..Len(log) /\ line.run \in Track!Runs
      /\ log' \in Seq(Lines) /\ Len(log) \in Nat
      /\ (log' = <<>> <=> Len(log) = 1) /\ Len(log') = Len(log) - 1
      /\ \A i \in 1..Len(log') : log'[i] = log[i + 1]
  <2>1. Head(log) = line /\ Len(log) \in Nat \ {0} /\ \A i \in 1..Len(log) : log[i] \in Lines /\ LineOK(i)
    BY <1>0, <1>1, TailIs
  <2>2. line \in Lines /\ 1 \in 1..Len(log)
    BY <2>1
  <2> QED BY <1>0, <1>1, <2>1, <2>2, TailIs DEF Lines
<1>3. /\ ~ss => line.run = View
      /\ log' # <<>> => View' = line.run
      /\ log' = <<>> => View' = server.run
  BY <1>0, <1>1, TailView
<1>4. ServerOK' /\ Unread' = Rest(Unread, line) /\ \A i \in 1..Len(log') : LineOK(i)'
  BY <1>0, <1>1, TailPending, TailLines DEF ServerOK
<1>5. t.last # 0 /\ line.run > t.last => ss
  <2>1. t.last # 0 => t.last = View
    BY <1>0, <1>1 DEF LogOK
  <2>2. line.run \in Int
    BY <1>2, TrackNumbers
  <2> QED BY <1>3, <2>1, <2>2
<1> DEFINE mid == IF ss THEN Track!Restart(t) ELSE t
           base == [mid EXCEPT !.last = line.run]
<1>6. t' = Heard(base, line)
  <2>1. t' = Track!OnJournal(t, line)
    BY <1>1, <1>2
  <2>2. (line.kind = "server_start" \/ (t.last # 0 /\ line.run > t.last)) <=> ss
    BY <1>5
  <2> QED BY <2>1, <2>2 DEF Track!OnJournal, Heard
<1>7. /\ RowsOK(mid, IF ss THEN View' ELSE View) /\ Stays(t, mid) /\ mid.up = t.up
      /\ IF ss THEN ~mid.blind ELSE mid.blind = t.blind
      /\ gaps = 0 => OnceOK(mid, Unread)
  <2>1. CASE ss
    <3>1. server.st # "up"
      BY <1>2, <2>1 DEF LineOK
    <3>2. \A s \in Slots : t.open[s].open => fate[t.open[s].req] # "running"
      BY <1>0, <3>1, RowsAreAsks DEF ServerOK
    <3>3. gaps = 0 => ~t.blind
      BY <1>0 DEF LogOK
    <3>4. mid = Track!Restart(t)
      BY <2>1
    <3> HIDE DEF mid
    <3> QED BY <1>0, <2>1, <3>2, <3>3, <3>4, RestartIs
  <2>2. CASE ~ss
    BY <1>0, <2>2 DEF Stays
  <2> QED BY <2>1, <2>2
<1> HIDE DEF mid
<1>8. /\ base \in Trackers /\ base.last = line.run /\ base.up = mid.up /\ base.blind = mid.blind /\ base.open = mid.open
      /\ base.rows = mid.rows /\ base.epoch = mid.epoch /\ base.cancelled = mid.cancelled
  <2>1. mid \in Trackers /\ line.run \in 0..MaxRuns
    BY <1>2, <1>7, TrackNumbers DEF RowsOK
  <2> QED BY <2>1 DEF Trackers
<1> HIDE DEF base
<1>9. /\ RowsOK(base, IF ss THEN View' ELSE View) /\ Stays(t, base) /\ (gaps = 0 => OnceOK(base, Unread))
  <2>1. RowsOK(base, IF ss THEN View' ELSE View)
    BY <1>7, <1>8, RowsSame
  <2> QED BY <1>7, <1>8, <2>1, OnceSame DEF Stays
<1>10. /\ t'.last = line.run /\ t'.up = t.up /\ t'.blind = base.blind
       /\ RowsOK(t', View') /\ Stays(t, t') /\ (gaps = 0 => OnceOK(t', Unread'))
  <2>1. CASE ss
    <3>1. t' = base
      BY <1>6, <2>1 DEF Heard
    <3>2. Unread' = Unread
      BY <1>4, <2>1 DEF Rest
    <3> QED BY <1>7, <1>8, <1>9, <2>1, <3>1, <3>2
  <2>2. CASE ~ss
    <3>1. RowsOK(base, line.run) /\ line.run = View
      BY <1>3, <1>9, <2>2
    <3>2. line.kind = "start" => <<line.run, line.task>> \in Unread
      BY <1>2 DEF Unread
    <3>3. Handled(base, t', line.run) /\ (~base.blind /\ OnceOK(base, Unread) => OnceOK(t', Rest(Unread, line)))
      BY <1>2, <1>6, <3>1, <3>2, LineHandled DEF LineOK
    <3>4. t'.blind = t.blind /\ t'.last = line.run /\ t'.up = t.up
      BY <1>7, <1>8, <2>2, <3>3 DEF Handled
    <3>5. gaps = 0 => OnceOK(t', Unread')
      BY <1>0, <1>4, <1>7, <1>8, <1>9, <2>2, <3>3 DEF LogOK
    <3>6. Stays(t, t')
      BY <1>7, <1>8, <1>9, <2>2, <3>3 DEF Handled, Stays
    <3>7. ~t.blind => View' = line.run
      BY <1>0, <1>1, <1>2, <1>3, <2>2 DEF LogOK
    <3>8. RowsOK(t', View')
      BY <3>3, <3>4, <3>7, BlindRows DEF Handled
    <3> QED BY <1>8, <3>3, <3>4, <3>5, <3>6, <3>8 DEF Handled
  <2> QED BY <2>1, <2>2
<1>11. IF ss THEN ~t'.blind ELSE t'.blind = t.blind
  BY <1>7, <1>8, <1>10
<1>12. LogOK'
  <2>1. log' # <<>> => log'[Len(log')] = log[Len(log)] /\ 1 \in 1..Len(log') /\ log'[1] = log[2] /\ 2 \in 1..Len(log)
    BY <1>2
  <2>2. attached /\ log' # <<>> => log'[Len(log')].run = server.run
    BY <1>0, <1>1, <2>1 DEF LogOK
  <2>3. ~attached /\ ~t'.blind /\ log' # <<>> => log'[Len(log')].run = server.run \/ log'[1].kind = "server_start"
    <3>1. ss /\ log' # <<>> => log[2].kind = "server_start"
      BY <1>2, <2>1 DEF LineOK
    <3> QED BY <1>0, <1>1, <1>11, <2>1, <3>1 DEF LogOK
  <2>4. attached \/ log' # <<>> => t'.last = View'
    <3>1. attached => line.run = server.run \/ log' # <<>>
      BY <1>0, <1>1, <1>2 DEF LogOK
    <3> QED BY <1>3, <1>10, <3>1
  <2>5. gaps = 0 => attached /\ t'.up /\ ~t'.blind
    BY <1>0, <1>1, <1>10, <1>11 DEF LogOK
  <2>6. attached \in BOOLEAN /\ gaps \in Nat
    BY <1>0 DEF LogOK
  <2> QED BY <1>1, <1>2, <1>4, <1>10, <2>2, <2>3, <2>4, <2>5, <2>6 DEF LogOK
<1>13. ReadingOK'
  BY <1>0, <1>1, <1>10 DEF ReadingOK
<1>14. RowsOK(t, View)' /\ (gaps' = 0 => OnceOK(t, Unread)')
  BY <1>1, <1>10, RowsNext, OnceNext
<1> QED
  BY <1>4, <1>10, <1>12, <1>13, <1>14 DEF TrackInv

-----------------------------------------------------------------------------
(* A poll of the slots.                                                    *)

\* What one slot of a poll leaves of its own row: nothing, an end, and
\* without a journal another row.
Seen(tr, after, s, view) ==
    /\ after.open[s] \in {Track!NoRow} \cup OpenRows /\ after.idle[s] \in Nat
    /\ \/ after.open[s] = tr.open[s] /\ after.rows = tr.rows
       \/ /\ ~tr.open[s].open /\ ~tr.up /\ Fresh(tr, s, after.open[s], view) /\ after.rows = tr.rows
       \/ /\ tr.open[s].open /\ after.open[s] # tr.open[s]
          /\ after.open[s] = Track!NoRow \/ (~tr.up /\ Fresh(tr, s, after.open[s], view))
          /\ after.rows = {r \in tr.rows : r.key # tr.open[s].key} \cup {Closed(tr, s, "approx")}

LEMMA IdleSeen ==
    ASSUME NEW view, NEW tr, RowsOK(tr, view), NEW s \in Slots
    PROVE  Seen(tr, Track!SeenIdle(tr, s), s, view)
<1> DEFINE first == [tr EXCEPT !.idle[s] = IF @ = 0 THEN 1 ELSE @]
           after == Track!SeenIdle(tr, s)
<1>1. tr \in Trackers /\ tr.open[s] \in {Track!NoRow} \cup OpenRows /\ tr.idle \in [Slots -> Nat]
  BY DEF RowsOK, Trackers
<1>2. first \in Trackers /\ first.open = tr.open /\ first.rows = tr.rows /\ first.blind = tr.blind
  <2> DEFINE idle == [tr.idle EXCEPT ![s] = IF @ = 0 THEN 1 ELSE @]
  <2>1. idle \in [Slots -> Nat] /\ first = [tr EXCEPT !.idle = idle]
    BY <1>1
  <2> HIDE DEF idle, first
  <2> QED BY <1>1, <2>1 DEF Trackers
<1>3. CASE ~tr.open[s].open
  <2>1. after = tr
    BY <1>3 DEF Track!SeenIdle
  <2> QED BY <1>1, <2>1 DEF Seen
<1>4. CASE tr.open[s].open
  <2>1. after = Track!Finish(first, s, "approx") \/ after = first
    BY <1>4 DEF Track!SeenIdle
  <2>2. "approx" \in Statuses
    BY DEF Statuses
  <2> HIDE DEF first, after
  <2>3. CASE after = first
    <3>1. first.idle[s] \in Nat
      BY <1>2 DEF Trackers
    <3> QED BY <1>1, <1>2, <2>3, <3>1 DEF Seen, after
  <2>4. CASE after = Track!Finish(first, s, "approx")
    <3>1. /\ after \in Trackers /\ after.open[s] = Track!NoRow
          /\ after.rows = IF first.open[s].open
                          THEN {r \in first.rows : r.key # first.open[s].key} \cup {Closed(first, s, "approx")} ELSE first.rows
      BY <1>2, <2>2, <2>4, FinishIs
    <3>2. Closed(first, s, "approx") = Closed(tr, s, "approx")
      BY <1>2 DEF Closed
    <3>3. after.rows = {r \in tr.rows : r.key # tr.open[s].key} \cup {Closed(tr, s, "approx")}
      BY <1>2, <1>4, <3>1, <3>2
    <3>4. after.open[s] # tr.open[s] /\ after.idle[s] \in Nat
      <4>1. after.idle \in [Slots -> Nat]
        BY <3>1 DEF Trackers
      <4>2. ~Track!NoRow.open
        BY DEF Track!NoRow
      <4> QED BY <1>4, <3>1, <4>1, <4>2
    <3>5. Seen(tr, after, s, view)
      BY <1>4, <3>1, <3>3, <3>4 DEF Seen
    <3> QED BY <3>5 DEF after
  <2> QED BY <2>1, <2>3, <2>4
<1> QED
  BY <1>3, <1>4

LEMMA BusySeen ==
    ASSUME NEW view, NEW tr, RowsOK(tr, view), NEW s \in Slots, NEW k \in Track!Tasks, NEW run \in Track!Runs,
           fate[<<run, k>>] # "none", ~tr.up /\ ~tr.blind => run = view
    PROVE  Seen(tr, Track!Busy(tr, s, k, run), s, view)
<1> DEFINE mid == Track!Finish(tr, s, "approx")
           row == Track!Row(mid, s, k, run)
           after == Track!Busy(tr, s, k, run)
<1>1. tr \in Trackers /\ tr.open[s] \in {Track!NoRow} \cup OpenRows /\ tr.idle \in [Slots -> Nat]
  BY DEF RowsOK, Trackers
<1>2. CASE tr.open[s].open /\ tr.open[s].task = k
  <2>1. after = [tr EXCEPT !.idle[s] = 0]
    BY <1>2 DEF Track!Busy
  <2>2. after.open = tr.open /\ after.rows = tr.rows /\ after.idle[s] = 0
    BY <1>1, <2>1 DEF Trackers
  <2> QED BY <1>1, <2>2 DEF Seen
<1>3. CASE ~(tr.open[s].open /\ tr.open[s].task = k) /\ tr.up
  <2>1. after = tr
    BY <1>3 DEF Track!Busy
  <2> QED BY <1>1, <2>1 DEF Seen
<1>4. CASE ~(tr.open[s].open /\ tr.open[s].task = k) /\ ~tr.up
  <2>1. after = Track!NewRow(mid, s, k, run)
    BY <1>4 DEF Track!Busy
  <2>2. "approx" \in Statuses
    BY DEF Statuses
  <2>3. /\ mid \in Trackers /\ Alike(tr, mid)
        /\ mid.rows = IF tr.open[s].open
                      THEN {r \in tr.rows : r.key # tr.open[s].key} \cup {Closed(tr, s, "approx")} ELSE tr.rows
    BY <1>1, <2>2, FinishIs
  <2>4. row = [open |-> TRUE, key |-> <<mid.epoch, s, k>>, task |-> k, eval |-> FALSE, req |-> <<run, k>>]
    BY DEF Track!Row
  <2>5. after = [mid EXCEPT !.open[s] = row, !.idle[s] = 0]
    BY <2>1 DEF Track!NewRow
  <2> HIDE DEF mid, row, after
  <2>6. mid.open \in [Slots -> {Track!NoRow} \cup OpenRows] /\ mid.idle \in [Slots -> Nat] /\ mid.epoch = tr.epoch /\ tr.epoch \in Nat
    BY <1>1, <2>3 DEF Trackers, Alike
  <2>7. after.open[s] = row /\ after.idle[s] = 0 /\ after.rows = mid.rows
    BY <2>3, <2>5, <2>6 DEF Trackers
  <2>8. row \in OpenRows /\ row.key = <<tr.epoch, s, k>> /\ row.task = k /\ ~row.eval /\ row.req = <<run, k>>
    BY <2>4, <2>6 DEF OpenRows, Keys, Asks
  <2>9. Fresh(tr, s, row, view)
    BY <1>4, <2>8 DEF Fresh
  <2>10. tr.open[s].open => row # tr.open[s]
    BY <1>4, <2>8
  <2>11. Seen(tr, after, s, view)
    <3>1. CASE tr.open[s].open
      <4>1. after.rows = {r \in tr.rows : r.key # tr.open[s].key} \cup {Closed(tr, s, "approx")}
        BY <2>3, <2>7, <3>1
      <4> QED BY <1>4, <2>7, <2>8, <2>9, <2>10, <3>1, <4>1 DEF Seen
    <3>2. CASE ~tr.open[s].open
      <4>1. after.rows = tr.rows
        BY <2>3, <2>7, <3>2
      <4> QED BY <1>4, <2>7, <2>8, <2>9, <3>2, <4>1 DEF Seen
    <3> QED BY <3>1, <3>2
  <2> QED BY <2>11 DEF after
<1> QED
  BY <1>2, <1>3, <1>4

\* What a poll leaves of a tracker that is about `view`.
Polled(tr, tr2, view) ==
    /\ RowsOK(tr2, view) /\ Stays(tr, tr2) /\ tr2.last = tr.last /\ tr2.up = tr.up
    /\ tr2.blind = tr.blind \/ ~tr.up
    /\ tr.up => Complete(tr, tr2)

\* A poll of a tracker that differs in nothing a poll keeps.
LEMMA PolledOf ==
    ASSUME NEW view, NEW tr, NEW tr1, NEW tr2, Polled(tr1, tr2, view),
           tr1.open = tr.open, tr1.rows = tr.rows, tr1.last = tr.last, tr1.up = tr.up, tr1.blind = tr.blind
    PROVE  Polled(tr, tr2, view)
<1>1. tr.up => Complete(tr, tr2)
  BY OnceSame DEF Polled, Complete
<1> QED
  BY <1>1 DEF Polled, Stays

LEMMA SlotsPolled ==
    ASSUME NEW view, NEW tr, RowsOK(tr, view), NEW after, \A s \in Slots : Seen(tr, after[s], s, view)
    PROVE  Polled(tr, Track!EachSlot(tr, after), view)
<1> DEFINE C == {s \in Slots : tr.open[s].open /\ after[s].open[s] # tr.open[s]}
           tr2 == Track!EachSlot(tr, after)
           st == Each("approx")
<1>0. "approx" \in Statuses /\ "approx" # "interrupted" /\ "approx" \notin {"done", "cancelled"}
  BY DEF Statuses
<1>1. \A s \in C : /\ s \in Slots /\ tr.open[s].open
                   /\ after[s].open[s] = Track!NoRow \/ (~tr.up /\ Fresh(tr, s, after[s].open[s], view))
                   /\ after[s].rows = {r \in tr.rows : r.key # tr.open[s].key} \cup {Closed(tr, s, "approx")}
  BY DEF Seen
<1>2. \A s \in Slots \ C : /\ after[s].rows = tr.rows
                           /\ after[s].open[s] = tr.open[s] \/ (~tr.up /\ Fresh(tr, s, after[s].open[s], view))
  <2> TAKE s \in Slots \ C
  <2>1. ~tr.open[s].open \/ after[s].open[s] = tr.open[s]
    OBVIOUS
  <2>2. Seen(tr, after[s], s, view)
    OBVIOUS
  <2> QED BY <2>1, <2>2 DEF Seen
<1>3. C \in SUBSET Slots
  OBVIOUS
<1> HIDE DEF C
<1>4. SlotsEnd(tr, after, "approx", C)
  BY <1>1, <1>2 DEF SlotsEnd, Seen
<1>5. /\ tr2 \in Trackers /\ Alike(tr, tr2) /\ Ends(tr, tr2, C, st)
      /\ \A s \in Slots : tr2.open[s] = after[s].open[s]
  BY <1>0, <1>3, <1>4, EachSlotIs
<1>6. st \in [Slots -> Statuses] /\ \A s \in Slots : st[s] = "approx"
  BY <1>0 DEF Each
<1> HIDE DEF tr2, st
<1>7. TrueEnds(tr, C, st)
  BY <1>0, <1>1, <1>6 DEF TrueEnds
<1>8. \A s \in Slots : tr2.open[s] = tr.open[s] \/ tr2.open[s] = Track!NoRow \/ Fresh(tr, s, tr2.open[s], view)
  BY <1>1, <1>2, <1>5
<1>9. RowsOK(tr2, view)
  BY <1>5, <1>6, <1>7, <1>8, RowsAfter DEF Alike
<1>10. Stays(tr, tr2)
  BY <1>5, <1>6, EndsKeep
<1>11. ASSUME tr.up, NEW pending, ~tr.blind, OnceOK(tr, pending) PROVE OnceOK(tr2, pending)
  <2>1. \A s \in C : tr2.open[s] = Track!NoRow
    BY <1>1, <1>5, <1>11
  <2>2. \A s \in Slots \ C : tr2.open[s] = tr.open[s]
    BY <1>2, <1>5, <1>11
  <2>3. \A s \in C : st[s] = "interrupted" => fate[tr.open[s].req] # "running"
    BY <1>0, <1>1, <1>6
  <2> QED BY <1>5, <1>6, <1>11, <2>1, <2>2, <2>3, OnceEnds
<1>12. Polled(tr, tr2, view)
  BY <1>5, <1>9, <1>10, <1>11 DEF Polled, Complete, Alike
<1> QED
  BY <1>12 DEF tr2

\* An answer of the server.
LEMMA AnswerPolled ==
    ASSUME NEW view, NEW tr, RowsOK(tr, view), NEW slots \in [Slots -> SlotStates], NEW run \in Track!Runs,
           \A s \in Slots : slots[s].st # "idle" => slots[s].task \in Track!Tasks /\ fate[<<run, slots[s].task>>] # "none",
           ~tr.up /\ ~tr.blind => run = view
    PROVE  Polled(tr, Track!OnSlots(tr, slots, run), view)
<1> DEFINE there == [tr EXCEPT !.away = 0, !.rekeyed = FALSE]
           after == [s \in Slots |-> IF slots[s].st = "idle" THEN Track!SeenIdle(there, s)
                                     ELSE Track!Busy(there, s, slots[s].task, run)]
           tr2 == Track!OnSlots(tr, slots, run)
<1>1. tr2 = Track!EachSlot(there, after)
  BY DEF Track!OnSlots
<1>2. /\ there \in Trackers /\ there.open = tr.open /\ there.rows = tr.rows /\ there.last = tr.last /\ there.up = tr.up
      /\ there.blind = tr.blind /\ there.epoch = tr.epoch /\ there.cancelled = tr.cancelled
  <2>1. tr \in Trackers
    BY DEF RowsOK
  <2> QED BY <2>1 DEF Trackers
<1> HIDE DEF there, tr2
<1>3. RowsOK(there, view)
  BY <1>2, RowsSame
<1>4. ASSUME NEW s \in Slots PROVE Seen(there, after[s], s, view)
  <2>1. CASE slots[s].st = "idle"
    <3>1. after[s] = Track!SeenIdle(there, s)
      BY <2>1
    <3> QED BY <1>3, <3>1, IdleSeen
  <2>2. CASE slots[s].st # "idle"
    <3>1. after[s] = Track!Busy(there, s, slots[s].task, run)
      BY <2>2
    <3>2. ~there.up /\ ~there.blind => run = view
      BY <1>2
    <3> HIDE DEF after
    <3> QED BY <1>3, <2>2, <3>1, <3>2, BusySeen
  <2> QED BY <2>1, <2>2
<1> HIDE DEF after
<1>5. Polled(there, tr2, view)
  BY <1>1, <1>3, <1>4, SlotsPolled
<1>6. Polled(tr, tr2, view)
  BY <1>2, <1>5, PolledOf
<1> QED
  BY <1>6 DEF tr2

\* No answer: after a long silence without a journal what is open has ended,
\* and what comes next is of another run.
LEMMA SilencePolled ==
    ASSUME NEW view, NEW tr, RowsOK(tr, view)
    PROVE  Polled(tr, Track!OnNoSlots(tr), view)
<1> DEFINE away == [tr EXCEPT !.away = IF @ > Unreachable THEN @ ELSE @ + 1]
           gone == ~tr.up /\ away.away > Unreachable
           mid == Track!FinishAll(away, "interrupted")
           over == IF gone THEN mid ELSE away
           new == Track!Rekey(over)
           tr2 == Track!OnNoSlots(tr)
<1>1. tr \in Trackers /\ tr.up \in BOOLEAN
  BY DEF RowsOK, Trackers
<1>2. tr2 = IF gone /\ ~tr.rekeyed THEN [new EXCEPT !.rekeyed = TRUE] ELSE over
  BY DEF Track!OnNoSlots
<1>3. /\ away \in Trackers /\ away.open = tr.open /\ away.rows = tr.rows /\ away.last = tr.last /\ away.up = tr.up
      /\ away.blind = tr.blind /\ away.epoch = tr.epoch /\ away.cancelled = tr.cancelled
  <2> DEFINE polls == IF tr.away > Unreachable THEN tr.away ELSE tr.away + 1
  <2>1. polls \in Nat /\ away = [tr EXCEPT !.away = polls]
    BY <1>1 DEF Trackers
  <2> HIDE DEF polls, away
  <2> QED BY <1>1, <2>1 DEF Trackers
<1>4. gone => ~tr.up
  OBVIOUS
<1> HIDE DEF away, gone, mid, new, tr2
<1>5. RowsOK(away, view)
  BY <1>3, RowsSame
<1>6. CASE ~gone
  <2>1. tr2 = away
    BY <1>2, <1>6
  <2>2. Polled(tr, tr2, view)
    BY <1>3, <1>5, <2>1, OnceSame DEF Polled, Stays, Complete
  <2> QED BY <2>2 DEF tr2
<1>7. CASE gone
  <2> DEFINE C == OpenOf(away)
             st == Each("interrupted")
  <2>1. "interrupted" \in Statuses /\ over = mid /\ "interrupted" \notin {"done", "cancelled"}
    BY <1>7 DEF Statuses
  <2>2. /\ mid \in Trackers /\ Alike(away, mid) /\ Ends(away, mid, C, st) /\ \A s \in Slots : mid.open[s] = Track!NoRow
    BY <1>5, <2>1, FinishAllIs DEF mid
  <2>3. st \in [Slots -> Statuses] /\ \A s \in Slots : st[s] = "interrupted"
    BY <2>1 DEF Each
  <2>4. C \subseteq Slots
    BY DEF OpenOf
  <2> HIDE DEF C, st, over
  <2>5. TrueEnds(away, C, st)
    BY <2>1, <2>3, <2>4 DEF TrueEnds
  <2>6. RowsOK(mid, view)
    BY <1>5, <2>2, <2>3, <2>5, RowsAfter DEF Alike
  <2>7. Stays(away, mid)
    BY <1>5, <2>2, <2>3, EndsKeep
  <2>8. mid.last = tr.last /\ mid.up = tr.up /\ mid.blind = tr.blind
    BY <1>3, <2>2 DEF Alike
  <2>9. Stays(tr, mid)
    BY <1>3, <2>7 DEF Stays
  <2>10. CASE tr.rekeyed
    <3>1. tr2 = mid
      BY <1>2, <2>1, <2>10
    <3>2. Polled(tr, tr2, view)
      BY <1>4, <1>7, <2>6, <2>8, <2>9, <3>1 DEF Polled
    <3> QED BY <3>2 DEF tr2
  <2>11. CASE ~tr.rekeyed
    <3>1. new = Track!Rekey(mid)
      BY <2>1 DEF new
    <3>2. /\ RowsOK(new, view) /\ new.rows = mid.rows /\ new.open = mid.open /\ new.last = mid.last /\ new.up = mid.up
      BY <2>2, <2>6, <3>1, RekeyIs
    <3>3. new \in Trackers /\ tr2 = [new EXCEPT !.rekeyed = TRUE]
      BY <1>2, <1>7, <2>11, <3>2 DEF RowsOK
    <3>4. /\ tr2 \in Trackers /\ tr2.rows = new.rows /\ tr2.open = new.open /\ tr2.last = new.last /\ tr2.up = new.up
          /\ tr2.blind = new.blind /\ tr2.epoch = new.epoch /\ tr2.cancelled = new.cancelled
      BY <3>3 DEF Trackers
    <3>5. RowsOK(tr2, view)
      BY <3>2, <3>4, RowsSame
    <3>6. Stays(tr, tr2)
      BY <2>9, <3>2, <3>4 DEF Stays
    <3>7. Polled(tr, tr2, view)
      BY <1>4, <1>7, <2>8, <3>2, <3>4, <3>5, <3>6 DEF Polled
    <3> QED BY <3>7 DEF tr2
  <2> QED BY <2>10, <2>11
<1> QED
  BY <1>6, <1>7

LEMMA ApplyKeeps ==
    ASSUME TrackInv, Track!Apply
    PROVE  TrackInv' /\ Stays(t, t')
<1> DEFINE old == [t EXCEPT !.idle = [s \in Slots |-> Track!Older(t.idle[s])]]
<1>0. ServerOK /\ LogOK /\ ReadingOK /\ RowsOK(t, View) /\ t \in Trackers /\ t.up \in BOOLEAN /\ (gaps = 0 => OnceOK(t, Unread))
  BY DEF TrackInv, RowsOK, Trackers
<1>1. /\ reading.held /\ t' = Track!AppliedIfFresh(old) /\ reading' = Track!NoPoll
      /\ server' = [server EXCEPT !.boot = IF server.st = "booting" /\ @ < BootPolls THEN @ + 1 ELSE @]
      /\ UNCHANGED <<slot, fate, log, attached, gaps>>
  BY DEF Track!Apply
<1>2. server' \in [st : {"dead", "booting", "up"}, run : Track!Runs, next : Nat \ {0}, boot : Nat]
      /\ server'.st = server.st /\ server'.run = server.run /\ server'.next = server.next
  BY <1>0, <1>1 DEF ServerOK
<1>3. ServerOK'
  BY <1>0, <1>1, <1>2 DEF ServerOK
<1>4. View' = View /\ Unread' = Unread
  BY <1>1, <1>2 DEF View, Unread
<1>5. /\ reading \in [held : {TRUE}, void : BOOLEAN, ok : BOOLEAN, slots : [Slots -> SlotStates], run : Track!Runs]
      /\ reading.ok => \A s \in Slots : reading.slots[s].st # "idle" =>
           reading.slots[s].task \in Track!Tasks /\ fate[<<reading.run, reading.slots[s].task>>] # "none"
      /\ reading.ok /\ ~reading.void /\ ~t.up /\ ~t.blind => reading.run = View
  <2>1. reading # Track!NoPoll
    BY <1>1 DEF Track!NoPoll
  <2> QED BY <1>0, <2>1 DEF ReadingOK
<1>6. /\ old \in Trackers /\ old.open = t.open /\ old.rows = t.rows /\ old.last = t.last /\ old.up = t.up
      /\ old.blind = t.blind /\ old.epoch = t.epoch /\ old.cancelled = t.cancelled
  <2> DEFINE idle == [s \in Slots |-> Track!Older(t.idle[s])]
  <2>1. \A s \in Slots : t.idle[s] \in Nat
    BY <1>0 DEF Trackers
  <2>2. \A s \in Slots : Track!Older(t.idle[s]) \in Nat
    BY <2>1 DEF Track!Older
  <2>3. idle \in [Slots -> Nat]
    BY <2>2
  <2> HIDE DEF idle
  <2>4. [t EXCEPT !.idle = idle] \in Trackers /\ LET o == [t EXCEPT !.idle = idle] IN
          /\ o.open = t.open /\ o.rows = t.rows /\ o.last = t.last /\ o.up = t.up
          /\ o.blind = t.blind /\ o.epoch = t.epoch /\ o.cancelled = t.cancelled
    BY <1>0, <2>3 DEF Trackers
  <2> QED BY <2>4 DEF idle
<1> HIDE DEF old
<1>7. RowsOK(old, View)
  BY <1>0, <1>6, RowsSame
<1>8. Polled(old, t', View)
  <2>1. CASE reading.void
    <3>1. t' = old
      BY <1>1, <2>1 DEF Track!AppliedIfFresh
    <3> QED BY <1>7, <3>1 DEF Polled, Stays, Complete
  <2>2. CASE ~reading.void /\ reading.ok
    <3>1. t' = Track!OnSlots(old, reading.slots, reading.run)
      BY <1>1, <2>2 DEF Track!AppliedIfFresh, Track!Applied
    <3>2. reading.slots \in [Slots -> SlotStates] /\ reading.run \in Track!Runs
      BY <1>5
    <3> QED BY <1>5, <1>6, <1>7, <2>2, <3>1, <3>2, AnswerPolled
  <2>3. CASE ~reading.void /\ ~reading.ok
    <3>1. t' = Track!OnNoSlots(old)
      BY <1>1, <2>3 DEF Track!AppliedIfFresh, Track!Applied
    <3> QED BY <1>7, <3>1, SilencePolled
  <2> QED BY <2>1, <2>2, <2>3
<1>9. Polled(t, t', View)
  BY <1>6, <1>8, PolledOf
<1>10. gaps = 0 => t.up /\ ~t.blind
  BY <1>0 DEF LogOK
<1>11. LogOK'
  <2>1. /\ t'.last = t.last /\ t'.up = t.up /\ (t'.blind = t.blind \/ ~t.up)
    BY <1>9 DEF Polled
  <2>2. \A i \in 1..Len(log') : LineOK(i)'
    BY <1>0, <1>1, <1>2, <1>4 DEF LogOK, LineOK
  <2>3. ~attached /\ ~t.up => log = <<>>
    BY <1>0 DEF LogOK
  <2> QED BY <1>0, <1>1, <1>2, <1>4, <2>1, <2>2, <2>3 DEF LogOK
<1>12. ReadingOK'
  BY <1>1 DEF ReadingOK
<1>13. RowsOK(t, View)' /\ (gaps' = 0 => OnceOK(t, Unread)')
  <2>1. RowsOK(t', View) /\ (gaps = 0 => OnceOK(t', Unread))
    BY <1>0, <1>9, <1>10 DEF Polled, Complete
  <2> QED BY <1>1, <1>4, <2>1, RowsNext, OnceNext
<1> QED
  BY <1>3, <1>9, <1>11, <1>12, <1>13 DEF TrackInv, Polled

-----------------------------------------------------------------------------

LEMMA TrackNext ==
    ASSUME TrackInv, Track!Next
    PROVE  TrackInv' /\ Stays(t, t')
<1>0. t \in Trackers
  BY DEF TrackInv, RowsOK
<1>1. CASE \/ \E s \in Slots : Track!Launch(s) \/ Track!Cancels(s) \/ Track!Works(s)
           \/ Track!Crashes \/ Track!Boots
  <2>1. TrackInv'
    BY <1>1, ServerKeeps
  <2>2. t'.rows = t.rows
    BY <1>0, <1>1 DEF Track!Launch, Track!Cancels, Track!Works, Track!Times, Track!Releases, Track!Crashes, Track!Boots,
                      Track!Starts, Track!Listens, Trackers
  <2> QED BY <2>1, <2>2, KeptRows
<1>2. CASE Track!JournalDies \/ Track!FollowStep
  <2>1. TrackInv'
    BY <1>2, JournalSteps
  <2>2. t'.rows = t.rows
    BY <1>0, <1>2 DEF Track!JournalDies, Track!FollowStep, Track!JournalDown, Track!Reattach, Track!JournalUp,
                      Track!JournalState, Track!SetJournalUp, Trackers
  <2> QED BY <2>1, <2>2, KeptRows
<1>3. CASE Track!Fetch
  <2>1. t'.rows = t.rows
    BY <1>3 DEF Track!Fetch
  <2> QED BY <1>3, <2>1, FetchKeeps, KeptRows
<1> QED
  BY <1>1, <1>2, <1>3, ReadKeeps, ApplyKeeps DEF Track!Next, Track!PollStep

LEMMA TrackProperties ==
    ASSUME TrackInv
    PROVE  Track!TypeOK /\ Track!RowsTellTheTruth
<1>0. ServerOK /\ LogOK /\ RowsOK(t, View) /\ t \in Trackers /\ (gaps = 0 => OnceOK(t, Unread))
  BY DEF TrackInv, RowsOK
<1>1. Track!TypeOK
  <2>1. server.st \in {"dead", "booting", "up"} /\ server.run \in Track!Runs
    BY <1>0 DEF ServerOK
  <2>2. \A s \in Slots : slot[s].st \in {"idle", "busy", "timed", "stopping"}
    BY <1>0 DEF ServerOK, SlotStates
  <2>3. \A r \in t.rows : r.req \in Asks /\ r.status \in Statuses
    BY <1>0, RowsAreAsks DEF ClosedRows
  <2>4. t.cancelled \subseteq Track!Tasks
    BY <1>0 DEF Trackers
  <2>5. \A s \in Slots : t.open[s].open => t.open[s].req \in Asks
    BY <1>0, RowsAreAsks
  <2> QED BY <2>1, <2>2, <2>3, <2>4, <2>5 DEF Track!TypeOK, Asks, Statuses
<1>2. \A r \in t.rows : r.sure /\ r.status \in {"done", "cancelled"} => fate[r.req] = r.status
  BY <1>0 DEF RowsOK
<1>3. ASSUME gaps = 0
      PROVE  /\ \A r \in t.rows : r.status = "interrupted" => fate[r.req] # "running"
             /\ \A r1, r2 \in t.rows : r1.req = r2.req => r1 = r2
  BY <1>0, <1>3 DEF OnceOK
<1>4. ASSUME gaps = 0, log = <<>>, NEW p \in DOMAIN fate, fate[p] \in {"done", "cancelled"}
      PROVE  \/ \E r \in t.rows : r.req = p
             \/ \E s \in Slots : t.open[s].open /\ t.open[s].req = p
  <2>1. p \in Asks /\ fate[p] # "none"
    BY <1>0, <1>4 DEF ServerOK
  <2>2. Unread = {}
    BY <1>4 DEF Unread
  <2>3. p \in RowAsks(t) \cup OpenAsks(t)
    BY <1>0, <1>4, <2>1, <2>2 DEF OnceOK
  <2> QED BY <2>3 DEF RowAsks, OpenAsks
<1> QED
  BY <1>1, <1>2, <1>3, <1>4 DEF Track!RowsTellTheTruth

-----------------------------------------------------------------------------
(* All parts, of which one moves.                                          *)

DashInv == IInv /\ TrackInv /\ FollowInv /\ StreamInv /\ HubInv /\ MemoryInv

LEMMA HistoryRests == ASSUME IInv, UNCHANGED vars PROVE IInv'
BY NextIInv

LEMMA TrackRests == ASSUME TrackInv, UNCHANGED trackVars PROVE TrackInv' /\ UNCHANGED Track!vars
<1>1. UNCHANGED <<server, slot, fate, log, attached, gaps, reading, t>>
  BY DEF trackVars
<1>2. View' = View /\ Unread' = Unread
  BY <1>1 DEF View, Unread
<1>5. ServerOK /\ LogOK /\ ReadingOK
  BY DEF TrackInv
<1>6. ServerOK' /\ ReadingOK'
  BY <1>1, <1>2, <1>5 DEF ServerOK, ReadingOK
<1>7. \A i \in 1..Len(log') : LineOK(i)'
  BY <1>1, <1>2, <1>5 DEF LogOK, LineOK
<1>3. LogOK'
  BY <1>1, <1>2, <1>5, <1>7 DEF LogOK
<1>4. RowsOK(t, View)' /\ (gaps' = 0 => OnceOK(t, Unread)')
  BY <1>1, <1>2, RowsNext, OnceNext DEF TrackInv
<1> QED
  BY <1>1, <1>3, <1>4, <1>6 DEF TrackInv, Track!vars

LEMMA FollowRests == ASSUME FollowInv, UNCHANGED followVars PROVE FollowInv'
BY DEF followVars, FollowInv, FollowTypes, OneCycle, LastUp, Reported

LEMMA StreamRests == ASSUME StreamInv, UNCHANGED streamVars PROVE StreamInv'
BY DEF streamVars, StreamInv, Stream!TypeOK, Stream!ViewersCounted

LEMMA HubRests == ASSUME HubInv, UNCHANGED hubVars PROVE HubInv'
BY DEF hubVars, HubInv

LEMMA MemoryRests == ASSUME MemoryInv, UNCHANGED memoryVars PROVE MemoryInv'
BY DEF memoryVars, MemoryInv, Memory!StoredWhereAsked

LEMMA DashInit == DashboardInit => DashInv
BY InitIInv, TrackInit, FollowInit, StreamInit, HubInit, MemoryInit DEF DashboardInit, DashInv

LEMMA DashNext == DashInv /\ [DashboardNext]_allVars => DashInv' /\ (Stays(t, t') \/ UNCHANGED Track!vars)
<1> SUFFICES ASSUME DashInv, [DashboardNext]_allVars
             PROVE  DashInv' /\ (Stays(t, t') \/ UNCHANGED Track!vars)
  OBVIOUS
<1>0. IInv /\ TrackInv /\ FollowInv /\ StreamInv /\ HubInv /\ MemoryInv
  BY DEF DashInv
<1>1. CASE Track!Next /\ UNCHANGED <<vars, followVars, streamVars, hubVars, memoryVars>>
  BY <1>0, <1>1, TrackNext, HistoryRests, FollowRests, StreamRests, HubRests, MemoryRests DEF DashInv
<1>2. CASE Next /\ UNCHANGED <<trackVars, followVars, streamVars, hubVars, memoryVars>>
  BY <1>0, <1>2, NextIInv, TrackRests, FollowRests, StreamRests, HubRests, MemoryRests DEF DashInv
<1>3. CASE Follow!Next /\ UNCHANGED <<vars, trackVars, streamVars, hubVars, memoryVars>>
  BY <1>0, <1>3, FollowNext, TrackRests, HistoryRests, StreamRests, HubRests, MemoryRests DEF DashInv
<1>4. CASE Stream!Next /\ UNCHANGED <<vars, trackVars, followVars, hubVars, memoryVars>>
  BY <1>0, <1>4, StreamNext, TrackRests, HistoryRests, FollowRests, HubRests, MemoryRests DEF DashInv
<1>5. CASE Hub!Next /\ UNCHANGED <<vars, trackVars, followVars, streamVars, memoryVars>>
  BY <1>0, <1>5, HubNext, TrackRests, HistoryRests, FollowRests, StreamRests, MemoryRests DEF DashInv
<1>6. CASE Memory!Next /\ UNCHANGED <<vars, trackVars, followVars, streamVars, hubVars>>
  BY <1>0, <1>6, MemoryNext, TrackRests, HistoryRests, FollowRests, StreamRests, HubRests DEF DashInv
<1>7. CASE UNCHANGED allVars
  <2>1. UNCHANGED <<vars, trackVars, followVars, streamVars, hubVars, memoryVars>>
    BY <1>7 DEF allVars
  <2> QED BY <1>0, <2>1, TrackRests, HistoryRests, FollowRests, StreamRests, HubRests, MemoryRests DEF DashInv
<1> QED
  BY <1>1, <1>2, <1>3, <1>4, <1>5, <1>6, <1>7
     DEF DashboardNext, InTracker, InHistory, InFollower, InStreams, InSources, InMemory

LEMMA DashHolds == DashboardSpec => []DashInv
BY DashInit, DashNext, PTL DEF DashboardSpec

\* Rows are neither lost without a word nor counted twice, and flush() is True
\* only if what was added is in the database (history.py:95-260).
THEOREM HistoryHolds == DashboardSpec => []HistoryIsHonest
<1>1. DashInv => HistoryIsHonest
  BY HonestIInv DEF DashInv
<1> QED
  BY <1>1, DashHolds, PTL

\* What the dashboard records and shows is what happened: the rows of the
\* tracker, the state of the journal and of every source, the number of viewers
\* and where a memory lies (tracker.py, collectors.py, server.py:172-198,
\* memory-vault-bridge.py).
THEOREM DashboardHolds == DashboardSpec => []ShowsWhatHappened
<1>1. DashInv => ShowsWhatHappened
  BY TrackProperties, FollowProperties, HubProperties, MemoryProperties
     DEF DashInv, ShowsWhatHappened, TypesKept, StreamInv
<1> QED
  BY <1>1, DashHolds, PTL

\* No request's row replaces another's in the history, whatever runs the chat
\* server goes through, unless a start of it was missed (tracker.py:_key).
THEOREM NoOverwriting == DashboardSpec => NoRowOverwritten
<1> DEFINE Step == t'.blind \/ t.blind \/ \A r \in t.rows : \E r2 \in t'.rows : r2.key = r.key /\ r2.req = r.req
<1>1. DashInv /\ [DashboardNext]_allVars => [Step]_(Track!vars)
  BY DashNext DEF Stays
<1>2. DashboardSpec => [][Step]_(Track!vars)
  <2> HIDE DEF Step
  <2> QED BY <1>1, DashHolds, PTL DEF DashboardSpec
<1> QED
  BY <1>2 DEF NoRowOverwritten, Track!NoRowOverwritten
===============================================================================
