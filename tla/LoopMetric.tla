------------------------------- MODULE LoopMetric -------------------------------
(***************************************************************************)
(* The loop metric over a session's tool calls                             *)
(* (scripts/tools/workforce/loops.py): one left-to-right scan, checked     *)
(* against what a loop episode is.  A call is its key.                     *)
(***************************************************************************)
EXTENDS Integers, Sequences

CONSTANTS
    Sessions,       \* the sequences of keys looked at
    MinReps,        \* MIN_REPS
    MaxPeriod       \* MAX_PERIOD

VARIABLES
    keys,
    i,              \* where the scan stands, from 1
    out             \* episodes: [start, length, period]

vars == <<keys, i, out>>

TypeOK ==
    /\ keys \in Sessions /\ i \in 1..Len(keys) + 1
    /\ \A n \in DOMAIN out : out[n] \in [start : 1..Len(keys), length : 1..Len(keys), period : 1..MaxPeriod]

Init == keys \in Sessions /\ i = 1 /\ out = <<>>

\* keys[a : a + p], shorter at the end, as Python slices it.
Slice(a, p) == SubSeq(keys, a, IF a + p - 1 <= Len(keys) THEN a + p - 1 ELSE Len(keys))

\* _reps: how often the block at j is repeated, up to the first other one.
Same(j, n, p) == Slice(j + n * p, p) = Slice(j, p)
Reps(j, p) == CHOOSE n \in 1..Len(keys) : ~Same(j, n, p) /\ \A m \in 1..n - 1 : Same(j, m, p)

Repeats(j, p) == j + p - 1 <= Len(keys) /\ Reps(j, p) >= MinReps

\* episodes(): the shortest period that repeats here is the episode, and the
\* scan goes on after it.
Found(p) ==
    /\ Repeats(i, p) /\ \A q \in 1..p - 1 : ~Repeats(i, q)
    /\ out' = Append(out, [start |-> i, length |-> Reps(i, p) * p, period |-> p])
    /\ i' = i + Reps(i, p) * p
Scan ==
    /\ i <= Len(keys) /\ UNCHANGED keys
    /\ \/ \E p \in 1..MaxPeriod : Found(p)
       \/ (\A p \in 1..MaxPeriod : ~Repeats(i, p)) /\ i' = i + 1 /\ UNCHANGED out

Next == Scan
Spec == Init /\ [][Next]_vars

-----------------------------------------------------------------------------
\* The definition the metric scans for: MinReps times the same block.
IsLoop(a, p) ==
    /\ a + MinReps * p - 1 <= Len(keys)
    /\ \A k \in 0..(MinReps - 1) * p - 1 : keys[a + k] = keys[a + k + p]
Covered(x) == \E n \in DOMAIN out : x \in out[n].start..out[n].start + out[n].length - 1

\* episodes() finds a loop where there is one and only there: every episode is
\* one, they do not overlap, and no block repeated MinReps times is outside all
\* of them.
LoopsAreFound ==
    /\ \A n \in DOMAIN out :
          /\ IsLoop(out[n].start, out[n].period)
          /\ out[n].start + out[n].length <= IF n = Len(out) THEN i ELSE out[n + 1].start
    /\ \A a \in 1..Len(keys), p \in 1..MaxPeriod :
          (IsLoop(a, p) /\ a + MinReps * p - 1 < i) =>
              \E x \in a..a + MinReps * p - 1 : Covered(x)
===============================================================================
