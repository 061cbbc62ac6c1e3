------------------------------ MODULE RunWindow ------------------------------
(***************************************************************************)
(* wf-window.sh: the host is held still while a workforce run is measured, *)
(* and put back as it was; runmeta.validity judges the run by the stamps   *)
(* taken before and after it.                                              *)
(*                                                                         *)
(* Three units stand for the lists: "restart" (AMD_UNITS) is a timer whose *)
(* job restarts chat and is not in BUSY_UNITS, "refresh" (HOST_UNITS) one  *)
(* whose job is, "embed" (RAG_UNITS) serves and is needed in the window.   *)
(***************************************************************************)
EXTENDS Integers

CONSTANTS
    Enabled,    \* the units a boot of the host starts
    MaxChat     \* bound: invocations of the chat server and of the host

VARIABLES
    on,         \* the active units
    jobs,       \* the timers whose job runs
    chat,       \* InvocationID of the chat server; a boot of the host changes it too
    saved,      \* $STATE: what open found of each unit, NoState without
    at,         \* the step open or close is about to take, or "idle"
    opened,     \* history: open succeeded, and nothing ended the window since
    found,      \* history: the units that were active before open touched them, as
                \* far as it could read that
    before,     \* the first stamp: [chat, open], NoStamp without; and whether the
                \* window was opened then and has been since (history)
    disturbed,  \* history: a job ran or chat restarted since the first stamp
    run         \* what runmeta makes of the run measured last, and what happened in it

windowVars == <<saved, opened, found>>
stampVars  == <<before, disturbed, run>>
vars == <<on, jobs, chat, windowVars, at, stampVars>>

Units      == {"restart", "refresh", "embed"}
Perturbers == {"restart", "refresh"}
InGuest    == {"restart", "embed"}
NoState    == [u \in Units |-> "none"]
NoStamp    == [chat |-> 0, open |-> FALSE, steady |-> FALSE]

Init ==
    /\ on \in SUBSET Units /\ found = on
    /\ jobs = {} /\ chat = 1 /\ saved = NoState /\ at = "idle" /\ opened = FALSE
    /\ before = NoStamp /\ disturbed = FALSE
    /\ run = [valid |-> FALSE, steady |-> FALSE, disturbed |-> FALSE]

-------------------------------------------------------------------------------
(* The host: timers, their jobs, the owner, a boot.                        *)

TimerFires(u) ==
    /\ u \in (on \cap Perturbers) \ jobs
    /\ jobs' = jobs \cup {u} /\ disturbed' = (disturbed \/ (before # NoStamp /\ u = "refresh"))
    /\ UNCHANGED <<on, chat, windowVars, at, before, run>>

JobEnds(u) ==
    /\ u \in jobs
    /\ jobs' = jobs \ {u}
    /\ UNCHANGED <<on, windowVars, at, before, run>>
    /\ \/ UNCHANGED <<chat, disturbed>>
       \/ u = "restart" /\ chat < MaxChat /\ chat' = chat + 1 /\ disturbed' = (before # NoStamp)

OwnerSets ==
    /\ saved = NoState /\ at = "idle"
    /\ on' \in SUBSET Units /\ found' = on'
    /\ UNCHANGED <<jobs, chat, saved, at, opened, stampVars>>

\* $STATE is on disk.
Boots ==
    /\ chat < MaxChat
    /\ chat' = chat + 1 /\ on' = Enabled /\ jobs' = {} /\ at' = "idle" /\ opened' = FALSE
    /\ found' = IF saved = NoState THEN Enabled ELSE found
    /\ disturbed' = (before # NoStamp) /\ before' = [before EXCEPT !.steady = FALSE]
    /\ UNCHANGED <<saved, run>>

-------------------------------------------------------------------------------
(* open                                                                    *)

Steps(from, to) == at = from /\ at' = to /\ UNCHANGED <<chat, jobs, stampVars>>

\* No window, the production layout, no redteam mode, no busy job.
Open ==
    /\ saved = NoState /\ "refresh" \notin jobs
    /\ Steps("idle", "save") /\ UNCHANGED <<on, windowVars>>

\* A read of the guest that fails leaves '', and the unit stopped at close.
Found(missed) == [u \in Units |-> IF u \in missed THEN "" ELSE IF u \in on THEN "active" ELSE "inactive"]
Save ==
    /\ \E missed \in SUBSET InGuest : saved' = Found(missed) /\ found' = on \ missed
    /\ Steps("save", "stop") /\ UNCHANGED <<on, opened>>

\* What could not be stopped (|| true) is left to the check.
StopPerturbers ==
    /\ on' \in {on \ Perturbers, on \ {"refresh"}}
    /\ Steps("stop", "check") /\ UNCHANGED windowVars

\* The jobs are not looked at again, for comparison.
CheckTimers ==
    /\ \/ Steps("check", "idle") /\ UNCHANGED <<on, opened>>
       \/ /\ Steps("check", "idle") /\ "refresh" \notin on
          /\ on' = on \cup {"embed"} /\ opened' \in BOOLEAN
    /\ UNCHANGED <<saved, found>>

\* Refused while one is active; a guest's unit that cannot be read passes.
\* Then embed and rerank are started, and must be loaded within WAIT_S.
Check ==
    /\ \/ /\ Steps("check", "idle") /\ (on \cap Perturbers) \cup (jobs \cap {"refresh"}) # {}
          /\ UNCHANGED <<on, opened>>
       \/ /\ Steps("check", "idle") /\ "refresh" \notin on \cup jobs
          /\ on' = on \cup {"embed"} /\ opened' \in BOOLEAN
    /\ UNCHANGED <<saved, found>>

-------------------------------------------------------------------------------
(* close                                                                   *)

Close ==
    /\ saved # NoState
    /\ at = "idle" /\ at' = "guest"
    /\ opened' = FALSE /\ before' = [before EXCEPT !.steady = FALSE]
    /\ UNCHANGED <<on, chat, jobs, saved, found, disturbed, run>>

Wanted(there) == {u \in there : saved[u] = "active"}

\* What was found running is started, the rest not stopped, for comparison.
RestoreRunning ==
    /\ on' = on \cup Wanted(InGuest)
    /\ Steps("guest", "host") /\ UNCHANGED windowVars

RestoreGuest ==
    /\ on' = (on \ InGuest) \cup Wanted(InGuest)
    /\ Steps("guest", "host") /\ UNCHANGED windowVars
RestoreHost ==
    /\ on' = (on \ (Units \ InGuest)) \cup Wanted(Units \ InGuest)
    /\ Steps("host", "wait") /\ UNCHANGED windowVars

\* The capacity open found is back: $STATE is moved away.
Closed ==
    /\ saved' = NoState
    /\ Steps("wait", "idle") /\ UNCHANGED <<on, opened, found>>

\* A start that fails, a wait that is too long, a Ctrl-C: the script ends where
\* it is, $STATE stays.
Ends ==
    /\ at # "idle"
    /\ \/ UNCHANGED on
       \/ at = "guest" /\ \E done \in SUBSET Wanted(InGuest) : on' = (on \ InGuest) \cup done
    /\ Steps(at, "idle") /\ UNCHANGED windowVars

-------------------------------------------------------------------------------
(* stamp; validity                                                         *)

StampBefore ==
    /\ at = "idle"
    /\ before' = [chat |-> chat, open |-> saved # NoState, steady |-> opened]
    /\ disturbed' = (jobs \cap {"refresh"} # {})
    /\ UNCHANGED <<on, jobs, chat, windowVars, at, run>>

StampAfter ==
    /\ before # NoStamp /\ at = "idle"
    /\ run' = [valid |-> before.chat = chat /\ before.open /\ saved # NoState,
               steady |-> before.steady, disturbed |-> disturbed]
    /\ before' = NoStamp /\ disturbed' = FALSE
    /\ UNCHANGED <<on, jobs, chat, windowVars, at>>

Next ==
    \/ \E u \in Perturbers : TimerFires(u) \/ JobEnds(u)
    \/ OwnerSets \/ Boots
    \/ Open \/ Save \/ StopPerturbers \/ Check
    \/ Close \/ RestoreGuest \/ RestoreHost \/ Closed \/ Ends
    \/ StampBefore \/ StampAfter

-------------------------------------------------------------------------------
TypeOK ==
    /\ on \subseteq Units /\ jobs \subseteq Perturbers /\ chat \in 1..MaxChat
    /\ saved \in {NoState} \cup [Units -> {"active", "inactive", ""}]
    /\ at \in {"idle", "save", "stop", "check", "guest", "host", "wait"}
    /\ found \subseteq Units /\ opened \in BOOLEAN /\ disturbed \in BOOLEAN
    /\ before \in [chat : 0..MaxChat, open : BOOLEAN, steady : BOOLEAN]
    /\ run \in [valid : BOOLEAN, steady : BOOLEAN, disturbed : BOOLEAN]

\* Outside a window every unit is as open found it, whatever step open or close
\* broke off at and whether or not the host was booted in between ("put back
\* exactly what open found"), one it could not read counting as stopped.
PutBack == saved = NoState /\ at = "idle" => on = found

\* A run runmeta calls valid, measured in one window that was opened, had no
\* job of a perturber beside it and no restart of chat in it.
ValidIsUndisturbed == run.valid /\ run.steady => ~run.disturbed
===============================================================================
