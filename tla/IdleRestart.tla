------------------------------ MODULE IdleRestart ------------------------------
(***************************************************************************)
(* chat-restart-if-idle.sh: a timer's job that restarts the chat server    *)
(* when nobody uses it, or when it no longer answers.  It reads /slots and *)
(* then the router's /healthz, and acts on both answers; between its steps *)
(* requests arrive and end, and the server and the router go their way.    *)
(***************************************************************************)
EXTENDS Integers

VARIABLES
    unit,     \* llamacpp-chat: "up", "fresh" (up, below MIN_UPTIME), "down"
    server,   \* how it answers /slots: "well", "error" or "silent"
    gen,      \* the chat request: "none", "queued" in the router, "running",
              \* or "between" two turns of the router's tool loop
    unseen,   \* the script cannot know of it: it arrived after the last look, or was
              \* between two turns, its loop longer than IDLE_MIN, when the slots were read
    quiet,    \* seconds_since_chat: "short", "long" (IDLE_MIN), or "null"
    armed,    \* the stamp is younger than MIN_INTERVAL
    at,       \* the script's next step, or "idle"
    reason,   \* why it restarts: "wedged" or "quiet"
    cut       \* what the last restart interrupted: [gen, unseen, reason]

vars == <<unit, server, gen, unseen, quiet, armed, at, reason, cut>>

Nothing == [gen |-> "none", unseen |-> FALSE, reason |-> "quiet"]

Init ==
    /\ unit = "up" /\ server = "well" /\ gen = "none" /\ unseen = FALSE /\ quiet = "null"
    /\ armed = FALSE /\ at = "idle" /\ reason = "quiet" /\ cut = Nothing

-------------------------------------------------------------------------------
(* Requests, the chat server, the router, the clock.                       *)

scriptVars == <<armed, at, reason, cut>>

\* chat(): the time is taken when the request arrives, before it has a slot.
Arrives ==
    /\ gen = "none"
    /\ gen' = "queued" /\ quiet' = "short" /\ unseen' = (at = "restart")
    /\ UNCHANGED <<unit, server, scriptVars>>

\* A turn begins, and ends with the answer or with tool calls for the router.
Generates ==
    /\ gen \in {"queued", "between"} /\ unit # "down"
    /\ gen' = "running"
    /\ UNCHANGED <<unit, server, unseen, quiet, scriptVars>>
TurnEnds ==
    /\ gen = "running"
    /\ gen' \in {"none", "between"} /\ unseen' = (unseen /\ gen' # "none")
    /\ UNCHANGED <<unit, server, quiet, scriptVars>>

\* A request that waits for no other one has its slot well before IDLE_MIN.
TimePasses ==
    /\ \/ quiet = "short" /\ gen # "queued" /\ at = "idle" /\ quiet' = "long" /\ UNCHANGED <<unit, armed>>
       \/ unit = "fresh" /\ unit' = "up" /\ UNCHANGED <<quiet, armed>>
       \/ armed /\ at = "idle" /\ armed' = FALSE /\ UNCHANGED <<unit, quiet>>
    /\ UNCHANGED <<server, gen, unseen, at, reason, cut>>

\* A key is rotated, the server wedges or is stuck in a long prefill, recovers.
ServerTurns ==
    /\ server' \in {"well", "error", "silent"} \ {server}
    /\ UNCHANGED <<unit, gen, unseen, quiet, scriptVars>>

\* Its requests are gone with it.
RouterRestarts ==
    /\ gen' = "none" /\ unseen' = FALSE /\ quiet' = "null"
    /\ UNCHANGED <<unit, server, scriptVars>>

\* The new process is ready.
UnitComesUp ==
    /\ unit = "down"
    /\ unit' = "fresh" /\ server' = "well"
    /\ UNCHANGED <<gen, unseen, quiet, scriptVars>>

-------------------------------------------------------------------------------
(* The script.                                                             *)

worldVars == <<unit, server, gen, unseen, quiet>>

Goes(step)  == at' = step /\ UNCHANGED <<worldVars, armed, cut>>
Skips       == Goes("idle") /\ UNCHANGED reason
Acts(why)   == Goes("restart") /\ reason' = why

\* Rate limit, unit active, unit settled.
Starts ==
    /\ at = "idle" /\ ~armed /\ unit = "up"
    /\ Goes("probe") /\ UNCHANGED reason

\* The session is not asked about, for comparison.
SlotsDecide ==
    /\ at \in {"probe", "again"}
    /\ \/ server = "silent" /\ IF at = "probe" THEN Goes("again") /\ UNCHANGED reason ELSE Acts("wedged")
       \/ server = "error" /\ Skips
       \/ server = "well" /\ IF gen = "running" THEN Skips ELSE Acts("quiet")

\* /slots: any HTTP status proves the server alive; only a second silence does
\* not, and only 200 with no slot processing is looked into further.
ReadsSlots ==
    /\ at \in {"probe", "again"}
    /\ \/ server = "silent" /\ IF at = "probe" THEN Goes("again") /\ UNCHANGED reason ELSE Acts("wedged")
       \/ server = "error" /\ Skips
       \/ server = "well" /\ gen = "running" /\ Skips
       \/ /\ server = "well" /\ gen # "running"
          /\ at' = "health" /\ unseen' = (gen = "between" /\ quiet = "long")
          /\ UNCHANGED <<unit, server, gen, quiet, armed, reason, cut>>

\* /healthz, which may not answer.
ReadsHealth ==
    /\ at = "health"
    /\ Skips \/ (quiet = "long" /\ Acts("quiet"))

\* systemctl --no-block restart: what runs is cut off.
Restarts ==
    /\ at = "restart"
    /\ unit' = "down" /\ at' = "confirm"
    /\ cut' = [gen |-> gen, unseen |-> unseen, reason |-> reason]
    /\ gen' = "none" /\ unseen' = FALSE
    /\ UNCHANGED <<server, quiet, armed, reason>>

\* Active and running again within CONFIRM_TIMEOUT, or the stamp is not written.
Confirms ==
    /\ at = "confirm"
    /\ at' = "idle" /\ armed' = (unit # "down")
    /\ UNCHANGED <<worldVars, reason, cut>>

Next ==
    \/ Arrives \/ Generates \/ TurnEnds \/ TimePasses \/ ServerTurns \/ RouterRestarts \/ UnitComesUp
    \/ Starts \/ ReadsSlots \/ ReadsHealth \/ Restarts \/ Confirms

-------------------------------------------------------------------------------
TypeOK ==
    /\ unit \in {"up", "fresh", "down"} /\ server \in {"well", "error", "silent"}
    /\ gen \in {"none", "queued", "running", "between"} /\ quiet \in {"short", "long", "null"}
    /\ at \in {"idle", "probe", "again", "health", "restart", "confirm"}
    /\ reason \in {"wedged", "quiet"} /\ {unseen, armed} \subseteq BOOLEAN

\* A restart for quiet interrupts no request the script could know of ("never
\* interrupt generation"): it had arrived at the last look, and was not in a
\* tool loop longer than IDLE_MIN, idle for the moment, when the slots were read.
NothingLiveIsCut ==
    cut.gen # "none" /\ cut.reason = "quiet" => cut.unseen
===============================================================================
