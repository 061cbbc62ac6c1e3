---------------------------- MODULE ProfileSwap ----------------------------
(***************************************************************************)
(* Swapping the chat model: the router's profile guard and auto-swap       *)
(* (router-app.py), the webhook that runs the swap script one at a time    *)
(* (swap-webhook.py), the script itself (swap-chat-model.sh) and the chat  *)
(* unit it reconfigures and restarts.                                      *)
(*                                                                         *)
(* Every await of the router and every command of the script is a step of  *)
(* its own, so requests, an abandoned swap and an operator's swap          *)
(* interleave.  The chat slot a request waits for between the guard and    *)
(* the upstream call is modelled in ChatAdmission; here it is the time     *)
(* between the steps that lead to "slot" and Forward.                      *)
(***************************************************************************)
EXTENDS Integers

CONSTANTS
    Requests,
    Streams,        \* requests with stream = true: they have a wall limit
    Exempt,         \* requests for the rag-* tier (is_swap_exempt)
    Scoped,         \* requests whose key may not swap (access_keys.may_swap)
    Profiles,
    Loaded,         \* the profile loaded at first
    Wants,          \* the backends of the aliases that are requested
    Manual,         \* the profiles an operator runs the script for, if any
    Down            \* no model answers

Nobody == "nobody"

ASSUME SwapAssumption ==
    /\ Streams \subseteq Requests /\ Exempt \subseteq Requests /\ Scoped \subseteq Requests
    /\ Loaded \in Profiles /\ Wants \subseteq Profiles /\ Manual \subseteq Profiles
    /\ Down \notin Profiles /\ Nobody \notin Requests

VARIABLES
    serving, booting,       \* llama-server: what answers, what is being loaded
    unit, config,           \* the unit file in the container, config.env
    scripts,                \* the run of swap-chat-model.sh of each runner
    caller,                 \* whose POST the webhook is serving
    pc, want,               \* requests: step, backend of the alias
    seen,                   \* `active`, the answer the guard goes by, Down for None
    servedBy,
    lock,                   \* _swap_lock
    cache                   \* _active_backend_cache

host   == <<serving, booting, unit, config, scripts, caller>>
swapVars == <<host, pc, want, seen, servedBy, lock, cache>>

Runners == {"webhook", "operator"}
Models  == Profiles \cup {Down}
Holding == {"recheck", "posting", "swapping", "confirming"}
Ended   == {"served", "refused", "failed"}
Steps   == {"new", "probing", "probed", "locking", "slot"} \cup Holding \cup Ended
Idle    == [step |-> "idle", target |-> Loaded, said |-> "nothing"]

SwapTypeOK ==
    /\ serving \in Models /\ booting \in Models /\ unit \in Profiles /\ config \in Profiles
    /\ scripts \in [Runners -> [step : {"idle", "check", "provision", "restart", "wait"},
                                target : Profiles,
                                said : {"nothing", "loaded", "swapped", "error"}]]
    /\ caller \in Requests \cup {Nobody}
    /\ pc \in [Requests -> Steps] /\ want \in [Requests -> Profiles]
    /\ seen \in [Requests -> Models] /\ servedBy \in [Requests -> Models]
    /\ lock \in Requests \cup {Nobody}
    /\ cache \in [value : Profiles, fresh : BOOLEAN]

SwapInit ==
    /\ serving = Loaded /\ booting = Down /\ unit = Loaded /\ config = Loaded
    /\ scripts = [s \in Runners |-> Idle] /\ caller = Nobody
    /\ pc = [r \in Requests |-> "new"] /\ want = [r \in Requests |-> Loaded]
    /\ seen = [r \in Requests |-> Down] /\ servedBy = [r \in Requests |-> Down]
    /\ lock = Nobody
    /\ cache = [value |-> Loaded, fresh |-> FALSE]

Goto(r, step) == pc' = [pc EXCEPT ![r] = step]

\* Leaving `async with _swap_lock`.
Release(r, step) == Goto(r, step) /\ lock' = Nobody

\* Mutant of Remember: a failed probe is cached.
RememberAny(model) == cache' = [value |-> model, fresh |-> TRUE]

\* get_active_backend: a failed probe is not cached.
Remember(model) == IF model = Down THEN UNCHANGED cache
                                   ELSE cache' = [value |-> model, fresh |-> TRUE]

\* The same right after the entry was invalidated.
Refreshed == cache' = IF serving = Down THEN [cache EXCEPT !.fresh = FALSE]
                                        ELSE [value |-> serving, fresh |-> TRUE]

-----------------------------------------------------------------------------
(* chat(): the profile guard.                                              *)

Decide(r, wanted, active) ==
    /\ seen' = [seen EXCEPT ![r] = active]
    /\ Goto(r, IF active \in {Down, wanted} THEN "slot"
               ELSE IF r \in Scoped THEN "refused" ELSE "locking")

Arrive(r, w) ==
    /\ pc[r] = "new"
    /\ want' = [want EXCEPT ![r] = w]
    /\ IF r \notin Exempt /\ cache.fresh
       THEN Decide(r, w, cache.value)
       ELSE Goto(r, IF r \in Exempt THEN "slot" ELSE "probing") /\ UNCHANGED seen
    /\ UNCHANGED <<host, servedBy, lock, cache>>

\* The chat unit answers the probe, or does not; its answer is cached when it
\* has come back, by when it may be out of date.
ProbeAnswered(r) ==
    /\ pc[r] = "probing"
    /\ Goto(r, "probed")
    /\ seen' = [seen EXCEPT ![r] = serving]
    /\ UNCHANGED <<host, want, servedBy, lock, cache>>

ProbeReturns(r) ==
    /\ pc[r] = "probed"
    /\ Remember(seen[r])
    /\ Decide(r, want[r], seen[r])
    /\ UNCHANGED <<host, want, servedBy, lock>>

CacheExpires ==
    /\ cache.fresh
    /\ cache' = [cache EXCEPT !.fresh = FALSE]
    /\ UNCHANGED <<host, pc, want, seen, servedBy, lock>>

\* The request has its slot and is posted to the chat unit, whatever it serves.
Forward(r) ==
    /\ pc[r] = "slot"
    /\ Goto(r, IF serving = Down THEN "failed" ELSE "served")
    /\ servedBy' = [servedBy EXCEPT ![r] = serving]
    /\ UNCHANGED <<host, want, seen, lock, cache>>

-----------------------------------------------------------------------------
(* trigger_swap_and_wait().                                                *)

TakeSwapLock(r) ==
    /\ pc[r] = "locking" /\ lock = Nobody
    /\ lock' = r
    /\ Goto(r, "recheck")
    /\ UNCHANGED <<host, want, seen, servedBy, cache>>

Recheck(r) ==
    /\ pc[r] = "recheck"
    /\ Refreshed
    /\ IF serving = want[r] THEN Release(r, "slot") ELSE Goto(r, "posting") /\ UNCHANGED lock
    /\ UNCHANGED <<host, want, seen, servedBy>>

WebhookBusy == scripts["webhook"].step # "idle"

WebhookAccepts(r) ==
    /\ pc[r] = "posting" /\ ~WebhookBusy
    /\ scripts' = [scripts EXCEPT !["webhook"] =
                      [step |-> "check", target |-> want[r], said |-> "nothing"]]
    /\ caller' = r
    /\ Goto(r, "swapping")
    /\ UNCHANGED <<serving, booting, unit, config, want, seen, servedBy, lock, cache>>

\* 409 while another swap runs, or the webhook cannot be reached.
WebhookRefuses(r) ==
    /\ pc[r] = "posting"
    /\ Release(r, "failed")
    /\ UNCHANGED <<host, want, seen, servedBy, cache>>

\* Mutant of Confirm: the webhook's 200 is believed.
ConfirmBlindly(r) ==
    /\ pc[r] = "confirming"
    /\ Refreshed
    /\ Release(r, "slot")
    /\ UNCHANGED <<host, want, seen, servedBy>>

\* The poll after a 200; refresh_capacity_once is ChatAdmission's FetchSlots.
Confirm(r) ==
    /\ pc[r] = "confirming"
    /\ Refreshed
    /\ Release(r, IF serving = want[r] THEN "slot" ELSE "failed")
    /\ UNCHANGED <<host, want, seen, servedBy>>

\* Mutant of GiveUp: the lock is not released on the way out.
GiveUpLocked(r) ==
    /\ \/ pc[r] = "swapping"
       \/ r \in Streams /\ pc[r] \in Holding \cup {"locking"}
    /\ Goto(r, "failed")
    /\ caller' = IF caller = r THEN Nobody ELSE caller
    /\ UNCHANGED <<serving, booting, unit, config, scripts, want, seen, servedBy, lock, cache>>

\* The read timeout of the POST ends the wait for the webhook, the wall limit
\* of a stream any wait; the script of the webhook goes on.
GiveUp(r) ==
    /\ \/ pc[r] = "swapping"
       \/ r \in Streams /\ pc[r] \in Holding \cup {"locking"}
    /\ Goto(r, "failed")
    /\ lock' = IF lock = r THEN Nobody ELSE lock
    /\ caller' = IF caller = r THEN Nobody ELSE caller
    /\ UNCHANGED <<serving, booting, unit, config, scripts, want, seen, servedBy, cache>>

-----------------------------------------------------------------------------
(* swap-chat-model.sh, run by the webhook or an operator.                  *)

\* The script ends; the webhook answers 200 or 500 if anyone still waits.
Exit(s, said) ==
    /\ scripts' = [scripts EXCEPT ![s].step = "idle", ![s].said = said]
    /\ IF s = "webhook" /\ caller # Nobody
       THEN /\ caller' = Nobody
            /\ IF said = "error" THEN Release(caller, "failed")
                                 ELSE Goto(caller, "confirming") /\ UNCHANGED lock
       ELSE UNCHANGED <<caller, pc, lock>>

Step(s, step) ==
    /\ scripts' = [scripts EXCEPT ![s].step = step]
    /\ UNCHANGED <<caller, pc, lock>>

\* An operator starts a swap; --force skips the idempotency check.
OperatorRuns(p) ==
    /\ p \in Manual /\ scripts["operator"].step = "idle"
    /\ \E step \in {"check", "provision"} :
          scripts' = [scripts EXCEPT !["operator"] = [step |-> step, target |-> p, said |-> "nothing"]]
    /\ UNCHANGED <<serving, booting, unit, config, caller, pc, want, seen, servedBy, lock, cache>>

\* Mutant of ScriptChecks: the loaded profile is provisioned again.
ScriptSkipsCheck(s) ==
    /\ scripts[s].step = "check"
    /\ Step(s, "provision")
    /\ UNCHANGED <<serving, booting, unit, config, want, seen, servedBy, cache>>

\* detect_current_hfrepo reads the unit file.
ScriptChecks(s) ==
    /\ scripts[s].step = "check"
    /\ IF unit = scripts[s].target THEN Exit(s, "loaded") ELSE Step(s, "provision")
    /\ UNCHANGED <<serving, booting, unit, config, want, seen, servedBy, cache>>

\* config.env is rewritten; 51-lxc-amd.sh makes the unit file from it or fails.
ScriptProvisions(s) ==
    /\ scripts[s].step = "provision"
    /\ config' = scripts[s].target
    /\ \/ /\ unit' = config'
          /\ Step(s, "restart")
       \/ /\ UNCHANGED unit
          /\ Exit(s, "error")
    /\ UNCHANGED <<serving, booting, want, seen, servedBy, cache>>

ScriptRestarts(s) ==
    /\ scripts[s].step = "restart"
    /\ serving' = Down /\ booting' = unit
    /\ Step(s, "wait")
    /\ UNCHANGED <<unit, config, want, seen, servedBy, cache>>

\* systemctl says "active", which can be before the model answers.
ScriptSeesActive(s) ==
    /\ scripts[s].step = "wait"
    /\ serving # Down \/ booting # Down
    /\ Exit(s, "swapped")
    /\ UNCHANGED <<serving, booting, unit, config, want, seen, servedBy, cache>>

\* It reports a failed unit or a timeout, or is killed at any step (by the
\* webhook's timeout, or a signal).
ScriptFails(s) ==
    /\ scripts[s].step # "idle"
    /\ Exit(s, "error")
    /\ UNCHANGED <<serving, booting, unit, config, want, seen, servedBy, cache>>

-----------------------------------------------------------------------------
(* The chat unit under systemd (Restart=on-failure).                       *)

BootEnds ==
    /\ booting # Down
    /\ \/ serving' = booting
       \/ UNCHANGED serving
    /\ booting' = Down
    /\ UNCHANGED <<unit, config, scripts, caller, pc, want, seen, servedBy, lock, cache>>

UnitCrashes ==
    /\ serving # Down
    /\ serving' = Down /\ booting' = unit
    /\ UNCHANGED <<unit, config, scripts, caller, pc, want, seen, servedBy, lock, cache>>

-----------------------------------------------------------------------------
RequestStep(r) ==
    \/ ProbeAnswered(r) \/ ProbeReturns(r) \/ TakeSwapLock(r) \/ Recheck(r)
    \/ WebhookAccepts(r) \/ WebhookRefuses(r) \/ Confirm(r) \/ GiveUp(r) \/ Forward(r)

ScriptStep(s) ==
    \/ ScriptChecks(s) \/ ScriptProvisions(s) \/ ScriptRestarts(s)
    \/ ScriptSeesActive(s) \/ ScriptFails(s)

SwapNext ==
    \/ \E r \in Requests, w \in Wants : Arrive(r, w)
    \/ \E r \in Requests : RequestStep(r)
    \/ CacheExpires
    \/ \E p \in Profiles : OperatorRuns(p)
    \/ \E s \in Runners : ScriptStep(s)
    \/ BootEnds \/ UnitCrashes

SwapSpec == SwapInit /\ [][SwapNext]_swapVars

\* Every wait of the router has a timeout except the one for the swap lock,
\* which is taken when it is free.
SwapFairSpec == SwapSpec /\ \A r \in Requests : WF_swapVars(RequestStep(r))

-----------------------------------------------------------------------------
(* Properties.                                                             *)

\* The swap lock is held by exactly the request that is inside its block, on
\* every way out of trigger_swap_and_wait, cancellation included.
SwapLockNotLeaked ==
    /\ \A r \in Requests : lock = r <=> pc[r] \in Holding
    /\ caller # Nobody => pc[caller] = "swapping"

\* A request is answered by the model of its alias, unless the guard failed
\* open: one whose backend is not loaded "gets a fast 409 (before the chat
\* slot) instead of being silently served by the wrong model" (chat(), the
\* profile guard).
ServedByWanted ==
    \A r \in Requests \ Exempt :
        pc[r] = "served" /\ seen[r] # Down => servedBy[r] = want[r]

\* While only one profile is asked for, no swap is started when its model
\* already answers (the re-check under the lock, the idempotency check).
NoNeedlessSwap ==
    [][scripts["webhook"].step = "check" /\ scripts'["webhook"].step = "provision"
          => serving # scripts["webhook"].target]_swapVars

\* Every request is answered: by the model, with a refusal or with an error.
EveryRequestEnds == \A r \in Requests : pc[r] # "new" ~> pc[r] \in Ended
=============================================================================
