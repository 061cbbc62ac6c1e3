---------------------------- MODULE ChatAdmission ----------------------------
(***************************************************************************)
(* Admission of chat requests in the LLM router.                           *)
(*                                                                         *)
(* One AdmissionGate (stream_admission.py) counts the requests inside the  *)
(* chat server.  Requests made with a scoped (workforce) key first pass a  *)
(* ReservedLane (workforce_lane.py) of capacity `cap - ReservedSlots`, so  *)
(* that the owner keeps the last slots.  The gate's capacity follows the   *)
(* slot count the chat server reports, read by a background loop and by    *)
(* whoever has just finished a profile swap (router-app.py).               *)
(*                                                                         *)
(* The router is one asyncio event loop: a step below is what runs between *)
(* two awaits that really suspend.  Each request is two coroutines, the    *)
(* response body (hold_slot) and the task that runs gate.acquire(); the    *)
(* client may leave at any await of the first.                             *)
(***************************************************************************)
EXTENDS Integers, FiniteSets

CONSTANTS
    Owner,          \* requests made with the owner's key: chat gate only
    ScopedChats,    \* requests made with a scoped key: lane, then chat gate
    ReservedSlots,  \* RESERVED_SLOTS
    InitCap,        \* CHAT_CONCURRENCY, the capacity before the first refresh
    SlotCounts,     \* the slot counts the chat server can run with
    Loop,           \* the background refresh loop
    Refreshers      \* every coroutine that runs refresh_capacity_once

ChatRequests == Owner \cup ScopedChats

NoAnswer    == 0      \* what a fetch from a stopped or loading server yields
NotFetching == -1

ASSUME AdmissionAssumption ==
    /\ IsFiniteSet(Owner) /\ IsFiniteSet(ScopedChats)
    /\ Owner \cap ScopedChats = {}
    /\ ReservedSlots \in Nat
    /\ InitCap \in Nat \ {0}
    /\ SlotCounts \subseteq Nat \ {0}
    /\ Loop \in Refreshers

VARIABLES
    cap,          \* AdmissionGate._cap
    chatUse,      \* AdmissionGate._in_use
    asleep,       \* the acquirers in the wait list of AdmissionGate._cond
    laneUse,      \* ReservedLane._in_use
    acq,          \* where the coroutine that runs gate.acquire() stands
    body,         \* where the response body (hold_slot) stands
    server,       \* the chat server's total_slots, NoAnswer while it restarts
    fetched       \* per refresher, the slot count it has read but not applied

gateVars      == <<cap, chatUse, asleep>>
requestVars   == <<acq, body>>
serverVars    == <<server, fetched>>
admissionVars == <<cap, chatUse, asleep, laneUse, acq, body, server, fetched>>

(* acq:  "lane"        waiting in ReservedLane.acquire                     *)
(*       "chat"        waiting in AdmissionGate.acquire                    *)
(*       "granted"     acquire() returned                                  *)
(*       "release"     inside release(), nothing given back yet            *)
(*       "releaseLane" only the lane slot is left to give back             *)
(*       "ended"       holds nothing any more                              *)
AcqStates  == {"idle", "lane", "chat", "granted", "release", "releaseLane", "ended"}
BodyStates == {"idle", "waiting", "streaming", "closed", "refused"}

AdmissionTypeOK ==
    /\ cap \in Nat \ {0}
    /\ chatUse \in Nat
    /\ laneUse \in Nat
    /\ asleep \subseteq ChatRequests
    /\ acq \in [ChatRequests -> AcqStates]
    /\ body \in [ChatRequests -> BodyStates]
    /\ server \in SlotCounts \cup {NoAnswer}
    /\ fetched \in [Refreshers -> SlotCounts \cup {NoAnswer, NotFetching}]

AdmissionInit ==
    /\ cap = InitCap
    /\ chatUse = 0
    /\ laneUse = 0
    /\ asleep = {}
    /\ acq = [r \in ChatRequests |-> "idle"]
    /\ body = [r \in ChatRequests |-> "idle"]
    /\ server \in SlotCounts
    /\ fetched = [f \in Refreshers |-> NotFetching]

-----------------------------------------------------------------------------
\* ReservedLane.capacity
LaneCap == IF cap > ReservedSlots THEN cap - ReservedSlots ELSE 0

\* Who holds a slot of the chat gate and of the lane, read off the coroutines.
ChatHolders == {r \in ChatRequests : acq[r] \in {"granted", "release"}}
LaneHolders == {r \in ScopedChats : acq[r] \in {"chat", "granted", "release", "releaseLane"}}

\* The scoped requests that were admitted and are being served.
Admitted(r)    == acq[r] = "granted"
ScopedAdmitted == {r \in ScopedChats : Admitted(r)}

-----------------------------------------------------------------------------
(* The request and its response body.                                      *)

\* chat(): gate_for picks the gate; a scoped request is refused at once while
\* the lane is closed.  The body then starts the acquire task.
ChatArrives(r) ==
    /\ body[r] = "idle"
    /\ IF r \in ScopedChats /\ LaneCap = 0
       THEN /\ body' = [body EXCEPT ![r] = "refused"]
            /\ UNCHANGED acq
       ELSE /\ body' = [body EXCEPT ![r] = "waiting"]
            /\ acq' = [acq EXCEPT ![r] = IF r \in ScopedChats THEN "lane" ELSE "chat"]
    /\ UNCHANGED <<gateVars, laneUse, serverVars>>

\* hold_slot sees its acquire task done and starts to stream.
StartBody(r) ==
    /\ body[r] = "waiting"
    /\ acq[r] = "granted"
    /\ body' = [body EXCEPT ![r] = "streaming"]
    /\ UNCHANGED <<gateVars, laneUse, acq, serverVars>>

\* hold_slot sees that its acquire task raised LaneClosed.
RefuseBody(r) ==
    /\ body[r] = "waiting"
    /\ acq[r] = "ended"
    /\ body' = [body EXCEPT ![r] = "refused"]
    /\ UNCHANGED <<gateVars, laneUse, acq, serverVars>>

\* The stream ends: finished, upstream error, time limit or client gone.
EndBody(r) ==
    /\ body[r] = "streaming"
    /\ body' = [body EXCEPT ![r] = "closed"]
    /\ acq' = [acq EXCEPT ![r] = "release"]
    /\ UNCHANGED <<gateVars, laneUse, serverVars>>

\* Mutants of AfterGiveUp: a waiter is released as if it had been granted, the
\* grant that raced the disconnect is dropped, the lane slot is forgotten.
ReleaseUngranted(r) == IF acq[r] \in {"granted", "chat"} THEN "release"
                       ELSE IF acq[r] = "lane" THEN "ended" ELSE acq[r]
DropRacedGrant(r)   == IF acq[r] = "chat" /\ r \in ScopedChats THEN "releaseLane"
                       ELSE IF acq[r] \in {"granted", "lane", "chat"} THEN "ended" ELSE acq[r]
ForgetLane(r)       == IF acq[r] = "granted" THEN "release"
                       ELSE IF acq[r] \in {"lane", "chat"} THEN "ended" ELSE acq[r]

\* What hold_slot's `finally` does with an acquire task it no longer waits for:
\* a grant that raced the disconnect is released, a waiter is cancelled (a
\* scoped one that is past the lane then gives its lane slot back), and an
\* acquire that is already releasing or over goes on by itself.
AfterGiveUp(r) ==
    CASE acq[r] = "granted"                   -> "release"
      [] acq[r] = "chat" /\ r \in ScopedChats -> "releaseLane"
      [] acq[r] = "chat" /\ r \in Owner       -> "ended"
      [] acq[r] = "lane"                      -> "ended"
      [] OTHER                                -> acq[r]

\* The client leaves while its request is queued.
ChatGivesUp(r) ==
    /\ body[r] = "waiting"
    /\ body' = [body EXCEPT ![r] = "closed"]
    /\ acq' = [acq EXCEPT ![r] = AfterGiveUp(r)]
    /\ asleep' = asleep \ {r}
    /\ UNCHANGED <<cap, chatUse, laneUse, serverVars>>

-----------------------------------------------------------------------------
(* The two gates.                                                          *)

\* ReservedLane.acquire finds room.
EnterLane(r) ==
    /\ acq[r] = "lane"
    /\ laneUse < LaneCap
    /\ laneUse' = laneUse + 1
    /\ acq' = [acq EXCEPT ![r] = "chat"]
    /\ UNCHANGED <<gateVars, body, serverVars>>

\* ReservedLane.acquire polls and finds that the layout closed the lane.
LaneClosed(r) ==
    /\ acq[r] = "lane"
    /\ LaneCap = 0
    /\ acq' = [acq EXCEPT ![r] = "ended"]
    /\ UNCHANGED <<gateVars, laneUse, body, serverVars>>

\* Mutants of EnterChat: no second look at the lane; one slot too many.
EnterChatUnchecked(r) ==
    /\ acq[r] = "chat" /\ r \notin asleep
    /\ chatUse < cap
    /\ chatUse' = chatUse + 1
    /\ acq' = [acq EXCEPT ![r] = "granted"]
    /\ UNCHANGED <<cap, asleep, laneUse, body, serverVars>>
EnterFullChat(r) ==
    /\ acq[r] = "chat" /\ r \notin asleep
    /\ chatUse <= cap
    /\ chatUse' = chatUse + 1
    /\ acq' = [acq EXCEPT ![r] = IF r \in ScopedChats /\ laneUse > LaneCap
                                 THEN "release" ELSE "granted"]
    /\ UNCHANGED <<cap, asleep, laneUse, body, serverVars>>

\* AdmissionGate.acquire finds room.  A scoped request looks at the lane again
\* in the same step: if the layout shrank below its share it gives both slots
\* back and is refused.
EnterChat(r) ==
    /\ acq[r] = "chat"
    /\ r \notin asleep
    /\ chatUse < cap
    /\ chatUse' = chatUse + 1
    /\ acq' = [acq EXCEPT ![r] = IF r \in ScopedChats /\ laneUse > LaneCap
                                 THEN "release" ELSE "granted"]
    /\ UNCHANGED <<cap, asleep, laneUse, body, serverVars>>

\* AdmissionGate.acquire finds the gate full and waits on the condition.
SleepOnChat(r) ==
    /\ acq[r] = "chat"
    /\ r \notin asleep
    /\ chatUse >= cap
    /\ asleep' = asleep \cup {r}
    /\ UNCHANGED <<cap, chatUse, laneUse, requestVars, serverVars>>

\* Mutant of ReleaseChat: notify() in place of notify_all().
ReleaseChatWakesOne(r) ==
    /\ acq[r] = "release"
    /\ chatUse' = chatUse - 1
    /\ IF asleep = {} THEN UNCHANGED asleep ELSE \E w \in asleep : asleep' = asleep \ {w}
    /\ acq' = [acq EXCEPT ![r] = IF r \in ScopedChats THEN "releaseLane" ELSE "ended"]
    /\ UNCHANGED <<cap, laneUse, body, serverVars>>

\* AdmissionGate.release: one slot back, and notify_all.
ReleaseChat(r) ==
    /\ acq[r] = "release"
    /\ chatUse' = chatUse - 1
    /\ asleep' = {}
    /\ acq' = [acq EXCEPT ![r] = IF r \in ScopedChats THEN "releaseLane" ELSE "ended"]
    /\ UNCHANGED <<cap, laneUse, body, serverVars>>

\* ReservedLane.release, the second half of _LaneThenChat.release and the whole
\* of what a cancelled wait for the chat gate has to undo.
ReleaseLane(r) ==
    /\ acq[r] = "releaseLane"
    /\ laneUse' = laneUse - 1
    /\ acq' = [acq EXCEPT ![r] = "ended"]
    /\ UNCHANGED <<gateVars, body, serverVars>>

-----------------------------------------------------------------------------
(* The capacity follows the chat server.                                   *)

\* The chat server starts to reload, or comes up with a profile of n slots.
ServerRestarts(n) ==
    /\ server' = n
    /\ UNCHANGED <<gateVars, laneUse, requestVars, fetched>>

\* refresh_capacity_once reads /props ...
FetchSlots(f) ==
    /\ fetched[f] = NotFetching
    /\ fetched' = [fetched EXCEPT ![f] = server]
    /\ UNCHANGED <<gateVars, laneUse, requestVars, server>>

\* Mutants of ApplySlots: nobody is woken; the capacity never shrinks.
ApplySlotsQuietly(f) ==
    /\ fetched[f] # NotFetching
    /\ cap' = IF fetched[f] >= 1 THEN fetched[f] ELSE cap
    /\ fetched' = [fetched EXCEPT ![f] = NotFetching]
    /\ UNCHANGED <<chatUse, asleep, laneUse, requestVars, server>>
ApplyMoreSlots(f) ==
    /\ fetched[f] # NotFetching
    /\ IF fetched[f] > cap THEN cap' = fetched[f] /\ asleep' = {} ELSE UNCHANGED <<cap, asleep>>
    /\ fetched' = [fetched EXCEPT ![f] = NotFetching]
    /\ UNCHANGED <<chatUse, laneUse, requestVars, server>>

\* ... and, when the answer has arrived, applies it: no answer keeps the last
\* capacity, a different one is set and wakes every waiter.
ApplySlots(f) ==
    /\ fetched[f] # NotFetching
    /\ IF fetched[f] >= 1 /\ fetched[f] # cap
       THEN /\ cap' = fetched[f]
            /\ asleep' = {}
       ELSE UNCHANGED <<cap, asleep>>
    /\ fetched' = [fetched EXCEPT ![f] = NotFetching]
    /\ UNCHANGED <<chatUse, laneUse, requestVars, server>>

-----------------------------------------------------------------------------
ChatStep(r) ==
    \/ StartBody(r) \/ RefuseBody(r) \/ EndBody(r)
    \/ EnterLane(r) \/ LaneClosed(r)
    \/ EnterChat(r) \/ SleepOnChat(r)
    \/ ReleaseChat(r) \/ ReleaseLane(r)

AdmissionNext ==
    \/ \E r \in ChatRequests : ChatArrives(r) \/ ChatGivesUp(r) \/ ChatStep(r)
    \/ \E n \in SlotCounts \cup {NoAnswer} : ServerRestarts(n)
    \/ \E f \in Refreshers : FetchSlots(f) \/ ApplySlots(f)

AdmissionSpec == AdmissionInit /\ [][AdmissionNext]_admissionVars

(* The event loop runs every coroutine that can run; a stream ends because *)
(* MAX_STREAM_SECONDS and CHAT_TIMEOUT bound it; the refresh loop sleeps   *)
(* CHAT_SLOT_REFRESH_S between two reads, and every read has a timeout.    *)
(* Nothing obliges a client to leave, a server to restart, or a swap to    *)
(* refresh the capacity.                                                   *)
Fairness ==
    /\ \A r \in ChatRequests : WF_admissionVars(ChatStep(r))
    /\ WF_admissionVars(FetchSlots(Loop))
    /\ \A f \in Refreshers : WF_admissionVars(ApplySlots(f))

AdmissionFairSpec == AdmissionSpec /\ Fairness

-----------------------------------------------------------------------------
(* Properties.                                                             *)

\* The gate's counter is the number of requests that hold a chat slot, whatever
\* order grants, disconnects, refusals and releases happen in (hold_slot's
\* `finally`, _LaneThenChat.acquire): no permit is leaked or given back twice.
NoChatSlotLeaked == chatUse = Cardinality(ChatHolders)

\* Likewise for the lane's counter: a cancel while waiting for the chat gate, a
\* refusal after a shrink and a normal end each give the lane slot back once.
NoLaneSlotLeaked == laneUse = Cardinality(LaneHolders)

\* Both counters agree with the requests, however the gates are nested
\* (_LaneThenChat over hold_slot).
SlotsAccounted == NoChatSlotLeaked /\ NoLaneSlotLeaked

\* A waiter sleeps on the condition only while the gate is full: no release or
\* capacity change may leave somebody asleep beside a free slot, even when the
\* waiter it would have woken has just been cancelled (AdmissionGate.release).
NoSleeperBesideFreeSlot == asleep # {} => chatUse >= cap

\* A scoped request is never admitted over the reserve: at the instant one is
\* granted, the scoped requests being served leave the reserve of the current
\* capacity to the owner (_LaneThenChat.acquire's second look at the lane).
AdmissionKeepsReserve ==
    [][\A r \in ScopedChats : ~Admitted(r) /\ Admitted(r)' =>
          Cardinality(ScopedAdmitted') + ReservedSlots <= cap']_admissionVars

\* Every request is answered or gone, and then holds nothing, in the end: no
\* waiter starves and no two requests wait for each other across the two gates.
EveryRequestSettles ==
    \A r \in ChatRequests :
        body[r] # "idle" ~> body[r] \in {"closed", "refused"} /\ acq[r] \in {"idle", "ended"}

\* If the chat server keeps one layout, the gate ends up with its slot count,
\* although an older answer may still be on its way when the layout changes.
CapacityFollowsServer ==
    \A n \in SlotCounts : <>[](server = n) => <>[](cap = n)

\* Neither a request nor a change of the layout waits for ever (stream_admission.py).
GateMakesProgress == EveryRequestSettles /\ CapacityFollowsServer

\* The gate and its condition implement a resizable pool of slots.
Pool == INSTANCE SlotPool WITH Requests <- ChatRequests, holders <- ChatHolders
PoolSpec == Pool!Spec
=============================================================================
