----------------------- MODULE AdmissionBudgetSwap_proofs ---------------------
(***************************************************************************)
(* Theorems about the three things of the router that a request may have   *)
(* to wait for or pay for: ChatAdmission, for any number of requests, any  *)
(* reserve and any sequence of slot counts; EscalationBudget, for any      *)
(* calls, caps, prices and clock; ProfileSwap, for any requests and        *)
(* profiles.                                                               *)
(*                                                                         *)
(* Of the slots: PcInv says that a body that has not started has no        *)
(* acquire task, that one that streams holds its grant (so that EndBody    *)
(* gives back what was taken), and that only scoped requests are ever in   *)
(* the lane; AdmissionIInv that the two counters count their holders and   *)
(* nobody sleeps beside a free slot.                                       *)
(*                                                                         *)
(* Of the budget: IInv says, phase by phase, where the money of a call     *)
(* is: reserved while the request is out, in the ledger when handle() has  *)
(* returned, still reserved when the ledger could not be written, nowhere  *)
(* after a restart dropped the reservation.  That the bill is still zero   *)
(* while the request is out is what the retry rule of _post is for.        *)
(* RInv adds what the rationing of calls rests on, MInv what the caps do:  *)
(* a row is at most one overlong answer dearer than its reservation, so    *)
(* what a call weighs never grows by more than Extra when it is settled.   *)
(***************************************************************************)
EXTENDS ChatAdmission, EscalationBudget, ProfileSwap, FiniteSetTheorems, TLAPS

-----------------------------------------------------------------------------
(* The slots of the chat server.                                           *)

AdmissionIInv == AdmissionTypeOK /\ NoChatSlotLeaked /\ NoLaneSlotLeaked /\ NoSleeperBesideFreeSlot

PcInv ==
    \A r \in ChatRequests :
        /\ body[r] = "idle" => acq[r] = "idle"
        /\ body[r] = "streaming" => acq[r] = "granted"
        /\ acq[r] \in {"lane", "releaseLane"} => r \in ScopedChats

-----------------------------------------------------------------------------
(* Facts about the two sets of holders.                                    *)

LEMMA FiniteHolders ==
    /\ IsFiniteSet(ChatRequests)
    /\ IsFiniteSet(ChatHolders) /\ Cardinality(ChatHolders) \in Nat
    /\ IsFiniteSet(LaneHolders) /\ Cardinality(LaneHolders) \in Nat
<1>1. IsFiniteSet(ChatRequests)
  BY AdmissionAssumption, FS_Union DEF ChatRequests
<1>2. ChatHolders \in SUBSET ChatRequests /\ LaneHolders \in SUBSET ScopedChats
  BY DEF ChatHolders, LaneHolders
<1>3. IsFiniteSet(ChatHolders) /\ IsFiniteSet(LaneHolders)
  BY <1>1, <1>2, AdmissionAssumption, FS_Subset
<1> QED
  BY <1>1, <1>3, FS_CardinalityType

\* Adding or removing one holder moves the count by one, or not at all.
LEMMA CountAdd ==
    ASSUME NEW S, IsFiniteSet(S), NEW x, x \notin S
    PROVE  Cardinality(S \cup {x}) = Cardinality(S) + 1
BY FS_AddElement

LEMMA CountRemove ==
    ASSUME NEW S, IsFiniteSet(S), NEW x, x \in S
    PROVE  /\ Cardinality(S \ {x}) = Cardinality(S) - 1
           /\ Cardinality(S) >= 1
<1>1. Cardinality(S \ {x}) = Cardinality(S) - 1 /\ IsFiniteSet(S \ {x})
  BY FS_RemoveElement
<1>2. Cardinality(S \ {x}) \in Nat /\ Cardinality(S) \in Nat
  BY <1>1, FS_CardinalityType
<1> QED
  BY <1>1, <1>2

HoldsChat(s) == s \in {"granted", "release"}
HoldsLane(s) == s \in {"chat", "granted", "release", "releaseLane"}

\* What one step of one acquire coroutine does to the holders.
LEMMA HoldersStep ==
    ASSUME AdmissionTypeOK, NEW r \in ChatRequests, NEW s \in AcqStates,
           acq' = [acq EXCEPT ![r] = s]
    PROVE  /\ ChatHolders' = IF HoldsChat(s) THEN ChatHolders \cup {r}
                                             ELSE ChatHolders \ {r}
           /\ LaneHolders' = IF r \in ScopedChats /\ HoldsLane(s)
                             THEN LaneHolders \cup {r} ELSE LaneHolders \ {r}
BY DEF AdmissionTypeOK, ChatHolders, LaneHolders, HoldsChat, HoldsLane, ChatRequests

-----------------------------------------------------------------------------
\* Everything is free at the start.
LEMMA AdmissionStarts == AdmissionInit => AdmissionIInv
<1> SUFFICES ASSUME AdmissionInit PROVE AdmissionIInv
  OBVIOUS
<1>1. AdmissionTypeOK
  BY AdmissionAssumption DEF AdmissionInit, AdmissionTypeOK, AcqStates, BodyStates
<1>2. ChatHolders = {} /\ LaneHolders = {}
  BY DEF AdmissionInit, ChatHolders, LaneHolders, ChatRequests
<1>3. NoChatSlotLeaked /\ NoLaneSlotLeaked
  BY <1>2, FS_EmptySet DEF AdmissionInit, NoChatSlotLeaked, NoLaneSlotLeaked
<1>4. NoSleeperBesideFreeSlot
  BY DEF AdmissionInit, NoSleeperBesideFreeSlot
<1> QED
  BY <1>1, <1>3, <1>4 DEF AdmissionIInv

\* Steps that leave every acquire coroutine and both counters alone.
LEMMA QuietStep ==
    ASSUME AdmissionIInv, AdmissionTypeOK', UNCHANGED <<chatUse, laneUse, acq>>,
           asleep' # {} => chatUse >= cap'
    PROVE  AdmissionIInv'
<1>1. UNCHANGED <<ChatHolders, LaneHolders>>
  BY DEF ChatHolders, LaneHolders
<1> QED
  BY <1>1 DEF AdmissionIInv, NoChatSlotLeaked, NoLaneSlotLeaked, NoSleeperBesideFreeSlot

\* Steps of one coroutine that neither take nor give a chat or lane slot.
LEMMA NeutralStep ==
    ASSUME AdmissionIInv, AdmissionTypeOK', NEW r \in ChatRequests, NEW s \in AcqStates,
           acq' = [acq EXCEPT ![r] = s],
           HoldsChat(s) <=> HoldsChat(acq[r]),
           r \in ScopedChats => (HoldsLane(s) <=> HoldsLane(acq[r])),
           UNCHANGED <<cap, chatUse, laneUse>>,
           asleep' \subseteq asleep
    PROVE  AdmissionIInv'
<1>1. ChatHolders' = ChatHolders /\ LaneHolders' = LaneHolders
  BY HoldersStep DEF AdmissionIInv, ChatHolders, LaneHolders, HoldsChat, HoldsLane
<1> QED
  BY <1>1 DEF AdmissionIInv, NoChatSlotLeaked, NoLaneSlotLeaked, NoSleeperBesideFreeSlot

\* A coroutine that takes or gives a slot adds or removes itself as a holder.
LEMMA EnterLaneInv ==
    ASSUME AdmissionIInv, NEW r \in ScopedChats, EnterLane(r)
    PROVE  AdmissionIInv'
<1> USE DEF EnterLane, gateVars, serverVars
<1>1. AdmissionTypeOK'
  BY DEF AdmissionIInv, AdmissionTypeOK, AcqStates, ChatRequests
<1>2. r \notin LaneHolders
  BY DEF LaneHolders
<1>3. LaneHolders' = LaneHolders \cup {r} /\ ChatHolders' = ChatHolders
  BY DEF AdmissionIInv, AdmissionTypeOK, ChatRequests, ChatHolders, LaneHolders
<1>4. NoLaneSlotLeaked'
  BY <1>2, <1>3, FiniteHolders, CountAdd DEF AdmissionIInv, NoLaneSlotLeaked
<1> QED
  BY <1>1, <1>3, <1>4 DEF AdmissionIInv, NoChatSlotLeaked, NoSleeperBesideFreeSlot

LEMMA EnterChatInv ==
    ASSUME AdmissionIInv, NEW r \in ChatRequests, EnterChat(r)
    PROVE  AdmissionIInv' /\ r \notin ChatHolders /\ ChatHolders' = ChatHolders \cup {r}
<1> USE DEF EnterChat, serverVars
<1>2. AdmissionTypeOK'
  BY DEF AdmissionIInv, AdmissionTypeOK, AcqStates
<1>3. r \notin ChatHolders /\ (r \in ScopedChats <=> r \in LaneHolders)
  BY DEF LaneHolders, ChatHolders
<1>4. ChatHolders' = ChatHolders \cup {r} /\ LaneHolders' = LaneHolders
  BY DEF AdmissionIInv, AdmissionTypeOK, ChatRequests, ChatHolders, LaneHolders
<1>5. NoChatSlotLeaked'
  BY <1>3, <1>4, FiniteHolders, CountAdd DEF AdmissionIInv, NoChatSlotLeaked
<1>6. NoSleeperBesideFreeSlot'
  BY DEF AdmissionIInv, NoSleeperBesideFreeSlot, AdmissionTypeOK
<1> QED
  BY <1>2, <1>3, <1>4, <1>5, <1>6 DEF AdmissionIInv, NoLaneSlotLeaked

LEMMA ReleaseChatInv ==
    ASSUME AdmissionIInv, NEW r \in ChatRequests, ReleaseChat(r)
    PROVE  AdmissionIInv' /\ r \in ChatHolders /\ ChatHolders' = ChatHolders \ {r}
<1> USE DEF ReleaseChat, serverVars
<1>2. r \in ChatHolders /\ (r \in ScopedChats <=> r \in LaneHolders)
  BY DEF LaneHolders, ChatHolders
<1>3. ChatHolders' = ChatHolders \ {r} /\ LaneHolders' = LaneHolders
  BY DEF AdmissionIInv, AdmissionTypeOK, ChatRequests, ChatHolders, LaneHolders
<1>4. Cardinality(ChatHolders') = chatUse - 1 /\ chatUse >= 1
  BY <1>2, <1>3, FiniteHolders, CountRemove DEF AdmissionIInv, NoChatSlotLeaked
<1>5. AdmissionTypeOK'
  BY <1>4 DEF AdmissionIInv, AdmissionTypeOK, AcqStates
<1> QED
  BY <1>2, <1>3, <1>4, <1>5
     DEF AdmissionIInv, NoChatSlotLeaked, NoLaneSlotLeaked, NoSleeperBesideFreeSlot

LEMMA ReleaseLaneInv ==
    ASSUME AdmissionIInv, NEW r \in ScopedChats, ReleaseLane(r)
    PROVE  AdmissionIInv'
<1> USE DEF ReleaseLane, gateVars, serverVars
<1>1. r \in LaneHolders
  BY DEF LaneHolders
<1>2. LaneHolders' = LaneHolders \ {r} /\ ChatHolders' = ChatHolders
  BY DEF AdmissionIInv, AdmissionTypeOK, ChatRequests, ChatHolders, LaneHolders
<1>3. Cardinality(LaneHolders') = laneUse - 1 /\ laneUse >= 1
  BY <1>1, <1>2, FiniteHolders, CountRemove DEF AdmissionIInv, NoLaneSlotLeaked
<1>4. AdmissionTypeOK'
  BY <1>3 DEF AdmissionIInv, AdmissionTypeOK, AcqStates, ChatRequests
<1> QED
  BY <1>2, <1>3, <1>4 DEF AdmissionIInv, NoChatSlotLeaked, NoLaneSlotLeaked, NoSleeperBesideFreeSlot

-----------------------------------------------------------------------------
\* The two coroutines of a request stay in step.
LEMMA NextPcInv == AdmissionTypeOK /\ PcInv /\ [AdmissionNext]_admissionVars => PcInv'
<1> SUFFICES ASSUME AdmissionTypeOK, PcInv, [AdmissionNext]_admissionVars PROVE PcInv'
  OBVIOUS
<1> USE DEF AdmissionTypeOK, PcInv
<1>1. ASSUME NEW r \in ChatRequests, ChatArrives(r) PROVE PcInv'
  BY <1>1 DEF ChatArrives
<1>6. ASSUME NEW r \in ChatRequests, ChatGivesUp(r) PROVE PcInv'
  <2>1. AfterGiveUp(r) \in {"lane", "releaseLane"} => r \in ScopedChats
    BY DEF AfterGiveUp
  <2> QED BY <1>6, <2>1 DEF ChatGivesUp
<1>2. ASSUME NEW r \in ChatRequests, ChatStep(r) PROVE PcInv'
  BY <1>2 DEF ChatStep, StartBody, RefuseBody, EndBody, EnterLane, LaneClosed,
              EnterChat, SleepOnChat, ReleaseChat, ReleaseLane, requestVars
<1>3. ASSUME UNCHANGED <<acq, body>> PROVE PcInv'
  BY <1>3
<1>4. ASSUME NEW n, ServerRestarts(n) PROVE UNCHANGED <<acq, body>>
  BY <1>4 DEF ServerRestarts, requestVars
<1>5. ASSUME NEW f \in Refreshers, FetchSlots(f) \/ ApplySlots(f)
      PROVE  UNCHANGED <<acq, body>>
  BY <1>5 DEF FetchSlots, ApplySlots, requestVars
<1> QED
  BY <1>1, <1>2, <1>3, <1>4, <1>5, <1>6 DEF AdmissionNext, admissionVars

\* The counters and the wait list: one case per action of AdmissionNext.
LEMMA AdmissionGoesOn == AdmissionIInv /\ PcInv /\ [AdmissionNext]_admissionVars => AdmissionIInv'
<1> SUFFICES ASSUME AdmissionIInv, PcInv, [AdmissionNext]_admissionVars PROVE AdmissionIInv'
  OBVIOUS
<1> USE DEF gateVars, requestVars, serverVars
<1>1. ASSUME NEW r \in ChatRequests, ChatArrives(r) PROVE AdmissionIInv'
  <2>1. AdmissionTypeOK'
    BY <1>1 DEF ChatArrives, AdmissionIInv, AdmissionTypeOK, AcqStates, BodyStates
  <2>2. CASE r \in ScopedChats /\ LaneCap = 0
    BY <1>1, <2>1, <2>2, QuietStep DEF ChatArrives, AdmissionIInv, NoSleeperBesideFreeSlot
  <2>3. CASE ~(r \in ScopedChats /\ LaneCap = 0)
    <3> DEFINE s == IF r \in ScopedChats THEN "lane" ELSE "chat"
    <3>1. /\ s \in AcqStates /\ acq' = [acq EXCEPT ![r] = s]
          /\ HoldsChat(s) <=> HoldsChat(acq[r])
          /\ r \in ScopedChats => (HoldsLane(s) <=> HoldsLane(acq[r]))
      BY <1>1, <2>3 DEF ChatArrives, PcInv, AcqStates, HoldsChat, HoldsLane
    <3>2. UNCHANGED <<cap, chatUse, laneUse>> /\ asleep' \subseteq asleep
      BY <1>1 DEF ChatArrives
    <3> HIDE DEF s
    <3> QED BY <2>1, <3>1, <3>2, NeutralStep
  <2> QED BY <2>2, <2>3
<1>2. ASSUME NEW r \in ChatRequests, ChatGivesUp(r) PROVE AdmissionIInv'
  <2> DEFINE s == AfterGiveUp(r)
  <2>1. /\ s \in AcqStates /\ acq' = [acq EXCEPT ![r] = s]
        /\ HoldsChat(s) <=> HoldsChat(acq[r])
        /\ r \in ScopedChats => (HoldsLane(s) <=> HoldsLane(acq[r]))
    BY <1>2, AdmissionAssumption
       DEF ChatGivesUp, AfterGiveUp, AdmissionIInv, AdmissionTypeOK, AcqStates,
           HoldsChat, HoldsLane, ChatRequests
  <2>2. UNCHANGED <<cap, chatUse, laneUse>> /\ asleep' \subseteq asleep
    BY <1>2 DEF ChatGivesUp
  <2> HIDE DEF s
  <2>3. AdmissionTypeOK'
    BY <1>2, <2>1, <2>2 DEF ChatGivesUp, AdmissionIInv, AdmissionTypeOK, BodyStates
  <2> QED BY <2>1, <2>2, <2>3, NeutralStep
<1>3. ASSUME NEW r \in ChatRequests, StartBody(r) \/ RefuseBody(r) \/ SleepOnChat(r)
      PROVE  AdmissionIInv'
  <2>1. AdmissionTypeOK'
    BY <1>3 DEF StartBody, RefuseBody, SleepOnChat, AdmissionIInv, AdmissionTypeOK, BodyStates
  <2> QED
    BY <1>3, <2>1, QuietStep
       DEF StartBody, RefuseBody, SleepOnChat, AdmissionIInv, NoSleeperBesideFreeSlot
<1>4. ASSUME NEW r \in ChatRequests, EndBody(r) PROVE AdmissionIInv'
  <2>1. AdmissionTypeOK'
    BY <1>4 DEF EndBody, AdmissionIInv, AdmissionTypeOK, BodyStates, AcqStates
  <2>2. /\ "release" \in AcqStates /\ acq' = [acq EXCEPT ![r] = "release"]
        /\ HoldsChat("release") <=> HoldsChat(acq[r])
        /\ HoldsLane("release") <=> HoldsLane(acq[r])
    BY <1>4 DEF EndBody, PcInv, AcqStates, HoldsChat, HoldsLane
  <2> QED BY <1>4, <2>1, <2>2, NeutralStep DEF EndBody
<1>5. ASSUME NEW r \in ChatRequests, LaneClosed(r) PROVE AdmissionIInv'
  <2>1. AdmissionTypeOK'
    BY <1>5 DEF LaneClosed, AdmissionIInv, AdmissionTypeOK, AcqStates
  <2>2. /\ "ended" \in AcqStates /\ acq' = [acq EXCEPT ![r] = "ended"]
        /\ HoldsChat("ended") <=> HoldsChat(acq[r])
        /\ HoldsLane("ended") <=> HoldsLane(acq[r])
    BY <1>5 DEF LaneClosed, AcqStates, HoldsChat, HoldsLane
  <2> QED BY <1>5, <2>1, <2>2, NeutralStep DEF LaneClosed
<1>6. ASSUME NEW r \in ChatRequests, EnterChat(r) \/ ReleaseChat(r) PROVE AdmissionIInv'
  BY <1>6, EnterChatInv, ReleaseChatInv
<1>7. ASSUME NEW r \in ChatRequests, EnterLane(r) \/ ReleaseLane(r) PROVE AdmissionIInv'
  BY <1>7, EnterLaneInv, ReleaseLaneInv DEF EnterLane, ReleaseLane, PcInv
<1>8. ASSUME NEW n \in SlotCounts \cup {NoAnswer}, ServerRestarts(n) PROVE AdmissionIInv'
  <2>1. AdmissionTypeOK'
    BY <1>8 DEF ServerRestarts, AdmissionIInv, AdmissionTypeOK
  <2> QED BY <1>8, <2>1, QuietStep DEF ServerRestarts, AdmissionIInv, NoSleeperBesideFreeSlot
<1>9. ASSUME NEW f \in Refreshers, FetchSlots(f) PROVE AdmissionIInv'
  <2>1. AdmissionTypeOK'
    BY <1>9 DEF FetchSlots, AdmissionIInv, AdmissionTypeOK
  <2> QED BY <1>9, <2>1, QuietStep DEF FetchSlots, AdmissionIInv, NoSleeperBesideFreeSlot
<1>10. ASSUME NEW f \in Refreshers, ApplySlots(f) PROVE AdmissionIInv'
  <2>0. fetched[f] >= 1 => fetched[f] \in Nat \ {0}
    <3>1. fetched[f] \in SlotCounts \/ fetched[f] = 0 \/ fetched[f] = -1
      BY DEF AdmissionIInv, AdmissionTypeOK, NoAnswer, NotFetching
    <3>2. SlotCounts \subseteq Nat \ {0}
      BY AdmissionAssumption
    <3>3. CASE fetched[f] \in SlotCounts
      BY <3>2, <3>3
    <3>4. CASE fetched[f] = 0
      BY <3>4
    <3>5. CASE fetched[f] = -1
      BY <3>5
    <3> QED BY <3>1, <3>3, <3>4, <3>5
  <2>1. cap' \in Nat \ {0} /\ asleep' \subseteq asleep
    BY <1>10, <2>0 DEF ApplySlots, AdmissionIInv, AdmissionTypeOK
  <2>2. AdmissionTypeOK'
    BY <1>10, <2>1 DEF ApplySlots, AdmissionIInv, AdmissionTypeOK
  <2> QED BY <1>10, <2>2, QuietStep DEF ApplySlots, AdmissionIInv, NoSleeperBesideFreeSlot
<1>11. ASSUME UNCHANGED admissionVars PROVE AdmissionIInv'
  BY <1>11 DEF admissionVars, AdmissionIInv, AdmissionTypeOK, NoChatSlotLeaked, NoLaneSlotLeaked,
               NoSleeperBesideFreeSlot, ChatHolders, LaneHolders
<1> QED
  BY <1>1, <1>2, <1>3, <1>4, <1>5, <1>6, <1>7, <1>8, <1>9, <1>10, <1>11
     DEF AdmissionNext, ChatStep

-----------------------------------------------------------------------------
LEMMA AdmissionInvariance == AdmissionSpec => [](AdmissionIInv /\ PcInv)
<1>1. AdmissionInit => AdmissionIInv /\ PcInv
  BY AdmissionStarts DEF AdmissionInit, PcInv
<1>2. AdmissionIInv /\ PcInv /\ [AdmissionNext]_admissionVars => (AdmissionIInv /\ PcInv)'
  BY AdmissionGoesOn, NextPcInv DEF AdmissionIInv
<1> QED
  BY <1>1, <1>2, PTL DEF AdmissionSpec

\* Every variable keeps its type: in particular neither counter of the two
\* gates ever goes below zero (stream_admission.py, workforce_lane.py).
THEOREM AdmissionTypeCorrect == AdmissionSpec => []AdmissionTypeOK
BY AdmissionInvariance, PTL DEF AdmissionIInv

\* No schedule of grants, disconnects, refusals and releases leaks a slot of
\* either gate or gives one back twice (hold_slot, _LaneThenChat).
THEOREM NoSlotLeaked == AdmissionSpec => []SlotsAccounted
BY AdmissionInvariance, PTL DEF AdmissionIInv, SlotsAccounted

\* The gate's condition loses no wake-up: nobody sleeps while a slot is free
\* (AdmissionGate.release and set_capacity notify every waiter).
THEOREM NoWakeupLost == AdmissionSpec => []NoSleeperBesideFreeSlot
BY AdmissionInvariance, PTL DEF AdmissionIInv

-----------------------------------------------------------------------------
(* The reserve.                                                            *)

\* Whatever the layout does while a scoped request queues, at the instant it is
\* granted the scoped requests leave the reserve free (_LaneThenChat.acquire).
THEOREM ReserveKeptAtAdmission == AdmissionSpec => AdmissionKeepsReserve
<1> DEFINE Keep == \A r \in ScopedChats : ~Admitted(r) /\ Admitted(r)' =>
                       Cardinality(ScopedAdmitted') + ReservedSlots <= cap'
<1>1. ASSUME AdmissionIInv, AdmissionNext PROVE Keep
  <2> SUFFICES ASSUME NEW r \in ScopedChats, ~Admitted(r), Admitted(r)'
               PROVE  Cardinality(ScopedAdmitted') + ReservedSlots <= cap'
    OBVIOUS
  <2>1. r \in ChatRequests
    BY DEF ChatRequests
  <2>2. EnterChat(r)
    BY <1>1, <2>1, AdmissionAssumption
       DEF AdmissionNext, ChatStep, AdmissionIInv, AdmissionTypeOK, Admitted, ChatArrives, ChatGivesUp,
           AfterGiveUp, StartBody,
           RefuseBody, EndBody, EnterLane, LaneClosed, EnterChat, SleepOnChat, ReleaseChat,
           ReleaseLane, ServerRestarts, FetchSlots, ApplySlots, requestVars
  <2>3. /\ cap' = cap /\ laneUse' = laneUse
        /\ r \in LaneHolders /\ LaneHolders' = LaneHolders
    BY <1>1, <2>1, <2>2 DEF EnterChat, AdmissionIInv, AdmissionTypeOK, LaneHolders, ChatRequests
  <2>4. ~(laneUse > LaneCap)
    BY <1>1, <2>1, <2>2 DEF EnterChat, Admitted, AdmissionIInv, AdmissionTypeOK
  <2>5. ScopedAdmitted' \in SUBSET LaneHolders
    BY <2>3 DEF ScopedAdmitted, LaneHolders, Admitted
  <2>6. /\ Cardinality(ScopedAdmitted') <= laneUse
        /\ Cardinality(ScopedAdmitted') \in Nat
        /\ laneUse \in Nat /\ laneUse >= 1
    BY <1>1, <2>3, <2>5, FiniteHolders, FS_Subset, FS_CardinalityType, CountRemove
       DEF AdmissionIInv, NoLaneSlotLeaked
  <2>7. cap \in Nat /\ ReservedSlots \in Nat
    BY <1>1, AdmissionAssumption DEF AdmissionIInv, AdmissionTypeOK
  <2> HIDE DEF Keep
  <2> QED
    BY <2>3, <2>4, <2>6, <2>7 DEF LaneCap
<1>2. AdmissionIInv /\ [AdmissionNext]_admissionVars => [Keep]_admissionVars
  BY <1>1
<1> QED
  BY <1>2, AdmissionInvariance, PTL DEF AdmissionSpec, AdmissionKeepsReserve

-----------------------------------------------------------------------------
(* Refinement.                                                             *)

\* Steps of a request that do not touch the chat gate's counter move no holder.
LEMMA HoldersKept ==
    ASSUME AdmissionIInv, PcInv, NEW r \in ChatRequests,
           ChatArrives(r) \/ ChatGivesUp(r) \/ StartBody(r) \/ RefuseBody(r) \/ EndBody(r)
              \/ EnterLane(r) \/ LaneClosed(r) \/ SleepOnChat(r) \/ ReleaseLane(r)
    PROVE  UNCHANGED <<cap, ChatHolders>>
<1> USE DEF AdmissionIInv, AdmissionTypeOK, PcInv, ChatHolders, gateVars, requestVars
<1>1. CASE ChatArrives(r)
  BY <1>1 DEF ChatArrives
<1>2. CASE ChatGivesUp(r)
  BY <1>2 DEF ChatGivesUp, AfterGiveUp
<1>3. CASE StartBody(r) \/ RefuseBody(r) \/ SleepOnChat(r)
  BY <1>3 DEF StartBody, RefuseBody, SleepOnChat
<1>4. CASE EndBody(r)
  BY <1>4 DEF EndBody
<1>5. CASE EnterLane(r) \/ LaneClosed(r) \/ ReleaseLane(r)
  BY <1>5 DEF EnterLane, LaneClosed, ReleaseLane
<1> QED
  BY <1>1, <1>2, <1>3, <1>4, <1>5

\* The gate, its condition variable, the response bodies and the lane together
\* behave as a plain resizable pool of slots: no over-admission, no eviction
\* (the promise in AdmissionGate's comment).
THEOREM ImplementsPool == AdmissionSpec => PoolSpec
<1>1. AdmissionInit => Pool!Init
  BY AdmissionAssumption DEF AdmissionInit, Pool!Init, ChatHolders
<1>2. AdmissionIInv /\ PcInv /\ [AdmissionNext]_admissionVars => [Pool!Next]_(Pool!vars)
  <2> SUFFICES ASSUME AdmissionIInv, PcInv, [AdmissionNext]_admissionVars
               PROVE  [Pool!Next]_(Pool!vars)
    OBVIOUS
  <2>1. ASSUME NEW r \in ChatRequests, EnterChat(r) PROVE Pool!Take(r)
    <3>1. r \notin ChatHolders /\ ChatHolders' = ChatHolders \cup {r}
      BY <2>1, EnterChatInv
    <3>2. Cardinality(ChatHolders) < cap /\ cap' = cap
      BY <2>1 DEF EnterChat, AdmissionIInv, NoChatSlotLeaked
    <3>3. Pool!Cardinality(ChatHolders) = Cardinality(ChatHolders)
      BY DEF Pool!Cardinality, Cardinality
    <3> QED BY <3>1, <3>2, <3>3 DEF Pool!Take
  <2>2. ASSUME NEW r \in ChatRequests, ReleaseChat(r) PROVE Pool!Give(r)
    <3>1. r \in ChatHolders /\ ChatHolders' = ChatHolders \ {r}
      BY <2>2, ReleaseChatInv
    <3>2. UNCHANGED cap
      BY <2>2 DEF ReleaseChat
    <3> QED BY <3>1, <3>2 DEF Pool!Give
  <2>3. ASSUME NEW f \in Refreshers, ApplySlots(f) PROVE Pool!Resize
    <3>1. AdmissionTypeOK'
      BY AdmissionGoesOn DEF AdmissionIInv
    <3>2. ChatHolders' = ChatHolders
      BY <2>3 DEF ApplySlots, requestVars, ChatHolders
    <3> QED BY <3>1, <3>2 DEF Pool!Resize, AdmissionTypeOK
  <2>4. ASSUME \/ \E n \in SlotCounts \cup {NoAnswer} : ServerRestarts(n)
               \/ \E f \in Refreshers : FetchSlots(f)
               \/ UNCHANGED admissionVars
        PROVE  UNCHANGED Pool!vars
    BY <2>4 DEF ServerRestarts, FetchSlots, admissionVars, gateVars, requestVars,
                ChatHolders, Pool!vars
  <2>5. ASSUME NEW r \in ChatRequests,
               ChatArrives(r) \/ ChatGivesUp(r) \/ StartBody(r) \/ RefuseBody(r) \/ EndBody(r)
                  \/ EnterLane(r) \/ LaneClosed(r) \/ SleepOnChat(r) \/ ReleaseLane(r)
        PROVE  UNCHANGED Pool!vars
    BY <2>5, HoldersKept DEF Pool!vars
  <2> QED
    BY <2>1, <2>2, <2>3, <2>4, <2>5 DEF AdmissionNext, ChatStep, Pool!Next
<1> QED
  BY <1>1, <1>2, AdmissionInvariance, PTL DEF AdmissionSpec, PoolSpec, Pool!Spec

-----------------------------------------------------------------------------
(* The money of a call.                                                    *)

Free(c)   == c \notin pending /\ billed[c] = 0
PhaseOK(c) ==
    /\ phase[c] = "new"        => Free(c) /\ ~Recorded(c)
    /\ phase[c] = "sending"    => c \in pending /\ ~Recorded(c) /\ billed[c] = 0
    /\ phase[c] = "refused"    => Free(c)
    /\ phase[c] \in {"answered", "failed"}
          => c \notin pending /\ Recorded(c) /\ ledger[c].cost + Extra >= billed[c]
    /\ phase[c] = "unrecorded" => c \in pending /\ ~Recorded(c)
    /\ phase[c] = "lost"       => c \notin pending /\ ~Recorded(c)

IInv == TypeOK /\ \A c \in Calls : PhaseOK(c)

LEMMA WorstType == ASSUME TypeOK, NEW c \in Calls
                   PROVE  WorstOf(c) \in Nat \ {0} /\ Extra \in Nat /\ Bills(c) \subseteq Nat
BY BudgetAssumption DEF TypeOK, WorstOf, Bills

LEMMA InitIInv == Init => IInv
<1> SUFFICES ASSUME Init PROVE IInv
  OBVIOUS
<1>1. (CHOOSE a \in Aliases : TRUE) \in Aliases /\ (CHOOSE b \in Briefs : TRUE) \in Briefs
  BY BudgetAssumption
<1>2. TypeOK
  BY <1>1, BudgetAssumption DEF Init, TypeOK, Phases, Outcomes, NoRow
<1>3. ASSUME NEW c \in Calls PROVE PhaseOK(c)
  BY DEF Init, PhaseOK, Free, Recorded, NoRow
<1> QED
  BY <1>2, <1>3 DEF IInv

\* A refusal writes a free row or none.
LEMMA RefuseStep ==
    ASSUME IInv, NEW c \in Calls, NEW a \in Aliases, NEW b \in Briefs,
           NEW o \in {"refused:budget", "refused:other"},
           Arrives(c, a, b), Refuse(c, o)
    PROVE  IInv'
<1> USE DEF Arrives, Refuse
<1>1. TypeOK'
  BY DEF IInv, TypeOK, Phases, Outcomes
<1>2. ASSUME NEW d \in Calls PROVE PhaseOK(d)'
  BY DEF IInv, TypeOK, PhaseOK, Free, Recorded
<1> QED
  BY <1>1, <1>2 DEF IInv

LEMMA ReserveStep ==
    ASSUME IInv, NEW c \in Calls, NEW a \in Aliases, NEW b \in Briefs, Reserve(c, a, b)
    PROVE  IInv'
<1> USE DEF Arrives, Reserve
<1>1. TypeOK'
  BY DEF IInv, TypeOK, Phases
<1>2. ASSUME NEW d \in Calls PROVE PhaseOK(d)'
  BY DEF IInv, TypeOK, PhaseOK, Free, Recorded
<1> QED
  BY <1>1, <1>2 DEF IInv

\* Settling a call whose bill is covered by the cost it is booked at.
LEMMA SettleStep ==
    ASSUME IInv, NEW c \in Calls, phase[c] = "sending",
           NEW o \in {"ok", "error"}, NEW cost \in Nat, NEW n \in {"answered", "failed"},
           NEW b \in Nat, billed' = [billed EXCEPT ![c] = @ + b], cost + Extra >= b,
           Settle(c, o, cost, n)
    PROVE  IInv'
<1> USE DEF Settle
<1>1. TypeOK'
  <2>1. n \in Phases /\ "unrecorded" \in Phases /\ o \in Outcomes /\ billed[c] + b \in Nat
    BY DEF IInv, TypeOK, Phases, Outcomes
  <2>2. [outcome |-> o, cost |-> cost, done |-> clock] \in [outcome : Outcomes, cost : Nat, done : 0..MaxClock]
    BY <2>1 DEF IInv, TypeOK
  <2>3. phase' \in [Calls -> Phases] /\ billed' \in [Calls -> Nat] /\ pending' \subseteq Calls
    BY <2>1 DEF IInv, TypeOK
  <2>4. ledger' \in [Calls -> [outcome : Outcomes, cost : Nat, done : 0..MaxClock]]
    BY <2>2 DEF IInv, TypeOK
  <2> QED BY <2>3, <2>4 DEF IInv, TypeOK
<1>2. billed'[c] = b
  BY DEF IInv, TypeOK, PhaseOK
<1>3. ASSUME NEW d \in Calls PROVE PhaseOK(d)'
  <2>1. CASE d = c
    BY <2>1, <1>2 DEF IInv, TypeOK, PhaseOK, Free, Recorded
  <2>2. CASE d # c
    BY <2>2 DEF IInv, TypeOK, PhaseOK, Free, Recorded
  <2> QED BY <2>1, <2>2
<1> QED
  BY <1>1, <1>3 DEF IInv

LEMMA PostStep ==
    ASSUME IInv, NEW c \in Calls, PostReturns(c)
    PROVE  IInv'
<1>0. TypeOK /\ WorstOf(c) \in Nat \ {0} /\ Extra \in Nat /\ Bills(c) \subseteq Nat /\ billed[c] \in Nat
  BY WorstType DEF IInv, TypeOK
<1>1. CASE RetryUnbilled(c)
  <2>1. TypeOK'
    BY <1>1 DEF RetryUnbilled, callVars, IInv, TypeOK
  <2> QED
    BY <1>1, <2>1 DEF RetryUnbilled, IInv, PhaseOK, Free, Recorded
<1>2. CASE FailUnbilled(c)
  <2>1. billed' = [billed EXCEPT ![c] = @ + 0] /\ 0 + Extra >= 0
    BY <1>0, <1>2 DEF FailUnbilled, TypeOK
  <2> QED BY <1>2, <2>1, SettleStep DEF FailUnbilled
<1>3. CASE FailMaybeBilled(c) \/ Cancel(c)
  <2>1. PICK b \in Bills(c) \cup {0} : billed' = [billed EXCEPT ![c] = @ + b]
    BY <1>3 DEF FailMaybeBilled, Cancel
  <2>2. b \in Nat /\ WorstOf(c) + Extra >= b
    BY <1>0, <2>1 DEF Bills
  <2> QED BY <1>0, <1>3, <2>1, <2>2, SettleStep DEF FailMaybeBilled, Cancel
<1>4. CASE Answer(c)
  <2>1. PICK b \in Bills(c) : billed' = [billed EXCEPT ![c] = @ + b] /\ Settle(c, "ok", b, "answered")
    BY <1>4 DEF Answer
  <2>2. b \in Nat /\ b + Extra >= b
    BY <1>0, <2>1
  <2> QED BY <1>0, <1>4, <2>1, <2>2, SettleStep DEF Answer
<1> QED
  BY <1>1, <1>2, <1>3, <1>4 DEF PostReturns

LEMMA NextIInv == IInv /\ [Next]_vars => IInv'
<1> SUFFICES ASSUME IInv, [Next]_vars PROVE IInv'
  OBVIOUS
<1>1. ASSUME NEW c \in Calls, NEW a \in Aliases, NEW b \in Briefs, Handle(c, a, b) PROVE IInv'
  BY <1>1, RefuseStep, ReserveStep DEF Handle, RefuseUnfit, RefuseDuplicate, RefuseBudget
<1>2. ASSUME NEW c \in Calls, PostReturns(c) PROVE IInv'
  BY <1>2, PostStep
<1>3. CASE Restart
  <2>1. PICK charged \in SUBSET InFlight :
           billed' = [c \in Calls |-> IF c \in charged THEN billed[c] + WorstOf(c) ELSE billed[c]]
    BY <1>3 DEF Restart
  <2>2. ASSUME NEW c \in Calls
        PROVE  billed'[c] \in Nat /\ (c \notin pending => billed'[c] = billed[c])
    <3>1. billed[c] \in Nat /\ WorstOf(c) \in Nat /\ PhaseOK(c)
      BY WorstType DEF IInv, TypeOK
    <3>2. c \in charged => c \in pending
      BY <3>1 DEF InFlight, PhaseOK
    <3>3. billed'[c] = IF c \in charged THEN billed[c] + WorstOf(c) ELSE billed[c]
      BY <2>1
    <3> QED BY <3>1, <3>2, <3>3
  <2>3. billed' \in [Calls -> Nat]
    BY <2>1, <2>2
  <2>4. TypeOK'
    BY <1>3, <2>3 DEF Restart, callVars, IInv, TypeOK, Phases
  <2>5. TypeOK
    BY DEF IInv
  <2>6. ASSUME NEW c \in Calls PROVE PhaseOK(c)'
    <3>1. phase'[c] = (IF c \in pending THEN "lost" ELSE phase[c]) /\ c \notin pending'
      BY <1>3 DEF Restart
    <3>2. ledger'[c] = ledger[c] /\ PhaseOK(c)
      BY <1>3 DEF Restart, IInv
    <3>3. CASE c \in pending
      <4>1. phase'[c] = "lost" /\ ~Recorded(c) /\ c \notin pending'
        BY <3>1, <3>2, <3>3, <2>5 DEF PhaseOK, Free, IInv, TypeOK, Phases
      <4> QED BY <4>1, <3>2 DEF PhaseOK, Recorded
    <3>4. CASE c \notin pending
      <4>1. phase'[c] = phase[c] /\ billed'[c] = billed[c]
        BY <3>1, <3>4, <2>2
      <4> QED BY <4>1, <3>1, <3>2, <3>4 DEF PhaseOK, Free, Recorded
    <3> QED BY <3>3, <3>4
  <2> QED BY <2>4, <2>6 DEF IInv
<1>4. CASE Tick
  <2>1. TypeOK'
    BY <1>4, BudgetAssumption DEF Tick, callVars, IInv, TypeOK
  <2> QED BY <1>4, <2>1 DEF Tick, callVars, IInv, PhaseOK, Free, Recorded
<1>5. CASE UNCHANGED vars
  BY <1>5 DEF vars, IInv, TypeOK, PhaseOK, Free, Recorded
<1> QED
  BY <1>1, <1>2, <1>3, <1>4, <1>5 DEF Next

LEMMA Invariance == Spec => []IInv
BY InitIInv, NextIInv, PTL DEF Spec

-----------------------------------------------------------------------------
\* Every variable keeps its type; costs in the ledger are never negative.
THEOREM TypeCorrect == Spec => []TypeOK
BY Invariance, PTL DEF IInv

\* Whatever Anthropic answers, whoever leaves and however often the router is
\* restarted, money spent is in exactly one place until its reservation is lost
\* in a restart (Ledger.settle).
THEOREM NoSpendForgotten == Spec => []SpendInOnePlace
<1>1. IInv => SpendInOnePlace
  <2> SUFFICES ASSUME IInv, NEW c \in Calls, billed[c] > 0, phase[c] # "lost"
               PROVE  c \in pending <=> ~Recorded(c)
    BY DEF SpendInOnePlace
  <2>1. phase[c] \in Phases /\ PhaseOK(c)
    BY DEF IInv, TypeOK
  <2> QED BY <2>1 DEF Phases, PhaseOK, Free
<1> QED
  BY <1>1, Invariance, PTL

\* No failure that may have been billed is booked as free and no call is paid
\* for twice: the row covers the bill (_post's retry rule, handle's costs).
THEOREM RowsCoverBills == Spec => []BookedCoversBill
<1>1. IInv => BookedCoversBill
  <2> SUFFICES ASSUME IInv, NEW c \in Calls, Recorded(c)
               PROVE  ledger[c].cost + Extra >= billed[c]
    BY DEF BookedCoversBill
  <2>1. phase[c] \in Phases /\ PhaseOK(c)
    BY DEF IInv, TypeOK
  <2>2. ledger[c].cost \in Nat /\ Extra \in Nat
    BY BudgetAssumption DEF IInv, TypeOK
  <2> QED BY <2>1, <2>2 DEF Phases, PhaseOK, Free
<1> QED
  BY <1>1, Invariance, PTL

\* Together: every charge is on the books, once and at what it was.
THEOREM BooksAreTrue == Spec => []SpendOnTheBooks
BY NoSpendForgotten, RowsCoverBills, PTL DEF SpendOnTheBooks

-----------------------------------------------------------------------------
(* The limits on calls and the duplicate check.  Both rest on nothing      *)
(* having been written after the present moment.                           *)

NothingLater == \A c \in Calls : arrived[c] <= clock /\ ledger[c].done <= clock

RInv == IInv /\ NothingLater /\ CallsAreRationed

\* The calls of aliases A that count on the day of t.
Counted(A, t) == {c \in Calls : /\ IsCallRow(c) \/ c \in pending
                                /\ alias[c] \in A
                                /\ Day(arrived[c]) = Day(t)}

LEMMA FewerCalls ==
    ASSUME NEW S, IsFiniteSet(S), NEW T \in SUBSET S
    PROVE  /\ IsFiniteSet(T) /\ Cardinality(T) \in Nat /\ Cardinality(S) \in Nat
           /\ Cardinality(T) <= Cardinality(S)
BY FS_Subset, FS_CardinalityType

LEMMA OneMore ==
    ASSUME NEW S, IsFiniteSet(S), NEW x
    PROVE  /\ IsFiniteSet(S \cup {x}) /\ Cardinality(S \cup {x}) \in Nat
           /\ Cardinality(S \cup {x}) <= Cardinality(S) + 1
<1>1. Cardinality(S) \in Nat
  BY FS_CardinalityType
<1>2. /\ IsFiniteSet(S \cup {x})
      /\ Cardinality(S \cup {x}) = IF x \in S THEN Cardinality(S) ELSE Cardinality(S) + 1
  BY FS_AddElement, Zenon
<1> QED
  BY <1>1, <1>2

\* Where no call is added to any day, the limits hold on.
LEMMA LimitsKept ==
    ASSUME CallLimitsHold,
           \A A \in SUBSET AllAliases, t \in 0..MaxClock : Counted(A, t)' \subseteq Counted(A, t)
    PROVE  CallLimitsHold'
<1>1. ASSUME NEW A \in SUBSET AllAliases, NEW t \in 0..MaxClock
      PROVE  CountOf(A, t)' \in Nat /\ CountOf(A, t) \in Nat /\ CountOf(A, t)' <= CountOf(A, t)
  <2>1. IsFiniteSet(Counted(A, t))
    BY BudgetAssumption, FewerCalls DEF Counted
  <2>2. CountOf(A, t) = Cardinality(Counted(A, t)) /\ CountOf(A, t)' = Cardinality(Counted(A, t)')
    BY DEF CountOf, Counted
  <2> QED
    BY <2>1, <2>2, FewerCalls
<1>2. {"hard"} \in SUBSET AllAliases /\ {"ask", "auto"} \in SUBSET AllAliases /\ {"auto"} \in SUBSET AllAliases
  BY DEF AllAliases
<1>3. ASSUME NEW L \in {HardLimit, SharedLimit, AutoLimit}, L # NoLimit PROVE L \in Nat
  BY <1>3, BudgetAssumption
<1> QED
  BY <1>1, <1>2, <1>3 DEF CallLimitsHold

\* What check_budget counts before it lets one more call in is all there is.
LEMMA OneMoreCall ==
    ASSUME IInv, NEW c \in Calls, NEW a \in Aliases, NEW b \in Briefs, Reserve(c, a, b),
           NEW A \in SUBSET AllAliases, NEW t \in 0..MaxClock, NEW L \in Nat,
           CountOf(A, t) <= L, a \in A => CallsToday(A) < L
    PROVE  CountOf(A, t)' <= L
<1> DEFINE rows == {d \in RowsToday : IsCallRow(d) /\ alias[d] \in A}
           held == {d \in pending : alias[d] \in A}
<1>1. IsFiniteSet(Counted(A, t)) /\ IsFiniteSet(rows) /\ IsFiniteSet(held)
  BY BudgetAssumption, FewerCalls DEF Counted, RowsToday, IInv, TypeOK
<1>2. CountOf(A, t) = Cardinality(Counted(A, t)) /\ CountOf(A, t)' = Cardinality(Counted(A, t)')
  BY DEF CountOf, Counted
<1>3. CallsToday(A) = Cardinality(rows) + Cardinality(held)
  BY DEF CallsToday
<1>4. phase[c] = "new" /\ c \notin pending /\ ~Recorded(c)
  BY DEF Reserve, Arrives, IInv, PhaseOK, Free
<1>5. /\ alias' = [alias EXCEPT ![c] = a] /\ arrived' = [arrived EXCEPT ![c] = clock]
      /\ ledger' = ledger /\ pending' = pending \cup {c} /\ clock' = clock
  BY DEF Reserve, Arrives
<1>6. CASE a \in A /\ Day(clock) = Day(t)
  <2>1. Counted(A, t) \subseteq rows \cup held
    BY <1>6 DEF Counted, RowsToday, IsCallRow, Recorded
  <2>2. Counted(A, t)' \subseteq Counted(A, t) \cup {c}
    BY <1>5 DEF Counted, IsCallRow, IInv, TypeOK
  <2>3. Counted(A, t)' \subseteq (rows \cup held) \cup {c}
    BY <2>1, <2>2
  <2>4. /\ IsFiniteSet(rows \cup held)
        /\ Cardinality(rows) \in Nat /\ Cardinality(held) \in Nat /\ Cardinality(rows \cup held) \in Nat
        /\ Cardinality(rows \cup held) <= Cardinality(rows) + Cardinality(held)
    <3>1. /\ IsFiniteSet(rows \cup held) /\ IsFiniteSet(rows \cap held)
          /\ Cardinality(rows \cup held)
                = Cardinality(rows) + Cardinality(held) - Cardinality(rows \cap held)
      BY <1>1, FS_Union, FS_Intersection
    <3> QED
      BY <1>1, <3>1, FS_CardinalityType
  <2>5. /\ IsFiniteSet((rows \cup held) \cup {c})
        /\ Cardinality((rows \cup held) \cup {c}) <= Cardinality(rows \cup held) + 1
        /\ Cardinality((rows \cup held) \cup {c}) \in Nat
    BY <2>4, OneMore
  <2>6. Cardinality(Counted(A, t)') <= Cardinality((rows \cup held) \cup {c}) /\ Cardinality(Counted(A, t)') \in Nat
    BY <2>3, <2>5, FewerCalls
  <2> HIDE DEF rows, held
  <2> QED
    BY <1>2, <1>3, <1>6, <2>4, <2>5, <2>6
<1>7. CASE ~(a \in A /\ Day(clock) = Day(t))
  <2>1. Counted(A, t)' \subseteq Counted(A, t)
    BY <1>4, <1>5, <1>7 DEF Counted, IsCallRow, Day, IInv, TypeOK
  <2> QED
    BY <1>1, <1>2, <2>1, FewerCalls
<1> QED
  BY <1>6, <1>7

LEMMA ReserveRations ==
    ASSUME RInv, NEW c \in Calls, NEW a \in Aliases, NEW b \in Briefs, Reserve(c, a, b)
    PROVE  NothingLater' /\ CallsAreRationed'
<1>0. clock \in Nat /\ DedupeS \in Nat /\ \A d \in Calls : ledger[d].done \in Nat /\ arrived[d] \in Nat
  BY BudgetAssumption DEF RInv, IInv, TypeOK
<1>1. phase[c] = "new" /\ c \notin pending /\ ~Recorded(c)
  BY DEF Reserve, Arrives, RInv, IInv, PhaseOK, Free
<1>2. /\ arrived' = [arrived EXCEPT ![c] = clock] /\ brief' = [brief EXCEPT ![c] = b]
      /\ ledger' = ledger /\ pending' = pending \cup {c} /\ clock' = clock
      /\ ~IsDuplicate(b) /\ FitsBudget(a)
  BY DEF Reserve, Arrives
<1>3. NothingLater'
  BY <1>0, <1>2 DEF RInv, IInv, TypeOK, NothingLater
<1>4. ASSUME NEW t \in 0..MaxClock
      PROVE  /\ HardLimit # NoLimit   => CountOf({"hard"}, t)' <= HardLimit
             /\ SharedLimit # NoLimit => CountOf({"ask", "auto"}, t)' <= SharedLimit
             /\ AutoLimit # NoLimit   => CountOf({"auto"}, t)' <= AutoLimit
  <2>1. a \in AllAliases /\ {"hard"} \in SUBSET AllAliases /\ {"ask", "auto"} \in SUBSET AllAliases
        /\ {"auto"} \in SUBSET AllAliases
    BY BudgetAssumption DEF AllAliases
  <2>2. /\ a = "hard" => Under(HardLimit, CallsToday({"hard"}))
        /\ a # "hard" => Under(SharedLimit, CallsToday({"ask", "auto"}))
        /\ a = "auto" => Under(AutoLimit, CallsToday({"auto"}))
    BY <1>2 DEF FitsBudget
  <2>3. ASSUME HardLimit # NoLimit PROVE CountOf({"hard"}, t)' <= HardLimit
    <3>1. HardLimit \in Nat /\ CountOf({"hard"}, t) <= HardLimit
          /\ (a \in {"hard"} => CallsToday({"hard"}) < HardLimit)
      BY <2>2, <2>3, BudgetAssumption DEF Under, RInv, CallsAreRationed, CallLimitsHold
    <3> QED BY <2>1, <3>1, OneMoreCall DEF RInv
  <2>4. ASSUME SharedLimit # NoLimit PROVE CountOf({"ask", "auto"}, t)' <= SharedLimit
    <3>1. SharedLimit \in Nat /\ CountOf({"ask", "auto"}, t) <= SharedLimit
          /\ (a \in {"ask", "auto"} => CallsToday({"ask", "auto"}) < SharedLimit)
      BY <2>2, <2>4, BudgetAssumption DEF Under, RInv, CallsAreRationed, CallLimitsHold
    <3> QED BY <2>1, <3>1, OneMoreCall DEF RInv
  <2>5. ASSUME AutoLimit # NoLimit PROVE CountOf({"auto"}, t)' <= AutoLimit
    <3>1. AutoLimit \in Nat /\ CountOf({"auto"}, t) <= AutoLimit
          /\ (a \in {"auto"} => CallsToday({"auto"}) < AutoLimit)
      BY <2>2, <2>5, BudgetAssumption DEF Under, RInv, CallsAreRationed, CallLimitsHold
    <3> QED BY <2>1, <3>1, OneMoreCall DEF RInv
  <2> QED BY <2>3, <2>4, <2>5
<1>5. NoPromptResend'
  <2> SUFFICES ASSUME NEW d \in Calls, NEW e \in Calls, Spent(d)', brief'[d] = brief'[e],
                      (e \in pending \/ IsCallRow(e))', arrived'[e] > ledger'[d].done
               PROVE  arrived'[e] > ledger'[d].done + DedupeS
    BY DEF NoPromptResend
  <2>1. d # c /\ Spent(d) /\ brief'[d] = brief[d] /\ ledger'[d] = ledger[d]
    BY <1>1, <1>2 DEF Spent, Recorded, RInv, IInv, TypeOK
  <2>2. CASE e = c
    <3>1. brief[d] = b /\ arrived'[e] = clock
      BY <1>2, <2>1, <2>2 DEF RInv, IInv, TypeOK
    <3>2. DedupeS > 0 => ~(ledger[d].done >= clock - DedupeS)
      BY <1>2, <2>1, <3>1 DEF IsDuplicate
    <3> QED BY <1>0, <2>1, <3>1, <3>2
  <2>3. CASE e # c
    <3>1. brief'[e] = brief[e] /\ arrived'[e] = arrived[e] /\ (e \in pending \/ IsCallRow(e))
      BY <1>2, <2>3 DEF IsCallRow, RInv, IInv, TypeOK
    <3> QED BY <2>1, <3>1 DEF RInv, CallsAreRationed, NoPromptResend
  <2> QED BY <2>2, <2>3
<1> QED
  BY <1>3, <1>4, <1>5 DEF CallsAreRationed, CallLimitsHold

\* A call that is refused, ends, is lost or goes on: what it writes, it writes now,
\* and it counts after the step only if it counted before.
LEMMA EndRations ==
    ASSUME RInv, NEW c \in Calls, clock' = clock, pending' \subseteq pending,
           \A d \in Calls \ {c} : /\ ledger'[d] = ledger[d] /\ alias'[d] = alias[d]
                                  /\ brief'[d] = brief[d] /\ arrived'[d] = arrived[d],
           arrived'[c] \in Nat, arrived'[c] <= clock,
           ledger'[c] = ledger[c] \/ ledger'[c].done = clock,
           \/ c \notin pending' /\ ~IsCallRow(c)'
           \/ /\ IsCallRow(c) \/ c \in pending
              /\ UNCHANGED <<alias[c], brief[c], arrived[c]>>,
           ledger'[c] = ledger[c] => ~Spent(c) \/ brief'[c] = brief[c]
    PROVE  NothingLater' /\ CallsAreRationed'
<1>0. clock \in Nat /\ DedupeS \in Nat /\ \A d \in Calls : ledger[d].done \in Nat /\ arrived[d] \in Nat
  BY BudgetAssumption DEF RInv, IInv, TypeOK
<1>1. NothingLater'
  BY <1>0 DEF RInv, NothingLater
<1>2. CallLimitsHold'
  <2>1. ASSUME NEW A \in SUBSET AllAliases, NEW t \in 0..MaxClock
        PROVE  Counted(A, t)' \subseteq Counted(A, t)
    BY DEF Counted, IsCallRow
  <2> QED BY <2>1, LimitsKept DEF RInv, CallsAreRationed
<1>3. NoPromptResend'
  <2> SUFFICES ASSUME NEW d \in Calls, NEW e \in Calls, Spent(d)', brief'[d] = brief'[e],
                      (e \in pending \/ IsCallRow(e))', arrived'[e] > ledger'[d].done
               PROVE  arrived'[e] > ledger'[d].done + DedupeS
    BY DEF NoPromptResend
  <2>1. arrived'[e] \in Nat /\ arrived'[e] <= clock
    BY <1>0 DEF RInv, NothingLater
  <2>2. ledger'[d] = ledger[d]
    BY <1>0, <2>1
  <2>3. Spent(d) /\ brief'[d] = brief[d]
    BY <2>2 DEF Spent
  <2>4. (e \in pending \/ IsCallRow(e)) /\ brief'[e] = brief[e] /\ arrived'[e] = arrived[e]
    BY DEF IsCallRow
  <2> QED BY <2>2, <2>3, <2>4 DEF RInv, CallsAreRationed, NoPromptResend
<1> QED
  BY <1>1, <1>2, <1>3 DEF CallsAreRationed

LEMMA NextRInv == RInv /\ [Next]_vars => RInv'
<1> SUFFICES ASSUME RInv, [Next]_vars PROVE NothingLater' /\ CallsAreRationed'
  BY NextIInv DEF RInv
<1>0. /\ TypeOK /\ clock \in Nat
      /\ \A d \in Calls : /\ arrived[d] \in Nat /\ arrived[d] <= clock /\ PhaseOK(d)
                          /\ ledger[d].done \in Nat /\ ledger[d].done <= clock
  BY DEF RInv, IInv, TypeOK, NothingLater
<1>1. ASSUME NEW c \in Calls, NEW a \in Aliases, NEW b \in Briefs,
             NEW o \in {"refused:budget", "refused:other"}, Arrives(c, a, b), Refuse(c, o)
      PROVE  NothingLater' /\ CallsAreRationed'
  <2>1. c \notin pending /\ ~Recorded(c)
    BY <1>0, <1>1 DEF Arrives, PhaseOK, Free
  <2>2. c \notin pending' /\ ~IsCallRow(c)' /\ ~Spent(c)
    BY <1>0, <1>1, <2>1 DEF Refuse, Recorded, IsCallRow, Spent, TypeOK
  <2>3. /\ arrived'[c] = clock /\ (ledger'[c] = ledger[c] \/ ledger'[c].done = clock)
        /\ clock' = clock /\ pending' = pending
        /\ \A d \in Calls \ {c} : /\ ledger'[d] = ledger[d] /\ alias'[d] = alias[d]
                                  /\ brief'[d] = brief[d] /\ arrived'[d] = arrived[d]
    BY <1>0, <1>1 DEF Arrives, Refuse, TypeOK
  <2> QED BY <1>0, <2>2, <2>3, EndRations
<1>2. ASSUME NEW c \in Calls, NEW o \in {"ok", "error"}, NEW cost, NEW n,
             phase[c] = "sending", Settle(c, o, cost, n)
      PROVE  NothingLater' /\ CallsAreRationed'
  <2>1. c \in pending
    BY <1>0, <1>2 DEF PhaseOK
  <2>2. /\ pending' \subseteq pending /\ UNCHANGED <<clock, alias, brief, arrived>>
        /\ ledger'[c] = ledger[c] \/ ledger'[c].done = clock
        /\ \A d \in Calls \ {c} : ledger'[d] = ledger[d]
    BY <1>0, <1>2 DEF Settle, TypeOK
  <2> QED BY <1>0, <2>1, <2>2, EndRations
<1>3. CASE UNCHANGED <<clock, alias, brief, arrived, ledger>> /\ pending' \subseteq pending
  <2>1. CASE Calls = {}
    BY <1>3, <2>1, LimitsKept DEF RInv, CallsAreRationed, NoPromptResend, NothingLater, Counted
  <2>2. CASE Calls # {}
    <3>1. PICK c \in Calls : TRUE
      BY <2>2
    <3>2. \/ c \notin pending' /\ ~IsCallRow(c)'
          \/ IsCallRow(c) \/ c \in pending
      BY <1>3 DEF IsCallRow
    <3> QED BY <1>0, <1>3, <3>1, <3>2, EndRations
  <2> QED BY <2>1, <2>2
<1>4. CASE Tick
  <2>1. UNCHANGED <<pending, ledger, alias, brief, arrived>> /\ clock' = clock + 1
    BY <1>4 DEF Tick, callVars
  <2>2. NothingLater'
    BY <1>0, <2>1 DEF NothingLater
  <2>3. CallLimitsHold'
    BY <2>1, LimitsKept DEF RInv, CallsAreRationed, Counted, IsCallRow
  <2>4. NoPromptResend'
    BY <2>1 DEF RInv, CallsAreRationed, NoPromptResend, Spent, IsCallRow
  <2> QED BY <2>2, <2>3, <2>4 DEF CallsAreRationed
<1>5. ASSUME NEW c \in Calls, NEW a \in Aliases, NEW b \in Briefs, Handle(c, a, b)
      PROVE  NothingLater' /\ CallsAreRationed'
  BY <1>5, <1>1, ReserveRations DEF Handle, RefuseUnfit, RefuseDuplicate, RefuseBudget
<1>6. ASSUME NEW c \in Calls, PostReturns(c) PROVE NothingLater' /\ CallsAreRationed'
  <2>1. CASE RetryUnbilled(c)
    BY <1>3, <2>1 DEF RetryUnbilled, callVars
  <2>2. CASE FailUnbilled(c) \/ FailMaybeBilled(c) \/ Cancel(c)
    BY <1>2, <2>2 DEF FailUnbilled, FailMaybeBilled, Cancel
  <2>3. CASE Answer(c)
    BY <1>2, <2>3 DEF Answer
  <2> QED BY <1>6, <2>1, <2>2, <2>3 DEF PostReturns
<1>7. CASE Restart
  BY <1>3, <1>7 DEF Restart, callVars
<1>8. CASE UNCHANGED vars
  BY <1>3, <1>8 DEF vars
<1> QED
  BY <1>4, <1>5, <1>6, <1>7, <1>8 DEF Next

\* The daily limits per alias hold, calls in flight included, and no identical
\* brief is paid for within the window that starts when the first call ended
\* (check_budget, _duplicate_age).
THEOREM CallsRationed == Spec => []CallsAreRationed
<1>1. Init => RInv
  <2> SUFFICES ASSUME Init PROVE RInv
    OBVIOUS
  <2>1. \A c \in Calls : ~IsCallRow(c) /\ c \notin pending /\ ~Spent(c)
    BY DEF Init, IsCallRow, Spent, NoRow
  <2>2. \A A, t : CountOf(A, t) = 0
    BY <2>1, FS_EmptySet DEF CountOf
  <2>3. CallsAreRationed
    BY <2>1, <2>2, BudgetAssumption DEF CallsAreRationed, CallLimitsHold, NoPromptResend
  <2>4. NothingLater
    BY DEF Init, NothingLater, NoRow
  <2> QED BY <2>3, <2>4, InitIInv DEF RInv
<1>2. RInv => CallsAreRationed
  BY DEF RInv
<1> QED
  BY <1>1, <1>2, NextRInv, PTL DEF Spec
-----------------------------------------------------------------------------
(* Sums over finite sets of calls.                                         *)

LEMMA UnitsOfOne ==
    ASSUME NEW f, NEW x, f[x] \in Nat
    PROVE  IsFiniteSet({x} \X (1..f[x])) /\ Cardinality({x} \X (1..f[x])) = f[x]
<1>1. IsFiniteSet(1..f[x]) /\ Cardinality(1..f[x]) = f[x]
  <2>1. ASSUME NEW n \in Nat PROVE IsFiniteSet(1..n) /\ Cardinality(1..n) = n
    <3>1. 1 \in Int /\ n \in Int
      OBVIOUS
    <3>2. /\ IsFiniteSet(1..n)
          /\ Cardinality(1..n) = IF 1 > n THEN 0 ELSE n - 1 + 1
      BY <3>1, FS_Interval, Zenon
    <3> QED BY <3>2
  <2> QED BY <2>1
<1>2. IsFiniteSet({x}) /\ Cardinality({x}) = 1
  BY FS_Singleton
<1>3. /\ IsFiniteSet({x} \X (1..f[x]))
      /\ Cardinality({x} \X (1..f[x])) = Cardinality({x}) * Cardinality(1..f[x])
  BY <1>1, <1>2, FS_Product, Zenon
<1> QED
  BY <1>1, <1>2, <1>3

LEMMA TotalType ==
    ASSUME NEW S, IsFiniteSet(S), NEW f, \A x \in S : f[x] \in Nat
    PROVE  IsFiniteSet(Units(f, S)) /\ Total(f, S) \in Nat
<1> DEFINE U == {{x} \X (1..f[x]) : x \in S}
           g == [x \in S |-> {x} \X (1..f[x])]
<1>1. g \in Surjection(S, U)
  BY DEF Surjection
<1>2. IsFiniteSet(U)
  BY <1>1, FS_Surjection
<1>3. \A T \in U : IsFiniteSet(T)
  BY UnitsOfOne
<1>4. IsFiniteSet(UNION U)
  BY <1>2, <1>3, FS_UNION
<1> QED
  BY <1>4, FS_CardinalityType DEF Units, Total

\* A sum grows with the set and with its terms.
LEMMA TotalGrows ==
    ASSUME NEW S, NEW T, IsFiniteSet(T), S \subseteq T, NEW f, NEW g,
           \A x \in S : f[x] \in Nat, \A x \in T : g[x] \in Nat, \A x \in S : f[x] <= g[x]
    PROVE  Total(f, S) \in Nat /\ Total(g, T) \in Nat /\ Total(f, S) <= Total(g, T)
<1>1. IsFiniteSet(S)
  BY FS_Subset
<1>2. Units(f, S) \subseteq Units(g, T)
  <2>1. \A x \in S : 1..f[x] \subseteq 1..g[x]
    OBVIOUS
  <2> QED BY <2>1 DEF Units
<1> QED
  BY <1>1, <1>2, TotalType, FS_Subset DEF Total

LEMMA TotalSplits ==
    ASSUME NEW S, IsFiniteSet(S), NEW T, IsFiniteSet(T), S \cap T = {},
           NEW f, \A x \in S \cup T : f[x] \in Nat
    PROVE  Total(f, S \cup T) = Total(f, S) + Total(f, T)
<1>1. /\ IsFiniteSet(Units(f, S)) /\ Total(f, S) \in Nat
      /\ IsFiniteSet(Units(f, T)) /\ Total(f, T) \in Nat
  BY TotalType
<1>2. Units(f, S \cup T) = Units(f, S) \cup Units(f, T)
  BY DEF Units
<1>3. Units(f, S) \cap Units(f, T) = {}
  BY DEF Units
<1>4. /\ Cardinality(Units(f, S) \cup Units(f, T))
            = Cardinality(Units(f, S)) + Cardinality(Units(f, T))
               - Cardinality(Units(f, S) \cap Units(f, T))
      /\ Cardinality(Units(f, S) \cap Units(f, T)) = 0
  BY <1>1, <1>3, FS_Union, FS_EmptySet
<1>5. Total(f, S \cup T) = Total(f, S) + Total(f, T) - 0
  BY <1>2, <1>4 DEF Total
<1> QED
  BY <1>1, <1>5

\* One term taken out of a sum.
LEMMA TotalWithout ==
    ASSUME NEW S, IsFiniteSet(S), NEW f, \A x \in S : f[x] \in Nat, NEW c \in S
    PROVE  /\ Total(f, S \ {c}) \in Nat
           /\ Total(f, S) = Total(f, S \ {c}) + f[c]
<1>1. IsFiniteSet(S \ {c}) /\ IsFiniteSet({c})
  BY FS_RemoveElement, FS_Singleton
<1>2. S = (S \ {c}) \cup {c} /\ (S \ {c}) \cap {c} = {}
  OBVIOUS
<1>3. Total(f, (S \ {c}) \cup {c}) = Total(f, S \ {c}) + Total(f, {c})
  BY <1>1, TotalSplits
<1>4. Total(f, {c}) = f[c]
  <2>1. Units(f, {c}) = {c} \X (1..f[c])
    BY DEF Units
  <2> QED BY <2>1, UnitsOfOne DEF Total
<1>5. Total(f, S \ {c}) \in Nat
  BY <1>1, TotalType
<1> QED
  BY <1>2, <1>3, <1>4, <1>5
-----------------------------------------------------------------------------
(* The caps.  A call weighs on its day and its month by its row once it    *)
(* has one and by its reservation until then.                              *)

Load == [c \in Calls |-> IF Recorded(c) THEN ledger[c].cost
                         ELSE IF c \in pending THEN WorstOf(c) ELSE 0]
Long      == {c \in Calls : ledger[c].cost > WorstOf(c)}
DayOf(t)   == {c \in Calls : Day(arrived[c]) = Day(t)}
MonthOf(t) == {c \in Calls : Month(arrived[c]) = Month(t)}

RowFits(c) == /\ ledger[c].cost <= WorstOf(c) + Extra
              /\ ~Recorded(c) => ledger[c].cost = 0

CapsOK ==
    \A t \in 0..MaxClock :
        /\ Total(Load, DayOf(t))   <= DayCap   + Extra * Cardinality(Long \cap DayOf(t))
        /\ Total(Load, MonthOf(t)) <= MonthCap + Extra * Cardinality(Long \cap MonthOf(t))

MInv == IInv /\ (\A c \in Calls : RowFits(c)) /\ CapsOK

LEMMA LoadType ==
    ASSUME IInv, NEW c \in Calls
    PROVE  Load[c] \in Nat /\ Costs[c] \in Nat /\ Held[c] \in Nat
BY WorstType DEF Load, Costs, Held, IInv, TypeOK

LEMMA FiniteCalls ==
    ASSUME NEW S \in SUBSET Calls
    PROVE  IsFiniteSet(S) /\ Cardinality(S) \in Nat
BY BudgetAssumption, FS_Subset, FS_CardinalityType

\* No call is both booked and reserved, so what a set of calls costs and what is
\* held for it add up to its load.
LEMMA LoadIsSpend ==
    ASSUME IInv, NEW S \in SUBSET Calls
    PROVE  /\ CostOf({c \in S : Recorded(c)}) \in Nat /\ HeldFor(S \cap pending) \in Nat
           /\ Total(Load, S) = CostOf({c \in S : Recorded(c)}) + HeldFor(S \cap pending)
<1> DEFINE R == {c \in S : Recorded(c)}
           H == S \cap pending
           N == S \ (R \cup H)
<1>0. \A c \in Calls : Load[c] \in Nat /\ Costs[c] \in Nat /\ Held[c] \in Nat
  BY LoadType
<1>1. IsFiniteSet(R) /\ IsFiniteSet(H) /\ IsFiniteSet(N) /\ IsFiniteSet(R \cup H)
  BY FiniteCalls
<1>2. R \cap H = {}
  BY DEF IInv, TypeOK, PhaseOK, Free, Phases
<1>3. Units(Load, R) = Units(Costs, R)
  BY DEF Units, Load, Costs
<1>4. Units(Load, H) = Units(Held, H)
  <2>1. \A c \in H : Load[c] = Held[c]
    BY <1>2 DEF Load, Held
  <2> QED BY <2>1 DEF Units
<1>5. Units(Load, N) = {}
  <2>1. \A c \in N : 1..Load[c] = {}
    BY DEF Load
  <2> QED BY <2>1 DEF Units
<1>6. Total(Load, R) = CostOf(R) /\ Total(Load, H) = HeldFor(H) /\ Total(Load, N) = 0
  BY <1>3, <1>4, <1>5, FS_EmptySet DEF Total, CostOf, HeldFor
<1>7. CostOf(R) \in Nat /\ HeldFor(H) \in Nat
  BY <1>0, <1>1, TotalType DEF CostOf, HeldFor
<1>8. Total(Load, R \cup H) = Total(Load, R) + Total(Load, H)
  BY <1>0, <1>1, <1>2, TotalSplits
<1>9. Total(Load, (R \cup H) \cup N) = Total(Load, R \cup H) + Total(Load, N)
  <2>1. (R \cup H) \cap N = {} /\ \A c \in (R \cup H) \cup N : Load[c] \in Nat
    BY <1>0
  <2> HIDE DEF R, H, N
  <2> QED BY <1>1, <2>1, TotalSplits
<1>10. (R \cup H) \cup N = S
  OBVIOUS
<1> HIDE DEF R, H, N
<1>11. Total(Load, S) = CostOf(R) + HeldFor(H)
  BY <1>6, <1>7, <1>8, <1>9, <1>10
<1> QED
  BY <1>7, <1>11 DEF R, H

LEMMA Times ==
    ASSUME NEW e \in Nat, NEW i \in Nat, NEW j \in Nat
    PROVE  /\ e * i \in Nat /\ e * (i + 1) = e * i + e
           /\ i <= j => e * i <= e * j
OBVIOUS

\* When a period passes from S with loads f to T with loads g and only the call c
\* weighs more, by at most Extra and only when it becomes an overlong one, what the
\* limit allows grows with it.
LEMMA CapKept ==
    ASSUME NEW S \in SUBSET Calls, NEW T \in SUBSET Calls, NEW c, T \subseteq S, S \subseteq T \cup {c},
           NEW f, NEW g, \A d \in Calls : f[d] \in Nat /\ g[d] \in Nat,
           \A d \in T \ {c} : g[d] <= f[d],
           NEW L \in SUBSET Calls, NEW K \in SUBSET Calls, L \ {c} \subseteq K,
           \/ c \notin T /\ (c \notin S \/ c \notin L)
           \/ c \in T /\ g[c] <= f[c] /\ (c \in L => c \in K)
           \/ c \in T /\ g[c] <= f[c] + Extra /\ c \notin L /\ c \in K,
           NEW limit \in Nat, Total(f, S) <= limit + Extra * Cardinality(L \cap S)
    PROVE  Total(g, T) <= limit + Extra * Cardinality(K \cap T)
<1>0. /\ IsFiniteSet(S) /\ IsFiniteSet(T) /\ IsFiniteSet(L \cap S) /\ IsFiniteSet(K \cap T)
      /\ Cardinality(L \cap S) \in Nat /\ Cardinality(K \cap T) \in Nat
  BY FiniteCalls
<1>1. CASE /\ \A d \in T : g[d] <= f[d]
           /\ L \cap S \subseteq K \cap T
  <2>1. Total(g, T) \in Nat /\ Total(f, S) \in Nat /\ Total(g, T) <= Total(f, S)
    BY <1>0, <1>1, TotalGrows
  <2>2. Cardinality(L \cap S) <= Cardinality(K \cap T)
    BY <1>0, <1>1, FS_Subset
  <2>3. /\ Extra * Cardinality(L \cap S) \in Nat /\ Extra * Cardinality(K \cap T) \in Nat
        /\ Extra * Cardinality(L \cap S) <= Extra * Cardinality(K \cap T)
    BY <1>0, <2>2, Times, BudgetAssumption
  <2> QED BY <2>1, <2>3
<1>2. CASE c \in T /\ g[c] <= f[c] + Extra /\ c \notin L /\ c \in K
  <2>1. /\ Total(g, T \ {c}) \in Nat /\ Total(g, T) = Total(g, T \ {c}) + g[c]
        /\ Total(f, S \ {c}) \in Nat /\ Total(f, S) = Total(f, S \ {c}) + f[c]
    BY <1>0, <1>2, TotalWithout
  <2>2. Total(g, T \ {c}) <= Total(f, S \ {c})
    <3>1. IsFiniteSet(S \ {c}) /\ T \ {c} \subseteq S \ {c}
      BY FiniteCalls
    <3> QED BY <3>1, TotalGrows
  <2>3. Cardinality(L \cap S) + 1 <= Cardinality(K \cap T)
    <3>1. (L \cap S) \cup {c} \subseteq K \cap T
      BY <1>2
    <3>2. /\ IsFiniteSet((L \cap S) \cup {c})
          /\ Cardinality((L \cap S) \cup {c}) = Cardinality(L \cap S) + 1
      BY <1>0, <1>2, FS_AddElement
    <3> QED BY <1>0, <3>1, <3>2, FS_Subset
  <2>4. /\ Extra * Cardinality(L \cap S) \in Nat /\ Extra * Cardinality(K \cap T) \in Nat
        /\ Extra * Cardinality(L \cap S) + Extra <= Extra * Cardinality(K \cap T)
    <3>1. Extra \in Nat /\ Cardinality(L \cap S) + 1 \in Nat
      BY <1>0, BudgetAssumption
    <3>2. Extra * (Cardinality(L \cap S) + 1) <= Extra * Cardinality(K \cap T)
      BY <1>0, <2>3, <3>1, Times
    <3>3. Extra * (Cardinality(L \cap S) + 1) = Extra * Cardinality(L \cap S) + Extra
      BY <1>0, <3>1, Times
    <3> QED BY <1>0, <3>1, <3>2, <3>3, Times
  <2>5. f[c] \in Nat /\ g[c] \in Nat /\ Extra \in Nat
    BY <1>2, BudgetAssumption
  <2> QED BY <1>2, <2>1, <2>2, <2>4, <2>5
<1> QED
  BY <1>1, <1>2
\* The call c joins the period: it weighs nothing, or what it weighs fitted.
LEMMA CapJoined ==
    ASSUME NEW S \in SUBSET Calls, NEW T \in SUBSET Calls, NEW c, T \ {c} = S \ {c},
           NEW f, NEW g, \A d \in Calls : f[d] \in Nat /\ g[d] \in Nat,
           \A d \in Calls \ {c} : g[d] = f[d], f[c] = 0,
           NEW L \in SUBSET Calls, c \notin L,
           NEW limit \in Nat, Total(f, S) <= limit + Extra * Cardinality(L \cap S),
           c \in T => g[c] = 0 \/ Total(f, S) + g[c] <= limit
    PROVE  Total(g, T) <= limit + Extra * Cardinality(L \cap T)
<1>1. /\ IsFiniteSet(S) /\ IsFiniteSet(T) /\ IsFiniteSet(S \ {c})
      /\ Cardinality(L \cap S) \in Nat /\ L \cap T = L \cap S
  BY FiniteCalls
<1>2. /\ Total(g, T \ {c}) \in Nat /\ Total(f, S) \in Nat
      /\ Total(g, T \ {c}) <= Total(f, S)
  BY <1>1, TotalGrows
<1>3. Total(g, T) = Total(g, T \ {c}) + (IF c \in T THEN g[c] ELSE 0)
  <2>1. CASE c \in T
    BY <1>1, <2>1, TotalWithout
  <2>2. CASE c \notin T
    <3>1. T \ {c} = T
      BY <2>2
    <3>2. Total(g, T \ {c}) = Total(g, T)
      BY <3>1
    <3> QED BY <1>2, <2>2, <3>2
  <2> QED BY <2>1, <2>2
<1> DEFINE dearer == Extra * Cardinality(L \cap S)
<1>4. dearer \in Nat /\ Extra * Cardinality(L \cap T) = dearer /\ Total(f, S) <= limit + dearer
  BY <1>1, Times, BudgetAssumption
<1>5. c \in T => g[c] \in Nat
  OBVIOUS
<1> HIDE DEF dearer
<1>6. Total(g, T) <= limit + dearer
  <2>1. CASE c \in T
    BY <1>2, <1>3, <1>4, <1>5, <2>1
  <2>2. CASE c \notin T
    BY <1>2, <1>3, <1>4, <2>2
  <2> QED BY <2>1, <2>2
<1> QED
  BY <1>4, <1>6

\* Steps that bring in no call.
LEMMA CapsStay ==
    ASSUME MInv, IInv', NEW c, arrived' = arrived,
           \A d \in Calls \ {c} : Load'[d] <= Load[d] /\ (d \in Long => d \in Long'),
           c \in Calls =>
              \/ Load'[c] <= Load[c] /\ (c \in Long => c \in Long')
              \/ Load'[c] <= Load[c] + Extra /\ c \notin Long /\ c \in Long'
    PROVE  CapsOK'
<1>1. \A d \in Calls : Load[d] \in Nat /\ Load'[d] \in Nat
  <2>1. ASSUME NEW d \in Calls PROVE Load'[d] \in Nat
    BY BudgetAssumption DEF Load, WorstOf, IInv, TypeOK
  <2> QED BY <2>1, LoadType DEF MInv
<1>2. Long \in SUBSET Calls /\ Long' \in SUBSET Calls /\ Long \ {c} \subseteq Long'
  BY DEF Long
<1>3. ASSUME NEW S \in SUBSET Calls, NEW limit \in Nat,
             Total(Load, S) <= limit + Extra * Cardinality(Long \cap S)
      PROVE  Total(Load', S) <= limit + Extra * Cardinality(Long' \cap S)
  <2>1. \A d \in S \ {c} : Load'[d] <= Load[d]
    OBVIOUS
  <2>2. \/ c \notin S
        \/ c \in S /\ Load'[c] <= Load[c] /\ (c \in Long => c \in Long')
        \/ c \in S /\ Load'[c] <= Load[c] + Extra /\ c \notin Long /\ c \in Long'
    OBVIOUS
  <2> QED BY <1>1, <1>2, <1>3, <2>1, <2>2, CapKept
<1>4. ASSUME NEW t \in 0..MaxClock
      PROVE  /\ DayOf(t)' = DayOf(t) /\ MonthOf(t)' = MonthOf(t)
             /\ DayOf(t) \in SUBSET Calls /\ MonthOf(t) \in SUBSET Calls
  BY DEF DayOf, MonthOf
<1> QED
  BY <1>3, <1>4, BudgetAssumption DEF MInv, CapsOK
\* Steps that bring one in.
LEMMA CapsJoined ==
    ASSUME MInv, IInv', NEW c \in Calls, clock' = clock,
           phase[c] = "new", arrived' = [arrived EXCEPT ![c] = clock],
           \A d \in Calls \ {c} : ledger'[d] = ledger[d] /\ alias'[d] = alias[d]
                                  /\ (d \in pending' <=> d \in pending),
           ledger'[c].cost = 0,
           \/ Load'[c] = 0
           \/ DayCost + Load'[c] <= DayCap /\ MonthCost + Load'[c] <= MonthCap
    PROVE  CapsOK'
<1>0. clock \in Nat /\ arrived \in [Calls -> Nat] /\ pending \in SUBSET Calls /\ pending' \in SUBSET Calls
  BY BudgetAssumption DEF MInv, IInv, TypeOK
<1>1. /\ \A d \in Calls : Load[d] \in Nat
      /\ \A d \in Calls : Load'[d] \in Nat
  <2>1. ASSUME NEW d \in Calls PROVE Load'[d] \in Nat
    BY BudgetAssumption DEF Load, WorstOf, IInv, TypeOK
  <2> QED BY <2>1, LoadType DEF MInv
<1>2. \A d \in Calls \ {c} : Load'[d] = Load[d]
  BY DEF Load, Recorded, WorstOf
<1>3. Load[c] = 0 /\ c \notin Long /\ c \notin Long'
  <2>1. c \notin pending /\ ~Recorded(c) /\ ledger[c].cost = 0
    BY DEF MInv, IInv, PhaseOK, Free, RowFits
  <2>2. WorstOf(c) \in Nat /\ WorstOf(c)' \in Nat
    BY BudgetAssumption DEF WorstOf, MInv, IInv, TypeOK
  <2> QED BY <2>1, <2>2 DEF Load, Long
<1>4. Long' = Long /\ Long \in SUBSET Calls
  BY <1>3 DEF Long, WorstOf
<1>5. ASSUME NEW S \in SUBSET Calls, NEW T \in SUBSET Calls, T \ {c} = S \ {c}, NEW limit \in Nat,
             Total(Load, S) <= limit + Extra * Cardinality(Long \cap S),
             c \in T => Load'[c] = 0 \/ Total(Load, S) + Load'[c] <= limit
      PROVE  Total(Load', T) <= limit + Extra * Cardinality(Long' \cap T)
  <2> HIDE DEF Load
  <2> QED BY <1>1, <1>2, <1>3, <1>4, <1>5, CapJoined
<1>6. ASSUME NEW S \in SUBSET Calls, NEW rows \in SUBSET Calls, {d \in S : Recorded(d)} = rows
      PROVE  /\ Total(Load, S) \in Nat /\ CostOf(rows) + HeldFor(pending) \in Nat
             /\ Total(Load, S) <= CostOf(rows) + HeldFor(pending)
  <2>1. /\ CostOf(rows) \in Nat /\ HeldFor(S \cap pending) \in Nat
        /\ Total(Load, S) = CostOf(rows) + HeldFor(S \cap pending)
    BY <1>6, LoadIsSpend DEF MInv
  <2>2. /\ HeldFor(pending) \in Nat
        /\ HeldFor(S \cap pending) <= HeldFor(pending)
    <3>1. IsFiniteSet(pending) /\ \A d \in pending : Held[d] \in Nat
      BY <1>0, FiniteCalls, LoadType DEF MInv
    <3> QED BY <3>1, TotalGrows DEF HeldFor
  <2> QED BY <2>1, <2>2
<1>7. ASSUME NEW t \in 0..MaxClock
      PROVE  Total(Load', DayOf(t)') <= DayCap + Extra * Cardinality(Long' \cap DayOf(t)')
  <2>1. DayOf(t) \in SUBSET Calls /\ DayOf(t)' \in SUBSET Calls /\ DayOf(t)' \ {c} = DayOf(t) \ {c}
    BY <1>0 DEF DayOf, Day
  <2>2. ASSUME c \in DayOf(t)', DayCost + Load'[c] <= DayCap
        PROVE  Total(Load, DayOf(t)) + Load'[c] <= DayCap
    <3>1. Day(clock) = Day(t)
      BY <1>0, <2>2 DEF DayOf, Day
    <3>2. {d \in DayOf(t) : Recorded(d)} = RowsToday /\ RowsToday \in SUBSET Calls
      BY <3>1 DEF DayOf, RowsToday
    <3>3. DayCost \in Nat /\ Total(Load, DayOf(t)) \in Nat /\ Total(Load, DayOf(t)) <= DayCost
      BY <1>6, <2>1, <3>2 DEF DayCost
    <3> QED BY <1>1, <2>2, <3>3, BudgetAssumption
  <2>3. DayCap \in Nat /\ Total(Load, DayOf(t)) <= DayCap + Extra * Cardinality(Long \cap DayOf(t))
    BY BudgetAssumption DEF MInv, CapsOK
  <2> QED BY <1>5, <2>1, <2>2, <2>3
<1>8. ASSUME NEW t \in 0..MaxClock
      PROVE  Total(Load', MonthOf(t)') <= MonthCap + Extra * Cardinality(Long' \cap MonthOf(t)')
  <2>1. MonthOf(t) \in SUBSET Calls /\ MonthOf(t)' \in SUBSET Calls /\ MonthOf(t)' \ {c} = MonthOf(t) \ {c}
    BY <1>0 DEF MonthOf, Month
  <2>2. ASSUME c \in MonthOf(t)', MonthCost + Load'[c] <= MonthCap
        PROVE  Total(Load, MonthOf(t)) + Load'[c] <= MonthCap
    <3>1. Month(clock) = Month(t)
      BY <1>0, <2>2 DEF MonthOf, Month
    <3>2. {d \in MonthOf(t) : Recorded(d)} = RowsThisMonth /\ RowsThisMonth \in SUBSET Calls
      BY <3>1 DEF MonthOf, RowsThisMonth
    <3>3. MonthCost \in Nat /\ Total(Load, MonthOf(t)) \in Nat /\ Total(Load, MonthOf(t)) <= MonthCost
      BY <1>6, <2>1, <3>2 DEF MonthCost
    <3> QED BY <1>1, <2>2, <3>3, BudgetAssumption
  <2>3. MonthCap \in Nat /\ Total(Load, MonthOf(t)) <= MonthCap + Extra * Cardinality(Long \cap MonthOf(t))
    BY BudgetAssumption DEF MInv, CapsOK
  <2> QED BY <1>5, <2>1, <2>2, <2>3
<1> QED
  BY <1>7, <1>8 DEF CapsOK
LEMMA NextMInv == MInv /\ [Next]_vars => MInv'
<1> SUFFICES ASSUME MInv, [Next]_vars PROVE (\A d \in Calls : RowFits(d))' /\ CapsOK'
  BY NextIInv DEF MInv
<1>0. /\ TypeOK /\ TypeOK' /\ IInv' /\ Extra \in Nat
      /\ \A d \in Calls : PhaseOK(d) /\ RowFits(d) /\ WorstOf(d) \in Nat \ {0} /\ WorstOf(d)' \in Nat \ {0}
  BY NextIInv, BudgetAssumption DEF MInv, IInv, TypeOK, WorstOf
<1>1. ASSUME NEW c \in Calls, NEW a \in Aliases, NEW b \in Briefs,
             NEW o \in {"refused:budget", "refused:other"}, Arrives(c, a, b), Refuse(c, o)
      PROVE  (\A d \in Calls : RowFits(d))' /\ CapsOK'
  <2>1. /\ phase[c] = "new" /\ arrived' = [arrived EXCEPT ![c] = clock] /\ clock' = clock
        /\ pending' = pending /\ c \notin pending /\ ~Recorded(c)
        /\ \A d \in Calls \ {c} : ledger'[d] = ledger[d] /\ alias'[d] = alias[d]
    BY <1>0, <1>1 DEF Arrives, Refuse, TypeOK, PhaseOK, Free
  <2>2. ledger'[c].cost = 0
    BY <1>0, <1>1, <2>1 DEF Refuse, TypeOK, RowFits
  <2>3. Load'[c] = 0
    BY <2>1, <2>2 DEF Load
  <2>4. (\A d \in Calls : RowFits(d))'
    BY <1>0, <2>1, <2>2 DEF RowFits, Recorded, WorstOf
  <2> QED BY <1>0, <2>1, <2>2, <2>3, <2>4, CapsJoined
<1>2. ASSUME NEW c \in Calls, NEW a \in Aliases, NEW b \in Briefs, Reserve(c, a, b)
      PROVE  (\A d \in Calls : RowFits(d))' /\ CapsOK'
  <2>1. /\ phase[c] = "new" /\ arrived' = [arrived EXCEPT ![c] = clock] /\ clock' = clock
        /\ pending' = pending \cup {c} /\ c \notin pending /\ ~Recorded(c) /\ ledger' = ledger
        /\ alias' = [alias EXCEPT ![c] = a] /\ FitsBudget(a)
    BY <1>0, <1>2 DEF Arrives, Reserve, PhaseOK, Free
  <2>2. ledger'[c].cost = 0 /\ ~Recorded(c)'
    BY <1>0, <2>1 DEF RowFits, Recorded
  <2>3. Load'[c] = Worst[a]
    BY <1>0, <2>1, <2>2 DEF Load, WorstOf, TypeOK
  <2>4. DayCost + Load'[c] <= DayCap /\ MonthCost + Load'[c] <= MonthCap
    BY <2>1, <2>3 DEF FitsBudget
  <2>5. \A d \in Calls \ {c} : ledger'[d] = ledger[d] /\ alias'[d] = alias[d]
                               /\ (d \in pending' <=> d \in pending)
    BY <1>0, <2>1 DEF TypeOK
  <2>6. (\A d \in Calls : RowFits(d))'
    BY <1>0, <2>2, <2>5 DEF RowFits, Recorded, WorstOf
  <2> QED BY <1>0, <2>1, <2>2, <2>4, <2>5, <2>6, CapsJoined
<1>3. ASSUME NEW c \in Calls, NEW o \in {"ok", "error"}, NEW cost \in Nat, NEW n,
             phase[c] = "sending", cost <= WorstOf(c) + Extra, Settle(c, o, cost, n)
      PROVE  (\A d \in Calls : RowFits(d))' /\ CapsOK'
  <2>1. /\ c \in pending /\ ~Recorded(c) /\ ledger[c].cost = 0
        /\ UNCHANGED <<clock, alias, brief, arrived>>
        /\ \A d \in Calls \ {c} : ledger'[d] = ledger[d] /\ (d \in pending' <=> d \in pending)
    BY <1>0, <1>3 DEF Settle, PhaseOK, RowFits, TypeOK
  <2>2. \/ Recorded(c)' /\ ledger'[c].cost = cost
        \/ ledger' = ledger /\ pending' = pending
    BY <1>0, <1>3 DEF Settle, Recorded, TypeOK
  <2>3. \A d \in Calls \ {c} : Load'[d] = Load[d] /\ (d \in Long => d \in Long')
    BY <2>1 DEF Load, Long, Recorded, WorstOf
  <2>4. Load[c] = WorstOf(c) /\ c \notin Long /\ WorstOf(c)' = WorstOf(c)
    BY <1>0, <2>1 DEF Load, Long, WorstOf
  <2>5. CASE Recorded(c)' /\ ledger'[c].cost = cost
    <3>1. Load'[c] = cost /\ (cost > WorstOf(c) => c \in Long')
      BY <2>4, <2>5 DEF Load, Long
    <3>2. /\ Load'[c] <= Load[c] + Extra
          /\ Load'[c] <= Load[c] \/ c \in Long'
      BY <1>0, <1>3, <2>4, <3>1
    <3>3. (\A d \in Calls : RowFits(d))'
      BY <1>0, <1>3, <2>1, <2>5 DEF RowFits, Recorded, WorstOf
    <3>4. \A d \in Calls \ {c} : Load'[d] <= Load[d]
      BY <2>3, LoadType DEF MInv
    <3> QED BY <1>0, <2>1, <2>3, <2>4, <3>2, <3>3, <3>4, CapsStay
  <2>6. CASE ledger' = ledger /\ pending' = pending
    <3>1. Load' = Load /\ Long' = Long
      BY <2>1, <2>6 DEF Load, Long, Recorded, WorstOf
    <3>2. (\A d \in Calls : RowFits(d))'
      BY <1>0, <2>1, <2>6 DEF RowFits, Recorded, WorstOf
    <3>3. \A d \in Calls : Load'[d] <= Load[d]
      BY <3>1, LoadType DEF MInv
    <3> QED BY <1>0, <2>1, <3>1, <3>2, <3>3, CapsStay
  <2> QED BY <2>2, <2>5, <2>6
<1>4. CASE UNCHANGED <<alias, arrived, ledger>> /\ pending' \subseteq pending
  <2>1. Long' = Long /\ \A d \in Calls : Load'[d] <= Load[d]
    <3>1. ASSUME NEW d \in Calls PROVE Load'[d] = Load[d] \/ Load'[d] = 0
      BY <1>4 DEF Load, Recorded, WorstOf
    <3>2. Long' = Long
      BY <1>4 DEF Long, WorstOf
    <3> QED BY <3>1, <3>2, LoadType DEF MInv
  <2>2. (\A d \in Calls : RowFits(d))'
    BY <1>0, <1>4 DEF RowFits, Recorded, WorstOf
  <2> QED BY <1>0, <1>4, <2>1, <2>2, CapsStay
<1>5. ASSUME NEW c \in Calls, NEW a \in Aliases, NEW b \in Briefs, Handle(c, a, b)
      PROVE  (\A d \in Calls : RowFits(d))' /\ CapsOK'
  BY <1>5, <1>1, <1>2 DEF Handle, RefuseUnfit, RefuseDuplicate, RefuseBudget
<1>6. ASSUME NEW c \in Calls, PostReturns(c) PROVE (\A d \in Calls : RowFits(d))' /\ CapsOK'
  <2>1. CASE RetryUnbilled(c)
    BY <1>4, <2>1 DEF RetryUnbilled, callVars
  <2>2. CASE FailUnbilled(c)
    <3>1. 0 <= WorstOf(c) + Extra
      BY <1>0
    <3> QED BY <1>3, <2>2, <3>1 DEF FailUnbilled
  <2>3. CASE FailMaybeBilled(c) \/ Cancel(c)
    <3>1. WorstOf(c) \in Nat /\ WorstOf(c) <= WorstOf(c) + Extra
      BY <1>0
    <3> QED BY <1>3, <2>3, <3>1 DEF FailMaybeBilled, Cancel
  <2>4. CASE Answer(c)
    <3>1. PICK k \in Bills(c) : Settle(c, "ok", k, "answered")
      BY <2>4 DEF Answer
    <3>2. k \in Nat /\ k <= WorstOf(c) + Extra
      BY <1>0 DEF Bills
    <3> QED BY <1>3, <2>4, <3>1, <3>2 DEF Answer
  <2> QED BY <1>6, <2>1, <2>2, <2>3, <2>4 DEF PostReturns
<1>7. CASE Restart
  BY <1>4, <1>7 DEF Restart, callVars
<1>8. CASE Tick \/ UNCHANGED vars
  BY <1>4, <1>8 DEF Tick, callVars, vars
<1> QED
  BY <1>5, <1>6, <1>7, <1>8 DEF Next

\* No day and no month costs more than its cap, reservations included, however many
\* calls were let in at once, beyond what each overlong answer cost on top
\* (Ledger.usage, check_budget, reserve).
THEOREM CapsHold == Spec => []SpendWithinCaps
<1>1. Init => MInv
  <2> SUFFICES ASSUME Init PROVE (\A c \in Calls : RowFits(c)) /\ CapsOK
    BY InitIInv DEF MInv
  <2>1. IInv
    BY InitIInv
  <2>2. \A c \in Calls : RowFits(c) /\ Load[c] = 0
    <3>1. ASSUME NEW c \in Calls PROVE RowFits(c) /\ Load[c] = 0
      <4>1. ~Recorded(c) /\ ledger[c].cost = 0 /\ c \notin pending
        BY DEF Init, Recorded, NoRow
      <4>2. 0 <= WorstOf(c) + Extra
        BY <2>1, WorstType DEF IInv
      <4> QED BY <4>1, <4>2 DEF RowFits, Load
    <3> QED BY <3>1
  <2>3. ASSUME NEW S \in SUBSET Calls, NEW limit \in Nat
        PROVE  Total(Load, S) <= limit + Extra * Cardinality(Long \cap S)
    <3>1. Units(Load, S) = {}
      <4>1. \A c \in S : 1..Load[c] = {}
        BY <2>2
      <4> QED BY <4>1 DEF Units
    <3>2. Total(Load, S) = 0
      BY <3>1, FS_EmptySet DEF Total
    <3>3. Extra * Cardinality(Long \cap S) \in Nat
      BY FiniteCalls, Times, BudgetAssumption
    <3> QED BY <3>2, <3>3
  <2>4. CapsOK
    <3>1. \A t : DayOf(t) \in SUBSET Calls /\ MonthOf(t) \in SUBSET Calls
      BY DEF DayOf, MonthOf
    <3> QED BY <2>3, <3>1, BudgetAssumption DEF CapsOK
  <2> QED BY <2>2, <2>4
<1>2. MInv => SpendWithinCaps
  <2> SUFFICES ASSUME MInv, NEW t \in 0..MaxClock
               PROVE  Within(DayOf(t), DayCap) /\ Within(MonthOf(t), MonthCap)
    BY DEF SpendWithinCaps, DayOf, MonthOf
  <2>1. ASSUME NEW S \in SUBSET Calls, NEW limit \in Nat,
               Total(Load, S) <= limit + Extra * Cardinality(Long \cap S)
        PROVE  Within(S, limit)
    <3>1. Overlong(S) = Cardinality(Long \cap S)
      <4>1. {c \in S : ledger[c].cost > WorstOf(c)} = Long \cap S
        BY DEF Long
      <4> QED BY <4>1 DEF Overlong
    <3>2. Total(Load, S) = CostOf({c \in S : Recorded(c)}) + HeldFor(S \cap pending)
      BY LoadIsSpend DEF MInv
    <3> QED BY <2>1, <3>1, <3>2 DEF Within
  <2>2. DayOf(t) \in SUBSET Calls /\ MonthOf(t) \in SUBSET Calls
    BY DEF DayOf, MonthOf
  <2> QED BY <2>1, <2>2, BudgetAssumption DEF MInv, CapsOK
<1> QED
  BY <1>1, <1>2, NextMInv, PTL DEF Spec

-----------------------------------------------------------------------------
(***************************************************************************)
(* Of the swap, for any interleaving of the router, the webhook, the       *)
(* script, an operator and crashes of the chat unit: the lock invariant is *)
(* inductive with the type invariant.  What makes it so is that it speaks  *)
(* of every request: only the holder is inside the block, so the holder's  *)
(* Release leaves nobody inside it, and a script that ends answers the one *)
(* request that waits for it, if it still does.  The second part is about  *)
(* one profile in demand: from the moment its model has answered once, the *)
(* unit file, the boot and the service can only be that profile or down.   *)
(***************************************************************************)

SwapIInv == SwapTypeOK /\ SwapLockNotLeaked

\* The requests' half of the type invariant that the lock depends on.
Runs == [Runners -> [step : {"idle", "check", "provision", "restart", "wait"},
                     target : Profiles,
                     said : {"nothing", "loaded", "swapped", "error"}]]

-----------------------------------------------------------------------------
LEMMA InitSwapIInv == SwapInit => SwapIInv
BY SwapAssumption
   DEF SwapInit, SwapIInv, SwapTypeOK, SwapLockNotLeaked, Models, Steps, Holding, Ended, Idle, Runners, Nobody

\* A step of one request between two places on the same side of the lock.
LEMMA SameSide ==
    ASSUME SwapIInv, NEW r \in Requests, NEW s \in Steps, Goto(r, s),
           s \in Holding <=> pc[r] \in Holding,
           pc[r] # "swapping", UNCHANGED <<lock, caller>>
    PROVE  SwapLockNotLeaked' /\ pc' \in [Requests -> Steps]
BY SwapAssumption DEF SwapIInv, SwapTypeOK, SwapLockNotLeaked, Goto

\* The holder leaves the block of _swap_lock.
LEMMA ReleaseSound ==
    ASSUME SwapIInv, NEW r \in Requests, NEW s \in Steps \ Holding, Release(r, s),
           pc[r] \in Holding,
           caller' = IF caller = r THEN Nobody ELSE caller
    PROVE  /\ SwapLockNotLeaked' /\ pc' \in [Requests -> Steps]
           /\ lock' \in Requests \cup {Nobody} /\ caller' \in Requests \cup {Nobody}
<1>1. lock = r /\ \A q \in Requests : pc[q] \in Holding => q = r
  BY DEF SwapIInv, SwapLockNotLeaked
<1>2. \A q \in Requests : pc'[q] \notin Holding
  BY <1>1 DEF SwapIInv, SwapTypeOK, Release, Goto
<1>3. caller' # Nobody => caller' # r /\ caller' \in Requests /\ pc[caller'] = "swapping"
  BY SwapAssumption DEF SwapIInv, SwapTypeOK, SwapLockNotLeaked
<1>4. caller' = Nobody
  BY <1>1, <1>3 DEF Holding
<1> QED
  BY <1>2, <1>4, SwapAssumption DEF SwapIInv, SwapTypeOK, SwapLockNotLeaked, Release, Goto

\* A script that ends answers the request that waits for it, if one does.
LEMMA ExitSound ==
    ASSUME SwapIInv, NEW s \in Runners, NEW said \in {"loaded", "swapped", "error"}, Exit(s, said)
    PROVE  /\ SwapLockNotLeaked' /\ pc' \in [Requests -> Steps] /\ scripts' \in Runs
           /\ lock' \in Requests \cup {Nobody} /\ caller' \in Requests \cup {Nobody}
<1>1. scripts' \in Runs
  <2>1. scripts \in Runs /\ scripts' = [scripts EXCEPT ![s].step = "idle", ![s].said = said]
    BY DEF SwapIInv, SwapTypeOK, Exit, Runs
  <2> QED BY <2>1 DEF Runs
<1>2. CASE s = "webhook" /\ caller # Nobody
  <2>1. caller \in Requests /\ pc[caller] = "swapping" /\ caller' = Nobody
    BY <1>2 DEF SwapIInv, SwapTypeOK, SwapLockNotLeaked, Exit
  <2>2. CASE said = "error"
    BY <1>1, <1>2, <2>1, <2>2, ReleaseSound DEF Exit, Steps, Holding, Ended
  <2>3. CASE said # "error"
    <3>1. Goto(caller, "confirming") /\ UNCHANGED lock
      BY <1>2, <2>3 DEF Exit
    <3>2. \A q \in Requests : pc'[q] \in Holding <=> pc[q] \in Holding
      BY <2>1, <3>1 DEF SwapIInv, SwapTypeOK, Goto, Holding
    <3> QED
      BY <1>1, <2>1, <3>1, <3>2 DEF SwapIInv, SwapTypeOK, SwapLockNotLeaked, Goto, Steps, Holding
  <2> QED
    BY <2>2, <2>3
<1>3. CASE ~(s = "webhook" /\ caller # Nobody)
  BY <1>1, <1>3 DEF SwapIInv, SwapTypeOK, SwapLockNotLeaked, Exit
<1> QED
  BY <1>2, <1>3

LEMMA StepSound ==
    ASSUME SwapIInv, NEW s \in Runners, NEW step \in {"provision", "restart", "wait"}, Step(s, step)
    PROVE  SwapLockNotLeaked' /\ scripts' \in Runs /\ UNCHANGED <<pc, lock, caller>>
BY DEF SwapIInv, SwapTypeOK, SwapLockNotLeaked, Step, Runs

LEMMA CacheTyped ==
    ASSUME SwapIInv
    PROVE  /\ \A m \in Models : Remember(m) => cache' \in [value : Profiles, fresh : BOOLEAN]
           /\ Refreshed => cache' \in [value : Profiles, fresh : BOOLEAN]
<1>1. cache \in [value : Profiles, fresh : BOOLEAN] /\ serving \in Models
  BY DEF SwapIInv, SwapTypeOK
<1>2. [cache EXCEPT !.fresh = FALSE] \in [value : Profiles, fresh : BOOLEAN]
  BY <1>1
<1>3. \A m \in Profiles : [value |-> m, fresh |-> TRUE] \in [value : Profiles, fresh : BOOLEAN]
  OBVIOUS
<1> QED
  BY <1>1, <1>2, <1>3 DEF Models, Remember, Refreshed

-----------------------------------------------------------------------------
LEMMA RequestStepSound ==
    ASSUME SwapIInv, NEW r \in Requests, RequestStep(r)
    PROVE  SwapIInv'
<1> USE DEF host
<1>1. CASE ProbeAnswered(r)
  BY <1>1, SameSide DEF ProbeAnswered, SwapIInv, SwapTypeOK, Steps, Holding, Models
<1>2. CASE ProbeReturns(r)
  <2>1. seen[r] \in Models /\ want[r] \in Profiles
    BY DEF SwapIInv, SwapTypeOK
  <2>2. cache' \in [value : Profiles, fresh : BOOLEAN]
    BY <1>2, <2>1, CacheTyped DEF ProbeReturns
  <2>3. \E s \in {"slot", "refused", "locking"} : Goto(r, s)
    BY <1>2 DEF ProbeReturns, Decide
  <2>4. SwapLockNotLeaked' /\ pc' \in [Requests -> Steps]
    BY <1>2, <2>3, SameSide DEF ProbeReturns, Steps, Holding, Ended
  <2> QED
    BY <1>2, <2>1, <2>2, <2>4 DEF ProbeReturns, Decide, SwapIInv, SwapTypeOK
<1>3. CASE TakeSwapLock(r)
  <2>1. lock = Nobody /\ pc[r] = "locking" /\ lock' = r /\ Goto(r, "recheck")
    BY <1>3 DEF TakeSwapLock
  <2>2. \A q \in Requests : pc[q] \notin Holding
    BY <2>1, SwapAssumption DEF SwapIInv, SwapLockNotLeaked
  <2>3. SwapLockNotLeaked'
    BY <1>3, <2>1, <2>2 DEF TakeSwapLock, SwapIInv, SwapTypeOK, SwapLockNotLeaked, Goto, Holding
  <2> QED
    BY <1>3, <2>3 DEF TakeSwapLock, SwapIInv, SwapTypeOK, Goto, Steps, Holding
<1>4. CASE Recheck(r)
  <2>1. cache' \in [value : Profiles, fresh : BOOLEAN]
    BY <1>4, CacheTyped DEF Recheck
  <2>2. caller # r
    BY <1>4, SwapAssumption DEF Recheck, SwapIInv, SwapLockNotLeaked
  <2>3. CASE serving = want[r]
    BY <1>4, <2>1, <2>2, <2>3, ReleaseSound DEF Recheck, SwapIInv, SwapTypeOK, Steps, Holding, Ended
  <2>4. CASE serving # want[r]
    BY <1>4, <2>1, <2>4, SameSide DEF Recheck, SwapIInv, SwapTypeOK, Steps, Holding
  <2> QED
    BY <2>3, <2>4
<1>5. CASE WebhookAccepts(r)
  <2>1. scripts' \in Runs
    BY <1>5 DEF WebhookAccepts, SwapIInv, SwapTypeOK, Runs
  <2>2. SwapLockNotLeaked' /\ pc' \in [Requests -> Steps]
    BY <1>5, SwapAssumption DEF WebhookAccepts, SwapIInv, SwapTypeOK, SwapLockNotLeaked, Goto, Steps, Holding
  <2> QED
    BY <1>5, <2>1, <2>2 DEF WebhookAccepts, SwapIInv, SwapTypeOK, Runs
<1>6. CASE WebhookRefuses(r)
  <2>1. caller # r
    BY <1>6, SwapAssumption DEF WebhookRefuses, SwapIInv, SwapLockNotLeaked
  <2> QED
    BY <1>6, <2>1, ReleaseSound DEF WebhookRefuses, SwapIInv, SwapTypeOK, Steps, Holding, Ended
<1>7. CASE Confirm(r)
  <2>1. cache' \in [value : Profiles, fresh : BOOLEAN]
    BY <1>7, CacheTyped DEF Confirm
  <2>2. caller # r
    BY <1>7, SwapAssumption DEF Confirm, SwapIInv, SwapLockNotLeaked
  <2> QED
    BY <1>7, <2>1, <2>2, ReleaseSound DEF Confirm, SwapIInv, SwapTypeOK, Steps, Holding, Ended
<1>8. CASE GiveUp(r)
  <2>1. CASE pc[r] \in Holding
    <3>1. Release(r, "failed")
      BY <1>8, <2>1 DEF GiveUp, Release, SwapIInv, SwapLockNotLeaked
    <3> QED
      BY <1>8, <2>1, <3>1, ReleaseSound DEF GiveUp, SwapIInv, SwapTypeOK, Steps, Holding, Ended
  <2>2. CASE pc[r] \notin Holding
    <3>1. UNCHANGED <<lock, caller>> /\ Goto(r, "failed") /\ pc[r] # "swapping"
      BY <1>8, <2>2, SwapAssumption DEF GiveUp, SwapIInv, SwapLockNotLeaked, Holding
    <3> QED
      BY <1>8, <2>2, <3>1, SameSide DEF GiveUp, SwapIInv, SwapTypeOK, Steps, Holding, Ended
  <2> QED
    BY <2>1, <2>2
<1>9. CASE Forward(r)
  <2>1. \E s \in {"served", "failed"} : Goto(r, s)
    BY <1>9 DEF Forward
  <2>2. SwapLockNotLeaked' /\ pc' \in [Requests -> Steps]
    BY <1>9, <2>1, SameSide DEF Forward, Steps, Holding, Ended
  <2> QED
    BY <1>9, <2>2 DEF Forward, SwapIInv, SwapTypeOK
<1> QED
  BY <1>1, <1>2, <1>3, <1>4, <1>5, <1>6, <1>7, <1>8, <1>9 DEF RequestStep

LEMMA ArriveSound ==
    ASSUME SwapIInv, NEW r \in Requests, NEW w \in Wants, Arrive(r, w)
    PROVE  SwapIInv'
<1> USE DEF host
<1>1. w \in Profiles /\ cache.value \in Models
  BY SwapAssumption DEF SwapIInv, SwapTypeOK, Models
<1>2. pc[r] = "new" /\ \E s \in {"slot", "refused", "locking", "probing"} : Goto(r, s)
  BY DEF Arrive, Decide
<1>3. SwapLockNotLeaked' /\ pc' \in [Requests -> Steps]
  BY <1>2, SameSide DEF Arrive, Steps, Holding, Ended
<1>4. seen' \in [Requests -> Models]
  BY <1>1 DEF Arrive, Decide, SwapIInv, SwapTypeOK
<1> QED
  BY <1>1, <1>3, <1>4 DEF Arrive, SwapIInv, SwapTypeOK

LEMMA ScriptStepSound ==
    ASSUME SwapIInv, NEW s \in Runners, ScriptStep(s)
    PROVE  SwapIInv'
<1> USE DEF Runs
<1>1. CASE ScriptChecks(s)
  BY <1>1, ExitSound, StepSound DEF ScriptChecks, SwapIInv, SwapTypeOK
<1>2. CASE ScriptProvisions(s)
  <2>1. scripts[s].target \in Profiles
    BY DEF SwapIInv, SwapTypeOK
  <2>2. unit' \in Profiles /\ config' \in Profiles
    BY <1>2, <2>1 DEF ScriptProvisions, SwapIInv, SwapTypeOK
  <2>3. Step(s, "restart") \/ Exit(s, "error")
    BY <1>2 DEF ScriptProvisions
  <2> QED
    BY <1>2, <2>2, <2>3, ExitSound, StepSound DEF ScriptProvisions, SwapIInv, SwapTypeOK
<1>3. CASE ScriptRestarts(s)
  BY <1>3, StepSound DEF ScriptRestarts, SwapIInv, SwapTypeOK, Models
<1>4. CASE ScriptSeesActive(s)
  BY <1>4, ExitSound DEF ScriptSeesActive, SwapIInv, SwapTypeOK
<1>5. CASE ScriptFails(s)
  BY <1>5, ExitSound DEF ScriptFails, SwapIInv, SwapTypeOK
<1> QED
  BY <1>1, <1>2, <1>3, <1>4, <1>5 DEF ScriptStep

LEMMA OtherStepSound ==
    ASSUME SwapIInv, CacheExpires \/ (\E p \in Profiles : OperatorRuns(p)) \/ BootEnds \/ UnitCrashes
    PROVE  SwapIInv'
<1>1. CASE CacheExpires
  BY <1>1 DEF CacheExpires, host, SwapIInv, SwapTypeOK, SwapLockNotLeaked
<1>2. ASSUME NEW p \in Profiles, OperatorRuns(p) PROVE SwapIInv'
  <2>1. PICK step \in {"check", "provision"} :
          scripts' = [scripts EXCEPT !["operator"] = [step |-> step, target |-> p, said |-> "nothing"]]
    BY <1>2 DEF OperatorRuns
  <2>2. scripts' \in Runs
    BY <2>1 DEF SwapIInv, SwapTypeOK, Runs, Runners
  <2> QED
    BY <1>2, <2>2 DEF OperatorRuns, SwapIInv, SwapTypeOK, Runs, SwapLockNotLeaked
<1>3. CASE BootEnds
  BY <1>3 DEF BootEnds, SwapIInv, SwapTypeOK, SwapLockNotLeaked, Models
<1>4. CASE UnitCrashes
  BY <1>4 DEF UnitCrashes, SwapIInv, SwapTypeOK, SwapLockNotLeaked, Models
<1> QED
  BY <1>1, <1>2, <1>3, <1>4

LEMMA Inductive == SwapIInv /\ [SwapNext]_swapVars => SwapIInv'
<1> SUFFICES ASSUME SwapIInv, [SwapNext]_swapVars PROVE SwapIInv'
  OBVIOUS
<1>1. CASE SwapNext
  <2>1. CASE \E r \in Requests, w \in Wants : Arrive(r, w)
    BY <2>1, ArriveSound
  <2>2. CASE \E r \in Requests : RequestStep(r)
    BY <2>2, RequestStepSound
  <2>3. CASE \E s \in Runners : ScriptStep(s)
    BY <2>3, ScriptStepSound
  <2>4. CASE CacheExpires \/ (\E p \in Profiles : OperatorRuns(p)) \/ BootEnds \/ UnitCrashes
    BY <2>4, OtherStepSound
  <2> QED
    BY <1>1, <2>1, <2>2, <2>3, <2>4 DEF SwapNext
<1>2. CASE UNCHANGED swapVars
  BY <1>2 DEF swapVars, host, SwapIInv, SwapTypeOK, SwapLockNotLeaked
<1> QED
  BY <1>1, <1>2

\* Router, webhook and script only ever hold values of their types, whatever
\* the interleaving.
THEOREM SwapTypeCorrect == SwapSpec => []SwapTypeOK
<1>1. SwapIInv => SwapTypeOK
  BY DEF SwapIInv
<1> QED
  BY <1>1, InitSwapIInv, Inductive, PTL DEF SwapSpec

\* The swap lock is held by exactly the request inside its block: no answer,
\* refusal, timeout or cancellation of trigger_swap_and_wait leaks it.
THEOREM SwapLockSound == SwapSpec => []SwapLockNotLeaked
<1>1. SwapIInv => SwapLockNotLeaked
  BY DEF SwapIInv
<1> QED
  BY <1>1, InitSwapIInv, Inductive, PTL DEF SwapSpec
-----------------------------------------------------------------------------
(* While only the profile w is asked for, by requests and by the operator. *)
(* Once w answers anywhere, it stays: unit file, boot and service are w or *)
(* down from then on, so what the guard has seen cannot go stale.          *)

Only(w) == Wants \subseteq {w} /\ Manual \subseteq {w}

Swapped(w) == unit = w /\ serving \in {w, Down} /\ booting \in {w, Down}

OnlyInv(w) ==
    /\ SwapIInv
    /\ \A r \in Requests : pc[r] # "new" => want[r] = w
    /\ \A s \in Runners : scripts[s].step # "idle" => scripts[s].target = w
    /\ w \in {serving, booting, cache.value} \cup {seen[r] : r \in Requests} => Swapped(w)
    /\ \A r \in Requests \ Exempt :
          seen[r] # Down =>
             /\ pc[r] = "slot" => Swapped(w)
             /\ pc[r] = "served" => servedBy[r] = w

LEMMA InitOnly ==
    ASSUME NEW w \in Profiles, Only(w), SwapInit
    PROVE  OnlyInv(w)
<1>1. SwapIInv
  BY InitSwapIInv
<1>2. w \in {serving, booting, cache.value} \cup {seen[r] : r \in Requests} => Swapped(w)
  BY SwapAssumption DEF SwapInit, Swapped
<1> QED
  BY <1>1, <1>2 DEF SwapInit, OnlyInv, Idle, Runners

\* Steps of the script, the unit and the operator: the requests keep what they saw.
LEMMA HostKeepsOnly ==
    ASSUME NEW w \in Profiles, OnlyInv(w), SwapIInv', UNCHANGED <<want, seen, servedBy>>,
           cache' = cache \/ cache'.value = cache.value,
           \A r \in Requests : /\ pc'[r] = "new" => pc[r] = "new"
                               /\ pc[r] = "new" => pc'[r] = "new"
                               /\ pc'[r] \in {"slot", "served"} => pc'[r] = pc[r],
           \A s \in Runners : scripts'[s].step # "idle" => scripts'[s].target = w,
           Swapped(w) => Swapped(w)',
           w \in {serving', booting'} => w \in {serving, booting} \/ Swapped(w)'
    PROVE  OnlyInv(w)'
<1>1. (w \in {serving, booting, cache.value} \cup {seen[r] : r \in Requests} => Swapped(w))'
  BY DEF OnlyInv
<1> QED
  BY <1>1 DEF OnlyInv

\* Steps of a request, between which the host stands still.
LEMMA RequestKeepsOnly ==
    ASSUME NEW w \in Profiles, OnlyInv(w), SwapIInv', NEW r \in Requests,
           UNCHANGED <<serving, booting, unit>>,
           \A q \in Requests \ {r} : /\ pc'[q] = pc[q] /\ want'[q] = want[q]
                                     /\ seen'[q] = seen[q] /\ servedBy'[q] = servedBy[q],
           want'[r] = w,
           \A s \in Runners : scripts'[s].step # "idle" => scripts'[s].target = w,
           seen'[r] = w => Swapped(w), cache'.value = w => Swapped(w),
           r \notin Exempt /\ seen'[r] # Down =>
              /\ pc'[r] = "slot" => Swapped(w)
              /\ pc'[r] = "served" => servedBy'[r] = w
    PROVE  OnlyInv(w)'
<1>1. Swapped(w)' <=> Swapped(w)
  BY DEF Swapped
<1>2. (w \in {serving, booting, cache.value} \cup {seen[q] : q \in Requests} => Swapped(w))'
  BY <1>1 DEF OnlyInv
<1> QED
  BY <1>1, <1>2 DEF OnlyInv
LEMMA ArriveKeepsOnly ==
    ASSUME NEW w \in Profiles, Only(w), OnlyInv(w), SwapIInv',
           NEW r \in Requests, NEW v \in Wants, Arrive(r, v)
    PROVE  OnlyInv(w)'
<1>1. /\ UNCHANGED <<serving, booting, unit, scripts, servedBy, cache>>
      /\ \A q \in Requests \ {r} : pc'[q] = pc[q] /\ want'[q] = want[q] /\ seen'[q] = seen[q]
  BY DEF Arrive, Decide, Goto, host, OnlyInv, SwapIInv, SwapTypeOK
<1>2. v = w /\ want'[r] = w
  BY DEF Arrive, Only, OnlyInv, SwapIInv, SwapTypeOK
<1>3. CASE r \notin Exempt /\ cache.fresh
  <2>1. /\ seen'[r] = cache.value /\ cache.value # Down
        /\ pc'[r] = "slot" => cache.value = w
        /\ pc'[r] # "served"
    BY <1>2, <1>3, SwapAssumption DEF Arrive, Decide, Goto, OnlyInv, SwapIInv, SwapTypeOK
  <2> QED BY <1>1, <1>2, <2>1, RequestKeepsOnly DEF OnlyInv
<1>4. CASE ~(r \notin Exempt /\ cache.fresh)
  <2>1. /\ seen'[r] = seen[r]
        /\ r \notin Exempt => pc'[r] = "probing"
    BY <1>4 DEF Arrive, Goto, OnlyInv, SwapIInv, SwapTypeOK
  <2> QED BY <1>1, <1>2, <2>1, RequestKeepsOnly DEF OnlyInv
<1> QED
  BY <1>3, <1>4

LEMMA RequestStepKeepsOnly ==
    ASSUME NEW w \in Profiles, Only(w), OnlyInv(w), SwapIInv', NEW r \in Requests, RequestStep(r)
    PROVE  OnlyInv(w)'
<1>0. /\ SwapTypeOK /\ want[r] \in Profiles /\ seen[r] \in Models /\ serving \in Models
      /\ cache.value \in Profiles /\ w # Down
      /\ pc[r] # "new" => want[r] = w
      /\ serving = w => Swapped(w)
      /\ seen[r] = w => Swapped(w)
      /\ cache.value = w => Swapped(w)
  BY SwapAssumption DEF OnlyInv, SwapIInv, SwapTypeOK
<1>1. \A m \in Models : Remember(m) => cache'.value \in {cache.value, m}
  BY DEF Remember, SwapTypeOK
<1>2. Refreshed => cache'.value \in {cache.value, serving}
  BY <1>0 DEF Refreshed, SwapTypeOK
<1>3. CASE ProbeAnswered(r)
  <2>1. /\ UNCHANGED <<serving, booting, unit, scripts, want, servedBy, cache>>
        /\ pc'[r] = "probed" /\ seen'[r] = serving /\ pc[r] # "new"
        /\ \A q \in Requests \ {r} : pc'[q] = pc[q] /\ seen'[q] = seen[q]
    BY <1>0, <1>3 DEF ProbeAnswered, Goto, host, SwapTypeOK
  <2> QED BY <1>0, <2>1, RequestKeepsOnly DEF OnlyInv
<1>4. CASE ProbeReturns(r)
  <2>1. /\ UNCHANGED <<serving, booting, unit, scripts, want, servedBy>>
        /\ pc[r] # "new" /\ seen'[r] = seen[r]
        /\ pc'[r] = "slot" => seen[r] \in {Down, want[r]}
        /\ pc'[r] # "served"
        /\ \A q \in Requests \ {r} : pc'[q] = pc[q] /\ seen'[q] = seen[q]
    BY <1>0, <1>4 DEF ProbeReturns, Decide, Goto, host, SwapTypeOK
  <2>2. cache'.value = w => Swapped(w)
    BY <1>0, <1>1, <1>4 DEF ProbeReturns
  <2> QED BY <1>0, <2>1, <2>2, RequestKeepsOnly DEF OnlyInv
<1>5. CASE TakeSwapLock(r) \/ WebhookRefuses(r) \/ GiveUp(r)
  <2>1. /\ UNCHANGED <<serving, booting, unit, scripts, want, seen, servedBy, cache>>
        /\ pc[r] # "new" /\ pc'[r] \in {"recheck", "failed"}
        /\ \A q \in Requests \ {r} : pc'[q] = pc[q]
    BY <1>0, <1>5 DEF TakeSwapLock, WebhookRefuses, GiveUp, Release, Goto, host, SwapTypeOK, Holding
  <2> QED BY <1>0, <2>1, RequestKeepsOnly DEF OnlyInv
<1>6. CASE Recheck(r) \/ Confirm(r)
  <2>1. /\ UNCHANGED <<serving, booting, unit, scripts, want, seen, servedBy>>
        /\ pc[r] # "new" /\ pc'[r] # "served"
        /\ pc'[r] = "slot" => serving = want[r]
        /\ \A q \in Requests \ {r} : pc'[q] = pc[q]
    BY <1>0, <1>6 DEF Recheck, Confirm, Release, Goto, host, SwapTypeOK
  <2>2. cache'.value = w => Swapped(w)
    BY <1>0, <1>2, <1>6 DEF Recheck, Confirm
  <2> QED BY <1>0, <2>1, <2>2, RequestKeepsOnly DEF OnlyInv
<1>7. CASE WebhookAccepts(r)
  <2>1. /\ UNCHANGED <<serving, booting, unit, want, seen, servedBy, cache>>
        /\ pc[r] # "new" /\ pc'[r] = "swapping"
        /\ \A q \in Requests \ {r} : pc'[q] = pc[q]
    BY <1>0, <1>7 DEF WebhookAccepts, Goto, SwapTypeOK
  <2>2. \A s \in Runners : scripts'[s].step # "idle" => scripts'[s].target = w
    <3>1. scripts' = [scripts EXCEPT !["webhook"] =
                         [step |-> "check", target |-> w, said |-> "nothing"]]
      BY <1>0, <1>7, <2>1 DEF WebhookAccepts
    <3> QED BY <3>1 DEF OnlyInv, SwapIInv, SwapTypeOK
  <2> QED BY <1>0, <2>1, <2>2, RequestKeepsOnly
<1>8. CASE Forward(r)
  <2>1. /\ UNCHANGED <<serving, booting, unit, scripts, want, seen, cache>>
        /\ pc[r] = "slot" /\ servedBy'[r] = serving
        /\ pc'[r] = IF serving = Down THEN "failed" ELSE "served"
        /\ \A q \in Requests \ {r} : pc'[q] = pc[q] /\ servedBy'[q] = servedBy[q]
    BY <1>0, <1>8 DEF Forward, Goto, host, SwapTypeOK
  <2>2. r \notin Exempt /\ seen[r] # Down => Swapped(w)
    BY <2>1 DEF OnlyInv
  <2>3. r \notin Exempt /\ seen[r] # Down /\ pc'[r] = "served" => servedBy'[r] = w
    BY <2>1, <2>2 DEF Swapped
  <2> QED BY <1>0, <2>1, <2>3, RequestKeepsOnly DEF OnlyInv
<1> QED
  BY <1>3, <1>4, <1>5, <1>6, <1>7, <1>8 DEF RequestStep

LEMMA ScriptStepKeepsOnly ==
    ASSUME NEW w \in Profiles, OnlyInv(w), SwapIInv', NEW s \in Runners, ScriptStep(s)
    PROVE  OnlyInv(w)'
<1>0. /\ SwapTypeOK /\ scripts[s].step # "idle" /\ scripts[s].target = w
      /\ UNCHANGED <<want, seen, servedBy, cache>> /\ w # Down
  BY SwapAssumption DEF OnlyInv, SwapIInv, ScriptStep, ScriptChecks, ScriptProvisions, ScriptRestarts,
         ScriptSeesActive, ScriptFails
<1>1. (\E said : Exit(s, said)) \/ (\E step : Step(s, step))
  BY DEF ScriptStep, ScriptChecks, ScriptProvisions, ScriptRestarts, ScriptSeesActive, ScriptFails
<1>2. \A q \in Runners : scripts'[q].step # "idle" => scripts'[q].target = w
  <2>1. \A q \in Runners : scripts'[q].target = scripts[q].target
                           /\ (q # s => scripts'[q].step = scripts[q].step)
    BY <1>0, <1>1 DEF Exit, Step, SwapTypeOK
  <2> QED BY <1>0, <2>1 DEF OnlyInv
<1>3. \A r \in Requests : /\ pc'[r] = "new" => pc[r] = "new"
                          /\ pc[r] = "new" => pc'[r] = "new"
                          /\ pc'[r] \in {"slot", "served"} => pc'[r] = pc[r]
  <2>1. caller # Nobody => caller \in Requests /\ pc[caller] = "swapping"
    BY <1>0 DEF SwapTypeOK, OnlyInv, SwapIInv, SwapLockNotLeaked
  <2>2. \/ pc' = pc
        \/ caller # Nobody /\ \E step \in {"failed", "confirming"} : pc' = [pc EXCEPT ![caller] = step]
    BY <1>1 DEF Exit, Step, Release, Goto
  <2> QED BY <1>0, <2>1, <2>2 DEF SwapTypeOK
<1>4. Swapped(w) => Swapped(w)'
  BY <1>0 DEF Swapped, ScriptStep, ScriptChecks, ScriptProvisions, ScriptRestarts,
              ScriptSeesActive, ScriptFails
<1>5. w \in {serving', booting'} => w \in {serving, booting} \/ Swapped(w)'
  BY <1>0 DEF Swapped, ScriptStep, ScriptChecks, ScriptProvisions, ScriptRestarts,
              ScriptSeesActive, ScriptFails
<1> QED
  BY <1>0, <1>2, <1>3, <1>4, <1>5, HostKeepsOnly

LEMMA NextKeepsOnly ==
    ASSUME NEW w \in Profiles, Only(w), OnlyInv(w), [SwapNext]_swapVars
    PROVE  OnlyInv(w)'
<1>0. SwapIInv' /\ SwapTypeOK /\ w # Down
  BY Inductive, SwapAssumption DEF OnlyInv, SwapIInv
<1>1. CASE CacheExpires
  <2>1. cache'.value = cache.value
    BY <1>0, <1>1 DEF CacheExpires, SwapTypeOK
  <2> QED BY <1>0, <1>1, <2>1, HostKeepsOnly DEF CacheExpires, host, Swapped, OnlyInv
<1>2. ASSUME NEW p \in Profiles, OperatorRuns(p) PROVE OnlyInv(w)'
  <2>1. p = w
    BY <1>2 DEF OperatorRuns, Only
  <2>2. \A s \in Runners : scripts'[s].step # "idle" => scripts'[s].target = w
    BY <1>0, <1>2, <2>1 DEF OperatorRuns, OnlyInv, SwapTypeOK
  <2> QED BY <1>0, <1>2, <2>2, HostKeepsOnly DEF OperatorRuns, Swapped
<1>3. CASE BootEnds \/ UnitCrashes
  <2>1. UNCHANGED <<scripts, pc, want, seen, servedBy, cache>>
    BY <1>3 DEF BootEnds, UnitCrashes
  <2>2. Swapped(w) => Swapped(w)'
    BY <1>3 DEF BootEnds, UnitCrashes, Swapped
  <2>3. w \in {serving', booting'} => w \in {serving, booting} \/ Swapped(w)'
    BY <1>0, <1>3 DEF BootEnds, UnitCrashes, Swapped
  <2> QED BY <1>0, <2>1, <2>2, <2>3, HostKeepsOnly DEF OnlyInv
<1>4. CASE UNCHANGED swapVars
  BY <1>0, <1>4, HostKeepsOnly DEF swapVars, host, Swapped, OnlyInv
<1> QED
  BY <1>0, <1>1, <1>2, <1>3, <1>4, ArriveKeepsOnly, RequestStepKeepsOnly, ScriptStepKeepsOnly DEF SwapNext

\* While only one profile is asked for, no request the guard decided on is answered
\* by another model, however swaps fail, are abandoned or overlap and whenever the
\* unit crashes (chat(), the profile guard; trigger_swap_and_wait).
THEOREM WantedModelServes ==
    ASSUME NEW w \in Profiles, Only(w)
    PROVE  SwapSpec => []ServedByWanted
<1>1. OnlyInv(w) => ServedByWanted
  BY DEF OnlyInv, ServedByWanted
<1>2. SwapInit => OnlyInv(w)
  BY InitOnly
<1>3. OnlyInv(w) /\ [SwapNext]_swapVars => OnlyInv(w)'
  BY NextKeepsOnly
<1> QED
  BY <1>1, <1>2, <1>3, PTL DEF SwapSpec

\* Nor does the webhook's script begin a swap while that model already answers
\* (the re-check under the lock, detect_current_hfrepo).
THEOREM SwapsAreNeeded ==
    ASSUME NEW w \in Profiles, Only(w)
    PROVE  SwapSpec => NoNeedlessSwap
<1>1. OnlyInv(w) /\ [SwapNext]_swapVars =>
        [scripts["webhook"].step = "check" /\ scripts'["webhook"].step = "provision"
            => serving # scripts["webhook"].target]_swapVars
  <2> SUFFICES ASSUME OnlyInv(w), SwapNext,
                      scripts["webhook"].step = "check", scripts'["webhook"].step = "provision"
               PROVE  serving # scripts["webhook"].target
    BY DEF swapVars
  <2>1. SwapTypeOK /\ "webhook" \in Runners
    BY DEF OnlyInv, SwapIInv, Runners
  <2>2. ScriptChecks("webhook")
    <3>1. ~UNCHANGED scripts
      OBVIOUS
    <3>2. PICK s \in Runners : ScriptStep(s)
      <4>1. \A r \in Requests : ~WebhookAccepts(r)
        BY DEF WebhookAccepts, WebhookBusy
      <4>2. \A p \in Profiles : ~OperatorRuns(p)
        BY <2>1 DEF OperatorRuns, SwapTypeOK
      <4> QED
        BY <3>1, <4>1, <4>2
           DEF SwapNext, Arrive, RequestStep, ProbeAnswered, ProbeReturns, TakeSwapLock, Recheck,
               WebhookRefuses, Confirm, GiveUp, Forward, CacheExpires, BootEnds, UnitCrashes, host
    <3>3. s = "webhook"
      <4>1. (\E said : Exit(s, said)) \/ (\E step : Step(s, step))
        BY <3>2 DEF ScriptStep, ScriptChecks, ScriptProvisions, ScriptRestarts,
                    ScriptSeesActive, ScriptFails
      <4>2. s # "webhook" => scripts'["webhook"] = scripts["webhook"]
        BY <2>1, <4>1 DEF Exit, Step, SwapTypeOK
      <4> QED BY <4>2
    <3>4. ~ScriptFails("webhook")
      BY <2>1 DEF ScriptFails, Exit, SwapTypeOK
    <3> QED
      BY <3>2, <3>3, <3>4 DEF ScriptStep, ScriptProvisions, ScriptRestarts, ScriptSeesActive
  <2>3. unit # scripts["webhook"].target
    BY <2>1, <2>2 DEF ScriptChecks, Exit, SwapTypeOK
  <2> QED BY <2>1, <2>3 DEF OnlyInv, Swapped
<1>2. SwapInit => OnlyInv(w)
  BY InitOnly
<1>3. OnlyInv(w) /\ [SwapNext]_swapVars => OnlyInv(w)'
  BY NextKeepsOnly
<1> QED
  BY <1>1, <1>2, <1>3, PTL DEF SwapSpec, NoNeedlessSwap
===============================================================================
