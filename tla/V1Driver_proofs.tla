----------------------------- MODULE V1Driver_proofs -----------------------------
(* What holds of the V1 driver for every set of zones, every configuration    *)
(* and every length of its time limits.                                       *)
EXTENDS V1Driver, TLAPS

(* The spill guard only ever removes the spill zone, and from the toggle that *)
(* would leave nothing open.                                                  *)
LEMMA SpillGuardSubset ==
    ASSUME NEW diff, NEW desired, NEW last
    PROVE  SpillGuard(diff, desired, last) \subseteq diff
BY DEF SpillGuard

(* The toggle for a request is at most that zone, and it is empty exactly     *)
(* when there is nothing to do or the spill guard forbids it.                 *)
LEMMA ToggleForIsZone ==
    ASSUME NEW zone, NEW on \in BOOLEAN, NEW last, ToggleFor(zone, on, last) # {}
    PROVE  ToggleFor(zone, on, last) = {zone} /\ (zone \in last) # on
<1>1. (zone \in last) # on
  BY DEF ToggleFor
<1>2. ToggleFor(zone, on, last) \subseteq {zone}
  BY SpillGuardSubset DEF ToggleFor
<1>3. QED
  BY <1>1, <1>2

(* The last open zone is never toggled off when it is the spill zone.         *)
LEMMA ToggleForSparesSpill ==
    ASSUME NEW zone, NEW on \in BOOLEAN, SpillZone \in Zones
    PROVE  ToggleFor(zone, on, {SpillZone}) # {SpillZone}
<1>1. SUFFICES ASSUME ToggleFor(zone, on, {SpillZone}) = {SpillZone}
               PROVE  FALSE
  OBVIOUS
<1>2. zone = SpillZone /\ on = FALSE
  <2>1. SpillZone \in {zone}
    BY <1>1, SpillGuardSubset DEF ToggleFor
  <2>2. QED
    BY <1>1, <2>1 DEF ToggleFor
<1>3. ToggleFor(zone, on, {SpillZone}) = SpillGuard({SpillZone}, {}, {SpillZone})
  BY <1>2 DEF ToggleFor
<1>4. SpillGuard({SpillZone}, {}, {SpillZone}) = {}
  BY DEF SpillGuard
<1>5. QED
  BY <1>1, <1>3, <1>4

(* Ages stay below their horizons when time passes or an event restarts them. *)
LEMMA HorizonType == Horizon \in [Clocks -> Nat]
BY TimesAssumption, V1TimesAssumption, FlagsAssumption DEF Horizon, Clocks, Larger

LEMMA OlderInAges ==
    ASSUME NEW a \in Ages
    PROVE  [c \in Clocks |-> Older(a[c], Horizon[c])] \in Ages
BY HorizonType DEF Ages, Older

LEMMA BootAges == [c \in Clocks |-> 0] \in Ages
BY HorizonType DEF Ages

LEMMA RestartInAges ==
    ASSUME NEW a \in Ages, NEW k \in Clocks, NEW l \in Clocks
    PROVE  /\ [a EXCEPT ![k] = 0] \in Ages
           /\ [a EXCEPT ![k] = 0, ![l] = 0] \in Ages
<1>1. /\ [a EXCEPT ![k] = 0] \in [Clocks -> Nat]
      /\ [a EXCEPT ![k] = 0, ![l] = 0] \in [Clocks -> Nat]
  BY DEF Ages
<1>2. ASSUME NEW c \in Clocks
      PROVE  /\ [a EXCEPT ![k] = 0][c] <= Horizon[c]
             /\ [a EXCEPT ![k] = 0, ![l] = 0][c] <= Horizon[c]
  BY HorizonType DEF Ages
<1>3. QED
  BY <1>1, <1>2 DEF Ages

(* What the history may record keeps its shape.                               *)
LEMMA HistoryUpdates ==
    ASSUME NEW h \in Histories, NEW b \in BOOLEAN
    PROVE  /\ [h EXCEPT !.answered = @ \/ b] \in Histories
           /\ [h EXCEPT !.spoiled = TRUE] \in Histories
           /\ [h EXCEPT !.toggles = IF @ < 2 THEN @ + 1 ELSE @] \in Histories
<1>1. [h EXCEPT !.answered = @ \/ b] \in Histories
  BY Zenon DEF Histories
<1>2. [h EXCEPT !.spoiled = TRUE] \in Histories
  BY DEF Histories
<1>3. [h EXCEPT !.toggles = IF @ < 2 THEN @ + 1 ELSE @] \in Histories
  <2>1. h.toggles \in 0 .. 2
    BY DEF Histories
  <2>2. (IF h.toggles < 2 THEN h.toggles + 1 ELSE h.toggles) \in 0 .. 2
    BY <2>1
  <2>3. QED
    BY <2>2 DEF Histories
<1>4. QED
  BY <1>1, <1>2, <1>3

LEMMA EmptyHistory == NoRequest \in Histories
<1>1. 0 \in 0 .. 2
  OBVIOUS
<1>2. QED
  BY <1>1, Zenon DEF Histories, NoRequest

LEMMA NewHistory ==
    ASSUME NEW zone \in Zones, NEW on \in BOOLEAN
    PROVE  [NoRequest EXCEPT !.zone = zone, !.on = on] \in Histories
BY EmptyHistory DEF Histories

--------------------------------------------------------------------------------

(* A frame taken from the buffer is a frame, and so is what it leaves behind. *)
LEMMA HeadAndTail ==
    ASSUME NEW q \in Seq(Frames), q # <<>>
    PROVE  Head(q) \in Frames /\ Tail(q) \in Seq(Frames) /\ Head(q).mask \in Masks
BY DEF Frames, Status, Garbage, Fragment, Masks

(* Type correctness, of the first state and of every step.                    *)
LEMMA InitType == Init => TypeOK
<1>1. (~ListenOnly) \in BOOLEAN
  OBVIOUS
<1>2. <<>> \in Seq(Frames) /\ {} \in Masks
  BY DEF Masks
<1>3. QED
  BY <1>1, <1>2, BootAges, EmptyHistory, Zenon DEF Init, TypeOK, PCs, Results

LEMMA StepType == TypeOK /\ [Next]_vars => TypeOK'
<1> SUFFICES ASSUME TypeOK, [Next]_vars PROVE TypeOK'
  OBVIOUS
<1> USE FlagsAssumption DEF TypeOK, input, link, intent, view
<1>1. CASE UNCHANGED vars
  BY <1>1 DEF vars
<1>2. CASE RequestRefresh
  <2>1. result' \in Results /\ refresh' \in BOOLEAN
    BY <1>2 DEF RequestRefresh, Results
  <2>2. QED
    BY <2>1, <1>2, SMTT(30) DEF RequestRefresh
<1>3. ASSUME NEW zone \in AskedZones, RefuseZoneState(zone) PROVE TypeOK'
  BY <1>3 DEF RefuseZoneState, Results
<1>4. ASSUME NEW zone \in AskedZones, NEW on \in BOOLEAN, QueueZoneState(zone, on) PROVE TypeOK'
  BY <1>4, NewHistory DEF QueueZoneState, Refused
<1>5. CASE LoopStart
  BY <1>5 DEF LoopStart, PCs
<1>6. CASE ReceiveOther
  BY <1>6, HeadAndTail, RestartInAges DEF ReceiveOther, Clocks
<1>7. CASE ReceiveStatus
  <2>1. age' \in Ages
    BY <1>7, RestartInAges DEF ReceiveStatus, Clocks
  <2>2. req' \in Histories
    BY <1>7, HistoryUpdates DEF ReceiveStatus
  <2>3. QED
    BY <1>7, <2>1, <2>2, HeadAndTail DEF ReceiveStatus, PCs, Results
<1>8. CASE Answered
  BY <1>8 DEF Answered, AnswersQuery, PCs, Masks
<1>9. CASE Service
  <2>1. CASE StatusExpired(online, hasStatus, age["status"])
    BY <1>9, <2>1, HistoryUpdates DEF Service, CancelIntent, PCs, Results, Masks
  <2>2. CASE ~StatusExpired(online, hasStatus, age["status"])
    BY <1>9, <2>2 DEF Service, PCs
  <2>3. QED
    BY <2>1, <2>2
<1>10. CASE AwaitResponse
  BY <1>10 DEF AwaitResponse, PCs, Results
<1>11. CASE AbandonTimedOut
  BY <1>11, HistoryUpdates DEF AbandonTimedOut, FailTransaction, CancelIntent, PCs, Masks
<1>12. CASE Hold
  BY <1>12 DEF Hold, PCs
<1>13. CASE SettleWithoutToggle
  BY <1>13, HistoryUpdates DEF SettleWithoutToggle, FailTransaction, CancelIntent, PCs, Masks
<1>14. CASE TransmitToggle
  <2>1. age' \in Ages
    BY <1>14, RestartInAges DEF TransmitToggle, Transact, Clocks
  <2>2. req' \in Histories
    BY <1>14, HistoryUpdates DEF TransmitToggle
  <2>3. txMask' \in Masks
    BY <1>14, ToggleForIsZone DEF TransmitToggle, Transact, WriteDue, Masks
  <2>4. QED
    BY <1>14, <2>1, <2>2, <2>3 DEF TransmitToggle, Transact, PCs, Results
<1>15. CASE TransmitQuery
  BY <1>15, RestartInAges DEF TransmitQuery, Transact, PCs, Results, Masks, Clocks
<1>16. CASE AbandonFailed
  BY <1>16, HistoryUpdates DEF AbandonFailed, FailTransaction, CancelIntent, PCs, Masks
<1>17. CASE RecordSent
  BY <1>17, RestartInAges DEF RecordSent, OpenTransaction, PCs, Clocks
<1>18. ASSUME NEW frame \in Frames, Arrive(frame) PROVE TypeOK'
  BY <1>18 DEF Arrive
<1>19. CASE Tick
  BY <1>19, OlderInAges DEF Tick
<1>20. CASE Reboot
  <2>1. (~ListenOnly) \in BOOLEAN
    OBVIOUS
  <2>2. <<>> \in Seq(Frames) /\ {} \in Masks
    BY DEF Masks
  <2>3. QED
    BY <1>20, <2>1, <2>2, BootAges, EmptyHistory, Zenon DEF Reboot, PCs, Results
<1>21. QED
  BY <1>1, <1>2, <1>3, <1>4, <1>5, <1>6, <1>7, <1>8, <1>9, <1>10, <1>11, <1>12, <1>13,
     <1>14, <1>15, <1>16, <1>17, <1>18, <1>19, <1>20 DEF Next, LoopStep, Request

(* Every reachable value of every variable is one its field can hold: the     *)
(* pending zone is 0 or a zone the bus has, the ages stay within what the     *)
(* code compares them with.                                                   *)
THEOREM TypeCorrect == Spec => []TypeOK
BY InitType, StepType, PTL DEF Spec

--------------------------------------------------------------------------------

LEMMA InitIInv == Init => IInv
BY InitType, FlagsAssumption
   DEF Init, IInv, NoStrandedRequest, AwaitingIsLive, ListenerIsSilent, PhasesAgree,
       TransactionAgrees, HistoryAgrees

(* Every step preserves the inductive invariant, action by action.            *)
LEMMA StepIInv == IInv /\ [Next]_vars => IInv'
<1> SUFFICES ASSUME IInv, [Next]_vars PROVE IInv'
  OBVIOUS
<1>0. TypeOK /\ TypeOK'
  BY StepType DEF IInv
<1> USE <1>0 DEF IInv, NoStrandedRequest, AwaitingIsLive, ListenerIsSilent, PhasesAgree,
            TransactionAgrees, HistoryAgrees, input, link, intent, view
<1>1. CASE UNCHANGED vars
  BY <1>1 DEF vars
<1>2. CASE RequestRefresh
  BY <1>2 DEF RequestRefresh
<1>3. ASSUME NEW zone \in AskedZones, RefuseZoneState(zone) PROVE IInv'
  BY <1>3 DEF RefuseZoneState
<1>4. ASSUME NEW zone \in AskedZones, NEW on \in BOOLEAN, QueueZoneState(zone, on) PROVE IInv'
  BY <1>4 DEF QueueZoneState, Refused, NoRequest
<1>5. CASE LoopStart
  BY <1>5 DEF LoopStart
<1>6. CASE ReceiveOther
  BY <1>6 DEF ReceiveOther
<1>7. CASE ReceiveStatus
  <2>1. /\ req'.zone = req.zone /\ req'.on = req.on
        /\ req'.spoiled = req.spoiled /\ req'.toggles = req.toggles
        /\ req'.answered = (req.answered \/ (waiting /\ txMask = {}))
    BY <1>0, <1>7 DEF ReceiveStatus, TypeOK, Histories
  <2>2. pc = "drain" /\ pc' \in {"drain", "answer"}
    BY <1>7 DEF ReceiveStatus
  <2>3. CASE waiting
    BY <1>7, <2>1, <2>3 DEF ReceiveStatus
  <2>4. CASE ~waiting
    BY <1>7, <2>1, <2>2, <2>4 DEF ReceiveStatus
  <2>5. QED
    BY <2>3, <2>4
<1>8. CASE Answered
  BY <1>8 DEF Answered, AnswersQuery
<1>9. CASE Service
  <2>1. CASE StatusExpired(online, hasStatus, age["status"])
    BY <1>9, <2>1 DEF Service, CancelIntent
  <2>2. CASE ~StatusExpired(online, hasStatus, age["status"])
    <3>1. (online /\ StatusTimeout # 0) => age["status"] < StatusTimeout
      BY <2>2, TimesAssumption DEF StatusExpired, TypeOK, Ages, Clocks
    <3>2. QED
      BY <1>9, <2>2, <3>1 DEF Service
  <2>3. QED
    BY <2>1, <2>2
<1>10. CASE AwaitResponse
  BY <1>10 DEF AwaitResponse
<1>11. CASE AbandonTimedOut
  BY <1>11 DEF AbandonTimedOut, FailTransaction, CancelIntent
<1>12. CASE Hold
  BY <1>12 DEF Hold
<1>13. CASE SettleWithoutToggle
  BY <1>13 DEF SettleWithoutToggle, FailTransaction, CancelIntent, WriteDue
<1>14. CASE TransmitToggle
  BY <1>14 DEF TransmitToggle, Transact, WriteDue
<1>15. CASE TransmitQuery
  BY <1>15 DEF TransmitQuery, Transact, WriteDue
<1>16. CASE AbandonFailed
  BY <1>16 DEF AbandonFailed, FailTransaction, CancelIntent
<1>17. CASE RecordSent
  BY <1>17 DEF RecordSent, OpenTransaction
<1>18. ASSUME NEW frame \in Frames, Arrive(frame) PROVE IInv'
  BY <1>18 DEF Arrive
<1>19. CASE Tick
  BY <1>19 DEF Tick
<1>20. CASE Reboot
  BY <1>20 DEF Reboot
<1>21. QED
  BY <1>1, <1>2, <1>3, <1>4, <1>5, <1>6, <1>7, <1>8, <1>9, <1>10, <1>11, <1>12, <1>13,
     <1>14, <1>15, <1>16, <1>17, <1>18, <1>19, <1>20 DEF Next, LoopStep, Request

THEOREM Invariance == Spec => []IInv
BY InitIInv, StepIInv, PTL DEF Spec

(* No accepted request is ever stranded (queue_zone_state_ and the shared     *)
(* refresh_requested_), whatever the callbacks do in between.                 *)
THEOREM NoneStranded == Spec => []NoStrandedRequest
<1>1. IInv => NoStrandedRequest
  BY DEF IInv
<1>2. QED
  BY <1>1, Invariance, PTL

(* "awaiting_status" is never shown for a transaction that has ended.         *)
THEOREM AwaitingHonest == Spec => []AwaitingIsLive
<1>1. IInv => AwaitingIsLive
  BY DEF IInv
<1>2. QED
  BY <1>1, Invariance, PTL

(* A listen-only driver never transmits nor owes a transmission.              *)
THEOREM ListenerSilent == Spec => []ListenerIsSilent
<1>1. IInv => ListenerIsSilent
  BY DEF IInv
<1>2. QED
  BY <1>1, Invariance, PTL

--------------------------------------------------------------------------------

(* The only step that puts a toggle on the bus is TransmitToggle.             *)
LEMMA TogglesTransmit == [Next]_vars /\ Toggles => TransmitToggle
<1> SUFFICES ASSUME [Next]_vars, Toggles PROVE TransmitToggle
  OBVIOUS
<1>1. pc = "decide" /\ pc' \in {"sent", "failed"} /\ txMask' # {}
  BY DEF Toggles
<1>2. ~Service /\ ~AwaitResponse /\ ~Hold /\ ~SettleWithoutToggle /\ ~TransmitQuery
  BY <1>1 DEF Service, AwaitResponse, Hold, SettleWithoutToggle, TransmitQuery, Transact
<1>3. ~LoopStart /\ ~ReceiveOther /\ ~ReceiveStatus /\ ~Answered /\ ~AbandonTimedOut
      /\ ~AbandonFailed /\ ~RecordSent /\ ~Tick /\ ~Reboot
  BY <1>1 DEF LoopStart, ReceiveOther, ReceiveStatus, Answered, AbandonTimedOut,
              AbandonFailed, RecordSent, Tick, Reboot
<1>4. ~Request /\ (\A frame \in Frames : ~Arrive(frame)) /\ ~UNCHANGED vars
  BY <1>1 DEF Request, RequestRefresh, RefuseZoneState, QueueZoneState, Arrive, vars
<1>5. QED
  BY <1>2, <1>3, <1>4 DEF Next, LoopStep

(* What a toggle rests on: one accepted request for that zone, answered since *)
(* by a status, undamaged, and not toggled for yet.                           *)
THEOREM TogglesJustified == Spec => ToggleJustified
<1>1. ASSUME IInv, [Next]_vars, Toggles
      PROVE  /\ req.zone # NoZone
             /\ txMask' = {req.zone}
             /\ req.answered
             /\ ~req.spoiled
             /\ req.toggles = 0
             /\ (req.zone \in lastMask) # req.on
  <2>1. TransmitToggle
    BY <1>1, TogglesTransmit
  <2>2. pendingZone # NoZone /\ writeReady
    BY <2>1 DEF TransmitToggle, WriteDue
  <2>3. txMask' = ToggleFor(pendingZone, targetOn, lastMask) /\ txMask' # {}
    BY <2>1 DEF TransmitToggle, Transact
  <2>4. txMask' = {pendingZone} /\ (pendingZone \in lastMask) # targetOn
    BY <1>1, <2>3, ToggleForIsZone DEF IInv, TypeOK
  <2>5. QED
    BY <1>1, <2>2, <2>4 DEF IInv, HistoryAgrees
<1>2. QED
  BY <1>1, Invariance, PTL DEF Spec, ToggleJustified

(* No toggle rests on a state the status timeout calls unknown.               *)
THEOREM TogglesFromLiveStatus == Spec => ToggleFromLiveStatus
<1>1. ASSUME IInv, [Next]_vars, Toggles
      PROVE  online /\ (StatusTimeout # 0 => age["status"] < StatusTimeout)
  <2>1. TransmitToggle
    BY <1>1, TogglesTransmit
  <2>2. QED
    BY <1>1, <2>1 DEF TransmitToggle, IInv, TransactionAgrees
<1>2. QED
  BY <1>1, Invariance, PTL DEF Spec, ToggleFromLiveStatus

(* The spill zone is never toggled off as the only open zone.                 *)
THEOREM SpillOpen == Spec => SpillStaysOpen
<1>1. ASSUME IInv, [Next]_vars, Toggles, lastMask = {SpillZone}
      PROVE  txMask' # {SpillZone}
  <2>1. TransmitToggle
    BY <1>1, TogglesTransmit
  <2>2. txMask' = ToggleFor(pendingZone, targetOn, lastMask)
    BY <2>1 DEF TransmitToggle, Transact
  <2>3. SpillZone \in Zones /\ targetOn \in BOOLEAN
    BY <1>1 DEF IInv, TypeOK, Masks
  <2>4. QED
    BY <1>1, <2>2, <2>3, ToggleForSparesSpill
<1>2. QED
  BY <1>1, Invariance, PTL DEF Spec, SpillStaysOpen

--------------------------------------------------------------------------------

(* The driver implements the promise of Toggler: the first state maps to a    *)
(* first state, and every step to a step of Toggler or to none.               *)

LEMMA InitPromised == Init => Promise!Init
BY DEF Init, Open, Clocks, Promise!Init

\* A transmission leaves the last status as it was.
LEMMA TransactKeepsAge ==
    ASSUME TypeOK, NEW mask, Transact(mask)
    PROVE  age'["status"] = age["status"] /\ pc' \in {"sent", "failed"} /\ txMask' = mask
BY DEF Transact, TypeOK, Ages, Clocks

LEMMA ToggleStep == IInv /\ TransmitToggle => \E zone \in Zones : Promise!Toggle(zone)
<1> SUFFICES ASSUME IInv, TransmitToggle PROVE \E zone \in Zones : Promise!Toggle(zone)
  OBVIOUS
<1>1. pc = "decide" /\ ~waiting /\ online /\ pendingZone # NoZone /\ online' = online
  BY DEF TransmitToggle, Transact, WriteDue, view
<1>2. txMask = {} /\ Open = {}
  BY <1>1 DEF IInv, TransactionAgrees, Open
<1>3. PICK mask : mask = ToggleFor(pendingZone, targetOn, lastMask) /\ mask # {} /\ Transact(mask)
  BY DEF TransmitToggle
<1>4. mask = {pendingZone} /\ pendingZone \in Zones
  BY <1>1, <1>3, ToggleForIsZone DEF IInv, TypeOK
<1>5. age'["status"] = age["status"] /\ pc' \in {"sent", "failed"} /\ txMask' = {pendingZone}
  BY <1>3, <1>4, TransactKeepsAge DEF IInv
<1>6. Open' = {pendingZone}
  BY <1>5 DEF Open
<1>7. StatusTimeout # 0 => age["status"] < StatusTimeout
  BY <1>1 DEF IInv, TransactionAgrees
<1>8. Promise!Toggle(pendingZone)
  BY <1>1, <1>2, <1>5, <1>6, <1>7 DEF Promise!Toggle
<1>9. QED
  BY <1>4, <1>8

\* A status is learned from when it is accepted, whatever it answers.
LEMMA StatusStep == IInv /\ ReceiveStatus => Promise!Learn \/ Promise!Hear
<1> SUFFICES ASSUME IInv, ReceiveStatus PROVE Promise!Learn \/ Promise!Hear
  OBVIOUS
<1>1. pc = "drain" /\ online' = TRUE /\ txMask' = txMask /\ age'["status"] = 0
  BY DEF ReceiveStatus, link, IInv, TypeOK, Ages, Clocks
<1>2. CASE waiting
  BY <1>1, <1>2 DEF ReceiveStatus, Open, Promise!Learn
<1>3. CASE ~waiting
  BY <1>1, <1>3 DEF ReceiveStatus, Open, Promise!Learn, IInv, TransactionAgrees
<1>4. QED
  BY <1>2, <1>3

\* What fails or expires leaves the driver offline, with nothing open.
LEMMA FailureDoubts ==
    ASSUME FailTransaction, pc' = "idle"
    PROVE  Promise!Doubt
BY DEF FailTransaction, Open, Promise!Doubt

\* Steps that neither open nor close a toggle, nor change what is known.
LEMMA Unnoticed ==
    ASSUME txMask' = txMask, online' = online, age'["status"] = age["status"],
           pc' = "answer" <=> pc = "answer"
    PROVE  UNCHANGED <<Open, online /\ Open = {}, age["status"]>>
BY DEF Open

LEMMA StepPromised ==
    IInv /\ [Next]_vars => [Promise!Next]_<<Open, online /\ Open = {}, age["status"]>>
<1> SUFFICES ASSUME IInv, [Next]_vars
             PROVE  Promise!Next \/ UNCHANGED <<Open, online /\ Open = {}, age["status"]>>
  OBVIOUS
<1>0. TypeOK
  BY DEF IInv
<1> USE DEF input, link, intent, view
<1>1. CASE UNCHANGED vars
  BY <1>1, Unnoticed DEF vars
<1>2. CASE RequestRefresh
  BY <1>2, Unnoticed DEF RequestRefresh
<1>3. ASSUME NEW zone \in AskedZones, RefuseZoneState(zone)
      PROVE  UNCHANGED <<Open, online /\ Open = {}, age["status"]>>
  BY <1>3, Unnoticed DEF RefuseZoneState
<1>4. ASSUME NEW zone \in AskedZones, NEW on \in BOOLEAN, QueueZoneState(zone, on)
      PROVE  UNCHANGED <<Open, online /\ Open = {}, age["status"]>>
  BY <1>4, Unnoticed DEF QueueZoneState
<1>5. CASE LoopStart
  BY <1>5, Unnoticed DEF LoopStart
<1>6. CASE ReceiveOther
  <2>1. age'["status"] = age["status"]
    BY <1>0, <1>6 DEF ReceiveOther, TypeOK, Ages, Clocks
  <2>2. QED
    BY <1>6, <2>1, Unnoticed DEF ReceiveOther
<1>7. CASE ReceiveStatus
  BY <1>7, StatusStep DEF Promise!Next
<1>8. CASE Answered
  <2>1. Open = {} /\ Open' = {} /\ online' = online /\ age' = age
    BY <1>8 DEF Answered, Open
  <2>2. QED
    BY <2>1
<1>9. CASE Service
  <2>1. CASE StatusExpired(online, hasStatus, age["status"])
    BY <1>9, <2>1 DEF Service, Open, Promise!Doubt, Promise!Next
  <2>2. CASE ~StatusExpired(online, hasStatus, age["status"])
    BY <1>9, <2>2, Unnoticed DEF Service
  <2>3. QED
    BY <2>1, <2>2
<1>10. CASE AwaitResponse
  BY <1>10, Unnoticed DEF AwaitResponse
<1>11. CASE AbandonTimedOut
  BY <1>11, FailureDoubts DEF AbandonTimedOut, Promise!Next
<1>12. CASE Hold
  BY <1>12, Unnoticed DEF Hold
<1>13. CASE SettleWithoutToggle
  <2>1. CASE online
    BY <1>13, <2>1, Unnoticed DEF SettleWithoutToggle
  <2>2. CASE ~online
    BY <1>13, <2>2, FailureDoubts DEF SettleWithoutToggle, Promise!Next
  <2>3. QED
    BY <2>1, <2>2
<1>14. CASE TransmitToggle
  BY <1>14, ToggleStep DEF Promise!Next
<1>15. CASE TransmitQuery
  <2>1. pc = "decide" /\ ~waiting /\ Transact({})
    BY <1>15 DEF TransmitQuery
  <2>2. txMask = {} /\ txMask' = {}
    BY <1>0, <2>1, TransactKeepsAge DEF IInv, TransactionAgrees
  <2>3. age'["status"] = age["status"] /\ pc' \in {"sent", "failed"} /\ online' = online
    BY <1>0, <2>1, TransactKeepsAge DEF Transact
  <2>4. QED
    BY <2>1, <2>2, <2>3, Unnoticed
<1>16. CASE AbandonFailed
  BY <1>16, FailureDoubts DEF AbandonFailed, Promise!Next
<1>17. CASE RecordSent
  <2>1. age'["status"] = age["status"]
    BY <1>0, <1>17 DEF RecordSent, TypeOK, Ages, Clocks
  <2>2. QED
    BY <1>17, <2>1, Unnoticed DEF RecordSent
<1>18. ASSUME NEW frame \in Frames, Arrive(frame)
       PROVE  UNCHANGED <<Open, online /\ Open = {}, age["status"]>>
  BY <1>18, Unnoticed DEF Arrive
<1>19. CASE Tick
  <2>1. age'["status"] \in {age["status"], age["status"] + 1}
    BY <1>0, <1>19, HorizonType DEF Tick, Older, TypeOK, Ages, Clocks
  <2>2. UNCHANGED <<Open, online /\ Open = {}>>
    BY <1>19 DEF Tick, Open
  <2>3. QED
    BY <2>1, <2>2 DEF Promise!Wait, Promise!Next
<1>20. CASE Reboot
  <2>1. age'["status"] = 0
    BY <1>20 DEF Reboot, Clocks
  <2>2. QED
    BY <1>20, <2>1 DEF Reboot, Open, Promise!Doubt, Promise!Next
<1>21. QED
  BY <1>1, <1>2, <1>3, <1>4, <1>5, <1>6, <1>7, <1>8, <1>9, <1>10, <1>11, <1>12, <1>13,
     <1>14, <1>15, <1>16, <1>17, <1>18, <1>19, <1>20 DEF Next, LoopStep, Request

(* The V1 driver is a Toggler: it toggles one zone at a time, from a state it *)
(* is sure of, and only an accepted status ends its doubt.                    *)
THEOREM PromiseKept == Spec => KeepsPromise
BY InitPromised, StepPromised, Invariance, PTL DEF Spec, KeepsPromise, Promise!Spec
================================================================================
