--------------------------- MODULE V1Entities_proofs ---------------------------
(* Home Assistant shows what the V1 driver knows, for every set of zones,     *)
(* every configuration and every sequence of bytes, requests and restarts.    *)
EXTENDS V1Entities, V1Driver_proofs, Entities_proofs

(* The inductive invariant: either the zones shown are those of the last      *)
(* status, or its handling is about to publish them.                          *)
EntityInv ==
    /\ shown \in Shown(Masks)
    /\ due \in Due
    /\ shown.online = online
    /\ hasStatus => \/ pc = "answer" /\ due.mask
                    \/ shown.hasMask /\ shown.mask = lastMask

\* Every step of the entities is a step of the driver.
LEMMA EntityStepIsStep == [EntityNext]_<<vars, entities>> => [Next]_vars
<1>1. RequestShown => Request
  BY DEF RequestShown, Request
<1>2. StatusShown \/ AnsweredShown \/ ServiceShown \/ CountShown \/ TransactionShown => LoopStep
  BY DEF StatusShown, AnsweredShown, ServiceShown, CountShown, TransactionShown, LoopStep
<1>3. NothingNewShown => LoopStep \/ Tick \/ \E frame \in Frames : Arrive(frame)
  BY DEF NothingNewShown, LoopStep
<1>4. RebootShown => Reboot
  BY DEF RebootShown
<1>5. UNCHANGED <<vars, entities>> => UNCHANGED vars
  OBVIOUS
<1>6. QED
  BY <1>1, <1>2, <1>3, <1>4, <1>5 DEF EntityNext, Next

(* A step that publishes the diagnostics, and is forced to if online_ has     *)
(* changed, leaves the invariant alone while no status is handled.            *)
LEMMA PublishKeeps ==
    ASSUME EntityInv, online' \in BOOLEAN, UNCHANGED <<due, hasStatus, lastMask>>,
           pc = "answer" => pc' = "answer",
           NEW force, force \/ online' = online, Publish(force)
    PROVE  EntityInv'
<1>1. shown \in Shown(Masks) /\ shown.online = online
  BY DEF EntityInv
<1>2. shown' \in Shown(Masks) /\ shown'.online = online' /\ SameZones(shown, shown')
  BY <1>1, DiagnosedShows DEF Publish
<1>3. QED
  BY <1>2 DEF EntityInv, SameZones

\* So does a step that publishes nothing and changes nothing to be published.
LEMMA SilenceKeeps ==
    ASSUME EntityInv, UNCHANGED <<entities, online, hasStatus, lastMask>>,
           pc = "answer" => pc' = "answer"
    PROVE  EntityInv'
<1>1. /\ shown' = shown /\ due' = due /\ online' = online
      /\ hasStatus' = hasStatus /\ lastMask' = lastMask
  BY DEF entities
<1>2. shown' \in Shown(Masks) /\ due' \in Due /\ shown'.online = online'
  BY <1>1 DEF EntityInv
<1>3. hasStatus' => \/ pc' = "answer" /\ due'.mask
                    \/ shown'.hasMask /\ shown'.mask = lastMask'
  BY <1>1 DEF EntityInv
<1>4. QED
  BY <1>2, <1>3 DEF EntityInv

LEMMA EntityInitInv == EntityInit => EntityInv
<1>1. {} \in Masks
  BY DEF Masks
<1>2. QED
  BY <1>1, NothingShownType DEF EntityInit, EntitiesInit, Init, EntityInv

LEMMA EntityStepInv == IInv /\ IInv' /\ EntityInv /\ [EntityNext]_<<vars, entities>> => EntityInv'
<1> SUFFICES ASSUME IInv, IInv', EntityInv, [EntityNext]_<<vars, entities>>
             PROVE  EntityInv'
  OBVIOUS
<1>0. online \in BOOLEAN /\ online' \in BOOLEAN /\ lastMask \in Masks /\ lastMask' \in Masks
  BY DEF IInv, TypeOK
<1>1. CASE RequestShown
  <2>1. UNCHANGED <<pc, due, view>>
    BY <1>1 DEF RequestShown, RequestRefresh, RefuseZoneState, QueueZoneState
  <2>2. Publish(TRUE) \/ UNCHANGED shown
    BY <1>1 DEF RequestShown
  <2>3. QED
    BY <1>0, <2>1, <2>2, PublishKeeps, SilenceKeeps DEF view, entities
<1>2. CASE StatusShown
  <2> DEFINE todo == [mask |-> ~hasStatus \/ lastMask # lastMask', online |-> BecameOnline]
  <2>1. ReceiveStatus /\ pc # "answer" /\ online' /\ hasStatus'
    BY <1>2 DEF StatusShown, ReceiveStatus
  <2>2. todo \in Due /\ (todo.online \/ shown.online)
    BY <1>0 DEF Due, BecameOnline, EntityInv
  <2>3. ~todo.mask => shown.hasMask /\ shown.mask = lastMask'
    BY <2>1 DEF EntityInv
  <2>4. CASE waiting
    <3>1. pc' = "answer" /\ due' = todo /\ Publish(TRUE)
      BY <1>2, <2>1, <2>4 DEF StatusShown, ReceiveStatus
    <3>2. shown' \in Shown(Masks) /\ shown'.online = online' /\ SameZones(shown, shown')
      BY <1>0, <3>1, DiagnosedShows DEF Publish, EntityInv
    <3> HIDE DEF todo
    <3>3. QED
      BY <2>2, <2>3, <3>1, <3>2 DEF EntityInv, SameZones
  <2>5. CASE ~waiting
    <3>1. shown' \in Concluded(shown, todo, lastMask', 0) /\ UNCHANGED due
      BY <1>2, <2>5 DEF StatusShown
    <3> HIDE DEF todo
    <3>2. /\ shown' \in Shown(Masks)
          /\ shown'.online
          /\ IF todo.mask THEN shown'.hasMask /\ shown'.mask = lastMask' ELSE SameZones(shown, shown')
      BY <1>0, <2>2, <3>1, ConcludedShows DEF EntityInv
    <3>3. shown'.hasMask /\ shown'.mask = lastMask'
      BY <2>3, <3>2 DEF SameZones
    <3>4. shown'.online = online'
      BY <1>0, <2>1, <3>2 DEF Shown
    <3>5. QED
      BY <3>1, <3>2, <3>3, <3>4 DEF EntityInv
  <2>6. QED
    BY <2>4, <2>5
<1>3. CASE AnsweredShown
  <2>1. pc = "answer" /\ online /\ UNCHANGED view
    BY <1>3 DEF AnsweredShown, Answered, IInv, PhasesAgree
  <2>2. shown.online
    BY <2>1 DEF EntityInv
  <2>3. /\ shown' \in Shown(Masks)
        /\ shown'.online
        /\ IF due.mask THEN shown'.hasMask /\ shown'.mask = lastMask ELSE SameZones(shown, shown')
    BY <1>0, <1>3, <2>2, ConcludedShows DEF AnsweredShown, EntityInv
  <2>4. due' = NothingDue /\ NothingDue \in Due
    BY <1>3 DEF AnsweredShown, NothingDue, Due
  <2>5. hasStatus => shown'.hasMask /\ shown'.mask = lastMask
    BY <2>3 DEF EntityInv, SameZones
  <2>6. shown'.online = online'
    BY <1>0, <2>1, <2>3 DEF Shown, view
  <2>7. QED
    BY <2>1, <2>3, <2>4, <2>5, <2>6 DEF EntityInv, view
<1>4. CASE ServiceShown
  <2>1. pc # "answer" /\ Publish(online' # online) /\ UNCHANGED <<due, hasStatus, lastMask>>
    BY <1>4 DEF ServiceShown, Service
  <2>2. QED
    BY <1>0, <2>1, PublishKeeps
<1>5. CASE CountShown
  <2>1. pc # "answer" /\ Publish(FALSE) /\ UNCHANGED <<due, view>>
    BY <1>5 DEF CountShown, LoopStart, ReceiveOther
  <2>2. QED
    BY <1>0, <2>1, PublishKeeps DEF view
<1>6. CASE TransactionShown
  <2>1. pc # "answer" /\ UNCHANGED <<hasStatus, lastMask>>
    BY <1>6 DEF TransactionShown, AbandonTimedOut, AbandonFailed, TransmitToggle, TransmitQuery,
                Transact, AwaitResponse, SettleWithoutToggle, FailTransaction, view
  <2>2. Publish(TRUE) /\ UNCHANGED due
    BY <1>6 DEF TransactionShown
  <2>3. QED
    BY <1>0, <2>1, <2>2, PublishKeeps
<1>7. CASE NothingNewShown
  <2>1. UNCHANGED <<entities, view>> /\ (pc = "answer" => pc' = "answer")
    BY <1>7 DEF NothingNewShown, AwaitResponse, SettleWithoutToggle, Hold, RecordSent, Tick, Arrive
  <2>2. QED
    BY <2>1, SilenceKeeps DEF view
<1>8. CASE RebootShown
  BY <1>0, <1>8, NothingShownType DEF RebootShown, Reboot, EntityInv
<1>9. CASE UNCHANGED <<vars, entities>>
  BY <1>9, SilenceKeeps DEF vars, view
<1>10. QED
  BY <1>1, <1>2, <1>3, <1>4, <1>5, <1>6, <1>7, <1>8, <1>9 DEF EntityNext

(* The entities show what the V1 driver knows: whether it is online at every  *)
(* moment, and the zones of the last status once its handling is over.        *)
THEOREM EntitiesHonest == EntitySpec => []EntitiesAgree
<1>1. EntityInit => Init
  BY DEF EntityInit
<1>2. IInv /\ [EntityNext]_<<vars, entities>> => IInv'
  BY EntityStepIsStep, StepIInv
<1>3. EntityInv => EntitiesAgree
  BY DEF EntityInv, EntitiesAgree
<1>4. QED
  BY <1>1, <1>2, <1>3, InitIInv, EntityInitInv, EntityStepInv, PTL DEF EntitySpec

(* What the entities are shown holds nothing up and adds nothing: with them   *)
(* the driver still is the one of V1Driver, and what holds there, holds here. *)
THEOREM EntitiesFollowDriver == EntitySpec => Spec
<1>1. EntityInit => Init
  BY DEF EntityInit
<1>2. QED
  BY <1>1, EntityStepIsStep, PTL DEF EntitySpec, Spec
================================================================================
