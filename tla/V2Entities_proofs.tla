--------------------------- MODULE V2Entities_proofs ---------------------------
(* Home Assistant shows what the V2 driver knows, for every set of zones and  *)
(* controllers, every configuration and every sequence of frames, requests    *)
(* and restarts.                                                              *)
EXTENDS V2Entities, V2Driver_proofs, Entities_proofs

(* The inductive invariant: the address is that of the candidate, and what is *)
(* not shown yet of the last status is due.                                   *)
EntityInv ==
    /\ shown \in Shown(Masks)
    /\ due \in Due
    /\ candidate.node = nodeAddr
    /\ shown.online = online
    /\ shown.hasNode => shown.node = nodeAddr
    /\ pc = "match" => due.online = ~online
    /\ hasStatus => \/ pc = "match" /\ due.mask
                    \/ shown.hasMask /\ shown.mask = lastMask

\* Every step of the entities is a step of the driver.
LEMMA EntityStepIsStep == [EntityNext]_<<vars, entities>> => [Next]_vars
<1>1. CycleShown => LoopStep
  BY DEF CycleShown, LoopStep
<1>2. StrangerShown \/ StatusShown \/ MatchShown => LoopStep
  BY DEF StrangerShown, StatusShown, MatchShown, LoopStep
<1>3. NothingNewShown => LoopStep \/ Request \/ Arrive \/ Tick
  BY DEF NothingNewShown, LoopStep
<1>4. RebootShown => Reboot
  BY DEF RebootShown
<1>5. RefusedShown \/ UNCHANGED <<vars, entities>> => UNCHANGED vars
  BY DEF RefusedShown
<1>6. QED
  BY <1>1, <1>2, <1>3, <1>4, <1>5 DEF EntityNext, Next

(* A step that publishes the diagnostics, and is forced to if online_ or the  *)
(* address has changed, leaves the invariant alone while no status is         *)
(* handled; it may lose the status.                                           *)
LEMMA PublishKeeps ==
    ASSUME EntityInv, online' \in BOOLEAN, nodeAddr' \in Nat, candidate'.node = nodeAddr',
           UNCHANGED <<due, lastMask>>, hasStatus' => hasStatus,
           pc # "match", pc' # "match",
           NEW force, force \/ UNCHANGED <<online, nodeAddr>>, Publish(force)
    PROVE  EntityInv'
<1>1. shown \in Shown(Masks) /\ (force \/ shown.online = online')
  BY DEF EntityInv
<1>2. force \/ (shown.hasNode => shown.node = nodeAddr')
  BY DEF EntityInv
<1>3. shown' \in Shown(Masks) /\ shown'.online = online' /\ SameZones(shown, shown')
  BY <1>1, DiagnosedShows DEF Publish
<1>4. shown'.hasNode => shown'.node = nodeAddr'
  BY <1>1, <1>2, DiagnosedShowsNode DEF Publish
<1>5. QED
  BY <1>3, <1>4 DEF EntityInv, SameZones

\* So does a step that publishes nothing and changes nothing to be published.
LEMMA SilenceKeeps ==
    ASSUME EntityInv, UNCHANGED <<entities, online, hasStatus, lastMask, nodeAddr, candidate>>,
           pc = "match" <=> pc' = "match"
    PROVE  EntityInv'
<1>1. /\ shown' = shown /\ due' = due /\ online' = online /\ nodeAddr' = nodeAddr
      /\ hasStatus' = hasStatus /\ lastMask' = lastMask /\ candidate' = candidate
  BY DEF entities
<1>2. /\ shown' \in Shown(Masks) /\ due' \in Due /\ candidate'.node = nodeAddr'
      /\ shown'.online = online'
      /\ shown'.hasNode => shown'.node = nodeAddr'
      /\ pc' = "match" => due'.online = ~online'
  BY <1>1 DEF EntityInv
<1>3. hasStatus' => \/ pc' = "match" /\ due'.mask
                    \/ shown'.hasMask /\ shown'.mask = lastMask'
  BY <1>1 DEF EntityInv
<1>4. QED
  BY <1>2, <1>3 DEF EntityInv

LEMMA EntityInitInv == EntityInit => EntityInv
<1> SUFFICES ASSUME EntityInit PROVE EntityInv
  OBVIOUS
<1>1. shown \in Shown(Masks) /\ shown.online = FALSE /\ due \in Due
  BY NothingShownType DEF EntityInit, EntitiesInit, Masks
<1>2. shown.hasNode = FALSE
  BY DEF EntityInit, EntitiesInit, NothingShown
<1>3. QED
  BY <1>1, <1>2 DEF EntityInit, Init, EntityInv

LEMMA EntityStepInv == IInv /\ IInv' /\ EntityInv /\ [EntityNext]_<<vars, entities>> => EntityInv'
<1> SUFFICES ASSUME IInv, IInv', EntityInv, [EntityNext]_<<vars, entities>>
             PROVE  EntityInv'
  OBVIOUS
<1>0. /\ online \in BOOLEAN /\ online' \in BOOLEAN /\ lastMask \in Masks /\ lastMask' \in Masks
      /\ nodeAddr \in Nat /\ nodeAddr' \in Nat /\ hasStatus \in BOOLEAN
      /\ candidate.node = nodeAddr
  BY DEF IInv, TypeOK, EntityInv
<1>1. CASE CycleShown
  <2>1. /\ pc \notin {"match", "drain"} /\ pc' # "match"
        /\ UNCHANGED <<due, nodeAddr, candidate, hasStatus, lastMask>>
    BY <1>1 DEF CycleShown, LoopExpires, LoopStart, ResponseMissed, PollToggle, PollQuery, Send,
                Defer, RecordSent, PastTimeouts, view, identity
  <2>2. Publish(TRUE) \/ (UNCHANGED online /\ Serviced)
    BY <1>1 DEF CycleShown, LoopExpires, LoopStart, ResponseMissed, PollToggle, PollQuery,
                RecordSent, Serviced, view
  <2>3. CASE Publish(TRUE)
    BY <1>0, <2>1, <2>3, PublishKeeps
  <2>4. CASE UNCHANGED online /\ Publish(FALSE)
    BY <1>0, <2>1, <2>4, PublishKeeps
  <2>5. CASE UNCHANGED online /\ UNCHANGED shown
    BY <2>1, <2>5, SilenceKeeps DEF entities
  <2>6. QED
    BY <2>2, <2>3, <2>4, <2>5 DEF Serviced
<1>2. CASE StrangerShown
  <2>1. pc # "match" /\ pc' # "match" /\ UNCHANGED due
    BY <1>2 DEF StrangerShown, ReceiveOther, ReceiveUnconfirmed, ReceiveMismatch, ReceiveUnlock, TakeFrame
  <2>2. CASE ReceiveOther /\ Publish(FALSE)
    BY <1>0, <2>1, <2>2, PublishKeeps DEF ReceiveOther, view, identity
  <2>3. ASSUME NEW f \in Statuses, ReceiveUnconfirmed(f), Publish(candidate'.node # candidate.node)
        PROVE  EntityInv'
    <3>1. candidate'.node = nodeAddr' /\ UNCHANGED <<online, hasStatus, lastMask>>
      BY <2>3 DEF ReceiveUnconfirmed, view
    <3>2. candidate'.node # candidate.node \/ UNCHANGED <<online, nodeAddr>>
      BY <1>0, <3>1
    <3>3. QED
      BY <1>0, <2>1, <2>3, <3>1, <3>2, PublishKeeps
  <2>4. ASSUME NEW f \in Statuses, ReceiveMismatch(f), Publish(Forced) PROVE EntityInv'
    <3>1. UNCHANGED <<online, hasStatus, lastMask, nodeAddr, candidate>>
      BY <2>4 DEF ReceiveMismatch, view
    <3>2. QED
      BY <1>0, <2>1, <2>4, <3>1, PublishKeeps
  <2>5. ASSUME NEW f \in Statuses, ReceiveUnlock(f), Publish(Forced) PROVE EntityInv'
    <3>1. /\ candidate'.node = nodeAddr' /\ UNCHANGED lastMask /\ hasStatus' = FALSE
          /\ Forced
      BY <2>5 DEF ReceiveUnlock, LoseStatus, Forced
    <3>2. QED
      BY <1>0, <2>1, <2>5, <3>1, PublishKeeps
  <2>6. QED
    BY <1>2, <2>2, <2>3, <2>4, <2>5 DEF StrangerShown
<1>3. CASE StatusShown
  <2>1. PICK f \in Statuses :
           LET todo == [mask |-> ~hasStatus \/ lastMask # f.mask, online |-> ~online]
           IN  /\ ReceiveStatus(f)
               /\ IF pc' = "match"
                  THEN Publish(TRUE) /\ due' = todo
                  ELSE shown' \in Concluded(shown, todo, f.mask, nodeAddr') /\ UNCHANGED due
    BY <1>3 DEF StatusShown
  <2> DEFINE todo == [mask |-> ~hasStatus \/ lastMask # f.mask, online |-> ~online]
  <2>2. ReceiveStatus(f) /\ pc = "drain" /\ hasStatus' = TRUE /\ lastMask' = f.mask
    BY <2>1 DEF ReceiveStatus, TakeFrame
  <2>3. candidate'.node = nodeAddr'
    BY <1>0, <2>2 DEF ReceiveStatus, LockOn
  <2>4. ~online \/ UNCHANGED nodeAddr
    BY <2>2 DEF ReceiveStatus, LockOn, IInv, OnlineIsKnown
  <2>5. todo \in Due /\ todo.online = ~online /\ todo.mask = (~hasStatus \/ lastMask # f.mask)
    BY <1>0 DEF Due
  <2>6. (~hasStatus \/ lastMask # f.mask) \/ (shown.hasMask /\ shown.mask = lastMask')
    BY <1>0, <2>2 DEF EntityInv
  <2>7. shown \in Shown(Masks) /\ shown.online = online /\ due \in Due
    BY DEF EntityInv
  <2>8. CASE pc' = "match"
    <3>1. due' = todo /\ Publish(TRUE)
      BY <2>1, <2>8
    <3>2. UNCHANGED online
      BY <2>2, <2>8 DEF ReceiveStatus
    <3>3. shown' \in Shown(Masks) /\ shown'.online = online' /\ SameZones(shown, shown')
      BY <1>0, <2>7, <3>1, DiagnosedShows DEF Publish
    <3>4. shown'.hasNode => shown'.node = nodeAddr'
      <4>1. shown' = WithDiagnostics(shown, nodeAddr', online')
        BY <3>1 DEF Publish, Diagnosed
      <4>2. QED
        BY <2>7, <4>1 DEF WithDiagnostics, WithNode, WithOnline, Shown
    <3> HIDE DEF todo
    <3>5. due' \in Due /\ due'.online = ~online' /\ due'.mask = (~hasStatus \/ lastMask # f.mask)
      BY <2>5, <3>1, <3>2
    <3>6. due'.mask \/ (shown'.hasMask /\ shown'.mask = lastMask')
      <4>1. CASE ~hasStatus \/ lastMask # f.mask
        BY <3>5, <4>1
      <4>2. CASE shown.hasMask /\ shown.mask = lastMask'
        BY <3>3, <4>2 DEF SameZones
      <4>3. QED
        BY <2>6, <4>1, <4>2
    <3>7. QED
      BY <2>3, <2>8, <3>3, <3>4, <3>5, <3>6 DEF EntityInv
  <2>9. CASE pc' # "match"
    <3>1. shown' \in Concluded(shown, todo, f.mask, nodeAddr') /\ due' = due
      BY <2>1, <2>9
    <3>2. online' = TRUE
      BY <2>2, <2>9 DEF ReceiveStatus, Conclude
    <3>3. f.mask \in Masks
      BY <1>0, <2>2
    <3> HIDE DEF todo
    <3>4. todo.online \/ shown.online
      BY <1>0, <2>5, <2>7
    <3>5. todo.online \/ (shown.hasNode => shown.node = nodeAddr')
      BY <2>4, <2>5 DEF EntityInv
    <3>6. /\ shown' \in Shown(Masks)
          /\ shown'.online
          /\ IF todo.mask THEN shown'.hasMask /\ shown'.mask = f.mask ELSE SameZones(shown, shown')
      BY <1>0, <2>5, <2>7, <3>1, <3>3, <3>4, ConcludedShows
    <3>7. shown'.hasNode => shown'.node = nodeAddr'
      BY <1>0, <2>5, <2>7, <3>1, <3>3, <3>5, ConcludedShowsNode
    <3>8. shown'.hasMask /\ shown'.mask = lastMask'
      BY <2>2, <2>5, <2>6, <3>6 DEF SameZones
    <3>9. shown'.online = online'
      BY <3>2, <3>6 DEF Shown
    <3>10. QED
      BY <2>3, <2>7, <2>9, <3>1, <3>6, <3>7, <3>8, <3>9 DEF EntityInv
  <2>10. QED
    BY <2>8, <2>9
<1>4. CASE MatchShown
  <2>1. pc = "match" /\ pc' = "drain" /\ online' = TRUE /\ UNCHANGED <<hasStatus, lastMask, nodeAddr, candidate>>
    BY <1>4 DEF MatchShown, ConcludeMatch, Conclude, identity
  <2>2. shown \in Shown(Masks) /\ due \in Due /\ due.online = ~online /\ shown.online = online
    BY <2>1 DEF EntityInv
  <2>3. shown' \in Concluded(shown, due, lastMask, nodeAddr) /\ due' = NothingDue
    BY <1>4 DEF MatchShown
  <2>4. due.online \/ shown.online
    BY <1>0, <2>2
  <2>5. due.online \/ (shown.hasNode => shown.node = nodeAddr)
    BY DEF EntityInv
  <2>6. /\ shown' \in Shown(Masks)
        /\ shown'.online
        /\ IF due.mask THEN shown'.hasMask /\ shown'.mask = lastMask ELSE SameZones(shown, shown')
    BY <1>0, <2>2, <2>3, <2>4, ConcludedShows
  <2>7. shown'.hasNode => shown'.node = nodeAddr
    BY <1>0, <2>2, <2>3, <2>5, ConcludedShowsNode
  <2>8. hasStatus => shown'.hasMask /\ shown'.mask = lastMask
    BY <2>1, <2>6 DEF EntityInv, SameZones
  <2>9. shown'.online = online' /\ due' \in Due
    BY <2>1, <2>3, <2>6, NothingShownType DEF Shown, NothingDue, Due
  <2>10. QED
    BY <1>0, <2>1, <2>6, <2>7, <2>8, <2>9 DEF EntityInv
<1>5. CASE NothingNewShown
  <2>1. /\ UNCHANGED <<entities, online, hasStatus, lastMask, nodeAddr, candidate>>
        /\ pc = "match" <=> pc' = "match"
    BY <1>5 DEF NothingNewShown, Request, RequestRefresh, QueueZoneState, LoopEnd, Arrive, Tick,
                view, identity
  <2>2. QED
    BY <2>1, SilenceKeeps
<1>6. CASE RebootShown
  <2>1. shown' \in Shown(Masks) /\ shown'.online = FALSE /\ due' \in Due
    BY <1>6, NothingShownType DEF RebootShown, Masks
  <2>2. shown'.hasNode = FALSE
    BY <1>6 DEF RebootShown, NothingShown
  <2>3. QED
    BY <1>6, <2>1, <2>2 DEF RebootShown, Reboot, EntityInv
<1>7. CASE RefusedShown
  <2>1. UNCHANGED <<pc, due, online, hasStatus, lastMask, nodeAddr, candidate>>
    BY <1>7 DEF RefusedShown, vars, view, identity
  <2>2. /\ shown \in Shown(Masks) /\ shown.online = online
        /\ shown' = WithDiagnostics(shown, nodeAddr', online')
    BY <1>7 DEF RefusedShown, Publish, Diagnosed, EntityInv
  <2>3. shown' \in Shown(Masks) /\ shown'.online = online' /\ SameZones(shown, shown')
    BY <1>0, <1>7, <2>2, DiagnosedShows DEF RefusedShown, Publish
  <2>4. shown'.hasNode => shown'.node = nodeAddr'
    BY <2>2 DEF WithDiagnostics, WithNode, WithOnline, Shown
  <2>5. /\ due' \in Due /\ candidate'.node = nodeAddr'
        /\ pc' = "match" => due'.online = ~online'
        /\ hasStatus' => \/ pc' = "match" /\ due'.mask
                         \/ shown'.hasMask /\ shown'.mask = lastMask'
    BY <2>1, <2>3 DEF EntityInv, SameZones
  <2>6. QED
    BY <2>3, <2>4, <2>5 DEF EntityInv
<1>8. CASE UNCHANGED <<vars, entities>>
  BY <1>8, SilenceKeeps DEF vars, view, identity
<1>9. QED
  BY <1>1, <1>2, <1>3, <1>4, <1>5, <1>6, <1>7, <1>8 DEF EntityNext

(* The entities show what the V2 driver knows: whether it is online and the   *)
(* address it has at every moment, and the zones of the last status once its  *)
(* handling is over.                                                          *)
THEOREM EntitiesHonest == EntitySpec => []EntitiesAgree
<1>1. EntityInit => Init
  BY DEF EntityInit
<1>2. IInv /\ [EntityNext]_<<vars, entities>> => IInv'
  BY EntityStepIsStep, StepIInv
<1>3. EntityInv => EntitiesAgree
  BY DEF EntityInv, EntitiesAgree
<1>4. QED
  BY <1>1, <1>2, <1>3, InitIInv, EntityInitInv, EntityStepInv, PTL DEF EntitySpec

(* What the entities are shown holds nothing up and adds nothing: with them   *)
(* the driver still is the one of V2Driver, and what holds there, holds here. *)
THEOREM EntitiesFollowDriver == EntitySpec => Spec
<1>1. EntityInit => Init
  BY DEF EntityInit
<1>2. QED
  BY <1>1, EntityStepIsStep, PTL DEF EntitySpec, Spec
================================================================================
