------------------------------- MODULE V2Entities -------------------------------
(* The V2 driver and its entities: every step of V2Driver with what it        *)
(* publishes.  service_diagnostics_ is served between the poll cycle and the  *)
(* read loop.                                                                 *)
EXTENDS V2Driver, Entities

EntityInit == Init /\ EntitiesInit

\* publish_diagnostics_(force) at the end of a step.
Publish(force) == shown' \in Diagnosed(shown, nodeAddr', online', force)

\* service_diagnostics_, when the read loop is reached.
Serviced == IF pc' = "drain" THEN Publish(FALSE) ELSE UNCHANGED shown

(* A timeout and a transmission publish their result; a missed answer also    *)
(* that the controller is offline.                                            *)
CycleShown ==
    /\ \/ LoopExpires /\ Publish(TRUE)
       \/ LoopStart /\ (IF pc' = "missed" THEN Publish(TRUE) ELSE Serviced)
       \/ ResponseMissed /\ (IF online' # online THEN Publish(TRUE) ELSE Serviced)
       \/ (PollToggle \/ PollQuery) /\ (IF pc' = "sent" THEN Publish(TRUE) ELSE Serviced)
       \/ RecordSent /\ Serviced
    /\ UNCHANGED due

\* Faulty: the unlock waits for the diagnostic interval.
ForcedIfLocked == locked'
\* The argument of publish_diagnostics_ behind a status of another controller.
Forced == ~locked'

(* A status of no locked controller: a new candidate is published at once,    *)
(* and so is the loss of the locked one.                                      *)
StrangerShown ==
    /\ \/ ReceiveOther /\ Publish(FALSE)
       \/ \E f \in Statuses :
             \/ ReceiveUnconfirmed(f) /\ Publish(candidate'.node # candidate.node)
             \/ (ReceiveMismatch(f) \/ ReceiveUnlock(f)) /\ Publish(Forced)
    /\ UNCHANGED due

(* A status that answers a request by its sequence number is published behind *)
(* its result, which still shows the old online; any other at once.           *)
StatusShown ==
    \E f \in Statuses :
       LET todo == [mask |-> ~hasStatus \/ lastMask # f.mask, online |-> ~online]
       IN  /\ ReceiveStatus(f)
           /\ IF pc' = "match"
              THEN Publish(TRUE) /\ due' = todo
              ELSE shown' \in Concluded(shown, todo, f.mask, nodeAddr') /\ UNCHANGED due

MatchShown ==
    /\ ConcludeMatch
    /\ shown' \in Concluded(shown, due, lastMask, nodeAddr)
    /\ due' = NothingDue

(* A request that is refused -- listen_only, invalid_zone, no_status -- only   *)
(* publishes that result.                                                     *)
RefusedShown == UNCHANGED <<vars, due>> /\ Publish(TRUE)

NothingNewShown == (Request \/ LoopEnd \/ Arrive \/ Tick) /\ UNCHANGED entities

RebootShown == Reboot /\ shown' = NothingShown /\ due' = NothingDue

EntityNext ==
    \/ CycleShown \/ StrangerShown \/ StatusShown \/ MatchShown
    \/ RefusedShown \/ NothingNewShown \/ RebootShown

EntitySpec == EntityInit /\ [][EntityNext]_<<vars, entities>>

(* What Home Assistant shows is what the driver knows: online at every        *)
(* moment, the address as soon as any has been shown, and the zones of the    *)
(* last status as soon as its handling is over -- also the first status after *)
(* an unlock, whose mask may equal that of the controller before (lines 160,  *)
(* 419, 460, 483 and 497-501).                                                *)
EntitiesAgree ==
    /\ shown.online = online
    /\ shown.hasNode => shown.node = nodeAddr
    /\ hasStatus /\ pc # "match" => shown.hasMask /\ shown.mask = lastMask
================================================================================
