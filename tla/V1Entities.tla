------------------------------- MODULE V1Entities -------------------------------
(* The V1 driver and its entities: every step of V1Driver with what it        *)
(* publishes.  get_node_addr of a V1 hub is 0.                                *)
EXTENDS V1Driver, Entities

EntityInit == Init /\ EntitiesInit

\* publish_diagnostics_(force) at the end of a step.
Publish(force) == shown' \in Diagnosed(shown, 0, online', force)

\* A refused request publishes its result, an accepted one nothing.
RequestShown ==
    /\ \/ RequestRefresh /\ (IF ListenOnly THEN Publish(TRUE) ELSE UNCHANGED shown)
       \/ (\E zone \in AskedZones : RefuseZoneState(zone)) /\ Publish(TRUE)
       \/ (\E zone \in AskedZones, on \in BOOLEAN : QueueZoneState(zone, on)) /\ UNCHANGED shown
    /\ UNCHANGED due

\* Faulty: a status says nothing of the driver's state of connection.
ForcedNever == FALSE
\* The argument of publish_diagnostics_ in handle_v1_status_.
BecameOnline == ~online

(* A status that answers nothing is published at once; one that does, behind  *)
(* its result, by which time "online" has been published with the result.     *)
StatusShown ==
    LET todo == [mask |-> ~hasStatus \/ lastMask # lastMask', online |-> BecameOnline]
    IN  /\ ReceiveStatus
        /\ IF waiting
           THEN Publish(TRUE) /\ due' = todo
           ELSE shown' \in Concluded(shown, todo, lastMask', 0) /\ UNCHANGED due

AnsweredShown ==
    /\ Answered
    /\ shown' \in Concluded(shown, due, lastMask, 0)
    /\ due' = NothingDue

\* service_diagnostics_ comes before the status timeout, which publishes its result.
ServiceShown == Service /\ Publish(online' # online) /\ UNCHANGED due

\* Bytes and frames that are given up or damaged are counted.
CountShown == (LoopStart \/ ReceiveOther) /\ Publish(FALSE) /\ UNCHANGED due

\* fail_v1_transaction_ and every new result publish.
TransactionShown ==
    /\ \/ AbandonTimedOut \/ AbandonFailed \/ TransmitToggle \/ TransmitQuery
       \/ AwaitResponse /\ pc' = "timedout"
       \/ SettleWithoutToggle /\ ~online
    /\ Publish(TRUE)
    /\ UNCHANGED due

NothingNewShown ==
    /\ \/ AwaitResponse /\ pc' = "idle"
       \/ SettleWithoutToggle /\ online
       \/ Hold \/ RecordSent \/ Tick
       \/ \E frame \in Frames : Arrive(frame)
    /\ UNCHANGED entities

RebootShown == Reboot /\ shown' = NothingShown /\ due' = NothingDue

EntityNext ==
    \/ RequestShown \/ StatusShown \/ AnsweredShown \/ ServiceShown \/ CountShown
    \/ TransactionShown \/ NothingNewShown \/ RebootShown

EntitySpec == EntityInit /\ [][EntityNext]_<<vars, entities>> /\ Fairness

(* What Home Assistant shows is what the driver knows: online at every        *)
(* moment, and the zones of the last accepted status as soon as its handling  *)
(* is over, whichever of the two ways a status is published, and whatever a   *)
(* callback requests in between (lines 41-58, fail_v1_transaction_,           *)
(* service_status_timeout_).                                                  *)
EntitiesAgree ==
    /\ shown.online = online
    /\ hasStatus /\ pc # "answer" => shown.hasMask /\ shown.mask = lastMask
================================================================================
