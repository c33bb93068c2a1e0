-------------------------------- MODULE Entities --------------------------------
(* What the entities show in Home Assistant, and how the hub tells them:      *)
(* publish_mask_ to the switches and zone sensors, publish_diagnostics_ to    *)
(* the online and node address sensors.  publish_if_changed_ of an entity     *)
(* keeps what it has shown last, which is all there is of an entity here.     *)
(*                                                                            *)
(* publish_diagnostics_ drops a call that is not forced if the last one was   *)
(* less than diagnostic_update_interval_ms_ ago, so it may or may not happen. *)
EXTENDS Naturals

VARIABLES
    shown,  \* what the entities have published last, and which have at all
    due     \* what handle_v1_status_ or handle_frame_ has yet to publish

entities == <<shown, due>>

\* The online sensor shows "off" from setup() on; the others wait for something to show.
NothingShown == [hasMask |-> FALSE, mask |-> {}, online |-> FALSE, hasNode |-> FALSE, node |-> 0]
NothingDue == [mask |-> FALSE, online |-> FALSE]

EntitiesInit == shown = NothingShown /\ due = NothingDue

\* publish_mask_ and on_mask_update
WithMask(s, mask) == [s EXCEPT !.hasMask = TRUE, !.mask = mask]

\* on_diagnostics_update of the online sensor, and of the node address sensor
WithOnline(s, online) == [s EXCEPT !.online = online]
WithNode(s, node) == [s EXCEPT !.hasNode = TRUE, !.node = node]

\* publish_diagnostics_(true)
WithDiagnostics(s, node, online) == WithNode(WithOnline(s, online), node)

\* publish_diagnostics_(force): all that s may become.
Diagnosed(s, node, online, force) ==
    {WithDiagnostics(s, node, online)} \cup (IF force THEN {} ELSE {s})

(* The end of a status: its mask is published if it is new, and then the      *)
(* diagnostics, at once if the controller has just become online.             *)
Concluded(s, todo, mask, node) ==
    Diagnosed(IF todo.mask THEN WithMask(s, mask) ELSE s, node, TRUE, todo.online)
================================================================================
