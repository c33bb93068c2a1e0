------------------------------- MODULE MCV2Driver -------------------------------
(* V2Driver for TLC: one or two controllers, one or two zones, and times of a *)
(* few ticks.  As in the code's defaults, the retry interval is at most the   *)
(* idle guard, and the poll interval is shorter than the status timeout.      *)
EXTENDS V2Driver

MCZones == {1, 2}
MCOneZone == {1}
MCSource == {[node |-> 72, arg0 |-> 1]}
MCSources == {[node |-> 72, arg0 |-> 1], [node |-> 80, arg0 |-> 1]}
================================================================================
