------------------------------ MODULE MCV2Entities ------------------------------
(* V2Entities for TLC: two controllers on the bus, one zone, as in            *)
(* MCV2Driver.                                                                *)
EXTENDS V2Entities

MCOneZone == {1}
MCSources == {[node |-> 72, arg0 |-> 1], [node |-> 80, arg0 |-> 1]}
================================================================================
