------------------------------- MODULE MCV2System -------------------------------
(* V2System for TLC: one controller, one zone, and few mishaps.               *)
EXTENDS V2System

MCOneZone == {1}
MCSource == {[node |-> 72, arg0 |-> 1]}
MCBudgets == [losses |-> 1, panel |-> 1, asks |-> 2, reboots |-> 1]
================================================================================
