------------------------------- MODULE MCV1Driver -------------------------------
(* V1Driver for TLC: two zones, one of them the spill zone of some runs, and  *)
(* times of one to three ticks in the order of the code's defaults (frame     *)
(* timeout = idle guard <= response timeout < transaction gap <= the rest).   *)
EXTENDS V1Driver

MCZones == {1, 2}
MCOneZone == {1}
MCAskedZones == {0, 7} \cup Zones
================================================================================
