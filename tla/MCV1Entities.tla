------------------------------ MODULE MCV1Entities ------------------------------
(* V1Entities for TLC: one zone, and requests for it and for no zone at all.  *)
EXTENDS V1Entities

MCOneZone == {1}
MCAskedZones == {0, 7} \cup Zones
================================================================================
