-------------------------------- MODULE MCV1Link --------------------------------
(* V1Link for TLC: a controller of two zones, and of the bytes on its bus the *)
(* header (which is the mask of zone 4 as well), C0, 30, both states of zone  *)
(* 1, zone 2 off, and the checksums of the two statuses they make.            *)
EXTENDS V1Link

MCBytes == {8, 192, 48, 0, 128, 1, 9, 137}
================================================================================
