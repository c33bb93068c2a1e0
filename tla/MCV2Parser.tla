------------------------------- MODULE MCV2Parser -------------------------------
(* V2Parser for TLC: every sequence of the header, the trailer and a third    *)
(* byte.  15 of them are valid frames, 14 with a header among their data.     *)
EXTENDS V2Parser

MCBytes == {0, 85, 170}
================================================================================
