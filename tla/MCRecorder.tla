----------------------------- MODULE MCRecorder -----------------------------
(* Three scans: two of one payload cell, so that the bytes of one can take  *)
(* the place of the other's, and one of two cells.  The disk has a cell     *)
(* less than three whole records and a torn one would need.                 *)
EXTENDS ScanRecorder

MCSize == <<1, 1, 2>>
=============================================================================
