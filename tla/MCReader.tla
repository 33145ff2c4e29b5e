------------------------------ MODULE MCReader ------------------------------
(* Three scans whose stamps are not in recording order, a window that holds *)
(* two of them, and room for one torn record.                               *)
EXTENDS ScanReader

MCSize  == <<1, 1, 1>>
MCStamp == <<2, 1, 3>>
=============================================================================
