------------------------------ MODULE MCBearer ------------------------------
(* Frames of no, one and two bytes and of one too many; one and two bytes   *)
(* both end within a tick.  A frame crosses while the next one is sent.     *)
EXTENDS LoopbackBearer
=============================================================================
