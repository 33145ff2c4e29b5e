------------------------------ MODULE MCSource ------------------------------
(* Two connections, at once or one after the other on the handle of the     *)
(* first, and two driver threads.  The first sensor's clouds are a          *)
(* revolution apart; the clock of the second jumps by more than one.        *)
EXTENDS SensorSource, TLC

MCStamp == <<(<<3, 4>>), (<<3, 20>>)>>
=============================================================================
