---------------------------- MODULE NodeContract ----------------------------
(***************************************************************************)
(* What node.hpp:59-86 promises a node from whoever runs it: "The order is  *)
(* fixed and the executor enforces it" (l.61), configure() "once, before    *)
(* start()", start() "once, after configure()", tick() "many times, after   *)
(* start()", stop() "once, after the last tick" (l.64-67).  Every callback  *)
(* is counted when it is made, so that one made a second time is a step of  *)
(* the node and not a stutter.                                              *)
(*                                                                          *)
(* While no configure() and no start() of any node has thrown, "once" is    *)
(* meant literally.  A node that throws makes the whole call fail and       *)
(* leaves the executor free to make it again, and node.hpp does not say     *)
(* what "once" is then: the contract grants one more configure() for every  *)
(* configure_all() that failed, and one more start() and the stop() that    *)
(* goes with it for every start_all() that failed.                          *)
(***************************************************************************)
EXTENDS Naturals

VARIABLES
  state,          (* what the node was last brought to                     *)
  configures,     (* calls of its configure(), start() and stop()          *)
  starts,
  stops,
  ticks,
  faults,         (* ticks that threw                                      *)
  bad_configures, (* of any node: configure() calls that threw             *)
  bad_starts,     (* of any node: start() calls that threw                 *)
  foreign         (* of any node: start() threw no std::exception          *)

node == <<state, configures, starts, stops, ticks, faults>>

Init ==
  /\ state = "new"
  /\ configures = 0 /\ starts = 0 /\ stops = 0
  /\ ticks = 0 /\ faults = 0

(* configure() returns, or throws and leaves the node as it was.           *)
Configure ==
  /\ state \in {"new", "configured"}
  /\ configures <= bad_configures
  /\ configures' = configures + 1
  /\ \/ state' = "configured" /\ bad_configures' = bad_configures
     \/ state' = state /\ bad_configures' = bad_configures + 1
  /\ UNCHANGED <<starts, stops, ticks, faults>>

(* start() of a node that runs is for after a foreign exception only.      *)
Start ==
  /\ state \in {"configured", "stopped"} \/ (foreign /\ state = "running")
  /\ starts <= bad_starts
  /\ starts' = starts + 1
  /\ \/ state' = "running" /\ bad_starts' = bad_starts
     \/ state' = state /\ bad_starts' = bad_starts + 1
  /\ UNCHANGED <<configures, stops, ticks, faults>>

Stop ==
  /\ state = "running"
  /\ stops <= bad_starts
  /\ stops' = stops + 1
  /\ state' = "stopped"
  /\ UNCHANGED <<configures, starts, ticks, faults>>

Tick ==
  /\ state = "running"
  /\ ticks' = ticks + 1
  /\ faults' \in {faults, faults + 1}
  /\ UNCHANGED <<state, configures, starts, stops>>

Next == Configure \/ Start \/ Stop \/ Tick

NodeSpec == Init /\ [][Next]_node
=============================================================================
