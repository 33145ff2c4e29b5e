------------------------------ MODULE Watchdog ------------------------------
(***************************************************************************)
(* The standing service, apps/scan_publisher_recorder_main.cpp: one sensor  *)
(* connection whose scans are recorded and published, a watchdog that       *)
(* replaces the connection when it stalls, and Ctrl+C.                      *)
(*                                                                          *)
(* A connection attempt, the constructor of SickScanSource, runs in a       *)
(* thread of its own and may never return.  SIGINT has one handler in the   *)
(* process, and the vendor library installs its own in every attempt.  The  *)
(* destructor of a source and record() return or throw.  What is printed is *)
(* left out, and so are the counters it is printed from, and publish(),     *)
(* which never throws and whose result is only counted.                     *)
(***************************************************************************)
EXTENDS Naturals

CONSTANTS
  StallTimeoutCount,    (* kStallTimeoutCount, 15                           *)
  StartupTimeoutCount,  (* kStartupTimeoutCount, 30                         *)
  MaxInterrupts         (* bound: times the user presses Ctrl+C             *)

ASSUME WatchdogAssumption ==
  /\ StallTimeoutCount \in Nat \ {0}
  /\ StartupTimeoutCount \in Nat \ {0}
  /\ StallTimeoutCount <= StartupTimeoutCount
  /\ MaxInterrupts \in Nat

VARIABLES
  main,         (* the main thread's next step                              *)
  in_loop,      (* has main entered its polling loop?                       *)
  source,       (* does the optional hold a connection?                     *)
  attempt,      (* the thread connect_with_stop_check started               *)
  dead,         (* no data will come over the connection any more           *)
  handler,      (* whose SIGINT handler is installed                        *)
  stop,         (* g_stop_requested                                         *)
  ever_received,
  timeouts,     (* consecutive_timeouts                                     *)
  interrupts    (* times Ctrl+C was pressed                                 *)

watch == <<ever_received, timeouts>>
vars  == <<main, in_loop, source, attempt, dead, handler, stop, watch, interrupts>>

TypeOK ==
  /\ main \in {"open", "assert", "await", "check", "own", "loop", "poll", "record",
               "reset", "retry", "backoff", "leave", "exited"}
  /\ in_loop \in BOOLEAN
  /\ source \in BOOLEAN
  /\ attempt \in {"none", "begun", "trying", "ready", "failed"}
  /\ dead \in BOOLEAN
  /\ handler \in {"default", "ours", "vendor"}
  /\ stop \in BOOLEAN
  /\ ever_received \in BOOLEAN
  /\ timeouts \in 0..StartupTimeoutCount
  /\ interrupts \in 0..MaxInterrupts

Init ==
  /\ main = "open"
  /\ in_loop = FALSE
  /\ source = FALSE
  /\ attempt = "none"
  /\ dead = FALSE
  /\ handler = "default"
  /\ stop = FALSE
  /\ ever_received = FALSE
  /\ timeouts = 0
  /\ interrupts = 0

Goto(from, to) == main = from /\ main' = to

(* The end of the process, of which nothing stays.                         *)
Exits ==
  /\ main' = "exited"
  /\ in_loop' = FALSE
  /\ source' = FALSE
  /\ attempt' = "none"
  /\ dead' = FALSE
  /\ handler' = "default"
  /\ stop' = FALSE
  /\ ever_received' = FALSE
  /\ timeouts' = 0

-----------------------------------------------------------------------------
(* connect_with_stop_check(), at startup and in every reconnect.            *)

(* std::async starts the attempt.                                          *)
Launch(from) == Goto(from, "assert") /\ attempt' = "begun"

(* The recorder's files and the publisher's port are opened first.         *)
OpenOutputs ==
  /\ Launch("open")
  /\ UNCHANGED <<in_loop, source, dead, handler, stop, watch, interrupts>>

OpenFails ==
  /\ Goto("open", "leave")
  /\ UNCHANGED <<in_loop, source, attempt, dead, handler, stop, watch, interrupts>>

AssertHandler ==
  /\ Goto("assert", "await")
  /\ handler' = "ours"
  /\ UNCHANGED <<in_loop, source, attempt, dead, stop, watch, interrupts>>

(* wait_for() times out after 500 ms.                                      *)
StillTrying ==
  /\ Goto("await", "check")
  /\ attempt \in {"begun", "trying"}
  /\ UNCHANGED <<in_loop, source, attempt, dead, handler, stop, watch, interrupts>>

(* The future is ready and its source moves into the optional.              *)
Connected ==
  /\ Goto("await", "own")
  /\ attempt = "ready"
  /\ attempt' = "none"
  /\ source' = TRUE
  /\ UNCHANGED <<in_loop, dead, handler, stop, watch, interrupts>>

(* fut.get() throws what the constructor threw: the end of a first attempt, *)
(* another try after a while for a reconnect.                               *)
ConnectFails ==
  /\ main = "await"
  /\ attempt = "failed"
  /\ attempt' = "none"
  /\ main' = IF in_loop THEN "backoff" ELSE "leave"
  /\ UNCHANGED <<in_loop, source, dead, handler, stop, watch, interrupts>>

(* Mutant of StopCheck: the flag is not looked at while an attempt lasts.   *)
StopCheckSkipped ==
  /\ Goto("check", "assert")
  /\ UNCHANGED <<in_loop, source, attempt, dead, handler, stop, watch, interrupts>>

(* The flag is looked at; if it is up, _Exit ends the process, whatever the *)
(* attempt is doing.                                                        *)
StopCheck ==
  /\ main = "check"
  /\ IF stop
     THEN Exits
     ELSE /\ main' = "assert"
          /\ UNCHANGED <<in_loop, source, attempt, dead, handler, stop, watch>>
  /\ UNCHANGED interrupts

(* std::signal after the connection is there, then the polling loop.        *)
OwnHandler ==
  /\ Goto("own", "loop")
  /\ handler' = "ours"
  /\ in_loop' = TRUE
  /\ timeouts' = 0
  /\ UNCHANGED <<source, attempt, dead, stop, ever_received, interrupts>>

-----------------------------------------------------------------------------
(* The polling loop.                                                       *)

LoopCheck ==
  /\ main = "loop"
  /\ main' = IF stop THEN "leave" ELSE "poll"
  /\ UNCHANGED <<in_loop, source, attempt, dead, handler, stop, watch, interrupts>>

(* A scan within 1000 ms ...                                               *)
PollScan ==
  /\ Goto("poll", "record")
  /\ ~dead
  /\ ever_received' = TRUE
  /\ timeouts' = 0
  /\ UNCHANGED <<in_loop, source, attempt, dead, handler, stop, interrupts>>

Threshold == IF ever_received THEN StallTimeoutCount ELSE StartupTimeoutCount

(* Mutant of PollTimesOut: the watchdog as it first was, which waited for   *)
(* data to have flowed.                                                     *)
PollTimesOutPatient ==
  /\ main = "poll"
  /\ timeouts' = IF timeouts < Threshold THEN timeouts + 1 ELSE timeouts
  /\ main' = IF ever_received /\ timeouts' >= Threshold THEN "reset" ELSE "loop"
  /\ UNCHANGED <<in_loop, source, attempt, dead, handler, stop, ever_received, interrupts>>

(* ... or none, which the watchdog counts.                                 *)
PollTimesOut ==
  /\ main = "poll"
  /\ timeouts' = timeouts + 1
  /\ main' = IF timeouts + 1 >= Threshold THEN "reset" ELSE "loop"
  /\ UNCHANGED <<in_loop, source, attempt, dead, handler, stop, ever_received, interrupts>>

(* record() and publish() return, or record() throws.                      *)
RecordAndPublish ==
  /\ \/ Goto("record", "loop")
     \/ Goto("record", "leave")
  /\ UNCHANGED <<in_loop, source, attempt, dead, handler, stop, watch, interrupts>>

(* Mutant of ResetSource: the old connection is kept until the new one is   *)
(* assigned over it.                                                        *)
ResetSourceSkipped ==
  /\ Goto("reset", "retry")
  /\ UNCHANGED <<in_loop, source, attempt, dead, handler, stop, watch, interrupts>>

(* The watchdog destroys the connection first.                             *)
ResetSource ==
  /\ Goto("reset", "retry")
  /\ source' = FALSE
  /\ dead' = FALSE
  /\ UNCHANGED <<in_loop, attempt, handler, stop, watch, interrupts>>

(* Another attempt, unless it is time to stop.                             *)
Retry ==
  /\ ~stop
  /\ Launch("retry")
  /\ UNCHANGED <<in_loop, source, dead, handler, stop, watch, interrupts>>

RetryStops ==
  /\ stop
  /\ Goto("retry", "loop")
  /\ UNCHANGED <<in_loop, source, attempt, dead, handler, stop, watch, interrupts>>

(* sleep_with_stop_check(): 5 s have passed, or the flag is up.             *)
BackoffOver ==
  /\ Goto("backoff", "retry")
  /\ UNCHANGED <<in_loop, source, attempt, dead, handler, stop, watch, interrupts>>

(* The end of main's try block destroys source, publisher and recorder.     *)
Leave ==
  /\ main = "leave"
  /\ Exits
  /\ UNCHANGED interrupts

MainStep ==
  \/ OpenOutputs
  \/ OpenFails
  \/ AssertHandler
  \/ StillTrying
  \/ Connected
  \/ ConnectFails
  \/ StopCheck
  \/ OwnHandler
  \/ LoopCheck
  \/ PollScan
  \/ PollTimesOut
  \/ RecordAndPublish
  \/ ResetSource
  \/ Retry
  \/ RetryStops
  \/ BackoffOver
  \/ Leave

-----------------------------------------------------------------------------
(* The attempt's thread, the link and the user.                            *)

(* SickScanApiCreate claims SIGINT.                                        *)
VendorClaims ==
  /\ attempt = "begun"
  /\ attempt' = "trying"
  /\ handler' = "vendor"
  /\ UNCHANGED <<main, in_loop, source, dead, stop, watch, interrupts>>

(* The constructor returns, with or without data to follow, or throws, in   *)
(* the first case also before it claims anything (an empty Config field).   *)
AttemptEnds ==
  /\ \/ attempt = "trying" /\ attempt' = "ready" /\ dead' \in BOOLEAN
     \/ attempt \in {"begun", "trying"} /\ attempt' = "failed" /\ UNCHANGED dead
  /\ UNCHANGED <<main, in_loop, source, handler, stop, watch, interrupts>>

(* The data path of a connection goes for good while its control path stays.*)
LinkDies ==
  /\ source
  /\ dead' = TRUE
  /\ UNCHANGED <<main, in_loop, source, attempt, handler, stop, watch, interrupts>>

(* SIGINT: our handler puts the flag up; the vendor's stops the sensor and  *)
(* nothing else; with none the process dies.                                *)
Signalled ==
  /\ main # "exited"
  /\ IF handler = "default"
     THEN Exits
     ELSE /\ stop' = (stop \/ handler = "ours")
          /\ dead' = (dead \/ (handler = "vendor" /\ source))
          /\ UNCHANGED <<main, in_loop, source, attempt, handler, watch>>

(* Ctrl+C.                                                                 *)
Interrupt ==
  /\ interrupts < MaxInterrupts
  /\ interrupts' = interrupts + 1
  /\ Signalled

Around ==
  \/ VendorClaims
  \/ AttemptEnds
  \/ LinkDies

Next ==
  \/ MainStep
  \/ Around
  \/ Interrupt

Spec == Init /\ [][Next]_vars

(* The main thread goes on: each of its waits has a timeout.  The attempt   *)
(* may hang for ever, and nothing makes the link recover.                   *)
FairSpec == Spec /\ WF_vars(MainStep)

-----------------------------------------------------------------------------
(* What the service promises.                                              *)

(* "One connection, one owner" (l.10-11): no attempt is made on top of a    *)
(* connection that is there (l.270-274), and main never polls without one,  *)
(* with the watchdog past its threshold, or with Ctrl+C in other hands.     *)
ConnectionIsOwned ==
  /\ attempt # "none" => ~source
  /\ main = "poll" =>
       /\ source
       /\ attempt = "none"
       /\ handler = "ours"
       /\ timeouts < Threshold

(* A stop that was requested ends the process, also when the sensor never   *)
(* answers and the attempt hangs (l.53-66).                                 *)
StopIsHonoured == stop ~> (main = "exited")

(* A connection over which no data comes is given up, whether any ever came *)
(* or not: "Both thresholds fire eventually rather than hanging forever"    *)
(* (l.47-48).                                                               *)
DeadLinkIsLeft == (source /\ dead) ~> ~source
=============================================================================
