--------------------------- MODULE ServiceProofs ---------------------------
(***************************************************************************)
(* Of Watchdog: its types, and that main polls only over a connection of    *)
(* its own, for any thresholds and any number of Ctrl+C.  Of Service: no    *)
(* program is started twice and none outlives the script, at whatever       *)
(* moment the programs die; and the connection is owned under the           *)
(* supervisors as it is when the recording service runs alone.              *)
(***************************************************************************)
EXTENDS Service, TLAPS

-----------------------------------------------------------------------------
(* The recording service by itself.                                        *)


Connecting == main \in {"assert", "await", "check"}

(* main is in its polling loop, with a connection.                          *)
Polling == main \in {"poll", "record"} \/ (main = "loop" /\ source)

(* An attempt exists only while connect_with_stop_check runs, a connection  *)
(* only outside it, the loop is entered without one only to be left, and    *)
(* until the first attempt Ctrl+C has no handler.                           *)
Placed ==
  /\ attempt # "none" => Connecting
  /\ source => main \in {"own", "loop", "poll", "record", "reset", "leave"}
  /\ main \in {"own", "poll", "record"} => source
  /\ main = "loop" => source \/ stop
  /\ handler = "default" => ~source /\ main \in {"open", "assert", "leave", "exited"}

IInv ==
  /\ TypeOK
  /\ Placed
  /\ Polling => handler = "ours" /\ timeouts < Threshold

LEMMA Zeroes ==
  /\ 0 \in 0..StartupTimeoutCount
  /\ 0 \in 0..MaxInterrupts
  /\ 0 < StallTimeoutCount
  /\ 0 < StartupTimeoutCount
  BY WatchdogAssumption DEF WatchdogAssumption

LEMMA InvariantInitially == Init => IInv
  BY Zeroes, Zenon DEF Init, IInv, TypeOK, Placed, Connecting, Polling

(* The end of the process leaves nothing that could be wrong.              *)
LEMMA ExitKeeps ==
  ASSUME Exits, interrupts' \in 0..MaxInterrupts
  PROVE  IInv'
  BY Zeroes DEF Exits, IInv, TypeOK, Placed, Connecting, Polling, Threshold

(* The handler is the program's own from std::signal after an attempt until *)
(* the next attempt is launched.                                           *)
LEMMA MainStepKeeps ==
  ASSUME IInv, MainStep
  PROVE  IInv'
<1> USE WatchdogAssumption DEF WatchdogAssumption
<1>1. CASE OpenOutputs
  BY <1>1 DEF IInv, TypeOK, Placed, Connecting, Polling, Threshold, watch,
     OpenOutputs, Launch, Goto
<1>2. CASE OpenFails
  BY <1>2 DEF IInv, TypeOK, Placed, Connecting, Polling, Threshold, watch,
     OpenFails, Goto
<1>3. CASE AssertHandler
  BY <1>3 DEF IInv, TypeOK, Placed, Connecting, Polling, Threshold, watch,
     AssertHandler, Goto
<1>4. CASE StillTrying
  BY <1>4 DEF IInv, TypeOK, Placed, Connecting, Polling, Threshold, watch,
     StillTrying, Goto
<1>5. CASE Connected
  BY <1>5 DEF IInv, TypeOK, Placed, Connecting, Polling, Threshold, watch,
     Connected, Goto
<1>6. CASE ConnectFails
  BY <1>6 DEF IInv, TypeOK, Placed, Connecting, Polling, Threshold, watch,
     ConnectFails
<1>7. CASE OwnHandler
  BY Zeroes, <1>7 DEF IInv, TypeOK, Placed, Connecting, Polling, Threshold, watch,
     OwnHandler, Goto
<1>8. CASE LoopCheck
  BY <1>8 DEF IInv, TypeOK, Placed, Connecting, Polling, Threshold, watch,
     LoopCheck
<1>9. CASE PollScan
  BY Zeroes, <1>9 DEF IInv, TypeOK, Placed, Connecting, Polling, Threshold, watch,
     PollScan, Goto
<1>10. CASE PollTimesOut
  BY <1>10 DEF IInv, TypeOK, Placed, Connecting, Polling, Threshold, watch,
     PollTimesOut
<1>11. CASE RecordAndPublish
  BY <1>11 DEF IInv, TypeOK, Placed, Connecting, Polling, Threshold, watch,
     RecordAndPublish, Goto
<1>12. CASE ResetSource
  BY <1>12 DEF IInv, TypeOK, Placed, Connecting, Polling, Threshold, watch,
     ResetSource, Goto
<1>13. CASE Retry
  BY <1>13 DEF IInv, TypeOK, Placed, Connecting, Polling, Threshold, watch,
     Retry, Launch, Goto
<1>14. CASE RetryStops
  BY <1>14 DEF IInv, TypeOK, Placed, Connecting, Polling, Threshold, watch,
     RetryStops, Goto
<1>15. CASE BackoffOver
  BY <1>15 DEF IInv, TypeOK, Placed, Connecting, Polling, Threshold, watch,
     BackoffOver, Goto
<1>16. CASE StopCheck
  <2>1. CASE stop
    <3>1. Exits /\ interrupts' \in 0..MaxInterrupts
      BY <1>16, <2>1 DEF IInv, TypeOK, StopCheck
    <3> QED
      BY <3>1, ExitKeeps
  <2>2. CASE ~stop
    BY <1>16, <2>2 DEF IInv, TypeOK, Placed, Connecting, Polling, Threshold, watch, StopCheck
  <2> QED
    BY <2>1, <2>2
<1>17. CASE Leave
  <2>1. Exits /\ interrupts' \in 0..MaxInterrupts
    BY <1>17 DEF IInv, TypeOK, Leave
  <2> QED
    BY <2>1, ExitKeeps
<1> QED
  BY <1>1, <1>2, <1>3, <1>4, <1>5, <1>6, <1>7, <1>8, <1>9,
     <1>10, <1>11, <1>12, <1>13, <1>14, <1>15, <1>16, <1>17
     DEF MainStep

(* Neither the attempt's thread nor the link touches what main relies on.   *)
LEMMA AroundKeeps ==
  ASSUME IInv, Around
  PROVE  IInv'
<1>1. CASE VendorClaims
  BY <1>1 DEF IInv, TypeOK, Placed, Connecting, Polling, Threshold, watch, VendorClaims
<1>2. CASE AttemptEnds
  BY <1>2 DEF IInv, TypeOK, Placed, Connecting, Polling, Threshold, watch, AttemptEnds
<1>3. CASE LinkDies
  BY <1>3 DEF IInv, TypeOK, Placed, Connecting, Polling, Threshold, watch, LinkDies
<1> QED
  BY <1>1, <1>2, <1>3 DEF Around

(* SIGINT ends the process or is noted.                                    *)
LEMMA SignalKeeps ==
  ASSUME IInv, Signalled, interrupts' \in 0..MaxInterrupts
  PROVE  IInv'
<1>1. CASE handler = "default"
  BY <1>1, ExitKeeps DEF Signalled
<1>2. CASE handler # "default"
  BY <1>2 DEF IInv, TypeOK, Placed, Connecting, Polling, Threshold, watch, Signalled
<1> QED
  BY <1>1, <1>2

THEOREM Inductive == Spec => []IInv
<1>1. ASSUME IInv, [Next]_vars PROVE IInv'
  <2>1. CASE MainStep
    BY <1>1, <2>1, MainStepKeeps
  <2>2. CASE Around
    BY <1>1, <2>2, AroundKeeps
  <2>3. CASE Interrupt
    <3>1. interrupts' \in 0..MaxInterrupts
      BY <1>1, <2>3, WatchdogAssumption DEF WatchdogAssumption, IInv, TypeOK, Interrupt
    <3> QED
      BY <1>1, <2>3, <3>1, SignalKeeps DEF Interrupt
  <2>4. CASE UNCHANGED vars
    BY <1>1, <2>4 DEF IInv, TypeOK, Placed, Connecting, Polling, Threshold, watch, vars
  <2> QED
    BY <1>1, <2>1, <2>2, <2>3, <2>4 DEF Next
<1> QED
  BY <1>1, InvariantInitially, PTL DEF Spec

(* The variables keep their types; the timeout counter never passes the     *)
(* longer threshold.                                                        *)
THEOREM WatchdogTypes == Spec => []TypeOK
  BY Inductive, PTL DEF IInv

(* No attempt on top of a connection, and no polling without a connection,  *)
(* past the threshold or with Ctrl+C in the vendor's hands.                 *)
THEOREM OneConnectionOneOwner == Spec => []ConnectionIsOwned
<1>1. IInv => ConnectionIsOwned
  BY DEF IInv, Placed, Connecting, Polling, ConnectionIsOwned
<1> QED
  BY <1>1, Inductive, PTL

-----------------------------------------------------------------------------
(* The supervised service.                                                 *)

Steps == {"fork", "note", "sleep", "wait", "cleanup", "exited"}

ServiceTypes ==
  /\ script \in Steps /\ resume \in Steps
  /\ current \in Programs
  /\ noted \subseteq Programs
  /\ trapped \in BOOLEAN /\ deaf \in BOOLEAN /\ heard \in BOOLEAN
  /\ sup \in [Programs -> {"none", "begun", "bare", "loop", "note", "wait", "sleep", "final",
                           "exited"}]
  /\ due \in [Programs -> BOOLEAN]
  /\ forked \subseteq Programs

(* Where a supervisor has no child.                                        *)
Childless == {"none", "begun", "bare", "loop", "sleep", "exited"}

OneCopy ==
  /\ \A p \in forked : ~Up(p)
  /\ \A p \in Programs : sup[p] \in Childless => ~Alive(p)

(* Where the script is, cleanup() or not.                                  *)
Place == IF script = "cleanup" THEN resume ELSE script

(* cleanup() runs once, a supervisor is started once, and the last wait is  *)
(* for both.                                                                *)
InOrder ==
  /\ deaf => ~trapped
  /\ script = "cleanup" => deaf /\ resume # "exited"
  /\ Place # "cleanup"
  /\ Place = "fork" => sup[current] = "none"
  /\ Place \in {"fork", "note", "sleep"} /\ current = "publisher" => sup["query server"] = "none"
  /\ Place = "sleep" => current = "publisher"
  /\ Place = "sleep" \/ (Place \in {"fork", "note"} /\ current = "query server")
       => "publisher" \in noted
  /\ Place = "wait" => noted = Programs
  /\ script = "exited" => \A p \in Programs : sup[p] = "exited"

SInv ==
  /\ ServiceTypes
  /\ OneCopy
  /\ InOrder

-----------------------------------------------------------------------------
(* What the publisher does.                                                *)

(* It cannot come back by itself: a step of its own is taken while it runs. *)
LEMMA OnlyTheLivingStep ==
  ASSUME MainStep
  PROVE  Up("publisher")
BY DEF MainStep, Up, OpenOutputs, OpenFails, AssertHandler, StillTrying, Connected, ConnectFails,
   StopCheck, OwnHandler, LoopCheck, PollScan, PollTimesOut, RecordAndPublish, ResetSource,
   Retry, RetryStops, BackoffOver, Leave, Launch, Goto

LEMMA AroundLeavesMain ==
  ASSUME Around
  PROVE  UNCHANGED main
BY DEF Around, VendorClaims, AttemptEnds, LinkDies

(* A signal brings no program up.                                          *)
LEMMA SignalsOnlyEnd ==
  ASSUME NEW P \in SUBSET Programs, SignalChildren(P), UNCHANGED forked
  PROVE  \A p \in Programs : /\ Up(p)' => Up(p)
                             /\ Alive(p)' => Alive(p)
BY DEF SignalChildren, Signalled, Exits, child, watch, Up, Alive, Programs

(* If no supervisor and no child is touched but that some child may end,    *)
(* there is still one copy of each.                                        *)
LEMMA EndingKeepsOneCopy ==
  ASSUME OneCopy, ServiceTypes, forked' \subseteq forked,
         \A p \in Programs : Up(p)' => Up(p),
         \A p \in Programs : sup'[p] \in Childless => sup[p] \in Childless \/ ~Alive(p)'
  PROVE  OneCopy'
BY DEF OneCopy, ServiceTypes, Alive

-----------------------------------------------------------------------------
(* The invariant, actor by actor.                                          *)

LEMMA ServiceInitially == ServiceInit => SInv
BY DEF ServiceInit, SInv, ServiceTypes, OneCopy, InOrder, Place, Steps, Programs, Up, Alive,
   Childless

LEMMA CtrlCKeeps ==
  ASSUME SInv, PressCtrlC
  PROVE  SInv'
<1> USE DEF SInv
<1>1. ServiceTypes'
  BY DEF ServiceTypes, PressCtrlC, SignalSupervisors, Programs, Traps, Settled
<1>2. \A p \in Programs : sup'[p] = sup[p] \/ (sup[p] = "bare" /\ sup'[p] = "exited")
  BY DEF ServiceTypes, PressCtrlC, SignalSupervisors
<1>3. OneCopy'
  BY <1>2, SignalsOnlyEnd, EndingKeepsOneCopy DEF PressCtrlC, Childless
<1>4. InOrder'
  BY <1>2 DEF InOrder, Place, PressCtrlC, Programs, ServiceTypes
<1> QED
  BY <1>1, <1>3, <1>4

LEMMA ScriptKeeps ==
  ASSUME SInv, ScriptStep
  PROVE  SInv'
<1> USE DEF SInv
<1>1. CASE ForkSupervisor
  <2>1. /\ script = "fork" /\ script' = "note"
        /\ sup[current] = "none"
    BY <1>1 DEF ForkSupervisor, ScriptGoto, InOrder, Place
  <2>2. ServiceTypes'
    BY <1>1, <2>1 DEF ServiceTypes, ForkSupervisor, Steps, supervisor
  <2>3. OneCopy'
    BY <1>1, <2>1 DEF OneCopy, ForkSupervisor, ServiceTypes, Childless, Up, Alive, vars
  <2>4. InOrder'
    BY <1>1, <2>1 DEF InOrder, Place, ForkSupervisor, ServiceTypes, Programs
  <2> QED
    BY <2>2, <2>3, <2>4
<1>2. CASE NoteSupervisor
  <2>1. ServiceTypes'
    BY <1>2 DEF ServiceTypes, NoteSupervisor, ScriptGoto, Steps, supervisor
  <2>2. OneCopy'
    BY <1>2 DEF OneCopy, NoteSupervisor, Up, Alive, vars, supervisor
  <2>3. InOrder'
    BY <1>2 DEF InOrder, Place, NoteSupervisor, ScriptGoto, ServiceTypes, Programs, supervisor
  <2> QED
    BY <2>1, <2>2, <2>3
<1>3. CASE SleepTwo
  <2>1. ServiceTypes'
    BY <1>3 DEF ServiceTypes, SleepTwo, ScriptGoto, Steps, Programs, supervisor
  <2>2. OneCopy'
    BY <1>3 DEF OneCopy, SleepTwo, Up, Alive, vars, supervisor
  <2>3. InOrder'
    BY <1>3 DEF InOrder, Place, SleepTwo, ScriptGoto, ServiceTypes, Programs, supervisor
  <2> QED
    BY <2>1, <2>2, <2>3
<1>4. CASE WaitForBoth
  <2>1. ServiceTypes'
    BY <1>4 DEF ServiceTypes, WaitForBoth, ScriptGoto, Steps, supervisor
  <2>2. OneCopy'
    BY <1>4 DEF OneCopy, WaitForBoth, Up, Alive, vars, supervisor
  <2>3. InOrder'
    BY <1>4 DEF InOrder, Place, WaitForBoth, ScriptGoto, ServiceTypes, Programs, supervisor
  <2> QED
    BY <2>1, <2>2, <2>3
<1>5. CASE Cleanup
  <2>1. ServiceTypes'
    BY <1>5 DEF ServiceTypes, Cleanup, SignalSupervisors, Steps, Traps
  <2>2. \A p \in Programs : sup'[p] = sup[p] \/ (sup[p] = "bare" /\ sup'[p] = "exited")
    BY <1>5 DEF ServiceTypes, Cleanup, SignalSupervisors
  <2>3. OneCopy'
    BY <1>5, <2>2 DEF OneCopy, Cleanup, Up, Alive, vars, ServiceTypes, Childless
  <2>4. InOrder'
    BY <1>5, <2>2 DEF InOrder, Place, Cleanup, Programs, ServiceTypes
  <2> QED
    BY <2>1, <2>3, <2>4
<1>6. CASE CleanupOver
  <2>1. ServiceTypes'
    BY <1>6 DEF ServiceTypes, CleanupOver, ScriptGoto, Steps, supervisor
  <2>2. OneCopy'
    BY <1>6 DEF OneCopy, CleanupOver, Up, Alive, vars, supervisor
  <2>3. InOrder'
    BY <1>6 DEF InOrder, Place, CleanupOver, ScriptGoto, ServiceTypes, Programs, supervisor
  <2> QED
    BY <2>1, <2>2, <2>3
<1> QED
  BY <1>1, <1>2, <1>3, <1>4, <1>5, <1>6 DEF ScriptStep

(* A supervisor goes from one step to another, and only when its child has  *)
(* ended to one where it has none.                                         *)
LEMMA SupervisorMoves ==
  ASSUME SInv, NEW p \in Programs,
         NEW from, NEW to \in {"bare", "loop", "wait", "sleep", "final", "exited"},
         SupGoto(p, from, to), from # "none", from # "exited",
         to \in Childless => from \in Childless \/ ~Alive(p),
         UNCHANGED <<vars, shell, due, forked, server, heard>>
  PROVE  SInv'
<1> USE DEF SInv
<1>1. /\ sup[p] = from
      /\ sup' = [sup EXCEPT ![p] = to]
  BY DEF SupGoto
<1>2. ServiceTypes'
  BY <1>1 DEF ServiceTypes, shell
<1>3. OneCopy'
  BY <1>1 DEF OneCopy, ServiceTypes, Up, Alive, vars
<1>4. InOrder'
  BY <1>1 DEF InOrder, ServiceTypes, Place, shell, Programs
<1> QED
  BY <1>2, <1>3, <1>4

LEMMA SupervisorKeeps ==
  ASSUME SInv, NEW p \in Programs, SupervisorStep(p)
  PROVE  SInv'
<1> USE DEF SInv
<1>1. CASE Unblock(p)
  BY <1>1, SupervisorMoves DEF Unblock, Childless, SupGoto
<1>2. CASE SetTrap(p)
  BY <1>2, SupervisorMoves DEF SetTrap, Childless, SupGoto
<1>3. CASE ForkChild(p)
  <2>1. /\ sup[p] = "loop" /\ sup' = [sup EXCEPT ![p] = "note"]
        /\ ~Alive(p)
    BY <1>3 DEF ForkChild, SupGoto, OneCopy, Childless
  <2>2. ServiceTypes'
    BY <1>3, <2>1 DEF ForkChild, ServiceTypes, shell
  <2>3. OneCopy'
    BY <1>3, <2>1 DEF ForkChild, OneCopy, ServiceTypes, Childless, Up, Alive, vars
  <2>4. InOrder'
    BY <1>3, <2>1 DEF ForkChild, InOrder, ServiceTypes, Place, shell, Programs
  <2> QED
    BY <2>2, <2>3, <2>4
<1>4. CASE LoopEnds(p)
  BY <1>4, SupervisorMoves DEF LoopEnds, Childless, SupGoto
<1>5. CASE NoteChild(p)
  BY <1>5, SupervisorMoves DEF NoteChild, Childless, SupGoto
<1>6. CASE WaitReturns(p)
  BY <1>6, SupervisorMoves DEF WaitReturns, Childless, SupGoto
<1>7. CASE SleepOver(p)
  BY <1>7, SupervisorMoves DEF SleepOver, Childless, SupGoto
<1>8. CASE FinalWait(p)
  BY <1>8, SupervisorMoves DEF FinalWait, Childless, SupGoto
<1>9. CASE RunTrap(p)
  <2>1. \A q \in Programs : sup'[q] = sup[q] \/ (sup[q] = "wait" /\ sup'[q] = "final")
    BY <1>9 DEF RunTrap, ServiceTypes
  <2>2. ServiceTypes'
    BY <1>9, <2>1 DEF RunTrap, ServiceTypes, shell
  <2>3. SignalChildren(IF known[p] THEN {p} ELSE {}) /\ UNCHANGED forked
    BY <1>9 DEF RunTrap
  <2>4. \A q \in Programs : Up(q)' => Up(q)
    BY <2>3, SignalsOnlyEnd
  <2>5. OneCopy'
    BY <2>1, <2>3, <2>4, EndingKeepsOneCopy DEF Childless
  <2>6. InOrder'
    BY <1>9, <2>1 DEF RunTrap, InOrder, ServiceTypes, Place, shell, Programs
  <2> QED
    BY <2>2, <2>5, <2>6
<1> QED
  BY <1>1, <1>2, <1>3, <1>4, <1>5, <1>6, <1>7, <1>8, <1>9 DEF SupervisorStep

LEMMA ProgramsKeep ==
  ASSUME SInv, \/ \E p \in Programs : Exec(p) \/ Die(p)
               \/ PublisherStep
               \/ PublisherLink
  PROVE  SInv'
<1> USE DEF SInv
<1>1. UNCHANGED <<shell, supervisor, heard>> /\ forked' \subseteq forked
  BY DEF Exec, Die, PublisherStep, PublisherLink
<1>2. ServiceTypes' /\ InOrder'
  BY <1>1 DEF ServiceTypes, InOrder, Place, shell, supervisor
<1>3. ASSUME NEW p \in Programs, Exec(p) PROVE OneCopy'
  BY <1>3 DEF Exec, OneCopy, ServiceTypes, supervisor, child, Up, Alive, Programs
<1>4. ASSUME \A p \in Programs : Up(p)' => Up(p) PROVE OneCopy'
  BY <1>1, <1>4, EndingKeepsOneCopy DEF supervisor
<1>5. ASSUME NEW p \in Programs, Die(p) PROVE OneCopy'
  BY <1>4, <1>5 DEF Die, Exits, child, Up, Programs
<1>6. ASSUME PublisherStep PROVE OneCopy'
  BY <1>4, <1>6, OnlyTheLivingStep DEF PublisherStep, Up
<1>7. ASSUME PublisherLink PROVE OneCopy'
  BY <1>4, <1>7, AroundLeavesMain DEF PublisherLink, Up
<1> QED
  BY <1>2, <1>3, <1>5, <1>6, <1>7

(* The invariant is inductive: a supervisor is past its wait only if its    *)
(* child has ended, and the script past its own only if both supervisors    *)
(* have.                                                                   *)
THEOREM ServiceInductive == ServiceSpec => []SInv
<1>1. ASSUME SInv, [ServiceNext]_service PROVE SInv'
  <2>1. CASE ServiceNext
    BY <1>1, <2>1, CtrlCKeeps, ScriptKeeps, SupervisorKeeps, ProgramsKeep DEF ServiceNext
  <2>2. CASE UNCHANGED service
    BY <1>1, <2>2 DEF service, vars, shell, supervisor, SInv, ServiceTypes, OneCopy, InOrder,
       Place, Up, Alive
  <2> QED
    BY <1>1, <2>1, <2>2
<1> QED
  BY <1>1, ServiceInitially, PTL DEF ServiceSpec

(* A program is never started while a copy of it runs, and nothing is left  *)
(* when the script has ended.                                              *)
THEOREM NothingStrays == ServiceSpec => []NoStray
<1>1. SInv => NoStray
  BY DEF SInv, ServiceTypes, OneCopy, InOrder, NoStray, Childless
<1> QED
  BY <1>1, ServiceInductive, PTL

(* A connection is owned under the supervisors as it is when the recording  *)
(* service runs alone: what exec starts is a process of which nothing has   *)
(* happened, and the signals of the script and of its supervisor come to it *)
(* like those of the terminal.                                              *)
THEOREM OwnedUnderSupervisors == ServiceSpec => []ConnectionIsOwned
<1>1. ServiceInit => IInv
  BY Zeroes, Zenon DEF ServiceInit, IInv, TypeOK, Placed, Connecting, Polling
<1>2. ASSUME IInv, UNCHANGED child, interrupts' \in 0..MaxInterrupts PROVE IInv'
  BY <1>2 DEF IInv, TypeOK, Placed, Connecting, Polling, Threshold, child, watch
<1>3. ASSUME SInv, IInv, ServiceNext PROVE IInv'
  <2>1. ASSUME NEW P, SignalChildren(P), interrupts' \in 0..MaxInterrupts PROVE IInv'
    BY <1>2, <1>3, <2>1, SignalKeeps DEF SignalChildren
  <2>2. interrupts \in 0..MaxInterrupts
    BY <1>3 DEF IInv, TypeOK
  <2>3. ASSUME PressCtrlC PROVE IInv'
    <3>1. interrupts' \in 0..MaxInterrupts
      BY <2>2, <2>3, WatchdogAssumption DEF PressCtrlC, WatchdogAssumption
    <3> QED
      BY <2>1, <2>3, <3>1 DEF PressCtrlC
  <2>4. ASSUME UNCHANGED vars PROVE IInv'
    BY <1>2, <1>3, <2>2, <2>4 DEF vars, child, watch
  <2>5. ASSUME ScriptStep PROVE IInv'
    BY <2>4, <2>5 DEF ScriptStep, ForkSupervisor, NoteSupervisor, SleepTwo, WaitForBoth, Cleanup,
       CleanupOver
  <2>6. ASSUME NEW p \in Programs, SupervisorStep(p) PROVE IInv'
    <3>1. CASE RunTrap(p)
      BY <2>1, <2>2, <3>1 DEF RunTrap
    <3>2. CASE ~RunTrap(p)
      BY <2>4, <2>6, <3>2 DEF SupervisorStep, Unblock, SetTrap, ForkChild, LoopEnds, NoteChild,
         WaitReturns, SleepOver, FinalWait
    <3> QED
      BY <3>1, <3>2
  <2>7. ASSUME NEW p \in Programs, Exec(p) PROVE IInv'
    <3>1. CASE p = "publisher"
      <4>1. main = "exited" /\ main' = "open"
        BY <1>3, <2>7, <3>1 DEF Exec, SInv, OneCopy, Up
      <4> QED
        BY <1>3, <2>7, <3>1, <4>1 DEF Exec, IInv, TypeOK, Placed, Connecting, Polling, Threshold,
           watch
    <3>2. CASE p # "publisher"
      BY <1>2, <1>3, <2>2, <2>7, <3>2 DEF Exec
    <3> QED
      BY <3>1, <3>2
  <2>8. ASSUME NEW p \in Programs, Die(p) PROVE IInv'
    BY <1>2, <1>3, <2>2, <2>8, ExitKeeps DEF Die
  <2> QED
    BY <1>3, <2>3, <2>5, <2>6, <2>7, <2>8, MainStepKeeps, AroundKeeps
       DEF ServiceNext, PublisherStep, PublisherLink
<1>4. ASSUME IInv, UNCHANGED service PROVE IInv'
  <2>1. UNCHANGED child /\ interrupts' \in 0..MaxInterrupts
    BY <1>4 DEF service, vars, child, watch, IInv, TypeOK
  <2> QED
    BY <1>2, <1>4, <2>1
<1>5. IInv => ConnectionIsOwned
  BY DEF IInv, Placed, Connecting, Polling, ConnectionIsOwned
<1>6. SInv /\ IInv /\ [ServiceNext]_service => IInv'
  BY <1>3, <1>4
<1> QED
  BY <1>1, <1>5, <1>6, ServiceInductive, PTL DEF ServiceSpec
=============================================================================
