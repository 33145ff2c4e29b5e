------------------------------ MODULE Service ------------------------------
(***************************************************************************)
(* scripts/start_lidar_service.sh: one shell that runs the recording        *)
(* service of Watchdog and the query server, each under a supervisor of its *)
(* own that starts it again when it exits, until Ctrl+C.                    *)
(*                                                                          *)
(* Ctrl+C reaches every process of the terminal's group at once: the shell, *)
(* the supervisors and the programs.  A shell runs a trap between two       *)
(* commands; wait returns for it, and the sleep of a terminal is killed by  *)
(* the same Ctrl+C.  A process forked with & ignores SIGINT until its own   *)
(* "trap - INT".  The backoff's length and the pid files, which nothing     *)
(* reads, are left out, and so is SIGTERM.                                  *)
(***************************************************************************)
EXTENDS Watchdog

Programs == {"publisher", "query server"}

VARIABLES
  script,       (* the script's next step                                   *)
  current,      (* the program whose supervisor it starts                   *)
  noted,        (* programs whose *_SUPERVISOR_PID is set                   *)
  trapped,      (* the script's trap is due                                 *)
  deaf,         (* cleanup() has made the script ignore SIGINT              *)
  resume,       (* the step cleanup() interrupted                           *)
  sup,          (* each supervisor's next step                              *)
  known,        (* its child_pid is its present child's                     *)
  stopping,     (* and its stopping, after which it ignores SIGINT          *)
  due,          (* its trap is due                                          *)
  forked,       (* children between fork and exec                           *)
  server,       (* is the query server running?                             *)
  heard         (* history: Ctrl+C was pressed with everything settled      *)

shell      == <<script, current, noted, trapped, deaf, resume>>
supervisor == <<sup, known, stopping, due>>
child      == <<main, in_loop, source, attempt, dead, handler, stop, watch>>
service    == <<vars, shell, supervisor, forked, server, heard>>

Up(p)    == IF p = "publisher" THEN main # "exited" ELSE server
Alive(p) == p \in forked \/ Up(p)

ServiceInit ==
  /\ main = "exited" /\ in_loop = FALSE /\ source = FALSE /\ attempt = "none"
  /\ dead = FALSE /\ handler = "default" /\ stop = FALSE
  /\ ever_received = FALSE /\ timeouts = 0 /\ interrupts = 0
  /\ script = "fork" /\ current = "publisher" /\ noted = {}
  /\ trapped = FALSE /\ deaf = FALSE /\ resume = "fork"
  /\ sup = [p \in Programs |-> "none"]
  /\ known = [p \in Programs |-> FALSE]
  /\ stopping = [p \in Programs |-> FALSE]
  /\ due = [p \in Programs |-> FALSE]
  /\ forked = {} /\ server = FALSE /\ heard = FALSE

-----------------------------------------------------------------------------
(* Signals.                                                                *)

(* Before its traps are set a supervisor ignores SIGINT, or dies of it      *)
(* between "trap - INT" and the trap.                                       *)
Traps(p) == sup[p] \in {"loop", "note", "wait", "sleep", "final"} /\ ~stopping[p]

SignalSupervisors(P) ==
  /\ due' = [p \in Programs |-> due[p] \/ (p \in P /\ Traps(p))]
  /\ sup' = [p \in Programs |-> IF p \in P /\ sup[p] = "bare" THEN "exited" ELSE sup[p]]

(* The query server has no handler; the publisher's is its own matter.      *)
SignalChildren(P) ==
  /\ IF "publisher" \in P /\ "publisher" \notin forked /\ main # "exited"
     THEN Signalled ELSE UNCHANGED child
  /\ server' = (server /\ "query server" \notin P)

(* What Ctrl+C finds when no program is being started: the supervisor's     *)
(* trap is set, and the publisher's SIGINT is not the vendor's.             *)
Settled(p) ==
  /\ Traps(p) /\ p \notin forked
  /\ p = "publisher" => main = "exited" \/ handler # "vendor"

PressCtrlC ==
  /\ script # "exited"
  /\ interrupts < MaxInterrupts
  /\ interrupts' = interrupts + 1
  /\ trapped' = (trapped \/ ~deaf)
  /\ heard' = (heard \/ (script = "wait" /\ \A p \in Programs : Settled(p)))
  /\ SignalSupervisors(Programs)
  /\ SignalChildren(Programs)
  /\ UNCHANGED <<script, current, noted, deaf, resume, known, stopping, forked>>

-----------------------------------------------------------------------------
(* The script.                                                             *)

ScriptGoto(from, to) == ~trapped /\ script = from /\ script' = to

ForkSupervisor ==
  /\ ScriptGoto("fork", "note")
  /\ sup' = [sup EXCEPT ![current] = "begun"]
  /\ UNCHANGED <<vars, current, noted, trapped, deaf, resume, known, stopping, due, forked,
                 server, heard>>

NoteSupervisor ==
  /\ ScriptGoto("note", IF current = "publisher" THEN "sleep" ELSE "wait")
  /\ noted' = noted \cup {current}
  /\ UNCHANGED <<vars, current, trapped, deaf, resume, supervisor, forked, server, heard>>

(* sleep 2, then the other one.                                            *)
SleepTwo ==
  /\ ScriptGoto("sleep", "fork")
  /\ current' = "query server"
  /\ UNCHANGED <<vars, noted, trapped, deaf, resume, supervisor, forked, server, heard>>

WaitForBoth ==
  /\ ScriptGoto("wait", "exited")
  /\ \A p \in Programs : sup[p] = "exited"
  /\ UNCHANGED <<vars, current, noted, trapped, deaf, resume, supervisor, forked, server, heard>>

(* cleanup(): signal the supervisors that are known, and wait for them.     *)
Cleanup ==
  /\ trapped /\ script # "exited"
  /\ trapped' = FALSE /\ deaf' = TRUE
  /\ resume' = script /\ script' = "cleanup"
  /\ SignalSupervisors(noted)
  /\ UNCHANGED <<vars, current, noted, known, stopping, forked, server, heard>>

(* It does not exit: the script goes on, after the wait with nothing.       *)
CleanupOver ==
  /\ ScriptGoto("cleanup", IF resume = "wait" THEN "exited" ELSE resume)
  /\ \A p \in noted : sup[p] = "exited"
  /\ UNCHANGED <<vars, current, noted, trapped, deaf, resume, supervisor, forked, server, heard>>

ScriptStep ==
  ForkSupervisor \/ NoteSupervisor \/ SleepTwo \/ WaitForBoth \/ Cleanup \/ CleanupOver

-----------------------------------------------------------------------------
(* supervise().                                                            *)

SupGoto(p, from, to) ==
  /\ ~due[p]
  /\ sup[p] = from
  /\ sup' = [sup EXCEPT ![p] = to]

(* trap - INT                                                              *)
Unblock(p) ==
  /\ SupGoto(p, "begun", "bare")
  /\ UNCHANGED <<vars, shell, known, stopping, due, forked, server, heard>>

SetTrap(p) ==
  /\ SupGoto(p, "bare", "loop")
  /\ UNCHANGED <<vars, shell, known, stopping, due, forked, server, heard>>

ForkChild(p) ==
  /\ ~stopping[p]
  /\ SupGoto(p, "loop", "note")
  /\ forked' = forked \cup {p}
  /\ known' = [known EXCEPT ![p] = FALSE]
  /\ UNCHANGED <<vars, shell, stopping, due, server, heard>>

LoopEnds(p) ==
  /\ stopping[p]
  /\ SupGoto(p, "loop", "final")
  /\ UNCHANGED <<vars, shell, known, stopping, due, forked, server, heard>>

(* child_pid=$!                                                            *)
NoteChild(p) ==
  /\ SupGoto(p, "note", "wait")
  /\ known' = [known EXCEPT ![p] = TRUE]
  /\ UNCHANGED <<vars, shell, stopping, due, forked, server, heard>>

(* Mutant of WaitReturns: a program that exits ends its supervisor.        *)
WaitReturnsForGood(p) ==
  /\ ~Alive(p)
  /\ SupGoto(p, "wait", "final")
  /\ UNCHANGED <<vars, shell, known, stopping, due, forked, server, heard>>

(* The child has exited, and the supervisor sleeps unless it is to stop.   *)
WaitReturns(p) ==
  /\ ~Alive(p)
  /\ SupGoto(p, "wait", IF stopping[p] THEN "final" ELSE "sleep")
  /\ UNCHANGED <<vars, shell, known, stopping, due, forked, server, heard>>

SleepOver(p) ==
  /\ SupGoto(p, "sleep", IF stopping[p] THEN "final" ELSE "loop")
  /\ UNCHANGED <<vars, shell, known, stopping, due, forked, server, heard>>

(* Mutant of FinalWait: the supervisor leaves its child behind.             *)
FinalWaitSkipped(p) ==
  /\ SupGoto(p, "final", "exited")
  /\ UNCHANGED <<vars, shell, known, stopping, due, forked, server, heard>>

FinalWait(p) ==
  /\ ~Alive(p)
  /\ SupGoto(p, "final", "exited")
  /\ UNCHANGED <<vars, shell, known, stopping, due, forked, server, heard>>

(* Mutant of RunTrap: the child is signalled, stopping stays 0.            *)
RunTrapGoesOn(p) ==
  /\ due[p]
  /\ due' = [due EXCEPT ![p] = FALSE]
  /\ sup' = [sup EXCEPT ![p] = IF @ = "wait" THEN "sleep" ELSE @]
  /\ SignalChildren(IF known[p] THEN {p} ELSE {})
  /\ UNCHANGED <<interrupts, shell, known, stopping, forked, heard>>

(* The trap: stop, signal the child if its pid is known, be deaf from now   *)
(* on.  A child that has not come to its exec does not hear the signal.     *)
RunTrap(p) ==
  /\ due[p]
  /\ due' = [due EXCEPT ![p] = FALSE]
  /\ stopping' = [stopping EXCEPT ![p] = TRUE]
  /\ sup' = [sup EXCEPT ![p] = IF @ = "wait" THEN "final" ELSE @]
  /\ SignalChildren(IF known[p] THEN {p} ELSE {})
  /\ UNCHANGED <<interrupts, shell, known, forked, heard>>

SupervisorStep(p) ==
  \/ Unblock(p) \/ SetTrap(p)
  \/ ForkChild(p) \/ LoopEnds(p) \/ NoteChild(p) \/ WaitReturns(p)
  \/ SleepOver(p) \/ FinalWait(p)
  \/ RunTrap(p)

-----------------------------------------------------------------------------
(* The programs.                                                           *)

(* trap - INT and exec: a program of which nothing has happened yet.        *)
Exec(p) ==
  /\ p \in forked
  /\ forked' = forked \ {p}
  /\ IF p = "publisher"
     THEN main' = "open" /\ UNCHANGED <<in_loop, source, attempt, dead, handler, stop, watch, server>>
     ELSE server' = TRUE /\ UNCHANGED child
  /\ UNCHANGED <<interrupts, shell, supervisor, heard>>

(* It dies, or leaves main() with an exception.                            *)
Die(p) ==
  /\ Up(p)
  /\ IF p = "publisher"
     THEN Exits /\ UNCHANGED server
     ELSE server' = FALSE /\ UNCHANGED child
  /\ UNCHANGED <<interrupts, shell, supervisor, forked, heard>>

(* The publisher at work, as in Watchdog.                                  *)
PublisherStep == MainStep /\ UNCHANGED <<shell, supervisor, forked, server, heard>>
PublisherLink == Around /\ UNCHANGED <<shell, supervisor, forked, server, heard>>

ServiceNext ==
  \/ PressCtrlC
  \/ ScriptStep
  \/ \E p \in Programs : SupervisorStep(p) \/ Exec(p) \/ Die(p)
  \/ PublisherStep
  \/ PublisherLink

ServiceSpec == ServiceInit /\ [][ServiceNext]_service

(* Every process that can run is run.  What the sensor does, and that a     *)
(* program dies, nobody has to wait for.                                    *)
ServiceFairSpec ==
  /\ ServiceSpec
  /\ WF_service(ScriptStep)
  /\ \A p \in Programs : WF_service(SupervisorStep(p)) /\ WF_service(Exec(p))
  /\ WF_service(PublisherStep)

-----------------------------------------------------------------------------
(* What the script promises.                                               *)

(* "stops BOTH of them cleanly instead of leaving one orphaned" (l.10): a   *)
(* program is not started while a copy of it runs, which would still hold   *)
(* the ports, and when the script has ended nothing of it is left.          *)
NoStray ==
  /\ \A p \in forked : ~Up(p)
  /\ script = "exited" => \A p \in Programs : ~Alive(p) /\ sup[p] = "exited"

(* "If either one exits [...] its supervisor restarts it automatically"     *)
(* (l.17-20), whatever the other one and the script do.                     *)
ComesBack ==
  \A p \in Programs :
    (sup[p] = "wait" /\ ~Alive(p) /\ ~stopping[p]) ~> (Up(p) \/ stopping[p])

(* Ctrl+C ends it all if no program is just being started or connecting:    *)
(* neither a supervisor that sleeps nor one that waits misses it.           *)
SettledCtrlCStops == heard ~> script = "exited"

(* "Stop everything with Ctrl+C (once)" (l.40): when cleanup() has said     *)
(* "stopped." nothing is left and nothing is started any more.              *)
StoppedIsStopped ==
  deaf /\ script # "cleanup" => \A p \in Programs : ~Alive(p) /\ sup[p] \in {"none", "exited"}
=============================================================================
