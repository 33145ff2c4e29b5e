------------------------------ MODULE Executor ------------------------------
(***************************************************************************)
(* mw::Executor (src/executor.cpp): it configures, starts, ticks and stops  *)
(* the nodes it was given, in the order they were added, in one thread.     *)
(*                                                                          *)
(* Every call of the public interface is an action that begins it, one      *)
(* action for each callback into a node, any of which may throw, and one    *)
(* that returns.  A call made in the wrong phase throws before it changes   *)
(* anything and so is no step.  The time handed to step() is the caller's   *)
(* and may jump either way.  Times and periods are far from the ends of the *)
(* 64-bit range, and the measured durations (last_ns, max_ns, total_ns,     *)
(* overruns), which nothing in the executor reads, are left out.            *)
(***************************************************************************)
EXTENDS Integers

CONSTANTS
  MaxNodes,     (* bound: calls of add(); the i-th adds node i              *)
  Period,       (* spec().period_ns of each node; 0 is "every step"         *)
  Times,        (* the times step() is called with                          *)
  IntMin,       (* numeric_limits<int64_t>::min(), "due on the first step"  *)
  MaxSteps,     (* bound: calls of step()                                   *)
  MaxFailures,  (* bound: calls of configure() and start() that throw       *)
  Foreign       (* whether a node may throw something else than a           *)
                (* std::exception                                           *)

AllNodes == 1..MaxNodes

ASSUME ExecutorAssumption ==
  /\ MaxNodes \in Nat
  /\ Period \in [AllNodes -> Nat]
  /\ Times \subseteq Int
  /\ IntMin \in Int
  /\ \A t \in Times : IntMin <= t
  /\ MaxSteps \in Nat
  /\ MaxFailures \in Nat
  /\ Foreign \in BOOLEAN

VARIABLES
  phase,        (* Impl::phase                                             *)
  count,        (* nodes.size()                                            *)
  started,      (* Impl::started                                           *)
  next_due,     (* Impl::next_due                                          *)
  ticks,        (* reports[i].ticks                                        *)
  faults,       (* reports[i].faults                                       *)
  missed,       (* reports[i].missed                                       *)
  step_count,   (* Impl::step_count                                        *)
  call,         (* the call being executed, "none" or "gone" once destroyed*)
  cursor,       (* its loop index                                          *)
  now,          (* step()'s argument                                       *)
  state,        (* what each node was last asked to do                     *)
  first,        (* history: the time of each node's first tick             *)
  escaped,      (* history: the node whose foreign exception last left     *)
                (* start_all(), 0 when none did                            *)
  configures,   (* history: calls of configure() of each node, ...         *)
  starts,       (* ... of start() ...                                      *)
  stops,        (* ... and of stop()                                       *)
  bad_configures, (* history: those of configure() that threw ...          *)
  bad_starts    (* ... and those of start()                                *)

loop  == <<call, cursor>>
sched == <<next_due, ticks, faults, missed, first>>
asked == <<escaped, configures, starts, stops, bad_configures, bad_starts>>
vars  == <<phase, count, started, next_due, ticks, faults, missed, step_count,
           call, cursor, now, state, first, escaped, configures, starts, stops,
           bad_configures, bad_starts>>

Nodes    == 1..count
Periodic == {i \in AllNodes : Period[i] > 0}
Running  == {i \in AllNodes : state[i] = "running"}


(* The bound on failing calls; without it a failing call is repeated for    *)
(* ever.                                                                    *)
MayFail == bad_configures + bad_starts < MaxFailures

(* The types of the history of what the nodes were asked.                   *)
AskedOK ==
  /\ configures \in [AllNodes -> Nat]
  /\ starts \in [AllNodes -> Nat]
  /\ stops \in [AllNodes -> Nat]
  /\ bad_configures \in Nat
  /\ bad_starts \in Nat

TypeOK ==
  /\ phase \in {"building", "configured", "running", "stopped"}
  /\ count \in 0..MaxNodes
  /\ started \in 0..count
  /\ next_due \in [AllNodes -> Int]
  /\ ticks \in [AllNodes -> 0..step_count]
  /\ faults \in [AllNodes -> Nat]
  /\ missed \in [AllNodes -> Nat]
  /\ step_count \in 0..MaxSteps
  /\ call \in {"none", "configure", "start", "unwind", "step", "stop", "destroy", "gone"}
  /\ cursor \in 0..(count + 1)
  /\ now \in Times \union {IntMin}
  /\ state \in [AllNodes -> {"new", "configured", "running", "stopped"}]
  /\ first \in [AllNodes -> Int]
  /\ escaped \in 0..MaxNodes
  /\ AskedOK

Init ==
  /\ phase = "building"
  /\ count = 0
  /\ started = 0
  /\ next_due = [i \in AllNodes |-> IntMin]
  /\ ticks = [i \in AllNodes |-> 0]
  /\ faults = [i \in AllNodes |-> 0]
  /\ missed = [i \in AllNodes |-> 0]
  /\ step_count = 0
  /\ call = "none"
  /\ cursor = 0
  /\ now = IntMin
  /\ state = [i \in AllNodes |-> "new"]
  /\ first = [i \in AllNodes |-> IntMin]
  /\ escaped = 0
  /\ configures = [i \in AllNodes |-> 0]
  /\ starts = [i \in AllNodes |-> 0]
  /\ stops = [i \in AllNodes |-> 0]
  /\ bad_configures = 0
  /\ bad_starts = 0

-----------------------------------------------------------------------------
(* The loop every call runs over the nodes.                                *)

Begin(c, i) == call = "none" /\ call' = c /\ cursor' = i

At(c) == call = c /\ cursor \in Nodes

Done(c, i) == call = c /\ cursor = i /\ call' = "none" /\ UNCHANGED cursor

Up   == cursor' = cursor + 1 /\ UNCHANGED call
Down == cursor' = cursor - 1 /\ UNCHANGED call

-----------------------------------------------------------------------------
(* add().                                                                  *)
Add ==
  /\ call = "none"
  /\ phase = "building"
  /\ count < MaxNodes
  /\ count' = count + 1
  /\ UNCHANGED <<phase, started, sched, step_count, loop, now, state, asked>>

-----------------------------------------------------------------------------
(* configure_all().                                                        *)

ConfigureAll ==
  /\ phase = "building"
  /\ Begin("configure", 1)
  /\ UNCHANGED <<phase, count, started, sched, step_count, now, state, asked>>

ConfigureNode ==
  /\ At("configure")
  /\ state' = [state EXCEPT ![cursor] = "configured"]
  /\ Up
  /\ configures' = [configures EXCEPT ![cursor] = @ + 1]
  /\ UNCHANGED <<phase, count, started, sched, step_count, now,
                 escaped, starts, stops, bad_configures, bad_starts>>

(* Mutant of ConfigureThrows: the failure is swallowed and the loop left.   *)
ConfigureThrowsSwallowed ==
  /\ At("configure")
  /\ MayFail
  /\ phase' = "configured"
  /\ call' = "none"
  /\ configures' = [configures EXCEPT ![cursor] = @ + 1]
  /\ bad_configures' = bad_configures + 1
  /\ UNCHANGED <<cursor, count, started, sched, step_count, now, state,
                 escaped, starts, stops, bad_starts>>

(* A node throws, whatever it throws: the phase stays, so that the call may *)
(* be made again and configure the nodes before it once more.               *)
ConfigureThrows ==
  /\ At("configure")
  /\ MayFail
  /\ call' = "none"
  /\ configures' = [configures EXCEPT ![cursor] = @ + 1]
  /\ bad_configures' = bad_configures + 1
  /\ UNCHANGED <<phase, cursor, count, started, sched, step_count, now, state,
                 escaped, starts, stops, bad_starts>>

ConfigureDone ==
  /\ Done("configure", count + 1)
  /\ phase' = "configured"
  /\ UNCHANGED <<count, started, sched, step_count, now, state, asked>>

-----------------------------------------------------------------------------
(* start_all().                                                            *)

StartAll ==
  /\ phase = "configured"
  /\ Begin("start", 1)
  /\ started' = 0
  /\ UNCHANGED <<phase, count, sched, step_count, now, state, asked>>

StartNode ==
  /\ At("start")
  /\ state' = [state EXCEPT ![cursor] = "running"]
  /\ started' = started + 1
  /\ Up
  /\ starts' = [starts EXCEPT ![cursor] = @ + 1]
  /\ UNCHANGED <<phase, count, sched, step_count, now,
                 escaped, configures, stops, bad_configures, bad_starts>>

(* Mutant of StartThrows: the unwinding leaves out the last node started.   *)
StartThrowsOffByOne ==
  /\ At("start")
  /\ MayFail
  /\ call' = "unwind"
  /\ cursor' = IF started = 0 THEN 0 ELSE started - 1
  /\ starts' = [starts EXCEPT ![cursor] = @ + 1]
  /\ bad_starts' = bad_starts + 1
  /\ UNCHANGED <<phase, count, started, sched, step_count, now, state,
                 escaped, configures, stops, bad_configures>>

(* A node throws a std::exception: those before it are stopped again.       *)
StartThrows ==
  /\ At("start")
  /\ MayFail
  /\ call' = "unwind"
  /\ cursor' = started
  /\ starts' = [starts EXCEPT ![cursor] = @ + 1]
  /\ bad_starts' = bad_starts + 1
  /\ UNCHANGED <<phase, count, started, sched, step_count, now, state,
                 escaped, configures, stops, bad_configures>>

(* Anything else is not caught: it leaves start_all() as it stands.         *)
StartThrowsForeign ==
  /\ Foreign
  /\ At("start")
  /\ MayFail
  /\ call' = "none"
  /\ escaped' = cursor
  /\ starts' = [starts EXCEPT ![cursor] = @ + 1]
  /\ bad_starts' = bad_starts + 1
  /\ UNCHANGED <<phase, count, started, sched, step_count, cursor, now, state,
                 configures, stops, bad_configures>>

(* stop() is noexcept.                                                     *)
UnwindNode ==
  /\ At("unwind")
  /\ state' = [state EXCEPT ![cursor] = "stopped"]
  /\ Down
  /\ stops' = [stops EXCEPT ![cursor] = @ + 1]
  /\ UNCHANGED <<phase, count, started, sched, step_count, now,
                 escaped, configures, starts, bad_configures, bad_starts>>

UnwindDone ==
  /\ Done("unwind", 0)
  /\ started' = 0
  /\ UNCHANGED <<phase, count, sched, step_count, now, state, asked>>

StartDone ==
  /\ Done("start", count + 1)
  /\ phase' = "running"
  /\ UNCHANGED <<count, started, sched, step_count, now, state, asked>>

-----------------------------------------------------------------------------
(* step(now).                                                              *)

(* Mutant of Step: the phase is not required to be kRunning.                *)
StepUnchecked ==
  /\ phase \in {"configured", "running"}
  /\ step_count < MaxSteps
  /\ Begin("step", 1)
  /\ step_count' = step_count + 1
  /\ now' \in Times
  /\ UNCHANGED <<phase, count, started, sched, state, asked>>

Step ==
  /\ phase = "running"
  /\ step_count < MaxSteps
  /\ Begin("step", 1)
  /\ step_count' = step_count + 1
  /\ now' \in Times
  /\ UNCHANGED <<phase, count, started, sched, state, asked>>

(* A node with a schedule whose next slot has not come yet.                 *)
NotDue(i) == Period[i] > 0 /\ now < next_due[i]

SkipNode ==
  /\ At("step")
  /\ NotDue(cursor)
  /\ Up
  /\ UNCHANGED <<phase, count, started, sched, step_count, now, state, asked>>

(* Slots that went by unserviced since the one that is due.  The division  *)
(* is C++'s, and the node is due, so nothing is negative.                   *)
Skipped(i) == (now - next_due[i]) \div Period[i]

(* Mutant of Reschedule: the slots of a late node are run back to back.     *)
RescheduleCatchingUp(i) ==
  IF Period[i] = 0 THEN UNCHANGED <<next_due, missed>>
  ELSE IF next_due[i] = IntMin
  THEN next_due' = [next_due EXCEPT ![i] = now + Period[i]] /\ UNCHANGED missed
  ELSE /\ missed' = missed
       /\ next_due' = [next_due EXCEPT ![i] = @ + Period[i]]

(* Mutant of Reschedule: the next slot is a period after this tick.         *)
RescheduleFromNow(i) ==
  IF Period[i] = 0 THEN UNCHANGED <<next_due, missed>>
  ELSE /\ next_due' = [next_due EXCEPT ![i] = now + Period[i]]
       /\ missed' = [missed EXCEPT ![i] = IF next_due[i] = IntMin THEN @ ELSE @ + Skipped(i)]

(* The schedule starts at the first tick; slots that are past are dropped.  *)
Reschedule(i) ==
  IF Period[i] = 0 THEN UNCHANGED <<next_due, missed>>
  ELSE IF next_due[i] = IntMin
  THEN next_due' = [next_due EXCEPT ![i] = now + Period[i]] /\ UNCHANGED missed
  ELSE /\ missed' = [missed EXCEPT ![i] = @ + Skipped(i)]
       /\ next_due' = [next_due EXCEPT ![i] = @ + (Skipped(i) + 1) * Period[i]]

(* Mutant of TickNode: no firewall, a throwing node ends the step.          *)
TickNodeUncaught ==
  /\ At("step")
  /\ ~NotDue(cursor)
  /\ \/ faults' = faults /\ call' = call
     \/ faults' = [faults EXCEPT ![cursor] = @ + 1] /\ call' = "none"
  /\ ticks' = [ticks EXCEPT ![cursor] = @ + 1]
  /\ first' = IF ticks[cursor] = 0 THEN [first EXCEPT ![cursor] = now] ELSE first
  /\ Reschedule(cursor)
  /\ cursor' = cursor + 1
  /\ UNCHANGED <<phase, count, started, step_count, now, state, asked>>

(* tick() returns or throws, and the loop goes on either way.               *)
TickNode ==
  /\ At("step")
  /\ ~NotDue(cursor)
  /\ \/ faults' = faults
     \/ faults' = [faults EXCEPT ![cursor] = @ + 1]
  /\ ticks' = [ticks EXCEPT ![cursor] = @ + 1]
  /\ first' = IF ticks[cursor] = 0 THEN [first EXCEPT ![cursor] = now] ELSE first
  /\ Reschedule(cursor)
  /\ Up
  /\ UNCHANGED <<phase, count, started, step_count, now, state, asked>>

StepDone ==
  /\ Done("step", count + 1)
  /\ UNCHANGED <<phase, count, started, sched, step_count, now, state, asked>>

-----------------------------------------------------------------------------
(* stop_all() and the destructor, which calls it.                          *)

StopAll ==
  /\ call = "none"
  /\ \E c \in {"stop", "destroy"} :
       /\ call' = c
       /\ cursor' = IF phase = "running" THEN count ELSE 0
  /\ UNCHANGED <<phase, count, started, sched, step_count, now, state, asked>>

(* Mutant of StopNode: the nodes are stopped in the order they were added.  *)
StopNodeForward ==
  /\ call \in {"stop", "destroy"}
  /\ cursor \in Nodes
  /\ state' = [state EXCEPT ![count + 1 - cursor] = "stopped"]
  /\ Down
  /\ stops' = [stops EXCEPT ![count + 1 - cursor] = @ + 1]
  /\ UNCHANGED <<phase, count, started, sched, step_count, now,
                 escaped, configures, starts, bad_configures, bad_starts>>

StopNode ==
  /\ call \in {"stop", "destroy"}
  /\ cursor \in Nodes
  /\ state' = [state EXCEPT ![cursor] = "stopped"]
  /\ Down
  /\ stops' = [stops EXCEPT ![cursor] = @ + 1]
  /\ UNCHANGED <<phase, count, started, sched, step_count, now,
                 escaped, configures, starts, bad_configures, bad_starts>>

(* Mutant of StopDone: the phase is left, and stop_all() stops them again.  *)
StopDoneStillRunning ==
  /\ call \in {"stop", "destroy"}
  /\ cursor = 0
  /\ call' = IF call = "destroy" THEN "gone" ELSE "none"
  /\ UNCHANGED <<phase, count, started, sched, step_count, cursor, now, state, asked>>

StopDone ==
  /\ call \in {"stop", "destroy"}
  /\ cursor = 0
  /\ call' = IF call = "destroy" THEN "gone" ELSE "none"
  /\ phase' = "stopped"
  /\ UNCHANGED <<count, started, sched, step_count, cursor, now, state, asked>>

-----------------------------------------------------------------------------
(* What the call being executed does next.                                 *)
Continue ==
  \/ ConfigureNode
  \/ ConfigureThrows
  \/ ConfigureDone
  \/ StartNode
  \/ StartThrows
  \/ StartThrowsForeign
  \/ UnwindNode
  \/ UnwindDone
  \/ StartDone
  \/ SkipNode
  \/ TickNode
  \/ StepDone
  \/ StopNode
  \/ StopDone

Next ==
  \/ Add
  \/ ConfigureAll
  \/ StartAll
  \/ Step
  \/ StopAll
  \/ Continue

Spec == Init /\ [][Next]_vars

-----------------------------------------------------------------------------
(* What the executor promises.                                             *)

(* No node runs before every node added has been configured: "a single bad  *)
(* parameter is discovered before ANY node has started" (node.hpp:73-74),   *)
(* also when configure_all() failed, nodes were added and it was retried.   *)
ConfiguredBeforeAnyRuns ==
  Running # {} => \A i \in Nodes : state[i] # "new"

(* "teardown mirrors construction" (executor.hpp:82-84): the nodes running  *)
(* are always the first ones, so none outlives a node added before it, in   *)
(* stop_all(), in the unwinding of a failed start_all() and after a retry.  *)
(* A start_all() retried after a foreign exception stops less than runs.    *)
RunningIsPrefix ==
  escaped # 0 \/ \A i, j \in AllNodes : i < j /\ j \in Running => i \in Running

(* No call returns, and the executor is not destroyed, with only some nodes *)
(* running, or with nodes running that stop_all() would pass over: "a       *)
(* half-started system is never left running" (executor.hpp:73-75), "A      *)
(* destroyed executor must not leave nodes running" (executor.cpp:64).      *)
(* A foreign exception out of start() refutes it.                           *)
NeverHalfStarted ==
  call \in {"none", "gone"} => Running = IF phase = "running" THEN Nodes ELSE {}

(* The same of an executor no foreign exception escaped from.               *)
HalfStartedOnlyByForeign == escaped # 0 \/ NeverHalfStarted

(* The schedule never drifts and no slot is unaccounted for: the next slot  *)
(* of a periodic node is the first plus a period for every slot it was      *)
(* ticked in and every slot counted as missed (executor.cpp:184-188).       *)
SlotsAccounted ==
  \A i \in Periodic :
    ticks[i] > 0 => next_due[i] = first[i] + (ticks[i] + missed[i]) * Period[i]

(* After a step every node that was due has been ticked, whichever threw:   *)
(* one with no period in every step there was, one with a period has its    *)
(* next slot in the future ("the rest of the cycle still runs",             *)
(* executor.cpp:156-158).                                                   *)
EveryDueNodeTicked ==
  call = "none" /\ step_count > 0 =>
    \A i \in Nodes : IF Period[i] = 0 THEN ticks[i] = step_count ELSE now < next_due[i]

(* A tick happens in the slot it is accounted for, so never twice in one    *)
(* and never in a burst, however late the caller is and wherever its time   *)
(* jumps ("those ticks are DROPPED, not run back to back", l.169-170).      *)
TickedInItsSlot ==
  [][\A i \in Periodic :
       ticks'[i] # ticks[i] => next_due'[i] - Period[i] <= now /\ now < next_due'[i]]_vars

Node(i) == INSTANCE NodeContract WITH
  state <- state[i], configures <- configures[i], starts <- starts[i], stops <- stops[i],
  ticks <- ticks[i], faults <- faults[i], foreign <- escaped # 0

(* Towards each of its nodes the executor keeps the node contract: "The     *)
(* order is fixed and the executor enforces it", configure(), start() and   *)
(* stop() "once" (node.hpp:61-67) while none throws, and after a throw once *)
(* more for every call of configure_all() or start_all() that failed.       *)
KeepsNodeContract ==
  /\ \A i \in AllNodes : Node(i)!Init
  /\ [][\A i \in AllNodes : [Node(i)!Next]_(Node(i)!node)]_vars
=============================================================================
