--------------------------- MODULE ExecutorProofs ---------------------------
(***************************************************************************)
(* Proofs about Executor, for any number of nodes, any periods and any      *)
(* times.  IInv strengthens TypeOK with where each call may be (Calls), how *)
(* the reports agree with the schedule (Slots, Served) and which nodes run  *)
(* at every point of every loop (Lifecycle).                                *)
(***************************************************************************)
EXTENDS Executor, TLAPS

USE ExecutorAssumption

-----------------------------------------------------------------------------
(* Types, and the phase and the loop index each call is in.                 *)

Calls ==
  /\ call = "configure" => phase = "building"
  /\ call \in {"start", "unwind"} => phase = "configured"
  /\ call = "step" => phase = "running" /\ step_count > 0
  /\ call = "start" => started = cursor - 1
  /\ call \in {"configure", "start", "step"} => cursor >= 1
  /\ call \in {"unwind", "stop", "destroy"} => cursor <= count
  /\ call \in {"stop", "destroy"} /\ phase # "running" => cursor = 0
  /\ phase \in {"building", "configured"} => step_count = 0
  /\ call = "gone" => phase = "stopped"
  /\ call = "step" => \A i \in AllNodes : i >= cursor => ticks[i] < step_count

Typed == TypeOK /\ Calls

LEMMA TypedInit == Init => Typed
  BY DEF Init, Typed, TypeOK, AskedOK, Calls, AllNodes

(* A function updated at one point with a value of its range.               *)
LEMMA Updated ==
  ASSUME NEW S, NEW T, NEW f \in [S -> T], NEW i \in S, NEW v \in T
  PROVE  [f EXCEPT ![i] = v] \in [S -> T]
  OBVIOUS

LEMMA SkippedFacts ==
  ASSUME NEW a \in Int, a >= 0, NEW p \in Nat, p > 0
  PROVE  /\ a \div p \in Nat
         /\ (a \div p) * p <= a
         /\ a < (a \div p + 1) * p
  BY SMTT(30)

(* What rescheduling a node that is due leaves in its report.               *)
LEMMA Rescheduled ==
  ASSUME TypeOK, NEW i \in AllNodes, ~NotDue(i), Reschedule(i)
  PROVE  /\ next_due' \in [AllNodes -> Int]
         /\ missed' \in [AllNodes -> Nat]
         /\ \A j \in AllNodes \ {i} : next_due'[j] = next_due[j] /\ missed'[j] = missed[j]
         /\ Period[i] = 0 => next_due' = next_due /\ missed' = missed
         /\ Period[i] > 0 /\ next_due[i] = IntMin =>
              next_due'[i] = now + Period[i] /\ missed'[i] = missed[i]
         /\ Period[i] > 0 /\ next_due[i] # IntMin =>
              \E k \in Nat : /\ missed'[i] = missed[i] + k
                             /\ next_due'[i] = next_due[i] + (k + 1) * Period[i]
         /\ Period[i] > 0 => next_due'[i] - Period[i] <= now /\ now < next_due'[i]
<1>1. /\ now \in Int /\ next_due \in [AllNodes -> Int] /\ missed \in [AllNodes -> Nat]
      /\ Period[i] \in Nat
  BY DEF TypeOK
<1>2. CASE Period[i] = 0
  BY <1>1, <1>2 DEF Reschedule
<1>3. CASE Period[i] > 0 /\ next_due[i] = IntMin
  BY <1>1, <1>3 DEF Reschedule
<1>4. CASE Period[i] > 0 /\ next_due[i] # IntMin
  <2> DEFINE k == Skipped(i)
             d == next_due[i] + (k + 1) * Period[i]
  <2>1. now - next_due[i] \in Int /\ now - next_due[i] >= 0
    BY <1>1, <1>4 DEF NotDue
  <2>2. k \in Nat /\ k * Period[i] <= now - next_due[i] /\ now - next_due[i] < (k + 1) * Period[i]
    BY <1>1, <1>4, <2>1, SkippedFacts DEF Skipped
  <2>3. /\ missed' = [missed EXCEPT ![i] = @ + k]
        /\ next_due' = [next_due EXCEPT ![i] = d]
    BY <1>4 DEF Reschedule
  <2> HIDE DEF k
  <2>4. (k + 1) * Period[i] = k * Period[i] + Period[i] /\ (k + 1) * Period[i] \in Int
    BY <1>1, <2>2
  <2>5. d \in Int /\ d - Period[i] <= now /\ now < d
    BY <1>1, <2>2, <2>4
  <2>6. missed'[i] = missed[i] + k /\ next_due'[i] = d
    BY <1>1, <2>3
  <2>7. /\ next_due' \in [AllNodes -> Int]
        /\ missed' \in [AllNodes -> Nat]
        /\ \A j \in AllNodes \ {i} : next_due'[j] = next_due[j] /\ missed'[j] = missed[j]
    BY <1>1, <2>2, <2>3, <2>5
  <2> QED
    BY <1>4, <2>2, <2>5, <2>6, <2>7
<1> QED
  BY <1>1, <1>2, <1>3, <1>4

(* The counts of what the nodes were asked only ever count up.             *)
LEMMA AskedStep == TypeOK /\ [Next]_vars => AskedOK'
<1> SUFFICES ASSUME TypeOK, [Next]_vars PROVE AskedOK'
  OBVIOUS
<1>0. /\ configures \in [AllNodes -> Nat] /\ starts \in [AllNodes -> Nat]
      /\ stops \in [AllNodes -> Nat] /\ bad_configures \in Nat /\ bad_starts \in Nat
  BY DEF TypeOK, AskedOK
<1>1. CASE ConfigureNode \/ ConfigureThrows
  BY <1>0, <1>1 DEF ConfigureNode, ConfigureThrows, AskedOK
<1>2. CASE StartNode \/ StartThrows \/ StartThrowsForeign
  BY <1>0, <1>2 DEF StartNode, StartThrows, StartThrowsForeign, AskedOK
<1>3. CASE UnwindNode \/ StopNode
  BY <1>0, <1>3 DEF UnwindNode, StopNode, AskedOK
<1>4. CASE UNCHANGED asked
  BY <1>0, <1>4 DEF asked, AskedOK
<1> QED
  BY <1>1, <1>2, <1>3, <1>4
     DEF Next, Continue, Add, ConfigureAll, ConfigureDone, StartAll, UnwindDone, StartDone,
         Step, SkipNode, TickNode, StepDone, StopAll, StopDone, vars, asked

LEMMA TypedStep == Typed /\ [Next]_vars => Typed'
<1> SUFFICES ASSUME TypeOK, Calls, [Next]_vars PROVE TypeOK' /\ Calls'
  BY DEF Typed
<1>a. AskedOK'
  BY AskedStep
<1> USE <1>a DEF AllNodes, Nodes, asked
<1>1. CASE Add
  <2>0. /\ call = "none" /\ count < MaxNodes /\ count' = count + 1
        /\ UNCHANGED <<phase, started, next_due, ticks, faults, missed, step_count,
                       call, cursor, now, state, first, escaped>>
    BY <1>1 DEF Add, loop, sched
  <2>1. TypeOK'
    <3>1. count' \in 0..MaxNodes /\ started \in 0..count' /\ cursor \in 0..(count' + 1)
      BY <2>0 DEF TypeOK
    <3> QED
      BY <2>0, <3>1 DEF TypeOK
  <2>2. Calls'
    BY <2>0 DEF Calls
  <2> QED
    BY <2>1, <2>2
<1>2. CASE ConfigureAll
  <2>0. /\ phase = "building" /\ call' = "configure" /\ cursor' = 1
        /\ UNCHANGED <<phase, count, started, next_due, ticks, faults, missed,
                       step_count, now, state, first, escaped>>
    BY <1>2 DEF ConfigureAll, Begin, sched
  <2>1. TypeOK'
    <3>1. cursor' \in 0..(count + 1)
      BY <2>0 DEF TypeOK
    <3> QED
      BY <2>0, <3>1 DEF TypeOK
  <2>2. Calls'
    BY <2>0 DEF Calls
  <2> QED
    BY <2>1, <2>2
<1>3. CASE ConfigureNode
  <2>1. TypeOK'
    <3>1. /\ cursor \in 1..count /\ cursor' = cursor + 1
          /\ state' = [state EXCEPT ![cursor] = "configured"]
          /\ UNCHANGED <<phase, count, started, sched, step_count, call, now, escaped>>
      BY <1>3 DEF ConfigureNode, At, Up
    <3>2. state' \in [AllNodes -> {"new", "configured", "running", "stopped"}]
      BY <3>1 DEF TypeOK
    <3>3. cursor' \in 0..(count + 1)
      BY <3>1 DEF TypeOK
    <3> QED
      BY <3>1, <3>2, <3>3 DEF sched, TypeOK
  <2>2. Calls'
    BY <1>3 DEF ConfigureNode, At, Up, sched, TypeOK, Calls
  <2> QED
    BY <2>1, <2>2
<1>4. CASE ConfigureThrows
  <2>1. TypeOK'
    BY <1>4 DEF ConfigureThrows, At, sched, TypeOK
  <2>2. Calls'
    BY <1>4 DEF ConfigureThrows, At, sched, TypeOK, Calls
  <2> QED
    BY <2>1, <2>2
<1>5. CASE ConfigureDone
  <2>1. TypeOK'
    BY <1>5 DEF ConfigureDone, Done, sched, TypeOK
  <2>2. Calls'
    BY <1>5 DEF ConfigureDone, Done, sched, TypeOK, Calls
  <2> QED
    BY <2>1, <2>2
<1>6. CASE StartAll
  <2>0. /\ phase = "configured" /\ call' = "start" /\ cursor' = 1 /\ started' = 0
        /\ UNCHANGED <<phase, count, next_due, ticks, faults, missed, step_count,
                       now, state, first, escaped>>
    BY <1>6 DEF StartAll, Begin, sched
  <2>1. TypeOK'
    <3>1. cursor' \in 0..(count + 1) /\ started' \in 0..count
      BY <2>0 DEF TypeOK
    <3> QED
      BY <2>0, <3>1 DEF TypeOK
  <2>2. Calls'
    BY <2>0 DEF Calls
  <2> QED
    BY <2>1, <2>2
<1>7. CASE StartNode
  <2>1. TypeOK'
    <3>1. /\ cursor \in 1..count /\ started = cursor - 1
          /\ cursor' = cursor + 1 /\ started' = started + 1
          /\ state' = [state EXCEPT ![cursor] = "running"]
          /\ UNCHANGED <<phase, count, sched, step_count, call, now, escaped>>
      BY <1>7 DEF StartNode, At, Up, Calls
    <3>2. state' \in [AllNodes -> {"new", "configured", "running", "stopped"}]
      BY <3>1 DEF TypeOK
    <3>3. started' \in 0..count /\ cursor' \in 0..(count + 1)
      BY <3>1 DEF TypeOK
    <3> QED
      BY <3>1, <3>2, <3>3 DEF sched, TypeOK
  <2>2. Calls'
    BY <1>7 DEF StartNode, At, Up, sched, TypeOK, Calls
  <2> QED
    BY <2>1, <2>2
<1>8. CASE StartThrows
  <2>1. TypeOK'
    BY <1>8 DEF StartThrows, At, sched, TypeOK
  <2>2. Calls'
    BY <1>8 DEF StartThrows, At, sched, TypeOK, Calls
  <2> QED
    BY <2>1, <2>2
<1>9. CASE StartThrowsForeign
  <2>1. TypeOK'
    BY <1>9 DEF StartThrowsForeign, At, sched, TypeOK
  <2>2. Calls'
    BY <1>9 DEF StartThrowsForeign, At, sched, TypeOK, Calls
  <2> QED
    BY <2>1, <2>2
<1>10. CASE UnwindNode
  <2>1. TypeOK'
    <3>1. /\ cursor \in 1..count /\ cursor' = cursor - 1
          /\ state' = [state EXCEPT ![cursor] = "stopped"]
          /\ UNCHANGED <<phase, count, started, sched, step_count, call, now, escaped>>
      BY <1>10 DEF UnwindNode, At, Down
    <3>2. state' \in [AllNodes -> {"new", "configured", "running", "stopped"}]
      BY <3>1 DEF TypeOK
    <3>3. cursor' \in 0..(count + 1)
      BY <3>1 DEF TypeOK
    <3> QED
      BY <3>1, <3>2, <3>3 DEF sched, TypeOK
  <2>2. Calls'
    BY <1>10 DEF UnwindNode, At, Down, sched, TypeOK, Calls
  <2> QED
    BY <2>1, <2>2
<1>11. CASE UnwindDone
  <2>1. TypeOK'
    BY <1>11 DEF UnwindDone, Done, sched, TypeOK
  <2>2. Calls'
    BY <1>11 DEF UnwindDone, Done, sched, TypeOK, Calls
  <2> QED
    BY <2>1, <2>2
<1>12. CASE StartDone
  <2>0. /\ call' = "none" /\ phase' = "running"
        /\ UNCHANGED <<count, started, next_due, ticks, faults, missed, step_count,
                       cursor, now, state, first, escaped>>
    BY <1>12 DEF StartDone, Done, sched
  <2>1. TypeOK'
    BY <2>0 DEF TypeOK
  <2>2. Calls'
    BY <2>0 DEF Calls
  <2> QED
    BY <2>1, <2>2
<1>13. CASE Step
  <2>1. /\ call' = "step" /\ cursor' = 1 /\ phase = "running" /\ phase' = phase
        /\ step_count' = step_count + 1 /\ step_count' \in 1..MaxSteps
        /\ now' \in Times \union {IntMin}
        /\ UNCHANGED <<count, started, sched, state, escaped>>
    BY <1>13 DEF Step, Begin, TypeOK
  <2>2. ticks' \in [AllNodes -> 0..step_count'] /\ \A j \in AllNodes : ticks'[j] < step_count'
    <3>1. ticks' = ticks /\ step_count \in Nat /\ step_count' = step_count + 1
      BY <2>1 DEF sched, TypeOK
    <3>2. \A j \in AllNodes : ticks[j] \in 0..step_count
      BY DEF TypeOK
    <3>3. \A j \in AllNodes : ticks[j] \in 0..(step_count + 1) /\ ticks[j] < step_count + 1
      BY <3>1, <3>2
    <3>4. ticks \in [AllNodes -> 0..(step_count + 1)]
      BY <3>3 DEF TypeOK
    <3> QED
      BY <3>1, <3>3, <3>4
  <2>3. TypeOK'
    <3>1. cursor' \in 0..(count + 1) /\ step_count' \in 0..MaxSteps
      BY <2>1 DEF TypeOK
    <3>2. UNCHANGED <<phase, count, started, next_due, faults, missed, state, first, escaped>>
      BY <2>1 DEF sched
    <3>3. ticks' \in [AllNodes -> 0..step_count'] /\ now' \in Times \union {IntMin}
          /\ call' = "step"
      BY <2>1, <2>2
    <3> HIDE DEF AllNodes, Nodes
    <3> QED
      BY <3>1, <3>2, <3>3 DEF TypeOK
  <2>4. Calls'
    <3>1. call' = "step" /\ phase' = "running" /\ cursor' = 1 /\ step_count' > 0
      BY <2>1
    <3> QED
      BY <2>2, <3>1 DEF Calls
  <2> QED
    BY <2>3, <2>4
<1>14. CASE SkipNode
  <2>1. TypeOK'
    BY <1>14 DEF SkipNode, At, Up, sched, TypeOK, Calls
  <2>2. Calls'
    BY <1>14 DEF SkipNode, At, Up, sched, TypeOK, Calls
  <2> QED
    BY <2>1, <2>2
<1>15. CASE TickNode
  <2> DEFINE i == cursor
  <2>1. i \in AllNodes /\ ~NotDue(i) /\ Reschedule(i)
    BY <1>15 DEF TickNode, At, TypeOK
  <2>2. /\ next_due' \in [AllNodes -> Int]
        /\ missed' \in [AllNodes -> Nat]
    BY <2>1, Rescheduled
  <2>3. /\ call = "step" /\ call' = call
        /\ cursor \in 1..count /\ cursor' = cursor + 1
        /\ ticks' = [ticks EXCEPT ![i] = @ + 1]
        /\ UNCHANGED <<phase, count, started, step_count, now, state, escaped>>
    BY <1>15 DEF TickNode, At, Up
  <2>4. ticks[i] \in Nat /\ ticks[i] < step_count
    BY <2>1, <2>3 DEF TypeOK, Calls
  <2>5. ticks' \in [AllNodes -> 0..step_count]
    <3>1. ticks \in [AllNodes -> 0..step_count] /\ step_count \in Nat
      BY DEF TypeOK
    <3>2. ticks[i] + 1 \in 0..step_count
      BY <2>4, <3>1
    <3> HIDE DEF i
    <3> QED
      BY <2>1, <2>3, <3>1, <3>2
  <2>6. faults' \in [AllNodes -> Nat] /\ first' \in [AllNodes -> Int]
    <3>1. faults' = faults \/ faults' = [faults EXCEPT ![i] = @ + 1]
      BY <1>15 DEF TickNode
    <3>2. first' = first \/ first' = [first EXCEPT ![i] = now]
      BY <1>15 DEF TickNode
    <3>3. /\ now \in Int /\ i \in AllNodes
          /\ faults \in [AllNodes -> Nat] /\ first \in [AllNodes -> Int]
      BY <2>1 DEF TypeOK
    <3> HIDE DEF i, AllNodes
    <3>4. faults' \in [AllNodes -> Nat]
      <4>1. faults[i] + 1 \in Nat
        BY <3>3
      <4> QED
        BY <3>1, <3>3, <4>1, Updated
    <3>5. first' \in [AllNodes -> Int]
      BY <3>2, <3>3, Updated
    <3> QED
      BY <3>4, <3>5
  <2>7. TypeOK'
    <3>1. cursor' \in 0..(count + 1)
      BY <2>3 DEF TypeOK
    <3>2. ticks' \in [AllNodes -> 0..step_count']
      BY <2>3, <2>5
    <3>3. UNCHANGED <<phase, count, started, step_count, call, now, state, escaped>>
      BY <2>3
    <3> HIDE DEF i, AllNodes, Nodes
    <3> QED
      BY <2>2, <2>6, <3>1, <3>2, <3>3 DEF TypeOK
  <2>8. \A j \in AllNodes : j >= cursor' => ticks'[j] < step_count
    <3> SUFFICES ASSUME NEW j \in AllNodes, j >= cursor' PROVE ticks'[j] < step_count
      OBVIOUS
    <3>1. j >= cursor /\ j # i /\ cursor \in Int
      BY <2>3
    <3>2. ticks'[j] = ticks[j]
      BY <2>3, <3>1 DEF TypeOK
    <3>3. ticks[j] < step_count
      BY <2>3, <3>1 DEF Calls
    <3> QED
      BY <3>2, <3>3
  <2> QED
    BY <2>3, <2>7, <2>8 DEF Calls
<1>16. CASE StepDone
  <2>1. TypeOK'
    BY <1>16 DEF StepDone, Done, sched, TypeOK, Calls
  <2>2. Calls'
    BY <1>16 DEF StepDone, Done, sched, TypeOK, Calls
  <2> QED
    BY <2>1, <2>2
<1>17. CASE StopAll
  <2>0. /\ call' \in {"stop", "destroy"}
        /\ cursor' = IF phase = "running" THEN count ELSE 0
        /\ UNCHANGED <<phase, count, started, next_due, ticks, faults, missed,
                       step_count, now, state, first, escaped>>
    BY <1>17 DEF StopAll, sched
  <2>a. cursor' \in 0..(count + 1) /\ cursor' <= count
    BY <2>0 DEF TypeOK
  <2>1. TypeOK'
    BY <2>0, <2>a DEF TypeOK
  <2>2. Calls'
    BY <2>0, <2>a DEF Calls
  <2> QED
    BY <2>1, <2>2
<1>18. CASE StopNode
  <2>1. TypeOK'
    <3>1. /\ state' = [state EXCEPT ![cursor] = "stopped"]
          /\ cursor \in 1..count /\ cursor' = cursor - 1 /\ call' = call
          /\ UNCHANGED <<phase, count, started, sched, step_count, now, escaped>>
      BY <1>18 DEF StopNode, Down
    <3>2. state' \in [AllNodes -> {"new", "configured", "running", "stopped"}]
      BY <3>1 DEF TypeOK
    <3>3. cursor' \in 0..(count + 1)
      BY <3>1 DEF TypeOK
    <3> QED
      BY <3>1, <3>2, <3>3 DEF sched, TypeOK
  <2>2. Calls'
    <3>1. /\ call \in {"stop", "destroy"} /\ call' = call
          /\ cursor \in 1..count /\ cursor' = cursor - 1
          /\ UNCHANGED <<phase, count, step_count, ticks>>
      BY <1>18 DEF StopNode, Down, sched
    <3>2. phase = "running"
      BY <3>1 DEF Calls
    <3>3. cursor' <= count
      BY <3>1 DEF TypeOK
    <3> QED
      BY <3>1, <3>2, <3>3 DEF Calls
  <2> QED
    BY <2>1, <2>2
<1>19. CASE StopDone
  <2>1. TypeOK'
    BY <1>19 DEF StopDone, sched, TypeOK, Calls
  <2>2. Calls'
    BY <1>19 DEF StopDone, sched, TypeOK, Calls
  <2> QED
    BY <2>1, <2>2
<1>20. CASE UNCHANGED vars
  <2>1. TypeOK'
    BY <1>20 DEF vars, TypeOK, Calls
  <2>2. Calls'
    BY <1>20 DEF vars, TypeOK, Calls
  <2> QED
    BY <2>1, <2>2
<1> QED
  BY <1>1, <1>2, <1>3, <1>4, <1>5, <1>6, <1>7, <1>8, <1>9, <1>10, <1>11, <1>12,
     <1>13, <1>14, <1>15, <1>16, <1>17, <1>18, <1>19, <1>20 DEF Next, Continue

(* The executor's state is always well typed: loop indices stay in the     *)
(* vectors, started within the nodes, ticks within the steps.               *)
THEOREM ExecutorTypes == Spec => []TypeOK
<1>1. Typed => TypeOK
  BY DEF Typed
<1> QED
  BY TypedInit, TypedStep, <1>1, PTL DEF Spec

-----------------------------------------------------------------------------
(* The reports against the schedule.                                       *)

Slots ==
  \A i \in Periodic :
    /\ ticks[i] = 0 => next_due[i] = IntMin /\ missed[i] = 0
    /\ ticks[i] > 0 => /\ next_due[i] > IntMin
                       /\ next_due[i] = first[i] + (ticks[i] + missed[i]) * Period[i]

Schedule == Typed /\ Slots

LEMMA ScheduleInit == Init => Schedule
  BY TypedInit DEF Init, Schedule, Slots, Periodic, AllNodes

(* Every action but TickNode leaves the reports alone.                      *)
LEMMA OnlyTicks ==
  ASSUME [Next]_vars
  PROVE  UNCHANGED sched \/ TickNode
  BY DEF Next, Continue, Add, ConfigureAll, ConfigureNode, ConfigureThrows, ConfigureDone,
         StartAll, StartNode, StartThrows, StartThrowsForeign, UnwindNode, UnwindDone,
         StartDone, Step, SkipNode, StepDone, StopAll, StopNode, StopDone, vars, sched

LEMMA ScheduleStep == Schedule /\ [Next]_vars => Schedule'
<1> SUFFICES ASSUME Schedule, [Next]_vars PROVE Slots'
  BY TypedStep DEF Schedule
<1>0. Typed /\ TypeOK /\ Slots
  BY DEF Schedule, Typed
<1>1. CASE UNCHANGED sched
  BY <1>0, <1>1 DEF Slots, sched
<1>2. CASE TickNode
  <2> DEFINE c == cursor
  <2>1. /\ c \in AllNodes /\ ~NotDue(c) /\ Reschedule(c)
        /\ ticks' = [ticks EXCEPT ![c] = @ + 1]
        /\ first' = IF ticks[c] = 0 THEN [first EXCEPT ![c] = now] ELSE first
        /\ now' = now
    BY <1>0, <1>2 DEF TickNode, At, TypeOK, Nodes, AllNodes
  <2>2. /\ now \in Int /\ now >= IntMin
        /\ ticks \in [AllNodes -> Nat] /\ first \in [AllNodes -> Int]
        /\ missed \in [AllNodes -> Nat] /\ next_due \in [AllNodes -> Int]
    BY <1>0 DEF TypeOK
  <2> SUFFICES ASSUME NEW i \in Periodic
               PROVE  /\ ticks'[i] > 0
                           => /\ next_due'[i] > IntMin
                              /\ next_due'[i] = first'[i] + (ticks'[i] + missed'[i]) * Period[i]
                      /\ ticks'[i] = 0 => next_due'[i] = IntMin /\ missed'[i] = 0
    BY DEF Slots
  <2>3. i \in AllNodes /\ Period[i] \in Nat /\ Period[i] > 0
    BY DEF Periodic, AllNodes
  <2>4. CASE i # c
    <3>1. next_due'[i] = next_due[i] /\ missed'[i] = missed[i]
      BY <1>0, <2>1, <2>3, <2>4, Rescheduled
    <3>2. ticks'[i] = ticks[i] /\ first'[i] = first[i]
      BY <2>1, <2>2, <2>3, <2>4
    <3> QED
      BY <1>0, <3>1, <3>2 DEF Slots
  <2>5. CASE i = c /\ next_due[i] = IntMin
    <3>1. ticks[i] = 0 /\ missed[i] = 0
      BY <1>0, <2>2, <2>3, <2>5 DEF Slots
    <3>2. next_due'[i] = now + Period[i] /\ missed'[i] = missed[i]
      BY <1>0, <2>1, <2>3, <2>5, Rescheduled
    <3>3. ticks'[i] = 1 /\ first'[i] = now
      BY <2>1, <2>2, <2>3, <2>5, <3>1
    <3> QED
      BY <2>2, <2>3, <3>1, <3>2, <3>3
  <2>6. CASE i = c /\ next_due[i] # IntMin
    <3>1. ticks[i] > 0 /\ next_due[i] = first[i] + (ticks[i] + missed[i]) * Period[i]
      BY <1>0, <2>2, <2>3, <2>6 DEF Slots
    <3>2. PICK k \in Nat : /\ missed'[i] = missed[i] + k
                           /\ next_due'[i] = next_due[i] + (k + 1) * Period[i]
      BY <1>0, <2>1, <2>3, <2>6, Rescheduled
    <3>3. next_due'[i] \in Int /\ now < next_due'[i]
      BY <1>0, <2>1, <2>3, <2>6, Rescheduled
    <3>4. ticks'[i] = ticks[i] + 1 /\ first'[i] = first[i]
      BY <2>1, <2>2, <2>3, <2>6, <3>1
    <3>5. (ticks[i] + missed[i]) * Period[i] + (k + 1) * Period[i]
            = (ticks'[i] + missed'[i]) * Period[i]
      BY <2>2, <2>3, <3>2, <3>4
    <3> HIDE DEF c
    <3>6. (ticks[i] + missed[i]) * Period[i] \in Int /\ (k + 1) * Period[i] \in Int
      BY <2>2, <2>3
    <3>7. next_due'[i] = first'[i] + (ticks'[i] + missed'[i]) * Period[i]
      BY <2>2, <2>3, <3>1, <3>2, <3>4, <3>5, <3>6
    <3> QED
      BY <2>2, <2>3, <3>1, <3>3, <3>4, <3>7
  <2> QED
    BY <2>4, <2>5, <2>6
<1> QED
  BY <1>1, <1>2, OnlyTicks

(* However late and however irregularly step() is called, every slot of a  *)
(* periodic node since its first tick was either ticked in or missed.       *)
THEOREM SlotsStayAccounted == Spec => []SlotsAccounted
<1>1. Schedule => SlotsAccounted
  BY DEF Schedule, Slots, SlotsAccounted
<1> QED
  BY ScheduleInit, ScheduleStep, <1>1, PTL DEF Spec

(* No tick of a periodic node falls outside the slot it is accounted for.   *)
THEOREM TicksStayInTheirSlots == Spec => TickedInItsSlot
<1> DEFINE InSlot ==
      \A i \in Periodic :
        ticks'[i] # ticks[i] => next_due'[i] - Period[i] <= now /\ now < next_due'[i]
<1>1. Typed /\ [Next]_vars => [InSlot]_vars
  <2> SUFFICES ASSUME Typed, [Next]_vars, NEW i \in Periodic, ticks'[i] # ticks[i]
               PROVE  next_due'[i] - Period[i] <= now /\ now < next_due'[i]
    OBVIOUS
  <2>1. TickNode
    BY OnlyTicks DEF sched
  <2>2. TypeOK
    BY DEF Typed
  <2>3. cursor \in AllNodes /\ ~NotDue(cursor) /\ Reschedule(cursor)
    BY <2>1, <2>2 DEF TickNode, At, TypeOK, Nodes, AllNodes
  <2>4. i = cursor
    BY <2>1, <2>2, <2>3 DEF TickNode, TypeOK
  <2>5. i \in AllNodes /\ Period[i] > 0
    BY DEF Periodic
  <2> QED
    BY <2>2, <2>3, <2>4, <2>5, Rescheduled
<1> QED
  BY TypedInit, TypedStep, <1>1, PTL DEF Spec, TickedInItsSlot

-----------------------------------------------------------------------------
(* What has been ticked at every point of a step.                          *)

Served ==
  /\ \A i \in AllNodes : i > count => ticks[i] = 0
  /\ \A i \in Nodes :
       LET pending == call = "step" /\ cursor <= i IN
       /\ Period[i] = 0 /\ pending => ticks[i] = step_count - 1
       /\ Period[i] = 0 /\ ~pending => ticks[i] = step_count
       /\ Period[i] > 0 /\ step_count > 0 /\ ~pending => now < next_due[i]

LEMMA ServedInit == Init => Typed /\ Served
  BY TypedInit DEF Init, Served, Nodes, AllNodes

LEMMA ServedStep == Typed /\ Served /\ [Next]_vars => Served'
<1> SUFFICES ASSUME Typed, Served, [Next]_vars PROVE Served'
  OBVIOUS
<1>0. TypeOK /\ Calls
  BY DEF Typed
<1>1. CASE TickNode
  <2> DEFINE c == cursor
  <2>1. /\ c \in Nodes /\ c \in AllNodes /\ ~NotDue(c) /\ Reschedule(c)
        /\ ticks' = [ticks EXCEPT ![c] = @ + 1]
        /\ call = "step" /\ call' = call /\ cursor' = c + 1
        /\ UNCHANGED <<count, now, step_count>>
    BY <1>0, <1>1 DEF TickNode, At, Up, TypeOK, Nodes, AllNodes
  <2>2. /\ count \in Nat /\ step_count \in Nat /\ c \in Nat /\ Nodes \subseteq AllNodes
        /\ ticks \in [AllNodes -> Nat]
    BY <1>0, <2>1 DEF TypeOK, Nodes, AllNodes
  <2>3. \A i \in AllNodes : i > count' => ticks'[i] = 0
    BY <2>1, <2>2 DEF Served, Nodes
  <2>4. ASSUME NEW i \in Nodes, i # c
        PROVE  ticks'[i] = ticks[i] /\ next_due'[i] = next_due[i] /\ (cursor' <= i <=> cursor <= i)
    <3>1. ticks'[i] = ticks[i] /\ (cursor' <= i <=> cursor <= i)
      BY <2>1, <2>2, <2>4 DEF Nodes
    <3>2. next_due'[i] = next_due[i]
      BY <1>0, <2>1, <2>2, <2>4, Rescheduled
    <3> QED
      BY <3>1, <3>2
  <2>5. /\ ticks'[c] = ticks[c] + 1 /\ ~(cursor' <= c)
        /\ Period[c] > 0 => now < next_due'[c]
        /\ Period[c] = 0 => ticks[c] = step_count - 1
    <3>1. Period[c] > 0 => now < next_due'[c]
      BY <1>0, <2>1, Rescheduled
    <3>2. ticks'[c] = ticks[c] + 1 /\ ~(cursor' <= c)
      BY <2>1, <2>2
    <3>3. Period[c] = 0 => ticks[c] = step_count - 1
      BY <2>1, <2>2 DEF Served
    <3> QED
      BY <3>1, <3>2, <3>3
  <2> SUFFICES ASSUME NEW i \in Nodes
               PROVE  LET pending == call' = "step" /\ cursor' <= i IN
                      /\ Period[i] = 0 /\ pending => ticks'[i] = step_count' - 1
                      /\ Period[i] = 0 /\ ~pending => ticks'[i] = step_count'
                      /\ Period[i] > 0 /\ step_count' > 0 /\ ~pending => now' < next_due'[i]
    BY <2>1, <2>3 DEF Served, Nodes
  <2>6. CASE i = c
    BY <2>1, <2>2, <2>5, <2>6
  <2>7. CASE i # c
    BY <2>1, <2>2, <2>4, <2>7 DEF Served
  <2> QED
    BY <2>6, <2>7
<1>2. CASE UNCHANGED sched
  <2>1. CASE Add
    BY <1>0, <2>1 DEF Add, loop, sched, Served, TypeOK, Calls, Nodes, AllNodes
  <2>2. CASE Step
    BY <1>0, <2>2 DEF Step, Begin, sched, Served, TypeOK, Calls, Nodes, AllNodes
  <2>3. CASE SkipNode
    <3>1. /\ call = "step" /\ call' = "step" /\ cursor \in Int /\ cursor' = cursor + 1
          /\ Period[cursor] > 0 /\ now < next_due[cursor]
          /\ UNCHANGED <<count, step_count, now, ticks, next_due>>
      BY <1>0, <2>3 DEF SkipNode, NotDue, At, Up, sched, TypeOK
    <3>2. \A i \in Nodes : i = cursor \/ (cursor' <= i <=> cursor <= i)
      BY <3>1 DEF Nodes
    <3> QED
      BY <3>1, <3>2 DEF Served, Nodes
  <2>4. CASE StepDone
    <3>1. /\ call' = "none" /\ cursor = count + 1 /\ count \in Nat
          /\ UNCHANGED <<count, step_count, now, ticks, next_due>>
      BY <1>0, <2>4 DEF StepDone, Done, sched, TypeOK
    <3>2. \A i \in Nodes : ~(cursor <= i)
      BY <3>1 DEF Nodes
    <3> QED
      BY <3>1, <3>2 DEF Served, Nodes
  <2>5. CASE TickNode
    BY <1>1, <2>5
  <2>6. CASE \/ ConfigureAll \/ ConfigureNode \/ ConfigureThrows \/ ConfigureDone
             \/ StartAll \/ StartNode \/ StartThrows \/ StartThrowsForeign
             \/ UnwindNode \/ UnwindDone \/ StartDone
             \/ StopAll \/ StopNode \/ StopDone \/ UNCHANGED vars
    <3>1. /\ UNCHANGED <<count, step_count, now>>
          /\ (call # "step" /\ call' # "step") \/ UNCHANGED <<call, cursor>>
      BY <2>6 DEF ConfigureAll, ConfigureNode, ConfigureThrows, ConfigureDone,
           StartAll, StartNode, StartThrows, StartThrowsForeign, UnwindNode, UnwindDone,
           StartDone, StopAll, StopNode, StopDone, Begin, At, Done, Up, Down, vars
    <3> QED
      BY <1>2, <3>1 DEF sched, Served, Nodes
  <2> QED
    BY <2>1, <2>2, <2>3, <2>4, <2>5, <2>6 DEF Next, Continue
<1> QED
  BY <1>1, <1>2, OnlyTicks

(* No step is left with a node that was due unticked, whatever throws.      *)
THEOREM StepsReachEveryNode == Spec => []EveryDueNodeTicked
<1>1. Typed /\ Served => EveryDueNodeTicked
  <2> SUFFICES ASSUME Typed, Served, call = "none", step_count > 0, NEW i \in Nodes
               PROVE  IF Period[i] = 0 THEN ticks[i] = step_count ELSE now < next_due[i]
    BY DEF EveryDueNodeTicked
  <2>1. Period[i] \in Nat
    BY DEF Typed, TypeOK, Nodes, AllNodes
  <2> QED
    BY <2>1 DEF Served
<1> QED
  BY ServedInit, TypedStep, ServedStep, <1>1, PTL DEF Spec

-----------------------------------------------------------------------------
(* Which nodes run at every point of every loop.                           *)

(* The nodes up to this one run, and no other unless an exception escaped.  *)
Upto ==
  IF phase = "running" THEN (IF call \in {"stop", "destroy"} THEN cursor ELSE count)
  ELSE IF call = "start" THEN cursor - 1
  ELSE IF call = "unwind" THEN cursor
  ELSE 0

Lifecycle ==
  /\ \A i \in AllNodes : i <= Upto => state[i] = "running"
  /\ escaped = 0 => \A i \in AllNodes : state[i] = "running" => i <= Upto
  /\ phase = "building" => \A i \in AllNodes : state[i] \in {"new", "configured"}
  /\ phase \in {"configured", "running"} => \A i \in Nodes : state[i] # "new"
  /\ \A i, j \in AllNodes : state[i] = "running" /\ j <= count => state[j] # "new"
  /\ call = "configure" => \A i \in AllNodes : i < cursor => state[i] # "new"

LEMMA LifecycleInit == Init => Typed /\ Lifecycle
  BY TypedInit DEF Init, Lifecycle, Upto, Nodes, AllNodes

LEMMA LifecycleStep == Typed /\ Lifecycle /\ [Next]_vars => Lifecycle'
<1> SUFFICES ASSUME TypeOK, Calls, Lifecycle, [Next]_vars PROVE Lifecycle'
  BY DEF Typed
<1>0. /\ count \in 0..MaxNodes /\ cursor \in 0..(count + 1) /\ started \in 0..count
      /\ escaped \in 0..MaxNodes
      /\ state \in [AllNodes -> {"new", "configured", "running", "stopped"}]
  BY DEF TypeOK
<1> USE DEF Lifecycle, Calls, Upto, Nodes, AllNodes, asked
<1>1. CASE Add
  BY <1>0, <1>1 DEF Add, loop, sched
<1>2. CASE ConfigureAll
  BY <1>0, <1>2 DEF ConfigureAll, Begin, sched
<1>3. CASE ConfigureNode
  BY <1>0, <1>3 DEF ConfigureNode, At, Up, sched
<1>4. CASE ConfigureThrows
  BY <1>0, <1>4 DEF ConfigureThrows, At, sched
<1>5. CASE ConfigureDone
  BY <1>0, <1>5 DEF ConfigureDone, Done, sched
<1>6. CASE StartAll
  BY <1>0, <1>6 DEF StartAll, Begin, sched
<1>7. CASE StartNode
  BY <1>0, <1>7 DEF StartNode, At, Up, sched
<1>8. CASE StartThrows
  BY <1>0, <1>8 DEF StartThrows, At, sched
<1>9. CASE StartThrowsForeign
  BY <1>0, <1>9 DEF StartThrowsForeign, At, sched
<1>10. CASE UnwindNode
  BY <1>0, <1>10 DEF UnwindNode, At, Down, sched
<1>11. CASE UnwindDone
  BY <1>0, <1>11 DEF UnwindDone, Done, sched
<1>12. CASE StartDone
  BY <1>0, <1>12 DEF StartDone, Done, sched
<1>13. CASE Step
  BY <1>0, <1>13 DEF Step, Begin, sched
<1>14. CASE SkipNode
  BY <1>0, <1>14 DEF SkipNode, At, Up, sched
<1>15. CASE TickNode
  <2>1. /\ call = "step" /\ call' = call
        /\ UNCHANGED <<phase, count, state, escaped>>
    BY <1>15 DEF TickNode, At, Up
  <2> QED
    BY <1>0, <2>1
<1>16. CASE StepDone
  BY <1>0, <1>16 DEF StepDone, Done, sched
<1>17. CASE StopAll
  BY <1>0, <1>17 DEF StopAll, sched
<1>18. CASE StopNode
  BY <1>0, <1>18 DEF StopNode, Down, sched
<1>19. CASE StopDone
  BY <1>0, <1>19 DEF StopDone, sched
<1>20. CASE UNCHANGED vars
  BY <1>0, <1>20 DEF vars
<1> QED
  BY <1>1, <1>2, <1>3, <1>4, <1>5, <1>6, <1>7, <1>8, <1>9, <1>10, <1>11, <1>12,
     <1>13, <1>14, <1>15, <1>16, <1>17, <1>18, <1>19, <1>20 DEF Next, Continue

(* No node starts before every node added is configured.                    *)
THEOREM ConfiguredFirst == Spec => []ConfiguredBeforeAnyRuns
<1>1. Typed /\ Lifecycle => ConfiguredBeforeAnyRuns
  BY DEF Typed, TypeOK, Lifecycle, ConfiguredBeforeAnyRuns, Running, Nodes, AllNodes
<1> QED
  BY LifecycleInit, TypedStep, LifecycleStep, <1>1, PTL DEF Spec

(* Teardown mirrors construction, at every point of every call.             *)
THEOREM TeardownMirrorsConstruction == Spec => []RunningIsPrefix
<1>1. Typed /\ Lifecycle => RunningIsPrefix
  <2> SUFFICES ASSUME Typed, Lifecycle, escaped = 0,
                      NEW i \in AllNodes, NEW j \in AllNodes, i < j, j \in Running
               PROVE  i \in Running
    BY DEF RunningIsPrefix
  <2>1. Upto \in Int /\ i \in Int /\ j \in Int
    BY DEF Typed, TypeOK, Upto, AllNodes
  <2>2. j <= Upto
    BY DEF Lifecycle, Running
  <2> QED
    BY <2>1, <2>2 DEF Lifecycle, Running
<1> QED
  BY LifecycleInit, TypedStep, LifecycleStep, <1>1, PTL DEF Spec

(* Only an exception that is not a std::exception leaves the system half    *)
(* started.                                                                *)
THEOREM AllOrNothing == Spec => []HalfStartedOnlyByForeign
<1>1. Typed /\ Lifecycle => HalfStartedOnlyByForeign
  <2> SUFFICES ASSUME Typed, Lifecycle, escaped = 0, call \in {"none", "gone"}
               PROVE  Running = IF phase = "running" THEN Nodes ELSE {}
    BY DEF HalfStartedOnlyByForeign, NeverHalfStarted
  <2>1. count \in 0..MaxNodes /\ Upto = IF phase = "running" THEN count ELSE 0
    BY DEF Typed, TypeOK, Upto
  <2>2. \A i \in AllNodes : state[i] = "running" <=> i <= Upto
    BY DEF Lifecycle
  <2>3. Running = {i \in AllNodes : i <= Upto}
    BY <2>2 DEF Running
  <2> HIDE DEF Upto
  <2> QED
    BY <2>1, <2>3 DEF Nodes, AllNodes
<1> QED
  BY LifecycleInit, TypedStep, LifecycleStep, <1>1, PTL DEF Spec

-----------------------------------------------------------------------------
(* How often each node may have been asked to do what.                     *)

(* No node was configured or started more often than once and once for each *)
(* failure, one that is still to be configured or started in this attempt   *)
(* only for the failures, and a stop answers a start.                       *)
Budget ==
  /\ \A i \in AllNodes : configures[i] <= bad_configures + 1
  /\ phase = "building" =>
       \A i \in AllNodes : (call = "configure" => i >= cursor) => configures[i] <= bad_configures
  /\ \A i \in AllNodes : starts[i] <= bad_starts + 1
  /\ phase \in {"building", "configured"} =>
       \A i \in AllNodes : (call = "start" => i >= cursor) => starts[i] <= bad_starts
  /\ \A i \in AllNodes :
       stops[i] <= starts[i] /\ (state[i] = "running" => stops[i] < starts[i])

LEMMA BudgetInit == Init => Budget
  BY DEF Init, Budget, AllNodes

LEMMA BudgetStep == Typed /\ Lifecycle /\ Budget /\ [Next]_vars => Budget'
<1> SUFFICES ASSUME TypeOK, Calls, Lifecycle, Budget, [Next]_vars PROVE Budget'
  BY DEF Typed
<1>0. /\ count \in Nat /\ cursor \in Nat
      /\ configures \in [AllNodes -> Nat] /\ starts \in [AllNodes -> Nat]
      /\ stops \in [AllNodes -> Nat] /\ bad_configures \in Nat /\ bad_starts \in Nat
      /\ state \in [AllNodes -> {"new", "configured", "running", "stopped"}]
  BY DEF TypeOK, AskedOK
<1>a. AllNodes \subseteq Int /\ (cursor \in Nodes => cursor \in AllNodes)
  BY DEF TypeOK, Nodes, AllNodes
<1>1. CASE ConfigureNode
  <2>1. /\ call = "configure" /\ call' = call /\ phase = "building" /\ phase' = phase
        /\ cursor \in AllNodes /\ cursor' = cursor + 1
        /\ \A i \in AllNodes : i # cursor => configures'[i] = configures[i] /\ state'[i] = state[i]
        /\ configures'[cursor] = configures[cursor] + 1 /\ state'[cursor] = "configured"
        /\ UNCHANGED <<starts, stops, bad_configures, bad_starts>>
    BY <1>0, <1>1, <1>a DEF ConfigureNode, At, Up, Calls
  <2>2. \A i \in AllNodes : i >= cursor' => i >= cursor /\ i # cursor
    BY <1>0, <1>a, <2>1
  <2>3. \A i \in AllNodes : configures'[i] <= bad_configures + 1
    BY <1>0, <1>a, <2>1 DEF Budget
  <2>4. \A i \in AllNodes : i >= cursor' => configures'[i] <= bad_configures
    BY <1>0, <1>a, <2>1, <2>2 DEF Budget
  <2> QED
    BY <1>0, <1>a, <2>1, <2>3, <2>4 DEF Budget
<1>2. CASE ConfigureThrows
  <2>1. /\ call = "configure" /\ call' = "none" /\ phase = "building" /\ phase' = phase
        /\ cursor \in AllNodes
        /\ \A i \in AllNodes : i # cursor => configures'[i] = configures[i]
        /\ configures'[cursor] = configures[cursor] + 1 /\ bad_configures' = bad_configures + 1
        /\ UNCHANGED <<state, starts, stops, bad_starts>>
    BY <1>0, <1>2, <1>a DEF ConfigureThrows, At, Calls
  <2>2. \A i \in AllNodes : configures'[i] <= bad_configures + 1
    BY <1>0, <1>a, <2>1 DEF Budget
  <2>3. \A i \in AllNodes : configures'[i] \in Nat
    BY <1>0, <2>1
  <2> QED
    BY <1>0, <1>a, <2>1, <2>2, <2>3 DEF Budget
<1>3. CASE StartNode
  <2>1. /\ call = "start" /\ call' = call /\ phase = "configured" /\ phase' = phase
        /\ cursor \in AllNodes /\ cursor' = cursor + 1
        /\ \A i \in AllNodes : i # cursor => starts'[i] = starts[i] /\ state'[i] = state[i]
        /\ starts'[cursor] = starts[cursor] + 1 /\ state'[cursor] = "running"
        /\ UNCHANGED <<configures, stops, bad_configures, bad_starts>>
    BY <1>0, <1>3, <1>a DEF StartNode, At, Up, Calls
  <2>2. \A i \in AllNodes : i >= cursor' => i >= cursor /\ i # cursor
    BY <1>0, <1>a, <2>1
  <2>3. \A i \in AllNodes : starts'[i] <= bad_starts + 1
    BY <1>0, <1>a, <2>1 DEF Budget
  <2>4. \A i \in AllNodes : i >= cursor' => starts'[i] <= bad_starts
    BY <1>0, <1>a, <2>1, <2>2 DEF Budget
  <2>5. \A i \in AllNodes : stops[i] <= starts'[i] /\ (state'[i] = "running" => stops[i] < starts'[i])
    BY <1>0, <1>a, <2>1 DEF Budget
  <2> QED
    BY <1>0, <1>a, <2>1, <2>3, <2>4, <2>5 DEF Budget
<1>4. CASE StartThrows \/ StartThrowsForeign
  <2>1. /\ call = "start" /\ call' \in {"none", "unwind"}
        /\ phase = "configured" /\ phase' = phase
        /\ cursor \in AllNodes
        /\ \A i \in AllNodes : i # cursor => starts'[i] = starts[i]
        /\ starts'[cursor] = starts[cursor] + 1 /\ bad_starts' = bad_starts + 1
        /\ UNCHANGED <<state, configures, stops, bad_configures>>
    BY <1>0, <1>4, <1>a DEF StartThrows, StartThrowsForeign, At, Calls
  <2>2. \A i \in AllNodes : starts'[i] <= bad_starts + 1 /\ starts'[i] \in Nat
    BY <1>0, <1>a, <2>1 DEF Budget
  <2>3. \A i \in AllNodes : stops[i] <= starts'[i] /\ (state[i] = "running" => stops[i] < starts'[i])
    BY <1>0, <1>a, <2>1 DEF Budget
  <2> QED
    BY <1>0, <1>a, <2>1, <2>2, <2>3 DEF Budget
<1>5. CASE UnwindNode \/ StopNode
  <2>1. cursor \in AllNodes => state[cursor] = "running"
    BY <1>0, <1>5 DEF UnwindNode, StopNode, At, Calls, Lifecycle, Upto, Nodes
  <2>2. /\ state' = [state EXCEPT ![cursor] = "stopped"]
        /\ stops' = [stops EXCEPT ![cursor] = @ + 1]
        /\ call' = call /\ call # "start" /\ call # "configure"
        /\ UNCHANGED <<phase, configures, starts, bad_configures, bad_starts>>
    BY <1>5 DEF UnwindNode, StopNode, At, Down
  <2> QED
    BY <1>0, <2>1, <2>2 DEF Budget
<1>6. CASE \/ Add \/ ConfigureAll \/ ConfigureDone \/ StartAll \/ UnwindDone \/ StartDone
           \/ Step \/ SkipNode \/ TickNode \/ StepDone \/ StopAll \/ StopDone
           \/ UNCHANGED vars
  <2>1. UNCHANGED <<asked, state>>
    BY <1>6 DEF Add, ConfigureAll, ConfigureDone, StartAll, UnwindDone, StartDone, Step,
         SkipNode, TickNode, StepDone, StopAll, StopDone, vars, asked
  <2>2. /\ phase' = "building" =>
             phase = "building" /\ (call # "configure" \/ UNCHANGED <<call, cursor>>)
        /\ phase' \in {"building", "configured"} =>
             /\ phase \in {"building", "configured"}
             /\ call # "start" \/ UNCHANGED <<call, cursor>>
    BY <1>6 DEF Add, ConfigureAll, ConfigureDone, StartAll, UnwindDone, StartDone, Step,
         SkipNode, TickNode, StepDone, StopAll, StopDone, vars, loop, Begin, At, Done, Up,
         Calls
  <2> QED
    BY <2>1, <2>2 DEF asked, Budget
<1> QED
  BY <1>1, <1>2, <1>3, <1>4, <1>5, <1>6 DEF Next, Continue

(* "Once", and once more for every call that failed: no node is configured, *)
(* started or stopped more often, or out of order, or ticked when it does   *)
(* not run, however the calls fail, are retried or are left by a throw.     *)
THEOREM ExecutorKeepsNodeContract == Spec => KeepsNodeContract
<1> DEFINE Kept == \A i \in AllNodes : [Node(i)!Next]_(Node(i)!node)
<1>1. Init => \A i \in AllNodes : Node(i)!Init
  BY DEF Init, Node!Init
<1>2. Typed /\ Lifecycle /\ Budget /\ [Next]_vars => [Kept]_vars
  <2> SUFFICES ASSUME TypeOK, Calls, Lifecycle, Budget, [Next]_vars, NEW i \in AllNodes
               PROVE  [Node(i)!Next]_(Node(i)!node)
    BY DEF Typed
  <2> USE DEF Node!node
  <2>0. /\ cursor \in Int /\ count \in Int /\ Nodes \subseteq AllNodes
        /\ state \in [AllNodes -> {"new", "configured", "running", "stopped"}]
        /\ configures \in [AllNodes -> Nat] /\ starts \in [AllNodes -> Nat]
        /\ stops \in [AllNodes -> Nat] /\ bad_configures \in Nat /\ bad_starts \in Nat
        /\ ticks \in [AllNodes -> Int] /\ faults \in [AllNodes -> Nat]
    BY DEF TypeOK, AskedOK, Nodes, AllNodes
  <2>1. CASE ConfigureNode \/ ConfigureThrows
    <3>1. /\ state[i] \in {"new", "configured"}
          /\ i = cursor => configures[i] <= bad_configures
      BY <2>0, <2>1 DEF ConfigureNode, ConfigureThrows, At, Calls, Lifecycle, Budget
    <3>2. CASE i = cursor
      <4>1. Node(i)!Configure
        BY <2>0, <2>1, <3>1, <3>2
           DEF ConfigureNode, ConfigureThrows, sched, Node!Configure
      <4> QED
        BY <4>1 DEF Node!Next
    <3>3. CASE i # cursor
      BY <2>0, <2>1, <3>3 DEF ConfigureNode, ConfigureThrows, sched
    <3> QED
      BY <3>2, <3>3
  <2>2. CASE StartNode \/ StartThrows \/ StartThrowsForeign
    <3>1. i = cursor => /\ state[i] # "new" /\ starts[i] <= bad_starts
                        /\ state[i] = "running" => escaped # 0
      BY <2>0, <2>2
         DEF StartNode, StartThrows, StartThrowsForeign, At, Calls, Lifecycle, Budget, Upto
    <3>2. CASE i = cursor
      <4>1. Node(i)!Start
        BY <2>0, <2>2, <3>1, <3>2
           DEF StartNode, StartThrows, StartThrowsForeign, sched, Node!Start
      <4> QED
        BY <4>1 DEF Node!Next
    <3>3. CASE i # cursor
      BY <2>0, <2>2, <3>3 DEF StartNode, StartThrows, StartThrowsForeign, sched
    <3> QED
      BY <3>2, <3>3
  <2>3. CASE UnwindNode \/ StopNode
    <3>1. i = cursor => state[i] = "running" /\ stops[i] <= bad_starts
      <4>1. i = cursor => state[i] = "running"
        BY <2>0, <2>3 DEF UnwindNode, StopNode, At, Calls, Lifecycle, Upto, Nodes
      <4> QED
        BY <2>0, <4>1 DEF Budget
    <3>2. CASE i = cursor
      <4>1. Node(i)!Stop
        BY <2>0, <2>3, <3>1, <3>2 DEF UnwindNode, StopNode, sched, Node!Stop
      <4> QED
        BY <4>1 DEF Node!Next
    <3>3. CASE i # cursor
      BY <2>0, <2>3, <3>3 DEF UnwindNode, StopNode, sched
    <3> QED
      BY <3>2, <3>3
  <2>4. CASE TickNode
    <3>1. i = cursor => state[i] = "running"
      BY <2>0, <2>4 DEF TickNode, At, Calls, Lifecycle, Upto, Nodes
    <3>2. /\ ticks' = [ticks EXCEPT ![cursor] = @ + 1]
          /\ faults' = faults \/ faults' = [faults EXCEPT ![cursor] = @ + 1]
          /\ UNCHANGED <<state, configures, starts, stops>>
      BY <2>4 DEF TickNode, asked
    <3>3. CASE i = cursor
      <4>1. Node(i)!Tick
        BY <2>0, <3>1, <3>2, <3>3 DEF Node!Tick
      <4> QED
        BY <4>1 DEF Node!Next
    <3>4. CASE i # cursor
      BY <2>0, <3>2, <3>4
    <3> QED
      BY <3>3, <3>4
  <2>5. CASE \/ Add \/ ConfigureAll \/ ConfigureDone \/ StartAll \/ UnwindDone \/ StartDone
             \/ Step \/ SkipNode \/ StepDone \/ StopAll \/ StopDone \/ UNCHANGED vars
    BY <2>5 DEF Add, ConfigureAll, ConfigureDone, StartAll, UnwindDone, StartDone, Step,
       SkipNode, StepDone, StopAll, StopDone, vars, asked, sched
  <2> QED
    BY <2>1, <2>2, <2>3, <2>4, <2>5 DEF Next, Continue
<1> QED
  BY LifecycleInit, TypedStep, LifecycleStep, BudgetInit, BudgetStep, <1>1, <1>2, PTL
     DEF Spec, KeepsNodeContract
=============================================================================
