---------------------------- MODULE SensorSource ----------------------------
(***************************************************************************)
(* lidar::SickScanSource (src/sick_scan_source.cpp), whose control          *)
(* lidar::SickCloudSource (src/sick_cloud_source.cpp) repeats.  An object   *)
(* is one connection to a sensor.  The vendor's driver calls on_polar_cloud *)
(* on threads of its own, giving only a handle; a static registry leads     *)
(* back to the object, whose bounded queue the owner's thread polls.        *)
(*                                                                          *)
(* The driver is modelled from its use here: several of its threads may be  *)
(* in the callback at once, a callback may arrive as soon as it is          *)
(* registered, a handle released may be given out again, and Deregister     *)
(* returns when no callback for the handle is running, which is what the    *)
(* comment on the destructor builds on.                                     *)
(***************************************************************************)
EXTENDS Integers, Sequences

CONSTANTS
  MaxObjects,   (* bound: sources constructed in the process                *)
  Handles,      (* what SickScanApiCreate may return                        *)
  Drivers,      (* the driver's threads                                     *)
  MaxMsgs,      (* bound: clouds each connection delivers                   *)
  Stamp,        (* the sensors' timestamps of them                          *)
  QueueCapacity,(* Config::queue_capacity                                   *)
  MaxPlausible  (* kMaxPlausibleScanTimeNs                                  *)

Objects == 1..MaxObjects
Msgs    == 1..MaxMsgs
Nobody  == 0

ASSUME SourceAssumption ==
  /\ MaxObjects \in Nat
  /\ MaxMsgs \in Nat
  /\ Stamp \in [Objects -> [Msgs -> Nat \ {0}]]
  /\ QueueCapacity \in Nat \ {0}
  /\ MaxPlausible \in Nat

VARIABLES
  phase,        (* of each object: from "none" to "gone"                    *)
  handle,       (* Impl::handle of each object that had one                 *)
  registry,     (* Impl::registry(): the object of each handle, or Nobody   *)
  listening,    (* handles the driver has on_polar_cloud registered for     *)
  queue,        (* Impl::queue: clouds with the scan time reported          *)
  dropped,      (* Impl::dropped                                            *)
  last_stamp,   (* Impl::last_stamp_ns                                      *)
  sensed,       (* clouds each connection has delivered so far              *)
  at,           (* where each driver thread is in the callback              *)
  on,           (* the handle it was called with                            *)
  from,         (* history: the connection the cloud came over              *)
  msg,          (* the cloud                                                *)
  self,         (* the object found                                         *)
  time,         (* the scan time computed                                   *)
  arrived,      (* history: the clouds queued, in order                     *)
  polled        (* history: how many the owner got                          *)

callback == <<at, on, from, msg, self, time>>
buffer   == <<queue, dropped, last_stamp, arrived, polled>>
setup    == <<phase, handle, registry, listening>>
vars     == <<setup, buffer, sensed, callback>>

Phases == {"none", "created", "registered", "live", "deregister", "quiesce",
           "unregister", "free", "gone"}

(* The members of an object exist from its construction to its destruction. *)
Exists(o) == phase[o] \notin {"none", "gone"}

Cloud == [from : Objects, msg : Msgs, time : Nat]

TypeOK ==
  /\ phase \in [Objects -> Phases]
  /\ handle \in [Objects -> Handles \union {Nobody}]
  /\ registry \in [Handles -> Objects \union {Nobody}]
  /\ listening \subseteq Handles
  /\ queue \in [Objects -> Seq(Cloud)]
  /\ \A o \in Objects : Len(queue[o]) <= QueueCapacity
  /\ dropped \in [Objects -> Nat]
  /\ last_stamp \in [Objects -> Nat]
  /\ sensed \in [Objects -> 0..MaxMsgs]
  /\ at \in [Drivers -> {"idle", "called", "found", "converted"}]
  /\ on \in [Drivers -> Handles \union {Nobody}]
  /\ from \in [Drivers -> Objects \union {Nobody}]
  /\ msg \in [Drivers -> Msgs \union {0}]
  /\ self \in [Drivers -> Objects \union {Nobody}]
  /\ time \in [Drivers -> Nat]
  /\ arrived \in [Objects -> Seq(Cloud)]
  /\ polled \in [Objects -> Nat]

Init ==
  /\ phase = [o \in Objects |-> "none"]
  /\ handle = [o \in Objects |-> Nobody]
  /\ registry = [h \in Handles |-> Nobody]
  /\ listening = {}
  /\ queue = [o \in Objects |-> << >>]
  /\ dropped = [o \in Objects |-> 0]
  /\ last_stamp = [o \in Objects |-> 0]
  /\ sensed = [o \in Objects |-> 0]
  /\ at = [d \in Drivers |-> "idle"]
  /\ on = [d \in Drivers |-> Nobody]
  /\ from = [d \in Drivers |-> Nobody]
  /\ msg = [d \in Drivers |-> 0]
  /\ self = [d \in Drivers |-> Nobody]
  /\ time = [d \in Drivers |-> 0]
  /\ arrived = [o \in Objects |-> << >>]
  /\ polled = [o \in Objects |-> 0]

-----------------------------------------------------------------------------
(* The owner's thread: constructor, poll_scan, destructor.                  *)

Become(o, p) == phase' = [phase EXCEPT ![o] = p]

(* SickScanApiCreate, and the object goes into the registry.               *)
Create(o) ==
  /\ phase[o] = "none"
  /\ \E h \in Handles \ {handle[p] : p \in {q \in Objects : Exists(q)}} :
       /\ handle' = [handle EXCEPT ![o] = h]
       /\ registry' = [registry EXCEPT ![h] = o]
  /\ Become(o, "created")
  /\ UNCHANGED <<listening, buffer, sensed, callback>>

Register(o) ==
  /\ phase[o] = "created"
  /\ listening' = listening \union {handle[o]}
  /\ Become(o, "registered")
  /\ UNCHANGED <<handle, registry, buffer, sensed, callback>>

RegisterFails(o) ==
  /\ phase[o] = "created"
  /\ Become(o, "unregister")
  /\ UNCHANGED <<handle, registry, listening, buffer, sensed, callback>>

InitDriver(o) ==
  /\ phase[o] = "registered"
  /\ Become(o, "live")
  /\ UNCHANGED <<handle, registry, listening, buffer, sensed, callback>>

(* The sensor cannot be reached: the constructor takes back what it did.    *)
(* The destructor does the same, in the same order.                         *)
InitFailsOrDestroy(o) ==
  /\ phase[o] \in {"registered", "live"}
  /\ Become(o, "deregister")
  /\ UNCHANGED <<handle, registry, listening, buffer, sensed, callback>>

(* Mutant of Deregister: the destructor leaves the callback registered.     *)
DeregisterSkipped(o) ==
  /\ phase[o] = "deregister"
  /\ Become(o, "unregister")
  /\ UNCHANGED <<handle, registry, listening, buffer, sensed, callback>>

(* SickScanApiDeregisterPolarPointCloudMsg: no callback starts any more ... *)
Deregister(o) ==
  /\ phase[o] = "deregister"
  /\ listening' = listening \ {handle[o]}
  /\ Become(o, "quiesce")
  /\ UNCHANGED <<handle, registry, buffer, sensed, callback>>

(* ... and it returns when none runs.                                      *)
Quiesced(o) ==
  /\ phase[o] = "quiesce"
  /\ \A d \in Drivers : at[d] # "idle" => on[d] # handle[o]
  /\ Become(o, "unregister")
  /\ UNCHANGED <<handle, registry, listening, buffer, sensed, callback>>

(* unregister_self(), under registry_mutex.                                *)
Unregister(o) ==
  /\ phase[o] = "unregister"
  /\ registry' = [registry EXCEPT ![handle[o]] = Nobody]
  /\ Become(o, "free")
  /\ UNCHANGED <<handle, listening, buffer, sensed, callback>>

(* SickScanApiClose, SickScanApiRelease and the end of the members.         *)
Free(o) ==
  /\ phase[o] = "free"
  /\ Become(o, "gone")
  /\ UNCHANGED <<handle, registry, listening, buffer, sensed, callback>>

(* poll_scan with a scan to take; without one it times out.                *)
Poll(o) ==
  /\ phase[o] = "live"
  /\ queue[o] # << >>
  /\ polled' = [polled EXCEPT ![o] = @ + 1]
  /\ queue' = [queue EXCEPT ![o] = Tail(@)]
  /\ UNCHANGED <<setup, dropped, last_stamp, arrived, sensed, callback>>

-----------------------------------------------------------------------------
(* The driver's threads.                                                   *)

Goto(d, where) == at' = [at EXCEPT ![d] = where]

(* The callback returns, and its locals go.                                *)
Return(d) ==
  /\ Goto(d, "idle")
  /\ on' = [on EXCEPT ![d] = Nobody]
  /\ from' = [from EXCEPT ![d] = Nobody]
  /\ msg' = [msg EXCEPT ![d] = 0]
  /\ self' = [self EXCEPT ![d] = Nobody]
  /\ time' = [time EXCEPT ![d] = 0]

(* A cloud arrives over the connection of o: the callback is entered.       *)
Notify(d, o) ==
  /\ at[d] = "idle"
  /\ Exists(o) /\ handle[o] \in listening
  /\ sensed[o] < MaxMsgs
  /\ sensed' = [sensed EXCEPT ![o] = @ + 1]
  /\ Goto(d, "called")
  /\ on' = [on EXCEPT ![d] = handle[o]]
  /\ from' = [from EXCEPT ![d] = o]
  /\ msg' = [msg EXCEPT ![d] = sensed[o] + 1]
  /\ UNCHANGED <<setup, buffer, self, time>>

(* The lookup under registry_mutex, which is released again.               *)
Find(d) ==
  /\ at[d] = "called"
  /\ LET o == registry[on[d]]
     IN IF o = Nobody
        THEN Return(d)
        ELSE /\ Goto(d, "found")
             /\ self' = [self EXCEPT ![d] = o]
             /\ UNCHANGED <<on, from, msg, time>>
  /\ UNCHANGED <<setup, buffer, sensed>>

(* Mutant of ScanTime: any positive difference is a revolution.            *)
ScanTimeUnbounded(previous, stamp) ==
  IF previous > 0 /\ stamp > previous THEN stamp - previous ELSE 0

(* The time since the stamp before, if that can be a revolution.           *)
ScanTime(previous, stamp) ==
  IF previous > 0 /\ stamp - previous \in 1..MaxPlausible THEN stamp - previous ELSE 0

(* to_scan: the stamp is exchanged atomically, before queue_mutex is taken. *)
Convert(d) ==
  /\ at[d] = "found"
  /\ LET o     == self[d]
         stamp == Stamp[from[d]][msg[d]]
     IN /\ time' = [time EXCEPT ![d] = ScanTime(last_stamp[o], stamp)]
        /\ last_stamp' = [last_stamp EXCEPT ![o] = stamp]
  /\ Goto(d, "converted")
  /\ UNCHANGED <<setup, queue, dropped, arrived, polled, sensed, on, from, msg, self>>

(* A cloud without range or azimuth, or cut off, is left.                   *)
Unreadable(d) ==
  /\ at[d] = "found"
  /\ Return(d)
  /\ UNCHANGED <<setup, buffer, sensed>>

Scan(d) == [from |-> from[d], msg |-> msg[d], time |-> time[d]]

(* Mutant of Enqueue: a full queue takes no new scan.                     *)
EnqueueOldestWins(d) ==
  /\ at[d] = "converted"
  /\ LET full == Len(queue[self[d]]) >= QueueCapacity
     IN /\ queue' = [queue EXCEPT ![self[d]] = IF full THEN @ ELSE Append(@, Scan(d))]
        /\ dropped' = [dropped EXCEPT ![self[d]] = IF full THEN @ + 1 ELSE @]
  /\ arrived' = [arrived EXCEPT ![self[d]] = Append(@, Scan(d))]
  /\ Return(d)
  /\ UNCHANGED <<setup, last_stamp, polled, sensed>>

(* Mutant of Enqueue: a full queue is waited for.                          *)
EnqueueBlocking(d) ==
  /\ at[d] = "converted"
  /\ Len(queue[self[d]]) < QueueCapacity
  /\ queue' = [queue EXCEPT ![self[d]] = Append(@, Scan(d))]
  /\ arrived' = [arrived EXCEPT ![self[d]] = Append(@, Scan(d))]
  /\ Return(d)
  /\ UNCHANGED <<setup, dropped, last_stamp, polled, sensed>>

(* enqueue under queue_mutex: the newest wins.                             *)
Enqueue(d) ==
  /\ at[d] = "converted"
  /\ LET q    == queue[self[d]]
         full == Len(q) >= QueueCapacity
     IN /\ queue' = [queue EXCEPT ![self[d]] = Append(IF full THEN Tail(q) ELSE q, Scan(d))]
        /\ dropped' = [dropped EXCEPT ![self[d]] = IF full THEN @ + 1 ELSE @]
  /\ arrived' = [arrived EXCEPT ![self[d]] = Append(@, Scan(d))]
  /\ Return(d)
  /\ UNCHANGED <<setup, last_stamp, polled, sensed>>

-----------------------------------------------------------------------------
Next ==
  \/ \E o \in Objects : \/ Create(o) \/ Register(o) \/ RegisterFails(o)
                        \/ InitDriver(o) \/ InitFailsOrDestroy(o)
                        \/ Deregister(o) \/ Quiesced(o) \/ Unregister(o) \/ Free(o)
                        \/ Poll(o)
  \/ \E d \in Drivers : \/ \E o \in Objects : Notify(d, o)
                        \/ Find(d) \/ Convert(d) \/ Unreadable(d) \/ Enqueue(d)

Spec == Init /\ [][Next]_vars

(* A thread in the callback and a thread in the destructor go on.          *)
FairSpec ==
  /\ Spec
  /\ \A d \in Drivers : WF_vars(Find(d) \/ Convert(d) \/ Unreadable(d) \/ Enqueue(d))
  /\ \A o \in Objects : WF_vars(Deregister(o) \/ Quiesced(o) \/ Unregister(o) \/ Free(o))

-----------------------------------------------------------------------------
(* What a source promises.                                                 *)

(* No driver thread works on an object whose members are gone: "Deregister- *)
(* ing first guarantees no driver thread is still calling into an object    *)
(* whose members are about to be destroyed" (sick_scan_source.cpp:143-144). *)
NoUseAfterFree ==
  \A d \in Drivers : at[d] \in {"found", "converted"} => Exists(self[d])

(* A cloud of one connection never reaches the queue of another, although   *)
(* several share the callback and a handle is given out again.              *)
RoutedToOwner ==
  \A o \in Objects : \A i \in 1..Len(arrived[o]) : arrived[o][i].from = o

Last(n, s) == SubSeq(s, Len(s) - n + 1, Len(s))

(* The queue holds the newest clouds that arrived, in order, and every      *)
(* other one was polled or counted as dropped ("newest-wins",               *)
(* sick_scan_source.cpp:184-186).                                           *)
NewestAreKept ==
  \A o \in Objects :
    /\ queue[o] = Last(Len(queue[o]), arrived[o])
    /\ polled[o] + dropped[o] + Len(queue[o]) = Len(arrived[o])

(* A scan time that is reported is the plausible time between two clouds of *)
(* the same connection, however its threads interleave and its clock jumps. *)
ScanTimesPlausible ==
  \A o \in Objects : \A i \in 1..Len(arrived[o]) :
    LET s == arrived[o][i]
    IN s.time > 0 =>
         /\ s.time <= MaxPlausible
         /\ \E m \in 1..sensed[o] : Stamp[o][s.msg] - Stamp[o][m] = s.time

(* Destroying a source, or failing to construct one, comes to its end: the  *)
(* callback never waits for the owner, so Deregister's wait is over soon.   *)
TeardownEnds ==
  \A o \in Objects : (phase[o] = "deregister") ~> (phase[o] = "gone")
=============================================================================
