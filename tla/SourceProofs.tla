---------------------------- MODULE SourceProofs ----------------------------
(***************************************************************************)
(* Proofs about SensorSource, for any number of sources, handles, driver    *)
(* threads and clouds and any timestamps: its type invariant, that no       *)
(* callback works on a destroyed source, and that no cloud is put into      *)
(* another source's queue.  They rest on the modelled contract of the       *)
(* driver: Deregister returns when no callback for the handle is running.   *)
(***************************************************************************)
EXTENDS SensorSource, SequenceTheorems, TLAPS

(* Sources that exist have handles of their own.                            *)
OwnHandles ==
  /\ \A o \in Objects : Exists(o) => handle[o] \in Handles
  /\ \A o, p \in Objects : Exists(o) /\ Exists(p) /\ handle[o] = handle[p] => o = p

(* From its construction till unregister_self() a source is found under its *)
(* handle.                                                                  *)
Registered ==
  \A o \in Objects : Exists(o) /\ phase[o] # "free" => registry[handle[o]] = o

(* A handle that the driver calls back for is that of a source that will    *)
(* still wait for the driver.                                               *)
Heard ==
  \A h \in listening :
    \E o \in Objects : handle[o] = h /\ phase[o] \in {"registered", "live", "deregister"}

(* A driver thread in the callback is there for a source that the           *)
(* destructor has not taken out of the registry, and has found that one.    *)
InCallback ==
  \A d \in Drivers : at[d] # "idle" =>
    /\ from[d] \in Objects
    /\ msg[d] \in Msgs
    /\ on[d] = handle[from[d]]
    /\ phase[from[d]] \in {"registered", "live", "deregister", "quiesce"}
    /\ at[d] # "called" => self[d] = from[d]

IInv == TypeOK /\ OwnHandles /\ Registered /\ Heard /\ InCallback /\ RoutedToOwner

-----------------------------------------------------------------------------
LEMMA InitHolds == Init => IInv
<1> SUFFICES ASSUME Init PROVE IInv
  OBVIOUS
<1> USE SourceAssumption DEF Init
<1>1. TypeOK
  BY EmptySeq DEF TypeOK, Phases
<1>2. OwnHandles /\ Registered /\ Heard /\ InCallback
  BY DEF OwnHandles, Registered, Heard, InCallback, Exists
<1>3. RoutedToOwner
  BY DEF RoutedToOwner
<1> QED
  BY <1>1, <1>2, <1>3 DEF IInv

LEMMA CreateKeeps ==
  ASSUME IInv, NEW o \in Objects, Create(o)
  PROVE  IInv'
<1> USE DEF IInv, Create, Become, buffer, callback
<1>1. PICK h \in Handles \ {handle[p] : p \in {q \in Objects : Exists(q)}} :
        /\ handle' = [handle EXCEPT ![o] = h]
        /\ registry' = [registry EXCEPT ![h] = o]
  OBVIOUS
<1>2. TypeOK'
  BY <1>1 DEF TypeOK, Phases
<1>3. /\ \A p \in Objects : Exists(p)' <=> Exists(p) \/ p = o
      /\ \A p \in Objects : p # o => handle'[p] = handle[p] /\ phase'[p] = phase[p]
      /\ handle'[o] = h /\ phase'[o] = "created"
      /\ \A p \in Objects : Exists(p) => handle[p] # h
  BY <1>1 DEF TypeOK, Exists
<1>4. OwnHandles'
  BY <1>3 DEF OwnHandles
<1>5. Registered'
  BY <1>1, <1>3 DEF Registered, OwnHandles, TypeOK
<1>6. Heard'
  BY <1>3 DEF Heard
<1>7. InCallback'
  BY <1>3 DEF InCallback
<1>8. RoutedToOwner'
  BY DEF RoutedToOwner
<1> QED
  BY <1>2, <1>4, <1>5, <1>6, <1>7, <1>8

(* A step of the constructor or destructor of o that only the parts below   *)
(* can notice.                                                              *)
LEMMA PhaseKeeps ==
  ASSUME IInv, NEW o \in Objects, NEW p \in Phases, Exists(o), p # "none", Become(o, p),
         UNCHANGED <<handle, buffer, sensed, callback>>,
         listening' \subseteq Handles, registry' \in [Handles -> Objects \union {Nobody}],
         Registered', Heard', InCallback'
  PROVE  IInv'
<1> USE DEF IInv, Become, buffer, callback
<1>1. TypeOK'
  BY DEF TypeOK
<1>2. phase' \in [Objects -> Phases] /\ \A q \in Objects : q # o => phase'[q] = phase[q]
  BY DEF TypeOK
<1>3. OwnHandles'
  BY <1>2 DEF OwnHandles, Exists
<1>4. RoutedToOwner'
  BY DEF RoutedToOwner
<1> QED
  BY <1>1, <1>3, <1>4

(* Up to the call of Deregister a source may be heard.                      *)
LEMMA SetupKeeps ==
  ASSUME IInv, NEW o \in Objects, Register(o) \/ InitDriver(o) \/ InitFailsOrDestroy(o)
  PROVE  IInv'
<1> USE DEF Register, InitDriver, InitFailsOrDestroy
<1>1. PICK p \in {"registered", "live", "deregister"} : Become(o, p)
  OBVIOUS
<1>2. /\ phase[o] \in {"created", "registered", "live"}
      /\ UNCHANGED <<handle, registry, buffer, sensed, callback>>
      /\ listening' \subseteq listening \union {handle[o]}
  OBVIOUS
<1> HIDE DEF Register, InitDriver, InitFailsOrDestroy
<1>3. Exists(o) /\ handle[o] \in Handles
  BY <1>2 DEF IInv, OwnHandles, Exists
<1>4. phase'[o] = p /\ \A q \in Objects : q # o => phase'[q] = phase[q]
  BY <1>1 DEF IInv, TypeOK, Become
<1>5. Registered'
  BY <1>2, <1>3, <1>4 DEF IInv, Registered, Exists
<1>6. Heard'
  BY <1>2, <1>4 DEF IInv, Heard
<1>7. InCallback'
  BY <1>2, <1>4 DEF IInv, InCallback, callback
<1> QED
  BY <1>1, <1>2, <1>3, <1>5, <1>6, <1>7, PhaseKeeps DEF IInv, TypeOK, Phases

(* A source that was not registered is not heard.                           *)
LEMMA RegisterFailsKeeps ==
  ASSUME IInv, NEW o \in Objects, RegisterFails(o)
  PROVE  IInv'
<1> USE DEF RegisterFails
<1>1. Exists(o) /\ handle[o] \in Handles /\ handle[o] \notin listening
  BY DEF IInv, OwnHandles, Exists, Heard
<1>2. phase'[o] = "unregister" /\ \A q \in Objects : q # o => phase'[q] = phase[q]
  BY DEF IInv, TypeOK, Become
<1>3. Registered'
  BY <1>1, <1>2 DEF IInv, Registered, Exists
<1>4. Heard'
  BY <1>1, <1>2 DEF IInv, Heard
<1>5. InCallback'
  BY <1>2 DEF IInv, InCallback, callback
<1> QED
  BY <1>1, <1>3, <1>4, <1>5, PhaseKeeps DEF IInv, TypeOK, Phases

LEMMA DeregisterKeeps ==
  ASSUME IInv, NEW o \in Objects, Deregister(o)
  PROVE  IInv'
<1> USE DEF Deregister
<1>1. Exists(o)
  BY DEF Exists
<1>2. phase'[o] = "quiesce" /\ \A q \in Objects : q # o => phase'[q] = phase[q]
  BY DEF IInv, TypeOK, Become
<1>3. Registered'
  BY <1>1, <1>2 DEF IInv, Registered, Exists
<1>4. Heard'
  BY <1>2 DEF IInv, Heard
<1>5. InCallback'
  BY <1>2 DEF IInv, InCallback, callback
<1> QED
  BY <1>1, <1>3, <1>4, <1>5, PhaseKeeps DEF IInv, TypeOK, Phases

(* What is not heard any more is not called for once Deregister returned.   *)
LEMMA QuiescedKeeps ==
  ASSUME IInv, NEW o \in Objects, Quiesced(o)
  PROVE  IInv'
<1> USE DEF Quiesced
<1>1. Exists(o)
  BY DEF Exists
<1>2. phase'[o] = "unregister" /\ \A q \in Objects : q # o => phase'[q] = phase[q]
  BY DEF IInv, TypeOK, Become
<1>3. Registered'
  BY <1>1, <1>2 DEF IInv, Registered, Exists
<1>4. Heard'
  BY <1>2 DEF IInv, Heard
<1>5. InCallback'
  BY <1>2 DEF IInv, InCallback, callback
<1> QED
  BY <1>1, <1>3, <1>4, <1>5, PhaseKeeps DEF IInv, TypeOK, Phases

LEMMA UnregisterKeeps ==
  ASSUME IInv, NEW o \in Objects, Unregister(o)
  PROVE  IInv'
<1> USE DEF Unregister
<1>1. Exists(o) /\ handle[o] \in Handles
  BY DEF IInv, OwnHandles, Exists
<1>2. phase'[o] = "free" /\ \A q \in Objects : q # o => phase'[q] = phase[q]
  BY DEF IInv, TypeOK, Become
<1>3. /\ registry' \in [Handles -> Objects \union {Nobody}]
      /\ \A h \in Handles : h # handle[o] => registry'[h] = registry[h]
  BY DEF IInv, TypeOK
<1>4. Registered'
  BY <1>1, <1>2, <1>3 DEF IInv, Registered, OwnHandles, Exists
<1>5. Heard'
  BY <1>2 DEF IInv, Heard
<1>6. InCallback'
  BY <1>2 DEF IInv, InCallback, callback
<1> QED
  BY <1>1, <1>3, <1>4, <1>5, <1>6, PhaseKeeps DEF IInv, TypeOK, Phases

LEMMA FreeKeeps ==
  ASSUME IInv, NEW o \in Objects, Free(o)
  PROVE  IInv'
<1> USE DEF Free
<1>1. Exists(o)
  BY DEF Exists
<1>2. phase'[o] = "gone" /\ \A q \in Objects : q # o => phase'[q] = phase[q]
  BY DEF IInv, TypeOK, Become
<1>3. Registered'
  BY <1>1, <1>2 DEF IInv, Registered, Exists
<1>4. Heard'
  BY <1>2 DEF IInv, Heard
<1>5. InCallback'
  BY <1>2 DEF IInv, InCallback, callback
<1> QED
  BY <1>1, <1>3, <1>4, <1>5, PhaseKeeps DEF IInv, TypeOK, Phases

LEMMA PollKeeps ==
  ASSUME IInv, NEW o \in Objects, Poll(o)
  PROVE  IInv'
<1> USE DEF IInv, Poll, setup, callback
<1>1. TypeOK'
  <2>1. /\ Tail(queue[o]) \in Seq(Cloud)
        /\ Len(Tail(queue[o])) <= QueueCapacity
    BY HeadTailProperties, LenProperties, SourceAssumption DEF TypeOK
  <2>2. /\ queue' \in [Objects -> Seq(Cloud)]
        /\ \A p \in Objects : Len(queue'[p]) <= QueueCapacity
    BY <2>1 DEF TypeOK
  <2>3. polled' \in [Objects -> Nat]
    BY DEF TypeOK
  <2> QED
    BY <2>2, <2>3 DEF TypeOK
<1>2. OwnHandles' /\ Registered' /\ Heard' /\ InCallback' /\ RoutedToOwner'
  BY DEF OwnHandles, Registered, Heard, InCallback, RoutedToOwner, Exists
<1> QED
  BY <1>1, <1>2

-----------------------------------------------------------------------------
LEMMA NotifyKeeps ==
  ASSUME IInv, NEW d \in Drivers, NEW o \in Objects, Notify(d, o)
  PROVE  IInv'
<1> USE DEF IInv, Notify, Goto, setup, buffer
<1>1. TypeOK'
  <2>1. sensed[o] + 1 \in Msgs /\ sensed[o] + 1 \in 0..MaxMsgs
    BY SourceAssumption DEF TypeOK, Msgs
  <2>2. sensed' \in [Objects -> 0..MaxMsgs] /\ msg' \in [Drivers -> Msgs \union {0}]
    BY <2>1 DEF TypeOK
  <2>3. handle[o] \in Handles
    BY DEF OwnHandles
  <2> QED
    BY <2>2, <2>3 DEF TypeOK
<1>2. OwnHandles' /\ Registered' /\ Heard' /\ RoutedToOwner'
  BY DEF OwnHandles, Registered, Heard, RoutedToOwner, Exists
<1>3. phase[o] \in {"registered", "live", "deregister"}
  BY DEF Heard, OwnHandles, Exists
<1>4. sensed[o] + 1 \in Msgs
  BY SourceAssumption DEF TypeOK, Msgs
<1>5. InCallback'
  BY <1>3, <1>4 DEF InCallback, TypeOK
<1> QED
  BY <1>1, <1>2, <1>5

LEMMA ReturnKeeps ==
  ASSUME IInv, NEW d \in Drivers, Return(d), UNCHANGED <<setup, sensed>>,
         queue' \in [Objects -> Seq(Cloud)],
         \A o \in Objects : Len(queue'[o]) <= QueueCapacity,
         dropped' \in [Objects -> Nat], UNCHANGED <<last_stamp, polled>>,
         arrived' \in [Objects -> Seq(Cloud)], RoutedToOwner'
  PROVE  IInv'
<1> USE DEF IInv, Return, Goto, setup
<1>1. TypeOK'
  BY DEF TypeOK
<1>2. OwnHandles' /\ Registered' /\ Heard'
  BY DEF OwnHandles, Registered, Heard, Exists
<1>3. InCallback'
  BY DEF InCallback, TypeOK
<1> QED
  BY <1>1, <1>2, <1>3

LEMMA FindKeeps ==
  ASSUME IInv, NEW d \in Drivers, Find(d)
  PROVE  IInv'
<1>1. from[d] \in Objects /\ registry[on[d]] = from[d]
  BY DEF IInv, Find, InCallback, Registered, Exists
<1>2. /\ Goto(d, "found")
      /\ self' = [self EXCEPT ![d] = from[d]]
      /\ UNCHANGED <<on, from, msg, time, setup, buffer, sensed>>
  BY <1>1 DEF Find, Objects, Nobody
<1> USE <1>1, <1>2 DEF IInv, Find, Goto, setup, buffer
<1>3. TypeOK'
  BY DEF TypeOK
<1>4. OwnHandles' /\ Registered' /\ Heard' /\ RoutedToOwner'
  BY DEF OwnHandles, Registered, Heard, RoutedToOwner, Exists
<1>5. InCallback'
  BY DEF InCallback, TypeOK
<1> QED
  BY <1>3, <1>4, <1>5

LEMMA ConvertKeeps ==
  ASSUME IInv, NEW d \in Drivers, Convert(d)
  PROVE  IInv'
<1> USE DEF IInv, Convert, Goto, setup
<1> DEFINE stamp == Stamp[from[d]][msg[d]]
<1>1. stamp \in Nat /\ self[d] \in Objects
  BY SourceAssumption DEF InCallback
<1>2. ScanTime(last_stamp[self[d]], stamp) \in Nat
  BY <1>1, SourceAssumption DEF ScanTime, TypeOK
<1>3. TypeOK'
  BY <1>1, <1>2 DEF TypeOK
<1>4. OwnHandles' /\ Registered' /\ Heard' /\ RoutedToOwner'
  BY DEF OwnHandles, Registered, Heard, RoutedToOwner, Exists
<1>5. InCallback'
  BY DEF InCallback, TypeOK
<1> QED
  BY <1>3, <1>4, <1>5

LEMMA UnreadableKeeps ==
  ASSUME IInv, NEW d \in Drivers, Unreadable(d)
  PROVE  IInv'
<1>1. RoutedToOwner'
  BY DEF IInv, Unreadable, buffer, RoutedToOwner
<1> QED
  BY <1>1, ReturnKeeps DEF IInv, TypeOK, Unreadable, buffer

LEMMA EnqueueKeeps ==
  ASSUME IInv, NEW d \in Drivers, Enqueue(d)
  PROVE  IInv'
<1> DEFINE o    == self[d]
           q    == queue[o]
           full == Len(q) >= QueueCapacity
           room == IF full THEN Tail(q) ELSE q
<1>1. o \in Objects /\ from[d] = o /\ Scan(d) \in Cloud /\ Scan(d).from = o
  BY DEF IInv, Enqueue, InCallback, TypeOK, Scan, Cloud
<1>2. q \in Seq(Cloud) /\ Len(q) <= QueueCapacity /\ QueueCapacity \in Nat \ {0}
  BY <1>1, SourceAssumption DEF IInv, TypeOK
<1>3. room \in Seq(Cloud) /\ Len(room) < QueueCapacity
  BY <1>2, HeadTailProperties, EmptySeq
<1>4. Append(room, Scan(d)) \in Seq(Cloud) /\ Len(Append(room, Scan(d))) <= QueueCapacity
  BY <1>1, <1>2, <1>3, AppendProperties
<1>5. queue' = [queue EXCEPT ![o] = Append(room, Scan(d))]
  BY DEF Enqueue
<1>6. queue' \in [Objects -> Seq(Cloud)] /\ \A p \in Objects : Len(queue'[p]) <= QueueCapacity
  BY <1>1, <1>4, <1>5 DEF IInv, TypeOK
<1>7. dropped' \in [Objects -> Nat]
  BY <1>1 DEF IInv, TypeOK, Enqueue
<1>8. arrived' = [arrived EXCEPT ![o] = Append(@, Scan(d))] /\ arrived[o] \in Seq(Cloud)
  BY <1>1 DEF IInv, TypeOK, Enqueue
<1>9. arrived' \in [Objects -> Seq(Cloud)]
  BY <1>1, <1>8, AppendProperties DEF IInv, TypeOK
<1>10. RoutedToOwner'
  <2> SUFFICES ASSUME NEW p \in Objects, NEW i \in 1..Len(arrived'[p])
               PROVE  arrived'[p][i].from = p
    BY DEF RoutedToOwner
  <2>1. CASE p # o
    BY <2>1, <1>8, <1>1 DEF IInv, TypeOK, RoutedToOwner
  <2>2. CASE p = o
    <3>1. arrived'[p] = Append(arrived[o], Scan(d))
      BY <2>2, <1>1, <1>8 DEF IInv, TypeOK
    <3> HIDE DEF o
    <3> QED
      BY <3>1, <2>2, <1>1, <1>8, AppendProperties DEF IInv, RoutedToOwner
  <2> QED
    BY <2>1, <2>2
<1> QED
  BY <1>6, <1>7, <1>9, <1>10, ReturnKeeps DEF Enqueue

-----------------------------------------------------------------------------
LEMMA StepHolds == IInv /\ [Next]_vars => IInv'
<1> SUFFICES ASSUME IInv, [Next]_vars PROVE IInv'
  OBVIOUS
<1>1. CASE UNCHANGED vars
  BY <1>1 DEF vars, setup, buffer, callback, IInv, TypeOK, OwnHandles, Registered, Heard,
              InCallback, RoutedToOwner, Exists
<1>2. CASE Next
  BY <1>2, CreateKeeps, SetupKeeps, RegisterFailsKeeps, DeregisterKeeps, QuiescedKeeps,
     UnregisterKeeps, FreeKeeps, PollKeeps, NotifyKeeps, FindKeeps, ConvertKeeps,
     UnreadableKeeps, EnqueueKeeps DEF Next
<1> QED
  BY <1>1, <1>2

LEMMA Invariant == Spec => []IInv
BY InitHolds, StepHolds, PTL DEF Spec

-----------------------------------------------------------------------------
(* The type invariant, with the bound on the queue                          *)
(* (sick_scan_source.cpp:187-191).                                          *)
THEOREM SourceTypes == Spec => []TypeOK
<1>1. IInv => TypeOK
  BY DEF IInv
<1> QED
  BY <1>1, Invariant, PTL

(* sick_scan_source.cpp:140-153: no callback works on a destroyed source.   *)
THEOREM CallbacksFindTheLiving == Spec => []NoUseAfterFree
<1>1. IInv => NoUseAfterFree
  BY DEF IInv, InCallback, NoUseAfterFree, Exists
<1> QED
  BY <1>1, Invariant, PTL

(* sick_scan_source.cpp:167-177: clouds go to the source of their handle,   *)
(* also when handles are given out again.                                   *)
THEOREM CloudsReachTheirOwner == Spec => []RoutedToOwner
<1>1. IInv => RoutedToOwner
  BY DEF IInv
<1> QED
  BY <1>1, Invariant, PTL

-----------------------------------------------------------------------------
(* The bounded queue.                                                      *)

(* A sequence is the end of another if it agrees with it from the back.     *)
LEMMA IsLast ==
  ASSUME NEW S, NEW s \in Seq(S), NEW q \in Seq(S), Len(q) <= Len(s)
  PROVE  q = Last(Len(q), s) <=> \A i \in 1..Len(q) : q[i] = s[Len(s) - Len(q) + i]
<1> DEFINE m == Len(s) - Len(q) + 1
           t == SubSeq(s, m, Len(s))
<1>1. Len(s) \in Nat /\ Len(q) \in Nat
  BY LenProperties
<1>2. m \in Int /\ Len(s) \in Int /\ (\A i \in m..Len(s) : s[i] \in S)
  BY <1>1, ElementOfSeq
<1>3. /\ t \in Seq(S)
      /\ Len(t) = IF m <= Len(s) THEN Len(s) - m + 1 ELSE 0
      /\ \A i \in 1..(Len(s) - m + 1) : t[i] = s[m + i - 1]
  BY <1>2, SubSeqProperties
<1>4. Last(Len(q), s) = t
  BY DEF Last
<1> HIDE DEF t
<1>5. Len(t) = Len(q) /\ \A i \in 1..Len(q) : t[i] = s[Len(s) - Len(q) + i]
  BY <1>1, <1>3
<1> QED
  BY <1>1, <1>3, <1>4, <1>5, SeqEqual

(* IsLast, element by element, and with q the shorter.                      *)
Ends(q, s) ==
  /\ Len(q) <= Len(s)
  /\ \A i \in 1..Len(q) : q[i] = s[Len(s) - Len(q) + i]

LEMMA TailEnds ==
  ASSUME NEW S, NEW s \in Seq(S), NEW q \in Seq(S), q # << >>, Ends(q, s)
  PROVE  /\ Tail(q) \in Seq(S) /\ Len(Tail(q)) = Len(q) - 1
         /\ Ends(Tail(q), s)
<1>1. PICK t \in Seq(S) : t = Tail(q)
  BY HeadTailProperties
<1>2. PICK n \in Nat, m \in Nat : n = Len(q) /\ m = Len(s)
  BY LenProperties
<1>3. Len(t) = n - 1 /\ \A i \in 1..(n - 1) : t[i] = q[i + 1]
  BY <1>1, <1>2, HeadTailProperties
<1>4. n <= m /\ \A i \in 1..n : q[i] = s[m - n + i]
  BY <1>2 DEF Ends
<1>5. ASSUME NEW i \in 1..(n - 1) PROVE t[i] = s[m - (n - 1) + i]
  <2>1. i + 1 \in 1..n /\ m - n + (i + 1) = m - (n - 1) + i
    OBVIOUS
  <2> QED
    BY <1>3, <1>4, <2>1
<1>6. Ends(t, s)
  BY <1>2, <1>3, <1>4, <1>5 DEF Ends
<1> QED
  BY <1>1, <1>2, <1>3, <1>6

LEMMA AppendEnds ==
  ASSUME NEW S, NEW s \in Seq(S), NEW q \in Seq(S), NEW c \in S, Ends(q, s)
  PROVE  /\ Append(q, c) \in Seq(S) /\ Len(Append(q, c)) = Len(q) + 1
         /\ Append(s, c) \in Seq(S) /\ Len(Append(s, c)) = Len(s) + 1
         /\ Ends(Append(q, c), Append(s, c))
<1>1. PICK t \in Seq(S), u \in Seq(S) : t = Append(q, c) /\ u = Append(s, c)
  BY AppendProperties
<1>2. PICK n \in Nat, m \in Nat : n = Len(q) /\ m = Len(s)
  BY LenProperties
<1>3. /\ Len(t) = n + 1 /\ t[n + 1] = c /\ \A i \in 1..n : t[i] = q[i]
      /\ Len(u) = m + 1 /\ u[m + 1] = c /\ \A i \in 1..m : u[i] = s[i]
  BY <1>1, <1>2, AppendProperties
<1>4. n <= m /\ \A i \in 1..n : q[i] = s[m - n + i]
  BY <1>2 DEF Ends
<1>5. ASSUME NEW i \in 1..(n + 1) PROVE t[i] = u[(m + 1) - (n + 1) + i]
  <2>1. (m + 1) - (n + 1) + i = m - n + i
    OBVIOUS
  <2>2. CASE i = n + 1
    <3>1. m - n + i = m + 1
      BY <2>2
    <3> QED
      BY <1>3, <2>1, <2>2, <3>1
  <2>3. CASE i \in 1..n
    <3>1. m - n + i \in 1..m
      BY <1>4, <2>3
    <3> QED
      BY <1>3, <1>4, <2>1, <2>3, <3>1
  <2> QED
    BY <2>2, <2>3
<1>6. Ends(t, u)
  BY <1>2, <1>3, <1>4, <1>5 DEF Ends
<1> QED
  BY <1>1, <1>2, <1>3, <1>6

(* NewestAreKept, in these terms.                                          *)
Newest(o) ==
  /\ Ends(queue[o], arrived[o])
  /\ polled[o] + dropped[o] + Len(queue[o]) = Len(arrived[o])

KInv == \A o \in Objects : Newest(o)

LEMMA PollKeepsNewest ==
  ASSUME IInv, KInv, NEW o \in Objects, Poll(o)
  PROVE  KInv'
<1>1. PICK q \in Seq(Cloud), s \in Seq(Cloud), g \in Nat, l \in Nat :
        queue[o] = q /\ arrived[o] = s /\ polled[o] = g /\ dropped[o] = l
  BY DEF IInv, TypeOK
<1>2. q # << >> /\ Ends(q, s) /\ g + l + Len(q) = Len(s) /\ Len(q) \in Nat
  BY <1>1, LenProperties DEF Poll, KInv, Newest
<1>3. Len(Tail(q)) = Len(q) - 1 /\ Ends(Tail(q), s)
  BY <1>2, TailEnds
<1>4. (g + 1) + l + (Len(q) - 1) = Len(s)
  BY <1>2
<1>5. /\ queue' = [queue EXCEPT ![o] = Tail(queue[o])]
      /\ polled' = [polled EXCEPT ![o] = polled[o] + 1]
      /\ UNCHANGED <<dropped, arrived>>
  BY DEF Poll
<1>6. queue'[o] = Tail(q) /\ polled'[o] = g + 1 /\ dropped'[o] = l /\ arrived'[o] = s
  BY <1>1, <1>5 DEF IInv, TypeOK
<1>7. Newest(o)'
  BY <1>3, <1>4, <1>6 DEF Newest
<1>8. ASSUME NEW p \in Objects, p # o PROVE Newest(p)'
  <2>1. queue'[p] = queue[p] /\ polled'[p] = polled[p] /\ dropped' = dropped /\ arrived' = arrived
    BY <1>5, <1>8 DEF IInv, TypeOK
  <2>2. Newest(p)
    BY DEF KInv
  <2> QED
    BY <2>1, <2>2 DEF Newest
<1> QED
  BY <1>7, <1>8 DEF KInv

LEMMA EnqueueKeepsNewest ==
  ASSUME IInv, KInv, NEW d \in Drivers, Enqueue(d)
  PROVE  KInv'
<1>0. self[d] \in Objects /\ Scan(d) \in Cloud
  BY DEF IInv, Enqueue, InCallback, TypeOK, Scan, Cloud
<1>1. PICK o \in Objects, c \in Cloud : o = self[d] /\ c = Scan(d)
  BY <1>0
<1>2. PICK q \in Seq(Cloud), s \in Seq(Cloud), g \in Nat, l \in Nat :
        queue[o] = q /\ arrived[o] = s /\ polled[o] = g /\ dropped[o] = l
  BY DEF IInv, TypeOK
<1>3. Ends(q, s) /\ g + l + Len(q) = Len(s) /\ Len(q) \in Nat
  BY <1>2, LenProperties DEF KInv, Newest
<1>4. PICK r \in Seq(Cloud), k \in Nat :
        /\ r = IF Len(q) >= QueueCapacity THEN Tail(q) ELSE q
        /\ k = IF Len(q) >= QueueCapacity THEN l + 1 ELSE l
        /\ Ends(r, s) /\ Len(r) \in Nat /\ g + k + Len(r) = Len(s)
  <2>1. CASE Len(q) >= QueueCapacity
    <3>1. q # << >>
      BY <1>3, <2>1, SourceAssumption, EmptySeq
    <3>2. Tail(q) \in Seq(Cloud) /\ Len(Tail(q)) = Len(q) - 1 /\ Ends(Tail(q), s)
      BY <1>3, <3>1, TailEnds
    <3>3. g + (l + 1) + (Len(q) - 1) = Len(s) /\ Len(Tail(q)) \in Nat /\ l + 1 \in Nat
      BY <1>3, <3>2, LenProperties
    <3> QED
      BY <2>1, <3>2, <3>3
  <2>2. CASE ~(Len(q) >= QueueCapacity)
    BY <1>3, <2>2
  <2> QED
    BY <2>1, <2>2
<1>5. Ends(r, s) /\ Len(r) \in Nat /\ g + k + Len(r) = Len(s)
  BY <1>4
<1>6. /\ Len(Append(r, c)) = Len(r) + 1 /\ Len(Append(s, c)) = Len(s) + 1
      /\ Ends(Append(r, c), Append(s, c))
  BY <1>5, AppendEnds
<1>7. g + k + (Len(r) + 1) = Len(s) + 1
  BY <1>5
<1>8. /\ queue' = [queue EXCEPT ![o] = Append(r, c)]
      /\ dropped' = [dropped EXCEPT ![o] = k]
      /\ arrived' = [arrived EXCEPT ![o] = Append(s, c)]
      /\ UNCHANGED polled
  BY <1>1, <1>2, <1>4 DEF Enqueue
<1>9. /\ queue'[o] = Append(r, c) /\ dropped'[o] = k
      /\ arrived'[o] = Append(s, c) /\ polled'[o] = g
  BY <1>2, <1>8 DEF IInv, TypeOK
<1>10. Newest(o)'
  BY <1>6, <1>9, <1>7 DEF Newest
<1>11. ASSUME NEW p \in Objects, p # o PROVE Newest(p)'
  <2>1. queue'[p] = queue[p] /\ polled' = polled /\ dropped'[p] = dropped[p] /\ arrived'[p] = arrived[p]
    BY <1>8, <1>11 DEF IInv, TypeOK
  <2>2. Newest(p)
    BY DEF KInv
  <2> QED
    BY <2>1, <2>2 DEF Newest
<1> QED
  BY <1>10, <1>11 DEF KInv

(* What is polled and what is dropped leaves at the front, in order.        *)
THEOREM QueueKeepsTheNewest == Spec => []NewestAreKept
<1>1. Init => KInv
  BY DEF Init, KInv, Newest, Ends
<1>2. ASSUME IInv, KInv, [Next]_vars PROVE KInv'
  <2>1. ASSUME UNCHANGED <<queue, dropped, arrived, polled>> PROVE KInv'
    BY <1>2, <2>1 DEF KInv, Newest
  <2>2. ASSUME NEW o \in Objects,
               Create(o) \/ Register(o) \/ RegisterFails(o) \/ InitDriver(o)
               \/ InitFailsOrDestroy(o) \/ Deregister(o) \/ Quiesced(o) \/ Unregister(o)
               \/ Free(o) \/ (\E d \in Drivers : Notify(d, o))
        PROVE  KInv'
    BY <2>1, <2>2 DEF Create, Register, RegisterFails, InitDriver, InitFailsOrDestroy, Deregister,
       Quiesced, Unregister, Free, Notify, buffer
  <2>3. ASSUME NEW d \in Drivers, Find(d) \/ Convert(d) \/ Unreadable(d)
        PROVE  KInv'
    BY <2>1, <2>3 DEF Find, Convert, Unreadable, buffer
  <2>4. ASSUME UNCHANGED vars PROVE KInv'
    BY <2>1, <2>4 DEF vars, buffer
  <2> QED
    BY <1>2, <2>2, <2>3, <2>4, PollKeepsNewest, EnqueueKeepsNewest DEF Next
<1>3. IInv /\ KInv => NewestAreKept
  <2> SUFFICES ASSUME IInv, KInv, NEW o \in Objects
               PROVE  /\ queue[o] = Last(Len(queue[o]), arrived[o])
                      /\ polled[o] + dropped[o] + Len(queue[o]) = Len(arrived[o])
    BY DEF NewestAreKept
  <2>1. queue[o] \in Seq(Cloud) /\ arrived[o] \in Seq(Cloud)
    BY DEF IInv, TypeOK
  <2>2. /\ polled[o] + dropped[o] + Len(queue[o]) = Len(arrived[o])
        /\ Ends(queue[o], arrived[o])
    BY DEF KInv, Newest
  <2>3. queue[o] = Last(Len(queue[o]), arrived[o])
    BY <2>1, <2>2, IsLast DEF Ends
  <2> QED
    BY <2>2, <2>3
<1> QED
  BY <1>1, <1>2, <1>3, Invariant, PTL DEF Spec

-----------------------------------------------------------------------------
(* The scan times.                                                         *)

(* A time that is reported is a plausible difference of two stamps of the   *)
(* connection among those it delivered.                                     *)
Plausible(o, t, m, delivered) ==
  t > 0 => t <= MaxPlausible /\ \E n \in 1..delivered : Stamp[o][m] - Stamp[o][n] = t

TimesInv ==
  /\ \A o \in Objects :
       /\ last_stamp[o] = 0 \/ \E n \in 1..sensed[o] : Stamp[o][n] = last_stamp[o]
       /\ \A i \in 1..Len(arrived[o]) : Plausible(o, arrived[o][i].time, arrived[o][i].msg, sensed[o])
  /\ \A d \in Drivers :
       /\ at[d] # "idle" => msg[d] <= sensed[from[d]]
       /\ at[d] = "converted" => Plausible(self[d], time[d], msg[d], sensed[self[d]])

(* More clouds, and a callback that has come to its end, leave all that was *)
(* said of the times before.                                                *)
LEMMA TimesStay ==
  ASSUME IInv, TimesInv, sensed' \in [Objects -> 0..MaxMsgs],
         \A o \in Objects : sensed[o] <= sensed'[o],
         UNCHANGED <<last_stamp, arrived>>,
         \A d \in Drivers : at'[d] # "idle" /\ ~(msg'[d] <= sensed'[from'[d]] /\ at'[d] # "converted")
            => /\ at[d] # "idle" /\ from'[d] = from[d] /\ msg'[d] = msg[d]
               /\ at'[d] = "converted" => at[d] = "converted" /\ self'[d] = self[d] /\ time'[d] = time[d]
  PROVE  TimesInv'
<1>1. \A o \in Objects : sensed[o] \in Nat /\ sensed'[o] \in Nat /\ 1..sensed[o] \subseteq 1..sensed'[o]
  BY SourceAssumption DEF IInv, TypeOK
<1>2. ASSUME NEW o \in Objects, NEW t, NEW m, Plausible(o, t, m, sensed[o])
      PROVE  Plausible(o, t, m, sensed'[o])
  BY <1>1, <1>2 DEF Plausible
<1>3. ASSUME NEW o \in Objects
      PROVE  /\ last_stamp'[o] = 0 \/ \E n \in 1..sensed'[o] : Stamp[o][n] = last_stamp'[o]
             /\ \A i \in 1..Len(arrived'[o]) : Plausible(o, arrived'[o][i].time, arrived'[o][i].msg, sensed'[o])
  BY <1>1, <1>2 DEF TimesInv
<1>4. ASSUME NEW d \in Drivers
      PROVE  /\ at'[d] # "idle" => msg'[d] <= sensed'[from'[d]]
             /\ at'[d] = "converted" => Plausible(self'[d], time'[d], msg'[d], sensed'[self'[d]])
  <2>1. CASE at'[d] # "idle" /\ ~(msg'[d] <= sensed'[from'[d]] /\ at'[d] # "converted")
    <3>1. /\ from[d] \in Objects /\ msg[d] \in Nat /\ msg[d] <= sensed[from[d]]
          /\ at[d] # "called" => self[d] \in Objects
      BY <2>1, SourceAssumption DEF IInv, InCallback, TimesInv, Msgs
    <3>2. msg'[d] <= sensed'[from'[d]]
      BY <1>1, <2>1, <3>1
    <3>3. at'[d] = "converted" => Plausible(self[d], time[d], msg[d], sensed'[self[d]])
      BY <1>2, <2>1, <3>1 DEF TimesInv
    <3> QED
      BY <2>1, <3>2, <3>3
  <2> QED
    BY <2>1
<1> QED
  BY <1>3, <1>4 DEF TimesInv

LEMMA ConvertKeepsTimes ==
  ASSUME IInv, TimesInv, NEW d \in Drivers, Convert(d)
  PROVE  TimesInv'
<1>0. self[d] \in Objects /\ from[d] = self[d] /\ msg[d] \in Msgs
  BY DEF Convert, IInv, TypeOK, InCallback
<1>1. PICK o \in Objects, k \in Msgs : o = self[d] /\ k = msg[d]
  BY <1>0
<1> DEFINE stamp == Stamp[o][k]
           t     == ScanTime(last_stamp[o], stamp)
<1>2. /\ from[d] = o /\ k \in 1..sensed[o]
      /\ stamp \in Nat \ {0} /\ last_stamp[o] \in Nat /\ sensed[o] \in Nat
  <2>1. from[d] = o /\ at[d] # "idle" /\ msg[d] = k
    BY <1>0, <1>1 DEF Convert
  <2>2. msg[d] <= sensed[from[d]]
    BY <2>1 DEF TimesInv
  <2>3. stamp \in Nat \ {0}
    BY SourceAssumption
  <2>4. last_stamp[o] \in Nat /\ sensed[o] \in Nat
    BY SourceAssumption DEF IInv, TypeOK
  <2>5. k \in Nat \ {0}
    BY SourceAssumption DEF Msgs
  <2> QED
    BY <2>1, <2>2, <2>3, <2>4, <2>5
<1>3. /\ time' = [time EXCEPT ![d] = t]
      /\ last_stamp' = [last_stamp EXCEPT ![o] = stamp]
      /\ at' = [at EXCEPT ![d] = "converted"]
      /\ UNCHANGED <<arrived, sensed, from, msg, self>>
  BY <1>1, <1>2 DEF Convert, Goto
<1>4. /\ t \in Nat
      /\ Plausible(o, t, k, sensed[o])
  <2>1. t \in Nat /\ (t > 0 => last_stamp[o] > 0 /\ t = stamp - last_stamp[o] /\ t <= MaxPlausible)
    BY <1>2, SourceAssumption DEF ScanTime
  <2>2. last_stamp[o] > 0 => \E n \in 1..sensed[o] : Stamp[o][n] = last_stamp[o]
    BY <1>2 DEF TimesInv
  <2> QED
    BY <2>1, <2>2 DEF Plausible
<1> HIDE DEF t
<1>5. ASSUME NEW p \in Objects
      PROVE  /\ last_stamp'[p] = 0 \/ \E n \in 1..sensed'[p] : Stamp[p][n] = last_stamp'[p]
             /\ \A i \in 1..Len(arrived'[p]) :
                  Plausible(p, arrived'[p][i].time, arrived'[p][i].msg, sensed'[p])
  <2>1. last_stamp'[p] = IF p = o THEN stamp ELSE last_stamp[p]
    BY <1>3 DEF IInv, TypeOK
  <2> QED
    BY <1>2, <1>3, <2>1 DEF TimesInv
<1>6. ASSUME NEW e \in Drivers
      PROVE  /\ at'[e] # "idle" => msg'[e] <= sensed'[from'[e]]
             /\ at'[e] = "converted" =>
                  Plausible(self'[e], time'[e], msg'[e], sensed'[self'[e]])
  <2>1. CASE e = d
    <3>1. time'[e] = t
      BY <1>3, <2>1 DEF IInv, TypeOK
    <3> QED
      BY <1>1, <1>2, <1>3, <1>4, <2>1, <3>1
  <2>2. CASE e # d
    <3>1. at'[e] = at[e] /\ time'[e] = time[e]
      BY <1>3, <2>2 DEF IInv, TypeOK
    <3> QED
      BY <1>3, <3>1 DEF TimesInv
  <2> QED
    BY <2>1, <2>2
<1> QED
  BY <1>5, <1>6 DEF TimesInv

LEMMA EnqueueKeepsTimes ==
  ASSUME IInv, TimesInv, NEW d \in Drivers, Enqueue(d)
  PROVE  TimesInv'
<1>0. self[d] \in Objects /\ Scan(d) \in Cloud
  BY DEF IInv, Enqueue, InCallback, TypeOK, Scan, Cloud
<1>1. PICK o \in Objects, c \in Cloud : o = self[d] /\ c = Scan(d)
  BY <1>0
<1>3. c.time = time[d] /\ c.msg = msg[d] /\ arrived[o] \in Seq(Cloud)
  BY <1>1 DEF Scan, IInv, TypeOK
<1>2. /\ arrived' = [arrived EXCEPT ![o] = Append(arrived[o], c)]
      /\ at' = [at EXCEPT ![d] = "idle"]
      /\ from' = [from EXCEPT ![d] = Nobody]
      /\ msg' = [msg EXCEPT ![d] = 0]
      /\ self' = [self EXCEPT ![d] = Nobody]
      /\ time' = [time EXCEPT ![d] = 0]
      /\ UNCHANGED <<last_stamp, sensed>>
  BY <1>1 DEF Enqueue, Return, Goto, setup
<1>4. Plausible(o, c.time, c.msg, sensed[o])
  BY <1>1, <1>3 DEF Enqueue, TimesInv
<1>5. ASSUME NEW p \in Objects, NEW i \in 1..Len(arrived'[p])
      PROVE  Plausible(p, arrived'[p][i].time, arrived'[p][i].msg, sensed'[p])
  <2>1. CASE p = o
    <3>1. arrived'[p] = Append(arrived[o], c)
      BY <1>2, <2>1 DEF IInv, TypeOK
    <3>2. /\ Len(arrived'[p]) = Len(arrived[o]) + 1 /\ Len(arrived[o]) \in Nat
          /\ arrived'[p][Len(arrived[o]) + 1] = c
          /\ \A j \in 1..Len(arrived[o]) : arrived'[p][j] = arrived[o][j]
      BY <1>3, <3>1, AppendProperties, LenProperties
    <3>3. CASE i = Len(arrived[o]) + 1
      BY <1>2, <1>4, <2>1, <3>2, <3>3
    <3>4. CASE i \in 1..Len(arrived[o])
      BY <1>2, <2>1, <3>2, <3>4 DEF TimesInv
    <3> QED
      BY <3>2, <3>3, <3>4
  <2>2. CASE p # o
    <3>1. arrived'[p] = arrived[p]
      BY <1>2, <2>2 DEF IInv, TypeOK
    <3> QED
      BY <1>2, <3>1 DEF TimesInv
  <2> QED
    BY <2>1, <2>2
<1>6. ASSUME NEW e \in Drivers
      PROVE  /\ at'[e] # "idle" => msg'[e] <= sensed'[from'[e]]
             /\ at'[e] = "converted" => Plausible(self'[e], time'[e], msg'[e], sensed'[self'[e]])
  <2>1. CASE e = d
    BY <1>2, <2>1 DEF IInv, TypeOK
  <2>2. CASE e # d
    <3>1. /\ at'[e] = at[e] /\ time'[e] = time[e] /\ msg'[e] = msg[e]
          /\ from'[e] = from[e] /\ self'[e] = self[e]
      BY <1>2, <2>2 DEF IInv, TypeOK
    <3> QED
      BY <1>2, <3>1 DEF TimesInv
  <2> QED
    BY <2>1, <2>2
<1> QED
  BY <1>2, <1>5, <1>6 DEF TimesInv

(* The stamp taken over with the exchange is one the connection delivered,  *)
(* and the lookup led to the source of that connection.                     *)
THEOREM TimesArePlausible == Spec => []ScanTimesPlausible
<1>1. Init => TimesInv
  BY DEF Init, TimesInv
<1>2. ASSUME IInv, TimesInv, [Next]_vars PROVE TimesInv'
  <2>1. sensed \in [Objects -> 0..MaxMsgs] /\ \A o \in Objects : sensed[o] <= sensed[o]
    BY <1>2, SourceAssumption DEF IInv, TypeOK
  <2>2. ASSUME UNCHANGED <<sensed, last_stamp, arrived, callback>> PROVE TimesInv'
    BY <1>2, <2>1, <2>2, TimesStay DEF callback
  <2>3. ASSUME NEW o \in Objects,
               Create(o) \/ Register(o) \/ RegisterFails(o) \/ InitDriver(o)
               \/ InitFailsOrDestroy(o) \/ Deregister(o) \/ Quiesced(o) \/ Unregister(o)
               \/ Free(o) \/ Poll(o)
        PROVE  TimesInv'
    BY <2>2, <2>3 DEF Create, Register, RegisterFails, InitDriver, InitFailsOrDestroy, Deregister,
       Quiesced, Unregister, Free, Poll, buffer
  <2>4. ASSUME NEW d \in Drivers, NEW o \in Objects, Notify(d, o) PROVE TimesInv'
    <3>1. /\ sensed' \in [Objects -> 0..MaxMsgs] /\ \A p \in Objects : sensed[p] <= sensed'[p]
          /\ sensed'[o] = sensed[o] + 1
      BY <1>2, <2>4, SourceAssumption DEF Notify, IInv, TypeOK
    <3>2. /\ at' = [at EXCEPT ![d] = "called"]
          /\ from' = [from EXCEPT ![d] = o]
          /\ msg' = [msg EXCEPT ![d] = sensed[o] + 1]
          /\ UNCHANGED <<last_stamp, arrived, self, time>>
      BY <2>4 DEF Notify, Goto, buffer
    <3>3. /\ at'[d] = "called" /\ from'[d] = o /\ msg'[d] = sensed[o] + 1
          /\ \A e \in Drivers : e # d => at'[e] = at[e] /\ from'[e] = from[e] /\ msg'[e] = msg[e]
      BY <1>2, <3>2 DEF IInv, TypeOK
    <3>4. msg'[d] <= sensed'[from'[d]]
      BY <1>2, <3>1, <3>3, SourceAssumption DEF IInv, TypeOK
    <3> QED
      BY <1>2, <3>1, <3>2, <3>3, <3>4, TimesStay
  <2>5. ASSUME NEW d \in Drivers, Find(d) \/ Unreadable(d) PROVE TimesInv'
    <3>1. UNCHANGED <<sensed, last_stamp, arrived>>
      BY <2>5 DEF Find, Unreadable, buffer
    <3>2. \A e \in Drivers :
            \/ at'[e] = "idle"
            \/ at'[e] = "found" /\ from'[e] = from[e] /\ msg'[e] = msg[e] /\ at[e] # "idle"
            \/ /\ at'[e] = at[e] /\ from'[e] = from[e] /\ msg'[e] = msg[e]
               /\ self'[e] = self[e] /\ time'[e] = time[e]
      BY <1>2, <2>5 DEF Find, Unreadable, Return, Goto, IInv, TypeOK
    <3> QED
      BY <1>2, <2>1, <3>1, <3>2, TimesStay
  <2>6. ASSUME UNCHANGED vars PROVE TimesInv'
    BY <2>2, <2>6 DEF vars, buffer
  <2> QED
    BY <1>2, <2>3, <2>4, <2>5, <2>6, ConvertKeepsTimes, EnqueueKeepsTimes DEF Next
<1>3. TimesInv => ScanTimesPlausible
  BY DEF TimesInv, Plausible, ScanTimesPlausible
<1> QED
  BY <1>1, <1>2, <1>3, Invariant, PTL DEF Spec
=============================================================================
