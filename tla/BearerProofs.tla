---------------------------- MODULE BearerProofs ----------------------------
(* What the bearer's arithmetic guarantees for every bit rate, distance,    *)
(* frame size, deadline and way of advancing the clock.                     *)
EXTENDS LoopbackBearer, SequenceTheorems, FiniteSetTheorems, TLAPS

(* CeilDiv is a natural number, and never short of the quotient.            *)
LEMMA CeilDivCovers ==
  ASSUME NEW n \in Nat, NEW d \in Nat \ {0}
  PROVE  CeilDiv(n, d) \in Nat /\ CeilDiv(n, d) * d >= n
<1> DEFINE a == n + d - 1
           q == a \div d
<1>1. a \in Nat
  OBVIOUS
<1>2. q \in Int /\ a % d \in Int /\ 0 <= a % d /\ a % d < d
  BY <1>1
<1>3. a = d * q + (a % d)
  BY <1>1
<1> HIDE DEF q
<1>4. d * q >= n
  BY <1>2, <1>3
<1>5. q >= 0
  BY <1>2, <1>4
<1>6. CeilDiv(n, d) = q
  BY DEF CeilDiv, q
<1>7. QED
  BY <1>2, <1>4, <1>5, <1>6

(* A frame's time on the channel is enough for its bits.                    *)
LEMMA SerializationCovers ==
  ASSUME NEW size \in Nat
  PROVE  /\ Serialization(size) \in Nat
         /\ Serialization(size) * BitsPerSecond >= size * 8 * NsPerSecond
<1>1. size * 8 * NsPerSecond \in Nat
  BY BearerAssumption
<1>2. QED
  BY <1>1, CeilDivCovers, BearerAssumption DEF Serialization

(* More time carries more bits.                                             *)
LEMMA Longer ==
  ASSUME NEW a \in Int, NEW b \in Int, NEW c \in Nat, a >= b
  PROVE  a * c >= b * c
<1>1. (a - b) * c >= 0
  OBVIOUS
<1>2. (a - b) * c = a * c - b * c
  OBVIOUS
<1>3. a * c \in Int /\ b * c \in Int
  OBVIOUS
<1> QED
  BY <1>1, <1>2, <1>3

-----------------------------------------------------------------------------
(* When a frame has left, by the time that offer() computes for it.         *)
Left(f) == f.sent_at + Serialization(f.size)

(* Frames leave one after the other, the channel being busy till the last   *)
(* of them has, and each arrives when it has crossed, by its deadline.      *)
Schedule ==
  /\ \A i \in 1..Len(taken) :
       /\ Left(taken[i]) <= channel_free_at
       /\ taken[i].arrives_at = Left(taken[i]) + Propagation
       /\ taken[i].arrives_at <= taken[i].deadline
  /\ \A i, j \in 1..Len(taken) : i < j => Left(taken[i]) <= taken[j].sent_at

IInv == TypeOK /\ Schedule

LEMMA LeftIsNat ==
  ASSUME NEW f, f.size \in Nat, f.sent_at \in Nat
  PROVE  Left(f) \in Nat
<1>1. Serialization(f.size) \in Nat
  BY SerializationCovers
<1> QED
  BY <1>1 DEF Left

LEMMA InitSchedules == Init => IInv
BY DEF Init, IInv, TypeOK, Schedule

LEMMA Counted ==
  ASSUME IInv, NEW cs, Count(cs)
  PROVE  stats' \in [Counters -> Nat]
BY DEF IInv, TypeOK, Count

(* A step that takes no frame disturbs no schedule.                         *)
LEMMA IdleKeeps ==
  ASSUME IInv, now' \in Nat, stats' \in [Counters -> Nat], UNCHANGED <<channel_free_at, taken>>
  PROVE  IInv'
BY DEF IInv, TypeOK, Schedule, Left

(* The frame that offer() takes is scheduled after all the others.          *)
LEMMA TakeKeeps ==
  ASSUME IInv, NEW size \in Nat, NEW deadline \in Int, Take(size, deadline),
         stats' \in [Counters -> Nat], UNCHANGED now
  PROVE  IInv'
<1> DEFINE f == [size |-> size, deadline |-> deadline,
                 sent_at |-> now, arrives_at |-> Arrival(size)]
           n == Len(taken)
<1> USE BearerAssumption
<1>1. Serialization(size) \in Nat
  BY SerializationCovers
<1>2. Arrival(size) \in Nat
  BY <1>1 DEF Arrival, IInv, TypeOK
<1>3. f \in Frame
  BY <1>2 DEF Frame, IInv, TypeOK
<1>4. taken' = Append(taken, f) /\ channel_free_at' = now + Serialization(size)
  BY DEF Take
<1>5. Len(taken') = n + 1 /\ taken'[n + 1] = f /\ \A i \in 1..n : taken'[i] = taken[i]
  BY <1>3, <1>4 DEF TypeOK, IInv
<1>6. TypeOK'
  <2>1. taken' \in Seq(Frame) /\ channel_free_at' \in Nat /\ now' \in Nat
    BY <1>1, <1>3, <1>4 DEF TypeOK, IInv
  <2>2. f.size <= MaxFrameBytes
    BY DEF Take, TooLarge
  <2>3. n \in Nat /\ \A i \in 1..n : taken[i].size <= MaxFrameBytes
    BY DEF TypeOK, IInv
  <2>4. \A i \in 1..(n + 1) : taken'[i].size <= MaxFrameBytes
    BY <1>5, <2>2, <2>3
  <2> QED
    BY <1>5, <2>1, <2>4 DEF TypeOK
<1>7. channel_free_at <= now
  BY DEF Take, Busy, IInv, TypeOK
<1>8. Left(f) = channel_free_at' /\ f.arrives_at = Left(f) + Propagation /\ f.arrives_at <= f.deadline
  <2>1. Left(f) = now + Serialization(size)
    BY DEF Left
  <2>2. Arrival(size) <= deadline
    BY <1>2 DEF Take, Late
  <2> QED
    BY <2>1, <2>2, <1>4 DEF Arrival
<1>9. ASSUME NEW i \in 1..n
      PROVE  /\ Left(taken[i]) \in Nat
             /\ Left(taken[i]) <= channel_free_at'
             /\ Left(taken[i]) <= now
  <2>1. taken[i] \in Frame
    BY DEF IInv, TypeOK
  <2>2. taken[i].size \in Nat /\ taken[i].sent_at \in Nat
    BY <2>1 DEF Frame
  <2>3. Left(taken[i]) \in Nat
    BY <2>2, LeftIsNat
  <2>4. Left(taken[i]) <= channel_free_at
    BY DEF IInv, Schedule
  <2> QED
    BY <2>3, <2>4, <1>1, <1>4, <1>7 DEF IInv, TypeOK
<1> HIDE DEF f
<1>10. n \in Nat
  BY DEF IInv, TypeOK
<1>11. ASSUME NEW i \in 1..(n + 1)
       PROVE  /\ Left(taken'[i]) <= channel_free_at'
              /\ taken'[i].arrives_at = Left(taken'[i]) + Propagation
              /\ taken'[i].arrives_at <= taken'[i].deadline
  <2>1. CASE i = n + 1
    BY <2>1, <1>6, <1>5, <1>8 DEF TypeOK
  <2>2. CASE i \in 1..n
    BY <2>2, <1>5, <1>9 DEF IInv, Schedule
  <2> QED
    BY <2>1, <2>2, <1>10
<1>12. ASSUME NEW i \in 1..(n + 1), NEW j \in 1..(n + 1), i < j
       PROVE  Left(taken'[i]) <= taken'[j].sent_at
  <2>1. i \in 1..n
    BY <1>10, <1>12
  <2>2. CASE j = n + 1
    BY <2>1, <2>2, <1>5, <1>9 DEF f
  <2>3. CASE j \in 1..n
    BY <2>1, <2>3, <1>5, <1>12 DEF IInv, Schedule
  <2> QED
    BY <2>2, <2>3, <1>10
<1>13. Schedule'
  BY <1>5, <1>11, <1>12 DEF Schedule, Left
<1> QED
  BY <1>6, <1>13 DEF IInv

LEMMA StepKeeps == IInv /\ [Next]_vars => IInv'
<1> SUFFICES ASSUME IInv, [Next]_vars PROVE IInv'
  OBVIOUS
<1> USE BearerAssumption
<1>1. ASSUME NEW size \in Sizes, NEW deadline \in Deadlines, Refuse(size, deadline)
      PROVE  IInv'
  BY <1>1, IdleKeeps, Counted DEF Refuse, IInv, TypeOK
<1>2. ASSUME NEW size \in Sizes, NEW deadline \in Deadlines,
             Lose(size, deadline) \/ Carry(size, deadline)
      PROVE  IInv'
  BY <1>2, TakeKeeps, Counted DEF Lose, Carry
<1>3. ASSUME NEW ns \in Advances, Advance(ns)
      PROVE  IInv'
  <2>1. now' = now + ns /\ UNCHANGED <<stats, channel_free_at, taken>>
    BY <1>3 DEF Advance
  <2> QED
    BY <2>1, IdleKeeps DEF IInv, TypeOK
<1>4. CASE Drain
  BY <1>4, IdleKeeps DEF Drain, IInv, TypeOK
<1>5. CASE UNCHANGED vars
  BY <1>5, IdleKeeps DEF vars, IInv, TypeOK
<1> QED
  BY <1>1, <1>2, <1>3, <1>4, <1>5 DEF Next

LEMMA ScheduleHolds == Spec => []IInv
BY InitSchedules, StepKeeps, PTL DEF Spec

(* The types of a bearer, and the size limit of what it takes.             *)
THEOREM BearerTypes == Spec => []TypeOK
<1>1. IInv => TypeOK
  BY DEF IInv
<1> QED
  BY <1>1, ScheduleHolds, PTL

-----------------------------------------------------------------------------
(* The bits of a frame fit in the time between its start and its end.       *)
LEMMA BitsFit ==
  ASSUME TypeOK, NEW i \in 1..Len(taken), NEW end \in Int, Left(taken[i]) <= end
  PROVE  taken[i].size * 8 * NsPerSecond <= (end - taken[i].sent_at) * BitsPerSecond
<1> DEFINE f    == taken[i]
           s    == Serialization(f.size)
           bits == f.size * 8 * NsPerSecond
           gap  == end - f.sent_at
<1>1. f \in Frame
  BY DEF TypeOK
<1>2. f.size \in Nat /\ f.sent_at \in Nat
  BY <1>1 DEF Frame
<1>3. s \in Nat /\ s * BitsPerSecond >= bits
  BY <1>2, SerializationCovers
<1>4. gap \in Int /\ gap >= s
  BY <1>2, <1>3 DEF Left
<1>5. bits \in Int /\ BitsPerSecond \in Nat
  BY <1>2, BearerAssumption
<1> HIDE DEF bits, gap, s
<1>6. gap * BitsPerSecond >= s * BitsPerSecond
  BY <1>3, <1>4, <1>5, Longer
<1>7. s * BitsPerSecond \in Int /\ gap * BitsPerSecond \in Int
  BY <1>3, <1>4, <1>5
<1>8. bits <= gap * BitsPerSecond
  BY <1>3, <1>5, <1>6, <1>7
<1> QED
  BY <1>8 DEF bits, gap

(* acoustic_loopback.cpp:48-56: the channel carries one frame at a time,    *)
(* whatever the bit rate and however sizes and advances are chosen.         *)
THEOREM ChannelIsExclusive == Spec => []OneFrameAtATime
<1>1. IInv => OneFrameAtATime
  <2> SUFFICES ASSUME IInv, NEW i \in 1..Len(taken), NEW j \in 1..Len(taken), i < j
               PROVE  taken[i].size * 8 * NsPerSecond
                        <= (taken[j].sent_at - taken[i].sent_at) * BitsPerSecond
    BY DEF OneFrameAtATime
  <2>1. taken[j] \in Frame /\ taken[i] \in Frame
    BY DEF IInv, TypeOK
  <2>2. taken[j].sent_at \in Int /\ Left(taken[i]) <= taken[j].sent_at
    BY <2>1 DEF IInv, Schedule, Frame
  <2> QED
    BY <2>2, BitsFit DEF IInv
<1> QED
  BY <1>1, ScheduleHolds, PTL

(* acoustic_loopback.cpp:33-46: what is accepted has the time to be sent at *)
(* the bit rate and to cross before its deadline.                           *)
THEOREM AcceptedArrivesInTime == Spec => []ArrivesInTime
<1>1. IInv => ArrivesInTime
  <2> SUFFICES ASSUME IInv, NEW i \in 1..Len(taken)
               PROVE  /\ taken[i].size * 8 * NsPerSecond
                           <= (taken[i].arrives_at - taken[i].sent_at - Propagation) * BitsPerSecond
                      /\ taken[i].arrives_at <= taken[i].deadline
    BY DEF ArrivesInTime
  <2> DEFINE end == taken[i].arrives_at - Propagation
  <2>1. taken[i] \in Frame
    BY DEF IInv, TypeOK
  <2>2. /\ taken[i].size \in Nat /\ taken[i].sent_at \in Nat /\ taken[i].arrives_at \in Nat
    BY <2>1 DEF Frame
  <2>3. Left(taken[i]) \in Nat
    BY <2>2, LeftIsNat
  <2>4. end \in Int /\ Left(taken[i]) <= end
    BY <2>2, <2>3, BearerAssumption DEF IInv, Schedule
  <2>5. taken[i].size * 8 * NsPerSecond <= (end - taken[i].sent_at) * BitsPerSecond
    BY <2>4, BitsFit DEF IInv
  <2>6. end - taken[i].sent_at = taken[i].arrives_at - taken[i].sent_at - Propagation
    BY <2>2, BearerAssumption
  <2>7. taken[i].arrives_at <= taken[i].deadline
    BY DEF IInv, Schedule
  <2> QED
    BY <2>5, <2>6, <2>7
<1> QED
  BY <1>1, ScheduleHolds, PTL

-----------------------------------------------------------------------------
(* What is on its way, or arrived.                                         *)

Delivery == [frame : Nat, sent_at : Nat, arrives_at : Nat]

Seen   == drained \o delivered
OnLine == Seen \o in_flight

(* The frames accepted and not lost, in the order they were accepted in:    *)
(* those that arrived, and then those that did not.                        *)
Line ==
  /\ in_flight \in Seq(Delivery) /\ delivered \in Seq(Delivery) /\ drained \in Seq(Delivery)
  /\ \A i \in 1..Len(OnLine) :
       /\ OnLine[i].frame \in 1..Len(taken)
       /\ OnLine[i].arrives_at = taken[OnLine[i].frame].arrives_at
  /\ \A i, j \in 1..Len(OnLine) : i < j => OnLine[i].frame < OnLine[j].frame
  /\ \A i \in 1..Len(Seen) : Seen[i].arrives_at <= now
  /\ \A i \in 1..Len(in_flight) : now <= in_flight[i].arrives_at

(* Frames accepted one after the other arrive in that order.                *)
LEMMA ArrivalsOrdered ==
  ASSUME IInv, NEW i \in 1..Len(taken), NEW j \in 1..Len(taken), i < j
  PROVE  taken[i].arrives_at <= taken[j].arrives_at
<1> USE BearerAssumption
<1>1. taken[i] \in Frame /\ taken[j] \in Frame
  BY DEF IInv, TypeOK
<1>2. /\ taken[i].size \in Nat /\ taken[i].sent_at \in Nat
      /\ taken[j].size \in Nat /\ taken[j].sent_at \in Nat
  BY <1>1 DEF Frame
<1>3. Left(taken[i]) \in Nat /\ Left(taken[j]) \in Nat
  BY <1>2, LeftIsNat
<1>4. Left(taken[j]) >= taken[j].sent_at
  <2>1. Serialization(taken[j].size) \in Nat
    BY <1>2, SerializationCovers
  <2> QED
    BY <1>2, <2>1 DEF Left
<1>5. /\ Left(taken[i]) <= taken[j].sent_at
      /\ taken[i].arrives_at = Left(taken[i]) + Propagation
      /\ taken[j].arrives_at = Left(taken[j]) + Propagation
  BY DEF IInv, Schedule
<1> QED
  BY <1>2, <1>3, <1>4, <1>5

(* Positions that reach down to the first are the first ones.               *)
LEMMA Prefixes ==
  ASSUME NEW m \in Nat, NEW I \in SUBSET (1..m), \A i \in I : 1..i \subseteq I
  PROVE  Cardinality(I) \in Nat /\ I = 1..Cardinality(I)
<1>1. IsFiniteSet(1..m)
  BY FS_Interval
<1>2. IsFiniteSet(I)
  BY <1>1, FS_Subset
<1>3. PICK n \in Nat : n = Cardinality(I)
  BY <1>2, FS_CardinalityType
<1>4. ASSUME NEW i \in I PROVE i <= n
  <2>1. i \in Nat /\ i >= 1
    OBVIOUS
  <2>2. Cardinality(1..i) = i
    BY <2>1, FS_Interval
  <2>3. Cardinality(1..i) <= Cardinality(I)
    BY <1>2, FS_Subset
  <2> QED
    BY <1>3, <2>2, <2>3
<1>5. I \in SUBSET (1..n)
  BY <1>4
<1>6. IsFiniteSet(1..n) /\ Cardinality(1..n) = n
  BY FS_Interval
<1>7. I = 1..n
  BY <1>3, <1>5, <1>6, FS_Subset
<1> QED
  BY <1>3, <1>7

(* The members of q at the positions of an interval.                        *)
LEMMA InOrderOfInterval ==
  ASSUME NEW q, NEW a \in Nat, NEW b \in Nat, a <= b
  PROVE  InOrder(q, (a + 1)..b) = [k \in 1..(b - a) |-> q[a + k]]
<1> DEFINE I == (a + 1)..b
           below(i) == {j \in I : j <= i}
<1>1. Cardinality(I) = b - a
  <2>1. Cardinality((a + 1)..b) = IF a + 1 > b THEN 0 ELSE b - (a + 1) + 1
    BY FS_Interval
  <2> QED
    BY <2>1
<1>2. ASSUME NEW i \in I PROVE Cardinality(below(i)) = i - a
  <2>1. below(i) = (a + 1)..i
    OBVIOUS
  <2>2. Cardinality((a + 1)..i) = i - a
    BY FS_Interval
  <2> QED
    BY <2>1, <2>2
<1>3. ASSUME NEW k \in 1..(b - a)
      PROVE  (CHOOSE i \in I : Cardinality(below(i)) = k) = a + k
  <2>1. a + k \in I /\ \A i \in I : i - a = k <=> i = a + k
    OBVIOUS
  <2>2. \A i \in I : Cardinality(below(i)) = k <=> i = a + k
    BY <1>2, <2>1
  <2> HIDE DEF below, I
  <2> QED
    BY <2>1, <2>2
<1> DEFINE at(k) == CHOOSE i \in I : Cardinality(below(i)) = k
<1>4. InOrder(q, I) = [k \in 1..Cardinality(I) |-> q[at(k)]]
  BY DEF InOrder
<1>5. \A k \in 1..(b - a) : at(k) = a + k
  BY <1>3
<1> HIDE DEF at, I
<1>6. [k \in 1..(b - a) |-> q[at(k)]] = [k \in 1..(b - a) |-> q[a + k]]
  BY <1>5
<1> QED
  BY <1>1, <1>4, <1>6 DEF I

LEMMA InOrderOfFirst ==
  ASSUME NEW q, NEW b \in Nat
  PROVE  InOrder(q, 1..b) = [k \in 1..b |-> q[k]]
<1>1. ASSUME NEW a \in Nat, a = 0
      PROVE  InOrder(q, 1..b) = [k \in 1..b |-> q[k]]
  <2>1. a <= b
    BY <1>1
  <2>2. InOrder(q, (a + 1)..b) = [k \in 1..(b - a) |-> q[a + k]]
    BY <2>1, InOrderOfInterval
  <2>3. (a + 1)..b = 1..b /\ 1..(b - a) = 1..b /\ \A k \in 1..b : a + k = k
    BY <1>1
  <2>4. [k \in 1..b |-> q[a + k]] = [k \in 1..b |-> q[k]]
    BY <2>3
  <2> QED
    BY <2>2, <2>3, <2>4
<1> QED
  BY <1>1

(* A member of a concatenation is a member of one of its parts.             *)
LEMMA ConcatMember ==
  ASSUME NEW S, NEW s \in Seq(S), NEW t \in Seq(S), NEW i \in 1..Len(s \o t)
  PROVE  \/ i \in 1..Len(s) /\ (s \o t)[i] = s[i]
         \/ \E j \in 1..Len(t) : i = Len(s) + j /\ (s \o t)[i] = t[j]
<1>1. PICK l \in Nat : l = Len(s)
  OBVIOUS
<1>2. PICK m \in Nat : m = Len(t)
  OBVIOUS
<1>3. Len(s \o t) = l + m /\ (s \o t)[i] = IF i <= l THEN s[i] ELSE t[i - l]
  BY <1>1, <1>2, ConcatProperties
<1>4. CASE i <= l
  BY <1>1, <1>3, <1>4
<1>5. CASE i > l
  <2>1. i - l \in 1..m /\ i = l + (i - l) /\ (s \o t)[i] = t[i - l]
    BY <1>3, <1>5
  <2> QED
    BY <1>1, <1>2, <2>1
<1> QED
  BY <1>3, <1>4, <1>5

(* A sequence and its first n members, and the others.                      *)
LEMMA Parts ==
  ASSUME NEW S, NEW h \in Seq(S), NEW n \in 0..Len(h),
         NEW p, p = [k \in 1..n |-> h[k]],
         NEW r, r = [k \in 1..(Len(h) - n) |-> h[n + k]]
  PROVE  /\ p \in Seq(S) /\ Len(p) = n /\ \A k \in 1..n : p[k] = h[k]
         /\ r \in Seq(S) /\ Len(r) = Len(h) - n /\ \A k \in 1..Len(r) : r[k] = h[n + k]
         /\ p \o r = h
<1>1. PICK m \in Nat : m = Len(h)
  OBVIOUS
<1>2. n \in 0..m /\ m - n \in Nat
  BY <1>1
<1>3. \A k \in 1..m : h[k] \in S
  BY <1>1
<1>4. p \in [1..n -> S] /\ \A k \in 1..n : p[k] = h[k]
  BY <1>2, <1>3
<1>5. r \in [1..(m - n) -> S] /\ \A k \in 1..(m - n) : r[k] = h[n + k]
  BY <1>1, <1>2, <1>3
<1>6. p \in Seq(S) /\ Len(p) = n
  BY <1>2, <1>4, SeqDef
<1>7. PICK d \in Nat : d = m - n
  BY <1>2
<1>8. r \in Seq(S) /\ Len(r) = d
  BY <1>5, <1>7, SeqDef
<1>9. /\ p \o r \in Seq(S) /\ Len(p \o r) = m
      /\ \A i \in 1..m : (p \o r)[i] = IF i <= n THEN p[i] ELSE r[i - n]
  <2>1. /\ p \o r \in Seq(S) /\ Len(p \o r) = n + d
        /\ \A i \in 1..(n + d) : (p \o r)[i] = IF i <= n THEN p[i] ELSE r[i - n]
    BY <1>6, <1>8, ConcatProperties
  <2>2. n + d = m
    BY <1>2, <1>7
  <2> QED
    BY <2>1, <2>2
<1>10. ASSUME NEW i \in 1..m PROVE (p \o r)[i] = h[i]
  <2>1. CASE i <= n
    BY <1>4, <1>9, <2>1
  <2>2. CASE i > n
    <3>1. i - n \in 1..(m - n) /\ n + (i - n) = i
      BY <1>2, <2>2
    <3> QED
      BY <1>2, <1>5, <1>9, <2>2, <3>1
  <2>3. i <= n \/ i > n
    BY <1>2
  <2> QED
    BY <2>1, <2>2, <2>3
<1>11. p \o r = h
  BY <1>1, <1>9, <1>10, SeqEqual
<1> QED
  BY <1>1, <1>4, <1>5, <1>6, <1>7, <1>8, <1>11

-----------------------------------------------------------------------------
LEMMA LineOfParts ==
  ASSUME Line
  PROVE  /\ Seen \in Seq(Delivery) /\ OnLine \in Seq(Delivery)
         /\ Len(OnLine) \in Nat /\ Len(Seen) \in Nat /\ Len(in_flight) \in Nat
         /\ Len(OnLine) = Len(Seen) + Len(in_flight)
         /\ \A i \in 1..Len(Seen) : i \in 1..Len(OnLine) /\ OnLine[i] = Seen[i]
         /\ \A i \in 1..Len(in_flight) :
              Len(Seen) + i \in 1..Len(OnLine) /\ OnLine[Len(Seen) + i] = in_flight[i]
<1>1. Seen \in Seq(Delivery) /\ in_flight \in Seq(Delivery)
  BY ConcatProperties DEF Line, Seen
<1>2. PICK l \in Nat : l = Len(Seen)
  BY <1>1
<1>3. PICK m \in Nat : m = Len(in_flight)
  BY <1>1
<1>4. /\ OnLine \in Seq(Delivery) /\ Len(OnLine) = l + m
      /\ \A i \in 1..(l + m) : OnLine[i] = IF i <= l THEN Seen[i] ELSE in_flight[i - l]
  BY <1>1, <1>2, <1>3, ConcatProperties DEF OnLine
<1>5. \A i \in 1..l : i \in 1..(l + m) /\ OnLine[i] = Seen[i]
  BY <1>4
<1>6. ASSUME NEW i \in 1..m PROVE l + i \in 1..(l + m) /\ OnLine[l + i] = in_flight[i]
  <2>1. l + i \in 1..(l + m) /\ ~(l + i <= l) /\ (l + i) - l = i
    OBVIOUS
  <2> QED
    BY <1>4, <2>1
<1> QED
  BY <1>1, <1>2, <1>3, <1>4, <1>5, <1>6

(* What has not arrived arrives in the order it was accepted in.            *)
LEMMA FlightOrdered ==
  ASSUME IInv, Line
  PROVE  \A i, j \in 1..Len(OnLine) : i < j => OnLine[i].arrives_at <= OnLine[j].arrives_at
<1> SUFFICES ASSUME NEW i \in 1..Len(OnLine), NEW j \in 1..Len(OnLine), i < j
             PROVE  OnLine[i].arrives_at <= OnLine[j].arrives_at
  OBVIOUS
<1>1. /\ OnLine[i].frame \in 1..Len(taken) /\ OnLine[j].frame \in 1..Len(taken)
      /\ OnLine[i].frame < OnLine[j].frame
      /\ OnLine[i].arrives_at = taken[OnLine[i].frame].arrives_at
      /\ OnLine[j].arrives_at = taken[OnLine[j].frame].arrives_at
  BY DEF Line
<1> QED
  BY <1>1, ArrivalsOrdered

LEMMA AdvanceKeepsLine ==
  ASSUME IInv, Line, NEW ns \in Advances, Advance(ns)
  PROVE  Line'
<1> DEFINE h == in_flight
           ready == {i \in 1..Len(h) : h[i].arrives_at <= now + ns}
<1>1. /\ now' = now + ns /\ UNCHANGED <<drained, taken>>
      /\ delivered' = delivered \o InOrder(h, ready)
      /\ in_flight' = InOrder(h, (1..Len(h)) \ ready)
  BY DEF Advance
<1>2. PICK m \in Nat : m = Len(h)
  BY DEF Line
<1>3. h \in Seq(Delivery) /\ \A i \in 1..m : h[i].arrives_at \in Nat
  <2>1. h \in Seq(Delivery)
    BY DEF Line
  <2> HIDE DEF h
  <2>2. \A i \in 1..m : h[i] \in Delivery
    BY <1>2, <2>1
  <2> QED
    BY <2>1, <2>2 DEF Delivery
<1>4. PICK at \in Nat : at = now + ns
  BY BearerAssumption DEF IInv, TypeOK
<1>5. \A i, j \in 1..m : i < j => h[i].arrives_at <= h[j].arrives_at
  <2> SUFFICES ASSUME NEW i \in 1..m, NEW j \in 1..m, i < j
               PROVE  h[i].arrives_at <= h[j].arrives_at
    OBVIOUS
  <2>1. PICK l \in Nat : l = Len(Seen)
    BY LineOfParts
  <2>2. /\ l + i \in 1..Len(OnLine) /\ OnLine[l + i] = h[i]
        /\ l + j \in 1..Len(OnLine) /\ OnLine[l + j] = h[j]
    BY <1>2, <2>1, LineOfParts
  <2>3. l + i < l + j
    BY <2>1
  <2> QED
    BY <2>2, <2>3, FlightOrdered
<1>6. PICK n \in 0..m : ready = 1..n /\ (1..m) \ ready = (n + 1)..m
  <2>1. ready \in SUBSET (1..m)
    BY <1>2
  <2>2. \A i \in ready : 1..i \subseteq ready
    <3> SUFFICES ASSUME NEW i \in ready, NEW j \in 1..i PROVE j \in ready
      OBVIOUS
    <3>1. i \in 1..m /\ j \in 1..m /\ h[i].arrives_at <= at
      BY <1>2, <1>4
    <3>2. h[j].arrives_at <= h[i].arrives_at
      BY <1>3, <1>5, <3>1
    <3> QED
      BY <1>2, <1>3, <1>4, <3>1, <3>2
  <2> HIDE DEF ready
  <2>3. PICK n \in Nat : ready = 1..n
    BY <2>1, <2>2, Prefixes
  <2>4. n <= m
    BY <2>1, <2>3
  <2>5. (1..m) \ (1..n) = (n + 1)..m
    BY <2>4
  <2> QED
    BY <2>3, <2>4, <2>5
<1>7. PICK p, r :
        /\ p = InOrder(h, ready) /\ p = [k \in 1..n |-> h[k]]
        /\ r = InOrder(h, (1..m) \ ready) /\ r = [k \in 1..(m - n) |-> h[n + k]]
  <2> HIDE DEF ready, h
  <2>1. n \in Nat /\ n <= m
    OBVIOUS
  <2>2. InOrder(h, 1..n) = [k \in 1..n |-> h[k]]
    BY <2>1, InOrderOfFirst
  <2>3. InOrder(h, (n + 1)..m) = [k \in 1..(m - n) |-> h[n + k]]
    BY <2>1, InOrderOfInterval
  <2> QED
    BY <1>6, <2>2, <2>3
<1>8. /\ p \in Seq(Delivery) /\ Len(p) = n /\ \A k \in 1..n : p[k] = h[k]
      /\ r \in Seq(Delivery) /\ Len(r) = m - n /\ \A k \in 1..Len(r) : r[k] = h[n + k]
      /\ p \o r = h
  <2> HIDE DEF h
  <2> QED
    <3>1. p = [k \in 1..n |-> h[k]] /\ r = [k \in 1..(m - n) |-> h[n + k]]
      BY <1>7
    <3>2. PICK g \in Seq(Delivery) : g = h
      BY <1>3
    <3>3. /\ p = [k \in 1..n |-> g[k]] /\ r = [k \in 1..(Len(g) - n) |-> g[n + k]]
          /\ n \in 0..Len(g)
      BY <1>2, <3>1, <3>2
    <3>4. /\ p \in Seq(Delivery) /\ Len(p) = n /\ \A k \in 1..n : p[k] = g[k]
          /\ r \in Seq(Delivery) /\ Len(r) = Len(g) - n /\ \A k \in 1..Len(r) : r[k] = g[n + k]
          /\ p \o r = g
      BY <3>3, Parts
    <3> QED
      BY <1>2, <3>2, <3>4
<1>9. delivered' = delivered \o p /\ in_flight' = r
  BY <1>1, <1>2, <1>7
<1>10. \A k \in 1..n : h[k].arrives_at <= at
  BY <1>2, <1>4, <1>6
<1>11. \A k \in (n + 1)..m : at <= h[k].arrives_at
  <2> SUFFICES ASSUME NEW k \in (n + 1)..m PROVE at <= h[k].arrives_at
    OBVIOUS
  <2>1. k \in 1..m /\ k \notin ready
    BY <1>6
  <2> QED
    BY <1>2, <1>3, <1>4, <2>1
<1> HIDE DEF h, ready
<1>12. /\ delivered \in Seq(Delivery) /\ drained \in Seq(Delivery)
       /\ delivered' \in Seq(Delivery) /\ in_flight' \in Seq(Delivery)
       /\ drained' \in Seq(Delivery)
  BY <1>1, <1>8, <1>9, ConcatProperties DEF Line
<1>typed. /\ drained \in Seq(Delivery) /\ delivered \in Seq(Delivery)
      /\ p \in Seq(Delivery) /\ r \in Seq(Delivery)
  BY <1>8, <1>12
<1>13. OnLine' = OnLine
  <2>1. (drained \o (delivered \o p)) \o r = (drained \o delivered) \o (p \o r)
    <3>1. drained \o (delivered \o p) = (drained \o delivered) \o p
      BY <1>typed
    <3>2. PICK s : s = drained \o delivered /\ s \in Seq(Delivery)
      <4>1. drained \o delivered \in Seq(Delivery)
        BY <1>typed, ConcatProperties
      <4> QED
        BY <4>1
    <3>3. s \in Seq(Delivery) /\ p \in Seq(Delivery) /\ r \in Seq(Delivery)
      BY <1>typed, <3>2
    <3>4. (s \o p) \o r = s \o (p \o r)
      BY <3>3
    <3> QED
      BY <3>1, <3>2, <3>4
  <2> QED
    BY <1>1, <1>8, <1>9, <2>1 DEF OnLine, Seen, h
<1>14. Seen' = Seen \o p /\ Seen \in Seq(Delivery)
  <2>1. drained \o (delivered \o p) = (drained \o delivered) \o p
    BY <1>typed
  <2> QED
    BY <1>1, <1>9, <1>12, <2>1, ConcatProperties DEF Seen
<1>15. \A i \in 1..Len(Seen') : Seen'[i].arrives_at <= now'
  <2> SUFFICES ASSUME NEW i \in 1..Len(Seen \o p) PROVE (Seen \o p)[i].arrives_at <= at
    BY <1>1, <1>4, <1>14
  <2>1. CASE i \in 1..Len(Seen) /\ (Seen \o p)[i] = Seen[i]
    <3>1. Seen[i].arrives_at <= now
      BY <2>1 DEF Line
    <3>2. Seen[i].arrives_at \in Nat
      <4>1. Seen[i] \in Delivery
        BY <1>14, <2>1
      <4> QED
        BY <4>1 DEF Delivery
    <3> QED
      BY <1>4, <2>1, <3>1, <3>2, BearerAssumption DEF IInv, TypeOK
  <2>2. CASE \E j \in 1..Len(p) : i = Len(Seen) + j /\ (Seen \o p)[i] = p[j]
    BY <1>8, <1>10, <2>2
  <2>3. p \in Seq(Delivery) /\ Seen \in Seq(Delivery)
    BY <1>8, <1>14
  <2>4. \/ i \in 1..Len(Seen) /\ (Seen \o p)[i] = Seen[i]
        \/ \E j \in 1..Len(p) : i = Len(Seen) + j /\ (Seen \o p)[i] = p[j]
    BY <2>3, ConcatMember
  <2> QED
    BY <2>1, <2>2, <2>4
<1>16. \A i \in 1..Len(in_flight') : now' <= in_flight'[i].arrives_at
  <2> SUFFICES ASSUME NEW k \in 1..Len(r) PROVE at <= r[k].arrives_at
    BY <1>1, <1>4, <1>9
  <2>1. n + k \in (n + 1)..m /\ r[k] = h[n + k]
    BY <1>8
  <2> QED
    BY <1>11, <2>1
<1> QED
  BY <1>1, <1>12, <1>13, <1>15, <1>16 DEF Line

LEMMA DrainKeepsLine ==
  ASSUME Line, Drain
  PROVE  Line'
<1>1. /\ drained' = drained \o delivered /\ delivered' = << >>
      /\ UNCHANGED <<now, in_flight, taken>>
  BY DEF Drain
<1>2. drained \in Seq(Delivery) /\ delivered \in Seq(Delivery) /\ drained' \in Seq(Delivery)
      /\ delivered' \in Seq(Delivery)
  BY <1>1, ConcatProperties DEF Line
<1>3. Seen' = Seen
  BY <1>1, <1>2, ConcatEmptySeq DEF Seen
<1> QED
  BY <1>1, <1>2, <1>3 DEF Line, OnLine

(* A frame taken and lost changes nothing for the others.                   *)
LEMMA LoseKeepsLine ==
  ASSUME IInv, Line, NEW size \in Nat, NEW deadline \in Int, Lose(size, deadline)
  PROVE  Line'
<1>1. /\ UNCHANGED <<now, in_flight, delivered, drained>>
      /\ taken' = Append(taken, [size |-> size, deadline |-> deadline,
                                 sent_at |-> now, arrives_at |-> Arrival(size)])
  BY DEF Lose, Take
<1>2. PICK n \in Nat : n = Len(taken)
  BY DEF IInv, TypeOK
<1>3. Len(taken') = n + 1 /\ \A i \in 1..n : taken'[i] = taken[i]
  BY <1>1, <1>2 DEF IInv, TypeOK
<1>4. UNCHANGED <<Seen, OnLine>>
  BY <1>1 DEF Seen, OnLine
<1>5. ASSUME NEW i \in 1..Len(OnLine)
      PROVE  /\ OnLine[i].frame \in 1..Len(taken')
             /\ OnLine[i].arrives_at = taken'[OnLine[i].frame].arrives_at
  <2>1. /\ OnLine[i].frame \in 1..n
        /\ OnLine[i].arrives_at = taken[OnLine[i].frame].arrives_at
    BY <1>2 DEF Line
  <2> QED
    BY <1>3, <2>1
<1> QED
  BY <1>1, <1>4, <1>5 DEF Line

(* A frame taken and carried goes to the end of the line.                   *)
LEMMA CarryKeepsLine ==
  ASSUME IInv, Line, NEW size \in Nat, NEW deadline \in Int, Carry(size, deadline)
  PROVE  Line'
<1> DEFINE d == [frame |-> Len(taken) + 1, sent_at |-> now, arrives_at |-> Arrival(size)]
           f == [size |-> size, deadline |-> deadline, sent_at |-> now,
                 arrives_at |-> Arrival(size)]
<1>1. /\ UNCHANGED <<now, delivered, drained>>
      /\ in_flight' = Append(in_flight, d) /\ taken' = Append(taken, f)
  BY DEF Carry, Take
<1>2. PICK n \in Nat : n = Len(taken)
  BY DEF IInv, TypeOK
<1>3. PICK a \in Nat : a = Arrival(size) /\ now <= a
  <2>1. Serialization(size) \in Nat
    BY SerializationCovers
  <2> QED
    BY <2>1, BearerAssumption DEF Arrival, IInv, TypeOK
<1>4. f \in Frame /\ d \in Delivery
  BY <1>2, <1>3 DEF Frame, Delivery, IInv, TypeOK
<1>5. /\ Len(taken') = n + 1 /\ taken'[n + 1] = f
      /\ \A i \in 1..n : taken'[i] = taken[i]
  BY <1>1, <1>2, <1>4 DEF IInv, TypeOK
<1>6. d.frame = n + 1 /\ d.arrives_at = a /\ f.arrives_at = a
  BY <1>2, <1>3
<1> HIDE DEF d, f
<1>7. PICK m \in Nat : m = Len(in_flight)
  BY DEF Line
<1>8. /\ in_flight' \in Seq(Delivery) /\ Len(in_flight') = m + 1 /\ in_flight'[m + 1] = d
      /\ \A i \in 1..m : in_flight'[i] = in_flight[i]
  BY <1>1, <1>4, <1>7 DEF Line
<1>9. OnLine' = Append(OnLine, d) /\ Seen' = Seen
  <2>1. Seen' = Seen /\ OnLine' = Seen \o Append(in_flight, d)
    BY <1>1 DEF OnLine, Seen
  <2>2. Seen \in Seq(Delivery) /\ in_flight \in Seq(Delivery) /\ OnLine \in Seq(Delivery)
    BY LineOfParts DEF Line
  <2>3. Append(in_flight, d) = in_flight \o <<d>> /\ <<d>> \in Seq(Delivery)
    BY <1>4, <2>2, AppendIsConcat
  <2>4. Append(OnLine, d) = OnLine \o <<d>>
    BY <1>4, <2>2, AppendIsConcat
  <2>5. (Seen \o in_flight) \o <<d>> = Seen \o (in_flight \o <<d>>)
    BY <2>2, <2>3
  <2> QED
    BY <2>1, <2>3, <2>4, <2>5 DEF OnLine
<1>10. PICK l \in Nat : l = Len(OnLine)
  BY LineOfParts
<1>11. /\ Len(OnLine') = l + 1 /\ OnLine'[l + 1] = d
       /\ \A i \in 1..l : OnLine'[i] = OnLine[i]
  BY <1>4, <1>9, <1>10, LineOfParts
<1>12. ASSUME NEW i \in 1..(l + 1)
       PROVE  /\ OnLine'[i].frame \in 1..(n + 1)
              /\ OnLine'[i].arrives_at = taken'[OnLine'[i].frame].arrives_at
              /\ i \in 1..l => OnLine'[i].frame \in 1..n
  <2>1. CASE i \in 1..l
    <3>1. /\ OnLine[i].frame \in 1..n
          /\ OnLine[i].arrives_at = taken[OnLine[i].frame].arrives_at
      BY <1>2, <1>10, <2>1 DEF Line
    <3> QED
      BY <1>5, <1>11, <2>1, <3>1
  <2>2. CASE i = l + 1
    BY <1>5, <1>6, <1>11, <2>2
  <2> QED
    BY <2>1, <2>2
<1>13. ASSUME NEW i \in 1..(l + 1), NEW j \in 1..(l + 1), i < j
       PROVE  OnLine'[i].frame < OnLine'[j].frame
  <2>1. i \in 1..l
    BY <1>13
  <2>2. CASE j \in 1..l
    BY <1>10, <1>11, <1>13, <2>1, <2>2 DEF Line
  <2>3. CASE j = l + 1
    BY <1>6, <1>11, <1>12, <2>1, <2>3
  <2> QED
    BY <2>2, <2>3
<1>14. ASSUME NEW i \in 1..(m + 1) PROVE now <= in_flight'[i].arrives_at
  <2>1. CASE i \in 1..m
    BY <1>7, <1>8, <2>1 DEF Line
  <2>2. CASE i = m + 1
    BY <1>3, <1>6, <1>8, <2>2
  <2> QED
    BY <2>1, <2>2
<1>15. \A i \in 1..Len(OnLine') :
         /\ OnLine'[i].frame \in 1..Len(taken')
         /\ OnLine'[i].arrives_at = taken'[OnLine'[i].frame].arrives_at
  BY <1>5, <1>11, <1>12
<1>16. \A i, j \in 1..Len(OnLine') : i < j => OnLine'[i].frame < OnLine'[j].frame
  BY <1>11, <1>13
<1>17. \A i \in 1..Len(in_flight') : now' <= in_flight'[i].arrives_at
  BY <1>1, <1>8, <1>14
<1>18. delivered' \in Seq(Delivery) /\ drained' \in Seq(Delivery)
  BY <1>1 DEF Line
<1>19. \A i \in 1..Len(Seen') : Seen'[i].arrives_at <= now'
  BY <1>1, <1>9 DEF Line
<1> QED
  BY <1>8, <1>15, <1>16, <1>17, <1>18, <1>19 DEF Line

LEMMA LineKept == IInv /\ Line /\ [Next]_vars => Line'
<1> SUFFICES ASSUME IInv, Line, [Next]_vars PROVE Line'
  OBVIOUS
<1> USE BearerAssumption
<1>1. ASSUME NEW size \in Sizes, NEW deadline \in Deadlines, Refuse(size, deadline)
      PROVE  Line'
  BY <1>1 DEF Refuse, Line, OnLine, Seen
<1>2. ASSUME NEW size \in Sizes, NEW deadline \in Deadlines,
             Lose(size, deadline) \/ Carry(size, deadline)
      PROVE  Line'
  BY <1>2, LoseKeepsLine, CarryKeepsLine
<1>3. ASSUME NEW ns \in Advances, Advance(ns)
      PROVE  Line'
  BY <1>3, AdvanceKeepsLine
<1>4. CASE Drain
  BY <1>4, DrainKeepsLine
<1>5. CASE UNCHANGED vars
  BY <1>5 DEF vars, Line, OnLine, Seen
<1> QED
  BY <1>1, <1>2, <1>3, <1>4, <1>5 DEF Next

(* acoustic_loopback.cpp:70-80: arrivals are handed over oldest first, each *)
(* once its time has come, whatever is offered and however the clock moves. *)
THEOREM ArrivalsInOrder == Spec => []DeliveredOldestFirst
<1>1. IInv /\ Line => DeliveredOldestFirst
  BY FlightOrdered DEF Line, OnLine, Seen, DeliveredOldestFirst
<1>2. Init => Line
  <2> SUFFICES ASSUME Init PROVE Line
    OBVIOUS
  <2>1. in_flight = << >> /\ delivered = << >> /\ drained = << >>
    BY DEF Init
  <2>2. << >> \in Seq(Delivery) /\ << >> \o << >> = << >> /\ Len(<< >>) = 0
    BY ConcatEmptySeq, EmptySeq
  <2>3. OnLine = << >> /\ Seen = << >>
    BY <2>1, <2>2 DEF OnLine, Seen
  <2> QED
    BY <2>1, <2>2, <2>3 DEF Line
<1> QED
  BY <1>1, <1>2, LineKept, ScheduleHolds, PTL DEF Spec
=============================================================================
