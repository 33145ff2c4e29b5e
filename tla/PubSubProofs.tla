---------------------------- MODULE PubSubProofs ----------------------------
(***************************************************************************)
(* Proofs about PubSub, for any subscribers, any high-water mark and any    *)
(* number of samples and restarts.  Everything a subscriber was handed and  *)
(* everything on its way to it stand in one line, ordered by sample and, in *)
(* a run, by sequence number (Flow); and what a failure costs is paid for   *)
(* out of broken, a half-sent or half-read message being a debt before the  *)
(* sample behind it is lost (Paid).                                         *)
(***************************************************************************)
EXTENDS PubSub, SequenceTheorems, FiniteSetTheorems, TLAPS

USE PubSubAssumption

-----------------------------------------------------------------------------
(* Queues of messages.                                                     *)

Messages(F) == Seq(F) \ {<< >>}

(* The frame a message ends with, its body.                                *)
Ends(m) == m[Len(m)]

(* What a and t are to q when a message was put behind it, or taken off it. *)
Longer(a, q, m) ==
  /\ Len(q) \in Nat
  /\ Len(a) = Len(q) + 1
  /\ \A i \in 1..Len(q) : a[i] = q[i]
  /\ a[Len(q) + 1] = m

Shorter(t, q) ==
  /\ Len(q) \in Nat /\ Len(q) > 0
  /\ Len(t) = Len(q) - 1
  /\ \A i \in 1..(Len(q) - 1) : t[i] = q[i + 1]

LEMMA AppendElements ==
  ASSUME NEW S, NEW q \in Seq(S), NEW m \in S
  PROVE  Append(q, m) \in Seq(S) /\ Longer(Append(q, m), q, m)
  BY DEF Longer

LEMMA TailElements ==
  ASSUME NEW S, NEW q \in Seq(S), q # << >>
  PROVE  /\ Tail(q) \in Seq(S) /\ Head(q) \in S
         /\ Shorter(Tail(q), q) /\ Head(q) = q[1]
  BY DEF Shorter

LEMMA HeadOf ==
  ASSUME NEW F, NEW q \in Seq(Messages(F)), q # << >>
  PROVE  /\ Head(q) = q[1] /\ Head(q) \in Messages(F)
         /\ Len(Head(q)) \in Nat /\ Len(q) \in Nat /\ Len(q) > 0
<1>1. /\ Head(q) = q[1] /\ Head(q) \in Messages(F) /\ Len(q) \in Nat /\ Len(q) > 0
  BY TailElements DEF Shorter
<1>2. Len(Head(q)) \in Nat
  BY <1>1 DEF Messages
<1> QED BY <1>1, <1>2

(* t is q without the first k frames of its first message, h.               *)
Rest(t, q, h, k) ==
  /\ Len(t) = Len(q)
  /\ \A i \in 2..Len(q) : t[i] = q[i]
  /\ Len(t[1]) = Len(h) - k
  /\ \A j \in 1..(Len(h) - k) : t[1][j] = h[k + j]

(* Reading k frames of the first message leaves its last frames, or takes   *)
(* it off the queue.                                                       *)
LEMMA AfterElements ==
  ASSUME NEW F, NEW q \in Seq(Messages(F)), q # << >>, NEW k \in 1..Len(Head(q))
  PROVE  /\ After(q, k) \in Seq(Messages(F))
         /\ k = Len(Head(q)) => After(q, k) = Tail(q)
         /\ k < Len(Head(q)) => Rest(After(q, k), q, Head(q), k)
<1>1. /\ Tail(q) \in Seq(Messages(F)) /\ Head(q) \in Messages(F)
      /\ Len(q) \in Nat /\ Len(q) > 0 /\ Len(Tail(q)) = Len(q) - 1
      /\ \A i \in 1..(Len(q) - 1) : Tail(q)[i] = q[i + 1]
  BY TailElements DEF Shorter
<1>2. PICK h : h = Head(q) /\ h \in Seq(F) /\ Len(h) \in Nat /\ k \in 1..Len(h)
  BY <1>1 DEF Messages
<1> DEFINE rest == SubSeq(h, k + 1, Len(h))
<1>3. /\ rest \in Seq(F) /\ Len(rest) = Len(h) - k
      /\ \A j \in 1..(Len(h) - k) : rest[j] = h[k + j]
  BY <1>2
<1>4. After(q, k) = IF rest = << >> THEN Tail(q) ELSE <<rest>> \o Tail(q)
  BY <1>2 DEF After
<1> HIDE DEF rest
<1>5. CASE k = Len(h)
  <2>1. rest = << >>
    BY <1>2, <1>3, <1>5
  <2>2. After(q, k) = Tail(q) /\ ~(k < Len(Head(q)))
    BY <1>2, <1>4, <1>5, <2>1
  <2> QED BY <1>1, <2>2
<1>6. CASE k < Len(h)
  <2>1. rest # << >> /\ rest \in Messages(F)
    <3>1. Len(rest) > 0
      BY <1>2, <1>3, <1>6
    <3> QED BY <1>3, <3>1 DEF Messages
  <2>2. PICK t \in Seq(Messages(F)) : t = Tail(q)
    BY <1>1
  <2> HIDE DEF Messages
  <2>3. /\ <<rest>> \o t \in Seq(Messages(F))
        /\ Len(<<rest>> \o t) = 1 + Len(t)
        /\ (<<rest>> \o t)[1] = rest
        /\ \A i \in 2..(Len(t) + 1) : (<<rest>> \o t)[i] = t[i - 1]
    BY <2>1, <2>2
  <2>4. After(q, k) = <<rest>> \o t
    BY <1>4, <2>1, <2>2
  <2>5. Len(t) = Len(q) - 1 /\ \A i \in 2..Len(q) : t[i - 1] = q[i]
    BY <1>1, <2>2
  <2>6. /\ Len(After(q, k)) = Len(q)
        /\ \A i \in 2..Len(q) : After(q, k)[i] = q[i]
    BY <2>3, <2>4, <2>5, <1>1
  <2>7. After(q, k)[1] = rest
    BY <2>3, <2>4
  <2>8. After(q, k) \in Seq(Messages(F))
    BY <2>3, <2>4
  <2>9. Rest(After(q, k), q, h, k)
    BY <1>3, <2>6, <2>7 DEF Rest
  <2> QED BY <1>2, <1>6, <2>8, <2>9
<1> QED BY <1>2, <1>5, <1>6

-----------------------------------------------------------------------------
(* The line of one subscriber: what it was handed, r, what waits at its     *)
(* end, p, and what waits at the publisher's, q.                            *)

(* b was published before c, and in one run as many numbers as samples ago. *)
Before(b, c) ==
  /\ b.sample < c.sample
  /\ b.run = c.run => b.sample + c.seq = c.sample + b.seq

Sorted(p) == \A i, j \in 1..Len(p) : i < j => Before(Ends(p[i]), Ends(p[j]))

Ahead(r, p) == \A i \in 1..Len(r), j \in 1..Len(p) : Before(r[i], Ends(p[j]))

Line(r, p, q) ==
  /\ Sorted(p)
  /\ Sorted(q)
  /\ \A i \in 1..Len(p), j \in 1..Len(q) : Before(Ends(p[i]), Ends(q[j]))
  /\ Ahead(r, p)
  /\ Ahead(r, q)
  /\ \A i, j \in 1..Len(r) : i < j => r[i].sample < r[j].sample

LEMMA LinePublish ==
  ASSUME NEW r, NEW p, NEW q, NEW a, NEW m, Longer(a, q, m),
         Line(r, p, q),
         \A i \in 1..Len(r) : Before(r[i], Ends(m)),
         \A i \in 1..Len(p) : Before(Ends(p[i]), Ends(m)),
         \A i \in 1..Len(q) : Before(Ends(q[i]), Ends(m))
  PROVE  Line(r, p, a)
<1>1. /\ Len(a) = Len(q) + 1 /\ a[Len(q) + 1] = m /\ Len(q) \in Nat
      /\ \A i \in 1..Len(q) : a[i] = q[i]
      /\ \A j \in 1..Len(a) : j \in 1..Len(q) \/ j = Len(q) + 1
  BY DEF Longer
<1>2. Sorted(a)
  <2> SUFFICES ASSUME NEW i \in 1..Len(a), NEW j \in 1..Len(a), i < j
               PROVE  Before(Ends(a[i]), Ends(a[j]))
    BY DEF Sorted
  <2>1. i \in 1..Len(q)
    BY <1>1
  <2> QED BY <1>1, <2>1 DEF Line, Sorted
<1>3. \A i \in 1..Len(p), j \in 1..Len(a) : Before(Ends(p[i]), Ends(a[j]))
  BY <1>1 DEF Line
<1>4. Ahead(r, a)
  BY <1>1 DEF Line, Ahead
<1> QED BY <1>2, <1>3, <1>4 DEF Line

LEMMA LineTransmit ==
  ASSUME NEW r, NEW p, NEW q, NEW a, NEW t, Longer(a, p, q[1]), Shorter(t, q), Line(r, p, q)
  PROVE  Line(r, a, t)
<1>1. /\ Len(a) = Len(p) + 1 /\ a[Len(p) + 1] = q[1] /\ Len(p) \in Nat
      /\ \A i \in 1..Len(p) : a[i] = p[i]
      /\ \A j \in 1..Len(a) : j \in 1..Len(p) \/ j = Len(p) + 1
  BY DEF Longer
<1>2. /\ Len(q) \in Nat /\ Len(t) = Len(q) - 1 /\ 1 \in 1..Len(q)
      /\ \A i \in 1..Len(t) : i + 1 \in 1..Len(q) /\ 1 < i + 1 /\ t[i] = q[i + 1]
  BY DEF Shorter
<1>3. Sorted(a)
  <2> SUFFICES ASSUME NEW i \in 1..Len(a), NEW j \in 1..Len(a), i < j
               PROVE  Before(Ends(a[i]), Ends(a[j]))
    BY DEF Sorted
  <2>1. i \in 1..Len(p)
    BY <1>1
  <2> QED BY <1>1, <1>2, <2>1 DEF Line, Sorted
<1>4. Sorted(t)
  <2> SUFFICES ASSUME NEW i \in 1..Len(t), NEW j \in 1..Len(t), i < j
               PROVE  Before(Ends(t[i]), Ends(t[j]))
    BY DEF Sorted
  <2>1. i + 1 < j + 1
    OBVIOUS
  <2> QED BY <1>2, <2>1 DEF Line, Sorted
<1>5. \A i \in 1..Len(a), j \in 1..Len(t) : Before(Ends(a[i]), Ends(t[j]))
  <2> SUFFICES ASSUME NEW i \in 1..Len(a), NEW j \in 1..Len(t)
               PROVE  Before(Ends(a[i]), Ends(t[j]))
    OBVIOUS
  <2>1. CASE i \in 1..Len(p)
    BY <1>1, <1>2, <2>1 DEF Line
  <2>2. CASE i = Len(p) + 1
    BY <1>1, <1>2, <2>2 DEF Line, Sorted
  <2> QED BY <1>1, <2>1, <2>2
<1>6. Ahead(r, a)
  BY <1>1, <1>2 DEF Line, Ahead
<1>7. Ahead(r, t)
  BY <1>2 DEF Line, Ahead
<1> QED BY <1>3, <1>4, <1>5, <1>6, <1>7 DEF Line

LEMMA LineDrop ==
  ASSUME NEW r, NEW p, NEW q, NEW t, Shorter(t, p), Line(r, p, q)
  PROVE  Line(r, t, q)
<1>1. \A i \in 1..Len(t) : i + 1 \in 1..Len(p) /\ t[i] = p[i + 1]
  BY DEF Shorter
<1>2. Sorted(t)
  <2> SUFFICES ASSUME NEW i \in 1..Len(t), NEW j \in 1..Len(t), i < j
               PROVE  Before(Ends(t[i]), Ends(t[j]))
    BY DEF Sorted
  <2>1. i + 1 < j + 1
    OBVIOUS
  <2> QED BY <1>1, <2>1 DEF Line, Sorted
<1>3. \A i \in 1..Len(t), j \in 1..Len(q) : Before(Ends(t[i]), Ends(q[j]))
  BY <1>1 DEF Line
<1>4. Ahead(r, t)
  BY <1>1 DEF Line, Ahead
<1> QED BY <1>2, <1>3, <1>4 DEF Line

(* A queue whose messages still end as they did.                           *)
LEMMA LineShorten ==
  ASSUME NEW r, NEW p, NEW q, NEW t, Line(r, p, q),
         Len(t) = Len(p), \A i \in 1..Len(p) : Ends(t[i]) = Ends(p[i])
  PROVE  Line(r, t, q)
<1>1. Sorted(t)
  BY DEF Line, Sorted
<1>2. \A i \in 1..Len(t), j \in 1..Len(q) : Before(Ends(t[i]), Ends(q[j]))
  BY DEF Line
<1>3. Ahead(r, t)
  BY DEF Line, Ahead
<1> QED BY <1>1, <1>2, <1>3 DEF Line

(* The first sample is handed out.                                         *)
LEMMA LineHand ==
  ASSUME NEW r, NEW p, NEW q, NEW a, NEW t, NEW x, Longer(a, r, x), Shorter(t, p),
         Line(r, p, q),
         x.sample = Ends(p[1]).sample, x.seq = Ends(p[1]).seq, x.run = Ends(p[1]).run
  PROVE  Line(a, t, q)
<1>1. /\ Len(a) = Len(r) + 1 /\ a[Len(r) + 1] = x /\ Len(r) \in Nat
      /\ \A i \in 1..Len(r) : a[i] = r[i]
      /\ \A j \in 1..Len(a) : j \in 1..Len(r) \/ j = Len(r) + 1
  BY DEF Longer
<1>2. /\ 1 \in 1..Len(p)
      /\ \A i \in 1..Len(t) : i + 1 \in 1..Len(p) /\ 1 < i + 1 /\ t[i] = p[i + 1]
  BY DEF Shorter
<1>3. Line(r, t, q)
  BY LineDrop
<1>4. \A c : Before(Ends(p[1]), c) => Before(x, c)
  BY DEF Before
<1>5. Ahead(a, t)
  <2> SUFFICES ASSUME NEW i \in 1..Len(a), NEW j \in 1..Len(t)
               PROVE  Before(a[i], Ends(t[j]))
    BY DEF Ahead
  <2>1. CASE i \in 1..Len(r)
    BY <1>1, <1>3, <2>1 DEF Line, Ahead
  <2>2. CASE i = Len(r) + 1
    <3>1. Before(Ends(p[1]), Ends(t[j]))
      BY <1>2 DEF Line, Sorted
    <3> QED BY <1>1, <1>4, <2>2, <3>1
  <2> QED BY <1>1, <2>1, <2>2
<1>6. Ahead(a, q)
  <2> SUFFICES ASSUME NEW i \in 1..Len(a), NEW j \in 1..Len(q)
               PROVE  Before(a[i], Ends(q[j]))
    BY DEF Ahead
  <2>1. CASE i \in 1..Len(r)
    BY <1>1, <1>3, <2>1 DEF Line, Ahead
  <2>2. CASE i = Len(r) + 1
    <3>1. Before(Ends(p[1]), Ends(q[j]))
      BY <1>2 DEF Line
    <3> QED BY <1>1, <1>4, <2>2, <3>1
  <2> QED BY <1>1, <2>1, <2>2
<1>7. \A i, j \in 1..Len(a) : i < j => a[i].sample < a[j].sample
  <2> SUFFICES ASSUME NEW i \in 1..Len(a), NEW j \in 1..Len(a), i < j
               PROVE  a[i].sample < a[j].sample
    OBVIOUS
  <2>1. i \in 1..Len(r)
    BY <1>1
  <2>2. CASE j \in 1..Len(r)
    BY <1>1, <2>1, <2>2 DEF Line
  <2>3. CASE j = Len(r) + 1
    <3>1. Before(r[i], Ends(p[1]))
      BY <1>2, <2>1 DEF Line, Ahead
    <3> QED BY <1>1, <2>1, <2>3, <3>1 DEF Before
  <2> QED BY <1>1, <2>2, <2>3
<1> QED BY <1>3, <1>5, <1>6, <1>7 DEF Line

LEMMA LineEmpty ==
  ASSUME NEW r, NEW p, NEW q, Line(r, p, q)
  PROVE  Line(r, p, << >>)
<1>1. Sorted(<< >>) /\ Ahead(r, << >>)
  BY DEF Sorted, Ahead
<1> QED BY <1>1 DEF Line

(* The message that is open with a sample's two frames behind it.           *)
Built(f, b) == f \o <<Topic, b>>

Completed(m, F, f, b) ==
  /\ m \in Messages(F)
  /\ Len(f) \in Nat /\ Len(m) = Len(f) + 2
  /\ \A j \in 1..(Len(m) - 1) : m[j] = Topic
  /\ Ends(m) = b

LEMMA MessageBuilt ==
  ASSUME NEW F, NEW f \in Seq({Topic}), NEW b \in F, Topic \in F
  PROVE  Completed(Built(f, b), F, f, b)
<1> DEFINE m == Built(f, b)
           g == <<Topic, b>>
<1>1. g \in Seq(F) /\ Len(g) = 2 /\ g[1] = Topic /\ g[2] = b
  OBVIOUS
<1>2. f \in Seq(F) /\ Len(f) \in Nat /\ \A j \in 1..Len(f) : f[j] = Topic
  <2>1. {Topic} \subseteq F
    OBVIOUS
  <2>2. f \in Seq(F)
    BY <2>1, SeqMonotonic
  <2>3. Len(f) \in Nat /\ \A j \in 1..Len(f) : f[j] \in {Topic}
    OBVIOUS
  <2> QED BY <2>2, <2>3
<1> HIDE DEF g
<1>3. /\ f \o g \in Seq(F) /\ Len(f \o g) = Len(f) + Len(g)
      /\ \A i \in 1..(Len(f) + Len(g)) :
           (f \o g)[i] = IF i <= Len(f) THEN f[i] ELSE g[i - Len(f)]
  BY <1>1, <1>2, ConcatProperties
<1>4. m = f \o g
  BY DEF g, Built
<1> HIDE DEF m
<1>5. Len(m) = Len(f) + 2 /\ m \in Seq(F) /\ m # << >>
  BY <1>1, <1>2, <1>3, <1>4
<1>6. \A j \in 1..(Len(m) - 1) : m[j] = Topic
  <2> SUFFICES ASSUME NEW j \in 1..(Len(m) - 1) PROVE m[j] = Topic
    OBVIOUS
  <2>1. CASE j <= Len(f)
    BY <1>1, <1>2, <1>3, <1>4, <1>5, <2>1
  <2>2. CASE j = Len(f) + 1
    BY <1>1, <1>2, <1>3, <1>4, <2>2
  <2> QED BY <1>2, <1>5, <2>1, <2>2
<1>7. Ends(m) = b
  BY <1>1, <1>2, <1>3, <1>4, <1>5 DEF Ends
<1> QED BY <1>2, <1>5, <1>6, <1>7 DEF Messages, Completed, m

-----------------------------------------------------------------------------
(* Types, and what becomes of the message that is open.                     *)

(* What a subscriber hands to its caller.                                  *)
Sample == [sample : 1..samples, seq : Nat, run : 1..runs, gap : BOOLEAN]

Opened ==
  /\ ~up => open = Nothing
  /\ up => runs > 0
  /\ open.frames # << >> => \A s \in open.to : Len(outq[s]) < HighWaterMark

Typed == TypeOK /\ Opened

LEMMA TypedInit == Init => Typed
<1> SUFFICES ASSUME Init PROVE Typed
  OBVIOUS
<1>1. open = Nothing /\ Nothing \in [to : SUBSET Subscribers, frames : Seq({Topic})]
  BY DEF Init, Nothing
<1>2. \A S : << >> \in Seq(S)
  BY EmptySeq
<1>3. /\ outq \in [Subscribers -> Seq(Seq(Frame) \ {<< >>})]
      /\ inq \in [Subscribers -> Seq(Seq(Frame) \ {<< >>})]
      /\ received \in [Subscribers -> Seq(Sample)]
  BY <1>2 DEF Init
<1>a. \A s \in Subscribers : Len(outq[s]) <= HighWaterMark /\ Len(inq[s]) <= HighWaterMark
  BY DEF Init
<1>b. skipped \in [Subscribers -> [{"late", "full"} -> SUBSET (1..samples)]]
  <2>1. [why \in {"late", "full"} |-> {}] \in [{"late", "full"} -> SUBSET (1..samples)]
    OBVIOUS
  <2> QED BY <2>1 DEF Init
<1>4. TypeOK
  <2>1. /\ runs \in 0..MaxRuns /\ samples \in 0..MaxSamples /\ sequence \in 0..samples
        /\ dropped \in 0..samples /\ up \in BOOLEAN /\ joined \subseteq Subscribers
        /\ accepted \subseteq 1..samples
    <3>1. /\ up = FALSE /\ runs = 0 /\ samples = 0 /\ sequence = 0 /\ dropped = 0
          /\ joined = {} /\ accepted = {}
      BY DEF Init
    <3>2. /\ runs \in 0..MaxRuns /\ samples \in 0..MaxSamples
          /\ sequence \in 0..samples /\ dropped \in 0..samples
      BY <3>1
    <3>3. up \in BOOLEAN
      BY <3>1
    <3>4. joined \subseteq Subscribers /\ accepted \subseteq 1..samples
      BY <3>1
    <3> QED BY <3>2, <3>3, <3>4
  <2>2. /\ expected \in [Subscribers -> 0..samples]
        /\ malformed \in [Subscribers -> Nat] /\ broken \in [Subscribers -> Nat]
    BY DEF Init
  <2>3. open \in [to : SUBSET Subscribers, frames : Seq({Topic})]
    BY <1>1
  <2> QED BY <1>3, <1>a, <1>b, <2>1, <2>2, <2>3 DEF TypeOK, Sample
<1>5. Opened
  BY <1>1 DEF Init, Opened, Nothing
<1> QED BY <1>4, <1>5 DEF Typed

(* A publisher's step leaves every message a message.                      *)
LEMMA FramesGrow ==
  ASSUME samples \in Nat, runs \in Nat,
         samples' \in Nat, runs' \in Nat, samples <= samples', runs <= runs'
  PROVE  /\ Messages(Frame) \subseteq Messages(Frame')
         /\ Seq(Messages(Frame)) \subseteq Seq(Messages(Frame'))
         /\ Seq(Sample) \subseteq Seq(Sample')
         /\ SUBSET (1..samples) \subseteq SUBSET (1..samples')
<1>1. /\ 0..samples \subseteq 0..samples' /\ 0..runs \subseteq 0..runs'
      /\ 1..samples \subseteq 1..samples' /\ 1..runs \subseteq 1..runs'
  OBVIOUS
<1>2. Frame \subseteq Frame' /\ Sample \subseteq Sample'
  BY <1>1 DEF Frame, Sample
<1>3. Seq(Frame) \subseteq Seq(Frame') /\ Seq(Sample) \subseteq Seq(Sample')
  BY <1>2, SeqMonotonic
<1>4. Messages(Frame) \subseteq Messages(Frame')
  BY <1>3 DEF Messages
<1>5. Seq(Messages(Frame)) \subseteq Seq(Messages(Frame'))
  BY <1>4, SeqMonotonic
<1> QED BY <1>1, <1>3, <1>4, <1>5

(* What the type invariant says of the queues.                             *)
LEMMA TypesOf ==
  ASSUME TypeOK
  PROVE  /\ runs \in Nat /\ samples \in Nat /\ sequence \in 0..samples
         /\ open \in [to : SUBSET Subscribers, frames : Seq({Topic})]
         /\ outq \in [Subscribers -> Seq(Messages(Frame))]
         /\ inq \in [Subscribers -> Seq(Messages(Frame))]
         /\ received \in [Subscribers -> Seq(Sample)]
         /\ skipped \in [Subscribers -> [{"late", "full"} -> SUBSET (1..samples)]]
<1>1. runs \in Nat /\ samples \in Nat /\ sequence \in 0..samples
  BY DEF TypeOK
<1>2. open \in [to : SUBSET Subscribers, frames : Seq({Topic})]
  BY DEF TypeOK
<1>3. /\ outq \in [Subscribers -> Seq(Messages(Frame))]
      /\ inq \in [Subscribers -> Seq(Messages(Frame))]
  BY Zenon DEF TypeOK, Messages
<1>4. received \in [Subscribers -> Seq(Sample)]
  BY Zenon DEF TypeOK, Sample
<1>5. skipped \in [Subscribers -> [{"late", "full"} -> SUBSET (1..samples)]]
  BY DEF TypeOK
<1> QED BY <1>1, <1>2, <1>3, <1>4, <1>5

LEMMA QueueHead ==
  ASSUME TypeOK, NEW s \in Subscribers, inq[s] # << >>
  PROVE  /\ Head(inq[s]) = inq[s][1] /\ Head(inq[s]) \in Messages(Frame)
         /\ Len(Head(inq[s])) \in Nat /\ Len(inq[s]) \in Nat /\ Len(inq[s]) > 0
<1>1. PICK q \in Seq(Messages(Frame)) : q = inq[s]
  BY TypesOf
<1>2. PICK F : F = Frame
  OBVIOUS
<1>3. q # << >> /\ q \in Seq(Messages(F))
  BY <1>1, <1>2
<1>4. /\ Head(q) = q[1] /\ Head(q) \in Messages(F)
      /\ Len(Head(q)) \in Nat /\ Len(q) \in Nat /\ Len(q) > 0
  BY <1>3, HeadOf
<1> QED BY <1>1, <1>2, <1>4

(* What a step of the publisher's side keeps of the types.                  *)
LEMMA StampTypes ==
  ASSUME TypeOK, Stamp
  PROVE  /\ samples' = samples + 1 /\ samples' \in 0..MaxSamples
         /\ sequence' \in 0..samples'
         /\ runs' = runs =>
              /\ outq \in [Subscribers -> Seq(Messages(Frame'))]
              /\ inq \in [Subscribers -> Seq(Messages(Frame'))]
              /\ received \in [Subscribers -> Seq(Sample')]
         /\ expected \in [Subscribers -> 0..samples']
         /\ dropped \in 0..samples' /\ dropped + 1 \in 0..samples'
         /\ accepted \subseteq 1..samples'
         /\ skipped \in [Subscribers -> [{"late", "full"} -> SUBSET (1..samples')]]
<1>1. /\ samples' = samples + 1 /\ samples \in Nat /\ samples' \in 0..MaxSamples
      /\ sequence' \in 0..samples' /\ runs \in Nat
      /\ dropped \in 0..samples' /\ dropped + 1 \in 0..samples'
  BY DEF TypeOK, Stamp
<1>2. 0..samples \subseteq 0..samples' /\ 1..samples \subseteq 1..samples'
  BY <1>1
<1>3. /\ expected \in [Subscribers -> 0..samples'] /\ accepted \subseteq 1..samples'
      /\ skipped \in [Subscribers -> [{"late", "full"} -> SUBSET (1..samples')]]
  BY <1>2 DEF TypeOK
<1>4. CASE runs' = runs
  <2>1. /\ Seq(Messages(Frame)) \subseteq Seq(Messages(Frame'))
        /\ Seq(Sample) \subseteq Seq(Sample')
    BY <1>1, <1>4, FramesGrow
  <2> QED BY <1>1, <1>3, <2>1, TypesOf
<1> QED BY <1>1, <1>3, <1>4

(* What Publish adds to the queues, and for whom.                           *)
LEMMA PublishParts ==
  ASSUME TypeOK, Opened, Publish
  PROVE  \E m \in Messages(Frame') :
           /\ Len(open.frames) \in Nat /\ Len(m) = Len(open.frames) + 2
           /\ \A j \in 1..(Len(m) - 1) : m[j] = Topic
           /\ Ends(m) = Body(samples', sequence)
           /\ \A s \in Subscribers :
                /\ s \in Recipients =>
                     /\ outq'[s] = Append(outq[s], m) /\ skipped'[s] = skipped[s]
                     /\ Len(outq[s]) < HighWaterMark
                /\ s \notin Recipients =>
                     /\ outq'[s] = outq[s]
                     /\ \E why \in {"late", "full"} :
                          skipped'[s] = [skipped[s] EXCEPT ![why] = @ \union {samples'}]
           /\ outq' = [s \in Subscribers |->
                         IF s \in Recipients THEN Append(outq[s], m) ELSE outq[s]]
<1> DEFINE m == Built(open.frames, Body(samples', sequence))
<1>1. /\ samples' = samples + 1 /\ samples \in Nat /\ runs' = runs /\ runs \in Nat
      /\ sequence \in Nat /\ open.frames \in Seq({Topic})
  BY TypesOf DEF Publish, Stamp
<1>2. Topic \in Frame' /\ Body(samples', sequence) \in Frame'
  BY <1>1 DEF Topic, Body, Frame
<1>3. /\ m \in Messages(Frame')
      /\ Len(open.frames) \in Nat /\ Len(m) = Len(open.frames) + 2
      /\ \A j \in 1..(Len(m) - 1) : m[j] = Topic
      /\ Ends(m) = Body(samples', sequence)
  <2>1. PICK F, f, b :
          f \in Seq({Topic}) /\ b \in F /\ F = Frame' /\ f = open.frames
          /\ b = Body(samples', sequence) /\ Topic \in F
    BY <1>1, <1>2
  <2>2. Completed(Built(f, b), F, f, b)
    BY <2>1, MessageBuilt, Zenon
  <2> QED BY <2>1, <2>2 DEF Completed
<1>4. /\ outq' = [s \in Subscribers |->
                     IF s \in Recipients THEN Append(outq[s], m) ELSE outq[s]]
      /\ \A s \in Subscribers :
           /\ s \in Recipients => skipped'[s] = skipped[s]
           /\ s \notin Recipients =>
                \E why \in {"late", "full"} :
                  skipped'[s] = [skipped[s] EXCEPT ![why] = @ \union {samples'}]
  BY DEF Publish, Built
<1> HIDE DEF m
<1>5. \A s \in Recipients : Len(outq[s]) < HighWaterMark
  BY DEF Recipients, Opened
<1> QED BY <1>3, <1>4, <1>5

(* What a subscriber's read of k frames leaves.                            *)
LEMMA ReadParts ==
  ASSUME TypeOK, NEW s \in Subscribers, inq[s] # << >>,
         NEW k \in 1..Len(Head(inq[s])), Read(s, k)
  PROVE  /\ inq' \in [Subscribers -> Seq(Messages(Frame))]
         /\ inq'[s] = After(inq[s], k)
         /\ Len(inq'[s]) <= Len(inq[s]) /\ Len(inq[s]) \in Nat
         /\ \A p \in Subscribers \ {s} : inq'[p] = inq[p]
         /\ \A p \in Subscribers : Len(inq'[p]) <= HighWaterMark
<1>1. inq \in [Subscribers -> Seq(Messages(Frame))]
  BY TypesOf
<1>2. PICK q \in Seq(Messages(Frame)) : q = inq[s] /\ q # << >>
  BY <1>1
<1>3. inq' = [inq EXCEPT ![s] = After(q, k)]
  BY <1>2 DEF Read
<1>4. k \in 1..Len(Head(q))
  BY <1>2
<1>5. After(q, k) \in Seq(Messages(Frame))
  BY <1>2, <1>4, AfterElements
<1>6. Len(After(q, k)) <= Len(q) /\ Len(q) \in Nat
  <2>1. Head(q) \in Messages(Frame) /\ Shorter(Tail(q), q)
    BY <1>2, TailElements
  <2>2. Len(Head(q)) \in Nat
    BY <2>1 DEF Messages
  <2>3. CASE k = Len(Head(q))
    BY <1>2, <1>4, <2>1, <2>3, AfterElements DEF Shorter
  <2>4. CASE k < Len(Head(q))
    <3>1. Len(After(q, k)) = Len(q)
      BY <1>2, <1>4, <2>4, AfterElements DEF Rest
    <3> QED BY <2>1, <3>1 DEF Shorter
  <2> QED BY <1>4, <2>2, <2>3, <2>4
<1>7. \A p \in Subscribers : Len(inq[p]) <= HighWaterMark
  BY DEF TypeOK
<1>8. Len(After(q, k)) <= HighWaterMark
  <2>1. PICK a, b \in Nat : a = Len(After(q, k)) /\ b = Len(q) /\ a <= b
    BY <1>5, <1>6
  <2>2. b <= HighWaterMark
    BY <1>2, <1>7, <2>1
  <2> QED BY <2>1, <2>2
<1> QED BY <1>1, <1>2, <1>3, <1>5, <1>6, <1>7, <1>8

LEMMA StartTyped == Typed /\ Start => Typed'
<1> SUFFICES ASSUME TypeOK, Opened, Start PROVE Typed'
  BY DEF Typed
<1>1. /\ ~up /\ up' = TRUE /\ runs' = runs + 1 /\ sequence' = 0 /\ dropped' = 0
      /\ accepted' = {} /\ broken' = [s \in Subscribers |-> 0]
      /\ skipped' = [s \in Subscribers |-> [why \in {"late", "full"} |-> {}]]
      /\ UNCHANGED <<open, joined, outq, inq, received, expected, malformed, samples>>
  BY DEF Start, subscriber
<1>2. runs \in Nat /\ runs' \in 0..MaxRuns /\ samples \in Nat /\ runs' > 0
  BY <1>1 DEF Start, TypeOK
<1>3. /\ Seq(Messages(Frame)) \subseteq Seq(Messages(Frame'))
      /\ Seq(Sample) \subseteq Seq(Sample')
  BY <1>1, <1>2, FramesGrow
<1>4. /\ outq' \in [Subscribers -> Seq(Messages(Frame'))]
      /\ inq' \in [Subscribers -> Seq(Messages(Frame'))]
      /\ received' \in [Subscribers -> Seq(Sample')]
  BY <1>1, <1>3, TypesOf
<1>5. broken' \in [Subscribers -> Nat]
  BY <1>1
<1>6. skipped' \in [Subscribers -> [{"late", "full"} -> SUBSET (1..samples')]]
  <2>1. [why \in {"late", "full"} |-> {}] \in [{"late", "full"} -> SUBSET (1..samples')]
    OBVIOUS
  <2> QED BY <1>1, <2>1
<1>7. sequence' \in 0..samples' /\ dropped' \in 0..samples' /\ accepted' \subseteq 1..samples'
  BY <1>1, <1>2
<1>8. TypeOK'
  BY <1>1, <1>2, <1>4, <1>5, <1>6, <1>7 DEF TypeOK, Messages, Sample
<1>9. Opened'
  BY <1>1, <1>2 DEF Opened, Nothing
<1> QED BY <1>8, <1>9 DEF Typed

LEMMA StopTyped == Typed /\ Stop => Typed'
<1> SUFFICES ASSUME TypeOK, Opened, Stop PROVE Typed'
  BY DEF Typed
<1>1. /\ up' = FALSE /\ open' = Nothing /\ joined' = {}
      /\ outq' = [s \in Subscribers |-> << >>]
      /\ UNCHANGED <<runs, sequence, dropped, inq, received, expected, malformed,
                     samples, accepted, skipped, broken>>
  BY DEF Stop, subscriber, history
<1>2. open' \in [to : SUBSET Subscribers, frames : Seq({Topic})]
  BY <1>1 DEF Nothing
<1>3. /\ outq' \in [Subscribers -> Seq(Seq(Frame') \ {<< >>})]
      /\ \A s \in Subscribers : Len(outq'[s]) <= HighWaterMark
  <2>1. << >> \in Seq(Seq(Frame') \ {<< >>}) /\ Len(<< >>) = 0
    BY EmptySeq
  <2> QED BY <1>1, <2>1
<1>4. Frame' = Frame
  BY <1>1 DEF Frame
<1>5. TypeOK'
  BY <1>1, <1>2, <1>3, <1>4 DEF TypeOK
<1>6. Opened'
  BY <1>1 DEF Opened, Nothing
<1> QED BY <1>5, <1>6 DEF Typed

LEMMA PublishTyped == Typed /\ Publish => Typed'
<1> SUFFICES ASSUME TypeOK, Opened, Publish PROVE Typed'
  BY DEF Typed
<1>1. /\ Stamp /\ up /\ open' = Nothing /\ accepted' = accepted \union {samples'}
      /\ UNCHANGED <<up, runs, dropped, joined, inq, received, expected, malformed, broken>>
  BY DEF Publish, Stamp, subscriber
<1>2. /\ samples' = samples + 1 /\ samples' \in 0..MaxSamples /\ sequence' \in 0..samples'
      /\ outq \in [Subscribers -> Seq(Messages(Frame'))]
      /\ inq \in [Subscribers -> Seq(Messages(Frame'))]
      /\ received \in [Subscribers -> Seq(Sample')]
      /\ expected \in [Subscribers -> 0..samples'] /\ dropped \in 0..samples'
      /\ accepted \subseteq 1..samples'
      /\ skipped \in [Subscribers -> [{"late", "full"} -> SUBSET (1..samples')]]
  BY <1>1, StampTypes
<1>3. PICK m \in Messages(Frame') :
        /\ \A s \in Subscribers :
             /\ s \in Recipients =>
                  /\ outq'[s] = Append(outq[s], m) /\ skipped'[s] = skipped[s]
                  /\ Len(outq[s]) < HighWaterMark
             /\ s \notin Recipients =>
                  /\ outq'[s] = outq[s]
                  /\ \E why \in {"late", "full"} :
                       skipped'[s] = [skipped[s] EXCEPT ![why] = @ \union {samples'}]
        /\ outq' = [s \in Subscribers |->
                      IF s \in Recipients THEN Append(outq[s], m) ELSE outq[s]]
  BY PublishParts
<1>4. \A s \in Subscribers :
        /\ outq'[s] \in Seq(Messages(Frame')) /\ Len(outq'[s]) <= HighWaterMark
        /\ skipped'[s] \in [{"late", "full"} -> SUBSET (1..samples')]
  <2> SUFFICES ASSUME NEW s \in Subscribers
               PROVE  /\ outq'[s] \in Seq(Messages(Frame')) /\ Len(outq'[s]) <= HighWaterMark
                      /\ skipped'[s] \in [{"late", "full"} -> SUBSET (1..samples')]
    OBVIOUS
  <2>1. CASE s \in Recipients
    <3>1. PICK q \in Seq(Messages(Frame')) : q = outq[s] /\ Len(q) < HighWaterMark
      BY <1>2, <1>3, <2>1
    <3>2. /\ Append(q, m) \in Seq(Messages(Frame'))
          /\ Len(Append(q, m)) = Len(q) + 1 /\ Len(q) \in Nat
      BY AppendElements DEF Longer
    <3>3. Len(Append(q, m)) <= HighWaterMark
      BY <3>1, <3>2
    <3>4. outq'[s] = Append(q, m) /\ skipped'[s] = skipped[s]
      BY <1>3, <2>1, <3>1
    <3> QED BY <1>2, <3>2, <3>3, <3>4
  <2>2. CASE s \notin Recipients
    <3>1. outq'[s] = outq[s]
      BY <1>3, <2>2
    <3>2. Len(outq[s]) <= HighWaterMark
      BY DEF TypeOK
    <3>3. PICK why \in {"late", "full"} :
            skipped'[s] = [skipped[s] EXCEPT ![why] = @ \union {samples'}]
      BY <1>3, <2>2
    <3>4. skipped[s] \in [{"late", "full"} -> SUBSET (1..samples')] /\ samples' \in 1..samples'
      BY <1>2, TypesOf
    <3>5. skipped'[s] \in [{"late", "full"} -> SUBSET (1..samples')]
      BY <3>3, <3>4
    <3> QED BY <1>2, <3>1, <3>2, <3>5
  <2> QED BY <2>1, <2>2
<1>5. outq' \in [Subscribers -> Seq(Messages(Frame'))]
  BY <1>3, <1>4, Zenon
<1>6. skipped' \in [Subscribers -> [{"late", "full"} -> SUBSET (1..samples')]]
  <2>1. skipped' = [s \in Subscribers |-> skipped'[s]]
    BY DEF Publish
  <2> QED BY <1>4, <2>1, Zenon
<1>7. open' \in [to : SUBSET Subscribers, frames : Seq({Topic})]
  BY <1>1 DEF Nothing
<1>8. accepted' \subseteq 1..samples'
  <2>1. samples' \in 1..samples'
    BY <1>2, TypesOf
  <2> QED BY <1>1, <1>2, <2>1
<1>9. \A s \in Subscribers : Len(outq'[s]) <= HighWaterMark /\ Len(inq'[s]) <= HighWaterMark
  BY <1>1, <1>4 DEF TypeOK
<1>10. /\ up' \in BOOLEAN /\ runs' \in 0..MaxRuns /\ joined' \subseteq Subscribers
       /\ malformed' \in [Subscribers -> Nat] /\ broken' \in [Subscribers -> Nat]
  BY <1>1 DEF TypeOK
<1>11. /\ inq' \in [Subscribers -> Seq(Messages(Frame'))]
       /\ received' \in [Subscribers -> Seq(Sample')]
       /\ expected' \in [Subscribers -> 0..samples'] /\ dropped' \in 0..samples'
  BY <1>1, <1>2
<1>12. TypeOK'
  BY <1>2, <1>5, <1>6, <1>7, <1>8, <1>9, <1>10, <1>11 DEF TypeOK, Messages, Sample
<1>13. Opened'
  BY <1>1 DEF Opened, Nothing
<1> QED BY <1>12, <1>13 DEF Typed

LEMMA PublishHalfTyped == Typed /\ PublishHalf => Typed'
<1> SUFFICES ASSUME TypeOK, Opened, PublishHalf PROVE Typed'
  BY DEF Typed
<1>1. /\ Stamp /\ up /\ dropped' = dropped + 1
      /\ open' = [to |-> Recipients, frames |-> Append(open.frames, Topic)]
      /\ broken' = [s \in Subscribers |-> broken[s] + (IF s \in Recipients THEN 1 ELSE 0)]
      /\ UNCHANGED <<up, runs, joined, outq, inq, received, expected, malformed, accepted, skipped>>
  BY DEF PublishHalf, Stamp, subscriber
<1>2. /\ samples' \in 0..MaxSamples /\ sequence' \in 0..samples'
      /\ outq \in [Subscribers -> Seq(Messages(Frame'))]
      /\ inq \in [Subscribers -> Seq(Messages(Frame'))]
      /\ received \in [Subscribers -> Seq(Sample')]
      /\ expected \in [Subscribers -> 0..samples'] /\ dropped + 1 \in 0..samples'
      /\ accepted \subseteq 1..samples'
      /\ skipped \in [Subscribers -> [{"late", "full"} -> SUBSET (1..samples')]]
  BY <1>1, StampTypes
<1>3. Recipients \subseteq Subscribers
  BY TypesOf DEF Recipients, TypeOK
<1>4. open' \in [to : SUBSET Subscribers, frames : Seq({Topic})]
  <2>1. Append(open.frames, Topic) \in Seq({Topic})
    BY TypesOf
  <2> QED BY <1>1, <1>3, <2>1
<1>5. broken' \in [Subscribers -> Nat]
  <2>1. \A s \in Subscribers : broken[s] \in Nat
    BY DEF TypeOK
  <2> QED BY <1>1, <2>1
<1>6. /\ up' \in BOOLEAN /\ runs' \in 0..MaxRuns /\ joined' \subseteq Subscribers
      /\ malformed' \in [Subscribers -> Nat]
      /\ \A s \in Subscribers : Len(outq'[s]) <= HighWaterMark /\ Len(inq'[s]) <= HighWaterMark
  BY <1>1 DEF TypeOK
<1>7. /\ outq' \in [Subscribers -> Seq(Messages(Frame'))]
      /\ inq' \in [Subscribers -> Seq(Messages(Frame'))]
      /\ received' \in [Subscribers -> Seq(Sample')]
      /\ expected' \in [Subscribers -> 0..samples'] /\ dropped' \in 0..samples'
      /\ accepted' \subseteq 1..samples'
      /\ skipped' \in [Subscribers -> [{"late", "full"} -> SUBSET (1..samples')]]
  BY <1>1, <1>2
<1>8. TypeOK'
  BY <1>2, <1>4, <1>5, <1>6, <1>7 DEF TypeOK, Messages, Sample
<1>9. Opened'
  <2>1. \A s \in Recipients : Len(outq[s]) < HighWaterMark
    BY DEF Recipients, Opened
  <2>2. open'.to = Recipients /\ outq' = outq
    BY <1>1
  <2> QED BY <1>1, <2>1, <2>2 DEF Opened
<1> QED BY <1>8, <1>9 DEF Typed

LEMMA PublishFailsTyped == Typed /\ PublishFails => Typed'
<1> SUFFICES ASSUME TypeOK, Opened, PublishFails PROVE Typed'
  BY DEF Typed
<1>1. /\ Stamp /\ dropped' \in {dropped, dropped + 1}
      /\ UNCHANGED <<up, runs, open, joined, outq, inq, received, expected, malformed,
                     accepted, skipped, broken>>
  BY DEF PublishFails, subscriber
<1>2. /\ samples' \in 0..MaxSamples /\ sequence' \in 0..samples'
      /\ outq' \in [Subscribers -> Seq(Messages(Frame'))]
      /\ inq' \in [Subscribers -> Seq(Messages(Frame'))]
      /\ received' \in [Subscribers -> Seq(Sample')]
      /\ expected' \in [Subscribers -> 0..samples'] /\ dropped' \in 0..samples'
      /\ accepted' \subseteq 1..samples'
      /\ skipped' \in [Subscribers -> [{"late", "full"} -> SUBSET (1..samples')]]
  BY <1>1, StampTypes
<1>3. /\ up' \in BOOLEAN /\ runs' \in 0..MaxRuns /\ joined' \subseteq Subscribers
      /\ open' \in [to : SUBSET Subscribers, frames : Seq({Topic})]
      /\ malformed' \in [Subscribers -> Nat] /\ broken' \in [Subscribers -> Nat]
      /\ \A s \in Subscribers : Len(outq'[s]) <= HighWaterMark /\ Len(inq'[s]) <= HighWaterMark
  BY <1>1 DEF TypeOK
<1>4. TypeOK'
  BY <1>2, <1>3 DEF TypeOK, Messages, Sample
<1>5. Opened'
  BY <1>1 DEF Opened
<1> QED BY <1>4, <1>5 DEF Typed

(* The connection's steps, and a subscriber's, stamp nothing.               *)
LEMMA ConnectTyped == ASSUME NEW s \in Subscribers PROVE Typed /\ Connect(s) => Typed'
<1> SUFFICES ASSUME TypeOK, Opened, Connect(s) PROVE Typed'
  BY DEF Typed
<1>1. /\ joined' = joined \union {s}
      /\ UNCHANGED <<up, runs, sequence, dropped, open, outq, inq, received, expected,
                     malformed, samples, accepted, skipped, broken>>
  BY DEF Connect, publisher, subscriber, history
<1>2. joined' \subseteq Subscribers /\ Frame' = Frame
  BY <1>1 DEF TypeOK, Frame
<1>3. TypeOK'
  BY <1>1, <1>2 DEF TypeOK
<1>4. Opened'
  BY <1>1 DEF Opened
<1> QED BY <1>3, <1>4 DEF Typed

LEMMA DisconnectTyped == ASSUME NEW s \in Subscribers PROVE Typed /\ Disconnect(s) => Typed'
<1> SUFFICES ASSUME TypeOK, Opened, Disconnect(s) PROVE Typed'
  BY DEF Typed
<1> DEFINE gone == {n \in accepted : \E i \in 1..Len(outq[s]) :
                      \E j \in 1..Len(outq[s][i]) : outq[s][i][j].sample = n}
<1>1. /\ joined' = joined \ {s} /\ open' = [open EXCEPT !.to = @ \ {s}]
      /\ outq' = [outq EXCEPT ![s] = << >>]
      /\ skipped' = [skipped EXCEPT ![s]["late"] = @ \union gone]
      /\ UNCHANGED <<up, runs, sequence, dropped, inq, received, expected, malformed,
                     samples, accepted, broken>>
  BY DEF Disconnect, subscriber
<1>2. gone \subseteq 1..samples
  BY DEF TypeOK
<1> HIDE DEF gone
<1>3. Frame' = Frame /\ joined' \subseteq Subscribers
  BY <1>1 DEF TypeOK, Frame
<1>4. open' \in [to : SUBSET Subscribers, frames : Seq({Topic})]
  BY <1>1, TypesOf
<1>5. /\ outq' \in [Subscribers -> Seq(Messages(Frame))]
      /\ \A p \in Subscribers : Len(outq'[p]) <= HighWaterMark
      /\ \A p \in Subscribers \ {s} : outq'[p] = outq[p]
  <2>1. << >> \in Seq(Messages(Frame)) /\ Len(<< >>) = 0
    BY EmptySeq
  <2>2. \A p \in Subscribers : Len(outq[p]) <= HighWaterMark
    BY DEF TypeOK
  <2> QED BY <1>1, <2>1, <2>2, TypesOf
<1>6. skipped' \in [Subscribers -> [{"late", "full"} -> SUBSET (1..samples)]]
  <2>1. /\ skipped[s] \in [{"late", "full"} -> SUBSET (1..samples)]
        /\ skipped \in [Subscribers -> [{"late", "full"} -> SUBSET (1..samples)]]
    BY TypesOf
  <2>2. skipped[s]["late"] \union gone \in SUBSET (1..samples)
    BY <1>2, <2>1
  <2>3. [skipped[s] EXCEPT !["late"] = skipped[s]["late"] \union gone]
          \in [{"late", "full"} -> SUBSET (1..samples)]
    BY <2>1, <2>2
  <2> QED BY <1>1, <2>1, <2>3
<1>7. TypeOK'
  BY <1>1, <1>3, <1>4, <1>5, <1>6 DEF TypeOK, Messages
<1>8. Opened'
  <2>1. open'.frames = open.frames /\ open'.to = open.to \ {s} /\ open.to \subseteq Subscribers
    BY <1>1, TypesOf
  <2>2. ~up => open' = Nothing
    <3> SUFFICES ASSUME ~up PROVE open' = Nothing
      OBVIOUS
    <3>1. open = [to |-> {}, frames |-> << >>]
      BY DEF Opened, Nothing
    <3>2. open' = [to |-> {} \ {s}, frames |-> << >>]
      BY <1>1, <3>1
    <3> QED BY <3>2 DEF Nothing
  <2> QED BY <1>1, <1>5, <2>1, <2>2 DEF Opened
<1> QED BY <1>7, <1>8 DEF Typed

LEMMA TransmitTyped == ASSUME NEW s \in Subscribers PROVE Typed /\ Transmit(s) => Typed'
<1> SUFFICES ASSUME TypeOK, Opened, Transmit(s) PROVE Typed'
  BY DEF Typed
<1>1. /\ outq[s] # << >> /\ Len(inq[s]) < HighWaterMark
      /\ inq' = [inq EXCEPT ![s] = Append(@, Head(outq[s]))]
      /\ outq' = [outq EXCEPT ![s] = Tail(@)]
      /\ UNCHANGED <<up, runs, sequence, dropped, open, joined, received, expected,
                     malformed, samples, accepted, skipped, broken>>
  BY DEF Transmit, publisher, subscriber, history
<1>2. PICK p \in Seq(Messages(Frame)), q \in Seq(Messages(Frame)) :
        p = inq[s] /\ q = outq[s]
  BY TypesOf
<1>3. /\ Tail(q) \in Seq(Messages(Frame)) /\ Head(q) \in Messages(Frame)
      /\ Shorter(Tail(q), q)
  BY <1>1, <1>2, TailElements
<1>4. /\ Append(p, Head(q)) \in Seq(Messages(Frame)) /\ Longer(Append(p, Head(q)), p, Head(q))
  BY <1>3, AppendElements
<1>5. /\ inq' \in [Subscribers -> Seq(Messages(Frame))]
      /\ outq' \in [Subscribers -> Seq(Messages(Frame))]
      /\ outq'[s] = Tail(q) /\ inq'[s] = Append(p, Head(q))
      /\ \A w \in Subscribers \ {s} : outq'[w] = outq[w] /\ inq'[w] = inq[w]
  BY <1>1, <1>2, <1>3, <1>4, TypesOf
<1>6. Len(inq'[s]) <= HighWaterMark /\ Len(outq'[s]) <= Len(outq[s]) /\ Len(outq[s]) \in Nat
      /\ Len(outq'[s]) \in Nat
  BY <1>1, <1>2, <1>3, <1>4, <1>5 DEF Longer, Shorter
<1>7. \A w \in Subscribers : Len(outq[w]) <= HighWaterMark /\ Len(inq[w]) <= HighWaterMark
  BY DEF TypeOK
<1>8. \A w \in Subscribers : Len(outq'[w]) <= HighWaterMark /\ Len(inq'[w]) <= HighWaterMark
  <2> SUFFICES ASSUME NEW w \in Subscribers
               PROVE  Len(outq'[w]) <= HighWaterMark /\ Len(inq'[w]) <= HighWaterMark
    OBVIOUS
  <2>1. CASE w = s
    <3>1. PICK a, b \in Nat : a = Len(outq'[s]) /\ b = Len(outq[s]) /\ a <= b
      BY <1>6
    <3>2. a <= HighWaterMark
      BY <1>7, <3>1
    <3> QED BY <1>6, <2>1, <3>1, <3>2
  <2>2. CASE w # s
    BY <1>5, <1>7, <2>2
  <2> QED BY <2>1, <2>2
<1>9. Frame' = Frame
  BY <1>1 DEF Frame
<1>10. TypeOK'
  BY <1>1, <1>5, <1>8, <1>9 DEF TypeOK, Messages
<1>11. Opened'
  BY <1>1, <1>5, <1>6, TypesOf DEF Opened
<1> QED BY <1>10, <1>11 DEF Typed

-----------------------------------------------------------------------------
(* Everything published and not lost, in its line.                         *)

(* What is known of the body of a published sample; in the present run its  *)
(* sequence number tells which of the run's samples it is.                  *)
Published(b) ==
  /\ b.sample \in 1..samples /\ b.run \in 1..runs /\ b.seq \in Nat /\ b.seq < b.sample
  /\ b.run = runs => b.sample + sequence = b.seq + 1 + samples

(* A message, or what is left of one: topics, and one body at its end.      *)
Message(m) ==
  /\ Len(m) > 0
  /\ \A j \in 1..(Len(m) - 1) : m[j] = Topic
  /\ Published(Ends(m))

FlowOf(s) ==
  /\ \A i \in 1..Len(inq[s]) : Message(inq[s][i])
  /\ \A i \in 1..Len(outq[s]) : Message(outq[s][i])
  /\ \A i \in 1..Len(received[s]) : Published(received[s][i])
  /\ Line(received[s], inq[s], outq[s])
  /\ expected[s] = IF received[s] = << >> THEN 0 ELSE received[s][Len(received[s])].seq + 1

Flow == \A s \in Subscribers : FlowOf(s)

(* The body a poll accepts is that of its message.                         *)
LEMMA AcceptedBody ==
  ASSUME TypeOK, Flow, NEW s \in Subscribers, inq[s] # << >>,
         Len(Head(inq[s])) > 1, Head(inq[s])[2] # Topic
  PROVE  /\ Len(Head(inq[s])) = 2 /\ Head(inq[s]) = inq[s][1]
         /\ Head(inq[s])[2] = Ends(inq[s][1])
         /\ Published(Ends(inq[s][1]))
<1>1. PICK q \in Seq(Messages(Frame)) : q = inq[s] /\ q # << >>
  BY TypesOf
<1>2. PICK h : h = Head(q) /\ h = q[1] /\ Len(h) \in Nat /\ Len(q) \in Nat /\ Len(q) > 0
  BY <1>1, HeadOf
<1>3. Message(h)
  BY <1>1, <1>2 DEF Flow, FlowOf
<1>4. Len(h) > 1 /\ h[2] # Topic
  BY <1>1, <1>2
<1>5. \A j \in 1..(Len(h) - 1) : h[j] = Topic
  BY <1>3 DEF Message
<1>6. Len(h) = 2
  <2>1. PICK n \in Nat : n = Len(h)
    BY <1>2
  <2>2. n > 1
    BY <1>4, <2>1
  <2>3. ~(2 \in 1..(n - 1))
    BY <1>4, <1>5, <2>1
  <2>4. n = 2
    BY <2>2, <2>3
  <2> QED BY <2>1, <2>4
<1>7. Published(h[2]) /\ Ends(h) = h[2]
  BY <1>3, <1>6 DEF Message, Ends
<1> QED BY <1>1, <1>2, <1>6, <1>7

(* A poll reads one frame or two of the first message.                      *)
LEMMA PollReads ==
  ASSUME TypeOK, NEW s \in Subscribers,
         PollLeftover(s) \/ PollReject(s) \/ PollThrows(s)
  PROVE  inq[s] # << >> /\ \E k \in 1..Len(Head(inq[s])) : Read(s, k)
<1>1. inq[s] # << >>
  BY DEF PollLeftover, PollReject, PollThrows
<1>2. PICK l \in Nat : l = Len(Head(inq[s]))
  BY <1>1, QueueHead
<1>3. \E k \in 1..l : Read(s, k)
  <2>1. CASE PollLeftover(s)
    <3>1. l = 1 /\ Read(s, 1)
      BY <1>2, <2>1 DEF PollLeftover
    <3>2. 1 \in 1..l
      BY <3>1
    <3> QED BY <3>1, <3>2
  <2>2. CASE PollReject(s) \/ PollThrows(s)
    <3>1. l > 1 /\ (Read(s, 1) \/ Read(s, 2))
      BY <1>2, <2>2 DEF PollReject, PollThrows
    <3>2. 1 \in 1..l /\ 2 \in 1..l
      BY <3>1
    <3> QED BY <3>1, <3>2
  <2> QED BY <2>1, <2>2
<1> QED BY <1>1, <1>2, <1>3

LEMMA PollTyped ==
  ASSUME NEW s \in Subscribers
  PROVE  Typed /\ (PollLeftover(s) \/ PollReject(s) \/ PollThrows(s)) => Typed'
<1> SUFFICES ASSUME TypeOK, Opened, PollLeftover(s) \/ PollReject(s) \/ PollThrows(s)
             PROVE  Typed'
  BY DEF Typed
<1>1. inq[s] # << >> /\ \E k \in 1..Len(Head(inq[s])) : Read(s, k)
  BY PollReads
<1>2. PICK k \in 1..Len(Head(inq[s])) : Read(s, k)
  BY <1>1
<1>3. /\ inq' \in [Subscribers -> Seq(Messages(Frame))]
      /\ \A p \in Subscribers : Len(inq'[p]) <= HighWaterMark
  BY <1>1, <1>2, ReadParts
<1>4. UNCHANGED <<up, runs, sequence, dropped, open, joined, outq, received, expected,
                  samples, accepted, skipped>>
  BY DEF PollLeftover, PollReject, PollThrows, publisher, subscriber, history
<1>5. malformed' \in [Subscribers -> Nat] /\ broken' \in [Subscribers -> Nat]
  <2>1. /\ malformed' = malformed \/ malformed' = [malformed EXCEPT ![s] = @ + 1]
        /\ broken' = broken \/ broken' = [broken EXCEPT ![s] = @ + 1]
    BY DEF PollLeftover, PollReject, PollThrows, subscriber, history
  <2>2. malformed \in [Subscribers -> Nat] /\ broken \in [Subscribers -> Nat]
    BY DEF TypeOK
  <2> QED BY <2>1, <2>2
<1>6. \A p \in Subscribers : Len(outq'[p]) <= HighWaterMark /\ Len(inq'[p]) <= HighWaterMark
  BY <1>3, <1>4 DEF TypeOK
<1>7. Frame' = Frame
  BY <1>4 DEF Frame
<1>8. TypeOK'
  BY <1>3, <1>4, <1>5, <1>6, <1>7 DEF TypeOK, Messages
<1>9. Opened'
  BY <1>4 DEF Opened
<1> QED BY <1>8, <1>9 DEF Typed

LEMMA PollAcceptTyped ==
  ASSUME NEW s \in Subscribers
  PROVE  Typed /\ Flow /\ PollAccept(s) => Typed'
<1> SUFFICES ASSUME TypeOK, Opened, Flow, PollAccept(s) PROVE Typed'
  BY DEF Typed
<1>1. /\ inq[s] # << >> /\ Len(Head(inq[s])) > 1 /\ Head(inq[s])[2] # Topic
      /\ Read(s, 2) /\ Hand(s, Head(inq[s])[2])
      /\ expected' = [expected EXCEPT ![s] = Head(inq[s])[2].seq + 1]
      /\ UNCHANGED <<up, runs, sequence, dropped, open, joined, outq, malformed, samples,
                     accepted, skipped, broken>>
  BY DEF PollAccept, publisher, history
<1>2. PICK b : b = Head(inq[s])[2] /\ Published(b)
  BY <1>1, AcceptedBody
<1>3. Len(Head(inq[s])) = 2
  BY <1>1, AcceptedBody
<1>4. /\ inq' \in [Subscribers -> Seq(Messages(Frame))]
      /\ \A p \in Subscribers : Len(inq'[p]) <= HighWaterMark
  BY <1>1, <1>3, ReadParts
<1>5. expected' \in [Subscribers -> 0..samples]
  <2>1. b.seq + 1 \in 0..samples
    <3>1. b.seq \in Nat /\ b.seq < b.sample /\ b.sample \in 1..samples /\ samples \in Nat
      BY <1>2, TypesOf DEF Published
    <3>2. PICK q \in Nat, n \in Nat, k \in Nat :
            q = b.seq /\ n = b.sample /\ k = samples /\ q < n /\ n <= k
      BY <3>1
    <3> QED BY <3>2
  <2> QED BY <1>1, <1>2, <2>1 DEF TypeOK
<1>6. received' \in [Subscribers -> Seq(Sample)]
  <2> DEFINE x == [sample |-> b.sample, seq |-> b.seq, run |-> b.run,
                   gap |-> expected[s] # 0 /\ b.seq # expected[s]]
  <2>1. x \in Sample
    BY <1>2 DEF Published, Sample
  <2>2. received' = [received EXCEPT ![s] = Append(@, x)]
    BY <1>1, <1>2 DEF Hand
  <2> HIDE DEF x
  <2>3. Append(received[s], x) \in Seq(Sample)
    BY <2>1, TypesOf
  <2> QED BY <2>2, <2>3, TypesOf
<1>7. \A p \in Subscribers : Len(outq'[p]) <= HighWaterMark /\ Len(inq'[p]) <= HighWaterMark
  BY <1>1, <1>4 DEF TypeOK
<1>8. Frame' = Frame /\ Sample' = Sample
  BY <1>1 DEF Frame, Sample
<1>9. TypeOK'
  BY <1>1, <1>4, <1>5, <1>6, <1>7, <1>8 DEF TypeOK, Messages, Sample
<1>10. Opened'
  BY <1>1 DEF Opened
<1> QED BY <1>9, <1>10 DEF Typed

(* What was published stays so: numbers only grow, and a new run has none.  *)
Ages ==
  \/ Stamp /\ UNCHANGED runs
  \/ Start
  \/ UNCHANGED <<samples, runs, sequence>>

LEMMA PublishedStays ==
  ASSUME TypeOK, Ages, NEW b, Published(b)
  PROVE  Published(b)'
<1>1. PICK n \in Nat, r \in Nat, q \in Nat : n = samples /\ r = runs /\ q = sequence
  BY TypesOf
<1>2. PICK x \in 1..n, y \in 1..r, z \in Nat :
        /\ x = b.sample /\ y = b.run /\ z = b.seq /\ z < x
        /\ y = r => x + q = z + 1 + n
  BY <1>1 DEF Published
<1>3. CASE Stamp /\ runs' = runs
  <2>1. samples' = n + 1 /\ sequence' = q + 1 /\ runs' = r
    BY <1>1, <1>3 DEF Stamp
  <2>2. x \in 1..(n + 1) /\ (y = r => x + (q + 1) = z + 1 + (n + 1))
    BY <1>2
  <2> QED BY <1>2, <2>1, <2>2 DEF Published
<1>4. CASE Start
  <2>1. samples' = n /\ runs' = r + 1
    BY <1>1, <1>4 DEF Start
  <2>2. y \in 1..(r + 1) /\ y # r + 1
    OBVIOUS
  <2> QED BY <1>2, <2>1, <2>2 DEF Published
<1>5. CASE UNCHANGED <<samples, runs, sequence>>
  BY <1>5 DEF Published
<1> QED BY <1>3, <1>4, <1>5 DEF Ages

LEMMA MessageStays ==
  ASSUME TypeOK, Ages, NEW m, Message(m)
  PROVE  Message(m)'
<1>1. Published(Ends(m))'
  BY PublishedStays DEF Message
<1> QED BY <1>1 DEF Message, Ends

(* A sample is behind all that were published before it.                    *)
LEMMA NewIsBehind ==
  ASSUME TypeOK, Opened, Stamp, UNCHANGED runs
  PROVE  \E c : /\ c = Body(samples', sequence)
                /\ Published(c)'
                /\ \A b : Published(b) => Before(b, c)
<1>1. PICK n \in Nat, r \in Nat, q \in Nat :
        n = samples /\ r = runs /\ q = sequence /\ q <= n /\ r > 0
  <2>1. samples \in Nat /\ runs \in Nat /\ sequence \in 0..samples /\ runs > 0
    BY TypesOf DEF Stamp, Opened
  <2> QED BY <2>1
<1>2. samples' = n + 1 /\ sequence' = q + 1 /\ runs' = r
  BY <1>1 DEF Stamp
<1>3. PICK c : /\ c = Body(samples', sequence)
               /\ c.sample = n + 1 /\ c.seq = q /\ c.run = r
  <2>1. Body(samples', sequence) = [sample |-> n + 1, seq |-> q, run |-> r]
    BY <1>1, <1>2 DEF Body
  <2>2. PICK c : c = [sample |-> n + 1, seq |-> q, run |-> r]
    OBVIOUS
  <2>3. c.sample = n + 1 /\ c.seq = q /\ c.run = r
    BY <2>2
  <2> QED BY <2>1, <2>2, <2>3
<1>4. Published(c)'
  <2>1. /\ n + 1 \in 1..(n + 1) /\ r \in 1..r /\ q < n + 1
        /\ (n + 1) + (q + 1) = q + 1 + (n + 1)
    BY <1>1
  <2> QED BY <1>2, <1>3, <2>1 DEF Published
<1>5. ASSUME NEW b, Published(b) PROVE Before(b, c)
  <2>1. PICK x \in 1..n, y \in 1..r, z \in Nat :
          /\ x = b.sample /\ y = b.run /\ z = b.seq
          /\ y = r => x + q = z + 1 + n
    BY <1>1, <1>5 DEF Published
  <2>2. x < n + 1 /\ (y = r => x + q = (n + 1) + z)
    BY <2>1
  <2> QED BY <1>3, <2>1, <2>2 DEF Before
<1> QED BY <1>3, <1>4, <1>5

(* A subscriber none of whose queues is touched.                           *)
LEMMA FlowStays ==
  ASSUME TypeOK, Ages, NEW s, FlowOf(s),
         inq'[s] = inq[s], outq'[s] = outq[s],
         received'[s] = received[s], expected'[s] = expected[s]
  PROVE  FlowOf(s)'
<1>1. /\ \A i \in 1..Len(inq[s]) : Message(inq[s][i])
      /\ \A i \in 1..Len(outq[s]) : Message(outq[s][i])
      /\ \A i \in 1..Len(received[s]) : Published(received[s][i])
      /\ Line(received[s], inq[s], outq[s])
      /\ expected[s] = IF received[s] = << >> THEN 0 ELSE received[s][Len(received[s])].seq + 1
  BY DEF FlowOf
<1>2. PICK p, q, r, e : p = inq[s] /\ q = outq[s] /\ r = received[s] /\ e = expected[s]
  OBVIOUS
<1>3. \A m : Message(m) => Message(m)'
  BY MessageStays
<1>4. \A b : Published(b) => Published(b)'
  BY PublishedStays
<1>5. \A i \in 1..Len(p) : Message(p[i])'
  BY <1>1, <1>2, <1>3
<1>6. \A i \in 1..Len(q) : Message(q[i])'
  BY <1>1, <1>2, <1>3
<1>7. \A i \in 1..Len(r) : Published(r[i])'
  BY <1>1, <1>2, <1>4
<1>8. Line(r, p, q) /\ e = IF r = << >> THEN 0 ELSE r[Len(r)].seq + 1
  BY <1>1, <1>2
<1>9. p = inq'[s] /\ q = outq'[s] /\ r = received'[s] /\ e = expected'[s]
  BY <1>2
<1> QED BY <1>5, <1>6, <1>7, <1>8, <1>9 DEF FlowOf

LEMMA FlowInit == Init => Flow
<1> SUFFICES ASSUME Init, NEW s \in Subscribers PROVE FlowOf(s)
  BY DEF Flow
<1>1. inq[s] = << >> /\ outq[s] = << >> /\ received[s] = << >> /\ expected[s] = 0
  BY DEF Init
<1>2. Line(<< >>, << >>, << >>)
  BY DEF Line, Sorted, Ahead
<1> QED BY <1>1, <1>2 DEF FlowOf

LEMMA PublishFlow == TypeOK /\ Opened /\ Flow /\ Publish => Flow'
<1> SUFFICES ASSUME TypeOK, Opened, Flow, Publish, NEW s \in Subscribers PROVE FlowOf(s)'
  BY DEF Flow
<1>1. Stamp /\ UNCHANGED runs /\ UNCHANGED <<inq, received, expected>> /\ FlowOf(s)
  BY DEF Publish, subscriber, Flow
<1>2. Ages
  BY <1>1 DEF Ages
<1>3. PICK m \in Messages(Frame') :
        /\ Len(open.frames) \in Nat /\ Len(m) = Len(open.frames) + 2
        /\ \A j \in 1..(Len(m) - 1) : m[j] = Topic
        /\ Ends(m) = Body(samples', sequence)
        /\ s \in Recipients => outq'[s] = Append(outq[s], m)
        /\ s \notin Recipients => outq'[s] = outq[s]
  BY PublishParts
<1>4. Published(Ends(m))' /\ \A b : Published(b) => Before(b, Ends(m))
  BY <1>1, <1>3, NewIsBehind
<1>5. CASE s \notin Recipients
  <2>1. inq'[s] = inq[s] /\ outq'[s] = outq[s]
        /\ received'[s] = received[s] /\ expected'[s] = expected[s]
    BY <1>1, <1>3, <1>5
  <2> QED BY <1>1, <1>2, <2>1, FlowStays
<1>6. CASE s \in Recipients
  <2>1. PICK p, q, r, e, a, M :
          /\ p = inq[s] /\ q = outq[s] /\ r = received[s] /\ e = expected[s]
          /\ a = Append(q, m) /\ q \in Seq(M) /\ m \in M
    <3>1. outq[s] \in Seq(Messages(Frame'))
      BY <1>1, StampTypes
    <3> QED BY <3>1
  <2>2. Longer(a, q, m)
    BY <2>1, AppendElements
  <2>3. /\ \A i \in 1..Len(p) : Message(p[i])
        /\ \A i \in 1..Len(q) : Message(q[i])
        /\ \A i \in 1..Len(r) : Published(r[i])
        /\ Line(r, p, q)
        /\ e = IF r = << >> THEN 0 ELSE r[Len(r)].seq + 1
    BY <1>1, <2>1 DEF FlowOf
  <2>4. Message(m)'
    BY <1>3, <1>4 DEF Message, Ends
  <2>5. /\ \A i \in 1..Len(p) : Message(p[i])'
        /\ \A i \in 1..Len(q) : Message(q[i])'
        /\ \A i \in 1..Len(r) : Published(r[i])'
    BY <1>2, <2>3, MessageStays, PublishedStays
  <2>6. \A i \in 1..Len(a) : Message(a[i])'
    BY <2>2, <2>4, <2>5 DEF Longer
  <2>7. Line(r, p, a)
    <3>1. /\ \A i \in 1..Len(r) : Before(r[i], Ends(m))
          /\ \A i \in 1..Len(p) : Before(Ends(p[i]), Ends(m))
          /\ \A i \in 1..Len(q) : Before(Ends(q[i]), Ends(m))
      BY <1>4, <2>3 DEF Message
    <3> QED BY <2>2, <2>3, <3>1, LinePublish
  <2>8. inq'[s] = p /\ outq'[s] = a /\ received'[s] = r /\ expected'[s] = e
    BY <1>1, <1>3, <1>6, <2>1
  <2> QED BY <2>3, <2>5, <2>6, <2>7, <2>8 DEF FlowOf
<1> QED BY <1>5, <1>6

(* The steps that empty a queue at the publisher's end.                     *)
LEMMA EmptiedFlow ==
  ASSUME TypeOK, NEW s, FlowOf(s), UNCHANGED <<samples, runs, sequence>>,
         outq'[s] = << >>, inq'[s] = inq[s],
         received'[s] = received[s], expected'[s] = expected[s]
  PROVE  FlowOf(s)'
<1>1. Ages
  BY DEF Ages
<1>2. PICK p, q, r, e : p = inq[s] /\ q = outq[s] /\ r = received[s] /\ e = expected[s]
  OBVIOUS
<1>3. /\ \A i \in 1..Len(p) : Message(p[i])
      /\ \A i \in 1..Len(r) : Published(r[i])
      /\ Line(r, p, q)
      /\ e = IF r = << >> THEN 0 ELSE r[Len(r)].seq + 1
  BY <1>2 DEF FlowOf
<1>4. /\ \A i \in 1..Len(p) : Message(p[i])'
      /\ \A i \in 1..Len(r) : Published(r[i])'
  BY <1>1, <1>3, MessageStays, PublishedStays
<1>5. Line(r, p, << >>)
  BY <1>3, LineEmpty
<1>6. inq'[s] = p /\ outq'[s] = << >> /\ received'[s] = r /\ expected'[s] = e
  BY <1>2
<1> QED BY <1>3, <1>4, <1>5, <1>6 DEF FlowOf

LEMMA TransmitFlow ==
  ASSUME TypeOK, NEW s \in Subscribers, FlowOf(s), Transmit(s)
  PROVE  FlowOf(s)'
<1>1. /\ outq[s] # << >>
      /\ inq' = [inq EXCEPT ![s] = Append(@, Head(outq[s]))]
      /\ outq' = [outq EXCEPT ![s] = Tail(@)]
      /\ UNCHANGED <<received, expected, samples, runs, sequence>>
  BY DEF Transmit, publisher, subscriber, history
<1>2. Ages
  BY <1>1 DEF Ages
<1>3. PICK p, q, r, e, M :
        /\ p = inq[s] /\ q = outq[s] /\ r = received[s] /\ e = expected[s]
        /\ p \in Seq(M) /\ q \in Seq(M)
  BY TypesOf
<1>4. PICK a, t : a = Append(p, Head(q)) /\ t = Tail(q)
  OBVIOUS
<1>5. q # << >>
  BY <1>1, <1>3
<1>6. Shorter(t, q) /\ Head(q) = q[1] /\ q[1] \in M
  BY <1>3, <1>4, <1>5, TailElements
<1>7. Longer(a, p, q[1])
  BY <1>3, <1>4, <1>6, AppendElements
<1>8. /\ \A i \in 1..Len(p) : Message(p[i])
      /\ \A i \in 1..Len(q) : Message(q[i])
      /\ \A i \in 1..Len(r) : Published(r[i])
      /\ Line(r, p, q)
      /\ e = IF r = << >> THEN 0 ELSE r[Len(r)].seq + 1
  BY <1>3 DEF FlowOf
<1>9. /\ \A i \in 1..Len(p) : Message(p[i])'
      /\ \A i \in 1..Len(q) : Message(q[i])'
      /\ \A i \in 1..Len(r) : Published(r[i])'
  BY <1>2, <1>8, MessageStays, PublishedStays
<1>10. \A i \in 1..Len(a) : Message(a[i])'
  BY <1>6, <1>7, <1>9 DEF Longer, Shorter
<1>11. \A i \in 1..Len(t) : Message(t[i])'
  BY <1>6, <1>9 DEF Shorter
<1>12. Line(r, a, t)
  BY <1>6, <1>7, <1>8, LineTransmit
<1>13. inq'[s] = a /\ outq'[s] = t /\ received'[s] = r /\ expected'[s] = e
  BY <1>1, <1>3, <1>4, TypesOf
<1> QED BY <1>8, <1>9, <1>10, <1>11, <1>12, <1>13 DEF FlowOf

(* What is left of a message read in part ends with the same body.          *)
LEMMA LeftoverIsMessage ==
  ASSUME NEW h, NEW u, NEW l \in Nat, l = Len(h), NEW k \in 1..(l - 1), Message(h),
         Len(u) = l - k, \A j \in 1..(l - k) : u[j] = h[k + j]
  PROVE  Message(u) /\ Ends(u) = Ends(h)
<1>1. Ends(u) = Ends(h)
  <2>1. l - k \in 1..(l - k) /\ k + (l - k) = l
    OBVIOUS
  <2> QED BY <2>1 DEF Ends
<1>2. \A j \in 1..(Len(u) - 1) : u[j] = Topic
  <2> SUFFICES ASSUME NEW j \in 1..(l - k - 1) PROVE u[j] = Topic
    OBVIOUS
  <2>1. j \in 1..(l - k) /\ k + j \in 1..(l - 1)
    OBVIOUS
  <2>2. h[k + j] = Topic
    BY <2>1 DEF Message
  <2> QED BY <2>1, <2>2
<1>3. Len(u) > 0
  OBVIOUS
<1> QED BY <1>1, <1>2, <1>3 DEF Message

(* A read takes the first sample off the line, or leaves it in its place.   *)
LEMMA ReadFlow ==
  ASSUME TypeOK, NEW s \in Subscribers, FlowOf(s), inq[s] # << >>,
         NEW k \in 1..Len(Head(inq[s])), Read(s, k),
         UNCHANGED <<outq, received, expected, samples, runs, sequence>>
  PROVE  FlowOf(s)'
<1>1. PICK p, q, r, e, F :
        /\ p = inq[s] /\ q = outq[s] /\ r = received[s] /\ e = expected[s]
        /\ p \in Seq(Messages(F)) /\ p # << >> /\ k \in 1..Len(Head(p))
  BY TypesOf
<1>2. PICK t : t = After(p, k)
  OBVIOUS
<1>3. PICK h, l : h = Head(p) /\ h = p[1] /\ l = Len(h) /\ k \in 1..l /\ l \in Nat
  BY <1>1, HeadOf
<1>4. /\ \A i \in 1..Len(p) : Message(p[i])
      /\ \A i \in 1..Len(q) : Message(q[i])
      /\ \A i \in 1..Len(r) : Published(r[i])
      /\ Line(r, p, q)
      /\ e = IF r = << >> THEN 0 ELSE r[Len(r)].seq + 1
  BY <1>1 DEF FlowOf
<1>5. Len(p) \in Nat /\ Len(p) > 0 /\ Message(h)
  BY <1>1, <1>3, <1>4, HeadOf
<1>6. (\A i \in 1..Len(t) : Message(t[i])) /\ Line(r, t, q)
  <2>1. CASE k = l
    <3>1. t = Tail(p)
      BY <1>1, <1>2, <1>3, <2>1, AfterElements
    <3>2. Shorter(t, p)
      BY <1>1, <3>1, TailElements
    <3>3. \A i \in 1..Len(t) : Message(t[i])
      BY <1>4, <3>2 DEF Shorter
    <3> QED BY <1>4, <3>2, <3>3, LineDrop
  <2>2. CASE k < l
    <3>1. /\ Len(t) = Len(p)
          /\ \A i \in 2..Len(p) : t[i] = p[i]
          /\ Len(t[1]) = l - k
          /\ \A j \in 1..(l - k) : t[1][j] = h[k + j]
      <4>1. k < Len(Head(p))
        BY <1>3, <2>2
      <4>2. Rest(After(p, k), p, Head(p), k)
        BY <1>1, <4>1, AfterElements
      <4>3. Rest(t, p, h, k)
        BY <1>2, <1>3, <4>2
      <4> QED BY <1>3, <4>3 DEF Rest
    <3>2. Message(t[1]) /\ Ends(t[1]) = Ends(h)
      <4>1. PICK u : u = t[1]
        OBVIOUS
      <4>2. /\ k \in 1..(l - 1) /\ Len(u) = l - k
            /\ \A j \in 1..(l - k) : u[j] = h[k + j]
        BY <1>3, <2>2, <3>1, <4>1
      <4>3. Message(u) /\ Ends(u) = Ends(h)
        <5>1. l \in Nat /\ l = Len(h) /\ Message(h)
          BY <1>3, <1>5
        <5> QED BY <4>2, <5>1, LeftoverIsMessage
      <4> QED BY <4>1, <4>3
    <3>3. \A i \in 1..Len(p) : Message(t[i]) /\ Ends(t[i]) = Ends(p[i])
      <4> SUFFICES ASSUME NEW i \in 1..Len(p)
                   PROVE  Message(t[i]) /\ Ends(t[i]) = Ends(p[i])
        OBVIOUS
      <4>1. CASE i = 1
        BY <1>3, <3>2, <4>1
      <4>2. CASE i \in 2..Len(p)
        BY <1>4, <3>1, <4>2
      <4> QED BY <1>5, <4>1, <4>2
    <3> QED BY <1>4, <3>1, <3>3, LineShorten
  <2> QED BY <1>3, <2>1, <2>2
<1>7. inq'[s] = t /\ outq'[s] = q /\ received'[s] = r /\ expected'[s] = e
  BY <1>1, <1>2, ReadParts
<1>8. /\ \A i \in 1..Len(t) : Message(t[i])'
      /\ \A i \in 1..Len(q) : Message(q[i])'
      /\ \A i \in 1..Len(r) : Published(r[i])'
  BY <1>4, <1>6, MessageStays, PublishedStays DEF Ages
<1> QED BY <1>4, <1>6, <1>7, <1>8 DEF FlowOf

(* mw_sub's gaps of one subscriber.                                        *)
GapsOf(s) ==
  \A i \in 2..Len(received[s]) :
    received[s][i - 1].run = received[s][i].run =>
      (received[s][i].gap <=> received[s][i].sample # received[s][i - 1].sample + 1)

LEMMA AcceptFlow ==
  ASSUME TypeOK, Flow, NEW s \in Subscribers, GapsOf(s), PollAccept(s)
  PROVE  FlowOf(s)' /\ GapsOf(s)'
<1>1. /\ inq[s] # << >> /\ Len(Head(inq[s])) > 1 /\ Head(inq[s])[2] # Topic
      /\ Read(s, 2) /\ Hand(s, Head(inq[s])[2])
      /\ expected' = [expected EXCEPT ![s] = Head(inq[s])[2].seq + 1]
      /\ UNCHANGED <<outq, samples, runs, sequence>>
  BY DEF PollAccept, publisher, history
<1>2. PICK p, q, r, e, F, R :
        /\ p = inq[s] /\ q = outq[s] /\ r = received[s] /\ e = expected[s]
        /\ p \in Seq(Messages(F)) /\ p # << >>
        /\ R = Sample /\ r \in Seq(R) /\ e \in Nat
  <2>1. expected[s] \in Nat
    BY TypesOf DEF TypeOK
  <2> QED BY <1>1, <2>1, TypesOf
<1>3. PICK b : /\ b = Head(p)[2] /\ b = Ends(p[1]) /\ Published(b)
               /\ Len(Head(p)) = 2
  BY <1>1, <1>2, AcceptedBody
<1>4. PICK t : t = Tail(p) /\ t = After(p, 2)
  <2>1. 2 \in 1..Len(Head(p)) /\ 2 = Len(Head(p))
    BY <1>3
  <2>2. After(p, 2) = Tail(p)
    BY <1>2, <2>1, AfterElements
  <2> QED BY <2>2
<1>5. PICK x : x = [sample |-> b.sample, seq |-> b.seq, run |-> b.run,
                    gap |-> e # 0 /\ b.seq # e]
  OBVIOUS
<1>6. x \in R /\ Published(x) /\ x.sample = b.sample /\ x.seq = b.seq /\ x.run = b.run
      /\ (x.gap <=> e # 0 /\ b.seq # e)
  BY <1>2, <1>3, <1>5 DEF Published, Sample
<1>7. PICK a : a = Append(r, x)
  OBVIOUS
<1>8. Longer(a, r, x) /\ a # << >>
  BY <1>2, <1>6, <1>7, AppendElements
<1>9. Shorter(t, p)
  BY <1>2, <1>4, TailElements
<1>10. inq'[s] = t /\ outq'[s] = q /\ received'[s] = a /\ expected'[s] = b.seq + 1
  <2>1. inq'[s] = t
    <3>1. 2 \in 1..Len(Head(inq[s]))
      BY <1>2, <1>3
    <3>2. inq'[s] = After(inq[s], 2)
      BY <1>1, <3>1, ReadParts
    <3> QED BY <1>2, <1>4, <3>2
  <2>2. received'[s] = a
    BY <1>1, <1>2, <1>3, <1>5, <1>7, TypesOf DEF Hand
  <2>3. expected'[s] = b.seq + 1
    BY <1>1, <1>2, <1>3 DEF TypeOK
  <2> QED BY <1>1, <1>2, <2>1, <2>2, <2>3
<1>11. /\ \A i \in 1..Len(p) : Message(p[i])
       /\ \A i \in 1..Len(q) : Message(q[i])
       /\ \A i \in 1..Len(r) : Published(r[i])
       /\ Line(r, p, q)
       /\ e = IF r = << >> THEN 0 ELSE r[Len(r)].seq + 1
  BY <1>2 DEF Flow, FlowOf
<1>12. Line(a, t, q)
  BY <1>3, <1>6, <1>8, <1>9, <1>11, LineHand
<1>13. /\ \A i \in 1..Len(t) : Message(t[i])
       /\ \A i \in 1..Len(a) : Published(a[i])
  <2>1. \A i \in 1..Len(t) : Message(t[i])
    BY <1>9, <1>11 DEF Shorter
  <2>2. \A i \in 1..Len(a) : Published(a[i])
    BY <1>6, <1>8, <1>11 DEF Longer
  <2> QED BY <2>1, <2>2
<1>14. /\ \A i \in 1..Len(t) : Message(t[i])'
       /\ \A i \in 1..Len(q) : Message(q[i])'
       /\ \A i \in 1..Len(a) : Published(a[i])'
  BY <1>1, <1>11, <1>13, MessageStays, PublishedStays DEF Ages
<1>15. b.seq + 1 = a[Len(a)].seq + 1
  BY <1>6, <1>8 DEF Longer
<1>16. FlowOf(s)'
  BY <1>8, <1>10, <1>12, <1>14, <1>15 DEF FlowOf
<1>17. GapsOf(s)'
  <2> SUFFICES ASSUME NEW i \in 2..Len(a), a[i - 1].run = a[i].run
               PROVE  a[i].gap <=> a[i].sample # a[i - 1].sample + 1
    BY <1>10 DEF GapsOf
  <2>1. /\ Len(a) = Len(r) + 1 /\ Len(r) \in Nat /\ a[Len(r) + 1] = x
        /\ \A j \in 1..Len(r) : a[j] = r[j]
    BY <1>8 DEF Longer
  <2>2. i - 1 \in 1..Len(r) /\ a[i - 1] = r[i - 1]
    BY <2>1
  <2>3. CASE i \in 1..Len(r)
    <3>1. /\ i \in 2..Len(r) /\ a[i] = r[i]
          /\ r[i - 1].run = r[i].run
      BY <2>1, <2>2, <2>3
    <3>2. \A j \in 2..Len(r) :
            r[j - 1].run = r[j].run => (r[j].gap <=> r[j].sample # r[j - 1].sample + 1)
      BY <1>2 DEF GapsOf
    <3>3. r[i].gap <=> r[i].sample # r[i - 1].sample + 1
      BY <3>1, <3>2
    <3> QED BY <2>2, <3>1, <3>3
  <2>4. CASE i = Len(r) + 1
    <3>1. a[i] = x /\ r # << >> /\ i - 1 = Len(r)
      BY <2>1, <2>2, <2>4
    <3>2. PICK d : d = r[Len(r)]
      OBVIOUS
    <3>3. a[i - 1] = d /\ e = d.seq + 1 /\ Published(d) /\ d.run = x.run
      BY <1>11, <2>2, <3>1, <3>2
    <3>4. Before(d, Ends(p[1]))
      BY <1>9, <1>11, <2>2, <3>1, <3>2 DEF Line, Ahead, Shorter
    <3>5. d.sample + b.seq = b.sample + d.seq
      BY <1>3, <1>6, <3>3, <3>4 DEF Before
    <3>6. PICK u, v, y, z \in Nat : u = d.sample /\ v = d.seq /\ y = b.sample /\ z = b.seq
      <4>1. samples \in Nat
        BY TypesOf
      <4>2. d.sample \in Nat /\ d.seq \in Nat
        BY <3>3, <4>1 DEF Published
      <4>3. b.sample \in Nat /\ b.seq \in Nat
        BY <1>3, <4>1 DEF Published
      <4> QED BY <4>2, <4>3
    <3>7. u + z = y + v /\ e = v + 1
      BY <3>3, <3>5, <3>6
    <3>8. (e # 0 /\ z # e) <=> y # u + 1
      <4>1. e # 0
        BY <3>7
      <4>2. z = e => y = u + 1
        BY <3>7
      <4>3. y = u + 1 => z = e
        BY <3>7
      <4> QED BY <4>1, <4>2, <4>3
    <3> QED BY <1>6, <3>1, <3>3, <3>6, <3>8
  <2> QED BY <2>1, <2>3, <2>4
<1> QED BY <1>16, <1>17

-----------------------------------------------------------------------------
(* The invariants.                                                         *)

LEMMA StepTyped ==
  ASSUME Typed, Flow, [Next]_vars
  PROVE  Typed'
<1>1. CASE Start
  BY <1>1, StartTyped
<1>2. CASE Stop
  BY <1>2, StopTyped
<1>3. CASE Publish
  BY <1>3, PublishTyped
<1>4. CASE PublishHalf
  BY <1>4, PublishHalfTyped
<1>5. CASE PublishFails
  BY <1>5, PublishFailsTyped
<1>6. ASSUME NEW s \in Subscribers,
             \/ Connect(s) \/ Disconnect(s) \/ Transmit(s)
             \/ PollLeftover(s) \/ PollReject(s) \/ PollAccept(s) \/ PollThrows(s)
      PROVE  Typed'
  BY <1>6, ConnectTyped, DisconnectTyped, TransmitTyped, PollTyped, PollAcceptTyped
<1>7. CASE UNCHANGED vars
  <2>1. UNCHANGED <<up, runs, sequence, dropped, open, joined, outq, inq, received, expected,
                    malformed, samples, accepted, skipped, broken>>
    BY <1>7 DEF vars, publisher, subscriber, history
  <2>2. Frame' = Frame
    BY <2>1 DEF Frame
  <2>3. TypeOK'
    BY <2>1, <2>2 DEF Typed, TypeOK
  <2>4. Opened'
    BY <2>1 DEF Typed, Opened
  <2> QED BY <2>3, <2>4 DEF Typed
<1> QED BY <1>1, <1>2, <1>3, <1>4, <1>5, <1>6, <1>7 DEF Next

(* A subscriber's queues, and what it made of them.                        *)
Untouched(s) ==
  inq'[s] = inq[s] /\ outq'[s] = outq[s] /\ received'[s] = received[s] /\ expected'[s] = expected[s]

(* The steps between the publisher and one subscriber touch no other.       *)
LEMMA OthersUntouched ==
  ASSUME Typed, NEW s \in Subscribers,
         \/ Disconnect(s) \/ Transmit(s)
         \/ PollLeftover(s) \/ PollReject(s) \/ PollAccept(s) \/ PollThrows(s)
  PROVE  /\ UNCHANGED <<up, samples, runs, sequence, accepted>>
         /\ \A w \in Subscribers \ {s} : Untouched(w)
<1>1. /\ outq \in [Subscribers -> Seq(Messages(Frame))]
      /\ inq \in [Subscribers -> Seq(Messages(Frame))]
      /\ received \in [Subscribers -> Seq(Sample)]
      /\ expected \in [Subscribers -> 0..samples]
  <2>1. TypeOK /\ expected \in [Subscribers -> 0..samples]
    BY DEF Typed, TypeOK
  <2> QED BY <2>1, TypesOf
<1>2. /\ UNCHANGED <<up, samples, runs, sequence, accepted>>
      /\ \/ UNCHANGED inq \/ \E t : inq' = [inq EXCEPT ![s] = t]
      /\ \/ UNCHANGED outq \/ \E t : outq' = [outq EXCEPT ![s] = t]
      /\ \/ UNCHANGED received \/ \E t : received' = [received EXCEPT ![s] = t]
      /\ \/ UNCHANGED expected \/ \E t : expected' = [expected EXCEPT ![s] = t]
  <2>1. CASE Disconnect(s)
    BY <2>1, Zenon DEF Disconnect, subscriber
  <2>2. CASE Transmit(s)
    BY <2>2, Zenon DEF Transmit, publisher, subscriber, history
  <2>3. CASE PollLeftover(s)
    BY <2>3, Zenon DEF PollLeftover, Read, publisher, subscriber, history
  <2>4. CASE PollReject(s)
    BY <2>4, Zenon DEF PollReject, Read, publisher, history
  <2>5. CASE PollAccept(s)
    BY <2>5, Zenon DEF PollAccept, Read, Hand, publisher, history
  <2>6. CASE PollThrows(s)
    <3>1. PICK k \in {1, 2} : Read(s, k)
      BY <2>6 DEF PollThrows
    <3> QED BY <2>6, <3>1, Zenon DEF PollThrows, Read, publisher, subscriber
  <2> QED BY <2>1, <2>2, <2>3, <2>4, <2>5, <2>6
<1> QED BY <1>1, <1>2, Zenon DEF Untouched
Gaps == \A s \in Subscribers : GapsOf(s)

LEMMA GapsStay ==
  ASSUME NEW s, GapsOf(s), received'[s] = received[s]
  PROVE  GapsOf(s)'
<1>1. PICK r : r = received[s]
  OBVIOUS
<1>2. received'[s] = r
  BY <1>1
<1>3. \A i \in 2..Len(r) :
        r[i - 1].run = r[i].run => (r[i].gap <=> r[i].sample # r[i - 1].sample + 1)
  BY <1>1 DEF GapsOf
<1> QED BY <1>2, <1>3 DEF GapsOf

(* A read of a subscriber that hands nothing out.                          *)
LEMMA PollFlow ==
  ASSUME TypeOK, NEW s \in Subscribers, FlowOf(s), GapsOf(s),
         PollLeftover(s) \/ PollReject(s) \/ PollThrows(s)
  PROVE  FlowOf(s)' /\ GapsOf(s)'
<1>1. /\ inq[s] # << >>
      /\ UNCHANGED <<outq, received, expected, samples, runs, sequence>>
  BY DEF PollLeftover, PollReject, PollThrows, publisher, subscriber, history
<1>3. PICK k \in 1..Len(Head(inq[s])) : Read(s, k)
  BY PollReads
<1>4. FlowOf(s)'
  BY <1>1, <1>3, ReadFlow
<1>5. GapsOf(s)'
  BY <1>1, GapsStay
<1> QED BY <1>4, <1>5

LEMMA StepFlow ==
  ASSUME Typed, Flow, Gaps, [Next]_vars
  PROVE  Flow' /\ Gaps'
<1>1. TypeOK /\ Opened
  BY DEF Typed
<1> SUFFICES ASSUME NEW s \in Subscribers PROVE FlowOf(s)' /\ GapsOf(s)'
  BY DEF Flow, Gaps
<1>2. FlowOf(s) /\ GapsOf(s)
  BY DEF Flow, Gaps
<1>3. ASSUME Ages, Untouched(s) PROVE FlowOf(s)' /\ GapsOf(s)'
  <2>1. /\ inq'[s] = inq[s] /\ outq'[s] = outq[s]
        /\ received'[s] = received[s] /\ expected'[s] = expected[s]
    BY <1>3 DEF Untouched
  <2>2. FlowOf(s)'
    BY <1>1, <1>2, <1>3, <2>1, FlowStays
  <2>3. GapsOf(s)'
    BY <1>2, <2>1, GapsStay
  <2> QED BY <2>2, <2>3
<1>4. CASE Start
  BY <1>3, <1>4 DEF Start, subscriber, Ages, Untouched
<1>5. CASE Stop
  <2>1. /\ UNCHANGED <<samples, runs, sequence>>
        /\ outq'[s] = << >> /\ inq'[s] = inq[s]
        /\ received'[s] = received[s] /\ expected'[s] = expected[s]
    BY <1>5 DEF Stop, subscriber, history
  <2>2. FlowOf(s)'
    BY <1>1, <1>2, <2>1, EmptiedFlow
  <2> QED BY <1>2, <2>1, <2>2, GapsStay
<1>6. CASE Publish
  <2>1. Flow'
    BY <1>1, <1>6, PublishFlow
  <2>2. received'[s] = received[s]
    BY <1>6 DEF Publish, subscriber
  <2>3. GapsOf(s)'
    BY <1>2, <2>2, GapsStay
  <2> QED BY <2>1, <2>3 DEF Flow
<1>7. CASE PublishHalf
  BY <1>3, <1>7 DEF PublishHalf, subscriber, Ages, Untouched
<1>8. CASE PublishFails
  BY <1>3, <1>8 DEF PublishFails, subscriber, Ages, Untouched
<1>9. ASSUME NEW w \in Subscribers, Connect(w)
      PROVE  FlowOf(s)' /\ GapsOf(s)'
  BY <1>3, <1>9 DEF Connect, publisher, subscriber, history, Ages, Untouched
<1>10. ASSUME NEW w \in Subscribers,
              \/ Disconnect(w) \/ Transmit(w)
              \/ PollLeftover(w) \/ PollReject(w) \/ PollAccept(w) \/ PollThrows(w)
       PROVE  FlowOf(s)' /\ GapsOf(s)'
  <2>1. /\ UNCHANGED <<samples, runs, sequence>>
        /\ \A v \in Subscribers \ {w} : Untouched(v)
    BY <1>10, OthersUntouched
  <2>2. CASE s # w
    BY <1>3, <2>1, <2>2 DEF Ages
  <2>3. CASE s = w /\ Disconnect(s)
    <3>1. /\ outq'[s] = << >> /\ inq'[s] = inq[s]
          /\ received'[s] = received[s] /\ expected'[s] = expected[s]
      <4>1. outq' = [outq EXCEPT ![s] = << >>] /\ UNCHANGED <<inq, received, expected>>
        BY <2>3 DEF Disconnect, subscriber
      <4> QED BY <1>1, <4>1, TypesOf
    <3>2. FlowOf(s)'
      BY <1>1, <1>2, <2>1, <3>1, EmptiedFlow
    <3> QED BY <1>2, <3>1, <3>2, GapsStay
  <2>4. CASE s = w /\ Transmit(s)
    <3>1. FlowOf(s)'
      BY <1>1, <1>2, <2>4, TransmitFlow
    <3>2. received'[s] = received[s]
      BY <2>4 DEF Transmit, subscriber
    <3> QED BY <1>2, <3>1, <3>2, GapsStay
  <2>5. CASE s = w /\ PollAccept(s)
    BY <1>1, <1>2, <2>5, AcceptFlow
  <2>6. CASE s = w /\ (PollLeftover(s) \/ PollReject(s) \/ PollThrows(s))
    BY <1>1, <1>2, <2>6, PollFlow
  <2> QED BY <1>10, <2>2, <2>3, <2>4, <2>5, <2>6
<1>11. CASE UNCHANGED vars
  BY <1>3, <1>11 DEF vars, publisher, subscriber, history, Ages, Untouched
<1> QED BY <1>4, <1>5, <1>6, <1>7, <1>8, <1>9, <1>10, <1>11 DEF Next

(* The inductive invariant of the queues.                                  *)
Orderly == Typed /\ Flow /\ Gaps

(* Whatever fails, everything on its way is in its line.                    *)
THEOREM OrderlyAlways == Spec => []Orderly
<1>1. Init => Orderly
  <2>1. Init => Gaps
    BY DEF Init, Gaps, GapsOf
  <2> QED BY <2>1, TypedInit, FlowInit DEF Orderly
<1>2. Orderly /\ [Next]_vars => Orderly'
  BY StepTyped, StepFlow DEF Orderly
<1> QED BY <1>1, <1>2, PTL DEF Spec

(* Queues never hold more than the high-water mark, and nothing a           *)
(* subscriber is handed lacks a sample, a number and a run: PubSub.TypeOK.  *)
THEOREM PubSubTypes == Spec => []TypeOK
<1>1. Orderly => TypeOK
  BY DEF Orderly, Typed
<1> QED BY <1>1, OrderlyAlways, PTL

(* mw_sub marks a gap exactly when a sample of the run is missing.          *)
THEOREM GapsAlwaysTell == Spec => []GapsTell
<1>1. Orderly => GapsTell
  BY DEF Orderly, Gaps, GapsOf, GapsTell
<1> QED BY <1>1, OrderlyAlways, PTL
-----------------------------------------------------------------------------
(* The refinement.                                                         *)

(* The samples a subscriber's caller was handed, as LossyStream sees them.  *)
Shown(r) == [i \in 1..Len(r) |-> r[i].sample]

Seen == [s \in Subscribers |-> [i \in 1..Len(received[s]) |-> received[s][i].sample]]

LEMMA ShownAppend ==
  ASSUME NEW S, NEW r \in Seq(S), NEW x \in S
  PROVE  Shown(Append(r, x)) = Append(Shown(r), x.sample)
<1>1. PICK a : a = Append(r, x) /\ Longer(a, r, x)
  BY AppendElements
<1>2. PICK n \in Nat : n = Len(r) /\ Len(a) = n + 1
  BY <1>1 DEF Longer
<1>3. PICK T : T = {r[i].sample : i \in 1..n} \union {x.sample}
  OBVIOUS
<1>4. PICK f \in Seq(T) : f = Shown(r) /\ Len(f) = n /\ \A i \in 1..n : f[i] = r[i].sample
  <2>1. Shown(r) = [i \in 1..n |-> r[i].sample]
    BY <1>2 DEF Shown
  <2>2. [i \in 1..n |-> r[i].sample] \in Seq(T)
    BY <1>3
  <2> QED BY <2>1, <2>2
<1>5. /\ Append(f, x.sample) \in Seq(T) /\ Len(Append(f, x.sample)) = n + 1
      /\ \A i \in 1..n : Append(f, x.sample)[i] = f[i]
      /\ Append(f, x.sample)[n + 1] = x.sample
  <2>1. x.sample \in T
    BY <1>3
  <2> QED BY <1>4, <2>1, AppendElements DEF Longer
<1>6. Append(f, x.sample) = [i \in 1..(n + 1) |-> Append(f, x.sample)[i]]
  BY <1>5
<1>7. \A i \in 1..(n + 1) : Append(f, x.sample)[i] = a[i].sample
  <2> SUFFICES ASSUME NEW i \in 1..(n + 1) PROVE Append(f, x.sample)[i] = a[i].sample
    OBVIOUS
  <2>1. CASE i \in 1..n
    BY <1>1, <1>2, <1>4, <1>5, <2>1 DEF Longer
  <2>2. CASE i = n + 1
    BY <1>1, <1>2, <1>5, <2>2 DEF Longer
  <2>3. i \in 1..n \/ i = n + 1
    OBVIOUS
  <2> QED BY <2>1, <2>2, <2>3, Zenon
<1>8. Shown(a) = [i \in 1..(n + 1) |-> a[i].sample]
  BY <1>2 DEF Shown
<1>9. Append(f, x.sample) = Shown(a)
  BY <1>6, <1>7, <1>8
<1> QED BY <1>1, <1>4, <1>9

(* A sample is handed out after all that were handed out before.            *)
LEMMA AcceptHandsOver ==
  ASSUME TypeOK, Flow, NEW s \in Subscribers, PollAccept(s)
  PROVE  \E n \in 1..samples : Stream!HandOver(s, n)
<1>1. /\ inq[s] # << >> /\ Len(Head(inq[s])) > 1 /\ Head(inq[s])[2] # Topic
      /\ Hand(s, Head(inq[s])[2]) /\ UNCHANGED samples
  BY DEF PollAccept, history
<1>2. PICK b : b = Head(inq[s])[2] /\ b = Ends(inq[s][1]) /\ Published(b)
  BY <1>1, AcceptedBody
<1>3. b.sample \in 1..samples
  BY <1>2 DEF Published
<1>4. PICK x : /\ x \in Sample /\ x.sample = b.sample
               /\ received' = [received EXCEPT ![s] = Append(received[s], x)]
  <2> DEFINE x == [sample |-> b.sample, seq |-> b.seq, run |-> b.run,
                   gap |-> expected[s] # 0 /\ b.seq # expected[s]]
  <2>1. x \in Sample
    BY <1>2 DEF Published, Sample
  <2>2. x.sample = b.sample
    OBVIOUS
  <2>3. received' = [received EXCEPT ![s] = Append(received[s], x)]
    BY <1>1, <1>2 DEF Hand
  <2> HIDE DEF x
  <2> QED BY <2>1, <2>2, <2>3
<1>5. Shown(received'[s]) = Append(Shown(received[s]), b.sample)
  <2>1. PICK r \in Seq(Sample) : r = received[s]
    BY TypesOf
  <2>2. received'[s] = Append(r, x)
    BY <1>4, <2>1, TypesOf
  <2>3. Shown(Append(r, x)) = Append(Shown(r), x.sample)
    BY <1>4, <2>1, ShownAppend
  <2> QED BY <1>4, <2>1, <2>2, <2>3
<1>6. Seen' = [Seen EXCEPT ![s] = Append(Seen[s], b.sample)]
  <2>1. Seen = [w \in Subscribers |-> Shown(received[w])]
    BY DEF Seen, Shown
  <2>2. Seen' = [w \in Subscribers |-> Shown(received'[w])]
    BY DEF Seen, Shown
  <2>3. \A w \in Subscribers \ {s} : received'[w] = received[w]
    BY <1>4, TypesOf
  <2> QED BY <1>5, <2>1, <2>2, <2>3, Zenon
<1>7. \A i \in 1..Len(Seen[s]) : Seen[s][i] < b.sample
  <2>1. PICK p, r : p = inq[s] /\ r = received[s] /\ Ahead(r, p)
    BY DEF Flow, FlowOf, Line
  <2>2. 1 \in 1..Len(p)
    <3>1. Len(inq[s]) \in Nat /\ Len(inq[s]) > 0
      BY <1>1, QueueHead
    <3> QED BY <2>1, <3>1
  <2>3. \A i \in 1..Len(r) : r[i].sample < b.sample
    BY <1>2, <2>1, <2>2 DEF Ahead, Before
  <2>4. Len(r) \in Nat
    BY <2>1, TypesOf
  <2>5. Seen[s] = [i \in 1..Len(r) |-> r[i].sample]
    BY <2>1 DEF Seen
  <2> QED BY <2>3, <2>4, <2>5
<1>8. Stream!HandOver(s, b.sample)
  BY <1>1, <1>6, <1>7 DEF Stream!HandOver, Seen
<1> QED BY <1>3, <1>8

LEMMA StepIsStreamStep ==
  ASSUME Orderly, [Next]_vars
  PROVE  [Stream!StreamNext]_<<samples, Seen>>
<1>1. TypeOK /\ Flow
  BY DEF Orderly, Typed
<1>2. ASSUME received' = received, UNCHANGED samples
      PROVE  UNCHANGED <<samples, Seen>>
  BY <1>2 DEF Seen
<1>3. ASSUME received' = received, Stamp
      PROVE  Stream!StreamNext
  <2>1. UNCHANGED Seen
    BY <1>3 DEF Seen
  <2> QED BY <1>3, <2>1 DEF Stamp, Stream!StreamNext, Stream!PublishOne, Seen
<1>4. CASE Start \/ Stop
  BY <1>2, <1>4 DEF Start, Stop, subscriber, history
<1>5. CASE Publish \/ PublishHalf \/ PublishFails
  BY <1>3, <1>5 DEF Publish, PublishHalf, PublishFails, subscriber
<1>6. ASSUME NEW s \in Subscribers, PollAccept(s)
      PROVE  Stream!StreamNext
  BY <1>1, <1>6, AcceptHandsOver DEF Stream!StreamNext
<1>7. ASSUME NEW s \in Subscribers,
             \/ Connect(s) \/ Disconnect(s) \/ Transmit(s)
             \/ PollLeftover(s) \/ PollReject(s) \/ PollThrows(s)
      PROVE  UNCHANGED <<samples, Seen>>
  BY <1>2, <1>7 DEF Connect, Disconnect, Transmit, PollLeftover, PollReject, PollThrows,
                    publisher, subscriber, history
<1>8. CASE UNCHANGED vars
  BY <1>2, <1>8 DEF vars, subscriber, history
<1> QED BY <1>4, <1>5, <1>6, <1>7, <1>8 DEF Next

(* Over half-sent samples, reconnections and restarts, a subscriber hands   *)
(* out what was published, in its order and none twice: PubSub.Spec         *)
(* implements LossyStream.                                                 *)
THEOREM PubSubImplementsStream == Spec => ImplementsStream
<1>1. Init => Stream!StreamInit
  <2> SUFFICES ASSUME Init PROVE Stream!StreamInit
    OBVIOUS
  <2>1. samples = 0 /\ \A s \in Subscribers : received[s] = << >>
    BY DEF Init
  <2>2. Seen = [s \in Subscribers |-> << >>]
    BY <2>1 DEF Seen
  <2> QED BY <2>1, <2>2 DEF Stream!StreamInit, Seen
<1>2. Orderly /\ [Next]_vars => [Stream!StreamNext]_<<samples, Seen>>
  BY StepIsStreamStep
<1> QED BY <1>1, <1>2, OrderlyAlways, PTL DEF Spec, ImplementsStream, Stream!StreamSpec, Seen
-----------------------------------------------------------------------------
(* What a failure costs.                                                   *)

(* The samples in a queue that will be handed out unless another failure    *)
(* befalls them: those whose message is their own two frames.               *)
SafeIn(q) == {Ends(q[i]).sample : i \in {j \in 1..Len(q) : Len(q[j]) = 2}}

(* The samples a subscriber got, is safe to get, or was never to get.       *)
Covered(s) ==
  skipped[s]["late"] \union skipped[s]["full"]
    \union SafeIn(outq[s]) \union SafeIn(inq[s]) \union Handed(s)

Owed(s) == accepted \ Covered(s)

(* A message begun for a subscriber costs it the sample that will end it.   *)
Pending(s) == IF open.frames # << >> /\ s \in open.to THEN 1 ELSE 0

PaidOf(s) == Cardinality(Owed(s)) + Pending(s) <= broken[s]

Paid == up => \A s \in Subscribers : PaidOf(s)

LEMMA SafeAppend ==
  ASSUME NEW q, NEW m, NEW a, Longer(a, q, m)
  PROVE  /\ SafeIn(q) \subseteq SafeIn(a)
         /\ Len(m) = 2 => Ends(m).sample \in SafeIn(a)
<1>1. /\ Len(a) = Len(q) + 1 /\ a[Len(q) + 1] = m /\ Len(q) \in Nat
      /\ \A i \in 1..Len(q) : a[i] = q[i]
  BY DEF Longer
<1>2. 1..Len(q) \subseteq 1..Len(a) /\ Len(q) + 1 \in 1..Len(a)
  BY <1>1
<1>3. SafeIn(q) \subseteq SafeIn(a)
  BY <1>1, <1>2 DEF SafeIn
<1>4. Len(m) = 2 => Ends(m).sample \in SafeIn(a)
  BY <1>1, <1>2 DEF SafeIn
<1> QED BY <1>3, <1>4

LEMMA SafeTail ==
  ASSUME NEW q, NEW t, Shorter(t, q)
  PROVE  /\ SafeIn(q) \subseteq SafeIn(t) \union {Ends(q[1]).sample}
         /\ Len(q[1]) # 2 => SafeIn(q) \subseteq SafeIn(t)
<1> SUFFICES ASSUME NEW i \in 1..Len(q), Len(q[i]) = 2
             PROVE  Ends(q[i]).sample \in SafeIn(t) \/ i = 1
  BY DEF SafeIn
<1>1. CASE i > 1
  <2>1. i - 1 \in 1..Len(t) /\ t[i - 1] = q[i]
    BY <1>1 DEF Shorter
  <2> QED BY <2>1 DEF SafeIn
<1> QED BY <1>1

LEMMA SafeRest ==
  ASSUME NEW q, NEW t, NEW h, NEW k, Rest(t, q, h, k), Len(q) \in Nat
  PROVE  /\ SafeIn(q) \subseteq SafeIn(t) \union {Ends(q[1]).sample}
         /\ Len(q[1]) # 2 => SafeIn(q) \subseteq SafeIn(t)
<1> SUFFICES ASSUME NEW i \in 1..Len(q), Len(q[i]) = 2
             PROVE  Ends(q[i]).sample \in SafeIn(t) \/ i = 1
  BY DEF SafeIn
<1>1. CASE i > 1
  <2>1. i \in 1..Len(t) /\ t[i] = q[i]
    BY <1>1 DEF Rest
  <2> QED BY <2>1 DEF SafeIn
<1> QED BY <1>1

(* Reading frames off a queue costs at most the sample of its first message,*)
(* and not that one unless the message is its own.                         *)
LEMMA ReadCosts ==
  ASSUME TypeOK, NEW s \in Subscribers, inq[s] # << >>,
         NEW k \in 1..Len(Head(inq[s])), Read(s, k)
  PROVE  /\ SafeIn(inq[s]) \subseteq SafeIn(inq'[s]) \union {Ends(inq[s][1]).sample}
         /\ Len(inq[s][1]) # 2 => SafeIn(inq[s]) \subseteq SafeIn(inq'[s])
<1>1. PICK q, F : q = inq[s] /\ q \in Seq(Messages(F)) /\ q # << >> /\ k \in 1..Len(Head(q))
  BY TypesOf
<1>2. PICK t : t = After(q, k) /\ inq'[s] = t
  BY <1>1, ReadParts
<1>3. PICK h, l : h = Head(q) /\ l = Len(h) /\ k \in 1..l /\ Len(q) \in Nat /\ l \in Nat
  BY <1>1, HeadOf
<1>4. CASE k = l
  <2>1. t = Tail(q)
    BY <1>1, <1>2, <1>3, <1>4, AfterElements
  <2>2. Shorter(t, q)
    BY <1>1, <2>1, TailElements
  <2> QED BY <1>1, <1>2, <2>2, SafeTail
<1>5. CASE k < l
  <2>1. Rest(t, q, h, k)
    BY <1>1, <1>2, <1>3, <1>5, AfterElements
  <2> QED BY <1>1, <1>2, <1>3, <2>1, SafeRest
<1> QED BY <1>3, <1>4, <1>5
LEMMA OwedFinite == ASSUME TypeOK, NEW s PROVE IsFiniteSet(Owed(s))
<1>1. accepted \subseteq 1..samples /\ samples \in Nat
  BY DEF TypeOK
<1>2. IsFiniteSet(1..samples)
  BY <1>1, FS_Interval
<1>3. Owed(s) \subseteq 1..samples
  BY <1>1 DEF Owed
<1> QED BY <1>2, <1>3, FS_Subset

(* A step at no cost to a subscriber.                                      *)
LEMMA NoCost ==
  ASSUME TypeOK, NEW s \in Subscribers, PaidOf(s),
         Owed(s)' \subseteq Owed(s), Pending(s)' <= Pending(s), broken'[s] = broken[s]
  PROVE  PaidOf(s)'
<1>1. PICK A, B, i, j, b :
        /\ A = Owed(s) /\ B = Owed(s)' /\ i = Pending(s) /\ j = Pending(s)' /\ b = broken[s]
        /\ IsFiniteSet(A) /\ B \in SUBSET A /\ j <= i
  BY OwedFinite
<1>2. i \in {0, 1} /\ j \in {0, 1} /\ b \in Nat /\ broken'[s] = b
  BY <1>1 DEF TypeOK, Pending
<1>3. PICK m, n : m = Cardinality(A) /\ n = Cardinality(B) /\ m \in Nat /\ n \in Nat /\ n <= m
  BY <1>1, FS_Subset, FS_CardinalityType
<1>4. m + i <= b
  BY <1>1, <1>3 DEF PaidOf
<1>5. n + j <= b
  BY <1>1, <1>2, <1>3, <1>4
<1> QED BY <1>1, <1>2, <1>3, <1>5 DEF PaidOf

(* A step that costs a subscriber one sample, for which it is charged now,  *)
(* or was charged when the message that is open was begun.                  *)
LEMMA OneCost ==
  ASSUME TypeOK, NEW s \in Subscribers, PaidOf(s), NEW n,
         Owed(s)' \subseteq Owed(s) \union {n},
         \/ Pending(s)' <= Pending(s) /\ broken'[s] = broken[s] + 1
         \/ Pending(s)' = 0 /\ Pending(s) = 1 /\ broken'[s] = broken[s]
  PROVE  PaidOf(s)'
<1>1. PICK A, B, i, j, b, c :
        /\ A = Owed(s) /\ B = Owed(s)' /\ i = Pending(s) /\ j = Pending(s)' /\ b = broken[s]
        /\ IsFiniteSet(A) /\ B \in SUBSET (A \union {n}) /\ c = broken'[s]
  BY OwedFinite
<1>2. i \in {0, 1} /\ j \in {0, 1} /\ b \in Nat
  BY <1>1 DEF TypeOK, Pending
<1>3. \/ j <= i /\ c = b + 1
      \/ j = 0 /\ i = 1 /\ c = b
  BY <1>1
<1>4. PICK m, k : /\ m = Cardinality(A) /\ k = Cardinality(B) /\ m \in Nat /\ k \in Nat
                  /\ k <= m + 1
  <2>1. PICK M : M = A \union {n} /\ IsFiniteSet(M)
    BY <1>1, FS_AddElement
  <2>2. PICK m, l : m = Cardinality(A) /\ l = Cardinality(M) /\ m \in Nat /\ l \in {m, m + 1}
    BY <1>1, <2>1, FS_AddElement, FS_CardinalityType
  <2>3. PICK k : k = Cardinality(B) /\ k \in Nat /\ k <= l
    BY <1>1, <2>1, <2>2, FS_Subset, FS_CardinalityType
  <2>4. k <= m + 1
    BY <2>2, <2>3
  <2> QED BY <2>2, <2>3, <2>4
<1>5. m + i <= b
  BY <1>1, <1>4 DEF PaidOf
<1>6. k + j <= c
  BY <1>2, <1>3, <1>4, <1>5
<1> QED BY <1>1, <1>4, <1>6 DEF PaidOf

(* A subscriber none of whose queues is touched.                           *)
LEMMA PaidStays ==
  ASSUME TypeOK, NEW s \in Subscribers, PaidOf(s), Untouched(s),
         UNCHANGED accepted, skipped'[s] = skipped[s], broken'[s] = broken[s],
         Pending(s)' <= Pending(s)
  PROVE  PaidOf(s)'
<1>1. Owed(s)' = Owed(s)
  BY DEF Owed, Covered, Untouched, SafeIn, Ends, Handed
<1> QED BY <1>1, NoCost

LEMMA PublishPaid ==
  ASSUME TypeOK, Opened, NEW s \in Subscribers, PaidOf(s), Publish
  PROVE  PaidOf(s)'
<1>1. /\ open' = Nothing /\ accepted' = accepted \union {samples'}
      /\ UNCHANGED <<inq, received, broken>>
  BY DEF Publish, subscriber
<1>2. Pending(s)' = 0 /\ 0 <= Pending(s) /\ broken'[s] = broken[s]
  BY <1>1 DEF Pending, Nothing
<1>3. PICK m :
        /\ Len(open.frames) \in Nat /\ Len(m) = Len(open.frames) + 2
        /\ Ends(m) = Body(samples', sequence)
        /\ s \in Recipients => outq'[s] = Append(outq[s], m) /\ skipped'[s] = skipped[s]
        /\ s \notin Recipients =>
             /\ outq'[s] = outq[s]
             /\ \E why \in {"late", "full"} :
                  skipped'[s] = [skipped[s] EXCEPT ![why] = @ \union {samples'}]
        /\ m \in Messages(Frame')
  BY PublishParts
<1>4. SafeIn(inq[s])' = SafeIn(inq[s]) /\ Handed(s)' = Handed(s)
  BY <1>1 DEF SafeIn, Ends, Handed
<1>5. CASE s \in Recipients
  <2>1. PICK q, a, M : q = outq[s] /\ a = Append(q, m) /\ q \in Seq(M) /\ m \in M
    <3>1. outq[s] \in Seq(Messages(Frame'))
      BY StampTypes DEF Publish
    <3> QED BY <1>3, <3>1
  <2>2. Longer(a, q, m)
    BY <2>1, AppendElements
  <2>3. /\ SafeIn(q) \subseteq SafeIn(a)
        /\ Len(m) = 2 => Ends(m).sample \in SafeIn(a)
    BY <2>2, SafeAppend
  <2>4. outq'[s] = a /\ skipped'[s] = skipped[s]
    BY <1>3, <1>5, <2>1
  <2>5. Covered(s) \subseteq Covered(s)'
    BY <1>4, <2>1, <2>3, <2>4 DEF Covered
  <2>6. CASE open.frames = << >>
    <3>1. Len(m) = 2
      BY <1>3, <2>6
    <3>2. samples' \in SafeIn(a)
      <4>1. Body(samples', sequence).sample = samples'
        BY DEF Body
      <4>2. Ends(m).sample \in SafeIn(a)
        BY <2>3, <3>1
      <4> QED BY <1>3, <4>1, <4>2
    <3>3. samples' \in Covered(s)'
      BY <2>4, <3>2 DEF Covered
    <3>4. Owed(s)' \subseteq Owed(s)
      BY <1>1, <2>5, <3>3 DEF Owed
    <3> QED BY <1>2, <3>4, NoCost
  <2>7. CASE open.frames # << >>
    <3>1. Pending(s) = 1
      BY <1>5, <2>7 DEF Recipients, Pending
    <3>2. Owed(s)' \subseteq Owed(s) \union {samples'}
      BY <1>1, <2>5 DEF Owed
    <3> QED BY <1>2, <3>1, <3>2, OneCost
  <2> QED BY <2>6, <2>7
<1>6. CASE s \notin Recipients
  <2>1. outq'[s] = outq[s]
    BY <1>3, <1>6
  <2>2. PICK why \in {"late", "full"} :
          skipped'[s] = [skipped[s] EXCEPT ![why] = @ \union {samples'}]
    BY <1>3, <1>6
  <2>3. /\ skipped[s]["late"] \union skipped[s]["full"] \union {samples'}
             = skipped'[s]["late"] \union skipped'[s]["full"]
    <3>1. skipped[s] \in [{"late", "full"} -> SUBSET (1..samples)]
      BY TypesOf
    <3> QED BY <2>2, <3>1
  <2>4. Covered(s) \subseteq Covered(s)' /\ samples' \in Covered(s)'
    <3>1. SafeIn(outq[s])' = SafeIn(outq[s])
      BY <2>1 DEF SafeIn, Ends
    <3> QED BY <1>4, <2>3, <3>1 DEF Covered
  <2>5. Owed(s)' \subseteq Owed(s)
    BY <1>1, <2>4 DEF Owed
  <2> QED BY <1>2, <2>5, NoCost
<1> QED BY <1>5, <1>6
LEMMA HalfPaid ==
  ASSUME TypeOK, NEW s \in Subscribers, PaidOf(s), PublishHalf
  PROVE  PaidOf(s)'
<1>1. /\ open' = [to |-> Recipients, frames |-> Append(open.frames, Topic)]
      /\ broken' = [w \in Subscribers |-> broken[w] + (IF w \in Recipients THEN 1 ELSE 0)]
      /\ UNCHANGED <<outq, inq, received, accepted, skipped>>
  BY DEF PublishHalf, subscriber
<1>2. Owed(s)' = Owed(s)
  BY <1>1 DEF Owed, Covered, SafeIn, Ends, Handed
<1>3. CASE s \in Recipients
  <2>1. broken'[s] = broken[s] + 1
    BY <1>1, <1>3
  <2>2. PICK A, i, j, b, n :
          /\ A = Owed(s) /\ i = Pending(s) /\ j = Pending(s)' /\ b = broken[s]
          /\ n = Cardinality(A) /\ n \in Nat
    BY OwedFinite, FS_CardinalityType
  <2>3. i \in {0, 1} /\ j \in {0, 1} /\ b \in Nat
    BY <2>2 DEF TypeOK, Pending
  <2>4. n + i <= b
    BY <2>2 DEF PaidOf
  <2>5. n + j <= b + 1
    BY <2>2, <2>3, <2>4
  <2> QED BY <1>2, <2>1, <2>2, <2>5 DEF PaidOf
<1>4. CASE s \notin Recipients
  <2>1. broken'[s] = broken[s]
    <3>1. broken[s] \in Nat /\ broken'[s] = broken[s] + 0
      BY <1>1, <1>4 DEF TypeOK
    <3> QED BY <3>1
  <2>2. Pending(s)' = 0 /\ 0 <= Pending(s)
    BY <1>1, <1>4 DEF Pending
  <2> QED BY <1>2, <2>1, <2>2, NoCost
<1> QED BY <1>3, <1>4

LEMMA DisconnectPaid ==
  ASSUME TypeOK, NEW s \in Subscribers, PaidOf(s), Disconnect(s)
  PROVE  PaidOf(s)'
<1> DEFINE gone == {n \in accepted : \E i \in 1..Len(outq[s]) :
                      \E j \in 1..Len(outq[s][i]) : outq[s][i][j].sample = n}
<1>1. /\ open' = [open EXCEPT !.to = @ \ {s}]
      /\ skipped' = [skipped EXCEPT ![s]["late"] = @ \union gone]
      /\ UNCHANGED <<inq, received, accepted, broken>>
  BY DEF Disconnect, subscriber
<1>2. SafeIn(outq[s]) \cap accepted \subseteq gone
  BY DEF SafeIn, Ends
<1> HIDE DEF gone
<1>3. /\ skipped'[s]["late"] = skipped[s]["late"] \union gone
      /\ skipped'[s]["full"] = skipped[s]["full"]
  BY <1>1, TypesOf
<1>4. Owed(s)' \subseteq Owed(s)
  <2>1. SafeIn(inq[s])' = SafeIn(inq[s]) /\ Handed(s)' = Handed(s)
    BY <1>1 DEF SafeIn, Ends, Handed
  <2> QED BY <1>1, <1>2, <1>3, <2>1 DEF Owed, Covered
<1>5. Pending(s)' = 0 /\ 0 <= Pending(s) /\ broken'[s] = broken[s]
  <2>1. open'.to = open.to \ {s}
    BY <1>1, TypesOf
  <2> QED BY <1>1, <2>1 DEF Pending
<1> QED BY <1>4, <1>5, NoCost

LEMMA TransmitPaid ==
  ASSUME TypeOK, NEW s \in Subscribers, PaidOf(s), Transmit(s)
  PROVE  PaidOf(s)'
<1>1. /\ outq[s] # << >>
      /\ inq' = [inq EXCEPT ![s] = Append(@, Head(outq[s]))]
      /\ outq' = [outq EXCEPT ![s] = Tail(@)]
      /\ UNCHANGED <<open, received, accepted, skipped, broken>>
  BY DEF Transmit, publisher, subscriber, history
<1>2. PICK p, q, M : p = inq[s] /\ q = outq[s] /\ p \in Seq(M) /\ q \in Seq(M) /\ q # << >>
  BY <1>1, TypesOf
<1>3. PICK a, t : a = Append(p, Head(q)) /\ t = Tail(q)
  OBVIOUS
<1>4. Shorter(t, q) /\ Head(q) = q[1] /\ q[1] \in M
  BY <1>2, <1>3, TailElements
<1>5. Longer(a, p, q[1])
  BY <1>2, <1>3, <1>4, AppendElements
<1>6. SafeIn(q) \union SafeIn(p) \subseteq SafeIn(t) \union SafeIn(a)
  BY <1>4, <1>5, SafeAppend, SafeTail
<1>7. inq'[s] = a /\ outq'[s] = t
  BY <1>1, <1>2, <1>3, TypesOf
<1>8. Owed(s)' \subseteq Owed(s)
  <2>1. Handed(s)' = Handed(s)
    BY <1>1 DEF Handed
  <2> QED BY <1>1, <1>2, <1>6, <1>7, <2>1 DEF Owed, Covered
<1>9. Pending(s)' <= Pending(s) /\ broken'[s] = broken[s]
  BY <1>1 DEF Pending
<1> QED BY <1>8, <1>9, NoCost

(* A poll that takes no sample: what it reads is the front of a message that*)
(* is not its own, so that no sample is lost by it.                        *)
LEMMA NothingTakenPaid ==
  ASSUME TypeOK, Flow, NEW s \in Subscribers, PaidOf(s), PollLeftover(s) \/ PollReject(s)
  PROVE  PaidOf(s)'
<1>1. UNCHANGED <<open, outq, received, accepted, skipped, broken>>
  BY DEF PollLeftover, PollReject, publisher, subscriber, history
<1>2. inq[s] # << >>
  BY DEF PollLeftover, PollReject
<1>3. PICK k \in 1..Len(Head(inq[s])) : Read(s, k)
  BY PollReads
<1>4. PICK h : h = Head(inq[s]) /\ h = inq[s][1]
  BY <1>2, QueueHead
<1>5. Len(h) # 2
  <2>1. CASE PollLeftover(s)
    <3>1. Len(h) = 1
      BY <1>4, <2>1 DEF PollLeftover
    <3> QED BY <3>1
  <2>2. CASE PollReject(s)
    <3> SUFFICES ASSUME Len(h) = 2 PROVE FALSE
      OBVIOUS
    <3>1. Message(h)
      <4>1. 1 \in 1..Len(inq[s])
        BY <1>2, QueueHead
      <4> QED BY <1>4, <4>1 DEF Flow, FlowOf
    <3>2. h[2].sample \in 1..samples
      BY <3>1 DEF Message, Published, Ends
    <3>3. h[2] = Topic
      BY <1>4, <2>2 DEF PollReject
    <3>4. Topic.sample = 0
      BY DEF Topic
    <3> QED BY <3>2, <3>3, <3>4
  <2> QED BY <2>1, <2>2
<1>6. SafeIn(inq[s]) \subseteq SafeIn(inq'[s])
  BY <1>2, <1>3, <1>4, <1>5, ReadCosts
<1>7. Owed(s)' \subseteq Owed(s)
  <2>1. SafeIn(outq[s])' = SafeIn(outq[s]) /\ Handed(s)' = Handed(s)
    BY <1>1 DEF SafeIn, Ends, Handed
  <2> QED BY <1>1, <1>6, <2>1 DEF Owed, Covered
<1>8. Pending(s)' <= Pending(s) /\ broken'[s] = broken[s]
  BY <1>1 DEF Pending
<1> QED BY <1>7, <1>8, NoCost

LEMMA AcceptPaid ==
  ASSUME TypeOK, Flow, NEW s \in Subscribers, PaidOf(s), PollAccept(s)
  PROVE  PaidOf(s)'
<1>1. /\ inq[s] # << >> /\ Len(Head(inq[s])) > 1 /\ Head(inq[s])[2] # Topic
      /\ Read(s, 2) /\ Hand(s, Head(inq[s])[2])
      /\ UNCHANGED <<open, outq, accepted, skipped, broken>>
  BY DEF PollAccept, publisher, history
<1>2. PICK b : b = Head(inq[s])[2] /\ b = Ends(inq[s][1]) /\ Len(Head(inq[s])) = 2
  BY <1>1, AcceptedBody
<1>3. SafeIn(inq[s]) \subseteq SafeIn(inq'[s]) \union {b.sample}
  <2>1. 2 \in 1..Len(Head(inq[s]))
    BY <1>2
  <2> QED BY <1>1, <1>2, <2>1, ReadCosts
<1>4. Handed(s) \union {b.sample} \subseteq Handed(s)'
  <2>1. PICK r, S : r = received[s] /\ r \in Seq(S) /\ S = Sample
    BY TypesOf
  <2>2. PICK x : /\ x = [sample |-> b.sample, seq |-> b.seq, run |-> b.run,
                         gap |-> expected[s] # 0 /\ b.seq # expected[s]]
    OBVIOUS
  <2>3. PICK a : a = Append(r, x) /\ received'[s] = a
    BY <1>1, <1>2, <2>1, <2>2, TypesOf DEF Hand
  <2>4. x.sample = b.sample
    BY <2>2
  <2>5. PICK T : r \in Seq(T) /\ x \in T
    <3>1. S \subseteq S \union {x}
      OBVIOUS
    <3>2. r \in Seq(S \union {x})
      BY <2>1, <3>1, SeqMonotonic
    <3> QED BY <3>2
  <2>6. Longer(a, r, x)
    BY <2>3, <2>5, AppendElements
  <2>7. /\ Len(r) \in Nat /\ Len(r) + 1 \in 1..Len(a) /\ a[Len(r) + 1] = x
        /\ \A i \in 1..Len(r) : i \in 1..Len(a) /\ a[i] = r[i]
    BY <2>6 DEF Longer
  <2>8. Handed(s) = {r[i].sample : i \in 1..Len(r)}
    BY <2>1 DEF Handed
  <2>9. Handed(s)' = {a[i].sample : i \in 1..Len(a)}
    BY <2>3 DEF Handed
  <2> QED BY <2>4, <2>7, <2>8, <2>9
<1>5. Owed(s)' \subseteq Owed(s)
  <2>1. SafeIn(outq[s])' = SafeIn(outq[s])
    BY <1>1 DEF SafeIn, Ends
  <2> QED BY <1>1, <1>3, <1>4, <2>1 DEF Owed, Covered
<1>6. Pending(s)' <= Pending(s) /\ broken'[s] = broken[s]
  BY <1>1 DEF Pending
<1> QED BY <1>5, <1>6, NoCost

LEMMA ThrowsPaid ==
  ASSUME TypeOK, NEW s \in Subscribers, PaidOf(s), PollThrows(s)
  PROVE  PaidOf(s)'
<1>1. /\ inq[s] # << >> /\ broken' = [broken EXCEPT ![s] = @ + 1]
      /\ UNCHANGED <<open, outq, received, accepted, skipped>>
  BY DEF PollThrows, publisher, subscriber
<1>2. PICK k \in 1..Len(Head(inq[s])) : Read(s, k)
  BY PollReads
<1>3. PICK n : SafeIn(inq[s]) \subseteq SafeIn(inq'[s]) \union {n}
  BY <1>1, <1>2, ReadCosts
<1>4. Owed(s)' \subseteq Owed(s) \union {n}
  <2>1. SafeIn(outq[s])' = SafeIn(outq[s]) /\ Handed(s)' = Handed(s)
    BY <1>1 DEF SafeIn, Ends, Handed
  <2> QED BY <1>1, <1>3, <2>1 DEF Owed, Covered
<1>5. Pending(s)' <= Pending(s) /\ broken'[s] = broken[s] + 1
  <2>1. broken'[s] = broken[s] + 1
    BY <1>1 DEF TypeOK
  <2>2. Pending(s)' <= Pending(s)
    BY <1>1 DEF Pending
  <2> QED BY <2>1, <2>2
<1> QED BY <1>4, <1>5, OneCost
LEMMA StepPaid ==
  ASSUME Typed, Flow, Paid, [Next]_vars
  PROVE  Paid'
<1>1. TypeOK /\ Opened
  BY DEF Typed
<1> SUFFICES ASSUME up', NEW s \in Subscribers PROVE PaidOf(s)'
  BY DEF Paid
<1>2. CASE Start
  <2>1. /\ accepted' = {} /\ open' = Nothing /\ broken'[s] = 0
    BY <1>1, <1>2 DEF Start, Opened
  <2>2. Owed(s)' = {} /\ Pending(s)' = 0
    BY <2>1 DEF Owed, Pending, Nothing
  <2>3. Cardinality(Owed(s)') = 0
    BY <2>2, FS_EmptySet
  <2> QED BY <2>1, <2>2, <2>3 DEF PaidOf
<1>3. CASE Stop
  BY <1>3 DEF Stop
<1>4. ASSUME up PROVE PaidOf(s)
  BY <1>4 DEF Paid
<1>5. CASE Publish
  <2>1. PaidOf(s)
    BY <1>4, <1>5 DEF Publish, Stamp
  <2> QED BY <1>1, <1>5, <2>1, PublishPaid
<1>6. CASE PublishHalf
  <2>1. PaidOf(s)
    BY <1>4, <1>6 DEF PublishHalf, Stamp
  <2> QED BY <1>1, <1>6, <2>1, HalfPaid
<1>7. ASSUME up, UNCHANGED <<open, outq, inq, received, expected, accepted, skipped, broken>>
      PROVE  PaidOf(s)'
  <2>1. Pending(s)' <= Pending(s)
    BY <1>7 DEF Pending
  <2>2. Untouched(s) /\ PaidOf(s)
    BY <1>4, <1>7 DEF Untouched
  <2> QED BY <1>1, <1>7, <2>1, <2>2, PaidStays
<1>8. CASE PublishFails
  BY <1>7, <1>8 DEF PublishFails, Stamp, subscriber
<1>9. ASSUME NEW w \in Subscribers, Connect(w)
      PROVE  PaidOf(s)'
  BY <1>7, <1>9 DEF Connect, publisher, subscriber, history
<1>10. ASSUME NEW w \in Subscribers,
              \/ Disconnect(w) \/ Transmit(w)
              \/ PollLeftover(w) \/ PollReject(w) \/ PollAccept(w) \/ PollThrows(w)
       PROVE  PaidOf(s)'
  <2>1. up' = up /\ accepted' = accepted /\ \A v \in Subscribers \ {w} : Untouched(v)
    BY <1>10, OthersUntouched
  <2>2. PaidOf(s)
    BY <1>4, <2>1
  <2>3. CASE s # w
    <3>1. skipped'[s] = skipped[s] /\ broken'[s] = broken[s]
      <4>1. /\ UNCHANGED skipped \/ \E t : skipped' = [skipped EXCEPT ![w] = t]
            /\ UNCHANGED broken \/ \E t : broken' = [broken EXCEPT ![w] = t]
        BY <1>10, Zenon DEF Disconnect, Transmit, PollLeftover, PollReject, PollAccept,
                            PollThrows, history
      <4>2. broken \in [Subscribers -> Nat]
        BY <1>1 DEF TypeOK
      <4> QED BY <1>1, <2>3, <4>1, <4>2, TypesOf, Zenon
    <3>2. Pending(s)' <= Pending(s)
      <4>1. open' = open \/ open' = [open EXCEPT !.to = @ \ {w}]
        BY <1>10 DEF Disconnect, Transmit, PollLeftover, PollReject, PollAccept,
                     PollThrows, publisher
      <4>2. open'.frames = open.frames /\ (s \in open'.to => s \in open.to)
        BY <1>1, <4>1, TypesOf
      <4> QED BY <4>2 DEF Pending
    <3> QED BY <1>1, <2>1, <2>2, <2>3, <3>1, <3>2, PaidStays
  <2>4. CASE s = w
    <3>1. CASE Disconnect(s)
      BY <1>1, <2>2, <3>1, DisconnectPaid
    <3>2. CASE Transmit(s)
      BY <1>1, <2>2, <3>2, TransmitPaid
    <3>3. CASE PollLeftover(s) \/ PollReject(s)
      BY <1>1, <2>2, <3>3, NothingTakenPaid
    <3>4. CASE PollAccept(s)
      BY <1>1, <2>2, <3>4, AcceptPaid
    <3>5. CASE PollThrows(s)
      BY <1>1, <2>2, <3>5, ThrowsPaid
    <3> QED BY <1>10, <2>4, <3>1, <3>2, <3>3, <3>4, <3>5
  <2> QED BY <2>3, <2>4
<1>11. CASE UNCHANGED vars
  BY <1>7, <1>11 DEF vars, publisher, subscriber, history
<1> QED BY <1>2, <1>3, <1>5, <1>6, <1>8, <1>9, <1>10, <1>11 DEF Next

(* Every sample lost to a failure, and the one a half-sent message will     *)
(* lose, has a failure of its own in broken.                               *)
THEOREM PaidAlways == Spec => [](Orderly /\ Paid)
<1>1. Init => Paid
  BY DEF Init, Paid
<1>2. Orderly /\ Paid /\ [Next]_vars => Paid'
  BY StepPaid DEF Orderly
<1> QED BY <1>1, <1>2, OrderlyAlways, PTL DEF Spec

(* However the frames behind a failure are glued together, it costs each    *)
(* subscriber one sample of those that publish() returned TRUE for.         *)
THEOREM FailuresCostOneEach == Spec => []OneFailureCostsOne
<1>1. ASSUME Orderly, Paid PROVE OneFailureCostsOne
  <2> SUFFICES ASSUME up, NEW s \in Subscribers
               PROVE  Cardinality(accepted \ (skipped[s]["late"] \union skipped[s]["full"]
                                   \union Underway(s) \union Handed(s))) <= broken[s]
    BY DEF OneFailureCostsOne
  <2>1. TypeOK /\ PaidOf(s)
    BY <1>1 DEF Orderly, Typed, Paid
  <2>2. SafeIn(outq[s]) \union SafeIn(inq[s]) \subseteq Underway(s)
    BY DEF SafeIn, Ends, Underway
  <2>3. PICK A, B :
          /\ A = Owed(s)
          /\ B = accepted \ (skipped[s]["late"] \union skipped[s]["full"]
                               \union Underway(s) \union Handed(s))
    OBVIOUS
  <2>4. B \in SUBSET A
    BY <2>2, <2>3 DEF Owed, Covered
  <2>5. PICK i, b : i = Pending(s) /\ b = broken[s] /\ i \in {0, 1} /\ b \in Nat
    BY <2>1 DEF TypeOK, Pending
  <2>6. PICK m, n : m = Cardinality(A) /\ n = Cardinality(B) /\ m \in Nat /\ n \in Nat /\ n <= m
    <3>1. IsFiniteSet(A)
      BY <2>1, <2>3, OwedFinite
    <3> QED BY <2>4, <3>1, FS_Subset, FS_CardinalityType
  <2>7. m + i <= b
    BY <2>1, <2>3, <2>5, <2>6 DEF PaidOf
  <2>8. n <= b
    BY <2>5, <2>6, <2>7
  <2> QED BY <2>3, <2>5, <2>6, <2>8
<1>2. Orderly /\ Paid => OneFailureCostsOne
  BY <1>1
<1> QED BY <1>2, PaidAlways, PTL
=============================================================================
