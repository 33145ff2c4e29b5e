------------------------------- MODULE PubSub -------------------------------
(***************************************************************************)
(* The live path: mw::Publisher and mw::Subscriber (src/transport.cpp), the *)
(* scan and cloud publishers and subscribers on top of them, and the        *)
(* sequence numbers of mw::stamp() with the gap detection of mw_sub.        *)
(*                                                                          *)
(* A sample is two frames, its topic and its body, sent by two calls; the   *)
(* second may fail when the first did not.  ZeroMQ keeps the frames sent so *)
(* far as the beginning of a message, and the next sample's become its      *)
(* continuation.  Between the sockets there are a queue at either end, and  *)
(* a connection that comes up some time after the subscriber asked for it.  *)
(*                                                                          *)
(* One publisher process that is killed and started again, under the one    *)
(* topic its subscribers subscribed to when they were constructed.  A queue *)
(* takes messages again as soon as it has room; ZeroMQ may wait for more.   *)
(***************************************************************************)
EXTENDS Naturals, Sequences, FiniteSets

CONSTANTS
  Subscribers,      (* the subscriber processes                             *)
  HighWaterMark,    (* kHighWaterMark, at either end                        *)
  MayFail,          (* whether a send or a receive may throw, or an         *)
                    (* allocation while a sample is serialised              *)
  MaxSamples,       (* bound: calls of publish()                            *)
  MaxRuns           (* bound: starts of the publisher                       *)

ASSUME PubSubAssumption ==
  /\ HighWaterMark \in Nat \ {0}
  /\ MayFail \in BOOLEAN
  /\ MaxSamples \in Nat
  /\ MaxRuns \in Nat

VARIABLES
  up,           (* whether the publisher runs                               *)
  runs,         (* which of its runs this is                                *)
  sequence,     (* the counter handed to mw::stamp()                        *)
  dropped,      (* Publisher::Impl::dropped                                 *)
  open,         (* frames sent whose message is not complete, and to whom   *)
  joined,       (* the subscribers connected to this run                    *)
  outq,         (* publisher's end: complete messages for each subscriber   *)
  inq,          (* subscriber's end; the first may have been read in part   *)
  received,     (* history: what each subscriber's caller was handed        *)
  expected,     (* mw_sub's expected; 0 while first is still true           *)
  malformed,    (* messages a subscriber could not parse                    *)
  samples,      (* history: calls of publish() over all runs                *)
  accepted,     (* history: those of this run that returned TRUE            *)
  skipped,      (* history: those of this run that were not queued for a    *)
                (* subscriber: its queue was "full", or it came too "late"  *)
  broken        (* history: sends and receives that failed half-way through *)
                (* a message, in this run, per subscriber                   *)

publisher  == <<up, runs, sequence, dropped, open>>
subscriber == <<received, expected, malformed>>
history    == <<samples, accepted, skipped, broken>>
vars == <<publisher, joined, outq, inq, subscriber, history>>

-----------------------------------------------------------------------------
(* Frames.  A topic frame does not parse as a body: the first byte of       *)
(* "lidar." is the tag of a group that nothing opened.                      *)

Body(n, q) == [sample |-> n, seq |-> q, run |-> runs]

Topic == [sample |-> 0, seq |-> 0, run |-> 0]

Frame == [sample : 0..samples, seq : Nat, run : 0..runs]

Nothing == [to |-> {}, frames |-> << >>]

(* The types, and the bound on what waits for a slow subscriber ("Queue     *)
(* depth, in messages, on both ends", transport.cpp:12-14).                 *)
TypeOK ==
  /\ up \in BOOLEAN
  /\ runs \in 0..MaxRuns
  /\ sequence \in 0..samples
  /\ dropped \in 0..samples
  /\ open \in [to : SUBSET Subscribers, frames : Seq({Topic})]
  /\ joined \subseteq Subscribers
  /\ outq \in [Subscribers -> Seq(Seq(Frame) \ {<< >>})]
  /\ inq \in [Subscribers -> Seq(Seq(Frame) \ {<< >>})]
  /\ \A s \in Subscribers : Len(outq[s]) <= HighWaterMark /\ Len(inq[s]) <= HighWaterMark
  /\ received \in [Subscribers -> Seq([sample : 1..samples, seq : Nat, run : 1..runs, gap : BOOLEAN])]
  /\ expected \in [Subscribers -> 0..samples]
  /\ malformed \in [Subscribers -> Nat]
  /\ samples \in 0..MaxSamples
  /\ accepted \subseteq 1..samples
  /\ skipped \in [Subscribers -> [{"late", "full"} -> SUBSET (1..samples)]]
  /\ broken \in [Subscribers -> Nat]

Init ==
  /\ up = FALSE
  /\ runs = 0
  /\ sequence = 0
  /\ dropped = 0
  /\ open = Nothing
  /\ joined = {}
  /\ outq = [s \in Subscribers |-> << >>]
  /\ inq = [s \in Subscribers |-> << >>]
  /\ received = [s \in Subscribers |-> << >>]
  /\ expected = [s \in Subscribers |-> 0]
  /\ malformed = [s \in Subscribers |-> 0]
  /\ samples = 0
  /\ accepted = {}
  /\ skipped = [s \in Subscribers |-> [why \in {"late", "full"} |-> {}]]
  /\ broken = [s \in Subscribers |-> 0]

-----------------------------------------------------------------------------
(* The publisher process.                                                  *)

Start ==
  /\ ~up
  /\ runs < MaxRuns
  /\ up' = TRUE
  /\ runs' = runs + 1
  /\ sequence' = 0
  /\ dropped' = 0
  /\ accepted' = {}
  /\ skipped' = [s \in Subscribers |-> [why \in {"late", "full"} |-> {}]]
  /\ broken' = [s \in Subscribers |-> 0]
  /\ UNCHANGED <<open, joined, outq, inq, subscriber, samples>>

(* It ends, on its own or killed: kLingerMs = 0 throws away what is queued. *)
Stop ==
  /\ up
  /\ up' = FALSE
  /\ open' = Nothing
  /\ joined' = {}
  /\ outq' = [s \in Subscribers |-> << >>]
  /\ UNCHANGED <<runs, sequence, dropped, inq, subscriber, history>>

(* Every sample is stamped, whatever comes of it.                          *)
Stamp ==
  /\ up
  /\ samples < MaxSamples
  /\ samples' = samples + 1
  /\ sequence' = sequence + 1

(* Mutant of Recipients: the high-water mark is left unset, 0 for no limit. *)
RecipientsUnlimited == IF open.frames = << >> THEN joined ELSE open.to

(* Whom the frames sent next go to.  A PUB socket chooses at the first frame*)
(* of a message, leaving out whose queue is full, and never returns EAGAIN: *)
(* neither "if (!sent_...)" branch of publish() is ever taken.              *)
Recipients ==
  IF open.frames = << >>
  THEN {s \in joined : Len(outq[s]) < HighWaterMark}
  ELSE open.to

(* Both frames are sent, and complete whatever message is open.            *)
Publish ==
  /\ Stamp
  /\ LET message == open.frames \o <<Topic, Body(samples', sequence)>>
         Why(s)  == IF s \in joined /\ Len(outq[s]) >= HighWaterMark THEN "full" ELSE "late"
     IN /\ outq' = [s \in Subscribers |->
                      IF s \in Recipients THEN Append(outq[s], message) ELSE outq[s]]
        /\ skipped' = [s \in Subscribers |->
                         IF s \in Recipients THEN skipped[s]
                         ELSE [skipped[s] EXCEPT ![Why(s)] = @ \union {samples'}]]
  /\ open' = Nothing
  /\ accepted' = accepted \union {samples'}
  /\ UNCHANGED <<up, runs, dropped, joined, inq, subscriber, broken>>

(* The topic is sent and the body is not.                                  *)
PublishHalf ==
  /\ MayFail
  /\ Stamp
  /\ dropped' = dropped + 1
  /\ open' = [to |-> Recipients, frames |-> Append(open.frames, Topic)]
  /\ broken' = [s \in Subscribers |-> broken[s] + (IF s \in Recipients THEN 1 ELSE 0)]
  /\ UNCHANGED <<up, runs, joined, outq, inq, subscriber, accepted, skipped>>

(* Mutant of PublishFails: the number of a sample not sent is used again.   *)
PublishFailsUnstamped ==
  /\ MayFail
  /\ up
  /\ samples < MaxSamples
  /\ samples' = samples + 1
  /\ dropped' = dropped + 1
  /\ UNCHANGED <<up, runs, sequence, open, joined, outq, inq, subscriber, accepted, skipped, broken>>

(* Nothing is sent: the topic's send throws, or, uncounted, what serialises *)
(* the sample does (ScanPublisher and CloudPublisher catch that).           *)
PublishFails ==
  /\ MayFail
  /\ Stamp
  /\ dropped' \in {dropped, dropped + 1}
  /\ UNCHANGED <<up, runs, open, joined, outq, inq, subscriber, accepted, skipped, broken>>

-----------------------------------------------------------------------------
(* The connection, which ZeroMQ brings up and back up on its own.          *)

Connect(s) ==
  /\ up
  /\ joined' = joined \union {s}
  /\ UNCHANGED <<publisher, outq, inq, subscriber, history>>

(* What the publisher had queued for the subscriber is gone with it.       *)
Disconnect(s) ==
  /\ s \in joined
  /\ joined' = joined \ {s}
  /\ open' = [open EXCEPT !.to = @ \ {s}]
  /\ outq' = [outq EXCEPT ![s] = << >>]
  /\ skipped' = [skipped EXCEPT ![s]["late"] =
                   @ \union {n \in accepted : \E i \in 1..Len(outq[s]) :
                               \E j \in 1..Len(outq[s][i]) : outq[s][i][j].sample = n}]
  /\ UNCHANGED <<up, runs, sequence, dropped, inq, subscriber, samples, accepted, broken>>

(* A message crosses over whole.                                           *)
Transmit(s) ==
  /\ outq[s] # << >>
  /\ Len(inq[s]) < HighWaterMark
  /\ inq' = [inq EXCEPT ![s] = Append(@, Head(outq[s]))]
  /\ outq' = [outq EXCEPT ![s] = Tail(@)]
  /\ UNCHANGED <<publisher, joined, subscriber, history>>

-----------------------------------------------------------------------------
(* A subscriber polls.                                                     *)

(* What is left of the queue when k frames of its first message were read. *)
After(q, k) ==
  LET rest == SubSeq(Head(q), k + 1, Len(Head(q)))
  IN IF rest = << >> THEN Tail(q) ELSE <<rest>> \o Tail(q)

Read(s, k) == inq' = [inq EXCEPT ![s] = After(@, k)]

Hand(s, b) == received' = [received EXCEPT ![s] =
  Append(@, [sample |-> b.sample, seq |-> b.seq, run |-> b.run,
             gap |-> expected[s] # 0 /\ b.seq # expected[s]])]

(* Mutant of PollLeftover: without more() the body is taken from the next   *)
(* message, whose own body is then the next topic.                          *)
PollLeftoverReadsOn(s) ==
  /\ inq[s] # << >>
  /\ Len(Head(inq[s])) = 1
  /\ Len(inq[s]) > 1
  /\ inq' = [inq EXCEPT ![s] = After(Tail(@), 1)]
  /\ malformed' = [malformed EXCEPT ![s] = @ + 1]
  /\ UNCHANGED <<publisher, joined, outq, received, expected, history>>

(* A topic with no payload: given up, and reported as a timeout.           *)
PollLeftover(s) ==
  /\ inq[s] # << >>
  /\ Len(Head(inq[s])) = 1
  /\ Read(s, 1)
  /\ UNCHANGED <<publisher, joined, outq, subscriber, history>>

(* Mutant of PollReject: TRUE is returned, with the scan of the last call.  *)
PollRejectStale(s) ==
  /\ inq[s] # << >>
  /\ Len(Head(inq[s])) > 1
  /\ Head(inq[s])[2] = Topic
  /\ Read(s, 2)
  /\ IF received[s] = << >> THEN UNCHANGED received
     ELSE received' = [received EXCEPT ![s] = Append(@, @[Len(@)])]
  /\ UNCHANGED <<publisher, joined, outq, expected, malformed, history>>

(* What stands where the body should does not parse.                       *)
PollReject(s) ==
  /\ inq[s] # << >>
  /\ Len(Head(inq[s])) > 1
  /\ Head(inq[s])[2] = Topic
  /\ Read(s, 2)
  /\ malformed' = [malformed EXCEPT ![s] = @ + 1]
  /\ UNCHANGED <<publisher, joined, outq, received, expected, history>>

PollAccept(s) ==
  /\ inq[s] # << >>
  /\ Len(Head(inq[s])) > 1
  /\ Head(inq[s])[2] # Topic
  /\ Read(s, 2)
  /\ Hand(s, Head(inq[s])[2])
  /\ expected' = [expected EXCEPT ![s] = Head(inq[s])[2].seq + 1]
  /\ UNCHANGED <<publisher, joined, outq, malformed, history>>

(* The body's recv throws, and its frame stays to be taken for a topic; or  *)
(* what decodes the body does.                                             *)
PollThrows(s) ==
  /\ MayFail
  /\ inq[s] # << >>
  /\ Len(Head(inq[s])) > 1
  /\ Read(s, 1) \/ Read(s, 2)
  /\ broken' = [broken EXCEPT ![s] = @ + 1]
  /\ UNCHANGED <<publisher, joined, outq, subscriber, samples, accepted, skipped>>

Next ==
  \/ Start
  \/ Stop
  \/ Publish
  \/ PublishHalf
  \/ PublishFails
  \/ \E s \in Subscribers :
       \/ Connect(s)
       \/ Disconnect(s)
       \/ Transmit(s)
       \/ PollLeftover(s)
       \/ PollReject(s)
       \/ PollAccept(s)
       \/ PollThrows(s)

Spec == Init /\ [][Next]_vars

-----------------------------------------------------------------------------
(* What the live path promises.                                            *)

Stream == INSTANCE LossyStream WITH
  published <- samples,
  seen <- [s \in Subscribers |-> [i \in 1..Len(received[s]) |-> received[s][i].sample]]

(* Over half-sent samples, half-read messages, full queues, reconnections   *)
(* and restarts, what a subscriber hands out are samples that were          *)
(* published, in their order and none twice: "a corrupt sample must not     *)
(* look like a real one" (subscriber.hpp:50-51).                            *)
ImplementsStream == Stream!StreamSpec

(* The samples on their way to a subscriber.                               *)
Underway(s) ==
  {m[Len(m)].sample : m \in {outq[s][i] : i \in 1..Len(outq[s])}
                            \union {inq[s][i] : i \in 1..Len(inq[s])}}

Handed(s) == {received[s][i].sample : i \in 1..Len(received[s])}

(* One failure in the middle of a message costs each subscriber one more    *)
(* sample and no more, however the frames of what follows are glued: apart  *)
(* from that, a sample that publish() returned TRUE for and that found room *)
(* is handed out or on its way.                                             *)
OneFailureCostsOne ==
  up => \A s \in Subscribers :
    Cardinality(accepted \ (skipped[s]["late"] \union skipped[s]["full"]
                            \union Underway(s) \union Handed(s))) <= broken[s]

(* mw_sub marks a sample with a gap exactly if one published before it in   *)
(* the same run, and after the last one it showed, did not come through, at *)
(* whichever step it was lost.                                              *)
GapsTell ==
  \A s \in Subscribers : \A i \in 2..Len(received[s]) :
    LET a == received[s][i - 1]
        b == received[s][i]
    IN a.run = b.run => (b.gap <=> b.sample # a.sample + 1)

(* "Returns false if the send queue was full - the sample is dropped, and   *)
(* dropped() counts it" (transport.hpp:73-74).                              *)
DroppedIsCounted ==
  \A s \in Subscribers : Cardinality(skipped[s]["full"]) <= dropped
=============================================================================
