--------------------------- MODULE LoopbackBearer ---------------------------
(***************************************************************************)
(* mw::LoopbackBearer (src/acoustic_loopback.cpp): a half-duplex acoustic   *)
(* channel on a clock that its user advances.  A frame offered is refused,  *)
(* or it takes the channel for as long as its bits need and is then either  *)
(* lost or, a propagation time later, delivered.  The loss roll is a        *)
(* choice; a frame's bytes are its size and the place it has in the order   *)
(* of acceptance.  The priority only travels along and is left out.         *)
(***************************************************************************)
EXTENDS Integers, Sequences, FiniteSets

CONSTANTS
  Propagation,    (* Config::propagation_ns                                 *)
  BitsPerSecond,  (* Config::bits_per_second                                *)
  NsPerSecond,    (* 1'000'000'000, or less to keep the clock small         *)
  MaxFrameBytes,  (* Config::max_frame_bytes                                *)
  Sizes,          (* the sizes of the frames offered                        *)
  Deadlines,      (* the deadlines they are offered with                    *)
  Advances,       (* the steps the clock is advanced by                     *)
  MaxOffers,      (* bound: calls of offer                                  *)
  MaxNow          (* bound: the clock                                       *)

ASSUME BearerAssumption ==
  /\ Propagation \in Nat
  /\ BitsPerSecond \in Nat \ {0}
  /\ NsPerSecond \in Nat \ {0}
  /\ MaxFrameBytes \in Nat
  /\ Sizes \subseteq Nat
  /\ Deadlines \subseteq Int
  /\ Advances \subseteq Nat
  /\ MaxOffers \in Nat
  /\ MaxNow \in Nat

VARIABLES
  now,              (* now_ns_                                              *)
  channel_free_at,  (* channel_free_at_                                     *)
  stats,            (* stats_                                               *)
  in_flight,        (* in_flight_: what has not arrived                     *)
  delivered,        (* delivered_: what has, and was not drained            *)
  taken,            (* history: the frames accepted, in order               *)
  drained           (* history: the deliveries drained, in order            *)

vars == <<now, channel_free_at, stats, in_flight, delivered, taken, drained>>

Counters == {"offered", "rejected_size", "rejected_late", "rejected_busy", "accepted", "lost"}

Frame == [size : Nat, deadline : Int, sent_at : Nat, arrives_at : Nat]

(* What arrives is typed by DeliveredOldestFirst.                          *)
TypeOK ==
  /\ now \in Nat
  /\ channel_free_at \in Nat
  /\ stats \in [Counters -> Nat]
  /\ taken \in Seq(Frame)
  /\ \A i \in 1..Len(taken) : taken[i].size <= MaxFrameBytes

Init ==
  /\ now = 0
  /\ channel_free_at = 0
  /\ stats = [c \in Counters |-> 0]
  /\ in_flight = << >>
  /\ delivered = << >>
  /\ taken = << >>
  /\ drained = << >>

-----------------------------------------------------------------------------
(* Mutant of CeilDiv: the division rounds down.                            *)
FloorDiv(numerator, denominator) == numerator \div denominator

CeilDiv(numerator, denominator) == (numerator + denominator - 1) \div denominator

Serialization(size) == CeilDiv(size * 8 * NsPerSecond, BitsPerSecond)

Arrival(size) == now + Serialization(size) + Propagation

TooLarge(size) == size > MaxFrameBytes

(* Mutant of Late: the crossing is not counted.                            *)
LateWithoutCrossing(size, deadline) == now + Serialization(size) > deadline

Late(size, deadline) == Arrival(size) > deadline

Busy == now < channel_free_at

Count(cs) == stats' = [c \in Counters |-> IF c \in cs THEN stats[c] + 1 ELSE stats[c]]

(* offer(), refusing: by size first, then by deadline, then by the channel. *)
Refuse(size, deadline) ==
  /\ stats["offered"] < MaxOffers
  /\ \/ TooLarge(size) /\ Count({"offered", "rejected_size"})
     \/ ~TooLarge(size) /\ Late(size, deadline) /\ Count({"offered", "rejected_late"})
     \/ /\ ~TooLarge(size) /\ ~Late(size, deadline) /\ Busy
        /\ Count({"offered", "rejected_busy"})
  /\ UNCHANGED <<now, channel_free_at, in_flight, delivered, taken, drained>>

(* What every frame accepted does, whatever becomes of it.                  *)
Take(size, deadline) ==
  /\ stats["offered"] < MaxOffers
  /\ ~TooLarge(size) /\ ~Late(size, deadline) /\ ~Busy
  /\ channel_free_at' = now + Serialization(size)
  /\ taken' = Append(taken, [size |-> size, deadline |-> deadline,
                             sent_at |-> now, arrives_at |-> Arrival(size)])

(* offer(), accepting a frame the roll loses: the sender is not told.       *)
Lose(size, deadline) ==
  /\ Take(size, deadline)
  /\ Count({"offered", "accepted", "lost"})
  /\ UNCHANGED <<now, in_flight, delivered, drained>>

(* offer(), accepting a frame that will arrive.                             *)
Carry(size, deadline) ==
  /\ Take(size, deadline)
  /\ Count({"offered", "accepted"})
  /\ in_flight' = Append(in_flight, [frame |-> Len(taken) + 1, sent_at |-> now,
                                     arrives_at |-> Arrival(size)])
  /\ UNCHANGED <<now, delivered, drained>>

(* std::stable_partition keeps their order among the ready and the pending: *)
(* the members of q at the positions I, in the order of q.                  *)
InOrder(q, I) ==
  [k \in 1..Cardinality(I) |-> q[CHOOSE i \in I : Cardinality({j \in I : j <= i}) = k]]

(* Mutant of Advance: the newest arrival is put first.                      *)
AdvanceNewestFirst(ns) ==
  /\ now + ns <= MaxNow
  /\ now' = now + ns
  /\ LET ready == {i \in 1..Len(in_flight) : in_flight[i].arrives_at <= now + ns}
     IN /\ delivered' = InOrder(in_flight, ready) \o delivered
        /\ in_flight' = InOrder(in_flight, (1..Len(in_flight)) \ ready)
  /\ UNCHANGED <<channel_free_at, stats, taken, drained>>

Advance(ns) ==
  /\ now + ns <= MaxNow
  /\ now' = now + ns
  /\ LET ready == {i \in 1..Len(in_flight) : in_flight[i].arrives_at <= now + ns}
     IN /\ delivered' = delivered \o InOrder(in_flight, ready)
        /\ in_flight' = InOrder(in_flight, (1..Len(in_flight)) \ ready)
  /\ UNCHANGED <<channel_free_at, stats, taken, drained>>

Drain ==
  /\ drained' = drained \o delivered
  /\ delivered' = << >>
  /\ UNCHANGED <<now, channel_free_at, stats, in_flight, taken>>

Next ==
  \/ \E size \in Sizes, deadline \in Deadlines :
       Refuse(size, deadline) \/ Lose(size, deadline) \/ Carry(size, deadline)
  \/ \E ns \in Advances : Advance(ns)
  \/ Drain

Spec == Init /\ [][Next]_vars

-----------------------------------------------------------------------------
(* What a bearer promises.                                                  *)

(* The channel carries one frame at a time: a frame is only accepted when   *)
(* every bit of the frame before it has left, at the bit rate and without   *)
(* rounding in its favour ("Rounding down would let the channel go idle     *)
(* before the last bit has actually left", acoustic_loopback.cpp:9-11).     *)
OneFrameAtATime ==
  \A i, j \in 1..Len(taken) : i < j =>
    taken[i].size * 8 * NsPerSecond <= (taken[j].sent_at - taken[i].sent_at) * BitsPerSecond

(* A frame is only accepted when its bits, sent at the bit rate, and their  *)
(* crossing fit in before the deadline, and it arrives no earlier: "A frame *)
(* this bearer could not deliver in time is refused before it ever touches  *)
(* the channel" (acoustic_loopback.cpp:37-38).                              *)
ArrivesInTime ==
  \A i \in 1..Len(taken) :
    LET f == taken[i]
    IN /\ f.size * 8 * NsPerSecond <= (f.arrives_at - f.sent_at - Propagation) * BitsPerSecond
       /\ f.arrives_at <= f.deadline

(* The user sees arrivals in the order they were sent in, none before its   *)
(* time and none late ("Frames that have actually arrived, oldest first",   *)
(* acoustic_loopback.hpp:66).                                               *)
DeliveredOldestFirst ==
  LET seen == drained \o delivered
      all  == seen \o in_flight
  IN /\ \A i, j \in 1..Len(all) : i < j =>
          all[i].frame < all[j].frame /\ all[i].arrives_at <= all[j].arrives_at
     /\ \A i \in 1..Len(seen) : seen[i].arrives_at <= now
     /\ \A i \in 1..Len(in_flight) : now <= in_flight[i].arrives_at

=============================================================================
