---------------------------- MODULE LossyStream ----------------------------
(***************************************************************************)
(* What publish/subscribe promises: "Fan-out and fire-and-forget"           *)
(* (publisher.hpp:24).  Samples are numbered in the order they were         *)
(* published in; a subscriber may miss any of them but sees none twice,     *)
(* none out of order, and nothing that was not published.  PubSub is shown  *)
(* to implement this module.                                                *)
(***************************************************************************)
EXTENDS Naturals, Sequences

CONSTANT Subscribers

VARIABLES
  published,    (* how many samples there have been                         *)
  seen          (* the samples each subscriber was handed, oldest first     *)

StreamInit ==
  /\ published = 0
  /\ seen = [s \in Subscribers |-> << >>]

PublishOne ==
  /\ published' = published + 1
  /\ UNCHANGED seen

HandOver(s, n) ==
  /\ \A i \in 1..Len(seen[s]) : seen[s][i] < n
  /\ seen' = [seen EXCEPT ![s] = Append(@, n)]
  /\ UNCHANGED published

StreamNext ==
  \/ PublishOne
  \/ \E s \in Subscribers, n \in 1..published : HandOver(s, n)

StreamSpec == StreamInit /\ [][StreamNext]_<<published, seen>>
=============================================================================
