------------------------------ MODULE MCPubSub ------------------------------
(* Two subscribers, interchangeable.                                        *)
EXTENDS PubSub, TLC

MCSymmetry == Permutations(Subscribers)
=============================================================================
