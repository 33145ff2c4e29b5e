------------------------------ MODULE MCQuery -------------------------------
(* Two clients that are alike: one may be answered while the other retries. *)
EXTENDS QueryService, TLC

ClientSymmetry == Permutations(Clients)
=============================================================================
