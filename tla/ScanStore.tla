----------------------------- MODULE ScanStore -----------------------------
(***************************************************************************)
(* What a recording promises, with no log file, index, process or crash in  *)
(* it: the scans that can be read back, in recording order.  An entry never *)
(* changes once it is there, except that a power failure may make it Lost.  *)
(* ScanRecorder is shown to implement this module, with every entry         *)
(* obtained by actually reading the log where the index says it is.         *)
(***************************************************************************)
EXTENDS Naturals, Sequences

CONSTANTS
  Scans,        (* the scans that may be recorded                          *)
  Lost          (* an entry whose bytes did not survive a power failure    *)

VARIABLE stored \* what reading the recording back returns, oldest first

(* A scan becomes readable, behind all the others and only once.           *)
Store(s) ==
  /\ \A i \in 1..Len(stored) : stored[i] # s
  /\ stored' = Append(stored, s)

(* Power is lost: some entries can no longer be read back, none moves.     *)
Lose(I) ==
  stored' = [i \in 1..Len(stored) |-> IF i \in I THEN Lost ELSE stored[i]]

StoreInit == stored = << >>

StoreNext ==
  \/ \E s \in Scans : Store(s)
  \/ \E I \in SUBSET (1..Len(stored)) : Lose(I)

StoreSpec == StoreInit /\ [][StoreNext]_stored
=============================================================================
