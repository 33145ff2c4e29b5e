----------------------------- MODULE MCExecutor -----------------------------
(* Three nodes: one with a schedule, one ticked in every step and one with  *)
(* a schedule of another period.  Times reach across several periods, so    *)
(* that slots are missed, and steps may go back in time.                    *)
EXTENDS Executor

MCPeriod == <<2, 0, 3>>
MCTimes  == {-1, 0, 1, 3, 4, 9}
MCIntMin == -100
=============================================================================
