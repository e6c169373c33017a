---------------------------- MODULE MCScheduler -----------------------------
(* The scheduler with one plain and one long report lane, of two days.     *)
EXTENDS Scheduler, TLC

MCLanes == <<"daily", "seasonal", "review">>
MCDailyLane == <<"daily">>
MCDailySpan == [daily |-> 1]
MCSpan == [daily |-> 1, seasonal |-> 2]
Symmetric == Permutations(Invocations)
=============================================================================
