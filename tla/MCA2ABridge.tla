---------------------------- MODULE MCA2ABridge ----------------------------
(* A node parked by the planner of a run, two dispatches.                    *)
EXTENDS A2ABridge

Parked == [NoPatch EXCEPT !.add = Tasks, !.wait = Tasks]
Finish == [NoPatch EXCEPT !.finish = TRUE]
MCPatches == {Parked, Finish}
=============================================================================
