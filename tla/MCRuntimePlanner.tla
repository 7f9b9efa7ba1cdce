-------------------------- MODULE MCRuntimePlanner --------------------------
(* Every kind of request, with two entities, URLs, hits or files at most.     *)
EXTENDS RuntimePlanner

MCTasks == 1 .. 20
MCPatches == {}      \* nobody but the planner patches the run
=============================================================================
