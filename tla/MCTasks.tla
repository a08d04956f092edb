------------------------------ MODULE MCTasks ------------------------------
(* Tasks for TLC: one task.                                                *)
EXTENDS Tasks
=============================================================================
