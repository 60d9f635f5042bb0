------------------------------- MODULE MCTracking -------------------------------
(***************************************************************************)
(* Instances of Tracking for TLC: the target, a stranger and the numbers   *)
(* that tasks to come may get, which are interchangeable.                  *)
(***************************************************************************)
EXTENDS Tracking, TLC

CONSTANTS target, stranger, a, b

FourTasks == {target, stranger, a, b}

Unborn == Permutations(Tasks \ {Target, Stranger})
================================================================================
