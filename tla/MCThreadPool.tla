---------------------------- MODULE MCThreadPool ----------------------------
(* Instances of ThreadPool for TLC. *)
EXTENDS ThreadPool

\* A batch of two tasks and a single task, from two callers.
TwoCallers == <<<<"t1", "t2">>, <<"t3">>>>

\* Two single tasks, from two callers.
TwoSingles == <<<<"t1">>, <<"t2">>>>

\* A batch of three, then a single task.
FourTasks == <<<<"t1", "t2", "t3">>, <<"t4">>>>

=============================================================================
