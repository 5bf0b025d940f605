------------------------------ MODULE MCTasks ------------------------------
(***************************************************************************)
(* Model-checking instance of Tasks.  Either all tasks are submitted and   *)
(* one restart, of either process, is left, or a single task is, and all   *)
(* restarts are: two processes that restart around one task, and two tasks *)
(* that meet one restart.                                                  *)
(***************************************************************************)
EXTENDS Tasks

OneTask == CHOOSE t \in Tasks : TRUE

AllTasksOneRestart ==
  restarts = MaxRestarts - 1 /\ \A t \in Tasks : submit[t] = "new"

OneTaskAllRestarts ==
  restarts = 0 /\ \A t \in Tasks : submit[t] = "new" <=> t = OneTask

MCInit == Init /\ (AllTasksOneRestart \/ OneTaskAllRestarts)

MCSpec == MCInit /\ [][Next]_vars /\ Fairness
=============================================================================
