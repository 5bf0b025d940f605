---------------------------- MODULE MCLifecycle ----------------------------
(***************************************************************************)
(* Model-checking instances of Lifecycle.  A scenario is one mix of        *)
(* operations and faults; workers are interchangeable.                     *)
(***************************************************************************)
EXTENDS Lifecycle, TLC

WorkerSymmetry == Permutations(Workers)

Scenario(ops, faults, n) == [ops |-> ops, faults |-> faults, maxStoppers |-> n]

\* Everything at once; no faults, one stopper at a time; restarts between any
\* two steps.
AnyMix ==
  {Scenario(OpNames, FaultNames, 3),
   Scenario(OpNames \ {"create"}, {}, 1),
   Scenario({"create", "wake", "stop", "delete"}, {"crash"}, 2)}

\* Wakes that run pressure ticks on each other's sandboxes.
CrossTicks ==
  {Scenario({"wake", "delete", "snapshot", "idle", "stop"},
            {"docker", "store"}, 2)}
=============================================================================
