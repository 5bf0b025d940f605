----------------------------- MODULE MCReaping ------------------------------
(***************************************************************************)
(* Model-checking instances of Reaping.  A scenario is who acts and        *)
(* whether calls may fail.                                                 *)
(***************************************************************************)
EXTENDS Reaping

Scenario(acts, fails) == [acts |-> acts, fails |-> fails]

\* The access log under the tailer; the sources of activity against the idle
\* reaper; work under way against both reapers; the reapers against each
\* other; creates, wakes and restarts.
Mix ==
  {Scenario({"log", "restart"}, FALSE),
   Scenario({"poll", "exec", "idle", "wake"}, FALSE),
   Scenario({"poll", "idle", "wake"}, TRUE),
   Scenario({"exec", "keep", "idle"}, TRUE),
   Scenario({"task", "exec", "idle"}, TRUE),
   Scenario({"task", "keep", "idle"}, FALSE),
   Scenario({"exec", "loop"}, FALSE),
   Scenario({"keep", "admit"}, FALSE),
   Scenario({"loop", "admit"}, TRUE),
   Scenario({"loop", "admit", "idle"}, FALSE),
   Scenario({"create", "idle"}, TRUE),
   Scenario({"create", "wake", "idle", "restart"}, FALSE)}

Create == {Scenario({"create", "idle"}, FALSE)}

TaskUnderPressure == {Scenario({"task", "loop"}, FALSE)}
=============================================================================
