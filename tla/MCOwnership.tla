---------------------------- MODULE MCOwnership -----------------------------
(***************************************************************************)
(* Model-checking instances of Ownership.                                  *)
(***************************************************************************)
EXTENDS Ownership, TLC

Scenario(acts, faults) == [acts |-> acts, faults |-> faults, apart |-> TRUE]

\* Ids handed from user to user; creates that fail, purges that fail, a
\* restart in the middle of each; purges by user and by project, with claims of
\* what they have listed; v1 creates, one or two of a project at a time.
Mix ==
  {Scenario({"create", "delete", "claim"}, {}),
   Scenario({"create", "delete"}, {"docker", "store"}),
   Scenario({"create", "purge", "snapshot"}, {"files", "store"}),
   Scenario({"create", "user", "restart"}, {}),
   Scenario({"create", "delete", "user"}, {}),
   Scenario({"create", "project", "claim"}, {}),
   Scenario({"v1", "purge", "delete", "restart"}, {"store", "docker", "files"}),
   Scenario({"v1", "create", "delete"}, {"read", "env"}),
   Scenario({"v1", "claim", "delete", "purge"}, {"read"})}

Symmetry == Permutations(Workers) \cup Permutations(Ids) \cup Permutations(Users)
=============================================================================
