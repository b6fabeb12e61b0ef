-------------------------- MODULE MCGovernedActions --------------------------
(* Constant values with which TLC checks GovernedActions. *)
EXTENDS GovernedActions, TLC

CONSTANTS ask, open, deny

MCVerdict == [r \in RuleSets |-> CASE r = ask -> "require_approval"
                                   [] r = open -> "allow"
                                   [] OTHER -> "deny"]

\* Calls of one kind, and pooled connections, differ in name only.
Interchangeable ==
  Permutations(Submits) \cup Permutations(Decisions) \cup Permutations(Connections)
=============================================================================
