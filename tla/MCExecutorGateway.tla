------------------------- MODULE MCExecutorGateway -------------------------
(* Constant values with which TLC checks ExecutorGateway. *)
EXTENDS ExecutorGateway, TLC

CONSTANTS ask, open, deny

\* One rule set per decision; the configurations choose which of them exist.
MCEffect == [p \in Policies |-> CASE p = ask -> "require_approval"
                                  [] p = open -> "allow"
                                  [] OTHER -> "block"]

\* Requests of one kind differ in name only; so do leases and keys.
Interchangeable ==
  Permutations(Resumes) \cup Permutations(Requests) \cup Permutations(Leases)
    \cup Permutations(Keys)
=============================================================================
