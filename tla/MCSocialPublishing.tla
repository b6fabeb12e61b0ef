-------------------------- MODULE MCSocialPublishing --------------------------
(* Constant values with which TLC checks SocialPublishing. *)
EXTENDS SocialPublishing, TLC

\* Publications, approval rows and requests differ in name only.
Interchangeable == Permutations(Publications) \cup Permutations(Approvals) \cup Permutations(Admins)
=============================================================================
