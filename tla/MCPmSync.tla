------------------------------ MODULE MCPmSync ------------------------------
(* Constant values with which TLC checks PmSync. *)
EXTENDS PmSync, TLC

CONSTANTS t1, t2, t3, k1, k2, k3, pa, pb, h

Each(a, b, c) == [t \in Tasks |-> CASE t = t1 -> a [] t = t2 -> b [] OTHER -> c]
Neither == Each(None, None, None)
Bound(edits, moves, passes, batches, faults, atOnce) ==
  [edits |-> edits, moves |-> moves, passes |-> passes, batches |-> batches,
   faults |-> faults, atOnce |-> atOnce]

\* One row and the pass.
OneRow == [rows |-> {t1}, key |-> Each(k1, k2, k3), project |-> Each(pa, pa, pb),
           declared |-> Neither, mirror |-> Neither, bound |-> Bound(2, 1, 1, 0, 1, 1)]
\* Two rows of one key in two projects.
Twins == [rows |-> {t1, t2}, key |-> Each(k1, k1, k3), project |-> Each(pa, pb, pb),
          declared |-> Neither, mirror |-> Neither, bound |-> Bound(1, 0, 0, 1, 0, 2)]
\* A row on which an issue is declared, and the mirror of that issue.
Mirrored == [rows |-> {t1, t2}, key |-> Each(k1, k2, k3), project |-> Each(pa, pb, pb),
             declared |-> Each(h, None, None), mirror |-> Each(None, h, None), bound |-> Bound(1, 1, 1, 0, 1, 2)]
\* A row on which an issue is declared and another, in one project.
Together == [rows |-> {t1, t2}, key |-> Each(k1, k2, k3), project |-> Each(pa, pa, pb),
             declared |-> Each(h, None, None), mirror |-> Neither, bound |-> Bound(1, 1, 0, 1, 1, 1)]
\* Two rows on which one issue is declared, and a third that has the key of the first.
Rivals == [rows |-> {t1, t2, t3}, key |-> Each(k1, k2, k1), project |-> Each(pa, pa, pb),
           declared |-> Each(h, h, None), mirror |-> Neither, bound |-> Bound(0, 0, 0, 0, 1, 2)]
MCScenarios == {OneRow, Twins, [Twins EXCEPT !.bound.moves = 1, !.bound.faults = 1, !.bound.atOnce = 1],
                Rivals, Mirrored, Together, [Together EXCEPT !.bound.edits = 0, !.bound.moves = 0, !.bound.atOnce = 2]}

\* Invocations, and the issues still to be written, differ in name only.
Interchangeable == Permutations(Projections) \cup Permutations(Issues \ Written)
=============================================================================
