----------------------------- MODULE MCIngestion -----------------------------
(* Constant values with which TLC checks Ingestion. *)
EXTENDS Ingestion

CONSTANTS f1, f2

\* The globs of the first configuration select one file, those of the second both.
MCGlobbed == <<{f1}, {f1, f2}>>
=============================================================================
