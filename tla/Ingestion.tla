------------------------------ MODULE Ingestion ------------------------------
(***************************************************************************)
(* The ingest tick of lib/ingest/scheduler.ts as far as its Slack and      *)
(* GitHub legs.  A tick and a manual sync run the legs one after another;  *)
(* they share no row, no flag and no remote system, and one that fails is  *)
(* recorded without stopping the next.  A behaviour therefore follows one  *)
(* leg, chosen at its start, through all of its passes.                    *)
(***************************************************************************)
EXTENDS SlackIngestion, GithubIngestion

VARIABLE leg   \* the leg the behaviour follows

vars == <<slackVars, githubVars, leg>>

IngestTypeOK == SlackTypeOK /\ GithubTypeOK /\ leg \in {"slack", "github"}

Init == SlackInit /\ GithubInit /\ leg \in {"slack", "github"}

SlackLeg == leg = "slack" /\ SlackNext /\ UNCHANGED <<githubVars, leg>>
GithubLeg == leg = "github" /\ GithubNext /\ UNCHANGED <<slackVars, leg>>

Next == SlackLeg \/ GithubLeg
Spec == Init /\ [][Next]_vars

\* The poller starts pass after pass, and every call of a pass returns or times out. Nobody
\* has to press a sync button, and nothing has to fail.
Fairness ==
  /\ \A p \in SlackProcesses :
       WF_vars(leg = "slack" /\ SlackStep(p) /\ UNCHANGED <<githubVars, leg>>)
  /\ \A p \in GithubProcesses :
       WF_vars(leg = "github" /\ GithubStep(p) /\ UNCHANGED <<slackVars, leg>>)

FairSpec == Spec /\ Fairness
=============================================================================
