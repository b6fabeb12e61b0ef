\* Two resume requests race each other, the administrator, the sweep, revocation,
\* expiry, policy edits and outcome reports over one execution, allowed or held;
\* revocation waits behind requests that fail or crash.
SPECIFICATION FairSpec
CONSTANTS
  ask = ask
  open = open
  deny = deny
  Nobody = Nobody
  Requests = {x1}
  Resumes = {s1, s2}
  Leases = {l1}
  Keys = {k1}
  Credentials = {c1}
  FirstCredential = c1
  Policies = {ask, open}
  Principals = {p1}
  Effect <- MCEffect
INVARIANTS
  TypeOK
  ApprovalMatchesExecution
  ClaimAuditIsClean
  OneDelivery
PROPERTIES
  ResumeSealsBeforeRevocation
  SettledOnce
  ImplementsTicket
  RevocationCommits
