\* A resume retry that meets a database error settles a delivered execution.
SPECIFICATION Spec
CONSTANTS
  ask = ask
  open = open
  deny = deny
  Nobody = Nobody
  Requests = {x1}
  Resumes = {s1, s2}
  Leases = {l1}
  Keys = {k1}
  Credentials = {c1}
  FirstCredential = c1
  Policies = {ask}
  Principals = {p1}
  Effect <- MCEffect
SYMMETRY Interchangeable
INVARIANTS
  SealFailureMeansUnsealed
