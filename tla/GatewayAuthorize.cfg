\* Two redemptions race over two leases and two idempotency keys, with rule sets
\* that allow, that hold and that block, while credentials rotate.
SPECIFICATION Spec
CONSTANTS
  ask = ask
  open = open
  deny = deny
  Nobody = Nobody
  Requests = {x1, x2}
  Resumes = {}
  Leases = {l1, l2}
  Keys = {k1, k2}
  Credentials = {c1, c2}
  FirstCredential = c1
  Policies = {ask, deny, open}
  Principals = {p1}
  Effect <- MCEffect
SYMMETRY Interchangeable
INVARIANTS
  LeaseBuysOneExecution
  DecisionIsOfLeasePolicy
