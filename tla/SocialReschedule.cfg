SPECIFICATION Spec
CONSTANTS
  Workers = {w1}
  Jobs = {p1, p2}
  Unhandled = {}
  MaxAttempts = 1
  Limit = 1
  MaxFaults = 1
  Nobody = Nobody
  Admins = {a1}
  Approvals = {i1}
  MaxDrafts = 1
  Clean = {1}
  AutoApprove = TRUE
  HonoursKey = FALSE
SYMMETRY Interchangeable
INVARIANTS ActiveHasJob
