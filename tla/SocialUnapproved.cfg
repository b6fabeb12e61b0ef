SPECIFICATION Spec
CONSTANTS
  Workers = {w1}
  Jobs = {p1}
  Unhandled = {}
  MaxAttempts = 3
  Limit = 1
  MaxFaults = 0
  Nobody = Nobody
  Admins = {a1}
  Approvals = {i1}
  MaxDrafts = 2
  Clean = {1, 2}
  AutoApprove = FALSE
  HonoursKey = FALSE
SYMMETRY Interchangeable
INVARIANTS OnlyApprovedGoesLive
