SPECIFICATION Spec
CONSTANTS
  Workers = {w1}
  Jobs = {p1}
  Unhandled = {}
  MaxAttempts = 2
  Limit = 1
  MaxFaults = 0
  Nobody = Nobody
  Admins = {a1}
  Approvals = {i1}
  MaxDrafts = 1
  Clean = {1}
  AutoApprove = FALSE
  HonoursKey = FALSE
SYMMETRY Interchangeable
PROPERTIES CancelledNeverPosts
