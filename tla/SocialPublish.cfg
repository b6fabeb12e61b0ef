SPECIFICATION FairSpec
CONSTANTS
  Workers = {w1}
  Jobs = {p1}
  Unhandled = {}
  MaxAttempts = 3
  Limit = 1
  MaxFaults = 2
  Nobody = Nobody
  Admins = {a1}
  Approvals = {i1}
  MaxDrafts = 1
  Clean = {1}
  AutoApprove = FALSE
  HonoursKey = FALSE
INVARIANTS SocialTypeOK PublishedIsReal DoublePostNeedsLostId PassIsExact
PROPERTIES PublicationsResolve
