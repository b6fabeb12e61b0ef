SPECIFICATION FairQueueSpec
CONSTANTS
  Workers = {w1, w2}
  Jobs = {j1, j2}
  Unhandled = {j2}
  MaxAttempts = 2
  Limit = 2
  MaxFaults = 1
  Nobody = Nobody
PROPERTIES SettledIsFinal JobsSettle
