\* One item of a source that keeps or retracts text, one initiative, an edit, retag,
\* restriction, change of tier or purge at any moment, one failure.
SPECIFICATION FairSpec
CONSTANTS
  general = general
  external = external
  Initiatives = {i1}
  Bodies = {b1, b2}
  None = None
  Ids = {1, 2, 3}
  Retractable = {TRUE, FALSE}
  MaxChanges = 1
  MaxFaults = 1
INVARIANTS
  GraphTypeOK
  EpisodesLedgered
PROPERTIES
  PurgedIsForgotten
  GroupsConverge
