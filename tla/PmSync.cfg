\* Two rows and the board, edits, a person's move, an inbound pass, a projection of a
\* whole project, one fault.
SPECIFICATION Spec
CONSTANTS
  t1 = t1
  t2 = t2
  t3 = t3
  k1 = k1
  k2 = k2
  k3 = k3
  pa = pa
  pb = pb
  h = h
  Tasks = {t1, t2, t3}
  Keys = {k1, k2, k3}
  Projects = {pa, pb}
  Issues = {h, n1, n2, n3}
  Written = {h}
  Scenarios <- MCScenarios
  Projections = {p1, p2}
  Statuses = {"backlog", "ready", "blocked"}
  Board = {"Todo", "In Progress", "Triage"}
  Texts = {text}
  Prose = Prose
  Blank = Blank
  None = None
  Unborn = Unborn
  Gone = Gone
SYMMETRY Interchangeable
CHECK_DEADLOCK FALSE
INVARIANTS
  PmTypeOK
  OneWriter
  OneIssuePerRow
  SkipIsSafe
  WriteUpSurvives
  EditsArrive
PROPERTIES
  PmWinsIfUnchanged
  OnlyMovesApply
