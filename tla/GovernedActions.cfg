\* Two submits and a decision over one note and its retry, while the member's
\* credential, standing, the rules and the capability change under them, and an older
\* release decides a queue row on its own.
SPECIFICATION Spec
CONSTANTS
  ask = ask
  open = open
  deny = deny
  Nobody = Nobody
  Submits = {s1, s2}
  Decisions = {d1}
  Operations = {o1}
  Texts = {note, task}
  NoteTexts = {note}
  Credentials = {k1}
  RuleSets = {ask, open}
  Verdict <- MCVerdict
  Connections = {c1, c2}
  MaxTries = 2
  MaxDetached = 1
  MaxLegacy = 1
SYMMETRY Interchangeable
INVARIANTS
  GovernedTypeOK
  OneEffect
  ApprovalAgrees
PROPERTIES
  SettledStays
  CommitsUnderAuthority
