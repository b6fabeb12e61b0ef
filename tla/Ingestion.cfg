\* A channel of three threads read two at a time by two processes, or a repository of two
\* files under two configurations.
SPECIFICATION FairSpec
CONSTANTS
  SlackProcesses = {s1, s2}
  LastThread = 3
  Window = 2
  MessageBound = 4
  SlackFaultBound = 1
  GithubProcesses = {g1}
  f1 = f1
  f2 = f2
  Files = {f1, f2}
  Globbed <- MCGlobbed
  PushBound = 2
  GithubFaultBound = 2
INVARIANTS IngestTypeOK CursorVouches
PROPERTIES OnlyDeletedIsPurged ChannelConverges FilesConverge
