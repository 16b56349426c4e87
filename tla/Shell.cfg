\* One id and three requests (an open, and two of data, close and open again)
\* beside a relayed call.
\* Safety is proved for any number of terminals.
SPECIFICATION FairSpec
CONSTANTS
  Ids = {i1}
  Requests = {r1, r2, r3}
  Outputs = 1
  None = None
INVARIANTS
  NoDeadWait
  ClosedIsTrue
PROPERTIES
  AnsweredUnlessStalled
  ShellsEnd
  TerminalLearnsTheEnd
\* The requests run out, and the session ends.
CHECK_DEADLOCK FALSE
