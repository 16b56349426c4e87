\* Two connections compete for the two locks; two tokens give each of them one,
\* or let one fail, retry and meet the late client of its first attempt.
SPECIFICATION FairSpec
CONSTANTS
  Connections = {c1, c2}
  Tokens = {t1, t2}
  None = None
INVARIANTS
  SessionTable
  HandOverIsExact
PROPERTIES
  CircleIsTheDeadlock
  EndsUnlessCircle
\* The circle and the end of all connections are both dead ends.
CHECK_DEADLOCK FALSE
