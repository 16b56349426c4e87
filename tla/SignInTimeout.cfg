\* Two attempts, the second one between its two locks when the first times out.
SPECIFICATION FairSpec
CONSTANTS
  Connections = {c1, c2}
  Tokens = {t1, t2}
  None = None
PROPERTIES
  TimedOutIsAnswered
\* The circle and the end of all connections are both dead ends.
CHECK_DEADLOCK FALSE
