\* The open and one request more, a cd, cdToParent or close; three changes, so
\* that two can pile up before the thread while a third hits a handler.
SPECIFICATION FairSpec
CONSTANTS
  Requests = {r1, r2}
  root = root
  dir = dir
  Paths <- MCPaths
  Home = dir
  Parent <- MCParent
  Changes = 3
  Poll = Poll
  None = None
INVARIANTS
  NoMissedChange
PROPERTIES
  JamIsTheDeadlock
  AnsweredUnlessJammed
  ListingConverges
\* The requests and changes run out; the jam is a dead end too.
CHECK_DEADLOCK FALSE
