\* Three attempts: one whose queue dies, one that replaces it, one that comes
\* while the first queue's task cleans up, or waits for its turn behind both.
SPECIFICATION FairSpec
CONSTANTS
  Attempts = {a1, a2, a3}
  Users = {u1, u2}
  None = None
INVARIANTS
  OneAuthenticationPerUser
  MapAgrees
PROPERTIES
  ImplementsLock
  EveryAttemptIsChecked
\* Every attempt ends and every task with it: the system may stop.
CHECK_DEADLOCK FALSE
