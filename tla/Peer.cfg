\* Two calls, so that one waits while the map holds the other, a fetch, and
\* an event that keeps the lock they and the teardown want; the client may
\* crash or jam anywhere, and the browser give the fetch up at any await.
\* Safety is proved for any number of them.
SPECIFICATION FairSpec
CONSTANTS
  Calls = {k1, k2}
  Fetches = {h1}
  Events = {e1}
  Limit = 1
  None = None
INVARIANTS
  MatchingNeverWaits
  MapsAreExact
PROPERTIES
  OrphanIsForever
  KeepsItsPromise
  RequestsEnd
  
\* The requests are finite and a session may end with all of them done.
CHECK_DEADLOCK FALSE
