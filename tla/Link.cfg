\* Two calls, both with the worker that fails, or one answered while the
\* other is encoded, on as many websockets as it takes.
SPECIFICATION FairSpec
CONSTANTS
  Calls = 2
  Backlog = 4
INVARIANTS
  SentInOrder
  UntickedIsForgotten
PROPERTIES
  AnsweredUnlessLost
  LoadingEnds
