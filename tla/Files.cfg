\* Two dialogs for a file and a directory, a link to one or a special file: one for both of
\* them, the other for what the first is at work on, or the same one once more.
SPECIFICATION FairSpec
CONSTANTS
  here = here
  there = there
  f = f
  d = d
  Dirs = {here, there}
  Names = {f, d}
  Batches = {1, 2}
  Occupied <- MCOccupied
  Regular <- MCRegular
  Kinds = {"directory", "directoryLink", "special"}
  None = None
INVARIANTS
  NothingIsLost
  SucceedIsTrue
PROPERTIES
  BatchEnds
\* The submissions run out.
CHECK_DEADLOCK FALSE
