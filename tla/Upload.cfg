\* A plain and a compressed upload of one name, so that one is refused, or
\* comes between the cancel and the late file of the other.  Two chunks for the
\* plain one: a write may fail before the last chunk, or at it.
SPECIFICATION FairSpec
CONSTANTS
  plain = plain
  packed = packed
  Uploads = {plain, packed}
  Compressed = {packed}
  Size <- MCSizes
  PlaceholderSize = 1
  None = None
INVARIANTS
  GuardIsOwn
  CompletedIsIntact
  PackedIsWholeAndTidy
PROPERTIES
  NoPlaceholderLeft
  UploadEnds
\* Uploads are finite, and the session ends.
CHECK_DEADLOCK FALSE
