\* One compressed upload, shorter than the text of its placeholder.
SPECIFICATION Spec
CONSTANTS
  plain = plain
  packed = packed
  Uploads = {packed}
  Compressed = {packed}
  Size <- MCSizes
  PlaceholderSize = 2
  None = None
INVARIANTS
  UploadedAsIs
CHECK_DEADLOCK FALSE
