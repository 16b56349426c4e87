\* Two directories, two files, two versions of each object in a listing.
SPECIFICATION ViewSpec
CONSTANTS
  root = root
  dir = dir
  plain = plain
  page = page
  Paths = {root, dir, plain, page}
  Dirs = {root, dir}
  Parent <- MCParent
  Supported = {page}
  Versions <- MCVersions
  MaxClicks = 5
  MaxLate = 1
  None = None
INVARIANTS
  SelectedIsListed
  TextIsOfFile
CHECK_DEADLOCK FALSE
