\* Three terminals: one current, one fading and one in the background.
SPECIFICATION HomeFairSpec
CONSTANTS
  Controllers = {k1, k2, k3}
  NoTab = NoTab
INVARIANTS
  ShellsHaveTabs
PROPERTIES
  OnlyTheClosedGoes
  LayoutSettles
