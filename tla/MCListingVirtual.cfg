SPECIFICATION Spec
CONSTANTS
  Name <- Names
  Marker <- InVirtualDirectory
  PageSize = 2
INVARIANT
  ListedOnce
