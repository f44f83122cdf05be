SPECIFICATION Spec
CONSTANTS
  Name <- Names
  Marker <- InContainer
  PageSize = 2
INVARIANT
  ErrorReturned
