SPECIFICATION FairSpec
CONSTANTS
  Name <- Names
  Marker <- InContainer
  PageSize = 2
INVARIANTS
  TypeOK
  ListedOnce
  Complete
  LostOnlyWhenFull
PROPERTY
  Ends
