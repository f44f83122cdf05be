SPECIFICATION Spec
CONSTANTS
  Node = {1, 2, 3, 4, 5, 6, 7, 8}
  Block = {b1, b2}
  Key <- AllKeys
  NULL = NULL
  FREED = FREED
  Path <- FewPaths
  Marker = {}
  Omits = {}
  CacheNew = {"live"}
  MaxBody = 1
INVARIANT
  CallsReturn
