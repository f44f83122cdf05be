SPECIFICATION Spec
CONSTANTS
  file = file
  dir = dir
  Thread = {t1}
  Path = {file, dir}
  Key <- KeysOfTree
  Entry = {e1, e2}
  Payload = {b1, b2, b3}
  Handle = {h1}
  LastVersion = 2
  Data = {0, 1, 2}
  Size <- ShrinksThenGone
  PageSize = 2
  MaxRead = 2
  Word = 16
  TTL = 1
  MaxClock = 2
  NULL = NULL
  FREED = FREED
SYMMETRY Symmetry
INVARIANT
  BufferLargeEnough
