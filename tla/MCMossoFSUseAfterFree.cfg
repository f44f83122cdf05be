SPECIFICATION Spec
CONSTANTS
  file = file
  dir = dir
  Thread = {t1, t2}
  Path = {file}
  Key <- KeyOfFile
  Entry = {e1, e2}
  Payload = {b1, b2}
  Handle = {h1}
  LastVersion = 1
  Data = {0, 1}
  Size <- Shrinks
  PageSize = 2
  MaxRead = 1
  Word = 16
  TTL = 0
  MaxClock = 1
  NULL = NULL
  FREED = FREED
SYMMETRY Symmetry
INVARIANT
  FreedOnlyWhenUnneeded
