SPECIFICATION CacheSpec
CONSTANTS
  Thread = {t1, t2}
  Key = {k1, k2}
  Entry = {e1, e2, e3}
  Payload = {p1, p2, p3}
  Data = {d}
  TTL = 0
  MaxClock = 1
  NULL = NULL
  FREED = FREED
  NONE = NONE
SYMMETRY Symmetry
INVARIANT
  EntriesManaged
