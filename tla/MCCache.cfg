SPECIFICATION CacheSpec
CONSTANTS
  Thread = {t1}
  Key = {k1, k2}
  Entry = {e1, e2, e3}
  Payload = {p1, p2, p3}
  Data = {d}
  TTL = 1
  MaxClock = 3
  NULL = NULL
  FREED = FREED
  NONE = NONE
INVARIANTS
  CacheTypeOK
  EntriesManaged
  NoUndefinedBehaviour
  PayloadsManaged
PROPERTY
  ImplementsTtlCache
