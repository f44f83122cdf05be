-------------------------- MODULE CacheRefinement ---------------------------
(***************************************************************************)
(* The cache called by one thread (mount option -s) implements TtlCache.   *)
(* Each operation takes effect on entry, where cache_get_object and        *)
(* cache_add_object read the clock; what it will do is decided there.      *)
(***************************************************************************)
EXTENDS Cache

CONSTANT NONE

ASSUME RefinementAssumption ==
  /\ NONE \notin Payload \cup {NULL}
  /\ NULL \notin [value : Payload, added : Nat]

\* Thread t is in a get of k that will find nothing or in a remove of k.
Discards(t, k) ==
  /\ loc[t].key = k
  /\ \/ pc[t] \in {"get_free", "get_remove", "rem_lookup", "rem_free", "rem_remove"}
     \/ /\ pc[t] \in {"get_lookup", "get_check"}
        /\ Expired(entry[table[k]], loc[t].now)

Supplies(t, k) == Adding(t) /\ loc[t].key = k

Stored(e) == [value |-> entry[e].ptr, added |-> entry[e].timestamp]

store ==
  [k \in Key |->
     IF \E t \in Thread : Supplies(t, k)
     THEN Stored(loc[CHOOSE t \in Thread : Supplies(t, k)].new)
     ELSE IF table[k] = NULL \/ \E t \in Thread : Discards(t, k)
          THEN NULL
          ELSE Stored(table[k])]

\* The result a get is bound to return.
Outcome(t) ==
  LET e == table[loc[t].key] IN
  IF e = NULL \/ Discards(t, loc[t].key) THEN NULL ELSE entry[e].ptr

Call(t) ==
  CASE pc[t] \in {"get_lookup", "get_check", "get_free", "get_remove", "hit", "miss"} -> "get"
    [] Adding(t) \/ pc[t] = "added" -> "add"
    [] OTHER -> "remove"

Result(t) ==
  CASE pc[t] \in {"get_lookup", "get_check"} -> Outcome(t)
    [] pc[t] = "hit" -> loc[t].ptr
    [] OTHER -> NULL

answer ==
  [t \in Thread |->
     IF pc[t] = "idle"
     THEN NONE
     ELSE [call |-> Call(t), key |-> loc[t].key, result |-> Result(t)]]

Abstract == INSTANCE TtlCache WITH Value <- Payload

\* With one thread, the cache of cache.c behaves as the TTL cache its
\* comments describe: a get returns the object last added unless it was
\* added more than TTL ago or was removed, and never a value of another key.
ImplementsTtlCache == Abstract!Spec
=============================================================================
