------------------------------- MODULE Cache --------------------------------
(***************************************************************************)
(* The object cache of cache.c: a hash table from prefix/identifier keys   *)
(* to heap-allocated entries, each holding a timestamp and a payload       *)
(* pointer the cache owns.                                                 *)
(*                                                                         *)
(* The program takes no lock anywhere, and libfuse runs its callbacks on   *)
(* several threads unless the mount option -s is given, so every call of   *)
(* this module is split at its accesses to shared memory: one step per     *)
(* glib call, and one for what is done with the entry it found in between. *)
(* That one compares the lifespan and reads the pointer to be returned, or *)
(* reads the pointer to be freed and frees the object: an entry that is    *)
(* freed between two reads of one step is found freed by a step that comes *)
(* a moment later, with the same outcome.  With one thread it is the       *)
(* sequential cache.  Each glib call is taken to be atomic, which leaves   *)
(* out only races inside glib itself.                                      *)
(*                                                                         *)
(* The heap hands out any block that is not allocated, as malloc may.  A   *)
(* step that reads or frees an unallocated block has undefined behaviour:  *)
(* it sets status to "undefined" and nothing is specified after it.        *)
(***************************************************************************)
EXTENDS Integers, FiniteSets

CONSTANTS
  Thread,      \* threads that call the cache
  Key,         \* prefix/identifier pairs
  Entry,       \* heap blocks that can hold a cache_object_t
  Payload,     \* heap blocks that can hold a cached object
  Data,        \* what a cached object can hold
  TTL,         \* cache->ttl, in clock units
  MaxClock,    \* bound: the wall clock stays in 0..MaxClock
  NULL,
  FREED        \* content of a block that is not allocated

ASSUME CacheAssumption ==
  /\ TTL \in Nat
  /\ MaxClock \in Nat
  /\ NULL \notin Entry \cup Payload \cup Key
  /\ FREED \notin Data \cup [timestamp : Nat, ptr : Payload]

VARIABLES
  clock,       \* what time(NULL) returns
  table,       \* cache->hashtable: the entry block of each key, or NULL
  entry,       \* content of each entry block
  payload,     \* content of each payload block
  pc,          \* where each thread is in its call
  loc,         \* each thread's local variables
  status       \* "running", "freed" by cache_free, or "undefined"

cacheVars == <<clock, table, entry, payload, pc, loc, status>>

CacheStates ==
  {"idle", "get_lookup", "get_check", "get_free", "get_remove", "hit", "miss",
   "add_lookup", "add_free", "add_replace", "added",
   "rem_lookup", "rem_free", "rem_remove", "removed"}

NoLocals == [key |-> NULL, now |-> 0, found |-> NULL, new |-> NULL, ptr |-> NULL]

CacheInit ==
  /\ clock = 0
  /\ table = [k \in Key |-> NULL]
  /\ entry = [e \in Entry |-> FREED]
  /\ payload = [p \in Payload |-> FREED]
  /\ pc = [t \in Thread |-> "idle"]
  /\ loc = [t \in Thread |-> NoLocals]
  /\ status = "running"

\* Thread t moves on within the program.
Step(t, from, to) ==
  /\ status = "running"
  /\ pc[t] = from
  /\ pc' = [pc EXCEPT ![t] = to]

-----------------------------------------------------------------------------
(* cache_get_object.  The clock is read on entry, before the table is.     *)

\* Fault to be caught: the deadline is worked out in the caller's clock.
GetCallDeadline(t, k) ==
  /\ Step(t, "idle", "get_lookup")
  /\ loc' = [loc EXCEPT ![t] = [NoLocals EXCEPT !.key = k, !.now = clock - TTL]]
  /\ UNCHANGED <<clock, table, entry, payload, status>>

GetCall(t, k) ==
  /\ Step(t, "idle", "get_lookup")
  /\ loc' = [loc EXCEPT ![t] = [NoLocals EXCEPT !.key = k, !.now = clock]]
  /\ UNCHANGED <<clock, table, entry, payload, status>>

GetLookup(t) ==
  /\ Step(t, "get_lookup",
          IF table[loc[t].key] = NULL THEN "miss" ELSE "get_check")
  /\ loc' = [loc EXCEPT ![t].found = table[loc[t].key]]
  /\ UNCHANGED <<clock, table, entry, payload, status>>

\* Fault to be caught: an object is dropped one tick early.
ExpiredEarly(c, now) == c.timestamp + TTL <= now

\* The lifespan of entry content c has ended at time now.
Expired(c, now) == c.timestamp + TTL < now

GetFresh(t) ==
  /\ Step(t, "get_check", "hit")
  /\ entry[loc[t].found] # FREED
  /\ ~Expired(entry[loc[t].found], loc[t].now)
  /\ loc' = [loc EXCEPT ![t].ptr = entry[loc[t].found].ptr]
  /\ UNCHANGED <<clock, table, entry, payload, status>>

GetStale(t) ==
  /\ Step(t, "get_check", "get_free")
  /\ entry[loc[t].found] # FREED
  /\ Expired(entry[loc[t].found], loc[t].now)
  /\ UNCHANGED <<clock, table, entry, payload, loc, status>>

\* Fault to be caught: the free function is not called.
FreePayloadForgotten(t, from, to) ==
  /\ Step(t, from, to)
  /\ UNCHANGED <<clock, table, entry, payload, loc, status>>

\* The three operations hand the payload of the entry they looked up to the
\* cache's free function.
FreePayload(t, from, to) ==
  /\ Step(t, from, to)
  /\ entry[loc[t].found] # FREED
  /\ payload[entry[loc[t].found].ptr] # FREED
  /\ payload' = [payload EXCEPT ![entry[loc[t].found].ptr] = FREED]
  /\ UNCHANGED <<clock, table, entry, loc, status>>

\* Fault to be caught: the block is freed and the bucket still points to it.
RemoveEntryKeepsBucket(t, from, to) ==
  /\ Step(t, from, to)
  /\ entry' = [e \in Entry |-> IF e = table[loc[t].key] THEN FREED ELSE entry[e]]
  /\ UNCHANGED <<clock, table, payload, loc, status>>

\* g_hash_table_remove: whatever entry the key has now goes, with its block.
RemoveEntry(t, from, to) ==
  /\ Step(t, from, to)
  /\ entry' = [e \in Entry |-> IF e = table[loc[t].key] THEN FREED ELSE entry[e]]
  /\ table' = [table EXCEPT ![loc[t].key] = NULL]
  /\ UNCHANGED <<clock, payload, loc, status>>

\* Fault to be caught: the payload goes, its entry stays in the table.
GetFreeKeepsEntry(t) == FreePayload(t, "get_free", "miss")
GetRemoveForgotten(t) ==
  /\ Step(t, "get_remove", "miss")
  /\ UNCHANGED <<clock, table, entry, payload, loc, status>>

GetFree(t) == FreePayload(t, "get_free", "get_remove")
GetRemove(t) == RemoveEntry(t, "get_remove", "miss")

-----------------------------------------------------------------------------
(* cache_add_object.  The caller gives up payload p to the cache.          *)

AddCall(t, k, p) ==
  /\ \E e \in Entry :
       /\ entry[e] = FREED
       /\ entry' = [entry EXCEPT ![e] = [timestamp |-> clock, ptr |-> p]]
       /\ loc' = [loc EXCEPT ![t] =
                    [NoLocals EXCEPT !.key = k, !.new = e, !.ptr = p]]
  /\ UNCHANGED <<clock, table, status>>

AddLookup(t) ==
  /\ Step(t, "add_lookup",
          IF table[loc[t].key] = NULL THEN "add_replace" ELSE "add_free")
  /\ loc' = [loc EXCEPT ![t].found = table[loc[t].key]]
  /\ UNCHANGED <<clock, table, entry, payload, status>>

\* Fault to be caught: the object that is replaced is not freed.
AddFreeForgotten(t) == FreePayloadForgotten(t, "add_free", "add_replace")

AddFree(t) == FreePayload(t, "add_free", "add_replace")

\* Fault to be caught: the block freed is that of the entry looked up before.
AddReplaceFreesFound(t) ==
  /\ Step(t, "add_replace", "added")
  /\ entry' = [e \in Entry |-> IF e = loc[t].found THEN FREED ELSE entry[e]]
  /\ table' = [table EXCEPT ![loc[t].key] = loc[t].new]
  /\ UNCHANGED <<clock, payload, loc, status>>

\* g_hash_table_replace: the block of the entry it displaces is freed.
AddReplace(t) ==
  /\ Step(t, "add_replace", "added")
  /\ entry' = [e \in Entry |-> IF e = table[loc[t].key] THEN FREED ELSE entry[e]]
  /\ table' = [table EXCEPT ![loc[t].key] = loc[t].new]
  /\ UNCHANGED <<clock, payload, loc, status>>

-----------------------------------------------------------------------------
(* cache_remove_object.                                                    *)

RemoveCall(t, k) ==
  /\ Step(t, "idle", "rem_lookup")
  /\ loc' = [loc EXCEPT ![t] = [NoLocals EXCEPT !.key = k]]
  /\ UNCHANGED <<clock, table, entry, payload, status>>

RemoveLookup(t) ==
  /\ Step(t, "rem_lookup",
          IF table[loc[t].key] = NULL THEN "removed" ELSE "rem_free")
  /\ loc' = [loc EXCEPT ![t].found = table[loc[t].key]]
  /\ UNCHANGED <<clock, table, entry, payload, status>>

RemoveFree(t) == FreePayload(t, "rem_free", "rem_remove")
RemoveRemove(t) == RemoveEntry(t, "rem_remove", "removed")

-----------------------------------------------------------------------------
(* cache_free: once for each entry the free function, then the table.      *)

Cached == {table[k] : k \in Key} \ {NULL}

\* No payload would be freed twice.
FreedOnce ==
  /\ \A e \in Cached : payload[entry[e].ptr] # FREED
  /\ \A e, f \in Cached : entry[e].ptr = entry[f].ptr => e = f

CacheFree(done) ==
  /\ status = "running"
  /\ \A t \in Thread : pc[t] = "idle"
  /\ status' = IF FreedOnce THEN done ELSE "undefined"
  /\ payload' = [p \in Payload |->
                   IF \E e \in Cached : entry[e].ptr = p THEN FREED ELSE payload[p]]
  /\ entry' = [e \in Entry |-> IF e \in Cached THEN FREED ELSE entry[e]]
  /\ table' = [k \in Key |-> NULL]
  /\ UNCHANGED <<clock, pc, loc>>

-----------------------------------------------------------------------------
(* Undefined behaviour, and the wall clock.                                *)

\* The next access thread t makes is to a block that is not allocated: an
\* entry it looked up, the payload it is about to free, or (between the
\* return of the call and the caller's last use) the payload it was given.
Dangling(t) ==
  \/ /\ pc[t] \in {"get_check", "get_free", "add_free", "rem_free"}
     /\ entry[loc[t].found] = FREED
  \/ /\ pc[t] \in {"get_free", "add_free", "rem_free"}
     /\ entry[loc[t].found] # FREED
     /\ payload[entry[loc[t].found].ptr] = FREED
  \/ /\ pc[t] \in {"hit", "added"}
     /\ payload[loc[t].ptr] = FREED

Undefined(t) ==
  /\ status = "running"
  /\ Dangling(t)
  /\ status' = "undefined"
  /\ UNCHANGED <<clock, table, entry, payload, pc, loc>>

\* time(NULL) is the wall clock: it advances, and it can be set back.
ClockMoves ==
  /\ status = "running"
  /\ clock' \in {clock + 1, clock - 1} \cap 0..MaxClock
  /\ UNCHANGED <<table, entry, payload, pc, loc, status>>

-----------------------------------------------------------------------------
(* The cache alone, with a caller that makes calls in any order, caches    *)
(* only payloads it has just allocated, and uses what it gets no longer    *)
(* than until its next call.                                               *)

ClientAdds(t, k) ==
  \E p \in Payload, d \in Data :
    /\ Step(t, "idle", "add_lookup")
    /\ payload[p] = FREED
    /\ payload' = [payload EXCEPT ![p] = d]
    /\ AddCall(t, k, p)

Return(t) ==
  /\ status = "running"
  /\ pc[t] \in {"hit", "miss", "added", "removed"}
  /\ ~Dangling(t)
  /\ pc' = [pc EXCEPT ![t] = "idle"]
  /\ loc' = [loc EXCEPT ![t] = NoLocals]
  /\ UNCHANGED <<clock, table, entry, payload, status>>

\* Nothing follows the end of the cache, or undefined behaviour.
Ended == status # "running" /\ UNCHANGED cacheVars

ThreadStep(t) ==
  \/ GetLookup(t) \/ GetFresh(t) \/ GetStale(t) \/ GetFree(t) \/ GetRemove(t)
  \/ AddLookup(t) \/ AddFree(t) \/ AddReplace(t)
  \/ RemoveLookup(t) \/ RemoveFree(t) \/ RemoveRemove(t)

CacheNext ==
  \/ \E t \in Thread, k \in Key :
       GetCall(t, k) \/ ClientAdds(t, k) \/ RemoveCall(t, k)
  \/ \E t \in Thread : ThreadStep(t) \/ Return(t) \/ Undefined(t)
  \/ CacheFree("freed")
  \/ ClockMoves
  \/ Ended

CacheSpec == CacheInit /\ [][CacheNext]_cacheVars

-----------------------------------------------------------------------------
(* Properties.                                                             *)

Adding(t) == pc[t] \in {"add_lookup", "add_free", "add_replace"}

Locals ==
  [key : Key \cup {NULL}, now : 0..MaxClock, found : Entry \cup {NULL},
   new : Entry \cup {NULL}, ptr : Payload \cup {NULL}]

\* The program counters, locals and heap blocks hold values of their types.
CacheTypeOK ==
  /\ clock \in 0..MaxClock
  /\ table \in [Key -> Entry \cup {NULL}]
  /\ entry \in [Entry -> [timestamp : 0..MaxClock, ptr : Payload] \cup {FREED}]
  /\ payload \in [Payload -> Data \cup {FREED}]
  /\ pc \in [Thread -> CacheStates]
  /\ loc \in [Thread -> Locals]
  /\ status \in {"running", "freed", "undefined"}

BucketsAllocated == \A k \in Key : table[k] # NULL => entry[table[k]] # FREED
BucketsDistinct == \A j, k \in Key : table[j] = table[k] /\ table[j] # NULL => j = k
NewAllocated ==
  \A t \in Thread : Adding(t) => /\ entry[loc[t].new] # FREED
                                 /\ \A k \in Key : table[k] # loc[t].new
NewDistinct ==
  \A s, t \in Thread : Adding(s) /\ Adding(t) /\ loc[s].new = loc[t].new => s = t
NoEntryLost ==
  \A e \in Entry : entry[e] # FREED => \/ \E k \in Key : table[k] = e
                                       \/ \E t \in Thread : Adding(t) /\ loc[t].new = e

\* However the calls of any number of threads interleave, the blocks of the
\* entries are managed without error: the table never points to a freed
\* entry, no two keys share one, an entry being added is in no bucket yet,
\* and no allocated entry is unreachable.  cache.c gets this from letting
\* glib's value destructor be the only place that frees an entry.
EntriesManaged ==
  /\ BucketsAllocated
  /\ BucketsDistinct
  /\ NewAllocated
  /\ NewDistinct
  /\ NoEntryLost

\* No call reads or frees a block that is no longer allocated, and no caller
\* is given a pointer to one (cache.c frees payloads by hand before glib
\* drops their entries, so the two must never be seen out of step).
NoUndefinedBehaviour == status # "undefined"

\* The payload of k's entry is freed, and the entry is about to go.
Dropping(k) ==
  \E t \in Thread : /\ loc[t].key = k
                   /\ pc[t] \in {"get_remove", "rem_remove", "add_replace"}

\* A payload is allocated exactly as long as the cache holds it or is being
\* given it: the cache loses none, and keeps no pointer to a freed one.
PayloadsManaged ==
  \A p \in Payload :
    payload[p] # FREED
      <=> \/ \E k \in Key : /\ table[k] # NULL
                           /\ entry[table[k]].ptr = p
                           /\ ~Dropping(k)
          \/ \E t \in Thread : Adding(t) /\ loc[t].ptr = p
=============================================================================
