---------------------------- MODULE CacheProofs -----------------------------
(***************************************************************************)
(* Proofs about the object cache, for every number of threads, keys and    *)
(* blocks, every lifespan and every clock.                                 *)
(*                                                                         *)
(* The lemmas about single steps assume of the program counters only that  *)
(* every thread has one, so that they hold as well in a program whose      *)
(* threads do other things besides calling the cache.                      *)
(***************************************************************************)
EXTENDS Cache, TLAPS

HeapTypeOK ==
  /\ clock \in 0..MaxClock
  /\ table \in [Key -> Entry \cup {NULL}]
  /\ entry \in [Entry -> [timestamp : 0..MaxClock, ptr : Payload] \cup {FREED}]
  /\ payload \in [Payload -> Data \cup {FREED}]
  /\ pc = [t \in Thread |-> pc[t]]
  /\ loc \in [Thread -> Locals]

\* In its call a thread has the key it called with, and from the moment it
\* has found or made an entry the entry is one.
LocalsSet ==
  \A t \in Thread :
    /\ pc[t] \in {"get_lookup", "get_check", "get_free", "get_remove", "add_lookup",
                  "add_free", "add_replace", "rem_lookup", "rem_free", "rem_remove"}
         => loc[t].key \in Key
    /\ pc[t] \in {"get_check", "get_free", "add_free", "rem_free"} => loc[t].found \in Entry
    /\ Adding(t) => loc[t].new \in Entry /\ loc[t].ptr \in Payload

-----------------------------------------------------------------------------
(* Types.                                                                  *)

LEMMA NoLocalsTyped == NoLocals \in Locals
BY CacheAssumption DEF NoLocals, Locals

LEMMA AddCallTyped ==
  ASSUME HeapTypeOK, NEW t \in Thread, NEW k \in Key, NEW p \in Payload,
         AddCall(t, k, p)
  PROVE  /\ entry' \in [Entry -> [timestamp : 0..MaxClock, ptr : Payload] \cup {FREED}]
         /\ loc' \in [Thread -> Locals]
<1>1. PICK e \in Entry :
        /\ entry' = [entry EXCEPT ![e] = [timestamp |-> clock, ptr |-> p]]
        /\ loc' = [loc EXCEPT ![t] = [NoLocals EXCEPT !.key = k, !.new = e, !.ptr = p]]
  BY DEF AddCall
<1>2. [NoLocals EXCEPT !.key = k, !.new = e, !.ptr = p] \in Locals
  BY NoLocalsTyped DEF NoLocals, Locals
<1>3. [timestamp |-> clock, ptr |-> p] \in [timestamp : 0..MaxClock, ptr : Payload]
  BY DEF HeapTypeOK
<1> QED BY <1>1, <1>2, <1>3 DEF HeapTypeOK

LEMMA CallsTyped ==
  ASSUME HeapTypeOK, NEW t \in Thread, NEW k \in Key,
         GetCall(t, k) \/ ClientAdds(t, k) \/ RemoveCall(t, k)
  PROVE  HeapTypeOK'
<1>1. CASE GetCall(t, k)
  BY <1>1, NoLocalsTyped DEF HeapTypeOK, GetCall, Step, NoLocals, Locals
<1>2. CASE ClientAdds(t, k)
  <2>1. PICK p \in Payload, d \in Data :
          /\ Step(t, "idle", "add_lookup")
          /\ payload' = [payload EXCEPT ![p] = d]
          /\ AddCall(t, k, p)
    BY <1>2 DEF ClientAdds
  <2>2. payload' \in [Payload -> Data \cup {FREED}] /\ pc' = [s \in Thread |-> pc'[s]]
    BY <2>1 DEF HeapTypeOK, Step
  <2>3. clock' = clock /\ table' = table
    BY <2>1 DEF AddCall
  <2> QED BY <2>1, <2>2, <2>3, AddCallTyped DEF HeapTypeOK
<1>3. CASE RemoveCall(t, k)
  BY <1>3, NoLocalsTyped DEF HeapTypeOK, RemoveCall, Step, NoLocals, Locals
<1> QED BY <1>1, <1>2, <1>3

LEMMA StepsTyped ==
  ASSUME HeapTypeOK, LocalsSet, NEW t \in Thread, ThreadStep(t)
  PROVE  HeapTypeOK'
<1>1. CASE GetLookup(t) \/ AddLookup(t) \/ RemoveLookup(t)
  BY <1>1 DEF HeapTypeOK, LocalsSet, GetLookup, AddLookup, RemoveLookup, Step, Locals
<1>2. CASE GetFresh(t)
  BY <1>2 DEF HeapTypeOK, LocalsSet, GetFresh, Step, Locals
<1>3. CASE GetStale(t)
  BY <1>3 DEF HeapTypeOK, GetStale, Step
<1>4. CASE GetFree(t) \/ AddFree(t) \/ RemoveFree(t)
  BY <1>4 DEF HeapTypeOK, GetFree, AddFree, RemoveFree, FreePayload, Step
<1>5. CASE GetRemove(t) \/ RemoveRemove(t)
  BY <1>5 DEF HeapTypeOK, GetRemove, RemoveRemove, RemoveEntry, Step
<1>6. CASE AddReplace(t)
  BY <1>6 DEF HeapTypeOK, LocalsSet, Adding, AddReplace, Step
<1> QED BY <1>1, <1>2, <1>3, <1>4, <1>5, <1>6 DEF ThreadStep

\* What a thread has noted of its call stays what it must be.
LEMMA CallsSetLocals ==
  ASSUME HeapTypeOK, LocalsSet, NEW t \in Thread, NEW k \in Key,
         GetCall(t, k) \/ ClientAdds(t, k) \/ RemoveCall(t, k)
  PROVE  LocalsSet'
<1>1. CASE GetCall(t, k) \/ RemoveCall(t, k)
  BY <1>1, ZenonT(60) DEF HeapTypeOK, LocalsSet, Adding, GetCall, RemoveCall, Step, NoLocals
<1>2. CASE ClientAdds(t, k)
  <2>1. PICK p \in Payload, e \in Entry :
          /\ Step(t, "idle", "add_lookup")
          /\ loc' = [loc EXCEPT ![t] = [NoLocals EXCEPT !.key = k, !.new = e, !.ptr = p]]
    BY <1>2 DEF ClientAdds, AddCall
  <2>2. loc'[t].key = k /\ loc'[t].new = e /\ loc'[t].ptr = p /\ pc'[t] = "add_lookup"
    BY <2>1 DEF HeapTypeOK, Step, NoLocals
  <2>3. \A s \in Thread \ {t} : loc'[s] = loc[s] /\ pc'[s] = pc[s]
    BY <2>1 DEF HeapTypeOK, Step
  <2> QED BY <2>2, <2>3 DEF LocalsSet, Adding
<1> QED BY <1>1, <1>2

LEMMA StepsKeepLocals ==
  ASSUME HeapTypeOK, LocalsSet, NEW t \in Thread, ThreadStep(t)
  PROVE  LocalsSet'
<1>1. CASE GetLookup(t) \/ AddLookup(t) \/ RemoveLookup(t)
  BY <1>1 DEF HeapTypeOK, LocalsSet, Adding, GetLookup, AddLookup, RemoveLookup, Step, Locals
<1>2. CASE GetFresh(t) \/ GetStale(t)
  BY <1>2 DEF HeapTypeOK, LocalsSet, Adding, GetFresh, GetStale, Step, Locals
<1>3. CASE GetFree(t) \/ AddFree(t) \/ RemoveFree(t)
  BY <1>3 DEF HeapTypeOK, LocalsSet, Adding, GetFree, AddFree, RemoveFree, FreePayload, Step
<1>4. CASE GetRemove(t) \/ RemoveRemove(t) \/ AddReplace(t)
  BY <1>4 DEF HeapTypeOK, LocalsSet, Adding, GetRemove, RemoveRemove, RemoveEntry, AddReplace, Step
<1> QED BY <1>1, <1>2, <1>3, <1>4 DEF ThreadStep

LEMMA ReturnTyped ==
  ASSUME HeapTypeOK, LocalsSet, NEW t \in Thread, Return(t)
  PROVE  HeapTypeOK' /\ LocalsSet'
BY NoLocalsTyped DEF HeapTypeOK, LocalsSet, Adding, Return

LEMMA CacheFreeTyped ==
  ASSUME HeapTypeOK, LocalsSet, NEW done, CacheFree(done)
  PROVE  HeapTypeOK' /\ LocalsSet'
BY DEF HeapTypeOK, LocalsSet, Adding, CacheFree

LEMMA ClockMovesTyped ==
  ASSUME HeapTypeOK, LocalsSet, ClockMoves
  PROVE  HeapTypeOK' /\ LocalsSet'
BY CacheAssumption DEF HeapTypeOK, LocalsSet, Adding, ClockMoves

TypeInv == CacheTypeOK /\ LocalsSet

LEMMA CacheTypeInvariant == CacheSpec => []TypeInv
<1>1. CacheInit => TypeInv
  BY CacheAssumption, NoLocalsTyped
     DEF CacheInit, TypeInv, CacheTypeOK, CacheStates, LocalsSet, Adding
<1>2. TypeInv /\ [CacheNext]_cacheVars => TypeInv'
  <2> SUFFICES ASSUME TypeInv, [CacheNext]_cacheVars PROVE TypeInv'
    OBVIOUS
  <2>0. HeapTypeOK /\ LocalsSet
    BY DEF TypeInv, CacheTypeOK, HeapTypeOK
  <2>1. HeapTypeOK' /\ LocalsSet'
    <3>1. CASE \E t \in Thread, k \in Key : GetCall(t, k) \/ ClientAdds(t, k) \/ RemoveCall(t, k)
      BY <2>0, <3>1, CallsTyped, CallsSetLocals
    <3>2. CASE \E t \in Thread : ThreadStep(t)
      BY <2>0, <3>2, StepsTyped, StepsKeepLocals
    <3>3. CASE \E t \in Thread : Return(t)
      BY <2>0, <3>3, ReturnTyped
    <3>4. CASE CacheFree("freed")
      BY <2>0, <3>4, CacheFreeTyped
    <3>5. CASE ClockMoves
      BY <2>0, <3>5, ClockMovesTyped
    <3>6. CASE (\E t \in Thread : Undefined(t)) \/ Ended \/ UNCHANGED cacheVars
      BY <2>0, <3>6 DEF Undefined, Ended, cacheVars, HeapTypeOK, LocalsSet, Adding
    <3> QED BY <3>1, <3>2, <3>3, <3>4, <3>5, <3>6 DEF CacheNext
  <2>2. pc' \in [Thread -> CacheStates] /\ status' \in {"running", "freed", "undefined"}
    <3> USE DEF TypeInv, CacheTypeOK
    <3>1. CASE \E t \in Thread, k \in Key : GetCall(t, k) \/ ClientAdds(t, k) \/ RemoveCall(t, k)
      BY <3>1 DEF GetCall, ClientAdds, AddCall, RemoveCall, Step, CacheStates
    <3>2. CASE \E t \in Thread : ThreadStep(t)
      BY <3>2 DEF ThreadStep, GetLookup, GetFresh, GetStale, GetFree, GetRemove, AddLookup,
        AddFree, AddReplace, RemoveLookup, RemoveFree, RemoveRemove, FreePayload,
        RemoveEntry, Step, CacheStates
    <3>3. CASE \E t \in Thread : Return(t) \/ Undefined(t)
      BY <3>3 DEF Return, Undefined, CacheStates
    <3>4. CASE CacheFree("freed") \/ ClockMoves \/ Ended \/ UNCHANGED cacheVars
      BY <3>4 DEF CacheFree, ClockMoves, Ended, cacheVars
    <3> QED BY <3>1, <3>2, <3>3, <3>4 DEF CacheNext
  <2> QED BY <2>1, <2>2 DEF TypeInv, CacheTypeOK, HeapTypeOK
<1> QED BY <1>1, <1>2, PTL DEF CacheSpec

\* The cache keeps values of their types in its variables, whatever runs it.
THEOREM CacheTyped == CacheSpec => []CacheTypeOK
<1>1. TypeInv => CacheTypeOK
  BY DEF TypeInv
<1> QED BY <1>1, CacheTypeInvariant, PTL

-----------------------------------------------------------------------------
(* The blocks of the entries.                                              *)

\* A step that leaves the table, the entries and the adding threads alone.
LEMMA EntriesUntouched ==
  ASSUME EntriesManaged,
         UNCHANGED <<table, entry>>,
         \A t \in Thread : /\ Adding(t)' <=> Adding(t)
                           /\ Adding(t) => loc'[t].new = loc[t].new
  PROVE  EntriesManaged'
<1>1. BucketsAllocated' /\ BucketsDistinct'
  BY DEF EntriesManaged, BucketsAllocated, BucketsDistinct
<1>2. NewAllocated' /\ NewDistinct' /\ NoEntryLost'
  BY DEF EntriesManaged, NewAllocated, NewDistinct, NoEntryLost
<1> QED BY <1>1, <1>2 DEF EntriesManaged

\* malloc gives the new entry a block that nothing else holds.
LEMMA AddCallEntries ==
  ASSUME HeapTypeOK, LocalsSet, EntriesManaged, NEW t \in Thread, NEW k \in Key,
         NEW p \in Payload, ~Adding(t), Adding(t)', AddCall(t, k, p),
         \A s \in Thread \ {t} : pc'[s] = pc[s]
  PROVE  EntriesManaged'
<1>1. PICK e \in Entry :
        /\ entry[e] = FREED
        /\ entry' = [entry EXCEPT ![e] = [timestamp |-> clock, ptr |-> p]]
        /\ loc' = [loc EXCEPT ![t] = [NoLocals EXCEPT !.key = k, !.new = e, !.ptr = p]]
        /\ table' = table
  BY DEF AddCall
<1>2. loc'[t].new = e /\ entry'[e] # FREED /\ \A f \in Entry \ {e} : entry'[f] = entry[f]
  <2>1. [timestamp |-> clock, ptr |-> p] \in [timestamp : Nat, ptr : Payload]
    BY CacheAssumption DEF HeapTypeOK
  <2> QED BY <1>1, <2>1, CacheAssumption DEF HeapTypeOK, NoLocals
<1>3. \A s \in Thread \ {t} : loc'[s] = loc[s] /\ (Adding(s)' <=> Adding(s))
  BY <1>1 DEF HeapTypeOK, Adding
<1>4. \A j \in Key : table[j] # e
  BY <1>1, CacheAssumption DEF EntriesManaged, BucketsAllocated
<1>5. \A s \in Thread : Adding(s) => loc[s].new \in Entry \ {e}
  BY <1>1 DEF EntriesManaged, NewAllocated, LocalsSet
<1>6. BucketsAllocated' /\ BucketsDistinct'
  BY <1>1, <1>2, <1>4 DEF EntriesManaged, BucketsAllocated, BucketsDistinct, HeapTypeOK
<1>7. NewAllocated'
  BY <1>1, <1>2, <1>3, <1>4, <1>5 DEF EntriesManaged, NewAllocated
<1>8. NewDistinct'
  BY <1>2, <1>3, <1>5 DEF EntriesManaged, NewDistinct
<1>9. NoEntryLost'
  BY <1>1, <1>2, <1>3 DEF EntriesManaged, NoEntryLost
<1> QED BY <1>6, <1>7, <1>8, <1>9 DEF EntriesManaged

\* g_hash_table_remove frees the entry of the bucket it empties.
LEMMA RemoveEntryEntries ==
  ASSUME HeapTypeOK, LocalsSet, EntriesManaged, NEW t \in Thread, NEW from, NEW to,
         loc[t].key \in Key, ~Adding(t), RemoveEntry(t, from, to), ~Adding(t)'
  PROVE  EntriesManaged'
<1> DEFINE key == loc[t].key
<1>1. /\ table' = [table EXCEPT ![key] = NULL]
      /\ \A e \in Entry : entry'[e] = IF e = table[key] THEN FREED ELSE entry[e]
      /\ loc' = loc
  BY DEF RemoveEntry
<1>2. \A s \in Thread : Adding(s)' <=> Adding(s)
  BY DEF RemoveEntry, Step, HeapTypeOK, Adding
<1>3. table'[key] = NULL /\ \A j \in Key \ {key} : table'[j] = table[j]
  BY <1>1 DEF HeapTypeOK
<1>4. \A j \in Key \ {key} : table[j] # NULL => table[j] # table[key] /\ table[j] \in Entry
  BY DEF EntriesManaged, BucketsDistinct, HeapTypeOK
<1>5. BucketsAllocated' /\ BucketsDistinct'
  BY <1>1, <1>3, <1>4 DEF EntriesManaged, BucketsAllocated, BucketsDistinct
<1>6. NewAllocated'
  BY <1>1, <1>2, <1>3, CacheAssumption DEF EntriesManaged, NewAllocated, LocalsSet
<1>7. NewDistinct' /\ NoEntryLost'
  BY <1>1, <1>2, <1>3, CacheAssumption DEF EntriesManaged, NewDistinct, NoEntryLost
<1> QED BY <1>5, <1>6, <1>7 DEF EntriesManaged

\* g_hash_table_replace frees the entry it displaces, whatever thread put it
\* there, and the new one is in one bucket from now on.
LEMMA AddReplaceEntries ==
  ASSUME HeapTypeOK, LocalsSet, EntriesManaged, NEW t \in Thread, AddReplace(t)
  PROVE  EntriesManaged'
<1> DEFINE key == loc[t].key
           new == loc[t].new
<1>0. Adding(t) /\ key \in Key /\ new \in Entry
  BY DEF AddReplace, Step, Adding, LocalsSet
<1>1. /\ table' = [table EXCEPT ![key] = new]
      /\ \A e \in Entry : entry'[e] = IF e = table[key] THEN FREED ELSE entry[e]
      /\ loc' = loc
  BY DEF AddReplace
<1>2. ~Adding(t)' /\ \A s \in Thread \ {t} : Adding(s)' <=> Adding(s)
  BY DEF AddReplace, Step, HeapTypeOK, Adding
<1>3. table'[key] = new /\ \A j \in Key \ {key} : table'[j] = table[j]
  BY <1>0, <1>1 DEF HeapTypeOK
<1>4. \A j \in Key \ {key} : table[j] # NULL => table[j] # table[key] /\ table[j] \in Entry
  BY <1>0 DEF EntriesManaged, BucketsDistinct, HeapTypeOK
<1>5. new # table[key] /\ entry[new] # FREED /\ \A j \in Key : table[j] # new
  BY <1>0 DEF EntriesManaged, NewAllocated
<1>6. BucketsAllocated' /\ BucketsDistinct'
  BY <1>0, <1>1, <1>3, <1>4, <1>5 DEF EntriesManaged, BucketsAllocated, BucketsDistinct
<1>7. \A s \in Thread \ {t} : Adding(s) => loc[s].new \in Entry /\ loc[s].new # new
  BY <1>0 DEF EntriesManaged, NewDistinct, LocalsSet
<1>8. NewAllocated'
  BY <1>0, <1>1, <1>2, <1>3, <1>7 DEF EntriesManaged, NewAllocated
<1>9. NewDistinct'
  BY <1>1, <1>2 DEF EntriesManaged, NewDistinct
<1>10. NoEntryLost'
  BY <1>0, <1>1, <1>2, <1>3 DEF EntriesManaged, NoEntryLost
<1> QED BY <1>6, <1>8, <1>9, <1>10 DEF EntriesManaged

LEMMA CacheFreeEntries ==
  ASSUME HeapTypeOK, EntriesManaged, NEW done, CacheFree(done)
  PROVE  EntriesManaged'
<1>1. /\ \A k \in Key : table'[k] = NULL
      /\ \A e \in Entry : entry'[e] = IF e \in Cached THEN FREED ELSE entry[e]
      /\ \A t \in Thread : ~Adding(t) /\ ~Adding(t)'
  BY DEF CacheFree, Adding
<1>2. \A e \in Entry : entry'[e] = FREED
  BY <1>1, CacheAssumption DEF EntriesManaged, NoEntryLost, Cached
<1> QED BY <1>1, <1>2 DEF EntriesManaged, BucketsAllocated, BucketsDistinct, NewAllocated,
             NewDistinct, NoEntryLost

\* The steps of the calls, as any program that makes them takes them.
LEMMA StepsManageEntries ==
  ASSUME HeapTypeOK, LocalsSet, EntriesManaged, NEW t \in Thread, ThreadStep(t)
  PROVE  EntriesManaged'
<1>1. CASE GetLookup(t) \/ GetFresh(t) \/ GetStale(t) \/ AddLookup(t) \/ RemoveLookup(t)
  <2>1. /\ UNCHANGED <<table, entry>>
        /\ \A s \in Thread : /\ Adding(s)' <=> Adding(s)
                             /\ Adding(s) => loc'[s].new = loc[s].new
    BY <1>1 DEF GetLookup, GetFresh, GetStale, AddLookup, RemoveLookup, Step, HeapTypeOK,
         Adding, Locals
  <2> QED BY <2>1, EntriesUntouched
<1>2. CASE GetFree(t) \/ AddFree(t) \/ RemoveFree(t)
  <2>1. /\ UNCHANGED <<table, entry>>
        /\ \A s \in Thread : /\ Adding(s)' <=> Adding(s)
                             /\ Adding(s) => loc'[s].new = loc[s].new
    BY <1>2 DEF GetFree, AddFree, RemoveFree, FreePayload, Step, HeapTypeOK, Adding
  <2> QED BY <2>1, EntriesUntouched
<1>3. CASE GetRemove(t) \/ RemoveRemove(t)
  <2>1. PICK from \in {"get_remove", "rem_remove"}, to \in {"miss", "removed"} :
          RemoveEntry(t, from, to)
    BY <1>3 DEF GetRemove, RemoveRemove
  <2>2. loc[t].key \in Key /\ ~Adding(t) /\ ~Adding(t)'
    BY <2>1 DEF RemoveEntry, Step, Adding, LocalsSet, HeapTypeOK
  <2> QED BY <2>1, <2>2, RemoveEntryEntries
<1>4. CASE AddReplace(t)
  BY <1>4, AddReplaceEntries
<1> QED BY <1>1, <1>2, <1>3, <1>4 DEF ThreadStep

\* For any number of threads: the program frees every entry exactly once, and
\* never while the table or a thread still points to it.
THEOREM EntriesSafe == CacheSpec => []EntriesManaged
<1>1. CacheInit => EntriesManaged
  BY DEF CacheInit, EntriesManaged, BucketsAllocated, BucketsDistinct, NewAllocated,
     NewDistinct, NoEntryLost, Adding
<1>2. TypeInv /\ EntriesManaged /\ [CacheNext]_cacheVars => EntriesManaged'
  <2> SUFFICES ASSUME TypeInv, EntriesManaged, [CacheNext]_cacheVars PROVE EntriesManaged'
    OBVIOUS
  <2>0. HeapTypeOK /\ LocalsSet
    BY DEF TypeInv, CacheTypeOK, HeapTypeOK
  <2>1. ASSUME NEW t \in Thread, NEW k \in Key, GetCall(t, k) \/ RemoveCall(t, k)
        PROVE  EntriesManaged'
    <3>1. /\ UNCHANGED <<table, entry>>
          /\ \A s \in Thread : /\ Adding(s)' <=> Adding(s)
                               /\ Adding(s) => loc'[s].new = loc[s].new
      BY <2>0, <2>1 DEF GetCall, RemoveCall, Step, HeapTypeOK, Adding
    <3> QED BY <3>1, EntriesUntouched
  <2>2. ASSUME NEW t \in Thread, NEW k \in Key, ClientAdds(t, k)
        PROVE  EntriesManaged'
    <3>1. PICK p \in Payload : AddCall(t, k, p)
      BY <2>2 DEF ClientAdds
    <3>2. ~Adding(t) /\ Adding(t)' /\ \A s \in Thread \ {t} : pc'[s] = pc[s]
      BY <2>0, <2>2 DEF ClientAdds, Step, HeapTypeOK, Adding
    <3> QED BY <2>0, <3>1, <3>2, AddCallEntries
  <2>3. ASSUME NEW t \in Thread, ThreadStep(t)
        PROVE  EntriesManaged'
    BY <2>0, <2>3, StepsManageEntries
  <2>4. ASSUME NEW t \in Thread, Return(t)
        PROVE  EntriesManaged'
    <3>1. /\ UNCHANGED <<table, entry>>
          /\ \A s \in Thread : /\ Adding(s)' <=> Adding(s)
                               /\ Adding(s) => loc'[s].new = loc[s].new
      BY <2>0, <2>4 DEF Return, HeapTypeOK, Adding
    <3> QED BY <3>1, EntriesUntouched
  <2>5. CASE CacheFree("freed")
    BY <2>0, <2>5, CacheFreeEntries
  <2>6. CASE ClockMoves \/ (\E t \in Thread : Undefined(t)) \/ Ended \/ UNCHANGED cacheVars
    <3>1. UNCHANGED <<table, entry, pc, loc>>
      BY <2>6 DEF ClockMoves, Undefined, Ended, cacheVars
    <3> QED BY <3>1, EntriesUntouched DEF Adding
  <2> QED BY <2>1, <2>2, <2>3, <2>4, <2>5, <2>6 DEF CacheNext
<1> QED BY <1>1, <1>2, CacheTypeInvariant, PTL DEF CacheSpec

-----------------------------------------------------------------------------
(* With one thread: no undefined behaviour, and no payload is lost.        *)

OneThread == \A s, t \in Thread : s = t

Holds(k, p) == table[k] # NULL /\ entry[table[k]].ptr = p

\* What a thread looked up is still the entry of its key.
LookedUp ==
  \A t \in Thread : pc[t] \in {"get_check", "get_free", "add_free", "rem_free"} =>
    table[loc[t].key] # NULL /\ loc[t].found = table[loc[t].key]

PayloadsDistinct ==
  \A j, k \in Key : \A p \in Payload : Holds(j, p) /\ Holds(k, p) => j = k

\* A payload being added is in its entry and in no other.
NewPayload ==
  \A t \in Thread : Adding(t) =>
    /\ entry[loc[t].new].ptr = loc[t].ptr
    /\ \A k \in Key : ~Holds(k, loc[t].ptr)

\* What a call returned is still what the cache holds for its key.
Given ==
  \A t \in Thread : pc[t] \in {"hit", "added"} =>
    /\ loc[t].key \in Key
    /\ loc[t].ptr \in Payload
    /\ Holds(loc[t].key, loc[t].ptr)

SerialInv ==
  /\ HeapTypeOK
  /\ LocalsSet
  /\ EntriesManaged
  /\ LookedUp
  /\ PayloadsDistinct
  /\ NewPayload
  /\ Given
  /\ PayloadsManaged

LEMMA EntryTyped ==
  ASSUME HeapTypeOK, EntriesManaged, NEW k \in Key, table[k] # NULL
  PROVE  /\ table[k] \in Entry
         /\ entry[table[k]] \in [timestamp : 0..MaxClock, ptr : Payload]
         /\ entry[table[k]].ptr \in Payload
         /\ entry[table[k]] # FREED
BY DEF HeapTypeOK, EntriesManaged, BucketsAllocated

\* The next access of no thread is to a block that is not allocated.
LEMMA NoneDangling ==
  ASSUME OneThread, SerialInv, NEW t \in Thread
  PROVE  ~Dangling(t)
<1>1. CASE pc[t] \in {"get_check", "get_free", "add_free", "rem_free"}
  <2> DEFINE key == loc[t].key
  <2>1. key \in Key /\ table[key] # NULL /\ loc[t].found = table[key]
    BY <1>1 DEF SerialInv, LocalsSet, LookedUp
  <2>2. entry[table[key]] # FREED /\ entry[table[key]].ptr \in Payload
    BY <2>1, EntryTyped DEF SerialInv
  <2>3. ~Dropping(key)
    BY <1>1 DEF OneThread, Dropping
  <2>4. payload[entry[table[key]].ptr] # FREED
    BY <2>1, <2>2, <2>3 DEF SerialInv, PayloadsManaged
  <2> QED BY <1>1, <2>1, <2>2, <2>4 DEF Dangling
<1>2. CASE pc[t] \in {"hit", "added"}
  <2>1. ~Dropping(loc[t].key)
    BY <1>2 DEF OneThread, Dropping
  <2>2. payload[loc[t].ptr] # FREED
    BY <1>2, <2>1 DEF SerialInv, Given, Holds, PayloadsManaged
  <2> QED BY <1>2, <2>2 DEF Dangling
<1>3. CASE pc[t] \notin {"get_check", "get_free", "add_free", "rem_free", "hit", "added"}
  BY <1>3 DEF Dangling
<1> QED BY <1>1, <1>2, <1>3

\* Nothing is freed twice when the cache is.
LEMMA AllFreedOnce ==
  ASSUME SerialInv, \A t \in Thread : pc[t] = "idle"
  PROVE  FreedOnce
<1>1. ASSUME NEW e \in Cached PROVE payload[entry[e].ptr] # FREED
  <2>1. PICK k \in Key : table[k] = e /\ e # NULL
    BY <1>1 DEF Cached
  <2>2. entry[e].ptr \in Payload
    BY <2>1, EntryTyped DEF SerialInv
  <2>3. ~Dropping(k)
    BY DEF Dropping
  <2> QED BY <2>1, <2>2, <2>3 DEF SerialInv, PayloadsManaged
<1>2. ASSUME NEW e \in Cached, NEW f \in Cached, entry[e].ptr = entry[f].ptr PROVE e = f
  <2>1. PICK j, k \in Key : table[j] = e /\ table[k] = f /\ e # NULL /\ f # NULL
    BY DEF Cached
  <2>2. entry[e].ptr \in Payload
    BY <2>1, EntryTyped DEF SerialInv
  <2> QED BY <1>2, <2>1, <2>2 DEF SerialInv, PayloadsDistinct, Holds
<1> QED BY <1>1, <1>2 DEF FreedOnce

\* With one thread the other threads need no attention.
LEMMA OnlyThread ==
  ASSUME OneThread, NEW t \in Thread
  PROVE  Thread = {t}
BY DEF OneThread

LEMMA LookupsSerial ==
  ASSUME OneThread, SerialInv, NEW t \in Thread,
         GetLookup(t) \/ AddLookup(t) \/ RemoveLookup(t)
  PROVE  LookedUp' /\ PayloadsDistinct' /\ NewPayload' /\ Given' /\ PayloadsManaged'
<1> USE OnlyThread DEF SerialInv
<1>1. /\ UNCHANGED <<table, entry, payload>>
      /\ loc'[t] = [loc[t] EXCEPT !.found = table[loc[t].key]]
      /\ pc'[t] \in {"miss", "get_check", "add_replace", "add_free", "removed", "rem_free"}
      /\ pc'[t] \in {"get_check", "add_free", "rem_free"} => table[loc[t].key] # NULL
      /\ pc'[t] = "add_replace" => table[loc[t].key] = NULL
      /\ Adding(t)' <=> Adding(t)
      /\ pc[t] \in {"get_lookup", "add_lookup", "rem_lookup"}
  BY DEF HeapTypeOK, GetLookup, AddLookup, RemoveLookup, Step, Adding
<1>2. LookedUp' /\ Given'
  BY <1>1 DEF LookedUp, Given, HeapTypeOK, Locals
<1>3. PayloadsDistinct' /\ NewPayload'
  BY <1>1 DEF PayloadsDistinct, NewPayload, Holds, HeapTypeOK, Locals
<1>4. \A k \in Key : table[k] # NULL => ~Dropping(k) /\ ~Dropping(k)'
  BY <1>1 DEF Dropping, HeapTypeOK, Locals
<1>5. PayloadsManaged'
  BY <1>1, <1>4 DEF PayloadsManaged, HeapTypeOK, Locals
<1> QED BY <1>2, <1>3, <1>5

LEMMA ChecksSerial ==
  ASSUME OneThread, SerialInv, NEW t \in Thread, GetFresh(t) \/ GetStale(t)
  PROVE  LookedUp' /\ PayloadsDistinct' /\ NewPayload' /\ Given' /\ PayloadsManaged'
<1> USE OnlyThread DEF SerialInv
<1>1. /\ UNCHANGED <<table, entry, payload>>
      /\ pc[t] = "get_check"
      /\ \/ pc'[t] = "hit" /\ loc'[t] = [loc[t] EXCEPT !.ptr = entry[loc[t].found].ptr]
         \/ pc'[t] = "get_free" /\ loc' = loc
  BY DEF HeapTypeOK, GetFresh, GetStale, Step
<1>2. loc[t].key \in Key /\ Holds(loc[t].key, entry[loc[t].found].ptr)
  BY <1>1 DEF LocalsSet, LookedUp, Holds
<1>3. entry[loc[t].found].ptr \in Payload
  BY <1>1, <1>2, EntryTyped DEF LookedUp
<1>4. LookedUp' /\ Given'
  BY <1>1, <1>2, <1>3 DEF LookedUp, Given, Holds, HeapTypeOK, Locals
<1>5. PayloadsDistinct' /\ NewPayload'
  BY <1>1 DEF PayloadsDistinct, NewPayload, Adding, Holds
<1>6. PayloadsManaged'
  BY <1>1 DEF PayloadsManaged, Dropping, Adding
<1> QED BY <1>4, <1>5, <1>6

LEMMA FreesSerial ==
  ASSUME OneThread, SerialInv, NEW t \in Thread, GetFree(t) \/ AddFree(t) \/ RemoveFree(t)
  PROVE  LookedUp' /\ PayloadsDistinct' /\ NewPayload' /\ Given' /\ PayloadsManaged'
<1> USE OnlyThread DEF SerialInv
<1> DEFINE key == loc[t].key
           b == entry[table[key]].ptr
<1>1. /\ UNCHANGED <<table, entry, loc>>
      /\ payload' = [payload EXCEPT ![entry[loc[t].found].ptr] = FREED]
      /\ pc[t] \in {"get_free", "add_free", "rem_free"}
      /\ pc'[t] \in {"get_remove", "add_replace", "rem_remove"}
      /\ Adding(t)' <=> Adding(t)
  BY DEF HeapTypeOK, GetFree, AddFree, RemoveFree, FreePayload, Step, Adding
<1>2. key \in Key /\ table[key] # NULL /\ loc[t].found = table[key]
  BY <1>1 DEF LocalsSet, LookedUp
<1>3. b \in Payload /\ Holds(key, b)
  BY <1>2, EntryTyped DEF Holds
<1>4. payload'[b] = FREED /\ \A p \in Payload \ {b} : payload'[p] = payload[p]
  BY <1>1, <1>2, <1>3 DEF HeapTypeOK
<1>5. LookedUp' /\ Given'
  BY <1>1 DEF LookedUp, Given
<1>6. PayloadsDistinct' /\ NewPayload'
  BY <1>1 DEF PayloadsDistinct, NewPayload, Holds
<1>7. \A k \in Key : ~Dropping(k) /\ (Dropping(k)' <=> k = key)
  BY <1>1 DEF Dropping
<1>8. \A k \in Key : Holds(k, b) => k = key
  BY <1>2, <1>3 DEF PayloadsDistinct
<1>9. Adding(t) => loc[t].ptr # b
  BY <1>2, <1>3 DEF NewPayload
<1>10. PayloadsManaged'
  BY <1>1, <1>2, <1>3, <1>4, <1>7, <1>8, <1>9 DEF PayloadsManaged, Holds
<1> QED BY <1>5, <1>6, <1>10

LEMMA RemovesSerial ==
  ASSUME OneThread, SerialInv, NEW t \in Thread, GetRemove(t) \/ RemoveRemove(t)
  PROVE  LookedUp' /\ PayloadsDistinct' /\ NewPayload' /\ Given' /\ PayloadsManaged'
<1> USE OnlyThread DEF SerialInv
<1> DEFINE key == loc[t].key
<1>1. /\ UNCHANGED <<payload, loc>>
      /\ entry' = [e \in Entry |-> IF e = table[key] THEN FREED ELSE entry[e]]
      /\ table' = [table EXCEPT ![key] = NULL]
      /\ pc[t] \in {"get_remove", "rem_remove"}
      /\ pc'[t] \in {"miss", "removed"}
      /\ key \in Key
  BY DEF HeapTypeOK, GetRemove, RemoveRemove, RemoveEntry, Step, LocalsSet
<1>2. \A k \in Key : \A p \in Payload : Holds(k, p)' <=> k # key /\ Holds(k, p)
  BY <1>1, CacheAssumption DEF Holds, HeapTypeOK, EntriesManaged, BucketsDistinct
<1>3. \A k \in Key : ~Dropping(k)' /\ (Dropping(k) <=> k = key)
  BY <1>1 DEF Dropping
<1>4. ~Adding(t) /\ ~Adding(t)'
  BY <1>1 DEF Adding
<1>5. LookedUp' /\ Given' /\ NewPayload'
  BY <1>1, <1>4 DEF LookedUp, Given, NewPayload
<1>6. PayloadsDistinct'
  BY <1>2 DEF PayloadsDistinct
<1>7. PayloadsManaged'
  BY <1>1, <1>2, <1>3, <1>4 DEF PayloadsManaged, Holds
<1> QED BY <1>5, <1>6, <1>7

LEMMA AddReplaceSerial ==
  ASSUME OneThread, SerialInv, NEW t \in Thread, AddReplace(t)
  PROVE  LookedUp' /\ PayloadsDistinct' /\ NewPayload' /\ Given' /\ PayloadsManaged'
<1> USE OnlyThread DEF SerialInv
<1> DEFINE key == loc[t].key
           new == loc[t].new
           b == loc[t].ptr
<1>1. /\ UNCHANGED <<payload, loc>>
      /\ entry' = [e \in Entry |-> IF e = table[key] THEN FREED ELSE entry[e]]
      /\ table' = [table EXCEPT ![key] = new]
      /\ pc[t] = "add_replace" /\ pc'[t] = "added"
      /\ key \in Key /\ new \in Entry /\ b \in Payload
  BY DEF HeapTypeOK, AddReplace, Step, LocalsSet, Adding
<1>2. Adding(t) /\ ~Adding(t)'
  BY <1>1 DEF Adding
<1>3. new # NULL /\ entry[new].ptr = b /\ \A k \in Key : table[k] # new /\ ~Holds(k, b)
  BY <1>1, <1>2, CacheAssumption DEF NewPayload, EntriesManaged, NewAllocated
<1>4. \A p \in Payload : Holds(key, p)' <=> p = b
  BY <1>1, <1>3 DEF Holds, HeapTypeOK
<1>5. \A k \in Key \ {key} : \A p \in Payload : Holds(k, p)' <=> Holds(k, p)
  BY <1>1, <1>3 DEF Holds, HeapTypeOK, EntriesManaged, BucketsDistinct
<1>6. \A k \in Key : ~Dropping(k)' /\ (Dropping(k) <=> k = key)
  BY <1>1 DEF Dropping
<1>7. LookedUp' /\ Given' /\ NewPayload'
  BY <1>1, <1>2, <1>4 DEF LookedUp, Given, NewPayload
<1>8. PayloadsDistinct'
  BY <1>1, <1>3, <1>4, <1>5 DEF PayloadsDistinct
<1>9. \A p \in Payload :
        (\E k \in Key : Holds(k, p) /\ ~Dropping(k))' <=>
          (\E k \in Key : Holds(k, p) /\ ~Dropping(k)) \/ p = b
  BY <1>1, <1>4, <1>5, <1>6
<1>10. PayloadsManaged'
  BY <1>1, <1>2, <1>9, OnlyThread DEF PayloadsManaged, Holds
<1> QED BY <1>7, <1>8, <1>10

LEMMA CallsSerial ==
  ASSUME OneThread, SerialInv, NEW t \in Thread,
         Return(t) \/ \E k \in Key : GetCall(t, k) \/ RemoveCall(t, k)
  PROVE  LookedUp' /\ PayloadsDistinct' /\ NewPayload' /\ Given' /\ PayloadsManaged'
<1> USE OnlyThread DEF SerialInv
<1>1. /\ UNCHANGED <<table, entry, payload>>
      /\ pc[t] \in {"idle", "hit", "miss", "added", "removed"}
      /\ pc'[t] \in {"get_lookup", "rem_lookup", "idle"}
  BY DEF HeapTypeOK, GetCall, RemoveCall, Return, Step
<1>2. ~Adding(t) /\ ~Adding(t)' /\ \A j \in Key : ~Dropping(j) /\ ~Dropping(j)'
  BY <1>1 DEF Adding, Dropping
<1>3. LookedUp' /\ Given' /\ NewPayload' /\ PayloadsDistinct'
  BY <1>1, <1>2 DEF LookedUp, Given, NewPayload, PayloadsDistinct, Holds
<1>4. PayloadsManaged'
  BY <1>1, <1>2 DEF PayloadsManaged
<1> QED BY <1>3, <1>4

LEMMA ClientAddsSerial ==
  ASSUME OneThread, SerialInv, NEW t \in Thread, NEW k \in Key, ClientAdds(t, k)
  PROVE  LookedUp' /\ PayloadsDistinct' /\ NewPayload' /\ Given' /\ PayloadsManaged'
<1> USE OnlyThread DEF SerialInv
<1>1. PICK b \in Payload, d \in Data, e \in Entry :
        /\ payload[b] = FREED
        /\ payload' = [payload EXCEPT ![b] = d]
        /\ entry[e] = FREED
        /\ entry' = [entry EXCEPT ![e] = [timestamp |-> clock, ptr |-> b]]
        /\ loc' = [loc EXCEPT ![t] = [NoLocals EXCEPT !.key = k, !.new = e, !.ptr = b]]
        /\ table' = table
        /\ Step(t, "idle", "add_lookup")
  BY DEF ClientAdds, AddCall
<1>2. pc[t] = "idle" /\ pc'[t] = "add_lookup" /\ loc'[t].ptr = b /\ loc'[t].new = e
  BY <1>1 DEF Step, HeapTypeOK, NoLocals
<1>3. ~Adding(t) /\ Adding(t)' /\ \A j \in Key : ~Dropping(j) /\ ~Dropping(j)'
  BY <1>2 DEF Adding, Dropping
<1>4. payload'[b] # FREED /\ \A p \in Payload \ {b} : payload'[p] = payload[p]
  BY <1>1, CacheAssumption DEF HeapTypeOK
<1>5. \A j \in Key : \A p \in Payload : Holds(j, p)' <=> Holds(j, p)
  BY <1>1, EntryTyped DEF Holds, HeapTypeOK
<1>6. \A j \in Key : ~Holds(j, b)
  BY <1>1, <1>3 DEF PayloadsManaged, Holds
<1>7. entry'[e].ptr = b
  BY <1>1 DEF HeapTypeOK
<1>8. LookedUp' /\ Given' /\ NewPayload'
  BY <1>2, <1>5, <1>6, <1>7 DEF LookedUp, Given, NewPayload
<1>9. PayloadsDistinct'
  BY <1>5 DEF PayloadsDistinct
<1>10. PayloadsManaged'
  BY <1>2, <1>3, <1>4, <1>5 DEF PayloadsManaged, Holds
<1> QED BY <1>8, <1>9, <1>10

LEMMA CacheFreeSerial ==
  ASSUME OneThread, SerialInv, NEW done, CacheFree(done)
  PROVE  LookedUp' /\ PayloadsDistinct' /\ NewPayload' /\ Given' /\ PayloadsManaged'
<1> USE DEF SerialInv
<1>1. /\ \A k \in Key : table'[k] = NULL
      /\ \A p \in Payload : payload'[p] = IF \E e \in Cached : entry[e].ptr = p
                                         THEN FREED ELSE payload[p]
      /\ \A t \in Thread : pc[t] = "idle" /\ pc'[t] = "idle"
  BY DEF CacheFree
<1>2. \A t \in Thread : ~Adding(t) /\ ~Adding(t)'
  BY <1>1 DEF Adding
<1>3. \A p \in Payload : payload'[p] = FREED
  BY <1>1, <1>2 DEF PayloadsManaged, Cached
<1>4. LookedUp' /\ Given' /\ NewPayload' /\ PayloadsDistinct'
  BY <1>1, <1>2 DEF LookedUp, Given, NewPayload, PayloadsDistinct, Holds
<1>5. PayloadsManaged'
  BY <1>1, <1>2, <1>3 DEF PayloadsManaged
<1> QED BY <1>4, <1>5

LEMMA SerialInvariant == OneThread => (CacheSpec => [](SerialInv /\ NoUndefinedBehaviour))
<1> SUFFICES ASSUME OneThread PROVE CacheSpec => [](SerialInv /\ NoUndefinedBehaviour)
  OBVIOUS
<1>1. CacheInit => SerialInv /\ NoUndefinedBehaviour
  BY CacheAssumption, NoLocalsTyped
     DEF CacheInit, SerialInv, NoUndefinedBehaviour, HeapTypeOK, LocalsSet, EntriesManaged,
     BucketsAllocated, BucketsDistinct, NewAllocated, NewDistinct, NoEntryLost, Adding,
     LookedUp, PayloadsDistinct, NewPayload, Given, PayloadsManaged, Holds
<1>2. /\ TypeInv' /\ EntriesManaged'
      /\ SerialInv /\ NoUndefinedBehaviour /\ [CacheNext]_cacheVars
      => (SerialInv /\ NoUndefinedBehaviour)'
  <2> SUFFICES ASSUME TypeInv', EntriesManaged', SerialInv, NoUndefinedBehaviour,
                      [CacheNext]_cacheVars
               PROVE  (SerialInv /\ NoUndefinedBehaviour)'
    OBVIOUS
  <2>1. HeapTypeOK' /\ LocalsSet'
    BY DEF TypeInv, CacheTypeOK, HeapTypeOK
  <2>2. LookedUp' /\ PayloadsDistinct' /\ NewPayload' /\ Given' /\ PayloadsManaged'
    <3>1. ASSUME NEW t \in Thread, NEW k \in Key,
                 GetCall(t, k) \/ ClientAdds(t, k) \/ RemoveCall(t, k)
          PROVE  LookedUp' /\ PayloadsDistinct' /\ NewPayload' /\ Given' /\ PayloadsManaged'
      BY <3>1, CallsSerial, ClientAddsSerial
    <3>2. ASSUME NEW t \in Thread, ThreadStep(t)
          PROVE  LookedUp' /\ PayloadsDistinct' /\ NewPayload' /\ Given' /\ PayloadsManaged'
      BY <3>2, LookupsSerial, ChecksSerial, FreesSerial, RemovesSerial, AddReplaceSerial
         DEF ThreadStep
    <3>3. ASSUME NEW t \in Thread, Return(t)
          PROVE  LookedUp' /\ PayloadsDistinct' /\ NewPayload' /\ Given' /\ PayloadsManaged'
      BY <3>3, CallsSerial
    <3>4. CASE CacheFree("freed")
      BY <3>4, CacheFreeSerial
    <3>5. CASE ClockMoves \/ Ended \/ (\E t \in Thread : Undefined(t)) \/ UNCHANGED cacheVars
      <4>1. UNCHANGED <<table, entry, payload, pc, loc>>
        BY <3>5 DEF ClockMoves, Ended, Undefined, cacheVars
      <4> QED BY <4>1 DEF SerialInv, LookedUp, PayloadsDistinct, NewPayload, Given,
                PayloadsManaged, Holds, Adding, Dropping
    <3> QED BY <3>1, <3>2, <3>3, <3>4, <3>5 DEF CacheNext
  <2>3. NoUndefinedBehaviour'
    <3>1. ASSUME NEW t \in Thread PROVE ~Undefined(t)
      BY NoneDangling DEF Undefined
    <3>2. CASE CacheFree("freed")
      BY <3>2, AllFreedOnce DEF CacheFree, NoUndefinedBehaviour
    <3>3. CASE UNCHANGED status
      BY <3>3 DEF NoUndefinedBehaviour
    <3> QED BY <3>1, <3>2, <3>3 DEF CacheNext, GetCall, ClientAdds, AddCall, RemoveCall,
              ThreadStep, GetLookup, GetFresh, GetStale, GetFree, GetRemove, AddLookup,
              AddFree, AddReplace, RemoveLookup, RemoveFree, RemoveRemove, FreePayload,
              RemoveEntry, Return, ClockMoves, Ended, cacheVars
  <2> QED BY <2>1, <2>2, <2>3 DEF SerialInv
<1> QED BY <1>1, <1>2, CacheTypeInvariant, EntriesSafe, PTL DEF CacheSpec

\* With one thread no call reads or frees a block that is not allocated, and
\* none is given a pointer to one.
THEOREM SerialDefined == OneThread => (CacheSpec => []NoUndefinedBehaviour)
BY SerialInvariant, PTL

\* With one thread a payload is allocated exactly while the cache holds it or
\* is being given it: none leaks, and none is freed early.
THEOREM SerialPayloads == OneThread => (CacheSpec => []PayloadsManaged)
<1>1. SerialInv => PayloadsManaged
  BY DEF SerialInv
<1> QED BY <1>1, SerialInvariant, PTL
=============================================================================
