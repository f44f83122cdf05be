----------------------- MODULE CacheRefinementProofs ------------------------
(***************************************************************************)
(* Proof that the cache, called by one thread, implements TtlCache, for    *)
(* every number of keys and blocks, every lifespan and every clock.        *)
(***************************************************************************)
EXTENDS CacheRefinement, CacheProofs

\* The mapping as the only thread sees it.
StoreOf(t, k) ==
  IF Supplies(t, k) THEN Stored(loc[t].new)
  ELSE IF table[k] = NULL \/ Discards(t, k) THEN NULL ELSE Stored(table[k])

AnswerOf(t) ==
  IF pc[t] = "idle" THEN NONE
  ELSE [call |-> Call(t), key |-> loc[t].key, result |-> Result(t)]

LEMMA Mapped ==
  ASSUME OneThread, NEW t \in Thread
  PROVE  /\ store = [k \in Key |-> StoreOf(t, k)]
         /\ store' = [k \in Key |-> StoreOf(t, k)']
         /\ answer = [s \in Thread |-> AnswerOf(t)]
         /\ answer' = [s \in Thread |-> AnswerOf(t)']
<1> USE OnlyThread
<1>1. \A k \in Key : (\E s \in Thread : Supplies(s, k)) =>
        (CHOOSE s \in Thread : Supplies(s, k)) = t
  OBVIOUS
<1>2. \A k \in Key : (\E s \in Thread : Supplies(s, k)') =>
        (CHOOSE s \in Thread : Supplies(s, k)') = t
  OBVIOUS
<1>3. store = [k \in Key |-> StoreOf(t, k)]
  BY <1>1 DEF store, StoreOf
<1>4. store' = [k \in Key |-> StoreOf(t, k)']
  BY <1>2 DEF store, StoreOf
<1>5. answer = [s \in Thread |-> AnswerOf(t)]
  BY DEF answer, AnswerOf
<1>6. answer' = [s \in Thread |-> AnswerOf(t)']
  BY DEF answer, AnswerOf
<1> QED BY <1>3, <1>4, <1>5, <1>6

\* A step that changes neither the map nor the call and its result.
LEMMA Silent ==
  ASSUME OneThread, NEW t \in Thread, UNCHANGED clock,
         \A k \in Key : StoreOf(t, k)' = StoreOf(t, k),
         AnswerOf(t)' = AnswerOf(t)
  PROVE  UNCHANGED Abstract!vars
BY Mapped DEF Abstract!vars

\* What a bucket holds is seen in the map, unless the thread is about to
\* change it.
LEMMA StoredTyped ==
  ASSUME SerialInv, NEW k \in Key, table[k] # NULL
  PROVE  /\ Stored(table[k]) # NULL
         /\ Stored(table[k]).value = entry[table[k]].ptr
         /\ Stored(table[k]).added = entry[table[k]].timestamp
         /\ entry[table[k]].ptr \in Payload
         /\ entry[table[k]].timestamp \in Nat
<1>1. entry[table[k]].ptr \in Payload /\ entry[table[k]].timestamp \in Nat
  BY EntryTyped, CacheAssumption DEF SerialInv
<1> QED BY <1>1, RefinementAssumption DEF Stored

\* The three calls take effect when they are made.
LEMMA GetCallGets ==
  ASSUME OneThread, SerialInv, NEW t \in Thread, NEW k \in Key, GetCall(t, k)
  PROVE  Abstract!Get(t, k)
<1> USE OnlyThread DEF SerialInv
<1>1. /\ pc[t] = "idle" /\ pc'[t] = "get_lookup"
      /\ loc'[t].key = k /\ loc'[t].now = clock
      /\ UNCHANGED <<clock, table, entry, payload, status>>
  BY DEF GetCall, Step, HeapTypeOK, NoLocals
<1>2. \A j \in Key : /\ StoreOf(t, j) = IF table[j] = NULL THEN NULL ELSE Stored(table[j])
                     /\ StoreOf(t, j)' = IF \/ table[j] = NULL
                                            \/ j = k /\ Expired(entry[table[j]], clock)
                                         THEN NULL ELSE Stored(table[j])
  BY <1>1 DEF StoreOf, Supplies, Discards, Adding, Stored, Expired
<1>3. store = [j \in Key |-> StoreOf(t, j)] /\ store' = [j \in Key |-> StoreOf(t, j)']
  BY Mapped
<1>4. AnswerOf(t) = NONE
  BY <1>1 DEF AnswerOf
<1>5. AnswerOf(t)' =
        [call |-> "get", key |-> k,
         result |-> IF table[k] = NULL \/ Expired(entry[table[k]], clock)
                    THEN NULL ELSE entry[table[k]].ptr]
  <2>1. Discards(t, k)' <=> Expired(entry[table[k]], clock)
    BY <1>1 DEF Discards, Expired
  <2>2. Outcome(t)' = IF table[k] = NULL \/ Expired(entry[table[k]], clock)
                      THEN NULL ELSE entry[table[k]].ptr
    BY <1>1, <2>1 DEF Outcome
  <2>3. Call(t)' = "get" /\ Result(t)' = Outcome(t)'
    BY <1>1 DEF Call, Result, Adding
  <2> QED BY <1>1, <2>2, <2>3 DEF AnswerOf
<1>6. answer = [s \in Thread |-> NONE] /\ answer' = [s \in Thread |-> AnswerOf(t)']
  BY <1>4, Mapped
<1>7. CASE table[k] # NULL /\ ~Expired(entry[table[k]], clock)
  <2>1. store[k] = Stored(table[k]) /\ store[k] # NULL /\ ~Abstract!Outlived(k)
    BY <1>2, <1>3, <1>7, StoredTyped DEF Abstract!Outlived, Expired
  <2>2. store' = store
    BY <1>2, <1>3, <1>7
  <2>3. AnswerOf(t)' = [call |-> "get", key |-> k, result |-> store[k].value]
    BY <1>5, <1>7, <2>1, StoredTyped
  <2>4. Abstract!Answer(t, "get", k, store[k].value)
    BY <1>1, <1>6, <2>3 DEF Abstract!Answer
  <2> QED BY <2>1, <2>2, <2>4 DEF Abstract!Get
<1>8. CASE table[k] = NULL \/ Expired(entry[table[k]], clock)
  <2>1. store[k] = NULL \/ Abstract!Outlived(k)
    BY <1>2, <1>3, <1>8, StoredTyped DEF Abstract!Outlived, Expired
  <2>2. store' = [store EXCEPT ![k] = NULL]
    BY <1>2, <1>3, <1>8
  <2>3. Abstract!Answer(t, "get", k, NULL)
    BY <1>1, <1>5, <1>6, <1>8 DEF Abstract!Answer
  <2> QED BY <2>1, <2>2, <2>3 DEF Abstract!Get
<1> QED BY <1>7, <1>8

LEMMA ClientAddsPuts ==
  ASSUME OneThread, SerialInv, NEW t \in Thread, NEW k \in Key, ClientAdds(t, k)
  PROVE  \E v \in Payload : Abstract!Put(t, k, v)
<1> USE OnlyThread DEF SerialInv
<1>1. PICK b \in Payload, e \in Entry :
        /\ entry[e] = FREED
        /\ entry' = [entry EXCEPT ![e] = [timestamp |-> clock, ptr |-> b]]
        /\ loc' = [loc EXCEPT ![t] = [NoLocals EXCEPT !.key = k, !.new = e, !.ptr = b]]
        /\ UNCHANGED <<clock, table>>
        /\ Step(t, "idle", "add_lookup")
  BY DEF ClientAdds, AddCall
<1>2. /\ pc[t] = "idle" /\ pc'[t] = "add_lookup"
      /\ loc'[t].key = k /\ loc'[t].new = e /\ loc'[t].ptr = b
      /\ entry'[e] = [timestamp |-> clock, ptr |-> b]
      /\ \A f \in Entry \ {e} : entry'[f] = entry[f]
  BY <1>1 DEF Step, HeapTypeOK, NoLocals
<1>3. \A j \in Key : table[j] # NULL => table[j] \in Entry \ {e}
  BY <1>1, EntryTyped
<1>4. \A j \in Key : /\ StoreOf(t, j) = IF table[j] = NULL THEN NULL ELSE Stored(table[j])
                     /\ StoreOf(t, j)' = IF j = k THEN [value |-> b, added |-> clock]
                                         ELSE StoreOf(t, j)
  BY <1>1, <1>2, <1>3 DEF StoreOf, Supplies, Discards, Adding, Stored
<1>5. AnswerOf(t) = NONE /\ AnswerOf(t)' = [call |-> "add", key |-> k, result |-> NULL]
  BY <1>2 DEF AnswerOf, Call, Result, Adding
<1>6. store' = [store EXCEPT ![k] = [value |-> b, added |-> clock]]
  BY <1>4, Mapped
<1>7. Abstract!Answer(t, "add", k, NULL)
  BY <1>1, <1>5, Mapped DEF Abstract!Answer
<1> QED BY <1>6, <1>7 DEF Abstract!Put

LEMMA RemoveCallRemoves ==
  ASSUME OneThread, SerialInv, NEW t \in Thread, NEW k \in Key, RemoveCall(t, k)
  PROVE  Abstract!Remove(t, k)
<1> USE OnlyThread DEF SerialInv
<1>1. /\ pc[t] = "idle" /\ pc'[t] = "rem_lookup" /\ loc'[t].key = k
      /\ UNCHANGED <<clock, table, entry, payload, status>>
  BY DEF RemoveCall, Step, HeapTypeOK, NoLocals
<1>2. \A j \in Key : StoreOf(t, j)' = IF j = k THEN NULL ELSE StoreOf(t, j)
  BY <1>1 DEF StoreOf, Supplies, Discards, Adding, Stored
<1>3. AnswerOf(t) = NONE /\ AnswerOf(t)' = [call |-> "remove", key |-> k, result |-> NULL]
  BY <1>1 DEF AnswerOf, Call, Result, Adding
<1>4. store' = [store EXCEPT ![k] = NULL]
  BY <1>2, Mapped
<1>5. Abstract!Answer(t, "remove", k, NULL)
  BY <1>1, <1>3, Mapped DEF Abstract!Answer
<1> QED BY <1>4, <1>5 DEF Abstract!Remove

\* What happens within a call is not seen.
LEMMA LookupsSilent ==
  ASSUME OneThread, SerialInv, NEW t \in Thread,
         GetLookup(t) \/ AddLookup(t) \/ RemoveLookup(t)
  PROVE  UNCHANGED Abstract!vars
<1> USE OnlyThread DEF SerialInv
<1>1. /\ UNCHANGED <<clock, table, entry>>
      /\ loc'[t] = [loc[t] EXCEPT !.found = table[loc[t].key]]
      /\ \/ pc[t] = "get_lookup" /\ pc'[t] = IF table[loc[t].key] = NULL THEN "miss" ELSE "get_check"
         \/ pc[t] = "add_lookup" /\ pc'[t] \in {"add_replace", "add_free"}
         \/ pc[t] = "rem_lookup" /\ pc'[t] = IF table[loc[t].key] = NULL THEN "removed" ELSE "rem_free"
  BY DEF HeapTypeOK, GetLookup, AddLookup, RemoveLookup, Step
<1>2. /\ loc'[t].key = loc[t].key /\ loc'[t].now = loc[t].now
      /\ loc'[t].new = loc[t].new /\ loc'[t].ptr = loc[t].ptr
  BY <1>1 DEF HeapTypeOK, Locals
<1>3. \A k \in Key : StoreOf(t, k)' = StoreOf(t, k)
  BY <1>1, <1>2 DEF StoreOf, Supplies, Discards, Adding, Stored
<1>4. AnswerOf(t)' = AnswerOf(t)
  BY <1>1, <1>2 DEF AnswerOf, Call, Result, Outcome, Discards, Adding
<1> QED BY <1>1, <1>3, <1>4, Silent

LEMMA ChecksSilent ==
  ASSUME OneThread, SerialInv, NEW t \in Thread, GetFresh(t) \/ GetStale(t)
  PROVE  UNCHANGED Abstract!vars
<1> USE OnlyThread DEF SerialInv
<1> DEFINE key == loc[t].key
<1>1. /\ UNCHANGED <<clock, table, entry>>
      /\ pc[t] = "get_check" /\ loc'[t].key = key
      /\ \/ /\ pc'[t] = "hit" /\ ~Expired(entry[loc[t].found], loc[t].now)
            /\ loc'[t].ptr = entry[loc[t].found].ptr
         \/ pc'[t] = "get_free" /\ Expired(entry[loc[t].found], loc[t].now)
  BY DEF HeapTypeOK, GetFresh, GetStale, Step, Locals
<1>2. key \in Key /\ table[key] # NULL /\ loc[t].found = table[key]
  BY <1>1 DEF LocalsSet, LookedUp
<1>3. \A k \in Key : StoreOf(t, k)' = StoreOf(t, k)
  BY <1>1, <1>2 DEF StoreOf, Supplies, Discards, Adding, Stored
<1>4. AnswerOf(t)' = AnswerOf(t)
  BY <1>1, <1>2 DEF AnswerOf, Call, Result, Outcome, Discards, Adding
<1> QED BY <1>1, <1>3, <1>4, Silent

LEMMA FreesSilent ==
  ASSUME OneThread, SerialInv, NEW t \in Thread, GetFree(t) \/ AddFree(t) \/ RemoveFree(t)
  PROVE  UNCHANGED Abstract!vars
<1> USE OnlyThread DEF SerialInv
<1>1. /\ UNCHANGED <<clock, table, entry, loc>>
      /\ \/ pc[t] = "get_free" /\ pc'[t] = "get_remove"
         \/ pc[t] = "add_free" /\ pc'[t] = "add_replace"
         \/ pc[t] = "rem_free" /\ pc'[t] = "rem_remove"
  BY DEF HeapTypeOK, GetFree, AddFree, RemoveFree, FreePayload, Step
<1>2. \A k \in Key : StoreOf(t, k)' = StoreOf(t, k)
  BY <1>1 DEF StoreOf, Supplies, Discards, Adding, Stored
<1>3. AnswerOf(t)' = AnswerOf(t)
  BY <1>1 DEF AnswerOf, Call, Result, Adding
<1> QED BY <1>1, <1>2, <1>3, Silent

LEMMA RemovesSilent ==
  ASSUME OneThread, SerialInv, NEW t \in Thread, GetRemove(t) \/ RemoveRemove(t)
  PROVE  UNCHANGED Abstract!vars
<1> USE OnlyThread DEF SerialInv
<1> DEFINE key == loc[t].key
<1>1. /\ UNCHANGED <<clock, loc>> /\ key \in Key
      /\ \A e \in Entry : entry'[e] = IF e = table[key] THEN FREED ELSE entry[e]
      /\ \A k \in Key : table'[k] = IF k = key THEN NULL ELSE table[k]
      /\ \/ pc[t] = "get_remove" /\ pc'[t] = "miss"
         \/ pc[t] = "rem_remove" /\ pc'[t] = "removed"
  BY DEF HeapTypeOK, GetRemove, RemoveRemove, RemoveEntry, Step, LocalsSet
<1>2. \A k \in Key \ {key} : table[k] # NULL => entry'[table[k]] = entry[table[k]]
  BY <1>1, EntryTyped DEF EntriesManaged, BucketsDistinct
<1>3. \A k \in Key : StoreOf(t, k)' = StoreOf(t, k)
  BY <1>1, <1>2 DEF StoreOf, Supplies, Discards, Adding, Stored
<1>4. AnswerOf(t)' = AnswerOf(t)
  BY <1>1 DEF AnswerOf, Call, Result, Adding
<1> QED BY <1>1, <1>3, <1>4, Silent

LEMMA AddReplaceSilent ==
  ASSUME OneThread, SerialInv, NEW t \in Thread, AddReplace(t)
  PROVE  UNCHANGED Abstract!vars
<1> USE OnlyThread DEF SerialInv
<1> DEFINE key == loc[t].key
           new == loc[t].new
<1>1. /\ UNCHANGED <<clock, loc>>
      /\ pc[t] = "add_replace" /\ pc'[t] = "added"
      /\ key \in Key /\ new \in Entry
      /\ \A e \in Entry : entry'[e] = IF e = table[key] THEN FREED ELSE entry[e]
      /\ \A k \in Key : table'[k] = IF k = key THEN new ELSE table[k]
  BY DEF HeapTypeOK, AddReplace, Step, LocalsSet, Adding
<1>2. new # NULL /\ entry'[new] = entry[new]
  BY <1>1, CacheAssumption DEF EntriesManaged, NewAllocated, Adding
<1>3. \A k \in Key \ {key} : table[k] # NULL => entry'[table[k]] = entry[table[k]]
  BY <1>1, EntryTyped DEF EntriesManaged, BucketsDistinct
<1>4. \A k \in Key : StoreOf(t, k)' = StoreOf(t, k)
  BY <1>1, <1>2, <1>3 DEF StoreOf, Supplies, Discards, Adding, Stored
<1>5. AnswerOf(t)' = AnswerOf(t)
  BY <1>1 DEF AnswerOf, Call, Result, Adding
<1> QED BY <1>1, <1>4, <1>5, Silent

LEMMA ReturnReturns ==
  ASSUME OneThread, SerialInv, NEW t \in Thread, Return(t)
  PROVE  Abstract!Return(t)
<1> USE OnlyThread DEF SerialInv
<1>1. /\ UNCHANGED <<clock, table, entry>>
      /\ pc[t] \in {"hit", "miss", "added", "removed"} /\ pc'[t] = "idle"
  BY DEF HeapTypeOK, Return
<1>2. \A k \in Key : StoreOf(t, k)' = StoreOf(t, k)
  BY <1>1 DEF StoreOf, Supplies, Discards, Adding, Stored
<1>3. AnswerOf(t)' = NONE
  BY <1>1 DEF AnswerOf
<1> QED BY <1>1, <1>2, <1>3, Mapped DEF Abstract!Return

LEMMA CacheFreeClears ==
  ASSUME OneThread, SerialInv, NEW t \in Thread, CacheFree("freed")
  PROVE  Abstract!Clear
<1> USE OnlyThread DEF SerialInv
<1>1. /\ UNCHANGED <<clock, loc, pc>> /\ pc[t] = "idle"
      /\ \A k \in Key : table'[k] = NULL
  BY DEF CacheFree
<1>2. \A k \in Key : StoreOf(t, k)' = NULL
  BY <1>1 DEF StoreOf, Supplies, Adding
<1>3. AnswerOf(t) = NONE /\ AnswerOf(t)' = NONE
  BY <1>1 DEF AnswerOf
<1> QED BY <1>1, <1>2, <1>3, Mapped DEF Abstract!Clear

\* The rest leaves map and answer alone; the clock moves in both.
LEMMA RestRefines ==
  ASSUME OneThread, SerialInv, NEW t \in Thread,
         ClockMoves \/ Ended \/ Undefined(t) \/ UNCHANGED cacheVars
  PROVE  [Abstract!Next]_Abstract!vars
<1>1. UNCHANGED <<table, entry, pc, loc>>
  BY DEF ClockMoves, Ended, Undefined, cacheVars
<1>2. \A k \in Key : StoreOf(t, k)' = StoreOf(t, k)
  BY <1>1 DEF StoreOf, Supplies, Discards, Adding, Stored
<1>3. AnswerOf(t)' = AnswerOf(t)
  BY <1>1 DEF AnswerOf, Call, Result, Outcome, Discards, Adding
<1>4. CASE ClockMoves
  BY <1>2, <1>3, <1>4, Mapped DEF ClockMoves, Abstract!ClockMoves, Abstract!Next
<1>5. CASE UNCHANGED clock
  BY <1>2, <1>3, <1>5, Silent
<1> QED BY <1>4, <1>5 DEF Ended, Undefined, cacheVars

LEMMA StepsRefine ==
  ASSUME OneThread, SerialInv, NEW t \in Thread, [CacheNext]_cacheVars
  PROVE  [Abstract!Next]_Abstract!vars
<1> USE OnlyThread
<1>1. ASSUME NEW k \in Key, GetCall(t, k) \/ ClientAdds(t, k) \/ RemoveCall(t, k)
      PROVE  [Abstract!Next]_Abstract!vars
  BY <1>1, GetCallGets, ClientAddsPuts, RemoveCallRemoves DEF Abstract!Next
<1>2. CASE ThreadStep(t)
  BY <1>2, LookupsSilent, ChecksSilent, FreesSilent, RemovesSilent, AddReplaceSilent
     DEF ThreadStep
<1>3. CASE Return(t)
  BY <1>3, ReturnReturns DEF Abstract!Next
<1>4. CASE CacheFree("freed")
  BY <1>4, CacheFreeClears DEF Abstract!Next
<1>5. CASE ClockMoves \/ Ended \/ Undefined(t) \/ UNCHANGED cacheVars
  BY <1>5, RestRefines
<1> QED BY <1>1, <1>2, <1>3, <1>4, <1>5 DEF CacheNext

\* Called by one thread, the cache is what its comments say: every step of
\* cache.c is an operation of a map with a lifespan, or is not seen.
THEOREM CacheImplementsTtlCache ==
  ASSUME OneThread, Thread # {}
  PROVE  CacheSpec => ImplementsTtlCache
<1>0. PICK t \in Thread : TRUE
  OBVIOUS
<1>1. CacheInit => Abstract!Init
  <2> SUFFICES ASSUME CacheInit PROVE Abstract!Init
    OBVIOUS
  <2>1. \A k \in Key : StoreOf(t, k) = NULL
    BY DEF CacheInit, StoreOf, Supplies, Adding
  <2>2. AnswerOf(t) = NONE
    BY DEF CacheInit, AnswerOf
  <2> QED BY <2>1, <2>2, Mapped DEF CacheInit, Abstract!Init
<1>2. SerialInv /\ [CacheNext]_cacheVars => [Abstract!Next]_Abstract!vars
  BY StepsRefine
<1>3. CacheSpec => []SerialInv
  BY SerialInvariant, PTL
<1> QED BY <1>1, <1>2, <1>3, PTL DEF CacheSpec, ImplementsTtlCache, Abstract!Spec
=============================================================================
