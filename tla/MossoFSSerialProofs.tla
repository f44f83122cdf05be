------------------------ MODULE MossoFSSerialProofs -------------------------
(***************************************************************************)
(* Proofs about the filesystem mounted with -s, which has one thread: for  *)
(* every number of paths, blocks and handles and every history of every    *)
(* file, its memory is managed up to what the service makes go wrong, what *)
(* it reports does not get older, and what it reads is complete.           *)
(***************************************************************************)
EXTENDS MossoFSProofs, FiniteSetTheorems

\* The mount option -s: one libfuse worker.
Serial == \E t : Thread = {t}

\* What the thread fetched is not in the cache yet.
ThreadsApart ==
  \A t \in Thread, b \in Payload : ThreadOwns(t, b) => \A k \in Key : ~Holds(k, b)

\* The meta of an open handle is its own.
HandlesApart ==
  \A h \in Handle : fh[h] # FREED =>
    /\ \A k \in Key : ~Holds(k, fh[h].meta)
    /\ \A t \in Thread : ~ThreadOwns(t, fh[h].meta)
    /\ \A g \in Handle : HandleOwns(g, fh[h].meta) => g = h

\* Nothing points to a lost listing.
LostApart ==
  \A b \in Payload : b \in lost =>
    /\ \A k \in Key : ~Holds(k, b)
    /\ \A t \in Thread : ~ThreadOwns(t, b)
    /\ \A h \in Handle : ~HandleOwns(h, b)

\* Where the thread has neither fetched nor been given an object.
EmptyStates ==
  {"idle", "get_lookup", "get_check", "get_free", "get_remove", "miss", "opening",
   "reading", "read", "unreadable", "error"}

EmptyHanded == \A t \in Thread : pc[t] \in EmptyStates => loc[t].ptr = NULL

Owned(b) ==
  \/ b \in lost
  \/ \E k \in Key : CacheOwns(k, b)
  \/ \E t \in Thread : ThreadOwns(t, b)
  \/ \E h \in Handle : HandleOwns(h, b)

AllOwned == \A b \in Payload : payload[b] # FREED <=> Owned(b)

ObjectsInv ==
  /\ LookedUp
  /\ PayloadsDistinct
  /\ NewPayload
  /\ Given
  /\ ThreadsApart
  /\ HandlesApart
  /\ LostApart
  /\ EmptyHanded
  /\ AllOwned

\* A freed error string is replaced in the next step.
ErrorsKept ==
  \A t \in Thread : /\ errors["curl"] = "freed" => pc[t] = "curl_store"
                    /\ errors["mosso"] = "freed" => pc[t] = "mosso_store"

-----------------------------------------------------------------------------
(* The steps of one action after the other. *)

\* States in which the cache is in order.
Quiet == Outside \cup {"get_lookup"}

\* Only the thread moves, from one quiet state to another, and keeps what it
\* has.
LEMMA QuietSteps ==
  ASSUME OneThread, FSInv, ObjectsInv, NEW t \in Thread, pc[t] \in Quiet, pc'[t] \in Quiet \ {"hit", "added"},
         \A b \in Payload : ThreadOwns(t, b)' <=> ThreadOwns(t, b),
         EmptyHanded',
         UNCHANGED <<table, entry, payload, fh, lost>>
  PROVE  ObjectsInv'
<1> USE OnlyThread DEF ObjectsInv
<1>1. /\ \A k \in Key : ~Dropping(k) /\ ~Dropping(k)'
      /\ ~Adding(t)'
  BY DEF Dropping, Adding, Quiet, Outside
<1>2. LookedUp' /\ NewPayload' /\ Given'
  BY <1>1 DEF LookedUp, NewPayload, Given, Quiet, Outside
<1>3. PayloadsDistinct' /\ ThreadsApart'
  BY DEF PayloadsDistinct, ThreadsApart, Holds
<1>4. HandlesApart' /\ LostApart'
  <2>1. \A h \in Handle : fh[h] # FREED => fh[h].meta \in Payload
    BY DEF FSInv, CallbacksTyped
  <2> QED BY <1>1, <2>1 DEF HandlesApart, LostApart, HandleOwns, Holds
<1>5. AllOwned'
  BY <1>1 DEF AllOwned, Owned, CacheOwns, HandleOwns
<1> QED BY <1>2, <1>3, <1>4, <1>5

LEMMA LookupsObjects ==
  ASSUME OneThread, HeapInv, ObjectsInv, NEW t \in Thread,
         GetLookup(t) \/ AddLookup(t), UNCHANGED fsVars
  PROVE  ObjectsInv'
<1> USE OnlyThread DEF ObjectsInv, HeapInv
<1>1. /\ UNCHANGED <<table, entry, payload, fh, lost>>
      /\ pc'[t] \in {"miss", "get_check", "add_replace", "add_free"}
      /\ pc'[t] \in {"get_check", "add_free"} => table[loc[t].key] # NULL
      /\ pc'[t] = "add_replace" => table[loc[t].key] = NULL
      /\ Adding(t)' <=> Adding(t)
      /\ pc[t] \in {"get_lookup", "add_lookup"}
      /\ pc[t] = "add_lookup" => pc'[t] \in {"add_replace", "add_free"}
  BY DEF HeapTypeOK, GetLookup, AddLookup, Step, Adding, fsVars
<1>2. loc'[t].key = loc[t].key /\ loc'[t].new = loc[t].new /\ loc'[t].ptr = loc[t].ptr
      /\ loc'[t].found = table[loc[t].key]
  BY DEF HeapTypeOK, Locals, GetLookup, AddLookup
<1>3. \A b : ThreadOwns(t, b)' <=> ThreadOwns(t, b)
  BY <1>1, <1>2 DEF ThreadOwns
<1>4. \A k \in Key : table[k] # NULL => ~Dropping(k) /\ ~Dropping(k)'
  BY <1>1, <1>2 DEF Dropping
<1>5. LookedUp' /\ Given' /\ EmptyHanded'
  BY <1>1, <1>2 DEF LookedUp, Given, EmptyHanded, EmptyStates
<1>6. PayloadsDistinct' /\ NewPayload'
  BY <1>1, <1>2 DEF PayloadsDistinct, NewPayload, Holds
<1>7. HandlesApart' /\ LostApart' /\ ThreadsApart'
  BY <1>1, <1>3 DEF HandlesApart, LostApart, ThreadsApart, HandleOwns, Holds
<1>8. AllOwned'
  BY <1>1, <1>3, <1>4 DEF AllOwned, Owned, CacheOwns, HandleOwns
<1> QED BY <1>5, <1>6, <1>7, <1>8

LEMMA ChecksObjects ==
  ASSUME OneThread, HeapInv, ObjectsInv, NEW t \in Thread,
         GetFresh(t) \/ GetStale(t), UNCHANGED fsVars
  PROVE  ObjectsInv'
<1> USE OnlyThread DEF ObjectsInv, HeapInv
<1>1. /\ UNCHANGED <<table, entry, payload, fh, lost>>
      /\ pc[t] = "get_check"
      /\ \/ pc'[t] = "hit" /\ loc'[t] = [loc[t] EXCEPT !.ptr = entry[loc[t].found].ptr]
         \/ pc'[t] = "get_free" /\ loc' = loc
  BY DEF HeapTypeOK, GetFresh, GetStale, Step, fsVars
<1>2. loc[t].key \in Key /\ Holds(loc[t].key, entry[loc[t].found].ptr)
  BY <1>1 DEF LocalsSet, LookedUp, Holds
<1>3. entry[loc[t].found].ptr \in Payload
  BY <1>1, <1>2, EntryTyped DEF LookedUp
<1>4. LookedUp' /\ Given' /\ EmptyHanded'
  BY <1>1, <1>2, <1>3 DEF LookedUp, Given, EmptyHanded, EmptyStates, Holds, HeapTypeOK, Locals
<1>5. PayloadsDistinct' /\ NewPayload'
  BY <1>1 DEF PayloadsDistinct, NewPayload, Adding, Holds
<1>6. /\ \A k \in Key : ~Dropping(k) /\ ~Dropping(k)'
      /\ \A b : ~ThreadOwns(t, b) /\ ~ThreadOwns(t, b)'
  BY <1>1 DEF Dropping, ThreadOwns, Adding
<1>7. HandlesApart' /\ LostApart' /\ ThreadsApart'
  BY <1>1, <1>6 DEF HandlesApart, LostApart, ThreadsApart, HandleOwns, Holds
<1>8. AllOwned'
  BY <1>1, <1>6 DEF AllOwned, Owned, CacheOwns, HandleOwns
<1> QED BY <1>4, <1>5, <1>7, <1>8

\* What a call frees was the cache's alone.
LEMMA FreesObjects ==
  ASSUME OneThread, HeapInv, ObjectsInv, NEW t \in Thread,
         GetFree(t) \/ AddFree(t), UNCHANGED fsVars
  PROVE  ObjectsInv'
<1> USE OnlyThread DEF ObjectsInv, HeapInv
<1> DEFINE key == loc[t].key
<1>1. /\ UNCHANGED <<table, entry, loc, fh, lost>>
      /\ payload' = [payload EXCEPT ![entry[loc[t].found].ptr] = FREED]
      /\ pc[t] \in {"get_free", "add_free"}
      /\ pc'[t] = IF pc[t] = "get_free" THEN "get_remove" ELSE "add_replace"
      /\ Adding(t)' <=> Adding(t)
  BY DEF HeapTypeOK, GetFree, AddFree, FreePayload, Step, Adding, fsVars
<1>2. key \in Key /\ table[key] # NULL /\ loc[t].found = table[key]
  BY <1>1 DEF LocalsSet, LookedUp
<1>3. PICK b \in Payload : b = entry[table[key]].ptr /\ Holds(key, b)
  BY <1>2, EntryTyped DEF Holds
<1>4. payload'[b] = FREED /\ \A p \in Payload \ {b} : payload'[p] = payload[p]
  BY <1>1, <1>2, <1>3 DEF HeapTypeOK
<1>5. LookedUp' /\ Given' /\ EmptyHanded'
  BY <1>1 DEF LookedUp, Given, EmptyHanded, EmptyStates
<1>6. PayloadsDistinct' /\ NewPayload'
  BY <1>1 DEF PayloadsDistinct, NewPayload, Holds
<1>7. \A k \in Key : ~Dropping(k) /\ (Dropping(k)' <=> k = key)
  BY <1>1 DEF Dropping
<1>8. \A p : ThreadOwns(t, p)' <=> ThreadOwns(t, p)
  BY <1>1 DEF ThreadOwns
<1>9. HandlesApart' /\ LostApart' /\ ThreadsApart'
  BY <1>1, <1>8 DEF HandlesApart, LostApart, ThreadsApart, HandleOwns, Holds
<1>10. /\ \A k \in Key : Holds(k, b) => k = key
       /\ ~ThreadOwns(t, b)
       /\ \A h \in Handle : ~HandleOwns(h, b)
       /\ b \notin lost
  BY <1>1, <1>2, <1>3 DEF PayloadsDistinct, ThreadsApart, HandlesApart, LostApart, HandleOwns
<1>11. AllOwned'
  <2>1. ASSUME NEW p \in Payload \ {b} PROVE Owned(p)' <=> Owned(p)
    <3>1. \A k \in Key : CacheOwns(k, p)' <=> CacheOwns(k, p)
      BY <1>1, <1>2, <1>3, <1>7 DEF CacheOwns
    <3> QED BY <1>1, <1>8, <3>1 DEF Owned, HandleOwns
  <2>2. ~Owned(b)'
    BY <1>1, <1>2, <1>7, <1>8, <1>10 DEF Owned, CacheOwns, HandleOwns, Holds
  <2> QED BY <1>4, <2>1, <2>2 DEF AllOwned
<1> QED BY <1>5, <1>6, <1>9, <1>11

LEMMA RemovesObjects ==
  ASSUME OneThread, HeapInv, ObjectsInv, NEW t \in Thread, GetRemove(t), UNCHANGED fsVars
  PROVE  ObjectsInv'
<1> USE OnlyThread DEF ObjectsInv, HeapInv
<1> DEFINE key == loc[t].key
<1>1. /\ UNCHANGED <<payload, loc, fh, lost>>
      /\ entry' = [e \in Entry |-> IF e = table[key] THEN FREED ELSE entry[e]]
      /\ table' = [table EXCEPT ![key] = NULL]
      /\ pc[t] = "get_remove" /\ pc'[t] = "miss"
      /\ key \in Key
  BY DEF HeapTypeOK, GetRemove, RemoveEntry, Step, LocalsSet, fsVars
<1>2. \A k \in Key : \A p : Holds(k, p)' <=> k # key /\ Holds(k, p)
  BY <1>1, CacheAssumption DEF Holds, HeapTypeOK, EntriesManaged, BucketsDistinct
<1>3. /\ \A k \in Key : ~Dropping(k)' /\ (Dropping(k) <=> k = key)
      /\ \A p : ~ThreadOwns(t, p) /\ ~ThreadOwns(t, p)'
  BY <1>1 DEF Dropping, ThreadOwns, Adding
<1>4. LookedUp' /\ Given' /\ NewPayload' /\ EmptyHanded'
  BY <1>1 DEF LookedUp, Given, NewPayload, EmptyHanded, EmptyStates, Adding
<1>5. PayloadsDistinct'
  BY <1>2 DEF PayloadsDistinct
<1>6. HandlesApart' /\ LostApart' /\ ThreadsApart'
  BY <1>1, <1>2, <1>3 DEF HandlesApart, LostApart, ThreadsApart, HandleOwns
<1>7. \A k \in Key : \A p : CacheOwns(k, p)' <=> CacheOwns(k, p)
  BY <1>2, <1>3 DEF CacheOwns, Holds
<1>8. AllOwned'
  BY <1>1, <1>3, <1>7 DEF AllOwned, Owned, HandleOwns
<1> QED BY <1>4, <1>5, <1>6, <1>8

LEMMA AddReplaceObjects ==
  ASSUME OneThread, HeapInv, ObjectsInv, NEW t \in Thread, AddReplace(t), UNCHANGED fsVars
  PROVE  ObjectsInv'
<1> USE OnlyThread DEF ObjectsInv, HeapInv
<1>0. PICK key \in Key, new \in Entry, b \in Payload :
        key = loc[t].key /\ new = loc[t].new /\ b = loc[t].ptr
  BY DEF AddReplace, Step, LocalsSet, Adding
<1>1. /\ UNCHANGED <<payload, loc, fh, lost>>
      /\ entry' = [e \in Entry |-> IF e = table[key] THEN FREED ELSE entry[e]]
      /\ table' = [table EXCEPT ![key] = new]
      /\ pc[t] = "add_replace" /\ pc'[t] = "added"
  BY <1>0 DEF HeapTypeOK, AddReplace, Step, fsVars
<1>2. Adding(t) /\ ~Adding(t)'
  BY <1>1 DEF Adding
<1>3. new # NULL /\ entry[new].ptr = b /\ \A k \in Key : table[k] # new /\ ~Holds(k, b)
  BY <1>0, <1>1, <1>2, CacheAssumption DEF NewPayload, EntriesManaged, NewAllocated
<1>4. \A p : Holds(key, p)' <=> p = b
  BY <1>1, <1>3 DEF Holds, HeapTypeOK
<1>5. \A k \in Key \ {key} : \A p : Holds(k, p)' <=> Holds(k, p)
  BY <1>1, <1>3 DEF Holds, HeapTypeOK, EntriesManaged, BucketsDistinct
<1>6. \A k \in Key : ~Dropping(k)' /\ (Dropping(k) <=> k = key)
  BY <1>0, <1>1 DEF Dropping
<1>7. \A p : ~ThreadOwns(t, p)' /\ (ThreadOwns(t, p) <=> p = b)
  BY <1>0, <1>1, <1>2 DEF ThreadOwns, Adding
<1>8. LookedUp' /\ Given' /\ NewPayload' /\ EmptyHanded'
  BY <1>0, <1>1, <1>2, <1>4 DEF LookedUp, Given, NewPayload, EmptyHanded, EmptyStates
<1>9. PayloadsDistinct'
  BY <1>1, <1>3, <1>4, <1>5 DEF PayloadsDistinct
<1>10. HandlesApart' /\ LostApart' /\ ThreadsApart'
  BY <1>1, <1>4, <1>5, <1>7 DEF HandlesApart, LostApart, ThreadsApart, HandleOwns
<1>11. \A k \in Key : \A p : CacheOwns(k, p)' <=> CacheOwns(k, p) \/ (k = key /\ p = b)
  BY <1>1, <1>4, <1>5, <1>6 DEF CacheOwns, Holds
<1>12. AllOwned'
  <2>1. \A p : (\E k \in Key : CacheOwns(k, p))' <=> ((\E k \in Key : CacheOwns(k, p)) \/ p = b)
    BY <1>1, <1>11
  <2>2. \A p : Owned(p)' <=> Owned(p)
    BY <1>1, <1>7, <2>1 DEF Owned, HandleOwns
  <2> QED BY <1>1, <2>2 DEF AllOwned
<1> QED BY <1>8, <1>9, <1>10, <1>12

\* A block that malloc returns is owned by nobody.
LEMMA NewUnowned ==
  ASSUME OneThread, ObjectsInv, NEW t \in Thread, \A k \in Key : ~Dropping(k),
         NEW b \in Payload, payload[b] = FREED
  PROVE  /\ \A k \in Key : ~Holds(k, b)
         /\ ~ThreadOwns(t, b)
         /\ \A h \in Handle : ~HandleOwns(h, b)
         /\ b \notin lost
BY DEF ObjectsInv, AllOwned, Owned, CacheOwns, Holds

LEMMA FetchObjects ==
  ASSUME OneThread, HeapInv, ObjectsInv, NEW t \in Thread, Fetch(t)
  PROVE  ObjectsInv'
<1> USE OnlyThread DEF ObjectsInv, HeapInv
<1> DEFINE v == service[loc[t].key[2]]
<1>1. PICK b \in Payload, to \in {"paging", "fetched"} :
        /\ payload[b] = FREED
        /\ payload' = [payload EXCEPT ![b] = v]
        /\ loc' = [loc EXCEPT ![t].ptr = b]
        /\ Step(t, "miss", to)
        /\ UNCHANGED <<table, entry, fh, lost>>
  BY DEF Fetch, fsVars
<1>2. v \in Data
  BY <1>1, KeysHavePaths DEF CallbackLocals, ServiceTyped, Step
<1>3. /\ pc[t] = "miss" /\ pc'[t] \in {"paging", "fetched"} /\ loc'[t].ptr = b
      /\ payload'[b] # FREED /\ \A p \in Payload \ {b} : payload'[p] = payload[p]
  BY <1>1, <1>2, CacheAssumption DEF HeapTypeOK, Step, Locals
<1>4. /\ \A k \in Key : ~Dropping(k) /\ ~Dropping(k)'
      /\ ~Adding(t) /\ ~Adding(t)'
      /\ \A p : ~ThreadOwns(t, p) /\ (ThreadOwns(t, p)' <=> p = b)
  BY <1>3 DEF Dropping, Adding, ThreadOwns
<1>5. \A k \in Key : ~Holds(k, b)
  BY <1>1, <1>4, NewUnowned
<1>6. b \notin lost /\ \A h \in Handle : ~HandleOwns(h, b)
  BY <1>1, <1>4, NewUnowned
<1>7. \A k \in Key : \A p : Holds(k, p)' <=> Holds(k, p)
  BY <1>1 DEF Holds
<1>8. LookedUp' /\ NewPayload' /\ Given' /\ EmptyHanded'
  BY <1>3, <1>4, <1>5, <1>7 DEF LookedUp, NewPayload, Given, EmptyHanded, EmptyStates
<1>9. PayloadsDistinct'
  BY <1>7 DEF PayloadsDistinct
<1>10. HandlesApart' /\ LostApart' /\ ThreadsApart'
  BY <1>1, <1>4, <1>5, <1>6, <1>7 DEF HandlesApart, LostApart, ThreadsApart, HandleOwns
<1>11. AllOwned'
  <2>1. \A k \in Key : \A p : CacheOwns(k, p)' <=> CacheOwns(k, p)
    BY <1>4, <1>7 DEF CacheOwns, Holds
  <2> QED BY <1>1, <1>3, <1>4, <2>1 DEF AllOwned, Owned, HandleOwns
<1> QED BY <1>8, <1>9, <1>10, <1>11

LEMMA StoreObjects ==
  ASSUME OneThread, HeapInv, ObjectsInv, NEW t \in Thread, Store(t)
  PROVE  ObjectsInv'
<1> USE OnlyThread DEF ObjectsInv, HeapInv
<1>1. PICK e \in Entry, b \in Payload, k \in Key :
        /\ b = loc[t].ptr
        /\ entry[e] = FREED
        /\ entry' = [entry EXCEPT ![e] = [timestamp |-> clock, ptr |-> b]]
        /\ loc' = [loc EXCEPT ![t] = [NoLocals EXCEPT !.key = k, !.new = e, !.ptr = b]]
        /\ Step(t, "fetched", "add_lookup")
        /\ UNCHANGED <<table, payload, fh, lost>>
  BY DEF Store, AddCall, Step, CallbackLocals, fsVars
<1>2. /\ pc[t] = "fetched" /\ pc'[t] = "add_lookup"
      /\ loc'[t].new = e /\ loc'[t].ptr = b
      /\ entry'[e].ptr = b
      /\ \A f \in Entry \ {e} : entry'[f] = entry[f]
  BY <1>1 DEF HeapTypeOK, Step, NoLocals
<1>3. \A k2 \in Key : table[k2] # NULL => table[k2] \in Entry \ {e}
  BY <1>1, EntryTyped
<1>4. \A k2 \in Key : \A p : Holds(k2, p)' <=> Holds(k2, p)
  BY <1>1, <1>2, <1>3 DEF Holds
<1>5. /\ \A k2 \in Key : ~Dropping(k2) /\ ~Dropping(k2)'
      /\ ~Adding(t) /\ Adding(t)'
      /\ \A p : ThreadOwns(t, p)' <=> ThreadOwns(t, p)
  BY <1>1, <1>2 DEF Dropping, Adding, ThreadOwns
<1>6. LookedUp' /\ NewPayload' /\ Given' /\ EmptyHanded'
  BY <1>1, <1>2, <1>4 DEF LookedUp, NewPayload, Given, ThreadsApart, ThreadOwns, EmptyHanded,
       EmptyStates
<1>7. PayloadsDistinct'
  BY <1>4 DEF PayloadsDistinct
<1>8. HandlesApart' /\ LostApart' /\ ThreadsApart'
  BY <1>1, <1>4, <1>5 DEF HandlesApart, LostApart, ThreadsApart, HandleOwns
<1>9. AllOwned'
  <2>1. \A k2 \in Key : \A p : CacheOwns(k2, p)' <=> CacheOwns(k2, p)
    BY <1>4, <1>5 DEF CacheOwns, Holds
  <2> QED BY <1>1, <1>5, <2>1 DEF AllOwned, Owned, HandleOwns
<1> QED BY <1>6, <1>7, <1>8, <1>9

\* Opening and releasing give and take one owner.
LEMMA OpenedObjects ==
  ASSUME OneThread, HeapInv, FSInv, ObjectsInv, NEW t \in Thread, Opened(t)
  PROVE  ObjectsInv'
<1> USE OnlyThread DEF ObjectsInv, HeapInv
<1> DEFINE v == service[loc[t].key[2]]
<1>1. PICK b \in Payload, h \in Handle :
        /\ payload[b] = FREED
        /\ fh[h] = FREED
        /\ payload' = [payload EXCEPT ![b] = v]
        /\ fh' = [fh EXCEPT ![h] = [path |-> loc[t].key[2], meta |-> b]]
        /\ loc' = [loc EXCEPT ![t] = NoLocals]
        /\ Step(t, "opening", "idle")
        /\ UNCHANGED <<table, entry, lost>>
  BY DEF Opened
<1>2. v \in Data
  BY <1>1, KeysHavePaths DEF CallbackLocals, ServiceTyped, Step
<1>3. /\ pc[t] = "opening" /\ pc'[t] = "idle" /\ loc'[t].ptr = NULL
      /\ payload'[b] # FREED /\ \A p \in Payload \ {b} : payload'[p] = payload[p]
  BY <1>1, <1>2, CacheAssumption DEF HeapTypeOK, Step, NoLocals
<1>4. fh'[h].meta = b /\ \A g \in Handle \ {h} : fh'[g] = fh[g]
  BY <1>1 DEF FSInv, CallbacksTyped
<1>5. /\ \A k \in Key : ~Dropping(k) /\ ~Dropping(k)'
      /\ ~Adding(t)'
      /\ \A p : ~ThreadOwns(t, p) /\ ~ThreadOwns(t, p)'
  BY <1>3 DEF Dropping, Adding, ThreadOwns
<1>6. /\ \A k \in Key : ~Holds(k, b)
      /\ \A g \in Handle : ~HandleOwns(g, b)
      /\ b \notin lost
  BY <1>1, <1>5, NewUnowned
<1>7. \A k \in Key : \A p : Holds(k, p)' <=> Holds(k, p)
  BY <1>1 DEF Holds
<1>8. LookedUp' /\ NewPayload' /\ Given' /\ EmptyHanded'
  BY <1>3, <1>5 DEF LookedUp, NewPayload, Given, EmptyHanded, EmptyStates
<1>9. PayloadsDistinct'
  BY <1>7 DEF PayloadsDistinct
<1>10. fh'[h] # FREED
  <2>1. loc[t].key[2] \in Path
    BY <1>1, KeysHavePaths DEF CallbackLocals, Step
  <2> QED BY <1>1, <2>1, MossoFSAssumption DEF FSInv, CallbacksTyped
<1>11. HandlesApart' /\ LostApart' /\ ThreadsApart'
  BY <1>1, <1>4, <1>5, <1>6, <1>7 DEF HandlesApart, LostApart, ThreadsApart, HandleOwns
<1>12. AllOwned'
  <2>1. \A k \in Key : \A p : CacheOwns(k, p)' <=> CacheOwns(k, p)
    BY <1>5, <1>7 DEF CacheOwns, Holds
  <2>2. HandleOwns(h, b)' /\ \A g \in Handle : \A p \in Payload \ {b} : HandleOwns(g, p)' <=> HandleOwns(g, p)
    BY <1>1, <1>4, <1>10 DEF HandleOwns
  <2> QED BY <1>1, <1>3, <1>5, <2>1, <2>2 DEF AllOwned, Owned
<1> QED BY <1>8, <1>9, <1>11, <1>12

LEMMA ReleaseObjects ==
  ASSUME OneThread, HeapInv, FSInv, ObjectsInv, NEW t \in Thread, NEW h \in Handle, Release(t, h)
  PROVE  ObjectsInv'
<1> USE OnlyThread DEF ObjectsInv, HeapInv
<1>1. PICK b \in Payload :
        /\ b = fh[h].meta
        /\ fh[h] # FREED
        /\ payload' = [payload EXCEPT ![b] = FREED]
        /\ fh' = [fh EXCEPT ![h] = FREED]
        /\ Step(t, "idle", "idle")
        /\ UNCHANGED <<table, entry, loc, lost>>
  BY DEF Release, FSInv, CallbacksTyped
<1>2. /\ pc[t] = "idle" /\ pc'[t] = "idle"
      /\ payload'[b] = FREED /\ \A p \in Payload \ {b} : payload'[p] = payload[p]
      /\ fh'[h] = FREED /\ \A g \in Handle \ {h} : fh'[g] = fh[g]
  BY <1>1 DEF HeapTypeOK, Step, FSInv, CallbacksTyped
<1>3. /\ \A k \in Key : ~Dropping(k) /\ ~Dropping(k)'
      /\ ~Adding(t)'
      /\ \A p : ~ThreadOwns(t, p) /\ ~ThreadOwns(t, p)'
  BY <1>2 DEF Dropping, Adding, ThreadOwns
<1>4. /\ \A k \in Key : ~Holds(k, b)
      /\ \A g \in Handle : HandleOwns(g, b) => g = h
      /\ b \notin lost
  BY <1>1 DEF HandlesApart, LostApart, HandleOwns
<1>5. \A k \in Key : \A p : Holds(k, p)' <=> Holds(k, p)
  BY <1>1 DEF Holds
<1>6. LookedUp' /\ NewPayload' /\ Given' /\ EmptyHanded'
  BY <1>1, <1>2, <1>3 DEF LookedUp, NewPayload, Given, EmptyHanded, EmptyStates
<1>7. PayloadsDistinct'
  BY <1>5 DEF PayloadsDistinct
<1>8. HandlesApart' /\ LostApart' /\ ThreadsApart'
  BY <1>1, <1>2, <1>3, <1>5 DEF HandlesApart, LostApart, ThreadsApart, HandleOwns
<1>9. AllOwned'
  <2>1. \A k \in Key : \A p : CacheOwns(k, p)' <=> CacheOwns(k, p)
    BY <1>3, <1>5 DEF CacheOwns, Holds
  <2>2. \A g \in Handle : /\ ~HandleOwns(g, b)'
                          /\ \A p \in Payload \ {b} : HandleOwns(g, p)' <=> HandleOwns(g, p)
    BY <1>1, <1>2, <1>4 DEF HandleOwns
  <2>3. ~Owned(b)'
    BY <1>1, <1>3, <1>4, <1>5, <2>2 DEF Owned, CacheOwns, Holds
  <2>4. \A p \in Payload \ {b} : Owned(p)' <=> Owned(p)
    BY <1>1, <1>3, <2>1, <2>2 DEF Owned
  <2> QED BY <1>2, <2>3, <2>4 DEF AllOwned
<1> QED BY <1>6, <1>7, <1>8, <1>9

LEMMA HandlesObjects ==
  ASSUME HeapInv, FSInv, NEW h \in Handle, fh[h] # FREED
  PROVE  fh[h].meta \in Payload
BY DEF FSInv, CallbacksTyped

LEMMA DestroyObjects ==
  ASSUME OneThread, HeapInv, FSInv, ObjectsInv, Destroy
  PROVE  ObjectsInv'
<1> USE DEF ObjectsInv
<1>1. /\ \A k \in Key : table'[k] = NULL
      /\ \A b \in Payload : payload'[b] = IF \E e \in Cached : entry[e].ptr = b
                                         THEN FREED ELSE payload[b]
      /\ \A t \in Thread : pc[t] = "idle" /\ pc'[t] = "idle"
      /\ UNCHANGED <<fh, loc, lost>>
  BY DEF Destroy, CacheFree, fsVars
<1>2. /\ \A t \in Thread : ~Adding(t)'
      /\ \A t \in Thread : \A b : ~ThreadOwns(t, b) /\ ~ThreadOwns(t, b)'
      /\ \A k \in Key : ~Dropping(k)
  BY <1>1 DEF Adding, ThreadOwns, Dropping
<1>3. \A k \in Key : \A b : ~Holds(k, b)' /\ ~CacheOwns(k, b)'
  BY <1>1 DEF Holds, CacheOwns
<1>4. \A b \in Payload : (\E e \in Cached : entry[e].ptr = b) <=> \E k \in Key : CacheOwns(k, b)
  BY <1>2 DEF Cached, CacheOwns
<1>5. \A b \in Payload : \A h \in Handle : HandleOwns(h, b) \/ b \in lost
                                            => \A k \in Key : ~CacheOwns(k, b)
  BY DEF HandlesApart, LostApart, HandleOwns, Holds, CacheOwns
<1>6. LookedUp' /\ NewPayload' /\ Given' /\ EmptyHanded'
  BY <1>1, <1>2 DEF LookedUp, NewPayload, Given, EmptyHanded, EmptyStates
<1>7. PayloadsDistinct'
  BY <1>3 DEF PayloadsDistinct
<1>8. HandlesApart' /\ LostApart' /\ ThreadsApart'
  BY <1>1, <1>2, <1>3 DEF HandlesApart, LostApart, ThreadsApart, HandleOwns
<1>9. AllOwned'
  <2>1. ASSUME NEW b \in Payload PROVE payload'[b] # FREED <=> Owned(b)'
    <3> DEFINE kept == b \in lost \/ \E h \in Handle : HandleOwns(h, b)
    <3>1. Owned(b)' <=> kept
      BY <1>1, <1>2, <1>3 DEF Owned, HandleOwns
    <3>2. Owned(b) <=> kept \/ \E k \in Key : CacheOwns(k, b)
      BY <1>2 DEF Owned
    <3>3. kept => ~\E k \in Key : CacheOwns(k, b)
      BY <1>5 DEF LostApart, Holds, CacheOwns
    <3> HIDE DEF kept
    <3> QED BY <1>1, <1>4, <3>1, <3>2, <3>3 DEF AllOwned
  <2> QED BY <2>1 DEF AllOwned
<1> QED BY <1>6, <1>7, <1>8, <1>9

\* The list of a listing that is refused is lost with its first page.
LEMMA RefusedObjects ==
  ASSUME OneThread, HeapInv, FSInv, ObjectsInv, NEW t \in Thread, Refused(t)
  PROVE  ObjectsInv'
<1> USE OnlyThread DEF ObjectsInv
<1> DEFINE b == loc[t].ptr
<1>1. /\ UNCHANGED <<table, entry, payload, fh>>
      /\ loc'[t].ptr = NULL
      /\ pc[t] \in {"miss", "paging", "opening", "reading"} /\ pc'[t] = "mosso_free"
      /\ lost' = lost \cup ({b} \ {NULL})
  BY DEF Refused, Requesting, Step, HeapInv, HeapTypeOK, Locals
<1>2. /\ \A k \in Key : ~Dropping(k) /\ ~Dropping(k)'
      /\ ~Adding(t)'
      /\ \A p \in Payload : ~ThreadOwns(t, p)'
  BY <1>1, CacheAssumption DEF Dropping, Adding, ThreadOwns
<1>3. \A p \in Payload : p \in lost' <=> p \in lost \/ ThreadOwns(t, p)
  <2>1. CASE pc[t] = "paging"
    BY <1>1, <2>1, CacheAssumption DEF ThreadOwns
  <2>2. CASE pc[t] # "paging"
    BY <1>1, <2>2 DEF ThreadOwns, Adding, EmptyHanded, EmptyStates
  <2> QED BY <2>1, <2>2
<1>4. LookedUp' /\ NewPayload' /\ Given' /\ EmptyHanded'
  BY <1>1, <1>2 DEF LookedUp, NewPayload, Given, EmptyHanded, EmptyStates
<1>5. PayloadsDistinct' /\ ThreadsApart'
  BY <1>1, <1>2 DEF PayloadsDistinct, ThreadsApart, Holds
<1>6. HandlesApart'
  <2>1. \A h \in Handle : fh[h] # FREED => fh[h].meta \in Payload
    BY DEF FSInv, CallbacksTyped
  <2> QED BY <1>1, <1>2, <2>1 DEF HandlesApart, HandleOwns, Holds
<1>7. LostApart'
  <2>1. \A p \in Payload : ThreadOwns(t, p) => \A h \in Handle : ~HandleOwns(h, p)
    BY DEF HandlesApart, HandleOwns
  <2> QED BY <1>1, <1>2, <1>3, <2>1 DEF LostApart, ThreadsApart, HandleOwns, Holds
<1>8. AllOwned'
  BY <1>1, <1>2, <1>3 DEF AllOwned, Owned, CacheOwns, HandleOwns
<1> QED BY <1>4, <1>5, <1>6, <1>7, <1>8

\* Steps that leave the thread with what it had.
LEMMA OtherStepsQuiet ==
  ASSUME OneThread, HeapInv, FSInv, ObjectsInv, NEW t \in Thread,
         \/ \E p \in Path : Getattr(t, p) \/ Readdir(t, p) \/ Open(t, p)
         \/ \E h \in Handle, n \in 1..MaxRead : Read(t, h, n)
         \/ NextPage(t) \/ Received(t) \/ Unreachable(t) \/ Unreadable(t) \/ SetError(t)
         \/ Reply(t) \/ ReplyRead(t) \/ ReplyError(t)
  PROVE  /\ pc[t] \in Quiet /\ pc'[t] \in Quiet \ {"hit", "added"}
         /\ \A b \in Payload : ThreadOwns(t, b)' <=> ThreadOwns(t, b)
         /\ EmptyHanded'
<1> USE OnlyThread
<1>0. \A from, to : Step(t, from, to) => pc[t] = from /\ pc'[t] = to
  BY DEF Step, HeapInv, HeapTypeOK
<1>1. ASSUME pc[t] \in EmptyStates \cup {"hit", "added"}, pc'[t] \in EmptyStates, loc'[t].ptr = NULL
      PROVE  /\ \A b \in Payload : ThreadOwns(t, b)' <=> ThreadOwns(t, b)
             /\ EmptyHanded'
  BY <1>1 DEF EmptyHanded, EmptyStates, ThreadOwns, Adding
<1>2. CASE \E p \in Path : Getattr(t, p) \/ Readdir(t, p) \/ Open(t, p)
  <2>1. pc[t] = "idle" /\ pc'[t] \in {"get_lookup", "opening"} /\ loc'[t].ptr = NULL
    <3>0. loc \in [Thread -> Locals]
      BY DEF HeapInv, HeapTypeOK
    <3>1. CASE \E p \in Path : Getattr(t, p) \/ Readdir(t, p)
      <4>1. PICK k : GetCall(t, k)
        BY <3>1 DEF Getattr, Readdir
      <4>2. [NoLocals EXCEPT !.key = k, !.now = clock].ptr = NULL
        BY DEF NoLocals
      <4> QED BY <1>0, <3>0, <4>1, <4>2 DEF GetCall
    <3>2. CASE \E p \in Path : Open(t, p)
      <4>1. PICK p \in Path : Open(t, p)
        BY <3>2
      <4>2. [NoLocals EXCEPT !.key = <<"meta", p>>].ptr = NULL
        BY DEF NoLocals
      <4> QED BY <1>0, <3>0, <4>1, <4>2 DEF Open
    <3> QED BY <1>2, <3>1, <3>2
  <2> QED BY <1>1, <2>1 DEF EmptyStates, Quiet, Outside
<1>3. CASE (\E h \in Handle, n \in 1..MaxRead : Read(t, h, n)) \/ Received(t) \/ ReplyRead(t)
           \/ Unreadable(t)
  <2>1. /\ pc[t] \in {"idle", "reading", "read", "miss", "opening"}
        /\ pc'[t] \in {"idle", "reading", "read", "unreadable"}
        /\ loc' = loc
    BY <1>0, <1>3 DEF Read, Received, ReplyRead, Unreadable
  <2> QED BY <1>1, <2>1 DEF ObjectsInv, EmptyHanded, EmptyStates, Quiet, Outside
<1>4. CASE NextPage(t)
  <2>1. pc[t] = "paging" /\ pc'[t] \in {"paging", "fetched"} /\ loc' = loc
    BY <1>0, <1>4 DEF NextPage
  <2> QED BY <2>1 DEF ThreadOwns, EmptyHanded, EmptyStates, Quiet, Outside
<1>5. CASE Unreachable(t)
  <2>1. /\ pc[t] \in {"miss", "paging", "opening", "reading"} /\ pc'[t] = "curl_free"
        /\ loc' = loc
    BY <1>0, <1>5 DEF Unreachable, Requesting
  <2>2. pc[t] # "paging" => loc[t].ptr = NULL
    BY <2>1 DEF ObjectsInv, EmptyHanded, EmptyStates
  <2> QED BY <2>1, <2>2, CacheAssumption
        DEF ThreadOwns, Adding, EmptyHanded, EmptyStates, Quiet, Outside
<1>6. CASE SetError(t)
  <2>1. /\ pc[t] \in {"curl_free", "curl_store", "mosso_free", "mosso_store"}
        /\ pc'[t] \in {"curl_store", "mosso_free", "mosso_store", "error"}
        /\ pc'[t] = "error" => loc[t].ptr = NULL
        /\ loc' = loc
    BY <1>0, <1>6 DEF SetError, FreeError, StoreError, ReadsFreedBody
  <2> QED BY <2>1, CacheAssumption
        DEF ThreadOwns, Adding, EmptyHanded, EmptyStates, Quiet, Outside
<1>7. CASE Reply(t) \/ ReplyError(t)
  <2>1. pc[t] \in {"hit", "added", "error"} /\ pc'[t] = "idle" /\ loc'[t].ptr = NULL
    BY <1>0, <1>7 DEF Reply, Return, ReplyError, HeapInv, HeapTypeOK, NoLocals
  <2> QED BY <1>1, <2>1 DEF EmptyStates, Quiet, Outside
<1> QED BY <1>2, <1>3, <1>4, <1>5, <1>6, <1>7

LEMMA StepsKeepObjects ==
  ASSUME OneThread, HeapInv, FSInv, ObjectsInv, NEW t \in Thread, [Next]_vars
  PROVE  ObjectsInv'
<1> USE OnlyThread
<1>1. CASE CacheStep(t)
  BY <1>1, LookupsObjects, ChecksObjects, FreesObjects, RemovesObjects, AddReplaceObjects
     DEF CacheStep
<1>2. CASE Fetch(t) \/ Store(t) \/ Opened(t) \/ Refused(t) \/ \E h \in Handle : Release(t, h)
  BY <1>2, FetchObjects, StoreObjects, OpenedObjects, RefusedObjects, ReleaseObjects
<1>3. CASE \/ \E p \in Path : Getattr(t, p) \/ Readdir(t, p) \/ Open(t, p)
           \/ \E h \in Handle, n \in 1..MaxRead : Read(t, h, n)
           \/ NextPage(t) \/ Received(t) \/ Unreachable(t) \/ Unreadable(t) \/ SetError(t)
           \/ Reply(t) \/ ReplyRead(t) \/ ReplyError(t)
  <2>1. UNCHANGED <<table, entry, payload, fh, lost>>
    BY <1>3 DEF Getattr, Readdir, GetCall, Open, Read, NextPage, Received, Unreachable,
      Unreadable, SetError, FreeError, StoreError, Reply, Return, ReplyRead, ReplyError, fsVars
  <2> QED BY <1>3, <2>1, OtherStepsQuiet, QuietSteps
<1>4. CASE Destroy
  BY <1>4, DestroyObjects
<1>5. CASE OutOfMemory(t) \/ Fault(t) \/ (\E p \in Path : RemoteWrite(p)) \/ TimePasses \/ Stopped
           \/ UNCHANGED vars
  <2>1. UNCHANGED <<table, entry, payload, pc, loc, fh, lost>>
    BY <1>5 DEF OutOfMemory, Fault, RemoteWrite, TimePasses, ClockMoves, Stopped, Ended,
      cacheVars, fsVars, vars
  <2> QED BY <2>1 DEF ObjectsInv, LookedUp, PayloadsDistinct, NewPayload, Given, ThreadsApart,
        HandlesApart, LostApart, EmptyHanded, AllOwned, Owned, CacheOwns, ThreadOwns, HandleOwns,
        Holds, Adding, Dropping
<1> QED BY <1>1, <1>2, <1>3, <1>4, <1>5 DEF Next, Request, Serve

-----------------------------------------------------------------------------
(* No step has undefined behaviour that the service does not cause. *)

LEMMA StepsKeepErrors ==
  ASSUME OneThread, HeapInv, FSInv, ErrorsKept, NEW t \in Thread, [Next]_vars
  PROVE  ErrorsKept'
<1> USE OnlyThread
<1>0. /\ Thread = {t}
      /\ errors \in [{"curl", "mosso"} -> {"null", "live", "freed"}]
      /\ \A from, to : Step(t, from, to) => pc[t] = from /\ pc'[t] = to
  BY DEF FSInv, CallbacksTyped, Step
<1>1. CASE SetError(t)
  <2>1. CASE FreeError(t, "curl", "curl_free", "curl_store")
    <3>1. pc[t] = "curl_free" /\ pc'[t] = "curl_store" /\ errors'["mosso"] = errors["mosso"]
      BY <1>0, <2>1 DEF FreeError
    <3> QED BY <1>0, <3>1 DEF ErrorsKept
  <2>2. CASE StoreError(t, "curl", "curl_store", "mosso_free")
    <3>1. /\ pc[t] = "curl_store" /\ pc'[t] = "mosso_free"
          /\ errors'["curl"] = "live" /\ errors'["mosso"] = errors["mosso"]
      BY <1>0, <2>2 DEF StoreError
    <3> QED BY <1>0, <3>1 DEF ErrorsKept
  <2>3. CASE FreeError(t, "mosso", "mosso_free", "mosso_store")
    <3>1. pc[t] = "mosso_free" /\ pc'[t] = "mosso_store" /\ errors'["curl"] = errors["curl"]
      BY <1>0, <2>3 DEF FreeError
    <3> QED BY <1>0, <3>1 DEF ErrorsKept
  <2>4. CASE StoreError(t, "mosso", "mosso_store", "error")
    <3>1. /\ pc[t] = "mosso_store" /\ pc'[t] = "error"
          /\ errors'["mosso"] = "live" /\ errors'["curl"] = errors["curl"]
      BY <1>0, <2>4 DEF StoreError
    <3> QED BY <1>0, <3>1 DEF ErrorsKept
  <2> QED BY <1>1, <2>1, <2>2, <2>3, <2>4 DEF SetError
<1>2. CASE errors' = errors /\ (pc' = pc \/ pc[t] \notin {"curl_store", "mosso_store"})
  BY <1>0, <1>2 DEF ErrorsKept
<1>3. CASE CacheStep(t) \/ Fetch(t) \/ NextPage(t) \/ Store(t) \/ Opened(t) \/ Received(t)
  <2>1. errors' = errors
    BY <1>3 DEF CacheStep, Fetch, NextPage, Store, Opened, Received, fsVars
  <2>2. pc[t] \notin {"curl_store", "mosso_store"}
    <3>1. CASE CacheStep(t)
      <4>1. CASE GetLookup(t) \/ AddLookup(t) \/ GetFresh(t) \/ GetStale(t)
        BY <4>1 DEF GetLookup, AddLookup, GetFresh, GetStale, Step
      <4>2. CASE GetFree(t) \/ GetRemove(t) \/ AddFree(t) \/ AddReplace(t)
        BY <4>2 DEF GetFree, GetRemove, FreePayload, RemoveEntry, AddFree, AddReplace, Step
      <4> QED BY <3>1, <4>1, <4>2 DEF CacheStep
    <3>2. CASE Fetch(t) \/ NextPage(t) \/ Store(t) \/ Opened(t) \/ Received(t)
      BY <3>2 DEF Fetch, NextPage, Store, Opened, Received, Step
    <3> QED BY <1>3, <3>1, <3>2
  <2> QED BY <1>2, <2>1, <2>2
<1>4. CASE Request(t) \/ Refused(t) \/ Unreachable(t) \/ Unreadable(t) \/ Reply(t)
           \/ ReplyRead(t) \/ ReplyError(t)
  <2>1. errors' = errors
    BY <1>4 DEF Request, Getattr, Readdir, GetCall, Open, Read, Release, Refused, Unreachable,
       Unreadable, Reply, ReplyRead, ReplyError, fsVars
  <2>2. pc[t] \notin {"curl_store", "mosso_store"}
    <3>1. CASE Request(t)
      BY <3>1 DEF Request, Getattr, Readdir, GetCall, Open, Read, Release, Step
    <3>2. CASE Refused(t) \/ Unreachable(t) \/ Unreadable(t)
      BY <3>2 DEF Refused, Unreachable, Unreadable, Requesting
    <3>3. CASE Reply(t) \/ ReplyRead(t) \/ ReplyError(t)
      BY <3>3 DEF Reply, ReplyRead, ReplyError, Step
    <3> QED BY <1>4, <3>1, <3>2, <3>3
  <2> QED BY <1>2, <2>1, <2>2
<1>5. CASE OutOfMemory(t) \/ Fault(t) \/ (\E p \in Path : RemoteWrite(p)) \/ Destroy
           \/ TimePasses \/ Stopped \/ UNCHANGED vars
  <2>1. errors' = errors /\ pc' = pc
    BY <1>5 DEF OutOfMemory, Fault, RemoteWrite, Destroy, CacheFree, TimePasses, ClockMoves,
       Stopped, Ended, cacheVars, fsVars, vars
  <2> QED BY <1>2, <2>1
<1> QED BY <1>0, <1>1, <1>3, <1>4, <1>5 DEF Next, Serve

LEMMA NoneFaulty ==
  ASSUME OneThread, HeapInv, FSInv, ObjectsInv, ErrorsKept, NEW t \in Thread, Faulty(t)
  PROVE  pc[t] = "unreadable" \/ ReadsFreedBody(t)
<1> USE OnlyThread
<1>1. \A b \in Payload : Owned(b) => payload[b] # FREED
  BY DEF ObjectsInv, AllOwned
<1>2. CASE pc[t] \in {"get_check", "get_free", "add_free", "rem_free"}
  <2>1. loc[t].key \in Key /\ table[loc[t].key] # NULL /\ loc[t].found = table[loc[t].key]
    BY <1>2 DEF HeapInv, LocalsSet, ObjectsInv, LookedUp
  <2>2. entry[loc[t].found] # FREED /\ entry[loc[t].found].ptr \in Payload
    BY <2>1, EntryTyped DEF HeapInv
  <2>3. Owned(entry[loc[t].found].ptr)
    BY <1>2, <2>1 DEF Owned, CacheOwns, Dropping
  <2> QED BY <1>1, <1>2, <2>2, <2>3 DEF Faulty, Dangling, ReadsFreedBody
<1>3. CASE pc[t] \in {"hit", "added"}
  <2>1. loc[t].ptr \in Payload /\ Owned(loc[t].ptr)
    BY <1>3 DEF ObjectsInv, Given, Holds, Owned, CacheOwns, Dropping
  <2> QED BY <1>1, <1>3, <2>1 DEF Faulty, Dangling
<1>4. CASE pc[t] = "idle"
  <2>1. \A h \in Handle : fh[h] # FREED => fh[h].meta \in Payload /\ Owned(fh[h].meta)
    BY HandlesObjects DEF Owned, HandleOwns
  <2> QED BY <1>1, <1>4, <2>1 DEF Faulty, Dangling
<1>5. CASE pc[t] \notin {"get_check", "get_free", "add_free", "rem_free", "hit", "added", "idle"}
  BY <1>5 DEF Faulty, Dangling, ErrorsKept
<1> QED BY <1>2, <1>3, <1>4, <1>5

\* Nothing is freed twice at unmount.
LEMMA DestroyDefined ==
  ASSUME HeapInv, ObjectsInv, \A t \in Thread : pc[t] = "idle"
  PROVE  FreedOnce
<1>1. ASSUME NEW e \in Cached PROVE payload[entry[e].ptr] # FREED
  <2>1. PICK k \in Key : table[k] = e /\ e # NULL
    BY <1>1 DEF Cached
  <2>2. entry[e].ptr \in Payload
    BY <2>1, EntryTyped DEF HeapInv
  <2>3. Owned(entry[e].ptr)
    BY <2>1 DEF Owned, CacheOwns, Dropping
  <2> QED BY <2>2, <2>3 DEF ObjectsInv, AllOwned
<1>2. ASSUME NEW e \in Cached, NEW f \in Cached, entry[e].ptr = entry[f].ptr PROVE e = f
  <2>1. PICK j, k \in Key : table[j] = e /\ table[k] = f /\ e # NULL /\ f # NULL
    BY DEF Cached
  <2>2. entry[e].ptr \in Payload
    BY <2>1, EntryTyped DEF HeapInv
  <2> QED BY <1>2, <2>1, <2>2 DEF ObjectsInv, PayloadsDistinct, Holds
<1> QED BY <1>1, <1>2 DEF FreedOnce

LEMMA StepsDefined ==
  ASSUME OneThread, HeapInv, FSInv, ObjectsInv, ErrorsKept, SerialUndefinedExplained, [Next]_vars
  PROVE  SerialUndefinedExplained'
<1>0. ASSUME status' # "undefined" PROVE SerialUndefinedExplained'
  BY <1>0 DEF SerialUndefinedExplained
<1>1. ASSUME NEW t \in Thread, Request(t) \/ Serve(t) PROVE SerialUndefinedExplained'
  <2>1. CASE OutOfMemory(t)
    BY <1>0, <2>1 DEF OutOfMemory
  <2>2. CASE Fault(t)
    BY <2>2, NoneFaulty DEF Fault, SerialUndefinedExplained, ReadsFreedBody
  <2>3. CASE Request(t)
    BY <1>0, <2>3 DEF Request, Getattr, Readdir, GetCall, Open, Read, Release, Step
  <2>4. CASE CacheStep(t)
    BY <1>0, <2>4 DEF CacheStep, GetLookup, GetFresh, GetStale, GetFree, GetRemove, AddLookup,
       AddFree, AddReplace, FreePayload, RemoveEntry, Step
  <2>5. CASE Fetch(t) \/ NextPage(t) \/ Store(t) \/ Opened(t) \/ Received(t)
    BY <1>0, <2>5 DEF Fetch, NextPage, Store, AddCall, Opened, Received, Step
  <2>6. CASE Refused(t) \/ Unreachable(t) \/ Unreadable(t) \/ SetError(t)
    BY <1>0, <2>6 DEF Refused, Unreachable, Unreadable, SetError, FreeError, StoreError, Step
  <2>7. CASE Reply(t) \/ ReplyRead(t) \/ ReplyError(t)
    BY <1>0, <2>7 DEF Reply, Return, ReplyRead, ReplyError, Step
  <2> QED BY <1>1, <2>1, <2>2, <2>3, <2>4, <2>5, <2>6, <2>7 DEF Serve
<1>2. CASE Destroy
  BY <1>0, <1>2, DestroyDefined DEF Destroy, CacheFree
<1>3. CASE (\E p \in Path : RemoteWrite(p)) \/ TimePasses \/ Stopped \/ UNCHANGED vars
  <2>1. UNCHANGED <<status, pc, loc>>
    BY <1>3 DEF RemoteWrite, TimePasses, ClockMoves, Stopped, Ended, cacheVars, vars
  <2> QED BY <2>1 DEF SerialUndefinedExplained, ReadsFreedBody
<1> QED BY <1>1, <1>2, <1>3 DEF Next

SerialFSInv == ObjectsInv /\ ErrorsKept /\ SerialUndefinedExplained

LEMMA SerialFSInvariant == Serial /\ WordFits => (Spec => []SerialFSInv)
<1> SUFFICES ASSUME Serial, WordFits PROVE Spec => []SerialFSInv
  OBVIOUS
<1>0. OneThread /\ \E t : t \in Thread
  BY DEF Serial, OneThread
<1>1. Init => SerialFSInv
  <2> SUFFICES ASSUME Init PROVE SerialFSInv
    OBVIOUS
  <2>1. /\ \A t \in Thread : pc[t] = "idle"
        /\ \A k \in Key : table[k] = NULL
        /\ \A b \in Payload : payload[b] = FREED
        /\ \A h \in Handle : fh[h] = FREED
        /\ errors["curl"] = "null" /\ errors["mosso"] = "null"
        /\ status = "running" /\ lost = {}
        /\ \A t \in Thread : loc[t].ptr = NULL
    BY DEF Init, CacheInit, NoLocals
  <2>2. ObjectsInv
    BY <2>1 DEF ObjectsInv, LookedUp, PayloadsDistinct, NewPayload, Given, ThreadsApart,
       HandlesApart, LostApart, EmptyHanded, AllOwned, Owned, CacheOwns, ThreadOwns, HandleOwns, Holds, Adding
  <2> QED BY <2>1, <2>2 DEF SerialFSInv, ErrorsKept, SerialUndefinedExplained
<1>2. HeapInv /\ FSInv /\ SerialFSInv /\ [Next]_vars => SerialFSInv'
  <2> SUFFICES ASSUME HeapInv, FSInv, SerialFSInv, [Next]_vars PROVE SerialFSInv'
    OBVIOUS
  <2>1. SerialUndefinedExplained'
    BY <1>0, StepsDefined DEF SerialFSInv
  <2>2. PICK t : t \in Thread
    BY <1>0
  <2>3. ObjectsInv' /\ ErrorsKept'
    BY <1>0, <2>2, StepsKeepObjects, StepsKeepErrors DEF SerialFSInv
  <2> QED BY <2>1, <2>3 DEF SerialFSInv
<1> QED BY <1>1, <1>2, HeapInvariant, FSInvariant, PTL DEF Spec

\* Mounted with -s, whatever expires, is replaced, opened or released, however
\* often requests fail, and at unmount, the callbacks have undefined behaviour
\* only where the service makes them: on an answer without a header they read,
\* and on a transfer that fails on a later page of a listing.
THEOREM SerialCallbacksExplained ==
  Serial /\ WordFits => (Spec => []SerialUndefinedExplained)
<1>1. SerialFSInv => SerialUndefinedExplained
  BY DEF SerialFSInv
<1> QED BY <1>1, SerialFSInvariant, PTL

\* Mounted with -s, what a callback was given from the cache is in memory until
\* it has answered, whatever expires or is replaced meanwhile: it takes a second
\* thread to free it.
THEOREM SerialFreedWhenUnneeded ==
  Serial /\ WordFits => (Spec => []FreedOnlyWhenUnneeded)
<1> SUFFICES ASSUME Serial, WordFits PROVE Spec => []FreedOnlyWhenUnneeded
  OBVIOUS
<1>0. OneThread
  BY DEF Serial, OneThread
<1>1. HeapInv /\ SerialFSInv => FreedOnlyWhenUnneeded
  <2> SUFFICES ASSUME HeapInv, SerialFSInv, NEW t \in Thread, pc[t] \in {"hit", "added"}
               PROVE  payload[loc[t].ptr] # FREED
    BY DEF FreedOnlyWhenUnneeded
  <2>1. loc[t].ptr \in Payload /\ Owned(loc[t].ptr)
    BY <1>0, OnlyThread DEF SerialFSInv, ObjectsInv, Given, Holds, Owned, CacheOwns, Dropping
  <2> QED BY <2>1 DEF SerialFSInv, ObjectsInv, AllOwned
<1>2. Spec => []SerialFSInv
  BY SerialFSInvariant
<1> QED BY <1>1, <1>2, HeapInvariant, PTL

\* What is lost has no owner.
LEMMA LostUnowned ==
  ASSUME ObjectsInv, NEW b \in Payload, b \in lost
  PROVE  /\ \A k \in Key : ~CacheOwns(k, b)
         /\ \A t \in Thread : ~ThreadOwns(t, b)
         /\ \A h \in Handle : ~HandleOwns(h, b)
<1>1. \A k \in Key : CacheOwns(k, b) => Holds(k, b)
  BY DEF CacheOwns, Holds
<1> QED BY <1>1 DEF ObjectsInv, LostApart

\* Nothing has two owners.
LEMMA OwnersExclude ==
  ASSUME OneThread, ObjectsInv, NEW b \in Payload
  PROVE  /\ \A j, k \in Key : CacheOwns(j, b) /\ CacheOwns(k, b) => j = k
         /\ \A k \in Key, t \in Thread : ~(CacheOwns(k, b) /\ ThreadOwns(t, b))
         /\ \A k \in Key, h \in Handle : ~(CacheOwns(k, b) /\ HandleOwns(h, b))
         /\ \A s, t \in Thread : ThreadOwns(s, b) /\ ThreadOwns(t, b) => s = t
         /\ \A t \in Thread, h \in Handle : ~(ThreadOwns(t, b) /\ HandleOwns(h, b))
         /\ \A g, h \in Handle : HandleOwns(g, b) /\ HandleOwns(h, b) => g = h
<1>1. \A k \in Key : CacheOwns(k, b) => Holds(k, b)
  BY DEF CacheOwns, Holds
<1>2. \A j, k \in Key : CacheOwns(j, b) /\ CacheOwns(k, b) => j = k
  BY <1>1 DEF ObjectsInv, PayloadsDistinct
<1>3. \A t \in Thread : ThreadOwns(t, b) => \A k \in Key : ~Holds(k, b)
  BY DEF ObjectsInv, ThreadsApart
<1>4. \A h \in Handle : HandleOwns(h, b) => /\ \A k \in Key : ~Holds(k, b)
                                            /\ \A t \in Thread : ~ThreadOwns(t, b)
                                            /\ \A g \in Handle : HandleOwns(g, b) => g = h
  BY DEF ObjectsInv, HandleOwns, HandlesApart
<1>5. \A k \in Key, t \in Thread : ~(CacheOwns(k, b) /\ ThreadOwns(t, b))
  BY ONLY <1>1, <1>3
<1>6. \A k \in Key, h \in Handle : ~(CacheOwns(k, b) /\ HandleOwns(h, b))
  BY ONLY <1>1, <1>4
<1>7. \A s, t \in Thread : ThreadOwns(s, b) /\ ThreadOwns(t, b) => s = t
  BY DEF OneThread
<1>8. \A t \in Thread, h \in Handle : ~(ThreadOwns(t, b) /\ HandleOwns(h, b))
  BY ONLY <1>4
<1>9. \A g, h \in Handle : HandleOwns(g, b) /\ HandleOwns(h, b) => g = h
  BY ONLY <1>4
<1> QED BY ONLY <1>2, <1>5, <1>6, <1>7, <1>8, <1>9

\* Mounted with -s, every meta and every listing in memory has exactly one
\* owner, and an owner's object is in memory: none is lost when it expires,
\* when it is replaced, on a failed request or at unmount, but for the list of
\* a listing that is refused on a later page, which nothing touches again.
THEOREM SerialOwners == Serial /\ WordFits => (Spec => []OneOwner)
<1> SUFFICES ASSUME Serial, WordFits PROVE Spec => []OneOwner
  OBVIOUS
<1>1. OneThread
  BY DEF Serial, OneThread
<1>2. ASSUME ObjectsInv, NEW b \in Payload
      PROVE  LET owners == {k \in Key : CacheOwns(k, b)}
                             \cup {t \in Thread : ThreadOwns(t, b)}
                             \cup {h \in Handle : HandleOwns(h, b)}
             IN  IF payload[b] = FREED \/ b \in lost THEN owners = {} ELSE Cardinality(owners) = 1
  <2> DEFINE owners == {k \in Key : CacheOwns(k, b)}
                         \cup {t \in Thread : ThreadOwns(t, b)}
                         \cup {h \in Handle : HandleOwns(h, b)}
             Someones == \/ \E k \in Key : CacheOwns(k, b)
                         \/ \E t \in Thread : ThreadOwns(t, b)
                         \/ \E h \in Handle : HandleOwns(h, b)
  <2>1. Someones <=> payload[b] # FREED /\ b \notin lost
    <3>1. payload[b] # FREED <=> b \in lost \/ Someones
      BY <1>2 DEF ObjectsInv, AllOwned, Owned
    <3>2. b \in lost => ~Someones
      BY <1>2, LostUnowned
    <3> QED BY <3>1, <3>2
  <2>2. ASSUME ~Someones PROVE owners = {}
    BY <2>2
  <2>3. ASSUME Someones PROVE \E o : owners = {o}
    <3>1. CASE \E k \in Key : CacheOwns(k, b)
      BY <1>1, <1>2, <3>1, OwnersExclude
    <3>2. CASE \E t \in Thread : ThreadOwns(t, b)
      BY <1>1, <1>2, <3>2, OwnersExclude
    <3>3. CASE \E h \in Handle : HandleOwns(h, b)
      BY <1>1, <1>2, <3>3, OwnersExclude
    <3> QED BY <2>3, <3>1, <3>2, <3>3
  <2>4. ASSUME Someones PROVE Cardinality(owners) = 1
    <3>1. PICK o : owners = {o}
      BY <2>3, <2>4
    <3> HIDE DEF owners
    <3> QED BY <3>1, FS_Singleton
  <2> QED BY <2>1, <2>2, <2>4
<1>3. SerialFSInv => OneOwner
  BY <1>2 DEF OneOwner, SerialFSInv
<1>4. Spec => []SerialFSInv
  BY SerialFSInvariant
<1> QED BY <1>3, <1>4, PTL

-----------------------------------------------------------------------------
(* Nothing gets older.                                                     *)

\* The object in block b, if there is one, is no newer than what the service
\* has for key k and no older than what the kernel was told last.
Newer(k, b) ==
  payload[b] # FREED => /\ payload[b] <= service[k[2]]
                        /\ seen[k] # NULL => seen[k] <= payload[b]

\* The thread has fetched an object that is not in the cache yet.
Fetched(t) == pc[t] \in {"paging", "fetched"} \/ Adding(t)

VersionsInv ==
  /\ \A k \in Key : seen[k] # NULL => seen[k] <= service[k[2]]
  /\ \A k \in Key : \A b \in Payload : Holds(k, b) => Newer(k, b)
  /\ \A t \in Thread : Fetched(t) => Newer(loc[t].key, loc[t].ptr)

LEMMA Numbers ==
  ASSUME HeapInv, FSInv
  PROVE  /\ Data \subseteq Int /\ FREED \notin Data /\ NULL \notin Data
         /\ \A b \in Payload : payload[b] # FREED => payload[b] \in Data
         /\ \A k \in Key : seen[k] # NULL => seen[k] \in Data
         /\ \A p \in Path : service[p] \in Data
         /\ \A k \in Key : k[2] \in Path
BY CacheAssumption, MossoFSAssumption, KeysHavePaths
   DEF HeapInv, HeapTypeOK, ServiceTyped, FSInv, CallbacksTyped

\* A step that makes no object, tells the kernel nothing, and after which the
\* cache and the thread hold at most what they did.
LEMMA HoldsNoMore ==
  ASSUME VersionsInv, UNCHANGED <<service, seen>>,
         \A b \in Payload : payload'[b] \in {payload[b], FREED},
         \A k \in Key : \A b \in Payload : Holds(k, b)' => Newer(k, b),
         \A t \in Thread : Fetched(t)' =>
           loc'[t].ptr \in Payload /\ Newer(loc'[t].key, loc'[t].ptr)
  PROVE  VersionsInv'
<1>1. \A k : \A b \in Payload : Newer(k, b) => Newer(k, b)'
  BY DEF Newer
<1>2. \A t \in Thread : Fetched(t)' => Newer(loc[t].key, loc[t].ptr)'
  <2>1. ASSUME NEW t \in Thread, Fetched(t)'
        PROVE  Newer(loc[t].key, loc[t].ptr)'
    <3>1. PICK k, b : b \in Payload /\ k = loc'[t].key /\ b = loc'[t].ptr /\ Newer(k, b)
      BY <2>1
    <3> QED BY <1>1, <3>1 DEF Newer
  <2> QED BY <2>1
<1> QED BY <1>1, <1>2 DEF VersionsInv

\* The calls of the cache only pass objects on.
LEMMA CacheCallsVersions ==
  ASSUME OneThread, HeapInv, ObjectsInv, VersionsInv, NEW t \in Thread,
         CacheStep(t) \/ Store(t)
  PROVE  VersionsInv'
<1> USE OnlyThread
<1>1. CASE GetLookup(t) \/ GetFresh(t) \/ GetStale(t)
  <2>1. UNCHANGED <<table, entry, payload, service, seen>>
    BY <1>1 DEF CacheStep, GetLookup, GetFresh, GetStale, Store, fsVars, Step
  <2>2. pc'[t] \in {"miss", "get_check", "hit", "get_free"}
    BY <1>1 DEF GetLookup, GetFresh, GetStale, Step, HeapInv, HeapTypeOK
  <2> QED BY <2>1, <2>2, HoldsNoMore DEF Fetched, Adding, Holds, VersionsInv
<1>2. CASE AddLookup(t)
  <2>1. UNCHANGED <<table, entry, payload, service, seen>>
    BY <1>2 DEF CacheStep, AddLookup, Store, fsVars, Step
  <2>2. Adding(t) /\ loc'[t].key = loc[t].key /\ loc'[t].ptr = loc[t].ptr
    BY <1>2 DEF AddLookup, Step, Adding, HeapInv, HeapTypeOK, Locals
  <2>3. loc[t].ptr \in Payload
    BY <2>2 DEF HeapInv, LocalsSet
  <2> QED BY <2>1, <2>2, <2>3, HoldsNoMore DEF Fetched, Adding, Holds, VersionsInv
<1>3. CASE GetFree(t) \/ AddFree(t)
  <2>1. /\ UNCHANGED <<table, entry, loc, service, seen>>
        /\ \A b \in Payload : payload'[b] \in {payload[b], FREED}
        /\ Adding(t)' => Adding(t)
        /\ pc'[t] \notin {"paging", "fetched"}
    BY <1>3 DEF CacheStep, GetFree, AddFree, FreePayload, Store, fsVars, Step, HeapInv,
       HeapTypeOK, Adding
  <2>2. Adding(t) => loc[t].ptr \in Payload
    BY DEF HeapInv, LocalsSet
  <2> QED BY <2>1, <2>2, HoldsNoMore DEF Fetched, Holds, VersionsInv
<1>4. CASE GetRemove(t)
  <2> DEFINE key == loc[t].key
  <2>1. /\ UNCHANGED <<payload, service, seen>>
        /\ entry' = [e \in Entry |-> IF e = table[key] THEN FREED ELSE entry[e]]
        /\ table' = [table EXCEPT ![key] = NULL]
        /\ pc'[t] = "miss"
        /\ key \in Key
    BY <1>4 DEF CacheStep, GetRemove, RemoveEntry, Store, Step, HeapInv, HeapTypeOK, LocalsSet,
       fsVars
  <2>2. \A k \in Key : \A b : Holds(k, b)' => Holds(k, b)
    BY <2>1, CacheAssumption DEF Holds, HeapInv, HeapTypeOK, EntriesManaged, BucketsDistinct
  <2> QED BY <2>1, <2>2, HoldsNoMore DEF Fetched, Adding, VersionsInv
<1>5. CASE AddReplace(t)
  <2>1. PICK key \in Key, new \in Entry, b \in Payload :
          key = loc[t].key /\ new = loc[t].new /\ b = loc[t].ptr
    BY <1>5 DEF AddReplace, Step, HeapInv, LocalsSet, Adding
  <2>2. /\ UNCHANGED <<payload, service, seen>>
        /\ entry' = [e \in Entry |-> IF e = table[key] THEN FREED ELSE entry[e]]
        /\ table' = [table EXCEPT ![key] = new]
        /\ pc[t] = "add_replace" /\ pc'[t] = "added"
    BY <1>5, <2>1 DEF CacheStep, AddReplace, Store, Step, HeapInv, HeapTypeOK, fsVars
  <2>3. Adding(t) /\ ~Adding(t)'
    BY <2>2 DEF Adding
  <2>4. entry[new].ptr = b /\ \A k \in Key : table[k] # new
    BY <2>1, <2>3 DEF ObjectsInv, NewPayload, HeapInv, EntriesManaged, NewAllocated
  <2>5. \A k \in Key : \A p : Holds(k, p)' => Holds(k, p) \/ (k = key /\ p = b)
    BY <2>2, <2>4 DEF Holds, HeapInv, HeapTypeOK, EntriesManaged, BucketsDistinct
  <2>6. Newer(key, b)
    BY <2>1, <2>3 DEF VersionsInv, Fetched
  <2>7. \A k \in Key : \A p \in Payload : Holds(k, p)' => Newer(k, p)
    BY <2>5, <2>6 DEF VersionsInv
  <2> QED BY <2>2, <2>3, <2>7, HoldsNoMore DEF Fetched
<1>6. CASE Store(t)
  <2>1. PICK e \in Entry, b \in Payload, k \in Key :
          /\ b = loc[t].ptr /\ k = loc[t].key
          /\ entry[e] = FREED
          /\ entry' = [entry EXCEPT ![e] = [timestamp |-> clock, ptr |-> b]]
          /\ loc' = [loc EXCEPT ![t] = [NoLocals EXCEPT !.key = k, !.new = e, !.ptr = b]]
          /\ Step(t, "fetched", "add_lookup")
          /\ UNCHANGED <<table, payload, service, seen>>
    BY <1>6 DEF Store, AddCall, Step, HeapInv, CallbackLocals, fsVars
  <2>2. /\ pc[t] = "fetched" /\ loc'[t].key = k /\ loc'[t].ptr = b
        /\ \A f \in Entry \ {e} : entry'[f] = entry[f]
    BY <2>1 DEF HeapInv, HeapTypeOK, Step, NoLocals
  <2>3. \A j \in Key : table[j] # NULL => table[j] \in Entry \ {e}
    BY <2>1, EntryTyped DEF HeapInv
  <2>4. \A j \in Key : \A p : Holds(j, p)' => Holds(j, p)
    BY <2>1, <2>2, <2>3 DEF Holds
  <2>5. Newer(k, b)
    BY <2>1, <2>2 DEF VersionsInv, Fetched
  <2>6. \A j \in Key : \A p \in Payload : Holds(j, p)' => Newer(j, p)
    BY <2>4 DEF VersionsInv
  <2> QED BY <2>1, <2>2, <2>5, <2>6, HoldsNoMore
<1> QED BY <1>1, <1>2, <1>3, <1>4, <1>5, <1>6 DEF CacheStep

\* What is fetched is what the service has, which nothing is newer than.
LEMMA FetchVersions ==
  ASSUME OneThread, HeapInv, FSInv, ObjectsInv, VersionsInv, NEW t \in Thread,
         Fetch(t) \/ Opened(t)
  PROVE  VersionsInv'
<1> USE OnlyThread
<1>1. pc[t] \in {"miss", "opening"} /\ loc[t].key \in Key
  BY DEF Fetch, Opened, Step, HeapInv, CallbackLocals
<1>2. PICK b \in Payload, k \in Key :
        /\ k = loc[t].key
        /\ payload[b] = FREED
        /\ payload' = [payload EXCEPT ![b] = service[k[2]]]
        /\ UNCHANGED <<table, entry, service, seen>>
        /\ \/ pc'[t] \in {"paging", "fetched"} /\ loc' = [loc EXCEPT ![t].ptr = b]
           \/ pc'[t] = "idle"
  BY <1>1 DEF Fetch, Opened, Step, HeapInv, HeapTypeOK, fsVars
<1>3. \A j \in Key : ~Holds(j, b)
  BY <1>1, <1>2, NewUnowned DEF Dropping
<1>4. \A p \in Payload \ {b} : payload'[p] = payload[p]
  BY <1>2 DEF HeapInv, HeapTypeOK
<1>5. \A j \in Key : \A p \in Payload : Holds(j, p)' => Newer(j, p)'
  <2>1. ASSUME NEW j \in Key, NEW p \in Payload, Holds(j, p)' PROVE Newer(j, p)'
    <3>1. Holds(j, p) /\ p # b
      BY <1>2, <1>3, <2>1 DEF Holds
    <3> QED BY <1>2, <1>4, <3>1 DEF Newer, VersionsInv
  <2> QED BY <2>1
<1>6. pc'[t] \in {"paging", "fetched"} => Newer(loc[t].key, loc[t].ptr)'
  <2>1. payload'[b] = service[k[2]] /\ service[k[2]] \in Int
    BY <1>2, Numbers DEF HeapInv, HeapTypeOK
  <2>2. pc'[t] \in {"paging", "fetched"} => loc'[t].key = k /\ loc'[t].ptr = b
    BY <1>2 DEF HeapInv, HeapTypeOK, Locals
  <2>3. seen[k] # NULL => seen[k] <= service[k[2]]
    BY DEF VersionsInv
  <2> QED BY <1>2, <2>1, <2>2, <2>3 DEF Newer
<1>7. Fetched(t)' => pc'[t] \in {"paging", "fetched"}
  BY <1>2 DEF Fetched, Adding
<1> QED BY <1>2, <1>5, <1>6, <1>7 DEF VersionsInv

\* The kernel is told of the version that is held.
LEMMA ReplyVersions ==
  ASSUME OneThread, HeapInv, FSInv, ObjectsInv, VersionsInv, NEW t \in Thread, Reply(t)
  PROVE  /\ VersionsInv'
         /\ \A k \in Key : seen[k] # NULL => seen'[k] >= seen[k]
<1> USE OnlyThread
<1>1. PICK k \in Key, b \in Payload : k = loc[t].key /\ b = loc[t].ptr /\ Holds(k, b)
  BY DEF Reply, ObjectsInv, Given
<1>2. /\ seen' = [seen EXCEPT ![k] = payload[b]]
      /\ UNCHANGED <<table, entry, payload, service>>
      /\ pc'[t] = "idle"
      /\ payload[b] # FREED
  BY <1>1 DEF Reply, Return, Dangling, HeapInv, HeapTypeOK
<1>3. /\ seen'[k] = payload[b]
      /\ \A j \in Key \ {k} : seen'[j] = seen[j]
  BY <1>2 DEF FSInv, CallbacksTyped
<1>4. /\ payload[b] \in Int /\ payload[b] <= service[k[2]]
      /\ seen[k] # NULL => seen[k] \in Int /\ seen[k] <= payload[b]
  BY <1>1, <1>2, Numbers DEF VersionsInv, Newer
<1>5. \A j \in Key : seen[j] # NULL => seen'[j] >= seen[j]
  BY <1>3, <1>4, Numbers
<1>6. \A j \in Key : seen'[j] # NULL => seen'[j] <= service[j[2]]
  BY <1>3, <1>4 DEF VersionsInv
<1>7. \A j \in Key : \A p \in Payload : Holds(j, p) => Newer(j, p)'
  <2>1. ASSUME NEW p \in Payload, Holds(k, p) PROVE Newer(k, p)'
    <3>1. p = b
      BY <1>1, <2>1 DEF Holds
    <3> QED BY <1>2, <1>3, <1>4, <3>1 DEF Newer
  <2>2. ASSUME NEW j \in Key \ {k}, NEW p \in Payload, Holds(j, p) PROVE Newer(j, p)'
    BY <1>2, <1>3, <2>2 DEF Newer, VersionsInv
  <2> QED BY <2>1, <2>2
<1> QED BY <1>2, <1>5, <1>6, <1>7 DEF VersionsInv, Fetched, Holds, Adding

LEMMA RemoteWriteVersions ==
  ASSUME HeapInv, FSInv, VersionsInv, NEW p \in Path, RemoteWrite(p),
         \A t \in Thread : Fetched(t) =>
           loc[t].key \in Key /\ loc[t].ptr \in Payload
  PROVE  VersionsInv'
<1>1. /\ \A q \in Path : service[q] \in Int /\ service'[q] \in Int /\ service[q] <= service'[q]
      /\ UNCHANGED <<table, entry, payload, pc, loc, seen>>
  BY Numbers DEF RemoteWrite, cacheVars, HeapInv, ServiceTyped
<1>2. \A k \in Key : \A b \in Payload : Newer(k, b) => Newer(k, b)'
  <2>1. ASSUME NEW k \in Key, NEW b \in Payload, Newer(k, b) PROVE Newer(k, b)'
    <3>1. payload[b] # FREED => payload[b] \in Int
      BY Numbers
    <3>2. service[k[2]] \in Int /\ service'[k[2]] \in Int /\ service[k[2]] <= service'[k[2]]
      BY <1>1, KeysHavePaths
    <3> QED BY <1>1, <2>1, <3>1, <3>2 DEF Newer
  <2> QED BY <2>1
<1>3. \A k \in Key : seen[k] # NULL => seen[k] <= service'[k[2]]
  <2>1. ASSUME NEW k \in Key, seen[k] # NULL PROVE seen[k] <= service'[k[2]]
    <3>1. service[k[2]] \in Int /\ service'[k[2]] \in Int /\ service[k[2]] <= service'[k[2]]
      BY <1>1, KeysHavePaths
    <3>2. seen[k] \in Int /\ seen[k] <= service[k[2]]
      BY <2>1, Numbers DEF VersionsInv
    <3> QED BY <3>1, <3>2
  <2> QED BY <2>1
<1>4. \A t \in Thread : Fetched(t) => Newer(loc[t].key, loc[t].ptr)'
  <2>1. ASSUME NEW t \in Thread, Fetched(t)
        PROVE  Newer(loc[t].key, loc[t].ptr)'
    <3>1. PICK k \in Key, b \in Payload : k = loc[t].key /\ b = loc[t].ptr /\ Newer(k, b)
      BY <2>1 DEF VersionsInv
    <3> QED BY <1>1, <1>2, <3>1 DEF Newer
  <2> QED BY <2>1
<1> QED BY <1>1, <1>2, <1>3, <1>4 DEF VersionsInv, Fetched, Holds, Adding

NotOlder == \A k \in Key : seen[k] # NULL => seen'[k] >= seen[k]

LEMMA StepsKeepVersions ==
  ASSUME OneThread, HeapInv, FSInv, ObjectsInv, VersionsInv, NEW t \in Thread, [Next]_vars
  PROVE  VersionsInv' /\ NotOlder
<1> USE OnlyThread
<1>0. CASE Reply(t)
  BY <1>0, ReplyVersions DEF NotOlder
<1>1. ASSUME seen' = seen PROVE NotOlder
  BY <1>1, Numbers DEF NotOlder
<1>2. CASE CacheStep(t) \/ Store(t)
  <2>1. seen' = seen
    BY <1>2 DEF CacheStep, Store, fsVars
  <2> QED BY <1>1, <1>2, <2>1, CacheCallsVersions
<1>3. CASE Fetch(t) \/ Opened(t)
  <2>1. seen' = seen
    BY <1>3 DEF Fetch, Opened, fsVars
  <2> QED BY <1>1, <1>3, <2>1, FetchVersions
<1>4. CASE \/ \E p \in Path : Getattr(t, p) \/ Readdir(t, p) \/ Open(t, p)
           \/ \E h \in Handle, n \in 1..MaxRead : Read(t, h, n)
           \/ Received(t) \/ Refused(t) \/ Unreachable(t) \/ Unreadable(t) \/ SetError(t)
           \/ ReplyRead(t) \/ ReplyError(t)
  <2>1. UNCHANGED <<table, entry, payload, service, seen>>
    BY <1>4 DEF Getattr, Readdir, GetCall, Open, Read, Received, Refused, Unreachable,
       Unreadable, SetError, FreeError, StoreError, ReplyRead, ReplyError, fsVars
  <2>2. ~Fetched(t)'
    <3>0. \A from, to : Step(t, from, to) => pc'[t] = to
      BY DEF Step, HeapInv, HeapTypeOK
    <3>1. CASE \E p \in Path : Getattr(t, p) \/ Readdir(t, p) \/ Open(t, p)
      BY <3>0, <3>1 DEF Getattr, Readdir, GetCall, Open, Fetched, Adding
    <3>2. CASE (\E h \in Handle, n \in 1..MaxRead : Read(t, h, n)) \/ Received(t)
      BY <3>0, <3>2 DEF Read, Received, Fetched, Adding
    <3>3. CASE Refused(t) \/ Unreachable(t) \/ Unreadable(t)
      BY <3>0, <3>3 DEF Refused, Unreachable, Unreadable, Fetched, Adding
    <3>4. CASE SetError(t)
      BY <3>0, <3>4 DEF SetError, FreeError, StoreError, Fetched, Adding
    <3>5. CASE ReplyRead(t) \/ ReplyError(t)
      BY <3>0, <3>5 DEF ReplyRead, ReplyError, Fetched, Adding
    <3> QED BY <1>4, <3>1, <3>2, <3>3, <3>4, <3>5
  <2> QED BY <1>1, <2>1, <2>2 DEF VersionsInv, Newer, Holds
<1>5. CASE \E h \in Handle : Release(t, h)
  <2>1. PICK h \in Handle : Release(t, h)
    BY <1>5
  <2>2. /\ UNCHANGED <<table, entry, service, seen>>
        /\ \A b \in Payload : payload'[b] \in {payload[b], FREED}
        /\ pc'[t] = "idle"
    BY <2>1 DEF Release, Step, HeapInv, HeapTypeOK
  <2> QED BY <1>1, <2>2, HoldsNoMore DEF Fetched, Adding, Holds, VersionsInv
<1>6. CASE Destroy
  <2>1. /\ UNCHANGED <<service, seen>>
        /\ \A b \in Payload : payload'[b] \in {payload[b], FREED}
        /\ \A k \in Key : table'[k] = NULL
        /\ pc'[t] = "idle"
    BY <1>6 DEF Destroy, CacheFree, fsVars
  <2> QED BY <1>1, <2>1, HoldsNoMore DEF Fetched, Adding, Holds
<1>7. CASE \E p \in Path : RemoteWrite(p)
  <2>1. seen' = seen
    BY <1>7 DEF RemoteWrite
  <2>2. \A s \in Thread : Fetched(s) =>
          loc[s].key \in Key /\ loc[s].ptr \in Payload
    BY DEF Fetched, HeapInv, CallbackLocals, LocalsSet, Adding
  <2> QED BY <1>1, <1>7, <2>1, <2>2, RemoteWriteVersions
<1>8. CASE OutOfMemory(t) \/ Fault(t) \/ TimePasses \/ Stopped \/ UNCHANGED vars
  <2>1. UNCHANGED <<table, entry, payload, pc, loc, service, seen>>
    BY <1>8 DEF OutOfMemory, Fault, TimePasses, ClockMoves, Stopped, Ended, cacheVars, fsVars,
       vars
  <2> QED BY <1>1, <2>1 DEF VersionsInv, Newer, Fetched, Holds, Adding
<1>9. CASE NextPage(t)
  <2>1. /\ UNCHANGED <<table, entry, payload, loc, service, seen>>
        /\ pc[t] = "paging" /\ pc'[t] \in {"paging", "fetched"}
    BY <1>9 DEF NextPage, Step, HeapInv, HeapTypeOK, fsVars
  <2> QED BY <1>1, <2>1 DEF VersionsInv, Newer, Fetched, Holds, Adding
<1> QED BY <1>9, <1>0, <1>2, <1>3, <1>4, <1>5, <1>6, <1>7, <1>8 DEF Next, Request, Serve

\* Mounted with -s, what getattr and readdir report of a path is never older
\* than what they reported before, for any lifespan, any wall clock and any
\* writes to the service.  What makes it so is that an object in the cache
\* is at least as new as the last reply made from it.
THEOREM SerialNeverOlder == Serial /\ WordFits => (Spec => NeverOlder)
<1> SUFFICES ASSUME Serial, WordFits PROVE Spec => NeverOlder
  OBVIOUS
<1>1. OneThread /\ \E t : t \in Thread
  BY DEF Serial, OneThread
<1>2. Init => VersionsInv
  BY DEF Init, CacheInit, VersionsInv, Fetched, Holds, Adding
<1>3. HeapInv /\ FSInv /\ SerialFSInv /\ VersionsInv /\ [Next]_vars => VersionsInv' /\ NotOlder
  BY <1>1, StepsKeepVersions DEF SerialFSInv
<1>4. NotOlder => [\A k \in Key : seen[k] # NULL => seen'[k] >= seen[k]]_vars
  BY DEF NotOlder
<1>5. Spec => []SerialFSInv
  BY SerialFSInvariant
<1>6. Spec => []FSInv
  BY FSInvariant
<1> QED BY <1>2, <1>3, <1>4, <1>5, <1>6, HeapInvariant, PTL DEF Spec, NeverOlder

-----------------------------------------------------------------------------
(* Reads: one up to the end of a file returns all of it.                   *)

\* What a handle's meta says of its file is no newer than the file.
MetasNoNewer ==
  \A h \in Handle :
    fh[h] # FREED /\ payload[fh[h].meta] # FREED =>
      payload[fh[h].meta] <= service[fh[h].path]

\* The answer a read needs: the bytes asked for, up to the end of a file of
\* that length.
UpToEnd(length, r) == IF length - r.offset < r.size THEN length - r.offset ELSE r.size

\* A read asks for what mossofs_read works out from its handle's meta; one
\* that is answered, of a file that has not changed, has all of it.
AsksFor(t) ==
  pc[t] = "reading" =>
    LET handle == fh[rd[t].handle] IN
    /\ rd[t].size \in 1..MaxRead
    /\ payload[handle.meta] # FREED
    /\ rd[t].want = BytesToRead(Size[payload[handle.meta]], rd[t].offset, rd[t].size)

Has(t) ==
  pc[t] = "read" =>
    LET handle == fh[rd[t].handle] IN
    /\ rd[t].handle \in Handle /\ handle # FREED
    /\ payload[handle.meta] = service[handle.path] =>
         rd[t].got = UpToEnd(Size[payload[handle.meta]], rd[t])

ReadsInv == MetasNoNewer /\ \A t \in Thread : AsksFor(t) /\ Has(t)

\* BytesToRead is 0 at the end of the file only, and before it all that is
\* left; the last byte asked for is then within the file.
LEMMA AllThatIsLeft ==
  ASSUME NEW length \in Nat, NEW offset \in Nat, NEW n \in 1..MaxRead,
         length <= Word \div 2, offset < Word \div 2, MaxRead <= Word \div 2,
         NEW want, want = BytesToRead(length, offset, n)
  PROVE  /\ want = 0 => length = offset
         /\ offset <= length => want <= n
         /\ offset < length =>
              /\ want = IF length - offset < n THEN length - offset ELSE n
              /\ (offset + want - 1) % Word < length
<1>0. n \in Nat /\ Word \in Nat /\ Word > 0 /\ n >= 1 /\ n <= MaxRead /\ MaxRead \in Nat
  BY MossoFSAssumption
<1>h. PICK half \in Nat : half = Word \div 2 /\ 2 * half <= Word /\ Word <= 2 * half + 1
  BY WordHalf
<1>1. offset + n < Word
  BY <1>0, <1>h
<1>2. (offset + n) % Word = offset + n
  BY <1>0, <1>1, ModSmall
<1>3. CASE length >= offset + n
  <2>1. want = n
    BY <1>0, <1>2, <1>3 DEF BytesToRead
  <2>2. (offset + want - 1) % Word = offset + n - 1
    BY <1>0, <1>1, <2>1, ModSmall
  <2>3. length - offset >= n /\ offset + n - 1 < length
    BY <1>0, <1>3
  <2> QED BY <1>0, <2>1, <2>2, <2>3
<1>4. CASE length < offset + n /\ offset <= length
  <2>1. length - offset \in Nat /\ length - offset < Word /\ length - offset < n
    BY <1>0, <1>1, <1>4
  <2>2. want = length - offset
    BY <1>0, <1>2, <1>4, <2>1, ModSmall DEF BytesToRead
  <2>3. offset < length => (offset + want - 1) % Word = length - 1
    <3> SUFFICES ASSUME offset < length PROVE (offset + want - 1) % Word = length - 1
      OBVIOUS
    <3>1. offset + want - 1 = length - 1 /\ length - 1 \in Int /\ 0 <= length - 1
          /\ length - 1 < Word
      BY <1>0, <1>h, <2>2
    <3> QED BY <3>1, ModSmall
  <2> QED BY <1>0, <1>4, <2>1, <2>2, <2>3
<1>5. CASE length < offset
  <2>1. length - offset \in Int /\ -Word <= length - offset /\ length - offset < 0
    BY <1>0, <1>h, <1>5
  <2>2. (length - offset) % Word = length - offset + Word
    BY <2>1, ModNegative
  <2>3. want = length - offset + Word
    BY <1>0, <1>2, <1>5, <2>2 DEF BytesToRead
  <2>4. want > 0
    BY <1>0, <1>h, <1>5, <2>3
  <2> QED BY <1>0, <1>5, <2>4
<1> QED BY <1>0, <1>3, <1>4, <1>5

\* The meta of an open handle is in memory and says what is there.
LEMMA MetaThere ==
  ASSUME WordFits, HeapInv, FSInv, ObjectsInv, NEW h \in Handle, fh[h] # FREED
  PROVE  /\ fh[h].meta \in Payload /\ fh[h].path \in Path
         /\ payload[fh[h].meta] # FREED /\ payload[fh[h].meta] \in Data
         /\ Size[payload[fh[h].meta]] \in Nat
         /\ Size[payload[fh[h].meta]] <= Word \div 2
<1>1. fh[h].meta \in Payload /\ fh[h].path \in Path
  BY DEF FSInv, CallbacksTyped
<1>2. payload[fh[h].meta] # FREED
  BY <1>1 DEF ObjectsInv, AllOwned, Owned, HandleOwns
<1>3. payload[fh[h].meta] \in Data /\ Size[payload[fh[h].meta]] # NULL
  BY <1>1, <1>2 DEF HeapInv, HeapTypeOK, FSInv, Existing
<1> QED BY <1>1, <1>2, <1>3, MossoFSAssumption DEF WordFits

\* Handles keep to their files.
LEMMA StepsKeepMetas ==
  ASSUME OneThread, WordFits, HeapInv, FSInv, ObjectsInv, MetasNoNewer, NEW t \in Thread,
         [Next]_vars
  PROVE  MetasNoNewer'
<1> USE OnlyThread
<1>0. Data \subseteq Int /\ \A p \in Path : service[p] \in Data
  BY Numbers
<1>1. CASE Fetch(t)
  <2>1. PICK b \in Payload : /\ payload[b] = FREED
                             /\ payload' = [payload EXCEPT ![b] = service[loc[t].key[2]]]
                             /\ fh' = fh /\ service' = service
    BY <1>1 DEF Fetch, fsVars
  <2>2. \A h \in Handle : fh[h] # FREED => fh[h].meta # b /\ fh[h].meta \in Payload
    BY <2>1, MetaThere
  <2>3. \A h \in Handle : fh[h] # FREED => payload'[fh[h].meta] = payload[fh[h].meta]
    BY <2>1, <2>2 DEF HeapInv, HeapTypeOK
  <2> QED BY <2>1, <2>3 DEF MetasNoNewer
<1>2. CASE Opened(t)
  <2>1. PICK b \in Payload, g \in Handle, p \in Path :
          /\ payload[b] = FREED /\ fh[g] = FREED
          /\ payload' = [payload EXCEPT ![b] = service[p]]
          /\ fh' = [fh EXCEPT ![g] = [path |-> p, meta |-> b]]
          /\ service' = service
    BY <1>2, KeysHavePaths DEF Opened, Step, HeapInv, CallbackLocals
  <2>2. \A h \in Handle : fh[h] # FREED => fh[h].meta # b /\ fh[h].meta \in Payload
    BY <2>1, MetaThere
  <2>3. \A h \in Handle \ {g} : /\ fh'[h] = fh[h]
                                /\ fh[h] # FREED => payload'[fh[h].meta] = payload[fh[h].meta]
    BY <2>1, <2>2 DEF HeapInv, HeapTypeOK, FSInv, CallbacksTyped
  <2>4. /\ fh'[g].path = p /\ fh'[g].meta = b /\ payload'[b] = service[p]
        /\ service[p] <= service[p]
    <3>1. fh'[g] = [path |-> p, meta |-> b]
      BY <2>1 DEF FSInv, CallbacksTyped
    <3>2. payload'[b] = service[p]
      BY <2>1 DEF HeapInv, HeapTypeOK
    <3>3. service[p] \in Int
      BY <1>0
    <3> QED BY <3>1, <3>2, <3>3
  <2>5. ASSUME NEW h \in Handle \ {g}, fh'[h] # FREED, payload'[fh'[h].meta] # FREED
        PROVE  payload'[fh'[h].meta] <= service'[fh'[h].path]
    BY <2>1, <2>3, <2>5 DEF MetasNoNewer
  <2>6. payload'[fh'[g].meta] <= service'[fh'[g].path]
    BY <2>1, <2>4
  <2> QED BY <2>5, <2>6 DEF MetasNoNewer
<1>3. CASE \E p \in Path : RemoteWrite(p)
  <2>1. /\ fh' = fh /\ payload' = payload
        /\ \A q \in Path : service'[q] \in Int /\ service[q] <= service'[q]
    <3>1. PICK p \in Path : service' = [service EXCEPT ![p] = @ + 1]
      BY <1>3 DEF RemoteWrite
    <3>2. \A q \in Path : service[q] \in Int
      BY <1>0
    <3>3. \A q \in Path : service'[q] = IF q = p THEN service[q] + 1 ELSE service[q]
      BY <3>1 DEF HeapInv, ServiceTyped
    <3> QED BY <1>3, <3>2, <3>3 DEF RemoteWrite, cacheVars
  <2>2. ASSUME NEW h \in Handle, fh[h] # FREED
        PROVE  payload[fh[h].meta] <= service'[fh[h].path]
    <3>1. payload[fh[h].meta] \in Int /\ fh[h].path \in Path /\ payload[fh[h].meta] # FREED
      BY <1>0, <2>2, MetaThere
    <3>2. payload[fh[h].meta] <= service[fh[h].path]
      BY <2>2, <3>1 DEF MetasNoNewer
    <3>3. service[fh[h].path] \in Int /\ service'[fh[h].path] \in Int
          /\ service[fh[h].path] <= service'[fh[h].path]
      BY <1>0, <2>1, <3>1
    <3> QED BY <3>1, <3>2, <3>3
  <2> QED BY <2>1, <2>2 DEF MetasNoNewer
<1>4. ASSUME /\ service' = service
             /\ \A b \in Payload : payload'[b] \in {payload[b], FREED}
             /\ \A h \in Handle : fh'[h] \in {fh[h], FREED}
      PROVE  MetasNoNewer'
  <2>1. ASSUME NEW h \in Handle, fh'[h] # FREED, payload'[fh'[h].meta] # FREED
        PROVE  payload'[fh'[h].meta] <= service'[fh'[h].path]
    <3>1. fh'[h] = fh[h] /\ fh[h] # FREED /\ fh[h].meta \in Payload
      BY <1>4, <2>1, MetaThere
    <3> QED BY <1>4, <2>1, <3>1 DEF MetasNoNewer
  <2> QED BY <2>1 DEF MetasNoNewer
<1>5. CASE CacheStep(t)
  <2>1. service' = service /\ fh' = fh
    BY <1>5 DEF CacheStep, fsVars
  <2>2. \A b \in Payload : payload'[b] \in {payload[b], FREED}
    BY <1>5 DEF CacheStep, GetLookup, GetFresh, GetStale, GetFree, GetRemove, AddLookup, AddFree,
       AddReplace, FreePayload, RemoveEntry, HeapInv, HeapTypeOK
  <2> QED BY <1>4, <2>1, <2>2
<1>6. CASE NextPage(t) \/ Store(t) \/ Received(t) \/ Refused(t) \/ Unreachable(t)
           \/ Unreadable(t) \/ SetError(t) \/ Reply(t) \/ ReplyRead(t) \/ ReplyError(t) \/ OutOfMemory(t) \/ Fault(t)
  <2>1. UNCHANGED <<service, fh, payload>>
    BY <1>6 DEF NextPage, Store, Received, Refused, Unreachable, Unreadable, SetError,
       FreeError, StoreError, Reply, Return, ReplyRead, ReplyError, OutOfMemory, Fault, fsVars
  <2> QED BY <1>4, <2>1
<1>7. CASE Request(t)
  <2>1. /\ service' = service
        /\ \A b \in Payload : payload'[b] \in {payload[b], FREED}
        /\ \A h \in Handle : fh'[h] \in {fh[h], FREED}
    <3>1. CASE \E h \in Handle : Release(t, h)
      BY <3>1 DEF Release, HeapInv, HeapTypeOK, FSInv, CallbacksTyped
    <3>2. CASE ~\E h \in Handle : Release(t, h)
      BY <1>7, <3>2 DEF Request, Getattr, Readdir, GetCall, Open, Read, fsVars
    <3> QED BY <3>1, <3>2
  <2> QED BY <1>4, <2>1
<1>8. CASE Destroy \/ TimePasses \/ Stopped \/ UNCHANGED vars
  <2>1. /\ service' = service /\ fh' = fh
        /\ \A b \in Payload : payload'[b] \in {payload[b], FREED}
    BY <1>8 DEF Destroy, CacheFree, TimePasses, ClockMoves, Stopped, Ended, cacheVars, fsVars, vars
  <2> QED BY <1>4, <2>1
<1> QED BY <1>1, <1>2, <1>3, <1>5, <1>6, <1>7, <1>8 DEF Next, Serve

LEMMA ReadAsks ==
  ASSUME OneThread, WordFits, HeapInv, FSInv, ObjectsInv, NEW t \in Thread, NEW h \in Handle,
         NEW n \in 1..MaxRead, Read(t, h, n)
  PROVE  AsksFor(t)' /\ Has(t)'
<1> DEFINE length == Size[payload[fh[h].meta]]
<1>1. PICK offset \in 0..(Size[seen[<<"meta", fh[h].path>>]] - 1) :
        LET want == BytesToRead(length, offset, n) IN
        /\ Step(t, "idle", IF want = 0 THEN "read" ELSE "reading")
        /\ rd' = [rd EXCEPT ![t] = [handle |-> h, offset |-> offset, size |-> n,
                                    want |-> want, got |-> 0]]
  BY DEF Read
<1> DEFINE want == BytesToRead(length, offset, n)
<1>2. fh[h] # FREED /\ UNCHANGED <<payload, service, fh>>
  BY DEF Read
<1>3. length \in Nat /\ length <= Word \div 2 /\ payload[fh[h].meta] # FREED
  BY <1>2, MetaThere
<1>4. offset \in Nat /\ offset < Word \div 2
  <2>1. /\ <<"meta", fh[h].path>> \in Key /\ seen[<<"meta", fh[h].path>>] # NULL
    BY <1>2 DEF FSInv, Existing
  <2>2. /\ Size[seen[<<"meta", fh[h].path>>]] \in Nat
        /\ Size[seen[<<"meta", fh[h].path>>]] <= Word \div 2
    BY <2>1, MossoFSAssumption DEF FSInv, Existing, CallbacksTyped, WordFits
  <2> QED BY <2>2, WordHalf
<1>5. /\ rd'[t].handle = h /\ rd'[t].offset = offset /\ rd'[t].size = n
      /\ rd'[t].want = want /\ rd'[t].got = 0
      /\ pc'[t] = IF want = 0 THEN "read" ELSE "reading"
  BY <1>1 DEF Step, FSInv, CallbacksTyped
<1> HIDE DEF length, want
<1>6. AsksFor(t)'
  BY <1>2, <1>3, <1>5 DEF AsksFor, want, length
<1>7. pc'[t] = "read" => 0 = UpToEnd(length, rd'[t])
  <2>1. pc'[t] = "read" => want = 0
    BY <1>5
  <2>2. want = 0 => length = offset
    BY <1>3, <1>4, AllThatIsLeft DEF WordFits, want
  <2>3. n \in Nat /\ n > 0
    BY MossoFSAssumption
  <2> QED BY <1>3, <1>4, <1>5, <2>1, <2>2, <2>3 DEF UpToEnd
<1>8. Has(t)'
  BY <1>2, <1>5, <1>7 DEF Has, length, UpToEnd
<1> QED BY <1>6, <1>8

LEMMA ReceivedHas ==
  ASSUME WordFits, HeapInv, FSInv, ObjectsInv, NEW t \in Thread, AsksFor(t), Received(t)
  PROVE  AsksFor(t)' /\ Has(t)'
<1> DEFINE r == rd[t]
           file == fh[r.handle]
           length == Size[service[file.path]]
           last == (r.offset + r.want - 1) % Word
<1>1. /\ pc[t] = "reading" /\ pc'[t] = "read"
      /\ r.offset < length
      /\ rd' = [rd EXCEPT ![t].got = IF last < length THEN r.want ELSE length - r.offset]
      /\ UNCHANGED <<payload, service, fh>>
  BY DEF Received, Step, FSInv, CallbacksTyped
<1>2. /\ r \in Reads /\ r.handle \in Handle /\ file # FREED /\ r.offset < Word \div 2
  BY <1>1 DEF FSInv, CallbacksTyped, ReadsHarmless, Reading, Harmless
<1>3. /\ rd'[t].handle = r.handle /\ rd'[t].offset = r.offset /\ rd'[t].size = r.size
      /\ rd'[t].got = IF last < length THEN r.want ELSE length - r.offset
  BY <1>1, <1>2 DEF FSInv, CallbacksTyped, Reads
<1>4. ASSUME payload[file.meta] = service[file.path]
      PROVE  rd'[t].got = UpToEnd(length, r)
  <2>1. length \in Nat /\ length <= Word \div 2
    BY <1>2, <1>4, MetaThere
  <2>2. r.size \in 1..MaxRead /\ r.want = BytesToRead(length, r.offset, r.size)
    BY <1>1, <1>4 DEF AsksFor
  <2>3. r.offset \in Nat
    BY <1>2 DEF Reads
  <2> HIDE DEF r, length
  <2>4. /\ r.want = IF length - r.offset < r.size THEN length - r.offset ELSE r.size
        /\ last < length
    BY <1>1, <1>2, <2>1, <2>2, <2>3, AllThatIsLeft DEF WordFits
  <2> QED BY <1>3, <2>4 DEF UpToEnd
<1>5. Has(t)'
  BY <1>1, <1>2, <1>3, <1>4 DEF Has, UpToEnd
<1>6. AsksFor(t)'
  BY <1>1 DEF AsksFor
<1> QED BY <1>5, <1>6

\* Writing to a file only ever ends its being unchanged.
LEMMA RemoteWriteHas ==
  ASSUME WordFits, HeapInv, FSInv, ObjectsInv, MetasNoNewer, NEW t \in Thread,
         AsksFor(t), Has(t), NEW p \in Path, RemoteWrite(p)
  PROVE  AsksFor(t)' /\ Has(t)'
<1>1. UNCHANGED <<pc, payload, fh, rd>> /\ service' = [service EXCEPT ![p] = @ + 1]
  BY DEF RemoteWrite, cacheVars
<1>2. AsksFor(t)'
  BY <1>1 DEF AsksFor
<1>3. Has(t)'
  <2> DEFINE file == fh[rd[t].handle]
  <2> SUFFICES ASSUME pc[t] = "read"
               PROVE  payload[file.meta] = service'[file.path] =>
                        payload[file.meta] = service[file.path]
    BY <1>1 DEF Has
  <2>1. rd[t].handle \in Handle /\ file # FREED
    BY DEF Has
  <2>2. /\ file.path \in Path /\ payload[file.meta] \in Data
        /\ payload[file.meta] <= service[file.path]
    BY <2>1, MetaThere DEF MetasNoNewer
  <2>3. service[file.path] \in Int /\ payload[file.meta] \in Int
    BY <2>2, Numbers
  <2>4. service'[file.path] = IF file.path = p THEN service[file.path] + 1 ELSE service[file.path]
    BY <1>1, <2>2 DEF HeapInv, ServiceTyped
  <2> QED BY <2>2, <2>3, <2>4
<1> QED BY <1>2, <1>3

\* How the thread comes to read, or goes on reading.
LEMMA ReadSteps ==
  ASSUME OneThread, HeapInv, FSInv, NEW t \in Thread, [Next]_vars
  PROVE  \/ pc'[t] \notin {"reading", "read"}
         \/ \E h \in Handle, n \in 1..MaxRead : Read(t, h, n)
         \/ Received(t)
         \/ \E p \in Path : RemoteWrite(p)
         \/ UNCHANGED <<pc, payload, service, fh, rd>>
<1> USE OnlyThread
<1>0. \A from, to : Step(t, from, to) => pc'[t] = to
  BY DEF Step, HeapInv, HeapTypeOK
<1>1. CASE CacheStep(t)
  BY <1>0, <1>1 DEF CacheStep, GetLookup, GetFresh, GetStale, GetFree, GetRemove, AddLookup,
     AddFree, AddReplace, FreePayload, RemoveEntry
<1>2. CASE Fetch(t) \/ NextPage(t) \/ Store(t) \/ Opened(t)
  BY <1>0, <1>2 DEF Fetch, NextPage, Store, Opened
<1>3. CASE Refused(t) \/ Unreachable(t) \/ Unreadable(t) \/ SetError(t)
  BY <1>0, <1>3 DEF Refused, Unreachable, Unreadable, SetError, FreeError, StoreError
<1>4. CASE Reply(t) \/ ReplyRead(t) \/ ReplyError(t)
  BY <1>0, <1>4 DEF Reply, Return, ReplyRead, ReplyError, HeapInv, HeapTypeOK
<1>5. CASE Request(t)
  BY <1>0, <1>5 DEF Request, Getattr, Readdir, GetCall, Open, Release
<1>6. CASE Destroy
  BY <1>6 DEF Destroy, CacheFree
<1>7. CASE OutOfMemory(t) \/ Fault(t) \/ TimePasses \/ Stopped \/ UNCHANGED vars
  BY <1>7 DEF OutOfMemory, Fault, TimePasses, ClockMoves, Stopped, Ended, cacheVars, fsVars, vars
<1> QED BY <1>1, <1>2, <1>3, <1>4, <1>5, <1>6, <1>7 DEF Next, Serve

LEMMA StepsKeepReads ==
  ASSUME OneThread, WordFits, HeapInv, FSInv, ObjectsInv, ReadsInv, NEW t \in Thread, [Next]_vars
  PROVE  ReadsInv'
<1> USE OnlyThread
<1>0. AsksFor(t) /\ Has(t) /\ MetasNoNewer
  BY DEF ReadsInv
<1>1. MetasNoNewer'
  BY <1>0, StepsKeepMetas
<1>2. AsksFor(t)' /\ Has(t)'
  <2>1. CASE pc'[t] \notin {"reading", "read"}
    BY <2>1 DEF AsksFor, Has
  <2>2. CASE \E h \in Handle, n \in 1..MaxRead : Read(t, h, n)
    BY <2>2, ReadAsks
  <2>3. CASE Received(t)
    BY <1>0, <2>3, ReceivedHas
  <2>4. CASE \E p \in Path : RemoteWrite(p)
    BY <1>0, <2>4, RemoteWriteHas
  <2>5. CASE UNCHANGED <<pc, payload, service, fh, rd>>
    BY <1>0, <2>5 DEF AsksFor, Has
  <2> QED BY <2>1, <2>2, <2>3, <2>4, <2>5, ReadSteps
<1> QED BY <1>1, <1>2 DEF ReadsInv

\* Mounted with -s, a read of a file that has not changed since it was opened
\* returns the bytes asked for up to its end, for any length, any offset in
\* it, any word its sizes fit into and any request size, though the length is
\* worked out in unsigned arithmetic from a meta that may be out of date.
THEOREM SerialReadsComplete == Serial /\ WordFits => (Spec => []ReadsComplete)
<1> SUFFICES ASSUME Serial, WordFits PROVE Spec => []ReadsComplete
  OBVIOUS
<1>0. OneThread /\ \E t : t \in Thread
  BY DEF Serial, OneThread
<1>1. Init => ReadsInv
  BY DEF Init, CacheInit, ReadsInv, MetasNoNewer, AsksFor, Has
<1>2. HeapInv /\ FSInv /\ SerialFSInv /\ ReadsInv /\ [Next]_vars => ReadsInv'
  BY <1>0, StepsKeepReads DEF SerialFSInv
<1>3. ReadsInv => ReadsComplete
  BY DEF ReadsInv, Has, UpToEnd, ReadsComplete
<1>4. Spec => []SerialFSInv
  BY SerialFSInvariant
<1>5. Spec => []FSInv
  BY FSInvariant
<1> QED BY <1>1, <1>2, <1>3, <1>4, <1>5, HeapInvariant, PTL DEF Spec

\* The length a read asks for fits the buffer it was given, unless it begins
\* behind the end of the file.
BuffersSuffice ==
  \A t \in Thread :
    pc[t] = "reading" /\ rd[t].offset <= Size[payload[fh[rd[t].handle].meta]] =>
      rd[t].want <= rd[t].size

\* Mounted with -s, the length mossofs_read works out wraps around, and the
\* buffer is too small for it, only where the read begins behind the end of the
\* file as it was opened: where another request has told the kernel of a longer
\* one.
THEOREM SerialBuffersSuffice == Serial /\ WordFits => (Spec => []BuffersSuffice)
<1> SUFFICES ASSUME Serial, WordFits PROVE Spec => []BuffersSuffice
  OBVIOUS
<1>0. OneThread /\ \E t : t \in Thread
  BY DEF Serial, OneThread
<1>1. Init => ReadsInv
  BY DEF Init, CacheInit, ReadsInv, MetasNoNewer, AsksFor, Has
<1>2. HeapInv /\ FSInv /\ SerialFSInv /\ ReadsInv /\ [Next]_vars => ReadsInv'
  BY <1>0, StepsKeepReads DEF SerialFSInv
<1>3. HeapInv /\ FSInv /\ SerialFSInv /\ ReadsInv => BuffersSuffice
  <2> SUFFICES ASSUME HeapInv, FSInv, SerialFSInv, ReadsInv,
                      NEW t \in Thread, pc[t] = "reading",
                      rd[t].offset <= Size[payload[fh[rd[t].handle].meta]]
               PROVE  rd[t].want <= rd[t].size
    BY DEF BuffersSuffice
  <2> DEFINE r == rd[t]
             length == Size[payload[fh[r.handle].meta]]
  <2>1. /\ r \in Reads /\ r.handle \in Handle /\ fh[r.handle] # FREED
        /\ r.offset < Word \div 2
    BY DEF FSInv, CallbacksTyped, ReadsHarmless, Reading, Harmless
  <2>2. length \in Nat /\ length <= Word \div 2
    BY <2>1, MetaThere DEF SerialFSInv
  <2>3. r.size \in 1..MaxRead /\ r.want = BytesToRead(length, r.offset, r.size)
    BY DEF ReadsInv, AsksFor
  <2>4. r.offset \in Nat /\ r.offset <= length
    BY <2>1 DEF Reads
  <2> HIDE DEF r, length
  <2>5. r.want <= r.size
    BY <2>1, <2>2, <2>3, <2>4, AllThatIsLeft DEF WordFits
  <2> QED BY <2>5 DEF r
<1>4. Spec => []SerialFSInv
  BY SerialFSInvariant
<1>5. Spec => []FSInv
  BY FSInvariant
<1> QED BY <1>1, <1>2, <1>3, <1>4, <1>5, HeapInvariant, PTL DEF Spec
=============================================================================
