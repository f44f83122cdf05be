--------------------------- MODULE MossoFSProofs ----------------------------
(***************************************************************************)
(* Proofs about the filesystem, for every number of threads, paths, blocks *)
(* and handles, every history of every file, and every word size.          *)
(*                                                                         *)
(* The lemmas of CacheProofs about single steps speak of the cache calls a *)
(* callback makes; what is left is what a callback does between them.      *)
(***************************************************************************)
EXTENDS MossoFS, CacheProofs

\* What a callback has noted when it comes out of the cache, or opens a file.
CallbackLocals ==
  \A t \in Thread :
    /\ pc[t] \in {"miss", "paging", "fetched", "opening", "hit", "added"}
         => loc[t].key \in Key
    /\ pc[t] \in {"paging", "fetched", "hit", "added"} => loc[t].ptr \in Payload

ServiceTyped == service \in [Path -> Data]

HeapInv == HeapTypeOK /\ LocalsSet /\ CallbackLocals /\ ServiceTyped /\ EntriesManaged

\* Where a thread is when no cache call of its is in progress.
Outside ==
  {"idle", "hit", "miss", "added", "paging", "fetched", "opening", "reading",
   "read", "unreadable", "curl_free", "curl_store", "mosso_free", "mosso_store", "error"}

-----------------------------------------------------------------------------
(* The entries of the cache, for any number of threads.                    *)

LEMMA KeysHavePaths == \A k \in Key : k[2] \in Path
BY MossoFSAssumption

\* A step of a callback that calls nothing of the cache.
LEMMA OutsideTheCache ==
  ASSUME HeapInv, NEW t \in Thread, NEW from \in Outside, NEW to \in Outside,
         Step(t, from, to),
         UNCHANGED <<clock, table, entry, service>>,
         payload' \in [Payload -> Data \cup {FREED}],
         loc' \in [Thread -> Locals],
         \A s \in Thread \ {t} : loc'[s] = loc[s],
         to \in {"miss", "paging", "fetched", "opening", "hit", "added"}
           => loc'[t].key \in Key,
         to \in {"paging", "fetched", "hit", "added"} => loc'[t].ptr \in Payload
  PROVE  HeapInv'
<1> USE DEF HeapInv
<1>1. pc'[t] = to /\ pc[t] = from /\ \A s \in Thread \ {t} : pc'[s] = pc[s]
  BY DEF Step, HeapTypeOK
<1>2. HeapTypeOK'
  BY DEF HeapTypeOK, Step
<1>3. LocalsSet'
  BY <1>1 DEF LocalsSet, Adding, Outside
<1>4. CallbackLocals'
  BY <1>1 DEF CallbackLocals
<1>5. EntriesManaged'
  <2>1. \A s \in Thread : /\ Adding(s)' <=> Adding(s)
                          /\ Adding(s) => loc'[s].new = loc[s].new
    BY <1>1 DEF Adding, Outside
  <2> QED BY <2>1, EntriesUntouched
<1> QED BY <1>2, <1>3, <1>4, <1>5 DEF ServiceTyped

\* A step that neither a thread nor the heap takes part in.
LEMMA HeapUntouched ==
  ASSUME HeapInv, UNCHANGED <<clock, table, entry, payload, pc, loc>>, ServiceTyped'
  PROVE  HeapInv'
<1> USE DEF HeapInv
<1>1. EntriesManaged'
  BY EntriesUntouched DEF Adding
<1> QED BY <1>1 DEF HeapTypeOK, LocalsSet, Adding, CallbackLocals

LEMMA LookupsKeepHeap ==
  ASSUME HeapInv, NEW t \in Thread, NEW k \in Key, GetCall(t, k), UNCHANGED fsVars
  PROVE  HeapInv'
<1> USE DEF HeapInv
<1>1. HeapTypeOK' /\ LocalsSet'
  BY CallsTyped, CallsSetLocals
<1>2. CallbackLocals' /\ ServiceTyped'
  BY DEF GetCall, Step, HeapTypeOK, CallbackLocals, ServiceTyped, fsVars
<1>3. EntriesManaged'
  <2>1. /\ UNCHANGED <<table, entry>>
        /\ \A s \in Thread : /\ Adding(s)' <=> Adding(s)
                             /\ Adding(s) => loc'[s].new = loc[s].new
    BY DEF GetCall, Step, HeapTypeOK, Adding
  <2> QED BY <2>1, EntriesUntouched
<1> QED BY <1>1, <1>2, <1>3

LEMMA CacheStepsKeepHeap ==
  ASSUME HeapInv, NEW t \in Thread, CacheStep(t)
  PROVE  HeapInv'
<1> USE DEF HeapInv
<1>0. ThreadStep(t) /\ service' = service
  BY DEF CacheStep, ThreadStep, fsVars
<1>1. HeapTypeOK' /\ LocalsSet' /\ EntriesManaged'
  BY <1>0, StepsTyped, StepsKeepLocals, StepsManageEntries
<1>2. CallbackLocals'
  <2>1. CASE GetLookup(t) \/ AddLookup(t)
    BY <2>1 DEF GetLookup, AddLookup, Step, HeapTypeOK, LocalsSet, CallbackLocals, Locals
  <2>2. CASE GetFresh(t)
    <3>1. loc[t].found \in Entry /\ loc[t].key \in Key
      BY <2>2 DEF GetFresh, Step, LocalsSet
    <3>2. entry[loc[t].found].ptr \in Payload
      BY <2>2, <3>1 DEF GetFresh, HeapTypeOK
    <3> QED BY <2>2, <3>1, <3>2 DEF GetFresh, Step, HeapTypeOK, CallbackLocals, Locals
  <2>3. CASE GetStale(t)
    BY <2>3 DEF GetStale, Step, HeapTypeOK, CallbackLocals
  <2>4. CASE GetFree(t) \/ AddFree(t)
    BY <2>4 DEF GetFree, AddFree, FreePayload, Step, HeapTypeOK, CallbackLocals
  <2>5. CASE GetRemove(t)
    BY <2>5 DEF GetRemove, RemoveEntry, Step, HeapTypeOK, LocalsSet, CallbackLocals
  <2>6. CASE AddReplace(t)
    BY <2>6 DEF AddReplace, Step, HeapTypeOK, LocalsSet, Adding, CallbackLocals
  <2> QED BY <2>1, <2>2, <2>3, <2>4, <2>5, <2>6 DEF CacheStep
<1> QED BY <1>0, <1>1, <1>2 DEF ServiceTyped

LEMMA StoreKeepsHeap ==
  ASSUME HeapInv, NEW t \in Thread, Store(t)
  PROVE  HeapInv'
<1> USE DEF HeapInv
<1> DEFINE k == loc[t].key
           p == loc[t].ptr
<1>1. Step(t, "fetched", "add_lookup") /\ AddCall(t, k, p)
      /\ UNCHANGED <<payload, clock, table, service>>
  BY DEF Store, AddCall, fsVars
<1>2. k \in Key /\ p \in Payload
  BY <1>1 DEF Step, CallbackLocals
<1>3. entry' \in [Entry -> [timestamp : 0..MaxClock, ptr : Payload] \cup {FREED}]
      /\ loc' \in [Thread -> Locals]
  BY <1>1, <1>2, AddCallTyped
<1>4. ~Adding(t) /\ Adding(t)' /\ \A s \in Thread \ {t} : pc'[s] = pc[s]
  BY <1>1 DEF Step, HeapTypeOK, Adding
<1>5. EntriesManaged'
  BY <1>1, <1>2, <1>4, AddCallEntries
<1>6. HeapTypeOK'
  BY <1>1, <1>3 DEF HeapTypeOK, Step
<1>7. PICK e \in Entry :
        loc' = [loc EXCEPT ![t] = [NoLocals EXCEPT !.key = k, !.new = e, !.ptr = p]]
  BY <1>1 DEF AddCall
<1>8. loc'[t].key = k /\ loc'[t].new = e /\ loc'[t].ptr = p /\ pc'[t] = "add_lookup"
  BY <1>1, <1>7 DEF HeapTypeOK, Step, NoLocals
<1>9. \A s \in Thread \ {t} : loc'[s] = loc[s] /\ pc'[s] = pc[s]
  BY <1>1, <1>7 DEF HeapTypeOK, Step
<1>10. LocalsSet' /\ CallbackLocals'
  BY <1>2, <1>8, <1>9 DEF LocalsSet, CallbackLocals, Adding
<1> QED BY <1>1, <1>5, <1>6, <1>10 DEF ServiceTyped

\* A new object is the version the service has.
LEMMA FetchKeepsHeap ==
  ASSUME HeapInv, NEW t \in Thread, Fetch(t)
  PROVE  HeapInv'
<1>1. PICK b \in Payload, to \in {"paging", "fetched"} :
        /\ Step(t, "miss", to)
        /\ payload' = [payload EXCEPT ![b] = service[loc[t].key[2]]]
        /\ loc' = [loc EXCEPT ![t].ptr = b]
        /\ UNCHANGED <<clock, table, entry, service>>
  BY DEF Fetch, fsVars
<1>2. loc[t].key \in Key /\ service[loc[t].key[2]] \in Data
  BY <1>1, KeysHavePaths DEF HeapInv, CallbackLocals, ServiceTyped, Step
<1>3. /\ payload' \in [Payload -> Data \cup {FREED}]
      /\ loc' \in [Thread -> Locals]
      /\ loc'[t].key = loc[t].key /\ loc'[t].ptr = b
      /\ \A s \in Thread \ {t} : loc'[s] = loc[s]
  BY <1>1, <1>2 DEF HeapInv, HeapTypeOK, Locals
<1> QED BY <1>1, <1>2, <1>3, OutsideTheCache DEF Outside

LEMMA PagesKeepHeap ==
  ASSUME HeapInv, NEW t \in Thread, NextPage(t)
  PROVE  HeapInv'
<1>1. PICK to \in {"paging", "fetched"} :
        /\ Step(t, "paging", to)
        /\ UNCHANGED <<clock, table, entry, payload, loc, service>>
  BY DEF NextPage, fsVars
<1>2. loc[t].key \in Key /\ loc[t].ptr \in Payload
  BY <1>1 DEF HeapInv, CallbackLocals, Step
<1> QED BY <1>1, <1>2, OutsideTheCache DEF Outside, HeapInv, HeapTypeOK

LEMMA ReplyKeepsHeap ==
  ASSUME HeapInv, NEW t \in Thread, Reply(t)
  PROVE  HeapInv'
<1>0. PICK from \in {"hit", "added"} : Step(t, from, "idle")
  BY DEF Reply, Return, Step
<1>1. loc' = [loc EXCEPT ![t] = NoLocals] /\ UNCHANGED <<clock, table, entry, payload, service>>
  BY DEF Reply, Return
<1>2. /\ payload' \in [Payload -> Data \cup {FREED}]
      /\ loc' \in [Thread -> Locals]
      /\ \A s \in Thread \ {t} : loc'[s] = loc[s]
  BY <1>1, NoLocalsTyped DEF HeapInv, HeapTypeOK
<1> QED BY <1>0, <1>1, <1>2, OutsideTheCache DEF Outside

LEMMA HandlesKeepHeap ==
  ASSUME HeapInv, NEW t \in Thread,
         \/ \E p \in Path : Open(t, p)
         \/ Opened(t)
         \/ \E h \in Handle : Release(t, h)
  PROVE  HeapInv'
<1>1. ASSUME NEW p \in Path, Open(t, p) PROVE HeapInv'
  <2>1. /\ Step(t, "idle", "opening")
        /\ <<"meta", p>> \in Key
        /\ loc' = [loc EXCEPT ![t] = [NoLocals EXCEPT !.key = <<"meta", p>>]]
        /\ UNCHANGED <<clock, table, entry, payload, service>>
    BY <1>1 DEF Open, fsVars
  <2>2. [NoLocals EXCEPT !.key = <<"meta", p>>] \in Locals
    BY <2>1, NoLocalsTyped DEF NoLocals, Locals
  <2>3. /\ payload' \in [Payload -> Data \cup {FREED}]
        /\ loc' \in [Thread -> Locals]
        /\ loc'[t].key = <<"meta", p>>
        /\ \A s \in Thread \ {t} : loc'[s] = loc[s]
    BY <2>1, <2>2 DEF HeapInv, HeapTypeOK, NoLocals
  <2> QED BY <2>1, <2>3, OutsideTheCache DEF Outside
<1>2. CASE Opened(t)
  <2>1. PICK b \in Payload :
          /\ Step(t, "opening", "idle")
          /\ payload' = [payload EXCEPT ![b] = service[loc[t].key[2]]]
          /\ loc' = [loc EXCEPT ![t] = NoLocals]
          /\ UNCHANGED <<clock, table, entry, service>>
    BY <1>2 DEF Opened
  <2>2. service[loc[t].key[2]] \in Data
    BY <2>1, KeysHavePaths DEF HeapInv, CallbackLocals, ServiceTyped, Step
  <2>3. /\ payload' \in [Payload -> Data \cup {FREED}]
        /\ loc' \in [Thread -> Locals]
        /\ \A s \in Thread \ {t} : loc'[s] = loc[s]
    BY <2>1, <2>2, NoLocalsTyped DEF HeapInv, HeapTypeOK
  <2> QED BY <2>1, <2>3, OutsideTheCache DEF Outside
<1>3. ASSUME NEW h \in Handle, Release(t, h) PROVE HeapInv'
  <2>1. /\ Step(t, "idle", "idle")
        /\ payload' \in [Payload -> Data \cup {FREED}]
        /\ UNCHANGED <<clock, table, entry, loc, service>>
    BY <1>3 DEF Release, HeapInv, HeapTypeOK
  <2> QED BY <2>1, OutsideTheCache DEF Outside, HeapInv, HeapTypeOK
<1> QED BY <1>1, <1>2, <1>3

\* Reads and failures do not touch the heap.
LEMMA ReadsKeepHeap ==
  ASSUME HeapInv, NEW t \in Thread,
         \/ \E h \in Handle, n \in 1..MaxRead : Read(t, h, n)
         \/ Received(t) \/ ReplyRead(t)
         \/ Refused(t) \/ Unreachable(t) \/ Unreadable(t)
         \/ SetError(t) \/ ReplyError(t)
  PROVE  HeapInv'
<1>1. CASE ReplyError(t)
  <2>1. /\ Step(t, "error", "idle")
        /\ loc' = [loc EXCEPT ![t] = NoLocals]
        /\ UNCHANGED <<clock, table, entry, payload, service>>
    BY <1>1 DEF ReplyError
  <2>2. /\ loc' \in [Thread -> Locals]
        /\ \A s \in Thread \ {t} : loc'[s] = loc[s]
    BY <2>1, NoLocalsTyped DEF HeapInv, HeapTypeOK
  <2> QED BY <2>1, <2>2, OutsideTheCache DEF Outside, HeapInv, HeapTypeOK
<1>2. CASE Refused(t)
  <2>1. /\ Step(t, pc[t], "mosso_free") /\ pc[t] \in Outside
        /\ loc' = [loc EXCEPT ![t].ptr = NULL]
        /\ UNCHANGED <<clock, table, entry, payload, service>>
    BY <1>2 DEF Refused, Requesting, Outside
  <2>2. /\ loc' \in [Thread -> Locals]
        /\ \A s \in Thread \ {t} : loc'[s] = loc[s]
    BY <2>1 DEF HeapInv, HeapTypeOK, Locals
  <2> QED BY <2>1, <2>2, OutsideTheCache DEF Outside, HeapInv, HeapTypeOK
<1>3. CASE ~ReplyError(t) /\ ~Refused(t)
  <2>1. PICK from \in {"idle", "miss", "paging", "opening", "reading", "read",
                       "curl_free", "curl_store", "mosso_free", "mosso_store"},
             to \in {"idle", "reading", "read", "unreadable",
                     "curl_free", "curl_store", "mosso_free", "mosso_store", "error"} :
          /\ Step(t, from, to)
          /\ UNCHANGED <<clock, table, entry, payload, loc, service>>
    <3>1. CASE \E h \in Handle, n \in 1..MaxRead : Read(t, h, n)
      BY <3>1 DEF Read
    <3>2. CASE Received(t) \/ ReplyRead(t)
      BY <3>2 DEF Received, ReplyRead
    <3>3. CASE Unreachable(t) \/ Unreadable(t)
      BY <3>3 DEF Unreachable, Unreadable, Requesting, fsVars
    <3>4. CASE SetError(t)
      BY <3>4 DEF SetError, FreeError, StoreError
    <3> QED BY <1>3, <3>1, <3>2, <3>3, <3>4
  <2> QED BY <2>1, OutsideTheCache, ZenonT(60) DEF Outside, HeapInv, HeapTypeOK
<1> QED BY <1>1, <1>2, <1>3

LEMMA EndsKeepHeap ==
  ASSUME HeapInv,
         \/ \E t \in Thread : OutOfMemory(t) \/ Fault(t)
         \/ \E p \in Path : RemoteWrite(p)
         \/ Destroy \/ TimePasses \/ Stopped \/ UNCHANGED vars
  PROVE  HeapInv'
<1> USE DEF HeapInv
<1>1. CASE (\E t \in Thread : OutOfMemory(t) \/ Fault(t)) \/ Stopped \/ UNCHANGED vars
  <2>1. UNCHANGED <<clock, table, entry, payload, pc, loc, service>>
    BY <1>1 DEF OutOfMemory, Fault, Stopped, Ended, cacheVars, fsVars, vars
  <2> QED BY <2>1, HeapUntouched DEF ServiceTyped
<1>2. CASE \E p \in Path : RemoteWrite(p)
  <2>1. PICK p \in Path : RemoteWrite(p)
    BY <1>2
  <2>2. service' \in [Path -> Data]
    BY <2>1, MossoFSAssumption DEF RemoteWrite, ServiceTyped
  <2>3. UNCHANGED <<clock, table, entry, payload, pc, loc>>
    BY <2>1 DEF RemoteWrite, cacheVars
  <2> QED BY <2>2, <2>3, HeapUntouched DEF ServiceTyped
<1>3. CASE Destroy
  <2>1. HeapTypeOK' /\ LocalsSet' /\ EntriesManaged'
    BY <1>3, CacheFreeTyped, CacheFreeEntries DEF Destroy
  <2>2. UNCHANGED <<pc, loc, service>>
    BY <1>3 DEF Destroy, CacheFree, fsVars
  <2> QED BY <2>1, <2>2 DEF CallbackLocals, ServiceTyped
<1>4. CASE TimePasses
  <2>1. HeapTypeOK' /\ LocalsSet'
    BY <1>4, ClockMovesTyped DEF TimePasses
  <2>2. UNCHANGED <<table, entry, pc, loc, service>>
    BY <1>4 DEF TimePasses, ClockMoves, fsVars
  <2>3. EntriesManaged'
    BY <2>2, EntriesUntouched DEF Adding
  <2> QED BY <2>1, <2>2, <2>3 DEF CallbackLocals, ServiceTyped
<1> QED BY <1>1, <1>2, <1>3, <1>4

LEMMA HeapInvariant == Spec => []HeapInv
<1>1. Init => HeapInv
  <2> SUFFICES ASSUME Init PROVE HeapInv
    OBVIOUS
  <2>1. HeapTypeOK /\ LocalsSet
    BY CacheAssumption, NoLocalsTyped DEF Init, CacheInit, HeapTypeOK, LocalsSet, Adding
  <2>2. EntriesManaged
    BY DEF Init, CacheInit, EntriesManaged, BucketsAllocated, BucketsDistinct, NewAllocated,
       NewDistinct, NoEntryLost, Adding
  <2>3. CallbackLocals /\ ServiceTyped
    BY MossoFSAssumption DEF Init, CacheInit, CallbackLocals, ServiceTyped
  <2> QED BY <2>1, <2>2, <2>3 DEF HeapInv
<1>2. HeapInv /\ [Next]_vars => HeapInv'
  <2> SUFFICES ASSUME HeapInv, [Next]_vars PROVE HeapInv'
    OBVIOUS
  <2>1. ASSUME NEW t \in Thread, Request(t) PROVE HeapInv'
    BY <2>1, LookupsKeepHeap, HandlesKeepHeap, ReadsKeepHeap DEF Request, Getattr, Readdir
  <2>2. ASSUME NEW t \in Thread, Serve(t) PROVE HeapInv'
    BY <2>2, CacheStepsKeepHeap, FetchKeepsHeap, PagesKeepHeap, StoreKeepsHeap,
       HandlesKeepHeap, ReadsKeepHeap, ReplyKeepsHeap, EndsKeepHeap DEF Serve
  <2> QED BY <2>1, <2>2, EndsKeepHeap DEF Next
<1> QED BY <1>1, <1>2, PTL DEF Spec

\* Whatever number of workers run the callbacks, fail and expire what they
\* cache, the entries of the cache are managed without error: mossofs.c adds
\* nothing to the cache that could upset it.
THEOREM CallbacksKeepEntries == Spec => []EntriesManaged
<1>1. HeapInv => EntriesManaged
  BY DEF HeapInv
<1> QED BY <1>1, HeapInvariant, PTL

-----------------------------------------------------------------------------
(* Types, and what a read returns, for every word size the sizes fit into. *)

\* Lengths are those of off_t, half a word; a read is no longer.
WordFits ==
  /\ MaxRead <= Word \div 2
  /\ \A v \in Data : Size[v] # NULL => Size[v] <= Word \div 2

Reads ==
  [handle : Handle \cup {NULL}, offset : Nat, size : 0..MaxRead,
   want : 0..(Word - 1), got : Nat]

CallbacksTyped ==
  /\ pc \in [Thread -> States]
  /\ status \in {"running", "unmounted", "exited", "undefined"}
  /\ seen \in [Key -> Data \cup {NULL}]
  /\ fh \in [Handle -> [path : Path, meta : Payload] \cup {FREED}]
  /\ rd \in [Thread -> Reads]
  /\ errors \in [{"curl", "mosso"} -> {"null", "live", "freed"}]
  /\ lost \subseteq Payload

\* What is in memory, and what the kernel has been told of, exists; the
\* kernel has been told of whatever is open.
Existing ==
  /\ \A b \in Payload : payload[b] # FREED => Size[payload[b]] # NULL
  /\ \A k \in Key : seen[k] # NULL => Size[seen[k]] # NULL
  /\ \A h \in Handle : fh[h] # FREED => /\ <<"meta", fh[h].path>> \in Key
                                        /\ seen[<<"meta", fh[h].path>>] # NULL

Opening ==
  \A t \in Thread : pc[t] = "opening" =>
    /\ <<"meta", loc[t].key[2]>> \in Key
    /\ seen[<<"meta", loc[t].key[2]>>] # NULL

\* A read in progress asks for no more than the buffer holds, or for a range
\* no service answers.
Harmless(r) ==
  LET last == (r.offset + r.want - 1) % Word
  IN  /\ r.offset < Word \div 2
      /\ r.want <= r.size \/ ~(r.offset <= last /\ last < Word \div 2)

Reading(t) ==
  pc[t] = "reading" => /\ rd[t].handle \in Handle
                       /\ fh[rd[t].handle] # FREED
                       /\ Harmless(rd[t])

ReadsHarmless == \A t \in Thread : Reading(t) /\ rd[t].got <= rd[t].size

FSInv == CallbacksTyped /\ Existing /\ Opening /\ ReadsHarmless

LEMMA WordHalf ==
  /\ Word \div 2 \in Nat
  /\ 2 * (Word \div 2) <= Word
  /\ Word <= 2 * (Word \div 2) + 1
BY MossoFSAssumption

LEMMA ModSmall ==
  ASSUME NEW a \in Int, 0 <= a, a < Word
  PROVE  a % Word = a
BY MossoFSAssumption

LEMMA ModNegative ==
  ASSUME NEW a \in Int, -Word <= a, a < 0
  PROVE  a % Word = a + Word
BY MossoFSAssumption, SMTT(30)

LEMMA ModOver ==
  ASSUME NEW a \in Int, Word <= a, a < 2 * Word
  PROVE  a % Word = a - Word
BY MossoFSAssumption, SMTT(30)

\* The length mossofs_read asks for is within the buffer, or, when the file
\* is now shorter than the offset, one that makes the range malformed.
LEMMA LengthHarmless ==
  ASSUME NEW length \in Nat, NEW offset \in Nat, NEW n \in 1..MaxRead,
         length <= Word \div 2, offset < Word \div 2, MaxRead <= Word \div 2,
         NEW want, want = BytesToRead(length, offset, n),
         NEW last, last = (offset + want - 1) % Word
  PROVE  /\ want \in 0..(Word - 1)
         /\ want <= n \/ ~(offset <= last /\ last < Word \div 2)
<1>0. n \in Nat /\ Word \in Nat /\ Word > 0 /\ n >= 1 /\ n <= MaxRead /\ MaxRead \in Nat
  BY MossoFSAssumption
<1>h. PICK half \in Nat : half = Word \div 2 /\ 2 * half <= Word /\ Word <= 2 * half + 1
  BY WordHalf
<1>1. offset + n < Word
  BY <1>0, <1>h
<1>2. (offset + n) % Word = offset + n
  BY <1>0, <1>1, ModSmall
<1>3. CASE length >= offset + n
  BY <1>0, <1>1, <1>2, <1>3 DEF BytesToRead
<1>4. CASE length < offset + n /\ offset <= length
  <2>1. length - offset \in Nat /\ length - offset < Word
    BY <1>0, <1>1, <1>4
  <2>2. (length - offset) % Word = length - offset
    BY <2>1, ModSmall
  <2>3. want = length - offset
    BY <1>0, <1>2, <1>4, <2>2 DEF BytesToRead
  <2> QED BY <1>0, <1>4, <2>1, <2>3
<1>5. CASE length < offset
  <2>1. length - offset \in Int /\ -Word <= length - offset /\ length - offset < 0
    BY <1>0, <1>h, <1>5
  <2>2. (length - offset) % Word = length - offset + Word
    BY <2>1, ModNegative
  <2>3. want = length - offset + Word
    BY <1>0, <1>2, <1>5, <2>2 DEF BytesToRead
  <2>4. want \in 0..(Word - 1)
    BY <1>0, <1>5, <2>1, <2>3
  <2>5. offset + want - 1 = length + Word - 1
    BY <1>0, <2>3
  <2>6. CASE length = 0
    <3>1. last = (Word - 1) % Word
      BY <1>0, <2>5, <2>6
    <3>2. last = Word - 1
      BY <1>0, <3>1, ModSmall
    <3>3. Word > 1
      BY <1>0, <1>h
    <3> QED BY <1>0, <1>h, <2>4, <3>2, <3>3
  <2>7. CASE length > 0
    <3>1. last = (length + Word - 1) % Word
      BY <2>5
    <3>2. length + Word - 1 \in Int /\ Word <= length + Word - 1 /\ length + Word - 1 < 2 * Word
      BY <1>0, <1>h, <2>7
    <3>3. last = length - 1
      BY <1>0, <3>1, <3>2, ModOver
    <3> QED BY <1>0, <1>5, <2>4, <3>3
  <2> QED BY <2>6, <2>7
<1> QED BY <1>0, <1>3, <1>4, <1>5

\* A service that answers a harmless range sends no more than fits.
LEMMA ReceivedFits ==
  ASSUME MaxRead <= Word \div 2, NEW r \in Reads, Harmless(r), NEW length \in Nat,
         NEW last, last = (r.offset + r.want - 1) % Word,
         r.offset < length, r.offset <= last, last < Word \div 2,
         NEW got, got = IF last < length THEN r.want ELSE length - r.offset
  PROVE  got \in Nat /\ got <= r.size
<1> DEFINE offset == r.offset
           want == r.want
           size == r.size
<1>0. /\ offset \in Nat /\ want \in Nat /\ size \in Nat /\ size <= MaxRead
      /\ Word \in Nat /\ Word > 0 /\ MaxRead \in Nat
  BY MossoFSAssumption DEF Reads
<1>1. want <= size /\ offset < Word \div 2
  BY DEF Harmless
<1>h. PICK half \in Nat : half = Word \div 2 /\ 2 * half <= Word /\ Word <= 2 * half + 1
  BY WordHalf
<1>2. CASE want = 0 /\ offset = 0
  BY <1>0, <1>1, <1>2, ModNegative
<1>3. CASE want > 0 \/ offset > 0
  <2>1. offset + want - 1 \in Int /\ 0 <= offset + want - 1 /\ offset + want - 1 < Word
    BY <1>0, <1>1, <1>3, <1>h
  <2>2. last = offset + want - 1
    BY <2>1, ModSmall
  <2> HIDE DEF offset, want, size
  <2>3. CASE last < length
    BY <1>0, <1>1, <2>3 DEF want, size
  <2>4. CASE ~(last < length)
    <3>1. got = length - offset /\ offset < length
      BY <2>4 DEF offset
    <3>2. length - offset <= want - 1 /\ length - offset \in Nat
      BY <1>0, <2>2, <2>4, <3>1
    <3> QED BY <1>0, <1>1, <3>1, <3>2 DEF size
  <2> QED BY <2>3, <2>4
<1> QED BY <1>0, <1>2, <1>3

\* A step after which the thread is neither opening nor reading, and which
\* takes nothing from the others.
LEMMA OthersUndisturbed ==
  ASSUME HeapInv, FSInv, NEW t \in Thread, NEW from, NEW to \in States \ {"opening", "reading"},
         Step(t, from, to),
         \A s \in Thread \ {t} : loc'[s] = loc[s] /\ rd'[s] = rd[s],
         rd' \in [Thread -> Reads], rd'[t].got <= rd'[t].size,
         \A s \in Thread : pc[s] = "reading" /\ s # t => fh'[rd[s].handle] = fh[rd[s].handle],
         \A k \in Key : seen[k] # NULL => seen'[k] # NULL,
         CallbacksTyped', Existing'
  PROVE  FSInv'
<1>1. pc'[t] = to /\ \A s \in Thread \ {t} : pc'[s] = pc[s]
  BY DEF Step, FSInv, CallbacksTyped
<1>2. Opening'
  BY <1>1 DEF FSInv, Opening
<1>3. ReadsHarmless'
  <2>1. ASSUME NEW s \in Thread \ {t} PROVE Reading(s)' /\ rd'[s].got <= rd'[s].size
    BY <1>1, <2>1 DEF FSInv, ReadsHarmless, Reading
  <2>2. Reading(t)' /\ rd'[t].got <= rd'[t].size
    BY <1>1 DEF Reading
  <2> QED BY <2>1, <2>2 DEF ReadsHarmless
<1> QED BY <1>2, <1>3 DEF FSInv

\* The same of a step that leaves the callbacks' own state alone and at most
\* frees objects.
LEMMA ObjectsFreedAtMost ==
  ASSUME HeapInv, FSInv, NEW t \in Thread, NEW from, NEW to \in States \ {"opening", "reading"},
         Step(t, from, to), status' = status,
         \A s \in Thread \ {t} : loc'[s] = loc[s],
         \A b \in Payload : payload'[b] \in {payload[b], FREED},
         UNCHANGED <<seen, fh, rd>>,
         errors' \in [{"curl", "mosso"} -> {"null", "live", "freed"}],
         lost' \subseteq Payload
  PROVE  FSInv'
<1>1. CallbacksTyped'
  BY DEF FSInv, CallbacksTyped, Step
<1>2. Existing'
  BY DEF FSInv, Existing
<1>3. rd'[t].got <= rd'[t].size
  BY DEF FSInv, ReadsHarmless
<1> QED BY <1>1, <1>2, <1>3, OthersUndisturbed DEF FSInv, CallbacksTyped

LEMMA CacheCallsKeepFS ==
  ASSUME HeapInv, FSInv, NEW t \in Thread,
         \/ \E k \in Key : GetCall(t, k) /\ UNCHANGED fsVars
         \/ CacheStep(t)
         \/ Store(t)
  PROVE  FSInv'
<1> DEFINE Goes(to) ==
      /\ to \in States \ {"opening", "reading"}
      /\ Step(t, pc[t], to)
      /\ status' = status
      /\ \A s \in Thread \ {t} : loc'[s] = loc[s]
      /\ \A b \in Payload : payload'[b] \in {payload[b], FREED}
<1>1. \E to : Goes(to)
  <2>1. CASE \E k \in Key : GetCall(t, k) /\ UNCHANGED fsVars
    <3>1. Goes("get_lookup")
      BY <2>1 DEF GetCall, Step, States, CacheStates, HeapInv, HeapTypeOK
    <3> QED BY <3>1
  <2>2. CASE Store(t)
    <3>1. Goes("add_lookup")
      BY <2>2 DEF Store, AddCall, Step, States, CacheStates, HeapInv, HeapTypeOK
    <3> QED BY <3>1
  <2>3. CASE GetLookup(t) \/ GetFresh(t) \/ GetStale(t) \/ AddLookup(t)
    <3>1. \E to \in {"miss", "get_check", "hit", "get_free", "add_replace", "add_free"} : Goes(to)
      BY <2>3 DEF GetLookup, GetFresh, GetStale, AddLookup, Step, States, CacheStates,
        HeapInv, HeapTypeOK
    <3> QED BY <3>1
  <2>4. CASE GetFree(t) \/ AddFree(t)
    <3>1. \E to \in {"get_remove", "add_replace"} : Goes(to)
      BY <2>4 DEF GetFree, AddFree, FreePayload, Step, States, CacheStates, HeapInv, HeapTypeOK
    <3> QED BY <3>1
  <2>5. CASE GetRemove(t) \/ AddReplace(t)
    <3>1. \E to \in {"miss", "added"} : Goes(to)
      BY <2>5 DEF GetRemove, RemoveEntry, AddReplace, Step, States, CacheStates, HeapInv, HeapTypeOK
    <3> QED BY <3>1
  <2> QED BY <2>1, <2>2, <2>3, <2>4, <2>5 DEF CacheStep
<1>2. UNCHANGED <<seen, fh, rd, errors, lost>>
  BY DEF CacheStep, Store, fsVars
<1> QED BY <1>1, <1>2, ObjectsFreedAtMost DEF FSInv, CallbacksTyped

LEMMA ErrorsKeepFS ==
  ASSUME HeapInv, FSInv, NEW t \in Thread,
         Refused(t) \/ Unreachable(t) \/ Unreadable(t) \/ SetError(t)
  PROVE  FSInv'
<1>1. PICK to \in {"unreadable", "curl_free", "curl_store", "mosso_free", "mosso_store",
                   "error"} :
        /\ Step(t, pc[t], to)
        /\ UNCHANGED <<payload, status, seen, fh, rd>>
        /\ \A s \in Thread \ {t} : loc'[s] = loc[s]
        /\ errors' \in [{"curl", "mosso"} -> {"null", "live", "freed"}]
        /\ lost' \subseteq Payload
  <2>1. CASE Refused(t)
    <3>1. loc[t].ptr \in Payload \cup {NULL}
      BY DEF HeapInv, HeapTypeOK, Locals
    <3> QED BY <2>1, <3>1 DEF Refused, Step, FSInv, CallbacksTyped, HeapInv, HeapTypeOK
  <2>2. CASE Unreachable(t) \/ Unreadable(t)
    BY <2>2 DEF Unreachable, Unreadable, Step, fsVars, FSInv, CallbacksTyped
  <2>3. CASE SetError(t)
    BY <2>3 DEF SetError, FreeError, StoreError, Step, FSInv, CallbacksTyped
  <2> QED BY <2>1, <2>2, <2>3
<1>2. to \in States \ {"opening", "reading"}
  BY DEF States
<1> QED BY <1>1, <1>2, ObjectsFreedAtMost

LEMMA NoReadTyped == NoRead \in Reads /\ NoRead.got <= NoRead.size
BY MossoFSAssumption DEF NoRead, Reads

LEMMA RepliesKeepFS ==
  ASSUME HeapInv, FSInv, NEW t \in Thread, ReplyRead(t) \/ ReplyError(t)
  PROVE  FSInv'
<1>1. PICK from \in {"read", "error"} :
        /\ Step(t, from, "idle")
        /\ rd' = [rd EXCEPT ![t] = NoRead]
        /\ \A s \in Thread \ {t} : loc'[s] = loc[s]
        /\ UNCHANGED <<payload, status, seen, fh, errors, lost>>
  BY DEF ReplyRead, ReplyError, HeapInv, HeapTypeOK
<1>2. /\ rd' \in [Thread -> Reads]
      /\ rd'[t].got <= rd'[t].size
      /\ \A s \in Thread \ {t} : rd'[s] = rd[s]
  BY <1>1, NoReadTyped DEF FSInv, CallbacksTyped
<1>3. CallbacksTyped'
  BY <1>1, <1>2 DEF FSInv, CallbacksTyped, Step, States, CacheStates
<1>4. Existing'
  BY <1>1 DEF FSInv, Existing
<1>5. "idle" \in States \ {"opening", "reading"}
  BY DEF States, CacheStates
<1> QED BY <1>1, <1>2, <1>3, <1>4, <1>5, OthersUndisturbed

\* What is answered exists, and so does what is told of it.
LEMMA FetchKeepsFS ==
  ASSUME HeapInv, FSInv, NEW t \in Thread, Fetch(t)
  PROVE  FSInv'
<1> DEFINE v == service[loc[t].key[2]]
<1>1. PICK b \in Payload, to \in {"paging", "fetched"} :
        /\ Step(t, "miss", to)
        /\ Size[v] # NULL
        /\ payload' = [payload EXCEPT ![b] = v]
        /\ \A s \in Thread \ {t} : loc'[s] = loc[s]
        /\ UNCHANGED <<status, seen, fh, rd, errors, lost>>
  BY DEF Fetch, Answers, fsVars, HeapInv, HeapTypeOK
<1>2. Existing'
  BY <1>1 DEF FSInv, Existing, HeapInv, HeapTypeOK
<1>3. CallbacksTyped'
  BY <1>1 DEF FSInv, CallbacksTyped, Step, States
<1>4. rd'[t].got <= rd'[t].size /\ rd' \in [Thread -> Reads]
  BY <1>1 DEF FSInv, ReadsHarmless, CallbacksTyped
<1>5. to \in States \ {"opening", "reading"}
  BY DEF States
<1> QED BY <1>1, <1>2, <1>3, <1>4, <1>5, OthersUndisturbed

LEMMA PagesKeepFS ==
  ASSUME HeapInv, FSInv, NEW t \in Thread, NextPage(t)
  PROVE  FSInv'
<1>1. PICK to \in {"paging", "fetched"} : Step(t, "paging", to)
  BY DEF NextPage
<1>2. to \in States \ {"opening", "reading"}
  BY DEF States
<1> QED BY <1>1, <1>2, ObjectsFreedAtMost DEF NextPage, fsVars, FSInv, CallbacksTyped

LEMMA ReplyKeepsFS ==
  ASSUME HeapInv, FSInv, NEW t \in Thread, Reply(t)
  PROVE  FSInv'
<1> DEFINE k == loc[t].key
           v == payload[loc[t].ptr]
<1>0. PICK from \in {"hit", "added"} : Step(t, from, "idle")
  BY DEF Reply, Return, Step
<1>1. k \in Key /\ loc[t].ptr \in Payload
  BY <1>0 DEF Step, HeapInv, CallbackLocals
<1>2. v \in Data /\ Size[v] # NULL /\ v # NULL
  <2>1. v # FREED
    BY <1>0 DEF Reply, Return, Dangling, Step
  <2> QED BY <1>1, <2>1, MossoFSAssumption DEF FSInv, Existing, HeapInv, HeapTypeOK
<1>3. /\ seen' = [seen EXCEPT ![k] = v]
      /\ \A s \in Thread \ {t} : loc'[s] = loc[s]
      /\ UNCHANGED <<payload, status, fh, rd, errors, lost>>
  BY DEF Reply, Return, HeapInv, HeapTypeOK
<1>4. \A j \in Key : seen'[j] = IF j = k THEN v ELSE seen[j]
  BY <1>3 DEF FSInv, CallbacksTyped
<1>5. Existing'
  BY <1>2, <1>3, <1>4 DEF FSInv, Existing
<1>6. CallbacksTyped'
  BY <1>0, <1>1, <1>2, <1>3 DEF FSInv, CallbacksTyped, Step, States, CacheStates
<1>7. rd'[t].got <= rd'[t].size /\ rd' \in [Thread -> Reads]
  BY <1>3 DEF FSInv, ReadsHarmless, CallbacksTyped
<1>8. "idle" \in States \ {"opening", "reading"}
  BY DEF States, CacheStates
<1> QED BY <1>0, <1>2, <1>3, <1>4, <1>5, <1>6, <1>7, <1>8, OthersUndisturbed

\* A file that is opened has been looked up; releasing it does not take the
\* handle from a read.
LEMMA HandlesKeepFS ==
  ASSUME HeapInv, FSInv, NEW t \in Thread,
         \/ \E p \in Path : Open(t, p)
         \/ Opened(t)
         \/ \E h \in Handle : Release(t, h)
  PROVE  FSInv'
<1>0. "idle" \in States \ {"opening", "reading"} /\ "opening" \in States
  BY DEF States, CacheStates
<1>1. ASSUME NEW p \in Path, Open(t, p) PROVE FSInv'
  <2>1. /\ Step(t, "idle", "opening")
        /\ <<"meta", p>> \in Key /\ seen[<<"meta", p>>] # NULL
        /\ loc' = [loc EXCEPT ![t] = [NoLocals EXCEPT !.key = <<"meta", p>>]]
        /\ UNCHANGED <<payload, status, seen, fh, rd, errors, lost>>
    BY <1>1 DEF Open, fsVars
  <2>2. loc'[t].key[2] = p /\ \A s \in Thread \ {t} : loc'[s] = loc[s]
    BY <2>1 DEF HeapInv, HeapTypeOK, NoLocals
  <2>3. pc'[t] = "opening" /\ \A s \in Thread \ {t} : pc'[s] = pc[s]
    BY <2>1 DEF Step, FSInv, CallbacksTyped
  <2>4. CallbacksTyped' /\ Existing'
    BY <1>0, <2>1 DEF FSInv, CallbacksTyped, Existing, Step
  <2>5. Opening'
    BY <2>1, <2>2, <2>3 DEF FSInv, Opening
  <2>6. ReadsHarmless'
    BY <2>1, <2>3 DEF FSInv, ReadsHarmless, Reading
  <2> QED BY <2>4, <2>5, <2>6 DEF FSInv
<1>2. CASE Opened(t)
  <2> DEFINE p == loc[t].key[2]
             v == service[p]
  <2>1. PICK b \in Payload, h \in Handle :
          /\ Step(t, "opening", "idle")
          /\ Size[v] # NULL
          /\ fh[h] = FREED
          /\ payload' = [payload EXCEPT ![b] = v]
          /\ fh' = [fh EXCEPT ![h] = [path |-> p, meta |-> b]]
          /\ \A s \in Thread \ {t} : loc'[s] = loc[s]
          /\ UNCHANGED <<status, seen, rd, errors, lost>>
    BY <1>2 DEF Opened, Answers, HeapInv, HeapTypeOK
  <2>2. p \in Path /\ <<"meta", p>> \in Key /\ seen[<<"meta", p>>] # NULL
    BY <2>1, KeysHavePaths DEF Step, HeapInv, CallbackLocals, FSInv, Opening
  <2>3. \A g \in Handle : fh'[g] = IF g = h THEN [path |-> p, meta |-> b] ELSE fh[g]
    BY <2>1 DEF FSInv, CallbacksTyped
  <2>4. CallbacksTyped'
    BY <1>0, <2>1, <2>2 DEF FSInv, CallbacksTyped, Step
  <2>5. Existing'
    BY <2>1, <2>2, <2>3 DEF FSInv, Existing, HeapInv, HeapTypeOK
  <2>6. \A s \in Thread : pc[s] = "reading" /\ s # t => fh'[rd[s].handle] = fh[rd[s].handle]
    BY <2>1, <2>3 DEF FSInv, ReadsHarmless, Reading
  <2>7. rd'[t].got <= rd'[t].size /\ rd' \in [Thread -> Reads]
    BY <2>1 DEF FSInv, ReadsHarmless, CallbacksTyped
  <2> QED BY <1>0, <2>1, <2>4, <2>5, <2>6, <2>7, OthersUndisturbed
<1>3. ASSUME NEW h \in Handle, Release(t, h) PROVE FSInv'
  <2>1. /\ Step(t, "idle", "idle")
        /\ \A s \in Thread : rd[s].handle # h
        /\ \A b \in Payload : payload'[b] \in {payload[b], FREED}
        /\ fh' = [fh EXCEPT ![h] = FREED]
        /\ UNCHANGED <<loc, status, seen, rd, errors, lost>>
    BY <1>3 DEF Release, HeapInv, HeapTypeOK
  <2>2. \A g \in Handle : fh'[g] = IF g = h THEN FREED ELSE fh[g]
    BY <2>1 DEF FSInv, CallbacksTyped
  <2>3. CallbacksTyped' /\ Existing'
    BY <1>0, <2>1, <2>2 DEF FSInv, CallbacksTyped, Existing, Step
  <2>4. \A s \in Thread : pc[s] = "reading" => fh'[rd[s].handle] = fh[rd[s].handle]
    BY <2>1, <2>2 DEF FSInv, ReadsHarmless, Reading
  <2>5. rd'[t].got <= rd'[t].size /\ rd' \in [Thread -> Reads]
    BY <2>1 DEF FSInv, ReadsHarmless, CallbacksTyped
  <2> QED BY <1>0, <2>1, <2>3, <2>4, <2>5, OthersUndisturbed
<1> QED BY <1>1, <1>2, <1>3

\* The three descriptions of a file, in the kernel, in the handle and in the
\* cloud, may differ: the length asked for is harmless all the same.
LEMMA ReadKeepsFS ==
  ASSUME WordFits, HeapInv, FSInv, NEW t \in Thread, NEW h \in Handle,
         NEW n \in 1..MaxRead, Read(t, h, n)
  PROVE  FSInv'
<1> DEFINE known == Size[seen[<<"meta", fh[h].path>>]]
           length == Size[payload[fh[h].meta]]
<1>1. PICK offset \in 0..(known - 1) :
        LET want == BytesToRead(length, offset, n) IN
        /\ Step(t, "idle", IF want = 0 THEN "read" ELSE "reading")
        /\ rd' = [rd EXCEPT ![t] = [handle |-> h, offset |-> offset, size |-> n,
                                    want |-> want, got |-> 0]]
  BY DEF Read
<1> DEFINE want == BytesToRead(length, offset, n)
           r == [handle |-> h, offset |-> offset, size |-> n, want |-> want, got |-> 0]
<1>2. fh[h] # FREED /\ payload[fh[h].meta] # FREED
      /\ UNCHANGED <<payload, loc, status, seen, fh, errors, lost>>
  BY DEF Read
<1>3. known \in Nat /\ known <= Word \div 2
  <2>1. <<"meta", fh[h].path>> \in Key /\ seen[<<"meta", fh[h].path>>] # NULL
    BY <1>2 DEF FSInv, Existing
  <2>2. seen[<<"meta", fh[h].path>>] \in Data /\ known # NULL
    BY <2>1 DEF FSInv, Existing, CallbacksTyped
  <2> QED BY <2>2, MossoFSAssumption DEF WordFits
<1>4. length \in Nat /\ length <= Word \div 2
  <2>1. fh[h].meta \in Payload
    BY <1>2 DEF FSInv, CallbacksTyped
  <2>2. payload[fh[h].meta] \in Data /\ length # NULL
    BY <1>2, <2>1 DEF FSInv, Existing, HeapInv, HeapTypeOK
  <2> QED BY <2>2, MossoFSAssumption DEF WordFits
<1>5. offset \in Nat /\ offset < Word \div 2
  BY <1>3, WordHalf
<1> HIDE DEF known, length
<1>6. Harmless(r) /\ want \in 0..(Word - 1)
  <2>1. /\ want \in 0..(Word - 1)
        /\ LET last == (offset + want - 1) % Word
           IN  want <= n \/ ~(offset <= last /\ last < Word \div 2)
    BY <1>4, <1>5, LengthHarmless DEF WordFits
  <2> QED BY <1>5, <2>1 DEF Harmless
<1> HIDE DEF want
<1>7. r \in Reads /\ r.got <= r.size
  BY <1>5, <1>6, MossoFSAssumption DEF Reads
<1>8. /\ pc'[t] \in {"read", "reading"}
      /\ rd'[t] = r
      /\ \A s \in Thread \ {t} : pc'[s] = pc[s] /\ rd'[s] = rd[s]
      /\ pc' \in [Thread -> States] /\ rd' \in [Thread -> Reads]
  BY <1>1, <1>7 DEF Step, FSInv, CallbacksTyped, States, want, length
<1>9. CallbacksTyped' /\ Existing'
  BY <1>2, <1>8 DEF FSInv, CallbacksTyped, Existing
<1>10. Opening'
  BY <1>2, <1>8 DEF FSInv, Opening
<1>11. ReadsHarmless'
  <2>1. ASSUME NEW s \in Thread \ {t} PROVE Reading(s)' /\ rd'[s].got <= rd'[s].size
    BY <1>2, <1>8, <2>1 DEF FSInv, ReadsHarmless, Reading
  <2>2. Reading(t)' /\ rd'[t].got <= rd'[t].size
    <3>1. Harmless(rd[t])'
      BY <1>6, <1>8 DEF Harmless
    <3> QED BY <1>2, <1>7, <1>8, <3>1 DEF Reading
  <2> QED BY <2>1, <2>2 DEF ReadsHarmless
<1> QED BY <1>9, <1>10, <1>11 DEF FSInv

LEMMA ReceivedKeepsFS ==
  ASSUME WordFits, HeapInv, FSInv, NEW t \in Thread, Received(t)
  PROVE  FSInv'
<1> DEFINE r == rd[t]
           length == Size[service[fh[r.handle].path]]
           last == (r.offset + r.want - 1) % Word
           got == IF last < length THEN r.want ELSE length - r.offset
<1>1. /\ Step(t, "reading", "read")
      /\ length # NULL
      /\ r.offset < length /\ r.offset <= last /\ last < Word \div 2
      /\ rd' = [rd EXCEPT ![t].got = got]
      /\ UNCHANGED <<payload, loc, status, seen, fh, errors, lost>>
  BY DEF Received
<1>2. r \in Reads /\ Harmless(r) /\ fh[r.handle].path \in Path
  BY <1>1 DEF Step, FSInv, CallbacksTyped, ReadsHarmless, Reading
<1>3. length \in Nat
  BY <1>1, <1>2, MossoFSAssumption DEF HeapInv, ServiceTyped
<1>4. got \in Nat /\ got <= r.size
  <2> HIDE DEF r, length
  <2> QED BY <1>1, <1>2, <1>3, ReceivedFits DEF WordFits
<1> HIDE DEF got
<1>5. /\ rd' \in [Thread -> Reads]
      /\ rd'[t].got <= rd'[t].size
      /\ \A s \in Thread \ {t} : rd'[s] = rd[s]
  BY <1>1, <1>2, <1>4 DEF FSInv, CallbacksTyped, Reads
<1>6. CallbacksTyped' /\ Existing'
  BY <1>1, <1>5 DEF FSInv, CallbacksTyped, Existing, Step, States
<1>7. "read" \in States \ {"opening", "reading"}
  BY DEF States
<1> QED BY <1>1, <1>5, <1>6, <1>7, OthersUndisturbed

LEMMA EndsKeepFS ==
  ASSUME FSInv, HeapInv,
         \/ \E t \in Thread : OutOfMemory(t) \/ Fault(t)
         \/ \E p \in Path : RemoteWrite(p)
         \/ Destroy \/ TimePasses \/ Stopped \/ UNCHANGED vars
  PROVE  FSInv'
<1>1. /\ UNCHANGED <<pc, loc, seen, fh, rd, errors, lost>>
      /\ \A b \in Payload : payload'[b] \in {payload[b], FREED}
      /\ status' \in {"running", "unmounted", "exited", "undefined"}
  BY DEF OutOfMemory, Fault, RemoteWrite, Destroy, CacheFree, TimePasses, ClockMoves,
         Stopped, Ended, cacheVars, fsVars, vars, FSInv, CallbacksTyped
<1>2. CallbacksTyped' /\ Existing' /\ Opening'
  BY <1>1 DEF FSInv, CallbacksTyped, Existing, Opening
<1>3. ReadsHarmless'
  BY <1>1 DEF FSInv, ReadsHarmless, Reading
<1> QED BY <1>2, <1>3 DEF FSInv

LEMMA FSInvariant == WordFits => (Spec => []FSInv)
<1> SUFFICES ASSUME WordFits PROVE Spec => []FSInv
  OBVIOUS
<1>1. Init => FSInv
  <2> SUFFICES ASSUME Init PROVE FSInv
    OBVIOUS
  <2>1. CallbacksTyped
    BY NoReadTyped DEF Init, CacheInit, CallbacksTyped, States, CacheStates
  <2>2. Existing /\ Opening
    BY DEF Init, CacheInit, Existing, Opening
  <2>3. ReadsHarmless
    BY NoReadTyped DEF Init, CacheInit, ReadsHarmless, Reading
  <2> QED BY <2>1, <2>2, <2>3 DEF FSInv
<1>2. HeapInv /\ FSInv /\ [Next]_vars => FSInv'
  <2> SUFFICES ASSUME HeapInv, FSInv, [Next]_vars PROVE FSInv'
    OBVIOUS
  <2>1. ASSUME NEW t \in Thread, Request(t) PROVE FSInv'
    BY <2>1, CacheCallsKeepFS, HandlesKeepFS, ReadKeepsFS DEF Request, Getattr, Readdir
  <2>2. ASSUME NEW t \in Thread, Serve(t) PROVE FSInv'
    BY <2>2, CacheCallsKeepFS, FetchKeepsFS, PagesKeepFS, HandlesKeepFS, ReceivedKeepsFS,
       ErrorsKeepFS, ReplyKeepsFS, RepliesKeepFS, EndsKeepFS DEF Serve
  <2> QED BY <2>1, <2>2, EndsKeepFS DEF Next
<1> QED BY <1>1, <1>2, HeapInvariant, PTL DEF Spec

\* The callbacks keep values of their types in their variables, for any
\* number of workers.  In mossofs_read the offset is one the kernel has been
\* told exists, which takes that whatever is open has been looked up.
THEOREM CallbacksTypeCorrect == WordFits => (Spec => []TypeOK)
<1>1. HeapInv /\ FSInv => TypeOK
  BY DEF HeapInv, HeapTypeOK, ServiceTyped, FSInv, CallbacksTyped, TypeOK, Reads
<1> QED BY <1>1, HeapInvariant, FSInvariant, PTL

\* For any number of workers, any history of every file and any word its
\* sizes fit into: mossofs_read never copies more than the kernel's buffer
\* holds, though the length it asks for may wrap around.
THEOREM ReadsFit == WordFits => (Spec => []WithinBuffer)
<1>1. FSInv => WithinBuffer
  BY DEF FSInv, ReadsHarmless, WithinBuffer
<1> QED BY <1>1, FSInvariant, PTL
=============================================================================
