# A formal model of mossofs

mossofs is a read-only FUSE filesystem that shows the contents of a Cloud Files
account. This directory holds TLA+ modules translated from its C source, TLC
configurations that check them on small instances, and proofs for TLAPS. Paths
below are relative to the repository root.

1. The system and its components
2. What is hard about it
3. Modules, and how they correspond to the code
4. The runs, their bounds and their fairness
5. What is proved, and how
6. Where the code and its comments disagree
7. What is not modelled
8. Plan
9. Running the checks

## 1. The system and its components

libfuse calls the callbacks of `src/mossofs.c`; without the mount option `-s` it
does so from several threads. A callback looks in the object cache
(`src/cache.c`), and on a miss asks the storage service through `src/mosso.c`,
which builds a URL and sends one or more requests with `src/simple_curl.c`, a
layer over libcurl. There is not one lock in the program.

| component | state | operations | correct when |
|---|---|---|---|
| object cache, `src/cache.c` | a glib hash table; per key an entry block with a timestamp and a payload pointer | `cache_add_object`, `cache_get_object`, `cache_remove_object`, `cache_free` | it is a map with a lifespan; every entry and payload is freed exactly once; no caller gets a pointer to a freed payload |
| FUSE callbacks, `src/mossofs.c` | per open file a handle with a meta; the connection, which holds the cache | `getattr`, `readdir`, `open`, `read`, `release`, `init`, `destroy` | each object has one owner; `read` stays in the buffer and returns what the file has; reports do not go back in time |
| storage client: metas and reads, `src/mosso.c` | an error string | `mosso_get_object_meta`, `mosso_read_object`, creating and deleting objects | failure leaves an error string; the type, size and time of an object are those the service has |
| storage client: listings, `src/mosso.c` | the list under construction, the marker of the next page | `mosso_list_objects` | the list is the whole directory, once; a failing page leaves nothing behind |
| request paths and URLs, `src/mosso.c`, `src/simple_curl.c` | none | `mosso_construct_request_url`, `simple_curl_urlencode`, container and name of a path | different paths give different resources, and the URL decodes to the path |
| tag and header lists, `src/mosso.c`, `src/simple_curl.c` | linked lists whose nodes point to their `root` | add, replace, get, copy, free | the keys of a list behave as a map; a copy is equal and disjoint |
| HTTP layer, `src/simple_curl.c` | an error string; per request body, header list and libcurl handle | the `simple_curl_request_*` functions, and the callbacks libcurl makes | body and headers are complete and owned by exactly one side, on success and on failure |
| life cycle, `src/mossofs.c`, `src/mosso.c` | options, connection, authentication headers | `main`, `mossofs_parse_opts`, `mosso_init`, `mosso_authenticate`, `mosso_cleanup` | all is freed once; a failed mount says why |
| checked allocation, `src/salloc.c` | none | `smalloc`, `scalloc`, `srealloc` | never returns NULL: the program exits instead |

Build files and packaging have no behaviour at run time.

How they interact: the callbacks and the cache share the payload blocks. The
cache owns them from `cache_add_object` on, yet hands out bare pointers, which
the callback reads after the call has returned. Metas made by `open` never enter
the cache; the handle owns them, so two descriptions of one file, of different
ages, are in use at once. The kernel keeps a third, the size in its inode, which
is the one that decides at which offsets it reads.

## 2. What is hard about it

- *Interleaving.* A cache call looks up, frees by hand and then updates the table.
  Between any two of these, and between the return of the call and the last use of
  its result, another thread can run the same code on the same key.
- *Staleness.* Objects live for five minutes, by a clock that may be set back; the
  service changes meanwhile. The file the kernel believes in, the file in the
  handle and the file in the cloud may be three files.
- *Unsigned arithmetic* over sizes of different ages, in `mossofs_read`.
- *Partial failure.* Any request may be refused or not be transferred at all, when
  the expired object is already gone; a listing takes several requests.
- *Memory.* Everything is freed by hand, by whichever function is the last user.
- *Liveness.* No timeout is set on a transfer.

`PROJECT.json` lists every such hazard at its line, with the property that
covers it or the reason why none does yet.

## 3. Modules, and how they correspond to the code

**`Cache`** is `src/cache.c`. `table` is the hash table, `entry` and `payload` the heap
blocks with their contents, `FREED` that of a block not allocated; `loc[t]` and
`pc[t]` are a thread's locals and where it is. A call is split where it touches
shared memory: `GetCall` (the clock is read), `GetLookup` (`g_hash_table_lookup`),
`GetFresh` / `GetStale` (the lifespan is compared, and the entry's pointer read if it is to be
returned), `GetFree` (the free function is called on the payload), `GetRemove`
(`g_hash_table_remove`, whose value destructor frees the entry); `add` and `remove`
likewise. What one call reads of an entry between two glib calls is one step: if another thread
frees the entry between two of these reads, the same undefined access is found by the step
that comes just after the free. `AddReplace` frees whatever entry the
key has *then*, which need not be the one looked up. Allocation takes any block
that is free, so that addresses are reused. `Dangling` says that the next access is
to a block that is not allocated; `Undefined` then ends the behaviour. The
key string that every call builds is abstracted to the key. A caller in any order
is the module's own environment (`ClientAdds`, `GetCall`, `RemoveCall`, `Return`).

**`TtlCache`** is what the comments of `src/cache.c` promise: a map from keys to the
object last added and when, every operation at once. **`CacheRefinement`** is the
mapping from `Cache` to it. A get reads the clock first and is decided at that
moment, so it takes effect on entry: the mapped store has already lost an
entry that the get in progress is going to drop (`Discards`), and has the one that
an add in progress is going to put in (`Supplies`).

**`MossoFS`** composes `Cache` with the callbacks and the world: `service` is the
version the cloud holds at each path, changed at any time by `RemoteWrite`, and
`Size` gives each version's length, or NULL for a path that has been deleted. `Getattr`
and `Readdir` enter `cache_get_object`; on "miss" `Fetch` is the request that
brings a new payload, `Store` the `cache_add_object` that follows, and
`Reply` the callback's last use of the object. A listing that got a full page
(`PageSize`) sends a request for another, `NextPage`, and each of them may be refused or
not be transferred; the file or directory may change between any two. How many objects a
further page has depends on names, which `Listing` has: here it is any number, so that
the loop need not end. `Open` / `Opened` make a handle,
`Release` frees it, and `Read` / `Received` / `ReplyRead` are `mossofs_read`, with
`BytesToRead` its unsigned length modulo `Word`. `Refused` is any status code the
code does not want, `Unreachable` a failed `curl_easy_perform`, `Unreadable` an
answer without a header that the code uses unasked; what `set_error`
does to the shared strings, free and then store, is `FreeError` and `StoreError` for
each of the two libraries. A listing that is refused on a later page forgets the list it has
built: `lost` remembers such blocks. One whose transfer fails on a later page prints and
frees the body of the page before again: `ReadsFreedBody`. `OutOfMemory` is the exit in `smalloc`, `Destroy` the
unmount. `seen` remembers what the last reply for a key said: the kernel's knowledge.
What the kernel does is modelled from the contract of libfuse: it opens what it has
looked up, reads within the size it knows, and releases a handle once, after its reads.

**`Listing`** is `mosso_list_objects`, one step for each request of its loop. Objects are
ranks in the order of their full names, which is the order in which the service lists
them; `Marker` gives the rank of each object's base name, which is what the code
sends as marker. `AppendPage` is status 200, `NoContent` 204, `Refused` any other,
`Unreachable` a failed transfer, which sets no body: `body` says whether
`response_body` is NULL or points to the freed body of the page before. Others
create and delete objects between any two requests; `stayed` and `occurred` record
what was in the directory throughout and at some time, for the properties. In
`MossoFS` the same loop is `Fetch` and `NextPage` for a key `objects`, without the names.

**`RequestUrl`** holds the conversions as operators: a string is the sequence of its
bytes. `ConstructRequestUrl` is `mosso_construct_request_url` with the container part
and the path parameter (`PathUrl`, `PathParameter`) and the marker (`WithMarker`);
`EncodeChar` is `simple_curl_urlencode` with the table of digits indexed by a signed `char`,
so that a byte above 127 reads from beside it (`GARBAGE`). `ServiceReads` is the reader at the
other end, from RFC 3986, with `Decode` a recursive function over the last bytes of a string and
`Before` / `After` the two sides of a separator. The storage URL before all this is left out,
and a parameter name is its first letter. `ConnectionAssumption` says of paths and markers what FUSE and the
service make them: strings of bytes, a path as FUSE passes it.

**`LinkedLists`** is the heap of list nodes that headers and tags share in shape: `Add` at the
end, `Chain` for the loops that begin at `root`, `Following` for the one that begins at
the given element (`mosso_create_tag_list_from_headers`), `AddAll` for a loop that adds one after
the other, `Copy`, `FreeAll`. Of a header only the key is kept; values go where keys go. `smalloc` returns
while there is a free node (`Room`); a step that needs more than there are is not taken, and
`OutOfMemory` of `Connection` is the exit.

**`SimpleCurl`** is `simple_curl_request_complex`. `Request` is the call up to
`curl_easy_perform`; then libcurl calls `WriteHeader` once for each header line and `WriteBody`
for each piece of the body, until `PerformDone` or, at any moment, `PerformFails`. `transfer`
stands for the locals and stream structures, `returned` for what the caller has
afterwards. `NoHeaderLine` is the dereference of a header stream that has received nothing.

**`Connection`** composes the three into the program's life, in one thread: `ParseCredentials` and
`StartFuse` are `main`, `MossoInit`, `AuthFails` and `AuthSucceeds` are `mossofs_init` with
`mosso_init` and `mosso_authenticate`, and `Unmount` is `mossofs_destroy`. In between, a client
calls `GetObjectMeta`, `ListObjects`, `ReadObject`, `CreateDirectory` and `DeleteObject` in any
order; `BuildMeta`, `MetaFails`, `ReturnList`, `ReturnRead`, `ReturnCreate` and `ReturnDelete` are what
each function does with the response. `blocks` and `nodes` are the heap of bodies
and of list nodes, `strings` the allocated fields of options and connection. `Answers` is
everything a service may say to a request: the headers it must send, any of those in `Omits`
or not, or a refusal. `Crash` is where the code uses a header it did not find, a list with no
element, or the cache of a connection that `cache_new` (which has no return statement)
did not return. Abstracted: each page of a listing is a call of its own (`Listing` has the loop), the client
holds one meta at a time, and `OutOfMemory` takes with the process all it had.

**`CacheProofs`**, **`CacheRefinementProofs`**, **`MossoFSProofs`**, **`MossoFSSerialProofs`**,
**`ListingProofs`**, **`LinkedListsProofs`**, **`RequestUrlProofs`** and **`ConnectionProofs`** hold
the theorems of section 5.
**`MCCache`**, **`MCMossoFS`**, **`MCListing`** and **`MCConnection`** give
the constants their values; `map` in `PROJECT.json` gives the source lines of every
definition. Definitions marked "Fault to be caught" are not part of a
specification: each is a plausible mistake in the definition after it, and the
list `mutants` in `PROJECT.json` names the property that notices it.

## 4. The runs, their bounds and their fairness

| run | question | properties |
|---|---|---|
| `cache_serial` | Is the cache, called by one thread in any order, what its comments say, and its memory managed? | `CacheTypeOK`, `EntriesManaged`, `NoUndefinedBehaviour`, `PayloadsManaged`, `ImplementsTtlCache` |
| `cache_threads` | Two threads call the cache, on two keys, all four operations: up to the first undefined access, are its own blocks still managed? | `EntriesManaged` |
| `fs_serial` | Does a mount with `-s` keep its objects, its buffer and its word, while the storage changes, requests fail and answers lack headers? | `TypeOK`, `SerialUndefinedExplained`, `OneOwner`, `WithinBuffer`, `ReadsComplete`, `NeverOlder` |
| `fs_use_after_free` | Is a meta freed only when it is no longer needed? No | `FreedOnlyWhenUnneeded` |
| `fs_read_buffer` | Is the buffer as large as what is requested? No | `BufferLargeEnough` |
| `fs_error_race` | Does a call that fails with two workers find an error string it can replace? Not always | `FailureReported` |
| `listing` | Is the listing of a container right, and does it end, while the container changes? | `TypeOK`, `ListedOnce`, `Complete`, `LostOnlyWhenFull`, `Ends` |
| `listing_virtual` | Is each object of a virtual directory listed once? No | `ListedOnce` |
| `listing_body` | Does a failed listing return NULL? Not always | `ErrorReturned` |
| `session` | From command line to unmount, whatever the service says or omits and wherever a transfer breaks: is memory owned, is each request complete and addressed to what was meant, is each response understood? | `TypeOK`, `BlocksOwned`, `RequestsSigned`, `Addressed`, `ReturnedWhole`, `UndefinedExplained`, `MetaFaithful` |
| `session_namesake` | Do calls for metas and reads return, as long as the service omits no header? Not always | `CallsReturn` |
| `session_utf8` | Is every character of a path escaped in the URL? No | `AlwaysEscaped` |

The properties worth a word:

- `OneOwner`: each allocated meta or listing belongs to exactly one of the cache,
  the callback in progress and the open handles, and no freed one belongs to
  anybody. A loss and a double free are both violations, of whichever
  operation causes them. The one loss it admits is in the code: the list of a listing that is
  refused on a later page (`lost`). It says nothing of the strings that every request leaks (section 7).
- `SerialUndefinedExplained`: with one worker, undefined behaviour comes from two places only, both of
  them what a service does (an answer without a header, a transfer that fails on a later page), and
  never from the cache, the handles or the error strings.
- `NeverOlder`: what is reported of a path never goes back to an earlier version. It
  rests on the order of miss, request and add, and on nobody else adding
  meanwhile, so it is stated for one thread.
- `WithinBuffer`: the length asked for can wrap around (section 6) but then the
  range is malformed, no conforming service answers it with 206, and nothing is copied.
- `ReadsComplete`: as long as the file is the one that was opened, a read within
  it gives all the bytes there are. Between the meta in the handle, the kernel's
  size and the service only the first and the last have to agree for this.
- `EntriesManaged` holds for any number of threads, and is the only property of the cache
  that does: entries are freed by glib alone, payloads by hand.

- `Complete` and `LostOnlyWhenFull`: a list that is returned has all that stayed in
  the directory during the call. A listing that ends with 204 is thrown away; that
  loses objects that stayed only when the last page before was full. This is the
  one case in which a directory with content is reported as missing though every
  request was answered: when its size is a multiple of 10000.
- `BlocksOwned`: each list node, each response body and each string belongs to exactly
  one pointer of the program, through every way a request can fail; so a leak, a double
  free and a list that shares nodes with another are all violations.
- `RequestsSigned`: each request carries the connection's token and the call's own headers. It is
  worth stating since `mosso_read_object` hands on an element before the last: the list is right only because
  every loop begins at its root.
- `Addressed`: the URL, read by a service, gives back the ASCII path and marker for which it
  was made; two such paths never share one. Bytes outside ASCII are what `session_utf8` is about.
- `ReturnedWhole`: whatever the pieces in which headers and body arrive, the caller has
  all of them, in order, although the body moves when it grows.
- `MetaFaithful`: type and size are those of the service, and each tag is there, in
  order, though it is built from nodes that are freed next.
- `UndefinedExplained`: there are five reasons for undefined behaviour, each at a line of
  the source. That they are there is not thereby approved of: where a comment promises an error or
  a value, section 6 says so: `CallsReturn` covers three of the five.

*Bounds.* Two keys in the runs of `MCCache` and in `fs_serial` (a file's meta and a directory's
listing), so that calls on one key meet entries of another; one key in the two runs
with a violation in which two workers run the callbacks, for the conflict is on one key. Of two workers
the project otherwise relies on proofs: `CallbacksKeepEntries` and `ReadsFit` hold for any number of them. `TTL` is 1 tick and the clock has 3 or
4 values, enough for fresh, at the limit and expired, and for being set back
(`TTL` 0 and 2 values with two threads: an entry expires as soon as the clock moves). `LastVersion` 2 with lengths 3, 1 and
deleted: a file shrinks below an offset already in use and then goes; `LastVersion` 1
with two workers. A page has two objects (`PageSize`), so that the listing of length 3 goes on to
further pages and that of length 1 does not. `MaxRead` 2: a read of one byte and one of several, ending
before, at and behind the end. `Word` is 16 in place of 2^64; all that matters is
that lengths and offsets are below half of it. One handle: handles share nothing
but payload blocks. `Entry`, `Payload` and `Handle` blocks are as many as can be owned at
once; a lost list takes one of them away. `CHECK_DEADLOCK` stays on: `Ended` and `Stopped` say where the program really
stops. Threads, blocks and handles are interchangeable, hence the symmetry in the
runs of `MossoFS` and in `cache_threads`; `cache_serial`, which checks a refinement, and `listing`, which has a
liveness property, have none.

In `MCListing` a directory has up to four objects on pages of two: none, a page cut
short, a full page and two of them. A container's base names are full names; for
a virtual directory they all sort before its prefix (the other possibility, all
behind it, ends the listing after the first page).

In `MCConnection` there are paths of one to three names over a letter, the characters that mean
something in a URL, and a byte of a UTF-8 sequence, with two markers: every branch of the
encoding and of the path helpers is taken. A body has up to two bytes, which is the least
that can be cut, and two blocks, the least with which it can move. Eight nodes: the
connection's header, a request's own three, and a response's four. Six headers may
be absent independently; `HeadersOf` gives every answer but those to a `HEAD` or the authentication a `Date`, so that
a 206 can lack its length and have another header all the same. `session_namesake` and
`session_utf8` have a service that omits none and a cache that works, so that the path is all that is left to
go wrong.

*Fairness.* Only `Listing` has a liveness property, `Ends`, under weak fairness of the answer to a request: the program
sets no timeout, so that a request comes back only if the service or TCP end it, and the
property assumes that. What it says is that the loop then ends, for directories with finitely
many names. Of `MossoFS` no liveness is claimed: a transfer may hang, and the loop over pages may go on
for ever (`listing_virtual`).

## 5. What is proved, and how

`CacheProofs` proves, for every number of threads, keys and blocks, every `TTL`
and every `MaxClock`, from `CacheAssumption` alone (numbers are numbers; NULL
and FREED differ from what they stand next to):

- `CacheTyped`: `CacheSpec => []CacheTypeOK`.
- `EntriesSafe`: `CacheSpec => []EntriesManaged`, for any number of threads.
- `SerialDefined` and `SerialPayloads`: with `OneThread`,
  `CacheSpec => []NoUndefinedBehaviour` and `CacheSpec => []PayloadsManaged`.

*Types* are not inductive alone: `AddReplace` stores the local `new` in the table,
so `LocalsSet` adds which locals are set at which point of a call.

*Entries.* `EntriesManaged` with the types is inductive, and each of its parts is
needed for another: `NoEntryLost` needs `NewDistinct` (two threads
about to add the same block would lose one) and `BucketsDistinct` (a freed entry is
in no other bucket), which need `NewAllocated` (a block being added is in no bucket,
and malloc cannot return it again), which needs that `AddReplace` and `RemoveEntry`
free only what is in the table. The lookup's result plays no part. That
is why the property survives threads.

*Payloads with one thread.* Safety of the payloads needs that what
was looked up is still in the table when it is used (`LookedUp`), that no two
entries hold one payload (`PayloadsDistinct`, `NewPayload`), that what is
handed out is allocated (`Given`), and `PayloadsManaged` itself. Each lemma about a
step is stated for one action; the theorems put them together, one case per
action, and end in a temporal step.

The lemmas about single steps assume of `pc` only that it is a function of the threads, not
which states there are, so that the proofs about `MossoFS` can use them.

`CacheRefinementProofs` proves, with one thread and any number of keys and blocks:

- `CacheImplementsTtlCache`: `CacheSpec => ImplementsTtlCache`. The mapping is written out for the
  only thread (`Mapped`); then each call is shown to be the operation of `TtlCache` it is
  named for (`GetCallGets` and so on), and each step within a call to leave map and answer alone
  (`LookupsSilent` and so on). The invariant of `SerialInvariant` supplies what the
  steps rest on: that the entry looked up is still the key's, and that freeing a key's
  entry touches no other key's.

`MossoFSProofs` proves, for every number of workers, paths, blocks and handles, every
history of every file, and from `MossoFSAssumption` and `CacheAssumption`:

- `CallbacksKeepEntries`: `Spec => []EntriesManaged`. Beyond what `CacheProofs` shows of the calls
  it takes that a callback adds only what it fetched, under the key it asked for
  (`CallbackLocals`); all other steps leave table and entries alone (`OutsideTheCache`).
- `CallbacksTypeCorrect`: `Spec => []TypeOK`, if `WordFits`: lengths are at most half a word, as
  those of `off_t` are, and no read is longer. The type of a read's offset rests on `Existing`: what is open
  has been looked up, and what the kernel was told of existed.
- `ReadsFit`: `Spec => []WithinBuffer`, if `WordFits`. The three descriptions of a file, in the kernel, in
  the handle and in the cloud, may all differ. `LengthHarmless` shows that the length asked for
  is within the buffer or makes a range no service answers, by cases on the
  length in the handle, and `ReceivedFits` that what is answered then fits. `ReadsHarmless` carries this
  from the request to the answer, while other threads open and release.

`MossoFSSerialProofs` proves, for a mount with `-s` (`Serial`: there is one worker) and under
`WordFits`, for every number of paths, blocks and handles and every history of every file:

- `SerialCallbacksExplained`: `Spec => []SerialUndefinedExplained`, over the callbacks, the error strings,
  the handles and the unmount. It does not say that nothing goes wrong under `-s`: a missing header and a
  transfer that fails on a later page do (`session_namesake`, `listing_body`).
- `SerialOwners`: `Spec => []OneOwner`.
- `SerialNeverOlder`: `Spec => NeverOlder`.

`PayloadsManaged` is no invariant here, since an object may also belong to a callback that has
fetched it or to a handle. `AllOwned` takes its place: allocated is what the cache, the thread or a handle owns, or is lost.
That a step frees nothing another owner has needs that owners are apart (`ThreadsApart`, `HandlesApart`, `LostApart`,
`PayloadsDistinct`, `NewPayload`), that the thread has no object where it needs none (`EmptyHanded`), and that what a call looked up or returned is still the cache's
(`LookedUp`, `Given`); together they are `ObjectsInv`, and one lemma for each kind of step shows that it
keeps them. `ErrorsKept` places a freed error string in the one step between free and store.
`NoneFaulty` concludes that no other access of any step is to freed memory. For `NeverOlder`, `VersionsInv`
puts every object that is cached or on its way into the cache between what the
kernel was told last and what the service has; it rests on `ObjectsInv`, for a block that is allocated
again must not be one the cache still points to. The clock does not occur in it: freshness plays no part.

- `SerialFreedWhenUnneeded`: `Spec => []FreedOnlyWhenUnneeded`, from the same invariant. The property of the
  run `fs_use_after_free` holds for one worker; it takes a second to free what the first still reads.

Two more results for the same mount have an invariant of their own beside those above:

- `SerialReadsComplete`: `Spec => []ReadsComplete`, under `WordFits`. A handle's meta is never
  newer than the file (`MetasNoNewer`), and a file never goes back to a version it had; so meta and file that
  agree at the end agreed when the request was made, and `AllThatIsLeft` shows that what was asked for (`AsksFor`)
  is then answered in full (`Has`).
- `SerialBuffersSuffice`: `Spec => []BuffersSuffice`, under `WordFits`: the length asked for is larger than the
  buffer (`fs_read_buffer`) only where the read begins behind the end of the file as it was opened. The
  kernel's size is then of another age than the handle's meta; nothing else makes the difference wrap around.

`ListingProofs` proves, for every finite set of names, every page size and everything that others create and
delete meanwhile, from `ListingAssumption`:

- `ListingTyped`: `Spec => []TypeOK`, and `NoObjectTwice`: `Spec => []ListedOnce`, both under `NoneBefore`:
  no base name sorts before its object's full name. The marker is then at or behind the last object,
  so the list ascends (`Ascending`); that it is no longer than there are names (part of `TypeOK`)
  follows from that alone, and is false without it (`listing_virtual`).
- `NoObjectMissing`: `Spec => []Complete`, and `LossNeedsFullPages`: `Spec => []LostOnlyWhenFull`, both
  under `NoneBehind`: no base name sorts behind the full name. Up to the marker the
  list then has all that stayed (`CaughtUp`), and another page is asked for only when
  all so far were full (`ListInv`). That a page is the first names in order rests on `RanksCount`: an element of a
  finite set of numbers has as many elements before it as its rank says.
- `PagesBounded`, under `NoneBefore`: a response ends the listing or makes the list a whole page longer
  (`PagesAddUp`), and the list is never longer than there are names. This is what is not about fairness in
  `Ends`; without the condition the list grows for ever.
- `SmallDirectoriesReturn`: `Spec => []ErrorReturned` if there are fewer names than fit a page. What
  `listing_body` shows takes a second page: before it there is no body left over (`NoneLeftOver`).

In a container base names are full names: both conditions hold. In a virtual directory whose base names
sort before its prefix only the second does, and `listing_virtual` shows what is lost with the first.

`LinkedListsProofs` has the lemmas about lists, for any heap and any number of nodes. `Following`, `AddAll` and
`TagNames` are recursive functions; what each computes is shown by its least
counterexample (`LeastNumber`), which takes the place of induction. From this: a chain from the root is all of a list and
ends (`FollowingLinked`, `ListChain`), is left alone by whatever does not touch
its nodes (`ChainKept`), and is one longer after `Add`, and a sequence longer after `AddAll` (`AddBuilds`,
`AddAllBuilds`). `Owned(heap, L)` says that the pointers of `L` have lists that
share no node, and that every allocated node is in one; freeing, building and handing over a list keep it (`FreeOwned`,
`BuiltOwned`, `MoveOwned`, `TwoFreed`).

`ConnectionProofs` proves, for every number of nodes and bodies, all paths, markers and longest bodies, and whichever
headers a service omits, from the assumptions of `LinkedLists`, `SimpleCurl` and `Connection`:

- `EverythingOwned`: `Spec => []BlocksOwned`. `TypeCorrect`: `Spec => []TypeOK`.
- `AllSigned`: `Spec => []RequestsSigned`. `AllReturnedWhole`: `Spec => []ReturnedWhole`.
- `AllExplained`: `Spec => []UndefinedExplained`. `AllFaithful`: `Spec => MetaFaithful`.
- `AllAddressed`: `Spec => []Addressed`: whatever is asked for in ASCII, the service reads what was meant.
  It is `UrlAddresses` (below) for the paths and markers a call can have (`Values`).
- `MetasAndReadsReturn`: `Spec => []CallsReturn`, under `NoNamesake` (no path names its container once more below it) and
  `NothingNeededOmitted` (the service sends size and date headers). `session_namesake` shows that the first
  is needed, and it is for metas alone (`MetasReturn`); a read returns without it (`ReadsReturn`). `AnsweredEntirely` says that an answer has every header it comes with, from the request on.
- `EverythingFreed`: `Spec => []NothingRemains`: a program that ends for want of credentials, after a refused
  mount or an unmount has freed every node, body and string of the model. A run has no property of
  that name; it follows from `BlocksOwned` where no pointer is left.

One inductive invariant carries them, `ConnectionInv`, and none of its parts stands alone. `Owned` is stated of five pointers
(`Lists`: connection, request, header stream, response, tags). To free the right ones, a step has to know which of them
exist at its `pc` (`Stage`), and whether the request's list is its own or borrowed from the connection
(`Sent`; freeing a borrowed one would take the connection's away). `Sent` and `Arriving` also say what the
lists carry, since a copy and the tags are made from it, and that the stream's pointer is the last element, where
the next header is added. `Arrived` has the response's pointer at the root, because `mosso_create_tag_list_from_headers` starts where it is
pointed to. `Answered` ties the response to the request, for the five reasons of `UndefinedExplained` are about
what the service said and not about what was received. `Stored` has bodies and strings, `Values` the types. One lemma for each
action shows that it keeps them all (names end in `Keeps`), above shared ones for a call (`CallMakes`, `CallKeeps`),
a list made for it (`TwoKeys`, `ThreeKeys`) and the way back (`LeaveKeeps`).

`RequestUrlProofs` proves of the conversions, for strings of any length:

- `UrlEncodeDecoded`, `EncodePartsDecoded`: an encoded name, and an encoded path, decode to what they were.
- `UrlReadAsMeant`: a service reads the URL of an ASCII path and marker as that path and that marker, for both kinds
  of request. Nothing in a name is taken for a separator: a code has no byte that is one (`Codes`), so the first
  `?`, `&` and `=` are those the program put there.
- `UrlsDiffer`: requests of one kind have the same URL only for the same path and marker.
- `UrlShowsGarbage`: a byte outside ASCII, in whichever part, leaves a byte from beside the table of digits
  in the URL. `UrlAddresses` has both halves, for all bytes.

`FlattenSeq` and `Decode` walk along strings. What `FlattenSeq` does at each piece is proved once, and `Decode` is then unfolded
piece by piece from the end. `NumbersUpTo` (in `LinkedListsProofs`) stands for induction in this: a set of
numbers up to n that has each one before which it has all has them all; it follows from a least counterexample.

*Model-checked only*: `Ends` of `Listing`, which is liveness under fairness, beyond the
provers as is ENABLED; what of it is safety is proved (`PagesBounded`). Every
other property of a passing run is a theorem, for all values of the constants or under the conditions named above.
Library theorems for induction take an operator as a parameter and cannot be used; least counterexamples
replace them for single functions. What the runs with a violation show needs a trace, not a proof; the
theorems `SerialFreedWhenUnneeded`, `SerialBuffersSuffice`, `SmallDirectoriesReturn`, `NoObjectTwice`,
and `MetasAndReadsReturn` say when it cannot happen; `UrlShowsGarbage` says that `session_utf8` is so for
every path with such a byte.

## 6. Where the code and its comments disagree

- `fs_use_after_free`. `src/mosso.c:907` leaves a meta to its caller, to be freed when
  it is no longer needed. The callbacks give it to the cache and read it after
  `cache_get_object` or `cache_add_object` has returned. TLC's trace has one thread at the end of
  `getattr`, and another that finds the same entry expired and frees its object. Even before
  any such access the two can get in each other's way: a payload freed by hand
  (`src/cache.c:192`) may be allocated again, for another handle, while its entry is
  still in the table, and a third call then frees it there.
- `fs_read_buffer`. `src/mosso.c:1059` requires a buffer large enough for what is
  requested. In the trace a file shrinks after `getattr` has been answered. `open`
  takes the new meta, the kernel reads at an offset within the size it knows, and
  `filehandle->meta->size - offset` (`src/mossofs.c:320`) wraps around. The
  consequence is an error instead of an end of file; see `WithinBuffer`.

- `fs_error_race`. `src/mosso.c:904` promises that a call that fails sets the error information. The
  string is one global: `set_error` frees it (`src/mosso.c:35`) and then stores the new one. In the trace
  two workers fail, and one of them frees the string that the other has freed and not yet replaced.

- `listing_virtual`. Paths below a container become requests with a `path` parameter
  (`src/mosso.c:669`) and later pages carry a marker (`src/mosso.c:705`). The marker
  is the base name of the last object, but the service compares it with full names. In a
  virtual directory of 10000 objects or more the first page is fetched again for ever, or, where
  base names sort behind the prefix, the next page is empty and the listing fails.
- `listing_body`. `src/mosso.c:677` promises NULL on any error. If the transfer of a
  later page fails, `response_body` is still the body freed after the page before; it is
  printed into the error string and freed again.
- `session_namesake`. `src/mosso.c:904` promises NULL on any error, `src/mosso.c:1071` -1 likewise for a read, and `src/mosso.c:954` takes
  an object with the name of its container for the container. `/a/a` is such an object; it has no
  `X-Container-Bytes-Used`, and `atoll` (`src/mosso.c:1003`) is applied to NULL. The property is violated in the
  same way, without such a name, when a service leaves that header out for a container, or the `Content-Length` of a
  206 (`src/mosso.c:1126`), or spells it in other letters; TLC shows this with `Omits` so chosen.
- `session_utf8`. `src/simple_curl.c:362` says that everything but ASCII letters and digits is encoded in
  hexadecimal, and `src/mosso.c:261` and `269` that path and marker are escaped correctly. A byte above 127 is a
  negative `char`, and `hex_code[ (*cur) >> 4 ]` (`src/simple_curl.c:402`) reads from before the table.

Two more are plain in the lines themselves, and are modelled but not given a run. `cache_new` has no return
statement, though `src/cache.c:48` says that it returns the new cache: `CacheNew` has both outcomes, and
`UndefinedExplained` names the second as a reason. `mosso_authenticate` sets the error string for status 401 only,
though `src/mosso.c:74` says that it is set whenever the connection fails: `AuthFails`.

## 7. What is not modelled

- Races inside glib and libcurl (each call of them is one step), and threads inside
  one request: `Connection` has one thread, and `MossoFS` takes an answer's parsing as one step. The
  switch of the locale around `strptime` is thus left out.
- The contents of files (lengths only, so that a read torn by a concurrent write is not told
  apart), the checksum, the number of objects and the time in a meta, the user and group of
  files, the debug log.
- What nothing calls: replacing and looking up tags, request bodies. `cache_remove_object`
  has no caller either, but is modelled with the rest of the cache.
- `strdup` and `asprintf` that fail unchecked: only `salloc.c` is modelled to run out of memory.
- The strings that every request leaks whatever happens: the path parts at `src/mosso.c:949`, the pieces of
  header lines in `src/simple_curl.c:115-149`. The memory of the program grows with the requests it makes; no
  property here says otherwise, and none could hold: what is stated of memory is stated of the blocks modelled.
- A token that expires: a refusal may occur at any time, but also never again.
- Options other than the credentials, which libfuse handles, and packaging.

## 8. Plan

In order of importance; all of it exists.

1. `Cache`, `TtlCache`, `CacheRefinement`: the cache under threads, and its promise.
2. `CacheProofs`: types, entries, payloads.
3. `MossoFS`: callbacks, cache, handles, errors and service composed.
4. `Listing`: `mosso_list_objects` page by page.
5. `RequestUrl`, `LinkedLists`, `SimpleCurl`, `Connection`: URLs, lists, transfers and
   the life of a connection.
6. The findings of section 6.
7. `MossoFSProofs`: entries, types and buffers for any number of workers.
8. `CacheRefinementProofs`: the cache of one thread implements `TtlCache`.
9. With one thread, for the callbacks: `SerialUndefinedExplained`, `OneOwner` and `NeverOlder`,
   with open handles as owners (`MossoFSSerialProofs`).
10. `ListingProofs`: `ListedOnce` and `Complete` for every directory and page size.
    `ReadsComplete` in `MossoFSSerialProofs`.
11. `LinkedListsProofs`, `ConnectionProofs`: ownership and content of every list and body, for any number.
12. `RequestUrlProofs`: encoding and decoding, and with it `Addressed`.
13. What liveness and the findings leave to prove: bounds on pages, and the conditions
    under which what section 6 describes does not happen.

## 9. Running the checks

`tlc -workers 2 -config MCCache.cfg MCCache` runs `cache_serial`, with
`MCCacheThreads.cfg` `cache_threads`; the other runs
are `MCMossoFS` with the four `MCMossoFS*.cfg`, `MCListing` with the three
`MCListing*.cfg` and `MCConnection` with the three `MCConnection*.cfg`. `tlapm CacheProofs.tla`
checks its proofs; so for the seven other modules named `*Proofs.tla`. The longest is
`ConnectionProofs.tla`; the others take a few minutes or less.
