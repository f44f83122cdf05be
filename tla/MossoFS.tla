------------------------------ MODULE MossoFS -------------------------------
(***************************************************************************)
(* The FUSE callbacks of mossofs.c with the object cache they share and    *)
(* the cloud service they ask on a miss.                                   *)
(*                                                                         *)
(* A thread is one libfuse worker: it serves one request at a time, from   *)
(* the callback's first line to its reply.  With the mount option -s there *)
(* is one, otherwise several run the callbacks at once and nothing in the  *)
(* program excludes them from each other.  The steps of a callback are     *)
(* those of the cache calls it makes (module Cache), one for each HTTP     *)
(* request (a listing makes one per page), and one for each access to an   *)
(* error string.                                                           *)
(*                                                                         *)
(* Anybody may write to the cloud storage meanwhile.  What it holds at a   *)
(* path is a version, and Size gives the length of each: the bytes of a    *)
(* file, the objects in a directory.                                       *)
(*                                                                         *)
(* getattr of "/" and an open that is not for reading return before they   *)
(* touch any of this state; they are stuttering steps.                     *)
(***************************************************************************)
EXTENDS Cache

CONSTANTS
  Path,          \* paths that programs on the mount ask for
  Handle,        \* heap blocks that can hold a mossofs_filehandle_t
  LastVersion,   \* bound: a path is written this many times
  Size,          \* length of each version, or NULL where nothing is stored
  PageSize,      \* objects the service lists per page (scaled down from 10000)
  MaxRead,       \* bound: the longest read the kernel issues
  Word           \* uint64_t wraps at Word (scaled down from 2^64)

ASSUME MossoFSAssumption ==
  /\ LastVersion \in Nat
  /\ Data = 0..LastVersion
  /\ NULL \notin Data
  /\ FREED \notin [path : Path, meta : Payload]
  /\ Key \subseteq {"meta", "objects"} \X Path
  /\ \A v \in Data : Size[v] = NULL \/ Size[v] \in Nat
  /\ PageSize \in Nat \ {0}
  /\ MaxRead \in Nat \ {0}
  /\ Word \in Nat \ {0}

VARIABLES
  service,   \* version the cloud stores at each path
  seen,      \* version the last reply for each key described: what the kernel
             \* knows, its i_size in particular; NULL before the first
  fh,        \* content of each handle block
  rd,        \* arguments and progress of each thread's read
  errors,    \* error_string of simple_curl.c and of mosso.c
  lost       \* history: blocks of listings that nothing points to any more

fsVars == <<service, seen, fh, rd, errors, lost>>
vars == <<cacheVars, fsVars>>

\* Callbacks outside the cache: an HTTP request of theirs is in progress in
\* "miss", "paging", "opening" and "reading".
States == CacheStates \cup
  {"paging", "fetched", "opening", "reading", "read", "unreadable",
   "curl_free", "curl_store", "mosso_free", "mosso_store", "error"}

NoRead == [handle |-> NULL, offset |-> 0, size |-> 0, want |-> 0, got |-> 0]

Init ==
  /\ CacheInit
  /\ service = [p \in Path |-> 0]
  /\ seen = [k \in Key |-> NULL]
  /\ fh = [h \in Handle |-> FREED]
  /\ rd = [t \in Thread |-> NoRead]
  /\ errors = [lib \in {"curl", "mosso"} |-> "null"]
  /\ lost = {}

-----------------------------------------------------------------------------
(* mossofs_getattr and mossofs_readdir: the cache first, then the service. *)

Getattr(t, p) ==
  /\ <<"meta", p>> \in Key
  /\ GetCall(t, <<"meta", p>>)
  /\ UNCHANGED fsVars

Readdir(t, p) ==
  /\ <<"objects", p>> \in Key
  /\ GetCall(t, <<"objects", p>>)
  /\ UNCHANGED fsVars

CacheStep(t) ==
  /\ \/ GetLookup(t) \/ GetFresh(t) \/ GetStale(t) \/ GetFree(t) \/ GetRemove(t)
     \/ AddLookup(t) \/ AddFree(t) \/ AddReplace(t)
  /\ UNCHANGED fsVars

\* The service has what is asked for.  It answers the listing of an empty
\* directory with 204, which mosso_list_objects takes for an error.
Answers(k) ==
  /\ Size[service[k[2]]] # NULL
  /\ k[1] = "objects" => Size[service[k[2]]] > 0

\* mosso_get_object_meta builds its result from the version the service has
\* when it answers.  mosso_list_objects asks for another page when it got a
\* full one; a listing is as old as its first page.
Fetch(t) ==
  LET version == service[loc[t].key[2]]
      full == loc[t].key[1] = "objects" /\ Size[version] >= PageSize
  IN  /\ pc[t] = "miss"
      /\ Answers(loc[t].key)
      /\ Step(t, "miss", IF full THEN "paging" ELSE "fetched")
      /\ \E b \in Payload :
           /\ payload[b] = FREED
           /\ payload' = [payload EXCEPT ![b] = version]
           /\ loc' = [loc EXCEPT ![t].ptr = b]
      /\ UNCHANGED <<clock, table, entry, status, fsVars>>

\* The page behind the marker is appended to the list.  How many objects are
\* behind it depends on names (module Listing): any number up to all of them.
NextPage(t) ==
  /\ pc[t] = "paging"
  /\ Answers(loc[t].key)
  /\ \E n \in 1..PageSize :
       /\ n <= Size[service[loc[t].key[2]]]
       /\ Step(t, "paging", IF n = PageSize THEN "paging" ELSE "fetched")
  /\ UNCHANGED <<clock, table, entry, payload, loc, status, fsVars>>

Store(t) ==
  /\ Step(t, "fetched", "add_lookup")
  /\ AddCall(t, loc[t].key, loc[t].ptr)
  /\ UNCHANGED <<payload, fsVars>>

\* The callback fills the kernel's buffer from the cached object and returns.
Reply(t) ==
  /\ pc[t] \in {"hit", "added"}
  /\ Return(t)
  /\ seen' = [seen EXCEPT ![loc[t].key] = payload[loc[t].ptr]]
  /\ UNCHANGED <<service, fh, rd, errors, lost>>

-----------------------------------------------------------------------------
(* mossofs_open asks the service anew and keeps the meta in the handle, not *)
(* in the cache; mossofs_release frees both.                                *)

\* The kernel has looked the path up before it opens it.
Open(t, p) ==
  /\ <<"meta", p>> \in Key
  /\ seen[<<"meta", p>>] # NULL
  /\ \E h \in Handle : fh[h] = FREED
  /\ Step(t, "idle", "opening")
  /\ loc' = [loc EXCEPT ![t] = [NoLocals EXCEPT !.key = <<"meta", p>>]]
  /\ UNCHANGED <<clock, table, entry, payload, status, fsVars>>

Opened(t) ==
  /\ Step(t, "opening", "idle")
  /\ Answers(loc[t].key)
  /\ \E b \in Payload, h \in Handle :
       /\ payload[b] = FREED
       /\ fh[h] = FREED
       /\ payload' = [payload EXCEPT ![b] = service[loc[t].key[2]]]
       /\ fh' = [fh EXCEPT ![h] = [path |-> loc[t].key[2], meta |-> b]]
  /\ loc' = [loc EXCEPT ![t] = NoLocals]
  /\ UNCHANGED <<clock, table, entry, status, service, seen, rd, errors, lost>>

\* Fault to be caught: the handle is freed, its meta is not.
ReleaseKeepsMeta(t, h) ==
  /\ Step(t, "idle", "idle")
  /\ fh[h] # FREED
  /\ \A s \in Thread : rd[s].handle # h
  /\ fh' = [fh EXCEPT ![h] = FREED]
  /\ UNCHANGED <<clock, table, entry, payload, loc, status,
                 service, seen, rd, errors, lost>>

\* The kernel releases a handle once, when no request uses it any more.
Release(t, h) ==
  /\ Step(t, "idle", "idle")
  /\ fh[h] # FREED
  /\ payload[fh[h].meta] # FREED
  /\ \A s \in Thread : rd[s].handle # h
  /\ payload' = [payload EXCEPT ![fh[h].meta] = FREED]
  /\ fh' = [fh EXCEPT ![h] = FREED]
  /\ UNCHANGED <<clock, table, entry, loc, status, service, seen, rd, errors, lost>>

-----------------------------------------------------------------------------
(* mossofs_read.  The length comes from the meta of the handle, the bytes   *)
(* from whatever version the service has by then.                           *)

\* Faults to be caught: signed arithmetic, no limit to the size the kernel
\* asked for, and the last byte of the file left out.
BytesToReadSigned(length, offset, n) ==
  IF length < offset + n THEN length - offset ELSE n
BytesToReadUnlimited(length, offset, n) == (length - offset) % Word
BytesToReadShort(length, offset, n) ==
  IF length < (offset + n) % Word THEN (length - offset - 1) % Word ELSE n

\* bytes_to_read, in uint64_t arithmetic, of n bytes at offset of a file of
\* the given length.
BytesToRead(length, offset, n) ==
  IF length < (offset + n) % Word THEN (length - offset) % Word ELSE n

\* The kernel reads at offsets within the file as it knows it.
Read(t, h, n) ==
  /\ fh[h] # FREED
  /\ payload[fh[h].meta] # FREED
  /\ \E offset \in 0..(Size[seen[<<"meta", fh[h].path>>]] - 1) :
       LET want == BytesToRead(Size[payload[fh[h].meta]], offset, n) IN
       /\ Step(t, "idle", IF want = 0 THEN "read" ELSE "reading")
       /\ rd' = [rd EXCEPT ![t] = [handle |-> h, offset |-> offset, size |-> n,
                                   want |-> want, got |-> 0]]
  /\ UNCHANGED <<clock, table, entry, payload, loc, status,
                 service, seen, fh, errors, lost>>

\* The service answers with 206 to a range that is well formed and begins
\* within the file.  The last byte asked for is a signed 64 bit number.
Received(t) ==
  LET last == (rd[t].offset + rd[t].want - 1) % Word
      length == Size[service[fh[rd[t].handle].path]]
  IN  /\ Step(t, "reading", "read")
      /\ length # NULL
      /\ rd[t].offset < length
      /\ rd[t].offset <= last /\ last < Word \div 2
      /\ rd' = [rd EXCEPT ![t].got =
                  IF last < length THEN rd[t].want ELSE length - rd[t].offset]
      /\ UNCHANGED <<clock, table, entry, payload, loc, status,
                     service, seen, fh, errors, lost>>

ReplyRead(t) ==
  /\ Step(t, "read", "idle")
  /\ rd' = [rd EXCEPT ![t] = NoRead]
  /\ UNCHANGED <<clock, table, entry, payload, loc, status,
                 service, seen, fh, errors, lost>>

-----------------------------------------------------------------------------
(* A request fails: the service refuses it, or the transfer does not come   *)
(* about and simple_curl notes why.  Either way mosso.c sets its error      *)
(* string and the callback returns -ENOENT.                                 *)

Requesting(t) == pc[t] \in {"miss", "paging", "opening", "reading"}

\* mosso_list_objects returns NULL when a page is refused, which an empty one
\* (204) is to it, and forgets the list it has built so far.
Refused(t) ==
  /\ Requesting(t)
  /\ Step(t, pc[t], "mosso_free")
  /\ lost' = lost \cup ({loc[t].ptr} \ {NULL})
  /\ loc' = [loc EXCEPT ![t].ptr = NULL]
  /\ UNCHANGED <<clock, table, entry, payload, status,
                 service, seen, fh, rd, errors>>

\* A failed transfer leaves response_body as it was.  The thread keeps its
\* list for as long as that matters: see ReadsFreedBody.
Unreachable(t) ==
  /\ Requesting(t)
  /\ Step(t, pc[t], "curl_free")
  /\ UNCHANGED <<clock, table, entry, payload, loc, status, fsVars>>

\* The answer lacks a header that mosso_get_object_meta or mosso_read_object
\* needs; module Connection says when.  A listing looks at no header.
Unreadable(t) ==
  /\ pc[t] \in {"opening", "reading"} \/ (pc[t] = "miss" /\ loc[t].key[1] = "meta")
  /\ Step(t, pc[t], "unreadable")
  /\ UNCHANGED <<clock, table, entry, payload, loc, status, fsVars>>

\* The error message of a listing quotes response_body, which is the body of
\* the page before, freed, when the transfer of a later page has failed.
ReadsFreedBody(t) == pc[t] = "mosso_store" /\ loc[t].ptr # NULL

\* set_error frees the string it finds, then stores a new one.
FreeError(t, lib, from, to) ==
  /\ Step(t, from, to)
  /\ errors[lib] # "freed"
  /\ errors' = [errors EXCEPT ![lib] = IF @ = "live" THEN "freed" ELSE @]
  /\ UNCHANGED <<clock, table, entry, payload, loc, status,
                 service, seen, fh, rd, lost>>

\* Fault to be caught: the string is freed after the new one is stored.
StoreErrorFirst(t, lib, from, to) ==
  /\ Step(t, from, to)
  /\ ~ReadsFreedBody(t)
  /\ errors' = [errors EXCEPT ![lib] = "freed"]
  /\ UNCHANGED <<clock, table, entry, payload, loc, status,
                 service, seen, fh, rd, lost>>

StoreError(t, lib, from, to) ==
  /\ Step(t, from, to)
  /\ ~ReadsFreedBody(t)
  /\ errors' = [errors EXCEPT ![lib] = "live"]
  /\ UNCHANGED <<clock, table, entry, payload, loc, status,
                 service, seen, fh, rd, lost>>

SetError(t) ==
  \/ FreeError(t, "curl", "curl_free", "curl_store")
  \/ StoreError(t, "curl", "curl_store", "mosso_free")
  \/ FreeError(t, "mosso", "mosso_free", "mosso_store")
  \/ StoreError(t, "mosso", "mosso_store", "error")

ReplyError(t) ==
  /\ Step(t, "error", "idle")
  /\ loc' = [loc EXCEPT ![t] = NoLocals]
  /\ rd' = [rd EXCEPT ![t] = NoRead]
  /\ UNCHANGED <<clock, table, entry, payload, status,
                 service, seen, fh, errors, lost>>

-----------------------------------------------------------------------------
(* The end of the program, undefined behaviour, and the world around it.    *)

\* mossofs_destroy, after the last request: mosso_cleanup frees the cache.
Destroy == CacheFree("unmounted") /\ UNCHANGED fsVars

\* smalloc exits when there is no memory for the block it is asked for.
OutOfMemory(t) ==
  /\ status = "running"
  /\ \/ pc[t] \in {"miss", "opening"} /\ \A b \in Payload : payload[b] # FREED
     \/ pc[t] = "opening" /\ \A h \in Handle : fh[h] # FREED
     \/ pc[t] = "fetched" /\ \A e \in Entry : entry[e] # FREED
  /\ status' = "exited"
  /\ UNCHANGED <<clock, table, entry, payload, pc, loc, fsVars>>

\* Besides the accesses of the cache, set_error may free a string twice, and
\* read and release may be called on a handle whose meta is freed.
Faulty(t) ==
  \/ Dangling(t)
  \/ pc[t] = "unreadable"
  \/ ReadsFreedBody(t)
  \/ pc[t] = "curl_free" /\ errors["curl"] = "freed"
  \/ pc[t] = "mosso_free" /\ errors["mosso"] = "freed"
  \/ /\ pc[t] = "idle"
     /\ \E h \in Handle : fh[h] # FREED /\ payload[fh[h].meta] = FREED

Fault(t) ==
  /\ status = "running"
  /\ Faulty(t)
  /\ status' = "undefined"
  /\ UNCHANGED <<clock, table, entry, payload, pc, loc, fsVars>>

\* Another client of the storage writes, shortens or deletes what is at p.
RemoteWrite(p) ==
  /\ status = "running"
  /\ service[p] < LastVersion
  /\ service' = [service EXCEPT ![p] = @ + 1]
  /\ UNCHANGED <<cacheVars, seen, fh, rd, errors, lost>>

TimePasses == ClockMoves /\ UNCHANGED fsVars

Stopped == Ended /\ UNCHANGED fsVars

Request(t) ==
  \/ \E p \in Path : Getattr(t, p) \/ Readdir(t, p) \/ Open(t, p)
  \/ \E h \in Handle, n \in 1..MaxRead : Read(t, h, n)
  \/ \E h \in Handle : Release(t, h)

\* What a thread does once it has a request.
Serve(t) ==
  \/ CacheStep(t) \/ Fetch(t) \/ NextPage(t) \/ Store(t) \/ Opened(t) \/ Received(t)
  \/ Refused(t) \/ Unreachable(t) \/ Unreadable(t) \/ SetError(t)
  \/ Reply(t) \/ ReplyRead(t) \/ ReplyError(t)
  \/ OutOfMemory(t) \/ Fault(t)

Next ==
  \/ \E t \in Thread : Request(t) \/ Serve(t)
  \/ \E p \in Path : RemoteWrite(p)
  \/ Destroy
  \/ TimePasses
  \/ Stopped

Spec == Init /\ [][Next]_vars

-----------------------------------------------------------------------------
(* Properties.                                                             *)

\* The variables hold values of their types.
TypeOK ==
  /\ clock \in 0..MaxClock
  /\ table \in [Key -> Entry \cup {NULL}]
  /\ entry \in [Entry -> [timestamp : 0..MaxClock, ptr : Payload] \cup {FREED}]
  /\ payload \in [Payload -> Data \cup {FREED}]
  /\ pc \in [Thread -> States]
  /\ loc \in [Thread -> Locals]
  /\ status \in {"running", "unmounted", "exited", "undefined"}
  /\ service \in [Path -> Data]
  /\ seen \in [Key -> Data \cup {NULL}]
  /\ fh \in [Handle -> [path : Path, meta : Payload] \cup {FREED}]
  /\ rd \in [Thread -> [handle : Handle \cup {NULL}, offset : Nat, size : 0..MaxRead,
                        want : 0..(Word - 1), got : Nat]]
  /\ errors \in [{"curl", "mosso"} -> {"null", "live", "freed"}]
  /\ lost \subseteq Payload

\* The blocks of cached objects owned by the cache, by the threads that are
\* fetching or caching one, and by the handles.  A transfer that fails on a
\* later page leaves its list with the thread until the body is freed again.
CacheOwns(k, b) == table[k] # NULL /\ entry[table[k]].ptr = b /\ ~Dropping(k)
ThreadOwns(t, b) ==
  /\ \/ pc[t] \in {"paging", "fetched", "curl_free", "curl_store",
                   "mosso_free", "mosso_store"}
     \/ Adding(t)
  /\ loc[t].ptr = b
HandleOwns(h, b) == fh[h] # FREED /\ fh[h].meta = b

\* With one thread every meta and every listing that is allocated is owned
\* by exactly one of the cache, the callback in progress and the handles, and
\* nothing that is owned is freed: mossofs.c never loses one, not when it
\* expires, not on a failed request, and not at unmount.  The exception is
\* the list of a listing that is refused on a later page: it is allocated for
\* good, and nothing reads or frees it again.
OneOwner ==
  \A b \in Payload :
    LET owners == {k \in Key : CacheOwns(k, b)}
                    \cup {t \in Thread : ThreadOwns(t, b)}
                    \cup {h \in Handle : HandleOwns(h, b)}
    IN  IF payload[b] = FREED \/ b \in lost
          THEN owners = {}
          ELSE Cardinality(owners) = 1

\* With one thread the callbacks have undefined behaviour for two reasons
\* only, both of them the service's: an answer lacks a header that is read, or
\* the transfer fails on a later page of a listing.  No object of the cache,
\* no handle and no error string is ever used or freed after it was freed.
SerialUndefinedExplained ==
  status = "undefined"
    => \E t \in Thread : pc[t] = "unreadable" \/ ReadsFreedBody(t)

\* With one thread what getattr and readdir report of a path never goes back
\* to an older version, whatever expires, fails or is written meanwhile and
\* however the wall clock is set.
NeverOlder ==
  [][\A k \in Key : seen[k] # NULL => seen'[k] >= seen[k]]_vars

\* A read copies no more than the kernel's buffer holds.
WithinBuffer == \A t \in Thread : rd[t].got <= rd[t].size

\* A read of a file that has not changed since it was opened, at an offset
\* within it, returns the bytes asked for up to its end, no fewer.
ReadsComplete ==
  \A t \in Thread :
    LET handle == fh[rd[t].handle]
        left == Size[payload[handle.meta]] - rd[t].offset
    IN  /\ pc[t] = "read"
        /\ payload[handle.meta] = service[handle.path]
        => rd[t].got = IF left < rd[t].size THEN left ELSE rd[t].size

\* "The caller is responsible to free the given meta_data struct if it is not
\* needed any longer" (mosso.c): what a callback is still reading from is not
\* freed.  With several threads it is, by the one that finds it expired or
\* replaces it.
FreedOnlyWhenUnneeded ==
  \A t \in Thread : pc[t] \in {"hit", "added"} => payload[loc[t].ptr] # FREED

\* "The given buffer needs to be large enough to hold the requested
\* information" (mosso_read_object): mossofs_read asks for no more than the
\* kernel's buffer holds.  When the file has shrunk below the offset, the
\* length it works out wraps around.
BufferLargeEnough == \A t \in Thread : rd[t].want <= rd[t].size

\* "If the object could not be found or any other error occurs NULL is
\* returned and the error information set accordingly" (mosso_get_object_meta):
\* a call that fails finds an error string it can replace.  With several
\* threads it does not, when another has freed it and not yet stored its own.
FailureReported ==
  \A t \in Thread :
    /\ pc[t] = "curl_free" => errors["curl"] # "freed"
    /\ pc[t] = "mosso_free" => errors["mosso"] # "freed"
=============================================================================
