----------------------------- MODULE Connection -----------------------------
(***************************************************************************)
(* The life of a connection, in one thread: the command line is read, the  *)
(* mount authenticates (mossofs_init, mosso_init), a client of mosso.h     *)
(* makes one call after the other, and the filesystem is unmounted.  Each  *)
(* call builds a URL and a header list, asks simple_curl, and frees or     *)
(* hands on what comes back.                                               *)
(*                                                                         *)
(* Module Listing has the loop over the pages of a directory; here each    *)
(* page is a call of its own.  Module MossoFS has the callbacks, their     *)
(* threads and the cache; here they are the client.                        *)
(***************************************************************************)
EXTENDS SimpleCurl, RequestUrl

CONSTANTS
  Path,       \* paths that are asked for
  Marker,     \* names at which a page of a listing can end
  Omits,      \* headers that the service may leave out, or may spell in other
              \* letters than the program looks for
  CacheNew,   \* what cache_new may return: "live", or "garbage" since it has
              \* no return statement
  MaxBody     \* bound: the longest body

Credentials == {"options.username", "options.apikey"}
Account == {"username", "key"}
FromResponse == {"storage_token", "auth_token", "storage_url",
                 "cdn_management_url"}

\* A mosso_connection_t, the arguments and locals of a call, and a
\* mosso_object_meta_t.
Connections ==
  [fields : SUBSET (Account \cup FromResponse), auth : Node \cup {NULL},
   cache : {"null", "live", "garbage"}]
Calls ==
  [op : {"auth", "meta", "list", "read", "create", "delete"},
   path : Path \cup {Root}, type : {"file", "path"},
   marker : Marker \cup {<<>>}, size : 0..MaxBody, own : BOOLEAN,
   headers : Node]
Metas ==
  [type : {"container", "vdir", "object"}, size : Nat, tag : Node \cup {NULL}]

TagHeaders == {"X-Object-Meta-Color", "X-Object-Meta-Shape"}

AuthHeaders ==
  {"X-Storage-Token", "X-Auth-Token", "X-Storage-Url", "X-CDN-Management-Url"}

\* The key behind "X-Object-Meta-", in lowercase letters.
TagName(key) == IF key = "X-Object-Meta-Color" THEN "color" ELSE "shape"

Headers ==
  AuthHeaders \cup TagHeaders \cup
  {"X-Container-Bytes-Used", "Content-Type", "Content-Length", "Date", "Range",
   "X-Auth-User", "X-Auth-Key"}
Tags == {TagName(key) : key \in TagHeaders}

ASSUME ConnectionAssumption ==
  /\ Headers \cup Tags \subseteq Key
  /\ \A p \in Path : p \in Seq(0..255) /\ IsPath(p)
  /\ \A m \in Marker : m \in Seq(0..255)
  /\ CacheNew # {} /\ CacheNew \subseteq {"live", "garbage"}
  /\ MaxBody \in Nat \ {0}
  /\ NULL \notin Connections \cup Calls \cup Metas

VARIABLES
  pc,        \* where the program is
  options,   \* fields of mossofs_options that are set
  mosso,     \* the mosso_connection_t, or NULL
  strings,   \* strings allocated for either of them
  call,      \* the call in progress: its arguments and locals, or NULL
  meta,      \* the mosso_object_meta_t the client has, or NULL
  error      \* "set" when error_string of mosso.c is not NULL

programVars == <<pc, options, mosso, strings, call, meta, error>>
vars == <<curlVars, programVars>>

Stops == {"usage", "refused", "unmounted", "exhausted", "undefined"}

Init ==
  /\ CurlInit
  /\ pc = "parsing"
  /\ options = {}
  /\ mosso = NULL
  /\ strings = {}
  /\ call = NULL
  /\ meta = NULL
  /\ error = "null"

-----------------------------------------------------------------------------
(* The service, as the program relies on it. *)

InSomeContainer(p) == InContainer(p) # <<>>

KindsAt(p) == IF InSomeContainer(p) THEN {"object", "vdir"} ELSE {"container"}

\* The headers of a successful answer.
MetaHeaders(kind) ==
  IF kind = "container" THEN {"X-Container-Bytes-Used", "Content-Length"}
  ELSE {"Content-Type", "Content-Length"} \cup TagHeaders

HeadersOf(op, kind) ==
  CASE op = "auth" -> AuthHeaders
    [] op = "meta" -> MetaHeaders(kind)
    [] op = "read" -> {"Content-Length", "Date"}
    [] OTHER -> {"Date"}

CodeOf(op) ==
  CASE op \in {"auth", "meta", "delete"} -> 204
    [] op = "list" -> 200
    [] op = "read" -> 206
    [] op = "create" -> 201

\* What the Content-Length of a HEAD says, and how much a container holds.
LengthOf(kind) == IF kind = "object" THEN 2 ELSE 0
BytesUsed == 3

HasBody(op) == op \in {"auth", "list", "read"}

Answer(kind, code, keys, body) ==
  [kind |-> kind, code |-> code, keys |-> keys, body |-> body,
   delivered |-> <<>>, passed |-> 0]

\* The keys, without some of those that may be left out.
Without(keys) == {keys \ omitted : omitted \in SUBSET (keys \cap Omits)}

KindsFor(op, path) == IF op = "meta" THEN KindsAt(path) ELSE {"object"}

Grants(op, path) ==
  UNION {{Answer(kind, CodeOf(op), keys, body) :
            keys \in Without(HeadersOf(op, kind)),
            body \in IF op \in {"list", "read"} THEN 1..MaxBody ELSE {0}} :
          kind \in KindsFor(op, path)}

Refusals(op) ==
  {Answer("none", code, keys, body) :
     code \in {401, 500}, keys \in Without({"Date"}),
     body \in IF HasBody(op) THEN 0..1 ELSE {0}}

Answers(op, path) == Grants(op, path) \cup Refusals(op)

-----------------------------------------------------------------------------
(* mosso_construct_request_url and the request, for each kind of call. *)

\* own: the header list is the call's, and not the connection's.
Call(op, path, type, marker, size, own, list) ==
  /\ call' = [op |-> op, path |-> path, type |-> type, marker |-> marker,
              size |-> size, own |-> own, headers |-> list.last]
  /\ pc' = "calling"
  /\ \E answer \in Answers(op, path) :
       Request(list.heap, list.last, HasBody(op),
               op \in {"auth", "meta", "read"}, answer)

Url == ConstructRequestUrl(call.path, call.type, call.marker)

Authorized == [heap |-> nodes, last |-> mosso.auth]

\* mosso_get_object_meta
GetObjectMeta(p) ==
  /\ pc = "ready" /\ meta = NULL
  /\ Call("meta", p, "file", <<>>, 0, FALSE, Authorized)
  /\ UNCHANGED <<options, mosso, strings, meta, error>>

\* One request of mosso_list_objects.
ListObjects(p, marker) ==
  /\ pc = "ready"
  /\ Call("list", p, "path", marker, 0, FALSE, Authorized)
  /\ UNCHANGED <<options, mosso, strings, meta, error>>

\* Fault to be caught: the header is added to the connection's own list.
RangeUncopied(heap, headers) == Add([heap |-> heap, last |-> headers], "Range")

\* The caller of header_add drops the new end and keeps the old one.
WithRange(heap, headers) ==
  LET copy == Copy(heap, headers)
  IN  [heap |-> Add(copy, "Range").heap, last |-> copy.last]

\* mosso_read_object
ReadObject(p, size) ==
  /\ pc = "ready"
  /\ Room(nodes, Len(Keys(nodes, mosso.auth)) + 1)
  /\ Call("read", p, "file", <<>>, size, TRUE, WithRange(nodes, mosso.auth))
  /\ UNCHANGED <<options, mosso, strings, meta, error>>

\* mosso_create_directory
CreateDirectory(p) ==
  /\ pc = "ready"
  /\ Room(nodes, Len(Keys(nodes, mosso.auth)) + 2)
  /\ Call("create", p, "file", <<>>, 0, TRUE,
          Add(Add(Copy(nodes, mosso.auth), "Content-Length"), "Content-Type"))
  /\ UNCHANGED <<options, mosso, strings, meta, error>>

\* mosso_delete_object
DeleteObject(p) ==
  /\ pc = "ready"
  /\ Call("delete", p, "file", <<>>, 0, FALSE, Authorized)
  /\ UNCHANGED <<options, mosso, strings, meta, error>>

-----------------------------------------------------------------------------
(* What each of them does with what it is returned. *)

Returned(op) == pc = "calling" /\ returned # NULL /\ call.op = op
Granted == returned.code = CodeOf(call.op)

\* free( response_body )
BodyFreed(b) == IF b = NULL THEN blocks ELSE [blocks EXCEPT ![b] = FREED]

\* Every header in need is used without asking whether it was found.
Found(headers) == \A key \in headers : Has(nodes, returned.headers, key)

\* The locals of the call are gone.
Leave ==
  /\ pc' = "ready"
  /\ call' = NULL
  /\ returned' = NULL
  /\ reply' = NULL

ErrorUnless(condition) == error' = IF condition THEN error ELSE "set"

\* The names in the body become a list of objects (module Listing).
ReturnList ==
  /\ Returned("list")
  /\ blocks' = BodyFreed(returned.body)
  /\ ErrorUnless(Granted)
  /\ Leave
  /\ UNCHANGED <<nodes, transfer, options, mosso, strings, meta>>

\* The bytes are copied to the caller's buffer (MossoFS!Received).
ReturnRead ==
  /\ Returned("read")
  /\ Granted => Found({"Content-Length"})
  /\ nodes' = FreeAll(FreeAll(nodes, call.headers), returned.headers)
  /\ blocks' = BodyFreed(returned.body)
  /\ ErrorUnless(Granted)
  /\ Leave
  /\ UNCHANGED <<transfer, options, mosso, strings, meta>>

ReturnCreate ==
  /\ Returned("create")
  /\ nodes' = FreeAll(nodes, call.headers)
  /\ ErrorUnless(Granted)
  /\ Leave
  /\ UNCHANGED <<blocks, transfer, options, mosso, strings, meta>>

ReturnDelete ==
  /\ Returned("delete")
  /\ ErrorUnless(Granted)
  /\ Leave
  /\ UNCHANGED <<nodes, blocks, transfer, options, mosso, strings, meta>>

MetaFails ==
  /\ Returned("meta") /\ ~Granted
  /\ nodes' = FreeAll(nodes, returned.headers)
  /\ ErrorUnless(FALSE)
  /\ Leave
  /\ UNCHANGED <<blocks, transfer, options, mosso, strings, meta>>

\* The container's own path, or the name of the container once more below it.
NamedLikeContainer(p) == ContainerOf(p) = NameOf(p)

ObjectType(p) ==
  IF NamedLikeContainer(p) THEN "container"
  ELSE IF Found({"Content-Type"}) /\ reply.kind = "vdir" THEN "vdir"
  ELSE "object"

\* Fault to be caught: no size but that of a Content-Length.
LengthRequired(p) ==
  IF NamedLikeContainer(p) THEN {"X-Container-Bytes-Used"} ELSE {"Content-Length"}

\* Headers that atoll is applied to as they come.
SizeHeaders(p) ==
  IF NamedLikeContainer(p) THEN {"X-Container-Bytes-Used"} ELSE {}

\* Fault to be caught: one header for all types.
SizeFromLength(p) == IF Found({"Content-Length"}) THEN LengthOf(reply.kind) ELSE 0

\* Fault to be caught: the -1 of a length that is not known.
SizeUnknown(p) ==
  IF NamedLikeContainer(p) THEN BytesUsed
  ELSE IF Found({"Content-Length"}) THEN LengthOf(reply.kind) ELSE -1

ObjectSize(p) ==
  IF NamedLikeContainer(p) THEN BytesUsed
  ELSE IF Found({"Content-Length"}) THEN LengthOf(reply.kind) ELSE 0

TagNames(keys) ==
  LET names[i \in 0..Len(keys)] ==
        IF i = 0 THEN <<>>
        ELSE IF keys[i] \in TagHeaders
             THEN Append(names[i - 1], TagName(keys[i]))
             ELSE names[i - 1]
  IN  names[Len(keys)]

\* mosso_create_tag_list_from_headers starts at the header it is given.
TagsIn(headers) == TagNames(KeysOf(nodes, Following(nodes, headers)))
TagList(headers) == AddAll(Empty(nodes), TagsIn(headers))

\* Checksum, number of objects and time are copied or left zero likewise, and
\* are left out.
BuildMeta ==
  /\ Returned("meta") /\ Granted
  /\ Found(SizeHeaders(call.path))
  /\ Room(nodes, Len(TagsIn(returned.headers)))
  /\ LET tags == TagList(returned.headers)
     IN  /\ nodes' = FreeAll(tags.heap, returned.headers)
         /\ meta' = [type |-> ObjectType(call.path),
                     size |-> ObjectSize(call.path), tag |-> tags.last]
  /\ Leave
  /\ UNCHANGED <<blocks, transfer, options, mosso, strings, error>>

\* mosso_object_meta_free, called by the client or by its cache
FreeMeta ==
  /\ pc = "ready" /\ meta # NULL
  /\ nodes' = FreeAll(nodes, meta.tag)
  /\ meta' = NULL
  /\ UNCHANGED <<blocks, transfer, reply, returned>>
  /\ UNCHANGED <<pc, options, mosso, strings, call, error>>

-----------------------------------------------------------------------------
(* main, mossofs_init and mossofs_destroy *)

\* mossofs_parse_opts meets the first argument with an "@" in it. Any other
\* argument before or behind it changes nothing here.
ParseCredentials ==
  /\ pc = "parsing" /\ options = {}
  /\ options' = Credentials
  /\ strings' = strings \cup Credentials
  /\ UNCHANGED <<curlVars, pc, mosso, call, meta, error>>

\* The end of main: fuse_main, unless there were no credentials.
StartFuse ==
  /\ pc = "parsing"
  /\ pc' = IF options = {} THEN "usage" ELSE "mounting"
  /\ UNCHANGED <<curlVars, options, mosso, strings, call, meta, error>>

\* mosso_init and the request of mosso_authenticate, whose URL is a constant
MossoInit ==
  /\ pc = "mounting"
  /\ Room(nodes, 2)
  /\ mosso' = [fields |-> Account, auth |-> NULL, cache |-> "null"]
  /\ strings' = strings \cup Account
  /\ Call("auth", Root, "file", <<>>, 0, TRUE,
          Add(Add(Empty(nodes), "X-Auth-User"), "X-Auth-Key"))
  /\ UNCHANGED <<options, meta, error>>

\* mosso_cleanup and the end of mossofs_init: what is freed of the strings.
AllFreed(m) == strings \ (m.fields \cup options)

\* Any status but 204; only 401 leaves a message. The program exits.
AuthFails ==
  /\ Returned("auth") /\ ~Granted
  /\ error' = IF returned.code = 401 THEN "set" ELSE error
  /\ nodes' = FreeAll(FreeAll(nodes, call.headers), returned.headers)
  /\ blocks' = BodyFreed(returned.body)
  /\ strings' = AllFreed(mosso)
  /\ pc' = "refused"
  /\ mosso' = NULL /\ options' = {}
  /\ call' = NULL /\ returned' = NULL /\ reply' = NULL
  /\ UNCHANGED <<transfer, meta>>

\* The headers become fields, and the filesystem gets its cache.
AuthSucceeds ==
  /\ Returned("auth") /\ Granted
  /\ Found(AuthHeaders)
  /\ LET freed == FreeAll(FreeAll(nodes, call.headers), returned.headers)
         auth == Add(Empty(freed), "X-Auth-Token")
     IN  \E cache \in CacheNew :
           /\ nodes' = auth.heap
           /\ mosso' = [fields |-> Account \cup FromResponse,
                        auth |-> auth.last, cache |-> cache]
  /\ blocks' = BodyFreed(returned.body)
  /\ strings' = strings \cup FromResponse
  /\ Leave
  /\ UNCHANGED <<transfer, options, meta, error>>

\* mossofs_destroy; cache_free passes the meta to mossofs_cache_object_free.
Unmount ==
  /\ pc = "ready" /\ mosso.cache = "live"
  /\ pc' = "unmounted"
  /\ nodes' = FreeAll(IF meta = NULL THEN nodes ELSE FreeAll(nodes, meta.tag),
                      mosso.auth)
  /\ strings' = AllFreed(mosso)
  /\ mosso' = NULL /\ options' = {} /\ meta' = NULL
  /\ UNCHANGED <<blocks, transfer, reply, returned, call, error>>

-----------------------------------------------------------------------------
(* Where the program ends before its time. *)

\* strdup or atoll of a header that was not found.
HeaderNotFound ==
  /\ pc = "calling" /\ returned # NULL /\ Granted
  /\ ~ Found(CASE call.op = "auth" -> AuthHeaders
               [] call.op = "read" -> {"Content-Length"}
               [] call.op = "meta" -> SizeHeaders(call.path)
               [] OTHER -> {})

\* getattr, readdir and destroy begin with the cache.
CacheUsed == pc = "ready" /\ mosso.cache = "garbage"

Crash ==
  /\ \/ pc = "calling" /\ NoHeaderLine
     \/ HeaderNotFound
     \/ CacheUsed
  /\ pc' = "undefined"
  /\ UNCHANGED <<curlVars, options, mosso, strings, call, meta, error>>

\* smalloc and srealloc exit when there is no memory left; with the process
\* goes all it had.
OutOfMemory ==
  /\ pc \notin Stops
  /\ pc' = "exhausted"
  /\ nodes' = [n \in Node |-> FREED] /\ blocks' = [b \in Block |-> FREED]
  /\ transfer' = NULL /\ reply' = NULL /\ returned' = NULL
  /\ options' = {} /\ strings' = {} /\ mosso' = NULL
  /\ call' = NULL /\ meta' = NULL /\ error' = "null"

Stopped == pc \in Stops /\ UNCHANGED vars

Next ==
  \/ ParseCredentials \/ StartFuse \/ MossoInit \/ AuthFails \/ AuthSucceeds
  \/ \E p \in Path \ {Root} :
       \/ GetObjectMeta(p) \/ CreateDirectory(p) \/ DeleteObject(p)
       \/ \E size \in 1..MaxBody : ReadObject(p, size)
  \/ \E p \in Path, marker \in Marker \cup {<<>>} : ListObjects(p, marker)
  \/ pc = "calling" /\ Transfer /\ UNCHANGED programVars
  \/ ReturnList \/ ReturnRead \/ ReturnCreate \/ ReturnDelete
  \/ MetaFails \/ BuildMeta \/ FreeMeta
  \/ Unmount \/ Crash \/ OutOfMemory \/ Stopped

Spec == Init /\ [][Next]_vars

-----------------------------------------------------------------------------
(* Properties *)

\* Every variable has its type.
TypeOK ==
  /\ \A n \in Node :
       \/ nodes[n] = FREED
       \/ nodes[n] \in Element /\ nodes[n].key \in Headers \cup Tags
  /\ \A b \in Block : blocks[b] = FREED \/ blocks[b] \in Seq(1..MaxBody)
  /\ transfer \in Locals \cup {NULL}
  /\ returned \in Response \cup {NULL}
  /\ pc \in {"parsing", "mounting", "calling", "ready"} \cup Stops
  /\ options \in {{}, Credentials}
  /\ strings \subseteq Credentials \cup Account \cup FromResponse
  /\ mosso \in Connections \cup {NULL}
  /\ call \in Calls \cup {NULL}
  /\ meta \in Metas \cup {NULL}
  /\ error \in {"null", "set"}

\* The pointers to a list that somebody is going to free.
Slots == {"auth", "request", "stream", "response", "tags"}
Lists ==
  [x \in Slots |->
    CASE x = "auth"     -> IF mosso = NULL THEN NULL ELSE mosso.auth
      [] x = "request"  -> IF call # NULL /\ call.own THEN call.headers ELSE NULL
      [] x = "stream"   -> IF transfer = NULL THEN NULL ELSE transfer.stream
      [] x = "response" -> IF returned = NULL THEN NULL ELSE returned.headers
      [] x = "tags"     -> IF meta = NULL THEN NULL ELSE meta.tag]
Bodies ==
  {IF transfer = NULL THEN NULL ELSE transfer.recv,
   IF returned = NULL THEN NULL ELSE returned.body} \ {NULL}

\* Whatever the service answers, and wherever a transfer breaks off, each list
\* node, response body and string that is allocated belongs to exactly one
\* pointer of the program, and nothing that was freed belongs to one; in
\* particular nothing is left after a refused mount or an unmount (the
\* failure branches of simple_curl_request_complex and of every function of
\* mosso.c that calls it).
BlocksOwned ==
  /\ LET owned == {<<x, ToSet(Chain(nodes, Lists[x]))>> : x \in Slots}
     IN  \A n \in Node : nodes[n] # FREED <=>
           Cardinality({own \in owned : n \in own[2]}) = 1
  /\ {b \in Block : blocks[b] # FREED} = Bodies
  /\ strings = options \cup IF mosso = NULL THEN {} ELSE mosso.fields

\* Each request carries all its headers, in the order in which they were added,
\* whichever element of the list is passed on: mosso_read_object passes the one
\* before the last.
RequestsSigned ==
  transfer # NULL =>
    CurlHeaders(transfer.request) =
      CASE call.op = "auth" -> <<"X-Auth-User", "X-Auth-Key">>
        [] call.op = "read" -> <<"X-Auth-Token", "Range">>
        [] call.op = "create" ->
             <<"X-Auth-Token", "Content-Length", "Content-Type">>
        [] OTHER -> <<"X-Auth-Token">>

\* The service takes the URL for the path and the marker that were meant,
\* whatever ASCII characters are in them (so that two such paths never share a
\* URL). For any other character see AlwaysEscaped.
Addressed ==
  call # NULL /\ IsAscii(call.path) /\ IsAscii(call.marker)
    => ServiceReads(Url) = Meant(call.path, call.type, call.marker)

\* However the network cuts it, the body the caller gets is what was sent, and
\* the headers are all there, in order, from the root.
ReturnedWhole ==
  returned # NULL =>
    /\ returned.body # NULL =>
         blocks[returned.body] = [i \in 1..reply.body |-> i]
    /\ returned.headers # NULL =>
         KeysOf(nodes, Following(nodes, returned.headers)) = reply.delivered

\* A meta says of an object what the service says of it: type and size if their
\* headers are there, and every tag that is, in order, in a list that outlives
\* the response.
MetaFaithful ==
  [][meta = NULL /\ meta' # NULL =>
       /\ Keys(nodes', meta'.tag) = TagNames(reply.delivered)
       /\ MetaHeaders(reply.kind) \subseteq reply.keys =>
            /\ meta'.type = reply.kind
            /\ meta'.size = IF reply.kind = "container" THEN BytesUsed
                            ELSE LengthOf(reply.kind)]_vars

\* Behaviour is undefined for five reasons only: a response without one header
\* line, a header that is missing from a good answer (of those to mosso_init,
\* of the size of a container, or of the length of what is read), an object
\* that is named like its container, or a cache_new that returned nothing of
\* use. Where comments promise that a call returns, CallsReturn says so, and
\* is violated.
UndefinedExplained ==
  pc = "undefined" =>
    \/ mosso.cache = "garbage"
    \/ reply.keys = {}
    \/ call.op = "auth" /\ ~ AuthHeaders \subseteq reply.keys
    \/ call.op = "read" /\ "Content-Length" \notin reply.keys
    \/ call.op = "meta" /\ reply.kind = "container"
         /\ "X-Container-Bytes-Used" \notin reply.keys
    \/ call.op = "meta" /\ InSomeContainer(call.path)
         /\ NamedLikeContainer(call.path)

\* "If the object could not be found or any other error occurs NULL is returned"
\* and "-1 will be returned if the object to be read can not be found or any other
\* error occurs": a call for a meta and a read return, whatever the object and
\* whatever is missing from the answer (comments of mosso_get_object_meta and
\* mosso_read_object).
CallsReturn == pc = "undefined" => call = NULL \/ call.op \notin {"meta", "read"}

\* "Only ASCII letters and digits will be returned unencoded. Everything else
\* will be encoded using the %hexcode notation": no URL has a byte that is not
\* a hexadecimal digit behind a percent sign (comment of simple_curl_urlencode).
AlwaysEscaped == call # NULL => GARBAGE \notin ToSet(Url)
=============================================================================
