-------------------------- MODULE ConnectionProofs --------------------------
(***************************************************************************)
(* Invariance proofs for module Connection: who owns which list, body and  *)
(* string from the command line to the unmount, and what each request and  *)
(* each response carries.                                                  *)
(***************************************************************************)
EXTENDS Connection, LinkedListsProofs, RequestUrlProofs, TLAPS

Ops == {"auth", "meta", "list", "read", "create", "delete"}

\* Operations with a header list of their own, and those that ask for headers.
Owning == {"auth", "read", "create"}
Asking == {"auth", "meta", "read"}

\* What the header list of a request has to carry.
RequestKeys(op) ==
  CASE op = "auth" -> <<"X-Auth-User", "X-Auth-Key">>
    [] op = "read" -> <<"X-Auth-Token", "Range">>
    [] op = "create" -> <<"X-Auth-Token", "Content-Length", "Content-Type">>
    [] OTHER -> <<"X-Auth-Token">>

Kinds == {"none", "container", "object", "vdir"}
Replies ==
  [kind : Kinds, code : Nat, keys : SUBSET Headers, body : 0..MaxBody,
   delivered : Seq(Headers), passed : Nat]

-----------------------------------------------------------------------------
(* The invariant.                                                          *)

\* The values of the variables, but for the heap of list nodes.
Values ==
  /\ transfer \in Locals \cup {NULL}
  /\ returned \in Response \cup {NULL}
  /\ pc \in {"parsing", "mounting", "calling", "ready"} \cup Stops
  /\ options \in {{}, Credentials}
  /\ strings \subseteq Credentials \cup Account \cup FromResponse
  /\ mosso \in Connections \cup {NULL}
  /\ call \in Calls \cup {NULL}
  /\ meta \in Metas \cup {NULL}
  /\ error \in {"null", "set"}
  /\ blocks \in [Block -> Seq(1..MaxBody) \cup {FREED}]

\* What exists at which stage of the program.
Stage ==
  /\ pc \in {"parsing", "mounting", "usage", "refused", "unmounted", "exhausted"} =>
       mosso = NULL /\ call = NULL /\ meta = NULL
  /\ pc = "ready" => mosso # NULL /\ call = NULL
  /\ pc = "calling" => call # NULL
  /\ call = NULL => transfer = NULL /\ returned = NULL
  /\ call # NULL => mosso # NULL /\ (call.op \in {"auth", "meta"} => meta = NULL)
  /\ call # NULL /\ call.op = "auth" => mosso.fields = Account
  /\ transfer = NULL \/ returned = NULL
  /\ mosso # NULL => (mosso.auth = NULL <=> call # NULL /\ call.op = "auth")
  /\ meta # NULL => mosso # NULL

\* Strings and bodies belong to somebody.
Stored ==
  /\ strings = options \cup IF mosso = NULL THEN {} ELSE mosso.fields
  /\ {b \in Block : blocks[b] # FREED} = Bodies

\* The header lists of the connection and of the request.
Sent ==
  /\ mosso # NULL /\ mosso.auth # NULL =>
       Keys(nodes, mosso.auth) = <<"X-Auth-Token">>
  /\ call # NULL =>
       /\ call.own <=> call.op \in Owning
       /\ Keys(nodes, call.headers) = RequestKeys(call.op)
       /\ ~ call.own => call.headers = mosso.auth
  /\ transfer # NULL =>
       /\ transfer.request = call.headers
       /\ transfer.wantBody = HasBody(call.op)
       /\ transfer.wantHeaders = (call.op \in Asking)

\* What a service that grants a request answers.
Granting(answer, op, path) ==
  answer.code = CodeOf(op) =>
    /\ answer.kind \in KindsFor(op, path)
    /\ answer.keys \subseteq HeadersOf(op, answer.kind)

\* What has arrived of the answer so far.
Arriving ==
  transfer # NULL =>
    /\ Keys(nodes, transfer.stream) = reply.delivered
    /\ transfer.stream # NULL =>
         transfer.stream =
           Chain(nodes, transfer.stream)[Len(Chain(nodes, transfer.stream))]
    /\ transfer.length = reply.passed
    /\ blocks[transfer.recv] = [i \in 1..reply.passed |-> i]

\* What the caller has when all of it has arrived, or when the transfer failed.
Arrived ==
  returned # NULL =>
    \/ returned.code = 0 /\ returned.headers = NULL /\ returned.body = NULL
    \/ /\ returned.code = reply.code
       /\ reply.keys = ToSet(reply.delivered)
       /\ returned.body # NULL <=> HasBody(call.op)
       /\ returned.body # NULL =>
            blocks[returned.body] = [i \in 1..reply.body |-> i]
       /\ returned.headers # NULL <=> call.op \in Asking
       /\ returned.headers # NULL =>
            /\ returned.headers = Chain(nodes, returned.headers)[1]
            /\ Keys(nodes, returned.headers) = reply.delivered

Answered ==
  transfer # NULL \/ returned # NULL =>
    /\ reply \in Replies
    /\ ToSet(reply.delivered) \subseteq reply.keys
    /\ reply.passed <= reply.body
    /\ Granting(reply, call.op, call.path)

Tagged == meta # NULL => Keys(nodes, meta.tag) \in Seq(Tags)

ConnectionInv ==
  /\ Values /\ Stage /\ Stored /\ Sent
  /\ Answered /\ Arriving /\ Arrived /\ Tagged
  /\ Owned(nodes, Lists)

-----------------------------------------------------------------------------
(* Facts about the operators.                                              *)

\* What each slot of Lists holds, one by one.
LEMMA ListsAre ==
  /\ DOMAIN Lists = Slots
  /\ Lists["auth"] = IF mosso = NULL THEN NULL ELSE mosso.auth
  /\ Lists["request"] = IF call # NULL /\ call.own THEN call.headers ELSE NULL
  /\ Lists["stream"] = IF transfer = NULL THEN NULL ELSE transfer.stream
  /\ Lists["response"] = IF returned = NULL THEN NULL ELSE returned.headers
  /\ Lists["tags"] = IF meta = NULL THEN NULL ELSE meta.tag
  BY DEF Lists, Slots

\* And after a step.
LEMMA ListsAfter ==
  /\ DOMAIN Lists' = Slots
  /\ Lists'["auth"] = IF mosso' = NULL THEN NULL ELSE mosso'.auth
  /\ Lists'["request"] = IF call' # NULL /\ call'.own THEN call'.headers ELSE NULL
  /\ Lists'["stream"] = IF transfer' = NULL THEN NULL ELSE transfer'.stream
  /\ Lists'["response"] = IF returned' = NULL THEN NULL ELSE returned'.headers
  /\ Lists'["tags"] = IF meta' = NULL THEN NULL ELSE meta'.tag
  BY DEF Lists, Slots

\* A pointer that is NULL owns no node.
LEMMA NoList ==
  ASSUME NEW heap
  PROVE  Chain(heap, NULL) = <<>> /\ Keys(heap, NULL) = <<>>
<1>1. Chain(heap, NULL) = <<>> /\ KeysOf(heap, <<>>) = <<>>
  BY DEF Chain, KeysOf
<1> QED
  BY <1>1 DEF Keys

LEMMA KindsOfAnswers ==
  ASSUME NEW op \in Ops, NEW kind \in Kinds
  PROVE  HeadersOf(op, kind) \subseteq Headers
  BY DEF HeadersOf, Headers, MetaHeaders, AuthHeaders, TagHeaders, Ops

\* What the service says when it is asked, before any of it has arrived.
LEMMA AnswersAre ==
  ASSUME NEW op \in Ops, NEW path, NEW answer \in Answers(op, path)
  PROVE  /\ answer \in Replies
         /\ answer.delivered = <<>> /\ answer.passed = 0
         /\ Granting(answer, op, path)
<1>1. KindsFor(op, path) \subseteq Kinds
  BY DEF KindsFor, KindsAt, Kinds
<1>2. \A keys : \A without \in Without(keys) : without \subseteq keys
  BY DEF Without
<1>3. MaxBody \in Nat /\ 1 <= MaxBody
  <2>1. MaxBody \in Nat \ {0}
    BY ConnectionAssumption
  <2> QED
    BY <2>1
<1>4. CodeOf(op) \in Nat /\ CodeOf(op) \notin {401, 500}
  BY DEF CodeOf, Ops
<1> DEFINE Made(kind, code, keys, body) ==
             answer = [kind |-> kind, code |-> code, keys |-> keys,
                       body |-> body, delivered |-> <<>>, passed |-> 0]
<1>5. ASSUME answer \in Grants(op, path)
      PROVE  /\ answer \in Replies
             /\ answer.delivered = <<>> /\ answer.passed = 0
             /\ Granting(answer, op, path)
  <2>1. PICK kind \in KindsFor(op, path) :
          answer \in {Answer(kind, CodeOf(op), keys, body) :
                        keys \in Without(HeadersOf(op, kind)),
                        body \in IF op \in {"list", "read"} THEN 1..MaxBody ELSE {0}}
    BY <1>5 DEF Grants
  <2>2. PICK keys \in Without(HeadersOf(op, kind)),
             body \in IF op \in {"list", "read"} THEN 1..MaxBody ELSE {0} :
          answer = Answer(kind, CodeOf(op), keys, body)
    BY <2>1
  <2>3. Made(kind, CodeOf(op), keys, body)
    BY <2>2 DEF Answer
  <2>4. keys \subseteq HeadersOf(op, kind) /\ keys \subseteq Headers
    BY <1>1, <1>2, KindsOfAnswers
  <2>5. kind \in Kinds /\ body \in 0..MaxBody
    BY <1>1, <1>3
  <2>6. answer \in Replies /\ answer.delivered = <<>> /\ answer.passed = 0
    BY <1>4, <2>3, <2>4, <2>5 DEF Replies
  <2>7. answer.kind = kind /\ answer.keys \subseteq HeadersOf(op, answer.kind)
    BY <2>3, <2>4
  <2> QED
    BY <2>6, <2>7 DEF Granting
<1>6. ASSUME answer \in Refusals(op)
      PROVE  /\ answer \in Replies
             /\ answer.delivered = <<>> /\ answer.passed = 0
             /\ Granting(answer, op, path)
  <2>1. PICK code \in {401, 500}, keys \in Without({"Date"}),
             body \in IF HasBody(op) THEN 0..1 ELSE {0} :
          answer = Answer("none", code, keys, body)
    BY <1>6 DEF Refusals
  <2>2. Made("none", code, keys, body)
    BY <2>1 DEF Answer
  <2>3. keys \subseteq Headers
    BY <1>2 DEF Headers
  <2>4. body \in 0..MaxBody /\ code \in Nat
    BY <1>3
  <2>5. answer \in Replies /\ answer.delivered = <<>> /\ answer.passed = 0
    BY <2>2, <2>3, <2>4 DEF Replies, Kinds
  <2>6. answer.code # CodeOf(op)
    BY <1>4, <2>2
  <2> QED
    BY <2>5, <2>6 DEF Granting
<1> QED
  BY <1>5, <1>6 DEF Answers

-----------------------------------------------------------------------------
(* The steps of a request.                                                 *)

\* What any call sets up before its transfer begins.
CallMade(op, own, list) ==
  /\ nodes' = list.heap /\ pc' = "calling" /\ returned' = NULL
  /\ call' \in Calls /\ call' # NULL
  /\ call'.op = op /\ call'.own = own /\ call'.headers = list.last
  /\ transfer' \in Locals /\ transfer' # NULL /\ transfer'.stream = NULL
  /\ transfer'.request = list.last /\ transfer'.wantBody = HasBody(op)
  /\ transfer'.wantHeaders = (op \in Asking)
  /\ blocks' \in [Block -> Seq(1..MaxBody) \cup {FREED}]
  /\ {b \in Block : blocks'[b] # FREED} = Bodies'
  /\ Answered' /\ Arriving' /\ Arrived'

\* What a call leaves behind: its locals, a transfer, and an answer of the service.
LEMMA CallMakes ==
  ASSUME ConnectionInv, call = NULL,
         NEW op \in Ops, NEW path \in Path \cup {Root},
         NEW type \in {"file", "path"}, NEW marker \in Marker \cup {<<>>},
         NEW size \in 0..MaxBody, NEW own \in BOOLEAN,
         NEW list, list.last \in Node,
         Call(op, path, type, marker, size, own, list)
  PROVE  CallMade(op, own, list)
<1> DEFINE made == [op |-> op, path |-> path, type |-> type, marker |-> marker,
                    size |-> size, own |-> own, headers |-> list.last]
<1>1. call' = made /\ pc' = "calling"
  BY DEF Call
<1>2. PICK answer \in Answers(op, path) :
        Request(list.heap, list.last, HasBody(op), op \in Asking, answer)
  BY DEF Call, Asking
<1>3. PICK b \in Block :
        /\ blocks[b] = FREED
        /\ blocks' = [blocks EXCEPT ![b] = <<>>]
        /\ transfer' = [request |-> list.last, wantBody |-> HasBody(op),
                        wantHeaders |-> op \in Asking,
                        stream |-> NULL, recv |-> b, length |-> 0]
  BY <1>2 DEF Request
<1>4. nodes' = list.heap /\ reply' = answer /\ returned' = NULL
  BY <1>2 DEF Request
<1>5. made \in Calls
  BY DEF Calls, Ops
<1>6. call' \in Calls /\ call' # NULL /\ call'.op = op /\ call'.own = own
      /\ call'.headers = list.last /\ call'.path = path
  <2>1. made # NULL
    BY <1>5, ConnectionAssumption
  <2> QED
    BY <1>1, <1>5, <2>1
<1>7. /\ transfer' \in Locals /\ transfer'.stream = NULL
      /\ transfer'.recv = b /\ transfer'.length = 0
      /\ transfer'.request = list.last /\ transfer'.wantBody = HasBody(op)
      /\ transfer'.wantHeaders = (op \in Asking)
  BY <1>3 DEF Locals, HasBody
<1>8. transfer' # NULL
  BY <1>7, SimpleCurlAssumption
<1>9. /\ answer \in Replies /\ answer.delivered = <<>> /\ answer.passed = 0
      /\ Granting(answer, op, path)
  BY AnswersAre
<1>10. blocks \in [Block -> Seq(1..MaxBody) \cup {FREED}]
       /\ transfer = NULL /\ returned = NULL
  BY DEF ConnectionInv, Values, Stage
<1>11. \A c \in Block : blocks[c] = FREED
  BY <1>10 DEF ConnectionInv, Stored, Bodies
<1>12. /\ blocks' \in [Block -> Seq(1..MaxBody) \cup {FREED}]
       /\ blocks'[b] = <<>>
       /\ \A c \in Block : c # b => blocks'[c] = FREED
  <2>1. <<>> \in Seq(1..MaxBody)
    OBVIOUS
  <2> QED
    BY <1>3, <1>10, <1>11, <2>1
<1>13. {c \in Block : blocks'[c] # FREED} = Bodies'
  <2>1. Bodies' = {b}
    <3>1. b # NULL
      BY SimpleCurlAssumption
    <3> QED
      BY <1>4, <1>7, <1>8, <3>1 DEF Bodies
  <2>2. <<>> # FREED
    <3>1. <<>> \in Seq(Nat)
      OBVIOUS
    <3> QED
      BY <3>1, SimpleCurlAssumption
  <2> QED
    BY <1>12, <2>1, <2>2
<1>14. Answered'
  <2>1. ToSet(<<>>) = {}
    BY DEF ToSet
  <2>2. answer.body \in 0..MaxBody /\ 0 <= answer.body
    <3>1. answer.body \in 0..MaxBody
      BY <1>9 DEF Replies
    <3> QED
      BY <3>1, ConnectionAssumption
  <2>3. reply' \in Replies /\ ToSet(reply'.delivered) \subseteq reply'.keys
        /\ reply'.passed <= reply'.body
    BY <1>4, <1>9, <2>1, <2>2
  <2>4. Granting(reply', call'.op, call'.path)
    BY <1>4, <1>6, <1>9
  <2> QED
    BY <2>3, <2>4 DEF Answered
<1>15. Arriving'
  <2>1. Keys(nodes', NULL) = <<>>
    BY NoList
  <2>2. <<>> = [i \in 1..0 |-> i]
    OBVIOUS
  <2> QED
    BY <1>4, <1>7, <1>9, <1>12, <2>1, <2>2 DEF Arriving
<1>16. Arrived'
  BY <1>4 DEF Arrived
<1> HIDE DEF made
<1> QED
  BY <1>1, <1>4, <1>6, <1>7, <1>8, <1>12, <1>13, <1>14, <1>15, <1>16 DEF CallMade

\* The lists of connection, request and meta are told by their pointers.
LEMMA KeysKept ==
  ASSUME ConnectionInv, UNCHANGED <<mosso, call, meta>>,
         \A y \in {"auth", "request", "tags"} :
           Keys(nodes', Lists[y]) = Keys(nodes, Lists[y])
  PROVE  /\ mosso' # NULL /\ mosso'.auth # NULL =>
              Keys(nodes', mosso'.auth) = <<"X-Auth-Token">>
         /\ call' # NULL =>
              /\ call'.own <=> call'.op \in Owning
              /\ Keys(nodes', call'.headers) = RequestKeys(call'.op)
              /\ ~ call'.own => call'.headers = mosso'.auth
         /\ Tagged'
<1>1. /\ Keys(nodes', Lists["auth"]) = Keys(nodes, Lists["auth"])
      /\ Keys(nodes', Lists["request"]) = Keys(nodes, Lists["request"])
      /\ Keys(nodes', Lists["tags"]) = Keys(nodes, Lists["tags"])
  OBVIOUS
<1>2. mosso # NULL => Keys(nodes', mosso.auth) = Keys(nodes, mosso.auth)
  BY <1>1, ListsAre
<1>3. call # NULL => Keys(nodes', call.headers) = Keys(nodes, call.headers)
  <2>1. CASE call # NULL /\ call.own
    BY <1>1, <2>1, ListsAre
  <2>2. CASE call # NULL /\ ~ call.own
    <3>1. call.headers = mosso.auth /\ mosso # NULL
      BY <2>2 DEF ConnectionInv, Sent, Stage
    <3> QED
      BY <1>2, <3>1
  <2>3. call # NULL => call.own \in BOOLEAN
    BY DEF ConnectionInv, Values, Calls
  <2> QED
    BY <2>1, <2>2
<1>4. meta # NULL => Keys(nodes', meta.tag) = Keys(nodes, meta.tag)
  BY <1>1, ListsAre
<1> QED
  BY <1>2, <1>3, <1>4 DEF ConnectionInv, Sent, Tagged

\* Where there is room for a node, there is a free one.
LEMMA RoomIsFree ==
  ASSUME NEW heap, Room(heap, 1)
  PROVE  Free(heap) # {}
  BY FS_EmptySet DEF Room

\* simple_curl_write_header adds a free node to the stream, or begins it.
LEMMA WriteHeaderKeeps ==
  ASSUME ConnectionInv, UNCHANGED programVars, NEW key \in reply.keys,
         WriteHeader(key)
  PROVE  ConnectionInv'
<1> DEFINE stream == transfer.stream
           list == [heap |-> nodes, last |-> stream]
           grown == Add(list, key)
           before == FreeAll(nodes, stream)
           without == [y \in Slots |-> IF y = "stream" THEN NULL ELSE Lists[y]]
<1>1. /\ transfer # NULL /\ returned = NULL /\ call # NULL
      /\ transfer \in Locals /\ reply \in Replies
      /\ blocks' = blocks /\ returned' = NULL
      /\ UNCHANGED <<pc, options, mosso, strings, call, meta, error>>
  BY DEF ConnectionInv, Values, Stage, Answered, WriteHeader, programVars
<1>2. /\ nodes' = grown.heap
      /\ transfer' = [transfer EXCEPT !.stream = grown.last]
      /\ reply' = [reply EXCEPT !.delivered = Append(@, key)]
      /\ Free(nodes) # {}
      /\ reply.delivered \in Seq(Headers) /\ reply.keys \subseteq Headers
      /\ key \in Headers /\ key \in Key
  <2>1. Free(nodes) # {}
    BY RoomIsFree DEF WriteHeader
  <2>2. reply.delivered \in Seq(Headers) /\ reply.keys \subseteq Headers
    BY <1>1 DEF Replies
  <2>3. key \in Headers
    BY <2>2
  <2>4. key \in Key
    BY <2>3, ConnectionAssumption
  <2> QED
    BY <2>1, <2>2, <2>3, <2>4 DEF WriteHeader
<1>3. Lists["stream"] = stream /\ "stream" \in DOMAIN Lists
  BY <1>1, ListsAre DEF Slots
<1>4. Owned(nodes, Lists)
  BY DEF ConnectionInv
<1>5. Differ(Lists, without, "stream") /\ without["stream"] = NULL
      /\ \A y \in Slots : y # "stream" => without[y] = Lists[y]
  BY ListsAre DEF Differ, Slots
<1>6. Owned(before, without) /\ SameLists(nodes, before, Lists, "stream")
  <2> HIDE DEF without
  <2> QED
    BY <1>3, <1>4, <1>5, FreeOwned
<1>7. IsHeap(before) /\ Building(before, list, reply.delivered)
  <2>1. /\ stream # NULL => stream = Chain(nodes, stream)[Len(Chain(nodes, stream))]
        /\ Keys(nodes, stream) = reply.delivered
    BY <1>1 DEF ConnectionInv, Arriving
  <2> QED
    BY <1>3, <1>4, <2>1, Rebuilt
<1>8. list.heap = nodes
  OBVIOUS
<1> HIDE DEF list, grown, before, without
<1>9. /\ Building(before, grown, Append(reply.delivered, key))
      /\ grown.last \in Free(nodes)
      /\ Chain(grown.heap, grown.last) = Append(Chain(nodes, stream), grown.last)
  <2>1. list.last = stream
    BY DEF list
  <2> QED
    BY <1>2, <1>7, <1>8, <2>1, AddBuilds DEF grown
<1>10. grown.last # NULL /\ grown.last \in Node
       /\ grown.last \in ToSet(Chain(grown.heap, grown.last))
       /\ grown.last = Chain(grown.heap, grown.last)[Len(Chain(grown.heap, grown.last))]
  <2>1. grown.last # NULL /\ grown.last \in Node
    BY <1>9, LinkedListsAssumption DEF Free
  <2> QED
    BY <1>9, <2>1 DEF Building, IsChain
<1>11. /\ transfer' \in Locals /\ transfer' # NULL /\ transfer'.stream = grown.last
       /\ transfer'.request = transfer.request /\ transfer'.recv = transfer.recv
       /\ transfer'.wantBody = transfer.wantBody /\ transfer'.length = transfer.length
       /\ transfer'.wantHeaders = transfer.wantHeaders
  <2>1. /\ transfer' \in Locals /\ transfer'.stream = grown.last
        /\ transfer'.request = transfer.request /\ transfer'.recv = transfer.recv
        /\ transfer'.wantBody = transfer.wantBody /\ transfer'.length = transfer.length
        /\ transfer'.wantHeaders = transfer.wantHeaders
    BY <1>1, <1>2, <1>10 DEF Locals
  <2> QED
    BY <2>1, SimpleCurlAssumption
<1>12. /\ Lists'["stream"] = grown.last
       /\ \A y \in Slots : y # "stream" => Lists'[y] = Lists[y]
       /\ Differ(without, Lists', "stream")
  <2>1. Lists'["stream"] = grown.last
    BY <1>11, ListsAfter
  <2>2. \A y \in Slots : y # "stream" => Lists'[y] = Lists[y]
    BY <1>1, ListsAre, ListsAfter DEF Slots
  <2>3. DOMAIN Lists' = Slots /\ DOMAIN without = Slots /\ "stream" \in Slots
    BY ListsAfter DEF Slots, without
  <2> QED
    BY <1>5, <2>1, <2>2, <2>3 DEF Differ
<1>13. /\ Owned(nodes', Lists') /\ SameLists(before, nodes', without, "stream")
       /\ Keys(nodes', grown.last) = Append(reply.delivered, key)
  <2>1. Lists'["stream"] \in ToSet(Chain(grown.heap, grown.last))
    BY <1>10, <1>12
  <2>2. PICK longer : longer = Append(reply.delivered, key)
    OBVIOUS
  <2>3. /\ Owned(grown.heap, Lists') /\ SameLists(before, grown.heap, without, "stream")
        /\ Keys(grown.heap, Lists'["stream"]) = longer
    <3>1. Building(before, grown, longer)
      BY <1>9, <2>2
    <3> QED
      BY <1>5, <1>6, <1>12, <2>1, <3>1, BuiltOwned
  <2> QED
    BY <1>2, <1>12, <2>2, <2>3
<1>14. \A y \in {"auth", "request", "tags"} :
         Keys(nodes', Lists[y]) = Keys(nodes, Lists[y])
  <2> SUFFICES ASSUME NEW y \in {"auth", "request", "tags"}
               PROVE  Keys(nodes', Lists[y]) = Keys(nodes, Lists[y])
    OBVIOUS
  <2>1. y # "stream" /\ y \in Slots /\ y \in DOMAIN Lists /\ y \in DOMAIN without
    BY ListsAre DEF Slots, without
  <2> QED
    BY <1>5, <1>6, <1>13, <2>1 DEF SameLists
<1>15. Sent' /\ Tagged'
  BY <1>1, <1>11, <1>14, KeysKept DEF ConnectionInv, Sent
<1>16. /\ reply' \in Replies /\ reply'.delivered = Append(reply.delivered, key)
       /\ reply'.keys = reply.keys /\ reply'.code = reply.code
       /\ reply'.kind = reply.kind /\ reply'.body = reply.body
       /\ reply'.passed = reply.passed
  <2>1. Append(reply.delivered, key) \in Seq(Headers)
    BY <1>2
  <2> QED
    BY <1>1, <1>2, <2>1 DEF Replies
<1>17. Answered'
  <2>1. ToSet(reply'.delivered) \subseteq reply'.keys
    <3>1. ToSet(reply.delivered) \subseteq reply.keys
      BY <1>1 DEF ConnectionInv, Answered
    <3>2. Len(reply.delivered) \in Nat
          /\ \A i \in 1..Len(reply.delivered) : reply.delivered[i] \in ToSet(reply.delivered)
      BY <1>2 DEF ToSet
    <3>3. ASSUME NEW i \in 1..Len(reply'.delivered)
          PROVE  reply'.delivered[i] \in reply.keys
      <4>1. CASE i \in 1..Len(reply.delivered)
        BY <1>2, <1>16, <3>1, <3>2, <4>1
      <4>2. CASE i = Len(reply.delivered) + 1
        BY <1>2, <1>16, <4>2
      <4>3. Len(reply'.delivered) = Len(reply.delivered) + 1
        BY <1>2, <1>16
      <4> QED
        BY <3>2, <4>1, <4>2, <4>3
    <3>4. DOMAIN reply'.delivered = 1..Len(reply'.delivered)
      BY <1>16 DEF Replies
    <3> QED
      BY <1>16, <3>3, <3>4 DEF ToSet
  <2>2. Granting(reply', call'.op, call'.path)
    BY <1>1, <1>16 DEF ConnectionInv, Answered, Granting
  <2>3. reply'.passed <= reply'.body
    BY <1>1, <1>16 DEF ConnectionInv, Answered
  <2> QED
    BY <1>16, <2>1, <2>2, <2>3 DEF Answered
<1>18. Arriving' /\ Arrived'
  <2>1. Arriving'
    BY <1>1, <1>2, <1>10, <1>11, <1>13, <1>16 DEF ConnectionInv, Arriving
  <2>2. Arrived'
    BY <1>1 DEF Arrived
  <2> QED
    BY <2>1, <2>2
<1>19. Values' /\ Stage'
  <2>1. Values'
    BY <1>1, <1>11 DEF ConnectionInv, Values
  <2>2. Stage'
    BY <1>1, <1>11 DEF ConnectionInv, Stage
  <2> QED
    BY <2>1, <2>2
<1>20. Stored'
  BY <1>1, <1>11 DEF ConnectionInv, Stored, Bodies
<1> QED
  BY <1>13, <1>15, <1>17, <1>18, <1>19, <1>20 DEF ConnectionInv

\* A sequence of the numbers up to k, as the body arrives.
LEMMA Prolonged ==
  ASSUME NEW k \in Nat, NEW n \in Nat
  PROVE  Extended([i \in 1..k |-> i], k, [i \in 1..n |-> k + i])
           = [i \in 1..k + n |-> i]
<1> DEFINE old == [i \in 1..k |-> i]
           chunk == [i \in 1..n |-> k + i]
<1>1. old \in Seq(Nat) /\ Len(old) = k /\ chunk \in Seq(Nat) /\ Len(chunk) = n
  OBVIOUS
<1>2. SubSeq(old, 1, k) = old
  <2> HIDE DEF old
  <2> QED
    BY <1>1
<1>3. old \o chunk = [i \in 1..k + n |-> IF i <= k THEN old[i] ELSE chunk[i - k]]
  <2> HIDE DEF old, chunk
  <2>1. /\ old \o chunk \in Seq(Nat) /\ Len(old \o chunk) = k + n
        /\ \A i \in 1..k + n :
             (old \o chunk)[i] = IF i <= k THEN old[i] ELSE chunk[i - k]
    BY <1>1, ConcatProperties
  <2>2. PICK both : both = old \o chunk
    OBVIOUS
  <2>3. both = [i \in 1..k + n |-> both[i]]
    <3>1. both \in Seq(Nat) /\ Len(both) = k + n
      BY <2>1, <2>2
    <3>2. both = [i \in 1..Len(both) |-> both[i]]
      BY <3>1
    <3> QED
      BY <3>1, <3>2
  <2>4. both = [i \in 1..k + n |-> IF i <= k THEN old[i] ELSE chunk[i - k]]
    BY <2>1, <2>2, <2>3
  <2> QED
    BY <2>2, <2>4
<1>4. \A i \in 1..k + n : (IF i <= k THEN old[i] ELSE chunk[i - k]) = i
  <2> TAKE i \in 1..k + n
  <2>1. CASE i <= k
    BY <2>1
  <2>2. CASE ~ i <= k
    <3>1. i - k \in 1..n /\ k + (i - k) = i
      BY <2>2
    <3> QED
      BY <2>2, <3>1
  <2> QED
    BY <2>1, <2>2
<1>5. old \o chunk = [i \in 1..k + n |-> i]
  <2> HIDE DEF old, chunk
  <2> QED
    BY <1>3, <1>4
<1> QED
  BY <1>2, <1>5 DEF Extended

\* Where neither the heap nor a pointer into it changes, no list does.
LEMMA ListsKept ==
  ASSUME ConnectionInv, UNCHANGED <<nodes, mosso, call, meta>>,
         Lists'["stream"] = Lists["stream"],
         Lists'["response"] = Lists["response"]
  PROVE  Owned(nodes', Lists') /\ Lists' = Lists
<1>1. \A y \in Slots : Lists'[y] = Lists[y]
  BY ListsAre, ListsAfter DEF Slots
<1>2. Lists' = Lists
  BY <1>1 DEF Lists
<1> QED
  BY <1>2 DEF ConnectionInv

\* simple_curl_write_body keeps what has come so far, and whose block it is.
LEMMA WriteBodyKeeps ==
  ASSUME ConnectionInv, UNCHANGED programVars, NEW n \in 1..reply.body,
         WriteBody(n)
  PROVE  ConnectionInv'
<1>1. /\ transfer # NULL /\ returned = NULL /\ call # NULL
      /\ transfer \in Locals /\ reply \in Replies
      /\ nodes' = nodes /\ returned' = NULL
      /\ UNCHANGED <<pc, options, mosso, strings, call, meta, error>>
  BY DEF ConnectionInv, Values, Stage, Answered, WriteBody, programVars
<1>2. /\ reply.passed \in Nat /\ reply.body \in 0..MaxBody /\ MaxBody \in Nat
      /\ n \in Nat /\ reply.passed + n <= reply.body
  <2>1. reply.passed \in Nat /\ reply.body \in 0..MaxBody /\ MaxBody \in Nat
    BY <1>1, ConnectionAssumption DEF Replies
  <2>2. n \in 1..BytesDue
    BY DEF WriteBody
  <2> QED
    BY <2>1, <2>2 DEF BytesDue
<1> DEFINE content == [i \in 1..reply.passed |-> i]
           chunk == [i \in 1..n |-> reply.passed + i]
           new == [i \in 1..reply.passed + n |-> i]
<1>3. transfer.recv \in Block /\ transfer.length = reply.passed
      /\ blocks[transfer.recv] = content
  BY <1>1 DEF Locals, ConnectionInv, Arriving
<1>4. Extended(blocks[transfer.recv], transfer.length, chunk) = new
  BY <1>2, <1>3, Prolonged
<1>5. PICK b \in Block :
        /\ b = transfer.recv \/ blocks[b] = FREED
        /\ blocks' = [blocks EXCEPT ![transfer.recv] = FREED, ![b] = new]
        /\ transfer' = [transfer EXCEPT !.recv = b, !.length = @ + n]
  BY <1>4 DEF WriteBody
<1>6. new \in Seq(1..MaxBody) /\ new # FREED
  <2>1. new \in Seq(1..MaxBody)
    BY <1>2
  <2>2. new \in Seq(Nat)
    BY <1>2
  <2> QED
    BY <2>1, <2>2, SimpleCurlAssumption
<1>7. blocks \in [Block -> Seq(1..MaxBody) \cup {FREED}]
  BY DEF ConnectionInv, Values
<1> HIDE DEF new
<1>8. /\ blocks' \in [Block -> Seq(1..MaxBody) \cup {FREED}]
      /\ blocks'[b] = new
      /\ b # transfer.recv => blocks'[transfer.recv] = FREED
      /\ \A c \in Block : c # b /\ c # transfer.recv => blocks'[c] = blocks[c]
  BY <1>3, <1>5, <1>6, <1>7
<1>9. /\ transfer' \in Locals /\ transfer'.recv = b
      /\ transfer'.length = reply.passed + n /\ transfer'.stream = transfer.stream
      /\ transfer'.request = transfer.request
      /\ transfer'.wantBody = transfer.wantBody
      /\ transfer'.wantHeaders = transfer.wantHeaders
  <2>1. transfer.length \in Nat /\ transfer.length + n \in Nat
    BY <1>2, <1>3
  <2>2. transfer' = [transfer EXCEPT !.recv = b, !.length = transfer.length + n]
    BY <1>5
  <2> QED
    BY <1>1, <1>3, <2>1, <2>2 DEF Locals
<1>10. transfer' # NULL
  BY <1>9, SimpleCurlAssumption
<1>11. /\ reply' \in Replies /\ reply'.passed = reply.passed + n
       /\ reply'.kind = reply.kind /\ reply'.code = reply.code
       /\ reply'.keys = reply.keys /\ reply'.body = reply.body
       /\ reply'.delivered = reply.delivered
  <2>1. reply' = [reply EXCEPT !.passed = @ + n]
    BY DEF WriteBody
  <2> QED
    BY <1>1, <1>2, <2>1 DEF Replies
<1>12. Owned(nodes', Lists') /\ Lists' = Lists
  <2>1. Lists'["stream"] = Lists["stream"] /\ Lists'["response"] = Lists["response"]
    BY <1>1, <1>9, <1>10, ListsAre, ListsAfter
  <2> QED
    BY <1>1, <2>1, ListsKept
<1>13. Sent' /\ Tagged'
  <2>1. \A y \in {"auth", "request", "tags"} :
          Keys(nodes', Lists[y]) = Keys(nodes, Lists[y])
    BY <1>1
  <2> QED
    BY <1>1, <1>9, <2>1, KeysKept DEF ConnectionInv, Sent
<1>14. Answered' /\ Arriving' /\ Arrived'
  <2>1. Answered'
    BY <1>1, <1>2, <1>11 DEF ConnectionInv, Answered, Granting
  <2>2. Arriving'
    BY <1>1, <1>8, <1>9, <1>10, <1>11 DEF ConnectionInv, Arriving, new
  <2>3. Arrived'
    BY <1>1 DEF Arrived
  <2> QED
    BY <2>1, <2>2, <2>3
<1>15. Values' /\ Stage'
  <2>1. Values'
    BY <1>1, <1>8, <1>9 DEF ConnectionInv, Values
  <2>2. Stage'
    BY <1>1, <1>10 DEF ConnectionInv, Stage
  <2> QED
    BY <2>1, <2>2
<1>16. Stored'
  <2>1. {c \in Block : blocks[c] # FREED} = {transfer.recv}
    <3>1. Bodies = {transfer.recv}
      BY <1>1, <1>3, SimpleCurlAssumption DEF Bodies
    <3> QED
      BY <3>1 DEF ConnectionInv, Stored
  <2>2. Bodies' = {b}
    BY <1>1, <1>5, <1>9, <1>10, SimpleCurlAssumption DEF Bodies
  <2>3. {c \in Block : blocks'[c] # FREED} = {b}
    BY <1>3, <1>6, <1>8, <2>1
  <2> QED
    BY <1>1, <2>2, <2>3 DEF ConnectionInv, Stored
<1> QED
  BY <1>12, <1>13, <1>14, <1>15, <1>16 DEF ConnectionInv

\* The failure path frees what was received, and nothing of the caller.
LEMMA PerformFailsKeeps ==
  ASSUME ConnectionInv, UNCHANGED programVars, PerformFails
  PROVE  ConnectionInv'
<1>1. /\ transfer # NULL /\ returned = NULL /\ call # NULL
      /\ transfer \in Locals /\ reply \in Replies
      /\ nodes' = FreeAll(nodes, transfer.stream)
      /\ blocks' = [blocks EXCEPT ![transfer.recv] = FREED]
      /\ returned' = [code |-> 0, body |-> NULL, headers |-> NULL]
      /\ transfer' = NULL /\ reply' = reply
      /\ UNCHANGED <<pc, options, mosso, strings, call, meta, error>>
  BY DEF ConnectionInv, Values, Stage, Answered, PerformFails, programVars
<1>2. /\ returned' \in Response /\ returned'.code = 0
      /\ returned'.body = NULL /\ returned'.headers = NULL
  BY <1>1 DEF Response
<1>3. Differ(Lists, Lists', "stream") /\ Lists'["stream"] = NULL
      /\ Lists["stream"] = transfer.stream
  <2>1. Lists'["stream"] = NULL /\ Lists'["response"] = NULL
        /\ Lists["stream"] = transfer.stream /\ Lists["response"] = NULL
    BY <1>1, <1>2, ListsAre, ListsAfter
  <2>2. \A y \in Slots : y # "stream" => Lists'[y] = Lists[y]
    BY <1>1, <2>1, ListsAre, ListsAfter DEF Slots
  <2>3. DOMAIN Lists = Slots /\ DOMAIN Lists' = Slots /\ "stream" \in Slots
    BY ListsAre, ListsAfter DEF Slots
  <2> QED
    BY <2>1, <2>2, <2>3 DEF Differ
<1>4. Owned(nodes', Lists') /\ SameLists(nodes, nodes', Lists, "stream")
  BY <1>1, <1>3, FreeOwned DEF ConnectionInv
<1>5. Sent' /\ Tagged'
  <2>1. \A y \in {"auth", "request", "tags"} :
          Keys(nodes', Lists[y]) = Keys(nodes, Lists[y])
    BY <1>4, ListsAre DEF SameLists, Slots
  <2> QED
    BY <1>1, <2>1, KeysKept DEF ConnectionInv, Sent
<1>6. Answered' /\ Arriving' /\ Arrived'
  BY <1>1, <1>2 DEF ConnectionInv, Answered, Arriving, Arrived, Granting
<1>7. transfer.recv \in Block /\ blocks \in [Block -> Seq(1..MaxBody) \cup {FREED}]
  BY <1>1 DEF Locals, ConnectionInv, Values
<1>8. Values' /\ Stage'
  <2>1. Values'
    BY <1>1, <1>2, <1>7 DEF ConnectionInv, Values
  <2>2. Stage'
    BY <1>1 DEF ConnectionInv, Stage
  <2> QED
    BY <2>1, <2>2
<1>9. Stored'
  <2>1. {c \in Block : blocks[c] # FREED} = {transfer.recv}
    <3>1. Bodies = {transfer.recv}
      BY <1>1, <1>7, SimpleCurlAssumption DEF Bodies
    <3> QED
      BY <3>1 DEF ConnectionInv, Stored
  <2>2. Bodies' = {}
    BY <1>1, <1>2 DEF Bodies
  <2>3. {c \in Block : blocks'[c] # FREED} = {}
    BY <1>1, <1>7, <2>1
  <2> QED
    BY <1>1, <2>2, <2>3 DEF ConnectionInv, Stored
<1> QED
  BY <1>4, <1>5, <1>6, <1>8, <1>9 DEF ConnectionInv

\* A node that stands for a list leads to the root, which does as well.
LEMMA RootFound ==
  ASSUME NEW heap, NEW n, n # NULL, IsChain(heap, n)
  PROVE  /\ heap[n].root \in ToSet(Chain(heap, n))
         /\ heap[n].root = Chain(heap, n)[1]
         /\ heap[n].root # NULL /\ heap[n].root \in Node
         /\ Chain(heap, heap[n].root) = Chain(heap, n)
<1> DEFINE s == Chain(heap, n)
<1>1. IsList(heap, s) /\ n \in ToSet(s)
  BY DEF IsChain
<1> HIDE DEF s
<1>2. s \in Seq(Node) /\ s # <<>>
  BY <1>1 DEF IsList, Linked
<1>3. 1 \in 1..Len(s) /\ s[1] \in ToSet(s)
  BY <1>2 DEF ToSet
<1>4. heap[n].root = s[1]
  <2>1. PICK i \in 1..Len(s) : n = s[i]
    BY <1>1, <1>2 DEF ToSet
  <2> QED
    BY <1>1, <2>1 DEF IsList
<1>5. Chain(heap, s[1]) = s /\ s[1] \in Node /\ s[1] # NULL
  BY <1>1, <1>3, ListChain
<1> QED
  BY <1>3, <1>4, <1>5 DEF s

\* On success what was received is handed over, or freed.
LEMMA PerformDoneKeeps ==
  ASSUME ConnectionInv, UNCHANGED programVars, PerformDone
  PROVE  ConnectionInv'
<1> DEFINE stream == transfer.stream
<1>1. /\ transfer # NULL /\ returned = NULL /\ call # NULL
      /\ transfer \in Locals /\ reply \in Replies
      /\ transfer' = NULL /\ reply' = reply
      /\ UNCHANGED <<pc, options, mosso, strings, call, meta, error>>
  BY DEF ConnectionInv, Values, Stage, Answered, PerformDone, Performed,
         programVars
<1>2. /\ transfer.wantHeaders => stream # NULL
      /\ nodes' = IF transfer.wantHeaders THEN nodes ELSE FreeAll(nodes, stream)
      /\ blocks' = IF transfer.wantBody THEN blocks
                   ELSE [blocks EXCEPT ![transfer.recv] = FREED]
      /\ returned' =
           [code |-> reply.code,
            body |-> IF transfer.wantBody THEN transfer.recv ELSE NULL,
            headers |-> IF transfer.wantHeaders THEN nodes[stream].root ELSE NULL]
  BY DEF PerformDone, NoHeaderLine, HeadersDropped
<1>3. /\ transfer.wantBody \in BOOLEAN /\ transfer.wantHeaders \in BOOLEAN
      /\ transfer.recv \in Block /\ transfer.recv # NULL
      /\ transfer.wantBody = HasBody(call.op)
      /\ transfer.wantHeaders = (call.op \in Asking)
  <2>1. /\ transfer.wantBody \in BOOLEAN /\ transfer.wantHeaders \in BOOLEAN
        /\ transfer.recv \in Block
    BY <1>1 DEF Locals
  <2>2. /\ transfer.wantBody = HasBody(call.op)
        /\ transfer.wantHeaders = (call.op \in Asking)
    BY <1>1 DEF ConnectionInv, Sent
  <2> QED
    BY <2>1, <2>2, SimpleCurlAssumption
<1>4. /\ Owned(nodes, Lists) /\ IsChain(nodes, stream)
      /\ Lists["stream"] = stream /\ Lists["response"] = NULL
      /\ Keys(nodes, stream) = reply.delivered
  <2>1. Lists["stream"] = stream /\ Lists["response"] = NULL
    BY <1>1, ListsAre
  <2>2. Owned(nodes, Lists) /\ IsChain(nodes, Lists["stream"])
    BY ListsAre DEF ConnectionInv, Owned, Slots
  <2>3. Keys(nodes, stream) = reply.delivered
    BY <1>1 DEF ConnectionInv, Arriving
  <2> QED
    BY <2>1, <2>2, <2>3
<1>5. /\ returned'.code = reply.code
      /\ returned' # NULL
      /\ returned'.body = IF transfer.wantBody THEN transfer.recv ELSE NULL
      /\ returned'.headers = IF transfer.wantHeaders THEN nodes[stream].root ELSE NULL
      /\ returned' \in Response
  <2>1. /\ returned'.code = reply.code /\ reply.code \in Nat
        /\ returned'.body = IF transfer.wantBody THEN transfer.recv ELSE NULL
        /\ returned'.headers = IF transfer.wantHeaders THEN nodes[stream].root ELSE NULL
    BY <1>1, <1>2 DEF Replies
  <2>2. transfer.wantHeaders => nodes[stream].root \in Node
    BY <1>2, <1>4, RootFound
  <2>3. returned' \in Response
    BY <1>2, <1>3, <2>1, <2>2 DEF Response
  <2> QED
    BY <2>1, <2>3, SimpleCurlAssumption
<1>6. /\ Lists'["stream"] = NULL /\ Lists'["response"] = returned'.headers
      /\ \A y \in Slots : y # "stream" /\ y # "response" => Lists'[y] = Lists[y]
      /\ DOMAIN Lists = Slots /\ DOMAIN Lists' = Slots
      /\ "stream" \in Slots /\ "response" \in Slots
  BY <1>1, <1>5, ListsAre, ListsAfter DEF Slots
<1>7. /\ Owned(nodes', Lists')
      /\ \A y \in {"auth", "request", "tags"} :
           Keys(nodes', Lists[y]) = Keys(nodes, Lists[y])
      /\ returned'.headers # NULL <=> transfer.wantHeaders
      /\ returned'.headers # NULL =>
           /\ returned'.headers = Chain(nodes', returned'.headers)[1]
           /\ Keys(nodes', returned'.headers) = reply.delivered
  <2>1. CASE transfer.wantHeaders
    <3>1. nodes' = nodes /\ stream # NULL /\ returned'.headers = nodes[stream].root
      BY <1>2, <1>5, <2>1
    <3>2. /\ returned'.headers \in ToSet(Chain(nodes, stream))
          /\ returned'.headers = Chain(nodes, stream)[1]
          /\ returned'.headers # NULL
          /\ Chain(nodes, returned'.headers) = Chain(nodes, stream)
      BY <1>4, <3>1, RootFound
    <3>3. Owned(nodes, Lists')
      BY <1>4, <1>6, <3>2, MoveOwned
    <3>4. Keys(nodes, returned'.headers) = reply.delivered
      BY <1>4, <3>2 DEF Keys
    <3> QED
      BY <2>1, <3>1, <3>2, <3>3, <3>4
  <2>2. CASE ~ transfer.wantHeaders
    <3>1. nodes' = FreeAll(nodes, stream) /\ returned'.headers = NULL
      BY <1>2, <1>5, <2>2
    <3>2. Differ(Lists, Lists', "stream")
      BY <1>4, <1>6, <3>1 DEF Differ
    <3>3. Owned(nodes', Lists') /\ SameLists(nodes, nodes', Lists, "stream")
      BY <1>4, <1>6, <3>1, <3>2, FreeOwned
    <3>4. \A y \in {"auth", "request", "tags"} :
            Keys(nodes', Lists[y]) = Keys(nodes, Lists[y])
      BY <1>6, <3>3 DEF SameLists, Slots
    <3> QED
      BY <2>2, <3>1, <3>3, <3>4
  <2> QED
    BY <1>3, <2>1, <2>2
<1>8. Sent' /\ Tagged'
  BY <1>1, <1>7, KeysKept DEF ConnectionInv, Sent
<1>9. /\ reply.keys = ToSet(reply.delivered) /\ reply.passed = reply.body
      /\ reply.body \in 0..MaxBody
  <2>1. reply.passed \in Nat /\ reply.body \in 0..MaxBody /\ MaxBody \in Nat
    BY <1>1, ConnectionAssumption DEF Replies
  <2>2. ToSet(reply.delivered) \subseteq reply.keys
    BY <1>1 DEF ConnectionInv, Answered
  <2>3. HeadersDue = {} /\ BytesDue = 0
    BY DEF PerformDone, Performed
  <2>4. reply.keys \ ToSet(reply.delivered) = {}
    BY <2>3 DEF HeadersDue
  <2>5. reply.body - reply.passed = 0 /\ reply.body \in Nat
    BY <2>1, <2>3 DEF BytesDue
  <2>6. reply.passed = reply.body
    BY <2>1, <2>5
  <2>7. reply.keys = ToSet(reply.delivered)
    BY <2>2, <2>4
  <2> QED
    BY <2>1, <2>6, <2>7
<1>10. Arriving' /\ Answered'
  BY <1>1 DEF ConnectionInv, Arriving, Answered, Granting
<1>11. blocks[transfer.recv] = [i \in 1..reply.body |-> i]
  BY <1>1, <1>9 DEF ConnectionInv, Arriving
<1>12. Arrived'
  <2>1. returned'.body # NULL <=> HasBody(call.op)
    BY <1>3, <1>5
  <2>2. returned'.body # NULL => blocks'[returned'.body] = [i \in 1..reply.body |-> i]
    BY <1>2, <1>5, <1>11
  <2>3. returned'.headers # NULL <=> call.op \in Asking
    BY <1>3, <1>7
  <2> QED
    BY <1>1, <1>5, <1>7, <1>9, <2>1, <2>2, <2>3 DEF Arrived
<1>13. blocks \in [Block -> Seq(1..MaxBody) \cup {FREED}]
  BY DEF ConnectionInv, Values
<1>14. Values' /\ Stage'
  <2>1. blocks' \in [Block -> Seq(1..MaxBody) \cup {FREED}]
    BY <1>2, <1>3, <1>13
  <2>2. Values'
    BY <1>1, <1>5, <2>1 DEF ConnectionInv, Values
  <2>3. Stage'
    BY <1>1 DEF ConnectionInv, Stage
  <2> QED
    BY <2>2, <2>3
<1>15. Stored'
  <2>1. {c \in Block : blocks[c] # FREED} = {transfer.recv}
    <3>1. Bodies = {transfer.recv}
      BY <1>1, <1>3 DEF Bodies
    <3> QED
      BY <3>1 DEF ConnectionInv, Stored
  <2>2. Bodies' = IF transfer.wantBody THEN {transfer.recv} ELSE {}
    BY <1>1, <1>3, <1>5 DEF Bodies
  <2>3. {c \in Block : blocks'[c] # FREED} = IF transfer.wantBody THEN {transfer.recv} ELSE {}
    BY <1>2, <1>3, <1>13, <2>1
  <2> QED
    BY <1>1, <2>2, <2>3 DEF ConnectionInv, Stored
<1> QED
  BY <1>7, <1>8, <1>10, <1>12, <1>14, <1>15 DEF ConnectionInv

LEMMA TransferKeeps ==
  ASSUME ConnectionInv, UNCHANGED programVars, Transfer
  PROVE  ConnectionInv'
<1>1. CASE \E key \in reply.keys : WriteHeader(key)
  BY <1>1, WriteHeaderKeeps
<1>2. CASE \E n \in 1..reply.body : WriteBody(n)
  BY <1>2, WriteBodyKeeps
<1>3. CASE PerformFails
  BY <1>3, PerformFailsKeeps
<1>4. CASE PerformDone
  BY <1>4, PerformDoneKeeps
<1> QED
  BY <1>1, <1>2, <1>3, <1>4 DEF Transfer

-----------------------------------------------------------------------------
(* The calls of mosso.h.                                                   *)

\* A call keeps the invariant if the list it sends is owned and carries its keys.
LEMMA CallKeeps ==
  ASSUME ConnectionInv, call = NULL,
         NEW op \in Ops, NEW path \in Path \cup {Root},
         NEW type \in {"file", "path"}, NEW marker \in Marker \cup {<<>>},
         NEW size \in 0..MaxBody, NEW own \in BOOLEAN,
         NEW list, list.last \in Node,
         Call(op, path, type, marker, size, own, list),
         UNCHANGED <<options, meta, error>>,
         own <=> op \in Owning,
         op \in {"auth", "meta"} => meta = NULL,
         op = "auth" => mosso'.fields = Account,
         mosso' \in Connections, mosso'.auth = NULL <=> op = "auth",
         strings' = options \cup mosso'.fields,
         Keys(list.heap, list.last) = RequestKeys(op),
         ~ own => list.last = mosso'.auth,
         mosso'.auth # NULL => Keys(list.heap, mosso'.auth) = <<"X-Auth-Token">>,
         meta # NULL => Keys(list.heap, meta.tag) \in Seq(Tags),
         Owned(list.heap, Lists')
  PROVE  ConnectionInv'
<1>0. CallMade(op, own, list)
  BY CallMakes
<1>1. /\ nodes' = list.heap /\ pc' = "calling" /\ returned' = NULL
      /\ call' \in Calls /\ call' # NULL
      /\ call'.op = op /\ call'.own = own /\ call'.headers = list.last
      /\ transfer' \in Locals /\ transfer' # NULL /\ transfer'.stream = NULL
      /\ transfer'.request = list.last /\ transfer'.wantBody = HasBody(op)
      /\ transfer'.wantHeaders = (op \in Asking)
      /\ blocks' \in [Block -> Seq(1..MaxBody) \cup {FREED}]
      /\ {b \in Block : blocks'[b] # FREED} = Bodies'
      /\ Answered' /\ Arriving' /\ Arrived'
  BY <1>0 DEF CallMade
<1>2. mosso' # NULL
  BY ConnectionAssumption
<1>3. Values'
  <2>1. mosso'.fields \subseteq Account \cup FromResponse
    BY DEF Connections
  <2>2. options \subseteq Credentials
    BY DEF ConnectionInv, Values
  <2> QED
    BY <1>1, <2>1, <2>2 DEF ConnectionInv, Values
<1>4. Stage'
  BY <1>1, <1>2 DEF ConnectionInv, Stage, Stops
<1>5. Stored'
  BY <1>1, <1>2 DEF Stored
<1>6. Sent'
  BY <1>1 DEF Sent
<1>7. Tagged'
  BY <1>1 DEF Tagged
<1> QED
  BY <1>1, <1>3, <1>4, <1>5, <1>6, <1>7 DEF ConnectionInv

\* What there is while no call is in progress.
LEMMA AtRest ==
  ASSUME ConnectionInv, pc = "ready"
  PROVE  /\ mosso # NULL /\ mosso \in Connections /\ mosso.auth # NULL
         /\ mosso.auth \in Node
         /\ call = NULL /\ transfer = NULL /\ returned = NULL
         /\ Lists["request"] = NULL /\ Lists["stream"] = NULL
         /\ Lists["response"] = NULL /\ Lists["auth"] = mosso.auth
         /\ Keys(nodes, mosso.auth) = <<"X-Auth-Token">>
         /\ strings = options \cup mosso.fields
         /\ IsHeap(nodes)
<1>1. /\ mosso # NULL /\ mosso \in Connections /\ mosso.auth # NULL
      /\ call = NULL /\ transfer = NULL /\ returned = NULL
  BY DEF ConnectionInv, Stage, Values
<1>2. mosso.auth \in Node
  BY <1>1 DEF Connections
<1>3. Keys(nodes, mosso.auth) = <<"X-Auth-Token">>
      /\ strings = options \cup mosso.fields /\ IsHeap(nodes)
  BY <1>1 DEF ConnectionInv, Sent, Stored, Owned
<1> QED
  BY <1>1, <1>2, <1>3, ListsAre

\* A call that sends the connection's own list.
LEMMA BorrowedKeeps ==
  ASSUME ConnectionInv, pc = "ready",
         NEW op \in {"meta", "list", "delete"}, NEW path \in Path,
         NEW type \in {"file", "path"}, NEW marker \in Marker \cup {<<>>},
         Call(op, path, type, marker, 0, FALSE, Authorized),
         op = "meta" => meta = NULL,
         UNCHANGED <<options, mosso, strings, meta, error>>
  PROVE  ConnectionInv'
<1>1. /\ mosso # NULL /\ mosso \in Connections /\ mosso.auth # NULL
      /\ mosso.auth \in Node
      /\ call = NULL /\ transfer = NULL /\ returned = NULL
      /\ Lists["request"] = NULL /\ Lists["stream"] = NULL
      /\ Lists["response"] = NULL
      /\ Keys(nodes, mosso.auth) = <<"X-Auth-Token">>
      /\ strings = options \cup mosso.fields
  BY AtRest
<1> DEFINE list == Authorized
<1>2. list.heap = nodes /\ list.last = mosso.auth /\ list.last \in Node
  BY <1>1 DEF Authorized
<1> HIDE DEF list
<1>3. op \in Ops /\ 0 \in 0..MaxBody /\ path \in Path \cup {Root} /\ op \notin Owning
      /\ RequestKeys(op) = <<"X-Auth-Token">>
  <2>1. MaxBody \in Nat
    BY ConnectionAssumption
  <2> QED
    BY <2>1 DEF Ops, Owning, RequestKeys
<1>4. Call(op, path, type, marker, 0, FALSE, list)
  BY DEF list
<1>5. nodes' = nodes /\ call' # NULL /\ ~ call'.own /\ transfer'.stream = NULL
      /\ returned' = NULL
  <2>1. CallMade(op, FALSE, list)
    BY <1>1, <1>2, <1>3, <1>4, CallMakes
  <2> QED
    BY <1>2, <2>1 DEF CallMade
<1>6. Owned(list.heap, Lists')
  <2>1. Lists'["stream"] = NULL /\ Lists'["response"] = NULL /\ Lists'["request"] = NULL
        /\ Lists'["auth"] = Lists["auth"] /\ Lists'["tags"] = Lists["tags"]
    BY <1>5, ListsAre, ListsAfter
  <2>2. \A y \in Slots : Lists'[y] = Lists[y]
    BY <1>1, <2>1 DEF Slots
  <2>3. Lists' = Lists
    BY <2>2 DEF Lists
  <2> QED
    BY <1>2, <2>3 DEF ConnectionInv
<1>7. meta # NULL => Keys(nodes, meta.tag) \in Seq(Tags)
  BY DEF ConnectionInv, Tagged
<1> QED
  BY <1>1, <1>2, <1>3, <1>4, <1>6, <1>7, CallKeeps

\* A call that makes a list and sends it, by any of its elements.
LEMMA OwnListKeeps ==
  ASSUME ConnectionInv, call = NULL,
         NEW op \in Owning, NEW path \in Path \cup {Root},
         NEW size \in 0..MaxBody,
         NEW list, Call(op, path, "file", <<>>, size, TRUE, list),
         NEW built, NEW keys, Building(nodes, built, keys), keys = RequestKeys(op),
         list.heap = built.heap,
         list.last \in ToSet(Chain(built.heap, built.last)),
         mosso' \in Connections,
         mosso'.auth = IF mosso = NULL THEN NULL ELSE mosso.auth,
         mosso'.auth = NULL <=> op = "auth",
         op = "auth" => meta = NULL /\ mosso'.fields = Account,
         strings' = options \cup mosso'.fields,
         UNCHANGED <<options, meta, error>>
  PROVE  ConnectionInv'
<1>1. /\ transfer = NULL /\ returned = NULL
      /\ Owned(nodes, Lists)
      /\ Lists["request"] = NULL /\ Lists["stream"] = NULL
      /\ Lists["response"] = NULL
  BY ListsAre DEF ConnectionInv, Stage
<1>2. list.last \in Node
  BY ChainNodes DEF Building
<1>3. op \in Ops /\ <<>> \in Marker \cup {<<>>}
  BY DEF Ops, Owning
<1>4. /\ call' # NULL /\ call'.own /\ call'.headers = list.last
      /\ transfer'.stream = NULL /\ returned' = NULL
  <2>1. CallMade(op, TRUE, list)
    BY <1>2, <1>3, CallMakes
  <2> QED
    BY <2>1 DEF CallMade
<1>5. mosso' # NULL
  BY ConnectionAssumption
<1>6. /\ Lists'["stream"] = NULL /\ Lists'["response"] = NULL
      /\ Lists'["request"] = list.last
      /\ Lists'["auth"] = Lists["auth"] /\ Lists'["tags"] = Lists["tags"]
  BY <1>4, <1>5, ListsAre, ListsAfter
<1>7. Differ(Lists, Lists', "request")
  <2>1. DOMAIN Lists = Slots /\ DOMAIN Lists' = Slots /\ "request" \in Slots
    BY ListsAre, ListsAfter DEF Slots
  <2> QED
    BY <1>1, <1>6, <2>1 DEF Differ, Slots
<1>8. /\ Owned(list.heap, Lists') /\ SameLists(nodes, list.heap, Lists, "request")
      /\ Keys(list.heap, list.last) = keys
  BY <1>1, <1>6, <1>7, BuiltOwned
<1>9. /\ Keys(list.heap, Lists["auth"]) = Keys(nodes, Lists["auth"])
      /\ Keys(list.heap, Lists["tags"]) = Keys(nodes, Lists["tags"])
  BY <1>8, ListsAre DEF SameLists, Slots
<1>10. mosso'.auth # NULL => Keys(list.heap, mosso'.auth) = <<"X-Auth-Token">>
  <2>1. mosso'.auth # NULL => mosso # NULL /\ mosso'.auth = Lists["auth"]
    BY ListsAre
  <2> QED
    BY <1>9, <2>1 DEF ConnectionInv, Sent
<1>11. meta # NULL => Keys(list.heap, meta.tag) \in Seq(Tags)
  BY <1>9, ListsAre DEF ConnectionInv, Tagged
<1>12. op # "meta"
  BY DEF Owning
<1> QED
  BY <1>2, <1>3, <1>8, <1>10, <1>11, <1>12, CallKeeps

LEMMA GetObjectMetaKeeps ==
  ASSUME ConnectionInv, NEW p \in Path, GetObjectMeta(p)
  PROVE  ConnectionInv'
  BY BorrowedKeeps DEF GetObjectMeta

LEMMA ListObjectsKeeps ==
  ASSUME ConnectionInv, NEW p \in Path, NEW marker \in Marker \cup {<<>>},
         ListObjects(p, marker)
  PROVE  ConnectionInv'
  BY BorrowedKeeps DEF ListObjects

LEMMA DeleteObjectKeeps ==
  ASSUME ConnectionInv, NEW p \in Path, DeleteObject(p)
  PROVE  ConnectionInv'
  BY BorrowedKeeps DEF DeleteObject

\* One key of the program is enough for a node.
LEMMA HeadersAreKeys ==
  /\ Headers \subseteq Key /\ Tags \subseteq Key
  /\ {"X-Auth-Token", "Range", "Content-Length", "Content-Type",
      "X-Auth-User", "X-Auth-Key"} \subseteq Key
  BY ConnectionAssumption DEF Headers, AuthHeaders

\* What the sequences of up to three keys are that a request is built with.
LEMMA OneKey ==
  ASSUME NEW a
  PROVE  Append(<<>>, a) = <<a>>
  OBVIOUS

\* Adding one header to a copy of the authentication header.
LEMMA TwoKeys ==
  ASSUME NEW a, NEW b
  PROVE  Append(<<a>>, b) = <<a, b>>
<1> DEFINE S == {a, b}
<1>1. <<a>> \in Seq(S) /\ <<a, b>> \in Seq(S) /\ b \in S
  OBVIOUS
<1>2. PICK x : x = Append(<<a>>, b)
  OBVIOUS
<1>3. PICK y : y = <<a, b>>
  OBVIOUS
<1>4. x \in Seq(S) /\ Len(x) = 2 /\ x[1] = a /\ x[2] = b
  <2> HIDE DEF S
  <2>1. Len(<<a>>) = 1 /\ <<a>>[1] = a
    OBVIOUS
  <2>2. /\ Append(<<a>>, b) \in Seq(S) /\ Len(Append(<<a>>, b)) = 2
        /\ Append(<<a>>, b)[2] = b /\ Append(<<a>>, b)[1] = a
    BY <1>1, <2>1, AppendProperties
  <2> QED
    BY <1>2, <2>2
<1>5. y \in Seq(S) /\ Len(y) = 2 /\ y[1] = a /\ y[2] = b
  BY <1>1, <1>3
<1>6. \A i \in 1..Len(x) : x[i] = y[i]
  BY <1>4, <1>5
<1> HIDE DEF S
<1>7. x = y
  BY <1>4, <1>5, <1>6, SeqEqual
<1> QED
  BY <1>2, <1>3, <1>7

\* Adding two of them.
LEMMA ThreeKeys ==
  ASSUME NEW a, NEW b, NEW c
  PROVE  Append(<<a, b>>, c) = <<a, b, c>>
<1> DEFINE S == {a, b, c}
<1>1. <<a, b>> \in Seq(S) /\ <<a, b, c>> \in Seq(S) /\ c \in S
  OBVIOUS
<1>2. PICK x : x = Append(<<a, b>>, c)
  OBVIOUS
<1>3. PICK y : y = <<a, b, c>>
  OBVIOUS
<1>4. x \in Seq(S) /\ Len(x) = 3 /\ x[1] = a /\ x[2] = b /\ x[3] = c
  <2> HIDE DEF S
  <2>1. Len(<<a, b>>) = 2 /\ <<a, b>>[1] = a /\ <<a, b>>[2] = b
    OBVIOUS
  <2>2. /\ Append(<<a, b>>, c) \in Seq(S) /\ Len(Append(<<a, b>>, c)) = 3
        /\ Append(<<a, b>>, c)[3] = c
        /\ Append(<<a, b>>, c)[1] = a /\ Append(<<a, b>>, c)[2] = b
    BY <1>1, <2>1, AppendProperties
  <2> QED
    BY <1>2, <2>2
<1>5. y \in Seq(S) /\ Len(y) = 3 /\ y[1] = a /\ y[2] = b /\ y[3] = c
  BY <1>1, <1>3
<1>6. \A i \in 1..Len(x) : x[i] = y[i]
  BY <1>4, <1>5
<1> HIDE DEF S
<1>7. x = y
  BY <1>4, <1>5, <1>6, SeqEqual
<1> QED
  BY <1>2, <1>3, <1>7

\* A list under construction is extended by one key, while there is room.
LEMMA OneMore ==
  ASSUME NEW heap, NEW list, NEW keys, Building(heap, list, keys),
         NEW key \in Key, NEW count \in Nat, Room(list.heap, count + 1)
  PROVE  /\ Building(heap, Add(list, key), Append(keys, key))
         /\ Room(Add(list, key).heap, count)
         /\ list.last # NULL =>
              list.last \in ToSet(Chain(Add(list, key).heap, Add(list, key).last))
         /\ Add(list, key).last \in
              ToSet(Chain(Add(list, key).heap, Add(list, key).last))
<1> DEFINE grown == Add(list, key)
<1>1. IsFiniteSet(Free(list.heap)) /\ Cardinality(Free(list.heap)) \in Nat
  <2>1. Free(list.heap) \in SUBSET Node
    BY DEF Free
  <2> QED
    BY <2>1, FS_Subset, FS_CardinalityType, LinkedListsAssumption
<1>2. Free(list.heap) # {}
  BY <1>1, FS_EmptySet DEF Room
<1>3. /\ Building(heap, grown, Append(keys, key))
      /\ grown.last \in Free(list.heap)
      /\ Free(grown.heap) = Free(list.heap) \ {grown.last}
      /\ Chain(grown.heap, grown.last) = Append(Chain(list.heap, list.last), grown.last)
  BY <1>2, AddBuilds
<1> HIDE DEF grown
<1>4. Cardinality(Free(grown.heap)) = Cardinality(Free(list.heap)) - 1
  BY <1>1, <1>3, FS_RemoveElement
<1>5. Room(grown.heap, count)
  BY <1>1, <1>4 DEF Room
<1>6. /\ Chain(list.heap, list.last) \in Seq(Node)
      /\ list.last # NULL => list.last \in ToSet(Chain(list.heap, list.last))
  BY ChainNodes DEF Building
<1>7. grown.last \in Node
  BY <1>3 DEF Free
<1>8. ToSet(Chain(grown.heap, grown.last))
        = ToSet(Chain(list.heap, list.last)) \cup {grown.last}
  <2>1. PICK old : old = Chain(list.heap, list.last)
    OBVIOUS
  <2>2. old \in Seq(Node) /\ Len(old) \in Nat
    BY <1>6, <2>1
  <2>3. /\ Len(Append(old, grown.last)) = Len(old) + 1
        /\ \A i \in 1..Len(old) : Append(old, grown.last)[i] = old[i]
        /\ Append(old, grown.last)[Len(old) + 1] = grown.last
        /\ Append(old, grown.last) \in Seq(Node)
    BY <1>7, <2>2, AppendProperties
  <2>4. DOMAIN Append(old, grown.last) = 1..Len(old) + 1 /\ DOMAIN old = 1..Len(old)
    BY <2>2, <2>3
  <2>5. 1..Len(old) + 1 = 1..Len(old) \cup {Len(old) + 1}
    BY <2>2
  <2>6. PICK longer : longer = Append(old, grown.last)
    OBVIOUS
  <2>7. ToSet(longer) = ToSet(old) \cup {grown.last}
    <3>1. ToSet(longer) = {longer[i] : i \in DOMAIN longer}
          /\ ToSet(old) = {old[i] : i \in DOMAIN old}
      BY DEF ToSet
    <3>2. \A i \in 1..Len(old) : longer[i] = old[i]
      BY <2>3, <2>6
    <3>3. longer[Len(old) + 1] = grown.last
          /\ DOMAIN longer = 1..Len(old) \cup {Len(old) + 1} /\ DOMAIN old = 1..Len(old)
      BY <2>3, <2>4, <2>5, <2>6
    <3> QED
      BY <3>1, <3>2, <3>3
  <2> QED
    BY <1>3, <2>1, <2>6, <2>7
<1>9. /\ list.last # NULL =>
           list.last \in ToSet(Chain(grown.heap, grown.last))
      /\ grown.last \in ToSet(Chain(grown.heap, grown.last))
  BY <1>6, <1>8
<1> QED
  BY <1>3, <1>5, <1>9 DEF grown

\* The copy of the connection's list.
LEMMA AuthCopied ==
  ASSUME ConnectionInv, pc = "ready", NEW count \in Nat,
         Room(nodes, Len(Keys(nodes, mosso.auth)) + count)
  PROVE  /\ Building(nodes, Copy(nodes, mosso.auth), <<"X-Auth-Token">>)
         /\ Copy(nodes, mosso.auth).last # NULL
         /\ Room(Copy(nodes, mosso.auth).heap, count)
<1>1. Keys(nodes, mosso.auth) = <<"X-Auth-Token">> /\ IsHeap(nodes)
  BY AtRest
<1> DEFINE keys == <<"X-Auth-Token">>
           copy == AddAll(Empty(nodes), keys)
<1>2. keys \in Seq(Key) /\ Len(keys) = 1 /\ keys # <<>>
  BY HeadersAreKeys
<1>3. Copy(nodes, mosso.auth) = copy
  BY <1>1 DEF Copy
<1> HIDE DEF keys
<1>4. Cardinality(Free(nodes)) \in Nat /\ Cardinality(Free(nodes)) >= 1 + count
  <2>1. Free(nodes) \in SUBSET Node
    BY DEF Free
  <2>2. Cardinality(Free(nodes)) \in Nat
    BY <2>1, FS_Subset, FS_CardinalityType, LinkedListsAssumption
  <2>3. Room(nodes, 1 + count)
    BY <1>1, <1>2 DEF keys
  <2> QED
    BY <2>2, <2>3 DEF Room
<1>5. Room(nodes, Len(keys))
  BY <1>2, <1>4 DEF Room
<1>6. /\ Building(nodes, copy, keys)
      /\ Cardinality(Free(copy.heap)) = Cardinality(Free(nodes)) - Len(keys)
      /\ copy.last # NULL
  BY <1>1, <1>2, <1>5, AddAllBuilds
<1>7. Room(copy.heap, count)
  BY <1>2, <1>4, <1>6 DEF Room
<1> QED
  BY <1>3, <1>6, <1>7 DEF keys

LEMMA ReadObjectKeeps ==
  ASSUME ConnectionInv, NEW p \in Path, NEW size \in 1..MaxBody,
         ReadObject(p, size)
  PROVE  ConnectionInv'
<1> DEFINE copy == Copy(nodes, mosso.auth)
           built == Add(copy, "Range")
           list == WithRange(nodes, mosso.auth)
<1>1. /\ pc = "ready" /\ Room(nodes, Len(Keys(nodes, mosso.auth)) + 1)
      /\ Call("read", p, "file", <<>>, size, TRUE, list)
      /\ UNCHANGED <<options, mosso, strings, meta, error>>
  BY DEF ReadObject
<1>2. list.heap = built.heap /\ list.last = copy.last
  BY DEF WithRange
<1> HIDE DEF list, copy
<1>3. Building(nodes, copy, <<"X-Auth-Token">>) /\ copy.last # NULL
      /\ Room(copy.heap, 0 + 1)
  BY <1>1, AuthCopied DEF copy
<1> HIDE DEF built
<1>4. PICK keys : keys = Append(<<"X-Auth-Token">>, "Range")
  OBVIOUS
<1>5. Building(nodes, built, keys)
      /\ copy.last \in ToSet(Chain(built.heap, built.last))
  <2>1. PICK first : first = <<"X-Auth-Token">>
    OBVIOUS
  <2>2. Building(nodes, copy, first)
    BY <1>3, <2>1
  <2>3. Building(nodes, built, Append(first, "Range"))
        /\ copy.last \in ToSet(Chain(built.heap, built.last))
    BY <1>3, <2>2, HeadersAreKeys, OneMore DEF built
  <2> QED
    BY <1>4, <2>1, <2>3
<1>6. keys = RequestKeys("read")
  BY <1>4, TwoKeys DEF RequestKeys
<1>7. /\ mosso # NULL /\ mosso \in Connections /\ mosso.auth # NULL
      /\ call = NULL /\ strings = options \cup mosso.fields
  BY <1>1, AtRest
<1>8. "read" \in Owning /\ p \in Path \cup {Root} /\ size \in 0..MaxBody
      /\ "read" # "auth"
  <2>1. MaxBody \in Nat
    BY ConnectionAssumption
  <2> QED
    BY <2>1 DEF Owning
<1>9. list.last \in ToSet(Chain(built.heap, built.last))
  BY <1>2, <1>5
<1> QED
  BY <1>1, <1>2, <1>5, <1>6, <1>7, <1>8, <1>9, OwnListKeeps

LEMMA CreateDirectoryKeeps ==
  ASSUME ConnectionInv, NEW p \in Path, CreateDirectory(p)
  PROVE  ConnectionInv'
<1> DEFINE copy == Copy(nodes, mosso.auth)
           first == Add(copy, "Content-Length")
           list == Add(first, "Content-Type")
<1>1. /\ pc = "ready" /\ Room(nodes, Len(Keys(nodes, mosso.auth)) + 2)
      /\ Call("create", p, "file", <<>>, 0, TRUE, list)
      /\ UNCHANGED <<options, mosso, strings, meta, error>>
  BY DEF CreateDirectory
<1> HIDE DEF copy
<1>2. PICK sent : sent = <<"X-Auth-Token">>
  OBVIOUS
<1>3. Building(nodes, copy, sent) /\ Room(copy.heap, 1 + 1)
  BY <1>1, <1>2, AuthCopied DEF copy
<1>4. PICK more : more = Append(sent, "Content-Length")
  OBVIOUS
<1>5. Building(nodes, first, more) /\ Room(first.heap, 0 + 1)
  BY <1>3, <1>4, HeadersAreKeys, OneMore
<1> HIDE DEF first
<1>6. PICK keys : keys = Append(more, "Content-Type")
  OBVIOUS
<1>7. Building(nodes, list, keys)
      /\ list.last \in ToSet(Chain(list.heap, list.last))
  BY <1>5, <1>6, HeadersAreKeys, OneMore
<1>8. keys = RequestKeys("create")
  <2>1. more = <<"X-Auth-Token", "Content-Length">>
    BY <1>2, <1>4, TwoKeys
  <2>2. keys = <<"X-Auth-Token", "Content-Length", "Content-Type">>
    BY <1>6, <2>1, ThreeKeys
  <2> QED
    BY <2>2 DEF RequestKeys
<1>9. /\ mosso # NULL /\ mosso \in Connections /\ mosso.auth # NULL
      /\ call = NULL /\ strings = options \cup mosso.fields
  BY <1>1, AtRest
<1>10. "create" \in Owning /\ p \in Path \cup {Root} /\ 0 \in 0..MaxBody
       /\ "create" # "auth"
  <2>1. MaxBody \in Nat
    BY ConnectionAssumption
  <2> QED
    BY <2>1 DEF Owning
<1> HIDE DEF list
<1> QED
  BY <1>1, <1>7, <1>8, <1>9, <1>10, OwnListKeeps

LEMMA MossoInitKeeps ==
  ASSUME ConnectionInv, MossoInit
  PROVE  ConnectionInv'
<1> DEFINE none == Empty(nodes)
           first == Add(none, "X-Auth-User")
           list == Add(first, "X-Auth-Key")
<1>1. /\ pc = "mounting" /\ Room(nodes, 2)
      /\ mosso' = [fields |-> Account, auth |-> NULL, cache |-> "null"]
      /\ strings' = strings \cup Account
      /\ Call("auth", Root, "file", <<>>, 0, TRUE, list)
      /\ UNCHANGED <<options, meta, error>>
  BY DEF MossoInit
<1>2. /\ mosso = NULL /\ call = NULL /\ meta = NULL
      /\ strings = options /\ IsHeap(nodes)
  BY <1>1 DEF ConnectionInv, Stage, Stored, Owned
<1>3. Building(nodes, none, <<>>) /\ Room(none.heap, 1 + 1)
  BY <1>1, <1>2, NothingBuilt DEF Empty
<1> HIDE DEF none
<1>4. PICK nothing : nothing = <<>>
  OBVIOUS
<1>5. PICK more : more = Append(nothing, "X-Auth-User")
  OBVIOUS
<1>6. Building(nodes, first, more) /\ Room(first.heap, 0 + 1)
  <2>1. Building(nodes, none, nothing)
    BY <1>3, <1>4
  <2> QED
    BY <1>3, <1>5, <2>1, HeadersAreKeys, OneMore
<1> HIDE DEF first
<1>7. PICK keys : keys = Append(more, "X-Auth-Key")
  OBVIOUS
<1>8. Building(nodes, list, keys)
      /\ list.last \in ToSet(Chain(list.heap, list.last))
  BY <1>6, <1>7, HeadersAreKeys, OneMore
<1>9. keys = RequestKeys("auth")
  <2>1. more = <<"X-Auth-User">>
    BY <1>4, <1>5, OneKey
  <2>2. keys = <<"X-Auth-User", "X-Auth-Key">>
    BY <1>7, <2>1, TwoKeys
  <2> QED
    BY <2>2 DEF RequestKeys
<1>10. mosso' \in Connections /\ mosso'.auth = NULL /\ mosso'.fields = Account
  BY <1>1 DEF Connections
<1>11. "auth" \in Owning /\ Root \in Path \cup {Root} /\ 0 \in 0..MaxBody
  <2>1. MaxBody \in Nat
    BY ConnectionAssumption
  <2> QED
    BY <2>1 DEF Owning
<1> HIDE DEF list
<1> QED
  BY <1>1, <1>2, <1>8, <1>9, <1>10, <1>11, OwnListKeeps

-----------------------------------------------------------------------------
(* What becomes of what a request returns.                                 *)

\* What there is when a request has returned.
LEMMA AtReturn ==
  ASSUME ConnectionInv, returned # NULL
  PROVE  /\ call # NULL /\ call \in Calls /\ transfer = NULL
         /\ returned \in Response /\ mosso # NULL /\ mosso \in Connections
         /\ reply \in Replies
         /\ Lists["response"] = returned.headers
         /\ Lists["request"] = IF call.op \in Owning THEN call.headers ELSE NULL
         /\ Lists["stream"] = NULL
         /\ Lists["auth"] = mosso.auth
         /\ ~ HasBody(call.op) => returned.body = NULL
         /\ call.op \notin Asking => returned.headers = NULL
         /\ strings = options \cup mosso.fields
         /\ mosso.auth = NULL <=> call.op = "auth"
<1>1. /\ call # NULL /\ transfer = NULL /\ mosso # NULL
      /\ mosso.auth = NULL <=> call.op = "auth"
  BY DEF ConnectionInv, Stage
<1>2. /\ returned \in Response /\ mosso \in Connections /\ reply \in Replies
      /\ call \in Calls
  BY <1>1 DEF ConnectionInv, Values, Answered
<1>3. ~ HasBody(call.op) => returned.body = NULL
  BY DEF ConnectionInv, Arrived
<1>4. call.op \notin Asking => returned.headers = NULL
  BY DEF ConnectionInv, Arrived
<1>5. strings = options \cup mosso.fields
  BY <1>1 DEF ConnectionInv, Stored
<1>6. call.own <=> call.op \in Owning
  BY <1>1 DEF ConnectionInv, Sent
<1>7. /\ Lists["response"] = returned.headers
      /\ Lists["request"] = IF call.op \in Owning THEN call.headers ELSE NULL
      /\ Lists["stream"] = NULL
      /\ Lists["auth"] = mosso.auth
  BY <1>1, <1>6, ListsAre
<1> QED
  BY <1>1, <1>2, <1>3, <1>4, <1>5, <1>7

\* With the response body there is none left.
LEMMA NoneLeft ==
  ASSUME ConnectionInv, returned # NULL, blocks' = BodyFreed(returned.body)
  PROVE  /\ blocks' \in [Block -> Seq(1..MaxBody) \cup {FREED}]
         /\ {b \in Block : blocks'[b] # FREED} = {}
<1>1. blocks \in [Block -> Seq(1..MaxBody) \cup {FREED}]
  BY DEF ConnectionInv, Values
<1>2. transfer = NULL /\ returned.body \in Block \cup {NULL}
  BY AtReturn DEF Response
<1>3. Bodies = {returned.body} \ {NULL}
  BY <1>2 DEF Bodies
<1>4. {b \in Block : blocks[b] # FREED} = {returned.body} \ {NULL}
  BY <1>3 DEF ConnectionInv, Stored
<1>5. CASE returned.body = NULL
  <2>1. blocks' = blocks
    BY <1>5 DEF BodyFreed
  <2> QED
    BY <1>1, <1>4, <1>5, <2>1
<1>6. CASE returned.body # NULL
  <2>1. blocks' = [blocks EXCEPT ![returned.body] = FREED]
    BY <1>6 DEF BodyFreed
  <2> QED
    BY <1>1, <1>2, <1>4, <1>6, <2>1
<1> QED
  BY <1>5, <1>6

\* Back from a call, whatever was freed on the way, if what is left is owned.
LEMMA LeaveKeeps ==
  ASSUME ConnectionInv, returned # NULL, Leave,
         UNCHANGED <<transfer, options>>,
         blocks' = BodyFreed(returned.body),
         mosso' \in Connections, mosso'.auth # NULL,
         Keys(nodes', mosso'.auth) = <<"X-Auth-Token">>,
         strings' = options \cup mosso'.fields,
         meta' \in Metas \cup {NULL},
         meta' # NULL => Keys(nodes', meta'.tag) \in Seq(Tags),
         error' \in {"null", "set"},
         Owned(nodes', Lists')
  PROVE  ConnectionInv'
<1>1. pc' = "ready" /\ call' = NULL /\ returned' = NULL /\ transfer' = NULL
  BY AtReturn DEF Leave
<1>2. mosso' # NULL
  BY ConnectionAssumption
<1>3. /\ blocks' \in [Block -> Seq(1..MaxBody) \cup {FREED}]
      /\ {b \in Block : blocks'[b] # FREED} = {}
  BY NoneLeft
<1>4. Values'
  <2>1. mosso'.fields \subseteq Account \cup FromResponse
    BY DEF Connections
  <2>2. options \subseteq Credentials
    BY DEF ConnectionInv, Values
  <2> QED
    BY <1>1, <1>3, <2>1, <2>2 DEF ConnectionInv, Values
<1>5. Stage'
  BY <1>1, <1>2 DEF Stage, Stops
<1>6. Stored'
  <2>1. Bodies' = {}
    BY <1>1 DEF Bodies
  <2> QED
    BY <1>2, <1>3, <2>1 DEF Stored
<1>7. Sent'
  BY <1>1 DEF Sent
<1>8. Answered' /\ Arriving' /\ Arrived'
  BY <1>1 DEF Answered, Arriving, Arrived
<1>9. Tagged'
  BY DEF Tagged
<1> QED
  BY <1>4, <1>5, <1>6, <1>7, <1>8, <1>9 DEF ConnectionInv

\* A return that leaves connection and meta alone.
LEMMA BackKeeps ==
  ASSUME ConnectionInv, returned # NULL, Leave,
         UNCHANGED <<transfer, options, mosso, strings, meta>>,
         call.op # "auth",
         blocks' = BodyFreed(returned.body),
         error' \in {"null", "set"},
         \A y \in {"auth", "tags"} : Keys(nodes', Lists[y]) = Keys(nodes, Lists[y]),
         Owned(nodes', Lists')
  PROVE  ConnectionInv'
<1>1. /\ mosso # NULL /\ mosso \in Connections /\ mosso.auth # NULL
      /\ Lists["auth"] = mosso.auth
      /\ strings = options \cup mosso.fields
  BY AtReturn
<1>2. Keys(nodes', mosso.auth) = <<"X-Auth-Token">>
  <2>1. Keys(nodes', Lists["auth"]) = Keys(nodes, Lists["auth"])
    OBVIOUS
  <2>2. Keys(nodes, mosso.auth) = <<"X-Auth-Token">>
    BY <1>1 DEF ConnectionInv, Sent
  <2> QED
    BY <1>1, <2>1, <2>2
<1>3. meta # NULL => Keys(nodes', meta.tag) \in Seq(Tags)
  <2>1. Keys(nodes', Lists["tags"]) = Keys(nodes, Lists["tags"])
    OBVIOUS
  <2> QED
    BY <2>1, ListsAre DEF ConnectionInv, Tagged
<1>4. meta \in Metas \cup {NULL}
  BY DEF ConnectionInv, Values
<1> QED
  BY <1>1, <1>2, <1>3, <1>4, LeaveKeeps

\* The pointers that remain when the call has returned.
LEMMA ListsBack ==
  ASSUME ConnectionInv, returned # NULL, Leave, UNCHANGED transfer
  PROVE  /\ Lists'["request"] = NULL /\ Lists'["stream"] = NULL
         /\ Lists'["response"] = NULL
         /\ mosso' = mosso => Lists'["auth"] = Lists["auth"]
         /\ meta' = meta => Lists'["tags"] = Lists["tags"]
<1>1. call' = NULL /\ returned' = NULL /\ transfer' = NULL
  BY AtReturn DEF Leave
<1> QED
  BY <1>1, ListsAre, ListsAfter

LEMMA ErrorIs ==
  ASSUME ConnectionInv, NEW condition, ErrorUnless(condition)
  PROVE  error' \in {"null", "set"}
  BY DEF ConnectionInv, Values, ErrorUnless

LEMMA ReturnListKeeps ==
  ASSUME ConnectionInv, ReturnList \/ ReturnDelete
  PROVE  ConnectionInv'
<1>1. /\ returned # NULL /\ Leave /\ call.op \in {"list", "delete"}
      /\ UNCHANGED <<nodes, transfer, options, mosso, strings, meta>>
      /\ error' \in {"null", "set"}
  BY DEF ReturnList, ReturnDelete, Returned, ErrorUnless, ConnectionInv, Values
<1>2. call.op \notin Owning /\ call.op \notin Asking /\ call.op # "auth"
  BY <1>1 DEF Owning, Asking
<1>3. Lists' = Lists
  <2>1. \A y \in Slots : Lists'[y] = Lists[y]
    BY <1>1, <1>2, AtReturn, ListsBack DEF Slots
  <2> QED
    BY <2>1 DEF Lists
<1>4. Owned(nodes', Lists')
  BY <1>1, <1>3 DEF ConnectionInv
<1>5. blocks' = BodyFreed(returned.body)
  <2>1. CASE ReturnList
    BY <2>1 DEF ReturnList
  <2>2. CASE ReturnDelete
    <3>1. returned.body = NULL /\ blocks' = blocks
      BY <2>2, AtReturn DEF ReturnDelete, Returned, HasBody
    <3> QED
      BY <3>1 DEF BodyFreed
  <2> QED
    BY <2>1, <2>2
<1> QED
  BY <1>1, <1>2, <1>4, <1>5, BackKeeps

LEMMA ReturnCreateKeeps ==
  ASSUME ConnectionInv, ReturnCreate
  PROVE  ConnectionInv'
<1>1. /\ returned # NULL /\ Leave /\ call.op = "create"
      /\ nodes' = FreeAll(nodes, call.headers)
      /\ UNCHANGED <<blocks, transfer, options, mosso, strings, meta>>
      /\ error' \in {"null", "set"}
  BY DEF ReturnCreate, Returned, ErrorUnless, ConnectionInv, Values
<1>2. call.op \in Owning /\ call.op \notin Asking /\ ~ HasBody(call.op)
      /\ call.op # "auth"
  BY <1>1 DEF Owning, Asking, HasBody
<1>3. Lists["request"] = call.headers /\ Lists["response"] = NULL
      /\ Lists["stream"] = NULL /\ returned.body = NULL
  BY <1>1, <1>2, AtReturn
<1>4. Differ(Lists, Lists', "request") /\ Lists'["request"] = NULL
  <2>1. DOMAIN Lists = Slots /\ DOMAIN Lists' = Slots /\ "request" \in Slots
    BY ListsAre, ListsAfter DEF Slots
  <2> QED
    BY <1>1, <1>3, <2>1, ListsBack DEF Differ, Slots
<1>5. Owned(nodes', Lists') /\ SameLists(nodes, nodes', Lists, "request")
  BY <1>1, <1>3, <1>4, FreeOwned DEF ConnectionInv
<1>6. \A y \in {"auth", "tags"} : Keys(nodes', Lists[y]) = Keys(nodes, Lists[y])
  BY <1>5, ListsAre DEF SameLists, Slots
<1>7. blocks' = BodyFreed(returned.body)
  BY <1>1, <1>3 DEF BodyFreed
<1> QED
  BY <1>1, <1>2, <1>5, <1>6, <1>7, BackKeeps

LEMMA MetaFailsKeeps ==
  ASSUME ConnectionInv, MetaFails
  PROVE  ConnectionInv'
<1>1. /\ returned # NULL /\ Leave /\ call.op = "meta"
      /\ nodes' = FreeAll(nodes, returned.headers)
      /\ UNCHANGED <<blocks, transfer, options, mosso, strings, meta>>
      /\ error' \in {"null", "set"}
  BY DEF MetaFails, Returned, ErrorUnless
<1>2. call.op \notin Owning /\ ~ HasBody(call.op) /\ call.op # "auth"
  BY <1>1 DEF Owning, HasBody
<1>3. Lists["request"] = NULL /\ Lists["response"] = returned.headers
      /\ Lists["stream"] = NULL /\ returned.body = NULL
  BY <1>1, <1>2, AtReturn
<1>4. Differ(Lists, Lists', "response") /\ Lists'["response"] = NULL
  <2>1. DOMAIN Lists = Slots /\ DOMAIN Lists' = Slots /\ "response" \in Slots
    BY ListsAre, ListsAfter DEF Slots
  <2> QED
    BY <1>1, <1>3, <2>1, ListsBack DEF Differ, Slots
<1>5. Owned(nodes', Lists') /\ SameLists(nodes, nodes', Lists, "response")
  BY <1>1, <1>3, <1>4, FreeOwned DEF ConnectionInv
<1>6. \A y \in {"auth", "tags"} : Keys(nodes', Lists[y]) = Keys(nodes, Lists[y])
  BY <1>5, ListsAre DEF SameLists, Slots
<1>7. blocks' = BodyFreed(returned.body)
  BY <1>1, <1>3 DEF BodyFreed
<1> QED
  BY <1>1, <1>2, <1>5, <1>6, <1>7, BackKeeps

LEMMA ReturnReadKeeps ==
  ASSUME ConnectionInv, ReturnRead
  PROVE  ConnectionInv'
<1>1. /\ returned # NULL /\ Leave /\ call.op = "read"
      /\ nodes' = FreeAll(FreeAll(nodes, call.headers), returned.headers)
      /\ blocks' = BodyFreed(returned.body)
      /\ UNCHANGED <<transfer, options, mosso, strings, meta>>
      /\ error' \in {"null", "set"}
  BY DEF ReturnRead, Returned, ErrorUnless, ConnectionInv, Values
<1>2. call.op \in Owning /\ call.op # "auth"
  BY <1>1 DEF Owning
<1>3. Lists["request"] = call.headers /\ Lists["response"] = returned.headers
      /\ Lists["stream"] = NULL
  BY <1>1, <1>2, AtReturn
<1>4. /\ DOMAIN Lists = Slots /\ DOMAIN Lists' = Slots
      /\ "request" \in Slots /\ "response" \in Slots
      /\ Lists'["request"] = NULL /\ Lists'["response"] = NULL
      /\ \A y \in Slots : y # "request" /\ y # "response" => Lists'[y] = Lists[y]
  BY <1>1, <1>3, ListsAre, ListsAfter, ListsBack DEF Slots
<1>5. /\ Owned(nodes', Lists')
      /\ \A y \in Slots : y # "request" /\ y # "response" =>
           Keys(nodes', Lists[y]) = Keys(nodes, Lists[y])
  BY <1>1, <1>3, <1>4, TwoFreed DEF ConnectionInv
<1>6. \A y \in {"auth", "tags"} : Keys(nodes', Lists[y]) = Keys(nodes, Lists[y])
  BY <1>5 DEF Slots
<1> QED
  BY <1>1, <1>2, <1>5, <1>6, BackKeeps

LEMMA AuthFailsKeeps ==
  ASSUME ConnectionInv, AuthFails
  PROVE  ConnectionInv'
<1>1. /\ returned # NULL /\ call.op = "auth" /\ pc' = "refused"
      /\ nodes' = FreeAll(FreeAll(nodes, call.headers), returned.headers)
      /\ blocks' = BodyFreed(returned.body)
      /\ strings' = AllFreed(mosso) /\ mosso' = NULL /\ options' = {}
      /\ call' = NULL /\ returned' = NULL /\ reply' = NULL
      /\ UNCHANGED <<transfer, meta>>
      /\ error' \in {"null", "set"}
  BY DEF AuthFails, Returned, ConnectionInv, Values
<1>2. /\ call # NULL /\ transfer = NULL /\ transfer' = NULL
      /\ Lists["request"] = call.headers /\ Lists["response"] = returned.headers
      /\ Lists["stream"] = NULL /\ Lists["auth"] = NULL
      /\ strings = options \cup mosso.fields
  BY <1>1, AtReturn DEF Owning
<1>3. meta = NULL /\ meta' = NULL
  BY <1>1, <1>2 DEF ConnectionInv, Stage
<1>4. /\ DOMAIN Lists = Slots /\ DOMAIN Lists' = Slots
      /\ "request" \in Slots /\ "response" \in Slots
      /\ Lists'["request"] = NULL /\ Lists'["response"] = NULL
      /\ \A y \in Slots : y # "request" /\ y # "response" => Lists'[y] = Lists[y]
  BY <1>1, <1>2, <1>3, ListsAre, ListsAfter DEF Slots
<1>5. Owned(nodes', Lists')
  BY <1>1, <1>2, <1>4, TwoFreed DEF ConnectionInv
<1>6. /\ blocks' \in [Block -> Seq(1..MaxBody) \cup {FREED}]
      /\ {b \in Block : blocks'[b] # FREED} = {}
  BY <1>1, NoneLeft
<1>7. strings' = {}
  BY <1>1, <1>2 DEF AllFreed
<1>8. Values'
  BY <1>1, <1>2, <1>3, <1>6, <1>7 DEF Values, Stops
<1>9. Stage'
  BY <1>1, <1>2, <1>3 DEF Stage
<1>10. Stored'
  BY <1>1, <1>2, <1>6, <1>7 DEF Stored, Bodies
<1>11. Sent' /\ Answered' /\ Arriving' /\ Arrived' /\ Tagged'
  BY <1>1, <1>2, <1>3 DEF Sent, Answered, Arriving, Arrived, Tagged
<1> QED
  BY <1>5, <1>8, <1>9, <1>10, <1>11 DEF ConnectionInv

\* Both lists are freed before the one of the connection is made.
LEMMA AuthSucceedsKeeps ==
  ASSUME ConnectionInv, AuthSucceeds
  PROVE  ConnectionInv'
<1> DEFINE freed == FreeAll(FreeAll(nodes, call.headers), returned.headers)
           none == Empty(freed)
           auth == Add(none, "X-Auth-Token")
           without == [y \in Slots |->
                         IF y = "request" \/ y = "response" THEN NULL ELSE Lists[y]]
<1>1. /\ returned # NULL /\ call.op = "auth" /\ Leave
      /\ nodes' = auth.heap
      /\ blocks' = BodyFreed(returned.body)
      /\ strings' = strings \cup FromResponse
      /\ UNCHANGED <<transfer, options, meta, error>>
  BY DEF AuthSucceeds, Returned
<1>2. PICK cache \in CacheNew :
        mosso' = [fields |-> Account \cup FromResponse,
                  auth |-> auth.last, cache |-> cache]
  BY DEF AuthSucceeds
<1>3. /\ call # NULL /\ call \in Calls /\ transfer = NULL
      /\ Lists["request"] = call.headers /\ Lists["response"] = returned.headers
      /\ Lists["stream"] = NULL /\ Lists["auth"] = NULL
      /\ strings = options \cup mosso.fields /\ mosso \in Connections
  BY <1>1, AtReturn DEF Owning
<1>4. /\ DOMAIN Lists = Slots /\ DOMAIN without = DOMAIN Lists
      /\ "request" \in Slots /\ "response" \in Slots /\ "auth" \in Slots
      /\ without["request"] = NULL /\ without["response"] = NULL
      /\ without["auth"] = NULL
      /\ \A y \in Slots : y # "request" /\ y # "response" => without[y] = Lists[y]
  BY <1>3, ListsAre DEF Slots
<1> HIDE DEF without
<1>5. /\ Owned(freed, without)
      /\ \A y \in Slots : y # "request" /\ y # "response" =>
           Keys(freed, Lists[y]) = Keys(nodes, Lists[y])
      /\ \A n \in ToSet(Chain(nodes, call.headers)) : freed[n] = FREED
  BY <1>1, <1>3, <1>4, TwoFreed DEF ConnectionInv
<1> HIDE DEF freed
<1>6. Free(freed) # {}
  <2>1. call.headers \in Node /\ call.headers # NULL
    BY <1>3, LinkedListsAssumption DEF Calls
  <2>2. IsChain(nodes, Lists["request"])
    BY <1>4 DEF ConnectionInv, Owned
  <2>3. call.headers \in ToSet(Chain(nodes, call.headers))
    BY <1>3, <2>1, <2>2 DEF IsChain
  <2> QED
    BY <1>5, <2>1, <2>3 DEF Free
<1>7. PICK nothing : nothing = <<>>
  OBVIOUS
<1>8. Building(freed, none, nothing) /\ none.heap = freed
  BY <1>5, <1>7, NothingBuilt DEF Owned, Empty
<1>9. PICK keys : keys = Append(nothing, "X-Auth-Token")
  OBVIOUS
<1>10. keys = <<"X-Auth-Token">>
  BY <1>7, <1>9, OneKey
<1> HIDE DEF none
<1>11. Building(freed, auth, keys) /\ auth.last \in Free(freed)
  BY <1>6, <1>8, <1>9, HeadersAreKeys, AddBuilds
<1> HIDE DEF auth
<1>12. /\ auth.last \in Node /\ auth.last # NULL
       /\ auth.last \in ToSet(Chain(auth.heap, auth.last))
  <2>1. auth.last \in Node /\ auth.last # NULL
    BY <1>11, LinkedListsAssumption DEF Free
  <2> QED
    BY <1>11, <2>1 DEF Building, IsChain
<1>13. /\ mosso' \in Connections /\ mosso'.auth = auth.last
       /\ mosso'.fields = Account \cup FromResponse
  <2>1. CacheNew \subseteq {"live", "garbage"}
    BY ConnectionAssumption
  <2> QED
    BY <1>2, <1>12, <2>1 DEF Connections
<1>14. mosso' # NULL
  BY <1>13, ConnectionAssumption
<1>15. Differ(without, Lists', "auth") /\ Lists'["auth"] = auth.last
  <2>1. /\ Lists'["auth"] = auth.last /\ Lists'["request"] = NULL
        /\ Lists'["stream"] = NULL /\ Lists'["response"] = NULL
        /\ Lists'["tags"] = Lists["tags"]
    BY <1>1, <1>13, <1>14, ListsBack, ListsAfter
  <2> QED
    BY <1>3, <1>4, <2>1, ListsAfter DEF Differ, Slots
<1>16. /\ Owned(nodes', Lists') /\ Keys(nodes', mosso'.auth) = keys
       /\ SameLists(freed, nodes', without, "auth")
  <2>1. /\ Owned(auth.heap, Lists') /\ Keys(auth.heap, Lists'["auth"]) = keys
        /\ SameLists(freed, auth.heap, without, "auth")
    BY <1>4, <1>5, <1>11, <1>12, <1>15, BuiltOwned
  <2> QED
    BY <1>1, <1>13, <1>15, <2>1
<1>17. meta = NULL
  BY <1>1, <1>3 DEF ConnectionInv, Stage
<1>18. strings' = options \cup mosso'.fields
  <2>1. mosso.fields = Account
    BY <1>1, <1>3 DEF ConnectionInv, Stage
  <2> QED
    BY <1>1, <1>3, <1>13, <2>1
<1>19. error' \in {"null", "set"}
  BY <1>1 DEF ConnectionInv, Values
<1> QED
  BY <1>1, <1>10, <1>12, <1>13, <1>16, <1>17, <1>18, <1>19, LeaveKeeps

\* The tags of any list are named by the headers of the program.
LEMMA TagNamesAre ==
  ASSUME NEW keys, Len(keys) \in Nat
  PROVE  TagNames(keys) \in Seq(Tags)
<1> DEFINE K == Len(keys)
           Step(i, before) ==
             IF i = 0 THEN <<>>
             ELSE IF keys[i] \in TagHeaders
                  THEN Append(before, TagName(keys[i]))
                  ELSE before
           Names(f, k) == f = [i \in 0..k |-> Step(i, f[i - 1])]
           names == CHOOSE f : f = [i \in 0..K |-> Step(i, f[i - 1])]
<1>1. K \in Nat
  OBVIOUS
<1>2. \A i, s : s \in Seq(Tags) => Step(i, s) \in Seq(Tags)
  <2> SUFFICES ASSUME NEW i, NEW s \in Seq(Tags)
               PROVE  Step(i, s) \in Seq(Tags)
    OBVIOUS
  <2>1. keys[i] \in TagHeaders => TagName(keys[i]) \in Tags
    BY DEF Tags
  <2>2. ASSUME NEW tag \in Tags
        PROVE  Append(s, tag) \in Seq(Tags)
    BY AppendProperties
  <2> QED
    BY <2>1, <2>2
<1>3. \A s : Step(0, s) = <<>>
  OBVIOUS
<1>4. \E f : Names(f, K)
  <2> DEFINE Fails == {k \in 0..K : ~ \E f : Names(f, k)}
  <2>1. ASSUME Fails # {}
        PROVE  FALSE
    <3>1. PICK k \in Fails : \A j \in Fails : k <= j
      <4>1. Fails \subseteq Nat
        BY <1>1
      <4> HIDE DEF Fails
      <4> QED
        BY <2>1, <4>1, LeastNumber
    <3>2. /\ k \in 0..K /\ ~ \E f : Names(f, k)
          /\ \A j \in 0..K : ~ (\E f : Names(f, j)) => k <= j
      <4> HIDE DEF Names
      <4> QED
        BY <3>1
    <3>3. CASE k = 0
      <4> DEFINE g == [i \in 0..0 |-> <<>>]
      <4>1. Names(g, 0)
        BY <1>3
      <4> HIDE DEF g, Names
      <4> QED
        BY <3>2, <3>3, <4>1
    <3>4. CASE k # 0
      <4>1. k - 1 \in 0..K /\ ~ k <= k - 1 /\ k \in Nat
        BY <1>1, <3>2, <3>4
      <4>2. PICK f : Names(f, k - 1)
        <5> HIDE DEF Names
        <5> QED
          BY <3>2, <4>1
      <4> HIDE DEF Step
      <4> DEFINE g == [i \in 0..k |-> IF i = k THEN Step(k, f[k - 1]) ELSE f[i]]
      <4>3. \A i \in 0..k - 1 : f[i] = Step(i, f[i - 1])
        BY <4>2
      <4>4. /\ \A i \in 0..k : i # k => i \in 0..k - 1 /\ g[i] = f[i]
            /\ g[k] = Step(k, f[k - 1]) /\ g[k - 1] = f[k - 1]
            /\ g = [i \in 0..k |-> g[i]]
        BY <4>1
      <4> HIDE DEF g
      <4>5. \A i \in 0..k : g[i] = Step(i, g[i - 1])
        <5> TAKE i \in 0..k
        <5>1. CASE i = k
          BY <4>4, <5>1
        <5>2. CASE i = 0
          BY <1>3, <3>4, <4>3, <4>4, <5>2
        <5>3. CASE i # k /\ i # 0
          <6>1. i - 1 \in 0..k /\ i - 1 # k
            BY <4>1, <5>3
          <6> QED
            BY <4>3, <4>4, <5>3, <6>1
        <5> QED
          BY <5>1, <5>2, <5>3
      <4>6. Names(g, k)
        BY <4>4, <4>5
      <4> HIDE DEF Names
      <4> QED
        BY <3>2, <4>6
    <3> QED
      BY <3>3, <3>4
  <2>2. K \in 0..K
    BY <1>1
  <2> HIDE DEF Names
  <2> QED
    BY <2>1, <2>2
<1> HIDE DEF Step
<1>5. names = [i \in 0..K |-> Step(i, names[i - 1])]
  BY <1>4
<1> HIDE DEF names
<1>6. \A i \in 0..K : names[i] \in Seq(Tags)
  <2> DEFINE Wrong == {i \in 0..K : names[i] \notin Seq(Tags)}
  <2>1. ASSUME Wrong # {}
        PROVE  FALSE
    <3>1. PICK i \in Wrong : \A j \in Wrong : i <= j
      <4>1. Wrong \subseteq Nat
        BY <1>1
      <4> HIDE DEF Wrong
      <4> QED
        BY <2>1, <4>1, LeastNumber
    <3>2. /\ i \in 0..K /\ names[i] \notin Seq(Tags)
          /\ \A j \in 0..K : names[j] \notin Seq(Tags) => i <= j
      BY <3>1
    <3>3. names[i] = Step(i, names[i - 1])
      BY <1>5, <3>2
    <3>4. i # 0
      <4>1. <<>> \in Seq(Tags)
        OBVIOUS
      <4> QED
        BY <1>3, <3>2, <3>3, <4>1
    <3>5. i - 1 \in 0..K /\ ~ i <= i - 1
      BY <1>1, <3>2, <3>4
    <3> QED
      BY <1>2, <3>2, <3>3, <3>5
  <2> QED
    BY <2>1
<1>7. TagNames(keys) = names[K]
  BY DEF TagNames, names, Step
<1> QED
  BY <1>1, <1>6, <1>7

\* The caller's pointer is to the first header: a loop that begins there passes
\* them all.
LEMMA HeadersPassed ==
  ASSUME ConnectionInv, returned # NULL, returned.headers # NULL
  PROVE  /\ KeysOf(nodes, Following(nodes, returned.headers)) = reply.delivered
         /\ Keys(nodes, returned.headers) = reply.delivered
<1> DEFINE h == returned.headers
<1>1. h = Chain(nodes, h)[1] /\ Keys(nodes, h) = reply.delivered
  BY DEF ConnectionInv, Arrived
<1>2. IsChain(nodes, h)
  <2>1. Lists["response"] = h
    BY AtReturn
  <2> QED
    BY <2>1, ListsAre DEF ConnectionInv, Owned, Slots
<1>3. nodes[h].root = h
  BY <1>1, <1>2, RootFound
<1>4. Chain(nodes, h) = Following(nodes, h)
  BY <1>3 DEF Chain
<1> QED
  BY <1>1, <1>4 DEF Keys

\* The tags are in nodes that were free, the headers are freed after them.
LEMMA BuildMetaKeeps ==
  ASSUME ConnectionInv, BuildMeta
  PROVE  /\ ConnectionInv'
         /\ Keys(nodes', meta'.tag) = TagNames(reply.delivered)
<1> DEFINE headers == returned.headers
           names == TagsIn(headers)
           tags == TagList(headers)
           with == [y \in Slots |-> IF y = "tags" THEN tags.last ELSE Lists[y]]
<1>1. /\ returned # NULL /\ call.op = "meta" /\ Granted /\ Leave
      /\ Room(nodes, Len(names))
      /\ nodes' = FreeAll(tags.heap, headers)
      /\ meta' = [type |-> ObjectType(call.path),
                  size |-> ObjectSize(call.path), tag |-> tags.last]
      /\ UNCHANGED <<blocks, transfer, options, mosso, strings, error>>
  BY DEF BuildMeta, Returned
<1>2. call.op \notin Owning /\ ~ HasBody(call.op) /\ call.op # "auth"
  BY <1>1 DEF Owning, HasBody
<1>3. /\ Lists["request"] = NULL /\ Lists["response"] = headers
      /\ Lists["stream"] = NULL /\ returned.body = NULL
      /\ mosso # NULL /\ mosso \in Connections /\ mosso.auth # NULL
      /\ Lists["auth"] = mosso.auth /\ call # NULL
      /\ strings = options \cup mosso.fields /\ reply \in Replies
  BY <1>1, <1>2, AtReturn
<1>4. headers # NULL
  <2>1. CodeOf(call.op) = 204
    BY <1>1 DEF CodeOf
  <2>2. returned.code # 0
    BY <1>1, <2>1 DEF Granted
  <2> QED
    BY <1>1, <2>2 DEF ConnectionInv, Arrived, Asking
<1>5. names = TagNames(reply.delivered) /\ names \in Seq(Tags)
  <2>1. names = TagNames(reply.delivered)
    BY <1>1, <1>4, HeadersPassed DEF TagsIn
  <2>2. Len(reply.delivered) \in Nat
    BY <1>3 DEF Replies
  <2> QED
    BY <2>1, <2>2, TagNamesAre
<1>6. meta = NULL /\ Lists["tags"] = NULL
  <2>1. meta = NULL
    BY <1>1, <1>3 DEF ConnectionInv, Stage
  <2> QED
    BY <2>1, ListsAre
<1> HIDE DEF names
<1>7. Building(nodes, tags, names)
  <2>1. IsHeap(nodes)
    BY DEF ConnectionInv, Owned
  <2>2. names \in Seq(Key)
    <3>1. Tags \subseteq Key
      BY HeadersAreKeys
    <3> QED
      BY <1>5, <3>1
  <2>3. tags = AddAll(Empty(nodes), names)
    BY DEF TagList, names
  <2> HIDE DEF tags
  <2> QED
    BY <1>1, <2>1, <2>2, <2>3, AddAllBuilds
<1> HIDE DEF tags
<1>8. /\ tags.last \in Node \cup {NULL}
      /\ tags.last # NULL => tags.last \in ToSet(Chain(tags.heap, tags.last))
  BY <1>7 DEF Building, IsChain
<1>9. /\ Differ(Lists, with, "tags") /\ with["tags"] = tags.last
      /\ DOMAIN with = Slots /\ "response" \in Slots /\ "tags" \in Slots
      /\ \A y \in Slots : y # "tags" => with[y] = Lists[y]
  BY ListsAre DEF Differ, Slots
<1> HIDE DEF with
<1>10. /\ Owned(tags.heap, with) /\ SameLists(nodes, tags.heap, Lists, "tags")
       /\ Keys(tags.heap, tags.last) = names
  <2>1. Owned(nodes, Lists)
    BY DEF ConnectionInv
  <2> QED
    BY <1>6, <1>7, <1>8, <1>9, <2>1, BuiltOwned
<1>11. /\ meta' \in Metas /\ meta'.tag = tags.last
  <2>1. ObjectType(call.path) \in {"container", "vdir", "object"}
    BY DEF ObjectType
  <2>2. ObjectSize(call.path) \in Nat
    BY DEF ObjectSize, BytesUsed, LengthOf
  <2> QED
    BY <1>1, <1>8, <2>1, <2>2 DEF Metas
<1>12. meta' # NULL
  BY <1>11, ConnectionAssumption
<1>13. Differ(with, Lists', "response") /\ Lists'["response"] = NULL
  <2>1. /\ Lists'["request"] = NULL /\ Lists'["stream"] = NULL
        /\ Lists'["response"] = NULL /\ Lists'["auth"] = Lists["auth"]
    BY <1>1, ListsBack
  <2>2. Lists'["tags"] = tags.last /\ DOMAIN Lists' = Slots
    BY <1>11, <1>12, ListsAfter
  <2> QED
    BY <1>3, <1>9, <2>1, <2>2 DEF Differ, Slots
<1>14. Owned(nodes', Lists') /\ SameLists(tags.heap, nodes', with, "response")
  <2>1. with["response"] = headers
    BY <1>3, <1>9
  <2> QED
    BY <1>1, <1>10, <1>13, <2>1, FreeOwned
<1>15. Keys(nodes', meta'.tag) = names
  <2>1. Keys(nodes', with["tags"]) = Keys(tags.heap, with["tags"])
    BY <1>9, <1>14 DEF SameLists
  <2> QED
    BY <1>9, <1>10, <1>11, <2>1
<1>16. Keys(nodes', mosso.auth) = <<"X-Auth-Token">>
  <2>1. "auth" \in Slots /\ with["auth"] = mosso.auth /\ DOMAIN Lists = Slots
    BY <1>3, <1>9, ListsAre DEF Slots
  <2>2. Keys(tags.heap, mosso.auth) = Keys(nodes, mosso.auth)
    BY <1>3, <1>10, <2>1 DEF SameLists
  <2>3. Keys(nodes', mosso.auth) = Keys(tags.heap, mosso.auth)
    BY <1>9, <1>14, <2>1 DEF SameLists
  <2>4. Keys(nodes, mosso.auth) = <<"X-Auth-Token">>
    BY <1>3 DEF ConnectionInv, Sent
  <2> QED
    BY <2>2, <2>3, <2>4
<1>17. blocks' = BodyFreed(returned.body)
  BY <1>1, <1>3 DEF BodyFreed
<1>18. error' \in {"null", "set"}
  BY <1>1 DEF ConnectionInv, Values
<1>19. ConnectionInv'
  BY <1>1, <1>3, <1>5, <1>11, <1>14, <1>15, <1>16, <1>17, <1>18, LeaveKeeps
<1> QED
  BY <1>5, <1>15, <1>19

-----------------------------------------------------------------------------
(* The program around the calls.                                           *)

LEMMA FreeMetaKeeps ==
  ASSUME ConnectionInv, FreeMeta
  PROVE  ConnectionInv'
<1>1. /\ pc = "ready" /\ meta # NULL /\ meta' = NULL
      /\ nodes' = FreeAll(nodes, meta.tag)
      /\ UNCHANGED <<blocks, transfer, reply, returned>>
      /\ UNCHANGED <<pc, options, mosso, strings, call, error>>
  BY DEF FreeMeta
<1>2. /\ mosso # NULL /\ call = NULL /\ transfer = NULL /\ returned = NULL
      /\ Lists["auth"] = mosso.auth
      /\ Keys(nodes, mosso.auth) = <<"X-Auth-Token">>
  BY <1>1, AtRest
<1>3. Lists["tags"] = meta.tag
  BY <1>1, ListsAre
<1>4. Differ(Lists, Lists', "tags") /\ Lists'["tags"] = NULL
  <2>1. /\ Lists'["request"] = Lists["request"] /\ Lists'["stream"] = Lists["stream"]
        /\ Lists'["response"] = Lists["response"] /\ Lists'["auth"] = Lists["auth"]
        /\ Lists'["tags"] = NULL
    BY <1>1, <1>2, ListsAre, ListsAfter
  <2> QED
    BY <2>1, ListsAre, ListsAfter DEF Differ, Slots
<1>5. Owned(nodes', Lists') /\ SameLists(nodes, nodes', Lists, "tags")
  BY <1>1, <1>3, <1>4, FreeOwned DEF ConnectionInv
<1>6. Keys(nodes', mosso.auth) = <<"X-Auth-Token">>
  BY <1>2, <1>5, ListsAre DEF SameLists, Slots
<1>7. Values' /\ Stage'
  BY <1>1, <1>2 DEF ConnectionInv, Values, Stage
<1>8. Stored' /\ Answered' /\ Arriving' /\ Arrived' /\ Tagged'
  BY <1>1, <1>2
     DEF ConnectionInv, Stored, Bodies, Answered, Arriving, Arrived, Tagged
<1>9. Sent'
  BY <1>1, <1>2, <1>6 DEF Sent
<1> QED
  BY <1>5, <1>7, <1>8, <1>9 DEF ConnectionInv

\* Unmounting frees the two lists there can be, and all strings.
LEMMA UnmountKeeps ==
  ASSUME ConnectionInv, Unmount
  PROVE  ConnectionInv'
<1>1. /\ pc = "ready" /\ pc' = "unmounted"
      /\ nodes' = FreeAll(IF meta = NULL THEN nodes ELSE FreeAll(nodes, meta.tag),
                          mosso.auth)
      /\ strings' = AllFreed(mosso) /\ mosso' = NULL /\ options' = {}
      /\ meta' = NULL
      /\ UNCHANGED <<blocks, transfer, reply, returned, call, error>>
  BY DEF Unmount
<1>2. /\ mosso # NULL /\ call = NULL /\ transfer = NULL /\ returned = NULL
      /\ Lists["auth"] = mosso.auth /\ Lists["request"] = NULL
      /\ Lists["stream"] = NULL /\ Lists["response"] = NULL
      /\ strings = options \cup mosso.fields
  BY <1>1, AtRest
<1>3. /\ DOMAIN Lists = Slots /\ DOMAIN Lists' = Slots
      /\ "auth" \in Slots /\ "tags" \in Slots
      /\ Lists'["auth"] = NULL /\ Lists'["tags"] = NULL
      /\ \A y \in Slots : y # "auth" /\ y # "tags" => Lists'[y] = Lists[y]
  BY <1>1, <1>2, ListsAre, ListsAfter DEF Slots
<1>4. Owned(nodes', Lists')
  <2>1. CASE meta = NULL
    <3>1. Differ(Lists, Lists', "auth")
      BY <1>3, <2>1, ListsAre DEF Differ
    <3>2. nodes' = FreeAll(nodes, Lists["auth"])
      BY <1>1, <1>2, <2>1
    <3> QED
      BY <1>3, <3>1, <3>2, FreeOwned DEF ConnectionInv
  <2>2. CASE meta # NULL
    <3>1. nodes' = FreeAll(FreeAll(nodes, Lists["tags"]), Lists["auth"])
      BY <1>1, <1>2, <2>2, ListsAre
    <3> QED
      BY <1>3, <3>1, TwoFreed DEF ConnectionInv
  <2> QED
    BY <2>1, <2>2
<1>5. strings' = {}
  BY <1>1, <1>2 DEF AllFreed
<1>6. Values' /\ Stage'
  BY <1>1, <1>2, <1>5 DEF ConnectionInv, Values, Stage, Stops
<1>7. Stored' /\ Sent' /\ Answered' /\ Arriving' /\ Arrived' /\ Tagged'
  BY <1>1, <1>2, <1>5
     DEF ConnectionInv, Stored, Bodies, Sent, Answered, Arriving, Arrived, Tagged
<1> QED
  BY <1>4, <1>6, <1>7 DEF ConnectionInv

\* A step that changes no more than where the program is, and its options.
LEMMA PlaceKeeps ==
  ASSUME ConnectionInv, UNCHANGED <<curlVars, mosso, call, meta>>,
         Values', Stage', Stored'
  PROVE  ConnectionInv'
<1>1. UNCHANGED <<nodes, blocks, transfer, reply, returned, mosso, call, meta>>
  BY DEF curlVars
<1>2. Owned(nodes', Lists')
  <2>1. Lists'["stream"] = Lists["stream"] /\ Lists'["response"] = Lists["response"]
    BY <1>1, ListsAre, ListsAfter
  <2> QED
    BY <1>1, <2>1, ListsKept
<1>3. Sent' /\ Answered' /\ Arriving' /\ Arrived' /\ Tagged'
  BY <1>1 DEF ConnectionInv, Sent, Answered, Arriving, Arrived, Tagged, Granting
<1> QED
  BY <1>2, <1>3 DEF ConnectionInv

LEMMA StartKeeps ==
  ASSUME ConnectionInv, ParseCredentials \/ StartFuse
  PROVE  ConnectionInv'
<1>1. /\ pc = "parsing" /\ UNCHANGED <<curlVars, mosso, call, meta, error>>
      /\ mosso = NULL /\ call = NULL /\ meta = NULL
  BY DEF ConnectionInv, Stage, ParseCredentials, StartFuse
<1>2. /\ UNCHANGED <<blocks, transfer, reply, returned>>
      /\ transfer = NULL /\ returned = NULL
  BY <1>1 DEF ConnectionInv, Stage, curlVars
<1>3. strings = options /\ options \in {{}, Credentials}
  BY <1>1 DEF ConnectionInv, Stored, Values
<1>4. /\ pc' \in {"parsing", "mounting", "usage"}
      /\ options' \in {{}, Credentials} /\ strings' = options'
  <2>1. CASE ParseCredentials
    BY <1>1, <1>3, <2>1 DEF ParseCredentials
  <2>2. CASE StartFuse
    BY <1>3, <2>2 DEF StartFuse
  <2> QED
    BY <2>1, <2>2
<1>5. Values'
  BY <1>1, <1>2, <1>4 DEF ConnectionInv, Values, Stops
<1>6. Stage'
  BY <1>1, <1>2, <1>4 DEF Stage
<1>7. Stored'
  BY <1>1, <1>2, <1>4 DEF ConnectionInv, Stored, Bodies
<1> QED
  BY <1>1, <1>5, <1>6, <1>7, PlaceKeeps

LEMMA CrashKeeps ==
  ASSUME ConnectionInv, Crash
  PROVE  ConnectionInv'
<1>1. /\ pc \in {"calling", "ready"} /\ pc' = "undefined"
      /\ UNCHANGED <<curlVars, options, mosso, strings, call, meta, error>>
  BY DEF Crash, HeaderNotFound, CacheUsed
<1>2. UNCHANGED <<blocks, transfer, reply, returned>>
  BY <1>1 DEF curlVars
<1>3. Values' /\ Stage' /\ Stored'
  BY <1>1, <1>2 DEF ConnectionInv, Values, Stage, Stored, Bodies, Stops
<1> QED
  BY <1>1, <1>3, PlaceKeeps

\* With nothing allocated nothing is owned.
LEMMA NothingOwned ==
  ASSUME NEW heap, heap = [n \in Node |-> FREED], NEW L,
         \A x \in DOMAIN L : L[x] = NULL
  PROVE  Owned(heap, L)
<1>1. IsHeap(heap)
  BY DEF IsHeap
<1>2. Chain(heap, NULL) = <<>> /\ ToSet(<<>>) = {} /\ IsChain(heap, NULL)
  BY DEF Chain, ToSet, IsChain
<1> QED
  BY <1>1, <1>2 DEF Owned

\* A heap without a node, and nobody who points into it.
LEMMA NothingLeft ==
  ASSUME nodes' = [n \in Node |-> FREED], blocks' = [b \in Block |-> FREED],
         transfer' = NULL, returned' = NULL, options' = {}, strings' = {},
         mosso' = NULL, call' = NULL, meta' = NULL, error' = "null",
         pc' = "exhausted"
  PROVE  ConnectionInv'
<1>1. Owned(nodes', Lists')
  <2>1. \A x \in DOMAIN Lists' : Lists'[x] = NULL
    BY ListsAfter DEF Slots
  <2> QED
    BY <2>1, NothingOwned
<1>2. Values' /\ Stage' /\ Stored'
  BY DEF Values, Stage, Stored, Bodies, Stops
<1>3. Sent' /\ Answered' /\ Arriving' /\ Arrived' /\ Tagged'
  BY DEF Sent, Answered, Arriving, Arrived, Tagged
<1> QED
  BY <1>1, <1>2, <1>3 DEF ConnectionInv

LEMMA OutOfMemoryKeeps ==
  ASSUME OutOfMemory
  PROVE  ConnectionInv'
  BY NothingLeft DEF OutOfMemory

LEMMA InitOwns ==
  ASSUME Init
  PROVE  ConnectionInv
<1>1. /\ nodes = [n \in Node |-> FREED] /\ blocks = [b \in Block |-> FREED]
      /\ transfer = NULL /\ returned = NULL /\ options = {} /\ strings = {}
      /\ mosso = NULL /\ call = NULL /\ meta = NULL /\ error = "null"
      /\ pc = "parsing"
  BY DEF Init, CurlInit
<1>2. Owned(nodes, Lists)
  <2>1. \A x \in DOMAIN Lists : Lists[x] = NULL
    BY <1>1, ListsAre DEF Slots
  <2> QED
    BY <1>1, <2>1, NothingOwned
<1>3. Values /\ Stage /\ Stored
  BY <1>1 DEF Values, Stage, Stored, Bodies
<1>4. Sent /\ Answered /\ Arriving /\ Arrived /\ Tagged
  BY <1>1 DEF Sent, Answered, Arriving, Arrived, Tagged
<1> QED
  BY <1>2, <1>3, <1>4 DEF ConnectionInv

\* No step of the program breaks the invariant.
LEMMA NextKeeps ==
  ASSUME ConnectionInv, [Next]_vars
  PROVE  ConnectionInv'
<1>1. CASE ParseCredentials \/ StartFuse
  BY <1>1, StartKeeps
<1>2. CASE MossoInit
  BY <1>2, MossoInitKeeps
<1>3. CASE AuthFails
  BY <1>3, AuthFailsKeeps
<1>4. CASE AuthSucceeds
  BY <1>4, AuthSucceedsKeeps
<1>5. ASSUME NEW p \in Path \ {Root},
             \/ GetObjectMeta(p) \/ CreateDirectory(p) \/ DeleteObject(p)
             \/ \E size \in 1..MaxBody : ReadObject(p, size)
      PROVE  ConnectionInv'
  <2>1. CASE GetObjectMeta(p)
    BY <2>1, GetObjectMetaKeeps
  <2>2. CASE CreateDirectory(p)
    BY <2>2, CreateDirectoryKeeps
  <2>3. CASE DeleteObject(p)
    BY <2>3, DeleteObjectKeeps
  <2>4. CASE \E size \in 1..MaxBody : ReadObject(p, size)
    BY <2>4, ReadObjectKeeps
  <2> QED
    BY <1>5, <2>1, <2>2, <2>3, <2>4
<1>6. ASSUME NEW p \in Path, NEW marker \in Marker \cup {<<>>},
             ListObjects(p, marker)
      PROVE  ConnectionInv'
  BY <1>6, ListObjectsKeeps
<1>7. CASE Transfer /\ UNCHANGED programVars
  BY <1>7, TransferKeeps
<1>8. CASE ReturnList \/ ReturnDelete
  BY <1>8, ReturnListKeeps
<1>9. CASE ReturnRead
  BY <1>9, ReturnReadKeeps
<1>10. CASE ReturnCreate
  BY <1>10, ReturnCreateKeeps
<1>11. CASE MetaFails
  BY <1>11, MetaFailsKeeps
<1>12. CASE BuildMeta
  BY <1>12, BuildMetaKeeps
<1>13. CASE FreeMeta
  BY <1>13, FreeMetaKeeps
<1>14. CASE Unmount
  BY <1>14, UnmountKeeps
<1>15. CASE Crash
  BY <1>15, CrashKeeps
<1>16. CASE OutOfMemory
  BY <1>16, OutOfMemoryKeeps
<1>17. CASE UNCHANGED vars
  <2>1. /\ UNCHANGED <<curlVars, mosso, call, meta>>
        /\ UNCHANGED <<blocks, transfer, returned, pc, options, strings, error>>
    BY <1>17 DEF vars, curlVars, programVars
  <2>2. Values' /\ Stage' /\ Stored'
    BY <2>1 DEF ConnectionInv, Values, Stage, Stored, Bodies
  <2> QED
    BY <2>1, <2>2, PlaceKeeps
<1> QED
  BY <1>1, <1>2, <1>3, <1>4, <1>5, <1>6, <1>7, <1>8, <1>9, <1>10, <1>11,
     <1>12, <1>13, <1>14, <1>15, <1>16, <1>17 DEF Next, Stopped

-----------------------------------------------------------------------------
(* Theorems.                                                               *)

\* The invariant that all of the following rest on.
THEOREM ConnectionInvariant ==
  Spec => []ConnectionInv
<1>1. Init => ConnectionInv
  BY InitOwns
<1>2. ConnectionInv /\ [Next]_vars => ConnectionInv'
  BY NextKeeps
<1> QED
  BY <1>1, <1>2, PTL DEF Spec

\* Whatever the service answers, and wherever a transfer breaks off, each list
\* node, response body and string that is allocated belongs to exactly one
\* pointer of the program (simple_curl_request_complex and its callers in
\* mosso.c), for any number of nodes and bodies.
THEOREM EverythingOwned ==
  Spec => []BlocksOwned
<1>1. ConnectionInv => BlocksOwned
  <2> SUFFICES ASSUME ConnectionInv
               PROVE  BlocksOwned
    OBVIOUS
  <2> DEFINE owned == {<<x, ToSet(Chain(nodes, Lists[x]))>> : x \in Slots}
  <2>1. ASSUME NEW n \in Node
        PROVE  nodes[n] # FREED <=> Cardinality({own \in owned : n \in own[2]}) = 1
    <3>1. Owned(nodes, Lists) /\ DOMAIN Lists = Slots
      BY ListsAre DEF ConnectionInv
    <3>2. LET ones == {<<x, ToSet(Chain(nodes, Lists[x]))>> : x \in DOMAIN Lists}
          IN  nodes[n] # FREED <=> Cardinality({own \in ones : n \in own[2]}) = 1
      BY <3>1, OwnedOnce
    <3> QED
      BY <3>1, <3>2
  <2> HIDE DEF owned
  <2>2. /\ {b \in Block : blocks[b] # FREED} = Bodies
        /\ strings = options \cup IF mosso = NULL THEN {} ELSE mosso.fields
    BY DEF ConnectionInv, Stored
  <2>3. \A n \in Node :
          nodes[n] # FREED <=> Cardinality({own \in owned : n \in own[2]}) = 1
    BY <2>1
  <2> QED
    BY <2>2, <2>3 DEF BlocksOwned, owned
<1> QED
  BY <1>1, ConnectionInvariant, PTL

\* The keys of every list of the program are headers or tags of it.
LEMMA KeysAreNamed ==
  ASSUME ConnectionInv, NEW x \in Slots
  PROVE  Keys(nodes, Lists[x]) \in Seq(Headers \cup Tags)
<1>1. {"X-Auth-Token", "Range", "Content-Length", "Content-Type",
       "X-Auth-User", "X-Auth-Key"} \subseteq Headers
  BY DEF Headers, AuthHeaders
<1>2. <<>> \in Seq(Headers \cup Tags) /\ <<"X-Auth-Token">> \in Seq(Headers \cup Tags)
  BY <1>1
<1>3. \A op : RequestKeys(op) \in Seq(Headers \cup Tags)
  <2> DEFINE S == Headers \cup Tags
  <2>1. {"X-Auth-Token", "Range", "Content-Length", "Content-Type",
         "X-Auth-User", "X-Auth-Key"} \subseteq S
    BY <1>1
  <2> HIDE DEF S
  <2>2. /\ <<"X-Auth-User", "X-Auth-Key">> \in Seq(S)
        /\ <<"X-Auth-Token", "Range">> \in Seq(S)
    BY <2>1
  <2>3. <<"X-Auth-Token", "Content-Length", "Content-Type">> \in Seq(S)
    BY <2>1
  <2>4. <<"X-Auth-Token">> \in Seq(S)
    BY <2>1
  <2>5. \A op : RequestKeys(op) \in
          {<<"X-Auth-User", "X-Auth-Key">>, <<"X-Auth-Token", "Range">>,
           <<"X-Auth-Token", "Content-Length", "Content-Type">>,
           <<"X-Auth-Token">>}
    BY Zenon DEF RequestKeys
  <2>6. \A op : RequestKeys(op) \in Seq(S)
    BY <2>2, <2>3, <2>4, <2>5
  <2> QED
    BY <2>6 DEF S
<1>4. CASE Lists[x] = NULL
  BY <1>2, <1>4, NoList
<1>5. CASE Lists[x] # NULL
  <2>1. CASE x = "auth"
    BY <1>2, <1>5, <2>1, ListsAre DEF ConnectionInv, Sent
  <2>2. CASE x = "request"
    BY <1>3, <1>5, <2>2, ListsAre DEF ConnectionInv, Sent
  <2>3. CASE x = "stream"
    <3>1. transfer # NULL /\ Keys(nodes, Lists[x]) = reply.delivered
      BY <1>5, <2>3, ListsAre DEF ConnectionInv, Arriving
    <3>2. reply.delivered \in Seq(Headers)
      BY <3>1 DEF ConnectionInv, Answered, Replies
    <3> QED
      BY <3>1, <3>2
  <2>4. CASE x = "response"
    <3>1. returned # NULL /\ Lists[x] = returned.headers
      BY <1>5, <2>4, ListsAre
    <3>2. Keys(nodes, Lists[x]) = reply.delivered
      BY <1>5, <3>1, HeadersPassed
    <3>3. reply.delivered \in Seq(Headers)
      BY <3>1 DEF ConnectionInv, Answered, Replies
    <3> QED
      BY <3>2, <3>3
  <2>5. CASE x = "tags"
    <3>1. Keys(nodes, Lists[x]) \in Seq(Tags)
      BY <1>5, <2>5, ListsAre DEF ConnectionInv, Tagged
    <3> QED
      BY <3>1
  <2> QED
    BY <2>1, <2>2, <2>3, <2>4, <2>5 DEF Slots
<1> QED
  BY <1>4, <1>5

\* Every variable has its type; in particular each list node that is not free
\* holds a header or a tag of the program.
THEOREM TypeCorrect ==
  Spec => []TypeOK
<1>1. ConnectionInv => TypeOK
  <2> SUFFICES ASSUME ConnectionInv
               PROVE  TypeOK
    OBVIOUS
  <2>1. ASSUME NEW n \in Node, nodes[n] # FREED
        PROVE  nodes[n] \in Element /\ nodes[n].key \in Headers \cup Tags
    <3>1. nodes[n] \in Element
      BY <2>1 DEF ConnectionInv, Owned, IsHeap
    <3>2. PICK x \in Slots : n \in ToSet(Chain(nodes, Lists[x]))
      BY <2>1, ListsAre DEF ConnectionInv, Owned
    <3>3. PICK s : s = Chain(nodes, Lists[x])
      OBVIOUS
    <3>4. s \in Seq(Node)
      BY <3>3, ListsAre, ChainNodes DEF ConnectionInv, Owned
    <3>5. PICK i \in 1..Len(s) : n = s[i]
      BY <3>2, <3>3, <3>4 DEF ToSet
    <3>6. Keys(nodes, Lists[x]) = [j \in 1..Len(s) |-> nodes[s[j]].key]
      BY <3>3 DEF Keys, KeysOf
    <3>7. Keys(nodes, Lists[x])[i] \in Headers \cup Tags
      <4>1. Keys(nodes, Lists[x]) \in Seq(Headers \cup Tags)
        BY KeysAreNamed
      <4>2. PICK keys : keys = Keys(nodes, Lists[x])
        OBVIOUS
      <4>3. keys \in Seq(Headers \cup Tags) /\ DOMAIN keys = 1..Len(s)
        BY <3>6, <4>1, <4>2
      <4>4. keys[i] \in Headers \cup Tags
        BY <4>3
      <4> QED
        BY <4>2, <4>4
    <3> QED
      BY <3>1, <3>5, <3>6, <3>7
  <2>2. \A b \in Block : blocks[b] = FREED \/ blocks[b] \in Seq(1..MaxBody)
    BY DEF ConnectionInv, Values
  <2> QED
    BY <2>1, <2>2 DEF ConnectionInv, Values, TypeOK
<1> QED
  BY <1>1, ConnectionInvariant, PTL

\* Each request carries all its headers, in the order in which they were added,
\* whichever element of the list is passed on (mosso_read_object).
THEOREM AllSigned ==
  Spec => []RequestsSigned
<1>1. ConnectionInv => RequestsSigned
  <2> SUFFICES ASSUME ConnectionInv, transfer # NULL
               PROVE  CurlHeaders(transfer.request) = RequestKeys(call.op)
    BY DEF RequestsSigned, RequestKeys
  <2>1. call # NULL
    BY DEF ConnectionInv, Stage
  <2> QED
    BY <2>1 DEF ConnectionInv, Sent, CurlHeaders
<1> QED
  BY <1>1, ConnectionInvariant, PTL

\* However the network cuts it, the body the caller gets is what was sent, and
\* the headers are all there, in order, from the root.
THEOREM AllReturnedWhole ==
  Spec => []ReturnedWhole
<1>1. ConnectionInv => ReturnedWhole
  <2> SUFFICES ASSUME ConnectionInv, returned # NULL
               PROVE  /\ returned.body # NULL =>
                           blocks[returned.body] = [i \in 1..reply.body |-> i]
                      /\ returned.headers # NULL =>
                           KeysOf(nodes, Following(nodes, returned.headers))
                             = reply.delivered
    BY DEF ReturnedWhole
  <2>1. returned.body # NULL =>
          blocks[returned.body] = [i \in 1..reply.body |-> i]
    BY DEF ConnectionInv, Arrived
  <2> QED
    BY <2>1, HeadersPassed
<1> QED
  BY <1>1, ConnectionInvariant, PTL

\* The response to a call that was granted has its headers, and they are those
\* that the service sent.
LEMMA GrantedHeaders ==
  ASSUME ConnectionInv, returned # NULL, Granted, call.op \in Asking
  PROVE  /\ ToSet(Keys(nodes, returned.headers)) = reply.keys
         /\ reply.kind \in KindsFor(call.op, call.path)
         /\ reply.keys \subseteq HeadersOf(call.op, reply.kind)
         /\ Keys(nodes, returned.headers) = reply.delivered
<1>1. returned.code # 0
  BY DEF Granted, CodeOf, Asking
<1>2. /\ returned.code = reply.code /\ reply.keys = ToSet(reply.delivered)
      /\ returned.headers # NULL
  BY <1>1 DEF ConnectionInv, Arrived
<1>3. Keys(nodes, returned.headers) = reply.delivered
  BY <1>2, HeadersPassed
<1>4. Granting(reply, call.op, call.path)
  BY DEF ConnectionInv, Answered
<1> QED
  BY <1>2, <1>3, <1>4 DEF Granting, Granted

\* Behaviour is undefined for no reasons but the five that are named there.
LEMMA CrashExplained ==
  ASSUME ConnectionInv, Crash
  PROVE  \/ CacheUsed
         \/ reply.keys = {}
         \/ call.op = "auth" /\ ~ AuthHeaders \subseteq reply.keys
         \/ call.op = "read" /\ "Content-Length" \notin reply.keys
         \/ call.op = "meta" /\ reply.kind = "container"
              /\ "X-Container-Bytes-Used" \notin reply.keys
         \/ call.op = "meta" /\ InSomeContainer(call.path)
              /\ NamedLikeContainer(call.path)
<1>1. CASE NoHeaderLine
  <2>1. transfer # NULL /\ transfer.stream = NULL /\ HeadersDue = {}
    BY <1>1 DEF NoHeaderLine, Performed
  <2>2. reply.delivered = <<>>
    BY <2>1, NoList DEF ConnectionInv, Arriving
  <2>3. ToSet(<<>>) = {}
    BY DEF ToSet
  <2> QED
    BY <2>1, <2>2, <2>3 DEF HeadersDue
<1>2. CASE HeaderNotFound
  <2>1. pc = "calling" /\ returned # NULL /\ Granted
    BY <1>2 DEF HeaderNotFound
  <2>2. CASE call.op = "auth"
    <3>1. ToSet(Keys(nodes, returned.headers)) = reply.keys
      BY <2>1, <2>2, GrantedHeaders DEF Asking
    <3>2. ~ Found(AuthHeaders)
      BY <1>2, <2>2 DEF HeaderNotFound
    <3> QED
      BY <2>2, <3>1, <3>2 DEF Found, Has
  <2>3. CASE call.op = "read"
    <3>1. ToSet(Keys(nodes, returned.headers)) = reply.keys
      BY <2>1, <2>3, GrantedHeaders DEF Asking
    <3>2. ~ Found({"Content-Length"})
      BY <1>2, <2>3 DEF HeaderNotFound
    <3> QED
      BY <2>3, <3>1, <3>2 DEF Found, Has
  <2>4. CASE call.op = "meta"
    <3>1. /\ ToSet(Keys(nodes, returned.headers)) = reply.keys
          /\ reply.kind \in KindsFor("meta", call.path)
      BY <2>1, <2>4, GrantedHeaders DEF Asking
    <3>2. ~ Found(SizeHeaders(call.path))
      BY <1>2, <2>4 DEF HeaderNotFound
    <3>3. /\ NamedLikeContainer(call.path)
          /\ "X-Container-Bytes-Used" \notin reply.keys
      BY <3>1, <3>2 DEF Found, Has, SizeHeaders
    <3>4. InSomeContainer(call.path) \/ reply.kind = "container"
      BY <3>1 DEF KindsFor, KindsAt
    <3> QED
      BY <2>4, <3>3, <3>4
  <2>5. CASE call.op \notin {"auth", "read", "meta"}
    <3>1. ~ Found({})
      BY <1>2, <2>5 DEF HeaderNotFound
    <3> QED
      BY <3>1 DEF Found
  <2> QED
    BY <2>2, <2>3, <2>4, <2>5
<1> QED
  BY <1>1, <1>2 DEF Crash

\* Only Crash leads where behaviour is undefined, and nothing leads on.
LEMMA OnlyCrash ==
  ASSUME ConnectionInv, [Next]_vars, pc' = "undefined"
  PROVE  Crash \/ UNCHANGED vars
<1>1. CASE ParseCredentials \/ StartFuse \/ MossoInit \/ AuthFails \/ AuthSucceeds
  BY <1>1 DEF ParseCredentials, StartFuse, MossoInit, Call, AuthFails,
              AuthSucceeds, Leave
<1>2. ASSUME NEW p \in Path \ {Root},
             \/ GetObjectMeta(p) \/ CreateDirectory(p) \/ DeleteObject(p)
             \/ \E size \in 1..MaxBody : ReadObject(p, size)
      PROVE  FALSE
  BY <1>2 DEF GetObjectMeta, CreateDirectory, DeleteObject, ReadObject, Call
<1>3. ASSUME NEW p \in Path, NEW marker \in Marker \cup {<<>>},
             ListObjects(p, marker)
      PROVE  FALSE
  BY <1>3 DEF ListObjects, Call
<1>4. CASE pc = "calling" /\ Transfer /\ UNCHANGED programVars
  BY <1>4 DEF programVars
<1>5. CASE ReturnList \/ ReturnRead \/ ReturnCreate \/ ReturnDelete
  BY <1>5 DEF ReturnList, ReturnRead, ReturnCreate, ReturnDelete, Leave
<1>6. CASE MetaFails \/ BuildMeta \/ FreeMeta \/ Unmount \/ OutOfMemory
  BY <1>6 DEF MetaFails, BuildMeta, FreeMeta, Unmount, OutOfMemory, Leave
<1>7. CASE Crash \/ Stopped \/ UNCHANGED vars
  BY <1>7 DEF Stopped
<1> QED
  BY <1>1, <1>2, <1>3, <1>4, <1>5, <1>6, <1>7 DEF Next

\* Whatever is asked for, and wherever a transfer breaks off, behaviour is
\* undefined for five reasons only: a response without one header line, a header
\* missing from a good answer (of those to mosso_init, of a container's size, of
\* the length of what is read), an object that is named like its container, or a
\* cache_new that returned nothing of use.
THEOREM AllExplained ==
  Spec => []UndefinedExplained
<1>1. Init => UndefinedExplained
  BY DEF Init, UndefinedExplained
<1>2. ConnectionInv /\ UndefinedExplained /\ [Next]_vars => UndefinedExplained'
  <2> SUFFICES ASSUME ConnectionInv, UndefinedExplained, [Next]_vars,
                      pc' = "undefined"
               PROVE  UndefinedExplained'
    BY DEF UndefinedExplained
  <2>1. CASE Crash
    <3>1. UNCHANGED <<mosso, reply, call>>
      BY <2>1 DEF Crash, curlVars
    <3> QED
      BY <2>1, <3>1, CrashExplained DEF UndefinedExplained, CacheUsed
  <2>2. CASE UNCHANGED vars
    BY <2>2 DEF UndefinedExplained, vars, curlVars, programVars
  <2> QED
    BY <2>1, <2>2, OnlyCrash
<1> QED
  BY <1>1, <1>2, ConnectionInvariant, PTL DEF Spec

\* The path of a container has no name below it, and is named like itself.
LEMMA ContainersNamedSo ==
  ASSUME NEW p \in Seq(0..255), IsPath(p), ~ InSomeContainer(p)
  PROVE  NamedLikeContainer(p)
<1> DEFINE N == Len(p)
           slashes == {i \in 2..N : p[i] = SLASH}
           all == {i \in 1..N : p[i] = SLASH}
<1>1. N \in Nat /\ N >= 1 /\ p[1] = SLASH
  BY DEF IsPath
<1>2. slashes = {}
  <2> SUFFICES ASSUME slashes # {}
               PROVE  FALSE
    OBVIOUS
  <2>1. ContainerEnd(p) = Min(slashes)
    BY DEF ContainerEnd
  <2>2. slashes \subseteq Nat
    BY <1>1
  <2>3. PICK e \in slashes : \A i \in slashes : e <= i
    <3> HIDE DEF slashes
    <3> QED
      BY <2>2, LeastNumber
  <2>4. Min(slashes) \in slashes
    <3> HIDE DEF slashes
    <3> QED
      BY <2>3 DEF Min
  <2>5. PICK m \in slashes : ContainerEnd(p) = m
    BY <2>1, <2>4
  <2>6. m \in 2..N /\ p[m] = SLASH
    BY <2>5
  <2>7. p # Root
    <3>1. Len(Root) = 1
      BY DEF Root
    <3> QED
      BY <1>1, <2>6, <3>1
  <2>8. m < N
    BY <1>1, <2>6, <2>7 DEF IsPath
  <2>9. InContainer(p) = SubSeq(p, m + 1, N)
    BY <2>5 DEF InContainer
  <2>10. Len(SubSeq(p, m + 1, N)) = N - m
    BY <1>1, <2>6, <2>8
  <2>11. InContainer(p) = <<>>
    BY DEF InSomeContainer
  <2>12. PICK rest : rest = SubSeq(p, m + 1, N)
    OBVIOUS
  <2>13. Len(rest) = N - m /\ rest = <<>>
    BY <2>9, <2>10, <2>11, <2>12
  <2>14. N - m # 0
    BY <1>1, <2>6, <2>8
  <2> QED
    BY <2>13, <2>14
<1>3. ContainerOf(p) = SubSeq(p, 2, N)
  <2>1. ContainerEnd(p) = N + 1 /\ (N + 1) - 1 = N
    BY <1>1, <1>2 DEF ContainerEnd
  <2> QED
    BY <2>1 DEF ContainerOf
<1>4. all = {1}
  <2>1. \A i \in 1..N : i = 1 \/ i \in 2..N
    BY <1>1
  <2> QED
    BY <1>1, <1>2, <2>1
<1>5. Max({1}) = 1
  BY DEF Max
<1>6. NameOf(p) = SubSeq(p, 2, N)
  <2>1. NameOf(p) = SubSeq(p, Max(all) + 1, N)
    BY DEF NameOf
  <2>2. Max(all) = 1
    BY <1>4, <1>5
  <2> HIDE DEF all
  <2>3. Max(all) + 1 = 2
    BY <2>2
  <2> QED
    BY <2>1, <2>3
<1> QED
  BY <1>3, <1>6 DEF NamedLikeContainer

\* The root, too, is a path.
LEMMA RootIsPath ==
  Root \in Seq(0..255) /\ IsPath(Root)
  BY DEF Root, IsPath, SLASH

\* Whatever is asked for in ASCII characters, and wherever a page of a listing
\* ended, the service reads the URL as it was meant (mosso_construct_request_url,
\* simple_curl_urlencode). What any other character does to a URL is said by
\* UrlShowsGarbage.
THEOREM AllAddressed ==
  Spec => []Addressed
<1>1. Values => Addressed
  <2> SUFFICES ASSUME call \in Calls, IsAscii(call.path), IsAscii(call.marker)
               PROVE  ServiceReads(Url) = Meant(call.path, call.type, call.marker)
    BY DEF Values, Addressed
  <2>1. PICK path, type, marker :
          path = call.path /\ type = call.type /\ marker = call.marker
    OBVIOUS
  <2>2. /\ path \in Path \cup {Root} /\ type \in {"file", "path"}
        /\ marker \in Marker \cup {<<>>}
    BY <2>1 DEF Calls
  <2>3. path \in Seq(Bytes) /\ IsPath(path) /\ marker \in Seq(Bytes)
    <3>1. \A p \in Path : p \in Seq(Bytes) /\ IsPath(p)
      BY ConnectionAssumption DEF Bytes
    <3>2. \A m \in Marker : m \in Seq(Bytes)
      BY ConnectionAssumption DEF Bytes
    <3>3. Root \in Seq(Bytes) /\ IsPath(Root)
      BY RootIsPath DEF Bytes
    <3>4. <<>> \in Seq(Bytes)
      BY EmptySeq
    <3> QED
      BY <2>2, <3>1, <3>2, <3>3, <3>4
  <2> QED
    BY <2>1, <2>2, <2>3, UrlAddresses DEF Url
<1>2. ConnectionInv => Values
  BY DEF ConnectionInv
<1> QED
  BY <1>1, <1>2, ConnectionInvariant, PTL

\* What a meta says, when it is built.
LEMMA MetaSays ==
  ASSUME ConnectionInv, BuildMeta, MetaHeaders(reply.kind) \subseteq reply.keys
  PROVE  /\ meta'.type = reply.kind
         /\ meta'.size = IF reply.kind = "container" THEN BytesUsed
                         ELSE LengthOf(reply.kind)
<1> DEFINE p == call.path
<1>1. /\ returned # NULL /\ call.op = "meta" /\ Granted /\ Found(SizeHeaders(p))
      /\ meta' = [type |-> ObjectType(p), size |-> ObjectSize(p),
                  tag |-> TagList(returned.headers).last]
  BY DEF BuildMeta, Returned
<1>2. meta'.type = ObjectType(p) /\ meta'.size = ObjectSize(p)
  BY <1>1
<1>3. /\ ToSet(Keys(nodes, returned.headers)) = reply.keys
      /\ reply.kind \in KindsAt(p)
      /\ reply.keys \subseteq MetaHeaders(reply.kind)
  BY <1>1, GrantedHeaders DEF Asking, KindsFor, HeadersOf
<1>4. \A keys : Found(keys) <=> keys \subseteq reply.keys
  BY <1>3 DEF Found, Has
<1>5. p \in Seq(0..255) /\ IsPath(p)
  <2>1. p \in Path \cup {Root}
    BY <1>1, AtReturn DEF Calls
  <2> QED
    BY <2>1, ConnectionAssumption, RootIsPath
<1>6. NamedLikeContainer(p) <=> reply.kind = "container"
  <2>1. CASE NamedLikeContainer(p)
    <3>1. "X-Container-Bytes-Used" \in reply.keys
      BY <1>1, <1>4, <2>1 DEF SizeHeaders
    <3>2. reply.kind # "container" =>
            "X-Container-Bytes-Used" \notin MetaHeaders(reply.kind)
      BY DEF MetaHeaders, TagHeaders
    <3> QED
      BY <1>3, <2>1, <3>1, <3>2
  <2>2. CASE ~ NamedLikeContainer(p)
    <3>1. InSomeContainer(p)
      BY <1>5, <2>2, ContainersNamedSo
    <3> QED
      BY <1>3, <2>2, <3>1 DEF KindsAt
  <2> QED
    BY <2>1, <2>2
<1>7. CASE reply.kind = "container"
  BY <1>2, <1>6, <1>7 DEF ObjectType, ObjectSize
<1>8. CASE reply.kind # "container"
  <2>1. Found({"Content-Type"}) /\ Found({"Content-Length"})
    BY <1>4, <1>8 DEF MetaHeaders
  <2>2. reply.kind \in {"object", "vdir"}
    BY <1>3, <1>8 DEF KindsAt
  <2> QED
    BY <1>2, <1>6, <1>8, <2>1, <2>2 DEF ObjectType, ObjectSize
<1> QED
  BY <1>7, <1>8

\* Nothing but BuildMeta makes a meta.
LEMMA OnlyBuilt ==
  ASSUME ConnectionInv, [Next]_vars, meta = NULL, meta' # NULL
  PROVE  BuildMeta
<1>1. CASE ParseCredentials \/ StartFuse \/ MossoInit \/ AuthFails \/ AuthSucceeds
  BY <1>1 DEF ParseCredentials, StartFuse, MossoInit, AuthFails, AuthSucceeds
<1>2. ASSUME NEW p \in Path \ {Root},
             \/ GetObjectMeta(p) \/ CreateDirectory(p) \/ DeleteObject(p)
             \/ \E size \in 1..MaxBody : ReadObject(p, size)
      PROVE  FALSE
  BY <1>2 DEF GetObjectMeta, CreateDirectory, DeleteObject, ReadObject
<1>3. ASSUME NEW p \in Path, NEW marker \in Marker \cup {<<>>},
             ListObjects(p, marker)
      PROVE  FALSE
  BY <1>3 DEF ListObjects
<1>4. CASE pc = "calling" /\ Transfer /\ UNCHANGED programVars
  BY <1>4 DEF programVars
<1>5. CASE ReturnList \/ ReturnRead \/ ReturnCreate \/ ReturnDelete
  BY <1>5 DEF ReturnList, ReturnRead, ReturnCreate, ReturnDelete
<1>6. CASE MetaFails \/ FreeMeta \/ Unmount \/ OutOfMemory \/ Crash
  BY <1>6 DEF MetaFails, FreeMeta, Unmount, OutOfMemory, Crash
<1>7. CASE Stopped \/ UNCHANGED vars
  BY <1>7 DEF Stopped, vars, programVars
<1> QED
  BY <1>1, <1>2, <1>3, <1>4, <1>5, <1>6, <1>7 DEF Next

\* A meta says of an object what the service says of it: type and size if their
\* headers are there, and every tag that is, in order, in a list that outlives
\* the response (mosso_get_object_meta).
THEOREM AllFaithful ==
  Spec => MetaFaithful
<1>1. ASSUME ConnectionInv, [Next]_vars, meta = NULL, meta' # NULL
      PROVE  /\ Keys(nodes', meta'.tag) = TagNames(reply.delivered)
             /\ MetaHeaders(reply.kind) \subseteq reply.keys =>
                  /\ meta'.type = reply.kind
                  /\ meta'.size = IF reply.kind = "container" THEN BytesUsed
                                  ELSE LengthOf(reply.kind)
  <2>1. BuildMeta
    BY <1>1, OnlyBuilt
  <2> QED
    BY <1>1, <2>1, BuildMetaKeeps, MetaSays
<1> QED
  BY <1>1, ConnectionInvariant, PTL DEF Spec, MetaFaithful

\* A program that has stopped of itself: nothing was mounted, the mount was
\* refused, or it was unmounted.
NothingRemains ==
  pc \in {"usage", "refused", "unmounted"} =>
    /\ \A n \in Node : nodes[n] = FREED
    /\ \A b \in Block : blocks[b] = FREED
    /\ strings = {}

\* Options are freed with the rest: there are none when the program has stopped.
LEMMA OptionsGone ==
  Spec => [](pc \in {"usage", "refused", "unmounted"} => options = {})
<1> DEFINE Gone == pc \in {"usage", "refused", "unmounted"} => options = {}
<1>1. Init => Gone
  BY DEF Init
<1>2. Gone /\ [Next]_vars => Gone'
  <2> SUFFICES ASSUME Gone, [Next]_vars
               PROVE  Gone'
    OBVIOUS
  <2>1. CASE ParseCredentials \/ StartFuse \/ MossoInit \/ AuthFails \/ AuthSucceeds
    BY <2>1 DEF ParseCredentials, StartFuse, MossoInit, Call, AuthFails,
                AuthSucceeds, Leave
  <2>2. ASSUME NEW p \in Path \ {Root},
               \/ GetObjectMeta(p) \/ CreateDirectory(p) \/ DeleteObject(p)
               \/ \E size \in 1..MaxBody : ReadObject(p, size)
        PROVE  pc' = "calling"
    BY <2>2 DEF GetObjectMeta, CreateDirectory, DeleteObject, ReadObject, Call
  <2>3. ASSUME NEW p \in Path, NEW marker \in Marker \cup {<<>>},
               ListObjects(p, marker)
        PROVE  pc' = "calling"
    BY <2>3 DEF ListObjects, Call
  <2>4. CASE pc = "calling" /\ Transfer /\ UNCHANGED programVars
    BY <2>4 DEF programVars
  <2>5. CASE ReturnList \/ ReturnRead \/ ReturnCreate \/ ReturnDelete
    BY <2>5 DEF ReturnList, ReturnRead, ReturnCreate, ReturnDelete, Leave
  <2>6. CASE \/ MetaFails \/ BuildMeta \/ FreeMeta \/ Unmount \/ Crash
             \/ OutOfMemory
    BY <2>6 DEF MetaFails, BuildMeta, FreeMeta, Unmount, Crash, OutOfMemory, Leave
  <2>7. CASE Stopped \/ UNCHANGED vars
    BY <2>7 DEF Stopped, vars, programVars
  <2> QED
    BY <2>1, <2>2, <2>3, <2>4, <2>5, <2>6, <2>7 DEF Next
<1> QED
  BY <1>1, <1>2, PTL DEF Spec

\* A program that stops of itself has freed every list node, every response
\* body and every string of options and connection (mossofs_destroy, and the
\* branch of mossofs_init for a refused mount).
THEOREM EverythingFreed ==
  Spec => []NothingRemains
<1> DEFINE Gone == pc \in {"usage", "refused", "unmounted"} => options = {}
<1>1. ConnectionInv /\ Gone => NothingRemains
  <2> SUFFICES ASSUME ConnectionInv, options = {},
                      pc \in {"usage", "refused", "unmounted"}
               PROVE  /\ \A n \in Node : nodes[n] = FREED
                      /\ \A b \in Block : blocks[b] = FREED
                      /\ strings = {}
    BY DEF NothingRemains
  <2>1. /\ mosso = NULL /\ call = NULL /\ meta = NULL
        /\ transfer = NULL /\ returned = NULL
    BY DEF ConnectionInv, Stage
  <2>2. \A x \in Slots : Lists[x] = NULL
    BY <2>1, ListsAre DEF Slots
  <2>3. \A n \in Node : nodes[n] = FREED
    <3> SUFFICES ASSUME NEW n \in Node, nodes[n] # FREED
                 PROVE  FALSE
      OBVIOUS
    <3>1. PICK x \in Slots : n \in ToSet(Chain(nodes, Lists[x]))
      BY ListsAre DEF ConnectionInv, Owned
    <3>2. Chain(nodes, NULL) = <<>> /\ ToSet(<<>>) = {}
      BY NoList DEF ToSet
    <3> QED
      BY <2>2, <3>1, <3>2
  <2>4. \A b \in Block : blocks[b] = FREED
    BY <2>1 DEF ConnectionInv, Stored, Bodies
  <2>5. strings = {}
    BY <2>1 DEF ConnectionInv, Stored
  <2> QED
    BY <2>3, <2>4, <2>5
<1> QED
  BY <1>1, ConnectionInvariant, OptionsGone, PTL
-----------------------------------------------------------------------------
(* A call for a meta returns, where no name is its container's again.       *)

\* Nothing that a program needs is left out, and no path names its container
\* once more below it.
NothingNeededOmitted ==
  Omits \cap {"X-Container-Bytes-Used", "Content-Length", "Date"} = {}
NoNamesake == \A p \in Path : ~ (InSomeContainer(p) /\ NamedLikeContainer(p))

\* An answer has every header it comes with, but for those that may be omitted.
Entire(answer, op) ==
  LET due == IF answer.kind = "none" THEN {"Date"} ELSE HeadersOf(op, answer.kind)
  IN  due \ Omits \subseteq answer.keys

AnsweredEntirely ==
  transfer # NULL \/ returned # NULL => Entire(reply, call.op)

LEMMA AnswersEntire ==
  ASSUME NEW op \in Ops, NEW path, NEW answer \in Answers(op, path)
  PROVE  Entire(answer, op)
<1>1. "none" \notin KindsFor(op, path)
  BY DEF KindsFor, KindsAt
<1>2. \A keys : \A without \in Without(keys) : keys \ Omits \subseteq without
  BY DEF Without
<1> DEFINE Made(kind, code, keys, body) ==
             answer = [kind |-> kind, code |-> code, keys |-> keys,
                       body |-> body, delivered |-> <<>>, passed |-> 0]
<1>3. ASSUME answer \in Grants(op, path)
      PROVE  Entire(answer, op)
  <2>1. PICK kind \in KindsFor(op, path) :
          answer \in {Answer(kind, CodeOf(op), keys, body) :
                        keys \in Without(HeadersOf(op, kind)),
                        body \in IF op \in {"list", "read"} THEN 1..MaxBody ELSE {0}}
    BY <1>3 DEF Grants
  <2>2. PICK keys \in Without(HeadersOf(op, kind)),
             body \in IF op \in {"list", "read"} THEN 1..MaxBody ELSE {0} :
          answer = Answer(kind, CodeOf(op), keys, body)
    BY <2>1
  <2>3. Made(kind, CodeOf(op), keys, body)
    BY <2>2 DEF Answer
  <2>4. answer.kind = kind /\ answer.keys = keys /\ kind # "none"
    BY <1>1, <2>3
  <2>5. HeadersOf(op, kind) \ Omits \subseteq keys
    BY <1>2
  <2> QED
    BY <2>4, <2>5 DEF Entire
<1>4. ASSUME answer \in Refusals(op)
      PROVE  Entire(answer, op)
  <2>1. PICK code \in {401, 500}, keys \in Without({"Date"}),
             body \in IF HasBody(op) THEN 0..1 ELSE {0} :
          answer = Answer("none", code, keys, body)
    BY <1>4 DEF Refusals
  <2>2. Made("none", code, keys, body)
    BY <2>1 DEF Answer
  <2>3. answer.kind = "none" /\ answer.keys = keys
    BY <2>2
  <2> QED
    BY <1>2, <2>3 DEF Entire
<1> QED
  BY <1>3, <1>4 DEF Answers

LEMMA CallAnswered ==
  ASSUME NEW op \in Ops, NEW path, NEW type, NEW marker, NEW size, NEW own, NEW list,
         Call(op, path, type, marker, size, own, list)
  PROVE  AnsweredEntirely'
<1>1. call'.op = op
  BY DEF Call
<1>2. PICK answer \in Answers(op, path) : reply' = answer
  BY DEF Call, Request
<1> QED
  BY <1>1, <1>2, AnswersEntire DEF AnsweredEntirely

LEMMA NextAnswered ==
  ASSUME ConnectionInv, AnsweredEntirely, [Next]_vars
  PROVE  AnsweredEntirely'
<1>0. {"auth", "meta", "list", "read", "create", "delete"} \subseteq Ops
  BY DEF Ops
<1>1. CASE MossoInit
  BY <1>0, <1>1, CallAnswered DEF MossoInit
<1>2. ASSUME NEW p \in Path \ {Root},
             \/ GetObjectMeta(p) \/ CreateDirectory(p) \/ DeleteObject(p)
             \/ \E size \in 1..MaxBody : ReadObject(p, size)
      PROVE  AnsweredEntirely'
  <2>1. CASE GetObjectMeta(p)
    BY <1>0, <2>1, CallAnswered DEF GetObjectMeta
  <2>2. CASE CreateDirectory(p)
    BY <1>0, <2>2, CallAnswered DEF CreateDirectory
  <2>3. CASE DeleteObject(p)
    BY <1>0, <2>3, CallAnswered DEF DeleteObject
  <2>4. CASE \E size \in 1..MaxBody : ReadObject(p, size)
    BY <1>0, <2>4, CallAnswered DEF ReadObject
  <2> QED
    BY <1>2, <2>1, <2>2, <2>3, <2>4
<1>3. ASSUME NEW p \in Path, NEW marker \in Marker \cup {<<>>},
             ListObjects(p, marker)
      PROVE  AnsweredEntirely'
  BY <1>0, <1>3, CallAnswered DEF ListObjects
<1>4. CASE Transfer /\ UNCHANGED programVars
  <2>1. transfer # NULL /\ call' = call
    BY <1>4 DEF Transfer, programVars
  <2>2. reply'.kind = reply.kind /\ reply'.keys = reply.keys
    <3>1. reply \in Replies
      BY <2>1 DEF ConnectionInv, Answered
    <3> QED
      BY <1>4, <3>1 DEF Transfer, WriteHeader, WriteBody, PerformFails, PerformDone, Replies
  <2> QED
    BY <2>1, <2>2 DEF AnsweredEntirely, Entire
<1>5. CASE \/ AuthFails \/ AuthSucceeds \/ ReturnList \/ ReturnRead \/ ReturnCreate
           \/ ReturnDelete \/ MetaFails \/ BuildMeta \/ OutOfMemory
  <2>1. returned' = NULL
    BY <1>5 DEF AuthFails, AuthSucceeds, ReturnList, ReturnRead, ReturnCreate,
                ReturnDelete, MetaFails, BuildMeta, OutOfMemory, Leave
  <2>2. transfer' = NULL
    <3>1. (transfer' = transfer /\ returned # NULL) \/ transfer' = NULL
      BY <1>5 DEF AuthFails, AuthSucceeds, ReturnList, ReturnRead, ReturnCreate,
                  ReturnDelete, MetaFails, BuildMeta, OutOfMemory, Returned
    <3> QED
      BY <3>1 DEF ConnectionInv, Stage
  <2> QED
    BY <2>1, <2>2 DEF AnsweredEntirely
<1>6. CASE ParseCredentials \/ StartFuse \/ FreeMeta \/ Unmount \/ Crash \/ Stopped
           \/ UNCHANGED vars
  <2>1. UNCHANGED <<transfer, reply, returned, call>>
    BY <1>6 DEF ParseCredentials, StartFuse, FreeMeta, Unmount, Crash, Stopped,
                vars, curlVars, programVars
  <2> QED
    BY <2>1 DEF AnsweredEntirely
<1> QED
  BY <1>1, <1>2, <1>3, <1>4, <1>5, <1>6 DEF Next

LEMMA RootIsContainer ==
  ~ InSomeContainer(Root)
<1>1. Len(Root) = 1
  BY DEF Root
<1>2. {i \in 2..1 : Root[i] = SLASH} = {}
  OBVIOUS
<1>3. ContainerEnd(Root) = 2
  BY <1>1, <1>2 DEF ContainerEnd
<1>4. InContainer(Root) = SubSeq(Root, 3, 1)
  BY <1>1, <1>3 DEF InContainer
<1>5. SubSeq(Root, 3, 1) = <<>>
  BY DEF Root
<1> QED
  BY <1>4, <1>5 DEF InSomeContainer

\* The two halves of CallsReturn.
MetaReturns == pc = "undefined" => call = NULL \/ call.op # "meta"
ReadReturns == pc = "undefined" => call = NULL \/ call.op # "read"

\* A call for a meta returns, whatever else is asked for and wherever a transfer
\* breaks off, if the service sends the headers it is used for and no object or
\* directory has the name of its container: the namesake is all that makes
\* mosso_get_object_meta read a header without asking whether it is there.
THEOREM MetasReturn ==
  NothingNeededOmitted /\ NoNamesake => (Spec => []MetaReturns)
<1> SUFFICES ASSUME NothingNeededOmitted, NoNamesake
             PROVE  Spec => []MetaReturns
  OBVIOUS
<1>1. Init => AnsweredEntirely /\ MetaReturns
  BY DEF Init, CurlInit, AnsweredEntirely, MetaReturns
<1>2. ASSUME ConnectionInv, AnsweredEntirely, MetaReturns, [Next]_vars,
             pc' = "undefined", call' # NULL, call'.op = "meta"
      PROVE  FALSE
  <2>1. CASE UNCHANGED vars
    BY <1>2, <2>1 DEF MetaReturns, vars, programVars
  <2>2. CASE Crash
    <3>1. call' = call /\ call \in Calls
      BY <1>2, <2>2 DEF Crash, ConnectionInv, Values
    <3>2. ~ CacheUsed /\ (transfer # NULL \/ returned # NULL)
      BY <1>2, <2>2, <3>1 DEF Crash, CacheUsed, NoHeaderLine, Performed,
                              HeaderNotFound, ConnectionInv, Stage
    <3>3. Entire(reply, "meta") /\ reply.kind \in Kinds
      BY <1>2, <3>1, <3>2 DEF AnsweredEntirely, ConnectionInv, Answered, Replies
    <3>4. reply.keys # {}
      BY <3>3 DEF Entire, NothingNeededOmitted, HeadersOf, MetaHeaders
    <3>5. reply.kind = "container" => "X-Container-Bytes-Used" \in reply.keys
      BY <3>3 DEF Entire, NothingNeededOmitted, HeadersOf, MetaHeaders
    <3>6. ~ (InSomeContainer(call.path) /\ NamedLikeContainer(call.path))
      <4>1. call.path \in Path \cup {Root}
        BY <3>1 DEF Calls
      <4> QED
        BY <4>1, RootIsContainer DEF NoNamesake
    <3> QED
      BY <1>2, <2>2, <3>1, <3>2, <3>4, <3>5, <3>6, CrashExplained
  <2> QED
    BY <1>2, <2>1, <2>2, OnlyCrash
<1>3. ConnectionInv /\ AnsweredEntirely /\ MetaReturns /\ [Next]_vars =>
        AnsweredEntirely' /\ MetaReturns'
  BY <1>2, NextAnswered DEF MetaReturns
<1> QED
  BY <1>1, <1>3, ConnectionInvariant, PTL DEF Spec

\* A read returns, whatever else is asked for and wherever a transfer breaks
\* off, if the service sends the headers it is used for: the missing length of
\* a 206 is all that mosso_read_object does not ask about.
THEOREM ReadsReturn ==
  NothingNeededOmitted => (Spec => []ReadReturns)
<1> SUFFICES ASSUME NothingNeededOmitted
             PROVE  Spec => []ReadReturns
  OBVIOUS
<1>1. Init => AnsweredEntirely /\ ReadReturns
  BY DEF Init, CurlInit, AnsweredEntirely, ReadReturns
<1>2. ASSUME ConnectionInv, AnsweredEntirely, ReadReturns, [Next]_vars,
             pc' = "undefined", call' # NULL, call'.op = "read"
      PROVE  FALSE
  <2>1. CASE UNCHANGED vars
    BY <1>2, <2>1 DEF ReadReturns, vars, programVars
  <2>2. CASE Crash
    <3>1. call' = call /\ call \in Calls
      BY <1>2, <2>2 DEF Crash, ConnectionInv, Values
    <3>2. ~ CacheUsed /\ (transfer # NULL \/ returned # NULL)
      BY <1>2, <2>2, <3>1 DEF Crash, CacheUsed, NoHeaderLine, Performed,
                              HeaderNotFound, ConnectionInv, Stage
    <3>3. Entire(reply, "read")
      BY <1>2, <3>1, <3>2 DEF AnsweredEntirely
    <3>4. reply.keys # {}
      BY <3>3 DEF Entire, NothingNeededOmitted, HeadersOf
    <3>5. reply.kind # "none" => "Content-Length" \in reply.keys
      BY <3>3 DEF Entire, NothingNeededOmitted, HeadersOf
    <3>6. CASE NoHeaderLine
      <4>1. transfer # NULL /\ transfer.stream = NULL /\ HeadersDue = {}
        BY <3>6 DEF NoHeaderLine, Performed
      <4>2. reply.delivered = <<>>
        BY <1>2, <4>1, NoList DEF ConnectionInv, Arriving
      <4>3. ToSet(<<>>) = {}
        BY DEF ToSet
      <4> QED
        BY <3>4, <4>1, <4>2, <4>3 DEF HeadersDue
    <3>7. CASE HeaderNotFound
      <4>1. returned # NULL /\ Granted /\ ~ Found({"Content-Length"})
        BY <1>2, <3>1, <3>7 DEF HeaderNotFound
      <4>2. /\ ToSet(Keys(nodes, returned.headers)) = reply.keys
            /\ reply.kind \in KindsFor("read", call.path)
        BY <1>2, <3>1, <4>1, GrantedHeaders DEF Asking
      <4>3. "Content-Length" \notin reply.keys
        BY <4>1, <4>2 DEF Found, Has
      <4> QED
        BY <3>5, <4>2, <4>3 DEF KindsFor
    <3> QED
      BY <2>2, <3>2, <3>6, <3>7 DEF Crash, CacheUsed
  <2> QED
    BY <1>2, <2>1, <2>2, OnlyCrash
<1>3. ConnectionInv /\ AnsweredEntirely /\ ReadReturns /\ [Next]_vars =>
        AnsweredEntirely' /\ ReadReturns'
  BY <1>2, NextAnswered DEF ReadReturns
<1> QED
  BY <1>1, <1>3, ConnectionInvariant, PTL DEF Spec

\* A call for a meta and a read return, whatever else is asked for and wherever a
\* transfer breaks off, under both conditions: nothing else in either function
\* keeps the promise of its comment from being true.
THEOREM MetasAndReadsReturn ==
  NothingNeededOmitted /\ NoNamesake => (Spec => []CallsReturn)
<1>1. MetaReturns /\ ReadReturns => CallsReturn
  BY DEF MetaReturns, ReadReturns, CallsReturn
<1> QED
  BY <1>1, MetasReturn, ReadsReturn, PTL
=============================================================================
