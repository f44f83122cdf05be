----------------------------- MODULE SimpleCurl -----------------------------
(***************************************************************************)
(* simple_curl_request_complex, from its call to its return, with the      *)
(* callbacks libcurl makes meanwhile: one for each header line, then any   *)
(* number for the body, cut wherever the network cut it.  A transfer can   *)
(* fail at any point.                                                      *)
(*                                                                         *)
(* A status line, an empty line or any other that does not look like a     *)
(* header is skipped by the header callback, which is no step here.  No    *)
(* caller sends a body.                                                    *)
(*                                                                         *)
(* The service's answer is decided when it is asked.  Its body is the      *)
(* numbers 1, 2, ..., so that what arrives can be told from what was sent. *)
(***************************************************************************)
EXTENDS LinkedLists

CONSTANTS Block   \* addresses of response bodies

\* The locals of simple_curl_request_complex, and what it leaves its caller.
Locals ==
  [request : Node, wantBody : BOOLEAN, wantHeaders : BOOLEAN,
   stream : Node \cup {NULL}, recv : Block, length : Nat]
Response ==
  [code : Nat, body : Block \cup {NULL}, headers : Node \cup {NULL}]

ASSUME SimpleCurlAssumption ==
  /\ {NULL, FREED} \cap Block = {}
  /\ FREED \notin Seq(Nat)
  /\ NULL \notin Locals \cup Response

VARIABLES
  nodes,     \* heap of list nodes
  blocks,    \* heap of response bodies: the bytes of each
  transfer,  \* locals of simple_curl_request_complex, NULL outside of it
  reply,     \* the service's answer and how much of it libcurl has passed on,
             \* NULL when nobody asks
  returned   \* what the caller has then: response_code, response_body,
             \* response_headers; NULL until the function returns

curlVars == <<nodes, blocks, transfer, reply, returned>>

CurlInit ==
  /\ nodes = [n \in Node |-> FREED]
  /\ blocks = [b \in Block |-> FREED]
  /\ transfer = NULL
  /\ reply = NULL
  /\ returned = NULL

\* The header lines made of the caller's list (simple_curl_prepare_curl_headers).
CurlHeaders(headers) == Keys(nodes, headers)

\* The call, up to curl_easy_perform. heap holds the lists with the one sent.
Request(heap, headers, wantBody, wantHeaders, answer) ==
  /\ transfer = NULL
  /\ \E b \in Block :
       /\ blocks[b] = FREED
       /\ blocks' = [blocks EXCEPT ![b] = <<>>]
       /\ transfer' = [request |-> headers,
                       wantBody |-> wantBody, wantHeaders |-> wantHeaders,
                       stream |-> NULL, recv |-> b, length |-> 0]
  /\ nodes' = heap
  /\ reply' = answer
  /\ returned' = NULL

HeadersDue == reply.keys \ ToSet(reply.delivered)
BytesDue == reply.body - reply.passed

\* simple_curl_write_header
WriteHeader(key) ==
  /\ transfer # NULL
  /\ key \in HeadersDue
  /\ Room(nodes, 1)
  /\ LET list == Add([heap |-> nodes, last |-> transfer.stream], key)
     IN  /\ nodes' = list.heap
         /\ transfer' = [transfer EXCEPT !.stream = list.last]
  /\ reply' = [reply EXCEPT !.delivered = Append(@, key)]
  /\ UNCHANGED <<blocks, returned>>

\* Fault to be caught: the length stays what it was before the first chunk.
ExtendedForgetful(content, length, chunk) == chunk

\* The block after realloc and memcpy: chunk stands behind length bytes.
Extended(content, length, chunk) == SubSeq(content, 1, length) \o chunk

\* simple_curl_write_body. The block grows where it is, or moves.
WriteBody(n) ==
  /\ transfer # NULL
  /\ HeadersDue = {}
  /\ n \in 1..BytesDue
  /\ LET chunk == [i \in 1..n |-> reply.passed + i]
         new == Extended(blocks[transfer.recv], transfer.length, chunk)
     IN  \E b \in Block :
           /\ b = transfer.recv \/ blocks[b] = FREED
           /\ blocks' = [blocks EXCEPT ![transfer.recv] = FREED, ![b] = new]
           /\ transfer' = [transfer EXCEPT !.recv = b, !.length = @ + n]
  /\ reply' = [reply EXCEPT !.passed = @ + n]
  /\ UNCHANGED <<nodes, returned>>

\* curl_easy_perform returns an error: no connection, broken off, cut short.
PerformFails ==
  /\ transfer # NULL
  /\ nodes' = FreeAll(nodes, transfer.stream)
  /\ blocks' = [blocks EXCEPT ![transfer.recv] = FREED]
  /\ returned' = [code |-> 0, body |-> NULL, headers |-> NULL]
  /\ transfer' = NULL
  /\ UNCHANGED reply

Performed == transfer # NULL /\ HeadersDue = {} /\ BytesDue = 0

\* received_header_stream->ptr->root, with ptr still NULL.
NoHeaderLine == Performed /\ transfer.wantHeaders /\ transfer.stream = NULL

\* Fault to be caught: headers nobody asked for are kept.
HeadersKept(stream) == nodes

\* What remains of the header stream when nobody asked for it.
HeadersDropped(stream) == FreeAll(nodes, stream)

PerformDone ==
  /\ Performed
  /\ ~NoHeaderLine
  /\ nodes' = IF transfer.wantHeaders THEN nodes
              ELSE HeadersDropped(transfer.stream)
  /\ blocks' = IF transfer.wantBody THEN blocks
               ELSE [blocks EXCEPT ![transfer.recv] = FREED]
  /\ returned' =
       [code |-> reply.code,
        body |-> IF transfer.wantBody THEN transfer.recv ELSE NULL,
        headers |-> IF transfer.wantHeaders
                    THEN nodes[transfer.stream].root ELSE NULL]
  /\ transfer' = NULL
  /\ UNCHANGED reply

Transfer ==
  /\ transfer # NULL
  /\ \/ \E key \in reply.keys : WriteHeader(key)
     \/ \E n \in 1..reply.body : WriteBody(n)
     \/ PerformFails
     \/ PerformDone
=============================================================================
