---------------------------- MODULE LinkedLists -----------------------------
(***************************************************************************)
(* The linked lists of simple_curl.c and mosso.c: headers and tags.  A     *)
(* node points to the next one and to the root of its list, so that any    *)
(* node stands for the list, and the last one is where it is extended.     *)
(*                                                                         *)
(* A heap maps each node to its content, or to FREED.  Of a header or tag  *)
(* only the key is kept: the value goes wherever the key goes.  malloc     *)
(* takes some free node; since a node that is freed can come back with     *)
(* the next allocation, a pointer kept for too long reaches another list.  *)
(***************************************************************************)
EXTENDS Naturals, Sequences, FiniteSets, SequencesExt

CONSTANTS
  Node,    \* addresses of list nodes
  Key,     \* keys of headers and of tags
  NULL, FREED

Element == [key : Key, next : Node \cup {NULL}, root : Node]

ASSUME LinkedListsAssumption ==
  /\ IsFiniteSet(Node)
  /\ {NULL, FREED} \cap Node = {} /\ NULL # FREED
  /\ FREED \notin Element

Free(heap) == {n \in Node : heap[n] = FREED}

\* smalloc returns so many times; it exits when it does not.
Room(heap, count) == Cardinality(Free(heap)) >= count

NewNode(heap) == CHOOSE n \in Node : heap[n] = FREED

\* A list under construction: the heap, and the last node or NULL.
Empty(heap) == [heap |-> heap, last |-> NULL]

\* simple_curl_header_add and mosso_tag_add
Add(list, key) ==
  LET new == NewNode(list.heap)
      linked == IF list.last = NULL THEN list.heap
                ELSE [list.heap EXCEPT ![list.last].next = new]
      root == IF list.last = NULL THEN new ELSE list.heap[list.last].root
  IN  [heap |-> [linked EXCEPT ![new] = [key |-> key, next |-> NULL, root |-> root]],
       last |-> new]

\* So for each key of a sequence, one after the other.
AddAll(list, keys) ==
  LET added[i \in 0..Len(keys)] ==
        IF i = 0 THEN list ELSE Add(added[i - 1], keys[i])
  IN  added[Len(keys)]

\* What a loop over cur->next passes that starts at n.
Following(heap, n) ==
  LET cur[i \in 1..Cardinality(Node)] ==
        IF i = 1 THEN n
        ELSE LET before == cur[i - 1]
             IN  IF before = NULL THEN NULL ELSE heap[before].next
  IN  [i \in 1..Cardinality({j \in DOMAIN cur : cur[j] # NULL}) |-> cur[i]]

\* Fault to be caught: the list is taken to begin at the given element.
GivenOnwards(heap, n) == Following(heap, n)

\* A loop that starts at n->root, and finds the whole list.
Chain(heap, n) == IF n = NULL THEN <<>> ELSE Following(heap, heap[n].root)

KeysOf(heap, nodes) == [i \in 1..Len(nodes) |-> heap[nodes[i]].key]

Keys(heap, n) == KeysOf(heap, Chain(heap, n))

\* simple_curl_header_get_by_key: whether the key, in exactly these letters,
\* is there; NULL is returned if not.
Has(heap, n, key) == key \in ToSet(Keys(heap, n))

\* simple_curl_header_copy
Copy(heap, n) == AddAll(Empty(heap), Keys(heap, n))

\* simple_curl_header_free_all and mosso_tag_free_all
FreeAll(heap, n) ==
  LET freed == ToSet(Chain(heap, n))
  IN  [m \in Node |-> IF m \in freed THEN FREED ELSE heap[m]]
=============================================================================
