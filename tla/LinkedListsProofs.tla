------------------------- MODULE LinkedListsProofs --------------------------
(***************************************************************************)
(* What adding to, walking along, copying and freeing the lists of module  *)
(* LinkedLists does to a heap in which several lists live side by side.    *)
(***************************************************************************)
EXTENDS LinkedLists, FiniteSetTheorems, SequenceTheorems, WellFoundedInduction,
        TLAPS

\* A set of numbers has a least one: the way in which everything that is
\* recursive here is shown to be what it is.
LEMMA LeastNumber ==
  ASSUME NEW T, T \subseteq Nat, T # {}
  PROVE  \E n \in T : \A m \in T : n <= m
<1> DEFINE UpTo(n) == {m \in T : m <= n}
           Parts == {UpTo(n) : n \in T}
<1>1. \A n \in T : UpTo(n) \in FiniteSubsetsOf(Nat)
  <2> TAKE n \in T
  <2>1. UpTo(n) \in SUBSET Nat /\ n \in Nat /\ \A m \in UpTo(n) : m <= n
    OBVIOUS
  <2> HIDE DEF UpTo
  <2>2. IsFiniteSet(UpTo(n))
    BY <2>1, FS_BoundedSetOfNaturals
  <2> QED
    BY <2>1, <2>2 DEF FiniteSubsetsOf
<1>2. Parts \subseteq FiniteSubsetsOf(Nat) /\ Parts # {}
  BY <1>1
<1>3. PICK U \in Parts : \A V \in Parts : <<V, U>> \notin StrictSubsetOrdering(Nat)
  <2> HIDE DEF Parts
  <2> QED
    BY <1>2, FS_StrictSubsetOrderingWellFounded, WFMin
<1>4. PICK n \in T : U = UpTo(n)
  OBVIOUS
<1>5. ASSUME NEW m \in T, m < n
      PROVE  FALSE
  <2>1. m \in Nat /\ n \in Nat /\ ~ n <= m
    BY <1>5
  <2>2. UpTo(m) \subseteq UpTo(n) /\ n \in UpTo(n) /\ n \notin UpTo(m)
    <3>1. \A x \in T : x <= m => x <= n
      <4> TAKE x \in T
      <4>1. x \in Nat
        OBVIOUS
      <4> QED
        BY <2>1, <1>5, <4>1
    <3>2. UpTo(m) \subseteq UpTo(n)
      BY <3>1
    <3>3. n \in UpTo(n) /\ n \notin UpTo(m)
      BY <2>1
    <3> QED
      BY <3>2, <3>3
  <2>3. UpTo(m) \in Parts /\ UpTo(m) \in SUBSET Nat /\ UpTo(n) \in SUBSET Nat
    OBVIOUS
  <2> HIDE DEF UpTo, Parts
  <2> QED
    BY <1>3, <1>4, <2>2, <2>3 DEF StrictSubsetOrdering
<1>6. \A m \in T : n <= m
  <2> TAKE m \in T
  <2>1. m \in Nat /\ n \in Nat
    OBVIOUS
  <2> QED
    BY <2>1, <1>5
<1> QED
  BY <1>6

\* What holds of a number if it does of all before it holds of all: induction,
\* with a set in place of a predicate.
LEMMA NumbersUpTo ==
  ASSUME NEW N \in Nat, NEW T,
         \A k \in 0..N : (\A j \in 0..N : j < k => j \in T) => k \in T
  PROVE  \A k \in 0..N : k \in T
<1> DEFINE Bad == {k \in 0..N : k \notin T}
<1>1. ASSUME Bad # {}
      PROVE  FALSE
  <2>1. Bad \subseteq Nat
    OBVIOUS
  <2>2. PICK k \in Bad : \A j \in Bad : k <= j
    <3> HIDE DEF Bad
    <3> QED
      BY <1>1, <2>1, LeastNumber
  <2>3. k \in 0..N /\ \A j \in 0..N : j < k => j \in T
    BY <2>2
  <2> QED
    BY <2>2, <2>3
<1> QED
  BY <1>1

\* The elements of a sequence with one more.
LEMMA AppendEntries ==
  ASSUME NEW S, NEW seq \in Seq(S), NEW elt \in S
  PROVE  Append(seq, elt) = [i \in 1..Len(seq) + 1 |->
                               IF i = Len(seq) + 1 THEN elt ELSE seq[i]]
<1> DEFINE a == Append(seq, elt)
<1>1. /\ a \in Seq(S) /\ Len(seq) \in Nat /\ Len(a) = Len(seq) + 1
      /\ \A i \in 1..Len(seq) : a[i] = seq[i]
      /\ a[Len(seq) + 1] = elt
  BY AppendProperties
<1> HIDE DEF a
<1>2. a = [i \in 1..Len(seq) + 1 |-> a[i]]
  BY <1>1
<1>3. \A i \in 1..Len(seq) + 1 : i # Len(seq) + 1 => i \in 1..Len(seq)
  BY <1>1
<1>4. a = [i \in 1..Len(seq) + 1 |->
             IF i = Len(seq) + 1 THEN elt ELSE seq[i]]
  BY <1>1, <1>2, <1>3
<1> QED
  BY <1>4 DEF a

\* The nodes of s are linked from s[1] on, and no two are one.
Linked(heap, n, s) ==
  /\ s \in Seq(Node)
  /\ \A i, j \in 1..Len(s) : s[i] = s[j] => i = j
  /\ n = IF s = <<>> THEN NULL ELSE s[1]
  /\ \A i \in 1..Len(s) :
       heap[s[i]].next = IF i = Len(s) THEN NULL ELSE s[i + 1]

\* Nodes that are all different are no more than there are.
LEMMA NoMoreThanNodes ==
  ASSUME NEW s \in Seq(Node), \A i, j \in 1..Len(s) : s[i] = s[j] => i = j
  PROVE  Cardinality(Node) \in Nat /\ Len(s) <= Cardinality(Node)
<1>1. Len(s) \in Nat /\ s \in [1..Len(s) -> Node]
  OBVIOUS
<1>2. s \in Injection(1..Len(s), Node)
  BY <1>1 DEF Injection, IsInjective
<1>3. Cardinality(1..Len(s)) <= Cardinality(Node) /\ Cardinality(1..Len(s)) = Len(s)
  BY <1>1, <1>2, FS_Injection, FS_Interval, LinkedListsAssumption
<1>4. Cardinality(Node) \in Nat
  BY FS_CardinalityType, LinkedListsAssumption
<1> QED
  BY <1>3, <1>4

\* A loop over cur->next passes the nodes that are linked, in order, and stops.
LEMMA FollowingLinked ==
  ASSUME NEW heap, NEW n, NEW s, Linked(heap, n, s)
  PROVE  Following(heap, n) = s
<1> DEFINE N == Cardinality(Node)
           Step(i, before) ==
             IF i = 1 THEN n
             ELSE IF before = NULL THEN NULL ELSE heap[before].next
           at == [i \in 1..N |-> IF i <= Len(s) THEN s[i] ELSE NULL]
           cur == CHOOSE f : f = [i \in 1..N |-> Step(i, f[i - 1])]
<1>1. /\ s \in Seq(Node) /\ Len(s) \in Nat /\ N \in Nat /\ Len(s) <= N
      /\ \A i \in 1..Len(s) : s[i] \in Node /\ s[i] # NULL
  BY NoMoreThanNodes, LinkedListsAssumption DEF Linked
<1>2. at = [i \in 1..N |-> Step(i, at[i - 1])]
  <2> SUFFICES ASSUME NEW i \in 1..N
               PROVE  at[i] = Step(i, at[i - 1])
    OBVIOUS
  <2>1. CASE i = 1
    BY <1>1, <2>1 DEF Linked
  <2>2. CASE i > 1
    <3>1. i - 1 \in 1..N /\ i \in Nat
      BY <1>1, <2>2
    <3>2. CASE i - 1 <= Len(s)
      <4>1. at[i - 1] = s[i - 1] /\ i - 1 \in 1..Len(s)
        BY <1>1, <3>1, <3>2
      <4>2. heap[s[i - 1]].next = IF i - 1 = Len(s) THEN NULL ELSE s[i]
        <5>1. (i - 1) + 1 = i
          BY <3>1
        <5> QED
          BY <4>1, <5>1 DEF Linked
      <4>3. at[i] = IF i <= Len(s) THEN s[i] ELSE NULL
        OBVIOUS
      <4> HIDE DEF at
      <4> QED
        BY <1>1, <2>2, <3>1, <3>2, <4>1, <4>2, <4>3
    <3>3. CASE ~ i - 1 <= Len(s)
      <4>1. at[i - 1] = NULL /\ at[i] = NULL
        BY <1>1, <3>1, <3>3
      <4> HIDE DEF at
      <4> QED
        BY <2>2, <4>1
    <3> QED
      BY <3>2, <3>3
  <2> QED
    BY <1>1, <2>1, <2>2
<1>3. cur = [i \in 1..N |-> Step(i, cur[i - 1])]
  <2> HIDE DEF at, Step
  <2> QED
    BY <1>2
<1>4. cur = at
  <2> DEFINE Wrong == {i \in 1..N : cur[i] # at[i]}
  <2>1. ASSUME Wrong # {}
        PROVE  FALSE
    <3>1. Wrong \subseteq Nat
      BY <1>1
    <3>2. PICK i \in Wrong : \A j \in Wrong : i <= j
      <4> HIDE DEF Wrong
      <4> QED
        BY <2>1, <3>1, LeastNumber
    <3>3. i \in 1..N /\ cur[i] # at[i] /\ \A j \in 1..N : cur[j] # at[j] => i <= j
      BY <3>2
    <3>4. cur[i] = Step(i, cur[i - 1]) /\ at[i] = Step(i, at[i - 1])
      <4> HIDE DEF cur, at, Step
      <4> QED
        BY <1>2, <1>3, <3>3
    <3> HIDE DEF cur, at, Wrong
    <3>5. i # 1
      BY <3>3, <3>4
    <3>6. i - 1 \in 1..N /\ ~ i <= i - 1
      BY <1>1, <3>3, <3>5
    <3>7. cur[i - 1] = at[i - 1]
      BY <3>3, <3>6
    <3> QED
      BY <3>3, <3>4, <3>7
  <2>2. \A i \in 1..N : cur[i] = at[i]
    BY <2>1
  <2> HIDE DEF cur, Step
  <2> QED
    BY <1>3, <2>2
<1>5. Following(heap, n) = [i \in 1..Cardinality({j \in DOMAIN cur : cur[j] # NULL}) |-> cur[i]]
  BY DEF Following
<1>6. {j \in DOMAIN cur : cur[j] # NULL} = 1..Len(s)
  <2>1. {j \in DOMAIN at : at[j] # NULL} = 1..Len(s)
    <3>1. DOMAIN at = 1..N
      OBVIOUS
    <3>2. \A j \in 1..N : at[j] # NULL <=> j <= Len(s)
      BY <1>1
    <3> HIDE DEF at
    <3> QED
      BY <1>1, <3>1, <3>2
  <2> HIDE DEF cur, at
  <2> QED
    BY <1>4, <2>1
<1>7. Cardinality(1..Len(s)) = Len(s)
  <2>1. Len(s) \in Int /\ (1 > Len(s) => Len(s) = 0) /\ Len(s) - 1 + 1 = Len(s)
    BY <1>1
  <2> QED
    BY <2>1, FS_Interval
<1>8. \A i \in 1..Len(s) : at[i] = s[i]
  BY <1>1
<1>9. s = [i \in 1..Len(s) |-> s[i]]
  BY <1>1
<1> HIDE DEF cur, at
<1> QED
  BY <1>4, <1>5, <1>6, <1>7, <1>8, <1>9, ZenonT(60)

\* A list in the heap, with all its nodes allocated and rooted.
IsList(heap, s) ==
  /\ s # <<>>
  /\ Linked(heap, s[1], s)
  /\ \A i \in 1..Len(s) : heap[s[i]] \in Element /\ heap[s[i]].root = s[1]

\* n stands for a list, or for none.
IsChain(heap, n) ==
  n # NULL => IsList(heap, Chain(heap, n)) /\ n \in ToSet(Chain(heap, n))

IsHeap(heap) == heap \in [Node -> Element \cup {FREED}]

\* Any node of a list finds the whole of it.
LEMMA ListChain ==
  ASSUME NEW heap, NEW s, IsList(heap, s), NEW n \in ToSet(s)
  PROVE  Chain(heap, n) = s /\ n \in Node /\ n # NULL /\ IsChain(heap, n)
<1>1. s \in Seq(Node)
  BY DEF IsList, Linked
<1>2. PICK i \in 1..Len(s) : n = s[i]
  BY <1>1 DEF ToSet
<1>3. n \in Node /\ heap[n].root = s[1]
  BY <1>1, <1>2 DEF IsList
<1>4. n # NULL
  BY <1>3, LinkedListsAssumption
<1>5. Following(heap, s[1]) = s
  BY FollowingLinked DEF IsList
<1>6. Chain(heap, n) = s
  BY <1>3, <1>4, <1>5 DEF Chain
<1> QED
  BY <1>3, <1>4, <1>6 DEF IsChain

\* A list stays as it is while its nodes do.
LEMMA ListKept ==
  ASSUME NEW heap, NEW after, NEW s, IsList(heap, s),
         \A m \in ToSet(s) : after[m] = heap[m]
  PROVE  IsList(after, s) /\ KeysOf(after, s) = KeysOf(heap, s)
<1>1. s \in Seq(Node)
  BY DEF IsList, Linked
<1>2. \A i \in 1..Len(s) : after[s[i]] = heap[s[i]]
  BY <1>1 DEF ToSet
<1>3. Linked(after, s[1], s)
  BY <1>2 DEF IsList, Linked
<1>4. IsList(after, s)
  BY <1>2, <1>3 DEF IsList
<1>5. KeysOf(after, s) = KeysOf(heap, s)
  BY <1>2 DEF KeysOf
<1> QED
  BY <1>4, <1>5

\* A list is what it was in any heap that agrees on its nodes.
LEMMA ChainKept ==
  ASSUME NEW heap, NEW after, NEW n \in Node \cup {NULL}, IsChain(heap, n),
         \A m \in ToSet(Chain(heap, n)) : after[m] = heap[m]
  PROVE  /\ Chain(after, n) = Chain(heap, n) /\ IsChain(after, n)
         /\ Keys(after, n) = Keys(heap, n)
<1>1. CASE n = NULL
  <2>1. Chain(after, n) = <<>> /\ Chain(heap, n) = <<>>
    BY <1>1 DEF Chain
  <2>2. KeysOf(after, <<>>) = <<>> /\ KeysOf(heap, <<>>) = <<>>
    BY DEF KeysOf
  <2> QED
    BY <1>1, <2>1, <2>2 DEF IsChain, Keys
<1>2. CASE n # NULL
  <2>1. IsList(heap, Chain(heap, n)) /\ n \in ToSet(Chain(heap, n))
    BY <1>2 DEF IsChain
  <2>2. /\ IsList(after, Chain(heap, n))
        /\ KeysOf(after, Chain(heap, n)) = KeysOf(heap, Chain(heap, n))
    BY <2>1, ListKept
  <2>3. Chain(after, n) = Chain(heap, n) /\ IsChain(after, n)
    BY <2>1, <2>2, ListChain
  <2> QED
    BY <2>2, <2>3 DEF Keys
<1> QED
  BY <1>1, <1>2

\* The nodes of a chain are allocated ones.
LEMMA ChainNodes ==
  ASSUME NEW heap, NEW n \in Node \cup {NULL}, IsChain(heap, n)
  PROVE  /\ Chain(heap, n) \in Seq(Node)
         /\ \A m \in ToSet(Chain(heap, n)) : m \in Node /\ heap[m] \in Element
         /\ n # NULL => n \in ToSet(Chain(heap, n))
         /\ n = NULL => Chain(heap, n) = <<>> /\ ToSet(Chain(heap, n)) = {}
<1>1. CASE n = NULL
  <2>1. Chain(heap, n) = <<>>
    BY <1>1 DEF Chain
  <2>2. ToSet(<<>>) = {} /\ <<>> \in Seq(Node)
    BY DEF ToSet
  <2> QED
    BY <1>1, <2>1, <2>2
<1>2. CASE n # NULL
  <2> DEFINE s == Chain(heap, n)
  <2>1. IsList(heap, s) /\ n \in ToSet(s)
    BY <1>2 DEF IsChain
  <2> HIDE DEF s
  <2>2. s \in Seq(Node)
    BY <2>1 DEF IsList, Linked
  <2>3. \A i \in 1..Len(s) : s[i] \in Node /\ heap[s[i]] \in Element
    BY <2>1, <2>2 DEF IsList
  <2>4. \A m \in ToSet(s) : m \in Node /\ heap[m] \in Element
    BY <2>2, <2>3 DEF ToSet
  <2> USE DEF s
  <2> QED
    BY <1>2, <2>1, <2>2, <2>4
<1> QED
  BY <1>1, <1>2

\* list holds the keys in nodes that were free in the heap, and nothing else
\* in the heap has changed; its pointer is to the last node.
Building(heap, list, keys) ==
  /\ IsHeap(list.heap)
  /\ list.last \in Node \cup {NULL}
  /\ IsChain(list.heap, list.last)
  /\ list.last # NULL =>
       list.last = Chain(list.heap, list.last)[Len(Chain(list.heap, list.last))]
  /\ Keys(list.heap, list.last) = keys
  /\ ToSet(Chain(list.heap, list.last)) \subseteq Free(heap)
  /\ \A m \in Node \ ToSet(Chain(list.heap, list.last)) : list.heap[m] = heap[m]

\* A list under construction without an element yet.
LEMMA NothingBuilt ==
  ASSUME NEW heap, IsHeap(heap)
  PROVE  Building(heap, Empty(heap), <<>>)
<1>1. Empty(heap).heap = heap /\ Empty(heap).last = NULL
  BY DEF Empty
<1>2. Chain(heap, NULL) = <<>> /\ ToSet(<<>>) = {} /\ KeysOf(heap, <<>>) = <<>>
  BY DEF Chain, ToSet, KeysOf
<1> QED
  BY <1>1, <1>2 DEF Building, Keys, IsChain

\* One more key goes into a free node, behind the last.
LEMMA AddBuilds ==
  ASSUME NEW heap, NEW list, NEW keys, Building(heap, list, keys),
         NEW key \in Key, Free(list.heap) # {}
  PROVE  /\ Building(heap, Add(list, key), Append(keys, key))
         /\ Add(list, key).last \in Free(list.heap)
         /\ Free(Add(list, key).heap) = Free(list.heap) \ {Add(list, key).last}
         /\ Chain(Add(list, key).heap, Add(list, key).last)
              = Append(Chain(list.heap, list.last), Add(list, key).last)
<1> DEFINE new == NewNode(list.heap)
           old == Chain(list.heap, list.last)
           s == Append(old, new)
           linked == IF list.last = NULL THEN list.heap
                     ELSE [list.heap EXCEPT ![list.last].next = new]
           root == IF list.last = NULL THEN new ELSE list.heap[list.last].root
           element == [key |-> key, next |-> NULL, root |-> root]
           grown == [linked EXCEPT ![new] = element]
<1>1. Add(list, key).heap = grown /\ Add(list, key).last = new
  BY DEF Add
<1>2. new \in Node /\ list.heap[new] = FREED /\ new # NULL
  BY LinkedListsAssumption DEF NewNode, Free
<1>3. /\ IsHeap(list.heap) /\ list.last \in Node \cup {NULL}
      /\ old \in Seq(Node) /\ Len(old) \in Nat
      /\ \A m \in ToSet(old) : m \in Node /\ list.heap[m] \in Element
      /\ new \notin ToSet(old)
      /\ list.last = NULL <=> old = <<>>
      /\ old # <<>> => /\ IsList(list.heap, old)
                       /\ list.last = old[Len(old)]
                       /\ list.last \in ToSet(old)
  <2>1. IsHeap(list.heap) /\ list.last \in Node \cup {NULL}
        /\ IsChain(list.heap, list.last)
    BY DEF Building
  <2>2. /\ old \in Seq(Node)
        /\ \A m \in ToSet(old) : m \in Node /\ list.heap[m] \in Element
        /\ list.last # NULL => list.last \in ToSet(old)
        /\ list.last = NULL => old = <<>>
    BY <2>1, ChainNodes
  <2>3. new \notin ToSet(old)
    BY <1>2, <2>2, LinkedListsAssumption
  <2>4. list.last # NULL => IsList(list.heap, old) /\ old # <<>>
    BY <2>1 DEF IsChain, IsList
  <2>5. list.last # NULL => list.last = old[Len(old)]
    BY DEF Building
  <2> QED
    BY <2>1, <2>2, <2>3, <2>4, <2>5
<1>4. list.last # NULL => list.last # new /\ list.heap[list.last] \in Element
                          /\ list.last \in Node
  BY <1>2, <1>3
<1>5. root \in Node /\ (old # <<>> => root = old[1])
  <2>1. CASE list.last = NULL
    BY <1>2, <1>3, <2>1
  <2>2. CASE list.last # NULL
    <3>1. old # <<>> /\ Len(old) \in 1..Len(old) /\ 1 \in 1..Len(old)
      BY <1>3, <2>2
    <3>2. list.heap[list.last].root = old[1] /\ old[1] \in Node
      BY <1>3, <3>1 DEF IsList
    <3> QED
      BY <2>2, <3>2
  <2> QED
    BY <2>1, <2>2
<1>6. element \in Element
  BY <1>5 DEF Element
<1>7. /\ IsHeap(linked)
      /\ \A m \in Node : list.last = NULL \/ m # list.last => linked[m] = list.heap[m]
      /\ list.last # NULL => /\ linked[list.last].key = list.heap[list.last].key
                             /\ linked[list.last].root = list.heap[list.last].root
                             /\ linked[list.last].next = new
                             /\ linked[list.last] \in Element
  <2>1. CASE list.last = NULL
    BY <1>3, <2>1
  <2>2. CASE list.last # NULL
    <3> DEFINE e == [list.heap[list.last] EXCEPT !.next = new]
    <3>1. linked = [list.heap EXCEPT ![list.last] = e]
      BY <2>2
    <3>2. /\ e \in Element /\ e.key = list.heap[list.last].key
          /\ e.root = list.heap[list.last].root /\ e.next = new
      BY <1>2, <1>4, <2>2 DEF Element
    <3> HIDE DEF e, linked
    <3>3. list.heap \in [Node -> Element \cup {FREED}] /\ list.last \in Node
      BY <1>3, <1>4, <2>2 DEF IsHeap
    <3>4. linked[list.last] = e
      BY <3>1, <3>3
    <3>5. \A m \in Node : m # list.last => linked[m] = list.heap[m]
      BY <3>1, <3>3
    <3>6. IsHeap(linked)
      BY <3>1, <3>2, <3>3 DEF IsHeap
    <3> QED
      BY <2>2, <3>2, <3>4, <3>5, <3>6
  <2> QED
    BY <2>1, <2>2
<1>8. /\ IsHeap(grown) /\ grown[new] = element
      /\ \A m \in Node : m # new => grown[m] = linked[m]
  <2> HIDE DEF linked, element, new
  <2> QED
    BY <1>2, <1>6, <1>7 DEF IsHeap
<1> HIDE DEF grown, linked, root, new, old
<1>9. /\ s \in Seq(Node) /\ Len(s) = Len(old) + 1 /\ s[Len(s)] = new
      /\ \A i \in 1..Len(old) : s[i] = old[i]
      /\ s # <<>>
  BY <1>2, <1>3
<1>10. /\ \A i \in 1..Len(old) : old[i] \in Node /\ old[i] \in ToSet(old) /\ old[i] # new
       /\ \A m \in ToSet(old) : \E i \in 1..Len(old) : m = old[i]
  BY <1>3 DEF ToSet
<1>11. \A i, j \in 1..Len(s) : s[i] = s[j] => i = j
  <2>1. \A i, j \in 1..Len(old) : old[i] = old[j] => i = j
    BY <1>3 DEF IsList, Linked
  <2>2. \A i \in 1..Len(s) : i \in 1..Len(old) \/ i = Len(s)
    BY <1>3, <1>9
  <2> QED
    BY <1>9, <1>10, <2>1, <2>2
<1>12. ASSUME NEW i \in 1..Len(s)
       PROVE  /\ grown[s[i]].next = IF i = Len(s) THEN NULL ELSE s[i + 1]
              /\ grown[s[i]] \in Element /\ grown[s[i]].root = s[1]
  <2>1. s[1] = root
    <3>1. CASE old = <<>>
      BY <1>3, <1>9, <3>1 DEF root
    <3>2. CASE old # <<>>
      <4>1. 1 \in 1..Len(old)
        BY <1>3, <3>2
      <4> QED
        BY <1>5, <1>9, <3>2, <4>1
    <3> QED
      BY <3>1, <3>2
  <2>2. CASE i = Len(s)
    BY <1>6, <1>8, <1>9, <2>1, <2>2
  <2>3. CASE i # Len(s)
    <3>1. i \in 1..Len(old) /\ old # <<>> /\ s[i] = old[i] /\ list.last # NULL
      BY <1>3, <1>9, <2>3
    <3>2. /\ list.heap[old[i]].next = IF i = Len(old) THEN NULL ELSE old[i + 1]
          /\ list.heap[old[i]] \in Element /\ list.heap[old[i]].root = old[1]
      BY <1>3, <3>1 DEF IsList, Linked
    <3>3. grown[s[i]] = linked[old[i]] /\ old[i] \in Node
      BY <1>8, <1>10, <3>1
    <3>4. old[1] = s[1]
      BY <1>5, <2>1, <3>1
    <3>5. CASE i = Len(old)
      <4>1. old[i] = list.last /\ i + 1 = Len(s) /\ s[i + 1] = new
        BY <1>3, <1>9, <3>1, <3>5
      <4> QED
        BY <1>7, <2>3, <3>1, <3>2, <3>3, <3>4, <4>1
    <3>6. CASE i # Len(old)
      <4>1. /\ i + 1 \in 1..Len(old) /\ s[i + 1] = old[i + 1]
            /\ Len(old) \in 1..Len(old)
        BY <1>3, <1>9, <3>1, <3>6
      <4>2. old[i] # list.last
        BY <1>3, <3>1, <3>6, <4>1 DEF IsList, Linked
      <4>3. grown[s[i]] = list.heap[old[i]]
        BY <1>7, <3>3, <4>2
      <4> QED
        BY <2>3, <3>2, <3>4, <3>6, <4>1, <4>3
    <3> QED
      BY <3>5, <3>6
  <2> QED
    BY <2>2, <2>3
<1>13. IsList(grown, s)
  <2>1. Linked(grown, s[1], s)
    BY <1>9, <1>11, <1>12 DEF Linked
  <2> QED
    BY <1>9, <1>12, <2>1 DEF IsList
<1>14. new \in ToSet(s) /\ ToSet(s) = ToSet(old) \cup {new}
  <2>1. \A m \in ToSet(s) : m \in ToSet(old) \/ m = new
    <3> SUFFICES ASSUME NEW i \in 1..Len(s)
                 PROVE  s[i] \in ToSet(old) \/ s[i] = new
      BY <1>9 DEF ToSet
    <3>1. i \in 1..Len(old) \/ i = Len(s)
      BY <1>3, <1>9
    <3> QED
      BY <1>9, <1>10, <3>1
  <2>2. new \in ToSet(s)
    <3>1. Len(s) \in DOMAIN s
      BY <1>3, <1>9
    <3> QED
      BY <1>9, <3>1 DEF ToSet
  <2>3. \A i \in 1..Len(old) : old[i] \in ToSet(s)
    <3> TAKE i \in 1..Len(old)
    <3>1. i \in DOMAIN s /\ s[i] = old[i]
      BY <1>3, <1>9
    <3> QED
      BY <3>1 DEF ToSet
  <2> QED
    BY <1>10, <2>1, <2>2, <2>3
<1>15. Chain(grown, new) = s /\ IsChain(grown, new)
  BY <1>13, <1>14, ListChain
<1>16. Keys(grown, new) = Append(keys, key)
  <2>1. keys = KeysOf(list.heap, old)
    BY DEF Building, Keys, old
  <2>2. keys = [i \in 1..Len(old) |-> list.heap[old[i]].key]
    BY <2>1 DEF KeysOf
  <2>3. Keys(grown, new) = [i \in 1..Len(s) |-> grown[s[i]].key]
    BY <1>15 DEF Keys, KeysOf
  <2>4. \A i \in 1..Len(old) : grown[s[i]].key = list.heap[old[i]].key
    <3> TAKE i \in 1..Len(old)
    <3>1. grown[s[i]] = linked[old[i]]
      BY <1>8, <1>9, <1>10
    <3> QED
      BY <1>7, <1>10, <3>1
  <2>5. grown[s[Len(s)]].key = key
    BY <1>8, <1>9
  <2>6. \A i \in 1..Len(old) : keys[i] = list.heap[old[i]].key
    BY <2>2
  <2>7. Len(keys) = Len(old)
    BY <1>3, <2>2
  <2>8. Append(keys, key) = [i \in 1..Len(old) + 1 |->
                               IF i = Len(old) + 1 THEN key ELSE keys[i]]
    <3>1. keys \in Seq(Key)
      <4>1. \A i \in 1..Len(old) : list.heap[old[i]].key \in Key
        BY <1>3, <1>10 DEF Element
      <4> QED
        BY <1>3, <2>2, <4>1
    <3>2. Append(keys, key) = [i \in 1..Len(keys) + 1 |->
                                 IF i = Len(keys) + 1 THEN key ELSE keys[i]]
      BY <3>1, AppendEntries
    <3> QED
      BY <2>7, <3>2
  <2> QED
    BY <1>3, <1>9, <2>3, <2>4, <2>5, <2>6, <2>8
<1>17. Free(grown) = Free(list.heap) \ {new} /\ new \in Free(list.heap)
  <2>1. \A m \in Node : m # new => (grown[m] = FREED <=> list.heap[m] = FREED)
    BY <1>4, <1>7, <1>8, LinkedListsAssumption
  <2>2. grown[new] # FREED
    BY <1>6, <1>8, LinkedListsAssumption
  <2> QED
    BY <1>2, <2>1, <2>2 DEF Free
<1>18. new \in Free(heap)
  BY <1>2, <1>3 DEF Building, Free, old
<1>19. \A m \in Node \ ToSet(s) : grown[m] = heap[m]
  <2> TAKE m \in Node \ ToSet(s)
  <2>1. m # new /\ m \notin ToSet(old)
    BY <1>14
  <2>2. m # list.last \/ list.last = NULL
    BY <1>3, <2>1
  <2>3. grown[m] = list.heap[m]
    BY <1>7, <1>8, <2>1, <2>2
  <2> QED
    BY <2>1, <2>3 DEF Building, old
<1>20. ToSet(s) \subseteq Free(heap)
  BY <1>14, <1>18 DEF Building, old
<1>21. Building(heap, Add(list, key), Append(keys, key))
  BY <1>1, <1>2, <1>8, <1>9, <1>15, <1>16, <1>19, <1>20 DEF Building
<1> QED
  BY <1>1, <1>15, <1>17, <1>21 DEF old

\* After adding one key after the other, a list has them all.
LEMMA AddAllBuilds ==
  ASSUME NEW heap, IsHeap(heap), NEW keys \in Seq(Key),
         Room(heap, Len(keys))
  PROVE  /\ Building(heap, AddAll(Empty(heap), keys), keys)
         /\ Cardinality(Free(AddAll(Empty(heap), keys).heap))
              = Cardinality(Free(heap)) - Len(keys)
         /\ keys # <<>> => AddAll(Empty(heap), keys).last # NULL
<1> DEFINE K == Len(keys)
           F == Cardinality(Free(heap))
           First(i) == [j \in 1..i |-> keys[j]]
           Step(i, before) == IF i = 0 THEN Empty(heap) ELSE Add(before, keys[i])
           Adds(f, k) == f = [i \in 0..k |-> Step(i, f[i - 1])]
           Good(list, i) == /\ Building(heap, list, First(i))
                            /\ IsFiniteSet(Free(list.heap))
                            /\ Cardinality(Free(list.heap)) = F - i
                            /\ i # 0 => list.last # NULL
           Reaches(f, k) == Adds(f, k) /\ \A i \in 0..k : Good(f[i], i)
<1>1. /\ K \in Nat /\ F \in Nat /\ K <= F
      /\ \A i \in 1..K : keys[i] \in Key
      /\ IsFiniteSet(Free(heap))
  <2>1. Free(heap) \in SUBSET Node
    BY DEF Free
  <2>2. IsFiniteSet(Free(heap))
    BY <2>1, FS_Subset, LinkedListsAssumption
  <2>3. F \in Nat
    BY <2>2, FS_CardinalityType
  <2> QED
    BY <2>2, <2>3 DEF Room
<1>2. Good(Empty(heap), 0)
  <2>1. First(0) = <<>>
    OBVIOUS
  <2>2. Empty(heap).heap = heap
    BY DEF Empty
  <2> HIDE DEF First
  <2> QED
    BY <1>1, <2>1, <2>2, NothingBuilt
<1>3. ASSUME NEW i \in 0..K, i < K, NEW list, Good(list, i)
      PROVE  Good(Add(list, keys[i + 1]), i + 1)
  <2> DEFINE r == Add(list, keys[i + 1])
  <2>1. i + 1 \in 1..K /\ keys[i + 1] \in Key /\ i \in Nat
    BY <1>1, <1>3
  <2>2. Cardinality(Free(list.heap)) = F - i /\ F - i # 0
    BY <1>1, <1>3, <2>1
  <2>3. Free(list.heap) # {}
    BY <1>3, <2>2, FS_EmptySet
  <2>4. /\ Building(heap, r, Append(First(i), keys[i + 1]))
        /\ r.last \in Free(list.heap)
        /\ Free(r.heap) = Free(list.heap) \ {r.last}
    <3> HIDE DEF First
    <3> QED
      BY <1>3, <2>1, <2>3, AddBuilds
  <2>5. Append(First(i), keys[i + 1]) = First(i + 1)
    <3>1. First(i) \in Seq(Key) /\ Len(First(i)) = i
      BY <1>1, <2>1
    <3>2. Append(First(i), keys[i + 1]) = [j \in 1..i + 1 |->
            IF j = i + 1 THEN keys[i + 1] ELSE First(i)[j]]
      <4> HIDE DEF First
      <4> QED
        BY <2>1, <3>1
    <3>3. \A j \in 1..i + 1 : j # i + 1 => First(i)[j] = keys[j]
      BY <2>1
    <3> QED
      BY <3>2, <3>3
  <2>6. IsFiniteSet(Free(r.heap)) /\ Cardinality(Free(r.heap)) = F - i - 1
    BY <1>3, <2>2, <2>4, FS_RemoveElement
  <2>7. r.last # NULL
    BY <2>4, LinkedListsAssumption DEF Free
  <2>8. F - i - 1 = F - (i + 1)
    BY <1>1, <2>1
  <2> HIDE DEF r, First
  <2>9. Good(r, i + 1)
    BY <2>4, <2>5, <2>6, <2>7, <2>8
  <2> QED
    BY <2>9 DEF r
<1> HIDE DEF Good
<1>4. \E f : Reaches(f, K)
  <2> DEFINE Fails == {k \in 0..K : ~ \E f : Reaches(f, k)}
  <2>1. ASSUME Fails # {}
        PROVE  FALSE
    <3>1. Fails \subseteq Nat
      BY <1>1
    <3>2. PICK k \in Fails : \A j \in Fails : k <= j
      <4> HIDE DEF Fails
      <4> QED
        BY <2>1, <3>1, LeastNumber
    <3>3. k \in 0..K /\ ~ (\E f : Reaches(f, k))
          /\ \A j \in 0..K : ~ (\E f : Reaches(f, j)) => k <= j
      <4> HIDE DEF Reaches
      <4> QED
        BY <3>2
    <3>4. CASE k = 0
      <4> DEFINE g == [i \in 0..0 |-> Empty(heap)]
      <4>1. Adds(g, 0)
        OBVIOUS
      <4>2. \A i \in 0..0 : Good(g[i], i)
        <5>1. \A i \in 0..0 : i = 0 /\ g[i] = Empty(heap)
          OBVIOUS
        <5> HIDE DEF g
        <5> QED
          BY <1>2, <5>1
      <4>3. Reaches(g, 0)
        BY <4>1, <4>2
      <4> HIDE DEF g, Reaches
      <4> QED
        BY <3>3, <3>4, <4>3
    <3>5. CASE k # 0
      <4>1. k - 1 \in 0..K /\ ~ k <= k - 1 /\ k \in Nat /\ k - 1 < K
        BY <1>1, <3>3, <3>5
      <4>2. PICK f : Reaches(f, k - 1)
        <5> HIDE DEF Reaches
        <5> QED
          BY <3>3, <4>1
      <4> DEFINE g == [i \in 0..k |-> IF i = k THEN Add(f[k - 1], keys[k]) ELSE f[i]]
      <4>3. \A i \in 0..k - 1 : f[i] = Step(i, f[i - 1])
        <5>1. f = [i \in 0..k - 1 |-> Step(i, f[i - 1])]
          BY <4>2
        <5> HIDE DEF Step
        <5> QED
          BY <5>1
      <4>4. \A i \in 0..k : i # k => i \in 0..k - 1 /\ g[i] = f[i]
        BY <3>5, <4>1
      <4>5. g[k] = Add(f[k - 1], keys[k]) /\ g[k - 1] = f[k - 1] /\ DOMAIN g = 0..k
        BY <4>1
      <4>6. g = [i \in 0..k |-> g[i]]
        OBVIOUS
      <4> HIDE DEF g
      <4>7. \A i \in 0..k : g[i] = Step(i, g[i - 1])
        <5> TAKE i \in 0..k
        <5>1. CASE i = k
          BY <3>5, <4>5, <5>1
        <5>2. CASE i = 0
          BY <3>5, <4>3, <4>4, <5>2
        <5>3. CASE i # k /\ i # 0
          <6>1. i - 1 \in 0..k /\ i - 1 # k
            BY <4>1, <5>3
          <6>2. g[i] = f[i] /\ g[i - 1] = f[i - 1] /\ f[i] = Step(i, f[i - 1])
            BY <4>3, <4>4, <5>3, <6>1
          <6> QED
            BY <6>2
        <5> QED
          BY <5>1, <5>2, <5>3
      <4>8. Adds(g, k)
        <5> HIDE DEF Step
        <5> QED
          BY <4>6, <4>7
      <4>9. \A i \in 0..k : Good(g[i], i)
        <5> TAKE i \in 0..k
        <5>1. CASE i = k
          <6>1. Good(f[k - 1], k - 1)
            BY <4>1, <4>2
          <6>2. (k - 1) + 1 = k
            BY <4>1
          <6>3. Good(Add(f[k - 1], keys[k]), k)
            BY <1>3, <4>1, <6>1, <6>2
          <6> QED
            BY <4>5, <5>1, <6>3
        <5>2. CASE i # k
          BY <4>2, <4>4, <5>2
        <5> QED
          BY <5>1, <5>2
      <4>10. Reaches(g, k)
        BY <4>8, <4>9
      <4> HIDE DEF Reaches
      <4> QED
        BY <3>3, <4>10
    <3> QED
      BY <3>4, <3>5
  <2>2. K \in 0..K
    BY <1>1
  <2> HIDE DEF Reaches
  <2> QED
    BY <2>1, <2>2
<1> DEFINE added == CHOOSE f : f = [i \in 0..K |-> Step(i, f[i - 1])]
<1>5. PICK f : Reaches(f, K)
  <2> HIDE DEF Reaches
  <2> QED
    BY <1>4
<1>6. added = [i \in 0..K |-> Step(i, added[i - 1])]
  <2>1. f = [i \in 0..K |-> Step(i, f[i - 1])]
    BY <1>5
  <2> HIDE DEF Step
  <2> QED
    BY <2>1
<1>7. \A i \in 0..K : Good(added[i], i)
  <2> DEFINE Wrong == {i \in 0..K : ~ Good(added[i], i)}
  <2>1. ASSUME Wrong # {}
        PROVE  FALSE
    <3>1. Wrong \subseteq Nat
      BY <1>1
    <3>2. PICK i \in Wrong : \A j \in Wrong : i <= j
      <4> HIDE DEF Wrong
      <4> QED
        BY <2>1, <3>1, LeastNumber
    <3> HIDE DEF added
    <3>3. i \in 0..K /\ ~ Good(added[i], i)
          /\ \A j \in 0..K : ~ Good(added[j], j) => i <= j
      BY <3>2
    <3>4. added[i] = Step(i, added[i - 1])
      <4> HIDE DEF Step
      <4> QED
        BY <1>6, <3>3
    <3>5. i # 0
      BY <1>2, <3>3, <3>4
    <3>6. i - 1 \in 0..K /\ ~ i <= i - 1 /\ i - 1 < K /\ (i - 1) + 1 = i
      BY <1>1, <3>3, <3>5
    <3>7. Good(added[i - 1], i - 1)
      BY <3>3, <3>6
    <3>8. Good(Add(added[i - 1], keys[i]), i)
      BY <1>3, <3>6, <3>7
    <3> QED
      BY <3>3, <3>4, <3>5, <3>8
  <2> QED
    BY <2>1
<1>8. AddAll(Empty(heap), keys) = added[K]
  BY DEF AddAll
<1>9. Good(added[K], K)
  <2> HIDE DEF added
  <2> QED
    BY <1>1, <1>7
<1>10. First(K) = keys
  BY <1>1
<1>11. keys # <<>> => K # 0
  BY <1>1
<1> HIDE DEF added, First
<1> QED
  BY <1>8, <1>9, <1>10, <1>11 DEF Good

-----------------------------------------------------------------------------
(* A heap with several lists, each for one pointer.                        *)

\* Each pointer of L has a list of its own, and all nodes allocated are in one.
Owned(heap, L) ==
  /\ IsHeap(heap)
  /\ \A x \in DOMAIN L : L[x] \in Node \cup {NULL} /\ IsChain(heap, L[x])
  /\ \A x, y \in DOMAIN L : x # y =>
       ToSet(Chain(heap, L[x])) \cap ToSet(Chain(heap, L[y])) = {}
  /\ \A n \in Node : heap[n] # FREED =>
       \E x \in DOMAIN L : n \in ToSet(Chain(heap, L[x]))

\* The pointers are the same but for one.
Differ(L, M, x) ==
  /\ DOMAIN M = DOMAIN L
  /\ x \in DOMAIN L
  /\ \A y \in DOMAIN L : y # x => M[y] = L[y]

\* After a change elsewhere in the heap the lists of all but one are the same.
SameLists(heap, after, L, x) ==
  \A y \in DOMAIN L : y # x => /\ Chain(after, L[y]) = Chain(heap, L[y])
                               /\ IsChain(after, L[y])
                               /\ Keys(after, L[y]) = Keys(heap, L[y])

\* A list that is freed takes nothing from the others.
LEMMA FreeOwned ==
  ASSUME NEW heap, NEW L, NEW x, NEW M, Owned(heap, L), Differ(L, M, x),
         M[x] = NULL
  PROVE  /\ Owned(FreeAll(heap, L[x]), M)
         /\ SameLists(heap, FreeAll(heap, L[x]), L, x)
<1> DEFINE after == FreeAll(heap, L[x])
           nodes(y) == ToSet(Chain(heap, L[y]))
<1>1. \A y \in DOMAIN L : /\ L[y] \in Node \cup {NULL} /\ IsChain(heap, L[y])
                          /\ nodes(y) \subseteq Node
                          /\ \A m \in nodes(y) : heap[m] \in Element
  BY ChainNodes DEF Owned
<1>2. \A m \in Node : /\ m \in nodes(x) => after[m] = FREED
                      /\ m \notin nodes(x) => after[m] = heap[m]
  BY DEF FreeAll
<1>3. SameLists(heap, after, L, x)
  <2> SUFFICES ASSUME NEW y \in DOMAIN L, y # x
               PROVE  /\ Chain(after, L[y]) = Chain(heap, L[y])
                      /\ IsChain(after, L[y])
                      /\ Keys(after, L[y]) = Keys(heap, L[y])
    BY DEF SameLists
  <2>1. \A m \in nodes(y) : m \in Node /\ m \notin nodes(x)
    BY <1>1 DEF Owned, Differ
  <2>2. \A m \in nodes(y) : after[m] = heap[m]
    BY <1>2, <2>1
  <2> HIDE DEF after
  <2> QED
    BY <1>1, <2>2, ChainKept
<1>4. IsHeap(after)
  <2>1. heap \in [Node -> Element \cup {FREED}]
    BY DEF Owned, IsHeap
  <2> QED
    BY <2>1 DEF IsHeap, FreeAll
<1> HIDE DEF after
<1>5. Chain(after, NULL) = <<>> /\ ToSet(<<>>) = {} /\ IsChain(after, NULL)
  BY DEF Chain, ToSet, IsChain
<1>6. \A y \in DOMAIN M : /\ M[y] \in Node \cup {NULL} /\ IsChain(after, M[y])
                          /\ ToSet(Chain(after, M[y])) = IF y = x THEN {} ELSE nodes(y)
  BY <1>1, <1>3, <1>5 DEF Differ, SameLists
<1>7. \A y, z \in DOMAIN M : y # z =>
        ToSet(Chain(after, M[y])) \cap ToSet(Chain(after, M[z])) = {}
  BY <1>6 DEF Owned, Differ
<1>8. \A n \in Node : after[n] # FREED =>
        \E y \in DOMAIN M : n \in ToSet(Chain(after, M[y]))
  <2> SUFFICES ASSUME NEW n \in Node, after[n] # FREED
               PROVE  \E y \in DOMAIN M : n \in ToSet(Chain(after, M[y]))
    OBVIOUS
  <2>1. n \notin nodes(x) /\ heap[n] # FREED
    BY <1>2
  <2>2. PICK y \in DOMAIN L : n \in nodes(y)
    BY <2>1 DEF Owned
  <2>3. y # x /\ y \in DOMAIN M
    BY <2>1, <2>2 DEF Differ
  <2> QED
    BY <1>6, <2>2, <2>3
<1>9. Owned(after, M)
  BY <1>4, <1>6, <1>7, <1>8 DEF Owned
<1> QED
  BY <1>3, <1>9 DEF after

\* A list built beside the others belongs to the pointer it is given to.
LEMMA BuiltOwned ==
  ASSUME NEW heap, NEW L, NEW x, NEW M, Owned(heap, L), Differ(L, M, x),
         L[x] = NULL, NEW list, NEW keys, Building(heap, list, keys),
         \/ M[x] \in ToSet(Chain(list.heap, list.last))
         \/ M[x] = NULL /\ list.last = NULL
  PROVE  /\ Owned(list.heap, M)
         /\ SameLists(heap, list.heap, L, x)
         /\ Chain(list.heap, M[x]) = Chain(list.heap, list.last)
         /\ Keys(list.heap, M[x]) = keys
<1> DEFINE after == list.heap
           built == ToSet(Chain(after, list.last))
           nodes(y) == ToSet(Chain(heap, L[y]))
<1>1. \A y \in DOMAIN L : /\ L[y] \in Node \cup {NULL} /\ IsChain(heap, L[y])
                          /\ nodes(y) \subseteq Node
                          /\ \A m \in nodes(y) : heap[m] \in Element
  BY ChainNodes DEF Owned
<1>2. /\ built \subseteq Free(heap)
      /\ \A m \in Node \ built : after[m] = heap[m]
      /\ list.last \in Node \cup {NULL} /\ IsChain(after, list.last)
      /\ IsHeap(after) /\ Keys(after, list.last) = keys
  BY DEF Building
<1>3. \A y \in DOMAIN L : nodes(y) \cap built = {}
  BY <1>1, <1>2, LinkedListsAssumption DEF Free
<1> HIDE DEF after
<1>4. SameLists(heap, after, L, x)
  <2> SUFFICES ASSUME NEW y \in DOMAIN L, y # x
               PROVE  /\ Chain(after, L[y]) = Chain(heap, L[y])
                      /\ IsChain(after, L[y])
                      /\ Keys(after, L[y]) = Keys(heap, L[y])
    BY DEF SameLists
  <2>1. \A m \in nodes(y) : after[m] = heap[m]
    BY <1>1, <1>2, <1>3
  <2> QED
    BY <1>1, <2>1, ChainKept
<1>5. /\ M[x] \in Node \cup {NULL} /\ IsChain(after, M[x])
      /\ Chain(after, M[x]) = Chain(after, list.last)
  <2>1. CASE M[x] = NULL /\ list.last = NULL
    BY <1>2, <2>1
  <2>2. CASE M[x] \in built
    <3>1. list.last # NULL
      BY <1>2, <2>2, ChainNodes
    <3>2. IsList(after, Chain(after, list.last))
      BY <1>2, <3>1 DEF IsChain
    <3> QED
      BY <2>2, <3>2, ListChain
  <2> QED
    BY <2>1, <2>2 DEF after
<1>6. \A y \in DOMAIN M : /\ M[y] \in Node \cup {NULL} /\ IsChain(after, M[y])
                          /\ ToSet(Chain(after, M[y])) = IF y = x THEN built ELSE nodes(y)
  BY <1>1, <1>4, <1>5 DEF Differ, SameLists
<1>7. \A y, z \in DOMAIN M : y # z =>
        ToSet(Chain(after, M[y])) \cap ToSet(Chain(after, M[z])) = {}
  BY <1>3, <1>6 DEF Owned, Differ
<1>8. \A n \in Node : after[n] # FREED =>
        \E y \in DOMAIN M : n \in ToSet(Chain(after, M[y]))
  <2> SUFFICES ASSUME NEW n \in Node, after[n] # FREED
               PROVE  \E y \in DOMAIN M : n \in ToSet(Chain(after, M[y]))
    OBVIOUS
  <2>1. x \in DOMAIN M
    BY DEF Differ
  <2>2. CASE n \in built
    BY <1>6, <2>1, <2>2
  <2>3. CASE n \notin built
    <3>1. heap[n] # FREED
      BY <1>2, <2>3
    <3>2. PICK y \in DOMAIN L : n \in nodes(y)
      BY <3>1 DEF Owned
    <3>3. nodes(x) = {}
      <4>1. Chain(heap, L[x]) = <<>> /\ ToSet(<<>>) = {}
        BY DEF Chain, ToSet
      <4> QED
        BY <4>1
    <3>4. y # x /\ y \in DOMAIN M
      BY <3>2, <3>3 DEF Differ
    <3> QED
      BY <1>6, <3>2, <3>4
  <2> QED
    BY <2>2, <2>3
<1>9. Owned(after, M)
  BY <1>2, <1>6, <1>7, <1>8 DEF Owned
<1>10. Keys(after, M[x]) = keys
  BY <1>2, <1>5 DEF Keys
<1> QED
  BY <1>4, <1>5, <1>9, <1>10 DEF after

\* A list that goes from one pointer to another, by any of its nodes.
LEMMA MoveOwned ==
  ASSUME NEW heap, NEW L, NEW M, Owned(heap, L), DOMAIN M = DOMAIN L,
         NEW x \in DOMAIN L, NEW y \in DOMAIN L, x # y,
         \A z \in DOMAIN L : z # x /\ z # y => M[z] = L[z],
         M[x] = NULL, L[y] = NULL,
         \/ M[y] \in ToSet(Chain(heap, L[x]))
         \/ M[y] = NULL /\ L[x] = NULL
  PROVE  /\ Owned(heap, M)
         /\ Chain(heap, M[y]) = Chain(heap, L[x])
<1>1. Chain(heap, NULL) = <<>> /\ ToSet(<<>>) = {} /\ IsChain(heap, NULL)
  BY DEF Chain, ToSet, IsChain
<1>2. /\ M[y] \in Node \cup {NULL} /\ IsChain(heap, M[y])
      /\ Chain(heap, M[y]) = Chain(heap, L[x])
  <2>1. CASE M[y] = NULL /\ L[x] = NULL
    BY <1>1, <2>1
  <2>2. CASE M[y] \in ToSet(Chain(heap, L[x]))
    <3>1. L[x] # NULL
      BY <1>1, <2>2
    <3>2. IsList(heap, Chain(heap, L[x]))
      BY <3>1 DEF Owned, IsChain
    <3> QED
      BY <2>2, <3>2, ListChain
  <2> QED
    BY <2>1, <2>2
<1>3. \A z \in DOMAIN M :
        /\ M[z] \in Node \cup {NULL} /\ IsChain(heap, M[z])
        /\ Chain(heap, M[z]) = IF z = y THEN Chain(heap, L[x])
                               ELSE IF z = x THEN Chain(heap, L[y])
                               ELSE Chain(heap, L[z])
  <2> SUFFICES ASSUME NEW z \in DOMAIN M
               PROVE  /\ M[z] \in Node \cup {NULL} /\ IsChain(heap, M[z])
                      /\ Chain(heap, M[z]) = IF z = y THEN Chain(heap, L[x])
                                             ELSE IF z = x THEN Chain(heap, L[y])
                                             ELSE Chain(heap, L[z])
    OBVIOUS
  <2>1. CASE z = y
    BY <1>2, <2>1
  <2>2. CASE z = x
    BY <1>1, <2>2
  <2>3. CASE z # x /\ z # y
    BY <2>3 DEF Owned
  <2> QED
    BY <2>1, <2>2, <2>3
<1>4. \A v, w \in DOMAIN M : v # w =>
        ToSet(Chain(heap, M[v])) \cap ToSet(Chain(heap, M[w])) = {}
  BY <1>3 DEF Owned
<1>5. \A n \in Node : heap[n] # FREED =>
        \E z \in DOMAIN M : n \in ToSet(Chain(heap, M[z]))
  <2> SUFFICES ASSUME NEW n \in Node, heap[n] # FREED
               PROVE  \E z \in DOMAIN M : n \in ToSet(Chain(heap, M[z]))
    OBVIOUS
  <2>1. PICK z \in DOMAIN L : n \in ToSet(Chain(heap, L[z]))
    BY DEF Owned
  <2> QED
    BY <1>3, <2>1
<1> QED
  BY <1>2, <1>3, <1>4, <1>5 DEF Owned

\* The list of one pointer, as if it were being built beside the others.
LEMMA Rebuilt ==
  ASSUME NEW heap, NEW L, NEW x \in DOMAIN L, Owned(heap, L),
         L[x] # NULL =>
           L[x] = Chain(heap, L[x])[Len(Chain(heap, L[x]))]
  PROVE  /\ IsHeap(FreeAll(heap, L[x]))
         /\ Building(FreeAll(heap, L[x]), [heap |-> heap, last |-> L[x]],
                     Keys(heap, L[x]))
<1> DEFINE before == FreeAll(heap, L[x])
<1>1. IsHeap(heap) /\ L[x] \in Node \cup {NULL} /\ IsChain(heap, L[x])
  BY DEF Owned
<1>2. ToSet(Chain(heap, L[x])) \subseteq Node
  BY <1>1, ChainNodes
<1>3. \A m \in Node : before[m] = IF m \in ToSet(Chain(heap, L[x])) THEN FREED ELSE heap[m]
  BY DEF FreeAll
<1>4. IsHeap(before)
  BY <1>1 DEF IsHeap, FreeAll
<1>5. ToSet(Chain(heap, L[x])) \subseteq Free(before)
  BY <1>2, <1>3 DEF Free
<1> DEFINE list == [heap |-> heap, last |-> L[x]]
<1>6. list.heap = heap /\ list.last = L[x]
  OBVIOUS
<1> HIDE DEF list, before
<1>7. Building(before, list, Keys(heap, L[x]))
  BY <1>1, <1>3, <1>5, <1>6 DEF Building
<1> QED
  BY <1>4, <1>7 DEF list, before

\* Each node allocated belongs to just one pointer, and no other node does.
LEMMA OwnedOnce ==
  ASSUME NEW heap, NEW L, Owned(heap, L), NEW n \in Node
  PROVE  LET owned == {<<x, ToSet(Chain(heap, L[x]))>> : x \in DOMAIN L}
         IN  heap[n] # FREED <=> Cardinality({own \in owned : n \in own[2]}) = 1
<1> DEFINE owned == {<<x, ToSet(Chain(heap, L[x]))>> : x \in DOMAIN L}
           owners == {own \in owned : n \in own[2]}
<1>1. ASSUME heap[n] # FREED
      PROVE  Cardinality(owners) = 1
  <2>1. PICK x \in DOMAIN L : n \in ToSet(Chain(heap, L[x]))
    BY <1>1 DEF Owned
  <2>2. \A y \in DOMAIN L : n \in ToSet(Chain(heap, L[y])) => y = x
    BY <2>1 DEF Owned
  <2>3. owners = {<<x, ToSet(Chain(heap, L[x]))>>}
    BY <2>1, <2>2
  <2> HIDE DEF owners
  <2> QED
    BY <2>3, FS_Singleton
<1>2. ASSUME heap[n] = FREED
      PROVE  Cardinality(owners) = 0
  <2>1. \A y \in DOMAIN L : n \notin ToSet(Chain(heap, L[y]))
    BY <1>2, ChainNodes, LinkedListsAssumption DEF Owned
  <2>2. owners = {}
    BY <2>1
  <2> HIDE DEF owners
  <2> QED
    BY <2>2, FS_EmptySet
<1> HIDE DEF owners
<1>3. heap[n] # FREED <=> Cardinality(owners) = 1
  BY <1>1, <1>2
<1> QED
  BY <1>3 DEF owners

\* Two lists that are freed, one after the other.
LEMMA TwoFreed ==
  ASSUME NEW heap, NEW L, NEW M, Owned(heap, L), DOMAIN M = DOMAIN L,
         NEW x \in DOMAIN L, NEW y \in DOMAIN L, x # y,
         M[x] = NULL, M[y] = NULL,
         \A z \in DOMAIN L : z # x /\ z # y => M[z] = L[z]
  PROVE  /\ Owned(FreeAll(FreeAll(heap, L[x]), L[y]), M)
         /\ \A z \in DOMAIN L : z # x /\ z # y =>
              Keys(FreeAll(FreeAll(heap, L[x]), L[y]), L[z]) = Keys(heap, L[z])
         /\ \A n \in ToSet(Chain(heap, L[x])) :
              FreeAll(FreeAll(heap, L[x]), L[y])[n] = FREED
<1> DEFINE L1 == [z \in DOMAIN L |-> IF z = x THEN NULL ELSE L[z]]
           heap1 == FreeAll(heap, L[x])
           heap2 == FreeAll(heap1, L[y])
<1>1. Differ(L, L1, x) /\ L1[x] = NULL /\ L1[y] = L[y] /\ Differ(L1, M, y)
      /\ \A z \in DOMAIN L : z # x => L1[z] = L[z]
  BY DEF Differ
<1> HIDE DEF L1
<1>2. Owned(heap1, L1) /\ SameLists(heap, heap1, L, x)
  BY <1>1, FreeOwned
<1> HIDE DEF heap1
<1>3. Owned(heap2, M) /\ SameLists(heap1, heap2, L1, y)
  BY <1>1, <1>2, FreeOwned
<1> HIDE DEF heap2
<1>4. \A z \in DOMAIN L : z # x /\ z # y => Keys(heap2, L[z]) = Keys(heap, L[z])
  BY <1>1, <1>2, <1>3 DEF SameLists, Differ
<1>5. ASSUME NEW n \in ToSet(Chain(heap, L[x]))
      PROVE  heap2[n] = FREED
  <2>1. n \in Node
    BY ChainNodes DEF Owned
  <2>2. heap1[n] = FREED
    BY <2>1 DEF heap1, FreeAll
  <2>3. heap2[n] = FREED
    BY <2>1, <2>2 DEF heap2, FreeAll
  <2> QED
    BY <2>3
<1> QED
  BY <1>3, <1>4, <1>5 DEF heap2, heap1
=============================================================================
