--------------------------- MODULE ListingProofs ----------------------------
(***************************************************************************)
(* Invariance proofs for module Listing: what a listing fetched page by    *)
(* page holds while others create and delete objects.                      *)
(***************************************************************************)
EXTENDS Listing, FiniteSetTheorems, SequenceTheorems, TLAPS

\* The i-th object of a set exists and is unique: ranks count the set.
LEMMA RanksCount ==
  ASSUME NEW S \in SUBSET Nat, IsFiniteSet(S)
  PROVE  /\ Cardinality(S) \in Nat
         /\ \A n \in S : Rank(S, n) \in 1..Cardinality(S)
         /\ \A m, n \in S : m < n => Rank(S, m) < Rank(S, n)
         /\ \A i \in 1..Cardinality(S) : \E n \in S : Rank(S, n) = i
<1> DEFINE UpTo(n) == {m \in S : m <= n}
           rank == [n \in S |-> Rank(S, n)]
<1>1. Cardinality(S) \in Nat
  BY FS_CardinalityType
<1>2. \A n \in S : /\ UpTo(n) \in SUBSET S /\ UpTo(n) # {}
                   /\ IsFiniteSet(UpTo(n))
                   /\ Cardinality(UpTo(n)) \in Nat
                   /\ Cardinality(UpTo(n)) <= Cardinality(S)
  <2> TAKE n \in S
  <2>1. UpTo(n) \in SUBSET S /\ n \in UpTo(n)
    OBVIOUS
  <2> HIDE DEF UpTo
  <2> QED
    BY <2>1, FS_Subset, FS_CardinalityType
<1>3. \A n \in S : Rank(S, n) \in 1..Cardinality(S)
  <2> TAKE n \in S
  <2>1. Rank(S, n) = Cardinality(UpTo(n))
    BY DEF Rank
  <2> HIDE DEF UpTo
  <2>2. Cardinality(UpTo(n)) # 0
    BY <1>2, FS_EmptySet
  <2> QED
    BY <1>1, <1>2, <2>1, <2>2
<1>4. \A m, n \in S : m < n => Rank(S, m) < Rank(S, n)
  <2> SUFFICES ASSUME NEW m \in S, NEW n \in S, m < n
               PROVE  Rank(S, m) < Rank(S, n)
    OBVIOUS
  <2>1. UpTo(m) \in SUBSET UpTo(n) /\ n \in UpTo(n) /\ n \notin UpTo(m)
    <3>1. m \in Nat /\ n \in Nat /\ ~ n <= m
      OBVIOUS
    <3>2. \A x \in S : x <= m => x <= n
      BY <3>1
    <3>3. UpTo(m) \in SUBSET UpTo(n)
      BY <3>2
    <3>4. n \in UpTo(n) /\ n \notin UpTo(m)
      BY <3>1
    <3> QED
      BY <3>3, <3>4
  <2>2. Rank(S, m) = Cardinality(UpTo(m)) /\ Rank(S, n) = Cardinality(UpTo(n))
    BY DEF Rank
  <2> HIDE DEF UpTo
  <2>3. /\ Cardinality(UpTo(m)) <= Cardinality(UpTo(n))
        /\ Cardinality(UpTo(n)) # Cardinality(UpTo(m))
    BY <1>2, <2>1, FS_Subset
  <2> QED
    BY <1>2, <2>2, <2>3
<1>5. \A i \in 1..Cardinality(S) : \E n \in S : Rank(S, n) = i
  <2>1. rank \in [S -> 1..Cardinality(S)]
    BY <1>3
  <2>2. ASSUME NEW a \in S, NEW b \in S, rank[a] = rank[b]
        PROVE  a = b
    <3>1. a \in Nat /\ b \in Nat /\ Rank(S, a) = Rank(S, b)
      BY <2>2
    <3>2. ~ a < b /\ ~ b < a
      BY <1>1, <1>3, <1>4, <3>1
    <3> QED
      BY <3>1, <3>2
  <2>3. rank \in Injection(S, 1..Cardinality(S))
    BY <2>1, <2>2 DEF Injection, IsInjective
  <2>4. /\ IsFiniteSet(1..Cardinality(S))
        /\ Cardinality(1..Cardinality(S)) = Cardinality(S)
    BY <1>1, FS_Interval
  <2> HIDE DEF rank
  <2>5. rank \in Surjection(S, 1..Cardinality(S))
    BY <2>3, <2>4, FS_Injection
  <2> USE DEF rank
  <2> QED
    BY <2>5 DEF Surjection
<1> QED
  BY <1>1, <1>3, <1>4, <1>5

\* The names a listing is made from are finitely many numbers.
LEMMA NamesFinite ==
  ASSUME NEW S \in SUBSET Name
  PROVE  S \in SUBSET Nat /\ IsFiniteSet(S) /\ Cardinality(S) \in Nat
BY ListingAssumption, FS_Subset, FS_CardinalityType

\* AppendObjects leaves the list as it is and puts each object of the page
\* behind it once, in their order.
LEMMA ObjectsAppended ==
  ASSUME NEW page \in SUBSET Name, list \in Seq(Name)
  PROVE  LET new == AppendObjects(page)
             old == Len(list)
         IN  /\ new \in Seq(Name) /\ Len(new) = old + Cardinality(page)
             /\ \A i \in 1..old : new[i] = list[i]
             /\ \A i \in 1..Cardinality(page) :
                  new[old + i] \in page /\ Rank(page, new[old + i]) = i
             /\ ToSet(new) = ToSet(list) \cup page
<1> DEFINE new == AppendObjects(page)
           old == Len(list)
           nth == [i \in 1..Cardinality(page) |-> Nth(page, i)]
<1>1. /\ page \in SUBSET Nat /\ Cardinality(page) \in Nat /\ IsFiniteSet(page)
  BY NamesFinite
<1>2. \A i \in 1..Cardinality(page) :
        Nth(page, i) \in page /\ Rank(page, Nth(page, i)) = i
  BY <1>1, RanksCount DEF Nth
<1>3. nth \in Seq(Name) /\ Len(nth) = Cardinality(page)
  <2>1. nth \in [1..Cardinality(page) -> Name]
    BY <1>2
  <2> HIDE DEF nth
  <2> QED
    BY <1>1, <2>1
<1>4. new = list \o nth
  BY DEF AppendObjects
<1>5. /\ new \in Seq(Name) /\ Len(new) = old + Cardinality(page)
      /\ \A i \in 1..old : new[i] = list[i]
      /\ \A i \in 1..Cardinality(page) : new[old + i] = nth[i]
  <2> HIDE DEF nth, new
  <2>1. new = list \o nth /\ nth \in Seq(Name) /\ Len(nth) = Cardinality(page)
    BY <1>3, <1>4
  <2>2. old \in Nat
    OBVIOUS
  <2>3. new \in Seq(Name) /\ Len(new) = old + Len(nth)
    BY <2>1, ConcatProperties
  <2>4. \A i \in 1..old : new[i] = list[i]
    BY <2>1, <1>1
  <2>5. \A i \in 1..Cardinality(page) : new[old + i] = nth[i]
    BY <2>1, <2>2, <1>1
  <2> QED
    BY <2>1, <2>3, <2>4, <2>5
<1>6. \A i \in 1..Cardinality(page) :
        new[old + i] \in page /\ Rank(page, new[old + i]) = i
  <2> HIDE DEF new
  <2> QED
    BY <1>2, <1>5
<1> HIDE DEF new, nth
<1>7. \A n \in page : \E i \in 1..Cardinality(page) : new[old + i] = n
  <2> TAKE n \in page
  <2> DEFINE i == Rank(page, n)
  <2>1. i \in 1..Cardinality(page)
    BY <1>1, RanksCount
  <2>2. new[old + i] \in page /\ Rank(page, new[old + i]) = i
    BY <2>1, <1>6
  <2>3. \A m \in page : m # n => Rank(page, m) # i
    <3> SUFFICES ASSUME NEW m \in page, m # n
                 PROVE  Rank(page, m) # i
      OBVIOUS
    <3>1. m \in Nat /\ n \in Nat /\ (m < n \/ n < m)
      BY <1>1
    <3>2. /\ Rank(page, m) \in 1..Cardinality(page)
          /\ m < n => Rank(page, m) < i
          /\ n < m => i < Rank(page, m)
      BY <1>1, RanksCount
    <3> QED
      BY <1>1, <2>1, <3>1, <3>2
  <2> WITNESS i \in 1..Cardinality(page)
  <2> QED
    BY <2>2, <2>3
<1>8. ToSet(new) = ToSet(list) \cup page
  <2>1. ToSet(new) = {new[i] : i \in 1..Len(new)} /\ ToSet(list) = {list[i] : i \in 1..old}
    BY <1>5 DEF ToSet
  <2>2. old \in Nat
    OBVIOUS
  <2>3. ASSUME NEW i \in 1..Len(new) PROVE new[i] \in ToSet(list) \cup page
    <3>1. i \in 1..old \/ \E j \in 1..Cardinality(page) : i = old + j
      <4>1. CASE i <= old BY <4>1, <2>2, <1>5, <1>1
      <4>2. CASE i > old
        <5>1. i - old \in 1..Cardinality(page) /\ i = old + (i - old)
          BY <4>2, <2>2, <1>5, <1>1
        <5> QED BY <5>1
      <4> QED BY <4>1, <4>2, <2>2, <1>5, <1>1
    <3> QED BY <3>1, <2>1, <1>5, <1>6
  <2>4. ASSUME NEW n \in ToSet(list) PROVE n \in ToSet(new)
    <3>1. PICK i \in 1..old : n = list[i]
      BY <2>1
    <3>2. i \in 1..Len(new) /\ new[i] = n
      BY <3>1, <1>5, <1>1, <2>2
    <3> QED BY <3>2, <2>1
  <2>5. ASSUME NEW n \in page PROVE n \in ToSet(new)
    <3>1. PICK i \in 1..Cardinality(page) : new[old + i] = n
      BY <1>7
    <3>2. old + i \in 1..Len(new)
      BY <1>5, <1>1, <2>2
    <3> QED BY <3>1, <3>2, <2>1
  <2> QED BY <2>1, <2>3, <2>4, <2>5
<1> QED
  BY <1>5, <1>6, <1>8 DEF new

\* What a page has of the objects behind the marker: those before any it has,
\* all if it is not full, and never more than PageSize.
LEMMA PageProperties ==
  ASSUME directory \subseteq Name
  PROVE  /\ Page \subseteq Behind /\ Behind \subseteq directory
         /\ \A n \in Page, m \in Behind : m <= n => m \in Page
         /\ Cardinality(Page) \in 0..PageSize
         /\ Finished(Cardinality(Page)) => Page = Behind
<1>1. Page \subseteq Behind /\ Behind \subseteq directory
  BY DEF Page, Behind
<1>2. /\ Behind \in SUBSET Nat /\ IsFiniteSet(Behind)
      /\ PageSize \in Nat \ {0} /\ Cardinality(Behind) \in Nat
      /\ Cardinality(Page) \in Nat
  BY <1>1, NamesFinite, ListingAssumption
<1>3. \A n \in Behind : /\ n \in Page <=> Rank(Behind, n) <= PageSize
                        /\ Rank(Behind, n) \in 1..Cardinality(Behind)
  BY <1>2, RanksCount DEF Page
<1>4. \A n \in Page, m \in Behind : m <= n => m \in Page
  <2> SUFFICES ASSUME NEW n \in Page, NEW m \in Behind, m <= n
               PROVE  m \in Page
    OBVIOUS
  <2>1. n \in Behind /\ n \in Nat /\ m \in Nat
    BY <1>1, <1>2
  <2>2. m < n => Rank(Behind, m) < Rank(Behind, n)
    BY <1>2, <2>1, RanksCount
  <2> QED
    BY <1>2, <1>3, <2>1, <2>2
<1>5. CASE Cardinality(Behind) <= PageSize
  <2>1. \A n \in Behind : Rank(Behind, n) <= PageSize
    BY <1>2, <1>3, <1>5
  <2>2. Page = Behind
    BY <1>1, <1>3, <2>1
  <2> QED
    BY <1>1, <1>2, <1>4, <1>5, <2>2
<1>6. CASE PageSize < Cardinality(Behind)
  <2>1. PICK x \in Behind : Rank(Behind, x) = PageSize
    <3>1. PageSize \in 1..Cardinality(Behind)
      BY <1>2, <1>6
    <3> QED
      BY <1>2, <3>1, RanksCount
  <2>2. \A n \in Behind : n <= x <=> Rank(Behind, n) <= PageSize
    <3> TAKE n \in Behind
    <3>1. n \in Nat /\ x \in Nat
      BY <1>2
    <3>2. /\ n < x => Rank(Behind, n) < PageSize
          /\ x < n => PageSize < Rank(Behind, n)
      BY <1>2, <2>1, RanksCount
    <3> QED
      BY <1>2, <1>3, <2>1, <3>1, <3>2
  <2>3. Page = {n \in Behind : n <= x}
    BY <1>1, <1>3, <2>2
  <2>4. Cardinality(Page) = PageSize
    BY <2>1, <2>3 DEF Rank
  <2> QED
    BY <1>1, <1>2, <1>4, <2>4 DEF Finished
<1> QED
  BY <1>2, <1>5, <1>6

\* A sum of whole pages is whole.
LEMMA WholePages ==
  /\ 0 % PageSize = 0
  /\ \A n \in Nat : n % PageSize = 0 => (n + PageSize) % PageSize = 0
<1> DEFINE p == PageSize
<1>1. p \in Nat \ {0}
  BY ListingAssumption
<1> HIDE DEF p
<1>2. \A b \in Int : /\ b = p * (b \div p) + (b % p)
                     /\ b \div p \in Int /\ b % p \in 0..(p - 1)
  BY <1>1
<1>3. ASSUME NEW k \in Int
      PROVE  (p * k) % p = 0
  <2>1. PICK q \in Int, r \in 0..(p - 1) : p * k = p * q + r /\ r = (p * k) % p
    <3>1. p * k \in Int
      BY <1>1
    <3> QED
      BY <1>2, <3>1
  <2>2. PICK d \in Int : d = k - q
    OBVIOUS
  <2>3. p * d = r
    BY <1>1, <2>1, <2>2
  <2>4. d >= 1 => p * d >= p
    BY <1>1
  <2>5. d <= -1 => p * d <= -p
    BY <1>1
  <2>6. d = 0
    BY <1>1, <2>3, <2>4, <2>5
  <2> QED
    BY <1>1, <2>1, <2>3, <2>6
<1>4. ASSUME NEW n \in Nat, n % p = 0
      PROVE  (n + p) % p = 0
  <2>1. PICK k \in Int : n = p * k
    <3>1. n = p * (n \div p) + 0 /\ n \div p \in Int
      BY <1>2, <1>4
    <3>2. n = p * (n \div p)
      BY <1>1, <3>1
    <3> QED
      BY <3>1, <3>2
  <2>2. n + p = p * (k + 1) /\ k + 1 \in Int
    BY <1>1, <2>1
  <2> QED
    BY <1>3, <2>2
<1>5. 0 % p = 0
  BY <1>1
<1> QED
  BY <1>4, <1>5 DEF p

-----------------------------------------------------------------------------
(* What holds wherever the names of a directory sort.                      *)

\* TypeOK but for the length of the list, which a directory whose base names
\* sort before its prefix can exceed.
Types ==
  /\ directory \subseteq Name
  /\ pc \in {"idle", "requesting", "undefined"}
  /\ list \in Seq(Name)
  /\ body \in {"null", "freed"}
  /\ result \in {"none", "objects", "no content", "statuscode"}
  /\ stayed \subseteq directory
  /\ directory \subseteq occurred /\ occurred \subseteq Name

\* Another page is only asked for when all before it were full; no result is
\* there until the call returns; what is listed was in the directory.
ListInv ==
  /\ Types
  /\ pc # "idle" => result = "none"
  /\ pc = "requesting" \/ result = "no content" => Len(list) % PageSize = 0
  /\ ToSet(list) \subseteq occurred

LEMMA EmptyList ==
  /\ <<>> \in Seq(Name) /\ Len(<<>>) = 0 /\ ToSet(<<>>) = {}
<1>1. <<>> \in Seq(Name) /\ Len(<<>>) = 0
  OBVIOUS
<1>2. ToSet(<<>>) = {}
  BY DEF ToSet
<1> QED
  BY <1>1, <1>2

LEMMA AppendPageKeepsList ==
  ASSUME ListInv, AppendPage
  PROVE  ListInv'
<1>1. /\ list' = AppendObjects(Page) /\ directory' = directory
      /\ stayed' = stayed /\ occurred' = occurred /\ pc = "requesting"
  BY DEF AppendPage, Request
<1>2. /\ Page \in SUBSET Name /\ Page \subseteq directory
      /\ Cardinality(Page) \in 0..PageSize
  BY PageProperties DEF ListInv, Types
<1>3. /\ list' \in Seq(Name)
      /\ Len(list') = Len(list) + Cardinality(Page)
      /\ ToSet(list') = ToSet(list) \cup Page
  BY <1>1, <1>2, ObjectsAppended DEF ListInv, Types
<1>4. Types'
  BY <1>1, <1>3 DEF ListInv, Types, AppendPage
<1>5. pc' # "idle" => result' = "none"
  BY <1>1 DEF ListInv, AppendPage
<1>6. ToSet(list') \subseteq occurred'
  BY <1>1, <1>2, <1>3 DEF ListInv, Types
<1>7. Len(list) \in Nat /\ PageSize \in Nat
  <2>1. list \in Seq(Name)
    BY DEF ListInv, Types
  <2> QED
    BY <2>1, ListingAssumption
<1>8. ~ Finished(Cardinality(Page)) => Cardinality(Page) = PageSize
  BY <1>2, <1>7 DEF Finished
<1>9. ASSUME pc' = "requesting" \/ result' = "no content"
      PROVE  Len(list') % PageSize = 0
  <2>1. ~ Finished(Cardinality(Page))
    BY <1>1, <1>9 DEF ListInv, AppendPage
  <2>2. Len(list) % PageSize = 0
    BY <1>1 DEF ListInv
  <2> QED
    BY <1>3, <1>7, <1>8, <2>1, <2>2, WholePages
<1> QED
  BY <1>4, <1>5, <1>6, <1>9 DEF ListInv

LEMMA ListInvariant == Spec => []ListInv
<1>1. Init => ListInv
  BY EmptyList, WholePages DEF Init, ListInv, Types
<1>2. ListInv /\ [Next]_vars => ListInv'
  <2> SUFFICES ASSUME ListInv, [Next]_vars
               PROVE  ListInv'
    OBVIOUS
  <2>1. CASE ListObjects
    BY <2>1, EmptyList, WholePages DEF ListInv, Types, ListObjects
  <2>2. CASE AppendPage
    BY <2>2, AppendPageKeepsList
  <2>3. CASE NoContent \/ Refused
    BY <2>3 DEF ListInv, Types, NoContent, Refused, Fails, Request
  <2>4. CASE Unreachable
    BY <2>4 DEF ListInv, Types, Unreachable, Request
  <2>5. ASSUME NEW n \in Name, Create(n)
        PROVE  ListInv'
    BY <2>5 DEF ListInv, Types, Create
  <2>6. ASSUME NEW n \in Name, Delete(n)
        PROVE  ListInv'
    BY <2>6 DEF ListInv, Types, Delete
  <2>7. CASE UNCHANGED vars
    BY <2>7 DEF ListInv, Types, vars
  <2> QED
    BY <2>1, <2>2, <2>3, <2>4, <2>5, <2>6, <2>7 DEF Next, Respond, Stopped
<1> QED
  BY <1>1, <1>2, PTL DEF Spec

-----------------------------------------------------------------------------
(* No object is listed twice where no base name sorts before its object:    *)
(* the list ascends.                                                       *)

NoneBefore == \A n \in Name : n <= Marker[n]

Ascending == \A i, j \in 1..Len(list) : i < j => list[i] < list[j]

LEMMA AppendPageAscends ==
  ASSUME NoneBefore, ListInv, Ascending, AppendPage
  PROVE  Ascending'
<1> DEFINE old == Len(list)
           card == Cardinality(Page)
<1>1. /\ list' = AppendObjects(Page) /\ list \in Seq(Name)
      /\ directory \subseteq Name /\ Name \subseteq Nat
  BY ListingAssumption DEF AppendPage, ListInv, Types
<1>2. Page \in SUBSET Name /\ Page \subseteq Behind /\ card \in Nat
  <2>1. Page \in SUBSET Name /\ Page \subseteq Behind
    BY <1>1, PageProperties
  <2> QED
    BY <2>1, NamesFinite
<1>3. /\ Len(list') = old + card /\ old \in Nat
      /\ \A i \in 1..old : list'[i] = list[i]
      /\ \A i \in 1..old : list[i] \in Nat
      /\ \A i \in 1..card : list'[old + i] \in Page /\ Rank(Page, list'[old + i]) = i
  <2>1. old \in Nat /\ \A i \in 1..old : list[i] \in Nat
    <3>1. list \in Seq(Name)
      BY <1>1
    <3>2. old \in Nat /\ \A i \in 1..old : list[i] \in Name
      BY <3>1
    <3> QED
      BY <1>1, <3>2
  <2> QED
    BY <1>1, <1>2, <2>1, ObjectsAppended
<1>4. \A i \in 1..old, n \in Page : list[i] < n
  <2> SUFFICES ASSUME NEW i \in 1..old, NEW n \in Page
               PROVE  list[i] < n
    OBVIOUS
  <2>1. list # <<>> /\ old \in 1..old /\ list[old] \in Name
    BY <1>1, <1>3
  <2>2. n > Marker[list[old]] /\ n \in Nat
    BY <1>1, <1>2, <2>1 DEF Behind, CurrentMarker, Last
  <2>3. list[old] <= Marker[list[old]] /\ Marker[list[old]] \in Nat
    BY <2>1, ListingAssumption DEF NoneBefore
  <2>4. list[i] <= list[old]
    BY <1>3, <2>1 DEF Ascending
  <2> QED
    BY <1>3, <2>1, <2>2, <2>3, <2>4
<1>5. \A i, j \in 1..card : i < j => list'[old + i] < list'[old + j]
  <2> SUFFICES ASSUME NEW i \in 1..card, NEW j \in 1..card, i < j
               PROVE  list'[old + i] < list'[old + j]
    OBVIOUS
  <2>1. /\ list'[old + i] \in Page /\ Rank(Page, list'[old + i]) = i
        /\ list'[old + j] \in Page /\ Rank(Page, list'[old + j]) = j
    BY <1>3
  <2>2. PICK a \in Page, b \in Page : a = list'[old + i] /\ b = list'[old + j]
    BY <2>1
  <2>3. Page \in SUBSET Nat /\ IsFiniteSet(Page)
    BY <1>2, NamesFinite
  <2>4. b < a => Rank(Page, b) < Rank(Page, a)
    BY <2>3, RanksCount
  <2>5. a \in Nat /\ b \in Nat /\ ~ b < a /\ a # b
    BY <2>1, <2>2, <2>3, <2>4
  <2> QED
    BY <2>2, <2>5
<1>6. ASSUME NEW i \in 1..Len(list'), NEW j \in 1..Len(list'), i < j
      PROVE  list'[i] < list'[j]
  <2>1. CASE j <= old
    BY <1>3, <1>6, <2>1 DEF Ascending
  <2>2. CASE i <= old /\ old < j
    <3>1. i \in 1..old /\ j - old \in 1..card /\ j = old + (j - old)
      BY <1>2, <1>3, <2>2
    <3>2. list'[j] \in Page
      BY <1>3, <3>1
    <3> QED
      BY <1>3, <1>4, <3>1, <3>2
  <2>3. CASE old < i
    <3>1. /\ i - old \in 1..card /\ i = old + (i - old)
          /\ j - old \in 1..card /\ j = old + (j - old)
      BY <1>2, <1>3, <1>6, <2>3
    <3> HIDE DEF old
    <3> QED
      BY <1>3, <1>5, <1>6, <3>1
  <2> QED
    BY <1>3, <1>6, <2>1, <2>2, <2>3
<1> QED
  BY <1>6 DEF Ascending

LEMMA AscendingInvariant == NoneBefore => (Spec => [](ListInv /\ Ascending))
<1> SUFFICES ASSUME NoneBefore
             PROVE  Spec => [](ListInv /\ Ascending)
  OBVIOUS
<1>1. Init => Ascending
  BY EmptyList DEF Init, Ascending
<1>2. ListInv /\ Ascending /\ [Next]_vars => Ascending'
  <2> SUFFICES ASSUME ListInv, Ascending, [Next]_vars
               PROVE  Ascending'
    OBVIOUS
  <2>1. CASE ListObjects
    BY <2>1, EmptyList DEF Ascending, ListObjects
  <2>2. CASE AppendPage
    BY <2>2, AppendPageAscends
  <2>3. CASE UNCHANGED list
    BY <2>3 DEF Ascending
  <2> QED
    BY <2>1, <2>2, <2>3 DEF Next, Respond, Stopped, vars, NoContent, Refused, Fails,
         Unreachable, Create, Delete
<1> QED
  BY <1>1, <1>2, ListInvariant, PTL DEF Spec

LEMMA AscendingOnce == ListInv /\ Ascending => ListedOnce
<1> SUFFICES ASSUME ListInv, Ascending,
                    NEW i \in 1..Len(list), NEW j \in 1..Len(list),
                    list[i] = list[j]
             PROVE  i = j
  BY DEF ListedOnce
<1>1. list \in Seq(Name) /\ Name \subseteq Nat
  BY ListingAssumption DEF ListInv, Types
<1>2. list[i] \in Name /\ list[j] \in Name
  BY <1>1
<1>3. ~ i < j /\ ~ j < i
  <2>1. \A m \in Nat : ~ m < m
    OBVIOUS
  <2>2. i < j => list[i] < list[j]
    BY DEF Ascending
  <2>3. j < i => list[j] < list[i]
    BY DEF Ascending
  <2> QED
    BY <1>1, <1>2, <2>1, <2>2, <2>3
<1>4. i \in Int /\ j \in Int
  BY <1>1
<1> QED
  BY <1>3, <1>4

\* Whatever is created and deleted while a directory is listed page by page,
\* no object is listed twice, if no base name sorts before its object: the
\* marker never leads the service back (the loop of mosso_list_objects).
THEOREM NoObjectTwice == NoneBefore => (Spec => []ListedOnce)
<1> SUFFICES ASSUME NoneBefore
             PROVE  Spec => []ListedOnce
  OBVIOUS
<1> QED
  BY AscendingInvariant, AscendingOnce, PTL

\* Under the same condition a listing is never longer than all names that can
\* be in the directory, and every variable has its type.
THEOREM ListingTyped == NoneBefore => (Spec => []TypeOK)
<1> SUFFICES ASSUME NoneBefore
             PROVE  Spec => []TypeOK
  OBVIOUS
<1>1. ListInv /\ Ascending => TypeOK
  <2> SUFFICES ASSUME ListInv, ListedOnce
               PROVE  TypeOK
    BY AscendingOnce
  <2>1. list \in [1..Len(list) -> Name] /\ Len(list) \in Nat
    <3>1. list \in Seq(Name)
      BY DEF ListInv, Types
    <3> QED
      BY <3>1
  <2>2. list \in Injection(1..Len(list), Name)
    BY <2>1 DEF Injection, IsInjective, ListedOnce
  <2>3. Cardinality(1..Len(list)) = Len(list)
    <3>1. PICK n \in Nat : n = Len(list)
      BY <2>1
    <3>2. Cardinality(1..n) = n
      BY FS_Interval
    <3> QED
      BY <3>1, <3>2
  <2>4. Len(list) <= Cardinality(Name)
    BY <2>2, <2>3, FS_Injection, ListingAssumption
  <2> QED
    BY <2>4 DEF ListInv, Types, TypeOK
<1> QED
  BY <1>1, AscendingInvariant, PTL

-----------------------------------------------------------------------------
(* No object is lost where no base name sorts behind its object: up to the *)
(* marker, the list has all that stayed.                                   *)

NoneBehind == \A n \in Name : Marker[n] <= n

CaughtUp ==
  /\ pc = "requesting" =>
       \A n \in stayed : n <= CurrentMarker => n \in ToSet(list)
  /\ result \in {"objects", "no content"} => stayed \subseteq ToSet(list)

LEMMA MarkerNumber ==
  ASSUME list \in Seq(Name)
  PROVE  CurrentMarker \in Nat
<1>1. CASE list = <<>>
  BY <1>1 DEF CurrentMarker
<1>2. CASE list # <<>>
  <2>1. Len(list) \in 1..Len(list)
    BY <1>2
  <2>2. list[Len(list)] \in Name
    BY <2>1
  <2> QED
    BY <1>2, <2>2, ListingAssumption DEF CurrentMarker, Last
<1> QED
  BY <1>1, <1>2

LEMMA AppendPageCatchesUp ==
  ASSUME NoneBehind, ListInv, CaughtUp, AppendPage
  PROVE  CaughtUp'
<1>1. /\ list' = AppendObjects(Page) /\ list \in Seq(Name)
      /\ directory \subseteq Name /\ Name \subseteq Nat
      /\ stayed' = stayed /\ stayed \subseteq directory
      /\ pc = "requesting" /\ result = "none" /\ Page # {}
  BY ListingAssumption DEF AppendPage, Request, ListInv, Types
<1>2. /\ Page \in SUBSET Name /\ Page \subseteq Behind /\ Cardinality(Page) \in Nat
      /\ Behind \subseteq directory
      /\ \A n \in Page, m \in Behind : m <= n => m \in Page
      /\ Finished(Cardinality(Page)) => Page = Behind
  <2>1. Page \subseteq Behind /\ Behind \subseteq directory
    BY <1>1, PageProperties
  <2>2. Page \in SUBSET Name /\ Cardinality(Page) \in Nat
    BY <1>1, <2>1, NamesFinite
  <2> QED
    BY <1>1, <2>1, <2>2, PageProperties
<1>3. /\ list' \in Seq(Name) /\ Len(list') = Len(list) + Cardinality(Page)
      /\ ToSet(list') = ToSet(list) \cup Page
      /\ \A i \in 1..Cardinality(Page) : list'[Len(list) + i] \in Page
  BY <1>1, <1>2, ObjectsAppended
<1>4. CurrentMarker \in Nat
  BY <1>1, MarkerNumber
<1>5. \A n \in stayed : n \in ToSet(list) \/ n \in Behind
  BY <1>1, <1>4 DEF CaughtUp, Behind
<1>6. pc' = "requesting" =>
        \A n \in stayed' : n <= CurrentMarker' => n \in ToSet(list')
  <2> SUFFICES ASSUME NEW n \in stayed, n <= CurrentMarker', n \in Behind
               PROVE  n \in Page
    BY <1>1, <1>3, <1>5
  <2>1. Cardinality(Page) # 0
    BY <1>1, <1>2, NamesFinite, FS_EmptySet
  <2>2. Cardinality(Page) \in 1..Cardinality(Page)
    BY <1>2, <2>1
  <2>3. PICK l \in Page : l = list'[Len(list')] /\ list' # <<>>
    <3>1. list'[Len(list')] \in Page
      BY <1>3, <2>2
    <3>2. Len(list) \in Nat /\ Len(list') # 0
      BY <1>1, <1>2, <1>3, <2>1
    <3> QED
      BY <3>1, <3>2
  <2>4. CurrentMarker' = Marker[l]
    BY <2>3 DEF CurrentMarker, Last
  <2>5. Marker[l] <= l /\ Marker[l] \in Nat /\ l \in Nat /\ n \in Nat
    BY <1>1, <1>2, ListingAssumption DEF NoneBehind
  <2>6. n <= l
    BY <2>4, <2>5
  <2> QED
    BY <1>2, <2>6
<1>7. result' \in {"objects", "no content"} => stayed' \subseteq ToSet(list')
  <2>1. result' \in {"objects", "no content"} => Page = Behind
    BY <1>1, <1>2 DEF AppendPage
  <2> QED
    BY <1>1, <1>3, <1>5, <2>1
<1> QED
  BY <1>6, <1>7 DEF CaughtUp

LEMMA NoContentCatchesUp ==
  ASSUME ListInv, CaughtUp, NoContent
  PROVE  CaughtUp'
<1>1. /\ Page = {} /\ pc = "requesting" /\ pc' = "idle" /\ list' = list
      /\ stayed' = stayed /\ stayed \subseteq directory /\ directory \subseteq Name
      /\ list \in Seq(Name) /\ Name \subseteq Nat
  BY ListingAssumption DEF NoContent, Fails, Request, ListInv, Types
<1>2. Cardinality(Page) = 0 /\ PageSize \in Nat \ {0}
  BY <1>1, FS_EmptySet, ListingAssumption
<1>3. Behind = {}
  BY <1>1, <1>2, PageProperties DEF Finished
<1>4. CurrentMarker \in Nat
  BY <1>1, MarkerNumber
<1>5. stayed \subseteq ToSet(list)
  <2>1. \A n \in stayed : n \in Nat /\ ~ n > CurrentMarker
    BY <1>1, <1>3 DEF Behind
  <2>2. \A n \in stayed : n <= CurrentMarker
    BY <1>4, <2>1
  <2> QED
    BY <1>1, <2>2 DEF CaughtUp
<1> QED
  BY <1>1, <1>5 DEF CaughtUp

LEMMA CaughtUpInvariant == NoneBehind => (Spec => [](ListInv /\ CaughtUp))
<1> SUFFICES ASSUME NoneBehind
             PROVE  Spec => [](ListInv /\ CaughtUp)
  OBVIOUS
<1>1. Init => CaughtUp
  BY DEF Init, CaughtUp
<1>2. ListInv /\ CaughtUp /\ [Next]_vars => CaughtUp'
  <2> SUFFICES ASSUME ListInv, CaughtUp, [Next]_vars
               PROVE  CaughtUp'
    OBVIOUS
  <2>1. CASE ListObjects
    <3>1. /\ list' = <<>> /\ result' = "none" /\ stayed' = directory
          /\ directory \subseteq Name
      BY <2>1 DEF ListObjects, ListInv, Types
    <3>2. CurrentMarker' = 0
      BY <3>1 DEF CurrentMarker
    <3>3. \A n \in stayed' : n \in Nat \ {0}
      BY <3>1, ListingAssumption
    <3>4. \A n \in stayed' : ~ n <= CurrentMarker'
      BY <3>2, <3>3
    <3> QED
      BY <3>1, <3>4 DEF CaughtUp
  <2>2. CASE AppendPage
    BY <2>2, AppendPageCatchesUp
  <2>3. CASE NoContent
    BY <2>3, NoContentCatchesUp
  <2>4. CASE Refused \/ Unreachable
    BY <2>4 DEF CaughtUp, Refused, Fails, Unreachable, Request, ListInv
  <2>5. ASSUME NEW n \in Name, Create(n) \/ Delete(n)
        PROVE  CaughtUp'
    <3>1. list' = list /\ pc' = pc /\ result' = result /\ stayed' \subseteq stayed
      BY <2>5 DEF Create, Delete
    <3>2. CurrentMarker' = CurrentMarker
      BY <3>1 DEF CurrentMarker
    <3> QED
      BY <3>1, <3>2 DEF CaughtUp
  <2>6. CASE UNCHANGED vars
    BY <2>6 DEF CaughtUp, CurrentMarker, vars
  <2> QED
    BY <2>1, <2>2, <2>3, <2>4, <2>5, <2>6 DEF Next, Respond, Stopped
<1> QED
  BY <1>1, <1>2, ListInvariant, PTL DEF Spec

\* A listing that is returned has every object that was there throughout, and
\* nothing that never was, if no base name sorts behind its object: a page
\* that is not full is the last, and the marker never skips an object.
THEOREM NoObjectMissing == NoneBehind => (Spec => []Complete)
<1> SUFFICES ASSUME NoneBehind
             PROVE  Spec => []Complete
  OBVIOUS
<1>1. ListInv /\ CaughtUp => Complete
  BY DEF ListInv, CaughtUp, Complete
<1> QED
  BY <1>1, CaughtUpInvariant, PTL

\* Under the same condition the error "no content" loses objects only where
\* those that stayed had all been listed, on full pages.
THEOREM LossNeedsFullPages == NoneBehind => (Spec => []LostOnlyWhenFull)
<1> SUFFICES ASSUME NoneBehind
             PROVE  Spec => []LostOnlyWhenFull
  OBVIOUS
<1>1. ListInv /\ CaughtUp => LostOnlyWhenFull
  BY DEF ListInv, CaughtUp, LostOnlyWhenFull
<1> QED
  BY <1>1, CaughtUpInvariant, PTL

-----------------------------------------------------------------------------
(* How many pages a listing can ask for.                                   *)

\* A response ends the listing, or the list is a whole page longer for it.
PagesAddUp ==
  [][pc = "requesting" =>
       \/ pc' # "requesting"
       \/ ~ Respond /\ list' = list
       \/ Len(list') = Len(list) + PageSize]_vars

\* However others change the directory, a listing asks for a further page only
\* when it has got a whole one, and there are only so many names (the condition
\* of the loop of mosso_list_objects): it cannot go round for ever.  This is the
\* part of Ends that is not about fairness.
THEOREM PagesBounded ==
  NoneBefore => (Spec => PagesAddUp /\ [](Len(list) <= Cardinality(Name)))
<1> SUFFICES ASSUME NoneBefore
             PROVE  Spec => PagesAddUp /\ [](Len(list) <= Cardinality(Name))
  OBVIOUS
<1>1. ASSUME ListInv, [Next]_vars, pc = "requesting"
      PROVE  \/ pc' # "requesting"
             \/ ~ Respond /\ list' = list
             \/ Len(list') = Len(list) + PageSize
  <2>1. CASE AppendPage
    <3>1. /\ list' = AppendObjects(Page)
          /\ ~ Finished(Cardinality(Page)) \/ pc' = "idle"
      BY <2>1 DEF AppendPage
    <3>2. Page \in SUBSET Name /\ Cardinality(Page) \in 0..PageSize
      BY <1>1, PageProperties DEF ListInv, Types
    <3>3. Len(list') = Len(list) + Cardinality(Page)
      BY <1>1, <3>1, <3>2, ObjectsAppended DEF ListInv, Types
    <3>4. ~ Finished(Cardinality(Page)) => Cardinality(Page) = PageSize
      BY <3>2, ListingAssumption DEF Finished
    <3> QED
      BY <3>1, <3>3, <3>4
  <2>2. CASE Respond /\ ~ AppendPage
    BY <2>2 DEF Respond, NoContent, Refused, Fails, Unreachable
  <2>3. CASE ~ Respond
    BY <1>1, <2>3 DEF Next, ListObjects, Create, Delete, Stopped, vars
  <2> QED
    BY <2>1, <2>2, <2>3
<1>2. TypeOK => Len(list) <= Cardinality(Name)
  BY DEF TypeOK
<1>3. Spec => []TypeOK
  BY ListingTyped
<1>4. Spec => [](Len(list) <= Cardinality(Name))
  BY <1>2, <1>3, PTL
<1>5. ListInv /\ [Next]_vars =>
        [pc = "requesting" =>
           \/ pc' # "requesting"
           \/ ~ Respond /\ list' = list
           \/ Len(list') = Len(list) + PageSize]_vars
  BY <1>1
<1>6. Spec => PagesAddUp
  BY <1>5, ListInvariant, PTL DEF Spec, PagesAddUp
<1> QED
  BY <1>4, <1>6

-----------------------------------------------------------------------------
(* When a listing returns at all.                                          *)

\* A body is left over from an earlier page only.
NoneLeftOver == (pc = "requesting" => body = "null") /\ pc # "undefined"

\* With fewer names than fit a page, every call of mosso_list_objects returns,
\* whatever the service answers and whenever it fails: only the failure of a
\* request for a further page frees a body that is freed already.
THEOREM SmallDirectoriesReturn ==
  Cardinality(Name) < PageSize => (Spec => []ErrorReturned)
<1> SUFFICES ASSUME Cardinality(Name) < PageSize PROVE Spec => []ErrorReturned
  OBVIOUS
<1>1. Init => NoneLeftOver
  BY DEF Init, NoneLeftOver
<1>2. ListInv /\ NoneLeftOver /\ [Next]_vars => NoneLeftOver'
  <2> SUFFICES ASSUME ListInv, NoneLeftOver, [Next]_vars
               PROVE  NoneLeftOver'
    OBVIOUS
  <2>1. CASE AppendPage
    <3>1. Page \in SUBSET Name
      BY PageProperties DEF ListInv, Types
    <3>2. /\ Cardinality(Page) <= Cardinality(Name)
          /\ Cardinality(Page) \in Nat /\ Cardinality(Name) \in Nat
      BY <3>1, NamesFinite, FS_Subset, FS_CardinalityType, ListingAssumption
    <3>3. Finished(Cardinality(Page))
      BY <3>2, ListingAssumption DEF Finished
    <3> QED
      BY <2>1, <3>3 DEF AppendPage, NoneLeftOver
  <2>2. CASE ListObjects \/ NoContent \/ Refused \/ Unreachable
    BY <2>2 DEF ListObjects, NoContent, Refused, Fails, Unreachable, Request, NoneLeftOver
  <2>3. CASE (\E n \in Name : Create(n) \/ Delete(n)) \/ Stopped \/ UNCHANGED vars
    BY <2>3 DEF Create, Delete, Stopped, NoneLeftOver, vars
  <2> QED
    BY <2>1, <2>2, <2>3 DEF Next, Respond
<1>3. NoneLeftOver => ErrorReturned
  BY DEF NoneLeftOver, ErrorReturned
<1> QED
  BY <1>1, <1>2, <1>3, ListInvariant, PTL DEF Spec
=============================================================================
