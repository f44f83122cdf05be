-------------------------- MODULE RequestUrlProofs --------------------------
(***************************************************************************)
(* A service that decodes a URL of module RequestUrl has the path and the  *)
(* marker it was made for, whatever they are.                              *)
(*                                                                         *)
(* What is recursive is unfolded by NumbersUpTo, from module               *)
(* LinkedListsProofs.                                                      *)
(***************************************************************************)
EXTENDS RequestUrl, LinkedListsProofs

Ascii == 0..127

\* What an encoded string consists of.
Codes == Nat \ {QUESTION, AMPERSAND, EQUALS}

-----------------------------------------------------------------------------
(* Sequences of sequences.                                                 *)

\* FlattenSeq puts one sequence behind the other.
LEMMA FlattenSteps ==
  ASSUME NEW S, NEW seqs \in Seq(Seq(S)), seqs # <<>>
  PROVE  \E flat :
           /\ \A i \in 1..Len(seqs) : flat[i] \in Seq(S)
           /\ flat[1] = seqs[1]
           /\ \A i \in 2..Len(seqs) : flat[i] = flat[i - 1] \o seqs[i]
           /\ FlattenSeq(seqs) = flat[Len(seqs)]
<1> DEFINE N == Len(seqs)
           Part(i, before) == IF i = 1 THEN seqs[i] ELSE before \o seqs[i]
           Parts(f, k) == f = [i \in 1..k |-> Part(i, f[i - 1])]
           T == {k \in 0..N : \E f : Parts(f, k)}
<1>1. N \in Nat /\ N >= 1 /\ \A i \in 1..N : seqs[i] \in Seq(S)
  OBVIOUS
<1>2. \E f : Parts(f, N)
  <2>1. ASSUME NEW k \in 0..N, \A j \in 0..N : j < k => j \in T
        PROVE  k \in T
    <3>1. CASE k = 0
      <4>1. Parts([i \in 1..0 |-> 0], 0)
        OBVIOUS
      <4> HIDE DEF Parts
      <4> QED
        BY <3>1, <4>1
    <3>2. CASE k # 0
      <4>1. k - 1 \in 0..N /\ k - 1 < k /\ k \in Nat
        BY <1>1, <3>2
      <4>2. PICK f : Parts(f, k - 1)
        <5> HIDE DEF Parts
        <5> QED
          BY <2>1, <4>1
      <4> DEFINE g == [i \in 1..k |-> IF i = k THEN Part(k, f[k - 1]) ELSE f[i]]
      <4> HIDE DEF Part
      <4>3. \A i \in 1..k - 1 : f[i] = Part(i, f[i - 1])
        BY <4>2
      <4>4. \A i \in 1..k : i # k => i \in 1..k - 1 /\ g[i] = f[i]
        BY <4>1
      <4>5. g[k] = Part(k, f[k - 1]) /\ g = [i \in 1..k |-> g[i]]
        BY <3>2, <4>1
      <4> HIDE DEF g
      <4>6. \A i \in 1..k : g[i] = Part(i, g[i - 1])
        <5> TAKE i \in 1..k
        <5>1. CASE i = 1
          <6>1. \A x, y : Part(1, x) = Part(1, y)
            BY DEF Part
          <6> QED
            BY <4>3, <4>4, <4>5, <5>1, <6>1
        <5>2. CASE i # 1
          <6>1. i - 1 \in 1..k /\ i - 1 # k
            BY <4>1, <5>2
          <6>2. g[i - 1] = f[i - 1]
            BY <4>4, <6>1
          <6> QED
            BY <4>3, <4>4, <4>5, <6>2
        <5> QED
          BY <5>1, <5>2
      <4>7. Parts(g, k)
        BY <4>5, <4>6
      <4> HIDE DEF Parts
      <4> QED
        BY <4>7
    <3> QED
      BY <3>1, <3>2
  <2> HIDE DEF T
  <2>2. \A k \in 0..N : k \in T
    BY <1>1, <2>1, NumbersUpTo
  <2>3. N \in T
    BY <1>1, <2>2
  <2> HIDE DEF Parts
  <2> QED
    BY <2>3 DEF T
<1> DEFINE flat == CHOOSE f : Parts(f, N)
<1>3. Parts(flat, N)
  <2> HIDE DEF Parts
  <2> QED
    BY <1>2
<1>4. FlattenSeq(seqs) = flat[N]
  <2>1. N # 0
    BY <1>1
  <2> QED
    BY <2>1 DEF FlattenSeq
<1> HIDE DEF flat
<1>5. \A i \in 1..N : flat[i] = Part(i, flat[i - 1])
  <2> HIDE DEF Part
  <2> QED
    BY <1>3
<1>6. /\ flat[1] = seqs[1]
      /\ \A i \in 2..N : i - 1 \in 1..N /\ flat[i] = flat[i - 1] \o seqs[i]
  <2>1. 1 \in 1..N /\ \A i \in 2..N : i \in 1..N /\ i - 1 \in 1..N /\ i # 1
    BY <1>1
  <2>2. flat[1] = Part(1, flat[1 - 1])
    BY <1>5, <2>1
  <2>3. ASSUME NEW i \in 2..N
        PROVE  flat[i] = flat[i - 1] \o seqs[i]
    <3>1. flat[i] = Part(i, flat[i - 1])
      BY <1>5, <2>1
    <3> QED
      BY <2>1, <3>1
  <2> QED
    BY <2>1, <2>2, <2>3
<1>7. \A i \in 1..N : flat[i] \in Seq(S)
  <2> DEFINE U == {k \in 0..N : k = 0 \/ flat[k] \in Seq(S)}
  <2>1. ASSUME NEW k \in 0..N, \A j \in 0..N : j < k => j \in U
        PROVE  k \in U
    <3>1. CASE k = 0 \/ k = 1
      BY <1>1, <1>6, <3>1
    <3>2. CASE k # 0 /\ k # 1
      <4>1. k \in 2..N /\ k - 1 \in 0..N /\ k - 1 < k /\ k - 1 # 0
        BY <1>1, <3>2
      <4>2. flat[k - 1] \in Seq(S) /\ seqs[k] \in Seq(S)
        BY <1>1, <2>1, <4>1
      <4>3. flat[k - 1] \o seqs[k] \in Seq(S)
        BY <4>2, ConcatProperties
      <4> QED
        BY <1>6, <4>1, <4>3
    <3> QED
      BY <3>1, <3>2
  <2> HIDE DEF U
  <2>2. \A k \in 0..N : k \in U
    BY <1>1, <2>1, NumbersUpTo
  <2> QED
    BY <1>1, <2>2 DEF U
<1> QED
  BY <1>4, <1>6, <1>7

\* What two sequences contain, they contain together.
LEMMA ConcatContains ==
  ASSUME NEW S, NEW s \in Seq(S), NEW t \in Seq(S)
  PROVE  ToSet(s \o t) = ToSet(s) \cup ToSet(t)
<1>1. /\ s \o t \in Seq(S) /\ Len(s \o t) = Len(s) + Len(t)
      /\ Len(s) \in Nat /\ Len(t) \in Nat
      /\ \A i \in 1..Len(s) + Len(t) :
           (s \o t)[i] = IF i <= Len(s) THEN s[i] ELSE t[i - Len(s)]
  BY ConcatProperties
<1>2. \A i \in 1..Len(s) : i \in 1..Len(s) + Len(t)
  BY <1>1
<1>3. \A i \in 1..Len(t) :
        i + Len(s) \in 1..Len(s) + Len(t) /\ ~ i + Len(s) <= Len(s)
        /\ (i + Len(s)) - Len(s) = i
  BY <1>1
<1>4. \A i \in 1..Len(s) + Len(t) : ~ i <= Len(s) => i - Len(s) \in 1..Len(t)
  BY <1>1
<1>5. PICK u : u = s \o t
  OBVIOUS
<1>6. DOMAIN u = 1..Len(s) + Len(t) /\ DOMAIN s = 1..Len(s)
      /\ DOMAIN t = 1..Len(t)
  BY <1>1, <1>5
<1>7. ToSet(u) \subseteq ToSet(s) \cup ToSet(t)
  BY <1>1, <1>4, <1>5, <1>6 DEF ToSet
<1>8. ToSet(s) \subseteq ToSet(u)
  BY <1>1, <1>2, <1>5, <1>6 DEF ToSet
<1>9. ToSet(t) \subseteq ToSet(u)
  <2> SUFFICES ASSUME NEW i \in 1..Len(t)
               PROVE  \E j \in DOMAIN u : u[j] = t[i]
    BY <1>6 DEF ToSet
  <2>1. u[i + Len(s)] = t[i]
    BY <1>1, <1>3, <1>5
  <2> QED
    BY <1>3, <1>6, <2>1
<1> QED
  BY <1>5, <1>7, <1>8, <1>9

\* Whatever is in one of the sequences is in the flattened one.
LEMMA FlattenContains ==
  ASSUME NEW S, NEW seqs \in Seq(Seq(S)), NEW n \in 1..Len(seqs),
         NEW x \in ToSet(seqs[n])
  PROVE  x \in ToSet(FlattenSeq(seqs))
<1> DEFINE N == Len(seqs)
<1>1. N \in Nat /\ n \in Nat /\ 1 <= n /\ n <= N /\ seqs # <<>>
      /\ \A i \in 1..N : seqs[i] \in Seq(S)
  OBVIOUS
<1>2. PICK flat :
        /\ \A i \in 1..N : flat[i] \in Seq(S)
        /\ flat[1] = seqs[1]
        /\ \A i \in 2..N : flat[i] = flat[i - 1] \o seqs[i]
        /\ FlattenSeq(seqs) = flat[N]
  BY <1>1, FlattenSteps
<1>3. \A s, q \in Seq(S) : ToSet(s \o q) = ToSet(s) \cup ToSet(q)
  BY ConcatContains
<1>4. \A k \in 0..N : n <= k => x \in ToSet(flat[k])
  <2> DEFINE U == {k \in 0..N : n <= k => x \in ToSet(flat[k])}
  <2>1. ASSUME NEW k \in 0..N, \A j \in 0..N : j < k => j \in U
        PROVE  k \in U
    <3> SUFFICES ASSUME n <= k
                 PROVE  x \in ToSet(flat[k])
      OBVIOUS
    <3>1. CASE k = 1
      BY <1>1, <1>2, <3>1
    <3>2. CASE k # 1
      <4>1. k \in 2..N /\ k - 1 \in 1..N /\ k - 1 \in 0..N /\ k - 1 < k
            /\ k \in 1..N
        BY <1>1, <3>2
      <4>2. flat[k] = flat[k - 1] \o seqs[k]
        BY <1>2, <4>1
      <4>3. ToSet(flat[k]) = ToSet(flat[k - 1]) \cup ToSet(seqs[k])
        BY <1>1, <1>2, <1>3, <4>1, <4>2
      <4>4. CASE n = k
        BY <4>3, <4>4
      <4>5. CASE n # k
        <5>1. n <= k - 1
          BY <1>1, <4>1, <4>5
        <5> QED
          BY <2>1, <4>1, <4>3, <5>1
      <4> QED
        BY <4>4, <4>5
    <3> QED
      BY <3>1, <3>2
  <2> HIDE DEF U
  <2>2. \A k \in 0..N : k \in U
    BY <1>1, <2>1, NumbersUpTo
  <2> QED
    BY <2>2 DEF U
<1> QED
  BY <1>1, <1>2, <1>4

-----------------------------------------------------------------------------
(* Decode, byte by byte from the front.                                    *)

\* What the last i bytes of s stand for, if rest says so of fewer.
Rest(s, rest, i) ==
  LET at == Len(s) - i + 1
  IN  CASE i = 0 -> <<>>
        [] i >= 3 /\ s[at] = PERCENT ->
             <<16 * HexValue(s[at + 1]) + HexValue(s[at + 2])>> \o rest[i - 3]
        [] OTHER -> <<s[at]>> \o rest[i - 1]

\* rest is right for the last i bytes, for every i up to n.
RestsUpTo(n, s, rest) == \A i \in 0..n : rest[i] = Rest(s, rest, i)

LEMMA RestNone ==
  ASSUME NEW s, NEW r
  PROVE  Rest(s, r, 0) = <<>>
  BY DEF Rest

LEMMA RestEscape ==
  ASSUME NEW s, NEW r, NEW i \in Nat, Len(s) \in Nat,
         i >= 3, s[Len(s) - i + 1] = PERCENT
  PROVE  Rest(s, r, i) =
           <<16 * HexValue(s[Len(s) - i + 2]) + HexValue(s[Len(s) - i + 3])>>
             \o r[i - 3]
<1>1. i # 0 /\ (Len(s) - i + 1) + 1 = Len(s) - i + 2
        /\ (Len(s) - i + 1) + 2 = Len(s) - i + 3
  OBVIOUS
<1>2. Rest(s, r, i) =
        <<16 * HexValue(s[(Len(s) - i + 1) + 1]) + HexValue(s[(Len(s) - i + 1) + 2])>>
          \o r[i - 3]
  BY <1>1 DEF Rest
<1> QED
  BY <1>1, <1>2

LEMMA RestByte ==
  ASSUME NEW s, NEW r, NEW i \in Nat, Len(s) \in Nat,
         i # 0, ~ (i >= 3 /\ s[Len(s) - i + 1] = PERCENT)
  PROVE  Rest(s, r, i) = <<s[Len(s) - i + 1]>> \o r[i - 1]
  BY DEF Rest

\* The rest depends on shorter ones only.
LEMMA RestSame ==
  ASSUME NEW s, Len(s) \in Nat, NEW i \in Nat, NEW f, NEW g,
         \A j \in Nat : j < i => f[j] = g[j]
  PROVE  Rest(s, f, i) = Rest(s, g, i)
<1>1. i # 0 => f[i - 1] = g[i - 1]
  OBVIOUS
<1>2. i >= 3 => f[i - 3] = g[i - 3]
  OBVIOUS
<1>3. CASE i = 0
  BY <1>3, RestNone
<1>4. CASE i >= 3 /\ s[Len(s) - i + 1] = PERCENT
  <2>1. PICK first :
          first = <<16 * HexValue(s[Len(s) - i + 2]) + HexValue(s[Len(s) - i + 3])>>
    OBVIOUS
  <2>2. Rest(s, f, i) = first \o f[i - 3]
    BY <1>4, <2>1, RestEscape
  <2>3. Rest(s, g, i) = first \o g[i - 3]
    BY <1>4, <2>1, RestEscape
  <2> QED
    BY <1>2, <1>4, <2>2, <2>3
<1>5. CASE i # 0 /\ ~ (i >= 3 /\ s[Len(s) - i + 1] = PERCENT)
  BY <1>1, <1>5, RestByte, ZenonT(30)
<1> QED
  BY <1>3, <1>4, <1>5

LEMMA DecodeSteps ==
  ASSUME NEW S, NEW s \in Seq(S)
  PROVE  \E rest : /\ \A i \in 0..Len(s) : rest[i] = Rest(s, rest, i)
                   /\ Decode(s) = rest[Len(s)]
<1> DEFINE N == Len(s)
           Rests(f, k) == f = [i \in 0..k |-> Rest(s, f, i)]
           T == {k \in 0..N : \E f : Rests(f, k)}
<1>1. N \in Nat
  OBVIOUS
<1>2. ASSUME NEW k \in 0..N, \A j \in 0..N : j < k => j \in T
      PROVE  k \in T
  <2>1. PICK f : k # 0 => Rests(f, k - 1)
    <3>1. CASE k = 0
      BY <3>1
    <3>2. CASE k # 0
      <4>1. k - 1 \in 0..N /\ k - 1 < k
        BY <1>1, <3>2
      <4> HIDE DEF Rests
      <4> QED
        BY <1>2, <4>1
    <3> QED
      BY <3>1, <3>2
  <2> DEFINE g == [i \in 0..k |-> IF i = k THEN Rest(s, f, k) ELSE f[i]]
  <2>2. \A i \in 0..k : i # k => k # 0 /\ i \in 0..k - 1 /\ i < k
    BY <1>1
  <2>3. \A i \in 0..k : i # k => f[i] = Rest(s, f, i) /\ g[i] = f[i]
    BY <2>1, <2>2
  <2>4. g[k] = Rest(s, f, k) /\ g = [i \in 0..k |-> g[i]]
    BY <1>1
  <2> HIDE DEF g
  <2>5. \A i \in 0..k : g[i] = Rest(s, g, i)
    <3> TAKE i \in 0..k
    <3>1. \A j \in Nat : j < i => j \in 0..k /\ j # k
      BY <1>1
    <3>2. i \in Nat /\ \A j \in Nat : j < i => f[j] = g[j]
      BY <2>3, <3>1
    <3>3. Rest(s, f, i) = Rest(s, g, i)
      BY <3>2, RestSame
    <3> QED
      BY <2>3, <2>4, <3>3
  <2>6. Rests(g, k)
    BY <2>4, <2>5
  <2> HIDE DEF Rests
  <2> QED
    BY <2>6
<1>3. \E f : Rests(f, N)
  <2> HIDE DEF T
  <2>1. \A k \in 0..N : k \in T
    BY <1>1, <1>2, NumbersUpTo
  <2>2. N \in T
    BY <1>1, <2>1
  <2> HIDE DEF Rests
  <2> QED
    BY <2>2 DEF T
<1> DEFINE rest == CHOOSE f : Rests(f, N)
<1>4. Rests(rest, N)
  <2> HIDE DEF Rests
  <2> QED
    BY <1>3
<1>5. Decode(s) = rest[N]
  BY DEF Decode, Rest
<1> HIDE DEF rest
<1>6. \A i \in 0..N : rest[i] = Rest(s, rest, i)
  BY <1>4
<1> QED
  BY <1>5, <1>6

\* Decoding the last bytes does not look at what is before them.
LEMMA DecodeBehind ==
  ASSUME NEW S, NEW s \in Seq(S), NEW a \in Seq(S), NEW u, u = a \o s,
         NEW f, RestsUpTo(Len(s), s, f), NEW g, RestsUpTo(Len(s), u, g)
  PROVE  f[Len(s)] = g[Len(s)]
<1> DEFINE N == Len(s)
           M == Len(a)
           T == {i \in 0..N : f[i] = g[i]}
<1>1. \A i \in 0..N : f[i] = Rest(s, f, i) /\ g[i] = Rest(u, g, i)
  BY DEF RestsUpTo
<1>2. /\ N \in Nat /\ M \in Nat /\ Len(u) = M + N
      /\ \A i \in 1..M + N : u[i] = IF i <= M THEN a[i] ELSE s[i - M]
  BY ConcatProperties
<1>3. \A i \in 1..N : u[i + M] = s[i]
  <2>1. \A i \in 1..N : i + M \in 1..M + N /\ ~ i + M <= M /\ (i + M) - M = i
    BY <1>2
  <2> QED
    BY <1>2, <2>1
<1>4. ASSUME NEW k \in 0..N, \A j \in 0..N : j < k => j \in T
      PROVE  k \in T
  <2>1. /\ k \in Nat /\ Len(u) \in Nat
        /\ k # 0 => /\ N - k + 1 \in 1..N /\ (N - k + 1) + M = Len(u) - k + 1
                    /\ k - 1 \in 0..N /\ k - 1 < k
        /\ k >= 3 => /\ N - k + 2 \in 1..N /\ (N - k + 2) + M = Len(u) - k + 2
                     /\ N - k + 3 \in 1..N /\ (N - k + 3) + M = Len(u) - k + 3
                     /\ k - 3 \in 0..N /\ k - 3 < k /\ k # 0
    BY <1>2
  <2>2. /\ k # 0 => u[Len(u) - k + 1] = s[N - k + 1] /\ f[k - 1] = g[k - 1]
        /\ k >= 3 => /\ u[Len(u) - k + 2] = s[N - k + 2]
                     /\ u[Len(u) - k + 3] = s[N - k + 3]
                     /\ f[k - 3] = g[k - 3]
    <3>1. k # 0 => u[Len(u) - k + 1] = s[N - k + 1]
      BY <1>3, <2>1
    <3>2. k >= 3 => /\ u[Len(u) - k + 2] = s[N - k + 2]
                    /\ u[Len(u) - k + 3] = s[N - k + 3]
      <4>1. k >= 3 => /\ u[(N - k + 2) + M] = s[N - k + 2]
                      /\ u[(N - k + 3) + M] = s[N - k + 3]
        BY <1>3, <2>1
      <4> QED
        BY <2>1, <4>1
    <3>3. /\ k # 0 => f[k - 1] = g[k - 1]
          /\ k >= 3 => f[k - 3] = g[k - 3]
      BY <1>4, <2>1
    <3> QED
      BY <3>1, <3>2, <3>3
  <2>3. f[k] = Rest(s, f, k) /\ g[k] = Rest(u, g, k)
    BY <1>1
  <2>4. Rest(s, f, k) = Rest(u, g, k)
    <3>1. CASE k = 0
      BY <3>1, RestNone
    <3>2. CASE k >= 3 /\ s[N - k + 1] = PERCENT
      <4>1. k # 0 /\ u[Len(u) - k + 1] = PERCENT
        BY <2>1, <2>2, <3>2
      <4> QED
        <5>1. Rest(s, f, k) =
                <<16 * HexValue(s[N - k + 2]) + HexValue(s[N - k + 3])>> \o f[k - 3]
          <6>1. s[Len(s) - k + 1] = PERCENT /\ k >= 3 /\ Len(s) \in Nat
            BY <1>2, <3>2
          <6> QED
            BY <2>1, <6>1, RestEscape
        <5>2. Rest(u, g, k) =
                <<16 * HexValue(u[Len(u) - k + 2]) + HexValue(u[Len(u) - k + 3])>>
                  \o g[k - 3]
          BY <2>1, <3>2, <4>1, RestEscape
        <5> QED
          BY <2>2, <3>2, <5>1, <5>2
    <3>3. CASE k # 0 /\ ~ (k >= 3 /\ s[N - k + 1] = PERCENT)
      <4>1. ~ (k >= 3 /\ u[Len(u) - k + 1] = PERCENT)
        BY <2>2, <3>3
      <4> QED
        <5>1. Rest(s, f, k) = <<s[N - k + 1]>> \o f[k - 1]
          BY <1>2, <2>1, <3>3, RestByte
        <5>2. Rest(u, g, k) = <<u[Len(u) - k + 1]>> \o g[k - 1]
          BY <2>1, <3>3, <4>1, RestByte
        <5> QED
          BY <2>2, <3>3, <5>1, <5>2
    <3> QED
      BY <2>1, <3>1, <3>2, <3>3
  <2> QED
    BY <2>3, <2>4
<1> HIDE DEF T
<1>5. \A k \in 0..N : k \in T
  BY <1>2, <1>4, NumbersUpTo
<1>6. N \in T
  BY <1>2, <1>5
<1> QED
  BY <1>6 DEF T

LEMMA DecodeNothing ==
  Decode(<<>>) = <<>>
<1>1. <<>> \in Seq(Nat) /\ Len(<<>>) = 0
  OBVIOUS
<1>2. PICK r : /\ \A i \in 0..Len(<<>>) : r[i] = Rest(<<>>, r, i)
               /\ Decode(<<>>) = r[Len(<<>>)]
  BY <1>1, DecodeSteps
<1>3. r[0] = Rest(<<>>, r, 0) /\ Decode(<<>>) = r[0]
  BY <1>1, <1>2
<1> QED
  BY <1>3, RestNone

\* A byte that is no percent sign stands for itself.
LEMMA DecodeByte ==
  ASSUME NEW c \in Nat, c # PERCENT, NEW s \in Seq(Nat)
  PROVE  Decode(<<c>> \o s) = <<c>> \o Decode(s)
<1> DEFINE N == Len(s)
<1>1. PICK u : u = <<c>> \o s
  OBVIOUS
<1>2. <<c>> \in Seq(Nat) /\ Len(<<c>>) = 1 /\ <<c>>[1] = c /\ N \in Nat
  OBVIOUS
<1>3. u \in Seq(Nat) /\ Len(u) = N + 1 /\ u[1] = c
  <2>1. 1 \in 1..1 + N
    BY <1>2
  <2> QED
    BY <1>1, <1>2, <2>1, ConcatProperties
<1>4. PICK f : /\ \A i \in 0..N : f[i] = Rest(s, f, i)
               /\ Decode(s) = f[N]
  BY DecodeSteps
<1>5. PICK g : /\ \A i \in 0..N + 1 : g[i] = Rest(u, g, i)
               /\ Decode(u) = g[N + 1]
  BY <1>3, DecodeSteps
<1>6. f[N] = g[N]
  <2>1. RestsUpTo(Len(s), s, f) /\ RestsUpTo(Len(s), u, g)
    BY <1>2, <1>4, <1>5 DEF RestsUpTo
  <2> QED
    BY <1>1, <1>2, <2>1, DecodeBehind
<1>7. g[N + 1] = Rest(u, g, N + 1)
  BY <1>2, <1>5
<1>8. N + 1 \in Nat /\ N + 1 # 0 /\ (N + 1) - 1 = N /\ Len(u) \in Nat
      /\ Len(u) - (N + 1) + 1 = 1
  BY <1>2, <1>3
<1>9. Rest(u, g, N + 1) = <<c>> \o g[N]
  <2>1. ~ (N + 1 >= 3 /\ u[Len(u) - (N + 1) + 1] = PERCENT)
    BY <1>3, <1>8
  <2>2. Rest(u, g, N + 1) = <<u[Len(u) - (N + 1) + 1]>> \o g[(N + 1) - 1]
    BY <1>8, <2>1, RestByte
  <2> QED
    BY <1>3, <1>8, <2>2
<1> QED
  BY <1>1, <1>4, <1>5, <1>6, <1>7, <1>9

\* A percent sign stands with the two digits behind it for one byte.
LEMMA DecodeEscape ==
  ASSUME NEW h \in Nat, NEW l \in Nat, NEW s \in Seq(Nat)
  PROVE  Decode(<<PERCENT, h, l>> \o s)
           = <<16 * HexValue(h) + HexValue(l)>> \o Decode(s)
<1> DEFINE N == Len(s)
           a == <<PERCENT, h, l>>
<1>1. PICK u : u = a \o s
  OBVIOUS
<1>2. /\ a \in Seq(Nat) /\ Len(a) = 3 /\ N \in Nat
      /\ a[1] = PERCENT /\ a[2] = h /\ a[3] = l
  BY DEF PERCENT
<1> HIDE DEF a
<1>3. u \in Seq(Nat) /\ Len(u) = N + 3 /\ u[1] = PERCENT /\ u[2] = h /\ u[3] = l
  <2>1. 1 \in 1..3 + N /\ 2 \in 1..3 + N /\ 3 \in 1..3 + N
    BY <1>2
  <2>2. /\ u \in Seq(Nat) /\ Len(u) = Len(a) + N
        /\ \A i \in 1..Len(a) + N :
             u[i] = IF i <= Len(a) THEN a[i] ELSE s[i - Len(a)]
    BY <1>1, <1>2, ConcatProperties
  <2>3. u[1] = a[1] /\ u[2] = a[2] /\ u[3] = a[3]
    BY <1>2, <2>1, <2>2
  <2> QED
    BY <1>1, <1>2, <2>2, <2>3
<1>4. PICK f : /\ \A i \in 0..N : f[i] = Rest(s, f, i)
               /\ Decode(s) = f[N]
  BY DecodeSteps
<1>5. PICK g : /\ \A i \in 0..N + 3 : g[i] = Rest(u, g, i)
               /\ Decode(u) = g[N + 3]
  BY <1>3, DecodeSteps
<1>6. f[N] = g[N]
  <2>1. RestsUpTo(Len(s), s, f) /\ RestsUpTo(Len(s), u, g)
    BY <1>2, <1>4, <1>5 DEF RestsUpTo
  <2> QED
    BY <1>1, <1>2, <2>1, DecodeBehind
<1>7. g[N + 3] = Rest(u, g, N + 3)
  BY <1>2, <1>5
<1>8. /\ N + 3 \in Nat /\ N + 3 >= 3 /\ (N + 3) - 3 = N /\ Len(u) \in Nat
      /\ Len(u) - (N + 3) + 1 = 1 /\ Len(u) - (N + 3) + 2 = 2
      /\ Len(u) - (N + 3) + 3 = 3
  BY <1>2, <1>3
<1>9. Rest(u, g, N + 3) = <<16 * HexValue(u[2]) + HexValue(u[3])>> \o g[N]
  <2>1. u[Len(u) - (N + 3) + 1] = PERCENT
    BY <1>3, <1>8
  <2>2. Rest(u, g, N + 3) =
          <<16 * HexValue(u[Len(u) - (N + 3) + 2])
              + HexValue(u[Len(u) - (N + 3) + 3])>> \o g[(N + 3) - 3]
    BY <1>8, <2>1, RestEscape
  <2> QED
    BY <1>8, <2>2
<1> QED
  BY <1>1, <1>3, <1>4, <1>5, <1>6, <1>7, <1>9 DEF a

\* The digits that are written are the ones that are read.
LEMMA HexOfHex ==
  ASSUME NEW i \in 0..15
  PROVE  HexCode(i) \in Codes /\ HexCode(i) \in Nat /\ HexValue(HexCode(i)) = i
<1>1. CASE i \in 0..9
  <2>1. HexCode(i) = 48 + i
    BY <1>1 DEF HexCode
  <2> QED
    BY <1>1, <2>1 DEF HexValue, Codes, QUESTION, AMPERSAND, EQUALS
<1>2. CASE i \in 10..15
  <2>1. HexCode(i) = 87 + i
    BY <1>2 DEF HexCode
  <2> QED
    BY <1>2, <2>1 DEF HexValue, Codes, QUESTION, AMPERSAND, EQUALS
<1> QED
  BY <1>1, <1>2

-----------------------------------------------------------------------------
(* What was encoded is decoded.                                            *)

\* The sequence is how c is written.
WrittenAs(c, piece) ==
  /\ piece \in Seq(Codes)
  /\ \A t \in Seq(Nat) : Decode(piece \o t) = <<c>> \o Decode(t)

LEMMA ByteWritten ==
  ASSUME NEW c \in Codes, c # PERCENT
  PROVE  WrittenAs(c, <<c>>)
<1>1. c \in Nat /\ <<c>> \in Seq(Codes)
  BY DEF Codes
<1> QED
  BY <1>1, DecodeByte DEF WrittenAs

LEMMA AsciiWritten ==
  ASSUME NEW c \in Ascii
  PROVE  WrittenAs(c, EncodeChar(c))
<1>1. CASE IsAlphanumeric(c)
  <2>1. c \in Codes /\ c # PERCENT
    BY <1>1 DEF IsAlphanumeric, Codes, QUESTION, AMPERSAND, EQUALS, PERCENT
  <2>2. EncodeChar(c) = <<c>>
    BY <1>1 DEF EncodeChar
  <2> QED
    BY <2>1, <2>2, ByteWritten
<1>2. CASE ~ IsAlphanumeric(c)
  <2> DEFINE high == c \div 16
             low == c % 16
  <2>1. c < 128 /\ high \in 0..15 /\ low \in 0..15 /\ 16 * high + low = c
    BY DEF Ascii
  <2>2. PICK h, l : h = HexCode(high) /\ l = HexCode(low)
    OBVIOUS
  <2>3. EncodeChar(c) = <<PERCENT, h, l>>
    BY <1>2, <2>1, <2>2 DEF EncodeChar, SignedChar
  <2> HIDE DEF high, low
  <2>4. /\ h \in Codes /\ h \in Nat /\ HexValue(h) = high
        /\ l \in Codes /\ l \in Nat /\ HexValue(l) = low
    BY <2>1, <2>2, HexOfHex
  <2>5. PERCENT \in Codes
    BY DEF PERCENT, Codes, QUESTION, AMPERSAND, EQUALS
  <2>6. EncodeChar(c) \in Seq(Codes)
    BY <2>3, <2>4, <2>5
  <2>7. \A t \in Seq(Nat) : Decode(<<PERCENT, h, l>> \o t) = <<c>> \o Decode(t)
    BY <2>1, <2>4, DecodeEscape
  <2> QED
    BY <2>3, <2>6, <2>7 DEF WrittenAs
<1> QED
  BY <1>1, <1>2

LEMMA Associative ==
  ASSUME NEW a \in Seq(Nat), NEW b \in Seq(Nat), NEW c \in Seq(Nat)
  PROVE  (a \o b) \o c = a \o (b \o c)
  BY ConcatAssociative

LEMMA FirstOnly ==
  ASSUME NEW S, NEW s \in Seq(S), s # <<>>
  PROVE  SubSeq(s, 1, 1) = <<s[1]>>
<1>1. 1 \in 1..Len(s) /\ s[1] \in S
  OBVIOUS
<1>2. PICK a : a = SubSeq(s, 1, 1)
  OBVIOUS
<1>3. a \in Seq(S) /\ Len(a) = 1 /\ a[1] = s[1]
  BY <1>1, <1>2
<1>4. PICK b : b = <<s[1]>>
  OBVIOUS
<1>5. b \in Seq(S) /\ Len(b) = 1 /\ b[1] = s[1]
  BY <1>1, <1>4
<1>6. a = b
  BY <1>3, <1>5, SeqEqual
<1> QED
  BY <1>2, <1>4, <1>6

\* A string that is written byte by byte decodes to itself.
LEMMA DecodeWritten ==
  ASSUME NEW s \in Seq(Nat), NEW pieces \in Seq(Seq(Codes)),
         Len(pieces) = Len(s),
         \A i \in 1..Len(s) : WrittenAs(s[i], pieces[i])
  PROVE  FlattenSeq(pieces) \in Seq(Codes) /\ Decode(FlattenSeq(pieces)) = s
<1> DEFINE N == Len(s)
<1>1. N \in Nat /\ Len(pieces) = N /\ \A i \in 1..N : s[i] \in Nat
  OBVIOUS
<1>2. CASE N = 0
  <2>1. FlattenSeq(pieces) = pieces
    BY <1>1, <1>2 DEF FlattenSeq
  <2>2. pieces = <<>> /\ s = <<>>
    BY <1>1, <1>2
  <2>3. FlattenSeq(pieces) = <<>> /\ <<>> \in Seq(Codes)
    BY <2>1, <2>2
  <2>4. Decode(FlattenSeq(pieces)) = <<>>
    BY <2>3, DecodeNothing
  <2> QED
    BY <2>2, <2>3, <2>4
<1>3. CASE N # 0
  <2>1. pieces # <<>> /\ N >= 1
    BY <1>1, <1>3
  <2>2. PICK flat :
          /\ \A i \in 1..N : flat[i] \in Seq(Codes)
          /\ flat[1] = pieces[1]
          /\ \A i \in 2..N : flat[i] = flat[i - 1] \o pieces[i]
          /\ FlattenSeq(pieces) = flat[N]
    <3>1. \E flat :
            /\ \A i \in 1..Len(pieces) : flat[i] \in Seq(Codes)
            /\ flat[1] = pieces[1]
            /\ \A i \in 2..Len(pieces) : flat[i] = flat[i - 1] \o pieces[i]
            /\ FlattenSeq(pieces) = flat[Len(pieces)]
      BY <1>1, <2>1, FlattenSteps
    <3> QED
      BY <1>1, <3>1
  <2> DEFINE Read(k) ==
               k >= 1 => \A t \in Seq(Nat), d \in Seq(Nat) :
                 Decode(t) = d => Decode(flat[k] \o t) = SubSeq(s, 1, k) \o d
             T == {k \in 0..N : Read(k)}
  <2>3. ASSUME NEW k \in 0..N, \A j \in 0..N : j < k => j \in T
        PROVE  k \in T
    <3> SUFFICES ASSUME k >= 1, NEW t \in Seq(Nat), NEW d \in Seq(Nat), Decode(t) = d
                 PROVE  Decode(flat[k] \o t) = SubSeq(s, 1, k) \o d
      OBVIOUS
    <3>0. k \in 1..Len(s)
      BY <1>1
    <3>1. Decode(pieces[k] \o t) = <<s[k]>> \o d
      <4>1. WrittenAs(s[k], pieces[k])
        BY <3>0
      <4> QED
        BY <4>1 DEF WrittenAs
    <3>2. CASE k = 1
      <4>1. SubSeq(s, 1, 1) = <<s[1]>>
        <5>1. s # <<>>
          BY <1>1, <2>1
        <5> QED
          BY <5>1, FirstOnly
      <4> QED
        BY <2>2, <3>1, <3>2, <4>1
    <3>3. CASE k # 1
      <4>1. k \in 2..N /\ k - 1 \in 1..N /\ k - 1 \in 0..N /\ k - 1 < k
            /\ k - 1 >= 1 /\ k \in 1..N
        BY <1>1, <3>3
      <4>2. PICK a, p, u, e : /\ a = flat[k - 1] /\ p = pieces[k]
                              /\ u = p \o t /\ e = <<s[k]>> \o d
        OBVIOUS
      <4>3. a \in Seq(Nat) /\ p \in Seq(Nat) /\ Codes \subseteq Nat
        <5>1. a \in Seq(Codes) /\ p \in Seq(Codes) /\ Codes \subseteq Nat
          <6>1. flat[k - 1] \in Seq(Codes) /\ pieces[k] \in Seq(Codes)
            BY <1>1, <2>2, <4>1
          <6> QED
            BY <4>2, <6>1 DEF Codes
        <5> HIDE DEF Codes
        <5> QED
          BY <5>1, SeqMonotonic
      <4>4. u \in Seq(Nat) /\ e \in Seq(Nat) /\ <<s[k]>> \in Seq(Nat)
        BY <1>1, <4>1, <4>2, <4>3, ConcatProperties
      <4>5. flat[k] \o t = a \o u
        <5>1. flat[k] = a \o p
          BY <2>2, <4>1, <4>2
        <5>2. (a \o p) \o t = a \o (p \o t)
          <6>1. a \in Seq(Nat) /\ p \in Seq(Nat) /\ t \in Seq(Nat)
            BY <4>3
          <6> QED
            BY ONLY <6>1, Associative, ZenonT(60)
        <5> QED
          BY <4>2, <5>1, <5>2
      <4>6. Decode(a \o u) = SubSeq(s, 1, k - 1) \o e
        <5>1. Read(k - 1)
          BY <2>3, <4>1
        <5>2. Decode(u) = e
          BY <3>1, <4>2
        <5> QED
          BY <4>1, <4>2, <4>4, <5>1, <5>2
      <4>7. SubSeq(s, 1, k - 1) \o e = SubSeq(s, 1, k) \o d
        <5>1. SubSeq(s, 1, k) = SubSeq(s, 1, k - 1) \o <<s[k]>>
          <6>1. 1 \in 1..Len(s) /\ k \in 1..Len(s)
            BY <1>1, <4>1
          <6> QED
            BY <6>1, SubSeqRecursiveSecond
        <5>2. SubSeq(s, 1, k - 1) \in Seq(Nat)
          BY <1>1, <4>1
        <5>3. PICK v, w : v = SubSeq(s, 1, k - 1) /\ w = <<s[k]>>
          OBVIOUS
        <5>4. (v \o w) \o d = v \o (w \o d)
          BY <4>4, <5>2, <5>3, Associative, ZenonT(30)
        <5> QED
          BY <4>2, <5>1, <5>3, <5>4
      <4> QED
        BY <4>5, <4>6, <4>7
    <3> QED
      BY <3>2, <3>3
  <2>4. Read(N)
    <3> HIDE DEF T
    <3>1. \A k \in 0..N : k \in T
      BY <1>1, <2>3, NumbersUpTo
    <3>2. N \in T
      BY <1>1, <3>1
    <3> QED
      BY <3>2 DEF T
  <2>5. /\ <<>> \in Seq(Nat) /\ Decode(<<>>) = <<>> /\ flat[N] \o <<>> = flat[N]
        /\ SubSeq(s, 1, N) \o <<>> = s
    <3>1. flat[N] \in Seq(Codes)
      <4>1. N \in 1..N
        BY <1>1, <2>1
      <4> QED
        BY <2>2, <4>1
    <3>2. SubSeq(s, 1, N) = s
      BY SubSeqFull
    <3> QED
      BY <3>1, <3>2, DecodeNothing, ConcatEmptySeq
  <2>6. Decode(flat[N]) = s
    <3>1. Decode(flat[N] \o <<>>) = SubSeq(s, 1, N) \o <<>>
      BY <1>1, <2>1, <2>4, <2>5
    <3> QED
      BY <2>5, <3>1
  <2> QED
    BY <1>1, <2>1, <2>2, <2>6
<1> QED
  BY <1>2, <1>3

\* urlencode is undone by decoding, whatever ASCII it is given.
THEOREM UrlEncodeDecoded ==
  ASSUME NEW s \in Seq(Ascii)
  PROVE  UrlEncode(s) \in Seq(Codes) /\ Decode(UrlEncode(s)) = s
<1>1. PICK pieces : pieces = [i \in 1..Len(s) |-> EncodeChar(s[i])]
  OBVIOUS
<1>2. \A i \in 1..Len(s) : WrittenAs(s[i], pieces[i])
  BY <1>1, AsciiWritten
<1>3. s \in Seq(Nat)
  <2>1. Ascii \subseteq Nat
    BY DEF Ascii
  <2> HIDE DEF Ascii
  <2> QED
    BY <2>1, SeqMonotonic
<1>4. pieces \in Seq(Seq(Codes)) /\ Len(pieces) = Len(s)
  <2>1. \A i \in 1..Len(s) : pieces[i] \in Seq(Codes)
    BY <1>2 DEF WrittenAs
  <2> QED
    BY <1>1, <2>1
<1>5. FlattenSeq(pieces) \in Seq(Codes) /\ Decode(FlattenSeq(pieces)) = s
  BY <1>2, <1>3, <1>4, DecodeWritten
<1> QED
  BY <1>1, <1>5 DEF UrlEncode

\* So is a path, of which the slashes stay what they are.
THEOREM EncodePartsDecoded ==
  ASSUME NEW s \in Seq(Ascii)
  PROVE  EncodeParts(s) \in Seq(Codes) /\ Decode(EncodeParts(s)) = s
<1>1. PICK pieces : pieces = [i \in 1..Len(s) |->
                                IF s[i] = SLASH THEN <<SLASH>> ELSE EncodeChar(s[i])]
  OBVIOUS
<1>2. WrittenAs(SLASH, <<SLASH>>)
  <2>1. SLASH \in Codes /\ SLASH # PERCENT
    BY DEF SLASH, PERCENT, Codes, QUESTION, AMPERSAND, EQUALS
  <2> QED
    BY <2>1, ByteWritten
<1>3. \A i \in 1..Len(s) : WrittenAs(s[i], pieces[i])
  BY <1>1, <1>2, AsciiWritten
<1>4. s \in Seq(Nat)
  <2>1. Ascii \subseteq Nat
    BY DEF Ascii
  <2> HIDE DEF Ascii
  <2> QED
    BY <2>1, SeqMonotonic
<1>5. pieces \in Seq(Seq(Codes)) /\ Len(pieces) = Len(s)
  <2>1. \A i \in 1..Len(s) : pieces[i] \in Seq(Codes)
    BY <1>3 DEF WrittenAs
  <2> QED
    BY <1>1, <2>1
<1>6. FlattenSeq(pieces) \in Seq(Codes) /\ Decode(FlattenSeq(pieces)) = s
  BY <1>3, <1>4, <1>5, DecodeWritten
<1> QED
  BY <1>1, <1>6 DEF EncodeParts

-----------------------------------------------------------------------------
(* Taking a string apart where a separator first comes.                    *)

LEMMA FirstOfNone ==
  ASSUME NEW s \in Seq(Nat), NEW c \in Nat, \A i \in 1..Len(s) : s[i] # c
  PROVE  Before(s, c) = s /\ After(s, c) = <<>>
<1>1. Len(s) \in Nat /\ FirstOf(s, c) = Len(s) + 1
  BY DEF FirstOf
<1>2. SubSeq(s, 1, Len(s)) = s
  BY SubSeqFull
<1>3. FirstOf(s, c) - 1 = Len(s) /\ FirstOf(s, c) + 1 = Len(s) + 2
  BY <1>1
<1>4. SubSeq(s, Len(s) + 2, Len(s)) = <<>>
  <2>1. Len(s) + 2 \in Int /\ Len(s) \in Int /\ Len(s) < Len(s) + 2
    BY <1>1
  <2> QED
    BY <2>1, SubSeqEmpty
<1> QED
  BY <1>2, <1>3, <1>4 DEF Before, After

LEMMA FirstOfSeparator ==
  ASSUME NEW s \in Seq(Nat), NEW c \in Nat, \A i \in 1..Len(s) : s[i] # c,
         NEW t \in Seq(Nat)
  PROVE  Before(s \o (<<c>> \o t), c) = s /\ After(s \o (<<c>> \o t), c) = t
<1> DEFINE N == Len(s)
           M == Len(t)
<1>1. PICK x, u : x = <<c>> \o t /\ u = s \o x
  OBVIOUS
<1>2. N \in Nat /\ M \in Nat
  OBVIOUS
<1>3. /\ x \in Seq(Nat) /\ Len(x) = M + 1 /\ x[1] = c
      /\ \A i \in 1..M : x[i + 1] = t[i]
  <2>1. <<c>> \in Seq(Nat) /\ Len(<<c>>) = 1 /\ <<c>>[1] = c
    OBVIOUS
  <2>2. /\ x \in Seq(Nat) /\ Len(x) = 1 + M
        /\ \A i \in 1..1 + M : x[i] = IF i <= 1 THEN c ELSE t[i - 1]
    <3>1. /\ x \in Seq(Nat) /\ Len(x) = Len(<<c>>) + M
          /\ \A i \in 1..Len(<<c>>) + M :
               x[i] = IF i <= Len(<<c>>) THEN <<c>>[i] ELSE t[i - Len(<<c>>)]
      BY <1>1, <2>1, ConcatProperties
    <3> QED
      BY <2>1, <3>1
  <2>3. 1 \in 1..1 + M /\ 1 <= 1
    BY <1>2
  <2>4. \A i \in 1..M : i + 1 \in 1..1 + M /\ ~ i + 1 <= 1 /\ (i + 1) - 1 = i
    BY <1>2
  <2> QED
    BY <1>2, <2>2, <2>3, <2>4, SMTT(30)
<1>4. /\ u \in Seq(Nat) /\ Len(u) = N + (M + 1)
      /\ \A i \in 1..N + (M + 1) : u[i] = IF i <= N THEN s[i] ELSE x[i - N]
  BY <1>1, <1>3, ConcatProperties
<1>5. u[N + 1] = c /\ N + 1 \in 1..Len(u)
  <2>1. N + 1 \in 1..N + (M + 1) /\ ~ N + 1 <= N /\ (N + 1) - N = 1
    BY <1>2
  <2> QED
    BY <1>3, <1>4, <2>1
<1>6. \A i \in 1..N : u[i] = s[i] /\ u[i] # c
  <2>1. \A i \in 1..N : i \in 1..N + (M + 1) /\ i <= N
    BY <1>2
  <2> QED
    BY <1>4, <2>1
<1>7. \A i \in 1..M : u[i + (N + 1)] = t[i]
  <2>1. \A i \in 1..M : /\ i + (N + 1) \in 1..N + (M + 1) /\ ~ i + (N + 1) <= N
                        /\ (i + (N + 1)) - N = i + 1
    BY <1>2
  <2> QED
    BY <1>3, <1>4, <2>1
<1>8. FirstOf(u, c) = N + 1
  <2> DEFINE places == {i \in 1..Len(u) : u[i] = c}
  <2>1. places \subseteq Nat /\ N + 1 \in places
    <3>1. N + 1 \in places
      BY ONLY <1>5
    <3> QED
      BY <3>1
  <2>2. \A i \in places : i \in Nat /\ N + 1 <= i
    BY <1>2, <1>4, <1>6
  <2>3. FirstOf(u, c) = IF places = {} THEN Len(u) + 1 ELSE Min(places)
    BY DEF FirstOf
  <2> HIDE DEF places
  <2>4. PICK least : least = Min(places)
    OBVIOUS
  <2>5. least \in places /\ \A i \in places : least <= i
    BY <2>1, <2>2, <2>4 DEF Min
  <2>6. least <= N + 1 /\ N + 1 <= least /\ least \in Nat
    BY <2>1, <2>2, <2>5
  <2>7. least = N + 1
    BY <1>2, <2>6
  <2> QED
    BY <2>1, <2>3, <2>4, <2>7
<1>9. Before(u, c) = s
  <2>1. PICK b : b = SubSeq(u, 1, N)
    OBVIOUS
  <2>2. \A i \in 1..N : i \in 1..Len(u)
    BY <1>2, <1>4
  <2>3. b \in Seq(Nat) /\ Len(b) = N /\ \A i \in 1..N : b[i] = u[i]
    BY <1>2, <1>4, <2>1, <2>2
  <2>4. b = s
    BY <1>6, <2>3, SeqEqual
  <2>5. FirstOf(u, c) - 1 = N
    BY <1>2, <1>8
  <2> QED
    BY <2>1, <2>4, <2>5 DEF Before
<1>10. After(u, c) = t
  <2>1. PICK b : b = SubSeq(u, N + 2, Len(u))
    OBVIOUS
  <2>2. /\ b \in Seq(Nat) /\ Len(b) = M
        /\ \A i \in 1..M : b[i] = u[i + (N + 1)]
    <3>1. /\ \A i \in N + 2..Len(u) : u[i] \in Nat
          /\ N + 2 \in Int /\ Len(u) \in Int
      BY <1>2, <1>4, SMTT(30)
    <3>2. /\ b \in Seq(Nat)
          /\ Len(b) = IF N + 2 <= Len(u) THEN Len(u) - (N + 2) + 1 ELSE 0
          /\ \A i \in 1..Len(u) - (N + 2) + 1 : b[i] = u[(N + 2) + i - 1]
      BY <2>1, <3>1, SubSeqProperties
    <3>3. /\ Len(u) - (N + 2) + 1 = M
          /\ (IF N + 2 <= Len(u) THEN Len(u) - (N + 2) + 1 ELSE 0) = M
          /\ \A i \in 1..M : (N + 2) + i - 1 = i + (N + 1)
      BY <1>2, <1>4
    <3> QED
      BY <3>2, <3>3
  <2>3. b = t
    BY <1>7, <2>2, SeqEqual
  <2>4. FirstOf(u, c) + 1 = N + 2
    BY <1>2, <1>8
  <2> QED
    BY <2>1, <2>3, <2>4 DEF After
<1> QED
  BY <1>1, <1>9, <1>10

-----------------------------------------------------------------------------
(* What the service reads.                                                 *)

\* What a field of a query consists of.
FieldCodes == Nat \ {QUESTION, AMPERSAND}

\* A name and a value, out of which the service makes a pair.
Field(f, name, value) ==
  /\ f \in Seq(FieldCodes) /\ f # <<>>
  /\ <<Before(f, EQUALS), Decode(After(f, EQUALS))>> = <<<<name>>, value>>

LEMMA CodesKinds ==
  /\ Codes \subseteq Nat /\ Codes \subseteq FieldCodes /\ FieldCodes \subseteq Nat
  /\ QUESTION \in Nat /\ AMPERSAND \in Nat /\ EQUALS \in Nat
  /\ QUESTION \notin Codes /\ EQUALS \notin Codes
  /\ QUESTION \notin FieldCodes /\ AMPERSAND \notin FieldCodes
  /\ AMPERSAND # QUESTION
  /\ ParameterPath \in Codes /\ ParameterMarker \in Codes /\ EQUALS \in FieldCodes
  /\ ParameterPath # ParameterMarker
  BY DEF Codes, FieldCodes, QUESTION, AMPERSAND, EQUALS, ParameterPath,
         ParameterMarker

\* A string without the separator, as FirstOfNone and FirstOfSeparator want it.
LEMMA SeparatorFree ==
  ASSUME NEW S, S \subseteq Nat, NEW c, c \notin S, NEW s \in Seq(S)
  PROVE  s \in Seq(Nat) /\ \A i \in 1..Len(s) : s[i] # c
<1>1. s \in Seq(Nat)
  BY SeqMonotonic
<1>2. \A i \in 1..Len(s) : s[i] \in S
  OBVIOUS
<1> QED
  BY <1>1, <1>2

LEMMA AssignField ==
  ASSUME NEW name \in Codes, NEW value \in Seq(Ascii)
  PROVE  Field(Assign(name, value), name, value)
<1>1. PICK e : e = UrlEncode(value)
  OBVIOUS
<1>2. e \in Seq(Codes) /\ Decode(e) = value
  BY <1>1, UrlEncodeDecoded
<1>3. PICK f : f = <<name, EQUALS>> \o e
  OBVIOUS
<1>4. name \in Nat /\ name # EQUALS /\ name \in FieldCodes /\ EQUALS \in FieldCodes
      /\ EQUALS \in Nat
  BY CodesKinds
<1>5. e \in Seq(FieldCodes) /\ e \in Seq(Nat)
  BY <1>2, CodesKinds, SeqMonotonic
<1>6. f \in Seq(FieldCodes) /\ Len(f) = 2 + Len(e) /\ Len(e) \in Nat
  <2>1. PICK ne : ne = <<name, EQUALS>>
    OBVIOUS
  <2>2. ne \in Seq(FieldCodes) /\ Len(ne) = 2
    BY <1>4, <2>1
  <2> QED
    BY <1>3, <1>5, <2>1, <2>2, ConcatProperties
<1>7. f # <<>>
  BY <1>6
<1>8. f = <<name>> \o (<<EQUALS>> \o e)
  <2>1. PICK n, q : n = <<name>> /\ q = <<EQUALS>>
    OBVIOUS
  <2>2. n \in Seq(Nat) /\ q \in Seq(Nat)
    BY <1>4, <2>1
  <2>3. <<name, EQUALS>> = n \o q
    BY <1>4, <2>1
  <2>4. (n \o q) \o e = n \o (q \o e)
    BY ONLY <1>5, <2>2, Associative
  <2> QED
    BY <1>3, <2>1, <2>3, <2>4
<1>9. Before(f, EQUALS) = <<name>> /\ After(f, EQUALS) = e
  <2>1. PICK n : n = <<name>>
    OBVIOUS
  <2>2. n \in Seq(Nat) /\ \A i \in 1..Len(n) : n[i] # EQUALS
    BY <1>4, <2>1
  <2>3. /\ Before(n \o (<<EQUALS>> \o e), EQUALS) = n
        /\ After(n \o (<<EQUALS>> \o e), EQUALS) = e
    BY ONLY <1>4, <1>5, <2>2, FirstOfSeparator
  <2> QED
    BY <1>8, <2>1, <2>3
<1>10. f = Assign(name, value)
  BY <1>1, <1>3 DEF Assign
<1> QED
  BY <1>2, <1>6, <1>7, <1>9, <1>10 DEF Field

\* The three kinds of a query.
LEMMA NoFields ==
  Fields(<<>>) = {}
<1>1. <<>> \in Seq(Nat) /\ Len(<<>>) = 0
  OBVIOUS
<1>2. \A i \in 1..Len(<<>>) : <<>>[i] # AMPERSAND
  BY <1>1
<1>3. Before(<<>>, AMPERSAND) = <<>> /\ After(<<>>, AMPERSAND) = <<>>
  BY ONLY <1>1, <1>2, CodesKinds, FirstOfNone
<1> QED
  BY <1>3 DEF Fields

LEMMA OneField ==
  ASSUME NEW f \in Seq(FieldCodes), f # <<>>
  PROVE  Fields(f) = {f}
<1>1. f \in Seq(Nat) /\ \A i \in 1..Len(f) : f[i] # AMPERSAND
  BY CodesKinds, SeparatorFree
<1>2. Before(f, AMPERSAND) = f /\ After(f, AMPERSAND) = <<>>
  BY <1>1, CodesKinds, FirstOfNone
<1> QED
  BY <1>2 DEF Fields

LEMMA TwoFields ==
  ASSUME NEW f \in Seq(FieldCodes), f # <<>>, NEW g \in Seq(FieldCodes), g # <<>>
  PROVE  Fields(f \o (<<AMPERSAND>> \o g)) = {f, g}
<1>1. /\ f \in Seq(Nat) /\ \A i \in 1..Len(f) : f[i] # AMPERSAND
      /\ g \in Seq(Nat)
  BY CodesKinds, SeparatorFree
<1>2. /\ Before(f \o (<<AMPERSAND>> \o g), AMPERSAND) = f
      /\ After(f \o (<<AMPERSAND>> \o g), AMPERSAND) = g
  BY <1>1, CodesKinds, FirstOfSeparator
<1> QED
  BY <1>2 DEF Fields

\* The URL without a query, and with one.
LEMMA NoQuery ==
  ASSUME NEW a \in Seq(Codes)
  PROVE  ServiceReads(a) = [resource |-> Decode(a), query |-> {}]
<1>1. a \in Seq(Nat) /\ \A i \in 1..Len(a) : a[i] # QUESTION
  BY CodesKinds, SeparatorFree
<1>2. Before(a, QUESTION) = a /\ After(a, QUESTION) = <<>>
  BY <1>1, CodesKinds, FirstOfNone
<1>3. Fields(After(a, QUESTION)) = {}
  BY <1>2, NoFields
<1> QED
  BY <1>2, <1>3 DEF ServiceReads

LEMMA SomeQuery ==
  ASSUME NEW a \in Seq(Codes), NEW q \in Seq(Nat)
  PROVE  ServiceReads(a \o (<<QUESTION>> \o q)) =
           [resource |-> Decode(a),
            query |-> {<<Before(f, EQUALS), Decode(After(f, EQUALS))>> :
                         f \in Fields(q)}]
<1>1. a \in Seq(Nat) /\ \A i \in 1..Len(a) : a[i] # QUESTION
  BY CodesKinds, SeparatorFree
<1>2. /\ Before(a \o (<<QUESTION>> \o q), QUESTION) = a
      /\ After(a \o (<<QUESTION>> \o q), QUESTION) = q
  BY <1>1, CodesKinds, FirstOfSeparator
<1> QED
  BY <1>2 DEF ServiceReads

\* A path, its container and what is behind it.
LEMMA PathParts ==
  ASSUME NEW S, NEW path \in Seq(S), IsPath(path)
  PROVE  /\ Len(path) \in Nat /\ Len(path) >= 1
         /\ ContainerEnd(path) \in 2..Len(path) + 1
         /\ ContainerEnd(path) # Len(path) + 1 => path[ContainerEnd(path)] = SLASH
         /\ path[1] = SLASH
         /\ ContainerOf(path) \in Seq(S) /\ InContainer(path) \in Seq(S)
         /\ Len(ContainerOf(path)) = ContainerEnd(path) - 2
         /\ \A i \in 1..ContainerEnd(path) - 2 : ContainerOf(path)[i] = path[i + 1]
         /\ Len(InContainer(path)) =
              IF ContainerEnd(path) < Len(path) THEN Len(path) - ContainerEnd(path)
              ELSE 0
         /\ \A i \in 1..Len(path) - ContainerEnd(path) :
              InContainer(path)[i] = path[i + ContainerEnd(path)]
<1> DEFINE N == Len(path)
           slashes == {i \in 2..N : path[i] = SLASH}
<1>1. N \in Nat /\ N >= 1 /\ path[1] = SLASH
  <2>1. path # <<>> /\ path[1] = SLASH
    BY DEF IsPath
  <2> QED
    BY <2>1
<1>2. PICK end : end = ContainerEnd(path)
  OBVIOUS
<1>3. end \in 2..N + 1 /\ (end # N + 1 => path[end] = SLASH)
  <2>1. end = IF slashes = {} THEN N + 1 ELSE Min(slashes)
    BY <1>2 DEF ContainerEnd
  <2>2. CASE slashes = {}
    BY <1>1, <2>1, <2>2
  <2>3. CASE slashes # {}
    <3>1. slashes \subseteq Nat
      OBVIOUS
    <3>2. Min(slashes) \in slashes
      <4> HIDE DEF slashes
      <4>1. \E n \in slashes : \A m \in slashes : n <= m
        BY <2>3, <3>1, LeastNumber
      <4> QED
        BY <4>1 DEF Min
    <3> QED
      BY <1>1, <2>1, <2>3, <3>2
  <2> QED
    BY <2>2, <2>3
<1>4. PICK c : c = ContainerOf(path)
  OBVIOUS
<1>5. c \in Seq(S) /\ Len(c) = end - 2 /\ \A i \in 1..end - 2 : c[i] = path[i + 1]
  <2>1. 2 \in Int /\ end - 1 \in Int /\ \A i \in 2..end - 1 : path[i] \in S
    BY <1>1, <1>3
  <2>2. /\ c \in Seq(S)
        /\ Len(c) = IF 2 <= end - 1 THEN (end - 1) - 2 + 1 ELSE 0
        /\ \A i \in 1..(end - 1) - 2 + 1 : c[i] = path[2 + i - 1]
    BY <1>2, <1>4, <2>1, SubSeqProperties DEF ContainerOf
  <2>3. /\ (end - 1) - 2 + 1 = end - 2
        /\ (IF 2 <= end - 1 THEN (end - 1) - 2 + 1 ELSE 0) = end - 2
        /\ \A i \in 1..end - 2 : 2 + i - 1 = i + 1
    BY <1>1, <1>3
  <2> QED
    BY <2>2, <2>3
<1>6. PICK b : b = InContainer(path)
  OBVIOUS
<1>7. /\ b \in Seq(S) /\ Len(b) = IF end < N THEN N - end ELSE 0
      /\ \A i \in 1..N - end : b[i] = path[i + end]
  <2>1. N \in Int /\ end + 1 \in Int /\ \A i \in end + 1..N : path[i] \in S
    BY <1>1, <1>3
  <2>2. /\ b \in Seq(S)
        /\ Len(b) = IF end + 1 <= N THEN N - (end + 1) + 1 ELSE 0
        /\ \A i \in 1..N - (end + 1) + 1 : b[i] = path[(end + 1) + i - 1]
    BY <1>2, <1>6, <2>1, SubSeqProperties DEF InContainer
  <2>3. /\ N - (end + 1) + 1 = N - end
        /\ (IF end + 1 <= N THEN N - (end + 1) + 1 ELSE 0)
             = IF end < N THEN N - end ELSE 0
        /\ \A i \in 1..N - end : (end + 1) + i - 1 = i + end
    BY <1>1, <1>3
  <2> QED
    BY <2>2, <2>3
<1> HIDE DEF N, slashes
<1> QED
  BY <1>1, <1>2, <1>3, <1>4, <1>5, <1>6, <1>7 DEF N

\* The first part of the URL stands for the resource.
LEMMA PathUrlDecoded ==
  ASSUME NEW path \in Seq(Ascii), IsPath(path), NEW type \in {"file", "path"},
         NEW marker
  PROVE  /\ PathUrl(path, type) \in Seq(Codes)
         /\ Decode(PathUrl(path, type)) = Meant(path, type, marker).resource
<1>1. CASE path = Root
  <2>1. PathUrl(path, type) = <<>> /\ Meant(path, type, marker).resource = <<>>
    BY <1>1 DEF PathUrl, Meant
  <2> QED
    BY <2>1, DecodeNothing, EmptySeq
<1>2. CASE path # Root /\ type = "file"
  <2>1. PathUrl(path, type) = EncodeParts(path)
    BY <1>2 DEF PathUrl
  <2>2. Meant(path, type, marker).resource = path
    BY <1>2 DEF Meant
  <2> QED
    BY <2>1, <2>2, EncodePartsDecoded
<1>3. CASE path # Root /\ type = "path"
  <2>1. PICK c : c = ContainerOf(path)
    OBVIOUS
  <2>2. c \in Seq(Ascii)
    BY <2>1, PathParts
  <2>3. PICK e : e = UrlEncode(c)
    OBVIOUS
  <2>4. e \in Seq(Codes) /\ Decode(e) = c
    BY <2>2, <2>3, UrlEncodeDecoded
  <2>5. WrittenAs(SLASH, Root)
    <3>1. SLASH \in Codes /\ SLASH # PERCENT
      BY DEF SLASH, PERCENT, Codes, QUESTION, AMPERSAND, EQUALS
    <3> QED
      BY <3>1, ByteWritten DEF Root
  <2>6. e \in Seq(Nat)
    BY <2>4, CodesKinds, SeparatorFree
  <2>7. Root \o e \in Seq(Codes) /\ Decode(Root \o e) = Root \o c
    BY <2>4, <2>5, <2>6, ConcatProperties DEF WrittenAs, Root
  <2>8. PathUrl(path, type) = Root \o e
    BY <1>3, <2>1, <2>3 DEF PathUrl
  <2>9. Meant(path, type, marker).resource = Root \o c
    BY <1>3, <2>1 DEF Meant
  <2> QED
    BY <2>7, <2>8, <2>9
<1> QED
  BY <1>1, <1>2, <1>3

\* The service takes the URL for the path and the marker that were meant,
\* whatever ASCII is in them: no slash, separator or percent sign in a name is
\* taken for one of the URL (mosso_construct_request_url, simple_curl_urlencode).
THEOREM UrlReadAsMeant ==
  ASSUME NEW path \in Seq(Ascii), IsPath(path), NEW type \in {"file", "path"},
         NEW marker \in Seq(Ascii)
  PROVE  ServiceReads(ConstructRequestUrl(path, type, marker))
           = Meant(path, type, marker)
<1> DEFINE below == path # Root /\ type = "path"
           behind == marker # <<>>
<1>1. PICK a, v, f, g, url :
        /\ a = PathUrl(path, type)
        /\ v = InContainer(path)
        /\ f = Assign(ParameterPath, v)
        /\ g = Assign(ParameterMarker, marker)
        /\ url = ConstructRequestUrl(path, type, marker)
  OBVIOUS
<1>2. a \in Seq(Codes) /\ Decode(a) = Meant(path, type, marker).resource
  BY <1>1, PathUrlDecoded
<1>3. v \in Seq(Ascii)
  BY <1>1, PathParts
<1>4. Field(f, ParameterPath, v) /\ Field(g, ParameterMarker, marker)
  BY <1>1, <1>3, AssignField, CodesKinds
<1>5. PICK meant : meant = Meant(path, type, marker)
  OBVIOUS
<1>6. PICK query :
        query = (IF below THEN {<<<<ParameterPath>>, v>>} ELSE {})
                  \cup (IF behind THEN {<<<<ParameterMarker>>, marker>>} ELSE {})
  OBVIOUS
<1>7. meant = [resource |-> Decode(a), query |-> query]
  <2>1. /\ meant = [resource |-> meant.resource, query |-> meant.query]
        /\ meant.query = query
    BY <1>1, <1>5, <1>6 DEF Meant
  <2> QED
    BY <1>2, <1>5, <2>1
<1>8. /\ f \in Seq(FieldCodes) /\ f # <<>> /\ f \in Seq(Nat)
      /\ g \in Seq(FieldCodes) /\ g # <<>> /\ g \in Seq(Nat)
  BY <1>4, CodesKinds, SeqMonotonic DEF Field
<1>9. url = a \o WithMarker(PathParameter(path, type), marker)
  BY <1>1 DEF ConstructRequestUrl
<1>10. ASSUME below
       PROVE  PathParameter(path, type) = <<QUESTION>> \o f
  BY <1>1, <1>10 DEF PathParameter
<1>11. ASSUME ~ below
       PROVE  PathParameter(path, type) = <<>>
  BY <1>11 DEF PathParameter
<1>12. /\ <<QUESTION>> \in Seq(Nat) /\ <<AMPERSAND>> \in Seq(Nat)
       /\ \A q \in Seq(Nat) : <<QUESTION>> \o q \in Seq(Nat) /\ <<QUESTION>> \o q # <<>>
  <2>1. PICK m : m = <<QUESTION>>
    OBVIOUS
  <2>2. m \in Seq(Nat) /\ <<AMPERSAND>> \in Seq(Nat) /\ m # <<>>
    BY <2>1, CodesKinds
  <2>3. \A q \in Seq(Nat) : m \o q \in Seq(Nat) /\ m \o q # <<>>
    BY <2>2, ConcatProperties, ConcatEqualIffEmpty
  <2> QED
    BY <2>1, <2>2, <2>3
<1>13. CASE ~ below /\ ~ behind
  <2>1. url = a \o <<>>
    BY <1>9, <1>11, <1>13 DEF WithMarker
  <2>2. url = a
    BY <1>2, <2>1, ConcatEmptySeq
  <2>3. query = {}
    BY <1>6, <1>13
  <2> QED
    BY <1>1, <1>2, <1>5, <1>7, <2>2, <2>3, NoQuery
<1>14. CASE below /\ ~ behind
  <2>1. url = a \o (<<QUESTION>> \o f)
    BY <1>9, <1>10, <1>14 DEF WithMarker
  <2>2. Fields(f) = {f} /\ query = {<<<<ParameterPath>>, v>>}
    BY <1>6, <1>8, <1>14, OneField
  <2>3. ServiceReads(url) =
          [resource |-> Decode(a),
           query |-> {<<Before(x, EQUALS), Decode(After(x, EQUALS))>> :
                        x \in Fields(f)}]
    BY <1>2, <1>8, <2>1, SomeQuery
  <2>4. {<<Before(x, EQUALS), Decode(After(x, EQUALS))>> : x \in Fields(f)} = query
    BY <1>4, <2>2 DEF Field
  <2> QED
    BY <1>1, <1>5, <1>7, <2>3, <2>4
<1>15. CASE ~ below /\ behind
  <2>1. url = a \o (<<QUESTION>> \o g)
    <3>1. WithMarker(<<>>, marker) = (<<>> \o <<QUESTION>>) \o g
      BY <1>1, <1>15 DEF WithMarker
    <3>2. <<>> \o <<QUESTION>> = <<QUESTION>>
      BY <1>12, ConcatEmptySeq
    <3> QED
      BY <1>9, <1>11, <1>15, <3>1, <3>2
  <2>2. Fields(g) = {g} /\ query = {<<<<ParameterMarker>>, marker>>}
    BY <1>6, <1>8, <1>15, OneField
  <2>3. ServiceReads(url) =
          [resource |-> Decode(a),
           query |-> {<<Before(x, EQUALS), Decode(After(x, EQUALS))>> :
                        x \in Fields(g)}]
    BY <1>2, <1>8, <2>1, SomeQuery
  <2>4. {<<Before(x, EQUALS), Decode(After(x, EQUALS))>> : x \in Fields(g)} = query
    BY <1>4, <2>2 DEF Field
  <2> QED
    BY <1>1, <1>5, <1>7, <2>3, <2>4
<1>16. CASE below /\ behind
  <2>1. PICK q : q = f \o (<<AMPERSAND>> \o g)
    OBVIOUS
  <2>2. <<AMPERSAND>> \o g \in Seq(Nat) /\ q \in Seq(Nat)
    BY <1>8, <1>12, <2>1, ConcatProperties
  <2>3. url = a \o (<<QUESTION>> \o q)
    <3>1. PICK first : first = <<QUESTION>> \o f
      OBVIOUS
    <3>2. first \in Seq(Nat) /\ first # <<>>
      BY <1>8, <1>12, <3>1
    <3>3. WithMarker(first, marker) = (first \o <<AMPERSAND>>) \o g
      BY <1>1, <1>16, <3>2 DEF WithMarker
    <3>4. PICK x, y : x = <<QUESTION>> /\ y = <<AMPERSAND>>
      OBVIOUS
    <3>5. x \in Seq(Nat) /\ y \in Seq(Nat) /\ f \in Seq(Nat) /\ g \in Seq(Nat)
      BY <1>8, <1>12, <3>4
    <3>6. (first \o y) \o g = first \o (y \o g)
      BY ONLY <3>2, <3>5, Associative
    <3>7. (x \o f) \o (y \o g) = x \o (f \o (y \o g))
      <4>1. y \o g \in Seq(Nat)
        BY <2>2, <3>4
      <4> QED
        BY ONLY <3>5, <4>1, Associative, ZenonT(30)
    <3> QED
      BY <1>9, <1>10, <1>16, <2>1, <3>1, <3>3, <3>4, <3>6, <3>7
  <2>4. Fields(q) = {f, g}
    BY <1>8, <2>1, TwoFields
  <2>5. query = {<<<<ParameterPath>>, v>>, <<<<ParameterMarker>>, marker>>}
    BY <1>6, <1>16
  <2>6. ServiceReads(url) =
          [resource |-> Decode(a),
           query |-> {<<Before(x, EQUALS), Decode(After(x, EQUALS))>> :
                        x \in Fields(q)}]
    BY <1>2, <2>2, <2>3, SomeQuery
  <2>7. {<<Before(x, EQUALS), Decode(After(x, EQUALS))>> : x \in Fields(q)} = query
    <3>1. PICK one, two : /\ one = <<<<ParameterPath>>, v>>
                          /\ two = <<<<ParameterMarker>>, marker>>
      OBVIOUS
    <3>2. /\ <<Before(f, EQUALS), Decode(After(f, EQUALS))>> = one
          /\ <<Before(g, EQUALS), Decode(After(g, EQUALS))>> = two
      BY <1>4, <3>1 DEF Field
    <3>3. {<<Before(x, EQUALS), Decode(After(x, EQUALS))>> : x \in {f, g}}
            = {<<Before(f, EQUALS), Decode(After(f, EQUALS))>>,
               <<Before(g, EQUALS), Decode(After(g, EQUALS))>>}
      OBVIOUS
    <3> QED
      BY <2>4, <2>5, <3>1, <3>2, <3>3
  <2> QED
    BY <1>1, <1>5, <1>7, <2>6, <2>7
<1> QED
  BY <1>13, <1>14, <1>15, <1>16

-----------------------------------------------------------------------------
(* Bytes that are not ASCII.                                               *)

Bytes == 0..255

LEMMA FlattenTypes ==
  ASSUME NEW S, NEW seqs \in Seq(Seq(S))
  PROVE  FlattenSeq(seqs) \in Seq(S)
<1>1. CASE seqs = <<>>
  <2>1. FlattenSeq(seqs) = <<>>
    BY <1>1 DEF FlattenSeq
  <2> QED
    BY <2>1, EmptySeq
<1>2. CASE seqs # <<>>
  <2>1. PICK flat :
          /\ \A i \in 1..Len(seqs) : flat[i] \in Seq(S)
          /\ FlattenSeq(seqs) = flat[Len(seqs)]
    BY <1>2, FlattenSteps
  <2>2. Len(seqs) \in 1..Len(seqs)
    BY <1>2
  <2> QED
    BY <2>1, <2>2
<1> QED
  BY <1>1, <1>2

LEMMA HexCodeTypes ==
  ASSUME NEW i
  PROVE  HexCode(i) \in Nat
<1>1. CASE i \in 0..9
  BY <1>1 DEF HexCode
<1>2. CASE i \in 10..15
  BY <1>2 DEF HexCode
<1>3. CASE ~ (i \in 0..9) /\ ~ (i \in 10..15)
  BY <1>3 DEF HexCode, GARBAGE
<1> QED
  BY <1>1, <1>2, <1>3

LEMMA EncodeCharTypes ==
  ASSUME NEW c \in Bytes
  PROVE  /\ EncodeChar(c) \in Seq(Nat)
         /\ c >= 128 => GARBAGE \in ToSet(EncodeChar(c))
<1>1. c \in Nat /\ c <= 255 /\ PERCENT \in Nat
  BY DEF Bytes, PERCENT
<1>2. CASE IsAlphanumeric(c)
  <2>1. EncodeChar(c) = <<c>> /\ ~ c >= 128
    BY <1>1, <1>2 DEF EncodeChar, IsAlphanumeric
  <2> QED
    BY <1>1, <2>1
<1>3. CASE ~ IsAlphanumeric(c)
  <2>1. PICK high, low : /\ high = SignedChar(c) \div 16
                         /\ low = SignedChar(c) % 16
    OBVIOUS
  <2>2. PICK h, l : h = HexCode(high) /\ l = HexCode(low)
    OBVIOUS
  <2>3. EncodeChar(c) = <<PERCENT, h, l>>
    BY <1>3, <2>1, <2>2 DEF EncodeChar
  <2>4. h \in Nat /\ l \in Nat
    BY <2>2, HexCodeTypes
  <2>5. c >= 128 => h = GARBAGE
    <3> SUFFICES ASSUME c >= 128
                 PROVE  h = GARBAGE
      OBVIOUS
    <3>1. SignedChar(c) = c - 256
      BY <1>1 DEF SignedChar
    <3>2. high < 0
      BY <1>1, <2>1, <3>1
    <3>3. ~ (high \in 0..9) /\ ~ (high \in 10..15)
      BY <3>2
    <3> QED
      BY <2>2, <3>3 DEF HexCode
  <2>6. PICK e : e = <<PERCENT, h, l>>
    OBVIOUS
  <2>7. e \in Seq(Nat) /\ 2 \in DOMAIN e /\ e[2] = h
    BY <1>1, <2>4, <2>6
  <2>8. c >= 128 => GARBAGE \in ToSet(e)
    BY <2>5, <2>7 DEF ToSet
  <2> QED
    BY <2>3, <2>6, <2>7, <2>8
<1> QED
  BY <1>2, <1>3

LEMMA UrlEncodeGarbage ==
  ASSUME NEW s \in Seq(Bytes)
  PROVE  /\ UrlEncode(s) \in Seq(Nat)
         /\ ~ IsAscii(s) => GARBAGE \in ToSet(UrlEncode(s))
<1>1. PICK pieces : pieces = [i \in 1..Len(s) |-> EncodeChar(s[i])]
  OBVIOUS
<1>2. \A i \in 1..Len(s) :
        /\ s[i] \in Bytes
        /\ pieces[i] \in Seq(Nat)
        /\ s[i] >= 128 => GARBAGE \in ToSet(pieces[i])
  BY <1>1, EncodeCharTypes
<1>3. pieces \in Seq(Seq(Nat)) /\ Len(pieces) = Len(s)
  BY <1>1, <1>2
<1>4. ~ IsAscii(s) => GARBAGE \in ToSet(FlattenSeq(pieces))
  <2> SUFFICES ASSUME ~ IsAscii(s)
               PROVE  GARBAGE \in ToSet(FlattenSeq(pieces))
    OBVIOUS
  <2>1. PICK i \in 1..Len(s) : ~ s[i] < 128
    BY DEF IsAscii
  <2>2. s[i] >= 128
    <3>1. \A b \in Bytes : b < 128 \/ b >= 128
      BY DEF Bytes
    <3> QED
      BY <1>2, <2>1, <3>1
  <2>3. i \in 1..Len(pieces) /\ GARBAGE \in ToSet(pieces[i])
    BY <1>2, <1>3, <2>2
  <2> QED
    BY <1>3, <2>3, FlattenContains
<1> QED
  BY <1>1, <1>3, <1>4, FlattenTypes DEF UrlEncode

LEMMA EncodePartsGarbage ==
  ASSUME NEW s \in Seq(Bytes)
  PROVE  /\ EncodeParts(s) \in Seq(Nat)
         /\ ~ IsAscii(s) => GARBAGE \in ToSet(EncodeParts(s))
<1>1. PICK pieces : pieces = [i \in 1..Len(s) |->
                                IF s[i] = SLASH THEN <<SLASH>> ELSE EncodeChar(s[i])]
  OBVIOUS
<1>2. \A i \in 1..Len(s) :
        /\ s[i] \in Bytes
        /\ pieces[i] \in Seq(Nat)
        /\ s[i] >= 128 => GARBAGE \in ToSet(pieces[i])
  <2>1. <<SLASH>> \in Seq(Nat) /\ ~ SLASH >= 128
    BY DEF SLASH
  <2> QED
    BY <1>1, <2>1, EncodeCharTypes
<1>3. pieces \in Seq(Seq(Nat)) /\ Len(pieces) = Len(s)
  BY <1>1, <1>2
<1>4. ~ IsAscii(s) => GARBAGE \in ToSet(FlattenSeq(pieces))
  <2> SUFFICES ASSUME ~ IsAscii(s)
               PROVE  GARBAGE \in ToSet(FlattenSeq(pieces))
    OBVIOUS
  <2>1. PICK i \in 1..Len(s) : ~ s[i] < 128
    BY DEF IsAscii
  <2>2. s[i] >= 128
    <3>1. \A b \in Bytes : b < 128 \/ b >= 128
      BY DEF Bytes
    <3> QED
      BY <1>2, <2>1, <3>1
  <2>3. i \in 1..Len(pieces) /\ GARBAGE \in ToSet(pieces[i])
    BY <1>2, <1>3, <2>2
  <2> QED
    BY <1>3, <2>3, FlattenContains
<1> QED
  BY <1>1, <1>3, <1>4, FlattenTypes DEF EncodeParts

LEMMA AssignGarbage ==
  ASSUME NEW name \in Nat, NEW value \in Seq(Bytes)
  PROVE  /\ Assign(name, value) \in Seq(Nat)
         /\ ~ IsAscii(value) => GARBAGE \in ToSet(Assign(name, value))
<1>1. PICK e, ne : e = UrlEncode(value) /\ ne = <<name, EQUALS>>
  OBVIOUS
<1>2. /\ e \in Seq(Nat) /\ ne \in Seq(Nat)
      /\ ~ IsAscii(value) => GARBAGE \in ToSet(e)
  BY <1>1, UrlEncodeGarbage, CodesKinds
<1>3. ne \o e \in Seq(Nat) /\ ToSet(ne \o e) = ToSet(ne) \cup ToSet(e)
  BY ONLY <1>2, ConcatContains, ConcatProperties
<1> QED
  BY <1>1, <1>2, <1>3 DEF Assign

\* A path or a marker that is not ASCII shows in the URL.
THEOREM UrlShowsGarbage ==
  ASSUME NEW path \in Seq(Bytes), IsPath(path), NEW type \in {"file", "path"},
         NEW marker \in Seq(Bytes), ~ (IsAscii(path) /\ IsAscii(marker))
  PROVE  GARBAGE \in ToSet(ConstructRequestUrl(path, type, marker))
<1>1. PICK a, p, w : /\ a = PathUrl(path, type)
                     /\ p = PathParameter(path, type)
                     /\ w = WithMarker(p, marker)
  OBVIOUS
<1>2. PICK c, v, e : c = ContainerOf(path) /\ v = InContainer(path) /\ e = UrlEncode(c)
  OBVIOUS
<1>3. c \in Seq(Bytes) /\ v \in Seq(Bytes)
  BY <1>2, PathParts
<1>4. e \in Seq(Nat) /\ (~ IsAscii(c) => GARBAGE \in ToSet(e))
  BY <1>2, <1>3, UrlEncodeGarbage
<1>5. PICK root, q, amp : root = Root /\ q = <<QUESTION>> /\ amp = <<AMPERSAND>>
  OBVIOUS
<1>6. root \in Seq(Nat) /\ q \in Seq(Nat) /\ amp \in Seq(Nat) /\ <<>> \in Seq(Nat)
  BY <1>5, CodesKinds DEF Root, SLASH
<1>7. \A x, y \in Seq(Nat) : /\ x \o y \in Seq(Nat)
                             /\ ToSet(x \o y) = ToSet(x) \cup ToSet(y)
  BY ConcatContains, ConcatProperties
<1>8. a \in Seq(Nat) /\ p \in Seq(Nat)
  <2>1. CASE path = Root
    BY <1>1, <1>6, <2>1 DEF PathUrl, PathParameter
  <2>2. CASE path # Root /\ type = "file"
    BY <1>1, <1>6, <2>2, EncodePartsGarbage DEF PathUrl, PathParameter
  <2>3. CASE path # Root /\ type = "path"
    <3>1. a = root \o e /\ p = q \o Assign(ParameterPath, v)
      BY <1>1, <1>2, <1>5, <2>3 DEF PathUrl, PathParameter
    <3>2. Assign(ParameterPath, v) \in Seq(Nat)
      BY <1>3, AssignGarbage, CodesKinds
    <3> QED
      BY <1>4, <1>6, <1>7, <3>1, <3>2
  <2> QED
    BY <2>1, <2>2, <2>3
<1>9. /\ w \in Seq(Nat) /\ ToSet(p) \subseteq ToSet(w)
      /\ ~ IsAscii(marker) => GARBAGE \in ToSet(w)
  <2>1. CASE marker = <<>>
    <3>1. w = p /\ IsAscii(marker)
      BY <1>1, <2>1 DEF WithMarker, IsAscii
    <3> QED
      BY <1>8, <3>1
  <2>2. CASE marker # <<>>
    <3>1. PICK sep, g : /\ sep = IF p = <<>> THEN q ELSE amp
                        /\ g = Assign(ParameterMarker, marker)
      OBVIOUS
    <3>2. w = (p \o sep) \o g
      BY <1>1, <1>5, <2>2, <3>1 DEF WithMarker
    <3>3. sep \in Seq(Nat)
      BY <1>6, <3>1
    <3>4. g \in Seq(Nat) /\ (~ IsAscii(marker) => GARBAGE \in ToSet(g))
      BY <3>1, AssignGarbage, CodesKinds
    <3>5. p \o sep \in Seq(Nat) /\ ToSet(p \o sep) = ToSet(p) \cup ToSet(sep)
      BY <1>7, <1>8, <3>3
    <3>6. w \in Seq(Nat) /\ ToSet(w) = ToSet(p \o sep) \cup ToSet(g)
      BY <1>7, <3>2, <3>4, <3>5
    <3> QED
      BY <3>4, <3>5, <3>6
  <2> QED
    BY <2>1, <2>2
<1>10. ~ IsAscii(path) => GARBAGE \in ToSet(a) \cup ToSet(p)
  <2> SUFFICES ASSUME ~ IsAscii(path)
               PROVE  GARBAGE \in ToSet(a) \cup ToSet(p)
    OBVIOUS
  <2>1. path # Root
    BY DEF IsAscii, Root, SLASH
  <2>2. CASE type = "file"
    <3>1. a = EncodeParts(path)
      BY <1>1, <2>1, <2>2 DEF PathUrl
    <3> QED
      BY <3>1, EncodePartsGarbage
  <2>3. CASE type = "path"
    <3>1. PICK n \in 1..Len(path) : ~ path[n] < 128
      BY DEF IsAscii
    <3>2. PICK end : end = ContainerEnd(path)
      OBVIOUS
    <3>3. /\ Len(path) \in Nat /\ end \in 2..Len(path) + 1
          /\ end # Len(path) + 1 => path[end] = SLASH
          /\ path[1] = SLASH
          /\ Len(c) = end - 2 /\ \A i \in 1..end - 2 : c[i] = path[i + 1]
          /\ Len(v) = IF end < Len(path) THEN Len(path) - end ELSE 0
          /\ \A i \in 1..Len(path) - end : v[i] = path[i + end]
      BY <1>2, <3>2, PathParts
    <3>4. n # 1 /\ n # end
      BY <3>1, <3>3 DEF SLASH
    <3>5. a = root \o e /\ p = q \o Assign(ParameterPath, v)
      BY <1>1, <1>2, <1>5, <2>1, <2>3 DEF PathUrl, PathParameter
    <3>6. CASE n < end
      <4>1. n - 1 \in 1..end - 2 /\ (n - 1) + 1 = n
        BY <3>3, <3>4, <3>6
      <4>2. n - 1 \in 1..Len(c) /\ ~ c[n - 1] < 128
        BY <3>1, <3>3, <4>1
      <4>3. ~ IsAscii(c)
        BY <4>2 DEF IsAscii
      <4>4. GARBAGE \in ToSet(root \o e)
        BY <1>4, <1>6, <1>7, <4>3
      <4> QED
        BY <3>5, <4>4
    <3>7. CASE end < n
      <4>1. n - end \in 1..Len(path) - end /\ (n - end) + end = n
            /\ end < Len(path)
        BY <3>3, <3>7
      <4>2. n - end \in 1..Len(v) /\ ~ v[n - end] < 128
        BY <3>1, <3>3, <4>1
      <4>3. ~ IsAscii(v)
        BY <4>2 DEF IsAscii
      <4>4. PICK f : f = Assign(ParameterPath, v)
        OBVIOUS
      <4>5. f \in Seq(Nat) /\ GARBAGE \in ToSet(f)
        BY <1>3, <4>3, <4>4, AssignGarbage, CodesKinds
      <4>6. GARBAGE \in ToSet(q \o f)
        BY <1>6, <1>7, <4>5
      <4> QED
        BY <3>5, <4>4, <4>6
    <3> QED
      BY <3>3, <3>4, <3>6, <3>7
  <2> QED
    BY <2>2, <2>3
<1>11. ConstructRequestUrl(path, type, marker) = a \o w
  BY <1>1 DEF ConstructRequestUrl
<1>12. ToSet(a \o w) = ToSet(a) \cup ToSet(w)
  BY <1>7, <1>8, <1>9
<1> QED
  BY <1>9, <1>10, <1>11, <1>12

-----------------------------------------------------------------------------
(* Two requests are never the same.                                        *)

\* A path of length n, whose container c ends before end and has b behind it.
Parts(p, end, n, c, b) ==
  /\ n = Len(p) /\ n \in Nat /\ n >= 1 /\ end \in 2..n + 1
  /\ end # n + 1 => p[end] = SLASH
  /\ p[1] = SLASH
  /\ Len(c) = end - 2 /\ \A i \in 1..end - 2 : c[i] = p[i + 1]
  /\ Len(b) = IF end < n THEN n - end ELSE 0
  /\ \A i \in 1..n - end : b[i] = p[i + end]

LEMMA PartsOf ==
  ASSUME NEW S, NEW p \in Seq(S), IsPath(p)
  PROVE  Parts(p, ContainerEnd(p), Len(p), ContainerOf(p), InContainer(p))
  BY PathParts DEF Parts

\* The container and what is behind it are all there is to a path.
LEMMA PathFromParts ==
  ASSUME NEW S, NEW path \in Seq(S), IsPath(path), path # Root,
         NEW other \in Seq(S), IsPath(other), other # Root,
         ContainerOf(path) = ContainerOf(other),
         InContainer(path) = InContainer(other)
  PROVE  path = other
<1>1. PICK c, b : c = ContainerOf(path) /\ b = InContainer(path)
  OBVIOUS
<1>2. PICK end, n : end = ContainerEnd(path) /\ n = Len(path)
  OBVIOUS
<1>3. PICK otherEnd, m : otherEnd = ContainerEnd(other) /\ m = Len(other)
  OBVIOUS
<1>4. Parts(path, end, n, c, b)
  BY <1>1, <1>2, PartsOf
<1>5. Parts(other, otherEnd, m, c, b)
  <2>1. Parts(other, ContainerEnd(other), Len(other), ContainerOf(other), InContainer(other))
    BY PartsOf
  <2> QED
    BY ONLY <1>1, <1>3, <2>1, ContainerOf(path) = ContainerOf(other),
            InContainer(path) = InContainer(other)
<1> USE DEF Parts
<1>6. path[n] # SLASH /\ other[m] # SLASH
  BY <1>2, <1>3 DEF IsPath
<1>7. end = otherEnd
  BY <1>4, <1>5
<1>8. end # n /\ otherEnd # m
  BY <1>4, <1>5, <1>6
<1>9. n = m
  BY <1>4, <1>5, <1>7, <1>8
<1>10. ASSUME NEW i \in 1..n
       PROVE  path[i] = other[i]
  <2>1. CASE i = 1
    BY <1>4, <1>5, <2>1
  <2>2. CASE i # 1 /\ i < end
    <3>1. i - 1 \in 1..end - 2 /\ (i - 1) + 1 = i
      BY <1>4, <2>2
    <3>2. path[(i - 1) + 1] = c[i - 1]
      BY <1>4, <3>1
    <3>3. other[(i - 1) + 1] = c[i - 1]
      BY <1>5, <1>7, <3>1
    <3> QED
      BY <3>1, <3>2, <3>3
  <2>3. CASE i = end
    BY <1>4, <1>5, <1>7, <1>8, <1>9, <2>3
  <2>4. CASE end < i
    <3>1. i - end \in 1..n - end /\ (i - end) + end = i
      BY <1>4, <2>4
    <3>2. path[(i - end) + end] = b[i - end]
      BY <1>4, <3>1
    <3>3. other[(i - end) + end] = b[i - end]
      BY <1>5, <1>7, <1>9, <3>1
    <3> QED
      BY <3>1, <3>2, <3>3
  <2> QED
    BY <1>4, <2>1, <2>2, <2>3, <2>4
<1> QED
  BY <1>2, <1>3, <1>9, <1>10, SeqEqual

\* Two requests that are built alike have the same URL only if they are for the
\* same path and continue behind the same entry: no answer to one of them is the
\* answer to another (the callers of mosso_construct_request_url).
THEOREM UrlsDiffer ==
  ASSUME NEW path \in Seq(Ascii), IsPath(path), NEW marker \in Seq(Ascii),
         NEW other \in Seq(Ascii), IsPath(other), NEW behind \in Seq(Ascii),
         NEW type \in {"file", "path"},
         ConstructRequestUrl(path, type, marker) = ConstructRequestUrl(other, type, behind)
  PROVE  path = other /\ marker = behind
<1>1. Meant(path, type, marker) = Meant(other, type, behind)
  <2>1. ServiceReads(ConstructRequestUrl(path, type, marker))
          = Meant(path, type, marker)
    BY UrlReadAsMeant
  <2>2. ServiceReads(ConstructRequestUrl(other, type, behind))
          = Meant(other, type, behind)
    BY UrlReadAsMeant
  <2> QED
    BY <2>1, <2>2
<1> DEFINE Below(p) == IF type = "path" /\ p # Root
                       THEN {<<<<ParameterPath>>, InContainer(p)>>} ELSE {}
           Behind(m) == IF m # <<>> THEN {<<<<ParameterMarker>>, m>>} ELSE {}
           Resource(p) == IF p = Root THEN <<>>
                          ELSE IF type = "path" THEN Root \o ContainerOf(p)
                          ELSE p
<1>2. /\ Below(path) \cup Behind(marker) = Below(other) \cup Behind(behind)
      /\ Resource(path) = Resource(other)
  <2>1. \A p, m : /\ Meant(p, type, m).resource = Resource(p)
                  /\ Meant(p, type, m).query = Below(p) \cup Behind(m)
    BY DEF Meant
  <2> HIDE DEF Below, Behind, Resource
  <2> QED
    BY <1>1, <2>1
<1>3. Below(path) = Below(other) /\ Behind(marker) = Behind(behind)
  <2>1. \A v, w : <<<<ParameterPath>>, v>> # <<<<ParameterMarker>>, w>>
    BY CodesKinds
  <2>2. \A p, m : Below(p) \cap Behind(m) = {}
    <3> TAKE p, m
    <3>1. \A x \in Below(p) : x = <<<<ParameterPath>>, InContainer(p)>>
      OBVIOUS
    <3>2. \A x \in Behind(m) : x = <<<<ParameterMarker>>, m>>
      OBVIOUS
    <3> HIDE DEF Below, Behind
    <3> QED
      BY <2>1, <3>1, <3>2
  <2> HIDE DEF Below, Behind
  <2> QED
    BY <1>2, <2>2
<1>4. marker = behind
  <2>1. \A m, n : <<<<ParameterMarker>>, m>> = <<<<ParameterMarker>>, n>> => m = n
    OBVIOUS
  <2>2. PICK m, n : /\ m = <<<<ParameterMarker>>, marker>>
                    /\ n = <<<<ParameterMarker>>, behind>>
    OBVIOUS
  <2>3. (IF marker # <<>> THEN {m} ELSE {}) = IF behind # <<>> THEN {n} ELSE {}
    BY <1>3, <2>2
  <2> QED
    BY <2>1, <2>2, <2>3
<1>5. path = Root <=> other = Root
  <2>1. PICK root : root = Root
    OBVIOUS
  <2>2. root \in Seq(Ascii) /\ root # <<>>
    BY <2>1 DEF Root, SLASH, Ascii
  <2>3. ASSUME NEW p \in Seq(Ascii), IsPath(p), p # Root
        PROVE  Resource(p) # <<>>
    <3>1. p # <<>>
      BY <2>3 DEF IsPath
    <3>2. ContainerOf(p) \in Seq(Ascii)
      BY <2>3, PathParts
    <3>3. root \o ContainerOf(p) # <<>>
      BY <2>2, <3>2, ConcatEqualIffEmpty
    <3> QED
      BY <2>1, <2>3, <3>1, <3>3
  <2>4. Resource(Root) = <<>>
    OBVIOUS
  <2> HIDE DEF Resource
  <2> QED
    BY <1>2, <2>3, <2>4
<1>6. CASE path = Root
  BY <1>4, <1>5, <1>6
<1>7. CASE path # Root /\ type = "file"
  BY <1>2, <1>4, <1>5, <1>7
<1>8. CASE path # Root /\ type = "path"
  <2>1. InContainer(path) = InContainer(other)
    <3>1. /\ Below(path) = {<<<<ParameterPath>>, InContainer(path)>>}
          /\ Below(other) = {<<<<ParameterPath>>, InContainer(other)>>}
      BY <1>5, <1>8
    <3>2. \A v, w : <<<<ParameterPath>>, v>> = <<<<ParameterPath>>, w>> => v = w
      OBVIOUS
    <3>3. \A x, y : {x} = {y} => x = y
      OBVIOUS
    <3> HIDE DEF Below
    <3>4. <<<<ParameterPath>>, InContainer(path)>>
            = <<<<ParameterPath>>, InContainer(other)>>
      BY <1>3, <3>1, <3>3
    <3> QED
      BY <3>2, <3>4
  <2>2. ContainerOf(path) = ContainerOf(other)
    <3>1. PICK root, c, d : /\ root = Root /\ c = ContainerOf(path)
                            /\ d = ContainerOf(other)
      OBVIOUS
    <3>2. root \in Seq(Ascii) /\ c \in Seq(Ascii) /\ d \in Seq(Ascii)
      <4>1. Root \in Seq(Ascii)
        BY DEF Root, SLASH, Ascii
      <4> QED
        BY <3>1, <4>1, PathParts
    <3>3. root \o c = root \o d
      BY <1>2, <1>5, <1>8, <3>1
    <3> QED
      BY ONLY <3>1, <3>2, <3>3, ConcatSimplifications
  <2>3. path = other
    BY <1>5, <1>8, <2>1, <2>2, PathFromParts
  <2> QED
    BY <1>4, <2>3
<1> QED
  BY <1>6, <1>7, <1>8

-----------------------------------------------------------------------------
(* Both halves of what a URL is for.                                       *)

\* Whatever bytes FUSE passes: the URL is read as what was meant, or shows that
\* it is not (the index of a negative char is from beside the table of digits).
THEOREM UrlAddresses ==
  ASSUME NEW path \in Seq(Bytes), IsPath(path), NEW type \in {"file", "path"},
         NEW marker \in Seq(Bytes)
  PROVE  IF IsAscii(path) /\ IsAscii(marker)
         THEN ServiceReads(ConstructRequestUrl(path, type, marker))
                = Meant(path, type, marker)
         ELSE GARBAGE \in ToSet(ConstructRequestUrl(path, type, marker))
<1>1. \A s \in Seq(Bytes) : IsAscii(s) => s \in Seq(Ascii)
  <2> SUFFICES ASSUME NEW s \in Seq(Bytes), IsAscii(s)
               PROVE  s \in Seq(Ascii)
    OBVIOUS
  <2>1. \A b \in Bytes : b < 128 => b \in Ascii
    BY DEF Bytes, Ascii
  <2>2. \A i \in 1..Len(s) : s[i] \in Ascii
    <3>1. \A i \in 1..Len(s) : s[i] \in Bytes /\ s[i] < 128
      BY DEF IsAscii
    <3> QED
      BY <2>1, <3>1
  <2> QED
    BY <2>2
<1>2. CASE IsAscii(path) /\ IsAscii(marker)
  BY <1>1, <1>2, UrlReadAsMeant
<1>3. CASE ~ (IsAscii(path) /\ IsAscii(marker))
  BY <1>3, UrlShowsGarbage
<1> QED
  BY <1>2, <1>3
=============================================================================
