--------------------------- MODULE IdentityProofs ---------------------------
(***************************************************************************)
(* Proofs about Identity: what a caller's headers are read as, and that    *)
(* the key a scope is kept under tells apart every two callers whose       *)
(* names or groups differ, for header lists of any length.                 *)
(***************************************************************************)
EXTENDS Identity, TLAPS, FiniteSetTheorems, SequenceTheorems,
        WellFoundedInduction

-----------------------------------------------------------------------------
(* Induction, from the fact that < is well founded on the naturals: a set  *)
(* that holds 0 and, with each number below n, the next one, holds them    *)
(* all.                                                                    *)

LEMMA LeastNat ==
  ASSUME NEW T, T \subseteq Nat, T # {}
  PROVE  \E x \in T : \A y \in T : x <= y
<1>1. PICK x \in T : \A y \in T : ~ (<<y, x>> \in OpToRel(<, Nat))
  BY NatLessThanWellFounded, WFMin
<1>2. ASSUME NEW y \in T, y < x
      PROVE  FALSE
  <2>1. y \in Nat /\ x \in Nat
    OBVIOUS
  <2>2. <<y, x>> \in OpToRel(<, Nat)
    BY <1>2, <2>1 DEF OpToRel
  <2> QED BY <1>1, <2>2
<1> QED BY <1>2

LEMMA UpTo ==
  ASSUME NEW n \in Nat, NEW B, 0 \in B,
         \A k \in B : k \in Nat /\ k < n => k + 1 \in B
  PROVE  \A k \in 0..n : k \in B
<1> SUFFICES ASSUME (0..n) \ B # {}
             PROVE  FALSE
  OBVIOUS
<1>1. PICK k \in (0..n) \ B : \A j \in (0..n) \ B : k <= j
  <2>1. (0..n) \ B \subseteq Nat
    OBVIOUS
  <2> QED BY <2>1, LeastNat
<1>2. k \in 1..n /\ k - 1 \in 0..n /\ k - 1 < k
  OBVIOUS
<1>3. k - 1 \in B
  BY <1>1, <1>2
<1> QED BY <1>2, <1>3

-----------------------------------------------------------------------------
(* slices.Sort.  A permutation that sorts the first k places and puts none *)
(* but larger names behind them becomes one that does so for k + 1 by one  *)
(* exchange, so a sorting permutation exists.                              *)

SortedTo(s, p, k) ==
  \A i \in 1..k, j \in DOMAIN s : i < j => s[p[i]] <= s[p[j]]

LEMMA Exchange ==
  ASSUME NEW s \in Seq(Nat), NEW k \in Nat, k < Len(s),
         NEW p \in Bijection(DOMAIN s, DOMAIN s), SortedTo(s, p, k)
  PROVE  \E q \in Bijection(DOMAIN s, DOMAIN s) : SortedTo(s, q, k + 1)
<1> DEFINE D == DOMAIN s
           rest == {j \in D : k < j}
<1>1. D = 1..Len(s) /\ Len(s) \in Nat /\ \A i \in D : s[i] \in Nat
  BY LenProperties, ElementOfSeq
<1>2. /\ p \in [D -> D]
      /\ \A i, j \in D : p[i] = p[j] => i = j
      /\ \A t \in D : \E i \in D : p[i] = t
  BY DEF Bijection, Injection, Surjection, IsInjective
<1>3. PICK m \in rest : \A j \in rest : s[p[m]] <= s[p[j]]
  <2> DEFINE values == {s[p[j]] : j \in rest}
  <2>1. values \subseteq Nat
    <3>1. \A j \in rest : p[j] \in D
      BY <1>2
    <3>2. \A j \in rest : s[p[j]] \in Nat
      BY <1>1, <3>1
    <3> QED BY <3>2
  <2>2. k + 1 \in rest
    BY <1>1
  <2>3. values # {}
    BY <2>2
  <2>4. PICK x \in values : \A y \in values : x <= y
    <3> HIDE DEF values
    <3> QED BY <2>1, <2>3, LeastNat
  <2> QED BY <2>4
<1> DEFINE next == k + 1
           q == [i \in D |-> IF i = next THEN p[m]
                             ELSE IF i = m THEN p[next] ELSE p[i]]
<1>4. next \in rest /\ next \in D /\ m \in D /\ m >= next
  BY <1>1
<1>5. q \in [D -> D]
  BY <1>2, <1>4
<1>6. \A i, j \in D : q[i] = q[j] => i = j
  BY <1>2, <1>4
<1>7. \A t \in D : \E i \in D : q[i] = t
  <2> SUFFICES ASSUME NEW t \in D PROVE \E i \in D : q[i] = t
    OBVIOUS
  <2>1. PICK i \in D : p[i] = t
    BY <1>2
  <2>2. CASE i = next
    BY <1>4, <2>1, <2>2
  <2>3. CASE i = m
    BY <1>4, <2>1, <2>3
  <2>4. CASE i # next /\ i # m
    BY <2>1, <2>4
  <2> QED BY <2>2, <2>3, <2>4
<1>8. q \in Bijection(D, D)
  BY <1>5, <1>6, <1>7 DEF Bijection, Injection, Surjection, IsInjective
<1>9. SortedTo(s, q, k + 1)
  <2> SUFFICES ASSUME NEW i \in 1..(k + 1), NEW j \in D, i < j
               PROVE  s[q[i]] <= s[q[j]]
    BY DEF SortedTo
  <2>1. CASE i = next
    <3>1. q[i] = p[m] /\ j \in rest
      BY <1>4, <2>1
    <3>2. q[j] \in {p[next], p[j]}
      BY <2>1
    <3> QED BY <1>3, <1>4, <3>1, <3>2
  <2>2. CASE i # next
    <3>1. i \in 1..k /\ i \in D /\ q[i] = p[i]
      BY <1>1, <1>4, <2>2
    <3>2. PICK t \in D : q[j] = p[t] /\ i < t
      BY <1>4, <3>1
    <3> QED BY <3>1, <3>2 DEF SortedTo
  <2> QED BY <2>1, <2>2
<1> QED BY <1>8, <1>9

LEMMA SortExists ==
  ASSUME NEW s \in Seq(Nat)
  PROVE  \E p \in Bijection(DOMAIN s, DOMAIN s) :
           \A i, j \in DOMAIN s : i < j => s[p[i]] <= s[p[j]]
<1> DEFINE D == DOMAIN s
           B == {k \in 0..Len(s) : \E p \in Bijection(D, D) : SortedTo(s, p, k)}
<1>1. D = 1..Len(s) /\ Len(s) \in Nat
  BY LenProperties
<1>2. 0 \in B
  <2> DEFINE id == [i \in D |-> i]
  <2>1. id \in Bijection(D, D)
    BY DEF Bijection, Injection, Surjection, IsInjective
  <2>2. SortedTo(s, id, 0)
    BY DEF SortedTo
  <2> QED BY <1>1, <2>1, <2>2
<1>3. \A k \in B : k \in Nat /\ k < Len(s) => k + 1 \in B
  BY <1>1, Exchange
<1>4. Len(s) \in B
  <2> HIDE DEF B
  <2>1. \A k \in 0..Len(s) : k \in B
    BY <1>1, <1>2, <1>3, UpTo
  <2> QED BY <1>1, <2>1
<1> QED BY <1>1, <1>4 DEF SortedTo

(* Sorting returns the same names.                                         *)
LEMMA SortProperties ==
  ASSUME NEW s \in Seq(Nat)
  PROVE  /\ Sort(s) \in Seq(Nat)
         /\ Len(Sort(s)) = Len(s)
         /\ Range(Sort(s)) = Range(s)
<1> DEFINE D == DOMAIN s
           order == CHOOSE p \in Bijection(D, D) :
                      \A i, j \in D : i < j => s[p[i]] <= s[p[j]]
<1>1. order \in Bijection(D, D)
  BY SortExists
<1>2. order \in [D -> D] /\ \A t \in D : \E i \in D : order[i] = t
  BY <1>1 DEF Bijection, Injection, Surjection
<1>3. Sort(s) = [i \in D |-> s[order[i]]]
  BY DEF Sort
<1> HIDE DEF order
<1>4. D = 1..Len(s) /\ Len(s) \in Nat /\ \A i \in D : s[i] \in Nat
  BY LenProperties, ElementOfSeq
<1>5. Sort(s) \in Seq(Nat) /\ Len(Sort(s)) = Len(s)
  <2>1. Sort(s) \in [1..Len(s) -> Nat]
    BY <1>2, <1>3, <1>4
  <2> QED BY <1>4, <2>1, IsASeq, LenProperties, SMTT(20)
<1>6. Range(Sort(s)) = Range(s)
  BY <1>2, <1>3 DEF Range
<1> QED BY <1>5, <1>6
-----------------------------------------------------------------------------
(* splitGroups.  Both its loops are recursive functions: one exists, which *)
(* is shown by extending it a place at a time, and what it returns follows *)
(* by induction on the place.                                              *)

Steps(S, n) == [1..n -> [S -> S]]

RunsOf(S, a, n, step) ==
  {g \in [0..n -> S] : g[0] = a /\ \A i \in 1..n : g[i] = step[i][g[i - 1]]}

LEMMA Recursion ==
  ASSUME NEW S, NEW a \in S, NEW n \in Nat, NEW step \in Steps(S, n)
  PROVE  RunsOf(S, a, n, step) # {}
<1> USE DEF Steps
<1> DEFINE Runs(g, k) == g[0] = a /\ \A i \in 1..k : g[i] = step[i][g[i - 1]]
           B == {k \in 0..n : \E g \in [0..k -> S] : Runs(g, k)}
<1>1. 0 \in B
  <2> DEFINE g == [i \in 0..0 |-> a]
  <2>1. g \in [0..0 -> S]
    OBVIOUS
  <2>2. Runs(g, 0)
    OBVIOUS
  <2> HIDE DEF g, Runs
  <2>3. 0 \in 0..n
    OBVIOUS
  <2> QED BY <2>1, <2>2, <2>3
<1>2. ASSUME NEW k \in B, k \in Nat, k < n
      PROVE  k + 1 \in B
  <2>1. PICK g \in [0..k -> S] : Runs(g, k)
    OBVIOUS
  <2>2. PICK x : x = step[k + 1][g[k]]
    OBVIOUS
  <2>3. k + 1 \in 1..n /\ g[k] \in S
    BY <1>2
  <2>4. x \in S
    BY <2>2, <2>3
  <2> DEFINE h == [i \in 0..(k + 1) |-> IF i = k + 1 THEN x ELSE g[i]]
  <2>5. h \in [0..(k + 1) -> S]
    BY <1>2, <2>4
  <2>6. h[0] = a
    BY <1>2, <2>1
  <2>7. ASSUME NEW i \in 1..(k + 1)
        PROVE  h[i] = step[i][h[i - 1]]
    <3>1. CASE i = k + 1
      <4>1. h[i] = x /\ i - 1 = k
        BY <1>2, <3>1
      <4>2. h[k] = g[k]
        BY <1>2
      <4> HIDE DEF h
      <4> QED BY <2>2, <3>1, <4>1, <4>2
    <3>2. CASE i # k + 1
      <4>1. i \in 1..k /\ i - 1 \in 0..k
        BY <1>2, <3>2
      <4>2. h[i] = g[i] /\ h[i - 1] = g[i - 1]
        BY <1>2, <4>1
      <4> HIDE DEF h
      <4> QED BY <2>1, <4>1, <4>2
    <3> QED BY <3>1, <3>2
  <2>8. Runs(h, k + 1)
    <3> HIDE DEF h
    <3> QED BY <2>6, <2>7
  <2>9. k + 1 \in 0..n
    BY <1>2
  <2> HIDE DEF h, Runs
  <2> QED BY <2>5, <2>8, <2>9
<1>3. n \in B
  <2> HIDE DEF B
  <2>1. \A k \in 0..n : k \in B
    BY <1>1, <1>2, UpTo
  <2> QED BY <2>1
<1> QED BY <1>3 DEF RunsOf

LEMMA RecursionType ==
  ASSUME NEW S, NEW n \in Nat, NEW f, f[0] \in S,
         \A i \in 1..n : f[i - 1] \in S => f[i] \in S
  PROVE  f[n] \in S
<1> DEFINE B == {k \in 0..n : f[k] \in S}
<1>1. 0 \in B
  OBVIOUS
<1>2. ASSUME NEW k \in B, k \in Nat, k < n
      PROVE  k + 1 \in B
  <2>1. k + 1 \in 1..n /\ (k + 1) - 1 = k
    BY <1>2
  <2>2. f[k + 1] \in S
    BY <1>2, <2>1
  <2> QED BY <2>1, <2>2
<1>3. n \in B
  <2> HIDE DEF B
  <2>1. \A k \in 0..n : k \in B
    BY <1>1, <1>2, UpTo
  <2> QED BY <2>1
<1> QED BY <1>3

LEMMA FlattenType ==
  ASSUME NEW S, NEW v \in Seq(Seq(S))
  PROVE  FlattenSeq(v) \in Seq(S)
<1>1. Len(v) \in Nat /\ \A i \in 1..Len(v) : v[i] \in Seq(S)
  BY LenProperties, ElementOfSeq
<1>2. CASE Len(v) = 0
  BY <1>2, EmptySeq DEF FlattenSeq
<1>3. CASE Len(v) # 0
  <2> DEFINE n == Len(v)
             At(g, i) == IF i = 1 THEN v[i] ELSE g[i - 1] \o v[i]
             f == CHOOSE g : g = [i \in 1..n |-> At(g, i)]
  <2>1. FlattenSeq(v) = f[n]
    BY <1>3 DEF FlattenSeq
  <2>2. \A x \in Seq(S), i \in 1..n : x \o v[i] \in Seq(S)
    BY <1>1, ConcatProperties
  <2>3. \E g : g = [i \in 1..n |-> At(g, i)]
    <3> DEFINE step == [i \in 1..(n - 1) |-> [x \in Seq(S) |-> x \o v[i + 1]]]
    <3>1. n - 1 \in Nat /\ v[1] \in Seq(S)
      BY <1>1, <1>3
    <3>2. step \in Steps(Seq(S), n - 1)
      <4>1. \A i \in 1..(n - 1) : i + 1 \in 1..n
        BY <1>1
      <4> QED BY <2>2, <4>1 DEF Steps
    <3>3. PICK g \in [0..(n - 1) -> Seq(S)] :
            /\ g[0] = v[1]
            /\ \A i \in 1..(n - 1) : g[i] = step[i][g[i - 1]]
      <4> HIDE DEF step
      <4>1. RunsOf(Seq(S), v[1], n - 1, step) # {}
        BY <3>1, <3>2, Recursion
      <4> QED BY <4>1 DEF RunsOf
    <3> DEFINE h == [i \in 1..n |-> g[i - 1]]
    <3>4. ASSUME NEW i \in 1..n
          PROVE  h[i] = At(h, i)
      <4>1. CASE i = 1
        BY <3>3, <4>1
      <4>2. CASE i # 1
        <5>1. i - 1 \in 1..(n - 1) /\ i - 2 \in 0..(n - 1) /\ i - 1 \in 1..n
          BY <1>1, <4>2
        <5>2. step[i - 1] = [x \in Seq(S) |-> x \o v[(i - 1) + 1]]
          BY <5>1
        <5>3. g[i - 1] = step[i - 1][g[(i - 1) - 1]]
          BY <3>3, <5>1
        <5>4. (i - 1) + 1 = i /\ (i - 1) - 1 = i - 2
          BY <1>1
        <5>5. g[i - 1] = g[i - 2] \o v[i]
          <6>1. g[i - 2] \in Seq(S)
            BY <5>1
          <6> HIDE DEF step
          <6> QED BY <5>2, <5>3, <5>4, <6>1
        <5>6. h[i] = g[i - 1] /\ h[i - 1] = g[i - 2]
          BY <5>1, <5>4
        <5> HIDE DEF h
        <5> QED BY <4>2, <5>5, <5>6
      <4> QED BY <4>1, <4>2
    <3>5. h = [i \in 1..n |-> At(h, i)]
      <4> HIDE DEF At
      <4>1. h = [i \in 1..n |-> h[i]]
        OBVIOUS
      <4> HIDE DEF h
      <4> QED BY <3>4, <4>1
    <3> HIDE DEF h, At
    <3> QED BY <3>5
  <2>4. f = [i \in 1..n |-> At(f, i)]
    <3> HIDE DEF At
    <3> QED BY <2>3
  <2> HIDE DEF f
  <2> DEFINE e == [i \in 0..(n - 1) |-> f[i + 1]]
  <2>5. \A i \in 1..n : f[i] = At(f, i)
    <3> HIDE DEF At
    <3> QED BY <2>4
  <2>6. n - 1 \in Nat /\ e[0] \in Seq(S) /\ e[n - 1] = f[n]
    <3>1. n - 1 \in Nat /\ 1 \in 1..n /\ (n - 1) + 1 = n
      BY <1>1, <1>3
    <3>2. f[1] = v[1]
      BY <2>5, <3>1
    <3>3. e[0] = f[1] /\ e[n - 1] = f[n]
      BY <3>1
    <3> QED BY <1>1, <3>1, <3>2, <3>3
  <2>7. ASSUME NEW i \in 1..(n - 1), e[i - 1] \in Seq(S)
        PROVE  e[i] \in Seq(S)
    <3>1. /\ i + 1 \in 1..n /\ i + 1 # 1 /\ (i + 1) - 1 = i
          /\ e[i] = f[i + 1] /\ e[i - 1] = f[i]
      BY <1>1
    <3>2. f[i + 1] = f[i] \o v[i + 1]
      BY <2>5, <3>1
    <3> HIDE DEF e
    <3> QED BY <2>2, <2>7, <3>1, <3>2
  <2>8. e[n - 1] \in Seq(S)
    <3> HIDE DEF e
    <3> QED BY <2>6, <2>7, RecursionType
  <2> QED BY <2>1, <2>6, <2>8
<1> QED BY <1>2, <1>3

(* The names that are left are not empty.                                  *)
LEMMA SplitGroupsType ==
  ASSUME NEW v \in Seq(Seq(Nat))
  PROVE  splitGroups(v) \in Seq(Nat \ {NoName})
<1> DEFINE items == FlattenSeq(v)
           n == Len(items)
           S == Seq(Nat \ {NoName})
           At(g, i) == IF i = 0 THEN <<>>
                       ELSE IF items[i] = NoName THEN g[i - 1]
                       ELSE Append(g[i - 1], items[i])
           f == CHOOSE g : g = [i \in 0..n |-> At(g, i)]
           Keep(x, i) == IF items[i] = NoName THEN x ELSE Append(x, items[i])
<1>1. items \in Seq(Nat)
  BY FlattenType
<1>2. splitGroups(v) = f[n]
  BY DEF splitGroups
<1> HIDE DEF items
<1>3. n \in Nat /\ \A i \in 1..n : items[i] \in Nat
  BY <1>1, LenProperties, ElementOfSeq
<1>4. <<>> \in S
  BY EmptySeq
<1>5. \A i \in 1..n, x \in S : Keep(x, i) \in S
  BY <1>3, AppendProperties
<1> HIDE DEF n, S
<1>6. \E g : g = [i \in 0..n |-> At(g, i)]
  <2> DEFINE step == [i \in 1..n |-> [x \in S |-> Keep(x, i)]]
  <2>1. step \in Steps(S, n)
    <3> HIDE DEF Keep
    <3> QED BY <1>5 DEF Steps
  <2>2. PICK g \in [0..n -> S] :
          /\ g[0] = <<>>
          /\ \A i \in 1..n : g[i] = step[i][g[i - 1]]
    <3> HIDE DEF step
    <3>1. RunsOf(S, <<>>, n, step) # {}
      BY <1>3, <1>4, <2>1, Recursion
    <3> QED BY <3>1 DEF RunsOf
  <2>3. ASSUME NEW i \in 0..n
        PROVE  g[i] = At(g, i)
    <3>1. CASE i = 0
      BY <2>2, <3>1
    <3>2. CASE i # 0
      <4>1. i \in 1..n /\ i - 1 \in 0..n
        BY <1>3, <3>2
      <4>2. g[i] = step[i][g[i - 1]] /\ g[i - 1] \in S
        BY <2>2, <4>1
      <4>3. g[i] = Keep(g[i - 1], i)
        <5> HIDE DEF Keep
        <5> QED BY <4>1, <4>2
      <4> QED BY <3>2, <4>3
    <3> QED BY <3>1, <3>2
  <2> HIDE DEF At
  <2>4. g = [i \in 0..n |-> At(g, i)]
    BY <2>3
  <2> QED BY <2>4
<1>7. f = [i \in 0..n |-> At(f, i)]
  <2> HIDE DEF At
  <2> QED BY <1>6
<1> HIDE DEF f
<1>8. \A i \in 0..n : f[i] = At(f, i)
  <2> HIDE DEF At
  <2> QED BY <1>7
<1>9. f[0] \in S
  BY <1>3, <1>4, <1>8
<1>10. ASSUME NEW i \in 1..n, f[i - 1] \in S
       PROVE  f[i] \in S
  <2>1. i \in 0..n /\ i # 0
    BY <1>3
  <2>2. f[i] = Keep(f[i - 1], i)
    BY <1>8, <2>1
  <2> HIDE DEF Keep
  <2> QED BY <1>5, <1>10, <2>2
<1>11. f[n] \in S
  BY <1>3, <1>9, <1>10, RecursionType
<1> QED BY <1>2, <1>11 DEF S

-----------------------------------------------------------------------------
Identities == [user: Nat, email: Nat, groups: Seq(Nat \ {NoName})]

LEMMA NoIdentityType == NoIdentity \in Identities
BY EmptySeq DEF NoIdentity, NoName, Identities

LEMMA FromType ==
  ASSUME NEW h \in [user: Nat, email: Nat, groups: Seq(Seq(Nat))]
  PROVE  From(h) \in Identities
BY NoIdentityType, SplitGroupsType DEF From, Identities

Joined(a, b, s) == <<a, b>> \o s

LEMMA SameAfterTwo ==
  ASSUME NEW s \in Seq(Nat), NEW t \in Seq(Nat), NEW a \in Nat, NEW b \in Nat,
         NEW c \in Nat, NEW d \in Nat, Joined(a, b, s) = Joined(c, d, t)
  PROVE  a = c /\ b = d /\ s = t
<1> USE DEF Joined
<1>1. /\ <<a, b>> \in Seq(Nat) /\ Len(<<a, b>>) = 2
      /\ <<c, d>> \in Seq(Nat) /\ Len(<<c, d>>) = 2
  OBVIOUS
<1>2. Len(s) \in Nat /\ Len(t) \in Nat
  BY LenProperties
<1>3. /\ Len(<<a, b>> \o s) = 2 + Len(s)
      /\ \A i \in 1..(2 + Len(s)) :
           (<<a, b>> \o s)[i] = IF i <= 2 THEN <<a, b>>[i] ELSE s[i - 2]
  BY <1>1, ConcatProperties
<1>4. /\ Len(<<c, d>> \o t) = 2 + Len(t)
      /\ \A i \in 1..(2 + Len(t)) :
           (<<c, d>> \o t)[i] = IF i <= 2 THEN <<c, d>>[i] ELSE t[i - 2]
  BY <1>1, ConcatProperties
<1>5. Len(s) = Len(t)
  BY <1>2, <1>3, <1>4
<1>6. a = c /\ b = d
  <2>1. 1 \in 1..(2 + Len(s)) /\ 2 \in 1..(2 + Len(s))
    BY <1>2
  <2> QED BY <1>3, <1>4, <1>5, <2>1
<1>7. ASSUME NEW i \in 1..Len(s)
      PROVE  s[i] = t[i]
  <2>1. i + 2 \in 1..(2 + Len(s)) /\ ~(i + 2 <= 2) /\ (i + 2) - 2 = i
    BY <1>2
  <2> QED BY <1>3, <1>4, <1>5, <2>1
<1> QED BY <1>5, <1>6, <1>7, SeqEqual

(***************************************************************************)
(* Two callers that share a key have the same names and the same groups,   *)
(* so the scope one of them resolved may be answered to the other.  The    *)
(* empty group list is joined to nothing, which no list of names is: a     *)
(* name is never empty (rbac.go:277-284, identity.go:83-93).               *)
(***************************************************************************)
THEOREM KeyTellsCallersApart ==
  ASSUME NEW a \in Identities, NEW b \in Identities,
         cacheKey(a) = cacheKey(b)
  PROVE  /\ a.user = b.user /\ a.email = b.email
         /\ Range(a.groups) = Range(b.groups)
<1> DEFINE tail(id) == IF id.groups = <<>> THEN <<NoName>> ELSE Sort(id.groups)
<1>1. ASSUME NEW id \in Identities
      PROVE  /\ id.user \in Nat /\ id.email \in Nat /\ id.groups \in Seq(Nat)
             /\ NoName \notin Range(id.groups)
             /\ tail(id) \in Seq(Nat)
             /\ id.groups # <<>> => /\ tail(id) = Sort(id.groups)
                                    /\ Range(tail(id)) = Range(id.groups)
             /\ cacheKey(id) = Joined(id.user, id.email, tail(id))
  <2>1. id.groups \in Seq(Nat \ {NoName})
    BY DEF Identities
  <2>2. \A i \in 1..Len(id.groups) : id.groups[i] \in Nat \ {NoName}
    BY <2>1, ElementOfSeq
  <2>3. /\ id.groups \in [1..Len(id.groups) -> Nat \ {NoName}]
        /\ Len(id.groups) \in Nat
    BY <2>1, LenProperties
  <2>4. id.groups \in Seq(Nat)
    BY <2>2, <2>3, IsASeq
  <2>5. NoName \notin Range(id.groups)
    BY <2>2, <2>3 DEF Range
  <2>6. <<NoName>> \in Seq(Nat)
    BY DEF NoName
  <2> QED BY <2>4, <2>5, <2>6, SortProperties
          DEF Identities, cacheKey, Joined
<1> HIDE DEF tail
<1>2. a.user = b.user /\ a.email = b.email /\ tail(a) = tail(b)
  BY <1>1, SameAfterTwo
<1>3. NoName \in Range(<<NoName>>)
  <2>1. 1 \in DOMAIN <<NoName>> /\ <<NoName>>[1] = NoName
    OBVIOUS
  <2> QED BY <2>1 DEF Range
<1>4. \A id \in Identities : id.groups = <<>> <=> NoName \in Range(tail(id))
  BY <1>1, <1>3 DEF tail
<1> QED BY <1>1, <1>2, <1>4

-----------------------------------------------------------------------------
(* A sequence is sorted into one order only: in two sorted arrangements of *)
(* the same names no place can hold a smaller one in the first, or fewer   *)
(* places would hold the names up to it than there are such names.         *)

Ascending(s) == \A i, j \in DOMAIN s : i < j => s[i] <= s[j]

Rearranged(s, t) ==
  /\ DOMAIN t = DOMAIN s
  /\ \E p \in Bijection(DOMAIN s, DOMAIN s) : \A i \in DOMAIN s : t[i] = s[p[i]]

LEMMA RearrangedBack ==
  ASSUME NEW s, NEW t, Rearranged(s, t)
  PROVE  Rearranged(t, s)
<1> DEFINE D == DOMAIN s
<1>1. PICK p \in Bijection(D, D) : \A i \in D : t[i] = s[p[i]]
  BY DEF Rearranged
<1>2. /\ p \in [D -> D]
      /\ \A i, j \in D : p[i] = p[j] => i = j
      /\ \A x \in D : \E i \in D : p[i] = x
  BY DEF Bijection, Injection, Surjection, IsInjective
<1> DEFINE q == [x \in D |-> CHOOSE i \in D : p[i] = x]
<1>3. \A x \in D : q[x] \in D /\ p[q[x]] = x
  BY <1>2
<1> HIDE DEF q
<1>4. q \in [D -> D]
  BY <1>3 DEF q
<1>5. q \in Bijection(D, D)
  BY <1>2, <1>3, <1>4 DEF Bijection, Injection, Surjection, IsInjective
<1>6. \A x \in D : s[x] = t[q[x]]
  BY <1>1, <1>3
<1> QED BY <1>5, <1>6 DEF Rearranged

LEMMA RearrangedOn ==
  ASSUME NEW s, NEW t, NEW u, Rearranged(s, t), Rearranged(t, u)
  PROVE  Rearranged(s, u)
<1> DEFINE D == DOMAIN s
<1>1. DOMAIN t = D /\ DOMAIN u = D
  BY DEF Rearranged
<1>2. PICK p \in Bijection(D, D) : \A i \in D : t[i] = s[p[i]]
  BY DEF Rearranged
<1>3. PICK q \in Bijection(D, D) : \A i \in D : u[i] = t[q[i]]
  BY <1>1 DEF Rearranged
<1>4. /\ p \in [D -> D] /\ q \in [D -> D]
      /\ \A i, j \in D : p[i] = p[j] => i = j
      /\ \A x \in D : \E i \in D : p[i] = x
      /\ \A i, j \in D : q[i] = q[j] => i = j
      /\ \A x \in D : \E i \in D : q[i] = x
  BY DEF Bijection, Injection, Surjection, IsInjective
<1> DEFINE c == [i \in D |-> p[q[i]]]
<1>5. c \in [D -> D] /\ \A i, j \in D : c[i] = c[j] => i = j
  <2>1. \A i \in D : q[i] \in D /\ p[q[i]] \in D
    BY <1>4
  <2>2. c \in [D -> D]
    BY <2>1
  <2>3. ASSUME NEW i \in D, NEW j \in D, c[i] = c[j]
        PROVE  i = j
    <3>1. q[i] = q[j]
      BY <1>4, <2>1, <2>3
    <3> QED BY <1>4, <3>1
  <2> QED BY <2>2, <2>3
<1>6. ASSUME NEW x \in D
      PROVE  \E i \in D : c[i] = x
  <2>1. PICK y \in D : p[y] = x
    BY <1>4
  <2>2. PICK i \in D : q[i] = y
    BY <1>4
  <2> QED BY <2>1, <2>2
<1>7. c \in Bijection(D, D)
  BY <1>5, <1>6 DEF Bijection, Injection, Surjection, IsInjective
<1>8. \A i \in D : u[i] = s[c[i]]
  BY <1>2, <1>3, <1>4
<1> QED BY <1>1, <1>7, <1>8 DEF Rearranged

LEMMA CardinalityUpTo ==
  ASSUME NEW k \in Nat
  PROVE  IsFiniteSet(1..k) /\ Cardinality(1..k) = k
<1>1. 1 \in Int /\ k \in Int
  OBVIOUS
<1>2. /\ IsFiniteSet(1..k)
      /\ Cardinality(1..k) = IF 1 > k THEN 0 ELSE k - 1 + 1
  BY <1>1, FS_Interval, Zenon
<1> QED BY <1>2

LEMMA NoSmaller ==
  ASSUME NEW s \in Seq(Nat), NEW t \in Seq(Nat), Ascending(s), Ascending(t),
         Rearranged(s, t), NEW i \in DOMAIN s
  PROVE  s[i] <= t[i]
<1> DEFINE D == DOMAIN s
<1>1. /\ D = 1..Len(s) /\ Len(s) \in Nat /\ DOMAIN t = D
      /\ \A j \in D : s[j] \in Nat /\ t[j] \in Nat
  BY LenProperties, ElementOfSeq DEF Rearranged
<1> SUFFICES ASSUME t[i] < s[i]
             PROVE  FALSE
  BY <1>1
<1>2. PICK p \in Bijection(D, D) : \A j \in D : t[j] = s[p[j]]
  BY DEF Rearranged
<1>3. p \in [D -> D] /\ \A j, k \in D : p[j] = p[k] => j = k
  BY DEF Bijection, Injection, Surjection, IsInjective
<1>4. ASSUME NEW j \in 1..i
      PROVE  j \in D /\ t[j] <= t[i]
  <2>1. j \in D /\ i \in D /\ (j < i \/ j = i)
    BY <1>1
  <2>2. CASE j < i
    BY <1>1, <2>1, <2>2 DEF Ascending
  <2>3. CASE j = i
    BY <1>1, <2>1, <2>3
  <2> QED BY <2>1, <2>2, <2>3
<1>5. \A j \in D : s[j] <= t[i] => j \in 1..(i - 1)
  BY <1>1, SMTT(20) DEF Ascending
<1> DEFINE f == [j \in 1..i |-> p[j]]
<1>6. f \in [1..i -> 1..(i - 1)]
  BY <1>2, <1>3, <1>4, <1>5
<1>7. /\ IsFiniteSet(1..i) /\ IsFiniteSet(1..(i - 1))
      /\ Cardinality(1..(i - 1)) < Cardinality(1..i)
  <2>1. i \in Nat /\ i - 1 \in Nat /\ i - 1 < i
    BY <1>1
  <2> QED BY <2>1, CardinalityUpTo
<1>8. PICK j, k \in 1..i : j # k /\ f[j] = f[k]
  <2> HIDE DEF f
  <2> QED BY <1>6, <1>7, FS_PigeonHole
<1> QED BY <1>3, <1>4, <1>8

LEMMA SortOrders ==
  ASSUME NEW s \in Seq(Nat)
  PROVE  Ascending(Sort(s)) /\ Rearranged(s, Sort(s))
<1> DEFINE D == DOMAIN s
           order == CHOOSE p \in Bijection(D, D) :
                      \A i, j \in D : i < j => s[p[i]] <= s[p[j]]
<1>1. /\ order \in Bijection(D, D)
      /\ \A i, j \in D : i < j => s[order[i]] <= s[order[j]]
  BY SortExists
<1>2. Sort(s) = [i \in D |-> s[order[i]]]
  BY DEF Sort
<1> HIDE DEF order
<1> QED BY <1>1, <1>2 DEF Ascending, Rearranged

LEMMA SortUnique ==
  ASSUME NEW s \in Seq(Nat), NEW t \in Seq(Nat), Rearranged(s, t)
  PROVE  Sort(s) = Sort(t)
<1>1. PICK a, b : a = Sort(s) /\ b = Sort(t)
  OBVIOUS
<1>2. /\ a \in Seq(Nat) /\ b \in Seq(Nat)
      /\ Ascending(a) /\ Rearranged(s, a)
      /\ Ascending(b) /\ Rearranged(t, b)
  BY <1>1, SortProperties, SortOrders
<1>3. Rearranged(a, b) /\ Rearranged(b, a)
  BY <1>2, RearrangedBack, RearrangedOn
<1>4. \A i \in DOMAIN a : a[i] <= b[i] /\ b[i] <= a[i]
  BY <1>2, <1>3, NoSmaller DEF Rearranged
<1>5. /\ DOMAIN a = 1..Len(a) /\ DOMAIN b = 1..Len(b) /\ DOMAIN a = DOMAIN b
      /\ \A i \in DOMAIN a : a[i] \in Nat /\ b[i] \in Nat
      /\ Len(a) \in Nat /\ Len(b) \in Nat
  BY <1>2, <1>3, LenProperties, ElementOfSeq DEF Rearranged
<1>6. \A i \in DOMAIN a : a[i] = b[i]
  BY <1>4, <1>5
<1>7. a = [i \in DOMAIN a |-> a[i]] /\ b = [i \in DOMAIN b |-> b[i]]
  BY <1>2, LenProperties
<1> QED BY <1>1, <1>5, <1>6, <1>7

(***************************************************************************)
(* "Groups are sorted so that an identity presenting the same groups in a  *)
(* different header order reuses its entry instead of duplicating one"     *)
(* (rbac.go:277-279).                                                      *)
(***************************************************************************)
THEOREM KeyIgnoresHeaderOrder ==
  ASSUME NEW a \in Identities, NEW b \in Identities,
         a.user = b.user, a.email = b.email, Rearranged(a.groups, b.groups)
  PROVE  cacheKey(a) = cacheKey(b)
<1>1. ASSUME NEW id \in Identities
      PROVE  /\ id.groups \in Seq(Nat)
             /\ id.groups = <<>> <=> DOMAIN id.groups = {}
  <2>1. id.groups \in Seq(Nat \ {NoName})
    BY DEF Identities
  <2>2. \A i \in 1..Len(id.groups) : id.groups[i] \in Nat \ {NoName}
    BY <2>1, ElementOfSeq
  <2>3. /\ id.groups \in [1..Len(id.groups) -> Nat \ {NoName}]
        /\ Len(id.groups) \in Nat
    BY <2>1, LenProperties
  <2>4. id.groups \in Seq(Nat)
    BY <2>2, <2>3, IsASeq
  <2>5. id.groups = <<>> <=> Len(id.groups) = 0
    BY <2>4, EmptySeq
  <2>6. DOMAIN id.groups = {} <=> Len(id.groups) = 0
    <3>1. DOMAIN id.groups = 1..Len(id.groups)
      BY <2>3
    <3>2. Len(id.groups) # 0 => 1 \in 1..Len(id.groups)
      BY <2>3
    <3>3. Len(id.groups) = 0 => 1..Len(id.groups) = {}
      OBVIOUS
    <3> QED BY <3>1, <3>2, <3>3
  <2> QED BY <2>4, <2>5, <2>6
<1>2. a.groups = <<>> <=> b.groups = <<>>
  BY <1>1 DEF Rearranged
<1>3. Sort(a.groups) = Sort(b.groups)
  BY <1>1, SortUnique
<1> QED BY <1>2, <1>3 DEF cacheKey

=============================================================================
