---------------------------- MODULE LruTtlProofs ----------------------------
(***************************************************************************)
(* Theorems about UrlNormal and LruTtl: two URLs have one normal form      *)
(* exactly if they name one page, whatever the URLs; what the L1 gives up  *)
(* is what was used the longest ago; and it is the bounded map of pages    *)
(* that BoundedMap describes.                                              *)
(***************************************************************************)
EXTENDS LruTtl, FiniteSetTheorems, TLAPS

----------------------------------------------------------------------------
(* Places.  In a total order the number of members up to one is its place. *)

IsOrder(S, R) ==
  /\ \A i \in S : <<i, i>> \in R
  /\ \A i, j \in S : <<i, j>> \in R \/ <<j, i>> \in R
  /\ \A i, j \in S : <<i, j>> \in R /\ <<j, i>> \in R => i = j
  /\ \A i, j, k \in S : <<i, j>> \in R /\ <<j, k>> \in R => <<i, k>> \in R
UpTo(S, R, i) == {j \in S : <<j, i>> \in R}
Pos(S, R, i) == Cardinality(UpTo(S, R, i))

LEMMA PosOrdered ==
  ASSUME NEW S, IsFiniteSet(S), NEW R, IsOrder(S, R), NEW i \in S, NEW j \in S
  PROVE  /\ Pos(S, R, i) \in 1..Cardinality(S)
         /\ <<i, j>> \in R <=> Pos(S, R, i) <= Pos(S, R, j)
         /\ Pos(S, R, i) = Pos(S, R, j) => i = j
<1>1. ASSUME NEW a \in S
      PROVE  /\ IsFiniteSet(UpTo(S, R, a)) /\ Pos(S, R, a) \in 1..Cardinality(S)
             /\ Cardinality(S) \in Nat
  <2>1. UpTo(S, R, a) \in SUBSET S /\ a \in UpTo(S, R, a)
    BY DEF UpTo, IsOrder
  <2>2. IsFiniteSet(UpTo(S, R, a)) /\ Cardinality(UpTo(S, R, a)) <= Cardinality(S)
    BY <2>1, FS_Subset
  <2>3. Cardinality(UpTo(S, R, a)) \in Nat /\ Cardinality(S) \in Nat
    BY <2>2, FS_CardinalityType
  <2>4. Cardinality(UpTo(S, R, a)) # 0
    BY <2>1, <2>2, FS_EmptySet
  <2>. QED
    BY <2>2, <2>3, <2>4 DEF Pos
<1>2. ASSUME NEW a \in S, NEW b \in S, <<a, b>> \in R
      PROVE  /\ Pos(S, R, a) <= Pos(S, R, b)
             /\ Pos(S, R, a) = Pos(S, R, b) => a = b
  <2>1. UpTo(S, R, a) \in SUBSET UpTo(S, R, b)
    BY <1>2 DEF UpTo, IsOrder
  <2>2. /\ Cardinality(UpTo(S, R, a)) <= Cardinality(UpTo(S, R, b))
        /\ Cardinality(UpTo(S, R, a)) = Cardinality(UpTo(S, R, b))
             => UpTo(S, R, a) = UpTo(S, R, b)
    BY <1>1, <2>1, FS_Subset
  <2>3. b \in UpTo(S, R, a) => a = b
    BY <1>2 DEF UpTo, IsOrder
  <2>4. b \in UpTo(S, R, b)
    BY DEF UpTo, IsOrder
  <2>. QED
    BY <2>2, <2>3, <2>4 DEF Pos
<1>3. <<i, j>> \in R \/ <<j, i>> \in R
  BY DEF IsOrder
<1>4. Pos(S, R, i) = Pos(S, R, j) => i = j
  BY <1>2, <1>3
<1>5. Pos(S, R, i) <= Pos(S, R, j) => <<i, j>> \in R
  <2>1. SUFFICES ASSUME Pos(S, R, i) <= Pos(S, R, j), ~(<<i, j>> \in R) PROVE FALSE
    OBVIOUS
  <2>2. Pos(S, R, j) <= Pos(S, R, i)
    BY <1>2, <1>3, <2>1
  <2>3. Pos(S, R, i) \in Nat /\ Pos(S, R, j) \in Nat
    BY <1>1
  <2>4. i = j
    BY <1>4, <2>1, <2>2, <2>3
  <2>. QED
    BY <2>1, <2>4 DEF IsOrder
<1>. QED
  BY <1>1, <1>2, <1>4, <1>5

\* Every place is taken.
LEMMA PosTaken ==
  ASSUME NEW S, IsFiniteSet(S), NEW R, IsOrder(S, R), NEW p \in 1..Cardinality(S)
  PROVE  \E i \in S : Pos(S, R, i) = p
<1>. DEFINE N == Cardinality(S)
            f == [i \in S |-> Pos(S, R, i)]
<1>1. N \in Nat
  BY FS_CardinalityType
<1>2. IsFiniteSet(1..N) /\ Cardinality(1..N) = N
  BY <1>1, FS_Interval
<1>3. f \in Injection(S, 1..N)
  <2>1. \A i \in S : Pos(S, R, i) \in 1..N
    BY PosOrdered
  <2>2. \A i, j \in S : Pos(S, R, i) = Pos(S, R, j) => i = j
    BY PosOrdered
  <2>. QED
    BY <2>1, <2>2 DEF Injection, IsInjective
<1>4. f \in Surjection(S, 1..N)
  BY <1>2, <1>3, FS_Injection
<1>. QED
  BY <1>4 DEF Surjection

\* Two orders that are alike have their members at the same places.
Alike(f, S, R, Q) == \A i, j \in S : <<i, j>> \in R <=> <<f[i], f[j]>> \in Q

LEMMA PosAlike ==
  ASSUME NEW S, IsFiniteSet(S), NEW R, NEW T, NEW Q, NEW f \in Bijection(S, T), Alike(f, S, R, Q)
  PROVE  /\ Cardinality(S) = Cardinality(T)
         /\ \A i \in S : Pos(S, R, i) = Pos(T, Q, f[i])
<1>1. /\ \A i \in S : f[i] \in T
      /\ \A i, j \in S : f[i] = f[j] => i = j
      /\ \A t \in T : \E i \in S : f[i] = t
      /\ f \in [S -> T]
      /\ \A i, j \in S : <<i, j>> \in R <=> <<f[i], f[j]>> \in Q
  BY DEF Alike, Bijection, Injection, IsInjective, Surjection
<1>2. ExistsBijection(S, T)
  BY DEF ExistsBijection
<1>3. ASSUME NEW i \in S PROVE Pos(S, R, i) = Pos(T, Q, f[i])
  <2>. DEFINE A == UpTo(S, R, i)
              B == UpTo(T, Q, f[i])
              g == [j \in A |-> f[j]]
  <2>1. A \in SUBSET S /\ \A j \in A : f[j] \in B
    BY <1>1 DEF UpTo
  <2>2. \A b \in B : \E j \in A : f[j] = b
    <3>1. SUFFICES ASSUME NEW b \in B PROVE \E j \in A : f[j] = b
      OBVIOUS
    <3>2. PICK j \in S : f[j] = b
      BY <1>1 DEF UpTo
    <3>3. <<f[j], f[i]>> \in Q
      BY <3>2 DEF UpTo
    <3>. QED
      BY <1>1, <3>2, <3>3 DEF UpTo
  <2>. HIDE DEF A, B
  <2>3. g \in [A -> B] /\ \A j \in A : g[j] = f[j]
    BY <2>1
  <2>. HIDE DEF g
  <2>4. g \in Bijection(A, B)
    BY <1>1, <2>1, <2>2, <2>3 DEF Bijection, Injection, IsInjective, Surjection
  <2>5. ExistsBijection(A, B)
    BY <2>4 DEF ExistsBijection
  <2>6. IsFiniteSet(A)
    BY <2>1, FS_Subset
  <2>7. Cardinality(A) = Cardinality(B)
    BY <2>5, <2>6, FS_Bijection
  <2>. QED
    BY <2>7 DEF A, B, Pos
<1>. QED
  BY <1>2, <1>3, FS_Bijection

----------------------------------------------------------------------------
(* Sequences by place *)

\* The list of what I picks from q, member by member.
List(q, I, N) == [p \in 1..N |-> q[I[p]]]
Into(q, S, X) == \A i \in S : q[i] \in X
Picks(I, S, R) == \A p \in 1..Cardinality(S) : I[p] \in S /\ Pos(S, R, I[p]) = p

LEMMA ListIs ==
  ASSUME NEW N \in Nat, NEW X, NEW q, NEW I, NEW S, Into(q, S, X), \A p \in 1..N : I[p] \in S
  PROVE  /\ List(q, I, N) \in Seq(X) /\ Len(List(q, I, N)) = N
         /\ \A p \in 1..N : List(q, I, N)[p] = q[I[p]]
<1>. DEFINE A == List(q, I, N)
<1>1. \A p \in 1..N : A[p] = q[I[p]]
  BY DEF List
<1>2. A \in [1..N -> X]
  BY DEF List, Into
<1>. HIDE DEF A
<1>3. A \in Seq(X) /\ Len(A) = N
  BY <1>2
<1>. QED
  BY <1>1, <1>3 DEF A

LEMMA CountUpTo ==
  ASSUME NEW n \in Nat
  PROVE  IsFiniteSet(1..n) /\ Cardinality(1..n) = n
BY FS_Interval

\* A is q at the members of S, in the order R.
Arranged(A, q, S, R, X) ==
  /\ A \in Seq(X) /\ Len(A) = Cardinality(S) /\ Len(A) \in Nat
  /\ \A i \in S : Pos(S, R, i) \in 1..Len(A) /\ A[Pos(S, R, i)] = q[i]
  /\ \A p \in 1..Len(A) : \E i \in S : Pos(S, R, i) = p /\ A[p] = q[i]

LEMMA ArrangedIs ==
  ASSUME NEW S, IsFiniteSet(S), NEW R, IsOrder(S, R), NEW X, NEW q, Into(q, S, X),
         NEW I, Picks(I, S, R), NEW A, A = List(q, I, Cardinality(S))
  PROVE  Arranged(A, q, S, R, X)
<1>. DEFINE N == Cardinality(S)
<1>1. N \in Nat
  BY FS_CardinalityType
<1>2. \A p \in 1..N : I[p] \in S /\ Pos(S, R, I[p]) = p
  BY DEF Picks
<1>3. \A i \in S : Pos(S, R, i) \in 1..N
  BY PosOrdered
<1>4. ASSUME NEW i \in S PROVE I[Pos(S, R, i)] = i
  <2>1. I[Pos(S, R, i)] \in S /\ Pos(S, R, I[Pos(S, R, i)]) = Pos(S, R, i)
    BY <1>2, <1>3
  <2>. QED
    BY <2>1, PosOrdered
<1>5. A = List(q, I, N)
  OBVIOUS
<1>. HIDE DEF N
<1>6. /\ A \in Seq(X) /\ Len(A) = N
      /\ \A p \in 1..N : A[p] = q[I[p]]
  BY <1>1, <1>2, <1>5, ListIs
<1>7. \A i \in S : Pos(S, R, i) \in 1..N /\ A[Pos(S, R, i)] = q[i]
  BY <1>3, <1>4, <1>6
<1>8. \A p \in 1..N : \E i \in S : Pos(S, R, i) = p /\ A[p] = q[i]
  BY <1>2, <1>6
<1>. QED
  BY <1>1, <1>6, <1>7, <1>8 DEF N, Arranged

AtMost(S) == {ss \in S \X S : ss[1] <= ss[2]}

LEMMA RankIs ==
  ASSUME NEW S \in SUBSET Int
  PROVE  /\ IsOrder(S, AtMost(S))
         /\ \A i \in S : Pos(S, AtMost(S), i) = Rank(S, i)
         /\ \A i, j \in S : <<i, j>> \in AtMost(S) <=> i <= j
<1>1. \A i, j \in S : <<i, j>> \in AtMost(S) <=> i <= j
  BY DEF AtMost
<1>2. IsOrder(S, AtMost(S))
  BY <1>1 DEF IsOrder
<1>3. ASSUME NEW i \in S PROVE Pos(S, AtMost(S), i) = Rank(S, i)
  <2>1. UpTo(S, AtMost(S), i) = {j \in S : j <= i}
    BY <1>1 DEF UpTo
  <2>. QED
    BY <2>1 DEF Pos, Rank
<1>. QED
  BY <1>1, <1>2, <1>3

LEMMA RankOrdered ==
  ASSUME NEW S \in SUBSET Int, IsFiniteSet(S), NEW i \in S, NEW j \in S
  PROVE  /\ Rank(S, i) \in 1..Cardinality(S)
         /\ i <= j <=> Rank(S, i) <= Rank(S, j)
         /\ Rank(S, i) = Rank(S, j) => i = j
<1>1. Rank(S, i) = Pos(S, AtMost(S), i) /\ Rank(S, j) = Pos(S, AtMost(S), j)
  BY RankIs
<1>2. IsOrder(S, AtMost(S)) /\ (<<i, j>> \in AtMost(S) <=> i <= j)
  BY RankIs
<1>. QED
  BY <1>1, <1>2, PosOrdered

LEMMA RankTaken ==
  ASSUME NEW S \in SUBSET Int, IsFiniteSet(S), NEW p \in 1..Cardinality(S)
  PROVE  \E i \in S : Rank(S, i) = p
<1>1. IsOrder(S, AtMost(S)) /\ \A i \in S : Pos(S, AtMost(S), i) = Rank(S, i)
  BY RankIs
<1>2. \E i \in S : Pos(S, AtMost(S), i) = p
  BY <1>1, PosTaken
<1>. QED
  BY <1>1, <1>2

LEMMA RankOfAll ==
  ASSUME NEW n \in Nat, NEW p \in 1..n
  PROVE  Rank(1..n, p) = p /\ Cardinality(1..n) = n
<1>1. {j \in 1..n : j <= p} = 1..p
  OBVIOUS
<1>2. Cardinality(1..p) = p /\ Cardinality(1..n) = n
  BY FS_Interval
<1>. QED
  BY <1>1, <1>2 DEF Rank

LEMMA TakenIs ==
  ASSUME NEW S \in SUBSET Int, IsFiniteSet(S), NEW X, NEW q, Into(q, S, X)
  PROVE  /\ Arranged(Taken(q, S), q, S, AtMost(S), X)
         /\ IsOrder(S, AtMost(S))
         /\ \A i \in S : Pos(S, AtMost(S), i) = Rank(S, i)
<1>. DEFINE N == Cardinality(S)
            I == [p \in 1..N |-> CHOOSE i \in S : Rank(S, i) = p]
<1>1. IsOrder(S, AtMost(S)) /\ \A i \in S : Pos(S, AtMost(S), i) = Rank(S, i)
  BY RankIs
<1>2. Taken(q, S) = List(q, I, N)
  BY DEF Taken, List
<1>3. ASSUME NEW p \in 1..N PROVE I[p] \in S /\ Rank(S, I[p]) = p
  <2>1. \E i \in S : Rank(S, i) = p
    BY RankTaken
  <2>. QED
    BY <2>1
<1>. HIDE DEF I
<1>4. Picks(I, S, AtMost(S))
  BY <1>1, <1>3 DEF Picks
<1>5. Arranged(Taken(q, S), q, S, AtMost(S), X)
  BY <1>1, <1>2, <1>4, ArrangedIs
<1>. QED
  BY <1>1, <1>5

\* To take the first n is to take them as they are.
LEMMA TakenFirst ==
  ASSUME NEW n \in Nat, NEW q
  PROVE  Taken(q, 1..n) = [p \in 1..n |-> q[p]]
<1>. DEFINE I(p) == CHOOSE i \in 1..n : Rank(1..n, i) = p
<1>1. \A p \in 1..n : Rank(1..n, p) = p
  BY RankOfAll
<1>2. ASSUME NEW p \in 1..n PROVE I(p) = p
  <2>1. I(p) \in 1..n /\ Rank(1..n, I(p)) = p
    BY <1>1
  <2>. QED
    BY <1>1, <2>1
<1>3. Cardinality(1..n) = n
  BY CountUpTo
<1>4. Taken(q, 1..n) = [p \in 1..n |-> q[I(p)]]
  BY <1>3 DEF Taken
<1>. HIDE DEF I
<1>. QED
  BY <1>2, <1>4

----------------------------------------------------------------------------
(* The sort of the query *)

Pairs == QueryKey \X Text
ByKey(q) == {ss \in NoTracking(q) \X NoTracking(q) : Before(q, ss[1], ss[2])}

LEMMA QueryIs ==
  ASSUME NEW q \in Query
  PROVE  /\ Len(q) \in Nat /\ IsFiniteSet(1..Len(q)) /\ Cardinality(1..Len(q)) = Len(q)
         /\ \A i \in 1..Len(q) : /\ q[i] \in Pairs /\ q[i][1] \in QueryKey /\ q[i][1] \in Int
                                 /\ q[i] = <<q[i][1], q[i][2]>>
<1>1. Len(q) \in Nat /\ \A i \in 1..Len(q) : q[i] \in Pairs
  BY DEF Query, Pairs
<1>2. QueryKey \subseteq Int
  BY UrlAssumption
<1>3. \A t \in Pairs : t[1] \in QueryKey /\ t = <<t[1], t[2]>>
  BY DEF Pairs
<1>. QED
  BY <1>1, <1>2, <1>3, CountUpTo

LEMMA ByKeyIs ==
  ASSUME NEW q \in Query
  PROVE  /\ NoTracking(q) \in SUBSET (1..Len(q)) /\ IsFiniteSet(NoTracking(q))
         /\ \A i, j \in NoTracking(q) : <<i, j>> \in ByKey(q) <=> Before(q, i, j)
         /\ IsOrder(NoTracking(q), ByKey(q))
         /\ Into(q, NoTracking(q), Pairs)
<1>. DEFINE S == NoTracking(q)
            R == ByKey(q)
<1>1. S \in SUBSET (1..Len(q)) /\ IsFiniteSet(S)
  <2>1. S \in SUBSET (1..Len(q))
    BY DEF NoTracking
  <2>. QED
    BY <2>1, QueryIs, FS_Subset
<1>2. \A i, j \in S : <<i, j>> \in R <=> Before(q, i, j)
  BY DEF ByKey
<1>3. \A i \in S : i \in Int /\ q[i][1] \in Int /\ q[i] \in Pairs
  BY <1>1, QueryIs
<1>. HIDE DEF S, R
<1>4. IsOrder(S, R)
  <2>1. \A i \in S : Before(q, i, i)
    BY <1>3 DEF Before
  <2>2. \A i, j \in S : Before(q, i, j) \/ Before(q, j, i)
    BY <1>3 DEF Before
  <2>3. \A i, j \in S : Before(q, i, j) /\ Before(q, j, i) => i = j
    BY <1>3 DEF Before
  <2>4. \A i, j, k \in S : Before(q, i, j) /\ Before(q, j, k) => Before(q, i, k)
    BY <1>3 DEF Before
  <2>. QED
    BY <1>2, <2>1, <2>2, <2>3, <2>4 DEF IsOrder
<1>. QED
  BY <1>1, <1>2, <1>3, <1>4 DEF S, R, Into

LEMMA SortedIs ==
  ASSUME NEW q \in Query
  PROVE  Arranged(SortedQuery(q), q, NoTracking(q), ByKey(q), Pairs)
<1>. DEFINE S == NoTracking(q)
            R == ByKey(q)
            N == Cardinality(S)
            place(i) == Cardinality({j \in S : Before(q, j, i)})
            I == [p \in 1..N |-> CHOOSE i \in S : place(i) = p]
<1>1. IsFiniteSet(S) /\ IsOrder(S, R) /\ Into(q, S, Pairs)
  BY ByKeyIs
<1>2. SortedQuery(q) = List(q, I, N)
  BY DEF SortedQuery, List
<1>3. \A i \in S : Pos(S, R, i) = place(i)
  <2>1. ASSUME NEW i \in S PROVE UpTo(S, R, i) = {j \in S : Before(q, j, i)}
    BY ByKeyIs DEF UpTo
  <2>. QED
    BY <2>1 DEF Pos
<1>. HIDE DEF place, S, R
<1>4. ASSUME NEW p \in 1..N PROVE I[p] \in S /\ Pos(S, R, I[p]) = p
  <2>1. \E i \in S : Pos(S, R, i) = p
    BY <1>1, PosTaken
  <2>. QED
    BY <1>3, <2>1
<1>. HIDE DEF I
<1>5. Picks(I, S, R)
  BY <1>4 DEF Picks
<1>6. Arranged(SortedQuery(q), q, S, R, Pairs)
  BY <1>1, <1>2, <1>5, ArrangedIs
<1>. QED
  BY <1>6 DEF S, R

\* What a sorted list is.
InKeyOrder(A) ==
  /\ A \in Query
  /\ \A p \in 1..Len(A) : A[p][1] \in QueryKey \ TrackingKeys
  /\ \A p, r \in 1..Len(A) : p <= r => A[p][1] <= A[r][1]

LEMMA SortSorts ==
  ASSUME NEW q \in Query
  PROVE  InKeyOrder(SortedQuery(q))
<1>. DEFINE A == SortedQuery(q)
            S == NoTracking(q)
            R == ByKey(q)
<1>1. /\ A \in Seq(Pairs)
      /\ \A p \in 1..Len(A) : \E i \in S : Pos(S, R, i) = p /\ A[p] = q[i]
  BY SortedIs DEF Arranged
<1>2. /\ \A i \in S : i \in 1..Len(q) /\ q[i][1] \in QueryKey \ TrackingKeys /\ q[i][1] \in Int
      /\ IsFiniteSet(S) /\ IsOrder(S, R)
      /\ \A i, j \in S : <<i, j>> \in R <=> Before(q, i, j)
  <2>1. \A i \in S : i \in 1..Len(q) /\ q[i][1] \notin TrackingKeys
    BY DEF NoTracking
  <2>2. \A i \in S : q[i][1] \in QueryKey /\ q[i][1] \in Int
    BY <2>1, QueryIs
  <2>. QED
    BY <2>1, <2>2, ByKeyIs
<1>. HIDE DEF A, S, R
<1>3. \A p \in 1..Len(A) : A[p][1] \in QueryKey \ TrackingKeys
  BY <1>1, <1>2
<1>4. ASSUME NEW p \in 1..Len(A), NEW r \in 1..Len(A), p <= r
      PROVE  A[p][1] <= A[r][1]
  <2>1. PICK i \in S : Pos(S, R, i) = p /\ A[p] = q[i]
    BY <1>1
  <2>2. PICK j \in S : Pos(S, R, j) = r /\ A[r] = q[j]
    BY <1>1
  <2>3. <<i, j>> \in R <=> Pos(S, R, i) <= Pos(S, R, j)
    BY <1>2, PosOrdered
  <2>4. Before(q, i, j)
    BY <1>2, <1>4, <2>1, <2>2, <2>3
  <2>. QED
    BY <1>2, <2>1, <2>2, <2>4 DEF Before
<1>. QED
  BY <1>1, <1>3, <1>4 DEF InKeyOrder, A, Query, Pairs

LEMMA PlacesAre ==
  ASSUME NEW q \in Query, NEW k
  PROVE  /\ PlacesOf(q, k) \in SUBSET (1..Len(q)) /\ PlacesOf(q, k) \in SUBSET Int
         /\ IsFiniteSet(PlacesOf(q, k))
         /\ \A i : i \in PlacesOf(q, k) <=> i \in 1..Len(q) /\ q[i][1] = k
<1>1. PlacesOf(q, k) \in SUBSET (1..Len(q))
  BY DEF PlacesOf
<1>2. IsFiniteSet(PlacesOf(q, k))
  BY <1>1, QueryIs, FS_Subset
<1>3. 1..Len(q) \in SUBSET Int
  BY QueryIs
<1>. QED
  BY <1>1, <1>2, <1>3 DEF PlacesOf

\* The sort leaves the values of a key as they are, in their order.
LEMMA SortKeepsValues ==
  ASSUME NEW q \in Query, NEW k \in QueryKey \ TrackingKeys
  PROVE  SameValues(q, SortedQuery(q), k)
<1>. DEFINE A == SortedQuery(q)
            S == NoTracking(q)
            R == ByKey(q)
            P == PlacesOf(q, k)
            T == PlacesOf(A, k)
            f == [i \in P |-> Pos(S, R, i)]
<1>1. /\ A \in Seq(Pairs)
      /\ \A i \in S : Pos(S, R, i) \in 1..Len(A) /\ A[Pos(S, R, i)] = q[i]
      /\ \A p \in 1..Len(A) : \E i \in S : Pos(S, R, i) = p /\ A[p] = q[i]
  BY SortedIs DEF Arranged
<1>2. /\ IsFiniteSet(S) /\ IsOrder(S, R) /\ S \in SUBSET (1..Len(q))
      /\ \A i, j \in S : <<i, j>> \in R <=> Before(q, i, j)
  BY ByKeyIs
<1>3. /\ P \in SUBSET Int /\ IsFiniteSet(P)
      /\ \A i \in P : i \in S /\ q[i][1] = k
      /\ \A i \in S : q[i][1] = k => i \in P
  <2>1. \A i \in P : i \in S
    BY PlacesAre DEF NoTracking
  <2>. QED
    BY <1>2, <2>1, PlacesAre
<1>4. A \in Query
  BY <1>1 DEF Query, Pairs
<1>5. /\ T \in SUBSET Int /\ IsFiniteSet(T)
      /\ \A p : p \in T <=> p \in 1..Len(A) /\ A[p][1] = k
  BY <1>4, PlacesAre
<1>. HIDE DEF A, S, R, P, T
<1>6. ASSUME NEW i \in P
      PROVE  f[i] \in T /\ f[i] = Pos(S, R, i) /\ A[f[i]] = q[i]
  <2>1. f[i] = Pos(S, R, i) /\ i \in S /\ q[i][1] = k
    BY <1>3
  <2>2. f[i] \in 1..Len(A) /\ A[f[i]] = q[i]
    BY <1>1, <2>1
  <2>. QED
    BY <1>5, <2>1, <2>2
<1>7. \A p \in T : \E i \in P : f[i] = p
  <2>1. SUFFICES ASSUME NEW p \in T PROVE \E i \in P : f[i] = p
    OBVIOUS
  <2>2. PICK i \in S : Pos(S, R, i) = p /\ A[p] = q[i]
    BY <1>1, <1>5
  <2>3. i \in P
    BY <1>3, <1>5, <2>2
  <2>. QED
    BY <1>6, <2>2, <2>3
<1>8. ASSUME NEW i \in P, NEW j \in P
      PROVE  /\ <<i, j>> \in AtMost(P) <=> <<f[i], f[j]>> \in AtMost(T)
             /\ f[i] = f[j] => i = j
  <2>1. i \in S /\ j \in S /\ q[i][1] = k /\ q[j][1] = k /\ i \in Int /\ j \in Int /\ k \in Int
    <3>1. i \in S /\ j \in S /\ q[i][1] = k /\ q[j][1] = k /\ i \in Int /\ j \in Int
      BY <1>3
    <3>. QED
      BY <3>1, UrlAssumption
  <2>2. f[i] = Pos(S, R, i) /\ f[j] = Pos(S, R, j) /\ f[i] \in T /\ f[j] \in T
    BY <1>6
  <2>3. /\ <<i, j>> \in R <=> f[i] <= f[j]
        /\ f[i] = f[j] => i = j
    BY <1>2, <2>1, <2>2, PosOrdered
  <2>4. <<i, j>> \in R <=> i <= j
    BY <1>2, <2>1 DEF Before
  <2>5. <<i, j>> \in AtMost(P) <=> i <= j
    BY DEF AtMost
  <2>6. <<f[i], f[j]>> \in AtMost(T) <=> f[i] <= f[j]
    BY <2>2 DEF AtMost
  <2>. QED
    BY <2>3, <2>4, <2>5, <2>6
<1>9. f \in [P -> T]
  BY <1>6
<1>. HIDE DEF f
<1>10. f \in Bijection(P, T)
  BY <1>7, <1>8, <1>9 DEF Bijection, Injection, IsInjective, Surjection
<1>11. /\ Cardinality(P) = Cardinality(T)
       /\ \A i \in P : Pos(P, AtMost(P), i) = Pos(T, AtMost(T), f[i])
  <2>1. Alike(f, P, AtMost(P), AtMost(T))
    BY <1>8 DEF Alike
  <2>. QED
    BY <1>3, <1>10, <2>1, PosAlike
<1>12. ASSUME NEW i \in P, NEW j \in T, Rank(P, i) = Rank(T, j)
       PROVE  q[i][2] = A[j][2]
  <2>1. Rank(P, i) = Pos(P, AtMost(P), i)
    BY <1>3, RankIs
  <2>2. Rank(T, f[i]) = Pos(T, AtMost(T), f[i])
    BY <1>5, <1>6, RankIs
  <2>3. f[i] \in T /\ Rank(T, f[i]) = Rank(T, j)
    BY <1>6, <1>11, <1>12, <2>1, <2>2
  <2>4. f[i] = j
    BY <1>5, <2>3, RankOrdered
  <2>. QED
    BY <1>6, <2>4
<1>. QED
  BY <1>11, <1>12 DEF SameValues, P, T, A

LEMMA SameValuesTurned ==
  ASSUME NEW q \in Query, NEW r \in Query, NEW k, SameValues(q, r, k)
  PROVE  SameValues(r, q, k)
BY DEF SameValues

LEMMA SameValuesOnward ==
  ASSUME NEW q \in Query, NEW r \in Query, NEW s \in Query, NEW k,
         SameValues(q, r, k), SameValues(r, s, k)
  PROVE  SameValues(q, s, k)
<1>. DEFINE P == PlacesOf(q, k)
            T == PlacesOf(r, k)
            Z == PlacesOf(s, k)
<1>1. /\ P \in SUBSET Int /\ IsFiniteSet(P) /\ T \in SUBSET Int /\ IsFiniteSet(T)
      /\ Cardinality(P) = Cardinality(T) /\ Cardinality(T) = Cardinality(Z)
      /\ \A i \in P, j \in T : Rank(P, i) = Rank(T, j) => q[i][2] = r[j][2]
      /\ \A i \in T, j \in Z : Rank(T, i) = Rank(Z, j) => r[i][2] = s[j][2]
  BY PlacesAre DEF SameValues
<1>. HIDE DEF P, T, Z
<1>2. ASSUME NEW i \in P, NEW j \in Z, Rank(P, i) = Rank(Z, j)
      PROVE  q[i][2] = s[j][2]
  <2>1. Rank(P, i) \in 1..Cardinality(T)
    BY <1>1, RankOrdered
  <2>2. PICK m \in T : Rank(T, m) = Rank(P, i)
    BY <1>1, <2>1, RankTaken
  <2>. QED
    BY <1>1, <1>2, <2>2
<1>. QED
  BY <1>1, <1>2 DEF SameValues, P, Z

\* Two sorted lists with the same values of every key are one.
SameKeys(A, B) == \A k \in QueryKey \ TrackingKeys : SameValues(A, B, k)
Peers(A, B, i, j) ==
  /\ j \in 1..Len(B) /\ B[j] = A[i]
  /\ Rank(PlacesOf(A, A[i][1]), i) = Rank(PlacesOf(B, A[i][1]), j)

LEMMA PeerIs ==
  ASSUME NEW A, InKeyOrder(A), NEW B, InKeyOrder(B), SameKeys(A, B), NEW i \in 1..Len(A)
  PROVE  \E j : Peers(A, B, i, j)
<1>. DEFINE k == A[i][1]
            P == PlacesOf(A, k)
            T == PlacesOf(B, k)
<1>1. A \in Query /\ B \in Query /\ k \in QueryKey \ TrackingKeys
  BY DEF InKeyOrder
<1>2. SameValues(A, B, k)
  BY <1>1 DEF SameKeys
<1>3. /\ P \in SUBSET Int /\ IsFiniteSet(P) /\ i \in P
      /\ T \in SUBSET Int /\ IsFiniteSet(T)
      /\ \A j \in T : j \in 1..Len(B) /\ B[j][1] = k
  BY <1>1, PlacesAre
<1>4. /\ Cardinality(P) = Cardinality(T)
      /\ \A j \in T : Rank(P, i) = Rank(T, j) => A[i][2] = B[j][2]
  BY <1>2, <1>3 DEF SameValues
<1>5. A[i] = <<k, A[i][2]>> /\ \A j \in 1..Len(B) : B[j] = <<B[j][1], B[j][2]>>
  BY <1>1, QueryIs
<1>. HIDE DEF P, T, k
<1>6. Rank(P, i) \in 1..Cardinality(T)
  BY <1>3, <1>4, RankOrdered
<1>7. PICK j \in T : Rank(T, j) = Rank(P, i)
  BY <1>3, <1>6, RankTaken
<1>8. j \in 1..Len(B) /\ B[j] = A[i]
  BY <1>3, <1>4, <1>5, <1>7
<1>. QED
  BY <1>7, <1>8 DEF Peers, P, T, k

LEMMA PeersOrdered ==
  ASSUME NEW A, InKeyOrder(A), NEW B, InKeyOrder(B),
         NEW i \in 1..Len(A), NEW j \in 1..Len(A), NEW m, NEW n,
         Peers(A, B, i, m), Peers(A, B, j, n)
  PROVE  /\ i <= j <=> m <= n
         /\ m = n => i = j
<1>1. /\ m \in 1..Len(B) /\ B[m] = A[i] /\ n \in 1..Len(B) /\ B[n] = A[j]
      /\ Rank(PlacesOf(A, A[i][1]), i) = Rank(PlacesOf(B, A[i][1]), m)
      /\ Rank(PlacesOf(A, A[j][1]), j) = Rank(PlacesOf(B, A[j][1]), n)
  BY DEF Peers
<1>2. A \in Query /\ B \in Query
  BY DEF InKeyOrder
<1>3. A[i][1] \in Int /\ A[j][1] \in Int /\ i \in Int /\ j \in Int /\ m \in Int /\ n \in Int
  <2>1. A[i][1] \in Int /\ A[j][1] \in Int
    BY <1>2, QueryIs
  <2>. QED
    BY <1>1, <1>2, <2>1, QueryIs
<1>4. CASE A[i][1] = A[j][1]
  <2>. DEFINE P == PlacesOf(A, A[i][1])
              T == PlacesOf(B, A[i][1])
  <2>1. i \in P /\ j \in P /\ P \in SUBSET Int /\ IsFiniteSet(P)
    BY <1>2, <1>4, PlacesAre
  <2>2. m \in T /\ n \in T /\ T \in SUBSET Int /\ IsFiniteSet(T)
    BY <1>1, <1>2, <1>4, PlacesAre
  <2>3. Rank(P, i) = Rank(T, m) /\ Rank(P, j) = Rank(T, n)
    BY <1>1, <1>4
  <2>. HIDE DEF P, T
  <2>4. /\ i <= j <=> Rank(P, i) <= Rank(P, j)
        /\ Rank(P, i) = Rank(P, j) => i = j
    BY <2>1, RankOrdered
  <2>5. m <= n <=> Rank(T, m) <= Rank(T, n)
    BY <2>2, RankOrdered
  <2>. QED
    BY <2>3, <2>4, <2>5
<1>5. CASE A[i][1] # A[j][1]
  <2>1. i <= j <=> A[i][1] < A[j][1]
    <3>1. i <= j => A[i][1] <= A[j][1]
      BY DEF InKeyOrder
    <3>2. j <= i => A[j][1] <= A[i][1]
      BY DEF InKeyOrder
    <3>. QED
      BY <1>3, <1>5, <3>1, <3>2
  <2>2. m <= n <=> A[i][1] < A[j][1]
    <3>1. m <= n => A[i][1] <= A[j][1]
      BY <1>1 DEF InKeyOrder
    <3>2. n <= m => A[j][1] <= A[i][1]
      BY <1>1 DEF InKeyOrder
    <3>. QED
      BY <1>3, <1>5, <3>1, <3>2
  <2>. QED
    BY <1>1, <1>5, <2>1, <2>2
<1>. QED
  BY <1>4, <1>5

LEMMA SortedSame ==
  ASSUME NEW A, InKeyOrder(A), NEW B, InKeyOrder(B), SameKeys(A, B)
  PROVE  A = B
<1>. DEFINE S == 1..Len(A)
            T == 1..Len(B)
            f == [i \in S |-> CHOOSE j : Peers(A, B, i, j)]
<1>1. A \in Query /\ B \in Query
  BY DEF InKeyOrder
<1>2. /\ S \in SUBSET Int /\ IsFiniteSet(S) /\ Cardinality(S) = Len(A)
      /\ T \in SUBSET Int /\ Cardinality(T) = Len(B) /\ Len(A) \in Nat /\ Len(B) \in Nat
  BY <1>1, QueryIs
<1>3. ASSUME NEW i \in S PROVE Peers(A, B, i, f[i]) /\ f[i] \in T /\ B[f[i]] = A[i]
  <2>1. \E j : Peers(A, B, i, j)
    BY PeerIs
  <2>2. Peers(A, B, i, f[i])
    BY <2>1
  <2>. QED
    BY <2>2 DEF Peers
<1>4. f \in [S -> T]
  BY <1>3
<1>. HIDE DEF f
<1>5. ASSUME NEW i \in S, NEW j \in S
      PROVE  (i <= j <=> f[i] <= f[j]) /\ (f[i] = f[j] => i = j)
  BY <1>3, PeersOrdered
<1>6. ASSUME NEW j \in T PROVE \E i \in S : f[i] = j
  <2>1. \A k \in QueryKey \ TrackingKeys : SameValues(B, A, k)
    BY <1>1, SameValuesTurned DEF SameKeys
  <2>2. SameKeys(B, A)
    BY <2>1 DEF SameKeys
  <2>3. PICK i : Peers(B, A, j, i)
    BY <2>2, PeerIs
  <2>4. i \in S /\ Peers(A, B, i, j)
    BY <2>3 DEF Peers
  <2>5. f[i] = j
    <3>1. Peers(A, B, i, f[i]) /\ f[i] \in T
      BY <1>3, <2>4
    <3>2. i <= i <=> f[i] <= j
      BY <2>4, <3>1, PeersOrdered
    <3>3. i <= i <=> j <= f[i]
      BY <2>4, <3>1, PeersOrdered
    <3>. QED
      BY <1>2, <2>4, <3>1, <3>2, <3>3
  <2>. QED
    BY <2>4, <2>5
<1>7. f \in Bijection(S, T)
  BY <1>4, <1>5, <1>6 DEF Bijection, Injection, IsInjective, Surjection
<1>8. Alike(f, S, AtMost(S), AtMost(T))
  <2>1. ASSUME NEW i \in S, NEW j \in S
        PROVE  <<i, j>> \in AtMost(S) <=> <<f[i], f[j]>> \in AtMost(T)
    BY <1>3, <1>5 DEF AtMost
  <2>. QED
    BY <2>1 DEF Alike
<1>. HIDE DEF S, T
<1>9. /\ Cardinality(S) = Cardinality(T)
      /\ \A i \in S : Pos(S, AtMost(S), i) = Pos(T, AtMost(T), f[i])
  BY <1>2, <1>7, <1>8, PosAlike
<1>10. ASSUME NEW i \in S PROVE f[i] = i
  <2>1. Rank(S, i) = Rank(T, f[i]) /\ f[i] \in T
    <3>1. f[i] \in T
      BY <1>3
    <3>2. Pos(S, AtMost(S), i) = Rank(S, i)
      BY <1>2, RankIs
    <3>3. Pos(T, AtMost(T), f[i]) = Rank(T, f[i])
      BY <1>2, <3>1, RankIs
    <3>. QED
      BY <1>9, <3>1, <3>2, <3>3
  <2>2. Rank(S, i) = i
    BY <1>2, RankOfAll DEF S
  <2>3. Rank(T, f[i]) = f[i]
    BY <1>2, <2>1, RankOfAll DEF T
  <2>. QED
    BY <2>1, <2>2, <2>3
<1>11. Len(A) = Len(B) /\ \A i \in 1..Len(A) : A[i] = B[i]
  BY <1>2, <1>3, <1>9, <1>10 DEF S
<1>12. A \in Seq(Pairs) /\ B \in Seq(Pairs)
  BY <1>1 DEF Query, Pairs
<1>. QED
  BY <1>11, <1>12

\* Two queries have the same sort exactly if they have the same values of every key.
LEMMA SameSort ==
  ASSUME NEW q \in Query, NEW r \in Query
  PROVE  SortedQuery(q) = SortedQuery(r) <=> SameKeys(q, r)
<1>. DEFINE A == SortedQuery(q)
            B == SortedQuery(r)
<1>1. InKeyOrder(A) /\ InKeyOrder(B) /\ A \in Query /\ B \in Query
  BY SortSorts DEF InKeyOrder
<1>2. ASSUME NEW k \in QueryKey \ TrackingKeys
      PROVE  /\ SameValues(q, A, k) /\ SameValues(A, q, k)
             /\ SameValues(r, B, k) /\ SameValues(B, r, k)
  <2>1. SameValues(q, A, k) /\ SameValues(r, B, k)
    BY SortKeepsValues
  <2>. HIDE DEF A, B
  <2>. QED
    BY <1>1, <2>1, SameValuesTurned
<1>. HIDE DEF A, B
<1>3. ASSUME A = B PROVE SameKeys(q, r)
  <2>1. ASSUME NEW k \in QueryKey \ TrackingKeys PROVE SameValues(q, r, k)
    <3>1. SameValues(q, A, k) /\ SameValues(A, r, k)
      BY <1>2, <1>3
    <3>. QED
      BY <1>1, <3>1, SameValuesOnward
  <2>. QED
    BY <2>1 DEF SameKeys
<1>4. ASSUME SameKeys(q, r) PROVE A = B
  <2>1. ASSUME NEW k \in QueryKey \ TrackingKeys PROVE SameValues(A, B, k)
    <3>1. SameValues(A, q, k) /\ SameValues(q, r, k) /\ SameValues(r, B, k)
      BY <1>2, <1>4 DEF SameKeys
    <3>2. SameValues(A, r, k)
      BY <1>1, <3>1, SameValuesOnward
    <3>. QED
      BY <1>1, <3>1, <3>2, SameValuesOnward
  <2>2. SameKeys(A, B)
    BY <2>1 DEF SameKeys
  <2>. QED
    BY <1>1, <2>2, SortedSame
<1>. QED
  BY <1>3, <1>4 DEF A, B

\* The sort of a sort is itself.
LEMMA SortOnce ==
  ASSUME NEW q \in Query
  PROVE  SortedQuery(q) \in Query /\ SortedQuery(SortedQuery(q)) = SortedQuery(q)
<1>. DEFINE A == SortedQuery(q)
<1>1. A \in Query
  BY SortSorts DEF InKeyOrder
<1>2. SameKeys(q, A)
  BY SortKeepsValues DEF SameKeys
<1>. HIDE DEF A
<1>3. SortedQuery(q) = SortedQuery(A)
  BY <1>1, <1>2, SameSort
<1>. QED
  BY <1>1, <1>3 DEF A

----------------------------------------------------------------------------
(* The path *)

Path == Seq(Text) \ {<<>>}

\* The empty text by a name: to the provers the text itself is of a type of its own.
Void == ""

LEMMA VoidIs ==
  /\ Void \in Text
  /\ \A s : Names(s) = Taken(s, {i \in 1..Len(s) : s[i] # Void})
  /\ \A s : MergeSlashes(s) = IF Last(s) = Void THEN Append(Names(s), Void) ELSE Names(s)
<1>1. Void \in Text
  BY UrlAssumption, Zenon DEF Void
<1>2. \A s : Names(s) = Taken(s, {i \in 1..Len(s) : s[i] # Void})
  BY Zenon DEF Void, Names
<1>3. \A s : MergeSlashes(s) = IF Last(s) = Void THEN Append(Names(s), Void) ELSE Names(s)
  BY Zenon DEF Void, MergeSlashes
<1>. QED
  BY <1>1, <1>2, <1>3

LEMMA NamesAre ==
  ASSUME NEW s \in Seq(Text)
  PROVE  /\ Names(s) \in Seq(Text)
         /\ \A p \in 1..Len(Names(s)) : Names(s)[p] # Void
         /\ (\E i \in 1..Len(s) : s[i] # Void) => Names(s) # <<>>
<1>. DEFINE S == {i \in 1..Len(s) : s[i] # Void}
            N == Names(s)
            X == Text \ {Void}
<1>1. S \in SUBSET Int /\ IsFiniteSet(S)
  <2>1. S \in SUBSET (1..Len(s)) /\ Len(s) \in Nat
    OBVIOUS
  <2>. HIDE DEF S
  <2>2. IsFiniteSet(1..Len(s))
    BY <2>1, CountUpTo
  <2>3. IsFiniteSet(S)
    BY <2>1, <2>2, FS_Subset
  <2>. QED
    BY <2>1, <2>3
<1>2. Into(s, S, X)
  BY DEF Into
<1>3. N = Taken(s, S)
  BY VoidIs
<1>. HIDE DEF S, N
<1>4. Arranged(N, s, S, AtMost(S), X)
  BY <1>1, <1>2, <1>3, TakenIs
<1>5. /\ N \in Seq(X)
      /\ \A i \in S : Pos(S, AtMost(S), i) \in 1..Len(N)
  BY <1>4 DEF Arranged
<1>6. N \in Seq(Text) /\ \A p \in 1..Len(N) : N[p] # Void
  BY <1>5
<1>7. ASSUME NEW i \in 1..Len(s), s[i] # Void PROVE N # <<>>
  <2>1. i \in S
    BY <1>7 DEF S
  <2>2. Pos(S, AtMost(S), i) \in 1..Len(N)
    BY <1>5, <2>1
  <2>. QED
    BY <1>5, <2>2
<1>. QED
  BY <1>6, <1>7 DEF N

\* Names are their own names, also in front of the empty one.
LEMMA NamesOnce ==
  ASSUME NEW N \in Seq(Text), \A p \in 1..Len(N) : N[p] # Void
  PROVE  Names(N) = N /\ Names(Append(N, Void)) = N
<1>. DEFINE n == Len(N)
            M == Append(N, Void)
<1>1. n \in Nat /\ N = [p \in 1..n |-> N[p]] /\ Void \in Text
  BY VoidIs
<1>2. /\ Len(M) = n + 1 /\ M[n + 1] = Void
      /\ \A p \in 1..n : M[p] = N[p]
  BY <1>1
<1>3. {i \in 1..Len(N) : N[i] # Void} = 1..n
  OBVIOUS
<1>. HIDE DEF M, n
<1>4. {i \in 1..Len(M) : M[i] # Void} = 1..n
  <2>1. 1..Len(M) = (1..n) \cup {n + 1}
    BY <1>1, <1>2
  <2>2. \A p \in 1..n : M[p] # Void
    BY <1>2 DEF n
  <2>. QED
    BY <1>2, <2>1, <2>2
<1>5. Taken(N, 1..n) = N
  BY <1>1, TakenFirst
<1>6. Taken(M, 1..n) = N
  <2>1. Taken(M, 1..n) = [p \in 1..n |-> M[p]]
    BY <1>1, TakenFirst
  <2>2. [p \in 1..n |-> M[p]] = [p \in 1..n |-> N[p]]
    BY <1>2
  <2>. QED
    BY <1>1, <2>1, <2>2
<1>7. Names(N) = N
  BY <1>3, <1>5, VoidIs
<1>8. Names(M) = N
  BY <1>4, <1>6, VoidIs
<1>. QED
  BY <1>7, <1>8 DEF M

\* Merging the slashes leaves the names, and a trailing slash or none.
LEMMA MergeKeepsNames ==
  ASSUME NEW s \in Path
  PROVE  /\ MergeSlashes(s) \in Path
         /\ Names(MergeSlashes(s)) = Names(s)
         /\ Last(MergeSlashes(s)) = Void <=> Last(s) = Void
<1>. DEFINE N == Names(s)
            M == MergeSlashes(s)
<1>1. s \in Seq(Text) /\ Len(s) \in 1..Len(s) /\ Last(s) = s[Len(s)]
  BY DEF Path, Last
<1>2. /\ N \in Seq(Text) /\ \A p \in 1..Len(N) : N[p] # Void
      /\ Last(s) # Void => N # <<>>
  BY <1>1, NamesAre
<1>3. M = IF Last(s) = Void THEN Append(N, Void) ELSE N
  BY VoidIs
<1>4. Void \in Text
  BY VoidIs
<1>. HIDE DEF N, M
<1>5. Names(N) = N /\ Names(Append(N, Void)) = N
  BY <1>2, NamesOnce
<1>6. CASE Last(s) = Void
  <2>1. Append(N, Void) \in Seq(Text) \ {<<>>} /\ Last(Append(N, Void)) = Void
    BY <1>2, <1>4 DEF Last
  <2>. QED
    BY <1>3, <1>5, <1>6, <2>1 DEF N, M, Path
<1>7. CASE Last(s) # Void
  <2>1. N \in Seq(Text) \ {<<>>} /\ Last(N) # Void
    BY <1>2, <1>7 DEF Last
  <2>. QED
    BY <1>3, <1>5, <1>7, <2>1 DEF N, M, Path
<1>. QED
  BY <1>6, <1>7

LEMMA SamePath ==
  ASSUME NEW s \in Path, NEW t \in Path
  PROVE  /\ MergeSlashes(s) = MergeSlashes(t)
              <=> Names(s) = Names(t) /\ (Last(s) = Void) = (Last(t) = Void)
         /\ MergeSlashes(MergeSlashes(s)) = MergeSlashes(s)
<1>1. /\ MergeSlashes(s) \in Path
      /\ Names(MergeSlashes(s)) = Names(s) /\ (Last(MergeSlashes(s)) = Void <=> Last(s) = Void)
      /\ Names(MergeSlashes(t)) = Names(t) /\ (Last(MergeSlashes(t)) = Void <=> Last(t) = Void)
  BY MergeKeepsNames
<1>2. ASSUME NEW a, NEW b, Names(a) = Names(b), Last(a) = Void <=> Last(b) = Void
      PROVE  MergeSlashes(a) = MergeSlashes(b)
  BY <1>2, VoidIs
<1>. QED
  BY <1>1, <1>2, Zenon

----------------------------------------------------------------------------
(* The URL *)

HashOf(h) == IF IsHashbang(h) THEN h ELSE <<>>

LEMMA SameHash ==
  ASSUME NEW h \in Seq(Text), NEW g \in Seq(Text)
  PROVE  /\ HashOf(h) \in Seq(Text) /\ HashOf(HashOf(h)) = HashOf(h)
         /\ HashOf(h) = HashOf(g)
              <=> IsHashbang(h) = IsHashbang(g) /\ (IsHashbang(h) => h = g)
<1>1. ~IsHashbang(<<>>) /\ IsHashbang(h) \in BOOLEAN /\ IsHashbang(g) \in BOOLEAN
  BY DEF IsHashbang
<1>2. <<>> \in Seq(Text)
  OBVIOUS
<1>. QED
  BY <1>1, <1>2 DEF HashOf

Hash == Seq(Text)

HasParts(n, u, a, p, q, h) ==
  /\ n \in Url
  /\ n.scheme = u.scheme /\ n.user = a /\ n.host = u.host /\ n.dots = 0 /\ n.port = u.port
  /\ n.path = p /\ n.query = q /\ n.hash = h

LEMMA WithParts ==
  ASSUME NEW u \in Url, NEW a \in Text, NEW p \in Path, NEW q \in Query, NEW h \in Hash,
         NEW n, n = [u EXCEPT !.user = a, !.dots = 0, !.path = p, !.query = q, !.hash = h]
  PROVE  HasParts(n, u, a, p, q, h)
<1>1. Url = [scheme : Text, user : Text, host : Text, dots : Nat, port : Text,
             path : Path, query : Query, hash : Hash]
  BY DEF Url, Path, Hash
<1>. QED
  BY <1>1 DEF HasParts

LEMMA NormalIs ==
  ASSUME NEW u \in Url
  PROVE  /\ Normalize(u) \in Url
         /\ Normalize(u).scheme = u.scheme /\ Normalize(u).user = Void
         /\ Normalize(u).host = u.host /\ Normalize(u).dots = 0 /\ Normalize(u).port = u.port
         /\ Normalize(u).path = MergeSlashes(u.path)
         /\ Normalize(u).query = SortedQuery(u.query)
         /\ Normalize(u).hash = HashOf(u.hash)
<1>1. u.path \in Path /\ u.query \in Query /\ u.hash \in Seq(Text) /\ Void \in Text
  BY VoidIs DEF Url, Path
<1>2. MergeSlashes(u.path) \in Path
  BY <1>1, MergeKeepsNames
<1>3. SortedQuery(u.query) \in Query
  BY <1>1, SortOnce
<1>4. HashOf(u.hash) \in Hash
  BY <1>1, SameHash DEF Hash
<1>5. Normalize(u) = [u EXCEPT !.user = Void, !.dots = 0, !.path = MergeSlashes(u.path),
                               !.query = SortedQuery(u.query), !.hash = HashOf(u.hash)]
  BY Zenon DEF Normalize, HashOf, Void
<1>. QED
  <2>1. HasParts(Normalize(u), u, Void, MergeSlashes(u.path), SortedQuery(u.query), HashOf(u.hash))
    BY <1>1, <1>2, <1>3, <1>4, <1>5, WithParts
  <2>. QED
    BY <2>1 DEF HasParts

LEMMA UrlsAlike ==
  ASSUME NEW u \in Url, NEW v \in Url,
         u.scheme = v.scheme, u.user = v.user, u.host = v.host, u.dots = v.dots,
         u.port = v.port, u.path = v.path, u.query = v.query, u.hash = v.hash
  PROVE  u = v
BY DEF Url

\* The contract of normalizeUrl (normalize.ts 11): for every two URLs, whatever their
\* parts, the normal forms are the same exactly if the URLs name the same page; and a
\* normal form is a URL that is its own normal form.
THEOREM NormalFormNamesThePage ==
  /\ \A u \in Url : Normalize(u) \in Url /\ Normalize(Normalize(u)) = Normalize(u)
  /\ \A u, v \in Url : SamePage(u, v) <=> Normalize(u) = Normalize(v)
<1>1. ASSUME NEW u \in Url
      PROVE  /\ Normalize(u) \in Url /\ Normalize(Normalize(u)) = Normalize(u)
             /\ u.path \in Path /\ u.query \in Query /\ u.hash \in Seq(Text)
  <2>1. u.path \in Path /\ u.query \in Query /\ u.hash \in Seq(Text)
    BY DEF Url, Path
  <2>. DEFINE n == Normalize(u)
              m == Normalize(n)
  <2>2. /\ n \in Url
        /\ n.scheme = u.scheme /\ n.user = Void /\ n.host = u.host /\ n.dots = 0 /\ n.port = u.port
        /\ n.path = MergeSlashes(u.path) /\ n.query = SortedQuery(u.query)
        /\ n.hash = HashOf(u.hash)
    BY NormalIs
  <2>. HIDE DEF n
  <2>3. /\ m \in Url
        /\ m.scheme = n.scheme /\ m.user = Void /\ m.host = n.host /\ m.dots = 0 /\ m.port = n.port
        /\ m.path = MergeSlashes(n.path) /\ m.query = SortedQuery(n.query)
        /\ m.hash = HashOf(n.hash)
    BY <2>2, NormalIs
  <2>4. m.path = n.path
    BY <2>1, <2>2, <2>3, SamePath
  <2>5. m.query = n.query
    BY <2>1, <2>2, <2>3, SortOnce
  <2>6. m.hash = n.hash
    BY <2>1, <2>2, <2>3, SameHash
  <2>. HIDE DEF m
  <2>7. m = n
    BY <2>2, <2>3, <2>4, <2>5, <2>6, UrlsAlike
  <2>. QED
    BY <2>1, <2>2, <2>7 DEF n, m
<1>2. ASSUME NEW u \in Url, NEW v \in Url
      PROVE  SamePage(u, v) <=> Normalize(u) = Normalize(v)
  <2>. DEFINE n == Normalize(u)
              m == Normalize(v)
  <2>1. /\ n \in Url
        /\ n.scheme = u.scheme /\ n.user = Void /\ n.host = u.host /\ n.dots = 0 /\ n.port = u.port
        /\ n.path = MergeSlashes(u.path) /\ n.query = SortedQuery(u.query)
        /\ n.hash = HashOf(u.hash)
    BY NormalIs
  <2>2. /\ m \in Url
        /\ m.scheme = v.scheme /\ m.user = Void /\ m.host = v.host /\ m.dots = 0 /\ m.port = v.port
        /\ m.path = MergeSlashes(v.path) /\ m.query = SortedQuery(v.query)
        /\ m.hash = HashOf(v.hash)
    BY NormalIs
  <2>. HIDE DEF n, m
  <2>3. n.path = m.path
          <=> Names(u.path) = Names(v.path) /\ (Last(u.path) = Void) = (Last(v.path) = Void)
    <3>1. u.path \in Path /\ v.path \in Path
      BY <1>1
    <3>2. MergeSlashes(u.path) = MergeSlashes(v.path)
            <=> Names(u.path) = Names(v.path) /\ (Last(u.path) = Void) = (Last(v.path) = Void)
      BY <3>1, SamePath
    <3>. QED
      BY <2>1, <2>2, <3>2, Zenon
  <2>4. n.query = m.query <=> SameKeys(u.query, v.query)
    BY <1>1, <2>1, <2>2, SameSort
  <2>5. n.hash = m.hash
          <=> IsHashbang(u.hash) = IsHashbang(v.hash) /\ (IsHashbang(u.hash) => u.hash = v.hash)
    <3>1. u.hash \in Seq(Text) /\ v.hash \in Seq(Text)
      BY <1>1
    <3>2. HashOf(u.hash) = HashOf(v.hash)
            <=> IsHashbang(u.hash) = IsHashbang(v.hash) /\ (IsHashbang(u.hash) => u.hash = v.hash)
      BY <3>1, SameHash
    <3>. QED
      BY <2>1, <2>2, <3>2, Zenon
  <2>6. SamePage(u, v)
          <=> /\ n.scheme = m.scheme /\ n.host = m.host /\ n.port = m.port
              /\ n.path = m.path /\ n.query = m.query /\ n.hash = m.hash
    BY <2>1, <2>2, <2>3, <2>4, <2>5, Zenon DEF SamePage, SameKeys, Void
  <2>7. n = m
          <=> /\ n.scheme = m.scheme /\ n.host = m.host /\ n.port = m.port
              /\ n.path = m.path /\ n.query = m.query /\ n.hash = m.hash
    BY <2>1, <2>2, UrlsAlike
  <2>. QED
    BY <2>6, <2>7 DEF n, m
<1>. QED
  BY <1>1, <1>2

LEMMA KnownAreUrls == Known \subseteq Url /\ Norm \subseteq Url
<1>1. Raw \subseteq Url
  BY LruAssumption
<1>2. Norm \subseteq Url
  BY <1>1, NormalFormNamesThePage DEF Norm, NormOf
<1>. QED
  BY <1>1, <1>2 DEF Known

LEMMA KeysAreNormal ==
  ASSUME NEW n \in Norm
  PROVE  Normalize(n) = n
<1>1. PICK u \in Raw : n = Normalize(u)
  BY DEF Norm, NormOf
<1>2. u \in Url
  BY LruAssumption
<1>. QED
  BY <1>1, <1>2, NormalFormNamesThePage

LEMMA NoneMisnamed == Misnamed = {}
<1>1. \A u, v \in Known : SamePage(u, v) <=> Normalize(u) = Normalize(v)
  BY KnownAreUrls, NormalFormNamesThePage
<1>2. \A n \in Norm : Normalize(n) = n
  BY KeysAreNormal
<1>3. {p \in Known \X Known : SamePage(p[1], p[2]) # (Normalize(p[1]) = Normalize(p[2]))} = {}
  <2>1. SUFFICES ASSUME NEW p \in Known \X Known
                 PROVE  SamePage(p[1], p[2]) = (Normalize(p[1]) = Normalize(p[2]))
    BY Zenon
  <2>2. p[1] \in Known /\ p[2] \in Known
    OBVIOUS
  <2>3. SamePage(p[1], p[2]) <=> Normalize(p[1]) = Normalize(p[2])
    BY <1>1, <2>2
  <2>4. SamePage(p[1], p[2]) \in BOOLEAN
    BY DEF SamePage
  <2>. QED
    BY <2>3, <2>4, Zenon
<1>4. {m \in Norm : Normalize(m) # m} = {}
  BY <1>2
<1>5. {<<n, n>> : n \in {m \in Norm : Normalize(m) # m}} = {}
  BY <1>4
<1>. QED
  BY <1>3, <1>5, Zenon DEF Misnamed

\* In whatever set of URLs clients send, none shares its key with another page or has a
\* second key, and a key is its own normal form: what the run l1 checks of eight spellings.
THEOREM OneKeyPerPage == Spec => []SamePageSameKey
<1>1. SamePageSameKey
  BY NoneMisnamed DEF SamePageSameKey
<1>. QED
  BY <1>1, PTL

----------------------------------------------------------------------------
(* Sequences. *)

LEMMA Catenation ==
  ASSUME NEW S, NEW s \in Seq(S), NEW t \in Seq(S), NEW k \in 1..Len(t)
  PROVE  (s \o t)[Len(s) + k] = t[k]
OBVIOUS

LEMMA WithoutOne ==
  ASSUME NEW S, NEW s \in Seq(S), NEW i \in 1..Len(s)
  PROVE  /\ RemoveAt(s, i) \in Seq(S) /\ Len(RemoveAt(s, i)) = Len(s) - 1
         /\ \A j \in 1..(Len(s) - 1) : RemoveAt(s, i)[j] = IF j < i THEN s[j] ELSE s[j + 1]
<1>. DEFINE front == SubSeq(s, 1, i - 1)
            back == SubSeq(s, i + 1, Len(s))
<1>1. /\ front \in Seq(S) /\ Len(front) = i - 1
      /\ \A j \in 1..(i - 1) : front[j] = s[j]
  OBVIOUS
<1>2. /\ back \in Seq(S) /\ Len(back) = Len(s) - i
      /\ \A j \in 1..(Len(s) - i) : back[j] = s[i + j]
  OBVIOUS
<1>3. RemoveAt(s, i) = front \o back
  BY DEF RemoveAt
<1>. HIDE DEF front, back
<1>4. front \o back \in Seq(S) /\ Len(front \o back) = Len(s) - 1
  BY <1>1, <1>2
<1>5. ASSUME NEW j \in 1..(Len(s) - 1)
      PROVE  (front \o back)[j] = IF j < i THEN s[j] ELSE s[j + 1]
  <2>1. CASE j < i
    BY <1>1, <1>2, <2>1
  <2>2. CASE j >= i
    <3>1. PICK k \in 1..(Len(s) - i) : k = j - (i - 1) /\ i + k = j + 1
      BY <2>2
    <3>2. (front \o back)[j] = back[k]
      <4>1. k \in 1..Len(back) /\ Len(front) + k = j
        BY <1>1, <1>2, <3>1
      <4>. QED
        BY <1>1, <1>2, <4>1, Catenation
    <3>3. back[k] = s[j + 1]
      BY <1>2, <3>1
    <3>. QED
      BY <2>2, <3>2, <3>3
  <2>3. j < i \/ j >= i
    OBVIOUS
  <2>. QED
    BY <2>1, <2>2, <2>3, Zenon
<1>. QED
  BY <1>3, <1>4, <1>5

LEMMA WithoutFirst ==
  ASSUME NEW S, NEW s \in Seq(S), s # <<>>
  PROVE  /\ Tail(s) \in Seq(S) /\ Len(Tail(s)) = Len(s) - 1
         /\ \A j \in 1..(Len(s) - 1) : Tail(s)[j] = s[j + 1]
OBVIOUS

LEMMA WithOneMore ==
  ASSUME NEW S, NEW s \in Seq(S), NEW x \in S
  PROVE  /\ Append(s, x) \in Seq(S) /\ Len(Append(s, x)) = Len(s) + 1
         /\ \A j \in 1..Len(s) : Append(s, x)[j] = s[j]
         /\ Append(s, x)[Len(s) + 1] = x
OBVIOUS

LEMMA ElementsOf ==
  ASSUME NEW S, NEW s \in Seq(S)
  PROVE  \A x : x \in ToSet(s) <=> \E i \in 1..Len(s) : s[i] = x
BY DEF ToSet

----------------------------------------------------------------------------
(* The invariant. *)

LruType ==
  /\ now \in Nat /\ uses \in 0..MaxUses
  /\ order \in Seq(Norm) /\ Len(order) <= MaxEntries
  /\ entry \in [Norm -> [v : Nat, exp : Nat]]
  /\ last \in [Norm -> 0..MaxUses]

\* The order of the Map is the order of the last uses, and so has each key once.
InOrder(o, f) == \A i, j \in 1..Len(o) : i < j => f[o[i]] < f[o[j]]
ByUse ==
  /\ InOrder(order, last)
  /\ \A n \in Norm : last[n] <= uses

LruInv == LruType /\ ByUse

LEMMA NormOfType == \A u \in Raw : NormOf[u] \in Norm
BY DEF Norm, NormOf

LEMMA OnceOnly ==
  ASSUME LruInv
  PROVE  \A i, j \in 1..Len(order) : order[i] = order[j] => i = j
<1>1. \A i \in 1..Len(order) : order[i] \in Norm /\ last[order[i]] \in Nat
  BY DEF LruInv, LruType
<1>2. \A i, j \in 1..Len(order) : i < j => last[order[i]] < last[order[j]]
  BY DEF LruInv, ByUse, InOrder
<1>3. \A i, j \in 1..Len(order) : i < j \/ j < i \/ i = j
  OBVIOUS
<1>. QED
  BY <1>1, <1>2, <1>3

LEMMA KeysAreNorm ==
  ASSUME LruInv
  PROVE  Keys \subseteq Norm
<1>1. order \in Seq(Norm)
  BY DEF LruInv, LruType
<1>2. \A i \in 1..Len(order) : order[i] \in Norm
  BY <1>1
<1>3. \A x : x \in ToSet(order) <=> \E i \in 1..Len(order) : order[i] = x
  BY <1>1, ElementsOf
<1>. QED
  BY <1>2, <1>3 DEF Keys

\* What a deletion leaves: the other keys, at their places or one before.
LEMMA WithoutIs ==
  ASSUME LruInv, NEW n \in Keys
  PROVE  /\ Without(n) \in Seq(Norm) /\ Len(Without(n)) = Len(order) - 1
         /\ ToSet(Without(n)) = Keys \ {n}
         /\ InOrder(Without(n), last)
<1>. DEFINE i == PlaceOf(n)
            rest == Without(n)
<1>1. order \in Seq(Norm)
  BY DEF LruInv, LruType
<1>2. i \in 1..Len(order) /\ order[i] = n
  <2>1. \E j \in 1..Len(order) : order[j] = n
    BY <1>1, ElementsOf DEF Keys
  <2>. QED
    BY <2>1 DEF PlaceOf
<1>3. /\ rest \in Seq(Norm) /\ Len(rest) = Len(order) - 1
      /\ \A j \in 1..(Len(order) - 1) : rest[j] = IF j < i THEN order[j] ELSE order[j + 1]
  BY <1>1, <1>2, WithoutOne DEF Without
<1>. HIDE DEF i, rest
<1>4. ToSet(rest) = Keys \ {n}
  <2>1. ASSUME NEW x \in ToSet(rest) PROVE x \in Keys /\ x # n
    <3>1. PICK j \in 1..(Len(order) - 1) : rest[j] = x
      BY <1>3, ElementsOf
    <3>2. PICK k \in 1..Len(order) : k # i /\ x = order[k]
      <4>1. CASE j < i
        BY <1>1, <1>3, <3>1, <4>1
      <4>2. CASE j >= i
        <5>1. j + 1 \in 1..Len(order) /\ j + 1 # i /\ x = order[j + 1]
          BY <1>1, <1>2, <1>3, <3>1, <4>2
        <5>. QED
          BY <5>1
      <4>. QED
        BY <1>2, <4>1, <4>2
    <3>. QED
      BY <1>1, <1>2, <3>2, OnceOnly, ElementsOf DEF Keys
  <2>2. ASSUME NEW x \in Keys, x # n PROVE x \in ToSet(rest)
    <3>1. PICK k \in 1..Len(order) : order[k] = x
      BY <1>1, ElementsOf DEF Keys
    <3>2. k < i \/ k > i
      BY <1>2, <2>2, <3>1
    <3>3. PICK j \in 1..(Len(order) - 1) : rest[j] = x
      <4>1. CASE k < i
        BY <1>1, <1>2, <1>3, <3>1, <4>1
      <4>2. CASE k > i
        <5>1. PICK j \in 1..(Len(order) - 1) : j = k - 1 /\ j + 1 = k /\ ~(j < i)
          BY <1>1, <1>2, <4>2
        <5>. QED
          BY <1>3, <3>1, <5>1
      <4>. QED
        BY <3>2, <4>1, <4>2
    <3>. QED
      BY <1>3, <3>3, ElementsOf
  <2>. QED
    BY <2>1, <2>2
<1>5. InOrder(rest, last)
  <2>1. SUFFICES ASSUME NEW j \in 1..(Len(order) - 1), NEW k \in 1..(Len(order) - 1), j < k
                 PROVE  last[rest[j]] < last[rest[k]]
    BY <1>3 DEF InOrder
  <2>2. PICK a, b \in 1..Len(order) : a < b /\ rest[j] = order[a] /\ rest[k] = order[b]
    <3>1. j + 1 \in 1..Len(order) /\ k + 1 \in 1..Len(order)
           /\ j \in 1..Len(order) /\ k \in 1..Len(order)
      BY <1>1
    <3>. QED
      BY <1>2, <1>3, <2>1, <3>1
  <2>. QED
    BY <2>2 DEF LruInv, ByUse, InOrder
<1>. QED
  BY <1>3, <1>4, <1>5 DEF rest

\* What an eviction leaves: all but the first key, if the Map is full.
LEMMA KeptIs ==
  ASSUME LruInv
  PROVE  /\ Kept \in Seq(Norm) /\ Len(Kept) < MaxEntries
         /\ InOrder(Kept, last)
         /\ \/ Kept = order
            \/ order # <<>> /\ order[1] \in Keys /\ ToSet(Kept) = Keys \ {order[1]}
<1>1. order \in Seq(Norm) /\ Len(order) <= MaxEntries /\ MaxEntries \in Nat /\ MaxEntries > 0
  BY LruAssumption DEF LruInv, LruType
<1>2. CASE Len(order) < MaxEntries
  <2>1. Kept = order
    BY <1>1, <1>2 DEF Kept
  <2>. QED
    BY <1>1, <1>2, <2>1 DEF LruInv, ByUse
<1>3. CASE Len(order) >= MaxEntries
  <2>. DEFINE rest == Tail(order)
  <2>1. Kept = rest /\ order # <<>> /\ 1 \in 1..Len(order)
    BY <1>1, <1>3 DEF Kept
  <2>2. /\ rest \in Seq(Norm) /\ Len(rest) = Len(order) - 1
        /\ \A j \in 1..(Len(order) - 1) : rest[j] = order[j + 1]
    BY <1>1, <2>1, WithoutFirst
  <2>. HIDE DEF rest
  <2>3. ToSet(rest) = Keys \ {order[1]}
    <3>1. ASSUME NEW x \in ToSet(rest) PROVE x \in Keys /\ x # order[1]
      <4>1. PICK j \in 1..(Len(order) - 1) : rest[j] = x
        BY <2>2, ElementsOf
      <4>2. PICK k \in 1..Len(order) : k = j + 1 /\ k # 1 /\ x = order[k]
        BY <1>1, <2>2, <4>1
      <4>. QED
        BY <1>1, <2>1, <4>2, OnceOnly, ElementsOf DEF Keys
    <3>2. ASSUME NEW x \in Keys, x # order[1] PROVE x \in ToSet(rest)
      <4>1. PICK k \in 1..Len(order) : order[k] = x
        BY <1>1, ElementsOf DEF Keys
      <4>2. PICK j \in 1..(Len(order) - 1) : j + 1 = k
        <5>1. k - 1 \in 1..(Len(order) - 1) /\ (k - 1) + 1 = k
          BY <1>1, <3>2, <4>1
        <5>. QED
          BY <5>1
      <4>3. rest[j] = x
        BY <2>2, <4>1, <4>2
      <4>. QED
        BY <2>2, <4>3, ElementsOf
    <3>. QED
      BY <3>1, <3>2
  <2>4. InOrder(rest, last)
    <3>1. SUFFICES ASSUME NEW j \in 1..(Len(order) - 1), NEW k \in 1..(Len(order) - 1), j < k
                   PROVE  last[rest[j]] < last[rest[k]]
      BY <2>2 DEF InOrder
    <3>2. j + 1 \in 1..Len(order) /\ k + 1 \in 1..Len(order) /\ j + 1 < k + 1
      BY <1>1, <3>1
    <3>3. last[order[j + 1]] < last[order[k + 1]]
      BY <3>2 DEF LruInv, ByUse, InOrder
    <3>. QED
      BY <2>2, <3>3
  <2>5. order[1] \in Keys
    BY <1>1, <2>1, ElementsOf DEF Keys
  <2>6. Len(rest) < MaxEntries
    BY <1>1, <2>2
  <2>. QED
    BY <2>1, <2>2, <2>3, <2>4, <2>5, <2>6
<1>. QED
  BY <1>1, <1>2, <1>3

\* The new use at the end keeps the order.
LEMMA OneMoreUse ==
  ASSUME NEW o \in Seq(Norm), NEW f \in [Norm -> Nat], InOrder(o, f),
         NEW n \in Norm, n \notin ToSet(o), NEW u \in Nat, \A k \in Norm : f[k] < u
  PROVE  InOrder(Append(o, n), [f EXCEPT ![n] = u])
<1>. DEFINE p == Append(o, n)
            g == [f EXCEPT ![n] = u]
<1>1. /\ p \in Seq(Norm) /\ Len(p) = Len(o) + 1
      /\ \A j \in 1..Len(o) : p[j] = o[j]
      /\ p[Len(o) + 1] = n
  BY WithOneMore
<1>2. \A j \in 1..Len(o) : o[j] \in Norm /\ o[j] # n /\ g[o[j]] = f[o[j]] /\ f[o[j]] < u
  BY ElementsOf
<1>3. g[n] = u
  OBVIOUS
<1>. HIDE DEF p, g
<1>4. SUFFICES ASSUME NEW i \in 1..Len(p), NEW j \in 1..Len(p), i < j
               PROVE  g[p[i]] < g[p[j]]
  BY DEF InOrder, p, g
<1>5. i \in 1..Len(o)
  BY <1>1, <1>4
<1>6. CASE j \in 1..Len(o)
  BY <1>1, <1>2, <1>4, <1>5, <1>6 DEF InOrder
<1>7. CASE j = Len(o) + 1
  BY <1>1, <1>2, <1>3, <1>5, <1>7
<1>. QED
  BY <1>1, <1>6, <1>7

----------------------------------------------------------------------------
(* The steps. *)

\* The three outcomes of Get.
Missed(n) ==
  n \notin Keys /\ UNCHANGED <<order, entry, last>>
Dropped(n) ==
  /\ n \in Keys /\ Expired(n)
  /\ order' = Without(n)
  /\ entry' = [entry EXCEPT ![n] = NoEntry]
  /\ UNCHANGED last
Served(n) ==
  /\ n \in Keys /\ ~Expired(n)
  /\ order' = ReadMoves(n)
  /\ answer' = entry[n].v
  /\ last' = [last EXCEPT ![n] = uses']
  /\ UNCHANGED entry

LEMMA GetCases ==
  ASSUME NEW u \in Raw, Get(u), NEW n, n = NormOf[u]
  PROVE  /\ uses < MaxUses /\ uses' = uses + 1 /\ now' = now
         /\ \/ Missed(n) /\ answer' = None
            \/ Dropped(n) /\ answer' = None
            \/ Served(n)
BY DEF Get, Missed, Dropped, Served

LEMMA AppendedTo ==
  ASSUME NEW o \in Seq(Norm), NEW n \in Norm
  PROVE  \A x : x \in ToSet(Append(o, n)) <=> x \in ToSet(o) \/ x = n
<1>1. /\ Append(o, n) \in Seq(Norm) /\ Len(Append(o, n)) = Len(o) + 1 /\ Len(o) \in Nat
      /\ \A j \in 1..Len(o) : Append(o, n)[j] = o[j]
      /\ Append(o, n)[Len(o) + 1] = n
  BY WithOneMore
<1>2. \A j : j \in 1..(Len(o) + 1) <=> j \in 1..Len(o) \/ j = Len(o) + 1
  BY <1>1
<1>3. PICK p \in Seq(Norm) : p = Append(o, n)
  BY <1>1
<1>4. /\ \A x : x \in ToSet(p) <=> \E j \in 1..Len(p) : p[j] = x
      /\ \A x : x \in ToSet(o) <=> \E j \in 1..Len(o) : o[j] = x
  BY ElementsOf
<1>5. /\ Len(p) = Len(o) + 1 /\ \A j \in 1..Len(o) : p[j] = o[j]
      /\ p[Len(o) + 1] = n
  BY <1>1, <1>3
<1>6. \A x : x \in ToSet(p) <=> x \in ToSet(o) \/ x = n
  BY <1>2, <1>4, <1>5
<1>. QED
  BY <1>3, <1>6

LEMMA NoEntryType == NoEntry \in [v : Nat, exp : Nat]
BY DEF NoEntry

LEMMA LruStep == LruInv /\ [Next]_vars => LruInv'
<1>1. SUFFICES ASSUME LruInv, [Next]_vars PROVE LruInv'
  OBVIOUS
<1>2. /\ now \in Nat /\ uses \in 0..MaxUses /\ MaxUses \in Nat
      /\ order \in Seq(Norm) /\ Len(order) <= MaxEntries
      /\ entry \in [Norm -> [v : Nat, exp : Nat]]
      /\ last \in [Norm -> 0..MaxUses] /\ last \in [Norm -> Nat]
      /\ InOrder(order, last) /\ \A n \in Norm : last[n] <= uses
  BY <1>1, LruAssumption DEF LruInv, LruType, ByUse
<1>4. ASSUME NEW u \in Raw, Get(u) PROVE LruInv'
  <2>1. PICK n \in Norm : n = NormOf[u]
    BY NormOfType
  <2>2. /\ uses < MaxUses /\ uses' = uses + 1 /\ now' = now
        /\ Missed(n) \/ Dropped(n) \/ Served(n)
    BY <1>4, <2>1, GetCases
  <2>3. /\ now' \in Nat /\ uses' \in 0..MaxUses /\ uses' \in Nat
        /\ \A k \in Norm : last[k] < uses'
    BY <1>2, <2>2
  <2>4. CASE Missed(n)
    BY <1>2, <2>2, <2>3, <2>4 DEF Missed, LruInv, LruType, ByUse
  <2>5. CASE Dropped(n)
    <3>1. /\ order' \in Seq(Norm) /\ Len(order') <= MaxEntries
          /\ InOrder(order', last)
      BY <1>1, <1>2, <2>5, WithoutIs, LruAssumption DEF Dropped
    <3>2. entry' \in [Norm -> [v : Nat, exp : Nat]] /\ last' = last
      BY <1>2, <2>5, NoEntryType DEF Dropped
    <3>. QED
      BY <1>2, <2>2, <2>3, <3>1, <3>2 DEF LruInv, LruType, ByUse
  <2>6. CASE Served(n)
    <3>1. /\ Without(n) \in Seq(Norm) /\ Len(Without(n)) = Len(order) - 1
          /\ n \notin ToSet(Without(n)) /\ InOrder(Without(n), last)
      BY <1>1, <2>6, WithoutIs DEF Served
    <3>2. order' = Append(Without(n), n) /\ last' = [last EXCEPT ![n] = uses'] /\ entry' = entry
      BY <2>6 DEF Served, ReadMoves
    <3>3. order' \in Seq(Norm) /\ Len(order') <= MaxEntries
      BY <1>2, <3>1, <3>2, WithOneMore
    <3>4. InOrder(order', last')
      BY <1>2, <2>3, <3>1, <3>2, OneMoreUse
    <3>5. last' \in [Norm -> 0..MaxUses] /\ \A k \in Norm : last'[k] <= uses'
      BY <1>2, <2>3, <3>2
    <3>. QED
      BY <1>2, <2>3, <3>2, <3>3, <3>4, <3>5 DEF LruInv, LruType, ByUse
  <2>. QED
    BY <2>2, <2>4, <2>5, <2>6
<1>5. ASSUME NEW u \in Raw, Set(u) PROVE LruInv'
  <2>1. PICK n \in Norm : n = NormOf[u]
    BY NormOfType
  <2>. DEFINE isNew == n \notin ToSet(Kept)
  <2>2. /\ uses < MaxUses /\ uses' = uses + 1 /\ now' = now
        /\ order' = IF isNew THEN Append(Kept, n) ELSE Kept
        /\ entry' = [k \in Norm |-> IF k = n THEN [v |-> uses', exp |-> now + Ttl]
                                    ELSE IF k \in ToSet(Kept) THEN entry[k] ELSE NoEntry]
        /\ last' = [last EXCEPT ![n] = IF isNew THEN uses' ELSE @]
    BY <1>5, <2>1 DEF Set
  <2>3. /\ now' \in Nat /\ uses' \in 0..MaxUses /\ uses' \in Nat
        /\ \A k \in Norm : last[k] < uses'
    BY <1>2, <2>2
  <2>4. Kept \in Seq(Norm) /\ Len(Kept) < MaxEntries /\ InOrder(Kept, last)
    BY <1>1, KeptIs
  <2>5. entry' \in [Norm -> [v : Nat, exp : Nat]]
    <3>1. now + Ttl \in Nat
      BY <1>2, LruAssumption
    <3>. QED
      BY <1>2, <2>2, <2>3, <3>1, NoEntryType
  <2>6. CASE isNew
    <3>1. order' = Append(Kept, n) /\ last' = [last EXCEPT ![n] = uses']
      BY <2>2, <2>6
    <3>2. order' \in Seq(Norm) /\ Len(order') <= MaxEntries
      BY <2>4, <3>1, WithOneMore, LruAssumption
    <3>3. InOrder(order', last')
      BY <1>2, <2>3, <2>4, <2>6, <3>1, OneMoreUse
    <3>4. last' \in [Norm -> 0..MaxUses] /\ \A k \in Norm : last'[k] <= uses'
      BY <1>2, <2>3, <3>1
    <3>. QED
      BY <2>3, <2>5, <3>2, <3>3, <3>4 DEF LruInv, LruType, ByUse
  <2>7. CASE ~isNew
    <3>1. order' = Kept /\ last' = last
      BY <1>2, <2>2, <2>7
    <3>2. Len(order') <= MaxEntries
      BY <2>4, <3>1, LruAssumption
    <3>. QED
      BY <1>2, <2>3, <2>4, <2>5, <3>1, <3>2, SMTT(20) DEF LruInv, LruType, ByUse
  <2>. QED
    BY <2>6, <2>7
<1>6. CASE Tick
  BY <1>2, <1>6 DEF Tick, LruInv, LruType, ByUse
<1>7. CASE UNCHANGED vars
  BY <1>2, <1>7 DEF vars, LruInv, LruType, ByUse
<1>. QED
  BY <1>1, <1>4, <1>5, <1>6, <1>7 DEF Next

LEMMA LruInit == Init => LruInv
<1>1. SUFFICES ASSUME Init PROVE LruInv
  OBVIOUS
<1>2. order \in Seq(Norm) /\ Len(order) = 0 /\ InOrder(order, last)
  BY <1>1 DEF Init, InOrder
<1>3. MaxEntries \in Nat /\ MaxUses \in Nat
  BY LruAssumption
<1>. QED
  BY <1>1, <1>2, <1>3, NoEntryType DEF Init, LruInv, LruType, ByUse

\* What goes before its time was inserted or read the longest ago: the Map's order is the
\* order of the last uses, and only its first key is evicted.
THEOREM EvictsLeastRecent == Spec => VictimIsLeastRecent
<1>. DEFINE A == \A n \in Keys : n \notin ToSet(order') /\ now <= entry[n].exp =>
                    \A k \in Keys : last[n] <= last[k]
<1>1. LruInv /\ [Next]_vars => [A]_vars
  <2>1. SUFFICES ASSUME LruInv, Next, NEW n \in Keys, n \notin ToSet(order'),
                        now <= entry[n].exp, NEW k \in Keys
                 PROVE  last[n] <= last[k]
    OBVIOUS
  <2>2. order \in Seq(Norm) /\ n \in Norm /\ Keys \subseteq Norm
        /\ now \in Nat /\ entry[n].exp \in Nat /\ last[n] \in Nat /\ last[k] \in Nat
    <3>1. order \in Seq(Norm) /\ Keys \subseteq Norm
      BY <2>1, KeysAreNorm DEF LruInv, LruType
    <3>. QED
      BY <2>1, <3>1, LruAssumption DEF LruInv, LruType
  <2>3. order' # order
    BY <2>1 DEF Keys
  <2>4. ASSUME NEW u \in Raw, Get(u) PROVE FALSE
    <3>1. PICK m \in Norm : m = NormOf[u]
      BY NormOfType
    <3>2. Missed(m) \/ Dropped(m) \/ Served(m)
      BY <2>4, <3>1, GetCases
    <3>3. CASE Missed(m)
      BY <2>3, <3>3 DEF Missed
    <3>4. CASE Dropped(m)
      <4>1. ToSet(order') = Keys \ {m} /\ now > entry[m].exp
        BY <2>1, <3>4, WithoutIs DEF Dropped, Expired
      <4>2. n = m
        BY <2>1, <4>1
      <4>. QED
        BY <2>1, <2>2, <4>1, <4>2
    <3>5. CASE Served(m)
      <4>1. order' = Append(Without(m), m) /\ m \in Keys
        BY <3>5 DEF Served, ReadMoves
      <4>2. Without(m) \in Seq(Norm) /\ ToSet(Without(m)) = Keys \ {m}
        BY <2>1, <4>1, WithoutIs
      <4>3. \A x : x \in ToSet(Append(Without(m), m)) <=> x \in ToSet(Without(m)) \/ x = m
        BY <4>2, AppendedTo
      <4>. QED
        BY <2>1, <4>1, <4>2, <4>3
    <3>. QED
      BY <3>2, <3>3, <3>4, <3>5
  <2>5. ASSUME NEW u \in Raw, Set(u) PROVE last[n] <= last[k]
    <3>1. PICK m \in Norm : m = NormOf[u]
      BY NormOfType
    <3>2. order' = (IF m \notin ToSet(Kept) THEN Append(Kept, m) ELSE Kept) /\ Kept \in Seq(Norm)
      BY <2>1, <2>5, <3>1, KeptIs DEF Set
    <3>3. n \notin ToSet(Kept)
      BY <2>1, <3>2, AppendedTo
    <3>4. order # <<>> /\ n = order[1]
      BY <2>1, <3>3, KeptIs DEF Keys
    <3>5. PICK j \in 1..Len(order) : order[j] = k
      BY <2>2, ElementsOf DEF Keys
    <3>6. 1 \in 1..Len(order) /\ (j = 1 \/ 1 < j)
      BY <2>2, <3>5
    <3>7. InOrder(order, last)
      BY <2>1 DEF LruInv, ByUse
    <3>. QED
      BY <2>2, <3>4, <3>5, <3>6, <3>7 DEF InOrder
  <2>6. ~Tick
    BY <2>3 DEF Tick
  <2>. QED
    BY <2>1, <2>4, <2>5, <2>6 DEF Next
<1>. HIDE DEF A
<1>2. Spec => [][A]_vars
  BY <1>1, LruInit, LruStep, PTL DEF Spec
<1>. QED
  BY <1>2 DEF A, VictimIsLeastRecent
----------------------------------------------------------------------------
(* The bounded map of pages. *)

Live(n) == n \in Keys /\ now <= entry[n].exp
Shown(n) ==
  IF Live(n) THEN [value |-> entry[n].v, at |-> entry[n].exp - Ttl] ELSE None
Contents == [p \in Pages |-> EntryOf(p)]
AllShown == \A n \in Norm : Contents[PageOf[n]] = Shown(n)

\* A normal form and its page determine each other.
LEMMA PagesAreNorm ==
  \A n \in Norm : PageOf[n] \in Pages /\ \A m \in Norm : PageOf[m] = PageOf[n] => m = n
<1>1. \A u, v \in Known : SamePage(u, v) <=> Normalize(u) = Normalize(v)
  BY KnownAreUrls, NormalFormNamesThePage
<1>2. ASSUME NEW n \in Norm PROVE Normalize(n) = n
  BY KeysAreNormal
<1>3. ASSUME NEW n \in Norm PROVE Normalize(PageOf[n]) = n
  <2>1. PICK u \in Raw : n = Normalize(u)
    BY DEF Norm, NormOf
  <2>2. n \in Known /\ u \in Known
    BY <2>1 DEF Known
  <2>3. SamePage(n, u)
    BY <1>1, <1>2, <2>1, <2>2, Zenon
  <2>4. PageOf[n] \in Raw /\ SamePage(n, PageOf[n])
    BY <2>3, Zenon DEF PageOf
  <2>5. PageOf[n] \in Known
    BY <2>4 DEF Known
  <2>6. Normalize(n) = Normalize(PageOf[n])
    BY <1>1, <2>2, <2>4, <2>5, Zenon
  <2>. QED
    BY <1>2, <2>6, Zenon
<1>4. \A n \in Norm : PageOf[n] \in Pages
  BY DEF Pages
<1>. QED
  BY <1>3, <1>4, Zenon

\* What the abstract map holds under the page of n.
LEMMA ContentsAre == LruInv => AllShown
<1>. SUFFICES ASSUME LruInv, NEW n \in Norm PROVE Contents[PageOf[n]] = Shown(n)
  BY DEF AllShown
<1>. DEFINE held == {m \in Keys : PageOf[m] = PageOf[n] /\ now <= entry[m].exp}
<1>1. held = IF Live(n) THEN {n} ELSE {}
  BY PagesAreNorm, KeysAreNorm DEF Live
<1>2. Contents[PageOf[n]] = IF held = {} THEN None
                            ELSE LET m == CHOOSE m \in held : TRUE IN
                                 [value |-> entry[m].v, at |-> entry[m].exp - Ttl]
  BY PagesAreNorm DEF Contents, EntryOf
<1>. HIDE DEF held
<1>3. CASE Live(n)
  <2>1. held = {n}
    BY <1>1, <1>3
  <2>2. (CHOOSE m \in held : TRUE) = n
    BY <2>1
  <2>. QED
    BY <1>2, <1>3, <2>1, <2>2 DEF Shown
<1>4. CASE ~Live(n)
  BY <1>1, <1>2, <1>4 DEF Shown
<1>. QED
  BY <1>3, <1>4

LEMMA ContentsBecome == LruInv' => AllShown'
<1>1. LruInv => AllShown
  BY ContentsAre
<1>. QED
  BY <1>1, PTL

----------------------------------------------------------------------------
(* The steps of the map, in terms of what is shown. *)

LEMMA AsMapGet ==
  ASSUME NEW p \in Pages, Contents' = Contents, now' = now,
         answer' = IF Contents[p] = None THEN None ELSE Contents[p].value
  PROVE  Map!Next
<1>1. Map!Get(p)
  BY DEF Map!Get, Contents
<1>. QED
  BY <1>1 DEF Map!Next

HeldIn(c) == {p \in Pages : c[p] # None}

LEMMA OneCardinality == \A S : Map!Cardinality(S) = Cardinality(S)
BY DEF Map!Cardinality, Cardinality

LEMMA AsMapPut ==
  ASSUME NEW p \in Pages, NEW v \in 1..MaxUses,
         Contents'[p] = [value |-> v, at |-> now],
         \A q \in Pages \ {p} : Contents'[q] \in {Contents[q], None},
         Cardinality((HeldIn(Contents) \ {p}) \ HeldIn(Contents')) <= 1,
         Cardinality(HeldIn(Contents')) <= MaxEntries,
         answer' = None, now' = now
  PROVE  Map!Next
<1>1. Map!Put(p, v)
  BY OneCardinality DEF Map!Put, Map!Held, HeldIn, Contents
<1>. QED
  BY <1>1 DEF Map!Next

LEMMA AsMapPass ==
  ASSUME now' = now + 1, answer' = answer,
         \A p \in Pages : Contents'[p] =
           IF Contents[p] # None /\ now' - Contents[p].at <= Ttl THEN Contents[p] ELSE None
  PROVE  Map!Next
<1>1. Map!Pass
  BY DEF Map!Pass, Contents
<1>. QED
  BY <1>1 DEF Map!Next

\* What is shown is an entry, never the value None.
LEMMA ShownIs ==
  ASSUME LruInv, NEW n \in Norm
  PROVE  /\ Shown(n) # None <=> Live(n)
         /\ Live(n) => Shown(n).value = entry[n].v /\ Shown(n).at = entry[n].exp - Ttl
<1>1. entry[n].v \in Nat /\ entry[n].exp \in Nat /\ Ttl \in Nat
  BY LruAssumption DEF LruInv, LruType
<1>2. [value |-> entry[n].v, at |-> entry[n].exp - Ttl] \in [value : Nat, at : Int]
  BY <1>1
<1>3. [value |-> entry[n].v, at |-> entry[n].exp - Ttl] # None
  BY <1>2, LruAssumption
<1>. QED
  BY <1>3 DEF Shown

\* Contents are the same if every page shows the same.
LEMMA SameContents ==
  ASSUME AllShown, AllShown', \A n \in Norm : Shown(n)' = Shown(n)
  PROVE  Contents' = Contents
<1>1. \A n \in Norm : Contents'[PageOf[n]] = Contents[PageOf[n]]
  BY DEF AllShown
<1>2. \A p \in Pages : Contents'[p] = Contents[p]
  BY <1>1 DEF Pages
<1>. QED
  BY <1>2 DEF Contents

\* What is shown depends on being a key, the entry and the time.
LEMMA SameShown ==
  ASSUME NEW n \in Norm, now' = now, n \in Keys' <=> n \in Keys,
         n \in Keys => entry'[n] = entry[n]
  PROVE  Shown(n)' = Shown(n)
<1>1. CASE n \in Keys
  BY <1>1 DEF Shown, Live
<1>2. CASE n \notin Keys
  BY <1>2 DEF Shown, Live
<1>. QED
  BY <1>1, <1>2

LEMMA GetIsAMapStep ==
  ASSUME LruInv, AllShown, AllShown', NEW u \in Raw, Get(u)
  PROVE  Map!Next
<1>1. PICK n \in Norm : n = NormOf[u]
  BY NormOfType
<1>. DEFINE p == PageOf[n]
<1>2. p \in Pages /\ Contents[p] = Shown(n)
  BY DEF Pages, AllShown
<1>3. /\ now' = now
      /\ \/ Missed(n) /\ answer' = None
         \/ Dropped(n) /\ answer' = None
         \/ Served(n)
  BY <1>1, GetCases
<1>. HIDE DEF p
<1>4. CASE Missed(n) /\ answer' = None
  <2>1. \A m \in Norm : Shown(m)' = Shown(m)
    BY <1>3, <1>4, SameShown DEF Missed, Keys
  <2>2. Contents[p] = None
    BY <1>2, <1>4 DEF Missed, Shown, Live
  <2>3. Contents' = Contents
    BY <2>1, SameContents
  <2>. QED
    BY <1>2, <1>3, <1>4, <2>2, <2>3, AsMapGet
<1>5. CASE Dropped(n) /\ answer' = None
  <2>1. /\ n \in Keys /\ now > entry[n].exp
        /\ Keys' = Keys \ {n}
        /\ entry' = [entry EXCEPT ![n] = NoEntry]
    <3>1. n \in Keys /\ now > entry[n].exp /\ order' = Without(n)
          /\ entry' = [entry EXCEPT ![n] = NoEntry]
      BY <1>5 DEF Dropped, Expired
    <3>2. ToSet(Without(n)) = Keys \ {n}
      BY <3>1, WithoutIs
    <3>. QED
      BY <3>1, <3>2 DEF Keys
  <2>2. ~Live(n) /\ ~Live(n)'
    <3>1. now \in Nat /\ entry[n].exp \in Nat
      BY DEF LruInv, LruType
    <3>. QED
      BY <2>1, <3>1 DEF Live
  <2>3. ASSUME NEW m \in Norm PROVE Shown(m)' = Shown(m)
    <3>1. CASE m = n
      BY <2>2, <3>1 DEF Shown
    <3>2. CASE m # n
      <4>1. (m \in Keys' <=> m \in Keys) /\ entry'[m] = entry[m]
        BY <2>1, <3>2 DEF LruInv, LruType
      <4>. QED
        BY <1>3, <4>1, SameShown
    <3>. QED
      BY <3>1, <3>2
  <2>4. Contents[p] = None
    BY <1>2, <2>2 DEF Shown
  <2>5. Contents' = Contents
    BY <2>3, SameContents
  <2>. QED
    BY <1>2, <1>3, <1>5, <2>4, <2>5, AsMapGet
<1>6. CASE Served(n)
  <2>1. n \in Keys /\ ~(now > entry[n].exp) /\ order' = Append(Without(n), n)
        /\ answer' = entry[n].v /\ entry' = entry
    BY <1>6 DEF Served, Expired, ReadMoves
  <2>2. Keys' = Keys
    <3>1. Without(n) \in Seq(Norm) /\ ToSet(Without(n)) = Keys \ {n}
      BY <2>1, WithoutIs
    <3>2. \A x : x \in ToSet(Append(Without(n), n)) <=> x \in ToSet(Without(n)) \/ x = n
      BY <3>1, AppendedTo
    <3>3. \A x : x \in Keys' <=> x \in Keys
      BY <2>1, <3>1, <3>2 DEF Keys
    <3>. QED
      BY <3>3 DEF Keys
  <2>3. Live(n)
    <3>1. now \in Nat /\ entry[n].exp \in Nat
      BY DEF LruInv, LruType
    <3>. QED
      BY <2>1, <3>1 DEF Live
  <2>4. Contents[p] # None /\ Contents[p].value = answer'
    BY <1>2, <2>1, <2>3, ShownIs
  <2>5. \A m \in Norm : Shown(m)' = Shown(m)
    BY <1>3, <2>1, <2>2, SameShown
  <2>6. Contents' = Contents
    BY <2>5, SameContents
  <2>. QED
    BY <1>2, <1>3, <2>4, <2>6, AsMapGet
<1>. QED
  BY <1>3, <1>4, <1>5, <1>6

LEMMA TickIsAMapStep ==
  ASSUME LruInv, AllShown, AllShown', Tick
  PROVE  Map!Next
<1>1. now' = now + 1 /\ Keys' = Keys /\ entry' = entry /\ answer' = answer
  BY DEF Tick, Keys
<1>2. ASSUME NEW n \in Norm
      PROVE  Shown(n)' = IF Shown(n) # None /\ now' - Shown(n).at <= Ttl THEN Shown(n) ELSE None
  <2>1. now \in Nat /\ entry[n].exp \in Nat /\ Ttl \in Nat
    BY LruAssumption DEF LruInv, LruType
  <2>2. CASE ~Live(n)
    <3>1. Shown(n) = None /\ ~Live(n)'
      BY <1>1, <2>1, <2>2 DEF Shown, Live
    <3>. QED
      BY <3>1 DEF Shown
  <2>3. CASE Live(n)
    <3>1. Shown(n) # None /\ Shown(n).at = entry[n].exp - Ttl
      BY <2>3, ShownIs
    <3>2. now' - Shown(n).at <= Ttl <=> now + 1 <= entry[n].exp
      BY <1>1, <2>1, <3>1
    <3>3. Live(n)' <=> now + 1 <= entry[n].exp
      BY <1>1, <2>3 DEF Live
    <3>4. Live(n)' => Shown(n)' = Shown(n)
      BY <1>1, <2>3 DEF Shown
    <3>5. ~Live(n)' => Shown(n)' = None
      BY DEF Shown
    <3>. QED
      BY <3>1, <3>2, <3>3, <3>4, <3>5, Zenon
  <2>. QED
    BY <2>2, <2>3
<1>3. ASSUME NEW q \in Pages
      PROVE  Contents'[q] =
               IF Contents[q] # None /\ now' - Contents[q].at <= Ttl THEN Contents[q] ELSE None
  <2>1. PICK n \in Norm : q = PageOf[n]
    BY DEF Pages
  <2>2. Contents[q] = Shown(n) /\ Contents'[q] = Shown(n)'
    BY <2>1 DEF AllShown
  <2>. QED
    BY <1>2, <2>2, Zenon
<1>. QED
  BY <1>1, <1>3, AsMapPass

\* There are no more pages to show than keys.
FewHeld == Cardinality(HeldIn(Contents)) <= MaxEntries

LEMMA NoMoreThanKeys == LruInv /\ AllShown => FewHeld
<1>. SUFFICES ASSUME LruInv, AllShown PROVE FewHeld
  OBVIOUS
<1>. DEFINE places == 1..Len(order)
            f == [i \in places |-> PageOf[order[i]]]
            shown == {f[i] : i \in places}
            held == HeldIn(Contents)
<1>1. order \in Seq(Norm) /\ Len(order) \in Nat /\ Len(order) <= MaxEntries /\ MaxEntries \in Nat
  BY LruAssumption DEF LruInv, LruType
<1>2. IsFiniteSet(places) /\ Cardinality(places) = Len(order)
  <2>1. 1 \in Int /\ Len(order) \in Int
    BY <1>1
  <2>2. IsFiniteSet(1..Len(order))
        /\ Cardinality(1..Len(order)) = IF 1 > Len(order) THEN 0 ELSE Len(order) - 1 + 1
    BY <2>1, FS_Interval
  <2>. QED
    BY <1>1, <2>2
<1>3. f \in Surjection(places, shown)
  <2>1. f \in [places -> shown] /\ \A t \in shown : \E s \in places : f[s] = t
    OBVIOUS
  <2>. QED
    BY <2>1 DEF Surjection
<1>4. held \subseteq shown
  <2>1. SUFFICES ASSUME NEW q \in Pages, Contents[q] # None PROVE q \in shown
    BY DEF HeldIn
  <2>2. PICK n \in Norm : q = PageOf[n]
    BY DEF Pages
  <2>3. n \in Keys
    BY <2>1, <2>2 DEF AllShown, Shown, Live
  <2>4. PICK i \in places : order[i] = n
    BY <1>1, <2>3, ElementsOf DEF Keys
  <2>. QED
    BY <2>2, <2>4
<1>. HIDE DEF places, f, shown, held
<1>5. IsFiniteSet(shown) /\ Cardinality(shown) <= Cardinality(places)
  BY <1>2, <1>3, FS_Surjection
<1>6. IsFiniteSet(held) /\ Cardinality(held) <= Cardinality(shown)
  BY <1>4, <1>5, FS_Subset
<1>7. Cardinality(held) \in Nat /\ Cardinality(shown) \in Nat
  BY <1>5, <1>6, FS_CardinalityType
<1>. QED
  BY <1>1, <1>2, <1>5, <1>6, <1>7 DEF FewHeld, held

LEMMA StillFew ==
  LruInv' /\ AllShown' => FewHeld'
<1>1. LruInv /\ AllShown => FewHeld
  BY NoMoreThanKeys
<1>. QED
  BY <1>1, PTL

LEMMA SetIsAMapStep ==
  ASSUME LruInv, LruInv', AllShown, AllShown', NEW u \in Raw, Set(u)
  PROVE  Map!Next
<1>1. PICK n \in Norm : n = NormOf[u]
  BY NormOfType
<1>. DEFINE p == PageOf[n]
            K == ToSet(Kept)
<1>2. /\ uses' = uses + 1 /\ uses < MaxUses /\ now' = now /\ answer' = None
      /\ order' = IF n \notin K THEN Append(Kept, n) ELSE Kept
      /\ entry' = [k \in Norm |-> IF k = n THEN [v |-> uses', exp |-> now + Ttl]
                                  ELSE IF k \in K THEN entry[k] ELSE NoEntry]
  BY <1>1 DEF Set
<1>3. /\ Kept \in Seq(Norm) /\ K \subseteq Keys
      /\ \A m, k \in Keys \ K : m = k
  BY KeptIs DEF Keys
<1>4. Keys' = K \cup {n}
  <2>1. \A x : x \in ToSet(Append(Kept, n)) <=> x \in K \/ x = n
    BY <1>3, AppendedTo
  <2>2. CASE n \in K
    BY <1>2, <2>2 DEF Keys
  <2>3. CASE n \notin K
    BY <1>2, <2>1, <2>3 DEF Keys
  <2>. QED
    BY <2>2, <2>3
<1>. HIDE DEF K
<1>5. Shown(n)' = [value |-> uses', at |-> now]
  <2>1. now \in Nat /\ Ttl \in Nat
    BY LruAssumption DEF LruInv, LruType
  <2>2. n \in Keys' /\ entry'[n].v = uses' /\ entry'[n].exp = now + Ttl
    BY <1>2, <1>4
  <2>3. now' <= entry'[n].exp /\ entry'[n].exp - Ttl = now
    BY <1>2, <2>1, <2>2
  <2>. QED
    BY <2>2, <2>3 DEF Shown, Live
<1>6. ASSUME NEW m \in Norm, m # n
      PROVE  Shown(m)' = IF m \in K THEN Shown(m) ELSE None
  <2>1. CASE m \in K
    <3>1. (m \in Keys' <=> m \in Keys) /\ entry'[m] = entry[m]
      BY <1>2, <1>3, <1>4, <1>6, <2>1
    <3>. QED
      BY <1>2, <2>1, <3>1, SameShown
  <2>2. CASE m \notin K
    <3>1. m \notin Keys'
      BY <1>4, <1>6, <2>2
    <3>. QED
      BY <2>2, <3>1 DEF Shown, Live
  <2>. QED
    BY <2>1, <2>2
<1>7. \A q \in Pages \ {p} : \E m \in Norm : m # n /\ q = PageOf[m]
  BY DEF Pages
<1>8. p \in Pages /\ uses' \in 1..MaxUses /\ Contents'[p] = [value |-> uses', at |-> now]
  <2>1. uses' \in 1..MaxUses
    BY <1>2, LruAssumption DEF LruInv, LruType
  <2>. QED
    BY <1>5, <2>1 DEF Pages, AllShown
<1>9. \A q \in Pages \ {p} : Contents'[q] \in {Contents[q], None}
  BY <1>6, <1>7 DEF AllShown
<1>. DEFINE lost == (HeldIn(Contents) \ {p}) \ HeldIn(Contents')
<1>10. Cardinality(lost) <= 1
  <2>1. ASSUME NEW q \in lost PROVE \E m \in Keys \ K : m \in Norm /\ q = PageOf[m]
    <3>1. q \in Pages \ {p} /\ Contents[q] # None /\ Contents'[q] = None
      BY <2>1 DEF HeldIn
    <3>2. PICK m \in Norm : m # n /\ q = PageOf[m]
      BY <1>7, <3>1
    <3>3. Shown(m) # None /\ Shown(m)' = None
      BY <3>1, <3>2 DEF AllShown
    <3>4. m \in Keys
      BY <3>3 DEF Shown, Live
    <3>5. m \notin K
      BY <1>6, <3>2, <3>3
    <3>. QED
      BY <3>2, <3>4, <3>5
  <2>2. \A q, r \in lost : q = r
    BY <1>3, <2>1
  <2>3. PICK a : lost \subseteq {a}
    BY <2>2
  <2>. HIDE DEF lost
  <2>4. IsFiniteSet({a}) /\ Cardinality({a}) = 1
    BY FS_Singleton
  <2>5. Cardinality(lost) <= Cardinality({a})
    BY <2>3, <2>4, FS_Subset
  <2>. QED
    BY <2>4, <2>5
<1>11. Cardinality(HeldIn(Contents')) <= MaxEntries
  BY StillFew DEF FewHeld
<1>. HIDE DEF p
<1>. QED
  BY <1>2, <1>8, <1>9, <1>10, <1>11, AsMapPut

LEMMA BeginsEmpty ==
  ASSUME Init
  PROVE  Map!Init
<1>1. LruInv /\ AllShown
  BY LruInit, ContentsAre
<1>2. Keys = {}
  BY ElementsOf DEF Init, Keys, ToSet
<1>3. \A q \in Pages : Contents[q] = None
  BY <1>1, <1>2 DEF Pages, AllShown, Shown, Live
<1>4. Contents = [q \in Pages |-> None]
  BY <1>3 DEF Contents
<1>. QED
  BY <1>4 DEF Init, Contents, Map!Init

\* The L1 is the bounded map of pages, whatever spelling of a URL a client uses.
\* A read that finds nothing is a read of a page not shown; what an insertion pushes out
\* is one page; no page is shown beyond its TTL.
THEOREM IsABoundedMap == Spec => L1IsABoundedMap
<1>1. Init => Map!Init
  BY BeginsEmpty
<1>2. LruInv /\ LruInv' /\ [Next]_vars => [Map!Next]_(Map!vars)
  <2>1. SUFFICES ASSUME LruInv, LruInv', [Next]_vars PROVE Map!Next \/ UNCHANGED Map!vars
    OBVIOUS
  <2>2. AllShown /\ AllShown'
    BY <2>1, ContentsAre, ContentsBecome
  <2>3. CASE Tick
    BY <2>1, <2>2, <2>3, TickIsAMapStep
  <2>4. ASSUME NEW u \in Raw, Get(u) PROVE Map!Next
    BY <2>1, <2>2, <2>4, GetIsAMapStep
  <2>5. ASSUME NEW u \in Raw, Set(u) PROVE Map!Next
    BY <2>1, <2>2, <2>5, SetIsAMapStep
  <2>6. CASE UNCHANGED vars
    <3>1. now' = now /\ answer' = answer /\ \A n \in Norm : Shown(n)' = Shown(n)
      BY <2>6 DEF vars, Shown, Live, Keys
    <3>2. Contents' = Contents
      BY <2>2, <3>1, SameContents
    <3>. QED
      BY <3>1, <3>2 DEF Map!vars, Contents
  <2>. QED
    BY <2>1, <2>3, <2>4, <2>5, <2>6 DEF Next
<1>. QED
  BY <1>1, <1>2, LruInit, LruStep, PTL DEF Spec, L1IsABoundedMap, Map!Spec
=============================================================================
