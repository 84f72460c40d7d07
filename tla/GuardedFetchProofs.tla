------------------------- MODULE GuardedFetchProofs -------------------------
(***************************************************************************)
(* Theorems about GuardedFetch: the masks of the table are the reserved    *)
(* ranges for every address, and no request leaves the public web.         *)
(***************************************************************************)
EXTENDS GuardedFetch, SafeFetchProofs

----------------------------------------------------------------------------
(* Masks and ranges, for one family of addresses. *)

Family(n, w) == (n = 4 /\ w = 8) \/ (n = 8 /\ w = 16)

LEMMA Powers ==
  /\ 2 ^ 0 = 1 /\ 2 ^ 1 = 2 /\ 2 ^ 4 = 16 /\ 2 ^ 6 = 64 /\ 2 ^ 8 = 256
  /\ 2 ^ 9 = 512 /\ 2 ^ 16 = 65536
OBVIOUS

LEMMA Lengths ==
  /\ \A ip \in V4 : Len(ip) = 4 /\ IsV4(ip) /\ Width(ip) = 8
  /\ \A ip \in V6 : Len(ip) = 8 /\ ~IsV4(ip) /\ Width(ip) = 16
<1>1. \A S : (\A ip \in [1..4 -> S] : Len(ip) = 4) /\ (\A ip \in [1..8 -> S] : Len(ip) = 8)
  OBVIOUS
<1>2. (\A ip \in V4 : Len(ip) = 4) /\ (\A ip \in V6 : Len(ip) = 8)
  BY <1>1 DEF V4, V6
<1>. QED
  BY <1>2 DEF IsV4, Width

LEMMA Units ==
  ASSUME NEW n, NEW w, Family(n, w)
  PROVE  /\ n \in Nat /\ w \in Nat /\ 2 ^ w \in Nat /\ 2 ^ w > 0
         /\ \A x : x \in Unit(w) <=> x \in Nat /\ x < 2 ^ w
<1>1. n \in Nat /\ w \in Nat /\ 2 ^ w \in Nat /\ 2 ^ w > 0
  <2>1. CASE n = 4 /\ w = 8
    BY <2>1, Powers
  <2>2. CASE n = 8 /\ w = 16
    BY <2>2, Powers
  <2>. QED
    BY <2>1, <2>2 DEF Family
<1>. QED
  BY <1>1 DEF Unit

\* ip agrees with net before unit i, and in unit i but for the last bits.
Masked(ip, net, i, h) ==
  /\ \A j \in 1..(i - 1) : ip[j] = net[j]
  /\ ip[i] \div h = net[i] \div h

\* ip agrees with both ends before unit i, where it lies between them.
Ranged(ip, first, last, i) ==
  /\ \A j \in 1..(i - 1) : ip[j] = first[j]
  /\ first[i] <= ip[i] /\ ip[i] <= last[i]

\* A block that ends in unit i, b bits into it: the units before i agree, and unit i
\* agrees in its first b bits.
LEMMA MaskOfUnit ==
  ASSUME NEW n, NEW w, Family(n, w), NEW ip \in [1..n -> Unit(w)], NEW net \in [1..n -> Unit(w)],
         NEW i \in 1..n, NEW b \in 1..w
  PROVE  InCidr(ip, Block(net, (i - 1) * w + b)) <=> Masked(ip, net, i, 2 ^ (w - b))
<1>. USE DEF Masked
<1>1. Len(ip) = n /\ Width(ip) = w
  BY Lengths DEF Family, V4, V6
<1>2. /\ n \in Nat /\ w \in Nat /\ 2 ^ w \in Nat /\ 2 ^ w > 0
      /\ \A x \in Unit(w) : x \in Nat /\ x < 2 ^ w
  BY Units
<1>. DEFINE prefix == (i - 1) * w + b
            host(j) == 2 ^ (w - Covered(prefix, j, w))
<1>3. InCidr(ip, Block(net, prefix)) <=> \A j \in 1..n : ip[j] \div host(j) = net[j] \div host(j)
  BY <1>1 DEF InCidr, Block
<1>4. ASSUME NEW j \in 1..n, j < i PROVE Covered(prefix, j, w) = w
  BY <1>4 DEF Family, Covered
<1>5. ASSUME NEW j \in 1..n, j > i PROVE Covered(prefix, j, w) = 0
  BY <1>5 DEF Family, Covered
<1>6. Covered(prefix, i, w) = b
  BY DEF Family, Covered
<1>7. ASSUME NEW j \in 1..n, j < i
      PROVE  ip[j] \div host(j) = net[j] \div host(j) <=> ip[j] = net[j]
  <2>1. host(j) = 1
    <3>1. w - Covered(prefix, j, w) = 0
      BY <1>2, <1>4, <1>7
    <3>2. host(j) = 2 ^ 0
      BY <3>1, Zenon
    <3>. QED
      BY <3>2, Powers
  <2>2. ip[j] \in Nat /\ net[j] \in Nat
    BY <1>2
  <2>. QED
    BY <2>1, <2>2
<1>8. ASSUME NEW j \in 1..n, j > i
      PROVE  ip[j] \div host(j) = net[j] \div host(j)
  <2>1. host(j) = 2 ^ w
    <3>1. w - Covered(prefix, j, w) = w
      BY <1>2, <1>5, <1>8
    <3>. QED
      BY <3>1
  <2>2. ip[j] \in Nat /\ net[j] \in Nat /\ ip[j] < 2 ^ w /\ net[j] < 2 ^ w
    BY <1>2
  <2>3. ip[j] \div 2 ^ w = 0 /\ net[j] \div 2 ^ w = 0
    <3>1. 2 ^ w = 256 \/ 2 ^ w = 65536
      <4>1. CASE w = 8
        BY <4>1, Powers
      <4>2. CASE w = 16
        BY <4>2, Powers
      <4>. QED
        BY <4>1, <4>2 DEF Family
    <3>. QED
      BY <2>2, <3>1
  <2>. QED
    BY <2>1, <2>3
<1>9. host(i) = 2 ^ (w - b)
  BY <1>6
<1>10. \A j \in 1..n : j < i \/ j = i \/ j > i
  BY <1>2
<1>11. 1..(i - 1) = {j \in 1..n : j < i}
  BY <1>2
<1>. HIDE DEF host, prefix
<1>12. (\A j \in 1..n : ip[j] \div host(j) = net[j] \div host(j)) <=>
         /\ \A j \in 1..(i - 1) : ip[j] = net[j]
         /\ ip[i] \div 2 ^ (w - b) = net[i] \div 2 ^ (w - b)
  BY <1>7, <1>8, <1>9, <1>10, <1>11
<1>. QED
  BY <1>3, <1>12 DEF prefix

\* A range whose ends agree up to unit i, and are the least and the greatest after it.
LEMMA RangeOfUnit ==
  ASSUME NEW n, NEW w, Family(n, w), NEW ip \in [1..n -> Unit(w)],
         NEW first \in [1..n -> Unit(w)], NEW last \in [1..n -> Unit(w)], NEW i \in 1..n,
         \A j \in 1..(i - 1) : first[j] = last[j],
         \A j \in (i + 1)..n : first[j] = 0 /\ \A x \in Unit(w) : x <= last[j]
  PROVE  AtMost(first, ip) /\ AtMost(ip, last) <=> Ranged(ip, first, last, i)
<1>. USE DEF Ranged
<1>1. Len(ip) = n /\ Len(first) = n /\ n \in {4, 8} /\ Unit(w) \subseteq Nat
  BY Lengths, Units DEF Family, V4, V6
<1>2. ASSUME AtMost(first, ip), AtMost(ip, last)
      PROVE  /\ \A j \in 1..(i - 1) : ip[j] = first[j]
             /\ first[i] <= ip[i] /\ ip[i] <= last[i]
  <2>. DEFINE Agree(m) == \A k \in 1..m : k < i => ip[k] = first[k]
  <2>1. ASSUME NEW j \in 1..8, Agree(j - 1) PROVE Agree(j)
    <3>1. SUFFICES ASSUME j < i PROVE ip[j] = first[j]
      BY <1>1, <2>1
    <3>2. j \in 1..n /\ \A k \in 1..(j - 1) : first[k] = ip[k] /\ ip[k] = last[k]
      BY <1>1, <2>1, <3>1
    <3>3. first[j] <= ip[j]
      BY <1>1, <1>2, <3>2 DEF AtMost
    <3>4. ip[j] <= last[j]
      BY <1>1, <1>2, <3>2 DEF AtMost
    <3>5. first[j] = last[j]
      BY <1>1, <3>1, <3>2
    <3>6. ip[j] \in Nat /\ first[j] \in Nat /\ last[j] \in Nat
      BY <1>1, <3>2
    <3>. QED
      BY <3>3, <3>4, <3>5, <3>6
  <2>2. Agree(1 - 1)
    OBVIOUS
  <2>. HIDE DEF Agree
  <2>3. Agree(1) /\ Agree(2) /\ Agree(3) /\ Agree(4)
    <3>1. Agree(1)
      BY <2>1, <2>2
    <3>2. Agree(2)
      BY <2>1, <3>1, 2 - 1 = 1
    <3>3. Agree(3)
      BY <2>1, <3>2, 3 - 1 = 2
    <3>4. Agree(4)
      BY <2>1, <3>3, 4 - 1 = 3
    <3>. QED
      BY <3>1, <3>2, <3>3, <3>4
  <2>4. Agree(8)
    <3>1. Agree(5)
      BY <2>1, <2>3, 5 - 1 = 4
    <3>2. Agree(6)
      BY <2>1, <3>1, 6 - 1 = 5
    <3>3. Agree(7)
      BY <2>1, <3>2, 7 - 1 = 6
    <3>. QED
      BY <2>1, <3>3, 8 - 1 = 7
  <2>9. \A j \in 1..(i - 1) : ip[j] = first[j]
    BY <1>1, <2>4, SMTT(20) DEF Agree
  <2>10. first[i] <= ip[i] /\ ip[i] <= last[i]
    BY <1>1, <1>2, <2>9 DEF AtMost
  <2>. QED
    BY <2>9, <2>10
<1>3. ASSUME \A j \in 1..(i - 1) : ip[j] = first[j], first[i] <= ip[i], ip[i] <= last[i]
      PROVE  AtMost(first, ip) /\ AtMost(ip, last)
  <2>1. ASSUME NEW j \in 1..n PROVE first[j] <= ip[j] /\ ip[j] <= last[j]
    <3>1. CASE j < i
      BY <1>1, <1>3, <3>1
    <3>2. CASE j > i
      <4>1. j \in (i + 1)..n /\ ip[j] \in Unit(w)
        BY <1>1, <3>2
      <4>. QED
        BY <1>1, <4>1
    <3>3. CASE j = i
      BY <1>3, <3>3
    <3>. QED
      BY <1>1, <3>1, <3>2, <3>3
  <2>. QED
    BY <1>1, <2>1 DEF AtMost
<1>. QED
  BY <1>2, <1>3

\* ip is between the ends of the range r.
Within(ip, r) == Len(r[1]) = Len(ip) /\ AtMost(r[1], ip) /\ AtMost(ip, r[2])

\* A block of the table and the range it stands for: they agree before some unit, where
\* the mask keeps the values from the first to the last, and after it the range has all.
Spans(n, w, net, p, first, last) ==
  /\ {net, first, last} \subseteq [1..n -> Unit(w)]
  /\ \E i \in 1..n, b \in 1..w, h \in Nat :
       /\ p = (i - 1) * w + b /\ h = 2 ^ (w - b)
       /\ \A j \in 1..(i - 1) : first[j] = net[j] /\ last[j] = net[j]
       /\ \A j \in (i + 1)..n : first[j] = 0 /\ last[j] = 2 ^ w - 1
       /\ \A x \in Nat : x \div h = net[i] \div h <=> first[i] <= x /\ x <= last[i]

LEMMA BlockIsRange ==
  ASSUME NEW n, NEW w, Family(n, w), NEW ip \in [1..n -> Unit(w)], NEW net, NEW p,
         NEW first, NEW last, Spans(n, w, net, p, first, last)
  PROVE  InCidr(ip, Block(net, p)) <=> Within(ip, <<first, last>>)
<1>1. /\ net \in [1..n -> Unit(w)] /\ first \in [1..n -> Unit(w)]
      /\ last \in [1..n -> Unit(w)]
  BY DEF Spans
<1>2. PICK i \in 1..n, b \in 1..w, h \in Nat :
        /\ p = (i - 1) * w + b /\ h = 2 ^ (w - b)
        /\ \A j \in 1..(i - 1) : first[j] = net[j] /\ last[j] = net[j]
        /\ \A j \in (i + 1)..n : first[j] = 0 /\ last[j] = 2 ^ w - 1
        /\ \A x \in Nat : x \div h = net[i] \div h <=> first[i] <= x /\ x <= last[i]
  BY DEF Spans
<1>3. /\ Len(ip) = n /\ Len(first) = n /\ n \in Nat /\ Unit(w) \subseteq Nat
      /\ \A x \in Unit(w) : x <= 2 ^ w - 1
  <2>1. Len(ip) = n /\ Len(first) = n
    BY <1>1, Lengths DEF Family, V4, V6
  <2>. QED
    BY <2>1, Units
<1>4. InCidr(ip, Block(net, p)) <=> Masked(ip, net, i, h)
  BY <1>1, <1>2, MaskOfUnit
<1>5. AtMost(first, ip) /\ AtMost(ip, last) <=> Ranged(ip, first, last, i)
  <2>1. \A j \in 1..(i - 1) : first[j] = last[j]
    BY <1>2
  <2>2. \A j \in (i + 1)..n : first[j] = 0 /\ \A x \in Unit(w) : x <= last[j]
    BY <1>2, <1>3
  <2>. QED
    BY <1>1, <2>1, <2>2, RangeOfUnit
<1>6. Masked(ip, net, i, h) <=> Ranged(ip, first, last, i)
  <2>1. ip[i] \in Nat
    BY <1>3
  <2>. QED
    BY <1>2, <2>1 DEF Masked, Ranged
<1>. QED
  BY <1>3, <1>4, <1>5, <1>6 DEF Within

LEMMA V4Row ==
  ASSUME NEW ip \in V4, NEW net, NEW p, NEW first, NEW last, Spans(4, 8, net, p, first, last)
  PROVE  InCidr(ip, Block(net, p)) <=> Within(ip, <<first, last>>)
<1>1. Family(4, 8) /\ ip \in [1..4 -> Unit(8)]
  BY DEF Family, V4
<1>. QED
  BY <1>1, BlockIsRange

LEMMA V6Row ==
  ASSUME NEW ip \in V6, NEW net, NEW p, NEW first, NEW last, Spans(8, 16, net, p, first, last)
  PROVE  InCidr(ip, Block(net, p)) <=> Within(ip, <<first, last>>)
<1>1. Family(8, 16) /\ ip \in [1..8 -> Unit(16)]
  BY DEF Family, V6
<1>. QED
  BY <1>1, BlockIsRange

LEMMA SmallUnits == \A x \in Nat : x < 65536 => x \in Unit(16)
<1>1. \A x : x \in Unit(16) <=> x \in Nat /\ x < 2 ^ 16
  BY Units DEF Family
<1>. QED
  BY <1>1, Powers

LEMMA EightUnits ==
  ASSUME NEW S, NEW a \in S, NEW b \in S, NEW c \in S, NEW d \in S, NEW e \in S,
         NEW f \in S, NEW g \in S, NEW h \in S
  PROVE  <<a, b, c, d, e, f, g, h>> \in [1..8 -> S]
OBVIOUS

----------------------------------------------------------------------------
(* The rows of the two tables: the network, its prefix, and the range they span. *)

LEMMA V4Rows ==
  /\ Spans(4, 8, <<0, 0, 0, 0>>, 8, <<0, 0, 0, 0>>, <<0, 255, 255, 255>>)
  /\ Spans(4, 8, <<10, 0, 0, 0>>, 8, <<10, 0, 0, 0>>, <<10, 255, 255, 255>>)
  /\ Spans(4, 8, <<100, 64, 0, 0>>, 10, <<100, 64, 0, 0>>, <<100, 127, 255, 255>>)
  /\ Spans(4, 8, <<127, 0, 0, 0>>, 8, <<127, 0, 0, 0>>, <<127, 255, 255, 255>>)
  /\ Spans(4, 8, <<169, 254, 0, 0>>, 16, <<169, 254, 0, 0>>, <<169, 254, 255, 255>>)
  /\ Spans(4, 8, <<172, 16, 0, 0>>, 12, <<172, 16, 0, 0>>, <<172, 31, 255, 255>>)
  /\ Spans(4, 8, <<192, 0, 0, 0>>, 24, <<192, 0, 0, 0>>, <<192, 0, 0, 255>>)
  /\ Spans(4, 8, <<192, 0, 2, 0>>, 24, <<192, 0, 2, 0>>, <<192, 0, 2, 255>>)
  /\ Spans(4, 8, <<192, 168, 0, 0>>, 16, <<192, 168, 0, 0>>, <<192, 168, 255, 255>>)
  /\ Spans(4, 8, <<198, 18, 0, 0>>, 15, <<198, 18, 0, 0>>, <<198, 19, 255, 255>>)
  /\ Spans(4, 8, <<198, 51, 100, 0>>, 24, <<198, 51, 100, 0>>, <<198, 51, 100, 255>>)
  /\ Spans(4, 8, <<203, 0, 113, 0>>, 24, <<203, 0, 113, 0>>, <<203, 0, 113, 255>>)
  /\ Spans(4, 8, <<224, 0, 0, 0>>, 4, <<224, 0, 0, 0>>, <<239, 255, 255, 255>>)
  /\ Spans(4, 8, <<240, 0, 0, 0>>, 4, <<240, 0, 0, 0>>, <<255, 255, 255, 255>>)
<1>1. Spans(4, 8, <<0, 0, 0, 0>>, 8, <<0, 0, 0, 0>>, <<0, 255, 255, 255>>)
  <2>1. {<<0, 0, 0, 0>>, <<0, 255, 255, 255>>} \subseteq [1..4 -> Unit(8)]
    BY Powers DEF Unit
  <2>2. /\ 1 \in 1..4 /\ 8 \in 1..8 /\ 1 \in Nat
        /\ 8 = (1 - 1) * 8 + 8 /\ 1 = 2 ^ (8 - 8)
    BY Powers
  <2>. QED
    BY <2>1, <2>2, Powers DEF Spans
<1>2. Spans(4, 8, <<10, 0, 0, 0>>, 8, <<10, 0, 0, 0>>, <<10, 255, 255, 255>>)
  <2>1. {<<10, 0, 0, 0>>, <<10, 255, 255, 255>>} \subseteq [1..4 -> Unit(8)]
    BY Powers DEF Unit
  <2>2. /\ 1 \in 1..4 /\ 8 \in 1..8 /\ 1 \in Nat
        /\ 8 = (1 - 1) * 8 + 8 /\ 1 = 2 ^ (8 - 8)
    BY Powers
  <2>. QED
    BY <2>1, <2>2, Powers DEF Spans
<1>3. Spans(4, 8, <<100, 64, 0, 0>>, 10, <<100, 64, 0, 0>>, <<100, 127, 255, 255>>)
  <2>1. {<<100, 64, 0, 0>>, <<100, 127, 255, 255>>} \subseteq [1..4 -> Unit(8)]
    BY Powers DEF Unit
  <2>2. /\ 2 \in 1..4 /\ 2 \in 1..8 /\ 64 \in Nat
        /\ 10 = (2 - 1) * 8 + 2 /\ 64 = 2 ^ (8 - 2)
    BY Powers
  <2>. QED
    BY <2>1, <2>2, Powers DEF Spans
<1>4. Spans(4, 8, <<127, 0, 0, 0>>, 8, <<127, 0, 0, 0>>, <<127, 255, 255, 255>>)
  <2>1. {<<127, 0, 0, 0>>, <<127, 255, 255, 255>>} \subseteq [1..4 -> Unit(8)]
    BY Powers DEF Unit
  <2>2. /\ 1 \in 1..4 /\ 8 \in 1..8 /\ 1 \in Nat
        /\ 8 = (1 - 1) * 8 + 8 /\ 1 = 2 ^ (8 - 8)
    BY Powers
  <2>. QED
    BY <2>1, <2>2, Powers DEF Spans
<1>5. Spans(4, 8, <<169, 254, 0, 0>>, 16, <<169, 254, 0, 0>>, <<169, 254, 255, 255>>)
  <2>1. {<<169, 254, 0, 0>>, <<169, 254, 255, 255>>} \subseteq [1..4 -> Unit(8)]
    BY Powers DEF Unit
  <2>2. /\ 2 \in 1..4 /\ 8 \in 1..8 /\ 1 \in Nat
        /\ 16 = (2 - 1) * 8 + 8 /\ 1 = 2 ^ (8 - 8)
    BY Powers
  <2>. QED
    BY <2>1, <2>2, Powers DEF Spans
<1>6. Spans(4, 8, <<172, 16, 0, 0>>, 12, <<172, 16, 0, 0>>, <<172, 31, 255, 255>>)
  <2>1. {<<172, 16, 0, 0>>, <<172, 31, 255, 255>>} \subseteq [1..4 -> Unit(8)]
    BY Powers DEF Unit
  <2>2. /\ 2 \in 1..4 /\ 4 \in 1..8 /\ 16 \in Nat
        /\ 12 = (2 - 1) * 8 + 4 /\ 16 = 2 ^ (8 - 4)
    BY Powers
  <2>. QED
    BY <2>1, <2>2, Powers DEF Spans
<1>7. Spans(4, 8, <<192, 0, 0, 0>>, 24, <<192, 0, 0, 0>>, <<192, 0, 0, 255>>)
  <2>1. {<<192, 0, 0, 0>>, <<192, 0, 0, 255>>} \subseteq [1..4 -> Unit(8)]
    BY Powers DEF Unit
  <2>2. /\ 3 \in 1..4 /\ 8 \in 1..8 /\ 1 \in Nat
        /\ 24 = (3 - 1) * 8 + 8 /\ 1 = 2 ^ (8 - 8)
    BY Powers
  <2>. QED
    BY <2>1, <2>2, Powers DEF Spans
<1>8. Spans(4, 8, <<192, 0, 2, 0>>, 24, <<192, 0, 2, 0>>, <<192, 0, 2, 255>>)
  <2>1. {<<192, 0, 2, 0>>, <<192, 0, 2, 255>>} \subseteq [1..4 -> Unit(8)]
    BY Powers DEF Unit
  <2>2. /\ 3 \in 1..4 /\ 8 \in 1..8 /\ 1 \in Nat
        /\ 24 = (3 - 1) * 8 + 8 /\ 1 = 2 ^ (8 - 8)
    BY Powers
  <2>. QED
    BY <2>1, <2>2, Powers DEF Spans
<1>9. Spans(4, 8, <<192, 168, 0, 0>>, 16, <<192, 168, 0, 0>>, <<192, 168, 255, 255>>)
  <2>1. {<<192, 168, 0, 0>>, <<192, 168, 255, 255>>} \subseteq [1..4 -> Unit(8)]
    BY Powers DEF Unit
  <2>2. /\ 2 \in 1..4 /\ 8 \in 1..8 /\ 1 \in Nat
        /\ 16 = (2 - 1) * 8 + 8 /\ 1 = 2 ^ (8 - 8)
    BY Powers
  <2>. QED
    BY <2>1, <2>2, Powers DEF Spans
<1>10. Spans(4, 8, <<198, 18, 0, 0>>, 15, <<198, 18, 0, 0>>, <<198, 19, 255, 255>>)
  <2>1. {<<198, 18, 0, 0>>, <<198, 19, 255, 255>>} \subseteq [1..4 -> Unit(8)]
    BY Powers DEF Unit
  <2>2. /\ 2 \in 1..4 /\ 7 \in 1..8 /\ 2 \in Nat
        /\ 15 = (2 - 1) * 8 + 7 /\ 2 = 2 ^ (8 - 7)
    BY Powers
  <2>. QED
    BY <2>1, <2>2, Powers DEF Spans
<1>11. Spans(4, 8, <<198, 51, 100, 0>>, 24, <<198, 51, 100, 0>>, <<198, 51, 100, 255>>)
  <2>1. {<<198, 51, 100, 0>>, <<198, 51, 100, 255>>} \subseteq [1..4 -> Unit(8)]
    BY Powers DEF Unit
  <2>2. /\ 3 \in 1..4 /\ 8 \in 1..8 /\ 1 \in Nat
        /\ 24 = (3 - 1) * 8 + 8 /\ 1 = 2 ^ (8 - 8)
    BY Powers
  <2>. QED
    BY <2>1, <2>2, Powers DEF Spans
<1>12. Spans(4, 8, <<203, 0, 113, 0>>, 24, <<203, 0, 113, 0>>, <<203, 0, 113, 255>>)
  <2>1. {<<203, 0, 113, 0>>, <<203, 0, 113, 255>>} \subseteq [1..4 -> Unit(8)]
    BY Powers DEF Unit
  <2>2. /\ 3 \in 1..4 /\ 8 \in 1..8 /\ 1 \in Nat
        /\ 24 = (3 - 1) * 8 + 8 /\ 1 = 2 ^ (8 - 8)
    BY Powers
  <2>. QED
    BY <2>1, <2>2, Powers DEF Spans
<1>13. Spans(4, 8, <<224, 0, 0, 0>>, 4, <<224, 0, 0, 0>>, <<239, 255, 255, 255>>)
  <2>1. {<<224, 0, 0, 0>>, <<239, 255, 255, 255>>} \subseteq [1..4 -> Unit(8)]
    BY Powers DEF Unit
  <2>2. /\ 1 \in 1..4 /\ 4 \in 1..8 /\ 16 \in Nat
        /\ 4 = (1 - 1) * 8 + 4 /\ 16 = 2 ^ (8 - 4)
    BY Powers
  <2>. QED
    BY <2>1, <2>2, Powers DEF Spans
<1>14. Spans(4, 8, <<240, 0, 0, 0>>, 4, <<240, 0, 0, 0>>, <<255, 255, 255, 255>>)
  <2>1. {<<240, 0, 0, 0>>, <<255, 255, 255, 255>>} \subseteq [1..4 -> Unit(8)]
    BY Powers DEF Unit
  <2>2. /\ 1 \in 1..4 /\ 4 \in 1..8 /\ 16 \in Nat
        /\ 4 = (1 - 1) * 8 + 4 /\ 16 = 2 ^ (8 - 4)
    BY Powers
  <2>. QED
    BY <2>1, <2>2, Powers DEF Spans
<1>. QED
  BY <1>1, <1>2, <1>3, <1>4, <1>5, <1>6, <1>7, <1>8, <1>9, <1>10, <1>11, <1>12, <1>13, <1>14

LEMMA V6Rows ==
  /\ Spans(8, 16, <<0, 0, 0, 0, 0, 0, 0, 1>>, 128, <<0, 0, 0, 0, 0, 0, 0, 1>>,
           <<0, 0, 0, 0, 0, 0, 0, 1>>)
  /\ Spans(8, 16, <<0, 0, 0, 0, 0, 0, 0, 0>>, 128, <<0, 0, 0, 0, 0, 0, 0, 0>>,
           <<0, 0, 0, 0, 0, 0, 0, 0>>)
  /\ Spans(8, 16, <<0, 0, 0, 0, 0, \hffff, 0, 0>>, 96, <<0, 0, 0, 0, 0, \hffff, 0, 0>>,
           <<0, 0, 0, 0, 0, \hffff, \hffff, \hffff>>)
  /\ Spans(8, 16, <<\h64, \hff9b, 0, 0, 0, 0, 0, 0>>, 96, <<\h64, \hff9b, 0, 0, 0, 0, 0, 0>>,
           <<\h64, \hff9b, 0, 0, 0, 0, \hffff, \hffff>>)
  /\ Spans(8, 16, <<\h100, 0, 0, 0, 0, 0, 0, 0>>, 64, <<\h100, 0, 0, 0, 0, 0, 0, 0>>,
           <<\h100, 0, 0, 0, \hffff, \hffff, \hffff, \hffff>>)
  /\ Spans(8, 16, <<\h2001, \hdb8, 0, 0, 0, 0, 0, 0>>, 32, <<\h2001, \hdb8, 0, 0, 0, 0, 0, 0>>,
           <<\h2001, \hdb8, \hffff, \hffff, \hffff, \hffff, \hffff, \hffff>>)
  /\ Spans(8, 16, <<\hfc00, 0, 0, 0, 0, 0, 0, 0>>, 7, <<\hfc00, 0, 0, 0, 0, 0, 0, 0>>,
           <<\hfdff, \hffff, \hffff, \hffff, \hffff, \hffff, \hffff, \hffff>>)
  /\ Spans(8, 16, <<\hfe80, 0, 0, 0, 0, 0, 0, 0>>, 10, <<\hfe80, 0, 0, 0, 0, 0, 0, 0>>,
           <<\hfebf, \hffff, \hffff, \hffff, \hffff, \hffff, \hffff, \hffff>>)
  /\ Spans(8, 16, <<\hff00, 0, 0, 0, 0, 0, 0, 0>>, 8, <<\hff00, 0, 0, 0, 0, 0, 0, 0>>,
           <<\hffff, \hffff, \hffff, \hffff, \hffff, \hffff, \hffff, \hffff>>)
<1>1. Spans(8, 16, <<0, 0, 0, 0, 0, 0, 0, 1>>, 128, <<0, 0, 0, 0, 0, 0, 0, 1>>,
           <<0, 0, 0, 0, 0, 0, 0, 1>>)
  <2>. DEFINE net == <<0, 0, 0, 0, 0, 0, 0, 1>>
              last == <<0, 0, 0, 0, 0, 0, 0, 1>>
  <2>1. {net, last} \subseteq [1..8 -> Unit(16)]
    <3>1. {0, 1} \subseteq Unit(16)
      BY SmallUnits
    <3>2. net \in [1..8 -> Unit(16)] /\ last \in [1..8 -> Unit(16)]
      BY <3>1, EightUnits
    <3>. QED
      BY <3>2
  <2>2. /\ 8 \in 1..8 /\ 16 \in 1..16 /\ 1 \in Nat
        /\ 128 = (8 - 1) * 16 + 16 /\ 1 = 2 ^ (16 - 16)
    BY Powers
  <2>3. /\ \A j \in 1..(8 - 1) : last[j] = net[j]
        /\ \A j \in (8 + 1)..8 : net[j] = 0 /\ last[j] = 2 ^ 16 - 1
    BY Powers
  <2>4. \A x \in Nat : x \div 1 = net[8] \div 1 <=> net[8] <= x /\ x <= last[8]
    OBVIOUS
  <2>. HIDE DEF net, last
  <2>5. Spans(8, 16, net, 128, net, last)
    <3>1. \E i \in 1..8, b \in 1..16, h \in Nat :
            /\ 128 = (i - 1) * 16 + b /\ h = 2 ^ (16 - b)
            /\ \A j \in 1..(i - 1) : net[j] = net[j] /\ last[j] = net[j]
            /\ \A j \in (i + 1)..8 : net[j] = 0 /\ last[j] = 2 ^ 16 - 1
            /\ \A x \in Nat : x \div h = net[i] \div h <=> net[i] <= x /\ x <= last[i]
      <4>. WITNESS 8 \in 1..8, 16 \in 1..16, 1 \in Nat
      <4>. QED
        BY <2>2, <2>3, <2>4
    <3>. QED
      BY <2>1, <3>1, ZenonT(30) DEF Spans
  <2>. QED
    BY <2>5 DEF net, last
<1>2. Spans(8, 16, <<0, 0, 0, 0, 0, 0, 0, 0>>, 128, <<0, 0, 0, 0, 0, 0, 0, 0>>,
           <<0, 0, 0, 0, 0, 0, 0, 0>>)
  <2>. DEFINE net == <<0, 0, 0, 0, 0, 0, 0, 0>>
              last == <<0, 0, 0, 0, 0, 0, 0, 0>>
  <2>1. {net, last} \subseteq [1..8 -> Unit(16)]
    <3>1. {0} \subseteq Unit(16)
      BY SmallUnits
    <3>2. net \in [1..8 -> Unit(16)] /\ last \in [1..8 -> Unit(16)]
      BY <3>1, EightUnits
    <3>. QED
      BY <3>2
  <2>2. /\ 8 \in 1..8 /\ 16 \in 1..16 /\ 1 \in Nat
        /\ 128 = (8 - 1) * 16 + 16 /\ 1 = 2 ^ (16 - 16)
    BY Powers
  <2>3. /\ \A j \in 1..(8 - 1) : last[j] = net[j]
        /\ \A j \in (8 + 1)..8 : net[j] = 0 /\ last[j] = 2 ^ 16 - 1
    BY Powers
  <2>4. \A x \in Nat : x \div 1 = net[8] \div 1 <=> net[8] <= x /\ x <= last[8]
    OBVIOUS
  <2>. HIDE DEF net, last
  <2>5. Spans(8, 16, net, 128, net, last)
    <3>1. \E i \in 1..8, b \in 1..16, h \in Nat :
            /\ 128 = (i - 1) * 16 + b /\ h = 2 ^ (16 - b)
            /\ \A j \in 1..(i - 1) : net[j] = net[j] /\ last[j] = net[j]
            /\ \A j \in (i + 1)..8 : net[j] = 0 /\ last[j] = 2 ^ 16 - 1
            /\ \A x \in Nat : x \div h = net[i] \div h <=> net[i] <= x /\ x <= last[i]
      <4>. WITNESS 8 \in 1..8, 16 \in 1..16, 1 \in Nat
      <4>. QED
        BY <2>2, <2>3, <2>4
    <3>. QED
      BY <2>1, <3>1, ZenonT(30) DEF Spans
  <2>. QED
    BY <2>5 DEF net, last
<1>3. Spans(8, 16, <<0, 0, 0, 0, 0, \hffff, 0, 0>>, 96, <<0, 0, 0, 0, 0, \hffff, 0, 0>>,
           <<0, 0, 0, 0, 0, \hffff, \hffff, \hffff>>)
  <2>. DEFINE net == <<0, 0, 0, 0, 0, \hffff, 0, 0>>
              last == <<0, 0, 0, 0, 0, \hffff, \hffff, \hffff>>
  <2>1. {net, last} \subseteq [1..8 -> Unit(16)]
    <3>1. {0, \hffff} \subseteq Unit(16)
      BY SmallUnits
    <3>2. net \in [1..8 -> Unit(16)] /\ last \in [1..8 -> Unit(16)]
      BY <3>1, EightUnits
    <3>. QED
      BY <3>2
  <2>2. /\ 6 \in 1..8 /\ 16 \in 1..16 /\ 1 \in Nat
        /\ 96 = (6 - 1) * 16 + 16 /\ 1 = 2 ^ (16 - 16)
    BY Powers
  <2>3. /\ \A j \in 1..(6 - 1) : last[j] = net[j]
        /\ \A j \in (6 + 1)..8 : net[j] = 0 /\ last[j] = 2 ^ 16 - 1
    BY Powers
  <2>4. \A x \in Nat : x \div 1 = net[6] \div 1 <=> net[6] <= x /\ x <= last[6]
    OBVIOUS
  <2>. HIDE DEF net, last
  <2>5. Spans(8, 16, net, 96, net, last)
    <3>1. \E i \in 1..8, b \in 1..16, h \in Nat :
            /\ 96 = (i - 1) * 16 + b /\ h = 2 ^ (16 - b)
            /\ \A j \in 1..(i - 1) : net[j] = net[j] /\ last[j] = net[j]
            /\ \A j \in (i + 1)..8 : net[j] = 0 /\ last[j] = 2 ^ 16 - 1
            /\ \A x \in Nat : x \div h = net[i] \div h <=> net[i] <= x /\ x <= last[i]
      <4>. WITNESS 6 \in 1..8, 16 \in 1..16, 1 \in Nat
      <4>. QED
        BY <2>2, <2>3, <2>4
    <3>. QED
      BY <2>1, <3>1 DEF Spans
  <2>. QED
    BY <2>5 DEF net, last
<1>4. Spans(8, 16, <<\h64, \hff9b, 0, 0, 0, 0, 0, 0>>, 96, <<\h64, \hff9b, 0, 0, 0, 0, 0, 0>>,
           <<\h64, \hff9b, 0, 0, 0, 0, \hffff, \hffff>>)
  <2>. DEFINE net == <<\h64, \hff9b, 0, 0, 0, 0, 0, 0>>
              last == <<\h64, \hff9b, 0, 0, 0, 0, \hffff, \hffff>>
  <2>1. {net, last} \subseteq [1..8 -> Unit(16)]
    <3>1. {0, \h64, \hff9b, \hffff} \subseteq Unit(16)
      BY SmallUnits
    <3>2. net \in [1..8 -> Unit(16)] /\ last \in [1..8 -> Unit(16)]
      BY <3>1, EightUnits
    <3>. QED
      BY <3>2
  <2>2. /\ 6 \in 1..8 /\ 16 \in 1..16 /\ 1 \in Nat
        /\ 96 = (6 - 1) * 16 + 16 /\ 1 = 2 ^ (16 - 16)
    BY Powers
  <2>3. /\ \A j \in 1..(6 - 1) : last[j] = net[j]
        /\ \A j \in (6 + 1)..8 : net[j] = 0 /\ last[j] = 2 ^ 16 - 1
    BY Powers
  <2>4. \A x \in Nat : x \div 1 = net[6] \div 1 <=> net[6] <= x /\ x <= last[6]
    OBVIOUS
  <2>. HIDE DEF net, last
  <2>5. Spans(8, 16, net, 96, net, last)
    <3>1. \E i \in 1..8, b \in 1..16, h \in Nat :
            /\ 96 = (i - 1) * 16 + b /\ h = 2 ^ (16 - b)
            /\ \A j \in 1..(i - 1) : net[j] = net[j] /\ last[j] = net[j]
            /\ \A j \in (i + 1)..8 : net[j] = 0 /\ last[j] = 2 ^ 16 - 1
            /\ \A x \in Nat : x \div h = net[i] \div h <=> net[i] <= x /\ x <= last[i]
      <4>. WITNESS 6 \in 1..8, 16 \in 1..16, 1 \in Nat
      <4>. QED
        BY <2>2, <2>3, <2>4
    <3>. QED
      BY <2>1, <3>1 DEF Spans
  <2>. QED
    BY <2>5 DEF net, last
<1>5. Spans(8, 16, <<\h100, 0, 0, 0, 0, 0, 0, 0>>, 64, <<\h100, 0, 0, 0, 0, 0, 0, 0>>,
           <<\h100, 0, 0, 0, \hffff, \hffff, \hffff, \hffff>>)
  <2>. DEFINE net == <<\h100, 0, 0, 0, 0, 0, 0, 0>>
              last == <<\h100, 0, 0, 0, \hffff, \hffff, \hffff, \hffff>>
  <2>1. {net, last} \subseteq [1..8 -> Unit(16)]
    <3>1. {0, \h100, \hffff} \subseteq Unit(16)
      BY SmallUnits
    <3>2. net \in [1..8 -> Unit(16)] /\ last \in [1..8 -> Unit(16)]
      BY <3>1, EightUnits
    <3>. QED
      BY <3>2
  <2>2. /\ 4 \in 1..8 /\ 16 \in 1..16 /\ 1 \in Nat
        /\ 64 = (4 - 1) * 16 + 16 /\ 1 = 2 ^ (16 - 16)
    BY Powers
  <2>3. /\ \A j \in 1..(4 - 1) : last[j] = net[j]
        /\ \A j \in (4 + 1)..8 : net[j] = 0 /\ last[j] = 2 ^ 16 - 1
    BY Powers
  <2>4. \A x \in Nat : x \div 1 = net[4] \div 1 <=> net[4] <= x /\ x <= last[4]
    OBVIOUS
  <2>. HIDE DEF net, last
  <2>5. Spans(8, 16, net, 64, net, last)
    <3>1. \E i \in 1..8, b \in 1..16, h \in Nat :
            /\ 64 = (i - 1) * 16 + b /\ h = 2 ^ (16 - b)
            /\ \A j \in 1..(i - 1) : net[j] = net[j] /\ last[j] = net[j]
            /\ \A j \in (i + 1)..8 : net[j] = 0 /\ last[j] = 2 ^ 16 - 1
            /\ \A x \in Nat : x \div h = net[i] \div h <=> net[i] <= x /\ x <= last[i]
      <4>. WITNESS 4 \in 1..8, 16 \in 1..16, 1 \in Nat
      <4>. QED
        BY <2>2, <2>3, <2>4
    <3>. QED
      BY <2>1, <3>1 DEF Spans
  <2>. QED
    BY <2>5 DEF net, last
<1>6. Spans(8, 16, <<\h2001, \hdb8, 0, 0, 0, 0, 0, 0>>, 32, <<\h2001, \hdb8, 0, 0, 0, 0, 0, 0>>,
           <<\h2001, \hdb8, \hffff, \hffff, \hffff, \hffff, \hffff, \hffff>>)
  <2>. DEFINE net == <<\h2001, \hdb8, 0, 0, 0, 0, 0, 0>>
              last == <<\h2001, \hdb8, \hffff, \hffff, \hffff, \hffff, \hffff, \hffff>>
  <2>1. {net, last} \subseteq [1..8 -> Unit(16)]
    <3>1. {0, \hdb8, \h2001, \hffff} \subseteq Unit(16)
      BY SmallUnits
    <3>2. net \in [1..8 -> Unit(16)] /\ last \in [1..8 -> Unit(16)]
      BY <3>1, EightUnits
    <3>. QED
      BY <3>2
  <2>2. /\ 2 \in 1..8 /\ 16 \in 1..16 /\ 1 \in Nat
        /\ 32 = (2 - 1) * 16 + 16 /\ 1 = 2 ^ (16 - 16)
    BY Powers
  <2>3. /\ \A j \in 1..(2 - 1) : last[j] = net[j]
        /\ \A j \in (2 + 1)..8 : net[j] = 0 /\ last[j] = 2 ^ 16 - 1
    BY Powers
  <2>4. \A x \in Nat : x \div 1 = net[2] \div 1 <=> net[2] <= x /\ x <= last[2]
    OBVIOUS
  <2>. HIDE DEF net, last
  <2>5. Spans(8, 16, net, 32, net, last)
    <3>1. \E i \in 1..8, b \in 1..16, h \in Nat :
            /\ 32 = (i - 1) * 16 + b /\ h = 2 ^ (16 - b)
            /\ \A j \in 1..(i - 1) : net[j] = net[j] /\ last[j] = net[j]
            /\ \A j \in (i + 1)..8 : net[j] = 0 /\ last[j] = 2 ^ 16 - 1
            /\ \A x \in Nat : x \div h = net[i] \div h <=> net[i] <= x /\ x <= last[i]
      <4>. WITNESS 2 \in 1..8, 16 \in 1..16, 1 \in Nat
      <4>. QED
        BY <2>2, <2>3, <2>4
    <3>. QED
      BY <2>1, <3>1 DEF Spans
  <2>. QED
    BY <2>5 DEF net, last
<1>7. Spans(8, 16, <<\hfc00, 0, 0, 0, 0, 0, 0, 0>>, 7, <<\hfc00, 0, 0, 0, 0, 0, 0, 0>>,
           <<\hfdff, \hffff, \hffff, \hffff, \hffff, \hffff, \hffff, \hffff>>)
  <2>. DEFINE net == <<\hfc00, 0, 0, 0, 0, 0, 0, 0>>
              last == <<\hfdff, \hffff, \hffff, \hffff, \hffff, \hffff, \hffff, \hffff>>
  <2>1. {net, last} \subseteq [1..8 -> Unit(16)]
    <3>1. {0, \hfc00, \hfdff, \hffff} \subseteq Unit(16)
      BY SmallUnits
    <3>2. net \in [1..8 -> Unit(16)] /\ last \in [1..8 -> Unit(16)]
      BY <3>1, EightUnits
    <3>. QED
      BY <3>2
  <2>2. /\ 1 \in 1..8 /\ 7 \in 1..16 /\ 512 \in Nat
        /\ 7 = (1 - 1) * 16 + 7 /\ 512 = 2 ^ (16 - 7)
    BY Powers
  <2>3. /\ \A j \in 1..(1 - 1) : last[j] = net[j]
        /\ \A j \in (1 + 1)..8 : net[j] = 0 /\ last[j] = 2 ^ 16 - 1
    BY Powers
  <2>4. \A x \in Nat : x \div 512 = net[1] \div 512 <=> net[1] <= x /\ x <= last[1]
    OBVIOUS
  <2>. HIDE DEF net, last
  <2>5. Spans(8, 16, net, 7, net, last)
    <3>1. \E i \in 1..8, b \in 1..16, h \in Nat :
            /\ 7 = (i - 1) * 16 + b /\ h = 2 ^ (16 - b)
            /\ \A j \in 1..(i - 1) : net[j] = net[j] /\ last[j] = net[j]
            /\ \A j \in (i + 1)..8 : net[j] = 0 /\ last[j] = 2 ^ 16 - 1
            /\ \A x \in Nat : x \div h = net[i] \div h <=> net[i] <= x /\ x <= last[i]
      <4>. WITNESS 1 \in 1..8, 7 \in 1..16, 512 \in Nat
      <4>. QED
        BY <2>2, <2>3, <2>4
    <3>. QED
      BY <2>1, <3>1 DEF Spans
  <2>. QED
    BY <2>5 DEF net, last
<1>8. Spans(8, 16, <<\hfe80, 0, 0, 0, 0, 0, 0, 0>>, 10, <<\hfe80, 0, 0, 0, 0, 0, 0, 0>>,
           <<\hfebf, \hffff, \hffff, \hffff, \hffff, \hffff, \hffff, \hffff>>)
  <2>. DEFINE net == <<\hfe80, 0, 0, 0, 0, 0, 0, 0>>
              last == <<\hfebf, \hffff, \hffff, \hffff, \hffff, \hffff, \hffff, \hffff>>
  <2>1. {net, last} \subseteq [1..8 -> Unit(16)]
    <3>1. {0, \hfe80, \hfebf, \hffff} \subseteq Unit(16)
      BY SmallUnits
    <3>2. net \in [1..8 -> Unit(16)] /\ last \in [1..8 -> Unit(16)]
      BY <3>1, EightUnits
    <3>. QED
      BY <3>2
  <2>2. /\ 1 \in 1..8 /\ 10 \in 1..16 /\ 64 \in Nat
        /\ 10 = (1 - 1) * 16 + 10 /\ 64 = 2 ^ (16 - 10)
    BY Powers
  <2>3. /\ \A j \in 1..(1 - 1) : last[j] = net[j]
        /\ \A j \in (1 + 1)..8 : net[j] = 0 /\ last[j] = 2 ^ 16 - 1
    BY Powers
  <2>4. \A x \in Nat : x \div 64 = net[1] \div 64 <=> net[1] <= x /\ x <= last[1]
    OBVIOUS
  <2>. HIDE DEF net, last
  <2>5. Spans(8, 16, net, 10, net, last)
    <3>1. \E i \in 1..8, b \in 1..16, h \in Nat :
            /\ 10 = (i - 1) * 16 + b /\ h = 2 ^ (16 - b)
            /\ \A j \in 1..(i - 1) : net[j] = net[j] /\ last[j] = net[j]
            /\ \A j \in (i + 1)..8 : net[j] = 0 /\ last[j] = 2 ^ 16 - 1
            /\ \A x \in Nat : x \div h = net[i] \div h <=> net[i] <= x /\ x <= last[i]
      <4>. WITNESS 1 \in 1..8, 10 \in 1..16, 64 \in Nat
      <4>. QED
        BY <2>2, <2>3, <2>4
    <3>. QED
      BY <2>1, <3>1 DEF Spans
  <2>. QED
    BY <2>5 DEF net, last
<1>9. Spans(8, 16, <<\hff00, 0, 0, 0, 0, 0, 0, 0>>, 8, <<\hff00, 0, 0, 0, 0, 0, 0, 0>>,
           <<\hffff, \hffff, \hffff, \hffff, \hffff, \hffff, \hffff, \hffff>>)
  <2>. DEFINE net == <<\hff00, 0, 0, 0, 0, 0, 0, 0>>
              last == <<\hffff, \hffff, \hffff, \hffff, \hffff, \hffff, \hffff, \hffff>>
  <2>1. {net, last} \subseteq [1..8 -> Unit(16)]
    <3>1. {0, \hff00, \hffff} \subseteq Unit(16)
      BY SmallUnits
    <3>2. net \in [1..8 -> Unit(16)] /\ last \in [1..8 -> Unit(16)]
      BY <3>1, EightUnits
    <3>. QED
      BY <3>2
  <2>2. /\ 1 \in 1..8 /\ 8 \in 1..16 /\ 256 \in Nat
        /\ 8 = (1 - 1) * 16 + 8 /\ 256 = 2 ^ (16 - 8)
    BY Powers
  <2>3. /\ \A j \in 1..(1 - 1) : last[j] = net[j]
        /\ \A j \in (1 + 1)..8 : net[j] = 0 /\ last[j] = 2 ^ 16 - 1
    BY Powers
  <2>4. \A x \in Nat : x \div 256 = net[1] \div 256 <=> net[1] <= x /\ x <= last[1]
    OBVIOUS
  <2>. HIDE DEF net, last
  <2>5. Spans(8, 16, net, 8, net, last)
    <3>1. \E i \in 1..8, b \in 1..16, h \in Nat :
            /\ 8 = (i - 1) * 16 + b /\ h = 2 ^ (16 - b)
            /\ \A j \in 1..(i - 1) : net[j] = net[j] /\ last[j] = net[j]
            /\ \A j \in (i + 1)..8 : net[j] = 0 /\ last[j] = 2 ^ 16 - 1
            /\ \A x \in Nat : x \div h = net[i] \div h <=> net[i] <= x /\ x <= last[i]
      <4>. WITNESS 1 \in 1..8, 8 \in 1..16, 256 \in Nat
      <4>. QED
        BY <2>2, <2>3, <2>4
    <3>. QED
      BY <2>1, <3>1 DEF Spans
  <2>. QED
    BY <2>5 DEF net, last
<1>. QED
  BY <1>1, <1>2, <1>3, <1>4, <1>5, <1>6, <1>7, <1>8, <1>9
----------------------------------------------------------------------------
(* The ends of the IPv6 ranges, which V6Range fills up to eight groups. *)

\* A sequence of groups filled up to an address of eight.
Padded(s, x) == s \o [i \in 1..(8 - Len(s)) |-> x]

LEMMA Eight ==
  ASSUME NEW S, NEW r \in Seq(S), Len(r) = 8
  PROVE  r = <<r[1], r[2], r[3], r[4], r[5], r[6], r[7], r[8]>>
OBVIOUS

LEMMA PaddedIsEight ==
  ASSUME NEW S, NEW s \in Seq(S), Len(s) <= 8, NEW x \in S
  PROVE  /\ Padded(s, x) \in Seq(S) /\ Len(Padded(s, x)) = 8
         /\ \A i \in 1..8 : Padded(s, x)[i] = IF i <= Len(s) THEN s[i] ELSE x
<1>. DEFINE p == [i \in 1..(8 - Len(s)) |-> x]
<1>1. p \in Seq(S) /\ Len(p) = 8 - Len(s) /\ \A i \in 1..(8 - Len(s)) : p[i] = x
  OBVIOUS
<1>. HIDE DEF p
<1>2. s \o p \in Seq(S) /\ Len(s \o p) = 8
  BY <1>1
<1>3. \A i \in 1..8 : (s \o p)[i] = IF i <= Len(s) THEN s[i] ELSE x
  BY <1>1
<1>. QED
  BY <1>2, <1>3 DEF p, Padded

LEMMA PaddedFrom ==
  ASSUME NEW S, NEW s \in Seq(S), NEW k \in 0..8, NEW x \in S
  PROVE  Len(s) = k =>
           /\ Padded(s, x) \in Seq(S) /\ Len(Padded(s, x)) = 8
           /\ \A i \in 1..8 : Padded(s, x)[i] = IF i <= k THEN s[i] ELSE x
<1>1. Len(s) <= 8 =>
        /\ Padded(s, x) \in Seq(S) /\ Len(Padded(s, x)) = 8
        /\ \A i \in 1..8 : Padded(s, x)[i] = IF i <= Len(s) THEN s[i] ELSE x
  BY PaddedIsEight
<1>2. Len(s) = k => Len(s) <= 8
  OBVIOUS
<1>. QED
  BY <1>1, <1>2, Zenon

LEMMA Pad0 ==
  ASSUME NEW S, NEW s \in Seq(S), Len(s) = 0, NEW x
  PROVE  Padded(s, x) = <<x, x, x, x, x, x, x, x>>
<1>1. s = <<>> /\ Len(<<>>) = 0
  OBVIOUS
<1>2. Padded(<<>>, x) = [i \in 1..8 |-> x]
  <2>1. [i \in 1..8 |-> x] \in Seq({x})
    OBVIOUS
  <2>2. <<>> \o [i \in 1..8 |-> x] = [i \in 1..8 |-> x]
    BY <2>1
  <2>. QED
    BY <2>2, <1>1 DEF Padded
<1>3. [i \in 1..8 |-> x] = <<x, x, x, x, x, x, x, x>>
  OBVIOUS
<1>. QED
  BY <1>1, <1>2, <1>3

LEMMA Pad1 ==
  ASSUME NEW S, NEW s \in Seq(S), Len(s) = 1, NEW x \in S
  PROVE  Padded(s, x) = <<s[1], x, x, x, x, x, x, x>>
<1>. DEFINE t(i) == Padded(s, x)[i]
<1>1. /\ Padded(s, x) \in Seq(S) /\ Len(Padded(s, x)) = 8
      /\ \A i \in 1..8 : Padded(s, x)[i] = IF i <= 1 THEN s[i] ELSE x
  BY PaddedFrom, 1 \in 0..8
<1>2. /\ t(1) = s[1] /\ t(2) = x /\ t(3) = x /\ t(4) = x
      /\ t(5) = x /\ t(6) = x /\ t(7) = x /\ t(8) = x
  BY <1>1
<1>3. Padded(s, x) = <<t(1), t(2), t(3), t(4), t(5), t(6), t(7), t(8)>>
  BY <1>1, Eight
<1>. QED
  BY <1>2, <1>3

LEMMA Pad2 ==
  ASSUME NEW S, NEW s \in Seq(S), Len(s) = 2, NEW x \in S
  PROVE  Padded(s, x) = <<s[1], s[2], x, x, x, x, x, x>>
<1>. DEFINE t(i) == Padded(s, x)[i]
<1>1. /\ Padded(s, x) \in Seq(S) /\ Len(Padded(s, x)) = 8
      /\ \A i \in 1..8 : Padded(s, x)[i] = IF i <= 2 THEN s[i] ELSE x
  BY PaddedFrom, 2 \in 0..8
<1>2. /\ t(1) = s[1] /\ t(2) = s[2] /\ t(3) = x /\ t(4) = x
      /\ t(5) = x /\ t(6) = x /\ t(7) = x /\ t(8) = x
  BY <1>1
<1>3. Padded(s, x) = <<t(1), t(2), t(3), t(4), t(5), t(6), t(7), t(8)>>
  BY <1>1, Eight
<1>. QED
  BY <1>2, <1>3

LEMMA Pad4 ==
  ASSUME NEW S, NEW s \in Seq(S), Len(s) = 4, NEW x \in S
  PROVE  Padded(s, x) = <<s[1], s[2], s[3], s[4], x, x, x, x>>
<1>. DEFINE t(i) == Padded(s, x)[i]
<1>1. /\ Padded(s, x) \in Seq(S) /\ Len(Padded(s, x)) = 8
      /\ \A i \in 1..8 : Padded(s, x)[i] = IF i <= 4 THEN s[i] ELSE x
  BY PaddedFrom, 4 \in 0..8
<1>2. /\ t(1) = s[1] /\ t(2) = s[2] /\ t(3) = s[3] /\ t(4) = s[4]
      /\ t(5) = x /\ t(6) = x /\ t(7) = x /\ t(8) = x
  BY <1>1
<1>3. Padded(s, x) = <<t(1), t(2), t(3), t(4), t(5), t(6), t(7), t(8)>>
  BY <1>1, Eight
<1>. QED
  BY <1>2, <1>3

LEMMA Pad6 ==
  ASSUME NEW S, NEW s \in Seq(S), Len(s) = 6, NEW x \in S
  PROVE  Padded(s, x) = <<s[1], s[2], s[3], s[4], s[5], s[6], x, x>>
<1>. DEFINE t(i) == Padded(s, x)[i]
<1>1. /\ Padded(s, x) \in Seq(S) /\ Len(Padded(s, x)) = 8
      /\ \A i \in 1..8 : Padded(s, x)[i] = IF i <= 6 THEN s[i] ELSE x
  BY PaddedFrom, 6 \in 0..8
<1>2. /\ t(1) = s[1] /\ t(2) = s[2] /\ t(3) = s[3] /\ t(4) = s[4]
      /\ t(5) = s[5] /\ t(6) = s[6] /\ t(7) = x /\ t(8) = x
  BY <1>1
<1>3. Padded(s, x) = <<t(1), t(2), t(3), t(4), t(5), t(6), t(7), t(8)>>
  BY <1>1, Eight
<1>. QED
  BY <1>2, <1>3

LEMMA Pad8 ==
  ASSUME NEW S, NEW s \in Seq(S), Len(s) = 8, NEW x \in S
  PROVE  Padded(s, x) = <<s[1], s[2], s[3], s[4], s[5], s[6], s[7], s[8]>>
<1>. DEFINE t(i) == Padded(s, x)[i]
<1>1. /\ Padded(s, x) \in Seq(S) /\ Len(Padded(s, x)) = 8
      /\ \A i \in 1..8 : Padded(s, x)[i] = IF i <= 8 THEN s[i] ELSE x
  BY PaddedFrom, 8 \in 0..8
<1>2. /\ t(1) = s[1] /\ t(2) = s[2] /\ t(3) = s[3] /\ t(4) = s[4]
      /\ t(5) = s[5] /\ t(6) = s[6] /\ t(7) = s[7] /\ t(8) = s[8]
  BY <1>1
<1>3. Padded(s, x) = <<t(1), t(2), t(3), t(4), t(5), t(6), t(7), t(8)>>
  BY <1>1, Eight
<1>. QED
  BY <1>2, <1>3

LEMMA V6Ends ==
  /\ V6Range(<<>>, <<0, 0, 0, 0, 0, 0, 0, 1>>) =
         <<<<0, 0, 0, 0, 0, 0, 0, 0>>,
           <<0, 0, 0, 0, 0, 0, 0, 1>>>>
  /\ V6Range(<<0, 0, 0, 0, 0, \hffff>>, <<0, 0, 0, 0, 0, \hffff>>) =
         <<<<0, 0, 0, 0, 0, \hffff, 0, 0>>,
           <<0, 0, 0, 0, 0, \hffff, \hffff, \hffff>>>>
  /\ V6Range(<<\h64, \hff9b>>, <<\h64, \hff9b, 0, 0, 0, 0>>) =
         <<<<\h64, \hff9b, 0, 0, 0, 0, 0, 0>>,
           <<\h64, \hff9b, 0, 0, 0, 0, \hffff, \hffff>>>>
  /\ V6Range(<<\h100>>, <<\h100, 0, 0, 0>>) =
         <<<<\h100, 0, 0, 0, 0, 0, 0, 0>>,
           <<\h100, 0, 0, 0, \hffff, \hffff, \hffff, \hffff>>>>
  /\ V6Range(<<\h2001, \hdb8>>, <<\h2001, \hdb8>>) =
         <<<<\h2001, \hdb8, 0, 0, 0, 0, 0, 0>>,
           <<\h2001, \hdb8, \hffff, \hffff, \hffff, \hffff, \hffff, \hffff>>>>
  /\ V6Range(<<\hfc00>>, <<\hfdff>>) =
         <<<<\hfc00, 0, 0, 0, 0, 0, 0, 0>>,
           <<\hfdff, \hffff, \hffff, \hffff, \hffff, \hffff, \hffff, \hffff>>>>
  /\ V6Range(<<\hfe80>>, <<\hfebf>>) =
         <<<<\hfe80, 0, 0, 0, 0, 0, 0, 0>>,
           <<\hfebf, \hffff, \hffff, \hffff, \hffff, \hffff, \hffff, \hffff>>>>
  /\ V6Range(<<\hff00>>, <<\hffff>>) =
         <<<<\hff00, 0, 0, 0, 0, 0, 0, 0>>,
           <<\hffff, \hffff, \hffff, \hffff, \hffff, \hffff, \hffff, \hffff>>>>
<1>1. V6Range(<<>>, <<0, 0, 0, 0, 0, 0, 0, 1>>) =
         <<<<0, 0, 0, 0, 0, 0, 0, 0>>,
           <<0, 0, 0, 0, 0, 0, 0, 1>>>>
  <2>1. SUFFICES ASSUME NEW s, s = <<>>,
                        NEW t, t = <<0, 0, 0, 0, 0, 0, 0, 1>>
                 PROVE  V6Range(s, t) =
                          <<<<0, 0, 0, 0, 0, 0, 0, 0>>,
                            <<0, 0, 0, 0, 0, 0, 0, 1>>>>
    OBVIOUS
  <2>2. s \in Seq(Nat) /\ Len(s) = 0 /\ t \in Seq(Nat) /\ Len(t) = 8
    BY <2>1
  <2>3. Padded(s, 0) = <<0, 0, 0, 0, 0, 0, 0, 0>>
    BY <2>2, Pad0
  <2>4. Padded(t, \hffff) = <<t[1], t[2], t[3], t[4], t[5], t[6], t[7], t[8]>>
    BY <2>2, Pad8, SMTT(20)
  <2>5. /\ <<0, 0, 0, 0, 0, 0, 0, 0>> = <<0, 0, 0, 0, 0, 0, 0, 0>>
        /\ <<t[1], t[2], t[3], t[4], t[5], t[6], t[7], t[8]>> = <<0, 0, 0, 0, 0, 0, 0, 1>>
    BY <2>1
  <2>6. V6Range(s, t) = <<Padded(s, 0), Padded(t, \hffff)>>
    BY DEF V6Range, Padded
  <2>. QED
    BY <2>3, <2>4, <2>5, <2>6
<1>2. V6Range(<<0, 0, 0, 0, 0, \hffff>>, <<0, 0, 0, 0, 0, \hffff>>) =
         <<<<0, 0, 0, 0, 0, \hffff, 0, 0>>,
           <<0, 0, 0, 0, 0, \hffff, \hffff, \hffff>>>>
  <2>1. SUFFICES ASSUME NEW s, s = <<0, 0, 0, 0, 0, \hffff>>,
                        NEW t, t = <<0, 0, 0, 0, 0, \hffff>>
                 PROVE  V6Range(s, t) =
                          <<<<0, 0, 0, 0, 0, \hffff, 0, 0>>,
                            <<0, 0, 0, 0, 0, \hffff, \hffff, \hffff>>>>
    OBVIOUS
  <2>2. s \in Seq(Nat) /\ Len(s) = 6 /\ t \in Seq(Nat) /\ Len(t) = 6
    BY <2>1
  <2>3. Padded(s, 0) = <<s[1], s[2], s[3], s[4], s[5], s[6], 0, 0>>
    BY <2>2, Pad6
  <2>4. Padded(t, \hffff) = <<t[1], t[2], t[3], t[4], t[5], t[6], \hffff, \hffff>>
    BY <2>2, Pad6, SMTT(60)
  <2>5. /\ <<s[1], s[2], s[3], s[4], s[5], s[6], 0, 0>> = <<0, 0, 0, 0, 0, \hffff, 0, 0>>
        /\ <<t[1], t[2], t[3], t[4], t[5], t[6], \hffff, \hffff>> =
             <<0, 0, 0, 0, 0, \hffff, \hffff, \hffff>>
    BY <2>1
  <2>6. V6Range(s, t) = <<Padded(s, 0), Padded(t, \hffff)>>
    BY DEF V6Range, Padded
  <2>. QED
    BY <2>3, <2>4, <2>5, <2>6
<1>3. V6Range(<<\h64, \hff9b>>, <<\h64, \hff9b, 0, 0, 0, 0>>) =
         <<<<\h64, \hff9b, 0, 0, 0, 0, 0, 0>>,
           <<\h64, \hff9b, 0, 0, 0, 0, \hffff, \hffff>>>>
  <2>1. SUFFICES ASSUME NEW s, s = <<\h64, \hff9b>>,
                        NEW t, t = <<\h64, \hff9b, 0, 0, 0, 0>>
                 PROVE  V6Range(s, t) =
                          <<<<\h64, \hff9b, 0, 0, 0, 0, 0, 0>>,
                            <<\h64, \hff9b, 0, 0, 0, 0, \hffff, \hffff>>>>
    OBVIOUS
  <2>2. s \in Seq(Nat) /\ Len(s) = 2 /\ t \in Seq(Nat) /\ Len(t) = 6
    BY <2>1
  <2>3. Padded(s, 0) = <<s[1], s[2], 0, 0, 0, 0, 0, 0>>
    BY <2>2, Pad2
  <2>4. Padded(t, \hffff) = <<t[1], t[2], t[3], t[4], t[5], t[6], \hffff, \hffff>>
    BY <2>2, Pad6, SMTT(20)
  <2>5. /\ <<s[1], s[2], 0, 0, 0, 0, 0, 0>> = <<\h64, \hff9b, 0, 0, 0, 0, 0, 0>>
        /\ <<t[1], t[2], t[3], t[4], t[5], t[6], \hffff, \hffff>> =
             <<\h64, \hff9b, 0, 0, 0, 0, \hffff, \hffff>>
    BY <2>1
  <2>6. V6Range(s, t) = <<Padded(s, 0), Padded(t, \hffff)>>
    BY DEF V6Range, Padded
  <2>. QED
    BY <2>3, <2>4, <2>5, <2>6
<1>4. V6Range(<<\h100>>, <<\h100, 0, 0, 0>>) =
         <<<<\h100, 0, 0, 0, 0, 0, 0, 0>>,
           <<\h100, 0, 0, 0, \hffff, \hffff, \hffff, \hffff>>>>
  <2>1. SUFFICES ASSUME NEW s, s = <<\h100>>,
                        NEW t, t = <<\h100, 0, 0, 0>>
                 PROVE  V6Range(s, t) =
                          <<<<\h100, 0, 0, 0, 0, 0, 0, 0>>,
                            <<\h100, 0, 0, 0, \hffff, \hffff, \hffff, \hffff>>>>
    OBVIOUS
  <2>2. s \in Seq(Nat) /\ Len(s) = 1 /\ t \in Seq(Nat) /\ Len(t) = 4
    BY <2>1
  <2>3. Padded(s, 0) = <<s[1], 0, 0, 0, 0, 0, 0, 0>>
    BY <2>2, Pad1
  <2>4. Padded(t, \hffff) = <<t[1], t[2], t[3], t[4], \hffff, \hffff, \hffff, \hffff>>
    BY <2>2, Pad4
  <2>5. /\ <<s[1], 0, 0, 0, 0, 0, 0, 0>> = <<\h100, 0, 0, 0, 0, 0, 0, 0>>
        /\ <<t[1], t[2], t[3], t[4], \hffff, \hffff, \hffff, \hffff>> =
             <<\h100, 0, 0, 0, \hffff, \hffff, \hffff, \hffff>>
    BY <2>1
  <2>6. V6Range(s, t) = <<Padded(s, 0), Padded(t, \hffff)>>
    BY DEF V6Range, Padded
  <2>. QED
    BY <2>3, <2>4, <2>5, <2>6
<1>5. V6Range(<<\h2001, \hdb8>>, <<\h2001, \hdb8>>) =
         <<<<\h2001, \hdb8, 0, 0, 0, 0, 0, 0>>,
           <<\h2001, \hdb8, \hffff, \hffff, \hffff, \hffff, \hffff, \hffff>>>>
  <2>1. SUFFICES ASSUME NEW s, s = <<\h2001, \hdb8>>,
                        NEW t, t = <<\h2001, \hdb8>>
                 PROVE  V6Range(s, t) =
                          <<<<\h2001, \hdb8, 0, 0, 0, 0, 0, 0>>,
                            <<\h2001, \hdb8, \hffff, \hffff, \hffff, \hffff, \hffff, \hffff>>>>
    OBVIOUS
  <2>2. s \in Seq(Nat) /\ Len(s) = 2 /\ t \in Seq(Nat) /\ Len(t) = 2
    BY <2>1
  <2>3. Padded(s, 0) = <<s[1], s[2], 0, 0, 0, 0, 0, 0>>
    BY <2>2, Pad2
  <2>4. Padded(t, \hffff) = <<t[1], t[2], \hffff, \hffff, \hffff, \hffff, \hffff, \hffff>>
    BY <2>2, Pad2
  <2>5. /\ <<s[1], s[2], 0, 0, 0, 0, 0, 0>> = <<\h2001, \hdb8, 0, 0, 0, 0, 0, 0>>
        /\ <<t[1], t[2], \hffff, \hffff, \hffff, \hffff, \hffff, \hffff>> =
             <<\h2001, \hdb8, \hffff, \hffff, \hffff, \hffff, \hffff, \hffff>>
    BY <2>1
  <2>6. V6Range(s, t) = <<Padded(s, 0), Padded(t, \hffff)>>
    BY DEF V6Range, Padded
  <2>. QED
    BY <2>3, <2>4, <2>5, <2>6
<1>6. V6Range(<<\hfc00>>, <<\hfdff>>) =
         <<<<\hfc00, 0, 0, 0, 0, 0, 0, 0>>,
           <<\hfdff, \hffff, \hffff, \hffff, \hffff, \hffff, \hffff, \hffff>>>>
  <2>1. SUFFICES ASSUME NEW s, s = <<\hfc00>>,
                        NEW t, t = <<\hfdff>>
                 PROVE  V6Range(s, t) =
                          <<<<\hfc00, 0, 0, 0, 0, 0, 0, 0>>,
                            <<\hfdff, \hffff, \hffff, \hffff, \hffff, \hffff, \hffff, \hffff>>>>
    OBVIOUS
  <2>2. s \in Seq(Nat) /\ Len(s) = 1 /\ t \in Seq(Nat) /\ Len(t) = 1
    BY <2>1
  <2>3. Padded(s, 0) = <<s[1], 0, 0, 0, 0, 0, 0, 0>>
    BY <2>2, Pad1
  <2>4. Padded(t, \hffff) = <<t[1], \hffff, \hffff, \hffff, \hffff, \hffff, \hffff, \hffff>>
    BY <2>2, Pad1
  <2>5. /\ <<s[1], 0, 0, 0, 0, 0, 0, 0>> = <<\hfc00, 0, 0, 0, 0, 0, 0, 0>>
        /\ <<t[1], \hffff, \hffff, \hffff, \hffff, \hffff, \hffff, \hffff>> =
             <<\hfdff, \hffff, \hffff, \hffff, \hffff, \hffff, \hffff, \hffff>>
    BY <2>1
  <2>6. V6Range(s, t) = <<Padded(s, 0), Padded(t, \hffff)>>
    BY DEF V6Range, Padded
  <2>. QED
    BY <2>3, <2>4, <2>5, <2>6
<1>7. V6Range(<<\hfe80>>, <<\hfebf>>) =
         <<<<\hfe80, 0, 0, 0, 0, 0, 0, 0>>,
           <<\hfebf, \hffff, \hffff, \hffff, \hffff, \hffff, \hffff, \hffff>>>>
  <2>1. SUFFICES ASSUME NEW s, s = <<\hfe80>>,
                        NEW t, t = <<\hfebf>>
                 PROVE  V6Range(s, t) =
                          <<<<\hfe80, 0, 0, 0, 0, 0, 0, 0>>,
                            <<\hfebf, \hffff, \hffff, \hffff, \hffff, \hffff, \hffff, \hffff>>>>
    OBVIOUS
  <2>2. s \in Seq(Nat) /\ Len(s) = 1 /\ t \in Seq(Nat) /\ Len(t) = 1
    BY <2>1
  <2>3. Padded(s, 0) = <<s[1], 0, 0, 0, 0, 0, 0, 0>>
    BY <2>2, Pad1
  <2>4. Padded(t, \hffff) = <<t[1], \hffff, \hffff, \hffff, \hffff, \hffff, \hffff, \hffff>>
    BY <2>2, Pad1
  <2>5. /\ <<s[1], 0, 0, 0, 0, 0, 0, 0>> = <<\hfe80, 0, 0, 0, 0, 0, 0, 0>>
        /\ <<t[1], \hffff, \hffff, \hffff, \hffff, \hffff, \hffff, \hffff>> =
             <<\hfebf, \hffff, \hffff, \hffff, \hffff, \hffff, \hffff, \hffff>>
    BY <2>1
  <2>6. V6Range(s, t) = <<Padded(s, 0), Padded(t, \hffff)>>
    BY DEF V6Range, Padded
  <2>. QED
    BY <2>3, <2>4, <2>5, <2>6
<1>8. V6Range(<<\hff00>>, <<\hffff>>) =
         <<<<\hff00, 0, 0, 0, 0, 0, 0, 0>>,
           <<\hffff, \hffff, \hffff, \hffff, \hffff, \hffff, \hffff, \hffff>>>>
  <2>1. SUFFICES ASSUME NEW s, s = <<\hff00>>,
                        NEW t, t = <<\hffff>>
                 PROVE  V6Range(s, t) =
                          <<<<\hff00, 0, 0, 0, 0, 0, 0, 0>>,
                            <<\hffff, \hffff, \hffff, \hffff, \hffff, \hffff, \hffff, \hffff>>>>
    OBVIOUS
  <2>2. s \in Seq(Nat) /\ Len(s) = 1 /\ t \in Seq(Nat) /\ Len(t) = 1
    BY <2>1
  <2>3. Padded(s, 0) = <<s[1], 0, 0, 0, 0, 0, 0, 0>>
    BY <2>2, Pad1
  <2>4. Padded(t, \hffff) = <<t[1], \hffff, \hffff, \hffff, \hffff, \hffff, \hffff, \hffff>>
    BY <2>2, Pad1
  <2>5. /\ <<s[1], 0, 0, 0, 0, 0, 0, 0>> = <<\hff00, 0, 0, 0, 0, 0, 0, 0>>
        /\ <<t[1], \hffff, \hffff, \hffff, \hffff, \hffff, \hffff, \hffff>> =
             <<\hffff, \hffff, \hffff, \hffff, \hffff, \hffff, \hffff, \hffff>>
    BY <2>1
  <2>6. V6Range(s, t) = <<Padded(s, 0), Padded(t, \hffff)>>
    BY DEF V6Range, Padded
  <2>. QED
    BY <2>3, <2>4, <2>5, <2>6
<1>. QED
  BY <1>1, <1>2, <1>3, <1>4, <1>5, <1>6, <1>7, <1>8
\* The ranges of the blocks of IPv4, in the order of the table.
Low4 == {
  <<<<0, 0, 0, 0>>, <<0, 255, 255, 255>>>>,
  <<<<10, 0, 0, 0>>, <<10, 255, 255, 255>>>>,
  <<<<100, 64, 0, 0>>, <<100, 127, 255, 255>>>>,
  <<<<127, 0, 0, 0>>, <<127, 255, 255, 255>>>>,
  <<<<169, 254, 0, 0>>, <<169, 254, 255, 255>>>>,
  <<<<172, 16, 0, 0>>, <<172, 31, 255, 255>>>>,
  <<<<192, 0, 0, 0>>, <<192, 0, 0, 255>>>>,
  <<<<192, 0, 2, 0>>, <<192, 0, 2, 255>>>>,
  <<<<192, 168, 0, 0>>, <<192, 168, 255, 255>>>>,
  <<<<198, 18, 0, 0>>, <<198, 19, 255, 255>>>>,
  <<<<198, 51, 100, 0>>, <<198, 51, 100, 255>>>>,
  <<<<203, 0, 113, 0>>, <<203, 0, 113, 255>>>>}
Ranges4 == Low4 \cup {<<<<224, 0, 0, 0>>, <<239, 255, 255, 255>>>>,
                     <<<<240, 0, 0, 0>>, <<255, 255, 255, 255>>>>}

\* The ranges of the blocks of IPv6, in the order of the table.
Low6 == {
  V6Range(<<0, 0, 0, 0, 0, \hffff>>, <<0, 0, 0, 0, 0, \hffff>>),
  V6Range(<<\h64, \hff9b>>, <<\h64, \hff9b, 0, 0, 0, 0>>),
  V6Range(<<\h100>>, <<\h100, 0, 0, 0>>),
  V6Range(<<\h2001, \hdb8>>, <<\h2001, \hdb8>>), V6Range(<<\hfc00>>, <<\hfdff>>),
  V6Range(<<\hfe80>>, <<\hfebf>>), V6Range(<<\hff00>>, <<\hffff>>)}
Ranges6 == Low6 \cup {<<<<0, 0, 0, 0, 0, 0, 0, 1>>, <<0, 0, 0, 0, 0, 0, 0, 1>>>>,
                     <<<<0, 0, 0, 0, 0, 0, 0, 0>>, <<0, 0, 0, 0, 0, 0, 0, 0>>>>}

LEMMA Table4 ==
  ASSUME NEW ip \in V4
  PROVE  InTable(ip, BlockedV4) <=> \E r \in Ranges4 : Within(ip, r)
<1>1. InCidr(ip, Block(<<0, 0, 0, 0>>, 8)) <=>
        Within(ip, <<<<0, 0, 0, 0>>, <<0, 255, 255, 255>>>>)
  BY V4Rows, V4Row, SMTT(60)
<1>2. InCidr(ip, Block(<<10, 0, 0, 0>>, 8)) <=>
        Within(ip, <<<<10, 0, 0, 0>>, <<10, 255, 255, 255>>>>)
  BY V4Rows, V4Row, SMTT(60)
<1>3. InCidr(ip, Block(<<100, 64, 0, 0>>, 10)) <=>
        Within(ip, <<<<100, 64, 0, 0>>, <<100, 127, 255, 255>>>>)
  BY V4Rows, V4Row, SMTT(60)
<1>4. InCidr(ip, Block(<<127, 0, 0, 0>>, 8)) <=>
        Within(ip, <<<<127, 0, 0, 0>>, <<127, 255, 255, 255>>>>)
  BY V4Rows, V4Row, SMTT(60)
<1>5. InCidr(ip, Block(<<169, 254, 0, 0>>, 16)) <=>
        Within(ip, <<<<169, 254, 0, 0>>, <<169, 254, 255, 255>>>>)
  BY V4Rows, V4Row, SMTT(60)
<1>6. InCidr(ip, Block(<<172, 16, 0, 0>>, 12)) <=>
        Within(ip, <<<<172, 16, 0, 0>>, <<172, 31, 255, 255>>>>)
  BY V4Rows, V4Row, SMTT(60)
<1>7. InCidr(ip, Block(<<192, 0, 0, 0>>, 24)) <=>
        Within(ip, <<<<192, 0, 0, 0>>, <<192, 0, 0, 255>>>>)
  BY V4Rows, V4Row, SMTT(60)
<1>8. InCidr(ip, Block(<<192, 0, 2, 0>>, 24)) <=>
        Within(ip, <<<<192, 0, 2, 0>>, <<192, 0, 2, 255>>>>)
  BY V4Rows, V4Row, SMTT(60)
<1>9. InCidr(ip, Block(<<192, 168, 0, 0>>, 16)) <=>
        Within(ip, <<<<192, 168, 0, 0>>, <<192, 168, 255, 255>>>>)
  BY V4Rows, V4Row, SMTT(60)
<1>10. InCidr(ip, Block(<<198, 18, 0, 0>>, 15)) <=>
        Within(ip, <<<<198, 18, 0, 0>>, <<198, 19, 255, 255>>>>)
  BY V4Rows, V4Row, SMTT(60)
<1>11. InCidr(ip, Block(<<198, 51, 100, 0>>, 24)) <=>
        Within(ip, <<<<198, 51, 100, 0>>, <<198, 51, 100, 255>>>>)
  BY V4Rows, V4Row, SMTT(60)
<1>12. InCidr(ip, Block(<<203, 0, 113, 0>>, 24)) <=>
        Within(ip, <<<<203, 0, 113, 0>>, <<203, 0, 113, 255>>>>)
  BY V4Rows, V4Row, SMTT(60)
<1>13. InCidr(ip, Block(<<224, 0, 0, 0>>, 4)) <=>
        Within(ip, <<<<224, 0, 0, 0>>, <<239, 255, 255, 255>>>>)
  BY V4Rows, V4Row, SMTT(60)
<1>14. InCidr(ip, Block(<<240, 0, 0, 0>>, 4)) <=>
        Within(ip, <<<<240, 0, 0, 0>>, <<255, 255, 255, 255>>>>)
  BY V4Rows, V4Row, SMTT(60)
<1>. QED
  BY <1>1, <1>2, <1>3, <1>4, <1>5, <1>6, <1>7, <1>8, <1>9, <1>10, <1>11, <1>12,
  <1>13, <1>14 DEF InTable, BlockedV4, Ranges4, Low4

LEMMA Table6 ==
  ASSUME NEW ip \in V6
  PROVE  InTable(ip, BlockedV6) <=> \E r \in Ranges6 : Within(ip, r)
<1>1. InCidr(ip, Block(<<0, 0, 0, 0, 0, 0, 0, 1>>, 128)) <=>
        Within(ip, <<<<0, 0, 0, 0, 0, 0, 0, 1>>, <<0, 0, 0, 0, 0, 0, 0, 1>>>>)
  BY V6Rows, V6Row, SMTT(60)
<1>2. InCidr(ip, Block(<<0, 0, 0, 0, 0, 0, 0, 0>>, 128)) <=>
        Within(ip, <<<<0, 0, 0, 0, 0, 0, 0, 0>>, <<0, 0, 0, 0, 0, 0, 0, 0>>>>)
  BY V6Rows, V6Row, SMTT(60)
<1>3. InCidr(ip, Block(<<0, 0, 0, 0, 0, \hffff, 0, 0>>, 96)) <=>
        Within(ip, V6Range(<<0, 0, 0, 0, 0, \hffff>>, <<0, 0, 0, 0, 0, \hffff>>))
  <2>1. InCidr(ip, Block(<<0, 0, 0, 0, 0, \hffff, 0, 0>>, 96)) <=>
          Within(ip, <<<<0, 0, 0, 0, 0, \hffff, 0, 0>>,
                       <<0, 0, 0, 0, 0, \hffff, \hffff, \hffff>>>>)
    BY V6Rows, V6Row
  <2>2. V6Range(<<0, 0, 0, 0, 0, \hffff>>, <<0, 0, 0, 0, 0, \hffff>>) =
          <<<<0, 0, 0, 0, 0, \hffff, 0, 0>>,
            <<0, 0, 0, 0, 0, \hffff, \hffff, \hffff>>>>
    BY V6Ends
  <2>. QED
    BY <2>1, <2>2
<1>4. InCidr(ip, Block(<<\h64, \hff9b, 0, 0, 0, 0, 0, 0>>, 96)) <=>
        Within(ip, V6Range(<<\h64, \hff9b>>, <<\h64, \hff9b, 0, 0, 0, 0>>))
  <2>1. InCidr(ip, Block(<<\h64, \hff9b, 0, 0, 0, 0, 0, 0>>, 96)) <=>
          Within(ip, <<<<\h64, \hff9b, 0, 0, 0, 0, 0, 0>>,
                       <<\h64, \hff9b, 0, 0, 0, 0, \hffff, \hffff>>>>)
    BY V6Rows, V6Row
  <2>2. V6Range(<<\h64, \hff9b>>, <<\h64, \hff9b, 0, 0, 0, 0>>) =
          <<<<\h64, \hff9b, 0, 0, 0, 0, 0, 0>>,
            <<\h64, \hff9b, 0, 0, 0, 0, \hffff, \hffff>>>>
    BY V6Ends
  <2>. QED
    BY <2>1, <2>2
<1>5. InCidr(ip, Block(<<\h100, 0, 0, 0, 0, 0, 0, 0>>, 64)) <=>
        Within(ip, V6Range(<<\h100>>, <<\h100, 0, 0, 0>>))
  <2>1. InCidr(ip, Block(<<\h100, 0, 0, 0, 0, 0, 0, 0>>, 64)) <=>
          Within(ip, <<<<\h100, 0, 0, 0, 0, 0, 0, 0>>,
                       <<\h100, 0, 0, 0, \hffff, \hffff, \hffff, \hffff>>>>)
    BY V6Rows, V6Row
  <2>2. V6Range(<<\h100>>, <<\h100, 0, 0, 0>>) =
          <<<<\h100, 0, 0, 0, 0, 0, 0, 0>>,
            <<\h100, 0, 0, 0, \hffff, \hffff, \hffff, \hffff>>>>
    BY V6Ends
  <2>. QED
    BY <2>1, <2>2
<1>6. InCidr(ip, Block(<<\h2001, \hdb8, 0, 0, 0, 0, 0, 0>>, 32)) <=>
        Within(ip, V6Range(<<\h2001, \hdb8>>, <<\h2001, \hdb8>>))
  <2>1. InCidr(ip, Block(<<\h2001, \hdb8, 0, 0, 0, 0, 0, 0>>, 32)) <=>
          Within(ip, <<<<\h2001, \hdb8, 0, 0, 0, 0, 0, 0>>,
                       <<\h2001, \hdb8, \hffff, \hffff, \hffff, \hffff, \hffff, \hffff>>>>)
    BY V6Rows, V6Row
  <2>2. V6Range(<<\h2001, \hdb8>>, <<\h2001, \hdb8>>) =
          <<<<\h2001, \hdb8, 0, 0, 0, 0, 0, 0>>,
            <<\h2001, \hdb8, \hffff, \hffff, \hffff, \hffff, \hffff, \hffff>>>>
    BY V6Ends
  <2>. QED
    BY <2>1, <2>2
<1>7. InCidr(ip, Block(<<\hfc00, 0, 0, 0, 0, 0, 0, 0>>, 7)) <=>
        Within(ip, V6Range(<<\hfc00>>, <<\hfdff>>))
  <2>1. InCidr(ip, Block(<<\hfc00, 0, 0, 0, 0, 0, 0, 0>>, 7)) <=>
          Within(ip, <<<<\hfc00, 0, 0, 0, 0, 0, 0, 0>>,
                       <<\hfdff, \hffff, \hffff, \hffff, \hffff, \hffff, \hffff, \hffff>>>>)
    BY V6Rows, V6Row
  <2>2. V6Range(<<\hfc00>>, <<\hfdff>>) =
          <<<<\hfc00, 0, 0, 0, 0, 0, 0, 0>>,
            <<\hfdff, \hffff, \hffff, \hffff, \hffff, \hffff, \hffff, \hffff>>>>
    BY V6Ends
  <2>. QED
    BY <2>1, <2>2
<1>8. InCidr(ip, Block(<<\hfe80, 0, 0, 0, 0, 0, 0, 0>>, 10)) <=>
        Within(ip, V6Range(<<\hfe80>>, <<\hfebf>>))
  <2>1. InCidr(ip, Block(<<\hfe80, 0, 0, 0, 0, 0, 0, 0>>, 10)) <=>
          Within(ip, <<<<\hfe80, 0, 0, 0, 0, 0, 0, 0>>,
                       <<\hfebf, \hffff, \hffff, \hffff, \hffff, \hffff, \hffff, \hffff>>>>)
    BY V6Rows, V6Row
  <2>2. V6Range(<<\hfe80>>, <<\hfebf>>) =
          <<<<\hfe80, 0, 0, 0, 0, 0, 0, 0>>,
            <<\hfebf, \hffff, \hffff, \hffff, \hffff, \hffff, \hffff, \hffff>>>>
    BY V6Ends
  <2>. QED
    BY <2>1, <2>2
<1>9. InCidr(ip, Block(<<\hff00, 0, 0, 0, 0, 0, 0, 0>>, 8)) <=>
        Within(ip, V6Range(<<\hff00>>, <<\hffff>>))
  <2>1. InCidr(ip, Block(<<\hff00, 0, 0, 0, 0, 0, 0, 0>>, 8)) <=>
          Within(ip, <<<<\hff00, 0, 0, 0, 0, 0, 0, 0>>,
                       <<\hffff, \hffff, \hffff, \hffff, \hffff, \hffff, \hffff, \hffff>>>>)
    BY V6Rows, V6Row
  <2>2. V6Range(<<\hff00>>, <<\hffff>>) =
          <<<<\hff00, 0, 0, 0, 0, 0, 0, 0>>,
            <<\hffff, \hffff, \hffff, \hffff, \hffff, \hffff, \hffff, \hffff>>>>
    BY V6Ends
  <2>. QED
    BY <2>1, <2>2
<1>. QED
  BY <1>1, <1>2, <1>3, <1>4, <1>5, <1>6, <1>7, <1>8, <1>9 DEF InTable, BlockedV6, Ranges6, Low6
----------------------------------------------------------------------------
(* The table and the reserved ranges. *)

Tail4 == <<<<224, 0, 0, 0>>, <<255, 255, 255, 255>>>>
Tail6 == V6Range(<<>>, <<0, 0, 0, 0, 0, 0, 0, 1>>)

LEMMA ReservedByFamily == Reserved = (Low4 \cup {Tail4}) \cup (Low6 \cup {Tail6})
BY DEF Reserved, Low4, Low6, Tail4, Tail6

\* The two last blocks of IPv4, and the two first of IPv6, are one range each.
LEMMA LastBlocks ==
  ASSUME NEW ip \in V4
  PROVE  Within(ip, Tail4) <=>
           \/ Within(ip, <<<<224, 0, 0, 0>>, <<239, 255, 255, 255>>>>)
           \/ Within(ip, <<<<240, 0, 0, 0>>, <<255, 255, 255, 255>>>>)
<1>1. /\ Len(ip) = 4 /\ ip[1] \in Nat /\ ip[1] <= 255
      /\ \A x \in Unit(8) : x <= 255
  <2>1. \A x \in Unit(8) : x \in Nat /\ x <= 255
    BY Powers DEF Unit
  <2>. QED
    BY <2>1, Lengths DEF V4
<1>2. ASSUME NEW a \in Nat, NEW b \in Nat, a <= 255, b <= 255
      PROVE  Within(ip, <<<<a, 0, 0, 0>>, <<b, 255, 255, 255>>>>) <=> a <= ip[1] /\ ip[1] <= b
  <2>1. <<a, 0, 0, 0>> \in [1..4 -> Unit(8)] /\ <<b, 255, 255, 255>> \in [1..4 -> Unit(8)]
    BY <1>2, Powers, SMTT(30) DEF Unit
  <2>2. PICK first \in [1..4 -> Unit(8)], last \in [1..4 -> Unit(8)] :
          first = <<a, 0, 0, 0>> /\ last = <<b, 255, 255, 255>>
    BY <2>1
  <2>3. \A j \in 2..4 : first[j] = 0 /\ last[j] = 255
    BY <2>2
  <2>4. AtMost(first, ip) /\ AtMost(ip, last) <=> Ranged(ip, first, last, 1)
    <3>1. \A j \in (1 + 1)..4 : first[j] = 0 /\ \A x \in Unit(8) : x <= last[j]
      BY <1>1, <2>3, 1 + 1 = 2
    <3>2. \A j \in 1..(1 - 1) : first[j] = last[j]
      OBVIOUS
    <3>3. Family(4, 8) /\ ip \in [1..4 -> Unit(8)] /\ 1 \in 1..4
      BY DEF Family, V4
    <3>. QED
      BY <3>1, <3>2, <3>3, RangeOfUnit
  <2>5. Ranged(ip, first, last, 1) <=> a <= ip[1] /\ ip[1] <= b
    BY <2>2 DEF Ranged
  <2>6. Len(first) = Len(ip)
    BY <1>1, <2>2
  <2>. QED
    BY <2>2, <2>4, <2>5, <2>6 DEF Within
<1>. QED
  BY <1>1, <1>2 DEF Tail4

LEMMA FirstBlocks ==
  ASSUME NEW ip \in V6
  PROVE  Within(ip, Tail6) <=>
           \/ Within(ip, <<<<0, 0, 0, 0, 0, 0, 0, 1>>, <<0, 0, 0, 0, 0, 0, 0, 1>>>>)
           \/ Within(ip, <<<<0, 0, 0, 0, 0, 0, 0, 0>>, <<0, 0, 0, 0, 0, 0, 0, 0>>>>)
<1>. DEFINE Zeros == \A j \in 1..7 : ip[j] = 0
<1>1. Len(ip) = 8 /\ ip[8] \in Nat
  <2>1. \A x \in Unit(16) : x \in Nat
    BY Units DEF Family
  <2>. QED
    BY <2>1, Lengths DEF V6
<1>2. ASSUME NEW a \in Nat, NEW b \in Nat, a <= 1, b <= 1
      PROVE  Within(ip, <<<<0, 0, 0, 0, 0, 0, 0, a>>, <<0, 0, 0, 0, 0, 0, 0, b>>>>) <=>
               Zeros /\ a <= ip[8] /\ ip[8] <= b
  <2>1. 0 \in Unit(16) /\ a \in Unit(16) /\ b \in Unit(16)
    BY <1>2, SmallUnits
  <2>2. PICK first \in [1..8 -> Unit(16)], last \in [1..8 -> Unit(16)] :
          first = <<0, 0, 0, 0, 0, 0, 0, a>> /\ last = <<0, 0, 0, 0, 0, 0, 0, b>>
    BY <2>1, EightUnits
  <2>3. \A j \in 1..7 : first[j] = 0 /\ last[j] = 0
    BY <2>2
  <2>4. AtMost(first, ip) /\ AtMost(ip, last) <=> Ranged(ip, first, last, 8)
    <3>1. \A j \in (8 + 1)..8 : first[j] = 0 /\ \A x \in Unit(16) : x <= last[j]
      OBVIOUS
    <3>2. \A j \in 1..(8 - 1) : first[j] = last[j]
      BY <2>3
    <3>3. Family(8, 16) /\ ip \in [1..8 -> Unit(16)] /\ 8 \in 1..8
      BY DEF Family, V6
    <3>. QED
      BY <3>1, <3>2, <3>3, RangeOfUnit
  <2>5. first[8] = a /\ last[8] = b /\ Len(first) = 8
    BY <2>2
  <2>6. Ranged(ip, first, last, 8) <=> Zeros /\ a <= ip[8] /\ ip[8] <= b
    BY <2>3, <2>5 DEF Ranged
  <2>. QED
    BY <1>1, <2>2, <2>4, <2>5, <2>6 DEF Within
<1>3. Tail6 = <<<<0, 0, 0, 0, 0, 0, 0, 0>>, <<0, 0, 0, 0, 0, 0, 0, 1>>>>
  BY V6Ends DEF Tail6
<1>. HIDE DEF Zeros
<1>. QED
  BY <1>1, <1>2, <1>3

LEMMA Families ==
  /\ \A r \in Low4 \cup {Tail4} : Len(r[1]) = 4
  /\ \A r \in Low6 \cup {Tail6} : Len(r[1]) = 8
<1>1. \A r \in Low4 \cup {Tail4} : Len(r[1]) = 4
  BY DEF Low4, Tail4
<1>2. \A r \in Low6 \cup {Tail6} : Len(r[1]) = 8
  BY V6Ends DEF Low6, Tail6
<1>. QED
  BY <1>1, <1>2

LEMMA ReservedV4 ==
  ASSUME NEW ip \in V4
  PROVE  IsReserved(ip) <=> \E r \in Ranges4 : Within(ip, r)
<1>1. IsReserved(ip) <=> \E r \in Reserved : Within(ip, r)
  BY DEF IsReserved, Within
<1>2. \A r \in Low6 \cup {Tail6} : ~Within(ip, r)
  <2>1. Len(ip) = 4
    BY Lengths
  <2>. QED
    BY <2>1, Families DEF Within
<1>3. (\E r \in Reserved : Within(ip, r)) <=>
        (\E r \in Low4 : Within(ip, r)) \/ Within(ip, Tail4)
  BY <1>2, ReservedByFamily
<1>. QED
  BY <1>1, <1>3, LastBlocks DEF Ranges4

LEMMA ReservedV6 ==
  ASSUME NEW ip \in V6
  PROVE  IsReserved(ip) <=> \E r \in Ranges6 : Within(ip, r)
<1>1. IsReserved(ip) <=> \E r \in Reserved : Within(ip, r)
  BY DEF IsReserved, Within
<1>2. \A r \in Low4 \cup {Tail4} : ~Within(ip, r)
  <2>1. Len(ip) = 8
    BY Lengths
  <2>. QED
    BY <2>1, Families DEF Within
<1>3. (\E r \in Reserved : Within(ip, r)) <=>
        (\E r \in Low6 : Within(ip, r)) \/ Within(ip, Tail6)
  BY <1>2, ReservedByFamily
<1>. QED
  BY <1>1, <1>3, FirstBlocks DEF Ranges6
\* The metadata addresses are inside blocks of the table already.
LEMMA MetadataInside == \A ip \in Metadata : ip \in Address /\ IsReserved(ip)
<1>1. <<169, 254, 169, 254>> \in V4 /\ <<100, 100, 100, 200>> \in V4
  BY Powers DEF V4, Unit
<1>2. <<\hfd00, \hec2, 0, 0, 0, 0, 0, \h254>> \in V6
  <2>1. {\hfd00, \hec2, 0, \h254} \subseteq Unit(16)
    BY SmallUnits
  <2>. QED
    BY <2>1, EightUnits DEF V6
<1>3. Within(<<169, 254, 169, 254>>, <<<<169, 254, 0, 0>>, <<169, 254, 255, 255>>>>)
  BY DEF Within, AtMost
<1>4. Within(<<100, 100, 100, 200>>, <<<<100, 64, 0, 0>>, <<100, 127, 255, 255>>>>)
  BY DEF Within, AtMost
<1>5. Within(<<\hfd00, \hec2, 0, 0, 0, 0, 0, \h254>>, V6Range(<<\hfc00>>, <<\hfdff>>))
  <2>1. Within(<<\hfd00, \hec2, 0, 0, 0, 0, 0, \h254>>,
               <<<<\hfc00, 0, 0, 0, 0, 0, 0, 0>>,
                 <<\hfdff, \hffff, \hffff, \hffff, \hffff, \hffff, \hffff, \hffff>>>>)
    BY DEF Within, AtMost
  <2>2. V6Range(<<\hfc00>>, <<\hfdff>>) =
          <<<<\hfc00, 0, 0, 0, 0, 0, 0, 0>>,
            <<\hfdff, \hffff, \hffff, \hffff, \hffff, \hffff, \hffff, \hffff>>>>
    BY V6Ends
  <2>. QED
    BY <2>1, <2>2
<1>6. <<<<169, 254, 0, 0>>, <<169, 254, 255, 255>>>> \in Ranges4
  BY DEF Ranges4, Low4
<1>7. <<<<100, 64, 0, 0>>, <<100, 127, 255, 255>>>> \in Ranges4
  BY DEF Ranges4, Low4
<1>8. V6Range(<<\hfc00>>, <<\hfdff>>) \in Ranges6
  BY DEF Ranges6, Low6
<1>9. IsReserved(<<169, 254, 169, 254>>)
  BY <1>1, <1>3, <1>6, ReservedV4
<1>10. IsReserved(<<100, 100, 100, 200>>)
  BY <1>1, <1>4, <1>7, ReservedV4
<1>11. IsReserved(<<\hfd00, \hec2, 0, 0, 0, 0, 0, \h254>>)
  BY <1>2, <1>5, <1>8, ReservedV6
<1>. QED
  BY <1>1, <1>2, <1>9, <1>10, <1>11 DEF Metadata, Address

LEMMA LargestUnit == \A x \in Unit(16) : x \in Nat /\ x <= \hffff
<1>1. \A x : x \in Unit(16) <=> x \in Nat /\ x < 2 ^ 16
  BY Units DEF Family
<1>. QED
  BY <1>1, Powers

\* Every address in the IPv4-mapped form is in the table of IPv6.
LEMMA RangeOfSixth ==
  ASSUME NEW ip \in [1..8 -> Unit(16)], NEW first \in [1..8 -> Unit(16)],
         NEW last \in [1..8 -> Unit(16)], \A j \in 1..5 : first[j] = last[j],
         \A j \in 7..8 : first[j] = 0 /\ \A x \in Unit(16) : x <= last[j]
  PROVE  AtMost(first, ip) /\ AtMost(ip, last) <=> Ranged(ip, first, last, 6)
<1>1. Family(8, 16) /\ 6 \in 1..8 /\ 6 + 1 = 7 /\ 6 - 1 = 5
  BY DEF Family
<1>. QED
  BY <1>1, RangeOfUnit

LEMMA MappedBetween ==
  ASSUME NEW ip \in V6, NEW first \in [1..8 -> Unit(16)], NEW last \in [1..8 -> Unit(16)],
         \A j \in 1..5 : first[j] = 0 /\ last[j] = 0 /\ ip[j] = 0,
         first[6] = \hffff, last[6] = \hffff, ip[6] = \hffff,
         \A j \in 7..8 : first[j] = 0 /\ last[j] = \hffff
  PROVE  Within(ip, <<first, last>>)
<1>1. \A j \in 7..8 : first[j] = 0 /\ \A x \in Unit(16) : x <= last[j]
  BY LargestUnit
<1>2. \A j \in 1..5 : first[j] = last[j]
  OBVIOUS
<1>3. ip \in [1..8 -> Unit(16)]
  BY DEF V6
<1>4. AtMost(first, ip) /\ AtMost(ip, last) <=> Ranged(ip, first, last, 6)
  BY <1>1, <1>2, <1>3, RangeOfSixth
<1>5. Ranged(ip, first, last, 6)
  BY DEF Ranged
<1>6. Len(first) = 8 /\ Len(ip) = 8
  BY Lengths DEF V6
<1>. QED
  BY <1>4, <1>5, <1>6 DEF Within

LEMMA MappedInside ==
  ASSUME NEW ip \in V6, \A j \in 1..5 : ip[j] = 0, ip[6] = \hffff
  PROVE  IsReserved(ip)
<1>. DEFINE range == V6Range(<<0, 0, 0, 0, 0, \hffff>>, <<0, 0, 0, 0, 0, \hffff>>)
            net == <<0, 0, 0, 0, 0, \hffff, 0, 0>>
            end == <<0, 0, 0, 0, 0, \hffff, \hffff, \hffff>>
<1>1. net \in [1..8 -> Unit(16)] /\ end \in [1..8 -> Unit(16)]
  BY V6Rows DEF Spans
<1>2. PICK first \in [1..8 -> Unit(16)], last \in [1..8 -> Unit(16)] :
        first = net /\ last = end
  BY <1>1
<1>3. Within(ip, <<first, last>>)
  <2>1. /\ \A j \in 1..5 : first[j] = 0 /\ last[j] = 0
        /\ first[6] = \hffff /\ last[6] = \hffff
        /\ \A j \in 7..8 : first[j] = 0 /\ last[j] = \hffff
    BY <1>2
  <2>. QED
    BY <2>1, MappedBetween
<1>4. range = <<net, end>>
  BY V6Ends
<1>5. range \in Ranges6
  BY DEF Ranges6, Low6
<1>. HIDE DEF range, net, end
<1>. QED
  BY <1>2, <1>3, <1>4, <1>5, ReservedV6

\* isBlockedIp blocks an address exactly when it lies in a reserved range: for each of the
\* 2^32 and 2^128 addresses the masks of BLOCKED_CIDRS are the ranges, and unmapV4 and the
\* metadata literals block nothing that the table does not.
THEOREM GuardIsExact == \A ip \in Address : IsBlockedIp(ip) <=> IsReserved(ip)
<1>1. ASSUME NEW ip \in V4 PROVE IsBlockedIp(ip) <=> IsReserved(ip)
  <2>1. IsV4(ip)
    BY Lengths
  <2>2. InTable(ip, BlockedV4) <=> IsReserved(ip)
    BY Table4, ReservedV4
  <2>. QED
    BY <2>1, <2>2, MetadataInside DEF IsBlockedIp
<1>2. ASSUME NEW ip \in V6 PROVE IsBlockedIp(ip) <=> IsReserved(ip)
  <2>1. ~IsV4(ip) /\ Len(ip) = 8
    BY Lengths
  <2>2. InTable(ip, BlockedV6) <=> IsReserved(ip)
    BY Table6, ReservedV6
  <2>3. IsMapped(ip) => IsReserved(ip)
    <3>1. SUFFICES ASSUME IsMapped(ip) PROVE (\A j \in 1..5 : ip[j] = 0) /\ ip[6] = \hffff
      BY MappedInside
    <3>2. \A j \in 1..6 : SubSeq(ip, 1, 6)[j] = ip[j]
      BY <2>1 DEF V6
    <3>3. PICK s : s = SubSeq(ip, 1, 6)
      OBVIOUS
    <3>4. s = <<0, 0, 0, 0, 0, \hffff>>
      BY <3>1, <3>3 DEF IsMapped
    <3>5. (\A j \in 1..5 : s[j] = 0) /\ s[6] = \hffff
      BY <3>4
    <3>. QED
      BY <3>2, <3>3, <3>5
  <2>. QED
    BY <2>1, <2>2, <2>3, MetadataInside DEF IsBlockedIp
<1>. QED
  BY <1>1, <1>2 DEF Address
----------------------------------------------------------------------------
(* The borders of the ranges. *)

LEMMA NextDoor ==
  /\ \A ip \in V4 : Before(ip) \in V4 /\ After(ip) \in V4
  /\ \A ip \in V6 : Before(ip) \in V6 /\ After(ip) \in V6
<1>1. \A x : x \in Unit(8) <=> x \in Nat /\ x <= 255
  <2>1. \A x : x \in Unit(8) <=> x \in Nat /\ x < 2 ^ 8
    BY Units DEF Family
  <2>. QED
    BY <2>1, Powers
<1>2. \A x : x \in Unit(16) <=> x \in Nat /\ x <= \hffff
  BY SmallUnits, LargestUnit
<1>3. ASSUME NEW ip \in V4 PROVE Before(ip) \in V4 /\ After(ip) \in V4
  <2>1. UnitMax(ip) = 255 /\ Len(ip) = 4
    BY Lengths DEF UnitMax
  <2>2. \A i \in 1..4 : /\ ip[i] \in Unit(8)
                        /\ (ip[i] + 1) % (255 + 1) \in Unit(8)
                        /\ (ip[i] + 255) % (255 + 1) \in Unit(8)
    BY <1>1 DEF V4
  <2>. QED
    BY <2>1, <2>2 DEF Before, After, V4
<1>4. ASSUME NEW ip \in V6 PROVE Before(ip) \in V6 /\ After(ip) \in V6
  <2>1. UnitMax(ip) = \hffff /\ Len(ip) = 8
    BY Lengths DEF UnitMax
  <2>2. \A i \in 1..8 : /\ ip[i] \in Unit(16)
                        /\ (ip[i] + 1) % (\hffff + 1) \in Unit(16)
                        /\ (ip[i] + \hffff) % (\hffff + 1) \in Unit(16)
    BY <1>2 DEF V6
  <2>. QED
    BY <2>1, <2>2 DEF Before, After, V6
<1>. QED
  BY <1>3, <1>4

LEMMA EndsAreAddresses ==
  /\ \A r \in Low4 \cup {Tail4} : r[1] \in V4 /\ r[2] \in V4
  /\ \A r \in Low6 \cup {Tail6} : r[1] \in V6 /\ r[2] \in V6
<1>1. \A r \in Low4 \cup {Tail4} : r[1] \in V4 /\ r[2] \in V4
  BY Powers DEF Low4, Tail4, V4, Unit
<1>. DEFINE InV6(r) == r[1] \in V6 /\ r[2] \in V6
<1>2. \A r \in Low6 : InV6(r)
  <2>1. InV6(V6Range(<<0, 0, 0, 0, 0, \hffff>>, <<0, 0, 0, 0, 0, \hffff>>))
    <3>1. V6Range(<<0, 0, 0, 0, 0, \hffff>>, <<0, 0, 0, 0, 0, \hffff>>) =
            <<<<0, 0, 0, 0, 0, \hffff, 0, 0>>,
              <<0, 0, 0, 0, 0, \hffff, \hffff, \hffff>>>>
      BY V6Ends
    <3>2. <<0, 0, 0, 0, 0, \hffff, 0, 0>> \in V6 /\
          <<0, 0, 0, 0, 0, \hffff, \hffff, \hffff>> \in V6
      BY V6Rows DEF Spans, V6
    <3>. QED
      BY <3>1, <3>2
  <2>2. InV6(V6Range(<<\h64, \hff9b>>, <<\h64, \hff9b, 0, 0, 0, 0>>))
    <3>1. V6Range(<<\h64, \hff9b>>, <<\h64, \hff9b, 0, 0, 0, 0>>) =
            <<<<\h64, \hff9b, 0, 0, 0, 0, 0, 0>>,
              <<\h64, \hff9b, 0, 0, 0, 0, \hffff, \hffff>>>>
      BY V6Ends
    <3>2. <<\h64, \hff9b, 0, 0, 0, 0, 0, 0>> \in V6 /\
          <<\h64, \hff9b, 0, 0, 0, 0, \hffff, \hffff>> \in V6
      BY V6Rows DEF Spans, V6
    <3>. QED
      BY <3>1, <3>2
  <2>3. InV6(V6Range(<<\h100>>, <<\h100, 0, 0, 0>>))
    <3>1. V6Range(<<\h100>>, <<\h100, 0, 0, 0>>) =
            <<<<\h100, 0, 0, 0, 0, 0, 0, 0>>,
              <<\h100, 0, 0, 0, \hffff, \hffff, \hffff, \hffff>>>>
      BY V6Ends
    <3>2. <<\h100, 0, 0, 0, 0, 0, 0, 0>> \in V6 /\
          <<\h100, 0, 0, 0, \hffff, \hffff, \hffff, \hffff>> \in V6
      BY V6Rows DEF Spans, V6
    <3>. QED
      BY <3>1, <3>2
  <2>4. InV6(V6Range(<<\h2001, \hdb8>>, <<\h2001, \hdb8>>))
    <3>1. V6Range(<<\h2001, \hdb8>>, <<\h2001, \hdb8>>) =
            <<<<\h2001, \hdb8, 0, 0, 0, 0, 0, 0>>,
              <<\h2001, \hdb8, \hffff, \hffff, \hffff, \hffff, \hffff, \hffff>>>>
      BY V6Ends
    <3>2. <<\h2001, \hdb8, 0, 0, 0, 0, 0, 0>> \in V6 /\
          <<\h2001, \hdb8, \hffff, \hffff, \hffff, \hffff, \hffff, \hffff>> \in V6
      BY V6Rows DEF Spans, V6
    <3>. QED
      BY <3>1, <3>2
  <2>5. InV6(V6Range(<<\hfc00>>, <<\hfdff>>))
    <3>1. V6Range(<<\hfc00>>, <<\hfdff>>) =
            <<<<\hfc00, 0, 0, 0, 0, 0, 0, 0>>,
              <<\hfdff, \hffff, \hffff, \hffff, \hffff, \hffff, \hffff, \hffff>>>>
      BY V6Ends
    <3>2. <<\hfc00, 0, 0, 0, 0, 0, 0, 0>> \in V6 /\
          <<\hfdff, \hffff, \hffff, \hffff, \hffff, \hffff, \hffff, \hffff>> \in V6
      BY V6Rows DEF Spans, V6
    <3>. QED
      BY <3>1, <3>2
  <2>6. InV6(V6Range(<<\hfe80>>, <<\hfebf>>))
    <3>1. V6Range(<<\hfe80>>, <<\hfebf>>) =
            <<<<\hfe80, 0, 0, 0, 0, 0, 0, 0>>,
              <<\hfebf, \hffff, \hffff, \hffff, \hffff, \hffff, \hffff, \hffff>>>>
      BY V6Ends
    <3>2. <<\hfe80, 0, 0, 0, 0, 0, 0, 0>> \in V6 /\
          <<\hfebf, \hffff, \hffff, \hffff, \hffff, \hffff, \hffff, \hffff>> \in V6
      BY V6Rows DEF Spans, V6
    <3>. QED
      BY <3>1, <3>2
  <2>7. InV6(V6Range(<<\hff00>>, <<\hffff>>))
    <3>1. V6Range(<<\hff00>>, <<\hffff>>) =
            <<<<\hff00, 0, 0, 0, 0, 0, 0, 0>>,
              <<\hffff, \hffff, \hffff, \hffff, \hffff, \hffff, \hffff, \hffff>>>>
      BY V6Ends
    <3>2. <<\hff00, 0, 0, 0, 0, 0, 0, 0>> \in V6 /\
          <<\hffff, \hffff, \hffff, \hffff, \hffff, \hffff, \hffff, \hffff>> \in V6
      BY V6Rows DEF Spans, V6
    <3>. QED
      BY <3>1, <3>2
  <2>. QED
    BY <2>1, <2>2, <2>3, <2>4, <2>5, <2>6, <2>7 DEF Low6
<1>3. InV6(Tail6)
  <2>1. Tail6 = <<<<0, 0, 0, 0, 0, 0, 0, 0>>, <<0, 0, 0, 0, 0, 0, 0, 1>>>>
    BY V6Ends DEF Tail6
  <2>. QED
    BY <2>1, V6Rows DEF Spans, V6
<1>. QED
  BY <1>1, <1>2, <1>3

LEMMA BordersAreAddresses == Borders \subseteq Address
<1>1. ASSUME NEW r \in Reserved
      PROVE  {r[1], r[2], Before(r[1]), After(r[2])} \subseteq Address
  BY ReservedByFamily, EndsAreAddresses, NextDoor DEF Address
<1>. QED
  BY <1>1 DEF Borders

LEMMA MappedIsReserved == \A ip \in V4 : Mapped(ip) \in V6 /\ IsReserved(Mapped(ip))
<1>1. SUFFICES ASSUME NEW ip \in V4 PROVE Mapped(ip) \in V6 /\ IsReserved(Mapped(ip))
  OBVIOUS
<1>2. \A i \in 1..4 : ip[i] \in Nat /\ ip[i] <= 255
  <2>1. \A x : x \in Unit(8) <=> x \in Nat /\ x < 2 ^ 8
    BY Units DEF Family
  <2>. QED
    BY <2>1, Powers DEF V4
<1>3. PICK a \in Unit(16), b \in Unit(16) : a = ip[1] * 256 + ip[2] /\ b = ip[3] * 256 + ip[4]
  BY <1>2, SmallUnits
<1>4. 0 \in Unit(16) /\ \hffff \in Unit(16)
  BY SmallUnits
<1>5. PICK m \in V6 : m = <<0, 0, 0, 0, 0, \hffff, a, b>>
  <2>1. <<0, 0, 0, 0, 0, \hffff, a, b>> \in V6
    BY <1>4, EightUnits DEF V6
  <2>. QED
    BY <2>1
<1>6. (\A j \in 1..5 : m[j] = 0) /\ m[6] = \hffff
  BY <1>5
<1>7. Mapped(ip) = m
  BY <1>3, <1>5 DEF Mapped
<1>. QED
  BY <1>6, <1>7, MappedInside

\* The addresses the run looks at are addresses, and so its comparison holds for the table
\* as it is, and for the IPv6 form of any IPv4 address.
THEOREM MasksMatch == Spec => []MasksAreTheRanges
<1>1. Misjudged = {}
  <2>1. \A ip \in Borders : ip \in Address /\ (IsV4(ip) => ip \in V4)
    BY BordersAreAddresses, Lengths DEF Address
  <2>2. \A ip \in V4 : IsBlockedIp(Mapped(ip))
    BY MappedIsReserved, GuardIsExact DEF Address
  <2>3. \A ip \in Borders : IsBlockedIp(ip) = IsReserved(ip)
    BY <2>1, GuardIsExact DEF IsBlockedIp, IsReserved
  <2>. QED
    BY <2>1, <2>2, <2>3 DEF Misjudged
<1>2. MasksAreTheRanges
  BY <1>1 DEF MasksAreTheRanges
<1>. QED
  BY <1>2, PTL
----------------------------------------------------------------------------
(* The requests. *)

\* A verdict that let an address be connected to is one on a URL that passed the checks
\* before DNS.
Vetted == \A v \in verdicts : BeforeDns[v.url] = "ok"

LEMMA PinnedIsVetted ==
  ASSUME NEW u \in Url, NEW v \in Verdicts(u), v.code = "ok"
  PROVE  BeforeDns[v.url] = "ok"
<1>1. v.url = u
  BY VerdictType
<1>2. BeforeDns[u] # "ok" => v.code = BeforeDns[u]
  BY DEF Verdicts, Refused
<1>. QED
  BY <1>1, <1>2

LEMMA VettedStep == TypeInv /\ Vetted /\ [Next]_vars => Vetted'
<1>1. SUFFICES ASSUME TypeInv, Vetted, [Next]_vars PROVE Vetted'
  OBVIOUS
<1>2. CASE Begin
  <2>1. PICK u \in Url : \E v \in Verdicts(u) : verdicts' = Pinned({v})
    BY <1>2 DEF Begin
  <2>2. PICK v \in Verdicts(u) : verdicts' = Pinned({v})
    BY <2>1
  <2>. QED
    BY <2>2, PinnedIsVetted DEF Vetted, Pinned
<1>3. CASE Again
  BY <1>1, <1>3 DEF Again, Vetted
<1>4. CASE Precheck
  <2>1. PICK u \in Url : u = target
    BY <1>1, <1>4 DEF Precheck, TypeInv, Placed
  <2>2. PICK v \in Verdicts(u) : verdicts' = verdicts \cup Pinned({v})
    BY <1>4, <2>1 DEF Precheck
  <2>3. \A w \in Pinned({v}) : BeforeDns[w.url] = "ok"
    BY PinnedIsVetted DEF Pinned
  <2>. QED
    BY <1>1, <2>2, <2>3 DEF Vetted
<1>5. CASE Request \/ Response \/ Chunk \/ Page \/ DeadlinePasses \/ UNCHANGED vars
  <2>1. verdicts' = verdicts
    BY <1>5 DEF Request, Response, Chunk, Page, DeadlinePasses, vars
  <2>. QED
    BY <1>1, <2>1 DEF Vetted
<1>. QED
  BY <1>1, <1>2, <1>3, <1>4, <1>5 DEF Next

\* No request leaves the public web, whatever DNS answers and servers redirect to: from the
\* verdict that vouches for it, GuardIsExact, and the checks before DNS.
THEOREM PublicWebOnly == Spec => []OnlyThePublicWeb
<1>1. Init => CheckedInv /\ Vetted
  BY DEF Init, CheckedInv, NextIsChecked, RequestsVouched, Running, IsBotBlock, Vetted
<1>2. TypeInv /\ CheckedInv /\ Vetted => OnlyThePublicWeb
  <2>1. SUFFICES ASSUME TypeInv, CheckedInv, Vetted, NEW i \in 1..Len(requests)
                 PROVE  requests[i].url \in PublicUrls /\ requests[i].addr \in PublicAddrs
    BY DEF OnlyThePublicWeb
  <2>2. PICK v \in verdicts : /\ v.all \cap Blocked = {} /\ v.addr \in v.all
                              /\ v.url = requests[i].url /\ v.addr = requests[i].addr
    BY <2>1 DEF CheckedInv, RequestsVouched, Vouched
  <2>3. v \in Verdict
    BY <2>1, <2>2 DEF TypeInv, TypeOK
  <2>4. v.addr \in PublicAddrs
    <3>1. v.addr \in Addr /\ v.addr \notin Blocked
      BY <2>2, <2>3 DEF Verdict
    <3>2. v.addr \in Address /\ ~IsBlockedIp(v.addr)
      BY <3>1, GuardAssumption
    <3>. QED
      BY <3>1, <3>2, GuardIsExact DEF PublicAddrs
  <2>5. v.url \in PublicUrls
    <3>1. v.url \in Url /\ BeforeDns[v.url] = "ok"
      BY <2>1, <2>2, <2>3 DEF Vetted, Verdict
    <3>2. VerdictBeforeDns(Parts[v.url]) = "ok"
      BY <3>1, GuardAssumption
    <3>. QED
      BY <3>1, <3>2 DEF PublicUrls, VerdictBeforeDns, AllowedSchemes
  <2>. QED
    BY <2>2, <2>4, <2>5
<1>. QED
  BY <1>1, <1>2, TypeInit, TypeStep, CheckedStep, VettedStep, PTL DEF Spec
=============================================================================
