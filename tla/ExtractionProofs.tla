-------------------------- MODULE ExtractionProofs --------------------------
(***************************************************************************)
(* Theorems about Extraction: whatever the documents hold and however many *)
(* elements there are, each field of the card is the first value offered,  *)
(* and the source map, the images and the completeness are the card's.     *)
(***************************************************************************)
EXTENDS Extraction, FiniteSetTheorems, TLAPS

----------------------------------------------------------------------------
(* Loops.  A fold over a sequence is the last state of a loop over it.     *)

LEMMA LeastOf ==
  ASSUME NEW T \in SUBSET Nat, T # {}
  PROVE  \E m \in T : \A j \in T : m <= j
<1>. DEFINE R == {ss \in Nat \X Nat : ss[1] < ss[2]}
<1>1. IsWellFoundedOn(R, Nat)
  BY NatLessThanWellFounded DEF OpToRel
<1>. HIDE DEF R
<1>2. PICK m \in T : \A j \in T : ~(<<j, m>> \in R)
  BY <1>1, WFMin
<1>3. \A j \in T : j < m => <<j, m>> \in R
  BY DEF R
<1>4. \A j \in T : ~(j < m)
  BY <1>2, <1>3
<1>. QED
  BY <1>4

\* A set that has 0 and with each number the next has all.
LEMMA Climb ==
  ASSUME NEW n \in Nat, NEW good, 0 \in good,
         \A i \in 1..n : i - 1 \in good => i \in good
  PROVE  \A i \in 0..n : i \in good
<1>. DEFINE bad == {i \in 0..n : i \notin good}
<1>1. SUFFICES ASSUME bad # {} PROVE FALSE
  OBVIOUS
<1>2. PICK i \in bad : \A j \in bad : i <= j
  <2>1. bad \in SUBSET Nat
    OBVIOUS
  <2>. QED
    BY <1>1, <2>1, LeastOf
<1>3. i \in 1..n /\ i - 1 \in 0..n /\ ~(i <= i - 1)
  OBVIOUS
<1>. QED
  BY <1>2, <1>3

LEMMA GreatestOf ==
  ASSUME NEW n \in Nat, NEW s \in SUBSET (1..n), s # {}
  PROVE  \E x \in s : \A y \in s : x >= y
<1>. DEFINE bounds == {u \in Nat : \A y \in s : u >= y}
<1>1. bounds \in SUBSET Nat /\ n \in bounds
  OBVIOUS
<1>2. PICK m \in bounds : \A u \in bounds : m <= u
  BY <1>1, LeastOf
<1>3. m \in s
  <2>1. SUFFICES ASSUME m \notin s PROVE FALSE
    OBVIOUS
  <2>2. m - 1 \in Nat /\ \A y \in s : m - 1 >= y
    <3>1. m \in Nat /\ \A y \in s : y \in 1..n /\ m >= y /\ y # m
      BY <2>1
    <3>2. \A y \in s : y \in Nat /\ y >= 1 /\ m - 1 >= y
      BY <3>1
    <3>3. PICK y : y \in s
      OBVIOUS
    <3>4. m - 1 \in Nat
      BY <3>1, <3>2, <3>3
    <3>. QED
      BY <3>2, <3>4
  <2>3. m - 1 \in bounds /\ ~(m <= m - 1)
    BY <2>2
  <2>. QED
    BY <1>2, <2>3
<1>. QED
  BY <1>3

\* The bodies of the loops of extractOg and scoreCompleteness.
Body(k, v, c) ==
  IF k.loop = "fill" THEN Fill(v, k.doc, k.source, c)
  ELSE IF k.loop = "og" THEN AddImage(v, k.doc, c)
  ELSE IF k.loop = "image" THEN FillImage(v, k.doc, k.source, c)
  ELSE Scored(v, k.card, c)

\* a has the states of loop k over cs, from b on.
IsLoop(k, b, cs, a) == a[0] = b /\ \A i \in 1..Len(cs) : a[i] = Body(k, a[i - 1], cs[i])

\* What FoldLeft chooses.
Top(s) == CHOOSE x \in s : \A y \in s : x >= y
Folded(k, b, cs, g) ==
  [s \in SUBSET DOMAIN cs |-> IF s = {} THEN b ELSE Body(k, g[s \ {Top(s)}], cs[Top(s)])]

LEMMA TopIs ==
  ASSUME NEW n \in Nat, NEW s \in SUBSET (1..(n + 1)), n + 1 \in s
  PROVE  Top(s) = n + 1
<1>1. \A y \in s : y \in Int /\ n + 1 >= y
  OBVIOUS
<1>2. \A x \in s : (\A y \in s : x >= y) => x = n + 1
  BY <1>1
<1>. QED
  BY <1>1, <1>2 DEF Top

LEMMA TopIn ==
  ASSUME NEW n \in Nat, NEW s \in SUBSET (1..n), s # {}
  PROVE  Top(s) \in s
BY GreatestOf DEF Top

LEMMA FoldedExists ==
  ASSUME NEW k, NEW b, NEW S, NEW cs \in Seq(S)
  PROVE  \E g : g = Folded(k, b, cs, g)
<1>. DEFINE Part(n, g) ==
              [s \in SUBSET (1..n) |->
                 IF s = {} THEN b ELSE Body(k, g[s \ {Top(s)}], cs[Top(s)])]
            good == {n \in 0..Len(cs) : \E g : g = Part(n, g)}
<1>1. Len(cs) \in Nat /\ DOMAIN cs = 1..Len(cs)
  OBVIOUS
<1>2. 0 \in good
  <2>1. [s \in SUBSET (1..0) |-> b] = Part(0, [s \in SUBSET (1..0) |-> b])
    OBVIOUS
  <2>. QED
    BY <1>1, <2>1
<1>3. ASSUME NEW m \in 1..Len(cs), m - 1 \in good PROVE m \in good
  <2>1. PICK n \in 0..Len(cs) : n = m - 1 /\ m = n + 1 /\ n \in Nat
    BY <1>1
  <2>2. PICK g : g = Part(n, g)
    BY <1>3, <2>1
  <2>3. \A s \in SUBSET (1..n) : g[s] = IF s = {} THEN b ELSE Body(k, g[s \ {Top(s)}], cs[Top(s)])
    BY <2>2
  <2>. DEFINE h == [s \in SUBSET (1..m) |->
                      IF m \in s THEN Body(k, g[s \ {m}], cs[m]) ELSE g[s]]
  <2>4. ASSUME NEW s \in SUBSET (1..m)
        PROVE  h[s] = IF s = {} THEN b ELSE Body(k, h[s \ {Top(s)}], cs[Top(s)])
    <3>1. CASE m \in s
      <4>1. Top(s) = m
        BY <2>1, <3>1, TopIs
      <4>2. s \ {m} \in SUBSET (1..m) /\ m \notin s \ {m}
        OBVIOUS
      <4>3. h[s \ {m}] = g[s \ {m}] /\ h[s] = Body(k, g[s \ {m}], cs[m])
        BY <3>1, <4>2
      <4>. HIDE DEF h
      <4>. QED
        BY <3>1, <4>1, <4>3
    <3>2. CASE m \notin s
      <4>1. s \in SUBSET (1..n)
        BY <2>1, <3>2
      <4>2. s # {} => Top(s) \in s
        BY <2>1, <4>1, TopIn
      <4>3. \A t \in SUBSET (1..n) : h[t] = g[t]
        BY <2>1
      <4>4. s \ {Top(s)} \in SUBSET (1..n)
        BY <4>1
      <4>. HIDE DEF h
      <4>. QED
        BY <2>3, <4>1, <4>3, <4>4
    <3>. QED
      BY <3>1, <3>2
  <2>5. h = Part(m, h)
    <3>1. h = [s \in SUBSET (1..m) |-> h[s]]
      OBVIOUS
    <3>. HIDE DEF h
    <3>. QED
      BY <2>4, <3>1
  <2>. HIDE DEF h, Part
  <2>6. \E f : f = Part(m, f)
    BY <2>5
  <2>. QED
    BY <1>1, <2>6
<1>. HIDE DEF good
<1>4. Len(cs) \in good
  <2>1. \A i \in 0..Len(cs) : i \in good
    BY <1>1, <1>2, <1>3, Climb
  <2>. QED
    BY <1>1, <2>1
<1>. QED
  BY <1>1, <1>4 DEF good, Folded

LEMMA FoldedIsLoop ==
  ASSUME NEW k, NEW b, NEW S, NEW cs \in Seq(S), NEW g, g = Folded(k, b, cs, g)
  PROVE  \E a : IsLoop(k, b, cs, a) /\ a[Len(cs)] = g[DOMAIN cs]
<1>. DEFINE a == [i \in 0..Len(cs) |-> g[1..i]]
<1>1. Len(cs) \in Nat /\ DOMAIN cs = 1..Len(cs)
  OBVIOUS
<1>2. \A s \in SUBSET (1..Len(cs)) :
        g[s] = IF s = {} THEN b ELSE Body(k, g[s \ {Top(s)}], cs[Top(s)])
  BY <1>1 DEF Folded
<1>3. a[0] = b
  <2>1. 1..0 = {} /\ {} \in SUBSET (1..Len(cs)) /\ 0 \in 0..Len(cs)
    BY <1>1
  <2>2. g[1..0] = b
    BY <1>2, <2>1
  <2>. QED
    BY <2>1, <2>2
<1>4. ASSUME NEW i \in 1..Len(cs) PROVE a[i] = Body(k, a[i - 1], cs[i])
  <2>1. Top(1..i) = i
    BY DEF Top
  <2>2. 1..i \in SUBSET (1..Len(cs)) /\ 1..i # {} /\ (1..i) \ {i} = 1..(i - 1)
    <3>1. i \in 1..i /\ \A j \in 1..i : j \in 1..Len(cs)
      BY <1>1
    <3>2. (1..i) \ {i} = 1..(i - 1)
      OBVIOUS
    <3>. QED
      BY <3>1, <3>2
  <2>3. g[1..i] = Body(k, g[1..(i - 1)], cs[i])
    BY <1>2, <2>1, <2>2
  <2>4. i \in 0..Len(cs) /\ i - 1 \in 0..Len(cs)
    BY <1>1
  <2>. QED
    BY <2>3, <2>4
<1>5. a[Len(cs)] = g[DOMAIN cs]
  BY <1>1
<1>. HIDE DEF a
<1>. QED
  BY <1>3, <1>4, <1>5 DEF IsLoop

\* The four loops.
LEMMA FillEachIsLoop ==
  ASSUME NEW v, NEW d, NEW source, NEW S, NEW cs \in Seq(S)
  PROVE  \E a : /\ a[0] = v /\ \A i \in 1..Len(cs) : a[i] = Fill(a[i - 1], d, source, cs[i])
                /\ FillEach(v, d, source, cs) = a[Len(cs)]
<1>. DEFINE k == [loop |-> "fill", doc |-> d, source |-> source]
            Rec(g) == [s \in SUBSET DOMAIN cs |->
                         IF s = {} THEN v ELSE Fill(g[s \ {Top(s)}], d, source, cs[Top(s)])]
            f == CHOOSE g : g = Rec(g)
<1>1. \A w, c : Body(k, w, c) = Fill(w, d, source, c)
  BY DEF Body
<1>2. \A g : Folded(k, v, cs, g) = Rec(g)
  <2>. HIDE DEF k
  <2>. QED
    BY <1>1 DEF Folded
<1>3. FillEach(v, d, source, cs) = f[DOMAIN cs]
  BY DEF FillEach, FoldLeft, MapThenFoldSet, Max, Top
<1>. HIDE DEF k
<1>4. \E g : g = Rec(g)
  <2>1. PICK g : g = Folded(k, v, cs, g)
    BY FoldedExists
  <2>2. g = Rec(g)
    BY <1>2, <2>1
  <2>. QED
    BY <2>2
<1>5. f = Rec(f)
  BY <1>4
<1>. HIDE DEF f
<1>6. f = Folded(k, v, cs, f)
  BY <1>2, <1>5
<1>7. PICK a : IsLoop(k, v, cs, a) /\ a[Len(cs)] = f[DOMAIN cs]
  BY <1>6, FoldedIsLoop
<1>. QED
  BY <1>1, <1>3, <1>7 DEF IsLoop

LEMMA OgImagesIsLoop ==
  ASSUME NEW d, NEW S, NEW cs \in Seq(S)
  PROVE  \E a : /\ a[0] = <<>> /\ \A i \in 1..Len(cs) : a[i] = AddImage(a[i - 1], d, cs[i])
                /\ OgImages(d, cs) = a[Len(cs)]
<1>. DEFINE k == [loop |-> "og", doc |-> d]
            Rec(g) == [s \in SUBSET DOMAIN cs |-> IF s = {} THEN <<>> ELSE AddImage(g[s \ {Top(s)}], d, cs[Top(s)])]
            f == CHOOSE g : g = Rec(g)
<1>1. \A w, c : Body(k, w, c) = AddImage(w, d, c)
  BY DEF Body
<1>2. \A g : Folded(k, <<>>, cs, g) = Rec(g)
  <2>. HIDE DEF k
  <2>. QED
    BY <1>1 DEF Folded
<1>3. OgImages(d, cs) = f[DOMAIN cs]
  BY DEF OgImages, FoldLeft, MapThenFoldSet, Max, Top
<1>. HIDE DEF k
<1>4. \E g : g = Rec(g)
  <2>1. PICK g : g = Folded(k, <<>>, cs, g)
    BY FoldedExists
  <2>2. g = Rec(g)
    BY <1>2, <2>1
  <2>. QED
    BY <2>2
<1>5. f = Rec(f)
  BY <1>4
<1>. HIDE DEF f
<1>6. f = Folded(k, <<>>, cs, f)
  BY <1>2, <1>5
<1>7. PICK a : IsLoop(k, <<>>, cs, a) /\ a[Len(cs)] = f[DOMAIN cs]
  BY <1>6, FoldedIsLoop
<1>. QED
  BY <1>1, <1>3, <1>7 DEF IsLoop

LEMMA FillImageEachIsLoop ==
  ASSUME NEW b, NEW d, NEW source, NEW S, NEW cs \in Seq(S)
  PROVE  \E a : /\ a[0] = b /\ \A i \in 1..Len(cs) : a[i] = FillImage(a[i - 1], d, source, cs[i])
                /\ FillImageEach(b, d, source, cs) = a[Len(cs)]
<1>. DEFINE k == [loop |-> "image", doc |-> d, source |-> source]
            Rec(g) == [s \in SUBSET DOMAIN cs |-> IF s = {} THEN b ELSE FillImage(g[s \ {Top(s)}], d, source, cs[Top(s)])]
            f == CHOOSE g : g = Rec(g)
<1>1. \A w, c : Body(k, w, c) = FillImage(w, d, source, c)
  BY DEF Body
<1>2. \A g : Folded(k, b, cs, g) = Rec(g)
  <2>. HIDE DEF k
  <2>. QED
    BY <1>1 DEF Folded
<1>3. FillImageEach(b, d, source, cs) = f[DOMAIN cs]
  BY DEF FillImageEach, FoldLeft, MapThenFoldSet, Max, Top
<1>. HIDE DEF k
<1>4. \E g : g = Rec(g)
  <2>1. PICK g : g = Folded(k, b, cs, g)
    BY FoldedExists
  <2>2. g = Rec(g)
    BY <1>2, <2>1
  <2>. QED
    BY <2>2
<1>5. f = Rec(f)
  BY <1>4
<1>. HIDE DEF f
<1>6. f = Folded(k, b, cs, f)
  BY <1>2, <1>5
<1>7. PICK a : IsLoop(k, b, cs, a) /\ a[Len(cs)] = f[DOMAIN cs]
  BY <1>6, FoldedIsLoop
<1>. QED
  BY <1>1, <1>3, <1>7 DEF IsLoop

ScoreOver(c, fs) == FoldLeft(LAMBDA s, f : Scored(s, c, f), 0, fs)

LEMMA ScoreIsLoop ==
  ASSUME NEW x, NEW S, NEW cs \in Seq(S)
  PROVE  \E a : /\ a[0] = 0 /\ \A i \in 1..Len(cs) : a[i] = Scored(a[i - 1], x, cs[i])
                /\ ScoreOver(x, cs) = a[Len(cs)]
<1>. DEFINE k == [loop |-> "score", card |-> x]
            Rec(g) == [s \in SUBSET DOMAIN cs |-> IF s = {} THEN 0 ELSE Scored(g[s \ {Top(s)}], x, cs[Top(s)])]
            f == CHOOSE g : g = Rec(g)
<1>1. \A w, c : Body(k, w, c) = Scored(w, x, c)
  BY DEF Body
<1>2. \A g : Folded(k, 0, cs, g) = Rec(g)
  <2>. HIDE DEF k
  <2>. QED
    BY <1>1 DEF Folded
<1>3. ScoreOver(x, cs) = f[DOMAIN cs]
  BY DEF ScoreOver, FoldLeft, MapThenFoldSet, Max, Top
<1>. HIDE DEF k
<1>4. \E g : g = Rec(g)
  <2>1. PICK g : g = Folded(k, 0, cs, g)
    BY FoldedExists
  <2>2. g = Rec(g)
    BY <1>2, <2>1
  <2>. QED
    BY <2>2
<1>5. f = Rec(f)
  BY <1>4
<1>. HIDE DEF f
<1>6. f = Folded(k, 0, cs, f)
  BY <1>2, <1>5
<1>7. PICK a : IsLoop(k, 0, cs, a) /\ a[Len(cs)] = f[DOMAIN cs]
  BY <1>6, FoldedIsLoop
<1>. QED
  BY <1>1, <1>3, <1>7 DEF IsLoop

\* scoreCompleteness adds the weights of the fields there are.
LEMMA ScoreIs ==
  ASSUME NEW x
  PROVE  Score(x) = (IF Has(x.title) THEN 40 ELSE 0) + (IF Has(x.description) THEN 30 ELSE 0)
                      + (IF Has(x.image) THEN 30 ELSE 0)
<1>0. <<"title", "description", "image">> \in Seq(Field)
  BY DEF Field
<1>1. PICK cs \in Seq(Field) : cs = <<"title", "description", "image">>
  BY <1>0
<1>2. Score(x) = ScoreOver(x, cs)
  BY <1>1 DEF Score, ScoreOver
<1>3. PICK a : /\ a[0] = 0 /\ \A i \in 1..Len(cs) : a[i] = Scored(a[i - 1], x, cs[i])
               /\ ScoreOver(x, cs) = a[Len(cs)]
  BY ScoreIsLoop
<1>4. Len(cs) = 3 /\ cs[1] = "title" /\ cs[2] = "description" /\ cs[3] = "image"
  BY <1>1
<1>5. /\ a[1] = Scored(0, x, "title") /\ a[2] = Scored(a[1], x, "description")
      /\ a[3] = Scored(a[2], x, "image") /\ ScoreOver(x, cs) = a[3]
  BY <1>3, <1>4
<1>. QED
  BY <1>2, <1>5 DEF Scored, Weight

----------------------------------------------------------------------------
(* What the loops find. *)

\* w is what has become of v once the candidates cs[1..n] of a source have been offered.
Filled(v, d, source, cs, n, w) ==
  \/ w = v /\ (Has(v) \/ \A i \in 1..n : ~IsValue(cs[i]))
  \/ /\ ~Has(v)
     /\ \E i \in 1..n : /\ IsValue(cs[i]) /\ \A j \in 1..(i - 1) : ~IsValue(cs[j])
                        /\ w = Value(d, source, cs[i])

LEMMA ValueIsSome ==
  ASSUME NEW d, NEW source, NEW c, IsValue(c)
  PROVE  Has(Value(d, source, c))
BY DEF Has, Value, NoValue, IsValue

\* One more candidate.
LEMMA FilledNext ==
  ASSUME NEW v, NEW d, NEW source, NEW cs, NEW n \in Nat \ {0}, NEW w,
         Filled(v, d, source, cs, n - 1, w)
  PROVE  Filled(v, d, source, cs, n, Fill(w, d, source, cs[n]))
<1>1. CASE w = v /\ (Has(v) \/ \A i \in 1..(n - 1) : ~IsValue(cs[i]))
  <2>1. CASE Has(v) \/ ~IsValue(cs[n])
    <3>1. Fill(w, d, source, cs[n]) = v
      BY <1>1, <2>1 DEF Fill
    <3>2. Has(v) \/ \A i \in 1..n : ~IsValue(cs[i])
      BY <1>1, <2>1
    <3>. QED
      BY <3>1, <3>2 DEF Filled
  <2>2. CASE ~Has(v) /\ IsValue(cs[n])
    <3>1. Fill(w, d, source, cs[n]) = Value(d, source, cs[n])
      BY <1>1, <2>2 DEF Fill
    <3>2. n \in 1..n /\ \A j \in 1..(n - 1) : ~IsValue(cs[j])
      BY <1>1, <2>2
    <3>. QED
      BY <2>2, <3>1, <3>2 DEF Filled
  <2>. QED
    BY <2>1, <2>2
<1>2. ASSUME ~Has(v), NEW i \in 1..(n - 1), IsValue(cs[i]),
             \A j \in 1..(i - 1) : ~IsValue(cs[j]), w = Value(d, source, cs[i])
      PROVE  Filled(v, d, source, cs, n, Fill(w, d, source, cs[n]))
  <2>1. Fill(w, d, source, cs[n]) = w
    BY <1>2, ValueIsSome DEF Fill
  <2>2. i \in 1..n
    OBVIOUS
  <2>. QED
    BY <1>2, <2>1, <2>2 DEF Filled
<1>. QED
  BY <1>1, <1>2 DEF Filled

LEMMA FilledNone ==
  ASSUME NEW v, NEW d, NEW source, NEW cs
  PROVE  Filled(v, d, source, cs, 0, v)
BY DEF Filled

LEMMA FillEachIs ==
  ASSUME NEW v, NEW d, NEW source, NEW S, NEW cs \in Seq(S)
  PROVE  Filled(v, d, source, cs, Len(cs), FillEach(v, d, source, cs))
<1>1. PICK a : /\ a[0] = v /\ \A i \in 1..Len(cs) : a[i] = Fill(a[i - 1], d, source, cs[i])
               /\ FillEach(v, d, source, cs) = a[Len(cs)]
  BY FillEachIsLoop
<1>. DEFINE good == {i \in 0..Len(cs) : Filled(v, d, source, cs, i, a[i])}
<1>2. Len(cs) \in Nat
  OBVIOUS
<1>3. 0 \in good
  BY <1>1, <1>2, FilledNone
<1>4. ASSUME NEW i \in 1..Len(cs), i - 1 \in good PROVE i \in good
  <2>1. i \in Nat \ {0} /\ i \in 0..Len(cs)
    BY <1>2
  <2>2. Filled(v, d, source, cs, i, Fill(a[i - 1], d, source, cs[i]))
    BY <1>4, <2>1, FilledNext
  <2>. QED
    BY <1>1, <2>1, <2>2
<1>. HIDE DEF good
<1>5. \A i \in 0..Len(cs) : i \in good
  BY <1>2, <1>3, <1>4, Climb
<1>. QED
  BY <1>1, <1>2, <1>5 DEF good

LEMMA FillIs ==
  ASSUME NEW v, NEW d, NEW source, NEW c
  PROVE  Filled(v, d, source, <<c>>, 1, Fill(v, d, source, c))
<1>1. 1 \in Nat \ {0} /\ <<c>>[1] = c
  OBVIOUS
<1>2. Filled(v, d, source, <<c>>, 1 - 1, v)
  BY FilledNone
<1>. QED
  BY <1>1, <1>2, FilledNext

----------------------------------------------------------------------------
(* Images.  The first of them is filled like any other field. *)

Doc == {"static", "dom", "oembed"}
Origin == {"og", "twitter", "jsonld", "html", "oembed"}
Found == [doc : Doc, source : Origin, value : Element]
Gallery(s) ==
  /\ s \in Seq(Found)
  /\ \A i \in 1..Len(s) : Has(s[i])
  /\ \A i, j \in 1..Len(s) : s[i].value = s[j].value => i = j
Leading(s) == IF s = <<>> THEN NoValue ELSE s[1]

LEMMA ValueType ==
  ASSUME NEW d \in Doc, NEW source \in Origin, NEW c \in Element
  PROVE  Value(d, source, c) \in Found /\ Value(d, source, c).value = c
BY DEF Value, Found

LEMMA AppendIs ==
  ASSUME NEW S, NEW s \in Seq(S), NEW x \in S
  PROVE  /\ Append(s, x) \in Seq(S) /\ Len(Append(s, x)) = Len(s) + 1 /\ Len(s) \in Nat
         /\ \A i \in 1..Len(s) : Append(s, x)[i] = s[i]
         /\ Append(s, x)[Len(s) + 1] = x
         /\ Append(s, x) # <<>>
OBVIOUS

\* One more image keeps them all different if none has its value.
LEMMA GalleryGrows ==
  ASSUME NEW s, Gallery(s), NEW x \in Found, Has(x),
         \A i \in 1..Len(s) : s[i].value # x.value
  PROVE  /\ Gallery(Append(s, x))
         /\ Leading(Append(s, x)) = IF Has(Leading(s)) THEN Leading(s) ELSE x
<1>. DEFINE t == Append(s, x)
<1>1. s \in Seq(Found)
  BY DEF Gallery
<1>2. /\ t \in Seq(Found) /\ Len(t) = Len(s) + 1 /\ Len(s) \in Nat
      /\ \A i \in 1..Len(s) : t[i] = s[i]
      /\ t[Len(s) + 1] = x /\ t # <<>>
  BY <1>1, AppendIs
<1>. HIDE DEF t
<1>3. \A i \in 1..Len(t) : i \in 1..Len(s) \/ i = Len(s) + 1
  BY <1>2
<1>4. \A i \in 1..Len(t) : Has(t[i])
  BY <1>2, <1>3 DEF Gallery
<1>5. ASSUME NEW i \in 1..Len(t), NEW j \in 1..Len(t), t[i].value = t[j].value PROVE i = j
  <2>1. CASE i \in 1..Len(s) /\ j \in 1..Len(s)
    BY <1>2, <1>5, <2>1 DEF Gallery
  <2>2. CASE i \in 1..Len(s) /\ j = Len(s) + 1
    BY <1>2, <1>5, <2>2
  <2>3. CASE i = Len(s) + 1 /\ j \in 1..Len(s)
    BY <1>2, <1>5, <2>3
  <2>. QED
    BY <1>3, <2>1, <2>2, <2>3
<1>6. Leading(t) = IF Has(Leading(s)) THEN Leading(s) ELSE x
  <2>1. CASE s = <<>>
    <3>1. Len(s) = 0 /\ ~Has(Leading(s))
      BY <2>1 DEF Leading, Has
    <3>. QED
      BY <1>2, <3>1 DEF Leading
  <2>2. CASE s # <<>>
    <3>1. 1 \in 1..Len(s)
      BY <1>1, <2>2
    <3>2. Has(s[1]) /\ t[1] = s[1]
      BY <1>2, <3>1 DEF Gallery
    <3>. QED
      BY <1>2, <2>2, <3>2 DEF Leading
  <2>. QED
    BY <2>1, <2>2
<1>. QED
  BY <1>2, <1>4, <1>5, <1>6 DEF Gallery, t

LEMMA LeadingIs ==
  ASSUME NEW s, Gallery(s)
  PROVE  Has(Leading(s)) <=> s # <<>>
<1>1. s # <<>> => 1 \in 1..Len(s)
  BY DEF Gallery
<1>. QED
  BY <1>1 DEF Gallery, Leading, Has

LEMMA NoImages == Gallery(<<>>) /\ Leading(<<>>) = NoValue
BY DEF Gallery, Leading

LEMMA AddImageIs ==
  ASSUME NEW s, Gallery(s), NEW d \in Doc, NEW c \in Element
  PROVE  /\ Gallery(AddImage(s, d, c))
         /\ Leading(AddImage(s, d, c)) = Fill(Leading(s), d, "og", c)
<1>. DEFINE x == Value(d, "og", c)
<1>1. x \in Found /\ x.value = c
  <2>1. "og" \in Origin
    BY DEF Origin
  <2>. QED
    BY <2>1, ValueType
<1>2. CASE IsValue(c) /\ \A i \in 1..Len(s) : s[i].value # c
  <2>1. AddImage(s, d, c) = Append(s, x) /\ Has(x)
    BY <1>2, ValueIsSome DEF AddImage
  <2>. HIDE DEF x
  <2>2. \A i \in 1..Len(s) : s[i].value # x.value
    BY <1>1, <1>2
  <2>3. /\ Gallery(Append(s, x))
        /\ Leading(Append(s, x)) = IF Has(Leading(s)) THEN Leading(s) ELSE x
    BY <1>1, <2>1, <2>2, GalleryGrows
  <2>4. Fill(Leading(s), d, "og", c) = IF Has(Leading(s)) THEN Leading(s) ELSE x
    BY <1>2 DEF Fill, x
  <2>. QED
    BY <2>1, <2>3, <2>4
<1>3. CASE ~IsValue(c)
  BY <1>3 DEF AddImage, Fill
<1>4. CASE IsValue(c) /\ \E i \in 1..Len(s) : s[i].value = c
  <2>1. s # <<>>
    BY <1>4
  <2>2. AddImage(s, d, c) = s
    BY <1>4 DEF AddImage
  <2>. QED
    BY <2>1, <2>2, LeadingIs DEF Fill
<1>. QED
  BY <1>2, <1>3, <1>4

LEMMA FillImageIs ==
  ASSUME NEW s, Gallery(s), NEW d \in Doc, NEW source \in Origin, NEW c \in Element
  PROVE  /\ Gallery(FillImage(s, d, source, c))
         /\ Leading(FillImage(s, d, source, c)) = Fill(Leading(s), d, source, c)
<1>. DEFINE x == Value(d, source, c)
<1>1. x \in Found
  BY ValueType
<1>2. CASE s # <<>> \/ ~IsValue(c)
  BY <1>2, LeadingIs DEF FillImage, Fill
<1>3. CASE s = <<>> /\ IsValue(c)
  <2>1. FillImage(s, d, source, c) = <<x>> /\ Has(x)
    BY <1>3, ValueIsSome DEF FillImage
  <2>2. Fill(Leading(s), d, source, c) = x
    BY <1>3 DEF Fill, Leading, Has
  <2>. HIDE DEF x
  <2>3. /\ <<x>> \in Seq(Found) /\ Len(<<x>>) = 1 /\ <<x>>[1] = x /\ <<x>> # <<>>
    BY <1>1
  <2>4. Gallery(<<x>>) /\ Leading(<<x>>) = x
    BY <2>1, <2>3 DEF Gallery, Leading
  <2>. QED
    BY <2>1, <2>2, <2>4
<1>. QED
  BY <1>2, <1>3

LEMMA OgImagesAre ==
  ASSUME NEW d \in Doc, NEW cs \in Seq(Element)
  PROVE  /\ Gallery(OgImages(d, cs))
         /\ Filled(NoValue, d, "og", cs, Len(cs), Leading(OgImages(d, cs)))
<1>1. PICK a : /\ a[0] = <<>> /\ \A i \in 1..Len(cs) : a[i] = AddImage(a[i - 1], d, cs[i])
               /\ OgImages(d, cs) = a[Len(cs)]
  BY OgImagesIsLoop
<1>. DEFINE good == {i \in 0..Len(cs) : /\ Gallery(a[i])
                                        /\ Filled(NoValue, d, "og", cs, i, Leading(a[i]))}
<1>2. Len(cs) \in Nat /\ \A i \in 1..Len(cs) : cs[i] \in Element
  OBVIOUS
<1>3. 0 \in good
  BY <1>1, <1>2, NoImages, FilledNone
<1>4. ASSUME NEW i \in 1..Len(cs), i - 1 \in good PROVE i \in good
  <2>1. i \in Nat \ {0} /\ i \in 0..Len(cs)
    BY <1>2
  <2>2. /\ Gallery(a[i]) /\ Leading(a[i]) = Fill(Leading(a[i - 1]), d, "og", cs[i])
    BY <1>1, <1>2, <1>4, AddImageIs
  <2>3. Filled(NoValue, d, "og", cs, i, Fill(Leading(a[i - 1]), d, "og", cs[i]))
    BY <1>4, <2>1, FilledNext
  <2>. QED
    BY <2>1, <2>2, <2>3
<1>. HIDE DEF good
<1>5. \A i \in 0..Len(cs) : i \in good
  BY <1>2, <1>3, <1>4, Climb
<1>. QED
  BY <1>1, <1>2, <1>5 DEF good

LEMMA FillImageEachAre ==
  ASSUME NEW b, Gallery(b), NEW d \in Doc, NEW source \in Origin, NEW cs \in Seq(Element)
  PROVE  /\ Gallery(FillImageEach(b, d, source, cs))
         /\ Filled(Leading(b), d, source, cs, Len(cs), Leading(FillImageEach(b, d, source, cs)))
<1>1. PICK a : /\ a[0] = b /\ \A i \in 1..Len(cs) : a[i] = FillImage(a[i - 1], d, source, cs[i])
               /\ FillImageEach(b, d, source, cs) = a[Len(cs)]
  BY FillImageEachIsLoop
<1>. DEFINE good == {i \in 0..Len(cs) : /\ Gallery(a[i])
                                        /\ Filled(Leading(b), d, source, cs, i, Leading(a[i]))}
<1>2. Len(cs) \in Nat /\ \A i \in 1..Len(cs) : cs[i] \in Element
  OBVIOUS
<1>3. 0 \in good
  BY <1>1, <1>2, FilledNone
<1>4. ASSUME NEW i \in 1..Len(cs), i - 1 \in good PROVE i \in good
  <2>1. i \in Nat \ {0} /\ i \in 0..Len(cs)
    BY <1>2
  <2>2. /\ Gallery(a[i]) /\ Leading(a[i]) = Fill(Leading(a[i - 1]), d, source, cs[i])
    BY <1>1, <1>2, <1>4, FillImageIs
  <2>3. Filled(Leading(b), d, source, cs, i, Fill(Leading(a[i - 1]), d, source, cs[i]))
    BY <1>4, <2>1, FilledNext
  <2>. QED
    BY <2>1, <2>2, <2>3
<1>. HIDE DEF good
<1>5. \A i \in 0..Len(cs) : i \in good
  BY <1>2, <1>3, <1>4, Climb
<1>. QED
  BY <1>1, <1>2, <1>5 DEF good

----------------------------------------------------------------------------
(* A document.  The sources are asked by rank. *)

Nothing(cs) == \A i \in 1..Len(cs) : ~IsValue(cs[i])
Hit(d, source, cs, w) ==
  /\ Has(w) /\ w.doc = d /\ w.source = source
  /\ \E i \in 1..Len(cs) : cs[i] = w.value /\ \A j \in 1..(i - 1) : ~IsValue(cs[j])

LEMMA FilledCases ==
  ASSUME NEW v, NEW d, NEW source, NEW cs, NEW w, Filled(v, d, source, cs, Len(cs), w)
  PROVE  IF Has(v) THEN w = v
         ELSE (w = NoValue /\ Nothing(cs)) \/ Hit(d, source, cs, w)
<1>1. CASE w = v /\ (Has(v) \/ \A i \in 1..Len(cs) : ~IsValue(cs[i]))
  BY <1>1 DEF Has, Nothing
<1>2. ASSUME ~Has(v), NEW i \in 1..Len(cs), IsValue(cs[i]),
             \A j \in 1..(i - 1) : ~IsValue(cs[j]), w = Value(d, source, cs[i])
      PROVE  Hit(d, source, cs, w)
  <2>1. Has(w)
    BY <1>2, ValueIsSome
  <2>2. w.doc = d /\ w.source = source /\ w.value = cs[i]
    BY <1>2 DEF Value
  <2>. QED
    BY <1>2, <2>1, <2>2 DEF Hit
<1>. QED
  BY <1>1, <1>2 DEF Filled

AllNothing(cs) == \A s \in DOMAIN Rank : Nothing(cs[s])
FirstHit(cs, d, w) ==
  \E s \in DOMAIN Rank : /\ Hit(d, s, cs[s], w)
                         /\ \A r \in DOMAIN Rank : Rank[r] < Rank[s] => Nothing(cs[r])

LEMMA ByRank ==
  ASSUME NEW cs, NEW d, NEW w1, NEW w2, NEW w3, NEW w4,
         Filled(NoValue, d, "og", cs.og, Len(cs.og), w1),
         Filled(w1, d, "twitter", cs.twitter, Len(cs.twitter), w2),
         Filled(w2, d, "jsonld", cs.jsonld, Len(cs.jsonld), w3),
         Filled(w3, d, "html", cs.html, Len(cs.html), w4)
  PROVE  (w4 = NoValue /\ AllNothing(cs)) \/ FirstHit(cs, d, w4)
<1>1. /\ \A s : s \in DOMAIN Rank <=> s \in {"og", "twitter", "jsonld", "html"}
      /\ Rank["og"] = 1 /\ Rank["twitter"] = 2 /\ Rank["jsonld"] = 3 /\ Rank["html"] = 4
  BY DEF Rank
<1>2. (w1 = NoValue /\ Nothing(cs["og"])) \/ Hit(d, "og", cs["og"], w1)
  BY FilledCases DEF Has
<1>3. IF Has(w1) THEN w2 = w1
      ELSE (w2 = NoValue /\ Nothing(cs["twitter"])) \/ Hit(d, "twitter", cs["twitter"], w2)
  BY FilledCases
<1>4. IF Has(w2) THEN w3 = w2
      ELSE (w3 = NoValue /\ Nothing(cs["jsonld"])) \/ Hit(d, "jsonld", cs["jsonld"], w3)
  BY FilledCases
<1>5. IF Has(w3) THEN w4 = w3
      ELSE (w4 = NoValue /\ Nothing(cs["html"])) \/ Hit(d, "html", cs["html"], w4)
  BY FilledCases
<1>6. \A s, c, w : Hit(d, s, c, w) => Has(w)
  BY DEF Hit
<1>7. ~Has(NoValue)
  BY DEF Has
<1>8. CASE Hit(d, "og", cs["og"], w1)
  <2>1. w4 = w1
    BY <1>3, <1>4, <1>5, <1>6, <1>8
  <2>. QED
    BY <1>1, <1>8, <2>1 DEF FirstHit
<1>9. CASE w1 = NoValue /\ Nothing(cs["og"])
  <2>1. CASE Hit(d, "twitter", cs["twitter"], w2)
    <3>1. w4 = w2
      BY <1>4, <1>5, <1>6, <2>1
    <3>. QED
      BY <1>1, <1>9, <2>1, <3>1 DEF FirstHit
  <2>2. CASE w2 = NoValue /\ Nothing(cs["twitter"])
    <3>1. CASE Hit(d, "jsonld", cs["jsonld"], w3)
      <4>1. w4 = w3
        BY <1>5, <1>6, <3>1
      <4>. QED
        BY <1>1, <1>9, <2>2, <3>1, <4>1 DEF FirstHit
    <3>2. CASE w3 = NoValue /\ Nothing(cs["jsonld"])
      <4>1. CASE Hit(d, "html", cs["html"], w4)
        BY <1>1, <1>9, <2>2, <3>2, <4>1 DEF FirstHit
      <4>2. CASE w4 = NoValue /\ Nothing(cs["html"])
        BY <1>1, <1>9, <2>2, <3>2, <4>2 DEF AllNothing
      <4>. QED
        BY <1>5, <1>7, <3>2, <4>1, <4>2
    <3>. QED
      BY <1>4, <1>7, <2>2, <3>1, <3>2
  <2>. QED
    BY <1>3, <1>7, <1>9, <2>1, <2>2
<1>. QED
  BY <1>2, <1>8, <1>9

\* What a document says of a field, as FirstOfferedWins puts it.
FromDoc(x, d, f, w) ==
  \/ w = NoValue /\ Empty(Offers(x, f))
  \/ Has(w) /\ w.doc = d /\ w.source \in DOMAIN Rank /\ FoundIn(Offers(x, f), w)

LEMMA FirstHitIsFound ==
  ASSUME NEW x, NEW f, NEW d, NEW w, NEW cs, cs = Offers(x, f),
         (w = NoValue /\ AllNothing(cs)) \/ FirstHit(cs, d, w)
  PROVE  FromDoc(x, d, f, w)
<1>1. CASE w = NoValue /\ AllNothing(cs)
  BY <1>1 DEF AllNothing, Nothing, FromDoc, Empty
<1>2. CASE FirstHit(cs, d, w)
  <2>1. PICK s \in DOMAIN Rank : /\ Hit(d, s, cs[s], w)
                                 /\ \A r \in DOMAIN Rank : Rank[r] < Rank[s] => Nothing(cs[r])
    BY <1>2 DEF FirstHit
  <2>2. Has(w) /\ w.doc = d /\ w.source = s
    BY <2>1 DEF Hit
  <2>3. PICK i \in 1..Len(cs[s]) : cs[s][i] = w.value /\ \A j \in 1..(i - 1) : ~IsValue(cs[s][j])
    BY <2>1 DEF Hit
  <2>4. ASSUME NEW r \in DOMAIN Rank, NEW j \in 1..Len(cs[r]),
               Rank[r] < Rank[s] \/ (r = s /\ j < i)
        PROVE  ~IsValue(cs[r][j])
    <3>1. CASE Rank[r] < Rank[s]
      BY <2>1, <3>1 DEF Nothing
    <3>2. CASE r = s /\ j < i
      <4>1. j \in 1..(i - 1)
        BY <3>2
      <4>. QED
        BY <2>3, <3>2, <4>1
    <3>. QED
      BY <2>4, <3>1, <3>2
  <2>5. FoundIn(Offers(x, f), w)
    BY <2>2, <2>3, <2>4 DEF FoundIn
  <2>. QED
    BY <2>2, <2>5 DEF FromDoc
<1>. QED
  BY <1>1, <1>2

LEMMA ItemsOf ==
  ASSUME NEW S, NEW s \in Seq(S)
  PROVE  Len(s) \in Nat /\ \A i \in 1..Len(s) : s[i] \in S
OBVIOUS

LEMMA TitleIs ==
  ASSUME NEW x \in Document, NEW d
  PROVE  FromDoc(x, d, "title", TitleOf(d, x))
<1>. DEFINE cs == Offers(x, "title")
            jl == x.title.jsonld
            og == Fill(NoValue, d, "og", x.title.og)
            tw == Fill(og, d, "twitter", x.title.twitter)
            ld == FillEach(tw, d, "jsonld", TitlesOf(jl))
            al == Fill(ld, d, "html", x.title.html)
<1>1. x.title \in [og : Element, twitter : Element,
                   jsonld : Seq([headline : Element, name : Element]), html : Element]
  BY DEF Document
<1>2. jl \in Seq([headline : Element, name : Element])
  BY <1>1
<1>3. TitlesOf(jl) \in Seq(Element)
  <2>1. \A i \in 1..Len(jl) : jl[i] \in [headline : Element, name : Element]
    BY <1>2, ItemsOf
  <2>2. \A i \in 1..Len(jl) : Or(jl[i].headline, jl[i].name) \in Element
    BY <2>1 DEF Or
  <2>3. Len(jl) \in Nat
    BY <1>2
  <2>. QED
    BY <2>2, <2>3 DEF TitlesOf
<1>4. /\ cs.og = <<x.title.og>> /\ cs.twitter = <<x.title.twitter>>
      /\ cs.jsonld = TitlesOf(jl) /\ cs.html = <<x.title.html>>
  BY DEF Offers
<1>5. TitleOf(d, x) = al
  BY DEF TitleOf
<1>6. Filled(tw, d, "jsonld", TitlesOf(jl), Len(TitlesOf(jl)), ld)
  BY <1>3, FillEachIs
<1>7. \A c : Len(<<c>>) = 1
  OBVIOUS
<1>8. /\ Filled(NoValue, d, "og", cs.og, Len(cs.og), og)
      /\ Filled(og, d, "twitter", cs.twitter, Len(cs.twitter), tw)
      /\ Filled(tw, d, "jsonld", cs.jsonld, Len(cs.jsonld), ld)
      /\ Filled(ld, d, "html", cs.html, Len(cs.html), al)
  <2>1. Filled(NoValue, d, "og", <<x.title.og>>, 1, og)
    BY FillIs
  <2>2. Filled(og, d, "twitter", <<x.title.twitter>>, 1, tw)
    BY FillIs
  <2>3. Filled(ld, d, "html", <<x.title.html>>, 1, al)
    BY FillIs
  <2>. HIDE DEF cs, og, tw, ld, al
  <2>. QED
    BY <1>4, <1>6, <1>7, <2>1, <2>2, <2>3
<1>. HIDE DEF og, tw, ld, al
<1>9. (al = NoValue /\ AllNothing(cs)) \/ FirstHit(cs, d, al)
  BY <1>8, ByRank
<1>. QED
  BY <1>5, <1>9, FirstHitIsFound

LEMMA DescriptionIs ==
  ASSUME NEW x \in Document, NEW d
  PROVE  FromDoc(x, d, "description", DescriptionOf(d, x))
<1>. DEFINE cs == Offers(x, "description")
            l == x.description
            og == Fill(NoValue, d, "og", l.og)
            tw == Fill(og, d, "twitter", l.twitter)
            ld == FillEach(tw, d, "jsonld", l.jsonld)
            al == Fill(ld, d, "html", l.html)
<1>1. l \in Lines
  BY DEF Document
<1>2. l.jsonld \in Seq(Element)
  BY <1>1 DEF Lines
<1>4. /\ cs.og = <<l.og>> /\ cs.twitter = <<l.twitter>>
      /\ cs.jsonld = l.jsonld /\ cs.html = <<l.html>>
  BY DEF Offers
<1>5. DescriptionOf(d, x) = al
  BY DEF DescriptionOf
<1>6. Filled(tw, d, "jsonld", l.jsonld, Len(l.jsonld), ld)
  BY <1>2, FillEachIs
<1>7. \A c : Len(<<c>>) = 1
  OBVIOUS
<1>8. /\ Filled(NoValue, d, "og", cs.og, Len(cs.og), og)
      /\ Filled(og, d, "twitter", cs.twitter, Len(cs.twitter), tw)
      /\ Filled(tw, d, "jsonld", cs.jsonld, Len(cs.jsonld), ld)
      /\ Filled(ld, d, "html", cs.html, Len(cs.html), al)
  <2>1. Filled(NoValue, d, "og", <<l.og>>, 1, og)
    BY FillIs
  <2>2. Filled(og, d, "twitter", <<l.twitter>>, 1, tw)
    BY FillIs
  <2>3. Filled(ld, d, "html", <<l.html>>, 1, al)
    BY FillIs
  <2>. HIDE DEF cs, og, tw, ld, al
  <2>. QED
    BY <1>4, <1>6, <1>7, <2>1, <2>2, <2>3
<1>. HIDE DEF og, tw, ld, al
<1>9. (al = NoValue /\ AllNothing(cs)) \/ FirstHit(cs, d, al)
  BY <1>8, ByRank
<1>. QED
  BY <1>5, <1>9, FirstHitIsFound

LEMMA ImagesAre ==
  ASSUME NEW x \in Document, NEW d \in Doc
  PROVE  /\ Gallery(ImagesOf(d, x))
         /\ FromDoc(x, d, "image", Leading(ImagesOf(d, x)))
<1>. DEFINE cs == Offers(x, "image")
            im == x.image
            a == Or(im.twitter.image, im.twitter.src)
            b == Or(im.html.img, Or(im.html.touchIcon, im.html.icon))
            og == OgImages(d, im.og)
            tw == FillImage(og, d, "twitter", a)
            ld == FillImageEach(tw, d, "jsonld", im.jsonld)
            al == FillImage(ld, d, "html", b)
<1>1. im \in [og : Seq(Element), twitter : [image : Element, src : Element],
              jsonld : Seq(Element),
              html : [img : Element, touchIcon : Element, icon : Element]]
  BY DEF Document
<1>2. im.og \in Seq(Element) /\ im.jsonld \in Seq(Element)
  BY <1>1
<1>3. a \in Element /\ b \in Element
  BY <1>1 DEF Or
<1>4. cs.og = im.og /\ cs.twitter = <<a>> /\ cs.jsonld = im.jsonld /\ cs.html = <<b>>
  BY DEF Offers
<1>5. ImagesOf(d, x) = al
  BY DEF ImagesOf
<1>6. {"og", "twitter", "jsonld", "html"} \subseteq Origin
  BY DEF Origin
<1>7. \A c : Len(<<c>>) = 1
  OBVIOUS
<1>. HIDE DEF cs, a, b, im
<1>8. Gallery(og) /\ Filled(NoValue, d, "og", im.og, Len(im.og), Leading(og))
  BY <1>2, OgImagesAre
<1>. HIDE DEF og
<1>9. Gallery(tw) /\ Filled(Leading(og), d, "twitter", <<a>>, 1, Leading(tw))
  <2>1. Gallery(tw) /\ Leading(tw) = Fill(Leading(og), d, "twitter", a)
    BY <1>3, <1>6, <1>8, FillImageIs
  <2>. QED
    BY <2>1, FillIs
<1>. HIDE DEF tw
<1>10. Gallery(ld) /\ Filled(Leading(tw), d, "jsonld", im.jsonld, Len(im.jsonld), Leading(ld))
  BY <1>2, <1>6, <1>9, FillImageEachAre
<1>. HIDE DEF ld
<1>11. Gallery(al) /\ Filled(Leading(ld), d, "html", <<b>>, 1, Leading(al))
  <2>1. Gallery(al) /\ Leading(al) = Fill(Leading(ld), d, "html", b)
    BY <1>3, <1>6, <1>10, FillImageIs
  <2>. QED
    BY <2>1, FillIs
<1>. HIDE DEF al
<1>12. /\ Filled(NoValue, d, "og", cs.og, Len(cs.og), Leading(og))
       /\ Filled(Leading(og), d, "twitter", cs.twitter, Len(cs.twitter), Leading(tw))
       /\ Filled(Leading(tw), d, "jsonld", cs.jsonld, Len(cs.jsonld), Leading(ld))
       /\ Filled(Leading(ld), d, "html", cs.html, Len(cs.html), Leading(al))
  BY <1>4, <1>7, <1>8, <1>9, <1>10, <1>11
<1>13. (Leading(al) = NoValue /\ AllNothing(cs)) \/ FirstHit(cs, d, Leading(al))
  BY <1>12, ByRank
<1>14. cs = Offers(x, "image")
  BY DEF cs
<1>15. FromDoc(x, d, "image", Leading(al))
  BY <1>13, <1>14, FirstHitIsFound
<1>. QED
  BY <1>5, <1>11, <1>15

\* The card of a document: every field the first value offered, and the image the first of
\* its images.
LEMMA CardIs ==
  ASSUME NEW x \in Document, NEW d \in Doc
  PROVE  /\ DOMAIN CardOf(d, x) = Field
         /\ \A f \in Field : FromDoc(x, d, f, CardOf(d, x)[f])
         /\ CardOf(d, x).image = Leading(ImagesOf(d, x))
         /\ Gallery(ImagesOf(d, x))
<1>1. /\ CardOf(d, x).title = TitleOf(d, x)
      /\ CardOf(d, x).description = DescriptionOf(d, x)
      /\ CardOf(d, x).image = Leading(ImagesOf(d, x))
      /\ DOMAIN CardOf(d, x) = {"title", "description", "image"}
  BY DEF CardOf, Leading
<1>2. \A f \in Field : FromDoc(x, d, f, CardOf(d, x)[f])
  <2>1. FromDoc(x, d, "title", CardOf(d, x)["title"])
    BY <1>1, TitleIs
  <2>2. FromDoc(x, d, "description", CardOf(d, x)["description"])
    BY <1>1, DescriptionIs
  <2>3. FromDoc(x, d, "image", CardOf(d, x)["image"])
    BY <1>1, ImagesAre
  <2>. QED
    BY <2>1, <2>2, <2>3 DEF Field
<1>. QED
  BY <1>1, <1>2, ImagesAre DEF Field

\* What says whether a value is there says it of its source as well.
LEMMA FromDocHas ==
  ASSUME NEW x, NEW d, NEW f, NEW w, FromDoc(x, d, f, w)
  PROVE  Has(w) <=> w.source # "none"
<1>1. "none" \notin DOMAIN Rank
  BY DEF Rank
<1>2. NoValue.source = "none"
  BY DEF NoValue
<1>. QED
  BY <1>1, <1>2 DEF FromDoc, Has

----------------------------------------------------------------------------
(* The invariant *)

\* FirstOfferedWins of one field, of the value v and the documents s, o and m.
FirstValid(f, v, s, o, m) ==
  /\ v.doc = "static" => FoundIn(Offers(s, f), v)
  /\ v.doc = "oembed" => Empty(Offers(s, f)) /\ v.value = FirstOembed(o, f)
  /\ v.doc = "dom" => (s = None \/ Empty(Offers(s, f))) /\ FoundIn(Offers(m, f), v)
  /\ v.doc \notin Doc => /\ s = None \/ Empty(Offers(s, f))
                         /\ m = None \/ Empty(Offers(m, f))
                         /\ o = None \/ FirstOembed(o, f) = Absent

SourcesTell == \A f \in Field : Has(card[f]) <=> card[f].source # "none"
Led == Gallery(images) /\ card.image = Leading(images)
Tallied == completeness = Score(card)
\* The page before it is answered is what the static document says.
Page ==
  pc \in {"oembed", "render"} =>
    /\ dom = None /\ oembed = None
    /\ static \in StaticDocs
    /\ \A f \in Field : FromDoc(static, "static", f, card[f])
Fresh == pc = "parse" => static = None /\ dom = None /\ oembed = None
Settled == pc = "done" => \A f \in Field : FirstValid(f, card[f], static, oembed, dom)
CardInv ==
  SourceMapTrue /\ SourcesTell /\ Led /\ Tallied /\ Page /\ Fresh /\ Settled

LEMMA SettledIs == Settled <=> FirstOfferedWins
<1>1. ASSUME NEW f, NEW v, NEW s, NEW o, NEW m
      PROVE  FirstValid(f, v, s, o, m)
             <=> CASE v.doc = "static" -> FoundIn(Offers(s, f), v)
                   [] v.doc = "oembed" -> Empty(Offers(s, f)) /\ v.value = FirstOembed(o, f)
                   [] v.doc = "dom" -> (s = None \/ Empty(Offers(s, f))) /\ FoundIn(Offers(m, f), v)
                   [] OTHER -> /\ s = None \/ Empty(Offers(s, f))
                               /\ m = None \/ Empty(Offers(m, f))
                               /\ o = None \/ FirstOembed(o, f) = Absent
  <2>1. CASE v.doc = "static"
    BY <2>1 DEF FirstValid, Doc
  <2>2. CASE v.doc = "oembed"
    BY <2>2 DEF FirstValid, Doc
  <2>3. CASE v.doc = "dom"
    BY <2>3 DEF FirstValid, Doc
  <2>4. CASE v.doc \notin Doc
    BY <2>4 DEF FirstValid, Doc
  <2>. QED
    BY <2>1, <2>2, <2>3, <2>4 DEF Doc
<1>. QED
  BY <1>1 DEF Settled, FirstOfferedWins, FirstOf

\* What only the first document was asked for.
LEMMA SettledByPage ==
  ASSUME NEW f, NEW v, NEW s, FromDoc(s, "static", f, v)
  PROVE  FirstValid(f, v, s, None, None)
<1>1. NoValue.doc = "none" /\ "none" \notin Doc
  BY DEF NoValue, Doc
<1>. QED
  BY <1>1 DEF FromDoc, FirstValid, Doc

\* What oEmbed had for a field, which the author may fill for want of a description.
LEMMA OembedIs ==
  ASSUME NEW a, NEW f \in Field
  PROVE  OembedCard(a)[f] = FirstOembed(a, f)
<1>1. ASSUME NEW c PROVE Text(c) = IF c \in {Absent, Blank} THEN Absent ELSE c
  BY DEF Text, Absent, Blank
<1>2. ASSUME NEW c
      PROVE  Text(c) = LET cs == <<c>>
                           full == {i \in 1..Len(cs) : cs[i] \notin {Absent, Blank}}
                       IN IF full = {} THEN Absent ELSE cs[Min(full)]
  <2>. DEFINE cs == <<c>>
              full == {i \in 1..Len(cs) : cs[i] \notin {Absent, Blank}}
  <2>1. Len(cs) = 1 /\ cs[1] = c
    OBVIOUS
  <2>2. CASE c \in {Absent, Blank}
    <3>1. full = {}
      BY <2>1, <2>2
    <3>. QED
      BY <1>1, <2>2, <3>1
  <2>3. CASE c \notin {Absent, Blank}
    <3>1. full = {1}
      BY <2>1, <2>3
    <3>2. Min({1}) = 1
      BY DEF Min
    <3>. QED
      BY <1>1, <2>1, <2>3, <3>1, <3>2
  <2>. QED
    BY <2>2, <2>3
<1>3. Or(Text(a.description), Text(a.author))
        = LET cs == <<a.description, a.author>>
              full == {i \in 1..Len(cs) : cs[i] \notin {Absent, Blank}}
          IN IF full = {} THEN Absent ELSE cs[Min(full)]
  <2>. DEFINE cs == <<a.description, a.author>>
              full == {i \in 1..Len(cs) : cs[i] \notin {Absent, Blank}}
  <2>1. Len(cs) = 2 /\ cs[1] = a.description /\ cs[2] = a.author
    OBVIOUS
  <2>2. CASE a.description \notin {Absent, Blank}
    <3>1. 1 \in full /\ \A i \in full : 1 <= i
      BY <2>1, <2>2
    <3>2. Min(full) = 1
      <4>. HIDE DEF full
      <4>. QED
        BY <3>1, LeastOf DEF Min
    <3>3. Or(Text(a.description), Text(a.author)) = a.description
      BY <1>1, <2>2 DEF Or
    <3>. QED
      BY <2>1, <3>1, <3>2, <3>3
  <2>3. CASE a.description \in {Absent, Blank} /\ a.author \notin {Absent, Blank}
    <3>1. full = {2}
      BY <2>1, <2>3
    <3>2. Min({2}) = 2
      BY DEF Min
    <3>3. Or(Text(a.description), Text(a.author)) = a.author
      BY <1>1, <2>3 DEF Or
    <3>. QED
      BY <2>1, <3>1, <3>2, <3>3
  <2>4. CASE a.description \in {Absent, Blank} /\ a.author \in {Absent, Blank}
    <3>1. full = {}
      BY <2>1, <2>4
    <3>2. Or(Text(a.description), Text(a.author)) = Absent
      BY <1>1, <2>4 DEF Or
    <3>. QED
      BY <3>1, <3>2
  <2>. QED
    BY <2>2, <2>3, <2>4
<1>4. CASE f = "title"
  BY <1>2, <1>4 DEF OembedCard, FirstOembed
<1>5. CASE f = "description"
  BY <1>3, <1>5 DEF OembedCard, FirstOembed
<1>6. CASE f = "image"
  BY <1>2, <1>6 DEF OembedCard, FirstOembed
<1>. QED
  BY <1>4, <1>5, <1>6 DEF Field

LEMMA InitInv == Init => CardInv
<1>. SUFFICES ASSUME Init PROVE CardInv
  OBVIOUS
<1>1. \A f \in Field : card[f] = NoValue /\ smap[f] = "none"
  BY DEF Init
<1>2. NoValue.source = "none" /\ ~Has(NoValue)
  BY DEF NoValue, Has
<1>3. SourceMapTrue /\ SourcesTell
  BY <1>1, <1>2 DEF SourceMapTrue, SourcesTell
<1>4. "title" \in Field /\ "description" \in Field /\ "image" \in Field
  BY DEF Field
<1>5. Led
  BY <1>1, <1>4, NoImages DEF Led, Init
<1>6. Tallied
  <2>1. Score(card) = 0
    BY <1>1, <1>2, <1>4, ScoreIs
  <2>. QED
    BY <2>1 DEF Tallied, Init
<1>7. Page /\ Fresh /\ Settled
  BY DEF Init, Page, Fresh, Settled
<1>. QED
  BY <1>3, <1>5, <1>6, <1>7 DEF CardInv

\* A page that is all one document's.
LEMMA OneDocument ==
  ASSUME NEW x \in Document, NEW d \in Doc,
         card' = CardOf(d, x), images' = ImagesOf(d, x), smap' = SourcesOf(card'),
         completeness' = Score(card')
  PROVE  /\ (SourceMapTrue /\ SourcesTell /\ Led /\ Tallied)'
         /\ \A f \in Field : FromDoc(x, d, f, card'[f])
<1>1. \A f \in Field : FromDoc(x, d, f, card'[f])
  BY CardIs
<1>2. SourceMapTrue'
  BY DEF SourceMapTrue, SourcesOf
<1>3. SourcesTell'
  BY <1>1, FromDocHas DEF SourcesTell
<1>4. Led'
  BY CardIs DEF Led
<1>. QED
  BY <1>1, <1>2, <1>3, <1>4 DEF Tallied

LEMMA StepParse == CardInv /\ Parse => CardInv'
<1>. SUFFICES ASSUME CardInv, Parse PROVE CardInv'
  OBVIOUS
<1>1. PICK x \in StaticDocs :
        /\ card' = CardOf("static", x) /\ images' = ImagesOf("static", x)
        /\ smap' = SourcesOf(card') /\ completeness' = Score(card') /\ static' = x
  BY DEF Parse
<1>2. pc = "parse" /\ pc' \in {"done", "oembed", "render"}
  BY DEF Parse, Decisions
<1>3. dom' = None /\ oembed' = None
  BY <1>2 DEF Parse, CardInv, Fresh
<1>4. x \in Document /\ "static" \in Doc
  BY ExtractionAssumption DEF Doc
<1>5. /\ (SourceMapTrue /\ SourcesTell /\ Led /\ Tallied)'
      /\ \A f \in Field : FromDoc(x, "static", f, card'[f])
  BY <1>1, <1>4, OneDocument
<1>6. Page'
  BY <1>1, <1>3, <1>5 DEF Page
<1>7. Fresh'
  BY <1>2 DEF Fresh
<1>8. Settled'
  BY <1>1, <1>3, <1>5, SettledByPage DEF Settled
<1>. QED
  BY <1>5, <1>6, <1>7, <1>8 DEF CardInv

LEMMA StepRecover == CardInv /\ Recover => CardInv'
<1>. SUFFICES ASSUME CardInv, Recover PROVE CardInv'
  OBVIOUS
<1>1. PICK x \in RenderedDocs :
        /\ card' = CardOf("dom", x) /\ images' = ImagesOf("dom", x)
        /\ smap' = SourcesOf(card') /\ completeness' = Score(card') /\ dom' = x
  BY DEF Recover
<1>2. pc = "parse" /\ pc' = "done"
  BY DEF Recover
<1>3. static' = None /\ oembed' = None
  BY <1>2 DEF Recover, CardInv, Fresh
<1>4. x \in Document /\ "dom" \in Doc
  BY ExtractionAssumption DEF Doc
<1>5. /\ (SourceMapTrue /\ SourcesTell /\ Led /\ Tallied)'
      /\ \A f \in Field : FromDoc(x, "dom", f, card'[f])
  BY <1>1, <1>4, OneDocument
<1>6. Page' /\ Fresh'
  BY <1>2 DEF Page, Fresh
<1>7. ASSUME NEW f \in Field PROVE FirstValid(f, card'[f], None, None, x)
  <2>1. FromDoc(x, "dom", f, card'[f])
    BY <1>5
  <2>2. NoValue.doc = "none"
    BY DEF NoValue
  <2>. QED
    BY <2>1, <2>2 DEF FromDoc, FirstValid, Doc
<1>8. Settled'
  BY <1>1, <1>3, <1>7 DEF Settled
<1>. QED
  BY <1>5, <1>6, <1>8 DEF CardInv

\* oEmbed fills a field that is empty, and leaves the others alone.
LEMMA FillInIs ==
  ASSUME NEW f, NEW v, NEW c, NEW s, NEW a, FromDoc(s, "static", f, v),
         c = FirstOembed(a, f)
  PROVE  /\ FirstValid(f, FillIn(v, c), s, a, None)
         /\ Has(FillIn(v, c)) <=> FillIn(v, c).source # "none"
         /\ Has(v) => FillIn(v, c) = v
         /\ FillIn(v, c) # v => v = NoValue /\ c # Absent /\ FillIn(v, c) = Value("oembed", "oembed", c)
<1>1. v = NoValue \/ Has(v)
  BY DEF FromDoc
<1>2. NoValue.doc = "none" /\ NoValue.source = "none" /\ ~Has(NoValue)
  BY DEF NoValue, Has
<1>3. CASE Has(v)
  <2>1. FillIn(v, c) = v
    BY <1>3 DEF FillIn
  <2>2. v.doc = "static" /\ FoundIn(Offers(s, f), v)
    BY <1>2, <1>3 DEF FromDoc
  <2>. QED
    BY <1>3, <2>1, <2>2, FromDocHas DEF FirstValid, Doc
<1>4. CASE v = NoValue /\ c = Absent
  <2>1. FillIn(v, c) = NoValue /\ Empty(Offers(s, f))
    BY <1>2, <1>4 DEF FillIn, FromDoc
  <2>. QED
    BY <1>2, <1>4, <2>1 DEF FirstValid, Doc
<1>5. CASE v = NoValue /\ c # Absent
  <2>. DEFINE w == Value("oembed", "oembed", c)
  <2>1. FillIn(v, c) = w /\ Empty(Offers(s, f))
    BY <1>2, <1>5 DEF FillIn, FromDoc
  <2>2. w.doc = "oembed" /\ w.source = "oembed" /\ w.value = c /\ Has(w)
    BY <1>5 DEF Value, Has, NoValue
  <2>. HIDE DEF w
  <2>3. FirstValid(f, w, s, a, None)
    BY <2>1, <2>2 DEF FirstValid, Doc
  <2>4. FillIn(v, c).source = "oembed" /\ Has(FillIn(v, c)) /\ FirstValid(f, FillIn(v, c), s, a, None)
    BY <2>1, <2>2, <2>3
  <2>5. ~Has(v)
    BY <1>2, <1>5
  <2>. QED
    BY <1>5, <2>1, <2>4, <2>5 DEF w
<1>. QED
  BY <1>1, <1>3, <1>4, <1>5

LEMMA StepOembed == CardInv /\ Oembed => CardInv'
<1>. SUFFICES ASSUME CardInv, Oembed PROVE CardInv'
  OBVIOUS
<1>1. pc = "oembed" /\ dom = None /\ oembed = None /\ static \in StaticDocs
  BY DEF Oembed, CardInv, Page
<1>2. \A f \in Field : FromDoc(static, "static", f, card[f])
  BY <1>1 DEF CardInv, Page
<1>3. CASE pc' = "render" /\ UNCHANGED <<card, images, smap, completeness, read>>
  <2>1. /\ card' = card /\ images' = images /\ smap' = smap /\ completeness' = completeness
        /\ static' = static /\ dom' = dom /\ oembed' = oembed
    BY <1>3 DEF read
  <2>2. (SourceMapTrue /\ SourcesTell /\ Led /\ Tallied)'
    BY <2>1 DEF CardInv, SourceMapTrue, SourcesTell, Led, Tallied
  <2>3. Page'
    BY <1>1, <1>2, <2>1 DEF Page
  <2>4. Fresh' /\ Settled'
    BY <1>3 DEF Fresh, Settled
  <2>. QED
    BY <2>2, <2>3, <2>4 DEF CardInv
<1>4. ASSUME NEW a \in OembedCards, NEW c, c = OembedCard(a),
             card' = [f \in Field |-> FillIn(card[f], c[f])],
             images' = (IF card'.image = card.image THEN images
                        ELSE Append(images, card'.image)),
             smap' = [f \in Field |-> IF card'[f] # card[f] THEN "oembed" ELSE smap[f]],
             oembed' = a, completeness' = OembedScore, pc' = "done",
             UNCHANGED <<static, dom>>
      PROVE  CardInv'
  <2>1. ASSUME NEW f \in Field
        PROVE  /\ card'[f] = FillIn(card[f], c[f]) /\ c[f] = FirstOembed(a, f)
               /\ FirstValid(f, card'[f], static, a, None)
               /\ Has(card'[f]) <=> card'[f].source # "none"
               /\ Has(card[f]) => card'[f] = card[f]
               /\ card'[f] # card[f] => /\ card[f] = NoValue /\ c[f] # Absent
                                        /\ card'[f] = Value("oembed", "oembed", c[f])
    <3>1. card'[f] = FillIn(card[f], c[f]) /\ c[f] = FirstOembed(a, f)
      BY <1>4, OembedIs
    <3>2. FromDoc(static, "static", f, card[f])
      BY <1>2
    <3>. QED
      BY <3>1, <3>2, FillInIs
  <2>2. SourceMapTrue'
    <3>1. ASSUME NEW f \in Field PROVE smap'[f] = card'[f].source
      <4>1. smap'[f] = IF card'[f] # card[f] THEN "oembed" ELSE smap[f]
        BY <1>4
      <4>2. smap[f] = card[f].source
        BY DEF CardInv, SourceMapTrue
      <4>3. \A e : Value("oembed", "oembed", e).source = "oembed"
        BY DEF Value
      <4>. QED
        BY <2>1, <4>1, <4>2, <4>3
    <3>. QED
      BY <3>1 DEF SourceMapTrue
  <2>3. SourcesTell'
    BY <2>1 DEF SourcesTell
  <2>4. Tallied'
    BY <1>4 DEF Tallied, OembedScore
  <2>5. Led'
    <3>1. "image" \in Field /\ "oembed" \in Doc /\ "oembed" \in Origin
      BY DEF Field, Doc, Origin
    <3>2. CASE card'.image = card.image
      BY <1>4, <3>2 DEF CardInv, Led
    <3>3. CASE card'.image # card.image
      <4>1. card.image = NoValue /\ c.image # Absent /\ card'.image = Value("oembed", "oembed", c.image)
        BY <2>1, <3>1, <3>3
      <4>2. images = <<>>
        <5>1. ~Has(Leading(images))
          BY <4>1 DEF CardInv, Led, Has
        <5>. QED
          BY <5>1, LeadingIs DEF CardInv, Led
      <4>3. c.image \in Element
        <5>1. a \in [title : Element, description : Element, author : Element, thumbnail : Element]
          BY ExtractionAssumption
        <5>2. a.thumbnail \in Element /\ c.image = Text(a.thumbnail)
          BY <1>4, <5>1 DEF OembedCard
        <5>. QED
          BY <4>1, <5>2 DEF Text
      <4>. DEFINE v == card'.image
      <4>4. v \in Found /\ Has(v)
        <5>1. v \in Found
          BY <3>1, <4>1, <4>3, ValueType
        <5>2. v.doc = "oembed"
          BY <4>1 DEF Value
        <5>. QED
          BY <5>1, <5>2 DEF Has, NoValue
      <4>5. images' = Append(images, v)
        BY <1>4, <3>3
      <4>. HIDE DEF v
      <4>6. Gallery(images) /\ \A i \in 1..Len(images) : images[i].value # v.value
        BY <4>2, NoImages
      <4>7. /\ Gallery(Append(images, v))
            /\ Leading(Append(images, v)) = IF Has(Leading(images)) THEN Leading(images) ELSE v
        BY <4>4, <4>6, GalleryGrows
      <4>8. ~Has(Leading(images))
        BY <4>2, NoImages DEF Has
      <4>. QED
        BY <4>5, <4>7, <4>8 DEF Led, v
    <3>. QED
      BY <3>2, <3>3
  <2>6. Page' /\ Fresh'
    BY <1>4 DEF Page, Fresh
  <2>7. Settled'
    BY <1>1, <1>4, <2>1 DEF Settled
  <2>. QED
    BY <2>2, <2>3, <2>4, <2>5, <2>6, <2>7 DEF CardInv
<1>. QED
  BY <1>3, <1>4 DEF Oembed

\* A page that is answered as it stands.
LEMMA StepAsIs ==
  ASSUME CardInv, card' = card, images' = images, smap' = smap,
         completeness' = completeness, static' = static, dom' = dom, oembed' = oembed,
         pc' = pc \/ (pc = "render" /\ pc' = "done")
  PROVE  CardInv'
<1>1. (SourceMapTrue /\ SourcesTell /\ Led /\ Tallied)'
  BY DEF CardInv, SourceMapTrue, SourcesTell, Led, Tallied
<1>2. Page' /\ Fresh'
  BY DEF CardInv, Page, Fresh
<1>3. Settled'
  <2>1. CASE pc' = pc
    BY <2>1 DEF CardInv, Settled
  <2>2. CASE pc = "render"
    <3>1. dom = None /\ oembed = None /\ \A f \in Field : FromDoc(static, "static", f, card[f])
      BY <2>2 DEF CardInv, Page
    <3>. QED
      BY <3>1, SettledByPage DEF Settled
  <2>. QED
    BY <2>1, <2>2
<1>. QED
  BY <1>1, <1>2, <1>3 DEF CardInv

\* The rendered document fills a field that is empty.
LEMMA MergeIs ==
  ASSUME NEW f, NEW v, NEW h, NEW s, NEW x, FromDoc(s, "static", f, v),
         FromDoc(x, "dom", f, h)
  PROVE  FirstValid(f, IF Has(v) THEN v ELSE h, s, None, x)
<1>1. NoValue.doc = "none" /\ ~Has(NoValue)
  BY DEF NoValue, Has
<1>2. CASE Has(v)
  <2>1. v.doc = "static" /\ FoundIn(Offers(s, f), v)
    BY <1>1, <1>2 DEF FromDoc
  <2>. QED
    BY <1>2, <2>1 DEF FirstValid, Doc
<1>3. CASE ~Has(v)
  <2>1. Empty(Offers(s, f))
    BY <1>3 DEF FromDoc
  <2>2. CASE h = NoValue /\ Empty(Offers(x, f))
    BY <1>1, <1>3, <2>1, <2>2 DEF FirstValid, Doc
  <2>3. CASE h.doc = "dom" /\ FoundIn(Offers(x, f), h)
    BY <1>3, <2>1, <2>3 DEF FirstValid, Doc
  <2>. QED
    BY <2>2, <2>3 DEF FromDoc
<1>. QED
  BY <1>2, <1>3

LEMMA StepRender == CardInv /\ Render => CardInv'
<1>. SUFFICES ASSUME CardInv, Render PROVE CardInv'
  OBVIOUS
<1>1. /\ pc = "render" /\ pc' = "done" /\ dom = None /\ oembed = None
      /\ \A f \in Field : FromDoc(static, "static", f, card[f])
  BY DEF Render, CardInv, Page
<1>2. CASE UNCHANGED <<card, images, smap, completeness, read>>
  <2>1. /\ card' = card /\ images' = images /\ smap' = smap /\ completeness' = completeness
        /\ static' = static /\ dom' = dom /\ oembed' = oembed
    BY <1>2 DEF read
  <2>. QED
    BY <1>1, <2>1, StepAsIs
<1>3. ASSUME NEW x \in RenderedDocs, NEW hl, hl = CardOf("dom", x),
             card' = MergeFill(card, hl), images' = MergeImages(images, ImagesOf("dom", x)),
             smap' = MergeSources(smap, SourcesOf(hl)), completeness' = Score(card'),
             dom' = x, UNCHANGED <<static, oembed>>
      PROVE  CardInv'
  <2>1. x \in Document /\ "dom" \in Doc
    BY ExtractionAssumption DEF Doc
  <2>2. /\ \A f \in Field : FromDoc(x, "dom", f, hl[f])
        /\ hl.image = Leading(ImagesOf("dom", x)) /\ Gallery(ImagesOf("dom", x))
    BY <1>3, <2>1, CardIs
  <2>3. \A f \in Field : card'[f] = IF Has(card[f]) THEN card[f] ELSE hl[f]
    BY <1>3 DEF MergeFill
  <2>4. SourceMapTrue'
    <3>1. ASSUME NEW f \in Field PROVE smap'[f] = card'[f].source
      <4>1. smap[f] = card[f].source /\ (Has(card[f]) <=> card[f].source # "none")
        BY DEF CardInv, SourceMapTrue, SourcesTell
      <4>2. smap'[f] = IF smap[f] # "none" THEN smap[f] ELSE hl[f].source
        BY <1>3 DEF MergeSources, SourcesOf
      <4>. QED
        BY <2>3, <4>1, <4>2
    <3>. QED
      BY <3>1 DEF SourceMapTrue
  <2>5. SourcesTell'
    <3>1. \A f \in Field : Has(hl[f]) <=> hl[f].source # "none"
      BY <2>2, FromDocHas
    <3>. QED
      BY <2>3, <3>1 DEF CardInv, SourcesTell
  <2>6. Led'
    <3>1. card'.image = IF Has(card.image) THEN card.image ELSE hl.image
      BY <2>3 DEF Field
    <3>2. Gallery(images) /\ card.image = Leading(images)
      BY DEF CardInv, Led
    <3>3. images' = IF images = <<>> THEN ImagesOf("dom", x) ELSE images
      BY <1>3 DEF MergeImages
    <3>4. Has(card.image) <=> images # <<>>
      BY <3>2, LeadingIs
    <3>. QED
      BY <2>2, <3>1, <3>2, <3>3, <3>4 DEF Led
  <2>7. Tallied'
    BY <1>3 DEF Tallied
  <2>8. Page' /\ Fresh'
    BY <1>1 DEF Page, Fresh
  <2>9. Settled'
    <3>1. ASSUME NEW f \in Field PROVE FirstValid(f, card'[f], static, None, x)
      <4>1. FromDoc(static, "static", f, card[f]) /\ FromDoc(x, "dom", f, hl[f])
        BY <1>1, <2>2
      <4>2. FirstValid(f, IF Has(card[f]) THEN card[f] ELSE hl[f], static, None, x)
        BY <4>1, MergeIs
      <4>. QED
        BY <2>3, <4>2
    <3>2. static' = static /\ oembed' = None /\ dom' = x
      BY <1>1, <1>3
    <3>. QED
      BY <3>1, <3>2 DEF Settled
  <2>. QED
    BY <2>4, <2>5, <2>6, <2>7, <2>8, <2>9 DEF CardInv
<1>. QED
  BY <1>2, <1>3 DEF Render

LEMMA StepStill == CardInv /\ UNCHANGED vars => CardInv'
<1>1. UNCHANGED vars => /\ card' = card /\ images' = images /\ smap' = smap
                        /\ completeness' = completeness /\ static' = static
                        /\ dom' = dom /\ oembed' = oembed /\ pc' = pc
  BY DEF vars, read
<1>. QED
  BY <1>1, StepAsIs

LEMMA InvHolds == Spec => []CardInv
<1>1. CardInv /\ [Next]_vars => CardInv'
  <2>. SUFFICES ASSUME CardInv, [Next]_vars PROVE CardInv'
    OBVIOUS
  <2>1. CASE Parse
    BY <2>1, StepParse
  <2>2. CASE Oembed
    BY <2>2, StepOembed
  <2>3. CASE Render
    BY <2>3, StepRender
  <2>4. CASE Recover
    BY <2>4, StepRecover
  <2>5. CASE UNCHANGED vars
    BY <2>5, StepStill
  <2>6. CASE Finished
    BY <2>5, <2>6 DEF Finished
  <2>. QED
    BY <2>1, <2>2, <2>3, <2>4, <2>5, <2>6 DEF Next
<1>. QED
  BY <1>1, InitInv, PTL DEF Spec

----------------------------------------------------------------------------
(* Theorems *)

\* Through the three merges the source map names, for every field, the source its value
\* came from.
THEOREM SourceMapIsTrue == Spec => []SourceMapTrue
<1>1. CardInv => SourceMapTrue
  BY DEF CardInv
<1>. QED
  BY <1>1, InvHolds, PTL

\* The image of the card leads the images, which name no image twice, however many
\* documents they come from.
THEOREM ImageLeads == Spec => []ImageLeadsImages
<1>1. CardInv => ImageLeadsImages
  BY DEF CardInv, Led, Gallery, Leading, ImageLeadsImages
<1>. QED
  BY <1>1, InvHolds, PTL

\* The score that decides the escalation, the status and the TTL is that of the card as
\* it stands, after every fill.
THEOREM ScoreIsCurrent == Spec => []ScoreIsOfTheCard
<1>1. CardInv => ScoreIsOfTheCard
  BY ScoreIs DEF CardInv, Tallied, ScoreIsOfTheCard
<1>. QED
  BY <1>1, InvHolds, PTL

\* Every field of an answered card is the first value that was offered: by document, then by
\* rank of the source, then by place; and a field is empty only if nobody offered one.  The
\* loops over what is offered are taken apart for sequences of every length.
THEOREM FirstOfferedIsTaken == Spec => []FirstOfferedWins
<1>1. CardInv => FirstOfferedWins
  BY SettledIs DEF CardInv
<1>. QED
  BY <1>1, InvHolds, PTL
=============================================================================
