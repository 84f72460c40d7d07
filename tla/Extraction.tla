----------------------------- MODULE Extraction -----------------------------
(***************************************************************************)
(* How a card is put together: the fallbacks of extractOg (service/src/    *)
(* extract/extract-og.ts) over the sources of a document, and what fetchOg *)
(* fills in from oEmbed and from the rendered document (orchestrator.ts    *)
(* 341-408).  A value is named by where it stands, so that the card tells  *)
(* where each field came from.                                             *)
(***************************************************************************)
EXTENDS Integers, SequencesExt

CONSTANTS
  StaticDocs,   \* documents of the static fetch
  RenderedDocs, \* documents of the browser
  OembedCards,  \* what the provider answers: the fields it has
  None          \* a model value: not read

\* What an element of a document may hold: no such element, an empty one, an image URL
\* that looksLikeImage refuses, or a value.
Absent == "absent"
Blank == "blank"
Bad == "bad"
IsValue(c) == c \notin {Absent, Blank, Bad}

\* A document: per field, the elements of each source: of several alike the first, but every
\* og:image. JSON-LD is a sequence of nodes.
Field == {"title", "description", "image"}
Element == STRING
Lines == [og : Element, twitter : Element, jsonld : Seq(Element), html : Element]
Document ==
  [title : [og : Element, twitter : Element,
            jsonld : Seq([headline : Element, name : Element]), html : Element],
   description : Lines,
   image : [og : Seq(Element), twitter : [image : Element, src : Element],
            jsonld : Seq(Element),
            html : [img : Element, touchIcon : Element, icon : Element]]]

ASSUME ExtractionAssumption ==
  /\ StaticDocs \cup RenderedDocs \subseteq Document
  /\ OembedCards \subseteq
       [title : Element, description : Element, author : Element, thumbnail : Element]

NoValue == [doc |-> "none", source |-> "none", value |-> Absent]
Value(d, s, c) == [doc |-> d, source |-> s, value |-> c]
Has(v) == v # NoValue

VARIABLES
  pc,
  card,          \* og: a value per field
  images,        \* og.images
  smap,          \* source_map
  completeness,  \* in hundredths
  \* Observation only: the documents and the answer the card was made from.
  static, dom, oembed

read == <<static, dom, oembed>>
vars == <<pc, card, images, smap, completeness, read>>

----------------------------------------------------------------------------
(* extractOg *)

\* fill: only an empty field, only a value.
FillOver(v, d, s, c) == IF IsValue(c) THEN Value(d, s, c) ELSE v
Fill(v, d, s, c) == IF Has(v) \/ ~IsValue(c) THEN v ELSE Value(d, s, c)

\* a ?? b, on elements: an empty one is not null.
Or(a, b) == IF a = Absent THEN b ELSE a

\* for (const node of jsonLdNodes) fill(...)
FillEach(v, d, s, cs) == FoldLeft(LAMBDA w, c : Fill(w, d, s, c), v, cs)

TitlesOf(nodes) == [i \in 1..Len(nodes) |-> Or(nodes[i].headline, nodes[i].name)]
TitleOf(d, x) ==
  LET og == Fill(NoValue, d, "og", x.title.og)
      tw == Fill(og, d, "twitter", x.title.twitter)
      ld == FillEach(tw, d, "jsonld", TitlesOf(x.title.jsonld))
  IN Fill(ld, d, "html", x.title.html)

DescriptionOf(d, x) ==
  LET og == Fill(NoValue, d, "og", x.description.og)
      tw == Fill(og, d, "twitter", x.description.twitter)
      ld == FillEach(tw, d, "jsonld", x.description.jsonld)
  IN Fill(ld, d, "html", x.description.html)

\* All og:image that are images, each once; the first is the image.
AddImage(s, d, c) ==
  IF IsValue(c) /\ \A i \in 1..Len(s) : s[i].value # c
  THEN Append(s, Value(d, "og", c)) ELSE s
OgImages(d, cs) == FoldLeft(LAMBDA s, c : AddImage(s, d, c), <<>>, cs)

\* From the other sources one image, if there is none yet.
FillImage(s, d, source, c) ==
  IF s # <<>> \/ ~IsValue(c) THEN s ELSE <<Value(d, source, c)>>
FillImageEach(s, d, source, cs) == FoldLeft(LAMBDA t, c : FillImage(t, d, source, c), s, cs)
ImagesOf(d, x) ==
  LET tw == FillImage(OgImages(d, x.image.og), d, "twitter",
                      Or(x.image.twitter.image, x.image.twitter.src))
      ld == FillImageEach(tw, d, "jsonld", x.image.jsonld)
      h == x.image.html
  IN FillImage(ld, d, "html", Or(h.img, Or(h.touchIcon, h.icon)))

CardOf(d, x) ==
  LET im == ImagesOf(d, x) IN
  [title |-> TitleOf(d, x), description |-> DescriptionOf(d, x),
   image |-> IF im = <<>> THEN NoValue ELSE im[1]]

SourcesOf(c) == [f \in Field |-> c[f].source]

\* scoreCompleteness
Weight == [title |-> 40, description |-> 30, image |-> 30]
Scored(s, c, f) == IF Has(c[f]) THEN s + Weight[f] ELSE s
Score(c) ==
  FoldLeft(LAMBDA s, f : Scored(s, c, f), 0, <<"title", "description", "image">>)
Threshold == 66

----------------------------------------------------------------------------
(* fetchOg, from the static page to finalize *)

Init ==
  /\ pc = "parse"
  /\ card = [f \in Field |-> NoValue] /\ images = <<>>
  /\ smap = [f \in Field |-> "none"]
  /\ completeness = 0
  /\ static = None /\ dom = None /\ oembed = None

\* What decideEscalation may say of a page, whatever rule and shell signals there are.
Decisions(score) == IF score >= Threshold THEN {"done"} ELSE {"done", "oembed", "render"}

Parse ==
  /\ pc = "parse"
  /\ \E x \in StaticDocs :
       /\ card' = CardOf("static", x) /\ images' = ImagesOf("static", x)
       /\ smap' = SourcesOf(card')
       /\ completeness' = Score(card')
       /\ static' = x
  /\ pc' \in Decisions(completeness')
  /\ UNCHANGED <<dom, oembed>>

\* oembedFetch: a text that is not blank, the author for want of a description, and a
\* thumbnail that nobody asks whether it looks like an image.
Text(c) == IF c = Blank THEN Absent ELSE c
OembedCard(a) ==
  [title |-> Text(a.title), description |-> Or(Text(a.description), Text(a.author)),
   image |-> Text(a.thumbnail)]
FillIn(v, c) == IF Has(v) \/ c = Absent THEN v ELSE Value("oembed", "oembed", c)

\* oEmbed fills what is empty, or fails and leaves the page to the browser, if
\* shouldHeadlessAfterOembed: always, since the score is below the threshold.
OembedScoreOld == completeness
OembedScore == Score(card')
Oembed ==
  /\ pc = "oembed"
  /\ \/ /\ \E a \in OembedCards :
             LET c == OembedCard(a) IN
             /\ card' = [f \in Field |-> FillIn(card[f], c[f])]
             /\ images' = IF card'.image = card.image THEN images
                          ELSE Append(images, card'.image)
             /\ smap' = [f \in Field |->
                           IF card'[f] # card[f] THEN "oembed" ELSE smap[f]]
             /\ oembed' = a
        /\ completeness' = OembedScore
        /\ pc' = "done"
        /\ UNCHANGED <<static, dom>>
     \/ pc' = "render" /\ UNCHANGED <<card, images, smap, completeness, read>>

\* mergeFill, and the images and source map beside it.
MergeFill(base, over) == [f \in Field |-> IF Has(base[f]) THEN base[f] ELSE over[f]]
MergeImagesNever(base, over) == base
MergeImages(base, over) == IF base = <<>> THEN over ELSE base
MergeSourcesOver(base, over) == [f \in Field |-> IF over[f] # "none" THEN over[f] ELSE base[f]]
MergeSources(base, over) == [f \in Field |-> IF base[f] # "none" THEN base[f] ELSE over[f]]

\* The rendered document fills what is empty; a failed render leaves the page as it is.
Render ==
  /\ pc = "render"
  /\ \/ \E x \in RenderedDocs :
          LET hl == CardOf("dom", x) IN
          /\ card' = MergeFill(card, hl)
          /\ images' = MergeImages(images, ImagesOf("dom", x))
          /\ smap' = MergeSources(smap, SourcesOf(hl))
          /\ completeness' = Score(card')
          /\ dom' = x
          /\ UNCHANGED <<static, oembed>>
     \/ UNCHANGED <<card, images, smap, completeness, read>>
  /\ pc' = "done"

\* The page was refused to every user agent: the rendered document is the card.
Recover ==
  /\ pc = "parse"
  /\ \E x \in RenderedDocs :
       /\ card' = CardOf("dom", x) /\ images' = ImagesOf("dom", x)
       /\ smap' = SourcesOf(card')
       /\ completeness' = Score(card')
       /\ dom' = x
  /\ pc' = "done"
  /\ UNCHANGED <<static, oembed>>

\* The card is answered.
Finished == pc = "done" /\ UNCHANGED vars

Next == Parse \/ Oembed \/ Render \/ Recover \/ Finished

Spec == Init /\ [][Next]_vars

----------------------------------------------------------------------------
(* Properties *)

\* The source map says of each field where its value came from, through every merge
\* (docs/01_crawl_engine.md:368): a value of the static page keeps its source when the
\* browser has the field too.
SourceMapTrue == \A f \in Field : smap[f] = card[f].source

\* The image of the card is the first of its images, which name no image twice
\* (docs/01_crawl_engine.md:237).
ImageLeadsImages ==
  /\ card.image = IF images = <<>> THEN NoValue ELSE images[1]
  /\ \A i, j \in 1..Len(images) : images[i].value = images[j].value => i = j

\* completeness, which decides the status and the TTL, is that of the card that is
\* answered, and not of an earlier stage of it.
ScoreIsOfTheCard ==
  completeness = (IF Has(card.title) THEN 40 ELSE 0)
    + (IF Has(card.description) THEN 30 ELSE 0) + (IF Has(card.image) THEN 30 ELSE 0)

\* What each source of a document offers for a field, in the order of the document: of the
\* elements that stand for each other only the first that is there, if empty or refused too.
Offers(x, f) ==
  LET jl == x[f].jsonld IN
  [og |-> IF f = "image" THEN x.image.og ELSE <<x[f].og>>,
   twitter |-> IF f = "image" THEN <<Or(x.image.twitter.image, x.image.twitter.src)>>
               ELSE <<x[f].twitter>>,
   jsonld |-> IF f = "title" THEN TitlesOf(jl) ELSE jl,
   html |-> IF f = "image"
              THEN <<Or(x.image.html.img, Or(x.image.html.touchIcon, x.image.html.icon))>>
              ELSE <<x[f].html>>]

Rank == [og |-> 1, twitter |-> 2, jsonld |-> 3, html |-> 4]

\* Of the elements cs of a document v is the first value, by rank of the source and then by
\* place in the document; and there is no value among them.
FoundIn(cs, v) ==
  \E i \in 1..Len(cs[v.source]) :
    /\ cs[v.source][i] = v.value
    /\ \A s \in DOMAIN Rank : \A j \in 1..Len(cs[s]) :
         Rank[s] < Rank[v.source] \/ (s = v.source /\ j < i) => ~IsValue(cs[s][j])
Empty(cs) == \A s \in DOMAIN Rank : \A i \in 1..Len(cs[s]) : ~IsValue(cs[s][i])
FirstOembed(a, f) ==
  LET cs == CASE f = "title" -> <<a.title>>
              [] f = "description" -> <<a.description, a.author>>
              [] f = "image" -> <<a.thumbnail>>
      full == {i \in 1..Len(cs) : cs[i] \notin {Absent, Blank}}
  IN IF full = {} THEN Absent ELSE cs[Min(full)]

\* A field is the first value of the static page's elements s; failing that, of what was
\* asked next, the elements d of the rendered page last.
FirstOf(f, s, d) ==
  LET v == card[f] IN
  CASE v.doc = "static" -> FoundIn(s, v)
    [] v.doc = "oembed" -> Empty(s) /\ v.value = FirstOembed(oembed, f)
    [] v.doc = "dom"    -> (static = None \/ Empty(s)) /\ FoundIn(d, v)
    [] OTHER            -> /\ static = None \/ Empty(s)
                           /\ dom = None \/ Empty(d)
                           /\ oembed = None \/ FirstOembed(oembed, f) = Absent

\* No stage passes over a value that a source of an earlier one offered, and no source one
\* that a source of higher rank offered: a field is empty only if nobody offered a value.
\* What stands behind an empty or refused element of the same source is not offered.
FirstOfferedWins ==
  pc = "done" => \A f \in Field : FirstOf(f, Offers(static, f), Offers(dom, f))

============================================================================
