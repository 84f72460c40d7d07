---------------------------- MODULE MCExtraction ----------------------------
(* Documents for Extraction.  The fields do not influence each other except *)
(* through the score, so one field at a time takes all its forms and the    *)
(* others a few.                                                            *)
EXTENDS Extraction

Title(og, tw, ld, html) == [og |-> og, twitter |-> tw, jsonld |-> ld, html |-> html]
Node(h, n) == [headline |-> h, name |-> n]

\* An empty headline is not null: it hides the name.
Titles == {Title(og, tw, ld, html) :
             og \in {Absent, Blank, "t1"}, tw \in {Absent, "t2"},
             ld \in {<<>>, <<Node(Blank, "t3")>>, <<Node(Absent, Absent), Node(Absent, "t4")>>},
             html \in {Absent, "t5"}}
FewTitles == {Title(Absent, Absent, <<>>, Absent), Title("t1", Absent, <<>>, "t5"),
              Title(Blank, Absent, <<Node("t3", Absent)>>, "t5")}

Descriptions == {Title(Absent, Absent, <<>>, Absent), Title("d1", "d2", <<>>, Absent),
                 Title(Absent, Absent, <<Blank, "d3">>, "d4")}

Image(og, tw, ld, html) == [og |-> og, twitter |-> tw, jsonld |-> ld, html |-> html]
Two(i, s) == [image |-> i, src |-> s]
Body(i, t, k) == [img |-> i, touchIcon |-> t, icon |-> k]
NoBody == Body(Absent, Absent, Absent)
Images == {Image(og, tw, ld, html) :
             og \in {<<>>, <<Bad>>, <<Bad, "i1">>, <<"i1", "i2", "i1">>},
             tw \in {Two(Absent, Absent), Two(Absent, "i2"), Two(Blank, "i2")},
             ld \in {<<>>, <<Bad, "i3">>},
             html \in {NoBody, Body(Bad, "i4", Absent), Body(Absent, Absent, "i1")}}
FewImages == {Image(<<>>, Two(Absent, Absent), <<>>, NoBody),
              Image(<<"i1", "i2">>, Two("i2", Absent), <<>>, NoBody),
              Image(<<Bad>>, Two(Blank, "i2"), <<"i3">>, NoBody)}

Docs(ts, ds, is) ==
  {[title |-> t, description |-> d, image |-> i] : t \in ts, d \in ds, i \in is}
AllDocs == Docs(Titles, Descriptions, FewImages) \cup Docs(FewTitles, Descriptions, Images)
FewDocs == Docs(FewTitles, Descriptions, FewImages)

Answers == {[title |-> t, description |-> d, author |-> u, thumbnail |-> i] :
              t \in {Absent, "o1"}, d \in {Absent, Blank, "o2"}, u \in {Absent, "o3"},
              i \in {Blank, Bad, "o4"}}

\* Aliases: TLC evaluates a definition once, but one that a .cfg names at every use.
Pages == AllDocs
Rendered == FewDocs
============================================================================
