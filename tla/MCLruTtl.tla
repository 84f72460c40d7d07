------------------------------ MODULE MCLruTtl ------------------------------
(* URLs for LruTtl: spellings of four pages.  Key 2 is a tracking parameter. *)
EXTENDS LruTtl

U(dots, path, query, hash) ==
  [scheme |-> "https", user |-> "", host |-> "a.example", dots |-> dots, port |-> "",
   path |-> path, query |-> query, hash |-> hash]

Root == <<"">>
Spellings == {
  U(0, Root, <<>>, <<>>),
  U(0, Root, <<<<2, "x">>>>, <<"top">>),
  U(1, <<"", "", "">>, <<>>, <<>>),
  U(0, <<"p">>, <<<<1, "x">>, <<1, "y">>, <<3, "z">>>>, <<>>),
  U(0, <<"", "p">>, <<<<3, "z">>, <<1, "x">>, <<2, "x">>, <<1, "y">>>>, <<>>),
  U(0, <<"p">>, <<<<1, "y">>, <<1, "x">>, <<3, "z">>>>, <<>>),
  [U(0, <<"p", "">>, <<>>, <<"!", "s">>) EXCEPT !.user = "me"],
  U(0, <<"p", "">>, <<>>, <<"!", "s">>)}
Urls == Spellings
Params == 1..3
Words == {"https", "me", "a.example", "", "p", "x", "y", "z", "top", "!", "s"}
============================================================================
