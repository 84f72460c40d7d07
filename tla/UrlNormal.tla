------------------------------ MODULE UrlNormal ------------------------------
(***************************************************************************)
(* normalizeUrl (service/src/url/normalize.ts): the text every cache key   *)
(* is made from.  A URL is what the WHATWG parser makes of it (scheme and  *)
(* host in lower case, default port empty, dot segments resolved), and a   *)
(* normal form is the URL its text parses to.  Query keys are numbers, in  *)
(* the order of their texts; TrackingKeys is isTrackingParam.              *)
(***************************************************************************)
EXTENDS Integers, SequencesExt

CONSTANTS
  Text,          \* what the parts of URLs are made of
  QueryKey,      \* keys of query parameters
  TrackingKeys   \* those that tracking-params.ts lists

ASSUME UrlAssumption == "" \in Text /\ QueryKey \subseteq Int

\* dots behind the host name, path segments between slashes ("" where two slashes meet, and
\* at the end behind a trailing one), the query as <<key, value>> pairs.  A host has more
\* than dots.
Query == Seq(QueryKey \X Text)
Url == [scheme : Text, user : Text, host : Text, dots : Nat, port : Text,
        path : Seq(Text) \ {<<>>}, query : Query, hash : Seq(Text)]

\* The members of s at the places at, in their order.
Rank(at, i) == Cardinality({j \in at : j <= i})
Taken(s, at) == [p \in 1..Cardinality(at) |-> s[CHOOSE i \in at : Rank(at, i) = p]]

NoTracking(q) == {i \in 1..Len(q) : q[i][1] \notin TrackingKeys}

\* params.sort by key; the order of equal keys stays.
Before(q, j, i) == q[j][1] < q[i][1] \/ (q[j][1] = q[i][1] /\ j <= i)
UnsortedQuery(q) == Taken(q, NoTracking(q))
SortedQuery(q) ==
  LET at == NoTracking(q)
      place(i) == Cardinality({j \in at : Before(q, j, i)})
  IN [p \in 1..Cardinality(at) |-> q[CHOOSE i \in at : place(i) = p]]

\* Runs of slashes become one: empty segments go, but for the one behind the last slash.
Names(path) == Taken(path, {i \in 1..Len(path) : path[i] # ""})
MergeSlashes(path) == IF Last(path) = "" THEN Append(Names(path), "") ELSE Names(path)

IsHashbang(h) == h # <<>> /\ Head(h) = "!"

Normalize(u) ==
  [u EXCEPT !.user = "", !.dots = 0,
            !.path = MergeSlashes(u.path),
            !.query = SortedQuery(u.query),
            !.hash = IF IsHashbang(u.hash) THEN u.hash ELSE <<>>]

----------------------------------------------------------------------------
(* What two URLs must have in common to be one page. *)

\* The values of key k agree in their order, wherever they stand in the query.
PlacesOf(q, k) == {i \in 1..Len(q) : q[i][1] = k}
SameValues(q, r, k) ==
  LET at == PlacesOf(q, k)
      bt == PlacesOf(r, k)
  IN /\ Cardinality(at) = Cardinality(bt)
     /\ \A i \in at, j \in bt : Rank(at, i) = Rank(bt, j) => q[i][2] = r[j][2]

SamePage(u, v) ==
  /\ u.scheme = v.scheme /\ u.host = v.host /\ u.port = v.port
  /\ Names(u.path) = Names(v.path) /\ (Last(u.path) = "") = (Last(v.path) = "")
  /\ \A k \in QueryKey \ TrackingKeys : SameValues(u.query, v.query, k)
  /\ IsHashbang(u.hash) = IsHashbang(v.hash)
  /\ IsHashbang(u.hash) => u.hash = v.hash

============================================================================
