----------------------------- MODULE MCCrawlLadder -----------------------------
(* Values for the constants of CrawlLadder: a page on a host of a domain, a *)
(* short link to it on another, and a URL that cannot be normalised.        *)
EXTENDS CrawlLadder, TLC

CONSTANTS r1, r2, wpage, slink, bad, www, dom, sho, nowhere, u0, u1, u2

HostsOf == (wpage :> <<www, dom>>) @@ (slink :> <<sho>>) @@ (bad :> <<nowhere>>)
SiteOf == (wpage :> dom) @@ (slink :> sho) @@ (bad :> nowhere)
Targets == (wpage :> {}) @@ (slink :> {wpage}) @@ (bad :> {})
Uas == <<u1, u2>>

ShortOnly == [n \in Name |-> IF n = sho THEN [DefaultRule EXCEPT !.short = TRUE,
                                                                  !.version = 1]
                                        ELSE None]
HostRule == [ShortOnly EXCEPT ![www] = [DefaultRule EXCEPT !.ua = u2, !.oembed = TRUE,
                                                           !.version = 1]]
TwoTables == {ShortOnly, HostRule}

P(k, f, m, s, c) == [kind |-> k, fields |-> f, meta |-> m, shell |-> s, marker |-> c,
                     final |-> wpage]
SomePages == {P("html", {"title", "image"}, TRUE, FALSE, FALSE),
              P("html", {"title"}, FALSE, TRUE, FALSE),
              P("html", {"description"}, TRUE, FALSE, TRUE),
              P("image", {"title"}, FALSE, FALSE, FALSE),
              P("file", {}, FALSE, FALSE, FALSE)}
SomeDoms == {[fields |-> {"image"}, meta |-> TRUE, final |-> wpage]}
SomeFills == {{}, {"image"}}

\* Of a crawl that only has its ending to write: what an invariant may still find wrong. The
\* rest is read by no action any more, and the invariants that speak of it held before.
Ended(r) == pc[r] \in {"attempt", "upsert", "done"}
Lesson(r) == IF first[r] = None THEN <<>> ELSE <<Site[eff[r]], via[r]>>
Local(r) == <<result[r], page[r], first[r], renders[r],
              IF Ended(r) THEN Lesson(r)
                ELSE <<url[r], eff[r], rule[r], left[r], via[r], tried[r], expected[r]>>>>
View == <<pc, [r \in Request |-> Local(r)], now, table, edits, rules, learned, storeVars>>

Perms == Permutations(Request)
================================================================================
