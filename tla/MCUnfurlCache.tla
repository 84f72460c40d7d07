--------------------------- MODULE MCUnfurlCache ---------------------------
(* Values for the constants of UnfurlCache. *)
EXTENDS UnfurlCache, TLC

CONSTANTS r1, r2, r3, n1, n2, a, b, bad, pa, pb

R(k, f, p) == [kind |-> k, final |-> f, pk |-> p, moved |-> FALSE, cached |-> FALSE,
               row |-> k \in {"fail4xx", "fail5xx"}]
Moved(x) == [x EXCEPT !.moved = TRUE]
Cached(x) == [x EXCEPT !.cached = TRUE, !.moved = FALSE]

\* One page that answers or fails.
OnePage == (a :> {R("partial", a, pa), R("fail4xx", a, pa)})

\* a redirects to b; b may answer under its own key or under that of a, and is redirected
\* itself to another spelling of b, which leaves its normal form.
Redirect ==
  LET down == Moved(R("complete", b, pb)) IN
  (a :> {down, Cached(down), Moved(R("partial", b, pa)), Moved(R("fail4xx", b, pb))})
  @@ (b :> {Moved(R("complete", b, pb))})
  @@ (bad :> {R("fail4xx", bad, pb)})

\* Without the observation-only variables that no action and no property of the runs
\* that use this view reads.
NoGhosts ==
  <<now, redis, l1, attempts, crawls, pc, local, answer, faults, crashes, lapsed>>

\* The same without the rows of Postgres, which no action reads either, and with the
\* tasks that had ended when a request came.
ForFlight == <<now, redis, l1, pc, local, answer, faults, crashes, past, lapsed>>

Perms == Permutations(Request) \cup Permutations(Node)
============================================================================
