--------------------------- MODULE MCUnfurlServer ---------------------------
(* Values for the constants of UnfurlServer. *)
EXTENDS UnfurlServer, TLC

CONSTANTS r1, r2, n1, n2, a, b, pa, pb

R(k, f, p) == [kind |-> k, final |-> f, pk |-> p, moved |-> FALSE, cached |-> FALSE,
               row |-> k \in {"fail4xx", "fail5xx"}]

Moved(x) == [x EXCEPT !.moved = TRUE]

\* a redirects to b, which answers with a card of its own or fails.
Sites == (a :> {Moved(R("partial", b, pb)), Moved(R("fail4xx", b, pa))}) @@ (b :> {R("complete", b, pb)})

\* A refused page, one whose card scored 0 (its status was 200) or never answered.
Statuses == [k \in Kind |-> CASE k = "fail4xx" -> {0, 404}
                              [] k = "fail5xx" -> {0, 503}
                              [] OTHER -> {200}]

\* One mishap per behaviour, a failed command or a crash: a bound like MaxFaults and
\* MaxCrashes.  Every step has a way to succeed, so it takes no fair step away.
OneMishap == ServerNext /\ faults' + crashes' <= 1
MCSpec == ServerInit /\ [][OneMishap]_serverVars /\ Fairness
============================================================================
