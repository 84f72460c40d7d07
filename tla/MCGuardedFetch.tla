----------------------------- MODULE MCGuardedFetch -----------------------------
(* Values for the constants of GuardedFetch: four pages, one of them with  *)
(* two URLs and two at an address; URLs with a port that is not allowed,   *)
(* at a metadata service, and at an address that is blocked.               *)
EXTENDS GuardedFetch

CONSTANTS u1, u1hash, u2, u3, u4, odd, meta0, lit, k1, k2, k3, k4, k5, k6, k7

\* Both sides of the end of 172.16/12, and one just behind 10/8.
Good == <<172, 32, 0, 0>>
Good2 == <<11, 0, 0, 0>>
Bad == <<172, 31, 255, 255>>
Addrs == {Good, Good2, Bad}

PartsTable == [u \in Url |->
  CASE u = u3    -> [scheme |-> "https", port |-> 0, host |-> Good, literal |-> TRUE]
    [] u = u4    -> [scheme |-> "http", port |-> 8080, host |-> Good2, literal |-> TRUE]
    [] u = lit   -> [scheme |-> "http", port |-> 0, host |-> Bad, literal |-> TRUE]
    [] u = odd   -> [scheme |-> "http", port |-> 22, host |-> "a.example", literal |-> FALSE]
    [] u = meta0 -> [scheme |-> "http", port |-> 0, host |-> "metadata.goog",
                     literal |-> FALSE]
    [] OTHER     -> [scheme |-> "https", port |-> 0, host |-> "a.example",
                     literal |-> FALSE]]

PartsOf == PartsTable
\* TLC evaluates a definition once, but one that a .cfg names at every use: hence two.
RefusedAddrs == {ip \in Addrs : IsBlockedIp(ip)}
BlockedAddrs == RefusedAddrs
JudgedUrls == [u \in Url |-> VerdictBeforeDns(PartsTable[u])]
BeforeDnsOf == JudgedUrls
LiteralHosts == [u \in Url |-> IF PartsTable[u].literal THEN PartsTable[u].host ELSE None]
LiteralOf == LiteralHosts
PageOf == [u \in Url |-> CASE u = u2 -> k2 [] u = u3 -> k3 [] u = u4 -> k4
                           [] u = odd -> k5 [] u = lit -> k6 [] u = meta0 -> k7
                           [] OTHER -> k1]
=================================================================================
