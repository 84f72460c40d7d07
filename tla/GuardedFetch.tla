---------------------------- MODULE GuardedFetch ----------------------------
(***************************************************************************)
(* SafeFetch with the URLs and addresses of AddressGuard: what the fetch   *)
(* calls blocked is what the guard says of the parts of a URL and of the   *)
(* addresses DNS answers.                                                  *)
(***************************************************************************)
EXTENDS SafeFetch, AddressGuard

CONSTANT Parts  \* Parts[u]: scheme, port and host of u, and whether the host is an address

ASSUME GuardAssumption ==
  /\ Addr \subseteq Address
  /\ Blocked = {ip \in Addr : IsBlockedIp(ip)}
  /\ BeforeDns = [u \in Url |-> VerdictBeforeDns(Parts[u])]
  /\ Literal = [u \in Url |-> IF Parts[u].literal THEN Parts[u].host ELSE None]

----------------------------------------------------------------------------
(* Properties *)

\* No request of a fetch, of its redirects or of its retries leaves the public web:
\* whatever DNS answers, it goes over http or https to an allowed port of a host that
\* is no metadata service, at an address outside every reserved range.
PublicUrls ==
  {u \in Url : /\ Parts[u].scheme \in {"http", "https"}
               /\ PortOf(Parts[u]) \in AllowedPorts
               /\ Parts[u].literal \/ Parts[u].host \notin BlockedHostnames}
PublicAddrs == {ip \in Addr : ~IsReserved(ip)}
OnlyThePublicWeb ==
  \A i \in 1..Len(requests) :
    requests[i].url \in PublicUrls /\ requests[i].addr \in PublicAddrs

\* Before any fetch: the masks of the table are the reserved ranges, no address more and
\* none less.  Checked at both sides of each end of each of them, for IPv4 also in its
\* IPv6 form.
Mapped(ip) == <<0, 0, 0, 0, 0, \hffff, ip[1] * 256 + ip[2], ip[3] * 256 + ip[4]>>
Misjudged ==
  {ip \in Borders : IsBlockedIp(ip) # IsReserved(ip)}
    \cup {ip \in Borders : IsV4(ip) /\ ~IsBlockedIp(Mapped(ip))}
MasksAreTheRanges == pc = "idle" => Misjudged = {}

============================================================================
