---------------------------- MODULE AddressGuard ----------------------------
(***************************************************************************)
(* Which URLs and addresses the service may connect to (service/src/fetch/ *)
(* ssrf-guard.ts): scheme, port and host name before DNS, and a table of   *)
(* blocks for addresses.  An IPv4 address is its four octets, an IPv6      *)
(* address its eight groups of 16 bits; the parsing of their text is left  *)
(* out.                                                                    *)
(***************************************************************************)
EXTENDS Integers, Sequences, FiniteSets

Unit(w) == 0..(2 ^ w - 1)
V4 == [1..4 -> Unit(8)]
V6 == [1..8 -> Unit(16)]
Address == V4 \cup V6

Block(net, prefix) == [net |-> net, prefix |-> prefix]

BlockedV4 == {
  Block(<<0, 0, 0, 0>>, 8), Block(<<10, 0, 0, 0>>, 8), Block(<<100, 64, 0, 0>>, 10),
  Block(<<127, 0, 0, 0>>, 8), Block(<<169, 254, 0, 0>>, 16), Block(<<172, 16, 0, 0>>, 12),
  Block(<<192, 0, 0, 0>>, 24), Block(<<192, 0, 2, 0>>, 24), Block(<<192, 168, 0, 0>>, 16),
  Block(<<198, 18, 0, 0>>, 15), Block(<<198, 51, 100, 0>>, 24),
  Block(<<203, 0, 113, 0>>, 24), Block(<<224, 0, 0, 0>>, 4), Block(<<240, 0, 0, 0>>, 4)}

BlockedV6 == {
  Block(<<0, 0, 0, 0, 0, 0, 0, 1>>, 128), Block(<<0, 0, 0, 0, 0, 0, 0, 0>>, 128),
  Block(<<0, 0, 0, 0, 0, \hffff, 0, 0>>, 96), Block(<<\h64, \hff9b, 0, 0, 0, 0, 0, 0>>, 96),
  Block(<<\h100, 0, 0, 0, 0, 0, 0, 0>>, 64), Block(<<\h2001, \hdb8, 0, 0, 0, 0, 0, 0>>, 32),
  Block(<<\hfc00, 0, 0, 0, 0, 0, 0, 0>>, 7), Block(<<\hfe80, 0, 0, 0, 0, 0, 0, 0>>, 10),
  Block(<<\hff00, 0, 0, 0, 0, 0, 0, 0>>, 8)}

\* BLOCKED_IP_LITERALS
Metadata == {<<169, 254, 169, 254>>, <<100, 100, 100, 200>>,
             <<\hfd00, \hec2, 0, 0, 0, 0, 0, \h254>>}

IsV4(ip) == Len(ip) = 4
Width(ip) == IF IsV4(ip) THEN 8 ELSE 16

\* How many bits of unit i of an address a prefix covers.
CoveredWhole(prefix, i, w) == IF prefix - (i - 1) * w < w THEN 0 ELSE w
Covered(prefix, i, w) ==
  LET left == prefix - (i - 1) * w IN
  IF left < 0 THEN 0 ELSE IF left > w THEN w ELSE left

\* inCidr: the address and the network agree under the mask.
InCidrOneBitMore(ip, c) ==
  LET w == Width(ip) IN
  \A i \in 1..Len(ip) :
    LET host == 2 ^ (w - Covered(c.prefix + 1, i, w)) IN
    ip[i] \div host = c.net[i] \div host
InCidr(ip, c) ==
  LET w == Width(ip) IN
  \A i \in 1..Len(ip) :
    LET host == 2 ^ (w - Covered(c.prefix, i, w)) IN
    ip[i] \div host = c.net[i] \div host

InTable(ip, table) == \E c \in table : InCidr(ip, c)

\* unmapV4: ::ffff:a.b.c.d
IsMapped(ip) == SubSeq(ip, 1, 6) = <<0, 0, 0, 0, 0, \hffff>>
UnmapV4(ip) == <<ip[7] \div 256, ip[7] % 256, ip[8] \div 256, ip[8] % 256>>

IsBlockedIp(ip) ==
  \/ ip \in Metadata
  \/ IsV4(ip) /\ InTable(ip, BlockedV4)
  \/ /\ ~IsV4(ip)
     /\ \/ IsMapped(ip) /\ InTable(UnmapV4(ip), BlockedV4)
        \/ InTable(ip, BlockedV6)

----------------------------------------------------------------------------
(* The part of ssrfPrecheck before DNS.  A URL is [scheme, port, host]: port *)
(* 0 stands for the default of the scheme, and host is a name or an IPv4    *)
(* address (the brackets around an IPv6 address make it a name for isIP).   *)

AllowedSchemes == {"http", "https"}
AllowedPorts == {80, 443, 8080, 8443}
BlockedHostnames == {"metadata.google.internal", "metadata.goog"}

PortOf(u) ==
  IF u.port # 0 THEN u.port ELSE IF u.scheme = "https" THEN 443 ELSE 80

\* The checks in their order.
VerdictBeforeDns(u) ==
  IF u.scheme \notin AllowedSchemes THEN "SCHEME_BLOCKED"
  ELSE IF PortOf(u) \notin AllowedPorts THEN "PORT_BLOCKED"
  ELSE IF ~u.literal /\ u.host \in BlockedHostnames THEN "SSRF_BLOCKED"
  ELSE "ok"

----------------------------------------------------------------------------
(* What the table is for: reserved ranges by their first and last address. *)

V6Range(first, last) == <<first \o [i \in 1..(8 - Len(first)) |-> 0],
                          last \o [i \in 1..(8 - Len(last)) |-> \hffff]>>
Reserved == {
  <<<<0, 0, 0, 0>>, <<0, 255, 255, 255>>>>,            \* this network
  <<<<10, 0, 0, 0>>, <<10, 255, 255, 255>>>>,          \* private
  <<<<172, 16, 0, 0>>, <<172, 31, 255, 255>>>>,
  <<<<192, 168, 0, 0>>, <<192, 168, 255, 255>>>>,
  <<<<100, 64, 0, 0>>, <<100, 127, 255, 255>>>>,       \* carrier NAT
  <<<<127, 0, 0, 0>>, <<127, 255, 255, 255>>>>,        \* loopback
  <<<<169, 254, 0, 0>>, <<169, 254, 255, 255>>>>,      \* link-local
  <<<<192, 0, 0, 0>>, <<192, 0, 0, 255>>>>,            \* IETF
  <<<<192, 0, 2, 0>>, <<192, 0, 2, 255>>>>,            \* documentation
  <<<<198, 51, 100, 0>>, <<198, 51, 100, 255>>>>,
  <<<<203, 0, 113, 0>>, <<203, 0, 113, 255>>>>,
  <<<<198, 18, 0, 0>>, <<198, 19, 255, 255>>>>,        \* benchmarks
  <<<<224, 0, 0, 0>>, <<255, 255, 255, 255>>>>,        \* multicast and above
  V6Range(<<>>, <<0, 0, 0, 0, 0, 0, 0, 1>>),           \* unspecified, loopback
  V6Range(<<0, 0, 0, 0, 0, \hffff>>, <<0, 0, 0, 0, 0, \hffff>>),  \* mapped IPv4
  V6Range(<<\h64, \hff9b>>, <<\h64, \hff9b, 0, 0, 0, 0>>),        \* NAT64
  V6Range(<<\h100>>, <<\h100, 0, 0, 0>>),              \* discard
  V6Range(<<\h2001, \hdb8>>, <<\h2001, \hdb8>>),       \* documentation
  V6Range(<<\hfc00>>, <<\hfdff>>),                     \* unique local
  V6Range(<<\hfe80>>, <<\hfebf>>),                     \* link-local
  V6Range(<<\hff00>>, <<\hffff>>)}                     \* multicast

\* Addresses of one family in numerical order.
AtMost(a, b) ==
  \A i \in 1..Len(a) : (\A j \in 1..(i - 1) : a[j] = b[j]) => a[i] <= b[i]
IsReserved(ip) ==
  \E r \in Reserved :
    Len(r[1]) = Len(ip) /\ AtMost(r[1], ip) /\ AtMost(ip, r[2])

\* The addresses on both sides of every end of a range.
UnitMax(ip) == IF IsV4(ip) THEN 255 ELSE \hffff
After(ip) ==
  [i \in 1..Len(ip) |->
     IF \A j \in (i + 1)..Len(ip) : ip[j] = UnitMax(ip)
       THEN (ip[i] + 1) % (UnitMax(ip) + 1) ELSE ip[i]]
Before(ip) ==
  [i \in 1..Len(ip) |->
     IF \A j \in (i + 1)..Len(ip) : ip[j] = 0
       THEN (ip[i] + UnitMax(ip)) % (UnitMax(ip) + 1) ELSE ip[i]]
Borders == UNION {{r[1], r[2], Before(r[1]), After(r[2])} : r \in Reserved}

============================================================================
