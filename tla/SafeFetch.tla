------------------------------- MODULE SafeFetch -------------------------------
(***************************************************************************)
(* The static fetch of one crawl (service/src/fetch/safe-fetch.ts) with    *)
(* the address check made before every connection (ssrf-guard.ts) and the  *)
(* retries of the bot-block recovery that call it again (orchestrator.ts). *)
(* Web servers and DNS are external: they answer anything at any time.     *)
(***************************************************************************)
EXTENDS Integers, Sequences

CONSTANTS
  Url,        \* absolute URLs
  Key,        \* URLs without fragment, in the spelling of the loop check
  Canonical,  \* canonicalizeForLoopCheck: Url -> Key
  Addr,       \* addresses
  Blocked,    \* those of isBlockedIp
  BeforeDns,  \* what the checks of scheme, port and host name say of a URL
  Literal,    \* the address a URL names, or None for a host name
  None,       \* a model value: no value
  Status,     \* the HTTP statuses servers answer with
  MaxHops,    \* max_redirects of the rule, or MAX_REDIRECT_HOPS
  Cap,        \* body_byte_cap of the rule, or MAX_BODY_BYTES
  MaxRetries  \* the preview-bot UAs that recoveryUaCandidates offers

RedirectStatus == {301, 302, 303, 307, 308}

ASSUME FetchAssumption ==
  /\ Canonical \in [Url -> Key]
  /\ Blocked \subseteq Addr
  /\ BeforeDns \in [Url -> {"ok", "INVALID_URL", "SCHEME_BLOCKED", "PORT_BLOCKED",
                            "SSRF_BLOCKED"}]
  /\ Literal \in [Url -> Addr \cup {None}]
  /\ None \notin Addr \cup Url
  /\ Status \subseteq 200..999
  /\ {MaxHops, Cap, MaxRetries} \subseteq Nat

VARIABLES
  pc,
  start, pin,             \* the URL of the crawl and the address pinned for it
  cur, addr, hops, visited, chain, meta,   \* the locals of safeFetch
  target,                 \* where the answer of this hop leads to
  bytes,                  \* of the body so far
  late,                   \* whether the deadline of this call has passed
  code,                   \* "ok", or the error code it threw
  retries,
  \* Observation only: the requests of this call, and the verdicts that let an address be
  \* connected to (those of this call and the one the crawl began with), with all the
  \* addresses DNS had answered.
  requests, verdicts

locals == <<cur, addr, hops, visited, chain, meta, target, bytes>>
caller == <<start, pin, retries>>
vars == <<pc, caller, locals, late, code, requests, verdicts>>

\* "NETWORK" stands for the codes of classifyFetchError.
HttpError == {"HTTP_403", "HTTP_404", "HTTP_410", "HTTP_429", "HTTP_4XX_OTHER", "HTTP_5XX",
              "UNKNOWN"}
CheckError == {"INVALID_URL", "SCHEME_BLOCKED", "PORT_BLOCKED", "SSRF_BLOCKED", "DNS_FAIL"}
Code == {"none", "ok", "TOO_MANY_REDIRECTS", "REDIRECT_LOOP", "READ_TIMEOUT", "NETWORK",
         "TOO_LARGE", "EMPTY_BODY"} \cup HttpError \cup CheckError

Hop == [url : Url, location : Url, type : {"http", "meta_refresh"}]
Verdict == [url : Url, code : {"ok"} \cup CheckError, addr : Addr \cup {None},
            all : SUBSET Addr]

TypeOK ==
  /\ pc \in {"idle", "hop", "response", "body", "precheck", "done"}
  /\ start \in Url \cup {None} /\ pin \in Addr \cup {None}
  /\ cur \in Url \cup {None} /\ addr \in Addr \cup {None}
  /\ hops \in Nat
  /\ visited \in SUBSET Key
  /\ chain \in Seq(Hop)
  /\ meta \in BOOLEAN
  /\ target \in Url \cup {None}
  /\ bytes \in 0..Cap
  /\ late \in BOOLEAN
  /\ code \in Code
  /\ retries \in Nat
  /\ requests \in Seq([url : Url, addr : Addr \cup {None}])
  /\ verdicts \in SUBSET Verdict

Init ==
  /\ pc = "idle"
  /\ start = None /\ pin = None
  /\ cur = None /\ addr = None /\ hops = 0 /\ visited = {} /\ chain = <<>>
  /\ meta = FALSE /\ target = None /\ bytes = 0
  /\ late = FALSE
  /\ code = "none"
  /\ retries = 0
  /\ requests = <<>> /\ verdicts = {}

----------------------------------------------------------------------------
(* ssrfPrecheck *)

Refused(u, c) == [url |-> u, code |-> c, addr |-> None, all |-> {}]

\* An answer of DNS is refused as a whole if one address is blocked; else its first
\* address is pinned.
Judge(u, first, all) ==
  IF all \cap Blocked # {}
    THEN Refused(u, "SSRF_BLOCKED")
    ELSE [url |-> u, code |-> "ok", addr |-> first, all |-> all]

\* What the check of u may say now: DNS may answer differently each time.
Verdicts(u) ==
  IF BeforeDns[u] # "ok" THEN {Refused(u, BeforeDns[u])}
  ELSE IF Literal[u] # None THEN {Judge(u, Literal[u], {Literal[u]})}
  ELSE {Refused(u, "DNS_FAIL")}
         \cup {Judge(u, first, all \cup {first}) : first \in Addr, all \in SUBSET Addr}

Pinned(V) == {v \in V : v.code = "ok"}

----------------------------------------------------------------------------
(* safeFetch *)

\* The call: fresh locals, a deadline of its own.
Call(u, a) ==
  /\ pc' = "hop"
  /\ cur' = u /\ addr' = a
  /\ hops' = 0 /\ visited' = {} /\ chain' = <<>> /\ meta' = FALSE
  /\ target' = None /\ bytes' = 0
  /\ late' = FALSE
  /\ code' = "none"
  /\ requests' = <<>>

Throw(c) == pc' = "done" /\ code' = c

\* fetchOg checks the URL it was given and calls safeFetch with the pinned address.
Begin ==
  /\ pc = "idle"
  /\ \E u \in Url : \E v \in Verdicts(u) :
       /\ start' = u /\ pin' = v.addr
       /\ verdicts' = Pinned({v})
       /\ \/ v.code = "ok" /\ Call(u, v.addr)
          \/ v.code # "ok" /\ Throw(v.code) /\ UNCHANGED <<locals, late, requests>>
  /\ UNCHANGED retries

\* The next user agent of the list.
RetriesSame == retries
NextRetry == retries + 1

IsBotBlock(c) == c \in {"HTTP_403", "BOT_CHALLENGE"}

\* A 403 is tried again with the next user agent, from the start and at the address that
\* was pinned then.
Again ==
  /\ pc = "done" /\ IsBotBlock(code)
  /\ retries < MaxRetries
  /\ retries' = NextRetry
  /\ Call(start, pin)
  /\ verdicts' = {v \in verdicts : v.url = start /\ v.addr = pin}
  /\ UNCHANGED <<start, pin>>

LoopKeyOfText(u) == u
LoopKey(u) == Canonical[u]

TooMany == hops > MaxHops

\* The head of the loop, up to the request: hop bound, loop check, deadline.
Request ==
  LET key == LoopKey(cur) IN
  /\ pc = "hop"
  /\ \/ TooMany /\ Throw("TOO_MANY_REDIRECTS") /\ UNCHANGED <<visited, requests>>
     \/ /\ ~TooMany /\ key \in visited
        /\ Throw("REDIRECT_LOOP") /\ UNCHANGED <<visited, requests>>
     \/ /\ ~TooMany /\ key \notin visited
        /\ visited' = visited \cup {key}
        /\ \/ late /\ Throw("READ_TIMEOUT") /\ UNCHANGED requests
           \/ /\ ~late
              /\ requests' = Append(requests, [url |-> cur, addr |-> addr])
              /\ pc' = "response" /\ UNCHANGED code
  /\ UNCHANGED <<caller, cur, addr, hops, chain, meta, target, bytes, late, verdicts>>

\* chain.push: the hop from the URL that was fetched to where it leads.
HopAfterMove(loc, type) == [url |-> loc, location |-> loc, type |-> type]
HopTo(loc, type) == [url |-> cur, location |-> loc, type |-> type]

\* A redirect of either kind: recorded, then checked.
Redirect(loc, type) ==
  /\ chain' = Append(chain, HopTo(loc, type))
  /\ target' = loc
  /\ pc' = "precheck"
  /\ UNCHANGED code

\* httpStatusToErrorCode
ErrorOf(s) ==
  CASE s = 403 -> "HTTP_403"
    [] s = 404 -> "HTTP_404"
    [] s = 410 -> "HTTP_410"
    [] s = 429 -> "HTTP_429"
    [] s \in 400..499 \ {403, 404, 410, 429} -> "HTTP_4XX_OTHER"
    [] s \in 500..599 -> "HTTP_5XX"
    [] OTHER -> "UNKNOWN"

\* request() fails, or answers with a redirect, an error or a body to come.
Response ==
  /\ pc = "response"
  /\ \/ Throw("NETWORK") /\ UNCHANGED <<chain, target, bytes>>
     \/ \E s \in Status :
          \/ /\ s \in RedirectStatus
             /\ \/ Throw("UNKNOWN") /\ UNCHANGED <<chain, target>>    \* no Location
                \/ \E loc \in Url : Redirect(loc, "http")
             /\ UNCHANGED bytes
          \/ /\ s \notin RedirectStatus /\ s >= 400
             /\ Throw(ErrorOf(s)) /\ UNCHANGED <<chain, target, bytes>>
          \/ /\ s < 400 /\ s \notin RedirectStatus
             /\ pc' = "body" /\ bytes' = 0
             /\ UNCHANGED <<code, chain, target>>
  /\ UNCHANGED <<caller, cur, addr, hops, visited, meta, late, requests, verdicts>>

OverCapBy1(n) == n > Cap + 1
OverCap(n) == n > Cap

\* readCapped takes the next chunk, or the stream fails.
Chunk ==
  /\ pc = "body"
  /\ \/ \E n \in 1..(Cap + 1) :
          \/ OverCap(bytes + n) /\ Throw("TOO_LARGE") /\ UNCHANGED bytes
          \/ ~OverCap(bytes + n) /\ bytes' = bytes + n /\ UNCHANGED <<pc, code>>
     \/ Throw("NETWORK") /\ UNCHANGED bytes
  /\ UNCHANGED <<caller, cur, addr, hops, visited, chain, meta, target, late, requests,
                 verdicts>>

\* The body is there: nothing in it (after decompression), a shell with a meta refresh,
\* or the page.
Page ==
  /\ pc = "body"
  /\ \/ Throw("EMPTY_BODY") /\ UNCHANGED <<chain, target>>
     \/ /\ bytes > 0
        /\ \/ \E loc \in Url : Redirect(loc, "meta_refresh")
           \/ Throw("ok") /\ UNCHANGED <<chain, target>>
  /\ UNCHANGED <<caller, cur, addr, hops, visited, meta, bytes, late, requests, verdicts>>

\* hops += 1 for both kinds of redirect.
HopsOfHttp == hops + (IF chain[Len(chain)].type = "http" THEN 1 ELSE 0)
NextHops == hops + 1

NextAddrOld(v) == addr
NextAddr(v) == v.addr

\* The answer of the check of where the redirect leads.
Precheck ==
  /\ pc = "precheck"
  /\ \E v \in Verdicts(target) :
       /\ verdicts' = verdicts \cup Pinned({v})
       /\ \/ /\ v.code # "ok" /\ Throw(v.code)
             /\ UNCHANGED <<cur, addr, hops, meta>>
          \/ /\ v.code = "ok"
             /\ pc' = "hop" /\ UNCHANGED code
             /\ cur' = target /\ addr' = NextAddr(v)
             /\ hops' = NextHops
             /\ meta' = (meta \/ chain[Len(chain)].type = "meta_refresh")
  /\ UNCHANGED <<caller, visited, chain, target, bytes, late, requests>>

\* TOTAL_TIMEOUT_MS pass since the call.
DeadlinePasses ==
  /\ pc \notin {"idle", "done"} /\ ~late
  /\ late' = TRUE
  /\ UNCHANGED <<pc, caller, locals, code, requests, verdicts>>

Next == Begin \/ Again \/ Request \/ Response \/ Chunk \/ Page \/ Precheck \/ DeadlinePasses

Spec == Init /\ [][Next]_vars

\* Continuations run; the timeouts of connect, headers and body end every wait.
FairSpec == Spec /\ WF_vars(Again \/ Request \/ Response \/ Chunk \/ Page \/ Precheck)

----------------------------------------------------------------------------
(* Properties *)

\* Each request, of a retry as of the first call, goes to an address that a check of that
\* very URL has pinned, and no address of the answer it was taken from is blocked: a name
\* that resolves differently a moment later changes nothing (safe-fetch.ts, "IP 핀").
ConnectsWhereChecked ==
  \A i \in 1..Len(requests) :
    \E v \in verdicts :
      /\ v.all \cap Blocked = {}
      /\ requests[i] = [url |-> v.url, addr |-> v.addr]
      /\ v.addr \in v.all

\* A call makes at most MaxHops + 1 requests, http redirects and meta refreshes together,
\* and a page that is returned is at most MaxHops away.
HopsBounded ==
  /\ Len(requests) <= MaxHops + 1
  /\ code = "ok" => Len(chain) <= MaxHops

\* No call fetches two URLs that differ in their fragment only, nor one twice.
NoPageTwice ==
  \A i, j \in 1..Len(requests) :
    Canonical[requests[i].url] = Canonical[requests[j].url] => i = j

\* The redirect chain of a page is the way that was walked: it starts at the URL of the
\* crawl, each hop where the one before led to, and ends at final_url; every URL of it
\* was requested, in this order; followed_meta_refresh says whether one was a meta refresh.
ChainIsTheWay ==
  code = "ok" =>
    LET way == [i \in 1..Len(chain) |-> chain[i].url] IN
    /\ Append(way, cur) = [i \in 1..Len(requests) |-> requests[i].url]
    /\ <<start>> \o [i \in 1..Len(chain) |-> chain[i].location] = Append(way, cur)
    /\ meta = \E i \in 1..Len(chain) : chain[i].type = "meta_refresh"

\* The fetch of a crawl ends for good, with a page, an error, or a 403 to the last user
\* agent: whatever the servers do, hops, body and retries are all bounded.
FetchEnds ==
  pc # "idle" ~> pc = "done" /\ (IsBotBlock(code) => retries = MaxRetries)

================================================================================
