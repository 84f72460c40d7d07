---------------------------- MODULE UnfurlCache ----------------------------
(***************************************************************************)
(* The cache layer of the unfurl service (service/src/cache): requests and *)
(* background refreshers of several API processes over one Redis, one L1   *)
(* per process and one Postgres.  An action is what runs between two       *)
(* awaits of getUnfurl, crawlAndStore or triggerBgRefresh.  The crawl      *)
(* itself (fetchOg) is one step with any of the results the site allows.   *)
(***************************************************************************)
EXTENDS Integers, Sequences, FiniteSets

CONSTANTS
  Request,      \* client requests; each is issued at most once
  Node,         \* API processes
  Norm,         \* the URLs clients send, after normalizeUrl
  Invalid,      \* those that normalizeUrl rejects; they stand for the raw text
  Pk,           \* payload keys
  Results,      \* Results[n]: what a crawl of n may return
  None,         \* a model value: no value
  CompleteTtl, PartialTtl,  \* TTL of a payload above and below COMPLETE_THRESHOLD
  Neg4xxTtl, Neg5xxTtl,     \* TTL of a negative entry
  MapTtl, L1Ttl, LockTtl,
  HoldMax,      \* bound: longest time from the start of a crawl to its end
  PollMax,      \* polls of a request that lost the lock
  MaxNow,       \* bound: the clock stops here
  MaxFaults,    \* bound: Redis or Postgres commands that fail
  MaxCrashes    \* bound: process crashes

\* `final` is the normal form of final_url; `moved`: final_url as it stands is not the URL
\* asked for, and there is a redirect_chain.  `cached`: redirects were skipped because
\* og:short knew the final URL.  `row`: the crawl wrote its own attempt row, as fail() does; a card that finalize() scored 0 is a
\* failure too, and has none.
Succeeded(x) == x.kind \in {"complete", "partial"}
Kind == {"complete", "partial", "fail4xx", "fail5xx"}
Result == {x \in [kind : Kind, final : Norm, pk : Pk,
                    moved : BOOLEAN, cached : BOOLEAN, row : BOOLEAN] :
             x.row => ~Succeeded(x)}

ASSUME CacheAssumption ==
  /\ Invalid \subseteq Norm
  /\ Results \in [Norm -> SUBSET Result]
  /\ \A n \in Invalid : \A x \in Results[n] : x.kind = "fail4xx"
  /\ None \notin Norm \cup Pk \cup Node \cup (Request \X {"fg", "bg"})
  /\ {CompleteTtl, PartialTtl, Neg4xxTtl, Neg5xxTtl, MapTtl, L1Ttl, LockTtl, PollMax}
       \subseteq Nat \ {0}
  /\ {HoldMax, MaxNow, MaxFaults, MaxCrashes} \subseteq Nat

VARIABLES
  now,
  map, payload, neg, lock, short,   \* Redis
  l1,                               \* per process
  attempts, crawls,                 \* Postgres: rows per crawl, crawls with a copy
  pc, url, node, polls, pk, held, since, res, at,   \* one async call chain
  answer,                           \* what a request returned
  faults, crashes,
  \* Observation only: whether a request had refresh=true, the tasks that had ended
  \* when it came, the crawls in the order their results reached Redis, and how often
  \* the lock of a URL expired under a holder that was still at work.
  refresh, past, history, lapsed

redis == <<map, payload, neg, lock, short>>
local == <<url, node, polls, pk, held, since, res, at>>
ghost == <<refresh, past, history, lapsed>>
vars == <<now, redis, l1, attempts, crawls, pc, local, answer, faults, crashes, ghost>>

\* A task is an async call chain: the request itself or the refresh it started.
Task == {<<r, c>> : r \in Request, c \in {"fg", "bg"}}
Fg(r) == <<r, "fg">>
Bg(r) == <<r, "bg">>

Entry == [by : Task, exp : Nat]
NoEntry == [by |-> None, exp |-> 0]
NoMap == [pk |-> None, exp |-> 0]
NoResult == [kind |-> "none", final |-> None, pk |-> None,
             moved |-> FALSE, cached |-> FALSE, row |-> FALSE]
NoAnswer == [kind |-> "none", by |-> None]

\* ttlFor: the logical TTL of a result.
Ttl(x) == CASE x.kind = "complete" -> CompleteTtl
            [] x.kind = "partial"  -> PartialTtl
            [] x.kind = "fail5xx"  -> Neg5xxTtl
            [] OTHER               -> Neg4xxTtl

\* freshness(): an entry names the crawl it copies, whose `at` is fetched_at_ms.
Fresh(t) == now - at[t] < Ttl(res[t])
Stale(t) == ~Fresh(t) /\ 5 * (now - at[t]) < 6 * Ttl(res[t])

\* What Redis keeps: ceil(ttl * 1.2).
PhysicalTtl(x) == (6 * Ttl(x) + 4) \div 5

Crawling == {"crawl", "attempt", "setPayload", "setMap", "setFinal", "setShort",
             "writeCrawl", "setNeg", "unlock"}
Label == Crawling \cup {"idle", "getMap", "getPayload", "getNeg", "setNx", "done", "dead"}

SharedOK ==
  /\ now \in Nat
  /\ map \in [Norm -> [pk : Pk, exp : Nat] \cup {NoMap}]
  /\ payload \in [Pk -> Entry \cup {NoEntry}]
  /\ neg \in [Norm -> Entry \cup {NoEntry}]
  /\ lock \in [Norm -> Nat]
  /\ short \in SUBSET Norm
  /\ l1 \in [Node -> [Norm -> Entry \cup {NoEntry}]]
  /\ attempts \in [Task -> Nat]
  /\ crawls \in SUBSET Task

ChainOK ==
  /\ pc \in [Task -> Label]
  /\ polls \in [Task -> Nat]
  /\ pk \in [Task -> Pk \cup {None}]
  /\ held \in [Task -> BOOLEAN]
  /\ since \in [Task -> Nat]

PlaceOK ==
  /\ url \in [Task -> Norm \cup {None}]
  /\ node \in [Task -> Node \cup {None}]
  /\ res \in [Task -> Result \cup {NoResult}]
  /\ at \in [Task -> Nat]

AnswerOK ==
  answer \in [Request -> [kind : {"none", "hit", "stale", "negative", "miss"},
                         by : Task \cup {None}]]

ObservedOK ==
  /\ faults \in Nat
  /\ crashes \in Nat
  /\ refresh \in [Request -> BOOLEAN]
  /\ past \in [Request -> SUBSET Task]
  /\ history \in Seq(Task)
  /\ lapsed \in [Norm -> Nat]

TypeOK == SharedOK /\ ChainOK /\ PlaceOK /\ AnswerOK /\ ObservedOK

Init ==
  /\ now = 0
  /\ map = [n \in Norm |-> NoMap]
  /\ payload = [p \in Pk |-> NoEntry]
  /\ neg = [n \in Norm |-> NoEntry]
  /\ lock = [n \in Norm |-> 0]
  /\ short = {}
  /\ l1 = [nd \in Node |-> [n \in Norm |-> NoEntry]]
  /\ attempts = [t \in Task |-> 0]
  /\ crawls = {}
  /\ pc = [t \in Task |-> "idle"]
  /\ url = [t \in Task |-> None]
  /\ node = [t \in Task |-> None]
  /\ polls = [t \in Task |-> 0]
  /\ pk = [t \in Task |-> None]
  /\ held = [t \in Task |-> FALSE]
  /\ since = [t \in Task |-> 0]
  /\ res = [t \in Task |-> NoResult]
  /\ at = [t \in Task |-> 0]
  /\ answer = [r \in Request |-> NoAnswer]
  /\ faults = 0
  /\ crashes = 0
  /\ refresh = [r \in Request |-> FALSE]
  /\ past = [r \in Request |-> {}]
  /\ history = <<>>
  /\ lapsed = [n \in Norm |-> 0]

----------------------------------------------------------------------------
(* Helpers *)

\* One command to Redis or Postgres.  The adapters swallow errors; a command
\* that times out may have been applied all the same.
Command(ok, applied) ==
  \/ ok /\ applied /\ UNCHANGED faults
  \/ ~ok /\ faults < MaxFaults /\ faults' = faults + 1

Forget(t) ==
  /\ polls' = [polls EXCEPT ![t] = 0]
  /\ pk' = [pk EXCEPT ![t] = None]
  /\ held' = [held EXCEPT ![t] = FALSE]
  /\ since' = [since EXCEPT ![t] = 0]

Answer(t, kind, by) ==
  answer' = IF t[2] = "fg"
              THEN [answer EXCEPT ![t[1]] = [kind |-> kind, by |-> by]]
              ELSE answer

Return(t, kind, by) ==
  /\ pc' = [pc EXCEPT ![t] = "done"]
  /\ Answer(t, kind, by)
  /\ Forget(t)

Goto(t, l) == pc' = [pc EXCEPT ![t] = l]

BeginCrawl(t, locked) ==
  /\ Goto(t, "crawl")
  /\ held' = [held EXCEPT ![t] = locked]
  /\ since' = [since EXCEPT ![t] = now]

----------------------------------------------------------------------------
(* getUnfurl *)

\* The L1 answers only with a fresh copy, and refresh=true does not ask it.
L1Hit(nd, n, rf) == ~rf /\ l1[nd][n] # NoEntry /\ Fresh(l1[nd][n].by)

\* The first await of a request that L1 does not answer.
FirstReadNeg(rf) == IF rf THEN "setNx" ELSE "getNeg"
FirstRead(rf) == IF rf THEN "setNx" ELSE "getMap"

\* A request enters: normalizeUrl and the L1 lookup run before the first await.
\* An INVALID_URL goes straight to crawlAndStore, refresh=true straight to the lock.
Arrive(r) ==
  LET t == Fg(r) IN
  /\ pc[t] = "idle"
  /\ \E n \in Norm, nd \in Node, rf \in BOOLEAN :
       /\ url' = [url EXCEPT ![t] = n]
       /\ node' = [node EXCEPT ![t] = nd]
       /\ refresh' = [refresh EXCEPT ![r] = rf]
       /\ \/ n \in Invalid /\ BeginCrawl(t, FALSE) /\ UNCHANGED <<answer, polls, pk>>
          \/ n \notin Invalid /\ L1Hit(nd, n, rf) /\ Return(t, "hit", l1[nd][n].by)
          \/ /\ n \notin Invalid /\ ~L1Hit(nd, n, rf)
             /\ Goto(t, FirstRead(rf))
             /\ UNCHANGED <<answer, polls, pk, held, since>>
  /\ past' = [past EXCEPT ![r] = {u \in Task : pc[u] = "done"}]
  /\ UNCHANGED <<now, redis, l1, attempts, crawls, res, at, faults, crashes, history,
                 lapsed>>

\* The value of og:map is a payload key.
MapValueRaw(n) == map[n]
MapValue(n) == map[n].pk

\* GET og:map, in the lookup and at the start of a poll (after its 100 ms sleep).
GetMap(t) ==
  /\ pc[t] = "getMap"
  /\ \E ok \in BOOLEAN :
       /\ Command(ok, ok)
       /\ IF ok /\ map[url[t]] # NoMap
            THEN pk' = [pk EXCEPT ![t] = MapValue(url[t])] /\ Goto(t, "getPayload")
            ELSE Goto(t, "getNeg") /\ UNCHANGED pk
  /\ UNCHANGED <<now, redis, l1, attempts, crawls, url, node, polls, held, since, res,
                 at, answer, crashes, ghost>>

\* GET og:pl in the lookup: a fresh payload goes to L1 and is the answer, a stale
\* one is the answer and starts the background refresh, anything else is a miss.
LookupPayload(r) ==
  LET t == Fg(r)
      e == payload[pk[t]]
  IN
  /\ pc[t] = "getPayload" /\ polls[t] = 0
  /\ \E ok \in BOOLEAN :
       /\ Command(ok, ok)
       /\ \/ /\ ok /\ e # NoEntry /\ Fresh(e.by)
             /\ l1' = [l1 EXCEPT ![node[t]][url[t]] = [by |-> e.by, exp |-> now + L1Ttl]]
             /\ Return(t, "hit", e.by)
             /\ UNCHANGED <<url, node>>
          \/ /\ ok /\ e # NoEntry /\ Stale(e.by)
             /\ pc' = [pc EXCEPT ![t] = "done", ![Bg(r)] = "setNx"]
             /\ Answer(t, "stale", e.by)
             /\ Forget(t)
             /\ url' = [url EXCEPT ![Bg(r)] = url[t]]
             /\ node' = [node EXCEPT ![Bg(r)] = node[t]]
             /\ UNCHANGED l1
          \/ /\ ~(ok /\ e # NoEntry /\ (Fresh(e.by) \/ Stale(e.by)))
             /\ Goto(t, "getNeg")
             /\ UNCHANGED <<l1, url, node, polls, pk, held, since, answer>>
  /\ UNCHANGED <<now, redis, attempts, crawls, res, at, crashes, ghost>>

\* GET og:pl in a poll: whatever is there is the answer.
PollPayload(r) ==
  LET t == Fg(r)
      e == payload[pk[t]]
  IN
  /\ pc[t] = "getPayload" /\ polls[t] > 0
  /\ \E ok \in BOOLEAN :
       /\ Command(ok, ok)
       /\ IF ok /\ e # NoEntry
            THEN Return(t, "hit", e.by)
            ELSE Goto(t, "getNeg") /\ UNCHANGED <<polls, pk, held, since, answer>>
  /\ UNCHANGED <<now, redis, l1, attempts, crawls, url, node, res, at, crashes, ghost>>

\* The poll counter of the waiting loop, and what follows its end: the crawl
\* without the lock, outside the try whose finally deletes it.
NextPoll(t) == polls[t] + 1
GiveUpNever(t) == Goto(t, "getMap") /\ UNCHANGED <<held, since>>
GiveUpAsHolder(t) == BeginCrawl(t, TRUE)
GiveUp(t) == BeginCrawl(t, FALSE)

\* GET og:neg: the answer if there is one; otherwise the lookup goes for the lock,
\* a poll to the next one, the last poll to a crawl of its own without the lock.
GetNeg(r) ==
  LET t == Fg(r)
      e == neg[url[t]]
  IN
  /\ pc[t] = "getNeg"
  /\ \E ok \in BOOLEAN :
       /\ Command(ok, ok)
       /\ \/ ok /\ e # NoEntry /\ Return(t, "negative", e.by)
          \/ /\ ok => e = NoEntry
             /\ \/ /\ polls[t] = 0
                   /\ Goto(t, "setNx") /\ UNCHANGED <<polls, held, since>>
                \/ /\ polls[t] \in 1..(PollMax - 1)
                   /\ polls' = [polls EXCEPT ![t] = NextPoll(t)]
                   /\ Goto(t, "getMap") /\ UNCHANGED <<held, since>>
                \/ /\ polls[t] = PollMax
                   /\ GiveUp(t) /\ UNCHANGED polls
             /\ pk' = [pk EXCEPT ![t] = None]
             /\ UNCHANGED answer
  /\ UNCHANGED <<now, redis, l1, attempts, crawls, url, node, res, at, crashes, ghost>>

\* NX: only when there is no lock.
LockFreeAlways(t) == TRUE
LockFree(t) == lock[url[t]] = 0

\* SET og:lock NX EX.  An error counts as acquired (fail-open).  A request that
\* loses polls; a background refresh that loses ends.
SetNx(t) ==
  LET free == LockFree(t)
      taken == [lock EXCEPT ![url[t]] = now + LockTtl]
  IN
  /\ pc[t] = "setNx"
  /\ \E ok, applied \in BOOLEAN :
       /\ Command(ok, applied)
       /\ lock' = IF applied /\ free THEN taken ELSE lock
       /\ \/ /\ ok => free
             /\ BeginCrawl(t, TRUE)
             /\ UNCHANGED <<polls, pk, answer>>
          \/ /\ ok /\ ~free /\ t[2] = "fg"
             /\ Goto(t, "getMap")
             /\ polls' = [polls EXCEPT ![t] = 1]
             /\ UNCHANGED <<pk, held, since, answer>>
          \/ ok /\ ~free /\ t[2] = "bg" /\ Return(t, "none", None)
  /\ UNCHANGED <<now, map, payload, neg, short, l1, attempts, crawls, url, node, res, at,
                 crashes, ghost>>

\* DEL og:lock in the finally block, whoever set it.
ReleasedNever(t) == lock
Released(t) == [lock EXCEPT ![url[t]] = 0]
Unlock(t) ==
  /\ pc[t] = "unlock"
  /\ \E ok, applied \in BOOLEAN :
       /\ Command(ok, applied)
       /\ lock' = IF applied THEN Released(t) ELSE lock
  /\ Return(t, "miss", t)
  /\ UNCHANGED <<now, map, payload, neg, short, l1, attempts, crawls, url, node, res, at,
                 crashes, ghost>>

----------------------------------------------------------------------------
(* crawlAndStore *)

\* A success goes on to crawl_attempts first, a failure to og:neg.
AfterCrawlUnlogged(x) == IF Succeeded(x) THEN "setPayload" ELSE "setNeg"
AfterCrawl(x) == IF Succeeded(x) THEN "attempt" ELSE "setNeg"

\* fetchOg returns; fail() has written its row.
\* Only a rule can make a host a short link, so og:short may be known and not asked.
Crawl(t) ==
  /\ pc[t] = "crawl"
  /\ \E x \in Results[url[t]], ok, applied \in BOOLEAN :
       /\ x.cached => url[t] \in short
       /\ res' = [res EXCEPT ![t] = x]
       /\ IF x.row
            THEN /\ Command(ok, applied)
                 /\ attempts' = [attempts EXCEPT ![t] = IF applied THEN @ + 1 ELSE @]
            ELSE ok /\ applied /\ UNCHANGED <<faults, attempts>>
       /\ Goto(t, AfterCrawl(x))
  /\ UNCHANGED <<now, redis, l1, crawls, url, node, polls, pk, held, since, at, answer,
                 crashes, ghost>>

\* What the end of crawlAndStore continues with: the finally block of a holder,
\* or the answer.
AfterStore(t) ==
  IF held[t] THEN Goto(t, "unlock") /\ UNCHANGED <<answer, polls, pk, held, since>>
             ELSE Return(t, "miss", t)

\* A failure is kept under the URL that was asked for.
NegKeyFinal(t) == res[t].final
NegKey(t) == url[t]

\* SETEX og:neg for a failure.
SetNeg(t) ==
  /\ pc[t] = "setNeg"
  /\ \E ok, applied \in BOOLEAN :
       /\ Command(ok, applied)
       /\ neg' = IF applied
                   THEN [neg EXCEPT ![NegKey(t)] = [by |-> t, exp |-> now + Ttl(res[t])]]
                   ELSE neg
       /\ history' = IF applied THEN Append(history, t) ELSE history
  /\ AfterStore(t)
  /\ UNCHANGED <<now, map, payload, lock, short, l1, attempts, crawls, url, node, res, at,
                 crashes, refresh, past, lapsed>>

\* The row of a success, before any cache shows it; then fetched_at_ms is taken.
WriteAttempt(t) ==
  /\ pc[t] = "attempt"
  /\ \E ok, applied \in BOOLEAN :
       /\ Command(ok, applied)
       /\ attempts' = [attempts EXCEPT ![t] = IF applied THEN @ + 1 ELSE @]
  /\ at' = [at EXCEPT ![t] = now]
  /\ Goto(t, "setPayload")
  /\ UNCHANGED <<now, redis, l1, crawls, url, node, polls, pk, held, since, res, answer,
                 crashes, ghost>>

\* The three SETEX of the Promise.all reach Redis in the order they are issued.
SetPayload(t) ==
  /\ pc[t] = "setPayload"
  /\ \E ok, applied \in BOOLEAN :
       /\ Command(ok, applied)
       /\ payload' = IF applied
                       THEN [payload EXCEPT ![res[t].pk] =
                               [by |-> t, exp |-> now + PhysicalTtl(res[t])]]
                       ELSE payload
  /\ Goto(t, "setMap")
  /\ UNCHANGED <<now, map, neg, lock, short, l1, attempts, crawls, local, answer, crashes,
                 ghost>>

SetMap(t) ==
  /\ pc[t] = "setMap"
  /\ \E ok, applied \in BOOLEAN :
       /\ Command(ok, applied)
       /\ map' = IF applied
                   THEN [map EXCEPT ![url[t]] = [pk |-> res[t].pk, exp |-> now + MapTtl]]
                   ELSE map
       /\ history' = IF applied THEN Append(history, t) ELSE history
  /\ Goto(t, "setFinal")
  /\ UNCHANGED <<now, payload, neg, lock, short, l1, attempts, crawls, local, answer,
                 crashes, refresh, past, lapsed>>

\* The reverse mapping of final_url; once all three are answered, L1.
SetFinal(t) ==
  /\ pc[t] = "setFinal"
  /\ \E ok, applied \in BOOLEAN :
       /\ Command(ok, applied)
       /\ map' = IF applied
                   THEN [map EXCEPT ![res[t].final] =
                           [pk |-> res[t].pk, exp |-> now + MapTtl]]
                   ELSE map
  /\ l1' = [l1 EXCEPT ![node[t]][url[t]] = [by |-> t, exp |-> now + L1Ttl]]
  /\ Goto(t, IF res[t].moved /\ ~res[t].cached THEN "setShort" ELSE "writeCrawl")
  /\ UNCHANGED <<now, payload, neg, lock, short, attempts, crawls, local, answer, crashes,
                 ghost>>

\* SETEX og:short for a crawl that was redirected.
SetShort(t) ==
  /\ pc[t] = "setShort"
  /\ \E ok, applied \in BOOLEAN :
       /\ Command(ok, applied)
       /\ short' = IF applied THEN short \cup {url[t]} ELSE short
  /\ Goto(t, "writeCrawl")
  /\ UNCHANGED <<now, map, payload, neg, lock, l1, attempts, crawls, local, answer,
                 crashes, ghost>>

\* The Postgres copy of the payload.
WriteCrawl(t) ==
  /\ pc[t] = "writeCrawl"
  /\ \E ok, applied \in BOOLEAN :
       /\ Command(ok, applied)
       /\ crawls' = IF applied THEN crawls \cup {t} ELSE crawls
  /\ AfterStore(t)
  /\ UNCHANGED <<now, redis, l1, attempts, url, node, res, at, crashes, ghost>>

----------------------------------------------------------------------------
(* Environment *)

\* Holders of the single-flight lock of n: between a successful SET NX and the DEL.
Holders(n) == {t \in Task : held[t] /\ url[t] = n}

\* Time passes: entries expire, the lock of a crawl that is still running like any other.
\* A crawl ends within HoldMax of its start.
Tick ==
  LET alive(e) == e.exp > now + 1 IN
  /\ now < MaxNow
  /\ \A t \in Task : pc[t] \in Crawling => now < since[t] + HoldMax
  /\ now' = now + 1
  /\ map' = [n \in Norm |-> IF alive(map[n]) THEN map[n] ELSE NoMap]
  /\ payload' = [p \in Pk |-> IF alive(payload[p]) THEN payload[p] ELSE NoEntry]
  /\ neg' = [n \in Norm |-> IF alive(neg[n]) THEN neg[n] ELSE NoEntry]
  /\ lock' = [n \in Norm |-> IF lock[n] > now + 1 THEN lock[n] ELSE 0]
  /\ l1' = [nd \in Node |-> [n \in Norm |->
              IF l1[nd][n].exp >= now + 1 THEN l1[nd][n] ELSE NoEntry]]
  /\ lapsed' = [n \in Norm |->
                  IF lock[n] # 0 /\ lock'[n] = 0 /\ Holders(n) # {}
                    THEN lapsed[n] + 1 ELSE lapsed[n]]
  /\ UNCHANGED <<short, attempts, crawls, pc, local, answer, faults, crashes,
                 refresh, past, history>>

\* A process dies and restarts: its tasks end where they are, its L1 is empty.
Crash(nd) ==
  /\ crashes < MaxCrashes
  /\ crashes' = crashes + 1
  /\ LET dead == {t \in Task : node[t] = nd /\ pc[t] \notin {"idle", "done", "dead"}} IN
     /\ pc' = [t \in Task |-> IF t \in dead THEN "dead" ELSE pc[t]]
     /\ held' = [t \in Task |-> held[t] /\ t \notin dead]
     /\ polls' = [t \in Task |-> IF t \in dead THEN 0 ELSE polls[t]]
     /\ pk' = [t \in Task |-> IF t \in dead THEN None ELSE pk[t]]
     /\ since' = [t \in Task |-> IF t \in dead THEN 0 ELSE since[t]]
  /\ l1' = [l1 EXCEPT ![nd] = [n \in Norm |-> NoEntry]]
  /\ UNCHANGED <<now, redis, attempts, crawls, url, node, res, at, answer, faults, ghost>>

Step(t) ==
  \/ GetMap(t) \/ SetNx(t) \/ Unlock(t)
  \/ Crawl(t) \/ SetNeg(t) \/ WriteAttempt(t) \/ SetPayload(t) \/ SetMap(t)
  \/ SetFinal(t) \/ SetShort(t) \/ WriteCrawl(t)

Lookup(r) == LookupPayload(r) \/ PollPayload(r) \/ GetNeg(r)

Next ==
  \/ Tick
  \/ \E r \in Request : Arrive(r) \/ Lookup(r)
  \/ \E t \in Task : Step(t)
  \/ \E nd \in Node : Crash(nd)

Spec == Init /\ [][Next]_vars

\* The event loop runs every ready continuation; clients and crashes owe nothing.
FairSpec ==
  /\ Spec
  /\ \A r \in Request : WF_vars(Lookup(r))
  /\ \A t \in Task : WF_vars(Step(t))

----------------------------------------------------------------------------
(* Properties *)

\* Who holds the lock of a URL beside another holder owes it to a command that failed
\* (SET NX fails open, a lost DEL) or to a lock that expired under its holder: DEL does
\* not look whose lock it deletes (unfurl-cache.ts 201), yet a lapse lets in one holder too
\* many at a time and never more, however many crawls delete each other's lock after it.
HoldersOwed == \A n \in Norm : Cardinality(Holders(n)) <= 1 + lapsed[n] + faults

\* The lock implements a mutex per URL that leaks: a task enters beside as many others as
\* there were lapses and failed commands, one task at a time, and only by SET NX; who
\* gives up polling never counts as a holder (unfurl-cache.ts 226).
Mutex == INSTANCE KeyedMutex WITH
           Key <- Norm, Owner <- Task, holders <- [n \in Norm |-> Holders(n)],
           leaks <- [n \in Norm |-> lapsed[n] + faults]
LockIsALeakyMutex == Mutex!Spec

\* docs/01_platform.md 195 and 262: the lock is taken for LOCK_TTL_SEC, and concurrent
\* requests for a URL crawl it once.  So while Redis answers, no two crawls that took the
\* lock of a URL run at once, each within the time it took it for.
LeasesExclude ==
  faults = 0 =>
    \A n \in Norm : \A t, u \in {h \in Holders(n) : now < since[h] + LockTtl} : t = u

\* A stale answer is put right (stale-while-revalidate, unfurl-cache.ts 173 and 293): the
\* refresh that was started is waiting for the lock, or a crawl of the URL that was not
\* over when the request came is running, has a result or died.  A refresh that loses the
\* lock may end, because a lock is there only while its holder crawls or after it died.
StaleIsRefreshed ==
  \A r \in Request :
    answer[r].kind = "stale" /\ faults = 0 =>
      \/ pc[Bg(r)] = "setNx"
      \/ \E t \in Task \ past[r] :
           url[t] = url[Fg(r)] /\ (pc[t] \in Crawling \cup {"dead"} \/ res[t] # NoResult)

\* An answer is about the page that was asked for: the crawl it copies and a crawl of
\* this URL (or one that was redirected to it) agree on the payload key.
AnswerIsThePage ==
  \A r \in Request :
    LET got == answer[r]
        n == url[Fg(r)]
    IN
    /\ got.kind \in {"miss", "negative"} => url[got.by] = n
    /\ got.kind \in {"hit", "stale"} =>
         \E t \in Task : /\ Succeeded(res[t]) /\ Succeeded(res[got.by])
                         /\ n \in {url[t], res[t].final}
                         /\ res[t].pk = res[got.by].pk

\* While Postgres answers, nothing a cache can show is missing from crawl_attempts,
\* and every copy in crawls has its row (the order attempt, cache, crawls).
Visible ==
  {payload[p].by : p \in Pk} \cup {l1[nd][n].by : nd \in Node, n \in Norm} \cup crawls
AttemptBeforeVisible ==
  faults = 0 => \A t \in Visible \ {None} : attempts[t] = 1

\* A request never gets a failure that is older than a success that was stored, and
\* its crawl over, before the request came: nothing deletes og:neg on success, it is the TTLs that save it.
NegNeverMasksSuccess ==
  \A r \in Request :
    answer[r].kind = "negative" =>
      \A i, j \in 1..Len(history) :
        ~ /\ history[i] = answer[r].by
          /\ i < j /\ history[j] \in past[r]
          /\ Succeeded(res[history[j]]) /\ url[history[j]] = url[Fg(r)]

\* A request on a process that stays up is answered, even if the holder it waits for
\* has died with the lock or Redis loses commands.
Answered ==
  \A r \in Request :
    pc[Fg(r)] \notin {"idle", "done", "dead"} ~> pc[Fg(r)] \in {"done", "dead"}

\* unfurl-cache.ts 140: refresh=true ignores the cache and crawls again, so its
\* answer is not the result of a crawl that had ended before it came.
RefreshRecrawls ==
  \A r \in Request :
    refresh[r] /\ answer[r] # NoAnswer => answer[r].by \notin past[r]

============================================================================
