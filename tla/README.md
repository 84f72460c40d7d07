# TLA+ models of the OpenGraph unfurl service

The service under `src/service/` turns a URL into an OpenGraph card. It is a
Node program: one event loop per process, interleaving only at `await`, and
possibly several API processes over one Redis and one Postgres. The models
here follow that grain: **an action is what runs between two awaits**, and
everything a request has read before an await may have changed after it.

Paths below are relative to `src/service/src/` unless they start with `docs/`.

## 1. The system

| Component | State | Operations | Talks to |
|---|---|---|---|
| Cache layer, `cache/unfurl-cache.ts`, `redis-store.ts`, `keys.ts` | Redis: `og:map`, `og:pl`, `og:neg`, `og:lock`, `og:short`; per process `LruTtl` (L1) | `getUnfurl`, `crawlAndStore`, `triggerBgRefresh`, `getShortTarget` | calls the crawl pipeline, the crawl store and Redis; called by the API |
| Crawl pipeline, `orchestrator.ts`, `strategy/` | none of its own, one attempt at a time | `fetchOg`: rule, short link, precheck, static fetch, bot-block recovery ladder, parse, escalation (oEmbed, headless), `finalize`, `fail` | safe fetch, headless renderer, domain rules, store |
| Headless renderer, `strategy/headless.ts` | `Semaphore` (permits, queue), `browser`, `launching` | `render`, `close` | Playwright (external) |
| Safe fetch, `fetch/safe-fetch.ts` | per call: hop count, visited set, deadline | redirect loop over http 3xx and meta refresh | address guard, undici (external) |
| Address guard, `fetch/ssrf-guard.ts` | CIDR table | `ssrfPrecheck`, `isBlockedIp` | DNS |
| Domain rules, `rules/domain-rules.ts` | snapshot of the rules, learned overlay | `resolve`, `learn`, `ensureFresh` | rule table in Postgres |
| Crawl store, `persistence/` | `crawl_attempts`, `crawls`, `failed_crawls`, DLQ | `writeAttempt`, `writeCrawl`, `upsertFailedCrawl`, queries | Postgres |
| HTTP API, `api/` | none of its own (a job id answered with 202 is kept nowhere) | `/unfurl`: race of a synchronous budget against the crawl, status and cacheability of the reply | cache layer |
| URL and keys, `url/`, `cache/keys.ts` | none | normalisation, registrable domain, keys | |
| Extraction, `extract/` | none | `extractOg`: fallbacks over the sources of a document; `scoreCompleteness`; merged by `fetchOg` with oEmbed and the rendered page | |
| Errors, config, metrics, entry point, scripts | tables, wiring | | |

How they interact. The API calls `getUnfurl`. A request looks in L1, then in
Redis (`og:map` to the payload key, `og:pl` to the payload, `og:neg` to a
remembered failure). A stale payload is answered and refreshed by a call chain
nobody awaits. On a miss the request takes `og:lock` with SET NX EX: the winner
crawls, stores, and deletes the lock in a `finally`; the loser polls the cache
twenty times and then crawls on its own. `crawlAndStore` writes the attempt row
first, then the payload and its two maps, then L1, then `og:short`, then the
Postgres copy.

What is hard here, and where it is modelled:

* *Shared state across awaits and processes*: the lock, the three-step lookup,
  the order of the writes (`UnfurlCache`).
* *Partial failure*: every Redis command may fail or time out after having been
  applied, GET reads as a miss, SET NX fails open, writes are swallowed
  (`redis-store.ts:71-112`); every Postgres write too.
* *Crashes*: a process dies between SET NX and DEL.
* *Time*: the TTLs of payload, negative entry, L1 and lock, freshness against
  physical TTL (1.2 times), a crawl against the TTL of its lock.
* *A pool at its limit*: the FIFO semaphore, the shared browser that dies, is
  launched by several calls at once or closed under them (`HeadlessPool`).
* *Bounded loops over a network that answers anything*: redirects, meta
  refreshes, bodies, retries (`SafeFetch`).
* *Racing a timer*: the API gives up on a call that goes on (`UnfurlServer`).
* *One value, many writers*: five sources and three stages fill the fields of a card,
  its images, its source map and its score, each by a rule of its own (`Extraction`).
* *A cache at its capacity* (`LruTtl`), and the two pure functions everything rests on:
  the normal form that is the key (`UrlNormal`), the address table (`AddressGuard`).
* *Learning*: what one crawl learns decides the next, while others are under way
  and the rules are reloaded (`CrawlLadder`, `DomainRules`).

`PROJECT.json` lists every hazard with its line and the properties that cover
it; those with none say why.

What makes each component correct:

* cache: one holder of the lock of a URL at a time, but for locks that lapse under
  their holder and commands that fail; an answer is a copy of the page that was
  asked for; a stale answer is put right; an old failure does not mask a newer
  success; the attempt is logged before anything shows it; every request is
  answered.
* renderer: permits neither lost nor doubled, first come first served, no second
  browser but where calls of `close()` overlap, every call returns.
* safe fetch: hops bounded, no URL fetched twice, only checked addresses
  connected to, termination within the deadline.
* pipeline and rules: what a stage found is kept by the later ones, the browser is
  the last resort, no user agent is tried twice, every block teaches the domain that
  was asked something, which is what the next resolve sees and is not lost.
* store: rollup equals the attempts it summarises.
* API: a reply agrees with what was found, only cards are kept by shared caches, and a
  crawl that lost the race still fills the cache; who asks again does not crawl.
* extraction: each field is the first valid value the sources offer, the source map says which,
  the image is the first of the images, the score is that of the card answered.
* L1 and keys: a bounded map with a TTL; one key per page, one page per key.
* address guard: the masks of the table are the reserved ranges, to the bit.

## 2. Modules

| Module | Models | State |
|---|---|---|
| `UnfurlCache` | the cache layer with its Redis, L1 and Postgres writes; the crawl as one step | done |
| `KeyedMutex` | abstract: a mutex per key that may leak, what the single-flight lock keeps | done |
| `MCUnfurlCache` | constants for TLC: sites, symmetry, view | done |
| `UnfurlCacheProofs` | theorems about `UnfurlCache` | seven theorems |
| `HeadlessPool`, `MCHeadlessPool` | semaphore, browser, `render`, `close` | done |
| `HeadlessPoolProofs` | theorems about `HeadlessPool` | four theorems |
| `SafeFetch` | the redirect loop with hop bound, loop check, per-hop check, deadline and body cap, and the retries of the recovery ladder | done |
| `SafeFetchProofs` | theorems about `SafeFetch` | five theorems |
| `DomainRules` | rule snapshot with TTL reload, learned overlay, `resolve` | done |
| `CrawlStore` | attempt rows, the `failed_crawls` rollup, `topFailures` | done |
| `CrawlLadder`, `MCCrawlLadder` | composes both with `fetchOg`: recovery, escalation, `finalize`, `fail` | done |
| `CrawlLadderProofs` | theorems about the three | nine theorems |
| `UnfurlServer`, `MCUnfurlServer` | composes `UnfurlCache` with the handler of `GET /unfurl` | done |
| `UnfurlServerProofs` | theorems about the two, on those of `UnfurlCacheProofs` | two theorems |
| `AddressGuard` | operators: the CIDR table, `isBlockedIp`, the checks before DNS; the reserved ranges as reference | done |
| `GuardedFetch`, `MCGuardedFetch` | composes `SafeFetch` with `AddressGuard` | done |
| `GuardedFetchProofs` | theorems about the two, on those of `SafeFetchProofs` | three theorems |
| `Extraction`, `MCExtraction` | `extractOg` and the merging of its result with oEmbed and the rendered page | done |
| `ExtractionProofs` | theorems about `Extraction` | four theorems |
| `UrlNormal` | operators: `normalizeUrl`; what makes two URLs one page, as reference | done |
| `BoundedMap` | abstract: a map with a capacity and a TTL, what the L1 promises | done |
| `LruTtl`, `MCLruTtl` | the L1 with its capacity and recency, keyed by `UrlNormal` | done |
| `LruTtlProofs` | theorems about `UrlNormal`, `LruTtl` and the refinement | four theorems |

What is left to TLC, and why, is at the end of section 10.

## 3. `UnfurlCache`

A *task* is one async call chain: `Fg(r)` is request `r` itself, `Bg(r)` the
refresh it started. `pc[t]` names the await the task is at, and the local
variables of the chain are `url` (the normalised URL), `node` (its process),
`polls`, `pk` (the value read from `og:map`), `held` (inside the `try` whose
`finally` deletes the lock), `since` (when the crawl began), `res` and `at`
(the result and its `fetched_at_ms`).

| Code (`cache/unfurl-cache.ts`) | Action |
|---|---|
| `getUnfurl` up to its first await, L1 hit, INVALID_URL | `Arrive` |
| `GET og:map` / `GET og:pl` / `GET og:neg`, in lookup and poll | `GetMap`, `LookupPayload`, `PollPayload`, `GetNeg` |
| `SET og:lock NX EX`; `DEL` in the `finally` | `SetNx`, `Unlock` |
| `fetchOg` | `Crawl` |
| `crawlAndStore`, one step per await | `SetNeg`, `WriteAttempt`, `SetPayload`, `SetMap`, `SetFinal`, `SetShort`, `WriteCrawl` |
| `triggerBgRefresh` | the `Bg` branch of `LookupPayload`, `SetNx`, `Unlock` |
| `freshness`, `ttlFor`, ceil(1.2 ttl) | `Fresh`, `Stale`, `Ttl`, `PhysicalTtl` |
| expiry in Redis and L1; process death | `Tick`, `Crash` |

Abstractions, and what they keep:

* A payload or a negative entry is the *name of the crawl it copies*
  (`[by, exp]`). JSON encoding is left out; everything a property tells apart
  (kind, final URL, payload key, `fetched_at_ms`) is in `res` and `at` of that
  task.
* `Results[n]` is the set of results a crawl of `n` may return. In it `row`
  says whether the crawl wrote its own attempt row: `fail()` does, a card that
  `finalize()` scored 0 does not. `final` is the normal form of `final_url`;
  `moved` says that `final_url` as it stands is not the URL asked for and there is a
  redirect chain, which a spelling may decide (`unfurl-cache.ts:273`). `cached` says
  that the redirects were skipped because `og:short` knew the target. The failure row of `fail()` is part of
  the crawl step; the `failed_crawls` upsert beside it belongs to `CrawlStore`.
* `Command(ok, applied)` is one Redis or Postgres command: it works, or (at most
  `MaxFaults` times) it is reported as failed, applied or not.
* The three SETEX of the `Promise.all` reach Redis in the order they are
  issued: one `ioredis` connection keeps its order and the in-memory client is
  synchronous. Each is a step, so a reader may see any prefix.
* `now` counts abstract units; an entry is gone at its expiry, a lock too, whether
  its holder is done or not. `Tick` waits for a crawl that has lasted `HoldMax`, a
  bound of the model: the code has none (four static fetches of 8 s, the wait for a
  render permit, a render), so nothing is assumed of `HoldMax` against `LockTtl` and
  the runs about the lock have `HoldMax >= LockTtl`. `HoldMax = 0` stands for the two
  scales of the code, crawls of seconds and payload TTLs of hours: within one unit the
  steps interleave freely. The 30 days of `og:short` do not pass.
* The L1 is unbounded here (its TTL is modelled; its capacity is the subject of
  `LruTtl`, section 9): an entry that the capacity drops is a miss, as is one that expires.
  `record()` of the metrics is left out.
* `refresh`, `past`, `history` and `lapsed` are observation only: no action reads them.
  `lapsed` counts, per URL, the locks that expired under a task that was at work.

### Runs

Bounds are named in the module: `HoldMax`, `MaxNow`, `MaxFaults`, `MaxCrashes`, `PollMax`.

| Run | Instance | Shows |
|---|---|---|
| `flight` | 3 requests with their refreshes, 1 URL, payload and lock TTL 1, crawls as long as the clock runs, one failed command | `HoldersOwed`: a holder beside another one is owed to a lapse or to the failed command. `LockIsALeakyMutex`: the lock implements `KeyedMutex`, with the same count of leaks. `StaleIsRefreshed`: while Redis answers, who is answered with a stale copy has a refresh that waits for the lock, or a crawl of the URL that was not over when the request came; a refresh that loses the lock just ends, so this rests on a lock being there only while somebody crawls, although crawls outlive their locks and delete those of others. Three requests are the least that lets a third one in beside a holder whose lock a second one deleted. |
| `window` | 3 requests on 2 processes, 1 URL, 4 time units: two lifetimes of a payload (TTL 2), four of a negative entry or an L1 copy | `NegNeverMasksSuccess`: nothing deletes `og:neg` on success, it is the TTLs that keep an old failure from answering. Two processes, so that the L1 of one does not hide what Redis holds from the other. |
| `pages` | 2 requests on 2 processes, a redirect, an alias with the same payload key, an invalid URL, one failed command, one crash | `TypeOK`, `AnswerIsThePage`, `AttemptBeforeVisible` |
| `lease`, `refresh` | | the disagreements of section 11 |

`PollMax` is 1 or 2 instead of 20: what matters is that a poll may find
something, that another poll follows, and that the last one gives up.
The safety runs use symmetry over requests and processes, which nothing orders;
`flight`, `lease` and `pages` also a view, which drops variables that no action and none of their
properties reads. That a copy is
answered only inside its window is one guard of the code (`Fresh`, `Stale`) and no
property of its own; a poll answers with whatever is there.
Deadlock checking is off for the cache: it stops when every request
has been made and the clock is at its bound.

### Fairness

`FairSpec` has weak fairness on each step of each task: the event loop runs a
ready continuation, and every await of the chain ends, because Redis commands
are raced against a timer (`redis-store.ts:98-112`), the poll sleeps are timers
and every crawl ends, though nothing bounds when (`FetchEnds`, `EveryRenderEnds`). Clients, the clock and crashes owe
nothing. `Answered` does not rest on time passing: a loser polls a bounded number
of times whatever becomes of the lock.  It is checked in the run `api` of the next section,
where every step of the cache layer is taken under the handler of the API.

## 4. `UnfurlServer`

`EXTENDS UnfurlCache` with one variable, `reply`: what the client of each request was
sent. `CacheStep` is any step of the cache layer; when it settles the `getUnfurl` of a
request whose race is still open, the handler replies in the same step, since only
microtasks lie between (`api/server.ts:73-98`). `BudgetEnds` is the timer winning: a 202,
and nothing else changes; the call goes on and its answer is dropped. The budget may end at
any await. `HttpStatus` says which `http_status` a failed crawl of each kind may carry
(`null` for an address that does not resolve, 200 for a card that scored 0); a reply from
`og:neg` has none. `Cacheable` is `cacheControlFor`; its `max-age` is not modelled, and of the
envelope only the status. The Netlify function is the same call without a budget. The
stubs (`/unfurl/batch`, `/unfurl/jobs/:id`, `/img`) keep no state.

| Run | Instance | Shows |
|---|---|---|
| `api` | 2 requests and their refreshes, a page that redirects to another which answers or fails, one failed command or one crash, time standing still, fairness | `ReplyIsTrue`; `AskAgainServed`: while Redis answers and nothing has expired, nobody crawls what was crawled before, at the URL asked for or at the one it was redirected to; `PromotedCrawlLands`: after a 202 the result is in the cache; `Answered`: every call ends, a lock left by a dead holder included. |

`OneMishap` in `MCUnfurlServer` bounds faults and crashes together, as `MaxFaults` and
`MaxCrashes` do one by one. Every step has a way to succeed, so the bound takes no fair step
away. Time stands still (`MaxNow = 0`) because the run is about what happens within one crawl;
the runs of section 3 let it pass. The fairness is that of the cache layer and owes nothing to
the budget: the timer may win or not.

## 5. `HeadlessPool`

`permits` and `queue` are the `Semaphore` (`strategy/headless.ts`), `browser`
and `launching` the fields of the renderer, `alive` the processes that really
run. `pc` walks a call of `render` through `Acquire`, `EnsureBrowser` (an
existing browser, a pending launch shared with others, a launch of its own, or
the rejection of an earlier launch), `NewContext`, `Load`, `Release`. `Die` is a
browser crash that the code does not hear of, `CloseBegin`/`CloseEnd` are
`close()` with its await. `index.ts:52-60` calls it from the handlers of two signals
and nothing keeps the second from coming while the first waits: `closing` counts the
calls that wait. `hurt` and `overlaps` (the calls that began to wait beside
another) are observation only. Playwright is external.

`launching` is reset only when the launch succeeds (`headless.ts:77-84`), so a
failed launch makes every later render of the process fail with the same
rejection; the model does the same (`"rejected"`), and what the properties say
is that permits and queue survive it.

| Run | Instance | Shows |
|---|---|---|
| `pool` | 4 calls, 2 permits, two calls of `close()`; renders may be made again without end | `PermitsConserved`, `QueueIsWaiting`, `NoOvertaking`, and under fairness `EveryRenderEnds`. Four calls over two permits queue two at a time, the least where the order of the queue shows. `BrowsersOwed`: a browser that runs and is not `this.browser` is owed to a `close()` that waited beside another and cleared the reference to a browser launched since, one for each; no launch begins beside a browser that is known. The view drops what a call will return and `hurt`, which no action and no property of the run reads. Deadlock is checked. |
| `restart` | 2 calls, 1 permit | section 11 |

The number of launches needs no bound: only an absent browser is launched, and
it becomes absent only by `close()`, of which there are `MaxCloses`. Fairness
is weak on each step of a call and on `Launch`: continuations run, and each
Playwright call ends with a result, an error or its timeout. A queued call has
no step of its own; it relies on `Release` of another, so `EveryRenderEnds` is
about lost wake-ups.

## 6. `SafeFetch`, `AddressGuard`, `GuardedFetch`

The locals of `safeFetch` are variables of the same names (`cur`, `curIp` as
`addr`, `hops`, `visited`, `chain`, `followedMetaRefresh` as `meta`), `code` is
what it returned (`"ok"`) or threw. `Begin` is the check that `fetchOg` makes
before its first call and that call; `Again` is the loop over the preview-bot user
agents, which calls `safeFetch` again at the address pinned at the beginning;
`Request` is the loop head up to `await request`; `Response`, `Chunk`, `Page` and
`Precheck` follow the awaits of a hop.

* A URL is a member of a set. `Canonical` maps it to the key of the loop check,
  `BeforeDns` to what scheme, port and host name alone decide, `Literal` to the
  address it names, if it does.
* DNS answers each lookup with any set of addresses, so a name may move between
  two hops or between a call and its retry. Servers answer any status and lead
  anywhere; a body comes in chunks and may end or fail after each.
* `"NETWORK"` stands for the codes of `classifyFetchError`. Decompression is
  modelled by its one effect on control: it may leave nothing (`EMPTY_BODY`).
* `SafeFetch` takes what is blocked as constants. `GuardedFetch` computes them with
  `AddressGuard`: an assumption there says that the constants are what the table and the
  checks before DNS make of the parts of each URL, so the run is one of the real table. An
  IPv4 address is four octets, an IPv6 address eight groups of 16 bits: a mask is applied
  unit by unit. Reading an address from text is left out. The brackets around an IPv6
  address in a URL stay in `hostname`, so `isIP` does not see it and it is looked up as a name.
* The deadline is an event, `DeadlinePasses`, that only `Request` looks at, as in
  the code; how long a wait lasts is not modelled.

| Run | Instance | Shows |
|---|---|---|
| `fetch` | 4 pages (one with two URLs, two at a literal address), a refused port, a metadata host, addresses on both sides of the table, `MaxHops` 2, one retry | `ConnectsWhereChecked`, `HopsBounded`, `NoPageTwice`, `ChainIsTheWay`, and under fairness `FetchEnds`. With four pages a walk can be one request longer than the bound allows, so the bound is what stops it and not the lack of pages; `OnlyThePublicWeb` says of all requests, redirects and retries together, that they go to public URLs at addresses outside every reserved range; `MasksAreTheRanges` compares the table with those ranges, given by first and last address, on both sides of each end. One retry is enough for a name to have moved since it was pinned. |

Fairness is weak on the steps of the fetch: connect, headers and idle timeouts
end every wait, and the `for` over the user agents goes on. Deadlock checking
is off: a crawl ends.

## 7. `CrawlLadder`, `DomainRules`, `CrawlStore`

One call of `fetchOg` is a *request*; `pc[r]` names the await it is at and the
variables are its locals (`eff` is `effectiveNorm`, `page` the static result,
`left` the places in `CONFIG.RECOVERY_UAS` that the recovery has not tried).

| Code | Action |
|---|---|
| `normalizeUrl`, `rules.resolve` (`orchestrator.ts:183-196`) | `Arrive`; `Wake` when it had to wait for a reload |
| `og:short`, `precheck`, start of the static fetch (198-223) | `Precheck` |
| the `catch` of the static fetch, the loop over user agents (224-254) | `StaticThrows`, with `TryNext` |
| a static page: lesson, non-HTML card, parsing, `decideEscalation` (244-248, 288-344) | `StaticReturns` |
| the browser as the last step of the recovery (256-285) | `Recover` |
| `oembedFetch`, `renderer.render`, `mergeFill` (341-396) | `Oembed`, `Render` |
| `fail`, await by await (81-136) | `Fail`, `FailAttempt`, `FailUpsert` |
| `ensureFresh`, `loadAll` (`domain-rules.ts:124-139`, `pg-store.ts:222-238`) | `JoinLoad`, `LoadRead`, `LoadEnd` |
| `learn`, `resolve` (109-117, 144-179) | `Learn`, `Resolve` |
| time, an operator who edits `domain_rules` | `Tick`, `Edit` |

Abstractions, and what they keep:

* A card is the set of the scored fields it has: title, description, image. That is
  what `scoreCompleteness`, `decideEscalation`, `mergeFill` and `statusOf` look at.
  A page also says whether it has metadata, looks like a shell and carries the
  marker of a challenge (`spa-signals.ts` and `extract-og.ts` stand behind these).
* A rule has the fields a crawl's control depends on. `Names[u]` are the host of
  `u` and its parents, in the order `resolve` asks for them; `Site[u]` is `domainOf`.
  `RulesAssumption` says of them what host names satisfy.
* Servers, provider, browser, DNS and the cached short link answer anything from
  small sets. A file gives its name as title, unless the name is blank
  (`https://x/%20`): a card with nothing in it, for which `fail()` answers
  `NON_HTML` (`orchestrator.ts:301`). `hl.ok` and `oe.ok` are never false, so the
  branch for that (394) cannot be taken, and after a failed oEmbed
  `shouldHeadlessAfterOembed` is always true.
* `BotRecovery` is `CONFIG.BOT_RECOVERY_ENABLED`. The runs have it on; switched off, a
  block ends the crawl at once, and the theorems are for both. `OG_RECOVERY_UAS` can set a list with
  a user agent twice, which nothing removes; the models assume none, as in the default.
* `resolve` on a fresh snapshot is one step with what follows, since only microtasks
  lie between; the reading of `og:short` and the address check are one step, since no
  state they share with others lies between.
* A failed query of `domain_rules` answers with no rules (`pg-store.ts:233`), a failed
  write is swallowed; `MaxLoadFaults` and `MaxLost` bound them, `MaxEdits` the edits,
  `MaxNow` the clock and `LoadMax` the time of a query, for which the code has no timeout.
  Nothing that holds is about that time, and the theorems are for every value.
* `tried`, `renders`, `expected` and `lost` are observation only.
* One process: the overlay is in the memory of each, and no two share it.

| Run | Instance | Shows |
|---|---|---|
| `ladder` | 2 crawls of a page, of a short link to it on another domain, or of an invalid URL; 3 user agents; 2 tables, one with a rule for the host that names the user agent learned from; one edit, one failed query, one lost write, one reload | `TypeOK`, `PartialKept`, `RenderIsLastResort`, `NoUaTwice`, `EveryBlockTeaches`, `LearnedApplies`, `OverlayGrows`, `RowPerFailure`, `RollupIsTheFailures`. Two crawls are the least for one to learn what another resolves, before, while or after it does, and for one key of the rollup to be counted twice. The short link makes the domain learned for differ from the domain asked for. |

The run uses symmetry over the two requests and the view `View`, which drops the
locals of a crawl that has only its ending to write, except for the domain it fetched from and what
`via` says of its recovery, which `EveryBlockTeaches` still compares with the overlay. Deadlock is checked: `Quiet` is
the stutter after the last crawl has ended, so a crawl that waits for a load nobody
ends would show.

## 8. `Extraction`

A document is given by what each source holds for each scored field: no element
(`Absent`), an empty one (`Blank`), an image URL that `looksLikeImage` refuses (`Bad`), or a
value. A value of the card carries where it came from (`doc`, `source`), which the code
does not keep and the properties need; `smap` is the code's own `source_map`.

| Code | Definition |
|---|---|
| `fill`, `??`, the image blocks of `extractOg` | `Fill`, `Or`, `FillImage`, `OgImages` |
| `extractOg` (109-204) | `CardOf`, `ImagesOf`, `SourcesOf`, `Score` |
| static page and `decideEscalation` (`orchestrator.ts:314-342`) | `Parse` |
| `oembedFetch` and its merge (341-366) | `OembedCard`, `Oembed` |
| the rendered page and `mergeFill` (368-408) | `Render` |
| the rendered page as the whole card, after a block (256-280) | `Recover` |

`Decisions` allows every outcome of `decideEscalation` that some rule and page allow for a
score. `Blank` is the empty attribute; one that holds only spaces is not among the documents (see
section 11). Of the meta tags of one name a document has the first, as `.first()` of the code
takes it, so later ones behind an empty one are not among the elements; of `og:image` it has all. The order in which JSON-LD nodes fill title, description and image does not
matter across fields, so each field folds over its own.

| Run | Instance | Shows |
|---|---|---|
| `card` | 36 forms of the titles and 72 of the images in turn, with three forms of each other field; 27 rendered pages; 36 oEmbed answers | `FirstOfferedWins`, `SourceMapTrue`, `ImageLeadsImages`, `ScoreIsOfTheCard`. The fields meet only in the score, so one field at a time takes all its forms. Two images under one name, two JSON-LD nodes and a value behind a refused one are among them. Deadlock is checked. |

`FirstOfferedWins` is about what each source *offers* (`Offers`): `a ?? b` with an empty `a`
offers the empty `a`. It does not say that a field takes the first valid one of *all* elements, as
the documents have it: the code does not, see section 11.

## 9. `LruTtl`, `UrlNormal`

`order` is the insertion order of the JavaScript `Map`, `entry` its values. `Get` deletes and
sets again, which moves the key to the end; `Set` evicts the first key when the map is full,
even if the key it sets is in it. `last`, observation only, is the call that inserted or last
read a key. `UrlNormal` works on URLs as the WHATWG parser gives them, and a normal form is the
URL its text parses to. The tracking parameters and the sort work on *places* of the query:
`SortedQuery` puts at place `p` the parameter that has `p` kept ones up to itself in the order
`Before`, which is what a stable sort by key does. `SamePage` does not sort: it compares, for
each key, the values in the order in which the two queries have them.

| Run | Instance | Shows |
|---|---|---|
| `l1` | 2 entries, TTL 1, time to 3, 5 calls, 8 spellings of 4 pages (dots behind the host, runs of slashes, permuted and tracking parameters, repeated keys in either order, fragment and hashbang, user info) | `L1IsABoundedMap`: over *pages*, whatever spelling is used, `LruTtl` implements `BoundedMap`: the last value put is answered, for the TTL at the longest, and a put costs one other entry at most. `VictimIsLeastRecent`. `SamePageSameKey`: one key per page and one page per key, and a normal form is its own. Five calls are one more than the least that evicts a key behind one that was read again. |

## 10. Theorems

TLC checks instances; TLAPS proves these for every value of the constants.

`UnfurlCacheProofs`, from `CacheAssumption`:

* `TypeCorrect`: `Spec => []TypeOK`. `TypeOK` alone is not inductive, since an
  answer names the task a cache entry copies and keys are indexed with `pk`,
  `url` and `res` of a task; `Placed` adds, per program location, which of these
  are set, and `RefreshAfterRequest` that a refresh exists only after its request.
* `LockOwes` (`HoldersOwed`), for crawls of any length and whatever fails or dies. `HoldersCounted`
  is inductive: the holders of a URL are at most one, if there is a lock, and one for each lapse and
  each failed command. A `DEL` that hits the lock of somebody else pays for the one it lets in: who
  deletes leaves itself, so the surplus moves on to the next crawl and does not grow.
* `LockImplementsLeakyMutex` (`LockIsALeakyMutex`), from the same invariant: `SetNx` is `Acquire`,
  `Unlock` and `Crash` are `Leave`, `Tick` and a failed command are `Leak`, everything else stutters.
* `StaleAnswersAreRefreshed` (`StaleIsRefreshed`): while Redis answers, `LockIsOfSomebody` says
  that a lock is there only as long as its holder, or after it died, although others may delete it
  before; so a refresh that loses it loses to a crawl that is not over. `RefreshPlaced` relates
  a request to the refresh it started.
* `RowFirst`: `Spec => []AttemptBeforeVisible`. The strengthening `BeforeRow`
  counts rows per program location: none before `attempt`, one after, as
  long as nothing has failed.
* `AnswersAreThePage` (`AnswerIsThePage`). A lookup reads `og:map` and, an await later,
  `og:pl` under the key it read; in between others may write both. `CachesTrue` says what
  every entry is a copy of: the crawl named by a payload succeeded and has its payload key,
  `og:map` leads to the payload key of a crawl of that URL or of one redirected to it, and the
  L1 and `og:neg` likewise; `AnswersTrue` carries it into `pk` and `res` of the reader.
* `NegNeverMasks` (`NegNeverMasksSuccess`), **assuming `MaxFaults = 0` and `NegOutlived`**:
  for each negative TTL `f` and payload TTL `s`, `f <= MapTtl` and
  `5 (f + 2 HoldMax) <= 6 s`. Nothing deletes `og:neg` on success; that an old failure does not
  answer rests on a mapping and its payload outliving it. A crawl counts twice: the payload may
  be older than its date by one, and one that began earlier may overwrite it. The defaults of
  `config.ts` (negative entries of 5 and 30 minutes, payloads of an hour at least, mappings of
  7 days) leave room for crawls of 21 minutes; a deployment that sets the TTLs by environment
  variables has to keep to it. `InFlight` says that a task which is about to write
  its mappings has its payload in Redis, `Covered` that a failure which a later success has beaten
  is behind a mapping and a payload that outlive it, `ReadCovered` that a request on its way finds
  them.

`UnfurlServerProofs`, from `CacheAssumption`:

* `ReplyIsTrueAlways` (`ReplyIsTrue`): `ReplyOK` relates the reply of each request to its
  answer and to the place of its chain; the row behind a public card is that of `RowFirst`.
* `AskAgainIsServed` (`AskAgainServed`): while nothing failed or expired, `NothingLost` says
  that a result of a crawl that is over is in Redis under each URL it is for, and `ReadsOn`
  that a request which came later has not read past it.

`HeadlessPoolProofs`, from `PoolAssumption`:

* `PermitsAddUp` (`PermitsConserved`), `QueueExact` (`QueueIsWaiting`),
  `FirstComeFirstServed` (`NoOvertaking`).
* `BrowsersAreOwed` (`BrowsersOwed`), for any number of calls of `close()`: `BrowserInv` counts the
  browsers that are lost (`Lost`) and the calls of `close()` that may still lose one (`Threat`); of
  those that wait, one is the one the reference is really about.

`SafeFetchProofs`, from `FetchAssumption`:

* `TypeCorrect` (`TypeOK`), with `Placed`: what is set at each point of the loop.
* `CheckedBeforeConnect` (`ConnectsWhereChecked`): `NextIsChecked` says that the
  address the *next* request will go to is vouched for, at the loop head for
  `cur`, and for `start` as long as a retry may follow.
* `HopBound` (`HopsBounded`): `Counted` relates `hops`, `chain` and the requests
  made at each point of the loop.
* `EachPageOnce` (`NoPageTwice`): `visited` holds the key of every request.
* `ChainOfTheWalk` (`ChainIsTheWay`): `WayInv` says that the chain links `start` to
  `cur`, or to `target` while a redirect is being checked.

`GuardedFetchProofs`, from `FetchAssumption` and `GuardAssumption`:

* `GuardIsExact`: `isBlockedIp` blocks an address exactly if it is in a reserved range, for each
  of the 2^32 and 2^128 addresses. A mask is cut unit by unit, so each block becomes an
  interval of one unit between equal and free ones (`Table4`, `ReservedV4` and their like).
* `MasksMatch` (`MasksAreTheRanges`): the addresses the run compares are addresses.
* `PublicWebOnly` (`OnlyThePublicWeb`): `CheckedInv` of `SafeFetchProofs`, with `Vetted`: the
  URL of every request passed the checks before DNS.

`CrawlLadderProofs`, from `RulesAssumption` and `LadderAssumption`:

* `TypeCorrect` (`TypeOK`): `CrawlPlaced` says what is set at which await.
* `LearningGrows` (`OverlayGrows`): `LearnsOrNot` says that a step either leaves the
  overlay alone or merges the patch of one recovery into the domain it fetched from;
  `MergeSets` that merging resets nothing.
* `BlocksTeach` (`EveryBlockTeaches`), from the same: what a crawl has taught by the time it is
  past its recovery no other crawl and no reload takes back. `ViaPlaced` says at which await
  `first` and `via` are set.
* `EachUaOnce` (`NoUaTwice`): `TriedPlaced` says that the first fetch used the user
  agent of the rule, which `recoveryUaCandidates` leaves out, and that what is `left`
  was not tried. It needs a list of recovery user agents without repetition, as in
  `config.ts`.
* `WhatIsLearnedApplies` (`LearnedApplies`): lessons are filed under registrable
  domains only (`LearnedPlaced`), so the one of the URL's own is the first that
  `resolve` meets (`OverlayOfSite`, from `FirstOfIsFirst`).
* `BrowserIsLastResort` (`RenderIsLastResort`) and `NothingFoundIsLost` (`PartialKept`):
  `RenderPlaced` says what a crawl has fetched and rendered at each await.
* `FailuresHaveRows` (`RowPerFailure`): the rows and the crawls they stand for grow by
  one together; `LostPlaced` says that a write is not lost before it is made.
* `RollupIsExact` (`RollupIsTheFailures`): `topFailures` sums `occurrences` over the final URLs
  of a domain and a code. The sum is the size of `Counts`, the pairs of a row and a number up to its
  occurrences; `RollupCounts` says that a step adds as many of them as crawls it ends.

`ExtractionProofs`, from `ExtractionAssumption`, for documents with any number of elements:

* `SourceMapIsTrue`, `ImageLeads`, `ScoreIsCurrent`, `FirstOfferedIsTaken`
  (`SourceMapTrue`, `ImageLeadsImages`, `ScoreIsOfTheCard`, `FirstOfferedWins`). The loops of
  `extractOg` are folds; `FoldedIsLoop` turns a fold into the states of its loop, and `Filled`,
  the invariant of every loop that fills, says that the value is the first valid one among the
  offers so far. The first image is filled like a field (`Leading`), so one argument serves
  all. `FromDoc` is what a document says of a field (`CardIs`), and the invariant `CardInv`
  says that a page still waiting for oEmbed or the browser is what the static document says:
  that is why a merge fills only what all the sources before it left empty. That `Has` and
  the source agree (`SourcesTell`) is what makes the two merges, of the card and of the source
  map, pick from the same side.

`LruTtlProofs`, from `LruAssumption` and `UrlAssumption`:

* `EvictsLeastRecent` (`VictimIsLeastRecent`): `ByUse` says that the order of the Map is that of
  the last uses; `ReadMoves` keeps it, and setting a key again does not disturb it.
* `NormalFormNamesThePage`, over all of `Url` and from `UrlAssumption` only: the contract of
  `normalizeUrl`. In a total order the number of members up to one is its place, each place is
  taken (`PosTaken`), and two orders that are alike have the same places (`PosAlike`). So the
  sort is a list by key (`SortSorts`) that leaves each key its values in their order
  (`SortKeepsValues`), and two lists by key with the same values of each key are one
  (`SortedSame`). That a normal form is its own follows from the same two facts.
* `OneKeyPerPage` (`SamePageSameKey`): no two of the URLs clients send, whatever their set, are
  misnamed.
* `IsABoundedMap` (`L1IsABoundedMap`): every call and every tick is a step of `BoundedMap` over
  pages, or a stutter. A key and its page determine each other (`PagesAreNorm`), by the contract.

Sums over sets and loops over sequences are within reach although the library's induction
theorems are not: a property that fails for some length fails for a least one (`WFMin`), and
the recursive function behind a fold is shown to exist by giving it.

Only model-checked: the liveness properties `Answered`, `PromotedCrawlLands`,
`EveryRenderEnds` and `FetchEnds`, which need fairness and `ENABLED`.
The parts of the inductive invariants were checked by TLC on the instances of the runs before
they were proved. Three forms in the models are there for the proofs: what an address may be
(`Address`), what a document may hold (`Document`) and what a URL is (`Url`) are stated as sets.

## 11. Where the code and its documentation disagree

Each of these is a run of its own that TLC finds violated.

* `refresh`: `unfurl-cache.ts:140` says `refresh=true` ignores the cache and
  crawls again. A refresh that loses the lock enters the polling loop and is
  answered from the cache it was to ignore.
* `restart`: `docs/01_crawl_engine.md:328` asks that a crashed browser be
  restarted. `ensureBrowser` returns `this.browser` without asking whether it is
  connected, and nothing resets it.
* `lease`: `docs/01_platform.md:262` has concurrent requests for a cold URL crawl it once, by the
  lock of line 195. `DEL` (`unfurl-cache.ts:201`) does not look whose lock it deletes and nothing
  ends a crawl within `LOCK_TTL_SEC`: a crawl that outlives its lock deletes that of the next
  holder, and a third one crawls beside it within its lease.

Met while modelling, without a run of their own:

* Cache. `docs/01_platform.md:262` has concurrent requests for a cold URL crawl once; a
  loser of the lock polls for about two seconds and then crawls beside the holder
  (`GiveUp`). `docs/01_platform.md:136` wants `refresh=true` answered with `no-store`;
  `cacheControlFor` does not know of it. A remembered failure is always answered with 502,
  a 404 too (`docs/01_platform.md:77`), since `negToResult` has no status. `payload_key_of` never
  gets to `og_url`, since `canonical_url` is never null. Setting a key of the L1 again does not
  renew its recency, and evicts another entry when the map is full.
* Renderer. `headless.ts:5` has one resident browser. `close()` clears `this.browser` after its
  await, whatever it refers to by then (`headless.ts:153-154`); of two calls that overlap, the second
  can clear a browser launched after the first, which then runs unknown to the renderer. It takes two
  signals during a shutdown (`index.ts:52-60`) and lasts until the process exits. `launching` is
  cleared only by a launch that succeeds: after a failed one every render of the process fails.
* Pipeline. `domain-rules.ts:22` and `docs/01_crawl_engine.md:439` say that
  `force_headless` skips the static fetch, `docs/02_integrated_architecture.md:178` that a
  lesson is applied from the start of the next request; `fetchOg` always fetches statically
  first and reads `force_headless` only for an incomplete page, as the pseudocode of
  `docs/01_crawl_engine.md` does. After a render `canonical_url` is the rendered page's, which
  falls back to its final URL, although the static page had a `rel=canonical`. `domain-rules.ts:21`
  says that the domain of a rule is that of the final URL; what is learned is filed under the
  domain of the URL the first fetch went to (`orchestrator.ts:233`), also if redirects led to a page
  of another domain.
* Extraction. `extract-og.ts:8` and `docs/01_crawl_engine.md:236` say the first *valid* value,
  but `??` stops at an empty one: an empty `twitter:image` hides `twitter:image:src`, an empty
  `headline` the `name`, a first `<img>` that is refused the touch icon. An image attribute of
  spaces only (Twitter, JSON-LD or HTML) is resolved to the page's own URL and taken as image.
  oEmbed ranks third in `docs/01_crawl_engine.md` section 3.1 but is asked only for what
  JSON-LD and HTML left empty, and its thumbnail is not checked by `looksLikeImage`.
  `image_width` and `image_height` may be those of another image than `og.image`, or one of
  each document.
* URLs. `docs/01_crawl_engine.md:210` and `:415` call `normalizeUrl` idempotent. It is not for a
  host of dots only (`http://./a` becomes `http:///a`) nor for schemes without an authority
  (`mailto:a@b` becomes `mailto://a@b`, then `mailto://b/`); `UrlNormal` is about the others.
* Address table. `::ffff:0:0/96` is in the IPv6 table, so every mapped address is blocked and
  `unmapV4` decides nothing.
* Safe fetch. `safeFetch` throws without its chain, so a failure behind redirects is reported
  with an empty `redirect_chain` (`docs/01_crawl_engine.md:150` and
  `test/integration.test.ts:146` expect it). The total deadline is looked at only when a hop
  begins (`docs/01_crawl_engine.md:285`).
* Rules and store. `domain-rules.ts:38` says that the version of a rule is stamped on the
  attempt; `fail` and `crawlAndStore` write 0 for it (`orchestrator.ts:116`).
  `persistence/postgres.ts:161` says every attempt is one row; a card that scores 0 is turned into a
  failure by `finalize()`, which writes no row, and `crawlAndStore` writes none for failures.
  `domain-rules.ts:11` and `docs/01_reliability_ops.md:319` say that an edit is in force within a
  minute; after a query that failed the snapshot is empty and counts as fresh
  (`pg-store.ts:233-237`, `domain-rules.ts:132-133`). The comment at `pg-store.ts:234` leaves open
  whether the last one is kept.
* `enqueueDlq`, `retryPolicyOf`, `allIpsSafe` and `deltaByRuleVersion` have no caller.

## 12. Not modelled

* HTML, JSON-LD syntax and URL and address parsing: they turn text into the values the models
  start from.
* The fields of a card that nothing is decided by: `site_name`, `type`, `url`, `locale`, sizes,
  `canonical_url`, `richness`; the body of the envelope; `domainOf`, which `CrawlLadder` takes as a
  constant with an assumption.
* Retry policies and clients' texts of `errors/taxonomy.ts`: tables nobody reads. The codes that
  decide something are in the models that decide by them.
* Wiring, metrics, smoke test; `migrate.ts`, a sequential script that runs before the service.
* Redis, Postgres, undici and Playwright themselves: modelled from how the code
  uses them.
