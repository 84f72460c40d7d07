------------------------------- MODULE CrawlLadder -------------------------------
(***************************************************************************)
(* fetchOg (service/src/orchestrator.ts), the crawl of the cache layer:    *)
(* rule, address check, static fetch, the recovery of a blocked one by     *)
(* other user agents and then the browser, the decision to go on to oEmbed *)
(* or the browser (strategy/), and the answer, with what is written of a   *)
(* failed crawl. Several crawls of a process share its rules and its store.*)
(* Servers, browser, DNS and the cached short links answer anything.       *)
(***************************************************************************)
EXTENDS DomainRules, CrawlStore

CONSTANTS
  Request,       \* calls of fetchOg
  Invalid,       \* the URLs that normalizeUrl throws for
  Short,         \* the targets og:short may hold for a URL
  DefaultUa,     \* CONFIG.DEFAULT_UA
  BotRecovery,   \* CONFIG.BOT_RECOVERY_ENABLED
  RecoveryUas,   \* CONFIG.RECOVERY_UAS
  Provider,      \* URLs on a host of OEMBED_PROVIDERS
  Pages,         \* what a static fetch may return
  Renders,       \* what a render may return
  Fills,         \* the fields an oEmbed answer may have
  Thrown         \* the codes a static fetch may throw

Field == {"title", "description", "image"}

\* fields: what the page gives, of a file "title" unless its name is blank; marker: of a
\* bot challenge; shell: of a single page app or a redirect by script.
Page == [kind : {"html", "image", "file"}, fields : SUBSET Field, meta : BOOLEAN,
         shell : BOOLEAN, marker : BOOLEAN, final : Url]
Dom == [fields : SUBSET Field, meta : BOOLEAN, final : Url]

ASSUME LadderAssumption ==
  /\ Invalid \subseteq Url
  /\ Short \in [Url -> SUBSET Url]
  /\ DefaultUa \in Ua /\ BotRecovery \in BOOLEAN /\ RecoveryUas \in Seq(Ua)
  /\ \A i, j \in 1..Len(RecoveryUas) : RecoveryUas[i] = RecoveryUas[j] => i = j
  /\ Provider \subseteq Url
  /\ Pages \subseteq Page /\ Renders \subseteq Dom /\ Fills \subseteq SUBSET Field
  /\ Thrown \subseteq {"HTTP_403", "BOT_CHALLENGE", "HTTP_404", "HTTP_5XX", "READ_TIMEOUT",
                       "UNKNOWN"}
  /\ None \notin Url \cup Thrown \cup {"ua_override", "headless"} /\ None \notin Page
  /\ IsFiniteSet(Request)
  /\ MaxLost \in Nat

VARIABLES
  pc,       \* the await that a crawl is at
  url,      \* normalized_url
  eff,      \* effectiveNorm
  rule,
  first,    \* the code of the first static fetch, if a bot block, else None
  left,     \* the places in RecoveryUas that are left to try
  page,     \* the static result, once there is one
  via,      \* recovery.via
  result,
  \* Observation only: the user agents static fetches were made with, the renders, and the
  \* user agent learned for the domain of the URL when its rule was resolved.
  tried, renders, expected

crawl == <<url, eff, rule, first, left, page, via, result>>
seen == <<tried, renders, expected>>
vars == <<pc, crawl, seen, ruleVars, storeVars>>

Code == {"NO_OG_TAGS", "NON_HTML", "PARSE_ERROR", "INVALID_URL", "SSRF_BLOCKED", "DNS_FAIL",
         "JS_TIMEOUT", "RENDER_CRASH"} \cup Thrown
Result == [strategy : {"static", "oembed", "headless"}, status : {"ok", "partial", "failed"},
           code : Code \cup {None}, fields : SUBSET Field, final : Url,
           domain : Name, thrown : BOOLEAN]

CrawlTypeOK ==
  /\ pc \in [Request -> {"idle", "load", "precheck", "fetch", "recover", "oembed", "render",
                         "attempt", "upsert", "done"}]
  /\ url \in [Request -> Url \cup {None}] /\ eff \in [Request -> Url \cup {None}]
  /\ rule \in [Request -> Rule]
  /\ first \in [Request -> Thrown \cup {None}]
  /\ left \in [Request -> SUBSET (1..Len(RecoveryUas))]
  /\ page \in [Request -> Page \cup {None}]
  /\ via \in [Request -> {"ua_override", "headless", None}]
  /\ result \in [Request -> Result \cup {None}]

SeenTypeOK ==
  /\ tried \in [Request -> Seq(Ua)] /\ renders \in [Request -> Nat]
  /\ expected \in [Request -> Ua \cup {None}]

TypeOK ==
  /\ RulesTypeOK /\ CrawlTypeOK /\ SeenTypeOK
  /\ StoreTypeOK(Result, Request \X {"attempt", "upsert"})

Init ==
  /\ RulesInit /\ StoreInit
  /\ pc = [r \in Request |-> "idle"]
  /\ url = [r \in Request |-> None] /\ eff = [r \in Request |-> None]
  /\ rule = [r \in Request |-> DefaultRule]
  /\ first = [r \in Request |-> None] /\ left = [r \in Request |-> {}]
  /\ page = [r \in Request |-> None]
  /\ via = [r \in Request |-> None] /\ result = [r \in Request |-> None]
  /\ tried = [r \in Request |-> <<>>] /\ renders = [r \in Request |-> 0]
  /\ expected = [r \in Request |-> None]

----------------------------------------------------------------------------
(* Scores and decisions *)

\* scoreCompleteness, in hundredths
Completeness(fields) ==
  (IF "title" \in fields THEN 40 ELSE 0) + (IF "description" \in fields THEN 30 ELSE 0)
    + (IF "image" \in fields THEN 30 ELSE 0)

CompleteThreshold == 66
Complete(fields) == Completeness(fields) >= CompleteThreshold

StatusOf(fields) ==
  IF fields = {} THEN "failed" ELSE IF Complete(fields) THEN "ok" ELSE "partial"

\* nonHtmlCard: the file name is the title, and an image its own image.
NonHtmlFields(p) ==
  (p.fields \cap {"title"}) \cup (IF p.kind = "image" THEN {"image"} ELSE {})

Endpoint(ru, p) == ru.oembed \/ p.final \in Provider

\* detectSpaShell, detectJsRedirect: asked of a page without metadata only.
IsShell(p) == ~p.meta /\ p.shell

DecideIgnoringCompleteness(ru, p) ==
  IF ru.force THEN "HEADLESS"
  ELSE IF Endpoint(ru, p) THEN "OEMBED"
  ELSE IF IsShell(p) THEN "HEADLESS"
  ELSE IF ru.challenge /\ p.marker THEN "HEADLESS"
  ELSE "DONE"

\* decideEscalation
Decide(ru, p) ==
  IF Complete(p.fields) THEN "DONE"
  ELSE IF ru.force THEN "HEADLESS"
  ELSE IF Endpoint(ru, p) THEN "OEMBED"
  ELSE IF IsShell(p) THEN "HEADLESS"
  ELSE IF ru.challenge /\ p.marker THEN "HEADLESS"
  ELSE "DONE"

IsBotBlock(c) == c \in {"HTTP_403", "BOT_CHALLENGE"}

UaOfRule(ru) == ru.ua
UaOf(ru) == IF ru.ua # None THEN ru.ua ELSE DefaultUa

CandidatesButDefault(ru) ==
  {i \in 1..Len(RecoveryUas) : RecoveryUas[i] # DefaultUa}

\* recoveryUaCandidates, by their places in the list: those the first fetch may have used
\* are left out.
Candidates(ru) ==
  {i \in 1..Len(RecoveryUas) : RecoveryUas[i] \notin {DefaultUa, ru.ua}}

----------------------------------------------------------------------------
(* Endings *)

Answer(strategy, status, code, fields, final, thrown) ==
  [strategy |-> strategy, status |-> status, code |-> code, fields |-> fields,
   final |-> final, domain |-> Site[final], thrown |-> thrown]

\* finalize
Finalize(r, strategy, fields, code, final) ==
  /\ result' = [result EXCEPT ![r] =
                  Answer(strategy, StatusOf(fields), code, fields, final, FALSE)]
  /\ pc' = [pc EXCEPT ![r] = "done"]

FailWithoutRow(r, code, final) ==
  /\ result' = [result EXCEPT ![r] = Answer("static", "failed", code, {}, final, TRUE)]
  /\ pc' = [pc EXCEPT ![r] = "upsert"]

\* fail, up to its first await
Fail(r, code, final) ==
  /\ result' = [result EXCEPT ![r] = Answer("static", "failed", code, {}, final, TRUE)]
  /\ pc' = [pc EXCEPT ![r] = "attempt"]

Note(meta) == IF meta THEN None ELSE "NO_OG_TAGS"

\* The rest of fail, await by await.
FailAttempt(r) ==
  /\ pc[r] = "attempt"
  /\ WriteAttempt(<<r, "attempt">>, result[r])
  /\ pc' = [pc EXCEPT ![r] = "upsert"]
  /\ UNCHANGED <<crawl, seen, ruleVars>>

FailUpsert(r) ==
  /\ pc[r] = "upsert"
  /\ UpsertFailedCrawl(<<r, "upsert">>, result[r])
  /\ pc' = [pc EXCEPT ![r] = "done"]
  /\ UNCHANGED <<crawl, seen, ruleVars>>

----------------------------------------------------------------------------
(* fetchOg *)

\* What resolve() ends with, and the observations made then.
Lookup(r, u) ==
  /\ rule' = [rule EXCEPT ![r] = Resolve(u)]
  /\ expected' = [expected EXCEPT ![r] = learned[Site[u]].ua]
  /\ pc' = [pc EXCEPT ![r] = "precheck"]

\* Up to the first await: a URL that cannot be normalised fails, a fresh snapshot is
\* looked up, an old one is reloaded.
Arrive(r) ==
  /\ pc[r] = "idle"
  /\ \E u \in Url :
       /\ url' = [url EXCEPT ![r] = u]
       /\ \/ /\ u \in Invalid /\ Fail(r, "INVALID_URL", u)
             /\ UNCHANGED <<rules, rule, expected>>
          \/ /\ u \notin Invalid /\ IsFresh /\ Lookup(r, u)
             /\ UNCHANGED <<rules, result>>
          \/ /\ u \notin Invalid /\ ~IsFresh /\ JoinLoad
             /\ pc' = [pc EXCEPT ![r] = "load"]
             /\ UNCHANGED <<rule, result, expected>>
  /\ UNCHANGED <<eff, first, left, page, via, tried, renders, outside, learned, storeVars>>

\* The load that it waited for is over.
Wake(r) ==
  /\ pc[r] = "load" /\ ~loading
  /\ Lookup(r, url[r])
  /\ UNCHANGED <<url, eff, first, left, page, via, result, tried, renders, ruleVars,
                 storeVars>>

StaticFetch(r, ua) ==
  /\ pc' = [pc EXCEPT ![r] = "fetch"]
  /\ tried' = [tried EXCEPT ![r] = Append(@, ua)]

StartRender(r, at) ==
  /\ pc' = [pc EXCEPT ![r] = at]
  /\ renders' = [renders EXCEPT ![r] = @ + 1]

\* A short link may be answered from og:short; then the address check, and the first fetch.
Precheck(r) ==
  /\ pc[r] = "precheck"
  /\ \E e \in {url[r]} \cup (IF rule[r].short THEN Short[url[r]] ELSE {}) :
       eff' = [eff EXCEPT ![r] = e]
  /\ \/ \E c \in {"SSRF_BLOCKED", "DNS_FAIL"} : Fail(r, c, url[r]) /\ UNCHANGED tried
     \/ StaticFetch(r, UaOf(rule[r])) /\ UNCHANGED result
  /\ UNCHANGED <<url, rule, first, left, page, via, renders, expected, ruleVars,
                 storeVars>>

\* The next user agent of those left; the browser when none is.
TryNext(r, S) ==
  \/ /\ S # {}
     /\ StaticFetch(r, RecoveryUas[Least(S)])
     /\ left' = [left EXCEPT ![r] = S \ {Least(S)}]
     /\ UNCHANGED renders
  \/ /\ S = {}
     /\ StartRender(r, "recover") /\ left' = [left EXCEPT ![r] = {}]
     /\ UNCHANGED tried

\* A static fetch throws: the first one ends the crawl unless it was blocked and recovery
\* is on; a later one that was not blocked ends the trying of user agents.
StaticThrows(r) ==
  /\ pc[r] = "fetch"
  /\ \E c \in Thrown :
       \/ /\ first[r] = None /\ ~(BotRecovery /\ IsBotBlock(c))
          /\ Fail(r, c, url[r]) /\ UNCHANGED <<first, left, tried, renders>>
       \/ /\ first[r] = None /\ BotRecovery /\ IsBotBlock(c)
          /\ first' = [first EXCEPT ![r] = c]
          /\ TryNext(r, Candidates(rule[r])) /\ UNCHANGED result
       \/ /\ first[r] # None
          /\ TryNext(r, IF IsBotBlock(c) THEN left[r] ELSE {})
          /\ UNCHANGED <<first, result>>
  /\ UNCHANGED <<url, eff, rule, page, via, expected, ruleVars, storeVars>>

RecoveredAtUrl(r, patch) == Learn(Site[url[r]], patch)

\* What a recovery ends with is learned of the domain that the first fetch went to.
Recovered(r, patch) == Learn(Site[eff[r]], patch)

\* A static page: kept if the crawl was recovered by this user agent, parsed, scored, and
\* either the answer or the reason to go on. A file whose name is blank gives no card.
StaticReturns(r) ==
  LET ua == tried[r][Len(tried[r])]
      ru == IF first[r] = None THEN rule[r] ELSE [rule[r] EXCEPT !.ua = ua]
  IN
  /\ pc[r] = "fetch"
  /\ rule' = [rule EXCEPT ![r] = ru]
  /\ \E p \in Pages :
       /\ page' = [page EXCEPT ![r] = p]
       /\ \/ /\ first[r] = None /\ UNCHANGED <<via, learned>>
          \/ /\ first[r] # None
             /\ via' = [via EXCEPT ![r] = "ua_override"]
             /\ Recovered(r, [NoPatch EXCEPT !.ua = ua])
       /\ \/ /\ p.kind # "html" /\ NonHtmlFields(p) = {}
             /\ Fail(r, "NON_HTML", p.final) /\ UNCHANGED renders
          \/ /\ p.kind # "html" /\ NonHtmlFields(p) # {}
             /\ Finalize(r, "static", NonHtmlFields(p), "NON_HTML", p.final)
             /\ UNCHANGED renders
          \/ /\ p.kind = "html"
             /\ Fail(r, "PARSE_ERROR", p.final) /\ UNCHANGED renders
          \/ /\ p.kind = "html" /\ Decide(ru, p) = "DONE"
             /\ Finalize(r, "static", p.fields, Note(p.meta), p.final)
             /\ UNCHANGED renders
          \/ /\ p.kind = "html" /\ Decide(ru, p) = "OEMBED"
             /\ pc' = [pc EXCEPT ![r] = "oembed"] /\ UNCHANGED <<result, renders>>
          \/ /\ p.kind = "html" /\ Decide(ru, p) = "HEADLESS"
             /\ StartRender(r, "render") /\ UNCHANGED result
  /\ UNCHANGED <<url, eff, first, left, tried, expected, outside, rules, storeVars>>

\* The browser as the last resort of the recovery, for the URL that was blocked.
Recover(r) ==
  /\ pc[r] = "recover"
  /\ \/ \E d \in Renders :
          /\ Recovered(r, [NoPatch EXCEPT !.force = TRUE])
          /\ via' = [via EXCEPT ![r] = "headless"]
          /\ Finalize(r, "headless", d.fields, Note(d.meta), d.final)
     \/ /\ Recovered(r, [NoPatch EXCEPT !.challenge = TRUE])
        /\ Fail(r, first[r], url[r]) /\ UNCHANGED via
  /\ UNCHANGED <<url, eff, rule, first, left, page, tried, renders, expected, outside,
                 rules, storeVars>>

DomOnly(base, over) == over
MergeFill(base, over) == base \cup over

\* The provider fills what is empty, or fails; a page that is still incomplete then goes
\* to the browser.
Oembed(r) ==
  /\ pc[r] = "oembed"
  /\ \/ /\ \E f \in Fills :
             Finalize(r, "oembed", MergeFill(page[r].fields, f), None, page[r].final)
        /\ UNCHANGED renders
     \/ StartRender(r, "render") /\ UNCHANGED result
  /\ UNCHANGED <<url, eff, rule, first, left, page, via, tried, expected, ruleVars,
                 storeVars>>

\* The browser fills what the static page left empty; when it fails the page is the answer.
Render(r) ==
  LET p == page[r] IN
  /\ pc[r] = "render"
  /\ \/ \E d \in Renders :
          Finalize(r, "headless", MergeFill(p.fields, d.fields), Note(p.meta \/ d.meta),
                   d.final)
     \/ \E c \in {"JS_TIMEOUT", "RENDER_CRASH"} :
          Finalize(r, "static", p.fields, IF p.meta THEN c ELSE "NO_OG_TAGS", p.final)
  /\ UNCHANGED <<url, eff, rule, first, left, page, via, seen, ruleVars, storeVars>>

Step(r) ==
  \/ Arrive(r) \/ Wake(r) \/ Precheck(r) \/ StaticThrows(r) \/ StaticReturns(r)
  \/ Recover(r) \/ Oembed(r) \/ Render(r) \/ FailAttempt(r) \/ FailUpsert(r)

\* Continuations that are ready run before the clock moves on.
Tick ==
  /\ \A r \in Request : pc[r] = "load" => loading
  /\ RuleTick
  /\ UNCHANGED <<pc, crawl, seen, storeVars>>

\* The rest of the world: the load in flight and the operator.
Surroundings == (LoadRead \/ LoadEnd \/ Edit) /\ UNCHANGED <<pc, crawl, seen, storeVars>>

\* Every crawl has ended.
Quiet == (\A r \in Request : pc[r] = "done") /\ UNCHANGED vars

Next == (\E r \in Request : Step(r)) \/ Tick \/ Surroundings \/ Quiet

Spec == Init /\ [][Next]_vars

----------------------------------------------------------------------------
(* Properties *)

\* Every stage keeps what the ones before it found (invariant 1 of orchestrator.ts): the
\* answer has every field of the static page, whatever became of oEmbed and browser.
PartialKept ==
  \A r \in Request :
    pc[r] = "done" /\ page[r] # None /\ ~result[r].thrown /\ page[r].kind = "html" =>
      page[r].fields \subseteq result[r].fields

\* The browser is the last and costliest resort (invariant 2 of fetch-strategy.ts): a crawl
\* renders at most once, after every static fetch was refused, or for a page that was
\* fetched and found incomplete.
RenderIsLastResort ==
  \A r \in Request :
    /\ renders[r] <= 1
    /\ renders[r] = 1 =>
         IF page[r] = None THEN first[r] # None
                           ELSE page[r].kind = "html" /\ ~Complete(page[r].fields)

\* No crawl makes two static fetches with one user agent (bot-recovery.ts), whatever rule
\* it began with, one that another crawl has just learned included.
NoUaTwice ==
  \A r \in Request : \A i, j \in 1..Len(tried[r]) : tried[r][i] = tried[r][j] => i = j

\* Every crawl that was refused and is past its recovery has taught the domain it went to
\* what came of it (docs/02_integrated_architecture.md 178): the browser that passed, the
\* challenge that nothing passed, or a user agent, though perhaps one learned later. No
\* reload, no lesson of another crawl and no redirect of its own takes that back.
EveryBlockTeaches ==
  \A r \in Request : first[r] # None =>
    LET lesson == learned[Site[eff[r]]] IN
    /\ via[r] = "ua_override" => lesson.ua # None
    /\ via[r] = "headless" => lesson.force
    /\ via[r] = None /\ pc[r] \in {"attempt", "upsert", "done"} => lesson.challenge

\* A crawl whose rule is resolved after a user agent was learned for the domain of its URL
\* fetches with that one from the start (domain-rules.ts, learn), on every host of the
\* domain, and over a rule of the table that names another.
LearnedApplies ==
  \A r \in Request : tried[r] # <<>> /\ expected[r] # None => tried[r][1] = expected[r]

\* Nothing learned is lost, by a reload or by what is learned later (domain-rules.ts, learned).
OverlayGrows ==
  [][\A n \in Name :
       /\ learned[n].ua # None => learned'[n].ua # None
       /\ learned[n].force => learned'[n].force
       /\ learned[n].challenge => learned'[n].challenge
       /\ learned[n].version <= learned'[n].version]_vars

Counted(write, at, d, c) ==
  Cardinality({r \in Request : /\ pc[r] \in at /\ result[r].thrown
                               /\ result[r].domain = d /\ result[r].code = c
                               /\ <<r, write>> \notin lost})

\* crawl_attempts has one row for each crawl that fail() ended, under its domain and code,
\* unless that very write was lost, and none besides.
RowPerFailure ==
  \A d \in Name, c \in Code :
    Cardinality({i \in 1..Len(attempts) : attempts[i].domain = d /\ attempts[i].code = c})
      = Counted("attempt", {"upsert", "done"}, d, c)

\* What topFailures reports of a domain and a code is how many crawls failed so, whatever
\* final URLs they are filed under and in whatever order their writes came.
RollupIsTheFailures ==
  \A d \in Name, c \in Code : TopFailures(d, c) = Counted("upsert", {"done"}, d, c)

================================================================================
