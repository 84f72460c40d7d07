---------------------------- MODULE CrawlLadderProofs ----------------------------
(* Theorems about the crawl, the rules it shares and what it writes of its *)
(* failures, for every value of the constants.                             *)
EXTENDS CrawlLadder, WellFoundedInduction, FiniteSetTheorems, TLAPS

\* A set of naturals that is not empty has a least member.
LEMMA LeastIsLeast ==
  ASSUME NEW S \in SUBSET Nat, S # {}
  PROVE  Least(S) \in S /\ \A j \in S : Least(S) <= j
<1> DEFINE R == {ss \in Nat \X Nat : ss[1] < ss[2]}
<1>1. IsWellFoundedOn(R, Nat)
  BY NatLessThanWellFounded DEF OpToRel
<1> HIDE DEF R
<1>2. PICK x \in S : \A y \in S : ~ (<<y, x>> \in R)
  BY <1>1, WFMin
<1>3. \A y \in S : x <= y
  <2> TAKE y \in S
  <2>1. <<y, x>> \in Nat \X Nat
    OBVIOUS
  <2>2. <<y, x>> \in R <=> y < x
    BY <2>1 DEF R
  <2> QED
    BY <1>2, <2>2
<1> QED
  BY <1>3 DEF Least

----------------------------------------------------------------------------
(* Rules *)

\* FirstOf is the first name of the URL that is in the set, if one is.
LEMMA FirstOfIsFirst ==
  ASSUME NEW u \in Url, NEW S
  PROVE  \/ /\ FirstOf(u, S) = None
            /\ \A i \in 1..Len(Names[u]) : Names[u][i] \notin S
         \/ /\ FirstOf(u, S) \in Name \cap S
            /\ \E m \in 1..Len(Names[u]) :
                 /\ FirstOf(u, S) = Names[u][m]
                 /\ \A j \in 1..Len(Names[u]) : Names[u][j] \in S => m <= j
<1> DEFINE hits == {i \in 1..Len(Names[u]) : Names[u][i] \in S}
<1>1. Names[u] \in Seq(Name)
  BY RulesAssumption
<1>2. CASE hits = {}
  BY <1>2 DEF FirstOf
<1>3. CASE hits # {}
  <2>1. hits \in SUBSET Nat
    OBVIOUS
  <2>2. PICK m \in hits : m = Least(hits) /\ \A j \in hits : m <= j
    BY <1>3, <2>1, LeastIsLeast
  <2>3. FirstOf(u, S) = Names[u][m]
    BY <1>3, <2>2 DEF FirstOf
  <2>4. m \in 1..Len(Names[u]) /\ Names[u][m] \in S
    OBVIOUS
  <2>5. Names[u][m] \in Name
    BY <1>1, <2>4
  <2>6. \A j \in 1..Len(Names[u]) : Names[u][j] \in S => m <= j
    BY <2>2
  <2> QED
    BY <2>3, <2>4, <2>5, <2>6
<1> QED
  BY <1>2, <1>3

\* What resolve answers with is a rule.
LEMMA ResolveIsRule ==
  ASSUME NEW u \in Url, RulesTypeOK
  PROVE  Resolve(u) \in Rule
<1>1. BaseRule(u) \in Rule
  <2> DEFINE n == FirstOf(u, {m \in Name : byDomain[m] # None})
  <2>1. CASE n = None
    BY <2>1 DEF BaseRule, DefaultRule, Rule
  <2>2. CASE n # None
    <3>1. n \in Name /\ byDomain[n] # None
      BY <2>2, FirstOfIsFirst
    <3>2. BaseRule(u) = byDomain[n]
      BY <2>2 DEF BaseRule
    <3> QED
      BY <3>1, <3>2 DEF RulesTypeOK, RuleTable
  <2> QED
    BY <2>1, <2>2
<1>2. Overlay(u) \in Patch
  <2> DEFINE n == FirstOf(u, {m \in Name : learned[m].version > 0})
  <2>1. CASE n = None
    BY <2>1 DEF Overlay, NoPatch, Patch
  <2>2. CASE n # None
    <3>1. n \in Name
      BY <2>2, FirstOfIsFirst
    <3>2. Overlay(u) = learned[n]
      BY <2>2 DEF Overlay
    <3> QED
      BY <3>1, <3>2 DEF RulesTypeOK
  <2> QED
    BY <2>1, <2>2
<1> HIDE DEF BaseRule, Overlay
<1>3. BaseRule(u).version + Overlay(u).version \in Nat
  BY <1>1, <1>2 DEF Rule, Patch
<1> QED
  BY <1>1, <1>2, <1>3 DEF Resolve, Rule, Patch

\* The other facts that TypeOK needs to be inductive: what is set at which point.
CrawlPlaced ==
  \A r \in Request :
    /\ pc[r] # "idle" => url[r] \in Url
    /\ pc[r] \in {"fetch", "recover", "oembed", "render"} => eff[r] \in Url
    /\ pc[r] \in {"fetch", "recover", "oembed", "render"} => tried[r] # <<>>
    /\ pc[r] = "recover" => first[r] \in Thrown
    /\ pc[r] \in {"oembed", "render"} => page[r] \in Page
    /\ pc[r] \in {"attempt", "upsert", "done"} => result[r] \in Result

TypeInv == TypeOK /\ CrawlPlaced

LEMMA JoinLoadType ==
  ASSUME RulesTypeOK, JoinLoad, UNCHANGED <<outside, learned>>
  PROVE  RulesTypeOK'
<1> USE RulesAssumption DEF RulesTypeOK, outside, rules
<1>1. CASE loading /\ UNCHANGED rules
  BY <1>1
<1>2. CASE ~loading /\ JoinLoad
  <2>1. query' = [sent |-> now, read |-> None] /\ loading'
    BY <1>2 DEF JoinLoad, NoQuery
  <2>2. UNCHANGED <<byDomain, loadedAt, loadFaults>>
    BY <1>2 DEF JoinLoad
  <2> QED
    BY <2>1, <2>2
<1> QED
  BY <1>1, <1>2 DEF JoinLoad

LEMMA LoadType ==
  ASSUME RulesTypeOK, LoadRead \/ LoadEnd \/ Edit \/ RuleTick
  PROVE  RulesTypeOK'
<1> USE RulesAssumption DEF RulesTypeOK, outside, rules
<1>1. CASE LoadRead
  <2>1. Empty \in RuleTable /\ table \in RuleTable
    BY DEF Empty, RuleTable
  <2>2. PICK t \in RuleTable : query' = [query EXCEPT !.read = t]
    BY <1>1, <2>1 DEF LoadRead
  <2>3. query' = [sent |-> query.sent, read |-> t]
    BY <2>2
  <2>4. loadFaults' \in Nat
    BY <1>1 DEF LoadRead
  <2>5. UNCHANGED <<now, table, edits, byDomain, loadedAt, loading, learned>>
    BY <1>1 DEF LoadRead
  <2> QED
    BY <2>3, <2>4, <2>5
<1>2. CASE LoadEnd
  <2>1. query' = [sent |-> None, read |-> None] /\ loading' = FALSE
    BY <1>2 DEF LoadEnd, NoQuery
  <2>2. byDomain' \in RuleTable /\ loadedAt' = now
    BY <1>2 DEF LoadEnd
  <2>3. UNCHANGED <<now, table, edits, loadFaults, learned>>
    BY <1>2 DEF LoadEnd
  <2> QED
    BY <2>1, <2>2, <2>3
<1>3. CASE Edit
  BY <1>3 DEF Edit
<1>4. CASE RuleTick
  BY <1>4 DEF RuleTick
<1> QED
  BY <1>1, <1>2, <1>3, <1>4

LEMMA LearnType ==
  ASSUME RulesTypeOK, UNCHANGED <<outside, rules>>,
         NEW d \in Name, NEW patch \in Patch, Learn(d, patch)
  PROVE  RulesTypeOK'
<1>1. learned[d] \in Patch
  BY DEF RulesTypeOK
<1>2. Merge(learned[d], patch) \in Patch
  BY <1>1 DEF Merge, Patch
<1>3. learned' \in [Name -> Patch]
  BY <1>2 DEF RulesTypeOK, Learn
<1> QED
  BY <1>3 DEF RulesTypeOK, outside, rules

LEMMA SameRules ==
  ASSUME RulesTypeOK, UNCHANGED ruleVars
  PROVE  RulesTypeOK'
BY DEF RulesTypeOK, ruleVars, outside, rules

LEMMA RulesInitially == RulesInit => RulesTypeOK
<1> SUFFICES ASSUME RulesInit PROVE RulesTypeOK
  OBVIOUS
<1>1. Empty \in RuleTable /\ [n \in Name |-> NoPatch] \in [Name -> Patch]
  BY DEF Empty, RuleTable, NoPatch, Patch
<1> QED
  BY <1>1, RulesAssumption DEF RulesInit, RulesTypeOK, NoQuery

----------------------------------------------------------------------------
(* Types *)

LEMMA FinalizeType ==
  ASSUME CrawlTypeOK, NEW r \in Request, NEW strategy \in {"static", "oembed", "headless"},
         NEW fields \in SUBSET Field, NEW c \in Code \cup {None}, NEW final \in Url,
         Finalize(r, strategy, fields, c, final)
  PROVE  /\ result' \in [Request -> Result \cup {None}]
         /\ result'[r] \in Result
         /\ \A q \in Request \ {r} : result'[q] = result[q]
         /\ pc' = [pc EXCEPT ![r] = "done"]
<1>1. StatusOf(fields) \in {"ok", "partial", "failed"}
  BY DEF StatusOf
<1>2. Answer(strategy, StatusOf(fields), c, fields, final, FALSE) \in Result
  BY <1>1, RulesAssumption DEF Answer, Result
<1> QED
  BY <1>2 DEF Finalize, CrawlTypeOK

LEMMA FailType ==
  ASSUME CrawlTypeOK, NEW r \in Request, NEW c \in Code, NEW final \in Url,
         Fail(r, c, final)
  PROVE  /\ result' \in [Request -> Result \cup {None}]
         /\ result'[r] \in Result
         /\ \A q \in Request \ {r} : result'[q] = result[q]
         /\ pc' = [pc EXCEPT ![r] = "attempt"]
<1>1. Answer("static", "failed", c, {}, final, TRUE) \in Result
  BY RulesAssumption DEF Answer, Result
<1> QED
  BY <1>1 DEF Fail, CrawlTypeOK

LEMMA SameStore ==
  ASSUME TypeInv, UNCHANGED storeVars
  PROVE  StoreTypeOK(Result, Request \X {"attempt", "upsert"})'
BY DEF TypeInv, TypeOK, StoreTypeOK, storeVars

LEMMA LookupType ==
  ASSUME TypeInv, NEW r \in Request, NEW u \in Url, Lookup(r, u)
  PROVE  /\ rule' \in [Request -> Rule]
         /\ expected' \in [Request -> Ua \cup {None}]
         /\ pc' = [pc EXCEPT ![r] = "precheck"]
<1>1. Resolve(u) \in Rule
  BY ResolveIsRule DEF TypeInv, TypeOK
<1>2. learned[Site[u]].ua \in Ua \cup {None}
  BY RulesAssumption DEF TypeInv, TypeOK, RulesTypeOK, Patch
<1> HIDE DEF Resolve
<1> QED
  BY <1>1, <1>2 DEF Lookup, TypeInv, TypeOK, CrawlTypeOK, SeenTypeOK

LEMMA ArriveType ==
  ASSUME TypeInv, NEW r \in Request, Arrive(r)
  PROVE  TypeInv'
<1> USE DEF TypeInv, TypeOK
<1>1. PICK u \in Url :
        /\ url' = [url EXCEPT ![r] = u]
        /\ \/ /\ u \in Invalid /\ Fail(r, "INVALID_URL", u)
              /\ UNCHANGED <<rules, rule, expected>>
           \/ /\ u \notin Invalid /\ IsFresh /\ Lookup(r, u)
              /\ UNCHANGED <<rules, result>>
           \/ /\ u \notin Invalid /\ ~IsFresh /\ JoinLoad
              /\ pc' = [pc EXCEPT ![r] = "load"]
              /\ UNCHANGED <<rule, result, expected>>
  BY DEF Arrive
<1>2. UNCHANGED <<eff, first, left, page, via, tried, renders, outside, learned,
                  storeVars>>
  BY DEF Arrive
<1>3. StoreTypeOK(Result, Request \X {"attempt", "upsert"})'
  BY <1>2, SameStore
<1>4. CASE Fail(r, "INVALID_URL", u) /\ UNCHANGED <<rules, rule, expected>>
  <2>1. RulesTypeOK'
    BY <1>2, <1>4, SameRules DEF ruleVars
  <2>2. "INVALID_URL" \in Code
    BY DEF Code
  <2>3. /\ result' \in [Request -> Result \cup {None}]
        /\ result'[r] \in Result
        /\ \A q \in Request \ {r} : result'[q] = result[q]
        /\ pc' = [pc EXCEPT ![r] = "attempt"]
    BY <1>4, <2>2, FailType
  <2>4. CrawlTypeOK' /\ SeenTypeOK'
    BY <1>1, <1>2, <1>4, <2>3 DEF CrawlTypeOK, SeenTypeOK
  <2>5. CrawlPlaced'
    BY <1>1, <1>2, <1>4, <2>3 DEF CrawlTypeOK, CrawlPlaced, rules, outside
  <2> QED
    BY <1>3, <2>1, <2>4, <2>5
<1>5. CASE IsFresh /\ Lookup(r, u) /\ UNCHANGED <<rules, result>>
  <2>1. RulesTypeOK'
    BY <1>2, <1>5, SameRules DEF ruleVars
  <2>3. /\ rule' \in [Request -> Rule]
        /\ expected' \in [Request -> Ua \cup {None}]
        /\ pc' = [pc EXCEPT ![r] = "precheck"]
    BY <1>5, LookupType
  <2>4. CrawlTypeOK' /\ SeenTypeOK'
    BY <1>1, <1>2, <1>5, <2>3 DEF CrawlTypeOK, SeenTypeOK
  <2>5. CrawlPlaced'
    BY <1>1, <1>2, <1>5, <2>3 DEF CrawlTypeOK, CrawlPlaced, rules, outside
  <2> QED
    BY <1>3, <2>1, <2>4, <2>5
<1>6. CASE JoinLoad /\ pc' = [pc EXCEPT ![r] = "load"]
           /\ UNCHANGED <<rule, result, expected>>
  <2>1. RulesTypeOK'
    BY <1>2, <1>6, JoinLoadType
  <2>4. CrawlTypeOK' /\ SeenTypeOK'
    BY <1>1, <1>2, <1>6 DEF CrawlTypeOK, SeenTypeOK
  <2>5. CrawlPlaced'
    BY <1>1, <1>2, <1>6, <2>1 DEF CrawlTypeOK, CrawlPlaced
  <2> QED
    BY <1>3, <2>1, <2>4, <2>5
<1> QED
  BY <1>1, <1>4, <1>5, <1>6

LEMMA WakeType ==
  ASSUME TypeInv, NEW r \in Request, Wake(r)
  PROVE  TypeInv'
<1> USE DEF TypeInv, TypeOK
<1>1. url[r] \in Url
  BY DEF Wake, CrawlPlaced
<1>2. UNCHANGED <<url, eff, first, left, page, via, result, tried, renders,
                  ruleVars, storeVars>>
  BY DEF Wake
<1>3. /\ rule' \in [Request -> Rule]
      /\ expected' \in [Request -> Ua \cup {None}]
      /\ pc' = [pc EXCEPT ![r] = "precheck"]
  BY <1>1, LookupType DEF Wake
<1>4. RulesTypeOK'
  BY <1>2, SameRules
<1>5. StoreTypeOK(Result, Request \X {"attempt", "upsert"})'
  BY <1>2, SameStore
<1>6. CrawlTypeOK' /\ SeenTypeOK'
  BY <1>2, <1>3 DEF CrawlTypeOK, SeenTypeOK
<1>7. CrawlPlaced'
  BY <1>1, <1>2, <1>3 DEF CrawlTypeOK, CrawlPlaced, ruleVars, rules, outside
<1> QED
  BY <1>4, <1>5, <1>6, <1>7

LEMMA StaticFetchType ==
  ASSUME SeenTypeOK, NEW r \in Request, NEW ua \in Ua, StaticFetch(r, ua)
  PROVE  /\ tried' \in [Request -> Seq(Ua)]
         /\ tried'[r] = Append(tried[r], ua) /\ tried'[r] # <<>>
         /\ \A q \in Request \ {r} : tried'[q] = tried[q]
         /\ pc' = [pc EXCEPT ![r] = "fetch"]
<1>1. tried[r] \in Seq(Ua) /\ tried \in [Request -> Seq(Ua)]
  BY DEF SeenTypeOK
<1>2. Append(tried[r], ua) \in Seq(Ua) /\ Len(Append(tried[r], ua)) = Len(tried[r]) + 1
  BY <1>1
<1>3. Append(tried[r], ua) # <<>>
  BY <1>1, <1>2
<1> QED
  BY <1>1, <1>2, <1>3 DEF StaticFetch

LEMMA PrecheckType ==
  ASSUME TypeInv, NEW r \in Request, Precheck(r)
  PROVE  TypeInv'
<1> USE DEF TypeInv, TypeOK
<1>1. UNCHANGED <<url, rule, first, left, page, via, renders, expected,
                  ruleVars, storeVars>>
  BY DEF Precheck
<1>2. pc[r] = "precheck" /\ url[r] \in Url
  BY DEF Precheck, CrawlPlaced
<1>3. PICK e \in Url : eff' = [eff EXCEPT ![r] = e]
  BY <1>2, LadderAssumption DEF Precheck
<1>4. RulesTypeOK'
  BY <1>1, SameRules
<1>5. StoreTypeOK(Result, Request \X {"attempt", "upsert"})'
  BY <1>1, SameStore
<1>6. CASE \E c \in {"SSRF_BLOCKED", "DNS_FAIL"} : Fail(r, c, url[r]) /\ UNCHANGED tried
  <2>1. PICK c \in {"SSRF_BLOCKED", "DNS_FAIL"} : Fail(r, c, url[r]) /\ UNCHANGED tried
    BY <1>6
  <2>2. c \in Code
    BY DEF Code
  <2>3. /\ result' \in [Request -> Result \cup {None}]
        /\ result'[r] \in Result
        /\ \A q \in Request \ {r} : result'[q] = result[q]
        /\ pc' = [pc EXCEPT ![r] = "attempt"]
    BY <1>2, <2>1, <2>2, FailType
  <2>4. CrawlTypeOK' /\ SeenTypeOK'
    BY <1>1, <1>3, <2>1, <2>3 DEF CrawlTypeOK, SeenTypeOK
  <2>5. CrawlPlaced'
    BY <1>1, <1>2, <1>3, <2>1, <2>3 DEF CrawlTypeOK, CrawlPlaced, ruleVars, rules, outside
  <2> QED
    BY <1>4, <1>5, <2>4, <2>5
<1>7. CASE StaticFetch(r, UaOf(rule[r])) /\ UNCHANGED result
  <2>1. UaOf(rule[r]) \in Ua
    BY LadderAssumption DEF UaOf, CrawlTypeOK, Rule
  <2>2. tried' \in [Request -> Seq(Ua)] /\ tried'[r] # <<>>
    BY <1>7, <2>1, StaticFetchType
  <2>3. \A q \in Request \ {r} : tried'[q] = tried[q]
    BY <1>7, <2>1, StaticFetchType
  <2>4. CrawlTypeOK' /\ SeenTypeOK'
    BY <1>1, <1>3, <1>7, <2>2 DEF CrawlTypeOK, SeenTypeOK, StaticFetch
  <2>5. CrawlPlaced'
    BY <1>1, <1>2, <1>3, <1>7, <2>2, <2>3
       DEF CrawlTypeOK, CrawlPlaced, ruleVars, rules, outside, StaticFetch
  <2> QED
    BY <1>4, <1>5, <2>4, <2>5
<1> QED
  BY <1>6, <1>7 DEF Precheck

\* Of the places that are left, one is taken, or the crawl goes to the browser.
LEMMA TryNextType ==
  ASSUME TypeInv, NEW r \in Request, NEW S \in SUBSET (1..Len(RecoveryUas)), TryNext(r, S),
         tried[r] # <<>>
  PROVE  /\ tried' \in [Request -> Seq(Ua)] /\ tried'[r] # <<>>
         /\ \A q \in Request \ {r} : tried'[q] = tried[q]
         /\ left' \in [Request -> SUBSET (1..Len(RecoveryUas))]
         /\ renders' \in [Request -> Nat]
         /\ pc' = [pc EXCEPT ![r] = "fetch"] \/ pc' = [pc EXCEPT ![r] = "recover"]
<1> USE DEF TypeInv, TypeOK
<1>1. CASE /\ S # {}
           /\ StaticFetch(r, RecoveryUas[Least(S)])
           /\ left' = [left EXCEPT ![r] = S \ {Least(S)}]
           /\ UNCHANGED renders
  <2>1. S \in SUBSET Nat
    OBVIOUS
  <2>2. Least(S) \in S
    BY <1>1, <2>1, LeastIsLeast
  <2>3. RecoveryUas[Least(S)] \in Ua
    <3>1. RecoveryUas \in Seq(Ua) /\ Least(S) \in 1..Len(RecoveryUas)
      BY <2>2, LadderAssumption
    <3> QED
      BY <3>1
  <2>4. /\ tried' \in [Request -> Seq(Ua)] /\ tried'[r] # <<>>
        /\ \A q \in Request \ {r} : tried'[q] = tried[q]
        /\ pc' = [pc EXCEPT ![r] = "fetch"]
    BY <1>1, <2>3, StaticFetchType
  <2> QED
    BY <1>1, <2>4 DEF CrawlTypeOK, SeenTypeOK
<1>2. CASE /\ S = {}
           /\ StartRender(r, "recover") /\ left' = [left EXCEPT ![r] = {}]
           /\ UNCHANGED tried
  BY <1>2 DEF StartRender, CrawlTypeOK, SeenTypeOK
<1> QED
  BY <1>1, <1>2 DEF TryNext

LEMMA StaticThrowsType ==
  ASSUME TypeInv, NEW r \in Request, StaticThrows(r)
  PROVE  TypeInv'
<1> USE DEF TypeInv, TypeOK
<1>1. UNCHANGED <<url, eff, rule, page, via, expected, ruleVars, storeVars>>
  BY DEF StaticThrows
<1>2. pc[r] = "fetch" /\ url[r] \in Url /\ eff[r] \in Url /\ tried[r] # <<>>
  BY DEF StaticThrows, CrawlPlaced
<1>3. PICK c \in Thrown :
        \/ /\ first[r] = None
           /\ Fail(r, c, url[r]) /\ UNCHANGED <<first, left, tried, renders>>
        \/ /\ first[r] = None
           /\ first' = [first EXCEPT ![r] = c]
           /\ TryNext(r, Candidates(rule[r])) /\ UNCHANGED result
        \/ /\ first[r] # None
           /\ TryNext(r, IF IsBotBlock(c) THEN left[r] ELSE {})
           /\ UNCHANGED <<first, result>>
  BY DEF StaticThrows
<1>4. RulesTypeOK'
  BY <1>1, SameRules
<1>5. StoreTypeOK(Result, Request \X {"attempt", "upsert"})'
  BY <1>1, SameStore
<1>6. CASE Fail(r, c, url[r]) /\ UNCHANGED <<first, left, tried, renders>>
  <2>1. c \in Code
    BY DEF Code
  <2>2. /\ result' \in [Request -> Result \cup {None}]
        /\ result'[r] \in Result
        /\ \A q \in Request \ {r} : result'[q] = result[q]
        /\ pc' = [pc EXCEPT ![r] = "attempt"]
    BY <1>2, <1>6, <2>1, FailType
  <2>3. CrawlTypeOK' /\ SeenTypeOK'
    BY <1>1, <1>6, <2>2 DEF CrawlTypeOK, SeenTypeOK
  <2>4. CrawlPlaced'
    BY <1>1, <1>2, <1>6, <2>2 DEF CrawlTypeOK, CrawlPlaced, ruleVars, rules, outside
  <2> QED
    BY <1>4, <1>5, <2>3, <2>4
<1>7. ASSUME NEW S \in SUBSET (1..Len(RecoveryUas)), TryNext(r, S), UNCHANGED result,
             first' \in [Request -> Thrown \cup {None}], first'[r] \in Thrown,
             \A q \in Request \ {r} : first'[q] = first[q]
      PROVE  TypeInv'
  <2>1. /\ tried' \in [Request -> Seq(Ua)] /\ tried'[r] # <<>>
        /\ \A q \in Request \ {r} : tried'[q] = tried[q]
        /\ left' \in [Request -> SUBSET (1..Len(RecoveryUas))]
        /\ renders' \in [Request -> Nat]
        /\ pc' = [pc EXCEPT ![r] = "fetch"] \/ pc' = [pc EXCEPT ![r] = "recover"]
    BY <1>2, <1>7, TryNextType
  <2>2. CrawlTypeOK' /\ SeenTypeOK'
    BY <1>1, <1>7, <2>1 DEF CrawlTypeOK, SeenTypeOK
  <2>3. CrawlPlaced'
    BY <1>1, <1>2, <1>7, <2>1 DEF CrawlTypeOK, CrawlPlaced, ruleVars, rules, outside
  <2> QED
    BY <1>4, <1>5, <2>2, <2>3
<1>8. CASE /\ first' = [first EXCEPT ![r] = c]
           /\ TryNext(r, Candidates(rule[r])) /\ UNCHANGED result
  <2>1. Candidates(rule[r]) \in SUBSET (1..Len(RecoveryUas))
    BY DEF Candidates
  <2> QED
    BY <1>7, <1>8, <2>1 DEF CrawlTypeOK
<1>9. CASE /\ first[r] # None
           /\ TryNext(r, IF IsBotBlock(c) THEN left[r] ELSE {})
           /\ UNCHANGED <<first, result>>
  <2>1. (IF IsBotBlock(c) THEN left[r] ELSE {}) \in SUBSET (1..Len(RecoveryUas))
    BY DEF CrawlTypeOK
  <2> QED
    BY <1>7, <1>9, <2>1 DEF CrawlTypeOK
<1> QED
  BY <1>3, <1>6, <1>8, <1>9

\* What a crawl learns is a patch of a domain.
LEMMA RecoveredType ==
  ASSUME TypeInv, NEW r \in Request, eff[r] \in Url, NEW patch \in Patch,
         Recovered(r, patch), UNCHANGED <<outside, rules>>
  PROVE  RulesTypeOK'
<1>1. Site[eff[r]] \in Name
  BY RulesAssumption
<1> QED
  BY <1>1, LearnType DEF Recovered, TypeInv, TypeOK

LEMMA StartRenderType ==
  ASSUME SeenTypeOK, NEW r \in Request, NEW at, StartRender(r, at)
  PROVE  renders' \in [Request -> Nat] /\ pc' = [pc EXCEPT ![r] = at]
BY DEF StartRender, SeenTypeOK

LEMMA StaticReturnsType ==
  ASSUME TypeInv, NEW r \in Request, StaticReturns(r)
  PROVE  TypeInv'
<1> USE DEF TypeInv, TypeOK
<1> DEFINE ua == tried[r][Len(tried[r])]
           ru == IF first[r] = None THEN rule[r] ELSE [rule[r] EXCEPT !.ua = ua]
<1>1. UNCHANGED <<url, eff, first, left, tried, expected, outside, rules, storeVars>>
  BY DEF StaticReturns
<1>2. pc[r] = "fetch" /\ url[r] \in Url /\ eff[r] \in Url /\ tried[r] # <<>>
  BY DEF StaticReturns, CrawlPlaced
<1>3. ua \in Ua
  <2>1. tried[r] \in Seq(Ua)
    BY DEF SeenTypeOK
  <2> QED
    BY <1>2, <2>1
<1>4. ru \in Rule
  BY <1>3, ZenonT(30) DEF CrawlTypeOK, Rule
<1>6. StoreTypeOK(Result, Request \X {"attempt", "upsert"})'
  BY <1>1, SameStore
<1>7. rule' = [rule EXCEPT ![r] = ru]
  BY DEF StaticReturns
<1>8. rule' \in [Request -> Rule]
  BY <1>4, <1>7 DEF CrawlTypeOK
<1>9. PICK p \in Pages :
        /\ page' = [page EXCEPT ![r] = p]
        /\ \/ /\ first[r] = None /\ UNCHANGED <<via, learned>>
           \/ /\ via' = [via EXCEPT ![r] = "ua_override"]
              /\ Recovered(r, [NoPatch EXCEPT !.ua = ua])
        /\ \/ /\ Fail(r, "NON_HTML", p.final) /\ UNCHANGED renders
           \/ /\ Finalize(r, "static", NonHtmlFields(p), "NON_HTML", p.final)
              /\ UNCHANGED renders
           \/ /\ Fail(r, "PARSE_ERROR", p.final) /\ UNCHANGED renders
           \/ /\ Finalize(r, "static", p.fields, Note(p.meta), p.final)
              /\ UNCHANGED renders
           \/ /\ pc' = [pc EXCEPT ![r] = "oembed"] /\ UNCHANGED <<result, renders>>
           \/ /\ StartRender(r, "render") /\ UNCHANGED result
  BY DEF StaticReturns
<1>10. p \in Page /\ p.final \in Url /\ p.fields \in SUBSET Field
  BY LadderAssumption DEF Page
<1>5. /\ RulesTypeOK'
      /\ via' \in [Request -> {"ua_override", "headless", None}]
  <2>1. CASE first[r] = None /\ UNCHANGED <<via, learned>>
    BY <1>1, <2>1, SameRules DEF ruleVars, CrawlTypeOK, SeenTypeOK
  <2>2. CASE /\ via' = [via EXCEPT ![r] = "ua_override"]
             /\ Recovered(r, [NoPatch EXCEPT !.ua = ua])
    <3>1. [NoPatch EXCEPT !.ua = ua] \in Patch
      BY <1>3 DEF NoPatch, Patch
    <3>2. via' \in [Request -> {"ua_override", "headless", None}]
      BY <2>2 DEF CrawlTypeOK
    <3> QED
      BY <1>1, <1>2, <2>2, <3>1, <3>2, RecoveredType
  <2> QED
    BY <1>9, <2>1, <2>2
<1>11. page' \in [Request -> Page \cup {None}] /\ page'[r] \in Page
  BY <1>9, <1>10 DEF CrawlTypeOK
<1>12. \A q \in Request \ {r} : page'[q] = page[q]
  BY <1>9 DEF CrawlTypeOK
<1>13. ASSUME NEW where, pc' = [pc EXCEPT ![r] = where], UNCHANGED renders,
              where \in {"attempt", "done"},
              result' \in [Request -> Result \cup {None}], result'[r] \in Result,
              \A q \in Request \ {r} : result'[q] = result[q]
       PROVE  TypeInv'
  <2>1. CrawlTypeOK' /\ SeenTypeOK'
    BY <1>1, <1>5, <1>8, <1>11, <1>13 DEF CrawlTypeOK, SeenTypeOK
  <2>2. CrawlPlaced'
    BY <1>1, <1>2, <1>11, <1>12, <1>13 DEF CrawlTypeOK, CrawlPlaced, rules, outside
  <2> QED
    BY <1>5, <1>6, <2>1, <2>2
<1>14. ASSUME NEW where, pc' = [pc EXCEPT ![r] = where], where \in {"oembed", "render"},
              renders' \in [Request -> Nat], UNCHANGED result
       PROVE  TypeInv'
  <2>1. CrawlTypeOK' /\ SeenTypeOK'
    BY <1>1, <1>5, <1>8, <1>11, <1>14 DEF CrawlTypeOK, SeenTypeOK
  <2>2. CrawlPlaced'
    BY <1>1, <1>2, <1>11, <1>12, <1>14 DEF CrawlTypeOK, CrawlPlaced, rules, outside
  <2> QED
    BY <1>5, <1>6, <2>1, <2>2
<1>15. CASE Finalize(r, "static", NonHtmlFields(p), "NON_HTML", p.final)
            /\ UNCHANGED renders
  <2>1. NonHtmlFields(p) \in SUBSET Field /\ "NON_HTML" \in Code \cup {None}
    BY DEF NonHtmlFields, Field, Code
  <2> QED
    BY <1>10, <1>13, <1>15, <2>1, FinalizeType
<1>16. CASE \/ Fail(r, "PARSE_ERROR", p.final) /\ UNCHANGED renders
            \/ Fail(r, "NON_HTML", p.final) /\ UNCHANGED renders
  <2>1. {"PARSE_ERROR", "NON_HTML"} \subseteq Code
    BY DEF Code
  <2> QED
    BY <1>10, <1>13, <1>16, <2>1, FailType
<1>17. CASE Finalize(r, "static", p.fields, Note(p.meta), p.final) /\ UNCHANGED renders
  <2>1. Note(p.meta) \in Code \cup {None}
    BY DEF Note, Code
  <2> QED
    BY <1>10, <1>13, <1>17, <2>1, FinalizeType
<1>18. CASE pc' = [pc EXCEPT ![r] = "oembed"] /\ UNCHANGED <<result, renders>>
  BY <1>14, <1>18 DEF SeenTypeOK
<1>19. CASE StartRender(r, "render") /\ UNCHANGED result
  BY <1>14, <1>19, StartRenderType
<1> QED
  BY <1>9, <1>15, <1>16, <1>17, <1>18, <1>19

LEMMA RecoverType ==
  ASSUME TypeInv, NEW r \in Request, Recover(r)
  PROVE  TypeInv'
<1> USE DEF TypeInv, TypeOK
<1>1. UNCHANGED <<url, eff, rule, first, left, page, tried, renders, expected, outside,
                  rules, storeVars>>
  BY DEF Recover
<1>2. pc[r] = "recover" /\ url[r] \in Url /\ eff[r] \in Url /\ first[r] \in Thrown
  BY DEF Recover, CrawlPlaced
<1>3. StoreTypeOK(Result, Request \X {"attempt", "upsert"})'
  BY <1>1, SameStore
<1>4. ASSUME NEW where, pc' = [pc EXCEPT ![r] = where], where \in {"attempt", "done"},
             result' \in [Request -> Result \cup {None}], result'[r] \in Result,
             \A q \in Request \ {r} : result'[q] = result[q],
             via' \in [Request -> {"ua_override", "headless", None}],
             NEW patch \in Patch, Recovered(r, patch)
      PROVE  TypeInv'
  <2>1. RulesTypeOK'
    BY <1>1, <1>2, <1>4, RecoveredType
  <2>2. CrawlTypeOK' /\ SeenTypeOK'
    BY <1>1, <1>4, <2>1 DEF CrawlTypeOK, SeenTypeOK
  <2>3. CrawlPlaced'
    BY <1>1, <1>2, <1>4 DEF CrawlTypeOK, CrawlPlaced, rules, outside
  <2> QED
    BY <1>3, <2>1, <2>2, <2>3
<1>5. CASE \E d \in Renders :
             /\ Recovered(r, [NoPatch EXCEPT !.force = TRUE])
             /\ via' = [via EXCEPT ![r] = "headless"]
             /\ Finalize(r, "headless", d.fields, Note(d.meta), d.final)
  <2>1. PICK d \in Renders :
          /\ Recovered(r, [NoPatch EXCEPT !.force = TRUE])
          /\ via' = [via EXCEPT ![r] = "headless"]
          /\ Finalize(r, "headless", d.fields, Note(d.meta), d.final)
    BY <1>5
  <2>2. d.fields \in SUBSET Field /\ d.final \in Url /\ Note(d.meta) \in Code \cup {None}
    BY LadderAssumption DEF Dom, Note, Code
  <2>3. /\ result' \in [Request -> Result \cup {None}]
        /\ result'[r] \in Result
        /\ \A q \in Request \ {r} : result'[q] = result[q]
        /\ pc' = [pc EXCEPT ![r] = "done"]
    BY <2>1, <2>2, FinalizeType
  <2>4. [NoPatch EXCEPT !.force = TRUE] \in Patch
    BY DEF NoPatch, Patch
  <2>5. via' \in [Request -> {"ua_override", "headless", None}]
    BY <2>1 DEF CrawlTypeOK
  <2> QED
    BY <1>4, <2>1, <2>3, <2>4, <2>5
<1>6. CASE /\ Recovered(r, [NoPatch EXCEPT !.challenge = TRUE])
           /\ Fail(r, first[r], url[r]) /\ UNCHANGED via
  <2>1. first[r] \in Code
    BY <1>2 DEF Code
  <2>2. /\ result' \in [Request -> Result \cup {None}]
        /\ result'[r] \in Result
        /\ \A q \in Request \ {r} : result'[q] = result[q]
        /\ pc' = [pc EXCEPT ![r] = "attempt"]
    BY <1>2, <1>6, <2>1, FailType
  <2>3. [NoPatch EXCEPT !.challenge = TRUE] \in Patch
    BY DEF NoPatch, Patch
  <2>4. via' \in [Request -> {"ua_override", "headless", None}]
    BY <1>6 DEF CrawlTypeOK
  <2> QED
    BY <1>4, <1>6, <2>2, <2>3, <2>4
<1> QED
  BY <1>5, <1>6 DEF Recover

LEMMA OembedType ==
  ASSUME TypeInv, NEW r \in Request, Oembed(r)
  PROVE  TypeInv'
<1> USE DEF TypeInv, TypeOK
<1>1. UNCHANGED <<url, eff, rule, first, left, page, via, tried, expected,
                  ruleVars, storeVars>>
  BY DEF Oembed
<1>2. /\ pc[r] = "oembed" /\ url[r] \in Url /\ eff[r] \in Url /\ tried[r] # <<>>
      /\ page[r] \in Page
  BY DEF Oembed, CrawlPlaced
<1>3. RulesTypeOK'
  BY <1>1, SameRules
<1>4. StoreTypeOK(Result, Request \X {"attempt", "upsert"})'
  BY <1>1, SameStore
<1>5. CASE \E f \in Fills :
             /\ Finalize(r, "oembed", MergeFill(page[r].fields, f), None, page[r].final)
             /\ UNCHANGED renders
  <2>1. PICK f \in Fills :
             /\ Finalize(r, "oembed", MergeFill(page[r].fields, f), None, page[r].final)
             /\ UNCHANGED renders
    BY <1>5
  <2>2. MergeFill(page[r].fields, f) \in SUBSET Field /\ page[r].final \in Url
    BY <1>2, LadderAssumption DEF Page, MergeFill
  <2>3. /\ result' \in [Request -> Result \cup {None}]
        /\ result'[r] \in Result
        /\ \A q \in Request \ {r} : result'[q] = result[q]
        /\ pc' = [pc EXCEPT ![r] = "done"]
    BY <2>1, <2>2, FinalizeType
  <2>4. CrawlTypeOK' /\ SeenTypeOK'
    BY <1>1, <2>1, <2>3 DEF CrawlTypeOK, SeenTypeOK
  <2>5. CrawlPlaced'
    BY <1>1, <1>2, <2>3 DEF CrawlTypeOK, CrawlPlaced, ruleVars, rules, outside
  <2> QED
    BY <1>3, <1>4, <2>4, <2>5
<1>6. CASE StartRender(r, "render") /\ UNCHANGED result
  <2>1. renders' \in [Request -> Nat] /\ pc' = [pc EXCEPT ![r] = "render"]
    BY <1>6, StartRenderType
  <2>2. CrawlTypeOK' /\ SeenTypeOK'
    BY <1>1, <1>6, <2>1 DEF CrawlTypeOK, SeenTypeOK
  <2>3. CrawlPlaced'
    BY <1>1, <1>2, <1>6, <2>1 DEF CrawlTypeOK, CrawlPlaced, ruleVars, rules, outside
  <2> QED
    BY <1>3, <1>4, <2>2, <2>3
<1> QED
  BY <1>5, <1>6 DEF Oembed

LEMMA RenderType ==
  ASSUME TypeInv, NEW r \in Request, Render(r)
  PROVE  TypeInv'
<1> USE DEF TypeInv, TypeOK
<1>1. UNCHANGED <<url, eff, rule, first, left, page, via, seen, ruleVars, storeVars>>
  BY DEF Render
<1>2. pc[r] = "render" /\ url[r] \in Url /\ eff[r] \in Url /\ page[r] \in Page
  BY DEF Render, CrawlPlaced
<1>3. RulesTypeOK'
  BY <1>1, SameRules
<1>4. StoreTypeOK(Result, Request \X {"attempt", "upsert"})'
  BY <1>1, SameStore
<1>5. page[r].fields \in SUBSET Field /\ page[r].final \in Url
  BY <1>2 DEF Page
<1>6. /\ result' \in [Request -> Result \cup {None}]
      /\ result'[r] \in Result
      /\ \A q \in Request \ {r} : result'[q] = result[q]
      /\ pc' = [pc EXCEPT ![r] = "done"]
  <2>1. CASE \E d \in Renders :
               Finalize(r, "headless", MergeFill(page[r].fields, d.fields),
                        Note(page[r].meta \/ d.meta), d.final)
    <3>1. PICK d \in Renders :
               Finalize(r, "headless", MergeFill(page[r].fields, d.fields),
                        Note(page[r].meta \/ d.meta), d.final)
      BY <2>1
    <3>2. /\ MergeFill(page[r].fields, d.fields) \in SUBSET Field /\ d.final \in Url
          /\ Note(page[r].meta \/ d.meta) \in Code \cup {None}
      BY <1>5, LadderAssumption DEF Dom, MergeFill, Note, Code
    <3> QED
      BY <3>1, <3>2, FinalizeType
  <2>2. CASE \E c \in {"JS_TIMEOUT", "RENDER_CRASH"} :
               Finalize(r, "static", page[r].fields,
                        IF page[r].meta THEN c ELSE "NO_OG_TAGS", page[r].final)
    <3>1. PICK c \in {"JS_TIMEOUT", "RENDER_CRASH"} :
               Finalize(r, "static", page[r].fields,
                        IF page[r].meta THEN c ELSE "NO_OG_TAGS", page[r].final)
      BY <2>2
    <3>2. (IF page[r].meta THEN c ELSE "NO_OG_TAGS") \in Code \cup {None}
      BY DEF Code
    <3> QED
      BY <1>5, <3>1, <3>2, FinalizeType
  <2> QED
    BY <2>1, <2>2 DEF Render
<1>7. CrawlTypeOK' /\ SeenTypeOK'
  BY <1>1, <1>6 DEF CrawlTypeOK, SeenTypeOK, seen
<1>8. CrawlPlaced'
  BY <1>1, <1>2, <1>6 DEF CrawlTypeOK, CrawlPlaced, seen, ruleVars, rules, outside
<1> QED
  BY <1>3, <1>4, <1>7, <1>8

LEMMA WriteType ==
  ASSUME TypeInv, NEW r \in Request, FailAttempt(r) \/ FailUpsert(r)
  PROVE  TypeInv'
<1> USE DEF TypeInv, TypeOK
<1>1. UNCHANGED <<crawl, seen, ruleVars>>
  BY DEF FailAttempt, FailUpsert
<1>2. RulesTypeOK'
  BY <1>1, SameRules
<1>3. result[r] \in Result
  BY DEF FailAttempt, FailUpsert, CrawlPlaced
<1>4. \E where \in {"upsert", "done"} : pc' = [pc EXCEPT ![r] = where]
  BY DEF FailAttempt, FailUpsert
<1>5. pc[r] \in {"attempt", "upsert"}
  BY DEF FailAttempt, FailUpsert
<1>6. CrawlTypeOK' /\ SeenTypeOK'
  BY <1>1, <1>4 DEF CrawlTypeOK, SeenTypeOK, crawl, seen
<1>7. CrawlPlaced'
  BY <1>1, <1>3, <1>4, <1>5
     DEF CrawlTypeOK, CrawlPlaced, crawl, seen, ruleVars, rules, outside
<1>8. StoreTypeOK(Result, Request \X {"attempt", "upsert"})'
  <2>1. CASE FailAttempt(r)
    <3>1. Append(attempts, result[r]) \in Seq(Result)
      BY <1>3 DEF StoreTypeOK
    <3>2. attempts' \in Seq(Result) /\ UNCHANGED failed
      BY <2>1, <3>1 DEF FailAttempt, WriteAttempt, StoreTypeOK
    <3>3. lost' \subseteq Request \X {"attempt", "upsert"}
      BY <2>1 DEF FailAttempt, WriteAttempt, Lost, StoreTypeOK
    <3> QED
      BY <3>2, <3>3 DEF StoreTypeOK
  <2>2. CASE FailUpsert(r)
    <3> DEFINE k == FailedKey(result[r])
    <3>1. lost' \subseteq Request \X {"attempt", "upsert"} /\ UNCHANGED attempts
      BY <2>2 DEF FailUpsert, UpsertFailedCrawl, Lost, StoreTypeOK
    <3>2. Occurrences(k) \in Nat \ {0}
      BY DEF Occurrences, CountUp, StoreTypeOK
    <3>3. \/ failed' = [x \in DOMAIN failed \cup {k} |->
                          IF x = k THEN Occurrences(k) ELSE failed[x]]
          \/ UNCHANGED failed
      BY <2>2 DEF FailUpsert, UpsertFailedCrawl
    <3> HIDE DEF k
    <3>4. \A x \in DOMAIN failed' : failed'[x] \in Nat \ {0}
      <4>1. CASE UNCHANGED failed
        BY <4>1 DEF StoreTypeOK
      <4>2. CASE failed' = [x \in DOMAIN failed \cup {k} |->
                              IF x = k THEN Occurrences(k) ELSE failed[x]]
        <5>1. DOMAIN failed' = DOMAIN failed \cup {k}
          BY <4>2
        <5>2. \A x \in DOMAIN failed \cup {k} :
                failed'[x] = IF x = k THEN Occurrences(k) ELSE failed[x]
          BY <4>2
        <5> QED
          BY <3>2, <5>1, <5>2 DEF StoreTypeOK
      <4> QED
        BY <3>3, <4>1, <4>2
    <3> QED
      BY <3>1, <3>4 DEF StoreTypeOK
  <2> QED
    BY <2>1, <2>2
<1> QED
  BY <1>2, <1>6, <1>7, <1>8

LEMMA SurroundingsType ==
  ASSUME TypeInv, Tick \/ Surroundings
  PROVE  TypeInv'
<1> USE DEF TypeInv, TypeOK
<1>1. UNCHANGED <<pc, crawl, seen, storeVars>>
  BY DEF Tick, Surroundings
<1>2. RulesTypeOK'
  BY LoadType DEF Tick, Surroundings
<1>3. StoreTypeOK(Result, Request \X {"attempt", "upsert"})'
  BY <1>1, SameStore
<1>4. CrawlTypeOK' /\ SeenTypeOK'
  BY <1>1 DEF CrawlTypeOK, SeenTypeOK, crawl, seen
<1>6. CrawlPlaced'
  BY <1>1 DEF CrawlPlaced, crawl, seen
<1> QED
  BY <1>2, <1>3, <1>4, <1>6

LEMMA TypeInitially == Init => TypeInv
<1> SUFFICES ASSUME Init PROVE TypeInv
  OBVIOUS
<1>1. RulesTypeOK
  BY RulesInitially DEF Init
<1>2. DefaultRule \in Rule
  BY DEF DefaultRule, Rule
<1>3. CrawlTypeOK /\ CrawlPlaced
  BY <1>2, RulesAssumption DEF Init, CrawlTypeOK, CrawlPlaced
<1>4. SeenTypeOK
  BY DEF Init, SeenTypeOK
<1>5. StoreTypeOK(Result, Request \X {"attempt", "upsert"})
  <2>1. DOMAIN failed = {}
    BY DEF Init, StoreInit
  <2> QED
    BY <2>1 DEF Init, StoreInit, StoreTypeOK
<1> QED
  BY <1>1, <1>3, <1>4, <1>5 DEF TypeInv, TypeOK

LEMMA TypeStep == TypeInv /\ [Next]_vars => TypeInv'
<1> SUFFICES ASSUME TypeInv, [Next]_vars PROVE TypeInv'
  OBVIOUS
<1>1. CASE \E r \in Request : Step(r)
  <2>1. PICK r \in Request : Step(r)
    BY <1>1
  <2> QED
    BY <2>1, ArriveType, WakeType, PrecheckType, StaticThrowsType, StaticReturnsType,
       RecoverType, OembedType, RenderType, WriteType DEF Step
<1>2. CASE Tick \/ Surroundings
  BY <1>2, SurroundingsType
<1>3. CASE UNCHANGED vars
  <2>1. UNCHANGED <<pc, crawl, seen, ruleVars, storeVars>>
    BY <1>3 DEF vars
  <2>2. RulesTypeOK' /\ StoreTypeOK(Result, Request \X {"attempt", "upsert"})'
    BY <2>1, SameRules, SameStore DEF TypeInv, TypeOK
  <2>3. CrawlTypeOK' /\ SeenTypeOK' /\ CrawlPlaced'
    BY <2>1 DEF TypeInv, TypeOK, CrawlTypeOK, SeenTypeOK, CrawlPlaced, crawl, seen, ruleVars,
                rules, outside
  <2> QED
    BY <2>2, <2>3 DEF TypeInv, TypeOK
<1> QED
  BY <1>1, <1>2, <1>3 DEF Next, Quiet

\* The variables have their types in every state: rules, crawls and store.
THEOREM TypeCorrect == Spec => []TypeOK
<1>1. Spec => []TypeInv
  BY TypeInitially, TypeStep, PTL DEF Spec
<1>2. TypeInv => TypeOK
  BY DEF TypeInv
<1> QED
  BY <1>1, <1>2, PTL

----------------------------------------------------------------------------
(* A step of one crawl *)

Keeps(q) ==
  /\ pc'[q] = pc[q] /\ url'[q] = url[q] /\ rule'[q] = rule[q] /\ first'[q] = first[q]
  /\ left'[q] = left[q] /\ page'[q] = page[q] /\ result'[q] = result[q]
  /\ tried'[q] = tried[q] /\ renders'[q] = renders[q] /\ expected'[q] = expected[q]
  /\ eff'[q] = eff[q] /\ via'[q] = via[q]

\* A step of one crawl leaves what the others know as it is.
LEMMA OthersKeep ==
  ASSUME TypeInv, NEW r \in Request, NEW q \in Request \ {r}, Step(r)
  PROVE  Keeps(q)
<1> USE DEF TypeInv, TypeOK, CrawlTypeOK, SeenTypeOK, Keeps
<1>1. CASE Arrive(r)
  BY <1>1 DEF Arrive, Fail, Lookup
<1>2. CASE Wake(r)
  BY <1>2 DEF Wake, Lookup
<1>3. CASE Precheck(r)
  BY <1>3 DEF Precheck, Fail, StaticFetch
<1>4. CASE StaticThrows(r)
  BY <1>4 DEF StaticThrows, Fail, TryNext, StaticFetch, StartRender
<1>5. CASE StaticReturns(r)
  <2>1. /\ url' = url /\ eff' = eff /\ first' = first /\ left' = left
        /\ tried' = tried /\ expected' = expected
    BY <1>5 DEF StaticReturns
  <2>2. rule'[q] = rule[q] /\ page'[q] = page[q] /\ via'[q] = via[q]
    BY <1>5 DEF StaticReturns
  <2>3. pc'[q] = pc[q] /\ result'[q] = result[q] /\ renders'[q] = renders[q]
    <3>1. \/ UNCHANGED renders /\ \E c, final : Fail(r, c, final)
          \/ UNCHANGED renders /\ \E f, c, final : Finalize(r, "static", f, c, final)
          \/ UNCHANGED <<result, renders>> /\ pc' = [pc EXCEPT ![r] = "oembed"]
          \/ UNCHANGED result /\ StartRender(r, "render")
      BY <1>5 DEF StaticReturns
    <3> QED
      BY <3>1 DEF Fail, Finalize, StartRender
  <2> QED
    BY <2>1, <2>2, <2>3
<1>6. CASE Recover(r)
  BY <1>6 DEF Recover, Fail, Finalize
<1>7. CASE Oembed(r)
  BY <1>7 DEF Oembed, Finalize, StartRender
<1>8. CASE Render(r)
  BY <1>8 DEF Render, Finalize, seen
<1>9. CASE FailAttempt(r) \/ FailUpsert(r)
  BY <1>9 DEF FailAttempt, FailUpsert, crawl, seen
<1> QED
  BY <1>1, <1>2, <1>3, <1>4, <1>5, <1>6, <1>7, <1>8, <1>9 DEF Step

\* The steps that are not of a crawl leave all of them as they are.
LEMMA AllKeep ==
  ASSUME NEW q \in Request, Tick \/ Surroundings \/ UNCHANGED vars
  PROVE  Keeps(q)
BY DEF Tick, Surroundings, vars, crawl, seen, Keeps

----------------------------------------------------------------------------
(* What is learned *)

\* What a step may do to the overlay: nothing, or the patch of a recovery.
LEMMA LearnsOrNot ==
  ASSUME TypeInv, [Next]_vars
  PROVE  \/ UNCHANGED learned
         \/ \E d \in Url, patch \in Patch :
              learned' = [learned EXCEPT ![Site[d]] = Merge(@, patch)]
<1> USE DEF TypeInv, TypeOK
<1>1. CASE \E r \in Request : StaticReturns(r)
  <2>1. PICK r \in Request : StaticReturns(r)
    BY <1>1
  <2> DEFINE ua == tried[r][Len(tried[r])]
             patch == [NoPatch EXCEPT !.ua = ua]
  <2>2. \/ UNCHANGED learned
        \/ Recovered(r, patch)
    BY <2>1 DEF StaticReturns
  <2>3. tried[r] \in Seq(Ua) /\ tried[r] # <<>> /\ eff[r] \in Url
    BY <2>1 DEF StaticReturns, CrawlPlaced, SeenTypeOK
  <2>4. ua \in Ua
    BY <2>3
  <2>5. patch \in Patch
    BY <2>4 DEF NoPatch, Patch
  <2> HIDE DEF ua, patch
  <2> QED
    BY <2>2, <2>3, <2>5 DEF Recovered, Learn
<1>2. CASE \E r \in Request : Recover(r)
  <2>1. PICK r \in Request : Recover(r)
    BY <1>2
  <2>2. eff[r] \in Url
    BY <2>1 DEF Recover, CrawlPlaced
  <2>3. \E patch \in Patch : Recovered(r, patch)
    <3>1. /\ [NoPatch EXCEPT !.force = TRUE] \in Patch
          /\ [NoPatch EXCEPT !.challenge = TRUE] \in Patch
      BY DEF NoPatch, Patch
    <3> QED
      BY <2>1, <3>1 DEF Recover
  <2> QED
    BY <2>2, <2>3 DEF Recovered, Learn
<1>3. CASE /\ ~ \E r \in Request : StaticReturns(r)
           /\ ~ \E r \in Request : Recover(r)
  BY <1>3 DEF Next, Step, Arrive, Wake, Precheck, StaticThrows, Oembed, Render, FailAttempt,
              FailUpsert, Tick, RuleTick, Surroundings, LoadRead, LoadEnd, Edit, Quiet, vars,
              seen, ruleVars
<1> QED
  BY <1>1, <1>2, <1>3

\* Merge sets fields and resets none.
LEMMA MergeSets ==
  ASSUME NEW old \in Patch, NEW new \in Patch
  PROVE  /\ Merge(old, new) \in Patch
         /\ Merge(old, new).ua = IF new.ua # None THEN new.ua ELSE old.ua
         /\ Merge(old, new).force <=> old.force \/ new.force
         /\ Merge(old, new).challenge <=> old.challenge \/ new.challenge
         /\ Merge(old, new).version = old.version + 1
<1> USE DEF Merge, Patch
<1>1. old.force \in BOOLEAN /\ new.force \in BOOLEAN
  OBVIOUS
<1>2. old.challenge \in BOOLEAN /\ new.challenge \in BOOLEAN
  OBVIOUS
<1> QED
  BY <1>1, <1>2

\* No step takes back what was learned of a domain.
LEMMA LessonsStay ==
  ASSUME TypeInv, [Next]_vars, NEW n \in Name
  PROVE  /\ learned[n].ua # None => learned'[n].ua # None
         /\ learned[n].force => learned'[n].force
         /\ learned[n].challenge => learned'[n].challenge
         /\ learned[n].version <= learned'[n].version
<1>1. learned \in [Name -> Patch] /\ learned[n].version \in Nat
  BY DEF TypeInv, TypeOK, RulesTypeOK, Patch
<1>2. CASE UNCHANGED learned
  BY <1>1, <1>2
<1>3. ASSUME NEW d \in Url, NEW patch \in Patch,
             learned' = [learned EXCEPT ![Site[d]] = Merge(@, patch)]
      PROVE  /\ learned[n].ua # None => learned'[n].ua # None
             /\ learned[n].force => learned'[n].force
             /\ learned[n].challenge => learned'[n].challenge
             /\ learned[n].version <= learned'[n].version
  <2>1. learned'[n] = IF n = Site[d] THEN Merge(learned[n], patch) ELSE learned[n]
    BY <1>1, <1>3
  <2>2. CASE n # Site[d]
    BY <1>1, <2>1, <2>2
  <2>3. CASE n = Site[d]
    <3>1. learned'[n] = Merge(learned[n], patch)
      BY <2>1, <2>3
    <3>2. /\ learned'[n].ua = IF patch.ua # None THEN patch.ua ELSE learned[n].ua
          /\ learned'[n].force <=> learned[n].force \/ patch.force
          /\ learned'[n].challenge <=> learned[n].challenge \/ patch.challenge
          /\ learned'[n].version = learned[n].version + 1
      BY <1>1, <3>1, MergeSets
    <3> QED
      BY <1>1, <3>2
  <2> QED
    BY <2>2, <2>3
<1> QED
  BY <1>2, <1>3, LearnsOrNot

\* What was learned stays, over reloads of the table and later lessons.
THEOREM LearningGrows == Spec => OverlayGrows
<1> DEFINE Grows == \A n \in Name :
                      /\ learned[n].ua # None => learned'[n].ua # None
                      /\ learned[n].force => learned'[n].force
                      /\ learned[n].challenge => learned'[n].challenge
                      /\ learned[n].version <= learned'[n].version
<1>1. TypeInv /\ [Next]_vars => [Grows]_vars
  BY LessonsStay
<1> QED
  BY <1>1, TypeInitially, TypeStep, PTL DEF Spec, OverlayGrows

\* A crawl that was refused knows where it fetched from, and keeps by what it was recovered.
ViaPlaced ==
  \A r \in Request :
    /\ pc[r] \in {"idle", "load", "precheck"} => first[r] = None
    /\ first[r] # None => eff[r] \in Url
    /\ pc[r] \in {"idle", "load", "precheck", "fetch", "recover"} => via[r] = None
    /\ pc[r] \in {"oembed", "render"} /\ first[r] # None => via[r] = "ua_override"

LEMMA ViaStep == TypeInv /\ ViaPlaced /\ [Next]_vars => ViaPlaced'
<1> SUFFICES ASSUME TypeInv, ViaPlaced, [Next]_vars, NEW q \in Request
             PROVE  /\ pc'[q] \in {"idle", "load", "precheck"} => first'[q] = None
                    /\ first'[q] # None => eff'[q] \in Url
                    /\ pc'[q] \in {"idle", "load", "precheck", "fetch", "recover"} =>
                         via'[q] = None
                    /\ pc'[q] \in {"oembed", "render"} /\ first'[q] # None =>
                         via'[q] = "ua_override"
  BY DEF ViaPlaced
<1> USE DEF TypeInv, TypeOK, CrawlTypeOK, ViaPlaced
<1>1. CASE Keeps(q)
  BY <1>1 DEF Keeps
<1>2. CASE Arrive(q)
  BY <1>2 DEF Arrive, Fail, Lookup
<1>3. CASE Wake(q)
  BY <1>3 DEF Wake, Lookup
<1>4. CASE Precheck(q)
  BY <1>4 DEF Precheck, Fail, StaticFetch
<1>5. CASE StaticThrows(q)
  BY <1>5 DEF StaticThrows, Fail, TryNext, StaticFetch, StartRender, CrawlPlaced
<1>6. CASE StaticReturns(q)
  BY <1>6, ZenonT(30) DEF StaticReturns, Fail, Finalize, StartRender
<1>7. CASE Recover(q)
  BY <1>7 DEF Recover, Fail, Finalize
<1>8. CASE Oembed(q) \/ Render(q)
  BY <1>8 DEF Oembed, Render, Finalize, StartRender, seen
<1>9. CASE FailAttempt(q) \/ FailUpsert(q)
  BY <1>9 DEF FailAttempt, FailUpsert, crawl, seen
<1> QED
  BY <1>1, <1>2, <1>3, <1>4, <1>5, <1>6, <1>7, <1>8, <1>9, OthersKeep, AllKeep
     DEF Next, Step, Quiet

\* What learning a patch leaves learned of its domain.
LEMMA LearnedIs ==
  ASSUME TypeInv, NEW r \in Request, eff[r] \in Url, NEW patch \in Patch,
         Recovered(r, patch)
  PROVE  /\ patch.ua # None => learned'[Site[eff[r]]].ua # None
         /\ patch.force => learned'[Site[eff[r]]].force
         /\ patch.challenge => learned'[Site[eff[r]]].challenge
<1> DEFINE d == Site[eff[r]]
<1>1. d \in Name /\ learned \in [Name -> Patch]
  BY RulesAssumption DEF TypeInv, TypeOK, RulesTypeOK
<1>2. learned'[d] = Merge(learned[d], patch)
  BY <1>1 DEF Recovered, Learn
<1> QED
  BY <1>1, <1>2, MergeSets

LEMMA TeachStep ==
  TypeInv /\ ViaPlaced /\ EveryBlockTeaches /\ [Next]_vars => EveryBlockTeaches'
<1> DEFINE Taught(v, at, lesson) ==
             /\ v = "ua_override" => lesson.ua # None
             /\ v = "headless" => lesson.force
             /\ v = None /\ at \in {"attempt", "upsert", "done"} => lesson.challenge
<1> SUFFICES ASSUME TypeInv, ViaPlaced, EveryBlockTeaches, [Next]_vars, NEW q \in Request,
                    first'[q] # None
             PROVE  Taught(via'[q], pc'[q], learned'[Site[eff'[q]]])
  BY DEF EveryBlockTeaches
<1> USE DEF TypeInv, TypeOK, CrawlTypeOK
<1>0. None \notin {"ua_override", "headless"}
  BY LadderAssumption
<1>1. ASSUME via'[q] = via[q], eff'[q] = eff[q], first[q] # None,
             pc'[q] \in {"attempt", "upsert", "done"} /\ via[q] = None =>
               pc[q] \in {"attempt", "upsert", "done"}
      PROVE  Taught(via'[q], pc'[q], learned'[Site[eff'[q]]])
  <2>1. Site[eff[q]] \in Name
    BY <1>1, RulesAssumption DEF ViaPlaced
  <2>2. Taught(via[q], pc[q], learned[Site[eff[q]]])
    BY <1>1 DEF EveryBlockTeaches
  <2> QED
    BY <1>1, <2>1, <2>2, LessonsStay
<1>2. CASE Keeps(q)
  BY <1>1, <1>2 DEF Keeps
<1>3. CASE Arrive(q) \/ Wake(q) \/ Precheck(q)
  BY <1>3 DEF Arrive, Wake, Precheck, ViaPlaced
<1>4. CASE StaticThrows(q)
  <2>1. via'[q] = None /\ eff'[q] = eff[q]
    BY <1>4 DEF StaticThrows, ViaPlaced
  <2>2. pc'[q] \in {"fetch", "recover"}
    <3>1. first'[q] # None /\ \E S : TryNext(q, S)
      BY <1>4 DEF StaticThrows
    <3> QED
      BY <3>1 DEF TryNext, StaticFetch, StartRender
  <2> QED
    BY <1>0, <2>1, <2>2
<1>5. CASE StaticReturns(q)
  <2> DEFINE ua == tried[q][Len(tried[q])]
             patch == [NoPatch EXCEPT !.ua = ua]
  <2>1. first[q] # None /\ eff'[q] = eff[q] /\ eff[q] \in Url
    BY <1>5 DEF StaticReturns, ViaPlaced
  <2>2. via'[q] = "ua_override" /\ Recovered(q, patch)
    BY <1>5, <2>1 DEF StaticReturns
  <2>3. ua \in Ua
    <3>1. tried[q] \in Seq(Ua) /\ tried[q] # <<>>
      BY <1>5 DEF StaticReturns, CrawlPlaced, SeenTypeOK
    <3> QED
      BY <3>1
  <2>4. patch \in Patch /\ patch.ua # None
    BY <2>3, RulesAssumption DEF NoPatch, Patch
  <2> HIDE DEF patch, ua
  <2>5. learned'[Site[eff[q]]].ua # None
    BY <2>1, <2>2, <2>4, LearnedIs DEF TypeInv
  <2> QED
    BY <1>0, <2>1, <2>2, <2>5
<1>6. CASE Recover(q)
  <2>1. eff'[q] = eff[q] /\ eff[q] \in Url /\ via[q] = None
    BY <1>6 DEF Recover, CrawlPlaced, ViaPlaced
  <2>2. CASE via'[q] = "headless" /\ Recovered(q, [NoPatch EXCEPT !.force = TRUE])
    <3> DEFINE patch == [NoPatch EXCEPT !.force = TRUE]
    <3>1. patch \in Patch /\ patch.force
      BY DEF NoPatch, Patch
    <3>2. Recovered(q, patch)
      BY <2>2
    <3> HIDE DEF patch
    <3>3. learned'[Site[eff[q]]].force
      BY <2>1, <3>1, <3>2, LearnedIs
    <3> QED
      BY <1>0, <2>1, <2>2, <3>3
  <2>3. CASE via'[q] = None /\ Recovered(q, [NoPatch EXCEPT !.challenge = TRUE])
    <3> DEFINE patch == [NoPatch EXCEPT !.challenge = TRUE]
    <3>1. patch \in Patch /\ patch.challenge
      BY DEF NoPatch, Patch
    <3>2. Recovered(q, patch)
      BY <2>3
    <3> HIDE DEF patch
    <3>3. learned'[Site[eff[q]]].challenge
      BY <2>1, <3>1, <3>2, LearnedIs
    <3> QED
      BY <1>0, <2>1, <2>3, <3>3
  <2> QED
    BY <1>6, <2>1, <2>2, <2>3 DEF Recover
<1>7. CASE Oembed(q) \/ Render(q)
  <2>1. via'[q] = via[q] /\ eff'[q] = eff[q] /\ first'[q] = first[q]
    BY <1>7 DEF Oembed, Render
  <2>2. via[q] = "ua_override"
    BY <1>7, <2>1 DEF Oembed, Render, ViaPlaced
  <2> QED
    BY <1>0, <1>1, <2>1, <2>2
<1>8. CASE FailAttempt(q) \/ FailUpsert(q)
  BY <1>1, <1>8 DEF FailAttempt, FailUpsert, crawl
<1> QED
  BY <1>2, <1>3, <1>4, <1>5, <1>6, <1>7, <1>8, OthersKeep, AllKeep DEF Next, Step, Quiet

\* Whatever a recovery ended with stays learned of the domain that the crawl went to, over
\* reloads and what other crawls learn of it at the same time.
THEOREM BlocksTeach == Spec => []EveryBlockTeaches
<1>1. Init => ViaPlaced /\ EveryBlockTeaches
  BY DEF Init, ViaPlaced, EveryBlockTeaches
<1> QED
  BY <1>1, TypeInitially, TypeStep, ViaStep, TeachStep, PTL DEF Spec

----------------------------------------------------------------------------
(* No user agent twice *)

\* Before the first fetch none was tried; the first is that of the rule; and those that are
\* left were not tried.
TriedPlaced ==
  \A r \in Request :
    /\ pc[r] \in {"idle", "load", "precheck"} =>
         tried[r] = <<>> /\ first[r] = None /\ left[r] = {}
    /\ pc[r] = "fetch" /\ first[r] = None => tried[r] = <<UaOf(rule[r])>> /\ left[r] = {}
    /\ pc[r] = "fetch" =>
         \A i \in left[r], j \in 1..Len(tried[r]) : tried[r][j] # RecoveryUas[i]

Distinct(s) == \A i, j \in 1..Len(s) : s[i] = s[j] => i = j

LEMMA AppendDistinct ==
  ASSUME NEW s \in Seq(Ua), NEW ua \in Ua, Distinct(s), \A j \in 1..Len(s) : s[j] # ua
  PROVE  Distinct(Append(s, ua))
BY DEF Distinct

\* Trying the next of the places whose user agents were not tried keeps that so.
LEMMA TryNextOnce ==
  ASSUME TypeInv, NEW r \in Request, NEW S \in SUBSET (1..Len(RecoveryUas)), TryNext(r, S),
         Distinct(tried[r]), \A i \in S, j \in 1..Len(tried[r]) : tried[r][j] # RecoveryUas[i]
  PROVE  /\ Distinct(tried'[r])
         /\ pc'[r] \in {"fetch", "recover"}
         /\ \A i \in left'[r], j \in 1..Len(tried'[r]) : tried'[r][j] # RecoveryUas[i]
<1> USE DEF TypeInv, TypeOK
<1>1. tried[r] \in Seq(Ua)
  BY DEF SeenTypeOK
<1>2. CASE /\ S # {}
           /\ StaticFetch(r, RecoveryUas[Least(S)])
           /\ left' = [left EXCEPT ![r] = S \ {Least(S)}]
           /\ UNCHANGED renders
  <2>1. S \in SUBSET Nat
    OBVIOUS
  <2>2. PICK m \in S : m = Least(S)
    BY <1>2, <2>1, LeastIsLeast
  <2>3. RecoveryUas[m] \in Ua
    BY LadderAssumption
  <2>4. tried'[r] = Append(tried[r], RecoveryUas[m]) /\ pc'[r] = "fetch"
    BY <1>1, <1>2, <2>2, <2>3, StaticFetchType DEF CrawlTypeOK
  <2>5. left'[r] = S \ {m}
    BY <1>2, <2>2 DEF CrawlTypeOK
  <2>6. \A j \in 1..Len(tried[r]) : tried[r][j] # RecoveryUas[m]
    OBVIOUS
  <2>7. Distinct(tried'[r])
    BY <1>1, <2>3, <2>4, <2>6, AppendDistinct
  <2>8. ASSUME NEW i \in S \ {m}, NEW j \in 1..Len(tried'[r])
        PROVE  tried'[r][j] # RecoveryUas[i]
    <3>1. Len(tried'[r]) = Len(tried[r]) + 1
      BY <1>1, <2>3, <2>4
    <3>2. CASE j \in 1..Len(tried[r])
      BY <1>1, <2>3, <2>4, <3>2
    <3>3. CASE j = Len(tried[r]) + 1
      <4>1. tried'[r][j] = RecoveryUas[m]
        BY <1>1, <2>3, <2>4, <3>3
      <4>2. i # m /\ i \in 1..Len(RecoveryUas) /\ m \in 1..Len(RecoveryUas)
        OBVIOUS
      <4> QED
        BY <4>1, <4>2, LadderAssumption
    <3> QED
      BY <1>1, <3>1, <3>2, <3>3
  <2> QED
    BY <2>4, <2>5, <2>7, <2>8
<1>3. CASE /\ S = {}
           /\ StartRender(r, "recover") /\ left' = [left EXCEPT ![r] = {}]
           /\ UNCHANGED tried
  BY <1>1, <1>3 DEF StartRender, CrawlTypeOK
<1> QED
  BY <1>2, <1>3 DEF TryNext

LEMMA NoUaTwiceStep ==
  TypeInv /\ TriedPlaced /\ NoUaTwice /\ [Next]_vars => TriedPlaced' /\ NoUaTwice'
<1> SUFFICES ASSUME TypeInv, TriedPlaced, NoUaTwice, [Next]_vars, NEW q \in Request
             PROVE  /\ pc'[q] \in {"idle", "load", "precheck"} =>
                         tried'[q] = <<>> /\ first'[q] = None /\ left'[q] = {}
                    /\ pc'[q] = "fetch" /\ first'[q] = None =>
                         tried'[q] = <<UaOf(rule'[q])>> /\ left'[q] = {}
                    /\ pc'[q] = "fetch" =>
                         \A i \in left'[q], j \in 1..Len(tried'[q]) :
                           tried'[q][j] # RecoveryUas[i]
                    /\ Distinct(tried'[q])
  BY DEF TriedPlaced, NoUaTwice, Distinct, UaOf
<1> USE DEF TypeInv, TypeOK, TriedPlaced
<1>1. Distinct(tried[q])
  BY DEF NoUaTwice, Distinct
<1>2. CASE Keeps(q)
  BY <1>1, <1>2 DEF Keeps, UaOf
<1>3. ASSUME UNCHANGED tried, pc'[q] \notin {"idle", "load", "precheck", "fetch"}
      PROVE  Distinct(tried'[q])
  BY <1>1, <1>3
<1>4. CASE \E r \in Request : Step(r)
  <2>1. PICK r \in Request : Step(r)
    BY <1>4
  <2>2. CASE q # r
    BY <1>2, <2>1, <2>2, OthersKeep
  <2>3. CASE Arrive(q)
    <3>1. UNCHANGED <<tried, first, left>> /\ pc[q] = "idle"
      BY <2>3 DEF Arrive
    <3>2. pc'[q] \in {"attempt", "load", "precheck"}
      BY <2>3 DEF Arrive, Fail, Lookup, CrawlTypeOK
    <3> QED
      BY <1>1, <3>1, <3>2
  <2>4. CASE Wake(q)
    <3>1. UNCHANGED <<tried, first, left>> /\ pc[q] = "load"
      BY <2>4 DEF Wake
    <3>2. pc'[q] = "precheck"
      BY <2>4 DEF Wake, Lookup, CrawlTypeOK
    <3> QED
      BY <1>1, <3>1, <3>2
  <2>5. CASE Precheck(q)
    <3>1. UNCHANGED <<rule, first, left>> /\ pc[q] = "precheck"
      BY <2>5 DEF Precheck
    <3>2. tried[q] = <<>> /\ first[q] = None /\ left[q] = {}
      BY <3>1
    <3>3. CASE UNCHANGED tried /\ \E c \in {"SSRF_BLOCKED", "DNS_FAIL"} : Fail(q, c, url[q])
      BY <1>3, <3>3 DEF Fail, CrawlTypeOK
    <3>4. CASE StaticFetch(q, UaOf(rule[q]))
      <4>1. UaOf(rule[q]) \in Ua
        BY LadderAssumption DEF UaOf, CrawlTypeOK, Rule
      <4>2. tried'[q] = Append(<<>>, UaOf(rule[q])) /\ pc'[q] = "fetch"
        BY <3>2, <3>4, <4>1, StaticFetchType DEF CrawlTypeOK
      <4>3. tried'[q] = <<UaOf(rule[q])>>
        BY <4>1, <4>2
      <4>4. Distinct(tried'[q])
        BY <4>3 DEF Distinct
      <4>5. rule'[q] = rule[q] /\ left'[q] = {} /\ UaOf(rule'[q]) = UaOf(rule[q])
        BY <3>1, <3>2 DEF UaOf
      <4> QED
        BY <4>2, <4>3, <4>4, <4>5
    <3> QED
      BY <2>5, <3>3, <3>4 DEF Precheck
  <2>6. CASE StaticThrows(q)
    <3>1. pc[q] = "fetch" /\ UNCHANGED rule
      BY <2>6 DEF StaticThrows
    <3>2. CASE UNCHANGED tried /\ \E c \in Thrown : Fail(q, c, url[q])
      BY <1>3, <3>2 DEF Fail, CrawlTypeOK
    <3>3. CASE /\ first[q] = None /\ TryNext(q, Candidates(rule[q]))
               /\ \E c \in Thrown : first' = [first EXCEPT ![q] = c]
      <4>1. first'[q] # None
        <5>1. \A c \in Thrown : c # None
          BY LadderAssumption
        <5> QED
          BY <3>3, <5>1 DEF CrawlTypeOK
      <4>2. tried[q] = <<UaOf(rule[q])>>
        BY <3>1, <3>3
      <4>3. \A i \in Candidates(rule[q]), j \in 1..Len(tried[q]) : tried[q][j] # RecoveryUas[i]
        BY <4>2 DEF Candidates, UaOf
      <4>4. Candidates(rule[q]) \in SUBSET (1..Len(RecoveryUas))
        BY DEF Candidates
      <4>5. /\ Distinct(tried'[q])
            /\ pc'[q] \in {"fetch", "recover"}
            /\ \A i \in left'[q], j \in 1..Len(tried'[q]) : tried'[q][j] # RecoveryUas[i]
        BY <1>1, <3>3, <4>3, <4>4, TryNextOnce
      <4> QED
        BY <4>1, <4>5
    <3>4. CASE /\ first[q] # None /\ UNCHANGED first
               /\ \E S \in {left[q], {}} : TryNext(q, S)
      <4>1. PICK S \in {left[q], {}} : TryNext(q, S)
        BY <3>4
      <4>2. S \in SUBSET (1..Len(RecoveryUas))
        BY DEF CrawlTypeOK
      <4>3. \A i \in S, j \in 1..Len(tried[q]) : tried[q][j] # RecoveryUas[i]
        BY <3>1
      <4>4. /\ Distinct(tried'[q])
            /\ pc'[q] \in {"fetch", "recover"}
            /\ \A i \in left'[q], j \in 1..Len(tried'[q]) : tried'[q][j] # RecoveryUas[i]
        BY <1>1, <4>1, <4>2, <4>3, TryNextOnce
      <4> QED
        BY <3>4, <4>4
    <3> QED
      BY <2>6, <3>2, <3>3, <3>4 DEF StaticThrows
  <2>7. CASE StaticReturns(q)
    BY <1>3, <2>7, ZenonT(30) DEF StaticReturns, Fail, Finalize, StartRender, CrawlTypeOK
  <2>8. CASE Recover(q)
    BY <1>3, <2>8 DEF Recover, Fail, Finalize, CrawlTypeOK
  <2>9. CASE Oembed(q) \/ Render(q)
    BY <1>3, <2>9 DEF Oembed, Render, Finalize, StartRender, CrawlTypeOK, seen
  <2>10. CASE FailAttempt(q) \/ FailUpsert(q)
    BY <1>3, <2>10 DEF FailAttempt, FailUpsert, CrawlTypeOK, seen
  <2> QED
    BY <2>1, <2>2, <2>3, <2>4, <2>5, <2>6, <2>7, <2>8, <2>9, <2>10 DEF Step
<1>5. CASE Tick \/ Surroundings \/ UNCHANGED vars
  BY <1>2, <1>5, AllKeep
<1> QED
  BY <1>4, <1>5 DEF Next, Quiet

LEMMA TriedInitially == Init => TriedPlaced /\ NoUaTwice
BY DEF Init, TriedPlaced, NoUaTwice

\* Whatever the rule says, and whatever was learned meanwhile, no crawl fetches twice with
\* the same user agent.
THEOREM EachUaOnce == Spec => []NoUaTwice
BY TriedInitially, TypeInitially, TypeStep, NoUaTwiceStep, PTL DEF Spec

----------------------------------------------------------------------------
(* What was learned is applied *)

\* Lessons are filed under registrable domains, and count their version.
LearnedPlaced ==
  \A n \in Name :
    /\ learned[n].ua # None => learned[n].version > 0
    /\ learned[n].version > 0 => \E d \in Url : n = Site[d]

\* A rule that was just resolved has the user agent that was learned.
RulePlaced ==
  \A r \in Request : pc[r] = "precheck" /\ expected[r] # None => rule[r].ua = expected[r]

\* The lesson of the registrable domain is the first that lookup finds.
LEMMA OverlayOfSite ==
  ASSUME TypeInv, LearnedPlaced, NEW u \in Url, learned[Site[u]].ua # None
  PROVE  Resolve(u).ua = learned[Site[u]].ua
<1> DEFINE S == {m \in Name : learned[m].version > 0}
           n == FirstOf(u, S)
<1>1. Names[u] \in Seq(Name) /\ Site[u] \in Name
  BY RulesAssumption
<1>2. Site[u] \in S
  BY <1>1 DEF LearnedPlaced
<1>3. PICK i \in 1..Len(Names[u]) : Names[u][i] = Site[u]
  BY RulesAssumption
<1>4. n = Site[u]
  <2> HIDE DEF S
  <2>1. n \in Name \cap S /\ \E m \in 1..Len(Names[u]) :
          /\ n = Names[u][m]
          /\ \A j \in 1..Len(Names[u]) : Names[u][j] \in S => m <= j
    BY <1>2, <1>3, FirstOfIsFirst
  <2>2. PICK m \in 1..Len(Names[u]) :
          /\ n = Names[u][m]
          /\ \A j \in 1..Len(Names[u]) : Names[u][j] \in S => m <= j
    BY <2>1
  <2>3. PICK d \in Url : n = Site[d]
    BY <2>1 DEF LearnedPlaced, S
  <2>4. PICK j \in 1..m : Names[u][j] = Site[u]
    <3>1. \A v \in Url, k \in 1..Len(Names[u]) :
            Names[u][k] = Site[v] => \E j \in 1..k : Names[u][j] = Site[u]
      BY RulesAssumption
    <3> QED
      BY <2>2, <2>3, <3>1
  <2>5. j \in 1..Len(Names[u]) /\ Len(Names[u]) \in Nat
    BY <1>1
  <2>6. m <= j
    BY <1>2, <2>2, <2>4, <2>5
  <2> QED
    BY <2>2, <2>4, <2>5, <2>6
<1>5. n # None
  BY <1>1, <1>4, RulesAssumption
<1>6. Overlay(u) = learned[Site[u]]
  BY <1>4, <1>5 DEF Overlay
<1> QED
  BY <1>6 DEF Resolve

LEMMA LearnedPlacedStep == TypeInv /\ LearnedPlaced /\ [Next]_vars => LearnedPlaced'
<1> SUFFICES ASSUME TypeInv, LearnedPlaced, [Next]_vars, NEW n \in Name
             PROVE  /\ learned'[n].ua # None => learned'[n].version > 0
                    /\ learned'[n].version > 0 => \E d \in Url : n = Site[d]
  BY DEF LearnedPlaced
<1>1. CASE UNCHANGED learned
  BY <1>1 DEF LearnedPlaced
<1>2. ASSUME NEW d \in Url, NEW patch \in Patch,
             learned' = [learned EXCEPT ![Site[d]] = Merge(@, patch)]
      PROVE  /\ learned'[n].ua # None => learned'[n].version > 0
             /\ learned'[n].version > 0 => \E dd \in Url : n = Site[dd]
  <2>1. learned \in [Name -> Patch] /\ learned[n].version \in Nat
    BY DEF TypeInv, TypeOK, RulesTypeOK, Patch
  <2>2. CASE n # Site[d]
    BY <1>2, <2>1, <2>2 DEF LearnedPlaced
  <2>3. CASE n = Site[d]
    <3>1. learned'[n] = Merge(learned[n], patch)
      BY <1>2, <2>1, <2>3
    <3>2. learned'[n].version = learned[n].version + 1
      BY <2>1, <3>1, MergeSets
    <3> QED
      BY <2>1, <2>3, <3>2
  <2> QED
    BY <2>2, <2>3
<1> QED
  BY <1>1, <1>2, LearnsOrNot

LEMMA LookupApplies ==
  ASSUME TypeInv, LearnedPlaced, NEW r \in Request, NEW u \in Url, Lookup(r, u)
  PROVE  expected'[r] # None => rule'[r].ua = expected'[r]
<1>1. expected'[r] = learned[Site[u]].ua /\ rule'[r] = Resolve(u)
  BY DEF Lookup, TypeInv, TypeOK, CrawlTypeOK, SeenTypeOK
<1> HIDE DEF Resolve
<1> QED
  BY <1>1, OverlayOfSite

LEMMA AppliesStep ==
  TypeInv /\ LearnedPlaced /\ TriedPlaced /\ RulePlaced /\ LearnedApplies /\ [Next]_vars
    => RulePlaced' /\ LearnedApplies'
<1> SUFFICES ASSUME TypeInv, LearnedPlaced, TriedPlaced, RulePlaced, LearnedApplies,
                    [Next]_vars, NEW q \in Request
             PROVE  /\ pc'[q] = "precheck" /\ expected'[q] # None => rule'[q].ua = expected'[q]
                    /\ tried'[q] # <<>> /\ expected'[q] # None => tried'[q][1] = expected'[q]
  BY DEF RulePlaced, LearnedApplies
<1> USE DEF TypeInv, TypeOK
<1>1. tried[q] \in Seq(Ua)
  BY DEF SeenTypeOK
<1>2. CASE Keeps(q)
  BY <1>2 DEF Keeps, RulePlaced, LearnedApplies
<1>3. CASE pc'[q] # "precheck" /\ UNCHANGED <<tried, expected>>
  BY <1>3 DEF LearnedApplies
<1>4. CASE \E r \in Request : Step(r)
  <2>1. PICK r \in Request : Step(r)
    BY <1>4
  <2>2. CASE q # r
    BY <1>2, <2>1, <2>2, OthersKeep
  <2>3. CASE Arrive(q) \/ Wake(q)
    <3>1. UNCHANGED tried /\ tried[q] = <<>>
      BY <2>3 DEF Arrive, Wake, TriedPlaced
    <3>2. \/ \E u \in Url : Lookup(q, u)
          \/ pc'[q] # "precheck" /\ UNCHANGED expected
      BY <2>3 DEF Arrive, Wake, Fail, CrawlTypeOK, CrawlPlaced
    <3> QED
      BY <1>3, <3>1, <3>2, LookupApplies
  <2>4. CASE Precheck(q)
    <3>1. UNCHANGED <<rule, expected>> /\ pc[q] = "precheck" /\ tried[q] = <<>>
      BY <2>4 DEF Precheck, TriedPlaced
    <3>2. CASE UNCHANGED tried /\ \E c \in {"SSRF_BLOCKED", "DNS_FAIL"} : Fail(q, c, url[q])
      BY <1>3, <3>1, <3>2 DEF Fail, CrawlTypeOK
    <3>3. CASE StaticFetch(q, UaOf(rule[q]))
      <4>1. UaOf(rule[q]) \in Ua
        BY LadderAssumption DEF UaOf, CrawlTypeOK, Rule
      <4>2. tried'[q] = Append(<<>>, UaOf(rule[q])) /\ pc'[q] = "fetch"
        BY <3>1, <3>3, <4>1, StaticFetchType DEF CrawlTypeOK
      <4>3. tried'[q][1] = UaOf(rule[q])
        BY <4>1, <4>2
      <4>4. expected[q] # None => rule[q].ua = expected[q]
        BY <3>1 DEF RulePlaced
      <4> QED
        BY <3>1, <4>2, <4>3, <4>4 DEF UaOf
    <3> QED
      BY <2>4, <3>2, <3>3 DEF Precheck
  <2>5. CASE StaticThrows(q)
    <3>1. UNCHANGED expected /\ tried[q] # <<>> /\ pc[q] = "fetch"
      BY <2>5 DEF StaticThrows, CrawlPlaced
    <3>2. CASE UNCHANGED tried /\ \E c \in Thrown : Fail(q, c, url[q])
      BY <1>3, <3>1, <3>2 DEF Fail, CrawlTypeOK
    <3>3. CASE \E S \in SUBSET (1..Len(RecoveryUas)) : TryNext(q, S)
      <4>1. PICK S \in SUBSET (1..Len(RecoveryUas)) : TryNext(q, S)
        BY <3>3
      <4>2. CASE UNCHANGED tried /\ StartRender(q, "recover")
        BY <1>3, <3>1, <4>2 DEF StartRender, CrawlTypeOK
      <4>3. CASE S # {} /\ StaticFetch(q, RecoveryUas[Least(S)])
        <5>1. S \in SUBSET Nat
          OBVIOUS
        <5>2. PICK m \in S : m = Least(S)
          BY <4>3, <5>1, LeastIsLeast
        <5>3. RecoveryUas[m] \in Ua
          BY LadderAssumption
        <5>4. tried'[q] = Append(tried[q], RecoveryUas[m]) /\ pc'[q] = "fetch"
          BY <4>3, <5>2, <5>3, StaticFetchType DEF CrawlTypeOK
        <5>5. tried'[q][1] = tried[q][1]
          BY <1>1, <3>1, <5>3, <5>4
        <5> QED
          BY <3>1, <5>4, <5>5 DEF LearnedApplies
      <4> QED
        BY <4>1, <4>2, <4>3 DEF TryNext
    <3>4. /\ Candidates(rule[q]) \in SUBSET (1..Len(RecoveryUas))
          /\ left[q] \in SUBSET (1..Len(RecoveryUas))
      BY DEF Candidates, CrawlTypeOK
    <3> QED
      BY <2>5, <3>2, <3>3, <3>4 DEF StaticThrows
  <2>6. CASE StaticReturns(q)
    BY <1>3, <2>6 DEF StaticReturns, Fail, Finalize, StartRender, CrawlTypeOK
  <2>7. CASE Recover(q)
    BY <1>3, <2>7 DEF Recover, Fail, Finalize, CrawlTypeOK
  <2>8. CASE Oembed(q) \/ Render(q)
    BY <1>3, <2>8 DEF Oembed, Render, Finalize, StartRender, CrawlTypeOK, seen
  <2>9. CASE FailAttempt(q) \/ FailUpsert(q)
    BY <1>3, <2>9 DEF FailAttempt, FailUpsert, CrawlTypeOK, seen
  <2> QED
    BY <2>1, <2>2, <2>3, <2>4, <2>5, <2>6, <2>7, <2>8, <2>9 DEF Step
<1>5. CASE Tick \/ Surroundings \/ UNCHANGED vars
  BY <1>2, <1>5, AllKeep
<1> QED
  BY <1>4, <1>5 DEF Next, Quiet

\* A crawl that begins when a user agent was learned for its domain fetches with that one
\* first, whatever host of the domain it is for and whatever the table says.
THEOREM WhatIsLearnedApplies == Spec => []LearnedApplies
<1>1. Init => LearnedPlaced /\ RulePlaced /\ LearnedApplies
  BY DEF Init, RulesInit, NoPatch, LearnedPlaced, RulePlaced, LearnedApplies
<1> QED
  BY <1>1, TypeInitially, TypeStep, TriedInitially, NoUaTwiceStep, LearnedPlacedStep,
     AppliesStep, PTL DEF Spec

----------------------------------------------------------------------------
(* The browser, and what is kept of the page *)

\* How far a crawl is, and what it has by then.
RenderPlaced ==
  \A r \in Request :
    /\ pc[r] \in {"idle", "load", "precheck", "fetch"} => renders[r] = 0 /\ page[r] = None
    /\ pc[r] = "recover" => renders[r] = 1 /\ page[r] = None /\ first[r] # None
    /\ pc[r] = "oembed" => renders[r] = 0
    /\ pc[r] = "render" => renders[r] = 1
    /\ pc[r] \in {"oembed", "render"} =>
         page[r] # None /\ page[r].kind = "html" /\ ~Complete(page[r].fields)
    /\ pc[r] \in {"attempt", "upsert"} => result[r].thrown

LEMMA OnlyIncompleteGoesOn ==
  ASSUME NEW ru, NEW p, Decide(ru, p) # "DONE"
  PROVE  ~Complete(p.fields)
BY DEF Decide

\* A step of a crawl, for the two properties at once.
LEMMA LastResortStep ==
  TypeInv /\ RenderPlaced /\ RenderIsLastResort /\ PartialKept /\ [Next]_vars
    => RenderPlaced' /\ RenderIsLastResort' /\ PartialKept'
<1> DEFINE Placed(w, rd, pg, fi, re) ==
             /\ w \in {"idle", "load", "precheck", "fetch"} => rd = 0 /\ pg = None
             /\ w = "recover" => rd = 1 /\ pg = None /\ fi # None
             /\ w = "oembed" => rd = 0
             /\ w = "render" => rd = 1
             /\ w \in {"oembed", "render"} =>
                  pg # None /\ pg.kind = "html" /\ ~Complete(pg.fields)
             /\ w \in {"attempt", "upsert"} => re.thrown
           Last(rd, pg, fi) ==
             /\ rd <= 1
             /\ rd = 1 => IF pg = None THEN fi # None
                                       ELSE pg.kind = "html" /\ ~Complete(pg.fields)
           Kept(w, pg, re) ==
             w = "done" /\ pg # None /\ ~re.thrown /\ pg.kind = "html" =>
               pg.fields \subseteq re.fields
           All(w, rd, pg, fi, re) ==
             Placed(w, rd, pg, fi, re) /\ Last(rd, pg, fi) /\ Kept(w, pg, re)
<1> SUFFICES ASSUME TypeInv, RenderPlaced, RenderIsLastResort, PartialKept, [Next]_vars,
                    NEW q \in Request
             PROVE  All(pc'[q], renders'[q], page'[q], first'[q], result'[q])
  BY DEF RenderPlaced, RenderIsLastResort, PartialKept, Complete
<1>1. All(pc[q], renders[q], page[q], first[q], result[q])
  BY DEF RenderPlaced, RenderIsLastResort, PartialKept
<1> USE DEF TypeInv, TypeOK
<1>2. CASE Keeps(q)
  BY <1>1, <1>2 DEF Keeps
<1>3. renders[q] \in Nat
  BY DEF SeenTypeOK
\* The endings.
<1>4. ASSUME NEW c, NEW final, Fail(q, c, final)
      PROVE  pc'[q] = "attempt" /\ result'[q].thrown
  BY <1>4 DEF Fail, Answer, CrawlTypeOK
<1>5. ASSUME NEW strategy, NEW fields, NEW c, NEW final, Finalize(q, strategy, fields, c, final)
      PROVE  pc'[q] = "done" /\ ~result'[q].thrown /\ result'[q].fields = fields
  BY <1>5 DEF Finalize, Answer, CrawlTypeOK
<1>6. ASSUME UNCHANGED <<first, page, renders>>, pc[q] \in {"idle", "precheck", "recover"},
             \E c, final : Fail(q, c, final)
      PROVE  All(pc'[q], renders'[q], page'[q], first'[q], result'[q])
  <2>1. PICK c, final : Fail(q, c, final)
    BY <1>6
  <2>2. pc'[q] = "attempt" /\ result'[q].thrown
    BY <1>4, <2>1
  <2> QED
    BY <1>1, <1>6, <2>2
<1>7. CASE \E r \in Request : Step(r)
  <2>1. PICK r \in Request : Step(r)
    BY <1>7
  <2>2. CASE q # r
    BY <1>2, <2>1, <2>2, OthersKeep
  <2>3. CASE Arrive(q)
    <3>1. UNCHANGED <<first, page, renders>> /\ pc[q] = "idle"
      BY <2>3 DEF Arrive
    <3>2. CASE \E where \in {"load", "precheck"} : pc' = [pc EXCEPT ![q] = where]
      <4>1. pc'[q] \in {"load", "precheck"}
        BY <3>2 DEF CrawlTypeOK
      <4> QED
        BY <1>1, <3>1, <4>1
    <3> QED
      BY <1>6, <2>3, <3>1, <3>2 DEF Arrive, Lookup
  <2>4. CASE Wake(q)
    <3>1. UNCHANGED <<first, page, renders>> /\ pc[q] = "load" /\ pc'[q] = "precheck"
      BY <2>4 DEF Wake, Lookup, CrawlTypeOK
    <3> QED
      BY <1>1, <3>1
  <2>5. CASE Precheck(q)
    <3>1. UNCHANGED <<first, page, renders>> /\ pc[q] = "precheck"
      BY <2>5 DEF Precheck
    <3>2. CASE pc' = [pc EXCEPT ![q] = "fetch"]
      <4>1. pc'[q] = "fetch"
        BY <3>2 DEF CrawlTypeOK
      <4> QED
        BY <1>1, <3>1, <4>1
    <3> QED
      BY <1>6, <2>5, <3>1, <3>2 DEF Precheck, StaticFetch
  <2>6. CASE StaticThrows(q)
    <3>1. UNCHANGED page /\ pc[q] = "fetch" /\ page[q] = None /\ renders[q] = 0
      BY <1>1, <2>6 DEF StaticThrows
    <3>2. CASE UNCHANGED renders /\ \E c \in Thrown : Fail(q, c, url[q])
      BY <1>1, <1>4, <3>1, <3>2
    <3>3. CASE first'[q] # None /\ \E S : TryNext(q, S)
      <4>1. \/ pc'[q] = "fetch" /\ UNCHANGED renders
            \/ pc'[q] = "recover" /\ renders'[q] = renders[q] + 1
        BY <3>3 DEF TryNext, StaticFetch, StartRender, CrawlTypeOK, SeenTypeOK
      <4> QED
        BY <3>1, <3>3, <4>1
    <3>4. \A c \in Thrown : c # None
      BY LadderAssumption
    <3> QED
      BY <2>6, <3>2, <3>3, <3>4 DEF StaticThrows, CrawlTypeOK
  <2>7. CASE StaticReturns(q)
    <3>1. UNCHANGED first /\ pc[q] = "fetch" /\ renders[q] = 0
      BY <1>1, <2>7 DEF StaticReturns
    <3>2. PICK p \in Pages :
            /\ page'[q] = p
            /\ \/ /\ p.kind # "html"
                  /\ \E f : Finalize(q, "static", f, "NON_HTML", p.final)
                  /\ UNCHANGED renders
               \/ (\E c : Fail(q, c, p.final)) /\ UNCHANGED renders
               \/ /\ Finalize(q, "static", p.fields, Note(p.meta), p.final)
                  /\ UNCHANGED renders
               \/ /\ p.kind = "html" /\ ~Complete(p.fields)
                  /\ \/ pc'[q] = "oembed" /\ UNCHANGED renders
                     \/ pc'[q] = "render" /\ renders'[q] = renders[q] + 1
      BY <2>7, OnlyIncompleteGoesOn DEF StaticReturns, StartRender, CrawlTypeOK, SeenTypeOK
    <3>3. p # None
      BY LadderAssumption
    <3>4. CASE /\ p.kind # "html"
               /\ \E f : Finalize(q, "static", f, "NON_HTML", p.final)
               /\ UNCHANGED renders
      BY <1>5, <3>1, <3>2, <3>4
    <3>5. CASE (\E c : Fail(q, c, p.final)) /\ UNCHANGED renders
      BY <1>4, <3>1, <3>2, <3>5
    <3>6. CASE /\ Finalize(q, "static", p.fields, Note(p.meta), p.final)
               /\ UNCHANGED renders
      <4>1. pc'[q] = "done" /\ result'[q].fields = p.fields
        BY <1>5, <3>6
      <4> QED
        BY <3>1, <3>2, <3>6, <4>1
    <3>7. CASE /\ p.kind = "html" /\ ~Complete(p.fields)
               /\ \/ pc'[q] = "oembed" /\ UNCHANGED renders
                  \/ pc'[q] = "render" /\ renders'[q] = renders[q] + 1
      BY <3>1, <3>2, <3>3, <3>7
    <3> QED
      BY <3>2, <3>4, <3>5, <3>6, <3>7
  <2>8. CASE Recover(q)
    <3>1. UNCHANGED <<first, page, renders>> /\ pc[q] = "recover"
      BY <2>8 DEF Recover
    <3>2. CASE \E s, f, c, final : Finalize(q, s, f, c, final)
      <4>1. pc'[q] = "done" /\ page[q] = None
        BY <1>1, <3>1, <3>2 DEF Finalize, CrawlTypeOK
      <4> QED
        BY <1>1, <3>1, <4>1
    <3> QED
      BY <1>6, <2>8, <3>1, <3>2 DEF Recover
  <2>9. CASE Oembed(q)
    <3>1. UNCHANGED <<first, page>> /\ pc[q] = "oembed"
      BY <2>9 DEF Oembed
    <3>2. CASE /\ UNCHANGED renders
               /\ \E f : Finalize(q, "oembed", MergeFill(page[q].fields, f), None,
                                  page[q].final)
      <4>1. \E f : pc'[q] = "done" /\ result'[q].fields = MergeFill(page[q].fields, f)
        BY <1>5, <3>2
      <4> QED
        BY <1>1, <3>1, <3>2, <4>1 DEF MergeFill
    <3>3. CASE StartRender(q, "render")
      <4>1. pc'[q] = "render" /\ renders'[q] = renders[q] + 1
        BY <3>3 DEF StartRender, CrawlTypeOK, SeenTypeOK
      <4> QED
        BY <1>1, <3>1, <4>1
    <3> QED
      BY <2>9, <3>2, <3>3 DEF Oembed
  <2>10. CASE Render(q)
    <3>1. UNCHANGED <<first, page, renders>> /\ pc[q] = "render"
      BY <2>10 DEF Render, seen
    <3>2. pc'[q] = "done" /\ page[q].fields \subseteq result'[q].fields
      <4>1. \E s, f, c, final : page[q].fields \subseteq f /\ Finalize(q, s, f, c, final)
        BY <2>10 DEF Render, MergeFill
      <4> QED
        BY <1>5, <4>1
    <3> QED
      BY <1>1, <3>1, <3>2
  <2>11. CASE FailAttempt(q) \/ FailUpsert(q)
    <3>1. UNCHANGED <<first, page, renders, result>> /\ pc[q] \in {"attempt", "upsert"}
      BY <2>11 DEF FailAttempt, FailUpsert, crawl, seen
    <3>2. pc'[q] \in {"upsert", "done"}
      BY <2>11 DEF FailAttempt, FailUpsert, CrawlTypeOK
    <3> QED
      BY <1>1, <3>1, <3>2
  <2> QED
    BY <2>1, <2>2, <2>3, <2>4, <2>5, <2>6, <2>7, <2>8, <2>9, <2>10, <2>11 DEF Step
<1>8. CASE Tick \/ Surroundings \/ UNCHANGED vars
  BY <1>2, <1>8, AllKeep
<1> QED
  BY <1>7, <1>8 DEF Next, Quiet

LEMMA LastResortInitially == Init => RenderPlaced /\ RenderIsLastResort /\ PartialKept
BY DEF Init, RenderPlaced, RenderIsLastResort, PartialKept

\* No crawl renders more than once, nor for a page that was complete or not HTML, nor before
\* the static fetches were refused.
THEOREM BrowserIsLastResort == Spec => []RenderIsLastResort
BY LastResortInitially, TypeInitially, TypeStep, LastResortStep, PTL DEF Spec

\* No later stage loses a field of the static page.
THEOREM NothingFoundIsLost == Spec => []PartialKept
BY LastResortInitially, TypeInitially, TypeStep, LastResortStep, PTL DEF Spec

----------------------------------------------------------------------------
(* A row for every failure *)

Rows(d, c) == {i \in 1..Len(attempts) : attempts[i].domain = d /\ attempts[i].code = c}

Filed(r, d, c) ==
  /\ pc[r] \in {"upsert", "done"} /\ result[r].thrown
  /\ result[r].domain = d /\ result[r].code = c
  /\ <<r, "attempt">> \notin lost

Filers(d, c) == {r \in Request : Filed(r, d, c)}

\* A write is lost when it is made.
LostPlaced ==
  \A r \in Request : <<r, "attempt">> \in lost => pc[r] \in {"upsert", "done"}

LEMMA RowsOfFilers ==
  RowPerFailure <=> \A d \in Name, c \in Code : Cardinality(Rows(d, c)) = Cardinality(Filers(d, c))
BY DEF RowPerFailure, Counted, Rows, Filers, Filed

\* A step that is no write of a failure files none.
LEMMA OthersFileNone ==
  ASSUME TypeInv, NEW r \in Request, Step(r), ~FailAttempt(r), ~FailUpsert(r)
  PROVE  /\ UNCHANGED <<attempts, lost>>
         /\ pc[r] \notin {"upsert", "done"}
         /\ pc'[r] \in {"upsert", "done"} => ~result'[r].thrown
<1> USE DEF TypeInv, TypeOK, CrawlTypeOK
<1>1. ASSUME NEW c, NEW final, Fail(r, c, final)
      PROVE  pc'[r] = "attempt"
  BY <1>1 DEF Fail
<1>2. ASSUME NEW strategy, NEW fields, NEW c, NEW final, Finalize(r, strategy, fields, c, final)
      PROVE  ~result'[r].thrown
  BY <1>2 DEF Finalize, Answer
<1>3. CASE Arrive(r)
  BY <1>3 DEF Arrive, Fail, Lookup, storeVars
<1>4. CASE Wake(r)
  BY <1>4 DEF Wake, Lookup, storeVars
<1>5. CASE Precheck(r)
  BY <1>5 DEF Precheck, Fail, StaticFetch, storeVars
<1>6. CASE StaticThrows(r)
  BY <1>6 DEF StaticThrows, Fail, TryNext, StaticFetch, StartRender, storeVars
<1>7. CASE StaticReturns(r)
  <2>1. UNCHANGED storeVars /\ pc[r] = "fetch"
    BY <1>7 DEF StaticReturns
  <2>2. \/ pc'[r] \in {"attempt", "oembed", "render"}
        \/ \E s, f, c, final : Finalize(r, s, f, c, final)
    BY <1>7 DEF StaticReturns, Fail, StartRender
  <2> QED
    BY <1>2, <2>1, <2>2 DEF storeVars
<1>8. CASE Recover(r)
  <2>1. UNCHANGED storeVars /\ pc[r] = "recover"
    BY <1>8 DEF Recover
  <2>2. pc'[r] = "attempt" \/ \E s, f, c, final : Finalize(r, s, f, c, final)
    BY <1>8 DEF Recover, Fail
  <2> QED
    BY <1>2, <2>1, <2>2 DEF storeVars
<1>9. CASE Oembed(r) \/ Render(r)
  <2>1. UNCHANGED storeVars /\ pc[r] \in {"oembed", "render"}
    BY <1>9 DEF Oembed, Render
  <2>2. pc'[r] = "render" \/ \E s, f, c, final : Finalize(r, s, f, c, final)
    BY <1>9 DEF Oembed, Render, StartRender
  <2> QED
    BY <1>2, <2>1, <2>2 DEF storeVars
<1> QED
  BY <1>3, <1>4, <1>5, <1>6, <1>7, <1>8, <1>9 DEF Step

LEMMA RowStep ==
  TypeInv /\ RenderPlaced /\ LostPlaced /\ RowPerFailure /\ [Next]_vars
    => LostPlaced' /\ RowPerFailure'
<1> SUFFICES ASSUME TypeInv, RenderPlaced, LostPlaced, RowPerFailure, [Next]_vars
             PROVE  LostPlaced' /\ RowPerFailure'
  OBVIOUS
<1> USE DEF TypeInv, TypeOK
<1>1. attempts \in Seq(Result) /\ Len(attempts) \in Nat
  BY DEF StoreTypeOK
<1>2. ASSUME UNCHANGED attempts, \A q \in Request : \A d, c : Filed(q, d, c)' <=> Filed(q, d, c)
      PROVE  RowPerFailure'
  <2>1. \A d, c : Rows(d, c)' = Rows(d, c)
    BY <1>2 DEF Rows
  <2>2. \A d, c : Filers(d, c)' = Filers(d, c)
    BY <1>2 DEF Filers
  <2> SUFFICES ASSUME NEW d \in Name, NEW c \in Code
               PROVE  Cardinality(Rows(d, c)') = Cardinality(Filers(d, c)')
    BY DEF RowPerFailure, Counted, Rows, Filers, Filed
  <2> QED
    BY <2>1, <2>2, RowsOfFilers
<1>3. CASE \E r \in Request : FailAttempt(r)
  <2>1. PICK r \in Request : FailAttempt(r)
    BY <1>3
  <2>2. /\ pc[r] = "attempt" /\ pc' = [pc EXCEPT ![r] = "upsert"]
        /\ UNCHANGED result /\ result[r].thrown /\ result[r] \in Result
    BY <2>1 DEF FailAttempt, crawl, RenderPlaced, CrawlPlaced
  <2>3. <<r, "attempt">> \notin lost
    BY <2>2 DEF LostPlaced
  <2>4. \A q \in Request \ {r} : pc'[q] = pc[q]
    BY <2>2 DEF CrawlTypeOK
  <2>5. pc'[r] = "upsert"
    BY <2>2 DEF CrawlTypeOK
  <2>6. \/ attempts' = Append(attempts, result[r]) /\ UNCHANGED lost
        \/ UNCHANGED attempts /\ lost' = lost \cup {<<r, "attempt">>}
    BY <2>1 DEF FailAttempt, WriteAttempt, Lost
  <2>7. LostPlaced'
    BY <2>4, <2>5, <2>6 DEF LostPlaced
  <2>8. CASE UNCHANGED attempts /\ lost' = lost \cup {<<r, "attempt">>}
    BY <1>2, <2>2, <2>4, <2>7, <2>8 DEF Filed
  <2>9. CASE attempts' = Append(attempts, result[r]) /\ UNCHANGED lost
    <3> SUFFICES ASSUME NEW d \in Name, NEW c \in Code
                 PROVE  Cardinality(Rows(d, c)') = Cardinality(Filers(d, c)')
      BY <2>7 DEF RowPerFailure, Counted, Rows, Filers, Filed
    <3>1. Cardinality(Rows(d, c)) = Cardinality(Filers(d, c))
      BY RowsOfFilers
    <3>2. IsFiniteSet(Rows(d, c)) /\ IsFiniteSet(Filers(d, c))
      <4>1. IsFiniteSet(1..Len(attempts))
        BY <1>1, FS_Interval
      <4>2. Rows(d, c) \subseteq 1..Len(attempts) /\ Filers(d, c) \subseteq Request
        BY DEF Rows, Filers
      <4> QED
        BY <4>1, <4>2, FS_Subset, LadderAssumption
    <3>3. /\ Len(attempts') = Len(attempts) + 1 /\ attempts'[Len(attempts) + 1] = result[r]
          /\ \A i \in 1..Len(attempts) : attempts'[i] = attempts[i]
      BY <1>1, <2>2, <2>9
    <3>4. \A q \in Request \ {r} : Filed(q, d, c)' <=> Filed(q, d, c)
      BY <2>2, <2>4, <2>9 DEF Filed
    <3>5. ~Filed(r, d, c)
      BY <2>2 DEF Filed
    <3>6. Filed(r, d, c)' <=> result[r].domain = d /\ result[r].code = c
      BY <2>2, <2>3, <2>5, <2>9 DEF Filed
    <3>7. CASE result[r].domain = d /\ result[r].code = c
      <4>1. Rows(d, c)' = Rows(d, c) \cup {Len(attempts) + 1}
        BY <1>1, <3>3, <3>7 DEF Rows
      <4>2. Filers(d, c)' = Filers(d, c) \cup {r}
        BY <3>4, <3>6, <3>7 DEF Filers
      <4>3. Len(attempts) + 1 \notin Rows(d, c) /\ r \notin Filers(d, c)
        BY <1>1, <3>5 DEF Rows, Filers
      <4>4. Cardinality(Rows(d, c)') = Cardinality(Rows(d, c)) + 1
        BY <3>2, <4>1, <4>3, FS_AddElement
      <4>5. Cardinality(Filers(d, c)') = Cardinality(Filers(d, c)) + 1
        BY <3>2, <4>2, <4>3, FS_AddElement
      <4> QED
        BY <3>1, <4>4, <4>5
    <3>8. CASE ~(result[r].domain = d /\ result[r].code = c)
      <4>1. Rows(d, c)' = Rows(d, c)
        BY <1>1, <3>3, <3>8 DEF Rows
      <4>2. Filers(d, c)' = Filers(d, c)
        BY <3>4, <3>5, <3>6, <3>8 DEF Filers
      <4> QED
        BY <3>1, <4>1, <4>2
    <3> QED
      BY <3>7, <3>8
  <2> QED
    BY <2>6, <2>7, <2>8, <2>9
<1>4. CASE \E r \in Request : FailUpsert(r)
  <2>1. PICK r \in Request : FailUpsert(r)
    BY <1>4
  <2>2. pc[r] = "upsert" /\ pc'[r] = "done" /\ UNCHANGED <<attempts, result>>
    BY <2>1 DEF FailUpsert, UpsertFailedCrawl, crawl, CrawlTypeOK
  <2>3. \A q \in Request \ {r} : pc'[q] = pc[q]
    BY <2>1 DEF FailUpsert, CrawlTypeOK
  <2>4. \A q \in Request : <<q, "attempt">> \in lost' <=> <<q, "attempt">> \in lost
    BY <2>1 DEF FailUpsert, UpsertFailedCrawl, Lost
  <2>5. LostPlaced'
    BY <2>2, <2>3, <2>4 DEF LostPlaced
  <2>6. \A q \in Request : \A d, c : Filed(q, d, c)' <=> Filed(q, d, c)
    BY <2>2, <2>3, <2>4 DEF Filed
  <2> QED
    BY <1>2, <2>2, <2>5, <2>6
<1>5. CASE \E r \in Request : Step(r) /\ ~FailAttempt(r) /\ ~FailUpsert(r)
  <2>1. PICK r \in Request : Step(r) /\ ~FailAttempt(r) /\ ~FailUpsert(r)
    BY <1>5
  <2>2. /\ UNCHANGED <<attempts, lost>> /\ pc[r] \notin {"upsert", "done"}
        /\ pc'[r] \in {"upsert", "done"} => ~result'[r].thrown
    BY <2>1, OthersFileNone
  <2>3. \A q \in Request \ {r} : pc'[q] = pc[q] /\ result'[q] = result[q]
    BY <2>1, OthersKeep DEF Keeps
  <2>4. LostPlaced'
    BY <2>2, <2>3 DEF LostPlaced
  <2>5. \A q \in Request : \A d, c : Filed(q, d, c)' <=> Filed(q, d, c)
    BY <2>2, <2>3 DEF Filed
  <2> QED
    BY <1>2, <2>2, <2>4, <2>5
<1>6. CASE Tick \/ Surroundings \/ UNCHANGED vars
  <2>1. UNCHANGED <<pc, result, attempts, lost>>
    BY <1>6 DEF Tick, Surroundings, vars, crawl, storeVars
  <2> QED
    BY <1>2, <2>1 DEF LostPlaced, Filed
<1> QED
  BY <1>3, <1>4, <1>5, <1>6 DEF Next, Quiet

\* Every crawl that fail() ended has its row, and there is no other, unless the database
\* lost that very write.
THEOREM FailuresHaveRows == Spec => []RowPerFailure
<1>1. Init => LostPlaced /\ RowPerFailure
  <2> SUFFICES ASSUME Init PROVE LostPlaced /\ RowPerFailure
    OBVIOUS
  <2>1. \A d, c : Rows(d, c) = {} /\ Filers(d, c) = {}
    BY DEF Init, StoreInit, Rows, Filers, Filed
  <2> QED
    BY <2>1, RowsOfFilers DEF Init, StoreInit, LostPlaced
<1> QED
  BY <1>1, TypeInitially, TypeStep, LastResortInitially, LastResortStep, RowStep, PTL DEF Spec

----------------------------------------------------------------------------
(* The sums of topFailures.  A sum of naturals counts pairs, and these are easier to     *)
(* count than to add: a row that is counted up has one pair more.                        *)

PairsOf(f, s) == {p \in s \X Nat : p[2] \in 1..f[p[1]]}

LEMMA PairsOfOne ==
  ASSUME NEW x, NEW n \in Nat
  PROVE  IsFiniteSet({x} \X (1..n)) /\ Cardinality({x} \X (1..n)) = n
<1>. DEFINE g == [i \in 1..n |-> <<x, i>>]
            T == {x} \X (1..n)
<1>1. IsFiniteSet(1..n) /\ Cardinality(1..n) = n
  <2>1. 1 \in Int /\ n \in Int
    OBVIOUS
  <2>2. IsFiniteSet(1..n) /\ Cardinality(1..n) = IF 1 > n THEN 0 ELSE n - 1 + 1
    BY <2>1, FS_Interval
  <2>. QED
    BY <2>2
<1>2. g \in Bijection(1..n, T)
  <2>1. g \in [1..n -> T] /\ IsInjective(g)
    BY DEF IsInjective
  <2>2. \A t \in T : \E i \in 1..n : g[i] = t
    <3>1. \A t \in T : t[2] \in 1..n /\ g[t[2]] = t
      OBVIOUS
    <3>. QED
      BY <3>1
  <2>. QED
    BY <2>1, <2>2 DEF Bijection, Injection, Surjection
<1>3. ExistsBijection(1..n, T)
  BY <1>2 DEF ExistsBijection
<1>. QED
  BY <1>1, <1>3, FS_Bijection

LEMMA PairsOfMore ==
  ASSUME NEW f, NEW s, NEW x \in s, f[x] \in Nat, IsFiniteSet(PairsOf(f, s \ {x}))
  PROVE  /\ IsFiniteSet(PairsOf(f, s))
         /\ Cardinality(PairsOf(f, s)) = f[x] + Cardinality(PairsOf(f, s \ {x}))
<1>. DEFINE one == {x} \X (1..f[x])
            rest == PairsOf(f, s \ {x})
<1>1. f[x] \in Nat
  OBVIOUS
<1>2. IsFiniteSet(one) /\ Cardinality(one) = f[x]
  BY <1>1, PairsOfOne
<1>3. PairsOf(f, s) = one \cup rest
  BY <1>1 DEF PairsOf
<1>4. one \cap rest = {}
  BY DEF PairsOf
<1>. HIDE DEF one, rest
<1>5. /\ IsFiniteSet(one \cup rest)
      /\ Cardinality(one \cup rest) = Cardinality(one) + Cardinality(rest) - Cardinality(one \cap rest)
  BY <1>2, FS_Union DEF rest
<1>6. Cardinality(one \cap rest) = 0 /\ Cardinality(rest) \in Nat
  BY <1>4, FS_EmptySet, FS_CardinalityType DEF rest
<1>. QED
  BY <1>1, <1>2, <1>3, <1>5, <1>6 DEF rest

\* Of the subsets of a finite set that have a fault, one is smallest.
LEMMA SmallestFault ==
  ASSUME NEW S, IsFiniteSet(S), NEW faulty \in SUBSET SUBSET S, faulty # {}
  PROVE  \E s \in faulty : IsFiniteSet(s) /\ \A x \in s : s \ {x} \notin faulty
<1>. DEFINE R == StrictSubsetOrdering(S)
<1>1. FiniteSubsetsOf(S) = SUBSET S
  BY FS_FiniteSubsetsOfFinite
<1>2. IsWellFoundedOn(R, SUBSET S)
  BY <1>1, FS_StrictSubsetOrderingWellFounded
<1>. HIDE DEF R
<1>3. PICK s \in faulty : \A t \in faulty : ~(<<t, s>> \in R)
  BY <1>2, WFMin
<1>4. ASSUME NEW x \in s, s \ {x} \in faulty PROVE FALSE
  <2>1. <<s \ {x}, s>> \in R
    BY <1>4 DEF R, StrictSubsetOrdering
  <2>. QED
    BY <1>3, <1>4, <2>1
<1>5. IsFiniteSet(s)
  BY FS_Subset
<1>. QED
  BY <1>3, <1>4, <1>5

LEMMA PairsFinite ==
  ASSUME NEW S, IsFiniteSet(S), NEW f, \A k \in S : f[k] \in Nat
  PROVE  \A s \in SUBSET S : IsFiniteSet(PairsOf(f, s))
<1>. DEFINE faulty == {s \in SUBSET S : ~IsFiniteSet(PairsOf(f, s))}
<1>1. SUFFICES ASSUME faulty # {} PROVE FALSE
  OBVIOUS
<1>2. PICK s \in faulty : \A x \in s : s \ {x} \notin faulty
  BY <1>1, SmallestFault
<1>3. CASE s = {}
  <2>1. PairsOf(f, s) = {}
    BY <1>3 DEF PairsOf
  <2>. QED
    BY <2>1, FS_EmptySet
<1>4. ASSUME NEW x \in s PROVE FALSE
  <2>1. IsFiniteSet(PairsOf(f, s \ {x}))
    BY <1>2, <1>4
  <2>2. IsFiniteSet(PairsOf(f, s))
    BY <1>4, <2>1, PairsOfMore
  <2>. QED
    BY <2>2
<1>. QED
  BY <1>3, <1>4

\* The recursion of MapThenSumSet over the places of a function.
Chosen(s) == CHOOSE x \in s : TRUE
SumBy(f, S, g) == [s \in SUBSET S |-> IF s = {} THEN 0 ELSE f[Chosen(s)] + g[s \ {Chosen(s)}]]
SumOver(f, S) == CHOOSE g : g = SumBy(f, S, g)

LEMMA SumIsPairs ==
  ASSUME NEW S, IsFiniteSet(S), NEW f, \A k \in S : f[k] \in Nat
  PROVE  SumOver(f, S)[S] = Cardinality(PairsOf(f, S))
<1>. DEFINE count == [s \in SUBSET S |-> Cardinality(PairsOf(f, s))]
            sum == SumOver(f, S)
<1>1. \A s \in SUBSET S : s # {} => Chosen(s) \in s
  BY DEF Chosen
<1>2. ASSUME NEW s \in SUBSET S, NEW x \in s
      PROVE  Cardinality(PairsOf(f, s)) = f[x] + Cardinality(PairsOf(f, s \ {x}))
  <2>1. s \ {x} \in SUBSET S /\ f[x] \in Nat
    OBVIOUS
  <2>2. IsFiniteSet(PairsOf(f, s \ {x}))
    BY <2>1, PairsFinite
  <2>. HIDE DEF count, sum
  <2>. QED
    BY <2>1, <2>2, PairsOfMore
<1>3. ASSUME NEW s \in SUBSET S
      PROVE  count[s] = IF s = {} THEN 0 ELSE f[Chosen(s)] + count[s \ {Chosen(s)}]
  <2>1. CASE s = {}
    <3>1. PairsOf(f, s) = {}
      BY <2>1 DEF PairsOf
    <3>. QED
      BY <2>1, <3>1, FS_EmptySet
  <2>2. CASE s # {}
    <3>1. Chosen(s) \in s /\ s \ {Chosen(s)} \in SUBSET S
      BY <1>1, <2>2
    <3>2. Cardinality(PairsOf(f, s)) = f[Chosen(s)] + Cardinality(PairsOf(f, s \ {Chosen(s)}))
      BY <1>2, <3>1
    <3>. QED
      BY <2>2, <3>1, <3>2
  <2>. QED
    BY <2>1, <2>2
<1>4. count = SumBy(f, S, count)
  <2>1. SumBy(f, S, count)
          = [s \in SUBSET S |-> IF s = {} THEN 0 ELSE f[Chosen(s)] + count[s \ {Chosen(s)}]]
    BY DEF SumBy
  <2>2. count = [s \in SUBSET S |-> count[s]]
    OBVIOUS
  <2>. HIDE DEF count
  <2>. QED
    BY <1>3, <2>1, <2>2
<1>5. sum = SumBy(f, S, sum)
  <2>. HIDE DEF count
  <2>. QED
    BY <1>4 DEF SumOver
<1>. HIDE DEF sum, count
<1>6. \A s \in SUBSET S : sum[s] = IF s = {} THEN 0 ELSE f[Chosen(s)] + sum[s \ {Chosen(s)}]
  BY <1>5 DEF SumBy
<1>. DEFINE faulty == {s \in SUBSET S : sum[s] # count[s]}
<1>7. faulty = {}
  <2>1. SUFFICES ASSUME faulty # {} PROVE FALSE
    OBVIOUS
  <2>2. PICK s \in faulty : \A x \in s : s \ {x} \notin faulty
    BY <2>1, SmallestFault
  <2>3. s # {}
    BY <1>3, <1>6
  <2>4. Chosen(s) \in s /\ s \ {Chosen(s)} \in SUBSET S
    BY <1>1, <2>3
  <2>5. sum[s \ {Chosen(s)}] = count[s \ {Chosen(s)}]
    BY <2>2, <2>4
  <2>6. sum[s] = count[s]
    BY <1>3, <1>6, <2>3, <2>5
  <2>. QED
    BY <2>6
<1>8. sum[S] = count[S]
  BY <1>7
<1>. QED
  BY <1>8 DEF sum, count

----------------------------------------------------------------------------
(* The rollup counts every failure *)

Matching(d, c) == {k \in DOMAIN failed : k.domain = d /\ k.code = c}
Counts(d, c) == PairsOf(failed, Matching(d, c))

RolledUp(r, d, c) ==
  /\ pc[r] = "done" /\ result[r].thrown
  /\ result[r].domain = d /\ result[r].code = c
  /\ <<r, "upsert">> \notin lost
RolledUpFor(d, c) == {r \in Request : RolledUp(r, d, c)}

RollupPlaced ==
  /\ IsFiniteSet(DOMAIN failed)
  /\ \A r \in Request : <<r, "upsert">> \in lost => pc[r] = "done"
RollupCounts ==
  \A d \in Name, c \in Code : Cardinality(Counts(d, c)) = Cardinality(RolledUpFor(d, c))

LEMMA CountsFinite ==
  ASSUME TypeInv, RollupPlaced, NEW d, NEW c
  PROVE  /\ IsFiniteSet(Matching(d, c)) /\ \A k \in Matching(d, c) : failed[k] \in Nat
         /\ IsFiniteSet(Counts(d, c))
<1>1. IsFiniteSet(Matching(d, c))
  BY FS_Subset DEF RollupPlaced, Matching
<1>2. \A k \in Matching(d, c) : failed[k] \in Nat
  BY DEF Matching, TypeInv, TypeOK, StoreTypeOK
<1>. QED
  BY <1>1, <1>2, PairsFinite DEF Counts

\* What topFailures adds up is what the rows have counted.
LEMMA SumOfRows ==
  ASSUME TypeInv, RollupPlaced, NEW d, NEW c
  PROVE  TopFailures(d, c) = Cardinality(Counts(d, c))
<1>1. PICK S : S = Matching(d, c)
  OBVIOUS
<1>2. TopFailures(d, c) = SumOver(failed, S)[S]
  BY <1>1 DEF TopFailures, MapThenSumSet, MapThenFoldSet, SumOver, SumBy, Chosen, Matching
<1>3. SumOver(failed, S)[S] = Cardinality(PairsOf(failed, S))
  BY <1>1, CountsFinite, SumIsPairs
<1>. QED
  BY <1>1, <1>2, <1>3 DEF Counts

\* A row that is inserted or counted up counts one more, under its domain and code.
LEMMA UpsertAddsOne ==
  ASSUME TypeInv, NEW row,
         NEW k, k = FailedKey(row),
         failed' = [x \in DOMAIN failed \cup {k} |->
                      IF x = k THEN Occurrences(k) ELSE failed[x]]
  PROVE  \E n \in Nat : \A d, c :
           IF row.domain = d /\ row.code = c
           THEN <<k, n>> \notin Counts(d, c) /\ Counts(d, c)' = Counts(d, c) \cup {<<k, n>>}
           ELSE Counts(d, c)' = Counts(d, c)
<1>1. k.domain = row.domain /\ k.code = row.code
  BY DEF FailedKey
<1>2. \A x \in DOMAIN failed : failed[x] \in Nat \ {0}
  BY DEF TypeInv, TypeOK, StoreTypeOK
<1>3. PICK n \in Nat : n = Occurrences(k)
  BY <1>2 DEF Occurrences, CountUp
<1>4. /\ DOMAIN failed' = DOMAIN failed \cup {k} /\ failed'[k] = n
      /\ \A x \in DOMAIN failed \ {k} : failed'[x] = failed[x]
  BY <1>3
<1>5. IF k \in DOMAIN failed THEN n = failed[k] + 1 ELSE n = 1
  BY <1>3 DEF Occurrences, CountUp
<1>6. ASSUME NEW d, NEW c, ~(row.domain = d /\ row.code = c)
      PROVE  Counts(d, c)' = Counts(d, c)
  <2>1. k \notin Matching(d, c) /\ Matching(d, c)' = Matching(d, c)
    BY <1>1, <1>4, <1>6 DEF Matching
  <2>2. \A x \in Matching(d, c) : failed'[x] = failed[x]
    BY <1>4, <2>1 DEF Matching
  <2>. QED
    BY <2>1, <2>2 DEF Counts, PairsOf
<1>7. ASSUME NEW d, NEW c, row.domain = d /\ row.code = c
      PROVE  <<k, n>> \notin Counts(d, c) /\ Counts(d, c)' = Counts(d, c) \cup {<<k, n>>}
  <2>1. Matching(d, c)' = Matching(d, c) \cup {k}
    BY <1>1, <1>4, <1>7 DEF Matching
  <2>2. \A x \in Matching(d, c) \ {k} : failed'[x] = failed[x] /\ x \in DOMAIN failed
    BY <1>4 DEF Matching
  <2>3. k \in Matching(d, c) <=> k \in DOMAIN failed
    BY <1>1, <1>7 DEF Matching
  <2>4. \A p : p \in Counts(d, c)
           <=> p \in Matching(d, c) \X Nat /\ p[2] \in 1..failed[p[1]]
    BY DEF Counts, PairsOf
  <2>5. \A p : p \in Counts(d, c)'
           <=> p \in (Matching(d, c) \cup {k}) \X Nat /\ p[2] \in 1..failed'[p[1]]
    BY <2>1 DEF Counts, PairsOf
  <2>6. <<k, n>> \notin Counts(d, c)
    BY <1>2, <1>5, <2>3, <2>4
  <2>7. ASSUME NEW x \in Matching(d, c) \cup {k}, NEW i \in Nat
        PROVE  i \in 1..failed'[x]
                 <=> (x \in Matching(d, c) /\ i \in 1..failed[x]) \/ (x = k /\ i = n)
    <3>1. CASE x = k /\ k \in DOMAIN failed
      BY <1>2, <1>4, <1>5, <2>3, <3>1
    <3>2. CASE x = k /\ k \notin DOMAIN failed
      BY <1>4, <1>5, <2>3, <3>2
    <3>3. CASE x # k
      BY <2>2, <3>3
    <3>. QED
      BY <3>1, <3>2, <3>3
  <2>8. \A p : p \in Counts(d, c)' <=> p \in Counts(d, c) \cup {<<k, n>>}
    BY <2>4, <2>5, <2>7
  <2>. QED
    BY <2>6, <2>8
<1>. QED
  BY <1>6, <1>7

LEMMA RollupStep ==
  TypeInv /\ RenderPlaced /\ RollupPlaced /\ RollupCounts /\ [Next]_vars
    => RollupPlaced' /\ RollupCounts'
<1> SUFFICES ASSUME TypeInv, RenderPlaced, RollupPlaced, RollupCounts, [Next]_vars
             PROVE  RollupPlaced' /\ RollupCounts'
  OBVIOUS
<1>1. ASSUME UNCHANGED failed,
             \A q \in Request : \A d, c : RolledUp(q, d, c)' <=> RolledUp(q, d, c)
      PROVE  RollupCounts'
  <2>1. \A d, c : Counts(d, c)' = Counts(d, c) /\ RolledUpFor(d, c)' = RolledUpFor(d, c)
    BY <1>1 DEF Counts, PairsOf, Matching, RolledUpFor
  <2> QED
    BY <2>1 DEF RollupCounts
<1>2. ASSUME NEW r \in Request, FailUpsert(r) PROVE RollupPlaced' /\ RollupCounts'
  <2>1. /\ pc[r] = "upsert" /\ pc' = [pc EXCEPT ![r] = "done"]
        /\ UNCHANGED result /\ result[r].thrown
    BY <1>2 DEF FailUpsert, crawl, RenderPlaced, CrawlPlaced, TypeInv
  <2>2. pc'[r] = "done" /\ \A q \in Request \ {r} : pc'[q] = pc[q]
    BY <2>1 DEF TypeInv, TypeOK, CrawlTypeOK
  <2>3. <<r, "upsert">> \notin lost
    BY <2>1 DEF RollupPlaced
  <2>4. PICK k : k = FailedKey(result[r])
    OBVIOUS
  <2>5. \/ /\ failed' = [x \in DOMAIN failed \cup {k} |->
                          IF x = k THEN Occurrences(k) ELSE failed[x]]
           /\ UNCHANGED lost
        \/ lost' = lost \cup {<<r, "upsert">>} /\ UNCHANGED failed
    BY <1>2, <2>4 DEF FailUpsert, UpsertFailedCrawl, Lost
  <2>6. \A q \in Request : <<q, "upsert">> \in lost' => pc'[q] = "done"
    BY <2>2, <2>5 DEF RollupPlaced
  <2>7. IsFiniteSet(DOMAIN failed')
    <3>1. IsFiniteSet(DOMAIN failed) /\ IsFiniteSet(DOMAIN failed \cup {k})
      BY FS_AddElement DEF RollupPlaced
    <3>2. DOMAIN failed' = DOMAIN failed \cup {k} \/ failed' = failed
      BY <2>5
    <3> QED
      BY <3>1, <3>2
  <2>8. RollupPlaced'
    BY <2>6, <2>7 DEF RollupPlaced
  <2>9. \A q \in Request \ {r} : \A d, c : RolledUp(q, d, c)' <=> RolledUp(q, d, c)
    BY <2>1, <2>2, <2>5 DEF RolledUp
  <2>10. \A d, c : ~RolledUp(r, d, c)
    BY <2>1 DEF RolledUp
  <2>11. CASE lost' = lost \cup {<<r, "upsert">>} /\ UNCHANGED failed
    <3>1. \A d, c : ~RolledUp(r, d, c)'
      BY <2>11 DEF RolledUp
    <3> QED
      BY <1>1, <2>8, <2>9, <2>10, <2>11, <3>1
  <2>12. CASE /\ failed' = [x \in DOMAIN failed \cup {k} |->
                             IF x = k THEN Occurrences(k) ELSE failed[x]]
              /\ UNCHANGED lost
    <3> SUFFICES ASSUME NEW d \in Name, NEW c \in Code
                 PROVE  Cardinality(Counts(d, c)') = Cardinality(RolledUpFor(d, c)')
      BY <2>8 DEF RollupCounts
    <3>1. Cardinality(Counts(d, c)) = Cardinality(RolledUpFor(d, c))
      BY DEF RollupCounts
    <3>2. IsFiniteSet(Counts(d, c)) /\ IsFiniteSet(RolledUpFor(d, c))
      BY CountsFinite, FS_Subset, LadderAssumption DEF RolledUpFor
    <3>3. PICK n \in Nat :
            IF result[r].domain = d /\ result[r].code = c
            THEN <<k, n>> \notin Counts(d, c) /\ Counts(d, c)' = Counts(d, c) \cup {<<k, n>>}
            ELSE Counts(d, c)' = Counts(d, c)
      BY <2>4, <2>12, UpsertAddsOne
    <3>4. RolledUp(r, d, c)' <=> result[r].domain = d /\ result[r].code = c
      BY <2>1, <2>2, <2>3, <2>12 DEF RolledUp
    <3>5. CASE result[r].domain = d /\ result[r].code = c
      <4>1. RolledUpFor(d, c)' = RolledUpFor(d, c) \cup {r} /\ r \notin RolledUpFor(d, c)
        BY <2>9, <2>10, <3>4, <3>5 DEF RolledUpFor
      <4>2. Cardinality(Counts(d, c)') = Cardinality(Counts(d, c)) + 1
        BY <3>2, <3>3, <3>5, FS_AddElement
      <4>3. Cardinality(RolledUpFor(d, c)') = Cardinality(RolledUpFor(d, c)) + 1
        BY <3>2, <4>1, FS_AddElement
      <4> QED
        BY <3>1, <4>2, <4>3
    <3>6. CASE ~(result[r].domain = d /\ result[r].code = c)
      <4>1. RolledUpFor(d, c)' = RolledUpFor(d, c)
        BY <2>9, <2>10, <3>4, <3>6 DEF RolledUpFor
      <4> QED
        BY <3>1, <3>3, <3>6, <4>1
    <3> QED
      BY <3>5, <3>6
  <2> QED
    BY <2>5, <2>11, <2>12
<1>3. ASSUME UNCHANGED failed,
             \A q \in Request : <<q, "upsert">> \in lost' <=> <<q, "upsert">> \in lost,
             \A q \in Request : \/ pc'[q] = pc[q] /\ result'[q] = result[q]
                                \/ pc[q] # "done" /\ (pc'[q] = "done" => ~result'[q].thrown)
      PROVE  RollupPlaced' /\ RollupCounts'
  <2>1. RollupPlaced'
    BY <1>3 DEF RollupPlaced
  <2>2. \A q \in Request : \A d, c : RolledUp(q, d, c)' <=> RolledUp(q, d, c)
    BY <1>3 DEF RolledUp
  <2> QED
    BY <1>1, <1>3, <2>1, <2>2
<1>4. ASSUME NEW r \in Request, FailAttempt(r) PROVE RollupPlaced' /\ RollupCounts'
  <2>1. /\ pc[r] = "attempt" /\ pc' = [pc EXCEPT ![r] = "upsert"]
        /\ UNCHANGED <<result, failed>>
    BY <1>4 DEF FailAttempt, WriteAttempt, crawl
  <2>2. \A q \in Request : <<q, "upsert">> \in lost' <=> <<q, "upsert">> \in lost
    BY <1>4 DEF FailAttempt, WriteAttempt, Lost
  <2>3. pc'[r] = "upsert" /\ \A q \in Request \ {r} : pc'[q] = pc[q]
    BY <2>1 DEF TypeInv, TypeOK, CrawlTypeOK
  <2> QED
    BY <1>3, <2>1, <2>2, <2>3
<1>5. ASSUME NEW r \in Request, Step(r), ~FailAttempt(r), ~FailUpsert(r)
      PROVE  RollupPlaced' /\ RollupCounts'
  <2>1. /\ UNCHANGED lost /\ pc[r] # "done"
        /\ pc'[r] = "done" => ~result'[r].thrown
    BY <1>5, OthersFileNone
  <2>2. UNCHANGED failed
    BY <1>5 DEF Step, Arrive, Wake, Precheck, StaticThrows, StaticReturns, Recover, Oembed,
                Render, storeVars
  <2>3. \A q \in Request \ {r} : pc'[q] = pc[q] /\ result'[q] = result[q]
    BY <1>5, OthersKeep DEF Keeps
  <2> QED
    BY <1>3, <2>1, <2>2, <2>3
<1>6. CASE Tick \/ Surroundings \/ UNCHANGED vars
  <2>1. UNCHANGED <<pc, result, failed, lost>>
    BY <1>6 DEF Tick, Surroundings, vars, crawl, storeVars
  <2> QED
    BY <1>3, <2>1
<1> QED
  BY <1>2, <1>4, <1>5, <1>6 DEF Next, Quiet

\* What topFailures adds up for a domain and an error code, over whatever final URLs, is
\* the number of crawls that fail() ended so, unless the database lost that very write.
THEOREM RollupIsExact == Spec => []RollupIsTheFailures
<1>1. Init => RollupPlaced /\ RollupCounts
  <2> SUFFICES ASSUME Init PROVE RollupPlaced /\ RollupCounts
    OBVIOUS
  <2>1. DOMAIN failed = {}
    BY DEF Init, StoreInit
  <2>2. \A d, c : Counts(d, c) = {} /\ RolledUpFor(d, c) = {}
    BY <2>1 DEF Init, Counts, Matching, PairsOf, RolledUpFor, RolledUp
  <2> QED
    BY <2>1, <2>2, FS_EmptySet DEF Init, StoreInit, RollupPlaced, RollupCounts
<1>2. TypeInv /\ RollupPlaced /\ RollupCounts => RollupIsTheFailures
  <2> SUFFICES ASSUME TypeInv, RollupPlaced, RollupCounts, NEW d \in Name, NEW c \in Code
               PROVE  TopFailures(d, c) = Counted("upsert", {"done"}, d, c)
    BY DEF RollupIsTheFailures
  <2>1. RolledUpFor(d, c) = {r \in Request : /\ pc[r] \in {"done"} /\ result[r].thrown
                                             /\ result[r].domain = d /\ result[r].code = c
                                             /\ <<r, "upsert">> \notin lost}
    BY DEF RolledUpFor, RolledUp
  <2>2. Cardinality(RolledUpFor(d, c)) = Counted("upsert", {"done"}, d, c)
    BY <2>1 DEF Counted
  <2> QED
    BY <2>2, SumOfRows DEF RollupCounts
<1> QED
  BY <1>1, <1>2, TypeInitially, TypeStep, LastResortInitially, LastResortStep, RollupStep, PTL
     DEF Spec

================================================================================
