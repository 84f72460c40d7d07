------------------------------ MODULE DomainRules ------------------------------
(***************************************************************************)
(* The per-domain rules of a process (service/src/rules/domain-rules.ts):  *)
(* a snapshot of the table domain_rules that is reloaded when it is older  *)
(* than its TTL, and over it what the recovery of blocked crawls learned.  *)
(* The table is edited by operators at any time; a query of it may fail,   *)
(* and then PgDomainRuleProvider answers with no rules                     *)
(* (persistence/pg-store.ts).                                              *)
(***************************************************************************)
EXTENDS Integers, Sequences

CONSTANTS
  Url,       \* URLs of crawls
  Name,      \* host names, parent domains, registrable domains
  Names,     \* of a URL: its host and the parents of two labels or more, in this order
  Site,      \* domainOf: the registrable domain of a URL
  Ua,        \* user agents
  None,      \* a model value: no value
  Tables,    \* contents of domain_rules: a rule, or None, for each name
  RuleTtl,   \* ttlMs of the store
  LoadMax, MaxNow, MaxEdits, MaxLoadFaults   \* bounds of the model; LoadMax: of a query's time

\* The fields that the control of a crawl depends on.
Rule == [short : BOOLEAN, ua : Ua \cup {None}, force : BOOLEAN, challenge : BOOLEAN,
         oembed : BOOLEAN, version : Nat]
DefaultRule == [short |-> FALSE, ua |-> None, force |-> FALSE, challenge |-> FALSE,
                oembed |-> FALSE, version |-> 0]

\* A learned patch sets fields, never resets one; version 0: nothing learned.
Patch == [ua : Ua \cup {None}, force : BOOLEAN, challenge : BOOLEAN, version : Nat]
NoPatch == [ua |-> None, force |-> FALSE, challenge |-> FALSE, version |-> 0]

RuleTable == [Name -> Rule \cup {None}]

\* Every suffix of a host name of two labels or more is among its Names, the registrable
\* domain too, and no longer one is the registrable domain of anything.
ASSUME RulesAssumption ==
  /\ Names \in [Url -> Seq(Name)]
  /\ Site \in [Url -> Name]
  /\ \A u \in Url : \E i \in 1..Len(Names[u]) : Names[u][i] = Site[u]
  /\ \A u, v \in Url : \A i \in 1..Len(Names[u]) :
       Names[u][i] = Site[v] => \E j \in 1..i : Names[u][j] = Site[u]
  /\ Tables \subseteq RuleTable /\ Tables # {}
  /\ None \notin Rule /\ None \notin Ua /\ None \notin Name /\ None \notin Nat
  /\ {LoadMax, MaxNow, MaxEdits, MaxLoadFaults} \subseteq Nat
  /\ RuleTtl \in Nat \ {0}

VARIABLES
  now,
  table,      \* domain_rules
  byDomain,   \* the snapshot that is served
  loadedAt,   \* None before the first load
  loading,    \* whether a load is in flight
  query,      \* of that load: when it was sent, and what it has read so far
  learned,    \* the overlay
  edits, loadFaults

rules == <<byDomain, loadedAt, loading, query, loadFaults>>
outside == <<now, table, edits>>
ruleVars == <<outside, rules, learned>>

NoQuery == [sent |-> None, read |-> None]

RulesTypeOK ==
  /\ now \in Nat /\ edits \in Nat /\ loadFaults \in Nat
  /\ table \in Tables
  /\ byDomain \in RuleTable
  /\ loadedAt \in Nat \cup {None}
  /\ loading \in BOOLEAN
  /\ query \in [sent : Nat \cup {None}, read : RuleTable \cup {None}]
  /\ learned \in [Name -> Patch]

Empty == [n \in Name |-> None]

RulesInit ==
  /\ now = 0
  /\ table \in Tables
  /\ byDomain = Empty
  /\ loadedAt = None
  /\ loading = FALSE /\ query = NoQuery
  /\ learned = [n \in Name |-> NoPatch]
  /\ edits = 0 /\ loadFaults = 0

----------------------------------------------------------------------------
(* ensureFresh *)

IsFresh == loadedAt # None /\ now - loadedAt < RuleTtl

\* Of those that find the snapshot too old, the first sends the query and all wait for it.
JoinLoad ==
  \/ loading /\ UNCHANGED rules
  \/ /\ ~loading
     /\ loading' = TRUE
     /\ query' = [NoQuery EXCEPT !.sent = now]
     /\ UNCHANGED <<byDomain, loadedAt, loadFaults>>

\* The database reads the table, or the query fails and the answer is the empty list, which
\* counts as read like any other.
LoadRead ==
  /\ loading /\ query.read = None
  /\ \/ query' = [query EXCEPT !.read = table] /\ UNCHANGED loadFaults
     \/ /\ loadFaults < MaxLoadFaults /\ loadFaults' = loadFaults + 1
        /\ query' = [query EXCEPT !.read = Empty]
  /\ UNCHANGED <<outside, byDomain, loadedAt, loading, learned>>

LoadEnd ==
  /\ loading /\ query.read # None
  /\ byDomain' = query.read
  /\ loadedAt' = now
  /\ loading' = FALSE /\ query' = NoQuery
  /\ UNCHANGED <<outside, loadFaults, learned>>

----------------------------------------------------------------------------
(* learn and resolve *)

MergeForgets(old, new) == [new EXCEPT !.version = old.version + 1]

Merge(old, new) ==
  [ua        |-> IF new.ua # None THEN new.ua ELSE old.ua,
   force     |-> old.force \/ new.force,
   challenge |-> old.challenge \/ new.challenge,
   version   |-> old.version + 1]

Learn(d, patch) == learned' = [learned EXCEPT ![d] = Merge(@, patch)]

Least(S) == CHOOSE i \in S : \A j \in S : i <= j

ExactOnly(u, S) == IF Names[u][1] \in S THEN Names[u][1] ELSE None

\* The first of the names of u that is in S, or None.
FirstOf(u, S) ==
  LET hits == {i \in 1..Len(Names[u]) : Names[u][i] \in S}
  IN IF hits = {} THEN None ELSE Names[u][Least(hits)]

\* The rule of the host, of its nearest parent that has one, or the default.
BaseRule(u) ==
  LET n == FirstOf(u, {m \in Name : byDomain[m] # None})
  IN IF n = None THEN DefaultRule ELSE byDomain[n]

Overlay(u) ==
  LET n == FirstOf(u, {m \in Name : learned[m].version > 0})
  IN IF n = None THEN NoPatch ELSE learned[n]

Resolve(u) ==
  LET base == BaseRule(u)
      over == Overlay(u)
  IN [short     |-> base.short,
      ua        |-> IF over.ua # None THEN over.ua ELSE base.ua,
      force     |-> base.force \/ over.force,
      challenge |-> base.challenge \/ over.challenge,
      oembed    |-> base.oembed,
      version   |-> base.version + over.version]

----------------------------------------------------------------------------
(* The world outside *)

\* An operator writes the table.
Edit ==
  /\ edits < MaxEdits
  /\ edits' = edits + 1
  /\ table' \in Tables \ {table}
  /\ UNCHANGED <<now, rules, learned>>

\* Time passes; of a query in flight, up to the bound.
RuleTick ==
  /\ now < MaxNow
  /\ loading => now - query.sent < LoadMax
  /\ now' = now + 1
  /\ UNCHANGED <<table, edits, rules, learned>>

================================================================================
