------------------------------- MODULE LruTtl -------------------------------
(***************************************************************************)
(* The L1 of one process (LruTtl, service/src/cache/unfurl-cache.ts): a    *)
(* JavaScript Map, which keeps its keys in the order of insertion and a    *)
(* key that is set again in its place, under the normal forms of URLs.     *)
(***************************************************************************)
EXTENDS UrlNormal

CONSTANTS
  Raw,         \* the URLs clients send
  None,        \* a model value: no value
  MaxEntries,  \* L1_MAX_ENTRIES
  Ttl,         \* L1_TTL_MS
  MaxNow,      \* bound: the clock stops here
  MaxUses      \* bound: calls of get and set

NormOf == [u \in Raw |-> Normalize(u)]
Norm == {NormOf[u] : u \in Raw}

ASSUME LruAssumption ==
  /\ Raw \subseteq Url
  /\ MaxEntries \in Nat \ {0}
  /\ {Ttl, MaxNow, MaxUses} \subseteq Nat
  /\ None \notin [value : Nat, at : Int]

VARIABLES
  now,
  order,   \* the keys of the Map, in its order
  entry,   \* per key: the value and when it expires
  answer,  \* what the last call returned
  \* Observation only: the calls so far, and per key the last one that inserted or read it.
  uses, last

vars == <<now, order, entry, answer, uses, last>>

Keys == ToSet(order)
NoEntry == [v |-> 0, exp |-> 0]

Init ==
  /\ now = 0
  /\ order = <<>> /\ entry = [n \in Norm |-> NoEntry]
  /\ answer = None
  /\ uses = 0 /\ last = [n \in Norm |-> 0]

\* map.delete: the other keys keep their order.
PlaceOf(n) == CHOOSE i \in 1..Len(order) : order[i] = n
Without(n) == RemoveAt(order, PlaceOf(n))

NeverExpired(n) == FALSE
Expired(n) == now > entry[n].exp

\* A read moves the key to the end.
ReadInPlace(n) == order
ReadMoves(n) == Append(Without(n), n)

Get(u) ==
  LET n == NormOf[u] IN
  /\ uses < MaxUses /\ uses' = uses + 1
  /\ \/ n \notin Keys /\ answer' = None /\ UNCHANGED <<order, entry, last>>
     \/ /\ n \in Keys /\ Expired(n)
        /\ order' = Without(n)
        /\ entry' = [entry EXCEPT ![n] = NoEntry]
        /\ answer' = None
        /\ UNCHANGED last
     \/ /\ n \in Keys /\ ~Expired(n)
        /\ order' = ReadMoves(n)
        /\ answer' = entry[n].v
        /\ last' = [last EXCEPT ![n] = uses']
        /\ UNCHANGED entry
  /\ UNCHANGED now

\* At capacity the first key goes, also when u is in the Map already.
Kept == IF Len(order) >= MaxEntries THEN Tail(order) ELSE order

\* The value is the number of the call, so that no two are the same.
Set(u) ==
  LET n == NormOf[u]
      isNew == n \notin ToSet(Kept)
  IN
  /\ uses < MaxUses /\ uses' = uses + 1
  /\ order' = IF isNew THEN Append(Kept, n) ELSE Kept
  /\ entry' = [k \in Norm |-> IF k = n THEN [v |-> uses', exp |-> now + Ttl]
                              ELSE IF k \in ToSet(Kept) THEN entry[k] ELSE NoEntry]
  /\ answer' = None
  /\ last' = [last EXCEPT ![n] = IF isNew THEN uses' ELSE @]
  /\ UNCHANGED now

Tick == now < MaxNow /\ now' = now + 1 /\ UNCHANGED <<order, entry, answer, uses, last>>

Next == Tick \/ \E u \in Raw : Get(u) \/ Set(u)

Spec == Init /\ [][Next]_vars

----------------------------------------------------------------------------
(* Properties *)

\* The L1 implements the abstract map, keyed by pages: whatever spelling of a URL a
\* client uses, it is answered with what was last put for its page, within the TTL.  The
\* key of a page is one of its URLs.
PageOf == [n \in Norm |-> CHOOSE v \in Raw : SamePage(n, v)]
Pages == {PageOf[n] : n \in Norm}
EntryOf(p) ==
  LET held == {n \in Keys : PageOf[n] = p /\ now <= entry[n].exp} IN
  IF held = {} THEN None
  ELSE LET n == CHOOSE n \in held : TRUE IN
       [value |-> entry[n].v, at |-> entry[n].exp - Ttl]
Map == INSTANCE BoundedMap WITH
         Key <- Pages, Value <- 1..MaxUses, MaxHeld <- MaxEntries,
         contents <- [p \in Pages |-> EntryOf(p)]
L1IsABoundedMap == Map!Spec

\* What the L1 gives up before its time is the entry that was inserted or read the
\* longest ago.  (Setting a key again does not count as a use.)
VictimIsLeastRecent ==
  [][\A n \in Keys :
       n \notin ToSet(order') /\ now <= entry[n].exp =>
         \A k \in Keys : last[n] <= last[k]]_vars

\* Before any call: the contract of normalizeUrl (normalize.ts 11, docs/01_crawl_engine.md
\* 210).  URLs have the same normal form exactly if they name the same page, and a
\* normal form is its own.
Known == Raw \cup Norm
Misnamed ==
  {p \in Known \X Known : SamePage(p[1], p[2]) # (Normalize(p[1]) = Normalize(p[2]))}
    \cup {<<n, n>> : n \in {m \in Norm : Normalize(m) # m}}
SamePageSameKey == uses = 0 => Misnamed = {}

============================================================================
