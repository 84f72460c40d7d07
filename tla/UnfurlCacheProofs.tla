------------------------- MODULE UnfurlCacheProofs -------------------------
(***************************************************************************)
(* Theorems about UnfurlCache for every value of its constants: what who   *)
(* holds a lock beside another owes it to, what is written before what,    *)
(* what an answer is a copy of, that a stale one is put right, and that a  *)
(* failure that was stored before a success is not served after it.        *)
(***************************************************************************)
EXTENDS UnfurlCache, FiniteSetTheorems, TLAPS

----------------------------------------------------------------------------
(* The inductive invariant, by parts. *)

Stored == {"attempt", "setPayload", "setMap", "setFinal", "setShort", "writeCrawl"}

\* What a task has filled in by the time it is at a label.
Placed ==
  \A t \in Task :
    /\ pc[t] # "idle" => url[t] \in Norm /\ node[t] \in Node
    /\ pc[t] = "getPayload" => pk[t] \in Pk
    /\ pc[t] \in Stored => res[t] \in Result

\* A background refresh exists only after the request that started it has returned.
RefreshAfterRequest ==
  \A r \in Request : pc[Bg(r)] # "idle" => pc[Fg(r)] = "done"

TypeInv == TypeOK /\ Placed /\ RefreshAfterRequest

\* The task believes it holds the lock exactly where its finally block is pending.
HeldWhileCrawling ==
  \A t \in Task :
    /\ held[t] => pc[t] \in Crawling
    /\ pc[t] = "unlock" => held[t]

\* One holder for the lock that is there, every other one for a lapse or a failed command:
\* who deletes a lock, its own or not, leaves itself.
HoldersCounted ==
  \A n \in Norm :
    /\ IsFiniteSet(Holders(n))
    /\ Cardinality(Holders(n)) <= (IF lock[n] # 0 THEN 1 ELSE 0) + lapsed[n] + faults

LockInv == HeldWhileCrawling /\ HoldersCounted

\* Where a task cannot have written its row yet.
BeforeRow == {"idle", "getMap", "getPayload", "getNeg", "setNx", "crawl", "attempt"}

RowInv ==
  /\ \A t \in Task : pc[t] \in BeforeRow => attempts[t] = 0
  /\ faults = 0 => \A t \in Task : pc[t] \in Stored \ {"attempt"} => attempts[t] = 1
  /\ AttemptBeforeVisible

IInv == TypeInv /\ LockInv /\ RowInv

----------------------------------------------------------------------------
(* Tasks and lookups of values. *)

LEMMA TaskFacts ==
  /\ \A r \in Request : Fg(r) \in Task /\ Bg(r) \in Task /\ Fg(r) # Bg(r)
  /\ \A r, s \in Request : (Fg(r) = Fg(s) \/ Bg(r) = Bg(s)) => r = s
  /\ \A r, s \in Request : Fg(r) # Bg(s)
  /\ \A t \in Task : t[1] \in Request
  /\ \A t \in Task : (\E r \in Request : t = Fg(r)) \/ (\E r \in Request : t = Bg(r))
BY DEF Task, Fg, Bg

LEMMA Constants ==
  /\ {CompleteTtl, PartialTtl, Neg4xxTtl, Neg5xxTtl, MapTtl, L1Ttl, LockTtl, PollMax}
       \subseteq Nat \ {0}
  /\ {HoldMax, MaxNow, MaxFaults, MaxCrashes} \subseteq Nat
  /\ \A n \in Norm : Results[n] \subseteq Result
  /\ None \notin Norm /\ None \notin Pk /\ None \notin Node /\ None \notin Task
BY CacheAssumption DEF Task

LEMMA TtlType == \A x : Ttl(x) \in Nat /\ PhysicalTtl(x) \in Nat
<1>1. TAKE x
<1>2. Ttl(x) \in Nat
  BY Constants DEF Ttl
<1>. QED
  BY <1>2 DEF PhysicalTtl

LEMMA CommandType ==
  ASSUME NEW ok, NEW applied, faults \in Nat, Command(ok, applied)
  PROVE  /\ faults' \in Nat /\ faults <= faults' /\ (faults' = 0 => ok /\ applied)
         /\ faults' \in {faults, faults + 1} /\ (faults' = faults => ok /\ applied)
BY DEF Command
----------------------------------------------------------------------------
(* Types: what the shared ends of the actions preserve. *)

LEMMA ReturnType ==
  ASSUME NEW t \in Task, NEW kind \in {"none", "hit", "stale", "negative", "miss"},
         NEW by \in Task \cup {None}, ChainOK, AnswerOK, Return(t, kind, by)
  PROVE  ChainOK' /\ AnswerOK'
<1>1. ChainOK'
  BY DEF Return, Forget, ChainOK, Label
<1>2. AnswerOK'
  BY TaskFacts DEF Return, Answer, AnswerOK
<1>. QED
  BY <1>1, <1>2

LEMMA BeginCrawlType ==
  ASSUME NEW t \in Task, NEW b \in BOOLEAN, SharedOK, ChainOK,
         BeginCrawl(t, b), UNCHANGED <<polls, pk>>
  PROVE  ChainOK'
BY DEF BeginCrawl, Goto, SharedOK, ChainOK, Label, Crawling

LEMMA AfterStoreType ==
  ASSUME NEW t \in Task, ChainOK, AnswerOK, AfterStore(t)
  PROVE  ChainOK' /\ AnswerOK'
<1>1. CASE held[t]
  BY <1>1 DEF AfterStore, Goto, ChainOK, AnswerOK, Label, Crawling
<1>2. CASE ~held[t]
  BY <1>2, ReturnType DEF AfterStore
<1>. QED
  BY <1>1, <1>2

\* A step of one running task disturbs neither what the others have filled in nor the
\* order of a request and its refresh.
LEMMA OneTaskMoves ==
  ASSUME NEW t \in Task, TypeInv, pc[t] \notin {"idle", "done"},
         \A u \in Task \ {t} : pc'[u] = pc[u] /\ pk'[u] = pk[u] /\ res'[u] = res[u],
         UNCHANGED <<url, node>>,
         pc'[t] = "getPayload" => pk'[t] \in Pk,
         pc'[t] \in Stored => res'[t] \in Result
  PROVE  Placed' /\ RefreshAfterRequest'
<1>1. Placed'
  BY DEF TypeInv, Placed
<1>2. RefreshAfterRequest'
  BY TaskFacts DEF TypeInv, RefreshAfterRequest
<1>. QED
  BY <1>1, <1>2

----------------------------------------------------------------------------
(* Types: one lemma per action. *)

LEMMA ArriveType == ASSUME NEW r \in Request, TypeInv, Arrive(r) PROVE TypeInv'
<1>. DEFINE t == Fg(r)
<1>1. t \in Task /\ pc[t] = "idle" /\ pc[Bg(r)] = "idle"
  BY TaskFacts DEF Arrive, TypeInv, RefreshAfterRequest
<1>2. PICK n \in Norm, nd \in Node, rf \in BOOLEAN :
        /\ url' = [url EXCEPT ![t] = n]
        /\ node' = [node EXCEPT ![t] = nd]
        /\ refresh' = [refresh EXCEPT ![r] = rf]
        /\ \/ n \in Invalid /\ BeginCrawl(t, FALSE) /\ UNCHANGED <<answer, polls, pk>>
           \/ n \notin Invalid /\ L1Hit(nd, n, rf) /\ Return(t, "hit", l1[nd][n].by)
           \/ /\ n \notin Invalid /\ ~L1Hit(nd, n, rf)
              /\ Goto(t, FirstRead(rf))
              /\ UNCHANGED <<answer, polls, pk, held, since>>
  BY DEF Arrive
<1>3. SharedOK' /\ PlaceOK' /\ ObservedOK'
  BY <1>1, <1>2 DEF Arrive, TypeInv, TypeOK, SharedOK, PlaceOK, ObservedOK, redis
<1>4. ChainOK' /\ AnswerOK' /\ pc'[t] \notin Stored \cup {"getPayload"}
      /\ \A u \in Task \ {t} : pc'[u] = pc[u] /\ pk'[u] = pk[u]
  <2>1. CASE BeginCrawl(t, FALSE) /\ UNCHANGED <<answer, polls, pk>>
    BY <2>1, <1>1, BeginCrawlType
       DEF TypeInv, TypeOK, AnswerOK, ChainOK, BeginCrawl, Goto, Stored
  <2>2. CASE L1Hit(nd, n, rf) /\ Return(t, "hit", l1[nd][n].by)
    <3>1. l1[nd][n].by \in Task
      BY <2>2 DEF L1Hit, TypeInv, TypeOK, SharedOK, Entry
    <3>. QED
      BY <3>1, <2>2, <1>1, ReturnType
         DEF TypeInv, TypeOK, ChainOK, Return, Forget, Stored
  <2>3. CASE Goto(t, FirstRead(rf)) /\ UNCHANGED <<answer, polls, pk, held, since>>
    BY <2>3, <1>1
       DEF TypeInv, TypeOK, AnswerOK, ChainOK, Goto, FirstRead, Label, Stored
  <2>. QED
    BY <1>2, <2>1, <2>2, <2>3
<1>5. Placed'
  BY <1>1, <1>2, <1>4 DEF Arrive, TypeInv, TypeOK, PlaceOK, Placed
<1>6. RefreshAfterRequest'
  BY <1>1, <1>4, TaskFacts DEF TypeInv, RefreshAfterRequest
<1>. QED
  BY <1>3, <1>4, <1>5, <1>6 DEF TypeInv, TypeOK

LEMMA GetMapType == ASSUME NEW t \in Task, TypeInv, GetMap(t) PROVE TypeInv'
<1>1. PICK ok \in BOOLEAN :
        /\ Command(ok, ok)
        /\ IF ok /\ map[url[t]] # NoMap
             THEN pk' = [pk EXCEPT ![t] = MapValue(url[t])] /\ Goto(t, "getPayload")
             ELSE Goto(t, "getNeg") /\ UNCHANGED pk
  BY DEF GetMap
<1>2. url[t] \in Norm /\ (map[url[t]] # NoMap => MapValue(url[t]) \in Pk)
  BY DEF GetMap, TypeInv, TypeOK, Placed, SharedOK, MapValue
<1>3. SharedOK' /\ PlaceOK' /\ AnswerOK' /\ ObservedOK'
  BY <1>1, CommandType
     DEF GetMap, TypeInv, TypeOK, SharedOK, PlaceOK, AnswerOK, ObservedOK, redis, ghost
<1>4. ChainOK'
  BY <1>1, <1>2 DEF GetMap, TypeInv, TypeOK, ChainOK, Goto, Label
<1>5. Placed' /\ RefreshAfterRequest'
  BY <1>1, <1>2, OneTaskMoves DEF GetMap, TypeInv, TypeOK, ChainOK, Goto, Stored
<1>. QED
  BY <1>3, <1>4, <1>5 DEF TypeInv, TypeOK

LEMMA LookupPayloadType ==
  ASSUME NEW r \in Request, TypeInv, LookupPayload(r) PROVE TypeInv'
<1>. DEFINE t == Fg(r)
            e == payload[pk[t]]
<1>1. /\ t \in Task /\ Bg(r) \in Task /\ t # Bg(r)
      /\ pc[t] = "getPayload" /\ pc[Bg(r)] = "idle"
      /\ url[t] \in Norm /\ node[t] \in Node
      /\ e # NoEntry => e.by \in Task
  BY TaskFacts
     DEF LookupPayload, TypeInv, TypeOK, SharedOK, Placed, RefreshAfterRequest, Entry
<1>2. PICK ok \in BOOLEAN :
       /\ Command(ok, ok)
       /\ \/ /\ ok /\ e # NoEntry /\ Fresh(e.by)
             /\ l1' = [l1 EXCEPT ![node[t]][url[t]] = [by |-> e.by, exp |-> now + L1Ttl]]
             /\ Return(t, "hit", e.by)
             /\ UNCHANGED <<url, node>>
          \/ /\ ok /\ e # NoEntry /\ Stale(e.by)
             /\ pc' = [pc EXCEPT ![t] = "done", ![Bg(r)] = "setNx"]
             /\ Answer(t, "stale", e.by)
             /\ Forget(t)
             /\ url' = [url EXCEPT ![Bg(r)] = url[t]]
             /\ node' = [node EXCEPT ![Bg(r)] = node[t]]
             /\ UNCHANGED l1
          \/ /\ ~(ok /\ e # NoEntry /\ (Fresh(e.by) \/ Stale(e.by)))
             /\ Goto(t, "getNeg")
             /\ UNCHANGED <<l1, url, node, polls, pk, held, since, answer>>
  BY DEF LookupPayload
<1>3. ObservedOK'
  BY <1>2, CommandType DEF LookupPayload, TypeInv, TypeOK, ObservedOK, ghost
<1>4. CASE /\ e # NoEntry
           /\ l1' = [l1 EXCEPT ![node[t]][url[t]] = [by |-> e.by, exp |-> now + L1Ttl]]
           /\ Return(t, "hit", e.by)
           /\ UNCHANGED <<url, node>>
  <2>1. SharedOK' /\ PlaceOK'
    BY <1>1, <1>4, Constants
       DEF LookupPayload, TypeInv, TypeOK, SharedOK, PlaceOK, Entry, redis
  <2>2. ChainOK' /\ AnswerOK'
    BY <1>1, <1>4, ReturnType DEF TypeInv, TypeOK
  <2>3. Placed' /\ RefreshAfterRequest'
    BY <1>1, <1>4, OneTaskMoves
       DEF LookupPayload, TypeInv, TypeOK, ChainOK, Return, Forget, Stored
  <2>. QED
    BY <1>3, <2>1, <2>2, <2>3 DEF TypeInv, TypeOK
<1>5. CASE /\ e # NoEntry
           /\ pc' = [pc EXCEPT ![t] = "done", ![Bg(r)] = "setNx"]
           /\ Answer(t, "stale", e.by)
           /\ Forget(t)
           /\ url' = [url EXCEPT ![Bg(r)] = url[t]]
           /\ node' = [node EXCEPT ![Bg(r)] = node[t]]
           /\ UNCHANGED l1
  <2>1. SharedOK' /\ PlaceOK'
    BY <1>1, <1>5 DEF LookupPayload, TypeInv, TypeOK, SharedOK, PlaceOK, redis
  <2>2. ChainOK'
    BY <1>1, <1>5 DEF TypeInv, TypeOK, ChainOK, Forget, Label, Crawling
  <2>3. AnswerOK'
    BY <1>1, <1>5, TaskFacts DEF TypeInv, TypeOK, AnswerOK, Answer
  <2>4. Placed'
    BY <1>1, <1>5
       DEF LookupPayload, TypeInv, TypeOK, ChainOK, PlaceOK, Placed, Forget, Stored
  <2>5. RefreshAfterRequest'
    BY <1>1, <1>5, TaskFacts DEF TypeInv, TypeOK, ChainOK, RefreshAfterRequest
  <2>. QED
    BY <1>3, <2>1, <2>2, <2>3, <2>4, <2>5 DEF TypeInv, TypeOK
<1>6. CASE Goto(t, "getNeg") /\ UNCHANGED <<l1, url, node, polls, pk, held, since, answer>>
  <2>1. SharedOK' /\ PlaceOK' /\ AnswerOK' /\ ChainOK'
    BY <1>1, <1>6
       DEF LookupPayload, TypeInv, TypeOK, SharedOK, PlaceOK, AnswerOK, ChainOK, Goto,
           Label, redis
  <2>2. Placed' /\ RefreshAfterRequest'
    BY <1>1, <1>6, OneTaskMoves
       DEF LookupPayload, TypeInv, TypeOK, ChainOK, Goto, Stored
  <2>. QED
    BY <1>3, <2>1, <2>2 DEF TypeInv, TypeOK
<1>. QED
  BY <1>2, <1>4, <1>5, <1>6

LEMMA PollPayloadType ==
  ASSUME NEW r \in Request, TypeInv, PollPayload(r) PROVE TypeInv'
<1>. DEFINE t == Fg(r)
            e == payload[pk[t]]
<1>1. t \in Task /\ pc[t] = "getPayload" /\ (e # NoEntry => e.by \in Task)
  BY TaskFacts DEF PollPayload, TypeInv, TypeOK, SharedOK, Placed, Entry
<1>2. PICK ok \in BOOLEAN :
       /\ Command(ok, ok)
       /\ IF ok /\ e # NoEntry
            THEN Return(t, "hit", e.by)
            ELSE Goto(t, "getNeg") /\ UNCHANGED <<polls, pk, held, since, answer>>
  BY DEF PollPayload
<1>3. SharedOK' /\ PlaceOK' /\ ObservedOK'
  BY <1>2, CommandType
     DEF PollPayload, TypeInv, TypeOK, SharedOK, PlaceOK, ObservedOK, redis, ghost
<1>4. CASE e # NoEntry /\ Return(t, "hit", e.by)
  <2>1. ChainOK' /\ AnswerOK'
    BY <1>1, <1>4, ReturnType DEF TypeInv, TypeOK
  <2>2. Placed' /\ RefreshAfterRequest'
    BY <1>1, <1>4, OneTaskMoves
       DEF PollPayload, TypeInv, TypeOK, ChainOK, Return, Forget, Stored
  <2>. QED
    BY <1>3, <2>1, <2>2 DEF TypeInv, TypeOK
<1>5. CASE Goto(t, "getNeg") /\ UNCHANGED <<polls, pk, held, since, answer>>
  <2>1. ChainOK' /\ AnswerOK'
    BY <1>1, <1>5 DEF TypeInv, TypeOK, ChainOK, AnswerOK, Goto, Label
  <2>2. Placed' /\ RefreshAfterRequest'
    BY <1>1, <1>5, OneTaskMoves DEF PollPayload, TypeInv, TypeOK, ChainOK, Goto, Stored
  <2>. QED
    BY <1>3, <2>1, <2>2 DEF TypeInv, TypeOK
<1>. QED
  BY <1>2, <1>4, <1>5

LEMMA GetNegType == ASSUME NEW r \in Request, TypeInv, GetNeg(r) PROVE TypeInv'
<1>. DEFINE t == Fg(r)
            e == neg[url[t]]
<1>1. /\ t \in Task /\ pc[t] = "getNeg" /\ (e # NoEntry => e.by \in Task)
      /\ polls[t] \in Nat
  BY TaskFacts DEF GetNeg, TypeInv, TypeOK, SharedOK, ChainOK, Placed, Entry
<1>2. PICK ok \in BOOLEAN :
       /\ Command(ok, ok)
       /\ \/ ok /\ e # NoEntry /\ Return(t, "negative", e.by)
          \/ /\ ok => e = NoEntry
             /\ \/ /\ polls[t] = 0
                   /\ Goto(t, "setNx") /\ UNCHANGED <<polls, held, since>>
                \/ /\ polls[t] \in 1..(PollMax - 1)
                   /\ polls' = [polls EXCEPT ![t] = NextPoll(t)]
                   /\ Goto(t, "getMap") /\ UNCHANGED <<held, since>>
                \/ /\ polls[t] = PollMax
                   /\ GiveUp(t) /\ UNCHANGED polls
             /\ pk' = [pk EXCEPT ![t] = None]
             /\ UNCHANGED answer
  BY DEF GetNeg
<1>3. SharedOK' /\ PlaceOK' /\ ObservedOK'
  BY <1>2, CommandType
     DEF GetNeg, TypeInv, TypeOK, SharedOK, PlaceOK, ObservedOK, redis, ghost
<1>4. CASE e # NoEntry /\ Return(t, "negative", e.by)
  <2>1. ChainOK' /\ AnswerOK'
    BY <1>1, <1>4, ReturnType DEF TypeInv, TypeOK
  <2>2. Placed' /\ RefreshAfterRequest'
    BY <1>1, <1>4, OneTaskMoves
       DEF GetNeg, TypeInv, TypeOK, ChainOK, Return, Forget, Stored
  <2>. QED
    BY <1>3, <2>1, <2>2 DEF TypeInv, TypeOK
<1>5. CASE /\ \/ Goto(t, "setNx") /\ UNCHANGED <<polls, held, since>>
              \/ /\ polls' = [polls EXCEPT ![t] = NextPoll(t)]
                 /\ Goto(t, "getMap") /\ UNCHANGED <<held, since>>
              \/ GiveUp(t) /\ UNCHANGED polls
           /\ pk' = [pk EXCEPT ![t] = None]
           /\ UNCHANGED answer
  <2>1. ChainOK'
    <3>1. pk' \in [Task -> Pk \cup {None}]
      BY <1>5 DEF TypeInv, TypeOK, ChainOK
    <3>2. pc' \in [Task -> Label]
      BY <1>5 DEF TypeInv, TypeOK, ChainOK, Goto, GiveUp, BeginCrawl, Label, Crawling
    <3>3. polls' \in [Task -> Nat]
      BY <1>1, <1>5 DEF TypeInv, TypeOK, ChainOK, NextPoll
    <3>4. held' \in [Task -> BOOLEAN] /\ since' \in [Task -> Nat]
      BY <1>5, ZenonT(30) DEF TypeInv, TypeOK, SharedOK, ChainOK, GiveUp, BeginCrawl
    <3>. QED
      BY <3>1, <3>2, <3>3, <3>4 DEF ChainOK
  <2>4. AnswerOK'
    BY <1>5 DEF TypeInv, TypeOK, AnswerOK
  <2>2. pc'[t] \notin Stored \cup {"getPayload"}
        /\ \A u \in Task \ {t} : pc'[u] = pc[u] /\ pk'[u] = pk[u]
    BY <1>1, <1>5 DEF TypeInv, TypeOK, ChainOK, Goto, GiveUp, BeginCrawl, Stored
  <2>3. Placed' /\ RefreshAfterRequest'
    BY <1>1, <2>2, OneTaskMoves DEF GetNeg
  <2>. QED
    BY <1>3, <2>1, <2>3, <2>4 DEF TypeInv, TypeOK
<1>. QED
  BY <1>2, <1>4, <1>5

LEMMA SetNxType == ASSUME NEW t \in Task, TypeInv, SetNx(t) PROVE TypeInv'
<1>. DEFINE free == LockFree(t)
            taken == [lock EXCEPT ![url[t]] = now + LockTtl]
<1>1. PICK ok \in BOOLEAN, applied \in BOOLEAN :
        /\ Command(ok, applied)
        /\ lock' = IF applied /\ free THEN taken ELSE lock
        /\ \/ BeginCrawl(t, TRUE) /\ UNCHANGED <<polls, pk, answer>>
           \/ /\ Goto(t, "getMap")
              /\ polls' = [polls EXCEPT ![t] = 1]
              /\ UNCHANGED <<pk, held, since, answer>>
           \/ Return(t, "none", None)
  BY DEF SetNx
<1>2. pc[t] = "setNx"
  BY DEF SetNx
<1>3. SharedOK'
  <2>1. now + LockTtl \in Nat
    BY Constants DEF TypeInv, TypeOK, SharedOK
  <2>2. taken \in [Norm -> Nat]
    BY <2>1 DEF TypeInv, TypeOK, SharedOK
  <2>. QED
    BY <1>1, <2>2 DEF SetNx, TypeInv, TypeOK, SharedOK
<1>4. PlaceOK' /\ ObservedOK'
  BY <1>1, CommandType DEF SetNx, TypeInv, TypeOK, PlaceOK, ObservedOK, ghost
<1>5. ChainOK' /\ AnswerOK' /\ pc'[t] \notin Stored \cup {"getPayload"}
      /\ \A u \in Task \ {t} : pc'[u] = pc[u] /\ pk'[u] = pk[u]
  <2>1. CASE BeginCrawl(t, TRUE) /\ UNCHANGED <<polls, pk, answer>>
    BY <2>1, BeginCrawlType
       DEF TypeInv, TypeOK, AnswerOK, ChainOK, BeginCrawl, Goto, Stored
  <2>2. CASE /\ Goto(t, "getMap")
             /\ polls' = [polls EXCEPT ![t] = 1]
             /\ UNCHANGED <<pk, held, since, answer>>
    BY <2>2 DEF TypeInv, TypeOK, AnswerOK, ChainOK, Goto, Label, Stored
  <2>3. CASE Return(t, "none", None)
    BY <2>3, ReturnType DEF TypeInv, TypeOK, ChainOK, Return, Forget, Stored
  <2>. QED
    BY <1>1, <2>1, <2>2, <2>3
<1>6. Placed' /\ RefreshAfterRequest'
  BY <1>2, <1>5, OneTaskMoves DEF SetNx
<1>. QED
  BY <1>3, <1>4, <1>5, <1>6 DEF TypeInv, TypeOK

LEMMA UnlockType == ASSUME NEW t \in Task, TypeInv, Unlock(t) PROVE TypeInv'
<1>1. PICK ok \in BOOLEAN, applied \in BOOLEAN :
        /\ Command(ok, applied)
        /\ lock' = IF applied THEN [lock EXCEPT ![url[t]] = 0] ELSE lock
  BY DEF Unlock, Released
<1>2. SharedOK' /\ PlaceOK' /\ ObservedOK'
  BY <1>1, CommandType DEF Unlock, TypeInv, TypeOK, SharedOK, PlaceOK, ObservedOK, ghost
<1>3. ChainOK' /\ AnswerOK'
  BY ReturnType DEF Unlock, TypeInv, TypeOK
<1>4. Placed' /\ RefreshAfterRequest'
  BY OneTaskMoves DEF Unlock, TypeInv, TypeOK, ChainOK, Return, Forget, Stored
<1>. QED
  BY <1>2, <1>3, <1>4 DEF TypeInv, TypeOK

LEMMA CrawlType == ASSUME NEW t \in Task, TypeInv, Crawl(t) PROVE TypeInv'
<1>1. PICK x \in Results[url[t]], ok \in BOOLEAN, applied \in BOOLEAN :
        /\ res' = [res EXCEPT ![t] = x]
        /\ IF x.row
             THEN /\ Command(ok, applied)
                  /\ attempts' = [attempts EXCEPT ![t] = IF applied THEN @ + 1 ELSE @]
             ELSE ok /\ applied /\ UNCHANGED <<faults, attempts>>
        /\ Goto(t, AfterCrawl(x))
  BY DEF Crawl
<1>2. x \in Result
  BY Constants DEF Crawl, TypeInv, Placed
<1>3. SharedOK' /\ PlaceOK' /\ AnswerOK' /\ ObservedOK'
  BY <1>1, <1>2, CommandType
     DEF Crawl, TypeInv, TypeOK, SharedOK, PlaceOK, AnswerOK, ObservedOK, redis, ghost
<1>4. ChainOK'
  BY <1>1 DEF Crawl, TypeInv, TypeOK, ChainOK, Goto, AfterCrawl, Label, Crawling
<1>5. Placed' /\ RefreshAfterRequest'
  BY <1>1, <1>2, OneTaskMoves
     DEF Crawl, TypeInv, TypeOK, ChainOK, PlaceOK, Goto, AfterCrawl, Stored
<1>. QED
  BY <1>3, <1>4, <1>5 DEF TypeInv, TypeOK

LEMMA SetNegType == ASSUME NEW t \in Task, TypeInv, SetNeg(t) PROVE TypeInv'
<1>1. PICK ok \in BOOLEAN, applied \in BOOLEAN :
        /\ Command(ok, applied)
        /\ neg' = IF applied
                    THEN [neg EXCEPT ![NegKey(t)] = [by |-> t, exp |-> now + Ttl(res[t])]]
                    ELSE neg
        /\ history' = IF applied THEN Append(history, t) ELSE history
  BY DEF SetNeg
<1>2. SharedOK'
  <2>1. [by |-> t, exp |-> now + Ttl(res[t])] \in Entry
    BY TtlType DEF TypeInv, TypeOK, SharedOK, Entry
  <2>. QED
    BY <1>1, <2>1 DEF SetNeg, TypeInv, TypeOK, SharedOK
<1>3. PlaceOK' /\ ObservedOK'
  BY <1>1, CommandType DEF SetNeg, TypeInv, TypeOK, PlaceOK, ObservedOK
<1>4. ChainOK' /\ AnswerOK'
  BY AfterStoreType DEF SetNeg, TypeInv, TypeOK
<1>5. Placed' /\ RefreshAfterRequest'
  BY OneTaskMoves, ZenonT(30)
     DEF SetNeg, AfterStore, TypeInv, TypeOK, ChainOK, Goto, Return, Forget, Stored
<1>. QED
  BY <1>2, <1>3, <1>4, <1>5 DEF TypeInv, TypeOK

LEMMA WriteAttemptType == ASSUME NEW t \in Task, TypeInv, WriteAttempt(t) PROVE TypeInv'
<1>1. PICK ok \in BOOLEAN, applied \in BOOLEAN :
        /\ Command(ok, applied)
        /\ attempts' = [attempts EXCEPT ![t] = IF applied THEN @ + 1 ELSE @]
  BY DEF WriteAttempt
<1>2. SharedOK' /\ AnswerOK'
  BY <1>1 DEF WriteAttempt, TypeInv, TypeOK, SharedOK, AnswerOK, redis
<1>3. PlaceOK' /\ ObservedOK' /\ ChainOK'
  BY <1>1, CommandType
     DEF WriteAttempt, TypeInv, TypeOK, SharedOK, PlaceOK, ObservedOK, ChainOK, Goto,
         Label, Crawling, ghost
<1>4. Placed' /\ RefreshAfterRequest'
  BY OneTaskMoves
     DEF WriteAttempt, TypeInv, TypeOK, ChainOK, Placed, Goto, Stored
<1>. QED
  BY <1>2, <1>3, <1>4 DEF TypeInv, TypeOK

LEMMA SetPayloadType == ASSUME NEW t \in Task, TypeInv, SetPayload(t) PROVE TypeInv'
<1>1. PICK ok \in BOOLEAN, applied \in BOOLEAN :
        /\ Command(ok, applied)
        /\ payload' = IF applied
                        THEN [payload EXCEPT ![res[t].pk] =
                                [by |-> t, exp |-> now + PhysicalTtl(res[t])]]
                        ELSE payload
  BY DEF SetPayload
<1>2. res[t] \in Result /\ url[t] \in Norm /\ node[t] \in Node
  BY DEF SetPayload, TypeInv, Placed, Stored
<1>3. SharedOK'
  BY <1>1, <1>2, TtlType DEF SetPayload, TypeInv, TypeOK, SharedOK, Result, Entry
<1>4. PlaceOK' /\ ObservedOK'
  BY <1>1, CommandType DEF SetPayload, TypeInv, TypeOK, PlaceOK, ObservedOK, local, ghost
<1>5. ChainOK' /\ AnswerOK'
  BY DEF SetPayload, TypeInv, TypeOK, ChainOK, AnswerOK, Goto, local, Label, Crawling
<1>6. Placed' /\ RefreshAfterRequest'
  BY <1>2, OneTaskMoves DEF SetPayload, TypeInv, TypeOK, ChainOK, Goto, local, Stored
<1>. QED
  BY <1>3, <1>4, <1>5, <1>6 DEF TypeInv, TypeOK

LEMMA SetMapType == ASSUME NEW t \in Task, TypeInv, SetMap(t) PROVE TypeInv'
<1>1. PICK ok \in BOOLEAN, applied \in BOOLEAN :
        /\ Command(ok, applied)
        /\ map' = IF applied
                    THEN [map EXCEPT ![url[t]] = [pk |-> res[t].pk, exp |-> now + MapTtl]]
                    ELSE map
        /\ history' = IF applied THEN Append(history, t) ELSE history
  BY DEF SetMap
<1>2. res[t] \in Result /\ url[t] \in Norm /\ node[t] \in Node
  BY DEF SetMap, TypeInv, Placed, Stored
<1>3. SharedOK'
  <2>1. [pk |-> res[t].pk, exp |-> now + MapTtl] \in [pk : Pk, exp : Nat]
    BY <1>2, Constants DEF TypeInv, TypeOK, SharedOK, Result
  <2>. QED
    BY <1>1, <1>2, <2>1 DEF SetMap, TypeInv, TypeOK, SharedOK
<1>4. PlaceOK' /\ ObservedOK'
  BY <1>1, CommandType DEF SetMap, TypeInv, TypeOK, PlaceOK, ObservedOK, local, ghost
<1>5. ChainOK' /\ AnswerOK'
  BY DEF SetMap, TypeInv, TypeOK, ChainOK, AnswerOK, Goto, local, Label, Crawling
<1>6. Placed' /\ RefreshAfterRequest'
  BY <1>2, OneTaskMoves DEF SetMap, TypeInv, TypeOK, ChainOK, Goto, local, Stored
<1>. QED
  BY <1>3, <1>4, <1>5, <1>6 DEF TypeInv, TypeOK

LEMMA SetFinalType == ASSUME NEW t \in Task, TypeInv, SetFinal(t) PROVE TypeInv'
<1>1. PICK ok \in BOOLEAN, applied \in BOOLEAN :
        /\ Command(ok, applied)
        /\ map' = IF applied
                    THEN [map EXCEPT ![res[t].final] =
                            [pk |-> res[t].pk, exp |-> now + MapTtl]]
                    ELSE map
  BY DEF SetFinal
<1>2. res[t] \in Result /\ url[t] \in Norm /\ node[t] \in Node
  BY DEF SetFinal, TypeInv, Placed, Stored
<1>3. SharedOK'
  BY <1>1, <1>2, Constants DEF SetFinal, TypeInv, TypeOK, SharedOK, Result, Entry
<1>4. PlaceOK' /\ ObservedOK'
  BY <1>1, CommandType DEF SetFinal, TypeInv, TypeOK, PlaceOK, ObservedOK, local, ghost
<1>5. ChainOK' /\ AnswerOK'
  BY DEF SetFinal, TypeInv, TypeOK, ChainOK, AnswerOK, Goto, local, Label, Crawling
<1>6. Placed' /\ RefreshAfterRequest'
  BY <1>2, OneTaskMoves DEF SetFinal, TypeInv, TypeOK, ChainOK, Goto, local, Stored
<1>. QED
  BY <1>3, <1>4, <1>5, <1>6 DEF TypeInv, TypeOK

LEMMA SetShortType == ASSUME NEW t \in Task, TypeInv, SetShort(t) PROVE TypeInv'
<1>1. PICK ok \in BOOLEAN, applied \in BOOLEAN :
        /\ Command(ok, applied)
        /\ short' = IF applied THEN short \cup {url[t]} ELSE short
  BY DEF SetShort
<1>2. res[t] \in Result /\ url[t] \in Norm /\ node[t] \in Node
  BY DEF SetShort, TypeInv, Placed, Stored
<1>3. SharedOK'
  BY <1>1, <1>2 DEF SetShort, TypeInv, TypeOK, SharedOK
<1>4. PlaceOK' /\ ObservedOK'
  BY <1>1, CommandType DEF SetShort, TypeInv, TypeOK, PlaceOK, ObservedOK, local, ghost
<1>5. ChainOK' /\ AnswerOK'
  BY DEF SetShort, TypeInv, TypeOK, ChainOK, AnswerOK, Goto, local, Label, Crawling
<1>6. Placed' /\ RefreshAfterRequest'
  BY <1>2, OneTaskMoves DEF SetShort, TypeInv, TypeOK, ChainOK, Goto, local, Stored
<1>. QED
  BY <1>3, <1>4, <1>5, <1>6 DEF TypeInv, TypeOK

LEMMA WriteCrawlType == ASSUME NEW t \in Task, TypeInv, WriteCrawl(t) PROVE TypeInv'
<1>1. PICK ok \in BOOLEAN, applied \in BOOLEAN :
        /\ Command(ok, applied)
        /\ crawls' = IF applied THEN crawls \cup {t} ELSE crawls
  BY DEF WriteCrawl
<1>2. res[t] \in Result /\ url[t] \in Norm /\ node[t] \in Node
  BY DEF WriteCrawl, TypeInv, Placed, Stored
<1>3. SharedOK'
  BY <1>1, <1>2 DEF WriteCrawl, TypeInv, TypeOK, SharedOK, redis
<1>4. PlaceOK' /\ ObservedOK'
  BY <1>1, CommandType DEF WriteCrawl, TypeInv, TypeOK, PlaceOK, ObservedOK, local, ghost
<1>5. ChainOK' /\ AnswerOK'
  BY AfterStoreType DEF WriteCrawl, TypeInv, TypeOK
<1>6. Placed' /\ RefreshAfterRequest'
  BY OneTaskMoves
     DEF WriteCrawl, AfterStore, TypeInv, TypeOK, ChainOK, Goto, Return, Forget, Stored
<1>. QED
  BY <1>3, <1>4, <1>5, <1>6 DEF TypeInv, TypeOK

LEMMA TickType == ASSUME TypeInv, Tick PROVE TypeInv'
<1>1. SharedOK'
  BY DEF Tick, TypeInv, TypeOK, SharedOK
<1>2. ChainOK' /\ PlaceOK' /\ AnswerOK' /\ ObservedOK'
  BY DEF Tick, TypeInv, TypeOK, ChainOK, PlaceOK, AnswerOK, ObservedOK, local, ghost
<1>3. Placed' /\ RefreshAfterRequest'
  BY DEF Tick, TypeInv, Placed, RefreshAfterRequest, local
<1>. QED
  BY <1>1, <1>2, <1>3 DEF TypeInv, TypeOK

LEMMA CrashType == ASSUME NEW nd \in Node, TypeInv, Crash(nd) PROVE TypeInv'
<1>. DEFINE dead == {t \in Task : node[t] = nd /\ pc[t] \notin {"idle", "done", "dead"}}
<1>1. SharedOK'
  BY DEF Crash, TypeInv, TypeOK, SharedOK, redis
<1>2. ChainOK'
  BY DEF Crash, TypeInv, TypeOK, ChainOK, Label
<1>3. PlaceOK' /\ AnswerOK' /\ ObservedOK'
  BY DEF Crash, TypeInv, TypeOK, PlaceOK, AnswerOK, ObservedOK, ghost
<1>4. Placed'
  BY DEF Crash, TypeInv, Placed, Stored
<1>5. RefreshAfterRequest'
  BY TaskFacts DEF Crash, TypeInv, RefreshAfterRequest
<1>. QED
  BY <1>1, <1>2, <1>3, <1>4, <1>5 DEF TypeInv, TypeOK

LEMMA TypeInit == Init => TypeInv
<1>1. SUFFICES ASSUME Init PROVE TypeInv
  OBVIOUS
<1>2. SharedOK /\ ChainOK /\ PlaceOK /\ AnswerOK /\ ObservedOK
  BY <1>1
     DEF Init, SharedOK, ChainOK, PlaceOK, AnswerOK, ObservedOK, NoAnswer, Label, Crawling
<1>3. Placed /\ RefreshAfterRequest
  BY <1>1, TaskFacts DEF Init, Placed, RefreshAfterRequest, Stored
<1>. QED
  BY <1>2, <1>3 DEF TypeInv, TypeOK

LEMMA TypeStep == TypeInv /\ [Next]_vars => TypeInv'
<1>1. SUFFICES ASSUME TypeInv, [Next]_vars PROVE TypeInv'
  OBVIOUS
<1>2. CASE Next
  <2>1. ASSUME NEW r \in Request, Arrive(r) PROVE TypeInv'
    BY <1>1, <2>1, ArriveType
  <2>2. ASSUME NEW r \in Request, Lookup(r) PROVE TypeInv'
    BY <1>1, <2>2, LookupPayloadType, PollPayloadType, GetNegType DEF Lookup
  <2>3. ASSUME NEW t \in Task, Step(t) PROVE TypeInv'
    BY <1>1, <2>3, GetMapType, SetNxType, UnlockType, CrawlType, SetNegType,
       WriteAttemptType, SetPayloadType, SetMapType, SetFinalType, SetShortType,
       WriteCrawlType DEF Step
  <2>. QED
    BY <1>1, <1>2, <2>1, <2>2, <2>3, TickType, CrashType DEF Next
<1>3. CASE UNCHANGED vars
  BY <1>1, <1>3
     DEF vars, redis, local, ghost, TypeInv, TypeOK, SharedOK, ChainOK, PlaceOK, AnswerOK,
         ObservedOK, Placed, RefreshAfterRequest
<1>. QED
  BY <1>1, <1>2, <1>3

\* Every variable keeps its type: in particular og:map holds payload keys and every entry
\* of a cache names the crawl it is a copy of.
THEOREM TypeCorrect == Spec => []TypeOK
<1>1. TypeInv => TypeOK
  BY DEF TypeInv
<1>. QED
  BY <1>1, TypeInit, TypeStep, PTL DEF Spec

----------------------------------------------------------------------------
(* The lock. *)

\* Every step but SET NX, DEL and the clock leaves the locks, the URL of a holder and the
\* start of its lease alone, and lets at most one command fail.
HoldersStay ==
  /\ UNCHANGED <<now, lock, lapsed>>
  /\ faults' \in {faults, faults + 1}
  /\ \A t \in Task :
       /\ held'[t] => /\ held[t] /\ pc'[t] \in Crawling
                      /\ since'[t] = since[t] /\ url'[t] = url[t]
       /\ pc'[t] = "unlock" => held'[t]

LEMMA HolderNumbers ==
  ASSUME TypeInv, LockInv, NEW n \in Norm
  PROVE  /\ IsFiniteSet(Holders(n)) /\ Cardinality(Holders(n)) \in Nat
         /\ lapsed[n] \in Nat /\ faults \in Nat /\ lock[n] \in Nat
         /\ Cardinality(Holders(n)) <= (IF lock[n] # 0 THEN 1 ELSE 0) + lapsed[n] + faults
BY FS_CardinalityType
   DEF TypeInv, TypeOK, SharedOK, ObservedOK, LockInv, HoldersCounted

LEMMA FewerHolders ==
  ASSUME TypeInv, LockInv, NEW n \in Norm, Holders(n)' \subseteq Holders(n)
  PROVE  /\ IsFiniteSet(Holders(n)') /\ Cardinality(Holders(n)') \in Nat
         /\ Cardinality(Holders(n)') <= Cardinality(Holders(n))
BY HolderNumbers, FS_Subset, FS_CardinalityType

LEMMA LockKept == ASSUME TypeInv, LockInv, HoldersStay PROVE LockInv'
<1>1. HeldWhileCrawling'
  BY DEF HeldWhileCrawling, HoldersStay
<1>2. ASSUME NEW n \in Norm
      PROVE  /\ IsFiniteSet(Holders(n)')
             /\ Cardinality(Holders(n)') <= (IF lock'[n] # 0 THEN 1 ELSE 0) + lapsed'[n] + faults'
  <2>1. Holders(n)' \subseteq Holders(n)
    BY DEF Holders, HoldersStay
  <2>2. /\ IsFiniteSet(Holders(n)') /\ Cardinality(Holders(n)') \in Nat
        /\ Cardinality(Holders(n)') <= Cardinality(Holders(n))
    BY <2>1, FewerHolders
  <2>3. lock'[n] = lock[n] /\ lapsed'[n] = lapsed[n] /\ faults' \in {faults, faults + 1}
    BY DEF HoldersStay
  <2>. QED
    BY <2>2, <2>3, HolderNumbers
<1>3. HoldersCounted'
  BY <1>2 DEF HoldersCounted
<1>. QED
  BY <1>1, <1>3 DEF LockInv

LEMMA ArriveStays ==
  ASSUME NEW r \in Request, TypeInv, HeldWhileCrawling, Arrive(r) PROVE HoldersStay
<1>. DEFINE t == Fg(r)
<1>1. t \in Task /\ pc[t] = "idle" /\ ~held[t] /\ UNCHANGED <<now, lock, lapsed, faults>>
      /\ faults \in Nat
  BY TaskFacts
     DEF Arrive, HeldWhileCrawling, Crawling, redis, TypeInv, TypeOK, ObservedOK
<1>2. \A u \in Task \ {t} : /\ pc'[u] = pc[u] /\ held'[u] = held[u]
                             /\ since'[u] = since[u] /\ url'[u] = url[u]
  BY <1>1 DEF Arrive, BeginCrawl, Return, Forget, Goto, TypeInv, TypeOK, ChainOK, PlaceOK
<1>3. ~held'[t] /\ pc'[t] # "unlock"
  BY <1>1
     DEF Arrive, BeginCrawl, Return, Forget, Goto, FirstRead, TypeInv, TypeOK, ChainOK
<1>. QED
  BY <1>1, <1>2, <1>3 DEF HoldersStay, HeldWhileCrawling

LEMMA LookupStays ==
  ASSUME NEW r \in Request, TypeInv, HeldWhileCrawling, Lookup(r) PROVE HoldersStay
<1>. DEFINE t == Fg(r)
<1>1. /\ t \in Task /\ Bg(r) \in Task /\ t # Bg(r)
      /\ pc[t] \in {"getPayload", "getNeg"} /\ pc[Bg(r)] = "idle"
      /\ ~held[t] /\ ~held[Bg(r)]
  BY TaskFacts
     DEF Lookup, LookupPayload, PollPayload, GetNeg, HeldWhileCrawling, Crawling, TypeInv,
         RefreshAfterRequest
<1>2. UNCHANGED <<now, lock, lapsed>> /\ faults' \in {faults, faults + 1}
  BY CommandType
     DEF Lookup, LookupPayload, PollPayload, GetNeg, redis, ghost, TypeInv, TypeOK, ObservedOK
<1>3. \A u \in Task \ {t, Bg(r)} : /\ pc'[u] = pc[u] /\ held'[u] = held[u]
                                    /\ since'[u] = since[u] /\ url'[u] = url[u]
  <2>1. CASE LookupPayload(r)
    BY <1>1, <2>1
       DEF LookupPayload, Return, Forget, Goto, TypeInv, TypeOK, ChainOK, PlaceOK
  <2>2. CASE PollPayload(r)
    BY <1>1, <2>2 DEF PollPayload, Return, Forget, Goto, TypeInv, TypeOK, ChainOK
  <2>3. CASE GetNeg(r)
    BY <1>1, <2>3
       DEF GetNeg, GiveUp, BeginCrawl, Return, Forget, Goto, TypeInv, TypeOK, ChainOK
  <2>. QED
    BY <2>1, <2>2, <2>3 DEF Lookup
<1>4. ~held'[t] /\ pc'[t] # "unlock" /\ ~held'[Bg(r)] /\ pc'[Bg(r)] # "unlock"
  <2>1. CASE LookupPayload(r)
    BY <1>1, <2>1 DEF LookupPayload, Return, Forget, Goto, TypeInv, TypeOK, ChainOK
  <2>2. CASE PollPayload(r)
    BY <1>1, <2>2 DEF PollPayload, Return, Forget, Goto, TypeInv, TypeOK, ChainOK
  <2>3. CASE GetNeg(r)
    BY <1>1, <2>3
       DEF GetNeg, GiveUp, BeginCrawl, Return, Forget, Goto, TypeInv, TypeOK, ChainOK
  <2>. QED
    BY <2>1, <2>2, <2>3 DEF Lookup
<1>. QED
  BY <1>1, <1>2, <1>3, <1>4 DEF HoldersStay, HeldWhileCrawling

\* The steps of a task that are no command on a lock.
Quiet(t) ==
  \/ GetMap(t) \/ Crawl(t) \/ SetNeg(t) \/ WriteAttempt(t) \/ SetPayload(t)
  \/ SetMap(t) \/ SetFinal(t) \/ SetShort(t) \/ WriteCrawl(t)

LEMMA QuietStays ==
  ASSUME NEW t \in Task, TypeInv, HeldWhileCrawling, Quiet(t) PROVE HoldersStay
<1>1. UNCHANGED <<now, lock, lapsed, url>> /\ faults' \in {faults, faults + 1}
  <2>1. CASE GetMap(t)
    BY <2>1, CommandType DEF GetMap, TypeInv, TypeOK, ObservedOK, redis, local, ghost
  <2>2. CASE SetNeg(t)
    BY <2>2, CommandType DEF SetNeg, TypeInv, TypeOK, ObservedOK, redis, local, ghost
  <2>3. CASE Crawl(t)
    BY <2>3, CommandType DEF Crawl, TypeInv, TypeOK, ObservedOK, redis, local, ghost
  <2>4. CASE WriteAttempt(t)
    BY <2>4, CommandType DEF WriteAttempt, TypeInv, TypeOK, ObservedOK, redis, local, ghost
  <2>5. CASE SetPayload(t)
    BY <2>5, CommandType DEF SetPayload, TypeInv, TypeOK, ObservedOK, redis, local, ghost
  <2>6. CASE SetMap(t)
    BY <2>6, CommandType DEF SetMap, TypeInv, TypeOK, ObservedOK, redis, local, ghost
  <2>7. CASE SetFinal(t)
    BY <2>7, CommandType DEF SetFinal, TypeInv, TypeOK, ObservedOK, redis, local, ghost
  <2>8. CASE SetShort(t)
    BY <2>8, CommandType DEF SetShort, TypeInv, TypeOK, ObservedOK, redis, local, ghost
  <2>9. CASE WriteCrawl(t)
    BY <2>9, CommandType DEF WriteCrawl, TypeInv, TypeOK, ObservedOK, redis, local, ghost
  <2>. QED
    BY <2>1, <2>2, <2>3, <2>4, <2>5, <2>6, <2>7, <2>8, <2>9 DEF Quiet
<1>2. /\ pc[t] # "unlock"
      /\ \A u \in Task \ {t} : /\ pc'[u] = pc[u] /\ held'[u] = held[u]
                              /\ since'[u] = since[u]
  <2>1. CASE GetMap(t)
    BY <2>1
       DEF GetMap, AfterStore, Return, Forget, Goto, TypeInv, TypeOK, ChainOK, local
  <2>2. CASE SetNeg(t)
    BY <2>2
       DEF SetNeg, AfterStore, Return, Forget, Goto, TypeInv, TypeOK, ChainOK, local
  <2>3. CASE Crawl(t)
    BY <2>3
       DEF Crawl, AfterStore, Return, Forget, Goto, TypeInv, TypeOK, ChainOK, local
  <2>4. CASE WriteAttempt(t)
    BY <2>4
       DEF WriteAttempt, AfterStore, Return, Forget, Goto, TypeInv, TypeOK, ChainOK, local
  <2>5. CASE SetPayload(t)
    BY <2>5
       DEF SetPayload, AfterStore, Return, Forget, Goto, TypeInv, TypeOK, ChainOK, local
  <2>6. CASE SetMap(t)
    BY <2>6
       DEF SetMap, AfterStore, Return, Forget, Goto, TypeInv, TypeOK, ChainOK, local
  <2>7. CASE SetFinal(t)
    BY <2>7
       DEF SetFinal, AfterStore, Return, Forget, Goto, TypeInv, TypeOK, ChainOK, local
  <2>8. CASE SetShort(t)
    BY <2>8
       DEF SetShort, AfterStore, Return, Forget, Goto, TypeInv, TypeOK, ChainOK, local
  <2>9. CASE WriteCrawl(t)
    BY <2>9
       DEF WriteCrawl, AfterStore, Return, Forget, Goto, TypeInv, TypeOK, ChainOK, local
  <2>. QED
    BY <2>1, <2>2, <2>3, <2>4, <2>5, <2>6, <2>7, <2>8, <2>9 DEF Quiet
<1>3. /\ held'[t] => held[t] /\ pc'[t] \in Crawling /\ since'[t] = since[t]
      /\ pc'[t] = "unlock" => held'[t]
  <2>1. CASE GetMap(t)
    BY <2>1
       DEF GetMap, AfterStore, AfterCrawl, Return, Forget, Goto, TypeInv, TypeOK, ChainOK,
           HeldWhileCrawling, Crawling, local
  <2>2. CASE SetNeg(t)
    BY <2>2
       DEF SetNeg, AfterStore, AfterCrawl, Return, Forget, Goto, TypeInv, TypeOK, ChainOK,
           HeldWhileCrawling, Crawling, local
  <2>3. CASE Crawl(t)
    BY <2>3
       DEF Crawl, AfterStore, AfterCrawl, Return, Forget, Goto, TypeInv, TypeOK, ChainOK,
           HeldWhileCrawling, Crawling, local
  <2>4. CASE WriteAttempt(t)
    BY <2>4
       DEF WriteAttempt, AfterStore, AfterCrawl, Return, Forget, Goto, TypeInv, TypeOK, ChainOK,
           HeldWhileCrawling, Crawling, local
  <2>5. CASE SetPayload(t)
    BY <2>5
       DEF SetPayload, AfterStore, AfterCrawl, Return, Forget, Goto, TypeInv, TypeOK, ChainOK,
           HeldWhileCrawling, Crawling, local
  <2>6. CASE SetMap(t)
    BY <2>6
       DEF SetMap, AfterStore, AfterCrawl, Return, Forget, Goto, TypeInv, TypeOK, ChainOK,
           HeldWhileCrawling, Crawling, local
  <2>7. CASE SetFinal(t)
    BY <2>7
       DEF SetFinal, AfterStore, AfterCrawl, Return, Forget, Goto, TypeInv, TypeOK, ChainOK,
           HeldWhileCrawling, Crawling, local
  <2>8. CASE SetShort(t)
    BY <2>8
       DEF SetShort, AfterStore, AfterCrawl, Return, Forget, Goto, TypeInv, TypeOK, ChainOK,
           HeldWhileCrawling, Crawling, local
  <2>9. CASE WriteCrawl(t)
    BY <2>9
       DEF WriteCrawl, AfterStore, AfterCrawl, Return, Forget, Goto, TypeInv, TypeOK, ChainOK,
           HeldWhileCrawling, Crawling, local
  <2>. QED
    BY <2>1, <2>2, <2>3, <2>4, <2>5, <2>6, <2>7, <2>8, <2>9 DEF Quiet
<1>. QED
  BY <1>1, <1>2, <1>3 DEF HoldersStay, HeldWhileCrawling

LEMMA CrashStays ==
  ASSUME NEW nd \in Node, TypeInv, HeldWhileCrawling, Crash(nd) PROVE HoldersStay
<1>1. UNCHANGED <<now, lock, lapsed, url, faults>> /\ faults \in Nat
  BY DEF Crash, redis, ghost, TypeInv, TypeOK, ObservedOK
<1>2. \A t \in Task :
        /\ held'[t] => held[t] /\ pc'[t] = pc[t] /\ since'[t] = since[t]
        /\ pc'[t] = "unlock" => pc[t] = "unlock" /\ (held[t] => held'[t])
  <2>. DEFINE dead == {t \in Task : node[t] = nd /\ pc[t] \notin {"idle", "done", "dead"}}
  <2>1. TAKE t \in Task
  <2>2. /\ pc'[t] = IF t \in dead THEN "dead" ELSE pc[t]
        /\ since'[t] = IF t \in dead THEN 0 ELSE since[t]
        /\ held'[t] = (held[t] /\ t \notin dead)
    BY DEF Crash
  <2>. HIDE DEF dead
  <2>3. CASE t \in dead
    BY <2>2, <2>3
  <2>4. CASE t \notin dead
    BY <2>2, <2>4
  <2>. QED
    BY <2>3, <2>4
<1>. QED
  BY <1>1, <1>2 DEF HoldersStay, HeldWhileCrawling

\* SET NX lets in one holder: for the lock it sets, or for the command that failed.
LEMMA SetNxLock ==
  ASSUME NEW t \in Task, TypeInv, LockInv, SetNx(t) PROVE LockInv'
<1>1. /\ pc[t] = "setNx" /\ ~held[t] /\ url[t] \in Norm /\ UNCHANGED <<url, lapsed>>
      /\ now + LockTtl # 0
  BY Constants
     DEF SetNx, LockInv, HeldWhileCrawling, Crawling, TypeInv, TypeOK, SharedOK, Placed, ghost
<1>2. \A u \in Task \ {t} : pc'[u] = pc[u] /\ held'[u] = held[u]
  BY DEF SetNx, BeginCrawl, Return, Forget, Goto, TypeInv, TypeOK, ChainOK
<1>3. (held'[t] => pc'[t] = "crawl") /\ pc'[t] # "unlock"
  BY <1>1 DEF SetNx, BeginCrawl, Return, Forget, Goto, TypeInv, TypeOK, ChainOK
<1>4. HeldWhileCrawling'
  BY <1>2, <1>3 DEF LockInv, HeldWhileCrawling, Crawling
<1>5. PICK ok \in BOOLEAN, applied \in BOOLEAN :
        /\ Command(ok, applied)
        /\ lock' = IF applied /\ LockFree(t) THEN [lock EXCEPT ![url[t]] = now + LockTtl] ELSE lock
        /\ \/ ok => LockFree(t)
           \/ ok /\ ~LockFree(t) /\ ~held'[t]
  BY <1>1 DEF SetNx, Return, Forget, TypeInv, TypeOK, ChainOK
<1>6. /\ faults' \in {faults, faults + 1} /\ (faults' = faults => ok /\ applied)
      /\ faults \in Nat
  BY <1>5, CommandType DEF TypeInv, TypeOK, ObservedOK
<1>7. ASSUME NEW n \in Norm
      PROVE  /\ IsFiniteSet(Holders(n)')
             /\ Cardinality(Holders(n)') <= (IF lock'[n] # 0 THEN 1 ELSE 0) + lapsed'[n] + faults'
  <2>. DEFINE H == Holders(n)
  <2>1. /\ IsFiniteSet(H) /\ Cardinality(H) \in Nat /\ lapsed[n] \in Nat
        /\ lock[n] \in Nat
        /\ Cardinality(H) <= (IF lock[n] # 0 THEN 1 ELSE 0) + lapsed[n] + faults
    BY HolderNumbers
  <2>2. lock'[n] # 0 \/ lock'[n] = lock[n]
    BY <1>1, <1>5 DEF TypeInv, TypeOK, SharedOK
  <2>3. CASE n # url[t] \/ (ok /\ ~LockFree(t) /\ ~held'[t])
    <3>1. Holders(n)' = H
      BY <1>1, <1>2, <2>3 DEF Holders
    <3>2. lock'[n] = lock[n]
      BY <1>5, <2>3 DEF TypeInv, TypeOK, SharedOK
    <3>. QED
      BY <1>1, <1>6, <2>1, <3>1, <3>2
  <2>4. CASE n = url[t] /\ ~(ok /\ ~LockFree(t) /\ ~held'[t])
    <3>1. Holders(n)' \subseteq H \cup {t} /\ t \notin H
      BY <1>1, <1>2, <2>4 DEF Holders
    <3>2. IsFiniteSet(H \cup {t}) /\ Cardinality(H \cup {t}) = Cardinality(H) + 1
      BY <2>1, <3>1, FS_AddElement
    <3>3. /\ IsFiniteSet(Holders(n)') /\ Cardinality(Holders(n)') \in Nat
          /\ Cardinality(Holders(n)') <= Cardinality(H) + 1
      BY <3>1, <3>2, FS_Subset, FS_CardinalityType
    <3>4. faults' = faults + 1 \/ (lock[n] = 0 /\ lock'[n] # 0)
      <4>1. CASE faults' = faults
        <5>1. ok /\ applied
          BY <1>6, <4>1
        <5>2. LockFree(t)
          BY <1>5, <2>4, <5>1
        <5>. QED
          BY <1>1, <1>5, <2>4, <5>1, <5>2 DEF LockFree, TypeInv, TypeOK, SharedOK
      <4>. QED
        BY <1>6, <4>1
    <3>. QED
      BY <1>1, <1>6, <2>1, <2>2, <3>3, <3>4
  <2>. QED
    BY <2>3, <2>4
<1>8. HoldersCounted'
  BY <1>7 DEF HoldersCounted
<1>. QED
  BY <1>4, <1>8 DEF LockInv

\* Whosever lock DEL deletes, one holder leaves with it.
LEMMA UnlockLock ==
  ASSUME NEW t \in Task, TypeInv, LockInv, Unlock(t) PROVE LockInv'
<1>1. /\ pc[t] = "unlock" /\ held[t] /\ url[t] \in Norm /\ UNCHANGED <<url, lapsed>>
      /\ ~held'[t] /\ pc'[t] = "done"
  BY DEF Unlock, LockInv, HeldWhileCrawling, Return, Forget, TypeInv, TypeOK, ChainOK, Placed,
         ghost
<1>2. \A u \in Task \ {t} : pc'[u] = pc[u] /\ held'[u] = held[u]
  BY DEF Unlock, Return, Forget, TypeInv, TypeOK, ChainOK
<1>3. HeldWhileCrawling'
  BY <1>1, <1>2 DEF LockInv, HeldWhileCrawling
<1>4. faults' \in {faults, faults + 1} /\ faults \in Nat
  BY CommandType DEF Unlock, TypeInv, TypeOK, ObservedOK
<1>5. ASSUME NEW n \in Norm
      PROVE  /\ IsFiniteSet(Holders(n)')
             /\ Cardinality(Holders(n)') <= (IF lock'[n] # 0 THEN 1 ELSE 0) + lapsed'[n] + faults'
  <2>. DEFINE H == Holders(n)
  <2>1. /\ IsFiniteSet(H) /\ Cardinality(H) \in Nat /\ lapsed[n] \in Nat
        /\ Cardinality(H) <= (IF lock[n] # 0 THEN 1 ELSE 0) + lapsed[n] + faults
    BY HolderNumbers
  <2>2. CASE n # url[t]
    <3>1. Holders(n)' = H
      BY <1>1, <1>2, <2>2 DEF Holders
    <3>2. lock'[n] = lock[n]
      BY <2>2 DEF Unlock, Released, TypeInv, TypeOK, SharedOK
    <3>. QED
      BY <1>1, <1>4, <2>1, <3>1, <3>2
  <2>3. CASE n = url[t]
    <3>1. Holders(n)' = H \ {t} /\ t \in H
      BY <1>1, <1>2, <2>3 DEF Holders
    <3>2. IsFiniteSet(Holders(n)') /\ Cardinality(Holders(n)') = Cardinality(H) - 1
      BY <2>1, <3>1, FS_RemoveElement
    <3>. QED
      BY <1>1, <1>4, <2>1, <3>2
  <2>. QED
    BY <2>2, <2>3
<1>6. HoldersCounted'
  BY <1>5 DEF HoldersCounted
<1>. QED
  BY <1>3, <1>6 DEF LockInv

\* A lock that expires leaves its holders without one, and the lapse is counted.
LEMMA TickLock ==
  ASSUME TypeInv, LockInv, Tick PROVE LockInv'
<1>1. UNCHANGED <<pc, held, url, faults>>
  BY DEF Tick, local
<1>2. HeldWhileCrawling'
  BY <1>1 DEF LockInv, HeldWhileCrawling
<1>3. ASSUME NEW n \in Norm
      PROVE  /\ IsFiniteSet(Holders(n)')
             /\ Cardinality(Holders(n)') <= (IF lock'[n] # 0 THEN 1 ELSE 0) + lapsed'[n] + faults'
  <2>1. Holders(n)' = Holders(n)
    BY <1>1 DEF Holders
  <2>2. lock'[n] \in {lock[n], 0}
    BY DEF Tick
  <2>3. lapsed'[n] = IF lock[n] # 0 /\ lock'[n] = 0 /\ Holders(n) # {}
                       THEN lapsed[n] + 1 ELSE lapsed[n]
    BY DEF Tick
  <2>4. Holders(n) = {} => Cardinality(Holders(n)) = 0
    BY FS_EmptySet
  <2>. QED
    BY <1>1, <2>1, <2>2, <2>3, <2>4, HolderNumbers
<1>4. HoldersCounted'
  BY <1>3 DEF HoldersCounted
<1>. QED
  BY <1>2, <1>4 DEF LockInv

LEMMA LockInit == Init => LockInv
<1>1. SUFFICES ASSUME Init PROVE LockInv
  OBVIOUS
<1>2. \A n \in Norm : Holders(n) = {}
  BY <1>1 DEF Init, Holders
<1>3. \A n \in Norm : IsFiniteSet(Holders(n)) /\ Cardinality(Holders(n)) = 0
  BY <1>2, FS_EmptySet
<1>. QED
  BY <1>1, <1>3 DEF Init, LockInv, HeldWhileCrawling, HoldersCounted

LEMMA LockStep == TypeInv /\ LockInv /\ [Next]_vars => LockInv'
<1>1. SUFFICES ASSUME TypeInv, LockInv, [Next]_vars PROVE LockInv'
  OBVIOUS
<1>2. HeldWhileCrawling
  BY <1>1 DEF LockInv
<1>3. CASE Next
  <2>1. ASSUME NEW r \in Request, Arrive(r) \/ Lookup(r) PROVE LockInv'
    BY <1>1, <1>2, <2>1, ArriveStays, LookupStays, LockKept
  <2>2. ASSUME NEW t \in Task, Step(t) PROVE LockInv'
    <3>1. Quiet(t) \/ SetNx(t) \/ Unlock(t)
      BY <2>2 DEF Step, Quiet
    <3>. QED
      BY <1>1, <1>2, <3>1, QuietStays, LockKept, SetNxLock, UnlockLock
  <2>3. ASSUME NEW nd \in Node, Crash(nd) PROVE LockInv'
    BY <1>1, <1>2, <2>3, CrashStays, LockKept
  <2>. QED
    BY <1>1, <1>3, <2>1, <2>2, <2>3, TickLock DEF Next
<1>4. CASE UNCHANGED vars
  <2>1. HoldersStay
    BY <1>2, <1>4 DEF vars, redis, local, ghost, HoldersStay, HeldWhileCrawling
  <2>. QED
    BY <1>1, <2>1, LockKept
<1>. QED
  BY <1>1, <1>3, <1>4

\* However long crawls run and whatever fails or dies, who holds the lock of a URL beside
\* another holder owes it to a failed command or to a lock that lapsed under its holder.
THEOREM LockOwes == Spec => []HoldersOwed
<1>1. Init => TypeInv /\ LockInv
  BY TypeInit, LockInit
<1>2. TypeInv /\ LockInv /\ [Next]_vars => (TypeInv /\ LockInv)'
  BY TypeStep, LockStep
<1>3. TypeInv /\ LockInv => HoldersOwed
  BY HolderNumbers DEF HoldersOwed
<1>. QED
  BY <1>1, <1>2, <1>3, PTL DEF Spec

----------------------------------------------------------------------------
(* Refinement: the lock implements the abstract mutex that leaks. *)

HolderMap == [n \in Norm |-> Holders(n)]
LeakMap == [n \in Norm |-> lapsed[n] + faults]

\* The abstract module counts as this one does.
LEMMA SameCardinality == \A S : Mutex!Cardinality(S) = Cardinality(S)
BY DEF Mutex!Cardinality, Cardinality

\* In one step a command fails or locks lapse, not both.
LEMMA LeaksStep ==
  ASSUME TypeInv, HeldWhileCrawling, [Next]_vars
  PROVE  \E L \in SUBSET Norm :
           LeakMap' = [n \in Norm |-> IF n \in L THEN LeakMap[n] + 1 ELSE LeakMap[n]]
<1>1. faults \in Nat /\ lapsed \in [Norm -> Nat]
  BY DEF TypeInv, TypeOK, ObservedOK
<1>2. ASSUME UNCHANGED lapsed, faults' \in {faults, faults + 1}
      PROVE  \E L \in SUBSET Norm :
               LeakMap' = [n \in Norm |-> IF n \in L THEN LeakMap[n] + 1 ELSE LeakMap[n]]
  <2>1. CASE faults' = faults
    <3>. DEFINE L == {}
    <3>1. LeakMap' = [n \in Norm |-> IF n \in L THEN LeakMap[n] + 1 ELSE LeakMap[n]]
      BY <1>2, <2>1 DEF LeakMap
    <3>2. L \in SUBSET Norm
      OBVIOUS
    <3>. HIDE DEF L
    <3>. QED
      BY <3>1, <3>2
  <2>2. CASE faults' = faults + 1
    <3>1. \A n \in Norm : lapsed[n] + (faults + 1) = (lapsed[n] + faults) + 1
      BY <1>1
    <3>2. LeakMap' = [n \in Norm |-> IF n \in Norm THEN LeakMap[n] + 1 ELSE LeakMap[n]]
      BY <1>2, <2>2, <3>1 DEF LeakMap
    <3>. QED
      BY <3>2
  <2>. QED
    BY <1>2, <2>1, <2>2
<1>3. CASE Tick
  <2>. DEFINE L == {n \in Norm : lock[n] # 0 /\ lock'[n] = 0 /\ Holders(n) # {}}
  <2>1. /\ lapsed' = [n \in Norm |-> IF n \in L THEN lapsed[n] + 1 ELSE lapsed[n]]
        /\ faults' = faults
    BY <1>3 DEF Tick
  <2>. HIDE DEF L
  <2>2. \A n \in Norm : (lapsed[n] + 1) + faults = (lapsed[n] + faults) + 1
    BY <1>1
  <2>3. LeakMap' = [n \in Norm |-> IF n \in L THEN LeakMap[n] + 1 ELSE LeakMap[n]]
    BY <2>1, <2>2 DEF LeakMap
  <2>4. L \in SUBSET Norm
    BY DEF L
  <2>. QED
    BY <2>3, <2>4
<1>4. ASSUME NEW r \in Request, Arrive(r) \/ Lookup(r)
      PROVE  UNCHANGED lapsed /\ faults' \in {faults, faults + 1}
  BY <1>4, ArriveStays, LookupStays DEF HoldersStay
<1>5. ASSUME NEW t \in Task, Step(t) PROVE UNCHANGED lapsed /\ faults' \in {faults, faults + 1}
  <2>1. CASE Quiet(t)
    BY <2>1, QuietStays DEF HoldersStay
  <2>2. CASE SetNx(t) \/ Unlock(t)
    BY <1>1, <2>2, CommandType DEF SetNx, Unlock, ghost
  <2>. QED
    BY <1>5, <2>1, <2>2 DEF Step, Quiet
<1>6. ASSUME NEW nd \in Node, Crash(nd) PROVE UNCHANGED lapsed /\ faults' \in {faults, faults + 1}
  BY <1>6, CrashStays DEF HoldersStay
<1>7. CASE UNCHANGED vars
  BY <1>2, <1>7 DEF vars, ghost
<1>. QED
  BY <1>2, <1>3, <1>4, <1>5, <1>6, <1>7 DEF Next

\* Holders only leave, and stay where they are.
LEMMA LeavingIsAMutexStep ==
  ASSUME \A u \in Task : held'[u] => held[u] /\ url'[u] = url[u]
  PROVE  \E S \in SUBSET Task : Mutex!Leave(S)
<1>. DEFINE S == {u \in Task : ~held'[u]}
<1>1. \A n \in Norm : Holders(n)' = Holders(n) \ S
  BY DEF Holders
<1>2. HolderMap' = [n \in Norm |-> HolderMap[n] \ S]
  BY <1>1 DEF HolderMap
<1>3. S \in SUBSET Task
  OBVIOUS
<1>. QED
  BY <1>2, <1>3 DEF Mutex!Leave, HolderMap

LEMMA SetNxIsAMutexStep ==
  ASSUME NEW t \in Task, TypeInv, LockInv, TypeInv', LockInv', SetNx(t)
  PROVE  \/ \E o \in Task, k \in Norm : Mutex!Acquire(o, k)
         \/ \E S \in SUBSET Task : Mutex!Leave(S)
<1>1. pc[t] = "setNx" /\ ~held[t] /\ url[t] \in Norm /\ UNCHANGED url
  BY DEF SetNx, LockInv, HeldWhileCrawling, Crawling, TypeInv, Placed
<1>2. \A u \in Task \ {t} : held'[u] = held[u]
  BY DEF SetNx, BeginCrawl, Return, Forget, TypeInv, TypeOK, ChainOK
<1>3. CASE held'[t]
  <2>1. PICK k \in Norm : k = url[t]
    BY <1>1
  <2>2. t \notin Holders(k) /\ Holders(k)' = Holders(k) \cup {t}
    BY <1>1, <1>2, <1>3, <2>1 DEF Holders
  <2>3. \A n \in Norm : n # k => Holders(n)' = Holders(n)
    BY <1>1, <1>2, <2>1 DEF Holders
  <2>4. HolderMap' = [HolderMap EXCEPT ![k] = @ \cup {t}]
    BY <2>2, <2>3 DEF HolderMap
  <2>5. IsFiniteSet(Holders(k)) /\ Cardinality(Holders(k)) \in Nat
    BY HolderNumbers
  <2>6. Cardinality(Holders(k)') = Cardinality(Holders(k)) + 1
    BY <2>2, <2>5, FS_AddElement
  <2>7. /\ Cardinality(Holders(k)') <= (IF lock'[k] # 0 THEN 1 ELSE 0) + lapsed'[k] + faults'
        /\ lapsed'[k] \in Nat /\ faults' \in Nat
    BY DEF LockInv, HoldersCounted, TypeInv, TypeOK, ObservedOK
  <2>8. Cardinality(HolderMap[k]) <= LeakMap'[k]
    BY <2>5, <2>6, <2>7 DEF HolderMap, LeakMap
  <2>9. t \notin HolderMap[k]
    BY <2>2 DEF HolderMap
  <2>10. Mutex!Acquire(t, k)
    BY <2>4, <2>8, <2>9, SameCardinality DEF Mutex!Acquire, HolderMap, LeakMap
  <2>. QED
    BY <2>10
<1>4. CASE ~held'[t]
  BY <1>1, <1>2, <1>4, LeavingIsAMutexStep
<1>. QED
  BY <1>3, <1>4

LEMMA MutexStep ==
  ASSUME TypeInv, LockInv, TypeInv', LockInv', [Next]_vars
  PROVE  Mutex!Next
<1>. DEFINE Moves == \/ \E o \in Task, k \in Norm : Mutex!Acquire(o, k)
                     \/ \E S \in SUBSET Task : Mutex!Leave(S)
<1>1. HeldWhileCrawling
  BY DEF LockInv
<1>2. HoldersStay => Moves
  BY LeavingIsAMutexStep DEF HoldersStay
<1>3. ASSUME NEW r \in Request, Arrive(r) \/ Lookup(r) PROVE Moves
  BY <1>1, <1>2, <1>3, ArriveStays, LookupStays
<1>4. ASSUME NEW t \in Task, Step(t) PROVE Moves
  <2>1. CASE Quiet(t)
    BY <1>1, <1>2, <2>1, QuietStays
  <2>2. CASE SetNx(t)
    BY <2>2, SetNxIsAMutexStep
  <2>3. CASE Unlock(t)
    <3>1. \A u \in Task : held'[u] => held[u] /\ url'[u] = url[u]
      BY <2>3 DEF Unlock, Return, Forget, TypeInv, TypeOK, ChainOK
    <3>. QED
      BY <3>1, LeavingIsAMutexStep
  <2>. QED
    BY <1>4, <2>1, <2>2, <2>3 DEF Step, Quiet
<1>5. ASSUME NEW nd \in Node, Crash(nd) PROVE Moves
  BY <1>1, <1>2, <1>5, CrashStays
<1>6. ASSUME Tick \/ UNCHANGED vars PROVE Moves
  <2>1. \A u \in Task : held'[u] => held[u] /\ url'[u] = url[u]
    BY <1>6 DEF Tick, vars, local
  <2>. QED
    BY <2>1, LeavingIsAMutexStep
<1>7. Moves
  BY <1>3, <1>4, <1>5, <1>6 DEF Next
<1>8. \E L \in SUBSET Norm : Mutex!Leak(L)
  BY <1>1, LeaksStep DEF Mutex!Leak, LeakMap
<1>. QED
  BY <1>7, <1>8 DEF Mutex!Next

\* SET NX and DEL are a mutex for each URL that leaks once per lapse and per failed
\* command: no other step makes a task a holder, and none lets two in.
THEOREM LockImplementsLeakyMutex == Spec => LockIsALeakyMutex
<1>. DEFINE Inv == TypeInv /\ LockInv
<1>1. Init => Inv
  BY TypeInit, LockInit
<1>2. Inv /\ [Next]_vars => Inv'
  BY TypeStep, LockStep
<1>3. Init => Mutex!Init
  BY DEF Init, Mutex!Init, Holders
<1>4. Inv /\ Inv' /\ [Next]_vars => [Mutex!Next]_(Mutex!vars)
  BY MutexStep
<1>. QED
  BY <1>1, <1>2, <1>3, <1>4, PTL DEF Spec, LockIsALeakyMutex, Mutex!Spec

----------------------------------------------------------------------------
(* Rows: nothing is shown before it is logged. *)

Logged == Stored \ {"attempt"}

\* No row is written, and what becomes visible was visible or has its row.
RowsStay ==
  /\ faults' \in Nat /\ faults <= faults'
  /\ UNCHANGED attempts
  /\ \A t \in Task : /\ pc'[t] \in BeforeRow => pc[t] \in BeforeRow
                     /\ pc'[t] \in Logged => pc[t] \in Logged
  /\ Visible' \ {None} \subseteq Visible \cup {t \in Task : pc[t] \in Logged}

LEMMA RowsKept == ASSUME TypeInv, RowInv, RowsStay PROVE RowInv'
<1>1. faults' = 0 => faults = 0
  BY DEF RowsStay, TypeInv, TypeOK, ObservedOK
<1>2. \A t \in Task : pc'[t] \in BeforeRow => attempts'[t] = 0
  BY DEF RowInv, RowsStay
<1>3. faults' = 0 => \A t \in Task : pc'[t] \in Stored \ {"attempt"} => attempts'[t] = 1
  BY <1>1 DEF RowInv, RowsStay, Logged
<1>4. AttemptBeforeVisible'
  BY <1>1 DEF RowInv, RowsStay, AttemptBeforeVisible, Logged
<1>. QED
  BY <1>2, <1>3, <1>4 DEF RowInv

LEMMA ArriveRows == ASSUME NEW r \in Request, TypeInv, Arrive(r) PROVE RowsStay
<1>. DEFINE t == Fg(r)
<1>1. t \in Task /\ pc[t] = "idle"
  BY TaskFacts DEF Arrive
<1>2. \A u \in Task \ {t} : pc'[u] = pc[u]
  BY <1>1 DEF Arrive, BeginCrawl, Return, Goto, TypeInv, TypeOK, ChainOK
<1>3. pc'[t] \notin Logged
  BY <1>1
     DEF Arrive, BeginCrawl, Return, Goto, FirstRead, TypeInv, TypeOK, ChainOK, Logged,
         Stored
<1>4. Visible' = Visible /\ UNCHANGED <<attempts, faults>> /\ faults \in Nat
  BY DEF Arrive, Visible, redis, TypeInv, TypeOK, ObservedOK
<1>. QED
  BY <1>1, <1>2, <1>3, <1>4 DEF RowsStay, BeforeRow

LEMMA LookupRows == ASSUME NEW r \in Request, TypeInv, Lookup(r) PROVE RowsStay
<1>. DEFINE t == Fg(r)
<1>1. /\ t \in Task /\ Bg(r) \in Task /\ t # Bg(r)
      /\ pc[t] \in {"getPayload", "getNeg"} /\ pc[Bg(r)] = "idle"
  BY TaskFacts
     DEF Lookup, LookupPayload, PollPayload, GetNeg, TypeInv, RefreshAfterRequest
<1>2. UNCHANGED attempts /\ faults' \in Nat /\ faults <= faults'
  BY CommandType
     DEF Lookup, LookupPayload, PollPayload, GetNeg, TypeInv, TypeOK, ObservedOK
<1>3. /\ \A u \in Task \ {t, Bg(r)} : pc'[u] = pc[u]
      /\ pc'[t] \notin Logged /\ pc'[Bg(r)] \notin Logged
  <2>1. CASE LookupPayload(r)
    BY <1>1, <2>1
       DEF LookupPayload, Return, Goto, TypeInv, TypeOK, ChainOK, Logged, Stored
  <2>2. CASE PollPayload(r)
    BY <1>1, <2>2
       DEF PollPayload, Return, Goto, TypeInv, TypeOK, ChainOK, Logged, Stored
  <2>3. CASE GetNeg(r)
    BY <1>1, <2>3
       DEF GetNeg, GiveUp, BeginCrawl, Return, Goto, TypeInv, TypeOK, ChainOK, Logged, Stored
  <2>. QED
    BY <2>1, <2>2, <2>3 DEF Lookup
<1>4. Visible' \subseteq Visible
  <2>1. CASE LookupPayload(r)
    <3>1. pk[t] \in Pk /\ node[t] \in Node /\ url[t] \in Norm
      BY <1>1, <2>1 DEF LookupPayload, TypeInv, Placed
    <3>2. UNCHANGED <<payload, crawls>>
      BY <2>1 DEF LookupPayload, redis
    <3>3. \A nd \in Node, n \in Norm :
            l1'[nd][n].by \in {l1[nd][n].by, payload[pk[t]].by}
      BY <2>1, <3>1 DEF LookupPayload, TypeInv, TypeOK, SharedOK
    <3>. QED
      BY <3>1, <3>2, <3>3 DEF Visible
  <2>2. CASE PollPayload(r) \/ GetNeg(r)
    BY <2>2 DEF PollPayload, GetNeg, Visible, redis
  <2>. QED
    BY <2>1, <2>2 DEF Lookup
<1>. QED
  BY <1>1, <1>2, <1>3, <1>4 DEF RowsStay, BeforeRow

\* The steps of a task that show nothing.
Silent(t) == GetMap(t) \/ SetNx(t) \/ Unlock(t) \/ SetNeg(t) \/ SetMap(t) \/ SetShort(t)

LEMMA SilentRows == ASSUME NEW t \in Task, TypeInv, Silent(t) PROVE RowsStay
<1>1. UNCHANGED attempts /\ faults' \in Nat /\ faults <= faults' /\ Visible' = Visible
  <2>1. CASE GetMap(t)
    BY <2>1, CommandType DEF GetMap, TypeInv, TypeOK, ObservedOK, Visible, redis
  <2>2. CASE SetNx(t)
    BY <2>2, CommandType DEF SetNx, TypeInv, TypeOK, ObservedOK, Visible, redis
  <2>3. CASE Unlock(t)
    BY <2>3, CommandType DEF Unlock, TypeInv, TypeOK, ObservedOK, Visible, redis
  <2>4. CASE SetNeg(t)
    BY <2>4, CommandType DEF SetNeg, TypeInv, TypeOK, ObservedOK, Visible, redis
  <2>5. CASE SetMap(t)
    BY <2>5, CommandType DEF SetMap, TypeInv, TypeOK, ObservedOK, Visible, redis
  <2>6. CASE SetShort(t)
    BY <2>6, CommandType DEF SetShort, TypeInv, TypeOK, ObservedOK, Visible, redis
  <2>. QED
    BY <2>1, <2>2, <2>3, <2>4, <2>5, <2>6 DEF Silent
<1>2. /\ \A u \in Task \ {t} : pc'[u] = pc[u]
      /\ pc'[t] \in BeforeRow => pc[t] \in BeforeRow
      /\ pc'[t] \in Logged => pc[t] \in Logged
  <2>1. CASE GetMap(t)
    BY <2>1
       DEF GetMap, AfterStore, BeginCrawl, Return, Goto, TypeInv, TypeOK, ChainOK, BeforeRow,
           Logged, Stored
  <2>2. CASE SetNx(t)
    BY <2>2
       DEF SetNx, AfterStore, BeginCrawl, Return, Goto, TypeInv, TypeOK, ChainOK, BeforeRow,
           Logged, Stored
  <2>3. CASE Unlock(t)
    BY <2>3
       DEF Unlock, AfterStore, BeginCrawl, Return, Goto, TypeInv, TypeOK, ChainOK, BeforeRow,
           Logged, Stored
  <2>4. CASE SetNeg(t)
    BY <2>4
       DEF SetNeg, AfterStore, BeginCrawl, Return, Goto, TypeInv, TypeOK, ChainOK, BeforeRow,
           Logged, Stored
  <2>5. CASE SetMap(t)
    BY <2>5
       DEF SetMap, AfterStore, BeginCrawl, Return, Goto, TypeInv, TypeOK, ChainOK, BeforeRow,
           Logged, Stored
  <2>6. CASE SetShort(t)
    BY <2>6
       DEF SetShort, AfterStore, BeginCrawl, Return, Goto, TypeInv, TypeOK, ChainOK, BeforeRow,
           Logged, Stored
  <2>. QED
    BY <2>1, <2>2, <2>3, <2>4, <2>5, <2>6 DEF Silent
<1>. QED
  BY <1>1, <1>2 DEF RowsStay

\* The steps of a task that show its crawl, after its row.
Showing(t) == SetPayload(t) \/ SetFinal(t) \/ WriteCrawl(t)

LEMMA ShowingRows == ASSUME NEW t \in Task, TypeInv, Showing(t) PROVE RowsStay
<1>1. pc[t] \in Logged
  BY DEF Showing, SetPayload, SetFinal, WriteCrawl, Logged, Stored
<1>2. UNCHANGED attempts /\ faults' \in Nat /\ faults <= faults'
  BY CommandType
     DEF Showing, SetPayload, SetFinal, WriteCrawl, TypeInv, TypeOK, ObservedOK
<1>3. Visible' \subseteq Visible \cup {t}
  <2>1. CASE SetPayload(t)
    <3>1. \A p \in Pk : payload'[p].by \in {payload[p].by, t}
      BY <2>1 DEF SetPayload, TypeInv, TypeOK, SharedOK
    <3>. QED
      BY <2>1, <3>1 DEF SetPayload, Visible
  <2>2. CASE SetFinal(t)
    <3>1. \A nd \in Node, n \in Norm : l1'[nd][n].by \in {l1[nd][n].by, t}
      BY <2>2 DEF SetFinal, TypeInv, TypeOK, SharedOK
    <3>. QED
      BY <2>2, <3>1 DEF SetFinal, Visible
  <2>3. CASE WriteCrawl(t)
    BY <2>3 DEF WriteCrawl, Visible, redis
  <2>. QED
    BY <2>1, <2>2, <2>3 DEF Showing
<1>4. \A u \in Task : /\ pc'[u] \in BeforeRow => pc[u] \in BeforeRow
                      /\ pc'[u] \in Logged => pc[u] \in Logged
  <2>1. \A u \in Task \ {t} : pc'[u] = pc[u]
    BY DEF Showing, SetPayload, SetFinal, WriteCrawl, AfterStore, Return, Goto, TypeInv,
           TypeOK, ChainOK
  <2>2. pc'[t] \notin BeforeRow
    BY DEF Showing, SetPayload, SetFinal, WriteCrawl, AfterStore, Return, Goto, TypeInv,
           TypeOK, ChainOK, BeforeRow
  <2>. QED
    BY <1>1, <2>1, <2>2
<1>. QED
  BY <1>1, <1>2, <1>3, <1>4 DEF RowsStay

LEMMA EnvironmentRows ==
  ASSUME TypeInv, Tick \/ \E nd \in Node : Crash(nd) PROVE RowsStay
<1>1. UNCHANGED <<attempts, faults, crawls>> /\ faults \in Nat
  BY DEF Tick, Crash, TypeInv, TypeOK, ObservedOK
<1>2. \A t \in Task : /\ pc'[t] \in BeforeRow => pc[t] \in BeforeRow
                      /\ pc'[t] \in Logged => pc[t] \in Logged
  BY DEF Tick, Crash, BeforeRow, Logged, Stored
<1>3. \A p \in Pk : payload'[p].by \in {payload[p].by, None}
  BY DEF Tick, Crash, redis, NoEntry
<1>4. \A nd \in Node, n \in Norm : l1'[nd][n].by \in {l1[nd][n].by, None}
  BY SMTT(20) DEF Tick, Crash, NoEntry, TypeInv, TypeOK, SharedOK
<1>5. Visible' \ {None} \subseteq Visible
  BY <1>1, <1>3, <1>4 DEF Visible
<1>. QED
  BY <1>1, <1>2, <1>5 DEF RowsStay

LEMMA CrawlRows == ASSUME NEW t \in Task, TypeInv, RowInv, Crawl(t) PROVE RowInv'
<1>1. /\ pc[t] = "crawl" /\ attempts[t] = 0
      /\ \A u \in Task \ {t} : pc'[u] = pc[u] /\ attempts'[u] = attempts[u]
      /\ Visible' = Visible
      /\ faults' = 0 => faults = 0
  BY CommandType
     DEF Crawl, Goto, RowInv, BeforeRow, TypeInv, TypeOK, ChainOK, SharedOK, ObservedOK,
         Visible, redis
<1>2. \/ pc'[t] = "setNeg"
      \/ pc'[t] = "attempt" /\ attempts'[t] = 0
  <2>1. PICK x \in Results[url[t]] :
          /\ ~x.row => UNCHANGED attempts
          /\ Goto(t, AfterCrawl(x))
    BY DEF Crawl
  <2>2. Succeeded(x) => ~x.row
    BY Constants DEF Crawl, TypeInv, Placed, Result
  <2>. QED
    BY <1>1, <2>1, <2>2 DEF AfterCrawl, Goto, TypeInv, TypeOK, ChainOK
<1>3. \A u \in Task : pc'[u] \in BeforeRow => attempts'[u] = 0
  BY <1>1, <1>2 DEF RowInv, BeforeRow
<1>4. faults' = 0 => \A u \in Task : pc'[u] \in Stored \ {"attempt"} => attempts'[u] = 1
  BY <1>1, <1>2 DEF RowInv, Stored
<1>5. AttemptBeforeVisible'
  <2>1. SUFFICES ASSUME faults' = 0, NEW u \in Visible \ {None} PROVE attempts'[u] = 1
    BY <1>1 DEF AttemptBeforeVisible
  <2>2. attempts[u] = 1
    BY <1>1, <2>1 DEF RowInv, AttemptBeforeVisible
  <2>3. u \in Task
    BY DEF Visible, TypeInv, TypeOK, SharedOK, Entry, NoEntry
  <2>. QED
    BY <1>1, <2>2, <2>3
<1>. QED
  BY <1>3, <1>4, <1>5 DEF RowInv

LEMMA WriteAttemptRows ==
  ASSUME NEW t \in Task, TypeInv, RowInv, WriteAttempt(t) PROVE RowInv'
<1>1. /\ pc[t] = "attempt" /\ attempts[t] = 0 /\ pc'[t] = "setPayload"
      /\ \A u \in Task \ {t} : pc'[u] = pc[u] /\ attempts'[u] = attempts[u]
      /\ Visible' = Visible
  BY DEF WriteAttempt, Goto, RowInv, BeforeRow, TypeInv, TypeOK, ChainOK, SharedOK,
         Visible, redis
<1>2. faults' = 0 => faults = 0 /\ attempts'[t] = 1
  BY <1>1, CommandType DEF WriteAttempt, TypeInv, TypeOK, SharedOK, ObservedOK
<1>3. \A u \in Task : pc'[u] \in BeforeRow => attempts'[u] = 0
  BY <1>1 DEF RowInv, BeforeRow
<1>4. faults' = 0 => \A u \in Task : pc'[u] \in Stored \ {"attempt"} => attempts'[u] = 1
  BY <1>1, <1>2 DEF RowInv
<1>5. AttemptBeforeVisible'
  <2>1. SUFFICES ASSUME faults' = 0, NEW u \in Visible \ {None} PROVE attempts'[u] = 1
    BY <1>1 DEF AttemptBeforeVisible
  <2>2. attempts[u] = 1
    BY <1>2, <2>1 DEF RowInv, AttemptBeforeVisible
  <2>3. u \in Task
    BY DEF Visible, TypeInv, TypeOK, SharedOK, Entry, NoEntry
  <2>. QED
    BY <1>1, <2>2, <2>3
<1>. QED
  BY <1>3, <1>4, <1>5 DEF RowInv

LEMMA RowInit == Init => RowInv
<1>1. SUFFICES ASSUME Init PROVE RowInv
  OBVIOUS
<1>2. Visible \ {None} = {}
  BY <1>1 DEF Init, Visible, NoEntry
<1>. QED
  BY <1>1, <1>2 DEF Init, RowInv, AttemptBeforeVisible, Stored

LEMMA RowStep == TypeInv /\ RowInv /\ [Next]_vars => RowInv'
<1>1. SUFFICES ASSUME TypeInv, RowInv, [Next]_vars PROVE RowInv'
  OBVIOUS
<1>2. CASE Next
  <2>1. ASSUME NEW r \in Request, Arrive(r) \/ Lookup(r) PROVE RowInv'
    BY <1>1, <2>1, ArriveRows, LookupRows, RowsKept
  <2>2. ASSUME NEW t \in Task, Step(t) PROVE RowInv'
    <3>1. Silent(t) \/ Showing(t) \/ Crawl(t) \/ WriteAttempt(t)
      BY <2>2 DEF Step, Silent, Showing
    <3>. QED
      BY <1>1, <3>1, SilentRows, ShowingRows, RowsKept, CrawlRows, WriteAttemptRows
  <2>. QED
    BY <1>1, <1>2, <2>1, <2>2, EnvironmentRows, RowsKept DEF Next
<1>3. CASE UNCHANGED vars
  <2>1. Visible' = Visible /\ UNCHANGED <<pc, attempts, faults>>
    BY <1>3 DEF vars, redis, Visible
  <2>. QED
    BY <1>1, <2>1 DEF RowInv, AttemptBeforeVisible
<1>. QED
  BY <1>1, <1>2, <1>3

\* While Postgres answers, every crawl that a cache or crawls can show has exactly one
\* row in crawl_attempts.
THEOREM RowFirst == Spec => []AttemptBeforeVisible
<1>1. Init => TypeInv /\ RowInv
  BY TypeInit, RowInit
<1>2. TypeInv /\ RowInv /\ [Next]_vars => (TypeInv /\ RowInv)'
  BY TypeStep, RowStep
<1>3. RowInv => AttemptBeforeVisible
  BY DEF RowInv
<1>. QED
  BY <1>1, <1>2, <1>3, PTL DEF Spec

----------------------------------------------------------------------------
(* Frames: what the steps of one chain leave alone. *)

\* Where a task has no result of its own yet.
BeforeResult == {"idle", "getMap", "getPayload", "getNeg", "setNx", "crawl"}

Ended == {"idle", "done", "dead"}

\* A step of a running chain t: all others stay where they are.
StepFrame(t) ==
  /\ UNCHANGED <<url, node, refresh, past>>
  /\ pc[t] \notin Ended /\ pc'[t] # "idle"
  /\ pc'[t] \in BeforeResult => pc[t] \in BeforeResult
  /\ \A u \in Task \ {t} : /\ pc'[u] = pc[u] /\ pk'[u] = pk[u] /\ res'[u] = res[u]
                           /\ at'[u] = at[u] /\ since'[u] = since[u]
  /\ pc[t] # "crawl" => res' = res
  /\ pc[t] # "attempt" => at' = at
  /\ \A r \in Request :
       \/ answer'[r] = answer[r]
       \/ t = Fg(r) /\ pc[t] \in Crawling /\ answer'[r] = [kind |-> "miss", by |-> t]
  /\ \A r \in Request : t = Fg(r) /\ pc'[t] = "done" => answer'[r] = [kind |-> "miss", by |-> t]
  /\ t[2] = "bg" => answer' = answer
  /\ pc'[t] # "done" => answer' = answer

LEMMA ReturnAnswer ==
  ASSUME NEW t \in Task, NEW kind, NEW by, AnswerOK, Answer(t, kind, by)
  PROVE  /\ \A r \in Request : IF t = Fg(r) THEN answer'[r] = [kind |-> kind, by |-> by]
                                            ELSE answer'[r] = answer[r]
         /\ t[2] = "bg" => answer' = answer
BY DEF Answer, AnswerOK, Fg, Task

LEMMA StepHasFrame == ASSUME NEW t \in Task, TypeInv, Step(t) PROVE StepFrame(t)
<1>1. AnswerOK /\ pc \in [Task -> Label]
  BY DEF TypeInv, TypeOK, ChainOK
<1>2. CASE GetMap(t)
  <2>1. \/ pk' = [pk EXCEPT ![t] = MapValue(url[t])] /\ Goto(t, "getPayload")
        \/ Goto(t, "getNeg") /\ UNCHANGED pk
    BY <1>2 DEF GetMap
  <2>. QED
    BY <1>1, <1>2, <2>1
       DEF GetMap, StepFrame, Goto, TypeInv, TypeOK, ChainOK, Crawling, BeforeResult, Ended, ghost
<1>3. CASE SetNx(t)
  <2>1. /\ pc[t] = "setNx" /\ UNCHANGED <<url, node, refresh, past, res, at>>
        /\ \/ BeginCrawl(t, TRUE) /\ UNCHANGED <<pk, answer>>
           \/ Goto(t, "getMap") /\ UNCHANGED <<pk, since, answer>>
           \/ t[2] = "bg" /\ Return(t, "none", None)
    BY <1>3 DEF SetNx, ghost
  <2>2. CASE t[2] = "bg" /\ Return(t, "none", None)
    <3>1. answer' = answer /\ \A r \in Request : t # Fg(r)
      BY <2>2 DEF Return, Answer, Fg
    <3>. QED
      BY <1>1, <2>1, <2>2, <3>1
         DEF StepFrame, Return, Forget, TypeInv, TypeOK, ChainOK, BeforeResult, Ended
  <2>3. CASE t[2] # "bg" \/ ~Return(t, "none", None)
    BY <1>1, <2>1, <2>3
       DEF StepFrame, BeginCrawl, Goto, TypeInv, TypeOK, ChainOK, BeforeResult, Ended
  <2>. QED
    BY <2>2, <2>3
<1>4. CASE Unlock(t)
  BY <1>1, <1>4, ReturnAnswer
     DEF Unlock, StepFrame, AfterStore, AfterCrawl, BeginCrawl, Return, Forget, Goto, TypeInv, TypeOK, ChainOK, PlaceOK, AnswerOK, Crawling, BeforeResult, Ended, local, ghost
<1>5. CASE Crawl(t)
  BY <1>1, <1>5
     DEF Crawl, StepFrame, AfterStore, AfterCrawl, BeginCrawl, Return, Forget, Goto, TypeInv, TypeOK, ChainOK, PlaceOK, AnswerOK, Crawling, BeforeResult, Ended, local, ghost
<1>6. CASE SetNeg(t)
  BY <1>1, <1>6, ReturnAnswer
     DEF SetNeg, StepFrame, AfterStore, AfterCrawl, BeginCrawl, Return, Forget, Goto, TypeInv, TypeOK, ChainOK, PlaceOK, AnswerOK, Crawling, BeforeResult, Ended, local, ghost
<1>7. CASE WriteAttempt(t)
  BY <1>1, <1>7
     DEF WriteAttempt, StepFrame, AfterStore, AfterCrawl, BeginCrawl, Return, Forget, Goto, TypeInv, TypeOK, ChainOK, PlaceOK, AnswerOK, Crawling, BeforeResult, Ended, local, ghost
<1>8. CASE SetPayload(t)
  BY <1>1, <1>8
     DEF SetPayload, StepFrame, AfterStore, AfterCrawl, BeginCrawl, Return, Forget, Goto, TypeInv, TypeOK, ChainOK, PlaceOK, AnswerOK, Crawling, BeforeResult, Ended, local, ghost
<1>9. CASE SetMap(t)
  BY <1>1, <1>9
     DEF SetMap, StepFrame, AfterStore, AfterCrawl, BeginCrawl, Return, Forget, Goto, TypeInv, TypeOK, ChainOK, PlaceOK, AnswerOK, Crawling, BeforeResult, Ended, local, ghost
<1>10. CASE SetFinal(t)
  BY <1>1, <1>10
     DEF SetFinal, StepFrame, AfterStore, AfterCrawl, BeginCrawl, Return, Forget, Goto, TypeInv, TypeOK, ChainOK, PlaceOK, AnswerOK, Crawling, BeforeResult, Ended, local, ghost
<1>11. CASE SetShort(t)
  BY <1>1, <1>11
     DEF SetShort, StepFrame, AfterStore, AfterCrawl, BeginCrawl, Return, Forget, Goto, TypeInv, TypeOK, ChainOK, PlaceOK, AnswerOK, Crawling, BeforeResult, Ended, local, ghost
<1>12. CASE WriteCrawl(t)
  BY <1>1, <1>12, ReturnAnswer
     DEF WriteCrawl, StepFrame, AfterStore, AfterCrawl, BeginCrawl, Return, Forget, Goto, TypeInv, TypeOK, ChainOK, PlaceOK, AnswerOK, Crawling, BeforeResult, Ended, local, ghost
<1>. QED
  BY <1>2, <1>3, <1>4, <1>5, <1>6, <1>7, <1>8, <1>9, <1>10, <1>11, <1>12 DEF Step

\* A lookup changes no cache but an L1, and starts at most its own refresh.
LookupFrame(r) ==
  /\ UNCHANGED <<now, map, payload, neg, res, at, refresh, past, history, attempts>>
  /\ pc[Fg(r)] \in {"getPayload", "getNeg"} /\ pc[Bg(r)] = "idle"
  /\ pc'[Fg(r)] \in {"getMap", "getNeg", "setNx", "crawl", "done"}
  /\ pc'[Bg(r)] \in {"idle", "setNx"}
  /\ \A u \in Task \ {Fg(r), Bg(r)} : pc'[u] = pc[u]
  /\ \A u \in Task \ {Fg(r)} : pk'[u] = pk[u] /\ since'[u] = since[u]
  /\ \A u \in Task \ {Bg(r)} : url'[u] = url[u] /\ node'[u] = node[u]
  /\ \A s \in Request \ {r} : answer'[s] = answer[s]

LEMMA LookupHasFrame == ASSUME NEW r \in Request, TypeInv, Lookup(r) PROVE LookupFrame(r)
<1>. DEFINE t == Fg(r)
<1>1. /\ t \in Task /\ Bg(r) \in Task /\ t # Bg(r)
      /\ pc[t] \in {"getPayload", "getNeg"} /\ pc[Bg(r)] = "idle"
  BY TaskFacts
     DEF Lookup, LookupPayload, PollPayload, GetNeg, TypeInv, RefreshAfterRequest
<1>2. UNCHANGED <<now, map, payload, neg, res, at, refresh, past, history, attempts>>
  BY DEF Lookup, LookupPayload, PollPayload, GetNeg, redis, ghost
<1>3. \A s \in Request \ {r} : answer'[s] = answer[s]
  <2>1. \A s \in Request \ {r} : Fg(s) # t
    BY TaskFacts
  <2>2. \A kind, by : Return(t, kind, by) \/ Answer(t, kind, by)
          => \A s \in Request \ {r} : answer'[s] = answer[s]
    BY <1>1, <2>1, ReturnAnswer, ZenonT(30) DEF Return, TypeInv, TypeOK
  <2>. QED
    BY <2>2 DEF Lookup, LookupPayload, PollPayload, GetNeg
<1>4. /\ pc'[t] \in {"getMap", "getNeg", "setNx", "crawl", "done"}
      /\ pc'[Bg(r)] \in {"idle", "setNx"}
      /\ \A u \in Task \ {t, Bg(r)} : pc'[u] = pc[u]
      /\ \A u \in Task \ {t} : pk'[u] = pk[u] /\ since'[u] = since[u]
      /\ \A u \in Task \ {Bg(r)} : url'[u] = url[u] /\ node'[u] = node[u]
  <2>1. CASE LookupPayload(r)
    BY <1>1, <2>1
       DEF LookupPayload, Return, Forget, Goto, TypeInv, TypeOK, ChainOK, PlaceOK
  <2>2. CASE PollPayload(r)
    BY <1>1, <2>2 DEF PollPayload, Return, Forget, Goto, TypeInv, TypeOK, ChainOK
  <2>3. CASE GetNeg(r)
    BY <1>1, <2>3
       DEF GetNeg, GiveUp, BeginCrawl, Return, Forget, Goto, TypeInv, TypeOK, ChainOK
  <2>. QED
    BY <2>1, <2>2, <2>3 DEF Lookup
<1>. QED
  BY <1>1, <1>2, <1>3, <1>4 DEF LookupFrame

\* A request that comes fills in its own places only.
ArriveFrame(r) ==
  /\ UNCHANGED <<now, redis, l1, attempts, res, at, faults, history>>
  /\ pc[Fg(r)] = "idle" /\ pc[Bg(r)] = "idle"
  /\ pc'[Fg(r)] \in {"crawl", "done", "setNx", "getMap"}
  /\ \A u \in Task \ {Fg(r)} : /\ pc'[u] = pc[u] /\ pk'[u] = pk[u] /\ url'[u] = url[u]
                               /\ node'[u] = node[u] /\ since'[u] = since[u]
  /\ \A s \in Request \ {r} : answer'[s] = answer[s] /\ past'[s] = past[s]
  /\ past'[r] = {u \in Task : pc[u] = "done"}

LEMMA ArriveHasFrame == ASSUME NEW r \in Request, TypeInv, Arrive(r) PROVE ArriveFrame(r)
<1>. DEFINE t == Fg(r)
<1>1. t \in Task /\ Bg(r) \in Task /\ pc[t] = "idle" /\ pc[Bg(r)] = "idle"
  BY TaskFacts DEF Arrive, TypeInv, RefreshAfterRequest
<1>2. PICK n \in Norm, nd \in Node, rf \in BOOLEAN :
        /\ url' = [url EXCEPT ![t] = n]
        /\ node' = [node EXCEPT ![t] = nd]
        /\ \/ BeginCrawl(t, FALSE) /\ UNCHANGED <<answer, polls, pk>>
           \/ Return(t, "hit", l1[nd][n].by)
           \/ Goto(t, FirstRead(rf)) /\ UNCHANGED <<answer, polls, pk, held, since>>
  BY DEF Arrive
<1>3. \A s \in Request \ {r} : answer'[s] = answer[s]
  <2>1. \A s \in Request \ {r} : Fg(s) # t
    BY TaskFacts
  <2>2. \A kind, by : Return(t, kind, by)
          => \A s \in Request \ {r} : answer'[s] = answer[s]
    BY <1>1, <2>1, ReturnAnswer, ZenonT(30) DEF Return, TypeInv, TypeOK
  <2>. QED
    BY <1>2, <2>2
<1>4. /\ pc'[t] \in {"crawl", "done", "setNx", "getMap"}
      /\ \A u \in Task \ {t} : pc'[u] = pc[u] /\ pk'[u] = pk[u] /\ since'[u] = since[u]
  BY <1>1, <1>2
     DEF BeginCrawl, Return, Forget, Goto, FirstRead, TypeInv, TypeOK, ChainOK
<1>5. \A u \in Task \ {t} : url'[u] = url[u] /\ node'[u] = node[u]
  BY <1>2 DEF TypeInv, TypeOK, PlaceOK
<1>6. /\ past'[r] = {u \in Task : pc[u] = "done"}
      /\ \A s \in Request \ {r} : past'[s] = past[s]
  BY DEF Arrive, TypeInv, TypeOK, ObservedOK
<1>. QED
  BY <1>1, <1>3, <1>4, <1>5, <1>6 DEF Arrive, ArriveFrame

----------------------------------------------------------------------------
(* Results and URLs are settled once. *)

ResPlaced ==
  \A t \in Task :
    /\ pc[t] \in BeforeResult => res[t] = NoResult
    /\ pc[t] = "setNeg" => res[t] # NoResult /\ ~Succeeded(res[t])
    /\ pc[t] = "unlock" => res[t] # NoResult
    /\ pc[t] \in Stored => Succeeded(res[t])

\* What is settled stays so.
Settled ==
  \A t \in Task :
    /\ res[t] # NoResult => res'[t] = res[t]
    /\ pc[t] # "idle" => url'[t] = url[t] /\ node'[t] = node[t] /\ pc'[t] # "idle"
    /\ pc[t] = "done" => pc'[t] = "done"
    /\ pc[t] # "attempt" => at'[t] = at[t]

LEMMA NoResultFacts == ~Succeeded(NoResult) /\ NoResult \notin Result
BY DEF NoResult, Succeeded, Result, Kind

LEMMA ResInit == Init => ResPlaced
BY DEF Init, ResPlaced, Stored, BeforeResult

LEMMA StepSettles ==
  ASSUME NEW t \in Task, TypeInv, ResPlaced, Step(t) PROVE ResPlaced' /\ Settled
<1>1. StepFrame(t)
  BY StepHasFrame
<1>2. Settled
  BY <1>1 DEF StepFrame, Settled, ResPlaced, BeforeResult, Ended
<1>3. /\ pc'[t] \in BeforeResult => res'[t] = NoResult
      /\ pc'[t] = "setNeg" => res'[t] # NoResult /\ ~Succeeded(res'[t])
      /\ pc'[t] = "unlock" => res'[t] # NoResult
      /\ pc'[t] \in Stored => Succeeded(res'[t])
  <2>1. CASE Crawl(t)
    <3>1. PICK x \in Results[url[t]] : res' = [res EXCEPT ![t] = x] /\ Goto(t, AfterCrawl(x))
      BY <2>1 DEF Crawl
    <3>2. x \in Result
      BY <2>1, Constants DEF Crawl, TypeInv, Placed
    <3>. QED
      BY <3>1, <3>2, NoResultFacts
         DEF Goto, AfterCrawl, TypeInv, TypeOK, ChainOK, PlaceOK, BeforeResult, Stored
  <2>2. CASE ~Crawl(t)
    <3>1. pc[t] # "crawl"
      BY <2>2
         DEF Step, GetMap, SetNx, Unlock, SetNeg, WriteAttempt, SetPayload, SetMap, SetFinal,
             SetShort, WriteCrawl
    <3>2. res' = res
      BY <1>1, <3>1 DEF StepFrame
    <3>3. pc'[t] \in BeforeResult => pc[t] \in BeforeResult
      BY <1>1 DEF StepFrame
    <3>4. CASE GetMap(t) \/ SetNx(t) \/ Unlock(t)
      <4>1. pc'[t] \notin Stored \cup {"setNeg", "unlock"}
        BY <3>4
           DEF GetMap, SetNx, Unlock, BeginCrawl, Return, Goto, TypeInv, TypeOK, ChainOK, Stored
      <4>. QED
        BY <3>2, <3>3, <4>1 DEF ResPlaced
    <3>5. CASE ~(GetMap(t) \/ SetNx(t) \/ Unlock(t))
      <4>1. /\ pc[t] \in Stored \cup {"setNeg"} /\ pc'[t] # "setNeg"
            /\ pc'[t] \in Stored => pc[t] \in Stored
        BY <2>2, <3>5
           DEF Step, SetNeg, WriteAttempt, SetPayload, SetMap, SetFinal, SetShort, WriteCrawl,
               AfterStore, Return, Goto, TypeInv, TypeOK, ChainOK, Stored
      <4>. QED
        BY <3>2, <3>3, <4>1, NoResultFacts DEF ResPlaced, BeforeResult, Stored
    <3>. QED
      BY <3>4, <3>5
  <2>. QED
    BY <2>1, <2>2
<1>4. ResPlaced'
  BY <1>1, <1>3 DEF StepFrame, ResPlaced
<1>. QED
  BY <1>2, <1>4

LEMMA NextSettles ==
  ASSUME TypeInv, ResPlaced, [Next]_vars PROVE ResPlaced' /\ Settled
<1>1. ASSUME NEW r \in Request, Arrive(r) PROVE ResPlaced' /\ Settled
  BY <1>1, ArriveHasFrame, TaskFacts
     DEF ArriveFrame, ResPlaced, Settled, Stored, BeforeResult
<1>2. ASSUME NEW r \in Request, Lookup(r) PROVE ResPlaced' /\ Settled
  BY <1>2, LookupHasFrame, TaskFacts
     DEF LookupFrame, ResPlaced, Settled, Stored, BeforeResult
<1>3. CASE Tick \/ UNCHANGED vars
  BY <1>3 DEF Tick, vars, local, ResPlaced, Settled
<1>4. ASSUME NEW nd \in Node, Crash(nd) PROVE ResPlaced' /\ Settled
  BY <1>4 DEF Crash, ResPlaced, Settled, Stored, BeforeResult
<1>. QED
  BY <1>1, <1>2, <1>3, <1>4, StepSettles DEF Next


----------------------------------------------------------------------------
(* A stale answer is put right. *)

\* While Redis answers, a lock is there only as long as its holder, or after it died.
LockIsOfSomebody ==
  faults = 0 =>
    \A n \in Norm : lock[n] # 0 =>
      \E t \in Task : url[t] = n /\ (held[t] \/ pc[t] = "dead")

\* What had ended when a request came is over; a request that has come has an answer
\* only if it is past its lookups, and its refresh is about the same URL.
RefreshPlaced ==
  \A r \in Request :
    /\ past[r] \subseteq {t \in Task : pc[t] = "done"}
    /\ pc[Bg(r)] # "idle" => url[Bg(r)] = url[Fg(r)]
    /\ answer[r].kind = "stale" => pc[Fg(r)] = "done" /\ pc[Bg(r)] # "idle"

SwrInv == LockIsOfSomebody /\ RefreshPlaced /\ StaleIsRefreshed

LEMMA SwrInit == Init => SwrInv
<1>1. Init => LockIsOfSomebody
  BY DEF Init, LockIsOfSomebody
<1>2. Init => RefreshPlaced /\ StaleIsRefreshed
  BY TaskFacts DEF Init, RefreshPlaced, StaleIsRefreshed, NoAnswer
<1>. QED
  BY <1>1, <1>2 DEF SwrInv

\* A holder stays one until it deletes the lock or its process dies.
LEMMA QuietHolds ==
  ASSUME NEW t \in Task, TypeInv, Quiet(t), NEW u \in Task, held[u] PROVE held'[u]
<1>1. ASSUME held' = held \/ AfterStore(t) PROVE held'[u]
  BY <1>1 DEF AfterStore, Return, Forget, TypeInv, TypeOK, ChainOK
<1>2. CASE GetMap(t) \/ Crawl(t) \/ WriteAttempt(t)
  BY <1>2 DEF GetMap, Crawl, WriteAttempt
<1>3. CASE SetPayload(t) \/ SetMap(t) \/ SetFinal(t) \/ SetShort(t)
  BY <1>3 DEF SetPayload, SetMap, SetFinal, SetShort, local
<1>4. CASE SetNeg(t)
  BY <1>1, <1>4 DEF SetNeg
<1>5. CASE WriteCrawl(t)
  BY <1>1, <1>5 DEF WriteCrawl
<1>. QED
  BY <1>2, <1>3, <1>4, <1>5 DEF Quiet

LEMMA HolderRemains ==
  ASSUME TypeInv, HeldWhileCrawling, [Next]_vars, NEW u \in Task, held[u], ~Unlock(u)
  PROVE  held'[u] \/ pc'[u] = "dead"
<1>1. pc[u] \in Crawling
  BY DEF HeldWhileCrawling
<1>2. ASSUME NEW r \in Request, Arrive(r) PROVE held'[u]
  <2>1. u # Fg(r)
    BY <1>1, <1>2 DEF Arrive, Crawling
  <2>. QED
    BY <1>2, <2>1 DEF Arrive, BeginCrawl, Return, Forget, TypeInv, TypeOK, ChainOK
<1>3. ASSUME NEW r \in Request, Lookup(r) PROVE held'[u]
  <2>1. u # Fg(r)
    BY <1>1, <1>3 DEF Lookup, LookupPayload, PollPayload, GetNeg, Crawling
  <2>2. CASE LookupPayload(r)
    BY <2>1, <2>2 DEF LookupPayload, Return, Forget, TypeInv, TypeOK, ChainOK
  <2>3. CASE PollPayload(r)
    BY <2>1, <2>3 DEF PollPayload, Return, Forget, TypeInv, TypeOK, ChainOK
  <2>4. CASE GetNeg(r)
    BY <2>1, <2>4 DEF GetNeg, GiveUp, BeginCrawl, Return, Forget, TypeInv, TypeOK, ChainOK
  <2>. QED
    BY <1>3, <2>2, <2>3, <2>4 DEF Lookup
<1>4. ASSUME NEW t \in Task, Step(t) PROVE held'[u]
  <2>1. CASE Quiet(t)
    BY <2>1, QuietHolds
  <2>2. CASE SetNx(t)
    <3>1. u # t
      BY <1>1, <2>2 DEF SetNx, Crawling
    <3>. QED
      BY <2>2, <3>1 DEF SetNx, BeginCrawl, Return, Forget, TypeInv, TypeOK, ChainOK
  <2>3. CASE Unlock(t)
    BY <2>3 DEF Unlock, Return, Forget, TypeInv, TypeOK, ChainOK
  <2>. QED
    BY <1>4, <2>1, <2>2, <2>3 DEF Step, Quiet
<1>5. ASSUME NEW nd \in Node, Crash(nd) PROVE held'[u] \/ pc'[u] = "dead"
  <2>. DEFINE dead == {t \in Task : node[t] = nd /\ pc[t] \notin {"idle", "done", "dead"}}
  <2>1. /\ pc'[u] = IF u \in dead THEN "dead" ELSE pc[u]
        /\ held'[u] = (held[u] /\ u \notin dead)
    BY <1>5 DEF Crash
  <2>. HIDE DEF dead
  <2>. QED
    BY <2>1
<1>6. CASE Tick \/ UNCHANGED vars
  BY <1>6 DEF Tick, vars, local
<1>. QED
  BY <1>2, <1>3, <1>4, <1>5, <1>6 DEF Next

LEMMA TheDeadStay ==
  ASSUME TypeInv, [Next]_vars, NEW u \in Task, pc[u] = "dead" PROVE pc'[u] = "dead"
<1>1. ASSUME NEW r \in Request, Arrive(r) PROVE pc'[u] = "dead"
  BY <1>1, ArriveHasFrame DEF ArriveFrame
<1>2. ASSUME NEW r \in Request, Lookup(r) PROVE pc'[u] = "dead"
  BY <1>2, LookupHasFrame DEF LookupFrame
<1>3. ASSUME NEW t \in Task, Step(t) PROVE pc'[u] = "dead"
  BY <1>3, StepHasFrame DEF StepFrame, Ended
<1>4. ASSUME NEW nd \in Node, Crash(nd) PROVE pc'[u] = "dead"
  BY <1>4 DEF Crash
<1>5. CASE Tick \/ UNCHANGED vars
  BY <1>5 DEF Tick, vars
<1>. QED
  BY <1>1, <1>2, <1>3, <1>4, <1>5 DEF Next

\* Only SET NX sets a lock, and while no command fails it makes its caller a holder.
LEMMA LockSetByHolder ==
  ASSUME TypeInv, HeldWhileCrawling, [Next]_vars, faults' = 0, NEW n \in Norm, lock'[n] # 0
  PROVE  /\ faults = 0
         /\ \A t \in Task : Unlock(t) => url[t] # n
         /\ lock[n] # 0 \/ \E t \in Task : held'[t] /\ url'[t] = n
<1>1. faults \in Nat /\ lock \in [Norm -> Nat]
  BY DEF TypeInv, TypeOK, ObservedOK, SharedOK
<1>2. ASSUME HoldersStay PROVE faults = 0 /\ lock' = lock
  BY <1>1, <1>2 DEF HoldersStay
<1>3. \A t \in Task : Unlock(t) => url[t] # n
  BY <1>1, CommandType DEF Unlock, Released
<1>4. ASSUME NEW r \in Request, Arrive(r) \/ Lookup(r) PROVE faults = 0 /\ lock' = lock
  BY <1>2, <1>4, ArriveStays, LookupStays
<1>5. ASSUME NEW t \in Task, Step(t)
      PROVE  faults = 0 /\ (lock[n] # 0 \/ \E u \in Task : held'[u] /\ url'[u] = n)
  <2>1. CASE Quiet(t)
    BY <1>2, <2>1, QuietStays
  <2>2. CASE Unlock(t)
    BY <1>1, <1>3, <2>2, CommandType DEF Unlock, Released
  <2>3. CASE SetNx(t)
    <3>1. PICK ok \in BOOLEAN, applied \in BOOLEAN :
            /\ Command(ok, applied)
            /\ lock' = IF applied /\ LockFree(t)
                         THEN [lock EXCEPT ![url[t]] = now + LockTtl] ELSE lock
            /\ BeginCrawl(t, TRUE) \/ ~LockFree(t)
      BY <2>3 DEF SetNx
    <3>2. faults = 0
      BY <1>1, <3>1, CommandType
    <3>3. CASE lock' = lock
      BY <3>2, <3>3
    <3>4. CASE lock' # lock
      <4>1. lock' = [lock EXCEPT ![url[t]] = now + LockTtl] /\ BeginCrawl(t, TRUE)
        BY <3>1, <3>4
      <4>2. held'[t] /\ url' = url
        BY <2>3, <4>1 DEF SetNx, BeginCrawl, TypeInv, TypeOK, ChainOK
      <4>. QED
        BY <1>1, <3>2, <4>1, <4>2
    <3>. QED
      BY <3>3, <3>4
  <2>. QED
    BY <1>5, <2>1, <2>2, <2>3 DEF Step, Quiet
<1>6. ASSUME NEW nd \in Node, Crash(nd) PROVE faults = 0 /\ lock' = lock
  BY <1>2, <1>6, CrashStays
<1>7. ASSUME Tick \/ UNCHANGED vars PROVE faults = 0 /\ lock[n] # 0
  <2>1. faults' = faults
    BY <1>7 DEF Tick, vars
  <2>2. lock'[n] \in {lock[n], 0}
    BY <1>7 DEF Tick, vars, redis
  <2>. QED
    BY <2>1, <2>2
<1>9. faults = 0 /\ (lock[n] # 0 \/ \E t \in Task : held'[t] /\ url'[t] = n)
  BY <1>4, <1>5, <1>6, <1>7 DEF Next
<1>. QED
  BY <1>3, <1>9

LEMMA LockOfSomebodyStep ==
  ASSUME TypeInv, HeldWhileCrawling, ResPlaced, LockIsOfSomebody, [Next]_vars
  PROVE  LockIsOfSomebody'
<1>1. SUFFICES ASSUME faults' = 0, NEW n \in Norm, lock'[n] # 0
               PROVE  \E t \in Task : url'[t] = n /\ (held'[t] \/ pc'[t] = "dead")
  BY DEF LockIsOfSomebody
<1>2. CASE \E t \in Task : held'[t] /\ url'[t] = n
  BY <1>2
<1>3. CASE lock[n] # 0
  <2>1. PICK t \in Task : url[t] = n /\ (held[t] \/ pc[t] = "dead")
    BY <1>1, <1>3, LockSetByHolder DEF LockIsOfSomebody
  <2>2. url'[t] = n
    BY <2>1, NextSettles DEF Settled, HeldWhileCrawling, Crawling
  <2>3. held'[t] \/ pc'[t] = "dead"
    <3>1. ~Unlock(t)
      BY <1>1, <2>1, LockSetByHolder
    <3>. QED
      BY <2>1, <3>1, HolderRemains, TheDeadStay
  <2>. QED
    BY <2>2, <2>3
<1>. QED
  BY <1>1, <1>2, <1>3, LockSetByHolder

LEMMA FaultsBefore == ASSUME TypeInv, [Next]_vars, faults' = 0 PROVE faults = 0
<1>1. faults \in Nat
  BY DEF TypeInv, TypeOK, ObservedOK
<1>2. ASSUME NEW r \in Request, Arrive(r) PROVE faults' = faults
  BY <1>2, ArriveHasFrame DEF ArriveFrame
<1>3. ASSUME NEW r \in Request, Lookup(r) PROVE faults' = 0 => faults = 0
  BY <1>1, <1>3, CommandType DEF Lookup, LookupPayload, PollPayload, GetNeg
<1>4. ASSUME NEW t \in Task, GetMap(t) \/ SetNx(t) \/ Unlock(t) \/ Crawl(t)
      PROVE  faults' = 0 => faults = 0
  <2>1. \A ok, applied \in BOOLEAN : Command(ok, applied) => (faults' = 0 => faults = 0)
    BY <1>1, CommandType
  <2>2. CASE GetMap(t) \/ Unlock(t)
    BY <2>1, <2>2 DEF GetMap, Unlock
  <2>3. CASE SetNx(t)
    BY <2>1, <2>3 DEF SetNx
  <2>4. CASE Crawl(t)
    BY <2>1, <2>4 DEF Crawl
  <2>. QED
    BY <1>4, <2>2, <2>3, <2>4
<1>5. ASSUME NEW t \in Task, SetNeg(t) \/ WriteAttempt(t) \/ SetPayload(t) \/ SetMap(t)
      PROVE  faults' = 0 => faults = 0
  BY <1>1, <1>5, CommandType DEF SetNeg, WriteAttempt, SetPayload, SetMap
<1>6. ASSUME NEW t \in Task, SetFinal(t) \/ SetShort(t) \/ WriteCrawl(t)
      PROVE  faults' = 0 => faults = 0
  BY <1>1, <1>6, CommandType DEF SetFinal, SetShort, WriteCrawl
<1>7. ASSUME NEW nd \in Node, Crash(nd) PROVE faults' = faults
  BY <1>7 DEF Crash
<1>8. CASE Tick \/ UNCHANGED vars
  BY <1>8 DEF Tick, vars
<1>. QED
  BY <1>2, <1>3, <1>4, <1>5, <1>6, <1>7, <1>8 DEF Next, Step

\* A request gets a stale answer only together with a refresh of its URL.
LEMMA LookupStale ==
  ASSUME NEW r \in Request, TypeInv, Lookup(r)
  PROVE  \/ /\ pc'[Bg(r)] = "idle"
            /\ answer'[r].kind = "stale" => answer'[r] = answer[r]
         \/ /\ pc'[Bg(r)] = "setNx" /\ pc'[Fg(r)] = "done"
            /\ url'[Bg(r)] = url[Fg(r)] /\ url'[Fg(r)] = url[Fg(r)]
<1>. DEFINE t == Fg(r)
            e == payload[pk[t]]
<1>1. /\ t \in Task /\ Bg(r) \in Task /\ t # Bg(r) /\ t[2] = "fg" /\ t[1] = r
      /\ pc[Bg(r)] = "idle" /\ pc[t] \in Ended \cup {"getPayload", "getNeg"}
  BY TaskFacts, LookupHasFrame DEF LookupFrame, Fg
<1>2. \A kind, by : Return(t, kind, by) =>
        answer'[r].kind = kind /\ pc'[Bg(r)] = "idle"
  BY <1>1 DEF Return, Answer, TypeInv, TypeOK, AnswerOK, ChainOK
<1>3. ASSUME Return(t, "hit", e.by) \/ Return(t, "negative", neg[url[t]].by)
      PROVE  answer'[r].kind # "stale"
  BY <1>2, <1>3
<1>7. ASSUME NEW l, Goto(t, l) PROVE pc'[Bg(r)] = "idle"
  BY <1>1, <1>7 DEF Goto, TypeInv, TypeOK, ChainOK
<1>4. CASE LookupPayload(r)
  <2>1. \/ Return(t, "hit", e.by)
        \/ /\ pc' = [pc EXCEPT ![t] = "done", ![Bg(r)] = "setNx"]
           /\ url' = [url EXCEPT ![Bg(r)] = url[t]]
        \/ UNCHANGED answer /\ Goto(t, "getNeg")
    BY <1>4 DEF LookupPayload
  <2>2. CASE /\ pc' = [pc EXCEPT ![t] = "done", ![Bg(r)] = "setNx"]
             /\ url' = [url EXCEPT ![Bg(r)] = url[t]]
    BY <1>1, <2>2 DEF TypeInv, TypeOK, ChainOK, PlaceOK
  <2>. QED
    BY <1>2, <1>3, <1>7, <2>1, <2>2
<1>5. CASE PollPayload(r)
  <2>1. Return(t, "hit", e.by) \/ (UNCHANGED answer /\ Goto(t, "getNeg"))
    BY <1>5 DEF PollPayload
  <2>. QED
    BY <1>2, <1>3, <1>7, <2>1
<1>6. CASE GetNeg(r)
  <2>1. \/ Return(t, "negative", neg[url[t]].by)
        \/ UNCHANGED answer /\ \E l : Goto(t, l)
    BY <1>6 DEF GetNeg, GiveUp, BeginCrawl
  <2>. QED
    BY <1>2, <1>3, <1>7, <2>1
<1>. QED
  BY <1>4, <1>5, <1>6 DEF Lookup

\* An answer becomes stale only in its own lookup.
LEMMA StaleOnlyLookedUp ==
  ASSUME TypeInv, [Next]_vars, NEW r \in Request, ~Lookup(r), answer'[r].kind = "stale"
  PROVE  answer[r].kind = "stale"
<1>1. ASSUME NEW q \in Request, Arrive(q) PROVE answer[r].kind = "stale"
  <2>1. CASE q # r
    BY <1>1, <2>1, ArriveHasFrame DEF ArriveFrame
  <2>2. CASE q = r
    <3>1. PICK nd \in Node, n \in Norm :
            Return(Fg(r), "hit", l1[nd][n].by) \/ UNCHANGED answer
      BY <1>1, <2>2 DEF Arrive
    <3>2. Fg(r)[2] = "fg" /\ Fg(r)[1] = r
      BY DEF Fg
    <3>3. Return(Fg(r), "hit", l1[nd][n].by) => answer'[r].kind = "hit"
      BY <3>2 DEF Return, Answer, TypeInv, TypeOK, AnswerOK
    <3>. QED
      BY <3>1, <3>3
  <2>. QED
    BY <2>1, <2>2
<1>2. ASSUME NEW q \in Request, Lookup(q) PROVE answer[r].kind = "stale"
  BY <1>2, LookupHasFrame DEF LookupFrame
<1>3. ASSUME NEW t \in Task, Step(t) PROVE answer[r].kind = "stale"
  <2>1. answer'[r] = answer[r] \/ answer'[r] = [kind |-> "miss", by |-> t]
    BY <1>3, StepHasFrame DEF StepFrame
  <2>. QED
    BY <2>1
<1>4. ASSUME NEW nd \in Node, Crash(nd) PROVE answer[r].kind = "stale"
  BY <1>4 DEF Crash
<1>5. CASE Tick \/ UNCHANGED vars
  BY <1>5 DEF Tick, vars
<1>. QED
  BY <1>1, <1>2, <1>3, <1>4, <1>5 DEF Next

\* What had ended when a request came is settled when it comes.
LEMMA PastSettled ==
  ASSUME TypeInv, [Next]_vars, NEW r \in Request
  PROVE  /\ past'[r] = past[r] \/ past'[r] = {u \in Task : pc[u] = "done"}
         /\ pc[Fg(r)] # "idle" => past'[r] = past[r]
<1>1. ASSUME NEW q \in Request, Arrive(q)
      PROVE  /\ past'[r] = past[r] \/ past'[r] = {u \in Task : pc[u] = "done"}
             /\ pc[Fg(r)] # "idle" => past'[r] = past[r]
  BY <1>1, ArriveHasFrame DEF ArriveFrame
<1>2. ASSUME NEW q \in Request, Lookup(q) PROVE past' = past
  BY <1>2, LookupHasFrame DEF LookupFrame
<1>3. ASSUME NEW t \in Task, Step(t) PROVE past' = past
  BY <1>3, StepHasFrame DEF StepFrame
<1>4. ASSUME NEW nd \in Node, Crash(nd) PROVE past' = past
  BY <1>4 DEF Crash, ghost
<1>5. CASE Tick \/ UNCHANGED vars
  BY <1>5 DEF Tick, vars, ghost
<1>. QED
  BY <1>1, <1>2, <1>3, <1>4, <1>5 DEF Next

\* A refresh that has not been started is started by its request only.
LEMMA RefreshStarts ==
  ASSUME TypeInv, [Next]_vars, NEW r \in Request, ~Lookup(r), pc[Bg(r)] = "idle"
  PROVE  pc'[Bg(r)] = "idle"
<1>1. ASSUME NEW q \in Request, Arrive(q) PROVE pc'[Bg(r)] = "idle"
  BY <1>1, ArriveHasFrame, TaskFacts DEF ArriveFrame
<1>2. ASSUME NEW q \in Request, Lookup(q) PROVE pc'[Bg(r)] = "idle"
  BY <1>2, LookupHasFrame, TaskFacts DEF LookupFrame
<1>3. ASSUME NEW t \in Task, Step(t) PROVE pc'[Bg(r)] = "idle"
  BY <1>3, StepHasFrame, TaskFacts DEF StepFrame, Ended
<1>4. ASSUME NEW nd \in Node, Crash(nd) PROVE pc'[Bg(r)] = "idle"
  BY <1>4, TaskFacts DEF Crash
<1>5. CASE Tick \/ UNCHANGED vars
  BY <1>5 DEF Tick, vars
<1>. QED
  BY <1>1, <1>2, <1>3, <1>4, <1>5 DEF Next

LEMMA RefreshPlacedStep ==
  ASSUME TypeInv, ResPlaced, RefreshPlaced, [Next]_vars PROVE RefreshPlaced'
<1>1. SUFFICES ASSUME NEW r \in Request
               PROVE  /\ past'[r] \subseteq {t \in Task : pc'[t] = "done"}
                      /\ pc'[Bg(r)] # "idle" => url'[Bg(r)] = url'[Fg(r)]
                      /\ answer'[r].kind = "stale" => pc'[Fg(r)] = "done" /\ pc'[Bg(r)] # "idle"
  BY DEF RefreshPlaced
<1>2. \A t \in Task : /\ pc[t] # "idle" => url'[t] = url[t] /\ pc'[t] # "idle"
                      /\ pc[t] = "done" => pc'[t] = "done"
  BY NextSettles DEF Settled
<1>3. /\ Fg(r) \in Task /\ Bg(r) \in Task
      /\ pc[Bg(r)] # "idle" => pc[Fg(r)] = "done"
  BY TaskFacts DEF TypeInv, RefreshAfterRequest
<1>4. past'[r] \subseteq {t \in Task : pc'[t] = "done"}
  <2>1. past[r] \subseteq {t \in Task : pc[t] = "done"}
    BY DEF RefreshPlaced
  <2>2. {t \in Task : pc[t] = "done"} \subseteq {t \in Task : pc'[t] = "done"}
    BY <1>2
  <2>. QED
    BY <2>1, <2>2, PastSettled
<1>5. CASE pc[Bg(r)] # "idle"
  BY <1>2, <1>3, <1>4, <1>5 DEF RefreshPlaced
<1>6. CASE pc[Bg(r)] = "idle" /\ ~Lookup(r)
  <2>1. pc'[Bg(r)] = "idle"
    BY <1>6, RefreshStarts
  <2>2. answer'[r].kind # "stale"
    BY <1>6, StaleOnlyLookedUp DEF RefreshPlaced
  <2>. QED
    BY <1>4, <2>1, <2>2
<1>7. CASE pc[Bg(r)] = "idle" /\ Lookup(r)
  <2>1. answer[r].kind # "stale"
    BY <1>7 DEF RefreshPlaced
  <2>2. CASE /\ pc'[Bg(r)] = "idle"
             /\ answer'[r].kind = "stale" => answer'[r] = answer[r]
    BY <1>4, <2>1, <2>2
  <2>3. CASE /\ pc'[Bg(r)] = "setNx" /\ pc'[Fg(r)] = "done"
             /\ url'[Bg(r)] = url[Fg(r)] /\ url'[Fg(r)] = url[Fg(r)]
    BY <1>4, <2>3
  <2>. QED
    BY <1>7, <2>2, <2>3, LookupStale
<1>. QED
  BY <1>5, <1>6, <1>7

\* What becomes of a task that waits for the lock, crawls, or has done so.
LEMMA SetNxNext ==
  ASSUME TypeInv, [Next]_vars, faults' = 0, NEW r \in Request, pc[Bg(r)] = "setNx"
  PROVE  \/ pc'[Bg(r)] \in {"setNx", "crawl", "dead"}
         \/ SetNx(Bg(r)) /\ faults = 0 /\ lock[url[Bg(r)]] # 0 /\ url[Bg(r)] \in Norm
<1>. DEFINE b == Bg(r)
<1>1. b \in Task /\ b[2] = "bg" /\ (\A q \in Request : Fg(q) # b) /\ url[b] \in Norm
      /\ faults \in Nat
  BY TaskFacts DEF Bg, TypeInv, TypeOK, ObservedOK, Placed
<1>2. ASSUME NEW q \in Request, Arrive(q) PROVE pc'[b] = "setNx"
  BY <1>1, <1>2, ArriveHasFrame DEF ArriveFrame
<1>3. ASSUME NEW q \in Request, Lookup(q) PROVE pc'[b] = "setNx"
  <2>1. b # Bg(q)
    BY <1>3, LookupHasFrame DEF LookupFrame
  <2>. QED
    BY <1>1, <1>3, <2>1, LookupHasFrame DEF LookupFrame
<1>4. ASSUME NEW t \in Task, Step(t)
      PROVE  \/ pc'[b] \in {"setNx", "crawl"}
             \/ SetNx(b) /\ faults = 0 /\ lock[url[b]] # 0 /\ url[b] \in Norm
  <2>1. CASE t # b
    BY <1>1, <1>4, <2>1, StepHasFrame DEF StepFrame
  <2>2. CASE t = b
    <3>1. SetNx(b)
      BY <1>4, <2>2
         DEF Step, GetMap, Unlock, Crawl, SetNeg, WriteAttempt, SetPayload, SetMap, SetFinal,
             SetShort, WriteCrawl
    <3>2. PICK ok \in BOOLEAN, applied \in BOOLEAN :
            /\ Command(ok, applied)
            /\ BeginCrawl(b, TRUE) \/ ~LockFree(b)
      BY <3>1 DEF SetNx
    <3>3. faults = 0
      BY <1>1, <3>2, CommandType
    <3>4. BeginCrawl(b, TRUE) => pc'[b] = "crawl"
      BY <1>1 DEF BeginCrawl, Goto, TypeInv, TypeOK, ChainOK
    <3>. QED
      BY <1>1, <3>1, <3>2, <3>3, <3>4 DEF LockFree
  <2>. QED
    BY <2>1, <2>2
<1>5. ASSUME NEW nd \in Node, Crash(nd) PROVE pc'[b] \in {"setNx", "dead"}
  BY <1>1, <1>5 DEF Crash
<1>6. CASE Tick \/ UNCHANGED vars
  BY <1>6 DEF Tick, vars
<1>. QED
  BY <1>2, <1>3, <1>4, <1>5, <1>6 DEF Next

LEMMA CrawlNext ==
  ASSUME TypeInv, [Next]_vars, NEW t \in Task, pc[t] = "crawl"
  PROVE  pc'[t] \in Crawling \cup {"dead"}
<1>1. ASSUME NEW q \in Request, Arrive(q) PROVE pc'[t] = "crawl"
  BY <1>1, ArriveHasFrame DEF ArriveFrame
<1>2. ASSUME NEW q \in Request, Lookup(q) PROVE pc'[t] = "crawl"
  BY <1>2, LookupHasFrame DEF LookupFrame
<1>3. ASSUME NEW u \in Task, Step(u) PROVE pc'[t] \in Crawling
  <2>1. CASE u # t
    BY <1>3, <2>1, StepHasFrame DEF StepFrame, Crawling
  <2>2. CASE u = t
    <3>1. Crawl(t)
      BY <1>3, <2>2
         DEF Step, GetMap, SetNx, Unlock, SetNeg, WriteAttempt, SetPayload, SetMap, SetFinal,
             SetShort, WriteCrawl
    <3>. QED
      BY <3>1 DEF Crawl, Goto, AfterCrawl, Crawling, TypeInv, TypeOK, ChainOK
  <2>. QED
    BY <2>1, <2>2
<1>4. ASSUME NEW nd \in Node, Crash(nd) PROVE pc'[t] \in {"crawl", "dead"}
  BY <1>4 DEF Crash
<1>5. CASE Tick \/ UNCHANGED vars
  BY <1>5 DEF Tick, vars, Crawling
<1>. QED
  BY <1>1, <1>2, <1>3, <1>4, <1>5 DEF Next, Crawling

\* A crawl of n that is running, has a result, or died.
Crawled(t, n) ==
  url[t] = n /\ (pc[t] \in Crawling \cup {"dead"} \/ res[t] # NoResult)

LEMMA CrawledRemains ==
  ASSUME TypeInv, ResPlaced, [Next]_vars, NEW t \in Task, NEW n, Crawled(t, n)
  PROVE  Crawled(t, n)'
<1>1. pc[t] # "idle" /\ url[t] = n
  BY DEF Crawled, ResPlaced, BeforeResult, Crawling
<1>2. Settled
  BY NextSettles
<1>3. url'[t] = n
  BY <1>1, <1>2 DEF Settled
<1>4. CASE pc[t] = "crawl"
  BY <1>3, <1>4, CrawlNext DEF Crawled
<1>5. CASE pc[t] = "dead"
  BY <1>3, <1>5, TheDeadStay DEF Crawled
<1>6. CASE res[t] # NoResult
  BY <1>2, <1>3, <1>6 DEF Settled, Crawled
<1>7. pc[t] \in Crawling \ {"crawl"} => res[t] # NoResult
  BY NoResultFacts DEF ResPlaced, Crawling, Stored
<1>. QED
  BY <1>4, <1>5, <1>6, <1>7 DEF Crawled

LEMMA StaleStep ==
  ASSUME TypeInv, HeldWhileCrawling, ResPlaced, SwrInv, [Next]_vars
  PROVE  StaleIsRefreshed'
<1>1. SUFFICES ASSUME NEW r \in Request, answer'[r].kind = "stale", faults' = 0,
                      pc'[Bg(r)] # "setNx"
               PROVE  \E t \in Task \ past'[r] : Crawled(t, url[Fg(r)])' 
  BY DEF StaleIsRefreshed, Crawled
<1>2. RefreshPlaced' /\ Settled /\ RefreshPlaced
  BY RefreshPlacedStep, NextSettles DEF SwrInv
<1>3. Fg(r) \in Task /\ Bg(r) \in Task
  BY TaskFacts
<1>4. pc'[Fg(r)] = "done" /\ pc'[Bg(r)] # "idle" /\ url'[Bg(r)] = url'[Fg(r)]
  BY <1>1, <1>2 DEF RefreshPlaced
<1>5. ASSUME answer[r].kind # "stale" PROVE FALSE
  <2>1. Lookup(r)
    BY <1>1, <1>5, StaleOnlyLookedUp
  <2>. QED
    BY <1>1, <1>4, <1>5, <2>1, LookupStale
<1>6. pc[Fg(r)] = "done" /\ pc[Bg(r)] # "idle" /\ url[Bg(r)] = url[Fg(r)]
  BY <1>2, <1>5 DEF RefreshPlaced
<1>7. past'[r] = past[r] /\ url'[Fg(r)] = url[Fg(r)] /\ url'[Bg(r)] = url[Fg(r)]
  BY <1>2, <1>3, <1>6, PastSettled DEF Settled
<1>8. ASSUME NEW t \in Task \ past[r], Crawled(t, url[Fg(r)])
      PROVE  \E u \in Task \ past'[r] : Crawled(u, url[Fg(r)])'
  <2>. DEFINE n == url[Fg(r)]
  <2>1. url'[t] = n /\ (pc'[t] \in Crawling \cup {"dead"} \/ res'[t] # NoResult)
    <3>1. PICK m : m = n
      OBVIOUS
    <3>2. Crawled(t, m)
      BY <1>8, <3>1
    <3>3. Crawled(t, m)'
      BY <3>2, CrawledRemains
    <3>. QED
      BY <3>1, <3>3 DEF Crawled
  <2>. QED
    BY <1>7, <2>1 DEF Crawled
<1>9. CASE pc[Bg(r)] = "setNx"
  <2>1. CASE pc'[Bg(r)] \in {"crawl", "dead"}
    <3>1. Bg(r) \notin past'[r]
      BY <1>2, <2>1 DEF RefreshPlaced
    <3>2. Crawled(Bg(r), url[Fg(r)])'
      BY <1>7, <2>1 DEF Crawled, Crawling
    <3>. QED
      BY <1>3, <3>1, <3>2
  <2>2. CASE faults = 0 /\ lock[url[Bg(r)]] # 0 /\ url[Bg(r)] \in Norm
    <3>1. PICK u \in Task : url[u] = url[Bg(r)] /\ (held[u] \/ pc[u] = "dead")
      BY <2>2 DEF SwrInv, LockIsOfSomebody
    <3>2. pc[u] \in Crawling \cup {"dead"}
      BY <3>1 DEF HeldWhileCrawling
    <3>3. u \notin past[r]
      BY <1>2, <3>2 DEF RefreshPlaced, Crawling
    <3>4. Crawled(u, url[Fg(r)])
      BY <1>6, <3>1, <3>2 DEF Crawled
    <3>. QED
      BY <1>8, <3>3, <3>4
  <2>. QED
    BY <1>1, <1>9, <2>1, <2>2, SetNxNext
<1>10. CASE pc[Bg(r)] # "setNx"
  <2>1. faults = 0
    BY <1>1, FaultsBefore
  <2>2. PICK t \in Task \ past[r] :
          url[t] = url[Fg(r)] /\ (pc[t] \in Crawling \cup {"dead"} \/ res[t] # NoResult)
    BY <1>5, <1>10, <2>1 DEF SwrInv, StaleIsRefreshed
  <2>. QED
    BY <1>8, <2>2 DEF Crawled
<1>. QED
  BY <1>9, <1>10

\* While Redis answers, a stale answer is put right: its refresh waits for the lock, or a
\* crawl of the URL that was not over when the request came runs, has a result or died
\* (stale-while-revalidate, unfurl-cache.ts 173 and 293).
THEOREM StaleAnswersAreRefreshed == Spec => []StaleIsRefreshed
<1>. DEFINE Inv == TypeInv /\ LockInv /\ ResPlaced /\ SwrInv
<1>1. Init => Inv
  BY TypeInit, LockInit, ResInit, SwrInit
<1>2. Inv /\ [Next]_vars => Inv'
  <2>1. SUFFICES ASSUME Inv, [Next]_vars PROVE Inv'
    OBVIOUS
  <2>2. TypeInv' /\ LockInv' /\ ResPlaced' /\ HeldWhileCrawling
    BY <2>1, TypeStep, LockStep, NextSettles DEF LockInv
  <2>3. LockIsOfSomebody'
    BY <2>1, <2>2, LockOfSomebodyStep DEF SwrInv
  <2>4. RefreshPlaced'
    BY <2>1, RefreshPlacedStep DEF SwrInv
  <2>5. StaleIsRefreshed'
    BY <2>1, <2>2, StaleStep
  <2>. QED
    BY <2>2, <2>3, <2>4, <2>5 DEF SwrInv
<1>3. Inv => StaleIsRefreshed
  BY DEF SwrInv
<1>. QED
  BY <1>1, <1>2, <1>3, PTL DEF Spec

----------------------------------------------------------------------------
(* What the caches hold. *)

\* Some crawl of n, or one that was redirected to n, gave a card under the key p.
Knows(n, p) ==
  \E t \in Task : Succeeded(res[t]) /\ n \in {url[t], res[t].final} /\ res[t].pk = p

\* e is the copy of a card.
Card(e) == e.by \in Task /\ Succeeded(res[e.by])
Failure(e) == e.by \in Task /\ res[e.by] # NoResult /\ ~Succeeded(res[e.by])

CachesTrue ==
  /\ \A n \in Norm : map[n] # NoMap => Knows(n, map[n].pk)
  /\ \A t \in Task : pc[t] = "getPayload" => Knows(url[t], pk[t])
  /\ \A p \in Pk : payload[p] # NoEntry => Card(payload[p]) /\ res[payload[p].by].pk = p
  /\ \A nd \in Node, n \in Norm : l1[nd][n] # NoEntry =>
       Card(l1[nd][n]) /\ Knows(n, res[l1[nd][n].by].pk)
  /\ \A n \in Norm : neg[n] # NoEntry => Failure(neg[n]) /\ url[neg[n].by] = n

\* What a step may do to the caches: drop an entry, write what a crawl found, or copy a
\* payload to L1.
CachesMove ==
  /\ \A n \in Norm :
       \/ map'[n] \in {map[n], NoMap}
       \/ \E t \in Task : /\ pc[t] \in {"setMap", "setFinal"}
                          /\ n = IF pc[t] = "setMap" THEN url[t] ELSE res[t].final
                          /\ map'[n] = [pk |-> res[t].pk, exp |-> now + MapTtl]
  /\ \A p \in Pk :
       \/ payload'[p] \in {payload[p], NoEntry}
       \/ \E t \in Task : /\ pc[t] = "setPayload" /\ p = res[t].pk
                          /\ payload'[p] = [by |-> t, exp |-> now + PhysicalTtl(res[t])]
  /\ \A n \in Norm :
       \/ neg'[n] \in {neg[n], NoEntry}
       \/ \E t \in Task : /\ pc[t] = "setNeg" /\ n = url[t]
                          /\ neg'[n] = [by |-> t, exp |-> now + Ttl(res[t])]
  /\ \A nd \in Node, n \in Norm :
       \/ l1'[nd][n] \in {l1[nd][n], NoEntry}
       \/ \E t \in Task : /\ pc[t] = "setFinal" /\ n = url[t]
                          /\ l1'[nd][n] = [by |-> t, exp |-> now + L1Ttl]
       \/ \E t \in Task : /\ pc[t] = "getPayload" /\ n = url[t]
                          /\ payload[pk[t]] # NoEntry
                          /\ l1'[nd][n] = [by |-> payload[pk[t]].by, exp |-> now + L1Ttl]

LEMMA StepMovesCaches == ASSUME NEW t \in Task, TypeInv, Step(t) PROVE CachesMove
<1>1. CASE GetMap(t) \/ SetNx(t) \/ Unlock(t) \/ Crawl(t) \/ WriteAttempt(t) \/ SetShort(t)
           \/ WriteCrawl(t)
  <2>1. UNCHANGED <<map, payload, neg, l1>>
    BY <1>1 DEF GetMap, SetNx, Unlock, Crawl, WriteAttempt, SetShort, WriteCrawl, redis
  <2>. QED
    BY <2>1 DEF CachesMove
<1>2. CASE SetNeg(t)
  BY <1>2 DEF SetNeg, NegKey, CachesMove, TypeInv, TypeOK, SharedOK
<1>3. CASE SetPayload(t)
  BY <1>3 DEF SetPayload, CachesMove, TypeInv, TypeOK, SharedOK
<1>4. CASE SetMap(t)
  BY <1>4 DEF SetMap, CachesMove, TypeInv, TypeOK, SharedOK
<1>5. CASE SetFinal(t)
  BY <1>5 DEF SetFinal, CachesMove, TypeInv, TypeOK, SharedOK
<1>. QED
  BY <1>1, <1>2, <1>3, <1>4, <1>5 DEF Step

LEMMA NextMovesCaches == ASSUME TypeInv, [Next]_vars PROVE CachesMove
<1>1. ASSUME NEW r \in Request, LookupPayload(r) PROVE CachesMove
  <2>1. pc[Fg(r)] = "getPayload" /\ Fg(r) \in Task /\ UNCHANGED <<map, payload, neg>>
    BY <1>1, TaskFacts DEF LookupPayload, redis
  <2>2. CASE UNCHANGED l1
    BY <2>1, <2>2 DEF CachesMove
  <2>3. CASE l1' # l1
    <3>. DEFINE t == Fg(r)
                e == [by |-> payload[pk[t]].by, exp |-> now + L1Ttl]
    <3>1. l1' = [l1 EXCEPT ![node[t]][url[t]] = e] /\ payload[pk[t]] # NoEntry
      BY <1>1, <2>3 DEF LookupPayload
    <3>2. ASSUME NEW nd \in Node, NEW n \in Norm
          PROVE  \/ l1'[nd][n] = l1[nd][n]
                 \/ n = url[t] /\ l1'[nd][n] = e
      BY <3>1 DEF TypeInv, TypeOK, SharedOK
    <3>3. \A nd \in Node, n \in Norm :
            \/ l1'[nd][n] = l1[nd][n]
            \/ \E u \in Task : /\ pc[u] = "getPayload" /\ n = url[u]
                               /\ payload[pk[u]] # NoEntry
                               /\ l1'[nd][n] = [by |-> payload[pk[u]].by, exp |-> now + L1Ttl]
      BY <2>1, <3>1, <3>2
    <3>. QED
      BY <2>1, <3>3 DEF CachesMove
  <2>. QED
    BY <2>2, <2>3
<1>2. ASSUME NEW r \in Request, Arrive(r) \/ PollPayload(r) \/ GetNeg(r) PROVE CachesMove
  <2>1. UNCHANGED <<map, payload, neg, l1>>
    BY <1>2 DEF Arrive, PollPayload, GetNeg, redis
  <2>. QED
    BY <2>1 DEF CachesMove
<1>3. CASE Tick
  BY <1>3 DEF Tick, CachesMove
<1>4. ASSUME NEW nd \in Node, Crash(nd) PROVE CachesMove
  BY <1>4 DEF Crash, redis, CachesMove, TypeInv, TypeOK, SharedOK
<1>5. CASE UNCHANGED vars
  BY <1>5 DEF vars, redis, CachesMove
<1>. QED
  BY <1>1, <1>2, <1>3, <1>4, <1>5, StepMovesCaches DEF Next, Lookup

LEMMA KnowsStays ==
  ASSUME ResPlaced, Settled, NEW n, NEW p, Knows(n, p)
  PROVE  \E t \in Task : Succeeded(res'[t]) /\ n \in {url'[t], res'[t].final} /\ res'[t].pk = p
<1>1. PICK t \in Task : Succeeded(res[t]) /\ n \in {url[t], res[t].final} /\ res[t].pk = p
  BY DEF Knows
<1>2. res[t] # NoResult /\ pc[t] # "idle"
  BY <1>1, NoResultFacts DEF ResPlaced, BeforeResult
<1>3. res'[t] = res[t] /\ url'[t] = url[t]
  BY <1>2 DEF Settled
<1>. QED
  BY <1>1, <1>3

LEMMA CopiesStay ==
  ASSUME ResPlaced, Settled, NEW t \in Task, res[t] # NoResult
  PROVE  res'[t] = res[t] /\ url'[t] = url[t] /\ pc[t] # "idle"
BY DEF Settled, ResPlaced, BeforeResult

\* A chain that reads og:pl got its key from og:map.
LEMMA ReadsWhatIsMapped ==
  ASSUME TypeInv, CachesTrue, [Next]_vars, NEW t \in Task, pc'[t] = "getPayload"
  PROVE  Knows(url[t], pk'[t]) /\ url'[t] = url[t]
<1>1. CASE pc[t] = "getPayload" /\ pk'[t] = pk[t] /\ url'[t] = url[t]
  BY <1>1 DEF CachesTrue
<1>2. ASSUME NEW r \in Request, Arrive(r)
      PROVE  pc[t] = "getPayload" /\ pk'[t] = pk[t] /\ url'[t] = url[t]
  BY <1>2, ArriveHasFrame DEF ArriveFrame
<1>3. ASSUME NEW r \in Request, Lookup(r)
      PROVE  pc[t] = "getPayload" /\ pk'[t] = pk[t] /\ url'[t] = url[t]
  BY <1>3, LookupHasFrame, TaskFacts DEF LookupFrame
<1>4. CASE Tick \/ UNCHANGED vars
  BY <1>1, <1>4 DEF Tick, vars, local
<1>5. ASSUME NEW nd \in Node, Crash(nd)
      PROVE  pc[t] = "getPayload" /\ pk'[t] = pk[t] /\ url'[t] = url[t]
  <2>. DEFINE dead == {u \in Task : node[u] = nd /\ pc[u] \notin {"idle", "done", "dead"}}
  <2>1. /\ pc' = [u \in Task |-> IF u \in dead THEN "dead" ELSE pc[u]]
        /\ pk' = [u \in Task |-> IF u \in dead THEN None ELSE pk[u]]
        /\ url' = url
    BY <1>5 DEF Crash
  <2>2. t \notin dead
    BY <2>1
  <2>. QED
    BY <2>1, <2>2
<1>6. ASSUME NEW u \in Task, Step(u) PROVE Knows(url[t], pk'[t]) /\ url'[t] = url[t]
  <2>1. StepFrame(u)
    BY <1>6, StepHasFrame
  <2>2. CASE t # u
    BY <1>1, <2>1, <2>2 DEF StepFrame
  <2>3. CASE t = u
    <3>1. GetMap(t)
      BY <1>6, <2>3
         DEF Step, SetNx, Unlock, Crawl, AfterCrawl, SetNeg, WriteAttempt, SetPayload, SetMap,
             SetFinal, SetShort, WriteCrawl, AfterStore, BeginCrawl, Return, Goto, TypeInv,
             TypeOK, ChainOK
    <3>2. /\ pk' = [pk EXCEPT ![t] = MapValue(url[t])] /\ map[url[t]] # NoMap
          /\ url' = url /\ url[t] \in Norm
      BY <3>1 DEF GetMap, Goto, TypeInv, TypeOK, ChainOK, Placed
    <3>. QED
      BY <3>2 DEF CachesTrue, MapValue, TypeInv, TypeOK, ChainOK
  <2>. QED
    BY <2>2, <2>3
<1>. QED
  BY <1>1, <1>2, <1>3, <1>4, <1>5, <1>6 DEF Next

LEMMA CachesStep ==
  ASSUME TypeInv, ResPlaced, CachesTrue, [Next]_vars PROVE CachesTrue'
<1>1. ResPlaced' /\ Settled /\ CachesMove
  BY NextSettles, NextMovesCaches
<1>2. ASSUME NEW n \in Norm, map'[n] # NoMap
      PROVE  \E t \in Task : /\ Succeeded(res'[t]) /\ n \in {url'[t], res'[t].final}
                             /\ res'[t].pk = map'[n].pk
  <2>1. \E p : p = map'[n].pk /\ Knows(n, p)
    <3>1. CASE map'[n] = map[n]
      BY <1>2, <3>1 DEF CachesTrue
    <3>2. CASE map'[n] # map[n]
      <4>1. PICK t \in Task : /\ pc[t] \in {"setMap", "setFinal"}
                              /\ n = IF pc[t] = "setMap" THEN url[t] ELSE res[t].final
                              /\ map'[n] = [pk |-> res[t].pk, exp |-> now + MapTtl]
        BY <1>1, <1>2, <3>2 DEF CachesMove
      <4>2. Succeeded(res[t])
        BY <4>1 DEF ResPlaced, Stored
      <4>3. n \in {url[t], res[t].final} /\ map'[n].pk = res[t].pk
        BY <4>1
      <4>. QED
        BY <4>2, <4>3 DEF Knows
    <3>. QED
      BY <3>1, <3>2
  <2>. QED
    BY <2>1, <1>1, KnowsStays
<1>3. ASSUME NEW t \in Task, pc'[t] = "getPayload"
      PROVE  \E u \in Task : /\ Succeeded(res'[u]) /\ url'[t] \in {url'[u], res'[u].final}
                             /\ res'[u].pk = pk'[t]
  <2>1. Knows(url[t], pk'[t]) /\ url'[t] = url[t]
    BY <1>3, ReadsWhatIsMapped
  <2>. QED
    BY <1>1, <2>1, KnowsStays
<1>4. ASSUME NEW p \in Pk, payload'[p] # NoEntry
      PROVE  /\ payload'[p].by \in Task /\ Succeeded(res'[payload'[p].by])
             /\ res'[payload'[p].by].pk = p
  <2>1. PICK t \in Task : t = payload'[p].by /\ Succeeded(res[t]) /\ res[t].pk = p
    <3>1. CASE payload'[p] = payload[p]
      BY <1>4, <3>1 DEF CachesTrue, Card
    <3>2. CASE payload'[p] # payload[p]
      <4>1. PICK t \in Task : /\ pc[t] = "setPayload" /\ p = res[t].pk
                              /\ payload'[p] = [by |-> t, exp |-> now + PhysicalTtl(res[t])]
        BY <1>1, <1>4, <3>2 DEF CachesMove
      <4>2. Succeeded(res[t]) /\ payload'[p].by = t
        BY <4>1 DEF ResPlaced, Stored
      <4>. QED
        BY <4>1, <4>2
    <3>. QED
      BY <3>1, <3>2
  <2>. QED
    BY <1>1, <2>1, CopiesStay, NoResultFacts
<1>5. ASSUME NEW nd \in Node, NEW n \in Norm, l1'[nd][n] # NoEntry
      PROVE  /\ l1'[nd][n].by \in Task /\ Succeeded(res'[l1'[nd][n].by])
             /\ \E t \in Task : /\ Succeeded(res'[t]) /\ n \in {url'[t], res'[t].final}
                                /\ res'[t].pk = res'[l1'[nd][n].by].pk
  <2>1. PICK u \in Task : u = l1'[nd][n].by /\ Succeeded(res[u]) /\ Knows(n, res[u].pk)
    <3>1. CASE l1'[nd][n] = l1[nd][n]
      BY <1>5, <3>1 DEF CachesTrue, Card
    <3>2. ASSUME NEW t \in Task, pc[t] = "setFinal", n = url[t],
                 l1'[nd][n] = [by |-> t, exp |-> now + L1Ttl]
          PROVE  \E u \in Task : u = l1'[nd][n].by /\ Succeeded(res[u]) /\ Knows(n, res[u].pk)
      <4>1. Succeeded(res[t]) /\ l1'[nd][n].by = t
        BY <3>2 DEF ResPlaced, Stored
      <4>2. Knows(n, res[t].pk)
        BY <3>2, <4>1 DEF Knows
      <4>. QED
        BY <4>1, <4>2
    <3>3. ASSUME NEW t \in Task, pc[t] = "getPayload", n = url[t], payload[pk[t]] # NoEntry,
                 l1'[nd][n] = [by |-> payload[pk[t]].by, exp |-> now + L1Ttl]
          PROVE  \E u \in Task : u = l1'[nd][n].by /\ Succeeded(res[u]) /\ Knows(n, res[u].pk)
      <4>1. pk[t] \in Pk
        BY <3>3 DEF TypeInv, Placed
      <4>2. /\ Card(payload[pk[t]]) /\ res[payload[pk[t]].by].pk = pk[t] /\ Knows(n, pk[t])
            /\ l1'[nd][n].by = payload[pk[t]].by
        BY <3>3, <4>1 DEF CachesTrue
      <4>. QED
        BY <4>2 DEF Card
    <3>4. \/ l1'[nd][n] \in {l1[nd][n], NoEntry}
          \/ \E t \in Task : /\ pc[t] = "setFinal" /\ n = url[t]
                             /\ l1'[nd][n] = [by |-> t, exp |-> now + L1Ttl]
          \/ \E t \in Task : /\ pc[t] = "getPayload" /\ n = url[t]
                             /\ payload[pk[t]] # NoEntry
                             /\ l1'[nd][n] = [by |-> payload[pk[t]].by, exp |-> now + L1Ttl]
      BY <1>1 DEF CachesMove
    <3>. HIDE DEF Knows, Succeeded
    <3>. QED
      BY <1>5, <3>1, <3>2, <3>3, <3>4
  <2>2. res'[u] = res[u]
    BY <1>1, <2>1, CopiesStay, NoResultFacts
  <2>3. \E t \in Task : Succeeded(res'[t]) /\ n \in {url'[t], res'[t].final}
                        /\ res'[t].pk = res[u].pk
    BY <1>1, <2>1, KnowsStays
  <2>. QED
    BY <2>1, <2>2, <2>3
<1>6. ASSUME NEW n \in Norm, neg'[n] # NoEntry
      PROVE  /\ neg'[n].by \in Task /\ res'[neg'[n].by] # NoResult
             /\ ~Succeeded(res'[neg'[n].by]) /\ url'[neg'[n].by] = n
  <2>1. PICK t \in Task : /\ t = neg'[n].by /\ res[t] # NoResult /\ ~Succeeded(res[t])
                          /\ url[t] = n
    <3>1. CASE neg'[n] = neg[n]
      BY <1>6, <3>1 DEF CachesTrue, Failure
    <3>2. CASE neg'[n] # neg[n]
      <4>1. PICK t \in Task : /\ pc[t] = "setNeg" /\ n = url[t]
                              /\ neg'[n] = [by |-> t, exp |-> now + Ttl(res[t])]
        BY <1>1, <1>6, <3>2 DEF CachesMove
      <4>2. res[t] # NoResult /\ ~Succeeded(res[t]) /\ neg'[n].by = t
        BY <4>1 DEF ResPlaced
      <4>. QED
        BY <4>1, <4>2
    <3>. QED
      BY <3>1, <3>2
  <2>. QED
    BY <1>1, <2>1, CopiesStay
<1>. QED
  BY <1>2, <1>3, <1>4, <1>5, <1>6 DEF CachesTrue, Knows, Card, Failure

LEMMA CachesInit == Init => CachesTrue
BY DEF Init, CachesTrue, NoMap, NoEntry

----------------------------------------------------------------------------
(* What the answers are. *)

AnswersTrue ==
  \A r \in Request :
    LET got == answer[r] IN
    /\ got = NoAnswer <=> pc[Fg(r)] # "done"
    /\ got.kind = "none" => got = NoAnswer
    /\ got.kind \in {"hit", "stale"} => Card(got) /\ Knows(url[Fg(r)], res[got.by].pk)
    /\ got.kind = "negative" => Failure(got) /\ url[got.by] = url[Fg(r)]
    /\ got.kind = "miss" => got.by = Fg(r) /\ res[Fg(r)] # NoResult

\* What a step may do to the answer of r: nothing, or give it, as the request ends.
AnswerMove(r) ==
  LET t == Fg(r) IN
  \/ answer'[r] = answer[r] /\ (pc'[t] = "done" <=> pc[t] = "done")
  \/ /\ pc[t] # "done" /\ pc'[t] = "done"
     /\ \/ answer'[r] = [kind |-> "miss", by |-> t] /\ res[t] # NoResult
        \/ \E kind \in {"hit", "stale"}, u \in Task :
              /\ answer'[r] = [kind |-> kind, by |-> u]
              /\ u \in Visible /\ Succeeded(res[u]) /\ Knows(url'[t], res[u].pk)
        \/ /\ pc[t] = "getNeg" /\ neg[url[t]] # NoEntry
           /\ answer'[r] = [kind |-> "negative", by |-> neg[url[t]].by]

LEMMA StepAnswers ==
  ASSUME NEW t \in Task, TypeInv, ResPlaced, Step(t), NEW r \in Request PROVE AnswerMove(r)
<1>1. StepFrame(t)
  BY StepHasFrame
<1>2. CASE t # Fg(r)
  <2>1. answer'[r] = answer[r] /\ pc'[Fg(r)] = pc[Fg(r)]
    BY <1>1, <1>2, TaskFacts DEF StepFrame
  <2>. QED
    BY <2>1 DEF AnswerMove
<1>3. CASE t = Fg(r)
  <2>1. pc[t] # "done"
    BY <1>1 DEF StepFrame, Ended
  <2>2. CASE pc'[t] # "done"
    BY <1>1, <1>3, <2>1, <2>2 DEF StepFrame, AnswerMove
  <2>3. CASE pc'[t] = "done"
    <3>1. answer'[r] = [kind |-> "miss", by |-> t]
      BY <1>1, <1>3, <2>3 DEF StepFrame
    <3>2. pc[t] \in {"setNeg", "unlock", "writeCrawl"}
      <4>1. CASE SetNx(t)
        <5>1. t[2] # "bg"
          BY <1>3 DEF Fg
        <5>. QED
          BY <2>3, <4>1, <5>1 DEF SetNx, BeginCrawl, Goto, TypeInv, TypeOK, ChainOK
      <4>2. CASE ~SetNx(t)
        BY <2>3, <4>2
           DEF Step, GetMap, Unlock, Crawl, AfterCrawl, SetNeg, WriteAttempt, SetPayload,
               SetMap, SetFinal, SetShort, WriteCrawl, Goto, TypeInv, TypeOK, ChainOK
      <4>. QED
        BY <4>1, <4>2
    <3>3. res[t] # NoResult
      BY <3>2, NoResultFacts DEF ResPlaced, Stored
    <3>. QED
      BY <1>3, <2>1, <2>3, <3>1, <3>3 DEF AnswerMove
  <2>. QED
    BY <2>2, <2>3
<1>. QED
  BY <1>2, <1>3

LEMMA ArriveAnswers ==
  ASSUME NEW r \in Request, TypeInv, CachesTrue, Arrive(r) PROVE AnswerMove(r)
<1>. DEFINE t == Fg(r)
<1>1. t \in Task /\ pc[t] = "idle"
  BY TaskFacts DEF Arrive
<1>2. PICK n \in Norm, nd \in Node, rf \in BOOLEAN :
        /\ url' = [url EXCEPT ![t] = n]
        /\ \/ BeginCrawl(t, FALSE) /\ UNCHANGED <<answer, polls, pk>>
           \/ L1Hit(nd, n, rf) /\ Return(t, "hit", l1[nd][n].by)
           \/ Goto(t, FirstRead(rf)) /\ UNCHANGED <<answer, polls, pk, held, since>>
  BY DEF Arrive
<1>3. CASE L1Hit(nd, n, rf) /\ Return(t, "hit", l1[nd][n].by)
  <2>. DEFINE u == l1[nd][n].by
  <2>1. u \in Task /\ Succeeded(res[u]) /\ Knows(n, res[u].pk)
    BY <1>3 DEF L1Hit, CachesTrue, Card
  <2>4. u \in Visible
    BY DEF Visible
  <2>2. url'[t] = n /\ pc'[t] = "done"
    BY <1>1, <1>2, <1>3 DEF Return, TypeInv, TypeOK, ChainOK, PlaceOK
  <2>3. answer'[r] = [kind |-> "hit", by |-> u]
    BY <1>1, <1>3, ReturnAnswer DEF Return, TypeInv, TypeOK
  <2>. QED
    BY <1>1, <2>1, <2>2, <2>3, <2>4 DEF AnswerMove
<1>4. CASE (BeginCrawl(t, FALSE) \/ Goto(t, FirstRead(rf))) /\ UNCHANGED answer
  BY <1>1, <1>4 DEF AnswerMove, BeginCrawl, Goto, FirstRead, TypeInv, TypeOK, ChainOK
<1>. QED
  BY <1>2, <1>3, <1>4

LEMMA LookupAnswers ==
  ASSUME NEW r \in Request, TypeInv, CachesTrue, Lookup(r) PROVE AnswerMove(r)
<1>. DEFINE t == Fg(r)
            e == payload[pk[t]]
<1>1. /\ t \in Task /\ t # Bg(r) /\ pc[t] \in {"getPayload", "getNeg"} /\ url'[t] = url[t]
      /\ Bg(r) \in Task
  BY TaskFacts, LookupHasFrame DEF LookupFrame
<1>2. ASSUME NEW kind \in {"hit", "stale"}, Answer(t, kind, e.by), pc'[t] = "done",
             pc[t] = "getPayload", e # NoEntry
      PROVE  AnswerMove(r)
  <2>1. answer'[r] = [kind |-> kind, by |-> e.by]
    BY <1>1, <1>2, ReturnAnswer DEF TypeInv, TypeOK
  <2>2. /\ pk[t] \in Pk /\ Card(e) /\ res[e.by].pk = pk[t] /\ Knows(url[t], pk[t])
    BY <1>1, <1>2 DEF CachesTrue, TypeInv, Placed
  <2>3. /\ e.by \in Task /\ Succeeded(res[e.by]) /\ Knows(url'[t], res[e.by].pk)
        /\ e.by \in Visible
    BY <1>1, <2>2 DEF Card, Visible
  <2>. QED
    BY <1>1, <1>2, <2>1, <2>3 DEF AnswerMove
<1>3. CASE pc'[t] # "done" /\ UNCHANGED answer
  BY <1>1, <1>3 DEF AnswerMove
<1>4. CASE LookupPayload(r)
  <2>1. /\ pc[t] = "getPayload"
        /\ \/ e # NoEntry /\ Return(t, "hit", e.by)
           \/ /\ e # NoEntry /\ pc' = [pc EXCEPT ![t] = "done", ![Bg(r)] = "setNx"]
              /\ Answer(t, "stale", e.by)
           \/ Goto(t, "getNeg") /\ UNCHANGED answer
    BY <1>4 DEF LookupPayload
  <2>. QED
    BY <1>1, <1>2, <1>3, <2>1 DEF Return, Goto, TypeInv, TypeOK, ChainOK
<1>5. CASE PollPayload(r)
  <2>1. /\ pc[t] = "getPayload"
        /\ \/ e # NoEntry /\ Return(t, "hit", e.by)
           \/ Goto(t, "getNeg") /\ UNCHANGED answer
    BY <1>5 DEF PollPayload
  <2>. QED
    BY <1>1, <1>2, <1>3, <2>1 DEF Return, Goto, TypeInv, TypeOK, ChainOK
<1>6. CASE GetNeg(r)
  <2>1. /\ pc[t] = "getNeg"
        /\ \/ neg[url[t]] # NoEntry /\ Return(t, "negative", neg[url[t]].by)
           \/ /\ Goto(t, "setNx") \/ Goto(t, "getMap") \/ BeginCrawl(t, FALSE)
              /\ UNCHANGED answer
    BY <1>6 DEF GetNeg, GiveUp
  <2>2. CASE neg[url[t]] # NoEntry /\ Return(t, "negative", neg[url[t]].by)
    <3>1. answer'[r] = [kind |-> "negative", by |-> neg[url[t]].by] /\ pc'[t] = "done"
      BY <1>1, <2>2, ReturnAnswer DEF Return, TypeInv, TypeOK, ChainOK
    <3>. QED
      BY <2>1, <2>2, <3>1 DEF AnswerMove
  <2>. QED
    BY <1>1, <1>3, <2>1, <2>2 DEF BeginCrawl, Goto, TypeInv, TypeOK, ChainOK
<1>. QED
  BY <1>4, <1>5, <1>6 DEF Lookup

LEMMA NextAnswers ==
  ASSUME TypeInv, ResPlaced, CachesTrue, [Next]_vars, NEW r \in Request PROVE AnswerMove(r)
<1>1. ASSUME NEW s \in Request, Arrive(s) PROVE AnswerMove(r)
  <2>1. CASE s = r
    BY <1>1, <2>1, ArriveAnswers
  <2>2. CASE s # r
    BY <1>1, <2>2, ArriveHasFrame, TaskFacts DEF ArriveFrame, AnswerMove
  <2>. QED
    BY <2>1, <2>2
<1>2. ASSUME NEW s \in Request, Lookup(s) PROVE AnswerMove(r)
  <2>1. CASE s = r
    BY <1>2, <2>1, LookupAnswers
  <2>2. CASE s # r
    BY <1>2, <2>2, LookupHasFrame, TaskFacts DEF LookupFrame, AnswerMove
  <2>. QED
    BY <2>1, <2>2
<1>3. CASE Tick \/ UNCHANGED vars
  BY <1>3 DEF Tick, vars, AnswerMove
<1>4. ASSUME NEW nd \in Node, Crash(nd) PROVE AnswerMove(r)
  BY <1>4, TaskFacts DEF Crash, AnswerMove
<1>. QED
  BY <1>1, <1>2, <1>3, <1>4, StepAnswers DEF Next

LEMMA AnswersInit == Init => AnswersTrue
<1>1. ASSUME Init, NEW r \in Request PROVE answer[r] = NoAnswer /\ pc[Fg(r)] # "done"
  BY <1>1, TaskFacts DEF Init
<1>2. NoAnswer.kind = "none"
  BY DEF NoAnswer
<1>. QED
  BY <1>1, <1>2, Zenon DEF AnswersTrue

LEMMA AnswersStep ==
  ASSUME TypeInv, ResPlaced, CachesTrue, AnswersTrue, [Next]_vars PROVE AnswersTrue'
<1>1. Settled
  BY NextSettles
<1>2. SUFFICES ASSUME NEW r \in Request
               PROVE  LET got == answer'[r] IN
                      /\ got = NoAnswer <=> pc'[Fg(r)] # "done"
                      /\ got.kind = "none" => got = NoAnswer
                      /\ got.kind \in {"hit", "stale"} =>
                           /\ got.by \in Task /\ Succeeded(res'[got.by])
                           /\ \E t \in Task : /\ Succeeded(res'[t])
                                              /\ url'[Fg(r)] \in {url'[t], res'[t].final}
                                              /\ res'[t].pk = res'[got.by].pk
                      /\ got.kind = "negative" =>
                           /\ got.by \in Task /\ res'[got.by] # NoResult
                           /\ ~Succeeded(res'[got.by]) /\ url'[got.by] = url'[Fg(r)]
                      /\ got.kind = "miss" => got.by = Fg(r) /\ res'[Fg(r)] # NoResult
  BY DEF AnswersTrue, Card, Failure, Knows
<1>. DEFINE t == Fg(r)
            got == answer'[r]
            \* The answer in terms of what was there before the step.
            Told == /\ got = NoAnswer <=> pc'[t] # "done"
                    /\ got.kind = "none" => got = NoAnswer
                    /\ got.kind \in {"hit", "stale"} =>
                         got.by \in Task /\ Succeeded(res[got.by]) /\ Knows(url'[t], res[got.by].pk)
                    /\ got.kind = "negative" =>
                         /\ got.by \in Task /\ res[got.by] # NoResult
                         /\ ~Succeeded(res[got.by]) /\ url[got.by] = url'[t]
                    /\ got.kind = "miss" => got.by = t /\ res[t] # NoResult
<1>3. t \in Task
  BY TaskFacts
<1>4. Told
  <2>1. CASE answer'[r] = answer[r] /\ (pc'[t] = "done" <=> pc[t] = "done")
    <3>1. CASE pc[t] = "done"
      <4>1. url'[t] = url[t]
        BY <1>1, <1>3, <3>1 DEF Settled
      <4>. QED
        BY <2>1, <3>1, <4>1 DEF AnswersTrue, Card, Failure
    <3>2. CASE pc[t] # "done"
      BY <2>1, <3>2 DEF AnswersTrue, NoAnswer
    <3>. QED
      BY <3>1, <3>2
  <2>2. CASE /\ pc'[t] = "done"
             /\ answer'[r] = [kind |-> "miss", by |-> t] /\ res[t] # NoResult
    BY <2>2 DEF NoAnswer
  <2>3. ASSUME pc'[t] = "done", NEW kind \in {"hit", "stale"}, NEW u \in Task,
               answer'[r] = [kind |-> kind, by |-> u],
               Succeeded(res[u]), Knows(url'[t], res[u].pk)
        PROVE  Told
    BY <2>3 DEF NoAnswer
  <2>4. CASE /\ pc'[t] = "done" /\ pc[t] = "getNeg" /\ neg[url[t]] # NoEntry
             /\ answer'[r] = [kind |-> "negative", by |-> neg[url[t]].by]
    <3>1. url[t] \in Norm /\ url'[t] = url[t]
      BY <1>1, <1>3, <2>4 DEF Settled, TypeInv, Placed
    <3>2. Failure(neg[url[t]]) /\ url[neg[url[t]].by] = url[t]
      BY <2>4, <3>1 DEF CachesTrue
    <3>. QED
      BY <2>4, <3>1, <3>2 DEF NoAnswer, Failure
  <2>5. AnswerMove(r)
    BY NextAnswers
  <2>. QED
    BY <2>1, <2>2, <2>3, <2>4, <2>5 DEF AnswerMove
<1>5. \A u \in Task : res[u] # NoResult => res'[u] = res[u] /\ url'[u] = url[u]
  BY <1>1, CopiesStay
<1>6. CASE got.kind \in {"hit", "stale"}
  <2>1. PICK u \in Task : u = got.by /\ Succeeded(res[u]) /\ Knows(url'[t], res[u].pk)
    BY <1>4, <1>6
  <2>2. res'[u] = res[u]
    BY <1>5, <2>1, NoResultFacts
  <2>3. \E v \in Task : /\ Succeeded(res'[v]) /\ url'[t] \in {url'[v], res'[v].final}
                        /\ res'[v].pk = res[u].pk
    BY <1>1, <2>1, KnowsStays
  <2>. QED
    BY <1>4, <1>6, <2>1, <2>2, <2>3
<1>7. CASE got.kind \notin {"hit", "stale"}
  BY <1>3, <1>4, <1>5, <1>7
<1>. QED
  BY <1>6, <1>7

\* All that is known of results, caches and answers.
AnswerInv == TypeInv /\ ResPlaced /\ CachesTrue /\ AnswersTrue

LEMMA AnswerInvariant == Spec => []AnswerInv
<1>1. Init => AnswerInv
  BY TypeInit, ResInit, CachesInit, AnswersInit DEF AnswerInv
<1>2. AnswerInv /\ [Next]_vars => AnswerInv'
  BY TypeStep, NextSettles, CachesStep, AnswersStep DEF AnswerInv
<1>. QED
  BY <1>1, <1>2, PTL DEF Spec

\* Every answer is about the page that was asked for: a negative one or a miss is of a
\* crawl of this URL, and the payload of a hit has the key that some crawl of this URL, or
\* one that was redirected to it, was given.
THEOREM AnswersAreThePage == Spec => []AnswerIsThePage
<1>1. AnswerInv => AnswerIsThePage
  <2>. SUFFICES ASSUME AnswerInv, NEW r \in Request
                PROVE  LET got == answer[r]
                           n == url[Fg(r)]
                       IN
                       /\ got.kind \in {"miss", "negative"} => url[got.by] = n
                       /\ got.kind \in {"hit", "stale"} =>
                            \E t \in Task : /\ Succeeded(res[t]) /\ Succeeded(res[got.by])
                                            /\ n \in {url[t], res[t].final}
                                            /\ res[t].pk = res[got.by].pk
    BY DEF AnswerIsThePage
  <2>. QED
    BY DEF AnswerInv, AnswersTrue, Card, Failure, Knows
<1>. QED
  BY <1>1, AnswerInvariant, PTL

----------------------------------------------------------------------------
(* A failure that was stored before a success is not served after it: the  *)
(* times of what the caches hold.                                          *)

AfterAttempt == Stored \ {"attempt"}

\* Where the payload of a success, and where the result of any crawl, has been sent.
AfterPayload == {"setMap", "setFinal", "setShort", "writeCrawl", "unlock", "done", "dead"}
AfterResult == AfterPayload \ {"setMap"}

CrawlTimes ==
  \A t \in Task :
    /\ pc[t] \in Crawling => since[t] <= now /\ now <= since[t] + HoldMax
    /\ pc[t] \in AfterAttempt => since[t] <= at[t] /\ at[t] <= now

PayloadTimes ==
  \A p \in Pk : payload[p] # NoEntry =>
    LET t == payload[p].by IN
    pc[t] \in AfterPayload /\ at[t] + PhysicalTtl(res[t]) <= payload[p].exp

\* When the failure that og:neg holds for n was stored.
StoredAt(n) == neg[n].exp - Ttl(res[neg[n].by])

NegTimes == \A n \in Norm : neg[n] # NoEntry => StoredAt(n) <= now /\ now < neg[n].exp

HistoryOK ==
  /\ \A i \in 1..Len(history) : pc[history[i]] \in AfterResult
  /\ \A r \in Request : \A t \in past[r] : pc[t] = "done"

\* One chain at a time: when its crawl began, and when its payload was dated.
LEMMA StepTimes ==
  ASSUME NEW t \in Task, TypeInv, Step(t)
  PROVE  /\ now' = now
         /\ pc'[t] \in Crawling =>
              \/ since'[t] = now
              \/ since'[t] = since[t] /\ pc[t] \in Crawling
         /\ pc'[t] \in AfterAttempt =>
              \/ since'[t] = since[t] /\ at'[t] = now /\ pc[t] \in Crawling
              \/ since'[t] = since[t] /\ at'[t] = at[t] /\ pc[t] \in AfterAttempt
         /\ pc[t] \in AfterPayload => pc'[t] \in AfterPayload
         /\ pc[t] \in AfterResult => pc'[t] \in AfterResult
<1>1. CASE GetMap(t) \/ SetNx(t) \/ Unlock(t)
  <2>1. CASE SetNx(t)
    <3>1. \/ BeginCrawl(t, TRUE) \/ Goto(t, "getMap") \/ Return(t, "none", None)
      BY <2>1 DEF SetNx
    <3>. QED
      BY <2>1, <3>1
         DEF SetNx, BeginCrawl, Return, Goto, TypeInv, TypeOK, ChainOK, Stored,
             AfterAttempt, AfterPayload, AfterResult, Crawling
  <2>2. CASE GetMap(t) \/ Unlock(t)
    BY <2>2
       DEF GetMap, Unlock, Return, Goto, TypeInv, TypeOK, ChainOK, Stored, AfterAttempt,
           AfterPayload, AfterResult, Crawling
  <2>. QED
    BY <1>1, <2>1, <2>2
<1>2. CASE Crawl(t)
  <2>1. /\ pc[t] = "crawl" /\ UNCHANGED <<now, since, at>>
        /\ pc'[t] \in {"attempt", "setNeg"}
    BY <1>2 DEF Crawl, AfterCrawl, Goto, TypeInv, TypeOK, ChainOK
  <2>. QED
    BY <2>1 DEF Stored, AfterAttempt, AfterPayload, AfterResult, Crawling
<1>3. CASE WriteAttempt(t)
  BY <1>3
     DEF WriteAttempt, Goto, TypeInv, TypeOK, ChainOK, PlaceOK, Stored, AfterAttempt,
         AfterPayload, AfterResult, Crawling
<1>4. CASE SetPayload(t) \/ SetMap(t) \/ SetFinal(t) \/ SetShort(t)
  <2>1. /\ UNCHANGED <<now, since, at>>
        /\ \/ pc[t] = "setPayload" /\ pc'[t] = "setMap"
           \/ pc[t] = "setMap" /\ pc'[t] = "setFinal"
           \/ pc[t] = "setFinal" /\ pc'[t] \in {"setShort", "writeCrawl"}
           \/ pc[t] = "setShort" /\ pc'[t] = "writeCrawl"
    BY <1>4
       DEF SetPayload, SetMap, SetFinal, SetShort, Goto, TypeInv, TypeOK, ChainOK, local
  <2>. QED
    BY <2>1 DEF Stored, AfterAttempt, AfterPayload, AfterResult, Crawling
<1>5. CASE SetNeg(t) \/ WriteCrawl(t)
  <2>1. /\ UNCHANGED <<now, at>> /\ pc[t] \in {"setNeg", "writeCrawl"}
        /\ \/ pc'[t] = "unlock" /\ since' = since
           \/ pc'[t] = "done"
    BY <1>5 DEF SetNeg, WriteCrawl, AfterStore, Return, Goto, TypeInv, TypeOK, ChainOK
  <2>. QED
    BY <2>1 DEF Stored, AfterAttempt, AfterPayload, AfterResult, Crawling
<1>. QED
  BY <1>1, <1>2, <1>3, <1>4, <1>5 DEF Step

\* A lookup begins a crawl now, if it begins one.
LEMMA LookupTimes ==
  ASSUME NEW r \in Request, TypeInv, Lookup(r), pc'[Fg(r)] = "crawl"
  PROVE  since'[Fg(r)] = now
<1>1. Fg(r) \in Task /\ Fg(r) # Bg(r)
  BY TaskFacts
<1>2. CASE LookupPayload(r) \/ PollPayload(r)
  BY <1>1, <1>2 DEF LookupPayload, PollPayload, Return, Goto, TypeInv, TypeOK, ChainOK
<1>3. CASE GetNeg(r)
  BY <1>1, <1>3
     DEF GetNeg, GiveUp, BeginCrawl, Return, Goto, TypeInv, TypeOK, ChainOK
<1>. QED
  BY <1>2, <1>3 DEF Lookup

LEMMA ArriveTimes ==
  ASSUME NEW r \in Request, TypeInv, Arrive(r), pc'[Fg(r)] = "crawl"
  PROVE  since'[Fg(r)] = now
<1>1. Fg(r) \in Task
  BY TaskFacts
<1>. QED
  BY <1>1
     DEF Arrive, BeginCrawl, Return, Goto, FirstRead, TypeInv, TypeOK, ChainOK

\* Where the chains go, and what a crash leaves.
LEMMA LaterLabels ==
  ASSUME TypeInv, [Next]_vars, NEW t \in Task
  PROVE  /\ pc[t] \in AfterPayload => pc'[t] \in AfterPayload
         /\ pc[t] \in AfterResult => pc'[t] \in AfterResult
<1>1. ASSUME NEW r \in Request, Arrive(r) \/ Lookup(r)
      PROVE  pc'[t] = pc[t] \/ pc[t] \in {"idle", "getPayload", "getNeg"}
  BY <1>1, ArriveHasFrame, LookupHasFrame DEF ArriveFrame, LookupFrame
<1>2. CASE Tick \/ UNCHANGED vars
  BY <1>2 DEF Tick, vars
<1>3. ASSUME NEW nd \in Node, Crash(nd) PROVE pc'[t] \in {pc[t], "dead"}
  BY <1>3 DEF Crash
<1>4. ASSUME NEW u \in Task, Step(u)
      PROVE  /\ pc[t] \in AfterPayload => pc'[t] \in AfterPayload
             /\ pc[t] \in AfterResult => pc'[t] \in AfterResult
  <2>1. StepFrame(u)
    BY <1>4, StepHasFrame
  <2>. QED
    BY <1>4, <2>1, StepTimes DEF StepFrame
<1>. QED
  BY <1>1, <1>2, <1>3, <1>4 DEF Next, AfterPayload, AfterResult

LEMMA CrawlTimesStep ==
  ASSUME TypeInv, CrawlTimes, [Next]_vars PROVE CrawlTimes'
<1>1. now \in Nat /\ HoldMax \in Nat
  BY Constants DEF TypeInv, TypeOK, SharedOK
<1>2. SUFFICES ASSUME NEW t \in Task
               PROVE  /\ pc'[t] \in Crawling => since'[t] <= now' /\ now' <= since'[t] + HoldMax
                      /\ pc'[t] \in AfterAttempt => since'[t] <= at'[t] /\ at'[t] <= now'
  BY DEF CrawlTimes
<1>. DEFINE Timed == /\ pc'[t] \in Crawling => since'[t] <= now' /\ now' <= since'[t] + HoldMax
                     /\ pc'[t] \in AfterAttempt => since'[t] <= at'[t] /\ at'[t] <= now'
<1>3. CASE /\ now' = now /\ pc'[t] = pc[t] /\ since'[t] = since[t] /\ at'[t] = at[t]
  BY <1>3 DEF CrawlTimes
<1>4. CASE now' = now /\ pc'[t] = "crawl" /\ since'[t] = now
  BY <1>1, <1>4 DEF Stored, AfterAttempt
<1>5. CASE pc'[t] \notin Crawling
  BY <1>5 DEF Crawling, Stored, AfterAttempt
<1>6. ASSUME NEW r \in Request, Arrive(r) PROVE Timed
  <2>1. t # Fg(r) => pc'[t] = pc[t] /\ since'[t] = since[t] /\ at'[t] = at[t]
    BY <1>6, ArriveHasFrame DEF ArriveFrame
  <2>2. now' = now /\ pc'[Fg(r)] \in {"crawl", "done", "setNx", "getMap"}
    BY <1>6, ArriveHasFrame DEF ArriveFrame
  <2>. QED
    BY <1>3, <1>4, <1>5, <1>6, <2>1, <2>2, ArriveTimes DEF Crawling
<1>7. ASSUME NEW r \in Request, Lookup(r) PROVE Timed
  <2>1. LookupFrame(r)
    BY <1>7, LookupHasFrame
  <2>2. CASE t = Fg(r)
    <3>1. now' = now /\ pc'[t] \in {"getMap", "getNeg", "setNx", "crawl", "done"}
      BY <2>1, <2>2 DEF LookupFrame
    <3>. QED
      BY <1>4, <1>5, <1>7, <2>2, <3>1, LookupTimes DEF Crawling
  <2>3. CASE t = Bg(r)
    <3>1. pc'[t] \in {"idle", "setNx"}
      BY <2>1, <2>3 DEF LookupFrame
    <3>. QED
      BY <1>5, <3>1 DEF Crawling
  <2>4. CASE t \notin {Fg(r), Bg(r)}
    BY <1>3, <2>1, <2>4 DEF LookupFrame
  <2>. QED
    BY <2>2, <2>3, <2>4
<1>8. ASSUME NEW u \in Task, Step(u) PROVE Timed
  <2>1. CASE t # u
    <3>1. StepFrame(u) /\ now' = now
      BY <1>8, StepHasFrame, StepTimes
    <3>. QED
      BY <1>3, <2>1, <3>1 DEF StepFrame
  <2>2. CASE t = u
    BY <1>1, <1>8, <2>2, StepTimes DEF CrawlTimes, TypeInv, TypeOK, ChainOK
  <2>. QED
    BY <2>1, <2>2
<1>9. CASE Tick
  <2>1. /\ UNCHANGED <<pc, since, at>> /\ now' = now + 1
        /\ pc[t] \in Crawling => now < since[t] + HoldMax
    BY <1>9 DEF Tick, local
  <2>2. since[t] \in Nat /\ at[t] \in Nat
    BY DEF TypeInv, TypeOK, ChainOK, PlaceOK
  <2>. QED
    BY <1>1, <2>1, <2>2 DEF CrawlTimes
<1>10. ASSUME NEW nd \in Node, Crash(nd) PROVE Timed
  <2>1. CASE pc'[t] = "dead"
    BY <1>5, <2>1 DEF Crawling
  <2>2. CASE pc'[t] # "dead"
    BY <1>3, <1>10, <2>2 DEF Crash
  <2>. QED
    BY <2>1, <2>2
<1>11. CASE UNCHANGED vars
  BY <1>3, <1>11 DEF vars, local
<1>. QED
  BY <1>6, <1>7, <1>8, <1>9, <1>10, <1>11 DEF Next

LEMMA TtlOf ==
  ASSUME NEW x \in Result
  PROVE  /\ Succeeded(x) => Ttl(x) \in {CompleteTtl, PartialTtl}
         /\ ~Succeeded(x) => Ttl(x) \in {Neg4xxTtl, Neg5xxTtl}
         /\ Ttl(x) \in Nat \ {0}
         /\ 6 * Ttl(x) <= 5 * PhysicalTtl(x)
<1>1. Ttl(x) \in Nat \ {0}
  BY Constants DEF Ttl
<1>. QED
  BY <1>1 DEF Ttl, Succeeded, Result, Kind, PhysicalTtl

\* A result that some task has is a result of the type.
LEMMA ResultType ==
  ASSUME TypeInv, NEW t \in Task, res[t] # NoResult PROVE res[t] \in Result
BY DEF TypeInv, TypeOK, PlaceOK

LEMMA HistoryMoves ==
  ASSUME TypeInv, [Next]_vars
  PROVE  \/ history' = history
         \/ \E u \in Task : history' = Append(history, u) /\ (SetMap(u) \/ SetNeg(u))
<1>1. ASSUME NEW t \in Task, Step(t)
      PROVE  \/ history' = history
             \/ history' = Append(history, t) /\ (SetMap(t) \/ SetNeg(t))
  BY <1>1
     DEF Step, GetMap, SetNx, Unlock, Crawl, SetNeg, WriteAttempt, SetPayload, SetMap,
         SetFinal, SetShort, WriteCrawl, ghost
<1>2. CASE Tick \/ UNCHANGED vars \/ \E nd \in Node : Crash(nd)
  BY <1>2 DEF Tick, vars, Crash, ghost
<1>3. ASSUME NEW r \in Request, Arrive(r) \/ Lookup(r) PROVE history' = history
  BY <1>3, ArriveHasFrame, LookupHasFrame DEF ArriveFrame, LookupFrame
<1>. QED
  BY <1>1, <1>2, <1>3 DEF Next

LEMMA PastMoves ==
  ASSUME TypeInv, [Next]_vars, NEW r \in Request
  PROVE  past'[r] = past[r] \/ (Arrive(r) /\ past'[r] = {t \in Task : pc[t] = "done"})
<1>. DEFINE Moved == past'[r] = past[r] \/ (Arrive(r) /\ past'[r] = {t \in Task : pc[t] = "done"})
<1>1. ASSUME NEW s \in Request, Arrive(s) PROVE Moved
  <2>1. ArriveFrame(s)
    BY <1>1, ArriveHasFrame
  <2>2. CASE s = r
    BY <1>1, <2>1, <2>2 DEF ArriveFrame
  <2>3. CASE s # r
    BY <2>1, <2>3 DEF ArriveFrame
  <2>. QED
    BY <2>2, <2>3
<1>2. ASSUME NEW s \in Request, Lookup(s) PROVE Moved
  BY <1>2, LookupHasFrame DEF LookupFrame
<1>3. ASSUME NEW t \in Task, Step(t) PROVE Moved
  BY <1>3, StepHasFrame DEF StepFrame
<1>4. CASE Tick \/ UNCHANGED vars
  BY <1>4 DEF Tick, vars, ghost
<1>5. ASSUME NEW nd \in Node, Crash(nd) PROVE Moved
  BY <1>5 DEF Crash, ghost
<1>. QED
  BY <1>1, <1>2, <1>3, <1>4, <1>5 DEF Next

\* The clock moves with Tick alone.
LEMMA Clock ==
  ASSUME TypeInv, [Next]_vars PROVE now' = now \/ (Tick /\ now' = now + 1)
<1>1. ASSUME NEW t \in Task, Step(t) PROVE now' = now
  BY <1>1, StepTimes
<1>2. ASSUME NEW r \in Request, Arrive(r) \/ Lookup(r) PROVE now' = now
  BY <1>2, ArriveHasFrame, LookupHasFrame DEF ArriveFrame, LookupFrame
<1>3. ASSUME NEW nd \in Node, Crash(nd) PROVE now' = now
  BY <1>3 DEF Crash
<1>4. CASE UNCHANGED vars
  BY <1>4 DEF vars
<1>5. CASE Tick
  BY <1>5 DEF Tick
<1>. QED
  BY <1>1, <1>2, <1>3, <1>4, <1>5 DEF Next

LEMMA SendsResult ==
  ASSUME TypeInv, NEW t \in Task, SetMap(t) \/ SetNeg(t)
  PROVE  /\ pc[t] \in {"setMap", "setNeg"} /\ pc'[t] \in AfterResult
         /\ \A r \in Request : past'[r] = past[r]
BY DEF SetMap, SetNeg, AfterStore, Return, Goto, TypeInv, TypeOK, ChainOK, AfterResult,
       AfterPayload, ghost

LEMMA HistoryStep ==
  ASSUME TypeInv, ResPlaced, HistoryOK, [Next]_vars PROVE HistoryOK'
<1>1. Settled
  BY NextSettles
<1>2. history \in Seq(Task) /\ past \in [Request -> SUBSET Task]
  BY DEF TypeInv, TypeOK, ObservedOK
<1>3. ASSUME NEW i \in 1..Len(history') PROVE pc'[history'[i]] \in AfterResult
  <2>1. CASE history' = history
    <3>1. history[i] \in Task /\ pc[history[i]] \in AfterResult
      BY <1>2, <1>3, <2>1 DEF HistoryOK
    <3>. QED
      BY <2>1, <3>1, LaterLabels
  <2>2. ASSUME NEW u \in Task, history' = Append(history, u), SetMap(u) \/ SetNeg(u)
        PROVE  pc'[history'[i]] \in AfterResult
    <3>1. CASE i = Len(history) + 1
      BY <1>2, <2>2, <3>1, SendsResult
    <3>2. CASE i # Len(history) + 1
      <4>1. i \in 1..Len(history) /\ history'[i] = history[i] /\ history[i] \in Task
        BY <1>2, <1>3, <2>2, <3>2
      <4>2. pc[history[i]] \in AfterResult
        BY <4>1 DEF HistoryOK
      <4>. QED
        BY <4>1, <4>2, LaterLabels
    <3>. QED
      BY <3>1, <3>2
  <2>. QED
    BY <2>1, <2>2, HistoryMoves
<1>4. ASSUME NEW r \in Request, NEW t \in past'[r] PROVE pc'[t] = "done"
  <2>1. t \in Task /\ pc[t] = "done"
    BY <1>2, <1>4, PastMoves DEF HistoryOK
  <2>. QED
    BY <1>1, <2>1 DEF Settled
<1>. QED
  BY <1>3, <1>4 DEF HistoryOK

LEMMA NegTimesStep ==
  ASSUME TypeInv, ResPlaced, CachesTrue, NegTimes, [Next]_vars PROVE NegTimes'
<1>1. SUFFICES ASSUME NEW n \in Norm, neg'[n] # NoEntry
               PROVE  /\ neg'[n].exp - Ttl(res'[neg'[n].by]) <= now'
                      /\ now' < neg'[n].exp
  BY DEF NegTimes, StoredAt, Ttl
<1>2. now \in Nat /\ now <= now' /\ now' \in Nat
  BY Clock DEF TypeInv, TypeOK, SharedOK
<1>3. \A t \in Task : res[t] # NoResult => res'[t] = res[t]
  BY NextSettles DEF Settled
<1>4. CASE neg'[n] = neg[n]
  <2>1. Failure(neg[n]) /\ StoredAt(n) <= now /\ now < neg[n].exp /\ neg[n].exp \in Nat
    BY <1>1, <1>4 DEF CachesTrue, NegTimes, TypeInv, TypeOK, SharedOK, Entry
  <2>2. Ttl(res'[neg[n].by]) = Ttl(res[neg[n].by]) /\ Ttl(res[neg[n].by]) \in Nat
    BY <1>3, <2>1, TtlType DEF Failure
  <2>3. now' < neg'[n].exp
    <3>1. CASE Tick
      BY <1>1, <1>2, <1>4, <2>1, <3>1 DEF Tick
    <3>2. CASE now' = now
      BY <1>4, <2>1, <3>2
    <3>. QED
      BY <3>1, <3>2, Clock
  <2>. QED
    BY <1>2, <1>4, <2>1, <2>2, <2>3 DEF StoredAt
<1>5. CASE neg'[n] # neg[n]
  <2>1. PICK t \in Task : /\ SetNeg(t) /\ neg'[n] = [by |-> t, exp |-> now + Ttl(res[t])]
    <3>1. PICK t \in Task : SetNeg(t)
      BY <1>1, <1>5
         DEF Next, Arrive, Lookup, LookupPayload, PollPayload, GetNeg, Step, GetMap, SetNx,
             Unlock, Crawl, WriteAttempt, SetPayload, SetMap, SetFinal, SetShort, WriteCrawl,
             Tick, Crash, vars, redis
    <3>. QED
      BY <1>1, <1>5, <3>1 DEF SetNeg, TypeInv, TypeOK, SharedOK
  <2>2. res[t] # NoResult /\ res'[t] = res[t] /\ now' = now
    BY <2>1 DEF SetNeg, ResPlaced
  <2>3. Ttl(res[t]) \in Nat \ {0}
    BY <2>2, ResultType, TtlOf
  <2>. QED
    BY <1>2, <2>1, <2>2, <2>3
<1>. QED
  BY <1>4, <1>5

LEMMA PayloadTimesStep ==
  ASSUME TypeInv, ResPlaced, CachesTrue, CrawlTimes, PayloadTimes, [Next]_vars
  PROVE  PayloadTimes'
<1>1. SUFFICES ASSUME NEW p \in Pk, payload'[p] # NoEntry
               PROVE  /\ pc'[payload'[p].by] \in AfterPayload
                      /\ at'[payload'[p].by] + PhysicalTtl(res'[payload'[p].by])
                           <= payload'[p].exp
  BY DEF PayloadTimes, PhysicalTtl, Ttl
<1>2. Settled
  BY NextSettles
<1>3. CASE payload'[p] = payload[p]
  <2>1. PICK t \in Task : /\ t = payload[p].by /\ Succeeded(res[t])
                          /\ pc[t] \in AfterPayload
                          /\ at[t] + PhysicalTtl(res[t]) <= payload[p].exp
    BY <1>1, <1>3 DEF CachesTrue, Card, PayloadTimes
  <2>2. pc'[t] \in AfterPayload
    BY <2>1, LaterLabels
  <2>3. at'[t] = at[t] /\ res'[t] = res[t]
    BY <1>2, <2>1, NoResultFacts DEF Settled, AfterPayload
  <2>. QED
    BY <1>3, <2>1, <2>2, <2>3
<1>4. CASE payload'[p] # payload[p]
  <2>1. PICK t \in Task : SetPayload(t)
    BY <1>1, <1>4
       DEF Next, Arrive, Lookup, LookupPayload, PollPayload, GetNeg, Step, GetMap, SetNx,
           Unlock, Crawl, WriteAttempt, SetNeg, SetMap, SetFinal, SetShort, WriteCrawl,
           Tick, Crash, vars, redis
  <2>2. /\ payload'[p] = [by |-> t, exp |-> now + PhysicalTtl(res[t])]
        /\ pc[t] = "setPayload" /\ pc'[t] = "setMap" /\ UNCHANGED <<at, res>>
    BY <1>1, <1>4, <2>1
       DEF SetPayload, Goto, TypeInv, TypeOK, SharedOK, ChainOK, local
  <2>3. at[t] <= now /\ at[t] \in Nat /\ now \in Nat /\ PhysicalTtl(res[t]) \in Nat
    BY <2>2, TtlType
       DEF CrawlTimes, AfterAttempt, Stored, TypeInv, TypeOK, SharedOK, PlaceOK
  <2>. QED
    BY <2>2, <2>3 DEF AfterPayload
<1>. QED
  BY <1>3, <1>4

----------------------------------------------------------------------------
(* Why the failure is not served: as long as it lasts, the map and the     *)
(* payload of the success do.                                              *)

\* A failure does not outlive a mapping, nor the 1.2 TTL of a payload less two crawls: one
\* that may still overwrite the payload, one that the payload may be older than its date.
NegOutlived ==
  \A f \in {Neg4xxTtl, Neg5xxTtl} :
    /\ f <= MapTtl
    /\ \A s \in {CompleteTtl, PartialTtl} : 5 * (f + 2 * HoldMax) <= 6 * s

PayloadSince(p, T) == payload[p] # NoEntry /\ T <= at[payload[p].by]

\* In the order their results reached Redis, f came before a success of n that is in S.
Beaten(f, n, S) ==
  \E i, j \in 1..Len(history) :
    /\ history[i] = f /\ i < j /\ history[j] \in S
    /\ Succeeded(res[history[j]]) /\ url[history[j]] = n

\* Behind the payload that a chain is about to map stands one dated after its lock was
\* taken, less one crawl: its own, or that of a crawl that ended in between.
InFlight ==
  \A t \in Task : pc[t] \in {"setMap", "setFinal"} =>
    PayloadSince(res[t].pk, since[t] - HoldMax)

\* Redis itself: a failure with a later success is covered by a mapping and a payload.
Covered ==
  \A n \in Norm : neg[n] # NoEntry /\ Beaten(neg[n].by, n, Task) =>
    /\ map[n] # NoMap /\ StoredAt(n) + MapTtl <= map[n].exp
    /\ PayloadSince(map[n].pk, StoredAt(n) - 2 * HoldMax)

\* A request that is reading: if the success was there before it came, it reads a payload
\* that is still servable and never gets as far as og:neg.
ReadCovered ==
  \A r \in Request :
    LET t == Fg(r)
        n == url[t]
    IN
    pc[t] \in {"getNeg", "getPayload"} /\ neg[n] # NoEntry /\ Beaten(neg[n].by, n, past[r]) =>
      pc[t] = "getPayload" /\ PayloadSince(pk[t], StoredAt(n) - 2 * HoldMax)

NegInv ==
  /\ AnswerInv /\ faults = 0
  /\ CrawlTimes /\ PayloadTimes /\ NegTimes /\ HistoryOK
  /\ InFlight /\ Covered /\ ReadCovered /\ NegNeverMasksSuccess

LEMMA ResMoves ==
  ASSUME TypeInv, [Next]_vars, NEW t \in Task, pc[t] # "crawl" PROVE res'[t] = res[t]
<1>1. ASSUME NEW u \in Task, Step(u) PROVE res'[t] = res[t]
  <2>1. StepFrame(u)
    BY <1>1, StepHasFrame
  <2>. QED
    BY <2>1 DEF StepFrame
<1>2. ASSUME NEW r \in Request, Arrive(r) \/ Lookup(r) PROVE res' = res
  BY <1>2, ArriveHasFrame, LookupHasFrame DEF ArriveFrame, LookupFrame
<1>3. CASE Tick \/ UNCHANGED vars \/ \E nd \in Node : Crash(nd)
  BY <1>3 DEF Tick, Crash, vars, local
<1>. QED
  BY <1>1, <1>2, <1>3 DEF Next

\* What is beaten after a step was so before, unless a success is mapped in this step.
LEMMA BeatenBefore ==
  ASSUME TypeInv, ResPlaced, HistoryOK, [Next]_vars, NEW f, NEW n, NEW S \in SUBSET Task,
         NEW i \in 1..Len(history'), NEW j \in 1..Len(history'),
         history'[i] = f, i < j, history'[j] \in S,
         Succeeded(res'[history'[j]]), url'[history'[j]] = n
  PROVE  /\ f \in Task /\ pc[f] \in AfterResult
         /\ Beaten(f, n, S) \/ \E u \in S : SetMap(u) /\ url[u] = n
<1>1. history \in Seq(Task) /\ Settled
  BY NextSettles DEF TypeInv, TypeOK, ObservedOK
<1>2. \A u \in Task : pc[u] \in AfterResult \cup {"setMap", "setNeg"} =>
        res'[u] = res[u] /\ url'[u] = url[u]
  BY <1>1, ResMoves DEF Settled, AfterResult, AfterPayload
<1>3. \A k \in 1..Len(history) : history[k] \in Task /\ pc[history[k]] \in AfterResult
  BY <1>1 DEF HistoryOK
<1>4. CASE j \in 1..Len(history) /\ history'[i] = history[i] /\ history'[j] = history[j]
  <2>1. i \in 1..Len(history)
    BY <1>1, <1>4
  <2>2. Succeeded(res[history[j]]) /\ url[history[j]] = n
    BY <1>2, <1>3, <1>4
  <2>3. Beaten(f, n, S)
    BY <1>4, <2>1, <2>2 DEF Beaten
  <2>. QED
    BY <1>3, <1>4, <2>1, <2>3
<1>5. CASE history' = history
  BY <1>4, <1>5
<1>6. ASSUME NEW u \in Task, history' = Append(history, u), SetMap(u) \/ SetNeg(u)
      PROVE  /\ f \in Task /\ pc[f] \in AfterResult
             /\ Beaten(f, n, S) \/ \E v \in S : SetMap(v) /\ url[v] = n
  <2>1. i \in 1..Len(history) /\ history'[i] = history[i]
    BY <1>1, <1>6
  <2>2. CASE j = Len(history) + 1
    <3>1. history'[j] = u /\ pc[u] \in {"setMap", "setNeg"}
      BY <1>1, <1>6, <2>2 DEF SetMap, SetNeg
    <3>2. Succeeded(res[u]) /\ url[u] = n
      BY <1>2, <3>1
    <3>3. SetMap(u)
      BY <1>6, <3>2 DEF SetNeg, ResPlaced
    <3>. QED
      BY <1>3, <2>1, <3>1, <3>2, <3>3
  <2>3. CASE j # Len(history) + 1
    <3>1. j \in 1..Len(history) /\ history'[j] = history[j]
      BY <1>1, <1>6, <2>3
    <3>. QED
      BY <1>4, <2>1, <3>1
  <2>. QED
    BY <2>2, <2>3
<1>. QED
  BY <1>5, <1>6, HistoryMoves

\* A payload that is young enough stays one, expired or overwritten or not.
LEMMA PayloadHolds ==
  ASSUME TypeInv, ResPlaced, CachesTrue, CrawlTimes, PayloadTimes, [Next]_vars,
         NEW p \in Pk, NEW T \in Int, PayloadSince(p, T), T + HoldMax <= now,
         \A s \in {CompleteTtl, PartialTtl} : 5 * (now' - T) < 6 * s
  PROVE  payload'[p] # NoEntry /\ T <= at'[payload'[p].by]
<1>1. PICK t \in Task : /\ t = payload[p].by /\ Succeeded(res[t]) /\ T <= at[t]
                        /\ pc[t] \in AfterPayload
                        /\ at[t] + PhysicalTtl(res[t]) <= payload[p].exp
                        /\ payload[p].exp \in Nat
  BY DEF PayloadSince, CachesTrue, Card, PayloadTimes, TypeInv, TypeOK, SharedOK, Entry
<1>2. /\ Settled /\ now \in Nat /\ HoldMax \in Nat /\ at[t] \in Nat
      /\ CompleteTtl \in Nat /\ PartialTtl \in Nat
  BY NextSettles, Constants DEF TypeInv, TypeOK, SharedOK, PlaceOK
<1>3. CASE payload'[p] = payload[p]
  BY <1>1, <1>2, <1>3 DEF Settled, AfterPayload, PayloadSince
<1>4. CASE Tick
  <2>1. res[t] \in Result
    BY <1>1, ResultType, NoResultFacts
  <2>2. PICK s \in {CompleteTtl, PartialTtl} : 6 * s <= 5 * PhysicalTtl(res[t])
    BY <1>1, <2>1, TtlOf
  <2>3. s \in Nat /\ PhysicalTtl(res[t]) \in Nat /\ now' = now + 1
    BY <1>2, <1>4, TtlType DEF Tick
  <2>4. payload[p].exp > now + 1
    BY <1>1, <1>2, <2>2, <2>3
  <2>5. payload'[p] = payload[p]
    BY <1>4, <2>4 DEF Tick
  <2>. QED
    BY <1>3, <2>5
<1>5. ASSUME NEW u \in Task, SetPayload(u)
      PROVE  payload'[p] # NoEntry /\ T <= at'[payload'[p].by]
  <2>1. \/ payload'[p] = payload[p]
        \/ payload'[p] = [by |-> u, exp |-> now + PhysicalTtl(res[u])]
    BY <1>5 DEF SetPayload, TypeInv, TypeOK, SharedOK
  <2>2. CASE payload'[p] = [by |-> u, exp |-> now + PhysicalTtl(res[u])]
    <3>1. /\ since[u] <= at[u] /\ now <= since[u] + HoldMax /\ at' = at
          /\ since[u] \in Nat /\ at[u] \in Nat
      BY <1>5
         DEF SetPayload, CrawlTimes, AfterAttempt, Stored, Crawling, local, TypeInv, TypeOK,
             ChainOK, PlaceOK
    <3>2. T <= at'[u] /\ u # None
      BY <1>2, <3>1, Constants
    <3>. QED
      BY <2>2, <3>2 DEF NoEntry
  <2>. QED
    BY <1>3, <2>1, <2>2
<1>6. payload' = payload \/ Tick \/ \E u \in Task : SetPayload(u)
  <2>1. ASSUME NEW u \in Task, Step(u), ~SetPayload(u) PROVE payload' = payload
    BY <2>1
       DEF Step, GetMap, SetNx, Unlock, Crawl, SetNeg, WriteAttempt, SetMap, SetFinal,
           SetShort, WriteCrawl, redis
  <2>2. ASSUME NEW r \in Request, Arrive(r) \/ Lookup(r) PROVE payload' = payload
    BY <2>2, ArriveHasFrame, LookupHasFrame DEF ArriveFrame, LookupFrame, redis
  <2>3. CASE UNCHANGED vars \/ \E nd \in Node : Crash(nd)
    BY <2>3 DEF Crash, vars, redis
  <2>. QED
    BY <2>1, <2>2, <2>3 DEF Next
<1>. QED
  BY <1>3, <1>4, <1>5, <1>6

LEMMA InFlightStep ==
  ASSUME NegOutlived, NegInv, [Next]_vars, faults' = 0 PROVE InFlight'
<1>1. /\ TypeInv /\ ResPlaced /\ CachesTrue /\ CrawlTimes /\ PayloadTimes /\ InFlight
  BY DEF NegInv, AnswerInv
<1>2. CrawlTimes'
  BY <1>1, CrawlTimesStep
<1>3. SUFFICES ASSUME NEW t \in Task, pc'[t] \in {"setMap", "setFinal"}
               PROVE  /\ payload'[res'[t].pk] # NoEntry
                      /\ since'[t] - HoldMax <= at'[payload'[res'[t].pk].by]
  BY DEF InFlight, PayloadSince
<1>4. /\ now \in Nat /\ HoldMax \in Nat /\ since[t] \in Nat
      /\ {Neg4xxTtl, CompleteTtl, PartialTtl} \subseteq Nat \ {0}
  BY <1>1, Constants DEF TypeInv, TypeOK, SharedOK, ChainOK
<1>5. CASE pc[t] \in {"setMap", "setFinal"} /\ since'[t] = since[t] /\ res'[t] = res[t]
  <2>. DEFINE T == since[t] - HoldMax
  <2>1. PayloadSince(res[t].pk, T) /\ res[t].pk \in Pk
    <3>1. res[t] \in Result
      BY <1>1, <1>5 DEF TypeInv, Placed, Stored
    <3>. QED
      BY <1>1, <1>5, <3>1 DEF InFlight, Result
  <2>2. T \in Int /\ T + HoldMax <= now
    BY <1>1, <1>4, <1>5 DEF CrawlTimes, Crawling
  <2>3. ASSUME NEW s \in {CompleteTtl, PartialTtl} PROVE 5 * (now' - T) < 6 * s
    <3>1. now' <= since[t] + HoldMax /\ now' \in Nat
      BY <1>1, <1>2, <1>3, <1>4, <1>5, Clock DEF CrawlTimes, Crawling
    <3>2. 5 * (Neg4xxTtl + 2 * HoldMax) <= 6 * s /\ Neg4xxTtl \in Nat \ {0} /\ s \in Nat
      BY <1>4 DEF NegOutlived
    <3>. QED
      BY <1>4, <3>1, <3>2
  <2>. QED
    BY <1>1, <1>5, <2>1, <2>2, <2>3, PayloadHolds
<1>6. CASE SetPayload(t)
  <2>1. /\ payload' = [payload EXCEPT ![res[t].pk] =
                         [by |-> t, exp |-> now + PhysicalTtl(res[t])]]
        /\ UNCHANGED <<res, since, at>> /\ pc[t] = "setPayload"
    BY <1>1, <1>6, CommandType DEF SetPayload, local, TypeInv, TypeOK, ObservedOK
  <2>2. res[t].pk \in Pk /\ since[t] <= at[t] /\ at[t] \in Nat
    BY <1>1, <2>1
       DEF TypeInv, TypeOK, PlaceOK, Placed, Stored, Result, CrawlTimes, AfterAttempt
  <2>3. payload'[res'[t].pk] = [by |-> t, exp |-> now + PhysicalTtl(res[t])] /\ t # None
    BY <1>1, <2>1, <2>2, Constants DEF TypeInv, TypeOK, SharedOK
  <2>4. since'[t] - HoldMax <= at'[t]
    BY <1>4, <2>1, <2>2
  <2>. QED
    BY <2>3, <2>4 DEF NoEntry
<1>7. SetPayload(t) \/ (pc[t] \in {"setMap", "setFinal"} /\ since'[t] = since[t])
  <2>1. ASSUME NEW r \in Request, Arrive(r) \/ Lookup(r)
        PROVE  pc'[t] = pc[t] /\ since'[t] = since[t]
    BY <1>3, <2>1, <1>1, ArriveHasFrame, LookupHasFrame DEF ArriveFrame, LookupFrame
  <2>2. CASE Tick \/ UNCHANGED vars
    BY <1>3, <2>2 DEF Tick, vars, local
  <2>3. ASSUME NEW nd \in Node, Crash(nd) PROVE pc'[t] = pc[t] /\ since'[t] = since[t]
    BY <1>3, <2>3 DEF Crash
  <2>4. ASSUME NEW u \in Task, Step(u), u # t PROVE pc'[t] = pc[t] /\ since'[t] = since[t]
    <3>1. StepFrame(u)
      BY <1>1, <2>4, StepHasFrame
    <3>. QED
      BY <2>4, <3>1 DEF StepFrame
  <2>5. CASE Step(t)
    <3>1. CASE SetMap(t) \/ SetFinal(t)
      BY <3>1, <1>1 DEF SetMap, SetFinal, local
    <3>2. CASE Crawl(t) \/ WriteAttempt(t) \/ SetShort(t) \/ WriteCrawl(t) \/ SetNeg(t)
      BY <1>1, <1>3, <3>2
         DEF Crawl, AfterCrawl, WriteAttempt, SetShort, WriteCrawl, SetNeg, AfterStore,
             Return, Goto, TypeInv, TypeOK, ChainOK
    <3>3. CASE GetMap(t) \/ SetNx(t) \/ Unlock(t)
      BY <1>1, <1>3, <3>3
         DEF GetMap, SetNx, Unlock, BeginCrawl, Return, Goto, TypeInv, TypeOK, ChainOK
    <3>. QED
      BY <2>5, <3>1, <3>2, <3>3 DEF Step
  <2>. QED
    BY <1>3, <2>1, <2>2, <2>3, <2>4, <2>5 DEF Next
<1>8. pc[t] \in {"setMap", "setFinal"} => res'[t] = res[t]
  BY <1>1, ResMoves
<1>. QED
  BY <1>5, <1>6, <1>7, <1>8

\* The mapping of n: it expires, or the crawl of a page behind n sets it.
Maps(t, n) == (SetMap(t) /\ n = url[t]) \/ (SetFinal(t) /\ n = res[t].final)

LEMMA MapMoves ==
  ASSUME TypeInv, [Next]_vars, faults' = 0, NEW n \in Norm
  PROVE  \/ map'[n] = map[n] /\ \A t \in Task : ~Maps(t, n)
         \/ Tick /\ \A t \in Task : ~Maps(t, n)
         \/ \E t \in Task : Maps(t, n) /\ map'[n] = [pk |-> res[t].pk, exp |-> now + MapTtl]
<1>. DEFINE Goal == \/ map'[n] = map[n] /\ \A t \in Task : ~Maps(t, n)
                    \/ Tick /\ \A t \in Task : ~Maps(t, n)
                    \/ \E t \in Task :
                         Maps(t, n) /\ map'[n] = [pk |-> res[t].pk, exp |-> now + MapTtl]
<1>1. ASSUME NEW t \in Task, Maps(t, n)
      PROVE  map'[n] = [pk |-> res[t].pk, exp |-> now + MapTtl]
  <2>1. CASE SetMap(t) /\ n = url[t]
    BY <2>1, CommandType DEF SetMap, TypeInv, TypeOK, SharedOK, ObservedOK
  <2>2. CASE SetFinal(t) /\ n = res[t].final
    BY <2>2, CommandType DEF SetFinal, TypeInv, TypeOK, SharedOK, ObservedOK
  <2>. QED
    BY <1>1, <2>1, <2>2 DEF Maps
<1>2. ASSUME \A t \in Task : ~Maps(t, n), ~Tick PROVE map'[n] = map[n]
  <2>1. ASSUME NEW t \in Task, Step(t) PROVE map'[n] = map[n]
    <3>1. CASE SetMap(t) \/ SetFinal(t)
      BY <1>2, <3>1 DEF Maps, SetMap, SetFinal, TypeInv, TypeOK, SharedOK
    <3>2. CASE ~(SetMap(t) \/ SetFinal(t))
      BY <2>1, <3>2
         DEF Step, GetMap, SetNx, Unlock, Crawl, SetNeg, WriteAttempt, SetPayload, SetShort,
             WriteCrawl, redis
    <3>. QED
      BY <3>1, <3>2
  <2>2. ASSUME NEW r \in Request, Arrive(r) \/ Lookup(r) PROVE map' = map
    BY <2>2, ArriveHasFrame, LookupHasFrame DEF ArriveFrame, LookupFrame, redis
  <2>3. CASE UNCHANGED vars \/ \E nd \in Node : Crash(nd)
    BY <2>3 DEF Crash, vars, redis
  <2>. QED
    BY <1>2, <2>1, <2>2, <2>3 DEF Next
<1>. QED
  BY <1>1, <1>2

\* A failure that is beaten was there before the step.
LEMMA BeatenStood ==
  ASSUME TypeInv, ResPlaced, CachesTrue, NegTimes, [Next]_vars,
         NEW n \in Norm, neg'[n] # NoEntry, neg'[n].by \in Task,
         pc[neg'[n].by] \in AfterResult
  PROVE  /\ neg'[n] = neg[n]
         /\ StoredAt(n)' = StoredAt(n) /\ StoredAt(n) \in Int
         /\ StoredAt(n) <= now
         /\ \E f \in {Neg4xxTtl, Neg5xxTtl} : now' < StoredAt(n) + f
<1>1. neg'[n] = neg[n]
  <2>1. \/ neg'[n] \in {neg[n], NoEntry}
        \/ \E t \in Task : /\ pc[t] = "setNeg"
                           /\ neg'[n] = [by |-> t, exp |-> now + Ttl(res[t])]
    BY NextMovesCaches DEF CachesMove
  <2>2. ASSUME NEW t \in Task, pc[t] = "setNeg",
               neg'[n] = [by |-> t, exp |-> now + Ttl(res[t])]
        PROVE  FALSE
    <3>1. neg'[n].by = t
      BY <2>2
    <3>. QED
      BY <2>2, <3>1 DEF AfterResult, AfterPayload
  <2>. QED
    BY <2>1, <2>2
<1>2. PICK t \in Task : /\ t = neg[n].by /\ res[t] # NoResult /\ ~Succeeded(res[t])
                        /\ neg[n].exp \in Nat
  BY <1>1 DEF CachesTrue, Failure, TypeInv, TypeOK, SharedOK, Entry
<1>3. res'[t] = res[t]
  BY <1>2, NextSettles DEF Settled
<1>4. res[t] \in Result /\ Ttl(res[t]) \in {Neg4xxTtl, Neg5xxTtl} /\ Ttl(res[t]) \in Nat
  BY <1>2, ResultType, TtlOf
<1>5. StoredAt(n)' = neg[n].exp - Ttl(res[t]) /\ StoredAt(n) = neg[n].exp - Ttl(res[t])
  BY <1>1, <1>2, <1>3 DEF StoredAt, Ttl
<1>6. now' < neg'[n].exp /\ StoredAt(n) <= now
  BY <1>1, NegTimesStep DEF NegTimes
<1>7. now \in Nat /\ now' \in Nat
  BY TypeStep DEF TypeInv, TypeOK, SharedOK
<1>8. now' < StoredAt(n) + Ttl(res[t])
  BY <1>1, <1>2, <1>4, <1>5, <1>6, <1>7
<1>. QED
  BY <1>1, <1>2, <1>4, <1>5, <1>6, <1>8

\* As long as a failure lasts, a payload dated two crawls before it was stored does too.
LEMMA OutlivedWindow ==
  ASSUME NegOutlived, NEW T \in Int, NEW f \in {Neg4xxTtl, Neg5xxTtl}, NEW x \in Int, x < T + f
  PROVE  \A s \in {CompleteTtl, PartialTtl} : 5 * (x - (T - 2 * HoldMax)) < 6 * s
<1>1. SUFFICES ASSUME NEW s \in {CompleteTtl, PartialTtl}
               PROVE  5 * (x - (T - 2 * HoldMax)) < 6 * s
  OBVIOUS
<1>2. f \in Nat /\ s \in Nat /\ HoldMax \in Nat
  BY Constants
<1>3. 5 * (f + 2 * HoldMax) <= 6 * s
  BY DEF NegOutlived
<1>. QED
  BY <1>2, <1>3

LEMMA CoveredStep ==
  ASSUME NegOutlived, NegInv, [Next]_vars, faults' = 0 PROVE Covered'
<1>1. /\ TypeInv /\ ResPlaced /\ CachesTrue /\ CrawlTimes /\ PayloadTimes /\ NegTimes
      /\ HistoryOK /\ InFlight /\ Covered
  BY DEF NegInv, AnswerInv
<1>2. SUFFICES ASSUME NEW n \in Norm, neg'[n] # NoEntry,
                      NEW i \in 1..Len(history'), NEW j \in 1..Len(history'),
                      history'[i] = neg'[n].by, i < j, history'[j] \in Task,
                      Succeeded(res'[history'[j]]), url'[history'[j]] = n
               PROVE  /\ map'[n] # NoMap /\ StoredAt(n)' + MapTtl <= map'[n].exp
                      /\ payload'[map'[n].pk] # NoEntry
                      /\ StoredAt(n)' - 2 * HoldMax <= at'[payload'[map'[n].pk].by]
  BY DEF Covered, Beaten, PayloadSince
<1>. DEFINE f == neg'[n].by
            T == StoredAt(n) - 2 * HoldMax
<1>3. /\ f \in Task /\ pc[f] \in AfterResult
      /\ Beaten(f, n, Task) \/ \E u \in Task : SetMap(u) /\ url[u] = n
  <2>. HIDE DEF f
  <2>1. history'[i] = f
    BY <1>2 DEF f
  <2>. QED
    BY <1>1, <1>2, <2>1, BeatenBefore, ZenonT(30)
<1>4. /\ neg'[n] = neg[n] /\ StoredAt(n)' = StoredAt(n) /\ StoredAt(n) \in Int
      /\ StoredAt(n) <= now
      /\ \E g \in {Neg4xxTtl, Neg5xxTtl} : now' < StoredAt(n) + g
  BY <1>1, <1>2, <1>3, BeatenStood
<1>5. /\ now \in Nat /\ now' \in Nat /\ HoldMax \in Nat /\ MapTtl \in Nat
      /\ Neg4xxTtl \in Nat /\ Neg5xxTtl \in Nat
  <2>1. now \in Nat
    BY <1>1 DEF TypeInv, TypeOK, SharedOK
  <2>2. now' \in Nat
    BY <1>1, <2>1, Clock
  <2>. QED
    BY <2>1, <2>2, Constants
<1>6. ASSUME NEW t \in Task, Maps(t, n), map'[n] = [pk |-> res[t].pk, exp |-> now + MapTtl]
      PROVE  /\ map'[n] # NoMap /\ StoredAt(n) + MapTtl <= map'[n].exp
             /\ payload'[map'[n].pk] # NoEntry /\ T <= at'[payload'[map'[n].pk].by]
  <2>1. /\ pc[t] \in {"setMap", "setFinal"} /\ UNCHANGED <<payload, at>>
    BY <1>6 DEF Maps, SetMap, SetFinal, local
  <2>2. PayloadSince(res[t].pk, since[t] - HoldMax) /\ now <= since[t] + HoldMax
    BY <1>1, <2>1 DEF InFlight, CrawlTimes, Crawling
  <2>3. res[t].pk \in Pk /\ since[t] \in Nat
    <3>1. res[t] \in Result
      BY <1>1, <2>1 DEF TypeInv, Placed, Stored
    <3>. QED
      BY <1>1, <3>1 DEF TypeInv, TypeOK, Result, ChainOK
  <2>4. payload[res[t].pk].by \in Task /\ at[payload[res[t].pk].by] \in Nat
    BY <1>1, <2>2, <2>3 DEF PayloadSince, CachesTrue, Card, TypeInv, TypeOK, PlaceOK
  <2>5. T <= at[payload[res[t].pk].by]
    <3>. DEFINE x == at[payload[res[t].pk].by]
                S == StoredAt(n)
    <3>1. since[t] - HoldMax <= x /\ now <= since[t] + HoldMax /\ S <= now
      BY <1>4, <2>2 DEF PayloadSince
    <3>2. x \in Nat /\ S \in Int /\ now \in Nat /\ since[t] \in Nat /\ HoldMax \in Nat
      BY <1>4, <1>5, <2>3, <2>4
    <3>. HIDE DEF x, S
    <3>3. S - 2 * HoldMax <= x
      BY <3>1, <3>2
    <3>. QED
      BY <3>3 DEF x, S
  <2>6. map'[n] # NoMap
    BY <1>6, <2>3, Constants DEF NoMap
  <2>7. StoredAt(n) + MapTtl <= map'[n].exp
    BY <1>4, <1>5, <1>6
  <2>. QED
    BY <1>6, <2>1, <2>2, <2>5, <2>6, <2>7 DEF PayloadSince
<1>7. ASSUME \A t \in Task : ~Maps(t, n)
      PROVE  /\ map'[n] # NoMap /\ StoredAt(n) + MapTtl <= map'[n].exp
             /\ payload'[map'[n].pk] # NoEntry /\ T <= at'[payload'[map'[n].pk].by]
  <2>1. Beaten(neg[n].by, n, Task)
    BY <1>3, <1>4, <1>7 DEF Maps
  <2>2. /\ map[n] # NoMap /\ StoredAt(n) + MapTtl <= map[n].exp
        /\ PayloadSince(map[n].pk, T)
    BY <1>1, <1>2, <1>4, <2>1 DEF Covered
  <2>3. map[n].pk \in Pk /\ map[n].exp \in Nat
    BY <1>1, <2>2 DEF TypeInv, TypeOK, SharedOK
  <2>4. map'[n] = map[n]
    <3>1. CASE Tick
      <4>1. map[n].exp > now + 1
        <5>1. PICK g \in {Neg4xxTtl, Neg5xxTtl} : now' < StoredAt(n) + g
          BY <1>4
        <5>2. g <= MapTtl /\ g \in Nat /\ now' = now + 1
          BY <1>5, <3>1 DEF NegOutlived, Tick
        <5>. QED
          BY <1>4, <1>5, <2>2, <2>3, <5>1, <5>2, SMTT(20)
      <4>. QED
        BY <3>1, <4>1 DEF Tick
    <3>. QED
      BY <1>1, <1>7, <3>1, MapMoves
  <2>5. \A s \in {CompleteTtl, PartialTtl} : 5 * (now' - T) < 6 * s
    <3>1. PICK g \in {Neg4xxTtl, Neg5xxTtl} : now' < StoredAt(n) + g
      BY <1>4
    <3>. DEFINE S == StoredAt(n)
    <3>2. S \in Int /\ now' \in Int /\ now' < S + g
      BY <1>4, <1>5, <3>1
    <3>. HIDE DEF S
    <3>3. \A s \in {CompleteTtl, PartialTtl} : 5 * (now' - (S - 2 * HoldMax)) < 6 * s
      BY <3>2, OutlivedWindow
    <3>. QED
      BY <3>3 DEF S
  <2>6. T \in Int /\ T + HoldMax <= now
    BY <1>4, <1>5
  <2>7. payload'[map[n].pk] # NoEntry /\ T <= at'[payload'[map[n].pk].by]
    <3>. HIDE DEF T
    <3>. QED
      BY <1>1, <2>2, <2>3, <2>5, <2>6, PayloadHolds
  <2>. QED
    BY <2>2, <2>4, <2>7
<1>8. /\ map'[n] # NoMap /\ StoredAt(n) + MapTtl <= map'[n].exp
      /\ payload'[map'[n].pk] # NoEntry /\ T <= at'[payload'[map'[n].pk].by]
  BY <1>1, <1>6, <1>7, MapMoves
<1>. QED
  BY <1>4, <1>8

\* How a request comes to a read: it was at one already, or has read og:map.
LEMMA ReadMoves ==
  ASSUME TypeInv, [Next]_vars, NEW r \in Request, pc'[Fg(r)] \in {"getNeg", "getPayload"}
  PROVE  LET t == Fg(r) IN
         /\ url'[t] = url[t]
         /\ \/ pc'[t] = pc[t] /\ pk'[t] = pk[t]
            \/ GetMap(t)
            \/ pc'[t] = "getNeg" /\ (LookupPayload(r) \/ PollPayload(r))
<1>. DEFINE t == Fg(r)
<1>1. t \in Task
  BY TaskFacts
<1>2. ASSUME NEW s \in Request, Arrive(s)
      PROVE  url'[t] = url[t] /\ pc'[t] = pc[t] /\ pk'[t] = pk[t]
  <2>1. ArriveFrame(s)
    BY <1>2, ArriveHasFrame
  <2>. QED
    BY <1>1, <2>1 DEF ArriveFrame
<1>3. ASSUME NEW s \in Request, Lookup(s), s # r
      PROVE  url'[t] = url[t] /\ pc'[t] = pc[t] /\ pk'[t] = pk[t]
  <2>1. LookupFrame(s) /\ t # Fg(s) /\ t # Bg(s)
    BY <1>3, LookupHasFrame, TaskFacts
  <2>. QED
    BY <1>1, <2>1 DEF LookupFrame
<1>4. CASE Lookup(r)
  <2>1. url'[t] = url[t]
    BY <1>1, <1>4, LookupHasFrame, TaskFacts DEF LookupFrame
  <2>2. ~GetNeg(r)
    BY <1>1 DEF GetNeg, GiveUp, BeginCrawl, Return, Goto, TypeInv, TypeOK, ChainOK
  <2>3. pc'[t] = "getNeg"
    BY <1>1, <1>4, LookupHasFrame DEF LookupFrame
  <2>. QED
    BY <1>4, <2>1, <2>2, <2>3 DEF Lookup
<1>5. ASSUME NEW u \in Task, Step(u), u # t
      PROVE  url'[t] = url[t] /\ pc'[t] = pc[t] /\ pk'[t] = pk[t]
  <2>1. StepFrame(u)
    BY <1>5, StepHasFrame
  <2>. QED
    BY <1>1, <1>5, <2>1 DEF StepFrame
<1>6. CASE Step(t)
  <2>1. url'[t] = url[t]
    BY <1>1, <1>6, StepHasFrame DEF StepFrame
  <2>2. GetMap(t)
    <3>1. ~SetNx(t)
      BY <1>1 DEF SetNx, BeginCrawl, Return, Goto, TypeInv, TypeOK, ChainOK
    <3>2. ~(SetNeg(t) \/ WriteCrawl(t) \/ Unlock(t) \/ Crawl(t) \/ WriteAttempt(t))
      BY <1>1
         DEF SetNeg, WriteCrawl, Unlock, Crawl, AfterCrawl, WriteAttempt, AfterStore, Return,
             Goto, TypeInv, TypeOK, ChainOK
    <3>3. ~(SetPayload(t) \/ SetMap(t) \/ SetFinal(t) \/ SetShort(t))
      BY <1>1 DEF SetPayload, SetMap, SetFinal, SetShort, Goto, TypeInv, TypeOK, ChainOK
    <3>. QED
      BY <1>6, <3>1, <3>2, <3>3 DEF Step
  <2>. QED
    BY <2>1, <2>2
<1>7. CASE Tick \/ UNCHANGED vars
  BY <1>7 DEF Tick, vars, local
<1>8. ASSUME NEW nd \in Node, Crash(nd)
      PROVE  url'[t] = url[t] /\ pc'[t] = pc[t] /\ pk'[t] = pk[t]
  <2>. DEFINE dead == {u \in Task : node[u] = nd /\ pc[u] \notin {"idle", "done", "dead"}}
  <2>1. /\ pc' = [u \in Task |-> IF u \in dead THEN "dead" ELSE pc[u]]
        /\ pk' = [u \in Task |-> IF u \in dead THEN None ELSE pk[u]]
        /\ url' = url
    BY <1>8 DEF Crash
  <2>2. t \notin dead
    BY <1>1, <2>1
  <2>. QED
    BY <1>1, <2>1, <2>2
<1>. QED
  BY <1>2, <1>3, <1>4, <1>5, <1>6, <1>7, <1>8 DEF Next

\* The lookup answers from a payload that is dated late enough: a hit or a stale answer.
LEMMA ServableAnswers ==
  ASSUME NegOutlived, NegInv, [Next]_vars, faults' = 0, NEW r \in Request,
         pc[Fg(r)] = "getPayload", pc'[Fg(r)] = "getNeg", NEW T \in Int,
         \A s \in {CompleteTtl, PartialTtl} : 5 * (now - T) < 6 * s,
         PayloadSince(pk[Fg(r)], T)
  PROVE  ~(LookupPayload(r) \/ PollPayload(r))
<1>. DEFINE t == Fg(r)
            e == payload[pk[t]]
<1>1. TypeInv /\ CachesTrue /\ t \in Task /\ Bg(r) \in Task /\ t # Bg(r)
  BY TaskFacts DEF NegInv, AnswerInv
<1>2. /\ e # NoEntry /\ T <= at[e.by] /\ pk[t] \in Pk
  BY <1>1 DEF PayloadSince, TypeInv, Placed
<1>3. e.by \in Task /\ Succeeded(res[e.by]) /\ at[e.by] \in Nat /\ now \in Nat
  BY <1>1, <1>2 DEF CachesTrue, Card, TypeInv, TypeOK, SharedOK, PlaceOK
<1>4. ~PollPayload(r)
  <2>1. ASSUME PollPayload(r) PROVE FALSE
    <3>1. PICK ok \in BOOLEAN : Command(ok, ok) /\ (ok => Return(t, "hit", e.by))
      BY <1>2, <2>1 DEF PollPayload
    <3>2. Return(t, "hit", e.by)
      BY <1>1, <3>1, CommandType DEF TypeInv, TypeOK, ObservedOK
    <3>. QED
      BY <1>1, <3>2 DEF Return, TypeInv, TypeOK, ChainOK
  <2>. QED
    BY <2>1
<1>5. Fresh(e.by) \/ Stale(e.by)
  <2>1. res[e.by] \in Result
    BY <1>1, <1>3, ResultType, NoResultFacts
  <2>2. Ttl(res[e.by]) \in {CompleteTtl, PartialTtl} /\ Ttl(res[e.by]) \in Nat
    BY <1>3, <2>1, TtlOf
  <2>3. 5 * (now - at[e.by]) < 6 * Ttl(res[e.by])
    BY <1>2, <1>3, <2>2
  <2>. QED
    BY <2>3 DEF Fresh, Stale
<1>6. ~LookupPayload(r)
  <2>1. ASSUME LookupPayload(r) PROVE FALSE
    <3>1. PICK ok \in BOOLEAN :
            /\ Command(ok, ok)
            /\ \/ Return(t, "hit", e.by)
               \/ pc' = [pc EXCEPT ![t] = "done", ![Bg(r)] = "setNx"]
               \/ ~(ok /\ e # NoEntry /\ (Fresh(e.by) \/ Stale(e.by)))
      BY <2>1 DEF LookupPayload
    <3>2. ok
      BY <1>1, <3>1, CommandType DEF TypeInv, TypeOK, ObservedOK
    <3>3. \/ Return(t, "hit", e.by)
          \/ pc' = [pc EXCEPT ![t] = "done", ![Bg(r)] = "setNx"]
      BY <1>2, <1>5, <3>1, <3>2
    <3>. QED
      BY <1>1, <3>3 DEF Return, TypeInv, TypeOK, ChainOK
  <2>. QED
    BY <2>1
<1>. QED
  BY <1>4, <1>6

LEMMA ReadCoveredStep ==
  ASSUME NegOutlived, NegInv, [Next]_vars, faults' = 0 PROVE ReadCovered'
<1>1. /\ TypeInv /\ ResPlaced /\ CachesTrue /\ CrawlTimes /\ PayloadTimes /\ NegTimes
      /\ HistoryOK /\ Covered /\ ReadCovered
  BY DEF NegInv, AnswerInv
<1>2. SUFFICES
        ASSUME NEW r \in Request, pc'[Fg(r)] \in {"getNeg", "getPayload"},
               NEW n, n = url'[Fg(r)], neg'[n] # NoEntry,
               NEW i \in 1..Len(history'), NEW j \in 1..Len(history'),
               history'[i] = neg'[n].by, i < j, history'[j] \in past'[r],
               Succeeded(res'[history'[j]]), url'[history'[j]] = n
        PROVE  /\ pc'[Fg(r)] = "getPayload" /\ payload'[pk'[Fg(r)]] # NoEntry
               /\ StoredAt(n)' - 2 * HoldMax <= at'[payload'[pk'[Fg(r)]].by]
  BY DEF ReadCovered, Beaten, PayloadSince, StoredAt, Ttl
<1>. DEFINE t == Fg(r)
            f == neg'[n].by
            T == StoredAt(n) - 2 * HoldMax
<1>3. t \in Task /\ url'[t] = url[t] /\ n = url[t]
  BY <1>1, <1>2, ReadMoves, TaskFacts
<1>4. /\ n \in Norm /\ past'[r] = past[r] /\ past[r] \in SUBSET Task
  <2>1. pc[t] # "idle"
    <3>1. \/ pc'[t] = pc[t] \/ GetMap(t) \/ LookupPayload(r) \/ PollPayload(r)
      BY <1>1, <1>2, ReadMoves
    <3>. QED
      BY <1>2, <3>1 DEF GetMap, LookupPayload, PollPayload
  <2>2. n \in Norm
    BY <1>1, <1>3, <2>1 DEF TypeInv, Placed
  <2>3. past'[r] = past[r]
    BY <1>1, <2>1, PastMoves DEF Arrive
  <2>. QED
    BY <1>1, <2>2, <2>3 DEF TypeInv, TypeOK, ObservedOK
<1>5. f \in Task /\ pc[f] \in AfterResult /\ Beaten(f, n, past[r])
  <2>1. /\ f \in Task /\ pc[f] \in AfterResult
        /\ Beaten(f, n, past[r]) \/ \E u \in past[r] : SetMap(u) /\ url[u] = n
    <3>. HIDE DEF f
    <3>1. history'[i] = f /\ history'[j] \in past[r]
      BY <1>2, <1>4 DEF f
    <3>. QED
      BY <1>1, <1>2, <1>4, <3>1, BeatenBefore
  <2>2. \A u \in past[r] : ~SetMap(u)
    BY <1>1 DEF HistoryOK, SetMap
  <2>. QED
    BY <2>1, <2>2
<1>6. /\ neg'[n] = neg[n] /\ StoredAt(n)' = StoredAt(n) /\ StoredAt(n) \in Int
      /\ StoredAt(n) <= now
      /\ \E g \in {Neg4xxTtl, Neg5xxTtl} : now' < StoredAt(n) + g
  BY <1>1, <1>2, <1>4, <1>5, BeatenStood
<1>7. now \in Nat /\ now' \in Nat /\ now <= now' /\ HoldMax \in Nat
  <2>1. now \in Nat
    BY <1>1 DEF TypeInv, TypeOK, SharedOK
  <2>. QED
    BY <1>1, <2>1, Clock, Constants, SMTT(20)
<1>8. T \in Int /\ T + HoldMax <= now
  BY <1>6, <1>7
<1>9. /\ \A s \in {CompleteTtl, PartialTtl} : 5 * (now' - T) < 6 * s
      /\ \A s \in {CompleteTtl, PartialTtl} : 5 * (now - T) < 6 * s
  <2>1. PICK g \in {Neg4xxTtl, Neg5xxTtl} : now' < StoredAt(n) + g
    BY <1>6
  <2>. DEFINE S == StoredAt(n)
  <2>2. S \in Int /\ now' \in Int /\ now \in Int /\ now' < S + g /\ now < S + g
    <3>1. S \in Int /\ now' < S + g
      BY <1>6, <2>1
    <3>2. g \in Nat
      BY Constants
    <3>. HIDE DEF S
    <3>. QED
      BY <1>7, <3>1, <3>2
  <2>. HIDE DEF S
  <2>3. \A s \in {CompleteTtl, PartialTtl} : 5 * (now' - (S - 2 * HoldMax)) < 6 * s
    BY <2>2, OutlivedWindow
  <2>4. \A s \in {CompleteTtl, PartialTtl} : 5 * (now - (S - 2 * HoldMax)) < 6 * s
    BY <2>2, OutlivedWindow
  <2>. QED
    BY <2>3, <2>4 DEF S
<1>10. CASE GetMap(t)
  <2>1. /\ map[n] # NoMap /\ PayloadSince(map[n].pk, T)
    <3>1. Beaten(neg[n].by, n, Task)
      BY <1>4, <1>5, <1>6 DEF Beaten
    <3>. QED
      BY <1>1, <1>2, <1>4, <1>6, <3>1 DEF Covered
  <2>2. /\ pk'[t] = map[n].pk /\ pc'[t] = "getPayload" /\ UNCHANGED <<payload, at>>
    <3>1. PICK ok \in BOOLEAN :
            /\ Command(ok, ok)
            /\ ok => pk' = [pk EXCEPT ![t] = MapValue(n)] /\ Goto(t, "getPayload")
      BY <1>3, <1>10, <2>1 DEF GetMap
    <3>2. ok
      BY <1>1, <3>1, CommandType DEF TypeInv, TypeOK, ObservedOK
    <3>. QED
      BY <1>1, <1>3, <1>10, <3>1, <3>2
         DEF GetMap, Goto, MapValue, TypeInv, TypeOK, ChainOK, redis
  <2>. QED
    BY <1>6, <2>1, <2>2 DEF PayloadSince
<1>11. CASE pc[t] \in {"getNeg", "getPayload"}
  <2>1. pc[t] = "getPayload" /\ PayloadSince(pk[t], T) /\ pk[t] \in Pk
    <3>1. Beaten(neg[n].by, n, past[r]) /\ neg[n] # NoEntry
      BY <1>2, <1>5, <1>6
    <3>2. pc[t] = "getPayload" /\ PayloadSince(pk[t], T)
      BY <1>1, <1>3, <1>11, <3>1 DEF ReadCovered
    <3>. QED
      BY <1>1, <1>3, <3>2 DEF TypeInv, Placed
  <2>. HIDE DEF T
  <2>2. payload'[pk[t]] # NoEntry /\ T <= at'[payload'[pk[t]].by]
    BY <1>1, <1>8, <1>9, <2>1, PayloadHolds
  <2>3. pc'[t] = pc[t] /\ pk'[t] = pk[t]
    <3>1. ~(pc'[t] = "getNeg" /\ (LookupPayload(r) \/ PollPayload(r)))
      BY <1>8, <1>9, <2>1, ServableAnswers
    <3>2. ~GetMap(t)
      BY <2>1 DEF GetMap
    <3>. QED
      BY <1>1, <1>2, <3>1, <3>2, ReadMoves
  <2>4. T = StoredAt(n)' - 2 * HoldMax
    BY <1>6 DEF T
  <2>. QED
    BY <2>1, <2>2, <2>3, <2>4
<1>. QED
  <2>1. \/ pc'[t] = pc[t] \/ GetMap(t) \/ LookupPayload(r) \/ PollPayload(r)
    BY <1>1, <1>2, ReadMoves
  <2>. QED
    BY <1>2, <1>10, <1>11, <2>1 DEF LookupPayload, PollPayload

LEMMA NeverMaskedStep ==
  ASSUME NegInv, [Next]_vars PROVE NegNeverMasksSuccess'
<1>1. /\ TypeInv /\ ResPlaced /\ CachesTrue /\ AnswersTrue /\ HistoryOK /\ ReadCovered
      /\ NegNeverMasksSuccess
  BY DEF NegInv, AnswerInv
<1>2. SUFFICES
        ASSUME NEW r \in Request, answer'[r].kind = "negative",
               NEW i \in 1..Len(history'), NEW j \in 1..Len(history'),
               history'[i] = answer'[r].by, i < j, history'[j] \in past'[r],
               Succeeded(res'[history'[j]]), url'[history'[j]] = url'[Fg(r)]
        PROVE  FALSE
  BY DEF NegNeverMasksSuccess
<1>. DEFINE t == Fg(r)
            n == url'[t]
            f == answer'[r].by
<1>3. \/ answer'[r] = answer[r] /\ pc[t] = "done"
      \/ /\ pc[t] = "getNeg" /\ neg[url[t]] # NoEntry
         /\ answer'[r] = [kind |-> "negative", by |-> neg[url[t]].by]
  <2>1. AnswerMove(r)
    BY <1>1, NextAnswers
  <2>2. answer'[r] # [kind |-> "miss", by |-> t]
    BY <1>2
  <2>3. \A kind \in {"hit", "stale"}, u \in Task : answer'[r] # [kind |-> kind, by |-> u]
    BY <1>2
  <2>4. answer'[r] = answer[r] => pc[t] = "done"
    <3>1. answer'[r] # NoAnswer
      BY <1>2 DEF NoAnswer
    <3>. QED
      BY <1>1, <3>1 DEF AnswersTrue
  <2>. QED
    BY <2>1, <2>2, <2>3, <2>4 DEF AnswerMove
<1>4. t \in Task /\ pc[t] # "idle" /\ url'[t] = url[t]
  BY <1>1, <1>3, NextSettles, TaskFacts DEF Settled
<1>5. past'[r] = past[r] /\ past[r] \in SUBSET Task
  BY <1>1, <1>4, PastMoves DEF Arrive, TypeInv, TypeOK, ObservedOK
<1>6. Beaten(f, n, past[r])
  <2>1. Beaten(f, n, past[r]) \/ \E u \in past[r] : SetMap(u) /\ url[u] = n
    <3>. HIDE DEF f, n
    <3>1. history'[i] = f /\ history'[j] \in past[r] /\ url'[history'[j]] = n
      BY <1>2, <1>5 DEF f, n
    <3>. QED
      BY <1>1, <1>2, <1>5, <3>1, BeatenBefore
  <2>2. \A u \in past[r] : ~SetMap(u)
    BY <1>1 DEF HistoryOK, SetMap
  <2>. QED
    BY <2>1, <2>2
<1>7. CASE answer'[r] = answer[r]
  BY <1>1, <1>2, <1>4, <1>6, <1>7 DEF NegNeverMasksSuccess, Beaten
<1>8. CASE /\ pc[t] = "getNeg" /\ neg[url[t]] # NoEntry
           /\ answer'[r] = [kind |-> "negative", by |-> neg[url[t]].by]
  <2>1. Beaten(neg[n].by, n, past[r]) /\ n = url[t]
    BY <1>4, <1>6, <1>8
  <2>. QED
    BY <1>1, <1>8, <2>1 DEF ReadCovered
<1>. QED
  BY <1>3, <1>7, <1>8

\* Without a budget of failures no command fails.
LEMMA NoFaults ==
  ASSUME MaxFaults = 0, TypeInv, faults = 0, [Next]_vars PROVE faults' = 0
<1>1. \A ok, applied \in BOOLEAN : Command(ok, applied) => faults' = 0
  BY DEF Command
<1>2. ASSUME NEW r \in Request, Lookup(r) PROVE faults' = 0
  BY <1>1, <1>2 DEF Lookup, LookupPayload, PollPayload, GetNeg
<1>3. ASSUME NEW t \in Task, Quiet(t) PROVE faults' = 0
  <2>1. CASE GetMap(t)
    BY <1>1, <2>1 DEF GetMap
  <2>2. CASE SetNeg(t)
    BY <1>1, <2>2 DEF SetNeg
  <2>3. CASE Crawl(t)
    BY <1>1, <2>3 DEF Crawl
  <2>4. CASE WriteAttempt(t)
    BY <1>1, <2>4 DEF WriteAttempt
  <2>5. CASE SetPayload(t)
    BY <1>1, <2>5 DEF SetPayload
  <2>6. CASE SetMap(t)
    BY <1>1, <2>6 DEF SetMap
  <2>7. CASE SetFinal(t)
    BY <1>1, <2>7 DEF SetFinal
  <2>8. CASE SetShort(t)
    BY <1>1, <2>8 DEF SetShort
  <2>9. CASE WriteCrawl(t)
    BY <1>1, <2>9 DEF WriteCrawl
  <2>. QED
    BY <1>3, <2>1, <2>2, <2>3, <2>4, <2>5, <2>6, <2>7, <2>8, <2>9 DEF Quiet
<1>4. ASSUME NEW t \in Task, SetNx(t) \/ Unlock(t) PROVE faults' = 0
  BY <1>1, <1>4 DEF SetNx, Unlock
<1>5. ASSUME NEW t \in Task, Step(t) PROVE faults' = 0
  BY <1>3, <1>4, <1>5 DEF Step, Quiet
<1>. QED
  BY <1>2, <1>5 DEF Next, Arrive, Tick, Crash, vars

\* A request is never answered with a failure that was stored before a success of its URL,
\* if the crawl of that success was over when the request came.  Nothing deletes og:neg on
\* success: what makes it true is that the map and the payload, both read before og:neg,
\* outlive the failure.  It needs a Redis that does not fail, and the TTLs of NegOutlived.
THEOREM NegNeverMasks ==
  ASSUME MaxFaults = 0, NegOutlived PROVE Spec => []NegNeverMasksSuccess
<1>1. Init => NegInv
  <2>1. Init => AnswerInv
    BY TypeInit, ResInit, CachesInit, AnswersInit DEF AnswerInv
  <2>2. Init => /\ faults = 0 /\ CrawlTimes /\ PayloadTimes /\ NegTimes /\ HistoryOK
                /\ InFlight /\ Covered
    BY DEF Init, CrawlTimes, PayloadTimes, NegTimes, HistoryOK, InFlight, Covered, Crawling,
           AfterAttempt, Stored, NoEntry
  <2>3. Init => ReadCovered /\ NegNeverMasksSuccess
    BY TaskFacts DEF Init, ReadCovered, NegNeverMasksSuccess, NoAnswer
  <2>. QED
    BY <2>1, <2>2, <2>3 DEF NegInv
<1>2. NegInv /\ [Next]_vars => NegInv'
  <2>1. SUFFICES ASSUME NegInv, [Next]_vars PROVE NegInv'
    OBVIOUS
  <2>2. faults' = 0
    BY <2>1, NoFaults DEF NegInv, AnswerInv
  <2>3. AnswerInv'
    BY <2>1, TypeStep, NextSettles, CachesStep, AnswersStep DEF NegInv, AnswerInv
  <2>4. CrawlTimes' /\ PayloadTimes' /\ NegTimes' /\ HistoryOK'
    BY <2>1, CrawlTimesStep, PayloadTimesStep, NegTimesStep, HistoryStep
       DEF NegInv, AnswerInv
  <2>5. InFlight' /\ Covered' /\ ReadCovered' /\ NegNeverMasksSuccess'
    BY <2>1, <2>2, InFlightStep, CoveredStep, ReadCoveredStep, NeverMaskedStep
  <2>. QED
    BY <2>2, <2>3, <2>4, <2>5 DEF NegInv
<1>3. NegInv => NegNeverMasksSuccess
  BY DEF NegInv
<1>. QED
  BY <1>1, <1>2, <1>3, PTL DEF Spec

=============================================================================
