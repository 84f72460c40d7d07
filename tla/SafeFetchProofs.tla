---------------------------- MODULE SafeFetchProofs ----------------------------
(* Theorems about SafeFetch for every set of URLs, every hop bound and every   *)
(* answer of servers and DNS.                                                  *)
EXTENDS SafeFetch, TLAPS

Running == {"hop", "response", "body", "precheck"}

\* What is set where.
Placed ==
  /\ pc \in Running => cur \in Url /\ code = "none"
  /\ pc = "precheck" => target \in Url /\ chain # <<>>
  /\ pc # "idle" => start \in Url
  /\ pc = "idle" => code = "none"

TypeInv == TypeOK /\ Placed

LEMMA VerdictType ==
  ASSUME NEW u \in Url, NEW v \in Verdicts(u)
  PROVE  /\ v \in Verdict
         /\ v.code = "ok" => v.url = u /\ v.all \cap Blocked = {} /\ v.addr \in v.all
<1>1. CASE BeforeDns[u] # "ok"
  <2>1. v = Refused(u, BeforeDns[u])
    BY <1>1 DEF Verdicts
  <2>2. BeforeDns[u] \in CheckError
    BY <1>1, FetchAssumption DEF CheckError
  <2>. QED
    BY <1>1, <2>1, <2>2 DEF Refused, Verdict
<1>2. ASSUME NEW a \in Addr, NEW A \in SUBSET Addr, a \in A, v = Judge(u, a, A)
      PROVE  /\ v \in Verdict
             /\ v.code = "ok" => v.url = u /\ v.all \cap Blocked = {} /\ v.addr \in v.all
  <2>1. CASE A \cap Blocked # {}
    BY <1>2, <2>1 DEF Judge, Refused, Verdict, CheckError
  <2>2. CASE A \cap Blocked = {}
    BY <1>2, <2>2 DEF Judge, Verdict
  <2>. QED
    BY <2>1, <2>2
<1>3. CASE BeforeDns[u] = "ok" /\ Literal[u] # None
  <2>1. Literal[u] \in Addr /\ {Literal[u]} \in SUBSET Addr
    BY <1>3, FetchAssumption
  <2>2. v = Judge(u, Literal[u], {Literal[u]})
    BY <1>3 DEF Verdicts
  <2>. QED
    BY <1>2, <2>1, <2>2
<1>4. CASE BeforeDns[u] = "ok" /\ Literal[u] = None
  <2>1. CASE v = Refused(u, "DNS_FAIL")
    BY <2>1 DEF Refused, Verdict, CheckError
  <2>2. CASE \E first \in Addr, all \in SUBSET Addr : v = Judge(u, first, all \cup {first})
    <3>1. PICK first \in Addr, all \in SUBSET Addr : v = Judge(u, first, all \cup {first})
      BY <2>2
    <3>2. all \cup {first} \in SUBSET Addr /\ first \in all \cup {first}
      OBVIOUS
    <3>. QED
      BY <1>2, <3>1, <3>2
  <2>. QED
    BY <1>4, <2>1, <2>2 DEF Verdicts
<1>. QED
  BY <1>1, <1>3, <1>4

LEMMA ErrorType == ASSUME NEW s \in Nat PROVE ErrorOf(s) \in HttpError
BY DEF ErrorOf, HttpError

LEMMA AppendType ==
  ASSUME NEW S, NEW s \in Seq(S), NEW e \in S
  PROVE  Append(s, e) \in Seq(S)
OBVIOUS

LEMMA ElementType ==
  ASSUME NEW S, NEW s \in Seq(S), NEW i \in 1..Len(s)
  PROVE  s[i] \in S
OBVIOUS

\* The locals of a fresh call.
LEMMA CallType ==
  ASSUME NEW u \in Url, NEW a \in Addr \cup {None}, Call(u, a)
  PROVE  /\ pc' = "hop" /\ cur' \in Url /\ code' = "none"
         /\ addr' \in Addr \cup {None} /\ hops' \in Nat /\ visited' \in SUBSET Key
         /\ chain' \in Seq(Hop) /\ meta' \in BOOLEAN /\ target' \in Url \cup {None}
         /\ bytes' \in 0..Cap /\ late' \in BOOLEAN
         /\ requests' \in Seq([url : Url, addr : Addr \cup {None}])
<1>1. bytes' \in 0..Cap
  BY FetchAssumption DEF Call
<1>2. chain' \in Seq(Hop) /\ requests' \in Seq([url : Url, addr : Addr \cup {None}])
  BY DEF Call
<1>. QED
  BY <1>1, <1>2 DEF Call

LEMMA TypeStep == TypeInv /\ [Next]_vars => TypeInv'
<1>1. SUFFICES ASSUME TypeInv, [Next]_vars PROVE TypeInv'
  OBVIOUS
<1>. USE DEF TypeInv, Placed, Running
<1>2. CASE Begin
  <2>1. PICK u \in Url : \E v \in Verdicts(u) :
          /\ start' = u /\ pin' = v.addr
          /\ verdicts' = Pinned({v})
          /\ \/ v.code = "ok" /\ Call(u, v.addr)
             \/ v.code # "ok" /\ Throw(v.code) /\ UNCHANGED <<locals, late, requests>>
    BY <1>2 DEF Begin
  <2>2. PICK v \in Verdicts(u) :
          /\ start' = u /\ pin' = v.addr
          /\ verdicts' = Pinned({v})
          /\ \/ v.code = "ok" /\ Call(u, v.addr)
             \/ v.code # "ok" /\ Throw(v.code) /\ UNCHANGED <<locals, late, requests>>
    BY <2>1
  <2>3. v \in Verdict
    BY VerdictType
  <2>4. v.addr \in Addr \cup {None} /\ v.code \in {"ok"} \cup CheckError
    BY <2>3 DEF Verdict
  <2>5. verdicts' \in SUBSET Verdict
    BY <2>2, <2>3 DEF Pinned
  <2>6. CASE Call(u, v.addr)
    BY <1>1, <1>2, <2>2, <2>4, <2>5, <2>6, CallType DEF Begin, TypeOK, Code
  <2>7. CASE v.code # "ok" /\ Throw(v.code) /\ UNCHANGED <<locals, late, requests>>
    BY <1>1, <1>2, <2>2, <2>4, <2>5, <2>7 DEF Begin, Throw, locals, TypeOK, Code
  <2>. QED
    BY <2>2, <2>6, <2>7
<1>3. CASE Again
  <2>1. Call(start, pin) /\ start \in Url /\ pin \in Addr \cup {None}
    BY <1>1, <1>3 DEF Again, TypeOK
  <2>2. verdicts' \in SUBSET Verdict /\ retries' \in Nat
    BY <1>1, <1>3 DEF Again, NextRetry, TypeOK
  <2>. QED
    BY <1>1, <1>3, <2>1, <2>2, CallType DEF Again, TypeOK, Code
<1>4. CASE Request
  <2>1. LoopKey(cur) \in Key
    BY <1>1, <1>4, FetchAssumption DEF Request, LoopKey
  <2>2. visited' \in SUBSET Key
    BY <1>1, <1>4, <2>1 DEF Request, TypeOK
  <2>3. requests' \in Seq([url : Url, addr : Addr \cup {None}])
    <3>1. [url |-> cur, addr |-> addr] \in [url : Url, addr : Addr \cup {None}]
      BY <1>1, <1>4 DEF Request, TypeOK
    <3>2. \/ requests' = requests
          \/ requests' = Append(requests, [url |-> cur, addr |-> addr])
      BY <1>4 DEF Request
    <3>3. requests \in Seq([url : Url, addr : Addr \cup {None}])
      BY <1>1 DEF TypeOK
    <3>. QED
      BY <3>1, <3>2, <3>3, AppendType
  <2>4. /\ pc' \in {"response", "done"} /\ code' \in Code
        /\ pc' = "response" => code' = "none"
    BY <1>1, <1>4 DEF Request, Throw, TypeOK, Code
  <2>. QED
    BY <1>1, <1>4, <2>2, <2>3, <2>4 DEF Request, caller, TypeOK
<1>5. ASSUME NEW loc \in Url, NEW type \in {"http", "meta_refresh"}, Redirect(loc, type),
             pc \in {"response", "body"}
      PROVE  /\ chain' \in Seq(Hop) /\ chain' # <<>> /\ target' \in Url
             /\ pc' = "precheck" /\ code' = "none"
  <2>1. HopTo(loc, type) \in Hop
    BY <1>1, <1>5 DEF HopTo, Hop
  <2>2. chain \in Seq(Hop)
    BY <1>1 DEF TypeOK
  <2>3. Append(chain, HopTo(loc, type)) \in Seq(Hop) /\ Append(chain, HopTo(loc, type)) # <<>>
    BY <2>1, <2>2
  <2>. QED
    BY <1>1, <1>5, <2>3 DEF Redirect
<1>6. CASE Response
  <2>. USE <1>1, <1>6 DEF Response, Throw, caller, TypeOK, Code
  <2>1. CASE Throw("NETWORK") /\ UNCHANGED <<chain, target, bytes>>
    BY <2>1
  <2>2. ASSUME NEW loc \in Url, Redirect(loc, "http"), UNCHANGED bytes PROVE TypeInv'
    BY <1>5, <2>2
  <2>3. CASE Throw("UNKNOWN") /\ UNCHANGED <<chain, target, bytes>>
    BY <2>3 DEF HttpError
  <2>4. ASSUME NEW s \in Status, Throw(ErrorOf(s)) /\ UNCHANGED <<chain, target, bytes>>
        PROVE  TypeInv'
    BY <2>4, ErrorType, FetchAssumption
  <2>5. CASE pc' = "body" /\ bytes' = 0 /\ UNCHANGED <<code, chain, target>>
    BY <2>5, FetchAssumption
  <2>. QED
    BY <2>1, <2>2, <2>3, <2>4, <2>5
<1>7. CASE Chunk
  <2>1. bytes' \in 0..Cap
    BY <1>1, <1>7, FetchAssumption DEF Chunk, OverCap, TypeOK
  <2>2. pc' \in {"body", "done"} /\ code' \in {"none", "TOO_LARGE", "NETWORK"}
        /\ (pc' = "body" => code' = "none")
    BY <1>1, <1>7 DEF Chunk, Throw, TypeOK
  <2>. QED
    BY <1>1, <1>7, <2>1, <2>2 DEF Chunk, caller, TypeOK, Code
<1>8. CASE Page
  <2>. USE <1>1, <1>8 DEF Page, Throw, caller, TypeOK, Code
  <2>1. ASSUME NEW loc \in Url, Redirect(loc, "meta_refresh") PROVE TypeInv'
    BY <1>5, <2>1
  <2>2. CASE (Throw("EMPTY_BODY") \/ Throw("ok")) /\ UNCHANGED <<chain, target>>
    BY <2>2
  <2>. QED
    BY <2>1, <2>2
<1>9. CASE Precheck
  <2>1. PICK v \in Verdicts(target) :
          /\ verdicts' = verdicts \cup Pinned({v})
          /\ \/ /\ v.code # "ok" /\ Throw(v.code)
                /\ UNCHANGED <<cur, addr, hops, meta>>
             \/ /\ v.code = "ok"
                /\ pc' = "hop" /\ UNCHANGED code
                /\ cur' = target /\ addr' = NextAddr(v)
                /\ hops' = NextHops
                /\ meta' = (meta \/ chain[Len(chain)].type = "meta_refresh")
    BY <1>9 DEF Precheck
  <2>2. target \in Url
    BY <1>1, <1>9 DEF Precheck
  <2>3. v \in Verdict
    BY <2>2, VerdictType
  <2>4. v.addr \in Addr \cup {None} /\ v.code \in {"ok"} \cup CheckError
    BY <2>3 DEF Verdict
  <2>5. verdicts' \in SUBSET Verdict
    BY <1>1, <2>1, <2>3 DEF Pinned, TypeOK
  <2>6. meta' \in BOOLEAN
    BY <1>1, <2>1 DEF TypeOK
  <2>7. /\ pc' \in {"hop", "done"} /\ code' \in Code
        /\ pc' = "hop" => code' = "none"
    BY <1>1, <1>9, <2>1, <2>4 DEF Precheck, Throw, TypeOK, Code
  <2>8. cur' \in Url /\ addr' \in Addr \cup {None} /\ hops' \in Nat
    BY <1>1, <1>9, <2>1, <2>2, <2>4 DEF Precheck, NextAddr, NextHops, TypeOK
  <2>. QED
    BY <1>1, <1>9, <2>2, <2>5, <2>6, <2>7, <2>8 DEF Precheck, caller, TypeOK
<1>10. CASE DeadlinePasses
  BY <1>1, <1>10 DEF DeadlinePasses, caller, locals, TypeOK
<1>11. CASE UNCHANGED vars
  BY <1>1, <1>11 DEF vars, caller, locals, TypeOK
<1>. QED
  BY <1>1, <1>2, <1>3, <1>4, <1>6, <1>7, <1>8, <1>9, <1>10, <1>11 DEF Next

LEMMA TypeInit == Init => TypeInv
<1>1. SUFFICES ASSUME Init PROVE TypeInv
  OBVIOUS
<1>2. 0 \in 0..Cap
  BY FetchAssumption
<1>3. chain \in Seq(Hop) /\ requests \in Seq([url : Url, addr : Addr \cup {None}])
  BY <1>1 DEF Init
<1>. QED
  BY <1>1, <1>2, <1>3 DEF Init, TypeInv, TypeOK, Placed, Running, Code

\* The variables keep their types, whatever servers and DNS answer.
THEOREM TypeCorrect == Spec => []TypeOK
<1>1. Spec => []TypeInv
  BY TypeInit, TypeStep, PTL DEF Spec
<1>. QED
  BY <1>1, PTL DEF TypeInv

----------------------------------------------------------------------------
(* Addresses. *)

Vouched(u, a) ==
  \E v \in verdicts : /\ v.all \cap Blocked = {} /\ v.addr \in v.all
                      /\ v.url = u /\ v.addr = a

\* The next request of a call goes where a check of its URL said, and so does the first
\* one of a retry.
NextIsChecked ==
  /\ pc = "hop" => Vouched(cur, addr)
  /\ pc \in Running \/ IsBotBlock(code) => Vouched(start, pin)

RequestsVouched ==
  /\ pc = "idle" => requests = <<>>
  /\ \A i \in 1..Len(requests) : Vouched(requests[i].url, requests[i].addr)

CheckedInv == NextIsChecked /\ RequestsVouched

LEMMA CheckedStep == TypeInv /\ CheckedInv /\ [Next]_vars => CheckedInv'
<1>1. SUFFICES ASSUME TypeInv, CheckedInv, [Next]_vars PROVE CheckedInv'
  OBVIOUS
<1>. USE DEF CheckedInv, NextIsChecked, RequestsVouched, Running, IsBotBlock
<1>2. ASSUME NEW u \in Url, NEW v \in Verdicts(u), v.code = "ok", Pinned({v}) \subseteq verdicts'
      PROVE  Vouched(u, v.addr)'
  <2>1. v.url = u /\ v.all \cap Blocked = {} /\ v.addr \in v.all /\ v \in verdicts'
    BY <1>2, VerdictType DEF Pinned
  <2>. QED
    BY <2>1 DEF Vouched
<1>3. ASSUME verdicts \subseteq verdicts', NEW u, NEW a, Vouched(u, a) PROVE Vouched(u, a)'
  BY <1>3 DEF Vouched
<1>4. CASE Begin
  <2>1. PICK u \in Url : \E v \in Verdicts(u) :
          /\ start' = u /\ pin' = v.addr
          /\ verdicts' = Pinned({v})
          /\ \/ v.code = "ok" /\ Call(u, v.addr)
             \/ v.code # "ok" /\ Throw(v.code) /\ UNCHANGED <<locals, late, requests>>
    BY <1>4 DEF Begin
  <2>2. PICK v \in Verdicts(u) :
          /\ start' = u /\ pin' = v.addr
          /\ verdicts' = Pinned({v})
          /\ \/ v.code = "ok" /\ Call(u, v.addr)
             \/ v.code # "ok" /\ Throw(v.code) /\ UNCHANGED <<locals, late, requests>>
    BY <2>1
  <2>3. requests' = <<>>
    BY <1>1, <1>4, <2>2 DEF Begin, Call
  <2>4. CASE v.code = "ok" /\ Call(u, v.addr)
    <3>1. Vouched(u, v.addr)'
      BY <1>2, <2>2, <2>4
    <3>2. /\ pc' = "hop" /\ cur' = u /\ addr' = v.addr /\ start' = u /\ pin' = v.addr
      BY <2>2, <2>4 DEF Call
    <3>3. Vouched(cur, addr)' /\ Vouched(start, pin)'
      BY <3>1, <3>2 DEF Vouched
    <3>. QED
      BY <2>3, <3>2, <3>3
  <2>5. CASE v.code # "ok" /\ Throw(v.code) /\ UNCHANGED <<locals, late, requests>>
    <3>1. v.code \in CheckError
      BY <2>5, VerdictType DEF Verdict
    <3>. QED
      BY <2>3, <2>5, <3>1 DEF Throw, CheckError
  <2>. QED
    BY <2>2, <2>4, <2>5
<1>5. CASE Again
  <2>1. Vouched(start, pin)
    BY <1>1, <1>5 DEF Again
  <2>2. Vouched(start, pin)'
    BY <1>5, <2>1 DEF Again, Vouched
  <2>. QED
    BY <1>5, <2>2 DEF Again, Call, Vouched
<1>6. CASE Request
  <2>1. requests \in Seq([url : Url, addr : Addr \cup {None}])
    BY <1>1 DEF TypeInv, TypeOK
  <2>2. UNCHANGED <<verdicts, start, pin, cur, addr>> /\ pc = "hop"
    BY <1>6 DEF Request, caller
  <2>3. \A i \in 1..Len(requests') : Vouched(requests'[i].url, requests'[i].addr)
    <3>1. CASE requests' = requests
      BY <1>1, <3>1
    <3>2. CASE requests' = Append(requests, [url |-> cur, addr |-> addr])
      BY <1>1, <2>1, <2>2, <3>2
    <3>. QED
      BY <1>6, <3>1, <3>2 DEF Request
  <2>4. pc' \in {"response", "done"} /\ Vouched(start, pin)
    BY <1>1, <1>6, <2>2 DEF Request, Throw
  <2>. QED
    BY <2>2, <2>3, <2>4 DEF Vouched
<1>7. CASE Response \/ Chunk \/ Page
  <2>1. UNCHANGED <<verdicts, start, pin, requests>> /\ pc \in Running
    BY <1>7 DEF Response, Chunk, Page, caller
  <2>2. pc' \in {"precheck", "body", "done"}
    BY <1>7 DEF Response, Chunk, Page, Redirect, Throw
  <2>. QED
    BY <1>1, <2>1, <2>2 DEF Vouched
<1>8. CASE Precheck
  <2>2. UNCHANGED <<start, pin, requests>> /\ pc = "precheck" /\ target \in Url
    BY <1>1, <1>8 DEF Precheck, caller, TypeInv, Placed
  <2>6. PICK u \in Url : u = target
    BY <2>2
  <2>1. PICK v \in Verdicts(u) :
          /\ verdicts' = verdicts \cup Pinned({v})
          /\ \/ v.code # "ok" /\ Throw(v.code)
             \/ v.code = "ok" /\ pc' = "hop" /\ cur' = u /\ addr' = NextAddr(v)
    BY <1>8, <2>6 DEF Precheck
  <2>3. ASSUME pc' = "hop" PROVE Vouched(cur, addr)'
    <3>1. v.code = "ok" /\ cur' = u /\ addr' = v.addr
      BY <2>1, <2>3 DEF Throw, NextAddr
    <3>2. Vouched(u, v.addr)'
      BY <1>2, <2>1, <3>1
    <3>. QED
      BY <3>1, <3>2 DEF Vouched
  <2>4. pc' \in {"hop", "done"} /\ Vouched(start, pin)'
    BY <1>1, <1>3, <2>1, <2>2 DEF Throw
  <2>5. \A i \in 1..Len(requests') : Vouched(requests[i].url, requests[i].addr)'
    BY <1>1, <1>3, <2>1, <2>2
  <2>. QED
    BY <2>2, <2>3, <2>4, <2>5
<1>9. CASE DeadlinePasses
  BY <1>1, <1>9 DEF DeadlinePasses, caller, locals, Vouched
<1>10. CASE UNCHANGED vars
  BY <1>1, <1>10 DEF vars, caller, locals, Vouched
<1>. QED
  BY <1>1, <1>4, <1>5, <1>6, <1>7, <1>8, <1>9, <1>10 DEF Next

\* Every request of every call goes to an address pinned by a check of its URL.
THEOREM CheckedBeforeConnect == Spec => []ConnectsWhereChecked
<1>1. Init => CheckedInv
  BY DEF Init, CheckedInv, NextIsChecked, RequestsVouched, Running, IsBotBlock
<1>2. TypeInv /\ CheckedInv => ConnectsWhereChecked
  <2>1. SUFFICES ASSUME TypeInv, CheckedInv, NEW i \in 1..Len(requests)
                 PROVE  \E v \in verdicts :
                          /\ v.all \cap Blocked = {}
                          /\ requests[i] = [url |-> v.url, addr |-> v.addr]
                          /\ v.addr \in v.all
    BY DEF ConnectsWhereChecked
  <2>2. PICK v \in verdicts : /\ v.all \cap Blocked = {} /\ v.addr \in v.all
                              /\ v.url = requests[i].url /\ v.addr = requests[i].addr
    BY <2>1 DEF CheckedInv, RequestsVouched, Vouched
  <2>4. requests \in Seq([url : Url, addr : Addr \cup {None}])
    BY <2>1 DEF TypeInv, TypeOK
  <2>3. requests[i] \in [url : Url, addr : Addr \cup {None}]
    BY <2>1, <2>4, ElementType
  <2>. QED
    BY <2>2, <2>3
<1>. QED
  BY <1>1, <1>2, TypeInit, TypeStep, CheckedStep, PTL DEF Spec

----------------------------------------------------------------------------
(* The bounds of the walk. *)

\* How hops, the chain and the requests go together at each point of the loop.
Counted ==
  /\ pc = "idle" => requests = <<>> /\ chain = <<>>
  /\ pc = "hop" => Len(requests) = hops /\ Len(chain) = hops
  /\ pc \in {"response", "body"} => Len(requests) = hops + 1 /\ Len(chain) = hops
  /\ pc = "precheck" => Len(requests) = hops + 1 /\ Len(chain) = hops + 1
  /\ pc \in {"response", "body", "precheck"} => hops <= MaxHops

BoundInv == Counted /\ HopsBounded

LEMMA BoundStep == TypeInv /\ BoundInv /\ [Next]_vars => BoundInv'
<1>1. SUFFICES ASSUME TypeInv, BoundInv, [Next]_vars PROVE BoundInv'
  OBVIOUS
<1>2. /\ requests \in Seq([url : Url, addr : Addr \cup {None}])
      /\ chain \in Seq(Hop) /\ hops \in Nat /\ MaxHops \in Nat
      /\ Len(requests) \in Nat /\ Len(chain) \in Nat
  BY <1>1, FetchAssumption DEF TypeInv, TypeOK
<1>3. code = "ok" => pc = "done"
  BY <1>1 DEF TypeInv, TypeOK, Placed, Running
<1>. USE DEF BoundInv, Counted, HopsBounded
<1>4. CASE Begin
  <2>1. PICK u \in Url : \E v \in Verdicts(u) :
          \/ Call(u, v.addr)
          \/ v.code # "ok" /\ Throw(v.code) /\ UNCHANGED <<locals, late, requests>>
    BY <1>4 DEF Begin
  <2>2. ASSUME NEW v \in Verdicts(u), Call(u, v.addr) PROVE BoundInv'
    <3>1. pc' = "hop" /\ code' = "none" /\ requests' = <<>> /\ chain' = <<>> /\ hops' = 0
      BY <2>2 DEF Call
    <3>. QED
      BY <1>2, <3>1
  <2>3. ASSUME NEW v \in Verdicts(u), v.code # "ok", Throw(v.code),
               UNCHANGED <<locals, late, requests>>
        PROVE  BoundInv'
    BY <1>1, <1>2, <1>4, <2>3 DEF Begin, Throw, locals
  <2>. QED
    BY <2>1, <2>2, <2>3
<1>5. CASE Again
  <2>1. pc' = "hop" /\ code' = "none" /\ requests' = <<>> /\ chain' = <<>> /\ hops' = 0
    BY <1>5 DEF Again, Call
  <2>. QED
    BY <1>2, <2>1
<1>6. CASE Request
  <2>1. /\ pc = "hop" /\ UNCHANGED <<hops, chain>>
        /\ \/ pc' = "done" /\ code' # "ok" /\ requests' = requests
           \/ /\ hops <= MaxHops /\ pc' = "response" /\ code' = code
              /\ requests' = Append(requests, [url |-> cur, addr |-> addr])
    BY <1>2, <1>6 DEF Request, Throw, TooMany
  <2>2. CASE requests' = requests
    BY <1>1, <1>2, <2>1, <2>2
  <2>3. CASE requests' = Append(requests, [url |-> cur, addr |-> addr])
    <3>1. Len(requests') = Len(requests) + 1
      BY <1>2, <2>3
    <3>. QED
      BY <1>1, <1>2, <1>3, <2>1, <3>1
  <2>. QED
    BY <2>1, <2>2, <2>3
<1>7. ASSUME NEW loc \in Url, NEW type \in {"http", "meta_refresh"}, Redirect(loc, type),
             pc \in {"response", "body"}, UNCHANGED <<hops, requests>>
      PROVE  BoundInv'
  <2>1. Len(chain') = Len(chain) + 1 /\ pc' = "precheck" /\ code' = code
    BY <1>2, <1>7 DEF Redirect
  <2>. QED
    BY <1>1, <1>2, <1>3, <1>7, <2>1
<1>8. ASSUME pc \in {"response", "body"}, UNCHANGED <<hops, requests, chain>>,
             \/ pc' = "body" /\ code' = code
             \/ pc' = "done"
      PROVE  BoundInv'
  BY <1>1, <1>2, <1>3, <1>8
<1>9. CASE Response
  BY <1>7, <1>8, <1>9 DEF Response, Throw
<1>10. CASE Chunk
  BY <1>8, <1>10 DEF Chunk, Throw
<1>11. CASE Page
  BY <1>7, <1>8, <1>11 DEF Page, Throw
<1>12. CASE Precheck
  <2>1. /\ pc = "precheck" /\ UNCHANGED <<chain, requests>>
        /\ \/ pc' = "done" /\ code' # "ok" /\ hops' = hops
           \/ pc' = "hop" /\ code' = code /\ hops' = hops + 1
    BY <1>12 DEF Precheck, Throw, NextHops
  <2>. QED
    BY <1>1, <1>2, <1>3, <2>1
<1>13. CASE DeadlinePasses
  BY <1>1, <1>13 DEF DeadlinePasses, caller, locals
<1>14. CASE UNCHANGED vars
  BY <1>1, <1>14 DEF vars, caller, locals
<1>. QED
  BY <1>1, <1>4, <1>5, <1>6, <1>9, <1>10, <1>11, <1>12, <1>13, <1>14 DEF Next

\* No call makes more than MaxHops + 1 requests, and a page is at most MaxHops away.
THEOREM HopBound == Spec => []HopsBounded
<1>1. Init => BoundInv
  BY FetchAssumption DEF Init, BoundInv, Counted, HopsBounded
<1>. QED
  BY <1>1, TypeInit, TypeStep, BoundStep, PTL DEF Spec, BoundInv

----------------------------------------------------------------------------
(* No page twice. *)

\* visited holds the key of everything that was requested.
SeenInv ==
  /\ pc = "idle" => requests = <<>>
  /\ \A i \in 1..Len(requests) : Canonical[requests[i].url] \in visited
  /\ NoPageTwice

LEMMA SeenStep == TypeInv /\ SeenInv /\ [Next]_vars => SeenInv'
<1>1. SUFFICES ASSUME TypeInv, SeenInv, [Next]_vars PROVE SeenInv'
  OBVIOUS
<1>2. requests \in Seq([url : Url, addr : Addr \cup {None}])
  BY <1>1 DEF TypeInv, TypeOK
<1>. USE DEF SeenInv, NoPageTwice
<1>3. ASSUME requests' = <<>> PROVE SeenInv'
  BY <1>3
<1>4. ASSUME requests' = requests, visited \subseteq visited', pc' # "idle" \/ pc = "idle"
      PROVE  SeenInv'
  BY <1>1, <1>4
<1>5. CASE Begin
  BY <1>1, <1>3, <1>5 DEF Begin, Call
<1>6. CASE Again
  BY <1>3, <1>6 DEF Again, Call
<1>7. CASE Request
  <2>1. visited \subseteq visited' /\ pc' # "idle"
    BY <1>7 DEF Request, Throw
  <2>2. CASE requests' = requests
    BY <1>4, <2>1, <2>2
  <2>3. CASE requests' # requests
    <3>1. /\ requests' = Append(requests, [url |-> cur, addr |-> addr])
          /\ Canonical[cur] \notin visited /\ Canonical[cur] \in visited'
      BY <1>7, <2>3 DEF Request, LoopKey
    <3>2. /\ Len(requests') = Len(requests) + 1
          /\ \A i \in 1..Len(requests) : requests'[i] = requests[i]
          /\ requests'[Len(requests) + 1].url = cur
      BY <1>2, <3>1
    <3>3. \A i \in 1..Len(requests') : i \in 1..Len(requests) \/ i = Len(requests) + 1
      BY <1>2, <3>2
    <3>4. \A i \in 1..Len(requests') : Canonical[requests'[i].url] \in visited'
      BY <1>1, <2>1, <3>1, <3>2, <3>3
    <3>5. NoPageTwice'
      BY <1>1, <3>1, <3>2, <3>3
    <3>. QED
      BY <2>1, <3>4, <3>5
  <2>. QED
    BY <2>2, <2>3
<1>8. CASE Response \/ Chunk \/ Page \/ Precheck
  <2>1. pc' # "idle"
    BY <1>8 DEF Response, Chunk, Page, Precheck, Throw, Redirect
  <2>2. requests' = requests /\ visited' = visited
    BY <1>8 DEF Response, Chunk, Page, Precheck
  <2>. QED
    BY <1>4, <2>1, <2>2
<1>9. CASE DeadlinePasses \/ UNCHANGED vars
  BY <1>4, <1>9 DEF DeadlinePasses, vars, caller, locals
<1>. QED
  BY <1>1, <1>5, <1>6, <1>7, <1>8, <1>9 DEF Next

\* No call requests two URLs of the same page.
THEOREM EachPageOnce == Spec => []NoPageTwice
<1>1. Init => SeenInv
  BY DEF Init, SeenInv, NoPageTwice
<1>. QED
  BY <1>1, TypeInit, TypeStep, SeenStep, PTL DEF Spec, SeenInv

----------------------------------------------------------------------------
(* The redirect chain. *)

\* The i-th URL of a walk along the chain to `end`.
Stop(i, end) == IF i <= Len(chain) THEN chain[i].url ELSE end

LinkedTo(end) ==
  /\ Stop(1, end) = start
  /\ \A i \in 1..Len(chain) : chain[i].location = Stop(i + 1, end)

MetaUpTo(n) == meta = \E i \in 1..n : chain[i].type = "meta_refresh"

AtPage == pc \in {"hop", "response", "body"} \/ code = "ok"

WayInv ==
  /\ AtPage => LinkedTo(cur) /\ MetaUpTo(Len(chain))
  /\ pc = "precheck" => LinkedTo(target) /\ MetaUpTo(Len(chain) - 1)
                        /\ chain[Len(chain)].url = cur
  /\ pc \in Running \/ code = "ok" =>
       \A i \in 1..Len(requests) : requests[i].url = Stop(i, cur)
  /\ code = "ok" => Len(requests) = Len(chain) + 1

LEMMA WayStep == TypeInv /\ BoundInv /\ WayInv /\ [Next]_vars => WayInv'
<1>1. SUFFICES ASSUME TypeInv, BoundInv, WayInv, [Next]_vars PROVE WayInv'
  OBVIOUS
<1>2. /\ requests \in Seq([url : Url, addr : Addr \cup {None}])
      /\ chain \in Seq(Hop) /\ hops \in Nat
      /\ Len(requests) \in Nat /\ Len(chain) \in Nat
  BY <1>1 DEF TypeInv, TypeOK
<1>3. pc # "done" => code = "none"
  BY <1>1 DEF TypeInv, TypeOK, Placed, Running
<1>4. ASSUME pc' = "hop", code' = "none", requests' = <<>>, chain' = <<>>, meta' = FALSE,
             cur' = start'
      PROVE  WayInv'
  <2>1. Len(chain') = 0 /\ Len(requests') = 0
    BY <1>4
  <2>2. 1..Len(chain') = {} /\ 1..Len(requests') = {}
    BY <2>1
  <2>3. LinkedTo(cur)'
    BY <1>4, <2>1, <2>2 DEF LinkedTo, Stop
  <2>4. MetaUpTo(Len(chain))'
    BY <1>4, <2>2 DEF MetaUpTo
  <2>. QED
    BY <1>4, <2>2, <2>3, <2>4 DEF WayInv, Running
<1>5. ASSUME pc' = "done", code' # "ok" PROVE WayInv'
  BY <1>5 DEF WayInv, AtPage, Running
<1>6. CASE Begin
  BY <1>4, <1>5, <1>6 DEF Begin, Call, Throw
<1>7. CASE Again
  BY <1>4, <1>7 DEF Again, Call
<1>8. CASE Request
  <2>1. CASE pc' = "done"
    BY <1>5, <1>8, <2>1 DEF Request, Throw
  <2>2. CASE pc' # "done"
    <3>1. /\ pc = "hop" /\ pc' = "response" /\ code' = code /\ code = "none"
          /\ requests' = Append(requests, [url |-> cur, addr |-> addr])
          /\ UNCHANGED <<start, cur, chain, meta>>
      BY <1>3, <1>8, <2>2 DEF Request, Throw, caller
    <3>2. Len(requests) = Len(chain)
      BY <1>1, <3>1 DEF BoundInv, Counted
    <3>3. /\ Len(requests') = Len(requests) + 1
          /\ \A i \in 1..Len(requests) : requests'[i] = requests[i]
          /\ requests'[Len(requests) + 1].url = cur
      BY <1>2, <3>1
    <3>4. \A i \in 1..Len(requests') : i \in 1..Len(requests) \/ i = Len(requests) + 1
      BY <1>2, <3>3
    <3>5. \A i \in 1..Len(requests) : requests[i].url = Stop(i, cur)
      BY <1>1, <3>1 DEF WayInv, Running
    <3>6. \A i \in 1..Len(requests') : requests'[i].url = Stop(i, cur)'
      BY <1>2, <3>1, <3>2, <3>3, <3>4, <3>5 DEF Stop
    <3>7. LinkedTo(cur)' /\ MetaUpTo(Len(chain))'
      BY <1>1, <3>1 DEF WayInv, AtPage, LinkedTo, MetaUpTo, Stop
    <3>. QED
      BY <3>1, <3>6, <3>7 DEF WayInv
  <2>. QED
    BY <2>1, <2>2
<1>9. ASSUME NEW loc \in Url, NEW type \in {"http", "meta_refresh"}, Redirect(loc, type),
             pc \in {"response", "body"}, UNCHANGED <<start, cur, requests, meta>>
      PROVE  WayInv'
  <2>1. /\ chain' = Append(chain, HopTo(loc, type)) /\ target' = loc
        /\ pc' = "precheck" /\ code' = "none"
    BY <1>3, <1>9 DEF Redirect
  <2>2. /\ Len(chain') = Len(chain) + 1
        /\ \A i \in 1..Len(chain) : chain'[i] = chain[i]
        /\ chain'[Len(chain) + 1] = HopTo(loc, type)
    BY <1>2, <2>1
  <2>3. \A i \in 1..Len(chain') : i \in 1..Len(chain) \/ i = Len(chain) + 1
    BY <1>2, <2>2
  <2>4. HopTo(loc, type).url = cur /\ HopTo(loc, type).location = loc
    BY DEF HopTo
  <2>5. \A i \in 1..(Len(chain) + 1) : Stop(i, target)' = Stop(i, cur)
    BY <1>2, <2>2, <2>3, <2>4 DEF Stop
  <2>7. LinkedTo(cur) /\ MetaUpTo(Len(chain))
        /\ \A i \in 1..Len(requests) : requests[i].url = Stop(i, cur)
    BY <1>1, <1>9 DEF WayInv, AtPage, Running
  <2>8. LinkedTo(target)'
    <3>1. Stop(1, target)' = start'
      BY <1>2, <1>9, <2>5, <2>7 DEF LinkedTo
    <3>2. \A i \in 1..Len(chain) : chain'[i].location = Stop(i + 1, target)'
      BY <1>2, <2>2, <2>5, <2>7 DEF LinkedTo
    <3>3. ASSUME NEW i \in Nat, i = Len(chain) + 1
          PROVE  chain'[i].location = Stop(i + 1, target)'
      BY <1>2, <2>1, <2>2, <2>4, <3>3 DEF Stop
    <3>4. ASSUME NEW i \in 1..Len(chain') PROVE chain'[i].location = Stop(i + 1, target)'
      BY <1>2, <2>3, <3>2, <3>3
    <3>. QED
      BY <3>1, <3>4 DEF LinkedTo
  <2>9. MetaUpTo(Len(chain) - 1)'
    BY <1>2, <1>9, <2>2, <2>7 DEF MetaUpTo
  <2>10. \A i \in 1..Len(requests') : requests'[i].url = Stop(i, cur)'
    <3>1. Len(requests) = Len(chain) + 1
      BY <1>1, <1>2, <1>9 DEF BoundInv, Counted
    <3>2. \A i \in 1..(Len(chain) + 1) : Stop(i, cur)' = Stop(i, cur)
      BY <1>2, <1>9, <2>2, <2>3, <2>4 DEF Stop
    <3>. QED
      BY <1>9, <2>7, <3>1, <3>2
  <2>11. chain'[Len(chain')].url = cur'
    BY <1>9, <2>2, <2>4
  <2>. QED
    BY <2>1, <2>8, <2>9, <2>10, <2>11 DEF WayInv, AtPage
<1>10. ASSUME pc \in {"response", "body"}, UNCHANGED <<start, cur, requests, chain, meta>>,
              \/ pc' = "body" /\ code' = "none"
              \/ pc' = "done" /\ code' = "ok" /\ pc = "body"
       PROVE  WayInv'
  <2>1. LinkedTo(cur) /\ MetaUpTo(Len(chain))
        /\ \A i \in 1..Len(requests) : requests[i].url = Stop(i, cur)
    BY <1>1, <1>10 DEF WayInv, AtPage, Running
  <2>2. Len(requests) = Len(chain) + 1
    BY <1>1, <1>2, <1>10 DEF BoundInv, Counted
  <2>3. LinkedTo(cur)' /\ MetaUpTo(Len(chain))'
        /\ (\A i \in 1..Len(requests) : requests[i].url = Stop(i, cur))'
    BY <1>10, <2>1 DEF LinkedTo, MetaUpTo, Stop
  <2>. QED
    BY <1>10, <2>2, <2>3 DEF WayInv
<1>11. CASE Response
  <2>1. UNCHANGED <<start, cur, requests, meta>> /\ pc = "response"
    BY <1>11 DEF Response, caller
  <2>2. ASSUME NEW s \in Nat PROVE ErrorOf(s) # "ok"
    BY ErrorType DEF HttpError
  <2>3. CASE pc' = "done" /\ code' # "ok"
    BY <1>5, <2>3
  <2>4. ASSUME NEW loc \in Url, Redirect(loc, "http") PROVE WayInv'
    BY <1>9, <2>1, <2>4
  <2>5. CASE pc' = "body" /\ UNCHANGED <<code, chain, target>>
    <3>1. code' = "none" /\ chain' = chain
      BY <1>3, <2>1, <2>5
    <3>2. UNCHANGED <<start, cur, requests, chain, meta>> /\ pc \in {"response", "body"}
      BY <2>1, <3>1
    <3>. QED
      BY <1>10, <2>5, <3>1, <3>2
  <2>6. \A s \in Status : s \in Nat
    BY FetchAssumption
  <2>. QED
    BY <1>11, <2>2, <2>3, <2>4, <2>5, <2>6 DEF Response, Throw
<1>12. CASE Chunk
  <2>1. UNCHANGED <<start, cur, requests, chain, meta>> /\ pc = "body"
    BY <1>12 DEF Chunk, caller
  <2>2. \/ pc' = "body" /\ code' = "none"
        \/ pc' = "done" /\ code' # "ok"
    BY <1>3, <1>12 DEF Chunk, Throw
  <2>. QED
    BY <1>5, <1>10, <2>1, <2>2
<1>13. CASE Page
  <2>1. UNCHANGED <<start, cur, requests, meta>> /\ pc = "body"
    BY <1>13 DEF Page, caller
  <2>2. ASSUME NEW loc \in Url, Redirect(loc, "meta_refresh") PROVE WayInv'
    BY <1>9, <2>1, <2>2
  <2>. QED
    BY <1>5, <1>10, <1>13, <2>1, <2>2 DEF Page, Throw
<1>14. CASE Precheck
  <2>1. /\ pc = "precheck" /\ UNCHANGED <<start, chain, target, requests>>
        /\ \/ pc' = "done" /\ code' # "ok"
           \/ /\ pc' = "hop" /\ code' = code /\ cur' = target
              /\ meta' = (meta \/ chain[Len(chain)].type = "meta_refresh")
    BY <1>14 DEF Precheck, Throw, caller
  <2>2. CASE pc' = "done" /\ code' # "ok"
    BY <1>5, <2>2
  <2>3. CASE /\ pc' = "hop" /\ code' = code /\ cur' = target
             /\ meta' = (meta \/ chain[Len(chain)].type = "meta_refresh")
    <3>1. /\ LinkedTo(target) /\ MetaUpTo(Len(chain) - 1)
          /\ chain[Len(chain)].url = cur
          /\ \A i \in 1..Len(requests) : requests[i].url = Stop(i, cur)
      BY <1>1, <2>1 DEF WayInv, Running
    <3>2. Len(requests) = Len(chain) /\ Len(chain) > 0
      BY <1>1, <1>2, <2>1 DEF BoundInv, Counted
    <3>3. LinkedTo(cur)'
      BY <2>1, <2>3, <3>1 DEF LinkedTo, Stop
    <3>4. MetaUpTo(Len(chain))'
      <4>1. \A i \in 1..Len(chain) : i \in 1..(Len(chain) - 1) \/ i = Len(chain)
        BY <1>2
      <4>2. Len(chain) \in 1..Len(chain) /\ 1..(Len(chain) - 1) \subseteq 1..Len(chain)
        BY <1>2, <3>2
      <4>. QED
        BY <2>1, <2>3, <3>1, <4>1, <4>2 DEF MetaUpTo
    <3>5. \A i \in 1..Len(requests') : requests'[i].url = Stop(i, cur)'
      BY <1>2, <2>1, <3>1, <3>2 DEF Stop
    <3>6. pc' = "hop" /\ code' = "none"
      BY <1>3, <2>1, <2>3
    <3>. QED
      BY <3>3, <3>4, <3>5, <3>6 DEF WayInv, AtPage
  <2>. QED
    BY <2>1, <2>2, <2>3
<1>15. CASE DeadlinePasses \/ UNCHANGED vars
  <2>1. UNCHANGED <<pc, start, cur, target, chain, meta, code, requests>>
    BY <1>15 DEF DeadlinePasses, vars, caller, locals
  <2>. QED
    BY <1>1, <2>1 DEF WayInv, AtPage, LinkedTo, MetaUpTo, Stop, Running
<1>. QED
  BY <1>1, <1>6, <1>7, <1>8, <1>11, <1>12, <1>13, <1>14, <1>15 DEF Next

\* The chain of a page that is returned is the way from the URL of the crawl to final_url.
THEOREM ChainOfTheWalk == Spec => []ChainIsTheWay
<1>1. Init => WayInv
  BY DEF Init, WayInv, AtPage, Running
<1>2. TypeInv /\ WayInv => ChainIsTheWay
  <2>. DEFINE way == [i \in 1..Len(chain) |-> chain[i].url]
              to == [i \in 1..Len(chain) |-> chain[i].location]
  <2>1. SUFFICES ASSUME TypeInv, WayInv, code = "ok"
                 PROVE  /\ Append(way, cur) = [i \in 1..Len(requests) |-> requests[i].url]
                        /\ <<start>> \o to = Append(way, cur)
                        /\ meta = \E i \in 1..Len(chain) : chain[i].type = "meta_refresh"
    BY DEF ChainIsTheWay
  <2>2. /\ Len(chain) \in Nat /\ Len(requests) = Len(chain) + 1
        /\ LinkedTo(cur) /\ MetaUpTo(Len(chain))
        /\ \A i \in 1..Len(requests) : requests[i].url = Stop(i, cur)
    BY <2>1 DEF TypeInv, TypeOK, WayInv, AtPage
  <2>3. /\ way \in Seq({chain[i].url : i \in 1..Len(chain)}) /\ Len(way) = Len(chain)
        /\ to \in Seq({chain[i].location : i \in 1..Len(chain)}) /\ Len(to) = Len(chain)
    BY <2>2
  <2>4. Append(way, cur) = [i \in 1..(Len(chain) + 1) |-> Stop(i, cur)]
    BY <2>2, <2>3 DEF Stop
  <2>5. <<start>> \o to = [i \in 1..(Len(chain) + 1) |-> Stop(i, cur)]
    <3>1. /\ <<start>> \o to
             = [i \in 1..(Len(chain) + 1) |-> IF i <= 1 THEN start ELSE to[i - 1]]
      BY <2>2, <2>3
    <3>2. ASSUME NEW i \in 1..(Len(chain) + 1)
          PROVE  (IF i <= 1 THEN start ELSE to[i - 1]) = Stop(i, cur)
      <4>1. CASE i = 1
        BY <2>2, <4>1 DEF LinkedTo
      <4>2. CASE i # 1
        <5>1. i - 1 \in 1..Len(chain) /\ (i - 1) + 1 = i
          BY <2>2, <4>2
        <5>2. to[i - 1] = chain[i - 1].location
          BY <5>1
        <5>3. chain[i - 1].location = Stop((i - 1) + 1, cur)
          BY <2>2, <5>1 DEF LinkedTo
        <5>. QED
          BY <2>2, <4>2, <5>1, <5>2, <5>3
      <4>. QED
        BY <4>1, <4>2
    <3>. QED
      BY <3>1, <3>2
  <2>6. [i \in 1..Len(requests) |-> requests[i].url]
        = [i \in 1..(Len(chain) + 1) |-> Stop(i, cur)]
    BY <2>2
  <2>. QED
    BY <2>2, <2>4, <2>5, <2>6 DEF MetaUpTo
<1>3. Init => BoundInv
  BY FetchAssumption DEF Init, BoundInv, Counted, HopsBounded
<1>. QED
  BY <1>1, <1>2, <1>3, TypeInit, TypeStep, BoundStep, WayStep, PTL DEF Spec

================================================================================
