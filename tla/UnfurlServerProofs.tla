------------------------- MODULE UnfurlServerProofs -------------------------
(***************************************************************************)
(* Theorems about UnfurlServer: what a client is told is what was found,   *)
(* and what a crawl has found is there for whoever asks again.             *)
(***************************************************************************)
EXTENDS UnfurlServer, UnfurlCacheProofs

----------------------------------------------------------------------------
(* The cache layer, as the handler relies on it. *)

\* Where a crawl that found a card has written its row.
Mapped == {"setFinal", "setShort", "writeCrawl", "unlock", "done"}
Rowed == Mapped \cup {"setPayload", "setMap"}

WroteRow ==
  faults = 0 =>
    \A t \in Task : Succeeded(res[t]) /\ pc[t] \in Rowed => attempts[t] = 1

LEMMA FaultsGrow == ASSUME TypeInv, [Next]_vars, faults' = 0 PROVE faults = 0
<1>1. \A ok, applied : Command(ok, applied) => faults <= faults' /\ faults \in Nat
  BY CommandType DEF TypeInv, TypeOK, ObservedOK
<1>2. faults \in Nat
  BY DEF TypeInv, TypeOK, ObservedOK
<1>3. ASSUME RowsStay PROVE faults = 0
  BY <1>2, <1>3 DEF RowsStay
<1>4. ASSUME NEW t \in Task, Step(t) PROVE faults = 0
  <2>1. CASE Crawl(t)
    BY <1>1, <1>2, <2>1 DEF Crawl
  <2>2. CASE WriteAttempt(t)
    BY <1>1, <1>2, <2>2 DEF WriteAttempt
  <2>3. CASE Silent(t) \/ Showing(t)
    BY <1>3, <2>3, SilentRows, ShowingRows
  <2>. QED
    BY <1>4, <2>1, <2>2, <2>3 DEF Step, Silent, Showing
<1>5. ASSUME NEW r \in Request, Arrive(r) \/ Lookup(r) PROVE faults = 0
  BY <1>3, <1>5, ArriveRows, LookupRows
<1>6. CASE UNCHANGED vars
  BY <1>6 DEF vars
<1>7. CASE Tick \/ \E nd \in Node : Crash(nd)
  BY <1>3, <1>7, EnvironmentRows
<1>. QED
  BY <1>4, <1>5, <1>6, <1>7 DEF Next

\* A task that has its row gets no other.
LEMMA RowFixed ==
  ASSUME TypeInv, RowInv, [Next]_vars, NEW t \in Task, attempts[t] = 1
  PROVE  attempts'[t] = 1
<1>1. pc[t] \notin {"crawl", "attempt"}
  BY DEF RowInv, BeforeRow
<1>2. ASSUME RowsStay PROVE attempts'[t] = 1
  BY <1>2 DEF RowsStay
<1>3. ASSUME NEW u \in Task, Step(u) PROVE attempts'[t] = 1
  <2>1. CASE Crawl(u)
    BY <1>1, <2>1 DEF Crawl, TypeInv, TypeOK, SharedOK
  <2>2. CASE WriteAttempt(u)
    BY <1>1, <2>2 DEF WriteAttempt, TypeInv, TypeOK, SharedOK
  <2>3. CASE Silent(u) \/ Showing(u)
    BY <1>2, <2>3, SilentRows, ShowingRows
  <2>. QED
    BY <1>3, <2>1, <2>2, <2>3 DEF Step, Silent, Showing
<1>4. ASSUME NEW r \in Request, Arrive(r) \/ Lookup(r) PROVE attempts'[t] = 1
  BY <1>2, <1>4, ArriveRows, LookupRows
<1>5. CASE UNCHANGED vars
  BY <1>5 DEF vars
<1>6. CASE Tick \/ \E nd \in Node : Crash(nd)
  BY <1>2, <1>6, EnvironmentRows
<1>. QED
  BY <1>3, <1>4, <1>5, <1>6 DEF Next

LEMMA AfterDeath ==
  ASSUME TypeInv, [Next]_vars, NEW t \in Task, pc[t] = "dead" PROVE pc'[t] = "dead"
<1>1. ASSUME NEW u \in Task, Step(u) PROVE pc'[t] = "dead"
  <2>1. StepFrame(u)
    BY <1>1, StepHasFrame
  <2>. QED
    BY <2>1 DEF StepFrame, Ended
<1>2. ASSUME NEW r \in Request, Arrive(r) \/ Lookup(r) PROVE pc'[t] = "dead"
  BY <1>2, ArriveHasFrame, LookupHasFrame DEF ArriveFrame, LookupFrame
<1>3. CASE Tick \/ UNCHANGED vars \/ \E nd \in Node : Crash(nd)
  BY <1>3 DEF Tick, Crash, vars
<1>. QED
  BY <1>1, <1>2, <1>3 DEF Next

\* How a task comes to where a card has its row: it logs the row, or was there already,
\* or it stored a failure or answered from a cache.
LEMMA RowedMoves ==
  ASSUME TypeInv, ResPlaced, [Next]_vars, NEW t \in Task,
         Succeeded(res'[t]), pc'[t] \in Rowed
  PROVE  /\ res'[t] = res[t]
         /\ WriteAttempt(t) \/ pc[t] \in Rowed
<1>1. pc[t] # "crawl"
  <2>1. ASSUME pc[t] = "crawl" PROVE FALSE
    <3>1. ASSUME NEW u \in Task, Step(u) PROVE FALSE
      <4>1. CASE u = t
        BY <2>1, <3>1, <4>1
           DEF Step, GetMap, SetNx, Unlock, Crawl, AfterCrawl, SetNeg, WriteAttempt,
               SetPayload, SetMap, SetFinal, SetShort, WriteCrawl, Goto, TypeInv, TypeOK,
               ChainOK, Rowed, Mapped
      <4>2. CASE u # t
        BY <2>1, <3>1, <4>2, StepHasFrame, ZenonT(30) DEF StepFrame, Rowed, Mapped
      <4>. QED
        BY <4>1, <4>2
    <3>2. ASSUME NEW r \in Request, Arrive(r) \/ Lookup(r) PROVE FALSE
      BY <2>1, <3>2, ArriveHasFrame, LookupHasFrame
         DEF ArriveFrame, LookupFrame, Rowed, Mapped
    <3>3. CASE Tick \/ UNCHANGED vars \/ \E nd \in Node : Crash(nd)
      BY <2>1, <3>3 DEF Tick, Crash, vars, Rowed, Mapped
    <3>. QED
      BY <3>1, <3>2, <3>3 DEF Next
  <2>. QED
    BY <2>1
<1>2. res'[t] = res[t]
  BY <1>1, ResMoves
<1>3. pc[t] \notin BeforeResult /\ pc[t] # "setNeg"
  BY <1>2, NoResultFacts DEF ResPlaced
<1>4. pc[t] # "dead"
  <2>1. pc[t] = "dead" => pc'[t] = "dead"
    BY AfterDeath
  <2>. QED
    BY <2>1 DEF Rowed, Mapped
<1>5. pc[t] = "attempt" => WriteAttempt(t)
  <2>1. ASSUME pc[t] = "attempt", NEW u \in Task, Step(u) PROVE WriteAttempt(t)
    <3>1. CASE u = t
      BY <2>1, <3>1
         DEF Step, GetMap, SetNx, Unlock, Crawl, SetNeg, SetPayload, SetMap, SetFinal,
             SetShort, WriteCrawl
    <3>2. CASE u # t
      BY <2>1, <3>2, StepHasFrame, ZenonT(30) DEF StepFrame, Rowed, Mapped
    <3>. QED
      BY <3>1, <3>2
  <2>2. ASSUME pc[t] = "attempt", NEW r \in Request, Arrive(r) \/ Lookup(r) PROVE FALSE
    BY <2>2, ArriveHasFrame, LookupHasFrame DEF ArriveFrame, LookupFrame, Rowed, Mapped
  <2>3. ASSUME pc[t] = "attempt", Tick \/ UNCHANGED vars \/ \E nd \in Node : Crash(nd)
        PROVE  FALSE
    BY <2>3 DEF Tick, Crash, vars, Rowed, Mapped
  <2>. QED
    BY <2>1, <2>2, <2>3 DEF Next
<1>6. pc[t] \in Label
  BY DEF TypeInv, TypeOK, ChainOK
<1>. QED
  BY <1>2, <1>3, <1>4, <1>5, <1>6 DEF Label, Crawling, BeforeResult, Rowed, Mapped

LEMMA WroteRowStep ==
  ASSUME TypeInv, ResPlaced, RowInv, WroteRow, [Next]_vars PROVE WroteRow'
<1>1. SUFFICES ASSUME faults' = 0, NEW t \in Task, Succeeded(res'[t]), pc'[t] \in Rowed
               PROVE  attempts'[t] = 1
  BY DEF WroteRow
<1>2. faults = 0
  BY <1>1, FaultsGrow
<1>3. CASE WriteAttempt(t)
  <2>1. attempts[t] = 0
    BY <1>3 DEF WriteAttempt, RowInv, BeforeRow
  <2>. QED
    BY <1>1, <1>3, <2>1, CommandType
       DEF WriteAttempt, TypeInv, TypeOK, SharedOK, ObservedOK
<1>4. CASE res'[t] = res[t] /\ pc[t] \in Rowed
  BY <1>1, <1>2, <1>4, RowFixed DEF WroteRow
<1>. QED
  BY <1>1, <1>3, <1>4, RowedMoves

----------------------------------------------------------------------------
(* The reply. *)

\* One step settles one call.
LEMMA OneAnswer ==
  ASSUME TypeInv, [Next]_vars, NEW r \in Request, NEW s \in Request, r # s
  PROVE  answer'[r] = answer[r] \/ answer'[s] = answer[s]
<1>1. Fg(r) # Fg(s)
  BY TaskFacts
<1>2. ASSUME NEW t \in Task, Step(t) PROVE answer'[r] = answer[r] \/ answer'[s] = answer[s]
  <2>1. StepFrame(t)
    BY <1>2, StepHasFrame
  <2>. QED
    BY <1>1, <2>1 DEF StepFrame
<1>3. ASSUME NEW q \in Request, Arrive(q) \/ Lookup(q)
      PROVE  answer'[r] = answer[r] \/ answer'[s] = answer[s]
  BY <1>3, ArriveHasFrame, LookupHasFrame DEF ArriveFrame, LookupFrame
<1>4. CASE Tick \/ UNCHANGED vars \/ \E nd \in Node : Crash(nd)
  BY <1>4 DEF Tick, Crash, vars
<1>. QED
  BY <1>2, <1>3, <1>4 DEF Next

CacheInv ==
  /\ AnswerInv /\ RowInv /\ WroteRow
  /\ CrawlTimes /\ PayloadTimes /\ NegTimes /\ HistoryOK

LEMMA CacheInvInit == Init => CacheInv
<1>1. Init => AnswerInv /\ RowInv
  BY TypeInit, ResInit, CachesInit, AnswersInit, RowInit DEF AnswerInv
<1>2. Init => /\ WroteRow /\ CrawlTimes /\ PayloadTimes /\ NegTimes /\ HistoryOK
  BY DEF Init, WroteRow, Rowed, Mapped, CrawlTimes, PayloadTimes, NegTimes, HistoryOK,
         Crawling, AfterAttempt, Stored, NoEntry
<1>. QED
  BY <1>1, <1>2 DEF CacheInv

LEMMA CacheInvStep == CacheInv /\ [Next]_vars => CacheInv'
<1>1. SUFFICES ASSUME CacheInv, [Next]_vars PROVE CacheInv'
  OBVIOUS
<1>2. AnswerInv' /\ RowInv' /\ WroteRow'
  BY <1>1, TypeStep, NextSettles, CachesStep, AnswersStep, RowStep, WroteRowStep
     DEF CacheInv, AnswerInv
<1>3. CrawlTimes' /\ PayloadTimes' /\ NegTimes' /\ HistoryOK'
  BY <1>1, CrawlTimesStep, PayloadTimesStep, NegTimesStep, HistoryStep
     DEF CacheInv, AnswerInv
<1>. QED
  BY <1>2, <1>3 DEF CacheInv

\* A new answer is of a crawl that is over or shown, and whose row, if it is a card, is
\* written.
LEMMA NewAnswer ==
  ASSUME CacheInv, [Next]_vars, NEW r \in Request, answer'[r] # answer[r]
  PROVE  /\ answer[r] = NoAnswer /\ answer'[r] # NoAnswer
         /\ answer'[r].by \in Task /\ res[answer'[r].by] \in Result
         /\ res'[answer'[r].by] = res[answer'[r].by]
         /\ Succeeded(res[answer'[r].by]) /\ faults' = 0 => attempts'[answer'[r].by] = 1
<1>. DEFINE t == Fg(r)
<1>1. /\ TypeInv /\ ResPlaced /\ CachesTrue /\ AnswersTrue /\ RowInv /\ WroteRow
  BY DEF CacheInv, AnswerInv
<1>2. ASSUME NEW u \in Task, res[u] # NoResult,
             Succeeded(res[u]) /\ faults = 0 => attempts[u] = 1
      PROVE  /\ res[u] \in Result /\ res'[u] = res[u]
             /\ Succeeded(res[u]) /\ faults' = 0 => attempts'[u] = 1
  <2>1. res[u] \in Result /\ res'[u] = res[u]
    BY <1>1, <1>2, ResultType, NextSettles DEF Settled
  <2>2. faults' = 0 => faults = 0
    BY <1>1, FaultsGrow
  <2>. QED
    BY <1>1, <1>2, <2>1, <2>2, RowFixed
<1>3. /\ pc[t] # "done"
      /\ \/ answer'[r] = [kind |-> "miss", by |-> t] /\ res[t] # NoResult
         \/ \E kind \in {"hit", "stale"}, u \in Task :
              /\ answer'[r] = [kind |-> kind, by |-> u]
              /\ u \in Visible /\ Succeeded(res[u])
         \/ /\ pc[t] = "getNeg" /\ neg[url[t]] # NoEntry
            /\ answer'[r] = [kind |-> "negative", by |-> neg[url[t]].by]
  <2>1. AnswerMove(r)
    BY <1>1, NextAnswers
  <2>. QED
    BY <2>1 DEF AnswerMove
<1>4. answer[r] = NoAnswer
  BY <1>1, <1>3 DEF AnswersTrue
<1>5. CASE answer'[r] = [kind |-> "miss", by |-> t] /\ res[t] # NoResult
  <2>1. t \in Task /\ answer'[r].by = t /\ answer'[r] # NoAnswer
    BY <1>5, TaskFacts DEF NoAnswer
  <2>2. Succeeded(res[t]) /\ faults = 0 => attempts[t] = 1
    <3>1. AnswerMove(r) /\ pc'[t] = "done"
      BY <1>1, <1>3, NextAnswers DEF AnswerMove
    <3>2. Succeeded(res[t]) => res'[t] = res[t]
      BY <1>1, <1>5, <2>1, NextSettles DEF Settled
    <3>3. Succeeded(res[t]) => WriteAttempt(t) \/ pc[t] \in Rowed
      BY <1>1, <2>1, <3>1, <3>2, RowedMoves DEF Rowed, Mapped
    <3>4. ~WriteAttempt(t)
      BY <1>1, <2>1, <3>1 DEF WriteAttempt, Goto, TypeInv, TypeOK, ChainOK
    <3>. QED
      BY <1>1, <2>1, <3>3, <3>4 DEF WroteRow
  <2>. QED
    BY <1>2, <1>4, <1>5, <2>1, <2>2
<1>6. ASSUME NEW kind \in {"hit", "stale"}, NEW u \in Task,
             answer'[r] = [kind |-> kind, by |-> u], u \in Visible, Succeeded(res[u])
      PROVE  /\ answer'[r] # NoAnswer /\ answer'[r].by \in Task
             /\ res[answer'[r].by] \in Result
             /\ res'[answer'[r].by] = res[answer'[r].by]
             /\ Succeeded(res[answer'[r].by]) /\ faults' = 0 => attempts'[answer'[r].by] = 1
  <2>1. answer'[r].by = u /\ answer'[r] # NoAnswer /\ res[u] # NoResult
    BY <1>6, NoResultFacts DEF NoAnswer
  <2>2. u # None
    BY Constants
  <2>3. faults = 0 => attempts[u] = 1
    BY <1>1, <1>6, <2>2 DEF RowInv, AttemptBeforeVisible
  <2>. QED
    BY <1>2, <2>1, <2>3
<1>7. CASE /\ pc[t] = "getNeg" /\ neg[url[t]] # NoEntry
           /\ answer'[r] = [kind |-> "negative", by |-> neg[url[t]].by]
  <2>1. url[t] \in Norm
    BY <1>1, <1>7, TaskFacts DEF TypeInv, Placed
  <2>2. PICK u \in Task : u = neg[url[t]].by /\ res[u] # NoResult /\ ~Succeeded(res[u])
    BY <1>1, <1>7, <2>1 DEF CachesTrue, Failure
  <2>3. answer'[r].by = u /\ answer'[r] # NoAnswer
    BY <1>7, <2>2 DEF NoAnswer
  <2>. QED
    BY <1>2, <1>4, <2>2, <2>3
<1>. QED
  BY <1>3, <1>4, <1>5, <1>6, <1>7

ReplyOK ==
  /\ reply \in [Request -> [status : Nat, public : BOOLEAN]]
  /\ \A r \in Request : reply[r].public => reply[r].status = 200
  /\ ReplyIsTrue

\* The status of a settled call.
LEMMA StatusFacts ==
  ASSUME NEW kind, NEW x \in Result, NEW s \in HttpStatus[x.kind]
  PROVE  /\ StatusOf(kind, x, s) \in Nat \ {0, 202}
         /\ IF Succeeded(x) THEN StatusOf(kind, x, s) = 200 ELSE StatusOf(kind, x, s) >= 400
<1>1. x.kind \in Kind
  BY DEF Result
<1>2. s \in 0..599
  <2>1. HttpStatus[x.kind] \subseteq 0..599
    BY <1>1, ServerAssumption
  <2>. QED
    BY <2>1
<1>3. CASE Succeeded(x)
  BY <1>3 DEF StatusOf
<1>4. CASE ~Succeeded(x) /\ kind # "negative" /\ s >= 400
  BY <1>2, <1>4 DEF StatusOf
<1>5. CASE ~Succeeded(x) /\ ~(kind # "negative" /\ s >= 400)
  BY <1>5 DEF StatusOf
<1>. QED
  BY <1>3, <1>4, <1>5

\* What a reply says stays true.
LEMMA OldReply ==
  ASSUME CacheInv, ReplyOK, [Next]_vars, NEW r \in Request,
         reply'[r] = reply[r], answer'[r] = answer[r] \/ reply[r] = Accepted
  PROVE  LET x == res'[answer'[r].by] IN
         /\ answer'[r] # NoAnswer => reply'[r] # NoReply
         /\ reply'[r].status \notin {0, 202} =>
              /\ answer'[r] # NoAnswer
              /\ IF Succeeded(x) THEN reply'[r].status = 200 ELSE reply'[r].status >= 400
         /\ reply'[r].public =>
              /\ Succeeded(x)
              /\ faults' = 0 => attempts'[answer'[r].by] = 1
<1>1. CASE reply[r] = Accepted
  BY <1>1 DEF Accepted, NoReply
<1>2. CASE answer'[r] = answer[r] /\ answer[r] # NoAnswer
  <2>. DEFINE u == answer[r].by
  <2>1. u \in Task /\ res[u] # NoResult
    <3>1. answer[r].kind \in {"hit", "stale", "negative", "miss"}
      BY <1>2 DEF CacheInv, AnswerInv, TypeInv, TypeOK, AnswerOK, AnswersTrue
    <3>. QED
      BY <1>2, <3>1, NoResultFacts, TaskFacts
         DEF CacheInv, AnswerInv, AnswersTrue, Card, Failure
  <2>2. res'[u] = res[u]
    BY <2>1, NextSettles DEF CacheInv, AnswerInv, Settled
  <2>3. attempts[u] = 1 => attempts'[u] = 1
    BY <2>1, RowFixed DEF CacheInv, AnswerInv
  <2>4. faults' = 0 => faults = 0
    BY FaultsGrow DEF CacheInv, AnswerInv
  <2>. QED
    BY <1>2, <2>1, <2>2, <2>3, <2>4 DEF ReplyOK, ReplyIsTrue
<1>3. CASE answer'[r] = answer[r] /\ answer[r] = NoAnswer /\ reply[r] # Accepted
  <2>1. reply[r].status \in {0, 202}
    BY <1>3 DEF ReplyOK, ReplyIsTrue
  <2>2. ~reply[r].public
    BY <2>1 DEF ReplyOK
  <2>. QED
    BY <1>3, <2>1, <2>2
<1>. QED
  BY <1>1, <1>2, <1>3
\* What a reply may become: it stays, the budget ends, or the call is settled for it.
ReplyMove(r) ==
  \/ reply'[r] = reply[r] /\ (answer'[r] = answer[r] \/ reply[r] = Accepted)
  \/ reply'[r] = Accepted /\ reply[r] = NoReply /\ answer'[r] = NoAnswer
  \/ /\ answer'[r] # answer[r]
     /\ \E s \in HttpStatus[res'[answer'[r].by].kind] :
          reply'[r] = ReplyOf(answer'[r], s)

LEMMA StepOfCache == [ServerNext]_serverVars => [Next]_vars
BY DEF ServerNext, serverVars, CacheStep, BudgetEnds

LEMMA ReplyMoves ==
  ASSUME CacheInv, ReplyOK, [ServerNext]_serverVars
  PROVE  \A r \in Request : ReplyMove(r)
<1>1. TypeInv /\ [Next]_vars
  BY StepOfCache DEF CacheInv, AnswerInv
<1>2. ASSUME NEW r \in Request, CacheStep PROVE ReplyMove(r)
  <2>. DEFINE settled == {q \in Request : Waiting(q) /\ answer'[q] # NoAnswer}
  <2>1. CASE settled = {} /\ UNCHANGED reply
    <3>1. CASE answer'[r] = answer[r]
      BY <2>1, <3>1 DEF ReplyMove
    <3>2. CASE answer'[r] # answer[r]
      <4>1. answer[r] = NoAnswer /\ answer'[r] # NoAnswer
        BY <1>1, <3>2, NewAnswer
      <4>2. reply[r] # NoReply
        BY <2>1, <4>1 DEF Waiting
      <4>3. reply[r].status \in {0, 202} /\ ~reply[r].public
        BY <4>1 DEF ReplyOK, ReplyIsTrue
      <4>4. reply[r] \in [status : Nat, public : BOOLEAN]
        BY DEF ReplyOK
      <4>5. reply[r] = Accepted
        BY <4>2, <4>3, <4>4 DEF Accepted, NoReply
      <4>. QED
        BY <2>1, <4>5 DEF ReplyMove
    <3>. QED
      BY <3>1, <3>2
  <2>2. ASSUME NEW q \in settled, NEW s \in HttpStatus[res'[answer'[q].by].kind],
               reply' = [reply EXCEPT ![q] = ReplyOf(answer'[q], s)]
        PROVE  ReplyMove(r)
    <3>1. q \in Request /\ answer'[q] # answer[q]
      BY <2>2 DEF Waiting
    <3>2. q \in DOMAIN reply
      BY <3>1 DEF ReplyOK
    <3>3. CASE q = r
      <4>1. reply'[r] = ReplyOf(answer'[r], s)
        BY <2>2, <3>2, <3>3
      <4>. QED
        BY <2>2, <3>1, <3>3, <4>1 DEF ReplyMove
    <3>4. CASE q # r
      <4>1. answer'[r] = answer[r]
        BY <1>1, <3>1, <3>4, OneAnswer
      <4>2. reply'[r] = reply[r]
        BY <2>2, <3>4 DEF ReplyOK
      <4>. QED
        BY <4>1, <4>2 DEF ReplyMove
    <3>. QED
      BY <3>3, <3>4
  <2>. QED
    BY <1>2, <2>1, <2>2 DEF CacheStep
<1>3. ASSUME NEW r \in Request, NEW q \in Request, BudgetEnds(q) PROVE ReplyMove(r)
  <2>1. answer' = answer /\ reply[q] = NoReply /\ answer[q] = NoAnswer
        /\ reply' = [reply EXCEPT ![q] = Accepted]
    BY <1>3 DEF BudgetEnds, Waiting, vars
  <2>. QED
    BY <2>1 DEF ReplyMove, ReplyOK
<1>4. ASSUME NEW r \in Request, UNCHANGED serverVars PROVE ReplyMove(r)
  BY <1>4 DEF serverVars, vars, ReplyMove
<1>. QED
  BY <1>2, <1>3, <1>4 DEF ServerNext

LEMMA ReplyStep ==
  ASSUME CacheInv, ReplyOK, [ServerNext]_serverVars
  PROVE  ReplyOK'
<1>1. [Next]_vars
  BY StepOfCache
<1>2. reply' = [r \in Request |-> reply'[r]]
  BY DEF ServerNext, CacheStep, BudgetEnds, serverVars, ReplyOK
<1>. DEFINE True(r) == LET x == res'[answer'[r].by] IN
              /\ answer'[r] # NoAnswer => reply'[r] # NoReply
              /\ reply'[r].status \notin {0, 202} =>
                   /\ answer'[r] # NoAnswer
                   /\ IF Succeeded(x) THEN reply'[r].status = 200
                                      ELSE reply'[r].status >= 400
              /\ reply'[r].public =>
                   /\ Succeeded(x)
                   /\ faults' = 0 => attempts'[answer'[r].by] = 1
<1>3. ASSUME NEW r \in Request
      PROVE  /\ reply'[r] \in [status : Nat, public : BOOLEAN]
             /\ reply'[r].public => reply'[r].status = 200
             /\ True(r)
  <2>1. CASE reply'[r] = reply[r] /\ (answer'[r] = answer[r] \/ reply[r] = Accepted)
    <3>1. True(r)
      BY <1>1, <2>1, OldReply
    <3>. QED
      BY <2>1, <3>1 DEF ReplyOK
  <2>2. CASE reply'[r] = Accepted /\ reply[r] = NoReply /\ answer'[r] = NoAnswer
    BY <2>2 DEF Accepted
  <2>3. ASSUME answer'[r] # answer[r], NEW s \in HttpStatus[res'[answer'[r].by].kind],
               reply'[r] = ReplyOf(answer'[r], s)
        PROVE  /\ reply'[r] \in [status : Nat, public : BOOLEAN]
               /\ reply'[r].public => reply'[r].status = 200
               /\ True(r)
    <3>. DEFINE u == answer'[r].by
                x == res[u]
                kind == answer'[r].kind
    <3>1. /\ answer'[r] # NoAnswer /\ x \in Result /\ res'[u] = x
          /\ Succeeded(x) /\ faults' = 0 => attempts'[u] = 1
      BY <1>1, <2>3, NewAnswer
    <3>2. /\ StatusOf(kind, x, s) \in Nat \ {0, 202}
          /\ IF Succeeded(x) THEN StatusOf(kind, x, s) = 200
                             ELSE StatusOf(kind, x, s) >= 400
      BY <2>3, <3>1, StatusFacts
    <3>3. /\ reply'[r] = [status |-> StatusOf(kind, x, s), public |-> Cacheable(kind, x)]
          /\ Cacheable(kind, x) \in BOOLEAN
          /\ Cacheable(kind, x) => Succeeded(x)
      BY <2>3 DEF ReplyOf, Cacheable
    <3>4. reply'[r].status = StatusOf(kind, x, s) /\ reply'[r].public = Cacheable(kind, x)
      BY <3>3
    <3>5. reply'[r] \in [status : Nat, public : BOOLEAN]
      BY <3>2, <3>3
    <3>6. reply'[r] # NoReply
      BY <3>2, <3>4 DEF NoReply
    <3>. QED
      BY <3>1, <3>2, <3>3, <3>4, <3>5, <3>6
  <2>. QED
    BY <2>1, <2>2, <2>3, ReplyMoves DEF ReplyMove
<1>. QED
  BY <1>2, <1>3 DEF ReplyOK, ReplyIsTrue

\* Whatever the interleaving of the crawl, the budget and the caches, a reply that was
\* sent agrees with what was found for it, and what shared caches may keep is a card
\* whose row is written while Postgres answers.
THEOREM ReplyIsTrueAlways == ServerSpec => []ReplyIsTrue
<1>1. ServerInit => CacheInv /\ ReplyOK
  <2>1. ServerInit => CacheInv
    BY CacheInvInit DEF ServerInit
  <2>2. ServerInit => ReplyOK
    BY DEF ServerInit, Init, ReplyOK, ReplyIsTrue, NoReply, NoAnswer
  <2>. QED
    BY <2>1, <2>2
<1>2. (CacheInv /\ ReplyOK) /\ [ServerNext]_serverVars => (CacheInv /\ ReplyOK)'
  BY StepOfCache, CacheInvStep, ReplyStep
<1>3. CacheInv /\ ReplyOK => ReplyIsTrue
  BY DEF ReplyOK
<1>. QED
  BY <1>1, <1>2, <1>3, PTL DEF ServerSpec
----------------------------------------------------------------------------
(* Whoever asks again is served from what the crawl has left. *)

\* While Redis answers and nothing had time to expire, what a crawl has found is there:
\* a card under its own URL and the one it was redirected to, a failure under its URL.
NothingLost ==
  faults = 0 /\ NothingExpired =>
    /\ \A t \in Task : Succeeded(res[t]) =>
         /\ pc[t] \in Mapped \cup {"setMap"} => payload[res[t].pk] # NoEntry
         /\ pc[t] \in Mapped => map[url[t]] # NoMap
         /\ pc[t] \in Mapped \ {"setFinal"} => map[res[t].final] # NoMap
    /\ \A t \in Task : res[t] # NoResult /\ ~Succeeded(res[t]) /\ pc[t] \in {"unlock", "done"}
         => neg[url[t]] # NoEntry
    /\ \A n \in Norm : map[n] # NoMap => payload[map[n].pk] # NoEntry

\* No entry ends sooner than its TTL allows.
Dated ==
  /\ \A n \in Norm : map[n] # NoMap => MapTtl <= map[n].exp
  /\ \A n \in Norm : neg[n] # NoEntry => Ttl(res[neg[n].by]) <= neg[n].exp

\* A crawl that had ended when r came is of the page that r asks for.
Found(r) ==
  \E t \in past[r] : /\ res[t] # NoResult
                     /\ url[Fg(r)] = url[t] \/ (Succeeded(res[t]) /\ url[Fg(r)] = res[t].final)

\* Such a request reads on until it has an answer, and what it reads next is there.
ReadsOn ==
  faults = 0 /\ NothingExpired =>
    \A r \in Request :
      LET t == Fg(r) IN
      pc[t] # "idle" /\ ~refresh[r] /\ url[t] \notin Invalid /\ Found(r) =>
        /\ pc[t] \in {"getMap", "getPayload", "getNeg", "done", "dead"}
        /\ pc[t] = "getPayload" => payload[pk[t]] # NoEntry
        /\ pc[t] = "getNeg" => neg[url[t]] # NoEntry
        /\ answer[r].kind # "miss"

LEMMA DatedStep ==
  ASSUME TypeInv, ResPlaced, CachesTrue, Dated, [Next]_vars PROVE Dated'
<1>1. CachesMove /\ Settled
  BY NextMovesCaches, NextSettles
<1>2. now \in Nat /\ MapTtl \in Nat
  BY Constants DEF TypeInv, TypeOK, SharedOK
<1>3. ASSUME NEW n \in Norm, map'[n] # NoMap PROVE MapTtl <= map'[n].exp
  <2>1. CASE map'[n] = map[n]
    BY <1>3, <2>1 DEF Dated
  <2>2. ASSUME NEW t \in Task, map'[n] = [pk |-> res[t].pk, exp |-> now + MapTtl]
        PROVE  MapTtl <= map'[n].exp
    BY <1>2, <2>2
  <2>. QED
    BY <1>1, <1>3, <2>1, <2>2 DEF CachesMove
<1>4. ASSUME NEW n \in Norm, neg'[n] # NoEntry PROVE Ttl(res'[neg'[n].by]) <= neg'[n].exp
  <2>1. CASE neg'[n] = neg[n]
    <3>1. res'[neg[n].by] = res[neg[n].by]
      BY <1>1, <1>4, <2>1 DEF CachesTrue, Failure, Settled
    <3>. QED
      BY <1>4, <2>1, <3>1 DEF Dated
  <2>2. ASSUME NEW t \in Task, pc[t] = "setNeg",
               neg'[n] = [by |-> t, exp |-> now + Ttl(res[t])]
        PROVE  Ttl(res'[neg'[n].by]) <= neg'[n].exp
    <3>1. res'[t] = res[t]
      BY <1>1, <2>2 DEF ResPlaced, Settled
    <3>2. Ttl(res[t]) \in Nat
      BY TtlType
    <3>. QED
      BY <1>2, <2>2, <3>1, <3>2
  <2>. QED
    BY <1>1, <1>4, <2>1, <2>2 DEF CachesMove
<1>. QED
  BY <1>3, <1>4 DEF Dated, Ttl

\* Only time drops an entry.
LEMMA KeptButByTime ==
  ASSUME TypeInv, [Next]_vars, ~Tick
  PROVE  /\ \A n \in Norm : map[n] # NoMap => map'[n] # NoMap
         /\ \A p \in Pk : payload[p] # NoEntry => payload'[p] # NoEntry
         /\ \A n \in Norm : neg[n] # NoEntry => neg'[n] # NoEntry
<1>1. /\ now \in Nat /\ MapTtl \in Nat \ {0} /\ None \notin Task
      /\ map \in [Norm -> [pk : Pk, exp : Nat] \cup {NoMap}]
      /\ payload \in [Pk -> Entry \cup {NoEntry}]
      /\ neg \in [Norm -> Entry \cup {NoEntry}]
  BY Constants DEF TypeInv, TypeOK, SharedOK
<1>2. /\ \A p : [pk |-> p, exp |-> now + MapTtl] # NoMap
      /\ \A t \in Task : \A x : [by |-> t, exp |-> x] # NoEntry
  <2>1. ASSUME NEW p, [pk |-> p, exp |-> now + MapTtl] = NoMap PROVE FALSE
    <3>1. now + MapTtl = 0
      BY <2>1 DEF NoMap
    <3>. QED
      BY <1>1, <3>1
  <2>2. ASSUME NEW t \in Task, NEW x, [by |-> t, exp |-> x] = NoEntry PROVE FALSE
    <3>1. t = None
      BY <2>2 DEF NoEntry
    <3>. QED
      BY <1>1, <3>1
  <2>. QED
    BY <2>1, <2>2
<1>3. CASE UNCHANGED <<map, payload, neg>>
  BY <1>3
<1>4. ASSUME NEW t \in Task, SetMap(t) \/ SetFinal(t)
      PROVE  /\ \A n \in Norm : map[n] # NoMap => map'[n] # NoMap
             /\ UNCHANGED <<payload, neg>>
  <2>1. UNCHANGED <<payload, neg>>
    BY <1>4 DEF SetMap, SetFinal
  <2>2. \/ map' = map
        \/ \E n \in {url[t], res[t].final} :
             map' = [map EXCEPT ![n] = [pk |-> res[t].pk, exp |-> now + MapTtl]]
    BY <1>4 DEF SetMap, SetFinal
  <2>3. \A n \in Norm : map[n] # NoMap => map'[n] # NoMap
    BY <1>1, <1>2, <2>2
  <2>. QED
    BY <2>1, <2>3
<1>5. ASSUME NEW t \in Task, SetPayload(t)
      PROVE  /\ \A p \in Pk : payload[p] # NoEntry => payload'[p] # NoEntry
             /\ UNCHANGED <<map, neg>>
  <2>1. \/ payload' = payload
        \/ payload' = [payload EXCEPT ![res[t].pk] =
                         [by |-> t, exp |-> now + PhysicalTtl(res[t])]]
    BY <1>5 DEF SetPayload
  <2>2. UNCHANGED <<map, neg>>
    BY <1>5 DEF SetPayload
  <2>. QED
    BY <1>1, <1>2, <2>1, <2>2
<1>6. ASSUME NEW t \in Task, SetNeg(t)
      PROVE  /\ \A n \in Norm : neg[n] # NoEntry => neg'[n] # NoEntry
             /\ UNCHANGED <<map, payload>>
  <2>1. \/ neg' = neg
        \/ neg' = [neg EXCEPT ![url[t]] = [by |-> t, exp |-> now + Ttl(res[t])]]
    BY <1>6 DEF SetNeg, NegKey
  <2>2. UNCHANGED <<map, payload>>
    BY <1>6 DEF SetNeg
  <2>. QED
    BY <1>1, <1>2, <2>1, <2>2
<1>7. ASSUME NEW t \in Task, Step(t),
             ~(SetMap(t) \/ SetFinal(t) \/ SetPayload(t) \/ SetNeg(t))
      PROVE  UNCHANGED <<map, payload, neg>>
  BY <1>7
     DEF Step, GetMap, SetNx, Unlock, Crawl, WriteAttempt, SetShort, WriteCrawl, redis
<1>8. ASSUME NEW r \in Request, Arrive(r) \/ Lookup(r) PROVE UNCHANGED <<map, payload, neg>>
  BY <1>8, ArriveHasFrame, LookupHasFrame DEF ArriveFrame, LookupFrame, redis
<1>9. ASSUME UNCHANGED vars \/ \E nd \in Node : Crash(nd)
      PROVE  UNCHANGED <<map, payload, neg>>
  BY <1>9 DEF Crash, vars, redis
<1>. QED
  BY <1>3, <1>4, <1>5, <1>6, <1>7, <1>8, <1>9 DEF Next

\* And time does not, before the first TTL is over.
LEMMA NothingDropped ==
  ASSUME TypeInv, ResPlaced, CachesTrue, PayloadTimes, Dated, [Next]_vars, NothingExpired'
  PROVE  /\ \A n \in Norm : map[n] # NoMap => map'[n] # NoMap
         /\ \A p \in Pk : payload[p] # NoEntry => payload'[p] # NoEntry
         /\ \A n \in Norm : neg[n] # NoEntry => neg'[n] # NoEntry
<1>1. CASE ~Tick
  BY <1>1, KeptButByTime
<1>2. CASE Tick
  <2>1. /\ now' = now + 1 /\ now \in Nat
        /\ now' < CompleteTtl /\ now' < PartialTtl /\ now' < MapTtl
        /\ now' < Neg4xxTtl /\ now' < Neg5xxTtl
    BY <1>2 DEF Tick, NothingExpired, TypeInv, TypeOK, SharedOK
  <2>2. {CompleteTtl, PartialTtl, MapTtl, Neg4xxTtl, Neg5xxTtl} \subseteq Nat
    BY Constants
  <2>3. ASSUME NEW n \in Norm, map[n] # NoMap PROVE map'[n] # NoMap
    <3>1. MapTtl <= map[n].exp /\ map[n].exp \in Nat
      BY <2>3 DEF Dated, TypeInv, TypeOK, SharedOK
    <3>2. map'[n] = map[n]
      BY <1>2, <2>1, <2>2, <3>1 DEF Tick
    <3>. QED
      BY <2>3, <3>2
  <2>4. ASSUME NEW p \in Pk, payload[p] # NoEntry PROVE payload'[p] # NoEntry
    <3>. DEFINE t == payload[p].by
    <3>1. t \in Task /\ Succeeded(res[t]) /\ payload[p].exp \in Nat /\ at[t] \in Nat
          /\ at[t] + PhysicalTtl(res[t]) <= payload[p].exp
      BY <2>4 DEF CachesTrue, Card, PayloadTimes, TypeInv, TypeOK, SharedOK, PlaceOK, Entry
    <3>2. /\ Ttl(res[t]) \in {CompleteTtl, PartialTtl} /\ 6 * Ttl(res[t]) <= 5 * PhysicalTtl(res[t])
          /\ Ttl(res[t]) \in Nat /\ PhysicalTtl(res[t]) \in Nat
      <4>1. res[t] \in Result
        BY <3>1, ResultType, NoResultFacts
      <4>. QED
        BY <3>1, <4>1, TtlOf, TtlType
    <3>3. now' < Ttl(res[t])
      BY <2>1, <3>2
    <3>4. payload[p].exp > now + 1
      BY <2>1, <3>1, <3>2, <3>3
    <3>5. payload'[p] = payload[p]
      BY <1>2, <3>4 DEF Tick
    <3>. QED
      BY <2>4, <3>5
  <2>5. ASSUME NEW n \in Norm, neg[n] # NoEntry PROVE neg'[n] # NoEntry
    <3>. DEFINE t == neg[n].by
    <3>1. t \in Task /\ res[t] # NoResult /\ ~Succeeded(res[t]) /\ neg[n].exp \in Nat
          /\ Ttl(res[t]) <= neg[n].exp
      BY <2>5 DEF CachesTrue, Failure, Dated, TypeInv, TypeOK, SharedOK, Entry
    <3>2. Ttl(res[t]) \in {Neg4xxTtl, Neg5xxTtl} /\ Ttl(res[t]) \in Nat
      BY <3>1, ResultType, TtlOf
    <3>3. neg[n].exp > now + 1
      BY <2>1, <3>1, <3>2
    <3>4. neg'[n] = neg[n]
      BY <1>2, <3>3 DEF Tick
    <3>. QED
      BY <2>5, <3>4
  <2>. QED
    BY <2>3, <2>4, <2>5
<1>. QED
  BY <1>1, <1>2

\* Who moves a chain.
LEMMA WhoMoves ==
  ASSUME TypeInv, [Next]_vars, NEW t \in Task, pc'[t] # pc[t]
  PROVE  \/ pc'[t] = "dead"
         \/ Step(t)
         \/ \E r \in Request : /\ t = Fg(r) /\ (Arrive(r) \/ Lookup(r))
                               /\ pc[t] \in {"idle", "getPayload", "getNeg"}
         \/ pc[t] = "idle" /\ \A r \in Request : t # Fg(r)
<1>1. ASSUME NEW u \in Task, Step(u) PROVE Step(t)
  <2>1. StepFrame(u)
    BY <1>1, StepHasFrame
  <2>. QED
    BY <1>1, <2>1 DEF StepFrame
<1>2. ASSUME NEW r \in Request, Arrive(r) PROVE t = Fg(r) /\ pc[t] = "idle"
  BY <1>2, ArriveHasFrame DEF ArriveFrame
<1>3. ASSUME NEW r \in Request, Lookup(r)
      PROVE  \/ t = Fg(r) /\ pc[t] \in {"getPayload", "getNeg"}
             \/ pc[t] = "idle" /\ t = Bg(r)
  BY <1>3, LookupHasFrame DEF LookupFrame
<1>4. \A r, s \in Request : Fg(r) # Bg(s)
  BY TaskFacts
<1>5. ASSUME NEW nd \in Node, Crash(nd) PROVE pc'[t] = "dead"
  BY <1>5 DEF Crash
<1>6. CASE Tick \/ UNCHANGED vars
  BY <1>6 DEF Tick, vars
<1>. QED
  BY <1>1, <1>2, <1>3, <1>4, <1>5, <1>6 DEF Next
\* A chain that has stored a failure has done so while Redis answered.
LEMMA FailureStored ==
  ASSUME TypeInv, ResPlaced, [Next]_vars, NEW t \in Task,
         res'[t] # NoResult, ~Succeeded(res'[t]), pc'[t] \in {"unlock", "done"}
  PROVE  /\ res'[t] = res[t]
         /\ SetNeg(t) \/ pc[t] \in {"unlock", "done"}
<1>1. pc[t] \in Label /\ pc[t] # "dead"
  <2>1. pc[t] = "dead" => pc'[t] = "dead"
    BY AfterDeath
  <2>. QED
    BY <2>1 DEF TypeInv, TypeOK, ChainOK
<1>2. CASE pc'[t] = pc[t]
  <2>1. res'[t] = res[t]
    BY <1>2, ResMoves
  <2>. QED
    BY <1>2, <2>1
<1>3. CASE pc'[t] # pc[t]
  <2>1. pc[t] # "crawl"
    <3>1. ASSUME pc[t] = "crawl" PROVE FALSE
      <4>1. Step(t)
        BY <1>3, <3>1, WhoMoves
      <4>2. Crawl(t)
        BY <3>1, <4>1
           DEF Step, GetMap, SetNx, Unlock, SetNeg, WriteAttempt, SetPayload, SetMap,
               SetFinal, SetShort, WriteCrawl
      <4>. QED
        BY <4>2 DEF Crawl, AfterCrawl, Goto, TypeInv, TypeOK, ChainOK
    <3>. QED
      BY <3>1
  <2>2. res'[t] = res[t]
    BY <2>1, ResMoves
  <2>3. pc[t] \notin BeforeResult /\ pc[t] \notin Stored
    BY <2>2 DEF ResPlaced
  <2>4. pc[t] \in {"setNeg", "unlock", "done"}
    BY <1>1, <2>3 DEF Label, Crawling, BeforeResult, Stored
  <2>5. pc[t] = "setNeg" => SetNeg(t)
    <3>1. ASSUME pc[t] = "setNeg" PROVE SetNeg(t)
      <4>1. Step(t)
        BY <1>3, <3>1, WhoMoves
      <4>. QED
        BY <3>1, <4>1
           DEF Step, GetMap, SetNx, Unlock, Crawl, WriteAttempt, SetPayload, SetMap,
               SetFinal, SetShort, WriteCrawl
    <3>. QED
      BY <3>1
  <2>. QED
    BY <2>2, <2>4, <2>5
<1>. QED
  BY <1>2, <1>3

\* A chain that has sent a card: what its step writes, while Redis answers.
LEMMA CardStored ==
  ASSUME TypeInv, ResPlaced, [Next]_vars, faults' = 0, NEW t \in Task,
         Succeeded(res'[t]), pc'[t] \in Mapped \cup {"setMap"}
  PROVE  LET x == res[t] IN
         /\ res'[t] = x /\ url'[t] = url[t] /\ pc[t] \in Rowed
         /\ url[t] \in Norm /\ x.final \in Norm /\ x.pk \in Pk
         /\ pc[t] = "setPayload" => pc'[t] = "setMap" /\ payload'[x.pk] # NoEntry
         /\ pc[t] = "setMap" => pc'[t] \in {"setMap", "setFinal"}
                                  /\ (pc'[t] = "setFinal" => map'[url[t]] # NoMap)
         /\ pc[t] = "setFinal" => pc'[t] = "setFinal" \/ map'[x.final] # NoMap
<1>1. res'[t] = res[t] /\ pc[t] \in Rowed
  <2>1. ~WriteAttempt(t)
    BY DEF WriteAttempt, Goto, TypeInv, TypeOK, ChainOK, Mapped
  <2>. QED
    BY <2>1, RowedMoves DEF Rowed
<1>2. /\ url'[t] = url[t] /\ url[t] \in Norm /\ res[t] \in Result
      /\ res[t].final \in Norm /\ res[t].pk \in Pk
  <2>1. url'[t] = url[t] /\ url[t] \in Norm
    BY <1>1, NextSettles DEF Rowed, Mapped, Settled, TypeInv, Placed
  <2>2. res[t] \in Result
    BY <1>1, ResultType, NoResultFacts
  <2>. QED
    BY <2>1, <2>2 DEF Result
<1>3. /\ now \in Nat /\ MapTtl \in Nat \ {0} /\ None \notin Task
      /\ map \in [Norm -> [pk : Pk, exp : Nat] \cup {NoMap}]
      /\ payload \in [Pk -> Entry \cup {NoEntry}] /\ faults \in Nat
  BY Constants DEF TypeInv, TypeOK, SharedOK, ObservedOK
<1>4. pc[t] \in {"setPayload", "setMap", "setFinal"} /\ pc'[t] # pc[t] => Step(t)
  <2>1. pc'[t] # "dead"
    BY DEF Mapped
  <2>. QED
    BY <2>1, WhoMoves
<1>5. ASSUME pc[t] = "setPayload"
      PROVE  pc'[t] = "setMap" /\ payload'[res[t].pk] # NoEntry
  <2>1. SetPayload(t)
    BY <1>4, <1>5
       DEF Step, GetMap, SetNx, Unlock, Crawl, SetNeg, WriteAttempt, SetMap, SetFinal,
           SetShort, WriteCrawl, Mapped
  <2>2. payload'[res[t].pk] = [by |-> t, exp |-> now + PhysicalTtl(res[t])]
    BY <1>2, <1>3, <2>1, CommandType DEF SetPayload
  <2>3. payload'[res[t].pk] # NoEntry
    <3>1. payload'[res[t].pk].by = t
      BY <2>2
    <3>. QED
      BY <1>3, <3>1 DEF NoEntry
  <2>. QED
    BY <2>1, <2>3 DEF SetPayload, Goto, TypeInv, TypeOK, ChainOK
<1>6. ASSUME pc[t] = "setMap", pc'[t] # "setMap"
      PROVE  pc'[t] = "setFinal" /\ map'[url[t]] # NoMap
  <2>1. SetMap(t)
    BY <1>4, <1>6
       DEF Step, GetMap, SetNx, Unlock, Crawl, SetNeg, WriteAttempt, SetPayload, SetFinal,
           SetShort, WriteCrawl
  <2>2. map'[url[t]] = [pk |-> res[t].pk, exp |-> now + MapTtl]
    BY <1>2, <1>3, <2>1, CommandType DEF SetMap
  <2>3. map'[url[t]] # NoMap
    <3>1. map'[url[t]].exp = now + MapTtl
      BY <2>2
    <3>. QED
      BY <1>3, <3>1 DEF NoMap
  <2>. QED
    BY <2>1, <2>3 DEF SetMap, Goto, TypeInv, TypeOK, ChainOK
<1>7. ASSUME pc[t] = "setFinal", pc'[t] # "setFinal" PROVE map'[res[t].final] # NoMap
  <2>1. SetFinal(t)
    BY <1>4, <1>7
       DEF Step, GetMap, SetNx, Unlock, Crawl, SetNeg, WriteAttempt, SetPayload, SetMap,
           SetShort, WriteCrawl
  <2>2. map'[res[t].final] = [pk |-> res[t].pk, exp |-> now + MapTtl]
    BY <1>2, <1>3, <2>1, CommandType DEF SetFinal
  <2>3. map'[res[t].final].exp = now + MapTtl
    BY <2>2
  <2>. QED
    BY <1>3, <2>3 DEF NoMap
<1>. QED
  BY <1>1, <1>2, <1>5, <1>6, <1>7

LEMMA NothingLostStep ==
  ASSUME CacheInv, Dated, NothingLost, [Next]_vars PROVE NothingLost'
<1>1. SUFFICES ASSUME faults' = 0, NothingExpired' PROVE NothingLost'
  BY DEF NothingLost
<1>2. /\ TypeInv /\ ResPlaced /\ CachesTrue /\ PayloadTimes
  BY DEF CacheInv, AnswerInv
<1>3. faults = 0 /\ NothingExpired
  <2>1. faults = 0
    BY <1>1, <1>2, FaultsGrow
  <2>2. now \in Nat /\ now <= now'
    BY <1>2, Clock DEF TypeInv, TypeOK, SharedOK
  <2>3. {CompleteTtl, PartialTtl, MapTtl, Neg4xxTtl, Neg5xxTtl} \subseteq Nat /\ now' \in Nat
    BY <1>2, Constants, TypeStep DEF TypeInv, TypeOK, SharedOK
  <2>. QED
    BY <1>1, <2>1, <2>2, <2>3 DEF NothingExpired
<1>4. /\ \A n \in Norm : map[n] # NoMap => map'[n] # NoMap
      /\ \A p \in Pk : payload[p] # NoEntry => payload'[p] # NoEntry
      /\ \A n \in Norm : neg[n] # NoEntry => neg'[n] # NoEntry
  BY <1>1, <1>2, NothingDropped
<1>5. ASSUME NEW t \in Task, Succeeded(res'[t])
      PROVE  /\ pc'[t] \in Mapped \cup {"setMap"} => payload'[res'[t].pk] # NoEntry
             /\ pc'[t] \in Mapped => map'[url'[t]] # NoMap
             /\ pc'[t] \in Mapped \ {"setFinal"} => map'[res'[t].final] # NoMap
  <2>1. SUFFICES ASSUME pc'[t] \in Mapped \cup {"setMap"}
                 PROVE  /\ payload'[res'[t].pk] # NoEntry
                        /\ pc'[t] \in Mapped => map'[url'[t]] # NoMap
                        /\ pc'[t] \in Mapped \ {"setFinal"} => map'[res'[t].final] # NoMap
    OBVIOUS
  <2>. DEFINE x == res[t]
  <2>2. /\ res'[t] = x /\ url'[t] = url[t] /\ pc[t] \in Rowed
        /\ url[t] \in Norm /\ x.final \in Norm /\ x.pk \in Pk
        /\ pc[t] = "setPayload" => pc'[t] = "setMap" /\ payload'[x.pk] # NoEntry
        /\ pc[t] = "setMap" => pc'[t] \in {"setMap", "setFinal"}
                                 /\ (pc'[t] = "setFinal" => map'[url[t]] # NoMap)
        /\ pc[t] = "setFinal" => pc'[t] = "setFinal" \/ map'[x.final] # NoMap
    BY <1>1, <1>2, <1>5, <2>1, CardStored
  <2>3. /\ pc[t] \in Mapped \cup {"setMap"} => payload[x.pk] # NoEntry
        /\ pc[t] \in Mapped => map[url[t]] # NoMap
        /\ pc[t] \in Mapped \ {"setFinal"} => map[x.final] # NoMap
    BY <1>3, <1>5, <2>2 DEF NothingLost
  <2>. QED
    BY <1>4, <2>1, <2>2, <2>3 DEF Rowed, Mapped
<1>6. ASSUME NEW t \in Task, res'[t] # NoResult, ~Succeeded(res'[t]),
             pc'[t] \in {"unlock", "done"}
      PROVE  neg'[url'[t]] # NoEntry
  <2>1. res'[t] = res[t] /\ (SetNeg(t) \/ pc[t] \in {"unlock", "done"})
    BY <1>2, <1>6, FailureStored
  <2>2. pc[t] # "idle" /\ url'[t] = url[t] /\ url[t] \in Norm
    BY <1>2, <2>1, NextSettles DEF SetNeg, Settled, TypeInv, Placed
  <2>3. CASE SetNeg(t)
    <3>1. neg'[url[t]] = [by |-> t, exp |-> now + Ttl(res[t])]
      BY <1>1, <1>2, <2>2, <2>3, CommandType
         DEF SetNeg, NegKey, TypeInv, TypeOK, SharedOK, ObservedOK
    <3>2. neg'[url[t]].by = t
      BY <3>1
    <3>. QED
      BY <2>2, <3>2, Constants DEF NoEntry
  <2>4. CASE pc[t] \in {"unlock", "done"}
    BY <1>3, <1>4, <1>6, <2>1, <2>2, <2>4 DEF NothingLost
  <2>. QED
    BY <2>1, <2>3, <2>4
<1>7. ASSUME NEW n \in Norm, map'[n] # NoMap PROVE payload'[map'[n].pk] # NoEntry
  <2>1. CASE map'[n] = map[n]
    <3>1. map[n].pk \in Pk
      BY <1>2, <1>7, <2>1 DEF TypeInv, TypeOK, SharedOK
    <3>. QED
      BY <1>3, <1>4, <1>7, <2>1, <3>1 DEF NothingLost
  <2>2. ASSUME NEW t \in Task, pc[t] \in {"setMap", "setFinal"},
               map'[n] = [pk |-> res[t].pk, exp |-> now + MapTtl]
        PROVE  payload'[map'[n].pk] # NoEntry
    <3>1. Succeeded(res[t]) /\ res[t].pk \in Pk
      BY <1>2, <2>2 DEF ResPlaced, Stored, TypeInv, Placed, Result
    <3>2. payload[res[t].pk] # NoEntry
      BY <1>3, <2>2, <3>1 DEF NothingLost, Mapped
    <3>. QED
      BY <1>4, <2>2, <3>1, <3>2
  <2>. QED
    BY <1>2, <1>7, <2>1, <2>2, NextMovesCaches DEF CachesMove
<1>. QED
  BY <1>5, <1>6, <1>7 DEF NothingLost
\* The crawls that r may find: they had ended when it came, and nothing changes them.
LEMMA FoundStays ==
  ASSUME CacheInv, [Next]_vars, NEW r \in Request, pc[Fg(r)] # "idle", Found(r)'
  PROVE  Found(r) /\ url'[Fg(r)] = url[Fg(r)]
<1>1. TypeInv /\ HistoryOK /\ Settled /\ Fg(r) \in Task
  BY NextSettles, TaskFacts DEF CacheInv, AnswerInv
<1>2. url'[Fg(r)] = url[Fg(r)]
  BY <1>1 DEF Settled
<1>3. past'[r] = past[r]
  <2>1. ~Arrive(r)
    BY DEF Arrive
  <2>. QED
    BY <1>1, <2>1, PastMoves
<1>4. PICK t \in past[r] :
        /\ res'[t] # NoResult
        /\ url'[Fg(r)] = url'[t] \/ (Succeeded(res'[t]) /\ url'[Fg(r)] = res'[t].final)
  BY <1>3 DEF Found
<1>5. t \in Task /\ pc[t] = "done"
  BY <1>1, <1>4 DEF HistoryOK, TypeInv, TypeOK, ObservedOK
<1>6. res'[t] = res[t] /\ url'[t] = url[t]
  BY <1>1, <1>5, ResMoves DEF Settled
<1>. QED
  BY <1>2, <1>4, <1>6 DEF Found

\* What Redis holds for a request that may find a crawl.
LEMMA FoundIsThere ==
  ASSUME CacheInv, NothingLost, faults = 0, NothingExpired, NEW r \in Request, Found(r),
         pc[Fg(r)] # "idle"
  PROVE  LET n == url[Fg(r)] IN
         /\ n \in Norm
         /\ map[n] # NoMap \/ neg[n] # NoEntry
         /\ map[n] # NoMap => payload[map[n].pk] # NoEntry
<1>1. TypeInv /\ HistoryOK /\ Fg(r) \in Task
  BY TaskFacts DEF CacheInv, AnswerInv
<1>2. PICK t \in past[r] :
        /\ res[t] # NoResult
        /\ url[Fg(r)] = url[t] \/ (Succeeded(res[t]) /\ url[Fg(r)] = res[t].final)
  BY DEF Found
<1>3. t \in Task /\ pc[t] = "done"
  BY <1>1, <1>2 DEF HistoryOK, TypeInv, TypeOK, ObservedOK
<1>4. url[Fg(r)] \in Norm
  BY <1>1 DEF TypeInv, Placed
<1>5. CASE Succeeded(res[t])
  BY <1>2, <1>3, <1>4, <1>5 DEF NothingLost, Mapped
<1>6. CASE ~Succeeded(res[t])
  BY <1>2, <1>3, <1>4, <1>6 DEF NothingLost
<1>. QED
  BY <1>5, <1>6

\* A payload is fresh before the first TTL is over.
LEMMA PayloadIsFresh ==
  ASSUME CacheInv, NothingExpired, NEW p \in Pk, payload[p] # NoEntry
  PROVE  Fresh(payload[p].by)
<1>. DEFINE t == payload[p].by
<1>1. TypeInv /\ CachesTrue
  BY DEF CacheInv, AnswerInv
<1>2. t \in Task /\ Succeeded(res[t]) /\ at[t] \in Nat /\ now \in Nat
  BY <1>1 DEF CachesTrue, Card, TypeInv, TypeOK, SharedOK, PlaceOK
<1>3. Ttl(res[t]) \in {CompleteTtl, PartialTtl} /\ Ttl(res[t]) \in Nat
  BY <1>1, <1>2, ResultType, NoResultFacts, TtlOf
<1>4. now < Ttl(res[t])
  BY <1>3 DEF NothingExpired
<1>. QED
  BY <1>2, <1>3, <1>4 DEF Fresh

\* A lookup or a poll that reads a fresh payload ends with it.
LEMMA PayloadAnswers ==
  ASSUME CacheInv, faults' = 0, NothingExpired, NEW r \in Request,
         pc[Fg(r)] = "getPayload", payload[pk[Fg(r)]] # NoEntry,
         LookupPayload(r) \/ PollPayload(r)
  PROVE  pc'[Fg(r)] = "done"
<1>. DEFINE t == Fg(r)
            e == payload[pk[t]]
<1>1. /\ TypeInv /\ t \in Task /\ Bg(r) \in Task /\ t # Bg(r) /\ pk[t] \in Pk
      /\ pc \in [Task -> Label] /\ faults \in Nat
  BY TaskFacts DEF CacheInv, AnswerInv, TypeInv, Placed, TypeOK, ChainOK, ObservedOK
<1>2. Fresh(e.by)
  BY <1>1, PayloadIsFresh
<1>3. CASE PollPayload(r)
  <2>1. PICK ok \in BOOLEAN : Command(ok, ok) /\ (ok => Return(t, "hit", e.by))
    BY <1>3 DEF PollPayload
  <2>. QED
    BY <1>1, <2>1, CommandType DEF Return
<1>4. CASE LookupPayload(r)
  <2>1. PICK ok \in BOOLEAN :
          /\ Command(ok, ok)
          /\ \/ Return(t, "hit", e.by)
             \/ pc' = [pc EXCEPT ![t] = "done", ![Bg(r)] = "setNx"]
             \/ ~(ok /\ e # NoEntry /\ (Fresh(e.by) \/ Stale(e.by)))
    BY <1>4 DEF LookupPayload
  <2>2. ok
    BY <1>1, <2>1, CommandType
  <2>. QED
    BY <1>1, <1>2, <2>1, <2>2 DEF Return
<1>. QED
  BY <1>3, <1>4

LEMMA NegAnswers ==
  ASSUME CacheInv, faults' = 0, NEW r \in Request, neg[url[Fg(r)]] # NoEntry, GetNeg(r)
  PROVE  pc'[Fg(r)] = "done"
<1>. DEFINE t == Fg(r)
            e == neg[url[t]]
<1>1. /\ t \in Task /\ pc \in [Task -> Label] /\ faults \in Nat
  BY TaskFacts DEF CacheInv, AnswerInv, TypeInv, TypeOK, ChainOK, ObservedOK
<1>2. PICK ok \in BOOLEAN :
        /\ Command(ok, ok)
        /\ Return(t, "negative", e.by) \/ (ok => e = NoEntry)
  BY DEF GetNeg
<1>. QED
  BY <1>1, <1>2, CommandType DEF Return

\* GET og:map, when Redis answers.
LEMMA MapAnswers ==
  ASSUME CacheInv, faults' = 0, NEW t \in Task, GetMap(t)
  PROVE  IF map[url[t]] # NoMap THEN pc'[t] = "getPayload" /\ pk'[t] = map[url[t]].pk
                                ELSE pc'[t] = "getNeg"
<1>1. /\ pc \in [Task -> Label] /\ faults \in Nat /\ pk \in [Task -> Pk \cup {None}]
  BY DEF CacheInv, AnswerInv, TypeInv, TypeOK, ChainOK, ObservedOK
<1>2. PICK ok \in BOOLEAN :
        /\ Command(ok, ok)
        /\ IF ok /\ map[url[t]] # NoMap
             THEN pk' = [pk EXCEPT ![t] = MapValue(url[t])] /\ Goto(t, "getPayload")
             ELSE Goto(t, "getNeg") /\ UNCHANGED pk
  BY DEF GetMap
<1>. QED
  BY <1>1, <1>2, CommandType DEF Goto, MapValue

\* How a request that may find a crawl begins: with a hit, or at og:map.
LEMMA ArriveReads ==
  ASSUME TypeInv, NEW r \in Request, Arrive(r), ~refresh'[r], url'[Fg(r)] \notin Invalid
  PROVE  pc'[Fg(r)] \in {"getMap", "done"}
<1>1. Fg(r) \in Task /\ pc \in [Task -> Label] /\ url \in [Task -> Norm \cup {None}]
      /\ refresh \in [Request -> BOOLEAN]
  BY TaskFacts DEF TypeInv, TypeOK, ChainOK, PlaceOK, ObservedOK
<1>2. PICK n \in Norm, nd \in Node, rf \in BOOLEAN :
        /\ url' = [url EXCEPT ![Fg(r)] = n]
        /\ refresh' = [refresh EXCEPT ![r] = rf]
        /\ \/ n \in Invalid
           \/ Return(Fg(r), "hit", l1[nd][n].by)
           \/ Goto(Fg(r), FirstRead(rf))
  BY DEF Arrive
<1>3. n \notin Invalid /\ ~rf
  BY <1>1, <1>2
<1>. QED
  BY <1>1, <1>2, <1>3 DEF Return, Goto, FirstRead

\* refresh is of the request that comes.
LEMMA RefreshStays ==
  ASSUME TypeInv, [Next]_vars, NEW r \in Request, pc[Fg(r)] # "idle"
  PROVE  refresh'[r] = refresh[r]
<1>1. ASSUME NEW s \in Request, Arrive(s) PROVE refresh'[r] = refresh[r]
  BY <1>1 DEF Arrive, TypeInv, TypeOK, ObservedOK
<1>2. ASSUME NEW s \in Request, Lookup(s) PROVE refresh'[r] = refresh[r]
  BY <1>2, LookupHasFrame DEF LookupFrame
<1>3. ASSUME NEW t \in Task, Step(t) PROVE refresh'[r] = refresh[r]
  BY <1>3, StepHasFrame DEF StepFrame
<1>4. CASE Tick \/ UNCHANGED vars \/ \E nd \in Node : Crash(nd)
  BY <1>4 DEF Tick, Crash, vars, ghost
<1>. QED
  BY <1>1, <1>2, <1>3, <1>4 DEF Next

\* A request that has crawled nothing is not answered as if it had.
LEMMA NoMiss ==
  ASSUME NEW r \in Request, AnswerMove(r), answer[r].kind # "miss",
         res[Fg(r)] = NoResult \/ pc'[Fg(r)] # "done" \/ pc[Fg(r)] = "done"
  PROVE  answer'[r].kind # "miss"
<1>1. CASE answer'[r] = answer[r]
  BY <1>1
<1>2. ASSUME NEW kind \in {"hit", "stale"}, NEW u \in Task,
             answer'[r] = [kind |-> kind, by |-> u]
      PROVE  answer'[r].kind # "miss"
  BY <1>2
<1>3. CASE answer'[r] = [kind |-> "negative", by |-> neg[url[Fg(r)]].by]
  BY <1>3
<1>4. ~(/\ pc[Fg(r)] # "done" /\ pc'[Fg(r)] = "done"
        /\ answer'[r] = [kind |-> "miss", by |-> Fg(r)] /\ res[Fg(r)] # NoResult)
  OBVIOUS
<1>. QED
  BY <1>1, <1>2, <1>3, <1>4 DEF AnswerMove

LEMMA ReadsOnStep ==
  ASSUME CacheInv, Dated, NothingLost, ReadsOn, [Next]_vars PROVE ReadsOn'
<1>1. SUFFICES ASSUME faults' = 0, NothingExpired', NEW r \in Request, pc'[Fg(r)] # "idle",
                      ~refresh'[r], url'[Fg(r)] \notin Invalid, Found(r)'
               PROVE  /\ pc'[Fg(r)] \in {"getMap", "getPayload", "getNeg", "done", "dead"}
                      /\ pc'[Fg(r)] = "getPayload" => payload'[pk'[Fg(r)]] # NoEntry
                      /\ pc'[Fg(r)] = "getNeg" => neg'[url'[Fg(r)]] # NoEntry
                      /\ answer'[r].kind # "miss"
  BY DEF ReadsOn
<1>. DEFINE t == Fg(r)
<1>2. /\ TypeInv /\ ResPlaced /\ CachesTrue /\ PayloadTimes /\ AnswersTrue /\ t \in Task
  BY TaskFacts DEF CacheInv, AnswerInv
<1>3. faults = 0 /\ NothingExpired
  <2>1. faults = 0
    BY <1>1, <1>2, FaultsGrow
  <2>2. now \in Nat /\ now <= now'
    BY <1>2, Clock DEF TypeInv, TypeOK, SharedOK
  <2>3. {CompleteTtl, PartialTtl, MapTtl, Neg4xxTtl, Neg5xxTtl} \subseteq Nat /\ now' \in Nat
    BY <1>2, Constants, TypeStep DEF TypeInv, TypeOK, SharedOK
  <2>. QED
    BY <1>1, <2>1, <2>2, <2>3 DEF NothingExpired
<1>4. /\ \A p \in Pk : payload[p] # NoEntry => payload'[p] # NoEntry
      /\ \A n \in Norm : neg[n] # NoEntry => neg'[n] # NoEntry
  BY <1>1, <1>2, NothingDropped
<1>5. AnswerMove(r)
  BY <1>2, NextAnswers
<1>6. CASE pc[t] = "idle"
  <2>1. Arrive(r)
    <3>1. ~Step(t)
      BY <1>2, <1>6, StepHasFrame DEF StepFrame, Ended
    <3>2. pc'[t] # "dead"
      <4>1. ASSUME NEW nd \in Node, Crash(nd) PROVE pc'[t] # "dead"
        BY <1>2, <1>6, <4>1 DEF Crash
      <4>2. ASSUME NEW u \in Task, Step(u) PROVE pc'[t] # "dead"
        <5>1. StepFrame(u)
          BY <1>2, <4>2, StepHasFrame
        <5>. QED
          BY <1>2, <1>6, <5>1 DEF StepFrame, Ended
      <4>3. ASSUME NEW s \in Request, Arrive(s) \/ Lookup(s) PROVE pc'[t] # "dead"
        BY <1>2, <1>6, <4>3, ArriveHasFrame, LookupHasFrame DEF ArriveFrame, LookupFrame
      <4>4. CASE Tick \/ UNCHANGED vars
        BY <1>6, <4>4 DEF Tick, vars
      <4>. QED
        BY <4>1, <4>2, <4>3, <4>4 DEF Next
    <3>3. PICK s \in Request : t = Fg(s) /\ (Arrive(s) \/ Lookup(s))
      BY <1>1, <1>2, <1>6, <3>1, <3>2, WhoMoves
    <3>4. s = r
      BY <3>3, TaskFacts
    <3>. QED
      BY <1>2, <1>6, <3>3, <3>4, LookupHasFrame DEF LookupFrame
  <2>2. pc'[t] \in {"getMap", "done"}
    BY <1>1, <1>2, <2>1, ArriveReads
  <2>3. answer'[r].kind # "miss"
    <3>1. answer[r].kind # "miss" /\ res[t] = NoResult
      BY <1>2, <1>6 DEF AnswersTrue, ResPlaced, BeforeResult, NoAnswer
    <3>. QED
      BY <1>5, <3>1, NoMiss
  <2>. QED
    BY <2>2, <2>3
<1>7. CASE pc[t] # "idle"
  <2>1. Found(r) /\ url'[t] = url[t] /\ refresh'[r] = refresh[r]
    BY <1>1, <1>2, <1>7, FoundStays, RefreshStays
  <2>2. /\ pc[t] \in {"getMap", "getPayload", "getNeg", "done", "dead"}
        /\ pc[t] = "getPayload" => payload[pk[t]] # NoEntry
        /\ pc[t] = "getNeg" => neg[url[t]] # NoEntry
        /\ answer[r].kind # "miss"
    BY <1>1, <1>3, <1>7, <2>1 DEF ReadsOn
  <2>3. answer'[r].kind # "miss"
    <3>1. pc[t] # "done" => res[t] = NoResult \/ pc[t] = "dead"
      BY <1>2, <2>2 DEF ResPlaced, BeforeResult
    <3>2. pc[t] = "dead" => pc'[t] = "dead"
      BY <1>2, AfterDeath
    <3>. QED
      BY <1>5, <2>2, <3>1, <3>2, NoMiss
  <2>4. url[t] \in Norm /\ (pc[t] = "getPayload" => pk[t] \in Pk)
    BY <1>2, <1>7 DEF TypeInv, Placed
  <2>5. CASE pc'[t] = pc[t]
    <3>1. pc[t] = "getPayload" => pk'[t] = pk[t]
      <4>1. ASSUME pc[t] = "getPayload" PROVE pk'[t] = pk[t]
        <5>1. ~GetMap(t)
          BY <4>1 DEF GetMap
        <5>. QED
          BY <1>2, <2>5, <4>1, <5>1, ReadMoves
      <4>. QED
        BY <4>1
    <3>. QED
      BY <1>4, <2>1, <2>2, <2>3, <2>4, <2>5, <3>1
  <2>6. CASE pc'[t] # pc[t] /\ pc[t] = "getMap" /\ pc'[t] # "dead"
    <3>1. GetMap(t)
      <4>1. Step(t)
        BY <1>2, <2>6, WhoMoves
      <4>. QED
        BY <2>6, <4>1
           DEF Step, SetNx, Unlock, Crawl, SetNeg, WriteAttempt, SetPayload, SetMap,
               SetFinal, SetShort, WriteCrawl
    <3>2. IF map[url[t]] # NoMap THEN pc'[t] = "getPayload" /\ pk'[t] = map[url[t]].pk
                                 ELSE pc'[t] = "getNeg"
      BY <1>1, <1>2, <3>1, MapAnswers
    <3>3. /\ map[url[t]] # NoMap \/ neg[url[t]] # NoEntry
          /\ map[url[t]] # NoMap => payload[map[url[t]].pk] # NoEntry
      BY <1>3, <1>7, <2>1, FoundIsThere
    <3>4. map[url[t]] # NoMap => map[url[t]].pk \in Pk
      BY <1>2, <2>4 DEF TypeInv, TypeOK, SharedOK
    <3>. QED
      BY <1>4, <2>1, <2>3, <2>4, <3>2, <3>3, <3>4
  <2>7. CASE pc'[t] # pc[t] /\ pc[t] \in {"getPayload", "getNeg"} /\ pc'[t] # "dead"
    <3>1. Lookup(r)
      <4>1. ~Step(t)
        BY <2>7
           DEF Step, GetMap, SetNx, Unlock, Crawl, SetNeg, WriteAttempt, SetPayload, SetMap,
               SetFinal, SetShort, WriteCrawl
      <4>2. PICK s \in Request : t = Fg(s) /\ (Arrive(s) \/ Lookup(s))
        BY <1>2, <2>7, <4>1, WhoMoves
      <4>3. s = r
        BY <4>2, TaskFacts
      <4>. QED
        BY <2>7, <4>2, <4>3 DEF Arrive
    <3>2. pc'[t] = "done"
      <4>1. CASE LookupPayload(r) \/ PollPayload(r)
        <5>1. pc[t] = "getPayload"
          BY <4>1 DEF LookupPayload, PollPayload
        <5>. QED
          BY <1>1, <1>3, <2>2, <4>1, <5>1, PayloadAnswers
      <4>2. CASE GetNeg(r)
        <5>1. pc[t] = "getNeg"
          BY <4>2 DEF GetNeg
        <5>. QED
          BY <1>1, <2>2, <4>2, <5>1, NegAnswers
      <4>. QED
        BY <3>1, <4>1, <4>2 DEF Lookup
    <3>. QED
      BY <2>3, <3>2
  <2>8. CASE pc[t] \in {"done", "dead"} \/ pc'[t] = "dead"
    <3>1. pc'[t] \in {"done", "dead"}
      BY <1>2, <2>8, AfterDeath, NextSettles DEF Settled
    <3>. QED
      BY <2>3, <3>1
  <2>. QED
    BY <2>2, <2>5, <2>6, <2>7, <2>8
<1>. QED
  BY <1>6, <1>7

\* While Redis answers and nothing had time to expire, a request that comes after the
\* crawl of its page has ended, here or on another process, is served from its result
\* and does not crawl: a card under either of its URLs, a failure under its own.
THEOREM AskAgainIsServed == ServerSpec => []AskAgainServed
<1>. DEFINE AskInv == CacheInv /\ Dated /\ NothingLost /\ ReadsOn
<1>1. Init => AskInv
  <2>1. Init => CacheInv
    BY CacheInvInit
  <2>2. Init => Dated /\ NothingLost
    BY NoResultFacts DEF Init, Dated, NothingLost, Mapped
  <2>3. Init => ReadsOn
    BY TaskFacts DEF Init, ReadsOn
  <2>. QED
    BY <2>1, <2>2, <2>3
<1>2. AskInv /\ [Next]_vars => AskInv'
  BY CacheInvStep, DatedStep, NothingLostStep, ReadsOnStep DEF CacheInv, AnswerInv
<1>3. AskInv => AskAgainServed
  <2>1. SUFFICES ASSUME AskInv, NEW r \in Request, answer[r].kind = "miss", ~refresh[r],
                        url[Fg(r)] \notin Invalid, faults = 0, NothingExpired, Found(r)
                 PROVE  FALSE
    BY DEF AskAgainServed, Found
  <2>2. pc[Fg(r)] # "idle"
    BY <2>1 DEF CacheInv, AnswerInv, AnswersTrue, NoAnswer
  <2>. QED
    BY <2>1, <2>2 DEF ReadsOn
<1>4. ServerInit => Init
  BY DEF ServerInit
<1>5. [ServerNext]_serverVars => [Next]_vars
  BY StepOfCache
<1>. QED
  BY <1>1, <1>2, <1>3, <1>4, <1>5, PTL DEF ServerSpec

=============================================================================
