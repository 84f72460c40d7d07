---------------------------- MODULE UnfurlServer ----------------------------
(***************************************************************************)
(* GET /unfurl (service/src/api): the handler races getUnfurl against a    *)
(* synchronous budget.  Composed with the cache layer: every step of it is *)
(* a step here, and the one that settles getUnfurl also sends the reply,   *)
(* since only microtasks lie between.  After a 202 the call goes on.       *)
(***************************************************************************)
EXTENDS UnfurlCache

CONSTANT
  HttpStatus    \* HttpStatus[k]: http_status of a failed crawl of kind k, 0 for null

ASSUME ServerAssumption == HttpStatus \in [Kind -> SUBSET (0..599)]

VARIABLE reply  \* what the client of a request was sent

serverVars == <<vars, reply>>

NoReply == [status |-> 0, public |-> FALSE]
Accepted == [status |-> 202, public |-> FALSE]

ServerInit == Init /\ reply = [r \in Request |-> NoReply]

\* The status of an answer: 200 for a card, the status of the failed crawl if it is
\* one of an error, else 502.  negToResult has no status, whatever the crawl had.
StatusOf(kind, x, s) ==
  IF Succeeded(x) THEN 200
  ELSE IF kind # "negative" /\ s >= 400 THEN s
  ELSE 502

\* cacheControlFor: what a shared HTTP cache may keep.
CacheableUnlessNegative(kind, x) == kind # "negative"
Cacheable(kind, x) == Succeeded(x) /\ kind # "negative"

ReplyOf(ans, s) ==
  [status |-> StatusOf(ans.kind, res[ans.by], s),
   public |-> Cacheable(ans.kind, res[ans.by])]

\* The race is still open.
Waiting(r) == reply[r] = NoReply /\ answer[r] = NoAnswer

\* A step of the cache layer.  If it settles a call that is still awaited, the
\* handler replies.
CacheStep ==
  /\ Next
  /\ LET settled == {r \in Request : Waiting(r) /\ answer'[r] # NoAnswer} IN
     \/ settled = {} /\ UNCHANGED reply
     \/ \E r \in settled : \E s \in HttpStatus[res'[answer'[r].by].kind] :
          reply' = [reply EXCEPT ![r] = ReplyOf(answer'[r], s)]

\* The budget ends first: 202, and nothing else changes.
BudgetEnds(r) ==
  /\ Waiting(r)
  /\ pc[Fg(r)] \notin {"idle", "done", "dead"}
  /\ reply' = [reply EXCEPT ![r] = Accepted]
  /\ UNCHANGED vars

ServerNext == CacheStep \/ \E r \in Request : BudgetEnds(r)

Fairness ==
  /\ \A r \in Request : WF_vars(Lookup(r))
  /\ \A t \in Task : WF_vars(Step(t))
ServerSpec == ServerInit /\ [][ServerNext]_serverVars /\ Fairness

----------------------------------------------------------------------------
(* Properties *)

\* A reply agrees with what was found for it: a card is 200 and a failure an error of
\* HTTP, only a card may be kept by shared caches (envelope.ts 74), and only one whose
\* crawl has its row while Postgres answers.  A 202 stands although the answer came
\* later (server.ts 73), and nobody but the dead is left without a reply.
ReplyIsTrue ==
  \A r \in Request :
    LET x == res[answer[r].by] IN
    /\ answer[r] # NoAnswer => reply[r] # NoReply
    /\ reply[r].status \notin {0, 202} =>
         /\ answer[r] # NoAnswer
         /\ IF Succeeded(x) THEN reply[r].status = 200 ELSE reply[r].status >= 400
    /\ reply[r].public =>
         /\ Succeeded(x)
         /\ faults = 0 => attempts[answer[r].by] = 1

\* The crawl that lost the race still fills the cache (server.ts 77): after a 202 the
\* page is in the cache or its failure is, unless the process died or a command failed.
Landed(n) ==
  \/ map[n] # NoMap /\ payload[map[n].pk] # NoEntry
  \/ neg[n] # NoEntry
PromotedCrawlLands ==
  \A r \in Request :
    reply[r] = Accepted ~>
      \/ pc[Fg(r)] = "dead" \/ faults > 0
      \/ url[Fg(r)] \in {n \in Norm \ Invalid : Landed(n)} \cup Invalid

\* Whoever asks again after the crawl has ended is served from its result, and does not
\* crawl: at the same URL, or at the one a card was redirected to, on any process, as
\* long as Redis answers and nothing had time to expire.
NothingExpired == now < CompleteTtl /\ now < PartialTtl /\ now < MapTtl
                  /\ now < Neg4xxTtl /\ now < Neg5xxTtl
AskAgainServed ==
  \A r \in Request :
    LET n == url[Fg(r)] IN
    answer[r].kind = "miss" /\ ~refresh[r] /\ n \notin Invalid
      /\ faults = 0 /\ NothingExpired
      => ~ \E t \in past[r] : /\ res[t] # NoResult
                              /\ n = url[t] \/ (Succeeded(res[t]) /\ n = res[t].final)

============================================================================
