---------------------------- MODULE HeadlessPool ----------------------------
(***************************************************************************)
(* The headless renderer (service/src/strategy/headless.ts): concurrent    *)
(* calls of render over one FIFO semaphore and one browser that is started *)
(* at the first use.  An action is what runs between two awaits; what      *)
(* Playwright does is external: a call of it succeeds, fails or times out. *)
(***************************************************************************)
EXTENDS Integers, Sequences, FiniteSets

CONSTANTS
  Render,     \* concurrent calls of render; one that has returned may be made again
  Max,        \* MAX_HEADLESS_CONCURRENCY
  MaxCloses   \* bound: calls of close()

ASSUME PoolAssumption ==
  /\ IsFiniteSet(Render)
  /\ Max \in Nat \ {0} /\ MaxCloses \in Nat

VARIABLES
  available,        \* whether Playwright is installed
  permits, queue,   \* the semaphore
  browser,          \* this.browser: 0 for null, or the number of the process
  launching,        \* this.launching: null, a pending promise or a rejected one
  alive,            \* the browser processes that run
  launched,         \* how many were started
  pc, on,           \* per call: where it is, the browser it got
  fate,             \* per call: what it will return or throw, once that is decided
  closes, closing,  \* calls of close() begun, and those that wait for the browser to end
  \* Observation only: whether something failed since the call asked for a permit, and
  \* how many calls of close() began to wait while another one did.
  hurt, overlaps

sem == <<permits, queue>>
process == <<browser, launching, alive, launched>>
vars == <<available, sem, process, pc, on, fate, closes, closing, hurt, overlaps>>

\* From the return of acquire() to release().
Holding == {"granted", "launching", "context", "page", "cleanup"}
Label == {"idle", "check", "queued"} \cup Holding

Inside == {r \in Render : pc[r] \in Holding}
Waiting == {queue[i] : i \in 1..Len(queue)}

TypeOK ==
  /\ available \in BOOLEAN
  /\ permits \in Nat
  /\ queue \in Seq(Render)
  /\ browser \in Nat
  /\ launching \in {"null", "pending", "rejected"}
  /\ alive \in SUBSET Nat
  /\ launched \in Nat
  /\ pc \in [Render -> Label]
  /\ on \in [Render -> Nat]
  /\ fate \in [Render -> {"none", "ok", "JS_TIMEOUT", "RENDER_CRASH"}]
  /\ closes \in Nat
  /\ closing \in Nat
  /\ hurt \in [Render -> BOOLEAN]
  /\ overlaps \in Nat

Init ==
  /\ available \in BOOLEAN
  /\ permits = Max
  /\ queue = <<>>
  /\ browser = 0
  /\ launching = "null"
  /\ alive = {}
  /\ launched = 0
  /\ pc = [r \in Render |-> "idle"]
  /\ on = [r \in Render |-> 0]
  /\ fate = [r \in Render |-> "none"]
  /\ closes = 0
  /\ closing = 0
  /\ hurt = [r \in Render |-> FALSE]
  /\ overlaps = 0

Goto(r, l) == pc' = [pc EXCEPT ![r] = l]
End(r, f) == fate' = [fate EXCEPT ![r] = f]
Hurt(S) == hurt' = [r \in Render |-> hurt[r] \/ (r \in S /\ pc[r] \notin {"idle", "check"})]

----------------------------------------------------------------------------
(* render *)

Call(r) ==
  /\ pc[r] = "idle"
  /\ Goto(r, "check")
  /\ UNCHANGED <<available, sem, process, on, fate, closes, closing, hurt, overlaps>>

FreePermitBeyondOne == permits > 1
FreePermit == permits > 0

\* isAvailable() has answered.  Without Playwright render throws RENDER_CRASH; else
\* acquire() takes a free permit at once or joins the queue.
Acquire(r) ==
  /\ pc[r] = "check"
  /\ \/ ~available /\ Goto(r, "idle") /\ UNCHANGED sem
     \/ /\ available /\ FreePermit
        /\ permits' = permits - 1
        /\ Goto(r, "granted") /\ UNCHANGED queue
     \/ /\ available /\ ~FreePermit
        /\ queue' = Append(queue, r)
        /\ Goto(r, "queued") /\ UNCHANGED permits
  /\ UNCHANGED <<available, process, on, fate, closes, closing, hurt, overlaps>>

BrowserThereNever == FALSE
BrowserThere == browser # 0

\* ensureBrowser(): the browser there is, the launch under way (a rejected one throws
\* what it threw before), or a launch of its own.
EnsureBrowser(r) ==
  /\ pc[r] = "granted"
  /\ \/ /\ BrowserThere
        /\ on' = [on EXCEPT ![r] = browser]
        /\ Goto(r, "context") /\ UNCHANGED <<launching, launched, fate>>
     \/ /\ ~BrowserThere /\ launching = "null"
        /\ launching' = "pending"
        /\ launched' = launched + 1
        /\ Goto(r, "launching") /\ UNCHANGED <<on, fate>>
     \/ /\ ~BrowserThere /\ launching = "pending"
        /\ Goto(r, "launching") /\ UNCHANGED <<launching, launched, on, fate>>
     \/ /\ ~BrowserThere /\ launching = "rejected"
        /\ End(r, "RENDER_CRASH")
        /\ Goto(r, "cleanup") /\ UNCHANGED <<launching, launched, on>>
  /\ UNCHANGED <<available, sem, browser, alive, closes, closing, hurt, overlaps>>

\* chromium.launch() has ended; all the calls that wait for it go on.  Only a launch
\* that succeeded clears `launching`.
Launch ==
  LET all == {r \in Render : pc[r] = "launching"} IN
  /\ launching = "pending"
  /\ \/ /\ launching' = "null"
        /\ browser' = launched
        /\ alive' = alive \cup {launched}
        /\ on' = [r \in Render |-> IF r \in all THEN launched ELSE on[r]]
        /\ pc' = [r \in Render |-> IF r \in all THEN "context" ELSE pc[r]]
        /\ UNCHANGED <<fate, hurt>>
     \/ /\ launching' = "rejected"
        /\ pc' = [r \in Render |-> IF r \in all THEN "cleanup" ELSE pc[r]]
        /\ fate' = [r \in Render |-> IF r \in all THEN "RENDER_CRASH" ELSE fate[r]]
        /\ Hurt(all)
        /\ UNCHANGED <<browser, alive, on>>
  /\ UNCHANGED <<available, sem, launched, closes, closing, overlaps>>

\* newContext, newPage, route: they fail on a browser that has died.
NewContext(r) ==
  /\ pc[r] = "context"
  /\ \/ on[r] \in alive /\ Goto(r, "page") /\ UNCHANGED fate
     \/ on[r] \notin alive /\ Goto(r, "cleanup") /\ End(r, "RENDER_CRASH")
  /\ UNCHANGED <<available, sem, process, on, closes, closing, hurt, overlaps>>

\* goto, the waits, the click and content(): the document, a timeout of the navigation
\* or an error of the page.
Load(r) ==
  /\ pc[r] = "page"
  /\ \/ on[r] \in alive /\ End(r, "ok") /\ UNCHANGED hurt
     \/ End(r, "JS_TIMEOUT") /\ UNCHANGED hurt
     \/ End(r, "RENDER_CRASH") /\ Hurt({r})
  /\ Goto(r, "cleanup")
  /\ UNCHANGED <<available, sem, process, on, closes, closing, overlaps>>

NextInLineLast(q) == q[Len(q)]
NextInLine(q) == Head(q)

\* The permits after release() with nobody waiting, and with a call that gets it.
PermitLost(p) == p
PermitBack(p) == p + 1
PermitHandedTwice(p) == p + 1
PermitHandedNever(p) == p - 1
PermitHanded(p) == p

\* release() after the finally block has closed page and context: the permit goes back,
\* or straight to the first of the queue.
Release(r) ==
  LET next == NextInLine(queue) IN
  /\ pc[r] = "cleanup"
  /\ on' = [on EXCEPT ![r] = 0]
  /\ fate' = [fate EXCEPT ![r] = "none"]
  /\ hurt' = [hurt EXCEPT ![r] = FALSE]
  /\ \/ /\ queue = <<>>
        /\ permits' = PermitBack(permits)
        /\ Goto(r, "idle") /\ UNCHANGED queue
     \/ /\ queue # <<>>
        /\ permits' = PermitHanded(permits)
        /\ queue' = Tail(queue)
        /\ pc' = [pc EXCEPT ![r] = "idle", ![next] = "granted"]
  /\ UNCHANGED <<available, process, closes, closing, overlaps>>

----------------------------------------------------------------------------
(* The browser process *)

\* It dies; this.browser still refers to it.
Die(g) ==
  /\ g \in alive
  /\ alive' = alive \ {g}
  /\ Hurt(Render)
  /\ UNCHANGED <<available, sem, browser, launching, launched, pc, on, fate, closes,
                 closing, overlaps>>

\* close() of a signal handler: the browser first, then the reference to it, whatever it
\* refers to by then.  Nothing keeps a second signal from calling it meanwhile.
CloseBegin ==
  /\ closes < MaxCloses
  /\ closes' = closes + 1
  /\ IF browser # 0
       THEN /\ alive' = alive \ {browser}
            /\ closing' = closing + 1
            /\ overlaps' = IF closing > 0 THEN overlaps + 1 ELSE overlaps
            /\ Hurt(Render)
       ELSE UNCHANGED <<alive, closing, overlaps, hurt>>
  /\ UNCHANGED <<available, sem, browser, launching, launched, pc, on, fate>>

CloseEnd ==
  /\ closing > 0
  /\ closing' = closing - 1
  /\ browser' = 0
  /\ UNCHANGED <<available, sem, launching, alive, launched, pc, on, fate, closes, hurt,
                 overlaps>>

Step(r) == Acquire(r) \/ EnsureBrowser(r) \/ NewContext(r) \/ Load(r) \/ Release(r)

Next ==
  \/ \E r \in Render : Call(r) \/ Step(r)
  \/ Launch
  \/ \E g \in 1..launched : Die(g)
  \/ CloseBegin \/ CloseEnd

Spec == Init /\ [][Next]_vars

\* Continuations run; Playwright answers every call, with a result or an error.
FairSpec == Spec /\ WF_vars(Launch) /\ \A r \in Render : WF_vars(Step(r))

----------------------------------------------------------------------------
(* Properties *)

\* No permit is lost or made, whatever fails between acquire and release: never more than
\* Max calls use the browser (crawl 1.3, MAX_HEADLESS_CONCURRENCY).
PermitsConserved == permits + Cardinality(Inside) = Max

\* No call waits while a permit is free, and the queue holds exactly the calls that
\* wait, each once.
QueueIsWaiting ==
  /\ queue # <<>> => permits = 0
  /\ Waiting = {r \in Render : pc[r] = "queued"}
  /\ \A i, j \in 1..Len(queue) : queue[i] = queue[j] => i = j

\* First come, first served: no call gets a permit past one that queued before it.
NoOvertaking ==
  [][\A i \in 1..Len(queue), r \in Render :
       /\ r \notin {queue[j] : j \in 1..i}
       /\ pc[r] \notin Holding /\ pc'[r] \in Holding
       => pc'[queue[i]] \in Holding]_vars

\* A browser process that runs and that this.browser does not know is owed to a close()
\* that waited beside another one and cleared the reference to a browser launched since;
\* each can cost one process.  Nothing else, concurrent first calls, a death of the process
\* or a close() alone, leaves two; and no launch begins beside a browser that is known.
BrowsersOwed ==
  /\ Cardinality(alive \ {browser}) <= overlaps
  /\ launching = "pending" => browser = 0

\* Every call of render returns, the queued ones too.
EveryRenderEnds == \A r \in Render : pc[r] = "check" ~> pc[r] = "idle"

\* docs/01_crawl_engine.md: when the browser crashes it is started again, so a call that
\* comes after the crash does not get the dead one.
RestartAfterCrash ==
  \A r \in Render : pc[r] = "context" /\ ~hurt[r] => on[r] \in alive

=============================================================================
