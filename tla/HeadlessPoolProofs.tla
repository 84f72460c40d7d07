------------------------- MODULE HeadlessPoolProofs -------------------------
(* Theorems about HeadlessPool for every number of calls and permits. *)
EXTENDS HeadlessPool, FiniteSetTheorems, TLAPS

----------------------------------------------------------------------------
(* The semaphore. *)

LEMMA InsideFinite == IsFiniteSet(Inside) /\ Cardinality(Inside) \in Nat
BY PoolAssumption, FS_Subset, FS_CardinalityType DEF Inside

LEMMA TypeStep == TypeOK /\ QueueIsWaiting /\ [Next]_vars => TypeOK'
<1>1. SUFFICES ASSUME TypeOK, QueueIsWaiting, [Next]_vars PROVE TypeOK'
  OBVIOUS
<1>2. ASSUME NEW r \in Render, Call(r) PROVE TypeOK'
  BY <1>1, <1>2 DEF Call, Goto, sem, process, TypeOK, Label
<1>3. ASSUME NEW r \in Render, Acquire(r) PROVE TypeOK'
  <2>1. pc' \in [Render -> Label]
    BY <1>1, <1>3 DEF Acquire, Goto, TypeOK, Label, Holding
  <2>2. permits' \in Nat
    BY <1>1, <1>3 DEF Acquire, FreePermit, sem, TypeOK
  <2>3. queue' \in Seq(Render)
    <3>1. queue' = queue \/ queue' = Append(queue, r)
      BY <1>3 DEF Acquire, sem
    <3>2. queue \in Seq(Render)
      BY <1>1 DEF TypeOK
    <3>3. Append(queue, r) \in Seq(Render)
      BY <3>2
    <3>. QED
      BY <3>1, <3>2, <3>3
  <2>. QED
    BY <1>1, <1>3, <2>1, <2>2, <2>3 DEF Acquire, process, TypeOK
<1>4. ASSUME NEW r \in Render, EnsureBrowser(r) PROVE TypeOK'
  <2>1. pc' \in [Render -> Label]
    BY <1>1, <1>4 DEF EnsureBrowser, Goto, TypeOK, Label, Holding
  <2>2. on' \in [Render -> Nat]
    BY <1>1, <1>4 DEF EnsureBrowser, TypeOK
  <2>4. launched' \in Nat
    BY <1>1, <1>4 DEF EnsureBrowser, TypeOK
  <2>5. launching' \in {"null", "pending", "rejected"}
    BY <1>1, <1>4 DEF EnsureBrowser, TypeOK
  <2>3. fate' \in [Render -> {"none", "ok", "JS_TIMEOUT", "RENDER_CRASH"}]
    BY <1>1, <1>4 DEF EnsureBrowser, End, TypeOK
  <2>. QED
    BY <1>1, <1>4, <2>1, <2>2, <2>3, <2>4, <2>5 DEF EnsureBrowser, sem, TypeOK
<1>5. ASSUME NEW r \in Render, NewContext(r) PROVE TypeOK'
  BY <1>1, <1>5 DEF NewContext, Goto, End, sem, process, TypeOK, Label, Holding
<1>6. ASSUME NEW r \in Render, Load(r) PROVE TypeOK'
  BY <1>1, <1>6 DEF Load, Goto, End, Hurt, sem, process, TypeOK, Label, Holding
<1>7. ASSUME NEW r \in Render, Release(r) PROVE TypeOK'
  <2>1. CASE queue = <<>>
    BY <1>1, <1>7, <2>1 DEF Release, PermitBack, Goto, process, TypeOK, Label
  <2>2. CASE queue # <<>>
    <3>1. Head(queue) \in Render /\ Tail(queue) \in Seq(Render)
      BY <1>1, <2>2 DEF TypeOK
    <3>. QED
      BY <1>1, <1>7, <2>2, <3>1
         DEF Release, NextInLine, PermitHanded, process, TypeOK, Label, Holding
  <2>. QED
    BY <2>1, <2>2
<1>8. CASE Launch
  BY <1>1, <1>8, ZenonT(30) DEF Launch, Hurt, sem, TypeOK, Label, Holding
<1>9. ASSUME NEW g \in 1..launched, Die(g) PROVE TypeOK'
  BY <1>1, <1>9 DEF Die, Hurt, sem, TypeOK
<1>10. CASE CloseBegin
  <2>1. /\ closes' \in Nat /\ alive' \in SUBSET Nat
        /\ closing' \in Nat /\ overlaps' \in Nat
    <3>1. /\ closes \in Nat /\ alive \in SUBSET Nat /\ closing \in Nat /\ overlaps \in Nat
      BY <1>1 DEF TypeOK
    <3>2. /\ closes' = closes + 1
          /\ alive' = alive \/ alive' = alive \ {browser}
          /\ closing' = closing \/ closing' = closing + 1
          /\ overlaps' = overlaps \/ overlaps' = overlaps + 1
      BY <1>10 DEF CloseBegin, Hurt
    <3>3. alive' \in SUBSET Nat
      BY <3>1, <3>2
    <3>4. closes' \in Nat /\ closing' \in Nat /\ overlaps' \in Nat
      BY <3>1, <3>2
    <3>. QED
      BY <3>3, <3>4
  <2>2. hurt' \in [Render -> BOOLEAN]
    BY <1>1, <1>10 DEF CloseBegin, Hurt, TypeOK
  <2>. QED
    BY <1>1, <1>10, <2>1, <2>2 DEF CloseBegin, sem, TypeOK
<1>12. CASE CloseEnd
  BY <1>1, <1>12 DEF CloseEnd, sem, TypeOK
<1>11. CASE UNCHANGED vars
  BY <1>1, <1>11 DEF vars, sem, process, TypeOK
<1>. QED
  BY <1>1, <1>2, <1>3, <1>4, <1>5, <1>6, <1>7, <1>8, <1>9, <1>10, <1>11, <1>12
     DEF Next, Step

\* A step in which no call gets, gives back or waits for a permit.
LEMMA SemKept ==
  ASSUME TypeOK, PermitsConserved, QueueIsWaiting, UNCHANGED sem,
         \A r \in Render : /\ pc'[r] \in Holding <=> pc[r] \in Holding
                           /\ pc'[r] = "queued" <=> pc[r] = "queued"
  PROVE  PermitsConserved' /\ QueueIsWaiting'
<1>1. Inside' = Inside
  BY DEF Inside
<1>. QED
  BY <1>1 DEF PermitsConserved, QueueIsWaiting, Waiting, sem

LEMMA AcquireSem ==
  ASSUME NEW r \in Render, TypeOK, PermitsConserved, QueueIsWaiting, Acquire(r)
  PROVE  PermitsConserved' /\ QueueIsWaiting'
<1>1. r \notin Inside /\ r \notin Waiting
  BY DEF Acquire, Inside, Holding, QueueIsWaiting
<1>2. CASE Goto(r, "idle") /\ UNCHANGED sem
  BY <1>2, SemKept DEF Acquire, Goto, TypeOK, Holding
<1>3. CASE permits > 0 /\ permits' = permits - 1 /\ Goto(r, "granted") /\ UNCHANGED queue
  <2>1. Inside' = Inside \cup {r}
    BY <1>3 DEF Inside, Goto, TypeOK, Holding
  <2>2. Cardinality(Inside') = Cardinality(Inside) + 1
    BY <1>1, <2>1, InsideFinite, FS_AddElement
  <2>3. PermitsConserved'
    BY <1>3, <2>2, InsideFinite, PoolAssumption DEF PermitsConserved, TypeOK
  <2>4. queue = <<>>
    BY <1>3 DEF QueueIsWaiting, TypeOK
  <2>5. QueueIsWaiting'
    BY <1>3, <2>4 DEF QueueIsWaiting, Waiting, Acquire, Goto, TypeOK
  <2>. QED
    BY <2>3, <2>5
<1>4. CASE permits = 0 /\ queue' = Append(queue, r) /\ Goto(r, "queued") /\ UNCHANGED permits
  <2>1. Inside' = Inside
    BY <1>1, <1>4 DEF Inside, Goto, TypeOK, Holding
  <2>2. PermitsConserved'
    BY <1>4, <2>1 DEF PermitsConserved
  <2>3. /\ Len(queue') = Len(queue) + 1 /\ queue'[Len(queue) + 1] = r
        /\ \A i \in 1..Len(queue) : queue'[i] = queue[i]
        /\ Len(queue) \in Nat
    BY <1>4 DEF TypeOK
  <2>4. \A i \in 1..Len(queue) : queue[i] # r
    BY <1>1 DEF Waiting
  <2>5. \A i, j \in 1..Len(queue') : queue'[i] = queue'[j] => i = j
    BY <2>3, <2>4 DEF QueueIsWaiting
  <2>6. Waiting' = Waiting \cup {r}
    BY <2>3 DEF Waiting
  <2>7. Waiting' = {s \in Render : pc'[s] = "queued"}
    BY <1>4, <2>6 DEF QueueIsWaiting, Goto, TypeOK
  <2>. QED
    BY <1>4, <2>2, <2>5, <2>7 DEF QueueIsWaiting
<1>. QED
  BY <1>2, <1>3, <1>4 DEF Acquire, FreePermit, sem, TypeOK

LEMMA ReleaseSem ==
  ASSUME NEW r \in Render, TypeOK, PermitsConserved, QueueIsWaiting, Release(r)
  PROVE  PermitsConserved' /\ QueueIsWaiting'
<1>1. r \in Inside /\ pc[r] = "cleanup"
  BY DEF Release, Inside, Holding
<1>2. CASE queue = <<>>
  <2>1. permits' = permits + 1 /\ pc' = [pc EXCEPT ![r] = "idle"] /\ queue' = queue
    BY <1>2 DEF Release, PermitBack, Goto
  <2>2. Inside' = Inside \ {r}
    BY <2>1 DEF Inside, TypeOK, Holding
  <2>3. Cardinality(Inside') = Cardinality(Inside) - 1
    BY <1>1, <2>2, InsideFinite, FS_RemoveElement
  <2>4. PermitsConserved'
    BY <2>1, <2>3, InsideFinite, PoolAssumption DEF PermitsConserved, TypeOK
  <2>5. QueueIsWaiting'
    BY <1>1, <1>2, <2>1 DEF QueueIsWaiting, Waiting, TypeOK
  <2>. QED
    BY <2>4, <2>5
<1>3. CASE queue # <<>>
  <2>. DEFINE next == Head(queue)
  <2>1. /\ permits' = permits /\ queue' = Tail(queue)
        /\ pc' = [pc EXCEPT ![r] = "idle", ![next] = "granted"]
    BY <1>3 DEF Release, NextInLine, PermitHanded
  <2>2. /\ next = queue[1] /\ 1 \in 1..Len(queue) /\ Len(queue) \in Nat
        /\ Len(queue') = Len(queue) - 1
        /\ \A i \in 1..Len(queue') : queue'[i] = queue[i + 1] /\ i + 1 \in 1..Len(queue)
    BY <1>3, <2>1 DEF TypeOK
  <2>3. next \in Render /\ pc[next] = "queued" /\ next # r /\ next \notin Inside
    BY <1>1, <2>2 DEF QueueIsWaiting, Waiting, Inside, Holding
  <2>4. Inside' = (Inside \ {r}) \cup {next}
    BY <2>1, <2>3 DEF Inside, TypeOK, Holding
  <2>5. IsFiniteSet(Inside \ {r}) /\ Cardinality(Inside \ {r}) = Cardinality(Inside) - 1
    BY <1>1, InsideFinite, FS_RemoveElement
  <2>6. Cardinality(Inside') = Cardinality(Inside)
    <3>1. next \notin Inside \ {r}
      BY <2>3
    <3>2. Cardinality((Inside \ {r}) \cup {next}) = Cardinality(Inside \ {r}) + 1
      BY <2>5, <3>1, FS_AddElement
    <3>. QED
      BY <2>4, <2>5, <3>2, InsideFinite
  <2>7. PermitsConserved'
    BY <2>1, <2>6 DEF PermitsConserved
  <2>8. \A i, j \in 1..Len(queue') : queue'[i] = queue'[j] => i = j
    BY <2>2 DEF QueueIsWaiting
  <2>9. Waiting' = Waiting \ {next}
    <3>1. ASSUME NEW i \in 1..Len(queue') PROVE queue'[i] \in Waiting \ {next}
      BY <2>2 DEF QueueIsWaiting, Waiting
    <3>2. ASSUME NEW i \in 1..Len(queue), queue[i] # next
          PROVE  i - 1 \in 1..Len(queue') /\ queue'[i - 1] = queue[i]
      BY <2>2, <3>2
    <3>. QED
      BY <3>1, <3>2 DEF Waiting
  <2>10. Waiting' = {s \in Render : pc'[s] = "queued"}
    BY <1>1, <2>1, <2>3, <2>9 DEF QueueIsWaiting, TypeOK
  <2>11. permits = 0
    BY <1>3 DEF QueueIsWaiting
  <2>. QED
    BY <2>1, <2>7, <2>8, <2>10, <2>11 DEF QueueIsWaiting
<1>. QED
  BY <1>2, <1>3

LEMMA SemStep ==
  TypeOK /\ PermitsConserved /\ QueueIsWaiting /\ [Next]_vars
    => PermitsConserved' /\ QueueIsWaiting'
<1>1. SUFFICES ASSUME TypeOK, PermitsConserved, QueueIsWaiting, [Next]_vars
               PROVE  PermitsConserved' /\ QueueIsWaiting'
  OBVIOUS
<1>. DEFINE Same == /\ UNCHANGED sem
                    /\ \A s \in Render : /\ pc'[s] \in Holding <=> pc[s] \in Holding
                                         /\ pc'[s] = "queued" <=> pc[s] = "queued"
<1>2. ASSUME NEW r \in Render, Call(r) PROVE Same
  BY <1>1, <1>2 DEF Call, Goto, TypeOK, Holding
<1>3. ASSUME NEW r \in Render, EnsureBrowser(r) PROVE Same
  BY <1>1, <1>3 DEF EnsureBrowser, Goto, TypeOK, Holding
<1>4. ASSUME NEW r \in Render, NewContext(r) \/ Load(r) PROVE Same
  BY <1>1, <1>4 DEF NewContext, Load, Goto, TypeOK, Holding
<1>5. CASE Launch
  <2>1. Same
    BY <1>1, <1>5 DEF Launch, TypeOK, Holding
  <2>. QED
    BY <1>1, <2>1, SemKept
<1>6. CASE (\E g \in 1..launched : Die(g)) \/ CloseBegin \/ CloseEnd \/ UNCHANGED vars
  <2>1. Same
    BY <1>6 DEF Die, CloseBegin, CloseEnd, vars, sem
  <2>. QED
    BY <1>1, <2>1, SemKept
<1>. QED
  BY <1>1, <1>2, <1>3, <1>4, <1>5, <1>6, SemKept, AcquireSem, ReleaseSem DEF Next, Step

LEMMA PoolInit == Init => TypeOK /\ PermitsConserved /\ QueueIsWaiting
<1>1. SUFFICES ASSUME Init PROVE TypeOK /\ PermitsConserved /\ QueueIsWaiting
  OBVIOUS
<1>2. TypeOK
  <2>1. available \in BOOLEAN /\ permits \in Nat /\ queue \in Seq(Render)
    BY <1>1, PoolAssumption DEF Init
  <2>2. pc \in [Render -> Label]
    BY <1>1 DEF Init, Label
  <2>. QED
    BY <1>1, <2>1, <2>2 DEF Init, TypeOK
<1>3. Inside = {}
  BY <1>1 DEF Init, Inside, Holding
<1>4. PermitsConserved
  BY <1>1, <1>3, FS_EmptySet, PoolAssumption DEF Init, PermitsConserved
<1>5. QueueIsWaiting
  BY <1>1 DEF Init, QueueIsWaiting, Waiting
<1>. QED
  BY <1>2, <1>4, <1>5

\* Whatever fails inside render, the permits handed out and the free ones add up to
\* MAX_HEADLESS_CONCURRENCY.
THEOREM PermitsAddUp == Spec => []PermitsConserved
<1>. DEFINE Inv == TypeOK /\ PermitsConserved /\ QueueIsWaiting
<1>1. Inv /\ [Next]_vars => Inv'
  BY TypeStep, SemStep
<1>. QED
  BY <1>1, PoolInit, PTL DEF Spec

\* The queue holds exactly the calls that wait, each once, and only when no permit is free.
THEOREM QueueExact == Spec => []QueueIsWaiting
<1>. DEFINE Inv == TypeOK /\ PermitsConserved /\ QueueIsWaiting
<1>1. Inv /\ [Next]_vars => Inv'
  BY TypeStep, SemStep
<1>. QED
  BY <1>1, PoolInit, PTL DEF Spec

----------------------------------------------------------------------------
(* The order of the queue. *)

LEMMA OrderStep ==
  ASSUME TypeOK, QueueIsWaiting, [Next]_vars
  PROVE  \A i \in 1..Len(queue), r \in Render :
           /\ r \notin {queue[j] : j \in 1..i}
           /\ pc[r] \notin Holding /\ pc'[r] \in Holding
           => pc'[queue[i]] \in Holding
<1>1. SUFFICES ASSUME NEW i \in 1..Len(queue), NEW r \in Render,
                      r \notin {queue[j] : j \in 1..i},
                      pc[r] \notin Holding, pc'[r] \in Holding
               PROVE  FALSE
  OBVIOUS
<1>2. permits = 0 /\ queue # <<>> /\ Len(queue) \in Nat
  BY <1>1 DEF QueueIsWaiting, TypeOK
<1>3. ASSUME NEW s \in Render, Step(s) PROVE FALSE
  <2>1. CASE Acquire(s)
    BY <1>1, <1>2, <2>1 DEF Acquire, FreePermit, Goto, TypeOK, Holding
  <2>2. CASE EnsureBrowser(s)
    BY <1>1, <2>2 DEF EnsureBrowser, Goto, TypeOK, Holding
  <2>3. CASE NewContext(s) \/ Load(s)
    BY <1>1, <2>3 DEF NewContext, Load, Goto, TypeOK, Holding
  <2>4. CASE Release(s)
    <3>1. pc' = [pc EXCEPT ![s] = "idle", ![queue[1]] = "granted"]
      BY <1>2, <2>4 DEF Release, NextInLine, TypeOK
    <3>2. r # queue[1]
      BY <1>1, <1>2
    <3>. QED
      BY <1>1, <3>1, <3>2 DEF TypeOK, Holding
  <2>. QED
    BY <1>3, <2>1, <2>2, <2>3, <2>4 DEF Step
<1>4. ASSUME NEW s \in Render, Call(s) PROVE FALSE
  BY <1>1, <1>4 DEF Call, Goto, TypeOK, Holding
<1>5. CASE Launch
  BY <1>1, <1>5 DEF Launch, TypeOK, Holding
<1>6. CASE (\E g \in 1..launched : Die(g)) \/ CloseBegin \/ CloseEnd \/ UNCHANGED vars
  BY <1>1, <1>6 DEF Die, CloseBegin, CloseEnd, vars
<1>. QED
  BY <1>3, <1>4, <1>5, <1>6 DEF Next

\* The semaphore is first come, first served.
THEOREM FirstComeFirstServed == Spec => NoOvertaking
<1>. DEFINE Inv == TypeOK /\ PermitsConserved /\ QueueIsWaiting
<1>1. Inv /\ [Next]_vars => Inv'
  BY TypeStep, SemStep
<1>2. Inv /\ [Next]_vars =>
        \A i \in 1..Len(queue), r \in Render :
          /\ r \notin {queue[j] : j \in 1..i}
          /\ pc[r] \notin Holding /\ pc'[r] \in Holding
          => pc'[queue[i]] \in Holding
  BY OrderStep
<1>. QED
  BY <1>1, <1>2, PoolInit, PTL DEF Spec, NoOvertaking

----------------------------------------------------------------------------
(* The browser. *)

\* The browser processes that this.browser does not know.
Lost == alive \ {browser}

\* The calls of close() that may still clear the reference to a live browser: each that
\* waits, but for one if the browser it closed is still the one referred to.
Threat == IF closing > 0 /\ browser # 0 /\ browser \notin alive THEN closing - 1 ELSE closing

\* What is lost, and what may still be, is paid for by the overlaps so far; a launch
\* begins with no browser.
BrowserInv ==
  /\ IsFiniteSet(Lost)
  /\ Cardinality(Lost) + Threat <= overlaps
  /\ 0 \notin alive
  /\ launching = "pending" => browser = 0 /\ launched > 0

LEMMA BrowserNumbers ==
  ASSUME TypeOK, BrowserInv
  PROVE  /\ Cardinality(Lost) \in Nat /\ Threat \in Nat
         /\ closing \in Nat /\ overlaps \in Nat /\ browser \in Nat
BY FS_CardinalityType DEF TypeOK, BrowserInv, Threat

\* Processes that die, or become known, are lost no more.
LEMMA FewerLost ==
  ASSUME TypeOK, BrowserInv, Lost' \subseteq Lost
  PROVE  /\ IsFiniteSet(Lost') /\ Cardinality(Lost') \in Nat
         /\ Cardinality(Lost') <= Cardinality(Lost)
BY FS_Subset, FS_CardinalityType DEF BrowserInv

LEMMA BrowserStep == TypeOK /\ BrowserInv /\ [Next]_vars => BrowserInv'
<1>1. SUFFICES ASSUME TypeOK, BrowserInv, [Next]_vars PROVE BrowserInv'
  OBVIOUS
<1>2. ASSUME NEW r \in Render, EnsureBrowser(r) PROVE BrowserInv'
  <2>1. UNCHANGED <<browser, alive, closing, overlaps>> /\ launched \in Nat
    BY <1>1, <1>2 DEF EnsureBrowser, TypeOK
  <2>2. \/ UNCHANGED <<launching, launched>>
        \/ browser = 0 /\ launched' = launched + 1
    BY <1>2 DEF EnsureBrowser, BrowserThere
  <2>. QED
    BY <1>1, <2>1, <2>2 DEF BrowserInv, Lost, Threat
<1>3. ASSUME NEW r \in Render,
             Call(r) \/ Acquire(r) \/ NewContext(r) \/ Load(r) \/ Release(r)
      PROVE  BrowserInv'
  <2>1. UNCHANGED <<process, closing, overlaps>>
    BY <1>3 DEF Call, Acquire, NewContext, Load, Release
  <2>. QED
    BY <1>1, <2>1 DEF process, BrowserInv, Lost, Threat
<1>4. CASE Launch
  <2>1. browser = 0 /\ launched > 0 /\ launched \in Nat /\ UNCHANGED <<closing, overlaps>>
    BY <1>1, <1>4 DEF Launch, BrowserInv, TypeOK
  <2>2. CASE launching' = "null" /\ browser' = launched /\ alive' = alive \cup {launched}
    <3>1. Lost' \subseteq Lost
      BY <1>1, <2>1, <2>2 DEF Lost, BrowserInv
    <3>2. Threat' = Threat
      BY <2>1, <2>2 DEF Threat
    <3>. QED
      BY <1>1, <2>1, <2>2, <3>1, <3>2, FewerLost, BrowserNumbers DEF BrowserInv
  <2>3. CASE launching' = "rejected" /\ UNCHANGED <<browser, alive>>
    BY <1>1, <2>1, <2>3 DEF BrowserInv, Lost, Threat
  <2>. QED
    BY <1>4, <2>2, <2>3 DEF Launch
<1>5. CASE CloseBegin
  <2>1. UNCHANGED <<browser, launching, launched>>
    BY <1>5 DEF CloseBegin
  <2>2. CASE browser # 0
    <3>1. /\ alive' = alive \ {browser} /\ closing' = closing + 1
          /\ overlaps' = IF closing > 0 THEN overlaps + 1 ELSE overlaps
      BY <1>5, <2>2 DEF CloseBegin
    <3>2. Lost' \subseteq Lost
      BY <2>1, <3>1 DEF Lost
    <3>3. Threat' = closing
      BY <1>1, <2>1, <2>2, <3>1, BrowserNumbers DEF Threat
    <3>4. closing > 0 => Threat >= closing - 1
      BY <1>1, BrowserNumbers DEF Threat
    <3>5. Cardinality(Lost') + Threat' <= overlaps'
      <4>1. CASE closing > 0
        BY <1>1, <3>1, <3>2, <3>3, <3>4, <4>1, FewerLost, BrowserNumbers DEF BrowserInv
      <4>2. CASE closing = 0
        BY <1>1, <3>1, <3>2, <3>3, <4>2, FewerLost, BrowserNumbers DEF BrowserInv
      <4>. QED
        BY <1>1, <4>1, <4>2, BrowserNumbers
    <3>. QED
      BY <1>1, <2>1, <3>1, <3>2, <3>5, FewerLost DEF BrowserInv
  <2>3. CASE browser = 0
    BY <1>1, <1>5, <2>1, <2>3 DEF CloseBegin, BrowserInv, Lost, Threat
  <2>. QED
    BY <2>2, <2>3
<1>6. CASE CloseEnd
  <2>1. /\ closing > 0 /\ closing' = closing - 1 /\ browser' = 0
        /\ UNCHANGED <<alive, launching, launched, overlaps>>
    BY <1>6 DEF CloseEnd
  <2>2. Threat' = closing - 1
    BY <2>1 DEF Threat
  <2>3. Lost' = alive
    BY <1>1, <2>1 DEF Lost, BrowserInv
  <2>4. CASE browser \in alive
    <3>1. Lost' = Lost \cup {browser} /\ browser \notin Lost
      BY <2>3, <2>4 DEF Lost
    <3>2. IsFiniteSet(Lost') /\ Cardinality(Lost') = Cardinality(Lost) + 1
      BY <1>1, <3>1, FS_AddElement DEF BrowserInv
    <3>3. Threat = closing
      BY <2>4 DEF Threat
    <3>. QED
      BY <1>1, <2>1, <2>2, <3>2, <3>3, BrowserNumbers DEF BrowserInv
  <2>5. CASE browser \notin alive
    <3>1. Lost' = Lost
      BY <2>3, <2>5 DEF Lost
    <3>2. Threat >= closing - 1
      BY <1>1, <2>1, BrowserNumbers DEF Threat
    <3>. QED
      BY <1>1, <2>1, <2>2, <3>1, <3>2, BrowserNumbers DEF BrowserInv
  <2>. QED
    BY <2>4, <2>5
<1>7. ASSUME NEW g \in 1..launched, Die(g) PROVE BrowserInv'
  <2>1. /\ alive' = alive \ {g}
        /\ UNCHANGED <<browser, launching, launched, closing, overlaps>>
    BY <1>7 DEF Die
  <2>2. Lost' \subseteq Lost
    BY <2>1 DEF Lost
  <2>3. Threat' <= Threat
    BY <1>1, <2>1, BrowserNumbers DEF Threat
  <2>4. Threat' \in Nat
    BY <1>1, <2>1, BrowserNumbers DEF Threat
  <2>. QED
    BY <1>1, <2>1, <2>2, <2>3, <2>4, FewerLost, BrowserNumbers DEF BrowserInv
<1>8. CASE UNCHANGED vars
  BY <1>1, <1>8 DEF vars, process, BrowserInv, Lost, Threat
<1>. QED
  BY <1>1, <1>2, <1>3, <1>4, <1>5, <1>6, <1>7, <1>8 DEF Next, Step

\* Concurrent calls of render, deaths of the process and any number of calls of close():
\* there are never more live browsers that this.browser does not know than calls of
\* close() that began to wait beside another one.
THEOREM BrowsersAreOwed == Spec => []BrowsersOwed
<1>. DEFINE Inv == TypeOK /\ PermitsConserved /\ QueueIsWaiting /\ BrowserInv
<1>1. Init => BrowserInv
  <2>1. SUFFICES ASSUME Init PROVE BrowserInv
    OBVIOUS
  <2>2. Lost = {} /\ Threat = 0
    BY <2>1 DEF Init, Lost, Threat
  <2>. QED
    BY <2>1, <2>2, FS_EmptySet DEF Init, BrowserInv
<1>2. Inv /\ [Next]_vars => Inv'
  BY TypeStep, SemStep, BrowserStep
<1>3. Inv => BrowsersOwed
  BY BrowserNumbers DEF BrowserInv, BrowsersOwed, Lost
<1>. QED
  BY <1>1, <1>2, <1>3, PoolInit, PTL DEF Spec

=============================================================================
