------------------------------- MODULE CrawlStore -------------------------------
(***************************************************************************)
(* What is written of failed crawls (service/src/persistence): a row per   *)
(* attempt in crawl_attempts, and the rollup failed_crawls that counts     *)
(* them per domain, error code and final URL. A write that fails is        *)
(* swallowed (pg-store.ts), so it may be lost.                             *)
(***************************************************************************)
EXTENDS Integers, Sequences, FiniteSets, FiniteSetsExt

CONSTANT MaxLost   \* bound of the model: writes lost to a failing database

VARIABLES
  attempts,   \* the rows of crawl_attempts, in the order of their insertion
  failed,     \* failed_crawls: the occurrences of each key that is there
  lost        \* observation only: the writes that were lost

storeVars == <<attempts, failed, lost>>

StoreTypeOK(Row, Write) ==
  /\ attempts \in Seq(Row)
  /\ \A k \in DOMAIN failed : failed[k] \in Nat \ {0}
  /\ lost \subseteq Write

StoreInit == attempts = <<>> /\ failed = <<>> /\ lost = {}

\* w names the write.
Lost(w) == Cardinality(lost) < MaxLost /\ lost' = lost \cup {w}

WriteAttempt(w, row) ==
  /\ \/ attempts' = Append(attempts, row) /\ UNCHANGED lost
     \/ Lost(w) /\ UNCHANGED attempts
  /\ UNCHANGED failed

\* The unique key of failed_crawls.
FailedKey(row) == [domain |-> row.domain, code |-> row.code, final |-> row.final]

StartOver(n) == 1
CountUp(n) == n + 1

\* INSERT ... ON CONFLICT DO UPDATE SET occurrences = occurrences + 1
Occurrences(k) == IF k \in DOMAIN failed THEN CountUp(failed[k]) ELSE 1

UpsertFailedCrawl(w, row) ==
  LET k == FailedKey(row) IN
  /\ \/ /\ failed' = [x \in DOMAIN failed \cup {k} |->
                        IF x = k THEN Occurrences(k) ELSE failed[x]]
        /\ UNCHANGED lost
     \/ Lost(w) /\ UNCHANGED failed
  /\ UNCHANGED attempts

\* topFailures: the failures of a domain with a code, whatever their final URLs.
TopFailures(d, c) ==
  MapThenSumSet(LAMBDA k : failed[k],
                {k \in DOMAIN failed : k.domain = d /\ k.code = c})

================================================================================
