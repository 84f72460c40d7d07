----------------------------- MODULE KeyedMutex -----------------------------
(* What the single-flight lock promises: a mutex for each key that may leak. *)
EXTENDS Naturals, FiniteSets

CONSTANTS Key, Owner
VARIABLES
  holders,    \* holders[k]: the owners inside the critical section of k
  leaks       \* leaks[k]: how often the exclusion of k has failed so far

vars == <<holders, leaks>>

Init ==
  /\ holders = [k \in Key |-> {}]
  /\ leaks = [k \in Key |-> 0]

\* Exclusion may fail in any step, once per key.
Leak(L) == leaks' = [k \in Key |-> IF k \in L THEN leaks[k] + 1 ELSE leaks[k]]

\* An owner enters beside at most as many others as there were leaks.
Acquire(o, k) ==
  /\ o \notin holders[k]
  /\ Cardinality(holders[k]) <= leaks'[k]
  /\ holders' = [holders EXCEPT ![k] = @ \cup {o}]

\* Owners leave, one at the end of its work or several when a process dies.
Leave(S) == holders' = [k \in Key |-> holders[k] \ S]

Next ==
  /\ \E L \in SUBSET Key : Leak(L)
  /\ \/ \E o \in Owner, k \in Key : Acquire(o, k)
     \/ \E S \in SUBSET Owner : Leave(S)

Spec == Init /\ [][Next]_vars
=============================================================================
