----------------------------- MODULE BoundedMap -----------------------------
(* Abstract: what the L1 promises.  A map that may lose an entry for each  *)
(* one it is given, never holds more than MaxHeld, and answers with the    *)
(* last value put under a key, for Ttl at the longest.                     *)
EXTENDS Integers, FiniteSets

CONSTANTS Key, Value, None, MaxHeld, Ttl

VARIABLES now, contents, answer

vars == <<now, contents, answer>>

Held(c) == {k \in Key : c[k] # None}

Init == now = 0 /\ contents = [k \in Key |-> None] /\ answer = None

Get(k) ==
  /\ answer' = IF contents[k] = None THEN None ELSE contents[k].value
  /\ UNCHANGED <<now, contents>>

Put(k, v) ==
  /\ contents'[k] = [value |-> v, at |-> now]
  /\ \A j \in Key \ {k} : contents'[j] \in {contents[j], None}
  /\ Cardinality((Held(contents) \ {k}) \ Held(contents')) <= 1
  /\ Cardinality(Held(contents')) <= MaxHeld
  /\ answer' = None
  /\ UNCHANGED now

Pass ==
  /\ now' = now + 1
  /\ contents' = [k \in Key |-> IF contents[k] # None /\ now' - contents[k].at <= Ttl
                                  THEN contents[k] ELSE None]
  /\ UNCHANGED answer

Next == Pass \/ \E k \in Key : Get(k) \/ \E v \in Value : Put(k, v)

Spec == Init /\ [][Next]_vars

============================================================================
