--------------------------- MODULE MCHeadlessPool ---------------------------
(* Values for the constants of HeadlessPool. *)
EXTENDS HeadlessPool

CONSTANTS r1, r2, r3, r4

TwoCalls == {r1, r2}
FourCalls == {r1, r2, r3, r4}

\* Without what a call will return, which no action reads, and the observation of it.
NoOutcomes == <<available, sem, process, pc, on, closes, closing, overlaps>>
=============================================================================
