SPECIFICATION FairSpec
CONSTANTS
  Render <- FourCalls
  Max = 2
  MaxCloses = 2
  r1 = r1
  r2 = r2
  r3 = r3
  r4 = r4
INVARIANTS PermitsConserved QueueIsWaiting BrowsersOwed
PROPERTIES NoOvertaking EveryRenderEnds
VIEW NoOutcomes
