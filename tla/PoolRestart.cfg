SPECIFICATION Spec
CONSTANTS
  Render <- TwoCalls
  Max = 1
  MaxCloses = 0
  r1 = r1
  r2 = r2
  r3 = r3
  r4 = r4
INVARIANT RestartAfterCrash
