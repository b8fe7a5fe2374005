SPECIFICATION FairSpec
CONSTANTS
  N = 3
  Kind <- MixedKinds
  Prestarted = {1, 2}
  Retired = {1}
  Proc = {p1, p2}
  NoProc = NoProc
PROPERTIES StartedMeansUp StopReturns StartReturns
