SPECIFICATION Spec
CONSTANTS
  N = 3
  Kind <- MixedKinds
  Prestarted = {}
  Retired = {}
  Proc = {p1, p2, p3}
  NoProc = NoProc
SYMMETRY Symmetry
INVARIANTS IInv StopNilMeansDown RetryFindsAllDown TerminalErrorKept
PROPERTIES StoppedIsFinal OrderKept
