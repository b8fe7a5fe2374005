SPECIFICATION CompatSpec
CONSTANTS
  Components = 3
  PrestartedHooks = {1, 2}
  RetiredHooks = {}
  LifecycleCallers = {s1, s2}
SYMMETRY Symmetry
INVARIANT StopNilMeansShutDown
CHECK_DEADLOCK FALSE
