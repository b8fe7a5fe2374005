SPECIFICATION Spec
CONSTANTS
  Proc = {p1, p2, p3}
  Nobody = Nobody
  N = 2
  Files <- Prefixes
  NonTx <- SecondNonTx
SYMMETRY Symmetry
CHECK_DEADLOCK FALSE
INVARIANTS IInv OneRunner HistoryTruthful AppliedInOrder NilMeansHeld OneExecution
PROPERTY UpNilMeansApplied
