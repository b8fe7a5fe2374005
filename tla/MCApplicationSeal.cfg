SPECIFICATION Spec
CONSTANTS
  p1 = p1
  p2 = p2
  p3 = p3
  h1 = h1
  h2 = h2
  Proc = {p1, p2}
  MayCall <- ServeAndShutdown
  Handler = {h1, h2}
  Proto <- GRPCAndWebSocket
INVARIANT ShutdownNilReleases
CHECK_DEADLOCK FALSE
