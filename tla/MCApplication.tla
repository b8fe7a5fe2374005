--------------------------- MODULE MCApplication ---------------------------
(* Instances of Application for TLC. *)
EXTENDS Application, TLC

CONSTANTS p1, p2, p3, h1, h2

\* Three goroutines that may call anything.
AnyCall == [p \in {p1, p2, p3} |-> {"ApplyAll", "Serve", "Shutdown"}]
\* One Shutdown, and a Serve or another Shutdown.
ServeAndShutdown == p1 :> {"Serve", "Shutdown"} @@ p2 :> {"Shutdown"}

\* One Shutdown beside any other call; an embedded Engine needs the ApplyAll.
CallAndShutdown == p1 :> AnyCall[p1] @@ p2 :> {"Shutdown"}

GRPCAndWebSocket == h1 :> "grpc" @@ h2 :> "ws"

Symmetry == Permutations({p1, p2, p3})
=============================================================================
