----------------------------- MODULE WebSockets -----------------------------
(***************************************************************************)
(* The WebSocket handler that HandleWSE installs (pkg/bear/bear.go), with   *)
(* the connection slots of the runtime (runtime.go) and the heartbeat       *)
(* (websocket.go).  What the handler acquires it releases with defers, in   *)
(* reverse order: OnClose, heartbeat, connection, slot.  The module         *)
(* Application has the same connections' part in a shutdown.                *)
(***************************************************************************)
EXTENDS Naturals, FiniteSets

CONSTANTS
  Sockets,        \* requests for a WebSocket route
  MaxConnections  \* the policy's limit; 0 is no limit

ASSUME SocketsAssumption == MaxConnections \in Nat /\ IsFiniteSet(Sockets)

VARIABLES
  slots,      \* Runtime.webSocketConnections
  observed,   \* per request, the counter it read before its compare and swap
  closing,    \* Runtime.hijackedClosing
  socket,     \* per request, where its handler is
  heartbeat,  \* per request, its heartbeat goroutine: "none", "on" or "ended"
  peer,       \* per request, its client: "alive", "silent" or closed
  calls       \* history per request: OnConnect succeeded, OnClose ran

socketVars == <<slots, observed, closing, socket, heartbeat, peer, calls>>

SocketPlaces == {"idle", "asked", "acquiring", "upgrading", "upgraded", "connecting", "reading",
                 "onClose", "stopHeartbeat", "close", "release", "returned"}
HoldsSlot == {"upgrading", "upgraded", "connecting", "reading", "onClose", "stopHeartbeat",
              "close", "release"}

SocketsTypeOK ==
  /\ slots \in 0 .. Cardinality(Sockets) /\ closing \in BOOLEAN
  /\ observed \in [Sockets -> 0 .. Cardinality(Sockets)]
  /\ socket \in [Sockets -> SocketPlaces]
  /\ heartbeat \in [Sockets -> {"none", "on", "ended"}]
  /\ peer \in [Sockets -> {"alive", "silent", "closed"}]
  /\ calls \in [Sockets -> SUBSET {"OnConnect", "OnClose"}]

SocketsInit ==
  /\ slots = 0 /\ closing = FALSE
  /\ observed = [s \in Sockets |-> 0]
  /\ socket = [s \in Sockets |-> "idle"] /\ heartbeat = [s \in Sockets |-> "none"]
  /\ peer = [s \in Sockets |-> "alive"] /\ calls = [s \in Sockets |-> {}]

Goes(s, from, to) == socket[s] = from /\ socket' = [socket EXCEPT ![s] = to]

\* The request fairings let it pass, or answer it themselves.
SocketArrives(s) ==
  /\ \E to \in {"asked", "returned"} : Goes(s, "idle", to)
  /\ UNCHANGED <<slots, observed, closing, heartbeat, peer, calls>>

ChecksShutdown(s) ==
  /\ Goes(s, "asked", IF closing THEN "returned" ELSE "acquiring")
  /\ observed' = [observed EXCEPT ![s] = slots]
  /\ UNCHANGED <<slots, closing, heartbeat, peer, calls>>

\* Without a limit connections are not counted.
Counting(n) == IF MaxConnections = 0 THEN 0 ELSE n

\* acquireWebSocketConnection: refuse at the limit, else swap or look again.
Acquire(s) ==
  /\ \/ /\ MaxConnections > 0 /\ observed[s] >= MaxConnections
        /\ Goes(s, "acquiring", "returned") /\ UNCHANGED <<slots, observed>>
     \/ /\ MaxConnections = 0 \/ observed[s] < MaxConnections
        /\ IF MaxConnections = 0 \/ observed[s] = slots
           THEN /\ Goes(s, "acquiring", "upgrading") /\ slots' = Counting(slots + 1)
                /\ UNCHANGED observed
           ELSE Goes(s, "acquiring", "acquiring")
                /\ observed' = [observed EXCEPT ![s] = slots] /\ UNCHANGED slots
  /\ UNCHANGED <<closing, heartbeat, peer, calls>>

\* A failed upgrade, a shutdown that came first, or a deadline that cannot be
\* set end the handler; the connection itself is then closed if there is one.
Upgrade(s) ==
  /\ \E to \in {"upgraded", "release"} : Goes(s, "upgrading", to)
  /\ UNCHANGED <<slots, observed, closing, heartbeat, peer, calls>>

Track(s) ==
  /\ \/ closing /\ Goes(s, "upgraded", "release") /\ UNCHANGED heartbeat
     \/ ~closing /\ Goes(s, "upgraded", "close") /\ UNCHANGED heartbeat
     \/ ~closing /\ Goes(s, "upgraded", "connecting")
        /\ heartbeat' = [heartbeat EXCEPT ![s] = "on"]
  /\ UNCHANGED <<slots, observed, closing, peer, calls>>

Connect(s) ==
  /\ \/ Goes(s, "connecting", "stopHeartbeat") /\ UNCHANGED calls
     \/ Goes(s, "connecting", "reading") /\ calls' = [calls EXCEPT ![s] = {"OnConnect"}]
  /\ UNCHANGED <<slots, observed, closing, heartbeat, peer>>

\* A read error: the client closed, a pong did not come in time, or the sweep
\* of a shutdown closed the connection.  A panic of OnMessage ends here, too.
ReadEnds(s) ==
  /\ peer[s] # "alive" \/ closing
  /\ Goes(s, "reading", "onClose")
  /\ UNCHANGED <<slots, observed, closing, heartbeat, peer, calls>>

SocketPanics(s) ==
  /\ Goes(s, "reading", "onClose")
  /\ UNCHANGED <<slots, observed, closing, heartbeat, peer, calls>>

OnClose(s) ==
  /\ Goes(s, "onClose", "stopHeartbeat")
  /\ calls' = [calls EXCEPT ![s] = @ \cup {"OnClose"}]
  /\ UNCHANGED <<slots, observed, closing, heartbeat, peer>>

\* stopHeartbeat closes the channel and waits for the goroutine to end.
HeartbeatStopped(s) ==
  /\ heartbeat[s] = "ended"
  /\ Goes(s, "stopHeartbeat", "close")
  /\ UNCHANGED <<slots, observed, closing, heartbeat, peer, calls>>

\* The goroutine ends when it is told to, or when a ping cannot be written.
HeartbeatEnds(s) ==
  /\ heartbeat[s] = "on"
  /\ socket[s] = "stopHeartbeat" \/ peer[s] # "alive" \/ closing
  /\ heartbeat' = [heartbeat EXCEPT ![s] = "ended"]
  /\ UNCHANGED <<slots, observed, closing, socket, peer, calls>>

CloseConnection(s) ==
  /\ Goes(s, "close", "release")
  /\ UNCHANGED <<slots, observed, closing, heartbeat, peer, calls>>

ReleaseSlot(s) ==
  /\ Goes(s, "release", "returned")
  /\ slots' = Counting(slots - 1)
  /\ UNCHANGED <<observed, closing, heartbeat, peer, calls>>

PeerGoes(s) ==
  /\ peer[s] = "alive"
  /\ \E how \in {"silent", "closed"} : peer' = [peer EXCEPT ![s] = how]
  /\ UNCHANGED <<slots, observed, closing, socket, heartbeat, calls>>

\* beginHijackedShutdown, and the sweep that follows it.
BeginHijackedShutdown ==
  /\ ~closing /\ closing' = TRUE
  /\ UNCHANGED <<slots, observed, socket, heartbeat, peer, calls>>

SocketHandler(s) ==
  \/ ChecksShutdown(s) \/ Acquire(s) \/ Upgrade(s) \/ Track(s) \/ Connect(s) \/ ReadEnds(s)
  \/ OnClose(s) \/ HeartbeatStopped(s) \/ CloseConnection(s) \/ ReleaseSlot(s)

SocketsNext ==
  \/ BeginHijackedShutdown
  \/ \E s \in Sockets : SocketArrives(s) \/ SocketHandler(s) \/ SocketPanics(s)
                        \/ HeartbeatEnds(s) \/ PeerGoes(s)

(* Where there is a limit, a slot is counted for exactly the handlers between
   acquire and release, never more than the limit; and a handler that returned
   has ended its heartbeat and paired OnConnect with OnClose (HandleWSE).    *)
SlotsAreConnections ==
  /\ slots = Counting(Cardinality({s \in Sockets : socket[s] \in HoldsSlot}))
  /\ MaxConnections > 0 => slots <= MaxConnections
  /\ \A s \in Sockets : socket[s] = "returned" =>
       /\ heartbeat[s] # "on"
       /\ "OnConnect" \in calls[s] <=> "OnClose" \in calls[s]

\* The heartbeat runs from Track to stopHeartbeat, and the controller is between
\* OnConnect and OnClose just while its handler reads or is about to close.
DefersPending ==
  \A s \in Sockets :
    /\ heartbeat[s] = "on" =>
         socket[s] \in {"connecting", "reading", "onClose", "stopHeartbeat"}
    /\ calls[s] = {"OnConnect"} <=> socket[s] \in {"reading", "onClose"}
    /\ "OnClose" \in calls[s] => "OnConnect" \in calls[s]
    /\ socket[s] \notin {"reading", "onClose", "stopHeartbeat", "close", "release", "returned"}
         => calls[s] = {}

SocketsIInv == SocketsTypeOK /\ DefersPending /\ SlotsAreConnections
=============================================================================
