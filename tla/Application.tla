---------------------------- MODULE Application ----------------------------
(***************************************************************************)
(* How one Bear application is built, served and shut down (strict mode,   *)
(* pkg/bear/bear.go): goroutines call ApplyAll, Serve and Shutdown at any  *)
(* time, while HTTP, gRPC and WebSocket handlers run in goroutines of      *)
(* their own and may ignore cancellation for ever.  What matters is when   *)
(* the resources of the lifecycle are open, who may still be using them    *)
(* and what a nil result promises.                                         *)
(*                                                                         *)
(* The lifecycle is represented by what Lifecycle.tla establishes of Start *)
(* and Stop: one operation at a time, a Start that rolls back, a Stop that *)
(* completes or is left incomplete at its deadline.                        *)
(***************************************************************************)
EXTENDS Integers

CONSTANTS
  Proc,      \* goroutines; each makes one call
  MayCall,   \* MayCall[p]: among "ApplyAll", "Serve" and "Shutdown"
  Handler,   \* requests
  Proto      \* Proto[h]: "http", "ws" (a WebSocket route) or "grpc"

Tracker(h) == IF Proto[h] = "grpc" THEN "grpc" ELSE "http"
GRPCEnabled == \E h \in Handler : Proto[h] = "grpc"
Transport == IF GRPCEnabled THEN {"http", "grpc"} ELSE {"http"}

ASSUME ApplicationAssumption ==
  /\ MayCall \in [Proc -> SUBSET {"ApplyAll", "Serve", "Shutdown"}]
  /\ Proto \in [Handler -> {"http", "ws", "grpc"}]

VARIABLES
  \* Bear.servingMu
  serving, served, shutdownRequested,
  serveErr,         \* the Serve that released the application failed
  \* Bear.applyMu
  applyState,       \* "new", "running", "succeeded", "failed"
  applyErr,         \* the cached error: "nil", "ctx" (only a context error), "err"
  \* Lifecycle, as Lifecycle.tla has it
  lc,               \* its state
  stopErr,          \* a component's shutdown failed
  resources,        \* "none", "on", "closing", "closed"
  \* trackers, sockets and connections
  closed,           \* the trackers that no longer accept handlers
  activeGRPCServer, \* Bear.activeGRPCServer # nil
  handlersUnsafe,
  hijackedClosing, hijacked,
  handler,          \* what each request is doing
  launched,         \* the listeners have been bound
  clock,            \* Serve's budget: "none", "drain", "forced", "over"
  drained,          \* transports whose server has shut down
  swept,            \* the hijacked connections have been closed
  \* the calls
  call,             \* what each goroutine called
  pc, stage, err, ret, ctxDone,
  \* the application, fixed at the start
  embedded,         \* its Engine runs in somebody else's HTTP server
  prestarted        \* it owns a resource opened before ApplyAll

servingVars == <<serving, served, shutdownRequested, serveErr>>
applyVars == <<applyState, applyErr>>
lcVars == <<lc, stopErr, resources>>
trackVars == <<closed, activeGRPCServer, handlersUnsafe>>
wsVars == <<hijackedClosing, hijacked, swept>>
drainVars == <<launched, clock, drained>>
callVars == <<call, pc, stage, err, ret, ctxDone>>
fixedVars == <<embedded, prestarted>>
vars == <<servingVars, applyVars, lcVars, trackVars, wsVars, handler,
          drainVars, callVars, fixedVars>>

Active == {h \in Handler : handler[h] \in {"active", "upgrading", "open"}}
\* Connections that http.Server.Shutdown waits for: not the hijacked ones.
Busy(t) == {h \in Active : Tracker(h) = t /\ handler[h] # "open"}

-----------------------------------------------------------------------------
Init ==
  /\ serving = FALSE /\ served = FALSE /\ shutdownRequested = FALSE
  /\ serveErr = FALSE
  /\ applyState = "new" /\ applyErr = "nil"
  /\ embedded \in BOOLEAN /\ prestarted \in BOOLEAN
  /\ lc = "new" /\ stopErr = FALSE
  /\ resources = IF prestarted THEN "on" ELSE "none"
  /\ closed = {} /\ activeGRPCServer = FALSE /\ handlersUnsafe = FALSE
  /\ hijackedClosing = FALSE /\ hijacked = {} /\ swept = FALSE
  /\ handler = [h \in Handler |-> "none"]
  /\ launched = FALSE /\ clock = "none" /\ drained = {}
  /\ call = [p \in Proc |-> "none"]
  /\ pc = [p \in Proc |-> "idle"]
  /\ stage = [p \in Proc |-> "none"]
  /\ err = [p \in Proc |-> "nil"]
  /\ ret = [p \in Proc |-> "none"]
  /\ ctxDone = [p \in Proc |-> FALSE]

Callers(op) == {p \in Proc : call[p] = op}

\* p calls op and is at its step k.
Enter(p, op, k) ==
  /\ pc[p] = "idle" /\ op \in MayCall[p]
  /\ call' = [call EXCEPT ![p] = op]
  /\ pc' = [pc EXCEPT ![p] = k]
  /\ UNCHANGED <<stage, err, ret>>

\* p's call goes on at step k with the error e so far.
Goto(p, k, e) ==
  /\ pc' = [pc EXCEPT ![p] = k]
  /\ err' = [err EXCEPT ![p] = e]
  /\ UNCHANGED <<call, stage, ret, ctxDone>>

Return(p, result) ==
  /\ pc' = [pc EXCEPT ![p] = "returned"]
  /\ ret' = [ret EXCEPT ![p] = result]
  /\ err' = [err EXCEPT ![p] = "nil"]
  /\ ctxDone' = [ctxDone EXCEPT ![p] = FALSE]
  /\ UNCHANGED <<call, stage>>

\* Where a call looks at its context; cancelling it elsewhere is seen there.
HeedsContext(p) ==
  \/ pc[p] \in {"apply", "applyWait", "applyBuild", "applyStart", "starting",
                "serve", "waitServe", "waitActive"}
  \/ stage[p] = "shutdown" /\ pc[p] \in {"stop", "stopping"}

\* The parent context of a call is cancelled or its deadline passes.
CancelContext(p) ==
  /\ ~ ctxDone[p] /\ HeedsContext(p)
  /\ ctxDone' = [ctxDone EXCEPT ![p] = TRUE]
  /\ UNCHANGED <<servingVars, applyVars, lcVars, trackVars, wsVars, handler,
                 drainVars, call, pc, stage, err, ret, fixedVars>>

-----------------------------------------------------------------------------
(* The trackers and the handlers.                                          *)

Reachable(h) ==
  launched \/ (embedded /\ Proto[h] # "grpc" /\ applyState = "succeeded")

HandlerBegins(h) ==
  /\ handler[h] = "none" /\ Reachable(h)
  /\ handler' = [handler EXCEPT ![h] =
                   IF Tracker(h) \in closed THEN "rejected" ELSE "active"]
  /\ UNCHANGED <<servingVars, applyVars, lcVars, trackVars, wsVars, drainVars,
                 callVars, fixedVars>>

HandlerEndsTracked(h) ==
  /\ h \in Active
  /\ handler' = [handler EXCEPT ![h] = "ended"]
  /\ UNCHANGED <<servingVars, applyVars, lcVars, trackVars, wsVars, drainVars,
                 callVars, fixedVars>>

\* Whatever the handler was doing; its deferred calls untrack the connection.
HandlerEnds(h) ==
  /\ h \in Active
  /\ handler' = [handler EXCEPT ![h] = "ended"]
  /\ hijacked' = hijacked \ {h}
  /\ UNCHANGED <<servingVars, applyVars, lcVars, trackVars, hijackedClosing,
                 swept, drainVars, callVars, fixedVars>>

\* hijackedShutdownStarted is read before the upgrade ...
UpgradeBegins(h) ==
  /\ Proto[h] = "ws" /\ handler[h] = "active"
  /\ handler' = [handler EXCEPT ![h] =
                   IF hijackedClosing THEN "ended" ELSE "upgrading"]
  /\ UNCHANGED <<servingVars, applyVars, lcVars, trackVars, wsVars, drainVars,
                 callVars, fixedVars>>

TrackHijackedUnchecked(h) ==
  /\ handler[h] = "upgrading"
  /\ handler' = [handler EXCEPT ![h] = "open"]
  /\ hijacked' = hijacked \cup {h}
  /\ UNCHANGED <<servingVars, applyVars, lcVars, trackVars, hijackedClosing,
                 swept, drainVars, callVars, fixedVars>>

\* ... and again, under hijackedMu, once the connection is upgraded.
TrackHijacked(h) ==
  /\ handler[h] = "upgrading"
  /\ handler' = [handler EXCEPT ![h] =
                   IF hijackedClosing THEN "ended" ELSE "open"]
  /\ hijacked' = IF hijackedClosing THEN hijacked ELSE hijacked \cup {h}
  /\ UNCHANGED <<servingVars, applyVars, lcVars, trackVars, hijackedClosing,
                 swept, drainVars, callVars, fixedVars>>

-----------------------------------------------------------------------------
(* Lifecycle.Start and Lifecycle.Stop as one caller sees them.             *)

\* The deadline under which p stops the lifecycle has passed.  Rollback and
\* cleanup have a timeout of their own, which may pass at any moment.
StopDeadline(p) ==
  CASE stage[p] = "shutdown" -> ctxDone[p]
    [] stage[p] = "drain" -> clock = "over"
    [] OTHER -> TRUE

\* Lifecycle.Stop returned to p: failed or not.
AfterStop(p, failed) ==
  LET e == IF failed THEN "err" ELSE err[p] IN
  CASE stage[p] = "shutdown" ->
         /\ Return(p, IF failed THEN "err" ELSE "nil")
         /\ UNCHANGED <<servingVars, trackVars>>
    [] stage[p] = "drain" ->
         /\ Goto(p, "waitServers", e)
         /\ activeGRPCServer' = FALSE /\ handlersUnsafe' = FALSE
         /\ UNCHANGED <<servingVars, closed>>
    [] stage[p] = "launch" ->
         /\ Return(p, "err")
         /\ serving' = FALSE /\ serveErr' = TRUE
         /\ UNCHANGED <<served, shutdownRequested, trackVars>>
    [] OTHER ->
         /\ Goto(p, "applyEnd", e)
         /\ UNCHANGED <<servingVars, trackVars>>

StopAnswered(p) ==
  /\ pc[p] = "stop" /\ lc = "stopped"
  /\ AfterStop(p, stopErr)
  /\ UNCHANGED <<applyVars, lcVars, wsVars, handler, drainVars, fixedVars>>

\* Another operation is under way and outlasts p's deadline.
StopExpired(p) ==
  /\ pc[p] = "stop" /\ lc \in {"starting", "stopping"} /\ StopDeadline(p)
  /\ AfterStop(p, TRUE)
  /\ UNCHANGED <<applyVars, lcVars, wsVars, handler, drainVars, fixedVars>>

StopBegin(p) ==
  /\ pc[p] = "stop" /\ lc \in {"new", "started"}
  /\ lc' = "stopping"
  /\ resources' = "closing"
  /\ Goto(p, "stopping", err[p])
  /\ UNCHANGED <<servingVars, applyVars, stopErr, trackVars, wsVars, handler,
                 drainVars, fixedVars>>

StopCompletes(p, failed) ==
  /\ pc[p] = "stopping"
  /\ lc' = "stopped" /\ stopErr' = failed /\ resources' = "closed"
  /\ AfterStop(p, failed)
  /\ UNCHANGED <<applyVars, wsVars, handler, drainVars, fixedVars>>

StopIncompleteAsNil(p) ==
  /\ pc[p] = "stopping" /\ StopDeadline(p)
  /\ lc' = "started"
  /\ AfterStop(p, FALSE)
  /\ UNCHANGED <<applyVars, stopErr, resources, wsVars, handler, drainVars,
                 fixedVars>>

StopIncomplete(p) ==
  /\ pc[p] = "stopping" /\ StopDeadline(p)
  /\ lc' = "started"
  /\ AfterStop(p, TRUE)
  /\ UNCHANGED <<applyVars, stopErr, resources, wsVars, handler, drainVars,
                 fixedVars>>

\* Serve and ApplyAll run Stop in a goroutine and leave it at the deadline ...
StopAbandoned(p) ==
  /\ pc[p] = "stopping" /\ stage[p] # "shutdown" /\ StopDeadline(p)
  /\ AfterStop(p, TRUE)
  /\ UNCHANGED <<applyVars, lcVars, wsVars, handler, drainVars, fixedVars>>

\* ... where it completes, or gives up, a moment later.
AbandonedStopEnds(complete, failed) ==
  /\ lc = "stopping" /\ \A p \in Proc : pc[p] # "stopping"
  /\ IF complete
     THEN lc' = "stopped" /\ stopErr' = failed /\ resources' = "closed"
     ELSE lc' = "started" /\ UNCHANGED <<stopErr, resources>>
  /\ UNCHANGED <<servingVars, applyVars, trackVars, wsVars, handler, drainVars,
                 callVars, fixedVars>>

-----------------------------------------------------------------------------
(* ApplyAll, called directly or by Serve.                                  *)

UnchangedByApply == UNCHANGED <<servingVars, trackVars, wsVars, handler,
                                drainVars, fixedVars>>

Cached == applyState \in {"succeeded", "failed"}
CachedErr == IF applyState = "failed" THEN applyErr ELSE "nil"

CallApplyAll(p) ==
  /\ Enter(p, "ApplyAll", "apply") /\ UNCHANGED ctxDone
  /\ UNCHANGED <<applyVars, lcVars>> /\ UnchangedByApply

\* cachedApplyResult
ApplyCached(p) ==
  /\ pc[p] \in {"apply", "applyClosed"} /\ Cached
  /\ Goto(p, "applied", CachedErr)
  /\ UNCHANGED <<applyVars, lcVars>> /\ UnchangedByApply

\* closePluginRegistration refuses a context that is already done.
ApplyClose(p) ==
  /\ pc[p] = "apply" /\ ~ Cached
  /\ IF ctxDone[p] THEN Goto(p, "applied", "ctx")
                   ELSE Goto(p, "applyClosed", "nil")
  /\ UNCHANGED <<applyVars, lcVars>> /\ UnchangedByApply

ApplyRuns(p) ==
  /\ pc[p] = "applyClosed" /\ applyState = "new"
  /\ applyState' = "running" /\ applyErr' = "nil"
  /\ Goto(p, "applyBuild", "nil")
  /\ UNCHANGED lcVars /\ UnchangedByApply

ApplyJoins(p) ==
  /\ pc[p] = "applyClosed" /\ applyState = "running"
  /\ Goto(p, "applyWait", "nil")
  /\ UNCHANGED <<applyVars, lcVars>> /\ UnchangedByApply

ApplyWaitExpired(p) ==
  /\ pc[p] = "applyWait" /\ ctxDone[p]
  /\ Goto(p, "applied", "ctx")
  /\ UNCHANGED <<applyVars, lcVars>> /\ UnchangedByApply

Built(p) ==
  /\ pc[p] = "applyBuild"
  /\ Goto(p, "applyStart", "nil")
  /\ UNCHANGED <<applyVars, lcVars>> /\ UnchangedByApply

\* The build or the authentication policy fails: the deferred rollback stops
\* the lifecycle.
BuildFails(p, e) ==
  /\ pc[p] = "applyBuild" /\ (e = "ctx" => ctxDone[p])
  /\ pc' = [pc EXCEPT ![p] = "stop"]
  /\ stage' = [stage EXCEPT ![p] = "apply"]
  /\ err' = [err EXCEPT ![p] = e]
  /\ UNCHANGED <<call, ret, ctxDone, applyVars, lcVars>> /\ UnchangedByApply

StartAnswered(p) ==
  /\ pc[p] = "applyStart" /\ lc \in {"started", "stopped"}
  /\ Goto(p, "applyEnd", IF lc = "started" THEN "nil" ELSE "err")
  /\ UNCHANGED <<applyVars, lcVars>> /\ UnchangedByApply

StartExpired(p) ==
  /\ pc[p] = "applyStart" /\ lc = "stopping" /\ ctxDone[p]
  /\ Goto(p, "applyEnd", "ctx")
  /\ UNCHANGED <<applyVars, lcVars>> /\ UnchangedByApply

StartBegin(p) ==
  /\ pc[p] = "applyStart" /\ lc = "new"
  /\ lc' = "starting" /\ resources' = "on"
  /\ Goto(p, "starting", "nil")
  /\ UNCHANGED <<applyVars, stopErr>> /\ UnchangedByApply

StartSucceeds(p) ==
  /\ pc[p] = "starting"
  /\ lc' = "started"
  /\ Goto(p, "applyEnd", "nil")
  /\ UNCHANGED <<applyVars, stopErr, resources>> /\ UnchangedByApply

\* The rollback is clean, ends with an error, or is incomplete at its deadline.
StartFails(p, e, rollback) ==
  /\ pc[p] = "starting" /\ (e = "ctx" => ctxDone[p])
  /\ stopErr' = (rollback = "error")
  /\ Goto(p, "applyEnd", IF rollback = "clean" THEN e ELSE "err")
  /\ CASE rollback = "incomplete" -> lc' = "started" /\ resources' = "closing"
       [] rollback = "clean" /\ ~ prestarted ->
            lc' = "new" /\ resources' = "none"
       [] OTHER -> lc' = "stopped" /\ resources' = "closed"
  /\ UNCHANGED applyVars /\ UnchangedByApply

\* The result is recorded (a lifecycle that is "new" again can be retried) and
\* everyone who joined the attempt gets it.
ApplyEnd(p) ==
  /\ pc[p] = "applyEnd"
  /\ applyState' = CASE err[p] = "nil" -> "succeeded"
                     [] err[p] # "nil" /\ lc = "new" -> "new"
                     [] OTHER -> "failed"
  /\ applyErr' = err[p]
  /\ pc' = [q \in Proc |-> IF q = p \/ pc[q] = "applyWait"
                           THEN "applied" ELSE pc[q]]
  /\ err' = [q \in Proc |-> IF pc[q] = "applyWait" THEN err[p] ELSE err[q]]
  /\ UNCHANGED <<call, stage, ret, ctxDone, lcVars>> /\ UnchangedByApply

ApplierReturns(p) ==
  /\ call[p] = "ApplyAll" /\ pc[p] = "applied"
  /\ Return(p, IF err[p] = "nil" THEN "nil" ELSE "err")
  /\ UNCHANGED <<applyVars, lcVars>> /\ UnchangedByApply

-----------------------------------------------------------------------------
(* Serve.                                                                  *)

UnchangedByServe == UNCHANGED <<applyVars, lcVars, handler, fixedVars>>

ServeRefused(s) ==
  /\ ~ embedded
  /\ serving \/ served \/ shutdownRequested
  /\ pc[s] = "idle" /\ "Serve" \in MayCall[s]
  /\ call' = [call EXCEPT ![s] = "Serve"]
  /\ pc' = [pc EXCEPT ![s] = "returned"]
  /\ ret' = [ret EXCEPT ![s] = "refused"]
  /\ UNCHANGED <<stage, err, ctxDone>>
  /\ UNCHANGED <<servingVars, trackVars, wsVars, drainVars>> /\ UnchangedByServe

AcquireServing(s) ==
  /\ ~ embedded
  /\ ~ (serving \/ served \/ shutdownRequested)
  /\ serving' = TRUE /\ serveErr' = FALSE
  /\ Enter(s, "Serve", "apply") /\ UNCHANGED ctxDone
  /\ UNCHANGED <<served, shutdownRequested, trackVars, wsVars, drainVars>>
  /\ UnchangedByServe

\* releaseServing closes serveDone; Shutdown reads serveErr.
ReleaseServing(s, failed) ==
  /\ serving' = FALSE /\ serveErr' = failed
  /\ Return(s, IF failed THEN "err" ELSE "nil")
  /\ UNCHANGED <<served, shutdownRequested>>

\* ApplyAll failed; when only because of the cancelled context, Serve returns nil.
ServeNotApplied(s) ==
  /\ call[s] = "Serve" /\ pc[s] = "applied" /\ err[s] # "nil"
  /\ ReleaseServing(s, ~ (ctxDone[s] /\ err[s] = "ctx"))
  /\ UNCHANGED <<trackVars, wsVars, drainVars>> /\ UnchangedByServe

MarkServed(s) ==
  /\ call[s] = "Serve" /\ pc[s] = "applied" /\ err[s] = "nil"
  /\ served' = TRUE
  /\ Goto(s, "launch", "nil")
  /\ UNCHANGED <<serving, shutdownRequested, serveErr, trackVars, wsVars,
                 drainVars>>
  /\ UnchangedByServe

\* gRPC cannot be built or a listener cannot be bound: cleanupLaunchFailure.
LaunchFails(s) ==
  /\ pc[s] = "launch"
  /\ pc' = [pc EXCEPT ![s] = "stop"]
  /\ stage' = [stage EXCEPT ![s] = "launch"]
  /\ err' = [err EXCEPT ![s] = "err"]
  /\ UNCHANGED <<call, ret, ctxDone, servingVars, trackVars, wsVars, drainVars>>
  /\ UnchangedByServe

Launch(s) ==
  /\ pc[s] = "launch"
  /\ activeGRPCServer' = GRPCEnabled /\ handlersUnsafe' = FALSE
  /\ launched' = TRUE
  /\ Goto(s, "serve", "nil")
  /\ UNCHANGED <<servingVars, closed, wsVars, clock, drained>>
  /\ UnchangedByServe

BeginDrainAccepting(s, e) ==
  /\ pc[s] = "serve" /\ (e = "nil" => ctxDone[s])
  /\ closed' = closed \cup {"grpc"}
  /\ clock' = "drain"
  /\ Goto(s, "drain", e)
  /\ UNCHANGED <<servingVars, activeGRPCServer, handlersUnsafe, wsVars,
                 launched, drained>>
  /\ UnchangedByServe

\* The context is done, or (e = "err") a server stopped on its own: no handler
\* begins any more and the budget of the shutdown starts to run.
BeginDrain(s, e) ==
  /\ pc[s] = "serve" /\ (e = "nil" => ctxDone[s])
  /\ closed' = closed \cup Transport
  /\ clock' = "drain"
  /\ Goto(s, "drain", e)
  /\ UNCHANGED <<servingVars, activeGRPCServer, handlersUnsafe, wsVars,
                 launched, drained>>
  /\ UnchangedByServe

\* Three quarters of the budget for draining, the rest for what follows.
Tick ==
  /\ \/ clock = "drain" /\ clock' = "forced"
     \/ clock = "forced" /\ clock' = "over"
  /\ UNCHANGED <<servingVars, applyVars, lcVars, trackVars, wsVars, handler,
                 launched, drained, callVars, fixedVars>>

DrainServers(s) ==
  /\ pc[s] = "drain"
  /\ hijackedClosing' = TRUE
  /\ Goto(s, "draining", err[s])
  /\ UNCHANGED <<servingVars, trackVars, hijacked, swept, drainVars>>
  /\ UnchangedByServe

\* One server shuts down gracefully or, at the drain deadline, by force; the
\* HTTP worker then closes the hijacked connections.
DrainServer(s, t) ==
  /\ pc[s] = "draining" /\ t \in Transport \ drained
  /\ Busy(t) = {} \/ clock # "drain"
  /\ drained' = drained \cup {t}
  /\ hijacked' = IF t = "http" THEN {} ELSE hijacked
  /\ swept' = (swept \/ t = "http")
  /\ Goto(s, "draining", IF Busy(t) = {} THEN err[s] ELSE "err")
  /\ UNCHANGED <<servingVars, trackVars, hijackedClosing, launched, clock>>
  /\ UnchangedByServe

Drained(s) ==
  /\ pc[s] = "draining" /\ drained = Transport
  /\ Goto(s, IF Active = {} THEN "drained" ELSE "waitHandlers", err[s])
  /\ UNCHANGED <<servingVars, trackVars, wsVars, drainVars>> /\ UnchangedByServe

HandlersGone(s) ==
  /\ pc[s] = "waitHandlers" /\ Active = {}
  /\ Goto(s, "drained", err[s])
  /\ UNCHANGED <<servingVars, trackVars, wsVars, drainVars>> /\ UnchangedByServe

HandlersRemainForever(s) ==
  /\ pc[s] = "waitHandlers" /\ clock = "none"
  /\ handlersUnsafe' = TRUE
  /\ Goto(s, "waitServers", "err")
  /\ UNCHANGED <<servingVars, closed, activeGRPCServer, wsVars, drainVars>>
  /\ UnchangedByServe

\* A handler outlives the budget: the resources are left open.
HandlersRemain(s) ==
  /\ pc[s] = "waitHandlers" /\ clock = "over"
  /\ handlersUnsafe' = TRUE
  /\ Goto(s, "waitServers", "err")
  /\ UNCHANGED <<servingVars, closed, activeGRPCServer, wsVars, drainVars>>
  /\ UnchangedByServe

StopLifecycle(s) ==
  /\ pc[s] = "drained" /\ clock # "over"
  /\ pc' = [pc EXCEPT ![s] = "stop"]
  /\ stage' = [stage EXCEPT ![s] = "drain"]
  /\ UNCHANGED <<call, err, ret, ctxDone, servingVars, trackVars, wsVars, drainVars>>
  /\ UnchangedByServe

\* runShutdownUntil: no time is left to stop the lifecycle.
StopSkipped(s) ==
  /\ pc[s] = "drained" /\ clock = "over"
  /\ activeGRPCServer' = FALSE /\ handlersUnsafe' = FALSE
  /\ Goto(s, "waitServers", "err")
  /\ UNCHANGED <<servingVars, closed, wsVars, drainVars>> /\ UnchangedByServe

\* The serving goroutines have returned, one of them perhaps with an error;
\* once the budget is over Serve does not wait and reports that.
ServeEnds(s, failed) ==
  /\ pc[s] = "waitServers" /\ (clock = "over" => failed)
  /\ ReleaseServing(s, failed \/ err[s] # "nil")
  /\ UNCHANGED <<trackVars, wsVars, drainVars>> /\ UnchangedByServe

-----------------------------------------------------------------------------
(* Shutdown.                                                               *)

UnchangedByShutdown == UNCHANGED <<applyVars, lcVars, handler, drainVars,
                                   fixedVars>>

\* While Serve runs: seal, refuse new handlers and cancel the context of Serve.
RequestDuringServe(c) ==
  /\ serving
  /\ Enter(c, "Shutdown", "waitServe")
  /\ shutdownRequested' = TRUE
  /\ closed' = closed \cup (IF activeGRPCServer THEN Transport ELSE {"http"})
  /\ ctxDone' = [p \in Proc |-> ctxDone[p] \/ (call[p] = "Serve" /\ pc[p] # "returned")]
  /\ UNCHANGED <<serving, served, serveErr, activeGRPCServer,
                 handlersUnsafe, wsVars>>
  /\ UnchangedByShutdown

ServeFinished(c) ==
  /\ pc[c] = "waitServe" /\ ~ serving
  /\ Return(c, IF serveErr THEN "err" ELSE "nil")
  /\ UNCHANGED <<servingVars, trackVars, wsVars>> /\ UnchangedByShutdown

ServeWaitExpired(c) ==
  /\ pc[c] = "waitServe" /\ ctxDone[c]
  /\ Return(c, "err")
  /\ UNCHANGED <<servingVars, trackVars, wsVars>> /\ UnchangedByShutdown

RequestUnsealed(c) ==
  /\ ~ serving
  /\ Enter(c, "Shutdown", "seal") /\ UNCHANGED ctxDone
  /\ UNCHANGED <<servingVars, trackVars, wsVars>> /\ UnchangedByShutdown

RequestShutdown(c) ==
  /\ ~ serving
  /\ Enter(c, "Shutdown", "seal") /\ UNCHANGED ctxDone
  /\ shutdownRequested' = TRUE
  /\ UNCHANGED <<serving, served, serveErr, trackVars, wsVars>>
  /\ UnchangedByShutdown

\* stopAccepting, then a first look at the trackers: handlers left over by a
\* forced shutdown get 25 ms, any other until the deadline.
SealTrackers(c) ==
  /\ pc[c] = "seal"
  /\ closed' = closed \cup (IF activeGRPCServer THEN Transport ELSE {"http"})
  /\ Goto(c, CASE Active = {} -> "release"
               [] Active # {} /\ handlersUnsafe -> "waitShort"
               [] OTHER -> "waitActive", "nil")
  /\ UNCHANGED <<servingVars, activeGRPCServer, handlersUnsafe, wsVars>>
  /\ UnchangedByShutdown

NoHandlers(c) ==
  /\ pc[c] \in {"waitShort", "waitActive"} /\ Active = {}
  /\ Goto(c, "release", "nil")
  /\ UNCHANGED <<servingVars, trackVars, wsVars>> /\ UnchangedByShutdown

StillActiveBriefly(c) ==
  /\ pc[c] = "waitShort"
  /\ Return(c, "err")
  /\ UNCHANGED <<servingVars, trackVars, wsVars>> /\ UnchangedByShutdown

\* The resources are retained.
StillActive(c) ==
  /\ pc[c] = "waitShort" \/ (pc[c] = "waitActive" /\ ctxDone[c])
  /\ Return(c, "err")
  /\ UNCHANGED <<servingVars, trackVars, wsVars>> /\ UnchangedByShutdown

ReleaseResources(c) ==
  /\ pc[c] = "release"
  /\ activeGRPCServer' = FALSE /\ handlersUnsafe' = FALSE
  /\ hijackedClosing' = TRUE /\ hijacked' = {} /\ swept' = TRUE
  /\ pc' = [pc EXCEPT ![c] = "stop"]
  /\ stage' = [stage EXCEPT ![c] = "shutdown"]
  /\ UNCHANGED <<call, err, ret, ctxDone, servingVars, closed>>
  /\ UnchangedByShutdown

-----------------------------------------------------------------------------
ApplyStep(p) ==
  \/ ApplyCached(p) \/ ApplyClose(p) \/ ApplyRuns(p) \/ ApplyJoins(p)
  \/ ApplyWaitExpired(p) \/ Built(p) \/ \E e \in {"ctx", "err"} : BuildFails(p, e)
  \/ StartAnswered(p) \/ StartExpired(p) \/ StartBegin(p) \/ StartSucceeds(p)
  \/ \E e \in {"ctx", "err"}, r \in {"clean", "error", "incomplete"} :
       StartFails(p, e, r)
  \/ ApplyEnd(p) \/ ApplierReturns(p)

StopStep(p) ==
  \/ StopAnswered(p) \/ StopExpired(p) \/ StopBegin(p) \/ StopIncomplete(p)
  \/ StopAbandoned(p) \/ \E failed \in BOOLEAN : StopCompletes(p, failed)

ServeStep(s) ==
  \/ ServeNotApplied(s) \/ MarkServed(s) \/ Launch(s) \/ LaunchFails(s)
  \/ \E e \in {"nil", "err"} : BeginDrain(s, e)
  \/ DrainServers(s) \/ \E t \in Transport : DrainServer(s, t)
  \/ Drained(s) \/ HandlersGone(s) \/ HandlersRemain(s)
  \/ StopLifecycle(s) \/ StopSkipped(s)
  \/ \E failed \in BOOLEAN : ServeEnds(s, failed)

ShutdownStep(c) ==
  \/ ServeFinished(c) \/ ServeWaitExpired(c) \/ SealTrackers(c)
  \/ NoHandlers(c) \/ StillActive(c) \/ ReleaseResources(c)

HandlerStep(h) ==
  \/ HandlerBegins(h) \/ HandlerEnds(h) \/ UpgradeBegins(h) \/ TrackHijacked(h)

Next ==
  \/ \E p \in Proc :
       \/ CallApplyAll(p) \/ ServeRefused(p) \/ AcquireServing(p)
       \/ RequestDuringServe(p) \/ RequestShutdown(p)
       \/ CancelContext(p)
       \/ ApplyStep(p) \/ ServeStep(p) \/ ShutdownStep(p) \/ StopStep(p)
  \/ \E h \in Handler : HandlerStep(h)
  \/ \E complete, failed \in BOOLEAN : AbandonedStopEnds(complete, failed)
  \/ Tick

Spec == Init /\ [][Next]_vars

\* Goroutines run, time passes (every Shutdown has a deadline), and modules,
\* initialisers and the scheduler do not hang; handlers and shutdowns may.
FairSpec ==
  /\ Spec
  /\ WF_vars(Tick)
  /\ \A p \in Proc :
       /\ WF_vars(call[p] = "Shutdown" /\ CancelContext(p))
       /\ WF_vars(ApplyStep(p))
       /\ WF_vars((pc[p] = "serve" => ctxDone[p]) /\ ServeStep(p))
       /\ WF_vars(ShutdownStep(p))
       /\ WF_vars(StopAnswered(p) \/ StopExpired(p) \/ StopBegin(p)
                  \/ StopIncomplete(p))
  /\ WF_vars(\E complete, failed \in BOOLEAN :
               AbandonedStopEnds(complete, failed))

-----------------------------------------------------------------------------
(* Properties.                                                             *)

\* The steps of a call: of ApplyAll, of a Serve that has been applied, of a
\* Shutdown that seals the application itself.
Applying == {"apply", "applyClosed", "applyWait", "applyBuild", "applyStart",
             "starting", "applyEnd", "applied"}
Draining == {"drain", "draining", "waitHandlers", "drained"}
Listening == {"launch", "serve", "waitServers"} \cup Draining
Sealing == {"seal", "waitShort", "waitActive", "release"}
Point == {"idle", "stop", "stopping", "waitServe", "returned"}
         \cup Applying \cup Listening \cup Sealing

\* Every variable has its type, and (runtime.go:108-116) the connections that are
\* tracked are those of running handlers that have one open.
TypeOK ==
  /\ serving \in BOOLEAN /\ served \in BOOLEAN /\ shutdownRequested \in BOOLEAN
  /\ serveErr \in BOOLEAN /\ embedded \in BOOLEAN /\ prestarted \in BOOLEAN
  /\ applyState \in {"new", "running", "succeeded", "failed"}
  /\ applyErr \in {"nil", "ctx", "err"}
  /\ lc \in {"new", "starting", "started", "stopping", "stopped"}
  /\ stopErr \in BOOLEAN
  /\ resources \in {"none", "on", "closing", "closed"}
  /\ closed \subseteq {"http", "grpc"} /\ drained \subseteq Transport
  /\ activeGRPCServer \in BOOLEAN /\ handlersUnsafe \in BOOLEAN
  /\ hijackedClosing \in BOOLEAN /\ swept \in BOOLEAN
  /\ hijacked \subseteq {h \in Active : handler[h] = "open"}
  /\ handler \in [Handler -> {"none", "active", "upgrading", "open", "ended",
                              "rejected"}]
  /\ launched \in BOOLEAN /\ clock \in {"none", "drain", "forced", "over"}
  /\ call \in [Proc -> {"none", "ApplyAll", "Serve", "Shutdown"}]
  /\ pc \in [Proc -> Point]
  /\ stage \in [Proc -> {"none", "apply", "launch", "drain", "shutdown"}]
  /\ err \in [Proc -> {"nil", "ctx", "err"}]
  /\ ret \in [Proc -> {"none", "nil", "err", "refused"}]
  /\ ctxDone \in [Proc -> BOOLEAN]

\* bear.go:510-535, 700-727: whoever stops the lifecycle, every handler that is
\* still running works with open resources; they are closed only after the last
\* one has returned.
HandlersHaveResources == Active # {} => resources = "on"

\* runtime.go:103-116, bear.go:1557-1608: a connection upgraded while the
\* application goes down is never left open behind the sweep.
NoConnectionEscapes == swept => hijacked = {}

\* bear.go:615-630, 681: an application that Shutdown has sealed, or that was
\* served before, is never served again on resources that are being closed:
\* the listeners are bound at most once and only with the resources open.
BindsWithResources ==
  [][launched' # launched => resources = "on" /\ ~ launched]_vars

\* bear.go:668-727: after a Shutdown that returned nil, be it that it stopped the
\* lifecycle itself or that it waited for a Serve that had been initialised, every
\* resource is closed for good.
ShutdownReleases ==
  \A c \in Callers("Shutdown") :
    ret[c] = "nil" /\ (served \/ stage[c] = "shutdown") => resources = "closed"

-----------------------------------------------------------------------------
(* What keeps these properties true: for the proofs, checked by TLC too.   *)

\* p stops the lifecycle for the reason k.
Stops(p, k) == pc[p] \in {"stop", "stopping"} /\ stage[p] = k

\* p carries out the one attempt of ApplyAll that is under way.
Attempts(p) ==
  pc[p] \in {"applyBuild", "applyStart", "starting", "applyEnd"} \/ Stops(p, "apply")

\* Serves that have not returned.
Serves == {s \in Callers("Serve") : pc[s] # "returned"}

\* c is the Shutdown that will stop the lifecycle.
Releases(c) == pc[c] \in Sealing \/ Stops(c, "shutdown")

\* Each call is at one of its own steps.
CallShape ==
  \A p \in Proc :
    /\ call[p] = "none" <=> pc[p] = "idle"
    /\ pc[p] \in Applying \/ Stops(p, "apply") => call[p] \in {"ApplyAll", "Serve"}
    /\ pc[p] \in Listening \/ Stops(p, "launch") \/ Stops(p, "drain") => call[p] = "Serve"
    /\ pc[p] = "waitServe" \/ Releases(p) => call[p] = "Shutdown"
    /\ pc[p] \in {"stop", "stopping"} => stage[p] # "none"
    /\ pc[p] \in {"idle", "waitServe"} \cup Sealing => stage[p] = "none"
    /\ ret[p] # "none" => pc[p] = "returned"

\* At most one Serve is under way, and one gets as far as its listeners.
OneServe ==
  /\ \A s \in Serves :
       /\ serving /\ ~ embedded
       /\ \A t \in Serves : t = s
       /\ pc[s] \in Applying \/ Stops(s, "apply") => ~ served
       /\ pc[s] \in Listening \/ Stops(s, "launch") \/ Stops(s, "drain") => served
       /\ pc[s] = "launch" \/ Stops(s, "launch") => ~ launched
  /\ launched => served
  /\ served => applyState = "succeeded" /\ ~ embedded

\* One attempt is under way at a time, and nil means that it succeeded.
OneAttempt ==
  /\ \A p \in Proc : Attempts(p) =>
       applyState = "running" /\ \A q \in Proc : Attempts(q) => q = p
  /\ \A p \in Proc : Stops(p, "apply") => err[p] # "nil"
  /\ \A p \in Proc : pc[p] = "applied" /\ err[p] = "nil" => applyState = "succeeded"
  /\ applyState = "failed" => applyErr # "nil"

\* One operation on the lifecycle at a time; its state says what is open.
OneOperation ==
  /\ \A p \in Proc : pc[p] = "starting" => lc = "starting"
  /\ \A p \in Proc : pc[p] = "stopping" =>
       lc = "stopping" /\ \A q \in Proc : pc[q] = "stopping" => q = p
  /\ lc = "new" => resources = IF prestarted THEN "on" ELSE "none"
  /\ lc = "starting" => resources = "on"
  /\ lc = "started" => resources \in {"on", "closing"}
  /\ lc = "stopping" => resources = "closing"
  /\ lc = "stopped" => resources = "closed"

\* Shutdown has closed the application: nothing is served any more.
Withdrawn == shutdownRequested /\ ~ serving /\ "http" \in closed

\* Until a Shutdown or the end of Serve closes them, the resources of an
\* application that has been applied are open.
OpenUntilWithdrawn ==
  /\ applyState = "new" => lc = "new" \/ Withdrawn
  /\ \A p \in Proc : pc[p] \in {"applyBuild", "applyStart"} => lc = "new" \/ Withdrawn
  /\ \A p \in Proc : pc[p] = "applyEnd" /\ err[p] = "nil" => resources = "on" \/ Withdrawn
  /\ applyState = "succeeded" =>
       \/ resources = "on" \/ Withdrawn
       \/ served /\ \A s \in Proc : pc[s] \notin {"launch", "serve"} \cup Draining

\* A Shutdown that stops the lifecycle has sealed the application before.
SealedFirst ==
  \A c \in Proc :
    /\ pc[c] = "waitServe" => shutdownRequested
    /\ Releases(c) \/ (call[c] = "Shutdown" /\ ret[c] = "nil") =>
         shutdownRequested /\ ~ serving
    /\ Releases(c) /\ pc[c] # "seal" => "http" \in closed

\* Whoever stops the lifecycle has waited for the handlers, and none can begin.
NoHandlerLeft ==
  /\ Active # {} => applyState = "succeeded" /\ (launched \/ embedded)
  /\ launched => Transport \subseteq closed \/ \E s \in Proc : pc[s] = "serve"
  /\ \A s \in Proc : pc[s] \in Draining \/ Stops(s, "drain") => Transport \subseteq closed
  /\ \A p \in Proc : pc[p] \in {"drained", "release"} \/ Stops(p, "drain") \/ Stops(p, "shutdown") =>
       Active = {}

\* The sweep comes after hijackedShutdownStarted.
SweepIsLast ==
  /\ \A s \in Proc : pc[s] = "draining" => hijackedClosing
  /\ swept => hijackedClosing

\* A nil result of Serve says that the lifecycle has been stopped.
ServeOutcome ==
  /\ \A s \in Proc : pc[s] = "waitServers" /\ err[s] = "nil" => lc = "stopped"
  /\ served /\ ~ serving /\ ~ serveErr => lc = "stopped"

IInv ==
  /\ TypeOK /\ CallShape /\ OneServe /\ OneAttempt /\ OneOperation
  /\ OpenUntilWithdrawn /\ SealedFirst /\ NoHandlerLeft /\ SweepIsLast /\ ServeOutcome
  /\ HandlersHaveResources /\ NoConnectionEscapes /\ ShutdownReleases

-----------------------------------------------------------------------------
\* bear.go:667 and docs/production.md:288-291: Shutdown releases the
\* resources of the application: when it returns nil, none is open.
ShutdownNilReleases ==
  (\E c \in Callers("Shutdown") : ret[c] = "nil") => resources \in {"none", "closed"}

\* bear.go:679-725: every Shutdown returns by its deadline, whatever Serve, the
\* handlers and the shutdowns of components do.
ShutdownReturns == \A c \in Proc : call[c] = "Shutdown" ~> pc[c] = "returned"

\* bear.go:515-555: a Serve whose context is cancelled returns within the
\* shutdown budget even if a handler or a component never does.
ServeReturns ==
  \A s \in Proc : (call[s] = "Serve" /\ ctxDone[s]) ~> pc[s] = "returned"
=============================================================================
