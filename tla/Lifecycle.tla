------------------------------ MODULE Lifecycle ------------------------------
(***************************************************************************)
(* The strict application lifecycle of pkg/bear/lifecycle.go: concurrent   *)
(* goroutines call Start and Stop on one Lifecycle, each call under a      *)
(* context of its own that may expire at any moment.  Components are       *)
(* initialised in registration order and shut down in the reverse order; a *)
(* failed initialisation rolls back; a shutdown that outlives the caller's *)
(* deadline keeps running in the background and a later Stop resumes it.   *)
(*                                                                         *)
(* Registration is closed while Start and Stop run, so the components are  *)
(* the constant 1..N, numbered in registration order.                      *)
(***************************************************************************)
EXTENDS Integers

CONSTANTS
  N,            \* number of registered components
  Kind,         \* Kind[c]: how c is shut down: "context", "legacy" or "plain"
  Prestarted,   \* components already running when they are registered
  Retired,      \* prestarted components whose bean was removed or replaced
  Proc,         \* goroutines that call Start and Stop
  NoProc        \* not a goroutine

Comp == 1 .. N

ASSUME LifecycleAssumption ==
  /\ N \in Nat
  /\ Kind \in [Comp -> {"context", "legacy", "plain"}]
  /\ Prestarted \subseteq Comp
  /\ Retired \subseteq Prestarted
  /\ NoProc \notin Proc

VARIABLES
  \* Lifecycle
  state,          \* "new", "starting", "started", "stopping", "stopped"
  startErr,       \* startErr # nil
  startRetryable, \* the last rollback left the lifecycle startable
  stopErr,        \* stopErr # nil
  \* lifecycleEntry, per component
  started, stopState, legacyStarted,
  \* lifecycleStopAttempt, per component
  attempt,        \* "none", "running", or the result "ok", "ctxerr", "error"
  attemptCtx,     \* the goroutine whose live context the attempt runs under
  \* one call of Start or Stop per goroutine
  pc, call, ret,
  ctxDone,        \* the context of the call has expired
  index,          \* the component the call is at
  startedHere,    \* this call started the attempt it waits for
  failed,         \* a shutdown finished with an error during this call
  \* the component itself, seen from outside
  comp            \* "off", "on" (Init called), "closing", "closed"

entryVars == <<started, stopState, legacyStarted>>
attemptVars == <<attempt, attemptCtx>>
resultVars == <<startErr, startRetryable, stopErr>>
callVars == <<pc, call, ret, ctxDone, index, startedHere, failed>>
vars == <<state, resultVars, entryVars, attemptVars, callVars, comp>>

Finished == {"stopped", "failed"}

-----------------------------------------------------------------------------
Init ==
  /\ state = "new"
  /\ startErr = FALSE /\ startRetryable = FALSE /\ stopErr = FALSE
  /\ started = [c \in Comp |-> c \in Prestarted]
  /\ stopState = [c \in Comp |-> "pending"]
  /\ legacyStarted = [c \in Comp |-> FALSE]
  /\ attempt = [c \in Comp |-> "none"]
  /\ attemptCtx = [c \in Comp |-> NoProc]
  /\ pc = [p \in Proc |-> "idle"]
  /\ call = [p \in Proc |-> "none"]
  /\ ret = [p \in Proc |-> "none"]
  /\ ctxDone = [p \in Proc |-> FALSE]
  /\ index = [p \in Proc |-> 0]
  /\ startedHere = [p \in Proc |-> FALSE]
  /\ failed = [p \in Proc |-> FALSE]
  /\ comp = [c \in Comp |-> IF c \in Prestarted THEN "on" ELSE "off"]

\* The call returns an error (err) or nil.  A call that waits for the running
\* operation returns the error of its own context.
Return(p, err) ==
  /\ pc' = [pc EXCEPT ![p] = "idle"]
  /\ ret' = [ret EXCEPT ![p] = IF err THEN "err" ELSE "nil"]
  /\ index' = [index EXCEPT ![p] = 0]
  /\ startedHere' = [startedHere EXCEPT ![p] = FALSE]
  /\ failed' = [failed EXCEPT ![p] = FALSE]
  /\ ctxDone' = [ctxDone EXCEPT ![p] = FALSE]
  /\ UNCHANGED call

\* close(l.operationDone): the call returns and every waiter wakes up.
ReturnAndWake(p, err) ==
  /\ pc' = [q \in Proc |-> IF q = p THEN "idle"
                           ELSE IF pc[q] = "wait" THEN "woken" ELSE pc[q]]
  /\ ret' = [ret EXCEPT ![p] = IF err THEN "err" ELSE "nil"]
  /\ index' = [index EXCEPT ![p] = 0]
  /\ startedHere' = [startedHere EXCEPT ![p] = FALSE]
  /\ failed' = [failed EXCEPT ![p] = FALSE]
  /\ ctxDone' = [ctxDone EXCEPT ![p] = FALSE]
  /\ UNCHANGED call

-----------------------------------------------------------------------------
(* Callers and their contexts.                                             *)

Call(p, k) ==
  /\ pc[p] = "idle"
  /\ pc' = [pc EXCEPT ![p] = "enter"]
  /\ call' = [call EXCEPT ![p] = k]
  /\ ret' = [ret EXCEPT ![p] = "none"]
  /\ UNCHANGED <<state, resultVars, entryVars, attemptVars, ctxDone, index,
                 startedHere, failed, comp>>

\* Deadline or cancellation of the context of p's call; an attempt that runs
\* under it sees it too.
Expire(p) ==
  /\ pc[p] # "idle"
  /\ ~ ctxDone[p]
  /\ ctxDone' = [ctxDone EXCEPT ![p] = TRUE]
  /\ attemptCtx' = [c \in Comp |-> IF attemptCtx[c] = p THEN NoProc
                                   ELSE attemptCtx[c]]
  /\ UNCHANGED <<state, resultVars, entryVars, attempt, pc, call, ret, index,
                 startedHere, failed, comp>>

\* Another Start or Stop is under way: wait for its operationDone.
Block(p) ==
  /\ pc[p] = "enter"
  /\ state \in {"starting", "stopping"}
  /\ pc' = [pc EXCEPT ![p] = "wait"]
  /\ UNCHANGED <<state, resultVars, entryVars, attemptVars, call, ret, ctxDone,
                 index, startedHere, failed, comp>>

\* Mutation: a waiter looks at its context only when it is woken.
WaitExpiredOnceWoken(p) ==
  /\ pc[p] = "woken"
  /\ ctxDone[p]
  /\ Return(p, TRUE)
  /\ UNCHANGED <<state, resultVars, entryVars, attemptVars, comp>>

WaitExpired(p) ==
  /\ pc[p] \in {"wait", "woken"}
  /\ ctxDone[p]
  /\ Return(p, TRUE)
  /\ UNCHANGED <<state, resultVars, entryVars, attemptVars, comp>>

WakeUp(p) ==
  /\ pc[p] = "woken"
  /\ ~ ctxDone[p]
  /\ pc' = [pc EXCEPT ![p] = "enter"]
  /\ UNCHANGED <<state, resultVars, entryVars, attemptVars, call, ret, ctxDone,
                 index, startedHere, failed, comp>>

-----------------------------------------------------------------------------
(* startStrict                                                             *)

StartAnswered(p) ==
  /\ pc[p] = "enter" /\ call[p] = "start"
  /\ \/ state = "stopped" /\ Return(p, TRUE)
     \/ state = "started" /\ Return(p, startErr)
  /\ UNCHANGED <<state, resultVars, entryVars, attemptVars, comp>>

StartBegin(p) ==
  /\ pc[p] = "enter" /\ call[p] = "start"
  /\ state = "new"
  /\ state' = "starting"
  /\ startRetryable' = FALSE
  /\ pc' = [pc EXCEPT ![p] = "init"]
  /\ index' = [index EXCEPT ![p] = 1]
  /\ UNCHANGED <<startErr, stopErr, entryVars, attemptVars, call, ret, ctxDone,
                 startedHere, failed, comp>>

\* The entry is marked started before Init runs, so that a component whose
\* initialisation fails is shut down too.
InitBegin(p) ==
  LET c == index[p] IN
  /\ pc[p] = "init" /\ c \in Comp \ Retired
  /\ ~ ctxDone[p]
  /\ started' = [started EXCEPT ![c] = TRUE]
  /\ stopState' = [stopState EXCEPT ![c] = "pending"]
  /\ legacyStarted' = [legacyStarted EXCEPT ![c] = FALSE]
  /\ attempt' = [attempt EXCEPT ![c] = "none"]
  /\ comp' = [comp EXCEPT ![c] = "on"]
  /\ pc' = [pc EXCEPT ![p] = "initing"]
  /\ UNCHANGED <<state, resultVars, attemptCtx, call, ret, ctxDone, index,
                 startedHere, failed>>

\* An entry that is no longer active is passed over.
InitSkip(p) ==
  /\ pc[p] = "init" /\ index[p] \in Retired
  /\ ~ ctxDone[p]
  /\ index' = [index EXCEPT ![p] = @ + 1]
  /\ UNCHANGED <<state, resultVars, entryVars, attemptVars, pc, call, ret,
                 ctxDone, startedHere, failed, comp>>

InitSucceed(p) ==
  /\ pc[p] = "initing"
  /\ pc' = [pc EXCEPT ![p] = "init"]
  /\ index' = [index EXCEPT ![p] = @ + 1]
  /\ UNCHANGED <<state, resultVars, entryVars, attemptVars, call, ret, ctxDone,
                 startedHere, failed, comp>>

\* rollbackStrictStart, up to its stopStrictEntries under a fresh context.
Rollback(p) ==
  /\ state' = "stopping"
  /\ startErr' = TRUE
  /\ pc' = [pc EXCEPT ![p] = "close"]
  /\ index' = [index EXCEPT ![p] = N]
  /\ ctxDone' = [ctxDone EXCEPT ![p] = FALSE]
  /\ UNCHANGED <<startRetryable, stopErr, entryVars, attemptVars, call, ret,
                 startedHere, failed, comp>>

\* Init failed or panicked.
InitFail(p) ==
  /\ pc[p] = "initing"
  /\ Rollback(p)

\* The context expired before the next component was initialised.
InitExpired(p) ==
  /\ pc[p] = "init" /\ index[p] \in Comp
  /\ ctxDone[p]
  /\ Rollback(p)

StartDone(p) ==
  /\ pc[p] = "init" /\ index[p] \notin Comp
  /\ state' = "started"
  /\ startErr' = FALSE
  /\ startRetryable' = FALSE
  /\ ReturnAndWake(p, FALSE)
  /\ UNCHANGED <<stopErr, entryVars, attemptVars, comp>>

-----------------------------------------------------------------------------
(* stopStrict and stopStrictEntries                                        *)

StopAnswered(p) ==
  /\ pc[p] = "enter" /\ call[p] = "stop"
  /\ state = "stopped"
  /\ Return(p, stopErr)
  /\ UNCHANGED <<state, resultVars, entryVars, attemptVars, comp>>

StopBegin(p) ==
  /\ pc[p] = "enter" /\ call[p] = "stop"
  /\ state \in {"new", "started"}
  /\ state' = "stopping"
  /\ pc' = [pc EXCEPT ![p] = "close"]
  /\ index' = [index EXCEPT ![p] = N]
  /\ UNCHANGED <<resultVars, entryVars, attemptVars, call, ret, ctxDone,
                 startedHere, failed, comp>>

\* The end of a rollback: a clean one puts every entry back as it was registered.
Reset(p, complete, clean) ==
  /\ IF clean
       THEN /\ started' = [c \in Comp |-> FALSE]
            /\ stopState' = [c \in Comp |-> "pending"]
            /\ legacyStarted' = [c \in Comp |-> FALSE]
            /\ attempt' = [c \in Comp |-> "none"]
            /\ state' = "new"
       ELSE /\ state' = IF complete THEN "stopped" ELSE "started"
            /\ UNCHANGED <<entryVars, attempt>>
  /\ startRetryable' = clean
  /\ ReturnAndWake(p, TRUE)
  /\ UNCHANGED <<startErr, attemptCtx, comp>>

\* Mutation: a rollback that ran out of time counts as clean.
RollbackEndIncomplete(p, complete) ==
  LET clean == ~ failed[p] /\ \A c \in Prestarted : ~ started[c] IN
  /\ Reset(p, complete, clean)
  /\ stopErr' = failed[p]

\* Mutation: components that were not started here are not looked at.
RollbackEndForgetsPrestarted(p, complete) ==
  LET err == failed[p] \/ ~ complete IN
  /\ Reset(p, complete, ~ err)
  /\ stopErr' = err

\* The end of rollbackStrictStart.  Only a clean and complete rollback of
\* components that were all started here may be started again.
RollbackEnd(p, complete) ==
  LET err == failed[p] \/ ~ complete
      clean == ~ err /\ \A c \in Prestarted : ~ started[c]
  IN
  /\ Reset(p, complete, clean)
  /\ stopErr' = err

\* Mutation: only the errors of this call are reported.
StopEndForgetsErrors(p, complete) ==
  /\ state' = IF complete THEN "stopped" ELSE "started"
  /\ stopErr' = (complete /\ failed[p])
  /\ ReturnAndWake(p, ~ complete \/ failed[p])
  /\ UNCHANGED <<startErr, startRetryable, entryVars, attemptVars, comp>>

\* Mutation: an incomplete stop is final.
StopEndIsFinal(p, complete) ==
  LET terminal == \E c \in Comp : stopState[c] = "failed" IN
  /\ state' = "stopped"
  /\ stopErr' = terminal
  /\ ReturnAndWake(p, ~ complete \/ terminal)
  /\ UNCHANGED <<startErr, startRetryable, entryVars, attemptVars, comp>>

\* The end of stopStrict: the terminal errors of every call are joined, and a
\* stop that is not complete leaves the lifecycle started.
StopEnd(p, complete) ==
  LET terminal == \E c \in Comp : stopState[c] = "failed" IN
  /\ state' = IF complete THEN "stopped" ELSE "started"
  /\ stopErr' = (complete /\ terminal)
  /\ ReturnAndWake(p, ~ complete \/ terminal)
  /\ UNCHANGED <<startErr, startRetryable, entryVars, attemptVars, comp>>

CloseEnd(p, complete) ==
  \/ call[p] = "start" /\ RollbackEnd(p, complete)
  \/ call[p] = "stop" /\ StopEnd(p, complete)

CloseDone(p) ==
  /\ pc[p] = "close" /\ index[p] \notin Comp
  /\ CloseEnd(p, TRUE)

\* The component that the loop is at still has to be shut down.
MustClose(c) == started[c] /\ stopState[c] \notin Finished

CloseSkip(p) ==
  /\ pc[p] = "close" /\ index[p] \in Comp
  /\ ~ MustClose(index[p])
  /\ index' = [index EXCEPT ![p] = @ - 1]
  /\ UNCHANGED <<state, resultVars, entryVars, attemptVars, pc, call, ret,
                 ctxDone, startedHere, failed, comp>>

CloseExpired(p) ==
  /\ pc[p] = "close" /\ index[p] \in Comp
  /\ MustClose(index[p])
  /\ ctxDone[p]
  /\ CloseEnd(p, FALSE)

\* A component with neither Shutdown method is closed at once.
ClosePlain(p) ==
  LET c == index[p] IN
  /\ pc[p] = "close" /\ c \in Comp /\ MustClose(c) /\ ~ ctxDone[p]
  /\ Kind[c] = "plain"
  /\ stopState' = [stopState EXCEPT ![c] = "stopped"]
  /\ comp' = [comp EXCEPT ![c] = "closed"]
  /\ index' = [index EXCEPT ![p] = @ - 1]
  /\ UNCHANGED <<state, resultVars, started, legacyStarted, attemptVars, pc,
                 call, ret, ctxDone, startedHere, failed>>

\* An attempt is under way for c: a shutdown is resumed, never started twice.
UnderWay(c) ==
  \/ Kind[c] = "context" /\ stopState[c] = "stopping"
  \/ Kind[c] = "legacy" /\ legacyStarted[c]

\* startLifecycleStopAttempt: the shutdown runs in a goroutine of its own, a
\* ContextShutdowner under the caller's context, a Shutdowner under none.
StartAttempt(p) ==
  LET c == index[p] IN
  /\ pc[p] = "close" /\ c \in Comp /\ MustClose(c) /\ ~ ctxDone[p]
  /\ Kind[c] # "plain" /\ ~ UnderWay(c)
  /\ attempt' = [attempt EXCEPT ![c] = "running"]
  /\ attemptCtx' = [attemptCtx EXCEPT
                      ![c] = IF Kind[c] = "context" THEN p ELSE NoProc]
  /\ stopState' = [stopState EXCEPT ![c] = "stopping"]
  /\ legacyStarted' = [legacyStarted EXCEPT ![c] = (Kind[c] = "legacy")]
  /\ startedHere' = [startedHere EXCEPT ![p] = TRUE]
  /\ comp' = [comp EXCEPT ![c] = "closing"]
  /\ pc' = [pc EXCEPT ![p] = "await"]
  /\ UNCHANGED <<state, resultVars, started, call, ret, ctxDone, index, failed>>

\* Mutation: an attempt that is under way is left to itself.
ResumeAttemptSkips(p) ==
  LET c == index[p] IN
  /\ pc[p] = "close" /\ c \in Comp /\ MustClose(c) /\ ~ ctxDone[p]
  /\ UnderWay(c)
  /\ index' = [index EXCEPT ![p] = @ - 1]
  /\ UNCHANGED <<state, resultVars, entryVars, attemptVars, pc, call, ret,
                 ctxDone, startedHere, failed, comp>>

\* The shutdown that an earlier call started is waited for.
ResumeAttempt(p) ==
  LET c == index[p] IN
  /\ pc[p] = "close" /\ c \in Comp /\ MustClose(c) /\ ~ ctxDone[p]
  /\ UnderWay(c)
  /\ pc' = [pc EXCEPT ![p] = "await"]
  /\ UNCHANGED <<state, resultVars, entryVars, attemptVars, call, ret, ctxDone,
                 index, startedHere, failed, comp>>

\* The component's shutdown returns.  It reports the error of its context only
\* when that context has expired (attempt.contextErr); a panic is an error.
AttemptReturns(c, r) ==
  /\ attempt[c] = "running"
  /\ r = "ctxerr" => Kind[c] = "context" /\ attemptCtx[c] = NoProc
  /\ attempt' = [attempt EXCEPT ![c] = r]
  /\ attemptCtx' = [attemptCtx EXCEPT ![c] = NoProc]
  /\ comp' = [comp EXCEPT ![c] = IF r = "ctxerr" THEN "on" ELSE "closed"]
  /\ UNCHANGED <<state, resultVars, entryVars, callVars>>

\* The attempt finished for good: without an error, or with one that no later
\* Stop will retry.  Only the entry of a ContextShutdowner lets go of it.
AwaitFinished(p) ==
  LET c == index[p] IN
  /\ pc[p] = "await" /\ attempt[c] \in {"ok", "error"}
  /\ stopState' = [stopState EXCEPT ![c] = IF attempt[c] = "ok" THEN "stopped"
                                           ELSE "failed"]
  /\ failed' = [failed EXCEPT ![p] = @ \/ attempt[c] = "error"]
  /\ attempt' = [attempt EXCEPT ![c] = IF Kind[c] = "context" THEN "none" ELSE @]
  /\ startedHere' = [startedHere EXCEPT ![p] = FALSE]
  /\ index' = [index EXCEPT ![p] = @ - 1]
  /\ pc' = [pc EXCEPT ![p] = "close"]
  /\ UNCHANGED <<state, resultVars, started, legacyStarted, attemptCtx, call,
                 ret, ctxDone, comp>>

\* A resumed attempt gave up when the deadline of the call that started it
\* passed: this call, whose deadline has not, tries again at once.
AwaitRetry(p) ==
  LET c == index[p] IN
  /\ pc[p] = "await" /\ attempt[c] = "ctxerr"
  /\ ~ startedHere[p] /\ ~ ctxDone[p]
  /\ stopState' = [stopState EXCEPT ![c] = "retry"]
  /\ attempt' = [attempt EXCEPT ![c] = "none"]
  /\ pc' = [pc EXCEPT ![p] = "close"]
  /\ UNCHANGED <<state, resultVars, started, legacyStarted, attemptCtx, call,
                 ret, ctxDone, index, startedHere, failed, comp>>

\* Mutation: the entry of an attempt that gave up still counts as stopping, so
\* that the next Stop would look for an attempt that is no longer there.
AwaitGaveUpStaysStopping(p) ==
  LET c == index[p] IN
  /\ pc[p] = "await" /\ attempt[c] = "ctxerr"
  /\ startedHere[p] \/ ctxDone[p]
  /\ pc' = [pc EXCEPT ![p] = "giveup"]
  /\ attempt' = [attempt EXCEPT ![c] = "none"]
  /\ UNCHANGED <<state, resultVars, entryVars, attemptCtx, call, ret, ctxDone,
                 index, startedHere, failed, comp>>

AwaitGaveUp(p) ==
  LET c == index[p] IN
  /\ pc[p] = "await" /\ attempt[c] = "ctxerr"
  /\ startedHere[p] \/ ctxDone[p]
  /\ pc' = [pc EXCEPT ![p] = "giveup"]
  /\ stopState' = [stopState EXCEPT ![c] = "retry"]
  /\ attempt' = [attempt EXCEPT ![c] = "none"]
  /\ UNCHANGED <<state, resultVars, started, legacyStarted, attemptCtx, call,
                 ret, ctxDone, index, startedHere, failed, comp>>

\* Mutation: an attempt left behind counts as complete.
AwaitExpiredComplete(p) ==
  /\ pc[p] = "await" /\ ctxDone[p]
  /\ CloseEnd(p, TRUE)

\* Mutation: a rollback waits for the attempt without its deadline.
AwaitExpiredUnlessRollback(p) ==
  /\ pc[p] = "await" /\ ctxDone[p] /\ call[p] = "stop"
  /\ CloseEnd(p, FALSE)

\* The deadline passes while the attempt runs (or has just finished: select
\* takes either): the call returns and leaves the attempt behind.
AwaitExpired(p) ==
  /\ pc[p] = "await" /\ ctxDone[p]
  /\ CloseEnd(p, FALSE)

CloseGiveUp(p) ==
  /\ pc[p] = "giveup"
  /\ CloseEnd(p, FALSE)

-----------------------------------------------------------------------------
Step(p) ==
  \/ Block(p) \/ WaitExpired(p) \/ WakeUp(p)
  \/ StartAnswered(p) \/ StartBegin(p) \/ InitBegin(p) \/ InitSkip(p)
  \/ InitExpired(p) \/ StartDone(p)
  \/ StopAnswered(p) \/ StopBegin(p)
  \/ CloseDone(p) \/ CloseSkip(p) \/ CloseExpired(p) \/ ClosePlain(p)
  \/ StartAttempt(p) \/ ResumeAttempt(p)
  \/ AwaitFinished(p) \/ AwaitRetry(p) \/ AwaitGaveUp(p) \/ AwaitExpired(p)
  \/ CloseGiveUp(p)

\* What the components decide: how long Init and Shutdown take, and how they end.
InitReturns(p) == InitSucceed(p) \/ InitFail(p)

Next ==
  \/ \E p \in Proc, k \in {"start", "stop"} : Call(p, k)
  \/ \E p \in Proc : Expire(p) \/ Step(p) \/ InitReturns(p)
  \/ \E c \in Comp, r \in {"ok", "ctxerr", "error"} : AttemptReturns(c, r)

Spec == Init /\ [][Next]_vars

\* Goroutines run and every context expires; a component's Init or Shutdown may
\* hang for ever.
FairSpec == Spec /\ \A p \in Proc : WF_vars(Step(p)) /\ WF_vars(Expire(p))

-----------------------------------------------------------------------------
(* Properties.                                                             *)

CallState == {"idle", "enter", "wait", "woken", "init", "initing", "close",
              "await", "giveup"}

\* Every variable of the lifecycle, of its entries and of the calls has its type.
TypeOK ==
  /\ state \in {"new", "starting", "started", "stopping", "stopped"}
  /\ startErr \in BOOLEAN /\ startRetryable \in BOOLEAN /\ stopErr \in BOOLEAN
  /\ started \in [Comp -> BOOLEAN]
  /\ stopState \in [Comp -> {"pending", "stopping", "retry"} \cup Finished]
  /\ legacyStarted \in [Comp -> BOOLEAN]
  /\ attempt \in [Comp -> {"none", "running", "ok", "ctxerr", "error"}]
  /\ attemptCtx \in [Comp -> Proc \cup {NoProc}]
  /\ pc \in [Proc -> CallState]
  /\ call \in [Proc -> {"none", "start", "stop"}]
  /\ ret \in [Proc -> {"none", "nil", "err"}]
  /\ ctxDone \in [Proc -> BOOLEAN]
  /\ index \in [Proc -> 0 .. N + 1]
  /\ startedHere \in [Proc -> BOOLEAN]
  /\ failed \in [Proc -> BOOLEAN]
  /\ comp \in [Comp -> {"off", "on", "closing", "closed"}]

AllDown == \A c \in Comp : comp[c] \in {"off", "closed"}

\* When a Stop has returned nil (in this call or from the result cached by an
\* earlier one), no component runs and no shutdown is still under way, whatever
\* deadlines, resumed attempts and rollbacks came before.
StopNilMeansDown ==
  (\E p \in Proc : pc[p] = "idle" /\ call[p] = "stop" /\ ret[p] = "nil") => AllDown

\* A lifecycle that a failed Start left startable (canRetryStart) has nothing
\* running and no attempt of the rollback in the background, so the next Start
\* never initialises a component beside its own earlier shutdown.
RetryFindsAllDown ==
  startRetryable => /\ AllDown
                    /\ \A c \in Comp : attempt[c] = "none" /\ ~ started[c]

\* The error of a component's shutdown is reported by the Stop that completes,
\* even when an earlier call, incomplete or rolled back, was the one it failed in.
TerminalErrorKept ==
  state = "stopped" => (stopErr <=> \E c \in Comp : stopState[c] = "failed")

\* Once the lifecycle is stopped it stays stopped and no component changes any
\* more: nothing is left running behind the back of the caller.
StoppedIsFinal ==
  [][state = "stopped" => state' = "stopped" /\ UNCHANGED comp]_vars

\* Every Stop returns by its deadline although an Init or a Shutdown hangs.
StopReturns ==
  \A p \in Proc : (pc[p] # "idle" /\ call[p] = "stop") ~> pc[p] = "idle"

\* Every Start returns, although a Shutdown of its rollback or of another call
\* hangs, unless an Init that it runs hangs itself.
StartReturns ==
  \A p \in Proc :
    [](pc[p] # "idle" /\ call[p] = "start"
       => <>(pc[p] = "idle") \/ <>[](pc[p] = "initing"))

\* What the components see of a lifecycle: initialisation is possible while it
\* has not finished starting.
Components == INSTANCE OrderedComponents
                WITH opening <- state \in {"new", "starting"}

\* The lifecycle keeps the promise of OrderedComponents to every component.
OrderKept == Components!Spec

\* When a Start succeeds every component is up, the retired and prestarted ones
\* too: a rollback that shut one of those down never leaves a startable lifecycle.
StartedMeansUp ==
  [][state = "starting" /\ state' = "started"
     => \A c \in Comp : comp[c] = "on"]_vars

-----------------------------------------------------------------------------
(* The inductive invariant behind the safety properties.                   *)

OpeningPc == {"init", "initing"}
ClosingPc == {"close", "await", "giveup"}

\* One call at a time works on the lifecycle, and the state says which kind.
Ownership ==
  \A p \in Proc :
    /\ pc[p] \in OpeningPc => state = "starting" /\ call[p] = "start"
    /\ pc[p] \in ClosingPc => state = "stopping" /\ call[p] \in {"start", "stop"}
    /\ \A q \in Proc : pc[p] \in OpeningPc \cup ClosingPc
                       /\ pc[q] \in OpeningPc \cup ClosingPc => p = q

\* What an entry records about its component is what the component is doing.
EntryMatchesComponent ==
  \A c \in Comp :
    /\ ~ started[c] => stopState[c] = "pending" /\ comp[c] \in {"off", "closed"}
    /\ stopState[c] = "pending" => /\ attempt[c] = "none"
                                   /\ started[c] => comp[c] = "on"
    /\ stopState[c] = "retry" => /\ attempt[c] = "none" /\ comp[c] = "on"
                                 /\ Kind[c] = "context"
    /\ stopState[c] = "stopping" =>
         \/ attempt[c] = "running" /\ comp[c] = "closing"
         \/ attempt[c] \in {"ok", "error"} /\ comp[c] = "closed"
         \/ attempt[c] = "ctxerr" /\ comp[c] = "on" /\ Kind[c] = "context"
    /\ stopState[c] = "stopping" => Kind[c] # "plain"
    /\ stopState[c] \in Finished =>
         /\ comp[c] = "closed"
         /\ attempt[c] = IF Kind[c] # "legacy" THEN "none"
                         ELSE IF stopState[c] = "stopped" THEN "ok" ELSE "error"
    /\ legacyStarted[c] <=> /\ Kind[c] = "legacy"
                            /\ stopState[c] \in {"stopping"} \cup Finished

\* Prestarted components stay started, and nothing is shut down before a stop.
StateMatchesEntries ==
  /\ \A c \in Prestarted : started[c]
  /\ state \in {"new", "starting"} => \A c \in Comp : stopState[c] = "pending"
  /\ state = "new" => \A c \in Comp \ Prestarted : ~ started[c]
  /\ state = "stopped" => \A c \in Comp : ~ MustClose(c)
  /\ startRetryable => state # "starting" /\ \A c \in Comp : ~ started[c]

LaterOnesDown ==
  \A c, d \in Comp : c < d /\ stopState[c] # "pending" => ~ MustClose(d)

\* How far the call that owns the lifecycle has come.
Progress ==
  \A p \in Proc :
    /\ pc[p] = "init" => index[p] \in 1 .. N + 1
    /\ pc[p] = "initing" => index[p] \in Comp \ Retired /\ started[index[p]]
    /\ pc[p] \in OpeningPc =>
         \A c \in Comp \ Prestarted : /\ c < index[p] => started[c]
                                      /\ c > index[p] => ~ started[c]
    /\ pc[p] = "init" /\ index[p] \in Comp \ Prestarted => ~ started[index[p]]
    /\ pc[p] \in ClosingPc => \A d \in Comp : d > index[p] => ~ MustClose(d)
    /\ pc[p] = "close" => index[p] \in 0 .. N
    /\ pc[p] \in {"await", "giveup"} => index[p] \in Comp
    /\ pc[p] = "await" => stopState[index[p]] = "stopping"
    /\ pc[p] = "giveup" => stopState[index[p]] = "retry"

AnyFailed == \E c \in Comp : stopState[c] = "failed"

\* Which errors are remembered, and what the callers have been told.
Outcomes ==
  /\ state = "stopped" => (stopErr <=> AnyFailed)
  /\ \A p \in Proc :
       /\ pc[p] \notin ClosingPc => ~ failed[p]
       /\ pc[p] \in ClosingPc /\ call[p] = "start" => (failed[p] <=> AnyFailed)
       /\ pc[p] = "idle" /\ call[p] = "stop" /\ ret[p] = "nil" => state = "stopped"

\* The strengthening of the safety properties that every step preserves.
IInv ==
  /\ TypeOK /\ Ownership /\ EntryMatchesComponent /\ StateMatchesEntries
  /\ LaterOnesDown /\ Progress /\ Outcomes

=============================================================================
