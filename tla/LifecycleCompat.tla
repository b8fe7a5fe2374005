-------------------------- MODULE LifecycleCompat --------------------------
(***************************************************************************)
(* The lifecycle in compatibility mode (pkg/bear/lifecycle.go).            *)
(*                                                                         *)
(* Start initializes the components in order of registration; when one      *)
(* fails, those started are shut down again.  Stop first marks everything   *)
(* that was started as stopped, then shuts the components down one by one   *)
(* in reverse order, each in a goroutine of its own that is left behind     *)
(* when the context of the call ends first.  Either way the lifecycle is    *)
(* stopped for good, and later calls get the cached result.                *)
(***************************************************************************)
EXTENDS Naturals, Sequences, FiniteSets

CONSTANTS
  Components,      \* the registered components are 1..Components
  PrestartedHooks, \* those that count as started from the beginning
  RetiredHooks,    \* prestarted ones that were removed again
  LifecycleCallers \* goroutines that call Start or Stop

ASSUME CompatAssumption ==
  Components \in Nat /\ PrestartedHooks \subseteq 1..Components
  /\ RetiredHooks \subseteq PrestartedHooks

VARIABLES
  lifeState,  \* Lifecycle.state
  up,         \* entries with started
  marked,     \* entries with stopped
  startErr, stopErr,  \* the cached errors, as "is there one"
  caller,     \* each caller: what it does, and its part of the work
  expired,    \* callers whose context has ended; "rollback" is the rollback's
  worker,     \* shutdown goroutine of a component: "none", "runs" or an outcome
  invoked     \* components whose shutdown was invoked, in order

compatVars == <<lifeState, up, marked, startErr, stopErr, caller, expired, worker, invoked>>

Comps == 1..Components
Idle == [op |-> "idle", todo |-> {}, at |-> 0, failed |-> FALSE]
Operation(op, todo) == [op |-> op, todo |-> todo, at |-> 0, failed |-> FALSE]

CompatTypeOK ==
  /\ lifeState \in {"new", "starting", "started", "stopping", "stopped"}
  /\ up \subseteq Comps /\ marked \subseteq Comps
  /\ startErr \in BOOLEAN /\ stopErr \in BOOLEAN
  /\ caller \in [LifecycleCallers ->
       [op : {"idle", "start", "init", "rollback", "stop", "shutdown", "nil", "error"},
        todo : SUBSET Comps, at : 0..Components, failed : BOOLEAN]]
  /\ expired \subseteq LifecycleCallers \cup {"rollback"}
  /\ worker \in [Comps -> {"none", "runs", "ok", "failed"}]
  /\ invoked \in Seq(Comps)

CompatInit ==
  /\ lifeState = "new" /\ up = PrestartedHooks /\ marked = {}
  /\ startErr = FALSE /\ stopErr = FALSE
  /\ caller = [c \in LifecycleCallers |-> Idle]
  /\ expired = {} /\ worker = [i \in Comps |-> "none"] /\ invoked = <<>>

Least(S) == CHOOSE i \in S : \A j \in S : i <= j
Greatest(S) == CHOOSE i \in S : \A j \in S : i >= j

Sets(c, value) == caller' = [caller EXCEPT ![c] = value]
Returns(c, isError) == Sets(c, Operation(IF isError THEN "error" ELSE "nil", {}))
LifecycleUnchanged == UNCHANGED <<lifeState, up, marked, startErr, stopErr>>
ShutdownsUnchanged == UNCHANGED <<expired, worker, invoked>>

-----------------------------------------------------------------------------
(* Start *)

CallsStart(c) ==
  /\ caller[c].op = "idle" /\ Sets(c, Operation("start", {}))
  /\ LifecycleUnchanged /\ ShutdownsUnchanged

StartLooks(c) ==
  /\ caller[c].op = "start"
  /\ \/ /\ lifeState = "stopped" /\ Returns(c, TRUE)
        /\ LifecycleUnchanged
     \/ /\ lifeState = "started" /\ Returns(c, startErr)
        /\ LifecycleUnchanged
     \/ /\ lifeState = "new" /\ lifeState' = "starting"
        /\ Sets(c, Operation("init", Comps \ RetiredHooks))
        /\ UNCHANGED <<up, marked, startErr, stopErr>>
  /\ ShutdownsUnchanged

Initializes(c) ==
  /\ caller[c].op = "init" /\ caller[c].todo # {}
  /\ up' = up \cup {Least(caller[c].todo)}
  /\ Sets(c, [caller[c] EXCEPT !.todo = @ \ {Least(@)}])
  /\ UNCHANGED <<lifeState, marked, startErr, stopErr>> /\ ShutdownsUnchanged

StartSucceeds(c) ==
  /\ caller[c].op = "init" /\ caller[c].todo = {}
  /\ lifeState' = "started" /\ Returns(c, FALSE)
  /\ UNCHANGED <<up, marked, startErr, stopErr>> /\ ShutdownsUnchanged

(* An Init returns an error or panics: rollbackStart. *)
InitFails(c) ==
  /\ caller[c].op = "init" /\ caller[c].todo # {}
  /\ Least(caller[c].todo) \notin PrestartedHooks
  /\ marked' = marked \cup up
  /\ lifeState' = "stopping" /\ startErr' = TRUE
  /\ Sets(c, Operation("rollback", up \ marked))
  /\ UNCHANGED <<up, stopErr>> /\ ShutdownsUnchanged

-----------------------------------------------------------------------------
(* Stop *)

CallsStop(c) ==
  /\ caller[c].op = "idle" /\ Sets(c, Operation("stop", {}))
  /\ LifecycleUnchanged /\ ShutdownsUnchanged

StopLooks(c) ==
  /\ caller[c].op = "stop"
  /\ \/ /\ lifeState = "stopped" /\ Returns(c, stopErr)
        /\ LifecycleUnchanged
     \/ /\ lifeState \in {"new", "started"} /\ lifeState' = "stopping"
        /\ marked' = marked \cup up
        /\ Sets(c, Operation("shutdown", up \ marked))
        /\ UNCHANGED <<up, startErr, stopErr>>
  /\ ShutdownsUnchanged

(* A call that waits for another, or would, gives up with its context. *)
WaitExpires(c) ==
  /\ caller[c].op \in {"start", "stop"} /\ lifeState \in {"starting", "stopping"}
  /\ c \in expired
  /\ Returns(c, TRUE)
  /\ LifecycleUnchanged /\ ShutdownsUnchanged

-----------------------------------------------------------------------------
(* stopLifecycleComponents, for a Stop and for a rollback *)

Stopping(c) == caller[c].op \in {"shutdown", "rollback"}
Ended(c) == (IF caller[c].op = "rollback" THEN "rollback" ELSE c) \in expired

(* The rest is given up: marked, but never shut down. *)
GivesUp(c, isError) ==
  Sets(c, [caller[c] EXCEPT !.todo = {}, !.at = 0, !.failed = @ \/ isError])

ShutdownNext(c) ==
  /\ Stopping(c) /\ caller[c].at = 0 /\ caller[c].todo # {}
  /\ IF Ended(c)
       THEN GivesUp(c, TRUE) /\ UNCHANGED <<worker, invoked>>
       ELSE LET i == Greatest(caller[c].todo)
            IN /\ Sets(c, [caller[c] EXCEPT !.at = i, !.todo = @ \ {i}])
               /\ worker' = [worker EXCEPT ![i] = "runs"]
               /\ invoked' = Append(invoked, i)
  /\ LifecycleUnchanged /\ UNCHANGED expired

(* Its result is taken when it is there; a context that has ended by then    *)
(* still gives up the components that are left.                            *)
ShutdownTaken(c) ==
  /\ Stopping(c) /\ caller[c].at # 0 /\ worker[caller[c].at] \in {"ok", "failed"}
  /\ LET bad == worker[caller[c].at] = "failed"
     IN IF Ended(c) THEN GivesUp(c, bad)
        ELSE Sets(c, [caller[c] EXCEPT !.at = 0, !.failed = @ \/ bad])
  /\ LifecycleUnchanged /\ ShutdownsUnchanged

(* The context ends first; the goroutine is left behind. *)
ShutdownAbandoned(c) ==
  /\ Stopping(c) /\ caller[c].at # 0 /\ Ended(c)
  /\ GivesUp(c, TRUE)
  /\ LifecycleUnchanged /\ ShutdownsUnchanged

StopFinishes(c) ==
  /\ Stopping(c) /\ caller[c].at = 0 /\ caller[c].todo = {}
  /\ lifeState' = "stopped" /\ stopErr' = caller[c].failed
  /\ Returns(c, caller[c].failed \/ caller[c].op = "rollback")
  /\ UNCHANGED <<up, marked, startErr>> /\ ShutdownsUnchanged

-----------------------------------------------------------------------------
(* The environment *)

ContextEnds(c) ==
  /\ expired' = expired \cup {c}
  /\ UNCHANGED <<caller, worker, invoked>> /\ LifecycleUnchanged

WorkerReturns(i) ==
  /\ worker[i] = "runs"
  /\ \E outcome \in {"ok", "failed"} : worker' = [worker EXCEPT ![i] = outcome]
  /\ UNCHANGED <<caller, expired, invoked>> /\ LifecycleUnchanged

CompatNext ==
  \/ \E c \in LifecycleCallers :
       \/ CallsStart(c) \/ StartLooks(c) \/ Initializes(c) \/ StartSucceeds(c) \/ InitFails(c)
       \/ CallsStop(c) \/ StopLooks(c) \/ WaitExpires(c)
       \/ ShutdownNext(c) \/ ShutdownTaken(c) \/ ShutdownAbandoned(c) \/ StopFinishes(c)
  \/ \E c \in LifecycleCallers \cup {"rollback"} : ContextEnds(c)
  \/ \E i \in Comps : WorkerReturns(i)

CompatSpec == CompatInit /\ [][CompatNext]_compatVars

-----------------------------------------------------------------------------
(* Shutdown is strictly LIFO, whoever asks for it and whatever expires: no   *)
(* component's shutdown is invoked twice, none after that of a component    *)
(* registered before it, and none while an earlier one still runs.         *)
StrictlyLIFO ==
  /\ \A i, j \in DOMAIN invoked : i < j => invoked[i] > invoked[j]
  /\ \A i \in DOMAIN invoked : i < Len(invoked) => worker[invoked[i]] # "runs"

(* One caller at a time initializes or shuts down, in the state that says so, *)
(* and nothing is shut down before.                                        *)
OneCallerActs ==
  /\ \A c \in LifecycleCallers :
       /\ caller[c].op = "init" => lifeState = "starting"
       /\ Stopping(c) => lifeState = "stopping"
       /\ \A d \in LifecycleCallers :
            (caller[c].op = "init" \/ Stopping(c)) /\ (caller[d].op = "init" \/ Stopping(d))
              => c = d
  /\ lifeState \in {"new", "starting", "started"} => invoked = <<>>

(* What is left to shut down was registered before all that was shut down,  *)
(* and is left only while nothing but the current shutdown runs.            *)
ShutdownsInOrder ==
  \A c \in LifecycleCallers :
    Stopping(c) =>
      /\ \A i \in caller[c].todo, j \in DOMAIN invoked : i < invoked[j]
      /\ caller[c].at = 0 /\ caller[c].todo # {} =>
           \A j \in DOMAIN invoked : worker[invoked[j]] # "runs"
      /\ caller[c].at # 0 => invoked # <<>> /\ caller[c].at = invoked[Len(invoked)]

CompatIInv == CompatTypeOK /\ OneCallerActs /\ ShutdownsInOrder /\ StrictlyLIFO

(* A Stop that returns nil has shut down everything that was started.        *)
StopNilMeansShutDown ==
  lifeState = "stopped" /\ ~stopErr => \A i \in up : worker[i] = "ok"
=============================================================================
