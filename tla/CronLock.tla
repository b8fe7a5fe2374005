------------------------------ MODULE CronLock ------------------------------
(***************************************************************************)
(* A distributed job of CronManager (pkg/bear/cron.go, cron_lock.go): every *)
(* node fires it, the firing that sets the Redis key runs it and deletes    *)
(* the key afterwards.  A firing has a goroutine and an owner of its own,   *)
(* so firings of one node overlap as those of several do.  The key has a    *)
(* time to live, which may end at any moment, also while the job runs.      *)
(* ShutdownContext stops firing and waits for the jobs until its deadline.  *)
(***************************************************************************)
EXTENDS Naturals, FiniteSets

CONSTANTS
  Nodes,      \* nodes of the cluster, each with its own CronManager
  FireLimit   \* bound on the firings of all nodes

ASSUME CronAssumption == FireLimit \in Nat

VARIABLES
  key,       \* the Redis key: the firing that owns it, 0 for none
  fired,     \* number of firings so far
  mine,      \* per node: its firings
  job,       \* per firing: where its goroutine is
  lapsed,    \* history: firings whose key expired
  scheduler  \* per node: "on", "stopping", "stopped" (nil) or "timedOut"

cronVars == <<key, fired, mine, job, lapsed, scheduler>>

Firings == 1 .. FireLimit

CronTypeOK ==
  /\ key \in 0 .. FireLimit /\ fired \in 0 .. FireLimit /\ lapsed \subseteq Firings
  /\ mine \in [Nodes -> SUBSET Firings]
  /\ job \in [Firings -> {"due", "acquire", "run", "release", "over"}]
  /\ scheduler \in [Nodes -> {"on", "stopping", "stopped", "timedOut"}]

CronInit ==
  /\ key = 0 /\ fired = 0 /\ lapsed = {}
  /\ mine = [n \in Nodes |-> {}] /\ job = [f \in Firings |-> "due"]
  /\ scheduler = [n \in Nodes |-> "on"]

\* The schedule is due: newOwnedCronLock draws an owner nobody else has.
Fires(n) ==
  /\ scheduler[n] = "on" /\ fired < FireLimit
  /\ fired' = fired + 1
  /\ mine' = [mine EXCEPT ![n] = @ \cup {fired + 1}]
  /\ job' = [job EXCEPT ![fired + 1] = "acquire"]
  /\ UNCHANGED <<key, lapsed, scheduler>>

\* SET NX: done, held by another, or an error that may hide a SET that was done.
Acquires(f) ==
  /\ job[f] = "acquire"
  /\ \/ /\ key = 0 /\ key' = f
        /\ \E to \in {"run", "over"} : job' = [job EXCEPT ![f] = to]
     \/ /\ job' = [job EXCEPT ![f] = "over"] /\ UNCHANGED key
  /\ UNCHANGED <<fired, mine, lapsed, scheduler>>

\* The job returns or panics; its release is deferred.
JobEnds(f) ==
  /\ job[f] = "run"
  /\ job' = [job EXCEPT ![f] = "release"]
  /\ UNCHANGED <<key, fired, mine, lapsed, scheduler>>

DeleteAnyKey(f) == key' = 0

\* releaseOwnedLock: the script deletes the key only if it still is this owner's.
DeleteKey(f) == key' = IF key = f THEN 0 ELSE key

Releases(f) ==
  /\ job[f] = "release"
  /\ DeleteKey(f) \/ UNCHANGED key   \* or the call fails and the key stays
  /\ job' = [job EXCEPT ![f] = "over"]
  /\ UNCHANGED <<fired, mine, lapsed, scheduler>>

KeyExpires ==
  /\ key # 0
  /\ key' = 0 /\ lapsed' = lapsed \cup {key}
  /\ UNCHANGED <<fired, mine, job, scheduler>>

StopScheduler(n) ==
  /\ scheduler[n] = "on"
  /\ scheduler' = [scheduler EXCEPT ![n] = "stopping"]
  /\ UNCHANGED <<key, fired, mine, job, lapsed>>

\* The context of scheduler.Stop is done once no job runs; or the deadline passes.
StopEnds(n) ==
  /\ scheduler[n] = "stopping"
  /\ \/ (\A f \in mine[n] : job[f] = "over") /\ scheduler' = [scheduler EXCEPT ![n] = "stopped"]
     \/ scheduler' = [scheduler EXCEPT ![n] = "timedOut"]
  /\ UNCHANGED <<key, fired, mine, job, lapsed>>

CronNext ==
  \/ KeyExpires
  \/ \E n \in Nodes : Fires(n) \/ StopScheduler(n) \/ StopEnds(n)
  \/ \E f \in Firings : Acquires(f) \/ JobEnds(f) \/ Releases(f)

(* As long as its key has not expired, a running job is the only one in the
   cluster, whatever earlier firings release late (cron_lock.go, Release); and
   a manager that reported a clean shutdown has no job and starts none.      *)
RunningHoldsKey ==
  /\ \A f \in Firings : job[f] = "run" /\ f \notin lapsed => key = f
  /\ \A n \in Nodes : scheduler[n] = "stopped" => \A f \in mine[n] : job[f] = "over"

\* Owners are drawn once (newOwnedCronLock), so an expired or foreign key is never
\* taken for one's own.
OwnersAreDrawnOnce ==
  /\ key <= fired
  /\ \A f \in Firings : job[f] = "due" <=> f > fired
  /\ \A n \in Nodes : mine[n] \subseteq 1 .. fired

CronIInv == CronTypeOK /\ OwnersAreDrawnOnce /\ RunningHoldsKey
=============================================================================
