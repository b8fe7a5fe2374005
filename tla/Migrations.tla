----------------------------- MODULE Migrations -----------------------------
(***************************************************************************)
(* The SQL migration runner (pkg/bear/migration.go).  Processes that share *)
(* only a database run Up or Down, and operators repair what a crash left  *)
(* behind with ForceUnlock and ForceMigrationState.  Two tables coordinate *)
(* them: the lock table, whose one row names its owner, and the history    *)
(* table, whose rows are clean or dirty.  A migration runs in one          *)
(* transaction with its history row or, where DDL is not transactional,    *)
(* between two changes of a dirty row.                                     *)
(*                                                                         *)
(* Every statement may fail, may take effect although the caller sees an   *)
(* error (lost), and every process may crash between two statements.  A    *)
(* process makes one call, so it serves as its own random owner token.     *)
(***************************************************************************)
EXTENDS Integers, FiniteSets

CONSTANTS
  Proc,    \* processes, operators included
  Nobody,  \* no owner
  N,       \* versions are 1..N, in their order
  Files,   \* the sets of versions a deployment may bring along
  NonTx    \* <<direction, version>> pairs run outside a transaction

Version == 1..N

ASSUME MigrationsAssumption ==
  /\ N \in Nat
  /\ Nobody \notin Proc
  /\ Files \subseteq SUBSET Version
  /\ NonTx \subseteq {"up", "down"} \X Version

VARIABLES
  lock,      \* owner in the lock table
  history,   \* history[v]: "absent", "clean" or "dirty"
  schema,    \* what the database has of v: "absent", "partial", "present"
  op,        \* what each process called
  pc,
  loaded,    \* migrations it brought along
  steps,     \* how many Down rolls back
  todo,      \* versions still to run (Up, Down) or to resolve (state)
  verdict,   \* the state an operator found the schema in
  snap,      \* the owner that ForceUnlock read
  failed,    \* a call that is about to release has failed
  ret,       \* "none", "nil" or "err"
  robbed,    \* its lock was deleted by an operator
  careful,   \* operators act one at a time and unlock only a dead holder
  orderly    \* operators record the states they found one at a time

dbVars == <<lock, history, schema>>
callVars == <<op, loaded, steps, verdict>>
vars == <<dbVars, callVars, pc, todo, snap, failed, ret, robbed, careful, orderly>>

Stopped(p) == pc[p] \in {"returned", "crashed"}

\* The first k migrations have been applied; the next one may be dirty.
Init ==
  /\ lock = Nobody
  /\ \E k \in 0..N, s \in {"none", "absent", "partial", "present"} :
       /\ s # "none" => \E d \in {"up", "down"} : <<d, k + 1>> \in NonTx
       /\ history = [v \in Version |->
                       CASE v <= k -> "clean"
                         [] v = k + 1 /\ s # "none" -> "dirty"
                         [] OTHER -> "absent"]
       /\ schema = [v \in Version |->
                      CASE v <= k -> "present"
                        [] v = k + 1 /\ s # "none" -> s
                        [] OTHER -> "absent"]
  /\ op = [p \in Proc |-> "none"]
  /\ pc = [p \in Proc |-> "idle"]
  /\ loaded = [p \in Proc |-> {}]
  /\ steps = [p \in Proc |-> 0]
  /\ todo = [p \in Proc |-> {}]
  /\ verdict = [p \in Proc |-> "absent"]
  /\ snap = [p \in Proc |-> Nobody]
  /\ failed = [p \in Proc |-> FALSE]
  /\ ret = [p \in Proc |-> "none"]
  /\ robbed = [p \in Proc |-> FALSE]
  /\ careful \in BOOLEAN /\ orderly \in BOOLEAN
  /\ careful => orderly

Goto(p, k) == pc' = [pc EXCEPT ![p] = k]

Return(p, result) ==
  /\ Goto(p, "returned")
  /\ ret' = [ret EXCEPT ![p] = result]

\* The deferred release runs whatever happened.
Finish(p, fails) ==
  /\ Goto(p, "release")
  /\ failed' = [failed EXCEPT ![p] = fails]
  /\ UNCHANGED <<todo, ret>>

\* The version p works on: Up takes the oldest, Down the newest first.
Current(p) ==
  CHOOSE v \in todo[p] :
    \A w \in todo[p] : IF op[p] = "down" THEN w <= v ELSE v <= w

-----------------------------------------------------------------------------
(* Calls.                                                                  *)

CallUp(p, files) ==
  /\ pc[p] = "idle"
  /\ op' = [op EXCEPT ![p] = "up"]
  /\ loaded' = [loaded EXCEPT ![p] = files]
  /\ todo' = [todo EXCEPT ![p] = files]
  /\ Goto(p, "acquire")
  /\ UNCHANGED <<dbVars, steps, verdict, snap, failed, ret, robbed,
                 careful, orderly>>

CallDown(p, files, n) ==
  /\ pc[p] = "idle"
  /\ op' = [op EXCEPT ![p] = "down"]
  /\ loaded' = [loaded EXCEPT ![p] = files]
  /\ steps' = [steps EXCEPT ![p] = n]
  /\ Goto(p, "acquire")
  /\ UNCHANGED <<dbVars, verdict, todo, snap, failed, ret, robbed,
                 careful, orderly>>

OperatorsAreDone ==
  \A q \in Proc : op[q] \in {"state", "unlock"} => Stopped(q)

\* An operator has found a dirty version at rest: nobody executes its SQL.  A
\* half changed schema is repaired by hand, either way.
CallForceMigrationState(p, v, s) ==
  /\ pc[p] = "idle" /\ history[v] = "dirty"
  /\ orderly => \A q \in Proc : op[q] = "state" => Stopped(q)
  /\ careful => OperatorsAreDone
  /\ \A q \in Proc : pc[q] \in {"sql", "clear"} => Current(q) # v
  /\ schema[v] \in {s, "partial"}
  /\ schema' = [schema EXCEPT ![v] = s]
  /\ op' = [op EXCEPT ![p] = "state"]
  /\ todo' = [todo EXCEPT ![p] = {v}]
  /\ verdict' = [verdict EXCEPT ![p] = s]
  /\ Goto(p, "acquire")
  /\ UNCHANGED <<lock, history, loaded, steps, snap, failed, ret, robbed,
                 careful, orderly>>

\* Callers decide whether a lock is stale before they unlock it.
CallForceUnlock(p) ==
  /\ pc[p] = "idle" /\ lock # Nobody
  /\ careful => Stopped(lock) /\ OperatorsAreDone
  /\ op' = [op EXCEPT ![p] = "unlock"]
  /\ Goto(p, "readOwner")
  /\ UNCHANGED <<dbVars, loaded, steps, verdict, todo, snap, failed, ret, robbed,
                 careful, orderly>>

-----------------------------------------------------------------------------
(* The lock.                                                               *)

AcquireLockReplacing(p, lost) ==
  /\ pc[p] = "acquire"
  /\ lock' = p
  /\ IF lost THEN Return(p, "err")
     ELSE /\ Goto(p, IF op[p] = "state" THEN "force" ELSE "check")
          /\ UNCHANGED ret
  /\ UNCHANGED <<history, schema, callVars, todo, snap, failed, robbed,
                 careful, orderly>>

AcquireLock(p, lost) ==
  /\ pc[p] = "acquire" /\ lock = Nobody
  /\ lock' = p
  /\ IF lost THEN Return(p, "err")
     ELSE /\ Goto(p, IF op[p] = "state" THEN "force" ELSE "check")
          /\ UNCHANGED ret
  /\ UNCHANGED <<history, schema, callVars, todo, snap, failed, robbed,
                 careful, orderly>>

\* The lock is held, or the database cannot be used.
AcquireFails(p) ==
  /\ pc[p] = "acquire"
  /\ Return(p, "err")
  /\ UNCHANGED <<dbVars, callVars, todo, snap, failed, robbed, careful, orderly>>

\* releaseLock deletes its own row and reports when there was none.
ReleaseLock(p, lost) ==
  /\ pc[p] = "release" /\ lock = p
  /\ lock' = Nobody
  /\ Return(p, IF failed[p] \/ lost THEN "err" ELSE "nil")
  /\ UNCHANGED <<history, schema, callVars, todo, snap, failed, robbed,
                 careful, orderly>>

ReleaseUncounted(p) ==
  /\ pc[p] = "release"
  /\ Return(p, IF failed[p] \/ lock = p THEN "err" ELSE "nil")
  /\ UNCHANGED <<dbVars, callVars, todo, snap, failed, robbed, careful, orderly>>

ReleaseFails(p) ==
  /\ pc[p] = "release"
  /\ Return(p, "err")
  /\ UNCHANGED <<dbVars, callVars, todo, snap, failed, robbed, careful, orderly>>

\* forceUnlock reads the owner ...
ReadOwner(p) ==
  /\ pc[p] = "readOwner"
  /\ IF lock = Nobody
     THEN Return(p, "nil") /\ UNCHANGED snap
     ELSE /\ Goto(p, "deleteOwner") /\ UNCHANGED ret
          /\ snap' = [snap EXCEPT ![p] = lock]
  /\ UNCHANGED <<dbVars, callVars, todo, failed, robbed, careful, orderly>>

\* ... and deletes the row of that owner only.
DeleteOwner(p, lost) ==
  /\ pc[p] = "deleteOwner" /\ lock = snap[p]
  /\ lock' = Nobody
  /\ robbed' = [robbed EXCEPT ![snap[p]] = TRUE]
  /\ Return(p, IF lost THEN "err" ELSE "nil")
  /\ UNCHANGED <<history, schema, callVars, todo, snap, failed, careful, orderly>>

UnlockFails(p) ==
  /\ pc[p] \in {"readOwner", "deleteOwner"}
  /\ Return(p, "err")
  /\ UNCHANGED <<dbVars, callVars, todo, snap, failed, robbed, careful, orderly>>

-----------------------------------------------------------------------------
(* Up and Down.                                                            *)

Target(p) == IF op[p] = "down" THEN "absent" ELSE "present"

\* p is done with its current version.
Advance(p) ==
  LET rest == todo[p] \ {Current(p)} IN
  /\ todo' = [todo EXCEPT ![p] = rest]
  /\ Goto(p, IF rest = {} THEN "release"
             ELSE IF op[p] = "up" THEN "next" ELSE "apply")
  /\ UNCHANGED <<failed, ret>>

\* A statement took effect; when its answer was lost the call fails.
Done(p, lost) == IF lost THEN Finish(p, TRUE) ELSE Advance(p)

\* A look-up fails: a dirty version, a version applied under another name, or
\* the database.
ReadFails(p) ==
  /\ pc[p] \in {"check", "next", "plan"}
  /\ Finish(p, TRUE)
  /\ UNCHANGED <<dbVars, callVars, snap, robbed, careful, orderly>>

CheckNothing(p) ==
  /\ pc[p] = "check"
  /\ IF op[p] = "down" THEN Goto(p, "plan") /\ UNCHANGED <<failed, ret, todo>>
     ELSE IF todo[p] = {} THEN Finish(p, FALSE)
     ELSE Goto(p, "next") /\ UNCHANGED <<failed, ret, todo>>
  /\ UNCHANGED <<dbVars, callVars, snap, robbed, careful, orderly>>

\* rejectDirtyMigration
CheckClean(p) ==
  /\ pc[p] = "check" /\ \A v \in Version : history[v] # "dirty"
  /\ IF op[p] = "down" THEN Goto(p, "plan") /\ UNCHANGED <<failed, ret, todo>>
     ELSE IF todo[p] = {} THEN Finish(p, FALSE)
     ELSE Goto(p, "next") /\ UNCHANGED <<failed, ret, todo>>
  /\ UNCHANGED <<dbVars, callVars, snap, robbed, careful, orderly>>

\* isApplied
SkipApplied(p) ==
  /\ pc[p] = "next" /\ history[Current(p)] = "clean"
  /\ Advance(p)
  /\ UNCHANGED <<dbVars, callVars, snap, robbed, careful, orderly>>

NotApplied(p) ==
  /\ pc[p] = "next" /\ history[Current(p)] = "absent"
  /\ Goto(p, "apply")
  /\ UNCHANGED <<dbVars, callVars, todo, snap, failed, ret, robbed,
                 careful, orderly>>

\* latestApplied, newest first
Latest(n) ==
  {v \in Version :
     /\ history[v] = "clean"
     /\ Cardinality({w \in Version : w > v /\ history[w] = "clean"}) < n}

PlanUnvalidated(p) ==
  /\ pc[p] = "plan"
  /\ todo' = [todo EXCEPT ![p] = Latest(steps[p])]
  /\ Goto(p, IF Latest(steps[p]) = {} THEN "release" ELSE "apply")
  /\ UNCHANGED <<dbVars, callVars, snap, failed, ret, robbed, careful, orderly>>

\* The whole plan is validated before any SQL runs.
PlanDown(p) ==
  /\ pc[p] = "plan" /\ Latest(steps[p]) \subseteq loaded[p]
  /\ todo' = [todo EXCEPT ![p] = Latest(steps[p])]
  /\ Goto(p, IF Latest(steps[p]) = {} THEN "release" ELSE "apply")
  /\ UNCHANGED <<dbVars, callVars, snap, failed, ret, robbed, careful, orderly>>

Transactional(p) == <<op[p], Current(p)>> \notin NonTx

\* applyUp: the history row is inserted, so another one makes it fail.
ApplyUp(p, lost) ==
  /\ pc[p] = "apply" /\ op[p] = "up" /\ Transactional(p)
  /\ history[Current(p)] = "absent"
  /\ history' = [history EXCEPT ![Current(p)] = "clean"]
  /\ schema' = [schema EXCEPT ![Current(p)] = "present"]
  /\ Done(p, lost)
  /\ UNCHANGED <<lock, callVars, snap, robbed, careful, orderly>>

\* applyDown: whether a row was deleted is not looked at.
ApplyDown(p, lost) ==
  /\ pc[p] = "apply" /\ op[p] = "down" /\ Transactional(p)
  /\ history' = [history EXCEPT ![Current(p)] =
                   IF @ = "clean" THEN "absent" ELSE @]
  /\ schema' = [schema EXCEPT ![Current(p)] = "absent"]
  /\ Done(p, lost)
  /\ UNCHANGED <<lock, callVars, snap, robbed, careful, orderly>>

MarkDirtyBlindly(p, lost) ==
  /\ pc[p] = "apply" /\ ~ Transactional(p)
  /\ history' = [history EXCEPT ![Current(p)] = "dirty"]
  /\ IF lost THEN Finish(p, TRUE)
             ELSE Goto(p, "sql") /\ UNCHANGED <<todo, failed, ret>>
  /\ UNCHANGED <<lock, schema, callVars, snap, robbed, careful, orderly>>

\* Up inserts a dirty row, Down turns the clean row dirty: either fails when the
\* row is not what it expects.
MarkDirty(p, lost) ==
  /\ pc[p] = "apply" /\ ~ Transactional(p)
  /\ history[Current(p)] = IF op[p] = "up" THEN "absent" ELSE "clean"
  /\ history' = [history EXCEPT ![Current(p)] = "dirty"]
  /\ IF lost THEN Finish(p, TRUE)
             ELSE Goto(p, "sql") /\ UNCHANGED <<todo, failed, ret>>
  /\ UNCHANGED <<lock, schema, callVars, snap, robbed, careful, orderly>>

\* Some of its statements have run.
SQLProgresses(p) ==
  /\ pc[p] = "sql" /\ schema[Current(p)] # "partial"
  /\ schema' = [schema EXCEPT ![Current(p)] = "partial"]
  /\ UNCHANGED <<lock, history, callVars, pc, todo, snap, failed, ret, robbed,
                 careful, orderly>>

SQLSucceeds(p) ==
  /\ pc[p] = "sql"
  /\ schema' = [schema EXCEPT ![Current(p)] = Target(p)]
  /\ Goto(p, "clear")
  /\ UNCHANGED <<lock, history, callVars, todo, snap, failed, ret, robbed,
                 careful, orderly>>

SQLFailureUnmarks(p, s) ==
  /\ pc[p] = "sql"
  /\ schema' = [schema EXCEPT ![Current(p)] = s]
  /\ history' = [history EXCEPT ![Current(p)] =
                   IF op[p] = "up" THEN "absent" ELSE "clean"]
  /\ Finish(p, TRUE)
  /\ UNCHANGED <<lock, callVars, snap, robbed, careful, orderly>>

\* An error says nothing of how much has been executed.
SQLFails(p, s) ==
  /\ pc[p] = "sql"
  /\ schema' = [schema EXCEPT ![Current(p)] = s]
  /\ Finish(p, TRUE)
  /\ UNCHANGED <<lock, history, callVars, snap, robbed, careful, orderly>>

\* The dirty row becomes clean (Up) or is removed (Down).
ClearDirty(p, lost) ==
  /\ pc[p] = "clear" /\ history[Current(p)] = "dirty"
  /\ history' = [history EXCEPT ![Current(p)] =
                   IF op[p] = "up" THEN "clean" ELSE "absent"]
  /\ Done(p, lost)
  /\ UNCHANGED <<lock, schema, callVars, snap, robbed, careful, orderly>>

WriteFailsSilently(p) ==
  /\ pc[p] \in {"apply", "clear", "force"}
  /\ Finish(p, FALSE)
  /\ UNCHANGED <<dbVars, callVars, snap, robbed, careful, orderly>>

\* The row is not as expected, or the statement or the transaction fails.
WriteFails(p) ==
  /\ pc[p] \in {"apply", "clear", "force"}
  /\ Finish(p, TRUE)
  /\ UNCHANGED <<dbVars, callVars, snap, robbed, careful, orderly>>

\* forceMigrationState, with the lock held
ForceState(p, lost) ==
  /\ pc[p] = "force" /\ history[Current(p)] = "dirty"
  /\ history' = [history EXCEPT ![Current(p)] =
                   IF verdict[p] = "present" THEN "clean" ELSE "absent"]
  /\ Finish(p, lost)
  /\ UNCHANGED <<lock, schema, callVars, snap, robbed, careful, orderly>>

Crash(p) ==
  /\ pc[p] \notin {"idle", "returned", "crashed"}
  /\ Goto(p, "crashed")
  /\ UNCHANGED <<dbVars, callVars, todo, snap, failed, ret, robbed,
                 careful, orderly>>

-----------------------------------------------------------------------------
Call(p) ==
  \/ \E files \in Files : CallUp(p, files)
  \/ \E files \in Files, n \in 1..N : CallDown(p, files, n)
  \/ \E v \in Version, s \in {"absent", "present"} :
       CallForceMigrationState(p, v, s)
  \/ CallForceUnlock(p)

Statement(p, lost) ==
  \/ AcquireLock(p, lost) \/ ReleaseLock(p, lost) \/ DeleteOwner(p, lost)
  \/ ApplyUp(p, lost) \/ ApplyDown(p, lost)
  \/ MarkDirty(p, lost) \/ ClearDirty(p, lost) \/ ForceState(p, lost)

Step(p) ==
  \/ \E lost \in BOOLEAN : Statement(p, lost)
  \/ ReadOwner(p) \/ CheckClean(p) \/ SkipApplied(p) \/ NotApplied(p)
  \/ PlanDown(p) \/ SQLProgresses(p) \/ SQLSucceeds(p)

Failure(p) ==
  \/ AcquireFails(p) \/ ReleaseFails(p) \/ UnlockFails(p) \/ ReadFails(p)
  \/ WriteFails(p) \/ \E s \in {"absent", "partial", "present"} : SQLFails(p, s)
  \/ Crash(p)

Next == \E p \in Proc : Call(p) \/ Step(p) \/ Failure(p)

Spec == Init /\ [][Next]_vars

-----------------------------------------------------------------------------
(* Properties.                                                             *)

Point ==
  {"idle", "acquire", "check", "next", "plan", "apply", "sql", "clear", "force",
   "release", "readOwner", "deleteOwner", "returned", "crashed"}

\* Rows and calls have their types.
TypeOK ==
  /\ lock \in Proc \cup {Nobody}
  /\ history \in [Version -> {"absent", "clean", "dirty"}]
  /\ schema \in [Version -> {"absent", "partial", "present"}]
  /\ op \in [Proc -> {"none", "up", "down", "state", "unlock"}]
  /\ pc \in [Proc -> Point]
  /\ loaded \in [Proc -> SUBSET Version]
  /\ steps \in [Proc -> 0..N]
  /\ todo \in [Proc -> SUBSET Version]
  /\ verdict \in [Proc -> {"absent", "present"}]
  /\ snap \in [Proc -> Proc \cup {Nobody}]
  /\ failed \in [Proc -> BOOLEAN]
  /\ ret \in [Proc -> {"none", "nil", "err"}]
  /\ robbed \in [Proc -> BOOLEAN]
  /\ careful \in BOOLEAN /\ orderly \in BOOLEAN /\ (careful => orderly)

Working(p) == pc[p] \in {"check", "next", "plan", "apply", "sql", "clear",
                         "force", "release"}

\* docs/production.md:773, migration.go:605-651: no two processes are between
\* acquiring and releasing the lock at the same time.
OneRunner == careful => \A p, q \in Proc : Working(p) /\ Working(q) => p = q

\* production.md:712-717: whatever crashes, fails or is lost, a clean row says that
\* the migration has been applied and a missing one that it has not; everything
\* in between is marked dirty.
HistoryTruthful ==
  careful => \A v \in Version :
               /\ history[v] = "clean" => schema[v] = "present"
               /\ history[v] = "absent" => schema[v] = "absent"

\* migration.go:242-253, 312-339 and production.md:718: deployments that know fewer
\* or more migrations, failed runs and forced states never leave a hole in the
\* history, and nothing is ever put on top of a dirty version.
AppliedInOrder ==
  careful => \A v, w \in Version :
               v < w /\ history[w] # "absent" => history[v] = "clean"

\* migration.go:634-651: a call that lost its lock on the way, even to an operator
\* who misjudged it, does not return nil.
NilMeansHeld ==
  \A p \in Proc :
    ret[p] = "nil" /\ op[p] \in {"up", "down", "state"} => ~ robbed[p]

\* migration.go:722-749, 824-859: even when the lock was taken from a runner that
\* is alive, the dirty row keeps the SQL of one version from being executed by
\* two runners at a time, as long as operators resolve dirty rows one by one.
OneExecution ==
  orderly =>
    \A p, q \in Proc :
      pc[p] = "sql" /\ pc[q] = "sql" /\ Current(p) = Current(q) => p = q

\* migration.go:205-255: when Up returns nil, everything it brought along is
\* applied at that moment.
UpNilMeansApplied ==
  [][\A p \in Proc :
       careful /\ op[p] = "up" /\ ret[p] # "nil" /\ ret'[p] = "nil"
         => \A v \in loaded[p] : history[v] = "clean" /\ schema[v] = "present"]_vars

-----------------------------------------------------------------------------
(* The inductive invariant: why the lock, the dirty rows and the plans of  *)
(* Up and Down keep the history true and without holes.                    *)

\* Which calls have which steps; Up and Down only run what they have found among
\* the loaded files (migration.go:317-334).
CallShape ==
  \A p \in Proc :
    /\ op[p] \in {"up", "down"} => loaded[p] \in Files /\ todo[p] \subseteq loaded[p]
    /\ pc[p] = "idle" => todo[p] = {}
    /\ pc[p] = "acquire" => op[p] \in {"up", "down", "state"}
    /\ pc[p] \in {"check", "next", "plan", "apply", "sql", "clear"} =>
         op[p] \in {"up", "down"}
    /\ pc[p] = "next" => op[p] = "up"
    /\ pc[p] = "plan" => op[p] = "down"
    /\ pc[p] = "force" => op[p] = "state"
    /\ pc[p] \in {"readOwner", "deleteOwner"} => op[p] = "unlock"
    /\ pc[p] = "deleteOwner" => snap[p] \in Proc
    /\ ret[p] = "nil" => pc[p] = "returned"

\* Nobody holds the lock before it asks for it, has it taken away before, or is
\* said to have succeeded while it holds it.
LockOwned ==
  \A p \in Proc :
    /\ pc[p] \in {"idle", "acquire"} => lock # p /\ ~ robbed[p]
    /\ lock = p => ~ robbed[p]
    /\ ret[p] = "nil" /\ op[p] # "unlock" => lock # p /\ ~ robbed[p]

\* Careful operators leave the lock to the process that works under it.
LockExclusive ==
  careful =>
    /\ \A p \in Proc : Working(p) => lock = p
    /\ \A p \in Proc : pc[p] \in {"readOwner", "deleteOwner"} =>
                         lock \in Proc /\ Stopped(lock)
    /\ \A p, q \in Proc :
         /\ op[p] \in {"state", "unlock"} /\ ~ Stopped(p)
         /\ op[q] \in {"state", "unlock"} /\ ~ Stopped(q)
         => p = q

\* Nothing starts while a version is dirty.
StartsClean ==
  careful => \A p \in Proc, v \in Version :
               pc[p] \in {"next", "plan", "apply"} => history[v] # "dirty"

\* While a migration runs outside a transaction its version, and no other, is
\* dirty, and stays so until the schema is where the history will say it is.
DirtyIsCurrent ==
  careful => \A p \in Proc :
               /\ pc[p] \in {"sql", "clear"} =>
                    \A v \in Version : history[v] = "dirty" <=> v = Current(p)
               /\ pc[p] = "clear" /\ Current(p) \in Version =>
                    schema[Current(p)] = Target(p)

\* What an operator has found stays true until it is recorded.
FindingHolds ==
  careful => \A p \in Proc :
               op[p] = "state" /\ pc[p] \in {"acquire", "force"} =>
                 /\ Current(p) \in Version
                 /\ history[Current(p)] = "dirty"
                 /\ schema[Current(p)] = verdict[p]
                 /\ \A q \in Proc : pc[q] \notin {"sql", "clear"}

\* A deployment that brings a migration along brings the older ones too.
Prefixed == \A f \in Files : \A v \in f, w \in Version : w < v => w \in f

\* A call that works on a version has one, and Up starts with all that it loaded.
WorkLeft ==
  \A p \in Proc :
    /\ pc[p] \in {"next", "apply", "sql", "clear"} => todo[p] # {}
    /\ op[p] = "up" /\ pc[p] = "acquire" => todo[p] = loaded[p]

\* What Up is done with is applied and older than what is left; it is about to
\* succeed with nothing left.
UpPlan ==
  careful => \A p \in Proc :
    op[p] = "up" /\ Working(p) =>
      /\ \A v \in loaded[p] \ todo[p] :
           history[v] = "clean" /\ \A w \in todo[p] : v < w
      /\ pc[p] = "release" /\ ~ failed[p] => todo[p] = {}

\* What Down rolls back next is the newest that is applied.
DownPlan ==
  careful => \A p \in Proc :
    op[p] = "down" /\ pc[p] \in {"apply", "sql", "clear"} =>
      \A v \in todo[p], w \in Version : v < w /\ history[w] # "absent" => w \in todo[p]

\* A runner's version is dirty, and dirty for it alone.
RunsApart ==
  orderly => \A p \in Proc :
    pc[p] \in {"sql", "clear"} =>
      /\ history[Current(p)] = "dirty"
      /\ \A q \in Proc : pc[q] \in {"sql", "clear"} /\ Current(q) = Current(p) => q = p

\* Nobody resolves or runs a version that an operator is about to resolve.
RepairsApart ==
  orderly => \A p \in Proc :
    op[p] = "state" /\ ~ Stopped(p) =>
      /\ \A q \in Proc : op[q] = "state" /\ ~ Stopped(q) => q = p
      /\ pc[p] \in {"acquire", "force"} =>
           /\ Current(p) \in Version /\ history[Current(p)] = "dirty"
           /\ \A q \in Proc : pc[q] \in {"sql", "clear"} => Current(q) # Current(p)

IInv ==
  /\ TypeOK /\ CallShape /\ LockOwned /\ LockExclusive
  /\ StartsClean /\ DirtyIsCurrent /\ FindingHolds /\ HistoryTruthful
  /\ WorkLeft /\ UpPlan /\ DownPlan /\ RunsApart /\ RepairsApart
  /\ Prefixed => AppliedInOrder
=============================================================================
