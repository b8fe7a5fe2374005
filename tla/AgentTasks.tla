----------------------------- MODULE AgentTasks -----------------------------
(***************************************************************************)
(* The durable task queue of extensions/agent/tasks/tasks.go: workers in   *)
(* different processes claim tasks from one SQL table, write tasks wait    *)
(* for an approval and record an intent before their external effect, and  *)
(* crashed, cancelled and timed-out work is recovered or reconciled by an  *)
(* operator.  The mutex of a Store is local to its process, so what keeps  *)
(* the processes apart is the version of the row: an action here is one    *)
(* SQL statement or one transaction, and what a process read between two   *)
(* of them is its draft.                                                   *)
(***************************************************************************)
EXTENDS Integers, FiniteSets

CONSTANTS
  Tasks,          \* number of tasks, numbered in the order of created_at
  Write,          \* the tasks of kind "write"; the others are "readonly"
  Worker,         \* one RunOnce loop per worker
  NoWorker,       \* lease_owner = ''
  Operator,       \* the process that cancels
  Budget,         \* budget_tokens of a new task
  Usages,         \* token usages an execution may report
  ReserveTokens,  \* WriteReserveTokens of each worker
  MaxAttempts,    \* max_attempts of every task
  PromptReadBack, \* no process commits between another's update and read-back
  MaxGen,         \* bound: how often a write can be requeued for approval
  MaxVersion      \* bound: a row of this version is not claimed again

Task == 1 .. Tasks
Gen == 0 .. MaxGen
Process == Worker \cup {Operator}

ASSUME TasksAssumption ==
  /\ Tasks \in Nat
  /\ Write \subseteq Task
  /\ NoWorker \notin Worker /\ Operator \notin Worker
  /\ Budget \in Nat /\ Usages \subseteq Nat
  /\ ReserveTokens \in [Worker -> Nat]
  /\ MaxAttempts \in Nat \ {0}
  /\ PromptReadBack \in BOOLEAN
  /\ MaxGen \in Nat /\ MaxVersion \in Nat

VARIABLES
  row,        \* agent_tasks: the row of each task
  overdue,    \* expires_at has passed
  consumed,   \* agent_approvals: the generations of approvals consumed
  \* RunOnce of each worker, and Cancel of the operator
  pc, job, ver, excluded, draft,
  used,       \* Outcome.Usage of the execution that ended
  \* what happened outside the table
  effects,    \* executions of a write, by the approval its intent was under
  charged     \* usage settled so far

storeVars == <<row, overdue, consumed>>
worldVars == <<effects, charged>>
loopVars == <<excluded, used>>
vars == <<storeVars, pc, job, ver, draft, loopVars, worldVars>>

Status == {"none", "waiting", "queued", "running", "succeeded", "failed",
           "canceled", "timed_out", "unknown"}

\* isTerminal: unknown is one, until an operator reconciles it.
Terminal == {"succeeded", "failed", "canceled", "timed_out", "unknown"}
Settled == Terminal \ {"unknown"}
Active == {"waiting", "queued", "running"}

NewRow == [status |-> "none", version |-> 0, nonce |-> FALSE, reserved |-> 0,
           budget |-> Budget, gen |-> 0, attempts |-> 0,
           owner |-> NoWorker, live |-> FALSE]

Init ==
  /\ row = [t \in Task |-> NewRow]
  /\ overdue = [t \in Task |-> FALSE]
  /\ consumed = [t \in Task |-> {}]
  /\ pc = [p \in Process |-> "idle"]
  /\ job = [p \in Process |-> 0]
  /\ ver = [p \in Process |-> 0]
  /\ excluded = [w \in Worker |-> {}]
  /\ used = [w \in Worker |-> 0]
  /\ draft = [p \in Process |-> NewRow]
  /\ effects = [t \in Task |-> [g \in Gen |-> 0]]
  /\ charged = [t \in Task |-> 0]

Goto(p, l) == pc' = [pc EXCEPT ![p] = l]

\* The call is over; nothing of it is left in the process.
Finish(p) ==
  /\ Goto(p, "idle")
  /\ job' = [job EXCEPT ![p] = 0]
  /\ ver' = [ver EXCEPT ![p] = 0]
  /\ draft' = [draft EXCEPT ![p] = NewRow]

Unleased(r) == [r EXCEPT !.owner = NoWorker, !.live = FALSE]

\* The external effect may exist: the row is to be reconciled.
Intended(t, r) == t \in Write /\ r.nonce

-----------------------------------------------------------------------------
(* Submit, and the approval gate.                                          *)

\* A second Submit with the same idempotency key returns the row that exists.
Submit(t) ==
  /\ row[t].status = "none"
  /\ \A u \in Task : u < t => row[u].status # "none"
  /\ row' = [row EXCEPT ![t].status = IF t \in Write THEN "waiting" ELSE "queued"]
  /\ UNCHANGED <<overdue, consumed, pc, job, ver, draft, loopVars, worldVars>>

\* One transaction; an approval that has expired, or that the arguments or the
\* policy no longer match, is an error that changes nothing.
Approve(t) ==
  /\ row[t].status = "waiting"
  /\ row[t].gen \notin consumed[t]
  /\ consumed' = [consumed EXCEPT ![t] = @ \cup {row[t].gen}]
  /\ row' = [row EXCEPT ![t].status = "queued"]
  /\ UNCHANGED <<overdue, pc, job, ver, draft, loopVars, worldVars>>

-----------------------------------------------------------------------------
(* Claim: select a candidate, update it conditionally, read it again.      *)

Eligible(t) == row[t].status = "queued" /\ ~ overdue[t] /\ ~ row[t].live

Oldest(w, t) ==
  /\ Eligible(t) /\ t \notin excluded[w]
  /\ \A u \in Task \ excluded[w] : Eligible(u) => t <= u

ClaimSelect(w, t) ==
  /\ pc[w] \in {"idle", "claim"}
  /\ Oldest(w, t)
  /\ row[t].budget >= 0
  /\ row[t].version < MaxVersion
  /\ Goto(w, "cas")
  /\ job' = [job EXCEPT ![w] = t]
  /\ ver' = [ver EXCEPT ![w] = row[t].version]
  /\ UNCHANGED <<storeVars, draft, loopVars, worldVars>>

\* No candidate is left after a lost race, or the next one has overdrawn its
\* budget: Claim returns an error.
ClaimGivesUp(w) ==
  /\ pc[w] = "claim"
  /\ \A t \in Task : Oldest(w, t) => row[t].budget < 0
  /\ excluded' = [excluded EXCEPT ![w] = {}]
  /\ Finish(w)
  /\ UNCHANGED <<storeVars, used, worldVars>>

ClaimCAS(w) ==
  LET t == job[w] IN
  /\ pc[w] = "cas"
  /\ IF row[t].version = ver[w] /\ row[t].status = "queued"
       THEN /\ row' = [row EXCEPT ![t] = [row[t] EXCEPT
                 !.status = "running", !.version = @ + 1, !.owner = w, !.live = TRUE]]
            /\ Goto(w, "get")
            /\ UNCHANGED excluded
       ELSE /\ excluded' = [excluded EXCEPT ![w] = @ \cup {t}]
            /\ Goto(w, "claim")
            /\ UNCHANGED row
  /\ UNCHANGED <<overdue, consumed, job, ver, draft, used, worldVars>>

\* The version the worker goes on with is the one that it reads now.
ClaimGet(w) ==
  LET t == job[w] IN
  /\ pc[w] = "get"
  /\ Goto(w, IF t \in Write THEN "check" ELSE "exec")
  /\ ver' = [ver EXCEPT ![w] = row[t].version]
  /\ draft' = [draft EXCEPT ![w] = row[t]]
  /\ excluded' = [excluded EXCEPT ![w] = {}]
  /\ UNCHANGED <<storeVars, job, used, worldVars>>

-----------------------------------------------------------------------------
(* RunOnce of a write: approval, intent, execution.                        *)

\* checkWriteApproval and WriteAuthorize.  Expiry and the policy can refuse an
\* approval at any time.
CheckPasses(w) ==
  /\ pc[w] = "check"
  /\ draft[w].gen \in consumed[job[w]]
  /\ Goto(w, "intent")
  /\ UNCHANGED <<storeVars, job, ver, draft, loopVars, worldVars>>

CheckFails(w) ==
  /\ pc[w] = "check"
  /\ Goto(w, "fail")
  /\ UNCHANGED <<storeVars, job, ver, draft, loopVars, worldVars>>

\* The row that Reserve or, without a reservation, RecordIntent writes.
WithIntent(w, r) ==
  [r EXCEPT !.budget = @ - ReserveTokens[w], !.reserved = @ + ReserveTokens[w],
            !.nonce = TRUE, !.version = @ + 1]

\* A row that carries a reservation already is returned as it is.
IntentRead(w) ==
  LET r == row[job[w]] IN
  /\ pc[w] = "intent"
  /\ \/ /\ \/ r.version # ver[w]
           \/ r.status # "running"
           \/ ReserveTokens[w] > 0 /\ r.reserved = 0 /\ r.budget < ReserveTokens[w]
        /\ Goto(w, "fail")
        /\ UNCHANGED draft
     \/ /\ r.version = ver[w] /\ r.status = "running"
        /\ ReserveTokens[w] > 0 => r.reserved = 0 /\ r.budget >= ReserveTokens[w]
        /\ draft' = [draft EXCEPT ![w] = WithIntent(w, r)]
        /\ Goto(w, "write")
     \/ /\ r.version = ver[w] /\ r.status = "running"
        /\ ReserveTokens[w] > 0 /\ r.reserved > 0
        /\ draft' = [draft EXCEPT ![w] = r]
        /\ Goto(w, "start")
  /\ UNCHANGED <<storeVars, job, ver, loopVars, worldVars>>

\* updateWhere: the whole row is written, with the lease that was read.
Put(p) ==
  LET t == job[p] IN
  row' = [row EXCEPT ![t] = [draft[p] EXCEPT !.live = @ /\ row[t].live]]

\* Mutation: the update is conditional on the status alone.
FencedByStatus(p, statuses) == row[job[p]].status \in statuses

\* The condition of updateWhere: nobody has written the row since it was read.
Fenced(p, statuses) ==
  /\ row[job[p]].version = ver[p]
  /\ row[job[p]].status \in statuses

IntentWrite(w) ==
  /\ pc[w] = "write"
  /\ IF Fenced(w, {"running"})
       THEN Put(w) /\ Goto(w, "reread")
       ELSE Goto(w, "fail") /\ UNCHANGED row
  /\ UNCHANGED <<overdue, consumed, job, ver, draft, loopVars, worldVars>>

IntentReread(w) ==
  /\ pc[w] = "reread"
  /\ Goto(w, "start")
  /\ ver' = [ver EXCEPT ![w] = row[job[w]].version]
  /\ UNCHANGED <<storeVars, job, draft, loopVars, worldVars>>

\* The executor is called: from here on the external effect may exist.
StartWrite(w) ==
  /\ pc[w] = "start"
  /\ effects' = [effects EXCEPT ![job[w]][draft[w].gen] = @ + 1]
  /\ Goto(w, "exec")
  /\ UNCHANGED <<storeVars, job, ver, draft, loopVars, charged>>

-----------------------------------------------------------------------------
(* Complete.                                                               *)

\* Mutation: a retryable error of a write is retried.
NextStatusBlind(t, r, outcome) ==
  CASE outcome = "ok" -> "succeeded"
    [] outcome = "unknown" -> "unknown"
    [] outcome = "retry" /\ r.attempts + 1 < MaxAttempts -> "queued"
    [] OTHER -> "failed"

\* The status after an attempt that ended in this way; a write that recorded
\* its intent is never retried blindly.
NextStatus(t, r, outcome) ==
  CASE outcome = "ok" -> "succeeded"
    [] outcome = "unknown" -> "unknown"
    [] outcome # "ok" /\ Intended(t, r) -> "unknown"
    [] outcome = "retry" /\ ~ Intended(t, r) /\ r.attempts + 1 < MaxAttempts -> "queued"
    [] OTHER -> "failed"

\* Mutation: the usage is taken out of the reservation only.
CompletedFromReservation(t, r, outcome, usage) ==
  LET status == NextStatus(t, r, outcome) IN
  [r EXCEPT !.status = status, !.attempts = @ + 1, !.version = @ + 1,
            !.reserved = IF status = "unknown" THEN @ ELSE @ - usage]

\* The row of the attempt that ended.  The reservation of an unknown result stays
\* until the operator knows the usage.
Completed(t, r, outcome, usage) ==
  LET status == NextStatus(t, r, outcome)
      counted == [r EXCEPT !.status = status, !.attempts = @ + 1, !.version = @ + 1]
      released == IF status = "queued" THEN Unleased(counted) ELSE counted
  IN  IF status = "unknown" THEN released
      ELSE [released EXCEPT !.budget = @ + r.reserved - usage, !.reserved = 0]

\* A version that is not the worker's own fences its result off, and so does a
\* row that somebody else has finished.
CompleteStale(w) ==
  /\ pc[w] \in {"exec", "fail"}
  /\ row[job[w]].version # ver[w] \/ row[job[w]].status \in Terminal
  /\ Finish(w)
  /\ UNCHANGED <<storeVars, loopVars, worldVars>>

CompleteRead(w, outcome, usage) ==
  LET t == job[w] IN
  /\ \/ pc[w] = "exec"
     \/ pc[w] = "fail" /\ outcome = "error" /\ usage = 0
  /\ row[t].version = ver[w] /\ row[t].status \notin Terminal
  /\ draft' = [draft EXCEPT ![w] = Completed(t, row[t], outcome, usage)]
  /\ used' = [used EXCEPT ![w] = usage]
  /\ Goto(w, "commit")
  /\ UNCHANGED <<storeVars, job, ver, excluded, worldVars>>

CompleteWrite(w) ==
  LET t == job[w] IN
  /\ pc[w] = "commit"
  /\ IF Fenced(w, {"running"})
       THEN /\ Put(w)
            /\ charged' = [charged EXCEPT ![t] =
                 IF draft[w].status = "unknown" THEN @ ELSE @ + used[w]]
       ELSE UNCHANGED <<row, charged>>
  /\ used' = [used EXCEPT ![w] = 0]
  /\ Finish(w)
  /\ UNCHANGED <<overdue, consumed, excluded, effects>>

-----------------------------------------------------------------------------
(* Leases: the heartbeat, expiry, and workers that crash.                  *)

Working == {"check", "intent", "write", "reread", "start", "exec", "fail", "commit"}

\* RenewLease touches no other column.
RenewLease(w) ==
  LET t == job[w] IN
  /\ pc[w] \in Working
  /\ row[t].status = "running" /\ row[t].owner = w
  /\ ~ row[t].live
  /\ row' = [row EXCEPT ![t].live = TRUE]
  /\ UNCHANGED <<overdue, consumed, pc, job, ver, draft, loopVars, worldVars>>

\* A lease runs out when its heartbeat is late, fails or is gone.
LeaseExpires(t) ==
  /\ row[t].live
  /\ row' = [row EXCEPT ![t].live = FALSE]
  /\ UNCHANGED <<overdue, consumed, pc, job, ver, draft, loopVars, worldVars>>

Crash(w) ==
  /\ pc[w] \notin {"idle", "claim"}
  /\ excluded' = [excluded EXCEPT ![w] = {}]
  /\ used' = [used EXCEPT ![w] = 0]
  /\ Finish(w)
  /\ UNCHANGED <<storeVars, worldVars>>

DeadlinePasses(t) ==
  /\ row[t].status # "none" /\ ~ overdue[t]
  /\ overdue' = [overdue EXCEPT ![t] = TRUE]
  /\ UNCHANGED <<row, consumed, pc, job, ver, draft, loopVars, worldVars>>

-----------------------------------------------------------------------------
(* Recover, SweepTimeouts, Cancel.                                         *)

\* Claim, Reserve and RecordIntent read the row again after their conditional
\* update.  With PromptReadBack nobody takes the row away in between.
Quiet == PromptReadBack => \A w \in Worker : pc[w] \notin {"get", "reread"}

Moved(r, status) == [Unleased(r) EXCEPT !.status = status, !.version = @ + 1]

\* Mutation: rows with an intent are left to the operator.
AbandonedWithoutIntent(t) ==
  row[t].status = "running" /\ ~ row[t].live /\ ~ row[t].nonce

\* A running row whose lease has run out.
Abandoned(t) == row[t].status = "running" /\ ~ row[t].live

\* The two statements of Recover are separate commits.
RecoverRequeue ==
  /\ Quiet
  /\ \E t \in Task : Abandoned(t) /\ ~ Intended(t, row[t])
  /\ row' = [t \in Task |-> IF Abandoned(t) /\ ~ Intended(t, row[t])
                            THEN Moved(row[t], "queued") ELSE row[t]]
  /\ UNCHANGED <<overdue, consumed, pc, job, ver, draft, loopVars, worldVars>>

RecoverUnknown ==
  /\ Quiet
  /\ \E t \in Task : Abandoned(t) /\ Intended(t, row[t])
  /\ row' = [t \in Task |-> IF Abandoned(t) /\ Intended(t, row[t])
                            THEN Moved(row[t], "unknown") ELSE row[t]]
  /\ UNCHANGED <<overdue, consumed, pc, job, ver, draft, loopVars, worldVars>>

\* Work that is stopped from outside: a running write with an intent is unknown.
Stopped(t, r, status) ==
  Moved(r, IF r.status = "running" /\ Intended(t, r) THEN "unknown" ELSE status)

\* One transaction over all rows.
SweepTimeouts ==
  LET late == {t \in Task : overdue[t] /\ row[t].status \in Active} IN
  /\ Quiet
  /\ late # {}
  /\ row' = [t \in Task |-> IF t \in late THEN Stopped(t, row[t], "timed_out")
                            ELSE row[t]]
  /\ UNCHANGED <<overdue, consumed, pc, job, ver, draft, loopVars, worldVars>>

CancelRead(t) ==
  /\ pc[Operator] = "idle"
  /\ row[t].status \in Active
  /\ draft' = [draft EXCEPT ![Operator] = Stopped(t, row[t], "canceled")]
  /\ job' = [job EXCEPT ![Operator] = t]
  /\ ver' = [ver EXCEPT ![Operator] = row[t].version]
  /\ Goto(Operator, "cancel")
  /\ UNCHANGED <<storeVars, loopVars, worldVars>>

\* Mutation: the row is cancelled by its id.
CancelWriteByID ==
  /\ pc[Operator] = "cancel"
  /\ Quiet
  /\ Put(Operator)
  /\ Finish(Operator)
  /\ UNCHANGED <<overdue, consumed, loopVars, worldVars>>

\* A row that changed meanwhile is read again.
CancelWrite ==
  /\ pc[Operator] = "cancel"
  /\ Quiet
  /\ IF Fenced(Operator, Active) THEN Put(Operator) ELSE UNCHANGED row
  /\ Finish(Operator)
  /\ UNCHANGED <<overdue, consumed, loopVars, worldVars>>

-----------------------------------------------------------------------------
(* Reconciliation of an unknown result: one transaction each.              *)

\* Mutation: the reservation is not given back before the usage is charged.
ConfirmUnknownChargesTwice(t, usage) ==
  /\ row[t].status = "unknown"
  /\ row' = [row EXCEPT ![t] = [row[t] EXCEPT !.status = "succeeded",
               !.budget = @ - usage, !.reserved = 0,
               !.attempts = @ + 1, !.version = @ + 1]]
  /\ charged' = [charged EXCEPT ![t] = @ + usage]
  /\ UNCHANGED <<overdue, consumed, pc, job, ver, draft, loopVars, effects>>

\* The operator has verified the effect and its usage.
ConfirmUnknown(t, usage) ==
  /\ row[t].status = "unknown"
  /\ row' = [row EXCEPT ![t] = [row[t] EXCEPT !.status = "succeeded",
               !.budget = @ + row[t].reserved - usage, !.reserved = 0,
               !.attempts = @ + 1, !.version = @ + 1]]
  /\ charged' = [charged EXCEPT ![t] = @ + usage]
  /\ UNCHANGED <<overdue, consumed, pc, job, ver, draft, loopVars, effects>>

\* A write needs a fresh approval; a readonly task goes back to the queue.
RequeueUnknown(t) ==
  /\ row[t].status = "unknown"
  /\ t \in Write => row[t].gen < MaxGen
  /\ row' = [row EXCEPT ![t] = [row[t] EXCEPT
               !.status = IF t \in Write THEN "waiting" ELSE "queued",
               !.gen = IF t \in Write THEN @ + 1 ELSE @,
               !.budget = @ + row[t].reserved, !.reserved = 0,
               !.nonce = FALSE, !.version = @ + 1]]
  /\ UNCHANGED <<overdue, consumed, pc, job, ver, draft, loopVars, worldVars>>

-----------------------------------------------------------------------------
Outcomes == {"ok", "unknown", "retry", "error"}

Step(w) ==
  \/ \E t \in Task : ClaimSelect(w, t)
  \/ ClaimGivesUp(w) \/ ClaimCAS(w) \/ ClaimGet(w)
  \/ CheckPasses(w) \/ CheckFails(w)
  \/ IntentRead(w) \/ IntentWrite(w) \/ IntentReread(w) \/ StartWrite(w)
  \/ CompleteStale(w) \/ CompleteWrite(w)
  \/ \E outcome \in Outcomes, usage \in Usages : CompleteRead(w, outcome, usage)

Reconcile ==
  \/ \E t \in Task : Approve(t) \/ RequeueUnknown(t)
  \/ \E t \in Task, usage \in Usages : ConfirmUnknown(t, usage)

Next ==
  \/ \E t \in Task : Submit(t) \/ LeaseExpires(t) \/ DeadlinePasses(t) \/ CancelRead(t)
  \/ \E w \in Worker : Step(w) \/ RenewLease(w) \/ Crash(w)
  \/ CancelWrite \/ RecoverRequeue \/ RecoverUnknown \/ SweepTimeouts
  \/ Reconcile

Spec == Init /\ [][Next]_vars

\* Workers run, leases that are not renewed run out, and Recover is called again
\* and again.
FairSpec ==
  /\ Spec
  /\ \A w \in Worker : WF_vars(Step(w))
  /\ \A t \in Task : WF_vars(LeaseExpires(t))
  /\ WF_vars(RecoverRequeue) /\ WF_vars(RecoverUnknown)

-----------------------------------------------------------------------------
(* Properties.                                                             *)

RowType ==
  [status : Status, version : Nat, nonce : BOOLEAN, reserved : Nat, budget : Int,
   gen : Gen, attempts : Nat, owner : Worker \cup {NoWorker}, live : BOOLEAN]

Point == {"idle", "claim", "cas", "get", "cancel"} \cup Working

\* Rows, approvals and the calls that work on them have their types.
TypeOK ==
  /\ row \in [Task -> RowType]
  /\ overdue \in [Task -> BOOLEAN]
  /\ consumed \in [Task -> SUBSET Gen]
  /\ pc \in [Process -> Point]
  /\ pc[Operator] \in {"idle", "cancel"} /\ \A w \in Worker : pc[w] # "cancel"
  /\ job \in [Process -> Task \cup {0}]
  /\ \A p \in Process : pc[p] # "idle" => job[p] \in Task
  /\ ver \in [Process -> Nat]
  /\ excluded \in [Worker -> SUBSET Task]
  /\ draft \in [Process -> RowType]
  /\ used \in [Worker -> Nat]
  /\ effects \in [Task -> [Gen -> Nat]]
  /\ charged \in [Task -> Nat]

\* An approval is good for one execution of its write, whichever workers crash,
\* lose their lease, or are cancelled between their statements.
OncePerApproval == \A t \in Write, g \in Gen : effects[t][g] <= 1

\* No two workers execute a task at the same time under the same approval.
NeverDuplicated ==
  \A v, w \in Worker :
    v # w /\ pc[v] = "exec" /\ pc[w] = "exec" /\ job[v] = job[w]
    => draft[v].gen # draft[w].gen

\* While a write may have had its external effect under the current approval it is
\* neither retried nor reported as cancelled, timed out or failed: it runs, has
\* succeeded, or waits for the operator.
EffectNeverForgotten ==
  \A t \in Write :
    effects[t][row[t].gen] > 0 => row[t].status \in {"running", "unknown", "succeeded"}

\* Tokens are reserved, charged once, or still in the budget, through retries,
\* recovery and reconciliation; only a write whose effect is open holds any back.
BudgetAccounted ==
  \A t \in Task :
    /\ row[t].budget + row[t].reserved + charged[t] = Budget
    /\ row[t].reserved > 0 => row[t].nonce /\ row[t].status \in {"running", "unknown"}

\* A settled task never changes: no late result, recovery, sweep or cancellation
\* touches it.
SettledIsFinal ==
  [][\A t \in Task : row[t].status \in Settled => row'[t].status = row[t].status
                                                  /\ row'[t].version = row[t].version]_vars

\* Nothing runs for ever: a task whose worker crashed, hangs without its heartbeat
\* or lost its version is taken out of "running".
RunningEnds ==
  \A t \in Task : row[t].status = "running" ~> row[t].status # "running"

\* Claim leases the oldest queued task that has not expired, so a queued task that
\* can pay is claimed in the end.
QueuedIsClaimed ==
  \A t \in Task :
    [](row[t].status = "queued"
       => <>(\/ row[t].status # "queued" \/ overdue[t] \/ row[t].budget < 0
             \/ \E u \in Task : row[u].version >= MaxVersion))

-----------------------------------------------------------------------------
(* The inductive invariant: why a write is executed once per approval, and *)
(* why tokens are neither lost nor charged twice.                          *)

\* A version that was seen is not ahead of the row: versions only grow.
VersionsSeen == \A p \in Process : pc[p] # "idle" => ver[p] <= row[job[p]].version

\* Only a write has an intent, from its execution until the operator requeues it.
IntentShape ==
  \A t \in Task :
    row[t].nonce => t \in Write /\ row[t].status \in {"running", "unknown", "succeeded"}

\* p would win the conditional update of its row (updateWhere).
Current(p) == ver[p] = row[job[p]].version

\* What RunOnce has read or is about to write of an intent (tasks.go:868-904).
IntentDrafts ==
  \A w \in Worker :
    /\ pc[w] \in {"check", "intent", "write", "reread", "start"} =>
         job[w] \in Write /\ draft[w].gen <= row[job[w]].gen
    /\ pc[w] \in {"reread", "start"} /\ draft[w].gen = row[job[w]].gen => row[job[w]].nonce
    /\ pc[w] = "write" /\ Current(w) =>
         LET r == row[job[w]] IN
         /\ r.status = "running"
         /\ draft[w].status = "running" /\ draft[w].nonce
         /\ draft[w].version = r.version + 1 /\ draft[w].gen = r.gen
         /\ draft[w].owner = r.owner
         /\ draft[w].budget + draft[w].reserved = r.budget + r.reserved

\* What Complete is about to write: the usage is settled, or held back with the
\* result unknown.
CompleteDrafts ==
  \A w \in Worker :
    pc[w] = "commit" /\ Current(w) =>
      LET r == row[job[w]] IN
      /\ draft[w].status \in {"succeeded", "unknown", "queued", "failed"}
      /\ draft[w].version = r.version + 1 /\ draft[w].gen = r.gen
      /\ draft[w].nonce = r.nonce
      /\ r.nonce => draft[w].status \in {"succeeded", "unknown"}
      /\ draft[w].reserved = IF draft[w].status = "unknown" THEN r.reserved ELSE 0
      /\ draft[w].budget + draft[w].reserved =
           r.budget + r.reserved - IF draft[w].status = "unknown" THEN 0 ELSE used[w]

\* What Cancel is about to write.
CancelDraft ==
  pc[Operator] = "cancel" /\ Current(Operator) =>
    LET r == row[job[Operator]] IN
    /\ draft[Operator].status = IF r.nonce THEN "unknown" ELSE "canceled"
    /\ draft[Operator].version = r.version + 1 /\ draft[Operator].gen = r.gen
    /\ draft[Operator].nonce = r.nonce
    /\ draft[Operator].reserved = r.reserved /\ draft[Operator].budget = r.budget

\* An execution was allowed by the intent of its approval, recorded before.
EffectsUnderIntent ==
  \A t \in Task, g \in Gen :
    effects[t][g] > 0 =>
      /\ t \in Write /\ g <= row[t].gen
      /\ g = row[t].gen => row[t].nonce

\* A worker whose version is the row's own runs the task: its claim still holds.
ClaimHolds ==
  \A w \in Worker :
    \/ pc[w] \in Working \ {"reread"} /\ Current(w)
    \/ pc[w] \in {"get", "reread"}
    => row[job[w]].status = "running" /\ row[job[w]].owner = w

\* Nobody is about to record a second intent.
IntentIsNew ==
  \A w \in Worker :
    \/ pc[w] \in {"check", "intent", "write"} /\ Current(w)
    \/ pc[w] = "get"
    => ~ row[job[w]].nonce

\* One worker at a time may start under an approval, and none did before.
StartIsNew ==
  \A w \in Worker :
    pc[w] \in {"reread", "start"} =>
      /\ effects[job[w]][draft[w].gen] = 0
      /\ \A v \in Worker :
           pc[v] \in {"reread", "start"} /\ job[v] = job[w] /\ draft[v].gen = draft[w].gen
           => v = w

IInv ==
  /\ TypeOK /\ VersionsSeen /\ IntentShape /\ BudgetAccounted
  /\ IntentDrafts /\ CompleteDrafts /\ CancelDraft /\ EffectsUnderIntent
  /\ PromptReadBack => ClaimHolds /\ IntentIsNew /\ StartIsNew /\ OncePerApproval

=============================================================================
