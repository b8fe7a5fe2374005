-------------------------- MODULE AgentTasksProofs --------------------------
(***************************************************************************)
(* Proofs about the durable task queue for every number of tasks and       *)
(* workers, every budget, usage and reservation, and every bound on        *)
(* approvals and versions.  IInv of AgentTasks is shown inductive: one     *)
(* lemma for each of its conjuncts, and in it one step per action.  What   *)
(* depends on nobody taking a row away between an update and its read-back *)
(* is stated under PromptReadBack; the rest holds without it.              *)
(***************************************************************************)
EXTENDS AgentTasks, TLAPS

-----------------------------------------------------------------------------
(* Rows.                                                                   *)

\* What a row's columns hold.
LEMMA Fields ==
  ASSUME NEW r \in RowType
  PROVE  /\ r.status \in Status /\ r.version \in Nat /\ r.nonce \in BOOLEAN
         /\ r.reserved \in Nat /\ r.budget \in Int /\ r.gen \in Gen
         /\ r.attempts \in Nat /\ r.owner \in Worker \cup {NoWorker}
         /\ r.live \in BOOLEAN
BY DEF RowType

\* Counting in a column.
LEMMA Counting ==
  ASSUME NEW r \in RowType, NEW k \in Nat
  PROVE  /\ r.version + 1 \in Nat /\ r.attempts + 1 \in Nat
         /\ r.reserved + k \in Nat /\ r.budget - k \in Int
         /\ r.budget + r.reserved \in Int /\ r.budget + r.reserved - k \in Int
<1>1. /\ r.version \in Nat /\ r.attempts \in Nat
      /\ r.reserved \in Nat /\ r.budget \in Int
  BY Fields
<1>. QED BY <1>1

\* A new task's row, and the draft of a process that has none.
LEMMA NewRowType == NewRow \in RowType
BY TasksAssumption DEF NewRow, RowType, Status, Gen

\* Recover, sweep and cancellation write a row.
LEMMA MovedType ==
  ASSUME NEW r \in RowType, NEW s \in Status
  PROVE  Moved(r, s) \in RowType
BY Counting DEF Moved, Unleased, RowType

\* Reserve and RecordIntent write a row.
LEMMA WithIntentType ==
  ASSUME NEW w \in Worker, NEW r \in RowType
  PROVE  WithIntent(w, r) \in RowType
<1>1. ReserveTokens[w] \in Nat
  BY TasksAssumption
<1>2. r.budget - ReserveTokens[w] \in Int /\ r.reserved + ReserveTokens[w] \in Nat
      /\ r.version + 1 \in Nat
  BY <1>1, Counting
<1>. QED BY <1>2 DEF WithIntent, RowType

\* The status that Complete chooses is one.
LEMMA NextStatusType ==
  ASSUME NEW t, NEW r, NEW outcome \in Outcomes
  PROVE  NextStatus(t, r, outcome) \in {"succeeded", "unknown", "queued", "failed"}
BY DEF NextStatus, Outcomes

\* Complete writes a row.
LEMMA CompletedType ==
  ASSUME NEW t \in Task, NEW r \in RowType, NEW outcome \in Outcomes, NEW usage \in Usages
  PROVE  Completed(t, r, outcome, usage) \in RowType
<1>. DEFINE status == NextStatus(t, r, outcome)
            counted == [r EXCEPT !.status = status, !.attempts = @ + 1, !.version = @ + 1]
            released == IF status = "queued" THEN Unleased(counted) ELSE counted
<1>1. status \in Status
  BY NextStatusType DEF Status
<1>2. counted \in RowType
  <2>1. r.version + 1 \in Nat /\ r.attempts + 1 \in Nat
    BY Counting
  <2>. QED BY <1>1, <2>1 DEF RowType
<1>3. released \in RowType /\ released.budget = r.budget
  <2>. HIDE DEF status
  <2>1. counted.budget = r.budget
    BY DEF RowType
  <2>. QED BY <1>2, <2>1 DEF Unleased, RowType
<1>4. r.budget + r.reserved - usage \in Int
  <2>1. usage \in Nat
    BY TasksAssumption
  <2>. QED BY <2>1, Counting
<1>5. Completed(t, r, outcome, usage) =
        IF status = "unknown" THEN released
        ELSE [released EXCEPT !.budget = @ + r.reserved - usage, !.reserved = 0]
  BY DEF Completed
<1>. HIDE DEF status, counted, released
<1>6. released.budget + r.reserved - usage \in Int
  BY <1>3, <1>4
<1>7. [released EXCEPT !.budget = released.budget + r.reserved - usage, !.reserved = 0]
        \in RowType
  BY <1>3, <1>6 DEF RowType
<1>. QED BY <1>3, <1>5, <1>7
-----------------------------------------------------------------------------
(* Types.                                                                  *)

StoreTypes ==
  /\ row \in [Task -> RowType]
  /\ overdue \in [Task -> BOOLEAN]
  /\ consumed \in [Task -> SUBSET Gen]

CallTypes ==
  /\ pc \in [Process -> Point]
  /\ pc[Operator] \in {"idle", "cancel"} /\ \A w \in Worker : pc[w] # "cancel"
  /\ job \in [Process -> Task \cup {0}]
  /\ \A p \in Process : pc[p] # "idle" => job[p] \in Task

LocalTypes ==
  /\ ver \in [Process -> Nat]
  /\ excluded \in [Worker -> SUBSET Task]
  /\ draft \in [Process -> RowType]
  /\ used \in [Worker -> Nat]

WorldTypes ==
  /\ effects \in [Task -> [Gen -> Nat]]
  /\ charged \in [Task -> Nat]

\* The types, in four parts.
LEMMA TypeParts == TypeOK <=> StoreTypes /\ CallTypes /\ LocalTypes /\ WorldTypes
BY DEF TypeOK, StoreTypes, CallTypes, LocalTypes, WorldTypes

\* The row of a call that is under way.
LEMMA RowOfCall ==
  ASSUME StoreTypes, CallTypes, NEW p \in Process, pc[p] # "idle"
  PROVE  job[p] \in Task /\ row[job[p]] \in RowType
BY DEF StoreTypes, CallTypes

\* A conditional update writes a row.
LEMMA PutTypes ==
  ASSUME StoreTypes, CallTypes, LocalTypes, NEW p \in Process, pc[p] # "idle", Put(p)
  PROVE  row' \in [Task -> RowType]
<1>1. row[job[p]] \in RowType /\ job[p] \in Task /\ draft[p] \in RowType
  BY RowOfCall DEF LocalTypes
<1>2. [draft[p] EXCEPT !.live = @ /\ row[job[p]].live] \in RowType
  BY <1>1 DEF RowType
<1>. QED BY <1>1, <1>2 DEF Put, StoreTypes

\* Every step keeps the types of rows, deadlines and approvals.
LEMMA StoreTypesKept ==
  ASSUME StoreTypes, CallTypes, LocalTypes, Next
  PROVE  StoreTypes'
<1>1. CASE \E t \in Task : Submit(t)
  <2>1. PICK t \in Task : Submit(t)
    BY <1>1
  <2>2. [row[t] EXCEPT !.status = IF t \in Write THEN "waiting" ELSE "queued"] \in RowType
    BY DEF StoreTypes, RowType, Status
  <2>. QED BY <2>1, <2>2 DEF StoreTypes, Submit
<1>2. CASE \E t \in Task : LeaseExpires(t)
  <2>1. PICK t \in Task : LeaseExpires(t)
    BY <1>2
  <2>2. [row[t] EXCEPT !.live = FALSE] \in RowType
    BY DEF StoreTypes, RowType
  <2>. QED BY <2>1, <2>2 DEF StoreTypes, LeaseExpires
<1>3. CASE \E t \in Task : DeadlinePasses(t)
  BY <1>3 DEF StoreTypes, storeVars, DeadlinePasses
<1>4. CASE \E t \in Task : CancelRead(t)
  BY <1>4 DEF StoreTypes, storeVars, CancelRead, Stopped, Moved, Unleased, Goto, Active
<1>5. CASE \E w \in Worker, t \in Task : ClaimSelect(w, t)
  BY <1>5 DEF StoreTypes, storeVars, ClaimSelect, Oldest, Eligible, Goto
<1>6. CASE \E w \in Worker : ClaimGivesUp(w)
  BY <1>6 DEF StoreTypes, storeVars, ClaimGivesUp, Finish, Goto, NewRow
<1>7. CASE \E w \in Worker : ClaimCAS(w)
  <2>1. PICK w \in Worker : ClaimCAS(w)
    BY <1>7
  <2>2. row[job[w]] \in RowType /\ job[w] \in Task
    BY <2>1, RowOfCall DEF ClaimCAS, Process
  <2>3. row[job[w]].version + 1 \in Nat
    BY <2>2, Counting
  <2>. DEFINE r == [row[job[w]] EXCEPT !.status = "running", !.version = @ + 1,
                                       !.owner = w, !.live = TRUE]
  <2>4. r \in RowType
    BY <2>2, <2>3 DEF RowType, Status
  <2>5. row' = [row EXCEPT ![job[w]] = r] \/ UNCHANGED row
    BY <2>1 DEF ClaimCAS
  <2>6. UNCHANGED <<overdue, consumed>>
    BY <2>1 DEF ClaimCAS
  <2>. HIDE DEF r
  <2>. QED BY <2>2, <2>4, <2>5, <2>6 DEF StoreTypes
<1>8. CASE \E w \in Worker : ClaimGet(w)
  BY <1>8 DEF StoreTypes, storeVars, ClaimGet, Goto
<1>9. CASE \E w \in Worker : CheckPasses(w) \/ CheckFails(w)
  BY <1>9 DEF StoreTypes, storeVars, CheckPasses, CheckFails, Goto
<1>10. CASE \E w \in Worker : IntentRead(w)
  BY <1>10 DEF StoreTypes, storeVars, IntentRead, WithIntent, Goto
<1>11. CASE \E w \in Worker : IntentWrite(w)
  <2>1. PICK w \in Worker : IntentWrite(w)
    BY <1>11
  <2>2. UNCHANGED <<overdue, consumed>> /\ (Put(w) \/ UNCHANGED row)
    BY <2>1 DEF IntentWrite
  <2>3. pc[w] # "idle"
    BY <2>1 DEF IntentWrite
  <2>. QED BY <2>2, <2>3, PutTypes DEF StoreTypes, Process
<1>12. CASE \E w \in Worker : IntentReread(w)
  BY <1>12 DEF StoreTypes, storeVars, IntentReread, Goto
<1>13. CASE \E w \in Worker : StartWrite(w)
  BY <1>13 DEF StoreTypes, storeVars, StartWrite, Goto
<1>14. CASE \E w \in Worker : CompleteStale(w)
  BY <1>14 DEF StoreTypes, storeVars, CompleteStale, Finish, Goto, NewRow
<1>15. CASE \E w \in Worker, o \in Outcomes, u \in Usages : CompleteRead(w, o, u)
  BY <1>15
     DEF StoreTypes, storeVars, CompleteRead, Completed, NextStatus, Intended, Unleased, Outcomes, Goto
<1>16. CASE \E w \in Worker : CompleteWrite(w)
  <2>1. PICK w \in Worker : CompleteWrite(w)
    BY <1>16
  <2>2. UNCHANGED <<overdue, consumed>> /\ (Put(w) \/ UNCHANGED row)
    BY <2>1 DEF CompleteWrite
  <2>3. pc[w] # "idle"
    BY <2>1 DEF CompleteWrite
  <2>. QED BY <2>2, <2>3, PutTypes DEF StoreTypes, Process
<1>17. CASE \E w \in Worker : RenewLease(w)
  <2>1. PICK w \in Worker : RenewLease(w)
    BY <1>17
  <2>2. row[job[w]] \in RowType /\ job[w] \in Task
    BY <2>1, RowOfCall DEF RenewLease, Working, Process
  <2>3. [row[job[w]] EXCEPT !.live = TRUE] \in RowType
    BY <2>2 DEF RowType
  <2>. QED BY <2>1, <2>2, <2>3 DEF StoreTypes, RenewLease
<1>18. CASE \E w \in Worker : Crash(w)
  BY <1>18 DEF StoreTypes, storeVars, Crash, Finish, Goto, NewRow
<1>19. CASE CancelWrite
  <2>1. UNCHANGED <<overdue, consumed>> /\ (Put(Operator) \/ UNCHANGED row)
    BY <1>19 DEF CancelWrite
  <2>2. pc[Operator] # "idle"
    BY <1>19 DEF CancelWrite
  <2>. QED BY <2>1, <2>2, PutTypes DEF StoreTypes, Process
<1>20. CASE RecoverRequeue
  <2>1. \A t \in Task : Moved(row[t], "queued") \in RowType
    BY MovedType DEF StoreTypes, Status
  <2>. QED BY <1>20, <2>1 DEF StoreTypes, RecoverRequeue
<1>21. CASE RecoverUnknown
  <2>1. \A t \in Task : Moved(row[t], "unknown") \in RowType
    BY MovedType DEF StoreTypes, Status
  <2>. QED BY <1>21, <2>1 DEF StoreTypes, RecoverUnknown
<1>22. CASE SweepTimeouts
  <2>1. \A t \in Task : Stopped(t, row[t], "timed_out") \in RowType
    BY MovedType DEF StoreTypes, Status, Stopped
  <2>. QED BY <1>22, <2>1 DEF StoreTypes, SweepTimeouts
<1>23. CASE \E t \in Task : Approve(t)
  <2>1. PICK t \in Task : Approve(t)
    BY <1>23
  <2>2. [row[t] EXCEPT !.status = "queued"] \in RowType /\ row[t].gen \in Gen
    BY DEF StoreTypes, RowType, Status
  <2>. QED BY <2>1, <2>2 DEF StoreTypes, Approve
<1>24. CASE \E t \in Task : RequeueUnknown(t)
  <2>1. PICK t \in Task : RequeueUnknown(t)
    BY <1>24
  <2>2. row[t] \in RowType
    BY DEF StoreTypes
  <2>3. row[t].version + 1 \in Nat /\ row[t].budget + row[t].reserved \in Int
    BY <2>2, Counting, TasksAssumption
  <2>4. IF t \in Write THEN row[t].gen + 1 \in Gen ELSE row[t].gen \in Gen
    BY <2>1, <2>2, Fields, TasksAssumption DEF RequeueUnknown, Gen
  <2>. DEFINE r == [row[t] EXCEPT !.status = IF t \in Write THEN "waiting" ELSE "queued",
                                  !.gen = IF t \in Write THEN @ + 1 ELSE @,
                                  !.budget = @ + row[t].reserved, !.reserved = 0,
                                  !.nonce = FALSE, !.version = @ + 1]
  <2>5. r \in RowType
    BY <2>2, <2>3, <2>4 DEF RowType, Status
  <2>6. row' = [row EXCEPT ![t] = r] /\ UNCHANGED <<overdue, consumed>>
    BY <2>1 DEF RequeueUnknown
  <2>. HIDE DEF r
  <2>. QED BY <2>5, <2>6 DEF StoreTypes
<1>25. CASE \E t \in Task, u \in Usages : ConfirmUnknown(t, u)
  <2>1. PICK t \in Task, u \in Usages : ConfirmUnknown(t, u)
    BY <1>25
  <2>2. row[t] \in RowType /\ u \in Nat
    BY TasksAssumption DEF StoreTypes
  <2>3. /\ row[t].version + 1 \in Nat /\ row[t].attempts + 1 \in Nat
        /\ row[t].budget + row[t].reserved - u \in Int
    BY <2>2, Counting
  <2>. DEFINE r == [row[t] EXCEPT !.status = "succeeded",
                                  !.budget = @ + row[t].reserved - u, !.reserved = 0,
                                  !.attempts = @ + 1, !.version = @ + 1]
  <2>4. r \in RowType
    BY <2>2, <2>3 DEF RowType, Status
  <2>5. row' = [row EXCEPT ![t] = r] /\ UNCHANGED <<overdue, consumed>>
    BY <2>1 DEF ConfirmUnknown
  <2>. HIDE DEF r
  <2>. QED BY <2>4, <2>5 DEF StoreTypes
<1>. QED BY <1>1, <1>2, <1>3, <1>4, <1>5, <1>6, <1>7, <1>8, <1>9, <1>10, <1>11, <1>12, <1>13,
            <1>14, <1>15, <1>16, <1>17, <1>18, <1>19, <1>20, <1>21, <1>22, <1>23, <1>24, <1>25
        DEF Next, Step, Reconcile

\* Every step keeps the types of where calls are.
LEMMA CallTypesKept ==
  ASSUME CallTypes, Next
  PROVE  CallTypes'
<1>1. CASE \E t \in Task : Submit(t)
  BY <1>1, TasksAssumption DEF CallTypes, Process, Point, Working, Submit
<1>2. CASE \E t \in Task : LeaseExpires(t)
  BY <1>2, TasksAssumption DEF CallTypes, Process, Point, Working, LeaseExpires
<1>3. CASE \E t \in Task : DeadlinePasses(t)
  BY <1>3, TasksAssumption DEF CallTypes, Process, Point, Working, DeadlinePasses
<1>4. CASE \E t \in Task : CancelRead(t)
  BY <1>4, TasksAssumption
     DEF CallTypes, Process, Point, Working, CancelRead, Stopped, Moved, Unleased, Goto, Active
<1>5. CASE \E w \in Worker, t \in Task : ClaimSelect(w, t)
  BY <1>5, TasksAssumption
     DEF CallTypes, Process, Point, Working, ClaimSelect, Oldest, Eligible, Goto
<1>6. CASE \E w \in Worker : ClaimGivesUp(w)
  BY <1>6, TasksAssumption
     DEF CallTypes, Process, Point, Working, ClaimGivesUp, Finish, Goto, NewRow
<1>7. CASE \E w \in Worker : ClaimCAS(w)
  BY <1>7, TasksAssumption DEF CallTypes, Process, Point, Working, ClaimCAS, Goto
<1>8. CASE \E w \in Worker : ClaimGet(w)
  BY <1>8, TasksAssumption DEF CallTypes, Process, Point, Working, ClaimGet, Goto
<1>9. CASE \E w \in Worker : CheckPasses(w) \/ CheckFails(w)
  BY <1>9, TasksAssumption DEF CallTypes, Process, Point, Working, CheckPasses, CheckFails, Goto
<1>10. CASE \E w \in Worker : IntentRead(w)
  BY <1>10, TasksAssumption DEF CallTypes, Process, Point, Working, IntentRead, WithIntent, Goto
<1>11. CASE \E w \in Worker : IntentWrite(w)
  BY <1>11, TasksAssumption DEF CallTypes, Process, Point, Working, IntentWrite, Fenced, Put, Goto
<1>12. CASE \E w \in Worker : IntentReread(w)
  BY <1>12, TasksAssumption DEF CallTypes, Process, Point, Working, IntentReread, Goto
<1>13. CASE \E w \in Worker : StartWrite(w)
  BY <1>13, TasksAssumption DEF CallTypes, Process, Point, Working, StartWrite, Goto
<1>14. CASE \E w \in Worker : CompleteStale(w)
  BY <1>14, TasksAssumption
     DEF CallTypes, Process, Point, Working, CompleteStale, Finish, Goto, NewRow
<1>15. CASE \E w \in Worker, o \in Outcomes, u \in Usages : CompleteRead(w, o, u)
  BY <1>15, TasksAssumption
     DEF CallTypes, Process, Point, Working, CompleteRead, Completed, NextStatus, Intended, Unleased, Outcomes, Goto
<1>16. CASE \E w \in Worker : CompleteWrite(w)
  BY <1>16, TasksAssumption
     DEF CallTypes, Process, Point, Working, CompleteWrite, Fenced, Put, Finish, Goto, NewRow
<1>17. CASE \E w \in Worker : RenewLease(w)
  BY <1>17, TasksAssumption DEF CallTypes, Process, Point, Working, RenewLease
<1>18. CASE \E w \in Worker : Crash(w)
  BY <1>18, TasksAssumption DEF CallTypes, Process, Point, Working, Crash, Finish, Goto, NewRow
<1>19. CASE CancelWrite
  BY <1>19, TasksAssumption
     DEF CallTypes, Process, Point, Working, CancelWrite, Fenced, Put, Finish, Goto, NewRow, Active
<1>20. CASE RecoverRequeue
  BY <1>20, TasksAssumption DEF CallTypes, Process, Point, Working, RecoverRequeue, Moved, Unleased
<1>21. CASE RecoverUnknown
  BY <1>21, TasksAssumption DEF CallTypes, Process, Point, Working, RecoverUnknown, Moved, Unleased
<1>22. CASE SweepTimeouts
  BY <1>22, TasksAssumption
     DEF CallTypes, Process, Point, Working, SweepTimeouts, Stopped, Moved, Unleased, Active
<1>23. CASE \E t \in Task : Approve(t)
  BY <1>23, TasksAssumption DEF CallTypes, Process, Point, Working, Approve
<1>24. CASE \E t \in Task : RequeueUnknown(t)
  BY <1>24, TasksAssumption DEF CallTypes, Process, Point, Working, RequeueUnknown
<1>25. CASE \E t \in Task, u \in Usages : ConfirmUnknown(t, u)
  BY <1>25, TasksAssumption DEF CallTypes, Process, Point, Working, ConfirmUnknown
<1>. QED BY <1>1, <1>2, <1>3, <1>4, <1>5, <1>6, <1>7, <1>8, <1>9, <1>10, <1>11, <1>12, <1>13,
            <1>14, <1>15, <1>16, <1>17, <1>18, <1>19, <1>20, <1>21, <1>22, <1>23, <1>24, <1>25
        DEF Next, Step, Reconcile

\* Every step keeps the types of what calls remember.
LEMMA LocalTypesKept ==
  ASSUME StoreTypes, CallTypes, LocalTypes, Next
  PROVE  LocalTypes'
<1>1. CASE \E t \in Task : Submit(t)
  BY <1>1 DEF LocalTypes, Process, storeVars, loopVars, Submit
<1>2. CASE \E t \in Task : LeaseExpires(t)
  BY <1>2 DEF LocalTypes, Process, storeVars, loopVars, LeaseExpires
<1>3. CASE \E t \in Task : DeadlinePasses(t)
  BY <1>3 DEF LocalTypes, Process, storeVars, loopVars, DeadlinePasses
<1>4. CASE \E t \in Task : CancelRead(t)
  <2>1. PICK t \in Task : CancelRead(t)
    BY <1>4
  <2>2. row[t] \in RowType /\ row[t].version \in Nat
    BY Fields DEF StoreTypes
  <2>3. Stopped(t, row[t], "canceled") \in RowType
    BY <2>2, MovedType DEF Stopped, Status
  <2>. QED BY <2>1, <2>2, <2>3 DEF LocalTypes, CancelRead, Process, loopVars
<1>5. CASE \E w \in Worker, t \in Task : ClaimSelect(w, t)
  <2>1. PICK w \in Worker, t \in Task : ClaimSelect(w, t)
    BY <1>5
  <2>2. row[t].version \in Nat
    BY Fields DEF StoreTypes
  <2>. QED BY <2>1, <2>2 DEF LocalTypes, ClaimSelect, Process, loopVars
<1>6. CASE \E w \in Worker : ClaimGivesUp(w)
  BY <1>6, NewRowType DEF LocalTypes, Process, ClaimGivesUp, Finish
<1>7. CASE \E w \in Worker : ClaimCAS(w)
  <2>1. PICK w \in Worker : ClaimCAS(w)
    BY <1>7
  <2>2. job[w] \in Task
    BY <2>1 DEF CallTypes, ClaimCAS, Process
  <2>. QED BY <2>1, <2>2 DEF LocalTypes, ClaimCAS
<1>8. CASE \E w \in Worker : ClaimGet(w)
  <2>1. PICK w \in Worker : ClaimGet(w)
    BY <1>8
  <2>2. row[job[w]] \in RowType /\ row[job[w]].version \in Nat
    BY <2>1, RowOfCall, Fields DEF ClaimGet, Process
  <2>. QED BY <2>1, <2>2 DEF LocalTypes, ClaimGet, Process
<1>9. CASE \E w \in Worker : CheckPasses(w) \/ CheckFails(w)
  BY <1>9 DEF LocalTypes, Process, storeVars, loopVars, CheckPasses, CheckFails, Goto
<1>10. CASE \E w \in Worker : IntentRead(w)
  <2>1. PICK w \in Worker : IntentRead(w)
    BY <1>10
  <2>2. row[job[w]] \in RowType /\ WithIntent(w, row[job[w]]) \in RowType
    BY <2>1, RowOfCall, WithIntentType DEF IntentRead, Process
  <2>. QED BY <2>1, <2>2 DEF LocalTypes, IntentRead, Process, loopVars
<1>11. CASE \E w \in Worker : IntentWrite(w)
  BY <1>11 DEF LocalTypes, Process, storeVars, loopVars, IntentWrite, Fenced, Put, Goto
<1>12. CASE \E w \in Worker : IntentReread(w)
  <2>1. PICK w \in Worker : IntentReread(w)
    BY <1>12
  <2>2. row[job[w]].version \in Nat
    BY <2>1, RowOfCall, Fields DEF IntentReread, Process
  <2>. QED BY <2>1, <2>2 DEF LocalTypes, IntentReread, Process, loopVars
<1>13. CASE \E w \in Worker : StartWrite(w)
  BY <1>13 DEF LocalTypes, Process, storeVars, loopVars, StartWrite, Goto
<1>14. CASE \E w \in Worker : CompleteStale(w)
  BY <1>14, NewRowType DEF LocalTypes, Process, loopVars, CompleteStale, Finish
<1>15. CASE \E w \in Worker, o \in Outcomes, u \in Usages : CompleteRead(w, o, u)
  <2>1. PICK w \in Worker, o \in Outcomes, u \in Usages : CompleteRead(w, o, u)
    BY <1>15
  <2>2. job[w] \in Task /\ row[job[w]] \in RowType
    BY <2>1, RowOfCall DEF CompleteRead, Process
  <2>3. Completed(job[w], row[job[w]], o, u) \in RowType /\ u \in Nat
    BY <2>2, CompletedType, TasksAssumption
  <2>. QED BY <2>1, <2>3 DEF LocalTypes, CompleteRead, Process
<1>16. CASE \E w \in Worker : CompleteWrite(w)
  BY <1>16, NewRowType DEF LocalTypes, Process, CompleteWrite, Finish
<1>17. CASE \E w \in Worker : RenewLease(w)
  BY <1>17 DEF LocalTypes, Process, storeVars, loopVars, RenewLease
<1>18. CASE \E w \in Worker : Crash(w)
  BY <1>18, NewRowType DEF LocalTypes, Process, Crash, Finish
<1>19. CASE CancelWrite
  BY <1>19, NewRowType DEF LocalTypes, Process, loopVars, CancelWrite, Finish
<1>20. CASE RecoverRequeue
  BY <1>20 DEF LocalTypes, Process, storeVars, loopVars, RecoverRequeue, Moved, Unleased
<1>21. CASE RecoverUnknown
  BY <1>21 DEF LocalTypes, Process, storeVars, loopVars, RecoverUnknown, Moved, Unleased
<1>22. CASE SweepTimeouts
  BY <1>22
     DEF LocalTypes, Process, storeVars, loopVars, SweepTimeouts, Stopped, Moved, Unleased, Active
<1>23. CASE \E t \in Task : Approve(t)
  BY <1>23 DEF LocalTypes, Process, storeVars, loopVars, Approve
<1>24. CASE \E t \in Task : RequeueUnknown(t)
  BY <1>24 DEF LocalTypes, Process, storeVars, loopVars, RequeueUnknown
<1>25. CASE \E t \in Task, u \in Usages : ConfirmUnknown(t, u)
  BY <1>25 DEF LocalTypes, Process, storeVars, loopVars, ConfirmUnknown
<1>. QED BY <1>1, <1>2, <1>3, <1>4, <1>5, <1>6, <1>7, <1>8, <1>9, <1>10, <1>11, <1>12, <1>13,
            <1>14, <1>15, <1>16, <1>17, <1>18, <1>19, <1>20, <1>21, <1>22, <1>23, <1>24, <1>25
        DEF Next, Step, Reconcile

\* Every step keeps the types of effects and charges.
LEMMA WorldTypesKept ==
  ASSUME StoreTypes, CallTypes, LocalTypes, WorldTypes, Next
  PROVE  WorldTypes'
<1>1. CASE \E t \in Task : Submit(t)
  BY <1>1 DEF WorldTypes, worldVars, Submit
<1>2. CASE \E t \in Task : LeaseExpires(t)
  BY <1>2 DEF WorldTypes, worldVars, LeaseExpires
<1>3. CASE \E t \in Task : DeadlinePasses(t)
  BY <1>3 DEF WorldTypes, worldVars, DeadlinePasses
<1>4. CASE \E t \in Task : CancelRead(t)
  BY <1>4 DEF WorldTypes, worldVars, CancelRead, Stopped, Moved, Unleased, Goto, Active
<1>5. CASE \E w \in Worker, t \in Task : ClaimSelect(w, t)
  BY <1>5 DEF WorldTypes, worldVars, ClaimSelect, Oldest, Eligible, Goto
<1>6. CASE \E w \in Worker : ClaimGivesUp(w)
  BY <1>6 DEF WorldTypes, worldVars, ClaimGivesUp, Finish, Goto, NewRow
<1>7. CASE \E w \in Worker : ClaimCAS(w)
  BY <1>7 DEF WorldTypes, worldVars, ClaimCAS, Goto
<1>8. CASE \E w \in Worker : ClaimGet(w)
  BY <1>8 DEF WorldTypes, worldVars, ClaimGet, Goto
<1>9. CASE \E w \in Worker : CheckPasses(w) \/ CheckFails(w)
  BY <1>9 DEF WorldTypes, worldVars, CheckPasses, CheckFails, Goto
<1>10. CASE \E w \in Worker : IntentRead(w)
  BY <1>10 DEF WorldTypes, worldVars, IntentRead, WithIntent, Goto
<1>11. CASE \E w \in Worker : IntentWrite(w)
  BY <1>11 DEF WorldTypes, worldVars, IntentWrite, Fenced, Put, Goto
<1>12. CASE \E w \in Worker : IntentReread(w)
  BY <1>12 DEF WorldTypes, worldVars, IntentReread, Goto
<1>13. CASE \E w \in Worker : StartWrite(w)
  <2>1. PICK w \in Worker : StartWrite(w)
    BY <1>13
  <2>2. job[w] \in Task /\ draft[w].gen \in Gen
    BY <2>1, RowOfCall, Fields DEF StartWrite, Process, LocalTypes
  <2>. QED BY <2>1, <2>2 DEF WorldTypes, StartWrite
<1>14. CASE \E w \in Worker : CompleteStale(w)
  BY <1>14 DEF WorldTypes, worldVars, CompleteStale, Finish, Goto, NewRow
<1>15. CASE \E w \in Worker, o \in Outcomes, u \in Usages : CompleteRead(w, o, u)
  BY <1>15
     DEF WorldTypes, worldVars, CompleteRead, Completed, NextStatus, Intended, Unleased, Outcomes, Goto
<1>16. CASE \E w \in Worker : CompleteWrite(w)
  <2>1. PICK w \in Worker : CompleteWrite(w)
    BY <1>16
  <2>2. job[w] \in Task /\ used[w] \in Nat
    BY <2>1, RowOfCall DEF CompleteWrite, Process, LocalTypes
  <2>. QED BY <2>1, <2>2 DEF WorldTypes, CompleteWrite
<1>17. CASE \E w \in Worker : RenewLease(w)
  BY <1>17 DEF WorldTypes, worldVars, RenewLease
<1>18. CASE \E w \in Worker : Crash(w)
  BY <1>18 DEF WorldTypes, worldVars, Crash, Finish, Goto, NewRow
<1>19. CASE CancelWrite
  BY <1>19 DEF WorldTypes, worldVars, CancelWrite, Fenced, Put, Finish, Goto, NewRow, Active
<1>20. CASE RecoverRequeue
  BY <1>20 DEF WorldTypes, worldVars, RecoverRequeue, Moved, Unleased
<1>21. CASE RecoverUnknown
  BY <1>21 DEF WorldTypes, worldVars, RecoverUnknown, Moved, Unleased
<1>22. CASE SweepTimeouts
  BY <1>22 DEF WorldTypes, worldVars, SweepTimeouts, Stopped, Moved, Unleased, Active
<1>23. CASE \E t \in Task : Approve(t)
  BY <1>23 DEF WorldTypes, worldVars, Approve
<1>24. CASE \E t \in Task : RequeueUnknown(t)
  BY <1>24 DEF WorldTypes, worldVars, RequeueUnknown
<1>25. CASE \E t \in Task, u \in Usages : ConfirmUnknown(t, u)
  BY <1>25, TasksAssumption DEF WorldTypes, ConfirmUnknown
<1>. QED BY <1>1, <1>2, <1>3, <1>4, <1>5, <1>6, <1>7, <1>8, <1>9, <1>10, <1>11, <1>12, <1>13,
            <1>14, <1>15, <1>16, <1>17, <1>18, <1>19, <1>20, <1>21, <1>22, <1>23, <1>24, <1>25
        DEF Next, Step, Reconcile

-----------------------------------------------------------------------------
(* What a step does to a row.                                              *)

\* The columns that the conditional updates are about stay as they are.
Same(i) ==
  /\ row'[i].version = row[i].version /\ row'[i].gen = row[i].gen
  /\ row'[i].nonce = row[i].nonce /\ row'[i].owner = row[i].owner
  /\ row'[i].budget = row[i].budget /\ row'[i].reserved = row[i].reserved
  /\ charged'[i] = charged[i]
  /\ \/ row'[i].status = row[i].status
     \/ row[i].status \in {"none", "waiting"} /\ row'[i].status \in {"waiting", "queued"}

\* The row is written under its next version.
Rewritten(i) ==
  /\ row'[i].version = row[i].version + 1
  /\ row[i].status \notin Settled
  /\ row[i].gen <= row'[i].gen
  /\ row[i].nonce /\ row'[i].gen = row[i].gen => row'[i].nonce
  /\ row'[i].nonce => i \in Write /\ row'[i].status \in {"running", "unknown", "succeeded"}
  /\ row'[i].budget + row'[i].reserved + charged'[i]
       = row[i].budget + row[i].reserved + charged[i]
  /\ row'[i].reserved > 0 => row'[i].nonce /\ row'[i].status \in {"running", "unknown"}

\* The types of a row, and what the invariant says of it.
LEMMA RowFacts ==
  ASSUME IInv, NEW i \in Task
  PROVE  /\ row \in [Task -> RowType] /\ row[i] \in RowType /\ charged[i] \in Nat
         /\ row[i].nonce =>
              i \in Write /\ row[i].status \in {"running", "unknown", "succeeded"}
         /\ row[i].reserved > 0 => row[i].nonce /\ row[i].status \in {"running", "unknown"}
BY DEF IInv, TypeOK, IntentShape, BudgetAccounted

\* Recover, sweep and cancellation hand a row on.
LEMMA MovedRow ==
  ASSUME NEW r \in RowType, NEW s \in Status
  PROVE  /\ Moved(r, s).status = s /\ Moved(r, s).version = r.version + 1
         /\ Moved(r, s).gen = r.gen /\ Moved(r, s).nonce = r.nonce
         /\ Moved(r, s).budget = r.budget /\ Moved(r, s).reserved = r.reserved
BY DEF Moved, Unleased, RowType

\* A conditional update writes the draft to its row, and no other.
LEMMA PutRow ==
  ASSUME IInv, NEW p \in Process, pc[p] # "idle", Put(p)
  PROVE  /\ \A i \in Task \ {job[p]} : row'[i] = row[i]
         /\ LET d == draft[p]
                r == row'[job[p]]
            IN  /\ r.status = d.status /\ r.version = d.version /\ r.gen = d.gen
                /\ r.nonce = d.nonce /\ r.owner = d.owner
                /\ r.budget = d.budget /\ r.reserved = d.reserved
<1>1. job[p] \in Task /\ draft[p] \in RowType /\ row \in [Task -> RowType]
  BY DEF IInv, TypeOK
<1>. QED BY <1>1 DEF Put, RowType

\* A row stays as it is or is written under its next version.
LEMMA RowSteps ==
  ASSUME IInv, NEW i \in Task, Next
  PROVE  Same(i) \/ Rewritten(i)
<1>1. CASE \E t \in Task : Submit(t)
  <2>1. PICK t \in Task : Submit(t)
    BY <1>1
  <2>2. row \in [Task -> RowType]
    BY RowFacts
  <2>. QED BY <2>1, <2>2 DEF Submit, Same, RowType, worldVars
<1>2. CASE \E t \in Task : LeaseExpires(t)
  <2>1. PICK t \in Task : LeaseExpires(t)
    BY <1>2
  <2>2. row \in [Task -> RowType]
    BY RowFacts
  <2>. QED BY <2>1, <2>2 DEF LeaseExpires, Same, RowType, worldVars
<1>3. CASE \E t \in Task : DeadlinePasses(t)
  BY <1>3 DEF Same, storeVars, worldVars, DeadlinePasses
<1>4. CASE \E t \in Task : CancelRead(t)
  BY <1>4 DEF Same, storeVars, worldVars, CancelRead, Stopped, Moved, Unleased, Goto, Active
<1>5. CASE \E w \in Worker, t \in Task : ClaimSelect(w, t)
  BY <1>5 DEF Same, storeVars, worldVars, ClaimSelect, Oldest, Eligible, Goto
<1>6. CASE \E w \in Worker : ClaimGivesUp(w)
  BY <1>6 DEF Same, storeVars, worldVars, ClaimGivesUp, Finish, Goto, NewRow
<1>7. CASE \E w \in Worker : ClaimCAS(w)
  <2>1. PICK w \in Worker : ClaimCAS(w)
    BY <1>7
  <2>2. charged' = charged
    BY <2>1 DEF ClaimCAS, worldVars
  <2>3. CASE row'[i] = row[i]
    BY <2>2, <2>3 DEF Same
  <2>4. CASE row'[i] # row[i]
    <3>. DEFINE r == [row[i] EXCEPT !.status = "running", !.version = @ + 1,
                                    !.owner = w, !.live = TRUE]
    <3>1. row[i].status = "queued" /\ row'[i] = r
      BY ZenonT(30), <2>1, <2>4, RowFacts DEF ClaimCAS
    <3>2. /\ r.status = "running" /\ r.version = row[i].version + 1
          /\ r.gen = row[i].gen /\ r.nonce = row[i].nonce
          /\ r.budget = row[i].budget /\ r.reserved = row[i].reserved
      BY RowFacts DEF RowType
    <3>. HIDE DEF r
    <3>3. Rewritten(i)
      BY <2>2, <3>1, <3>2, RowFacts, Fields DEF Rewritten, Settled, Terminal, Gen
    <3>. QED BY <3>3
  <2>. QED BY <2>3, <2>4
<1>8. CASE \E w \in Worker : ClaimGet(w)
  BY <1>8 DEF Same, storeVars, worldVars, ClaimGet, Goto
<1>9. CASE \E w \in Worker : CheckPasses(w) \/ CheckFails(w)
  BY <1>9 DEF Same, storeVars, worldVars, CheckPasses, CheckFails, Goto
<1>10. CASE \E w \in Worker : IntentRead(w)
  BY <1>10 DEF Same, storeVars, worldVars, IntentRead, WithIntent, Goto
<1>11. CASE \E w \in Worker : IntentWrite(w)
  <2>1. PICK w \in Worker : IntentWrite(w)
    BY <1>11
  <2>2. charged' = charged /\ w \in Process /\ pc[w] = "write" /\ pc[w] # "idle"
    BY <2>1 DEF IntentWrite, worldVars, Process
  <2>3. CASE row'[i] = row[i]
    BY <2>2, <2>3 DEF Same
  <2>4. CASE row'[i] # row[i]
    <3>1. Put(w) /\ Current(w) /\ job[w] = i
      BY <2>1, <2>2, <2>4, PutRow DEF IntentWrite, Fenced, Current
    <3>2. i \in Write /\ row[i].status = "running"
          /\ draft[w].status = "running" /\ draft[w].nonce
          /\ draft[w].version = row[i].version + 1 /\ draft[w].gen = row[i].gen
          /\ draft[w].budget + draft[w].reserved = row[i].budget + row[i].reserved
      BY <2>2, <3>1 DEF IInv, IntentDrafts
    <3>. QED BY <2>2, <3>1, <3>2, PutRow, RowFacts, Fields
             DEF Rewritten, Settled, Terminal, Gen
  <2>. QED BY <2>3, <2>4
<1>12. CASE \E w \in Worker : IntentReread(w)
  BY <1>12 DEF Same, storeVars, worldVars, IntentReread, Goto
<1>13. CASE \E w \in Worker : StartWrite(w)
  BY <1>13 DEF Same, storeVars, worldVars, StartWrite, Goto
<1>14. CASE \E w \in Worker : CompleteStale(w)
  BY <1>14 DEF Same, storeVars, worldVars, CompleteStale, Finish, Goto, NewRow
<1>15. CASE \E w \in Worker, o \in Outcomes, u \in Usages : CompleteRead(w, o, u)
  BY <1>15
     DEF Same, storeVars, worldVars, CompleteRead, Completed, NextStatus, Intended, Unleased, Outcomes, Goto
<1>16. CASE \E w \in Worker : CompleteWrite(w)
  <2>1. PICK w \in Worker : CompleteWrite(w)
    BY <1>16
  <2>2. w \in Process /\ pc[w] = "commit" /\ pc[w] # "idle"
        /\ job[w] \in Task /\ used[w] \in Nat /\ charged \in [Task -> Nat]
    BY <2>1 DEF CompleteWrite, Process, IInv, TypeOK
  <2>3. CASE ~ Fenced(w, {"running"}) \/ i # job[w]
    BY <2>1, <2>2, <2>3, PutRow DEF CompleteWrite, Same
  <2>4. CASE Fenced(w, {"running"}) /\ i = job[w]
    <3>1. Put(w) /\ Current(w) /\ row[i].status = "running"
      BY <2>1, <2>4 DEF CompleteWrite, Fenced, Current
    <3>2. /\ draft[w].status \in {"succeeded", "unknown", "queued", "failed"}
          /\ draft[w].version = row[i].version + 1 /\ draft[w].gen = row[i].gen
          /\ draft[w].nonce = row[i].nonce
          /\ row[i].nonce => draft[w].status \in {"succeeded", "unknown"}
          /\ draft[w].reserved = IF draft[w].status = "unknown" THEN row[i].reserved ELSE 0
          /\ draft[w].budget + draft[w].reserved =
               row[i].budget + row[i].reserved - IF draft[w].status = "unknown" THEN 0 ELSE used[w]
      BY <2>2, <2>4, <3>1 DEF IInv, CompleteDrafts
    <3>3. charged'[i] = charged[i] + IF draft[w].status = "unknown" THEN 0 ELSE used[w]
      BY <2>1, <2>2, <2>4 DEF CompleteWrite
    <3>4. LET r == row'[i] IN
          /\ r.status = draft[w].status /\ r.version = row[i].version + 1 /\ r.gen = row[i].gen
          /\ r.nonce = row[i].nonce
          /\ r.budget = draft[w].budget /\ r.reserved = draft[w].reserved
      BY <2>2, <2>4, <3>1, <3>2, PutRow
    <3>5. draft[w].budget \in Int /\ draft[w].reserved \in Nat
      BY <2>2, Fields DEF IInv, TypeOK
    <3>6. row'[i].budget + row'[i].reserved + charged'[i]
            = row[i].budget + row[i].reserved + charged[i]
      BY <2>2, <3>2, <3>3, <3>4, <3>5, RowFacts, Fields
    <3>. QED BY <3>1, <3>2, <3>4, <3>6, RowFacts, Fields
             DEF Rewritten, Settled, Terminal, Gen
  <2>. QED BY <2>3, <2>4
<1>17. CASE \E w \in Worker : RenewLease(w)
  <2>1. PICK w \in Worker : RenewLease(w)
    BY <1>17
  <2>2. row \in [Task -> RowType]
    BY RowFacts
  <2>. QED BY <2>1, <2>2 DEF RenewLease, Same, RowType, worldVars
<1>18. CASE \E w \in Worker : Crash(w)
  BY <1>18 DEF Same, storeVars, worldVars, Crash, Finish, Goto, NewRow
<1>19. CASE CancelWrite
  <2>1. Operator \in Process /\ charged' = charged /\ pc[Operator] = "cancel"
        /\ pc[Operator] # "idle"
    BY <1>19 DEF CancelWrite, worldVars, Process
  <2>2. CASE row'[i] = row[i]
    BY <2>1, <2>2 DEF Same
  <2>3. CASE row'[i] # row[i]
    <3>1. Put(Operator) /\ Current(Operator) /\ job[Operator] = i /\ row[i].status \in Active
      BY <1>19, <2>1, <2>3, PutRow DEF CancelWrite, Fenced, Current
    <3>2. /\ draft[Operator].status = IF row[i].nonce THEN "unknown" ELSE "canceled"
          /\ draft[Operator].version = row[i].version + 1 /\ draft[Operator].gen = row[i].gen
          /\ draft[Operator].nonce = row[i].nonce
          /\ draft[Operator].reserved = row[i].reserved /\ draft[Operator].budget = row[i].budget
      BY <2>1, <3>1 DEF IInv, CancelDraft
    <3>. QED BY <2>1, <3>1, <3>2, PutRow, RowFacts, Fields
             DEF Rewritten, Settled, Terminal, Active, Gen
  <2>. QED BY <2>2, <2>3
<1>20. CASE RecoverRequeue
  <2>1. charged' = charged
    BY <1>20 DEF RecoverRequeue, worldVars
  <2>2. CASE ~ (Abandoned(i) /\ ~ Intended(i, row[i]))
    BY <1>20, <2>1, <2>2 DEF RecoverRequeue, Same
  <2>3. CASE Abandoned(i) /\ ~ Intended(i, row[i])
    <3>1. row'[i] = Moved(row[i], "queued") /\ row[i].status = "running" /\ ~ row[i].nonce
      BY <1>20, <2>3, RowFacts DEF RecoverRequeue, Abandoned, Intended
    <3>. QED BY <2>1, <3>1, MovedRow, RowFacts, Fields DEF Rewritten, Settled, Terminal, Gen, Status
  <2>. QED BY <2>2, <2>3
<1>21. CASE RecoverUnknown
  <2>1. charged' = charged
    BY <1>21 DEF RecoverUnknown, worldVars
  <2>2. CASE ~ (Abandoned(i) /\ Intended(i, row[i]))
    BY <1>21, <2>1, <2>2 DEF RecoverUnknown, Same
  <2>3. CASE Abandoned(i) /\ Intended(i, row[i])
    <3>1. row'[i] = Moved(row[i], "unknown") /\ row[i].status = "running" /\ i \in Write
      BY <1>21, <2>3 DEF RecoverUnknown, Abandoned, Intended
    <3>. QED BY <2>1, <3>1, MovedRow, RowFacts, Fields DEF Rewritten, Settled, Terminal, Gen, Status
  <2>. QED BY <2>2, <2>3
<1>22. CASE SweepTimeouts
  <2>1. charged' = charged
    BY <1>22 DEF SweepTimeouts, worldVars
  <2>2. CASE ~ (overdue[i] /\ row[i].status \in Active)
    BY <1>22, <2>1, <2>2 DEF SweepTimeouts, Same
  <2>3. CASE overdue[i] /\ row[i].status \in Active
    <3>1. row'[i] = Stopped(i, row[i], "timed_out")
      BY <1>22, <2>3 DEF SweepTimeouts
    <3>2. row'[i] = Moved(row[i], IF row[i].nonce THEN "unknown" ELSE "timed_out")
      BY <2>3, <3>1, RowFacts DEF Stopped, Intended, Active
    <3>. QED BY <2>1, <2>3, <3>2, MovedRow, RowFacts, Fields
             DEF Rewritten, Settled, Terminal, Active, Gen, Status
  <2>. QED BY <2>2, <2>3
<1>23. CASE \E t \in Task : Approve(t)
  <2>1. PICK t \in Task : Approve(t)
    BY <1>23
  <2>2. row \in [Task -> RowType]
    BY RowFacts
  <2>. QED BY <2>1, <2>2 DEF Approve, Same, RowType, worldVars
<1>24. CASE \E t \in Task : RequeueUnknown(t)
  <2>1. PICK t \in Task : RequeueUnknown(t)
    BY <1>24
  <2>2. charged' = charged
    BY <2>1 DEF RequeueUnknown, worldVars
  <2>3. CASE i # t
    BY <2>1, <2>2, <2>3 DEF RequeueUnknown, Same
  <2>4. CASE i = t
    <3>. DEFINE r == [row[i] EXCEPT !.status = IF i \in Write THEN "waiting" ELSE "queued",
                                    !.gen = IF i \in Write THEN @ + 1 ELSE @,
                                    !.budget = @ + row[i].reserved, !.reserved = 0,
                                    !.nonce = FALSE, !.version = @ + 1]
    <3>1. row[i].status = "unknown" /\ row'[i] = r
      BY <2>1, <2>4, RowFacts DEF RequeueUnknown
    <3>2. /\ r.version = row[i].version + 1
          /\ r.gen = IF i \in Write THEN row[i].gen + 1 ELSE row[i].gen
          /\ ~ r.nonce /\ r.budget = row[i].budget + row[i].reserved /\ r.reserved = 0
      BY RowFacts DEF RowType
    <3>. HIDE DEF r
    <3>3. row[i].gen \in Nat /\ row[i].budget \in Int /\ row[i].reserved \in Nat
      BY RowFacts, Fields, TasksAssumption DEF Gen
    <3>. QED BY <2>2, <3>1, <3>2, <3>3, RowFacts DEF Rewritten, Settled
  <2>. QED BY <2>3, <2>4
<1>25. CASE \E t \in Task, u \in Usages : ConfirmUnknown(t, u)
  <2>1. PICK t \in Task, u \in Usages : ConfirmUnknown(t, u)
    BY <1>25
  <2>2. u \in Nat /\ charged \in [Task -> Nat]
    BY TasksAssumption DEF IInv, TypeOK
  <2>3. CASE i # t
    BY <2>1, <2>2, <2>3 DEF ConfirmUnknown, Same
  <2>4. CASE i = t
    <3>. DEFINE r == [row[i] EXCEPT !.status = "succeeded",
                                    !.budget = @ + row[i].reserved - u, !.reserved = 0,
                                    !.attempts = @ + 1, !.version = @ + 1]
    <3>1. row[i].status = "unknown" /\ row'[i] = r /\ charged'[i] = charged[i] + u
      BY <2>1, <2>2, <2>4, RowFacts DEF ConfirmUnknown
    <3>2. /\ r.status = "succeeded" /\ r.version = row[i].version + 1
          /\ r.gen = row[i].gen /\ r.nonce = row[i].nonce
          /\ r.budget = row[i].budget + row[i].reserved - u /\ r.reserved = 0
      BY RowFacts DEF RowType
    <3>. HIDE DEF r
    <3>3. row[i].gen \in Nat /\ row[i].budget \in Int /\ row[i].reserved \in Nat
      BY RowFacts, Fields, TasksAssumption DEF Gen
    <3>. QED BY <2>2, <3>1, <3>2, <3>3, RowFacts DEF Rewritten, Settled
  <2>. QED BY <2>3, <2>4
<1>. QED BY <1>1, <1>2, <1>3, <1>4, <1>5, <1>6, <1>7, <1>8, <1>9, <1>10, <1>11, <1>12, <1>13,
            <1>14, <1>15, <1>16, <1>17, <1>18, <1>19, <1>20, <1>21, <1>22, <1>23, <1>24, <1>25
        DEF Next, Step, Reconcile

-----------------------------------------------------------------------------
(* What a step does to a call.                                             *)

Kept(p) ==
  /\ pc'[p] = pc[p] /\ job'[p] = job[p] /\ ver'[p] = ver[p] /\ draft'[p] = draft[p]

\* A worker's call is moved by its own steps and its own crash only.
LEMMA WorkerSteps ==
  ASSUME TypeOK, Next, NEW v \in Worker
  PROVE  \/ Kept(v) /\ used'[v] = used[v]
         \/ Step(v) \/ Crash(v)
<1>. v \in Process /\ v # Operator
  BY TasksAssumption DEF Process
<1>1. CASE \E t \in Task : Submit(t) \/ LeaseExpires(t) \/ DeadlinePasses(t)
  BY <1>1 DEF Submit, LeaseExpires, DeadlinePasses, Kept, loopVars
<1>2. CASE \E t \in Task : CancelRead(t)
  BY <1>2 DEF CancelRead, Kept, loopVars, Goto, TypeOK
<1>3. CASE \E w \in Worker : Step(w)
  <2>1. PICK w \in Worker : Step(w)
    BY <1>3
  <2>2. CASE w = v
    BY <2>1, <2>2
  <2>3. CASE w # v
    <3>1. job'[v] = job[v] /\ ver'[v] = ver[v]
      BY <2>1, <2>3 DEF Step, TypeOK, Process, Goto, Finish, ClaimSelect, ClaimGivesUp, ClaimCAS,
         ClaimGet, CheckPasses, CheckFails, IntentRead, IntentWrite, IntentReread, StartWrite,
         CompleteStale, CompleteRead, CompleteWrite
    <3>2. pc'[v] = pc[v]
      BY <2>1, <2>3 DEF Step, TypeOK, Process, Goto, Finish, ClaimSelect, ClaimGivesUp, ClaimCAS,
         ClaimGet, CheckPasses, CheckFails, IntentRead, IntentWrite, IntentReread, StartWrite,
         CompleteStale, CompleteRead, CompleteWrite
    <3>3. draft'[v] = draft[v] /\ used'[v] = used[v]
      BY <2>1, <2>3 DEF Step, TypeOK, Process, Finish, ClaimSelect, ClaimGivesUp, ClaimCAS,
         ClaimGet, CheckPasses, CheckFails, IntentRead, IntentWrite, IntentReread, StartWrite,
         CompleteStale, CompleteRead, CompleteWrite, loopVars
    <3>. QED BY <3>1, <3>2, <3>3 DEF Kept
  <2>. QED BY <2>2, <2>3
<1>4. CASE \E w \in Worker : RenewLease(w)
  BY <1>4 DEF RenewLease, Kept, loopVars
<1>5. CASE \E w \in Worker : Crash(w)
  BY <1>5 DEF Crash, Kept, Finish, Goto, TypeOK
<1>6. CASE CancelWrite
  BY <1>6 DEF CancelWrite, Kept, Finish, Goto, TypeOK, loopVars
<1>7. CASE RecoverRequeue \/ RecoverUnknown \/ SweepTimeouts
  BY <1>7 DEF RecoverRequeue, RecoverUnknown, SweepTimeouts, Kept, loopVars
<1>8. CASE Reconcile
  BY <1>8 DEF Reconcile, Approve, RequeueUnknown, ConfirmUnknown, Kept, loopVars
<1>. QED BY <1>1, <1>2, <1>3, <1>4, <1>5, <1>6, <1>7, <1>8 DEF Next

\* The operator's call is moved by its own statements only.
LEMMA OperatorSteps ==
  ASSUME TypeOK, Next
  PROVE  Kept(Operator) \/ (\E t \in Task : CancelRead(t)) \/ CancelWrite
<1>. Operator \in Process /\ Operator \notin Worker
  BY TasksAssumption DEF Process
<1>1. CASE \E t \in Task : Submit(t) \/ LeaseExpires(t) \/ DeadlinePasses(t)
  BY <1>1 DEF Submit, LeaseExpires, DeadlinePasses, Kept
<1>2. CASE \E w \in Worker : Step(w)
  <2>1. PICK w \in Worker : Step(w)
    BY <1>2
  <2>2. pc'[Operator] = pc[Operator]
    BY <2>1 DEF Step, TypeOK, Process, Goto, Finish, ClaimSelect, ClaimGivesUp, ClaimCAS,
       ClaimGet, CheckPasses, CheckFails, IntentRead, IntentWrite, IntentReread, StartWrite,
       CompleteStale, CompleteRead, CompleteWrite
  <2>3. job'[Operator] = job[Operator] /\ ver'[Operator] = ver[Operator]
    BY <2>1 DEF Step, TypeOK, Process, Finish, ClaimSelect, ClaimGivesUp, ClaimCAS,
       ClaimGet, CheckPasses, CheckFails, IntentRead, IntentWrite, IntentReread, StartWrite,
       CompleteStale, CompleteRead, CompleteWrite
  <2>4. draft'[Operator] = draft[Operator]
    BY <2>1 DEF Step, TypeOK, Process, Finish, ClaimSelect, ClaimGivesUp, ClaimCAS,
       ClaimGet, CheckPasses, CheckFails, IntentRead, IntentWrite, IntentReread, StartWrite,
       CompleteStale, CompleteRead, CompleteWrite
  <2>. QED BY <2>2, <2>3, <2>4 DEF Kept
<1>3. CASE \E w \in Worker : RenewLease(w)
  BY <1>3 DEF RenewLease, Kept
<1>4. CASE \E w \in Worker : Crash(w)
  BY <1>4 DEF Crash, Kept, Finish, Goto, TypeOK
<1>5. CASE RecoverRequeue \/ RecoverUnknown \/ SweepTimeouts
  BY <1>5 DEF RecoverRequeue, RecoverUnknown, SweepTimeouts, Kept
<1>6. CASE Reconcile
  BY <1>6 DEF Reconcile, Approve, RequeueUnknown, ConfirmUnknown, Kept
<1>. QED BY <1>1, <1>2, <1>3, <1>4, <1>5, <1>6 DEF Next

\* A reading call goes on with the version that it read, or with a row that changed.
LEMMA Overtaken ==
  ASSUME IInv, Next, NEW p \in Process, pc[p] # "idle", Kept(p)
  PROVE  /\ job[p] \in Task /\ ver'[p] <= row'[job[p]].version
         /\ Current(p)' => Current(p) /\ Same(job[p])
<1>1. job[p] \in Task /\ row[job[p]] \in RowType /\ ver[p] \in Nat
  BY DEF IInv, TypeOK
<1>2. row[job[p]].version \in Nat /\ ver[p] <= row[job[p]].version
  BY <1>1, Fields DEF IInv, VersionsSeen
<1>3. Same(job[p]) \/ Rewritten(job[p])
  BY <1>1, RowSteps
<1>4. row'[job[p]].version \in {row[job[p]].version, row[job[p]].version + 1}
  BY <1>3 DEF Same, Rewritten
<1>5. row'[job[p]].version = row[job[p]].version => Same(job[p])
  BY <1>2, <1>3 DEF Rewritten
<1>. QED BY <1>1, <1>2, <1>4, <1>5 DEF Kept, Current

-----------------------------------------------------------------------------
(* Every conjunct of the invariant is kept.                                *)

\* Every step keeps the types.
LEMMA TypesKept == TypeOK /\ Next => TypeOK'
BY TypeParts, StoreTypesKept, CallTypesKept, LocalTypesKept, WorldTypesKept
   DEF TypeOK, StoreTypes, CallTypes, LocalTypes, WorldTypes

\* The version of a row never goes back.
LEMMA VersionsGrow ==
  ASSUME IInv, Next, NEW i \in Task
  PROVE  row[i].version \in Nat /\ row'[i].version \in Nat /\ row[i].version <= row'[i].version
BY RowSteps, RowFacts, Fields DEF Same, Rewritten

\* A version that was seen stays behind the row.
LEMMA VersionsSeenKept == IInv /\ Next => VersionsSeen'
<1>. SUFFICES ASSUME IInv, Next, NEW p \in Process, pc'[p] # "idle"
              PROVE  ver'[p] <= row'[job'[p]].version
  BY DEF VersionsSeen
<1>. TypeOK /\ p \in Worker \cup {Operator}
  BY DEF IInv, Process
<1>1. CASE Kept(p)
  BY <1>1, Overtaken DEF Kept
<1>2. CASE p \in Worker /\ Step(p)
  <2>1. CASE \E t \in Task : ClaimSelect(p, t)
    BY <2>1, VersionsGrow DEF ClaimSelect, TypeOK, storeVars
  <2>2. CASE ClaimCAS(p)
    BY <2>2, VersionsGrow DEF ClaimCAS, IInv, VersionsSeen, TypeOK
  <2>3. CASE ClaimGet(p) \/ IntentReread(p)
    BY <2>3, VersionsGrow DEF ClaimGet, IntentReread, TypeOK, storeVars
  <2>4. CASE IntentWrite(p)
    BY <2>4, VersionsGrow DEF IntentWrite, IInv, VersionsSeen, TypeOK
  <2>5. CASE ClaimGivesUp(p) \/ CompleteStale(p) \/ CompleteWrite(p)
    BY <2>5 DEF ClaimGivesUp, CompleteStale, CompleteWrite, Finish, Goto, TypeOK
  <2>6. CASE \/ CheckPasses(p) \/ CheckFails(p) \/ IntentRead(p) \/ StartWrite(p)
             \/ \E o \in Outcomes, u \in Usages : CompleteRead(p, o, u)
    BY <2>6 DEF CheckPasses, CheckFails, IntentRead, StartWrite, CompleteRead,
       IInv, VersionsSeen, storeVars
  <2>. QED BY <1>2, <2>1, <2>2, <2>3, <2>4, <2>5, <2>6 DEF Step
<1>3. CASE p \in Worker /\ Crash(p)
  BY <1>3 DEF Crash, Finish, Goto, TypeOK
<1>4. CASE p = Operator /\ \E t \in Task : CancelRead(t)
  BY <1>4, VersionsGrow DEF CancelRead, TypeOK, storeVars
<1>5. CASE p = Operator /\ CancelWrite
  BY <1>5 DEF CancelWrite, Finish, Goto, TypeOK
<1>. QED BY <1>1, <1>2, <1>3, <1>4, <1>5, WorkerSteps, OperatorSteps

\* Only writes get an intent, and the operator alone takes it away.
LEMMA IntentShapeKept == IInv /\ Next => IntentShape'
<1>. SUFFICES ASSUME IInv, Next, NEW i \in Task, row'[i].nonce
              PROVE  i \in Write /\ row'[i].status \in {"running", "unknown", "succeeded"}
  BY DEF IntentShape
<1>. QED BY RowSteps, RowFacts DEF Same, Rewritten

\* No token is lost or charged twice.
LEMMA BudgetAccountedKept == IInv /\ Next => BudgetAccounted'
<1>. SUFFICES ASSUME IInv, Next, NEW i \in Task
              PROVE  /\ row'[i].budget + row'[i].reserved + charged'[i] = Budget
                     /\ row'[i].reserved > 0 =>
                          row'[i].nonce /\ row'[i].status \in {"running", "unknown"}
  BY DEF BudgetAccounted
<1>1. row[i].budget + row[i].reserved + charged[i] = Budget
  BY DEF IInv, BudgetAccounted
<1>. QED BY <1>1, RowSteps, RowFacts DEF Same, Rewritten

\* An execution stays under its intent.
LEMMA EffectsUnderIntentKept == IInv /\ Next => EffectsUnderIntent'
<1>. SUFFICES ASSUME IInv, Next, NEW i \in Task, NEW g \in Gen, effects'[i][g] > 0
              PROVE  i \in Write /\ g <= row'[i].gen /\ (g = row'[i].gen => row'[i].nonce)
  BY DEF EffectsUnderIntent
<1>0. row[i].gen \in Nat /\ g \in Nat /\ effects[i][g] \in Nat
  BY RowFacts, Fields, TasksAssumption DEF Gen, IInv, TypeOK
<1>1. /\ row[i].gen <= row'[i].gen
      /\ row[i].nonce /\ row'[i].gen = row[i].gen => row'[i].nonce
      /\ row'[i].gen = row[i].gen \/ row'[i].gen # row[i].gen
      /\ row'[i].gen \in Nat
  <2>1. row'[i] \in RowType
    BY TypesKept DEF IInv, TypeOK
  <2>. QED BY <1>0, <2>1, RowSteps, RowFacts, Fields, TasksAssumption DEF Same, Rewritten, Gen
<1>2. CASE effects[i][g] > 0
  BY <1>0, <1>1, <1>2 DEF IInv, EffectsUnderIntent
<1>3. CASE ~ effects[i][g] > 0
  <2>1. effects' # effects
    BY <1>3
  <2>2. PICK w \in Worker : StartWrite(w)
    BY <2>1 DEF Next, Step, Reconcile, Submit, LeaseExpires, DeadlinePasses, CancelRead,
       ClaimSelect, ClaimGivesUp, ClaimCAS, ClaimGet, CheckPasses, CheckFails, IntentRead,
       IntentWrite, IntentReread, CompleteStale, CompleteWrite, CompleteRead, RenewLease, Crash,
       CancelWrite, RecoverRequeue, RecoverUnknown, SweepTimeouts, Approve, RequeueUnknown,
       ConfirmUnknown, worldVars
  <2>3. i = job[w] /\ g = draft[w].gen
    BY <1>3, <2>2 DEF StartWrite, IInv, TypeOK
  <2>. QED BY <1>0, <1>1, <2>2, <2>3 DEF StartWrite, IInv, IntentDrafts, storeVars
<1>. QED BY <1>2, <1>3

\* What Cancel is about to write stays what it read, or is fenced off.
LEMMA CancelDraftKept == IInv /\ Next => CancelDraft'
<1>. SUFFICES ASSUME IInv, Next, pc'[Operator] = "cancel", Current(Operator)'
              PROVE  LET r == row'[job'[Operator]]
                         d == draft'[Operator]
                     IN  /\ d.status = IF r.nonce THEN "unknown" ELSE "canceled"
                         /\ d.version = r.version + 1 /\ d.gen = r.gen
                         /\ d.nonce = r.nonce
                         /\ d.reserved = r.reserved /\ d.budget = r.budget
  BY DEF CancelDraft
<1>. TypeOK /\ Operator \in Process
  BY DEF IInv, Process
<1>1. CASE Kept(Operator)
  BY <1>1, Overtaken DEF Kept, Same, IInv, CancelDraft
<1>2. CASE \E t \in Task : CancelRead(t)
  <2>1. PICK t \in Task : CancelRead(t)
    BY <1>2
  <2>2. job'[Operator] = t /\ draft'[Operator] = Stopped(t, row[t], "canceled") /\ row' = row
    BY <2>1 DEF CancelRead, TypeOK, storeVars
  <2>3. Stopped(t, row[t], "canceled") = Moved(row[t], IF row[t].nonce THEN "unknown" ELSE "canceled")
    BY <2>1, RowFacts DEF Stopped, Intended, CancelRead, Active
  <2>. QED BY <2>2, <2>3, MovedRow, RowFacts DEF Status
<1>3. CASE CancelWrite
  BY <1>3 DEF CancelWrite, Finish, Goto, TypeOK
<1>. QED BY <1>1, <1>2, <1>3, OperatorSteps

\* A call that is not under way owes nothing.
LEMMA CallEnds ==
  ASSUME TypeOK, NEW v \in Worker,
         \/ ClaimGivesUp(v) \/ CompleteStale(v) \/ CompleteWrite(v) \/ Crash(v)
  PROVE  pc'[v] = "idle"
BY DEF ClaimGivesUp, CompleteStale, CompleteWrite, Crash, Finish, Goto, TypeOK, Process

\* The row that Reserve or RecordIntent is about to write.
LEMMA WithIntentRow ==
  ASSUME NEW w \in Worker, NEW r \in RowType
  PROVE  LET d == WithIntent(w, r) IN
         /\ d.status = r.status /\ d.nonce /\ d.version = r.version + 1 /\ d.gen = r.gen
         /\ d.owner = r.owner /\ d.budget + d.reserved = r.budget + r.reserved
<1>1. ReserveTokens[w] \in Nat /\ r.budget \in Int /\ r.reserved \in Nat
  BY TasksAssumption, Fields
<1>2. LET d == WithIntent(w, r) IN
        /\ d.status = r.status /\ d.nonce /\ d.version = r.version + 1 /\ d.gen = r.gen
        /\ d.owner = r.owner
        /\ d.budget = r.budget - ReserveTokens[w] /\ d.reserved = r.reserved + ReserveTokens[w]
  BY DEF WithIntent, RowType
<1>. QED BY <1>1, <1>2

\* What a worker has read of an intent, or is about to write of it, stays true.
LEMMA IntentDraftsKept == IInv /\ Next => IntentDrafts'
<1>. SUFFICES ASSUME IInv, Next, NEW w \in Worker
              PROVE  LET r == row'[job'[w]]
                         d == draft'[w]
                     IN  /\ pc'[w] \in {"check", "intent", "write", "reread", "start"} =>
                              job'[w] \in Write /\ d.gen <= r.gen
                         /\ pc'[w] \in {"reread", "start"} /\ d.gen = r.gen => r.nonce
                         /\ pc'[w] = "write" /\ Current(w)' =>
                              /\ r.status = "running"
                              /\ d.status = "running" /\ d.nonce
                              /\ d.version = r.version + 1 /\ d.gen = r.gen
                              /\ d.owner = r.owner
                              /\ d.budget + d.reserved = r.budget + r.reserved
  BY DEF IntentDrafts
<1>. TypeOK /\ w \in Process
  BY DEF IInv, Process
<1>0. pc[w] \notin {"idle", "claim"} =>
        /\ job[w] \in Task /\ row[job[w]] \in RowType /\ draft[w] \in RowType
        /\ row[job[w]].gen \in Nat /\ draft[w].gen \in Nat
  BY Fields, TasksAssumption DEF TypeOK, Gen
<1>1. CASE Kept(w) /\ pc[w] \in {"check", "intent", "write", "reread", "start"}
  <2>1. job[w] \in Task /\ (Current(w)' => Current(w) /\ Same(job[w]))
    BY <1>1, Overtaken
  <2>2. LET r == row[job[w]]
            n == row'[job[w]]
        IN  /\ r.gen <= n.gen /\ n.gen \in Nat
            /\ r.nonce /\ n.gen = r.gen => n.nonce
    <3>1. row'[job[w]] \in RowType
      BY <2>1, TypesKept DEF TypeOK
    <3>. QED BY <1>0, <1>1, <2>1, <3>1, RowSteps, Fields, TasksAssumption DEF Same, Rewritten, Gen
  <2>. QED BY <1>0, <1>1, <2>1, <2>2 DEF Kept, Same, IInv, IntentDrafts
<1>2. CASE Kept(w) /\ pc[w] \notin {"check", "intent", "write", "reread", "start"}
  BY <1>2 DEF Kept
<1>3. CASE Step(w)
  <2>1. CASE \/ \E t \in Task : ClaimSelect(w, t)
             \/ ClaimCAS(w) \/ CheckFails(w) \/ StartWrite(w)
             \/ \E o \in Outcomes, u \in Usages : CompleteRead(w, o, u)
    BY <2>1 DEF ClaimSelect, ClaimCAS, CheckFails, StartWrite, CompleteRead, Goto, TypeOK
  <2>2. CASE ClaimGivesUp(w) \/ CompleteStale(w) \/ CompleteWrite(w)
    BY <2>2, CallEnds
  <2>3. CASE ClaimGet(w)
    BY <1>0, <2>3 DEF ClaimGet, Goto, TypeOK, storeVars
  <2>4. CASE CheckPasses(w)
    BY <2>4 DEF CheckPasses, Goto, TypeOK, IInv, IntentDrafts, storeVars
  <2>5. CASE IntentRead(w)
    <3>. DEFINE r == row[job[w]]
    <3>1. r \in RowType /\ r.reserved \in Nat /\ job[w] \in Task /\ job[w] \in Write
      BY <1>0, <2>5, Fields DEF IntentRead, IInv, IntentDrafts
    <3>2. row' = row /\ job' = job
      BY <2>5 DEF IntentRead, storeVars
    <3>3. \/ pc'[w] = "fail"
          \/ pc'[w] = "write" /\ draft'[w] = WithIntent(w, r) /\ r.status = "running"
          \/ pc'[w] = "start" /\ draft'[w] = r /\ r.reserved > 0
      BY <2>5 DEF IntentRead, Goto, TypeOK
    <3>4. r.reserved > 0 => r.nonce
      BY <3>1, RowFacts
    <3>5. r.gen <= r.gen
      BY <1>0, <2>5 DEF IntentRead
    <3>. QED BY <3>1, <3>2, <3>3, <3>4, <3>5, WithIntentRow
  <2>6. CASE IntentWrite(w)
    <3>1. \/ pc'[w] = "fail"
          \/ pc'[w] = "reread" /\ Put(w) /\ Current(w)
      BY <2>6 DEF IntentWrite, Fenced, Current, Goto, TypeOK
    <3>2. pc[w] = "write" /\ pc[w] # "idle" /\ job' = job /\ draft' = draft
      BY <2>6 DEF IntentWrite
    <3>3. CASE pc'[w] = "reread" /\ Put(w) /\ Current(w)
      BY <1>0, <3>2, <3>3, PutRow DEF IInv, IntentDrafts
    <3>. QED BY <3>1, <3>3
  <2>7. CASE IntentReread(w)
    BY <2>7 DEF IntentReread, Goto, TypeOK, IInv, IntentDrafts, storeVars
  <2>. QED BY <1>3, <2>1, <2>2, <2>3, <2>4, <2>5, <2>6, <2>7 DEF Step
<1>4. CASE Crash(w)
  BY <1>4, CallEnds
<1>. QED BY <1>1, <1>2, <1>3, <1>4, WorkerSteps

\* What Complete is about to write.
LEMMA CompletedRow ==
  ASSUME NEW t, NEW r \in RowType, NEW outcome \in Outcomes, NEW usage \in Nat
  PROVE  LET d == Completed(t, r, outcome, usage) IN
         /\ d.status = NextStatus(t, r, outcome)
         /\ d.version = r.version + 1 /\ d.gen = r.gen /\ d.nonce = r.nonce
         /\ d.reserved = IF d.status = "unknown" THEN r.reserved ELSE 0
         /\ d.budget + d.reserved =
              r.budget + r.reserved - IF d.status = "unknown" THEN 0 ELSE usage
<1>. DEFINE status == NextStatus(t, r, outcome)
            counted == [r EXCEPT !.status = status, !.attempts = @ + 1, !.version = @ + 1]
            released == IF status = "queued" THEN Unleased(counted) ELSE counted
            settled == [released EXCEPT !.budget = @ + r.reserved - usage, !.reserved = 0]
<1>1. r.budget \in Int /\ r.reserved \in Nat /\ r.version \in Nat /\ r.attempts \in Nat
  BY Fields
<1>2. counted \in [status : {status}, version : Nat, nonce : BOOLEAN, reserved : Nat,
                   budget : Int, gen : Gen, attempts : Nat, owner : Worker \cup {NoWorker},
                   live : BOOLEAN]
  <2>. HIDE DEF status
  <2>1. r.version + 1 \in Nat /\ r.attempts + 1 \in Nat
    BY <1>1
  <2>. QED BY <2>1 DEF RowType
<1>3. /\ counted.status = status /\ counted.version = r.version + 1 /\ counted.gen = r.gen
      /\ counted.nonce = r.nonce /\ counted.budget = r.budget /\ counted.reserved = r.reserved
  <2>. HIDE DEF status
  <2>. QED BY DEF RowType
<1>4. /\ released \in [status : {status}, version : Nat, nonce : BOOLEAN, reserved : Nat,
                       budget : Int, gen : Gen, attempts : Nat, owner : Worker \cup {NoWorker},
                       live : BOOLEAN]
      /\ released.status = status /\ released.version = r.version + 1 /\ released.gen = r.gen
      /\ released.nonce = r.nonce /\ released.budget = r.budget /\ released.reserved = r.reserved
  <2>. HIDE DEF status, counted
  <2>. QED BY <1>2, <1>3 DEF Unleased
<1>5. Completed(t, r, outcome, usage) = IF status = "unknown" THEN released ELSE settled
  BY DEF Completed
<1>6. /\ settled.status = status /\ settled.version = r.version + 1 /\ settled.gen = r.gen
      /\ settled.nonce = r.nonce /\ settled.reserved = 0
      /\ settled.budget = r.budget + r.reserved - usage
  <2>. HIDE DEF status, counted, released
  <2>. QED BY <1>4
<1>. HIDE DEF status, counted, released, settled
<1>7. CASE status = "unknown"
  BY <1>1, <1>4, <1>5, <1>7 DEF status
<1>8. CASE status # "unknown"
  BY <1>1, <1>5, <1>6, <1>8 DEF status
<1>. QED BY <1>7, <1>8

\* What Complete is about to write stays what it computed, or is fenced off.
LEMMA CompleteDraftsKept == IInv /\ Next => CompleteDrafts'
<1>. SUFFICES ASSUME IInv, Next, NEW w \in Worker, pc'[w] = "commit", Current(w)'
              PROVE  LET r == row'[job'[w]]
                         d == draft'[w]
                     IN  /\ d.status \in {"succeeded", "unknown", "queued", "failed"}
                         /\ d.version = r.version + 1 /\ d.gen = r.gen
                         /\ d.nonce = r.nonce
                         /\ r.nonce => d.status \in {"succeeded", "unknown"}
                         /\ d.reserved = IF d.status = "unknown" THEN r.reserved ELSE 0
                         /\ d.budget + d.reserved =
                              r.budget + r.reserved - IF d.status = "unknown" THEN 0 ELSE used'[w]
  BY DEF CompleteDrafts
<1>. TypeOK /\ w \in Process
  BY DEF IInv, Process
<1>1. CASE Kept(w) /\ used'[w] = used[w]
  BY <1>1, Overtaken DEF Kept, Same, IInv, CompleteDrafts
<1>2. CASE Step(w)
  <2>1. PICK o \in Outcomes, u \in Usages : CompleteRead(w, o, u)
    BY <1>2, CallEnds DEF Step, ClaimSelect, ClaimCAS, ClaimGet, CheckPasses, CheckFails,
       IntentRead, IntentWrite, IntentReread, StartWrite, Goto, TypeOK
  <2>2. job[w] \in Task /\ row[job[w]] \in RowType /\ u \in Nat
    BY <2>1, TasksAssumption DEF CompleteRead, TypeOK
  <2>3. row' = row /\ job' = job /\ used'[w] = u
        /\ draft'[w] = Completed(job[w], row[job[w]], o, u)
    BY <2>1 DEF CompleteRead, TypeOK, storeVars
  <2>4. NextStatus(job[w], row[job[w]], o) \in {"succeeded", "unknown", "queued", "failed"}
    BY NextStatusType
  <2>5. row[job[w]].nonce =>
          NextStatus(job[w], row[job[w]], o) \in {"succeeded", "unknown"}
    BY <2>2, RowFacts DEF NextStatus, Intended, Outcomes
  <2>. QED BY <2>2, <2>3, <2>4, <2>5, CompletedRow
<1>3. CASE Crash(w)
  BY <1>3, CallEnds
<1>. QED BY <1>1, <1>2, <1>3, WorkerSteps

-----------------------------------------------------------------------------
(* Nobody takes the row away between an update and its read-back.          *)

Prompt == PromptReadBack /\ IInv

\* A row that a worker is about to read back is written by nobody else.
LEMMA Undisturbed ==
  ASSUME Prompt, Next, NEW w \in Worker, pc[w] \in {"get", "reread"}, Kept(w)
  PROVE  Same(job[w])
<1>. DEFINE i == job[w]
<1>. TypeOK /\ w \in Process /\ IInv /\ i \in Task
  BY DEF Prompt, IInv, TypeOK, Process
<1>1. row[i].status = "running" /\ row[i].owner = w
  BY DEF Prompt, IInv, ClaimHolds
<1>. SUFFICES ASSUME row'[i] # row[i], row'[i].version # row[i].version
              PROVE  FALSE
  BY RowSteps, RowFacts, Fields, VersionsGrow DEF Same, Rewritten
<1>2. \/ \E t \in Task : Submit(t) \/ LeaseExpires(t) \/ Approve(t)
      \/ \E v \in Worker : RenewLease(v)
      \/ \E v \in Worker : ClaimCAS(v)
      \/ \E v \in Worker : IntentWrite(v)
      \/ \E v \in Worker : CompleteWrite(v)
      \/ CancelWrite \/ RecoverRequeue \/ RecoverUnknown \/ SweepTimeouts
      \/ \E t \in Task : RequeueUnknown(t)
      \/ \E t \in Task, u \in Usages : ConfirmUnknown(t, u)
  BY DEF Next, Step, Reconcile, DeadlinePasses, CancelRead,
     ClaimSelect, ClaimGivesUp, ClaimGet, CheckPasses, CheckFails, IntentRead,
     IntentReread, StartWrite, CompleteStale, CompleteRead, Crash, storeVars
<1>3. CASE \/ \E t \in Task : Submit(t) \/ LeaseExpires(t) \/ Approve(t)
           \/ \E v \in Worker : RenewLease(v)
  <2>1. row \in [Task -> RowType]
    BY RowFacts
  <2>2. ASSUME NEW t \in Task, Submit(t) \/ LeaseExpires(t) \/ Approve(t)
        PROVE  row'[i].version = row[i].version
    BY <2>1, <2>2 DEF Submit, LeaseExpires, Approve, RowType
  <2>3. ASSUME NEW v \in Worker, RenewLease(v)
        PROVE  row'[i].version = row[i].version
    BY <2>1, <2>3 DEF RenewLease, RowType
  <2>. QED BY <1>3, <2>2, <2>3
<1>4. CASE \E v \in Worker : ClaimCAS(v)
  BY <1>1, <1>4, RowFacts DEF ClaimCAS
<1>5. CASE \E v \in Worker : IntentWrite(v)
  <2>1. PICK v \in Worker : IntentWrite(v)
    BY <1>5
  <2>2. pc[v] = "write" /\ v \in Process /\ v # w
    BY <2>1 DEF IntentWrite, Process
  <2>3. Put(v) /\ Current(v) /\ job[v] = i
    BY <2>1, <2>2, PutRow DEF IntentWrite, Fenced, Current
  <2>. QED BY <1>1, <2>2, <2>3 DEF Prompt, IInv, ClaimHolds, Working
<1>6. CASE \E v \in Worker : CompleteWrite(v)
  <2>1. PICK v \in Worker : CompleteWrite(v)
    BY <1>6
  <2>2. pc[v] = "commit" /\ v \in Process /\ v # w
    BY <2>1 DEF CompleteWrite, Process
  <2>3. Put(v) /\ Current(v) /\ job[v] = i
    BY <2>1, <2>2, PutRow DEF CompleteWrite, Fenced, Current
  <2>. QED BY <1>1, <2>2, <2>3 DEF Prompt, IInv, ClaimHolds, Working
<1>7. CASE CancelWrite \/ RecoverRequeue \/ RecoverUnknown \/ SweepTimeouts
  BY <1>7 DEF CancelWrite, RecoverRequeue, RecoverUnknown, SweepTimeouts, Quiet, Prompt
<1>8. CASE \/ \E t \in Task : RequeueUnknown(t)
           \/ \E t \in Task, u \in Usages : ConfirmUnknown(t, u)
  BY <1>1, <1>8, RowFacts DEF RequeueUnknown, ConfirmUnknown
<1>. QED BY <1>2, <1>3, <1>4, <1>5, <1>6, <1>7, <1>8

\* A claim holds until somebody else has written the row.
LEMMA ClaimHoldsKept == Prompt /\ Next => ClaimHolds'
<1>. SUFFICES ASSUME Prompt, Next, NEW w \in Worker,
                     \/ pc'[w] \in Working \ {"reread"} /\ Current(w)'
                     \/ pc'[w] \in {"get", "reread"}
              PROVE  row'[job'[w]].status = "running" /\ row'[job'[w]].owner = w
  BY DEF ClaimHolds
<1>. TypeOK /\ w \in Process /\ IInv
  BY DEF Prompt, IInv, Process
<1>1. CASE Kept(w)
  <2>1. Same(job[w]) /\ (pc[w] \in Working \ {"reread"} => Current(w))
    BY <1>1, Undisturbed, Overtaken DEF Kept, Working
  <2>. QED BY <1>1, <2>1 DEF Kept, Same, Prompt, IInv, ClaimHolds
<1>2. CASE Step(w)
  <2>1. CASE \/ \E t \in Task : ClaimSelect(w, t)
             \/ ClaimGivesUp(w) \/ CompleteStale(w) \/ CompleteWrite(w)
    BY <2>1, CallEnds DEF ClaimSelect, Goto, TypeOK, Working
  <2>2. CASE ClaimCAS(w)
    <3>1. pc'[w] # "claim" /\ job' = job /\ job[w] \in Task
      BY <2>2 DEF ClaimCAS, Working, TypeOK
    <3>2. row' = [row EXCEPT ![job[w]] =
                    [row[job[w]] EXCEPT !.status = "running", !.version = @ + 1,
                                        !.owner = w, !.live = TRUE]]
      BY <2>2, <3>1 DEF ClaimCAS, Goto, TypeOK
    <3>. QED BY <3>1, <3>2, RowFacts DEF RowType
  <2>3. CASE ClaimGet(w) \/ IntentReread(w)
    BY <2>3 DEF ClaimGet, IntentReread, Goto, TypeOK, Prompt, IInv, ClaimHolds, storeVars
  <2>4. CASE \/ CheckPasses(w) \/ CheckFails(w) \/ StartWrite(w) \/ IntentRead(w)
             \/ \E o \in Outcomes, u \in Usages : CompleteRead(w, o, u)
    <3>1. pc[w] \in Working \ {"reread"} /\ row' = row /\ job' = job /\ ver' = ver
      BY <2>4 DEF CheckPasses, CheckFails, StartWrite, IntentRead, CompleteRead, Working, storeVars
    <3>2. pc'[w] \notin {"get", "reread"}
      BY <2>4 DEF CheckPasses, CheckFails, StartWrite, IntentRead, CompleteRead, Goto, TypeOK
    <3>. QED BY <3>1, <3>2 DEF Prompt, IInv, ClaimHolds, Current
  <2>5. CASE IntentWrite(w)
    <3>1. pc[w] = "write" /\ pc[w] # "idle" /\ pc[w] \in Working \ {"reread"}
          /\ job' = job /\ ver' = ver
      BY <2>5 DEF IntentWrite, Working
    <3>2. CASE Fenced(w, {"running"})
      <4>1. Put(w) /\ Current(w)
        BY <2>5, <3>2 DEF IntentWrite, Fenced, Current
      <4>2. row[job[w]].status = "running" /\ row[job[w]].owner = w
        BY <3>1, <4>1 DEF Prompt, IInv, ClaimHolds
      <4>. QED BY <3>1, <4>1, <4>2, PutRow DEF IInv, IntentDrafts
    <3>3. CASE ~ Fenced(w, {"running"})
      <4>1. row' = row /\ pc'[w] = "fail"
        BY <2>5, <3>3 DEF IntentWrite, Goto, TypeOK
      <4>. QED BY <3>1, <4>1 DEF Prompt, IInv, ClaimHolds, Current
    <3>. QED BY <3>2, <3>3
  <2>. QED BY <1>2, <2>1, <2>2, <2>3, <2>4, <2>5 DEF Step
<1>3. CASE Crash(w)
  BY <1>3, CallEnds DEF Working
<1>. QED BY <1>1, <1>2, <1>3, WorkerSteps

\* Who is about to record an intent is the first under this approval.
LEMMA IntentIsNewKept == Prompt /\ Next => IntentIsNew'
<1>. SUFFICES ASSUME Prompt, Next, NEW w \in Worker,
                     \/ pc'[w] \in {"check", "intent", "write"} /\ Current(w)'
                     \/ pc'[w] = "get"
              PROVE  ~ row'[job'[w]].nonce
  BY DEF IntentIsNew
<1>. TypeOK /\ w \in Process /\ IInv
  BY DEF Prompt, IInv, Process
<1>1. CASE Kept(w)
  <2>1. Same(job[w]) /\ (pc[w] # "get" => Current(w))
    BY <1>1, Undisturbed, Overtaken DEF Kept
  <2>. QED BY <1>1, <2>1 DEF Kept, Same, Prompt, IInv, IntentIsNew
<1>2. CASE Step(w)
  <2>1. CASE \/ \E t \in Task : ClaimSelect(w, t)
             \/ ClaimGivesUp(w) \/ CompleteStale(w) \/ CompleteWrite(w)
             \/ CheckFails(w) \/ StartWrite(w) \/ IntentReread(w) \/ IntentWrite(w)
             \/ \E o \in Outcomes, u \in Usages : CompleteRead(w, o, u)
    BY <2>1, CallEnds DEF ClaimSelect, CheckFails, StartWrite, IntentReread, IntentWrite,
       CompleteRead, Goto, TypeOK
  <2>2. CASE ClaimCAS(w)
    <3>1. pc'[w] = "get" /\ job' = job /\ job[w] \in Task
      BY <2>2 DEF ClaimCAS, Goto, TypeOK
    <3>2. row[job[w]].status = "queued"
          /\ row' = [row EXCEPT ![job[w]] =
                       [row[job[w]] EXCEPT !.status = "running", !.version = @ + 1,
                                           !.owner = w, !.live = TRUE]]
      BY <2>2, <3>1 DEF ClaimCAS, Goto, TypeOK
    <3>. QED BY <3>1, <3>2, RowFacts DEF RowType
  <2>3. CASE ClaimGet(w)
    BY <2>3 DEF ClaimGet, Prompt, IInv, IntentIsNew, storeVars
  <2>4. CASE CheckPasses(w) \/ IntentRead(w)
    BY <2>4 DEF CheckPasses, IntentRead, Goto, TypeOK, Current, Prompt, IInv, IntentIsNew, storeVars
  <2>. QED BY <1>2, <2>1, <2>2, <2>3, <2>4 DEF Step
<1>3. CASE Crash(w)
  BY <1>3, CallEnds
<1>. QED BY <1>1, <1>2, <1>3, WorkerSteps

\* Effects are caused by StartWrite only.
LEMMA EffectOfStart ==
  ASSUME TypeOK, Next
  PROVE  effects' = effects \/ \E w \in Worker : StartWrite(w)
BY ZenonT(30) DEF Next, Step, Reconcile, Submit, LeaseExpires, DeadlinePasses, CancelRead,
   ClaimSelect, ClaimGivesUp, ClaimCAS, ClaimGet, CheckPasses, CheckFails, IntentRead,
   IntentWrite, IntentReread, CompleteStale, CompleteWrite, CompleteRead, RenewLease, Crash,
   CancelWrite, RecoverRequeue, RecoverUnknown, SweepTimeouts, Approve, RequeueUnknown,
   ConfirmUnknown, worldVars

Starting(w) == pc[w] \in {"reread", "start"}

\* A worker that is about to execute was so before, or has just recorded its intent.
LEMMA WhoStarts ==
  ASSUME Prompt, Next, NEW w \in Worker, Starting(w)'
  PROVE  /\ job'[w] = job[w] /\ draft'[w] = draft[w] /\ job[w] \in Task /\ draft[w].gen \in Gen
         /\ ~ StartWrite(w)
         /\ \/ Starting(w)
            \/ /\ pc[w] = "write" /\ IntentWrite(w)
               /\ ~ row[job[w]].nonce /\ draft[w].gen = row[job[w]].gen
<1>. TypeOK /\ w \in Process /\ IInv
  BY DEF Prompt, IInv, Process
<1>1. CASE Kept(w)
  <2>1. Starting(w) /\ ~ StartWrite(w)
    BY <1>1 DEF Kept, Starting, StartWrite, Goto, TypeOK
  <2>2. job[w] \in Task /\ draft[w].gen \in Gen
    BY <2>1, Fields DEF Starting, TypeOK
  <2>. QED BY <1>1, <2>1, <2>2 DEF Kept
<1>2. CASE Step(w)
  <2>1. CASE \/ \E t \in Task : ClaimSelect(w, t)
             \/ ClaimGivesUp(w) \/ CompleteStale(w) \/ CompleteWrite(w)
             \/ ClaimCAS(w) \/ ClaimGet(w) \/ CheckPasses(w) \/ CheckFails(w) \/ StartWrite(w)
             \/ \E o \in Outcomes, u \in Usages : CompleteRead(w, o, u)
    BY <2>1, CallEnds DEF ClaimSelect, ClaimCAS, ClaimGet, CheckPasses, CheckFails, StartWrite,
       CompleteRead, Goto, TypeOK, Starting
  <2>2. CASE IntentReread(w)
    BY <2>2, Fields DEF IntentReread, Starting, StartWrite, TypeOK
  <2>3. CASE IntentRead(w)
    <3>1. /\ pc[w] = "intent" /\ Current(w) /\ job[w] \in Task
          /\ row[job[w]].reserved > 0
      BY <2>3 DEF IntentRead, Goto, TypeOK, Starting, Current
    <3>. QED BY <3>1, RowFacts DEF Prompt, IInv, IntentIsNew
  <2>4. CASE IntentWrite(w)
    <3>1. /\ pc[w] = "write" /\ job' = job /\ draft' = draft
          /\ job[w] \in Task /\ draft[w].gen \in Gen
      BY <2>4, Fields DEF IntentWrite, TypeOK
    <3>2. Current(w) /\ ~ StartWrite(w)
      BY <2>4 DEF IntentWrite, Fenced, Current, Goto, TypeOK, Starting, StartWrite
    <3>. QED BY <2>4, <3>1, <3>2 DEF Prompt, IInv, IntentIsNew, IntentDrafts
  <2>. QED BY <1>2, <2>1, <2>2, <2>3, <2>4 DEF Step
<1>3. CASE Crash(w)
  BY <1>3, CallEnds DEF Starting
<1>. QED BY <1>1, <1>2, <1>3, WorkerSteps

\* One worker starts under an approval, and nobody started before it.
LEMMA StartIsNewKept == Prompt /\ Next => StartIsNew'
<1>. SUFFICES ASSUME Prompt, Next, NEW w \in Worker, Starting(w)'
              PROVE  /\ effects'[job'[w]][draft'[w].gen] = 0
                     /\ \A v \in Worker :
                          Starting(v)' /\ job'[v] = job'[w] /\ draft'[v].gen = draft'[w].gen
                          => v = w
  BY DEF StartIsNew, Starting
<1>. TypeOK /\ IInv
  BY DEF Prompt, IInv
<1>. DEFINE Rivals(v) == job[v] = job[w] /\ draft[v].gen = draft[w].gen
<1>1. /\ job'[w] = job[w] /\ draft'[w] = draft[w] /\ job[w] \in Task /\ draft[w].gen \in Gen
      /\ ~ StartWrite(w)
      /\ \/ Starting(w)
         \/ /\ pc[w] = "write" /\ IntentWrite(w)
            /\ ~ row[job[w]].nonce /\ draft[w].gen = row[job[w]].gen
  BY WhoStarts
<1>2. effects[job[w]][draft[w].gen] = 0
  <2>1. CASE Starting(w)
    BY <2>1 DEF Prompt, IInv, StartIsNew, Starting
  <2>2. CASE ~ row[job[w]].nonce /\ draft[w].gen = row[job[w]].gen
    BY <1>1, <2>2 DEF IInv, EffectsUnderIntent, TypeOK
  <2>. QED BY <1>1, <2>1, <2>2
<1>3. \A v \in Worker : Starting(v) /\ Rivals(v) => v = w
  <2>1. CASE Starting(w)
    BY <2>1 DEF Prompt, IInv, StartIsNew, Starting
  <2>2. CASE ~ row[job[w]].nonce /\ draft[w].gen = row[job[w]].gen
    BY <2>2 DEF IInv, IntentDrafts, Starting
  <2>. QED BY <1>1, <2>1, <2>2
<1>4. effects'[job[w]][draft[w].gen] = 0
  <2>1. CASE effects' = effects
    BY <1>2, <2>1
  <2>2. CASE \E v \in Worker : StartWrite(v)
    <3>1. PICK v \in Worker : StartWrite(v)
      BY <2>2
    <3>2. v # w /\ Starting(v)
      BY <1>1, <3>1 DEF StartWrite, Starting
    <3>3. ~ Rivals(v)
      BY <1>3, <3>2
    <3>. QED BY <1>1, <1>2, <3>1, <3>3 DEF StartWrite, TypeOK
  <2>. QED BY <2>1, <2>2, EffectOfStart
<1>5. ASSUME NEW v \in Worker, Starting(v)', job'[v] = job'[w], draft'[v].gen = draft'[w].gen
      PROVE  v = w
  <2>1. /\ job'[v] = job[v] /\ draft'[v] = draft[v]
        /\ \/ Starting(v)
           \/ /\ pc[v] = "write" /\ IntentWrite(v)
              /\ ~ row[job[v]].nonce /\ draft[v].gen = row[job[v]].gen
    BY <1>5, WhoStarts
  <2>2. Rivals(v)
    BY <1>1, <1>5, <2>1
  <2>3. CASE Starting(v)
    BY <1>3, <2>2, <2>3
  <2>4. CASE /\ pc[v] = "write" /\ IntentWrite(v)
             /\ ~ row[job[v]].nonce /\ draft[v].gen = row[job[v]].gen
    <3>1. ~ Starting(w)
      BY <2>2, <2>4 DEF IInv, IntentDrafts, Starting
    <3>2. IntentWrite(w)
      BY <1>1, <3>1
    <3>. QED BY <2>4, <3>2, <1>1 DEF IntentWrite, Goto, TypeOK, Starting, Process
  <2>. QED BY <2>1, <2>3, <2>4
<1>. QED BY <1>1, <1>4, <1>5

\* An approval is used for one execution.
LEMMA OncePerApprovalKept == Prompt /\ Next => OncePerApproval'
<1>. SUFFICES ASSUME Prompt, Next, NEW t \in Write, NEW g \in Gen
              PROVE  effects'[t][g] <= 1
  BY DEF OncePerApproval
<1>. TypeOK /\ t \in Task
  BY TasksAssumption DEF Prompt, IInv
<1>1. effects[t][g] \in Nat /\ effects[t][g] <= 1
  BY DEF Prompt, IInv, OncePerApproval, TypeOK
<1>2. CASE effects' = effects
  BY <1>1, <1>2
<1>3. CASE \E w \in Worker : StartWrite(w)
  <2>1. PICK w \in Worker : StartWrite(w)
    BY <1>3
  <2>2. effects[job[w]][draft[w].gen] = 0
    BY <2>1 DEF StartWrite, Prompt, IInv, StartIsNew
  <2>. QED BY <1>1, <2>1, <2>2 DEF StartWrite, TypeOK
<1>. QED BY <1>2, <1>3, EffectOfStart

-----------------------------------------------------------------------------
(* The theorems.                                                           *)

\* No call is under way and no task exists in the beginning.
LEMMA InitIInv == Init => IInv
<1>. SUFFICES ASSUME Init PROVE IInv
  OBVIOUS
<1>1. /\ \A t \in Task : row[t] = NewRow
      /\ \A t \in Task : row[t].status = "none" /\ ~ row[t].nonce
                         /\ row[t].reserved = 0 /\ row[t].budget = Budget
      /\ \A p \in Process : pc[p] = "idle"
  BY DEF Init, NewRow
<1>2. TypeOK
  <2>1. StoreTypes
    BY NewRowType DEF Init, StoreTypes
  <2>2. CallTypes
    BY TasksAssumption DEF Init, CallTypes, Point, Process
  <2>3. LocalTypes
    BY NewRowType DEF Init, LocalTypes
  <2>4. WorldTypes
    BY DEF Init, WorldTypes
  <2>. QED BY <2>1, <2>2, <2>3, <2>4, TypeParts
<1>3. VersionsSeen /\ IntentShape
  BY <1>1 DEF VersionsSeen, IntentShape
<1>4. BudgetAccounted
  BY <1>1, TasksAssumption DEF Init, BudgetAccounted
<1>5. IntentDrafts /\ CompleteDrafts /\ CancelDraft
  BY <1>1, TasksAssumption DEF IntentDrafts, CompleteDrafts, CancelDraft, Process
<1>6. EffectsUnderIntent /\ OncePerApproval
  BY TasksAssumption DEF Init, EffectsUnderIntent, OncePerApproval
<1>7. ClaimHolds /\ IntentIsNew /\ StartIsNew
  BY <1>1 DEF ClaimHolds, IntentIsNew, StartIsNew, Working, Process
<1>. QED BY <1>2, <1>3, <1>4, <1>5, <1>6, <1>7 DEF IInv

\* Every step keeps the invariant.
LEMMA NextIInv == IInv /\ Next => IInv'
<1>. SUFFICES ASSUME IInv, Next PROVE IInv'
  OBVIOUS
<1>1. TypeOK'
  BY TypesKept DEF IInv
<1>2. VersionsSeen' /\ IntentShape' /\ BudgetAccounted'
  BY VersionsSeenKept, IntentShapeKept, BudgetAccountedKept
<1>3. IntentDrafts' /\ CompleteDrafts' /\ CancelDraft' /\ EffectsUnderIntent'
  BY IntentDraftsKept, CompleteDraftsKept, CancelDraftKept, EffectsUnderIntentKept
<1>4. PromptReadBack => ClaimHolds' /\ IntentIsNew' /\ StartIsNew' /\ OncePerApproval'
  BY ClaimHoldsKept, IntentIsNewKept, StartIsNewKept, OncePerApprovalKept DEF Prompt
<1>. QED BY <1>1, <1>2, <1>3, <1>4 DEF IInv

\* A step that changes nothing keeps it too.
LEMMA StutterIInv == IInv /\ UNCHANGED vars => IInv'
<1>. SUFFICES ASSUME IInv, UNCHANGED vars PROVE IInv'
  OBVIOUS
<1>. USE DEF vars, storeVars, loopVars, worldVars
<1>1. TypeOK'
  BY DEF IInv, TypeOK
<1>2. VersionsSeen' /\ IntentShape' /\ BudgetAccounted' /\ EffectsUnderIntent'
  BY DEF IInv, VersionsSeen, IntentShape, BudgetAccounted, EffectsUnderIntent
<1>3. IntentDrafts' /\ CompleteDrafts' /\ CancelDraft'
  BY DEF IInv, IntentDrafts, CompleteDrafts, CancelDraft, Current
<1>4. PromptReadBack => ClaimHolds' /\ IntentIsNew' /\ StartIsNew' /\ OncePerApproval'
  BY DEF IInv, ClaimHolds, IntentIsNew, StartIsNew, OncePerApproval, Current
<1>. QED BY <1>1, <1>2, <1>3, <1>4 DEF IInv

\* What the fences, versions and intents of the table keep true, whatever the
\* workers, the operator and the clock do.
THEOREM Invariant == Spec => []IInv
BY InitIInv, NextIInv, StutterIInv, PTL DEF Spec

\* Rows, approvals and calls have their types.
THEOREM Types == Spec => []TypeOK
<1>1. IInv => TypeOK
  BY DEF IInv
<1>. QED BY <1>1, Invariant, PTL

\* Complete, Reserve, Recover, SweepTimeouts and the operator's reconciliation
\* neither lose a token nor charge one twice.
THEOREM BudgetHolds == Spec => []BudgetAccounted
<1>1. IInv => BudgetAccounted
  BY DEF IInv
<1>. QED BY <1>1, Invariant, PTL

\* A write whose effect may exist is not retried, and not reported as failed,
\* cancelled or timed out; this needs no assumption about read-backs.
THEOREM EffectKept == Spec => []EffectNeverForgotten
<1>1. IInv => EffectNeverForgotten
  <2>. SUFFICES ASSUME IInv, NEW t \in Write, effects[t][row[t].gen] > 0
                PROVE  row[t].status \in {"running", "unknown", "succeeded"}
    BY DEF EffectNeverForgotten
  <2>1. t \in Task /\ row[t].gen \in Gen
    BY TasksAssumption, RowFacts, Fields
  <2>2. row[t].nonce
    BY <2>1 DEF IInv, EffectsUnderIntent
  <2>. QED BY <2>1, <2>2, RowFacts
<1>. QED BY <1>1, Invariant, PTL

\* As long as an update is read back before anybody else writes the row, an
\* approval is used for one execution, whoever crashes or is cancelled.
THEOREM OnceHolds == PromptReadBack => (Spec => []OncePerApproval)
<1>1. PromptReadBack /\ IInv => OncePerApproval
  BY DEF IInv
<1>. SUFFICES ASSUME PromptReadBack PROVE Spec => []OncePerApproval
  OBVIOUS
<1>2. IInv => OncePerApproval
  BY <1>1
<1>. QED BY <1>2, Invariant, PTL

\* No late result, recovery, sweep, cancellation or reconciliation writes the row
\* of a settled task.
THEOREM SettledHolds == Spec => SettledIsFinal
<1>1. IInv /\ [Next]_vars =>
        [\A t \in Task : row[t].status \in Settled =>
           row'[t].status = row[t].status /\ row'[t].version = row[t].version]_vars
  <2>. SUFFICES ASSUME IInv, Next, NEW t \in Task, row[t].status \in Settled
                PROVE  row'[t].status = row[t].status /\ row'[t].version = row[t].version
    OBVIOUS
  <2>1. Same(t)
    BY RowSteps DEF Rewritten
  <2>. QED BY <2>1 DEF Same, Settled, Terminal
<1>. QED BY <1>1, Invariant, PTL DEF Spec, SettledIsFinal

=============================================================================
