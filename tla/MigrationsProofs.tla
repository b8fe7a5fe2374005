-------------------------- MODULE MigrationsProofs --------------------------
(***************************************************************************)
(* Proofs about the migration runner for every number of processes and of  *)
(* migrations, every set of files and every choice of what runs outside a  *)
(* transaction.  IInv of Migrations is shown inductive, one lemma for each *)
(* of its conjuncts and in it one step per action; the promises of the     *)
(* lock and the truth of the history follow from it.                       *)
(***************************************************************************)
EXTENDS Migrations, FiniteSetTheorems, WellFoundedInduction, TLAPS

-----------------------------------------------------------------------------
(* Types.                                                                  *)

CallTypes ==
  /\ op \in [Proc -> {"none", "up", "down", "state", "unlock"}]
  /\ loaded \in [Proc -> SUBSET Version]
  /\ steps \in [Proc -> 0..N]
  /\ verdict \in [Proc -> {"absent", "present"}]
  /\ careful \in BOOLEAN /\ orderly \in BOOLEAN /\ (careful => orderly)

ProgressTypes ==
  /\ pc \in [Proc -> Point]
  /\ todo \in [Proc -> SUBSET Version]
  /\ failed \in [Proc -> BOOLEAN]
  /\ ret \in [Proc -> {"none", "nil", "err"}]

RowTypes ==
  /\ history \in [Version -> {"absent", "clean", "dirty"}]
  /\ schema \in [Version -> {"absent", "partial", "present"}]

OwnerTypes ==
  /\ lock \in Proc \cup {Nobody}
  /\ snap \in [Proc -> Proc \cup {Nobody}]
  /\ robbed \in [Proc -> BOOLEAN]

\* The types, in four parts that few actions touch together.
LEMMA TypeParts ==
  TypeOK <=> CallTypes /\ ProgressTypes /\ RowTypes /\ OwnerTypes
BY DEF TypeOK, CallTypes, ProgressTypes, RowTypes, OwnerTypes

\* A call that returns keeps the types of its locals.
LEMMA ReturnTypes ==
  ASSUME ProgressTypes, NEW p \in Proc, NEW r \in {"nil", "err"}, Return(p, r),
         UNCHANGED <<todo, failed>>
  PROVE  ProgressTypes'
BY DEF ProgressTypes, Point, Return, Goto

\* A call that goes on keeps the types of its locals.
LEMMA GotoTypes ==
  ASSUME ProgressTypes, NEW p \in Proc, NEW k \in Point, Goto(p, k),
         UNCHANGED <<todo, failed, ret>>
  PROVE  ProgressTypes'
BY DEF ProgressTypes, Goto

\* A call that is about to release keeps the types of its locals.
LEMMA FinishTypes ==
  ASSUME ProgressTypes, NEW p \in Proc, NEW b \in BOOLEAN, Finish(p, b)
  PROVE  ProgressTypes'
<1>1. pc' \in [Proc -> Point]
  BY DEF ProgressTypes, Point, Finish, Goto
<1>2. failed' \in [Proc -> BOOLEAN]
  BY DEF ProgressTypes, Finish
<1>3. todo' = todo /\ ret' = ret
  BY DEF Finish
<1>. QED BY <1>1, <1>2, <1>3 DEF ProgressTypes

\* A call that is done with a version keeps the types of its locals.
LEMMA AdvanceTypes ==
  ASSUME ProgressTypes, NEW p \in Proc, Advance(p)
  PROVE  ProgressTypes'
<1>. DEFINE rest == todo[p] \ {Current(p)}
            k == IF rest = {} THEN "release"
                 ELSE IF op[p] = "up" THEN "next" ELSE "apply"
<1>1. pc' = [pc EXCEPT ![p] = k] /\ k \in Point
  BY DEF Advance, Goto, Point
<1>2. todo' = [todo EXCEPT ![p] = rest] /\ UNCHANGED <<failed, ret>>
  BY DEF Advance
<1>3. rest \in SUBSET Version
  BY DEF ProgressTypes
<1>. HIDE DEF rest, k
<1>. QED BY <1>1, <1>2, <1>3 DEF ProgressTypes

\* A statement that took effect keeps the types of the locals.
LEMMA DoneTypes ==
  ASSUME ProgressTypes, NEW p \in Proc, NEW lost \in BOOLEAN, Done(p, lost)
  PROVE  ProgressTypes'
BY FinishTypes, AdvanceTypes DEF Done

\* Every step keeps the types.
LEMMA TypeOKKept ==
  ASSUME IInv, NEW p \in Proc, Call(p) \/ Step(p) \/ Failure(p)
  PROVE  TypeOK'
<1>1. CASE \E files \in Files : CallUp(p, files)
  <2>0. PICK files \in Files : CallUp(p, files)
    BY <1>1
  <2>1. ProgressTypes'
    BY <2>0, MigrationsAssumption, TypeParts DEF IInv, CallUp, Goto, Point, ProgressTypes
  <2>2. CallTypes'
    BY <2>0, MigrationsAssumption, TypeParts DEF IInv, CallUp, CallTypes, callVars
  <2>3. RowTypes'
    BY <2>0, TypeParts DEF IInv, CallUp, RowTypes, dbVars
  <2>4. OwnerTypes'
    BY <2>0, TypeParts DEF IInv, CallUp, OwnerTypes, dbVars
  <2>. QED BY <2>1, <2>2, <2>3, <2>4, TypeParts DEF TypeOK, CallTypes,
       ProgressTypes, RowTypes, OwnerTypes
<1>2. CASE \E files \in Files, n \in 1..N : CallDown(p, files, n)
  <2>0. PICK files \in Files, n \in 1..N : CallDown(p, files, n)
    BY <1>2
  <2>1. ProgressTypes'
    BY <2>0, GotoTypes, TypeParts DEF IInv, CallDown, Point
  <2>2. CallTypes'
    BY <2>0, MigrationsAssumption, TypeParts DEF IInv, CallDown, CallTypes, callVars
  <2>3. RowTypes'
    BY <2>0, TypeParts DEF IInv, CallDown, RowTypes, dbVars
  <2>4. OwnerTypes'
    BY <2>0, TypeParts DEF IInv, CallDown, OwnerTypes, dbVars
  <2>. QED BY <2>1, <2>2, <2>3, <2>4, TypeParts DEF TypeOK, CallTypes,
       ProgressTypes, RowTypes, OwnerTypes
<1>3. CASE \E v \in Version, s \in {"absent", "present"} : CallForceMigrationState(p, v, s)
  <2>0. PICK v \in Version, s \in {"absent", "present"} : CallForceMigrationState(p, v, s)
    BY <1>3
  <2>1. ProgressTypes'
    BY <2>0, TypeParts DEF IInv, CallForceMigrationState, Goto, Point, ProgressTypes
  <2>2. CallTypes'
    BY <2>0, MigrationsAssumption, TypeParts DEF IInv, CallForceMigrationState, CallTypes, callVars
  <2>3. RowTypes'
    BY <2>0, TypeParts DEF IInv, CallForceMigrationState, RowTypes, dbVars
  <2>4. OwnerTypes'
    BY <2>0, TypeParts DEF IInv, CallForceMigrationState, OwnerTypes, dbVars
  <2>. QED BY <2>1, <2>2, <2>3, <2>4, TypeParts DEF TypeOK, CallTypes,
       ProgressTypes, RowTypes, OwnerTypes
<1>4. CASE CallForceUnlock(p)
  <2>1. ProgressTypes'
    BY <1>4, GotoTypes, TypeParts DEF IInv, CallForceUnlock, Point
  <2>2. CallTypes'
    BY <1>4, TypeParts DEF IInv, CallForceUnlock, CallTypes, callVars
  <2>3. RowTypes'
    BY <1>4, TypeParts DEF IInv, CallForceUnlock, RowTypes, dbVars
  <2>4. OwnerTypes'
    BY <1>4, TypeParts DEF IInv, CallForceUnlock, OwnerTypes, dbVars
  <2>. QED BY <2>1, <2>2, <2>3, <2>4, TypeParts DEF TypeOK, CallTypes,
       ProgressTypes, RowTypes, OwnerTypes
<1>5. CASE \E lost \in BOOLEAN : AcquireLock(p, lost)
  <2>0. PICK lost \in BOOLEAN : AcquireLock(p, lost)
    BY <1>5
  <2>1. ProgressTypes'
    <3>1. CASE lost
      BY <2>0, <3>1, ReturnTypes, TypeParts DEF IInv, AcquireLock
    <3>2. CASE ~ lost
      BY <2>0, <3>2, GotoTypes, TypeParts DEF IInv, AcquireLock, Point
    <3>. QED BY <3>1, <3>2
  <2>2. CallTypes'
    BY <2>0, TypeParts DEF IInv, AcquireLock, CallTypes, callVars
  <2>3. RowTypes'
    BY <2>0, TypeParts DEF IInv, AcquireLock, RowTypes, dbVars
  <2>4. OwnerTypes'
    BY <2>0, TypeParts DEF IInv, AcquireLock, OwnerTypes, dbVars
  <2>. QED BY <2>1, <2>2, <2>3, <2>4, TypeParts DEF TypeOK, CallTypes,
       ProgressTypes, RowTypes, OwnerTypes
<1>6. CASE AcquireFails(p)
  <2>1. ProgressTypes'
        BY <1>6, ReturnTypes, TypeParts DEF IInv,
     AcquireFails
  <2>2. CallTypes'
    BY <1>6, TypeParts DEF IInv, AcquireFails, CallTypes, callVars
  <2>3. RowTypes'
    BY <1>6, TypeParts DEF IInv, AcquireFails, RowTypes, dbVars
  <2>4. OwnerTypes'
    BY <1>6, TypeParts DEF IInv, AcquireFails, OwnerTypes, dbVars
  <2>. QED BY <2>1, <2>2, <2>3, <2>4, TypeParts DEF TypeOK, CallTypes,
       ProgressTypes, RowTypes, OwnerTypes
<1>7. CASE \E lost \in BOOLEAN : ReleaseLock(p, lost)
  <2>0. PICK lost \in BOOLEAN : ReleaseLock(p, lost)
    BY <1>7
  <2>1. ProgressTypes'
        BY <2>0, ReturnTypes, TypeParts DEF IInv,
     ReleaseLock
  <2>2. CallTypes'
    BY <2>0, TypeParts DEF IInv, ReleaseLock, CallTypes, callVars
  <2>3. RowTypes'
    BY <2>0, TypeParts DEF IInv, ReleaseLock, RowTypes, dbVars
  <2>4. OwnerTypes'
    BY <2>0, TypeParts DEF IInv, ReleaseLock, OwnerTypes, dbVars
  <2>. QED BY <2>1, <2>2, <2>3, <2>4, TypeParts DEF TypeOK, CallTypes,
       ProgressTypes, RowTypes, OwnerTypes
<1>8. CASE ReleaseFails(p)
  <2>1. ProgressTypes'
        BY <1>8, ReturnTypes, TypeParts DEF IInv,
     ReleaseFails
  <2>2. CallTypes'
    BY <1>8, TypeParts DEF IInv, ReleaseFails, CallTypes, callVars
  <2>3. RowTypes'
    BY <1>8, TypeParts DEF IInv, ReleaseFails, RowTypes, dbVars
  <2>4. OwnerTypes'
    BY <1>8, TypeParts DEF IInv, ReleaseFails, OwnerTypes, dbVars
  <2>. QED BY <2>1, <2>2, <2>3, <2>4, TypeParts DEF TypeOK, CallTypes,
       ProgressTypes, RowTypes, OwnerTypes
<1>9. CASE ReadOwner(p)
  <2>1. ProgressTypes'
    <3>1. CASE lock = Nobody
      BY <1>9, <3>1, ReturnTypes, TypeParts DEF IInv, ReadOwner
    <3>2. CASE lock # Nobody
      BY <1>9, <3>2, GotoTypes, TypeParts DEF IInv, ReadOwner, Point
    <3>. QED BY <3>1, <3>2
  <2>2. CallTypes'
    BY <1>9, TypeParts DEF IInv, ReadOwner, CallTypes, callVars
  <2>3. RowTypes'
    BY <1>9, TypeParts DEF IInv, ReadOwner, RowTypes, dbVars
  <2>4. OwnerTypes'
    BY <1>9, TypeParts DEF IInv, ReadOwner, OwnerTypes, dbVars
  <2>. QED BY <2>1, <2>2, <2>3, <2>4, TypeParts DEF TypeOK, CallTypes,
       ProgressTypes, RowTypes, OwnerTypes
<1>10. CASE \E lost \in BOOLEAN : DeleteOwner(p, lost)
  <2>0. PICK lost \in BOOLEAN : DeleteOwner(p, lost)
    BY <1>10
  <2>1. ProgressTypes'
        BY <2>0, ReturnTypes, TypeParts DEF IInv,
     DeleteOwner
  <2>2. CallTypes'
    BY <2>0, TypeParts DEF IInv, DeleteOwner, CallTypes, callVars
  <2>3. RowTypes'
    BY <2>0, TypeParts DEF IInv, DeleteOwner, RowTypes, dbVars
  <2>4. OwnerTypes'
    BY <2>0, TypeParts DEF IInv, DeleteOwner, OwnerTypes, dbVars
  <2>. QED BY <2>1, <2>2, <2>3, <2>4, TypeParts DEF TypeOK, CallTypes,
       ProgressTypes, RowTypes, OwnerTypes
<1>11. CASE UnlockFails(p)
  <2>1. ProgressTypes'
        BY <1>11, ReturnTypes, TypeParts DEF IInv,
     UnlockFails
  <2>2. CallTypes'
    BY <1>11, TypeParts DEF IInv, UnlockFails, CallTypes, callVars
  <2>3. RowTypes'
    BY <1>11, TypeParts DEF IInv, UnlockFails, RowTypes, dbVars
  <2>4. OwnerTypes'
    BY <1>11, TypeParts DEF IInv, UnlockFails, OwnerTypes, dbVars
  <2>. QED BY <2>1, <2>2, <2>3, <2>4, TypeParts DEF TypeOK, CallTypes,
       ProgressTypes, RowTypes, OwnerTypes
<1>12. CASE ReadFails(p)
  <2>1. ProgressTypes'
        BY <1>12, FinishTypes, TypeParts DEF IInv, ReadFails
  <2>2. CallTypes'
    BY <1>12, TypeParts DEF IInv, ReadFails, CallTypes, callVars
  <2>3. RowTypes'
    BY <1>12, TypeParts DEF IInv, ReadFails, RowTypes, dbVars
  <2>4. OwnerTypes'
    BY <1>12, TypeParts DEF IInv, ReadFails, OwnerTypes, dbVars
  <2>. QED BY <2>1, <2>2, <2>3, <2>4, TypeParts DEF TypeOK, CallTypes,
       ProgressTypes, RowTypes, OwnerTypes
<1>13. CASE CheckClean(p)
  <2>1. ProgressTypes'
    <3>1. CASE op[p] # "down" /\ todo[p] = {}
      BY <1>13, <3>1, FinishTypes, TypeParts DEF IInv, CheckClean
    <3>2. CASE op[p] = "down" \/ todo[p] # {}
      BY <1>13, <3>2, GotoTypes, TypeParts DEF IInv, CheckClean, Point
    <3>. QED BY <3>1, <3>2
  <2>2. CallTypes'
    BY <1>13, TypeParts DEF IInv, CheckClean, CallTypes, callVars
  <2>3. RowTypes'
    BY <1>13, TypeParts DEF IInv, CheckClean, RowTypes, dbVars
  <2>4. OwnerTypes'
    BY <1>13, TypeParts DEF IInv, CheckClean, OwnerTypes, dbVars
  <2>. QED BY <2>1, <2>2, <2>3, <2>4, TypeParts DEF TypeOK, CallTypes,
       ProgressTypes, RowTypes, OwnerTypes
<1>14. CASE SkipApplied(p)
  <2>1. ProgressTypes'
        BY <1>14, AdvanceTypes, TypeParts DEF IInv,
     SkipApplied
  <2>2. CallTypes'
    BY <1>14, TypeParts DEF IInv, SkipApplied, CallTypes, callVars
  <2>3. RowTypes'
    BY <1>14, TypeParts DEF IInv, SkipApplied, RowTypes, dbVars
  <2>4. OwnerTypes'
    BY <1>14, TypeParts DEF IInv, SkipApplied, OwnerTypes, dbVars
  <2>. QED BY <2>1, <2>2, <2>3, <2>4, TypeParts DEF TypeOK, CallTypes,
       ProgressTypes, RowTypes, OwnerTypes
<1>15. CASE NotApplied(p)
  <2>1. ProgressTypes'
    BY <1>15, GotoTypes, TypeParts DEF IInv, NotApplied, Point
  <2>2. CallTypes'
    BY <1>15, TypeParts DEF IInv, NotApplied, CallTypes, callVars
  <2>3. RowTypes'
    BY <1>15, TypeParts DEF IInv, NotApplied, RowTypes, dbVars
  <2>4. OwnerTypes'
    BY <1>15, TypeParts DEF IInv, NotApplied, OwnerTypes, dbVars
  <2>. QED BY <2>1, <2>2, <2>3, <2>4, TypeParts DEF TypeOK, CallTypes,
       ProgressTypes, RowTypes, OwnerTypes
<1>16. CASE PlanDown(p)
  <2>1. ProgressTypes'
    BY <1>16, TypeParts DEF IInv, PlanDown, Goto, Point, ProgressTypes, Latest
  <2>2. CallTypes'
    BY <1>16, TypeParts DEF IInv, PlanDown, CallTypes, callVars
  <2>3. RowTypes'
    BY <1>16, TypeParts DEF IInv, PlanDown, RowTypes, dbVars
  <2>4. OwnerTypes'
    BY <1>16, TypeParts DEF IInv, PlanDown, OwnerTypes, dbVars
  <2>. QED BY <2>1, <2>2, <2>3, <2>4, TypeParts DEF TypeOK, CallTypes,
       ProgressTypes, RowTypes, OwnerTypes
<1>17. CASE \E lost \in BOOLEAN : ApplyUp(p, lost)
  <2>0. PICK lost \in BOOLEAN : ApplyUp(p, lost)
    BY <1>17
  <2>1. ProgressTypes'
        BY <2>0, DoneTypes, TypeParts DEF IInv, ApplyUp
  <2>2. CallTypes'
    BY <2>0, TypeParts DEF IInv, ApplyUp, CallTypes, callVars
  <2>3. RowTypes'
    BY <2>0, TypeParts DEF IInv, ApplyUp, RowTypes, dbVars
  <2>4. OwnerTypes'
    BY <2>0, TypeParts DEF IInv, ApplyUp, OwnerTypes, dbVars
  <2>. QED BY <2>1, <2>2, <2>3, <2>4, TypeParts DEF TypeOK, CallTypes,
       ProgressTypes, RowTypes, OwnerTypes
<1>18. CASE \E lost \in BOOLEAN : ApplyDown(p, lost)
  <2>0. PICK lost \in BOOLEAN : ApplyDown(p, lost)
    BY <1>18
  <2>1. ProgressTypes'
        BY <2>0, DoneTypes, TypeParts DEF IInv, ApplyDown
  <2>2. CallTypes'
    BY <2>0, TypeParts DEF IInv, ApplyDown, CallTypes, callVars
  <2>3. RowTypes'
    BY <2>0, TypeParts DEF IInv, ApplyDown, RowTypes, dbVars
  <2>4. OwnerTypes'
    BY <2>0, TypeParts DEF IInv, ApplyDown, OwnerTypes, dbVars
  <2>. QED BY <2>1, <2>2, <2>3, <2>4, TypeParts DEF TypeOK, CallTypes,
       ProgressTypes, RowTypes, OwnerTypes
<1>19. CASE \E lost \in BOOLEAN : MarkDirty(p, lost)
  <2>0. PICK lost \in BOOLEAN : MarkDirty(p, lost)
    BY <1>19
  <2>1. ProgressTypes'
    <3>1. CASE lost
      BY <2>0, <3>1, FinishTypes, TypeParts DEF IInv, MarkDirty
    <3>2. CASE ~ lost
      BY <2>0, <3>2, GotoTypes, TypeParts DEF IInv, MarkDirty, Point
    <3>. QED BY <3>1, <3>2
  <2>2. CallTypes'
    BY <2>0, TypeParts DEF IInv, MarkDirty, CallTypes, callVars
  <2>3. RowTypes'
    BY <2>0, TypeParts DEF IInv, MarkDirty, RowTypes, dbVars
  <2>4. OwnerTypes'
    BY <2>0, TypeParts DEF IInv, MarkDirty, OwnerTypes, dbVars
  <2>. QED BY <2>1, <2>2, <2>3, <2>4, TypeParts DEF TypeOK, CallTypes,
       ProgressTypes, RowTypes, OwnerTypes
<1>20. CASE SQLProgresses(p)
  <2>1. ProgressTypes'
    BY <1>20, TypeParts DEF IInv, SQLProgresses, ProgressTypes
  <2>2. CallTypes'
    BY <1>20, TypeParts DEF IInv, SQLProgresses, CallTypes, callVars
  <2>3. RowTypes'
    BY <1>20, TypeParts DEF IInv, SQLProgresses, RowTypes, dbVars
  <2>4. OwnerTypes'
    BY <1>20, TypeParts DEF IInv, SQLProgresses, OwnerTypes, dbVars
  <2>. QED BY <2>1, <2>2, <2>3, <2>4, TypeParts DEF TypeOK, CallTypes,
       ProgressTypes, RowTypes, OwnerTypes
<1>21. CASE SQLSucceeds(p)
  <2>1. ProgressTypes'
    BY <1>21, GotoTypes, TypeParts DEF IInv, SQLSucceeds, Point
  <2>2. CallTypes'
    BY <1>21, TypeParts DEF IInv, SQLSucceeds, CallTypes, callVars
  <2>3. RowTypes'
    BY <1>21, TypeParts DEF IInv, SQLSucceeds, Target, RowTypes,
       dbVars
  <2>4. OwnerTypes'
    BY <1>21, TypeParts DEF IInv, SQLSucceeds, OwnerTypes, dbVars
  <2>. QED BY <2>1, <2>2, <2>3, <2>4, TypeParts DEF TypeOK, CallTypes,
       ProgressTypes, RowTypes, OwnerTypes
<1>22. CASE \E s \in {"absent", "partial", "present"} : SQLFails(p, s)
  <2>0. PICK s \in {"absent", "partial", "present"} : SQLFails(p, s)
    BY <1>22
  <2>1. ProgressTypes'
        BY <2>0, FinishTypes, TypeParts DEF IInv, SQLFails
  <2>2. CallTypes'
    BY <2>0, TypeParts DEF IInv, SQLFails, CallTypes, callVars
  <2>3. RowTypes'
    BY <2>0, TypeParts DEF IInv, SQLFails, RowTypes, dbVars
  <2>4. OwnerTypes'
    BY <2>0, TypeParts DEF IInv, SQLFails, OwnerTypes, dbVars
  <2>. QED BY <2>1, <2>2, <2>3, <2>4, TypeParts DEF TypeOK, CallTypes,
       ProgressTypes, RowTypes, OwnerTypes
<1>23. CASE \E lost \in BOOLEAN : ClearDirty(p, lost)
  <2>0. PICK lost \in BOOLEAN : ClearDirty(p, lost)
    BY <1>23
  <2>1. ProgressTypes'
        BY <2>0, DoneTypes, TypeParts DEF IInv, ClearDirty
  <2>2. CallTypes'
    BY <2>0, TypeParts DEF IInv, ClearDirty, CallTypes, callVars
  <2>3. RowTypes'
    BY <2>0, TypeParts DEF IInv, ClearDirty, RowTypes, dbVars
  <2>4. OwnerTypes'
    BY <2>0, TypeParts DEF IInv, ClearDirty, OwnerTypes, dbVars
  <2>. QED BY <2>1, <2>2, <2>3, <2>4, TypeParts DEF TypeOK, CallTypes,
       ProgressTypes, RowTypes, OwnerTypes
<1>24. CASE WriteFails(p)
  <2>1. ProgressTypes'
        BY <1>24, FinishTypes, TypeParts DEF IInv, WriteFails
  <2>2. CallTypes'
    BY <1>24, TypeParts DEF IInv, WriteFails, CallTypes, callVars
  <2>3. RowTypes'
    BY <1>24, TypeParts DEF IInv, WriteFails, RowTypes, dbVars
  <2>4. OwnerTypes'
    BY <1>24, TypeParts DEF IInv, WriteFails, OwnerTypes, dbVars
  <2>. QED BY <2>1, <2>2, <2>3, <2>4, TypeParts DEF TypeOK, CallTypes,
       ProgressTypes, RowTypes, OwnerTypes
<1>25. CASE \E lost \in BOOLEAN : ForceState(p, lost)
  <2>0. PICK lost \in BOOLEAN : ForceState(p, lost)
    BY <1>25
  <2>1. ProgressTypes'
        BY <2>0, FinishTypes, TypeParts DEF IInv, ForceState
  <2>2. CallTypes'
    BY <2>0, TypeParts DEF IInv, ForceState, CallTypes, callVars
  <2>3. RowTypes'
    BY <2>0, TypeParts DEF IInv, ForceState, RowTypes, dbVars
  <2>4. OwnerTypes'
    BY <2>0, TypeParts DEF IInv, ForceState, OwnerTypes, dbVars
  <2>. QED BY <2>1, <2>2, <2>3, <2>4, TypeParts DEF TypeOK, CallTypes,
       ProgressTypes, RowTypes, OwnerTypes
<1>26. CASE Crash(p)
  <2>1. ProgressTypes'
    BY <1>26, GotoTypes, TypeParts DEF IInv, Crash, Point
  <2>2. CallTypes'
    BY <1>26, TypeParts DEF IInv, Crash, CallTypes, callVars
  <2>3. RowTypes'
    BY <1>26, TypeParts DEF IInv, Crash, RowTypes, dbVars
  <2>4. OwnerTypes'
    BY <1>26, TypeParts DEF IInv, Crash, OwnerTypes, dbVars
  <2>. QED BY <2>1, <2>2, <2>3, <2>4, TypeParts DEF TypeOK, CallTypes,
       ProgressTypes, RowTypes, OwnerTypes
<1>. QED BY <1>1, <1>2, <1>3, <1>4, <1>5, <1>6, <1>7, <1>8, <1>9, <1>10, <1>11,
     <1>12, <1>13, <1>14, <1>15, <1>16, <1>17, <1>18, <1>19, <1>20, <1>21, <1>22,
     <1>23, <1>24, <1>25, <1>26 DEF Call, Step, Statement, Failure

-----------------------------------------------------------------------------
(* Calls and the lock.                                                     *)

\* Every step keeps calls to their own steps and files.
LEMMA CallShapeKept ==
  ASSUME IInv, NEW p \in Proc, Call(p) \/ Step(p) \/ Failure(p)
  PROVE  CallShape'
<1>1. CASE \E files \in Files : CallUp(p, files)
  BY <1>1 DEF IInv, TypeOK, CallShape, callVars, dbVars, CallUp, Goto
<1>2. CASE \E files \in Files, n \in 1..N : CallDown(p, files, n)
  BY <1>2 DEF IInv, TypeOK, CallShape, callVars, dbVars, CallDown, Goto
<1>3. CASE \E v \in Version, s \in {"absent", "present"} : CallForceMigrationState(p, v, s)
  BY <1>3 DEF IInv, TypeOK, CallShape, callVars, dbVars, OperatorsAreDone,
     CallForceMigrationState, Goto
<1>4. CASE CallForceUnlock(p)
  BY <1>4 DEF IInv, TypeOK, CallShape, callVars, dbVars, OperatorsAreDone,
     CallForceUnlock, Goto
<1>5. CASE \E lost \in BOOLEAN : AcquireLock(p, lost)
  BY <1>5 DEF IInv, TypeOK, CallShape, callVars, dbVars, Return, AcquireLock,
     Goto
<1>6. CASE AcquireFails(p)
  BY <1>6 DEF IInv, TypeOK, CallShape, callVars, dbVars, Return, AcquireFails,
     Goto
<1>7. CASE \E lost \in BOOLEAN : ReleaseLock(p, lost)
  BY <1>7 DEF IInv, TypeOK, CallShape, callVars, dbVars, Return, ReleaseLock,
     Goto
<1>8. CASE ReleaseFails(p)
  BY <1>8 DEF IInv, TypeOK, CallShape, callVars, dbVars, Return, ReleaseFails,
     Goto
<1>9. CASE ReadOwner(p)
  BY <1>9, MigrationsAssumption DEF IInv, TypeOK, CallShape, callVars, dbVars,
     Return, ReadOwner, Goto
<1>10. CASE \E lost \in BOOLEAN : DeleteOwner(p, lost)
  BY <1>10 DEF IInv, TypeOK, CallShape, callVars, dbVars, Return, DeleteOwner,
     Goto
<1>11. CASE UnlockFails(p)
  BY <1>11 DEF IInv, TypeOK, CallShape, callVars, dbVars, Return, UnlockFails,
     Goto
<1>12. CASE ReadFails(p)
  BY <1>12 DEF IInv, TypeOK, CallShape, callVars, dbVars, Finish, ReadFails,
     Goto
<1>13. CASE CheckClean(p)
  BY <1>13 DEF IInv, TypeOK, CallShape, callVars, dbVars, Finish, CheckClean,
     Goto
<1>14. CASE SkipApplied(p)
  BY <1>14 DEF IInv, TypeOK, CallShape, callVars, dbVars, Advance, SkipApplied,
     Goto
<1>15. CASE NotApplied(p)
  BY <1>15 DEF IInv, TypeOK, CallShape, callVars, dbVars, NotApplied, Goto
<1>16. CASE PlanDown(p)
  BY <1>16 DEF IInv, TypeOK, CallShape, callVars, dbVars, PlanDown, Goto
<1>17. CASE \E lost \in BOOLEAN : ApplyUp(p, lost)
  BY <1>17 DEF IInv, TypeOK, CallShape, callVars, dbVars, Done, Finish,
     Advance, ApplyUp, Goto
<1>18. CASE \E lost \in BOOLEAN : ApplyDown(p, lost)
  BY <1>18 DEF IInv, TypeOK, CallShape, callVars, dbVars, Done, Finish,
     Advance, ApplyDown, Goto
<1>19. CASE \E lost \in BOOLEAN : MarkDirty(p, lost)
  BY <1>19 DEF IInv, TypeOK, CallShape, callVars, dbVars, Finish, MarkDirty,
     Goto
<1>20. CASE SQLProgresses(p)
  BY <1>20 DEF IInv, TypeOK, CallShape, callVars, dbVars, SQLProgresses, Goto
<1>21. CASE SQLSucceeds(p)
  BY <1>21 DEF IInv, TypeOK, CallShape, callVars, dbVars, SQLSucceeds, Goto
<1>22. CASE \E s \in {"absent", "partial", "present"} : SQLFails(p, s)
  BY <1>22 DEF IInv, TypeOK, CallShape, callVars, dbVars, Finish, SQLFails,
     Goto
<1>23. CASE \E lost \in BOOLEAN : ClearDirty(p, lost)
  BY <1>23 DEF IInv, TypeOK, CallShape, callVars, dbVars, Done, Finish,
     Advance, ClearDirty, Goto
<1>24. CASE WriteFails(p)
  BY <1>24 DEF IInv, TypeOK, CallShape, callVars, dbVars, Finish, WriteFails,
     Goto
<1>25. CASE \E lost \in BOOLEAN : ForceState(p, lost)
  BY <1>25 DEF IInv, TypeOK, CallShape, callVars, dbVars, Finish, ForceState,
     Goto
<1>26. CASE Crash(p)
  BY <1>26 DEF IInv, TypeOK, CallShape, callVars, dbVars, Crash, Goto
<1>. QED BY <1>1, <1>2, <1>3, <1>4, <1>5, <1>6, <1>7, <1>8, <1>9, <1>10, <1>11,
     <1>12, <1>13, <1>14, <1>15, <1>16, <1>17, <1>18, <1>19, <1>20, <1>21, <1>22,
     <1>23, <1>24, <1>25, <1>26 DEF Call, Step, Statement, Failure

\* Every step keeps the lock with those who asked for it.
LEMMA LockOwnedKept ==
  ASSUME IInv, NEW p \in Proc, Call(p) \/ Step(p) \/ Failure(p)
  PROVE  LockOwned'
<1>1. CASE \E files \in Files : CallUp(p, files)
  BY <1>1 DEF IInv, TypeOK, CallShape, LockOwned, callVars, dbVars, CallUp,
     Goto
<1>2. CASE \E files \in Files, n \in 1..N : CallDown(p, files, n)
  BY <1>2 DEF IInv, TypeOK, CallShape, LockOwned, callVars, dbVars, CallDown,
     Goto
<1>3. CASE \E v \in Version, s \in {"absent", "present"} : CallForceMigrationState(p, v, s)
  BY <1>3 DEF IInv, TypeOK, CallShape, LockOwned, callVars, dbVars,
     OperatorsAreDone, CallForceMigrationState, Goto
<1>4. CASE CallForceUnlock(p)
  BY <1>4 DEF IInv, TypeOK, CallShape, LockOwned, callVars, dbVars,
     OperatorsAreDone, CallForceUnlock, Goto
<1>5. CASE \E lost \in BOOLEAN : AcquireLock(p, lost)
  BY <1>5 DEF IInv, TypeOK, CallShape, LockOwned, callVars, dbVars, Return,
     AcquireLock, Goto
<1>6. CASE AcquireFails(p)
  BY <1>6 DEF IInv, TypeOK, CallShape, LockOwned, callVars, dbVars, Return,
     AcquireFails, Goto
<1>7. CASE \E lost \in BOOLEAN : ReleaseLock(p, lost)
  BY <1>7, MigrationsAssumption DEF IInv, TypeOK, CallShape, LockOwned,
     callVars, dbVars, Return, ReleaseLock, Goto
<1>8. CASE ReleaseFails(p)
  BY <1>8 DEF IInv, TypeOK, CallShape, LockOwned, callVars, dbVars, Return,
     ReleaseFails, Goto
<1>9. CASE ReadOwner(p)
  BY <1>9 DEF IInv, TypeOK, CallShape, LockOwned, callVars, dbVars, Return,
     ReadOwner, Goto
<1>10. CASE \E lost \in BOOLEAN : DeleteOwner(p, lost)
  BY <1>10, MigrationsAssumption DEF IInv, TypeOK, CallShape, LockOwned,
     callVars, dbVars, Return, DeleteOwner, Goto
<1>11. CASE UnlockFails(p)
  BY <1>11 DEF IInv, TypeOK, CallShape, LockOwned, callVars, dbVars, Return,
     UnlockFails, Goto
<1>12. CASE ReadFails(p)
  BY <1>12 DEF IInv, TypeOK, CallShape, LockOwned, callVars, dbVars, Finish,
     ReadFails, Goto
<1>13. CASE CheckClean(p)
  BY <1>13 DEF IInv, TypeOK, CallShape, LockOwned, callVars, dbVars, Finish,
     CheckClean, Goto
<1>14. CASE SkipApplied(p)
  BY <1>14 DEF IInv, TypeOK, CallShape, LockOwned, callVars, dbVars, Advance,
     SkipApplied, Goto
<1>15. CASE NotApplied(p)
  BY <1>15 DEF IInv, TypeOK, CallShape, LockOwned, callVars, dbVars,
     NotApplied, Goto
<1>16. CASE PlanDown(p)
  BY <1>16 DEF IInv, TypeOK, CallShape, LockOwned, callVars, dbVars, PlanDown,
     Goto
<1>17. CASE \E lost \in BOOLEAN : ApplyUp(p, lost)
  BY <1>17 DEF IInv, TypeOK, CallShape, LockOwned, callVars, dbVars, Done,
     Finish, Advance, ApplyUp, Goto
<1>18. CASE \E lost \in BOOLEAN : ApplyDown(p, lost)
  BY <1>18 DEF IInv, TypeOK, CallShape, LockOwned, callVars, dbVars, Done,
     Finish, Advance, ApplyDown, Goto
<1>19. CASE \E lost \in BOOLEAN : MarkDirty(p, lost)
  BY <1>19 DEF IInv, TypeOK, CallShape, LockOwned, callVars, dbVars, Finish,
     MarkDirty, Goto
<1>20. CASE SQLProgresses(p)
  BY <1>20 DEF IInv, TypeOK, CallShape, LockOwned, callVars, dbVars,
     SQLProgresses, Goto
<1>21. CASE SQLSucceeds(p)
  BY <1>21 DEF IInv, TypeOK, CallShape, LockOwned, callVars, dbVars,
     SQLSucceeds, Goto
<1>22. CASE \E s \in {"absent", "partial", "present"} : SQLFails(p, s)
  BY <1>22 DEF IInv, TypeOK, CallShape, LockOwned, callVars, dbVars, Finish,
     SQLFails, Goto
<1>23. CASE \E lost \in BOOLEAN : ClearDirty(p, lost)
  BY <1>23 DEF IInv, TypeOK, CallShape, LockOwned, callVars, dbVars, Done,
     Finish, Advance, ClearDirty, Goto
<1>24. CASE WriteFails(p)
  BY <1>24 DEF IInv, TypeOK, CallShape, LockOwned, callVars, dbVars, Finish,
     WriteFails, Goto
<1>25. CASE \E lost \in BOOLEAN : ForceState(p, lost)
  BY <1>25 DEF IInv, TypeOK, CallShape, LockOwned, callVars, dbVars, Finish,
     ForceState, Goto
<1>26. CASE Crash(p)
  BY <1>26 DEF IInv, TypeOK, CallShape, LockOwned, callVars, dbVars, Crash,
     Goto
<1>. QED BY <1>1, <1>2, <1>3, <1>4, <1>5, <1>6, <1>7, <1>8, <1>9, <1>10, <1>11,
     <1>12, <1>13, <1>14, <1>15, <1>16, <1>17, <1>18, <1>19, <1>20, <1>21, <1>22,
     <1>23, <1>24, <1>25, <1>26 DEF Call, Step, Statement, Failure

\* Every step keeps the lock with the process that works under it.
LEMMA LockExclusiveKept ==
  ASSUME IInv, NEW p \in Proc, Call(p) \/ Step(p) \/ Failure(p)
  PROVE  LockExclusive'
<1>1. CASE \E files \in Files : CallUp(p, files)
  BY <1>1 DEF IInv, TypeOK, CallShape, LockExclusive, Working, Stopped,
     callVars, dbVars, CallUp, Goto
<1>2. CASE \E files \in Files, n \in 1..N : CallDown(p, files, n)
  BY <1>2 DEF IInv, TypeOK, CallShape, LockExclusive, Working, Stopped,
     callVars, dbVars, CallDown, Goto
<1>3. CASE \E v \in Version, s \in {"absent", "present"} : CallForceMigrationState(p, v, s)
  BY <1>3 DEF IInv, TypeOK, CallShape, LockExclusive, Working, Stopped,
     callVars, dbVars, OperatorsAreDone, CallForceMigrationState, Goto
<1>4. CASE CallForceUnlock(p)
  BY <1>4, MigrationsAssumption DEF IInv, TypeOK, CallShape, LockExclusive,
     Working, Stopped, callVars, dbVars, OperatorsAreDone, CallForceUnlock,
     Goto
<1>5. CASE \E lost \in BOOLEAN : AcquireLock(p, lost)
  BY <1>5, MigrationsAssumption DEF IInv, TypeOK, CallShape, LockExclusive,
     Working, Stopped, callVars, dbVars, Return, AcquireLock, Goto
<1>6. CASE AcquireFails(p)
  BY <1>6 DEF IInv, TypeOK, CallShape, LockExclusive, Working, Stopped,
     callVars, dbVars, Return, AcquireFails, Goto
<1>7. CASE \E lost \in BOOLEAN : ReleaseLock(p, lost)
  BY <1>7 DEF IInv, TypeOK, CallShape, LockExclusive, Working, Stopped,
     callVars, dbVars, Return, ReleaseLock, Goto
<1>8. CASE ReleaseFails(p)
  BY <1>8 DEF IInv, TypeOK, CallShape, LockExclusive, Working, Stopped,
     callVars, dbVars, Return, ReleaseFails, Goto
<1>9. CASE ReadOwner(p)
  BY <1>9 DEF IInv, TypeOK, CallShape, LockExclusive, Working, Stopped,
     callVars, dbVars, Return, ReadOwner, Goto
<1>10. CASE \E lost \in BOOLEAN : DeleteOwner(p, lost)
  BY <1>10 DEF IInv, TypeOK, CallShape, LockExclusive, Working, Stopped,
     callVars, dbVars, Return, DeleteOwner, Goto
<1>11. CASE UnlockFails(p)
  BY <1>11 DEF IInv, TypeOK, CallShape, LockExclusive, Working, Stopped,
     callVars, dbVars, Return, UnlockFails, Goto
<1>12. CASE ReadFails(p)
  BY <1>12 DEF IInv, TypeOK, CallShape, LockExclusive, Working, Stopped,
     callVars, dbVars, Finish, ReadFails, Goto
<1>13. CASE CheckClean(p)
  BY <1>13 DEF IInv, TypeOK, CallShape, LockExclusive, Working, Stopped,
     callVars, dbVars, Finish, CheckClean, Goto
<1>14. CASE SkipApplied(p)
  BY <1>14 DEF IInv, TypeOK, CallShape, LockExclusive, Working, Stopped,
     callVars, dbVars, Advance, SkipApplied, Goto
<1>15. CASE NotApplied(p)
  BY <1>15 DEF IInv, TypeOK, CallShape, LockExclusive, Working, Stopped,
     callVars, dbVars, NotApplied, Goto
<1>16. CASE PlanDown(p)
  BY <1>16 DEF IInv, TypeOK, CallShape, LockExclusive, Working, Stopped,
     callVars, dbVars, PlanDown, Goto
<1>17. CASE \E lost \in BOOLEAN : ApplyUp(p, lost)
  BY <1>17 DEF IInv, TypeOK, CallShape, LockExclusive, Working, Stopped,
     callVars, dbVars, Done, Finish, Advance, ApplyUp, Goto
<1>18. CASE \E lost \in BOOLEAN : ApplyDown(p, lost)
  BY SMTT(30), <1>18 DEF IInv, TypeOK, CallShape, LockExclusive, Working, Stopped,
     callVars, dbVars, Done, Finish, Advance, ApplyDown, Goto
<1>19. CASE \E lost \in BOOLEAN : MarkDirty(p, lost)
  BY <1>19 DEF IInv, TypeOK, CallShape, LockExclusive, Working, Stopped,
     callVars, dbVars, Finish, MarkDirty, Goto
<1>20. CASE SQLProgresses(p)
  BY <1>20 DEF IInv, TypeOK, CallShape, LockExclusive, Working, Stopped,
     callVars, dbVars, SQLProgresses, Goto
<1>21. CASE SQLSucceeds(p)
  BY <1>21 DEF IInv, TypeOK, CallShape, LockExclusive, Working, Stopped,
     callVars, dbVars, SQLSucceeds, Goto
<1>22. CASE \E s \in {"absent", "partial", "present"} : SQLFails(p, s)
  BY <1>22 DEF IInv, TypeOK, CallShape, LockExclusive, Working, Stopped,
     callVars, dbVars, Finish, SQLFails, Goto
<1>23. CASE \E lost \in BOOLEAN : ClearDirty(p, lost)
  BY <1>23 DEF IInv, TypeOK, CallShape, LockExclusive, Working, Stopped,
     callVars, dbVars, Done, Finish, Advance, ClearDirty, Goto
<1>24. CASE WriteFails(p)
  BY <1>24 DEF IInv, TypeOK, CallShape, LockExclusive, Working, Stopped,
     callVars, dbVars, Finish, WriteFails, Goto
<1>25. CASE \E lost \in BOOLEAN : ForceState(p, lost)
  BY <1>25 DEF IInv, TypeOK, CallShape, LockExclusive, Working, Stopped,
     callVars, dbVars, Finish, ForceState, Goto
<1>26. CASE Crash(p)
  BY <1>26 DEF IInv, TypeOK, CallShape, LockExclusive, Working, Stopped,
     callVars, dbVars, Crash, Goto
<1>. QED BY <1>1, <1>2, <1>3, <1>4, <1>5, <1>6, <1>7, <1>8, <1>9, <1>10, <1>11,
     <1>12, <1>13, <1>14, <1>15, <1>16, <1>17, <1>18, <1>19, <1>20, <1>21, <1>22,
     <1>23, <1>24, <1>25, <1>26 DEF Call, Step, Statement, Failure

-----------------------------------------------------------------------------
(* The dirty row.                                                          *)

\* The version a call works on depends on its plan and its direction only.
LEMMA CurrentSame ==
  \A q \in Proc : todo'[q] = todo[q] /\ op'[q] = op[q] =>
                    Current(q)' = Current(q)
BY DEF Current

\* One version to work on is the one worked on.
LEMMA CurrentOnly ==
  \A q \in Proc, v \in Version : todo'[q] = {v} => Current(q)' = v
BY MigrationsAssumption DEF Current, Version

\* Under careful operators at most one process works.
LEMMA OneWorker ==
  IInv /\ careful => \A p, q \in Proc : Working(p) /\ Working(q) => p = q
BY DEF IInv, LockExclusive


\* Every step keeps calls from starting on a dirty version.
LEMMA StartsCleanKept ==
  ASSUME IInv, NEW p \in Proc, Call(p) \/ Step(p) \/ Failure(p)
  PROVE  StartsClean'
<1>1. CASE \E files \in Files : CallUp(p, files)
  BY <1>1, OneWorker DEF IInv, TypeOK, Point, CallShape, StartsClean,
     DirtyIsCurrent, Working, callVars, dbVars, CallUp, Goto
<1>2. CASE \E files \in Files, n \in 1..N : CallDown(p, files, n)
  BY <1>2, OneWorker DEF IInv, TypeOK, Point, CallShape, StartsClean,
     DirtyIsCurrent, Working, callVars, dbVars, CallDown, Goto
<1>3. CASE \E v \in Version, s \in {"absent", "present"} : CallForceMigrationState(p, v, s)
  BY <1>3, OneWorker DEF IInv, TypeOK, Point, CallShape, StartsClean,
     DirtyIsCurrent, Working, callVars, dbVars, OperatorsAreDone,
     CallForceMigrationState, Goto
<1>4. CASE CallForceUnlock(p)
  BY <1>4, OneWorker DEF IInv, TypeOK, Point, CallShape, StartsClean,
     DirtyIsCurrent, Working, callVars, dbVars, OperatorsAreDone,
     CallForceUnlock, Goto
<1>5. CASE \E lost \in BOOLEAN : AcquireLock(p, lost)
  BY <1>5, OneWorker DEF IInv, TypeOK, Point, CallShape, StartsClean,
     DirtyIsCurrent, Working, callVars, dbVars, Return, AcquireLock, Goto
<1>6. CASE AcquireFails(p)
  BY <1>6, OneWorker DEF IInv, TypeOK, Point, CallShape, StartsClean,
     DirtyIsCurrent, Working, callVars, dbVars, Return, AcquireFails, Goto
<1>7. CASE \E lost \in BOOLEAN : ReleaseLock(p, lost)
  BY <1>7, OneWorker DEF IInv, TypeOK, Point, CallShape, StartsClean,
     DirtyIsCurrent, Working, callVars, dbVars, Return, ReleaseLock, Goto
<1>8. CASE ReleaseFails(p)
  BY <1>8, OneWorker DEF IInv, TypeOK, Point, CallShape, StartsClean,
     DirtyIsCurrent, Working, callVars, dbVars, Return, ReleaseFails, Goto
<1>9. CASE ReadOwner(p)
  BY <1>9, OneWorker DEF IInv, TypeOK, Point, CallShape, StartsClean,
     DirtyIsCurrent, Working, callVars, dbVars, Return, ReadOwner, Goto
<1>10. CASE \E lost \in BOOLEAN : DeleteOwner(p, lost)
  BY <1>10, OneWorker DEF IInv, TypeOK, Point, CallShape, StartsClean,
     DirtyIsCurrent, Working, callVars, dbVars, Return, DeleteOwner, Goto
<1>11. CASE UnlockFails(p)
  BY <1>11, OneWorker DEF IInv, TypeOK, Point, CallShape, StartsClean,
     DirtyIsCurrent, Working, callVars, dbVars, Return, UnlockFails, Goto
<1>12. CASE ReadFails(p)
  BY <1>12, OneWorker DEF IInv, TypeOK, Point, CallShape, StartsClean,
     DirtyIsCurrent, Working, callVars, dbVars, Finish, ReadFails, Goto
<1>13. CASE CheckClean(p)
  BY <1>13, OneWorker DEF IInv, TypeOK, Point, CallShape, StartsClean,
     DirtyIsCurrent, Working, callVars, dbVars, Finish, CheckClean, Goto
<1>14. CASE SkipApplied(p)
  BY <1>14, OneWorker DEF IInv, TypeOK, Point, CallShape, StartsClean,
     DirtyIsCurrent, Working, callVars, dbVars, Advance, SkipApplied, Goto
<1>15. CASE NotApplied(p)
  BY <1>15, OneWorker DEF IInv, TypeOK, Point, CallShape, StartsClean,
     DirtyIsCurrent, Working, callVars, dbVars, NotApplied, Goto
<1>16. CASE PlanDown(p)
  BY <1>16, OneWorker DEF IInv, TypeOK, Point, CallShape, StartsClean,
     DirtyIsCurrent, Working, callVars, dbVars, PlanDown, Goto
<1>17. CASE \E lost \in BOOLEAN : ApplyUp(p, lost)
  BY <1>17, OneWorker DEF IInv, TypeOK, Point, CallShape, StartsClean,
     DirtyIsCurrent, Working, callVars, dbVars, Done, Finish, Advance, ApplyUp,
     Goto
<1>18. CASE \E lost \in BOOLEAN : ApplyDown(p, lost)
  BY <1>18, OneWorker DEF IInv, TypeOK, Point, CallShape, StartsClean,
     DirtyIsCurrent, Working, callVars, dbVars, Done, Finish, Advance,
     ApplyDown, Goto
<1>19. CASE \E lost \in BOOLEAN : MarkDirty(p, lost)
  BY <1>19, OneWorker DEF IInv, TypeOK, Point, CallShape, StartsClean,
     DirtyIsCurrent, Working, callVars, dbVars, Finish, MarkDirty, Goto
<1>20. CASE SQLProgresses(p)
  BY <1>20, OneWorker DEF IInv, TypeOK, Point, CallShape, StartsClean,
     DirtyIsCurrent, Working, callVars, dbVars, SQLProgresses, Goto
<1>21. CASE SQLSucceeds(p)
  BY <1>21, OneWorker DEF IInv, TypeOK, Point, CallShape, StartsClean,
     DirtyIsCurrent, Working, callVars, dbVars, SQLSucceeds, Goto
<1>22. CASE \E s \in {"absent", "partial", "present"} : SQLFails(p, s)
  BY <1>22, OneWorker DEF IInv, TypeOK, Point, CallShape, StartsClean,
     DirtyIsCurrent, Working, callVars, dbVars, Finish, SQLFails, Goto
<1>23. CASE \E lost \in BOOLEAN : ClearDirty(p, lost)
  BY <1>23, OneWorker DEF IInv, TypeOK, Point, CallShape, StartsClean,
     DirtyIsCurrent, Working, callVars, dbVars, Done, Finish, Advance,
     ClearDirty, Goto
<1>24. CASE WriteFails(p)
  BY <1>24, OneWorker DEF IInv, TypeOK, Point, CallShape, StartsClean,
     DirtyIsCurrent, Working, callVars, dbVars, Finish, WriteFails, Goto
<1>25. CASE \E lost \in BOOLEAN : ForceState(p, lost)
  BY <1>25, OneWorker DEF IInv, TypeOK, Point, CallShape, StartsClean,
     DirtyIsCurrent, Working, callVars, dbVars, Finish, ForceState, Goto
<1>26. CASE Crash(p)
  BY <1>26, OneWorker DEF IInv, TypeOK, Point, CallShape, StartsClean,
     DirtyIsCurrent, Working, callVars, dbVars, Crash, Goto
<1>. QED BY <1>1, <1>2, <1>3, <1>4, <1>5, <1>6, <1>7, <1>8, <1>9, <1>10, <1>11,
     <1>12, <1>13, <1>14, <1>15, <1>16, <1>17, <1>18, <1>19, <1>20, <1>21, <1>22,
     <1>23, <1>24, <1>25, <1>26 DEF Call, Step, Statement, Failure

\* Every step keeps the dirty row with the running version.
LEMMA DirtyIsCurrentKept ==
  ASSUME IInv, NEW p \in Proc, Call(p) \/ Step(p) \/ Failure(p)
  PROVE  DirtyIsCurrent'
<1>1. CASE \E files \in Files : CallUp(p, files)
  BY <1>1, OneWorker, CurrentSame DEF IInv, TypeOK, Point, CallShape,
     StartsClean, DirtyIsCurrent, FindingHolds, Working, Target, callVars,
     dbVars, CallUp, Goto
<1>2. CASE \E files \in Files, n \in 1..N : CallDown(p, files, n)
  BY <1>2, OneWorker, CurrentSame DEF IInv, TypeOK, Point, CallShape,
     StartsClean, DirtyIsCurrent, FindingHolds, Working, Target, callVars,
     dbVars, CallDown, Goto
<1>3. CASE \E v \in Version, s \in {"absent", "present"} : CallForceMigrationState(p, v, s)
  BY <1>3, OneWorker, CurrentSame DEF IInv, TypeOK, Point, CallShape,
     StartsClean, DirtyIsCurrent, FindingHolds, Working, Target, callVars,
     dbVars, OperatorsAreDone, CallForceMigrationState, Goto
<1>4. CASE CallForceUnlock(p)
  BY <1>4, OneWorker, CurrentSame DEF IInv, TypeOK, Point, CallShape,
     StartsClean, DirtyIsCurrent, FindingHolds, Working, Target, callVars,
     dbVars, OperatorsAreDone, CallForceUnlock, Goto
<1>5. CASE \E lost \in BOOLEAN : AcquireLock(p, lost)
  BY <1>5, OneWorker, CurrentSame DEF IInv, TypeOK, Point, CallShape,
     StartsClean, DirtyIsCurrent, FindingHolds, Working, Target, callVars,
     dbVars, Return, AcquireLock, Goto
<1>6. CASE AcquireFails(p)
  BY <1>6, OneWorker, CurrentSame DEF IInv, TypeOK, Point, CallShape,
     StartsClean, DirtyIsCurrent, FindingHolds, Working, Target, callVars,
     dbVars, Return, AcquireFails, Goto
<1>7. CASE \E lost \in BOOLEAN : ReleaseLock(p, lost)
  BY <1>7, OneWorker, CurrentSame DEF IInv, TypeOK, Point, CallShape,
     StartsClean, DirtyIsCurrent, FindingHolds, Working, Target, callVars,
     dbVars, Return, ReleaseLock, Goto
<1>8. CASE ReleaseFails(p)
  BY <1>8, OneWorker, CurrentSame DEF IInv, TypeOK, Point, CallShape,
     StartsClean, DirtyIsCurrent, FindingHolds, Working, Target, callVars,
     dbVars, Return, ReleaseFails, Goto
<1>9. CASE ReadOwner(p)
  BY <1>9, OneWorker, CurrentSame DEF IInv, TypeOK, Point, CallShape,
     StartsClean, DirtyIsCurrent, FindingHolds, Working, Target, callVars,
     dbVars, Return, ReadOwner, Goto
<1>10. CASE \E lost \in BOOLEAN : DeleteOwner(p, lost)
  BY <1>10, OneWorker, CurrentSame DEF IInv, TypeOK, Point, CallShape,
     StartsClean, DirtyIsCurrent, FindingHolds, Working, Target, callVars,
     dbVars, Return, DeleteOwner, Goto
<1>11. CASE UnlockFails(p)
  BY <1>11, OneWorker, CurrentSame DEF IInv, TypeOK, Point, CallShape,
     StartsClean, DirtyIsCurrent, FindingHolds, Working, Target, callVars,
     dbVars, Return, UnlockFails, Goto
<1>12. CASE ReadFails(p)
  BY <1>12, OneWorker, CurrentSame DEF IInv, TypeOK, Point, CallShape,
     StartsClean, DirtyIsCurrent, FindingHolds, Working, Target, callVars,
     dbVars, Finish, ReadFails, Goto
<1>13. CASE CheckClean(p)
  BY <1>13, OneWorker, CurrentSame DEF IInv, TypeOK, Point, CallShape,
     StartsClean, DirtyIsCurrent, FindingHolds, Working, Target, callVars,
     dbVars, Finish, CheckClean, Goto
<1>14. CASE SkipApplied(p)
  BY <1>14, OneWorker, CurrentSame DEF IInv, TypeOK, Point, CallShape,
     StartsClean, DirtyIsCurrent, FindingHolds, Working, Target, callVars,
     dbVars, Advance, SkipApplied, Goto
<1>15. CASE NotApplied(p)
  BY <1>15, OneWorker, CurrentSame DEF IInv, TypeOK, Point, CallShape,
     StartsClean, DirtyIsCurrent, FindingHolds, Working, Target, callVars,
     dbVars, NotApplied, Goto
<1>16. CASE PlanDown(p)
  BY <1>16, OneWorker, CurrentSame DEF IInv, TypeOK, Point, CallShape,
     StartsClean, DirtyIsCurrent, FindingHolds, Working, Target, callVars,
     dbVars, PlanDown, Goto
<1>17. CASE \E lost \in BOOLEAN : ApplyUp(p, lost)
  BY <1>17, OneWorker, CurrentSame DEF IInv, TypeOK, Point, CallShape,
     StartsClean, DirtyIsCurrent, FindingHolds, Working, Target, callVars,
     dbVars, Done, Finish, Advance, ApplyUp, Goto
<1>18. CASE \E lost \in BOOLEAN : ApplyDown(p, lost)
  BY <1>18, OneWorker, CurrentSame DEF IInv, TypeOK, Point, CallShape,
     StartsClean, DirtyIsCurrent, FindingHolds, Working, Target, callVars,
     dbVars, Done, Finish, Advance, ApplyDown, Goto
<1>19. CASE \E lost \in BOOLEAN : MarkDirty(p, lost)
  BY <1>19, OneWorker, CurrentSame DEF IInv, TypeOK, Point, CallShape,
     StartsClean, DirtyIsCurrent, FindingHolds, Working, Target, callVars,
     dbVars, Finish, MarkDirty, Goto
<1>20. CASE SQLProgresses(p)
  BY <1>20, OneWorker, CurrentSame DEF IInv, TypeOK, Point, CallShape,
     StartsClean, DirtyIsCurrent, FindingHolds, Working, Target, callVars,
     dbVars, SQLProgresses, Goto
<1>21. CASE SQLSucceeds(p)
  BY <1>21, OneWorker, CurrentSame DEF IInv, TypeOK, Point, CallShape,
     StartsClean, DirtyIsCurrent, FindingHolds, Working, Target, callVars,
     dbVars, SQLSucceeds, Goto
<1>22. CASE \E s \in {"absent", "partial", "present"} : SQLFails(p, s)
  BY <1>22, OneWorker, CurrentSame DEF IInv, TypeOK, Point, CallShape,
     StartsClean, DirtyIsCurrent, FindingHolds, Working, Target, callVars,
     dbVars, Finish, SQLFails, Goto
<1>23. CASE \E lost \in BOOLEAN : ClearDirty(p, lost)
  BY <1>23, OneWorker, CurrentSame DEF IInv, TypeOK, Point, CallShape,
     StartsClean, DirtyIsCurrent, FindingHolds, Working, Target, callVars,
     dbVars, Done, Finish, Advance, ClearDirty, Goto
<1>24. CASE WriteFails(p)
  BY <1>24, OneWorker, CurrentSame DEF IInv, TypeOK, Point, CallShape,
     StartsClean, DirtyIsCurrent, FindingHolds, Working, Target, callVars,
     dbVars, Finish, WriteFails, Goto
<1>25. CASE \E lost \in BOOLEAN : ForceState(p, lost)
  BY <1>25, OneWorker, CurrentSame DEF IInv, TypeOK, Point, CallShape,
     StartsClean, DirtyIsCurrent, FindingHolds, Working, Target, callVars,
     dbVars, Finish, ForceState, Goto
<1>26. CASE Crash(p)
  BY <1>26, OneWorker, CurrentSame DEF IInv, TypeOK, Point, CallShape,
     StartsClean, DirtyIsCurrent, FindingHolds, Working, Target, callVars,
     dbVars, Crash, Goto
<1>. QED BY <1>1, <1>2, <1>3, <1>4, <1>5, <1>6, <1>7, <1>8, <1>9, <1>10, <1>11,
     <1>12, <1>13, <1>14, <1>15, <1>16, <1>17, <1>18, <1>19, <1>20, <1>21, <1>22,
     <1>23, <1>24, <1>25, <1>26 DEF Call, Step, Statement, Failure

\* Every step keeps what operators have found.
LEMMA FindingHoldsKept ==
  ASSUME IInv, NEW p \in Proc, Call(p) \/ Step(p) \/ Failure(p)
  PROVE  FindingHolds'
<1>1. CASE \E files \in Files : CallUp(p, files)
  BY <1>1, OneWorker, CurrentSame DEF IInv, TypeOK, Point, CallShape,
     StartsClean, DirtyIsCurrent, FindingHolds, LockExclusive, Working,
     Stopped, Target, callVars, dbVars, CallUp, Goto
<1>2. CASE \E files \in Files, n \in 1..N : CallDown(p, files, n)
  BY <1>2, OneWorker, CurrentSame DEF IInv, TypeOK, Point, CallShape,
     StartsClean, DirtyIsCurrent, FindingHolds, LockExclusive, Working,
     Stopped, Target, callVars, dbVars, CallDown, Goto
<1>3. CASE \E v \in Version, s \in {"absent", "present"} : CallForceMigrationState(p, v, s)
  BY <1>3, CurrentSame, CurrentOnly DEF IInv, TypeOK, Point, CallShape,
     StartsClean, DirtyIsCurrent, FindingHolds, LockExclusive, Working,
     Stopped, Target, callVars, dbVars, OperatorsAreDone,
     CallForceMigrationState, Goto
<1>4. CASE CallForceUnlock(p)
  BY <1>4, OneWorker, CurrentSame DEF IInv, TypeOK, Point, CallShape,
     StartsClean, DirtyIsCurrent, FindingHolds, LockExclusive, Working,
     Stopped, Target, callVars, dbVars, OperatorsAreDone, CallForceUnlock, Goto
<1>5. CASE \E lost \in BOOLEAN : AcquireLock(p, lost)
  BY <1>5, OneWorker, CurrentSame DEF IInv, TypeOK, Point, CallShape,
     StartsClean, DirtyIsCurrent, FindingHolds, LockExclusive, Working,
     Stopped, Target, callVars, dbVars, Return, AcquireLock, Goto
<1>6. CASE AcquireFails(p)
  BY <1>6, OneWorker, CurrentSame DEF IInv, TypeOK, Point, CallShape,
     StartsClean, DirtyIsCurrent, FindingHolds, LockExclusive, Working,
     Stopped, Target, callVars, dbVars, Return, AcquireFails, Goto
<1>7. CASE \E lost \in BOOLEAN : ReleaseLock(p, lost)
  BY <1>7, OneWorker, CurrentSame DEF IInv, TypeOK, Point, CallShape,
     StartsClean, DirtyIsCurrent, FindingHolds, LockExclusive, Working,
     Stopped, Target, callVars, dbVars, Return, ReleaseLock, Goto
<1>8. CASE ReleaseFails(p)
  BY <1>8, OneWorker, CurrentSame DEF IInv, TypeOK, Point, CallShape,
     StartsClean, DirtyIsCurrent, FindingHolds, LockExclusive, Working,
     Stopped, Target, callVars, dbVars, Return, ReleaseFails, Goto
<1>9. CASE ReadOwner(p)
  BY <1>9, OneWorker, CurrentSame DEF IInv, TypeOK, Point, CallShape,
     StartsClean, DirtyIsCurrent, FindingHolds, LockExclusive, Working,
     Stopped, Target, callVars, dbVars, Return, ReadOwner, Goto
<1>10. CASE \E lost \in BOOLEAN : DeleteOwner(p, lost)
  BY <1>10, OneWorker, CurrentSame DEF IInv, TypeOK, Point, CallShape,
     StartsClean, DirtyIsCurrent, FindingHolds, LockExclusive, Working,
     Stopped, Target, callVars, dbVars, Return, DeleteOwner, Goto
<1>11. CASE UnlockFails(p)
  BY <1>11, OneWorker, CurrentSame DEF IInv, TypeOK, Point, CallShape,
     StartsClean, DirtyIsCurrent, FindingHolds, LockExclusive, Working,
     Stopped, Target, callVars, dbVars, Return, UnlockFails, Goto
<1>12. CASE ReadFails(p)
  BY <1>12, OneWorker, CurrentSame DEF IInv, TypeOK, Point, CallShape,
     StartsClean, DirtyIsCurrent, FindingHolds, LockExclusive, Working,
     Stopped, Target, callVars, dbVars, Finish, ReadFails, Goto
<1>13. CASE CheckClean(p)
  BY <1>13, OneWorker, CurrentSame DEF IInv, TypeOK, Point, CallShape,
     StartsClean, DirtyIsCurrent, FindingHolds, LockExclusive, Working,
     Stopped, Target, callVars, dbVars, Finish, CheckClean, Goto
<1>14. CASE SkipApplied(p)
  BY <1>14, OneWorker, CurrentSame DEF IInv, TypeOK, Point, CallShape,
     StartsClean, DirtyIsCurrent, FindingHolds, LockExclusive, Working,
     Stopped, Target, callVars, dbVars, Advance, SkipApplied, Goto
<1>15. CASE NotApplied(p)
  BY <1>15, OneWorker, CurrentSame DEF IInv, TypeOK, Point, CallShape,
     StartsClean, DirtyIsCurrent, FindingHolds, LockExclusive, Working,
     Stopped, Target, callVars, dbVars, NotApplied, Goto
<1>16. CASE PlanDown(p)
  BY <1>16, OneWorker, CurrentSame DEF IInv, TypeOK, Point, CallShape,
     StartsClean, DirtyIsCurrent, FindingHolds, LockExclusive, Working,
     Stopped, Target, callVars, dbVars, PlanDown, Goto
<1>17. CASE \E lost \in BOOLEAN : ApplyUp(p, lost)
  BY <1>17, OneWorker, CurrentSame DEF IInv, TypeOK, Point, CallShape,
     StartsClean, DirtyIsCurrent, FindingHolds, LockExclusive, Working,
     Stopped, Target, callVars, dbVars, Done, Finish, Advance, ApplyUp, Goto
<1>18. CASE \E lost \in BOOLEAN : ApplyDown(p, lost)
  BY <1>18, OneWorker, CurrentSame DEF IInv, TypeOK, Point, CallShape,
     StartsClean, DirtyIsCurrent, FindingHolds, LockExclusive, Working,
     Stopped, Target, callVars, dbVars, Done, Finish, Advance, ApplyDown, Goto
<1>19. CASE \E lost \in BOOLEAN : MarkDirty(p, lost)
  BY <1>19, OneWorker, CurrentSame DEF IInv, TypeOK, Point, CallShape,
     StartsClean, DirtyIsCurrent, FindingHolds, LockExclusive, Working,
     Stopped, Target, callVars, dbVars, Finish, MarkDirty, Goto
<1>20. CASE SQLProgresses(p)
  BY <1>20, OneWorker, CurrentSame DEF IInv, TypeOK, Point, CallShape,
     StartsClean, DirtyIsCurrent, FindingHolds, LockExclusive, Working,
     Stopped, Target, callVars, dbVars, SQLProgresses, Goto
<1>21. CASE SQLSucceeds(p)
  BY <1>21, OneWorker, CurrentSame DEF IInv, TypeOK, Point, CallShape,
     StartsClean, DirtyIsCurrent, FindingHolds, LockExclusive, Working,
     Stopped, Target, callVars, dbVars, SQLSucceeds, Goto
<1>22. CASE \E s \in {"absent", "partial", "present"} : SQLFails(p, s)
  BY <1>22, OneWorker, CurrentSame DEF IInv, TypeOK, Point, CallShape,
     StartsClean, DirtyIsCurrent, FindingHolds, LockExclusive, Working,
     Stopped, Target, callVars, dbVars, Finish, SQLFails, Goto
<1>23. CASE \E lost \in BOOLEAN : ClearDirty(p, lost)
  BY <1>23, OneWorker, CurrentSame DEF IInv, TypeOK, Point, CallShape,
     StartsClean, DirtyIsCurrent, FindingHolds, LockExclusive, Working,
     Stopped, Target, callVars, dbVars, Done, Finish, Advance, ClearDirty, Goto
<1>24. CASE WriteFails(p)
  BY <1>24, OneWorker, CurrentSame DEF IInv, TypeOK, Point, CallShape,
     StartsClean, DirtyIsCurrent, FindingHolds, LockExclusive, Working,
     Stopped, Target, callVars, dbVars, Finish, WriteFails, Goto
<1>25. CASE \E lost \in BOOLEAN : ForceState(p, lost)
  BY <1>25, OneWorker, CurrentSame DEF IInv, TypeOK, Point, CallShape,
     StartsClean, DirtyIsCurrent, FindingHolds, LockExclusive, Working,
     Stopped, Target, callVars, dbVars, Finish, ForceState, Goto
<1>26. CASE Crash(p)
  BY <1>26, OneWorker, CurrentSame DEF IInv, TypeOK, Point, CallShape,
     StartsClean, DirtyIsCurrent, FindingHolds, LockExclusive, Working,
     Stopped, Target, callVars, dbVars, Crash, Goto
<1>. QED BY <1>1, <1>2, <1>3, <1>4, <1>5, <1>6, <1>7, <1>8, <1>9, <1>10, <1>11,
     <1>12, <1>13, <1>14, <1>15, <1>16, <1>17, <1>18, <1>19, <1>20, <1>21, <1>22,
     <1>23, <1>24, <1>25, <1>26 DEF Call, Step, Statement, Failure

\* Every step keeps the history true.
LEMMA HistoryTruthfulKept ==
  ASSUME IInv, NEW p \in Proc, Call(p) \/ Step(p) \/ Failure(p)
  PROVE  HistoryTruthful'
<1>1. CASE \E files \in Files : CallUp(p, files)
  BY <1>1 DEF IInv, TypeOK, Point, CallShape, StartsClean, DirtyIsCurrent,
     FindingHolds, HistoryTruthful, Target, callVars, dbVars, CallUp, Goto
<1>2. CASE \E files \in Files, n \in 1..N : CallDown(p, files, n)
  BY <1>2 DEF IInv, TypeOK, Point, CallShape, StartsClean, DirtyIsCurrent,
     FindingHolds, HistoryTruthful, Target, callVars, dbVars, CallDown, Goto
<1>3. CASE \E v \in Version, s \in {"absent", "present"} : CallForceMigrationState(p, v, s)
  BY <1>3 DEF IInv, TypeOK, Point, CallShape, StartsClean, DirtyIsCurrent,
     FindingHolds, HistoryTruthful, Target, callVars, dbVars, OperatorsAreDone,
     CallForceMigrationState, Goto
<1>4. CASE CallForceUnlock(p)
  BY <1>4 DEF IInv, TypeOK, Point, CallShape, StartsClean, DirtyIsCurrent,
     FindingHolds, HistoryTruthful, Target, callVars, dbVars, OperatorsAreDone,
     CallForceUnlock, Goto
<1>5. CASE \E lost \in BOOLEAN : AcquireLock(p, lost)
  BY <1>5 DEF IInv, TypeOK, Point, CallShape, StartsClean, DirtyIsCurrent,
     FindingHolds, HistoryTruthful, Target, callVars, dbVars, Return,
     AcquireLock, Goto
<1>6. CASE AcquireFails(p)
  BY <1>6 DEF IInv, TypeOK, Point, CallShape, StartsClean, DirtyIsCurrent,
     FindingHolds, HistoryTruthful, Target, callVars, dbVars, Return,
     AcquireFails, Goto
<1>7. CASE \E lost \in BOOLEAN : ReleaseLock(p, lost)
  BY <1>7 DEF IInv, TypeOK, Point, CallShape, StartsClean, DirtyIsCurrent,
     FindingHolds, HistoryTruthful, Target, callVars, dbVars, Return,
     ReleaseLock, Goto
<1>8. CASE ReleaseFails(p)
  BY <1>8 DEF IInv, TypeOK, Point, CallShape, StartsClean, DirtyIsCurrent,
     FindingHolds, HistoryTruthful, Target, callVars, dbVars, Return,
     ReleaseFails, Goto
<1>9. CASE ReadOwner(p)
  BY <1>9 DEF IInv, TypeOK, Point, CallShape, StartsClean, DirtyIsCurrent,
     FindingHolds, HistoryTruthful, Target, callVars, dbVars, Return,
     ReadOwner, Goto
<1>10. CASE \E lost \in BOOLEAN : DeleteOwner(p, lost)
  BY <1>10 DEF IInv, TypeOK, Point, CallShape, StartsClean, DirtyIsCurrent,
     FindingHolds, HistoryTruthful, Target, callVars, dbVars, Return,
     DeleteOwner, Goto
<1>11. CASE UnlockFails(p)
  BY <1>11 DEF IInv, TypeOK, Point, CallShape, StartsClean, DirtyIsCurrent,
     FindingHolds, HistoryTruthful, Target, callVars, dbVars, Return,
     UnlockFails, Goto
<1>12. CASE ReadFails(p)
  BY <1>12 DEF IInv, TypeOK, Point, CallShape, StartsClean, DirtyIsCurrent,
     FindingHolds, HistoryTruthful, Target, callVars, dbVars, Finish,
     ReadFails, Goto
<1>13. CASE CheckClean(p)
  BY <1>13 DEF IInv, TypeOK, Point, CallShape, StartsClean, DirtyIsCurrent,
     FindingHolds, HistoryTruthful, Target, callVars, dbVars, Finish,
     CheckClean, Goto
<1>14. CASE SkipApplied(p)
  BY <1>14 DEF IInv, TypeOK, Point, CallShape, StartsClean, DirtyIsCurrent,
     FindingHolds, HistoryTruthful, Target, callVars, dbVars, Advance,
     SkipApplied, Goto
<1>15. CASE NotApplied(p)
  BY <1>15 DEF IInv, TypeOK, Point, CallShape, StartsClean, DirtyIsCurrent,
     FindingHolds, HistoryTruthful, Target, callVars, dbVars, NotApplied, Goto
<1>16. CASE PlanDown(p)
  BY <1>16 DEF IInv, TypeOK, Point, CallShape, StartsClean, DirtyIsCurrent,
     FindingHolds, HistoryTruthful, Target, callVars, dbVars, PlanDown, Goto
<1>17. CASE \E lost \in BOOLEAN : ApplyUp(p, lost)
  BY <1>17 DEF IInv, TypeOK, Point, CallShape, StartsClean, DirtyIsCurrent,
     FindingHolds, HistoryTruthful, Target, callVars, dbVars, Done, Finish,
     Advance, ApplyUp, Goto
<1>18. CASE \E lost \in BOOLEAN : ApplyDown(p, lost)
  BY <1>18 DEF IInv, TypeOK, Point, CallShape, StartsClean, DirtyIsCurrent,
     FindingHolds, HistoryTruthful, Target, callVars, dbVars, Done, Finish,
     Advance, ApplyDown, Goto
<1>19. CASE \E lost \in BOOLEAN : MarkDirty(p, lost)
  BY <1>19 DEF IInv, TypeOK, Point, CallShape, StartsClean, DirtyIsCurrent,
     FindingHolds, HistoryTruthful, Target, callVars, dbVars, Finish,
     MarkDirty, Goto
<1>20. CASE SQLProgresses(p)
  BY <1>20 DEF IInv, TypeOK, Point, CallShape, StartsClean, DirtyIsCurrent,
     FindingHolds, HistoryTruthful, Target, callVars, dbVars, SQLProgresses,
     Goto
<1>21. CASE SQLSucceeds(p)
  BY <1>21 DEF IInv, TypeOK, Point, CallShape, StartsClean, DirtyIsCurrent,
     FindingHolds, HistoryTruthful, Target, callVars, dbVars, SQLSucceeds, Goto
<1>22. CASE \E s \in {"absent", "partial", "present"} : SQLFails(p, s)
  BY <1>22 DEF IInv, TypeOK, Point, CallShape, StartsClean, DirtyIsCurrent,
     FindingHolds, HistoryTruthful, Target, callVars, dbVars, Finish, SQLFails,
     Goto
<1>23. CASE \E lost \in BOOLEAN : ClearDirty(p, lost)
  BY <1>23 DEF IInv, TypeOK, Point, CallShape, StartsClean, DirtyIsCurrent,
     FindingHolds, HistoryTruthful, Target, callVars, dbVars, Done, Finish,
     Advance, ClearDirty, Goto
<1>24. CASE WriteFails(p)
  BY <1>24 DEF IInv, TypeOK, Point, CallShape, StartsClean, DirtyIsCurrent,
     FindingHolds, HistoryTruthful, Target, callVars, dbVars, Finish,
     WriteFails, Goto
<1>25. CASE \E lost \in BOOLEAN : ForceState(p, lost)
  BY <1>25 DEF IInv, TypeOK, Point, CallShape, StartsClean, DirtyIsCurrent,
     FindingHolds, HistoryTruthful, Target, callVars, dbVars, Finish,
     ForceState, Goto
<1>26. CASE Crash(p)
  BY <1>26 DEF IInv, TypeOK, Point, CallShape, StartsClean, DirtyIsCurrent,
     FindingHolds, HistoryTruthful, Target, callVars, dbVars, Crash, Goto
<1>. QED BY <1>1, <1>2, <1>3, <1>4, <1>5, <1>6, <1>7, <1>8, <1>9, <1>10, <1>11,
     <1>12, <1>13, <1>14, <1>15, <1>16, <1>17, <1>18, <1>19, <1>20, <1>21, <1>22,
     <1>23, <1>24, <1>25, <1>26 DEF Call, Step, Statement, Failure

-----------------------------------------------------------------------------
(* The first version of a plan, and the newest ones of the history.         *)

\* A set of naturals has a least element.
LEMMA Least ==
  ASSUME NEW S \in SUBSET Nat, S # {}
  PROVE  \E x \in S : \A y \in S : x <= y
<1>. DEFINE R == OpToRel(<, Nat)
<1>1. IsWellFoundedOn(R, Nat)
  BY NatLessThanWellFounded
<1>2. \A x, y \in Nat : <<x, y>> \in R <=> x < y
  BY DEF OpToRel
<1>. HIDE DEF R
<1>3. PICK x \in S : \A y \in S : ~ (<<y, x>> \in R)
  BY <1>1, WFMin
<1>4. \A y \in S : y \in Nat /\ x \in Nat /\ ~ (y < x)
  BY <1>2, <1>3
<1>5. \A y \in S : x <= y
  BY <1>4
<1>. QED BY <1>5

\* Versions have a newest.
LEMMA Greatest ==
  ASSUME NEW S \in SUBSET Version, S # {}
  PROVE  \E x \in S : \A y \in S : y <= x
<1>. DEFINE T == {N - x : x \in S}
<1>1. T \in SUBSET Nat /\ T # {}
  <2>1. \A x \in S : x \in Int /\ x <= N
    BY MigrationsAssumption DEF Version
  <2>2. N \in Nat
    BY MigrationsAssumption
  <2>3. \A x \in S : N - x \in Nat
    BY <2>1, <2>2
  <2>. QED BY <2>3
<1>2. PICK m \in T : \A y \in T : m <= y
  BY <1>1, Least
<1>3. PICK x \in S : m = N - x
  OBVIOUS
<1>4. \A y \in S : N - x <= N - y /\ x \in Int /\ y \in Int /\ N \in Int
  BY <1>2, <1>3, MigrationsAssumption DEF Version
<1>5. \A y \in S : y <= x
  BY <1>4
<1>. QED BY <1>5

\* The version that a call works on is the oldest (Up) or the newest (Down) left.
LEMMA CurrentFirst ==
  ASSUME NEW p \in Proc, todo[p] \in SUBSET Version, todo[p] # {}
  PROVE  /\ Current(p) \in todo[p]
         /\ \A w \in todo[p] : IF op[p] = "down" THEN w <= Current(p) ELSE Current(p) <= w
<1>1. \E v \in todo[p] : \A w \in todo[p] : IF op[p] = "down" THEN w <= v ELSE v <= w
  <2>1. todo[p] \in SUBSET Nat
    BY MigrationsAssumption DEF Version
  <2>. QED BY <2>1, Least, Greatest
<1>. QED BY <1>1 DEF Current

\* What Down plans to roll back is the newest part of what is applied.
LEMMA LatestNewest ==
  ASSUME NEW n \in Int, NEW v \in Latest(n), NEW w \in Version, v < w, history[w] = "clean"
  PROVE  w \in Latest(n)
<1>. DEFINE Newer(x) == {y \in Version : y > x /\ history[y] = "clean"}
<1>1. IsFiniteSet(Newer(v)) /\ Newer(w) \subseteq Newer(v)
  <2>1. 1 \in Int /\ N \in Int
    BY MigrationsAssumption
  <2>2. IsFiniteSet(Version)
    BY <2>1, FS_Interval DEF Version
  <2>3. v \in Version
    BY DEF Latest
  <2>4. IsFiniteSet(Newer(v))
    BY <2>2, FS_Subset
  <2>5. v \in Int /\ w \in Int /\ \A y \in Version : y \in Int
    BY <2>1, <2>3 DEF Version
  <2>6. \A y \in Version : y > w => y > v
    BY <2>5
  <2>. QED BY <2>4, <2>6
<1>2. Cardinality(Newer(v)) \in Nat /\ Cardinality(Newer(w)) \in Nat
      /\ Cardinality(Newer(w)) <= Cardinality(Newer(v))
  BY <1>1, FS_Subset, FS_CardinalityType
<1>3. Cardinality(Newer(v)) < n
  BY DEF Latest
<1>. QED BY <1>2, <1>3 DEF Latest

-----------------------------------------------------------------------------
(* Plans: what Up and Down still have to do.                               *)

\* A step changes the call of its own process only.
LEMMA OthersKept ==
  ASSUME TypeOK, NEW p \in Proc, Call(p) \/ Step(p) \/ Failure(p)
  PROVE  /\ careful' = careful /\ orderly' = orderly
         /\ \A q \in Proc \ {p} :
              /\ pc'[q] = pc[q] /\ op'[q] = op[q] /\ todo'[q] = todo[q]
              /\ loaded'[q] = loaded[q] /\ failed'[q] = failed[q] /\ ret'[q] = ret[q]
<1>1. CASE \E files \in Files : CallUp(p, files)
  BY <1>1 DEF TypeOK, callVars, CallUp, Goto
<1>2. CASE \E files \in Files, n \in 1..N : CallDown(p, files, n)
  BY <1>2 DEF TypeOK, callVars, CallDown, Goto
<1>3. CASE \E v \in Version, s \in {"absent", "present"} : CallForceMigrationState(p, v, s)
  BY <1>3 DEF TypeOK, callVars, CallForceMigrationState, Goto
<1>4. CASE CallForceUnlock(p)
  BY <1>4 DEF TypeOK, callVars, CallForceUnlock, Goto
<1>5. CASE \E lost \in BOOLEAN : AcquireLock(p, lost)
  BY <1>5 DEF TypeOK, callVars, AcquireLock, Return, Goto
<1>6. CASE AcquireFails(p)
  BY <1>6 DEF TypeOK, callVars, AcquireFails, Return, Goto
<1>7. CASE \E lost \in BOOLEAN : ReleaseLock(p, lost)
  BY <1>7 DEF TypeOK, callVars, ReleaseLock, Return, Goto
<1>8. CASE ReleaseFails(p)
  BY <1>8 DEF TypeOK, callVars, ReleaseFails, Return, Goto
<1>9. CASE ReadOwner(p)
  BY <1>9 DEF TypeOK, callVars, ReadOwner, Return, Goto
<1>10. CASE \E lost \in BOOLEAN : DeleteOwner(p, lost)
  BY <1>10 DEF TypeOK, callVars, DeleteOwner, Return, Goto
<1>11. CASE UnlockFails(p)
  BY <1>11 DEF TypeOK, callVars, UnlockFails, Return, Goto
<1>12. CASE ReadFails(p)
  BY <1>12 DEF TypeOK, callVars, ReadFails, Finish, Goto
<1>13. CASE CheckClean(p)
  BY <1>13 DEF TypeOK, callVars, CheckClean, Finish, Goto
<1>14. CASE SkipApplied(p)
  BY <1>14 DEF TypeOK, callVars, SkipApplied, Advance, Goto
<1>15. CASE NotApplied(p)
  BY <1>15 DEF TypeOK, callVars, NotApplied, Goto
<1>16. CASE PlanDown(p)
  BY <1>16 DEF TypeOK, callVars, PlanDown, Goto
<1>17. CASE \E lost \in BOOLEAN : ApplyUp(p, lost)
  BY <1>17 DEF TypeOK, callVars, ApplyUp, Done, Finish, Advance, Goto
<1>18. CASE \E lost \in BOOLEAN : ApplyDown(p, lost)
  BY <1>18 DEF TypeOK, callVars, ApplyDown, Done, Finish, Advance, Goto
<1>19. CASE \E lost \in BOOLEAN : MarkDirty(p, lost)
  BY <1>19 DEF TypeOK, callVars, MarkDirty, Finish, Goto
<1>20. CASE SQLProgresses(p)
  BY <1>20 DEF TypeOK, callVars, SQLProgresses
<1>21. CASE SQLSucceeds(p)
  BY <1>21 DEF TypeOK, callVars, SQLSucceeds, Goto
<1>22. CASE \E s \in {"absent", "partial", "present"} : SQLFails(p, s)
  BY <1>22 DEF TypeOK, callVars, SQLFails, Finish, Goto
<1>23. CASE \E lost \in BOOLEAN : ClearDirty(p, lost)
  BY <1>23 DEF TypeOK, callVars, ClearDirty, Done, Finish, Advance, Goto
<1>24. CASE WriteFails(p)
  BY <1>24 DEF TypeOK, callVars, WriteFails, Finish, Goto
<1>25. CASE \E lost \in BOOLEAN : ForceState(p, lost)
  BY <1>25 DEF TypeOK, callVars, ForceState, Finish, Goto
<1>26. CASE Crash(p)
  BY <1>26 DEF TypeOK, callVars, Crash, Goto
<1>. QED BY <1>1, <1>2, <1>3, <1>4, <1>5, <1>6, <1>7, <1>8, <1>9, <1>10, <1>11,
     <1>12, <1>13, <1>14, <1>15, <1>16, <1>17, <1>18, <1>19, <1>20, <1>21, <1>22,
     <1>23, <1>24, <1>25, <1>26 DEF Call, Step, Statement, Failure


\* The steps that change the history.
Writes(p) ==
  \E lost \in BOOLEAN :
    ApplyUp(p, lost) \/ ApplyDown(p, lost) \/ MarkDirty(p, lost) \/ ClearDirty(p, lost)
    \/ ForceState(p, lost)

\* The history is changed by the five steps that write it.
LEMMA HistoryStep ==
  ASSUME TypeOK, NEW p \in Proc, Call(p) \/ Step(p) \/ Failure(p)
  PROVE  history' = history \/ Writes(p)
<1>1. CASE \E files \in Files : CallUp(p, files)
  BY <1>1 DEF dbVars, CallUp, Goto
<1>2. CASE \E files \in Files, n \in 1..N : CallDown(p, files, n)
  BY <1>2 DEF dbVars, CallDown, Goto
<1>3. CASE \E v \in Version, s \in {"absent", "present"} : CallForceMigrationState(p, v, s)
  BY <1>3 DEF dbVars, CallForceMigrationState, Goto
<1>4. CASE CallForceUnlock(p)
  BY <1>4 DEF dbVars, CallForceUnlock, Goto
<1>5. CASE \E lost \in BOOLEAN : AcquireLock(p, lost)
  BY <1>5 DEF dbVars, AcquireLock, Return, Goto
<1>6. CASE AcquireFails(p)
  BY <1>6 DEF dbVars, AcquireFails, Return, Goto
<1>7. CASE \E lost \in BOOLEAN : ReleaseLock(p, lost)
  BY <1>7 DEF dbVars, ReleaseLock, Return, Goto
<1>8. CASE ReleaseFails(p)
  BY <1>8 DEF dbVars, ReleaseFails, Return, Goto
<1>9. CASE ReadOwner(p)
  BY <1>9 DEF dbVars, ReadOwner, Return, Goto
<1>10. CASE \E lost \in BOOLEAN : DeleteOwner(p, lost)
  BY <1>10 DEF dbVars, DeleteOwner, Return, Goto
<1>11. CASE UnlockFails(p)
  BY <1>11 DEF dbVars, UnlockFails, Return, Goto
<1>12. CASE ReadFails(p)
  BY <1>12 DEF dbVars, ReadFails, Finish, Goto
<1>13. CASE CheckClean(p)
  BY <1>13 DEF dbVars, CheckClean, Finish, Goto
<1>14. CASE SkipApplied(p)
  BY <1>14 DEF dbVars, SkipApplied, Advance, Goto
<1>15. CASE NotApplied(p)
  BY <1>15 DEF dbVars, NotApplied, Goto
<1>16. CASE PlanDown(p)
  BY <1>16 DEF dbVars, PlanDown, Goto
<1>17. CASE \E lost \in BOOLEAN : ApplyUp(p, lost)
  BY <1>17 DEF Writes
<1>18. CASE \E lost \in BOOLEAN : ApplyDown(p, lost)
  BY <1>18 DEF Writes
<1>19. CASE \E lost \in BOOLEAN : MarkDirty(p, lost)
  BY <1>19 DEF Writes
<1>20. CASE SQLProgresses(p)
  BY <1>20 DEF dbVars, SQLProgresses
<1>21. CASE SQLSucceeds(p)
  BY <1>21 DEF dbVars, SQLSucceeds, Goto
<1>22. CASE \E s \in {"absent", "partial", "present"} : SQLFails(p, s)
  BY <1>22 DEF dbVars, SQLFails, Finish, Goto
<1>23. CASE \E lost \in BOOLEAN : ClearDirty(p, lost)
  BY <1>23 DEF Writes
<1>24. CASE WriteFails(p)
  BY <1>24 DEF dbVars, WriteFails, Finish, Goto
<1>25. CASE \E lost \in BOOLEAN : ForceState(p, lost)
  BY <1>25 DEF Writes
<1>26. CASE Crash(p)
  BY <1>26 DEF dbVars, Crash, Goto
<1>. QED BY <1>1, <1>2, <1>3, <1>4, <1>5, <1>6, <1>7, <1>8, <1>9, <1>10, <1>11,
     <1>12, <1>13, <1>14, <1>15, <1>16, <1>17, <1>18, <1>19, <1>20, <1>21, <1>22,
     <1>23, <1>24, <1>25, <1>26 DEF Call, Step, Statement, Failure

\* Under careful operators the plans of other processes see no change.
LEMMA OthersSeeNothing ==
  ASSUME IInv, careful, NEW p \in Proc, Call(p) \/ Step(p) \/ Failure(p),
         NEW q \in Proc \ {p}, Working(q)
  PROVE  history' = history
<1>1. SUFFICES ASSUME Writes(p) PROVE FALSE
  BY HistoryStep DEF IInv
<1>2. Working(p)
  BY <1>1 DEF Writes, ApplyUp, ApplyDown, MarkDirty, ClearDirty, ForceState, Working
<1>. QED BY <1>2, OneWorker

\* What a call that is done with a version has left.
AdvancedTo(p) ==
  /\ todo'[p] = todo[p] \ {Current(p)}
  /\ pc'[p] \in {"release", "next", "apply"}
  /\ pc'[p] = "release" <=> todo'[p] = {}
  /\ pc'[p] = "next" => op[p] = "up"
  /\ pc'[p] = "apply" => op[p] # "up"
  /\ failed' = failed /\ ret' = ret
  /\ \A q \in Proc \ {p} : pc'[q] = pc[q] /\ todo'[q] = todo[q]

\* Advance strikes the current version off.
LEMMA AdvanceStrikes ==
  ASSUME TypeOK, NEW p \in Proc, Advance(p)
  PROVE  AdvancedTo(p)
<1>. DEFINE rest == todo[p] \ {Current(p)}
            k == IF rest = {} THEN "release"
                 ELSE IF op[p] = "up" THEN "next" ELSE "apply"
<1>1. pc' = [pc EXCEPT ![p] = k] /\ k \in {"release", "next", "apply"}
  BY DEF Advance, Goto
<1>2. todo' = [todo EXCEPT ![p] = rest] /\ UNCHANGED <<failed, ret>>
  BY DEF Advance
<1>3. (k = "release" <=> rest = {}) /\ (k = "next" => op[p] = "up")
      /\ (k = "apply" => op[p] # "up")
  OBVIOUS
<1>4. pc \in [Proc -> Point] /\ todo \in [Proc -> SUBSET Version]
  BY DEF TypeOK
<1>5. pc'[p] = k /\ todo'[p] = rest
  BY <1>1, <1>2, <1>4
<1>6. \A q \in Proc \ {p} : pc'[q] = pc[q] /\ todo'[q] = todo[q]
  BY <1>1, <1>2, <1>4
<1>. HIDE DEF k
<1>. QED BY <1>1, <1>2, <1>3, <1>5, <1>6 DEF AdvancedTo

\* What a call that is about to release has left.
FinishedWith(p, fails) ==
  /\ todo' = todo /\ ret' = ret
  /\ pc'[p] = "release" /\ failed'[p] = fails
  /\ \A q \in Proc \ {p} : pc'[q] = pc[q] /\ failed'[q] = failed[q]

\* Finish leaves everything that is still to do.
LEMMA FinishLeaves ==
  ASSUME TypeOK, NEW p \in Proc, NEW fails \in BOOLEAN, Finish(p, fails)
  PROVE  FinishedWith(p, fails)
BY DEF TypeOK, Finish, Goto, FinishedWith

\* A statement that took effect does either.
LEMMA DoneStrikes ==
  ASSUME TypeOK, NEW p \in Proc, NEW lost \in BOOLEAN, Done(p, lost)
  PROVE  FinishedWith(p, TRUE) \/ AdvancedTo(p)
BY AdvanceStrikes, FinishLeaves DEF Done

\* A call goes on while versions are left.
LEMMA WorkLeftKept ==
  ASSUME IInv, NEW p \in Proc, Call(p) \/ Step(p) \/ Failure(p)
  PROVE  WorkLeft'
<1>1. CASE \E files \in Files : CallUp(p, files)
  BY <1>1 DEF IInv, TypeOK, WorkLeft, callVars, CallUp, Goto
<1>2. CASE \E files \in Files, n \in 1..N : CallDown(p, files, n)
  BY <1>2 DEF IInv, TypeOK, WorkLeft, callVars, CallDown, Goto
<1>3. CASE \E v \in Version, s \in {"absent", "present"} : CallForceMigrationState(p, v, s)
  BY <1>3 DEF IInv, TypeOK, WorkLeft, callVars, CallForceMigrationState, Goto
<1>4. CASE CallForceUnlock(p)
  BY <1>4 DEF IInv, TypeOK, WorkLeft, callVars, CallForceUnlock, Goto
<1>5. CASE \E lost \in BOOLEAN : AcquireLock(p, lost)
  BY <1>5 DEF IInv, TypeOK, WorkLeft, callVars, AcquireLock, Return, Goto
<1>6. CASE AcquireFails(p)
  BY <1>6 DEF IInv, TypeOK, WorkLeft, callVars, AcquireFails, Return, Goto
<1>7. CASE \E lost \in BOOLEAN : ReleaseLock(p, lost)
  BY <1>7 DEF IInv, TypeOK, WorkLeft, callVars, ReleaseLock, Return, Goto
<1>8. CASE ReleaseFails(p)
  BY <1>8 DEF IInv, TypeOK, WorkLeft, callVars, ReleaseFails, Return, Goto
<1>9. CASE ReadOwner(p)
  BY <1>9 DEF IInv, TypeOK, WorkLeft, callVars, ReadOwner, Return, Goto
<1>10. CASE \E lost \in BOOLEAN : DeleteOwner(p, lost)
  BY <1>10 DEF IInv, TypeOK, WorkLeft, callVars, DeleteOwner, Return, Goto
<1>11. CASE UnlockFails(p)
  BY <1>11 DEF IInv, TypeOK, WorkLeft, callVars, UnlockFails, Return, Goto
<1>12. CASE ReadFails(p)
  BY <1>12 DEF IInv, TypeOK, WorkLeft, callVars, ReadFails, Finish, Goto
<1>13. CASE CheckClean(p)
  BY <1>13 DEF IInv, TypeOK, WorkLeft, callVars, CheckClean, Finish, Goto
<1>14. CASE SkipApplied(p)
  <2>1. AdvancedTo(p) \/ FinishedWith(p, TRUE)
    BY <1>14, AdvanceStrikes DEF IInv, SkipApplied
  <2>2. op' = op /\ loaded' = loaded
    BY <1>14 DEF SkipApplied, callVars
  <2>. QED BY <2>1, <2>2 DEF IInv, TypeOK, WorkLeft, AdvancedTo, FinishedWith
<1>15. CASE NotApplied(p)
  BY <1>15 DEF IInv, TypeOK, WorkLeft, callVars, NotApplied, Goto
<1>16. CASE PlanDown(p)
  BY <1>16 DEF IInv, TypeOK, WorkLeft, callVars, PlanDown, Goto
<1>17. CASE \E lost \in BOOLEAN : ApplyUp(p, lost)
  <2>1. AdvancedTo(p) \/ FinishedWith(p, TRUE)
    BY <1>17, DoneStrikes DEF IInv, ApplyUp
  <2>2. op' = op /\ loaded' = loaded
    BY <1>17 DEF ApplyUp, callVars
  <2>. QED BY <2>1, <2>2 DEF IInv, TypeOK, WorkLeft, AdvancedTo, FinishedWith
<1>18. CASE \E lost \in BOOLEAN : ApplyDown(p, lost)
  <2>1. AdvancedTo(p) \/ FinishedWith(p, TRUE)
    BY <1>18, DoneStrikes DEF IInv, ApplyDown
  <2>2. op' = op /\ loaded' = loaded
    BY <1>18 DEF ApplyDown, callVars
  <2>. QED BY <2>1, <2>2 DEF IInv, TypeOK, WorkLeft, AdvancedTo, FinishedWith
<1>19. CASE \E lost \in BOOLEAN : MarkDirty(p, lost)
  BY <1>19 DEF IInv, TypeOK, WorkLeft, callVars, MarkDirty, Finish, Goto
<1>20. CASE SQLProgresses(p)
  BY <1>20 DEF IInv, TypeOK, WorkLeft, callVars, SQLProgresses
<1>21. CASE SQLSucceeds(p)
  BY <1>21 DEF IInv, TypeOK, WorkLeft, callVars, SQLSucceeds, Goto
<1>22. CASE \E s \in {"absent", "partial", "present"} : SQLFails(p, s)
  BY <1>22 DEF IInv, TypeOK, WorkLeft, callVars, SQLFails, Finish, Goto
<1>23. CASE \E lost \in BOOLEAN : ClearDirty(p, lost)
  <2>1. AdvancedTo(p) \/ FinishedWith(p, TRUE)
    BY <1>23, DoneStrikes DEF IInv, ClearDirty
  <2>2. op' = op /\ loaded' = loaded
    BY <1>23 DEF ClearDirty, callVars
  <2>. QED BY <2>1, <2>2 DEF IInv, TypeOK, WorkLeft, AdvancedTo, FinishedWith
<1>24. CASE WriteFails(p)
  BY <1>24 DEF IInv, TypeOK, WorkLeft, callVars, WriteFails, Finish, Goto
<1>25. CASE \E lost \in BOOLEAN : ForceState(p, lost)
  BY <1>25 DEF IInv, TypeOK, WorkLeft, callVars, ForceState, Finish, Goto
<1>26. CASE Crash(p)
  BY <1>26 DEF IInv, TypeOK, WorkLeft, callVars, Crash, Goto
<1>. QED BY <1>1, <1>2, <1>3, <1>4, <1>5, <1>6, <1>7, <1>8, <1>9, <1>10, <1>11,
     <1>12, <1>13, <1>14, <1>15, <1>16, <1>17, <1>18, <1>19, <1>20, <1>21, <1>22,
     <1>23, <1>24, <1>25, <1>26 DEF Call, Step, Statement, Failure

\* A plan holds versions, and the one worked on is the first of them.
LEMMA CurrentLeft ==
  ASSUME IInv, NEW p \in Proc, todo[p] # {}
  PROVE  /\ todo[p] \subseteq Version /\ Current(p) \in todo[p]
         /\ \A w \in todo[p] : IF op[p] = "down" THEN w <= Current(p) ELSE Current(p) <= w
<1>1. todo[p] \in SUBSET Version
  BY DEF IInv, TypeOK
<1>. QED BY <1>1, CurrentFirst

\* Versions can be compared.
LEMMA VersionsAreNumbers == \A v \in Version : v \in Int
BY MigrationsAssumption DEF Version

\* What p has done and has left, when p runs Up.
UpPlanOf(p) ==
  op[p] = "up" /\ Working(p) =>
    /\ \A v \in loaded[p] \ todo[p] :
         history[v] = "clean" /\ \A w \in todo[p] : v < w
    /\ pc[p] = "release" /\ ~ failed[p] => todo[p] = {}

\* Every step keeps the plan of its own Up.
LEMMA OwnUpPlanKept ==
  ASSUME IInv, careful, NEW p \in Proc, Call(p) \/ Step(p) \/ Failure(p)
  PROVE  UpPlanOf(p)'
<1>. SUFFICES ASSUME op'[p] = "up", Working(p)'
             PROVE  /\ \A v \in loaded'[p] \ todo'[p] :
                         history'[v] = "clean" /\ \A w \in todo'[p] : v < w
                    /\ pc'[p] = "release" /\ ~ failed'[p] => todo'[p] = {}
  BY DEF UpPlanOf
<1>0. /\ op \in [Proc -> {"none", "up", "down", "state", "unlock"}]
      /\ pc \in [Proc -> Point] /\ todo \in [Proc -> SUBSET Version]
      /\ failed \in [Proc -> BOOLEAN] /\ loaded \in [Proc -> SUBSET Version]
      /\ history \in [Version -> {"absent", "clean", "dirty"}]
  BY DEF IInv, TypeOK
<1>p. Working(p) /\ op[p] = "up" => UpPlanOf(p)
  BY DEF IInv, UpPlan, UpPlanOf
<1>1. CASE \E files \in Files : CallUp(p, files)
  BY <1>1, <1>0, <1>p DEF IInv, CallShape, WorkLeft, UpPlanOf, Working, dbVars,
     callVars, CallUp, Goto
<1>2. CASE \E files \in Files, n \in 1..N : CallDown(p, files, n)
  BY <1>2, <1>0, <1>p DEF IInv, CallShape, WorkLeft, UpPlanOf, Working, dbVars,
     callVars, CallDown, Goto
<1>3. CASE \E v \in Version, s \in {"absent", "present"} : CallForceMigrationState(p, v, s)
  BY <1>3, <1>0, <1>p DEF IInv, CallShape, WorkLeft, UpPlanOf, Working, dbVars,
     callVars, CallForceMigrationState, Goto
<1>4. CASE CallForceUnlock(p)
  BY <1>4, <1>0, <1>p DEF IInv, CallShape, WorkLeft, UpPlanOf, Working, dbVars,
     callVars, CallForceUnlock, Goto
<1>5. CASE \E lost \in BOOLEAN : AcquireLock(p, lost)
  BY <1>5, <1>0, <1>p DEF IInv, CallShape, WorkLeft, UpPlanOf, Working, dbVars,
     callVars, AcquireLock, Return, Goto
<1>6. CASE AcquireFails(p)
  BY <1>6, <1>0, <1>p DEF IInv, CallShape, WorkLeft, UpPlanOf, Working, dbVars,
     callVars, AcquireFails, Return, Goto
<1>7. CASE \E lost \in BOOLEAN : ReleaseLock(p, lost)
  BY <1>7, <1>0, <1>p DEF IInv, CallShape, WorkLeft, UpPlanOf, Working, dbVars,
     callVars, ReleaseLock, Return, Goto
<1>8. CASE ReleaseFails(p)
  BY <1>8, <1>0, <1>p DEF IInv, CallShape, WorkLeft, UpPlanOf, Working, dbVars,
     callVars, ReleaseFails, Return, Goto
<1>9. CASE ReadOwner(p)
  BY <1>9, <1>0, <1>p DEF IInv, CallShape, WorkLeft, UpPlanOf, Working, dbVars,
     callVars, ReadOwner, Return, Goto
<1>10. CASE \E lost \in BOOLEAN : DeleteOwner(p, lost)
  BY <1>10, <1>0, <1>p DEF IInv, CallShape, WorkLeft, UpPlanOf, Working, dbVars,
     callVars, DeleteOwner, Return, Goto
<1>11. CASE UnlockFails(p)
  BY <1>11, <1>0, <1>p DEF IInv, CallShape, WorkLeft, UpPlanOf, Working, dbVars,
     callVars, UnlockFails, Return, Goto
<1>12. CASE ReadFails(p)
  BY <1>12, <1>0, <1>p DEF IInv, CallShape, WorkLeft, UpPlanOf, Working, dbVars,
     callVars, ReadFails, Finish, Goto
<1>13. CASE CheckClean(p)
  BY <1>13, <1>0, <1>p DEF IInv, CallShape, WorkLeft, UpPlanOf, Working, dbVars,
     callVars, CheckClean, Finish, Goto
<1>14. CASE SkipApplied(p)
  <2>1. op' = op /\ loaded' = loaded /\ pc[p] \in {"next", "apply", "clear"}
        /\ op[p] = "up"
    BY <1>14 DEF SkipApplied, callVars
  <2>2. AdvancedTo(p) \/ FinishedWith(p, TRUE)
    BY <1>14, AdvanceStrikes DEF IInv, SkipApplied
  <2>3. /\ todo[p] \subseteq Version /\ Current(p) \in todo[p]
        /\ \A w \in todo[p] : Current(p) <= w
    BY <2>1, CurrentLeft DEF IInv, WorkLeft
  <2>4. \A v \in loaded[p] \ todo[p] :
          history[v] = "clean" /\ \A w \in todo[p] : v < w
    BY <2>1, <1>p DEF UpPlanOf, Working
  <2>5. history'[Current(p)] = "clean"
        /\ \A v \in Version : history[v] = "clean" => history'[v] = "clean"
    BY <1>14, <1>0, <2>1, <2>3 DEF SkipApplied, dbVars
  <2>6. \A w \in todo[p] \ {Current(p)} : Current(p) < w
    BY <2>3, VersionsAreNumbers
  <2>7. \A v \in loaded[p] : v \in Version
    BY <1>0
  <2>8. CASE AdvancedTo(p)
    BY <2>1, <2>4, <2>5, <2>6, <2>7, <2>8 DEF AdvancedTo
  <2>9. CASE FinishedWith(p, TRUE)
    BY <2>1, <2>4, <2>5, <2>7, <2>9 DEF FinishedWith
  <2>. QED BY <2>2, <2>8, <2>9
<1>15. CASE NotApplied(p)
  BY <1>15, <1>0, <1>p DEF IInv, CallShape, WorkLeft, UpPlanOf, Working, dbVars,
     callVars, NotApplied, Goto
<1>16. CASE PlanDown(p)
  BY <1>16, <1>0, <1>p DEF IInv, CallShape, WorkLeft, UpPlanOf, Working, dbVars,
     callVars, PlanDown, Goto
<1>17. CASE \E lost \in BOOLEAN : ApplyUp(p, lost)
  <2>1. op' = op /\ loaded' = loaded /\ pc[p] \in {"next", "apply", "clear"}
        /\ op[p] = "up"
    BY <1>17 DEF ApplyUp, callVars
  <2>2. AdvancedTo(p) \/ FinishedWith(p, TRUE)
    BY <1>17, DoneStrikes DEF IInv, ApplyUp
  <2>3. /\ todo[p] \subseteq Version /\ Current(p) \in todo[p]
        /\ \A w \in todo[p] : Current(p) <= w
    BY <2>1, CurrentLeft DEF IInv, WorkLeft
  <2>4. \A v \in loaded[p] \ todo[p] :
          history[v] = "clean" /\ \A w \in todo[p] : v < w
    BY <2>1, <1>p DEF UpPlanOf, Working
  <2>5. history'[Current(p)] = "clean"
        /\ \A v \in Version : history[v] = "clean" => history'[v] = "clean"
    BY <1>17, <1>0, <2>1, <2>3 DEF ApplyUp, dbVars
  <2>6. \A w \in todo[p] \ {Current(p)} : Current(p) < w
    BY <2>3, VersionsAreNumbers
  <2>7. \A v \in loaded[p] : v \in Version
    BY <1>0
  <2>8. CASE AdvancedTo(p)
    BY <2>1, <2>4, <2>5, <2>6, <2>7, <2>8 DEF AdvancedTo
  <2>9. CASE FinishedWith(p, TRUE)
    BY <2>1, <2>4, <2>5, <2>7, <2>9 DEF FinishedWith
  <2>. QED BY <2>2, <2>8, <2>9
<1>18. CASE \E lost \in BOOLEAN : ApplyDown(p, lost)
  BY <1>18, <1>0, <1>p DEF IInv, CallShape, WorkLeft, UpPlanOf, Working, dbVars,
     callVars, ApplyDown, Done, Finish, Advance, Goto
<1>19. CASE \E lost \in BOOLEAN : MarkDirty(p, lost)
  BY <1>19, <1>0, <1>p, CurrentLeft DEF IInv, CallShape, WorkLeft, UpPlanOf, Working,
     dbVars, callVars, MarkDirty, Finish, Goto
<1>20. CASE SQLProgresses(p)
  BY <1>20, <1>0, <1>p DEF IInv, CallShape, WorkLeft, UpPlanOf, Working, dbVars,
     callVars, SQLProgresses
<1>21. CASE SQLSucceeds(p)
  BY <1>21, <1>0, <1>p DEF IInv, CallShape, WorkLeft, UpPlanOf, Working, dbVars,
     callVars, SQLSucceeds, Goto
<1>22. CASE \E s \in {"absent", "partial", "present"} : SQLFails(p, s)
  BY <1>22, <1>0, <1>p DEF IInv, CallShape, WorkLeft, UpPlanOf, Working, dbVars,
     callVars, SQLFails, Finish, Goto
<1>23. CASE \E lost \in BOOLEAN : ClearDirty(p, lost)
  <2>1. op' = op /\ loaded' = loaded /\ pc[p] \in {"next", "apply", "clear"}
        /\ op[p] = "up"
    BY <1>23, <1>0 DEF ClearDirty, callVars
  <2>2. AdvancedTo(p) \/ FinishedWith(p, TRUE)
    BY <1>23, DoneStrikes DEF IInv, ClearDirty
  <2>3. /\ todo[p] \subseteq Version /\ Current(p) \in todo[p]
        /\ \A w \in todo[p] : Current(p) <= w
    BY <2>1, CurrentLeft DEF IInv, WorkLeft
  <2>4. \A v \in loaded[p] \ todo[p] :
          history[v] = "clean" /\ \A w \in todo[p] : v < w
    BY <2>1, <1>p DEF UpPlanOf, Working
  <2>5. history'[Current(p)] = "clean"
        /\ \A v \in Version : history[v] = "clean" => history'[v] = "clean"
    BY <1>23, <1>0, <2>1, <2>3 DEF ClearDirty, dbVars
  <2>6. \A w \in todo[p] \ {Current(p)} : Current(p) < w
    BY <2>3, VersionsAreNumbers
  <2>7. \A v \in loaded[p] : v \in Version
    BY <1>0
  <2>8. CASE AdvancedTo(p)
    BY <2>1, <2>4, <2>5, <2>6, <2>7, <2>8 DEF AdvancedTo
  <2>9. CASE FinishedWith(p, TRUE)
    BY <2>1, <2>4, <2>5, <2>7, <2>9 DEF FinishedWith
  <2>. QED BY <2>2, <2>8, <2>9
<1>24. CASE WriteFails(p)
  BY <1>24, <1>0, <1>p DEF IInv, CallShape, WorkLeft, UpPlanOf, Working, dbVars,
     callVars, WriteFails, Finish, Goto
<1>25. CASE \E lost \in BOOLEAN : ForceState(p, lost)
  BY <1>25, <1>0, <1>p DEF IInv, CallShape, WorkLeft, UpPlanOf, Working, dbVars,
     callVars, ForceState, Finish, Goto
<1>26. CASE Crash(p)
  BY <1>26, <1>0, <1>p DEF IInv, CallShape, WorkLeft, UpPlanOf, Working, dbVars,
     callVars, Crash, Goto
<1>. QED BY <1>1, <1>2, <1>3, <1>4, <1>5, <1>6, <1>7, <1>8, <1>9, <1>10, <1>11,
     <1>12, <1>13, <1>14, <1>15, <1>16, <1>17, <1>18, <1>19, <1>20, <1>21, <1>22,
     <1>23, <1>24, <1>25, <1>26 DEF Call, Step, Statement, Failure

\* Every step keeps what Up has done and has left.
LEMMA UpPlanKept ==
  ASSUME IInv, NEW p \in Proc, Call(p) \/ Step(p) \/ Failure(p)
  PROVE  UpPlan'
<1>1. SUFFICES ASSUME careful', NEW q \in Proc PROVE UpPlanOf(q)'
  BY DEF UpPlan, UpPlanOf
<1>2. careful
  BY <1>1, OthersKept DEF IInv
<1>3. CASE q = p
  BY <1>2, <1>3, OwnUpPlanKept
<1>4. CASE q # p
  <2>1. /\ pc'[q] = pc[q] /\ op'[q] = op[q] /\ todo'[q] = todo[q]
        /\ loaded'[q] = loaded[q] /\ failed'[q] = failed[q]
    BY <1>4, OthersKept DEF IInv
  <2>2. Working(q) => history' = history
    BY <1>2, <1>4, OthersSeeNothing
  <2>3. UpPlanOf(q)
    BY <1>2 DEF IInv, UpPlan, UpPlanOf
  <2>. QED BY <2>1, <2>2, <2>3 DEF UpPlanOf, Working
<1>. QED BY <1>3, <1>4

\* What p has left, when p runs Down.
DownPlanOf(p) ==
  op[p] = "down" /\ pc[p] \in {"apply", "sql", "clear"} =>
    \A v \in todo[p], w \in Version : v < w /\ history[w] # "absent" => w \in todo[p]

\* Every step keeps the plan of its own Down.
LEMMA OwnDownPlanKept ==
  ASSUME IInv, careful, NEW p \in Proc, Call(p) \/ Step(p) \/ Failure(p)
  PROVE  DownPlanOf(p)'
<1>. SUFFICES ASSUME op'[p] = "down", pc'[p] \in {"apply", "sql", "clear"},
                    NEW v \in todo'[p], NEW w \in Version, v < w, history'[w] # "absent"
             PROVE  w \in todo'[p]
  BY DEF DownPlanOf
<1>0. /\ op \in [Proc -> {"none", "up", "down", "state", "unlock"}]
      /\ pc \in [Proc -> Point] /\ todo \in [Proc -> SUBSET Version]
      /\ steps \in [Proc -> 0..N]
      /\ history \in [Version -> {"absent", "clean", "dirty"}]
  BY DEF IInv, TypeOK
<1>p. DownPlanOf(p)
  BY DEF IInv, DownPlan, DownPlanOf
<1>c. pc[p] \in {"apply", "sql", "clear"} =>
        /\ Current(p) \in todo[p] /\ Current(p) \in Version
  BY CurrentLeft DEF IInv, WorkLeft
<1>1. CASE \E files \in Files : CallUp(p, files)
  BY <1>1, <1>0, <1>p DEF IInv, CallShape, DownPlanOf, dbVars, callVars, CallUp, Goto
<1>2. CASE \E files \in Files, n \in 1..N : CallDown(p, files, n)
  BY <1>2, <1>0, <1>p DEF IInv, CallShape, DownPlanOf, dbVars, callVars, CallDown, Goto
<1>3. CASE \E u \in Version, s \in {"absent", "present"} : CallForceMigrationState(p, u, s)
  BY <1>3, <1>0, <1>p DEF IInv, CallShape, DownPlanOf, dbVars, callVars,
     CallForceMigrationState, Goto
<1>4. CASE CallForceUnlock(p)
  BY <1>4, <1>0, <1>p DEF IInv, CallShape, DownPlanOf, dbVars, callVars,
     CallForceUnlock, Goto
<1>5. CASE \E lost \in BOOLEAN : AcquireLock(p, lost)
  BY <1>5, <1>0, <1>p DEF IInv, CallShape, DownPlanOf, dbVars, callVars, AcquireLock,
     Return, Goto
<1>6. CASE AcquireFails(p)
  BY <1>6, <1>0, <1>p DEF IInv, CallShape, DownPlanOf, dbVars, callVars, AcquireFails,
     Return, Goto
<1>7. CASE \E lost \in BOOLEAN : ReleaseLock(p, lost)
  BY <1>7, <1>0, <1>p DEF IInv, CallShape, DownPlanOf, dbVars, callVars, ReleaseLock,
     Return, Goto
<1>8. CASE ReleaseFails(p)
  BY <1>8, <1>0, <1>p DEF IInv, CallShape, DownPlanOf, dbVars, callVars, ReleaseFails,
     Return, Goto
<1>9. CASE ReadOwner(p)
  BY <1>9, <1>0, <1>p DEF IInv, CallShape, DownPlanOf, dbVars, callVars, ReadOwner,
     Return, Goto
<1>10. CASE \E lost \in BOOLEAN : DeleteOwner(p, lost)
  BY <1>10, <1>0, <1>p DEF IInv, CallShape, DownPlanOf, dbVars, callVars, DeleteOwner,
     Return, Goto
<1>11. CASE UnlockFails(p)
  BY <1>11, <1>0, <1>p DEF IInv, CallShape, DownPlanOf, dbVars, callVars, UnlockFails,
     Return, Goto
<1>12. CASE ReadFails(p)
  BY <1>12, <1>0, <1>p DEF IInv, CallShape, DownPlanOf, dbVars, callVars, ReadFails,
     Finish, Goto
<1>13. CASE CheckClean(p)
  BY <1>13, <1>0, <1>p DEF IInv, CallShape, DownPlanOf, dbVars, callVars, CheckClean,
     Finish, Goto
<1>14. CASE SkipApplied(p)
  BY <1>14, <1>0, <1>p, AdvanceStrikes DEF AdvancedTo, IInv, CallShape, DownPlanOf,
     dbVars, callVars, SkipApplied
<1>15. CASE NotApplied(p)
  BY <1>15, <1>0, <1>p DEF IInv, CallShape, DownPlanOf, dbVars, callVars, NotApplied, Goto
<1>16. CASE PlanDown(p)
  <2>1. /\ todo'[p] = Latest(steps[p]) /\ pc[p] = "plan" /\ history' = history
        /\ steps[p] \in Int
    BY <1>16, <1>0, MigrationsAssumption DEF PlanDown, dbVars
  <2>2. history[w] = "clean"
    BY <2>1, <1>0 DEF IInv, StartsClean
  <2>. QED BY <2>1, <2>2, LatestNewest
<1>17. CASE \E lost \in BOOLEAN : ApplyUp(p, lost)
  BY <1>17, <1>0 DEF ApplyUp, callVars
<1>18. CASE \E lost \in BOOLEAN : ApplyDown(p, lost)
  <2>1. op' = op /\ pc[p] \in {"apply", "clear"} /\ op[p] = "down"
    BY <1>18, <1>0 DEF ApplyDown, callVars
  <2>2. AdvancedTo(p)
    <3>1. AdvancedTo(p) \/ FinishedWith(p, TRUE)
      BY <1>18, DoneStrikes DEF IInv, ApplyDown
    <3>. QED BY <3>1 DEF FinishedWith
  <2>3. history'[Current(p)] = "absent"
        /\ \A x \in Version \ {Current(p)} : history'[x] = history[x]
    BY <1>18, <1>0, <1>c, <2>1 DEF IInv, StartsClean, ApplyDown
  <2>4. w # Current(p) /\ v \in todo[p] /\ history[w] # "absent"
    BY <2>2, <2>3 DEF AdvancedTo
  <2>5. w \in todo[p]
    BY <2>1, <2>4, <1>p DEF DownPlanOf
  <2>. QED BY <2>2, <2>4, <2>5 DEF AdvancedTo
<1>19. CASE \E lost \in BOOLEAN : MarkDirty(p, lost)
  <2>1. todo'[p] = todo[p] /\ op' = op /\ pc[p] = "apply"
    BY <1>19 DEF MarkDirty, Finish, Goto, callVars
  <2>2. \A x \in Version \ {Current(p)} : history'[x] = history[x]
    BY <1>19, <1>0 DEF MarkDirty
  <2>. QED BY <2>1, <2>2, <1>c, <1>p DEF DownPlanOf
<1>20. CASE SQLProgresses(p)
  BY <1>20, <1>0, <1>p DEF IInv, CallShape, DownPlanOf, dbVars, callVars, SQLProgresses
<1>21. CASE SQLSucceeds(p)
  BY <1>21, <1>0, <1>p DEF IInv, CallShape, DownPlanOf, dbVars, callVars, SQLSucceeds,
     Goto
<1>22. CASE \E s \in {"absent", "partial", "present"} : SQLFails(p, s)
  BY <1>22, <1>0, <1>p DEF IInv, CallShape, DownPlanOf, dbVars, callVars, SQLFails,
     Finish, Goto
<1>23. CASE \E lost \in BOOLEAN : ClearDirty(p, lost)
  <2>1. op' = op /\ pc[p] \in {"apply", "clear"} /\ op[p] = "down"
    BY <1>23, <1>0 DEF ClearDirty, callVars
  <2>2. AdvancedTo(p)
    <3>1. AdvancedTo(p) \/ FinishedWith(p, TRUE)
      BY <1>23, DoneStrikes DEF IInv, ClearDirty
    <3>. QED BY <3>1 DEF FinishedWith
  <2>3. history'[Current(p)] = "absent"
        /\ \A x \in Version \ {Current(p)} : history'[x] = history[x]
    BY <1>23, <1>0, <1>c, <2>1 DEF IInv, StartsClean, ClearDirty
  <2>4. w # Current(p) /\ v \in todo[p] /\ history[w] # "absent"
    BY <2>2, <2>3 DEF AdvancedTo
  <2>5. w \in todo[p]
    BY <2>1, <2>4, <1>p DEF DownPlanOf
  <2>. QED BY <2>2, <2>4, <2>5 DEF AdvancedTo
<1>24. CASE WriteFails(p)
  BY <1>24, <1>0, <1>p DEF IInv, CallShape, DownPlanOf, dbVars, callVars, WriteFails,
     Finish, Goto
<1>25. CASE \E lost \in BOOLEAN : ForceState(p, lost)
  BY <1>25, <1>0, <1>p DEF IInv, CallShape, DownPlanOf, dbVars, callVars, ForceState,
     Finish, Goto
<1>26. CASE Crash(p)
  BY <1>26, <1>0, <1>p DEF IInv, CallShape, DownPlanOf, dbVars, callVars, Crash, Goto
<1>. QED BY <1>1, <1>2, <1>3, <1>4, <1>5, <1>6, <1>7, <1>8, <1>9, <1>10, <1>11,
     <1>12, <1>13, <1>14, <1>15, <1>16, <1>17, <1>18, <1>19, <1>20, <1>21, <1>22,
     <1>23, <1>24, <1>25, <1>26 DEF Call, Step, Statement, Failure

\* Every step keeps Down on the newest versions.
LEMMA DownPlanKept ==
  ASSUME IInv, NEW p \in Proc, Call(p) \/ Step(p) \/ Failure(p)
  PROVE  DownPlan'
<1>1. SUFFICES ASSUME careful', NEW q \in Proc PROVE DownPlanOf(q)'
  BY DEF DownPlan, DownPlanOf
<1>2. careful
  BY <1>1, OthersKept DEF IInv
<1>3. CASE q = p
  BY <1>2, <1>3, OwnDownPlanKept
<1>4. CASE q # p
  <2>1. pc'[q] = pc[q] /\ op'[q] = op[q] /\ todo'[q] = todo[q]
    BY <1>4, OthersKept DEF IInv
  <2>2. Working(q) => history' = history
    BY <1>2, <1>4, OthersSeeNothing
  <2>3. DownPlanOf(q)
    BY <1>2 DEF IInv, DownPlan, DownPlanOf
  <2>. QED BY <2>1, <2>2, <2>3 DEF DownPlanOf, Working
<1>. QED BY <1>3, <1>4

-----------------------------------------------------------------------------
(* The order of the history.                                               *)

\* What a write changes, under careful operators: it applies the version worked on
\* or marks it, removes or resolves the one it finds applied or dirty.
Advances(c) == history[c] = "absent" /\ history'[c] \in {"clean", "dirty"}
Withdraws(c) == history[c] = "clean" /\ history'[c] \in {"absent", "dirty"}
Resolves(c) == history[c] = "dirty" /\ history'[c] \in {"clean", "absent"}

\* Every write is one of these on the version that the writer works on.
LEMMA WriteKinds ==
  ASSUME IInv, NEW p \in Proc, Writes(p)
  PROVE  /\ pc[p] \in {"apply", "clear", "force"}
         /\ history' # history => Current(p) \in Version
         /\ \A v \in Version \ {Current(p)} : history'[v] = history[v]
         /\ \/ history' = history
            \/ pc[p] = "apply" /\ op[p] = "up" /\ Advances(Current(p))
            \/ pc[p] = "apply" /\ op[p] = "down" /\ Withdraws(Current(p))
            \/ pc[p] \in {"clear", "force"} /\ Resolves(Current(p))
<1>. DEFINE c == Current(p)
<1>0. history \in [Version -> {"absent", "clean", "dirty"}]
  BY DEF IInv, TypeOK
<1>1. pc[p] \in {"apply", "clear", "force"}
  BY DEF Writes, ApplyUp, ApplyDown, MarkDirty, ClearDirty, ForceState
<1>2. \E s \in {"absent", "clean", "dirty"} : history' = [history EXCEPT ![c] = s]
  <2>1. history[c] \in {"absent", "clean", "dirty"} \/ c \notin Version
    BY <1>0
  <2>2. CASE c \notin Version
    BY <1>0, <2>2 DEF Writes, ApplyUp, ApplyDown, MarkDirty, ClearDirty, ForceState
  <2>. QED BY <2>1, <2>2
       DEF Writes, ApplyUp, ApplyDown, MarkDirty, ClearDirty, ForceState
<1>3. \A v \in Version \ {c} : history'[v] = history[v]
  BY <1>0, <1>2
<1>4. history' # history => c \in Version
  BY <1>0, <1>2
<1>5. CASE c \in Version
  <2>. USE <1>0, <1>5
  <2>1. ASSUME NEW lost \in BOOLEAN, ApplyUp(p, lost)
        PROVE  pc[p] = "apply" /\ op[p] = "up" /\ Advances(c)
    BY <2>1 DEF ApplyUp, Advances
  <2>2. ASSUME NEW lost \in BOOLEAN, ApplyDown(p, lost)
        PROVE  history' = history \/ (pc[p] = "apply" /\ op[p] = "down" /\ Withdraws(c))
    BY <2>2 DEF ApplyDown, Withdraws
  <2>3. ASSUME NEW lost \in BOOLEAN, MarkDirty(p, lost)
        PROVE  \/ pc[p] = "apply" /\ op[p] = "up" /\ Advances(c)
               \/ pc[p] = "apply" /\ op[p] = "down" /\ Withdraws(c)
    <3>1. op[p] \in {"up", "down"}
      BY <2>3 DEF MarkDirty, IInv, CallShape
    <3>. QED BY <2>3, <3>1 DEF MarkDirty, Advances, Withdraws
  <2>4. ASSUME NEW lost \in BOOLEAN, ClearDirty(p, lost)
        PROVE  pc[p] \in {"clear", "force"} /\ Resolves(c)
    BY <2>4 DEF ClearDirty, Resolves
  <2>5. ASSUME NEW lost \in BOOLEAN, ForceState(p, lost)
        PROVE  pc[p] \in {"clear", "force"} /\ Resolves(c)
    BY <2>5 DEF ForceState, Resolves
  <2>. QED BY <1>1, <1>3, <2>1, <2>2, <2>3, <2>4, <2>5 DEF Writes
<1>. QED BY <1>1, <1>3, <1>4, <1>5

\* Every step keeps the history without holes, for files that are prefixes.
LEMMA AppliedInOrderKept ==
  ASSUME IInv, Prefixed, NEW p \in Proc, Call(p) \/ Step(p) \/ Failure(p)
  PROVE  AppliedInOrder'
<1>1. SUFFICES ASSUME careful, Writes(p), history' # history,
                      NEW v \in Version, NEW w \in Version, v < w, history'[w] # "absent"
               PROVE  history'[v] = "clean"
  BY HistoryStep, OthersKept DEF IInv, AppliedInOrder
<1>. DEFINE c == Current(p)
<1>2. \A x, y \in Version : x < y /\ history[y] # "absent" => history[x] = "clean"
  BY <1>1 DEF IInv, AppliedInOrder
<1>3. c \in Version /\ \A x \in Version \ {c} : history'[x] = history[x]
  BY <1>1, WriteKinds
<1>4. CASE v # c /\ w # c
  BY <1>1, <1>2, <1>3, <1>4
<1>5. CASE pc[p] = "apply" /\ op[p] = "up" /\ Advances(c)
  <2>1. loaded[p] \in Files /\ loaded[p] \subseteq Version /\ todo[p] \subseteq loaded[p]
        /\ todo[p] # {}
    BY <1>5 DEF IInv, TypeOK, CallShape, WorkLeft
  <2>2. c \in todo[p] /\ \A x \in todo[p] : c <= x
    BY <1>5, <2>1, CurrentLeft
  <2>3. \A x \in Version : x < c => history[x] = "clean"
    <3>1. SUFFICES ASSUME NEW x \in Version, x < c PROVE history[x] = "clean"
      OBVIOUS
    <3>2. x \in loaded[p]
      BY <2>1, <2>2, <3>1 DEF Prefixed
    <3>3. x \notin todo[p]
      BY <1>3, <2>2, <3>1, VersionsAreNumbers
    <3>. QED BY <1>1, <1>5, <3>2, <3>3 DEF IInv, UpPlan, Working
  <2>4. CASE w = c
    <3>1. v # c
      BY <1>1, <2>4, VersionsAreNumbers
    <3>. QED BY <1>1, <1>3, <2>3, <2>4, <3>1
  <2>5. CASE v = c /\ w # c
    <3>1. history[c] = "clean"
      BY <1>1, <1>2, <1>3, <2>5
    <3>. QED BY <1>5, <3>1 DEF Advances
  <2>. QED BY <1>4, <2>4, <2>5
<1>6. CASE pc[p] = "apply" /\ op[p] = "down" /\ Withdraws(c)
  <2>1. c \in todo[p] /\ \A x \in todo[p] : x <= c
    BY <1>6, CurrentLeft DEF IInv, WorkLeft
  <2>2. CASE v = c
    <3>1. w # c
      BY <1>1, <2>2, VersionsAreNumbers
    <3>2. w \in todo[p]
      BY <1>1, <1>3, <1>6, <2>1, <2>2, <3>1 DEF IInv, DownPlan
    <3>. QED BY <1>1, <2>1, <2>2, <3>2, VersionsAreNumbers
  <2>3. CASE w = c /\ v # c
    BY <1>1, <1>2, <1>3, <1>6, <2>3 DEF Withdraws
  <2>. QED BY <1>4, <2>2, <2>3
<1>7. CASE Resolves(c)
  <2>1. CASE v = c
    <3>1. w # c
      BY <1>1, <2>1, VersionsAreNumbers
    <3>2. history[c] = "clean"
      BY <1>1, <1>2, <1>3, <2>1, <3>1
    <3>. QED BY <1>7, <3>2 DEF Resolves
  <2>2. CASE w = c /\ v # c
    BY <1>1, <1>2, <1>3, <1>7, <2>2 DEF Resolves
  <2>. QED BY <1>4, <2>1, <2>2
<1>. QED BY <1>1, <1>5, <1>6, <1>7, WriteKinds

-----------------------------------------------------------------------------
(* One execution of a version, and one repair.                             *)

\* A dirty row is resolved only by whoever runs its version or repairs it.
LEMMA DirtyResolved ==
  ASSUME IInv, NEW p \in Proc, Call(p) \/ Step(p) \/ Failure(p),
         NEW v \in Version, history[v] = "dirty", history'[v] # "dirty"
  PROVE  pc[p] \in {"clear", "force"} /\ Current(p) = v
<1>1. Writes(p) /\ history' # history
  BY HistoryStep DEF IInv
<1>2. Current(p) = v
  BY <1>1, WriteKinds
<1>. QED BY <1>1, <1>2, WriteKinds DEF Advances, Withdraws

\* Who runs a version was running it before or has just marked it dirty.
LEMMA RunningSteps ==
  ASSUME IInv, NEW p \in Proc, Call(p) \/ Step(p) \/ Failure(p),
         pc'[p] \in {"sql", "clear"}
  PROVE  /\ Current(p)' = Current(p) /\ Current(p) \in Version
         /\ \/ pc[p] \in {"sql", "clear"} /\ history' = history
            \/ history[Current(p)] # "dirty" /\ history'[Current(p)] = "dirty"
<1>0. /\ op \in [Proc -> {"none", "up", "down", "state", "unlock"}]
      /\ pc \in [Proc -> Point] /\ todo \in [Proc -> SUBSET Version]
      /\ history \in [Version -> {"absent", "clean", "dirty"}]
  BY DEF IInv, TypeOK
<1>1. CASE \E lost \in BOOLEAN : MarkDirty(p, lost)
  <2>1. todo' = todo /\ op' = op /\ pc[p] = "apply"
    BY <1>1 DEF MarkDirty, Finish, Goto, callVars
  <2>2. Current(p) \in Version
    BY <2>1, CurrentLeft DEF IInv, WorkLeft
  <2>. QED BY <1>0, <1>1, <2>1, <2>2, CurrentSame DEF MarkDirty
<1>2. CASE SQLProgresses(p) \/ SQLSucceeds(p)
  <2>1. todo' = todo /\ op' = op /\ pc[p] = "sql" /\ history' = history
    BY <1>2 DEF SQLProgresses, SQLSucceeds, callVars
  <2>2. Current(p) \in Version
    BY <2>1, CurrentLeft DEF IInv, WorkLeft
  <2>. QED BY <2>1, <2>2, CurrentSame
<1>3. CASE SkipApplied(p) \/ \E lost \in BOOLEAN : \/ ApplyUp(p, lost) \/ ApplyDown(p, lost)
                                                  \/ ClearDirty(p, lost)
  BY <1>3, AdvanceStrikes, DoneStrikes
     DEF IInv, SkipApplied, ApplyUp, ApplyDown, ClearDirty, AdvancedTo, FinishedWith
<1>4. CASE Call(p)
  BY <1>0, <1>4 DEF Call, CallUp, CallDown, CallForceMigrationState, CallForceUnlock, Goto
<1>5. CASE Failure(p)
  BY <1>0, <1>5 DEF Failure, AcquireFails, ReleaseFails, UnlockFails, ReadFails, WriteFails,
     SQLFails, Crash, Return, Finish, Goto
<1>6. CASE \E lost \in BOOLEAN : \/ AcquireLock(p, lost) \/ ReleaseLock(p, lost)
                                 \/ DeleteOwner(p, lost) \/ ForceState(p, lost)
  BY <1>0, <1>6 DEF AcquireLock, ReleaseLock, DeleteOwner, ForceState, Return, Finish, Goto
<1>7. CASE ReadOwner(p) \/ CheckClean(p) \/ NotApplied(p) \/ PlanDown(p)
  BY <1>0, <1>7 DEF ReadOwner, CheckClean, NotApplied, PlanDown, Return, Finish, Goto
<1>. QED BY <1>1, <1>2, <1>3, <1>4, <1>5, <1>6, <1>7 DEF Step, Statement

\* A process that stays out of the step works on the same version.
LEMMA OthersWorkOn ==
  ASSUME IInv, NEW p \in Proc, Call(p) \/ Step(p) \/ Failure(p), NEW q \in Proc \ {p}
  PROVE  pc'[q] = pc[q] /\ op'[q] = op[q] /\ Current(q)' = Current(q)
BY OthersKept, CurrentSame DEF IInv

\* Every step keeps runners apart.
LEMMA RunsApartKept ==
  ASSUME IInv, NEW p \in Proc, Call(p) \/ Step(p) \/ Failure(p)
  PROVE  RunsApart'
<1>1. SUFFICES ASSUME orderly, NEW q \in Proc, pc'[q] \in {"sql", "clear"}
               PROVE  /\ history'[Current(q)'] = "dirty"
                      /\ \A r \in Proc :
                           pc'[r] \in {"sql", "clear"} /\ Current(r)' = Current(q)' => r = q
  BY OthersKept DEF IInv, RunsApart
<1>2. ASSUME NEW r \in Proc \ {p}, pc'[r] \in {"sql", "clear"}
      PROVE  /\ Current(r)' = Current(r) /\ pc[r] \in {"sql", "clear"}
             /\ Current(r) \in Version /\ history[Current(r)] = "dirty"
             /\ history'[Current(r)] = "dirty"
  <2>1. Current(r)' = Current(r) /\ pc[r] \in {"sql", "clear"}
    BY <1>2, OthersWorkOn
  <2>2. Current(r) \in Version /\ history[Current(r)] = "dirty"
    BY <1>1, <2>1, CurrentLeft DEF IInv, WorkLeft, RunsApart
  <2>3. pc[p] = "clear" => Current(p) # Current(r)
    BY <1>1, <1>2, <2>1 DEF IInv, RunsApart
  <2>4. pc[p] = "force" => Current(p) # Current(r)
    BY <1>1, <2>1 DEF IInv, CallShape, RepairsApart, Stopped
  <2>. QED BY <2>1, <2>2, <2>3, <2>4, DirtyResolved
<1>3. ASSUME pc'[p] \in {"sql", "clear"}
      PROVE  /\ history'[Current(p)'] = "dirty"
             /\ \A r \in Proc \ {p} : pc'[r] \in {"sql", "clear"} => Current(r)' # Current(p)'
  <2>1. /\ Current(p)' = Current(p) /\ Current(p) \in Version
        /\ \/ pc[p] \in {"sql", "clear"} /\ history' = history
           \/ history[Current(p)] # "dirty" /\ history'[Current(p)] = "dirty"
    BY <1>3, RunningSteps
  <2>2. pc[p] \in {"sql", "clear"} =>
          /\ history[Current(p)] = "dirty"
          /\ \A r \in Proc : pc[r] \in {"sql", "clear"} /\ Current(r) = Current(p) => r = p
    BY <1>1 DEF IInv, RunsApart
  <2>3. ASSUME NEW r \in Proc \ {p}, pc'[r] \in {"sql", "clear"}
        PROVE  Current(r)' # Current(p)'
    BY <1>2, <2>1, <2>2, <2>3
  <2>. QED BY <2>1, <2>2, <2>3
<1>4. CASE q = p
  BY <1>1, <1>3, <1>4
<1>5. CASE q # p
  <2>1. ASSUME NEW r \in Proc, r # q, pc'[r] \in {"sql", "clear"}
        PROVE  Current(r)' # Current(q)'
    <3>1. CASE r = p
      BY <1>1, <1>3, <1>5, <2>1, <3>1
    <3>2. CASE r # p
      <4>1. pc[r] \in {"sql", "clear"} /\ Current(r)' = Current(r)
        BY <1>2, <2>1, <3>2
      <4>2. pc[q] \in {"sql", "clear"} /\ Current(q)' = Current(q)
        BY <1>1, <1>2, <1>5
      <4>. QED BY <1>1, <2>1, <4>1, <4>2 DEF IInv, RunsApart
    <3>. QED BY <3>1, <3>2
  <2>2. history'[Current(q)'] = "dirty"
    BY <1>1, <1>2, <1>5
  <2>. QED BY <2>1, <2>2
<1>. QED BY <1>4, <1>5

\* Every step keeps repairs apart from runners and from each other.
LEMMA RepairsApartKept ==
  ASSUME IInv, NEW p \in Proc, Call(p) \/ Step(p) \/ Failure(p)
  PROVE  RepairsApart'
<1>1. SUFFICES ASSUME orderly, NEW r \in Proc, op'[r] = "state", ~ (Stopped(r)')
               PROVE  /\ \A q \in Proc : op'[q] = "state" /\ ~ (Stopped(q)') => q = r
                      /\ pc'[r] \in {"acquire", "force"} =>
                           /\ Current(r)' \in Version /\ history'[Current(r)'] = "dirty"
                           /\ \A q \in Proc :
                                pc'[q] \in {"sql", "clear"} => Current(q)' # Current(r)'
  BY OthersKept DEF IInv, RepairsApart
<1>0. /\ op \in [Proc -> {"none", "up", "down", "state", "unlock"}]
      /\ pc \in [Proc -> Point] /\ todo \in [Proc -> SUBSET Version]
      /\ history \in [Version -> {"absent", "clean", "dirty"}]
  BY DEF IInv, TypeOK
<1>2. CASE \E v \in Version, s \in {"absent", "present"} : CallForceMigrationState(p, v, s)
  <2>0. PICK v \in Version, s \in {"absent", "present"} : CallForceMigrationState(p, v, s)
    BY <1>2
  <2>1. \A q \in Proc : op[q] = "state" => Stopped(q)
    BY <1>1, <2>0 DEF CallForceMigrationState
  <2>2. \A q \in Proc \ {p} :
          pc'[q] = pc[q] /\ op'[q] = op[q] /\ Current(q)' = Current(q)
    BY OthersWorkOn
  <2>3. r = p /\ \A q \in Proc : op'[q] = "state" /\ ~ (Stopped(q)') => q = p
    BY <1>1, <2>1, <2>2 DEF Stopped
  <2>4. todo'[p] = {v} /\ pc'[p] = "acquire" /\ history' = history /\ history[v] = "dirty"
    BY <1>0, <2>0 DEF CallForceMigrationState, Goto
  <2>5. Current(p)' = v
    BY <2>4, CurrentOnly
  <2>6. \A q \in Proc : pc[q] \in {"sql", "clear"} => Current(q) # v
    BY <2>0 DEF CallForceMigrationState
  <2>. QED BY <2>2, <2>3, <2>4, <2>5, <2>6
<1>3. CASE ~ \E v \in Version, s \in {"absent", "present"} : CallForceMigrationState(p, v, s)
  <2>1. /\ op'[p] = "state" => op[p] = "state"
        /\ pc'[p] \notin {"returned", "crashed"} => pc[p] \notin {"returned", "crashed"}
        /\ op'[p] = "state" /\ pc'[p] \in {"acquire", "force"} =>
             pc[p] \in {"acquire", "force"} /\ todo'[p] = todo[p] /\ history' = history
    <3>1. CASE Call(p)
      BY <1>0, <1>3, <3>1 DEF Call, CallUp, CallDown, CallForceUnlock, Goto, Point
    <3>2. CASE SkipApplied(p) \/ \E lost \in BOOLEAN : \/ ApplyUp(p, lost)
                                                       \/ ApplyDown(p, lost)
                                                       \/ ClearDirty(p, lost)
      <4>1. AdvancedTo(p) \/ FinishedWith(p, TRUE)
        BY <3>2, AdvanceStrikes, DoneStrikes
           DEF IInv, SkipApplied, ApplyUp, ApplyDown, ClearDirty
      <4>2. op' = op /\ pc[p] \in {"next", "apply", "clear"}
        BY <3>2 DEF SkipApplied, ApplyUp, ApplyDown, ClearDirty, callVars
      <4>. QED BY <4>1, <4>2 DEF AdvancedTo, FinishedWith
    <3>3. CASE Failure(p)
      BY <1>0, <3>3 DEF Failure, AcquireFails, ReleaseFails, UnlockFails, ReadFails,
         WriteFails, SQLFails, Crash, Return, Finish, Goto, callVars
    <3>4. CASE \E lost \in BOOLEAN : \/ AcquireLock(p, lost) \/ ReleaseLock(p, lost)
                                     \/ DeleteOwner(p, lost) \/ ForceState(p, lost)
                                     \/ MarkDirty(p, lost)
      BY <1>0, <3>4 DEF AcquireLock, ReleaseLock, DeleteOwner, ForceState, MarkDirty,
         Return, Finish, Goto, callVars
    <3>5. CASE \/ ReadOwner(p) \/ CheckClean(p) \/ NotApplied(p) \/ PlanDown(p)
               \/ SQLProgresses(p) \/ SQLSucceeds(p)
      BY <1>0, <3>5 DEF ReadOwner, CheckClean, NotApplied, PlanDown, SQLProgresses,
         SQLSucceeds, Return, Finish, Goto, callVars
    <3>. QED BY <3>1, <3>2, <3>3, <3>4, <3>5 DEF Step, Statement
  <2>2. \A q \in Proc : op'[q] = "state" /\ ~ (Stopped(q)') => op[q] = "state" /\ ~ Stopped(q)
    BY <2>1, OthersWorkOn DEF Stopped
  <2>3. op[r] = "state" /\ ~ Stopped(r)
    BY <1>1, <2>2
  <2>4. \A q \in Proc : op[q] = "state" /\ ~ Stopped(q) => q = r
    BY <1>1, <2>3 DEF IInv, RepairsApart
  <2>5. ASSUME pc'[r] \in {"acquire", "force"}
        PROVE  /\ Current(r)' \in Version /\ history'[Current(r)'] = "dirty"
               /\ \A q \in Proc : pc'[q] \in {"sql", "clear"} => Current(q)' # Current(r)'
    <3>1. pc[r] \in {"acquire", "force"} /\ Current(r)' = Current(r)
      BY <1>1, <2>1, <2>3, <2>5, OthersWorkOn, CurrentSame
    <3>2. /\ Current(r) \in Version /\ history[Current(r)] = "dirty"
          /\ \A q \in Proc : pc[q] \in {"sql", "clear"} => Current(q) # Current(r)
      BY <1>1, <2>3, <3>1 DEF IInv, RepairsApart
    <3>3. history'[Current(r)] = "dirty"
      <4>1. CASE r = p
        BY <1>1, <2>1, <2>5, <3>2, <4>1
      <4>2. CASE r # p
        <5>1. pc[p] = "force" => op[p] = "state" /\ ~ Stopped(p)
          BY DEF IInv, CallShape, Stopped
        <5>2. pc[p] # "force"
          BY <2>4, <4>2, <5>1
        <5>. QED BY <3>2, <5>2, DirtyResolved
      <4>. QED BY <4>1, <4>2
    <3>4. ASSUME NEW q \in Proc, pc'[q] \in {"sql", "clear"}
          PROVE  Current(q)' # Current(r)
      <4>1. CASE q = p
        BY <3>2, <3>3, <3>4, <4>1, RunningSteps
      <4>2. CASE q # p
        BY <3>2, <3>4, <4>2, OthersWorkOn
      <4>. QED BY <4>1, <4>2
    <3>. QED BY <3>1, <3>2, <3>3, <3>4
  <2>. QED BY <2>2, <2>4, <2>5
<1>. QED BY <1>2, <1>3

-----------------------------------------------------------------------------
(* The invariant and what follows from it.                                 *)

\* The invariant holds initially.
LEMMA InitIInv == Init => IInv
<1>. SUFFICES ASSUME Init PROVE IInv
  OBVIOUS
<1>. USE MigrationsAssumption
<1>1. TypeOK
  <2>1. PICK k \in 0..N, s \in {"none", "absent", "partial", "present"} :
          /\ history = [v \in Version |->
                          CASE v <= k -> "clean"
                            [] v = k + 1 /\ s # "none" -> "dirty"
                            [] OTHER -> "absent"]
          /\ schema = [v \in Version |->
                         CASE v <= k -> "present"
                           [] v = k + 1 /\ s # "none" -> s
                           [] OTHER -> "absent"]
    BY DEF Init
  <2>2. RowTypes
    BY <2>1 DEF RowTypes, Version
  <2>3. CallTypes /\ ProgressTypes /\ OwnerTypes
    BY DEF Init, CallTypes, ProgressTypes, OwnerTypes, Point
  <2>. QED BY <2>2, <2>3, TypeParts
<1>2. CallShape /\ LockOwned /\ LockExclusive
  BY DEF Init, CallShape, LockOwned, LockExclusive, Working
<1>3. StartsClean /\ DirtyIsCurrent /\ FindingHolds
  BY DEF Init, StartsClean, DirtyIsCurrent, FindingHolds
<1>4. HistoryTruthful
  BY DEF Init, HistoryTruthful, Version
<1>5. WorkLeft /\ UpPlan /\ DownPlan /\ RunsApart /\ RepairsApart
  BY DEF Init, WorkLeft, UpPlan, DownPlan, RunsApart, RepairsApart, Working
<1>6. AppliedInOrder
  BY DEF Init, AppliedInOrder, Version
<1>. QED BY <1>1, <1>2, <1>3, <1>4, <1>5, <1>6 DEF IInv

\* Every step preserves the invariant.
LEMMA NextIInv == IInv /\ [Next]_vars => IInv'
<1>1. ASSUME IInv, UNCHANGED vars PROVE IInv'
  <2>. USE <1>1 DEF IInv, vars, dbVars, callVars
  <2>1. TypeOK' BY DEF TypeOK
  <2>2. CallShape' BY DEF CallShape
  <2>3. LockOwned' BY DEF LockOwned
  <2>4. LockExclusive' BY DEF LockExclusive, Working, Stopped
  <2>5. StartsClean' BY DEF StartsClean
  <2>6. DirtyIsCurrent' BY CurrentSame DEF DirtyIsCurrent, Target
  <2>7. FindingHolds' BY CurrentSame DEF FindingHolds
  <2>8. HistoryTruthful' BY DEF HistoryTruthful
  <2>9. WorkLeft' BY DEF WorkLeft
  <2>10. UpPlan' BY DEF UpPlan, Working
  <2>11. DownPlan' BY DEF DownPlan
  <2>12. RunsApart' BY CurrentSame DEF RunsApart
  <2>13. RepairsApart' BY CurrentSame DEF RepairsApart, Stopped
  <2>14. Prefixed => AppliedInOrder' BY DEF AppliedInOrder
  <2>. QED BY <2>1, <2>2, <2>3, <2>4, <2>5, <2>6, <2>7, <2>8, <2>9, <2>10, <2>11,
       <2>12, <2>13, <2>14
<1>2. ASSUME IInv, NEW p \in Proc, Call(p) \/ Step(p) \/ Failure(p) PROVE IInv'
  BY <1>2, TypeOKKept, CallShapeKept, LockOwnedKept, LockExclusiveKept,
     StartsCleanKept, DirtyIsCurrentKept, FindingHoldsKept, HistoryTruthfulKept,
     WorkLeftKept, UpPlanKept, DownPlanKept, AppliedInOrderKept, RunsApartKept,
     RepairsApartKept DEF IInv
<1>. QED BY <1>1, <1>2 DEF Next

\* IInv is an invariant of the migration runner: lock, dirty rows, plans and what
\* operators have found fit together at every moment (migration.go:205-462).
THEOREM Invariant == Spec => []IInv
BY InitIInv, NextIInv, PTL DEF Spec

\* migration.go:605-651: the lock keeps processes apart, however many there are,
\* as long as operators unlock only the dead.
THEOREM Exclusive == Spec => []OneRunner
<1>1. IInv => OneRunner
  BY DEF IInv, LockExclusive, OneRunner
<1>. QED BY <1>1, Invariant, PTL

\* migration.go:722-749, 824-859, 405-462: clean and missing history rows tell the
\* truth about the schema after any number of crashes, failures and repairs.
THEOREM Truthful == Spec => []HistoryTruthful
<1>1. IInv => HistoryTruthful
  BY DEF IInv
<1>. QED BY <1>1, Invariant, PTL

\* migration.go:643-649: nil is never returned by a call that lost its lock on the
\* way, whatever operators do.
THEOREM NilHeld == Spec => []NilMeansHeld
<1>1. IInv => NilMeansHeld
  BY DEF IInv, LockOwned, NilMeansHeld
<1>. QED BY <1>1, Invariant, PTL

\* migration.go:722-749, 824-859: whoever takes the lock from whom, the dirty row
\* lets one runner at a time execute a version's SQL.
THEOREM OneExecutionHolds == Spec => []OneExecution
<1>1. IInv => OneExecution
  BY DEF IInv, RunsApart, OneExecution
<1>. QED BY <1>1, Invariant, PTL

\* migration.go:242-253, 312-339: when deployments bring along every migration that
\* is older than one they bring, the history never has a hole.
THEOREM InOrder ==
  ASSUME Prefixed
  PROVE  Spec => []AppliedInOrder
<1>1. IInv => AppliedInOrder
  BY DEF IInv
<1>. QED BY <1>1, Invariant, PTL

\* A call that turns to nil is an unlock or releases after it has succeeded.
LEMMA NilStep ==
  ASSUME IInv, NEW p \in Proc, Call(p) \/ Step(p) \/ Failure(p),
         ret[p] # "nil", ret'[p] = "nil"
  PROVE  op[p] = "unlock" \/ (pc[p] = "release" /\ ~ failed[p])
<1>0. ret \in [Proc -> {"none", "nil", "err"}]
  BY DEF IInv, TypeOK
<1>1. CASE Call(p) \/ Failure(p)
  BY <1>0, <1>1 DEF Call, CallUp, CallDown, CallForceMigrationState, CallForceUnlock, Failure,
     AcquireFails, ReleaseFails, UnlockFails, ReadFails, WriteFails, SQLFails, Crash, Return,
     Finish
<1>2. CASE \E lost \in BOOLEAN : ReleaseLock(p, lost)
  BY <1>0, <1>2 DEF ReleaseLock, Return
<1>3. CASE ReadOwner(p) \/ \E lost \in BOOLEAN : DeleteOwner(p, lost)
  BY <1>3 DEF ReadOwner, DeleteOwner, IInv, CallShape
<1>4. CASE SkipApplied(p) \/ \E lost \in BOOLEAN : \/ ApplyUp(p, lost) \/ ApplyDown(p, lost)
                                                  \/ ClearDirty(p, lost)
  BY <1>0, <1>4, AdvanceStrikes, DoneStrikes
     DEF IInv, SkipApplied, ApplyUp, ApplyDown, ClearDirty, AdvancedTo, FinishedWith
<1>5. CASE \E lost \in BOOLEAN : \/ AcquireLock(p, lost) \/ MarkDirty(p, lost)
                                 \/ ForceState(p, lost)
  BY <1>0, <1>5 DEF AcquireLock, MarkDirty, ForceState, Return, Finish
<1>6. CASE \/ CheckClean(p) \/ NotApplied(p) \/ PlanDown(p)
           \/ SQLProgresses(p) \/ SQLSucceeds(p)
  BY <1>0, <1>6 DEF CheckClean, NotApplied, PlanDown, SQLProgresses, SQLSucceeds, Finish
<1>. QED BY <1>1, <1>2, <1>3, <1>4, <1>5, <1>6 DEF Step, Statement

\* migration.go:205-255: nil from Up means that all it brought along is in the
\* history and in the schema, however many others ran, failed or were repaired.
THEOREM UpNil == Spec => UpNilMeansApplied
<1>. DEFINE Applied(p) == \A v \in loaded[p] : history[v] = "clean" /\ schema[v] = "present"
            A == \A p \in Proc :
                   careful /\ op[p] = "up" /\ ret[p] # "nil" /\ ret'[p] = "nil" => Applied(p)
<1>1. IInv /\ Next => A
  <2>1. SUFFICES ASSUME IInv, NEW q \in Proc, Call(q) \/ Step(q) \/ Failure(q),
                        NEW p \in Proc, careful, op[p] = "up", ret[p] # "nil", ret'[p] = "nil"
                 PROVE  Applied(p)
    BY DEF Next
  <2>2. p = q
    BY <2>1, OthersKept DEF IInv
  <2>3. pc[p] = "release" /\ ~ failed[p]
    BY <2>1, <2>2, NilStep
  <2>4. loaded[p] \in SUBSET Version
    BY <2>1 DEF IInv, TypeOK
  <2>5. \A v \in loaded[p] : history[v] = "clean"
    BY <2>1, <2>3 DEF IInv, UpPlan, Working
  <2>. QED BY <2>1, <2>4, <2>5 DEF IInv, HistoryTruthful
<1>2. IInv /\ [Next]_vars => [A]_vars
  BY <1>1
<1>3. Spec => [][A]_vars
  BY <1>2, Invariant, PTL DEF Spec
<1>. QED BY <1>3 DEF UpNilMeansApplied
=============================================================================
