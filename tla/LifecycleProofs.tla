--------------------------- MODULE LifecycleProofs ---------------------------
(***************************************************************************)
(* Proofs about the strict lifecycle for every number of components, every *)
(* way they shut down, every set of prestarted components and any number   *)
(* of concurrent callers.  IInv of Lifecycle is shown inductive, one lemma *)
(* per action and in it one step per conjunct; the safety properties and   *)
(* the refinement of OrderedComponents follow from it.                     *)
(***************************************************************************)
EXTENDS Lifecycle, TLAPS

-----------------------------------------------------------------------------
(* Every action preserves IInv.                                            *)

\* Call preserves the inductive invariant.
LEMMA CallInv ==
  ASSUME IInv, NEW p \in Proc, NEW k \in {"start", "stop"}, Call(p, k)
  PROVE  IInv'
<1>1. TypeOK'
  BY LifecycleAssumption DEF IInv, TypeOK, CallState, Finished, Comp, Call,
     resultVars, entryVars, attemptVars
<1>2. Ownership'
  BY LifecycleAssumption DEF IInv, Ownership, OpeningPc, ClosingPc, Call,
     resultVars, entryVars, attemptVars
<1>3. EntryMatchesComponent'
  BY LifecycleAssumption DEF IInv, EntryMatchesComponent, Finished, Call,
     resultVars, entryVars, attemptVars
<1>4. StateMatchesEntries'
  BY LifecycleAssumption DEF IInv, StateMatchesEntries, MustClose, Finished,
     Call, resultVars, entryVars, attemptVars
<1>5. LaterOnesDown'
  BY LifecycleAssumption DEF IInv, LaterOnesDown, MustClose, Finished, Call,
     resultVars, entryVars, attemptVars
<1>6. Progress'
  BY LifecycleAssumption DEF IInv, Progress, MustClose, Finished, OpeningPc,
     ClosingPc, Comp, Call, resultVars, entryVars, attemptVars
<1>7. Outcomes'
  BY LifecycleAssumption DEF IInv, TypeOK, Outcomes, CallState, Finished, Comp,
     AnyFailed, ClosingPc, Call, resultVars, entryVars, attemptVars
<1>8. QED BY <1>1, <1>2, <1>3, <1>4, <1>5, <1>6, <1>7 DEF IInv

\* Expire preserves the inductive invariant.
LEMMA ExpireInv ==
  ASSUME IInv, NEW p \in Proc, Expire(p)
  PROVE  IInv'
<1>1. TypeOK'
  BY LifecycleAssumption DEF IInv, TypeOK, CallState, Finished, Comp, Expire,
     resultVars, entryVars
<1>2. Ownership'
  BY LifecycleAssumption DEF IInv, Ownership, OpeningPc, ClosingPc, Expire,
     resultVars, entryVars
<1>3. EntryMatchesComponent'
  BY LifecycleAssumption DEF IInv, EntryMatchesComponent, Finished, Expire,
     resultVars, entryVars
<1>4. StateMatchesEntries'
  BY LifecycleAssumption DEF IInv, StateMatchesEntries, MustClose, Finished,
     Expire, resultVars, entryVars
<1>5. LaterOnesDown'
  BY LifecycleAssumption DEF IInv, LaterOnesDown, MustClose, Finished, Expire,
     resultVars, entryVars
<1>6. Progress'
  BY LifecycleAssumption DEF IInv, Progress, MustClose, Finished, OpeningPc,
     ClosingPc, Comp, Expire, resultVars, entryVars
<1>7. Outcomes'
  BY LifecycleAssumption DEF IInv, Outcomes, AnyFailed, ClosingPc, Expire,
     resultVars, entryVars
<1>8. QED BY <1>1, <1>2, <1>3, <1>4, <1>5, <1>6, <1>7 DEF IInv

\* Block preserves the inductive invariant.
LEMMA BlockInv ==
  ASSUME IInv, NEW p \in Proc, Block(p)
  PROVE  IInv'
<1>1. TypeOK'
  BY LifecycleAssumption DEF IInv, TypeOK, CallState, Finished, Comp, Block,
     resultVars, entryVars, attemptVars
<1>2. Ownership'
  BY LifecycleAssumption DEF IInv, Ownership, OpeningPc, ClosingPc, Block,
     resultVars, entryVars, attemptVars
<1>3. EntryMatchesComponent'
  BY LifecycleAssumption DEF IInv, EntryMatchesComponent, Finished, Block,
     resultVars, entryVars, attemptVars
<1>4. StateMatchesEntries'
  BY LifecycleAssumption DEF IInv, StateMatchesEntries, MustClose, Finished,
     Block, resultVars, entryVars, attemptVars
<1>5. LaterOnesDown'
  BY LifecycleAssumption DEF IInv, LaterOnesDown, MustClose, Finished, Block,
     resultVars, entryVars, attemptVars
<1>6. Progress'
  BY LifecycleAssumption DEF IInv, Progress, MustClose, Finished, OpeningPc,
     ClosingPc, Comp, Block, resultVars, entryVars, attemptVars
<1>7. Outcomes'
  BY LifecycleAssumption DEF IInv, Outcomes, AnyFailed, ClosingPc, Block,
     resultVars, entryVars, attemptVars
<1>8. QED BY <1>1, <1>2, <1>3, <1>4, <1>5, <1>6, <1>7 DEF IInv

\* WaitExpired preserves the inductive invariant.
LEMMA WaitExpiredInv ==
  ASSUME IInv, NEW p \in Proc, WaitExpired(p)
  PROVE  IInv'
<1>1. TypeOK'
  BY LifecycleAssumption DEF IInv, TypeOK, CallState, Finished, Comp,
     WaitExpired, Return, resultVars, entryVars, attemptVars
<1>2. Ownership'
  BY LifecycleAssumption DEF IInv, Ownership, OpeningPc, ClosingPc,
     WaitExpired, Return, resultVars, entryVars, attemptVars
<1>3. EntryMatchesComponent'
  BY LifecycleAssumption DEF IInv, EntryMatchesComponent, Finished,
     WaitExpired, Return, resultVars, entryVars, attemptVars
<1>4. StateMatchesEntries'
  BY LifecycleAssumption DEF IInv, StateMatchesEntries, MustClose, Finished,
     WaitExpired, Return, resultVars, entryVars, attemptVars
<1>5. LaterOnesDown'
  BY LifecycleAssumption DEF IInv, LaterOnesDown, MustClose, Finished,
     WaitExpired, Return, resultVars, entryVars, attemptVars
<1>6. Progress'
  BY LifecycleAssumption DEF IInv, Progress, MustClose, Finished, OpeningPc,
     ClosingPc, Comp, WaitExpired, Return, resultVars, entryVars, attemptVars
<1>7. Outcomes'
  BY LifecycleAssumption DEF IInv, TypeOK, Outcomes, CallState, Finished, Comp,
     AnyFailed, ClosingPc, WaitExpired, Return, resultVars, entryVars,
     attemptVars
<1>8. QED BY <1>1, <1>2, <1>3, <1>4, <1>5, <1>6, <1>7 DEF IInv

\* WakeUp preserves the inductive invariant.
LEMMA WakeUpInv ==
  ASSUME IInv, NEW p \in Proc, WakeUp(p)
  PROVE  IInv'
<1>1. TypeOK'
  BY LifecycleAssumption DEF IInv, TypeOK, CallState, Finished, Comp, WakeUp,
     resultVars, entryVars, attemptVars
<1>2. Ownership'
  BY LifecycleAssumption DEF IInv, Ownership, OpeningPc, ClosingPc, WakeUp,
     resultVars, entryVars, attemptVars
<1>3. EntryMatchesComponent'
  BY LifecycleAssumption DEF IInv, EntryMatchesComponent, Finished, WakeUp,
     resultVars, entryVars, attemptVars
<1>4. StateMatchesEntries'
  BY LifecycleAssumption DEF IInv, StateMatchesEntries, MustClose, Finished,
     WakeUp, resultVars, entryVars, attemptVars
<1>5. LaterOnesDown'
  BY LifecycleAssumption DEF IInv, LaterOnesDown, MustClose, Finished, WakeUp,
     resultVars, entryVars, attemptVars
<1>6. Progress'
  BY LifecycleAssumption DEF IInv, Progress, MustClose, Finished, OpeningPc,
     ClosingPc, Comp, WakeUp, resultVars, entryVars, attemptVars
<1>7. Outcomes'
  BY LifecycleAssumption DEF IInv, Outcomes, AnyFailed, ClosingPc, WakeUp,
     resultVars, entryVars, attemptVars
<1>8. QED BY <1>1, <1>2, <1>3, <1>4, <1>5, <1>6, <1>7 DEF IInv

\* StartAnswered preserves the inductive invariant.
LEMMA StartAnsweredInv ==
  ASSUME IInv, NEW p \in Proc, StartAnswered(p)
  PROVE  IInv'
<1>1. TypeOK'
  <2>1. PICK err \in BOOLEAN : Return(p, err)
    BY Zenon DEF IInv, TypeOK, StartAnswered
  <2>2. QED
    BY <2>1, LifecycleAssumption
    DEF IInv, TypeOK, CallState, Finished, Comp, StartAnswered, Return,
        entryVars, attemptVars, resultVars
<1>2. Ownership'
  BY LifecycleAssumption DEF IInv, TypeOK, Ownership, CallState, Finished,
     Comp, OpeningPc, ClosingPc, StartAnswered, Return, resultVars, entryVars,
     attemptVars
<1>3. EntryMatchesComponent'
  BY LifecycleAssumption DEF IInv, EntryMatchesComponent, Finished,
     StartAnswered, Return, resultVars, entryVars, attemptVars
<1>4. StateMatchesEntries'
  BY LifecycleAssumption DEF IInv, StateMatchesEntries, MustClose, Finished,
     StartAnswered, Return, resultVars, entryVars, attemptVars
<1>5. LaterOnesDown'
  BY LifecycleAssumption DEF IInv, LaterOnesDown, MustClose, Finished,
     StartAnswered, Return, resultVars, entryVars, attemptVars
<1>6. Progress'
  BY LifecycleAssumption DEF IInv, TypeOK, Ownership, Progress, CallState,
     Finished, Comp, OpeningPc, ClosingPc, MustClose, StartAnswered, Return,
     resultVars, entryVars, attemptVars
<1>7. Outcomes'
  BY LifecycleAssumption DEF IInv, TypeOK, Ownership, EntryMatchesComponent,
     Progress, Outcomes, CallState, Finished, Comp, OpeningPc, ClosingPc,
     MustClose, AnyFailed, StartAnswered, Return, resultVars, entryVars,
     attemptVars
<1>8. QED BY <1>1, <1>2, <1>3, <1>4, <1>5, <1>6, <1>7 DEF IInv

\* StartBegin preserves the inductive invariant.
LEMMA StartBeginInv ==
  ASSUME IInv, NEW p \in Proc, StartBegin(p)
  PROVE  IInv'
<1>1. TypeOK'
  <2>1. startErr' \in BOOLEAN /\ startRetryable' \in BOOLEAN /\ stopErr' \in BOOLEAN
    BY Zenon DEF IInv, TypeOK, StartBegin
  <2>2. QED
    BY <2>1, LifecycleAssumption
    DEF IInv, TypeOK, CallState, Finished, Comp, StartBegin, entryVars,
        attemptVars
<1>2. Ownership'
  BY LifecycleAssumption DEF IInv, Ownership, OpeningPc, ClosingPc, StartBegin,
     entryVars, attemptVars
<1>3. EntryMatchesComponent'
  BY LifecycleAssumption DEF IInv, EntryMatchesComponent, Finished, StartBegin,
     entryVars, attemptVars
<1>4. StateMatchesEntries'
  BY LifecycleAssumption DEF IInv, StateMatchesEntries, MustClose, Finished,
     StartBegin, entryVars, attemptVars
<1>5. LaterOnesDown'
  BY LifecycleAssumption DEF IInv, LaterOnesDown, MustClose, Finished,
     StartBegin, entryVars, attemptVars
<1>6. Progress'
  BY LifecycleAssumption DEF IInv, TypeOK, Ownership, StateMatchesEntries,
     Progress, CallState, Finished, Comp, OpeningPc, ClosingPc, MustClose,
     StartBegin, entryVars, attemptVars
<1>7. Outcomes'
  BY LifecycleAssumption DEF IInv, Outcomes, AnyFailed, ClosingPc, StartBegin,
     entryVars, attemptVars
<1>8. QED BY <1>1, <1>2, <1>3, <1>4, <1>5, <1>6, <1>7 DEF IInv

\* InitBegin preserves the inductive invariant.
LEMMA InitBeginInv ==
  ASSUME IInv, NEW p \in Proc, InitBegin(p)
  PROVE  IInv'
<1>1. TypeOK'
  BY LifecycleAssumption DEF IInv, TypeOK, CallState, Finished, Comp,
     InitBegin, resultVars
<1>2. Ownership'
  BY LifecycleAssumption DEF IInv, Ownership, OpeningPc, ClosingPc, InitBegin,
     resultVars
<1>3. EntryMatchesComponent'
  BY LifecycleAssumption DEF IInv, TypeOK, EntryMatchesComponent, CallState,
     Finished, Comp, InitBegin, resultVars
<1>4. StateMatchesEntries'
  BY LifecycleAssumption DEF IInv, TypeOK, Ownership, StateMatchesEntries,
     Progress, CallState, Finished, Comp, OpeningPc, ClosingPc, MustClose,
     InitBegin, resultVars
<1>5. LaterOnesDown'
  BY LifecycleAssumption DEF IInv, TypeOK, Ownership, StateMatchesEntries,
     LaterOnesDown, Progress, CallState, Finished, Comp, OpeningPc, ClosingPc,
     MustClose, InitBegin, resultVars
<1>6. Progress'
  BY LifecycleAssumption DEF IInv, TypeOK, Ownership, EntryMatchesComponent,
     StateMatchesEntries, LaterOnesDown, Progress, Outcomes, CallState,
     Finished, Comp, OpeningPc, ClosingPc, MustClose, AnyFailed, InitBegin,
     resultVars
<1>7. Outcomes'
  BY LifecycleAssumption DEF IInv, TypeOK, Ownership, Progress, Outcomes,
     CallState, Finished, Comp, OpeningPc, ClosingPc, MustClose, AnyFailed,
     InitBegin, resultVars
<1>8. QED BY <1>1, <1>2, <1>3, <1>4, <1>5, <1>6, <1>7 DEF IInv

\* InitSkip preserves the inductive invariant.
LEMMA InitSkipInv ==
  ASSUME IInv, NEW p \in Proc, InitSkip(p)
  PROVE  IInv'
<1>1. TypeOK'
  BY LifecycleAssumption DEF IInv, TypeOK, CallState, Finished, Comp, InitSkip,
     resultVars, entryVars, attemptVars
<1>2. Ownership'
  BY LifecycleAssumption DEF IInv, Ownership, OpeningPc, ClosingPc, InitSkip,
     resultVars, entryVars, attemptVars
<1>3. EntryMatchesComponent'
  BY LifecycleAssumption DEF IInv, EntryMatchesComponent, Finished, InitSkip,
     resultVars, entryVars, attemptVars
<1>4. StateMatchesEntries'
  BY LifecycleAssumption DEF IInv, StateMatchesEntries, MustClose, Finished,
     InitSkip, resultVars, entryVars, attemptVars
<1>5. LaterOnesDown'
  BY LifecycleAssumption DEF IInv, LaterOnesDown, MustClose, Finished,
     InitSkip, resultVars, entryVars, attemptVars
<1>6. Progress'
  BY LifecycleAssumption DEF IInv, Progress, MustClose, Finished, OpeningPc,
     ClosingPc, Comp, InitSkip, resultVars, entryVars, attemptVars
<1>7. Outcomes'
  BY LifecycleAssumption DEF IInv, Outcomes, AnyFailed, ClosingPc, InitSkip,
     resultVars, entryVars, attemptVars
<1>8. QED BY <1>1, <1>2, <1>3, <1>4, <1>5, <1>6, <1>7 DEF IInv

\* InitSucceed preserves the inductive invariant.
LEMMA InitSucceedInv ==
  ASSUME IInv, NEW p \in Proc, InitSucceed(p)
  PROVE  IInv'
<1>1. TypeOK'
  BY LifecycleAssumption DEF IInv, TypeOK, Ownership, Progress, CallState,
     Finished, Comp, OpeningPc, ClosingPc, MustClose, InitSucceed, resultVars,
     entryVars, attemptVars
<1>2. Ownership'
  BY LifecycleAssumption DEF IInv, Ownership, OpeningPc, ClosingPc,
     InitSucceed, resultVars, entryVars, attemptVars
<1>3. EntryMatchesComponent'
  BY LifecycleAssumption DEF IInv, EntryMatchesComponent, Finished,
     InitSucceed, resultVars, entryVars, attemptVars
<1>4. StateMatchesEntries'
  BY LifecycleAssumption DEF IInv, StateMatchesEntries, MustClose, Finished,
     InitSucceed, resultVars, entryVars, attemptVars
<1>5. LaterOnesDown'
  BY LifecycleAssumption DEF IInv, LaterOnesDown, MustClose, Finished,
     InitSucceed, resultVars, entryVars, attemptVars
<1>6. Progress'
  BY LifecycleAssumption DEF IInv, TypeOK, Progress, CallState, Finished, Comp,
     MustClose, OpeningPc, ClosingPc, InitSucceed, resultVars, entryVars,
     attemptVars
<1>7. Outcomes'
  BY LifecycleAssumption DEF IInv, Outcomes, AnyFailed, ClosingPc, InitSucceed,
     resultVars, entryVars, attemptVars
<1>8. QED BY <1>1, <1>2, <1>3, <1>4, <1>5, <1>6, <1>7 DEF IInv

\* InitFail preserves the inductive invariant.
LEMMA InitFailInv ==
  ASSUME IInv, NEW p \in Proc, InitFail(p)
  PROVE  IInv'
<1>1. TypeOK'
  BY LifecycleAssumption DEF IInv, TypeOK, CallState, Finished, Comp, InitFail,
     Rollback, entryVars, attemptVars
<1>2. Ownership'
  BY LifecycleAssumption DEF IInv, TypeOK, Ownership, CallState, Finished,
     Comp, OpeningPc, ClosingPc, InitFail, Rollback, entryVars, attemptVars
<1>3. EntryMatchesComponent'
  BY LifecycleAssumption DEF IInv, EntryMatchesComponent, Finished, InitFail,
     Rollback, entryVars, attemptVars
<1>4. StateMatchesEntries'
  BY LifecycleAssumption DEF IInv, StateMatchesEntries, MustClose, Finished,
     InitFail, Rollback, entryVars, attemptVars
<1>5. LaterOnesDown'
  BY LifecycleAssumption DEF IInv, LaterOnesDown, MustClose, Finished,
     InitFail, Rollback, entryVars, attemptVars
<1>6. Progress'
  BY LifecycleAssumption DEF IInv, TypeOK, Progress, CallState, Finished, Comp,
     MustClose, OpeningPc, ClosingPc, InitFail, Rollback, entryVars,
     attemptVars
<1>7. Outcomes'
  BY LifecycleAssumption DEF IInv, TypeOK, Ownership, StateMatchesEntries,
     Progress, Outcomes, CallState, Finished, Comp, OpeningPc, ClosingPc,
     MustClose, AnyFailed, InitFail, Rollback, entryVars, attemptVars
<1>8. QED BY <1>1, <1>2, <1>3, <1>4, <1>5, <1>6, <1>7 DEF IInv

\* InitExpired preserves the inductive invariant.
LEMMA InitExpiredInv ==
  ASSUME IInv, NEW p \in Proc, InitExpired(p)
  PROVE  IInv'
<1>1. TypeOK'
  BY LifecycleAssumption DEF IInv, TypeOK, CallState, Finished, Comp,
     InitExpired, Rollback, entryVars, attemptVars
<1>2. Ownership'
  BY LifecycleAssumption DEF IInv, TypeOK, Ownership, CallState, Finished,
     Comp, OpeningPc, ClosingPc, InitExpired, Rollback, entryVars, attemptVars
<1>3. EntryMatchesComponent'
  BY LifecycleAssumption DEF IInv, EntryMatchesComponent, Finished,
     InitExpired, Rollback, entryVars, attemptVars
<1>4. StateMatchesEntries'
  BY LifecycleAssumption DEF IInv, StateMatchesEntries, MustClose, Finished,
     InitExpired, Rollback, entryVars, attemptVars
<1>5. LaterOnesDown'
  BY LifecycleAssumption DEF IInv, LaterOnesDown, MustClose, Finished,
     InitExpired, Rollback, entryVars, attemptVars
<1>6. Progress'
  BY LifecycleAssumption DEF IInv, TypeOK, Progress, CallState, Finished, Comp,
     MustClose, OpeningPc, ClosingPc, InitExpired, Rollback, entryVars,
     attemptVars
<1>7. Outcomes'
  BY LifecycleAssumption DEF IInv, TypeOK, Ownership, StateMatchesEntries,
     Progress, Outcomes, CallState, Finished, Comp, OpeningPc, ClosingPc,
     MustClose, AnyFailed, InitExpired, Rollback, entryVars, attemptVars
<1>8. QED BY <1>1, <1>2, <1>3, <1>4, <1>5, <1>6, <1>7 DEF IInv

\* StartDone preserves the inductive invariant.
LEMMA StartDoneInv ==
  ASSUME IInv, NEW p \in Proc, StartDone(p)
  PROVE  IInv'
<1>1. TypeOK'
  <2>1. startErr' \in BOOLEAN /\ startRetryable' \in BOOLEAN /\ stopErr' \in BOOLEAN
    BY Zenon DEF IInv, TypeOK, StartDone
  <2>2. QED
    BY <2>1, LifecycleAssumption
    DEF IInv, TypeOK, CallState, Finished, Comp, StartDone, ReturnAndWake,
        entryVars, attemptVars
<1>2. Ownership'
  BY LifecycleAssumption DEF IInv, Ownership, OpeningPc, ClosingPc, StartDone,
     ReturnAndWake, entryVars, attemptVars
<1>3. EntryMatchesComponent'
  BY LifecycleAssumption DEF IInv, EntryMatchesComponent, Finished, StartDone,
     ReturnAndWake, entryVars, attemptVars
<1>4. StateMatchesEntries'
  BY LifecycleAssumption DEF IInv, StateMatchesEntries, MustClose, Finished,
     StartDone, ReturnAndWake, entryVars, attemptVars
<1>5. LaterOnesDown'
  BY LifecycleAssumption DEF IInv, LaterOnesDown, MustClose, Finished,
     StartDone, ReturnAndWake, entryVars, attemptVars
<1>6. Progress'
  BY LifecycleAssumption DEF IInv, Progress, MustClose, Finished, OpeningPc,
     ClosingPc, Comp, StartDone, ReturnAndWake, entryVars, attemptVars
<1>7. Outcomes'
  BY LifecycleAssumption DEF IInv, TypeOK, Ownership, Progress, Outcomes,
     CallState, Finished, Comp, OpeningPc, ClosingPc, MustClose, AnyFailed,
     StartDone, ReturnAndWake, entryVars, attemptVars
<1>8. QED BY <1>1, <1>2, <1>3, <1>4, <1>5, <1>6, <1>7 DEF IInv

\* StopAnswered preserves the inductive invariant.
LEMMA StopAnsweredInv ==
  ASSUME IInv, NEW p \in Proc, StopAnswered(p)
  PROVE  IInv'
<1>1. TypeOK'
  BY LifecycleAssumption DEF IInv, TypeOK, CallState, Finished, Comp,
     StopAnswered, Return, resultVars, entryVars, attemptVars
<1>2. Ownership'
  BY LifecycleAssumption DEF IInv, Ownership, OpeningPc, ClosingPc,
     StopAnswered, Return, resultVars, entryVars, attemptVars
<1>3. EntryMatchesComponent'
  BY LifecycleAssumption DEF IInv, EntryMatchesComponent, Finished,
     StopAnswered, Return, resultVars, entryVars, attemptVars
<1>4. StateMatchesEntries'
  BY LifecycleAssumption DEF IInv, StateMatchesEntries, MustClose, Finished,
     StopAnswered, Return, resultVars, entryVars, attemptVars
<1>5. LaterOnesDown'
  BY LifecycleAssumption DEF IInv, LaterOnesDown, MustClose, Finished,
     StopAnswered, Return, resultVars, entryVars, attemptVars
<1>6. Progress'
  BY LifecycleAssumption DEF IInv, Progress, MustClose, Finished, OpeningPc,
     ClosingPc, Comp, StopAnswered, Return, resultVars, entryVars, attemptVars
<1>7. Outcomes'
  BY LifecycleAssumption DEF IInv, Outcomes, AnyFailed, ClosingPc,
     StopAnswered, Return, resultVars, entryVars, attemptVars
<1>8. QED BY <1>1, <1>2, <1>3, <1>4, <1>5, <1>6, <1>7 DEF IInv

\* StopBegin preserves the inductive invariant.
LEMMA StopBeginInv ==
  ASSUME IInv, NEW p \in Proc, StopBegin(p)
  PROVE  IInv'
<1>1. TypeOK'
  BY LifecycleAssumption DEF IInv, TypeOK, CallState, Finished, Comp,
     StopBegin, resultVars, entryVars, attemptVars
<1>2. Ownership'
  BY LifecycleAssumption DEF IInv, Ownership, OpeningPc, ClosingPc, StopBegin,
     resultVars, entryVars, attemptVars
<1>3. EntryMatchesComponent'
  BY LifecycleAssumption DEF IInv, EntryMatchesComponent, Finished, StopBegin,
     resultVars, entryVars, attemptVars
<1>4. StateMatchesEntries'
  BY LifecycleAssumption DEF IInv, StateMatchesEntries, MustClose, Finished,
     StopBegin, resultVars, entryVars, attemptVars
<1>5. LaterOnesDown'
  BY LifecycleAssumption DEF IInv, LaterOnesDown, MustClose, Finished,
     StopBegin, resultVars, entryVars, attemptVars
<1>6. Progress'
  BY LifecycleAssumption DEF IInv, TypeOK, Progress, CallState, Finished, Comp,
     MustClose, OpeningPc, ClosingPc, StopBegin, resultVars, entryVars,
     attemptVars
<1>7. Outcomes'
  BY LifecycleAssumption DEF IInv, Outcomes, AnyFailed, ClosingPc, StopBegin,
     resultVars, entryVars, attemptVars
<1>8. QED BY <1>1, <1>2, <1>3, <1>4, <1>5, <1>6, <1>7 DEF IInv

\* CloseSkip preserves the inductive invariant.
LEMMA CloseSkipInv ==
  ASSUME IInv, NEW p \in Proc, CloseSkip(p)
  PROVE  IInv'
<1>1. TypeOK'
  BY LifecycleAssumption DEF IInv, TypeOK, CallState, Finished, Comp,
     MustClose, CloseSkip, resultVars, entryVars, attemptVars
<1>2. Ownership'
  BY LifecycleAssumption DEF IInv, Ownership, OpeningPc, ClosingPc, MustClose,
     CloseSkip, resultVars, entryVars, attemptVars
<1>3. EntryMatchesComponent'
  BY LifecycleAssumption DEF IInv, EntryMatchesComponent, Finished, MustClose,
     CloseSkip, resultVars, entryVars, attemptVars
<1>4. StateMatchesEntries'
  BY LifecycleAssumption DEF IInv, StateMatchesEntries, MustClose, Finished,
     CloseSkip, resultVars, entryVars, attemptVars
<1>5. LaterOnesDown'
  BY LifecycleAssumption DEF IInv, LaterOnesDown, MustClose, Finished,
     CloseSkip, resultVars, entryVars, attemptVars
<1>6. Progress'
  BY LifecycleAssumption DEF IInv, Progress, MustClose, Finished, OpeningPc,
     ClosingPc, Comp, CloseSkip, resultVars, entryVars, attemptVars
<1>7. Outcomes'
  BY LifecycleAssumption DEF IInv, Outcomes, AnyFailed, ClosingPc, MustClose,
     CloseSkip, resultVars, entryVars, attemptVars
<1>8. QED BY <1>1, <1>2, <1>3, <1>4, <1>5, <1>6, <1>7 DEF IInv

\* ClosePlain preserves the inductive invariant.
LEMMA ClosePlainInv ==
  ASSUME IInv, NEW p \in Proc, ClosePlain(p)
  PROVE  IInv'
<1>1. TypeOK'
  BY LifecycleAssumption DEF IInv, TypeOK, CallState, Finished, Comp,
     MustClose, ClosePlain, resultVars, attemptVars
<1>2. Ownership'
  BY LifecycleAssumption DEF IInv, Ownership, OpeningPc, ClosingPc, MustClose,
     ClosePlain, resultVars, attemptVars
<1>3. EntryMatchesComponent'
  BY LifecycleAssumption DEF IInv, TypeOK, EntryMatchesComponent, CallState,
     Finished, Comp, MustClose, ClosePlain, resultVars, attemptVars
<1>4. StateMatchesEntries'
  BY LifecycleAssumption DEF IInv, TypeOK, Ownership, StateMatchesEntries,
     Progress, CallState, Finished, Comp, OpeningPc, ClosingPc, MustClose,
     ClosePlain, resultVars, attemptVars
<1>5. LaterOnesDown'
  BY LifecycleAssumption DEF IInv, TypeOK, Ownership, LaterOnesDown, Progress,
     CallState, Finished, Comp, OpeningPc, ClosingPc, MustClose, ClosePlain,
     resultVars, attemptVars
<1>6. Progress'
  BY LifecycleAssumption DEF IInv, TypeOK, Ownership, EntryMatchesComponent,
     StateMatchesEntries, LaterOnesDown, Progress, Outcomes, CallState,
     Finished, Comp, OpeningPc, ClosingPc, MustClose, AnyFailed, ClosePlain,
     resultVars, attemptVars
<1>7. Outcomes'
  BY LifecycleAssumption DEF IInv, TypeOK, Outcomes, CallState, Finished, Comp,
     AnyFailed, ClosingPc, MustClose, ClosePlain, resultVars, attemptVars
<1>8. QED BY <1>1, <1>2, <1>3, <1>4, <1>5, <1>6, <1>7 DEF IInv

\* StartAttempt preserves the inductive invariant.
LEMMA StartAttemptInv ==
  ASSUME IInv, NEW p \in Proc, StartAttempt(p)
  PROVE  IInv'
<1>1. TypeOK'
  BY LifecycleAssumption DEF IInv, TypeOK, CallState, Finished, Comp,
     MustClose, StartAttempt, UnderWay, resultVars
<1>2. Ownership'
  BY LifecycleAssumption DEF IInv, Ownership, OpeningPc, ClosingPc, MustClose,
     StartAttempt, UnderWay, resultVars
<1>3. EntryMatchesComponent'
  BY LifecycleAssumption DEF IInv, TypeOK, EntryMatchesComponent, CallState,
     Finished, Comp, MustClose, StartAttempt, UnderWay, resultVars
<1>4. StateMatchesEntries'
  BY LifecycleAssumption DEF IInv, TypeOK, Ownership, StateMatchesEntries,
     Progress, CallState, Finished, Comp, OpeningPc, ClosingPc, MustClose,
     StartAttempt, UnderWay, resultVars
<1>5. LaterOnesDown'
  BY LifecycleAssumption DEF IInv, TypeOK, Ownership, LaterOnesDown, Progress,
     CallState, Finished, Comp, OpeningPc, ClosingPc, MustClose, StartAttempt,
     UnderWay, resultVars
<1>6. Progress'
  BY LifecycleAssumption DEF IInv, TypeOK, Ownership, EntryMatchesComponent,
     StateMatchesEntries, LaterOnesDown, Progress, Outcomes, CallState,
     Finished, Comp, OpeningPc, ClosingPc, MustClose, AnyFailed, StartAttempt,
     UnderWay, resultVars
<1>7. Outcomes'
  BY LifecycleAssumption DEF IInv, TypeOK, Outcomes, CallState, Finished, Comp,
     AnyFailed, ClosingPc, MustClose, StartAttempt, UnderWay, resultVars
<1>8. QED BY <1>1, <1>2, <1>3, <1>4, <1>5, <1>6, <1>7 DEF IInv

\* ResumeAttempt preserves the inductive invariant.
LEMMA ResumeAttemptInv ==
  ASSUME IInv, NEW p \in Proc, ResumeAttempt(p)
  PROVE  IInv'
<1>1. TypeOK'
  BY LifecycleAssumption DEF IInv, TypeOK, CallState, Finished, Comp,
     MustClose, ResumeAttempt, UnderWay, resultVars, entryVars, attemptVars
<1>2. Ownership'
  BY LifecycleAssumption DEF IInv, Ownership, OpeningPc, ClosingPc, MustClose,
     ResumeAttempt, UnderWay, resultVars, entryVars, attemptVars
<1>3. EntryMatchesComponent'
  BY LifecycleAssumption DEF IInv, EntryMatchesComponent, Finished, MustClose,
     ResumeAttempt, UnderWay, resultVars, entryVars, attemptVars
<1>4. StateMatchesEntries'
  BY LifecycleAssumption DEF IInv, StateMatchesEntries, MustClose, Finished,
     ResumeAttempt, UnderWay, resultVars, entryVars, attemptVars
<1>5. LaterOnesDown'
  BY LifecycleAssumption DEF IInv, LaterOnesDown, MustClose, Finished,
     ResumeAttempt, UnderWay, resultVars, entryVars, attemptVars
<1>6. Progress'
  BY LifecycleAssumption DEF IInv, TypeOK, Ownership, EntryMatchesComponent,
     Progress, CallState, Finished, Comp, OpeningPc, ClosingPc, MustClose,
     ResumeAttempt, UnderWay, resultVars, entryVars, attemptVars
<1>7. Outcomes'
  BY LifecycleAssumption DEF IInv, Outcomes, AnyFailed, ClosingPc, MustClose,
     ResumeAttempt, UnderWay, resultVars, entryVars, attemptVars
<1>8. QED BY <1>1, <1>2, <1>3, <1>4, <1>5, <1>6, <1>7 DEF IInv

\* AwaitFinished preserves the inductive invariant.
LEMMA AwaitFinishedInv ==
  ASSUME IInv, NEW p \in Proc, AwaitFinished(p)
  PROVE  IInv'
<1>1. TypeOK'
  BY LifecycleAssumption DEF IInv, TypeOK, Ownership, Progress, CallState,
     Finished, Comp, OpeningPc, ClosingPc, MustClose, AwaitFinished, resultVars
<1>2. Ownership'
  BY LifecycleAssumption DEF IInv, Ownership, OpeningPc, ClosingPc,
     AwaitFinished, resultVars
<1>3. EntryMatchesComponent'
  BY LifecycleAssumption DEF IInv, TypeOK, EntryMatchesComponent, CallState,
     Finished, Comp, AwaitFinished, resultVars
<1>4. StateMatchesEntries'
  BY LifecycleAssumption DEF IInv, TypeOK, Ownership, StateMatchesEntries,
     Progress, CallState, Finished, Comp, OpeningPc, ClosingPc, MustClose,
     AwaitFinished, resultVars
<1>5. LaterOnesDown'
  BY LifecycleAssumption DEF IInv, TypeOK, Ownership, LaterOnesDown, Progress,
     CallState, Finished, Comp, OpeningPc, ClosingPc, MustClose, AwaitFinished,
     resultVars
<1>6. Progress'
  BY LifecycleAssumption DEF IInv, TypeOK, Ownership, EntryMatchesComponent,
     StateMatchesEntries, LaterOnesDown, Progress, Outcomes, CallState,
     Finished, Comp, OpeningPc, ClosingPc, MustClose, AnyFailed, AwaitFinished,
     resultVars
<1>7. Outcomes'
  <2> DEFINE c == index[p]
  <2>1. /\ c \in Comp /\ stopState[c] = "stopping"
        /\ state = "stopping" /\ state' = state
        /\ pc[p] = "await" /\ pc' = [pc EXCEPT ![p] = "close"]
        /\ call' = call /\ ret' = ret
    BY DEF IInv, Progress, Ownership, ClosingPc, AwaitFinished
  <2>2. AnyFailed' <=> AnyFailed \/ attempt[c] = "error"
    BY <2>1 DEF IInv, TypeOK, AwaitFinished, AnyFailed
  <2>3. /\ failed'[p] <=> failed[p] \/ attempt[c] = "error"
        /\ \A q \in Proc \ {p} : failed'[q] = failed[q] /\ pc'[q] = pc[q]
        /\ pc'[p] = "close"
    BY <2>1 DEF IInv, TypeOK, AwaitFinished
  <2>4. \A q \in Proc \ {p} : pc[q] \notin ClosingPc
    BY <2>1 DEF IInv, Ownership, ClosingPc
  <2>5. QED
    BY <2>1, <2>2, <2>3, <2>4 DEF IInv, Outcomes, ClosingPc
<1>8. QED BY <1>1, <1>2, <1>3, <1>4, <1>5, <1>6, <1>7 DEF IInv

\* AwaitRetry preserves the inductive invariant.
LEMMA AwaitRetryInv ==
  ASSUME IInv, NEW p \in Proc, AwaitRetry(p)
  PROVE  IInv'
<1>1. TypeOK'
  BY LifecycleAssumption DEF IInv, TypeOK, CallState, Finished, Comp,
     AwaitRetry, resultVars
<1>2. Ownership'
  BY LifecycleAssumption DEF IInv, Ownership, OpeningPc, ClosingPc, AwaitRetry,
     resultVars
<1>3. EntryMatchesComponent'
  BY LifecycleAssumption DEF IInv, TypeOK, EntryMatchesComponent, CallState,
     Finished, Comp, AwaitRetry, resultVars
<1>4. StateMatchesEntries'
  BY LifecycleAssumption DEF IInv, TypeOK, Ownership, StateMatchesEntries,
     Progress, CallState, Finished, Comp, OpeningPc, ClosingPc, MustClose,
     AwaitRetry, resultVars
<1>5. LaterOnesDown'
  BY LifecycleAssumption DEF IInv, TypeOK, Ownership, LaterOnesDown, Progress,
     CallState, Finished, Comp, OpeningPc, ClosingPc, MustClose, AwaitRetry,
     resultVars
<1>6. Progress'
  BY LifecycleAssumption DEF IInv, TypeOK, Ownership, EntryMatchesComponent,
     StateMatchesEntries, LaterOnesDown, Progress, Outcomes, CallState,
     Finished, Comp, OpeningPc, ClosingPc, MustClose, AnyFailed, AwaitRetry,
     resultVars
<1>7. Outcomes'
  BY LifecycleAssumption DEF IInv, TypeOK, Ownership, Progress, Outcomes,
     CallState, Finished, Comp, OpeningPc, ClosingPc, MustClose, AnyFailed,
     AwaitRetry, resultVars
<1>8. QED BY <1>1, <1>2, <1>3, <1>4, <1>5, <1>6, <1>7 DEF IInv

\* AwaitGaveUp preserves the inductive invariant.
LEMMA AwaitGaveUpInv ==
  ASSUME IInv, NEW p \in Proc, AwaitGaveUp(p)
  PROVE  IInv'
<1>1. TypeOK'
  BY LifecycleAssumption DEF IInv, TypeOK, CallState, Finished, Comp,
     AwaitGaveUp, resultVars
<1>2. Ownership'
  BY LifecycleAssumption DEF IInv, Ownership, OpeningPc, ClosingPc,
     AwaitGaveUp, resultVars
<1>3. EntryMatchesComponent'
  BY LifecycleAssumption DEF IInv, TypeOK, EntryMatchesComponent, CallState,
     Finished, Comp, AwaitGaveUp, resultVars
<1>4. StateMatchesEntries'
  BY LifecycleAssumption DEF IInv, TypeOK, Ownership, StateMatchesEntries,
     Progress, CallState, Finished, Comp, OpeningPc, ClosingPc, MustClose,
     AwaitGaveUp, resultVars
<1>5. LaterOnesDown'
  BY LifecycleAssumption DEF IInv, TypeOK, Ownership, LaterOnesDown, Progress,
     CallState, Finished, Comp, OpeningPc, ClosingPc, MustClose, AwaitGaveUp,
     resultVars
<1>6. Progress'
  BY LifecycleAssumption DEF IInv, TypeOK, Ownership, EntryMatchesComponent,
     StateMatchesEntries, LaterOnesDown, Progress, Outcomes, CallState,
     Finished, Comp, OpeningPc, ClosingPc, MustClose, AnyFailed, AwaitGaveUp,
     resultVars
<1>7. Outcomes'
  BY LifecycleAssumption DEF IInv, TypeOK, Ownership, Progress, Outcomes,
     CallState, Finished, Comp, OpeningPc, ClosingPc, MustClose, AnyFailed,
     AwaitGaveUp, resultVars
<1>8. QED BY <1>1, <1>2, <1>3, <1>4, <1>5, <1>6, <1>7 DEF IInv

\* AttemptReturns preserves the inductive invariant.
LEMMA AttemptReturnsInv ==
  ASSUME IInv, NEW c \in Comp,
         NEW r \in {"ok", "ctxerr", "error"}, AttemptReturns(c, r)
  PROVE  IInv'
<1>1. TypeOK'
  BY LifecycleAssumption DEF IInv, TypeOK, CallState, Finished, Comp,
     AttemptReturns, resultVars, entryVars, callVars
<1>2. Ownership'
  BY LifecycleAssumption DEF IInv, Ownership, OpeningPc, ClosingPc,
     AttemptReturns, resultVars, entryVars, callVars
<1>3. EntryMatchesComponent'
  BY LifecycleAssumption DEF IInv, TypeOK, EntryMatchesComponent, CallState,
     Finished, Comp, AttemptReturns, resultVars, entryVars, callVars
<1>4. StateMatchesEntries'
  BY LifecycleAssumption DEF IInv, StateMatchesEntries, MustClose, Finished,
     AttemptReturns, resultVars, entryVars, callVars
<1>5. LaterOnesDown'
  BY LifecycleAssumption DEF IInv, LaterOnesDown, MustClose, Finished,
     AttemptReturns, resultVars, entryVars, callVars
<1>6. Progress'
  BY LifecycleAssumption DEF IInv, Progress, MustClose, Finished, OpeningPc,
     ClosingPc, Comp, AttemptReturns, resultVars, entryVars, callVars
<1>7. Outcomes'
  BY LifecycleAssumption DEF IInv, Outcomes, AnyFailed, ClosingPc,
     AttemptReturns, resultVars, entryVars, callVars
<1>8. QED BY <1>1, <1>2, <1>3, <1>4, <1>5, <1>6, <1>7 DEF IInv

\* What the end of a call does to the calls: it returns, and the waiters wake.
LEMMA ReturnAndWakeCalls ==
  ASSUME TypeOK, NEW p \in Proc, NEW err \in BOOLEAN, ReturnAndWake(p, err)
  PROVE  /\ pc' \in [Proc -> CallState] /\ pc'[p] = "idle"
         /\ \A q \in Proc \ {p} :
              /\ pc'[q] = IF pc[q] = "wait" THEN "woken" ELSE pc[q]
              /\ ret'[q] = ret[q] /\ index'[q] = index[q]
              /\ failed'[q] = failed[q]
         /\ ret' \in [Proc -> {"none", "nil", "err"}]
         /\ ret'[p] = "nil" => ~ err
         /\ index' \in [Proc -> 0 .. N + 1]
         /\ startedHere' \in [Proc -> BOOLEAN] /\ failed' \in [Proc -> BOOLEAN]
         /\ ctxDone' \in [Proc -> BOOLEAN] /\ ~ failed'[p]
         /\ call' = call
  BY LifecycleAssumption DEF TypeOK, ReturnAndWake, CallState

\* The end of a rollback preserves it: a clean one finds nothing left to close.
LEMMA RollbackEndInv ==
  ASSUME IInv, NEW p \in Proc, pc[p] \in ClosingPc, call[p] = "start",
         NEW complete \in BOOLEAN, complete => index[p] = 0,
         RollbackEnd(p, complete)
  PROVE  IInv'
<1> DEFINE err == failed[p] \/ ~ complete
           clean == ~ err /\ \A c \in Prestarted : ~ started[c]
<1> USE LifecycleAssumption DEF IInv
<1>1. /\ TypeOK
      /\ clean \in BOOLEAN /\ err \in BOOLEAN
      /\ ReturnAndWake(p, TRUE)
      /\ startRetryable' = clean /\ stopErr' = err
      /\ UNCHANGED <<startErr, attemptCtx, comp>>
  BY DEF RollbackEnd, Reset, TypeOK
<1>2. /\ \A q \in Proc \ {p} : pc[q] \notin OpeningPc \cup ClosingPc
      /\ \A q \in Proc \ {p} : pc'[q] \notin OpeningPc \cup ClosingPc
      /\ pc'[p] = "idle"
  BY <1>1, ReturnAndWakeCalls DEF Ownership, OpeningPc, ClosingPc
<1>3. complete => \A c \in Comp : ~ MustClose(c)
  BY DEF Progress, Comp
<1>4. startErr' \in BOOLEAN /\ startRetryable' \in BOOLEAN /\ stopErr' \in BOOLEAN
  BY <1>1, Zenon DEF TypeOK
<1>7. /\ \A q \in Proc \ {p} : /\ pc'[q] = "idle" => pc[q] = "idle" /\ ret'[q] = ret[q]
                               /\ failed'[q] = failed[q]
      /\ ~ failed'[p] /\ call' = call
  BY <1>1, ReturnAndWakeCalls
<1>8. state = "stopping"
  BY DEF Ownership
<1>5. CASE clean
  <2>1. /\ complete
        /\ state' = "new"
        /\ started' = [c \in Comp |-> FALSE]
        /\ stopState' = [c \in Comp |-> "pending"]
        /\ legacyStarted' = [c \in Comp |-> FALSE]
        /\ attempt' = [c \in Comp |-> "none"]
    BY <1>5 DEF RollbackEnd, Reset
  <2>2. \A c \in Comp : comp'[c] \in {"off", "closed"}
    BY <1>1, <1>3, <2>1 DEF MustClose, EntryMatchesComponent
  <2>3. Prestarted = {}
    BY <1>5 DEF StateMatchesEntries
  <2>4. TypeOK'
    BY ZenonT(30), <1>1, <1>4, <2>1, ReturnAndWakeCalls DEF TypeOK, Finished
  <2>5. Ownership' /\ Progress'
    BY <1>2 DEF Ownership, Progress, OpeningPc, ClosingPc
  <2>6. EntryMatchesComponent'
    BY <2>1, <2>2 DEF EntryMatchesComponent, Finished
  <2>7. StateMatchesEntries'
    BY <2>1, <2>3 DEF StateMatchesEntries
  <2>8. LaterOnesDown'
    BY <2>1 DEF LaterOnesDown, MustClose
  <2>9. Outcomes'
    BY <1>2, <1>7, <1>8, <2>1 DEF Outcomes, ClosingPc
  <2> QED BY <2>4, <2>5, <2>6, <2>7, <2>8, <2>9
<1>6. CASE ~ clean
  <2>1. /\ state' = IF complete THEN "stopped" ELSE "started"
        /\ UNCHANGED <<started, stopState, legacyStarted, attempt>>
    BY <1>6 DEF RollbackEnd, Reset, entryVars
  <2>2. TypeOK'
    BY <1>1, <1>4, <2>1, ReturnAndWakeCalls DEF TypeOK
  <2>3. Ownership' /\ Progress'
    BY <1>2 DEF Ownership, Progress, OpeningPc, ClosingPc
  <2>4. EntryMatchesComponent'
    BY <1>1, <2>1 DEF EntryMatchesComponent
  <2>5. StateMatchesEntries'
    BY <1>1, <1>3, <1>6, <2>1 DEF StateMatchesEntries, MustClose
  <2>6. LaterOnesDown'
    BY <2>1 DEF LaterOnesDown, MustClose
  <2>7. state' = "stopped" => (stopErr' <=> AnyFailed')
    BY <1>1, <2>1 DEF Outcomes, AnyFailed
  <2>8. Outcomes'
    BY <1>2, <1>7, <1>8, <2>1, <2>7 DEF Outcomes, ClosingPc
  <2> QED BY <2>2, <2>3, <2>4, <2>5, <2>6, <2>8
<1> QED BY <1>1, <1>5, <1>6

\* The end of a Stop preserves it.
LEMMA StopEndInv ==
  ASSUME IInv, NEW p \in Proc, pc[p] \in ClosingPc, call[p] = "stop",
         NEW complete \in BOOLEAN, complete => index[p] = 0,
         StopEnd(p, complete)
  PROVE  IInv'
<1> USE LifecycleAssumption DEF IInv
<1>1. /\ TypeOK
      /\ ReturnAndWake(p, ~ complete \/ AnyFailed)
      /\ state' = IF complete THEN "stopped" ELSE "started"
      /\ stopErr' = (complete /\ AnyFailed)
      /\ UNCHANGED <<startErr, startRetryable, entryVars, attemptVars, comp>>
      /\ (~ complete \/ AnyFailed) \in BOOLEAN
  BY DEF StopEnd, AnyFailed
<1>2. /\ \A q \in Proc \ {p} : pc[q] \notin OpeningPc \cup ClosingPc
      /\ \A q \in Proc \ {p} : pc'[q] \notin OpeningPc \cup ClosingPc
      /\ pc'[p] = "idle"
  BY <1>1, ReturnAndWakeCalls DEF Ownership, OpeningPc, ClosingPc
<1>3. complete => \A c \in Comp : ~ MustClose(c)
  BY DEF Progress, Comp
<1>4. startErr' \in BOOLEAN /\ startRetryable' \in BOOLEAN /\ stopErr' \in BOOLEAN
  BY <1>1, Zenon DEF TypeOK
<1>5. TypeOK'
  BY <1>1, <1>4, ReturnAndWakeCalls DEF TypeOK, entryVars, attemptVars
<1>6. Ownership' /\ Progress'
  BY <1>2 DEF Ownership, Progress, OpeningPc, ClosingPc
<1>7. EntryMatchesComponent'
  BY <1>1 DEF EntryMatchesComponent, entryVars, attemptVars
<1>8. StateMatchesEntries'
  BY <1>1, <1>3 DEF StateMatchesEntries, MustClose, entryVars
<1>9. LaterOnesDown'
  BY <1>1 DEF LaterOnesDown, MustClose, entryVars
<1>10. state' = "stopped" => (stopErr' <=> AnyFailed')
  BY <1>1 DEF AnyFailed, entryVars
<1>11. /\ \A q \in Proc \ {p} : /\ pc'[q] = "idle" => pc[q] = "idle" /\ ret'[q] = ret[q]
                                /\ failed'[q] = failed[q]
       /\ ~ failed'[p] /\ call' = call
       /\ ret'[p] = "nil" => complete
  BY <1>1, ReturnAndWakeCalls
<1>12. state = "stopping"
  BY DEF Ownership
<1>13. Outcomes'
  BY <1>1, <1>2, <1>10, <1>11, <1>12 DEF Outcomes, ClosingPc
<1> QED BY <1>5, <1>6, <1>7, <1>8, <1>9, <1>13

\* Both ends of the shutdown loop preserve the inductive invariant.
LEMMA CloseEndInv ==
  ASSUME IInv, NEW p \in Proc, pc[p] \in ClosingPc,
         NEW complete \in BOOLEAN, complete => index[p] = 0,
         CloseEnd(p, complete)
  PROVE  IInv'
  BY RollbackEndInv, StopEndInv DEF CloseEnd

\* The four ways out of the shutdown loop: done, out of time before a component,
\* out of time in one, and given up by one.
LEMMA CloseLoopEndInv ==
  ASSUME IInv, NEW p \in Proc,
         CloseDone(p) \/ CloseExpired(p) \/ AwaitExpired(p) \/ CloseGiveUp(p)
  PROVE  IInv'
<1>1. CASE CloseDone(p)
  <2>1. pc[p] \in ClosingPc /\ index[p] = 0
    BY <1>1, LifecycleAssumption DEF CloseDone, IInv, Progress, ClosingPc, Comp
  <2>2. QED
    BY <1>1, <2>1, CloseEndInv DEF CloseDone
<1>2. CASE CloseExpired(p) \/ AwaitExpired(p) \/ CloseGiveUp(p)
  <2>1. pc[p] \in ClosingPc /\ CloseEnd(p, FALSE)
    BY <1>2 DEF CloseExpired, AwaitExpired, CloseGiveUp, ClosingPc
  <2>2. QED
    BY <2>1, CloseEndInv
<1>3. QED BY <1>1, <1>2

-----------------------------------------------------------------------------
(* The invariant.                                                          *)

\* The inductive invariant holds initially.
LEMMA InitIInv == Init => IInv
<1> SUFFICES ASSUME Init PROVE IInv
  OBVIOUS
<1>1. TypeOK
  <2>1. startErr \in BOOLEAN /\ startRetryable \in BOOLEAN /\ stopErr \in BOOLEAN
    BY Zenon DEF Init
  <2>2. QED
    BY <2>1, LifecycleAssumption DEF Init, TypeOK, CallState, Finished
<1>2. Ownership /\ Progress
  BY DEF Init, Ownership, Progress, OpeningPc, ClosingPc
<1>3. EntryMatchesComponent
  BY DEF Init, EntryMatchesComponent, Finished
<1>4. StateMatchesEntries /\ LaterOnesDown
  BY LifecycleAssumption DEF Init, StateMatchesEntries, LaterOnesDown
<1>5. Outcomes
  BY DEF Init, Outcomes, ClosingPc
<1>6. QED
  BY <1>1, <1>2, <1>3, <1>4, <1>5 DEF IInv

\* A step that changes nothing keeps the inductive invariant.
LEMMA StutterIInv == IInv /\ UNCHANGED vars => IInv'
<1> SUFFICES ASSUME IInv, UNCHANGED vars PROVE IInv'
  OBVIOUS
<1> USE DEF vars, resultVars, entryVars, attemptVars, callVars
<1>1. TypeOK'
  BY DEF IInv, TypeOK
<1>2. Ownership' /\ Progress'
  BY DEF IInv, Ownership, Progress, MustClose
<1>3. EntryMatchesComponent'
  BY DEF IInv, EntryMatchesComponent
<1>4. StateMatchesEntries' /\ LaterOnesDown'
  BY DEF IInv, StateMatchesEntries, LaterOnesDown, MustClose
<1>5. Outcomes'
  BY DEF IInv, Outcomes, AnyFailed
<1>6. QED
  BY <1>1, <1>2, <1>3, <1>4, <1>5 DEF IInv

\* Every step of the lifecycle keeps the inductive invariant.
LEMMA NextIInv == IInv /\ [Next]_vars => IInv'
<1> SUFFICES ASSUME IInv, [Next]_vars PROVE IInv'
  OBVIOUS
<1>1. ASSUME NEW p \in Proc, NEW k \in {"start", "stop"}, Call(p, k)
      PROVE  IInv'
  BY <1>1, CallInv
<1>2. ASSUME NEW p \in Proc, Expire(p) \/ Step(p) \/ InitReturns(p)
      PROVE  IInv'
  <2>1. CASE Expire(p) \/ InitReturns(p)
    BY <2>1, ExpireInv, InitSucceedInv, InitFailInv DEF InitReturns
  <2>2. CASE Block(p) \/ WaitExpired(p) \/ WakeUp(p)
    BY <2>2, BlockInv, WaitExpiredInv, WakeUpInv
  <2>3. CASE StartAnswered(p) \/ StartBegin(p) \/ InitBegin(p)
    BY <2>3, StartAnsweredInv, StartBeginInv, InitBeginInv
  <2>4. CASE InitSkip(p) \/ InitExpired(p) \/ StartDone(p)
    BY <2>4, InitSkipInv, InitExpiredInv, StartDoneInv
  <2>5. CASE StopAnswered(p) \/ StopBegin(p) \/ CloseSkip(p) \/ ClosePlain(p)
    BY <2>5, StopAnsweredInv, StopBeginInv, CloseSkipInv, ClosePlainInv
  <2>6. CASE StartAttempt(p) \/ ResumeAttempt(p)
    BY <2>6, StartAttemptInv, ResumeAttemptInv
  <2>7. CASE AwaitFinished(p) \/ AwaitRetry(p) \/ AwaitGaveUp(p)
    BY <2>7, AwaitFinishedInv, AwaitRetryInv, AwaitGaveUpInv
  <2>8. CASE CloseDone(p) \/ CloseExpired(p) \/ AwaitExpired(p) \/ CloseGiveUp(p)
    BY <2>8, CloseLoopEndInv
  <2>9. QED
    BY <1>2, <2>1, <2>2, <2>3, <2>4, <2>5, <2>6, <2>7, <2>8 DEF Step
<1>3. ASSUME NEW c \in Comp, NEW r \in {"ok", "ctxerr", "error"},
             AttemptReturns(c, r)
      PROVE  IInv'
  BY <1>3, AttemptReturnsInv
<1>4. QED
  BY <1>1, <1>2, <1>3, StutterIInv DEF Next

\* IInv is an invariant of the lifecycle.
THEOREM Invariant == Spec => []IInv
BY InitIInv, NextIInv, PTL DEF Spec

-----------------------------------------------------------------------------
(* The safety properties.                                                  *)

\* Each of them follows from the inductive invariant.
LEMMA IInvImplies ==
  IInv => /\ TypeOK /\ StopNilMeansDown /\ RetryFindsAllDown
          /\ TerminalErrorKept
<1> SUFFICES ASSUME IInv
             PROVE  /\ TypeOK /\ StopNilMeansDown /\ RetryFindsAllDown
                    /\ TerminalErrorKept
  OBVIOUS
<1>1. \A c \in Comp : ~ MustClose(c) => comp[c] \in {"off", "closed"}
  BY DEF IInv, EntryMatchesComponent, MustClose
<1>2. StopNilMeansDown
  BY <1>1 DEF IInv, Outcomes, StateMatchesEntries, StopNilMeansDown, AllDown
<1>3. RetryFindsAllDown
  BY DEF IInv, StateMatchesEntries, EntryMatchesComponent, RetryFindsAllDown,
         AllDown
<1>4. TerminalErrorKept
  BY DEF IInv, Outcomes, AnyFailed, TerminalErrorKept
<1>5. QED
  BY <1>2, <1>3, <1>4 DEF IInv

\* Every variable keeps its type.
THEOREM Types == Spec => []TypeOK
BY Invariant, IInvImplies, PTL

\* A Stop that returned nil has left nothing running.
THEOREM StopNil == Spec => []StopNilMeansDown
BY Invariant, IInvImplies, PTL

\* A startable lifecycle has nothing left from the Start that failed.
THEOREM RetryClean == Spec => []RetryFindsAllDown
BY Invariant, IInvImplies, PTL

\* A stopped lifecycle reports an error exactly when a shutdown failed.
THEOREM TerminalError == Spec => []TerminalErrorKept
BY Invariant, IInvImplies, PTL

-----------------------------------------------------------------------------
(* Action properties.                                                      *)

\* Nothing but the working call or a running attempt changes a component or
\* leaves the state "stopped", and in a stopped lifecycle there is neither.
LEMMA StoppedStep ==
  IInv /\ [Next]_vars => (state = "stopped" => state' = "stopped" /\ comp' = comp)
<1> SUFFICES ASSUME IInv, [Next]_vars, state = "stopped"
             PROVE  state' = "stopped" /\ comp' = comp
  OBVIOUS
<1>1. \A p \in Proc : pc[p] \notin OpeningPc \cup ClosingPc
  BY DEF IInv, Ownership
<1>2. \A c \in Comp : attempt[c] # "running"
  BY DEF IInv, StateMatchesEntries, EntryMatchesComponent, MustClose, Finished
<1>3. ASSUME NEW p \in Proc, NEW k \in {"start", "stop"}, Call(p, k)
      PROVE  state' = "stopped" /\ comp' = comp
  BY <1>3 DEF Call
<1>4. ASSUME NEW p \in Proc, Expire(p) \/ Step(p) \/ InitReturns(p)
      PROVE  state' = "stopped" /\ comp' = comp
  <2>1. CASE Expire(p)
    BY <2>1 DEF Expire
  <2>2. CASE Block(p) \/ WaitExpired(p) \/ WakeUp(p) \/ StartAnswered(p)
             \/ StopAnswered(p)
    BY <2>2 DEF Block, WaitExpired, WakeUp, StartAnswered, StopAnswered
  <2>3. CASE StartBegin(p) \/ StopBegin(p)
    BY <2>3 DEF StartBegin, StopBegin
  <2>4. CASE InitBegin(p) \/ InitSkip(p) \/ InitExpired(p) \/ StartDone(p)
             \/ InitReturns(p)
    BY <2>4, <1>1 DEF InitBegin, InitSkip, InitExpired, StartDone, InitReturns,
                      InitSucceed, InitFail, OpeningPc
  <2>5. CASE CloseDone(p) \/ CloseSkip(p) \/ CloseExpired(p) \/ ClosePlain(p)
             \/ StartAttempt(p) \/ ResumeAttempt(p) \/ AwaitFinished(p)
             \/ AwaitRetry(p) \/ AwaitGaveUp(p) \/ AwaitExpired(p)
             \/ CloseGiveUp(p)
    BY <2>5, <1>1 DEF CloseDone, CloseSkip, CloseExpired, ClosePlain,
       StartAttempt, ResumeAttempt, AwaitFinished, AwaitRetry, AwaitGaveUp,
       AwaitExpired, CloseGiveUp, ClosingPc
  <2>6. QED
    BY <1>4, <2>1, <2>2, <2>3, <2>4, <2>5 DEF Step
<1>5. ASSUME NEW c \in Comp, NEW r \in {"ok", "ctxerr", "error"},
             AttemptReturns(c, r)
      PROVE  state' = "stopped" /\ comp' = comp
  BY <1>5, <1>2 DEF AttemptReturns
<1>6. CASE UNCHANGED vars
  BY <1>6 DEF vars
<1>7. QED
  BY <1>3, <1>4, <1>5, <1>6 DEF Next

\* A stopped lifecycle stays stopped and its components are left alone.
THEOREM Final == Spec => StoppedIsFinal
<1>1. IInv /\ [Next]_vars
      => [state = "stopped" => state' = "stopped" /\ UNCHANGED comp]_vars
  BY StoppedStep
<1>2. QED
  BY Invariant, <1>1, PTL DEF Spec, StoppedIsFinal

\* A lifecycle that becomes started has every component up.
LEMMA StartedStep ==
  IInv /\ [Next]_vars
  => (state = "starting" /\ state' = "started" => \A c \in Comp : comp[c] = "on")
<1> SUFFICES ASSUME IInv, [Next]_vars, state = "starting", state' = "started"
             PROVE  \A c \in Comp : comp[c] = "on"
  OBVIOUS
<1>1. \A p \in Proc : pc[p] \notin ClosingPc
  BY DEF IInv, Ownership
<1>2. ASSUME NEW p \in Proc, StartDone(p)
      PROVE  \A c \in Comp : comp[c] = "on"
  <2>1. pc[p] = "init" /\ index[p] = N + 1
    BY <1>2, LifecycleAssumption DEF StartDone, IInv, Progress, Comp
  <2>2. \A c \in Comp : started[c]
    BY <2>1, LifecycleAssumption
    DEF IInv, Progress, StateMatchesEntries, OpeningPc, Comp
  <2>3. QED
    BY <2>2 DEF IInv, StateMatchesEntries, EntryMatchesComponent
<1>3. ASSUME NEW p \in Proc, NEW k \in {"start", "stop"}
      PROVE  ~ Call(p, k)
  BY DEF Call
<1>4. ASSUME NEW p \in Proc, Expire(p) \/ Step(p) \/ InitReturns(p)
      PROVE  StartDone(p)
  <2>1. ~ Expire(p) /\ ~ Block(p) /\ ~ WaitExpired(p) /\ ~ WakeUp(p)
        /\ ~ StartAnswered(p) /\ ~ StopAnswered(p) /\ ~ StartBegin(p)
        /\ ~ StopBegin(p)
    BY DEF Expire, Block, WaitExpired, WakeUp, StartAnswered, StopAnswered,
           StartBegin, StopBegin
  <2>2. ~ InitBegin(p) /\ ~ InitSkip(p) /\ ~ InitExpired(p) /\ ~ InitReturns(p)
    BY DEF InitBegin, InitSkip, InitExpired, InitReturns, InitSucceed,
           InitFail, Rollback
  <2>3. /\ ~ CloseDone(p) /\ ~ CloseSkip(p) /\ ~ CloseExpired(p)
        /\ ~ ClosePlain(p) /\ ~ StartAttempt(p) /\ ~ ResumeAttempt(p)
        /\ ~ AwaitFinished(p) /\ ~ AwaitRetry(p) /\ ~ AwaitGaveUp(p)
        /\ ~ AwaitExpired(p) /\ ~ CloseGiveUp(p)
    BY <1>1 DEF CloseDone, CloseSkip, CloseExpired, ClosePlain,
       StartAttempt, ResumeAttempt, AwaitFinished, AwaitRetry, AwaitGaveUp,
       AwaitExpired, CloseGiveUp, ClosingPc
  <2>4. QED
    BY <1>4, <2>1, <2>2, <2>3 DEF Step
<1>5. ASSUME NEW c \in Comp, NEW r \in {"ok", "ctxerr", "error"}
      PROVE  ~ AttemptReturns(c, r)
  BY DEF AttemptReturns
<1>6. ~ UNCHANGED vars
  BY DEF vars
<1>7. QED
  BY <1>2, <1>3, <1>4, <1>5, <1>6 DEF Next

\* Start succeeds only with every component up, the prestarted ones included.
THEOREM StartedUp == Spec => StartedMeansUp
<1>1. IInv /\ [Next]_vars
      => [state = "starting" /\ state' = "started"
          => \A c \in Comp : comp[c] = "on"]_vars
  BY StartedStep
<1>2. QED
  BY Invariant, <1>1, PTL DEF Spec, StartedMeansUp

-----------------------------------------------------------------------------
(* Lifecycle implements OrderedComponents.                                 *)

\* Initial states map to initial states.
LEMMA InitRefines == Init => Components!Init
BY DEF Init, Components!Init, Components!Comp, Comp

\* InitBegin opens the component it is at.
LEMMA InitBeginRefines ==
  ASSUME IInv, NEW p \in Proc, InitBegin(p)
  PROVE  Components!Open(index[p])
<1> DEFINE c == index[p]
<1>1. pc[p] = "init" /\ c \in Comp /\ state = "starting" /\ state' = state
  BY DEF InitBegin, IInv, Ownership, OpeningPc
<1>2. comp[c] \in {"off", "closed"} \/ c \in Prestarted
  BY <1>1 DEF IInv, Progress, EntryMatchesComponent
<1>3. ASSUME NEW d \in Comp \ Prestarted
      PROVE  IF d < c THEN comp[d] = "on" ELSE comp[d] \in {"off", "closed"}
  <2>1. CASE d < c
    BY <1>1, <2>1 DEF IInv, Progress, OpeningPc, StateMatchesEntries,
                      EntryMatchesComponent
  <2>2. CASE d = c
    BY <1>2, <2>2 DEF Comp
  <2>3. CASE d > c
    BY <1>1, <2>3, LifecycleAssumption
    DEF IInv, Progress, OpeningPc, EntryMatchesComponent, Comp
  <2>4. QED
    BY <1>1, <2>1, <2>2, <2>3, LifecycleAssumption DEF Comp
<1>4. \A d \in Comp : comp[d] # "closing"
  BY <1>1 DEF IInv, StateMatchesEntries, EntryMatchesComponent
<1>5. comp' = [comp EXCEPT ![c] = "on"] /\ state' = state
  BY <1>1 DEF InitBegin
<1>6. QED
  BY <1>1, <1>2, <1>3, <1>4, <1>5
  DEF Components!Open, Components!Down, Components!Comp, Comp

\* A component that is not, or no longer, to be closed is down.
LEMMA DownUnlessMustClose ==
  ASSUME IInv, NEW c \in Comp, ~ MustClose(c)
  PROVE  Components!Down(c)
BY DEF IInv, EntryMatchesComponent, MustClose, Components!Down

\* StartAttempt and ClosePlain close the component they are at.
LEMMA CloseRefines ==
  ASSUME IInv, NEW p \in Proc, StartAttempt(p) \/ ClosePlain(p)
  PROVE  Components!Close(index[p])
<1> DEFINE c == index[p]
<1>1. /\ pc[p] = "close" /\ c \in Comp /\ MustClose(c) /\ state' = state
      /\ state = "stopping"
  BY DEF StartAttempt, ClosePlain, IInv, Ownership, ClosingPc
<1>2. stopState[c] \in {"pending", "retry"}
  <2>1. CASE StartAttempt(p)
    <3>1. Kind[c] \in {"context", "legacy"} /\ ~ UnderWay(c)
      BY <1>1, <2>1, LifecycleAssumption DEF StartAttempt
    <3>2. stopState[c] # "stopping"
      <4>1. Kind[c] = "legacy" /\ stopState[c] = "stopping" => legacyStarted[c]
        BY <1>1 DEF IInv, EntryMatchesComponent
      <4>2. QED
        BY <3>1, <4>1 DEF UnderWay
    <3>3. QED
      BY <1>1, <3>2 DEF IInv, TypeOK, MustClose, Finished
  <2>2. CASE ClosePlain(p)
    BY <1>1, <2>2 DEF IInv, TypeOK, EntryMatchesComponent, ClosePlain,
                      MustClose, Finished
  <2>3. QED
    BY <2>1, <2>2
<1>3. comp[c] = "on"
  BY <1>1, <1>2 DEF IInv, EntryMatchesComponent, MustClose
<1>4. \A d \in Comp : d > c => Components!Down(d)
  BY <1>1, DownUnlessMustClose DEF IInv, Progress, ClosingPc
<1>5. \E result \in {"closing", "closed"} : comp' = [comp EXCEPT ![c] = result]
  BY DEF StartAttempt, ClosePlain
<1>6. QED
  BY <1>1, <1>3, <1>4, <1>5
  DEF Components!Close, Components!Last, Components!Comp, Comp

\* AttemptReturns closes the component for good, or gives up.
LEMMA AttemptReturnsRefines ==
  ASSUME IInv, NEW c \in Comp, NEW r \in {"ok", "ctxerr", "error"},
         AttemptReturns(c, r)
  PROVE  Components!Closed(c)
<1>1. stopState[c] = "stopping" /\ comp[c] = "closing"
  BY DEF AttemptReturns, IInv, TypeOK, EntryMatchesComponent, Finished
<1>2. state \notin {"new", "starting"} /\ state' = state
  BY <1>1 DEF AttemptReturns, IInv, StateMatchesEntries
<1>3. \A d \in Comp : d > c => Components!Down(d)
  BY <1>1, DownUnlessMustClose, LifecycleAssumption
  DEF IInv, LaterOnesDown, Comp
<1>4. \E result \in {"closed", "on"} : comp' = [comp EXCEPT ![c] = result]
  BY DEF AttemptReturns
<1>5. QED
  BY <1>1, <1>2, <1>3, <1>4
  DEF Components!Closed, Components!Last, Components!Comp, Comp

\* The end of a shutdown changes no component; a rollback that leaves the
\* lifecycle startable has everything down.
LEMMA CloseEndRefines ==
  ASSUME IInv, NEW p \in Proc,
         CloseDone(p) \/ CloseExpired(p) \/ AwaitExpired(p) \/ CloseGiveUp(p)
  PROVE  Components!Reopen \/ UNCHANGED Components!vars
<1>1. pc[p] \in ClosingPc /\ state = "stopping"
  BY DEF CloseDone, CloseExpired, AwaitExpired, CloseGiveUp, ClosingPc, IInv,
         Ownership
<1>2. CASE CloseDone(p)
  <2>1. index[p] = 0
    BY <1>2, LifecycleAssumption DEF CloseDone, IInv, Progress, Comp
  <2>2. \A c \in Comp : Components!Down(c)
    BY <1>1, <2>1, DownUnlessMustClose, LifecycleAssumption
    DEF IInv, Progress, Comp
  <2>3. comp' = comp /\ state' \in {"new", "stopped"}
    BY <1>2 DEF CloseDone, CloseEnd, RollbackEnd, Reset, StopEnd
  <2>4. QED
    BY <1>1, <2>2, <2>3
    DEF Components!Reopen, Components!vars, Components!Comp, Comp
<1>3. CASE CloseExpired(p) \/ AwaitExpired(p) \/ CloseGiveUp(p)
  <2>1. comp' = comp /\ state' = "started"
    BY <1>3 DEF CloseExpired, AwaitExpired, CloseGiveUp, CloseEnd, RollbackEnd, Reset,
                StopEnd
  <2>2. QED
    BY <1>1, <2>1 DEF Components!vars
<1>4. QED
  BY <1>2, <1>3

\* Every step of the lifecycle is a step of the abstract specification, or
\* changes nothing that its components see.
LEMMA NextRefines ==
  IInv /\ [Next]_vars => [Components!Next]_Components!vars
<1> SUFFICES ASSUME IInv, [Next]_vars
             PROVE  Components!Next \/ UNCHANGED Components!vars
  OBVIOUS
<1>1. ASSUME NEW p \in Proc, NEW k \in {"start", "stop"}, Call(p, k)
      PROVE  UNCHANGED Components!vars
  BY <1>1 DEF Call, Components!vars
<1>2. ASSUME NEW p \in Proc, Expire(p) \/ Step(p) \/ InitReturns(p)
      PROVE  Components!Next \/ UNCHANGED Components!vars
  <2>1. CASE \/ Expire(p) \/ Block(p) \/ WaitExpired(p) \/ WakeUp(p)
             \/ StartAnswered(p) \/ StopAnswered(p) \/ InitSkip(p)
             \/ InitSucceed(p) \/ CloseSkip(p) \/ ResumeAttempt(p)
             \/ AwaitFinished(p) \/ AwaitRetry(p) \/ AwaitGaveUp(p)
    BY <2>1 DEF Expire, Block, WaitExpired, WakeUp, StartAnswered, StopAnswered,
       InitSkip, InitSucceed, CloseSkip, ResumeAttempt, AwaitFinished,
       AwaitRetry, AwaitGaveUp, Components!vars
  <2>2. CASE StartBegin(p)
    BY <2>2 DEF StartBegin, Components!vars
  <2>3. CASE InitBegin(p)
    BY <2>3, InitBeginRefines DEF Components!Next, Components!Comp, Comp,
                                  InitBegin
  <2>4. CASE \/ InitExpired(p) \/ InitFail(p) \/ StartDone(p) \/ StopBegin(p)
    <3>1. comp' = comp /\ state' \in {"stopping", "started"}
      BY <2>4 DEF InitExpired, InitFail, Rollback, StartDone, StopBegin
    <3>2. QED
      BY <3>1 DEF Components!Next, Components!Seal, Components!vars
  <2>5. CASE StartAttempt(p) \/ ClosePlain(p)
    BY <2>5, CloseRefines DEF Components!Next, Components!Comp, Comp,
                              StartAttempt, ClosePlain
  <2>6. CASE CloseDone(p) \/ CloseExpired(p) \/ AwaitExpired(p) \/ CloseGiveUp(p)
    BY <2>6, CloseEndRefines DEF Components!Next
  <2>7. QED
    BY <1>2, <2>1, <2>2, <2>3, <2>4, <2>5, <2>6 DEF Step, InitReturns
<1>3. ASSUME NEW c \in Comp, NEW r \in {"ok", "ctxerr", "error"},
             AttemptReturns(c, r)
      PROVE  Components!Next
  BY <1>3, AttemptReturnsRefines DEF Components!Next, Components!Comp, Comp
<1>4. CASE UNCHANGED vars
  BY <1>4 DEF vars, Components!vars
<1>5. QED
  BY <1>1, <1>2, <1>3, <1>4 DEF Next

\* The lifecycle implements OrderedComponents.
THEOREM Refinement == Spec => OrderKept
BY Invariant, InitRefines, NextRefines, PTL DEF Spec, OrderKept, Components!Spec

=============================================================================
