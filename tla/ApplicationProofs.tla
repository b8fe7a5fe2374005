------------------------- MODULE ApplicationProofs -------------------------
(***************************************************************************)
(* Proofs about Application, for any number of goroutines and requests.    *)
(* One lemma for each part of the inductive invariant IInv; in each, one   *)
(* step for each family of actions or, where the actions of a family keep  *)
(* the part for reasons of their own, for each action.                     *)
(***************************************************************************)
EXTENDS Application, TLAPS

\* What the steps leave alone, and the ends of their calls.
USE DEF servingVars, applyVars, lcVars, trackVars, wsVars, drainVars, callVars, fixedVars,
        UnchangedByApply, UnchangedByServe, UnchangedByShutdown, Enter, Goto, Return

-----------------------------------------------------------------------------
(* The steps, by what they belong to.                                      *)

\* An ApplyAll, called or run by Serve.
Applies(p) == CallApplyAll(p) \/ ApplyStep(p)

\* Serve until its listeners are bound.
ServeBegins(s) ==
  \/ ServeRefused(s) \/ AcquireServing(s) \/ ServeNotApplied(s) \/ MarkServed(s)
  \/ Launch(s) \/ LaunchFails(s)

\* Serve from the end of its context on.
ServeDrains(s) ==
  \/ \E e \in {"nil", "err"} : BeginDrain(s, e)
  \/ DrainServers(s) \/ \E t \in Transport : DrainServer(s, t)
  \/ Drained(s) \/ HandlersGone(s) \/ HandlersRemain(s)
  \/ StopLifecycle(s) \/ StopSkipped(s)
  \/ \E f \in BOOLEAN : ServeEnds(s, f)

\* A Shutdown until it stops the lifecycle or returns.
Shuts(c) == RequestDuringServe(c) \/ RequestShutdown(c) \/ ShutdownStep(c)

\* Every step is one of these.
LEMMA Families ==
  ASSUME Next
  PROVE  \/ \E p \in Proc : \/ Applies(p) \/ ServeBegins(p) \/ ServeDrains(p) \/ Shuts(p)
                            \/ StopStep(p) \/ CancelContext(p)
         \/ \E h \in Handler : HandlerStep(h)
         \/ \E c, f \in BOOLEAN : AbandonedStopEnds(c, f)
         \/ Tick
BY DEF Next, Applies, ServeBegins, ServeDrains, Shuts, ServeStep

-----------------------------------------------------------------------------
(* Types.                                                                  *)

\* The types of the calls.
CallTypes ==
  /\ call \in [Proc -> {"none", "ApplyAll", "Serve", "Shutdown"}]
  /\ pc \in [Proc -> Point]
  /\ stage \in [Proc -> {"none", "apply", "launch", "drain", "shutdown"}]
  /\ err \in [Proc -> {"nil", "ctx", "err"}]
  /\ ret \in [Proc -> {"none", "nil", "err", "refused"}]
  /\ ctxDone \in [Proc -> BOOLEAN]

\* The types of the flags.
FlagTypes ==
  /\ serving \in BOOLEAN /\ served \in BOOLEAN /\ shutdownRequested \in BOOLEAN
  /\ serveErr \in BOOLEAN /\ embedded \in BOOLEAN /\ prestarted \in BOOLEAN
  /\ stopErr \in BOOLEAN /\ activeGRPCServer \in BOOLEAN /\ handlersUnsafe \in BOOLEAN
  /\ hijackedClosing \in BOOLEAN /\ swept \in BOOLEAN /\ launched \in BOOLEAN

\* The types of what has several values.
StateTypes ==
  /\ applyState \in {"new", "running", "succeeded", "failed"}
  /\ applyErr \in {"nil", "ctx", "err"}
  /\ lc \in {"new", "starting", "started", "stopping", "stopped"}
  /\ resources \in {"none", "on", "closing", "closed"}
  /\ closed \subseteq {"http", "grpc"} /\ drained \subseteq Transport
  /\ clock \in {"none", "drain", "forced", "over"}

\* The types of the requests and their connections.
HandlerTypes ==
  /\ handler \in [Handler -> {"none", "active", "upgrading", "open", "ended", "rejected"}]
  /\ hijacked \subseteq Handler /\ \A h \in hijacked : handler[h] = "open"

\* The four parts of the type invariant.
LEMMA TypeParts == TypeOK <=> CallTypes /\ FlagTypes /\ StateTypes /\ HandlerTypes
BY DEF TypeOK, CallTypes, FlagTypes, StateTypes, HandlerTypes, Active

\* The types of the flags survive the end of a Lifecycle.Stop.
LEMMA FlagsAfterStop ==
  ASSUME FlagTypes, NEW p \in Proc, NEW failed, AfterStop(p, failed)
  PROVE  /\ serving' \in BOOLEAN /\ served' \in BOOLEAN /\ shutdownRequested' \in BOOLEAN
         /\ serveErr' \in BOOLEAN /\ activeGRPCServer' \in BOOLEAN /\ handlersUnsafe' \in BOOLEAN
<1>1. CASE stage[p] = "shutdown"
  BY <1>1 DEF AfterStop, FlagTypes
<1>2. CASE stage[p] = "drain"
  BY <1>2 DEF AfterStop, FlagTypes
<1>3. CASE stage[p] = "launch"
  BY <1>3 DEF AfterStop, FlagTypes
<1>4. CASE stage[p] \notin {"shutdown", "drain", "launch"}
  BY <1>4 DEF AfterStop, FlagTypes
<1>. QED BY <1>1, <1>2, <1>3, <1>4

\* So do those of the calls.
LEMMA CallsAfterStop ==
  ASSUME CallTypes, NEW p \in Proc, NEW failed, AfterStop(p, failed)
  PROVE  CallTypes'
<1>1. CASE stage[p] = "shutdown"
  BY <1>1 DEF AfterStop, CallTypes, Point
<1>2. CASE stage[p] = "drain"
  BY <1>2 DEF AfterStop, CallTypes, Point, Listening
<1>3. CASE stage[p] = "launch"
  BY <1>3 DEF AfterStop, CallTypes, Point
<1>4. CASE stage[p] \notin {"shutdown", "drain", "launch"}
  BY <1>4 DEF AfterStop, CallTypes, Point, Applying
<1>. QED BY <1>1, <1>2, <1>3, <1>4

\* Calls keep their types.
LEMMA CallTypesKept == IInv /\ Next => CallTypes'
<1>. SUFFICES ASSUME IInv, Next PROVE CallTypes'
  OBVIOUS
<1>. USE DEF CallTypes, StateTypes, Point, Applying, Listening, Draining, Sealing
<1>t. /\ pc \in [Proc -> Point]
      /\ call \in [Proc -> {"none", "ApplyAll", "Serve", "Shutdown"}]
      /\ stage \in [Proc -> {"none", "apply", "launch", "drain", "shutdown"}]
      /\ err \in [Proc -> {"nil", "ctx", "err"}]
      /\ ret \in [Proc -> {"none", "nil", "err", "refused"}]
  BY DEF IInv, TypeOK
<1>h. CallTypes /\ StateTypes
  BY TypeParts DEF IInv
<1>1. ASSUME NEW p \in Proc, CallApplyAll(p) PROVE CallTypes'
  BY <1>t, <1>h, <1>1 DEF CallApplyAll
<1>2. ASSUME NEW p \in Proc, ApplyCached(p) PROVE CallTypes'
  BY <1>t, <1>h, <1>2 DEF ApplyCached, Cached, CachedErr
<1>3. ASSUME NEW p \in Proc, ApplyClose(p) PROVE CallTypes'
  BY <1>t, <1>h, <1>3 DEF ApplyClose, Cached
<1>4. ASSUME NEW p \in Proc, ApplyRuns(p) PROVE CallTypes'
  BY <1>t, <1>h, <1>4 DEF ApplyRuns
<1>5. ASSUME NEW p \in Proc, ApplyJoins(p) PROVE CallTypes'
  BY <1>t, <1>h, <1>5 DEF ApplyJoins
<1>6. ASSUME NEW p \in Proc, ApplyWaitExpired(p) PROVE CallTypes'
  BY <1>t, <1>h, <1>6 DEF ApplyWaitExpired
<1>7. ASSUME NEW p \in Proc, Built(p) PROVE CallTypes'
  BY <1>t, <1>h, <1>7 DEF Built
<1>8. ASSUME NEW p \in Proc, NEW e \in {"ctx", "err"}, BuildFails(p, e) PROVE CallTypes'
  BY <1>t, <1>h, <1>8 DEF BuildFails
<1>9. ASSUME NEW p \in Proc, StartAnswered(p) PROVE CallTypes'
  BY <1>t, <1>h, <1>9 DEF StartAnswered
<1>10. ASSUME NEW p \in Proc, StartExpired(p) PROVE CallTypes'
  BY <1>t, <1>h, <1>10 DEF StartExpired
<1>11. ASSUME NEW p \in Proc, StartBegin(p) PROVE CallTypes'
  BY <1>t, <1>h, <1>11 DEF StartBegin
<1>12. ASSUME NEW p \in Proc, StartSucceeds(p) PROVE CallTypes'
  BY <1>t, <1>h, <1>12 DEF StartSucceeds
<1>13. ASSUME NEW p \in Proc, NEW e \in {"ctx", "err"}, NEW r \in {"clean", "error",
       "incomplete"}, StartFails(p, e, r) PROVE CallTypes'
  BY <1>t, <1>h, <1>13 DEF StartFails
<1>14. ASSUME NEW p \in Proc, ApplyEnd(p) PROVE CallTypes'
  BY <1>t, <1>h, <1>14 DEF ApplyEnd
<1>15. ASSUME NEW p \in Proc, ApplierReturns(p) PROVE CallTypes'
  BY <1>t, <1>h, <1>15 DEF ApplierReturns
<1>16. ASSUME NEW p \in Proc, ServeRefused(p) PROVE CallTypes'
  BY <1>t, <1>h, <1>16 DEF ServeRefused
<1>17. ASSUME NEW p \in Proc, AcquireServing(p) PROVE CallTypes'
  BY <1>t, <1>h, <1>17 DEF AcquireServing
<1>18. ASSUME NEW p \in Proc, ServeNotApplied(p) PROVE CallTypes'
  BY <1>t, <1>h, <1>18 DEF ServeNotApplied, ReleaseServing
<1>19. ASSUME NEW p \in Proc, MarkServed(p) PROVE CallTypes'
  BY <1>t, <1>h, <1>19 DEF MarkServed
<1>20. ASSUME NEW p \in Proc, Launch(p) PROVE CallTypes'
  BY <1>t, <1>h, <1>20 DEF Launch
<1>21. ASSUME NEW p \in Proc, LaunchFails(p) PROVE CallTypes'
  BY <1>t, <1>h, <1>21 DEF LaunchFails
<1>22. ASSUME NEW p \in Proc, NEW e \in {"nil", "err"}, BeginDrain(p, e) PROVE CallTypes'
  BY <1>t, <1>h, <1>22 DEF BeginDrain
<1>23. ASSUME NEW p \in Proc, DrainServers(p) PROVE CallTypes'
  BY <1>t, <1>h, <1>23 DEF DrainServers
<1>24. ASSUME NEW p \in Proc, NEW t \in Transport, DrainServer(p, t) PROVE CallTypes'
  BY <1>t, <1>h, <1>24 DEF DrainServer
<1>25. ASSUME NEW p \in Proc, Drained(p) PROVE CallTypes'
  BY <1>t, <1>h, <1>25 DEF Drained
<1>26. ASSUME NEW p \in Proc, HandlersGone(p) PROVE CallTypes'
  BY <1>t, <1>h, <1>26 DEF HandlersGone
<1>27. ASSUME NEW p \in Proc, HandlersRemain(p) PROVE CallTypes'
  BY <1>t, <1>h, <1>27 DEF HandlersRemain
<1>28. ASSUME NEW p \in Proc, StopLifecycle(p) PROVE CallTypes'
  BY <1>t, <1>h, <1>28 DEF StopLifecycle
<1>29. ASSUME NEW p \in Proc, StopSkipped(p) PROVE CallTypes'
  BY <1>t, <1>h, <1>29 DEF StopSkipped
<1>30. ASSUME NEW p \in Proc, NEW f \in BOOLEAN, ServeEnds(p, f) PROVE CallTypes'
  BY <1>t, <1>h, <1>30 DEF ServeEnds, ReleaseServing
<1>31. ASSUME NEW p \in Proc, RequestDuringServe(p) PROVE CallTypes'
  BY <1>t, <1>h, <1>31 DEF RequestDuringServe
<1>32. ASSUME NEW p \in Proc, RequestShutdown(p) PROVE CallTypes'
  BY <1>t, <1>h, <1>32 DEF RequestShutdown
<1>33. ASSUME NEW p \in Proc, ServeFinished(p) PROVE CallTypes'
  BY <1>t, <1>h, <1>33 DEF ServeFinished
<1>34. ASSUME NEW p \in Proc, ServeWaitExpired(p) PROVE CallTypes'
  BY <1>t, <1>h, <1>34 DEF ServeWaitExpired
<1>35. ASSUME NEW p \in Proc, SealTrackers(p) PROVE CallTypes'
  BY <1>t, <1>h, <1>35 DEF SealTrackers, Transport
<1>36. ASSUME NEW p \in Proc, NoHandlers(p) PROVE CallTypes'
  BY <1>t, <1>h, <1>36 DEF NoHandlers
<1>37. ASSUME NEW p \in Proc, StillActive(p) PROVE CallTypes'
  BY <1>t, <1>h, <1>37 DEF StillActive
<1>38. ASSUME NEW p \in Proc, ReleaseResources(p) PROVE CallTypes'
  BY <1>t, <1>h, <1>38 DEF ReleaseResources
<1>39. ASSUME NEW p \in Proc, StopAnswered(p) PROVE CallTypes'
  BY <1>h, <1>39, CallsAfterStop DEF StopAnswered
<1>40. ASSUME NEW p \in Proc, StopExpired(p) PROVE CallTypes'
  BY <1>h, <1>40, CallsAfterStop DEF StopExpired
<1>41. ASSUME NEW p \in Proc, StopBegin(p) PROVE CallTypes'
  BY <1>t, <1>h, <1>41 DEF StopBegin
<1>42. ASSUME NEW p \in Proc, StopIncomplete(p) PROVE CallTypes'
  BY <1>h, <1>42, CallsAfterStop DEF StopIncomplete
<1>43. ASSUME NEW p \in Proc, StopAbandoned(p) PROVE CallTypes'
  BY <1>h, <1>43, CallsAfterStop DEF StopAbandoned
<1>44. ASSUME NEW p \in Proc, NEW f \in BOOLEAN, StopCompletes(p, f) PROVE CallTypes'
  BY <1>h, <1>44, CallsAfterStop DEF StopCompletes
<1>45. ASSUME NEW h \in Handler, HandlerStep(h) PROVE CallTypes'
  BY <1>t, <1>h, <1>45 DEF HandlerStep, HandlerBegins, HandlerEnds, UpgradeBegins, TrackHijacked
<1>46. ASSUME NEW p \in Proc, CancelContext(p) PROVE CallTypes'
  BY <1>t, <1>h, <1>46 DEF CancelContext
<1>47. ASSUME NEW c \in BOOLEAN, NEW f \in BOOLEAN, AbandonedStopEnds(c, f) PROVE CallTypes'
  BY <1>t, <1>h, <1>47 DEF AbandonedStopEnds
<1>48. ASSUME Tick PROVE CallTypes'
  BY <1>t, <1>h, <1>48 DEF Tick
<1>. QED BY Families, <1>1, <1>2, <1>3, <1>4, <1>5, <1>6, <1>7, <1>8, <1>9, <1>10, <1>11, <1>12,
     <1>13, <1>14, <1>15, <1>16, <1>17, <1>18, <1>19, <1>20, <1>21, <1>22, <1>23, <1>24, <1>25,
     <1>26, <1>27, <1>28, <1>29, <1>30, <1>31, <1>32, <1>33, <1>34, <1>35, <1>36, <1>37, <1>38,
     <1>39, <1>40, <1>41, <1>42, <1>43, <1>44, <1>45, <1>46, <1>47, <1>48 DEF Applies,
     ApplyStep, ServeBegins, ServeDrains, Shuts, ShutdownStep, StopStep

\* Flags stay Boolean.
LEMMA FlagTypesKept == IInv /\ Next => FlagTypes'
<1>. SUFFICES ASSUME IInv, Next PROVE FlagTypes'
  OBVIOUS
<1>. USE DEF FlagTypes
<1>h. FlagTypes
  BY TypeParts DEF IInv
<1>1. ASSUME NEW p \in Proc, CallApplyAll(p) PROVE FlagTypes'
  BY <1>h, <1>1 DEF CallApplyAll
<1>2. ASSUME NEW p \in Proc, ApplyCached(p) PROVE FlagTypes'
  BY <1>h, <1>2 DEF ApplyCached, Cached, CachedErr
<1>3. ASSUME NEW p \in Proc, ApplyClose(p) PROVE FlagTypes'
  BY <1>h, <1>3 DEF ApplyClose, Cached
<1>4. ASSUME NEW p \in Proc, ApplyRuns(p) PROVE FlagTypes'
  BY <1>h, <1>4 DEF ApplyRuns
<1>5. ASSUME NEW p \in Proc, ApplyJoins(p) PROVE FlagTypes'
  BY <1>h, <1>5 DEF ApplyJoins
<1>6. ASSUME NEW p \in Proc, ApplyWaitExpired(p) PROVE FlagTypes'
  BY <1>h, <1>6 DEF ApplyWaitExpired
<1>7. ASSUME NEW p \in Proc, Built(p) PROVE FlagTypes'
  BY <1>h, <1>7 DEF Built
<1>8. ASSUME NEW p \in Proc, NEW e \in {"ctx", "err"}, BuildFails(p, e) PROVE FlagTypes'
  BY <1>h, <1>8 DEF BuildFails
<1>9. ASSUME NEW p \in Proc, StartAnswered(p) PROVE FlagTypes'
  BY <1>h, <1>9 DEF StartAnswered
<1>10. ASSUME NEW p \in Proc, StartExpired(p) PROVE FlagTypes'
  BY <1>h, <1>10 DEF StartExpired
<1>11. ASSUME NEW p \in Proc, StartBegin(p) PROVE FlagTypes'
  BY <1>h, <1>11 DEF StartBegin
<1>12. ASSUME NEW p \in Proc, StartSucceeds(p) PROVE FlagTypes'
  BY <1>h, <1>12 DEF StartSucceeds
<1>13. ASSUME NEW p \in Proc, NEW e \in {"ctx", "err"}, NEW r \in {"clean", "error",
       "incomplete"}, StartFails(p, e, r) PROVE FlagTypes'
  BY <1>h, <1>13 DEF StartFails
<1>14. ASSUME NEW p \in Proc, ApplyEnd(p) PROVE FlagTypes'
  BY <1>h, <1>14 DEF ApplyEnd
<1>15. ASSUME NEW p \in Proc, ApplierReturns(p) PROVE FlagTypes'
  BY <1>h, <1>15 DEF ApplierReturns
<1>16. ASSUME NEW p \in Proc, ServeRefused(p) PROVE FlagTypes'
  BY <1>h, <1>16 DEF ServeRefused
<1>17. ASSUME NEW p \in Proc, AcquireServing(p) PROVE FlagTypes'
  BY <1>h, <1>17 DEF AcquireServing
<1>18. ASSUME NEW p \in Proc, ServeNotApplied(p) PROVE FlagTypes'
  BY <1>h, <1>18 DEF ServeNotApplied, ReleaseServing
<1>19. ASSUME NEW p \in Proc, MarkServed(p) PROVE FlagTypes'
  BY <1>h, <1>19 DEF MarkServed
<1>20. ASSUME NEW p \in Proc, Launch(p) PROVE FlagTypes'
  BY <1>h, <1>20 DEF Launch, GRPCEnabled
<1>21. ASSUME NEW p \in Proc, LaunchFails(p) PROVE FlagTypes'
  BY <1>h, <1>21 DEF LaunchFails
<1>22. ASSUME NEW p \in Proc, NEW e \in {"nil", "err"}, BeginDrain(p, e) PROVE FlagTypes'
  BY <1>h, <1>22 DEF BeginDrain
<1>23. ASSUME NEW p \in Proc, DrainServers(p) PROVE FlagTypes'
  BY <1>h, <1>23 DEF DrainServers
<1>24. ASSUME NEW p \in Proc, NEW t \in Transport, DrainServer(p, t) PROVE FlagTypes'
  BY <1>h, <1>24 DEF DrainServer
<1>25. ASSUME NEW p \in Proc, Drained(p) PROVE FlagTypes'
  BY <1>h, <1>25 DEF Drained
<1>26. ASSUME NEW p \in Proc, HandlersGone(p) PROVE FlagTypes'
  BY <1>h, <1>26 DEF HandlersGone
<1>27. ASSUME NEW p \in Proc, HandlersRemain(p) PROVE FlagTypes'
  BY <1>h, <1>27 DEF HandlersRemain
<1>28. ASSUME NEW p \in Proc, StopLifecycle(p) PROVE FlagTypes'
  BY <1>h, <1>28 DEF StopLifecycle
<1>29. ASSUME NEW p \in Proc, StopSkipped(p) PROVE FlagTypes'
  BY <1>h, <1>29 DEF StopSkipped
<1>30. ASSUME NEW p \in Proc, NEW f \in BOOLEAN, ServeEnds(p, f) PROVE FlagTypes'
  BY <1>h, <1>30 DEF ServeEnds, ReleaseServing
<1>31. ASSUME NEW p \in Proc, RequestDuringServe(p) PROVE FlagTypes'
  BY <1>h, <1>31 DEF RequestDuringServe
<1>32. ASSUME NEW p \in Proc, RequestShutdown(p) PROVE FlagTypes'
  BY <1>h, <1>32 DEF RequestShutdown
<1>33. ASSUME NEW p \in Proc, ServeFinished(p) PROVE FlagTypes'
  BY <1>h, <1>33 DEF ServeFinished
<1>34. ASSUME NEW p \in Proc, ServeWaitExpired(p) PROVE FlagTypes'
  BY <1>h, <1>34 DEF ServeWaitExpired
<1>35. ASSUME NEW p \in Proc, SealTrackers(p) PROVE FlagTypes'
  BY <1>h, <1>35 DEF SealTrackers, Transport
<1>36. ASSUME NEW p \in Proc, NoHandlers(p) PROVE FlagTypes'
  BY <1>h, <1>36 DEF NoHandlers
<1>37. ASSUME NEW p \in Proc, StillActive(p) PROVE FlagTypes'
  BY <1>h, <1>37 DEF StillActive
<1>38. ASSUME NEW p \in Proc, ReleaseResources(p) PROVE FlagTypes'
  BY <1>h, <1>38 DEF ReleaseResources
<1>39. ASSUME NEW p \in Proc, StopAnswered(p) PROVE FlagTypes'
  BY <1>h, <1>39, FlagsAfterStop DEF FlagTypes, StopAnswered
<1>40. ASSUME NEW p \in Proc, StopExpired(p) PROVE FlagTypes'
  BY <1>h, <1>40, FlagsAfterStop DEF FlagTypes, StopExpired
<1>41. ASSUME NEW p \in Proc, StopBegin(p) PROVE FlagTypes'
  BY <1>h, <1>41 DEF StopBegin
<1>42. ASSUME NEW p \in Proc, StopIncomplete(p) PROVE FlagTypes'
  BY <1>h, <1>42, FlagsAfterStop DEF FlagTypes, StopIncomplete
<1>43. ASSUME NEW p \in Proc, StopAbandoned(p) PROVE FlagTypes'
  BY <1>h, <1>43, FlagsAfterStop DEF FlagTypes, StopAbandoned
<1>44. ASSUME NEW p \in Proc, NEW f \in BOOLEAN, StopCompletes(p, f) PROVE FlagTypes'
  BY <1>h, <1>44, FlagsAfterStop DEF FlagTypes, StopCompletes
<1>45. ASSUME NEW h \in Handler, HandlerStep(h) PROVE FlagTypes'
  BY <1>h, <1>45 DEF HandlerStep, HandlerBegins, HandlerEnds, UpgradeBegins, TrackHijacked
<1>46. ASSUME NEW p \in Proc, CancelContext(p) PROVE FlagTypes'
  BY <1>h, <1>46 DEF CancelContext
<1>47. ASSUME NEW c \in BOOLEAN, NEW f \in BOOLEAN, AbandonedStopEnds(c, f) PROVE FlagTypes'
  BY <1>h, <1>47 DEF AbandonedStopEnds
<1>48. ASSUME Tick PROVE FlagTypes'
  BY <1>h, <1>48 DEF Tick
<1>. QED BY Families, <1>1, <1>2, <1>3, <1>4, <1>5, <1>6, <1>7, <1>8, <1>9, <1>10, <1>11, <1>12,
     <1>13, <1>14, <1>15, <1>16, <1>17, <1>18, <1>19, <1>20, <1>21, <1>22, <1>23, <1>24, <1>25,
     <1>26, <1>27, <1>28, <1>29, <1>30, <1>31, <1>32, <1>33, <1>34, <1>35, <1>36, <1>37, <1>38,
     <1>39, <1>40, <1>41, <1>42, <1>43, <1>44, <1>45, <1>46, <1>47, <1>48 DEF Applies,
     ApplyStep, ServeBegins, ServeDrains, Shuts, ShutdownStep, StopStep

\* What has several values keeps to them.
LEMMA StateTypesKept == IInv /\ Next => StateTypes'
<1>. SUFFICES ASSUME IInv, Next PROVE StateTypes'
  OBVIOUS
<1>. USE DEF StateTypes, Transport
<1>t. /\ err \in [Proc -> {"nil", "ctx", "err"}]
  BY DEF IInv, TypeOK
<1>h. StateTypes
  BY TypeParts DEF IInv
<1>1. ASSUME NEW p \in Proc, CallApplyAll(p) PROVE StateTypes'
  BY <1>t, <1>h, <1>1 DEF CallApplyAll
<1>2. ASSUME NEW p \in Proc, ApplyCached(p) PROVE StateTypes'
  BY <1>t, <1>h, <1>2 DEF ApplyCached, Cached, CachedErr
<1>3. ASSUME NEW p \in Proc, ApplyClose(p) PROVE StateTypes'
  BY <1>t, <1>h, <1>3 DEF ApplyClose, Cached
<1>4. ASSUME NEW p \in Proc, ApplyRuns(p) PROVE StateTypes'
  BY <1>t, <1>h, <1>4 DEF ApplyRuns
<1>5. ASSUME NEW p \in Proc, ApplyJoins(p) PROVE StateTypes'
  BY <1>t, <1>h, <1>5 DEF ApplyJoins
<1>6. ASSUME NEW p \in Proc, ApplyWaitExpired(p) PROVE StateTypes'
  BY <1>t, <1>h, <1>6 DEF ApplyWaitExpired
<1>7. ASSUME NEW p \in Proc, Built(p) PROVE StateTypes'
  BY <1>t, <1>h, <1>7 DEF Built
<1>8. ASSUME NEW p \in Proc, NEW e \in {"ctx", "err"}, BuildFails(p, e) PROVE StateTypes'
  BY <1>t, <1>h, <1>8 DEF BuildFails
<1>9. ASSUME NEW p \in Proc, StartAnswered(p) PROVE StateTypes'
  BY <1>t, <1>h, <1>9 DEF StartAnswered
<1>10. ASSUME NEW p \in Proc, StartExpired(p) PROVE StateTypes'
  BY <1>t, <1>h, <1>10 DEF StartExpired
<1>11. ASSUME NEW p \in Proc, StartBegin(p) PROVE StateTypes'
  BY <1>t, <1>h, <1>11 DEF StartBegin
<1>12. ASSUME NEW p \in Proc, StartSucceeds(p) PROVE StateTypes'
  BY <1>t, <1>h, <1>12 DEF StartSucceeds
<1>13. ASSUME NEW p \in Proc, NEW e \in {"ctx", "err"}, NEW r \in {"clean", "error",
       "incomplete"}, StartFails(p, e, r) PROVE StateTypes'
  BY <1>t, <1>h, <1>13 DEF StartFails
<1>14. ASSUME NEW p \in Proc, ApplyEnd(p) PROVE StateTypes'
  BY <1>t, <1>h, <1>14 DEF ApplyEnd
<1>15. ASSUME NEW p \in Proc, ApplierReturns(p) PROVE StateTypes'
  BY <1>t, <1>h, <1>15 DEF ApplierReturns
<1>16. ASSUME NEW p \in Proc, ServeRefused(p) PROVE StateTypes'
  BY <1>t, <1>h, <1>16 DEF ServeRefused
<1>17. ASSUME NEW p \in Proc, AcquireServing(p) PROVE StateTypes'
  BY <1>t, <1>h, <1>17 DEF AcquireServing
<1>18. ASSUME NEW p \in Proc, ServeNotApplied(p) PROVE StateTypes'
  BY <1>t, <1>h, <1>18 DEF ServeNotApplied, ReleaseServing
<1>19. ASSUME NEW p \in Proc, MarkServed(p) PROVE StateTypes'
  BY <1>t, <1>h, <1>19 DEF MarkServed
<1>20. ASSUME NEW p \in Proc, Launch(p) PROVE StateTypes'
  BY <1>t, <1>h, <1>20 DEF Launch
<1>21. ASSUME NEW p \in Proc, LaunchFails(p) PROVE StateTypes'
  BY <1>t, <1>h, <1>21 DEF LaunchFails
<1>22. ASSUME NEW p \in Proc, NEW e \in {"nil", "err"}, BeginDrain(p, e) PROVE StateTypes'
  BY <1>t, <1>h, <1>22 DEF BeginDrain
<1>23. ASSUME NEW p \in Proc, DrainServers(p) PROVE StateTypes'
  BY <1>t, <1>h, <1>23 DEF DrainServers
<1>24. ASSUME NEW p \in Proc, NEW t \in Transport, DrainServer(p, t) PROVE StateTypes'
  BY <1>t, <1>h, <1>24 DEF DrainServer
<1>25. ASSUME NEW p \in Proc, Drained(p) PROVE StateTypes'
  BY <1>t, <1>h, <1>25 DEF Drained
<1>26. ASSUME NEW p \in Proc, HandlersGone(p) PROVE StateTypes'
  BY <1>t, <1>h, <1>26 DEF HandlersGone
<1>27. ASSUME NEW p \in Proc, HandlersRemain(p) PROVE StateTypes'
  BY <1>t, <1>h, <1>27 DEF HandlersRemain
<1>28. ASSUME NEW p \in Proc, StopLifecycle(p) PROVE StateTypes'
  BY <1>t, <1>h, <1>28 DEF StopLifecycle
<1>29. ASSUME NEW p \in Proc, StopSkipped(p) PROVE StateTypes'
  BY <1>t, <1>h, <1>29 DEF StopSkipped
<1>30. ASSUME NEW p \in Proc, NEW f \in BOOLEAN, ServeEnds(p, f) PROVE StateTypes'
  BY <1>t, <1>h, <1>30 DEF ServeEnds, ReleaseServing
<1>31. ASSUME NEW p \in Proc, Shuts(p) PROVE StateTypes'
  BY <1>t, <1>h, <1>31 DEF Shuts, ShutdownStep, RequestDuringServe, RequestShutdown,
     ServeFinished, ServeWaitExpired, SealTrackers, NoHandlers, StillActive, ReleaseResources
<1>32. ASSUME NEW p \in Proc, StopAnswered(p) PROVE StateTypes'
  BY <1>t, <1>h, <1>32 DEF AfterStop, StopAnswered
<1>33. ASSUME NEW p \in Proc, StopExpired(p) PROVE StateTypes'
  BY <1>t, <1>h, <1>33 DEF AfterStop, StopExpired
<1>34. ASSUME NEW p \in Proc, StopBegin(p) PROVE StateTypes'
  BY <1>t, <1>h, <1>34 DEF StopBegin
<1>35. ASSUME NEW p \in Proc, StopIncomplete(p) PROVE StateTypes'
  BY <1>t, <1>h, <1>35 DEF AfterStop, StopIncomplete
<1>36. ASSUME NEW p \in Proc, StopAbandoned(p) PROVE StateTypes'
  BY <1>t, <1>h, <1>36 DEF AfterStop, StopAbandoned
<1>37. ASSUME NEW p \in Proc, NEW f \in BOOLEAN, StopCompletes(p, f) PROVE StateTypes'
  BY <1>t, <1>h, <1>37 DEF AfterStop, StopCompletes
<1>38. ASSUME NEW h \in Handler, HandlerBegins(h) PROVE StateTypes'
  BY <1>t, <1>h, <1>38 DEF HandlerBegins
<1>39. ASSUME NEW h \in Handler, HandlerEnds(h) PROVE StateTypes'
  BY <1>t, <1>h, <1>39 DEF HandlerEnds
<1>40. ASSUME NEW h \in Handler, UpgradeBegins(h) PROVE StateTypes'
  BY <1>t, <1>h, <1>40 DEF UpgradeBegins
<1>41. ASSUME NEW h \in Handler, TrackHijacked(h) PROVE StateTypes'
  BY <1>t, <1>h, <1>41 DEF TrackHijacked
<1>42. ASSUME NEW p \in Proc, CancelContext(p) PROVE StateTypes'
  BY <1>t, <1>h, <1>42 DEF CancelContext
<1>43. ASSUME NEW c \in BOOLEAN, NEW f \in BOOLEAN, AbandonedStopEnds(c, f) PROVE StateTypes'
  BY <1>t, <1>h, <1>43 DEF AbandonedStopEnds
<1>44. ASSUME Tick PROVE StateTypes'
  BY <1>t, <1>h, <1>44 DEF Tick
<1>. QED BY Families, <1>1, <1>2, <1>3, <1>4, <1>5, <1>6, <1>7, <1>8, <1>9, <1>10, <1>11, <1>12,
     <1>13, <1>14, <1>15, <1>16, <1>17, <1>18, <1>19, <1>20, <1>21, <1>22, <1>23, <1>24, <1>25,
     <1>26, <1>27, <1>28, <1>29, <1>30, <1>31, <1>32, <1>33, <1>34, <1>35, <1>36, <1>37, <1>38,
     <1>39, <1>40, <1>41, <1>42, <1>43, <1>44 DEF Applies, ApplyStep, ServeBegins, ServeDrains,
     StopStep, HandlerStep

\* A connection is tracked while its handler has it open.
LEMMA HandlerTypesKept == IInv /\ Next => HandlerTypes'
<1>. SUFFICES ASSUME IInv, Next PROVE HandlerTypes'
  OBVIOUS
<1>. USE DEF HandlerTypes
<1>h. HandlerTypes
  BY TypeParts DEF IInv
<1>1. ASSUME NEW p \in Proc, Applies(p) PROVE HandlerTypes'
  BY <1>h, <1>1 DEF Applies, ApplyStep, CallApplyAll, ApplyCached, Cached, CachedErr, ApplyClose,
     ApplyRuns, ApplyJoins, ApplyWaitExpired, Built, BuildFails, StartAnswered, StartExpired,
     StartBegin, StartSucceeds, StartFails, ApplyEnd, ApplierReturns
<1>2. ASSUME NEW p \in Proc, ServeBegins(p) PROVE HandlerTypes'
  BY <1>h, <1>2 DEF ServeBegins, ServeRefused, AcquireServing, ServeNotApplied, ReleaseServing,
     MarkServed, Launch, LaunchFails
<1>3. ASSUME NEW p \in Proc, ServeDrains(p) PROVE HandlerTypes'
  BY <1>h, <1>3 DEF ServeDrains, BeginDrain, DrainServers, DrainServer, Drained, HandlersGone,
     HandlersRemain, StopLifecycle, StopSkipped, ServeEnds, ReleaseServing
<1>4. ASSUME NEW p \in Proc, Shuts(p) PROVE HandlerTypes'
  BY <1>h, <1>4 DEF Shuts, ShutdownStep, RequestDuringServe, RequestShutdown, ServeFinished,
     ServeWaitExpired, SealTrackers, Transport, NoHandlers, StillActive, ReleaseResources
<1>5. ASSUME NEW p \in Proc, StopStep(p) PROVE HandlerTypes'
  BY <1>h, <1>5 DEF StopStep, AfterStop, StopAnswered, StopExpired, StopBegin, StopIncomplete,
     StopAbandoned, StopCompletes
<1>6. ASSUME NEW h \in Handler, HandlerStep(h) PROVE HandlerTypes'
  BY <1>h, <1>6 DEF HandlerStep, HandlerBegins, HandlerEnds, UpgradeBegins, TrackHijacked
<1>7. ASSUME NEW p \in Proc, CancelContext(p) PROVE HandlerTypes'
  BY <1>h, <1>7 DEF CancelContext
<1>8. ASSUME NEW c \in BOOLEAN, NEW f \in BOOLEAN, AbandonedStopEnds(c, f) PROVE HandlerTypes'
  BY <1>h, <1>8 DEF AbandonedStopEnds
<1>9. ASSUME Tick PROVE HandlerTypes'
  BY <1>h, <1>9 DEF Tick
<1>. QED BY Families, <1>1, <1>2, <1>3, <1>4, <1>5, <1>6, <1>7, <1>8, <1>9

\* Every variable keeps its type.
LEMMA TypesKept == IInv /\ Next => TypeOK'
<1>. SUFFICES ASSUME IInv, Next PROVE TypeOK'
  OBVIOUS
<1>1. CallTypes' /\ FlagTypes' /\ StateTypes' /\ HandlerTypes'
  BY CallTypesKept, FlagTypesKept, StateTypesKept, HandlerTypesKept
<1>. QED BY <1>1 DEF TypeOK, CallTypes, FlagTypes, StateTypes, HandlerTypes, Active

-----------------------------------------------------------------------------
(* Calls, attempts and the lifecycle.                                      *)

\* A call is at one of its own steps.
LEMMA CallShapeKept == IInv /\ Next => CallShape'
<1>. SUFFICES ASSUME IInv, Next PROVE CallShape'
  OBVIOUS
<1>. USE DEF CallShape, Stops, Applying, Draining, Listening, Sealing, Releases
<1>t. /\ pc \in [Proc -> Point]
      /\ call \in [Proc -> {"none", "ApplyAll", "Serve", "Shutdown"}]
      /\ stage \in [Proc -> {"none", "apply", "launch", "drain", "shutdown"}]
      /\ ret \in [Proc -> {"none", "nil", "err", "refused"}]
  BY DEF IInv, TypeOK
<1>h. CallShape
  BY DEF IInv
<1>1. ASSUME NEW p \in Proc, Applies(p) PROVE CallShape'
  BY <1>t, <1>h, <1>1 DEF Applies, ApplyStep, CallApplyAll, ApplyCached, Cached, CachedErr,
     ApplyClose, ApplyRuns, ApplyJoins, ApplyWaitExpired, Built, BuildFails, StartAnswered,
     StartExpired, StartBegin, StartSucceeds, StartFails, ApplyEnd, ApplierReturns
<1>2. ASSUME NEW p \in Proc, ServeBegins(p) PROVE CallShape'
  BY <1>t, <1>h, <1>2 DEF ServeBegins, ServeRefused, AcquireServing, ServeNotApplied,
     ReleaseServing, MarkServed, Launch, LaunchFails
<1>3. ASSUME NEW p \in Proc, ServeDrains(p) PROVE CallShape'
  BY <1>t, <1>h, <1>3 DEF ServeDrains, BeginDrain, DrainServers, DrainServer, Drained,
     HandlersGone, HandlersRemain, StopLifecycle, StopSkipped, ServeEnds, ReleaseServing
<1>4. ASSUME NEW p \in Proc, Shuts(p) PROVE CallShape'
  BY <1>t, <1>h, <1>4 DEF Shuts, ShutdownStep, RequestDuringServe, RequestShutdown, ServeFinished,
     ServeWaitExpired, SealTrackers, Transport, NoHandlers, StillActive, ReleaseResources
<1>5. ASSUME NEW p \in Proc, StopStep(p) PROVE CallShape'
  BY <1>t, <1>h, <1>5 DEF StopStep, AfterStop, StopAnswered, StopExpired, StopBegin,
     StopIncomplete, StopAbandoned, StopCompletes
<1>6. ASSUME NEW h \in Handler, HandlerStep(h) PROVE CallShape'
  BY <1>t, <1>h, <1>6 DEF HandlerStep, HandlerBegins, HandlerEnds, UpgradeBegins, TrackHijacked
<1>7. ASSUME NEW p \in Proc, CancelContext(p) PROVE CallShape'
  BY <1>t, <1>h, <1>7 DEF CancelContext
<1>8. ASSUME NEW c \in BOOLEAN, NEW f \in BOOLEAN, AbandonedStopEnds(c, f) PROVE CallShape'
  BY <1>t, <1>h, <1>8 DEF AbandonedStopEnds
<1>9. ASSUME Tick PROVE CallShape'
  BY <1>t, <1>h, <1>9 DEF Tick
<1>. QED BY Families, <1>1, <1>2, <1>3, <1>4, <1>5, <1>6, <1>7, <1>8, <1>9

\* A second Serve is refused (acquireServing), and served is set once.
LEMMA OneServeKept == IInv /\ Next => OneServe'
<1>. SUFFICES ASSUME IInv, Next PROVE OneServe'
  OBVIOUS
<1>. USE DEF CallShape, OneServe, OneAttempt, Serves, Callers, Stops, Attempts, Applying,
     Draining, Listening, Sealing, Releases
<1>t. /\ pc \in [Proc -> Point]
      /\ call \in [Proc -> {"none", "ApplyAll", "Serve", "Shutdown"}]
      /\ stage \in [Proc -> {"none", "apply", "launch", "drain", "shutdown"}]
  BY DEF IInv, TypeOK
<1>h. CallShape /\ OneServe /\ OneAttempt
  BY DEF IInv
<1>1. ASSUME NEW p \in Proc, Applies(p) PROVE OneServe'
  BY <1>t, <1>h, <1>1 DEF Applies, ApplyStep, CallApplyAll, ApplyCached, Cached, CachedErr,
     ApplyClose, ApplyRuns, ApplyJoins, ApplyWaitExpired, Built, BuildFails, StartAnswered,
     StartExpired, StartBegin, StartSucceeds, StartFails, ApplyEnd, ApplierReturns
<1>2. ASSUME NEW p \in Proc, ServeBegins(p) PROVE OneServe'
  BY <1>t, <1>h, <1>2 DEF ServeBegins, ServeRefused, AcquireServing, ServeNotApplied,
     ReleaseServing, MarkServed, Launch, LaunchFails
<1>3. ASSUME NEW p \in Proc, ServeDrains(p) PROVE OneServe'
  BY <1>t, <1>h, <1>3 DEF ServeDrains, BeginDrain, DrainServers, DrainServer, Drained,
     HandlersGone, HandlersRemain, StopLifecycle, StopSkipped, ServeEnds, ReleaseServing
<1>4. ASSUME NEW p \in Proc, Shuts(p) PROVE OneServe'
  BY <1>t, <1>h, <1>4 DEF Shuts, ShutdownStep, RequestDuringServe, RequestShutdown, ServeFinished,
     ServeWaitExpired, SealTrackers, Transport, NoHandlers, StillActive, ReleaseResources
<1>5. ASSUME NEW p \in Proc, StopStep(p) PROVE OneServe'
  BY <1>t, <1>h, <1>5 DEF StopStep, AfterStop, StopAnswered, StopExpired, StopBegin,
     StopIncomplete, StopAbandoned, StopCompletes
<1>6. ASSUME NEW h \in Handler, HandlerStep(h) PROVE OneServe'
  BY <1>t, <1>h, <1>6 DEF HandlerStep, HandlerBegins, HandlerEnds, UpgradeBegins, TrackHijacked
<1>7. ASSUME NEW p \in Proc, CancelContext(p) PROVE OneServe'
  BY <1>t, <1>h, <1>7 DEF CancelContext
<1>8. ASSUME NEW c \in BOOLEAN, NEW f \in BOOLEAN, AbandonedStopEnds(c, f) PROVE OneServe'
  BY <1>t, <1>h, <1>8 DEF AbandonedStopEnds
<1>9. ASSUME Tick PROVE OneServe'
  BY <1>t, <1>h, <1>9 DEF Tick
<1>. QED BY Families, <1>1, <1>2, <1>3, <1>4, <1>5, <1>6, <1>7, <1>8, <1>9

\* Only the one attempt ends "running", and a nil is handed on only from it.
LEMMA OneAttemptKept == IInv /\ Next => OneAttempt'
<1>. SUFFICES ASSUME IInv, Next PROVE OneAttempt'
  OBVIOUS
<1>. USE DEF OneAttempt, CallShape, Attempts, Stops, Applying, Listening, Draining, Sealing,
     Releases
<1>t. /\ pc \in [Proc -> Point]
      /\ stage \in [Proc -> {"none", "apply", "launch", "drain", "shutdown"}]
      /\ err \in [Proc -> {"nil", "ctx", "err"}]
  BY DEF IInv, TypeOK
<1>h. OneAttempt /\ CallShape
  BY DEF IInv
<1>1. ASSUME NEW p \in Proc, Applies(p) PROVE OneAttempt'
  BY <1>t, <1>h, <1>1 DEF Applies, ApplyStep, CallApplyAll, ApplyCached, Cached, CachedErr,
     ApplyClose, ApplyRuns, ApplyJoins, ApplyWaitExpired, Built, BuildFails, StartAnswered,
     StartExpired, StartBegin, StartSucceeds, StartFails, ApplyEnd, ApplierReturns
<1>2. ASSUME NEW p \in Proc, ServeBegins(p) PROVE OneAttempt'
  BY <1>t, <1>h, <1>2 DEF ServeBegins, ServeRefused, AcquireServing, ServeNotApplied,
     ReleaseServing, MarkServed, Launch, LaunchFails
<1>3. ASSUME NEW p \in Proc, ServeDrains(p) PROVE OneAttempt'
  BY <1>t, <1>h, <1>3 DEF ServeDrains, BeginDrain, DrainServers, DrainServer, Drained,
     HandlersGone, HandlersRemain, StopLifecycle, StopSkipped, ServeEnds, ReleaseServing
<1>4. ASSUME NEW p \in Proc, Shuts(p) PROVE OneAttempt'
  BY <1>t, <1>h, <1>4 DEF Shuts, ShutdownStep, RequestDuringServe, RequestShutdown, ServeFinished,
     ServeWaitExpired, SealTrackers, Transport, NoHandlers, StillActive, ReleaseResources
<1>5. ASSUME NEW p \in Proc, StopStep(p) PROVE OneAttempt'
  BY <1>t, <1>h, <1>5 DEF StopStep, AfterStop, StopAnswered, StopExpired, StopBegin,
     StopIncomplete, StopAbandoned, StopCompletes
<1>6. ASSUME NEW h \in Handler, HandlerStep(h) PROVE OneAttempt'
  BY <1>t, <1>h, <1>6 DEF HandlerStep, HandlerBegins, HandlerEnds, UpgradeBegins, TrackHijacked
<1>7. ASSUME NEW p \in Proc, CancelContext(p) PROVE OneAttempt'
  BY <1>t, <1>h, <1>7 DEF CancelContext
<1>8. ASSUME NEW c \in BOOLEAN, NEW f \in BOOLEAN, AbandonedStopEnds(c, f) PROVE OneAttempt'
  BY <1>t, <1>h, <1>8 DEF AbandonedStopEnds
<1>9. ASSUME Tick PROVE OneAttempt'
  BY <1>t, <1>h, <1>9 DEF Tick
<1>. QED BY Families, <1>1, <1>2, <1>3, <1>4, <1>5, <1>6, <1>7, <1>8, <1>9

\* The lifecycle is busy with one operation, which knows what is open.
LEMMA OneOperationKept == IInv /\ Next => OneOperation'
<1>. SUFFICES ASSUME IInv, Next PROVE OneOperation'
  OBVIOUS
<1>. USE DEF OneOperation, OneAttempt, Attempts
<1>t. /\ pc \in [Proc -> Point]
      /\ stage \in [Proc -> {"none", "apply", "launch", "drain", "shutdown"}]
  BY DEF IInv, TypeOK
<1>h. OneOperation /\ OneAttempt
  BY DEF IInv
<1>1. ASSUME NEW p \in Proc, Applies(p) PROVE OneOperation'
  BY <1>t, <1>h, <1>1 DEF Applies, ApplyStep, CallApplyAll, ApplyCached, Cached, CachedErr,
     ApplyClose, ApplyRuns, ApplyJoins, ApplyWaitExpired, Built, BuildFails, StartAnswered,
     StartExpired, StartBegin, StartSucceeds, StartFails, ApplyEnd, ApplierReturns
<1>2. ASSUME NEW p \in Proc, ServeBegins(p) PROVE OneOperation'
  BY <1>t, <1>h, <1>2 DEF ServeBegins, ServeRefused, AcquireServing, ServeNotApplied,
     ReleaseServing, MarkServed, Launch, LaunchFails
<1>3. ASSUME NEW p \in Proc, ServeDrains(p) PROVE OneOperation'
  BY <1>t, <1>h, <1>3 DEF ServeDrains, BeginDrain, DrainServers, DrainServer, Drained,
     HandlersGone, HandlersRemain, StopLifecycle, StopSkipped, ServeEnds, ReleaseServing
<1>4. ASSUME NEW p \in Proc, Shuts(p) PROVE OneOperation'
  BY <1>t, <1>h, <1>4 DEF Shuts, ShutdownStep, RequestDuringServe, RequestShutdown, ServeFinished,
     ServeWaitExpired, SealTrackers, Transport, NoHandlers, StillActive, ReleaseResources
<1>5. ASSUME NEW p \in Proc, StopStep(p) PROVE OneOperation'
  BY <1>t, <1>h, <1>5 DEF StopStep, AfterStop, StopAnswered, StopExpired, StopBegin,
     StopIncomplete, StopAbandoned, StopCompletes
<1>6. ASSUME NEW h \in Handler, HandlerStep(h) PROVE OneOperation'
  BY <1>t, <1>h, <1>6 DEF HandlerStep, HandlerBegins, HandlerEnds, UpgradeBegins, TrackHijacked
<1>7. ASSUME NEW p \in Proc, CancelContext(p) PROVE OneOperation'
  BY <1>t, <1>h, <1>7 DEF CancelContext
<1>8. ASSUME NEW c \in BOOLEAN, NEW f \in BOOLEAN, AbandonedStopEnds(c, f) PROVE OneOperation'
  BY <1>t, <1>h, <1>8 DEF AbandonedStopEnds
<1>9. ASSUME Tick PROVE OneOperation'
  BY <1>t, <1>h, <1>9 DEF Tick
<1>. QED BY Families, <1>1, <1>2, <1>3, <1>4, <1>5, <1>6, <1>7, <1>8, <1>9

-----------------------------------------------------------------------------
(* Who closes the resources, and when.                                     *)

\* A Shutdown that stops the lifecycle has kept Serve from beginning.
LEMMA SealedFirstKept == IInv /\ Next => SealedFirst'
<1>. SUFFICES ASSUME IInv, Next PROVE SealedFirst'
  OBVIOUS
<1>. USE DEF SealedFirst, CallShape, OneServe, Serves, Callers, Releases, Stops, Applying,
     Listening, Draining, Sealing
<1>t. /\ pc \in [Proc -> Point]
      /\ stage \in [Proc -> {"none", "apply", "launch", "drain", "shutdown"}]
      /\ call \in [Proc -> {"none", "ApplyAll", "Serve", "Shutdown"}]
      /\ ret \in [Proc -> {"none", "nil", "err", "refused"}]
  BY DEF IInv, TypeOK
<1>h. SealedFirst /\ CallShape /\ OneServe
  BY DEF IInv
<1>1. ASSUME NEW p \in Proc, Applies(p) PROVE SealedFirst'
  BY <1>t, <1>h, <1>1 DEF Applies, ApplyStep, CallApplyAll, ApplyCached, Cached, CachedErr,
     ApplyClose, ApplyRuns, ApplyJoins, ApplyWaitExpired, Built, BuildFails, StartAnswered,
     StartExpired, StartBegin, StartSucceeds, StartFails, ApplyEnd, ApplierReturns
<1>2. ASSUME NEW p \in Proc, ServeBegins(p) PROVE SealedFirst'
  BY <1>t, <1>h, <1>2 DEF ServeBegins, ServeRefused, AcquireServing, ServeNotApplied,
     ReleaseServing, MarkServed, Launch, LaunchFails
<1>3. ASSUME NEW p \in Proc, ServeDrains(p) PROVE SealedFirst'
  BY <1>t, <1>h, <1>3 DEF ServeDrains, BeginDrain, DrainServers, DrainServer, Drained,
     HandlersGone, HandlersRemain, StopLifecycle, StopSkipped, ServeEnds, ReleaseServing
<1>4. ASSUME NEW p \in Proc, Shuts(p) PROVE SealedFirst'
  BY <1>t, <1>h, <1>4 DEF Shuts, ShutdownStep, RequestDuringServe, RequestShutdown, ServeFinished,
     ServeWaitExpired, SealTrackers, Transport, NoHandlers, StillActive, ReleaseResources
<1>5. ASSUME NEW p \in Proc, StopStep(p) PROVE SealedFirst'
  BY <1>t, <1>h, <1>5 DEF StopStep, AfterStop, StopAnswered, StopExpired, StopBegin,
     StopIncomplete, StopAbandoned, StopCompletes
<1>6. ASSUME NEW h \in Handler, HandlerStep(h) PROVE SealedFirst'
  BY <1>t, <1>h, <1>6 DEF HandlerStep, HandlerBegins, HandlerEnds, UpgradeBegins, TrackHijacked
<1>7. ASSUME NEW p \in Proc, CancelContext(p) PROVE SealedFirst'
  BY <1>t, <1>h, <1>7 DEF CancelContext
<1>8. ASSUME NEW c \in BOOLEAN, NEW f \in BOOLEAN, AbandonedStopEnds(c, f) PROVE SealedFirst'
  BY <1>t, <1>h, <1>8 DEF AbandonedStopEnds
<1>9. ASSUME Tick PROVE SealedFirst'
  BY <1>t, <1>h, <1>9 DEF Tick
<1>. QED BY Families, <1>1, <1>2, <1>3, <1>4, <1>5, <1>6, <1>7, <1>8, <1>9

\* The resources of an applied application are closed by a Shutdown or by the
\* Serve that is past its listeners.
LEMMA OpenUntilWithdrawnKept == IInv /\ Next => OpenUntilWithdrawn'
<1>. SUFFICES ASSUME IInv, Next PROVE OpenUntilWithdrawn'
  OBVIOUS
<1>. USE DEF OpenUntilWithdrawn, Withdrawn, OneOperation, OneAttempt, OneServe, CallShape,
     SealedFirst, Serves, Callers, Releases, Attempts, Stops, Applying, Listening, Draining,
     Sealing
<1>t. /\ pc \in [Proc -> Point]
      /\ stage \in [Proc -> {"none", "apply", "launch", "drain", "shutdown"}]
      /\ err \in [Proc -> {"nil", "ctx", "err"}]
  BY DEF IInv, TypeOK
<1>h. OpenUntilWithdrawn /\ OneOperation /\ OneAttempt /\ OneServe /\ CallShape /\ SealedFirst
  BY DEF IInv
<1>1. ASSUME NEW p \in Proc, Applies(p) PROVE OpenUntilWithdrawn'
  BY <1>t, <1>h, <1>1 DEF Applies, ApplyStep, CallApplyAll, ApplyCached, Cached, CachedErr,
     ApplyClose, ApplyRuns, ApplyJoins, ApplyWaitExpired, Built, BuildFails, StartAnswered,
     StartExpired, StartBegin, StartSucceeds, StartFails, ApplyEnd, ApplierReturns
<1>2. ASSUME NEW p \in Proc, ServeBegins(p) PROVE OpenUntilWithdrawn'
  BY <1>t, <1>h, <1>2 DEF ServeBegins, ServeRefused, AcquireServing, ServeNotApplied,
     ReleaseServing, MarkServed, Launch, LaunchFails
<1>3. ASSUME NEW p \in Proc, ServeDrains(p) PROVE OpenUntilWithdrawn'
  BY <1>t, <1>h, <1>3 DEF ServeDrains, BeginDrain, DrainServers, DrainServer, Drained,
     HandlersGone, HandlersRemain, StopLifecycle, StopSkipped, ServeEnds, ReleaseServing
<1>4. ASSUME NEW p \in Proc, Shuts(p) PROVE OpenUntilWithdrawn'
  BY <1>t, <1>h, <1>4 DEF Shuts, ShutdownStep, RequestDuringServe, RequestShutdown, ServeFinished,
     ServeWaitExpired, SealTrackers, Transport, NoHandlers, StillActive, ReleaseResources
<1>5. ASSUME NEW p \in Proc, StopStep(p) PROVE OpenUntilWithdrawn'
  BY <1>t, <1>h, <1>5 DEF StopStep, AfterStop, StopAnswered, StopExpired, StopBegin,
     StopIncomplete, StopAbandoned, StopCompletes
<1>6. ASSUME NEW h \in Handler, HandlerStep(h) PROVE OpenUntilWithdrawn'
  BY <1>t, <1>h, <1>6 DEF HandlerStep, HandlerBegins, HandlerEnds, UpgradeBegins, TrackHijacked
<1>7. ASSUME NEW p \in Proc, CancelContext(p) PROVE OpenUntilWithdrawn'
  BY <1>t, <1>h, <1>7 DEF CancelContext
<1>8. ASSUME NEW c \in BOOLEAN, NEW f \in BOOLEAN, AbandonedStopEnds(c, f) PROVE
       OpenUntilWithdrawn'
  BY <1>t, <1>h, <1>8 DEF AbandonedStopEnds
<1>9. ASSUME Tick PROVE OpenUntilWithdrawn'
  BY <1>t, <1>h, <1>9 DEF Tick
<1>. QED BY Families, <1>1, <1>2, <1>3, <1>4, <1>5, <1>6, <1>7, <1>8, <1>9

\* The type of the handlers alone.
LEMMA HandlersTyped ==
  IInv => handler \in [Handler -> {"none", "active", "upgrading", "open", "ended", "rejected"}]
BY DEF IInv, TypeOK

\* No handler begins once the trackers are closed, and none is left when the
\* lifecycle is stopped.
LEMMA NoHandlerLeftKept == IInv /\ Next => NoHandlerLeft'
<1>. SUFFICES ASSUME IInv, Next PROVE NoHandlerLeft'
  OBVIOUS
<1>. USE DEF NoHandlerLeft, CallShape, OneServe, OneAttempt, Attempts, SealedFirst, Releases,
     Serves, Callers, Stops, Applying, Listening, Draining, Sealing
<1>t. /\ pc \in [Proc -> Point]
      /\ stage \in [Proc -> {"none", "apply", "launch", "drain", "shutdown"}]
  BY DEF IInv, TypeOK
<1>h. NoHandlerLeft /\ CallShape /\ OneServe /\ OneAttempt /\ SealedFirst
  BY DEF IInv
<1>a. handler' = handler => Active' = Active
  BY DEF Active
<1>1. ASSUME NEW p \in Proc, Applies(p) PROVE NoHandlerLeft'
  BY <1>t, <1>h, <1>a, <1>1 DEF Applies, ApplyStep, CallApplyAll, ApplyCached, Cached, CachedErr,
     ApplyClose, ApplyRuns, ApplyJoins, ApplyWaitExpired, Built, BuildFails, StartAnswered,
     StartExpired, StartBegin, StartSucceeds, StartFails, ApplyEnd, ApplierReturns
<1>2. ASSUME NEW p \in Proc, ServeBegins(p) PROVE NoHandlerLeft'
  BY <1>t, <1>h, <1>a, <1>2 DEF ServeBegins, ServeRefused, AcquireServing, ServeNotApplied,
     ReleaseServing, MarkServed, Launch, LaunchFails
<1>3. ASSUME NEW p \in Proc, ServeDrains(p) PROVE NoHandlerLeft'
  BY <1>t, <1>h, <1>a, <1>3 DEF ServeDrains, BeginDrain, DrainServers, DrainServer, Drained,
     HandlersGone, HandlersRemain, StopLifecycle, StopSkipped, ServeEnds, ReleaseServing
<1>4. ASSUME NEW p \in Proc, Shuts(p) PROVE NoHandlerLeft'
  BY <1>t, <1>h, <1>a, <1>4 DEF Shuts, ShutdownStep, RequestDuringServe, RequestShutdown,
     ServeFinished, ServeWaitExpired, SealTrackers, Transport, NoHandlers, StillActive,
     ReleaseResources
<1>5. ASSUME NEW p \in Proc, StopStep(p) PROVE NoHandlerLeft'
  BY <1>t, <1>h, <1>a, <1>5 DEF StopStep, AfterStop, StopAnswered, StopExpired, StopBegin,
     StopIncomplete, StopAbandoned, StopCompletes
<1>6. ASSUME NEW h \in Handler, HandlerBegins(h) PROVE NoHandlerLeft'
  <2>1. Transport \subseteq closed => Tracker(h) \in closed
    BY DEF Tracker, Transport, GRPCEnabled
  <2>2. ~ launched => Tracker(h) = "http"
    BY <1>6 DEF HandlerBegins, Reachable, Tracker
  <2>3. Active' # {} => Active # {} \/ Tracker(h) \notin closed
    BY <1>6, HandlersTyped DEF HandlerBegins, Active
  <2>4. Tracker(h) \notin closed =>
          \A p \in Proc : ~ \/ pc[p] \in {"drained", "release"}
                             \/ Stops(p, "drain") \/ Stops(p, "shutdown")
    BY <1>h, <2>1, <2>2 DEF NoHandlerLeft, SealedFirst, CallShape, OneServe, Releases, Serves,
         Callers, Stops, Listening, Draining, Sealing
  <2>. QED BY <1>h, <1>6, <2>3, <2>4 DEF NoHandlerLeft, OneServe, HandlerBegins, Reachable, Stops
<1>7. ASSUME NEW h \in Handler, HandlerEnds(h) PROVE NoHandlerLeft'
  BY <1>t, <1>h, <1>a, <1>7 DEF HandlerEnds
<1>8. ASSUME NEW h \in Handler, UpgradeBegins(h) PROVE NoHandlerLeft'
  <2>1. h \in Active
    BY <1>8 DEF UpgradeBegins, Active
  <2>. QED BY <1>h, <1>8, <2>1 DEF NoHandlerLeft, UpgradeBegins, Stops
<1>9. ASSUME NEW h \in Handler, TrackHijacked(h) PROVE NoHandlerLeft'
  <2>1. h \in Active
    BY <1>9 DEF TrackHijacked, Active
  <2>. QED BY <1>h, <1>9, <2>1 DEF NoHandlerLeft, TrackHijacked, Stops
<1>10. ASSUME NEW p \in Proc, CancelContext(p) PROVE NoHandlerLeft'
  BY <1>t, <1>h, <1>a, <1>10 DEF CancelContext
<1>11. ASSUME NEW c \in BOOLEAN, NEW f \in BOOLEAN, AbandonedStopEnds(c, f) PROVE NoHandlerLeft'
  BY <1>t, <1>h, <1>a, <1>11 DEF AbandonedStopEnds
<1>12. ASSUME Tick PROVE NoHandlerLeft'
  BY <1>t, <1>h, <1>a, <1>12 DEF Tick
<1>. QED BY Families, <1>1, <1>2, <1>3, <1>4, <1>5, <1>6, <1>7, <1>8, <1>9, <1>10, <1>11, <1>12
     DEF HandlerStep

\* A handler that begins finds the resources open, and they stay so.
LEMMA HandlersHaveResourcesKept == IInv /\ Next => HandlersHaveResources'
<1>. SUFFICES ASSUME IInv, Next PROVE HandlersHaveResources'
  OBVIOUS
<1>. USE DEF HandlersHaveResources, NoHandlerLeft, CallShape, OneServe, OneAttempt,
     OneOperation, OpenUntilWithdrawn, Withdrawn, Attempts, Releases, Serves, Callers, Stops,
     Applying, Listening, Draining, Sealing
<1>t. /\ pc \in [Proc -> Point]
      /\ stage \in [Proc -> {"none", "apply", "launch", "drain", "shutdown"}]
  BY DEF IInv, TypeOK
<1>h. HandlersHaveResources /\ NoHandlerLeft /\ CallShape /\ OneServe /\ OneAttempt /\
     OneOperation /\ OpenUntilWithdrawn
  BY DEF IInv
<1>a. handler' = handler => Active' = Active
  BY DEF Active
<1>1. ASSUME NEW p \in Proc, Applies(p) PROVE HandlersHaveResources'
  BY <1>t, <1>h, <1>a, <1>1 DEF Applies, ApplyStep, CallApplyAll, ApplyCached, Cached, CachedErr,
     ApplyClose, ApplyRuns, ApplyJoins, ApplyWaitExpired, Built, BuildFails, StartAnswered,
     StartExpired, StartBegin, StartSucceeds, StartFails, ApplyEnd, ApplierReturns
<1>2. ASSUME NEW p \in Proc, ServeBegins(p) PROVE HandlersHaveResources'
  BY <1>t, <1>h, <1>a, <1>2 DEF ServeBegins, ServeRefused, AcquireServing, ServeNotApplied,
     ReleaseServing, MarkServed, Launch, LaunchFails
<1>3. ASSUME NEW p \in Proc, ServeDrains(p) PROVE HandlersHaveResources'
  BY <1>t, <1>h, <1>a, <1>3 DEF ServeDrains, BeginDrain, DrainServers, DrainServer, Drained,
     HandlersGone, HandlersRemain, StopLifecycle, StopSkipped, ServeEnds, ReleaseServing
<1>4. ASSUME NEW p \in Proc, Shuts(p) PROVE HandlersHaveResources'
  BY <1>t, <1>h, <1>a, <1>4 DEF Shuts, ShutdownStep, RequestDuringServe, RequestShutdown,
     ServeFinished, ServeWaitExpired, SealTrackers, Transport, NoHandlers, StillActive,
     ReleaseResources
<1>5. ASSUME NEW p \in Proc, StopStep(p) PROVE HandlersHaveResources'
  BY <1>t, <1>h, <1>a, <1>5 DEF StopStep, AfterStop, StopAnswered, StopExpired, StopBegin,
     StopIncomplete, StopAbandoned, StopCompletes
<1>6. ASSUME NEW h \in Handler, HandlerBegins(h) PROVE HandlersHaveResources'
  <2>1. Transport \subseteq closed => Tracker(h) \in closed
    BY DEF Tracker, Transport, GRPCEnabled
  <2>2. Active' # {} => Active # {} \/ Tracker(h) \notin closed
    BY <1>6, HandlersTyped DEF HandlerBegins, Active
  <2>3. ASSUME Tracker(h) \notin closed PROVE resources = "on"
    <3>1. CASE launched
      <4>1. PICK s \in Proc : pc[s] = "serve"
        BY <1>h, <2>1, <2>3, <3>1 DEF NoHandlerLeft
      <4>. QED BY <1>h, <3>1, <4>1 DEF CallShape, OneServe, OpenUntilWithdrawn, Withdrawn,
           Serves, Callers, Listening
    <3>2. CASE ~ launched
      <4>1. embedded /\ applyState = "succeeded" /\ Tracker(h) = "http"
        BY <1>6, <3>2 DEF HandlerBegins, Reachable, Tracker
      <4>. QED BY <1>h, <2>3, <4>1 DEF OneServe, OpenUntilWithdrawn, Withdrawn
    <3>. QED BY <3>1, <3>2
  <2>. QED BY <1>h, <1>6, <2>2, <2>3 DEF HandlersHaveResources, HandlerBegins
<1>7. ASSUME NEW h \in Handler, HandlerEnds(h) PROVE HandlersHaveResources'
  BY <1>t, <1>h, <1>a, <1>7 DEF HandlerEnds
<1>8. ASSUME NEW h \in Handler, UpgradeBegins(h) PROVE HandlersHaveResources'
  <2>1. h \in Active
    BY <1>8 DEF UpgradeBegins, Active
  <2>. QED BY <1>h, <1>8, <2>1 DEF HandlersHaveResources, UpgradeBegins
<1>9. ASSUME NEW h \in Handler, TrackHijacked(h) PROVE HandlersHaveResources'
  <2>1. h \in Active
    BY <1>9 DEF TrackHijacked, Active
  <2>. QED BY <1>h, <1>9, <2>1 DEF HandlersHaveResources, TrackHijacked
<1>10. ASSUME NEW p \in Proc, CancelContext(p) PROVE HandlersHaveResources'
  BY <1>t, <1>h, <1>a, <1>10 DEF CancelContext
<1>11. ASSUME NEW c \in BOOLEAN, NEW f \in BOOLEAN, AbandonedStopEnds(c, f) PROVE
       HandlersHaveResources'
  BY <1>t, <1>h, <1>a, <1>11 DEF AbandonedStopEnds
<1>12. ASSUME Tick PROVE HandlersHaveResources'
  BY <1>t, <1>h, <1>a, <1>12 DEF Tick
<1>. QED BY Families, <1>1, <1>2, <1>3, <1>4, <1>5, <1>6, <1>7, <1>8, <1>9, <1>10, <1>11, <1>12
     DEF HandlerStep

\* Draining and releasing announce the sweep first.
LEMMA SweepIsLastKept == IInv /\ Next => SweepIsLast'
<1>. SUFFICES ASSUME IInv, Next PROVE SweepIsLast'
  OBVIOUS
<1>. USE DEF SweepIsLast
<1>t. /\ pc \in [Proc -> Point]
  BY DEF IInv, TypeOK
<1>h. SweepIsLast
  BY DEF IInv
<1>1. ASSUME NEW p \in Proc, Applies(p) PROVE SweepIsLast'
  BY <1>t, <1>h, <1>1 DEF Applies, ApplyStep, CallApplyAll, ApplyCached, Cached, CachedErr,
     ApplyClose, ApplyRuns, ApplyJoins, ApplyWaitExpired, Built, BuildFails, StartAnswered,
     StartExpired, StartBegin, StartSucceeds, StartFails, ApplyEnd, ApplierReturns
<1>2. ASSUME NEW p \in Proc, ServeBegins(p) PROVE SweepIsLast'
  BY <1>t, <1>h, <1>2 DEF ServeBegins, ServeRefused, AcquireServing, ServeNotApplied,
     ReleaseServing, MarkServed, Launch, LaunchFails
<1>3. ASSUME NEW p \in Proc, ServeDrains(p) PROVE SweepIsLast'
  BY <1>t, <1>h, <1>3 DEF ServeDrains, BeginDrain, DrainServers, DrainServer, Drained,
     HandlersGone, HandlersRemain, StopLifecycle, StopSkipped, ServeEnds, ReleaseServing
<1>4. ASSUME NEW p \in Proc, Shuts(p) PROVE SweepIsLast'
  BY <1>t, <1>h, <1>4 DEF Shuts, ShutdownStep, RequestDuringServe, RequestShutdown, ServeFinished,
     ServeWaitExpired, SealTrackers, Transport, NoHandlers, StillActive, ReleaseResources
<1>5. ASSUME NEW p \in Proc, StopStep(p) PROVE SweepIsLast'
  BY <1>t, <1>h, <1>5 DEF StopStep, AfterStop, StopAnswered, StopExpired, StopBegin,
     StopIncomplete, StopAbandoned, StopCompletes
<1>6. ASSUME NEW h \in Handler, HandlerStep(h) PROVE SweepIsLast'
  BY <1>t, <1>h, <1>6 DEF HandlerStep, HandlerBegins, HandlerEnds, UpgradeBegins, TrackHijacked
<1>7. ASSUME NEW p \in Proc, CancelContext(p) PROVE SweepIsLast'
  BY <1>t, <1>h, <1>7 DEF CancelContext
<1>8. ASSUME NEW c \in BOOLEAN, NEW f \in BOOLEAN, AbandonedStopEnds(c, f) PROVE SweepIsLast'
  BY <1>t, <1>h, <1>8 DEF AbandonedStopEnds
<1>9. ASSUME Tick PROVE SweepIsLast'
  BY <1>t, <1>h, <1>9 DEF Tick
<1>. QED BY Families, <1>1, <1>2, <1>3, <1>4, <1>5, <1>6, <1>7, <1>8, <1>9

\* After the sweep, an upgrade is no longer tracked.
LEMMA NoConnectionEscapesKept == IInv /\ Next => NoConnectionEscapes'
<1>. SUFFICES ASSUME IInv, Next PROVE NoConnectionEscapes'
  OBVIOUS
<1>. USE DEF NoConnectionEscapes, SweepIsLast
<1>t. /\ pc \in [Proc -> Point]
  BY DEF IInv, TypeOK
<1>h. NoConnectionEscapes /\ SweepIsLast
  BY DEF IInv
<1>1. ASSUME NEW p \in Proc, Applies(p) PROVE NoConnectionEscapes'
  BY <1>t, <1>h, <1>1 DEF Applies, ApplyStep, CallApplyAll, ApplyCached, Cached, CachedErr,
     ApplyClose, ApplyRuns, ApplyJoins, ApplyWaitExpired, Built, BuildFails, StartAnswered,
     StartExpired, StartBegin, StartSucceeds, StartFails, ApplyEnd, ApplierReturns
<1>2. ASSUME NEW p \in Proc, ServeBegins(p) PROVE NoConnectionEscapes'
  BY <1>t, <1>h, <1>2 DEF ServeBegins, ServeRefused, AcquireServing, ServeNotApplied,
     ReleaseServing, MarkServed, Launch, LaunchFails
<1>3. ASSUME NEW p \in Proc, ServeDrains(p) PROVE NoConnectionEscapes'
  BY <1>t, <1>h, <1>3 DEF ServeDrains, BeginDrain, DrainServers, DrainServer, Drained,
     HandlersGone, HandlersRemain, StopLifecycle, StopSkipped, ServeEnds, ReleaseServing
<1>4. ASSUME NEW p \in Proc, Shuts(p) PROVE NoConnectionEscapes'
  BY <1>t, <1>h, <1>4 DEF Shuts, ShutdownStep, RequestDuringServe, RequestShutdown, ServeFinished,
     ServeWaitExpired, SealTrackers, Transport, NoHandlers, StillActive, ReleaseResources
<1>5. ASSUME NEW p \in Proc, StopStep(p) PROVE NoConnectionEscapes'
  BY <1>t, <1>h, <1>5 DEF StopStep, AfterStop, StopAnswered, StopExpired, StopBegin,
     StopIncomplete, StopAbandoned, StopCompletes
<1>6. ASSUME NEW h \in Handler, HandlerStep(h) PROVE NoConnectionEscapes'
  BY <1>t, <1>h, <1>6 DEF HandlerStep, HandlerBegins, HandlerEnds, UpgradeBegins, TrackHijacked
<1>7. ASSUME NEW p \in Proc, CancelContext(p) PROVE NoConnectionEscapes'
  BY <1>t, <1>h, <1>7 DEF CancelContext
<1>8. ASSUME NEW c \in BOOLEAN, NEW f \in BOOLEAN, AbandonedStopEnds(c, f) PROVE
       NoConnectionEscapes'
  BY <1>t, <1>h, <1>8 DEF AbandonedStopEnds
<1>9. ASSUME Tick PROVE NoConnectionEscapes'
  BY <1>t, <1>h, <1>9 DEF Tick
<1>. QED BY Families, <1>1, <1>2, <1>3, <1>4, <1>5, <1>6, <1>7, <1>8, <1>9

\* Serve ends without an error only after a Stop that had none.
LEMMA ServeOutcomeKept == IInv /\ Next => ServeOutcome'
<1>. SUFFICES ASSUME IInv, Next PROVE ServeOutcome'
  OBVIOUS
<1>. USE DEF ServeOutcome, CallShape, OneServe, OneOperation, Serves, Callers, Stops, Applying,
     Listening, Draining, Sealing, Releases
<1>t. /\ pc \in [Proc -> Point]
      /\ stage \in [Proc -> {"none", "apply", "launch", "drain", "shutdown"}]
      /\ err \in [Proc -> {"nil", "ctx", "err"}]
  BY DEF IInv, TypeOK
<1>h. ServeOutcome /\ CallShape /\ OneServe /\ OneOperation
  BY DEF IInv
<1>1. ASSUME NEW p \in Proc, Applies(p) PROVE ServeOutcome'
  BY <1>t, <1>h, <1>1 DEF Applies, ApplyStep, CallApplyAll, ApplyCached, Cached, CachedErr,
     ApplyClose, ApplyRuns, ApplyJoins, ApplyWaitExpired, Built, BuildFails, StartAnswered,
     StartExpired, StartBegin, StartSucceeds, StartFails, ApplyEnd, ApplierReturns
<1>2. ASSUME NEW p \in Proc, ServeBegins(p) PROVE ServeOutcome'
  BY <1>t, <1>h, <1>2 DEF ServeBegins, ServeRefused, AcquireServing, ServeNotApplied,
     ReleaseServing, MarkServed, Launch, LaunchFails
<1>3. ASSUME NEW p \in Proc, NEW e \in {"nil", "err"}, BeginDrain(p, e) PROVE ServeOutcome'
  BY <1>t, <1>h, <1>3 DEF BeginDrain
<1>4. ASSUME NEW p \in Proc, DrainServers(p) PROVE ServeOutcome'
  BY <1>t, <1>h, <1>4 DEF DrainServers
<1>5. ASSUME NEW p \in Proc, NEW t \in Transport, DrainServer(p, t) PROVE ServeOutcome'
  BY <1>t, <1>h, <1>5 DEF DrainServer
<1>6. ASSUME NEW p \in Proc, Drained(p) PROVE ServeOutcome'
  BY <1>t, <1>h, <1>6 DEF Drained
<1>7. ASSUME NEW p \in Proc, HandlersGone(p) PROVE ServeOutcome'
  BY <1>t, <1>h, <1>7 DEF HandlersGone
<1>8. ASSUME NEW p \in Proc, HandlersRemain(p) PROVE ServeOutcome'
  BY <1>t, <1>h, <1>8 DEF HandlersRemain
<1>9. ASSUME NEW p \in Proc, StopLifecycle(p) PROVE ServeOutcome'
  BY <1>t, <1>h, <1>9 DEF StopLifecycle
<1>10. ASSUME NEW p \in Proc, StopSkipped(p) PROVE ServeOutcome'
  BY <1>t, <1>h, <1>10 DEF StopSkipped
<1>11. ASSUME NEW p \in Proc, NEW f \in BOOLEAN, ServeEnds(p, f) PROVE ServeOutcome'
  <2>1. serving' = FALSE /\ served' = served /\ lc' = lc
        /\ (~ serveErr' => err[p] = "nil")
    BY <1>11 DEF ServeEnds, ReleaseServing, UnchangedByServe
  <2>2. pc[p] = "waitServers" /\ pc' = [pc EXCEPT ![p] = "returned"] /\ err' = [err EXCEPT ![p]
       = "nil"]
    BY <1>11 DEF ServeEnds, ReleaseServing, Return
  <2>. QED BY <1>t, <1>h, <2>1, <2>2 DEF ServeOutcome
<1>12. ASSUME NEW p \in Proc, Shuts(p) PROVE ServeOutcome'
  BY <1>t, <1>h, <1>12 DEF Shuts, ShutdownStep, RequestDuringServe, RequestShutdown,
     ServeFinished, ServeWaitExpired, SealTrackers, Transport, NoHandlers, StillActive,
     ReleaseResources
<1>13. ASSUME NEW p \in Proc, StopStep(p) PROVE ServeOutcome'
  BY <1>t, <1>h, <1>13 DEF StopStep, AfterStop, StopAnswered, StopExpired, StopBegin,
     StopIncomplete, StopAbandoned, StopCompletes
<1>14. ASSUME NEW h \in Handler, HandlerStep(h) PROVE ServeOutcome'
  BY <1>t, <1>h, <1>14 DEF HandlerStep, HandlerBegins, HandlerEnds, UpgradeBegins, TrackHijacked
<1>15. ASSUME NEW p \in Proc, CancelContext(p) PROVE ServeOutcome'
  BY <1>t, <1>h, <1>15 DEF CancelContext
<1>16. ASSUME NEW c \in BOOLEAN, NEW f \in BOOLEAN, AbandonedStopEnds(c, f) PROVE ServeOutcome'
  BY <1>t, <1>h, <1>16 DEF AbandonedStopEnds
<1>17. ASSUME Tick PROVE ServeOutcome'
  BY <1>t, <1>h, <1>17 DEF Tick
<1>. QED BY Families, <1>1, <1>2, <1>3, <1>4, <1>5, <1>6, <1>7, <1>8, <1>9, <1>10, <1>11, <1>12,
     <1>13, <1>14, <1>15, <1>16, <1>17 DEF ServeDrains

\* A nil of Shutdown comes from a lifecycle that is stopped.
LEMMA ShutdownReleasesKept == IInv /\ Next => ShutdownReleases'
<1>. SUFFICES ASSUME IInv, Next PROVE ShutdownReleases'
  OBVIOUS
<1>. USE DEF ShutdownReleases, CallShape, OneServe, OneOperation, SealedFirst, ServeOutcome,
     Serves, Callers, Releases, Stops, Applying, Listening, Draining, Sealing
<1>t. /\ pc \in [Proc -> Point]
      /\ call \in [Proc -> {"none", "ApplyAll", "Serve", "Shutdown"}]
      /\ stage \in [Proc -> {"none", "apply", "launch", "drain", "shutdown"}]
      /\ ret \in [Proc -> {"none", "nil", "err", "refused"}]
  BY DEF IInv, TypeOK
<1>h. ShutdownReleases /\ CallShape /\ OneServe /\ OneOperation /\ SealedFirst /\ ServeOutcome
  BY DEF IInv
<1>1. ASSUME NEW p \in Proc, Applies(p) PROVE ShutdownReleases'
  BY <1>t, <1>h, <1>1 DEF Applies, ApplyStep, CallApplyAll, ApplyCached, Cached, CachedErr,
     ApplyClose, ApplyRuns, ApplyJoins, ApplyWaitExpired, Built, BuildFails, StartAnswered,
     StartExpired, StartBegin, StartSucceeds, StartFails, ApplyEnd, ApplierReturns
<1>2. ASSUME NEW p \in Proc, ServeBegins(p) PROVE ShutdownReleases'
  BY <1>t, <1>h, <1>2 DEF ServeBegins, ServeRefused, AcquireServing, ServeNotApplied,
     ReleaseServing, MarkServed, Launch, LaunchFails
<1>3. ASSUME NEW p \in Proc, ServeDrains(p) PROVE ShutdownReleases'
  BY <1>t, <1>h, <1>3 DEF ServeDrains, BeginDrain, DrainServers, DrainServer, Drained,
     HandlersGone, HandlersRemain, StopLifecycle, StopSkipped, ServeEnds, ReleaseServing
<1>4. ASSUME NEW p \in Proc, Shuts(p) PROVE ShutdownReleases'
  BY <1>t, <1>h, <1>4 DEF Shuts, ShutdownStep, RequestDuringServe, RequestShutdown, ServeFinished,
     ServeWaitExpired, SealTrackers, Transport, NoHandlers, StillActive, ReleaseResources
<1>5. ASSUME NEW p \in Proc, StopStep(p) PROVE ShutdownReleases'
  BY <1>t, <1>h, <1>5 DEF StopStep, AfterStop, StopAnswered, StopExpired, StopBegin,
     StopIncomplete, StopAbandoned, StopCompletes
<1>6. ASSUME NEW h \in Handler, HandlerStep(h) PROVE ShutdownReleases'
  BY <1>t, <1>h, <1>6 DEF HandlerStep, HandlerBegins, HandlerEnds, UpgradeBegins, TrackHijacked
<1>7. ASSUME NEW p \in Proc, CancelContext(p) PROVE ShutdownReleases'
  BY <1>t, <1>h, <1>7 DEF CancelContext
<1>8. ASSUME NEW c \in BOOLEAN, NEW f \in BOOLEAN, AbandonedStopEnds(c, f) PROVE
       ShutdownReleases'
  BY <1>t, <1>h, <1>8 DEF AbandonedStopEnds
<1>9. ASSUME Tick PROVE ShutdownReleases'
  BY <1>t, <1>h, <1>9 DEF Tick
<1>. QED BY Families, <1>1, <1>2, <1>3, <1>4, <1>5, <1>6, <1>7, <1>8, <1>9

-----------------------------------------------------------------------------
(* The theorems.                                                           *)

\* Nothing has happened yet.
LEMMA InitIInv == Init => IInv
<1>. SUFFICES ASSUME Init PROVE IInv
  OBVIOUS
<1>. USE DEF Init, Stops, Releases, Attempts, Serves, Callers, Active
<1>1. TypeOK
  BY DEF TypeOK, Point
<1>2. CallShape /\ OneServe /\ OneAttempt /\ OneOperation
  BY DEF CallShape, OneServe, OneAttempt, OneOperation, Applying, Listening, Draining, Sealing
<1>3. OpenUntilWithdrawn /\ SealedFirst /\ NoHandlerLeft /\ SweepIsLast /\ ServeOutcome
  BY DEF OpenUntilWithdrawn, SealedFirst, NoHandlerLeft, SweepIsLast, ServeOutcome, Draining,
       Sealing
<1>4. HandlersHaveResources /\ NoConnectionEscapes /\ ShutdownReleases
  BY DEF HandlersHaveResources, NoConnectionEscapes, ShutdownReleases
<1>. QED BY <1>1, <1>2, <1>3, <1>4 DEF IInv

\* Every step keeps the invariant.
LEMMA NextIInv == IInv /\ Next => IInv'
<1>. SUFFICES ASSUME IInv, Next PROVE IInv'
  OBVIOUS
<1>1. TypeOK' /\ CallShape' /\ OneServe' /\ OneAttempt' /\ OneOperation'
  BY TypesKept, CallShapeKept, OneServeKept, OneAttemptKept, OneOperationKept
<1>2. OpenUntilWithdrawn' /\ SealedFirst' /\ NoHandlerLeft' /\ SweepIsLast' /\ ServeOutcome'
  BY OpenUntilWithdrawnKept, SealedFirstKept, NoHandlerLeftKept, SweepIsLastKept, ServeOutcomeKept
<1>3. HandlersHaveResources' /\ NoConnectionEscapes' /\ ShutdownReleases'
  BY HandlersHaveResourcesKept, NoConnectionEscapesKept, ShutdownReleasesKept
<1>. QED BY <1>1, <1>2, <1>3 DEF IInv

\* A step that changes nothing keeps it, too.
LEMMA StutterIInv == IInv /\ UNCHANGED vars => IInv'
<1>. SUFFICES ASSUME IInv, UNCHANGED vars PROVE IInv'
  OBVIOUS
<1>. USE DEF vars, Stops, Releases, Attempts, Serves, Callers, Active, Withdrawn
<1>1. TypeOK'
  BY DEF IInv, TypeOK
<1>2. CallShape' /\ OneServe'
  BY DEF IInv, CallShape, OneServe
<1>3. OneAttempt' /\ OneOperation'
  BY DEF IInv, OneAttempt, OneOperation
<1>4. OpenUntilWithdrawn' /\ SealedFirst'
  BY DEF IInv, OpenUntilWithdrawn, SealedFirst
<1>5. NoHandlerLeft' /\ SweepIsLast' /\ ServeOutcome'
  BY DEF IInv, NoHandlerLeft, SweepIsLast, ServeOutcome
<1>6. HandlersHaveResources' /\ NoConnectionEscapes' /\ ShutdownReleases'
  BY DEF IInv, HandlersHaveResources, NoConnectionEscapes, ShutdownReleases
<1>. QED BY <1>1, <1>2, <1>3, <1>4, <1>5, <1>6 DEF IInv

\* The inductive invariant: who serves, applies, stops and handles requests, and
\* how far each of them has come (bear.go:408-727).
THEOREM Invariant == Spec => []IInv
<1>. QED BY InitIInv, NextIInv, StutterIInv, PTL DEF Spec

\* Every variable has its type, and what is tracked is open (runtime.go:108-116).
THEOREM Types == Spec => []TypeOK
<1>1. IInv => TypeOK
  BY DEF IInv
<1>. QED BY <1>1, Invariant, PTL

\* Whoever stops the lifecycle, no running handler loses its resources
\* (bear.go:510-535, 700-727).
THEOREM HandlersServed == Spec => []HandlersHaveResources
<1>1. IInv => HandlersHaveResources
  BY DEF IInv
<1>. QED BY <1>1, Invariant, PTL

\* No connection is left open behind the sweep (runtime.go:103-116,
\* bear.go:1557-1608).
THEOREM NoneEscapes == Spec => []NoConnectionEscapes
<1>1. IInv => NoConnectionEscapes
  BY DEF IInv
<1>. QED BY <1>1, Invariant, PTL

\* After a nil Shutdown of an initialised application all is closed for good
\* (bear.go:668-727).
THEOREM Released == Spec => []ShutdownReleases
<1>1. IInv => ShutdownReleases
  BY DEF IInv
<1>. QED BY <1>1, Invariant, PTL

\* Only Serve binds the listeners.
LEMMA WhoLaunches == Next => launched' = launched \/ \E s \in Proc : Launch(s)
<1>. SUFFICES ASSUME Next PROVE launched' = launched \/ \E s \in Proc : Launch(s)
  OBVIOUS
<1>1. ASSUME NEW p \in Proc, Applies(p) PROVE launched' = launched
  BY <1>1 DEF Applies, ApplyStep, CallApplyAll, ApplyCached, ApplyClose, ApplyRuns, ApplyJoins,
     ApplyWaitExpired, Built, BuildFails, StartAnswered, StartExpired, StartBegin,
     StartSucceeds, StartFails, ApplyEnd, ApplierReturns
<1>2. ASSUME NEW p \in Proc, ServeBegins(p) PROVE launched' = launched \/ Launch(p)
  BY <1>2 DEF ServeBegins, ServeRefused, AcquireServing, ServeNotApplied, ReleaseServing,
     MarkServed, LaunchFails
<1>3. ASSUME NEW p \in Proc, ServeDrains(p) PROVE launched' = launched
  BY <1>3 DEF ServeDrains, BeginDrain, DrainServers, DrainServer, Drained, HandlersGone,
     HandlersRemain, StopLifecycle, StopSkipped, ServeEnds, ReleaseServing
<1>4. ASSUME NEW p \in Proc, Shuts(p) PROVE launched' = launched
  BY <1>4 DEF Shuts, ShutdownStep, RequestDuringServe, RequestShutdown, ServeFinished,
     ServeWaitExpired, SealTrackers, NoHandlers, StillActive, ReleaseResources
<1>5. ASSUME NEW p \in Proc, StopStep(p) PROVE launched' = launched
  BY <1>5 DEF StopStep, AfterStop, StopAnswered, StopExpired, StopBegin, StopIncomplete,
     StopAbandoned, StopCompletes
<1>6. ASSUME NEW h \in Handler, HandlerStep(h) PROVE launched' = launched
  BY <1>6 DEF HandlerStep, HandlerBegins, HandlerEnds, UpgradeBegins, TrackHijacked
<1>7. ASSUME NEW p \in Proc, CancelContext(p) PROVE launched' = launched
  BY <1>7 DEF CancelContext
<1>8. ASSUME NEW c \in BOOLEAN, NEW f \in BOOLEAN, AbandonedStopEnds(c, f) PROVE launched' =
     launched
  BY <1>8 DEF AbandonedStopEnds
<1>9. ASSUME Tick PROVE launched' = launched
  BY <1>9 DEF Tick
<1>. QED BY Families, <1>1, <1>2, <1>3, <1>4, <1>5, <1>6, <1>7, <1>8, <1>9

\* The listeners are bound once, and on open resources (bear.go:615-630, 681):
\* a Serve about to do so is the only one, and nobody has withdrawn the
\* application before.
THEOREM BoundOnce == Spec => BindsWithResources
<1>1. ASSUME IInv, Next, launched' # launched PROVE resources = "on" /\ ~ launched
  <2>1. PICK s \in Proc : Launch(s)
    BY <1>1, WhoLaunches
  <2>2. pc[s] = "launch" /\ s \in Serves
    BY <1>1, <2>1 DEF Launch, IInv, CallShape, Serves, Callers, Listening
  <2>3. serving /\ ~ launched /\ served /\ applyState = "succeeded"
    BY <1>1, <2>2 DEF IInv, OneServe, Listening
  <2>. QED BY <1>1, <2>2, <2>3 DEF IInv, OpenUntilWithdrawn, Withdrawn
<1>2. IInv /\ [Next]_vars => [launched' # launched => resources = "on" /\ ~ launched]_vars
  BY <1>1
<1>. QED BY <1>2, Invariant, PTL DEF Spec, BindsWithResources
=============================================================================
