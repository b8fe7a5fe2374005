--------------------------- MODULE ComponentsProofs ---------------------------
(***************************************************************************)
(* What the components promise, as theorems of the specification that sets *)
(* them side by side.  Each component's own invariant holds at the start   *)
(* and is kept by its steps: BuildProofs, ServiceProofs and                *)
(* SharedStateProofs say so.  The steps of the others leave its variables  *)
(* alone (ItsOwnSteps).                                                    *)
(***************************************************************************)
EXTENDS Components, BuildProofs, ServiceProofs, SharedStateProofs

\* A step is a component's own or leaves its variables as they are.
LEMMA ItsOwnSteps ==
  ASSUME [Next]_componentVars
  PROVE  /\ [BuildNext]_buildVars /\ [ContainerNext]_containerVars
         /\ [CompatNext]_compatVars /\ [ConfigNext]_configVars /\ [GinModeNext]_ginVars
         /\ [FairingNext]_fairingVars /\ [PluginNext]_pluginVars
         /\ [ReadinessNext]_readinessVars /\ [WatchNext]_watchVars /\ [SocketsNext]_socketVars
         /\ [AuthorizationNext]_authorizationVars
         /\ [RunsNext]_runsVars /\ [CronNext]_cronVars /\ [LimiterNext]_limiterVars
         /\ [RecordsNext]_recordVars /\ [FacadeNext]_facadeVars
         /\ [GenerationNext]_generationVars
<1>1. CASE StartupNext
  BY <1>1 DEF StartupNext, requests, services
<1>2. CASE RequestNext
  BY <1>2 DEF RequestNext, startup, services
<1>3. CASE ServiceNext
  BY <1>3 DEF ServiceNext, startup, requests
<1>4. CASE UNCHANGED componentVars
  BY <1>4 DEF componentVars, startup, requests, services
<1>. QED BY <1>1, <1>2, <1>3, <1>4 DEF Next

\* Each component's variables have the values its code can give them, and
\* the invariant by which it keeps its promises holds.
THEOREM ComponentsKept == Spec => []ComponentsIInv
<1>1. Init => ComponentsIInv
  BY BuildStarts, ContainerStarts, CompatStarts, FacadeStarts, ConfigStarts, GinModeStarts,
     FairingStarts, PluginStarts, ReadinessStarts, WatchStarts, SocketsStart,
     AuthorizationStarts, RunsStart, CronStarts, LimiterStarts, RecordsStart,
     GenerationStarts, Zenon
     DEF Init, ComponentsIInv
<1>2. ComponentsIInv /\ [Next]_componentVars => ComponentsIInv'
  <2>. SUFFICES ASSUME ComponentsIInv, [Next]_componentVars PROVE ComponentsIInv'
    OBVIOUS
  <2>1. BuildIInv' /\ ContainerIInv' /\ CompatIInv' /\ FacadeIInv' /\ ConfigIInv' /\ GinModeIInv'
    BY ItsOwnSteps, BuildKept, ContainerKept, CompatKept, FacadeKept, ConfigKept, GinModeStays
       DEF ComponentsIInv
  <2>2. FairingIInv' /\ PluginIInv' /\ ReadinessIInv' /\ WatchIInv' /\ SocketsIInv'
        /\ AuthorizationIInv'
    BY ItsOwnSteps, FairingKept, PluginKept, ReadinessKept, WatchKept, SocketsKept,
       AuthorizationKept
       DEF ComponentsIInv
  <2>3. RunsIInv' /\ CronIInv' /\ LimiterIInv' /\ RecordsIInv' /\ GenerationIInv'
    BY ItsOwnSteps, RunsKept, CronKept, LimiterKept, RecordsKept, GenerationKept
       DEF ComponentsIInv
  <2>. QED BY <2>1, <2>2, <2>3 DEF ComponentsIInv
<1>. QED BY <1>1, <1>2, PTL DEF Spec

-----------------------------------------------------------------------------
\* Modules and controllers are built at most once, and all of them when the
\* application is sealed, with every bean injected that entered the container,
\* unless one was taken out directly since the snapshot
\* (buildStrictApplication, PluginManager.Load).
THEOREM SealedWhole == Spec => []SealedMeansBuilt
<1>1. ComponentsIInv => SealedMeansBuilt
  BY DEF ComponentsIInv, BuildIInv
<1>. QED BY <1>1, ComponentsKept, PTL

\* The lifecycle starts and stops the container's beans, each once, whatever
\* was set, replaced, removed or added by hand before; and a strict container
\* that reports no conflict holds one instance of each type, under every key
\* (registerLocked, trySetBatchStrict, TryRemove, Lifecycle.setBeanLocked).
THEOREM ContainerAgrees == Spec => []ContainerConsistent
<1>1. ComponentsIInv => ContainerConsistent
  BY ContainerHolds DEF ComponentsIInv, ContainerConsistent
<1>. QED BY <1>1, ComponentsKept, PTL

\* A request meets the fairings of every stage of its chain before its
\* handler and answers through them in reverse, each once; and the plugin
\* route that serves a path is the one of highest rank among those that are
\* registered, in whatever order they came and went (requestFairingE,
\* dynamicDispatcher.match).
THEOREM HandlerReached == Spec => []RequestsReachTheirHandler
<1>1. ComponentsIInv => RequestsReachTheirHandler
  BY FairingsBracket, DispatchFollows DEF ComponentsIInv, RequestsReachTheirHandler
<1>. QED BY <1>1, ComponentsKept, PTL

\* A readiness answer comes from a check that ran after it was asked for, or
\* is the fault the check ran into; a health watch does not sleep through a
\* change (readinessCoordinator.check, grpcRuntimeHealthServer.Watch).
THEOREM HealthTold == Spec => []HealthIsCurrent
<1>1. ComponentsIInv => HealthIsCurrent
  BY DEF ComponentsIInv, ReadinessIInv, WatchIInv, HealthIsCurrent
<1>. QED BY <1>1, ComponentsKept, PTL

\* A production configuration that loads is safe, and a token or a permission
\* that was withdrawn no longer opens anything (LoadSysConfigE, RequireAuth,
\* SQLAuthorizer.Can).
THEOREM AccessWithdrawn == Spec => []AccessIsGuarded
<1>1. ComponentsIInv => AccessIsGuarded
  BY DEF ComponentsIInv, ConfigIInv, AuthorizationIInv, AccessIsGuarded
<1>. QED BY <1>1, ComponentsKept, PTL

\* A user's slots are the runs under way, and a stream that reports "done" has
\* carried every delta (concurrencyGate, Runner.Run, streamRun).
THEOREM RunsCounted == Spec => []RunsAccounted
<1>1. ComponentsIInv => RunsAccounted
  BY DEF ComponentsIInv, RunsIInv, RunsAccounted
<1>. QED BY <1>1, ComponentsKept, PTL

\* What several actors share is changed by its owner only, or within its
\* limit, however their steps interleave.
THEOREM SharedStateGuarded == Spec => []SharedStateOwned
<1>1. ComponentsIInv => RunningHoldsKey /\ NoUpdateLost /\ SlotsAreConnections /\ NewestLiveIsLoaded
                    /\ GinModeKept /\ StrictlyLIFO
  BY DEF ComponentsIInv, CronIInv, RecordsIInv, SocketsIInv, FacadeIInv, GinModeIInv, CompatIInv
<1>2. ComponentsIInv => AdmissionsBounded
  BY LimiterBounds DEF ComponentsIInv
<1>3. ComponentsIInv => SharedStateOwned
  BY <1>1, <1>2 DEF SharedStateOwned
<1>. QED BY <1>3, ComponentsKept, PTL

\* Whatever commands run, fail or die, in any order: the registry lists only
\* APIs that are on disk, what was reported as generated stays there with both
\* directions of its migration, and no two APIs share a migration version
\* (executePlan, register, writeResourceMigration, acquireGenerationLock).
THEOREM ProjectKept == Spec => []ProjectIntact
<1>1. ComponentsIInv => ProjectIntact
  BY DEF ComponentsIInv, GenerationIInv, ProjectIntact
<1>. QED BY <1>1, ComponentsKept, PTL
=============================================================================
