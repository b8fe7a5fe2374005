----------------------------- MODULE Components -----------------------------
(***************************************************************************)
(* The components that share no state with one another, side by side.      *)
(*                                                                         *)
(* Each has a module of its own, with its variables, Init and Next.  Their *)
(* product would only multiply interleavings of steps that commute, so a   *)
(* behaviour is about one of them: focus says which, and the others keep   *)
(* one initial state.                                                      *)
(***************************************************************************)
EXTENDS Build, Container, LifecycleCompat, Fairings, PluginRoutes, Readiness,
        HealthWatch, Facade, WebSockets, AgentRuns, Generation, CronLock,
        Limiter, Records, Configuration, Authorization, GinMode

VARIABLE focus   \* the component that this behaviour is about

Foci == {"build", "container", "compat", "fairings", "plugins", "readiness",
         "watch", "facade", "sockets", "runs", "generation", "cron",
         "limiter", "records", "configuration", "authorization", "gin"}

startup == <<buildVars, containerVars, compatVars, facadeVars, configVars,
             ginVars>>
requests == <<fairingVars, pluginVars, readinessVars, watchVars, socketVars,
              authorizationVars>>
services == <<runsVars, cronVars, limiterVars, recordVars, generationVars>>

componentVars == <<startup, requests, services, focus>>

(* Where an initial state is not unique, the one a component out of focus  *)
(* keeps.                                                                  *)
OutOfFocus ==
    /\ focus # "container" => strictBeans
    /\ focus # "generation" => project
    /\ focus # "configuration" => environment = [bear |-> "", gin |-> Absent]
    /\ focus # "limiter" => failClosed

Init ==
    /\ focus \in Foci
    /\ BuildInit /\ ContainerInit /\ CompatInit /\ FacadeInit /\ ConfigInit
    /\ GinModeInit
    /\ FairingInit /\ PluginInit /\ ReadinessInit /\ WatchInit /\ SocketsInit
    /\ AuthorizationInit
    /\ RunsInit /\ CronInit /\ LimiterInit /\ RecordsInit /\ GenerationInit
    /\ OutOfFocus

-----------------------------------------------------------------------------
StartupNext ==
    /\ \/ /\ focus = "build" /\ BuildNext
          /\ UNCHANGED <<containerVars, compatVars, facadeVars, configVars,
                         ginVars>>
       \/ /\ focus = "container" /\ ContainerNext
          /\ UNCHANGED <<buildVars, compatVars, facadeVars, configVars,
                         ginVars>>
       \/ /\ focus = "compat" /\ CompatNext
          /\ UNCHANGED <<buildVars, containerVars, facadeVars, configVars,
                         ginVars>>
       \/ /\ focus = "facade" /\ FacadeNext
          /\ UNCHANGED <<buildVars, containerVars, compatVars, configVars,
                         ginVars>>
       \/ /\ focus = "configuration" /\ ConfigNext
          /\ UNCHANGED <<buildVars, containerVars, compatVars, facadeVars,
                         ginVars>>
       \/ /\ focus = "gin" /\ GinModeNext
          /\ UNCHANGED <<buildVars, containerVars, compatVars, facadeVars,
                         configVars>>
    /\ UNCHANGED <<requests, services, focus>>

RequestNext ==
    /\ \/ /\ focus = "fairings" /\ FairingNext
          /\ UNCHANGED <<pluginVars, readinessVars, watchVars, socketVars,
                         authorizationVars>>
       \/ /\ focus = "plugins" /\ PluginNext
          /\ UNCHANGED <<fairingVars, readinessVars, watchVars, socketVars,
                         authorizationVars>>
       \/ /\ focus = "readiness" /\ ReadinessNext
          /\ UNCHANGED <<fairingVars, pluginVars, watchVars, socketVars,
                         authorizationVars>>
       \/ /\ focus = "watch" /\ WatchNext
          /\ UNCHANGED <<fairingVars, pluginVars, readinessVars, socketVars,
                         authorizationVars>>
       \/ /\ focus = "sockets" /\ SocketsNext
          /\ UNCHANGED <<fairingVars, pluginVars, readinessVars, watchVars,
                         authorizationVars>>
       \/ /\ focus = "authorization" /\ AuthorizationNext
          /\ UNCHANGED <<fairingVars, pluginVars, readinessVars, watchVars,
                         socketVars>>
    /\ UNCHANGED <<startup, services, focus>>

ServiceNext ==
    /\ \/ /\ focus = "runs" /\ RunsNext
          /\ UNCHANGED <<cronVars, limiterVars, recordVars, generationVars>>
       \/ /\ focus = "cron" /\ CronNext
          /\ UNCHANGED <<runsVars, limiterVars, recordVars, generationVars>>
       \/ /\ focus = "limiter" /\ LimiterNext
          /\ UNCHANGED <<runsVars, cronVars, recordVars, generationVars>>
       \/ /\ focus = "records" /\ RecordsNext
          /\ UNCHANGED <<runsVars, cronVars, limiterVars, generationVars>>
       \/ /\ focus = "generation" /\ GenerationNext
          /\ UNCHANGED <<runsVars, cronVars, limiterVars, recordVars>>
    /\ UNCHANGED <<startup, requests, focus>>

Next == StartupNext \/ RequestNext \/ ServiceNext

(* Goroutines run: one that loads a plugin, closes registration or builds; *)
(* a run, whose model and tools return once their context has ended; an    *)
(* HTTP handler, whose socket has deadlines; a health watch.  Nothing      *)
(* obliges anyone to call, and no context need end.                        *)
Fairness ==
    /\ WF_buildVars(focus = "build" /\ Loads)
    /\ WF_buildVars(focus = "build" /\ Builds)
    /\ \A a \in Appliers : WF_buildVars(focus = "build" /\ Closes(a))
    /\ \A r \in Requests : WF_runsVars(focus = "runs" /\ RunStep(r))
    /\ \A r \in Requests : WF_runsVars(focus = "runs" /\ HandlerStep(r))
    /\ \A w \in Watches : WF_watchVars(focus = "watch" /\ WatchRuns(w))

Spec == Init /\ [][Next]_componentVars /\ Fairness

-----------------------------------------------------------------------------
(* Every component's variables have the values its code can give them, and *)
(* the invariants hold by which each keeps its promises step by step.      *)
ComponentsIInv ==
    /\ BuildIInv /\ ContainerIInv /\ CompatIInv /\ FacadeIInv
    /\ ConfigIInv /\ FairingIInv /\ PluginIInv /\ ReadinessIInv /\ WatchIInv
    /\ SocketsIInv /\ AuthorizationIInv /\ RunsIInv /\ CronIInv
    /\ LimiterIInv /\ RecordsIInv /\ GenerationIInv /\ GinModeIInv

(* The container's beans and what the lifecycle starts and stops agree     *)
(* (ComponentsMatchBeans), and a strict container that reports no conflict *)
(* holds one instance per type (OneInstancePerType).                       *)
ContainerConsistent == ComponentsMatchBeans /\ OneInstancePerType

(* A request meets the fairings of its route around its handler            *)
(* (FairingsBracketHandler), and among plugin routes the handler that the  *)
(* registered routes decide, whatever was loaded, reloaded or removed      *)
(* before (DispatchByRankOnly).                                            *)
RequestsReachTheirHandler == FairingsBracketHandler /\ DispatchByRankOnly

(* What the application tells of its health is what it knows: readiness    *)
(* checks are shared and not stale (ChecksSharedAndFresh), a gRPC health   *)
(* watch sleeps only on the status it has sent (NoChangeMissed).           *)
HealthIsCurrent == ChecksSharedAndFresh /\ NoChangeMissed

(* A loaded production configuration is safe (ProductionLoadsSafely), and  *)
(* access that was withdrawn is refused (WithdrawnIsRefused).              *)
AccessIsGuarded == ProductionLoadsSafely /\ WithdrawnIsRefused

(* A user's slots are the live runs (SlotsAreRuns), and a stream that ends *)
(* with "done" carried the whole answer (DoneCarriesEverything).           *)
RunsAccounted == SlotsAreRuns /\ DoneCarriesEverything

(* Generators that race, fail and die leave a project whose registry       *)
(* compiles (RegistryCompiles), lose nothing they reported as generated    *)
(* (GeneratedIsKept) and never mix up the versions of migrations           *)
(* (MigrationsStayApart).                                                  *)
ProjectIntact == RegistryCompiles /\ GeneratedIsKept /\ MigrationsStayApart

(* What several actors share is changed by its owner only, or within its   *)
(* limit: the cron key (RunningHoldsKey), the rate (AdmissionsBounded), a  *)
(* row (NoUpdateLost), connection slots (SlotsAreConnections), the default *)
(* facade (NewestLiveIsLoaded), gin's mode (GinModeKept), and the order in *)
(* which compatibility mode shuts components down (StrictlyLIFO).          *)
SharedStateOwned ==
    /\ RunningHoldsKey /\ AdmissionsBounded /\ NoUpdateLost
    /\ SlotsAreConnections /\ NewestLiveIsLoaded /\ GinModeKept
    /\ StrictlyLIFO

(* Runs end and free their slot (RunsEnd), and a health watch ends with    *)
(* the drain (WatchesEndWithDrain), though clients may leave at any time.  *)
StreamsEnd == RunsEnd /\ WatchesEndWithDrain
=============================================================================
