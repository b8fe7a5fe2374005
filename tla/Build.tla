------------------------------- MODULE Build -------------------------------
(***************************************************************************)
(* The strict build of an application (pkg/bear/bear.go, plugin.go).       *)
(*                                                                         *)
(* ApplyAll first closes plugin registration and waits for the loads under *)
(* way, then builds in rounds: every module and mounted controller that    *)
(* was registered since the last round is injected and built, and what     *)
(* their Build registers is left to the next round.  A round after which   *)
(* nothing is left takes a snapshot, injects every bean without the        *)
(* registration lock, and seals only if nothing was registered meanwhile.  *)
(* Other goroutines register beans, modules, controllers and routes, or    *)
(* change the bean container directly, until the seal.                     *)
(*                                                                         *)
(* A Build method is abstracted to the set of objects it registers and to  *)
(* whether it succeeds; an injection to the beans it needs.                *)
(***************************************************************************)
EXTENDS Naturals, Sequences, FiniteSets

CONSTANTS
  Modules,      \* modules of the program and of its plugins
  Plugins,      \* those that PluginManager.Load brings
  Mounts,       \* mounted controllers, which are beans too
  Beans,        \* the other beans
  ModuleBeans,  \* [Modules -> SUBSET Beans], a module's Beans()
  BuildCalls,   \* what a module's or controller's Build registers
  Needs,        \* the beans that the injection of an object resolves
  Appliers,     \* goroutines that call ApplyAll
  RoundLimit,   \* strictBuildRoundLimit
  ModuleLimit   \* bound on the number of registered modules

Objects == Modules \cup Mounts \cup Beans

ASSUME BuildAssumption ==
  /\ IsFiniteSet(Objects) /\ Plugins \subseteq Modules
  /\ ModuleBeans \in [Modules -> SUBSET Beans]
  /\ BuildCalls \in [Modules \cup Mounts -> SUBSET (Objects \ Plugins)]
  /\ Needs \in [Objects -> SUBSET Beans]
  /\ RoundLimit \in Nat \ {0}

VARIABLES
  container,     \* instances held by the BeanFactory
  modules,       \* Bear.modules, with what became of each
  mounts,        \* Bear.mounts
  builtUpTo,     \* strictBuiltModules and strictBuiltMounts
  moved,         \* strictRegistrationVersion moved since the snapshot, if there is one
  injected,      \* objects whose dependencies have been filled in
  applied,       \* strictInjectionApplied, the cache of the build session
  registration,  \* "open", "sealed" or, after a failed build, "stopped"
  gate,          \* pluginRegistrationBarrier
  load,          \* the plugin load that holds PluginManager.mu
  applier,       \* where each ApplyAll caller is
  build,         \* the build of the caller that runs it
  removedSince,  \* history: a bean was taken out of the container between snapshot and count
  late           \* history: beans set directly between the count and the seal

registryVars == <<container, modules, mounts, moved>>
buildVars == <<container, modules, mounts, builtUpTo, moved, injected, applied,
               registration, gate, load, applier, build, removedSince, late>>

(* An entry of Bear.modules: how often its Build succeeded, and whether it  *)
(* is in strictPluginModules.                                               *)
ModuleEntry(m) == [mod |-> m, builds |-> 0, plugin |-> FALSE]
MountEntry(c) == [class |-> c, builds |-> 0]

BuildSteps == {"off", "modules", "build", "mark", "mounts", "mountBuild", "markMounts",
               "snapshot", "inject", "count", "seal", "sealed", "failed"}

BuildTypeOK ==
  /\ container \subseteq Objects /\ injected \subseteq Objects /\ applied \subseteq Objects
  /\ modules \in Seq([mod : Modules, builds : Nat, plugin : BOOLEAN])
  /\ mounts \in Seq([class : Mounts, builds : Nat])
  /\ builtUpTo \in [modules : 0..Len(modules), mounts : 0..Len(mounts)]
  /\ moved \in BOOLEAN /\ removedSince \in BOOLEAN /\ late \subseteq Beans
  /\ registration \in {"open", "sealed", "stopped"}
  /\ gate \in [registrations : 0..1, blocked : BOOLEAN, transition : BOOLEAN]
  /\ load \in [at : {"idle", "begun", "added", "ready", "built", "marked"},
               mod : Plugins \cup {"none"}]
  /\ load.at # "idle" => load.mod \in Plugins
  /\ applier \in [Appliers -> {"idle", "closing", "draining", "closed",
                               "building", "done", "expired"}]
  /\ build \in [at : BuildSteps, round : 0..RoundLimit, next : Nat, end : Nat, count : Nat]

BuildInit ==
  /\ container = {} /\ modules = <<>> /\ mounts = <<>>
  /\ builtUpTo = [modules |-> 0, mounts |-> 0]
  /\ moved = TRUE /\ injected = {} /\ applied = {}
  /\ registration = "open"
  /\ gate = [registrations |-> 0, blocked |-> FALSE, transition |-> FALSE]
  /\ load = [at |-> "idle", mod |-> "none"]
  /\ applier = [a \in Appliers |-> "idle"]
  /\ build = [at |-> "off", round |-> 0, next |-> 0, end |-> 0, count |-> 0]
  /\ removedSince = FALSE /\ late = {}

-----------------------------------------------------------------------------
(* Registration *)

BeansOf(S) == (S \cap Beans) \cup (S \cap Mounts)
              \cup UNION {ModuleBeans[m] : m \in S \cap Modules}

(* Some order of a finite set (SetToSeq of SequencesExt, whose Cardinality   *)
(* no theorem is about).                                                   *)
InSomeOrder(S) == CHOOSE f \in [1..Cardinality(S) -> S] :
                    \A i, j \in 1..Cardinality(S) : i # j => f[i] # f[j]

NewModules(S) == LET found == InSomeOrder(S \cap Modules)
                 IN [i \in DOMAIN found |-> ModuleEntry(found[i])]
NewMounts(S) == LET found == InSomeOrder(S \cap Mounts)
                IN [i \in DOMAIN found |-> MountEntry(found[i])]

(* AddModuleE, MountE and BeansE: the beans enter the container as one      *)
(* batch, then the metadata is published, all under the registration lock. *)
Register(S) ==
  /\ container' = container \cup BeansOf(S)
  /\ modules' = modules \o NewModules(S)
  /\ mounts' = mounts \o NewMounts(S)
  /\ moved' = TRUE

IsRegistered(x) ==
  \/ x \in container
  \/ \E i \in DOMAIN modules : modules[i].mod = x

(* What the Build of a module or controller adds to what is registered. *)
Calls(x) == {y \in BuildCalls[x] : ~IsRegistered(y)}

(* eRegistrationMu, which sealStableStrictBuild holds from its count to the  *)
(* seal; every other registration step is one critical section of it.      *)
RegistrationLockFree == build.at # "seal"

(* Another goroutine calls BeansE, MountE or AddModuleE. *)
UserRegisters(x) ==
  /\ registration = "open" /\ RegistrationLockFree
  /\ x \notin Plugins /\ ~IsRegistered(x)
  /\ Len(modules) < ModuleLimit
  /\ Register({x})
  /\ UNCHANGED <<builtUpTo, injected, applied, registration, gate, load, applier, build,
                 removedSince, late>>

(* Another goroutine registers a route, a group or middleware. *)
UserRoutes ==
  /\ registration = "open" /\ RegistrationLockFree
  /\ moved' = TRUE
  /\ UNCHANGED <<container, modules, mounts, builtUpTo, injected, applied, registration,
                 gate, load, applier, build, removedSince, late>>

(* BeanFactory.TrySet and TryRemove, which the registration version does   *)
(* not count and the registration lock does not hold off.                  *)
SetsDirectly(b) ==
  /\ registration = "open"
  /\ b \notin container
  /\ container' = container \cup {b}
  /\ late' = IF build.at = "seal" THEN late \cup {b} ELSE late
  /\ UNCHANGED <<modules, mounts, builtUpTo, moved, injected, applied, registration, gate,
                 load, applier, build, removedSince>>

RemovesDirectly(b) ==
  /\ registration = "open"
  /\ b \in container
  /\ container' = container \ {b}
  /\ removedSince' = (removedSince \/ build.at \in {"inject", "count"})
  /\ UNCHANGED <<modules, mounts, builtUpTo, moved, injected, applied, registration, gate,
                 load, applier, build, late>>

-----------------------------------------------------------------------------
(* Injection *)

Injectable(S) == \A x \in S : Needs[x] \subseteq container

(* applyStrictObject during the build: what the session has applied is not  *)
(* applied again.                                                          *)
Apply(S) == Injectable(S \ applied) /\ injected' = injected \cup S /\ applied' = applied \cup S
ApplyFails(S) == ~Injectable(S \ applied)

-----------------------------------------------------------------------------
(* PluginManager.Load, serialized by PluginManager.mu *)

LoadEnds == /\ load' = [at |-> "idle", mod |-> "none"]
            /\ gate' = [gate EXCEPT !.registrations = @ - 1]

(* beginPluginRegistration: refused, without effect, once the barrier is    *)
(* blocked; the lifecycle it looks at first closes registration only later. *)
LoadBegins(p) ==
  /\ load.at = "idle" /\ registration = "open" /\ ~gate.blocked
  /\ Len(modules) < ModuleLimit
  /\ load' = [at |-> "begun", mod |-> p]
  /\ gate' = [gate EXCEPT !.registrations = @ + 1]
  /\ UNCHANGED <<registryVars, builtUpTo, injected, applied, registration, applier, build,
                 removedSince, late>>

LoadAdds ==
  /\ load.at = "begun"
  /\ Register({load.mod})
  /\ load' = [load EXCEPT !.at = "added"]
  /\ UNCHANGED <<builtUpTo, injected, applied, registration, gate, applier, build,
                 removedSince, late>>

(* The module, then every bean of the container; there is no session. *)
LoadInjects ==
  /\ load.at = "added"
  /\ IF Injectable({load.mod} \cup container)
       THEN /\ injected' = injected \cup {load.mod} \cup container
            /\ load' = [load EXCEPT !.at = "ready"]
            /\ UNCHANGED gate
       ELSE LoadEnds /\ UNCHANGED injected
  /\ UNCHANGED <<registryVars, builtUpTo, applied, registration, applier, build,
                 removedSince, late>>

PositionOf(m) == CHOOSE i \in DOMAIN modules :
                   modules[i].mod = m /\ \A j \in DOMAIN modules : modules[j].mod = m => j <= i

(* Build may fail after any part of its registrations; they stay.          *)
LoadBuilds ==
  /\ load.at = "ready"
  /\ \/ /\ \E S \in SUBSET Calls(load.mod) : Register(S)
        /\ LoadEnds
     \/ /\ container' = container \cup BeansOf(Calls(load.mod))
        /\ modules' = [modules EXCEPT ![PositionOf(load.mod)].builds = @ + 1]
                      \o NewModules(Calls(load.mod))
        /\ mounts' = mounts \o NewMounts(Calls(load.mod))
        /\ moved' = TRUE
        /\ load' = [load EXCEPT !.at = "built"]
        /\ UNCHANGED gate
  /\ UNCHANGED <<builtUpTo, injected, applied, registration, applier, build, removedSince, late>>

(* markStrictPluginModuleBuilt: the newest entry of this module. *)
LoadMarks ==
  /\ load.at = "built"
  /\ modules' = [modules EXCEPT ![PositionOf(load.mod)].plugin = TRUE]
  /\ load' = [load EXCEPT !.at = "marked"]
  /\ UNCHANGED <<container, mounts, moved, builtUpTo, injected, applied, registration, gate,
                 applier, build, removedSince, late>>

LoadReturns ==
  /\ load.at = "marked"
  /\ LoadEnds
  /\ UNCHANGED <<registryVars, builtUpTo, injected, applied, registration, applier, build,
                 removedSince, late>>

-----------------------------------------------------------------------------
(* ApplyAll: closing plugin registration *)

AppliesUnchanged == UNCHANGED <<registryVars, builtUpTo, injected, applied, registration, load,
                                removedSince, late>>

ApplyCalled(a) ==
  /\ applier[a] = "idle"
  /\ applier' = [applier EXCEPT ![a] = "closing"]
  /\ UNCHANGED <<gate, build>> /\ AppliesUnchanged

(* While another call closes registration this one waits, then looks again. *)
CloseRegistration(a) ==
  /\ applier[a] = "closing" /\ ~gate.transition
  /\ IF gate.blocked
       THEN applier' = [applier EXCEPT ![a] = "closed"] /\ UNCHANGED gate
       ELSE /\ applier' = [applier EXCEPT ![a] = "draining"]
            /\ gate' = [gate EXCEPT !.blocked = TRUE, !.transition = TRUE]
  /\ UNCHANGED build /\ AppliesUnchanged

CloseDrained(a) ==
  /\ applier[a] = "draining" /\ gate.registrations = 0
  /\ gate' = [gate EXCEPT !.transition = FALSE]
  /\ applier' = [applier EXCEPT ![a] = "closed"]
  /\ UNCHANGED build /\ AppliesUnchanged

(* A caller waits for another to close registration, for the loads, or for  *)
(* the result of the caller that builds.                                   *)
Waits(a) ==
  \/ applier[a] \in {"closing", "draining"}
  \/ applier[a] = "closed" /\ build.at \notin {"off", "sealed", "failed"}

CloseExpiresBlocked(a) ==
  /\ Waits(a)
  /\ gate' = gate
  /\ applier' = [applier EXCEPT ![a] = "expired"]
  /\ UNCHANGED build /\ AppliesUnchanged

(* Its context ends first; where this call was closing registration, it is *)
(* open again.                                                             *)
CloseExpires(a) ==
  /\ Waits(a)
  /\ gate' = IF applier[a] = "draining"
               THEN [gate EXCEPT !.blocked = FALSE, !.transition = FALSE] ELSE gate
  /\ applier' = [applier EXCEPT ![a] = "expired"]
  /\ UNCHANGED build /\ AppliesUnchanged

(* The first caller builds, the others get its result. *)
ApplyStarts(a) ==
  /\ applier[a] = "closed"
  /\ IF build.at = "off"
       THEN /\ applier' = [applier EXCEPT ![a] = "building"]
            /\ build' = [build EXCEPT !.at = "modules", !.round = 1]
       ELSE /\ build.at \in {"sealed", "failed"}
            /\ applier' = [applier EXCEPT ![a] = "done"]
            /\ UNCHANGED build
  /\ UNCHANGED gate /\ AppliesUnchanged

-----------------------------------------------------------------------------
(* buildStrictApplication *)

Building(step) == build.at = step

(* applyAll rolls a failed build back with Lifecycle.Stop, which closes     *)
(* registration for good.                                                  *)
BuildEnds(how) == build' = [at |-> how, round |-> 0, next |-> 0, end |-> 0, count |-> 0]

BuildFails ==
  /\ BuildEnds("failed")
  /\ registration' = "stopped"
  /\ applied' = {}
  /\ UNCHANGED injected

(* Its context has ended before a round, a module or a controller. *)
BuildExpires ==
  /\ \/ build.at = "modules"
     \/ build.at \in {"build", "mountBuild"} /\ build.next <= build.end
  /\ BuildFails
  /\ UNCHANGED <<registryVars, builtUpTo, gate, load, applier, removedSince, late>>

TakesModules ==
  /\ Building("modules")
  /\ build' = [build EXCEPT !.at = "build", !.next = builtUpTo.modules + 1, !.end = Len(modules)]
  /\ UNCHANGED <<registryVars, builtUpTo, injected, applied, registration, gate, load, applier,
                 removedSince, late>>

(* The batch was copied with its plugin marks; a plugin's module is done. *)
SkipsModule ==
  /\ Building("build") /\ build.next <= build.end
  /\ modules[build.next].plugin
  /\ build' = [build EXCEPT !.next = @ + 1]
  /\ UNCHANGED <<registryVars, builtUpTo, injected, applied, registration, gate, load, applier,
                 removedSince, late>>

BuildsModule ==
  /\ Building("build") /\ build.next <= build.end
  /\ ~modules[build.next].plugin
  /\ LET m == modules[build.next].mod
     IN \/ /\ Apply({m} \cup container)
           /\ container' = container \cup BeansOf(Calls(m))
           /\ modules' = [modules EXCEPT ![build.next].builds = @ + 1] \o NewModules(Calls(m))
           /\ mounts' = mounts \o NewMounts(Calls(m))
           /\ moved' = TRUE
           /\ build' = [build EXCEPT !.next = @ + 1]
           /\ UNCHANGED registration
        \/ ApplyFails({m} \cup container) /\ BuildFails /\ UNCHANGED registryVars
  /\ UNCHANGED <<builtUpTo, gate, load, applier, removedSince, late>>

(* A module's or a controller's BuildE returns an error, or panics; or the  *)
(* WebSocket policy is refused before the seal.                            *)
BuildErrs ==
  /\ \/ build.at \in {"build", "mountBuild"} /\ build.next <= build.end
     \/ build.at = "count"
  /\ BuildFails
  /\ UNCHANGED <<registryVars, builtUpTo, gate, load, applier, removedSince, late>>

MarksModules ==
  /\ Building("build") /\ build.next > build.end
  /\ builtUpTo' = [builtUpTo EXCEPT !.modules = build.end]
  /\ build' = [build EXCEPT !.at = "mark", !.next = 0, !.end = 0]
  /\ UNCHANGED <<registryVars, injected, applied, registration, gate, load, applier,
                 removedSince, late>>

InjectsBeforeControllers ==
  /\ Building("mark")
  /\ \/ Apply(container) /\ build' = [build EXCEPT !.at = "mounts"] /\ UNCHANGED registration
     \/ ApplyFails(container) /\ BuildFails
  /\ UNCHANGED <<registryVars, builtUpTo, gate, load, applier, removedSince, late>>

TakesMounts ==
  /\ Building("mounts")
  /\ build' = [build EXCEPT !.at = "mountBuild", !.next = builtUpTo.mounts + 1,
                            !.end = Len(mounts)]
  /\ UNCHANGED <<registryVars, builtUpTo, injected, applied, registration, gate, load, applier,
                 removedSince, late>>

(* buildControllerE *)
BuildsController ==
  /\ Building("mountBuild") /\ build.next <= build.end
  /\ LET c == mounts[build.next].class
     IN \/ /\ Apply({c})
           /\ container' = container \cup BeansOf(Calls(c))
           /\ modules' = modules \o NewModules(Calls(c))
           /\ mounts' = [mounts EXCEPT ![build.next].builds = @ + 1] \o NewMounts(Calls(c))
           /\ moved' = TRUE
           /\ build' = [build EXCEPT !.next = @ + 1]
           /\ UNCHANGED registration
        \/ ApplyFails({c}) /\ BuildFails /\ UNCHANGED registryVars
  /\ UNCHANGED <<builtUpTo, gate, load, applier, removedSince, late>>

MarksMounts ==
  /\ Building("mountBuild") /\ build.next > build.end
  /\ builtUpTo' = [builtUpTo EXCEPT !.mounts = build.end]
  /\ build' = [build EXCEPT !.at = "snapshot", !.next = 0, !.end = 0]
  /\ UNCHANGED <<registryVars, injected, applied, registration, gate, load, applier,
                 removedSince, late>>

NothingPending == builtUpTo = [modules |-> Len(modules), mounts |-> Len(mounts)]

(* The next round, or ErrBuildRegistrationLoop after the last one. *)
NextRound ==
  IF build.round < RoundLimit
    THEN /\ build' = [build EXCEPT !.at = "modules", !.round = @ + 1, !.count = 0]
         /\ UNCHANGED <<registration, injected, applied>>
    ELSE BuildFails

TakesSnapshot ==
  /\ Building("snapshot")
  /\ IF NothingPending
       THEN /\ build' = [build EXCEPT !.at = "inject", !.count = Cardinality(container)]
            /\ moved' = FALSE /\ removedSince' = FALSE
            /\ UNCHANGED <<registration, injected, applied>>
       ELSE NextRound /\ UNCHANGED <<moved, removedSince>>
  /\ UNCHANGED <<container, modules, mounts, builtUpTo, gate, load, applier, late>>

(* injectStrictBeans, without the registration lock. *)
InjectsBeans ==
  /\ Building("inject")
  /\ \/ Apply(container) /\ build' = [build EXCEPT !.at = "count"] /\ UNCHANGED registration
     \/ ApplyFails(container) /\ BuildFails
  /\ UNCHANGED <<registryVars, builtUpTo, gate, load, applier, removedSince, late>>

UndisturbedByVersion == NothingPending /\ ~moved

Undisturbed == NothingPending /\ ~moved /\ Cardinality(container) = build.count

(* sealStableStrictBuild, first half: the counts are compared, the beans'   *)
(* under the container's lock, which is given back.                        *)
CountsBeans ==
  /\ Building("count")
  /\ IF Undisturbed
       THEN /\ build' = [build EXCEPT !.at = "seal"]
            /\ UNCHANGED <<registration, injected, applied>>
       ELSE NextRound
  /\ UNCHANGED <<registryVars, builtUpTo, gate, load, applier, removedSince, late>>

(* Second half: sealRegistration. *)
Seals ==
  /\ Building("seal")
  /\ registration' = "sealed"
  /\ BuildEnds("sealed")
  /\ applied' = {}
  /\ UNCHANGED <<registryVars, builtUpTo, injected, gate, load, applier, removedSince, late>>

ApplyReturns(a) ==
  /\ applier[a] = "building" /\ build.at \in {"sealed", "failed"}
  /\ applier' = [applier EXCEPT ![a] = "done"]
  /\ UNCHANGED <<gate, build>> /\ AppliesUnchanged

-----------------------------------------------------------------------------
Loads == LoadAdds \/ LoadInjects \/ LoadBuilds \/ LoadMarks \/ LoadReturns

Closes(a) == CloseRegistration(a) \/ CloseDrained(a) \/ ApplyStarts(a) \/ ApplyReturns(a)

Builds == TakesModules \/ SkipsModule \/ BuildsModule \/ MarksModules
          \/ InjectsBeforeControllers \/ TakesMounts \/ BuildsController \/ MarksMounts
          \/ TakesSnapshot \/ InjectsBeans \/ CountsBeans \/ Seals

BuildNext ==
  \/ \E x \in Objects : UserRegisters(x)
  \/ UserRoutes
  \/ \E b \in Beans : SetsDirectly(b) \/ RemovesDirectly(b)
  \/ \E p \in Plugins : LoadBegins(p)
  \/ Loads
  \/ \E a \in Appliers : ApplyCalled(a) \/ Closes(a) \/ CloseExpires(a)
  \/ BuildExpires \/ BuildErrs
  \/ Builds

-----------------------------------------------------------------------------
(* Each registered module and controller is built at most once, by its      *)
(* plugin load or by the build rounds, whatever was registered while they   *)
(* ran; and when sealStableStrictBuild has closed registration, each has    *)
(* been built and no bean entered the container without being injected.     *)
(* The bean count stands in for direct changes of the container, and the    *)
(* container is not locked from the count to the seal: excused are a bean   *)
(* taken out between snapshot and count, and beans set after the count.     *)
SealedMeansBuilt ==
  /\ \A i \in DOMAIN modules : modules[i].builds <= 1
  /\ \A i \in DOMAIN mounts : mounts[i].builds <= 1
  /\ build.at = "sealed" =>
       /\ \A i \in DOMAIN modules : modules[i].builds = 1
       /\ \A i \in DOMAIN mounts : mounts[i].builds = 1
       /\ removedSince \/ container \ late \subseteq injected

(* Whoever holds registration closed: loads are under way only until the     *)
(* barrier is blocked and drained, and the build begins after that.        *)
LoadsBeforeBuild ==
  /\ load.at = "idle" <=> gate.registrations = 0
  /\ gate.transition => gate.blocked
  /\ gate.blocked /\ ~gate.transition => gate.registrations = 0
  /\ \A a \in Appliers : applier[a] = "draining" =>
       gate.transition /\ \A b \in Appliers : applier[b] = "draining" => a = b
  /\ \A a \in Appliers : applier[a] \in {"closed", "building"} => gate.blocked /\ ~gate.transition
  /\ build.at # "off" => gate.blocked /\ ~gate.transition
  /\ registration = "open" <=> build.at \notin {"sealed", "failed"}

IsNewest(p, m) == /\ p \in DOMAIN modules /\ modules[p].mod = m
                  /\ \A j \in DOMAIN modules : modules[j].mod = m => j <= p

(* The module that is loaded has an entry of its own, the newest of its     *)
(* module, which the load alone builds and then marks as a plugin's.       *)
LoadHasEntry ==
  /\ load.at \in {"added", "ready"} =>
       \E p \in DOMAIN modules : /\ IsNewest(p, load.mod)
                                 /\ modules[p].builds = 0 /\ ~modules[p].plugin
  /\ load.at = "built" =>
       \E p \in DOMAIN modules : IsNewest(p, load.mod) /\ modules[p].builds = 1

ModulesDone == IF build.at = "build" THEN build.next - 1 ELSE builtUpTo.modules
MountsDone == IF build.at = "mountBuild" THEN build.next - 1 ELSE builtUpTo.mounts

(* Entries are built in order, each once; beyond those done only what a     *)
(* plugin's load has built itself.                                         *)
BuiltInOrder ==
  /\ \A i \in DOMAIN modules :
       /\ modules[i].plugin => modules[i].builds = 1
       /\ i <= ModulesDone => modules[i].builds = 1
       /\ build.at # "failed" /\ i > ModulesDone /\ modules[i].builds # 0 =>
            \/ modules[i].plugin
            \/ load.at = "built" /\ IsNewest(i, load.mod)
  /\ \A i \in DOMAIN mounts :
       /\ i <= MountsDone => mounts[i].builds = 1
       /\ build.at # "failed" /\ i > MountsDone => mounts[i].builds = 0
  /\ build.at = "build" => /\ builtUpTo.modules < build.next
                           /\ build.next <= build.end + 1 /\ build.end <= Len(modules)
  /\ build.at = "mountBuild" => /\ builtUpTo.mounts < build.next
                                /\ build.next <= build.end + 1 /\ build.end <= Len(mounts)

(* Between snapshot and count the container has only grown, unless a bean   *)
(* was taken out; what entered it after the injection makes it larger than  *)
(* counted, and what enters it after the count is late.  The registration   *)
(* lock keeps the registries as the count found them.                      *)
CountTells ==
  /\ build.at \in {"inject", "count"} /\ ~removedSince => Cardinality(container) >= build.count
  /\ build.at = "count" /\ ~removedSince =>
       container \subseteq injected \/ Cardinality(container) > build.count
  /\ build.at = "seal" => NothingPending /\ (removedSince \/ container \ late \subseteq injected)
  /\ build.at \notin {"seal", "sealed"} => late = {}

BuildIInv ==
  BuildTypeOK /\ LoadsBeforeBuild /\ LoadHasEntry /\ BuiltInOrder /\ CountTells /\ SealedMeansBuilt

(* An ApplyAll call comes back, with contexts that never end: the loads it  *)
(* waits for come to an end because no new one may begin, and registration  *)
(* that never stops while it builds is cut off by the round limit.          *)
ApplyAllReturns ==
  \A a \in Appliers : applier[a] = "closing" ~> applier[a] \in {"done", "expired"}
=============================================================================
