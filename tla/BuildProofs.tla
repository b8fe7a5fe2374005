----------------------------- MODULE BuildProofs -----------------------------
(***************************************************************************)
(* Proofs about the strict build: BuildIInv holds at the start and is kept *)
(* by every step, whatever the modules, the plugins, what their Build      *)
(* registers, and who calls ApplyAll.                                      *)
(*                                                                         *)
(* The argument goes in four parts, each a conjunct of BuildFacts.  The    *)
(* barrier keeps plugin loads and the build apart (GateKept).  Whatever is *)
(* registered comes at the end of the registries, not built (AddsEntries), *)
(* so that the build rounds meet entries that only a plugin's load may     *)
(* have built (LoadKeepsEntries, BuildKeepsEntries).  And a container that *)
(* was not made smaller shows by its size that nothing entered it after    *)
(* the injection (CountKept).                                              *)
(***************************************************************************)
EXTENDS Build, FiniteSetTheorems, TLAPS

-----------------------------------------------------------------------------
(* What registration adds.                                                 *)

ModuleType == [mod : Modules, builds : Nat, plugin : BOOLEAN]
MountType == [class : Mounts, builds : Nat]

\* A finite set can be listed.
LEMMA Listed ==
  ASSUME NEW S, IsFiniteSet(S)
  PROVE  /\ Cardinality(S) \in Nat
         /\ InSomeOrder(S) \in [1..Cardinality(S) -> S]
<1>1. Cardinality(S) \in Nat /\ ExistsBijection(1..Cardinality(S), S)
  BY FS_CardinalityType
<1>2. PICK f : f \in Bijection(1..Cardinality(S), S)
  BY <1>1 DEF ExistsBijection
<1>3. /\ f \in [1..Cardinality(S) -> S]
      /\ \A i, j \in 1..Cardinality(S) : i # j => f[i] # f[j]
  BY <1>2 DEF Bijection, Injection, Surjection, IsInjective
<1>. QED BY <1>1, <1>3 DEF InSomeOrder

\* A registration appends entries of what it registers, none of them built.
LEMMA NewEntries ==
  ASSUME NEW S \in SUBSET Objects
  PROVE  /\ NewModules(S) \in Seq(ModuleType)
         /\ \A i \in 1..Len(NewModules(S)) :
              /\ NewModules(S)[i].builds = 0 /\ ~NewModules(S)[i].plugin
              /\ NewModules(S)[i].mod \in S
         /\ NewMounts(S) \in Seq(MountType)
         /\ \A i \in 1..Len(NewMounts(S)) : NewMounts(S)[i].builds = 0
<1>1. IsFiniteSet(S \cap Modules) /\ IsFiniteSet(S \cap Mounts)
  <2>1. S \cap Modules \subseteq Objects /\ S \cap Mounts \subseteq Objects
    OBVIOUS
  <2>. QED BY <2>1, BuildAssumption, FS_Subset
<1>2. ASSUME NEW f, NEW n \in Nat, f \in [1..n -> S \cap Modules],
             NEW N, N = [i \in DOMAIN f |-> ModuleEntry(f[i])]
      PROVE  /\ N \in Seq(ModuleType)
             /\ \A i \in 1..Len(N) : N[i].builds = 0 /\ ~N[i].plugin /\ N[i].mod \in S
  <2>1. DOMAIN f = 1..n /\ \A i \in 1..n : f[i] \in Modules /\ f[i] \in S
    BY <1>2
  <2>2. \A i \in 1..n : /\ ModuleEntry(f[i]) \in ModuleType
                        /\ ModuleEntry(f[i]).builds = 0 /\ ~ModuleEntry(f[i]).plugin
                        /\ ModuleEntry(f[i]).mod \in S
    BY <2>1 DEF ModuleEntry, ModuleType
  <2>3. N \in [1..n -> ModuleType] /\ N \in Seq(ModuleType) /\ Len(N) = n
    BY <1>2, <2>1, <2>2
  <2>. QED BY <1>2, <2>1, <2>2, <2>3
<1>3. ASSUME NEW f, NEW n \in Nat, f \in [1..n -> S \cap Mounts],
             NEW N, N = [i \in DOMAIN f |-> MountEntry(f[i])]
      PROVE  N \in Seq(MountType) /\ \A i \in 1..Len(N) : N[i].builds = 0
  <2>1. DOMAIN f = 1..n /\ \A i \in 1..n : f[i] \in Mounts
    BY <1>3
  <2>2. \A i \in 1..n : MountEntry(f[i]) \in MountType /\ MountEntry(f[i]).builds = 0
    BY <2>1 DEF MountEntry, MountType
  <2>3. N \in [1..n -> MountType] /\ N \in Seq(MountType) /\ Len(N) = n
    BY <1>3, <2>1, <2>2
  <2>. QED BY <1>3, <2>1, <2>2, <2>3
<1>4. /\ Cardinality(S \cap Modules) \in Nat
      /\ InSomeOrder(S \cap Modules) \in [1..Cardinality(S \cap Modules) -> S \cap Modules]
  BY <1>1, Listed
<1>5. /\ Cardinality(S \cap Mounts) \in Nat
      /\ InSomeOrder(S \cap Mounts) \in [1..Cardinality(S \cap Mounts) -> S \cap Mounts]
  BY <1>1, Listed
<1>6. /\ NewModules(S) \in Seq(ModuleType)
      /\ \A i \in 1..Len(NewModules(S)) :
           /\ NewModules(S)[i].builds = 0 /\ ~NewModules(S)[i].plugin
           /\ NewModules(S)[i].mod \in S
  BY <1>2, <1>4 DEF NewModules
<1>7. /\ NewMounts(S) \in Seq(MountType)
      /\ \A i \in 1..Len(NewMounts(S)) : NewMounts(S)[i].builds = 0
  BY <1>3, <1>5 DEF NewMounts
<1>. QED BY <1>6, <1>7

\* A module registered alone has one entry.
LEMMA OneEntry ==
  ASSUME NEW m \in Modules
  PROVE  Len(NewModules({m})) = 1 /\ NewModules({m}) \in Seq(ModuleType)
<1>1. {m} \cap Modules = {m} /\ Cardinality({m}) = 1 /\ IsFiniteSet({m})
  BY FS_Singleton
<1>2. InSomeOrder({m}) \in [1..1 -> {m}]
  BY <1>1, Listed
<1>3. DOMAIN NewModules({m}) = 1..1 /\ NewModules({m}) = [i \in 1..1 |-> ModuleEntry(InSomeOrder({m})[i])]
  BY <1>1, <1>2 DEF NewModules
<1>4. NewModules({m}) \in Seq(ModuleType)
  <2>1. {m} \in SUBSET Objects
    BY DEF Objects
  <2>. QED BY <2>1, NewEntries
<1>. QED BY <1>3, <1>4

\* Appending to a sequence leaves its elements where they are.
LEMMA Appended ==
  ASSUME NEW T, NEW s \in Seq(T), NEW t \in Seq(T)
  PROVE  /\ s \o t \in Seq(T)
         /\ Len(s \o t) = Len(s) + Len(t) /\ Len(s) \in Nat /\ Len(t) \in Nat
         /\ \A i \in 1..Len(s) : (s \o t)[i] = s[i]
         /\ \A i \in 1..Len(s \o t) : i > Len(s) => /\ i - Len(s) \in 1..Len(t)
                                                   /\ (s \o t)[i] = t[i - Len(s)]
<1>1. Len(s) \in Nat /\ Len(t) \in Nat /\ s \o t \in Seq(T) /\ Len(s \o t) = Len(s) + Len(t)
  OBVIOUS
<1>. QED BY <1>1

\* The registries begin with ms and mt; what follows concerns modules of Q
\* and is not built.
Adds(ms, mt, Q) ==
  /\ container \subseteq container' /\ container' \subseteq Objects
  /\ modules' \in Seq(ModuleType) /\ mounts' \in Seq(MountType)
  /\ Len(modules') \in Nat /\ Len(ms) \in Nat /\ Len(ms) <= Len(modules')
  /\ Len(mounts') \in Nat /\ Len(mt) \in Nat /\ Len(mt) <= Len(mounts')
  /\ \A i \in 1..Len(ms) : i \in 1..Len(modules') /\ modules'[i] = ms[i]
  /\ \A i \in 1..Len(mt) : i \in 1..Len(mounts') /\ mounts'[i] = mt[i]
  /\ \A i \in 1..Len(modules') : i > Len(ms) => /\ modules'[i].builds = 0 /\ ~modules'[i].plugin
                                                /\ modules'[i].mod \in Q
  /\ \A i \in 1..Len(mounts') : i > Len(mt) => mounts'[i].builds = 0

\* Beans are objects.
LEMMA BeansAreObjects == ASSUME NEW S \in SUBSET Objects PROVE BeansOf(S) \subseteq Objects
BY BuildAssumption DEF BeansOf, Objects

\* What Register leaves after entries that keep their place.
LEMMA AddsEntries ==
  ASSUME NEW S \in SUBSET Objects, NEW ms \in Seq(ModuleType), NEW mt \in Seq(MountType),
         container \subseteq Objects, container' = container \cup BeansOf(S),
         modules' = ms \o NewModules(S), mounts' = mt \o NewMounts(S)
  PROVE  Adds(ms, mt, S)
<1>1. container \subseteq container' /\ container' \subseteq Objects
  BY BeansAreObjects
<1>2. NewModules(S) \in Seq(ModuleType) /\ NewMounts(S) \in Seq(MountType)
  BY NewEntries
<1>3. /\ ms \o NewModules(S) \in Seq(ModuleType)
      /\ Len(ms \o NewModules(S)) = Len(ms) + Len(NewModules(S))
      /\ Len(ms) \in Nat /\ Len(NewModules(S)) \in Nat
      /\ \A i \in 1..Len(ms) : (ms \o NewModules(S))[i] = ms[i]
      /\ \A i \in 1..Len(ms \o NewModules(S)) :
           i > Len(ms) => /\ i - Len(ms) \in 1..Len(NewModules(S))
                          /\ (ms \o NewModules(S))[i] = NewModules(S)[i - Len(ms)]
  BY <1>2, Appended
<1>4. /\ mt \o NewMounts(S) \in Seq(MountType)
      /\ Len(mt \o NewMounts(S)) = Len(mt) + Len(NewMounts(S))
      /\ Len(mt) \in Nat /\ Len(NewMounts(S)) \in Nat
      /\ \A i \in 1..Len(mt) : (mt \o NewMounts(S))[i] = mt[i]
      /\ \A i \in 1..Len(mt \o NewMounts(S)) :
           i > Len(mt) => /\ i - Len(mt) \in 1..Len(NewMounts(S))
                          /\ (mt \o NewMounts(S))[i] = NewMounts(S)[i - Len(mt)]
  BY <1>2, Appended
<1>5. \A i \in 1..Len(modules') : i > Len(ms) =>
        modules'[i].builds = 0 /\ ~modules'[i].plugin /\ modules'[i].mod \in S
  <2>. HIDE DEF Objects
  <2>. QED BY SMTT(30), <1>3, NewEntries
<1>6. \A i \in 1..Len(mounts') : i > Len(mt) => mounts'[i].builds = 0
  BY <1>4, NewEntries
<1>7. Len(modules') \in Nat /\ Len(ms) <= Len(modules') /\ \A i \in 1..Len(ms) : i \in 1..Len(modules')
  BY <1>3
<1>8. Len(mounts') \in Nat /\ Len(mt) <= Len(mounts') /\ \A i \in 1..Len(mt) : i \in 1..Len(mounts')
  BY <1>4
<1>. QED BY <1>1, <1>3, <1>4, <1>5, <1>6, <1>7, <1>8 DEF Adds

\* An entry's count goes up by one and nothing else changes.
LEMMA CountedUp ==
  ASSUME NEW ms \in Seq(ModuleType), NEW i \in 1..Len(ms),
         NEW ms2, ms2 = [ms EXCEPT ![i].builds = @ + 1]
  PROVE  /\ ms2 \in Seq(ModuleType) /\ Len(ms2) = Len(ms)
         /\ ms2[i].builds = ms[i].builds + 1 /\ ms2[i].mod = ms[i].mod
         /\ ms2[i].plugin = ms[i].plugin
         /\ \A j \in 1..Len(ms) : ms2[j].mod = ms[j].mod /\ (j # i => ms2[j] = ms[j])
<1>1. ms[i] \in ModuleType /\ \A j \in 1..Len(ms) : ms[j] \in ModuleType
  OBVIOUS
<1>2. [ms[i] EXCEPT !.builds = @ + 1] \in ModuleType
  BY SMTT(30), <1>1 DEF ModuleType
<1>3. ms2 \in Seq(ModuleType) /\ Len(ms2) = Len(ms) /\ ms2[i] = [ms[i] EXCEPT !.builds = @ + 1]
      /\ \A j \in 1..Len(ms) : j # i => ms2[j] = ms[j]
  BY <1>2
<1>. QED BY <1>1, <1>3 DEF ModuleType

\* The same of a mounted controller.
LEMMA MountCountedUp ==
  ASSUME NEW mt \in Seq(MountType), NEW i \in 1..Len(mt),
         NEW mt2, mt2 = [mt EXCEPT ![i].builds = @ + 1]
  PROVE  /\ mt2 \in Seq(MountType) /\ Len(mt2) = Len(mt)
         /\ mt2[i].builds = mt[i].builds + 1
         /\ \A j \in 1..Len(mt) : j # i => mt2[j] = mt[j]
<1>1. mt[i] \in MountType
  OBVIOUS
<1>2. [mt[i] EXCEPT !.builds = @ + 1] \in MountType
  BY <1>1 DEF MountType
<1>3. mt2 \in Seq(MountType) /\ Len(mt2) = Len(mt) /\ mt2[i] = [mt[i] EXCEPT !.builds = @ + 1]
      /\ \A j \in 1..Len(mt) : j # i => mt2[j] = mt[j]
  BY <1>2
<1>. QED BY <1>1, <1>3 DEF MountType

-----------------------------------------------------------------------------
(* The barrier, the loads and the callers.                                 *)

ControlType ==
  /\ moved \in BOOLEAN /\ removedSince \in BOOLEAN /\ late \subseteq Beans
  /\ registration \in {"open", "sealed", "stopped"}
  /\ gate \in [registrations : 0..1, blocked : BOOLEAN, transition : BOOLEAN]
  /\ load \in [at : {"idle", "begun", "added", "ready", "built", "marked"},
               mod : Plugins \cup {"none"}]
  /\ load.at # "idle" => load.mod \in Plugins
  /\ applier \in [Appliers -> {"idle", "closing", "draining", "closed",
                               "building", "done", "expired"}]
  /\ build \in [at : BuildSteps, round : 0..RoundLimit, next : Nat, end : Nat, count : Nat]

RegistryType ==
  /\ container \subseteq Objects /\ injected \subseteq Objects /\ applied \subseteq Objects
  /\ modules \in Seq(ModuleType) /\ Len(modules) \in Nat
  /\ mounts \in Seq(MountType) /\ Len(mounts) \in Nat
  /\ builtUpTo \in [modules : 0..Len(modules), mounts : 0..Len(mounts)]

\* The type invariant in two parts.
LEMMA BuildTypes == BuildTypeOK <=> ControlType /\ RegistryType
BY DEF BuildTypeOK, ControlType, RegistryType, ModuleType, MountType

\* The same after a step.
LEMMA BuildTypesNext == ControlType' /\ RegistryType' => BuildTypeOK'
BY BuildTypes, PTL

GateFacts == ControlType /\ LoadsBeforeBuild

\* A step of the build moves it on, or ends it and closes registration.
MovesOn == /\ build.at \notin {"off", "sealed", "failed"} /\ build'.at \notin {"off", "sealed", "failed"}
           /\ registration' = registration
Concludes == /\ build.at \notin {"off", "sealed", "failed"}
             /\ \/ build'.at = "failed" /\ registration' = "stopped"
                \/ build'.at = "sealed" /\ registration' = "sealed"

BuildType == [at : BuildSteps, round : 0..RoundLimit, next : Nat, end : Nat, count : Nat]

\* The container is finite, so its beans can be counted.
LEMMA Countable ==
  ASSUME container \subseteq Objects
  PROVE  IsFiniteSet(container) /\ Cardinality(container) \in Nat
<1>1. IsFiniteSet(Objects)
  BY BuildAssumption
<1>. QED BY <1>1, FS_Subset, FS_CardinalityType

\* A build that fails is over.
LEMMA FailsTyped ==
  ASSUME BuildFails PROVE build' \in BuildType /\ build'.at = "failed"
<1>1. 0 \in 0..RoundLimit
  BY BuildAssumption
<1>. QED BY <1>1 DEF BuildFails, BuildEnds, BuildType, BuildSteps

\* The next round is within the limit.
LEMMA RoundTyped ==
  ASSUME build \in BuildType, NextRound PROVE
  /\ build' \in BuildType
  /\ \/ build'.at = "modules" /\ registration' = registration
     \/ build'.at = "failed" /\ registration' = "stopped"
<1>1. CASE build.round < RoundLimit
  <2>1. build.round + 1 \in 0..RoundLimit
    BY <1>1, BuildAssumption DEF BuildType
  <2>2. build' = [at |-> "modules", round |-> build.round + 1, next |-> build.next, end |-> build.end,
                  count |-> 0]
    BY <1>1 DEF BuildType, NextRound
  <2>3. "modules" \in BuildSteps /\ build.next \in Nat /\ build.end \in Nat
    BY DEF BuildType, BuildSteps
  <2>4. build' \in BuildType /\ build'.at = "modules"
    BY <2>1, <2>2, <2>3 DEF BuildType
  <2>. QED BY <1>1, <2>4 DEF NextRound
<1>2. CASE ~(build.round < RoundLimit)
  BY <1>2, FailsTyped DEF NextRound, BuildFails
<1>. QED BY <1>1, <1>2

\* A step of the build moves it on or ends it, and touches no barrier.
LEMMA StepOfBuild ==
  ASSUME build \in BuildType, RegistryType, Builds \/ BuildExpires \/ BuildErrs
  PROVE  /\ UNCHANGED <<gate, load, applier, late>>
         /\ build' \in BuildType /\ (MovesOn \/ Concludes)
         /\ moved' \in {moved, TRUE, FALSE} /\ removedSince' \in {removedSince, FALSE}
<1>. USE DEF BuildType, registryVars
<1>0. /\ build.next \in Nat /\ build.end \in Nat /\ builtUpTo.modules \in Nat /\ builtUpTo.mounts \in Nat
      /\ container \subseteq Objects /\ Len(modules) \in Nat /\ Len(mounts) \in Nat
  BY DEF RegistryType
<1>1. CASE TakesModules
  <2>1. build' = [at |-> "build", round |-> build.round, next |-> builtUpTo.modules + 1,
                  end |-> Len(modules), count |-> build.count]
    BY <1>1 DEF TakesModules
  <2>2. builtUpTo.modules + 1 \in Nat
    BY <1>0
  <2>3. build' \in BuildType
    BY <1>0, <2>1, <2>2 DEF BuildSteps
  <2>. QED BY <1>1, <2>1, <2>3 DEF TakesModules, Building, MovesOn
<1>2. CASE SkipsModule
  <2>1. build.next + 1 \in Nat
    BY <1>0
  <2>2. build' = [at |-> build.at, round |-> build.round, next |-> build.next + 1, end |-> build.end,
                  count |-> build.count]
    BY <1>2 DEF SkipsModule
  <2>3. build' \in BuildType
    BY <2>1, <2>2
  <2>. QED BY <1>2, <2>2, <2>3 DEF SkipsModule, Building, MovesOn
<1>3. CASE BuildsModule
  <2>1. CASE BuildFails
    BY <1>3, <2>1, FailsTyped DEF BuildsModule, Building, Concludes, BuildFails
  <2>2. CASE build' = [build EXCEPT !.next = @ + 1] /\ registration' = registration /\ moved' = TRUE
    <3>1. build.next + 1 \in Nat
      BY <1>0
    <3>2. build' \in BuildType /\ build'.at = build.at
      BY <2>2, <3>1
    <3>. QED BY <1>3, <2>2, <3>2 DEF BuildsModule, Building, MovesOn
  <2>. QED BY <1>3, <2>1, <2>2 DEF BuildsModule
<1>4. CASE MarksModules
  BY <1>0, <1>4 DEF MarksModules, Building, MovesOn, BuildSteps
<1>5. CASE InjectsBeforeControllers
  BY <1>0, <1>5, FailsTyped DEF InjectsBeforeControllers, Building, MovesOn, Concludes, BuildSteps, BuildFails
<1>6. CASE TakesMounts
  <2>1. build' = [at |-> "mountBuild", round |-> build.round, next |-> builtUpTo.mounts + 1,
                  end |-> Len(mounts), count |-> build.count]
    BY <1>6 DEF TakesMounts
  <2>2. builtUpTo.mounts + 1 \in Nat
    BY <1>0
  <2>3. build' \in BuildType
    BY <1>0, <2>1, <2>2 DEF BuildSteps
  <2>. QED BY <1>6, <2>1, <2>3 DEF TakesMounts, Building, MovesOn
<1>7. CASE BuildsController
  <2>1. CASE BuildFails
    BY <1>7, <2>1, FailsTyped DEF BuildsController, Building, Concludes, BuildFails
  <2>2. CASE build' = [build EXCEPT !.next = @ + 1] /\ registration' = registration /\ moved' = TRUE
    <3>1. build.next + 1 \in Nat
      BY <1>0
    <3>2. build' \in BuildType /\ build'.at = build.at
      BY <2>2, <3>1
    <3>. QED BY <1>7, <2>2, <3>2 DEF BuildsController, Building, MovesOn
  <2>. QED BY <1>7, <2>1, <2>2 DEF BuildsController
<1>8. CASE MarksMounts
  BY <1>0, <1>8 DEF MarksMounts, Building, MovesOn, BuildSteps
<1>9. CASE TakesSnapshot
  <2>1. CASE NothingPending
    BY <1>0, <1>9, <2>1, Countable DEF TakesSnapshot, Building, MovesOn, BuildSteps
  <2>2. CASE ~NothingPending
    BY <1>9, <2>2, RoundTyped DEF TakesSnapshot, Building, MovesOn, Concludes
  <2>. QED BY <2>1, <2>2
<1>10. CASE InjectsBeans
  BY <1>0, <1>10, FailsTyped DEF InjectsBeans, Building, MovesOn, Concludes, BuildSteps, BuildFails
<1>11. CASE Seals
  <2>1. 0 \in 0..RoundLimit
    BY BuildAssumption
  <2>. QED BY <1>11, <2>1 DEF Seals, Building, BuildEnds, Concludes, BuildSteps
<1>14. CASE CountsBeans
  <2>1. CASE Undisturbed
    BY <1>14, <2>1 DEF CountsBeans, Building, MovesOn, BuildSteps
  <2>2. CASE ~Undisturbed
    BY <1>14, <2>2, RoundTyped DEF CountsBeans, Building, MovesOn, Concludes
  <2>. QED BY <2>1, <2>2
<1>12. CASE BuildExpires
  BY <1>12, FailsTyped DEF BuildExpires, Concludes, BuildFails
<1>13. CASE BuildErrs
  BY <1>13, FailsTyped DEF BuildErrs, Concludes, BuildFails
<1>. QED BY <1>1, <1>2, <1>3, <1>4, <1>5, <1>6, <1>7, <1>8, <1>9, <1>10, <1>11, <1>12, <1>13, <1>14 DEF Builds

\* While a plugin is loaded, ApplyAll does not build.
LEMMA LoadExcludesBuild == GateFacts /\ load.at # "idle" => build.at = "off" /\ gate.registrations = 1
BY DEF GateFacts, ControlType, LoadsBeforeBuild

\* Every step keeps the barrier, the loads, the callers and the build apart.
LEMMA GateKept == GateFacts /\ RegistryType /\ [BuildNext]_buildVars => GateFacts'
<1>. SUFFICES ASSUME GateFacts, RegistryType, [BuildNext]_buildVars PROVE GateFacts'
  OBVIOUS
<1>0. /\ ControlType /\ LoadsBeforeBuild
      /\ gate.registrations \in {0, 1} /\ gate.blocked \in BOOLEAN /\ gate.transition \in BOOLEAN
  BY DEF GateFacts, ControlType
<1>1. CASE UNCHANGED <<gate, load, applier, build, registration>>
             /\ moved' \in BOOLEAN /\ removedSince' \in BOOLEAN /\ late' \subseteq Beans
  BY <1>0, <1>1 DEF GateFacts, ControlType, LoadsBeforeBuild
<1>2. CASE Loads
  <2>0. load.at # "idle" /\ UNCHANGED <<applier, build, registration, late>>
    BY <1>2 DEF Loads, LoadAdds, LoadInjects, LoadBuilds, LoadMarks, LoadReturns
  <2>1. /\ moved' \in BOOLEAN /\ removedSince' \in BOOLEAN
    BY <1>0, <1>2 DEF Loads, LoadAdds, LoadInjects, LoadBuilds, LoadMarks, LoadReturns, Register, registryVars, ControlType
  <2>2. \/ /\ gate' = gate
           /\ load'.at # "idle" /\ load' \in [at : {"idle", "begun", "added", "ready", "built", "marked"},
                                             mod : Plugins \cup {"none"}] /\ load'.mod = load.mod
        \/ LoadEnds
    BY <1>0, <1>2, Zenon DEF Loads, LoadAdds, LoadInjects, LoadBuilds, LoadMarks, LoadReturns, ControlType
  <2>3. gate.registrations = 1 /\ build.at = "off" /\ load.mod \in Plugins
    BY <1>0, <2>0, LoadExcludesBuild DEF ControlType, GateFacts
  <2>4. CASE gate' = gate /\ load'.at # "idle" /\ load'.mod = load.mod
               /\ load' \in [at : {"idle", "begun", "added", "ready", "built", "marked"},
                             mod : Plugins \cup {"none"}]
    BY <1>0, <2>0, <2>1, <2>3, <2>4 DEF GateFacts, ControlType, LoadsBeforeBuild
  <2>5. CASE LoadEnds
    <3>1. gate' = [registrations |-> 0, blocked |-> gate.blocked, transition |-> gate.transition]
      BY <1>0, <2>3, <2>5 DEF LoadEnds, ControlType
    <3>2. load' = [at |-> "idle", mod |-> "none"]
      BY <2>5 DEF LoadEnds
    <3>. QED BY <1>0, <2>0, <2>1, <2>3, <3>1, <3>2 DEF GateFacts, ControlType, LoadsBeforeBuild
  <2>. QED BY <2>2, <2>4, <2>5
<1>3. ASSUME NEW p \in Plugins, LoadBegins(p) PROVE GateFacts'
  <2>1. /\ load' = [at |-> "begun", mod |-> p]
        /\ gate' = [registrations |-> 1, blocked |-> gate.blocked, transition |-> gate.transition]
        /\ UNCHANGED <<applier, build, registration, moved, removedSince, late>> /\ ~gate.blocked
    BY <1>0, <1>3 DEF LoadBegins, ControlType, LoadsBeforeBuild, registryVars
  <2>. QED BY <1>0, <2>1 DEF GateFacts, ControlType, LoadsBeforeBuild
<1>4. ASSUME NEW a \in Appliers,
             ApplyCalled(a) \/ CloseRegistration(a) \/ CloseDrained(a) \/ CloseExpires(a) \/ ApplyReturns(a)
      PROVE GateFacts'
  <2>0. UNCHANGED <<load, registration, moved, removedSince, late, build>>
    BY <1>4 DEF ApplyCalled, CloseRegistration, CloseDrained, CloseExpires, ApplyReturns, AppliesUnchanged, registryVars
  <2>1. CASE ApplyCalled(a)
    BY <1>0, <2>0, <2>1 DEF ApplyCalled, GateFacts, ControlType, LoadsBeforeBuild
  <2>2. CASE CloseRegistration(a)
    <3>1. CASE gate.blocked
      BY <1>0, <2>0, <2>2, <3>1 DEF CloseRegistration, GateFacts, ControlType, LoadsBeforeBuild
    <3>2. CASE ~gate.blocked
      <4>1. /\ gate' = [registrations |-> gate.registrations, blocked |-> TRUE, transition |-> TRUE]
            /\ applier' = [applier EXCEPT ![a] = "draining"] /\ ~gate.transition
        BY ZenonT(30), <1>0, <2>2, <3>2 DEF CloseRegistration, ControlType
      <4>2. build.at = "off" /\ \A b \in Appliers : applier[b] \notin {"closed", "building", "draining"}
        BY <1>0, <3>2, <4>1 DEF LoadsBeforeBuild
      <4>. QED BY <1>0, <2>0, <4>1, <4>2 DEF GateFacts, ControlType, LoadsBeforeBuild
    <3>. QED BY <3>1, <3>2
  <2>3. CASE CloseDrained(a)
    <3>1. /\ gate' = [registrations |-> 0, blocked |-> gate.blocked, transition |-> FALSE]
          /\ applier' = [applier EXCEPT ![a] = "closed"] /\ applier[a] = "draining"
      BY <1>0, <2>3 DEF CloseDrained, ControlType
    <3>2. gate.blocked /\ gate.transition /\ \A b \in Appliers : b # a => applier[b] # "draining"
      BY <1>0, <3>1 DEF LoadsBeforeBuild
    <3>. QED BY ZenonT(30), <1>0, <2>0, <2>3, <3>1, <3>2 DEF CloseDrained, GateFacts, ControlType, LoadsBeforeBuild
  <2>4. CASE CloseExpires(a)
    <3>1. CASE applier[a] = "draining"
      <4>1. /\ gate' = [registrations |-> gate.registrations, blocked |-> FALSE, transition |-> FALSE]
            /\ applier' = [applier EXCEPT ![a] = "expired"]
        BY <1>0, <2>4, <3>1 DEF CloseExpires, ControlType
      <4>2. /\ gate.transition /\ build.at = "off"
            /\ \A b \in Appliers : applier[b] \notin {"closed", "building"} /\ (b # a => applier[b] # "draining")
        BY <1>0, <3>1 DEF LoadsBeforeBuild
      <4>. QED BY <1>0, <2>0, <4>1, <4>2 DEF GateFacts, ControlType, LoadsBeforeBuild
    <3>2. CASE applier[a] # "draining"
      BY <1>0, <2>0, <2>4, <3>2 DEF CloseExpires, GateFacts, ControlType, LoadsBeforeBuild
    <3>. QED BY <3>1, <3>2
  <2>5. CASE ApplyReturns(a)
    BY <1>0, <2>0, <2>5 DEF ApplyReturns, GateFacts, ControlType, LoadsBeforeBuild
  <2>. QED BY <1>4, <2>1, <2>2, <2>3, <2>4, <2>5
<1>5. ASSUME NEW a \in Appliers, ApplyStarts(a) PROVE GateFacts'
  <2>0. UNCHANGED <<load, registration, moved, removedSince, late, gate>> /\ gate.blocked /\ ~gate.transition
    BY <1>0, <1>5 DEF ApplyStarts, AppliesUnchanged, registryVars, LoadsBeforeBuild
  <2>1. CASE build.at = "off"
    <3>1. 1 \in 0..RoundLimit
      BY BuildAssumption
    <3>2. build' \in BuildType /\ build'.at = "modules"
      BY <1>0, <1>5, <2>1, <3>1 DEF ApplyStarts, BuildType, BuildSteps, ControlType
    <3>3. applier' = [applier EXCEPT ![a] = "building"]
      BY <1>5, <2>1 DEF ApplyStarts
    <3>. QED BY <1>0, <2>0, <2>1, <3>2, <3>3 DEF BuildType, GateFacts, ControlType, LoadsBeforeBuild
  <2>2. CASE build.at # "off"
    BY <1>0, <1>5, <2>0, <2>2 DEF ApplyStarts, GateFacts, ControlType, LoadsBeforeBuild
  <2>. QED BY <2>1, <2>2
<1>6. CASE Builds \/ BuildExpires \/ BuildErrs
  <2>1. /\ UNCHANGED <<gate, load, applier, late>>
        /\ build' \in BuildType /\ (MovesOn \/ Concludes)
        /\ moved' \in BOOLEAN /\ removedSince' \in BOOLEAN
    BY <1>0, <1>6, StepOfBuild DEF BuildType, ControlType
  <2>. QED BY <1>0, <2>1 DEF MovesOn, Concludes, BuildType, GateFacts, ControlType, LoadsBeforeBuild
<1>7. CASE (\E x \in Objects : UserRegisters(x)) \/ UserRoutes
             \/ \E b \in Beans : SetsDirectly(b) \/ RemovesDirectly(b)
  <2>1. UNCHANGED <<gate, load, applier, build, registration>> /\ moved' \in BOOLEAN /\ removedSince' \in BOOLEAN
        /\ late' \subseteq Beans
    <3>1. CASE \E x \in Objects : UserRegisters(x)
      BY <1>0, <3>1 DEF UserRegisters, Register, ControlType
    <3>2. CASE UserRoutes \/ \E b \in Beans : SetsDirectly(b)
      BY <1>0, <3>2 DEF UserRoutes, SetsDirectly, ControlType
    <3>3. CASE \E b \in Beans : RemovesDirectly(b)
      <4>1. (build.at \in {"inject", "count"}) \in BOOLEAN
        OBVIOUS
      <4>. QED BY <1>0, <3>3, <4>1 DEF RemovesDirectly, ControlType
    <3>. QED BY <1>7, <3>1, <3>2, <3>3
  <2>. QED BY <1>1, <2>1
<1>8. CASE UNCHANGED buildVars
  <2>1. UNCHANGED <<gate, load, applier, build, registration>> /\ moved' \in BOOLEAN /\ removedSince' \in BOOLEAN
        /\ late' \subseteq Beans
    BY <1>0, <1>8 DEF buildVars, ControlType
  <2>. QED BY <1>1, <2>1
<1>. QED BY <1>2, <1>3, <1>4, <1>5, <1>6, <1>7, <1>8 DEF BuildNext, Closes

-----------------------------------------------------------------------------
(* Entries are built in order, each once.                                  *)

LatestOf(ms, p, m) ==
  p \in 1..Len(ms) /\ ms[p].mod = m /\ \A j \in 1..Len(ms) : ms[j].mod = m => j <= p

Ordered(ms, done, at, ld) ==
  \A i \in 1..Len(ms) :
    /\ ms[i].plugin => ms[i].builds = 1
    /\ i <= done => ms[i].builds = 1
    /\ ms[i].builds <= 1
    /\ at # "failed" /\ i > done /\ ms[i].builds # 0 =>
         ms[i].plugin \/ (ld.at = "built" /\ LatestOf(ms, i, ld.mod))

OrderedMounts(mt, done, at) ==
  \A i \in 1..Len(mt) : /\ i <= done => mt[i].builds = 1
                        /\ mt[i].builds <= 1
                        /\ at # "failed" /\ i > done => mt[i].builds = 0

HasEntry(ms, ld) ==
  /\ ld.at \in {"added", "ready"} =>
       \E p \in 1..Len(ms) : LatestOf(ms, p, ld.mod) /\ ms[p].builds = 0 /\ ~ms[p].plugin
  /\ ld.at = "built" => \E p \in 1..Len(ms) : LatestOf(ms, p, ld.mod) /\ ms[p].builds = 1

WithinRound ==
  /\ build.at = "build" => /\ builtUpTo.modules < build.next
                           /\ build.next <= build.end + 1 /\ build.end <= Len(modules)
  /\ build.at = "mountBuild" => /\ builtUpTo.mounts < build.next
                                /\ build.next <= build.end + 1 /\ build.end <= Len(mounts)

AllBuilt == build.at = "sealed" => /\ \A i \in 1..Len(modules) : modules[i].builds = 1
                                   /\ \A i \in 1..Len(mounts) : mounts[i].builds = 1

Entries == /\ Ordered(modules, ModulesDone, build.at, load) /\ HasEntry(modules, load)
           /\ OrderedMounts(mounts, MountsDone, build.at) /\ WithinRound /\ AllBuilt

EntriesHold ==
  /\ LoadHasEntry /\ BuiltInOrder
  /\ \A i \in DOMAIN modules : modules[i].builds <= 1
  /\ \A i \in DOMAIN mounts : mounts[i].builds <= 1
  /\ build.at = "sealed" => /\ \A i \in DOMAIN modules : modules[i].builds = 1
                            /\ \A i \in DOMAIN mounts : mounts[i].builds = 1

\* The entries of the two registries, in the terms of their sequences.
LEMMA EntriesParts == ASSUME RegistryType PROVE EntriesHold <=> Entries
<1>1. DOMAIN modules = 1..Len(modules) /\ DOMAIN mounts = 1..Len(mounts)
  BY DEF RegistryType
<1>2. \A p, m : IsNewest(p, m) <=> LatestOf(modules, p, m)
  BY <1>1 DEF IsNewest, LatestOf
<1>3. LoadHasEntry <=> HasEntry(modules, load)
  BY <1>1, <1>2, Zenon DEF LoadHasEntry, HasEntry
<1>4. BuiltInOrder /\ (\A i \in DOMAIN modules : modules[i].builds <= 1)
                   /\ (\A i \in DOMAIN mounts : mounts[i].builds <= 1)
      <=> /\ Ordered(modules, ModulesDone, build.at, load)
          /\ OrderedMounts(mounts, MountsDone, build.at) /\ WithinRound
  <2>. HIDE DEF ModulesDone, MountsDone
  <2>. QED BY <1>1, <1>2 DEF BuiltInOrder, Ordered, OrderedMounts, WithinRound
<1>. QED BY <1>1, <1>3, <1>4 DEF EntriesHold, Entries, AllBuilt

\* The same after a step.
LEMMA EntriesPartsNext == RegistryType' /\ Entries' => EntriesHold'
BY EntriesParts, PTL

\* How far the build has come is within what is registered.
LEMMA DoneTyped ==
  ASSUME RegistryType, ControlType, WithinRound
  PROVE  /\ ModulesDone \in Nat /\ ModulesDone <= Len(modules) /\ builtUpTo.modules <= ModulesDone
         /\ MountsDone \in Nat /\ MountsDone <= Len(mounts) /\ builtUpTo.mounts <= MountsDone
<1>1. /\ builtUpTo.modules \in 0..Len(modules) /\ builtUpTo.mounts \in 0..Len(mounts)
      /\ Len(modules) \in Nat /\ Len(mounts) \in Nat /\ build.next \in Nat /\ build.end \in Nat
  BY DEF RegistryType, ControlType
<1>. QED BY SMTT(30), <1>1 DEF WithinRound, ModulesDone, MountsDone

\* Entries that are appended, not built and of other modules than the one
\* loaded, come after all that is done.
LEMMA AddsKeepOrder ==
  ASSUME NEW ms, NEW mt, NEW Q, Adds(ms, mt, Q), NEW at, NEW ld,
         NEW done \in Nat, done <= Len(ms), Ordered(ms, done, at, ld),
         NEW done2 \in Nat, done2 <= Len(mt), OrderedMounts(mt, done2, at),
         ld.at = "built" => ld.mod \notin Q
  PROVE  Ordered(modules', done, at, ld) /\ OrderedMounts(mounts', done2, at)
<1>1. /\ Len(modules') \in Nat /\ Len(ms) \in Nat /\ Len(ms) <= Len(modules')
      /\ Len(mounts') \in Nat /\ Len(mt) \in Nat /\ Len(mt) <= Len(mounts')
      /\ \A i \in 1..Len(ms) : modules'[i] = ms[i]
      /\ \A i \in 1..Len(mt) : mounts'[i] = mt[i]
      /\ \A i \in 1..Len(modules') : i > Len(ms) => /\ modules'[i].builds = 0 /\ ~modules'[i].plugin
                                                    /\ modules'[i].mod \in Q
      /\ \A i \in 1..Len(mounts') : i > Len(mt) => mounts'[i].builds = 0
  BY DEF Adds
<1>2. \A i \in 1..Len(ms) : LatestOf(ms, i, ld.mod) /\ ld.at = "built" => LatestOf(modules', i, ld.mod)
  BY SMTT(30), <1>1 DEF LatestOf
<1>3. Ordered(modules', done, at, ld)
  <2>. SUFFICES ASSUME NEW i \in 1..Len(modules')
                PROVE  /\ modules'[i].plugin => modules'[i].builds = 1
                       /\ i <= done => modules'[i].builds = 1
                       /\ modules'[i].builds <= 1
                       /\ at # "failed" /\ i > done /\ modules'[i].builds # 0 =>
                            modules'[i].plugin \/ (ld.at = "built" /\ LatestOf(modules', i, ld.mod))
    BY DEF Ordered
  <2>1. CASE i <= Len(ms)
    <3>1. i \in 1..Len(ms) /\ modules'[i] = ms[i]
      BY <1>1, <2>1
    <3>. QED BY <1>2, <3>1 DEF Ordered
  <2>2. CASE i > Len(ms)
    BY <1>1, <2>2
  <2>. QED BY <1>1, <2>1, <2>2
<1>4. OrderedMounts(mounts', done2, at)
  BY <1>1 DEF OrderedMounts
<1>. QED BY <1>3, <1>4

\* The entry of the module that is loaded stays the newest of its module.
LEMMA AddsKeepEntry ==
  ASSUME NEW ms, NEW mt, NEW Q, Adds(ms, mt, Q), NEW ld, HasEntry(ms, ld),
         ld.at \in {"added", "ready", "built"} => ld.mod \notin Q
  PROVE  HasEntry(modules', ld)
<1>1. /\ Len(modules') \in Nat /\ Len(ms) \in Nat /\ Len(ms) <= Len(modules')
      /\ \A i \in 1..Len(ms) : i \in 1..Len(modules') /\ modules'[i] = ms[i]
      /\ \A i \in 1..Len(modules') : i > Len(ms) => modules'[i].mod \in Q
  BY DEF Adds
<1>2. \A i \in 1..Len(ms) : LatestOf(ms, i, ld.mod) /\ ld.at \in {"added", "ready", "built"}
                            => LatestOf(modules', i, ld.mod)
  BY <1>1 DEF LatestOf
<1>. QED BY <1>1, <1>2 DEF HasEntry

\* What the build has done is the same, and what is appended, if anything,
\* is not of the module loaded.
LEMMA QuietAdds ==
  ASSUME RegistryType, ControlType, Entries, NEW Q, Adds(modules, mounts, Q),
         UNCHANGED <<builtUpTo, build>>, build.at \notin {"sealed"},
         \/ load' = load
         \/ load'.at \in {"idle", "begun"} /\ load.at # "built"
         \/ load'.at = "ready" /\ load.at = "added" /\ load'.mod = load.mod,
         load'.at \in {"added", "ready", "built"} => load'.mod \notin Q,
         injected' \subseteq Objects, applied' \subseteq Objects
  PROVE  RegistryType' /\ Entries'
<1>1. /\ ModulesDone' = ModulesDone /\ MountsDone' = MountsDone
      /\ ModulesDone \in Nat /\ ModulesDone <= Len(modules)
      /\ MountsDone \in Nat /\ MountsDone <= Len(mounts)
  BY DoneTyped DEF Entries, ModulesDone, MountsDone
<1>2. Ordered(modules, ModulesDone, build.at, load') /\ HasEntry(modules, load')
      /\ OrderedMounts(mounts, MountsDone, build.at)
  <2>. HIDE DEF ModulesDone, MountsDone
  <2>. QED BY DEF Entries, Ordered, HasEntry
<1>3. Ordered(modules', ModulesDone, build.at, load') /\ OrderedMounts(mounts', MountsDone, build.at)
  <2>. HIDE DEF ModulesDone, MountsDone
  <2>1. load'.at = "built" => load'.mod \notin Q
    OBVIOUS
  <2>. QED BY <1>1, <1>2, <2>1, AddsKeepOrder
<1>4. HasEntry(modules', load')
  BY <1>2, AddsKeepEntry
<1>5. Len(modules) <= Len(modules') /\ Len(mounts) <= Len(mounts') /\ Len(modules) \in Nat
      /\ Len(modules') \in Nat /\ Len(mounts) \in Nat /\ Len(mounts') \in Nat
      /\ modules' \in Seq(ModuleType) /\ mounts' \in Seq(MountType) /\ container' \subseteq Objects
  BY DEF Adds
<1>6. RegistryType'
  <2>1. builtUpTo' \in [modules : 0..Len(modules'), mounts : 0..Len(mounts')]
    BY <1>5 DEF RegistryType
  <2>. QED BY <1>5, <2>1 DEF RegistryType
<1>7. WithinRound'
  <2>1. build.end \in Nat
    BY DEF ControlType
  <2>. QED BY <1>5, <2>1 DEF Entries, WithinRound
<1>8. AllBuilt'
  BY DEF AllBuilt
<1>. QED BY <1>1, <1>3, <1>4, <1>6, <1>7, <1>8 DEF Entries

\* Nothing is appended.
LEMMA SameEntries ==
  ASSUME RegistryType, container' \subseteq Objects, UNCHANGED <<modules, mounts>>,
         injected' \subseteq Objects, applied' \subseteq Objects, ControlType, Entries,
         builtUpTo' = builtUpTo,
         \/ build' = build
         \/ build.at = "off" /\ build'.at = "modules",
         \/ load' = load
         \/ load'.at \in {"idle", "begun"} /\ load.at # "built"
         \/ load'.at = "ready" /\ load.at = "added" /\ load'.mod = load.mod
  PROVE  RegistryType' /\ Entries'
<1>1. RegistryType'
  BY DEF RegistryType
<1>2. ModulesDone' = ModulesDone /\ MountsDone' = MountsDone
  BY DEF ModulesDone, MountsDone
<1>3. Ordered(modules, ModulesDone, build'.at, load') /\ HasEntry(modules, load')
      /\ OrderedMounts(mounts, MountsDone, build'.at)
  <2>. HIDE DEF ModulesDone, MountsDone
  <2>. QED BY DEF Entries, Ordered, HasEntry, OrderedMounts
<1>4. WithinRound' /\ AllBuilt'
  BY DEF Entries, WithinRound, AllBuilt
<1>. QED BY <1>1, <1>2, <1>3, <1>4 DEF Entries

-----------------------------------------------------------------------------
(* A plugin's load and its entry.                                          *)

\* What a Build registers never is a plugin's module.
LEMMA CallsTyped ==
  ASSUME NEW x \in Modules \cup Mounts, NEW S \in SUBSET Calls(x)
  PROVE  S \in SUBSET Objects /\ S \cap Plugins = {}
BY BuildAssumption DEF Calls

\* The position that is looked up is the entry the load has.
LEMMA PositionIsNewest ==
  ASSUME RegistryType, NEW m, NEW p, LatestOf(modules, p, m)
  PROVE  PositionOf(m) = p
<1>1. DOMAIN modules = 1..Len(modules) /\ Len(modules) \in Nat
  BY DEF RegistryType
<1>2. p \in DOMAIN modules /\ modules[p].mod = m /\ \A j \in DOMAIN modules : modules[j].mod = m => j <= p
  BY <1>1 DEF LatestOf
<1>3. /\ PositionOf(m) \in DOMAIN modules /\ modules[PositionOf(m)].mod = m
      /\ \A j \in DOMAIN modules : modules[j].mod = m => j <= PositionOf(m)
  BY <1>2, Zenon DEF PositionOf
<1>4. p <= PositionOf(m) /\ PositionOf(m) <= p
  BY <1>2, <1>3
<1>5. p \in Nat /\ PositionOf(m) \in Nat
  BY <1>1, <1>2, <1>3
<1>. QED BY <1>4, <1>5

\* The steps of a load that change its entry.
LEMMA LoadKeepsEntries ==
  ASSUME GateFacts, RegistryType, Entries, LoadAdds \/ LoadBuilds \/ LoadMarks
  PROVE  RegistryType' /\ Entries'
<1>0. /\ ControlType /\ load.mod \in Plugins /\ build.at = "off" /\ load.mod \in Modules
      /\ load.mod \in Objects /\ {load.mod} \in SUBSET Objects
      /\ container \subseteq Objects /\ modules \in Seq(ModuleType) /\ mounts \in Seq(MountType)
      /\ injected \subseteq Objects /\ applied \subseteq Objects /\ Len(modules) \in Nat
  <2>1. load.at # "idle"
    BY DEF LoadAdds, LoadBuilds, LoadMarks
  <2>2. load.mod \in Plugins /\ build.at = "off" /\ ControlType
    BY <2>1, LoadExcludesBuild DEF GateFacts, ControlType
  <2>. QED BY <2>2, BuildAssumption DEF Objects, RegistryType
<1>1. CASE LoadAdds
  <2>1. Adds(modules, mounts, {load.mod})
    BY <1>0, <1>1, AddsEntries DEF LoadAdds, Register
  <2>2. Len(modules') = Len(modules) + 1
    <3>1. Len(NewModules({load.mod})) = 1 /\ NewModules({load.mod}) \in Seq(ModuleType)
      BY <1>0, OneEntry
    <3>2. PICK N : N = NewModules({load.mod})
      OBVIOUS
    <3>3. N \in Seq(ModuleType) /\ Len(N) = 1 /\ modules' = modules \o N
      BY <1>1, <3>1, <3>2 DEF LoadAdds, Register
    <3>4. modules \in Seq(ModuleType)
      BY <1>0
    <3>. QED BY ONLY <3>3, <3>4, Appended
  <2>3. load.at = "begun" /\ load'.at = "added" /\ load'.mod = load.mod
        /\ UNCHANGED <<builtUpTo, build, injected, applied>>
    BY <1>0, <1>1 DEF LoadAdds, ControlType
  <2>4. LatestOf(modules', Len(modules) + 1, load'.mod)
        /\ modules'[Len(modules) + 1].builds = 0 /\ ~modules'[Len(modules) + 1].plugin
    <3>1. Len(modules) + 1 \in 1..Len(modules') /\ Len(modules) + 1 > Len(modules)
      BY <1>0, <2>2
    <3>2. modules'[Len(modules) + 1].mod = load.mod
          /\ modules'[Len(modules) + 1].builds = 0 /\ ~modules'[Len(modules) + 1].plugin
      BY <2>1, <3>1 DEF Adds
    <3>. QED BY <1>0, <2>2, <2>3, <3>1, <3>2 DEF LatestOf
  <2>5. HasEntry(modules', load')
    <3>1. Len(modules) + 1 \in 1..Len(modules')
      BY <2>4 DEF LatestOf
    <3>. QED BY <2>3, <2>4, <3>1 DEF HasEntry
  <2>6. /\ Ordered(modules, ModulesDone, build.at, load')
        /\ OrderedMounts(mounts, MountsDone, build.at)
    <3>. HIDE DEF ModulesDone, MountsDone
    <3>. QED BY <2>3 DEF Entries, Ordered
  <2>7. /\ Ordered(modules', ModulesDone, build.at, load')
        /\ OrderedMounts(mounts', MountsDone, build.at)
    <3>1. /\ ModulesDone \in Nat /\ ModulesDone <= Len(modules)
          /\ MountsDone \in Nat /\ MountsDone <= Len(mounts)
      BY <1>0, DoneTyped DEF Entries
    <3>2. load'.at # "built"
      BY <2>3
    <3>. HIDE DEF ModulesDone, MountsDone
    <3>. QED BY <2>1, <2>6, <3>1, <3>2, AddsKeepOrder
  <2>8. RegistryType'
    BY <1>0, <2>1, <2>3 DEF Adds, RegistryType
  <2>9. WithinRound' /\ AllBuilt'
    BY <1>0, <2>3 DEF WithinRound, AllBuilt
  <2>10. ModulesDone' = ModulesDone /\ MountsDone' = MountsDone
    BY <2>3 DEF ModulesDone, MountsDone
  <2>. QED BY <2>3, <2>5, <2>7, <2>8, <2>9, <2>10 DEF Entries
<1>2. CASE LoadBuilds
  <2>0. load.at = "ready" /\ UNCHANGED <<builtUpTo, build, injected, applied>>
    BY <1>2 DEF LoadBuilds
  <2>1. ASSUME NEW S \in SUBSET Calls(load.mod), Register(S), LoadEnds
        PROVE RegistryType' /\ Entries'
    <3>1. S \in SUBSET Objects /\ load'.at = "idle"
      BY <1>0, <2>1, CallsTyped DEF LoadEnds
    <3>2. Adds(modules, mounts, S)
      BY <1>0, <2>1, <3>1, AddsEntries DEF Register
    <3>. QED BY <1>0, <2>0, <3>1, <3>2, QuietAdds
  <2>2. ASSUME container' = container \cup BeansOf(Calls(load.mod)),
               modules' = [modules EXCEPT ![PositionOf(load.mod)].builds = @ + 1]
                          \o NewModules(Calls(load.mod)),
               mounts' = mounts \o NewMounts(Calls(load.mod)),
               load' = [load EXCEPT !.at = "built"]
        PROVE RegistryType' /\ Entries'
    <3>1. PICK p \in 1..Len(modules) : LatestOf(modules, p, load.mod) /\ modules[p].builds = 0
                                       /\ ~modules[p].plugin
      BY <2>0 DEF Entries, HasEntry
    <3>2. PositionOf(load.mod) = p
      BY <1>0, <3>1, PositionIsNewest
    <3>3. PICK ms : ms = [modules EXCEPT ![p].builds = @ + 1]
      OBVIOUS
    <3>4. /\ ms \in Seq(ModuleType) /\ Len(ms) = Len(modules)
          /\ ms[p].builds = 1 /\ ms[p].mod = load.mod /\ ms[p].plugin = modules[p].plugin
          /\ \A j \in 1..Len(modules) : ms[j].mod = modules[j].mod /\ (j # p => ms[j] = modules[j])
      <4>1. /\ ms \in Seq(ModuleType) /\ Len(ms) = Len(modules)
            /\ ms[p].builds = modules[p].builds + 1 /\ ms[p].mod = modules[p].mod
            /\ ms[p].plugin = modules[p].plugin
            /\ \A j \in 1..Len(modules) : ms[j].mod = modules[j].mod /\ (j # p => ms[j] = modules[j])
        <5>1. modules \in Seq(ModuleType) /\ p \in 1..Len(modules)
          BY <1>0
        <5>. QED BY ONLY <3>3, <5>1, CountedUp
      <4>. QED BY <3>1, <4>1 DEF LatestOf
    <3>5. Calls(load.mod) \in SUBSET Objects /\ Calls(load.mod) \cap Plugins = {}
      BY <1>0, CallsTyped
    <3>6. Adds(ms, mounts, Calls(load.mod))
      BY <1>0, <2>2, <3>2, <3>3, <3>4, <3>5, AddsEntries
    <3>7. load'.at = "built" /\ load'.mod = load.mod /\ load'.mod \notin Calls(load.mod)
      BY <1>0, <2>2, <3>5 DEF ControlType
    <3>8. LatestOf(ms, p, load.mod)
      BY <3>1, <3>4 DEF LatestOf
    <3>9. ModulesDone \in Nat /\ ModulesDone <= Len(ms) /\ MountsDone \in Nat /\ MountsDone <= Len(mounts)
      BY <1>0, <3>4, DoneTyped DEF Entries
    <3>10. Ordered(ms, ModulesDone, build.at, load')
      <4>1. ModulesDone < p
        <5>1. ~(p <= ModulesDone) /\ p \in Nat
          BY <3>1 DEF Entries, Ordered
        <5>. HIDE DEF ModulesDone
        <5>. QED BY <3>9, <5>1
      <4>. HIDE DEF ModulesDone
      <4>. SUFFICES ASSUME NEW i \in 1..Len(ms)
                    PROVE  /\ ms[i].plugin => ms[i].builds = 1
                           /\ i <= ModulesDone => ms[i].builds = 1
                           /\ ms[i].builds <= 1
                           /\ build.at # "failed" /\ i > ModulesDone /\ ms[i].builds # 0 =>
                                ms[i].plugin \/ (load'.at = "built" /\ LatestOf(ms, i, load'.mod))
        BY DEF Ordered
      <4>2. CASE i = p
        BY <3>1, <3>4, <3>7, <3>8, <3>9, <4>1, <4>2
      <4>3. CASE i # p
        <5>1. i \in 1..Len(modules) /\ ms[i] = modules[i]
          BY <3>4, <4>3
        <5>. QED BY <2>0, <5>1 DEF Entries, Ordered
      <4>. QED BY <4>2, <4>3
    <3>11. HasEntry(ms, load')
      BY <3>1, <3>4, <3>7, <3>8 DEF HasEntry
    <3>12. OrderedMounts(mounts, MountsDone, build.at)
      BY DEF Entries
    <3>13. Ordered(modules', ModulesDone, build.at, load') /\ OrderedMounts(mounts', MountsDone, build.at)
      <4>. HIDE DEF ModulesDone, MountsDone
      <4>. QED BY <3>6, <3>7, <3>9, <3>10, <3>12, AddsKeepOrder
    <3>14. HasEntry(modules', load')
      BY <3>6, <3>7, <3>11, AddsKeepEntry
    <3>15. RegistryType'
      BY <1>0, <2>0, <3>4, <3>6 DEF Adds, RegistryType
    <3>16. WithinRound' /\ AllBuilt'
      BY <1>0, <2>0 DEF WithinRound, AllBuilt
    <3>17. ModulesDone' = ModulesDone /\ MountsDone' = MountsDone
      BY <2>0 DEF ModulesDone, MountsDone
    <3>. QED BY <2>0, <3>13, <3>14, <3>15, <3>16, <3>17 DEF Entries
  <2>. QED BY <1>2, <2>1, <2>2 DEF LoadBuilds
<1>3. CASE LoadMarks
  <2>0. load.at = "built" /\ UNCHANGED <<builtUpTo, build, injected, applied, container, mounts>>
        /\ load'.at = "marked"
    BY <1>0, <1>3 DEF LoadMarks, ControlType
  <2>1. PICK p \in 1..Len(modules) : LatestOf(modules, p, load.mod) /\ modules[p].builds = 1
    BY <2>0 DEF Entries, HasEntry
  <2>2. PositionOf(load.mod) = p
    BY <1>0, <2>1, PositionIsNewest
  <2>3. /\ modules' \in Seq(ModuleType) /\ Len(modules') = Len(modules)
        /\ modules'[p].builds = 1
        /\ \A j \in 1..Len(modules) : j # p => modules'[j] = modules[j]
        /\ modules'[p].plugin
    <3>1. modules[p] \in ModuleType
      BY <1>0, <2>1
    <3>2. /\ [modules[p] EXCEPT !.plugin = TRUE] \in ModuleType
          /\ [modules[p] EXCEPT !.plugin = TRUE].builds = modules[p].builds
          /\ [modules[p] EXCEPT !.plugin = TRUE].plugin
      BY <3>1 DEF ModuleType
    <3>3. modules' = [modules EXCEPT ![p] = [modules[p] EXCEPT !.plugin = TRUE]]
      BY <1>3, <2>2 DEF LoadMarks
    <3>. QED BY <1>0, <2>1, <3>2, <3>3
  <2>4. \A i \in 1..Len(modules) : LatestOf(modules, i, load.mod) => i = p
    <3>1. p \in Nat /\ Len(modules) \in Nat
      BY <1>0
    <3>. QED BY <2>1, <3>1 DEF LatestOf
  <2>5. Ordered(modules', ModulesDone, build.at, load')
    <3>. HIDE DEF ModulesDone
    <3>. SUFFICES ASSUME NEW i \in 1..Len(modules)
                  PROVE  /\ modules'[i].plugin => modules'[i].builds = 1
                         /\ i <= ModulesDone => modules'[i].builds = 1
                         /\ modules'[i].builds <= 1
                         /\ build.at # "failed" /\ i > ModulesDone /\ modules'[i].builds # 0 =>
                              modules'[i].plugin
      BY <2>3 DEF Ordered
    <3>1. CASE i = p
      BY <2>3, <3>1
    <3>2. CASE i # p
      BY <2>3, <2>4, <3>2 DEF Entries, Ordered
    <3>. QED BY <3>1, <3>2
  <2>6. HasEntry(modules', load')
    BY <2>0 DEF HasEntry
  <2>7. RegistryType'
    BY <1>0, <2>0, <2>3 DEF RegistryType
  <2>8. WithinRound' /\ AllBuilt'
    BY <1>0, <2>0 DEF WithinRound, AllBuilt
  <2>9. ModulesDone' = ModulesDone /\ MountsDone' = MountsDone
    BY <2>0 DEF ModulesDone, MountsDone
  <2>10. OrderedMounts(mounts', MountsDone, build'.at)
    BY <2>0 DEF Entries
  <2>. QED BY <2>0, <2>5, <2>6, <2>7, <2>8, <2>9, <2>10 DEF Entries
<1>. QED BY <1>1, <1>2, <1>3

-----------------------------------------------------------------------------
(* The rounds of the build.                                                *)

\* A build that fails leaves the entries as they are.
LEMMA FailKeepsEntries ==
  ASSUME GateFacts, RegistryType, Entries, BuildFails,
         UNCHANGED <<container, modules, mounts, builtUpTo, load>>
  PROVE  RegistryType' /\ Entries'
<1>1. ControlType /\ build'.at = "failed" /\ injected' = injected /\ applied' = {}
  BY FailsTyped DEF GateFacts, BuildFails
<1>2. RegistryType'
  BY <1>1 DEF RegistryType
<1>3. /\ ModulesDone \in Nat /\ builtUpTo.modules <= ModulesDone /\ ModulesDone' = builtUpTo.modules
      /\ MountsDone \in Nat /\ builtUpTo.mounts <= MountsDone /\ MountsDone' = builtUpTo.mounts
  <2>1. ModulesDone' = builtUpTo.modules /\ MountsDone' = builtUpTo.mounts
    BY <1>1 DEF ModulesDone, MountsDone
  <2>. QED BY <1>1, <2>1, DoneTyped DEF Entries
<1>4. builtUpTo.modules \in Nat /\ builtUpTo.mounts \in Nat /\ Len(modules) \in Nat /\ Len(mounts) \in Nat
  BY DEF RegistryType
<1>5. Ordered(modules, builtUpTo.modules, "failed", load)
  <2>. HIDE DEF ModulesDone
  <2>1. \A i \in 1..Len(modules) : i <= builtUpTo.modules => i <= ModulesDone
    BY <1>3, <1>4
  <2>. QED BY <2>1 DEF Entries, Ordered
<1>6. OrderedMounts(mounts, builtUpTo.mounts, "failed")
  <2>. HIDE DEF MountsDone
  <2>1. \A i \in 1..Len(mounts) : i <= builtUpTo.mounts => i <= MountsDone
    BY <1>3, <1>4
  <2>. QED BY <2>1 DEF Entries, OrderedMounts
<1>7. HasEntry(modules, load)
  BY DEF Entries
<1>8. WithinRound' /\ AllBuilt'
  BY <1>1 DEF WithinRound, AllBuilt
<1>. QED BY <1>1, <1>2, <1>3, <1>5, <1>6, <1>7, <1>8 DEF Entries

\* A step that builds nothing and marks as done only what is.
LEMMA SameDone ==
  ASSUME GateFacts, RegistryType, Entries, UNCHANGED <<container, modules, mounts, load>>,
         RegistryType', build.at # "failed", build'.at # "sealed",
         ModulesDone' = ModulesDone, MountsDone' = MountsDone, WithinRound'
  PROVE  RegistryType' /\ Entries'
<1>1. /\ Ordered(modules, ModulesDone, build'.at, load)
      /\ OrderedMounts(mounts, MountsDone, build'.at) /\ HasEntry(modules, load)
  <2>. HIDE DEF ModulesDone, MountsDone
  <2>. QED BY DEF Entries, Ordered, OrderedMounts
<1>2. AllBuilt'
  BY DEF AllBuilt
<1>. QED BY <1>1, <1>2 DEF Entries

\* The steps of the build, which goes through the entries in their order.
LEMMA BuildKeepsEntries ==
  ASSUME GateFacts, RegistryType, Entries, CountTells, Builds \/ BuildExpires \/ BuildErrs
  PROVE  RegistryType' /\ Entries'
<1>0. /\ ControlType /\ build \in BuildType /\ build'.at \in BuildSteps
      /\ UNCHANGED <<gate, load, applier>> /\ (MovesOn \/ Concludes)
  BY StepOfBuild DEF GateFacts, ControlType, BuildType
<1>. USE DEF registryVars
<1>1. build.at \notin {"off", "sealed", "failed"} /\ load.at = "idle"
  BY <1>0, LoadExcludesBuild DEF MovesOn, Concludes
<1>2. /\ build.next \in Nat /\ build.end \in Nat /\ Len(modules) \in Nat /\ Len(mounts) \in Nat
      /\ builtUpTo.modules \in 0..Len(modules) /\ builtUpTo.mounts \in 0..Len(mounts)
      /\ container \subseteq Objects /\ injected \subseteq Objects /\ applied \subseteq Objects
      /\ modules \in Seq(ModuleType) /\ mounts \in Seq(MountType)
      /\ builtUpTo = [modules |-> builtUpTo.modules, mounts |-> builtUpTo.mounts]
  BY <1>0 DEF RegistryType, BuildType
<1>3. \A S \in SUBSET Objects : Apply(S) => injected' \subseteq Objects /\ applied' \subseteq Objects
  BY <1>2 DEF Apply
<1>4. WithinRound
  BY DEF Entries
<1>5. CASE BuildFails /\ UNCHANGED <<container, modules, mounts, builtUpTo>>
  BY <1>0, <1>5, FailKeepsEntries
<1>6. CASE TakesModules
  <2>1. UNCHANGED <<container, modules, mounts, load, builtUpTo, injected, applied>> /\ build.at = "modules"
        /\ build'.at = "build" /\ build'.next = builtUpTo.modules + 1 /\ build'.end = Len(modules)
    BY <1>0, <1>6 DEF TakesModules, Building, BuildType
  <2>2. RegistryType' /\ WithinRound'
    BY <1>2, <2>1 DEF RegistryType, WithinRound
  <2>3. ModulesDone' = ModulesDone /\ MountsDone' = MountsDone
    BY <1>2, <2>1 DEF ModulesDone, MountsDone
  <2>. QED BY <2>1, <2>2, <2>3, SameDone
<1>7. CASE SkipsModule
  <2>1. /\ UNCHANGED <<container, modules, mounts, load, builtUpTo, injected, applied>>
        /\ build.at = "build" /\ build'.at = "build" /\ build'.next = build.next + 1
        /\ build'.end = build.end /\ build.next <= build.end /\ modules[build.next].plugin
    BY <1>0, <1>7 DEF SkipsModule, Building, BuildType
  <2>2. RegistryType' /\ WithinRound'
    BY <1>2, <1>4, <2>1 DEF RegistryType, WithinRound
  <2>3. ModulesDone = build.next - 1 /\ ModulesDone' = build.next /\ MountsDone' = MountsDone
        /\ build.next \in 1..Len(modules)
    BY <1>2, <1>4, <2>1 DEF ModulesDone, MountsDone, WithinRound
  <2>4. Ordered(modules, build.next, "build", load)
    <3>1. Ordered(modules, build.next - 1, "build", load)
      BY <2>1, <2>3 DEF Entries
    <3>2. \A i \in 1..Len(modules) : i <= build.next => i <= build.next - 1 \/ i = build.next
      BY <1>2
    <3>3. \A i \in 1..Len(modules) : i > build.next => i > build.next - 1
      BY <1>2
    <3>. QED BY <2>1, <2>3, <3>1, <3>2, <3>3 DEF Ordered
  <2>5. OrderedMounts(mounts, MountsDone, "build") /\ HasEntry(modules, load)
    BY <2>1 DEF Entries
  <2>6. AllBuilt'
    BY <2>1 DEF AllBuilt
  <2>. QED BY <2>1, <2>2, <2>3, <2>4, <2>5, <2>6 DEF Entries
<1>8. CASE BuildsModule
  <2>1. build.at = "build" /\ build.next <= build.end /\ ~modules[build.next].plugin
        /\ UNCHANGED builtUpTo
    BY <1>8 DEF BuildsModule, Building
  <2>2. PICK n : n = build.next
    OBVIOUS
  <2>3. PICK m : m = modules[n].mod
    OBVIOUS
  <2>4. n \in 1..Len(modules) /\ m \in Modules /\ ModulesDone = n - 1 /\ modules[n].builds \in Nat
    <3>1. n \in 1..Len(modules) /\ ModulesDone = n - 1
      BY <1>2, <1>4, <2>1, <2>2 DEF ModulesDone, WithinRound
    <3>2. modules[n] \in ModuleType
      BY <1>2, <3>1
    <3>. QED BY <2>3, <3>1, <3>2 DEF ModuleType
  <2>5. modules[n].builds = 0
    <3>1. Ordered(modules, n - 1, "build", load)
      BY <2>1, <2>4 DEF Entries
    <3>2. n > n - 1
      BY <2>4, <1>2
    <3>. QED BY <1>1, <2>1, <2>2, <2>4, <3>1, <3>2 DEF Ordered
  <2>6. \/ /\ Apply({m} \cup container)
           /\ container' = container \cup BeansOf(Calls(m))
           /\ modules' = [modules EXCEPT ![n].builds = @ + 1] \o NewModules(Calls(m))
           /\ mounts' = mounts \o NewMounts(Calls(m))
           /\ build' = [build EXCEPT !.next = @ + 1]
        \/ BuildFails /\ UNCHANGED <<container, modules, mounts>>
    BY <1>8, <2>2, <2>3 DEF BuildsModule
  <2>7. ASSUME Apply({m} \cup container),
               container' = container \cup BeansOf(Calls(m)),
               modules' = [modules EXCEPT ![n].builds = @ + 1] \o NewModules(Calls(m)),
               mounts' = mounts \o NewMounts(Calls(m)),
               build' = [build EXCEPT !.next = @ + 1]
        PROVE  RegistryType' /\ Entries'
    <3>1. PICK ms : ms = [modules EXCEPT ![n].builds = @ + 1]
      OBVIOUS
    <3>2. /\ ms \in Seq(ModuleType) /\ Len(ms) = Len(modules)
          /\ ms[n].builds = 1 /\ ms[n].plugin = modules[n].plugin
          /\ \A j \in 1..Len(modules) : j # n => ms[j] = modules[j]
      <4>1. modules \in Seq(ModuleType) /\ n \in 1..Len(modules)
        BY <1>2, <2>4
      <4>2. /\ ms \in Seq(ModuleType) /\ Len(ms) = Len(modules)
            /\ ms[n].builds = modules[n].builds + 1 /\ ms[n].plugin = modules[n].plugin
            /\ \A j \in 1..Len(modules) : j # n => ms[j] = modules[j]
        BY ONLY <3>1, <4>1, CountedUp
      <4>. QED BY <2>5, <4>2
    <3>3. Calls(m) \in SUBSET Objects
      BY <2>4, CallsTyped
    <3>4. Adds(ms, mounts, Calls(m))
      BY <1>2, <2>7, <3>1, <3>2, <3>3, AddsEntries
    <3>5. build'.at = "build" /\ build'.next = n + 1 /\ build'.end = build.end
      BY <1>0, <2>1, <2>2, <2>7 DEF BuildType
    <3>6. Len(modules) <= Len(modules') /\ Len(mounts) <= Len(mounts')
          /\ Len(modules') \in Nat /\ Len(mounts') \in Nat
          /\ modules' \in Seq(ModuleType) /\ mounts' \in Seq(MountType) /\ container' \subseteq Objects
      BY <3>2, <3>4 DEF Adds
    <3>7. injected' \subseteq Objects /\ applied' \subseteq Objects
      <4>1. {m} \cup container \in SUBSET Objects
        BY <1>2, <2>4 DEF Objects
      <4>. QED BY <1>3, <2>7, <4>1
    <3>8. RegistryType'
      <4>1. builtUpTo' \in [modules : 0..Len(modules'), mounts : 0..Len(mounts')]
        BY <1>2, <2>1, <3>6
      <4>. QED BY <3>6, <3>7, <4>1 DEF RegistryType
    <3>9. WithinRound'
      BY <1>2, <1>4, <2>1, <2>2, <3>5, <3>6 DEF WithinRound
    <3>10. ModulesDone' = n /\ MountsDone' = MountsDone /\ MountsDone \in Nat /\ MountsDone <= Len(mounts)
      <4>1. MountsDone \in Nat /\ MountsDone <= Len(mounts)
        BY <1>0, DoneTyped DEF Entries
      <4>. QED BY <1>2, <2>1, <2>4, <3>5, <4>1 DEF ModulesDone, MountsDone
    <3>11. Ordered(ms, n, "build", load)
      <4>1. Ordered(modules, n - 1, "build", load)
        BY <2>1, <2>4 DEF Entries
      <4>2. n \in Nat
        BY <1>2, <2>4
      <4>3. \A i \in 1..Len(ms) : i # n => i \in 1..Len(modules) /\ ms[i] = modules[i]
                                         /\ (i <= n => i <= n - 1) /\ (i > n => i > n - 1)
        BY <1>2, <3>2, <4>2
      <4>4. load.at # "built"
        BY <1>1
      <4>5. ~(n > n) /\ n <= n
        BY <4>2
      <4>. QED BY <3>2, <4>1, <4>3, <4>4, <4>5 DEF Ordered
    <3>12. OrderedMounts(mounts, MountsDone, "build")
      BY <2>1 DEF Entries
    <3>13. Ordered(modules', n, "build", load) /\ OrderedMounts(mounts', MountsDone, "build")
      <4>1. n \in Nat /\ n <= Len(ms) /\ load.at # "built"
        BY <1>1, <1>2, <2>4, <3>2
      <4>. HIDE DEF MountsDone
      <4>. QED BY <3>4, <3>10, <3>11, <3>12, <4>1, AddsKeepOrder
    <3>14. HasEntry(modules', load')
      BY <1>0, <1>1 DEF HasEntry
    <3>15. AllBuilt'
      BY <3>5 DEF AllBuilt
    <3>. QED BY <1>0, <3>5, <3>8, <3>9, <3>10, <3>13, <3>14, <3>15 DEF Entries
  <2>. QED BY <1>5, <2>1, <2>6, <2>7
<1>9. CASE MarksModules
  <2>1. /\ UNCHANGED <<container, modules, mounts, load, injected, applied>> /\ build.at = "build"
        /\ build'.at = "mark" /\ builtUpTo' = [builtUpTo EXCEPT !.modules = build.end]
        /\ build.next > build.end
    BY <1>0, <1>9 DEF MarksModules, Building, BuildType
  <2>2. build.end \in 0..Len(modules) /\ build.end = build.next - 1
    BY <1>2, <1>4, <2>1 DEF WithinRound
  <2>3. builtUpTo' = [modules |-> build.end, mounts |-> builtUpTo.mounts]
    BY <1>2, <2>1
  <2>4. RegistryType' /\ WithinRound'
    BY <1>2, <2>1, <2>2, <2>3 DEF RegistryType, WithinRound
  <2>5. ModulesDone' = ModulesDone /\ MountsDone' = MountsDone
    BY <2>1, <2>2, <2>3 DEF ModulesDone, MountsDone
  <2>. QED BY <2>1, <2>4, <2>5, SameDone
<1>10. CASE InjectsBeforeControllers
  <2>1. /\ UNCHANGED <<container, modules, mounts, builtUpTo, load>> /\ build.at = "mark"
    BY <1>0, <1>10 DEF InjectsBeforeControllers, Building
  <2>2. CASE BuildFails
    BY <1>5, <2>1, <2>2
  <2>3. CASE Apply(container) /\ build' = [build EXCEPT !.at = "mounts"]
    <3>1. build'.at = "mounts" /\ injected' \subseteq Objects /\ applied' \subseteq Objects
      BY <1>0, <1>2, <1>3, <2>3 DEF BuildType
    <3>2. RegistryType' /\ WithinRound'
      BY <1>2, <2>1, <3>1 DEF RegistryType, WithinRound
    <3>3. ModulesDone' = ModulesDone /\ MountsDone' = MountsDone
      BY <2>1, <3>1 DEF ModulesDone, MountsDone
    <3>. QED BY <2>1, <3>1, <3>2, <3>3, SameDone
  <2>. QED BY <1>10, <2>2, <2>3 DEF InjectsBeforeControllers
<1>11. CASE TakesMounts
  <2>1. UNCHANGED <<container, modules, mounts, load, builtUpTo, injected, applied>> /\ build.at = "mounts"
        /\ build'.at = "mountBuild" /\ build'.next = builtUpTo.mounts + 1 /\ build'.end = Len(mounts)
    BY <1>0, <1>11 DEF TakesMounts, Building, BuildType
  <2>2. RegistryType' /\ WithinRound'
    BY <1>2, <2>1 DEF RegistryType, WithinRound
  <2>3. ModulesDone' = ModulesDone /\ MountsDone' = MountsDone
    BY <1>2, <2>1 DEF ModulesDone, MountsDone
  <2>. QED BY <2>1, <2>2, <2>3, SameDone
<1>12. CASE BuildsController
  <2>1. build.at = "mountBuild" /\ build.next <= build.end /\ UNCHANGED builtUpTo
    BY <1>12 DEF BuildsController, Building
  <2>2. PICK n : n = build.next
    OBVIOUS
  <2>3. PICK c : c = mounts[n].class
    OBVIOUS
  <2>4. n \in 1..Len(mounts) /\ c \in Mounts /\ MountsDone = n - 1 /\ mounts[n].builds \in Nat
    <3>1. n \in 1..Len(mounts) /\ MountsDone = n - 1
      BY <1>2, <1>4, <2>1, <2>2 DEF MountsDone, WithinRound
    <3>2. mounts[n] \in MountType
      BY <1>2, <3>1
    <3>. QED BY <2>3, <3>1, <3>2 DEF MountType
  <2>5. mounts[n].builds = 0
    <3>1. OrderedMounts(mounts, n - 1, "mountBuild")
      BY <2>1, <2>4 DEF Entries
    <3>2. n > n - 1
      BY <2>4, <1>2
    <3>. QED BY <2>4, <3>1, <3>2 DEF OrderedMounts
  <2>6. \/ /\ Apply({c})
           /\ container' = container \cup BeansOf(Calls(c))
           /\ modules' = modules \o NewModules(Calls(c))
           /\ mounts' = [mounts EXCEPT ![n].builds = @ + 1] \o NewMounts(Calls(c))
           /\ build' = [build EXCEPT !.next = @ + 1]
        \/ BuildFails /\ UNCHANGED <<container, modules, mounts>>
    BY <1>12, <2>2, <2>3 DEF BuildsController
  <2>7. ASSUME Apply({c}),
               container' = container \cup BeansOf(Calls(c)),
               modules' = modules \o NewModules(Calls(c)),
               mounts' = [mounts EXCEPT ![n].builds = @ + 1] \o NewMounts(Calls(c)),
               build' = [build EXCEPT !.next = @ + 1]
        PROVE  RegistryType' /\ Entries'
    <3>1. PICK mt : mt = [mounts EXCEPT ![n].builds = @ + 1]
      OBVIOUS
    <3>2. /\ mt \in Seq(MountType) /\ Len(mt) = Len(mounts) /\ mt[n].builds = 1
          /\ \A j \in 1..Len(mounts) : j # n => mt[j] = mounts[j]
      <4>1. mounts \in Seq(MountType) /\ n \in 1..Len(mounts)
        BY <1>2, <2>4
      <4>2. /\ mt \in Seq(MountType) /\ Len(mt) = Len(mounts)
            /\ mt[n].builds = mounts[n].builds + 1
            /\ \A j \in 1..Len(mounts) : j # n => mt[j] = mounts[j]
        BY ONLY <3>1, <4>1, MountCountedUp
      <4>. QED BY <2>5, <4>2
    <3>3. Calls(c) \in SUBSET Objects
      BY <2>4, CallsTyped
    <3>4. Adds(modules, mt, Calls(c))
      BY <1>2, <2>7, <3>1, <3>2, <3>3, AddsEntries
    <3>5. build'.at = "mountBuild" /\ build'.next = n + 1 /\ build'.end = build.end
      BY <1>0, <2>1, <2>2, <2>7 DEF BuildType
    <3>6. Len(modules) <= Len(modules') /\ Len(mounts) <= Len(mounts')
          /\ Len(modules') \in Nat /\ Len(mounts') \in Nat
          /\ modules' \in Seq(ModuleType) /\ mounts' \in Seq(MountType) /\ container' \subseteq Objects
      BY <3>2, <3>4 DEF Adds
    <3>7. injected' \subseteq Objects /\ applied' \subseteq Objects
      <4>1. {c} \in SUBSET Objects
        BY <2>4 DEF Objects
      <4>. QED BY <1>3, <2>7, <4>1
    <3>8. RegistryType'
      <4>1. builtUpTo' \in [modules : 0..Len(modules'), mounts : 0..Len(mounts')]
        BY <1>2, <2>1, <3>6
      <4>. QED BY <3>6, <3>7, <4>1 DEF RegistryType
    <3>9. WithinRound'
      BY <1>2, <1>4, <2>1, <2>2, <3>5, <3>6 DEF WithinRound
    <3>10. MountsDone' = n /\ ModulesDone' = ModulesDone /\ ModulesDone \in Nat /\ ModulesDone <= Len(modules)
      <4>1. ModulesDone \in Nat /\ ModulesDone <= Len(modules)
        BY <1>0, DoneTyped DEF Entries
      <4>. QED BY <1>2, <2>1, <2>4, <3>5, <4>1 DEF ModulesDone, MountsDone
    <3>11. OrderedMounts(mt, n, "mountBuild")
      <4>1. OrderedMounts(mounts, n - 1, "mountBuild")
        BY <2>1, <2>4 DEF Entries
      <4>2. n \in Nat
        BY <1>2, <2>4
      <4>3. \A i \in 1..Len(mt) : i # n => i \in 1..Len(mounts) /\ mt[i] = mounts[i]
                                         /\ (i <= n => i <= n - 1) /\ (i > n => i > n - 1)
        BY <1>2, <3>2, <4>2
      <4>4. ~(n > n) /\ n <= n
        BY <4>2
      <4>. QED BY <3>2, <4>1, <4>3, <4>4 DEF OrderedMounts
    <3>12. Ordered(modules, ModulesDone, "mountBuild", load)
      BY <2>1 DEF Entries
    <3>13. Ordered(modules', ModulesDone, "mountBuild", load) /\ OrderedMounts(mounts', n, "mountBuild")
      <4>1. n \in Nat /\ n <= Len(mt) /\ load.at # "built"
        BY <1>1, <1>2, <2>4, <3>2
      <4>. HIDE DEF ModulesDone
      <4>. QED BY <3>4, <3>10, <3>11, <3>12, <4>1, AddsKeepOrder
    <3>14. HasEntry(modules', load')
      BY <1>0, <1>1 DEF HasEntry
    <3>15. AllBuilt'
      BY <3>5 DEF AllBuilt
    <3>. QED BY <1>0, <3>5, <3>8, <3>9, <3>10, <3>13, <3>14, <3>15 DEF Entries
  <2>. QED BY <1>5, <2>1, <2>6, <2>7
<1>13. CASE MarksMounts
  <2>1. /\ UNCHANGED <<container, modules, mounts, load, injected, applied>> /\ build.at = "mountBuild"
        /\ build'.at = "snapshot" /\ builtUpTo' = [builtUpTo EXCEPT !.mounts = build.end]
        /\ build.next > build.end
    BY <1>0, <1>13 DEF MarksMounts, Building, BuildType
  <2>2. build.end \in 0..Len(mounts) /\ build.end = build.next - 1
    BY <1>2, <1>4, <2>1 DEF WithinRound
  <2>3. builtUpTo' = [modules |-> builtUpTo.modules, mounts |-> build.end]
    BY <1>2, <2>1
  <2>4. RegistryType' /\ WithinRound'
    BY <1>2, <2>1, <2>2, <2>3 DEF RegistryType, WithinRound
  <2>5. ModulesDone' = ModulesDone /\ MountsDone' = MountsDone
    BY <2>1, <2>2, <2>3 DEF ModulesDone, MountsDone
  <2>. QED BY <2>1, <2>4, <2>5, SameDone
<1>14. CASE /\ build.at \in {"snapshot", "inject"} /\ build'.at \in {"modules", "inject", "count"}
            /\ UNCHANGED <<container, modules, mounts, builtUpTo>>
            /\ injected' \subseteq Objects /\ applied' \subseteq Objects
  <2>1. RegistryType' /\ WithinRound'
    BY <1>2, <1>14 DEF RegistryType, WithinRound
  <2>2. ModulesDone' = ModulesDone /\ MountsDone' = MountsDone
    BY <1>14 DEF ModulesDone, MountsDone
  <2>. QED BY <1>0, <1>14, <2>1, <2>2, SameDone
<1>15. CASE TakesSnapshot
  <2>1. build.at = "snapshot" /\ UNCHANGED <<container, modules, mounts, builtUpTo>>
    BY <1>15 DEF TakesSnapshot, Building
  <2>2. CASE BuildFails
    BY <1>5, <2>1, <2>2
  <2>3. CASE ~BuildFails
    <3>1. build'.at \in {"modules", "inject"} /\ injected' \subseteq Objects /\ applied' \subseteq Objects
      BY <1>0, <1>2, <1>15, <2>3 DEF TakesSnapshot, NextRound, BuildType
    <3>. QED BY <1>14, <2>1, <3>1
  <2>. QED BY <2>2, <2>3
<1>16. CASE InjectsBeans
  <2>1. build.at = "inject" /\ UNCHANGED <<container, modules, mounts, builtUpTo>>
    BY <1>16 DEF InjectsBeans, Building
  <2>2. CASE BuildFails
    BY <1>5, <2>1, <2>2
  <2>3. CASE Apply(container) /\ build' = [build EXCEPT !.at = "count"]
    <3>1. build'.at = "count" /\ injected' \subseteq Objects /\ applied' \subseteq Objects
      BY <1>0, <1>2, <1>3, <2>3 DEF BuildType
    <3>. QED BY <1>14, <2>1, <3>1
  <2>. QED BY <1>16, <2>2, <2>3 DEF InjectsBeans
<1>17. CASE Seals
  <2>1. build.at = "seal" /\ UNCHANGED <<container, modules, mounts, builtUpTo>>
    BY <1>17 DEF Seals, Building
  <2>2. /\ build'.at = "sealed" /\ injected' = injected /\ applied' = {}
        /\ builtUpTo = [modules |-> Len(modules), mounts |-> Len(mounts)]
    BY <1>17, <2>1 DEF Seals, BuildEnds, CountTells, NothingPending
  <2>3. RegistryType' /\ WithinRound'
    BY <1>2, <2>1, <2>2 DEF RegistryType, WithinRound
  <2>4. /\ ModulesDone' = Len(modules) /\ MountsDone' = Len(mounts)
        /\ ModulesDone = Len(modules) /\ MountsDone = Len(mounts)
    BY <2>1, <2>2 DEF ModulesDone, MountsDone
  <2>5. /\ Ordered(modules, Len(modules), "sealed", load) /\ OrderedMounts(mounts, Len(mounts), "sealed")
        /\ HasEntry(modules, load)
    <3>1. /\ Ordered(modules, Len(modules), "seal", load) /\ OrderedMounts(mounts, Len(mounts), "seal")
      BY <2>1, <2>4 DEF Entries
    <3>. QED BY <3>1 DEF Entries, Ordered, OrderedMounts
  <2>6. AllBuilt'
    <3>1. \A i \in 1..Len(modules) : i <= Len(modules)
      BY <1>2
    <3>2. \A i \in 1..Len(mounts) : i <= Len(mounts)
      BY <1>2
    <3>. QED BY <2>1, <2>5, <3>1, <3>2 DEF AllBuilt, Ordered, OrderedMounts
  <2>. QED BY <1>0, <2>1, <2>2, <2>3, <2>4, <2>5, <2>6 DEF Entries
<1>19. CASE CountsBeans
  <2>1. build.at = "count" /\ UNCHANGED <<container, modules, mounts, builtUpTo, load>>
    BY <1>0, <1>19 DEF CountsBeans, Building
  <2>2. CASE BuildFails
    BY <1>5, <2>1, <2>2
  <2>3. CASE ~BuildFails
    <3>1. /\ build'.at \in {"seal", "modules"}
          /\ injected' \subseteq Objects /\ applied' \subseteq Objects
      BY <1>0, <1>2, <1>19, <2>3 DEF CountsBeans, NextRound, BuildType
    <3>2. RegistryType' /\ WithinRound'
      BY <1>2, <2>1, <3>1 DEF RegistryType, WithinRound
    <3>3. ModulesDone' = ModulesDone /\ MountsDone' = MountsDone
      BY <2>1, <3>1 DEF ModulesDone, MountsDone
    <3>. QED BY <2>1, <3>1, <3>2, <3>3, SameDone
  <2>. QED BY <2>2, <2>3
<1>18. CASE BuildExpires \/ BuildErrs
  BY <1>5, <1>18 DEF BuildExpires, BuildErrs
<1>. QED BY <1>6, <1>7, <1>8, <1>9, <1>10, <1>11, <1>12, <1>13, <1>15, <1>16, <1>17, <1>18, <1>19 DEF Builds

-----------------------------------------------------------------------------
(* The count of the beans.                                                 *)

CountFacts == CountTells /\ (build.at = "sealed" => removedSince \/ container \ late \subseteq injected)

\* A set of objects that only grows has no fewer members, and the same ones
\* if it has as many.
LEMMA Grown ==
  ASSUME NEW A, NEW B \in SUBSET Objects, A \subseteq B
  PROVE  /\ Cardinality(A) \in Nat /\ Cardinality(B) \in Nat /\ Cardinality(A) <= Cardinality(B)
         /\ A = B \/ Cardinality(A) < Cardinality(B)
<1>1. IsFiniteSet(B)
  BY BuildAssumption, FS_Subset
<1>2. IsFiniteSet(A) /\ Cardinality(A) <= Cardinality(B) /\ (Cardinality(A) = Cardinality(B) => A = B)
  BY <1>1, FS_Subset
<1>3. Cardinality(A) \in Nat /\ Cardinality(B) \in Nat
  BY <1>1, <1>2, FS_CardinalityType
<1>. QED BY <1>2, <1>3

\* Every step keeps what the number of beans tells.
LEMMA CountKept ==
  ASSUME GateFacts, RegistryType, CountFacts, BuildNext, RegistryType'
  PROVE  CountFacts'
<1>0. /\ container \subseteq Objects /\ container' \subseteq Objects /\ build.count \in Nat
      /\ Cardinality(container) \in Nat /\ Cardinality(container') \in Nat
      /\ registration = "open" <=> build.at \notin {"sealed", "failed"}
      /\ build \in BuildType
  <2>1. container \subseteq Objects /\ container' \subseteq Objects
    BY DEF RegistryType
  <2>2. build.count \in Nat /\ build \in BuildType
    BY DEF GateFacts, ControlType, BuildType
  <2>3. registration = "open" <=> build.at \notin {"sealed", "failed"}
    BY DEF GateFacts, LoadsBeforeBuild
  <2>. QED BY <2>1, <2>2, <2>3, Grown
<1>1. CASE /\ container \subseteq container' /\ registration = "open" /\ build.at # "seal"
           /\ UNCHANGED <<build, injected, removedSince, late>>
  <2>1. /\ Cardinality(container) <= Cardinality(container')
        /\ container = container' \/ Cardinality(container) < Cardinality(container')
    BY <1>0, <1>1, Grown
  <2>2. build.at # "sealed"
    BY <1>0, <1>1
  <2>3. Cardinality(container) >= build.count => Cardinality(container') >= build.count
    BY <1>0, <2>1
  <2>4. /\ Cardinality(container) > build.count => Cardinality(container') > build.count
        /\ container # container' /\ Cardinality(container) >= build.count
             => Cardinality(container') > build.count
    BY <1>0, <2>1
  <2>. QED BY <1>1, <2>2, <2>3, <2>4 DEF CountFacts, CountTells
<1>2. CASE UNCHANGED <<container, modules, mounts, builtUpTo, injected, removedSince, late>>
           /\ (build' = build \/ (build.at = "off" /\ build'.at = "modules"))
  <2>1. NothingPending' = NothingPending
    BY <1>2 DEF NothingPending
  <2>. QED BY <1>2, <2>1 DEF CountFacts, CountTells
<1>3. CASE /\ build'.at \notin {"inject", "count", "seal", "sealed"}
           /\ late' = late /\ build.at \notin {"seal", "sealed"}
  BY <1>3 DEF CountFacts, CountTells
<1>4. CASE \E x \in Objects : UserRegisters(x)
  BY <1>1, <1>4 DEF UserRegisters, Register, RegistrationLockFree
<1>5. CASE UserRoutes
  BY <1>2, <1>5 DEF UserRoutes
<1>6. CASE \E b \in Beans : SetsDirectly(b)
  <2>1. CASE build.at = "seal"
    <3>1. PICK b : /\ container' = container \cup {b} /\ late' = late \cup {b}
                   /\ UNCHANGED <<modules, mounts, builtUpTo, injected, build, removedSince>>
      BY <1>6, <2>1 DEF SetsDirectly
    <3>2. NothingPending' = NothingPending
      BY <3>1 DEF NothingPending
    <3>3. container' \ late' \subseteq container \ late
      BY <3>1
    <3>. QED BY <2>1, <3>1, <3>2, <3>3 DEF CountFacts, CountTells
  <2>2. CASE build.at # "seal"
    BY <1>1, <1>6, <2>2 DEF SetsDirectly
  <2>. QED BY <2>1, <2>2
<1>7. CASE \E b \in Beans : RemovesDirectly(b)
  <2>1. /\ build' = build /\ build.at # "sealed" /\ late' = late
        /\ removedSince' = (removedSince \/ build.at \in {"inject", "count"})
        /\ container' \subseteq container /\ UNCHANGED <<modules, mounts, builtUpTo, injected>>
    BY <1>0, <1>7 DEF RemovesDirectly
  <2>2. CASE build.at \in {"inject", "count"}
    BY <2>1, <2>2 DEF CountFacts, CountTells
  <2>3. CASE build.at = "seal"
    <3>1. NothingPending' = NothingPending
      BY <2>1 DEF NothingPending
    <3>. QED BY <2>1, <2>3, <3>1 DEF CountFacts, CountTells
  <2>4. CASE build.at \notin {"inject", "count", "seal"}
    BY <1>3, <2>1, <2>4
  <2>. QED BY <2>2, <2>3, <2>4
<1>8. CASE Loads
  <2>1. load.at # "idle" /\ build' = build /\ late' = late
    BY <1>8 DEF Loads, LoadAdds, LoadInjects, LoadBuilds, LoadMarks, LoadReturns
  <2>2. build.at = "off"
    BY <2>1, LoadExcludesBuild
  <2>. QED BY <1>3, <2>1, <2>2
<1>9. CASE \E p \in Plugins : LoadBegins(p)
  BY <1>2, <1>9 DEF LoadBegins, registryVars
<1>10. CASE \E a \in Appliers : ApplyCalled(a) \/ Closes(a) \/ CloseExpires(a)
  <2>1. PICK a \in Appliers : ApplyCalled(a) \/ Closes(a) \/ CloseExpires(a)
    BY <1>10
  <2>2. UNCHANGED <<container, modules, mounts, builtUpTo, injected, removedSince, late>>
    BY <2>1 DEF ApplyCalled, Closes, CloseRegistration, CloseDrained, ApplyStarts, ApplyReturns,
       CloseExpires, AppliesUnchanged, registryVars
  <2>3. CASE ApplyStarts(a)
    <3>1. build' = build \/ (build.at = "off" /\ build'.at = "modules")
      BY <1>0, <2>3 DEF ApplyStarts, BuildType
    <3>. QED BY <1>2, <2>2, <3>1
  <2>4. CASE ~ApplyStarts(a)
    <3>1. build' = build
      BY <2>1, <2>4 DEF ApplyCalled, Closes, CloseRegistration, CloseDrained, ApplyReturns, CloseExpires
    <3>. QED BY <1>2, <2>2, <3>1
  <2>. QED BY <2>3, <2>4
<1>11. CASE BuildFails /\ late' = late /\ build.at \notin {"seal", "sealed"}
  BY <1>3, <1>11, FailsTyped
<1>12. CASE BuildExpires \/ BuildErrs
  BY <1>11, <1>12 DEF BuildExpires, BuildErrs
<1>13. CASE Builds
  <2>1. CASE TakesModules \/ SkipsModule \/ BuildsModule \/ MarksModules
             \/ InjectsBeforeControllers \/ TakesMounts \/ BuildsController \/ MarksMounts
    <3>1. late' = late /\ build.at \notin {"seal", "sealed"}
      BY <2>1 DEF TakesModules, SkipsModule, BuildsModule, MarksModules,
         InjectsBeforeControllers, TakesMounts, BuildsController, MarksMounts, Building
    <3>2. CASE ~BuildFails
      <4>1. build'.at \in {"build", "mark", "mounts", "mountBuild", "snapshot"}
        BY <1>0, <2>1, <3>2 DEF TakesModules, SkipsModule, BuildsModule, MarksModules,
           InjectsBeforeControllers, TakesMounts, BuildsController, MarksMounts, Building, BuildType
      <4>. QED BY <1>3, <3>1, <4>1
    <3>. QED BY <1>11, <3>1, <3>2
  <2>2. CASE TakesSnapshot
    <3>0. build.at = "snapshot" /\ late' = late
      BY <2>2 DEF TakesSnapshot, Building
    <3>1. CASE NothingPending
      <4>1. /\ build'.at = "inject" /\ build'.count = Cardinality(container)
            /\ container' = container
        BY <1>0, <2>2, <3>1 DEF TakesSnapshot, BuildType
      <4>. QED BY <1>0, <3>0, <4>1 DEF CountFacts, CountTells
    <3>2. CASE ~NothingPending /\ ~BuildFails
      <4>1. build'.at = "modules"
        BY <1>0, <2>2, <3>2 DEF TakesSnapshot, NextRound, BuildType
      <4>. QED BY <1>3, <3>0, <4>1
    <3>. QED BY <1>11, <3>0, <3>1, <3>2
  <2>3. CASE InjectsBeans
    <3>0. build.at = "inject" /\ UNCHANGED <<container, removedSince, late>>
      BY <2>3 DEF InjectsBeans, Building, registryVars
    <3>1. CASE ~BuildFails
      <4>1. build'.at = "count" /\ build'.count = build.count /\ injected' = injected \cup container
        BY <1>0, <2>3, <3>1 DEF InjectsBeans, Apply, BuildType
      <4>. QED BY <3>0, <4>1 DEF CountFacts, CountTells
    <3>. QED BY <1>11, <3>0, <3>1
  <2>4. CASE CountsBeans
    <3>0. /\ build.at = "count"
          /\ UNCHANGED <<container, modules, mounts, builtUpTo, removedSince, late>>
      BY <2>4 DEF CountsBeans, Building, registryVars
    <3>1. CASE Undisturbed
      <4>1. /\ build'.at = "seal" /\ injected' = injected /\ NothingPending
            /\ Cardinality(container) = build.count
        BY <1>0, <2>4, <3>1 DEF CountsBeans, Undisturbed, BuildType
      <4>2. ~(Cardinality(container) > build.count)
        BY <1>0, <4>1
      <4>3. NothingPending'
        BY <3>0, <4>1 DEF NothingPending
      <4>. QED BY <3>0, <4>1, <4>2, <4>3 DEF CountFacts, CountTells
    <3>2. CASE ~Undisturbed /\ ~BuildFails
      <4>1. build'.at = "modules"
        BY <1>0, <2>4, <3>2 DEF CountsBeans, NextRound, BuildType
      <4>. QED BY <1>3, <3>0, <4>1
    <3>. QED BY <1>11, <3>0, <3>1, <3>2
  <2>5. CASE Seals
    <3>1. /\ build.at = "seal" /\ build'.at = "sealed"
          /\ UNCHANGED <<container, injected, removedSince, late>>
      BY <2>5 DEF Seals, Building, BuildEnds, registryVars
    <3>. QED BY <3>1 DEF CountFacts, CountTells
  <2>. QED BY <1>13, <2>1, <2>2, <2>3, <2>4, <2>5 DEF Builds
<1>. QED BY <1>4, <1>5, <1>6, <1>7, <1>8, <1>9, <1>10, <1>11, <1>12, <1>13 DEF BuildNext
-----------------------------------------------------------------------------
(* The build.                                                              *)

BuildFacts == GateFacts /\ RegistryType /\ Entries /\ CountFacts

\* The inductive invariant in four parts.
LEMMA BuildParts == BuildIInv <=> BuildFacts
<1>1. BuildTypeOK <=> ControlType /\ RegistryType
  BY BuildTypes
<1>2. RegistryType => (EntriesHold <=> Entries)
  BY EntriesParts
<1>3. LoadHasEntry /\ BuiltInOrder /\ CountTells /\ SealedMeansBuilt <=> EntriesHold /\ CountFacts
  BY DEF EntriesHold, CountFacts, SealedMeansBuilt
<1>. QED BY <1>1, <1>2, <1>3 DEF BuildIInv, BuildFacts, GateFacts

\* The same after a step.
LEMMA BuildPartsNext == BuildFacts' => BuildIInv'
BY BuildParts, PTL

\* Nothing is registered.
LEMMA BuildStarts == BuildInit => BuildIInv
<1>. SUFFICES ASSUME BuildInit PROVE BuildFacts
  BY BuildParts
<1>0. modules = <<>> /\ mounts = <<>> /\ Len(modules) = 0 /\ Len(mounts) = 0
  BY DEF BuildInit
<1>1. ControlType
  <2>1. 0 \in 0..RoundLimit /\ 0 \in 0..1 /\ "off" \in BuildSteps
    BY BuildAssumption DEF BuildSteps
  <2>. QED BY <2>1 DEF BuildInit, ControlType
<1>2. LoadsBeforeBuild
  BY DEF BuildInit, LoadsBeforeBuild
<1>3. RegistryType
  <2>1. <<>> \in Seq(ModuleType) /\ <<>> \in Seq(MountType)
    OBVIOUS
  <2>2. builtUpTo \in [modules : 0..Len(modules), mounts : 0..Len(mounts)]
    BY <1>0 DEF BuildInit
  <2>. QED BY <1>0, <2>1, <2>2 DEF BuildInit, RegistryType
<1>4. Entries
  <2>1. \A i \in 1..0 : FALSE
    OBVIOUS
  <2>. QED BY <1>0, <2>1 DEF BuildInit, Entries, Ordered, OrderedMounts, HasEntry, WithinRound, AllBuilt
<1>5. CountFacts
  BY DEF BuildInit, CountFacts, CountTells
<1>. QED BY <1>1, <1>2, <1>3, <1>4, <1>5 DEF BuildFacts, GateFacts

\* Every step keeps what is registered, built and injected in agreement.
LEMMA BuildKept == BuildIInv /\ [BuildNext]_buildVars => BuildIInv'
<1>. SUFFICES ASSUME BuildIInv, [BuildNext]_buildVars PROVE BuildFacts'
  BY BuildPartsNext
<1>0. /\ GateFacts /\ ControlType /\ RegistryType /\ Entries /\ CountFacts
      /\ registration = "open" <=> build.at \notin {"sealed", "failed"}
  BY BuildParts DEF BuildFacts, GateFacts, LoadsBeforeBuild
<1>1. GateFacts'
  BY <1>0, GateKept
<1>2. CASE UNCHANGED buildVars
  <2>1. RegistryType' /\ CountFacts'
    BY <1>0, <1>2 DEF buildVars, RegistryType, CountFacts, CountTells, NothingPending
  <2>2. Entries'
    BY <1>0, <1>2 DEF buildVars, Entries, ModulesDone, MountsDone, WithinRound, AllBuilt
  <2>. QED BY <1>1, <2>1, <2>2 DEF BuildFacts
<1>3. CASE BuildNext
  <2>0. /\ container \subseteq Objects /\ injected \subseteq Objects /\ applied \subseteq Objects
        /\ modules \in Seq(ModuleType) /\ mounts \in Seq(MountType)
    BY <1>0 DEF RegistryType
  <2>1. ASSUME NEW x \in Objects, UserRegisters(x) PROVE RegistryType' /\ Entries'
    <3>1. PICK S : S = {x}
      OBVIOUS
    <3>2. Adds(modules, mounts, S)
      BY <2>0, <2>1, <3>1, AddsEntries DEF UserRegisters, Register
    <3>3. /\ UNCHANGED <<builtUpTo, build, load, injected, applied>> /\ build.at # "sealed"
          /\ x \notin Plugins
      BY <1>0, <2>1 DEF UserRegisters
    <3>4. load'.at \in {"added", "ready", "built"} => load'.mod \notin S
      BY <1>0, <3>1, <3>3 DEF ControlType
    <3>. QED BY <1>0, <2>0, <3>2, <3>3, <3>4, QuietAdds
  <2>2. ASSUME UserRoutes \/ \E b \in Beans : SetsDirectly(b) \/ RemovesDirectly(b)
       PROVE  RegistryType' /\ Entries'
    <3>1. /\ UNCHANGED <<modules, mounts, injected, applied, builtUpTo, build, load>>
          /\ container' \subseteq Objects
      BY <2>0, <2>2 DEF UserRoutes, SetsDirectly, RemovesDirectly, Objects
    <3>2. injected' \subseteq Objects /\ applied' \subseteq Objects
      BY <2>0, <3>1
    <3>. QED BY <1>0, <3>1, <3>2, SameEntries
  <2>3. ASSUME NEW p \in Plugins, LoadBegins(p) PROVE RegistryType' /\ Entries'
    <3>1. /\ UNCHANGED <<container, modules, mounts, injected, applied, builtUpTo, build>>
          /\ load'.at = "begun" /\ load.at # "built"
      BY <2>3 DEF LoadBegins, registryVars
    <3>. QED BY <1>0, <2>0, <3>1, SameEntries
  <2>4. ASSUME LoadInjects \/ LoadReturns
       PROVE  RegistryType' /\ Entries'
    <3>1. /\ UNCHANGED <<container, modules, mounts, applied, builtUpTo, build>>
          /\ load.at # "built"
          /\ load'.at = "idle" \/ (load'.at = "ready" /\ load.at = "added" /\ load'.mod = load.mod)
      BY <1>0, <2>4 DEF LoadInjects, LoadReturns, LoadEnds, registryVars, ControlType
    <3>2. load.at # "idle" /\ load.mod \in Objects
      <4>1. load.at # "idle"
        BY <2>4 DEF LoadInjects, LoadReturns
      <4>. QED BY <1>0, <4>1, BuildAssumption DEF ControlType, Objects
    <3>3. injected' \subseteq Objects /\ applied' \subseteq Objects /\ container' \subseteq Objects
      BY <2>0, <2>4, <3>1, <3>2 DEF LoadInjects, LoadReturns
    <3>4. \/ load' = load
          \/ load'.at \in {"idle", "begun"} /\ load.at # "built"
          \/ load'.at = "ready" /\ load.at = "added" /\ load'.mod = load.mod
      BY <3>1
    <3>. QED BY <1>0, <3>1, <3>3, <3>4, SameEntries
  <2>5. ASSUME LoadAdds \/ LoadBuilds \/ LoadMarks
       PROVE  RegistryType' /\ Entries'
    BY <1>0, <2>5, LoadKeepsEntries
  <2>6. ASSUME NEW a \in Appliers, ApplyCalled(a) \/ Closes(a) \/ CloseExpires(a)
        PROVE  RegistryType' /\ Entries'
    <3>1. UNCHANGED <<container, modules, mounts, injected, applied, builtUpTo, load>>
      BY <2>6 DEF ApplyCalled, Closes, CloseRegistration, CloseDrained, ApplyStarts, ApplyReturns,
         CloseExpires, AppliesUnchanged, registryVars
    <3>2. build' = build \/ (build.at = "off" /\ build'.at = "modules")
      <4>1. build \in BuildType
        BY <1>0 DEF ControlType, BuildType
      <4>2. CASE ApplyStarts(a)
        BY <4>1, <4>2 DEF ApplyStarts, BuildType
      <4>3. CASE ~ApplyStarts(a)
        BY <2>6, <4>3 DEF ApplyCalled, Closes, CloseRegistration, CloseDrained, ApplyReturns, CloseExpires
      <4>. QED BY <4>2, <4>3
    <3>3. injected' \subseteq Objects /\ applied' \subseteq Objects /\ container' \subseteq Objects
      BY <2>0, <3>1
    <3>. QED BY <1>0, <3>1, <3>2, <3>3, SameEntries
  <2>7. ASSUME Builds \/ BuildExpires \/ BuildErrs
       PROVE  RegistryType' /\ Entries'
    BY <1>0, <2>7, BuildKeepsEntries DEF CountFacts
  <2>8. RegistryType' /\ Entries'
    BY <1>3, <2>1, <2>2, <2>3, <2>4, <2>5, <2>6, <2>7 DEF BuildNext, Loads
  <2>9. CountFacts'
    BY <1>0, <1>3, <2>8, CountKept
  <2>. QED BY <1>1, <2>8, <2>9 DEF BuildFacts
<1>. QED BY <1>2, <1>3
=============================================================================
