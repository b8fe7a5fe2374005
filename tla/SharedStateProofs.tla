-------------------------- MODULE SharedStateProofs --------------------------
(***************************************************************************)
(* Proofs about the small components in which several actors share one     *)
(* thing: the cron key, gin's mode, the rate limiters, the connection      *)
(* slots, a row with its version, the lifecycle in compatibility mode, the *)
(* default facade, the container and the lifecycle's list, the table of    *)
(* plugin routes, and the files of a project.  For each, the invariant     *)
(* that its module names XIInv holds at the start and is kept by every     *)
(* step, whatever the constants; what the component promises is a conjunct *)
(* of it or follows from it.                                               *)
(*                                                                         *)
(* Where a definition is recursive (Scan, SetEntries), that the function   *)
(* exists and what it computes are proved by the least number that would   *)
(* be a counterexample (SomeLeast).                                        *)
(***************************************************************************)
EXTENDS CronLock, GinMode, Limiter, WebSockets, Records, LifecycleCompat, Facade,
        Container, PluginRoutes, Generation, FiniteSetTheorems, SequenceTheorems,
        WellFoundedInduction, TLAPS

\* A set of naturals has a least element.
LEMMA SomeLeast ==
  ASSUME NEW S \in SUBSET Nat, S # {}
  PROVE  \E x \in S : \A y \in S : x <= y
<1>. DEFINE R == OpToRel(<, Nat)
<1>1. IsWellFoundedOn(R, Nat)
  BY NatLessThanWellFounded
<1>2. \A x, y \in Nat : <<x, y>> \in R <=> x < y
  BY DEF OpToRel
<1>. HIDE DEF R
<1>3. PICK x \in S : \A y \in S : ~ (<<y, x>> \in R)
  BY <1>1, WFMin
<1>4. \A y \in S : y \in Nat /\ x \in Nat /\ ~ (y < x)
  BY <1>2, <1>3
<1>5. \A y \in S : x <= y
  BY <1>4
<1>. QED BY <1>5

-----------------------------------------------------------------------------
(* The cron lock.                                                          *)

\* No node has fired.
LEMMA CronStarts == CronInit => CronIInv
BY CronAssumption DEF CronInit, Firings, CronIInv, CronTypeOK, OwnersAreDrawnOnce,
   RunningHoldsKey

\* Every step keeps owners, key and jobs in agreement.
LEMMA CronKept == CronIInv /\ [CronNext]_cronVars => CronIInv'
<1>. SUFFICES ASSUME CronIInv, [CronNext]_cronVars PROVE CronIInv'
  OBVIOUS
<1>. USE CronAssumption DEF Firings
<1>0. /\ key \in Nat /\ fired \in Nat /\ mine \in [Nodes -> SUBSET Firings]
      /\ job \in [Firings -> {"due", "acquire", "run", "release", "over"}]
  BY DEF CronIInv, CronTypeOK
<1>1. ASSUME NEW n \in Nodes, Fires(n) PROVE CronIInv'
  <2>1. fired + 1 \in Firings /\ fired' = fired + 1
    BY <1>0, <1>1 DEF Fires
  <2>2. /\ mine'[n] = mine[n] \cup {fired + 1} /\ \A m \in Nodes \ {n} : mine'[m] = mine[m]
        /\ job'[fired + 1] = "acquire" /\ \A f \in Firings \ {fired + 1} : job'[f] = job[f]
    BY <1>0, <1>1, <2>1 DEF Fires
  <2>3. CronTypeOK'
    BY <1>0, <1>1, <2>1, <2>2 DEF Fires, CronIInv, CronTypeOK
  <2>4. OwnersAreDrawnOnce'
    BY <1>0, <1>1, <2>1, <2>2 DEF Fires, CronIInv, OwnersAreDrawnOnce
  <2>5. \A m \in Nodes : fired + 1 \notin mine[m]
    BY <1>0 DEF CronIInv, OwnersAreDrawnOnce
  <2>6. RunningHoldsKey'
    BY <1>0, <1>1, <2>1, <2>2, <2>5 DEF Fires, CronIInv, RunningHoldsKey
  <2>. QED BY <2>3, <2>4, <2>6 DEF CronIInv
<1>2. ASSUME NEW f \in Firings, Acquires(f) PROVE CronIInv'
  <2>1. /\ job'[f] \in {"run", "over"} /\ job' \in [Firings -> {"due", "acquire", "run", "release", "over"}]
        /\ \A g \in Firings \ {f} : job'[g] = job[g]
    BY <1>0, <1>2 DEF Acquires
  <2>2. f \in 1 .. fired /\ key' \in {key, f}
    BY <1>0, <1>2 DEF Acquires, CronIInv, OwnersAreDrawnOnce
  <2>3. CronTypeOK' /\ OwnersAreDrawnOnce'
    BY <1>0, <1>2, <2>1, <2>2 DEF Acquires, CronIInv, CronTypeOK, OwnersAreDrawnOnce
  <2>4. RunningHoldsKey'
    BY <1>0, <1>2, <2>1 DEF Acquires, CronIInv, RunningHoldsKey
  <2>. QED BY <2>3, <2>4 DEF CronIInv
<1>3. ASSUME NEW f \in Firings, JobEnds(f) PROVE CronIInv'
  BY <1>0, <1>3 DEF JobEnds, CronIInv, CronTypeOK, OwnersAreDrawnOnce, RunningHoldsKey
<1>4. ASSUME NEW f \in Firings, Releases(f) PROVE CronIInv'
  <2>1. job'[f] = "over" /\ \A g \in Firings \ {f} : job'[g] = job[g]
    BY <1>0, <1>4 DEF Releases
  <2>2. key' = key \/ (key = f /\ key' = 0)
    BY <1>4 DEF Releases, DeleteKey
  <2>3. CronTypeOK'
    BY <1>0, <1>4, <2>2 DEF Releases, CronIInv, CronTypeOK
  <2>4. OwnersAreDrawnOnce'
    BY <1>0, <1>4, <2>1, <2>2 DEF Releases, CronIInv, OwnersAreDrawnOnce
  <2>5. RunningHoldsKey'
    BY <1>0, <1>4, <2>1, <2>2 DEF Releases, CronIInv, RunningHoldsKey
  <2>. QED BY <2>3, <2>4, <2>5 DEF CronIInv
<1>5. CASE KeyExpires
  BY <1>0, <1>5 DEF KeyExpires, CronIInv, CronTypeOK, OwnersAreDrawnOnce, RunningHoldsKey
<1>6. ASSUME NEW n \in Nodes, StopScheduler(n) \/ StopEnds(n) PROVE CronIInv'
  <2>1. UNCHANGED <<key, fired, mine, job, lapsed>>
    BY <1>6 DEF StopScheduler, StopEnds
  <2>2. CronTypeOK'
    BY <1>6, <2>1 DEF StopScheduler, StopEnds, CronIInv, CronTypeOK
  <2>3. \A m \in Nodes : scheduler'[m] = "stopped"
          => scheduler[m] = "stopped" \/ \A f \in mine[m] : job[f] = "over"
    BY <1>6 DEF StopScheduler, StopEnds, CronIInv, CronTypeOK
  <2>. QED BY <2>1, <2>2, <2>3 DEF CronIInv, OwnersAreDrawnOnce, RunningHoldsKey
<1>7. CASE UNCHANGED cronVars
  BY <1>7 DEF cronVars, CronIInv, CronTypeOK, OwnersAreDrawnOnce, RunningHoldsKey
<1>. QED BY <1>1, <1>2, <1>3, <1>4, <1>5, <1>6, <1>7 DEF CronNext

-----------------------------------------------------------------------------
(* Gin's mode.                                                             *)

\* No engine has been constructed.
LEMMA GinModeStarts == GinModeInit => GinModeIInv
<1>. SUFFICES ASSUME GinModeInit PROVE GinModeIInv
  OBVIOUS
<1>1. ginMode \in GinModes
  BY GinModeAssumption DEF GinModeInit
<1>. QED BY <1>1 DEF GinModeInit, GinModeIInv, GinModeTypeOK, ReservationIsOwned,
     ConstructionIsAlone, GinModeKept, StrictEngines

\* Every step keeps the mode of the strict engines that live.
LEMMA GinModeStays == GinModeIInv /\ [GinModeNext]_ginVars => GinModeIInv'
<1>. SUFFICES ASSUME GinModeIInv, [GinModeNext]_ginVars PROVE GinModeIInv'
  OBVIOUS
<1>. USE DEF GinModeIInv
<1>0. /\ engines \in Seq(Requested) /\ Len(engines) \in Nat
      /\ DOMAIN engines = 1 .. Len(engines)
      /\ ginMode \in GinModes /\ reservedMode \subseteq GinModes
  BY DEF GinModeTypeOK
<1>1. ASSUME NEW request \in Requested, EngineStarts(request) PROVE GinModeIInv'
  <2>0. request.mode \in GinModes
    BY DEF Requested
  <2>1. (\A m, other \in reservedMode' : m = other) /\ reservedMode' \subseteq GinModes
        /\ (modeOwners' = {} => reservedMode' = {})
    BY <1>0, <1>1 DEF EngineStarts, PruneOwners, GinModeTypeOK
  <2>2. GinModeTypeOK'
    <3>1. construction' \subseteq [request : Requested, previous : GinModes]
      BY <1>0, <1>1 DEF EngineStarts
    <3>2. ginMode' \in GinModes /\ engines' = engines /\ endedOwners' = endedOwners
          /\ modeOwners' \subseteq modeOwners
      BY <1>0, <1>1, <2>0 DEF EngineStarts, PruneOwners
    <3>. QED BY <2>1, <3>1, <3>2 DEF GinModeTypeOK
  <2>3. StrictEngines' = StrictEngines
    BY <1>1 DEF EngineStarts, StrictEngines
  <2>4. \A e \in StrictEngines : e \in modeOwners' /\ reservedMode' = reservedMode
    BY <1>1 DEF EngineStarts, PruneOwners, StrictEngines, ReservationIsOwned
  <2>5. CASE reservedMode' \subseteq {request.mode}
    <3>1. construction' = {[request |-> request, previous |-> ginMode]}
          /\ ginMode' = request.mode /\ engines' = engines
      BY <1>1, <2>5 DEF EngineStarts
    <3>2. \A e \in StrictEngines : /\ e \in modeOwners' /\ reservedMode' = {engines[e].mode}
                                   /\ ginMode = engines[e].mode
      BY <2>4 DEF ReservationIsOwned, GinModeKept
    <3>3. \A e \in StrictEngines : request.mode = engines[e].mode
      BY <2>5, <3>2
    <3>. QED BY <2>2, <2>3, <2>5, <3>1, <3>2, <3>3
         DEF ReservationIsOwned, ConstructionIsAlone, GinModeKept
  <2>6. CASE ~ (reservedMode' \subseteq {request.mode})
    BY <1>1, <2>2, <2>3, <2>4, <2>6 DEF EngineStarts, PruneOwners, ReservationIsOwned,
       ConstructionIsAlone, GinModeKept
  <2>. QED BY <2>5, <2>6
<1>2. ASSUME NEW c \in construction, EngineCommits(c) PROVE GinModeIInv'
  <2>0. c.request \in Requested /\ c.request.mode \in GinModes
    BY DEF GinModeTypeOK, Requested
  <2>1. /\ engines' \in Seq(Requested) /\ Len(engines') = Len(engines) + 1
        /\ DOMAIN engines' = 1 .. Len(engines) + 1
        /\ \A e \in DOMAIN engines : engines'[e] = engines[e]
        /\ engines'[Len(engines) + 1] = c.request
    BY <1>0, <1>2, <2>0 DEF EngineCommits
  <2>3. DOMAIN engines \subseteq DOMAIN engines' /\ Len(engines) + 1 \in DOMAIN engines'
    BY <1>0, <2>1
  <2>4. GinModeTypeOK'
    <3>1. (\A m, other \in reservedMode' : m = other) /\ reservedMode' \subseteq GinModes
          /\ (modeOwners' = {} => reservedMode' = {})
      BY <1>0, <1>2, <2>0 DEF EngineCommits, GinModeTypeOK
    <3>2. modeOwners' \subseteq DOMAIN engines' /\ endedOwners' \subseteq DOMAIN engines'
      BY <1>2, <2>3 DEF EngineCommits, GinModeTypeOK
    <3>3. construction' = {} /\ ginMode' = ginMode
      BY <1>2 DEF EngineCommits
    <3>. QED BY <1>0, <2>1, <3>1, <3>2, <3>3 DEF GinModeTypeOK
  <2>5. \A e \in StrictEngines' :
          e \in StrictEngines \/ (e = Len(engines) + 1 /\ c.request.strict)
    BY <1>0, <1>2, <2>1 DEF EngineCommits, StrictEngines
  <2>6. \A e \in StrictEngines : e \in DOMAIN engines
    BY DEF StrictEngines
  <2>7. \A e \in StrictEngines' :
          /\ e \in modeOwners' /\ reservedMode' = {engines'[e].mode}
          /\ ginMode' = engines'[e].mode
    BY <1>2, <2>1, <2>5, <2>6
       DEF EngineCommits, ReservationIsOwned, ConstructionIsAlone, GinModeKept
  <2>. QED BY <1>2, <2>4, <2>7
       DEF EngineCommits, ReservationIsOwned, ConstructionIsAlone, GinModeKept
<1>3. ASSUME NEW c \in construction, EngineFails(c) PROVE GinModeIInv'
  BY <1>3 DEF EngineFails, GinModeTypeOK, ReservationIsOwned, ConstructionIsAlone,
     GinModeKept, StrictEngines
<1>4. ASSUME NEW e \in 1 .. EngineLimit, OwnerEnds(e) PROVE GinModeIInv'
  BY <1>4 DEF OwnerEnds, GinModeTypeOK, ReservationIsOwned, ConstructionIsAlone,
     GinModeKept, StrictEngines
<1>5. CASE UNCHANGED ginVars
  BY <1>5 DEF ginVars, GinModeTypeOK, ReservationIsOwned, ConstructionIsAlone,
     GinModeKept, StrictEngines
<1>. QED BY <1>1, <1>2, <1>3, <1>4, <1>5 DEF GinModeNext

-----------------------------------------------------------------------------
(* The rate limiters.                                                      *)

\* Nothing has been admitted.
LEMMA LimiterStarts == LimiterInit => LimiterIInv
<1>. SUFFICES ASSUME LimiterInit PROVE LimiterIInv
  OBVIOUS
<1>. USE LimiterAssumption DEF LimiterInit, Limiters
<1>1. LimiterTypeOK
  <2>1. Window \in 1 .. Window /\ 0 \in 0 .. Window /\ 0 \in 0 .. Limit + 1
    OBVIOUS
  <2>. QED BY <2>1 DEF LimiterTypeOK
<1>2. \A l \in Limiters, i \in 1 .. Window :
        recent[l][i] = 0 /\ onError[i] = 0 /\ count[l] = 0
  OBVIOUS
<1>3. \A l \in Limiters : Capped(l) = 0
  BY <1>2 DEF Capped
<1>4. RedisWindows
  BY <1>2, <1>3 DEF RedisWindows
<1>5. MemoryWindows
  BY <1>2, <1>3 DEF MemoryWindows
<1>. QED BY <1>1, <1>4, <1>5 DEF LimiterIInv

\* Counting a request changes what is capped as it changes what is admitted.
LEMMA CountedCapped ==
  ASSUME LimiterTypeOK, NEW l \in Limiters, Note(l), count' = [count EXCEPT ![l] = Counted(l)]
  PROVE  /\ \A i \in 1 .. Window :
              recent'[l][i] = recent[l][i] + (Capped(l)' - Capped(l))
         /\ Capped(l) \in 0 .. Limit /\ Capped(l)' \in 0 .. Limit
         /\ count'[l] \in 1 .. Limit + 1 /\ Capped(l)' >= Capped(l)
         /\ \A k \in Limiters \ {l} : recent'[k] = recent[k] /\ Capped(k)' = Capped(k)
         /\ recent' \in [Limiters -> [1 .. Window -> Nat]]
         /\ count' \in [Limiters -> 0 .. Limit + 1]
<1>. USE LimiterAssumption
<1>0. /\ count[l] \in 0 .. Limit + 1 /\ \A i \in 1 .. Window : recent[l][i] \in Nat
      /\ count \in [Limiters -> 0 .. Limit + 1]
      /\ recent \in [Limiters -> [1 .. Window -> Nat]]
  BY DEF LimiterTypeOK
<1>1. count'[l] = (IF count[l] > Limit THEN count[l] ELSE count[l] + 1)
      /\ \A k \in Limiters \ {l} : count'[k] = count[k] /\ recent'[k] = recent[k]
  BY <1>0 DEF Counted, Note
<1>2. \A i \in 1 .. Window : recent'[l][i] = recent[l][i] + (IF count'[l] <= Limit THEN 1 ELSE 0)
  BY <1>0 DEF Note, Admits, OneMore
<1>3. recent' \in [Limiters -> [1 .. Window -> Nat]]
  <2>1. OneMore(recent[l]) \in [1 .. Window -> Nat]
    BY <1>0 DEF OneMore
  <2>. QED BY <1>0, <2>1 DEF Note
<1>4. count'[l] \in 1 .. Limit + 1
  BY <1>0, <1>1
<1>5. count' \in [Limiters -> 0 .. Limit + 1]
  BY <1>0, <1>4 DEF Counted
<1>6. /\ Capped(l) = (IF count[l] > Limit THEN Limit ELSE count[l])
      /\ Capped(l)' = (IF count'[l] > Limit THEN Limit ELSE count'[l])
      /\ \A k \in Limiters \ {l} : Capped(k)' = Capped(k)
  BY <1>1 DEF Capped
<1>7. Capped(l)' - Capped(l) = (IF count'[l] <= Limit THEN 1 ELSE 0)
      /\ Capped(l) \in 0 .. Limit /\ Capped(l)' \in 0 .. Limit /\ Capped(l)' >= Capped(l)
  BY <1>0, <1>1, <1>6
<1>. QED BY <1>1, <1>2, <1>3, <1>4, <1>5, <1>6, <1>7

\* A request counted by Redis keeps its windows if it adds to the admitted ones,
\* but for errors, no more than to the count.
LEMMA ScriptKeepsWindows ==
  ASSUME LimiterTypeOK, RedisWindows, ScriptRuns, failClosed' = failClosed,
         failClosed => onError' = onError,
         Capped("redis")' \in 0 .. Limit,
         NEW d \in Nat, d <= Capped("redis")' - Capped("redis"),
         \A i \in 1 .. Window :
           /\ onError'[i] \in Nat
           /\ recent'["redis"][i] - onError'[i] = recent["redis"][i] - onError[i] + d
           /\ recent'["redis"][i] \in Nat
  PROVE  RedisWindows' /\ untilExpiry' \in 1 .. Window
<1>. USE LimiterAssumption
<1>0. /\ untilExpiry \in 0 .. Window /\ count \in [Limiters -> 0 .. Limit + 1]
      /\ count["redis"] \in 0 .. Limit + 1 /\ 1 \in 1 .. Window
      /\ \A i \in 1 .. Window : recent["redis"][i] \in Nat /\ onError[i] \in Nat
  BY DEF LimiterTypeOK, Limiters
<1>1. /\ untilExpiry' = (IF untilExpiry = 0 THEN Window ELSE untilExpiry)
      /\ count'["redis"] # 0
  BY <1>0 DEF ScriptRuns, RedisWindows, Counted, Limiters
<1>2. untilExpiry' \in 1 .. Window
  BY <1>0, <1>1
<1>3. failClosed' => \A i \in 1 .. Window : onError'[i] = 0
  BY DEF RedisWindows
<1>4. Capped("redis") \in 0 .. Limit
  BY <1>0 DEF Capped
<1>5. ASSUME NEW i \in 1 .. Window
      PROVE  /\ recent'["redis"][i] <= Capped("redis")' + Limit + onError'[i]
             /\ i <= Window - untilExpiry' + 1 =>
                  recent'["redis"][i] <= Capped("redis")' + onError'[i]
  <2>1. /\ recent["redis"][i] \in Nat /\ onError[i] \in Nat /\ onError'[i] \in Nat
        /\ recent'["redis"][i] \in Nat
        /\ recent'["redis"][i] - onError'[i] = recent["redis"][i] - onError[i] + d
    BY <1>0
  <2>2. CASE untilExpiry = 0
    <3>1. Capped("redis") = 0
      BY <2>2 DEF RedisWindows, Capped
    <3>2. recent["redis"][i] <= Limit + onError[i]
          /\ (i = 1 => recent["redis"][i] <= onError[i])
      BY <2>2 DEF RedisWindows
    <3>3. i <= Window - untilExpiry' + 1 => i = 1
      BY <1>1, <2>2
    <3>. QED BY <1>4, <2>1, <3>1, <3>2, <3>3
  <2>3. CASE untilExpiry > 0
    <3>1. /\ recent["redis"][i] <= Capped("redis") + Limit + onError[i]
          /\ i <= Window - untilExpiry + 1 =>
               recent["redis"][i] <= Capped("redis") + onError[i]
      BY <2>3 DEF RedisWindows
    <3>2. untilExpiry' = untilExpiry
      BY <1>0, <1>1, <2>3
    <3>. QED BY <1>4, <2>1, <3>1, <3>2
  <2>. QED BY <1>0, <2>2, <2>3
<1>. QED BY <1>1, <1>2, <1>3, <1>5 DEF RedisWindows

\* Every step keeps what the windows admit.
LEMMA LimiterKept == LimiterIInv /\ [LimiterNext]_limiterVars => LimiterIInv'
<1>. SUFFICES ASSUME LimiterIInv, [LimiterNext]_limiterVars PROVE LimiterIInv'
  OBVIOUS
<1>. USE LimiterAssumption DEF LimiterIInv
<1>m. "memory" \in Limiters /\ "redis" \in Limiters /\ "memory" # "redis"
      /\ 1 \in 1 .. Window
  BY DEF Limiters
<1>0. /\ untilTick \in 1 .. Window /\ untilExpiry \in 0 .. Window
      /\ \A l \in Limiters : /\ count[l] \in 0 .. Limit + 1
                             /\ \A i \in 1 .. Window : recent[l][i] \in Nat
      /\ count \in [Limiters -> 0 .. Limit + 1] /\ tickWaits \in BOOLEAN
      /\ workerDone \in BOOLEAN /\ \A i \in 1 .. Window : onError[i] \in Nat
  BY DEF LimiterTypeOK
<1>1. CASE MemoryAllow
  <2>1. /\ \A i \in 1 .. Window : recent'["memory"][i] = recent["memory"][i]
                                  + (Capped("memory")' - Capped("memory"))
        /\ Capped("memory") \in 0 .. Limit /\ Capped("memory")' \in 0 .. Limit
        /\ recent'["redis"] = recent["redis"] /\ Capped("redis")' = Capped("redis")
        /\ recent' \in [Limiters -> [1 .. Window -> Nat]]
        /\ count' \in [Limiters -> 0 .. Limit + 1]
    BY <1>1, <1>m, CountedCapped DEF MemoryAllow
  <2>2. LimiterTypeOK'
    BY <1>1, <2>1 DEF MemoryAllow, LimiterTypeOK
  <2>3. RedisWindows'
    BY <1>1, <1>m, <1>0, <2>1 DEF MemoryAllow, RedisWindows
  <2>4. MemoryWindows'
    <3>. SUFFICES ASSUME NEW i \in 1 .. Window
                  PROVE /\ recent'["memory"][i] <=
                             Capped("memory")' + (IF tickWaits THEN Limit ELSE 2 * Limit)
                        /\ i <= Window - untilTick + 1 =>
                             recent'["memory"][i] <=
                               Capped("memory")' + (IF tickWaits THEN 0 ELSE Limit)
      BY <1>1 DEF MemoryAllow, MemoryWindows
    <3>1. /\ recent["memory"][i] <=
               Capped("memory") + (IF tickWaits THEN Limit ELSE 2 * Limit)
          /\ i <= Window - untilTick + 1 =>
               recent["memory"][i] <= Capped("memory") + (IF tickWaits THEN 0 ELSE Limit)
      BY DEF MemoryWindows
    <3>2. recent["memory"][i] \in Nat
      BY <1>m, <1>0
    <3>3. recent'["memory"][i] = recent["memory"][i] + (Capped("memory")' - Capped("memory"))
          /\ Capped("memory") \in Int /\ Capped("memory")' \in Int
      BY <2>1
    <3>. QED BY <3>1, <3>2, <3>3
  <2>. QED BY <2>2, <2>3, <2>4
<1>2. CASE RedisAllow
  <2>1. /\ \A i \in 1 .. Window : recent'["redis"][i] = recent["redis"][i]
                                  + (Capped("redis")' - Capped("redis"))
        /\ Capped("redis") \in 0 .. Limit /\ Capped("redis")' \in 0 .. Limit
        /\ count'["redis"] \in 1 .. Limit + 1 /\ Capped("redis")' >= Capped("redis")
        /\ recent'["memory"] = recent["memory"] /\ Capped("memory")' = Capped("memory")
        /\ recent' \in [Limiters -> [1 .. Window -> Nat]]
        /\ count' \in [Limiters -> 0 .. Limit + 1]
    BY <1>2, <1>m, CountedCapped DEF RedisAllow, ScriptRuns
  <2>2. UNCHANGED <<untilTick, tickWaits, workerDone, failClosed, onError>> /\ ScriptRuns
    BY <1>2 DEF RedisAllow
  <2>3. \A i \in 1 .. Window : recent["redis"][i] \in Nat /\ recent'["redis"][i] \in Nat
    BY <1>m, <1>0, <2>1
  <2>4. RedisWindows' /\ untilExpiry' \in 1 .. Window
    <3>. DEFINE d == Capped("redis")' - Capped("redis")
    <3>1. d \in Nat /\ d <= Capped("redis")' - Capped("redis")
      BY <2>1
    <3>2. ASSUME NEW i \in 1 .. Window
          PROVE  /\ onError'[i] \in Nat
                 /\ recent'["redis"][i] - onError'[i] = recent["redis"][i] - onError[i] + d
      <4>1. onError'[i] = onError[i] /\ onError[i] \in Nat
        BY <1>0, <2>2
      <4>2. recent["redis"][i] \in Nat /\ recent'["redis"][i] = recent["redis"][i] + d
        BY <2>1, <2>3
      <4>. QED BY <3>1, <4>1, <4>2
    <3>. HIDE DEF d
    <3>. QED BY <2>1, <2>2, <2>3, <3>1, <3>2, ScriptKeepsWindows
  <2>5. LimiterTypeOK'
    <3>1. untilExpiry' \in 0 .. Window
      BY <2>4
    <3>. QED BY <2>1, <2>2, <3>1 DEF LimiterTypeOK
  <2>6. MemoryWindows'
    BY <1>m, <1>0, <2>1, <2>2 DEF MemoryWindows
  <2>. QED BY <2>4, <2>5, <2>6
<1>7. CASE RedisErrs
  <2>1. UNCHANGED <<untilTick, tickWaits, workerDone, failClosed>>
        /\ recent'["memory"] = recent["memory"] /\ count'["memory"] = count["memory"]
        /\ recent' \in [Limiters -> [1 .. Window -> Nat]] /\ onError' \in [1 .. Window -> Nat]
    <3>1. recent \in [Limiters -> [1 .. Window -> Nat]] /\ onError \in [1 .. Window -> Nat]
      BY DEF LimiterTypeOK
    <3>2. \A h \in [1 .. Window -> Nat] : OneMore(h) \in [1 .. Window -> Nat]
      BY DEF OneMore
    <3>3. OneMore(recent["redis"]) \in [1 .. Window -> Nat]
          /\ OneMore(onError) \in [1 .. Window -> Nat]
      BY <1>m, <3>1, <3>2
    <3>. QED BY <1>7, <1>m, <1>0, <3>1, <3>3 DEF RedisErrs, ScriptRuns
  <2>2. /\ \A i \in 1 .. Window :
             /\ recent["redis"][i] \in Nat /\ recent'["redis"][i] \in Nat
             /\ onError[i] \in Nat /\ onError'[i] \in Nat
             /\ recent'["redis"][i] - onError'[i] = recent["redis"][i] - onError[i]
        /\ failClosed => onError' = onError
    <3>1. CASE UNCHANGED <<recent, onError>>
      BY <1>m, <1>0, <2>1, <3>1
    <3>2. CASE ~failClosed /\ recent' = [recent EXCEPT !["redis"] = OneMore(@)]
               /\ onError' = OneMore(onError)
      <4>1. \A i \in 1 .. Window : recent'["redis"][i] = recent["redis"][i] + 1
                                   /\ onError'[i] = onError[i] + 1
        BY <1>m, <3>2 DEF LimiterTypeOK, OneMore
      <4>. QED BY <1>m, <1>0, <3>2, <4>1
    <3>. QED BY <1>7, <3>1, <3>2 DEF RedisErrs
  <2>3. MemoryWindows'
    <3>1. Capped("memory")' = Capped("memory")
      BY <2>1 DEF Capped
    <3>. QED BY <2>1, <3>1 DEF MemoryWindows
  <2>4. CASE ScriptRuns
    <3>1. Capped("redis")' \in 0 .. Limit /\ Capped("redis")' >= Capped("redis")
          /\ count' \in [Limiters -> 0 .. Limit + 1] /\ Capped("redis") \in 0 .. Limit
      BY <1>m, <1>0, <2>4 DEF ScriptRuns, Counted, Capped
    <3>2. 0 \in Nat /\ 0 <= Capped("redis")' - Capped("redis")
          /\ \A i \in 1 .. Window :
               recent'["redis"][i] - onError'[i] = recent["redis"][i] - onError[i] + 0
      BY <2>2, <3>1
    <3>3. RedisWindows' /\ untilExpiry' \in 1 .. Window
      BY <2>1, <2>2, <2>4, <3>1, <3>2, ScriptKeepsWindows
    <3>4. LimiterTypeOK'
      <4>1. untilExpiry' \in 0 .. Window
        BY <3>3
      <4>. QED BY <2>1, <3>1, <4>1 DEF LimiterTypeOK
    <3>. QED BY <2>3, <3>3, <3>4
  <2>5. CASE UNCHANGED <<count, untilExpiry>>
    <3>1. LimiterTypeOK'
      BY <2>1, <2>5 DEF LimiterTypeOK
    <3>2. Capped("redis")' = Capped("redis") /\ Capped("redis") \in 0 .. Limit
      BY <1>m, <1>0, <2>5 DEF Capped
    <3>3. /\ failClosed' => \A i \in 1 .. Window : onError'[i] = 0
          /\ count'["redis"] = 0 <=> untilExpiry' = 0
      BY <2>1, <2>2, <2>5 DEF RedisWindows
    <3>4. CASE untilExpiry = 0
      <4>1. /\ recent["redis"][1] <= onError[1]
            /\ \A i \in 1 .. Window : recent["redis"][i] <= Limit + onError[i]
        BY <3>4 DEF RedisWindows
      <4>2. /\ recent'["redis"][1] <= onError'[1]
            /\ \A i \in 1 .. Window : recent'["redis"][i] <= Limit + onError'[i]
        BY <1>m, <2>2, <4>1
      <4>3. untilExpiry' = 0 /\ ~(untilExpiry' > 0)
        BY <2>5, <3>4
      <4>. QED BY <2>3, <3>1, <3>3, <4>2, <4>3 DEF RedisWindows
    <3>5. CASE untilExpiry > 0
      <4>1. ASSUME NEW i \in 1 .. Window
            PROVE  /\ recent'["redis"][i] <= Capped("redis")' + Limit + onError'[i]
                   /\ i <= Window - untilExpiry + 1 =>
                        recent'["redis"][i] <= Capped("redis")' + onError'[i]
        <5>1. /\ recent["redis"][i] <= Capped("redis") + Limit + onError[i]
              /\ i <= Window - untilExpiry + 1 =>
                   recent["redis"][i] <= Capped("redis") + onError[i]
          BY <3>5 DEF RedisWindows
        <5>. QED BY <2>2, <3>2, <5>1
      <4>2. untilExpiry' = untilExpiry /\ untilExpiry' # 0
        BY <1>0, <2>5, <3>5
      <4>. QED BY <2>3, <3>1, <3>3, <4>1, <4>2 DEF RedisWindows
    <3>. QED BY <1>0, <2>3, <3>1, <3>4, <3>5 DEF RedisWindows
  <2>. QED BY <1>7, <2>4, <2>5 DEF RedisErrs
<1>3. CASE WorkerResets
  <2>1. count'["memory"] = 0 /\ count'["redis"] = count["redis"]
        /\ count' \in [Limiters -> 0 .. Limit + 1]
    BY <1>3, <1>m, <1>0 DEF WorkerResets
  <2>2. LimiterTypeOK'
    BY <1>3, <2>1 DEF WorkerResets, LimiterTypeOK
  <2>3. RedisWindows'
    BY <1>3, <2>1 DEF WorkerResets, RedisWindows, Capped
  <2>4. MemoryWindows'
    BY <1>3, <1>m, <1>0, <2>1 DEF WorkerResets, MemoryWindows, Capped
  <2>. QED BY <2>2, <2>3, <2>4
<1>4. CASE WorkerStops
  <2>1. LimiterTypeOK' /\ RedisWindows'
    BY <1>4 DEF WorkerStops, LimiterTypeOK, RedisWindows, Capped
  <2>2. Capped("memory") \in 0 .. Limit
    BY <1>m, <1>0 DEF Capped
  <2>3. MemoryWindows'
    BY <1>4, <1>m, <1>0, <2>2 DEF WorkerStops, MemoryWindows, Capped
  <2>. QED BY <2>1, <2>3
<1>5. CASE ClockAdvances
  <2>1. /\ \A l \in Limiters : recent'[l][1] = 0
        /\ \A l \in Limiters, i \in 2 .. Window :
             recent'[l][i] = recent[l][i - 1] /\ i - 1 \in 1 .. Window
        /\ \A i \in 1 .. Window : i = 1 \/ i \in 2 .. Window
        /\ onError'[1] = 0
        /\ \A i \in 2 .. Window : onError'[i] = onError[i - 1]
        /\ failClosed' = failClosed
    BY <1>5, <1>0 DEF ClockAdvances, Aged
  <2>2. LimiterTypeOK'
    <3>1. recent' \in [Limiters -> [1 .. Window -> Nat]]
      <4>1. \A l \in Limiters : Aged(recent[l]) \in [1 .. Window -> Nat]
        BY <1>0 DEF Aged
      <4>. QED BY <1>5, <4>1 DEF ClockAdvances
    <3>2. count' \in [Limiters -> 0 .. Limit + 1]
      <4>1. 0 \in 0 .. Limit + 1
        OBVIOUS
      <4>. QED BY <1>5, <1>0, <1>m, <4>1 DEF ClockAdvances
    <3>3. untilTick' \in 1 .. Window /\ untilExpiry' \in 0 .. Window
      BY <1>5, <1>0 DEF ClockAdvances
    <3>4. onError' \in [1 .. Window -> Nat]
      BY <1>5, <1>0 DEF ClockAdvances, Aged
    <3>. QED BY <1>5, <1>0, <3>1, <3>2, <3>3, <3>4 DEF ClockAdvances, LimiterTypeOK
  <2>c. \A l \in Limiters : Capped(l) \in 0 .. Limit
    BY <1>0 DEF Capped
  <2>3. RedisWindows'
    <3>0. failClosed' => \A i \in 1 .. Window : onError'[i] = 0
      BY <2>1 DEF RedisWindows
    <3>1. CASE untilExpiry = 0
      <4>1. untilExpiry' = 0 /\ count'["redis"] = 0
        BY <1>5, <1>m, <1>0, <3>1 DEF ClockAdvances, RedisWindows
      <4>. QED BY <1>m, <1>0, <2>1, <3>0, <3>1, <4>1 DEF RedisWindows
    <3>2. CASE untilExpiry = 1
      <4>1. untilExpiry' = 0 /\ count'["redis"] = 0
        BY <1>5, <1>m, <1>0, <3>2 DEF ClockAdvances
      <4>2. \A i \in 1 .. Window : recent["redis"][i] <= Limit + onError[i]
        BY <1>m, <1>0, <2>c, <3>2 DEF RedisWindows
      <4>. QED BY <1>m, <1>0, <2>1, <3>0, <4>1, <4>2 DEF RedisWindows
    <3>3. CASE untilExpiry > 1
      <4>1. untilExpiry' = untilExpiry - 1 /\ count'["redis"] = count["redis"]
        BY <1>5, <1>m, <1>0, <3>3 DEF ClockAdvances
      <4>2. Capped("redis")' = Capped("redis")
        BY <4>1 DEF Capped
      <4>3. \A i \in 1 .. Window : recent'["redis"][i] <= Capped("redis") + Limit + onError'[i]
        BY <1>m, <1>0, <2>1, <2>c, <3>3 DEF RedisWindows
      <4>4. \A i \in 1 .. Window :
              i <= Window - (untilExpiry - 1) + 1 =>
                recent'["redis"][i] <= Capped("redis") + onError'[i]
        BY <1>m, <1>0, <2>1, <2>c, <3>3 DEF RedisWindows
      <4>. QED BY <1>0, <3>0, <3>3, <4>1, <4>2, <4>3, <4>4 DEF RedisWindows
    <3>. QED BY <1>0, <3>1, <3>2, <3>3
  <2>4. MemoryWindows'
    <3>0. Capped("memory")' = Capped("memory")
      BY <1>5, <1>m, <1>0 DEF ClockAdvances, Capped
    <3>1. CASE untilTick = 1
      <4>1. untilTick' = Window /\ Window - untilTick + 1 = Window
        BY <1>5, <3>1 DEF ClockAdvances
      <4>2. \A i \in 1 .. Window : i <= Window - untilTick' + 1 => i = 1
        BY <1>0, <4>1
      <4>3. \A i \in 1 .. Window :
              recent["memory"][i] <= Capped("memory") + (IF tickWaits THEN 0 ELSE Limit)
        BY <1>0, <3>1 DEF MemoryWindows
      <4>4. \A i \in 1 .. Window : recent'["memory"][i] <= Capped("memory") + Limit
        BY <1>m, <1>0, <2>1, <2>c, <4>3
      <4>5. \A i \in 1 .. Window : recent'["memory"][i] \in Nat
        BY <1>m, <2>2 DEF LimiterTypeOK
      <4>. QED BY <1>m, <1>0, <2>1, <2>c, <3>0, <4>2, <4>4, <4>5 DEF MemoryWindows
    <3>2. CASE untilTick > 1
      <4>1. untilTick' = untilTick - 1 /\ (tickWaits' => tickWaits)
        BY <1>5, <1>0, <3>2 DEF ClockAdvances
      <4>2. \A i \in 1 .. Window : recent'["memory"][i] <= Capped("memory")
                + (IF tickWaits THEN Limit ELSE 2 * Limit)
        BY <1>m, <1>0, <2>1, <2>c DEF MemoryWindows
      <4>3. \A i \in 1 .. Window :
              i <= Window - (untilTick - 1) + 1 =>
                recent'["memory"][i] <= Capped("memory") + (IF tickWaits THEN 0 ELSE Limit)
        BY <1>m, <1>0, <2>1, <2>c DEF MemoryWindows
      <4>4. \A i \in 1 .. Window : recent'["memory"][i] \in Nat
        BY <1>m, <2>2 DEF LimiterTypeOK
      <4>. QED BY <1>m, <1>0, <2>c, <3>0, <4>1, <4>2, <4>3, <4>4 DEF MemoryWindows
    <3>. QED BY <1>0, <3>1, <3>2
  <2>. QED BY <2>2, <2>3, <2>4
<1>6. CASE UNCHANGED limiterVars
  BY <1>6 DEF limiterVars, LimiterTypeOK, RedisWindows, MemoryWindows, Capped
<1>. QED BY <1>1, <1>2, <1>3, <1>4, <1>5, <1>6, <1>7 DEF LimiterNext

\* The invariant bounds what a window admits.
LEMMA LimiterBounds == LimiterIInv => AdmissionsBounded
<1>. SUFFICES ASSUME LimiterIInv PROVE AdmissionsBounded
  OBVIOUS
<1>. USE LimiterAssumption
<1>1. /\ untilExpiry \in 0 .. Window /\ Window \in 1 .. Window
      /\ recent["redis"][Window] \in Nat /\ recent["memory"][Window] \in Nat
  BY DEF LimiterIInv, LimiterTypeOK, Limiters
<1>2. Capped("redis") \in 0 .. Limit /\ Capped("memory") \in 0 .. Limit
  BY DEF LimiterIInv, LimiterTypeOK, Limiters, Capped
<1>3. recent["redis"][Window] <= 2 * Limit + (IF failClosed THEN 0 ELSE onError[Window])
  <2>1. onError[Window] \in Nat /\ failClosed \in BOOLEAN
    BY <1>1 DEF LimiterIInv, LimiterTypeOK
  <2>. QED BY <1>1, <1>2, <2>1 DEF LimiterIInv, RedisWindows
<1>4. recent["memory"][Window] <= 3 * Limit
  BY <1>1, <1>2 DEF LimiterIInv, MemoryWindows
<1>. QED BY <1>3, <1>4 DEF AdmissionsBounded

-----------------------------------------------------------------------------
(* WebSocket connections.                                                  *)

Holders == {s \in Sockets : socket[s] \in HoldsSlot}

\* No request has arrived.
LEMMA SocketsStart == SocketsInit => SocketsIInv
<1>. SUFFICES ASSUME SocketsInit PROVE SocketsIInv
  OBVIOUS
<1>1. Cardinality(Sockets) \in Nat
  BY SocketsAssumption, FS_CardinalityType
<1>2. Holders = {}
  BY DEF SocketsInit, Holders, HoldsSlot
<1>3. SlotsAreConnections
  BY <1>2, FS_EmptySet, SocketsAssumption DEF SocketsInit, SlotsAreConnections, Holders, Counting
<1>4. SocketsTypeOK
  <2>1. 0 \in 0 .. Cardinality(Sockets)
    BY <1>1
  <2>. QED BY <2>1 DEF SocketsInit, SocketsTypeOK, SocketPlaces
<1>5. \A s \in Sockets : socket[s] = "idle" /\ heartbeat[s] = "none" /\ calls[s] = {}
  BY DEF SocketsInit
<1>6. {"OnConnect"} # {}
  OBVIOUS
<1>7. DefersPending
  BY <1>5, <1>6 DEF DefersPending
<1>. QED BY <1>3, <1>4, <1>7 DEF SocketsIInv

\* A step takes one slot with the compare and swap, gives one back, or none.
LEMMA SlotsCounted ==
  ASSUME SocketsIInv, NEW s \in Sockets,
         \/ SocketArrives(s) \/ SocketHandler(s) \/ SocketPanics(s)
         \/ HeartbeatEnds(s) \/ PeerGoes(s)
  PROVE  \/ slots' = slots /\ Holders' = Holders
         \/ /\ slots' = Counting(slots + 1) /\ s \notin Holders /\ Holders' = Holders \cup {s}
            /\ MaxConnections = 0 \/ slots < MaxConnections
         \/ slots' = Counting(slots - 1) /\ s \in Holders /\ Holders' = Holders \ {s}
<1>0. socket \in [Sockets -> SocketPlaces]
  BY DEF SocketsIInv, SocketsTypeOK
<1>. USE DEF Goes, Holders, HoldsSlot, SocketPlaces
<1>1. CASE SocketArrives(s) \/ ChecksShutdown(s)
  BY <1>0, <1>1 DEF SocketArrives, ChecksShutdown
<1>2. CASE Acquire(s)
  BY <1>0, <1>2 DEF Acquire
<1>3. CASE Upgrade(s) \/ Track(s) \/ Connect(s) \/ ReadEnds(s) \/ SocketPanics(s)
  BY <1>0, <1>3 DEF Upgrade, Track, Connect, ReadEnds, SocketPanics
<1>4. CASE OnClose(s) \/ HeartbeatStopped(s) \/ CloseConnection(s)
  BY <1>0, <1>4 DEF OnClose, HeartbeatStopped, CloseConnection
<1>5. CASE ReleaseSlot(s)
  BY <1>0, <1>5 DEF ReleaseSlot
<1>6. CASE HeartbeatEnds(s) \/ PeerGoes(s)
  BY <1>0, <1>6 DEF HeartbeatEnds, PeerGoes
<1>. QED BY <1>1, <1>2, <1>3, <1>4, <1>5, <1>6 DEF SocketHandler

\* Every step keeps the slots, the heartbeats and the controllers' calls in order.
LEMMA SocketsKept == SocketsIInv /\ [SocketsNext]_socketVars => SocketsIInv'
<1>. SUFFICES ASSUME SocketsIInv, [SocketsNext]_socketVars PROVE SocketsIInv'
  OBVIOUS
<1>0. /\ socket \in [Sockets -> SocketPlaces] /\ slots \in Nat /\ MaxConnections \in Nat
      /\ heartbeat \in [Sockets -> {"none", "on", "ended"}]
      /\ peer \in [Sockets -> {"alive", "silent", "closed"}]
      /\ calls \in [Sockets -> SUBSET {"OnConnect", "OnClose"}]
  <2>1. Cardinality(Sockets) \in Nat
    BY SocketsAssumption, FS_CardinalityType
  <2>. QED BY <2>1, SocketsAssumption DEF SocketsIInv, SocketsTypeOK
<1>1. ASSUME NEW s \in Sockets,
             \/ SocketArrives(s) \/ SocketHandler(s) \/ SocketPanics(s)
             \/ HeartbeatEnds(s) \/ PeerGoes(s)
      PROVE SocketsIInv'
  <2>1. IsFiniteSet(Holders) /\ IsFiniteSet(Holders')
    BY SocketsAssumption, FS_Subset DEF Holders
  <2>2. slots' = Counting(Cardinality(Holders')) /\ (MaxConnections > 0 => slots' <= MaxConnections)
    <3>1. slots = Counting(Cardinality(Holders)) /\ (MaxConnections > 0 => slots <= MaxConnections)
      BY DEF SocketsIInv, SlotsAreConnections, Holders
    <3>2. CASE slots' = slots /\ Holders' = Holders
      BY <3>1, <3>2
    <3>3. CASE /\ slots' = Counting(slots + 1) /\ s \notin Holders /\ Holders' = Holders \cup {s}
               /\ MaxConnections = 0 \/ slots < MaxConnections
      BY <1>0, <2>1, <3>1, <3>3, FS_AddElement DEF Counting
    <3>4. CASE slots' = Counting(slots - 1) /\ s \in Holders /\ Holders' = Holders \ {s}
      BY <1>0, <2>1, <3>1, <3>4, FS_RemoveElement DEF Counting
    <3>. QED BY <1>1, <3>2, <3>3, <3>4, SlotsCounted
  <2>3. slots' \in 0 .. Cardinality(Sockets) /\ slots \in 0 .. Cardinality(Sockets)
    <3>1. Holders' \subseteq Sockets
      BY DEF Holders
    <3>2. Cardinality(Holders') <= Cardinality(Sockets) /\ Cardinality(Holders') \in Nat
          /\ Cardinality(Sockets) \in Nat
      BY <2>1, <3>1, SocketsAssumption, FS_Subset, FS_CardinalityType
    <3>. QED BY <2>2, <3>2 DEF SocketsIInv, SocketsTypeOK, Counting
  <2>4. SocketsTypeOK' /\ DefersPending'
    <3>. USE <1>0, <2>3 DEF SocketsIInv, SocketsTypeOK, DefersPending, Goes, SocketPlaces
    <3>1. CASE SocketArrives(s)
      BY <3>1 DEF SocketArrives
    <3>2. CASE ChecksShutdown(s)
      BY <3>2 DEF ChecksShutdown
    <3>3. CASE Acquire(s)
      BY <3>3 DEF Acquire
    <3>4. CASE Upgrade(s)
      BY <3>4 DEF Upgrade
    <3>5. CASE Track(s)
      BY <3>5 DEF Track
    <3>6. CASE Connect(s)
      BY <3>6 DEF Connect
    <3>7. CASE ReadEnds(s) \/ SocketPanics(s)
      BY <3>7 DEF ReadEnds, SocketPanics
    <3>8. CASE OnClose(s)
      BY <3>8 DEF OnClose
    <3>9. CASE HeartbeatStopped(s)
      BY <3>9 DEF HeartbeatStopped
    <3>10. CASE CloseConnection(s)
      BY <3>10 DEF CloseConnection
    <3>11. CASE ReleaseSlot(s)
      BY <3>11 DEF ReleaseSlot
    <3>12. CASE HeartbeatEnds(s) \/ PeerGoes(s)
      BY <3>12 DEF HeartbeatEnds, PeerGoes
    <3>. QED BY <1>1, <3>1, <3>2, <3>3, <3>4, <3>5, <3>6, <3>7, <3>8, <3>9, <3>10, <3>11,
         <3>12 DEF SocketHandler
  <2>5. \A q \in Sockets : socket'[q] = "returned" =>
          /\ heartbeat'[q] # "on"
          /\ "OnConnect" \in calls'[q] <=> "OnClose" \in calls'[q]
    BY <2>4 DEF SocketsTypeOK, DefersPending
  <2>. QED BY <2>2, <2>4, <2>5 DEF SocketsIInv, SlotsAreConnections, Holders
<1>2. CASE BeginHijackedShutdown
  BY <1>2 DEF BeginHijackedShutdown, SocketsIInv, SocketsTypeOK, DefersPending,
     SlotsAreConnections, Counting
<1>3. CASE UNCHANGED socketVars
  BY <1>3 DEF socketVars, SocketsIInv, SocketsTypeOK, DefersPending, SlotsAreConnections,
     Counting
<1>. QED BY <1>1, <1>2, <1>3 DEF SocketsNext

-----------------------------------------------------------------------------
(* The optimistic lock.                                                    *)

\* Nothing has been read or written.
LEMMA RecordsStart == RecordsInit => RecordsIInv
<1>. SUFFICES ASSUME RecordsInit PROVE RecordsIInv
  OBVIOUS
<1>1. RecordsTypeOK
  BY DEF RecordsInit, RecordsTypeOK, Rows, Updates, NoTransaction, Unread
<1>2. CopiesStem
  BY DEF RecordsInit, CopiesStem, NoTransaction
<1>3. VersionsAreUpdates /\ NoUpdateLost
  BY FS_EmptySet DEF RecordsInit, VersionsAreUpdates, NoUpdateLost, NoTransaction
<1>. QED BY <1>1, <1>2, <1>3 DEF RecordsIInv

\* What w's Update adds: one Update of the version that its statements see.
LEMMA MadeOne ==
  ASSUME RecordsIInv, NEW w \in Writers, MatchesRow(w)
  PROVE  /\ Made(w) \in Updates /\ Raised(w) \in Rows
         /\ Made(w).base = Seen(w).version /\ Raised(w).version = Seen(w).version + 1
         /\ Made(w).base = Made(w).basis \/ Made(w).excused
         /\ Seen(w).version \in Nat /\ copy[w].version \in Nat
<1>1. Seen(w) \in Rows
  BY DEF RecordsIInv, RecordsTypeOK, Seen
<1>2. copy[w].version = Seen(w).version /\ Seen(w).version \in Nat
  BY <1>1 DEF MatchesRow, Rows
<1>3. copy[w].basis \in Nat /\ (copy[w].version = copy[w].basis \/ w \in leftBehind)
  BY <1>2 DEF MatchesRow, RecordsIInv, CopiesStem
<1>4. Seen(w).version + 1 \in Nat
  BY <1>2
<1>5. Raised(w) \in Rows /\ Raised(w).version = Seen(w).version + 1
  BY <1>2, <1>4 DEF Raised, Rows
<1>6. Made(w) \in Updates
  <2>1. (w \in leftBehind) \in BOOLEAN
    OBVIOUS
  <2>. DEFINE b == w \in leftBehind
  <2>. HIDE DEF b
  <2>2. Made(w) = [base |-> copy[w].version, basis |-> copy[w].basis, writer |-> w,
                   excused |-> b]
    BY DEF Made, b
  <2>3. b \in BOOLEAN
    BY <2>1 DEF b
  <2>. QED BY <1>2, <1>3, <2>2, <2>3 DEF Updates
<1>7. Made(w).base = copy[w].version /\ Made(w).basis = copy[w].basis
  BY DEF Made
<1>8. w \in leftBehind => Made(w).excused
  BY DEF Made
<1>. QED BY <1>2, <1>3, <1>5, <1>6, <1>7, <1>8

\* A statement keeps rows and their Updates in agreement, whether it changes the
\* version by one Update or not at all.
LEMMA WriteKeeps ==
  ASSUME RecordsIInv, NEW w \in Writers, Unlocked(w),
         NEW changed \in Rows, NEW made \in SUBSET Updates, Write(w, changed, made),
         \/ made = {} /\ changed.version = Seen(w).version
         \/ \E m \in Updates : /\ made = {m} /\ m.base = Seen(w).version
                               /\ changed.version = Seen(w).version + 1
                               /\ m.base = m.basis \/ m.excused
  PROVE  /\ row' \in Rows /\ merged' \subseteq Updates
         /\ uncommitted' \in [owner : Writers \union {NoWriter}, row : Rows, made : SUBSET Updates]
         /\ uncommitted'.owner = NoWriter => uncommitted' = NoTransaction(row')
         /\ VersionsAreUpdates' /\ NoUpdateLost'
<1>. DEFINE v == Seen(w).version
<1>0. /\ row \in Rows /\ merged \subseteq Updates /\ row.version \in Nat
      /\ uncommitted \in [owner : Writers \union {NoWriter}, row : Rows, made : SUBSET Updates]
      /\ uncommitted.row.version \in Nat
      /\ uncommitted.owner = NoWriter => uncommitted = NoTransaction(row)
      /\ VersionsAreUpdates /\ NoUpdateLost /\ changed.version \in Nat
  BY DEF RecordsIInv, RecordsTypeOK, CopiesStem, Rows
<1>1. uncommitted.owner = NoWriter =>
        uncommitted.row = row /\ uncommitted.made = {} /\ v = row.version
  BY <1>0, RecordsAssumption DEF NoTransaction, Seen
<1>2. v = uncommitted.row.version /\ v \in Nat /\ row.version <= v
  BY <1>0, <1>1 DEF Unlocked, Seen, VersionsAreUpdates
<1>. HIDE DEF v
<1>3. \A S \in SUBSET Updates :
        IsFiniteSet(S) /\ (\A m \in S : m.base < v) =>
          /\ IsFiniteSet(S \union made)
          /\ Cardinality(S \union made) = Cardinality(S) + (changed.version - v)
          /\ \A m \in S \union made : m.base < changed.version
  <2>1. SUFFICES ASSUME NEW S \in SUBSET Updates, IsFiniteSet(S), \A m \in S : m.base < v
                 PROVE  /\ IsFiniteSet(S \union made)
                        /\ Cardinality(S \union made) = Cardinality(S) + (changed.version - v)
                        /\ \A m \in S \union made : m.base < changed.version
    OBVIOUS
  <2>2. Cardinality(S) \in Nat /\ \A m \in Updates : m.base \in Nat
    BY <2>1, FS_CardinalityType DEF Updates
  <2>3. CASE made = {} /\ changed.version = v
    <3>1. S \union made = S
      BY <2>3
    <3>. QED BY <1>2, <2>1, <2>2, <2>3, <3>1
  <2>4. CASE \E m \in Updates : made = {m} /\ m.base = v /\ changed.version = v + 1
    <3>1. PICK m \in Updates : made = {m} /\ m.base = v /\ changed.version = v + 1
      BY <2>4
    <3>2. m \notin S
      BY <1>2, <2>1, <2>2, <3>1
    <3>3. IsFiniteSet(S \union {m}) /\ Cardinality(S \union {m}) = Cardinality(S) + 1
      BY <2>1, <3>2, FS_AddElement
    <3>4. \A x \in S \union {m} : x.base < v + 1
      BY <1>2, <2>1, <2>2, <3>1
    <3>. QED BY <1>2, <2>2, <3>1, <3>3, <3>4
  <2>. QED BY <2>3, <2>4 DEF v
<1>4. \A m \in made : row.version <= m.base /\ (m.base = m.basis \/ m.excused)
  BY <1>2 DEF v
<1>5. changed.version >= v
  BY <1>2 DEF v
<1>6. CASE /\ uncommitted' = [owner |-> w, row |-> changed, made |-> uncommitted.made \union made]
           /\ UNCHANGED <<row, merged>>
  <2>1. /\ IsFiniteSet(uncommitted.made \union made)
        /\ Cardinality(uncommitted.made \union made)
             = Cardinality(uncommitted.made) + (changed.version - v)
        /\ \A m \in uncommitted.made \union made : m.base < changed.version
    BY <1>0, <1>2, <1>3 DEF VersionsAreUpdates
  <2>2. Cardinality(uncommitted'.made) = uncommitted'.row.version - row.version
    BY <1>0, <1>2, <1>6, <2>1 DEF VersionsAreUpdates
  <2>3. row.version <= changed.version
    BY <1>0, <1>2, <1>5
  <2>. QED BY <1>0, <1>4, <1>6, <2>1, <2>2, <2>3, RecordsAssumption
       DEF VersionsAreUpdates, NoUpdateLost
<1>7. CASE /\ uncommitted.owner = NoWriter /\ row' = changed
           /\ uncommitted' = NoTransaction(changed) /\ merged' = merged \union made
  <2>1. /\ IsFiniteSet(merged \union made)
        /\ Cardinality(merged \union made) = Cardinality(merged) + (changed.version - v)
        /\ \A m \in merged \union made : m.base < changed.version
    <3>1. IsFiniteSet(merged) /\ merged \in SUBSET Updates /\ \A m \in merged : m.base < v
      BY <1>0, <1>1, <1>7 DEF VersionsAreUpdates
    <3>. QED BY <1>3, <3>1
  <2>2. Cardinality(merged') = changed.version
    BY <1>0, <1>1, <1>7, <2>1 DEF NoUpdateLost, v
  <2>3. IsFiniteSet({}) /\ Cardinality({}) = 0
    BY FS_EmptySet
  <2>4. /\ uncommitted' = [owner |-> NoWriter, row |-> changed, made |-> {}]
        /\ changed.version - changed.version = 0 /\ changed.version <= changed.version
    BY <1>0, <1>7 DEF NoTransaction
  <2>5. VersionsAreUpdates'
    BY <1>7, <2>1, <2>3, <2>4 DEF VersionsAreUpdates
  <2>6. NoUpdateLost'
    BY <1>0, <1>4, <1>7, <2>2 DEF NoUpdateLost
  <2>. QED BY <1>0, <1>7, <2>4, <2>5, <2>6
<1>. QED BY <1>6, <1>7 DEF Write

\* Every step keeps the versions.
LEMMA RecordsKept == RecordsIInv /\ [RecordsNext]_recordVars => RecordsIInv'
<1>. SUFFICES ASSUME RecordsIInv, [RecordsNext]_recordVars PROVE RecordsIInv'
  OBVIOUS
<1>0. /\ row \in Rows /\ merged \subseteq Updates /\ row.version \in Nat
      /\ uncommitted \in [owner : Writers \union {NoWriter}, row : Rows, made : SUBSET Updates]
      /\ copy \in [Writers -> [version : Int, basis : Int]] /\ leftBehind \subseteq Writers
      /\ uncommitted.row \in Rows
  BY DEF RecordsIInv, RecordsTypeOK, Rows
<1>1. ASSUME NEW w \in Writers, FindByID(w) PROVE RecordsIInv'
  <2>1. Seen(w).version \in Nat
    BY <1>0 DEF Seen, Rows
  <2>2. RecordsTypeOK'
    BY <1>0, <1>1, <2>1 DEF FindByID, RecordsTypeOK
  <2>3. CopiesStem'
    BY <1>0, <1>1, <2>1 DEF FindByID, RecordsIInv, CopiesStem, NoTransaction
  <2>. QED BY <1>1, <2>2, <2>3 DEF FindByID, RecordsIInv, VersionsAreUpdates, NoUpdateLost
<1>2. ASSUME NEW w \in Writers, Update(w) PROVE RecordsIInv'
  <2>1. /\ Made(w) \in Updates /\ Raised(w) \in Rows
        /\ Made(w).base = Seen(w).version /\ Raised(w).version = Seen(w).version + 1
        /\ Made(w).base = Made(w).basis \/ Made(w).excused
        /\ copy[w].version \in Nat
    BY <1>2, MadeOne DEF Update
  <2>2. /\ row' \in Rows /\ merged' \subseteq Updates
        /\ uncommitted' \in [owner : Writers \union {NoWriter}, row : Rows, made : SUBSET Updates]
        /\ uncommitted'.owner = NoWriter => uncommitted' = NoTransaction(row')
        /\ VersionsAreUpdates' /\ NoUpdateLost'
    BY <1>2, <2>1, WriteKeeps DEF Update, MatchesRow
  <2>3. /\ copy' = [copy EXCEPT ![w] = [version |-> copy[w].version + 1,
                                        basis |-> copy[w].version + 1]]
        /\ leftBehind' = leftBehind \ {w} /\ copy[w].version + 1 \in Nat
    BY <1>2, <2>1 DEF Update
  <2>4. copy' \in [Writers -> [version : Int, basis : Int]]
    BY <1>0, <2>3
  <2>5. \A q \in Writers :
          /\ copy'[q].version = Unread \/ (copy'[q].version \in Nat /\ copy'[q].basis \in Nat)
          /\ copy'[q].version = copy'[q].basis \/ q \in leftBehind'
    BY <1>0, <2>3 DEF RecordsIInv, CopiesStem
  <2>. QED BY <1>0, <2>2, <2>3, <2>4, <2>5 DEF RecordsIInv, RecordsTypeOK, CopiesStem
<1>3. ASSUME NEW w \in Writers, UpdateUnanswered(w) PROVE RecordsIInv'
  <2>1. /\ Made(w) \in Updates /\ Raised(w) \in Rows
        /\ Made(w).base = Seen(w).version /\ Raised(w).version = Seen(w).version + 1
        /\ Made(w).base = Made(w).basis \/ Made(w).excused
    BY <1>3, MadeOne DEF UpdateUnanswered
  <2>2. Write(w, Raised(w), {Made(w)})
    BY <1>3 DEF UpdateUnanswered, Write
  <2>3. /\ row' \in Rows /\ merged' \subseteq Updates
        /\ uncommitted' \in [owner : Writers \union {NoWriter}, row : Rows, made : SUBSET Updates]
        /\ uncommitted'.owner = NoWriter => uncommitted' = NoTransaction(row')
        /\ VersionsAreUpdates' /\ NoUpdateLost'
    BY <1>3, <2>1, <2>2, WriteKeeps DEF UpdateUnanswered, MatchesRow
  <2>. QED BY <1>0, <1>3, <2>3 DEF UpdateUnanswered, RecordsIInv, RecordsTypeOK, CopiesStem
<1>4. ASSUME NEW w \in Writers, UpdateByID(w) PROVE RecordsIInv'
  <2>1. Seen(w) \in Rows
    BY <1>0 DEF Seen
  <2>. DEFINE c == [Seen(w) EXCEPT !.author = w]
  <2>2. c \in Rows /\ c.version = Seen(w).version /\ Write(w, c, {}) /\ Unlocked(w)
        /\ {} \in SUBSET Updates
    BY <1>4, <2>1 DEF UpdateByID, Rows
  <2>. HIDE DEF c
  <2>3. /\ row' \in Rows /\ merged' \subseteq Updates
        /\ uncommitted' \in [owner : Writers \union {NoWriter}, row : Rows, made : SUBSET Updates]
        /\ uncommitted'.owner = NoWriter => uncommitted' = NoTransaction(row')
        /\ VersionsAreUpdates' /\ NoUpdateLost'
    BY <2>2, WriteKeeps
  <2>. QED BY <1>0, <1>4, <2>3 DEF UpdateByID, RecordsIInv, RecordsTypeOK, CopiesStem
<1>5. ASSUME NEW w \in Writers, Commit(w) PROVE RecordsIInv'
  <2>1. /\ row' = uncommitted.row /\ merged' = merged \union uncommitted.made
        /\ uncommitted' = [owner |-> NoWriter, row |-> uncommitted.row, made |-> {}]
        /\ UNCHANGED <<copy, leftBehind>>
    BY <1>5 DEF Commit, NoTransaction
  <2>2. RecordsTypeOK' /\ CopiesStem'
    BY <1>0, <2>1 DEF RecordsIInv, RecordsTypeOK, CopiesStem, NoTransaction
  <2>3. /\ \A m \in merged : m.base < row.version
        /\ \A m \in uncommitted.made : row.version <= m.base /\ m.base < uncommitted.row.version
        /\ row.version <= uncommitted.row.version /\ row.version \in Nat
        /\ uncommitted.row.version \in Nat /\ \A m \in Updates : m.base \in Nat
        /\ uncommitted.made \subseteq Updates
    BY <1>0 DEF RecordsIInv, VersionsAreUpdates, Rows, Updates
  <2>4. merged \cap uncommitted.made = {}
    BY <1>0, <2>3
  <2>5. /\ IsFiniteSet(merged \union uncommitted.made)
        /\ Cardinality(merged \union uncommitted.made)
             = Cardinality(merged) + Cardinality(uncommitted.made)
    <3>1. IsFiniteSet(merged) /\ IsFiniteSet(uncommitted.made)
      BY DEF RecordsIInv, VersionsAreUpdates
    <3>2. Cardinality(merged) \in Nat /\ Cardinality(uncommitted.made) \in Nat
      BY <3>1, FS_CardinalityType
    <3>3. Cardinality(merged \cap uncommitted.made) = 0
      BY <2>4, FS_EmptySet
    <3>4. /\ IsFiniteSet(merged \union uncommitted.made)
          /\ Cardinality(merged \union uncommitted.made)
               = Cardinality(merged) + Cardinality(uncommitted.made)
                 - Cardinality(merged \cap uncommitted.made)
      BY <3>1, FS_Union
    <3>. QED BY <3>2, <3>3, <3>4
  <2>6. Cardinality(merged') = row'.version
    BY <2>1, <2>3, <2>5 DEF RecordsIInv, VersionsAreUpdates, NoUpdateLost
  <2>7. \A m \in merged' : m.base < row'.version /\ (m.base = m.basis \/ m.excused)
    BY <1>0, <2>1, <2>3 DEF RecordsIInv, VersionsAreUpdates, NoUpdateLost
  <2>8. VersionsAreUpdates'
    BY <2>1, <2>3, <2>5, <2>7, FS_EmptySet DEF VersionsAreUpdates
  <2>. QED BY <2>2, <2>6, <2>7, <2>8 DEF RecordsIInv, NoUpdateLost
<1>6. ASSUME NEW w \in Writers, Abort(w) PROVE RecordsIInv'
  <2>1. /\ row' = row /\ merged' = merged
        /\ uncommitted' = [owner |-> NoWriter, row |-> row, made |-> {}]
    BY <1>6 DEF Abort, NoTransaction
  <2>2. VersionsAreUpdates' /\ NoUpdateLost'
    BY <1>0, <2>1, FS_EmptySet DEF RecordsIInv, VersionsAreUpdates, NoUpdateLost
  <2>3. \/ copy' = copy /\ leftBehind' = leftBehind
        \/ /\ copy' = [copy EXCEPT ![w].basis = row.version]
           /\ leftBehind' = leftBehind \union {w}
    BY <1>6 DEF Abort
  <2>4. RecordsTypeOK'
    BY <1>0, <2>1, <2>3 DEF RecordsTypeOK
  <2>5. CopiesStem'
    BY <1>0, <2>1, <2>3 DEF RecordsIInv, CopiesStem, NoTransaction
  <2>. QED BY <2>2, <2>4, <2>5 DEF RecordsIInv
<1>7. CASE UNCHANGED recordVars
  BY <1>7 DEF recordVars, RecordsIInv, RecordsTypeOK, CopiesStem, VersionsAreUpdates,
     NoUpdateLost
<1>. QED BY <1>1, <1>2, <1>3, <1>4, <1>5, <1>6, <1>7 DEF RecordsNext

-----------------------------------------------------------------------------
(* Shutdown in compatibility mode.                                         *)

\* Start takes one of the components that are left, and the rest come later.
LEMMA LeastLeft ==
  ASSUME NEW S \in SUBSET Comps, S # {}
  PROVE  Least(S) \in S
<1>1. S \in SUBSET Nat
  BY CompatAssumption DEF Comps
<1>. QED BY <1>1, SomeLeast DEF Least

\* Stop takes the one that was registered last.
LEMMA GreatestLeft ==
  ASSUME NEW S \in SUBSET Comps, S # {}
  PROVE  Greatest(S) \in S /\ \A j \in S \ {Greatest(S)} : j < Greatest(S)
<1>. DEFINE T == {Components - x : x \in S}
<1>0. \A x \in S : x \in Int /\ Components - x \in Nat
  BY CompatAssumption DEF Comps
<1>1. PICK m \in T : \A y \in T : m <= y
  <2>1. T \in SUBSET Nat /\ T # {}
    BY <1>0
  <2>. HIDE DEF T
  <2>. QED BY <2>1, SomeLeast
<1>2. PICK x \in S : m = Components - x
  OBVIOUS
<1>3. \A y \in S : Components - x <= Components - y /\ Components \in Int
  BY <1>1, <1>2, CompatAssumption
<1>4. \A y \in S : x >= y
  BY <1>0, <1>3
<1>5. Greatest(S) \in S /\ \A y \in S : Greatest(S) >= y
  BY <1>4 DEF Greatest
<1>. QED BY <1>0, <1>5

CallerType ==
  [op : {"idle", "start", "init", "rollback", "stop", "shutdown", "nil", "error"},
   todo : SUBSET Comps, at : 0..Components, failed : BOOLEAN]

\* Nothing has been called.
LEMMA CompatStarts == CompatInit => CompatIInv
<1>. SUFFICES ASSUME CompatInit PROVE CompatIInv
  OBVIOUS
<1>1. CompatTypeOK
  <2>1. Idle \in CallerType
    BY CompatAssumption DEF Idle, CallerType
  <2>2. caller \in [LifecycleCallers -> CallerType]
    BY <2>1 DEF CompatInit
  <2>3. up \subseteq Comps /\ marked \subseteq Comps
    BY CompatAssumption DEF CompatInit, Comps
  <2>4. worker \in [Comps -> {"none", "runs", "ok", "failed"}] /\ invoked \in Seq(Comps)
    BY DEF CompatInit
  <2>. QED BY <2>2, <2>3, <2>4 DEF CompatInit, CompatTypeOK, CallerType
<1>2. \A c \in LifecycleCallers : caller[c].op = "idle"
  BY DEF CompatInit, Idle
<1>. QED BY <1>1, <1>2 DEF CompatInit, CompatIInv, OneCallerActs, ShutdownsInOrder, StrictlyLIFO,
     Stopping

\* Callers that do not act and the components they have not invoked: a step of a
\* caller that touches neither the workers nor those invoked keeps the order when
\* the caller's own part of it is kept.
LEMMA QuietStep ==
  ASSUME CompatIInv, NEW c \in LifecycleCallers, NEW r \in CallerType, Sets(c, r),
         lifeState' \in {"new", "starting", "started", "stopping", "stopped"},
         up' \subseteq Comps, marked' \subseteq Comps, startErr' \in BOOLEAN, stopErr' \in BOOLEAN,
         expired' = expired, worker' = worker, invoked' = invoked,
         r.op = "init" => lifeState' = "starting",
         r.op \in {"shutdown", "rollback"} => lifeState' = "stopping",
         lifeState' = lifeState
           \/ \A d \in LifecycleCallers \ {c} : caller[d].op # "init" /\ ~ Stopping(d),
         r.op \in {"init", "shutdown", "rollback"} =>
           \A d \in LifecycleCallers \ {c} : caller[d].op # "init" /\ ~ Stopping(d),
         lifeState' \in {"new", "starting", "started"} => invoked = <<>>,
         r.op \in {"shutdown", "rollback"} =>
           /\ \A i \in r.todo, j \in DOMAIN invoked : i < invoked[j]
           /\ r.at = 0 /\ r.todo # {} => \A j \in DOMAIN invoked : worker[invoked[j]] # "runs"
           /\ r.at # 0 => invoked # <<>> /\ r.at = invoked[Len(invoked)]
  PROVE  CompatIInv'
<1>0. caller \in [LifecycleCallers -> CallerType]
  BY DEF CompatIInv, CompatTypeOK, CallerType
<1>1. caller' \in [LifecycleCallers -> CallerType] /\ caller'[c] = r
      /\ \A d \in LifecycleCallers \ {c} : caller'[d] = caller[d]
  BY <1>0 DEF Sets
<1>2. CompatTypeOK'
  BY <1>1 DEF CompatIInv, CompatTypeOK, CallerType
<1>3. OneCallerActs'
  BY <1>1 DEF CompatIInv, OneCallerActs, Stopping
<1>4. ShutdownsInOrder'
  BY <1>1 DEF CompatIInv, ShutdownsInOrder, Stopping
<1>5. StrictlyLIFO'
  BY DEF CompatIInv, StrictlyLIFO
<1>. QED BY <1>2, <1>3, <1>4, <1>5 DEF CompatIInv

\* Every step keeps shutdowns in order.
LEMMA CompatKept == CompatIInv /\ [CompatNext]_compatVars => CompatIInv'
<1>. SUFFICES ASSUME CompatIInv, [CompatNext]_compatVars PROVE CompatIInv'
  OBVIOUS
<1>0. /\ caller \in [LifecycleCallers -> CallerType]
      /\ up \subseteq Comps /\ marked \subseteq Comps /\ 0 \in 0..Components
      /\ startErr \in BOOLEAN /\ stopErr \in BOOLEAN
      /\ lifeState \in {"new", "starting", "started", "stopping", "stopped"}
      /\ worker \in [Comps -> {"none", "runs", "ok", "failed"}] /\ invoked \in Seq(Comps)
  BY CompatAssumption DEF CompatIInv, CompatTypeOK, CallerType
<1>a. \A c \in LifecycleCallers :
        /\ caller[c].op = "init" => lifeState = "starting"
        /\ Stopping(c) => lifeState = "stopping"
        /\ \A d \in LifecycleCallers :
             (caller[c].op = "init" \/ Stopping(c)) /\ (caller[d].op = "init" \/ Stopping(d))
               => c = d
  BY DEF CompatIInv, OneCallerActs
<1>b. lifeState \in {"new", "starting", "started"} => invoked = <<>>
  BY DEF CompatIInv, OneCallerActs
<1>1. ASSUME NEW c \in LifecycleCallers, CallsStart(c) \/ CallsStop(c) PROVE CompatIInv'
  <2>1. PICK k \in {"start", "stop"} : Sets(c, Operation(k, {}))
    BY <1>1 DEF CallsStart, CallsStop
  <2>2. Operation(k, {}) \in CallerType /\ Operation(k, {}).op = k
    BY <1>0 DEF Operation, CallerType
  <2>. QED BY <1>0, <1>1, <1>b, <2>1, <2>2, QuietStep
       DEF CallsStart, CallsStop, LifecycleUnchanged, ShutdownsUnchanged
<1>r. \A e \in BOOLEAN :
        LET r == Operation(IF e THEN "error" ELSE "nil", {})
        IN r \in CallerType /\ r.op \notin {"init", "shutdown", "rollback"}
  BY <1>0 DEF Operation, CallerType
<1>2. ASSUME NEW c \in LifecycleCallers, StartLooks(c) PROVE CompatIInv'
  <2>1. CASE \E e \in BOOLEAN : Returns(c, e) /\ LifecycleUnchanged
    BY <1>0, <1>2, <1>b, <1>r, <2>1, QuietStep
       DEF StartLooks, Returns, LifecycleUnchanged, ShutdownsUnchanged
  <2>2. CASE /\ lifeState = "new" /\ lifeState' = "starting"
             /\ Sets(c, Operation("init", Comps \ RetiredHooks))
             /\ UNCHANGED <<up, marked, startErr, stopErr>>
    <3>1. Operation("init", Comps \ RetiredHooks) \in CallerType
          /\ Operation("init", Comps \ RetiredHooks).op = "init"
      BY <1>0 DEF Operation, CallerType
    <3>2. \A d \in LifecycleCallers : caller[d].op # "init" /\ ~ Stopping(d)
      BY <1>a, <2>2
    <3>. QED BY <1>0, <1>2, <1>b, <2>2, <3>1, <3>2, QuietStep
         DEF StartLooks, ShutdownsUnchanged
  <2>. QED BY <1>0, <1>2, <2>1, <2>2 DEF StartLooks
<1>3. ASSUME NEW c \in LifecycleCallers, Initializes(c) PROVE CompatIInv'
  <2>. DEFINE i == Least(caller[c].todo)
              r == [caller[c] EXCEPT !.todo = @ \ {i}]
  <2>1. caller[c].todo \in SUBSET Comps /\ caller[c].todo # {} /\ caller[c].op = "init"
    BY <1>0, <1>3 DEF Initializes, CallerType
  <2>2. i \in Comps
    BY <2>1, LeastLeft
  <2>3. r \in CallerType /\ r.op = "init" /\ Sets(c, r)
    BY <1>0, <1>3, <2>1 DEF Initializes, CallerType
  <2>4. up' = up \cup {i} /\ up' \subseteq Comps
    BY <1>0, <1>3, <2>2 DEF Initializes
  <2>5. \A d \in LifecycleCallers \ {c} : caller[d].op # "init" /\ ~ Stopping(d)
    BY <1>a, <2>1
  <2>. HIDE DEF i, r
  <2>. QED BY <1>0, <1>3, <1>a, <1>b, <2>1, <2>3, <2>4, <2>5, QuietStep
       DEF Initializes, ShutdownsUnchanged
<1>4. ASSUME NEW c \in LifecycleCallers, StartSucceeds(c) PROVE CompatIInv'
  <2>1. \A d \in LifecycleCallers \ {c} : caller[d].op # "init" /\ ~ Stopping(d)
    BY <1>4, <1>a DEF StartSucceeds
  <2>2. lifeState = "starting"
    BY <1>4, <1>a DEF StartSucceeds
  <2>. QED BY <1>0, <1>4, <1>b, <1>r, <2>1, <2>2, QuietStep
       DEF StartSucceeds, Returns, ShutdownsUnchanged
<1>s. ASSUME NEW c \in LifecycleCallers, NEW k \in {"rollback", "shutdown"}, invoked = <<>>,
             Sets(c, Operation(k, up \ marked)), lifeState' = "stopping",
             \A d \in LifecycleCallers \ {c} : caller[d].op # "init" /\ ~ Stopping(d),
             up' = up, marked' = marked \cup up, startErr' \in BOOLEAN, stopErr' = stopErr,
             ShutdownsUnchanged
      PROVE  CompatIInv'
  <2>1. Operation(k, up \ marked) \in CallerType /\ Operation(k, up \ marked).op = k
        /\ Operation(k, up \ marked).at = 0
    BY <1>0 DEF Operation, CallerType
  <2>2. DOMAIN invoked = {}
    BY <1>s
  <2>3. marked' \subseteq Comps
    BY <1>0, <1>s
  <2>. QED BY <1>0, <1>s, <2>1, <2>2, <2>3, QuietStep DEF ShutdownsUnchanged
<1>5. ASSUME NEW c \in LifecycleCallers, InitFails(c) PROVE CompatIInv'
  <2>1. \A d \in LifecycleCallers \ {c} : caller[d].op # "init" /\ ~ Stopping(d)
    BY <1>5, <1>a DEF InitFails
  <2>2. invoked = <<>>
    BY <1>5, <1>a, <1>b DEF InitFails
  <2>. QED BY <1>5, <1>s, <2>1, <2>2 DEF InitFails
<1>6. ASSUME NEW c \in LifecycleCallers, StopLooks(c) PROVE CompatIInv'
  <2>1. CASE Returns(c, stopErr) /\ LifecycleUnchanged
    BY <1>0, <1>6, <1>b, <1>r, <2>1, QuietStep
       DEF StopLooks, Returns, LifecycleUnchanged, ShutdownsUnchanged
  <2>2. CASE /\ lifeState \in {"new", "started"} /\ lifeState' = "stopping"
             /\ marked' = marked \cup up
             /\ Sets(c, Operation("shutdown", up \ marked))
             /\ UNCHANGED <<up, startErr, stopErr>>
    <3>1. \A d \in LifecycleCallers : caller[d].op # "init" /\ ~ Stopping(d)
      BY <1>a, <2>2
    <3>. QED BY <1>0, <1>6, <1>b, <1>s, <2>2, <3>1 DEF StopLooks
  <2>. QED BY <1>6, <2>1, <2>2 DEF StopLooks
<1>7. ASSUME NEW c \in LifecycleCallers, WaitExpires(c) PROVE CompatIInv'
  BY <1>0, <1>7, <1>b, <1>r, QuietStep
     DEF WaitExpires, Returns, LifecycleUnchanged, ShutdownsUnchanged
<1>g. ASSUME NEW c \in LifecycleCallers, NEW e \in BOOLEAN, Stopping(c), GivesUp(c, e),
             LifecycleUnchanged, expired' = expired, worker' = worker, invoked' = invoked
      PROVE  CompatIInv'
  <2>. DEFINE r == [caller[c] EXCEPT !.todo = {}, !.at = 0, !.failed = @ \/ e]
  <2>1. r \in CallerType /\ r.op = caller[c].op /\ r.todo = {} /\ r.at = 0 /\ Sets(c, r)
    <3>1. caller[c].failed \in BOOLEAN /\ (caller[c].failed \/ e) \in BOOLEAN
      BY <1>0 DEF CallerType
    <3>2. Sets(c, r)
      BY <1>g DEF GivesUp
    <3>. QED BY <1>0, <3>1, <3>2 DEF CallerType
  <2>2. lifeState = "stopping"
        /\ \A d \in LifecycleCallers \ {c} : caller[d].op # "init" /\ ~ Stopping(d)
    BY <1>a, <1>g
  <2>. HIDE DEF r
  <2>. QED BY <1>0, <1>g, <1>b, <2>1, <2>2, QuietStep DEF LifecycleUnchanged, Stopping
<1>8. ASSUME NEW c \in LifecycleCallers, ShutdownNext(c) PROVE CompatIInv'
  <2>1. CASE Ended(c)
    BY <1>8, <1>g, <2>1 DEF ShutdownNext
  <2>2. CASE ~ Ended(c)
    <3>. DEFINE i == Greatest(caller[c].todo)
                r == [caller[c] EXCEPT !.at = i, !.todo = @ \ {i}]
    <3>1. caller[c].todo \in SUBSET Comps /\ caller[c].todo # {} /\ caller[c].at = 0
          /\ Stopping(c)
      BY <1>0, <1>8 DEF ShutdownNext, CallerType
    <3>2. i \in caller[c].todo /\ i \in Comps /\ \A j \in caller[c].todo \ {i} : j < i
      BY <3>1, GreatestLeft
    <3>3. i \in 1..Components /\ i # 0 /\ i \in 0..Components
      BY <3>2, CompatAssumption DEF Comps
    <3>4. caller'[c] = r /\ r \in CallerType /\ r.op = caller[c].op /\ r.at = i
          /\ r.todo = caller[c].todo \ {i} /\ caller' \in [LifecycleCallers -> CallerType]
          /\ \A d \in LifecycleCallers \ {c} : caller'[d] = caller[d]
      <4>1. caller' = [caller EXCEPT ![c] = r]
        BY <1>8, <2>2 DEF ShutdownNext, Sets
      <4>2. r \in CallerType
        BY <1>0, <3>1, <3>3 DEF CallerType
      <4>3. r.op = caller[c].op /\ r.at = i /\ r.todo = caller[c].todo \ {i}
        BY <1>0 DEF CallerType
      <4>. HIDE DEF r, i
      <4>. QED BY <1>0, <4>1, <4>2, <4>3
    <3>5. worker' = [worker EXCEPT ![i] = "runs"] /\ invoked' = Append(invoked, i)
          /\ LifecycleUnchanged /\ expired' = expired
      BY <1>8, <2>2 DEF ShutdownNext
    <3>. HIDE DEF r, i
    <3>6. /\ Len(invoked) \in Nat /\ DOMAIN invoked = 1..Len(invoked)
          /\ Len(invoked') = Len(invoked) + 1 /\ DOMAIN invoked' = 1..(Len(invoked) + 1)
          /\ \A k \in 1..Len(invoked) : invoked'[k] = invoked[k] /\ invoked[k] \in Comps
          /\ invoked'[Len(invoked) + 1] = i /\ invoked' \in Seq(Comps)
      BY <1>0, <3>2, <3>5
    <3>7. /\ \A k \in 1..Len(invoked) : /\ i < invoked[k]
                                        /\ worker[invoked[k]] # "runs"
          /\ \A j \in caller[c].todo, k \in 1..Len(invoked) : j < invoked[k]
      BY <3>1, <3>2, <3>6 DEF CompatIInv, ShutdownsInOrder
    <3>8. CompatTypeOK'
      BY <1>0, <3>2, <3>4, <3>5, <3>6
         DEF CompatIInv, CompatTypeOK, CallerType, LifecycleUnchanged
    <3>9. OneCallerActs'
      BY <1>a, <1>b, <3>1, <3>4, <3>5 DEF OneCallerActs, Stopping, LifecycleUnchanged
    <3>10. \A v \in Comps : v \in Int
      BY CompatAssumption DEF Comps
    <3>11. StrictlyLIFO'
      <4>1. \A k, l \in DOMAIN invoked' : k < l => invoked'[k] > invoked'[l]
        <5>1. SUFFICES ASSUME NEW k \in 1..(Len(invoked) + 1), NEW l \in 1..(Len(invoked) + 1),
                              k < l
                       PROVE  invoked'[k] > invoked'[l]
          BY <3>6
        <5>2. k \in 1..Len(invoked)
          BY <3>6, <5>1
        <5>3. CASE l \in 1..Len(invoked)
          BY <3>6, <5>1, <5>2, <5>3 DEF CompatIInv, StrictlyLIFO
        <5>4. CASE l = Len(invoked) + 1
          BY <3>2, <3>6, <3>7, <3>10, <5>2, <5>4
        <5>. QED BY <3>6, <5>3, <5>4
      <4>2. \A k \in DOMAIN invoked' : k < Len(invoked') => worker'[invoked'[k]] # "runs"
        <5>1. SUFFICES ASSUME NEW k \in 1..Len(invoked) PROVE worker'[invoked[k]] # "runs"
          BY <3>6
        <5>2. invoked[k] # i /\ worker[invoked[k]] # "runs" /\ invoked[k] \in Comps
          BY <3>2, <3>6, <3>7, <3>10
        <5>. QED BY <1>0, <3>5, <5>2
      <4>. QED BY <4>1, <4>2 DEF StrictlyLIFO
    <3>12. ShutdownsInOrder'
      <4>1. \A d \in LifecycleCallers \ {c} : ~ Stopping(d)'
        BY <1>a, <3>1, <3>4 DEF Stopping
      <4>2. \A j \in r.todo, k \in DOMAIN invoked' : j < invoked'[k]
        <5>1. SUFFICES ASSUME NEW j \in r.todo, NEW k \in 1..(Len(invoked) + 1)
                       PROVE  j < invoked'[k]
          BY <3>6
        <5>2. j \in caller[c].todo /\ j < i
          BY <3>2, <3>4
        <5>3. CASE k \in 1..Len(invoked)
          BY <3>6, <3>7, <5>2, <5>3
        <5>4. CASE k = Len(invoked) + 1
          BY <3>6, <5>2, <5>4
        <5>. QED BY <3>6, <5>3, <5>4
      <4>3. invoked' # <<>> /\ r.at = invoked'[Len(invoked')]
        BY <3>4, <3>6
      <4>. QED BY <3>3, <3>4, <4>1, <4>2, <4>3 DEF ShutdownsInOrder
    <3>. QED BY <3>8, <3>9, <3>11, <3>12 DEF CompatIInv
  <2>. QED BY <2>1, <2>2
<1>9. ASSUME NEW c \in LifecycleCallers, ShutdownTaken(c) PROVE CompatIInv'
  <2>. DEFINE bad == worker[caller[c].at] = "failed"
              r == [caller[c] EXCEPT !.at = 0, !.failed = @ \/ bad]
  <2>0. bad \in BOOLEAN /\ Stopping(c)
    BY <1>9 DEF ShutdownTaken
  <2>1. CASE Ended(c)
    <3>1. GivesUp(c, bad)
      BY <1>9, <2>1 DEF ShutdownTaken
    <3>. HIDE DEF bad
    <3>. QED BY <1>9, <1>g, <2>0, <3>1 DEF ShutdownTaken, ShutdownsUnchanged
  <2>2. CASE ~ Ended(c)
    <3>1. Sets(c, r)
      BY <1>9, <2>2 DEF ShutdownTaken
    <3>. HIDE DEF bad
    <3>2. r \in CallerType /\ r.op = caller[c].op /\ r.at = 0 /\ r.todo = caller[c].todo
      <4>1. caller[c].failed \in BOOLEAN /\ (caller[c].failed \/ bad) \in BOOLEAN
        BY <1>0, <2>0 DEF CallerType
      <4>. QED BY <1>0, <4>1 DEF CallerType
    <3>. HIDE DEF r
    <3>3. lifeState = "stopping"
          /\ \A d \in LifecycleCallers \ {c} : caller[d].op # "init" /\ ~ Stopping(d)
      BY <1>a, <2>0
    <3>4. /\ \A i \in caller[c].todo, j \in DOMAIN invoked : i < invoked[j]
          /\ invoked # <<>> /\ caller[c].at = invoked[Len(invoked)]
          /\ worker[caller[c].at] # "runs"
      BY <1>9, <2>0 DEF ShutdownTaken, CompatIInv, ShutdownsInOrder
    <3>5. \A j \in DOMAIN invoked : worker[invoked[j]] # "runs"
      <4>1. \A j \in DOMAIN invoked : j = Len(invoked) \/ j < Len(invoked)
        BY <1>0
      <4>. QED BY <3>4, <4>1 DEF CompatIInv, StrictlyLIFO
    <3>. QED BY <1>0, <1>9, <1>b, <2>0, <3>1, <3>2, <3>3, <3>4, <3>5, QuietStep
         DEF ShutdownTaken, LifecycleUnchanged, ShutdownsUnchanged, Stopping
  <2>. QED BY <2>1, <2>2
<1>10. ASSUME NEW c \in LifecycleCallers, ShutdownAbandoned(c) PROVE CompatIInv'
  BY <1>10, <1>g DEF ShutdownAbandoned, ShutdownsUnchanged
<1>11. ASSUME NEW c \in LifecycleCallers, StopFinishes(c) PROVE CompatIInv'
  <2>1. \A d \in LifecycleCallers \ {c} : caller[d].op # "init" /\ ~ Stopping(d)
    BY <1>11, <1>a DEF StopFinishes
  <2>2. caller[c].failed \in BOOLEAN /\ (caller[c].failed \/ caller[c].op = "rollback") \in BOOLEAN
    BY <1>0 DEF CallerType
  <2>. QED BY <1>0, <1>11, <1>r, <2>1, <2>2, QuietStep
       DEF StopFinishes, Returns, ShutdownsUnchanged
<1>12. ASSUME NEW c \in LifecycleCallers \cup {"rollback"}, ContextEnds(c) PROVE CompatIInv'
  BY <1>12 DEF ContextEnds, LifecycleUnchanged, CompatIInv, CompatTypeOK, OneCallerActs,
     ShutdownsInOrder, StrictlyLIFO, Stopping
<1>13. ASSUME NEW i \in Comps, WorkerReturns(i) PROVE CompatIInv'
  <2>1. worker' \in [Comps -> {"none", "runs", "ok", "failed"}]
        /\ \A j \in Comps : worker[j] # "runs" => worker'[j] # "runs"
    BY <1>0, <1>13 DEF WorkerReturns
  <2>2. \A j \in DOMAIN invoked : invoked[j] \in Comps
    BY <1>0
  <2>. QED BY <1>13, <2>1, <2>2
       DEF WorkerReturns, LifecycleUnchanged, CompatIInv, CompatTypeOK, OneCallerActs,
       ShutdownsInOrder, StrictlyLIFO, Stopping
<1>14. CASE UNCHANGED compatVars
  BY <1>14 DEF compatVars, CompatIInv, CompatTypeOK, OneCallerActs, ShutdownsInOrder,
     StrictlyLIFO, Stopping
<1>. QED BY <1>1, <1>2, <1>3, <1>4, <1>5, <1>6, <1>7, <1>8, <1>9, <1>10, <1>11, <1>12, <1>13,
     <1>14 DEF CompatNext

-----------------------------------------------------------------------------
(* The default facade.                                                     *)

StackEntry == [facade : Facades, place : 0 .. RuntimeLimit]

\* Nothing has been published.
LEMMA FacadeStarts == FacadeInit => FacadeIInv
<1>. SUFFICES ASSUME FacadeInit PROVE FacadeIInv
  OBVIOUS
<1>1. 0 \in 0 .. RuntimeLimit /\ 0 \in 0 .. StampLimit
  BY FacadeAssumption
<1>2. FacadeTypeOK
  <2>1. facade \in Facades /\ facade.runtime <= publishedRuntimes
    BY <1>1 DEF FacadeInit, Facades, Nil
  <2>2. updater \in [Updaters -> {<<>>} \cup {<<f>> : f \in Facades}]
    BY DEF FacadeInit
  <2>. QED BY <1>1, <2>1, <2>2 DEF FacadeInit, FacadeTypeOK
<1>3. LiveRuntimes = {}
  BY DEF FacadeInit, LiveRuntimes
<1>4. StackInOrder /\ LiveAreKept /\ NewestLiveIsLoaded
  BY <1>3 DEF FacadeInit, StackInOrder, LiveAreKept, NewestLiveIsLoaded
<1>. QED BY <1>2, <1>4 DEF FacadeIInv

\* A stack that is not empty has one entry on top.
LEMMA TopOfStack ==
  ASSUME NEW S, S # {}, \A e \in S : e.place \in 0 .. RuntimeLimit
  PROVE  Top(S) \in S /\ \A d \in S : d.place <= Top(S).place
<1>. DEFINE T == {RuntimeLimit - e.place : e \in S}
<1>0. RuntimeLimit \in Nat /\ \A e \in S : e.place \in Int /\ RuntimeLimit - e.place \in Nat
  BY FacadeAssumption
<1>1. PICK m \in T : \A y \in T : m <= y
  <2>1. T \in SUBSET Nat /\ T # {}
    BY <1>0
  <2>. HIDE DEF T
  <2>. QED BY <2>1, SomeLeast
<1>2. PICK e \in S : m = RuntimeLimit - e.place
  OBVIOUS
<1>3. \A d \in S : RuntimeLimit - e.place <= RuntimeLimit - d.place
  BY <1>1, <1>2
<1>4. \A d \in S : d.place <= e.place
  BY <1>0, <1>3
<1>. QED BY <1>4 DEF Top

\* What is loaded follows from the order of the stack and its being whole.
LEMMA OrderedStackLoads ==
  ASSUME FacadeTypeOK, StackInOrder, LiveAreKept
  PROVE  NewestLiveIsLoaded
<1>. SUFFICES ASSUME facadeMutex # "publish", LiveRuntimes # {}
              PROVE  /\ LiveFirst(facade).runtime \in LiveRuntimes
                     /\ \A r \in LiveRuntimes : r <= LiveFirst(facade).runtime
  BY DEF NewestLiveIsLoaded
<1>1. /\ facade.runtime \in Nat /\ publishedRuntimes \in Nat /\ facade.runtime <= publishedRuntimes
      /\ \A e \in superseded : e.facade.runtime \in Nat /\ e.place \in Nat /\ e.place \in 0 .. RuntimeLimit
  BY FacadeAssumption DEF FacadeTypeOK, Facades
<1>2. \A r \in LiveRuntimes : r \in Nat /\ r >= 1 /\ r <= publishedRuntimes /\ r \notin stoppedRuntimes
  BY <1>1 DEF LiveRuntimes
<1>3. \A r \in Nat : r >= 1 /\ r <= publishedRuntimes /\ r \notin stoppedRuntimes => r \in LiveRuntimes
  BY <1>1 DEF LiveRuntimes
<1>4. \A e \in superseded : e.facade.runtime < facade.runtime /\ e.place < publishedRuntimes
  BY DEF StackInOrder
<1>5. CASE ~Stale(facade)
  <2>1. LiveFirst(facade) = facade /\ facade.runtime \notin stoppedRuntimes
    BY <1>5 DEF LiveFirst, Stale
  <2>2. \A r \in LiveRuntimes : r <= facade.runtime
    BY <1>1, <1>2, <1>4 DEF LiveAreKept
  <2>3. facade.runtime \in LiveRuntimes
    BY <1>1, <1>2, <1>3, <2>1, <2>2
  <2>. QED BY <2>1, <2>2, <2>3
<1>6. CASE Stale(facade)
  <2>1. \A r \in LiveRuntimes : \E e \in Pruned : e.facade.runtime = r
    BY <1>2, <1>6 DEF LiveAreKept, Stale, Pruned
  <2>2. Pruned # {} /\ Pruned \subseteq superseded
    BY <2>1 DEF Pruned
  <2>3. Top(Pruned) \in Pruned /\ \A d \in Pruned : d.place <= Top(Pruned).place
    BY <1>1, <2>2, TopOfStack
  <2>4. PICK t \in Pruned : t = Top(Pruned)
    BY <2>3
  <2>5. LiveFirst(facade) = t.facade /\ t \in superseded /\ t.facade.runtime \notin stoppedRuntimes
    BY <1>6, <2>2, <2>4 DEF LiveFirst, Newest, Pruned, Stale
  <2>6. \A d \in Pruned : d.facade.runtime <= t.facade.runtime
    <3>. SUFFICES ASSUME NEW d \in Pruned PROVE d.facade.runtime <= t.facade.runtime
      OBVIOUS
    <3>1. d.place <= t.place /\ d \in superseded
      BY <2>2, <2>3, <2>4
    <3>2. CASE d.place = t.place
      BY <1>1, <2>5, <3>1, <3>2 DEF StackInOrder
    <3>3. CASE d.place < t.place
      BY <1>1, <2>5, <3>1, <3>3 DEF StackInOrder
    <3>. QED BY <1>1, <2>5, <3>1, <3>2, <3>3
  <2>7. \A r \in LiveRuntimes : r <= t.facade.runtime
    BY <2>1, <2>6
  <2>8. t.facade.runtime \in LiveRuntimes
    <3>1. t.facade.runtime \in Nat /\ t.facade.runtime < facade.runtime
      BY <1>1, <1>4, <2>5
    <3>2. t.facade.runtime >= 1
      BY <1>2, <2>7, <3>1
    <3>. QED BY <1>1, <1>3, <2>5, <3>1, <3>2
  <2>. QED BY <2>5, <2>7, <2>8
<1>. QED BY <1>5, <1>6

\* Every step keeps the stack in order and whole.
LEMMA FacadeKept == FacadeIInv /\ [FacadeNext]_facadeVars => FacadeIInv'
<1>. SUFFICES ASSUME FacadeTypeOK, StackInOrder, LiveAreKept, [FacadeNext]_facadeVars
              PROVE  FacadeTypeOK' /\ StackInOrder' /\ LiveAreKept'
  <2>1. FacadeTypeOK' /\ StackInOrder' /\ LiveAreKept' => NewestLiveIsLoaded'
    BY OrderedStackLoads, PTL
  <2>. QED BY <2>1 DEF FacadeIInv
<1>0. /\ facade.runtime \in Nat /\ publishedRuntimes \in Nat /\ facade.runtime <= publishedRuntimes
      /\ publishedRuntimes <= RuntimeLimit /\ RuntimeLimit \in Nat /\ stamps \in Nat /\ stamps <= StampLimit
      /\ \A e \in superseded : e.facade.runtime \in Nat /\ e.place \in Nat /\ e.place \in 0 .. RuntimeLimit /\ e \in StackEntry
      /\ facade \in Facades /\ stoppedRuntimes \subseteq 1 .. publishedRuntimes
      /\ StampLimit \in Nat
  BY FacadeAssumption DEF FacadeTypeOK, Facades, StackEntry
<1>1. CASE /\ UNCHANGED <<facade, superseded, publishedRuntimes, stoppedRuntimes, stamps>>
           /\ facadeMutex' = facadeMutex \/ (facadeMutex = "free" /\ facadeMutex' = "load")
           /\ sawStopped' \in BOOLEAN /\ updater' \in [Updaters -> {<<>>} \cup {<<f>> : f \in Facades}]
  <2>1. FacadeTypeOK'
    BY <1>1 DEF FacadeTypeOK
  <2>2. StackInOrder' /\ LiveAreKept'
    BY <1>1 DEF StackInOrder, LiveAreKept, LiveRuntimes
  <2>. QED BY <2>1, <2>2
<1>2. CASE LoadLooks \/ LoadLocks \/ UNCHANGED facadeVars
  BY <1>1, <1>2 DEF LoadLooks, LoadLocks, facadeVars, FacadeTypeOK
<1>3. ASSUME NEW u \in Updaters, UpdateLoads(u)
      PROVE  FacadeTypeOK' /\ StackInOrder' /\ LiveAreKept'
  <2>1. <<facade>> \in {<<>>} \cup {<<f>> : f \in Facades}
    BY <1>0
  <2>2. updater' \in [Updaters -> {<<>>} \cup {<<f>> : f \in Facades}]
    BY <1>3, <2>1 DEF UpdateLoads, FacadeTypeOK
  <2>. QED BY <1>1, <1>3, <2>2 DEF UpdateLoads, FacadeTypeOK
<1>4. ASSUME NEW u \in Updaters, UpdateSwaps(u)
      PROVE  FacadeTypeOK' /\ StackInOrder' /\ LiveAreKept'
  <2>1. updater' \in [Updaters -> {<<>>} \cup {<<f>> : f \in Facades}]
    BY <1>4 DEF UpdateSwaps, FacadeTypeOK
  <2>2. /\ facade' \in Facades /\ facade'.runtime = facade.runtime /\ stamps' \in 0 .. StampLimit
        /\ UNCHANGED <<superseded, facadeMutex, publishedRuntimes, stoppedRuntimes, sawStopped>>
    <3>1. UNCHANGED <<superseded, facadeMutex, publishedRuntimes, stoppedRuntimes, sawStopped>>
      BY <1>4 DEF UpdateSwaps
    <3>2. CASE updater[u] = <<facade>>
      <4>1. stamps + 1 \in 0 .. StampLimit
        BY <1>0, <1>4 DEF UpdateSwaps
      <4>2. facade' = [stamp |-> stamps + 1, runtime |-> facade.runtime] /\ stamps' = stamps + 1
        BY <1>0, <1>4, <3>2 DEF UpdateSwaps, Facades
      <4>. QED BY <1>0, <3>1, <4>1, <4>2 DEF Facades
    <3>3. CASE updater[u] # <<facade>>
      BY <1>0, <1>4, <3>1, <3>3 DEF UpdateSwaps
    <3>. QED BY <3>2, <3>3
  <2>3. FacadeTypeOK'
    BY <1>0, <2>1, <2>2 DEF FacadeTypeOK
  <2>4. StackInOrder' /\ LiveAreKept'
    BY <2>2 DEF StackInOrder, LiveAreKept, LiveRuntimes
  <2>. QED BY <2>3, <2>4
<1>5. ASSUME NEW r \in 1 .. RuntimeLimit, RuntimeStops(r)
      PROVE  FacadeTypeOK' /\ StackInOrder' /\ LiveAreKept'
  <2>1. /\ stoppedRuntimes' = stoppedRuntimes \cup {r} /\ r \in 1 .. publishedRuntimes
        /\ UNCHANGED <<facade, superseded, facadeMutex, publishedRuntimes, sawStopped, updater, stamps>>
    BY <1>5 DEF RuntimeStops
  <2>2. FacadeTypeOK' /\ StackInOrder'
    BY <2>1 DEF FacadeTypeOK, StackInOrder
  <2>3. LiveAreKept'
    BY <2>1 DEF LiveAreKept, LiveRuntimes
  <2>. QED BY <2>2, <2>3
<1>6. Pruned \subseteq superseded /\ \A e \in superseded : e.facade.runtime \notin stoppedRuntimes => e \in Pruned
  BY DEF Pruned, Stale
<1>7. CASE PublishLocks
  <2>0. /\ UNCHANGED <<facade, publishedRuntimes, stoppedRuntimes, sawStopped, updater, stamps>>
        /\ facadeMutex = "free" /\ facadeMutex' = "publish" /\ publishedRuntimes < RuntimeLimit
    BY <1>7 DEF PublishLocks
  <2>1. PICK new : new = [facade |-> facade, place |-> publishedRuntimes]
    OBVIOUS
  <2>2. /\ superseded' \subseteq Pruned \cup {new} /\ Pruned \subseteq superseded'
        /\ facade # Nil /\ ~Stale(facade) => new \in superseded'
    BY <1>7, <2>1 DEF PublishLocks
  <2>3. new \in StackEntry /\ new.facade.runtime = facade.runtime /\ new.place = publishedRuntimes
    BY <1>0, <2>1 DEF StackEntry
  <2>4. FacadeTypeOK'
    BY <1>6, <2>0, <2>2, <2>3 DEF FacadeTypeOK, StackEntry
  <2>5. \A e \in Pruned : e.place < publishedRuntimes /\ e.facade.runtime < facade.runtime /\ e \in superseded
    BY <1>6, <2>0 DEF StackInOrder
  <2>6. StackInOrder'
    <3>1. \A d, e \in superseded' : d.place = e.place => d = e
      BY <1>0, <1>6, <2>2, <2>3, <2>5 DEF StackInOrder
    <3>2. \A d, e \in superseded' : d.place < e.place => d.facade.runtime < e.facade.runtime
      BY <1>0, <1>6, <2>2, <2>3, <2>5 DEF StackInOrder
    <3>3. \A e \in superseded' :
            \/ e.place < publishedRuntimes /\ e.facade.runtime < facade.runtime
            \/ e.place = publishedRuntimes /\ e.facade.runtime = facade.runtime
      BY <2>2, <2>3, <2>5
    <3>. QED BY <2>0, <3>1, <3>2, <3>3 DEF StackInOrder
  <2>7. LiveAreKept'
    <3>. SUFFICES ASSUME NEW r \in LiveRuntimes PROVE \E e \in superseded' : e.facade.runtime = r
      BY <2>0 DEF LiveAreKept, LiveRuntimes
    <3>1. r \notin stoppedRuntimes /\ r >= 1
      BY <1>0 DEF LiveRuntimes
    <3>2. CASE r = facade.runtime
      <4>1. facade # Nil /\ ~Stale(facade)
        BY <3>1, <3>2 DEF Nil, Stale
      <4>. QED BY <2>2, <2>3, <3>2, <4>1
    <3>3. CASE r # facade.runtime
      BY <1>6, <2>2, <3>1, <3>3 DEF LiveAreKept
    <3>. QED BY <3>2, <3>3
  <2>. QED BY <2>4, <2>6, <2>7
<1>8. CASE PublishStores
  <2>0. /\ UNCHANGED <<superseded, stoppedRuntimes, sawStopped, updater, stamps>>
        /\ facadeMutex = "publish" /\ facadeMutex' = "free"
        /\ publishedRuntimes' = publishedRuntimes + 1
        /\ facade' = [stamp |-> 0, runtime |-> publishedRuntimes + 1]
    BY <1>8 DEF PublishStores
  <2>1. publishedRuntimes < RuntimeLimit /\ publishedRuntimes + 1 \in 0 .. RuntimeLimit
        /\ facade'.runtime = publishedRuntimes + 1
    BY <1>0, <2>0 DEF StackInOrder
  <2>2. facade' \in Facades /\ facade'.runtime <= publishedRuntimes'
    <3>1. 0 \in 0 .. StampLimit
      BY <1>0
    <3>. QED BY <2>0, <2>1, <3>1 DEF Facades
  <2>3. stoppedRuntimes' \subseteq 1 .. publishedRuntimes'
    BY <1>0, <2>0
  <2>4. FacadeTypeOK'
    BY <2>0, <2>1, <2>2, <2>3 DEF FacadeTypeOK
  <2>5. \A e \in superseded : e.place < publishedRuntimes + 1 /\ e.facade.runtime < publishedRuntimes + 1
    BY <1>0 DEF StackInOrder
  <2>6. StackInOrder'
    BY <2>0, <2>1, <2>5 DEF StackInOrder
  <2>7. LiveAreKept'
    <3>. SUFFICES ASSUME NEW r \in LiveRuntimes'
                  PROVE  r = facade'.runtime \/ \E e \in superseded : e.facade.runtime = r
      BY <2>0 DEF LiveAreKept
    <3>1. CASE r = publishedRuntimes + 1
      BY <2>1, <3>1
    <3>2. CASE r # publishedRuntimes + 1
      <4>1. r \in LiveRuntimes
        BY <1>0, <2>0, <3>2 DEF LiveRuntimes
      <4>. QED BY <2>0, <4>1 DEF LiveAreKept
    <3>. QED BY <3>1, <3>2
  <2>. QED BY <2>4, <2>6, <2>7
<1>9. CASE Reconcile
  <2>0. /\ UNCHANGED <<publishedRuntimes, stoppedRuntimes, sawStopped, updater, stamps>>
        /\ facadeMutex = "load" /\ facadeMutex' = "free"
    BY <1>9 DEF Reconcile
  <2>1. CASE ~Stale(facade)
    <3>1. superseded' = Pruned /\ facade' = facade
      BY <1>9, <2>1 DEF Reconcile
    <3>2. FacadeTypeOK' /\ StackInOrder'
      BY <1>6, <2>0, <3>1 DEF FacadeTypeOK, StackInOrder
    <3>3. LiveAreKept'
      BY <1>6, <2>0, <3>1 DEF LiveAreKept, LiveRuntimes
    <3>. QED BY <3>2, <3>3
  <2>2. CASE Stale(facade) /\ Pruned = {}
    <3>1. superseded' = {} /\ facade' = Nil
      BY <1>9, <2>2 DEF Reconcile, Newest
    <3>2. Nil \in Facades /\ Nil.runtime = 0
      BY <1>0 DEF Nil, Facades
    <3>3. FacadeTypeOK' /\ StackInOrder'
      BY <1>0, <2>0, <3>1, <3>2 DEF FacadeTypeOK, StackInOrder
    <3>4. LiveAreKept'
      BY <1>6, <2>0, <2>2, <3>1 DEF LiveAreKept, LiveRuntimes, Stale
    <3>. QED BY <3>3, <3>4
  <2>3. CASE Stale(facade) /\ Pruned # {}
    <3>1. PICK t : t = Top(Pruned)
      OBVIOUS
    <3>2. t \in Pruned /\ \A d \in Pruned : d.place <= t.place
      BY <1>0, <1>6, <2>3, <3>1, TopOfStack
    <3>3. superseded' = Pruned \ {t} /\ facade' = t.facade
      BY <1>9, <2>3, <3>1 DEF Reconcile, Newest
    <3>4. t \in superseded /\ t \in StackEntry /\ t.facade.runtime < facade.runtime /\ t.facade \in Facades
          /\ t.facade.runtime \in Nat
      BY <1>0, <1>6, <2>0, <3>2 DEF StackInOrder, StackEntry
    <3>5. FacadeTypeOK'
      BY <1>0, <1>6, <2>0, <3>3, <3>4 DEF FacadeTypeOK
    <3>6. \A d \in Pruned \ {t} : d.place < publishedRuntimes /\ d.facade.runtime < t.facade.runtime
      <4>. SUFFICES ASSUME NEW d \in Pruned \ {t}
                    PROVE  d.place < publishedRuntimes /\ d.facade.runtime < t.facade.runtime
        OBVIOUS
      <4>1. d \in superseded /\ d.place <= t.place /\ d.place \in Nat /\ t.place \in Nat
        BY <1>0, <1>6, <3>2, <3>4
      <4>2. d.place # t.place
        BY <3>4, <4>1 DEF StackInOrder
      <4>3. d.place < t.place
        BY <4>1, <4>2
      <4>. QED BY <2>0, <3>4, <4>1, <4>3 DEF StackInOrder
    <3>7. StackInOrder'
      BY <1>6, <2>0, <3>3, <3>6 DEF StackInOrder
    <3>8. LiveAreKept'
      <4>. SUFFICES ASSUME NEW r \in LiveRuntimes
                    PROVE  r = t.facade.runtime \/ \E e \in Pruned \ {t} : e.facade.runtime = r
        BY <2>0, <3>3 DEF LiveAreKept, LiveRuntimes
      <4>1. r \notin stoppedRuntimes /\ r # facade.runtime
        BY <2>3 DEF LiveRuntimes, Stale
      <4>. QED BY <1>6, <4>1 DEF LiveAreKept
    <3>. QED BY <3>5, <3>7, <3>8
  <2>. QED BY <2>1, <2>2, <2>3
<1>. QED BY <1>2, <1>3, <1>4, <1>5, <1>7, <1>8, <1>9 DEF FacadeNext

-----------------------------------------------------------------------------
(* Beans and the entries of the lifecycle's list.                          *)

\* Without its element n a sequence holds the others, in the same order.
LEMMA RemovedAt ==
  ASSUME NEW S, NEW s \in Seq(S), NEW n \in 1..Len(s)
  PROVE  /\ RemoveAt(s, n) \in Seq(S)
         /\ DOMAIN RemoveAt(s, n) = 1..(Len(s) - 1)
         /\ \A m \in 1..(Len(s) - 1) : RemoveAt(s, n)[m] = IF m < n THEN s[m] ELSE s[m + 1]
<1>. DEFINE L == Len(s)
            a == SubSeq(s, 1, n - 1)
            b == SubSeq(s, n + 1, L)
<1>0. L \in Nat /\ n \in 1..L /\ \A m \in 1..L : s[m] \in S
  BY LenProperties
<1>1. a \in Seq(S) /\ Len(a) = n - 1 /\ \A m \in 1..n - 1 : a[m] = s[m]
  <2>1. 1 \in Int /\ n - 1 \in Int /\ \A m \in 1..n - 1 : s[m] \in S
    BY <1>0
  <2>2. /\ a \in Seq(S) /\ Len(a) = IF 1 <= n - 1 THEN (n - 1) - 1 + 1 ELSE 0
        /\ \A m \in 1..(n - 1) - 1 + 1 : a[m] = s[1 + m - 1]
    BY <2>1, SubSeqProperties
  <2>. HIDE DEF a, L
  <2>. QED BY <1>0, <2>2
<1>2. b \in Seq(S) /\ Len(b) = L - n /\ \A m \in 1..L - n : b[m] = s[n + m]
  <2>1. n + 1 \in Int /\ L \in Int /\ \A m \in n + 1..L : s[m] \in S
    BY <1>0
  <2>2. /\ b \in Seq(S) /\ Len(b) = IF n + 1 <= L THEN L - (n + 1) + 1 ELSE 0
        /\ \A m \in 1..L - (n + 1) + 1 : b[m] = s[n + 1 + m - 1]
    BY <2>1, SubSeqProperties
  <2>. HIDE DEF b, L
  <2>3. \A m \in 1..L - n : m \in 1..L - (n + 1) + 1 /\ n + 1 + m - 1 = n + m
    BY <1>0
  <2>. QED BY <1>0, <2>2, <2>3
<1>3. RemoveAt(s, n) = a \o b
  BY DEF RemoveAt
<1>. HIDE DEF a, b, L
<1>4. /\ a \o b \in Seq(S) /\ Len(a \o b) = Len(a) + Len(b)
      /\ \A m \in 1..Len(a) + Len(b) : (a \o b)[m] = IF m <= Len(a) THEN a[m] ELSE b[m - Len(a)]
  BY <1>1, <1>2, ConcatProperties
<1>5. Len(a) + Len(b) = L - 1 /\ DOMAIN (a \o b) = 1..(L - 1)
  BY <1>0, <1>1, <1>2, <1>4, LenProperties
<1>6. ASSUME NEW m \in 1..(L - 1) PROVE (a \o b)[m] = IF m < n THEN s[m] ELSE s[m + 1]
  <2>1. (a \o b)[m] = IF m <= n - 1 THEN a[m] ELSE b[m - (n - 1)]
    BY <1>1, <1>4, <1>5
  <2>2. CASE m < n
    <3>1. m <= n - 1 /\ m \in 1..n - 1
      BY <1>0, <2>2
    <3>. QED BY <1>1, <2>1, <2>2, <3>1
  <2>3. CASE ~ (m < n)
    <3>1. ~ (m <= n - 1) /\ m - (n - 1) \in 1..L - n /\ n + (m - (n - 1)) = m + 1
      BY <1>0, <2>3
    <3>. QED BY <1>2, <2>1, <2>3, <3>1
  <2>. QED BY <2>2, <2>3
<1>. QED BY <1>3, <1>4, <1>5, <1>6 DEF L

\* What the container may hold.
BeanMaps == [Keys -> Instances \cup {NoBean}]

\* What an entry is.
LEMMA EntryTypes ==
  ASSUME NEW es \in Seq(Entry)
  PROVE  /\ Len(es) \in Nat /\ DOMAIN es = 1..Len(es)
         /\ \A e \in DOMAIN es :
              /\ es[e] \in Entry /\ es[e].component \in Instances /\ es[e].component # NoBean
              /\ es[e].keys \subseteq Keys
              /\ es[e].added \in BOOLEAN /\ es[e].active \in BOOLEAN /\ es[e].started \in BOOLEAN
<1>1. Len(es) \in Nat /\ DOMAIN es = 1..Len(es) /\ \A e \in DOMAIN es : es[e] \in Entry
  BY LenProperties
<1>. QED BY <1>1, ContainerAssumption DEF Entry

\* Whatever the entries are, retiring and binding a key leave a list of them.
LEMMA RetireType ==
  ASSUME NEW es \in Seq(Entry), NEW k
  PROVE  Retire(es, k) \in Seq(Entry)
<1>. DEFINE current == {e \in DOMAIN es : k \in es[e].keys}
            at == CHOOSE e \in current : TRUE
            left == es[at].keys \ {k}
            ns == [es EXCEPT ![at].keys = left, ![at].active = @ /\ left # {}]
<1>0. /\ Len(es) \in Nat /\ DOMAIN es = 1..Len(es)
      /\ \A e \in DOMAIN es : es[e] \in Entry /\ es[e].keys \subseteq Keys
  BY EntryTypes
<1>1. Retire(es, k) = IF current = {} THEN es
                      ELSE IF left = {} /\ ~es[at].started THEN RemoveAt(es, at) ELSE ns
  BY DEF Retire
<1>2. current # {} => at \in DOMAIN es
  OBVIOUS
<1>. HIDE DEF current, at
<1>3. ASSUME current # {} PROVE RemoveAt(es, at) \in Seq(Entry)
  BY <1>0, <1>2, <1>3, RemovedAt
<1>4. ASSUME current # {} PROVE ns \in Seq(Entry)
  <2>1. left \in SUBSET Keys /\ (es[at].active /\ left # {}) \in BOOLEAN
    BY <1>0, <1>2, <1>4
  <2>. HIDE DEF left
  <2>2. ns[at] \in Entry
    BY <1>0, <1>2, <1>4, <2>1 DEF Entry
  <2>3. ns = [e \in 1..Len(es) |-> ns[e]] /\ \A e \in DOMAIN es : e # at => ns[e] = es[e]
    BY <1>0
  <2>4. \A e \in 1..Len(es) : ns[e] \in Entry
    BY <1>0, <2>2, <2>3
  <2>. HIDE DEF ns
  <2>. QED BY <1>0, <2>3, <2>4
<1>. HIDE DEF left, ns
<1>. QED BY <1>1, <1>3, <1>4

LEMMA BindType ==
  ASSUME NEW es \in Seq(Entry), NEW k \in Keys, NEW i \in Instances
  PROVE  Bind(es, k, i) \in Seq(Entry)
<1>. DEFINE found == {e \in DOMAIN es : es[e].component = i}
            first == CHOOSE e \in found : \A d \in found : e <= d
            ns == [es EXCEPT ![first].active = TRUE,
                             ![first].started = @ \/ i \in Prestarted,
                             ![first].keys = IF es[first].added THEN @ ELSE @ \cup {k}]
<1>0. /\ Len(es) \in Nat /\ DOMAIN es = 1..Len(es)
      /\ \A e \in DOMAIN es : es[e] \in Entry /\ es[e].keys \subseteq Keys
  BY EntryTypes
<1>1. Bind(es, k, i) = IF found = {} THEN Append(es, NewEntry(i, {k}, FALSE)) ELSE ns
  BY DEF Bind
<1>2. Append(es, NewEntry(i, {k}, FALSE)) \in Seq(Entry)
  <2>1. NewEntry(i, {k}, FALSE) \in Entry
    BY DEF NewEntry, Entry
  <2>. QED BY <2>1, AppendProperties
<1>3. found # {} => first \in DOMAIN es
  <2>1. found \in SUBSET Nat
    BY <1>0
  <2>2. \A e \in found : e \in DOMAIN es
    OBVIOUS
  <2>. HIDE DEF found
  <2>3. found # {} => \E e \in found : \A d \in found : e <= d
    BY <2>1, SomeLeast
  <2>. QED BY <2>2, <2>3
<1>. HIDE DEF found, first
<1>4. ASSUME found # {} PROVE ns \in Seq(Entry)
  <2>. DEFINE keys == IF es[first].added THEN es[first].keys ELSE es[first].keys \cup {k}
              begun == es[first].started \/ i \in Prestarted
  <2>1. keys \in SUBSET Keys /\ begun \in BOOLEAN
    BY <1>0, <1>3, <1>4
  <2>2. ns = [es EXCEPT ![first].active = TRUE, ![first].started = begun, ![first].keys = keys]
    BY <1>0, <1>3, <1>4 DEF Entry
  <2>. HIDE DEF keys, begun, ns
  <2>3. ns[first] \in Entry
    BY <1>0, <1>3, <1>4, <2>1, <2>2 DEF Entry
  <2>4. ns = [e \in 1..Len(es) |-> ns[e]] /\ \A e \in DOMAIN es : e # first => ns[e] = es[e]
    BY <1>0, <2>2
  <2>5. \A e \in 1..Len(es) : ns[e] \in Entry
    BY <1>0, <2>3, <2>4
  <2>. QED BY <1>0, <2>4, <2>5
<1>. HIDE DEF ns
<1>. QED BY <1>1, <1>2, <1>4

LEMMA SetEntryType ==
  ASSUME NEW es \in Seq(Entry), NEW k \in Keys, NEW i \in Instances
  PROVE  SetEntry(es, k, i) \in Seq(Entry)
BY RetireType, BindType DEF SetEntry

\* A key that no longer holds a bean leaves the entry that had it.
LEMMA RetireMatches ==
  ASSUME NEW es \in Seq(Entry), NEW bs \in BeanMaps, EntriesMatch(es, bs), NEW k \in Keys,
         NEW cs \in BeanMaps, cs[k] = NoBean, \A l \in Keys \ {k} : cs[l] = bs[l]
  PROVE  Retire(es, k) \in Seq(Entry) /\ EntriesMatch(Retire(es, k), cs)
<1>. DEFINE current == {e \in DOMAIN es : k \in es[e].keys}
            at == CHOOSE e \in current : TRUE
            left == es[at].keys \ {k}
            ns == Retire(es, k)
<1>0. /\ Len(es) \in Nat /\ DOMAIN es = 1..Len(es)
      /\ \A e \in DOMAIN es :
           /\ es[e] \in Entry /\ es[e].component \in Instances /\ es[e].component # NoBean
           /\ es[e].keys \subseteq Keys
           /\ es[e].added \in BOOLEAN /\ es[e].active \in BOOLEAN /\ es[e].started \in BOOLEAN
  BY EntryTypes
<1>1. \A d, e \in DOMAIN es : es[d].component = es[e].component /\ ~es[e].added =>
        IF es[d].added THEN e < d ELSE d = e
  BY DEF EntriesMatch
<1>2. /\ \A e \in DOMAIN es : es[e].added => es[e].active /\ es[e].keys = {}
      /\ \A e \in DOMAIN es : ~es[e].added =>
           es[e].keys = {l \in Keys : bs[l] = es[e].component} /\ (es[e].active <=> es[e].keys # {})
  BY DEF EntriesMatch
<1>3. \A l \in Keys : bs[l] # NoBean => \E e \in DOMAIN es : es[e].component = bs[l]
  BY DEF EntriesMatch
<1>4. \A e \in DOMAIN es : ~es[e].added =>
        {l \in Keys : cs[l] = es[e].component} = es[e].keys \ {k}
  <2>1. \A e \in DOMAIN es, l \in Keys : ~es[e].added =>
          (cs[l] = es[e].component <=> l # k /\ bs[l] = es[e].component)
    BY <1>0
  <2>. QED BY <1>2, <2>1
<1>5. CASE current = {}
  <2>1. ns = es
    BY <1>5 DEF Retire
  <2>2. \A e \in DOMAIN es : es[e].keys \ {k} = es[e].keys
    BY <1>5
  <2>3. \A e \in DOMAIN es :
          IF es[e].added THEN es[e].active /\ es[e].keys = {}
          ELSE /\ es[e].keys = {l \in Keys : cs[l] = es[e].component}
               /\ es[e].active <=> es[e].keys # {}
    BY <1>0, <1>2, <1>4, <2>2
  <2>4. \A l \in Keys : cs[l] # NoBean => \E e \in DOMAIN es : es[e].component = cs[l]
    BY <1>3
  <2>5. EntriesMatch(es, cs)
    BY <1>1, <2>3, <2>4 DEF EntriesMatch
  <2>. QED BY <2>1, <2>5
<1>6. CASE current # {}
  <2>1. at \in DOMAIN es /\ k \in es[at].keys /\ ~es[at].added
    BY <1>0, <1>2, <1>6
  <2>2. \A e \in DOMAIN es : e # at => k \notin es[e].keys
    BY <1>0, <1>1, <1>2, <2>1
  <2>3. ns = IF left = {} /\ ~es[at].started THEN RemoveAt(es, at)
             ELSE [es EXCEPT ![at].keys = left, ![at].active = @ /\ left # {}]
    BY <1>6 DEF Retire
  <2>4. left = {l \in Keys : cs[l] = es[at].component}
    BY <1>4, <2>1
  <2>5. \A e \in DOMAIN es : e # at =>
          IF es[e].added THEN es[e].active /\ es[e].keys = {}
          ELSE /\ es[e].keys = {l \in Keys : cs[l] = es[e].component}
               /\ es[e].active <=> es[e].keys # {}
    <3>1. \A e \in DOMAIN es : e # at => es[e].keys \ {k} = es[e].keys
      BY <2>2
    <3>. QED BY <1>0, <1>2, <1>4, <3>1
  <2>6. \A l \in Keys : cs[l] # NoBean => \E e \in DOMAIN es : es[e].component = cs[l]
    BY <1>3
  <2>. HIDE DEF current, at
  <2>7. CASE left = {} /\ ~es[at].started
    <3>1. ns = RemoveAt(es, at)
      BY <2>3, <2>7
    <3>2. /\ ns \in Seq(Entry) /\ DOMAIN ns = 1..(Len(es) - 1)
          /\ \A m \in 1..(Len(es) - 1) : ns[m] = IF m < at THEN es[m] ELSE es[m + 1]
      BY <1>0, <2>1, <3>1, RemovedAt
    <3>. DEFINE Old(m) == IF m < at THEN m ELSE m + 1
    <3>. HIDE DEF ns, left
    <3>3. \A m \in DOMAIN ns : Old(m) \in DOMAIN es /\ Old(m) # at /\ ns[m] = es[Old(m)]
      BY <1>0, <2>1, <3>2
    <3>4. \A m, n \in DOMAIN ns : (Old(m) < Old(n) => m < n) /\ (Old(m) = Old(n) => m = n)
      BY <1>0, <2>1, <3>2
    <3>5. ASSUME NEW e \in DOMAIN es, e # at PROVE \E m \in DOMAIN ns : Old(m) = e
      <4>1. e \in 1..Len(es) /\ at \in 1..Len(es)
        BY <1>0, <2>1
      <4>2. CASE e < at
        <5>1. e \in 1..(Len(es) - 1) /\ Old(e) = e
          BY <1>0, <4>1, <4>2
        <5>. QED BY <3>2, <5>1
      <4>3. CASE at < e
        <5>1. e - 1 \in 1..(Len(es) - 1) /\ Old(e - 1) = e
          BY <1>0, <4>1, <4>3
        <5>. QED BY <3>2, <5>1
      <4>. QED BY <3>5, <4>1, <4>2, <4>3
    <3>. HIDE DEF Old
    <3>6. \A d, e \in DOMAIN ns : ns[d].component = ns[e].component /\ ~ns[e].added =>
            IF ns[d].added THEN e < d ELSE d = e
      BY <1>1, <3>3, <3>4
    <3>7. \A e \in DOMAIN ns :
            IF ns[e].added THEN ns[e].active /\ ns[e].keys = {}
            ELSE /\ ns[e].keys = {l \in Keys : cs[l] = ns[e].component}
                 /\ ns[e].active <=> ns[e].keys # {}
      BY <2>5, <3>3
    <3>8. ASSUME NEW l \in Keys, cs[l] # NoBean PROVE \E e \in DOMAIN ns : ns[e].component = cs[l]
      <4>1. PICK e \in DOMAIN es : es[e].component = cs[l]
        BY <2>6, <3>8
      <4>2. e # at
        BY <2>4, <2>7, <4>1
      <4>. QED BY <3>3, <3>5, <4>1, <4>2
    <3>9. EntriesMatch(ns, cs)
      BY <3>6, <3>7, <3>8 DEF EntriesMatch
    <3>. QED BY <3>2, <3>9 DEF ns
  <2>8. CASE ~(left = {} /\ ~es[at].started)
    <3>1. ns = [es EXCEPT ![at].keys = left, ![at].active = @ /\ left # {}]
      BY <2>3, <2>8
    <3>. HIDE DEF ns, left
    <3>2. left \subseteq Keys /\ es[at].active = TRUE
      <4>1. es[at].active <=> es[at].keys # {}
        BY <1>2, <2>1
      <4>. QED BY <1>0, <2>1, <2>4, <4>1
    <3>3. /\ DOMAIN ns = DOMAIN es
          /\ \A e \in DOMAIN es : e # at => ns[e] = es[e]
          /\ ns[at].keys = left /\ ns[at].component = es[at].component
          /\ ns[at].added = es[at].added /\ ns[at].started = es[at].started
      BY <1>0, <2>1, <3>1 DEF Entry
    <3>4. ns[at].active = (left # {})
      BY <1>0, <2>1, <3>1, <3>2, Zenon DEF Entry
    <3>5. ns[at] \in Entry
      BY <1>0, <2>1, <3>1, <3>2 DEF Entry
    <3>6. ns \in Seq(Entry)
      <4>1. \A e \in DOMAIN es : ns[e] \in Entry
        BY <1>0, <3>3, <3>5
      <4>2. ns = [e \in 1..Len(es) |-> ns[e]]
        BY <1>0, <3>1
      <4>. QED BY <1>0, <3>3, <4>1, <4>2
    <3>7. \A d \in DOMAIN es : ns[d].component = es[d].component /\ ns[d].added = es[d].added
      BY <3>3
    <3>8. \A d, e \in DOMAIN ns : ns[d].component = ns[e].component /\ ~ns[e].added =>
            IF ns[d].added THEN e < d ELSE d = e
      BY <1>1, <3>3, <3>7
    <3>9. \A e \in DOMAIN ns :
            IF ns[e].added THEN ns[e].active /\ ns[e].keys = {}
            ELSE /\ ns[e].keys = {l \in Keys : cs[l] = ns[e].component}
                 /\ ns[e].active <=> ns[e].keys # {}
      <4>1. ~ns[at].added /\ ns[at].keys = {l \in Keys : cs[l] = ns[at].component}
        BY <2>1, <2>4, <3>3
      <4>2. ns[at].active <=> ns[at].keys # {}
        BY <3>3, <3>4
      <4>. QED BY <2>5, <3>3, <4>1, <4>2
    <3>10. \A l \in Keys : cs[l] # NoBean => \E e \in DOMAIN ns : ns[e].component = cs[l]
      BY <2>6, <3>3, <3>7
    <3>11. EntriesMatch(ns, cs)
      BY <3>8, <3>9, <3>10 DEF EntriesMatch
    <3>. QED BY <3>6, <3>11 DEF ns
  <2>. QED BY <2>7, <2>8
<1>. QED BY <1>5, <1>6

\* A key that has come to hold an instance is put on the instance's entry.
LEMMA BindMatches ==
  ASSUME NEW es \in Seq(Entry), NEW bs \in BeanMaps, EntriesMatch(es, bs), NEW k \in Keys,
         bs[k] = NoBean, NEW i \in Instances,
         NEW cs \in BeanMaps, cs[k] = i, \A l \in Keys \ {k} : cs[l] = bs[l]
  PROVE  Bind(es, k, i) \in Seq(Entry) /\ EntriesMatch(Bind(es, k, i), cs)
<1>. DEFINE found == {e \in DOMAIN es : es[e].component = i}
            first == CHOOSE e \in found : \A d \in found : e <= d
            ns == Bind(es, k, i)
<1>0. /\ Len(es) \in Nat /\ DOMAIN es = 1..Len(es)
      /\ \A e \in DOMAIN es :
           /\ es[e] \in Entry /\ es[e].component \in Instances /\ es[e].component # NoBean
           /\ es[e].keys \subseteq Keys
           /\ es[e].added \in BOOLEAN /\ es[e].active \in BOOLEAN /\ es[e].started \in BOOLEAN
  BY EntryTypes
<1>1. \A d, e \in DOMAIN es : es[d].component = es[e].component /\ ~es[e].added =>
        IF es[d].added THEN e < d ELSE d = e
  BY DEF EntriesMatch
<1>2. \A e \in DOMAIN es :
        IF es[e].added THEN es[e].active /\ es[e].keys = {}
        ELSE /\ es[e].keys = {l \in Keys : bs[l] = es[e].component}
             /\ es[e].active <=> es[e].keys # {}
  BY DEF EntriesMatch
<1>3. \A l \in Keys : bs[l] # NoBean => \E e \in DOMAIN es : es[e].component = bs[l]
  BY DEF EntriesMatch
<1>4. \A e \in DOMAIN es : es[e].component # i =>
        {l \in Keys : cs[l] = es[e].component} = {l \in Keys : bs[l] = es[e].component}
  BY <1>0
<1>5. {l \in Keys : cs[l] = i} = {l \in Keys : bs[l] = i} \cup {k}
  OBVIOUS
<1>6. CASE found = {}
  <2>. DEFINE n == Len(es) + 1
              new == NewEntry(i, {k}, FALSE)
  <2>1. ns = Append(es, new)
    BY <1>6 DEF Bind
  <2>2. /\ new \in Entry /\ new.component = i /\ new.keys = {k}
        /\ new.active = TRUE /\ new.added = FALSE
    BY DEF NewEntry, Entry
  <2>. HIDE DEF new, ns
  <2>3. /\ ns \in Seq(Entry) /\ DOMAIN ns = 1..n /\ ns[n] = new
        /\ \A e \in DOMAIN es : ns[e] = es[e]
    BY <1>0, <2>1, <2>2, AppendProperties, LenProperties
  <2>4. DOMAIN ns = DOMAIN es \cup {n} /\ \A e \in DOMAIN es : es[e].component # i
    BY <1>0, <1>6, <2>3
  <2>5. \A d, e \in DOMAIN ns : ns[d].component = ns[e].component /\ ~ns[e].added =>
          IF ns[d].added THEN e < d ELSE d = e
    BY <1>1, <2>2, <2>3, <2>4
  <2>6. {l \in Keys : cs[l] = i} = {k}
    BY <1>0, <1>3, <1>5, <2>4, ContainerAssumption
  <2>7. \A e \in DOMAIN ns :
          IF ns[e].added THEN ns[e].active /\ ns[e].keys = {}
          ELSE /\ ns[e].keys = {l \in Keys : cs[l] = ns[e].component}
               /\ ns[e].active <=> ns[e].keys # {}
    BY <1>2, <1>4, <2>2, <2>3, <2>4, <2>6
  <2>8. \A l \in Keys : cs[l] # NoBean => \E e \in DOMAIN ns : ns[e].component = cs[l]
    BY <1>3, <2>2, <2>3, <2>4
  <2>9. EntriesMatch(ns, cs)
    BY <2>5, <2>7, <2>8 DEF EntriesMatch
  <2>. QED BY <2>3, <2>9 DEF ns
<1>7. CASE found # {}
  <2>1. first \in found /\ \A d \in found : first <= d
    <3>1. found \in SUBSET Nat
      BY <1>0
    <3>. HIDE DEF found
    <3>2. \E e \in found : \A d \in found : e <= d
      BY <1>7, <3>1, SomeLeast
    <3>. QED BY <3>2
  <2>2. ns = [es EXCEPT ![first].active = TRUE,
                        ![first].started = @ \/ i \in Prestarted,
                        ![first].keys = IF es[first].added THEN @ ELSE @ \cup {k}]
    BY <1>7 DEF Bind
  <2>3. first \in DOMAIN es /\ es[first].component = i
    BY <2>1
  <2>4. \A d \in DOMAIN es : es[d].component = i => first <= d
    BY <2>1
  <2>. HIDE DEF ns, first, found
  <2>5. /\ DOMAIN ns = DOMAIN es
        /\ \A e \in DOMAIN es : e # first => ns[e] = es[e]
        /\ ns[first].component = i /\ ns[first].added = es[first].added
        /\ ns[first].active = TRUE
    BY <1>0, <2>2, <2>3 DEF Entry
  <2>6. ns[first].keys = IF es[first].added THEN es[first].keys ELSE es[first].keys \cup {k}
    BY <1>0, <2>2, <2>3 DEF Entry
  <2>7. ns[first].started \in BOOLEAN
    <3>1. (es[first].started \/ i \in Prestarted) \in BOOLEAN
      OBVIOUS
    <3>2. ns[first].started = (es[first].started \/ i \in Prestarted)
      BY <1>0, <2>2, <2>3, Zenon DEF Entry
    <3>. QED BY <3>1, <3>2
  <2>8. ns[first] \in Entry
    <3>1. ns[first].keys \in SUBSET Keys /\ es[first].added \in BOOLEAN
      BY <1>0, <2>3, <2>6
    <3>2. ns[first] = [component |-> ns[first].component, keys |-> ns[first].keys,
                       added |-> ns[first].added, active |-> ns[first].active,
                       started |-> ns[first].started]
      BY <1>0, <2>2, <2>3 DEF Entry
    <3>. QED BY <2>5, <2>7, <3>1, <3>2 DEF Entry
  <2>9. ns \in Seq(Entry)
    <3>1. \A e \in DOMAIN es : ns[e] \in Entry
      BY <1>0, <2>5, <2>8
    <3>2. ns = [e \in 1..Len(es) |-> ns[e]]
      BY <1>0, <2>2
    <3>. QED BY <1>0, <3>1, <3>2
  <2>10. \A d \in DOMAIN es : ns[d].component = es[d].component /\ ns[d].added = es[d].added
    BY <2>3, <2>5
  <2>11. \A d, e \in DOMAIN ns : ns[d].component = ns[e].component /\ ~ns[e].added =>
           IF ns[d].added THEN e < d ELSE d = e
    BY <1>1, <2>5, <2>10
  <2>12. ASSUME NEW e \in DOMAIN es, e # first, ~es[e].added PROVE es[e].component # i
    <3>1. SUFFICES ASSUME es[e].component = i PROVE FALSE
      OBVIOUS
    <3>2. IF es[first].added THEN e < first ELSE first = e
      BY <1>1, <2>3, <2>12, <3>1
    <3>3. first <= e /\ first \in Int /\ e \in Int
      BY <1>0, <2>3, <2>4, <3>1
    <3>4. ~ (e < first)
      BY <3>3
    <3>. QED BY <2>12, <3>2, <3>4
  <2>13. \A e \in DOMAIN es : e # first =>
           IF ns[e].added THEN ns[e].active /\ ns[e].keys = {}
           ELSE /\ ns[e].keys = {l \in Keys : cs[l] = ns[e].component}
                /\ ns[e].active <=> ns[e].keys # {}
    BY <1>2, <1>4, <2>5, <2>12
  <2>14. IF ns[first].added THEN ns[first].active /\ ns[first].keys = {}
         ELSE /\ ns[first].keys = {l \in Keys : cs[l] = ns[first].component}
              /\ ns[first].active <=> ns[first].keys # {}
    <3>1. CASE es[first].added
      BY <1>2, <2>3, <2>5, <2>6, <3>1
    <3>2. CASE ~es[first].added
      BY <1>2, <1>5, <2>3, <2>5, <2>6, <3>2
    <3>. QED BY <3>1, <3>2
  <2>15. \A e \in DOMAIN ns :
           IF ns[e].added THEN ns[e].active /\ ns[e].keys = {}
           ELSE /\ ns[e].keys = {l \in Keys : cs[l] = ns[e].component}
                /\ ns[e].active <=> ns[e].keys # {}
    BY <2>5, <2>13, <2>14
  <2>16. \A l \in Keys : cs[l] # NoBean => \E e \in DOMAIN ns : ns[e].component = cs[l]
    BY <1>3, <2>3, <2>5, <2>10
  <2>17. EntriesMatch(ns, cs)
    BY <2>11, <2>15, <2>16 DEF EntriesMatch
  <2>. QED BY <2>9, <2>17 DEF ns
<1>. QED BY <1>6, <1>7

\* After a registration the entries are those of the beans again.
LEMMA SetEntryMatches ==
  ASSUME NEW es \in Seq(Entry), NEW bs \in BeanMaps, EntriesMatch(es, bs), NEW k \in Keys,
         NEW i \in Instances, bs[k] # i,
         NEW cs \in BeanMaps, cs[k] = i, \A l \in Keys \ {k} : cs[l] = bs[l]
  PROVE  SetEntry(es, k, i) \in Seq(Entry) /\ EntriesMatch(SetEntry(es, k, i), cs)
<1>. DEFINE without == [bs EXCEPT ![k] = NoBean]
<1>1. ~ \E e \in DOMAIN es : k \in es[e].keys /\ es[e].component = i
  BY EntryTypes DEF EntriesMatch
<1>2. SetEntry(es, k, i) = Bind(Retire(es, k), k, i)
  BY <1>1 DEF SetEntry
<1>3. /\ without \in BeanMaps /\ without[k] = NoBean
      /\ \A l \in Keys \ {k} : without[l] = bs[l] /\ cs[l] = without[l]
  BY DEF BeanMaps
<1>. HIDE DEF without
<1>4. Retire(es, k) \in Seq(Entry) /\ EntriesMatch(Retire(es, k), without)
  BY <1>3, RetireMatches
<1>. QED BY <1>2, <1>3, <1>4, BindMatches

\* A component that is added by hand comes after any entry it has as a bean.
LEMMA AddMatches ==
  ASSUME NEW es \in Seq(Entry), NEW bs \in BeanMaps, EntriesMatch(es, bs), NEW i \in Instances
  PROVE  LET ns == Append(es, NewEntry(i, {}, TRUE)) IN ns \in Seq(Entry) /\ EntriesMatch(ns, bs)
<1>. DEFINE new == NewEntry(i, {}, TRUE)
            n == Len(es) + 1
            ns == Append(es, new)
<1>1. Len(es) \in Nat /\ DOMAIN es = 1..Len(es)
  BY EntryTypes
<1>2. new \in Entry /\ new.keys = {} /\ new.active = TRUE /\ new.added = TRUE
  BY DEF NewEntry, Entry
<1>. HIDE DEF new
<1>3. /\ ns \in Seq(Entry) /\ DOMAIN ns = 1..n /\ ns[n] = new
      /\ \A e \in DOMAIN es : ns[e] = es[e]
  BY <1>1, <1>2, AppendProperties, LenProperties
<1>4. DOMAIN ns = DOMAIN es \cup {n} /\ \A e \in DOMAIN es : e < n
  BY <1>1, <1>3
<1>. HIDE DEF ns, n
<1>5. /\ \A d, e \in DOMAIN es : es[d].component = es[e].component /\ ~es[e].added =>
           IF es[d].added THEN e < d ELSE d = e
      /\ \A e \in DOMAIN es :
           IF es[e].added THEN es[e].active /\ es[e].keys = {}
           ELSE /\ es[e].keys = {k \in Keys : bs[k] = es[e].component}
                /\ es[e].active <=> es[e].keys # {}
      /\ \A k \in Keys : bs[k] # NoBean => \E e \in DOMAIN es : es[e].component = bs[k]
  BY DEF EntriesMatch
<1>6. \A d, e \in DOMAIN ns : ns[d].component = ns[e].component /\ ~ns[e].added =>
        IF ns[d].added THEN e < d ELSE d = e
  <2>. SUFFICES ASSUME NEW d \in DOMAIN ns, NEW e \in DOMAIN ns,
                       ns[d].component = ns[e].component, ~ns[e].added
                PROVE  IF ns[d].added THEN e < d ELSE d = e
    OBVIOUS
  <2>1. ns[n].added /\ e # n /\ e \in DOMAIN es /\ ns[e] = es[e]
    BY <1>2, <1>3, <1>4
  <2>2. CASE d = n
    BY <1>4, <2>1, <2>2
  <2>3. CASE d # n
    <3>1. d \in DOMAIN es /\ ns[d] = es[d]
      BY <1>3, <1>4, <2>3
    <3>2. es[d].component = es[e].component /\ ~es[e].added
      BY <2>1, <3>1
    <3>3. IF es[d].added THEN e < d ELSE d = e
      BY <1>5, <2>1, <3>1, <3>2
    <3>. QED BY <3>1, <3>3
  <2>. QED BY <2>2, <2>3
<1>7. \A e \in DOMAIN ns :
        IF ns[e].added THEN ns[e].active /\ ns[e].keys = {}
        ELSE /\ ns[e].keys = {k \in Keys : bs[k] = ns[e].component}
             /\ ns[e].active <=> ns[e].keys # {}
  <2>1. ns[n].added /\ ns[n].active /\ ns[n].keys = {}
    BY <1>2, <1>3
  <2>2. \A e \in DOMAIN ns : e = n \/ (e \in DOMAIN es /\ ns[e] = es[e])
    BY <1>3, <1>4
  <2>. QED BY <1>5, <2>1, <2>2
<1>8. \A k \in Keys : bs[k] # NoBean => \E e \in DOMAIN ns : ns[e].component = bs[k]
  BY <1>3, <1>4, <1>5
<1>9. EntriesMatch(ns, bs)
  BY <1>6, <1>7, <1>8 DEF EntriesMatch
<1>. QED BY <1>3, <1>9 DEF ns, new

\* Every entry of a batch is set in what the earlier ones left.
LEMMA SetEntriesSteps ==
  ASSUME NEW fresh \in Seq(Instances)
  PROVE  /\ SetEntries(fresh)[0] = entries
         /\ \A n \in 1..Len(fresh) :
              SetEntries(fresh)[n] = SetEntry(SetEntries(fresh)[n - 1], TypeOf[fresh[n]], fresh[n])
<1>. DEFINE L == Len(fresh)
            Next(es, n) == SetEntry(es, TypeOf[fresh[n]], fresh[n])
            Upto(g, n) == g = [m \in 0..n |-> IF m = 0 THEN entries ELSE Next(g[m - 1], m)]
            S == {n \in 0..L : ~ \E g : Upto(g, n)}
<1>0. L \in Nat
  BY LenProperties
<1>1. \E g : Upto(g, 0)
  <2>1. Upto([m \in 0..0 |-> entries], 0)
    OBVIOUS
  <2>. QED BY <2>1
<1>2. ASSUME NEW n \in 1..L, NEW g, Upto(g, n - 1) PROVE \E h : Upto(h, n)
  <2>. DEFINE h == [m \in 0..n |-> IF m = n THEN Next(g[n - 1], n) ELSE g[m]]
  <2>. HIDE DEF Next
  <2>1. ASSUME NEW m \in 0..n
        PROVE  h[m] = IF m = 0 THEN entries ELSE Next(h[m - 1], m)
    <3>1. CASE m = n
      <4>1. n # 0 /\ n - 1 \in 0..n /\ n - 1 # n
        BY <1>0
      <4>. QED BY <3>1, <4>1
    <3>2. CASE m # n
      <4>1. m \in 0..n - 1 /\ (m # 0 => m - 1 \in 0..n /\ m - 1 # n)
        BY <1>0, <3>2
      <4>. QED BY <1>2, <3>2, <4>1
    <3>. QED BY <3>1, <3>2
  <2>2. h = [m \in 0..n |-> h[m]]
    OBVIOUS
  <2>. HIDE DEF h
  <2>3. Upto(h, n)
    BY <2>1, <2>2
  <2>. QED BY <2>3
<1>3. S = {}
  <2>. SUFFICES ASSUME S # {} PROVE FALSE
    OBVIOUS
  <2>1. S \in SUBSET Nat
    BY <1>0
  <2>. HIDE DEF S
  <2>2. PICK n \in S : \A m \in S : n <= m
    BY <2>1, SomeLeast
  <2>. USE DEF S
  <2>. HIDE DEF Upto
  <2>3. n \in 0..L /\ ~ \E g : Upto(g, n)
    BY <2>2
  <2>4. n \in 1..L /\ n - 1 \in 0..L
    BY <1>0, <1>1, <2>3
  <2>5. n - 1 \notin S
    <3>1. ~ (n <= n - 1)
      BY <2>4
    <3>. QED BY <2>2, <3>1
  <2>6. \E g : Upto(g, n - 1)
    BY <2>4, <2>5
  <2>. QED BY <1>2, <2>3, <2>4, <2>6
<1>4. \E g : Upto(g, L)
  <2>1. L \in 0..L
    BY <1>0
  <2>. HIDE DEF Upto
  <2>. QED BY <1>3, <2>1
<1>5. Upto(SetEntries(fresh), L)
  BY <1>4 DEF SetEntries
<1>6. \A m \in 0..L : SetEntries(fresh)[m] =
        IF m = 0 THEN entries ELSE SetEntry(SetEntries(fresh)[m - 1], TypeOf[fresh[m]], fresh[m])
  BY <1>5
<1>. QED BY <1>0, <1>6

\* However far a batch comes, it leaves a list of entries.
LEMMA SetEntriesType ==
  ASSUME entries \in Seq(Entry), NEW fresh \in Seq(Instances), NEW last \in DOMAIN fresh
  PROVE  SetEntries(fresh)[last] \in Seq(Entry)
<1>. DEFINE L == Len(fresh)
            Listed(n) == SetEntries(fresh)[n] \in Seq(Entry)
            S == {n \in 0..L : ~ Listed(n)}
<1>0. L \in Nat /\ DOMAIN fresh = 1..L /\ \A m \in 1..L : fresh[m] \in Instances
  BY LenProperties
<1>1. Listed(0)
  BY SetEntriesSteps
<1>2. ASSUME NEW n \in 1..L, Listed(n - 1) PROVE Listed(n)
  <2>1. fresh[n] \in Instances /\ TypeOf[fresh[n]] \in Keys
    BY <1>0, ContainerAssumption DEF Keys
  <2>2. SetEntries(fresh)[n] = SetEntry(SetEntries(fresh)[n - 1], TypeOf[fresh[n]], fresh[n])
    BY SetEntriesSteps
  <2>. QED BY <1>2, <2>1, <2>2, SetEntryType
<1>3. S = {}
  <2>. SUFFICES ASSUME S # {} PROVE FALSE
    OBVIOUS
  <2>1. S \in SUBSET Nat
    BY <1>0
  <2>. HIDE DEF S
  <2>2. PICK n \in S : \A m \in S : n <= m
    BY <2>1, SomeLeast
  <2>. USE DEF S
  <2>. HIDE DEF Listed
  <2>3. n \in 0..L /\ ~ Listed(n)
    BY <2>2
  <2>4. n \in 1..L /\ n - 1 \in 0..L
    BY <1>0, <1>1, <2>3
  <2>5. n - 1 \notin S
    <3>1. ~ (n <= n - 1)
      BY <2>4
    <3>. QED BY <2>2, <3>1
  <2>. QED BY <1>2, <2>3, <2>4, <2>5
<1>4. last \in 0..L
  BY <1>0
<1>. HIDE DEF Listed
<1>5. Listed(last)
  BY <1>3, <1>4
<1>. QED BY <1>5 DEF Listed

\* After a batch that does not panic the entries are those of the beans again.
LEMMA SetEntriesMatch ==
  ASSUME entries \in Seq(Entry), beans \in BeanMaps, EntriesMatch(entries, beans),
         NEW fresh \in Seq(Instances),
         \A m \in DOMAIN fresh : beans[TypeOf[fresh[m]]] = NoBean,
         \A m, n \in DOMAIN fresh : TypeOf[fresh[m]] = TypeOf[fresh[n]] => m = n,
         NEW cs \in BeanMaps,
         \A m \in DOMAIN fresh : cs[TypeOf[fresh[m]]] = fresh[m],
         \A k \in Keys : (\A m \in DOMAIN fresh : TypeOf[fresh[m]] # k) => cs[k] = beans[k]
  PROVE  LET es == SetEntries(fresh)[Len(fresh)] IN es \in Seq(Entry) /\ EntriesMatch(es, cs)
<1>. DEFINE L == Len(fresh)
            Of(n) == [k \in Keys |-> IF \E m \in 1..n : TypeOf[fresh[m]] = k
                                     THEN cs[k] ELSE beans[k]]
            Agrees(n) == /\ SetEntries(fresh)[n] \in Seq(Entry)
                          /\ EntriesMatch(SetEntries(fresh)[n], Of(n))
            S == {n \in 0..L : ~ Agrees(n)}
<1>0. L \in Nat /\ DOMAIN fresh = 1..L /\ \A m \in 1..L : fresh[m] \in Instances
  BY LenProperties
<1>1. \A n \in 0..L : Of(n) \in BeanMaps
  BY DEF BeanMaps
<1>2. Agrees(0)
  <2>1. Of(0) = beans
    <3>1. \A k \in Keys : Of(0)[k] = beans[k]
      BY <1>0
    <3>2. Of(0) \in BeanMaps
      BY DEF BeanMaps
    <3>. HIDE DEF Of
    <3>. QED BY <3>1, <3>2 DEF BeanMaps
  <2>2. SetEntries(fresh)[0] = entries
    BY SetEntriesSteps
  <2>. HIDE DEF Of
  <2>. QED BY <2>1, <2>2
<1>3. ASSUME NEW n \in 1..L, Agrees(n - 1) PROVE Agrees(n)
  <2>. DEFINE k == TypeOf[fresh[n]]
              i == fresh[n]
  <2>0. n - 1 \in 0..L /\ n \in 0..L /\ i \in Instances /\ k \in Keys
    BY <1>0, ContainerAssumption DEF Keys
  <2>1. SetEntries(fresh)[n] = SetEntry(SetEntries(fresh)[n - 1], k, i)
    BY SetEntriesSteps
  <2>2. Of(n - 1)[k] = NoBean
    <3>1. beans[k] = NoBean
      BY <1>0
    <3>2. \A m \in 1..n - 1 : m \in 1..L /\ m # n
      BY <1>0
    <3>3. \A m \in 1..n - 1 : TypeOf[fresh[m]] # k
      BY <1>0, <3>2
    <3>. HIDE DEF k
    <3>. QED BY <2>0, <3>1, <3>3
  <2>3. Of(n)[k] = i
    <3>1. n \in 1..n /\ cs[k] = i
      BY <1>0
    <3>. QED BY <2>0, <3>1
  <2>4. \A l \in Keys \ {k} : Of(n)[l] = Of(n - 1)[l]
    <3>1. \A m \in 1..n : m = n \/ m \in 1..n - 1
      BY <1>0
    <3>2. \A m \in 1..n - 1 : m \in 1..n
      BY <1>0
    <3>. QED BY <3>1, <3>2
  <2>5. i # NoBean
    BY <2>0, ContainerAssumption
  <2>6. Of(n - 1) \in BeanMaps /\ Of(n) \in BeanMaps
    BY <1>1, <2>0
  <2>7. SetEntries(fresh)[n - 1] \in Seq(Entry) /\ EntriesMatch(SetEntries(fresh)[n - 1], Of(n - 1))
    BY <1>3
  <2>. HIDE DEF Of, k, i
  <2>. QED BY <2>0, <2>1, <2>2, <2>3, <2>4, <2>5, <2>6, <2>7, SetEntryMatches
<1>4. S = {}
  <2>. SUFFICES ASSUME S # {} PROVE FALSE
    OBVIOUS
  <2>1. S \in SUBSET Nat
    BY <1>0
  <2>. HIDE DEF S
  <2>2. PICK n \in S : \A m \in S : n <= m
    BY <2>1, SomeLeast
  <2>. USE DEF S
  <2>. HIDE DEF Agrees
  <2>3. n \in 0..L /\ ~ Agrees(n)
    BY <2>2
  <2>4. n \in 1..L /\ n - 1 \in 0..L
    BY <1>0, <1>2, <2>3
  <2>5. n - 1 \notin S
    <3>1. ~ (n <= n - 1)
      BY <2>4
    <3>. QED BY <2>2, <3>1
  <2>. QED BY <1>3, <2>3, <2>4, <2>5
<1>5. Agrees(L)
  <2>1. L \in 0..L
    BY <1>0
  <2>. HIDE DEF Agrees
  <2>. QED BY <1>4, <2>1
<1>6. Of(L) = cs
  <2>1. \A k \in Keys : Of(L)[k] = cs[k]
    BY <1>0
  <2>2. Of(L) \in BeanMaps
    BY DEF BeanMaps
  <2>. HIDE DEF Of
  <2>. QED BY <2>1, <2>2 DEF BeanMaps
<1>. HIDE DEF Of
<1>. QED BY <1>5, <1>6

\* Without its first place of k a list of keys still has every other key.
LEMMA OthersStay ==
  ASSUME NEW s \in Seq(Keys), NEW k
  PROVE  /\ RemoveFirst(s, k) \in Seq(Keys)
         /\ \A l \in Range(s) : l # k => l \in Range(RemoveFirst(s, k))
<1>0. Len(s) \in Nat /\ DOMAIN s = 1..Len(s)
  BY LenProperties
<1>1. CASE ~ \E n \in 1..Len(s) : s[n] = k
  BY <1>1 DEF RemoveFirst
<1>2. CASE \E n \in 1..Len(s) : s[n] = k
  <2>. DEFINE I == {n \in 1..Len(s) : s[n] = k}
              at == Min(I)
  <2>1. at \in I
    <3>1. I \in SUBSET Nat /\ I # {}
      BY <1>0, <1>2
    <3>. HIDE DEF I
    <3>2. \E x \in I : \A y \in I : x <= y
      BY <3>1, SomeLeast
    <3>. QED BY <3>2 DEF Min
  <2>2. RemoveFirst(s, k) = RemoveAt(s, at)
    BY <1>2 DEF RemoveFirst, SelectInSeq
  <2>3. at \in 1..Len(s) /\ s[at] = k
    BY <2>1
  <2>. HIDE DEF at, I
  <2>. DEFINE ns == RemoveAt(s, at)
  <2>4. /\ ns \in Seq(Keys) /\ DOMAIN ns = 1..(Len(s) - 1)
        /\ \A m \in 1..(Len(s) - 1) : ns[m] = IF m < at THEN s[m] ELSE s[m + 1]
    BY <2>3, RemovedAt
  <2>. HIDE DEF ns
  <2>5. ASSUME NEW n \in 1..Len(s), s[n] # k PROVE \E m \in DOMAIN ns : ns[m] = s[n]
    <3>1. n # at /\ n \in Int /\ at \in Int
      BY <2>3, <2>5
    <3>2. CASE n < at
      <4>1. n \in 1..(Len(s) - 1)
        BY <1>0, <2>3, <3>1, <3>2
      <4>. QED BY <2>4, <3>2, <4>1
    <3>3. CASE at < n
      <4>1. n - 1 \in 1..(Len(s) - 1) /\ ~ (n - 1 < at) /\ n - 1 + 1 = n
        BY <1>0, <2>3, <3>1, <3>3
      <4>. QED BY <2>4, <4>1
    <3>. QED BY <3>1, <3>2, <3>3
  <2>. QED BY <1>0, <2>2, <2>4, <2>5 DEF Range, ns
<1>. QED BY <1>1, <1>2

\* Removing recomputes a type's instance from a bean of that type.
LEMMA LastIsOne ==
  ASSUME NEW os \in Seq(Keys), NEW bs, NEW t
  PROVE  LET n == LastOfType(bs, os, t)
         IN IF \E m \in DOMAIN os : HoldsType(bs, os[m], t)
            THEN n \in DOMAIN os /\ HoldsType(bs, os[n], t) ELSE n = 0
<1>. DEFINE I == {n \in 1..Len(os) : HoldsType(bs, os[n], t)}
            T == {Len(os) - x : x \in I}
<1>0. Len(os) \in Nat /\ DOMAIN os = 1..Len(os)
  BY LenProperties
<1>1. LastOfType(bs, os, t) = IF I # {} THEN Max(I) ELSE 0
  BY DEF LastOfType, SelectLastInSeq
<1>2. ASSUME I # {} PROVE Max(I) \in I
  <2>0. \A x \in I : x \in Int /\ Len(os) - x \in Nat
    BY <1>0
  <2>. HIDE DEF I
  <2>1. PICK m \in T : \A y \in T : m <= y
    <3>1. T \in SUBSET Nat /\ T # {}
      BY <1>2, <2>0
    <3>. HIDE DEF T
    <3>. QED BY <3>1, SomeLeast
  <2>2. PICK x \in I : m = Len(os) - x
    OBVIOUS
  <2>3. \A y \in I : Len(os) - x <= Len(os) - y /\ Len(os) \in Int
    BY <1>0, <2>1, <2>2
  <2>4. \A y \in I : x >= y
    BY <2>0, <2>3
  <2>. QED BY <2>4 DEF Max
<1>3. \A n : n \in I <=> n \in DOMAIN os /\ HoldsType(bs, os[n], t)
  BY <1>0
<1>4. 0 \notin DOMAIN os
  BY <1>0
<1>. HIDE DEF I
<1>. QED BY <1>1, <1>2, <1>3, <1>4

\* The container is empty.
LEMMA ContainerStarts == ContainerInit => ContainerIInv
<1>. SUFFICES ASSUME ContainerInit PROVE ContainerIInv
  OBVIOUS
<1>1. ContainerTypeOK
  <2>1. /\ beans \in [Keys -> Instances \cup {NoBean}]
        /\ concrete \in [BeanTypes -> Instances \cup {NoBean}]
    BY DEF ContainerInit
  <2>2. order \in Seq(Keys) /\ entries \in Seq(Entry)
    BY EmptySeq DEF ContainerInit
  <2>. QED BY <2>1, <2>2 DEF ContainerInit, ContainerTypeOK
<1>2. \A k \in Keys : beans[k] = NoBean
  BY DEF ContainerInit
<1>3. EntriesMatch(entries, beans)
  BY <1>2 DEF ContainerInit, EntriesMatch
<1>4. TypesKnown
  BY <1>2 DEF TypesKnown, Keys
<1>. QED BY <1>1, <1>3, <1>4 DEF ContainerIInv

\* Registering, removing and closing keep the list that of the beans, and
\* what is known of the types true.
LEMMA ContainerKept == ContainerIInv /\ [ContainerNext]_containerVars => ContainerIInv'
<1>. SUFFICES ASSUME ContainerIInv, [ContainerNext]_containerVars PROVE ContainerIInv'
  OBVIOUS
<1>0. /\ beans \in BeanMaps /\ order \in Seq(Keys)
      /\ concrete \in [BeanTypes -> Instances \cup {NoBean}]
      /\ conflicts \subseteq BeanTypes /\ entries \in Seq(Entry)
      /\ strictBeans \in BOOLEAN /\ closed \in BOOLEAN /\ halfSet \in BOOLEAN
  BY DEF ContainerIInv, ContainerTypeOK, BeanMaps
<1>1. ~halfSet => EntriesMatch(entries, beans)
  BY DEF ContainerIInv
<1>2. /\ \A t \in BeanTypes : beans[t] # NoBean => TypeOf[beans[t]] = t
      /\ \A k \in Keys : beans[k] # NoBean /\ TypeOf[beans[k]] \notin conflicts =>
           beans[k] = concrete[TypeOf[beans[k]]]
      /\ \A k \in Keys : beans[k] # NoBean => k \in Range(order)
  BY DEF ContainerIInv, TypesKnown
<1>3. /\ \A i \in Instances : TypeOf[i] \in BeanTypes /\ TypeOf[i] \in Keys /\ i # NoBean
      /\ \A t \in BeanTypes : t \in Keys /\ t \notin Interfaces
      /\ \A k \in Keys : beans[k] # NoBean => beans[k] \in Instances
  BY <1>0, ContainerAssumption DEF Keys, BeanMaps
<1>4. ASSUME NEW k \in Keys, NEW i \in Instances, NEW strictly \in BOOLEAN,
             Registers(k, i, strictly), k \in BeanTypes => TypeOf[i] = k
      PROVE  ContainerIInv'
  <2>1. /\ beans[k] # i
        /\ beans' = [beans EXCEPT ![k] = i]
        /\ order' = IF beans[k] = NoBean THEN Append(order, k) ELSE order
        /\ concrete' = [concrete EXCEPT ![TypeOf[i]] = i]
        /\ conflicts' = conflicts \cup (IF Conflicting(i) THEN {TypeOf[i]} ELSE {})
        /\ entries' = SetEntry(entries, k, i)
        /\ strictBeans' = strictBeans /\ closed' = closed /\ halfSet' = halfSet
    BY <1>4 DEF Registers
  <2>2. beans' \in BeanMaps /\ beans'[k] = i /\ \A l \in Keys \ {k} : beans'[l] = beans[l]
    BY <1>0, <2>1 DEF BeanMaps
  <2>3. entries' \in Seq(Entry) /\ (~halfSet' => EntriesMatch(entries', beans'))
    BY <1>0, <1>1, <2>1, <2>2, SetEntryType, SetEntryMatches
  <2>4. order' \in Seq(Keys) /\ Range(order) \subseteq Range(order')
        /\ (beans[k] = NoBean => k \in Range(order'))
    <3>1. CASE beans[k] = NoBean
      <4>1. order' = Append(order, k) /\ DOMAIN order = 1..Len(order) /\ Len(order) \in Nat
        BY <1>0, <2>1, <3>1, LenProperties
      <4>2. /\ order' \in Seq(Keys) /\ Len(order') = Len(order) + 1
            /\ \A n \in 1..Len(order) : order'[n] = order[n]
            /\ order'[Len(order) + 1] = k
        BY <1>0, <4>1, AppendProperties
      <4>3. DOMAIN order' = 1..(Len(order) + 1)
        BY <4>2, LenProperties
      <4>. QED BY <4>1, <4>2, <4>3 DEF Range
    <3>. QED BY <1>0, <2>1, <3>1
  <2>5. ContainerTypeOK'
    BY <1>0, <1>3, <2>1, <2>2, <2>3, <2>4 DEF ContainerTypeOK, BeanMaps
  <2>6. \A t \in BeanTypes : beans'[t] # NoBean => TypeOf[beans'[t]] = t
    BY <1>2, <1>3, <1>4, <2>2
  <2>7. ASSUME NEW l \in Keys, beans'[l] # NoBean, TypeOf[beans'[l]] \notin conflicts'
        PROVE  beans'[l] = concrete'[TypeOf[beans'[l]]]
    <3>1. CASE l = k
      BY <1>0, <1>3, <2>1, <2>2, <3>1
    <3>2. CASE l # k
      <4>1. beans'[l] = beans[l] /\ beans[l] \in Instances /\ TypeOf[beans[l]] \notin conflicts
            /\ beans[l] = concrete[TypeOf[beans[l]]]
        BY <1>2, <1>3, <2>1, <2>2, <2>7, <3>2
      <4>2. CASE TypeOf[beans[l]] # TypeOf[i]
        BY <1>0, <1>3, <2>1, <4>1, <4>2
      <4>3. CASE TypeOf[beans[l]] = TypeOf[i]
        <5>1. ~ Conflicting(i)
          BY <2>1, <2>7, <4>1, <4>3
        <5>2. concrete[TypeOf[i]] = i
          BY <1>3, <4>1, <4>3, <5>1 DEF Conflicting
        <5>. QED BY <1>0, <1>3, <2>1, <4>1, <4>3, <5>2
      <4>. QED BY <4>2, <4>3
    <3>. QED BY <3>1, <3>2
  <2>8. \A l \in Keys : beans'[l] # NoBean => l \in Range(order')
    BY <1>2, <2>2, <2>4
  <2>9. TypesKnown'
    BY <2>6, <2>7, <2>8 DEF TypesKnown
  <2>. QED BY <2>3, <2>5, <2>9 DEF ContainerIInv
<1>5. ASSUME NEW S \in SUBSET Instances, TrySetBatch(S) PROVE ContainerIInv'
  <2>. DEFINE new == {i \in S : beans[TypeOf[i]] = NoBean}
  <2>1. /\ \A i \in S : beans[TypeOf[i]] \in {i, NoBean} /\ concrete[TypeOf[i]] \in {i, NoBean}
        /\ \A i, j \in S : TypeOf[i] = TypeOf[j] => i = j
    BY <1>5 DEF TrySetBatch, BatchAccepted
  <2>0. PICK fresh \in Bijection(1..Cardinality(new), new) : \E last \in DOMAIN fresh :
          /\ order' = order \o [n \in DOMAIN fresh |-> TypeOf[fresh[n]]]
          /\ entries' = SetEntries(fresh)[last]
          /\ halfSet' = (halfSet \/ last < Len(fresh))
    BY <1>5 DEF TrySetBatch
  <2>2. PICK last \in DOMAIN fresh :
          /\ order' = order \o [n \in DOMAIN fresh |-> TypeOf[fresh[n]]]
          /\ entries' = SetEntries(fresh)[last]
          /\ halfSet' = (halfSet \/ last < Len(fresh))
    BY <2>0
  <2>3. Cardinality(new) \in Nat
    BY ContainerAssumption, FS_Subset, FS_CardinalityType
  <2>4. /\ fresh \in [1..Cardinality(new) -> new]
        /\ \A m, n \in 1..Cardinality(new) : fresh[m] = fresh[n] => m = n
        /\ \A i \in new : \E n \in 1..Cardinality(new) : fresh[n] = i
    BY <2>0 DEF Bijection, Injection, Surjection, IsInjective
  <2>5. /\ fresh \in Seq(Instances) /\ DOMAIN fresh = 1..Len(fresh) /\ Len(fresh) \in Nat
        /\ \A n \in DOMAIN fresh : fresh[n] \in S /\ beans[TypeOf[fresh[n]]] = NoBean
        /\ \A m, n \in DOMAIN fresh : TypeOf[fresh[m]] = TypeOf[fresh[n]] => m = n
        /\ \A i \in S : beans[TypeOf[i]] = NoBean => \E n \in DOMAIN fresh : fresh[n] = i
    <3>1. /\ fresh \in Seq(Instances) /\ DOMAIN fresh = 1..Cardinality(new)
          /\ Len(fresh) = Cardinality(new)
      <4>. DEFINE N == Cardinality(new)
      <4>1. fresh \in [1..N -> Instances] /\ N \in Nat
        BY <2>3, <2>4
      <4>. HIDE DEF N
      <4>2. fresh \in Seq(Instances) /\ DOMAIN fresh = 1..N /\ Len(fresh) = N
        BY <4>1
      <4>. QED BY <4>2 DEF N
    <3>2. \A n \in DOMAIN fresh : fresh[n] \in S /\ beans[TypeOf[fresh[n]]] = NoBean
      BY <2>4, <3>1
    <3>. QED BY <2>1, <2>3, <2>4, <3>1, <3>2
  <2>. HIDE DEF new
  <2>6. /\ beans' = [k \in Keys |-> IF \E i \in S : TypeOf[i] = k
                                     THEN CHOOSE i \in S : TypeOf[i] = k ELSE beans[k]]
        /\ concrete' = [t \in BeanTypes |-> IF \E i \in S : TypeOf[i] = t
                                             THEN CHOOSE i \in S : TypeOf[i] = t ELSE concrete[t]]
        /\ strictBeans' = strictBeans /\ conflicts' = conflicts /\ closed' = closed
    BY <1>5 DEF TrySetBatch
  <2>7. \A i \in S : (CHOOSE j \in S : TypeOf[j] = TypeOf[i]) = i
    BY <2>1
  <2>8. /\ \A i \in S : beans'[TypeOf[i]] = i /\ concrete'[TypeOf[i]] = i
        /\ \A k \in Keys : (\A i \in S : TypeOf[i] # k) => beans'[k] = beans[k]
        /\ \A t \in BeanTypes : (\A i \in S : TypeOf[i] # t) => concrete'[t] = concrete[t]
    BY <1>3, <2>6, <2>7
  <2>9. beans' \in BeanMaps /\ concrete' \in [BeanTypes -> Instances \cup {NoBean}]
    <3>1. \A k \in Keys : beans'[k] \in Instances \cup {NoBean}
      BY <1>0, <2>8 DEF BeanMaps
    <3>2. \A t \in BeanTypes : concrete'[t] \in Instances \cup {NoBean}
      BY <1>0, <2>8
    <3>3. beans' = [k \in Keys |-> beans'[k]] /\ concrete' = [t \in BeanTypes |-> concrete'[t]]
      BY <2>6
    <3>. QED BY <3>1, <3>2, <3>3 DEF BeanMaps
  <2>10. \A i \in S : beans[TypeOf[i]] # NoBean => beans[TypeOf[i]] = i
    BY <2>1
  <2>11. entries' \in Seq(Entry) /\ halfSet' \in BOOLEAN
         /\ (~halfSet' => EntriesMatch(entries', beans'))
    <3>1. \A m \in DOMAIN fresh : beans'[TypeOf[fresh[m]]] = fresh[m]
      BY <2>5, <2>8
    <3>2. \A k \in Keys : (\A m \in DOMAIN fresh : TypeOf[fresh[m]] # k) => beans'[k] = beans[k]
      BY <2>5, <2>8, <2>10
    <3>3. entries' \in Seq(Entry) /\ halfSet' \in BOOLEAN
      BY <1>0, <2>2, <2>5, SetEntriesType
    <3>4. ASSUME ~halfSet' PROVE EntriesMatch(entries', beans')
      <4>1. ~halfSet /\ last = Len(fresh)
        <5>1. ~halfSet /\ ~ (last < Len(fresh))
          BY <2>2, <3>4, Zenon
        <5>. QED BY <2>5, <5>1
      <4>. QED BY <1>0, <1>1, <2>2, <2>5, <2>9, <3>1, <3>2, <4>1, SetEntriesMatch
    <3>. QED BY <3>3, <3>4
  <2>12. order' \in Seq(Keys) /\ Range(order) \subseteq Range(order')
         /\ \A n \in DOMAIN fresh : TypeOf[fresh[n]] \in Range(order')
    <3>. DEFINE more == [n \in DOMAIN fresh |-> TypeOf[fresh[n]]]
    <3>1. /\ more \in Seq(Keys) /\ Len(more) = Len(fresh)
          /\ \A n \in 1..Len(fresh) : more[n] = TypeOf[fresh[n]]
      BY <1>3, <2>5
    <3>. HIDE DEF more
    <3>2. order' = order \o more /\ DOMAIN order = 1..Len(order) /\ Len(order) \in Nat
      BY <1>0, <2>2, LenProperties DEF more
    <3>3. /\ order' \in Seq(Keys) /\ Len(order') = Len(order) + Len(fresh)
          /\ \A n \in 1..Len(order) + Len(fresh) :
               order'[n] = IF n <= Len(order) THEN order[n] ELSE more[n - Len(order)]
      <4>1. /\ order \o more \in Seq(Keys) /\ Len(order \o more) = Len(order) + Len(more)
            /\ \A n \in 1..Len(order) + Len(more) :
                 (order \o more)[n] = IF n <= Len(order) THEN order[n] ELSE more[n - Len(order)]
        BY <1>0, <3>1, ConcatProperties
      <4>. QED BY <3>1, <3>2, <4>1
    <3>4. DOMAIN order' = 1..Len(order) + Len(fresh)
      BY <3>3, LenProperties
    <3>5. \A n \in 1..Len(order) : n \in DOMAIN order' /\ order'[n] = order[n]
      BY <2>5, <3>2, <3>3, <3>4
    <3>6. ASSUME NEW n \in 1..Len(fresh) PROVE \E m \in DOMAIN order' : order'[m] = TypeOf[fresh[n]]
      <4>1. /\ Len(order) + n \in 1..Len(order) + Len(fresh)
            /\ ~ (Len(order) + n <= Len(order)) /\ Len(order) + n - Len(order) = n
        BY <2>5, <3>2
      <4>2. order'[Len(order) + n] = more[n]
        BY <3>3, <4>1
      <4>. QED BY <3>1, <3>4, <4>1, <4>2
    <3>7. Range(order) \subseteq Range(order')
      BY <3>2, <3>5 DEF Range
    <3>8. \A n \in DOMAIN fresh : TypeOf[fresh[n]] \in Range(order')
      BY <2>5, <3>6 DEF Range
    <3>. QED BY <3>3, <3>7, <3>8
  <2>13. ContainerTypeOK'
    BY <1>0, <2>6, <2>9, <2>11, <2>12 DEF ContainerTypeOK, BeanMaps
  <2>14. \A t \in BeanTypes : beans'[t] # NoBean => TypeOf[beans'[t]] = t
    BY <1>2, <1>3, <2>8
  <2>15. ASSUME NEW k \in Keys, beans'[k] # NoBean, TypeOf[beans'[k]] \notin conflicts'
         PROVE  beans'[k] = concrete'[TypeOf[beans'[k]]]
    <3>1. CASE \E i \in S : TypeOf[i] = k
      BY <2>8, <3>1
    <3>2. CASE \A i \in S : TypeOf[i] # k
      <4>1. /\ beans'[k] = beans[k] /\ beans[k] \in Instances
            /\ beans[k] = concrete[TypeOf[beans[k]]]
        BY <1>2, <1>3, <2>6, <2>8, <2>15, <3>2
      <4>2. CASE \E i \in S : TypeOf[i] = TypeOf[beans[k]]
        BY <1>3, <2>1, <2>8, <4>1, <4>2
      <4>3. CASE \A i \in S : TypeOf[i] # TypeOf[beans[k]]
        BY <1>3, <2>8, <4>1, <4>3
      <4>. QED BY <4>2, <4>3
    <3>. QED BY <3>1, <3>2
  <2>16. \A k \in Keys : beans'[k] # NoBean => k \in Range(order')
    BY <1>2, <2>5, <2>8, <2>12
  <2>17. TypesKnown'
    BY <2>14, <2>15, <2>16 DEF TypesKnown
  <2>. QED BY <2>11, <2>13, <2>17 DEF ContainerIInv
<1>6. ASSUME NEW k \in Keys, TryRemoveBean(k) PROVE ContainerIInv'
  <2>1. /\ beans' = [beans EXCEPT ![k] = NoBean]
        /\ order' = RemoveFirst(order, k)
        /\ concrete' = [t \in BeanTypes |-> LET n == LastOfType(beans', order', t)
                                           IN IF n = 0 THEN NoBean ELSE beans'[order'[n]]]
        /\ conflicts' = {t \in BeanTypes : \E m, n \in DOMAIN order' :
                           /\ HoldsType(beans', order'[m], t) /\ HoldsType(beans', order'[n], t)
                           /\ beans'[order'[m]] # beans'[order'[n]]}
        /\ entries' = Retire(entries, k)
        /\ strictBeans' = strictBeans /\ closed' = closed /\ halfSet' = halfSet
    BY <1>6 DEF TryRemoveBean
  <2>2. beans' \in BeanMaps /\ beans'[k] = NoBean /\ \A l \in Keys \ {k} : beans'[l] = beans[l]
    BY <1>0, <2>1 DEF BeanMaps
  <2>3. entries' \in Seq(Entry) /\ (~halfSet' => EntriesMatch(entries', beans'))
    BY <1>0, <1>1, <2>1, <2>2, RetireType, RetireMatches
  <2>4. order' \in Seq(Keys) /\ \A l \in Range(order) : l # k => l \in Range(order')
    BY <1>0, <2>1, OthersStay
  <2>5. \A l \in Keys : beans'[l] # NoBean => l \in Range(order') /\ beans'[l] = beans[l]
    BY <1>2, <2>2, <2>4
  <2>6. 0 \notin DOMAIN order' /\ \A n \in DOMAIN order' : order'[n] \in Keys
    BY <2>4, LenProperties
  <2>7. ASSUME NEW t \in BeanTypes, NEW m \in DOMAIN order', HoldsType(beans', order'[m], t)
        PROVE  /\ concrete'[t] \in Instances
               /\ t \notin conflicts' => concrete'[t] = beans'[order'[m]]
    <3>. DEFINE n == LastOfType(beans', order', t)
    <3>1. n \in DOMAIN order' /\ HoldsType(beans', order'[n], t)
      BY <2>4, <2>7, LastIsOne
    <3>2. concrete'[t] = beans'[order'[n]]
      BY <2>1, <2>6, <3>1
    <3>. HIDE DEF n
    <3>3. beans'[order'[n]] \in Instances
      BY <2>2, <2>6, <3>1 DEF HoldsType, BeanMaps
    <3>4. t \notin conflicts' => beans'[order'[n]] = beans'[order'[m]]
      BY <2>1, <2>7, <3>1
    <3>. QED BY <3>2, <3>3, <3>4
  <2>8. ASSUME NEW t \in BeanTypes, ~ \E m \in DOMAIN order' : HoldsType(beans', order'[m], t)
        PROVE  concrete'[t] = NoBean
    BY <2>1, <2>4, <2>8, LastIsOne
  <2>9. concrete' \in [BeanTypes -> Instances \cup {NoBean}]
    <3>1. \A t \in BeanTypes : concrete'[t] \in Instances \cup {NoBean}
      BY <2>7, <2>8
    <3>2. concrete' = [t \in BeanTypes |-> concrete'[t]]
      BY <2>1
    <3>. QED BY <3>1, <3>2
  <2>10. ContainerTypeOK'
    <3>1. conflicts' \subseteq BeanTypes
      BY <2>1
    <3>. QED BY <1>0, <2>1, <2>2, <2>3, <2>4, <2>9, <3>1 DEF ContainerTypeOK, BeanMaps
  <2>11. \A t \in BeanTypes : beans'[t] # NoBean => TypeOf[beans'[t]] = t
    BY <1>2, <1>3, <2>5
  <2>12. ASSUME NEW l \in Keys, beans'[l] # NoBean, TypeOf[beans'[l]] \notin conflicts'
         PROVE  beans'[l] = concrete'[TypeOf[beans'[l]]]
    <3>1. PICK m \in DOMAIN order' : order'[m] = l
      BY <2>5, <2>12 DEF Range
    <3>2. TypeOf[beans'[l]] \in BeanTypes /\ HoldsType(beans', order'[m], TypeOf[beans'[l]])
      BY <1>3, <2>5, <2>12, <3>1 DEF HoldsType
    <3>. QED BY <2>7, <2>12, <3>1, <3>2
  <2>13. TypesKnown'
    BY <2>5, <2>11, <2>12 DEF TypesKnown
  <2>. QED BY <2>3, <2>10, <2>13 DEF ContainerIInv
<1>7. ASSUME NEW i \in Instances, TryAddComponent(i) PROVE ContainerIInv'
  <2>1. /\ entries' = Append(entries, NewEntry(i, {}, TRUE))
        /\ beans' = beans /\ order' = order /\ concrete' = concrete /\ conflicts' = conflicts
        /\ strictBeans' = strictBeans /\ closed' = closed /\ halfSet' = halfSet
    BY <1>7 DEF TryAddComponent
  <2>2. entries' \in Seq(Entry) /\ (~halfSet' => EntriesMatch(entries', beans'))
    <3>1. NewEntry(i, {}, TRUE) \in Entry
      BY DEF NewEntry, Entry
    <3>2. entries' \in Seq(Entry)
      BY <1>0, <2>1, <3>1, AppendProperties
    <3>. QED BY <1>0, <1>1, <2>1, <3>2, AddMatches
  <2>3. ContainerTypeOK'
    BY <1>0, <2>1, <2>2 DEF ContainerTypeOK, BeanMaps
  <2>4. TypesKnown'
    BY <1>2, <2>1 DEF TypesKnown
  <2>. QED BY <2>2, <2>3, <2>4 DEF ContainerIInv
<1>8. ASSUME ClosesContainer PROVE ContainerIInv'
  BY <1>0, <1>1, <1>2, <1>8
     DEF ClosesContainer, ContainerIInv, ContainerTypeOK, EntriesMatch, TypesKnown, BeanMaps
<1>9. ASSUME UNCHANGED containerVars PROVE ContainerIInv'
  BY <1>0, <1>1, <1>2, <1>9
     DEF containerVars, ContainerIInv, ContainerTypeOK, EntriesMatch, TypesKnown, BeanMaps
<1>10. ASSUME NEW i \in Instances, SetBean(i) \/ TrySetBean(i) PROVE ContainerIInv'
  <2>1. TypeOf[i] \in Keys
    BY <1>3
  <2>. QED BY <1>4, <1>10, <2>1 DEF SetBean, TrySetBean
<1>11. ASSUME NEW k \in Interfaces, NEW i \in Instances, TrySetWithInterface(k, i)
       PROVE  ContainerIInv'
  <2>1. k \in Keys /\ k \notin BeanTypes
    BY ContainerAssumption DEF Keys
  <2>. QED BY <1>4, <1>11, <2>1 DEF TrySetWithInterface
<1>. QED BY <1>5, <1>6, <1>7, <1>8, <1>9, <1>10, <1>11 DEF ContainerNext

\* What is known of the entries and the types makes the container and the
\* lifecycle's list consistent.
LEMMA ContainerHolds == ContainerIInv => ComponentsMatchBeans /\ OneInstancePerType
<1>. SUFFICES ASSUME ContainerIInv, ~halfSet PROVE ComponentsMatchBeans /\ OneInstancePerType
  BY DEF ContainerIInv, TypesKnown, OneInstancePerType, ComponentsMatchBeans
<1>0. beans \in BeanMaps /\ entries \in Seq(Entry)
  BY DEF ContainerIInv, ContainerTypeOK, BeanMaps
<1>1. \A d, e \in DOMAIN entries :
        entries[d].component = entries[e].component /\ ~entries[e].added =>
          IF entries[d].added THEN e < d ELSE d = e
  BY DEF ContainerIInv, EntriesMatch
<1>2. \A e \in DOMAIN entries :
        IF entries[e].added THEN entries[e].active /\ entries[e].keys = {}
        ELSE /\ entries[e].keys = {k \in Keys : beans[k] = entries[e].component}
             /\ entries[e].active <=> entries[e].keys # {}
  BY DEF ContainerIInv, EntriesMatch
<1>3. \A k \in Keys : beans[k] # NoBean => \E e \in DOMAIN entries : entries[e].component = beans[k]
  BY DEF ContainerIInv, EntriesMatch
<1>4. \A e \in DOMAIN entries : /\ entries[e].component # NoBean
                               /\ entries[e].added \in BOOLEAN /\ entries[e].active \in BOOLEAN
  BY <1>0, EntryTypes
<1>5. \A i : i \in BeanInstances <=> i # NoBean /\ \E k \in Keys : beans[k] = i
  BY DEF BeanInstances
<1>6. \A e \in DOMAIN entries : ~entries[e].added =>
        (entries[e].active <=> entries[e].component \in BeanInstances)
  BY <1>2, <1>4, <1>5
<1>7. ASSUME NEW i \in BeanInstances
      PROVE  /\ \E e \in DOMAIN entries : entries[e].component = i /\ entries[e].active
             /\ (\A e \in DOMAIN entries : entries[e].component = i => ~entries[e].added) =>
                  \E e \in DOMAIN entries : /\ entries[e].component = i
                                            /\ entries[e].keys = {k \in Keys : beans[k] = i}
  <2>1. PICK e \in DOMAIN entries : entries[e].component = i
    BY <1>3, <1>5
  <2>2. entries[e].active
    BY <1>2, <1>6, <2>1
  <2>3. ~entries[e].added => entries[e].keys = {k \in Keys : beans[k] = i}
    BY <1>2, <2>1
  <2>. QED BY <2>1, <2>2, <2>3
<1>8. \A d, e \in DOMAIN entries :
        entries[d].component = entries[e].component => d = e \/ entries[d].added \/ entries[e].added
  BY <1>1
<1>9. ComponentsMatchBeans
  <2>1. \A e \in DOMAIN entries :
          entries[e].added \/ (entries[e].active <=> entries[e].component \in BeanInstances)
    BY <1>4, <1>6
  <2>. QED BY <1>7, <1>8, <2>1 DEF ComponentsMatchBeans
<1>10. OneInstancePerType
  BY DEF ContainerIInv, TypesKnown, OneInstancePerType
<1>. QED BY <1>9, <1>10

-----------------------------------------------------------------------------
(* Dispatching to a plugin's route.                                        *)

\* No plugin has registered a route.
LEMMA PluginStarts == PluginInit => PluginIInv
<1>. SUFFICES ASSUME PluginInit PROVE PluginIInv
  OBVIOUS
<1>1. DOMAIN handlerOf = {} /\ DOMAIN shapes = {} /\ pluginOrder = <<>>
  BY DEF PluginInit
<1>2. handlerOf \in [{} -> Versions] /\ shapes \in [{} -> DOMAIN handlerOf]
  BY DEF PluginInit
<1>. QED BY <1>1, <1>2, EmptySeq DEF PluginIInv, PluginTypeOK, RoutesAreListed, ShapesAreOwned

\* A route keeps its place in the list, and its shape no other route takes.
LEMMA PluginKept == PluginIInv /\ [PluginNext]_pluginVars => PluginIInv'
<1>. SUFFICES ASSUME PluginIInv, [PluginNext]_pluginVars PROVE PluginIInv'
  OBVIOUS
<1>0. PluginTypeOK /\ RoutesAreListed /\ ShapesAreOwned
  BY DEF PluginIInv
<1>1. ASSUME NEW r \in PluginRouteSet, NEW v \in Versions, RegisterRoute(r, v) PROVE PluginIInv'
  <2>1. /\ DOMAIN handlerOf' = DOMAIN handlerOf \cup {r}
        /\ \A q \in DOMAIN handlerOf' : handlerOf'[q] = IF q = r THEN v ELSE handlerOf[q]
        /\ handlerOf' = [q \in DOMAIN handlerOf' |-> handlerOf'[q]]
    BY <1>1 DEF RegisterRoute
  <2>2. /\ DOMAIN shapes' = DOMAIN shapes \cup {Shape(r)}
        /\ \A s \in DOMAIN shapes' : shapes'[s] = IF s = Shape(r) THEN r ELSE shapes[s]
        /\ shapes' = [s \in DOMAIN shapes' |-> shapes'[s]]
    BY <1>1 DEF RegisterRoute
  <2>3. /\ pluginOrder' \in Seq(PluginRouteSet)
        /\ \A n \in DOMAIN pluginOrder :
             n \in DOMAIN pluginOrder' /\ pluginOrder'[n] = pluginOrder[n]
        /\ r \notin DOMAIN handlerOf => \E n \in DOMAIN pluginOrder' : pluginOrder'[n] = r
    <3>1. pluginOrder \in Seq(PluginRouteSet)
      BY <1>0 DEF PluginTypeOK
    <3>2. CASE r \in DOMAIN handlerOf
      BY <1>1, <3>1, <3>2 DEF RegisterRoute
    <3>3. CASE r \notin DOMAIN handlerOf
      <4>1. pluginOrder' = Append(pluginOrder, r)
        BY <1>1, <3>3 DEF RegisterRoute
      <4>2. /\ Len(pluginOrder) \in Nat /\ DOMAIN pluginOrder = 1..Len(pluginOrder)
            /\ DOMAIN pluginOrder' = 1..Len(pluginOrder) + 1
            /\ pluginOrder' \in Seq(PluginRouteSet)
            /\ \A n \in 1..Len(pluginOrder) : pluginOrder'[n] = pluginOrder[n]
            /\ pluginOrder'[Len(pluginOrder) + 1] = r
        BY <3>1, <4>1, AppendProperties, LenProperties
      <4>. QED BY <4>2
    <3>. QED BY <3>2, <3>3
  <2>4. PluginTypeOK'
    BY <1>0, <2>1, <2>2, <2>3 DEF PluginTypeOK
  <2>5. RoutesAreListed'
    BY <1>0, <2>1, <2>3 DEF RoutesAreListed
  <2>6. ASSUME NEW q \in DOMAIN handlerOf'
        PROVE  Shape(q) \in DOMAIN shapes' /\ shapes'[Shape(q)] = q
    BY <1>0, <1>1, <2>1, <2>2 DEF RegisterRoute, ShapesAreOwned
  <2>7. ASSUME NEW s \in DOMAIN shapes' PROVE Shape(shapes'[s]) = s
    BY <1>0, <2>2 DEF ShapesAreOwned
  <2>8. ShapesAreOwned'
    BY <2>6, <2>7 DEF ShapesAreOwned
  <2>. QED BY <2>4, <2>5, <2>8 DEF PluginIInv
<1>2. ASSUME NEW r \in PluginRouteSet, UnregisterRoute(r) PROVE PluginIInv'
  <2>1. /\ DOMAIN handlerOf' = DOMAIN handlerOf \ {r}
        /\ \A q \in DOMAIN handlerOf' : handlerOf'[q] = handlerOf[q]
        /\ handlerOf' = [q \in DOMAIN handlerOf' |-> handlerOf'[q]]
    BY <1>2 DEF UnregisterRoute
  <2>2. /\ DOMAIN shapes' = DOMAIN shapes \ {Shape(r)}
        /\ \A s \in DOMAIN shapes' : shapes'[s] = shapes[s]
        /\ shapes' = [s \in DOMAIN shapes' |-> shapes'[s]]
        /\ pluginOrder' = pluginOrder
    BY <1>2 DEF UnregisterRoute
  <2>3. \A q \in DOMAIN handlerOf \ {r} : Shape(q) # Shape(r)
    BY <1>0, <1>2 DEF UnregisterRoute, ShapesAreOwned
  <2>4. \A s \in DOMAIN shapes \ {Shape(r)} : shapes[s] \in DOMAIN handlerOf \ {r}
    BY <1>0 DEF ShapesAreOwned, PluginTypeOK
  <2>5. PluginTypeOK'
    BY <1>0, <2>1, <2>2, <2>4 DEF PluginTypeOK
  <2>6. RoutesAreListed' /\ ShapesAreOwned'
    BY <1>0, <2>1, <2>2, <2>3 DEF RoutesAreListed, ShapesAreOwned
  <2>. QED BY <2>5, <2>6 DEF PluginIInv
<1>3. CASE UNCHANGED pluginVars
  BY <1>0, <1>3 DEF pluginVars, PluginIInv, PluginTypeOK, RoutesAreListed, ShapesAreOwned
<1>. QED BY <1>1, <1>2, <1>3 DEF PluginNext

\* A route is a list of segments, and a segment is of one of three kinds.
LEMMA RouteType ==
  ASSUME NEW r \in PluginRouteSet
  PROVE  /\ Len(r) \in Nat \ {0} /\ DOMAIN r = 1..Len(r) /\ r = [i \in 1..Len(r) |-> r[i]]
         /\ \A i \in 1..Len(r) : /\ r[i] \in Segment /\ Rank(r[i]) \in 0..2
                                 /\ r[i].kind = "rest" <=> Rank(r[i]) = 0
                                 /\ r[i].kind = "param" <=> Rank(r[i]) = 1
                                 /\ r[i].kind = "static" <=> Rank(r[i]) = 2
<1>1. r \in Seq(Segment) /\ r # <<>>
  BY PluginRouteAssumption
<1>2. /\ Len(r) \in Nat \ {0} /\ DOMAIN r = 1..Len(r) /\ r \in [1..Len(r) -> Segment]
  BY <1>1, LenProperties, EmptySeq
<1>3. \A i \in 1..Len(r) : r[i] \in Segment /\ r[i].kind \in {"static", "param", "rest"}
  BY <1>2 DEF Segment
<1>. QED BY <1>2, <1>3 DEF Rank

\* What a route that matches says of the path, segment by segment.
LEMMA MatchType ==
  ASSUME NEW r \in PluginRouteSet, NEW path \in RequestPaths, Matches(r, path)
  PROVE  /\ Len(path) \in Nat \ {0} /\ Len(r) <= Len(path)
         /\ DOMAIN path = 1..Len(path)
         /\ \A i \in 1..Len(r) : /\ Rank(r[i]) = 0 => i = Len(r)
                                 /\ Rank(r[i]) = 2 => path[i] = r[i].name
         /\ Len(path) = Len(r) \/ Rank(r[Len(r)]) = 0
<1>0. path \in Seq(STRING) /\ path # <<>>
  BY PluginRouteAssumption
<1>1. Len(path) \in Nat \ {0} /\ DOMAIN path = 1..Len(path)
  BY <1>0, LenProperties, EmptySeq
<1>2. ASSUME NEW i \in 1..Len(r)
      PROVE  /\ i <= Len(path)
             /\ Rank(r[i]) = 0 => i = Len(r)
             /\ Rank(r[i]) = 2 => path[i] = r[i].name
  BY RouteType DEF Matches
<1>3. Len(r) \in 1..Len(r)
  BY RouteType
<1>. QED BY <1>1, <1>2, <1>3, RouteType DEF Matches

\* Two routes that match a path and have different shapes differ in rank at
\* some segment.
LEMMA RanksDiffer ==
  ASSUME NEW path \in RequestPaths, NEW r \in PluginRouteSet, NEW q \in PluginRouteSet,
         Matches(r, path), Matches(q, path),
         \A i \in DOMAIN r \cap DOMAIN q : Rank(r[i]) = Rank(q[i])
  PROVE  Shape(r) = Shape(q)
<1>0. /\ Len(r) \in Nat \ {0} /\ Len(q) \in Nat \ {0} /\ Len(path) \in Nat \ {0}
      /\ DOMAIN r = 1..Len(r) /\ DOMAIN q = 1..Len(q)
      /\ Len(r) <= Len(path) /\ Len(q) <= Len(path)
  BY RouteType, MatchType
<1>1. ~ (Len(r) < Len(q))
  <2>. SUFFICES ASSUME Len(r) < Len(q) PROVE FALSE
    OBVIOUS
  <2>1. Rank(r[Len(r)]) = 0
    BY <1>0, MatchType
  <2>2. Len(r) \in DOMAIN r \cap DOMAIN q
    BY <1>0
  <2>3. Rank(q[Len(r)]) = 0 /\ Len(r) \in 1..Len(q)
    BY <1>0, <2>1, <2>2
  <2>. QED BY <1>0, <2>3, MatchType
<1>2. ~ (Len(q) < Len(r))
  <2>. SUFFICES ASSUME Len(q) < Len(r) PROVE FALSE
    OBVIOUS
  <2>1. Rank(q[Len(q)]) = 0
    BY <1>0, MatchType
  <2>2. Len(q) \in DOMAIN r \cap DOMAIN q
    BY <1>0
  <2>3. Rank(r[Len(q)]) = 0 /\ Len(q) \in 1..Len(r)
    BY <1>0, <2>1, <2>2
  <2>. QED BY <1>0, <2>3, MatchType
<1>3. Len(r) = Len(q) /\ DOMAIN r = DOMAIN q
  <2>1. Len(r) \in Int /\ Len(q) \in Int
    BY <1>0
  <2>2. Len(r) = Len(q)
    BY <1>1, <1>2, <2>1
  <2>. QED BY <1>0, <2>2
<1>4. ASSUME NEW i \in DOMAIN r PROVE Shape(r)[i] = Shape(q)[i]
  <2>1. /\ i \in 1..Len(r) /\ i \in 1..Len(q) /\ Rank(r[i]) = Rank(q[i])
        /\ r[i] \in Segment /\ q[i] \in Segment
    BY <1>0, <1>3, RouteType
  <2>2. r[i].kind = q[i].kind
    <3>1. r[i].kind \in {"static", "param", "rest"}
      BY <2>1 DEF Segment
    <3>. QED BY <2>1, <3>1, RouteType
  <2>3. CASE r[i].kind = "static"
    <3>1. r[i].name = q[i].name
      BY <2>1, <2>2, <2>3, MatchType, RouteType
    <3>2. r[i] = q[i]
      BY <2>1, <2>2, <3>1 DEF Segment
    <3>. QED BY <1>3, <2>2, <3>2 DEF Shape
  <2>4. CASE r[i].kind # "static"
    <3>1. [r[i] EXCEPT !.name = ""] = [q[i] EXCEPT !.name = ""]
      BY <2>1, <2>2 DEF Segment
    <3>. QED BY <1>3, <2>2, <2>4, <3>1 DEF Shape
  <2>. QED BY <2>3, <2>4
<1>. QED BY <1>3, <1>4 DEF Shape

\* Of two such routes one outranks the other, and is the more specific one.
LEMMA OneOutranks ==
  ASSUME NEW r \in PluginRouteSet, NEW q \in PluginRouteSet,
         NEW k \in DOMAIN r \cap DOMAIN q, Rank(r[k]) # Rank(q[k])
  PROVE  /\ Outranks(r, q) \/ Outranks(q, r)
         /\ MoreSpecific(r, q) <=> Outranks(r, q)
<1>. DEFINE D == {i \in DOMAIN r \cap DOMAIN q : Rank(r[i]) # Rank(q[i])}
            first == CHOOSE i \in D : \A j \in D : i <= j
<1>0. /\ Len(r) \in Nat /\ Len(q) \in Nat /\ DOMAIN r = 1..Len(r) /\ DOMAIN q = 1..Len(q)
      /\ \A i \in DOMAIN r : Rank(r[i]) \in Int
      /\ \A i \in DOMAIN q : Rank(q[i]) \in Int
  BY RouteType
<1>1. D \in SUBSET Nat /\ D # {}
  BY <1>0
<1>2. first \in D /\ \A j \in D : first <= j
  <2>. HIDE DEF D
  <2>. QED BY <1>1, SomeLeast
<1>3. /\ first \in DOMAIN r \cap DOMAIN q /\ first \in Nat /\ Rank(r[first]) # Rank(q[first])
      /\ \A j \in 1..first - 1 : Rank(r[j]) = Rank(q[j])
  <2>1. first \in DOMAIN r \cap DOMAIN q /\ first \in Nat /\ Rank(r[first]) # Rank(q[first])
    BY <1>0, <1>2
  <2>2. ASSUME NEW j \in 1..first - 1 PROVE Rank(r[j]) = Rank(q[j])
    <3>1. j \in DOMAIN r \cap DOMAIN q /\ ~ (first <= j)
      BY <1>0, <2>1
    <3>. QED BY <1>2, <3>1
  <2>. HIDE DEF first
  <2>. QED BY <2>1, <2>2
<1>4. MoreSpecific(r, q) <=> Rank(r[first]) > Rank(q[first])
  BY <1>1 DEF MoreSpecific
<1>. HIDE DEF first, D
<1>5. Rank(r[first]) \in Int /\ Rank(q[first]) \in Int
  BY <1>0, <1>3
<1>6. \A j \in 1..first - 1 : Rank(q[j]) = Rank(r[j])
  BY <1>3
<1>7. Rank(r[first]) > Rank(q[first]) => Outranks(r, q)
  BY <1>3 DEF Outranks
<1>8. Rank(q[first]) > Rank(r[first]) => Outranks(q, r)
  BY <1>3, <1>6 DEF Outranks
<1>9. Outranks(r, q) => Rank(r[first]) > Rank(q[first])
  <2>. SUFFICES ASSUME NEW i \in DOMAIN r \cap DOMAIN q, Rank(r[i]) > Rank(q[i]),
                       \A j \in 1..i - 1 : Rank(r[j]) = Rank(q[j])
                PROVE  i = first
    BY DEF Outranks
  <2>1. i \in 1..Len(r) /\ first \in 1..Len(r) /\ Rank(r[i]) # Rank(q[i])
    BY <1>0, <1>3
  <2>2. ~ (i < first)
    BY <1>3, <2>1
  <2>3. ~ (first < i)
    BY <1>3, <2>1
  <2>. QED BY <2>1, <2>2, <2>3
<1>. QED BY <1>3, <1>4, <1>5, <1>7, <1>8, <1>9

\* What outranks a route that outranks a third outranks the third.
LEMMA OutranksOn ==
  ASSUME NEW r \in PluginRouteSet, NEW q \in PluginRouteSet, NEW s \in PluginRouteSet,
         Outranks(r, q), Outranks(q, s)
  PROVE  Outranks(r, s)
<1>0. /\ Len(r) \in Nat /\ DOMAIN r = 1..Len(r) /\ \A i \in DOMAIN r : Rank(r[i]) \in Int
      /\ Len(q) \in Nat /\ DOMAIN q = 1..Len(q) /\ \A i \in DOMAIN q : Rank(q[i]) \in Int
      /\ Len(s) \in Nat /\ DOMAIN s = 1..Len(s) /\ \A i \in DOMAIN s : Rank(s[i]) \in Int
  <2>1. ASSUME NEW x \in PluginRouteSet
        PROVE  Len(x) \in Nat /\ DOMAIN x = 1..Len(x) /\ \A i \in DOMAIN x : Rank(x[i]) \in Int
    BY RouteType
  <2>. QED BY <2>1
<1>1. PICK i \in DOMAIN r \cap DOMAIN q :
        Rank(r[i]) > Rank(q[i]) /\ \A j \in 1..i - 1 : Rank(r[j]) = Rank(q[j])
  BY DEF Outranks
<1>2. PICK k \in DOMAIN q \cap DOMAIN s :
        Rank(q[k]) > Rank(s[k]) /\ \A j \in 1..k - 1 : Rank(q[j]) = Rank(s[j])
  BY DEF Outranks
<1>3. CASE i <= k
  <2>1. i \in DOMAIN s /\ Rank(r[i]) > Rank(s[i])
    <3>1. i \in 1..Len(s) /\ (i = k \/ i \in 1..k - 1)
      BY <1>0, <1>1, <1>2, <1>3
    <3>. QED BY <1>0, <1>1, <1>2, <3>1
  <2>2. \A j \in 1..i - 1 : Rank(r[j]) = Rank(s[j])
    BY <1>0, <1>1, <1>2, <1>3
  <2>. QED BY <1>1, <2>1, <2>2 DEF Outranks
<1>4. CASE k < i
  <2>1. k \in DOMAIN r /\ Rank(r[k]) > Rank(s[k])
    <3>1. k \in 1..Len(r) /\ k \in 1..i - 1
      BY <1>0, <1>1, <1>2, <1>4
    <3>. QED BY <1>0, <1>1, <1>2, <3>1
  <2>2. \A j \in 1..k - 1 : Rank(r[j]) = Rank(s[j])
    BY <1>0, <1>1, <1>2, <1>4
  <2>. QED BY <1>2, <2>1, <2>2 DEF Outranks
<1>. QED BY <1>0, <1>1, <1>2, <1>3, <1>4

\* Among the registered routes that match a path, any two are apart in rank.
LEMMA MatchingApart ==
  ASSUME PluginIInv, NEW path \in RequestPaths,
         NEW r \in DOMAIN handlerOf, NEW q \in DOMAIN handlerOf,
         Matches(r, path), Matches(q, path), r # q
  PROVE  /\ Outranks(r, q) \/ Outranks(q, r)
         /\ MoreSpecific(r, q) <=> Outranks(r, q)
<1>1. r \in PluginRouteSet /\ q \in PluginRouteSet
  BY DEF PluginIInv, PluginTypeOK
<1>2. Shape(r) # Shape(q)
  BY DEF PluginIInv, ShapesAreOwned
<1>3. \E k \in DOMAIN r \cap DOMAIN q : Rank(r[k]) # Rank(q[k])
  BY <1>1, <1>2, RanksDiffer
<1>. QED BY <1>1, <1>3, OneOutranks

\* The scan is the fold of Better over the list.
LEMMA ScanSteps ==
  ASSUME pluginOrder \in Seq(PluginRouteSet), NEW path
  PROVE  /\ Scan(path)[0] = NoRoute
         /\ \A n \in 1..Len(pluginOrder) :
              Scan(path)[n] = Better(pluginOrder[n], Scan(path)[n - 1], path)
<1>. DEFINE L == Len(pluginOrder)
            Upto(g, n) == g = [m \in 0..n |-> IF m = 0 THEN NoRoute
                                             ELSE Better(pluginOrder[m], g[m - 1], path)]
            S == {n \in 0..L : ~ \E g : Upto(g, n)}
<1>0. L \in Nat
  BY LenProperties
<1>1. \E g : Upto(g, 0)
  <2>1. Upto([m \in 0..0 |-> NoRoute], 0)
    OBVIOUS
  <2>. QED BY <2>1
<1>2. ASSUME NEW n \in 1..L, NEW g, Upto(g, n - 1) PROVE \E h : Upto(h, n)
  <2>. DEFINE h == [m \in 0..n |-> IF m = n THEN Better(pluginOrder[n], g[n - 1], path) ELSE g[m]]
  <2>1. ASSUME NEW m \in 0..n
        PROVE  h[m] = IF m = 0 THEN NoRoute ELSE Better(pluginOrder[m], h[m - 1], path)
    <3>1. CASE m = n
      <4>1. n # 0 /\ n - 1 \in 0..n /\ n - 1 # n
        BY <1>0
      <4>. QED BY <3>1, <4>1
    <3>2. CASE m # n
      <4>1. m \in 0..n - 1 /\ (m # 0 => m - 1 \in 0..n /\ m - 1 # n)
        BY <1>0, <3>2
      <4>. QED BY <1>2, <3>2, <4>1
    <3>. QED BY <3>1, <3>2
  <2>2. h = [m \in 0..n |-> h[m]]
    OBVIOUS
  <2>. HIDE DEF h
  <2>3. Upto(h, n)
    BY <2>1, <2>2
  <2>. QED BY <2>3
<1>3. S = {}
  <2>. SUFFICES ASSUME S # {} PROVE FALSE
    OBVIOUS
  <2>1. S \in SUBSET Nat
    BY <1>0
  <2>. HIDE DEF S
  <2>2. PICK n \in S : \A m \in S : n <= m
    BY <2>1, SomeLeast
  <2>. USE DEF S
  <2>. HIDE DEF Upto
  <2>3. n \in 0..L /\ ~ \E g : Upto(g, n)
    BY <2>2
  <2>4. n \in 1..L /\ n - 1 \in 0..L
    BY <1>0, <1>1, <2>3
  <2>5. n - 1 \notin S
    <3>1. ~ (n <= n - 1)
      BY <2>4
    <3>. QED BY <2>2, <3>1
  <2>6. \E g : Upto(g, n - 1)
    BY <2>4, <2>5
  <2>. QED BY <1>2, <2>3, <2>4, <2>6
<1>4. \E g : Upto(g, L)
  <2>1. L \in 0..L
    BY <1>0
  <2>. HIDE DEF Upto
  <2>. QED BY <1>3, <2>1
<1>5. Upto(Scan(path), L)
  BY <1>4 DEF Scan
<1>6. \A m \in 0..L : Scan(path)[m] = IF m = 0 THEN NoRoute
                                      ELSE Better(pluginOrder[m], Scan(path)[m - 1], path)
  BY <1>5
<1>. QED BY <1>0, <1>6

\* The scan has found the one candidate that outranks all others so far.
LEMMA ScanFinds ==
  ASSUME PluginIInv, NEW path \in RequestPaths
  PROVE  LET found == Scan(path)[Len(pluginOrder)]
         IN /\ found = NoRoute \/ Candidate(found, path)
            /\ \A q \in DOMAIN handlerOf :
                 Candidate(q, path) => q = found \/ (found # NoRoute /\ Outranks(found, q))
<1>. DEFINE L == Len(pluginOrder)
            Found(n) == /\ Scan(path)[n] = NoRoute \/ Candidate(Scan(path)[n], path)
                        /\ \A m \in 1..n :
                             LET q == pluginOrder[m]
                             IN Candidate(q, path) =>
                                  \/ q = Scan(path)[n]
                                  \/ (Scan(path)[n] # NoRoute /\ Outranks(Scan(path)[n], q))
            S == {n \in 0..L : ~ Found(n)}
<1>0. /\ pluginOrder \in Seq(PluginRouteSet) /\ L \in Nat /\ DOMAIN pluginOrder = 1..L
      /\ DOMAIN handlerOf \subseteq PluginRouteSet
      /\ \A r \in DOMAIN handlerOf : r # NoRoute
  BY LenProperties, PluginRouteAssumption DEF PluginIInv, PluginTypeOK, NoRoute
<1>1. Found(0)
  BY <1>0, ScanSteps
<1>2. ASSUME NEW n \in 1..L, Found(n - 1) PROVE Found(n)
  <2>. DEFINE last == Scan(path)[n - 1]
              now == Scan(path)[n]
              r == pluginOrder[n]
  <2>1. now = Better(r, last, path)
    BY <1>0, ScanSteps
  <2>2. last = NoRoute \/ Candidate(last, path)
    BY <1>2
  <2>3. \A m \in 1..n - 1 : Candidate(pluginOrder[m], path) =>
          pluginOrder[m] = last \/ (last # NoRoute /\ Outranks(last, pluginOrder[m]))
    BY <1>2
  <2>. HIDE DEF last, now, r, L
  <2>4. now = NoRoute \/ Candidate(now, path)
    BY <2>1, <2>2 DEF Better
  <2>5. \A a, b \in DOMAIN handlerOf : Candidate(a, path) /\ Candidate(b, path) /\ a # b =>
          (Outranks(a, b) \/ Outranks(b, a)) /\ (MoreSpecific(a, b) <=> Outranks(a, b))
    BY MatchingApart DEF Candidate
  <2>6. \A a : Candidate(a, path) => a \in DOMAIN handlerOf
    BY DEF Candidate
  <2>7. Candidate(r, path) => r = now \/ (now # NoRoute /\ Outranks(now, r))
    BY <1>0, <2>1, <2>2, <2>5, <2>6 DEF Better
  <2>8. last # NoRoute => now # NoRoute /\ (now = last \/ Outranks(now, last))
    BY <1>0, <2>1, <2>2, <2>5, <2>6 DEF Better
  <2>9. ASSUME NEW m \in 1..n - 1, Candidate(pluginOrder[m], path)
        PROVE  pluginOrder[m] = now \/ (now # NoRoute /\ Outranks(now, pluginOrder[m]))
    <3>1. pluginOrder[m] \in PluginRouteSet /\ pluginOrder[m] # NoRoute
      BY <1>0, <2>6, <2>9
    <3>2. CASE pluginOrder[m] = last
      BY <2>8, <3>1, <3>2
    <3>3. CASE last # NoRoute /\ Outranks(last, pluginOrder[m])
      <4>1. last \in PluginRouteSet /\ now \in PluginRouteSet /\ now # NoRoute
        BY <1>0, <2>2, <2>4, <2>6, <2>8, <3>3
      <4>. QED BY <2>8, <3>1, <3>3, <4>1, OutranksOn
    <3>. QED BY <2>3, <2>9, <3>2, <3>3
  <2>10. ASSUME NEW m \in 1..n, Candidate(pluginOrder[m], path)
         PROVE  pluginOrder[m] = now \/ (now # NoRoute /\ Outranks(now, pluginOrder[m]))
    <3>1. m = n \/ m \in 1..n - 1
      BY <1>0
    <3>. QED BY <2>7, <2>9, <2>10, <3>1 DEF r
  <2>. QED BY <2>4, <2>10 DEF now
<1>3. S = {}
  <2>. SUFFICES ASSUME S # {} PROVE FALSE
    OBVIOUS
  <2>1. S \in SUBSET Nat
    BY <1>0
  <2>. HIDE DEF S
  <2>2. PICK n \in S : \A m \in S : n <= m
    BY <2>1, SomeLeast
  <2>. USE DEF S
  <2>. HIDE DEF Found
  <2>3. n \in 0..L /\ ~ Found(n)
    BY <2>2
  <2>4. n \in 1..L /\ n - 1 \in 0..L
    BY <1>0, <1>1, <2>3
  <2>5. n - 1 \notin S
    <3>1. ~ (n <= n - 1)
      BY <2>4
    <3>. QED BY <2>2, <3>1
  <2>. QED BY <1>2, <2>3, <2>4, <2>5
<1>4. Found(L)
  <2>1. L \in 0..L
    BY <1>0
  <2>. HIDE DEF Found
  <2>. QED BY <1>3, <2>1
<1>5. ASSUME NEW q \in DOMAIN handlerOf PROVE \E m \in 1..L : pluginOrder[m] = q
  BY <1>0 DEF PluginIInv, RoutesAreListed
<1>. QED BY <1>4, <1>5

\* A route without parameters that matches a path is the path, and outranks
\* every other route that does.
LEMMA ExactRoute ==
  ASSUME NEW r \in PluginRouteSet, NEW path \in RequestPaths, Matches(r, path), ~ IsDynamic(r)
  PROVE  r = PathAsRoute(path)
<1>1. /\ Len(r) \in Nat \ {0} /\ DOMAIN r = 1..Len(r) /\ r = [i \in 1..Len(r) |-> r[i]]
      /\ DOMAIN path = 1..Len(path)
  BY RouteType, MatchType
<1>2. \A i \in 1..Len(r) : r[i].kind = "static" /\ Rank(r[i]) = 2 /\ r[i] \in Segment
  BY <1>1, RouteType DEF IsDynamic
<1>3. Len(path) = Len(r)
  <2>1. Rank(r[Len(r)]) = 2
    BY <1>1, <1>2
  <2>. QED BY <2>1, MatchType
<1>4. \A i \in 1..Len(r) : r[i] = Static(path[i])
  BY <1>2, MatchType DEF Segment, Static
<1>. QED BY <1>1, <1>3, <1>4 DEF PathAsRoute

LEMMA PathMatches ==
  ASSUME NEW path \in RequestPaths, PathAsRoute(path) \in PluginRouteSet
  PROVE  Matches(PathAsRoute(path), path)
<1>0. path \in Seq(STRING) /\ path # <<>>
  BY PluginRouteAssumption
<1>1. Len(path) \in Nat \ {0} /\ DOMAIN path = 1..Len(path)
  BY <1>0, LenProperties, EmptySeq
<1>2. DOMAIN PathAsRoute(path) = 1..Len(path)
      /\ \A i \in 1..Len(path) : PathAsRoute(path)[i] = Static(path[i])
  BY <1>1 DEF PathAsRoute
<1>3. Len(PathAsRoute(path)) = Len(path)
  <2>1. DOMAIN PathAsRoute(path) = 1..Len(PathAsRoute(path)) /\ Len(PathAsRoute(path)) \in Nat
    BY RouteType
  <2>. QED BY <1>1, <1>2, <2>1
<1>4. ASSUME NEW i \in DOMAIN PathAsRoute(path)
      PROVE  /\ PathAsRoute(path)[i].kind = "static" /\ i <= Len(path)
             /\ path[i] = PathAsRoute(path)[i].name
  BY <1>1, <1>2 DEF Static
<1>. QED BY <1>3, <1>4 DEF Matches

\* What a request reaches is decided by the registered routes.
LEMMA DispatchFollows == PluginIInv => DispatchByRankOnly
<1>. SUFFICES ASSUME PluginIInv, NEW path \in RequestPaths
              PROVE  LET matching == {r \in DOMAIN handlerOf : Matches(r, path)}
                     IN IF matching = {} THEN Dispatched(path) = NoRoute
                        ELSE /\ Dispatched(path) \in matching
                             /\ \A q \in matching \ {Dispatched(path)} :
                                  Outranks(Dispatched(path), q)
  BY DEF DispatchByRankOnly
<1>. DEFINE matching == {r \in DOMAIN handlerOf : Matches(r, path)}
            exact == PathAsRoute(path)
            found == Scan(path)[Len(pluginOrder)]
<1>0. DOMAIN handlerOf \subseteq PluginRouteSet
  BY DEF PluginIInv, PluginTypeOK
<1>1. CASE exact \in DOMAIN handlerOf
  <2>1. Dispatched(path) = exact
    BY <1>1 DEF Dispatched
  <2>2. exact \in matching
    BY <1>0, <1>1, PathMatches
  <2>3. ASSUME NEW q \in matching \ {exact} PROVE Outranks(exact, q)
    <3>1. q \in PluginRouteSet /\ exact \in PluginRouteSet /\ Matches(exact, path)
          /\ Matches(q, path) /\ q \in DOMAIN handlerOf /\ exact # q
      BY <1>0, <2>2
    <3>2. Outranks(exact, q) \/ Outranks(q, exact)
      BY <1>1, <3>1, MatchingApart
    <3>3. ~ Outranks(q, exact)
      <4>1. ASSUME NEW i \in DOMAIN exact PROVE Rank(exact[i]) = 2
        BY <4>1 DEF PathAsRoute, Static, Rank
      <4>2. \A i \in DOMAIN q : Rank(q[i]) \in 0..2
        BY <3>1, RouteType
      <4>. HIDE DEF exact
      <4>. QED BY <4>1, <4>2 DEF Outranks
    <3>. QED BY <3>2, <3>3
  <2>. QED BY <2>1, <2>2, <2>3
<1>2. CASE exact \notin DOMAIN handlerOf
  <2>1. Dispatched(path) = found
    BY <1>2 DEF Dispatched
  <2>2. \A q \in DOMAIN handlerOf : q \in matching <=> Candidate(q, path)
    BY <1>0, <1>2, ExactRoute DEF Candidate
  <2>. HIDE DEF exact
  <2>3. /\ found = NoRoute \/ Candidate(found, path)
        /\ \A q \in DOMAIN handlerOf :
             Candidate(q, path) => q = found \/ (found # NoRoute /\ Outranks(found, q))
    BY ScanFinds
  <2>4. NoRoute \notin DOMAIN handlerOf
    BY <1>0, PluginRouteAssumption DEF NoRoute
  <2>5. Candidate(found, path) => found \in DOMAIN handlerOf
    BY DEF Candidate
  <2>. HIDE DEF found
  <2>. QED BY <2>1, <2>2, <2>3, <2>4, <2>5
<1>. QED BY <1>1, <1>2

-----------------------------------------------------------------------------
(* The project generators.                                                 *)

CommandBegins(p) ==
  \E k \in {"api", "plain"}, n \in Names : \E a \in {FALSE, k = "api"} : CommandStarts(p, k, n, a)

\* A step of the generators is a command's, or the operator's.
LEMMA GenerationSteps ==
  ASSUME GenerationNext
  PROVE  \/ \E p \in Processes :
               \/ NewStarts(p) \/ NewPublishes(p) \/ Plans(p) \/ Publish(p)
               \/ WriteMigration(p, "up", "down") \/ WriteMigration(p, "down", "pins")
               \/ ApplyPins(p) \/ PinsWritten(p) \/ RegisterManifest(p) \/ RegisterModule(p)
               \/ RestoreManifest(p) \/ UpgradeManifest(p) \/ ManifestUpgraded(p)
               \/ RestoreManifestFails(p)
               \/ RemoveMigrations(p) \/ RemoveMigrationsFails(p)
               \/ RestoreGoMod(p) \/ GoModRestored(p) \/ RestoreGoModFails(p)
               \/ RemovePackage(p) \/ RemovePackageFails(p)
               \/ Release(p) \/ Fails(p) \/ Dies(p) \/ CommandBegins(p)
         \/ OperatorUnlocks
  BY DEF GenerationNext, CommandBegins

\* The version chosen for a new migration is the least that exceeds every other.
LEMMA VersionFound ==
  ASSUME GenerationTypeOK
  PROVE  /\ NextVersion \in Nat \ {0}
         /\ \A f \in migrations : f.version < NextVersion
         /\ NextVersion = 1 \/ \E f \in migrations : NextVersion = f.version + 1
<1>. DEFINE used == {0} \cup {f.version : f \in migrations}
            T == {CommandLimit - v : v \in used}
<1>1. \A v \in used : v \in Int /\ CommandLimit - v \in Nat
  BY GenerationAssumption DEF GenerationTypeOK, MigrationFiles
<1>2. PICK m \in T : \A y \in T : m <= y
  <2>1. T \in SUBSET Nat /\ T # {}
    BY <1>1
  <2>. HIDE DEF T
  <2>. QED BY <2>1, SomeLeast
<1>3. PICK x \in used : m = CommandLimit - x
  OBVIOUS
<1>4. \A v \in used : CommandLimit - x <= CommandLimit - v
  BY <1>2, <1>3
<1>5. \A v \in used : v <= x
  <2>. HIDE DEF used
  <2>1. x \in Int /\ CommandLimit \in Int /\ \A v \in used : v \in Int
    BY <1>1, GenerationAssumption
  <2>. QED BY <1>4, <2>1
<1>6. PICK y \in used : NextVersion = 1 + y /\ \A v \in used : v <= y
  BY <1>5 DEF NextVersion
<1>7. y \in Nat
  BY <1>6, GenerationAssumption DEF GenerationTypeOK, MigrationFiles
<1>8. \A f \in migrations : f.version \in Nat /\ f.version <= y
  BY <1>6, GenerationAssumption DEF GenerationTypeOK, MigrationFiles
<1>. QED BY <1>6, <1>7, <1>8

\* What a step may make of a command.
LEMMA CommandUpdates ==
  ASSUME NEW c \in CommandType, NEW k \in Places
  PROVE  /\ [c EXCEPT !.pc = k] \in CommandType
         /\ \A b \in BOOLEAN : [c EXCEPT !.pc = k, !.ok = b] \in CommandType
         /\ \A pl \in PlansType : [c EXCEPT !.pc = k, !.plan = pl] \in CommandType
         /\ \A f \in MigrationFiles : [c EXCEPT !.pc = k, !.written = @ \cup {f}] \in CommandType
         /\ \A g \in GoMods : [c EXCEPT !.goModSeen = <<g>>, !.pc = k] \in CommandType
  BY DEF CommandType

\* Also when it gains pins.
LEMMA PinsUpdated ==
  ASSUME NEW c \in CommandType, NEW S \in SUBSET {"orm", "decimal"}
  PROVE  [c EXCEPT !.pc = "pinning", !.plan.pins = S] \in CommandType
  BY DEF CommandType, PlansType, Places

\* A process without a command.
LEMMA QuietTyped == NoPlan \in PlansType /\ Quiet \in CommandType
<1>1. NoPlan \in PlansType
  BY GenerationAssumption DEF NoPlan, PlansType
<1>. QED BY <1>1 DEF Quiet, CommandType, Places

\* A command as it begins.
LEMMA StartTyped ==
  ASSUME NEW k \in {"api", "plain"}, NEW n \in Names, NEW a \in BOOLEAN
  PROVE  [Quiet EXCEPT !.pc = "plan", !.kind = k, !.name = n, !.applies = a] \in CommandType
  BY QuietTyped DEF CommandType, Places

\* p's command becomes c.
Becomes(p, c) == cmd' = [cmd EXCEPT ![p] = c]

\* The other commands stay.
LEMMA Becoming ==
  ASSUME NEW p \in Processes, NEW c \in CommandType, cmd \in [Processes -> CommandType],
         Becomes(p, c)
  PROVE  /\ cmd' \in [Processes -> CommandType] /\ cmd'[p] = c
         /\ \A q \in Processes : q # p => cmd'[q] = cmd[q]
  BY DEF Becomes

\* Only p's command changes, to one of the same name and kind at k.
MovesTo(p, k) ==
  /\ cmd' \in [Processes -> CommandType]
  /\ \A q \in Processes : q # p => cmd'[q] = cmd[q]
  /\ cmd'[p].pc = k /\ cmd'[p].name = cmd[p].name /\ cmd'[p].kind = cmd[p].kind

SamePlan(p) == cmd'[p].plan = cmd[p].plan
SameFiles(p) == cmd'[p].written = cmd[p].written
SameGoMod(p) == cmd'[p].goModSeen = cmd[p].goModSeen
SameOk(p) == cmd'[p].ok = cmd[p].ok

Quiets(p) ==
  /\ cmd' \in [Processes -> CommandType]
  /\ \A q \in Processes : q # p => cmd'[q] = cmd[q]
  /\ cmd'[p] = Quiet

\* The command moves on, and nothing else of it changes.
LEMMA PcMoves ==
  ASSUME NEW p \in Processes, GenerationTypeOK, NEW k \in Places,
         Becomes(p, [cmd[p] EXCEPT !.pc = k])
  PROVE  MovesTo(p, k) /\ SamePlan(p) /\ SameFiles(p) /\ SameGoMod(p) /\ SameOk(p)
<1>1. cmd \in [Processes -> CommandType]
  BY DEF GenerationTypeOK
<1>2. cmd[p] \in CommandType /\ [cmd[p] EXCEPT !.pc = k] \in CommandType
  BY <1>1, CommandUpdates
<1>3. cmd' \in [Processes -> CommandType] /\ cmd'[p] = [cmd[p] EXCEPT !.pc = k]
      /\ \A q \in Processes : q # p => cmd'[q] = cmd[q]
  BY <1>1, <1>2, Becoming
<1>. QED BY <1>2, <1>3 DEF MovesTo, SamePlan, SameFiles, SameGoMod, SameOk, CommandType

\* It moves on and says whether it succeeded.
LEMMA OkMoves ==
  ASSUME NEW p \in Processes, GenerationTypeOK, NEW k \in Places, NEW b \in BOOLEAN,
         Becomes(p, [cmd[p] EXCEPT !.pc = k, !.ok = b])
  PROVE  MovesTo(p, k) /\ SamePlan(p) /\ SameFiles(p) /\ SameGoMod(p) /\ cmd'[p].ok = b
<1>1. cmd \in [Processes -> CommandType]
  BY DEF GenerationTypeOK
<1>2. cmd[p] \in CommandType /\ [cmd[p] EXCEPT !.pc = k, !.ok = b] \in CommandType
  BY <1>1, CommandUpdates
<1>3. cmd' \in [Processes -> CommandType] /\ cmd'[p] = [cmd[p] EXCEPT !.pc = k, !.ok = b]
      /\ \A q \in Processes : q # p => cmd'[q] = cmd[q]
  BY <1>1, <1>2, Becoming
<1>. QED BY <1>2, <1>3 DEF MovesTo, SamePlan, SameFiles, SameGoMod, CommandType

\* It moves on with a plan.
LEMMA PlanMoves ==
  ASSUME NEW p \in Processes, GenerationTypeOK, NEW k \in Places, NEW pl \in PlansType,
         Becomes(p, [cmd[p] EXCEPT !.pc = k, !.plan = pl])
  PROVE  MovesTo(p, k) /\ cmd'[p].plan = pl /\ SameFiles(p) /\ SameGoMod(p) /\ SameOk(p)
<1>1. cmd \in [Processes -> CommandType]
  BY DEF GenerationTypeOK
<1>2. cmd[p] \in CommandType /\ [cmd[p] EXCEPT !.pc = k, !.plan = pl] \in CommandType
  BY <1>1, CommandUpdates
<1>3. cmd' \in [Processes -> CommandType] /\ cmd'[p] = [cmd[p] EXCEPT !.pc = k, !.plan = pl]
      /\ \A q \in Processes : q # p => cmd'[q] = cmd[q]
  BY <1>1, <1>2, Becoming
<1>. QED BY <1>2, <1>3 DEF MovesTo, SameFiles, SameGoMod, SameOk, CommandType

\* It moves on having written a file.
LEMMA FileMoves ==
  ASSUME NEW p \in Processes, GenerationTypeOK, NEW k \in Places, NEW f \in MigrationFiles,
         Becomes(p, [cmd[p] EXCEPT !.pc = k, !.written = @ \cup {f}])
  PROVE  /\ MovesTo(p, k) /\ SamePlan(p) /\ SameGoMod(p) /\ SameOk(p)
         /\ cmd'[p].written = cmd[p].written \cup {f}
<1>1. cmd \in [Processes -> CommandType]
  BY DEF GenerationTypeOK
<1>2. cmd[p] \in CommandType /\ [cmd[p] EXCEPT !.pc = k, !.written = @ \cup {f}] \in CommandType
  BY <1>1, CommandUpdates
<1>3. cmd' \in [Processes -> CommandType]
      /\ cmd'[p] = [cmd[p] EXCEPT !.pc = k, !.written = @ \cup {f}]
      /\ \A q \in Processes : q # p => cmd'[q] = cmd[q]
  BY <1>1, <1>2, Becoming
<1>. QED BY <1>2, <1>3 DEF MovesTo, SamePlan, SameGoMod, SameOk, CommandType

\* It moves on having read go.mod.
LEMMA SeenMoves ==
  ASSUME NEW p \in Processes, GenerationTypeOK, NEW k \in Places, NEW g \in GoMods,
         Becomes(p, [cmd[p] EXCEPT !.goModSeen = <<g>>, !.pc = k])
  PROVE  /\ MovesTo(p, k) /\ SamePlan(p) /\ SameFiles(p) /\ SameOk(p)
         /\ cmd'[p].goModSeen = <<g>>
<1>1. cmd \in [Processes -> CommandType]
  BY DEF GenerationTypeOK
<1>2. cmd[p] \in CommandType /\ [cmd[p] EXCEPT !.goModSeen = <<g>>, !.pc = k] \in CommandType
  BY <1>1, CommandUpdates
<1>3. cmd' \in [Processes -> CommandType]
      /\ cmd'[p] = [cmd[p] EXCEPT !.goModSeen = <<g>>, !.pc = k]
      /\ \A q \in Processes : q # p => cmd'[q] = cmd[q]
  BY <1>1, <1>2, Becoming
<1>. QED BY <1>2, <1>3 DEF MovesTo, SamePlan, SameFiles, SameOk, CommandType

\* It moves on with more pins.
LEMMA PinsMove ==
  ASSUME NEW p \in Processes, GenerationTypeOK, NEW S \in SUBSET {"orm", "decimal"},
         Becomes(p, [cmd[p] EXCEPT !.pc = "pinning", !.plan.pins = S])
  PROVE  /\ MovesTo(p, "pinning") /\ SameFiles(p) /\ SameGoMod(p) /\ SameOk(p)
         /\ cmd'[p].plan.seen = cmd[p].plan.seen /\ cmd'[p].plan.version = cmd[p].plan.version
<1>1. cmd \in [Processes -> CommandType]
  BY DEF GenerationTypeOK
<1>2. cmd[p] \in CommandType /\ [cmd[p] EXCEPT !.pc = "pinning", !.plan.pins = S] \in CommandType
  BY <1>1, PinsUpdated
<1>3. cmd' \in [Processes -> CommandType]
      /\ cmd'[p] = [cmd[p] EXCEPT !.pc = "pinning", !.plan.pins = S]
      /\ \A q \in Processes : q # p => cmd'[q] = cmd[q]
  BY <1>1, <1>2, Becoming
<1>. QED BY <1>2, <1>3 DEF MovesTo, SameFiles, SameGoMod, SameOk, CommandType, PlansType

\* Its command ends.
LEMMA QuietMoves ==
  ASSUME NEW p \in Processes, GenerationTypeOK, Becomes(p, Quiet)
  PROVE  Quiets(p)
<1>1. cmd \in [Processes -> CommandType]
  BY DEF GenerationTypeOK
<1>. QED BY <1>1, QuietTyped, Becoming DEF Quiets

\* What each action does, without the shape of the record that a command is.
LEMMA NewStartsStep ==
  ASSUME NEW p \in Processes, GenerationTypeOK, NewStarts(p)
  PROVE  /\ cmd[p].pc = "idle" /\ ~project
         /\ MovesTo(p, "new") /\ SamePlan(p) /\ SameFiles(p) /\ SameGoMod(p) /\ SameOk(p)
         /\ UNCHANGED <<project, packages, migrations, goMod, manifest, registry, lock,
                        generated, stranded, commands>>
<1>1. "new" \in Places /\ Becomes(p, [cmd[p] EXCEPT !.pc = "new"])
  BY DEF NewStarts, files, bounds, Becomes, Places
<1>. QED BY <1>1, PcMoves DEF NewStarts, files, bounds

LEMMA NewPublishesStep ==
  ASSUME NEW p \in Processes, GenerationTypeOK, NewPublishes(p)
  PROVE  /\ cmd[p].pc = "new" /\ Quiets(p)
         /\ UNCHANGED <<packages, migrations, goMod, registry, lock, generated, stranded, commands>>
         /\ project'
         /\ \/ project /\ manifest' = manifest
            \/ ~project /\ manifest' = [manifest EXCEPT !.state = "whole"]
<1>1. Becomes(p, Quiet)
  BY DEF NewPublishes, Scaffold, bounds, Becomes
<1>. QED BY <1>1, QuietMoves DEF NewPublishes, Scaffold, bounds, GenerationTypeOK

LEMMA PlansStep ==
  ASSUME NEW p \in Processes, GenerationTypeOK, CommandShape, VersionsAreFresh, Plans(p)
  PROVE  /\ cmd[p].pc = "plan" /\ SameFiles(p) /\ SameGoMod(p) /\ SameOk(p)
         /\ UNCHANGED <<project, packages, migrations, goMod, manifest, registry, lock,
                        generated, stranded, commands>>
         /\ \/ /\ MovesTo(p, "publish") /\ cmd'[p].plan = Plan(cmd[p].kind, cmd[p].name)
                  /\ Plan(cmd[p].kind, cmd[p].name) \in PlansType
                  /\ packages[cmd[p].name] = "absent"
            \/ MovesTo(p, "release") /\ SamePlan(p)
<1>0. cmd[p].pc = "plan" /\ UNCHANGED <<files, lock, generated, stranded, bounds>>
  BY DEF Plans
<1>1. CASE /\ packages[cmd[p].name] = "absent"
            /\ Becomes(p, [cmd[p] EXCEPT !.pc = "publish", !.plan = Plan(cmd[p].kind, cmd[p].name)])
  <2>1. cmd[p] \in CommandType /\ cmd[p].pc = "plan"
    BY DEF Plans, GenerationTypeOK
  <2>2. cmd[p].kind \in {"api", "plain"} /\ cmd[p].name \in Names
    BY <2>1 DEF CommandType, CommandShape
  <2>3. cmd[p].kind = "api" => NextVersion \in 0 .. CommandLimit
    <3>. SUFFICES ASSUME cmd[p].kind = "api" PROVE NextVersion \in 0 .. CommandLimit
      OBVIOUS
    <3>1. \A f \in migrations : f.version \in Nat /\ f.version < commands
      BY <2>1, GenerationAssumption DEF GenerationTypeOK, MigrationFiles, VersionsAreFresh,
         FreshVersion
    <3>2. commands \in Nat /\ commands <= CommandLimit /\ commands > 0 /\ CommandLimit \in Nat
      BY <2>1, GenerationAssumption DEF GenerationTypeOK, VersionsAreFresh, FreshVersion
    <3>. QED BY <3>1, <3>2, VersionFound
  <2>4. Plan(cmd[p].kind, cmd[p].name) \in PlansType
    <3>1. Pins(cmd[p].kind, cmd[p].name) \in SUBSET {"orm", "decimal"}
      BY DEF Pins
    <3>2. manifest.apis \in SUBSET Names /\ manifest.version \in {1, 2}
      BY DEF GenerationTypeOK, Manifests
    <3>3. <<manifest.apis, manifest.version>> \in (SUBSET Names) \X {1, 2}
      BY <3>2
    <3>. QED BY <2>2, <2>3, <3>1, <3>3, GenerationAssumption DEF Plan, PlansType
  <2>5. "publish" \in Places
    BY DEF Places
  <2>6. /\ MovesTo(p, "publish") /\ cmd'[p].plan = Plan(cmd[p].kind, cmd[p].name)
        /\ SameFiles(p) /\ SameGoMod(p) /\ SameOk(p)
    <3>. DEFINE pl == Plan(cmd[p].kind, cmd[p].name)
    <3>1. pl \in PlansType /\ Becomes(p, [cmd[p] EXCEPT !.pc = "publish", !.plan = pl])
      BY <1>1, <2>4
    <3>. HIDE DEF pl
    <3>2. /\ MovesTo(p, "publish") /\ cmd'[p].plan = pl /\ SameFiles(p) /\ SameGoMod(p) /\ SameOk(p)
      BY <3>1, <2>5, PlanMoves
    <3>. QED BY <3>2 DEF pl
  <2>. QED BY <1>0, <1>1, <2>4, <2>6 DEF files, bounds
<1>2. CASE Becomes(p, [cmd[p] EXCEPT !.pc = "release"])
  <2>1. "release" \in Places
    BY DEF Places
  <2>. QED BY <1>0, <1>2, <2>1, PcMoves DEF files, bounds
<1>. QED BY <1>1, <1>2 DEF Plans, Becomes

LEMMA PublishStep ==
  ASSUME NEW p \in Processes, GenerationTypeOK, Publish(p)
  PROVE  /\ cmd[p].pc = "publish" /\ SamePlan(p) /\ SameFiles(p) /\ SameOk(p)
         /\ UNCHANGED <<project, migrations, goMod, manifest, registry, lock, generated, stranded, commands>>
         /\ \/ /\ packages[cmd[p].name] = "absent" /\ cmd'[p].goModSeen # <<>>
                  /\ packages' = [packages EXCEPT ![cmd[p].name] = cmd[p].kind]
                  /\ MovesTo(p, IF cmd[p].plan.version = 0 THEN "pins" ELSE "up")
            \/ packages' = packages /\ MovesTo(p, "release") /\ SameGoMod(p)
<1>0. cmd[p].pc = "publish" /\ UNCHANGED <<project, migrations, goMod, manifest, registry,
                                           lock, generated, stranded, commands>>
  BY DEF Publish, bounds
<1>1. CASE packages[cmd[p].name] = "absent"
  <2>. DEFINE k == IF cmd[p].plan.version = 0 THEN "pins" ELSE "up"
  <2>1. k \in Places /\ goMod \in GoMods /\ <<goMod>> # <<>>
    BY DEF Places, GenerationTypeOK
  <2>2. Becomes(p, [cmd[p] EXCEPT !.goModSeen = <<goMod>>, !.pc = k])
    BY <1>1 DEF Publish, Becomes
  <2>. HIDE DEF k
  <2>3. /\ MovesTo(p, k) /\ SamePlan(p) /\ SameFiles(p) /\ SameOk(p)
        /\ cmd'[p].goModSeen = <<goMod>>
    BY <2>1, <2>2, SeenMoves
  <2>4. cmd'[p].goModSeen # <<>> /\ packages' = [packages EXCEPT ![cmd[p].name] = cmd[p].kind]
    BY <1>1, <2>1, <2>3 DEF Publish
  <2>. QED BY <1>0, <1>1, <2>3, <2>4 DEF k
<1>2. CASE packages[cmd[p].name] # "absent"
  <2>1. Becomes(p, [cmd[p] EXCEPT !.pc = "release"]) /\ packages' = packages
    BY <1>2 DEF Publish, Becomes
  <2>2. "release" \in Places
    BY DEF Places
  <2>. QED BY <1>0, <2>1, <2>2, PcMoves
<1>. QED BY <1>1, <1>2

LEMMA WriteStep ==
  ASSUME NEW p \in Processes, GenerationTypeOK, CommandShape, VersionsAreFresh,
         NEW d \in {"up", "down"}, NEW k \in Places, WriteMigration(p, d, k)
  PROVE  /\ cmd[p].pc = d /\ MovesTo(p, k)
         /\ SamePlan(p) /\ SameGoMod(p) /\ SameOk(p)
         /\ UNCHANGED <<project, packages, goMod, manifest, registry, lock, generated, stranded, commands>>
         /\ \E f \in MigrationFiles : /\ f.version = cmd[p].plan.version
                                          /\ f.name = cmd[p].name /\ f.direction = d
                                          /\ migrations' = migrations \cup {f}
                                          /\ cmd'[p].written = cmd[p].written \cup {f}
<1>. DEFINE f == [version |-> cmd[p].plan.version, name |-> cmd[p].name, direction |-> d]
<1>1. cmd[p] \in CommandType /\ cmd[p].pc = d
  BY DEF GenerationTypeOK, WriteMigration
<1>2. cmd[p].plan.version \in 0 .. CommandLimit /\ cmd[p].plan.version # 0 /\ cmd[p].name \in Names
  <2>1. cmd[p].plan \in PlansType /\ cmd[p].plan.version # 0
    BY <1>1 DEF CommandType, VersionsAreFresh, FreshVersion
  <2>2. cmd[p].kind = "api"
    BY <1>1 DEF CommandShape
  <2>. QED BY <1>1, <2>1, <2>2 DEF PlansType, CommandShape
<1>3. f \in MigrationFiles
  BY <1>2, GenerationAssumption DEF MigrationFiles
<1>4. Becomes(p, [cmd[p] EXCEPT !.pc = k, !.written = @ \cup {f}])
      /\ migrations' = migrations \cup {f}
  BY DEF WriteMigration, Becomes
<1>5. f.version = cmd[p].plan.version /\ f.name = cmd[p].name /\ f.direction = d
  OBVIOUS
<1>. HIDE DEF f
<1>6. /\ MovesTo(p, k) /\ SamePlan(p) /\ SameGoMod(p) /\ SameOk(p)
      /\ cmd'[p].written = cmd[p].written \cup {f}
  BY <1>3, <1>4, FileMoves
<1>7. UNCHANGED <<project, packages, goMod, manifest, registry, lock, generated, stranded, commands>>
  BY DEF WriteMigration, bounds
<1>. QED BY <1>1, <1>3, <1>4, <1>5, <1>6, <1>7

LEMMA PinsStep ==
  ASSUME NEW p \in Processes, GenerationTypeOK, ApplyPins(p) \/ PinsWritten(p)
  PROVE  /\ cmd[p].pc \in {"pins", "pinning"} /\ SameFiles(p) /\ SameGoMod(p)
         /\ UNCHANGED <<project, packages, migrations, manifest, registry, lock, generated, stranded,
                        commands>>
         /\ goMod' \in GoMods
         /\ cmd'[p].plan.seen = cmd[p].plan.seen /\ cmd'[p].plan.version = cmd[p].plan.version
         /\ \/ (MovesTo(p, "undoFiles") \/ MovesTo(p, "pinning")) /\ SameOk(p)
            \/ cmd[p].plan.seen = <<>> /\ MovesTo(p, "release") /\ cmd'[p].ok
            \/ cmd[p].plan.seen # <<>> /\ MovesTo(p, "manifest") /\ ~cmd'[p].ok
<1>0. cmd[p] \in CommandType /\ goMod \in GoMods /\ AfterPins(p) \in Places
  BY DEF GenerationTypeOK, AfterPins, Places
<1>. DEFINE pinned == [pins |-> cmd[p].plan.pins, torn |-> FALSE]
<1>4. /\ cmd[p].pc \in {"pins", "pinning"}
      /\ UNCHANGED <<project, packages, migrations, manifest, registry, lock, generated, stranded, commands>>
  BY DEF ApplyPins, PinsWritten, bounds
<1>5. pinned \in GoMods
  BY <1>0 DEF GoMods, CommandType, PlansType
<1>1. CASE /\ Becomes(p, [cmd[p] EXCEPT !.pc = AfterPins(p), !.ok = (cmd[p].plan.seen = <<>>)])
           /\ goMod' \in {goMod, pinned}
  <2>1. /\ MovesTo(p, AfterPins(p)) /\ SamePlan(p) /\ SameFiles(p) /\ SameGoMod(p)
        /\ cmd'[p].ok = (cmd[p].plan.seen = <<>>)
    BY <1>0, <1>1, OkMoves
  <2>2. AfterPins(p) = IF cmd[p].plan.seen # <<>> THEN "manifest" ELSE "release"
    BY DEF AfterPins
  <2>. QED BY <1>0, <1>1, <1>4, <1>5, <2>1, <2>2 DEF SamePlan
<1>2. CASE Becomes(p, [cmd[p] EXCEPT !.pc = "undoFiles"]) /\ goMod' = goMod
  <2>1. "undoFiles" \in Places
    BY DEF Places
  <2>2. MovesTo(p, "undoFiles") /\ SamePlan(p) /\ SameFiles(p) /\ SameGoMod(p) /\ SameOk(p)
    BY <1>2, <2>1, PcMoves
  <2>. QED BY <1>0, <1>2, <1>4, <2>2 DEF SamePlan
<1>3. CASE /\ Becomes(p, [cmd[p] EXCEPT !.pc = "pinning", !.plan.pins = cmd[p].plan.pins \cup goMod.pins])
           /\ goMod' = [goMod EXCEPT !.torn = TRUE]
  <2>1. cmd[p].plan.pins \cup goMod.pins \in SUBSET {"orm", "decimal"} /\ goMod' \in GoMods
    BY <1>0, <1>3 DEF GoMods, CommandType, PlansType
  <2>2. /\ MovesTo(p, "pinning") /\ SameFiles(p) /\ SameGoMod(p) /\ SameOk(p)
        /\ cmd'[p].plan.seen = cmd[p].plan.seen /\ cmd'[p].plan.version = cmd[p].plan.version
    BY <1>3, <2>1, PinsMove
  <2>. QED BY <1>4, <2>1, <2>2
<1>6. CASE ApplyPins(p)
  BY <1>1, <1>2, <1>3, <1>6 DEF ApplyPins, Becomes
<1>7. CASE PinsWritten(p)
  BY <1>1, <1>7 DEF PinsWritten, Becomes
<1>. QED BY <1>6, <1>7

LEMMA RegisterManifestStep ==
  ASSUME NEW p \in Processes, GenerationTypeOK, RegisterManifest(p)
  PROVE  /\ cmd[p].pc = "manifest" /\ MovesTo(p, "registry")
         /\ SamePlan(p) /\ SameFiles(p) /\ SameGoMod(p) /\ SameOk(p)
         /\ UNCHANGED <<project, packages, migrations, goMod, registry, lock, generated, stranded, commands>>
         /\ manifest' = [manifest EXCEPT !.apis = cmd[p].plan.seen[1] \cup {cmd[p].name}]
<1>1. "registry" \in Places /\ Becomes(p, [cmd[p] EXCEPT !.pc = "registry"])
  BY DEF RegisterManifest, files, bounds, Becomes, Places
<1>. QED BY <1>1, PcMoves DEF RegisterManifest, files, bounds

LEMMA RegisterModuleStep ==
  ASSUME NEW p \in Processes, GenerationTypeOK, RegisterModule(p)
  PROVE  /\ cmd[p].pc = "registry" /\ SamePlan(p) /\ SameFiles(p) /\ SameGoMod(p)
         /\ UNCHANGED <<project, packages, migrations, goMod, manifest, lock, generated, stranded, commands>>
         /\ registry' = cmd[p].plan.seen[1] \cup {cmd[p].name}
         /\ \/ MovesTo(p, "upgrade") /\ ~cmd'[p].ok
            \/ MovesTo(p, "release") /\ cmd'[p].ok
<1>. DEFINE k == IF cmd[p].applies THEN "upgrade" ELSE "release"
<1>1. cmd[p] \in CommandType /\ k \in Places
  BY DEF GenerationTypeOK, Places
<1>2. Becomes(p, [cmd[p] EXCEPT !.pc = k, !.ok = ~cmd[p].applies])
  BY DEF RegisterModule, Becomes
<1>4. cmd[p].pc = "registry" /\ registry' = cmd[p].plan.seen[1] \cup {cmd[p].name}
      /\ UNCHANGED <<project, packages, migrations, goMod, manifest, lock, generated, stranded, commands>>
  BY DEF RegisterModule, bounds
<1>5. cmd[p].applies \in BOOLEAN
  BY <1>1 DEF CommandType
<1>6. (~cmd[p].applies) \in BOOLEAN
  BY <1>5
<1>. HIDE DEF k
<1>3. MovesTo(p, k) /\ SamePlan(p) /\ SameFiles(p) /\ SameGoMod(p) /\ cmd'[p].ok = ~cmd[p].applies
  BY <1>1, <1>2, <1>6, OkMoves
<1>. QED BY <1>3, <1>4, <1>5 DEF k

LEMMA RestoreManifestStep ==
  ASSUME NEW p \in Processes, GenerationTypeOK, RestoreManifest(p)
  PROVE  /\ cmd[p].pc = "restore" /\ MovesTo(p, "undoFiles")
         /\ SamePlan(p) /\ SameFiles(p) /\ SameGoMod(p) /\ SameOk(p)
         /\ UNCHANGED <<project, packages, migrations, goMod, registry, lock, generated, stranded, commands>>
         /\ manifest' = [manifest EXCEPT !.apis = cmd[p].plan.seen[1]]
<1>1. "undoFiles" \in Places /\ Becomes(p, [cmd[p] EXCEPT !.pc = "undoFiles"])
  BY DEF RestoreManifest, files, bounds, Becomes, Places
<1>. QED BY <1>1, PcMoves DEF RestoreManifest, files, bounds

LEMMA UpgradeStep ==
  ASSUME NEW p \in Processes, GenerationTypeOK, UpgradeManifest(p)
  PROVE  /\ cmd[p].pc = "upgrade" /\ MovesTo(p, "upgrading")
         /\ SamePlan(p) /\ SameFiles(p) /\ SameGoMod(p) /\ SameOk(p)
         /\ UNCHANGED <<project, packages, migrations, goMod, registry, lock, generated, stranded, commands>>
         /\ manifest' = [manifest EXCEPT !.state = "torn"]
<1>1. "upgrading" \in Places /\ Becomes(p, [cmd[p] EXCEPT !.pc = "upgrading"])
  BY DEF UpgradeManifest, files, bounds, Becomes, Places
<1>. QED BY <1>1, PcMoves DEF UpgradeManifest, files, bounds

LEMMA UpgradedStep ==
  ASSUME NEW p \in Processes, GenerationTypeOK, ManifestUpgraded(p)
  PROVE  /\ cmd[p].pc = "upgrading" /\ MovesTo(p, "release") /\ cmd'[p].ok
         /\ SamePlan(p) /\ SameFiles(p) /\ SameGoMod(p)
         /\ UNCHANGED <<project, packages, migrations, goMod, registry, lock, generated, stranded, commands>>
         /\ manifest' = [manifest EXCEPT !.state = "whole", !.version = 2]
<1>1. Becomes(p, [cmd[p] EXCEPT !.pc = "release", !.ok = TRUE])
  BY DEF ManifestUpgraded, Becomes
<1>2. "release" \in Places /\ TRUE \in BOOLEAN
  BY DEF Places
<1>3. MovesTo(p, "release") /\ SamePlan(p) /\ SameFiles(p) /\ SameGoMod(p) /\ cmd'[p].ok = TRUE
  BY <1>1, <1>2, OkMoves
<1>. QED BY <1>3 DEF ManifestUpgraded, bounds

LEMMA RestoreManifestFailsStep ==
  ASSUME NEW p \in Processes, GenerationTypeOK, RestoreManifestFails(p)
  PROVE  /\ cmd[p].pc = "restore" /\ MovesTo(p, "undoFiles")
         /\ SamePlan(p) /\ SameFiles(p) /\ SameGoMod(p) /\ SameOk(p)
         /\ UNCHANGED <<project, packages, migrations, goMod, manifest, registry, lock,
                        generated, commands>>
         /\ stranded' = stranded \cup {cmd[p].name}
<1>1. "undoFiles" \in Places /\ Becomes(p, [cmd[p] EXCEPT !.pc = "undoFiles"])
  BY DEF RestoreManifestFails, Becomes, Places
<1>. QED BY <1>1, PcMoves DEF RestoreManifestFails, files

\* Of the files that the command wrote all are removed, or some.
LEMMA RemoveMigrationsStep ==
  ASSUME NEW p \in Processes, GenerationTypeOK, RemoveMigrations(p) \/ RemoveMigrationsFails(p)
  PROVE  /\ cmd[p].pc = "undoFiles" /\ MovesTo(p, "undoGoMod")
         /\ SamePlan(p) /\ SameFiles(p) /\ SameGoMod(p) /\ SameOk(p)
         /\ UNCHANGED <<project, packages, goMod, manifest, registry, lock, generated, stranded,
                        commands>>
         /\ \E removed \in SUBSET cmd[p].written : migrations' = migrations \ removed
<1>1. "undoGoMod" \in Places /\ Becomes(p, [cmd[p] EXCEPT !.pc = "undoGoMod"])
  BY DEF RemoveMigrations, RemoveMigrationsFails, Becomes, Places
<1>. QED BY <1>1, PcMoves DEF RemoveMigrations, RemoveMigrationsFails, bounds

LEMMA RestoreGoModStep ==
  ASSUME NEW p \in Processes, GenerationTypeOK, CommandShape,
         RestoreGoMod(p) \/ GoModRestored(p) \/ RestoreGoModFails(p)
  PROVE  /\ cmd[p].pc \in {"undoGoMod", "undoingGoMod"}
         /\ MovesTo(p, "undoingGoMod") \/ MovesTo(p, "undoPackage")
         /\ SamePlan(p) /\ SameFiles(p) /\ SameGoMod(p) /\ SameOk(p)
         /\ UNCHANGED <<project, packages, migrations, manifest, registry, lock, generated,
                        stranded, commands>>
         /\ goMod' \in GoMods
<1>1. /\ cmd[p].pc \in {"undoGoMod", "undoingGoMod"}
      /\ UNCHANGED <<project, packages, migrations, manifest, registry, lock, generated,
                     stranded, commands>>
  BY DEF RestoreGoMod, GoModRestored, RestoreGoModFails, files, bounds
<1>2. PICK k \in {"undoingGoMod", "undoPackage"} : Becomes(p, [cmd[p] EXCEPT !.pc = k])
  BY DEF RestoreGoMod, GoModRestored, RestoreGoModFails, Becomes
<1>3. MovesTo(p, k) /\ SamePlan(p) /\ SameFiles(p) /\ SameGoMod(p) /\ SameOk(p)
  BY <1>2, PcMoves DEF Places
<1>4. goMod' \in GoMods
  <2>1. goMod \in GoMods /\ [goMod EXCEPT !.torn = TRUE] \in GoMods
    BY DEF GenerationTypeOK, GoMods
  <2>2. cmd[p] \in CommandType /\ cmd[p].goModSeen # <<>>
    BY <1>1 DEF GenerationTypeOK, CommandShape, Owns
  <2>3. cmd[p].goModSeen[1] \in GoMods
    BY <2>2 DEF CommandType
  <2>. QED BY <2>1, <2>3 DEF RestoreGoMod, GoModRestored, RestoreGoModFails, files
<1>. QED BY <1>1, <1>2, <1>3, <1>4

\* A removal that fails leaves the package, or a part of it.
LEMMA RemovePackageStep ==
  ASSUME NEW p \in Processes, GenerationTypeOK, RemovePackage(p) \/ RemovePackageFails(p)
  PROVE  /\ cmd[p].pc = "undoPackage" /\ MovesTo(p, "release")
         /\ SamePlan(p) /\ SameFiles(p) /\ SameGoMod(p) /\ SameOk(p)
         /\ UNCHANGED <<project, migrations, goMod, manifest, registry, lock, generated,
                        stranded, commands>>
         /\ \E left \in {"absent", "partial", cmd[p].kind} :
              packages' = [packages EXCEPT ![cmd[p].name] = left]
<1>1. "release" \in Places /\ Becomes(p, [cmd[p] EXCEPT !.pc = "release"])
  BY DEF RemovePackage, RemovePackageFails, Becomes, Places
<1>. QED BY <1>1, PcMoves DEF RemovePackage, RemovePackageFails, bounds

LEMMA ReleaseStep ==
  ASSUME NEW p \in Processes, GenerationTypeOK, Release(p)
  PROVE  /\ cmd[p].pc = "release" /\ Quiets(p)
         /\ UNCHANGED <<project, packages, migrations, goMod, manifest, registry, stranded,
                        commands>>
         /\ lock' = IF cmd[p].kind = "api" THEN "free" ELSE lock
         /\ generated' = IF cmd[p].ok /\ cmd[p].kind = "api" THEN generated \cup {cmd[p].name}
                         ELSE generated
<1>1. Becomes(p, Quiet)
  BY DEF Release, files, bounds, Becomes
<1>. QED BY <1>1, QuietMoves DEF Release, files, bounds, GenerationTypeOK

LEMMA FailsStep ==
  ASSUME NEW p \in Processes, GenerationTypeOK, Fails(p)
  PROVE  /\ cmd[p].pc \in {"plan", "publish", "up", "down", "pins", "pinning", "manifest", "registry",
                           "upgrade", "upgrading"}
         /\ MovesTo(p, AfterError(cmd[p].pc)) /\ ~cmd'[p].ok /\ SamePlan(p) /\ SameFiles(p)
         /\ SameGoMod(p)
         /\ UNCHANGED <<project, packages, migrations, goMod, manifest, registry, lock,
                        generated, stranded, commands>>
<1>1. AfterError(cmd[p].pc) \in Places /\ FALSE \in BOOLEAN
  BY DEF Fails, AfterError, Places
<1>2. Becomes(p, [cmd[p] EXCEPT !.pc = AfterError(cmd[p].pc), !.ok = FALSE])
  BY DEF Fails, Becomes
<1>3. MovesTo(p, AfterError(cmd[p].pc)) /\ SamePlan(p) /\ SameFiles(p) /\ SameGoMod(p)
      /\ cmd'[p].ok = FALSE
  BY <1>1, <1>2, OkMoves
<1>. QED BY <1>3 DEF Fails, files

LEMMA DiesStep ==
  ASSUME NEW p \in Processes, GenerationTypeOK, Dies(p)
  PROVE  /\ cmd[p].pc # "idle" /\ Quiets(p)
         /\ UNCHANGED <<project, packages, migrations, goMod, manifest, registry, generated, stranded,
                        commands>>
         /\ lock' = IF lock = p THEN "stale" ELSE lock
<1>1. Becomes(p, Quiet)
  BY DEF Dies, files, Becomes
<1>. QED BY <1>1, QuietMoves DEF Dies, files, GenerationTypeOK

LEMMA StartsStep ==
  ASSUME NEW p \in Processes, GenerationTypeOK, CommandBegins(p)
  PROVE  /\ cmd[p].pc = "idle" /\ project /\ UNCHANGED <<project, packages, migrations, goMod,
                                                         manifest, registry, generated, stranded>>
         /\ commands' = commands + 1 /\ commands < CommandLimit
         /\ cmd' \in [Processes -> CommandType] /\ \A q \in Processes : q # p => cmd'[q] = cmd[q]
         /\ cmd'[p].pc = "plan" /\ cmd'[p].name \in Names /\ cmd'[p].plan = NoPlan
         /\ ~cmd'[p].ok /\ cmd'[p].written = {}
         /\ \/ cmd'[p].kind = "api" /\ lock = "free" /\ lock' = p
            \/ cmd'[p].kind = "plain" /\ lock' = lock
<1>1. PICK k \in {"api", "plain"}, n \in Names, a \in BOOLEAN : CommandStarts(p, k, n, a)
  BY DEF CommandBegins
<1>. DEFINE c == [Quiet EXCEPT !.pc = "plan", !.kind = k, !.name = n, !.applies = a]
<1>2. c \in CommandType /\ cmd \in [Processes -> CommandType] /\ Becomes(p, c)
  BY <1>1, StartTyped DEF CommandStarts, Becomes, GenerationTypeOK
<1>3. /\ c.pc = "plan" /\ c.name = n /\ c.plan = NoPlan /\ ~c.ok /\ c.written = {} /\ c.kind = k
  BY DEF Quiet
<1>. HIDE DEF c
<1>4. cmd' \in [Processes -> CommandType] /\ cmd'[p] = c
      /\ \A q \in Processes : q # p => cmd'[q] = cmd[q]
  BY <1>2, Becoming
<1>5. /\ cmd[p].pc = "idle" /\ project /\ commands' = commands + 1 /\ commands < CommandLimit
      /\ UNCHANGED <<project, packages, migrations, goMod, manifest, registry, generated, stranded>>
      /\ \/ k = "api" /\ lock = "free" /\ lock' = p
         \/ k = "plain" /\ lock' = lock
  BY <1>1 DEF CommandStarts, TakesLock, files
<1>. QED BY <1>3, <1>4, <1>5

\* The bounds on commands and troubles hold.
LEMMA GenerationBounded ==
  ASSUME GenerationTypeOK, GenerationNext
  PROVE  commands' \in 0 .. CommandLimit /\ troubles' \in 0 .. TroubleLimit
<1>1. /\ commands \in 0 .. CommandLimit /\ troubles \in 0 .. TroubleLimit
      /\ CommandLimit \in Nat /\ TroubleLimit \in Nat
  BY GenerationAssumption DEF GenerationTypeOK
<1>2. \/ commands' = commands /\ troubles' = troubles
      \/ commands < CommandLimit /\ commands' = commands + 1 /\ troubles' = troubles
      \/ commands' = commands /\ troubles < TroubleLimit /\ troubles' = troubles + 1
  <2>1. ASSUME NEW p \in Processes,
               NewStarts(p) \/ NewPublishes(p) \/ Plans(p) \/ Publish(p) \/ Release(p)
        PROVE  commands' = commands /\ troubles' = troubles
    BY <2>1 DEF NewStarts, NewPublishes, Scaffold, Plans, Publish, Release, bounds
  <2>2. ASSUME NEW p \in Processes,
               \/ WriteMigration(p, "up", "down") \/ WriteMigration(p, "down", "pins")
               \/ ApplyPins(p) \/ PinsWritten(p)
        PROVE  commands' = commands /\ troubles' = troubles
    BY <2>2 DEF WriteMigration, ApplyPins, PinsWritten, bounds
  <2>3. ASSUME NEW p \in Processes,
               \/ RegisterManifest(p) \/ RegisterModule(p) \/ RestoreManifest(p)
               \/ UpgradeManifest(p) \/ ManifestUpgraded(p)
        PROVE  commands' = commands /\ troubles' = troubles
    BY <2>3 DEF RegisterManifest, RegisterModule, RestoreManifest, UpgradeManifest,
       ManifestUpgraded, bounds
  <2>4. ASSUME NEW p \in Processes,
               RemoveMigrations(p) \/ RestoreGoMod(p) \/ GoModRestored(p) \/ RemovePackage(p)
        PROVE  commands' = commands /\ troubles' = troubles
    BY <2>4 DEF RemoveMigrations, RestoreGoMod, GoModRestored, RemovePackage, bounds
  <2>5. ASSUME NEW p \in Processes,
               \/ RestoreManifestFails(p) \/ RemoveMigrationsFails(p)
               \/ RestoreGoModFails(p) \/ RemovePackageFails(p) \/ Fails(p) \/ Dies(p)
        PROVE  commands' = commands /\ troubles < TroubleLimit /\ troubles' = troubles + 1
    BY <2>5 DEF RestoreManifestFails, RemoveMigrationsFails, RestoreGoModFails,
       RemovePackageFails, Fails, Dies, Trouble
  <2>6. ASSUME NEW p \in Processes, CommandBegins(p)
        PROVE  commands < CommandLimit /\ commands' = commands + 1 /\ troubles' = troubles
    BY <2>6 DEF CommandBegins, CommandStarts
  <2>7. CASE OperatorUnlocks
    BY <2>7 DEF OperatorUnlocks, bounds
  <2>. QED BY <2>1, <2>2, <2>3, <2>4, <2>5, <2>6, <2>7, GenerationSteps
<1>. QED BY <1>1, <1>2

\* What a plan saw of the manifest are names.
LEMMA SeenTyped ==
  ASSUME NEW p \in Processes, GenerationTypeOK, cmd[p].plan.seen # <<>>
  PROVE  cmd[p].plan.seen[1] \in SUBSET Names
<1>1. cmd[p].plan.seen \in (SUBSET Names) \X {1, 2}
  BY DEF GenerationTypeOK, CommandType, PlansType
<1>. QED BY <1>1

\* Types are kept.
LEMMA GenerationTypeStep ==
  ASSUME GenerationIInv, GenerationNext
  PROVE  GenerationTypeOK'
<1>1. GenerationTypeOK /\ CommandShape /\ ManifestOnDisk /\ VersionsAreFresh /\ RegistryCompiles
      /\ GeneratedIsKept /\ MigrationsStayApart
  BY DEF GenerationIInv
<1>2. commands' \in 0 .. CommandLimit /\ troubles' \in 0 .. TroubleLimit
  BY <1>1, GenerationBounded
<1>11. ASSUME NEW p \in Processes, NewStarts(p) PROVE GenerationTypeOK'
  BY <1>1, <1>11, <1>2, NewStartsStep DEF GenerationTypeOK, MovesTo, SamePlan, SameFiles,
     SameGoMod, SameOk
<1>12. ASSUME NEW p \in Processes, NewPublishes(p) PROVE GenerationTypeOK'
  <2>1. manifest' \in Manifests
    BY <1>1, <1>12, NewPublishesStep DEF Manifests, GenerationTypeOK
  <2>. QED BY <1>1, <1>2, <1>12, <2>1, NewPublishesStep
              DEF GenerationTypeOK, Quiets, Quiet, NoPlan
<1>13. ASSUME NEW p \in Processes, Plans(p) PROVE GenerationTypeOK'
  BY <1>1, <1>13, <1>2, PlansStep DEF GenerationTypeOK, MovesTo, SamePlan, SameFiles,
     SameGoMod, SameOk
<1>14. ASSUME NEW p \in Processes, Publish(p) PROVE GenerationTypeOK'
  BY <1>1, <1>14, <1>2, PublishStep DEF GenerationTypeOK, MovesTo, SamePlan, SameFiles,
     SameGoMod, SameOk, CommandType, CommandShape
<1>15. ASSUME NEW p \in Processes, WriteMigration(p, "up", "down") PROVE GenerationTypeOK'
  <2>1. "down" \in Places
    BY DEF Places
  <2>. QED BY <1>1, <1>15, <1>2, <2>1, WriteStep
              DEF GenerationTypeOK, MovesTo, SamePlan, SameFiles, SameGoMod, SameOk
<1>16. ASSUME NEW p \in Processes, WriteMigration(p, "down", "pins") PROVE GenerationTypeOK'
  <2>1. "pins" \in Places
    BY DEF Places
  <2>. QED BY <1>1, <1>16, <1>2, <2>1, WriteStep
              DEF GenerationTypeOK, MovesTo, SamePlan, SameFiles, SameGoMod, SameOk
<1>17. ASSUME NEW p \in Processes, ApplyPins(p) \/ PinsWritten(p) PROVE GenerationTypeOK'
  BY <1>1, <1>17, <1>2, PinsStep DEF GenerationTypeOK, MovesTo, SamePlan, SameFiles, SameGoMod,
     SameOk
<1>18. ASSUME NEW p \in Processes, RegisterManifest(p) PROVE GenerationTypeOK'
  <2>1. cmd[p].plan.seen[1] \in SUBSET Names
    <3>1. cmd[p].plan.seen # <<>>
      BY <1>1, <1>18, RegisterManifestStep DEF ManifestOnDisk, SeesManifest
    <3>. QED BY <1>1, <3>1, SeenTyped
  <2>2. cmd[p].name \in Names /\ manifest \in Manifests /\ registry \subseteq Names
    BY <1>1, <1>18, RegisterManifestStep DEF CommandShape, GenerationTypeOK
  <2>3. manifest' \in Manifests
    BY <1>1, <1>18, <2>1, <2>2, RegisterManifestStep DEF Manifests
  <2>. QED BY <1>1, <1>2, <1>18, <2>3, RegisterManifestStep
              DEF GenerationTypeOK, MovesTo, SamePlan, SameFiles, SameGoMod, SameOk
<1>19. ASSUME NEW p \in Processes, RegisterModule(p) PROVE GenerationTypeOK'
  <2>1. cmd[p].plan.seen[1] \in SUBSET Names
    <3>1. cmd[p].plan.seen # <<>>
      BY <1>1, <1>19, RegisterModuleStep DEF ManifestOnDisk, SeesManifest
    <3>. QED BY <1>1, <3>1, SeenTyped
  <2>2. cmd[p].name \in Names /\ manifest \in Manifests /\ registry \subseteq Names
    BY <1>1, <1>19, RegisterModuleStep DEF CommandShape, GenerationTypeOK
  <2>. QED BY <1>1, <1>2, <1>19, <2>1, <2>2, RegisterModuleStep
              DEF GenerationTypeOK, MovesTo, SamePlan, SameFiles, SameGoMod, SameOk
<1>20. ASSUME NEW p \in Processes, RestoreManifest(p) PROVE GenerationTypeOK'
  <2>1. cmd[p].plan.seen[1] \in SUBSET Names
    <3>1. cmd[p].plan.seen # <<>>
      BY <1>1, <1>20, RestoreManifestStep DEF ManifestOnDisk, SeesManifest
    <3>. QED BY <1>1, <3>1, SeenTyped
  <2>2. cmd[p].name \in Names /\ manifest \in Manifests /\ registry \subseteq Names
    BY <1>1, <1>20, RestoreManifestStep DEF CommandShape, GenerationTypeOK
  <2>3. manifest' \in Manifests
    BY <1>1, <1>20, <2>1, <2>2, RestoreManifestStep DEF Manifests
  <2>. QED BY <1>1, <1>2, <1>20, <2>3, RestoreManifestStep
              DEF GenerationTypeOK, MovesTo, SamePlan, SameFiles, SameGoMod, SameOk
<1>21. ASSUME NEW p \in Processes, UpgradeManifest(p) PROVE GenerationTypeOK'
  <2>1. manifest' \in Manifests
    BY <1>1, <1>21, UpgradeStep DEF Manifests, GenerationTypeOK
  <2>. QED BY <1>1, <1>2, <1>21, <2>1, UpgradeStep
              DEF GenerationTypeOK, MovesTo, SamePlan, SameFiles, SameGoMod, SameOk
<1>22. ASSUME NEW p \in Processes, ManifestUpgraded(p) PROVE GenerationTypeOK'
  <2>1. manifest' \in Manifests
    BY <1>1, <1>22, UpgradedStep DEF Manifests, GenerationTypeOK
  <2>. QED BY <1>1, <1>2, <1>22, <2>1, UpgradedStep
              DEF GenerationTypeOK, MovesTo, SamePlan, SameFiles, SameGoMod, SameOk
<1>23. ASSUME NEW p \in Processes, RemoveMigrations(p) \/ RemoveMigrationsFails(p)
      PROVE  GenerationTypeOK'
  BY <1>1, <1>23, <1>2, RemoveMigrationsStep
     DEF GenerationTypeOK, MovesTo, SamePlan, SameFiles, SameGoMod, SameOk
<1>24. ASSUME NEW p \in Processes, RestoreGoMod(p) \/ GoModRestored(p) \/ RestoreGoModFails(p)
      PROVE  GenerationTypeOK'
  BY <1>1, <1>24, <1>2, RestoreGoModStep DEF GenerationTypeOK, MovesTo, SamePlan, SameFiles,
     SameGoMod, SameOk
<1>25. ASSUME NEW p \in Processes, RemovePackage(p) \/ RemovePackageFails(p)
      PROVE  GenerationTypeOK'
  <2>1. cmd[p] \in CommandType /\ cmd[p].kind # "none"
    BY <1>1, <1>25, RemovePackageStep DEF GenerationTypeOK, CommandShape
  <2>2. cmd[p].kind \in {"api", "plain"}
    BY <2>1 DEF CommandType
  <2>. QED BY <1>1, <1>25, <1>2, <2>2, RemovePackageStep
              DEF GenerationTypeOK, MovesTo, SamePlan, SameFiles, SameGoMod, SameOk
<1>26. ASSUME NEW p \in Processes, Release(p) PROVE GenerationTypeOK'
  BY <1>1, <1>26, <1>2, ReleaseStep DEF GenerationTypeOK, Quiets, Quiet, NoPlan, CommandShape
<1>27. ASSUME NEW p \in Processes, Fails(p) PROVE GenerationTypeOK'
  BY <1>1, <1>27, <1>2, FailsStep DEF GenerationTypeOK, AfterError, MovesTo, SamePlan,
     SameFiles, SameGoMod, SameOk
<1>28. ASSUME NEW p \in Processes, Dies(p) PROVE GenerationTypeOK'
  BY <1>1, <1>28, <1>2, DiesStep DEF GenerationTypeOK, Quiets, Quiet, NoPlan
<1>29. ASSUME NEW p \in Processes, CommandBegins(p) PROVE GenerationTypeOK'
  BY <1>1, <1>29, <1>2, GenerationAssumption, StartsStep DEF GenerationTypeOK, NoPlan
<1>30. CASE OperatorUnlocks
  BY <1>1, <1>30, <1>2, GenerationAssumption
     DEF OperatorUnlocks, files, bounds, GenerationTypeOK
<1>31. ASSUME NEW p \in Processes, RestoreManifestFails(p) PROVE GenerationTypeOK'
  <2>1. cmd[p].name \in Names
    BY <1>1, <1>31, RestoreManifestFailsStep DEF CommandShape
  <2>. QED BY <1>1, <1>2, <1>31, <2>1, RestoreManifestFailsStep
              DEF GenerationTypeOK, MovesTo, SamePlan, SameFiles, SameGoMod, SameOk
<1>. QED BY <1>11, <1>12, <1>13, <1>14, <1>15, <1>16, <1>17, <1>18, <1>19, <1>20, <1>21,
            <1>22, <1>23, <1>24, <1>25, <1>26, <1>27, <1>28, <1>29, <1>30, <1>31,
            GenerationSteps

\* The lock and the packages keep their one owner (acquireGenerationLock,
\* atomicdir.Publish).
LEMMA CommandShapeStep ==
  ASSUME GenerationIInv, GenerationNext
  PROVE  CommandShape'
<1>1. GenerationTypeOK /\ CommandShape /\ ManifestOnDisk /\ VersionsAreFresh /\ RegistryCompiles
      /\ GeneratedIsKept /\ MigrationsStayApart
  BY DEF GenerationIInv
<1>11. ASSUME NEW p \in Processes, NewStarts(p) PROVE CommandShape'
  BY <1>1, <1>11, NewStartsStep DEF CommandShape, Owns, MovesTo, SamePlan, SameFiles,
     SameGoMod, SameOk
<1>12. ASSUME NEW p \in Processes, NewPublishes(p) PROVE CommandShape'
  BY <1>1, <1>12, NewPublishesStep DEF CommandShape, Owns, Quiets, Quiet, NoPlan
<1>13. ASSUME NEW p \in Processes, Plans(p) PROVE CommandShape'
  <2>1. Plan("plain", cmd[p].name).seen = <<>> /\ Plan("plain", cmd[p].name).version = 0
    BY DEF Plan
  <2>. QED BY <1>1, <1>13, <2>1, PlansStep
              DEF CommandShape, Owns, MovesTo, SamePlan, SameFiles, SameGoMod, SameOk
<1>14. ASSUME NEW p \in Processes, Publish(p) PROVE CommandShape'
  <2>1. packages \in [Names -> {"absent", "api", "plain", "partial"}]
        /\ \A q \in Processes : cmd[q] \in CommandType
    BY <1>1 DEF GenerationTypeOK
  <2>2. \A q \in Processes : cmd[q].kind \in {"none", "api", "plain"}
    BY <2>1 DEF CommandType
  <2>3. /\ cmd[p].pc = "publish" /\ ~cmd[p].ok /\ cmd[p].kind \in {"api", "plain"}
        /\ cmd[p].name \in Names
        /\ cmd[p].kind = "plain" => cmd[p].plan.version = 0
    BY <1>1, <1>14, <2>2, PublishStep DEF CommandShape
  <2>4. CASE packages[cmd[p].name] = "absent"
    <3>1. \A q \in Processes : Owns(q) => packages[cmd[q].name] \in {"api", "plain"}
      BY <1>1, <2>2 DEF CommandShape, Owns
    <3>2. \A q \in Processes : Owns(q) => cmd[q].name # cmd[p].name
      BY <2>4, <3>1
    <3>3. cmd[p].name \notin generated
      BY <1>1, <2>4 DEF GeneratedIsKept
    <3>. QED BY <1>1, <1>14, <2>1, <2>3, <2>4, <3>2, <3>3, PublishStep
                DEF CommandShape, Owns, MovesTo, SamePlan, SameFiles, SameGoMod, SameOk
  <2>5. CASE packages[cmd[p].name] # "absent"
    BY <1>1, <1>14, <2>3, <2>5, PublishStep
       DEF CommandShape, Owns, MovesTo, SamePlan, SameFiles, SameGoMod, SameOk
  <2>. QED BY <2>4, <2>5
<1>15. ASSUME NEW p \in Processes, WriteMigration(p, "up", "down") PROVE CommandShape'
  <2>1. "down" \in Places
    BY DEF Places
  <2>. QED BY <1>1, <1>15, <2>1, WriteStep
              DEF CommandShape, Owns, MovesTo, SamePlan, SameFiles, SameGoMod, SameOk
<1>16. ASSUME NEW p \in Processes, WriteMigration(p, "down", "pins") PROVE CommandShape'
  <2>1. "pins" \in Places
    BY DEF Places
  <2>. QED BY <1>1, <1>16, <2>1, WriteStep
              DEF CommandShape, Owns, MovesTo, SamePlan, SameFiles, SameGoMod, SameOk
<1>17. ASSUME NEW p \in Processes, ApplyPins(p) \/ PinsWritten(p) PROVE CommandShape'
  <2>1. cmd[p].kind \in {"none", "api", "plain"} /\ cmd[p].ok \in BOOLEAN
    BY <1>1 DEF GenerationTypeOK, CommandType
  <2>. QED BY <1>1, <1>17, <2>1, PinsStep
              DEF CommandShape, Owns, MovesTo, SamePlan, SameFiles, SameGoMod, SameOk
<1>18. ASSUME NEW p \in Processes, RegisterManifest(p) PROVE CommandShape'
  BY <1>1, <1>18, RegisterManifestStep DEF CommandShape, Owns, MovesTo, SamePlan, SameFiles,
     SameGoMod, SameOk
<1>19. ASSUME NEW p \in Processes, RegisterModule(p) PROVE CommandShape'
  BY <1>1, <1>19, RegisterModuleStep DEF CommandShape, Owns, MovesTo, SamePlan, SameFiles,
     SameGoMod, SameOk
<1>20. ASSUME NEW p \in Processes, RestoreManifest(p) PROVE CommandShape'
  BY <1>1, <1>20, RestoreManifestStep DEF CommandShape, Owns, MovesTo, SamePlan, SameFiles,
     SameGoMod, SameOk
<1>21. ASSUME NEW p \in Processes, UpgradeManifest(p) PROVE CommandShape'
  BY <1>1, <1>21, UpgradeStep DEF CommandShape, Owns, MovesTo, SamePlan, SameFiles, SameGoMod,
     SameOk
<1>22. ASSUME NEW p \in Processes, ManifestUpgraded(p) PROVE CommandShape'
  BY <1>1, <1>22, UpgradedStep DEF CommandShape, Owns, MovesTo, SamePlan, SameFiles, SameGoMod,
     SameOk
<1>23. ASSUME NEW p \in Processes, RemoveMigrations(p) \/ RemoveMigrationsFails(p)
      PROVE  CommandShape'
  BY <1>1, <1>23, RemoveMigrationsStep DEF CommandShape, Owns, MovesTo, SamePlan, SameFiles,
     SameGoMod, SameOk
<1>24. ASSUME NEW p \in Processes, RestoreGoMod(p) \/ GoModRestored(p) \/ RestoreGoModFails(p)
      PROVE  CommandShape'
  BY <1>1, <1>24, RestoreGoModStep DEF CommandShape, Owns, MovesTo, SamePlan, SameFiles,
     SameGoMod, SameOk
<1>25. ASSUME NEW p \in Processes, RemovePackage(p) \/ RemovePackageFails(p)
      PROVE  CommandShape'
  <2>1. packages \in [Names -> {"absent", "api", "plain", "partial"}]
    BY <1>1 DEF GenerationTypeOK
  <2>2. Owns(p) /\ \A q \in Processes : Owns(q) /\ cmd[q].name = cmd[p].name => q = p
    BY <1>1, <1>25, RemovePackageStep DEF CommandShape, Owns
  <2>. QED BY <1>1, <1>25, <2>1, <2>2, RemovePackageStep
              DEF CommandShape, Owns, MovesTo, SamePlan, SameFiles, SameGoMod, SameOk
<1>26. ASSUME NEW p \in Processes, Release(p) PROVE CommandShape'
  BY <1>1, <1>26, GenerationAssumption, ReleaseStep
     DEF CommandShape, Owns, Quiets, Quiet, NoPlan
<1>27. ASSUME NEW p \in Processes, Fails(p) PROVE CommandShape'
  BY <1>1, <1>27, FailsStep DEF CommandShape, Owns, AfterError, MovesTo, SamePlan, SameFiles,
     SameGoMod, SameOk
<1>28. ASSUME NEW p \in Processes, Dies(p) PROVE CommandShape'
  BY <1>1, <1>28, GenerationAssumption, DiesStep DEF CommandShape, Owns, Quiets, Quiet, NoPlan
<1>29. ASSUME NEW p \in Processes, CommandBegins(p) PROVE CommandShape'
  BY <1>1, <1>29, GenerationAssumption, StartsStep DEF CommandShape, Owns, NoPlan
<1>30. CASE OperatorUnlocks
  BY <1>1, <1>30, GenerationAssumption DEF OperatorUnlocks, files, bounds, CommandShape, Owns
<1>31. ASSUME NEW p \in Processes, RestoreManifestFails(p) PROVE CommandShape'
  BY <1>1, <1>31, RestoreManifestFailsStep
     DEF CommandShape, Owns, MovesTo, SamePlan, SameFiles, SameGoMod, SameOk
<1>. QED BY <1>11, <1>12, <1>13, <1>14, <1>15, <1>16, <1>17, <1>18, <1>19, <1>20, <1>21,
            <1>22, <1>23, <1>24, <1>25, <1>26, <1>27, <1>28, <1>29, <1>30, <1>31,
            GenerationSteps

\* What the parts of the invariant say of two commands, and of the packages.
LEMMA OneApi ==
  ASSUME CommandShape, NEW p \in Processes, NEW q \in Processes, cmd[p].kind = "api",
         cmd[q].kind = "api"
  PROVE  p = q
<1>1. lock = p /\ lock = q
  BY DEF CommandShape
<1>. QED BY <1>1

\* A package is published where there was none.
LEMMA PublishedAside ==
  ASSUME GenerationIInv, NEW p \in Processes, Publish(p), NEW n \in Names, packages[n] = "api"
  PROVE  packages'[n] = "api"
<1>1. packages \in [Names -> {"absent", "api", "plain", "partial"}]
  BY DEF GenerationIInv, GenerationTypeOK
<1>. QED BY <1>1 DEF Publish

\* A rollback removes a package that nothing lists, or whose entry is stranded.
LEMMA RemovedAside ==
  ASSUME GenerationIInv, NEW p \in Processes, RemovePackage(p) \/ RemovePackageFails(p)
  PROVE  /\ \A n \in Names : n # cmd[p].name => packages'[n] = packages[n]
         /\ cmd[p].name \notin manifest.apis \ stranded /\ cmd[p].name \notin generated
<1>1. packages \in [Names -> {"absent", "api", "plain", "partial"}] /\ CommandShape /\ ManifestOnDisk
  BY DEF GenerationIInv, GenerationTypeOK
<1>2. cmd[p].pc = "undoPackage" /\ \E left : packages' = [packages EXCEPT ![cmd[p].name] = left]
  BY DEF RemovePackage, RemovePackageFails
<1>. QED BY <1>1, <1>2 DEF CommandShape, Owns, ManifestOnDisk, SeesManifest, Undoing

\* Manifest, registry and reports list names.
LEMMA FilesListed ==
  ASSUME GenerationIInv
  PROVE  registry \subseteq Names /\ manifest.apis \subseteq Names /\ generated \subseteq Names
BY DEF GenerationIInv, GenerationTypeOK, Manifests

\* Before there is a project no command runs.
LEMMA NoProject ==
  ASSUME GenerationIInv, ~project
  PROVE  /\ \A q \in Processes : cmd[q].kind = "none" /\ cmd[q].pc \in {"idle", "new"} /\ ~cmd[q].ok
         /\ generated = {}
<1>1. CommandShape
  BY DEF GenerationIInv
<1>. QED BY <1>1 DEF CommandShape

\* modules_gen.go keeps to the packages on disk.
LEMMA RegistryStep ==
  ASSUME GenerationIInv, GenerationNext
  PROVE  RegistryCompiles'
<1>1. GenerationTypeOK /\ CommandShape /\ ManifestOnDisk /\ VersionsAreFresh /\ RegistryCompiles
      /\ GeneratedIsKept /\ MigrationsStayApart
  BY DEF GenerationIInv
<1>11. ASSUME NEW p \in Processes, NewStarts(p) PROVE RegistryCompiles'
  BY <1>1, <1>11, NewStartsStep DEF RegistryCompiles, MovesTo, SamePlan, SameFiles, SameGoMod,
     SameOk
<1>12. ASSUME NEW p \in Processes, NewPublishes(p) PROVE RegistryCompiles'
  BY <1>1, <1>12, NewPublishesStep DEF RegistryCompiles, Quiets, Quiet, NoPlan
<1>13. ASSUME NEW p \in Processes, Plans(p) PROVE RegistryCompiles'
  BY <1>1, <1>13, PlansStep DEF RegistryCompiles, MovesTo, SamePlan, SameFiles, SameGoMod, SameOk
<1>14. ASSUME NEW p \in Processes, Publish(p) PROVE RegistryCompiles'
  BY <1>1, <1>14, PublishStep, PublishedAside, FilesListed DEF RegistryCompiles
<1>15. ASSUME NEW p \in Processes, WriteMigration(p, "up", "down") PROVE RegistryCompiles'
  <2>1. "down" \in Places
    BY DEF Places
  <2>. QED BY <1>1, <1>15, <2>1, WriteStep
              DEF RegistryCompiles, MovesTo, SamePlan, SameFiles, SameGoMod, SameOk
<1>16. ASSUME NEW p \in Processes, WriteMigration(p, "down", "pins") PROVE RegistryCompiles'
  <2>1. "pins" \in Places
    BY DEF Places
  <2>. QED BY <1>1, <1>16, <2>1, WriteStep
              DEF RegistryCompiles, MovesTo, SamePlan, SameFiles, SameGoMod, SameOk
<1>17. ASSUME NEW p \in Processes, ApplyPins(p) \/ PinsWritten(p) PROVE RegistryCompiles'
  BY <1>1, <1>17, PinsStep DEF RegistryCompiles, MovesTo, SamePlan, SameFiles, SameGoMod, SameOk
<1>18. ASSUME NEW p \in Processes, RegisterManifest(p) PROVE RegistryCompiles'
  BY <1>1, <1>18, RegisterManifestStep DEF RegistryCompiles, MovesTo, SamePlan, SameFiles,
     SameGoMod, SameOk
<1>19. ASSUME NEW p \in Processes, RegisterModule(p) PROVE RegistryCompiles'
  <2>1. registry' = manifest.apis
    BY <1>1, <1>19, RegisterModuleStep DEF ManifestOnDisk, SeesManifest
  <2>. QED BY <1>1, <1>19, <2>1, RegisterModuleStep
              DEF ManifestOnDisk, SeesManifest, RegistryCompiles
<1>20. ASSUME NEW p \in Processes, RestoreManifest(p) PROVE RegistryCompiles'
  BY <1>1, <1>20, RestoreManifestStep DEF RegistryCompiles, MovesTo, SamePlan, SameFiles,
     SameGoMod, SameOk
<1>21. ASSUME NEW p \in Processes, UpgradeManifest(p) PROVE RegistryCompiles'
  BY <1>1, <1>21, UpgradeStep DEF RegistryCompiles, MovesTo, SamePlan, SameFiles, SameGoMod,
     SameOk
<1>22. ASSUME NEW p \in Processes, ManifestUpgraded(p) PROVE RegistryCompiles'
  BY <1>1, <1>22, UpgradedStep DEF RegistryCompiles, MovesTo, SamePlan, SameFiles, SameGoMod,
     SameOk
<1>23. ASSUME NEW p \in Processes, RemoveMigrations(p) \/ RemoveMigrationsFails(p)
      PROVE  RegistryCompiles'
  BY <1>1, <1>23, RemoveMigrationsStep DEF RegistryCompiles, MovesTo, SamePlan, SameFiles,
     SameGoMod, SameOk
<1>24. ASSUME NEW p \in Processes, RestoreGoMod(p) \/ GoModRestored(p) \/ RestoreGoModFails(p)
      PROVE  RegistryCompiles'
  BY <1>1, <1>24, RestoreGoModStep DEF RegistryCompiles, MovesTo, SamePlan, SameFiles,
     SameGoMod, SameOk
<1>25. ASSUME NEW p \in Processes, RemovePackage(p) \/ RemovePackageFails(p)
      PROVE  RegistryCompiles'
  <2>1. registry' = registry /\ registry \subseteq manifest.apis /\ stranded' = stranded
    BY <1>1, <1>25, RemovePackageStep DEF ManifestOnDisk, SeesManifest
  <2>. QED BY <1>1, <1>25, <2>1, RemovedAside, FilesListed DEF RegistryCompiles
<1>26. ASSUME NEW p \in Processes, Release(p) PROVE RegistryCompiles'
  BY <1>1, <1>26, ReleaseStep DEF RegistryCompiles, Quiets, Quiet, NoPlan
<1>27. ASSUME NEW p \in Processes, Fails(p) PROVE RegistryCompiles'
  BY <1>1, <1>27, FailsStep DEF RegistryCompiles, AfterError, MovesTo, SamePlan, SameFiles,
     SameGoMod, SameOk
<1>28. ASSUME NEW p \in Processes, Dies(p) PROVE RegistryCompiles'
  BY <1>1, <1>28, DiesStep DEF RegistryCompiles, Quiets, Quiet, NoPlan
<1>29. ASSUME NEW p \in Processes, CommandBegins(p) PROVE RegistryCompiles'
  BY <1>1, <1>29, StartsStep DEF RegistryCompiles, NoPlan
<1>30. CASE OperatorUnlocks
  BY <1>1, <1>30, GenerationAssumption DEF OperatorUnlocks, files, bounds, RegistryCompiles
<1>31. ASSUME NEW p \in Processes, RestoreManifestFails(p) PROVE RegistryCompiles'
  BY <1>1, <1>31, RestoreManifestFailsStep
     DEF RegistryCompiles, MovesTo, SamePlan, SameFiles, SameGoMod, SameOk
<1>. QED BY <1>11, <1>12, <1>13, <1>14, <1>15, <1>16, <1>17, <1>18, <1>19, <1>20, <1>21,
            <1>22, <1>23, <1>24, <1>25, <1>26, <1>27, <1>28, <1>29, <1>30, <1>31,
            GenerationSteps

\* The manifest keeps to the packages on disk, and the plan under the lock to it.
LEMMA ManifestStep ==
  ASSUME GenerationIInv, GenerationNext
  PROVE  ManifestOnDisk'
<1>1. GenerationTypeOK /\ CommandShape /\ ManifestOnDisk /\ VersionsAreFresh /\ RegistryCompiles
      /\ GeneratedIsKept /\ MigrationsStayApart
  BY DEF GenerationIInv
<1>11. ASSUME NEW p \in Processes, NewStarts(p) PROVE ManifestOnDisk'
  BY <1>1, <1>11, NewStartsStep DEF ManifestOnDisk, SeesManifest, Owns, Undoing, Managed, MovesTo, SamePlan,
     SameFiles, SameGoMod, SameOk
<1>12. ASSUME NEW p \in Processes, NewPublishes(p) PROVE ManifestOnDisk'
  <2>1. manifest \in Manifests
    BY <1>1 DEF GenerationTypeOK
  <2>2. CASE project
    BY <1>1, <1>12, <2>2, NewPublishesStep
       DEF ManifestOnDisk, SeesManifest, Owns, Undoing, Managed, Quiets, Quiet, NoPlan
  <2>3. CASE ~project
    <3>1. manifest'.apis = manifest.apis
      BY <1>1, <1>12, <2>1, <2>3, NewPublishesStep DEF Manifests
    <3>2. \A q \in Processes : cmd'[q].kind = "none" /\ cmd'[q].pc \in {"idle", "new"} /\ ~cmd'[q].ok
      BY <1>1, <1>12, <2>3, NewPublishesStep, NoProject DEF Quiets, Quiet, NoPlan
    <3>. QED BY <1>1, <1>12, <3>1, <3>2, NewPublishesStep
                DEF ManifestOnDisk, SeesManifest, Owns, Undoing
  <2>. QED BY <2>2, <2>3
<1>13. ASSUME NEW p \in Processes, Plans(p) PROVE ManifestOnDisk'
  <2>1. Plan("api", cmd[p].name).seen = IF Managed THEN <<manifest.apis, manifest.version>> ELSE <<>>
    BY DEF Plan
  <2>2. Plan("plain", cmd[p].name).seen = <<>>
    BY DEF Plan
  <2>3. <<manifest.apis, manifest.version>> # <<>>
        /\ <<manifest.apis, manifest.version>>[1] = manifest.apis
    OBVIOUS
  <2>4. cmd[p].kind \in {"api", "plain"} /\ ~cmd[p].ok
    BY <1>1, <1>13, PlansStep DEF CommandShape, GenerationTypeOK, CommandType
  <2>5. /\ cmd[p].pc = "plan" /\ SameOk(p) /\ cmd' \in [Processes -> CommandType]
        /\ UNCHANGED <<packages, manifest, registry, stranded>>
        /\ \A q \in Processes : q # p => cmd'[q] = cmd[q]
        /\ cmd'[p].name = cmd[p].name /\ cmd'[p].kind = cmd[p].kind
        /\ \/ MovesTo(p, "publish") /\ cmd'[p].plan = Plan(cmd[p].kind, cmd[p].name)
           \/ MovesTo(p, "release")
    BY <1>1, <1>13, PlansStep DEF MovesTo
  <2>6. cmd[p].kind = "api" /\ MovesTo(p, "publish") => cmd[p].name \notin manifest.apis
    <3>. SUFFICES ASSUME cmd[p].kind = "api", MovesTo(p, "publish")
                  PROVE  cmd[p].name \notin manifest.apis
      OBVIOUS
    <3>1. cmd'[p].pc = "publish" /\ cmd[p] \in CommandType /\ cmd \in [Processes -> CommandType]
      BY <1>1 DEF MovesTo, GenerationTypeOK
    <3>2. cmd' # [cmd EXCEPT ![p].pc = "release"]
      <4>1. [cmd EXCEPT ![p].pc = "release"][p] = [cmd[p] EXCEPT !.pc = "release"]
        BY <3>1
      <4>2. [cmd[p] EXCEPT !.pc = "release"].pc = "release"
        BY <3>1 DEF CommandType
      <4>. QED BY <3>1, <4>1, <4>2
    <3>. QED BY <1>13, <3>2 DEF Plans, Readable
  <2>7. SeesManifest(p)'
    BY <2>1, <2>2, <2>3, <2>4, <2>5, <2>6
       DEF SeesManifest, Owns, Undoing, Managed, MovesTo, SameOk
  <2>8. ASSUME NEW q \in Processes, q # p PROVE SeesManifest(q)'
    <3>1. cmd'[q] = cmd[q] /\ SeesManifest(q)
      BY <1>1, <2>5, <2>8 DEF ManifestOnDisk
    <3>. QED BY <2>5, <3>1 DEF SeesManifest, Owns, Managed
  <2>. QED BY <1>1, <2>5, <2>7, <2>8 DEF ManifestOnDisk
<1>14. ASSUME NEW p \in Processes, Publish(p) PROVE ManifestOnDisk'
  <2>1. \A n \in manifest.apis : packages'[n] = "api" \/ n \in stranded
    BY <1>1, <1>14, PublishedAside, FilesListed DEF ManifestOnDisk, SeesManifest
  <2>2. packages[cmd[p].name] = "absent" => cmd[p].name \notin manifest.apis \ stranded
    BY <1>1 DEF ManifestOnDisk
  <2>3. ~cmd[p].ok
    BY <1>1, <1>14, PublishStep DEF CommandShape
  <2>. QED BY <1>1, <1>14, <2>1, <2>2, <2>3, PublishStep
              DEF ManifestOnDisk, SeesManifest, Owns, Undoing, Managed, MovesTo, SamePlan, SameFiles,
              SameGoMod, SameOk
<1>15. ASSUME NEW p \in Processes, WriteMigration(p, "up", "down") PROVE ManifestOnDisk'
  <2>1. "down" \in Places
    BY DEF Places
  <2>. QED BY <1>1, <1>15, <2>1, WriteStep
              DEF ManifestOnDisk, SeesManifest, Owns, Undoing, Managed, MovesTo, SamePlan, SameFiles,
              SameGoMod, SameOk
<1>16. ASSUME NEW p \in Processes, WriteMigration(p, "down", "pins") PROVE ManifestOnDisk'
  <2>1. "pins" \in Places
    BY DEF Places
  <2>. QED BY <1>1, <1>16, <2>1, WriteStep
              DEF ManifestOnDisk, SeesManifest, Owns, Undoing, Managed, MovesTo, SamePlan, SameFiles,
              SameGoMod, SameOk
<1>17. ASSUME NEW p \in Processes, ApplyPins(p) \/ PinsWritten(p) PROVE ManifestOnDisk'
  <2>1. cmd[p].pc = "pins" \/ cmd[p].pc = "pinning"
    BY <1>1, <1>17, PinsStep
  <2>2. ~cmd[p].ok
    BY <1>1, <2>1 DEF CommandShape
  <2>3. cmd[p].kind \in {"api", "plain"} /\ (cmd[p].kind = "plain" => cmd[p].plan.seen = <<>>)
    BY <1>1, <2>1 DEF CommandShape, GenerationTypeOK, CommandType
  <2>4. /\ cmd[p].kind = "api" => cmd[p].name \notin manifest.apis
        /\ cmd[p].name \notin manifest.apis \ stranded
        /\ (cmd[p].plan.seen # <<>> => cmd[p].plan.seen[1] = manifest.apis)
        /\ cmd[p].kind = "api" => (cmd[p].plan.seen # <<>> <=> Managed)
    BY <1>1, <2>1, <2>3 DEF ManifestOnDisk, SeesManifest, Owns
  <2>5. SeesManifest(p)'
    <3>1. CASE (MovesTo(p, "undoFiles") \/ MovesTo(p, "pinning")) /\ SameOk(p)
      BY <1>17, <1>1, <2>2, <2>4, <3>1, PinsStep DEF SeesManifest, Owns, Undoing, Managed, MovesTo, SameOk
    <3>2. CASE cmd[p].plan.seen = <<>> /\ MovesTo(p, "release") /\ cmd'[p].ok
      BY <1>17, <1>1, <2>4, <3>2, PinsStep DEF SeesManifest, Owns, Undoing, Managed, MovesTo
    <3>3. CASE cmd[p].plan.seen # <<>> /\ MovesTo(p, "manifest") /\ ~cmd'[p].ok
      BY <1>17, <1>1, <2>3, <2>4, <3>3, PinsStep DEF SeesManifest, Owns, Undoing, Managed, MovesTo
    <3>. QED BY <1>17, <1>1, <3>1, <3>2, <3>3, PinsStep
  <2>6. \A q \in Processes : q # p => SeesManifest(q)'
    BY <1>1, <1>17, PinsStep DEF ManifestOnDisk, SeesManifest, Owns, Undoing, Managed, MovesTo, SamePlan,
       SameFiles, SameGoMod, SameOk
  <2>. QED BY <1>1, <1>17, <2>5, <2>6, PinsStep DEF ManifestOnDisk
<1>18. ASSUME NEW p \in Processes, RegisterManifest(p) PROVE ManifestOnDisk'
  <2>1. manifest \in Manifests /\ manifest.apis = cmd[p].plan.seen[1]
    BY <1>1, <1>18, RegisterManifestStep DEF GenerationTypeOK, ManifestOnDisk, SeesManifest
  <2>2. manifest'.apis = manifest.apis \cup {cmd[p].name} /\ manifest'.state = manifest.state
    BY <1>1, <1>18, <2>1, RegisterManifestStep DEF Manifests
  <2>3. cmd[p].kind = "api" /\ packages[cmd[p].name] = "api" /\ cmd[p].name \notin manifest.apis
        /\ ~cmd[p].ok /\ cmd[p].plan.seen # <<>> /\ Managed
        /\ \A q \in Processes : Owns(q) /\ cmd[q].name = cmd[p].name => q = p
    BY <1>1, <1>18, RegisterManifestStep DEF CommandShape, ManifestOnDisk, SeesManifest, Owns
  <2>4. (\A q \in Processes : q # p => cmd[q].kind # "api") /\ stranded' = stranded
    BY <1>1, <2>3, OneApi, RegisterManifestStep, RestoreManifestStep, <1>18
  <2>5. SeesManifest(p)'
    BY <1>1, <1>18, <2>1, <2>2, <2>3, RegisterManifestStep
       DEF ManifestOnDisk, SeesManifest, Owns, Undoing, Managed, MovesTo, SamePlan, SameFiles, SameGoMod, SameOk
  <2>6. ASSUME NEW q \in Processes, q # p PROVE SeesManifest(q)'
    <3>1. cmd'[q] = cmd[q] /\ cmd[q].kind # "api" /\ SeesManifest(q)
      BY <1>1, <1>18, <2>4, <2>6, RegisterManifestStep DEF ManifestOnDisk, MovesTo
    <3>2. Owns(q) => cmd[q].name # cmd[p].name
      BY <2>3, <2>6
    <3>3. cmd[q].kind = "plain" => cmd[q].plan.seen = <<>>
      BY <1>1 DEF CommandShape
    <3>4. /\ cmd[q].pc \notin {"up", "down", "manifest", "registry", "restore", "upgrade", "upgrading"}
          /\ cmd[q].kind # "plain" => cmd[q].pc \in {"idle", "new"} /\ ~cmd[q].ok
      BY <1>1, <3>1 DEF CommandShape, GenerationTypeOK, CommandType
    <3>. QED BY <2>2, <2>4, <3>1, <3>2, <3>3, <3>4 DEF SeesManifest, Owns, Undoing, Managed
  <2>7. registry' \subseteq manifest'.apis /\ \A n \in manifest'.apis : packages'[n] = "api" \/ n \in stranded'
    BY <1>1, <1>18, <2>2, <2>3, RegisterManifestStep DEF ManifestOnDisk
  <2>. QED BY <2>5, <2>6, <2>7 DEF ManifestOnDisk
<1>19. ASSUME NEW p \in Processes, RegisterModule(p) PROVE ManifestOnDisk'
  <2>1. registry' = manifest.apis /\ cmd[p].name \in manifest.apis
    BY <1>1, <1>19, RegisterModuleStep DEF ManifestOnDisk, SeesManifest
  <2>2. cmd[p].kind = "api"
    BY <1>1, <1>19, RegisterModuleStep DEF CommandShape
  <2>3. \A q \in Processes : q # p => cmd[q].kind # "api"
    BY <1>1, <2>2, OneApi
  <2>. QED BY <1>1, <1>19, <2>1, <2>2, <2>3, RegisterModuleStep
           DEF CommandShape, ManifestOnDisk, SeesManifest, Owns, Undoing, Managed, MovesTo, SamePlan,
           SameFiles, SameGoMod, SameOk
<1>20. ASSUME NEW p \in Processes, RestoreManifest(p) PROVE ManifestOnDisk'
  <2>1. manifest \in Manifests /\ manifest.apis = cmd[p].plan.seen[1] \cup {cmd[p].name}
        /\ registry \subseteq cmd[p].plan.seen[1] /\ cmd[p].name \notin cmd[p].plan.seen[1]
    BY <1>1, <1>20, RestoreManifestStep DEF GenerationTypeOK, ManifestOnDisk, SeesManifest
  <2>2. manifest'.apis = cmd[p].plan.seen[1] /\ manifest'.state = manifest.state
    BY <1>1, <1>20, <2>1, RestoreManifestStep DEF Manifests
  <2>3. cmd[p].kind = "api" /\ ~cmd[p].ok
    BY <1>1, <1>20, RestoreManifestStep DEF CommandShape
  <2>4. (\A q \in Processes : q # p => cmd[q].kind # "api") /\ stranded' = stranded
    BY <1>1, <2>3, OneApi, RegisterManifestStep, RestoreManifestStep, <1>20
  <2>5. SeesManifest(p)'
    BY <1>1, <1>20, <2>1, <2>2, <2>3, RestoreManifestStep
       DEF SeesManifest, Owns, Undoing, MovesTo, SamePlan, SameFiles, SameGoMod, SameOk
  <2>6. ASSUME NEW q \in Processes, q # p PROVE SeesManifest(q)'
    <3>1. cmd'[q] = cmd[q] /\ cmd[q].kind # "api" /\ SeesManifest(q)
      BY <1>1, <1>20, <2>4, <2>6, RestoreManifestStep DEF ManifestOnDisk, MovesTo
    <3>2. cmd[q].kind = "plain" => cmd[q].plan.seen = <<>>
      BY <1>1 DEF CommandShape
    <3>3. /\ cmd[q].pc \notin {"up", "down", "manifest", "registry", "restore", "upgrade", "upgrading"}
          /\ cmd[q].kind # "plain" => cmd[q].pc \in {"idle", "new"} /\ ~cmd[q].ok
      BY <1>1, <3>1 DEF CommandShape, GenerationTypeOK, CommandType
    <3>. QED BY <2>1, <2>2, <2>4, <3>1, <3>2, <3>3 DEF SeesManifest, Owns, Undoing, Managed
  <2>7. registry' \subseteq manifest'.apis /\ \A n \in manifest'.apis : packages'[n] = "api" \/ n \in stranded'
    BY <1>1, <1>20, <2>1, <2>2, RestoreManifestStep DEF ManifestOnDisk
  <2>. QED BY <2>5, <2>6, <2>7 DEF ManifestOnDisk
<1>21. ASSUME NEW p \in Processes, UpgradeManifest(p) PROVE ManifestOnDisk'
  <2>1. manifest \in Manifests
    BY <1>1 DEF GenerationTypeOK
  <2>2. manifest'.apis = manifest.apis /\ manifest'.state # "absent"
    BY <1>1, <1>21, <2>1, UpgradeStep DEF Manifests
  <2>3. Managed /\ cmd[p].name \in registry
    BY <1>1, <1>21, UpgradeStep DEF ManifestOnDisk, SeesManifest
  <2>. QED BY <1>1, <1>21, <2>2, <2>3, UpgradeStep
              DEF ManifestOnDisk, SeesManifest, Owns, Undoing, Managed, MovesTo, SamePlan, SameFiles,
              SameGoMod, SameOk
<1>22. ASSUME NEW p \in Processes, ManifestUpgraded(p) PROVE ManifestOnDisk'
  <2>1. manifest \in Manifests
    BY <1>1 DEF GenerationTypeOK
  <2>2. manifest'.apis = manifest.apis /\ manifest'.state # "absent"
    BY <1>1, <1>22, <2>1, UpgradedStep DEF Manifests
  <2>3. Managed /\ cmd[p].name \in registry
    BY <1>1, <1>22, UpgradedStep DEF ManifestOnDisk, SeesManifest
  <2>. QED BY <1>1, <1>22, <2>2, <2>3, UpgradedStep
              DEF ManifestOnDisk, SeesManifest, Owns, Undoing, Managed, MovesTo, SamePlan, SameFiles,
              SameGoMod, SameOk
<1>23. ASSUME NEW p \in Processes, RemoveMigrations(p) \/ RemoveMigrationsFails(p)
      PROVE  ManifestOnDisk'
  BY <1>1, <1>23, RemoveMigrationsStep DEF ManifestOnDisk, SeesManifest, Owns, Undoing, Managed, MovesTo,
     SamePlan, SameFiles, SameGoMod, SameOk
<1>24. ASSUME NEW p \in Processes, RestoreGoMod(p) \/ GoModRestored(p) \/ RestoreGoModFails(p)
      PROVE  ManifestOnDisk'
  BY <1>1, <1>24, RestoreGoModStep DEF ManifestOnDisk, SeesManifest, Owns, Undoing, Managed, MovesTo,
     SamePlan, SameFiles, SameGoMod, SameOk
<1>25. ASSUME NEW p \in Processes, RemovePackage(p) \/ RemovePackageFails(p)
      PROVE  ManifestOnDisk'
  <2>1. \A n \in manifest.apis : packages'[n] = "api" \/ n \in stranded
    BY <1>1, <1>25, RemovedAside, FilesListed DEF ManifestOnDisk, SeesManifest
  <2>2. ~cmd[p].ok
    BY <1>1, <1>25, RemovePackageStep DEF CommandShape
  <2>. QED BY <1>1, <1>25, <2>1, <2>2, RemovePackageStep
              DEF ManifestOnDisk, SeesManifest, Owns, Undoing, Managed, MovesTo, SamePlan, SameFiles,
              SameGoMod, SameOk
<1>26. ASSUME NEW p \in Processes, Release(p) PROVE ManifestOnDisk'
  BY <1>1, <1>26, ReleaseStep DEF ManifestOnDisk, SeesManifest, Owns, Undoing, Managed, Quiets, Quiet, NoPlan
<1>27. ASSUME NEW p \in Processes, Fails(p) PROVE ManifestOnDisk'
  <2>1. /\ UNCHANGED <<packages, manifest, registry, stranded>>
        /\ MovesTo(p, AfterError(cmd[p].pc)) /\ ~cmd'[p].ok /\ SamePlan(p)
        /\ cmd[p].pc \in {"plan", "publish", "up", "down", "pins", "pinning", "manifest",
                          "registry", "upgrade", "upgrading"}
    BY <1>1, <1>27, FailsStep
  <2>2. SeesManifest(p)'
    <3>1. cmd[p].kind \in {"api", "plain"} /\ SeesManifest(p)
      BY <1>1, <2>1 DEF CommandShape, GenerationTypeOK, CommandType, ManifestOnDisk
    <3>2. CASE cmd[p].pc \in {"up", "down", "pins", "pinning", "manifest"}
      BY <2>1, <3>1, <3>2 DEF SeesManifest, AfterError, Owns, Undoing, MovesTo
    <3>3. CASE cmd[p].pc = "registry"
      <4>1. cmd[p].kind = "api"
        BY <1>1, <3>3 DEF CommandShape
      <4>. QED BY <2>1, <3>1, <3>3, <4>1
                  DEF SeesManifest, AfterError, Owns, Undoing, Managed, MovesTo, SamePlan
    <3>4. CASE cmd[p].pc \in {"plan", "publish", "upgrade", "upgrading"}
      BY <2>1, <3>4 DEF SeesManifest, AfterError, Owns, Undoing, MovesTo
    <3>. QED BY <2>1, <3>2, <3>3, <3>4
  <2>3. ASSUME NEW q \in Processes, q # p PROVE SeesManifest(q)'
    <3>1. cmd'[q] = cmd[q] /\ SeesManifest(q)
      BY <1>1, <2>1, <2>3 DEF ManifestOnDisk, MovesTo
    <3>. QED BY <2>1, <3>1 DEF SeesManifest, Owns, Managed
  <2>. QED BY <1>1, <2>1, <2>2, <2>3 DEF ManifestOnDisk
<1>28. ASSUME NEW p \in Processes, Dies(p) PROVE ManifestOnDisk'
  BY <1>1, <1>28, DiesStep DEF ManifestOnDisk, SeesManifest, Owns, Undoing, Managed, Quiets, Quiet, NoPlan
<1>29. ASSUME NEW p \in Processes, CommandBegins(p) PROVE ManifestOnDisk'
  BY <1>1, <1>29, StartsStep DEF ManifestOnDisk, SeesManifest, Owns, Undoing, Managed, NoPlan
<1>30. CASE OperatorUnlocks
  <2>1. UNCHANGED <<packages, manifest, registry, cmd, stranded>>
    BY <1>30 DEF OperatorUnlocks, files
  <2>. QED BY <1>1, <2>1 DEF ManifestOnDisk, SeesManifest, Owns, Managed
<1>31. ASSUME NEW p \in Processes, RestoreManifestFails(p) PROVE ManifestOnDisk'
  BY <1>1, <1>31, RestoreManifestFailsStep
     DEF ManifestOnDisk, SeesManifest, Owns, Undoing, Managed, MovesTo, SamePlan, SameFiles, SameGoMod, SameOk
<1>. QED BY <1>11, <1>12, <1>13, <1>14, <1>15, <1>16, <1>17, <1>18, <1>19, <1>20, <1>21,
            <1>22, <1>23, <1>24, <1>25, <1>26, <1>27, <1>28, <1>29, <1>30, <1>31,
            GenerationSteps

\* No planned version is overtaken.
LEMMA VersionsStep ==
  ASSUME GenerationIInv, GenerationNext
  PROVE  VersionsAreFresh'
<1>1. GenerationTypeOK /\ CommandShape /\ ManifestOnDisk /\ VersionsAreFresh /\ RegistryCompiles
      /\ GeneratedIsKept /\ MigrationsStayApart
  BY DEF GenerationIInv
<1>11. ASSUME NEW p \in Processes, NewStarts(p) PROVE VersionsAreFresh'
  BY <1>1, <1>11, NewStartsStep DEF VersionsAreFresh, FreshVersion, HasMigration, MovesTo,
     SamePlan, SameFiles, SameGoMod, SameOk
<1>12. ASSUME NEW p \in Processes, NewPublishes(p) PROVE VersionsAreFresh'
  BY <1>1, <1>12, NewPublishesStep DEF VersionsAreFresh, FreshVersion, HasMigration, Quiets,
     Quiet, NoPlan
<1>13. ASSUME NEW p \in Processes, Plans(p) PROVE VersionsAreFresh'
  <2>1. /\ commands \in Nat /\ \A f \in migrations : f.version \in Nat /\ f.version <= commands
        /\ \A q \in Processes : cmd[q].plan.version \in Nat /\ FreshVersion(q)
    BY <1>1, GenerationAssumption DEF GenerationTypeOK, MigrationFiles, CommandType,
       PlansType, VersionsAreFresh
  <2>2. /\ cmd[p].pc = "plan" /\ ~cmd[p].ok /\ cmd[p].kind \in {"api", "plain"}
        /\ migrations' = migrations
        /\ commands' = commands /\ SameFiles(p) /\ SameOk(p)
        /\ \A q \in Processes : q # p => cmd'[q] = cmd[q]
    BY <1>1, <1>13, PlansStep DEF CommandShape, GenerationTypeOK, CommandType, MovesTo
  <2>3. cmd[p].kind = "api" => 0 < commands /\ \A f \in migrations : f.version < commands
    BY <2>1, <2>2 DEF FreshVersion
  <2>4. CASE MovesTo(p, "publish") /\ cmd'[p].plan = Plan(cmd[p].kind, cmd[p].name)
    <3>1. cmd[p].kind = "api" /\ Database =>
            /\ cmd'[p].plan.version = NextVersion
      BY <2>4 DEF Plan
    <3>2. ~(cmd[p].kind = "api" /\ Database) => cmd'[p].plan.version = 0
      BY <2>4 DEF Plan
    <3>3. /\ NextVersion \in Nat \ {0} /\ \A f \in migrations : f.version < NextVersion
          /\ cmd[p].kind = "api" => NextVersion <= commands
      <4>1. /\ NextVersion \in Nat \ {0} /\ \A f \in migrations : f.version < NextVersion
            /\ NextVersion = 1 \/ \E f \in migrations : NextVersion = f.version + 1
        BY <1>1, VersionFound
      <4>. QED BY <2>1, <2>3, <4>1
    <3>4. cmd'[p].pc = "publish" /\ cmd'[p].kind = cmd[p].kind /\ cmd'[p].name = cmd[p].name
          /\ ~cmd'[p].ok
      BY <2>2, <2>4 DEF MovesTo, SameOk
    <3>5. (\A f \in cmd[p].written : f.name = cmd[p].name)'
      BY <2>1, <2>2, <3>4 DEF FreshVersion, SameFiles
    <3>. HIDE DEF NextVersion
    <3>6. FreshVersion(p)'
      BY <2>1, <2>2, <3>1, <3>2, <3>3, <3>4, <3>5, GenerationAssumption DEF FreshVersion
    <3>. QED BY <2>1, <2>2, <3>6 DEF VersionsAreFresh, FreshVersion, HasMigration
  <2>5. CASE MovesTo(p, "release")
    BY <2>1, <2>2, <2>5 DEF VersionsAreFresh, FreshVersion, HasMigration, MovesTo, SameFiles,
       SameOk
  <2>. QED BY <1>1, <1>13, <2>4, <2>5, PlansStep
<1>14. ASSUME NEW p \in Processes, Publish(p) PROVE VersionsAreFresh'
  BY <1>1, <1>14, PublishStep DEF VersionsAreFresh, FreshVersion, HasMigration, MovesTo,
     SamePlan, SameFiles, SameGoMod, SameOk
<1>15. ASSUME NEW p \in Processes, WriteMigration(p, "up", "down") PROVE VersionsAreFresh'
  <2>1. /\ commands \in Nat /\ \A f \in migrations : f.version \in Nat /\ f.version <= commands
        /\ \A q \in Processes : cmd[q].plan.version \in Nat /\ FreshVersion(q)
    BY <1>1, GenerationAssumption DEF GenerationTypeOK, MigrationFiles, CommandType,
       PlansType, VersionsAreFresh
  <2>2. /\ cmd[p].pc = "up" /\ cmd[p].kind = "api" /\ ~cmd[p].ok /\ cmd[p].plan.version # 0
        /\ cmd[p].plan.version <= commands
        /\ \A f \in migrations : f.version < cmd[p].plan.version
    BY <1>1, <1>15 DEF WriteMigration, CommandShape, VersionsAreFresh, FreshVersion
  <2>3. "down" \in Places
    BY DEF Places
  <2>4. PICK g \in MigrationFiles : /\ g.version = cmd[p].plan.version /\ g.name = cmd[p].name
                                    /\ g.direction = "up" /\ migrations' = migrations \cup {g}
                                    /\ cmd'[p].written = cmd[p].written \cup {g}
    BY <1>1, <1>15, <2>3, WriteStep
  <2>5. MovesTo(p, "down") /\ SamePlan(p) /\ SameOk(p) /\ commands' = commands
    BY <1>1, <1>15, <2>3, WriteStep
  <2>6. FreshVersion(p)'
    BY <2>1, <2>2, <2>4, <2>5 DEF FreshVersion, MovesTo, SamePlan, SameFiles, SameGoMod, SameOk
  <2>7. ASSUME NEW q \in Processes, q # p PROVE FreshVersion(q)'
    <3>1. cmd[q].kind # "api" /\ cmd'[q] = cmd[q] /\ FreshVersion(q)
      BY <1>1, <2>1, <2>2, <2>5, <2>7, OneApi DEF MovesTo
    <3>2. cmd[q].pc \notin {"up", "down"} /\ (cmd[q].pc = "publish" => cmd[q].plan.version = 0)
      BY <1>1, <3>1 DEF CommandShape, GenerationTypeOK, CommandType
    <3>. QED BY <2>5, <3>1, <3>2 DEF FreshVersion
  <2>8. \A f \in migrations' : f.version <= commands'
    BY <2>1, <2>2, <2>4, <2>5
  <2>. QED BY <2>6, <2>7, <2>8 DEF VersionsAreFresh
<1>16. ASSUME NEW p \in Processes, WriteMigration(p, "down", "pins") PROVE VersionsAreFresh'
  <2>1. /\ commands \in Nat /\ \A f \in migrations : f.version \in Nat /\ f.version <= commands
        /\ \A q \in Processes : cmd[q].plan.version \in Nat /\ FreshVersion(q)
    BY <1>1, GenerationAssumption DEF GenerationTypeOK, MigrationFiles, CommandType,
       PlansType, VersionsAreFresh
  <2>2. /\ cmd[p].pc = "down" /\ cmd[p].kind = "api" /\ ~cmd[p].ok
        /\ cmd[p].plan.version <= commands
        /\ \E f \in migrations : f.name = cmd[p].name /\ f.direction = "up"
    BY <1>1, <1>16 DEF WriteMigration, CommandShape, VersionsAreFresh, FreshVersion
  <2>3. "pins" \in Places
    BY DEF Places
  <2>4. PICK g \in MigrationFiles : /\ g.version = cmd[p].plan.version /\ g.name = cmd[p].name
                                    /\ g.direction = "down" /\ migrations' = migrations \cup {g}
                                    /\ cmd'[p].written = cmd[p].written \cup {g}
    BY <1>1, <1>16, <2>3, WriteStep
  <2>5. MovesTo(p, "pins") /\ SamePlan(p) /\ SameOk(p) /\ commands' = commands
    BY <1>1, <1>16, <2>3, WriteStep
  <2>6. FreshVersion(p)'
    <3>1. HasMigration(cmd[p].name)'
      BY <2>2, <2>4, <2>5 DEF HasMigration, MovesTo
    <3>2. (\A f \in cmd[p].written : f.name = cmd[p].name)'
      BY <2>1, <2>4, <2>5 DEF FreshVersion, MovesTo
    <3>3. cmd'[p].pc = "pins" /\ cmd'[p].name = cmd[p].name
      BY <2>5 DEF MovesTo
    <3>. QED BY <3>1, <3>2, <3>3 DEF FreshVersion
  <2>7. ASSUME NEW q \in Processes, q # p PROVE FreshVersion(q)'
    <3>1. cmd[q].kind # "api" /\ cmd'[q] = cmd[q] /\ FreshVersion(q)
      BY <1>1, <2>1, <2>2, <2>5, <2>7, OneApi DEF MovesTo
    <3>2. cmd[q].pc \notin {"up", "down"} /\ (cmd[q].pc = "publish" => cmd[q].plan.version = 0)
      BY <1>1, <3>1 DEF CommandShape, GenerationTypeOK, CommandType
    <3>. QED BY <2>5, <3>1, <3>2 DEF FreshVersion
  <2>8. \A f \in migrations' : f.version <= commands'
    BY <2>1, <2>2, <2>4, <2>5
  <2>. QED BY <2>6, <2>7, <2>8 DEF VersionsAreFresh
<1>17. ASSUME NEW p \in Processes, ApplyPins(p) \/ PinsWritten(p) PROVE VersionsAreFresh'
  BY <1>1, <1>17, PinsStep DEF VersionsAreFresh, FreshVersion, HasMigration, MovesTo, SamePlan,
     SameFiles, SameGoMod, SameOk
<1>18. ASSUME NEW p \in Processes, RegisterManifest(p) PROVE VersionsAreFresh'
  BY <1>1, <1>18, RegisterManifestStep DEF VersionsAreFresh, FreshVersion, HasMigration,
     MovesTo, SamePlan, SameFiles, SameGoMod, SameOk
<1>19. ASSUME NEW p \in Processes, RegisterModule(p) PROVE VersionsAreFresh'
  BY <1>1, <1>19, RegisterModuleStep DEF VersionsAreFresh, FreshVersion, HasMigration, MovesTo,
     SamePlan, SameFiles, SameGoMod, SameOk
<1>20. ASSUME NEW p \in Processes, RestoreManifest(p) PROVE VersionsAreFresh'
  BY <1>1, <1>20, RestoreManifestStep DEF VersionsAreFresh, FreshVersion, HasMigration,
     MovesTo, SamePlan, SameFiles, SameGoMod, SameOk
<1>21. ASSUME NEW p \in Processes, UpgradeManifest(p) PROVE VersionsAreFresh'
  BY <1>1, <1>21, UpgradeStep DEF VersionsAreFresh, FreshVersion, HasMigration, MovesTo,
     SamePlan, SameFiles, SameGoMod, SameOk
<1>22. ASSUME NEW p \in Processes, ManifestUpgraded(p) PROVE VersionsAreFresh'
  BY <1>1, <1>22, UpgradedStep DEF VersionsAreFresh, FreshVersion, HasMigration, MovesTo,
     SamePlan, SameFiles, SameGoMod, SameOk
<1>23. ASSUME NEW p \in Processes, RemoveMigrations(p) \/ RemoveMigrationsFails(p)
      PROVE  VersionsAreFresh'
  <2>1. /\ commands \in Nat /\ \A f \in migrations : f.version \in Nat /\ f.version <= commands
        /\ \A q \in Processes : cmd[q].plan.version \in Nat /\ FreshVersion(q)
    BY <1>1, GenerationAssumption DEF GenerationTypeOK, MigrationFiles, CommandType,
       PlansType, VersionsAreFresh
  <2>2. /\ cmd[p].pc = "undoFiles" /\ ~cmd[p].ok
        /\ \E removed \in SUBSET cmd[p].written : migrations' = migrations \ removed
        /\ \A q \in Processes : Owns(q) /\ cmd[q].name = cmd[p].name => q = p
    BY <1>1, <1>23, RemoveMigrationsStep DEF CommandShape, Owns
  <2>3. MovesTo(p, "undoGoMod") /\ SameFiles(p) /\ SameOk(p) /\ commands' = commands
    BY <1>1, <1>23, RemoveMigrationsStep
  <2>4. FreshVersion(p)'
    BY <2>1, <2>2, <2>3 DEF FreshVersion, MovesTo, SamePlan, SameFiles, SameGoMod, SameOk
  <2>5. ASSUME NEW q \in Processes, q # p PROVE FreshVersion(q)'
    <3>1. cmd'[q] = cmd[q] /\ FreshVersion(q)
      BY <2>1, <2>3, <2>5 DEF MovesTo
    <3>2. Owns(q) => \A f \in migrations : f.name = cmd[q].name => f \in migrations'
      BY <2>1, <2>2, <2>5 DEF FreshVersion
    <3>3. Owns(q) /\ HasMigration(cmd[q].name) => HasMigration(cmd[q].name)'
      BY <3>1, <3>2 DEF HasMigration
    <3>4. \/ cmd[q].pc = "down" \/ cmd[q].ok
          \/ cmd[q].pc \in {"pins", "pinning", "manifest", "registry", "upgrade", "upgrading"}
          => Owns(q)
      BY DEF Owns
    <3>5. migrations' \subseteq migrations
      BY <2>2
    <3>. QED BY <2>3, <3>1, <3>2, <3>3, <3>4, <3>5 DEF FreshVersion
  <2>6. \A f \in migrations' : f.version <= commands'
    BY <2>1, <2>2, <2>3
  <2>. QED BY <2>4, <2>5, <2>6 DEF VersionsAreFresh
<1>24. ASSUME NEW p \in Processes, RestoreGoMod(p) \/ GoModRestored(p) \/ RestoreGoModFails(p)
      PROVE  VersionsAreFresh'
  BY <1>1, <1>24, RestoreGoModStep DEF VersionsAreFresh, FreshVersion, HasMigration, MovesTo,
     SamePlan, SameFiles, SameGoMod, SameOk
<1>25. ASSUME NEW p \in Processes, RemovePackage(p) \/ RemovePackageFails(p)
      PROVE  VersionsAreFresh'
  BY <1>1, <1>25, RemovePackageStep DEF VersionsAreFresh, FreshVersion, HasMigration, MovesTo,
     SamePlan, SameFiles, SameGoMod, SameOk
<1>26. ASSUME NEW p \in Processes, Release(p) PROVE VersionsAreFresh'
  BY <1>1, <1>26, ReleaseStep DEF VersionsAreFresh, FreshVersion, HasMigration, Quiets,
     Quiet, NoPlan
<1>27. ASSUME NEW p \in Processes, Fails(p) PROVE VersionsAreFresh'
  BY <1>1, <1>27, FailsStep DEF VersionsAreFresh, FreshVersion, HasMigration, AfterError,
     MovesTo, SamePlan, SameFiles, SameGoMod, SameOk
<1>28. ASSUME NEW p \in Processes, Dies(p) PROVE VersionsAreFresh'
  BY <1>1, <1>28, DiesStep DEF VersionsAreFresh, FreshVersion, HasMigration, Quiets, Quiet,
     NoPlan
<1>29. ASSUME NEW p \in Processes, CommandBegins(p) PROVE VersionsAreFresh'
  <2>1. /\ commands \in Nat /\ \A f \in migrations : f.version \in Nat /\ f.version <= commands
        /\ \A q \in Processes : cmd[q].plan.version \in Nat /\ FreshVersion(q)
    BY <1>1, GenerationAssumption DEF GenerationTypeOK, MigrationFiles, CommandType,
       PlansType, VersionsAreFresh
  <2>2. ~cmd[p].ok /\ \A q \in Processes : cmd[q].kind = "api" => lock # "free"
    BY <1>1, <1>29, StartsStep, GenerationAssumption DEF CommandShape
  <2>3. FreshVersion(p)'
    BY <1>1, <1>29, <2>1, StartsStep DEF FreshVersion, NoPlan
  <2>4. ASSUME NEW q \in Processes, q # p PROVE FreshVersion(q)'
    <3>1. cmd'[q] = cmd[q] /\ migrations' = migrations /\ commands' = commands + 1
      BY <1>1, <1>29, <2>4, StartsStep
    <3>. QED BY <2>1, <3>1 DEF FreshVersion, HasMigration
  <2>5. \A f \in migrations' : f.version <= commands'
    BY <1>1, <1>29, <2>1, StartsStep
  <2>. QED BY <2>3, <2>4, <2>5 DEF VersionsAreFresh
<1>30. CASE OperatorUnlocks
  BY <1>1, <1>30, GenerationAssumption DEF OperatorUnlocks, files, bounds, VersionsAreFresh,
     FreshVersion, HasMigration
<1>31. ASSUME NEW p \in Processes, RestoreManifestFails(p) PROVE VersionsAreFresh'
  BY <1>1, <1>31, RestoreManifestFailsStep
     DEF VersionsAreFresh, FreshVersion, HasMigration, MovesTo, SamePlan, SameFiles, SameGoMod, SameOk
<1>. QED BY <1>11, <1>12, <1>13, <1>14, <1>15, <1>16, <1>17, <1>18, <1>19, <1>20, <1>21,
            <1>22, <1>23, <1>24, <1>25, <1>26, <1>27, <1>28, <1>29, <1>30, <1>31,
            GenerationSteps

\* What was reported as generated stays.
LEMMA GeneratedStep ==
  ASSUME GenerationIInv, GenerationNext
  PROVE  GeneratedIsKept'
<1>1. GenerationTypeOK /\ CommandShape /\ ManifestOnDisk /\ VersionsAreFresh /\ RegistryCompiles
      /\ GeneratedIsKept /\ MigrationsStayApart
  BY DEF GenerationIInv
<1>11. ASSUME NEW p \in Processes, NewStarts(p) PROVE GeneratedIsKept'
  BY <1>1, <1>11, NewStartsStep DEF GeneratedIsKept, Managed, MovesTo, SamePlan, SameFiles,
     SameGoMod, SameOk
<1>12. ASSUME NEW p \in Processes, NewPublishes(p) PROVE GeneratedIsKept'
  <2>1. CASE project
    BY <1>1, <1>12, <2>1, NewPublishesStep DEF GeneratedIsKept, Managed
  <2>2. CASE ~project
    BY <1>1, <1>12, <2>2, NewPublishesStep, NoProject DEF GeneratedIsKept
  <2>. QED BY <2>1, <2>2
<1>13. ASSUME NEW p \in Processes, Plans(p) PROVE GeneratedIsKept'
  BY <1>1, <1>13, PlansStep DEF GeneratedIsKept, Managed, MovesTo, SamePlan, SameFiles,
     SameGoMod, SameOk
<1>14. ASSUME NEW p \in Processes, Publish(p) PROVE GeneratedIsKept'
  BY <1>1, <1>14, PublishStep, PublishedAside, FilesListed DEF GeneratedIsKept, Managed
<1>15. ASSUME NEW p \in Processes, WriteMigration(p, "up", "down") PROVE GeneratedIsKept'
  <2>1. "down" \in Places
    BY DEF Places
  <2>. QED BY <1>1, <1>15, <2>1, WriteStep
              DEF GeneratedIsKept, Managed, MovesTo, SamePlan, SameFiles, SameGoMod, SameOk
<1>16. ASSUME NEW p \in Processes, WriteMigration(p, "down", "pins") PROVE GeneratedIsKept'
  <2>1. "pins" \in Places
    BY DEF Places
  <2>. QED BY <1>1, <1>16, <2>1, WriteStep
              DEF GeneratedIsKept, Managed, MovesTo, SamePlan, SameFiles, SameGoMod, SameOk
<1>17. ASSUME NEW p \in Processes, ApplyPins(p) \/ PinsWritten(p) PROVE GeneratedIsKept'
  BY <1>1, <1>17, PinsStep DEF GeneratedIsKept, Managed, MovesTo, SamePlan, SameFiles,
     SameGoMod, SameOk
<1>18. ASSUME NEW p \in Processes, RegisterManifest(p) PROVE GeneratedIsKept'
  <2>1. manifest \in Manifests /\ manifest.apis = cmd[p].plan.seen[1]
    BY <1>1, <1>18, RegisterManifestStep DEF GenerationTypeOK, ManifestOnDisk, SeesManifest
  <2>2. manifest'.apis = manifest.apis \cup {cmd[p].name} /\ manifest'.state = manifest.state
    BY <1>1, <1>18, <2>1, RegisterManifestStep DEF Manifests
  <2>. QED BY <1>1, <1>18, <2>2, RegisterManifestStep DEF GeneratedIsKept, Managed
<1>19. ASSUME NEW p \in Processes, RegisterModule(p) PROVE GeneratedIsKept'
  <2>1. registry' = manifest.apis /\ registry \subseteq manifest.apis
    BY <1>1, <1>19, RegisterModuleStep DEF ManifestOnDisk, SeesManifest
  <2>. QED BY <1>1, <1>19, <2>1, RegisterModuleStep DEF GeneratedIsKept, Managed
<1>20. ASSUME NEW p \in Processes, RestoreManifest(p) PROVE GeneratedIsKept'
  <2>1. manifest \in Manifests /\ manifest.apis = cmd[p].plan.seen[1] \cup {cmd[p].name}
    BY <1>1, <1>20, RestoreManifestStep DEF GenerationTypeOK, ManifestOnDisk, SeesManifest
  <2>2. manifest'.apis = cmd[p].plan.seen[1] /\ manifest'.state = manifest.state
    BY <1>1, <1>20, <2>1, RestoreManifestStep DEF Manifests
  <2>3. cmd[p].name \notin generated
    BY <1>1, <1>20, RestoreManifestStep DEF CommandShape, Owns
  <2>. QED BY <1>1, <1>20, <2>1, <2>2, <2>3, RestoreManifestStep DEF GeneratedIsKept, Managed
<1>21. ASSUME NEW p \in Processes, UpgradeManifest(p) PROVE GeneratedIsKept'
  <2>1. manifest \in Manifests /\ Managed /\ registry \subseteq manifest.apis
    BY <1>1, <1>21, UpgradeStep DEF GenerationTypeOK, ManifestOnDisk, SeesManifest
  <2>2. manifest'.apis = manifest.apis
    BY <1>1, <1>21, <2>1, UpgradeStep DEF Manifests
  <2>. QED BY <1>1, <1>21, <2>1, <2>2, UpgradeStep DEF GeneratedIsKept, Managed
<1>22. ASSUME NEW p \in Processes, ManifestUpgraded(p) PROVE GeneratedIsKept'
  <2>1. manifest \in Manifests /\ Managed /\ registry \subseteq manifest.apis
    BY <1>1, <1>22, UpgradedStep DEF GenerationTypeOK, ManifestOnDisk, SeesManifest
  <2>2. manifest'.apis = manifest.apis
    BY <1>1, <1>22, <2>1, UpgradedStep DEF Manifests
  <2>. QED BY <1>1, <1>22, <2>1, <2>2, UpgradedStep DEF GeneratedIsKept, Managed
<1>23. ASSUME NEW p \in Processes, RemoveMigrations(p) \/ RemoveMigrationsFails(p)
      PROVE  GeneratedIsKept'
  BY <1>1, <1>23, RemoveMigrationsStep DEF GeneratedIsKept, Managed, MovesTo, SamePlan,
     SameFiles, SameGoMod, SameOk
<1>24. ASSUME NEW p \in Processes, RestoreGoMod(p) \/ GoModRestored(p) \/ RestoreGoModFails(p)
      PROVE  GeneratedIsKept'
  BY <1>1, <1>24, RestoreGoModStep DEF GeneratedIsKept, Managed, MovesTo, SamePlan, SameFiles,
     SameGoMod, SameOk
<1>25. ASSUME NEW p \in Processes, RemovePackage(p) \/ RemovePackageFails(p)
      PROVE  GeneratedIsKept'
  BY <1>1, <1>25, RemovePackageStep, RemovedAside, FilesListed DEF GeneratedIsKept, Managed
<1>26. ASSUME NEW p \in Processes, Release(p) PROVE GeneratedIsKept'
  <2>1. cmd[p].ok /\ cmd[p].kind = "api" =>
          packages[cmd[p].name] = "api" /\ (Managed => cmd[p].name \in registry)
    BY <1>1, <1>26, ReleaseStep DEF CommandShape, ManifestOnDisk, SeesManifest, Owns
  <2>2. registry \subseteq manifest.apis
    BY <1>1 DEF ManifestOnDisk, SeesManifest
  <2>. QED BY <1>1, <1>26, <2>1, <2>2, ReleaseStep DEF GeneratedIsKept, Managed
<1>27. ASSUME NEW p \in Processes, Fails(p) PROVE GeneratedIsKept'
  BY <1>1, <1>27, FailsStep DEF GeneratedIsKept, Managed, AfterError, MovesTo, SamePlan,
     SameFiles, SameGoMod, SameOk
<1>28. ASSUME NEW p \in Processes, Dies(p) PROVE GeneratedIsKept'
  BY <1>1, <1>28, DiesStep DEF GeneratedIsKept, Managed, Quiets, Quiet, NoPlan
<1>29. ASSUME NEW p \in Processes, CommandBegins(p) PROVE GeneratedIsKept'
  BY <1>1, <1>29, StartsStep DEF GeneratedIsKept, Managed, NoPlan
<1>30. CASE OperatorUnlocks
  BY <1>1, <1>30, GenerationAssumption DEF OperatorUnlocks, files, bounds, GeneratedIsKept,
     Managed
<1>31. ASSUME NEW p \in Processes, RestoreManifestFails(p) PROVE GeneratedIsKept'
  BY <1>1, <1>31, RestoreManifestFailsStep
     DEF GeneratedIsKept, Managed, MovesTo, SamePlan, SameFiles, SameGoMod, SameOk
<1>. QED BY <1>11, <1>12, <1>13, <1>14, <1>15, <1>16, <1>17, <1>18, <1>19, <1>20, <1>21,
            <1>22, <1>23, <1>24, <1>25, <1>26, <1>27, <1>28, <1>29, <1>30, <1>31,
            GenerationSteps

\* Migrations keep apart, and both directions stay.
LEMMA MigrationsStep ==
  ASSUME GenerationIInv, GenerationNext
  PROVE  MigrationsStayApart'
<1>1. GenerationTypeOK /\ CommandShape /\ ManifestOnDisk /\ VersionsAreFresh /\ RegistryCompiles
      /\ GeneratedIsKept /\ MigrationsStayApart
  BY DEF GenerationIInv
<1>11. ASSUME NEW p \in Processes, NewStarts(p) PROVE MigrationsStayApart'
  BY <1>1, <1>11, NewStartsStep DEF MigrationsStayApart, HasMigration, MovesTo, SamePlan,
     SameFiles, SameGoMod, SameOk
<1>12. ASSUME NEW p \in Processes, NewPublishes(p) PROVE MigrationsStayApart'
  BY <1>1, <1>12, NewPublishesStep DEF MigrationsStayApart, HasMigration, Quiets, Quiet, NoPlan
<1>13. ASSUME NEW p \in Processes, Plans(p) PROVE MigrationsStayApart'
  BY <1>1, <1>13, PlansStep DEF MigrationsStayApart, HasMigration, MovesTo, SamePlan,
     SameFiles, SameGoMod, SameOk
<1>14. ASSUME NEW p \in Processes, Publish(p) PROVE MigrationsStayApart'
  BY <1>1, <1>14, PublishStep DEF MigrationsStayApart, HasMigration, MovesTo, SamePlan,
     SameFiles, SameGoMod, SameOk
<1>15. ASSUME NEW p \in Processes, WriteMigration(p, "up", "down") PROVE MigrationsStayApart'
  <2>1. /\ commands \in Nat /\ \A f \in migrations : f.version \in Nat /\ f.version <= commands
        /\ \A q \in Processes : cmd[q].plan.version \in Nat /\ FreshVersion(q)
    BY <1>1, GenerationAssumption DEF GenerationTypeOK, MigrationFiles, CommandType,
       PlansType, VersionsAreFresh
  <2>2. "down" \in Places
    BY DEF Places
  <2>3. PICK g \in MigrationFiles : /\ g.version = cmd[p].plan.version /\ g.name = cmd[p].name
                                    /\ migrations' = migrations \cup {g}
    BY <1>1, <1>15, <2>2, WriteStep
  <2>4. generated' = generated
    BY <1>1, <1>15, <2>2, WriteStep
  <2>5. \A f \in migrations : f.version = g.version => f.name = g.name
    <3>1. cmd[p].pc = "up" /\ cmd[p].plan.version # 0
      BY <1>1, <1>15 DEF WriteMigration, VersionsAreFresh, FreshVersion
    <3>2. \A f \in migrations : f.version < cmd[p].plan.version \/ f.name = cmd[p].name
      BY <2>1, <3>1 DEF FreshVersion
    <3>. QED BY <2>1, <2>3, <3>2
  <2>. QED BY <1>1, <2>3, <2>4, <2>5 DEF MigrationsStayApart, HasMigration
<1>16. ASSUME NEW p \in Processes, WriteMigration(p, "down", "pins") PROVE MigrationsStayApart'
  <2>1. /\ commands \in Nat /\ \A f \in migrations : f.version \in Nat /\ f.version <= commands
        /\ \A q \in Processes : cmd[q].plan.version \in Nat /\ FreshVersion(q)
    BY <1>1, GenerationAssumption DEF GenerationTypeOK, MigrationFiles, CommandType,
       PlansType, VersionsAreFresh
  <2>2. "pins" \in Places
    BY DEF Places
  <2>3. PICK g \in MigrationFiles : /\ g.version = cmd[p].plan.version /\ g.name = cmd[p].name
                                    /\ migrations' = migrations \cup {g}
    BY <1>1, <1>16, <2>2, WriteStep
  <2>4. generated' = generated
    BY <1>1, <1>16, <2>2, WriteStep
  <2>5. \A f \in migrations : f.version = g.version => f.name = g.name
    <3>1. cmd[p].pc = "down" /\ cmd[p].plan.version # 0
      BY <1>1, <1>16 DEF WriteMigration, VersionsAreFresh, FreshVersion
    <3>2. \A f \in migrations : f.version < cmd[p].plan.version \/ f.name = cmd[p].name
      BY <2>1, <3>1 DEF FreshVersion
    <3>. QED BY <2>1, <2>3, <3>2
  <2>. QED BY <1>1, <2>3, <2>4, <2>5 DEF MigrationsStayApart, HasMigration
<1>17. ASSUME NEW p \in Processes, ApplyPins(p) \/ PinsWritten(p) PROVE MigrationsStayApart'
  BY <1>1, <1>17, PinsStep DEF MigrationsStayApart, HasMigration, MovesTo, SamePlan, SameFiles,
     SameGoMod, SameOk
<1>18. ASSUME NEW p \in Processes, RegisterManifest(p) PROVE MigrationsStayApart'
  BY <1>1, <1>18, RegisterManifestStep DEF MigrationsStayApart, HasMigration, MovesTo,
     SamePlan, SameFiles, SameGoMod, SameOk
<1>19. ASSUME NEW p \in Processes, RegisterModule(p) PROVE MigrationsStayApart'
  BY <1>1, <1>19, RegisterModuleStep DEF MigrationsStayApart, HasMigration, MovesTo, SamePlan,
     SameFiles, SameGoMod, SameOk
<1>20. ASSUME NEW p \in Processes, RestoreManifest(p) PROVE MigrationsStayApart'
  BY <1>1, <1>20, RestoreManifestStep DEF MigrationsStayApart, HasMigration, MovesTo, SamePlan,
     SameFiles, SameGoMod, SameOk
<1>21. ASSUME NEW p \in Processes, UpgradeManifest(p) PROVE MigrationsStayApart'
  BY <1>1, <1>21, UpgradeStep DEF MigrationsStayApart, HasMigration, MovesTo, SamePlan,
     SameFiles, SameGoMod, SameOk
<1>22. ASSUME NEW p \in Processes, ManifestUpgraded(p) PROVE MigrationsStayApart'
  BY <1>1, <1>22, UpgradedStep DEF MigrationsStayApart, HasMigration, MovesTo, SamePlan,
     SameFiles, SameGoMod, SameOk
<1>23. ASSUME NEW p \in Processes, RemoveMigrations(p) \/ RemoveMigrationsFails(p)
      PROVE  MigrationsStayApart'
  <2>1. cmd[p].name \notin generated /\ \A f \in cmd[p].written : f.name = cmd[p].name
    BY <1>1, <1>23, RemoveMigrationsStep DEF CommandShape, Owns, VersionsAreFresh, FreshVersion
  <2>. QED BY <1>1, <1>23, <2>1, RemoveMigrationsStep DEF MigrationsStayApart, HasMigration
<1>24. ASSUME NEW p \in Processes, RestoreGoMod(p) \/ GoModRestored(p) \/ RestoreGoModFails(p)
      PROVE  MigrationsStayApart'
  BY <1>1, <1>24, RestoreGoModStep DEF MigrationsStayApart, HasMigration, MovesTo, SamePlan,
     SameFiles, SameGoMod, SameOk
<1>25. ASSUME NEW p \in Processes, RemovePackage(p) \/ RemovePackageFails(p)
      PROVE  MigrationsStayApart'
  BY <1>1, <1>25, RemovePackageStep DEF MigrationsStayApart, HasMigration, MovesTo, SamePlan,
     SameFiles, SameGoMod, SameOk
<1>26. ASSUME NEW p \in Processes, Release(p) PROVE MigrationsStayApart'
  <2>1. Database /\ cmd[p].ok /\ cmd[p].kind = "api" => HasMigration(cmd[p].name)
    BY <1>1 DEF VersionsAreFresh, FreshVersion
  <2>. QED BY <1>1, <1>26, <2>1, ReleaseStep DEF MigrationsStayApart, HasMigration
<1>27. ASSUME NEW p \in Processes, Fails(p) PROVE MigrationsStayApart'
  BY <1>1, <1>27, FailsStep DEF MigrationsStayApart, HasMigration, AfterError, MovesTo,
     SamePlan, SameFiles, SameGoMod, SameOk
<1>28. ASSUME NEW p \in Processes, Dies(p) PROVE MigrationsStayApart'
  BY <1>1, <1>28, DiesStep DEF MigrationsStayApart, HasMigration, Quiets, Quiet, NoPlan
<1>29. ASSUME NEW p \in Processes, CommandBegins(p) PROVE MigrationsStayApart'
  BY <1>1, <1>29, StartsStep DEF MigrationsStayApart, HasMigration, NoPlan
<1>30. CASE OperatorUnlocks
  BY <1>1, <1>30, GenerationAssumption DEF OperatorUnlocks, files, bounds,
     MigrationsStayApart, HasMigration
<1>31. ASSUME NEW p \in Processes, RestoreManifestFails(p) PROVE MigrationsStayApart'
  BY <1>1, <1>31, RestoreManifestFailsStep
     DEF MigrationsStayApart, HasMigration, MovesTo, SamePlan, SameFiles, SameGoMod, SameOk
<1>. QED BY <1>11, <1>12, <1>13, <1>14, <1>15, <1>16, <1>17, <1>18, <1>19, <1>20, <1>21,
            <1>22, <1>23, <1>24, <1>25, <1>26, <1>27, <1>28, <1>29, <1>30, <1>31,
            GenerationSteps

\* No command runs, nothing is generated.
LEMMA GenerationStarts == GenerationInit => GenerationIInv
<1>. SUFFICES ASSUME GenerationInit PROVE GenerationIInv
  OBVIOUS
<1>1. GenerationTypeOK
  BY QuietTyped, GenerationAssumption
     DEF GenerationInit, GenerationTypeOK, GoMods, Manifests, MigrationFiles
<1>2. \A p \in Processes : cmd[p] = Quiet /\ lock # p
  BY GenerationAssumption DEF GenerationInit
<1>3. CommandShape
  BY <1>2 DEF GenerationInit, CommandShape, Owns, Quiet, NoPlan
<1>4. ManifestOnDisk /\ RegistryCompiles /\ GeneratedIsKept
  BY <1>2 DEF GenerationInit, ManifestOnDisk, SeesManifest, RegistryCompiles,
     GeneratedIsKept, Quiet, NoPlan
<1>5. VersionsAreFresh /\ MigrationsStayApart
  BY <1>2 DEF GenerationInit, VersionsAreFresh, FreshVersion, MigrationsStayApart, Quiet, NoPlan
<1>. QED BY <1>1, <1>3, <1>4, <1>5 DEF GenerationIInv

\* Nothing that any command does to the project's files, nor its death between
\* two steps, breaks what the files and the other commands rely on.
LEMMA GenerationKept == GenerationIInv /\ [GenerationNext]_generationVars => GenerationIInv'
<1>1. CASE GenerationIInv /\ GenerationNext
  BY <1>1, GenerationTypeStep, CommandShapeStep, ManifestStep, VersionsStep, RegistryStep,
     GeneratedStep, MigrationsStep DEF GenerationIInv
<1>2. CASE GenerationIInv /\ UNCHANGED generationVars
  <2>1. GenerationTypeOK' /\ CommandShape'
    BY <1>2 DEF generationVars, GenerationIInv, GenerationTypeOK, CommandShape, Owns
  <2>2. ManifestOnDisk' /\ RegistryCompiles' /\ GeneratedIsKept'
    BY <1>2 DEF generationVars, GenerationIInv, ManifestOnDisk, SeesManifest, Owns, Undoing, Managed,
       RegistryCompiles, GeneratedIsKept
  <2>3. VersionsAreFresh' /\ MigrationsStayApart'
    BY <1>2 DEF generationVars, GenerationIInv, VersionsAreFresh, FreshVersion, HasMigration,
       MigrationsStayApart
  <2>. QED BY <2>1, <2>2, <2>3 DEF GenerationIInv
<1>. QED BY <1>1, <1>2
=============================================================================
