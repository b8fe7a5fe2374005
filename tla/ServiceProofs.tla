---------------------------- MODULE ServiceProofs ----------------------------
(***************************************************************************)
(* Proofs about the services of a running application: the configuration   *)
(* it loads, the health watches and readiness checks that tell of it, the  *)
(* fairings that a request meets, the access it withdraws, and the runs of *)
(* its agents.  For each, the invariant that its module names XIInv holds  *)
(* at the start and is kept by every step, whatever the constants.         *)
(***************************************************************************)
EXTENDS Configuration, HealthWatch, Readiness, Fairings, Authorization, AgentRuns,
        FiniteSetTheorems, SequenceTheorems, WellFoundedInduction, TLAPS

-----------------------------------------------------------------------------
(* Loading the configuration.                                              *)

\* Nothing has been read.
LEMMA ConfigStarts == ConfigInit => ConfigIInv
<1>. SUFFICES ASSUME ConfigInit PROVE ConfigIInv
  OBVIOUS
<1>1. 0 \in 0..FileLimit
  BY ConfigAssumption
<1>2. ConfigTypeOK
  BY <1>1 DEF ConfigInit, ConfigTypeOK, NewSysConfig, Settings, Modes, Strictness, Switches,
     Secrets, Absent
<1>3. ProductionIsStrict /\ ProductionLoadsSafely
  BY DEF ConfigInit, ProductionIsStrict, ProductionLoadsSafely, NewSysConfig, Absent
<1>. QED BY <1>2, <1>3 DEF ConfigIInv

\* What a file leaves is one of the two values.
LEMMA MergedType ==
  ASSUME NEW S, NEW given \in S, NEW current \in S
  PROVE  Merged(given, current) \in S
BY DEF Merged

\* Every step keeps what strictPolicy keeps, and Validate accepts what is safe.
LEMMA ConfigKept == ConfigIInv /\ [ConfigNext]_configVars => ConfigIInv'
<1>. SUFFICES ASSUME ConfigIInv, [ConfigNext]_configVars PROVE ConfigIInv'
  OBVIOUS
<1>0. ConfigTypeOK /\ ProductionIsStrict /\ ProductionLoadsSafely
  BY DEF ConfigIInv
<1>1. CASE DecodeFile
  <2>1. PICK file \in Files :
          /\ ~ Refused(file)
          /\ settings' = [strict |-> Merged(file.strict, settings.strict),
                          mode |-> Merged(file.mode, settings.mode),
                          framework |-> Merged(file.framework, settings.framework),
                          auth |-> Merged(file.auth, settings.auth),
                          secret |-> Merged(file.secret, settings.secret)]
          /\ ignoredKeys' = (ignoredKeys \/ file.unknown)
          /\ unseen' = (SeenMode(file) # file.mode \/ SeenStrict(file) # file.strict)
    BY <1>1 DEF DecodeFile
  <2>2. loader' = [loader EXCEPT !.read = @ + 1] /\ loader.phase = "reading"
        /\ loader.read < FileLimit /\ environment' = environment
    BY <1>1 DEF DecodeFile
  <2>3. loader.read \in 0..FileLimit
    BY <1>0 DEF ConfigTypeOK
  <2>4. loader.read + 1 \in 0..FileLimit
    BY <2>2, <2>3, ConfigAssumption
  <2>5. settings' \in Settings
    BY <1>0, <2>1, MergedType DEF Files, Settings, ConfigTypeOK
  <2>6. ignoredKeys' \in BOOLEAN /\ unseen' \in BOOLEAN
    BY <1>0, <2>1 DEF Files, ConfigTypeOK
  <2>7. ConfigTypeOK'
    BY <1>0, <2>2, <2>4, <2>5, <2>6 DEF ConfigTypeOK
  <2>8. ProductionIsStrict'
    <3>1. ProductionEnvironment' = ProductionEnvironment
      BY <2>2 DEF ProductionEnvironment
    <3>2. ~unseen' => SeenMode(file) = file.mode /\ SeenStrict(file) = file.strict
      BY <2>1
    <3>3. ~unseen' /\ IsProductionMode' => ProductionWith(file)
      BY <2>1, <2>2, <3>2 DEF IsProductionMode, ProductionWith, ProductionEnvironment, Merged
    <3>4. ProductionEnvironment => ProductionWith(file)
      BY DEF ProductionWith
    <3>5. ProductionWith(file) => ~ file.unknown /\ (~unseen' => settings'.strict # "off")
      BY <2>1, <3>2 DEF Refused, StrictWith, Merged, Absent
    <3>. QED BY <1>0, <2>1, <3>1, <3>3, <3>4, <3>5 DEF ProductionIsStrict
  <2>9. ProductionLoadsSafely'
    BY <1>0, <2>2 DEF ConfigTypeOK, ProductionLoadsSafely
  <2>. QED BY <2>7, <2>8, <2>9 DEF ConfigIInv
<1>2. CASE DecodeFails \/ FilesEnd
  <2>1. UNCHANGED <<environment, settings, ignoredKeys, unseen>>
    BY <1>2 DEF DecodeFails, FilesEnd
  <2>2. ConfigTypeOK' /\ loader'.phase # "loaded"
    BY <1>0, <1>2 DEF DecodeFails, FilesEnd, ConfigTypeOK
  <2>3. ProductionIsStrict'
    BY <1>0, <2>1 DEF ProductionIsStrict, ProductionEnvironment, IsProductionMode
  <2>. QED BY <2>2, <2>3 DEF ConfigIInv, ProductionLoadsSafely
<1>3. CASE ApplyEnvOverrides
  <2>1. settings' \in Settings /\ settings'.strict = settings.strict
        /\ settings'.mode = settings.mode
    <3>1. \A given \in Secrets : Merged(given, settings.secret) \in Secrets
      BY <1>0, MergedType DEF ConfigTypeOK, Settings
    <3>. QED BY <1>0, <1>3, <3>1 DEF ApplyEnvOverrides, ConfigTypeOK, Settings
  <2>2. UNCHANGED <<environment, ignoredKeys, unseen>>
    BY <1>3 DEF ApplyEnvOverrides
  <2>3. ConfigTypeOK' /\ loader'.phase # "loaded"
    BY <1>0, <1>3, <2>1, <2>2 DEF ApplyEnvOverrides, ConfigTypeOK
  <2>4. ProductionIsStrict'
    BY <1>0, <2>1, <2>2 DEF ProductionIsStrict, ProductionEnvironment, IsProductionMode
  <2>. QED BY <2>3, <2>4 DEF ConfigIInv, ProductionLoadsSafely
<1>4. CASE Validate
  <2>1. UNCHANGED <<environment, settings, ignoredKeys, unseen>>
    BY <1>4 DEF Validate
  <2>2. ConfigTypeOK'
    BY <1>0, <1>4 DEF Validate, ConfigTypeOK
  <2>3. ProductionIsStrict'
    BY <1>0, <2>1 DEF ProductionIsStrict, ProductionEnvironment, IsProductionMode
  <2>4. loader'.phase = "loaded" => RuntimeContract /\ ProductionSecurity
    BY <1>0, <1>4 DEF Validate, ConfigTypeOK
  <2>5. ProductionLoadsSafely'
    BY <1>0, <2>1, <2>4 DEF ProductionLoadsSafely, ProductionIsStrict, RuntimeContract,
       ProductionSecurity, ProductionEnvironment, IsProductionMode
  <2>. QED BY <2>2, <2>3, <2>5 DEF ConfigIInv
<1>5. CASE UNCHANGED configVars
  BY <1>0, <1>5 DEF configVars, ConfigIInv, ConfigTypeOK, ProductionIsStrict,
     ProductionLoadsSafely, ProductionEnvironment, IsProductionMode
<1>. QED BY <1>1, <1>2, <1>3, <1>4, <1>5 DEF ConfigNext

-----------------------------------------------------------------------------
(* Watches of the gRPC health service.                                     *)

WatchType == [pc : {"absent", "look", "send", "wait", "ended"}, seen : 0..ChangeLimit,
              seenStopped : BOOLEAN, response : Statuses \cup {"none"},
              last : Statuses \cup {"none"}]

\* No stream is open.
LEMMA WatchStarts == WatchInit => WatchIInv
<1>. SUFFICES ASSUME WatchInit PROVE WatchIInv
  OBVIOUS
<1>1. 0 \in 0..ChangeLimit
  BY WatchAssumption
<1>2. NewWatch \in WatchType
  BY <1>1 DEF NewWatch, WatchType
<1>3. \A w \in Watches : watch[w] = NewWatch
  BY DEF WatchInit
<1>4. WatchTypeOK
  BY <1>1, <1>2 DEF WatchInit, WatchTypeOK, WatchType
<1>5. LooksAreCurrent /\ NoChangeMissed
  BY <1>3 DEF WatchInit, NewWatch, LooksAreCurrent, NoChangeMissed
<1>. QED BY <1>4, <1>5 DEF WatchIInv

\* Every step keeps what a watch is about to send, and has sent, up to date.
LEMMA WatchKept == WatchIInv /\ [WatchNext]_watchVars => WatchIInv'
<1>. SUFFICES ASSUME WatchIInv, [WatchNext]_watchVars PROVE WatchIInv'
  OBVIOUS
<1>0. /\ serving \in BOOLEAN /\ stopped \in BOOLEAN /\ changed \in 0..ChangeLimit
      /\ watch \in [Watches -> WatchType]
      /\ LooksAreCurrent /\ NoChangeMissed
  BY DEF WatchIInv, WatchTypeOK, WatchType
<1>1. ASSUME NEW up \in BOOLEAN, ServingChanges(up) PROVE WatchIInv'
  <2>1. serving' \in BOOLEAN /\ stopped' \in BOOLEAN
    BY <1>1 DEF ServingChanges
  <2>2. changed' \in 0..ChangeLimit /\ changed' > changed
    BY <1>0, <1>1, WatchAssumption DEF ServingChanges
  <2>3. \A w \in Watches : watch[w].seen \in 0..ChangeLimit /\ watch[w].seen <= changed
    BY <1>0 DEF WatchType, LooksAreCurrent
  <2>4. \A w \in Watches : watch[w].seen <= changed' /\ watch[w].seen # changed'
    BY <1>0, <2>2, <2>3
  <2>5. watch' = watch
    BY <1>1 DEF ServingChanges
  <2>. QED BY <1>0, <2>1, <2>2, <2>4, <2>5 DEF WatchIInv, WatchTypeOK, WatchType, LooksAreCurrent,
           NoChangeMissed
<1>2. ASSUME NEW w \in Watches,
             WatchOpens(w) \/ WatchRuns(w) \/ WatchCancelled(w)
      PROVE  WatchIInv'
  <2>1. UNCHANGED <<serving, stopped, changed>> /\ Status' = Status
    BY <1>2 DEF WatchOpens, WatchRuns, WatchLooks, WatchSends, WatchWakes, WatchCancelled, Status
  <2>2. Status \in Statuses /\ watch[w] \in WatchType
    BY <1>0 DEF Status, Statuses
  <2>3. /\ watch'[w] \in WatchType
        /\ watch'[w].seen <= changed
        /\ watch'[w].pc = "send" /\ watch'[w].seen = changed => watch'[w].response = Status
        /\ watch'[w].pc = "wait" /\ watch'[w].seen = changed => watch'[w].last = Status
    <3>1. CASE WatchOpens(w) \/ WatchWakes(w) \/ WatchCancelled(w)
      BY <1>0, <2>2, <3>1 DEF WatchOpens, WatchWakes, WatchCancelled, WatchType, LooksAreCurrent
    <3>2. CASE WatchLooks(w)
      <4>1. watch'[w] = [watch[w] EXCEPT !.pc = "send", !.seen = changed,
                                         !.seenStopped = stopped, !.response = Status]
        BY <1>0, <3>2 DEF WatchLooks
      <4>2. changed <= changed
        BY <1>0
      <4>. QED BY <1>0, <2>2, <4>1, <4>2 DEF WatchType
    <3>3. CASE WatchSends(w)
      BY <1>0, <2>2, <3>3 DEF WatchSends, WatchType, LooksAreCurrent
    <3>. QED BY <1>2, <3>1, <3>2, <3>3 DEF WatchRuns
  <2>4. /\ \A v \in Watches \ {w} : watch'[v] = watch[v]
        /\ watch' \in [Watches -> WatchType]
    BY <1>0, <1>2, <2>3 DEF WatchOpens, WatchRuns, WatchLooks, WatchSends, WatchWakes, WatchCancelled
  <2>5. LooksAreCurrent'
    BY <1>0, <2>1, <2>3, <2>4 DEF LooksAreCurrent
  <2>6. NoChangeMissed'
    BY <1>0, <2>1, <2>3, <2>4 DEF NoChangeMissed
  <2>. QED BY <1>0, <2>1, <2>4, <2>5, <2>6 DEF WatchIInv, WatchTypeOK, WatchType
<1>3. CASE UNCHANGED watchVars
  BY <1>3 DEF watchVars, WatchIInv, WatchTypeOK, LooksAreCurrent, NoChangeMissed, Status
<1>. QED BY <1>1, <1>2, <1>3 DEF WatchNext

-----------------------------------------------------------------------------
(* The readiness coordinator.                                              *)

ProbeType == [pc : {"idle", "starting", "waiting", "done"},
              joined : [Checkers -> 0..ProbeLimit], result : [Checkers -> Results]]

\* The coordinator's part of the invariant, for one probe and one checker.
Fresh(p, c) ==
  /\ finishedBefore[p][c] <= Len(attempts[c])
  /\ inFlight[c] # 0 => finishedBefore[p][c] < Len(attempts[c])
  /\ probe[p].joined[c] <= Len(attempts[c])
  /\ probe[p].joined[c] # 0 => probe[p].joined[c] > finishedBefore[p][c]
  /\ probe[p].pc = "waiting" => probe[p].joined[c] # 0 \/ probe[p].result[c] # "none"
  /\ probe[p].result[c] = "ok" =>
       probe[p].joined[c] # 0 /\ attempts[c][probe[p].joined[c]] = "ok"

\* The invariant, part by part.
ReadinessFacts ==
    /\ attempts \in [Checkers -> Seq(Outcomes)] /\ inFlight \in [Checkers -> 0..ProbeLimit]
    /\ \A c \in Checkers : Len(attempts[c]) <= ProbeLimit
    /\ probe \in [Probes -> ProbeType]
    /\ finishedBefore \in [Probes -> [Checkers -> 0..ProbeLimit]]
    /\ InFlightRuns
    /\ \A p \in Probes, c \in Checkers : Fresh(p, c)

\* The inductive invariant, part by part.
LEMMA ReadinessParts == ReadinessIInv <=> ReadinessFacts
<1>1. ASSUME attempts \in [Checkers -> Seq(Outcomes)], InFlightRuns,
             NEW c \in Checkers, NEW m \in DOMAIN attempts[c], NEW n \in DOMAIN attempts[c],
             attempts[c][m] = "running", attempts[c][n] = "running"
      PROVE  m = n
  BY <1>1 DEF InFlightRuns
<1>. QED BY <1>1 DEF ReadinessIInv, ReadinessTypeOK, ProbeType, JoinsAreFresh, ChecksSharedAndFresh,
         Fresh, ReadinessFacts

\* The same in the state after a step.
LEMMA PrimedParts == ReadinessFacts' => ReadinessIInv'
BY ReadinessParts, PTL

\* Nothing has been checked.
LEMMA ReadinessStarts == ReadinessInit => ReadinessIInv
<1>. SUFFICES ASSUME ReadinessInit PROVE ReadinessIInv
  OBVIOUS
<1>1. 0 \in 0..ProbeLimit /\ 0 <= ProbeLimit
  BY ReadinessAssumption
<1>2. NewProbe \in ProbeType
  BY <1>1 DEF NewProbe, ProbeType, Results
<1>3. \A c \in Checkers : attempts[c] = <<>> /\ inFlight[c] = 0 /\ Len(attempts[c]) = 0
  BY DEF ReadinessInit
<1>4. \A p \in Probes : probe[p] = NewProbe
      /\ \A c \in Checkers : finishedBefore[p][c] = 0 /\ NewProbe.joined[c] = 0
  BY DEF ReadinessInit, NewProbe
<1>5. InFlightRuns
  BY <1>3 DEF InFlightRuns
<1>6. \A p \in Probes, c \in Checkers : Fresh(p, c)
  BY <1>3, <1>4 DEF Fresh, NewProbe
<1>7. attempts \in [Checkers -> Seq(Outcomes)] /\ inFlight \in [Checkers -> 0..ProbeLimit]
      /\ probe \in [Probes -> ProbeType] /\ finishedBefore \in [Probes -> [Checkers -> 0..ProbeLimit]]
  BY <1>1, <1>2 DEF ReadinessInit
<1>. QED BY <1>1, <1>3, <1>5, <1>6, <1>7, ReadinessParts DEF ReadinessFacts

\* All attempts of a checker but the one in flight are over.
LEMMA OverCounted ==
  ASSUME ReadinessIInv, NEW c \in Checkers
  PROVE  /\ Over(c) \in 0..ProbeLimit /\ Over(c) <= Len(attempts[c])
         /\ inFlight[c] # 0 => Over(c) < Len(attempts[c])
<1>. DEFINE all == 1..Len(attempts[c])
            over == {n \in DOMAIN attempts[c] : attempts[c][n] # "running"}
<1>1. attempts[c] \in Seq(Outcomes) /\ Len(attempts[c]) \in Nat /\ DOMAIN attempts[c] = all
      /\ Len(attempts[c]) <= ProbeLimit
  BY DEF ReadinessIInv, ReadinessTypeOK
<1>2. IsFiniteSet(all) /\ Cardinality(all) = Len(attempts[c])
  <2>1. 1 \in Int /\ Len(attempts[c]) \in Int /\ Len(attempts[c]) - 1 + 1 = Len(attempts[c])
        /\ (1 > Len(attempts[c]) => Len(attempts[c]) = 0)
    BY <1>1
  <2>. QED BY <2>1, FS_Interval
<1>3. over \subseteq all
  BY <1>1
<1>4. Cardinality(over) \in Nat /\ Cardinality(over) <= Cardinality(all) /\ IsFiniteSet(over)
  BY <1>2, <1>3, FS_Subset, FS_CardinalityType
<1>5. ASSUME inFlight[c] # 0
      PROVE  Cardinality(over) < Cardinality(all)
  <2>1. inFlight[c] = Len(attempts[c]) /\ inFlight[c] \in all /\ inFlight[c] \notin over
    BY <1>1, <1>5 DEF ReadinessIInv, InFlightRuns
  <2>2. over # all
    BY <2>1
  <2>. QED BY <1>2, <1>3, <1>4, <2>2, FS_Subset, FS_CardinalityType
<1>6. Over(c) = Cardinality(over)
  BY DEF Over
<1>. HIDE DEF over, all
<1>. QED BY <1>1, <1>2, <1>4, <1>5, <1>6, ReadinessAssumption

\* While a checker is open, one of those that are open is the next.
LEMMA NextIsOpen ==
  ASSUME NEW p \in Probes, NEW d \in Checkers,
         probe[p].joined[d] = 0, probe[p].result[d] = "none"
  PROVE  \E c \in Checkers : NextChecker(p, c)
<1>. DEFINE open == {e \in Checkers : probe[p].joined[e] = 0 /\ probe[p].result[e] = "none"}
            R == OpToRel(<, Nat)
<1>1. IsWellFoundedOn(R, Nat)
  BY NatLessThanWellFounded
<1>2. \A x, y \in Nat : <<x, y>> \in R <=> x < y
  BY DEF OpToRel
<1>3. open \subseteq Nat /\ d \in open
  BY ReadinessAssumption DEF Checkers
<1>. HIDE DEF R
<1>4. PICK c \in open : \A e \in open : ~ (<<e, c>> \in R)
  BY <1>1, <1>3, WFMin
<1>5. \A e \in open : e \in Nat /\ c \in Nat /\ ~ (e < c)
  BY <1>2, <1>3, <1>4
<1>6. \A e \in open : c <= e
  BY <1>5
<1>. QED BY <1>6 DEF NextChecker

\* Fresh, for a probe that is to be r and whose history is to be f.
FreshAfter(r, f, c) ==
  /\ f[c] <= Len(attempts[c]) /\ (inFlight[c] # 0 => f[c] < Len(attempts[c]))
  /\ r.joined[c] <= Len(attempts[c]) /\ (r.joined[c] # 0 => r.joined[c] > f[c])
  /\ r.pc = "waiting" => r.joined[c] # 0 \/ r.result[c] # "none"
  /\ r.result[c] = "ok" => r.joined[c] # 0 /\ attempts[c][r.joined[c]] = "ok"

\* A step of a probe that leaves the coordinator alone.
LEMMA ProbeAlone ==
  ASSUME ReadinessIInv, NEW p \in Probes, UNCHANGED <<attempts, inFlight>>,
         NEW r \in ProbeType, probe' = [probe EXCEPT ![p] = r],
         NEW f \in [Checkers -> 0..ProbeLimit],
         finishedBefore' = [finishedBefore EXCEPT ![p] = f],
         \A c \in Checkers : FreshAfter(r, f, c)
  PROVE  ReadinessIInv'
<1>1. /\ attempts \in [Checkers -> Seq(Outcomes)] /\ inFlight \in [Checkers -> 0..ProbeLimit]
      /\ \A c \in Checkers : Len(attempts[c]) <= ProbeLimit
      /\ probe \in [Probes -> ProbeType]
      /\ finishedBefore \in [Probes -> [Checkers -> 0..ProbeLimit]]
      /\ InFlightRuns
      /\ \A q \in Probes, c \in Checkers : Fresh(q, c)
  BY ReadinessParts DEF ReadinessFacts
<1>2. probe'[p] = r /\ finishedBefore'[p] = f
      /\ \A q \in Probes \ {p} : probe'[q] = probe[q] /\ finishedBefore'[q] = finishedBefore[q]
  BY <1>1
<1>3. probe' \in [Probes -> ProbeType] /\ finishedBefore' \in [Probes -> [Checkers -> 0..ProbeLimit]]
  BY <1>1
<1>4. InFlightRuns'
  BY <1>1 DEF InFlightRuns
<1>5. \A c \in Checkers : Fresh(p, c)'
  BY <1>2 DEF Fresh, FreshAfter
<1>6. \A q \in Probes \ {p}, c \in Checkers : Fresh(q, c)'
  BY <1>1, <1>2 DEF Fresh
<1>7. ReadinessFacts'
  BY <1>1, <1>3, <1>4, <1>5, <1>6 DEF ReadinessFacts
<1>. QED BY <1>7, PrimedParts

\* Every step shares the checks and keeps the answers fresh.
LEMMA ReadinessKept == ReadinessIInv /\ [ReadinessNext]_readinessVars => ReadinessIInv'
<1>. SUFFICES ASSUME ReadinessIInv, [ReadinessNext]_readinessVars PROVE ReadinessIInv'
  OBVIOUS
<1>0. /\ attempts \in [Checkers -> Seq(Outcomes)] /\ inFlight \in [Checkers -> 0..ProbeLimit]
      /\ \A c \in Checkers : Len(attempts[c]) <= ProbeLimit
      /\ probe \in [Probes -> ProbeType]
      /\ finishedBefore \in [Probes -> [Checkers -> 0..ProbeLimit]]
      /\ InFlightRuns
      /\ \A q \in Probes, c \in Checkers : Fresh(q, c)
  BY ReadinessParts DEF ReadinessFacts
<1>z. 0 \in 0..ProbeLimit
  BY ReadinessAssumption
<1>l. \A c \in Checkers : Len(attempts[c]) \in Nat /\ 0 <= Len(attempts[c])
  BY <1>0
<1>n. NewProbe \in ProbeType /\ \A c \in Checkers : NewProbe.joined[c] = 0 /\ NewProbe.result[c] = "none"
  BY <1>z DEF NewProbe, ProbeType, Results
<1>1. ASSUME NEW p \in Probes, ProbeArrives(p) PROVE ReadinessIInv'
  <2>. DEFINE r == [NewProbe EXCEPT !.pc = "starting"]
              f == [c \in Checkers |-> Over(c)]
  <2>1. r \in ProbeType /\ r.pc = "starting"
        /\ \A c \in Checkers : r.joined[c] = 0 /\ r.result[c] = "none"
    BY <1>n DEF ProbeType, NewProbe
  <2>2. \A c \in Checkers : /\ Over(c) \in 0..ProbeLimit /\ Over(c) <= Len(attempts[c])
                            /\ inFlight[c] # 0 => Over(c) < Len(attempts[c])
    BY OverCounted
  <2>3. f \in [Checkers -> 0..ProbeLimit] /\ \A c \in Checkers : f[c] = Over(c)
    BY <2>2
  <2>4. probe' = [probe EXCEPT ![p] = r] /\ finishedBefore' = [finishedBefore EXCEPT ![p] = f]
        /\ UNCHANGED <<attempts, inFlight>>
    BY <1>1 DEF ProbeArrives
  <2>. HIDE DEF r, f
  <2>5. \A c \in Checkers : FreshAfter(r, f, c)
    BY <1>l, <2>1, <2>2, <2>3 DEF FreshAfter
  <2>. QED BY <2>1, <2>3, <2>4, <2>5, ProbeAlone
<1>2. ASSUME NEW p \in Probes, ProbeRepeats(p) PROVE ReadinessIInv'
  <2>. DEFINE f == [c \in Checkers |-> 0]
  <2>1. f \in [Checkers -> 0..ProbeLimit] /\ \A c \in Checkers : f[c] = 0
    BY <1>z
  <2>2. probe' = [probe EXCEPT ![p] = NewProbe] /\ finishedBefore' = [finishedBefore EXCEPT ![p] = f]
        /\ UNCHANGED <<attempts, inFlight>> /\ NewProbe.pc = "idle"
    BY <1>2 DEF ProbeRepeats, NewProbe
  <2>3. \A c \in Checkers : inFlight[c] # 0 => 0 < Len(attempts[c])
    BY <1>0, <1>l DEF InFlightRuns
  <2>. HIDE DEF f
  <2>4. \A c \in Checkers : FreshAfter(NewProbe, f, c)
    BY <1>l, <1>n, <2>1, <2>2, <2>3 DEF FreshAfter
  <2>. QED BY <1>n, <2>1, <2>2, <2>4, ProbeAlone
<1>3. ASSUME NEW p \in Probes, ProbeWaits(p) \/ ProbeAnswers(p) \/ (\E c \in Checkers : ResultArrives(p, c))
      PROVE  ReadinessIInv'
  <2>. DEFINE r == probe'[p]
              f == finishedBefore[p]
              Answers == /\ r \in ProbeType /\ r.joined = probe[p].joined
                         /\ \A c \in Checkers :
                              /\ r.pc = "waiting" => r.joined[c] # 0 \/ r.result[c] # "none"
                              /\ r.result[c] = "ok" =>
                                   r.joined[c] # 0 /\ attempts[c][r.joined[c]] = "ok"
  <2>0. probe[p] \in ProbeType /\ f \in [Checkers -> 0..ProbeLimit]
        /\ \A c \in Checkers : Fresh(p, c)
    BY <1>0
  <2>1. UNCHANGED <<attempts, inFlight, finishedBefore>> /\ probe' = [probe EXCEPT ![p] = r]
        /\ finishedBefore' = [finishedBefore EXCEPT ![p] = f]
    BY <1>0, <1>3 DEF ProbeWaits, ProbeAnswers, ResultArrives
  <2>2. ASSUME ProbeWaits(p) PROVE Answers
    <3>1. r = [probe[p] EXCEPT !.pc = "waiting"]
      BY <1>0, <2>2 DEF ProbeWaits
    <3>2. \A c \in Checkers : probe[p].joined[c] # 0 \/ probe[p].result[c] # "none"
      BY <2>2, NextIsOpen DEF ProbeWaits
    <3>. HIDE DEF r
    <3>. QED BY <2>0, <3>1, <3>2 DEF ProbeType, Fresh
  <2>3. ASSUME ProbeAnswers(p) PROVE Answers
    <3>. DEFINE res == [c \in Checkers |-> IF probe[p].result[c] = "none" THEN "failed"
                                           ELSE probe[p].result[c]]
    <3>1. r = [probe[p] EXCEPT !.pc = "done", !.result = res]
      BY <1>0, <2>3 DEF ProbeAnswers
    <3>2. res \in [Checkers -> Results]
          /\ \A c \in Checkers : res[c] = "ok" => probe[p].result[c] = "ok"
      BY <2>0 DEF ProbeType, Results
    <3>. HIDE DEF res, r
    <3>. QED BY <2>0, <3>1, <3>2 DEF ProbeType, Fresh
  <2>4. ASSUME NEW c \in Checkers, ResultArrives(p, c) PROVE Answers
    <3>. DEFINE v == attempts[c][probe[p].joined[c]]
                res == [probe[p].result EXCEPT ![c] = v]
    <3>1. r = [probe[p] EXCEPT !.result = res] /\ probe[p].pc = "waiting"
          /\ probe[p].result[c] = "none" /\ v # "running"
      BY <1>0, <2>4 DEF ResultArrives
    <3>2. probe[p].joined[c] \in 1..Len(attempts[c]) /\ attempts[c] \in Seq(Outcomes)
      BY <1>0, <1>l, <2>0, <3>1 DEF Fresh, ProbeType
    <3>3. v \in Results /\ v # "none"
      BY <3>1, <3>2 DEF Outcomes, Results
    <3>4. res \in [Checkers -> Results] /\ res[c] = v
          /\ \A d \in Checkers \ {c} : res[d] = probe[p].result[d]
      BY <2>0, <3>3 DEF ProbeType
    <3>5. r \in ProbeType /\ r.joined = probe[p].joined /\ r.pc = "waiting" /\ r.result = res
      BY <2>0, <3>1, <3>4 DEF ProbeType
    <3>6. probe[p].joined[c] # 0 /\ (v = "ok" => attempts[c][probe[p].joined[c]] = "ok")
      BY <3>2
    <3>. HIDE DEF res, r, v
    <3>. QED BY <2>0, <3>1, <3>3, <3>4, <3>5, <3>6 DEF Fresh
  <2>5. Answers
    BY <1>3, <2>2, <2>3, <2>4
  <2>6. \A c \in Checkers : FreshAfter(r, f, c)
    <3>. HIDE DEF r
    <3>. QED BY <2>0, <2>5 DEF Fresh, FreshAfter
  <2>7. r \in ProbeType
    BY <2>5
  <2>. HIDE DEF r, f
  <2>. QED BY <2>0, <2>1, <2>6, <2>7, ProbeAlone
<1>4. ASSUME NEW p \in Probes, NEW c \in Checkers, ProbeTakes(p, c) PROVE ReadinessIInv'
  <2>. DEFINE f == finishedBefore[p]
  <2>0. probe[p] \in ProbeType /\ f \in [Checkers -> 0..ProbeLimit]
        /\ \A d \in Checkers : Fresh(p, d)
    BY <1>0
  <2>1. probe[p].pc = "starting" /\ probe[p].joined[c] = 0 /\ probe[p].result[c] = "none"
        /\ finishedBefore' = finishedBefore
    BY <1>4 DEF ProbeTakes, NextChecker
  <2>2. finishedBefore' = [finishedBefore EXCEPT ![p] = f]
    BY <1>0, <2>1
  <2>3. CASE /\ probe' = [probe EXCEPT ![p].result[c] = "failed"]
             /\ UNCHANGED <<attempts, inFlight>>
    <3>. DEFINE res == [probe[p].result EXCEPT ![c] = "failed"]
                r == [probe[p] EXCEPT !.result = res]
    <3>1. res \in [Checkers -> Results] /\ res[c] = "failed"
          /\ \A d \in Checkers \ {c} : res[d] = probe[p].result[d]
      BY <2>0 DEF ProbeType, Results
    <3>2. probe' = [probe EXCEPT ![p] = r]
      BY <1>0, <2>3
    <3>3. r \in ProbeType /\ r.joined = probe[p].joined /\ r.pc = "starting" /\ r.result = res
      BY <2>0, <2>1, <3>1 DEF ProbeType
    <3>4. \A d \in Checkers : FreshAfter(r, f, d)
      <4>. HIDE DEF r, res
      <4>. QED BY <2>0, <3>1, <3>3 DEF Fresh, FreshAfter
    <3>. HIDE DEF r, res, f
    <3>. QED BY <2>0, <2>2, <2>3, <3>2, <3>3, <3>4, ProbeAlone
  <2>4. CASE StartOrJoin(c) /\ probe' = [probe EXCEPT ![p].joined[c] = inFlight'[c]]
    <3>. DEFINE joined == [probe[p].joined EXCEPT ![c] = inFlight'[c]]
                r == [probe[p] EXCEPT !.joined = joined]
    <3>1. probe' = [probe EXCEPT ![p] = r]
      BY <1>0, <2>4
    <3>2. ASSUME inFlight'[c] \in 0..ProbeLimit
          PROVE  /\ joined \in [Checkers -> 0..ProbeLimit] /\ joined[c] = inFlight'[c]
                 /\ \A d \in Checkers \ {c} : joined[d] = probe[p].joined[d]
                 /\ r \in ProbeType /\ r.joined = joined /\ r.pc = "starting"
                 /\ r.result = probe[p].result
      <4>1. /\ joined \in [Checkers -> 0..ProbeLimit] /\ joined[c] = inFlight'[c]
            /\ \A d \in Checkers \ {c} : joined[d] = probe[p].joined[d]
        BY <2>0, <3>2 DEF ProbeType
      <4>. HIDE DEF joined
      <4>. QED BY <2>0, <2>1, <4>1 DEF ProbeType
    <3>3. CASE inFlight[c] # 0
      <4>1. UNCHANGED <<attempts, inFlight>> /\ inFlight'[c] \in 0..ProbeLimit
            /\ inFlight'[c] = Len(attempts[c]) /\ f[c] < Len(attempts[c])
        BY <1>0, <2>0, <2>4, <3>3 DEF StartOrJoin, InFlightRuns, Fresh
      <4>2. \A d \in Checkers : FreshAfter(r, f, d)
        <5>. HIDE DEF r, joined
        <5>. QED BY <1>l, <2>0, <2>1, <3>2, <4>1 DEF Fresh, FreshAfter
      <4>. HIDE DEF r, joined, f
      <4>. QED BY <2>0, <2>2, <3>1, <3>2, <4>1, <4>2, ProbeAlone
    <3>4. CASE inFlight[c] = 0
      <4>. DEFINE n == Len(attempts[c]) + 1
      <4>1. /\ attempts' = [attempts EXCEPT ![c] = Append(attempts[c], "running")]
            /\ inFlight' = [inFlight EXCEPT ![c] = n] /\ Len(attempts[c]) < ProbeLimit
        BY <2>4, <3>4 DEF StartOrJoin
      <4>2. n \in 0..ProbeLimit /\ n # 0 /\ n > Len(attempts[c])
        BY <1>l, <4>1, ReadinessAssumption
      <4>3. /\ attempts'[c] \in Seq(Outcomes) /\ Len(attempts'[c]) = n
            /\ DOMAIN attempts'[c] = 1..n /\ attempts'[c][n] = "running"
            /\ \A m \in 1..Len(attempts[c]) : attempts'[c][m] = attempts[c][m]
            /\ DOMAIN attempts[c] = 1..Len(attempts[c])
        BY <1>0, <4>1 DEF Outcomes
      <4>4. /\ \A d \in Checkers \ {c} : attempts'[d] = attempts[d] /\ inFlight'[d] = inFlight[d]
            /\ inFlight'[c] = n
            /\ attempts' \in [Checkers -> Seq(Outcomes)]
            /\ inFlight' \in [Checkers -> 0..ProbeLimit]
        BY <1>0, <4>1, <4>2, <4>3
      <4>5. \A m \in 1..n : m = n \/ m \in 1..Len(attempts[c])
        BY <1>l
      <4>6. InFlightRuns'
        <5>. HIDE DEF n
        <5>a. \A m \in 1..Len(attempts[c]) : m # n /\ m # 0
          BY <1>l, <4>2
        <5>b. \A m \in DOMAIN attempts[c] : attempts[c][m] = "running" <=> m = 0
          BY <1>0, <3>4 DEF InFlightRuns
        <5>1. \A m \in 1..Len(attempts[c]) : attempts[c][m] # "running" /\ m # n
          BY <4>3, <5>a, <5>b
        <5>2. \A m \in DOMAIN attempts'[c] : attempts'[c][m] = "running" <=> m = inFlight'[c]
          BY <4>3, <4>4, <4>5, <5>1
        <5>3. ASSUME NEW d \in Checkers \ {c}
              PROVE  /\ inFlight'[d] \in {0, Len(attempts'[d])}
                     /\ \A m \in DOMAIN attempts'[d] : attempts'[d][m] = "running" <=> m = inFlight'[d]
          BY <1>0, <4>4 DEF InFlightRuns
        <5>. QED BY <4>3, <4>4, <5>2, <5>3 DEF InFlightRuns
      <4>7. probe' \in [Probes -> ProbeType] /\ probe'[p] = r
            /\ \A q \in Probes \ {p} : probe'[q] = probe[q]
        BY <1>0, <3>1, <3>2, <4>2, <4>4
      <4>8. ASSUME NEW q \in Probes, NEW d \in Checkers PROVE Fresh(q, d)'
        <5>0. Fresh(q, d) /\ probe[q] \in ProbeType /\ finishedBefore[q] \in [Checkers -> 0..ProbeLimit]
          BY <1>0
        <5>1. CASE q # p
          <6>1. probe[q].joined[d] \in Nat /\ finishedBefore[q][d] \in Nat
            BY <5>0 DEF ProbeType
          <6>a. probe[q].joined[d] <= Len(attempts[d])
            BY <5>0 DEF Fresh
          <6>b. probe[q].joined[d] # 0 => probe[q].joined[d] \in 1..Len(attempts[d])
            BY <1>l, <6>1, <6>a
          <6>. HIDE DEF n
          <6>2. probe[q].joined[d] # 0 /\ d = c
                => attempts'[d][probe[q].joined[d]] = attempts[d][probe[q].joined[d]]
            BY <4>3, <6>b
          <6>3. probe'[q] = probe[q] /\ finishedBefore'[q] = finishedBefore[q]
            BY <2>1, <4>7, <5>1
          <6>4. CASE d # c
            BY <4>4, <5>0, <6>3, <6>4 DEF Fresh
          <6>5. CASE d = c
            <7>1. /\ Len(attempts'[c]) = n /\ inFlight'[c] = n
                  /\ finishedBefore[q][c] < n /\ probe[q].joined[c] <= n
              BY <1>l, <4>2, <4>3, <4>4, <5>0, <6>1, <6>5 DEF Fresh
            <7>2. finishedBefore[q][c] <= n
              BY <4>2, <6>1, <6>5, <7>1
            <7>. QED BY <5>0, <6>2, <6>3, <6>5, <7>1, <7>2 DEF Fresh
          <6>. QED BY <6>4, <6>5
        <5>2. CASE q = p /\ d # c
          <6>. HIDE DEF r, joined, n
          <6>. QED BY <2>1, <3>2, <4>2, <4>4, <4>7, <5>0, <5>2 DEF Fresh
        <5>3. CASE q = p /\ d = c
          <6>1. finishedBefore[p][c] \in Nat /\ finishedBefore[p][c] < n
            BY <1>l, <5>0, <5>3 DEF Fresh
          <6>2. n <= n
            BY <1>l
          <6>. HIDE DEF r, joined, n
          <6>. QED BY <2>1, <3>2, <4>2, <4>3, <4>4, <4>7, <5>3, <6>1, <6>2 DEF Fresh
        <5>. QED BY <5>1, <5>2, <5>3
      <4>9. \A d \in Checkers : Len(attempts'[d]) <= ProbeLimit
        <5>1. n <= ProbeLimit
          BY <4>2, ReadinessAssumption
        <5>. QED BY <1>0, <4>3, <4>4, <5>1
      <4>10. finishedBefore' \in [Probes -> [Checkers -> 0..ProbeLimit]]
        BY <1>0, <2>1
      <4>. HIDE DEF n
      <4>11. ReadinessFacts'
        BY <4>4, <4>6, <4>7, <4>8, <4>9, <4>10 DEF ReadinessFacts
      <4>. QED BY <4>11, PrimedParts
    <3>. QED BY <3>3, <3>4
  <2>. QED BY <1>4, <2>3, <2>4 DEF ProbeTakes
<1>5. ASSUME NEW c \in Checkers, CheckEnds(c) PROVE ReadinessIInv'
  <2>1. PICK outcome \in {"ok", "failed"} :
          attempts' = [attempts EXCEPT ![c][inFlight[c]] = outcome]
    BY <1>5 DEF CheckEnds
  <2>2. inFlight[c] # 0 /\ inFlight' = [inFlight EXCEPT ![c] = 0] /\ UNCHANGED <<probe, finishedBefore>>
    BY <1>5 DEF CheckEnds
  <2>3. inFlight[c] \in 1..Len(attempts[c]) /\ attempts[c] \in Seq(Outcomes)
        /\ attempts[c][inFlight[c]] = "running" /\ DOMAIN attempts[c] = 1..Len(attempts[c])
    BY <1>0, <1>l, <2>2 DEF InFlightRuns
  <2>4. /\ attempts'[c] = [attempts[c] EXCEPT ![inFlight[c]] = outcome] /\ inFlight'[c] = 0
        /\ \A d \in Checkers \ {c} : attempts'[d] = attempts[d] /\ inFlight'[d] = inFlight[d]
    BY <1>0, <2>1, <2>2
  <2>5. /\ attempts'[c] \in Seq(Outcomes) /\ Len(attempts'[c]) = Len(attempts[c])
        /\ DOMAIN attempts'[c] = DOMAIN attempts[c]
        /\ attempts'[c][inFlight[c]] = outcome
        /\ \A m \in DOMAIN attempts[c] : m # inFlight[c] => attempts'[c][m] = attempts[c][m]
    <3>1. outcome \in Outcomes
      BY DEF Outcomes
    <3>. QED BY <2>3, <2>4, <3>1
  <2>6. attempts' \in [Checkers -> Seq(Outcomes)] /\ inFlight' \in [Checkers -> 0..ProbeLimit]
    BY <1>0, <1>z, <2>1, <2>2, <2>5
  <2>7. \A d \in Checkers : Len(attempts'[d]) <= ProbeLimit
    BY <1>0, <2>4, <2>5
  <2>8. InFlightRuns'
    <3>1. \A m \in DOMAIN attempts'[c] : attempts'[c][m] # "running" /\ m # 0
      BY <1>0, <2>3, <2>5 DEF InFlightRuns
    <3>2. ASSUME NEW d \in Checkers \ {c}
          PROVE  /\ inFlight'[d] \in {0, Len(attempts'[d])}
                 /\ \A m \in DOMAIN attempts'[d] : attempts'[d][m] = "running" <=> m = inFlight'[d]
      BY <1>0, <2>4 DEF InFlightRuns
    <3>3. /\ inFlight'[c] \in {0, Len(attempts'[c])}
          /\ \A m \in DOMAIN attempts'[c] : attempts'[c][m] = "running" <=> m = inFlight'[c]
      BY <2>4, <3>1
    <3>. QED BY <3>2, <3>3 DEF InFlightRuns
  <2>9. ASSUME NEW q \in Probes, NEW d \in Checkers PROVE Fresh(q, d)'
    <3>1. Fresh(q, d) /\ probe[q] \in ProbeType
      BY <1>0
    <3>2. CASE d # c
      BY <2>2, <2>4, <3>1, <3>2 DEF Fresh
    <3>3. CASE d = c
      <4>1. probe[q].joined[c] \in Nat /\ DOMAIN attempts[c] = 1..Len(attempts[c])
        BY <2>3, <3>1 DEF ProbeType
      <4>a. probe[q].result[c] = "ok"
            => probe[q].joined[c] \in DOMAIN attempts[c] /\ attempts[c][probe[q].joined[c]] = "ok"
        BY <1>l, <2>3, <3>1, <3>3, <4>1 DEF Fresh
      <4>2. probe[q].result[c] = "ok" => attempts'[c][probe[q].joined[c]] = "ok"
        BY <2>3, <2>5, <4>a
      <4>. QED BY <2>2, <2>4, <2>5, <3>1, <3>3, <4>2 DEF Fresh
    <3>. QED BY <3>2, <3>3
  <2>10. ReadinessFacts'
    BY <1>0, <2>2, <2>6, <2>7, <2>8, <2>9 DEF ReadinessFacts
  <2>. QED BY <2>10, PrimedParts
<1>6. CASE UNCHANGED readinessVars
  <2>1. InFlightRuns' /\ \A q \in Probes, c \in Checkers : Fresh(q, c)'
    BY <1>0, <1>6 DEF readinessVars, InFlightRuns, Fresh
  <2>2. ReadinessFacts'
    BY <1>0, <1>6, <2>1 DEF readinessVars, ReadinessFacts
  <2>. QED BY <2>2, PrimedParts
<1>. QED BY <1>1, <1>2, <1>3, <1>4, <1>5, <1>6 DEF ReadinessNext

-----------------------------------------------------------------------------
(* A request and its fairings.                                             *)

\* Sequences without duplicates that share no element make one when joined.
LEMMA JoinedOnce ==
  ASSUME NEW S, NEW s \in Seq(S), NEW t \in Seq(S), IsInjective(s), IsInjective(t),
         Range(s) \cap Range(t) = {}
  PROVE  IsInjective(s \o t)
<1>0. /\ Len(s) \in Nat /\ Len(t) \in Nat /\ DOMAIN s = 1..Len(s) /\ DOMAIN t = 1..Len(t)
      /\ DOMAIN (s \o t) = 1..Len(s) + Len(t)
      /\ \A i \in 1..Len(s) + Len(t) : (s \o t)[i] = IF i <= Len(s) THEN s[i] ELSE t[i - Len(s)]
  BY ConcatProperties, LenProperties
<1>. SUFFICES ASSUME NEW i \in 1..Len(s) + Len(t), NEW j \in 1..Len(s) + Len(t),
                     (s \o t)[i] = (s \o t)[j]
              PROVE  i = j
  BY <1>0 DEF IsInjective
<1>1. ASSUME NEW k \in 1..Len(s), NEW m \in 1..Len(t) PROVE s[k] # t[m]
  BY <1>0 DEF Range
<1>2. CASE i <= Len(s) /\ j <= Len(s)
  <2>1. i \in DOMAIN s /\ j \in DOMAIN s /\ s[i] = s[j]
    BY <1>0, <1>2
  <2>. QED BY <2>1 DEF IsInjective
<1>3. CASE i > Len(s) /\ j > Len(s)
  <2>1. i - Len(s) \in DOMAIN t /\ j - Len(s) \in DOMAIN t /\ t[i - Len(s)] = t[j - Len(s)]
    BY <1>0, <1>3
  <2>2. i - Len(s) = j - Len(s)
    BY <2>1 DEF IsInjective
  <2>. QED BY <1>0, <2>2
<1>4. CASE i <= Len(s) /\ j > Len(s)
  <2>1. i \in 1..Len(s) /\ j - Len(s) \in 1..Len(t) /\ s[i] = t[j - Len(s)]
    BY <1>0, <1>4
  <2>. QED BY <1>1, <2>1
<1>5. CASE i > Len(s) /\ j <= Len(s)
  <2>1. j \in 1..Len(s) /\ i - Len(s) \in 1..Len(t) /\ s[j] = t[i - Len(s)]
    BY <1>0, <1>5
  <2>. QED BY <1>1, <2>1
<1>. QED BY <1>0, <1>2, <1>3, <1>4, <1>5

\* A fairing that enters is taken from those to run and put to those that ran.
LEMMA HeadMoves ==
  ASSUME NEW S, NEW s \in Seq(S), NEW t \in Seq(S), t # <<>>
  PROVE  /\ Append(s, Head(t)) \in Seq(S) /\ Tail(t) \in Seq(S)
         /\ Append(s, Head(t)) \o Tail(t) = s \o t
<1>1. /\ Head(t) \in S /\ Head(t) = t[1] /\ Tail(t) \in Seq(S) /\ Len(Tail(t)) = Len(t) - 1
      /\ \A i \in 1..Len(Tail(t)) : Tail(t)[i] = t[i + 1]
      /\ Len(s) \in Nat /\ Len(t) \in Nat \ {0}
  BY HeadTailProperties, LenProperties, EmptySeq
<1>. DEFINE u == Append(s, Head(t))
<1>2. /\ u \in Seq(S) /\ Len(u) = Len(s) + 1 /\ u[Len(s) + 1] = t[1]
      /\ \A i \in 1..Len(s) : u[i] = s[i]
  BY <1>1, AppendProperties
<1>. HIDE DEF u
<1>3. /\ u \o Tail(t) \in Seq(S) /\ Len(u \o Tail(t)) = Len(s) + Len(t)
      /\ \A i \in 1..Len(s) + Len(t) :
           (u \o Tail(t))[i] = IF i <= Len(s) + 1 THEN u[i] ELSE Tail(t)[i - (Len(s) + 1)]
  <2>1. /\ u \o Tail(t) \in Seq(S) /\ Len(u \o Tail(t)) = Len(u) + Len(Tail(t))
        /\ \A i \in 1..Len(u) + Len(Tail(t)) :
             (u \o Tail(t))[i] = IF i <= Len(u) THEN u[i] ELSE Tail(t)[i - Len(u)]
    BY <1>1, <1>2, ConcatProperties
  <2>2. Len(u) + Len(Tail(t)) = Len(s) + Len(t)
    BY <1>1, <1>2
  <2>. QED BY <1>2, <2>1, <2>2
<1>4. /\ s \o t \in Seq(S) /\ Len(s \o t) = Len(s) + Len(t)
      /\ \A i \in 1..Len(s) + Len(t) : (s \o t)[i] = IF i <= Len(s) THEN s[i] ELSE t[i - Len(s)]
  BY ConcatProperties
<1>5. ASSUME NEW i \in 1..Len(s) + Len(t) PROVE (u \o Tail(t))[i] = (s \o t)[i]
  <2>1. CASE i <= Len(s)
    <3>1. i \in 1..Len(s) /\ i <= Len(s) + 1
      BY <1>1, <2>1
    <3>. QED BY <1>2, <1>3, <1>4, <3>1
  <2>2. CASE i = Len(s) + 1
    <3>1. ~ (i <= Len(s)) /\ i - Len(s) = 1 /\ i <= Len(s) + 1
      BY <1>1, <2>2
    <3>. QED BY <1>2, <1>3, <1>4, <2>2, <3>1
  <2>3. CASE i > Len(s) + 1
    <3>1. /\ ~ (i <= Len(s)) /\ ~ (i <= Len(s) + 1) /\ i - (Len(s) + 1) \in 1..Len(Tail(t))
          /\ (i - (Len(s) + 1)) + 1 = i - Len(s)
      BY <1>1, <2>3
    <3>2. (u \o Tail(t))[i] = Tail(t)[i - (Len(s) + 1)] /\ (s \o t)[i] = t[i - Len(s)]
      BY <1>3, <1>4, <3>1
    <3>3. Tail(t)[i - (Len(s) + 1)] = t[(i - (Len(s) + 1)) + 1]
      BY <1>1, <3>1
    <3>. QED BY <3>1, <3>2, <3>3
  <2>4. i \in Int /\ Len(s) \in Int
    BY <1>1
  <2>5. i <= Len(s) \/ i = Len(s) + 1 \/ i > Len(s) + 1
    BY <2>4
  <2>. QED BY <2>1, <2>2, <2>3, <2>5
<1>6. u \o Tail(t) = s \o t
  <2>1. \A i \in 1..Len(u \o Tail(t)) : (u \o Tail(t))[i] = (s \o t)[i]
    BY <1>3, <1>5
  <2>. QED BY <1>3, <1>4, <2>1, SeqEqual
<1>. QED BY <1>1, <1>2, <1>6 DEF u

\* A list read backwards is a list of the same fairings.
LEMMA ReverseType ==
  ASSUME NEW S, NEW s \in Seq(S)
  PROVE  Reverse(s) \in Seq(S)
<1>1. Len(s) \in Nat /\ s \in [1..Len(s) -> S]
  BY LenProperties
<1>2. \A i \in 1..Len(s) : s[(Len(s) - i) + 1] \in S
  BY <1>1
<1>3. Reverse(s) \in [1..Len(s) -> S]
  BY <1>1, <1>2 DEF Reverse
<1>. QED BY <1>1, <1>3, SeqDef

\* A prefix has no duplicates either.
LEMMA PrefixOnce ==
  ASSUME NEW S, NEW s \in Seq(S), NEW t \in Seq(S), IsInjective(s \o t)
  PROVE  IsInjective(s)
<1>1. /\ Len(s) \in Nat /\ Len(t) \in Nat /\ DOMAIN s = 1..Len(s)
      /\ DOMAIN (s \o t) = 1..Len(s) + Len(t)
      /\ \A i \in 1..Len(s) + Len(t) : (s \o t)[i] = IF i <= Len(s) THEN s[i] ELSE t[i - Len(s)]
  BY ConcatProperties, LenProperties
<1>2. \A i \in DOMAIN s : i \in DOMAIN (s \o t) /\ (s \o t)[i] = s[i]
  BY <1>1
<1>. QED BY <1>2 DEF IsInjective

\* What the types say of a request.
LEMMA FairingTypes ==
  ASSUME FairingTypeOK
  PROVE  /\ Len(chain) \in Nat \ {0} /\ DOMAIN chain = 1..Len(chain)
         /\ \A i \in 1..Len(chain) : chain[i].kind \in StageKinds /\ chain[i].own \in Seq(Fairings)
         /\ stage \in Nat
         /\ GlobalFairings \in Seq(Fairings) /\ DOMAIN GlobalFairings = 1..Len(GlobalFairings)
         /\ Met \in Seq(Fairings) /\ Range(Met) = Range(entered) \cup Range(pending)
         /\ pending = <<>> => Met = entered
<1>1. chain \in Seq(Stages) /\ chain # <<>>
  BY FairingAssumption DEF FairingTypeOK
<1>2. /\ Len(chain) \in Nat \ {0} /\ DOMAIN chain = 1..Len(chain)
      /\ chain \in [1..Len(chain) -> Stages]
  BY <1>1, LenProperties, EmptySeq
<1>3. entered \in Seq(Fairings) /\ pending \in Seq(Fairings)
  BY DEF FairingTypeOK
<1>4. Met \in Seq(Fairings) /\ Range(Met) = Range(entered) \cup Range(pending)
  BY <1>3, ConcatProperties, RangeConcatenation DEF Met
<1>5. pending = <<>> => Met = entered
  BY <1>3, ConcatEmptySeq DEF Met
<1>6. stage \in Nat
  BY <1>2 DEF FairingTypeOK
<1>7. GlobalFairings \in Seq(Fairings) /\ DOMAIN GlobalFairings = 1..Len(GlobalFairings)
  BY FairingAssumption, LenProperties
<1>. QED BY <1>2, <1>4, <1>5, <1>6, <1>7 DEF Stages

\* No request has come.
LEMMA FairingStarts == FairingInit => FairingIInv
<1>. SUFFICES ASSUME FairingInit PROVE FairingIInv
  OBVIOUS
<1>1. chain \in Chains
  BY FairingAssumption DEF FairingInit
<1>2. chain \in Seq(Stages)
  BY <1>1, FairingAssumption
<1>3. stage \in 0..Len(chain) + 1
  BY <1>2, LenProperties DEF FairingInit
<1>4. FairingTypeOK
  BY <1>1, <1>3, EmptySeq DEF FairingInit, FairingTypeOK, Replies
<1>. QED BY <1>4 DEF FairingInit, FairingIInv, OnItsWay, StagesEntered, GlobalsFirst, EnteredOnce,
            Inside

\* The lists that the fairings of a stage are drawn from are lists of fairings.
LEMMA StageFairingsType ==
  ASSUME FairingTypeOK, NEW i \in 1..Len(chain)
  PROVE  /\ StageFairings(chain[i]) \in Seq(Fairings)
         /\ Range(chain[i].own) \subseteq Range(StageFairings(chain[i]))
<1>. DEFINE own == chain[i].own
<1>1. own \in Seq(Fairings) /\ chain[i].kind \in StageKinds
  BY FairingTypes
<1>2. GlobalFairings \in Seq(Fairings) /\ GlobalAuth \in Seq(Fairings) /\ <<>> \in Seq(Fairings)
  BY FairingAssumption, EmptySeq
<1>3. Range(<<>>) = {}
  BY DEF Range
<1>4. chain[i].kind = "websocket" => own = <<>>
  BY FairingTypes, FairingAssumption DEF FairingTypeOK
<1>5. /\ GlobalFairings \o own \in Seq(Fairings) /\ <<>> \o own \in Seq(Fairings)
      /\ own \o GlobalFairings \in Seq(Fairings) /\ GlobalAuth \o GlobalFairings \in Seq(Fairings)
  BY <1>1, <1>2, ConcatProperties
<1>6. /\ Range(GlobalFairings \o own) = Range(GlobalFairings) \cup Range(own)
      /\ Range(own \o GlobalFairings) = Range(own) \cup Range(GlobalFairings)
      /\ Range(<<>> \o own) = Range(<<>>) \cup Range(own)
  <2>. HIDE DEF own
  <2>1. Range(GlobalFairings \o own) = Range(GlobalFairings) \cup Range(own)
    BY <1>1, <1>2, RangeConcatenation
  <2>2. Range(own \o GlobalFairings) = Range(own) \cup Range(GlobalFairings)
    BY <1>1, <1>2, RangeConcatenation
  <2>0. ASSUME NEW first \in Seq(Fairings) PROVE Range(first \o own) = Range(first) \cup Range(own)
    BY <1>1, RangeConcatenation
  <2>3. Range(<<>> \o own) = Range(<<>>) \cup Range(own)
    BY <1>2, <2>0, Zenon
  <2>. QED BY <2>1, <2>2, <2>3
<1>. HIDE DEF own
<1>7. StageFairings(chain[i]) \in {GlobalFairings \o own, <<>> \o own, own, own \o GlobalFairings}
      \/ (StageFairings(chain[i]) = GlobalAuth \o GlobalFairings /\ own = <<>>)
  BY <1>1, <1>4 DEF StageFairings, StageKinds, own
<1>. QED BY <1>1, <1>3, <1>5, <1>6, <1>7 DEF own

\* Every step keeps what the fairings that ran say of the stages passed.
LEMMA FairingKept == FairingIInv /\ [FairingNext]_fairingVars => FairingIInv'
<1>. SUFFICES ASSUME FairingIInv, [FairingNext]_fairingVars PROVE FairingIInv'
  OBVIOUS
<1>0. FairingTypeOK /\ OnItsWay /\ StagesEntered /\ GlobalsFirst /\ EnteredOnce
  BY DEF FairingIInv
<1>t. /\ Len(chain) \in Nat \ {0} /\ DOMAIN chain = 1..Len(chain) /\ stage \in Nat
      /\ stage \in 0..Len(chain) + 1
      /\ entered \in Seq(Fairings) /\ pending \in Seq(Fairings)
      /\ Met \in Seq(Fairings) /\ Range(Met) = Range(entered) \cup Range(pending)
      /\ pending = <<>> => Met = entered
  BY <1>0, FairingTypes DEF FairingTypeOK
<1>1. CASE RequestArrives
  <2>1. /\ mode = "idle" /\ mode' = "in" /\ stage' = 1
        /\ chain' \in Chains /\ strictMode' \in BOOLEAN
        /\ UNCHANGED <<pending, entered, globalStarted, responded, responseRun, terminal, reply,
                       handled>>
    BY <1>1 DEF RequestArrives
  <2>2. entered = <<>> /\ ~ globalStarted /\ pending = <<>> /\ ~ handled /\ ~ responseRun
    BY <1>0, <2>1 DEF OnItsWay
  <2>3. Met' = <<>> /\ Range(Met') = {} /\ IsInjective(Met')
    BY <1>t, <2>1, <2>2 DEF Met, Range, IsInjective
  <2>4. Len(chain') \in Nat \ {0}
    BY <2>1, FairingAssumption, LenProperties, EmptySeq
  <2>5. FairingTypeOK'
    BY <1>0, <2>1, <2>4 DEF FairingTypeOK
  <2>6. OnItsWay'
    BY <1>0, <2>1, <2>2 DEF OnItsWay, Inside
  <2>7. StagesEntered' /\ GlobalsFirst'
    BY <2>1, <2>2 DEF StagesEntered, GlobalsFirst, Inside, StagesMet
  <2>8. EnteredOnce'
    BY <2>3 DEF EnteredOnce
  <2>. QED BY <2>5, <2>6, <2>7, <2>8 DEF FairingIInv
<1>2. CASE EntersStage
  <2>. DEFINE own == chain[stage].own
              g == IF globalStarted THEN <<>> ELSE GlobalFairings
  <2>1. /\ mode = "in" /\ mode' = "enter" /\ stage <= Len(chain) /\ pending = <<>>
        /\ pending' = StageFairings(chain[stage])
        /\ globalStarted' = (globalStarted \/ strictMode)
        /\ UNCHANGED <<strictMode, chain, stage, entered, responded, responseRun, terminal, reply,
                       handled>>
    BY <1>0, <1>2 DEF EntersStage, OnItsWay
  <2>2. stage \in 1..Len(chain) /\ ~ handled /\ ~ responseRun
    BY <1>0, <1>t, <2>1 DEF OnItsWay, Inside
  <2>3. pending' \in Seq(Fairings) /\ Range(own) \subseteq Range(pending')
    BY <1>0, <2>1, <2>2, StageFairingsType
  <2>4. Met' = entered \o pending' /\ Met = entered
    BY <1>t, <2>1 DEF Met
  <2>5. Range(Met') = Range(Met) \cup Range(pending')
    BY <1>t, <2>3, <2>4, RangeConcatenation
  <2>6. FairingTypeOK'
    BY <1>0, <2>1, <2>3 DEF FairingTypeOK
  <2>7. OnItsWay'
    BY <1>0, <2>1, <2>2 DEF OnItsWay, Inside
  <2>8. StagesEntered'
    <3>1. \A i \in 1..stage - 1 : Range(chain[i].own) \subseteq Range(Met)
      BY <1>0, <2>1 DEF StagesEntered, Inside, StagesMet
    <3>2. \A i \in 1..stage : Range(chain[i].own) \subseteq Range(Met')
      <4>1. \A i \in 1..stage : i \in 1..stage - 1 \/ i = stage
        BY <1>t
      <4>. QED BY <2>3, <2>5, <3>1, <4>1
    <3>. QED BY <2>1, <2>2, <3>2 DEF StagesEntered, StagesMet
  <2>a. /\ own \in Seq(Fairings) /\ g \in Seq(Fairings) /\ g \o own \in Seq(Fairings)
        /\ Range(g) \subseteq Range(GlobalFairings) /\ IsInjective(g)
        /\ Range(g \o own) = Range(g) \cup Range(own) /\ <<>> \o (g \o own) = g \o own
        /\ Len(g \o own) = Len(g) + Len(own) /\ Len(g) \in Nat /\ Len(own) \in Nat
        /\ DOMAIN g = 1..Len(g)
        /\ \A i \in 1..Len(g) + Len(own) :
             (g \o own)[i] = IF i <= Len(g) THEN g[i] ELSE own[i - Len(g)]
    <3>1. own \in Seq(Fairings)
      BY <1>0, <2>2, FairingTypes
    <3>2. g \in Seq(Fairings) /\ IsInjective(g) /\ Range(g) \subseteq Range(GlobalFairings)
      BY FairingAssumption, EmptySeq DEF IsInjective, Range
    <3>. HIDE DEF g, own
    <3>. QED BY <3>1, <3>2, ConcatProperties, ConcatEmptySeq, RangeConcatenation, LenProperties
  <2>b. strictMode => pending' = g \o own
    BY <2>1 DEF StageFairings
  <2>c. /\ IsInjective(own) /\ Range(own) \cap Range(GlobalFairings) = {}
        /\ \A j \in 1..Len(chain) \ {stage} : Range(own) \cap Range(chain[j].own) = {}
    BY <1>0, <1>t, <2>2, FairingAssumption DEF FairingTypeOK
  <2>d. ~ globalStarted /\ strictMode => stage = 1 /\ entered = <<>>
    BY <1>0, <2>1 DEF OnItsWay, Inside
  <2>9. GlobalsFirst'
    <3>. SUFFICES ASSUME strictMode
                  PROVE  /\ Len(GlobalFairings) <= Len(Met')
                         /\ \A i \in DOMAIN GlobalFairings : Met'[i] = GlobalFairings[i]
      BY <2>1 DEF GlobalsFirst
    <3>1. CASE globalStarted
      <4>1. /\ Len(GlobalFairings) <= Len(Met)
            /\ \A i \in DOMAIN GlobalFairings : Met[i] = GlobalFairings[i]
        BY <1>0, <2>1, <3>1 DEF GlobalsFirst, Inside
      <4>2. /\ Len(Met') = Len(Met) + Len(pending') /\ Len(Met) \in Nat /\ Len(pending') \in Nat
            /\ \A i \in 1..Len(Met) + Len(pending') : i <= Len(Met) => Met'[i] = Met[i]
        BY <1>t, <2>3, <2>4, ConcatProperties, LenProperties
      <4>3. DOMAIN GlobalFairings = 1..Len(GlobalFairings) /\ Len(GlobalFairings) \in Nat
        BY FairingAssumption, LenProperties
      <4>. QED BY <4>1, <4>2, <4>3
    <3>2. CASE ~ globalStarted
      <4>1. Met' = g \o own /\ g = GlobalFairings
        BY <2>4, <2>a, <2>b, <2>d, <3>2
      <4>. HIDE DEF g, own
      <4>. QED BY <2>a, <4>1
    <3>. QED BY <3>1, <3>2
  <2>10. EnteredOnce'
    <3>. SUFFICES ASSUME strictMode
                  PROVE  /\ IsInjective(Met')
                         /\ \A i \in 1..Len(chain) : i > stage =>
                              Range(chain[i].own) \cap Range(Met') = {}
      BY <1>t, <2>1 DEF EnteredOnce, StagesMet
    <3>1. /\ IsInjective(Met)
          /\ \A i \in 1..Len(chain) : i > stage - 1 => Range(chain[i].own) \cap Range(Met) = {}
      BY <1>0, <1>t, <2>1 DEF EnteredOnce, Inside, StagesMet
    <3>2. \A i \in 1..Len(chain) : i > stage => i > stage - 1 /\ i # stage
      BY <1>t
    <3>3. \A i \in 1..Len(chain) : Range(chain[i].own) \cap Range(GlobalFairings) = {}
      BY <1>0, <1>t, FairingAssumption DEF FairingTypeOK
    <3>4. Range(pending') = Range(g) \cup Range(own)
      BY <2>a, <2>b
    <3>5. \A i \in 1..Len(chain) : i > stage => Range(chain[i].own) \cap Range(Met') = {}
      <4>. HIDE DEF g, own
      <4>. QED BY <2>5, <2>a, <2>c, <3>1, <3>2, <3>3, <3>4
    <3>6. IsInjective(pending')
      <4>1. Range(g) \cap Range(own) = {}
        BY <2>a, <2>c
      <4>2. IsInjective(g \o own)
        <5>. HIDE DEF g, own
        <5>. QED BY <2>a, <2>c, <4>1, JoinedOnce
      <4>. QED BY <2>b, <4>2
    <3>7. Range(Met) \cap Range(pending') = {}
      <4>1. stage > stage - 1
        BY <1>t
      <4>2. Range(own) \cap Range(Met) = {}
        BY <2>2, <3>1, <4>1
      <4>3. Range(g) \cap Range(Met) = {}
        <5>1. CASE globalStarted
          BY <5>1 DEF Range
        <5>2. CASE ~ globalStarted
          <6>1. Met = <<>>
            BY <2>4, <2>d, <5>2
          <6>. QED BY <6>1 DEF Range
        <5>. QED BY <5>1, <5>2
      <4>. HIDE DEF g, own
      <4>. QED BY <3>4, <4>2, <4>3
    <3>8. IsInjective(Met')
      BY <1>t, <2>3, <2>4, <3>1, <3>6, <3>7, JoinedOnce
    <3>. QED BY <3>5, <3>8
  <2>. QED BY <2>6, <2>7, <2>8, <2>9, <2>10 DEF FairingIInv
<1>3. CASE Accepts
  <2>1. /\ mode = "enter" /\ pending # <<>>
        /\ entered' = Append(entered, Head(pending)) /\ pending' = Tail(pending)
        /\ UNCHANGED <<strictMode, chain, stage, globalStarted, responded, responseRun, terminal,
                       reply, handled, mode>>
    BY <1>3 DEF Accepts
  <2>2. entered' \in Seq(Fairings) /\ pending' \in Seq(Fairings) /\ Met' = Met
    BY <1>t, <2>1, HeadMoves DEF Met
  <2>3. ~ handled /\ ~ responseRun
    BY <1>0, <2>1 DEF OnItsWay
  <2>4. FairingTypeOK'
    BY <1>0, <2>1, <2>2 DEF FairingTypeOK
  <2>5. OnItsWay'
    BY <1>0, <2>1, <2>3 DEF OnItsWay, Inside
  <2>6. StagesEntered' /\ GlobalsFirst' /\ EnteredOnce'
    BY <1>0, <2>1, <2>2, <2>3 DEF StagesEntered, GlobalsFirst, EnteredOnce, Inside, StagesMet
  <2>. QED BY <2>4, <2>5, <2>6 DEF FairingIInv
<1>4. CASE EndsRequest \/ Refuses \/ Panics
  <2>1. /\ mode = "enter" /\ pending # <<>> /\ pending' = <<>> /\ mode' = "out"
        /\ terminal' \in BOOLEAN /\ reply' \in Replies
        /\ UNCHANGED <<strictMode, chain, stage, globalStarted, responded, responseRun, handled>>
    BY <1>0, <1>4 DEF EndsRequest, Refuses, Panics, FairingTypeOK, Replies
  <2>2. entered' \in {entered, Append(entered, Head(pending))}
    BY <1>4 DEF EndsRequest, Refuses, Panics
  <2>3. ~ handled /\ ~ responseRun
    BY <1>0, <2>1 DEF OnItsWay
  <2>4. /\ entered' \in Seq(Fairings)
        /\ Append(entered, Head(pending)) \in Seq(Fairings) /\ Tail(pending) \in Seq(Fairings)
        /\ Append(entered, Head(pending)) \o Tail(pending) = entered \o pending
    BY <1>t, <2>1, <2>2, HeadMoves
  <2>5. FairingTypeOK'
    BY <1>0, <2>1, <2>4, EmptySeq DEF FairingTypeOK
  <2>6. OnItsWay'
    BY <1>0, <2>1, <2>3 DEF OnItsWay, Inside
  <2>7. StagesEntered' /\ GlobalsFirst'
    BY <2>1, <2>3 DEF StagesEntered, GlobalsFirst, Inside
  <2>8. EnteredOnce'
    <3>. SUFFICES ASSUME strictMode PROVE IsInjective(Met')
      BY <2>1 DEF EnteredOnce, Inside
    <3>1. IsInjective(entered \o pending)
      BY <1>0 DEF EnteredOnce, Met
    <3>2. IsInjective(entered) /\ IsInjective(Append(entered, Head(pending)))
      BY <1>t, <2>4, <3>1, PrefixOnce
    <3>3. Met' = entered'
      BY <2>1, <2>4, ConcatEmptySeq DEF Met
    <3>. QED BY <2>2, <3>2, <3>3
  <2>. QED BY <2>5, <2>6, <2>7, <2>8 DEF FairingIInv
<1>5. CASE StageDone
  <2>1. /\ mode = "enter" /\ pending = <<>> /\ mode' = "in" /\ stage' = stage + 1
        /\ UNCHANGED <<strictMode, chain, pending, entered, globalStarted, responded, responseRun,
                       terminal, reply, handled>>
    BY <1>5 DEF StageDone
  <2>2. Met' = Met /\ ~ handled /\ ~ responseRun /\ stage <= Len(chain) /\ stage >= 1
    BY <1>0, <2>1 DEF OnItsWay, Inside, Met
  <2>3. stage' \in 0..Len(chain) + 1 /\ stage' - 1 = stage /\ stage' >= 1
    BY <1>t, <2>1, <2>2
  <2>4. FairingTypeOK'
    BY <1>0, <2>1, <2>3 DEF FairingTypeOK
  <2>5. OnItsWay'
    BY <1>0, <2>1, <2>2, <2>3 DEF OnItsWay, Inside
  <2>6. StagesEntered' /\ EnteredOnce'
    BY <1>0, <2>1, <2>2, <2>3 DEF StagesEntered, EnteredOnce, Inside, StagesMet
  <2>7. GlobalsFirst'
    BY <1>0, <2>1, <2>2 DEF GlobalsFirst, Inside
  <2>. QED BY <2>4, <2>5, <2>6, <2>7 DEF FairingIInv
<1>6. CASE HandlerErrs \/ HandlerPanics \/ HandlerWrites \/ HandlerReturns
  <2>1. /\ mode = "in" /\ stage = Len(chain) + 1 /\ mode' = "out" /\ handled' = TRUE
        /\ terminal' \in BOOLEAN /\ reply' \in Replies
        /\ UNCHANGED <<strictMode, chain, stage, pending, entered, globalStarted>>
        /\ UNCHANGED <<responded, responseRun>>
           \/ (responded' = responded \o Reverse(entered) /\ responseRun' = TRUE)
    BY <1>0, <1>6 DEF HandlerErrs, HandlerPanics, HandlerWrites, HandlerReturns, ResponseFairings,
       FairingTypeOK, Replies
  <2>2. /\ ~ handled /\ ~ responseRun /\ pending = <<>> /\ responded = <<>> /\ Met = entered
    BY <1>0, <1>t, <2>1 DEF OnItsWay
  <2>3. Reverse(entered) \in Seq(Fairings) /\ <<>> \o Reverse(entered) = Reverse(entered)
    BY <1>t, ReverseType, ConcatEmptySeq
  <2>4. responded' = (IF responseRun' THEN Reverse(entered) ELSE <<>>) /\ responseRun' \in BOOLEAN
    <3>1. CASE UNCHANGED <<responded, responseRun>>
      BY <1>0, <2>2, <3>1 DEF FairingTypeOK
    <3>2. CASE responded' = responded \o Reverse(entered) /\ responseRun' = TRUE
      BY <2>2, <2>3, <3>2
    <3>. QED BY <2>1, <3>1, <3>2
  <2>5. Met' = Met
    BY <2>1 DEF Met
  <2>6. FairingTypeOK'
    BY <1>0, <2>1, <2>3, <2>4, EmptySeq DEF FairingTypeOK
  <2>7. OnItsWay'
    BY <1>0, <2>1, <2>2, <2>4 DEF OnItsWay, Inside
  <2>8. StagesEntered'
    <3>1. StagesMet = Len(chain)
      BY <1>t, <2>1 DEF StagesMet
    <3>2. \A i \in DOMAIN chain : Range(chain[i].own) \subseteq Range(entered)
      BY <1>0, <1>t, <2>1, <2>2, <3>1 DEF StagesEntered, Inside
    <3>. QED BY <2>1, <3>2 DEF StagesEntered, Inside
  <2>9. GlobalsFirst'
    <3>1. strictMode => globalStarted
      <4>1. stage # 1
        BY <1>t, <2>1
      <4>. QED BY <1>0, <2>1, <4>1 DEF OnItsWay, Inside
    <3>. QED BY <1>0, <2>1, <2>5, <3>1 DEF GlobalsFirst, Inside
  <2>10. EnteredOnce'
    BY <1>0, <2>1, <2>5 DEF EnteredOnce, Inside
  <2>. QED BY <2>6, <2>7, <2>8, <2>9, <2>10 DEF FairingIInv
<1>7. CASE FinishesResponse \/ RequestEnds
  <2>1. /\ mode = "out" /\ mode' \in {"out", "done"}
        /\ terminal' \in BOOLEAN /\ reply' \in Replies
        /\ UNCHANGED <<strictMode, chain, stage, pending, entered, globalStarted, handled>>
        /\ mode' = "done" => responseRun'
        /\ UNCHANGED <<responded, responseRun>>
           \/ (~ responseRun /\ responded' = responded \o Reverse(entered) /\ responseRun' = TRUE)
    BY <1>0, <1>7 DEF FinishesResponse, RequestEnds, ResponseFairings, FairingTypeOK, Replies
  <2>2. Reverse(entered) \in Seq(Fairings) /\ <<>> \o Reverse(entered) = Reverse(entered)
    BY <1>t, ReverseType, ConcatEmptySeq
  <2>3. responded' = (IF responseRun' THEN Reverse(entered) ELSE <<>>) /\ responseRun' \in BOOLEAN
    <3>1. CASE UNCHANGED <<responded, responseRun>>
      <4>1. responded = (IF responseRun THEN Reverse(entered) ELSE <<>>) /\ responseRun \in BOOLEAN
        BY <1>0 DEF FairingTypeOK, OnItsWay
      <4>. QED BY <3>1, <4>1
    <3>2. CASE ~ responseRun /\ responded' = responded \o Reverse(entered) /\ responseRun' = TRUE
      <4>1. responded = <<>>
        BY <1>0, <3>2 DEF OnItsWay
      <4>. QED BY <2>2, <3>2, <4>1
    <3>. QED BY <2>1, <3>1, <3>2
  <2>4. Met' = Met
    BY <2>1 DEF Met
  <2>5. FairingTypeOK'
    BY <1>0, <2>1, <2>2, <2>3, EmptySeq DEF FairingTypeOK
  <2>6. OnItsWay'
    BY <1>0, <2>1, <2>3 DEF OnItsWay, Inside
  <2>7. StagesEntered' /\ GlobalsFirst' /\ EnteredOnce'
    BY <1>0, <2>1, <2>4 DEF StagesEntered, GlobalsFirst, EnteredOnce, Inside
  <2>. QED BY <2>5, <2>6, <2>7 DEF FairingIInv
<1>8. CASE UNCHANGED fairingVars
  BY <1>0, <1>8 DEF fairingVars, FairingIInv, FairingTypeOK, OnItsWay, StagesEntered, GlobalsFirst,
     EnteredOnce, Inside, StagesMet, Met
<1>. QED BY <1>1, <1>2, <1>3, <1>4, <1>5, <1>6, <1>7, <1>8 DEF FairingNext

\* Once a request is done, its fairings bracket the handler.
LEMMA FairingsBracket == FairingIInv => FairingsBracketHandler
<1>. SUFFICES ASSUME FairingIInv, mode = "done" PROVE FairingsBracketHandler
  BY DEF FairingsBracketHandler
<1>0. FairingTypeOK /\ OnItsWay /\ StagesEntered /\ GlobalsFirst /\ EnteredOnce
  BY DEF FairingIInv
<1>1. responded = Reverse(entered) /\ pending = <<>> /\ Met = entered
  BY <1>0, FairingTypes DEF OnItsWay
<1>2. handled => \A i \in DOMAIN chain : Range(chain[i].own) \subseteq Range(entered)
  BY <1>0 DEF StagesEntered
<1>3. ASSUME handled, strictMode
      PROVE  SubSeq(entered, 1, Len(GlobalFairings)) = GlobalFairings
  <2>1. /\ GlobalFairings \in Seq(Fairings) /\ entered \in Seq(Fairings)
        /\ Len(GlobalFairings) \in Nat /\ Len(entered) \in Nat
        /\ DOMAIN GlobalFairings = 1..Len(GlobalFairings)
    BY <1>0, FairingAssumption, LenProperties DEF FairingTypeOK
  <2>2. /\ Len(GlobalFairings) <= Len(entered)
        /\ \A i \in 1..Len(GlobalFairings) : entered[i] = GlobalFairings[i]
    BY <1>0, <1>1, <1>3, <2>1 DEF GlobalsFirst
  <2>. DEFINE n == Len(GlobalFairings)
              s == SubSeq(entered, 1, n)
  <2>3. \A i \in 1..n : entered[i] \in Fairings
    BY <2>1, <2>2, ElementOfSeq
  <2>4. /\ s \in Seq(Fairings) /\ Len(s) = IF 1 <= n THEN n - 1 + 1 ELSE 0
        /\ \A i \in 1..n - 1 + 1 : s[i] = entered[1 + i - 1]
    BY <2>1, <2>3, SubSeqProperties
  <2>5. Len(s) = n
    BY <2>1, <2>4
  <2>6. ASSUME NEW i \in 1..n PROVE s[i] = GlobalFairings[i]
    <3>1. i \in 1..n - 1 + 1 /\ 1 + i - 1 = i
      BY <2>1
    <3>. QED BY <2>2, <2>4, <3>1
  <2>. HIDE DEF s
  <2>7. s = GlobalFairings
    BY <2>1, <2>4, <2>5, <2>6, SeqEqual
  <2>. QED BY <2>7 DEF s
<1>4. strictMode => IsInjective(entered)
  BY <1>0, <1>1 DEF EnteredOnce
<1>. QED BY <1>1, <1>2, <1>3, <1>4 DEF FairingsBracketHandler

-----------------------------------------------------------------------------
(* Access that is withdrawn.                                               *)

AuthorizerType == [loaded : BOOLEAN, unavailable : BOOLEAN, holder : Callers \union {Nobody}]

\* What the invariant says of one caller, when its visit is v.
TokenObeyed(v) ==
  /\ v.at = "ttl" => clock + v.ttl > ExpiresAt
  /\ v.task = "request" /\ v.at \in {"token", "blacklist"} => v.live \/ revoked
  /\ v.task = "request" /\ v.at \in {"permission", "refreshed"} => v.live \/ clock > ExpiresAt
  /\ v.at = "allowed" => v.live \/ clock > ExpiresAt

RuleObeyed(v, c) ==
  /\ v.at = "refreshed" => authorizer[v.instance].holder = c
  /\ v.task = "request" /\ v.at # "idle" /\ stored => v.grounds
  /\ v.task = "request" /\ v.at = "refreshed" /\ authorizer[v.instance].loaded => v.grounds
  /\ v.at \in {"blacklist", "allowed"} => v.task = "request"
  /\ v.at = "allowed" => v.grounds

AccessTypes ==
  /\ clock \in 0..ClockLimit /\ blacklistedTill \in Nat /\ revoked \in BOOLEAN /\ stored \in BOOLEAN
  /\ authorizer \in [Replicas -> AuthorizerType] /\ visit \in [Callers -> VisitType]

\* The invariant, part by part.
AccessFacts ==
  /\ AccessTypes
  /\ revoked => blacklistedTill > ExpiresAt
  /\ \A c \in Callers : TokenObeyed(visit[c]) /\ RuleObeyed(visit[c], c)

\* The inductive invariant, caller by caller.
LEMMA AccessParts == AuthorizationIInv <=> AccessFacts
BY DEF AuthorizationIInv, AuthorizationTypeOK, RevokedTillExpired, DecidedUnderLock,
       WithdrawnIsRefused, AccessFacts, AccessTypes, TokenObeyed, RuleObeyed, AuthorizerType

\* The same in the state after a step.
LEMMA AccessPartsNext == AccessFacts' => AuthorizationIInv'
BY AccessParts, PTL

\* A call that has returned.
LEMMA RestType ==
  /\ AtRest \in VisitType /\ AtRest.at = "idle"
  /\ \A c \in Callers : TokenObeyed(AtRest) /\ RuleObeyed(AtRest, c)
<1>1. (CHOOSE i \in Replicas : TRUE) \in Replicas
  BY AuthorizationAssumption
<1>2. AtRest \in VisitType /\ AtRest.at = "idle"
  BY <1>1 DEF AtRest, VisitType
<1>. QED BY <1>2 DEF TokenObeyed, RuleObeyed

\* Nobody has called.
LEMMA AuthorizationStarts == AuthorizationInit => AuthorizationIInv
<1>. SUFFICES ASSUME AuthorizationInit PROVE AuthorizationIInv
  OBVIOUS
<1>1. 0 \in 0..ClockLimit /\ 0 \in Nat
  BY AuthorizationAssumption
<1>2. authorizer \in [Replicas -> AuthorizerType] /\ visit \in [Callers -> VisitType]
  BY RestType DEF AuthorizationInit, AuthorizerType
<1>3. \A c \in Callers : TokenObeyed(visit[c]) /\ RuleObeyed(visit[c], c)
  BY RestType DEF AuthorizationInit
<1>4. AccessFacts
  BY <1>1, <1>2, <1>3 DEF AuthorizationInit, AccessFacts, AccessTypes
<1>. QED BY <1>4, AccessParts

\* A step of one caller that changes neither the clock nor the rule, and of the
\* authorizers only those that no other caller has locked.
LEMMA CallerSteps ==
  ASSUME AccessFacts, NEW c \in Callers, NEW v \in VisitType,
         visit' = [visit EXCEPT ![c] = v], UNCHANGED <<clock, stored>>,
         blacklistedTill' \in Nat, revoked' \in BOOLEAN, revoked => revoked',
         revoked' => blacklistedTill' > ExpiresAt,
         authorizer' \in [Replicas -> AuthorizerType],
         \A i \in Replicas : authorizer[i].holder \notin {c, Nobody} => authorizer'[i] = authorizer[i],
         TokenObeyed(v)', RuleObeyed(v, c)'
  PROVE  AuthorizationIInv'
<1>1. AccessTypes /\ \A d \in Callers : TokenObeyed(visit[d]) /\ RuleObeyed(visit[d], d)
  BY DEF AccessFacts
<1>2. /\ visit'[c] = v /\ visit' \in [Callers -> VisitType]
      /\ \A d \in Callers \ {c} : visit'[d] = visit[d]
  BY <1>1 DEF AccessTypes
<1>3. AccessTypes'
  BY <1>1, <1>2 DEF AccessTypes
<1>4. ASSUME NEW d \in Callers \ {c} PROVE TokenObeyed(visit[d])' /\ RuleObeyed(visit[d], d)'
  <2>1. TokenObeyed(visit[d]) /\ RuleObeyed(visit[d], d) /\ visit'[d] = visit[d]
    BY <1>1, <1>2
  <2>2. d # Nobody /\ d # c /\ visit[d].instance \in Replicas
    BY <1>1, AuthorizationAssumption DEF AccessTypes, VisitType
  <2>3. TokenObeyed(visit[d])'
    BY <2>1 DEF TokenObeyed
  <2>4. visit[d].at = "refreshed" => authorizer'[visit[d].instance] = authorizer[visit[d].instance]
    BY <2>1, <2>2 DEF RuleObeyed
  <2>5. RuleObeyed(visit[d], d)'
    BY <2>1, <2>4 DEF RuleObeyed
  <2>. QED BY <2>3, <2>5
<1>5. TokenObeyed(visit[c])' /\ RuleObeyed(visit[c], c)'
  BY <1>2 DEF TokenObeyed, RuleObeyed
<1>6. AccessFacts'
  BY <1>3, <1>4, <1>5 DEF AccessFacts
<1>. QED BY <1>6, AccessPartsNext

\* Every step obeys whoever withdrew access.
LEMMA AuthorizationKept == AuthorizationIInv /\ [AuthorizationNext]_authorizationVars => AuthorizationIInv'
<1>. SUFFICES ASSUME AuthorizationIInv, [AuthorizationNext]_authorizationVars PROVE AuthorizationIInv'
  OBVIOUS
<1>0. /\ AccessFacts /\ AccessTypes
      /\ revoked => blacklistedTill > ExpiresAt
      /\ \A c \in Callers : TokenObeyed(visit[c]) /\ RuleObeyed(visit[c], c)
  BY AccessParts DEF AccessFacts
<1>n. clock \in Nat /\ ExpiresAt \in Nat /\ blacklistedTill \in Nat
  <2>1. clock \in 0..ClockLimit /\ blacklistedTill \in Nat
    BY <1>0 DEF AccessTypes
  <2>. QED BY <2>1, AuthorizationAssumption
<1>r. /\ AtRest \in VisitType
      /\ \A c \in Callers : TokenObeyed(AtRest)' /\ RuleObeyed(AtRest, c)'
  BY RestType DEF TokenObeyed, RuleObeyed
<1>1. CASE Tick
  <2>1. clock' = clock + 1 /\ UNCHANGED <<blacklistedTill, revoked, stored, authorizer, visit>>
        /\ clock < ClockLimit
    BY <1>1 DEF Tick
  <2>2. clock' \in 0..ClockLimit /\ clock' > clock /\ clock' \in Nat
    BY <1>0, <2>1, AuthorizationAssumption DEF AccessTypes
  <2>3. AccessTypes'
    BY <1>0, <2>1, <2>2 DEF AccessTypes
  <2>4. ASSUME NEW c \in Callers PROVE TokenObeyed(visit[c])' /\ RuleObeyed(visit[c], c)'
    <3>1. visit[c].ttl \in Nat
      BY <1>0 DEF AccessTypes, VisitType
    <3>2. (clock > ExpiresAt => clock' > ExpiresAt)
          /\ (clock + visit[c].ttl > ExpiresAt => clock' + visit[c].ttl > ExpiresAt)
      BY <1>n, <2>2, <3>1
    <3>. QED BY <1>0, <2>1, <3>2 DEF TokenObeyed, RuleObeyed
  <2>5. AccessFacts'
    BY <1>0, <2>1, <2>3, <2>4 DEF AccessFacts
  <2>. QED BY <2>5, AccessPartsNext
<1>2. ASSUME NEW c \in Callers,
             Begin(c) \/ ParseToken(c) \/ CheckBlacklist(c) \/ WriteBlacklist(c)
      PROVE  AuthorizationIInv'
  <2>v. PICK v : v = visit'[c]
    OBVIOUS
  <2>0. visit[c] \in VisitType /\ TokenObeyed(visit[c]) /\ RuleObeyed(visit[c], c)
    BY <1>0 DEF AccessTypes
  <2>1. visit' = [visit EXCEPT ![c] = v] /\ UNCHANGED <<clock, stored, authorizer>>
    BY <1>0, <1>2, <2>v DEF AccessTypes, Begin, ParseToken, CheckBlacklist, WriteBlacklist, Moves, Done
  <2>2. CASE Begin(c)
    <3>1. UNCHANGED <<blacklistedTill, revoked>> /\ revoked \in BOOLEAN /\ stored \in BOOLEAN
      BY <1>0, <2>2 DEF Begin, AccessTypes
    <3>2. v \in VisitType /\ TokenObeyed(v)' /\ RuleObeyed(v, c)'
      <4>1. CASE v = [AtRest EXCEPT !.at = "token", !.live = ~revoked, !.grounds = stored]
        BY <1>r, <2>1, <3>1, <4>1 DEF VisitType, TokenObeyed, RuleObeyed, AtRest
      <4>2. CASE v = [AtRest EXCEPT !.at = "token", !.task = "revoke"]
        BY <1>r, <2>1, <4>2 DEF VisitType, TokenObeyed, RuleObeyed, AtRest
      <4>3. ASSUME NEW task \in {"add", "remove", "reload"},
                   v = [AtRest EXCEPT !.at = "permission", !.task = task]
            PROVE  v \in VisitType /\ TokenObeyed(v)' /\ RuleObeyed(v, c)'
        BY <1>r, <2>1, <4>3 DEF VisitType, TokenObeyed, RuleObeyed, AtRest
      <4>. QED BY <1>0, <2>v, <2>2, <4>1, <4>2, <4>3 DEF Begin, AccessTypes
    <3>. QED BY <1>0, <2>1, <3>1, <3>2, CallerSteps DEF AccessTypes
  <2>3. CASE ParseToken(c)
    <3>1. UNCHANGED <<blacklistedTill, revoked>> /\ revoked \in BOOLEAN
      BY <1>0, <2>3 DEF ParseToken, AccessTypes
    <3>2. v \in VisitType /\ TokenObeyed(v)' /\ RuleObeyed(v, c)'
      <4>1. CASE v = [visit[c] EXCEPT !.at = "blacklist"] /\ visit[c].task = "request"
                 /\ visit[c].at = "token"
        BY <2>0, <2>1, <3>1, <4>1 DEF VisitType, TokenObeyed, RuleObeyed
      <4>2. CASE /\ v = [visit[c] EXCEPT !.at = "ttl", !.ttl = ExpiresAt + 1 - clock]
                 /\ visit[c].task # "request" /\ clock <= ExpiresAt /\ visit[c].at = "token"
        <5>1. ExpiresAt + 1 - clock \in Nat /\ clock + (ExpiresAt + 1 - clock) > ExpiresAt
          BY <1>n, <4>2
        <5>. DEFINE ttl == ExpiresAt + 1 - clock
        <5>. HIDE DEF ttl
        <5>2. v \in VisitType /\ v.at = "ttl" /\ v.ttl = ttl /\ v.task = visit[c].task
          BY <2>0, <4>2, <5>1 DEF VisitType, ttl
        <5>3. TokenObeyed(v)'
          BY <2>1, <5>1, <5>2 DEF TokenObeyed, ttl
        <5>4. RuleObeyed(v, c)'
          BY <2>1, <4>2, <5>2 DEF RuleObeyed
        <5>. QED BY <5>2, <5>3, <5>4
      <4>3. CASE v = AtRest
        BY <1>r, <4>3
      <4>4. visit \in [Callers -> VisitType]
        BY <1>0 DEF AccessTypes
      <4>. QED BY <2>v, <2>3, <4>1, <4>2, <4>3, <4>4 DEF ParseToken, Moves, Done, TokenHolds
    <3>. QED BY <1>0, <2>1, <3>1, <3>2, CallerSteps DEF AccessTypes
  <2>4. CASE CheckBlacklist(c)
    <3>1. UNCHANGED <<blacklistedTill, revoked>> /\ revoked \in BOOLEAN
      BY <1>0, <2>4 DEF CheckBlacklist, AccessTypes
    <3>2. v \in VisitType /\ TokenObeyed(v)' /\ RuleObeyed(v, c)'
      <4>1. CASE v = [visit[c] EXCEPT !.at = "permission"] /\ visit[c].at = "blacklist"
                 /\ clock >= blacklistedTill
        <5>1. revoked => clock > ExpiresAt
          BY <1>0, <1>n, <4>1
        <5>. QED BY <2>0, <2>1, <3>1, <4>1, <5>1 DEF VisitType, TokenObeyed, RuleObeyed
      <4>2. CASE v = AtRest
        BY <1>r, <4>2
      <4>3. visit \in [Callers -> VisitType]
        BY <1>0 DEF AccessTypes
      <4>. QED BY <2>v, <2>4, <4>1, <4>2, <4>3 DEF CheckBlacklist, Moves, Done
    <3>. QED BY <1>0, <2>1, <3>1, <3>2, CallerSteps DEF AccessTypes
  <2>5. CASE WriteBlacklist(c)
    <3>1. v = AtRest /\ visit[c].at = "ttl" /\ visit \in [Callers -> VisitType]
      BY <1>0, <2>v, <2>5 DEF WriteBlacklist, Done, AccessTypes
    <3>2. visit[c].ttl \in Nat /\ clock + visit[c].ttl > ExpiresAt
      BY <2>0, <3>1 DEF TokenObeyed, VisitType
    <3>3. clock + visit[c].ttl \in Nat
      BY <1>n, <3>2
    <3>4. /\ blacklistedTill' \in Nat /\ revoked' \in BOOLEAN /\ (revoked => revoked')
          /\ revoked' => blacklistedTill' > ExpiresAt
      <4>1. revoked \in BOOLEAN /\ blacklistedTill \in Nat
        BY <1>0 DEF AccessTypes
      <4>2. CASE UNCHANGED <<blacklistedTill, revoked>>
        BY <1>0, <4>1, <4>2
      <4>3. CASE blacklistedTill' = clock + visit[c].ttl /\ revoked' \in {revoked, TRUE}
        BY <3>2, <3>3, <4>1, <4>3
      <4>. QED BY <2>5, <4>2, <4>3 DEF WriteBlacklist
    <3>. QED BY <1>0, <1>r, <2>1, <3>1, <3>4, CallerSteps DEF AccessTypes
  <2>. QED BY <1>2, <2>2, <2>3, <2>4, <2>5
<1>3. ASSUME NEW c \in Callers, NEW i \in Replicas, Refresh(c, i) PROVE AuthorizationIInv'
  <2>v. PICK v : v = visit'[c]
    OBVIOUS
  <2>0. visit[c] \in VisitType /\ TokenObeyed(visit[c]) /\ RuleObeyed(visit[c], c)
        /\ visit \in [Callers -> VisitType] /\ authorizer \in [Replicas -> AuthorizerType]
        /\ stored \in BOOLEAN /\ revoked \in BOOLEAN /\ blacklistedTill \in Nat
    BY <1>0 DEF AccessTypes
  <2>1. visit' = [visit EXCEPT ![c] = v] /\ UNCHANGED <<clock, stored, blacklistedTill, revoked>>
        /\ visit[c].at = "permission" /\ authorizer[i].holder = Nobody
    BY <2>0, <2>v, <1>3 DEF Refresh, Done
  <2>2. CASE v = AtRest /\ authorizer' \in {authorizer, [authorizer EXCEPT ![i].unavailable = TRUE]}
    <3>1. authorizer' \in [Replicas -> AuthorizerType]
          /\ \A j \in Replicas : j # i => authorizer'[j] = authorizer[j]
      BY <2>0, <2>2 DEF AuthorizerType
    <3>. QED BY <1>0, <1>r, <2>0, <2>1, <2>2, <3>1, CallerSteps
  <2>3. CASE /\ v = [visit[c] EXCEPT !.at = "refreshed", !.instance = i]
             /\ authorizer' = [authorizer EXCEPT ![i] =
                                 [loaded |-> stored, unavailable |-> FALSE, holder |-> c]]
    <3>1. /\ authorizer' \in [Replicas -> AuthorizerType]
          /\ authorizer'[i].holder = c /\ authorizer'[i].loaded = stored
          /\ \A j \in Replicas : j # i => authorizer'[j] = authorizer[j]
      BY <2>0, <2>3 DEF AuthorizerType
    <3>2. v \in VisitType /\ v.at = "refreshed" /\ v.instance = i /\ v.task = visit[c].task
          /\ v.live = visit[c].live /\ v.grounds = visit[c].grounds
      BY <2>0, <2>3 DEF VisitType
    <3>3. TokenObeyed(v)'
      BY <2>0, <2>1, <3>2 DEF TokenObeyed
    <3>4. RuleObeyed(v, c)'
      BY <2>0, <2>1, <3>1, <3>2 DEF RuleObeyed
    <3>. QED BY <1>0, <2>0, <2>1, <3>1, <3>2, <3>3, <3>4, CallerSteps
  <2>. QED BY <1>3, <2>v, <2>0, <2>2, <2>3 DEF Refresh, Done
<1>4. ASSUME NEW c \in Callers, Reloaded(c) \/ Enforce(c) PROVE AuthorizationIInv'
  <2>. DEFINE i == At(c)
  <2>v. PICK v : v = visit'[c]
    OBVIOUS
  <2>0. visit[c] \in VisitType /\ TokenObeyed(visit[c]) /\ RuleObeyed(visit[c], c)
        /\ visit \in [Callers -> VisitType] /\ authorizer \in [Replicas -> AuthorizerType]
        /\ stored \in BOOLEAN /\ revoked \in BOOLEAN /\ blacklistedTill \in Nat
    BY <1>0 DEF AccessTypes
  <2>1. /\ visit' = [visit EXCEPT ![c] = v] /\ UNCHANGED <<clock, stored, blacklistedTill, revoked>>
        /\ visit[c].at = "refreshed" /\ authorizer' = [authorizer EXCEPT ![i].holder = Nobody]
    BY <2>0, <2>v, <1>4 DEF Reloaded, Enforce, Done, Moves, Unlock
  <2>2. i \in Replicas /\ i = visit[c].instance /\ authorizer[i].holder = c
    BY <2>0, <2>1 DEF At, VisitType, RuleObeyed
  <2>3. /\ authorizer' \in [Replicas -> AuthorizerType]
        /\ \A j \in Replicas : j # i => authorizer'[j] = authorizer[j]
    BY <2>0, <2>1, <2>2 DEF AuthorizerType
  <2>4. v \in VisitType /\ TokenObeyed(v)' /\ RuleObeyed(v, c)'
    <3>1. CASE v = AtRest
      BY <1>r, <3>1
    <3>2. CASE /\ v = [visit[c] EXCEPT !.at = "allowed"] /\ visit[c].task = "request"
               /\ authorizer[i].loaded
      <4>1. v \in VisitType /\ v.at = "allowed" /\ v.task = "request"
            /\ v.live = visit[c].live /\ v.grounds = visit[c].grounds
        BY <2>0, <3>2 DEF VisitType
      <4>. QED BY <2>0, <2>1, <2>2, <3>2, <4>1 DEF TokenObeyed, RuleObeyed
    <3>. QED BY <1>4, <2>v, <2>0, <3>1, <3>2 DEF Reloaded, Enforce, Done, Moves
  <2>. HIDE DEF i
  <2>. QED BY <1>0, <2>0, <2>1, <2>2, <2>3, <2>4, CallerSteps
<1>5. ASSUME NEW c \in Callers, ChangePolicy(c) PROVE AuthorizationIInv'
  <2>. DEFINE i == At(c)
  <2>0. visit[c] \in VisitType /\ TokenObeyed(visit[c]) /\ RuleObeyed(visit[c], c)
        /\ visit \in [Callers -> VisitType] /\ authorizer \in [Replicas -> AuthorizerType]
        /\ stored \in BOOLEAN /\ revoked \in BOOLEAN /\ blacklistedTill \in Nat
    BY <1>0 DEF AccessTypes
  <2>1. /\ UNCHANGED <<clock, blacklistedTill, revoked>> /\ visit[c].at = "refreshed"
        /\ visit' = [d \in Callers |->
             IF d = c THEN AtRest
             ELSE [visit[d] EXCEPT !.grounds =
                    @ \/ (visit[d].task = "request" /\ visit[d].at # "idle" /\ stored')]]
    BY <1>5 DEF ChangePolicy
  <2>2. i \in Replicas /\ i = visit[c].instance /\ authorizer[i].holder = c
    BY <2>0, <2>1 DEF At, VisitType, RuleObeyed
  <2>3. /\ stored' \in BOOLEAN /\ authorizer' \in [Replicas -> AuthorizerType]
        /\ \A j \in Replicas : j # i => authorizer'[j] = authorizer[j]
    <3>. DEFINE present == visit[c].task = "add"
    <3>0. present \in BOOLEAN
      OBVIOUS
    <3>1. CASE UNCHANGED stored /\ authorizer' = [authorizer EXCEPT ![i].holder = Nobody]
      BY <2>0, <2>2, <3>1 DEF AuthorizerType
    <3>2. CASE /\ stored' = present
               /\ authorizer' = [authorizer EXCEPT ![i] =
                    [loaded |-> present, unavailable |-> FALSE, holder |-> Nobody]]
      <4>. HIDE DEF present
      <4>. QED BY <2>0, <2>2, <3>0, <3>2 DEF AuthorizerType
    <3>3. CASE /\ stored' \in {stored, present}
               /\ authorizer' = [authorizer EXCEPT ![i] =
                    [@ EXCEPT !.unavailable = TRUE, !.holder = Nobody]]
      <4>. HIDE DEF present
      <4>. QED BY <2>0, <2>2, <3>0, <3>3 DEF AuthorizerType
    <3>. QED BY <1>5, <3>1, <3>2, <3>3 DEF ChangePolicy, Unlock
  <2>4. ASSUME NEW d \in Callers
        PROVE  visit'[d] \in VisitType /\ TokenObeyed(visit[d])' /\ RuleObeyed(visit[d], d)'
    <3>1. CASE d = c
      <4>1. visit'[d] = AtRest
        BY <2>1, <3>1
      <4>. QED BY <1>r, <4>1 DEF TokenObeyed, RuleObeyed
    <3>2. CASE d # c
      <4>. DEFINE g == visit[d].grounds \/ (visit[d].task = "request" /\ visit[d].at # "idle" /\ stored')
                  w == [visit[d] EXCEPT !.grounds = g]
      <4>0. visit[d] \in VisitType /\ TokenObeyed(visit[d]) /\ RuleObeyed(visit[d], d)
            /\ d # Nobody
        BY <1>0, AuthorizationAssumption DEF AccessTypes
      <4>1. g \in BOOLEAN /\ (visit[d].grounds => g)
            /\ (visit[d].task = "request" /\ visit[d].at # "idle" /\ stored' => g)
        BY <2>3, <4>0 DEF VisitType
      <4>2. visit'[d] = w
        BY <2>1, <3>2
      <4>. HIDE DEF g
      <4>3. w \in VisitType /\ w.grounds = g /\ w.at = visit[d].at /\ w.task = visit[d].task
            /\ w.ttl = visit[d].ttl /\ w.live = visit[d].live /\ w.instance = visit[d].instance
        BY <4>0, <4>1 DEF VisitType
      <4>4. visit[d].at = "refreshed" => authorizer'[visit[d].instance] = authorizer[visit[d].instance]
        BY <2>2, <2>3, <3>2, <4>0 DEF RuleObeyed, VisitType
      <4>. HIDE DEF w
      <4>5. TokenObeyed(visit[d])'
        BY <2>1, <4>0, <4>2, <4>3 DEF TokenObeyed
      <4>6. RuleObeyed(visit[d], d)'
        BY <2>1, <4>0, <4>1, <4>2, <4>3, <4>4 DEF RuleObeyed
      <4>. QED BY <4>2, <4>3, <4>5, <4>6
    <3>. QED BY <3>1, <3>2
  <2>5. visit' \in [Callers -> VisitType]
    BY <2>1, <2>4
  <2>6. AccessFacts'
    BY <1>0, <2>0, <2>1, <2>3, <2>4, <2>5 DEF AccessFacts, AccessTypes
  <2>. QED BY <2>6, AccessPartsNext
<1>6. CASE UNCHANGED authorizationVars
  <2>1. AccessFacts'
    BY <1>0, <1>6 DEF authorizationVars, AccessFacts, AccessTypes, TokenObeyed, RuleObeyed
  <2>. QED BY <2>1, AccessPartsNext
<1>. QED BY <1>1, <1>2, <1>3, <1>4, <1>5, <1>6 DEF AuthorizationNext

-----------------------------------------------------------------------------
(* Runs of an agent.                                                       *)

RunType ==
  [pc : {"idle", "gate", "admitted", "round", "model", "sending", "calls", "tool", "over"},
   round : 0 .. MaxRounds, tokens : 0 .. MaxTokens + ReserveTokens + MaxTokens,
   calls : 0 .. MaxCallsPerTool + 1, left : 0 .. CallLimit, sent : 0 .. DeltaLimit,
   done : BOOLEAN, outcome : {"none", "result", "error"}]

ClientType ==
  [pc : {"idle", "loop", "drain", "returned"}, events : 0 .. BufferEvents,
   received : 0 .. DeltaLimit, wrote : {"none", "done", "error"}, gone : BOOLEAN]

\* What the invariant says of one request, when its run is u and its client k.
InTransitOf(u, k) == k.events + (IF u.pc = "sending" THEN 1 ELSE 0)

Account(r, u, k) ==
  /\ u.pc = "idle" => k.pc = "idle"
  /\ k.received + InTransitOf(u, k) <= u.sent
  /\ ~k.gone /\ k.pc # "returned" => k.received + InTransitOf(u, k) = u.sent
  /\ k.pc = "drain" => u.pc = "over" /\ r \in Streams
  /\ k.wrote = "done" => k.pc = "returned" /\ u.pc = "over"
  /\ u.pc \in {"model", "sending"} => u.round < MaxRounds
  /\ u.pc \in {"calls", "tool"} => u.left > 0
  /\ r \in Streams /\ k.wrote = "done" /\ ~k.gone => k.received = u.sent

Waiting == {"idle", "gate"}
Begun == {r \in Requests : run[r].pc \notin Waiting}

\* The invariant, part by part.
RunsFacts ==
  /\ inflight \in 0 .. Cardinality(Requests) /\ userCalls \in 0 .. Cardinality(Requests)
  /\ run \in [Requests -> RunType] /\ client \in [Requests -> ClientType]
  /\ inflight = Cardinality(Live) /\ inflight <= MaxConcurrent
  /\ userCalls <= MaxUserCalls /\ userCalls <= Cardinality(Begun)
  /\ \A r \in Requests : Account(r, run[r], client[r])

\* The inductive invariant, request by request.
LEMMA RunsParts == RunsIInv <=> RunsFacts
<1>1. Begun = {r \in Requests : run[r].pc \notin {"idle", "gate"}}
  BY DEF Begun, Waiting
<1>. QED BY <1>1, RunsAssumption DEF RunsIInv, RunsTypeOK, SlotsAreRuns, DeltasAccounted, WithinBudget,
     DoneCarriesEverything, RunsFacts, RunType, ClientType, Account, InTransitOf, InTransit

\* The same in the state after a step.
LEMMA RunsPartsNext == RunsFacts' => RunsIInv'
BY RunsParts, PTL

\* The numbers that are compared and added.
LEMMA RunsNumbers ==
  /\ \A n \in {MaxConcurrent, MaxUserCalls, MaxRounds, MaxTokens, ReserveTokens, MaxCallsPerTool,
               BufferEvents} : n \in Nat /\ n > 0
  /\ DeltaLimit \in Nat /\ CallLimit \in Nat
  /\ IsFiniteSet(Requests) /\ Cardinality(Requests) \in Nat
<1>1. \A n \in {MaxConcurrent, MaxUserCalls, MaxRounds, MaxTokens, ReserveTokens, MaxCallsPerTool,
               BufferEvents} : n \in Nat \ {0}
  BY RunsAssumption
<1>2. \A n \in Nat \ {0} : n \in Nat /\ n > 0
  OBVIOUS
<1>3. IsFiniteSet(Requests) /\ DeltaLimit \in Nat /\ CallLimit \in Nat
  BY RunsAssumption
<1>. QED BY <1>1, <1>2, <1>3, FS_CardinalityType

\* Nobody has asked for a run.
LEMMA RunsStart == RunsInit => RunsIInv
<1>. SUFFICES ASSUME RunsInit PROVE RunsIInv
  OBVIOUS
<1>1. /\ 0 \in 0 .. Cardinality(Requests) /\ 0 <= MaxConcurrent /\ 0 <= MaxUserCalls
      /\ 0 \in 0 .. MaxRounds /\ 0 \in 0 .. MaxTokens + ReserveTokens + MaxTokens
      /\ 0 \in 0 .. MaxCallsPerTool + 1 /\ 0 \in 0 .. CallLimit /\ 0 \in 0 .. DeltaLimit
      /\ 0 \in 0 .. BufferEvents /\ 0 + 0 = 0 /\ 0 <= 0
  BY RunsNumbers
<1>2. NewRun \in RunType /\ NewClient \in ClientType
  BY <1>1 DEF NewRun, NewClient, RunType, ClientType
<1>3. run \in [Requests -> RunType] /\ client \in [Requests -> ClientType]
  BY <1>2 DEF RunsInit
<1>4. \A r \in Requests : run[r] = NewRun /\ client[r] = NewClient
  BY DEF RunsInit
<1>5. Live = {} /\ Begun = {}
  BY <1>4 DEF Live, Begun, Waiting, NewRun
<1>6. \A r \in Requests : Account(r, NewRun, NewClient)
  BY <1>1 DEF Account, InTransitOf, NewRun, NewClient
<1>7. RunsFacts
  BY <1>1, <1>3, <1>4, <1>5, <1>6, FS_EmptySet DEF RunsInit, RunsFacts
<1>. QED BY <1>7, RunsParts

\* Its slot follows the run of r when that becomes u.
SlotsFollow(r, u) ==
  /\ u.pc = "idle" => run[r].pc = "idle"
  /\ u.pc = "gate" => run[r].pc \in Waiting
  /\ \/ /\ UNCHANGED <<inflight, userCalls>>
        /\ u.pc \notin {"idle", "gate", "over"} <=> r \in Live
     \/ /\ inflight' = inflight - 1 /\ userCalls' = userCalls
        /\ r \in Live /\ u.pc = "over"
     \/ /\ inflight' = inflight + 1 /\ userCalls' = userCalls + 1
        /\ run[r].pc = "gate" /\ u.pc = "admitted"
        /\ inflight < MaxConcurrent /\ userCalls < MaxUserCalls

\* A step of one request, whose slot follows it.
LEMMA OneRequest ==
  ASSUME RunsFacts, NEW r \in Requests, NEW u \in RunType, NEW k \in ClientType,
         run' = [run EXCEPT ![r] = u], client' = [client EXCEPT ![r] = k],
         Account(r, u, k),
         SlotsFollow(r, u)
  PROVE  RunsIInv'
<1>1. /\ inflight \in 0 .. Cardinality(Requests) /\ userCalls \in 0 .. Cardinality(Requests)
      /\ run \in [Requests -> RunType] /\ client \in [Requests -> ClientType]
      /\ inflight = Cardinality(Live) /\ inflight <= MaxConcurrent
      /\ userCalls <= MaxUserCalls /\ userCalls <= Cardinality(Begun)
      /\ \A s \in Requests : Account(s, run[s], client[s])
  BY DEF RunsFacts
<1>2. /\ run' \in [Requests -> RunType] /\ client' \in [Requests -> ClientType]
      /\ run'[r] = u /\ client'[r] = k
      /\ \A s \in Requests \ {r} : run'[s] = run[s] /\ client'[s] = client[s]
  BY <1>1
<1>3. \A s \in Requests : Account(s, run[s], client[s])'
  <2>1. Account(r, run[r], client[r])'
    BY <1>2 DEF Account, InTransitOf
  <2>2. \A s \in Requests \ {r} : Account(s, run[s], client[s])'
    BY <1>1, <1>2 DEF Account, InTransitOf
  <2>. QED BY <2>1, <2>2
<1>4. IsFiniteSet(Requests) /\ Cardinality(Requests) \in Nat /\ MaxConcurrent \in Nat /\ MaxUserCalls \in Nat
  BY RunsNumbers
<1>5. /\ IsFiniteSet(Live) /\ Cardinality(Live) \in Nat
      /\ IsFiniteSet(Begun) /\ Cardinality(Begun) \in Nat
      /\ Cardinality(Live') <= Cardinality(Requests)
      /\ Cardinality(Begun') <= Cardinality(Requests)
  <2>1. Live \subseteq Requests /\ Begun \subseteq Requests /\ Live' \subseteq Requests
        /\ Begun' \subseteq Requests
    BY DEF Live, Begun
  <2>. QED BY <1>4, <2>1, FS_Subset, FS_CardinalityType
<1>6. Cardinality(Begun') \in Nat /\ Cardinality(Begun) <= Cardinality(Begun')
  <2>1. Begun \subseteq Begun' /\ Begun' \subseteq Requests
    BY <1>2 DEF Begun, Waiting, SlotsFollow
  <2>2. IsFiniteSet(Begun')
    BY <1>4, <2>1, FS_Subset
  <2>. QED BY <2>1, <2>2, FS_Subset, FS_CardinalityType
<1>7. CASE /\ UNCHANGED <<inflight, userCalls>>
           /\ u.pc \notin {"idle", "gate", "over"} <=> r \in Live
  <2>1. Live' = Live
    BY <1>2, <1>7 DEF Live
  <2>2. RunsFacts'
    <3>1. userCalls <= Cardinality(Begun')
      BY <1>1, <1>5, <1>6
    <3>. QED BY <1>1, <1>2, <1>3, <1>7, <2>1, <3>1 DEF RunsFacts
  <2>. QED BY <2>2, RunsPartsNext
<1>8. CASE /\ inflight' = inflight - 1 /\ userCalls' = userCalls
           /\ r \in Live /\ u.pc = "over"
  <2>1. Live' = Live \ {r}
    BY <1>2, <1>8 DEF Live
  <2>2. Cardinality(Live') = Cardinality(Live) - 1
    BY <1>5, <1>8, <2>1, FS_RemoveElement
  <2>3. /\ inflight' = Cardinality(Live') /\ inflight' \in 0 .. Cardinality(Requests)
        /\ inflight' <= MaxConcurrent
    <3>1. Cardinality(Live) # 0
      BY <1>5, <1>8, FS_EmptySet
    <3>. QED BY <1>1, <1>4, <1>5, <1>8, <2>2, <3>1
  <2>4. userCalls' <= Cardinality(Begun')
    BY <1>1, <1>5, <1>6, <1>8
  <2>5. RunsFacts'
    BY <1>1, <1>2, <1>3, <1>8, <2>3, <2>4 DEF RunsFacts
  <2>. QED BY <2>5, RunsPartsNext
<1>9. CASE /\ inflight' = inflight + 1 /\ userCalls' = userCalls + 1
           /\ run[r].pc = "gate" /\ u.pc = "admitted"
           /\ inflight < MaxConcurrent /\ userCalls < MaxUserCalls
  <2>1. Live' = Live \cup {r} /\ r \notin Live /\ Begun' = Begun \cup {r} /\ r \notin Begun
    BY <1>2, <1>9 DEF Live, Begun, Waiting
  <2>2. Cardinality(Live') = Cardinality(Live) + 1 /\ Cardinality(Begun') = Cardinality(Begun) + 1
    BY <1>5, <2>1, FS_AddElement
  <2>3. /\ inflight' = Cardinality(Live') /\ inflight' \in 0 .. Cardinality(Requests)
        /\ inflight' <= MaxConcurrent
    BY <1>1, <1>4, <1>5, <1>9, <2>2
  <2>4. userCalls' <= Cardinality(Begun') /\ userCalls' <= MaxUserCalls
        /\ userCalls' \in 0 .. Cardinality(Requests)
    BY <1>1, <1>4, <1>5, <1>9, <2>2
  <2>5. RunsFacts'
    BY <1>2, <1>3, <2>3, <2>4 DEF RunsFacts
  <2>. QED BY <2>5, RunsPartsNext
<1>. QED BY <1>7, <1>8, <1>9 DEF SlotsFollow

\* Ends, from a place where the run holds a slot and sends nothing.
LEMMA RunEnds ==
  ASSUME RunsFacts, NEW r \in Requests, NEW outcome \in {"result", "error"},
         run[r].pc \in {"admitted", "round", "model", "calls", "tool"}, Ends(r, outcome)
  PROVE  RunsIInv'
<1>. DEFINE u == [NewRun EXCEPT !.pc = "over", !.outcome = outcome, !.sent = run[r].sent]
            k == client[r]
<1>1. /\ run \in [Requests -> RunType] /\ client \in [Requests -> ClientType]
      /\ run[r] \in RunType /\ k \in ClientType /\ Account(r, run[r], k)
  BY DEF RunsFacts
<1>2. /\ 0 \in 0 .. MaxRounds /\ 0 \in 0 .. MaxTokens + ReserveTokens + MaxTokens
      /\ 0 \in 0 .. MaxCallsPerTool + 1 /\ 0 \in 0 .. CallLimit
  BY RunsNumbers
<1>3. /\ u \in RunType /\ u.pc = "over" /\ u.sent = run[r].sent
  BY <1>1, <1>2 DEF RunType, NewRun
<1>4. run' = [run EXCEPT ![r] = u] /\ client' = [client EXCEPT ![r] = k]
      /\ inflight' = inflight - 1 /\ userCalls' = userCalls
  BY <1>1 DEF Ends
<1>5. Account(r, u, k)
  <2>. HIDE DEF u, k
  <2>. QED BY <1>1, <1>3 DEF Account, InTransitOf
<1>6. SlotsFollow(r, u)
  <2>1. r \in Live
    BY DEF Live
  <2>. HIDE DEF u
  <2>. QED BY <1>3, <1>4, <2>1 DEF SlotsFollow
<1>. HIDE DEF u, k
<1>. QED BY <1>1, <1>3, <1>4, <1>5, <1>6, OneRequest

\* EndsStream: "done" is written of a run that is over, whose deltas are all there.
LEMMA StreamEnds ==
  ASSUME RunsFacts, NEW r \in Requests, NEW wrote \in {"none", "done", "error"},
         client[r].pc \in {"loop", "drain"}, EndsStream(r, wrote),
         wrote = "done" => run[r].pc = "over" /\ (r \in Streams => client[r].events = 0)
  PROVE  RunsIInv'
<1>. DEFINE b == run[r].pc # "over"
            u == [run[r] EXCEPT !.done = b]
            k == [client[r] EXCEPT !.pc = "returned", !.wrote = wrote]
<1>1. /\ run \in [Requests -> RunType] /\ client \in [Requests -> ClientType]
      /\ run[r] \in RunType /\ client[r] \in ClientType /\ Account(r, run[r], client[r])
  BY DEF RunsFacts
<1>2. b \in BOOLEAN
  OBVIOUS
<1>3. run' = [run EXCEPT ![r] = u] /\ client' = [client EXCEPT ![r] = k]
      /\ UNCHANGED <<inflight, userCalls>>
  BY <1>1 DEF EndsStream
<1>. HIDE DEF b
<1>4. /\ u \in RunType /\ u.pc = run[r].pc /\ u.sent = run[r].sent
      /\ u.round = run[r].round /\ u.left = run[r].left
  BY <1>1, <1>2 DEF RunType
<1>5. /\ k \in ClientType /\ k.pc = "returned" /\ k.wrote = wrote
      /\ k.events = client[r].events /\ k.received = client[r].received /\ k.gone = client[r].gone
  BY <1>1 DEF ClientType
<1>. HIDE DEF u, k
<1>6. client[r].received \in Nat /\ run[r].sent \in Nat /\ client[r].events \in Nat
  BY <1>1, RunsNumbers DEF ClientType, RunType
<1>7. wrote = "done" /\ r \in Streams /\ ~client[r].gone => client[r].received = run[r].sent
  BY <1>1, <1>6 DEF Account, InTransitOf
<1>8. Account(r, u, k)
  BY <1>1, <1>4, <1>5, <1>7 DEF Account, InTransitOf
<1>9. SlotsFollow(r, u)
  BY <1>3, <1>4 DEF SlotsFollow, Live, Waiting
<1>. QED BY <1>3, <1>4, <1>5, <1>8, <1>9, OneRequest

\* A step of a run that keeps its slot and has to do with no delta.
LEMMA RunMoves ==
  ASSUME RunsFacts, NEW r \in Requests, NEW u \in RunType,
         run' = [run EXCEPT ![r] = u], UNCHANGED <<inflight, userCalls, client>>,
         run[r].pc \in {"admitted", "round", "model", "calls", "tool"},
         u.pc \in {"admitted", "round", "model", "calls", "tool"}, u.sent = run[r].sent,
         u.pc = "model" => u.round < MaxRounds, u.pc \in {"calls", "tool"} => u.left > 0
  PROVE  RunsIInv'
<1>. DEFINE k == client[r]
<1>1. /\ run \in [Requests -> RunType] /\ client \in [Requests -> ClientType]
      /\ run[r] \in RunType /\ k \in ClientType /\ Account(r, run[r], k)
  BY DEF RunsFacts
<1>2. client' = [client EXCEPT ![r] = k]
  BY <1>1
<1>. HIDE DEF k
<1>3. Account(r, u, k)
  BY <1>1 DEF Account, InTransitOf
<1>4. SlotsFollow(r, u)
  BY DEF SlotsFollow, Live
<1>. QED BY <1>1, <1>2, <1>3, <1>4, OneRequest

\* Every step keeps the user's slots and the account of the deltas.
LEMMA RunsKept == RunsIInv /\ [RunsNext]_runsVars => RunsIInv'
<1>. SUFFICES ASSUME RunsIInv, [RunsNext]_runsVars PROVE RunsIInv'
  OBVIOUS
<1>0. RunsFacts /\ run \in [Requests -> RunType] /\ client \in [Requests -> ClientType]
      /\ inflight \in Nat /\ userCalls \in Nat
  BY RunsParts, RunsNumbers DEF RunsFacts
<1>f. RunsFacts
  BY <1>0
<1>n. /\ MaxRounds \in Nat /\ MaxTokens \in Nat /\ ReserveTokens \in Nat /\ MaxCallsPerTool \in Nat
      /\ DeltaLimit \in Nat /\ CallLimit \in Nat /\ BufferEvents \in Nat /\ BufferEvents > 0
  BY RunsNumbers
<1>r. ASSUME NEW r \in Requests
      PROVE  /\ run[r] \in RunType /\ client[r] \in ClientType /\ Account(r, run[r], client[r])
             /\ run[r].round \in Nat /\ run[r].tokens \in Nat /\ run[r].calls \in Nat
             /\ run[r].left \in Nat /\ run[r].sent \in Nat
             /\ client[r].events \in Nat /\ client[r].received \in Nat
  <2>1. run[r] \in RunType /\ client[r] \in ClientType /\ Account(r, run[r], client[r])
    BY <1>0 DEF RunsFacts
  <2>. QED BY <1>n, <2>1 DEF RunType, ClientType
<1>1. ASSUME NEW r \in Requests, Arrives(r) PROVE RunsIInv'
  <2>. DEFINE u == [run[r] EXCEPT !.pc = "gate"]
              k == [client[r] EXCEPT !.pc = "loop"]
  <2>1. /\ run' = [run EXCEPT ![r] = u] /\ client' = [client EXCEPT ![r] = k]
        /\ UNCHANGED <<inflight, userCalls>> /\ run[r].pc = "idle"
    BY <1>0, <1>1 DEF Arrives
  <2>2. /\ u \in RunType /\ k \in ClientType /\ u.pc = "gate" /\ k.pc = "loop"
        /\ u.sent = run[r].sent /\ k.events = client[r].events
        /\ k.received = client[r].received /\ k.wrote = client[r].wrote /\ k.gone = client[r].gone
    BY <1>r DEF RunType, ClientType
  <2>3. client[r].wrote # "done" /\ (~client[r].gone /\ client[r].pc # "returned" =>
          client[r].received + client[r].events + 0 = run[r].sent)
    BY <1>r, <2>1 DEF Account, InTransitOf
  <2>4. Account(r, u, k)
    <3>. HIDE DEF u, k
    <3>. QED BY <1>r, <2>1, <2>2, <2>3 DEF Account, InTransitOf
  <2>5. SlotsFollow(r, u)
    <3>. HIDE DEF u
    <3>. QED BY <2>1, <2>2 DEF SlotsFollow, Live, Waiting
  <2>. HIDE DEF u, k
  <2>. QED BY <1>f, <2>1, <2>2, <2>4, <2>5, OneRequest
<1>2. ASSUME NEW r \in Requests, BeginRun(r) PROVE RunsIInv'
  <2>. DEFINE k == client[r]
  <2>1. k \in ClientType /\ client' = [client EXCEPT ![r] = k] /\ run[r].pc = "gate"
        /\ Account(r, run[r], k)
    BY <1>0, <1>2, <1>r DEF BeginRun
  <2>. HIDE DEF k
  <2>2. CASE /\ inflight < MaxConcurrent /\ userCalls < MaxUserCalls
             /\ inflight' = inflight + 1 /\ userCalls' = userCalls + 1
             /\ run' = [run EXCEPT ![r].pc = "admitted"]
    <3>. DEFINE u == [run[r] EXCEPT !.pc = "admitted"]
    <3>1. run' = [run EXCEPT ![r] = u]
      BY <1>0, <2>2
    <3>2. u \in RunType /\ u.pc = "admitted" /\ u.sent = run[r].sent
      BY <1>r DEF RunType
    <3>. HIDE DEF u
    <3>3. Account(r, u, k) /\ SlotsFollow(r, u)
      BY <2>1, <2>2, <3>2 DEF Account, InTransitOf, SlotsFollow
    <3>. QED BY <1>f, <2>1, <3>1, <3>2, <3>3, OneRequest
  <2>3. CASE /\ run' = [run EXCEPT ![r].pc = "over", ![r].outcome = "error"]
             /\ UNCHANGED <<inflight, userCalls>>
    <3>. DEFINE u == [run[r] EXCEPT !.pc = "over", !.outcome = "error"]
    <3>1. run' = [run EXCEPT ![r] = u]
      BY <1>0, <2>3
    <3>2. u \in RunType /\ u.pc = "over" /\ u.sent = run[r].sent
      BY <1>r DEF RunType
    <3>. HIDE DEF u
    <3>3. Account(r, u, k) /\ SlotsFollow(r, u)
      BY <2>1, <2>3, <3>2 DEF Account, InTransitOf, SlotsFollow, Live
    <3>. QED BY <1>f, <2>1, <3>1, <3>2, <3>3, OneRequest
  <2>. QED BY <1>2, <2>2, <2>3 DEF BeginRun
<1>3. ASSUME NEW r \in Requests, CheckContext(r) PROVE RunsIInv'
  <2>. DEFINE u == [run[r] EXCEPT !.pc = "round"]
  <2>1. run[r].pc = "admitted"
    BY <1>3 DEF CheckContext
  <2>2. CASE Ends(r, "error")
    BY <1>f, <2>1, <2>2, RunEnds
  <2>3. CASE run' = [run EXCEPT ![r].pc = "round"] /\ UNCHANGED <<inflight, userCalls, client>>
    <3>1. run' = [run EXCEPT ![r] = u]
      BY <1>0, <2>3
    <3>2. u \in RunType /\ u.pc = "round" /\ u.sent = run[r].sent
      BY <1>r DEF RunType
    <3>. HIDE DEF u
    <3>. QED BY <1>f, <2>1, <2>3, <3>1, <3>2, RunMoves
  <2>. QED BY <1>3, <2>2, <2>3 DEF CheckContext
<1>4. ASSUME NEW r \in Requests, RunExpires(r) PROVE RunsIInv'
  <2>. DEFINE u == [run[r] EXCEPT !.done = TRUE]
  <2>1. run' = [run EXCEPT ![r] = u] /\ UNCHANGED <<inflight, userCalls, client>>
        /\ run[r].pc \in {"round", "model", "calls", "tool"}
    BY <1>0, <1>4 DEF RunExpires
  <2>2. /\ u \in RunType /\ u.pc = run[r].pc /\ u.sent = run[r].sent
        /\ u.round = run[r].round /\ u.left = run[r].left
    BY <1>r DEF RunType
  <2>3. /\ run[r].pc = "model" => run[r].round < MaxRounds
        /\ run[r].pc \in {"calls", "tool"} => run[r].left > 0
    BY <1>r DEF Account
  <2>. HIDE DEF u
  <2>. QED BY <1>f, <2>1, <2>2, <2>3, RunMoves
<1>5. ASSUME NEW r \in Requests, RoundBegins(r) PROVE RunsIInv'
  <2>. DEFINE u == [run[r] EXCEPT !.pc = "model"]
  <2>1. run[r].pc = "round"
    BY <1>5 DEF RoundBegins
  <2>2. CASE Ends(r, "error") \/ Ends(r, "result")
    BY <1>f, <2>1, <2>2, RunEnds
  <2>3. CASE /\ run[r].round < MaxRounds /\ run' = [run EXCEPT ![r].pc = "model"]
             /\ UNCHANGED <<inflight, userCalls, client>>
    <3>1. run' = [run EXCEPT ![r] = u]
      BY <1>0, <2>3
    <3>2. u \in RunType /\ u.pc = "model" /\ u.sent = run[r].sent /\ u.round = run[r].round
      BY <1>r DEF RunType
    <3>. HIDE DEF u
    <3>. QED BY <1>f, <2>1, <2>3, <3>1, <3>2, RunMoves
  <2>. QED BY <1>5, <2>2, <2>3 DEF RoundBegins
<1>6. ASSUME NEW r \in Requests, ModelFails(r) PROVE RunsIInv'
  BY <1>f, <1>6, RunEnds DEF ModelFails
<1>7. ASSUME NEW r \in Requests, ChunkArrives(r) PROVE RunsIInv'
  <2>. DEFINE n == run[r].sent + 1
              u == [run[r] EXCEPT !.pc = "sending", !.sent = n]
              k == client[r]
  <2>1. /\ run' = [run EXCEPT ![r] = u] /\ client' = [client EXCEPT ![r] = k]
        /\ UNCHANGED <<inflight, userCalls>> /\ run[r].pc = "model" /\ run[r].sent < DeltaLimit
    BY <1>0, <1>7 DEF ChunkArrives
  <2>2. n \in 0 .. DeltaLimit
    BY <1>n, <1>r, <2>1
  <2>. HIDE DEF n
  <2>3. u \in RunType /\ u.pc = "sending" /\ u.sent = n /\ u.round = run[r].round
    BY <1>r, <2>2 DEF RunType
  <2>4. /\ k \in ClientType /\ Account(r, run[r], k) /\ k.received \in Nat /\ k.events \in Nat
        /\ n = run[r].sent + 1 /\ run[r].sent \in Nat
    BY <1>r DEF n
  <2>. HIDE DEF u, k
  <2>5. Account(r, u, k)
    <3>1. /\ k.received + (k.events + 0) <= run[r].sent => k.received + (k.events + 1) <= n
          /\ k.received + (k.events + 0) = run[r].sent => k.received + (k.events + 1) = n
      BY <2>4
    <3>. QED BY <2>1, <2>3, <2>4, <3>1 DEF Account, InTransitOf
  <2>6. SlotsFollow(r, u)
    BY <2>1, <2>3 DEF SlotsFollow, Live
  <2>. QED BY <1>f, <2>1, <2>3, <2>4, <2>5, <2>6, OneRequest
<1>8. ASSUME NEW r \in Requests, SendDelta(r) PROVE RunsIInv'
  <2>. DEFINE u == [run[r] EXCEPT !.pc = "model"]
  <2>1. run' = [run EXCEPT ![r] = u] /\ UNCHANGED <<inflight, userCalls>> /\ run[r].pc = "sending"
    BY <1>0, <1>8 DEF SendDelta
  <2>2. u \in RunType /\ u.pc = "model" /\ u.sent = run[r].sent /\ u.round = run[r].round
    BY <1>r DEF RunType
  <2>3. SlotsFollow(r, u)
    <3>. HIDE DEF u
    <3>. QED BY <2>1, <2>2 DEF SlotsFollow, Live
  <2>. HIDE DEF u
  <2>4. CASE /\ client[r].events < BufferEvents
             /\ client' = [client EXCEPT ![r].events = @ + 1]
    <3>. DEFINE n == client[r].events + 1
                k == [client[r] EXCEPT !.events = n]
    <3>1. client' = [client EXCEPT ![r] = k]
      BY <1>0, <2>4
    <3>2. n \in 0 .. BufferEvents
      BY <1>n, <1>r, <2>4
    <3>. HIDE DEF n
    <3>3. k \in ClientType /\ k.pc = client[r].pc /\ k.events = n /\ k.received = client[r].received
          /\ k.wrote = client[r].wrote /\ k.gone = client[r].gone
      BY <1>r, <3>2 DEF ClientType
    <3>. HIDE DEF k
    <3>4. n + 0 = client[r].events + 1
      BY <1>r DEF n
    <3>5. Account(r, u, k)
      BY <1>r, <2>1, <2>2, <3>3, <3>4 DEF Account, InTransitOf
    <3>. QED BY <1>f, <2>1, <2>2, <2>3, <3>1, <3>3, <3>5, OneRequest
  <2>5. CASE RunCtxDone(r) /\ UNCHANGED client
    <3>. DEFINE k == client[r]
    <3>1. client' = [client EXCEPT ![r] = k] /\ k \in ClientType /\ Account(r, run[r], k)
          /\ (k.gone \/ k.pc = "returned") /\ k.received \in Nat /\ k.events \in Nat
      BY <1>0, <1>r, <2>5 DEF RunCtxDone
    <3>. HIDE DEF k
    <3>2. k.received + (k.events + 1) <= run[r].sent => k.received + (k.events + 0) <= run[r].sent
      BY <1>r, <3>1
    <3>3. Account(r, u, k)
      BY <2>1, <2>2, <3>1, <3>2 DEF Account, InTransitOf
    <3>. QED BY <1>f, <2>1, <2>2, <2>3, <3>1, <3>3, OneRequest
  <2>. QED BY <1>8, <2>4, <2>5 DEF SendDelta
<1>9. ASSUME NEW r \in Requests, ModelAnswers(r) PROVE RunsIInv'
  <2>1. PICK spend \in {1, MaxTokens, ReserveTokens}, proposed \in 0 .. CallLimit :
          /\ run[r].pc = "model"
          /\ \/ Ends(r, "result")
             \/ /\ run[r].tokens + spend <= MaxTokens /\ proposed > 0
                /\ run' = [run EXCEPT ![r].pc = "calls", ![r].left = proposed, ![r].round = @ + 1,
                                      ![r].tokens = @ + spend]
                /\ UNCHANGED <<inflight, userCalls, client>>
    BY <1>9 DEF ModelAnswers
  <2>2. CASE Ends(r, "result")
    BY <1>f, <2>1, <2>2, RunEnds
  <2>3. CASE /\ run[r].tokens + spend <= MaxTokens /\ proposed > 0
             /\ run' = [run EXCEPT ![r].pc = "calls", ![r].left = proposed, ![r].round = @ + 1,
                                   ![r].tokens = @ + spend]
             /\ UNCHANGED <<inflight, userCalls, client>>
    <3>. DEFINE m == run[r].round + 1
                t == run[r].tokens + spend
                u == [run[r] EXCEPT !.pc = "calls", !.left = proposed, !.round = m, !.tokens = t]
    <3>1. run' = [run EXCEPT ![r] = u]
      BY <1>0, <2>3
    <3>2. m \in 0 .. MaxRounds /\ t \in 0 .. MaxTokens + ReserveTokens + MaxTokens
      <4>1. run[r].round < MaxRounds /\ spend \in Nat
        BY <1>n, <1>r, <2>1 DEF Account
      <4>. QED BY <1>n, <1>r, <2>3, <4>1
    <3>. HIDE DEF m, t
    <3>3. u \in RunType /\ u.pc = "calls" /\ u.sent = run[r].sent /\ u.left = proposed
      BY <1>r, <3>2 DEF RunType
    <3>. HIDE DEF u
    <3>. QED BY <1>f, <2>1, <2>3, <3>1, <3>3, RunMoves
  <2>. QED BY <2>1, <2>2, <2>3
<1>10. ASSUME NEW r \in Requests, CallRefused(r) \/ ToolReturns(r) PROVE RunsIInv'
  <2>. DEFINE n == run[r].left - 1
              at == AfterCall(r)
              u == [run[r] EXCEPT !.pc = at, !.left = n]
  <2>1. run[r].pc \in {"calls", "tool"} /\ run[r].left > 0
    BY <1>r, <1>10 DEF CallRefused, ToolReturns, Account
  <2>2. CASE Ends(r, "result")
    BY <1>f, <2>1, <2>2, RunEnds
  <2>3. CASE /\ run' = [run EXCEPT ![r].pc = AfterCall(r), ![r].left = @ - 1]
             /\ UNCHANGED <<inflight, userCalls, client>>
    <3>1. run' = [run EXCEPT ![r] = u]
      BY <1>0, <2>3
    <3>2. run[r].left \in 0 .. CallLimit
      BY <1>r DEF RunType
    <3>3. n \in 0 .. CallLimit /\ at \in {"round", "calls"} /\ (at = "calls" => n > 0)
      BY <1>n, <2>1, <3>2 DEF AfterCall
    <3>. HIDE DEF n, at
    <3>4. u \in RunType /\ u.pc = at /\ u.sent = run[r].sent /\ u.left = n
      BY <1>r, <3>3 DEF RunType
    <3>. HIDE DEF u
    <3>. QED BY <1>f, <2>1, <2>3, <3>1, <3>3, <3>4, RunMoves
  <2>. QED BY <1>10, <2>2, <2>3 DEF CallRefused, ToolReturns
<1>11. ASSUME NEW r \in Requests, CallAccepted(r) PROVE RunsIInv'
  <2>. DEFINE n == run[r].calls + 1
              u == [run[r] EXCEPT !.pc = "tool", !.calls = n]
  <2>1. run[r].pc = "calls" /\ run[r].left > 0
    BY <1>r, <1>11 DEF CallAccepted, Account
  <2>2. CASE Ends(r, "result")
    BY <1>f, <2>1, <2>2, RunEnds
  <2>3. CASE /\ run[r].calls + 1 <= MaxCallsPerTool
             /\ run' = [run EXCEPT ![r].pc = "tool", ![r].calls = @ + 1]
             /\ UNCHANGED <<inflight, userCalls, client>>
    <3>1. run' = [run EXCEPT ![r] = u]
      BY <1>0, <2>3
    <3>2. n \in 0 .. MaxCallsPerTool + 1
      BY <1>n, <1>r, <2>3
    <3>. HIDE DEF n
    <3>3. u \in RunType /\ u.pc = "tool" /\ u.sent = run[r].sent /\ u.left = run[r].left
      BY <1>r, <3>2 DEF RunType
    <3>. HIDE DEF u
    <3>. QED BY <1>f, <2>1, <2>3, <3>1, <3>3, RunMoves
  <2>. QED BY <1>11, <2>2, <2>3 DEF CallAccepted
<1>12. ASSUME NEW r \in Requests, ClientLeaves(r) PROVE RunsIInv'
  <2>. DEFINE b == run[r].pc # "over"
              u == [run[r] EXCEPT !.done = b]
              k == [client[r] EXCEPT !.gone = TRUE]
  <2>0. b \in BOOLEAN
    OBVIOUS
  <2>1. /\ run' = [run EXCEPT ![r] = u] /\ client' = [client EXCEPT ![r] = k]
        /\ UNCHANGED <<inflight, userCalls>>
    BY <1>0, <1>12 DEF ClientLeaves
  <2>. HIDE DEF b
  <2>2. /\ u \in RunType /\ u.pc = run[r].pc /\ u.sent = run[r].sent
        /\ u.round = run[r].round /\ u.left = run[r].left
    BY <1>r, <2>0 DEF RunType
  <2>3. /\ k \in ClientType /\ k.pc = client[r].pc /\ k.events = client[r].events /\ k.gone
        /\ k.received = client[r].received /\ k.wrote = client[r].wrote
    BY <1>r DEF ClientType
  <2>. HIDE DEF u, k
  <2>4. Account(r, u, k)
    BY <1>r, <2>2, <2>3 DEF Account, InTransitOf
  <2>5. SlotsFollow(r, u)
    BY <2>1, <2>2 DEF SlotsFollow, Live, Waiting
  <2>. QED BY <1>f, <2>1, <2>2, <2>3, <2>4, <2>5, OneRequest
<1>13. ASSUME NEW r \in Requests, WriteEvent(r) PROVE RunsIInv'
  <2>1. CASE EndsStream(r, "none")
    BY <1>f, <1>13, <2>1, StreamEnds DEF WriteEvent
  <2>2. CASE /\ client' = [client EXCEPT ![r].events = @ - 1, ![r].received = @ + 1]
             /\ UNCHANGED <<inflight, userCalls, run>>
    <3>. DEFINE u == run[r]
                e == client[r].events - 1
                n == client[r].received + 1
                k == [client[r] EXCEPT !.events = e, !.received = n]
    <3>1. run' = [run EXCEPT ![r] = u] /\ client' = [client EXCEPT ![r] = k] /\ u \in RunType
      BY <1>0, <2>2
    <3>2. client[r].pc \in {"loop", "drain"} /\ client[r].events > 0
      BY <1>13 DEF WriteEvent
    <3>3. client[r].events \in 0 .. BufferEvents /\ u.sent \in 0 .. DeltaLimit
      BY <1>r DEF ClientType, RunType
    <3>4. Account(r, run[r], client[r])
      BY <1>r
    <3>5. client[r].received + client[r].events <= u.sent
      BY <1>r, <3>3, <3>4 DEF Account, InTransitOf
    <3>6. e \in 0 .. BufferEvents /\ n \in 0 .. DeltaLimit
          /\ n + (e + 0) = client[r].received + (client[r].events + 0)
          /\ n + (e + 1) = client[r].received + (client[r].events + 1)
      BY <1>n, <1>r, <3>2, <3>3, <3>5
    <3>. HIDE DEF e, n
    <3>7. k \in ClientType /\ k.pc = client[r].pc /\ k.events = e /\ k.received = n
          /\ k.wrote = client[r].wrote /\ k.gone = client[r].gone
      BY <1>r, <3>6 DEF ClientType
    <3>8. client[r].wrote # "done"
      BY <3>2, <3>4 DEF Account
    <3>9. Account(r, u, k)
      <4>. HIDE DEF k
      <4>. QED BY <3>4, <3>6, <3>7, <3>8 DEF Account, InTransitOf
    <3>10. SlotsFollow(r, u)
      BY <1>r, <2>2 DEF SlotsFollow, Live, Waiting, RunType
    <3>. HIDE DEF k, u
    <3>. QED BY <1>f, <3>1, <3>7, <3>9, <3>10, OneRequest
  <2>. QED BY <1>13, <2>1, <2>2 DEF WriteEvent
<1>14. ASSUME NEW r \in Requests, TakeOutcome(r) PROVE RunsIInv'
  <2>. DEFINE u == run[r]
              k == [client[r] EXCEPT !.pc = "drain"]
  <2>1. run' = [run EXCEPT ![r] = u] /\ client' = [client EXCEPT ![r] = k] /\ u \in RunType
        /\ UNCHANGED <<inflight, userCalls>> /\ client[r].pc = "loop" /\ u.pc = "over" /\ r \in Streams
    BY <1>0, <1>14 DEF TakeOutcome
  <2>2. /\ k \in ClientType /\ k.pc = "drain" /\ k.events = client[r].events
        /\ k.gone = client[r].gone /\ k.received = client[r].received /\ k.wrote = client[r].wrote
    BY <1>r DEF ClientType
  <2>3. Account(r, u, k)
    <3>1. Account(r, u, client[r])
      BY <1>r
    <3>. HIDE DEF k, u
    <3>. QED BY <2>1, <2>2, <3>1 DEF Account, InTransitOf
  <2>4. SlotsFollow(r, u)
    BY <2>1 DEF SlotsFollow, Live, Waiting
  <2>. HIDE DEF k, u
  <2>. QED BY <1>f, <2>1, <2>2, <2>3, <2>4, OneRequest
<1>15. ASSUME NEW r \in Requests, Leave(r) \/ Backstop(r) \/ WriteTerminal(r) \/ Reply(r)
       PROVE  RunsIInv'
  <2>1. Terminal(r) \in {"none", "done", "error"}
    BY DEF Terminal
  <2>2. client[r].pc = "drain" => run[r].pc = "over"
    BY <1>r DEF Account
  <2>3. CASE Leave(r) \/ Backstop(r)
    BY <1>f, <2>3, StreamEnds DEF Leave, Backstop
  <2>4. CASE WriteTerminal(r)
    <3>1. PICK wrote \in {Terminal(r), "none"} : EndsStream(r, wrote)
      BY <2>4 DEF WriteTerminal
    <3>. QED BY <1>f, <2>1, <2>2, <2>4, <3>1, StreamEnds DEF WriteTerminal
  <2>5. CASE Reply(r)
    BY <1>f, <2>1, <2>5, StreamEnds DEF Reply
  <2>. QED BY <1>15, <2>3, <2>4, <2>5
<1>16. CASE UNCHANGED runsVars
  <2>1. Live' = Live /\ Begun' = Begun /\ \A r \in Requests : Account(r, run[r], client[r])'
    BY <1>f, <1>16 DEF runsVars, RunsFacts, Live, Begun, Account, InTransitOf
  <2>2. RunsFacts'
    BY <1>f, <1>16, <2>1 DEF runsVars, RunsFacts
  <2>. QED BY <2>2, RunsPartsNext
<1>. QED BY <1>1, <1>2, <1>3, <1>4, <1>5, <1>6, <1>7, <1>8, <1>9, <1>10, <1>11, <1>12, <1>13, <1>14,
         <1>15, <1>16 DEF RunsNext, RunStep, HandlerStep
=============================================================================
