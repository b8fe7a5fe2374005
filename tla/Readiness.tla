------------------------------ MODULE Readiness ------------------------------
(***************************************************************************)
(* The readiness coordinator behind GET /ready (pkg/bear/health.go).        *)
(* Concurrent probes share one execution of a checker: a probe joins the    *)
(* attempt in flight or starts one, in the order of the checkers' names,    *)
(* and waits for all of them until its own deadline.  The attempt does not  *)
(* end with the probe that started it; one that outlives its timeout stays  *)
(* in flight, and later probes join it.                                     *)
(***************************************************************************)
EXTENDS Naturals, Sequences, FiniteSets

CONSTANTS
  Probes,       \* requests for /ready
  CheckerCount, \* the checkers are 1..CheckerCount, numbered by name
  Unnamed,      \* checkers whose Name() panics
  ProbeLimit    \* bound on the attempts of one checker

Checkers == 1 .. CheckerCount

ASSUME ReadinessAssumption ==
  CheckerCount \in Nat \ {0} /\ Unnamed \subseteq Checkers /\ ProbeLimit \in Nat

VARIABLES
  attempts,  \* per checker, the outcome of each attempt, in order of start
  inFlight,  \* readinessCheckCoordinator.inFlight: attempt number, 0 for none
  probe,     \* per probe: its state, the attempts it joined, the results it has
  finishedBefore \* history: attempts of each checker over when the probe began

readinessVars == <<attempts, inFlight, probe, finishedBefore>>

Outcomes == {"running", "ok", "failed"}
Results == {"none", "ok", "failed"}
NewProbe == [pc |-> "idle", joined |-> [c \in Checkers |-> 0],
             result |-> [c \in Checkers |-> "none"]]

ReadinessTypeOK ==
  /\ attempts \in [Checkers -> Seq(Outcomes)]
  /\ \A c \in Checkers : Len(attempts[c]) <= ProbeLimit
  /\ inFlight \in [Checkers -> 0 .. ProbeLimit]
  /\ probe \in [Probes -> [pc : {"idle", "starting", "waiting", "done"},
                           joined : [Checkers -> 0 .. ProbeLimit],
                           result : [Checkers -> Results]]]
  /\ finishedBefore \in [Probes -> [Checkers -> 0 .. ProbeLimit]]

ReadinessInit ==
  /\ attempts = [c \in Checkers |-> <<>>]
  /\ inFlight = [c \in Checkers |-> 0]
  /\ probe = [p \in Probes |-> NewProbe]
  /\ finishedBefore = [p \in Probes |-> [c \in Checkers |-> 0]]

Over(c) == Cardinality({n \in DOMAIN attempts[c] : attempts[c][n] # "running"})

ProbeArrives(p) ==
  /\ probe[p].pc = "idle"
  /\ probe' = [probe EXCEPT ![p] = [NewProbe EXCEPT !.pc = "starting"]]
  /\ finishedBefore' = [finishedBefore EXCEPT ![p] = [c \in Checkers |-> Over(c)]]
  /\ UNCHANGED <<attempts, inFlight>>

\* The next checker in the order of names that the probe has not dealt with.
NextChecker(p, c) ==
  LET open == {d \in Checkers : probe[p].joined[d] = 0 /\ probe[p].result[d] = "none"}
  IN c \in open /\ \A d \in open : c <= d

StartAnother(c) ==
  /\ Len(attempts[c]) < ProbeLimit
  /\ attempts' = [attempts EXCEPT ![c] = Append(@, "running")]
  /\ inFlight' = [inFlight EXCEPT ![c] = Len(attempts[c]) + 1]

\* coordinator.start, under its mutex: join the attempt in flight or begin one.
StartOrJoin(c) ==
  IF inFlight[c] # 0 THEN UNCHANGED <<attempts, inFlight>>
  ELSE /\ Len(attempts[c]) < ProbeLimit
       /\ attempts' = [attempts EXCEPT ![c] = Append(@, "running")]
       /\ inFlight' = [inFlight EXCEPT ![c] = Len(attempts[c]) + 1]

ProbeTakes(p, c) ==
  /\ probe[p].pc = "starting" /\ NextChecker(p, c)
  /\ \/ /\ c \in Unnamed
        /\ probe' = [probe EXCEPT ![p].result[c] = "failed"]
        /\ UNCHANGED <<attempts, inFlight>>
     \/ /\ c \notin Unnamed
        /\ StartOrJoin(c)
        /\ probe' = [probe EXCEPT ![p].joined[c] = inFlight'[c]]
  /\ UNCHANGED finishedBefore

ProbeWaits(p) ==
  /\ probe[p].pc = "starting" /\ ~ \E c \in Checkers : NextChecker(p, c)
  /\ probe' = [probe EXCEPT ![p].pc = "waiting"]
  /\ UNCHANGED <<attempts, inFlight, finishedBefore>>

\* CheckReady returns or panics; finish removes the attempt and closes done.
CheckEnds(c) ==
  /\ inFlight[c] # 0
  /\ \E outcome \in {"ok", "failed"} :
       attempts' = [attempts EXCEPT ![c][inFlight[c]] = outcome]
  /\ inFlight' = [inFlight EXCEPT ![c] = 0]
  /\ UNCHANGED <<probe, finishedBefore>>

\* The goroutine that waits for the attempt hands its outcome to the probe.
ResultArrives(p, c) ==
  /\ probe[p].pc = "waiting" /\ probe[p].result[c] = "none"
  /\ attempts[c][probe[p].joined[c]] # "running"
  /\ probe' = [probe EXCEPT ![p].result[c] = attempts[c][probe[p].joined[c]]]
  /\ UNCHANGED <<attempts, inFlight, finishedBefore>>

\* All results are in, or the deadline fails those that are missing.
ProbeAnswers(p) ==
  /\ probe[p].pc = "waiting"
  /\ probe' = [probe EXCEPT ![p].pc = "done",
                            ![p].result = [c \in Checkers |->
                               IF @[c] = "none" THEN "failed" ELSE @[c]]]
  /\ UNCHANGED <<attempts, inFlight, finishedBefore>>

ProbeRepeats(p) ==
  /\ probe[p].pc = "done"
  /\ probe' = [probe EXCEPT ![p] = NewProbe]
  /\ finishedBefore' = [finishedBefore EXCEPT ![p] = [c \in Checkers |-> 0]]
  /\ UNCHANGED <<attempts, inFlight>>

ReadinessNext ==
  \/ \E p \in Probes :
       \/ ProbeArrives(p) \/ ProbeWaits(p) \/ ProbeAnswers(p) \/ ProbeRepeats(p)
       \/ \E c \in Checkers : ProbeTakes(p, c) \/ ResultArrives(p, c)
  \/ \E c \in Checkers : CheckEnds(c)

(* A checker is never executed twice at once (health.go, coordinator.start),
   and "ready" is only answered from an execution that was still under way
   when the probe began, so no probe repeats what an earlier one was told.   *)
ChecksSharedAndFresh ==
  /\ \A c \in Checkers : \A m, n \in DOMAIN attempts[c] :
       attempts[c][m] = "running" /\ attempts[c][n] = "running" => m = n
  /\ \A p \in Probes, c \in Checkers :
       probe[p].result[c] = "ok" =>
         /\ probe[p].joined[c] > finishedBefore[p][c]
         /\ attempts[c][probe[p].joined[c]] = "ok"

(* The attempt in flight is the last that was started, and the only one    *)
(* that runs (coordinator.start and finish, under one mutex).              *)
InFlightRuns ==
  \A c \in Checkers :
    /\ inFlight[c] \in {0, Len(attempts[c])}
    /\ \A n \in DOMAIN attempts[c] : attempts[c][n] = "running" <=> n = inFlight[c]

(* A probe joins attempts that were not over when it began, and waits with *)
(* an attempt or a result for every checker.                               *)
JoinsAreFresh ==
  \A p \in Probes, c \in Checkers :
    /\ finishedBefore[p][c] <= Len(attempts[c])
    /\ inFlight[c] # 0 => finishedBefore[p][c] < Len(attempts[c])
    /\ probe[p].joined[c] <= Len(attempts[c])
    /\ probe[p].joined[c] # 0 => probe[p].joined[c] > finishedBefore[p][c]
    /\ probe[p].pc = "waiting" => probe[p].joined[c] # 0 \/ probe[p].result[c] # "none"
    /\ probe[p].result[c] = "ok" => probe[p].joined[c] # 0

ReadinessIInv ==
  ReadinessTypeOK /\ InFlightRuns /\ JoinsAreFresh /\ ChecksSharedAndFresh
=============================================================================
