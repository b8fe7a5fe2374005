------------------------------- MODULE Limiter -------------------------------
(***************************************************************************)
(* The fixed windows of MemoryRateLimiter and RedisRateLimiter              *)
(* (pkg/bear/limiter.go), for the requests of one key.  The window of the   *)
(* first is the ticker's: its goroutine may be late, the ticker's channel   *)
(* holds one tick and drops more.  The window of the second starts with the *)
(* first INCR, whose PEXPIRE Redis keeps; a request that gets no answer of  *)
(* Redis is admitted or refused by the limiter's failure mode.  Time        *)
(* advances in steps, Window of them are one window.                        *)
(***************************************************************************)
EXTENDS Naturals

CONSTANTS
  Limit,      \* the limiter's limit
  Window,     \* its window, in steps of the clock
  ErrorLimit  \* bound on the requests admitted on an error in a window's length

ASSUME LimiterAssumption ==
  Limit \in Nat \ {0} /\ Window \in Nat \ {0} /\ ErrorLimit \in Nat

VARIABLES
  count,       \* per limiter: counts[key], or the value of the Redis key
  untilTick,   \* steps to the ticker's next tick
  tickWaits,   \* a tick is in the ticker's channel
  untilExpiry, \* steps to the expiry of the Redis key, 0 when it has none
  workerDone,  \* Shutdown stopped the goroutine of the memory limiter
  failClosed,  \* what the Redis limiter does without an answer: refuse, or admit
  recent,      \* history per limiter: requests admitted in the last 1, 2 .. Window steps
  onError      \* history: those of them that were admitted without an answer of Redis

limiterVars == <<count, untilTick, tickWaits, untilExpiry, workerDone, failClosed, recent, onError>>

Limiters == {"memory", "redis"}

LimiterTypeOK ==
  /\ count \in [Limiters -> 0 .. Limit + 1]
  /\ untilTick \in 1 .. Window /\ untilExpiry \in 0 .. Window
  /\ tickWaits \in BOOLEAN /\ workerDone \in BOOLEAN
  /\ recent \in [Limiters -> [1 .. Window -> Nat]]
  /\ failClosed \in BOOLEAN /\ onError \in [1 .. Window -> Nat]

LimiterInit ==
  /\ count = [l \in Limiters |-> 0]
  /\ untilTick = Window /\ tickWaits = FALSE /\ untilExpiry = 0 /\ workerDone = FALSE
  /\ recent = [l \in Limiters |-> [i \in 1 .. Window |-> 0]]
  /\ failClosed \in BOOLEAN /\ onError = [i \in 1 .. Window |-> 0]

\* Allow counts first; a count past the limit is as good as any larger one.
Counted(l) == IF count[l] > Limit THEN count[l] ELSE count[l] + 1
Admits(l) == count'[l] <= Limit

OneMore(history) == [i \in 1 .. Window |-> history[i] + 1]

Note(l) == recent' = IF Admits(l) THEN [recent EXCEPT ![l] = OneMore(@)] ELSE recent

MemoryAllow ==
  /\ count' = [count EXCEPT !["memory"] = Counted("memory")]
  /\ Note("memory")
  /\ UNCHANGED <<untilTick, tickWaits, untilExpiry, workerDone, failClosed, onError>>

\* luaIncr: INCR, and PEXPIRE when the key is new.
ScriptRuns ==
  /\ count' = [count EXCEPT !["redis"] = Counted("redis")]
  /\ untilExpiry' = IF count["redis"] = 0 THEN Window ELSE untilExpiry

RedisAllow ==
  /\ ScriptRuns /\ Note("redis")
  /\ UNCHANGED <<untilTick, tickWaits, workerDone, failClosed, onError>>

\* Eval fails, whether the script ran or not: the failure mode decides, once the
\* client has given up trying again.
RedisErrs ==
  /\ ScriptRuns \/ UNCHANGED <<count, untilExpiry>>
  /\ \/ /\ ~failClosed /\ onError[Window] < ErrorLimit
        /\ recent' = [recent EXCEPT !["redis"] = OneMore(@)]
        /\ onError' = OneMore(onError)
     \/ UNCHANGED <<recent, onError>>
  /\ UNCHANGED <<untilTick, tickWaits, workerDone, failClosed>>

\* The goroutine receives the tick and replaces the map.
WorkerResets ==
  /\ tickWaits /\ ~workerDone
  /\ tickWaits' = FALSE
  /\ count' = [count EXCEPT !["memory"] = 0]
  /\ UNCHANGED <<untilTick, untilExpiry, workerDone, failClosed, recent, onError>>

WorkerStops ==
  /\ ~workerDone
  /\ workerDone' = TRUE /\ tickWaits' = FALSE
  /\ UNCHANGED <<count, untilTick, untilExpiry, failClosed, recent, onError>>

Aged(history) == [i \in 1 .. Window |-> IF i = 1 THEN 0 ELSE history[i - 1]]

ClockAdvances ==
  /\ untilTick' = IF untilTick = 1 THEN Window ELSE untilTick - 1
  /\ tickWaits' = (~workerDone /\ (tickWaits \/ untilTick = 1))
  /\ untilExpiry' = IF untilExpiry = 0 THEN 0 ELSE untilExpiry - 1
  /\ count' = [count EXCEPT !["redis"] = IF untilExpiry = 1 THEN 0 ELSE @]
  /\ recent' = [l \in Limiters |-> Aged(recent[l])]
  /\ onError' = Aged(onError)
  /\ UNCHANGED <<workerDone, failClosed>>

LimiterNext ==
  MemoryAllow \/ RedisAllow \/ RedisErrs \/ WorkerResets \/ WorkerStops \/ ClockAdvances

(* In any span of one window's length Redis admits at most twice the limit,
   and the memory limiter three times: a tick handled late may be followed at
   once by the next (limiter.go, Allow, luaIncr and the ticker's goroutine).
   Errors of Redis add, one by one, what a limiter admits that fails open, and
   nothing to one that fails closed, whether its script had run or not.       *)
AdmissionsBounded ==
  /\ recent["redis"][Window] <= 2 * Limit + (IF failClosed THEN 0 ELSE onError[Window])
  /\ recent["memory"][Window] <= 3 * Limit

\* What the current count has admitted.
Capped(l) == IF count[l] > Limit THEN Limit ELSE count[l]

\* Since the Redis key was set only its count admits, apart from errors; before,
\* one earlier key did.
RedisWindows ==
  /\ count["redis"] = 0 <=> untilExpiry = 0
  /\ failClosed => \A i \in 1 .. Window : onError[i] = 0
  /\ untilExpiry = 0 =>
       /\ recent["redis"][1] <= onError[1]
       /\ \A i \in 1 .. Window : recent["redis"][i] <= Limit + onError[i]
  /\ untilExpiry > 0 =>
       \A i \in 1 .. Window :
         /\ recent["redis"][i] <= Capped("redis") + Limit + onError[i]
         /\ i <= Window - untilExpiry + 1 => recent["redis"][i] <= Capped("redis") + onError[i]

\* Since the last tick the map was replaced once at most, and not at all while the
\* tick waits; since the tick before it, once more.
MemoryWindows ==
  \A i \in 1 .. Window :
    /\ recent["memory"][i] <= Capped("memory") + (IF tickWaits THEN Limit ELSE 2 * Limit)
    /\ i <= Window - untilTick + 1 =>
         recent["memory"][i] <= Capped("memory") + (IF tickWaits THEN 0 ELSE Limit)

LimiterIInv == LimiterTypeOK /\ RedisWindows /\ MemoryWindows
=============================================================================
