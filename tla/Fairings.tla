------------------------------ MODULE Fairings ------------------------------
(***************************************************************************)
(* One HTTP request in the fairing pipeline (pkg/bear/fairing.go, bear.go). *)
(*                                                                         *)
(* A route's Gin chain is a sequence of stages, each of which calls the     *)
(* next: the guard of a group or native route, the middleware of a          *)
(* controller, and at the end the compiled pipeline, a native handler or a  *)
(* WebSocket route.  Each stage runs request fairings on the way in and, as *)
(* a deferred call, the response fairings on the way out.  A fairing may    *)
(* accept, end the request by writing or aborting, return an error, or      *)
(* panic.                                                                  *)
(***************************************************************************)
EXTENDS Naturals, SequencesExt

CONSTANTS
  GlobalFairings, \* the attached fairings other than AuthFairings
  GlobalAuth,     \* the attached AuthFairings
  Chains          \* the chains of stages that routes have

VARIABLES
  strictMode,  \* frameworkStrict()
  chain,       \* the stages of the route that was matched
  stage,       \* the stage that runs; Len(chain) + 1 is the handler
  pending,     \* request fairings that the stage has still to run
  entered,     \* strictFairingState.entered
  globalStarted, \* strictFairingState.globalStarted
  responded,   \* fairings whose OnResponse ran, in order
  responseRun, \* the response fairings of this request have run
  terminal,    \* aborted, or a response has been written
  reply,       \* what the client gets
  handled,     \* the handler ran
  mode         \* "idle", "in", "enter", "out" or "done"

fairingVars == <<strictMode, chain, stage, pending, entered, globalStarted, responded,
                 responseRun, terminal, reply, handled, mode>>

(* A controller's own fairings are its Interceptors(), a pipeline's those     *)
(* given to HandleWithFairing, behind the controllers' in a plugin; a guard *)
(* and a WebSocket route have none.  A controller that is built within      *)
(* another is a second stage of its routes.                                *)
StageKinds == {"guard", "controller", "pipeline", "websocket"}
OwnFairings == UNION {UNION {Range(c[i].own) : i \in DOMAIN c} : c \in Chains}
Fairings == Range(GlobalFairings) \cup Range(GlobalAuth) \cup OwnFairings
Stages == [kind : StageKinds, own : Seq(Fairings)]

(* A fairing stands for one place where it is attached: one that is attached *)
(* twice is two.                                                           *)
ASSUME FairingAssumption ==
  /\ GlobalFairings \in Seq(Fairings) /\ IsInjective(GlobalFairings)
  /\ GlobalAuth \in Seq(Fairings)
  /\ Chains # {} /\ Chains \subseteq Seq(Stages) \ {<<>>}
  /\ \A c \in Chains : \A i \in DOMAIN c :
       /\ IsInjective(c[i].own) /\ Range(c[i].own) \cap Range(GlobalFairings) = {}
       /\ c[i].kind \in {"guard", "websocket"} => c[i].own = <<>>
       /\ \A j \in DOMAIN c \ {i} : Range(c[i].own) \cap Range(c[j].own) = {}

Replies == {"none", "written", "success", "error", "panic"}

FairingTypeOK ==
  /\ strictMode \in BOOLEAN /\ globalStarted \in BOOLEAN /\ responseRun \in BOOLEAN
  /\ terminal \in BOOLEAN /\ handled \in BOOLEAN
  /\ chain \in Chains /\ stage \in 0..Len(chain) + 1
  /\ entered \in Seq(Fairings) /\ responded \in Seq(Fairings) /\ pending \in Seq(Fairings)
  /\ reply \in Replies /\ mode \in {"idle", "in", "enter", "out", "done"}

FairingInit ==
  /\ strictMode = FALSE /\ chain = (CHOOSE c \in Chains : TRUE) /\ stage = 0 /\ pending = <<>>
  /\ entered = <<>> /\ globalStarted = FALSE /\ responded = <<>> /\ responseRun = FALSE
  /\ terminal = FALSE /\ reply = "none" /\ handled = FALSE /\ mode = "idle"

RequestArrives ==
  /\ mode = "idle"
  /\ strictMode' \in BOOLEAN /\ chain' \in Chains
  /\ stage' = 1 /\ mode' = "in"
  /\ UNCHANGED <<pending, entered, globalStarted, responded, responseRun, terminal, reply, handled>>

-----------------------------------------------------------------------------
(* The request fairings that stage s runs.  In strict mode the global ones   *)
(* run once per request and before the stage's own; a compatibility guard   *)
(* or pipeline runs its own first and the global ones each time, and a      *)
(* WebSocket route runs the attached AuthFairings as well.                  *)
StageFairings(s) ==
  IF strictMode
    THEN (IF globalStarted THEN <<>> ELSE GlobalFairings) \o s.own
    ELSE CASE s.kind = "controller" -> s.own
           [] s.kind = "websocket" -> GlobalAuth \o GlobalFairings
           [] OTHER -> s.own \o GlobalFairings

EntersStage ==
  /\ mode = "in" /\ stage <= Len(chain) /\ ~terminal
  /\ pending' = StageFairings(chain[stage])
  /\ globalStarted' = (globalStarted \/ strictMode)
  /\ mode' = "enter"
  /\ UNCHANGED <<strictMode, chain, stage, entered, responded, responseRun, terminal, reply,
                 handled>>

(* OnRequest of the next fairing. *)
Accepts ==
  /\ mode = "enter" /\ pending # <<>> /\ ~terminal
  /\ entered' = Append(entered, Head(pending)) /\ pending' = Tail(pending)
  /\ UNCHANGED <<strictMode, chain, stage, globalStarted, responded, responseRun, terminal,
                 reply, handled, mode>>

(* It writes the response or aborts, and counts as entered. *)
EndsRequest ==
  /\ mode = "enter" /\ pending # <<>> /\ ~terminal
  /\ entered' = Append(entered, Head(pending)) /\ pending' = <<>>
  /\ terminal' = TRUE /\ reply' = "written" /\ mode' = "out"
  /\ UNCHANGED <<strictMode, chain, stage, globalStarted, responded, responseRun, handled>>

(* Its error is written; it did not enter. *)
Refuses ==
  /\ mode = "enter" /\ pending # <<>> /\ ~terminal
  /\ pending' = <<>> /\ terminal' = TRUE /\ reply' = "error" /\ mode' = "out"
  /\ UNCHANGED <<strictMode, chain, stage, entered, globalStarted, responded, responseRun, handled>>

Panics ==
  /\ mode = "enter" /\ pending # <<>> /\ ~terminal
  /\ pending' = <<>> /\ reply' = "panic" /\ mode' = "out"
  /\ UNCHANGED <<strictMode, chain, stage, entered, globalStarted, responded, responseRun,
                 terminal, handled>>

(* ctx.Next(), or for a pipeline the handler itself. *)
StageDone ==
  /\ mode = "enter" /\ pending = <<>>
  /\ stage' = stage + 1 /\ mode' = "in"
  /\ UNCHANGED <<strictMode, chain, pending, entered, globalStarted, responded, responseRun,
                 terminal, reply, handled>>

-----------------------------------------------------------------------------
(* The handler, and the way out *)

IsPipeline == chain[Len(chain)].kind = "pipeline"

(* runEnteredResponseFairings: those that entered, last first; one that      *)
(* fails or panics is passed over and its error, if first, is reported.     *)
ResponseFairings == /\ responded' = responded \o Reverse(entered)
                    /\ responseRun' = TRUE

HandlerErrs ==
  /\ mode = "in" /\ stage = Len(chain) + 1
  /\ handled' = TRUE /\ terminal' = TRUE /\ reply' = "error" /\ mode' = "out"
  /\ UNCHANGED <<strictMode, chain, stage, pending, entered, globalStarted, responded, responseRun>>

HandlerPanics ==
  /\ mode = "in" /\ stage = Len(chain) + 1
  /\ handled' = TRUE /\ reply' = "panic" /\ mode' = "out"
  /\ UNCHANGED <<strictMode, chain, stage, pending, entered, globalStarted, responded,
                 responseRun, terminal>>

(* A native or WebSocket handler writes for itself, and so may a compiled one. *)
HandlerWrites ==
  /\ mode = "in" /\ stage = Len(chain) + 1
  /\ handled' = TRUE /\ terminal' = TRUE /\ reply' = "written" /\ mode' = "out"
  /\ UNCHANGED <<strictMode, chain, stage, pending, entered, globalStarted, responded, responseRun>>

(* A compiled handler returns a result: the response fairings transform it   *)
(* before it is written.                                                   *)
HandlerReturns ==
  /\ mode = "in" /\ stage = Len(chain) + 1 /\ IsPipeline
  /\ handled' = TRUE /\ terminal' = TRUE /\ mode' = "out"
  /\ ResponseFairings
  /\ reply' \in {"success"} \cup (IF entered = <<>> THEN {} ELSE {"error"})
  /\ UNCHANGED <<strictMode, chain, stage, pending, entered, globalStarted>>

(* finishNativeGinResponseFairings, deferred by every stage. *)
FinishesResponse ==
  /\ mode = "out" /\ ~responseRun
  /\ ResponseFairings
  /\ \/ UNCHANGED <<terminal, reply>>
     \/ /\ entered # <<>>
        /\ terminal' = TRUE
        /\ reply' = IF reply = "panic" THEN "error" ELSE reply
  /\ UNCHANGED <<strictMode, chain, stage, pending, entered, globalStarted, handled, mode>>

RequestEnds ==
  /\ mode = "out" /\ responseRun
  /\ mode' = "done"
  /\ UNCHANGED <<strictMode, chain, stage, pending, entered, globalStarted, responded,
                 responseRun, terminal, reply, handled>>

FairingNext ==
  \/ RequestArrives \/ EntersStage \/ Accepts \/ EndsRequest \/ Refuses \/ Panics \/ StageDone
  \/ HandlerErrs \/ HandlerPanics \/ HandlerWrites \/ HandlerReturns
  \/ FinishesResponse \/ RequestEnds

-----------------------------------------------------------------------------
(* Every fairing that let the request in sees it once on the way out, in     *)
(* reverse order, however the request ended and in whichever stage; the     *)
(* handler ran only after every stage's fairings accepted, and in strict     *)
(* mode each global fairing was run once and before all others.             *)
FairingsBracketHandler ==
  mode = "done" =>
    /\ responded = Reverse(entered)
    /\ handled => \A i \in DOMAIN chain : Range(chain[i].own) \subseteq Range(entered)
    /\ handled /\ strictMode => SubSeq(entered, 1, Len(GlobalFairings)) = GlobalFairings
    /\ strictMode => IsInjective(entered)

-----------------------------------------------------------------------------
(* The request fairings that ran or are still to run in the stages so far.   *)
Met == entered \o pending
Inside == mode \in {"in", "enter"}
StagesMet == IF mode = "enter" THEN stage ELSE stage - 1

(* Where the request is decides what has happened to it.                    *)
OnItsWay ==
  /\ mode = "idle" => entered = <<>> /\ ~globalStarted
  /\ mode # "enter" => pending = <<>>
  /\ Inside => stage >= 1
  /\ mode = "enter" => stage <= Len(chain) /\ (strictMode => globalStarted)
  /\ Inside /\ strictMode /\ ~globalStarted => stage = 1 /\ entered = <<>>
  /\ handled \/ responseRun => mode \in {"out", "done"}
  /\ mode = "done" => responseRun
  /\ responded = IF responseRun THEN Reverse(entered) ELSE <<>>

(* Every stage that was passed let all of its own fairings see the request. *)
StagesEntered ==
  /\ Inside => \A i \in 1..StagesMet : Range(chain[i].own) \subseteq Range(Met)
  /\ handled => \A i \in DOMAIN chain : Range(chain[i].own) \subseteq Range(entered)

GlobalsFirst ==
  strictMode /\ ((Inside /\ globalStarted) \/ handled) =>
    /\ Len(GlobalFairings) <= Len(Met)
    /\ \A i \in DOMAIN GlobalFairings : Met[i] = GlobalFairings[i]

(* In strict mode no fairing runs twice, for the stages that come have none  *)
(* of those that ran.                                                      *)
EnteredOnce ==
  strictMode =>
    /\ IsInjective(Met)
    /\ Inside => \A i \in DOMAIN chain : i > StagesMet => Range(chain[i].own) \cap Range(Met) = {}

(* The invariant by which fairings bracket the handler.                     *)
FairingIInv == FairingTypeOK /\ OnItsWay /\ StagesEntered /\ GlobalsFirst /\ EnteredOnce
=============================================================================
