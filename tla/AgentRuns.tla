----------------------------- MODULE AgentRuns ------------------------------
(***************************************************************************)
(* Runs of an agent behind its HTTP handlers (extensions/agent runner.go,   *)
(* tools.go, http.go): admission by the gate, rounds of model turns and     *)
(* tool calls under the ledger's budget, and the stream handler that        *)
(* forwards deltas through a bounded channel and ends with one terminal     *)
(* event.  Gate entries of different users are independent: this is one     *)
(* user's.  The calls of a run are all to one tool.                         *)
(***************************************************************************)
EXTENDS Integers, FiniteSets

CONSTANTS
  Requests,        \* requests of the user, each a run
  Streams,         \* those that come through Stream, the others through Invoke
  MaxConcurrent, MaxUserCalls, MaxRounds, MaxTokens,  \* the fields of Budget
  ReserveTokens, MaxCallsPerTool,
  BufferEvents,    \* capacity of the channel of events (64 in the code)
  DeltaLimit,      \* bound on the text deltas of one run
  CallLimit        \* bound on the tool calls that one answer proposes

ASSUME RunsAssumption ==
  /\ IsFiniteSet(Requests) /\ Streams \subseteq Requests
  /\ {DeltaLimit, CallLimit} \subseteq Nat
  /\ {MaxConcurrent, MaxUserCalls, MaxRounds, MaxTokens, ReserveTokens, MaxCallsPerTool,
      BufferEvents} \subseteq Nat \ {0}

VARIABLES
  inflight,   \* Gate.inflight of the user
  userCalls,  \* Gate.userCalls of the user
  run,        \* per request, the goroutine of Runner.Run or RunStream
  client      \* per request, the handler that serves it and its client

runsVars == <<inflight, userCalls, run, client>>

NewRun == [pc |-> "idle", round |-> 0, tokens |-> 0, calls |-> 0, left |-> 0,
           sent |-> 0, done |-> FALSE, outcome |-> "none"]
NewClient == [pc |-> "idle", events |-> 0, received |-> 0, wrote |-> "none", gone |-> FALSE]

Live == {r \in Requests : run[r].pc \notin {"idle", "gate", "over"}}

RunsTypeOK ==
  /\ inflight \in 0 .. Cardinality(Requests) /\ userCalls \in 0 .. Cardinality(Requests)
  /\ run \in [Requests ->
       [pc : {"idle", "gate", "admitted", "round", "model", "sending", "calls", "tool", "over"},
        round : 0 .. MaxRounds, tokens : 0 .. MaxTokens + ReserveTokens + MaxTokens,
        calls : 0 .. MaxCallsPerTool + 1, left : 0 .. CallLimit,
        sent : 0 .. DeltaLimit, done : BOOLEAN,
        outcome : {"none", "result", "error"}]]
  /\ client \in [Requests ->
       [pc : {"idle", "loop", "drain", "returned"}, events : 0 .. BufferEvents,
        received : 0 .. DeltaLimit, wrote : {"none", "done", "error"}, gone : BOOLEAN]]

RunsInit ==
  /\ inflight = 0 /\ userCalls = 0
  /\ run = [r \in Requests |-> NewRun] /\ client = [r \in Requests |-> NewClient]

\* The handler has an identity, a valid request and a route; its run begins.
Arrives(r) ==
  /\ run[r].pc = "idle"
  /\ run' = [run EXCEPT ![r].pc = "gate"]
  /\ client' = [client EXCEPT ![r].pc = "loop"]
  /\ UNCHANGED <<inflight, userCalls>>

\* The run returns, with a result (a text, or the end of its budget) or an
\* error: the slot is released, the outcome goes to the handler.
Ends(r, outcome) ==
  /\ run' = [run EXCEPT ![r] = [NewRun EXCEPT !.pc = "over", !.outcome = outcome,
                                 !.sent = run[r].sent]]
  /\ inflight' = inflight - 1
  /\ UNCHANGED <<userCalls, client>>

\* Gate.beginRun.
BeginRun(r) ==
  /\ run[r].pc = "gate"
  /\ \/ /\ inflight < MaxConcurrent /\ userCalls < MaxUserCalls
        /\ inflight' = inflight + 1 /\ userCalls' = userCalls + 1
        /\ run' = [run EXCEPT ![r].pc = "admitted"]
     \/ /\ inflight >= MaxConcurrent \/ userCalls >= MaxUserCalls
        /\ run' = [run EXCEPT ![r].pc = "over", ![r].outcome = "error"]
        /\ UNCHANGED <<inflight, userCalls>>
  /\ UNCHANGED client

\* admit releases the slot again when the request is already cancelled.
CheckContext(r) ==
  /\ run[r].pc = "admitted"
  /\ \/ run[r].done /\ Ends(r, "error")
     \/ /\ ~run[r].done
        /\ run' = [run EXCEPT ![r].pc = "round"]
        /\ UNCHANGED <<inflight, userCalls, client>>

\* Budget.TotalTimeout, or the model or tool that it interrupts.
RunExpires(r) ==
  /\ run[r].pc \in {"round", "model", "calls", "tool"} /\ ~run[r].done
  /\ run' = [run EXCEPT ![r].done = TRUE]
  /\ UNCHANGED <<inflight, userCalls, client>>

\* The input grows with every round; its estimate is at least one token each.
Covered(r) == run[r].round + 1 < MaxTokens - run[r].tokens

RoundBegins(r) ==
  /\ run[r].pc = "round"
  /\ \/ run[r].round = MaxRounds /\ Ends(r, "result")
     \/ run[r].round < MaxRounds /\ run[r].done /\ Ends(r, "error")
     \/ run[r].round < MaxRounds /\ ~run[r].done /\ ~Covered(r) /\ Ends(r, "result")
     \/ /\ run[r].round < MaxRounds /\ ~run[r].done /\ Covered(r)
        /\ run' = [run EXCEPT ![r].pc = "model"]
        /\ UNCHANGED <<inflight, userCalls, client>>

ModelFails(r) == run[r].pc = "model" /\ Ends(r, "error")

\* collectStream hands a chunk of text to onDelta, which waits for room or
\* for the end of the request; what is not sent by then is lost.
ChunkArrives(r) ==
  /\ r \in Streams /\ run[r].pc = "model" /\ run[r].sent < DeltaLimit
  /\ run' = [run EXCEPT ![r].pc = "sending", ![r].sent = @ + 1]
  /\ UNCHANGED <<inflight, userCalls, client>>

\* runCtx, which onDelta watches, ends with the request or with the handler.
RunCtxDone(r) == client[r].gone \/ client[r].pc = "returned"

SendDeltaBlocks(r) ==
  /\ run[r].pc = "sending" /\ client[r].events < BufferEvents
  /\ run' = [run EXCEPT ![r].pc = "model"]
  /\ client' = [client EXCEPT ![r].events = @ + 1]
  /\ UNCHANGED <<inflight, userCalls>>

SendDelta(r) ==
  /\ run[r].pc = "sending"
  /\ run' = [run EXCEPT ![r].pc = "model"]
  /\ \/ /\ client[r].events < BufferEvents
        /\ client' = [client EXCEPT ![r].events = @ + 1]
     \/ RunCtxDone(r) /\ UNCHANGED client
  /\ UNCHANGED <<inflight, userCalls>>

\* Usage as reported, or the reserve; then the text, or the calls it proposes.
ModelAnswers(r) ==
  \E spend \in {1, MaxTokens, ReserveTokens}, proposed \in 0 .. CallLimit :
    /\ run[r].pc = "model"
    /\ \/ (run[r].tokens + spend > MaxTokens \/ proposed = 0) /\ Ends(r, "result")
       \/ /\ run[r].tokens + spend <= MaxTokens /\ proposed > 0
          /\ run' = [run EXCEPT ![r].pc = "calls", ![r].left = proposed, ![r].round = @ + 1,
                                ![r].tokens = @ + spend]
          /\ UNCHANGED <<inflight, userCalls, client>>

AfterCall(r) == IF run[r].left = 1 THEN "round" ELSE "calls"

\* Runner.invoke: an unknown tool, bad arguments and a denial are answers,
\* unless Authorize was denied by the end of the context (isCancel).
CallRefused(r) ==
  /\ run[r].pc = "calls"
  /\ \/ /\ run' = [run EXCEPT ![r].pc = AfterCall(r), ![r].left = @ - 1]
        /\ UNCHANGED <<inflight, userCalls, client>>
     \/ Ends(r, "result")

\* chargeCall counts before it compares.
CallAccepted(r) ==
  /\ run[r].pc = "calls"
  /\ \/ run[r].calls + 1 > MaxCallsPerTool /\ Ends(r, "result")
     \/ /\ run[r].calls + 1 <= MaxCallsPerTool
        /\ run' = [run EXCEPT ![r].pc = "tool", ![r].calls = @ + 1]
        /\ UNCHANGED <<inflight, userCalls, client>>

\* A result or an error for the model; an error that reads like a spent budget
\* or a cancellation ends the run (isBudgetEnd, isCancel).
ToolReturns(r) ==
  /\ run[r].pc = "tool"
  /\ \/ /\ run' = [run EXCEPT ![r].pc = AfterCall(r), ![r].left = @ - 1]
        /\ UNCHANGED <<inflight, userCalls, client>>
     \/ Ends(r, "result")

\* The request's context ends with it, and runCtx with that.
ClientLeaves(r) ==
  /\ client[r].pc \in {"loop", "drain"} /\ ~client[r].gone
  /\ client' = [client EXCEPT ![r].gone = TRUE]
  /\ run' = [run EXCEPT ![r].done = run[r].pc # "over"]
  /\ UNCHANGED <<inflight, userCalls>>

\* The handler returns; its deferred cancel ends runCtx.
EndsStream(r, wrote) ==
  /\ client' = [client EXCEPT ![r].pc = "returned", ![r].wrote = wrote]
  /\ run' = [run EXCEPT ![r].done = run[r].pc # "over"]
  /\ UNCHANGED <<inflight, userCalls>>

\* A write succeeds, or fails on a dead or slow client and ends the stream.
WriteEvent(r) ==
  /\ r \in Streams /\ client[r].pc \in {"loop", "drain"} /\ client[r].events > 0
  /\ \/ /\ client' = [client EXCEPT ![r].events = @ - 1, ![r].received = @ + 1]
        /\ UNCHANGED <<inflight, userCalls, run>>
     \/ EndsStream(r, "none")

Leave(r) == r \in Streams /\ client[r].pc = "loop" /\ client[r].gone /\ EndsStream(r, "none")

\* The backstop for a stalled run cancels it and reports an error.
Backstop(r) == r \in Streams /\ client[r].pc = "loop" /\ EndsStream(r, "error")

TakeOutcome(r) ==
  /\ r \in Streams /\ client[r].pc = "loop" /\ run[r].pc = "over"
  /\ client' = [client EXCEPT ![r].pc = "drain"]
  /\ UNCHANGED <<inflight, userCalls, run>>

Terminal(r) == IF run[r].outcome = "error" THEN "error" ELSE "done"

WriteTerminalAtOnce(r) ==
  /\ client[r].pc = "drain"
  /\ \E wrote \in {Terminal(r), "none"} : EndsStream(r, wrote)

WriteTerminal(r) ==
  /\ client[r].pc = "drain" /\ client[r].events = 0
  /\ \E wrote \in {Terminal(r), "none"} : EndsStream(r, wrote)

\* Invoke waits for Run and answers with its outcome.
Reply(r) ==
  /\ r \notin Streams /\ client[r].pc = "loop" /\ run[r].pc = "over"
  /\ EndsStream(r, Terminal(r))

RunStep(r) ==
  \/ BeginRun(r) \/ CheckContext(r) \/ RoundBegins(r) \/ ModelFails(r) \/ SendDelta(r)
  \/ ModelAnswers(r) \/ CallRefused(r) \/ CallAccepted(r) \/ ToolReturns(r)
HandlerStep(r) ==
  WriteEvent(r) \/ Leave(r) \/ Backstop(r) \/ TakeOutcome(r) \/ WriteTerminal(r) \/ Reply(r)

RunsNext ==
  \E r \in Requests :
    Arrives(r) \/ RunStep(r) \/ HandlerStep(r) \/ ChunkArrives(r) \/ RunExpires(r) \/ ClientLeaves(r)

(* Whatever ends a run - an answer, a refusal, the budget, a cancelled request
   between admission and the first turn - its slot is free again, and the live
   runs of a user are never more than MaxConcurrent (Gate.beginRun, admit).  *)
SlotsAreRuns ==
  /\ inflight = Cardinality(Live) /\ inflight <= MaxConcurrent /\ userCalls <= MaxUserCalls

(* A stream that ends with "done" carried every delta of its run: the deltas
   buffered when the run ended are written before it (Handler.Stream).       *)
DoneCarriesEverything ==
  \A r \in Streams :
    client[r].wrote = "done" /\ ~client[r].gone => client[r].received = run[r].sent

(* Every delta of a run has been received, waits in the channel or is being *)
(* sent, until the client is gone or the handler returns.                  *)
InTransit(r) == client[r].events + (IF run[r].pc = "sending" THEN 1 ELSE 0)

DeltasAccounted ==
  \A r \in Requests :
    /\ run[r].pc = "idle" => client[r].pc = "idle"
    /\ client[r].received + InTransit(r) <= run[r].sent
    /\ ~client[r].gone /\ client[r].pc # "returned" =>
         client[r].received + InTransit(r) = run[r].sent
    /\ client[r].pc = "drain" => run[r].pc = "over" /\ r \in Streams
    /\ client[r].wrote = "done" => client[r].pc = "returned" /\ run[r].pc = "over"

(* A user is charged for runs that began; a turn has a round left, and a   *)
(* tool call is one of those the model proposed.                           *)
WithinBudget ==
  /\ userCalls <= Cardinality({r \in Requests : run[r].pc \notin {"idle", "gate"}})
  /\ \A r \in Requests :
       /\ run[r].pc \in {"model", "sending"} => run[r].round < MaxRounds
       /\ run[r].pc \in {"calls", "tool"} => run[r].left > 0

RunsIInv ==
  RunsTypeOK /\ SlotsAreRuns /\ DeltasAccounted /\ WithinBudget /\ DoneCarriesEverything

(* Every admitted run returns and frees its slot, although its handler may
   have left with the channel of events full (onDelta, deferred cancel).     *)
RunsEnd == \A r \in Requests : run[r].pc # "idle" ~> run[r].pc = "over" /\ client[r].pc = "returned"
=============================================================================
