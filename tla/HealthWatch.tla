---------------------------- MODULE HealthWatch -----------------------------
(***************************************************************************)
(* grpcRuntimeHealthServer (pkg/bear/grpc_runtime.go): Watch streams of the *)
(* gRPC health service.  Resume and Shutdown replace the status and close   *)
(* the channel `changed` under one mutex; a watch reads status and channel  *)
(* under the same mutex, sends outside it, and waits on the channel it      *)
(* read.  A channel is its number: it is closed once another has replaced   *)
(* it.                                                                      *)
(***************************************************************************)
EXTENDS Naturals

CONSTANTS
  Watches,     \* Watch streams
  ChangeLimit  \* bound on the calls of Resume and Shutdown

ASSUME WatchAssumption == ChangeLimit \in Nat

VARIABLES
  serving,  \* the status held by health.Server
  stopped,  \* grpcRuntimeHealthServer.stopped
  changed,  \* number of the channel `changed`
  watch     \* per stream: where it is, the state it read, the status it sent last

watchVars == <<serving, stopped, changed, watch>>

Statuses == {"SERVING", "NOT_SERVING"}
NewWatch == [pc |-> "absent", seen |-> 0, seenStopped |-> FALSE,
             response |-> "none", last |-> "none"]

WatchTypeOK ==
  /\ serving \in BOOLEAN /\ stopped \in BOOLEAN /\ changed \in 0 .. ChangeLimit
  /\ watch \in [Watches -> [pc : {"absent", "look", "send", "wait", "ended"},
                            seen : 0 .. ChangeLimit, seenStopped : BOOLEAN,
                            response : Statuses \cup {"none"},
                            last : Statuses \cup {"none"}]]

\* buildGRPCRuntime registers every service as not serving.
WatchInit ==
  /\ serving = FALSE /\ stopped = FALSE /\ changed = 0
  /\ watch = [w \in Watches |-> NewWatch]

Status == IF stopped \/ ~serving THEN "NOT_SERVING" ELSE "SERVING"

\* setServing after the listener runs; setNotServing when the drain begins.
ServingChanges(up) ==
  /\ changed < ChangeLimit
  /\ serving' = up /\ stopped' = ~up /\ changed' = changed + 1
  /\ UNCHANGED watch

\* A client opens a stream for a service that is registered.
WatchOpens(w) ==
  /\ watch[w].pc = "absent"
  /\ watch' = [watch EXCEPT ![w].pc = "look"]
  /\ UNCHANGED <<serving, stopped, changed>>

WatchLooks(w) ==
  /\ watch[w].pc = "look"
  /\ watch' = [watch EXCEPT ![w].pc = "send", ![w].seen = changed,
                            ![w].seenStopped = stopped, ![w].response = Status]
  /\ UNCHANGED <<serving, stopped, changed>>

\* Sends only a status that differs from the last; a failed Send ends the watch.
WatchSends(w) ==
  /\ watch[w].pc = "send"
  /\ \/ watch' = [watch EXCEPT ![w].last = watch[w].response,
                     ![w].pc = IF watch[w].seenStopped THEN "ended" ELSE "wait"]
     \/ /\ watch[w].response # watch[w].last
        /\ watch' = [watch EXCEPT ![w].pc = "ended"]
  /\ UNCHANGED <<serving, stopped, changed>>

WatchWakes(w) ==
  /\ watch[w].pc = "wait" /\ changed # watch[w].seen
  /\ watch' = [watch EXCEPT ![w].pc = "look"]
  /\ UNCHANGED <<serving, stopped, changed>>

WatchCancelled(w) ==
  /\ watch[w].pc = "wait"
  /\ watch' = [watch EXCEPT ![w].pc = "ended"]
  /\ UNCHANGED <<serving, stopped, changed>>

WatchRuns(w) == WatchLooks(w) \/ WatchSends(w) \/ WatchWakes(w)

WatchNext ==
  \/ \E up \in BOOLEAN : ServingChanges(up)
  \/ \E w \in Watches : WatchOpens(w) \/ WatchRuns(w) \/ WatchCancelled(w)

(* A watch that sleeps on the channel in use has sent the status that holds:
   no change falls between its look and its wait (grpc_runtime.go, Watch).   *)
NoChangeMissed ==
  \A w \in Watches : watch[w].pc = "wait" /\ watch[w].seen = changed => watch[w].last = Status

(* Before it waits: a watch whose channel is still the one in use is about  *)
(* to send the status that holds.                                          *)
LooksAreCurrent ==
  \A w \in Watches :
    /\ watch[w].seen <= changed
    /\ watch[w].pc = "send" /\ watch[w].seen = changed => watch[w].response = Status

WatchIInv == WatchTypeOK /\ LooksAreCurrent /\ NoChangeMissed

(* Once the drain has set NOT_SERVING for good, every watch ends, so that no
   stream of the framework's own holds GracefulStop up.                      *)
WatchesEndWithDrain ==
  \A w \in Watches :
    <>[]stopped => []<>(watch[w].pc \in {"absent", "ended"})
=============================================================================
