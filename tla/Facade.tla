------------------------------- MODULE Facade -------------------------------
(***************************************************************************)
(* The process-wide default facade of pkg/bear/runtime.go.  Igniting an     *)
(* application publishes its runtime over the one before; loading falls     *)
(* back to the newest published runtime that still lives.  Publishing and   *)
(* falling back hold defaultFacadeMu, but loads look first without it and   *)
(* updateDefaultFacade (legacy setters) only compares and swaps.  A facade  *)
(* is a record; the stamp tells copies that setters made apart.  Runtimes   *)
(* are numbered in the order in which they are published.  The stack of     *)
(* superseded facades is the set of its entries: every publish puts at most *)
(* one on top, so the number of publishes before it tells its place.       *)
(***************************************************************************)
EXTENDS Naturals

CONSTANTS
  RuntimeLimit, \* bound on the runtimes that are published
  Updaters,     \* goroutines that call updateDefaultFacade
  StampLimit    \* bound on the copies that setters swap in

VARIABLES
  facade,      \* defaultFacade
  superseded,  \* supersededFacades, each with its place in the stack
  facadeMutex, \* what the holder of defaultFacadeMu is doing, or "free"
  publishedRuntimes, \* history: how many were published
  stoppedRuntimes,   \* runtimes whose lifecycle has stopped
  sawStopped,  \* a load found the facade's runtime stopped and is on its way to the mutex
  updater,     \* per updater, the facade it has loaded, if any
  stamps       \* copies made so far

facadeVars == <<facade, superseded, facadeMutex, publishedRuntimes, stoppedRuntimes,
                sawStopped, updater, stamps>>

ASSUME FacadeAssumption == RuntimeLimit \in Nat /\ StampLimit \in Nat

Nil == [stamp |-> 0, runtime |-> 0]

Facades == [stamp : 0 .. StampLimit, runtime : 0 .. RuntimeLimit]

FacadeTypeOK ==
  /\ facade \in Facades /\ facade.runtime <= publishedRuntimes
  /\ superseded \subseteq [facade : Facades, place : 0 .. RuntimeLimit]
  /\ updater \in [Updaters -> {<<>>} \cup {<<f>> : f \in Facades}]
  /\ facadeMutex \in {"free", "load", "publish"} /\ sawStopped \in BOOLEAN
  /\ publishedRuntimes \in 0 .. RuntimeLimit /\ stoppedRuntimes \subseteq 1 .. publishedRuntimes
  /\ stamps \in 0 .. StampLimit

FacadeInit ==
  /\ facade = Nil /\ superseded = {} /\ facadeMutex = "free"
  /\ publishedRuntimes = 0 /\ stoppedRuntimes = {} /\ stamps = 0 /\ sawStopped = FALSE
  /\ updater = [u \in Updaters |-> <<>>]

\* facadeRuntimeStopped: nil and facades without a runtime never are.
Stale(f) == f.runtime \in stoppedRuntimes
Pruned == {e \in superseded : ~Stale(e.facade)}

RuntimeStops(r) ==
  /\ r \in (1 .. publishedRuntimes) \ stoppedRuntimes
  /\ stoppedRuntimes' = stoppedRuntimes \cup {r}
  /\ UNCHANGED <<facade, superseded, facadeMutex, publishedRuntimes, sawStopped, updater, stamps>>

\* publishDefaultRuntime under the mutex: prune, keep a live previous, ...
PublishLocks ==
  /\ facadeMutex = "free" /\ publishedRuntimes < RuntimeLimit
  /\ facadeMutex' = "publish"
  /\ superseded' = IF facade # Nil /\ ~Stale(facade)
                     THEN Pruned \cup {[facade |-> facade, place |-> publishedRuntimes]}
                     ELSE Pruned
  /\ UNCHANGED <<facade, publishedRuntimes, stoppedRuntimes, sawStopped, updater, stamps>>

\* ... then Store.
PublishStores ==
  /\ facadeMutex = "publish"
  /\ facade' = [stamp |-> 0, runtime |-> publishedRuntimes + 1]
  /\ publishedRuntimes' = publishedRuntimes + 1
  /\ facadeMutex' = "free"
  /\ UNCHANGED <<superseded, stoppedRuntimes, sawStopped, updater, stamps>>

\* loadDefaultFacade looks without the mutex, and takes it for a stopped runtime.
LoadLooks ==
  /\ Stale(facade) /\ sawStopped' = TRUE
  /\ UNCHANGED <<facade, superseded, facadeMutex, publishedRuntimes, stoppedRuntimes,
                 updater, stamps>>

LoadLocks ==
  /\ facadeMutex = "free" /\ sawStopped
  /\ facadeMutex' = "load" /\ sawStopped' = FALSE
  /\ UNCHANGED <<facade, superseded, publishedRuntimes, stoppedRuntimes, updater, stamps>>

\* reconcileDefaultFacadeLocked: the newest live facade, or nil.
Top(stack) == CHOOSE e \in stack : \A d \in stack : d.place <= e.place
Newest(stack) == IF stack = {} THEN Nil ELSE Top(stack).facade

Reconcile ==
  /\ facadeMutex = "load" /\ facadeMutex' = "free"
  /\ IF ~Stale(facade) THEN superseded' = Pruned /\ UNCHANGED facade
     ELSE /\ facade' = Newest(Pruned)
          /\ superseded' = IF Pruned = {} THEN {} ELSE Pruned \ {Top(Pruned)}
  /\ UNCHANGED <<publishedRuntimes, stoppedRuntimes, sawStopped, updater, stamps>>

\* updateDefaultFacade: load, change a copy, compare and swap or start again.
UpdateLoads(u) ==
  /\ updater[u] = <<>>
  /\ updater' = [updater EXCEPT ![u] = <<facade>>]
  /\ UNCHANGED <<facade, superseded, facadeMutex, publishedRuntimes, stoppedRuntimes, sawStopped, stamps>>

UpdateSwaps(u) ==
  /\ updater[u] # <<>> /\ stamps < StampLimit
  /\ updater' = [updater EXCEPT ![u] = <<>>]
  /\ IF updater[u] = <<facade>>
     THEN /\ facade' = [facade EXCEPT !.stamp = stamps + 1]
          /\ stamps' = stamps + 1
     ELSE UNCHANGED <<facade, stamps>>
  /\ UNCHANGED <<superseded, facadeMutex, publishedRuntimes, stoppedRuntimes,
                 sawStopped>>

FacadeNext ==
  \/ LoadLooks \/ LoadLocks \/ Reconcile \/ PublishLocks \/ PublishStores
  \/ \E r \in 1 .. RuntimeLimit : RuntimeStops(r)
  \/ \E u \in Updaters : UpdateLoads(u) \/ UpdateSwaps(u)

LiveFirst(f) == IF Stale(f) THEN Newest(Pruned) ELSE f
LiveRuntimes == (1 .. publishedRuntimes) \ stoppedRuntimes

(* Whoever loads the facade gets the runtime that was published last among
   those alive, in whatever order runtimes stop and setters swap copies in;
   none that lives is forgotten (loadDefaultFacade, publishDefaultRuntime).  *)
NewestLiveIsLoaded ==
  facadeMutex # "publish" /\ LiveRuntimes # {} =>
    /\ LiveFirst(facade).runtime \in LiveRuntimes
    /\ \A r \in LiveRuntimes : r <= LiveFirst(facade).runtime

(* The stack is in the order of publication, below the facade that a publish *)
(* has stored; between its two steps the facade is on top of its own stack. *)
StackInOrder ==
  /\ \A e \in superseded :
       \/ e.place < publishedRuntimes /\ e.facade.runtime < facade.runtime
       \/ /\ facadeMutex = "publish" /\ e.place = publishedRuntimes
          /\ e.facade.runtime = facade.runtime
  /\ \A d, e \in superseded :
       /\ d.place = e.place => d = e
       /\ d.place < e.place => d.facade.runtime < e.facade.runtime
  /\ facadeMutex = "publish" => publishedRuntimes < RuntimeLimit

(* A runtime that lives is the facade's or on the stack. *)
LiveAreKept ==
  \A r \in LiveRuntimes :
    \/ facadeMutex # "publish" /\ r = facade.runtime
    \/ \E e \in superseded : e.facade.runtime = r

FacadeIInv == FacadeTypeOK /\ StackInOrder /\ LiveAreKept /\ NewestLiveIsLoaded
=============================================================================
