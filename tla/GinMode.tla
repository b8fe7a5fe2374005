------------------------------ MODULE GinMode ------------------------------
(***************************************************************************)
(* Who decides gin's process-wide mode: newGinEngine in pkg/bear/bear.go.   *)
(* A strict runtime reserves the mode for as long as it lives; its owner    *)
(* is pruned by a later construction, once its lifecycle has stopped.  The  *)
(* construction of an engine holds ginRuntimeMu, stopping does not.         *)
(***************************************************************************)
EXTENDS Naturals, Sequences

CONSTANTS
  GinModes,    \* modes that configurations ask for
  EngineLimit  \* bound on the engines that are constructed

ASSUME GinModeAssumption == GinModes # {} /\ EngineLimit \in Nat

VARIABLES
  ginMode,      \* gin.Mode()
  reservedMode, \* strictGinRuntimeMode: at most one mode
  modeOwners,   \* strictGinRuntimeOwners
  engines,      \* history: configuration of every runtime constructed, in order
  endedOwners,  \* runtimes whose lifecycle has stopped
  construction  \* the holder of ginRuntimeMu, once it has set the mode, if any

ginVars == <<ginMode, reservedMode, modeOwners, engines, endedOwners, construction>>

Requested == [mode : GinModes, strict : BOOLEAN]

GinModeTypeOK ==
  /\ ginMode \in GinModes /\ reservedMode \subseteq GinModes
  /\ \A m, other \in reservedMode : m = other
  /\ (modeOwners = {} => reservedMode = {})
  /\ modeOwners \subseteq DOMAIN engines /\ endedOwners \subseteq DOMAIN engines
  /\ engines \in Seq(Requested)
  /\ construction \subseteq [request : Requested, previous : GinModes]

GinModeInit ==
  /\ ginMode = CHOOSE m \in GinModes : TRUE
  /\ reservedMode = {} /\ modeOwners = {} /\ engines = <<>>
  /\ endedOwners = {} /\ construction = {}

(* pruneStrictGinRuntimeOwnersLocked. *)
PruneOwners ==
  /\ modeOwners' = modeOwners \ endedOwners
  /\ reservedMode' = IF modeOwners \subseteq endedOwners THEN {} ELSE reservedMode

(* newGinEngine prunes, then refuses another mode than the reserved one ... *)
EngineStarts(request) ==
  /\ construction = {} /\ Len(engines) < EngineLimit
  /\ PruneOwners
  /\ IF reservedMode' \subseteq {request.mode}
     THEN /\ construction' = {[request |-> request, previous |-> ginMode]}
          /\ ginMode' = request.mode
     ELSE UNCHANGED <<construction, ginMode>>
  /\ UNCHANGED <<engines, endedOwners>>

(* ... commits, a strict runtime becoming an owner, ... *)
EngineCommits(c) ==
  /\ engines' = Append(engines, c.request)
  /\ IF c.request.strict
     THEN /\ reservedMode' = {c.request.mode}
          /\ modeOwners' = modeOwners \union {Len(engines) + 1}
     ELSE UNCHANGED <<reservedMode, modeOwners>>
  /\ construction' = {}
  /\ UNCHANGED <<ginMode, endedOwners>>

(* ... or finds the trusted proxies invalid, and restores the mode. *)
EngineFails(c) ==
  /\ ginMode' = c.previous /\ construction' = {}
  /\ UNCHANGED <<reservedMode, modeOwners, engines, endedOwners>>

OwnerEnds(e) ==
  /\ e \in DOMAIN engines \ endedOwners
  /\ endedOwners' = endedOwners \union {e}
  /\ UNCHANGED <<ginMode, reservedMode, modeOwners, engines, construction>>

GinModeNext ==
  \/ \E request \in Requested : EngineStarts(request)
  \/ \E c \in construction : EngineCommits(c) \/ EngineFails(c)
  \/ \E e \in 1 .. EngineLimit : OwnerEnds(e)

StrictEngines == {e \in DOMAIN engines \ endedOwners : engines[e].strict}

(* While a strict runtime lives, gin is in the mode it was constructed for,
   whoever is constructed, refused, fails or stops meanwhile (newGinEngine).  *)
GinModeKept == \A e \in StrictEngines : ginMode = engines[e].mode

\* A strict runtime that lives owns the reservation of its mode, and whoever
\* constructs an engine meanwhile found this mode and would restore it.
ReservationIsOwned ==
  \A e \in StrictEngines :
    /\ e \in modeOwners /\ reservedMode = {engines[e].mode}
    /\ \A c \in construction : c.previous = engines[e].mode /\ c.request.mode = engines[e].mode

\* Nobody but the holder of ginRuntimeMu is under construction, in a mode that no
\* reservation forbids.
ConstructionIsAlone ==
  \A c \in construction :
    construction = {c} /\ ginMode = c.request.mode /\ reservedMode \subseteq {c.request.mode}

GinModeIInv == GinModeTypeOK /\ ReservationIsOwned /\ ConstructionIsAlone /\ GinModeKept
=============================================================================
