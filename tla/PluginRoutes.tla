---------------------------- MODULE PluginRoutes ----------------------------
(***************************************************************************)
(* The dispatcher of plugin routes (pkg/bear/plugin.go), for one method.    *)
(*                                                                         *)
(* A route is a sequence of segments, each static, a parameter or, at the   *)
(* end, the rest of the path.  Routes are registered, registered again when *)
(* a plugin is reloaded, and unregistered, and the list that dispatching    *)
(* goes through keeps the place, and a second one, of what was removed.     *)
(***************************************************************************)
EXTENDS Naturals, Sequences, FiniteSets

CONSTANTS
  PluginRouteSet, \* the routes that plugins register
  RequestPaths,   \* paths of requests, as sequences of static names
  Versions,       \* handlers of successive loads
  OrderLimit      \* bound on the places the list may have

VARIABLES
  handlerOf,  \* routes: the handler of each registered route
  shapes,     \* shapes: which route owns a shape
  pluginOrder \* order: paths in order of registration

pluginVars == <<handlerOf, shapes, pluginOrder>>

Segment == [kind : {"static", "param", "rest"}, name : STRING]

(* splitPluginPath: a path has at least one segment, of "/" the empty one.  *)
ASSUME PluginRouteAssumption ==
  /\ PluginRouteSet \subseteq Seq(Segment) \ {<<>>}
  /\ RequestPaths \subseteq Seq(STRING) \ {<<>>}

Static(name) == [kind |-> "static", name |-> name]
Param(name) == [kind |-> "param", name |-> name]
Rest(name) == [kind |-> "rest", name |-> name]

(* pluginRouteShape: the route without the names of its parameters. *)
Shape(route) == [i \in DOMAIN route |->
                   IF route[i].kind = "static" THEN route[i] ELSE [route[i] EXCEPT !.name = ""]]
IsDynamic(route) == \E i \in DOMAIN route : route[i].kind # "static"

PluginInit ==
  /\ handlerOf = [r \in {} |-> 0] /\ shapes = [s \in {} |-> <<>>] /\ pluginOrder = <<>>

(* RegisterE: another route of the same shape is a conflict. *)
RegisterRoute(r, v) ==
  /\ Shape(r) \in DOMAIN shapes => shapes[Shape(r)] = r
  /\ pluginOrder' = IF r \in DOMAIN handlerOf THEN pluginOrder ELSE Append(pluginOrder, r)
  /\ handlerOf' = [q \in DOMAIN handlerOf \cup {r} |-> IF q = r THEN v ELSE handlerOf[q]]
  /\ shapes' = [s \in DOMAIN shapes \cup {Shape(r)} |-> IF s = Shape(r) THEN r ELSE shapes[s]]

UnregisterRoute(r) ==
  /\ r \in DOMAIN handlerOf
  /\ handlerOf' = [q \in DOMAIN handlerOf \ {r} |-> handlerOf[q]]
  /\ shapes' = [s \in DOMAIN shapes \ {Shape(r)} |-> shapes[s]]
  /\ UNCHANGED pluginOrder

PluginNext ==
  \/ \E r \in PluginRouteSet, v \in Versions :
       Len(pluginOrder) < OrderLimit /\ RegisterRoute(r, v)
  \/ \E r \in PluginRouteSet : UnregisterRoute(r)

-----------------------------------------------------------------------------
(* Dispatching *)

(* pluginRoute.match: a parameter takes one segment that is not empty, the    *)
(* rest of the path at least one.                                          *)
Matches(route, path) ==
  /\ \A i \in DOMAIN route :
       CASE route[i].kind = "rest" -> i = Len(route) /\ i <= Len(path)
         [] route[i].kind = "param" -> i <= Len(path) /\ path[i] # ""
         [] OTHER -> i <= Len(path) /\ path[i] = route[i].name
  /\ Len(path) = Len(route) \/ route[Len(route)].kind = "rest"

Rank(segment) == CASE segment.kind = "rest" -> 0 [] segment.kind = "param" -> 1 [] OTHER -> 2

MoreSpecificByLength(r, q) == Len(r) > Len(q)

(* pluginRouteMoreSpecific: the first segment that differs decides. *)
MoreSpecific(r, q) ==
  LET differ == {i \in DOMAIN r \cap DOMAIN q : Rank(r[i]) # Rank(q[i])}
      first == CHOOSE i \in differ : \A j \in differ : i <= j
  IN IF differ # {} THEN Rank(r[first]) > Rank(q[first]) ELSE Len(r) > Len(q)

NoRoute == <<>>
PathAsRoute(path) == [i \in DOMAIN path |-> Static(path[i])]

(* match: an exact static route, else the first of the most specific among   *)
(* the dynamic ones of the list that are registered.                       *)
Candidate(r, path) == r \in DOMAIN handlerOf /\ IsDynamic(r) /\ Matches(r, path)
Better(r, best, path) ==
  IF Candidate(r, path) /\ (best = NoRoute \/ MoreSpecific(r, best)) THEN r ELSE best

Scan(path) ==
  LET best[n \in 0..Len(pluginOrder)] ==
        IF n = 0 THEN NoRoute ELSE Better(pluginOrder[n], best[n - 1], path)
  IN best

Dispatched(path) ==
  IF PathAsRoute(path) \in DOMAIN handlerOf THEN PathAsRoute(path)
  ELSE Scan(path)[Len(pluginOrder)]

-----------------------------------------------------------------------------
(* What a request reaches depends on which routes are registered and on      *)
(* nothing else, neither their order nor earlier loads: a route that        *)
(* matches, static segments before parameters before the rest of a path,    *)
(* from left to right, unique because one route owns each shape.           *)
Outranks(r, q) ==
  \E i \in DOMAIN r \cap DOMAIN q :
    Rank(r[i]) > Rank(q[i]) /\ \A j \in 1..i - 1 : Rank(r[j]) = Rank(q[j])

DispatchByRankOnly ==
  \A path \in RequestPaths :
    LET matching == {r \in DOMAIN handlerOf : Matches(r, path)}
    IN IF matching = {} THEN Dispatched(path) = NoRoute
       ELSE /\ Dispatched(path) \in matching
            /\ \A q \in matching \ {Dispatched(path)} : Outranks(Dispatched(path), q)

-----------------------------------------------------------------------------
PluginTypeOK ==
  /\ DOMAIN handlerOf \subseteq PluginRouteSet
  /\ handlerOf \in [DOMAIN handlerOf -> Versions]
  /\ shapes \in [DOMAIN shapes -> DOMAIN handlerOf]
  /\ pluginOrder \in Seq(PluginRouteSet)

(* The scan goes through every registered route, and each owns its shape.   *)
RoutesAreListed == \A r \in DOMAIN handlerOf : \E n \in DOMAIN pluginOrder : pluginOrder[n] = r
ShapesAreOwned ==
  /\ \A r \in DOMAIN handlerOf : Shape(r) \in DOMAIN shapes /\ shapes[Shape(r)] = r
  /\ \A s \in DOMAIN shapes : Shape(shapes[s]) = s

(* The invariant by which dispatching depends on the registered routes only. *)
PluginIInv == PluginTypeOK /\ RoutesAreListed /\ ShapesAreOwned
=============================================================================
