---------------------------- MODULE MCComponents ----------------------------
(* Instances for the components that are explored side by side. *)
EXTENDS Components, TLC

(* A module, a plugin whose Build mounts a controller, and a controller    *)
(* whose Build adds the module: registration while building goes on.       *)
BuildModules == {"module", "plugin"}
BuildModuleBeans == [m \in BuildModules |-> IF m = "module" THEN {"bean"} ELSE {}]
BuildRegisters == ("module" :> {}) @@ ("plugin" :> {"controller"})
                  @@ ("controller" :> {"module"})
BuildNeeds == [x \in BuildModules \union {"controller", "bean"} |->
                 IF x = "bean" THEN {} ELSE {"bean"}]

TypeOfBean == ("a1" :> "A") @@ ("a2" :> "A") @@ ("b" :> "B")

Guard == [kind |-> "guard", own |-> <<>>]
WebSocket == [kind |-> "websocket", own |-> <<>>]
Controller == [kind |-> "controller", own |-> <<"interceptor">>]
Nested == [kind |-> "controller", own |-> <<"nested">>]
Pipeline == [kind |-> "pipeline", own |-> <<"own">>]
RouteChains ==
    {<<Pipeline>>, <<Guard>>, <<WebSocket>>, <<Guard, WebSocket>>,
     <<Guard, Pipeline>>, <<Controller, Pipeline>>, <<Controller, Guard>>,
     <<Guard, Controller, Pipeline>>, <<Controller, Nested, Pipeline>>}
Attached == <<"global1", "global2">>
AttachedAuth == <<"auth">>

(* Routes of every rank that overlap, two of them with the same shape. *)
OverlappingRoutes ==
    {<<Static("a"), Static("b")>>, <<Static("a"), Param("x")>>,
     <<Static("a"), Param("y")>>, <<Param("x"), Static("b")>>,
     <<Param("x"), Param("y")>>, <<Static("a"), Rest("x")>>}
Paths == {<<"a", "b">>, <<"a", "c">>, <<"c", "b">>, <<"c", "c">>,
          <<"a", "c", "b">>}
=============================================================================
