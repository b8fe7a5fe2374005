-------------------------- MODULE OrderedComponents --------------------------
(***************************************************************************)
(* What an application lifecycle promises its components, whatever callers *)
(* and deadlines do: they are initialised one by one in registration order *)
(* and shut down one by one in the reverse order, each while it is up.     *)
(* After the first shutdown nothing is initialised before everything is    *)
(* down.  A shutdown may end by giving up, and is then due again.          *)
(***************************************************************************)
EXTENDS Integers

CONSTANTS
  N,            \* components 1..N in registration order
  Prestarted,   \* those that run before the lifecycle starts
  Retired       \* those that will not be initialised

Comp == 1 .. N

VARIABLES
  comp,         \* "off", "on", "closing", "closed"
  opening       \* components may be initialised

vars == <<comp, opening>>

Down(c) == comp[c] \in {"off", "closed"}

Init ==
  /\ comp = [c \in Comp |-> IF c \in Prestarted THEN "on" ELSE "off"]
  /\ opening = TRUE

\* All components registered before c are up and those after it are not, but for
\* the prestarted ones.
Open(c) ==
  /\ opening
  /\ Down(c) \/ c \in Prestarted
  /\ \A d \in Comp \ Prestarted : IF d < c THEN comp[d] = "on" ELSE Down(d)
  /\ \A d \in Comp : comp[d] # "closing"
  /\ comp' = [comp EXCEPT ![c] = "on"]
  /\ UNCHANGED opening

\* No more initialisation until Reopen.
Seal ==
  /\ opening
  /\ opening' = FALSE
  /\ UNCHANGED comp

\* The next component to shut down is the last that is not down.
Last(c) ==
  /\ ~ opening
  /\ \A d \in Comp : d > c => Down(d)

Close(c) ==
  /\ Last(c) /\ comp[c] = "on"
  /\ \E result \in {"closing", "closed"} : comp' = [comp EXCEPT ![c] = result]
  /\ UNCHANGED opening

Closed(c) ==
  /\ Last(c) /\ comp[c] = "closing"
  /\ \E result \in {"closed", "on"} : comp' = [comp EXCEPT ![c] = result]
  /\ UNCHANGED opening

Reopen ==
  /\ \A c \in Comp : Down(c)
  /\ ~ opening
  /\ opening' = TRUE
  /\ UNCHANGED comp

Next ==
  \/ \E c \in Comp : Open(c) \/ Close(c) \/ Closed(c)
  \/ Seal \/ Reopen

Spec == Init /\ [][Next]_vars

=============================================================================
