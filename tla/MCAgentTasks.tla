---------------------------- MODULE MCAgentTasks ----------------------------
(* Instances of AgentTasks for TLC. *)
EXTENDS AgentTasks

CONSTANTS w1, w2

\* One worker reserves a token before a write, the other only records its intent.
OneReserves == [w \in {w1, w2} |-> IF w = w1 THEN 1 ELSE 0]
NoReserve == [w \in {w1} |-> 0]
W1Reserves == [w \in {w1} |-> 1]
=============================================================================
