--------------------------- MODULE MCMeteringBuffer ---------------------------
(* Small instances of MeteringBuffer. *)
EXTENDS MeteringBuffer, TLC

CONSTANTS a1, a2, b1

AiAndTool == [r \in Records |-> IF r = b1 THEN "tool" ELSE "ai"]
EitherWay == [r \in Records |-> {"event", "task"}]
Tasks == [r \in Records |-> {"task"}]
===============================================================================
