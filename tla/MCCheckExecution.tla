-------------------------- MODULE MCCheckExecution --------------------------
(* A function of three blocks and one of a single block, three checks.       *)
EXTENDS CheckExecution

MCBlocks == 1..4
MCFn == [b \in MCBlocks |-> IF b <= 3 THEN "f" ELSE "g"]
MCEntry == [f \in {"f", "g"} |-> IF f = "f" THEN 1 ELSE 4]
=============================================================================
