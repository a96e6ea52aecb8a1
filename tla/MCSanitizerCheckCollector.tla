--------------------- MODULE MCSanitizerCheckCollector ---------------------
(* Three ASan check types, one of UBSan, and a runtime function that is no  *)
(* check.                                                                   *)
EXTENDS SanitizerCheckCollector

MCStems == 1..5
MCKind == [t \in MCStems |-> CASE t <= 3 -> "ASan" [] t = 4 -> "UBSan" [] t = 5 -> "Unknown"]
MCCosts == {-1, 2}
=============================================================================
