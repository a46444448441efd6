--------------------------- MODULE MCAssistantTurn ---------------------------
(* AssistantTurn on small instances. *)
EXTENDS AssistantTurn, TLC

CONSTANTS x, y, x1, x2, y1

MCModels == (x :> {x1, x2}) @@ (y :> {y1})
MCDefaultModel == (x :> x1) @@ (y :> y1)

(* A reply costs something in the behaviours about exports, where the model  *)
(* may switch namespace between any two of its replies.                      *)
MCUsage == [m \in Mix |-> IF m = "exports" THEN {0, 1} ELSE {0}]
=============================================================================
