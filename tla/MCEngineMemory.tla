---------------------------- MODULE MCEngineMemory ----------------------------
(* Two of the four pools; one configuration that validates and one that      *)
(* leaves a pool empty.                                                      *)
EXTENDS EngineMemory

CONSTANTS event, order

MCConfigs == {[p \in {event, order} |-> IF p = event THEN 2 ELSE 1],
              [p \in {event, order} |-> IF p = event THEN 0 ELSE 2]}
=============================================================================
