---------------------------- MODULE MCEngineClient ----------------------------
(* Instances of EngineClient for TLC: two requests of one scope, as two    *)
(* runs of the analysis panel or a panel and the comparison make them, and *)
(* one of another scope whose calculation throws.                          *)
EXTENDS EngineClient

CONSTANTS x, y, d

MCScopeOf == [id \in Ids |-> IF id = d THEN "dca" ELSE "analyze"]

===============================================================================
