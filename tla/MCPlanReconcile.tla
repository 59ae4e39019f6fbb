------------------------- MODULE MCPlanReconcile -------------------------
(* Instance of PlanReconcile for TLC: two digs that share a tile, and a     *)
(* node without predictions.                                                *)
EXTENDS PlanReconcile, TLC

CONSTANTS dig1, dig2, other, t1, t2

MCNodes == {dig1, dig2, other}
MCTiles == {t1, t2}
MCDigs == {dig1, dig2}
MCRegion == dig1 :> {t1, t2} @@ dig2 :> {t2} @@ other :> {}
=============================================================================
