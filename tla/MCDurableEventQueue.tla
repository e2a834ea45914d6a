------------------------ MODULE MCDurableEventQueue ------------------------
(* Two hosts share a graph with two events.                                *)
EXTENDS DurableEventQueue, TLC

CONSTANTS e1, e2, g1, w1, w2

MCOneGraph == (e1 :> g1) @@ (e2 :> g1)
=============================================================================
