-------------------------- MODULE MCQueueRotation --------------------------
(* One host serves two graphs, one of which has more events than the other,  *)
(* with every operation of the class, renew and wake included.              *)
EXTENDS QueueRotation, TLC

CONSTANTS e1, e2, e3, g1, g2, w1

MCTwoGraphs == (e1 :> g1) @@ (e2 :> g1) @@ (e3 :> g2)
=============================================================================
