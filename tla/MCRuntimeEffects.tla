------------------------- MODULE MCRuntimeEffects -------------------------
(* Two attempts on one Session, a reclaim of the first, two workers. *)
EXTENDS RuntimeEffects, TLC

CONSTANTS d1, d2, c1, s1, w1, w2

MCSessionOf == (d1 :> s1) @@ (d2 :> s1)
MCTargetOf == (c1 :> d1)
=============================================================================
