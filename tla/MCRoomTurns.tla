----------------------------- MODULE MCRoomTurns -----------------------------
(* One Session, two Roots: the user's r1, which its wake continues, and the r2 *)
(* of a prepared JEV dispatch, whose Pi turn publishes an event of each kind.  *)
EXTENDS RoomTurns, TLC

CONSTANTS u1, w1, j1, n1, x1, r1, r2

MCRootOf == [p \in Dispatches |-> IF p = j1 THEN r2 ELSE r1]
MCMaxEvents == [p \in Prompts |-> IF p = j1 THEN 2 ELSE 1]
=============================================================================
