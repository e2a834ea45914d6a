------------------------- MODULE MCCommandReceipts -------------------------
(* A message sent twice and once with another body under the same id, and  *)
(* two requests that retry it under ids of their own.                      *)
EXTENDS CommandReceipts, TLC

CONSTANTS m1, m2, m3, b1, b2, r1, r2, r3, r4, r5

MCMessageOf == (r1 :> m1) @@ (r2 :> m1) @@ (r3 :> m2) @@ (r4 :> m3) @@ (r5 :> m1)
MCBodyOf == [r \in Requests |-> IF r = r5 THEN b2 ELSE b1]
MCRetryOf == (r1 :> None) @@ (r2 :> None) @@ (r3 :> m1) @@ (r4 :> m1) @@ (r5 :> None)
=============================================================================
