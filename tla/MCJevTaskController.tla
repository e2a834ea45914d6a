------------------------ MODULE MCJevTaskController ------------------------
(* One event that two hosts handle at once, in a Room that may change, *)
(* change back and close.                                              *)
EXTENDS JevTaskController, TLC

CONSTANTS e1, w1, w2, v1, v2, closed, o1
============================================================================
