---------------------------- MODULE MCPromptFence ----------------------------
(***************************************************************************)
(* Model values for PromptFence: two prompts of one Session, two Stops and a   *)
(* queued message.                                                           *)
(***************************************************************************)
EXTENDS PromptFence

CONSTANTS p1, p2, s1, s2, q1

Symmetry == Permutations(Prompts)
=============================================================================
