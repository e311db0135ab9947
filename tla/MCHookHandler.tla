--------------------------- MODULE MCHookHandler ---------------------------
(***************************************************************************)
(* Instances of HookHandler for TLC.  The times are scaled down to the     *)
(* least values at which each threshold is passed on both sides: every one *)
(* is a second but for the cooldown after any notification, which is two,  *)
(* so that a question can be turned away in one second and let through in  *)
(* the next.  Clean-up and the duplicate window then end at the same time, *)
(* as they do in the code, where the clean-up age is the shorter one.      *)
(***************************************************************************)
EXTENDS HookHandler, TLC

Symmetry == Permutations(Proc) \cup Permutations(Msg)
=============================================================================
