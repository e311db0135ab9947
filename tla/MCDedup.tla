------------------------------ MODULE MCDedup ------------------------------
(***************************************************************************)
(* Instances of Dedup for TLC.  The TTL is scaled down, the order of the   *)
(* thresholds (TTL < MaxAge) is the code's.                                *)
(***************************************************************************)
EXTENDS Dedup, TLC

Symmetry == Permutations(Call)

=============================================================================
