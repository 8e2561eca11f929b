----------------------------- MODULE MCResolver -----------------------------
(***************************************************************************)
(* Four calls of four domains.  The three on the allowlist compete for a   *)
(* cache of two entries, so it can be full, and while it is not a slow     *)
(* fetch can overwrite what a quicker one of the same domain has stored.   *)
(***************************************************************************)
EXTENDS Resolver, TLC

Symmetry == Permutations(Calls) \cup Permutations(Allowlist)
=============================================================================
