--------------------------- MODULE MCRateLimiter ---------------------------
(***************************************************************************)
(* Five calls from two addresses: enough for one address to use up a burst *)
(* of two, wait until its bucket is swept by the other's call, and come    *)
(* back, with calls overtaking one another.                                *)
(***************************************************************************)
EXTENDS RateLimiter, TLC

Symmetry == Permutations(Calls) \cup Permutations(Clients)
=============================================================================
