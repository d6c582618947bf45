--------------------------- MODULE MCRateLimiter ---------------------------
(***************************************************************************)
(* A small instance of RateLimiter for TLC: one domain, since domains      *)
(* share only the registry lock, and three calls that meet at its bucket.  *)
(***************************************************************************)
EXTENDS RateLimiter, TLC

CallSymmetry == Permutations(Calls)
=============================================================================
