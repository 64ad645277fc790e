---------------------------- MODULE MCRateLimiter ----------------------------
(***************************************************************************)
(* Instances of RateLimiter for TLC.                                       *)
(***************************************************************************)
EXTENDS RateLimiter, TLC

CONSTANTS t1, t2, t3, o1, o2, smtp

MCSymmetry == Permutations({t1, t2, t3}) \cup Permutations({o1, o2})
=============================================================================
