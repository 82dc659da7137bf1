---------------------------- MODULE MCRateLimiter ----------------------------
(* RateLimiter for TLC: two addresses. *)
EXTENDS RateLimiter

CONSTANTS a1, a2
=============================================================================
