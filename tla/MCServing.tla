------------------------------ MODULE MCServing ------------------------------
(* Serving for TLC: two requests, one connection, two keys of Apple. *)
EXTENDS Serving

CONSTANTS r1, r2, r3, k1, k2
=============================================================================
