-------------------------- MODULE MCSessionLifecycle --------------------------
(* A small instance of SessionLifecycle.                                      *)
EXTENDS SessionLifecycle, TLC

CONSTANTS s1, s2, s3

Interchangeable == Permutations(Sessions)
==============================================================================
