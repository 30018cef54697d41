----------------------------- MODULE MCConnection -----------------------------
(* A small instance of Connection: three threads send on one connection.    *)
EXTENDS Connection, TLC

CONSTANTS t1, t2, t3

Interchangeable == Permutations(Threads)
===============================================================================
