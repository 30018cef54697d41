------------------------------ MODULE MCDelivery ------------------------------
(* A small instance of Delivery: the user logs in at n1, connects there once *)
(* more with the same token, and logs in at n2.                              *)
EXTENDS Delivery, TLC

CONSTANTS s1, s2, s3, n1, n2

MCHome == s1 :> n1 @@ s2 :> n1 @@ s3 :> n2
MCToken == s1 :> 1 @@ s2 :> 1 @@ s3 :> 2

\* The two connections at the first node have the same token.
MCSymmetry == Permutations({s1, s2})

\* What the state is told apart by.  Once a connection is closed, what it had been
\* sent matters to nobody, and the age of a notice does when it is pushed: what
\* Informed asks of the open connections is kept, and whether FreshOnly is broken.
MCView ==
  <<redis, users, tables, threads, faults, overtaken, closed,
    [s \in Sessions |-> IF closed[s] THEN <<>> ELSE <<listed[s], Told(s) \cap Applies>>],
    [m \in Notices |-> IF \E t \in Threads : job[t] = m THEN storedAt[m] ELSE 0],
    FreshOnly>>
==============================================================================
