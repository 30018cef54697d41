------------------------------- MODULE MCRollout -------------------------------
(* A small instance of Rollout.                                             *)
EXTENDS Rollout, TLC

MCOrder == <<"verify", "status", "gate", "chat1", "chat2">>

\* The second release replaces all images, the third one only the server's.
MCImage == [r0 |-> [s \in Services |-> "a"],
            r1 |-> [s \in Services |-> "b"],
            r2 |-> [s \in Services |-> IF s = "verify" THEN "b" ELSE "c"]]
================================================================================
