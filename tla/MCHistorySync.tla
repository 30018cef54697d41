---------------------------- MODULE MCHistorySync ----------------------------
(* A small instance of HistorySync.                                         *)
EXTENDS HistorySync, TLC

CONSTANTS u1, u2, u3, i1, i2, ta

MCUsers == {u1, u2, u3}
MCFriends == {<<u1, u2>>, <<u2, u1>>, <<u1, u3>>, <<u3, u1>>}

Send(s, r, i) == [sender |-> s, receiver |-> r, id |-> i, text |-> ta]

\* Three messages of two senders for one thread, so that two transactions meet
\* in it once it exists, and a second conversation of the reader.
MCRequests == {Send(u1, u2, i1), Send(u1, u2, i2), Send(u2, u1, i1),
               Send(u3, u1, i1)}

\* The nodes are interchangeable.
MCSymmetry == Permutations(Workers)
==============================================================================
