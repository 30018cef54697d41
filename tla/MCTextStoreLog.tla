---------------------------- MODULE MCTextStoreLog ----------------------------
(* Small instances of TextStore and of the log it implements.               *)
EXTENDS TextStoreLog

CONSTANTS u1, u2, u3, i1, ta

MCUsers == {u1, u2, u3}
MCFriends == {<<u1, u2>>, <<u2, u1>>, <<u1, u3>>, <<u3, u1>>}
MCBlocks == {<<u2, u1>>}

Send(s, r, i, x) == [sender |-> s, receiver |-> r, id |-> i, text |-> x]

\* The same request at both nodes, its id reused for another receiver (a race for
\* threads and for the message key), and an answer from the peer into the same
\* thread, or first.
MCRequests == {Send(u1, u2, i1, ta), Send(u1, u3, i1, ta), Send(u2, u1, i1, ta)}
==============================================================================
