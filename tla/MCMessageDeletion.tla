-------------------------- MODULE MCMessageDeletion --------------------------
(* A small instance of MessageDeletion: two messages between users 1 and 2, *)
(* one in each direction.                                                    *)
EXTENDS MessageDeletion

MCSender == [m \in Messages |-> m]
MCReceiver == [m \in Messages |-> 3 - m]

\* Both messages have a retention time and are due at once.
MCExpiresAt == [m \in Messages |-> 1]

J(a, m, e) == [actor |-> a, message |-> m, everyone |-> e]
R(a, m, r) == [actor |-> a, message |-> m, read |-> r]

\* Message 1 by its sender for everyone, and by its recipient, who has no right
\* to that; message 2 by its sender for itself, and by the expiry worker.
MCJobs == {J(1, 1, TRUE), J(2, 1, TRUE), J(2, 2, FALSE)}

\* The receiver reports message 1 as delivered and as read; its sender may not.
MCReports == {R(2, 1, FALSE), R(2, 1, TRUE), R(1, 1, TRUE)}
==============================================================================
