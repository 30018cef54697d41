------------------------------ MODULE MessageLog ------------------------------
(***************************************************************************)
(* What the chat database promises its clients, without transactions:      *)
(* every pair of users has one log; a message is appended to it at most    *)
(* once per client id; an acknowledgement names a position of the log that *)
(* holds the acknowledged request's message, now and for ever.             *)
(***************************************************************************)
EXTENDS Sequences

CONSTANTS Users, Requests

VARIABLES log, acked

Pairs == {{a, b} : a, b \in Users}
Pair(r) == {r.sender, r.receiver}
SameKey(r, s) == r.sender = s.sender /\ r.id = s.id

Init == /\ log = [p \in Pairs |-> <<>>]
        /\ acked = {}

Accept(r) ==
  /\ \A p \in Pairs : \A i \in DOMAIN log[p] : ~SameKey(log[p][i], r)
  /\ log' = [log EXCEPT ![Pair(r)] = Append(@, r)]
  /\ UNCHANGED acked

\* r may be a repetition with the same id and receiver.
Acknowledge(r, i) ==
  /\ i \in DOMAIN log[Pair(r)]
  /\ SameKey(log[Pair(r)][i], r)
  /\ acked' = acked \cup {<<r, i>>}
  /\ UNCHANGED log

Next == \E r \in Requests :
          \/ Accept(r)
          \/ \E i \in DOMAIN log[Pair(r)] : Acknowledge(r, i)

Spec == Init /\ [][Next]_<<log, acked>>
==============================================================================
