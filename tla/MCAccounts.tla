------------------------------ MODULE MCAccounts ------------------------------
(* Two gateways, two people, of whom one may have an account, and two uids.  *)
EXTENDS Accounts, TLC

CONSTANTS e1, e2, up, n1, n2, p, q, c1, c2

\* The gateways' threads are interchangeable.
Symmetry == Permutations(Workers)

\* up is e1 as somebody types it with a capital letter.
MCLower == [e \in Emails |-> IF e = up THEN e1 ELSE e]

MCRegistered == {[uid |-> FirstUid + 1, name |-> n1, email |-> e1, pwd |-> p]}

R(route, email, name, password, c) ==
  [route |-> route, email |-> email, name |-> name, password |-> password, code |-> c]

\* Registrations that compete for a name, for an address and for the last uid,
\* resets and logins.
MCRequests ==
  {R("register", e1, n1, p, c1), R("register", up, n2, p, c1),
   R("register", e2, n2, p, c1),
   R("reset", e1, n1, q, c1),
   R("login", e1, n1, p, c1)}
==============================================================================
