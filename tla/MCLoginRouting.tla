---------------------------- MODULE MCLoginRouting ----------------------------
(***************************************************************************)
(* Node n1 with a process and its replacement, and a second node.          *)
(***************************************************************************)
EXTENDS LoginRouting, TLC

CONSTANTS p1, p2, p3, n1, n2

OneName == {n1}
Replaced == (p1 :> n1) @@ (p2 :> n1)
TwoNames == {n1, n2}
WithSecond == Replaced @@ (p3 :> n2)
==============================================================================
