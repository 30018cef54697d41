---------------------------- MODULE MCFriendApply ----------------------------
(* Small instances of FriendApply.                                          *)
EXTENDS FriendApply, TLC

CONSTANTS u1, u2, u3

Ask(a, b) == [kind |-> "apply", actor |-> a, pair |-> <<a, b>>]
Answer(a, p, yes) == [kind |-> "resolve", actor |-> a, pair |-> p, agree |-> yes]

\* Two users who apply to each other and answer each other, an applicant who
\* tries to answer, and a third user whom nobody may ask.
MCOps == {Ask(u1, u2), Ask(u2, u1), Ask(u1, u3),
          Answer(u2, <<u1, u2>>, TRUE), Answer(u2, <<u1, u2>>, FALSE),
          Answer(u1, <<u2, u1>>, TRUE), Answer(u1, <<u1, u2>>, TRUE)}
MCRefused == {<<u1, u3>>}

MCSymmetry == Permutations(Workers)
==============================================================================
