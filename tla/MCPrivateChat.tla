---------------------------- MODULE MCPrivateChat ----------------------------
(***************************************************************************)
(* Three users whose devices are registered and one who registers, and     *)
(* requests chosen so that two gateways meet on the same rows.             *)
(***************************************************************************)
EXTENDS PrivateChat, TLC

CONSTANTS a, b, c, d, ia, ib, ic, ix, w1, w2, x, y

MCDevices == (a :> ia) @@ (b :> ib) @@ (c :> ic) @@ (d :> NoIdentity)
MCFriends == {<<a, b>>, <<b, a>>, <<c, b>>, <<b, c>>, <<a, c>>, <<c, a>>}
MCBlocks == {<<c, a>>}

R(name, u, i, p, pi, k, body) ==
  [op |-> name, uid |-> u, identity |-> i, peer |-> p, peer_identity |-> pi, key |-> k, body |-> body]

\* b has one prekey and may publish two more, of which there is room for one;
\* a claims twice and c once.
MCPrekeys == {Prekey(b, 1, x)}
KeyRequests ==
  {R("publish", b, ib, NoUser, NoIdentity, 2, x), R("publish", b, ib, NoUser, NoIdentity, 2, y),
   R("publish", b, ib, NoUser, NoIdentity, 3, x),
   R("claim", a, ia, b, NoIdentity, x, x), R("claim", a, ia, b, NoIdentity, y, x),
   R("claim", c, ic, b, NoIdentity, x, x)}

\* a and b send to c, which has room for one; c polls and acknowledges, and b
\* acknowledges what is not b's.
MailRequests ==
  {R("send", a, ia, c, ic, x, x), R("send", a, ia, c, ic, x, y),
   R("send", b, ib, c, ic, x, x), R("send", b, ib, c, ix, y, x),
   R("poll", c, ic, NoUser, NoIdentity, x, x),
   R("ack", c, ic, NoUser, NoIdentity, 1, x), R("ack", b, ib, NoUser, NoIdentity, 1, x)}

\* d's first registration with two identities, and a lookup that crosses a's.
DeviceRequests ==
  {R("register", d, ix, NoUser, NoIdentity, x, x), R("register", d, ia, NoUser, NoIdentity, x, x),
   R("identity", c, ic, a, NoIdentity, x, x)}

MCRequests == KeyRequests \cup MailRequests \cup DeviceRequests

\* The gateways are interchangeable.
MCSymmetry == Permutations(Workers)
==============================================================================
