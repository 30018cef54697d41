------------------------------- MODULE Delivery -------------------------------
(***************************************************************************)
(* How a user who may be connected to any node is told of what others have *)
(* stored for it: text messages (DealChatTextMsg, NotifyTextChatMsg) and   *)
(* friend applications (NotifyFriendApplication, NotifyAddFriend; the      *)
(* answers to applications take the same way), beside the logins of that   *)
(* user.  A thread is a node's logic worker or a gRPC handler.             *)
(*                                                                         *)
(* What a store commits is one step here (TextStore, FriendApply), a       *)
(* packet sent on an open session is posted to it (Connection), and        *)
(* ClearSession, some time after Close, is one step (SessionLifecycle).    *)
(***************************************************************************)
EXTENDS Integers, FiniteSets

CONSTANTS
  Nodes, Rpcs,       \* logic workers, one per node; gRPC handlers
  Sessions,          \* connections of the user
  Home, Token,       \* node and token of each of them
  Texts,             \* messages to the user
  Applies, Pending0, \* ids of applications to the user; those it has at the start
  None,
  MaxList,           \* applications in the reply to a login (200 in the code)
  MaxToken,
  MaxFaults          \* bound: failures, and blocks by the user

Threads == Nodes \cup Rpcs
Notices == Texts \cup Applies

\* A token belongs to the node the gateway chose at its login.
ASSUME DeliveryAssumption ==
  /\ Nodes \cap Rpcs = {} /\ Texts \cap Applies = {} /\ Notices \cap Sessions = {}
  /\ None \notin Nodes \cup Sessions \cup Notices
  /\ Home \in [Sessions -> Nodes] /\ Token \in [Sessions -> 1 .. MaxToken]
  /\ \A s, r \in Sessions : Token[s] = Token[r] => Home[s] = Home[r]
  /\ Applies \subseteq Nat /\ Pending0 \subseteq Applies
  /\ MaxList \in Nat \ {0} /\ MaxToken \in Nat \ {0} /\ MaxFaults \in Nat

VARIABLES
  token, route,        \* Redis: the user's current token, and uip_<uid>
  closed,              \* per session: _b_close
  listed,              \* per session: the applications in the reply to its login
  pushed,              \* <<notice, session>>: packets posted by a push
  digest, uid_map,     \* a session's digest, 0 before; UserMgr of every node
  stored, answered,    \* committed notices; applications the user has answered
  blocked,             \* the user refuses their sender
  pc, job, at, found,  \* per thread: control point, subject, node, session
  faults,
  storedAt,            \* token at a notice's commit
  overtaken            \* a login set the route although its token was replaced

redis == <<token, route>>
conns == <<closed, listed, pushed>>
users == <<digest, uid_map>>
tables == <<stored, answered, blocked>>
threads == <<pc, job, at, found>>
ghosts == <<storedAt, overtaken>>
vars == <<redis, conns, users, tables, threads, faults, ghosts>>

PC == {"idle", "route", "rpc", "wait", "allow", "find", "check", "stored", "push",
       "identify", "install", "replace", "list"}

Init ==
  /\ token = 1 /\ route = None
  /\ closed = [s \in Sessions |-> FALSE]
  /\ listed = [s \in Sessions |-> {}] /\ pushed = {}
  /\ digest = [s \in Sessions |-> 0] /\ uid_map = [n \in Nodes |-> None]
  /\ stored = Pending0 /\ answered = {} /\ blocked = FALSE
  /\ pc = [t \in Threads |-> "idle"] /\ job = [t \in Threads |-> None]
  /\ at = [t \in Threads |-> None]
  /\ found = [t \in Threads |-> None]
  /\ faults = 0
  /\ storedAt = [m \in Notices |-> 0] /\ overtaken = FALSE

Fault == faults < MaxFaults /\ faults' = faults + 1

Close(s) == closed' = [closed EXCEPT ![s] = TRUE]

Goto(t, label) == pc' = [pc EXCEPT ![t] = label] /\ UNCHANGED <<job, at, found>>
\* The thread returns.
Done(t) ==
  /\ pc' = [pc EXCEPT ![t] = "idle"] /\ job' = [job EXCEPT ![t] = None]
  /\ found' = [found EXCEPT ![t] = None]
  /\ at' = [at EXCEPT ![t] = None]
At(t, label) == pc[t] = label
Local(t) == t \in Nodes
Text(t) == job[t] \in Texts

(***************************************************************************)
(* The sender's node.                                                      *)
(***************************************************************************)
\* The commit comes first and is answered to the sender, whatever follows.
Store(n, m) ==
  /\ At(n, "idle") /\ m \notin stored /\ ~blocked
  /\ stored' = stored \cup {m} /\ storedAt' = [storedAt EXCEPT ![m] = token]
  /\ pc' = [pc EXCEPT ![n] = "route"] /\ job' = [job EXCEPT ![n] = m]
  /\ UNCHANGED <<conns, redis, users, answered, blocked, at, found, faults, overtaken>>

\* GET of the route: none, or an error, means offline; one's own node is looked at
\* directly.
ReadRoute(n) ==
  /\ At(n, "route")
  /\ \/ route = None /\ Done(n) /\ UNCHANGED faults
     \/ /\ route # None
        /\ at' = [at EXCEPT ![n] = route]
        /\ pc' = [pc EXCEPT ![n] = IF route = n THEN "find" ELSE "rpc"]
        /\ UNCHANGED <<job, found, faults>>
     \/ Fault /\ Done(n)
  /\ UNCHANGED <<conns, redis, users, tables, ghosts>>

\* ChatGrpcClient: the call starts a handler at the other node, or is lost.
Call(n, g) ==
  /\ At(n, "rpc") /\ pc[g] = "idle"
  /\ \/ /\ pc' = [pc EXCEPT ![n] = "wait", ![g] = IF Text(n) THEN "allow" ELSE "find"]
        /\ job' = [job EXCEPT ![g] = job[n]] /\ at' = [at EXCEPT ![g] = at[n]]
        /\ UNCHANGED <<found, faults>>
     \/ Fault /\ Done(n)
  /\ UNCHANGED <<conns, redis, users, tables, ghosts>>

\* The answer, or the deadline of three seconds with the handler still running;
\* nothing depends on it.
CallReturns(n) ==
  /\ At(n, "wait") /\ Done(n)
  /\ UNCHANGED <<conns, redis, users, tables, faults, ghosts>>

(***************************************************************************)
(* The node of the user: the sender's worker itself, or a gRPC handler.    *)
(***************************************************************************)
\* PrivacyAllows (and FriendExists for a text), on the gRPC way only; an error
\* counts as no.
Allow(g) ==
  /\ At(g, "allow")
  /\ \/ blocked /\ Done(g) /\ UNCHANGED faults
     \/ ~blocked /\ Goto(g, IF Text(g) THEN "find" ELSE "push") /\ UNCHANGED faults
     \/ Fault /\ Done(g)
  /\ UNCHANGED <<conns, redis, users, tables, ghosts>>

\* UserMgr::GetSession: the map, under its lock ...
Find(t) ==
  /\ At(t, "find")
  /\ \/ uid_map[at[t]] = None /\ Done(t)
     \/ /\ uid_map[at[t]] # None
        /\ found' = [found EXCEPT ![t] = uid_map[at[t]]]
        /\ pc' = [pc EXCEPT ![t] = "check"] /\ UNCHANGED <<job, at>>
  /\ UNCHANGED <<conns, redis, users, tables, faults, ghosts>>

AfterCheck(t) == IF Local(t) THEN "push" ELSE IF Text(t) THEN "stored" ELSE "allow"

\* Mutant: the session found is used whatever its token.
CheckNothing(t) ==
  /\ At(t, "check")
  /\ Goto(t, AfterCheck(t))
  /\ UNCHANGED <<conns, redis, users, tables, faults, ghosts>>

\* ... then, without it, the token: a session with another one is closed, and so
\* is one whose token cannot be read.
Check(t) ==
  /\ At(t, "check")
  /\ \/ digest[found[t]] = token /\ Goto(t, AfterCheck(t)) /\ UNCHANGED <<closed, faults>>
     \/ digest[found[t]] # token /\ Done(t) /\ Close(found[t]) /\ UNCHANGED faults
     \/ Fault /\ Done(t) /\ Close(found[t])
  /\ UNCHANGED <<listed, pushed, redis, users, tables, ghosts>>

\* StoredText: the row is there; its text may have been deleted meanwhile.
Stored(g) ==
  /\ At(g, "stored")
  /\ Goto(g, "push") \/ Done(g)
  /\ UNCHANGED <<conns, redis, users, tables, faults, ghosts>>

\* Send: nothing on a closed session; that it may close a session itself (see
\* Connection) is a Disconnect here.
Push(t) ==
  /\ At(t, "push")
  /\ pushed' = IF closed[found[t]] THEN pushed ELSE pushed \cup {<<job[t], found[t]>>}
  /\ Done(t)
  /\ UNCHANGED <<closed, listed, redis, users, tables, faults, ghosts>>

(***************************************************************************)
(* LoginHandler of the user's connection.                                  *)
(***************************************************************************)
\* The token is compared; a wrong one is only answered.
Login(s) ==
  LET n == Home[s] IN
  /\ At(n, "idle") /\ digest[s] = 0 /\ ~closed[s]
  /\ Token[s] = token
  /\ pc' = [pc EXCEPT ![n] = "identify"] /\ job' = [job EXCEPT ![n] = s]
  /\ UNCHANGED <<conns, redis, users, tables, at, found, faults, ghosts>>

\* SetAuthDigest, SetUserId (on a session that no other thread can find yet), and
\* the route.
SetRoute(n) ==
  /\ At(n, "identify")
  /\ digest' = [digest EXCEPT ![job[n]] = Token[job[n]]]
  /\ route' = n
  /\ overtaken' = (overtaken \/ Token[job[n]] # token)
  /\ Goto(n, "install")
  /\ UNCHANGED <<conns, token, uid_map, tables, faults, storedAt>>

Pending == (stored \cap Applies) \ answered

\* WHERE status = 0 ORDER BY id LIMIT: all of them, or the oldest MaxList.
FirstOf(L, S) ==
  /\ Cardinality(L) <= MaxList
  /\ L # S => Cardinality(L) = MaxList /\ \A a \in L, m \in S \ L : a < m

\* Mutant: the newest applications are listed, not the oldest.
ReplyNewest(n, L) ==
  /\ FirstOf({-m : m \in L}, {-m : m \in Pending})
  /\ listed' = IF closed[job[n]] THEN listed ELSE [listed EXCEPT ![job[n]] = L]
  /\ UNCHANGED <<closed, pushed>>

\* What Send posts, if the session is open.
Reply(n, L) ==
  /\ FirstOf(L, Pending)
  /\ listed' = IF closed[job[n]] THEN listed ELSE [listed EXCEPT ![job[n]] = L]
  /\ UNCHANGED <<closed, pushed>>

\* Mutant: the pending applications are read before the session is in the map.
InstallLast(n) ==
  \/ /\ At(n, "install")
     /\ \E L \in SUBSET Pending : Reply(n, L)
     /\ Goto(n, "late")
     /\ UNCHANGED <<redis, users, tables, faults, ghosts>>
  \/ /\ At(n, "late")
     /\ uid_map' = IF closed[job[n]] THEN uid_map ELSE [uid_map EXCEPT ![n] = job[n]]
     /\ Done(n)
     /\ UNCHANGED <<conns, redis, digest, tables, faults, ghosts>>

\* SetUserSession: a closed session is not installed, a replaced one is closed.
Install(n) ==
  /\ At(n, "install")
  /\ LET s == job[n] IN
       IF closed[s] THEN Goto(n, "list") /\ UNCHANGED uid_map
       ELSE /\ uid_map' = [uid_map EXCEPT ![n] = s]
            /\ found' = [found EXCEPT ![n] = uid_map[n]]
            /\ pc' = [pc EXCEPT ![n] = IF uid_map[n] = None THEN "list" ELSE "replace"]
            /\ UNCHANGED <<job, at>>
  /\ UNCHANGED <<conns, redis, digest, tables, faults, ghosts>>

Replace(n) ==
  /\ At(n, "replace")
  /\ Close(found[n])
  /\ Goto(n, "list")
  /\ UNCHANGED <<listed, pushed, redis, users, tables, faults, ghosts>>

\* GetPendingFriendApplies (an error reads as none), and the reply with the list.
List(n) ==
  /\ At(n, "list")
  /\ \/ (\E L \in SUBSET Pending : Reply(n, L)) /\ UNCHANGED faults
     \/ Fault /\ UNCHANGED conns
  /\ Done(n)
  /\ UNCHANGED <<redis, users, tables, ghosts>>

(***************************************************************************)
(* The user: a new login at the gateway, a block; and the connections.     *)
(***************************************************************************)
Issue ==
  /\ token < MaxToken /\ token' = token + 1
  /\ UNCHANGED <<conns, route, users, tables, threads, faults, ghosts>>

\* The user answers an application, which it may know of from an earlier login; the
\* request's own session may have been closed or replaced since it was accepted.
Answer(s, m) ==
  /\ At(Home[s], "idle") /\ digest[s] # 0
  /\ m \in Pending
  /\ answered' = answered \cup {m}
  /\ UNCHANGED <<conns, redis, users, stored, blocked, threads, faults, ghosts>>

Block ==
  /\ ~blocked /\ blocked' = TRUE /\ Fault
  /\ UNCHANGED <<conns, redis, users, stored, answered, threads, ghosts>>

Disconnect(s) ==
  /\ ~closed[s] /\ Close(s)
  /\ UNCHANGED <<listed, pushed, redis, users, tables, threads, faults, ghosts>>

\* ClearSession removes the session from its node's map, if it is the one there.
Clear(s) ==
  /\ closed[s] /\ uid_map[Home[s]] = s
  /\ uid_map' = [uid_map EXCEPT ![Home[s]] = None]
  /\ UNCHANGED <<conns, redis, digest, tables, threads, faults, ghosts>>

Deliver ==
  \/ \E n \in Nodes : ReadRoute(n) \/ CallReturns(n) \/ \E g \in Rpcs : Call(n, g)
  \/ \E t \in Threads : Find(t) \/ Check(t) \/ Push(t)
  \/ \E g \in Rpcs : Allow(g) \/ Stored(g)

Enter == \E n \in Nodes : SetRoute(n) \/ Install(n) \/ Replace(n) \/ List(n)

Next ==
  \/ \E n \in Nodes, m \in Notices : Store(n, m)
  \/ \E s \in Sessions :
       \/ Login(s) \/ Disconnect(s) \/ Clear(s)
       \/ \E m \in Applies : Answer(s, m)
  \/ Deliver \/ Enter \/ Issue \/ Block

Spec == Init /\ [][Next]_vars

(***************************************************************************)
(* Properties.                                                             *)
(***************************************************************************)
TypeOK ==
  /\ token \in 1 .. MaxToken /\ route \in Nodes \cup {None}
  /\ closed \in [Sessions -> BOOLEAN] /\ listed \in [Sessions -> SUBSET Applies]
  /\ digest \in [Sessions -> 0 .. MaxToken]
  /\ uid_map \in [Nodes -> Sessions \cup {None}]
  /\ stored \subseteq Notices /\ answered \subseteq Applies /\ blocked \in BOOLEAN
  /\ pc \in [Threads -> PC] /\ job \in [Threads -> Notices \cup Sessions \cup {None}]
  /\ at \in [Threads -> Nodes \cup {None}] /\ found \in [Threads -> Sessions \cup {None}]
  /\ faults \in 0 .. MaxFaults
  /\ pushed \subseteq Notices \X Sessions /\ storedAt \in [Notices -> 0 .. MaxToken]
  /\ overtaken \in BOOLEAN

\* The user's session at a node, with the current token and its login complete.
Serving(s) ==
  /\ digest[s] = token /\ uid_map[Home[s]] = s /\ ~closed[s]
  /\ \A t \in Threads : job[t] # s

\* What the session's client has been sent.
Told(s) == listed[s] \cup {m \in Notices : <<m, s>> \in pushed}

\* The list of the session's login was full, and of older applications only.
Crowded(s, m) == Cardinality(listed[s]) = MaxList /\ \A a \in listed[s] : a < m

\* A friend application committed while its recipient logs in is pushed or in the
\* list of the login's reply, whichever of the route, the map and the list each
\* side reached first.  What the list leaves out for its limit is newer than all
\* that it names, and it leaves nothing out as long as there is room.  Only that
\* limit, a failed call or query, a block, or a login slower than the next one
\* lets an application wait for another login.
Informed ==
  faults = 0 /\ ~overtaken =>
    \A s \in Sessions : Serving(s) =>
      \A m \in Pending :
        (\A t \in Threads : job[t] # m) => m \in Told(s) \/ Crowded(s, m)

\* What was stored after a session's token had been replaced is never pushed over
\* that session, although route and map may still lead to it.
FreshOnly ==
  \A p \in pushed : storedAt[p[1]] <= Token[p[2]]
================================================================================
