--------------------------- MODULE SessionLifecycle ---------------------------
(***************************************************************************)
(* The connections of one ChatServer node: CServer and its session table,  *)
(* CSession's close protocol, UserMgr's uid -> session map and the login,  *)
(* logout and token checks of LogicSystem's single worker thread.          *)
(*                                                                         *)
(* Threads: the acceptor; per session an asio strand, whose handlers never *)
(* overlap each other but run beside everything else; the logic worker;    *)
(* and gRPC threads that look sessions up.  Locked sections that hold one  *)
(* mutex are one step; ClearSession, which holds CServer::_mutex across    *)
(* two reads of shared state, is two.                                      *)
(***************************************************************************)
EXTENDS Naturals, Sequences, FiniteSets

CONSTANTS
  Sessions,     \* CSession objects, each used for one connection
  NoSession,
  Uids,
  Callers,      \* gRPC threads delivering to local users
  MaxSessions,  \* accept limit (4096 in the code)
  MaxRecv,      \* MAX_RECVQUE (10000 in the code)
  MaxToken,     \* bound: tokens issued
  MaxSends,     \* bound: packets sent on all connections
  MaxFaults     \* bound: exceptions in the worker

NoToken == 0
NoUid == 0
Token == 1 .. MaxToken

Login(u, t) == [kind |-> "login", uid |-> u, token |-> t]
Plain(k) == [kind |-> k, uid |-> NoUid, token |-> NoToken]
Packet == {Login(u, t) : u \in Uids, t \in Token}
            \cup {Plain("logout"), Plain("request")}

ASSUME SessionsAssumption ==
  /\ NoSession \notin Sessions
  /\ Uids \subseteq Nat \ {0}
  /\ MaxSessions \in Nat /\ MaxRecv \in Nat /\ MaxToken \in Nat
  /\ MaxSends \in Nat /\ MaxFaults \in Nat

VARIABLES
  sessions,   \* CServer::_sessions
  phase,      \* the read chain: "new", "listed", "reading", "stopped"
  closed,     \* _b_close
  clear,      \* ClearSession after Close: "no", "due", "removing", "done"
  clearUid,   \* GetUserId() as ClearSession read it
  deadline,   \* _loginDeadline is armed
  user_id, digest,      \* _user_id, _authDigest
  uid_map,    \* UserMgr::_uid_to_session
  token,      \* Redis: digest of the uid's current token
  issued,     \* tokens issued so far, per uid
  queue,      \* _msg_que: <<session, packet>>
  wpc, cur, previous,   \* the worker: control point, packet, replaced session
  found,      \* per caller: uid and session GetSession has found, or Nobody
  sent, faults,
  loggedOut, lapsed     \* tokens whose logout was carried out; whose TTL ended

server == <<sessions, phase, clearUid, deadline>>
close == <<closed, clear>>
identity == <<user_id, digest>>
redis == <<token, issued, lapsed>>
worker == <<wpc, cur, previous>>
vars == <<server, close, identity, uid_map, redis, queue, worker, found, sent,
          faults, loggedOut>>

WPC == {"idle", "token", "identify", "install", "replace", "check", "call"}

Idle == <<NoSession, Plain("request")>>
Nobody == <<NoUid, NoSession>>
Current == cur[1]
Packet0 == cur[2]

\* CSession::Close: the first caller wins and leaves ClearSession to the strand.
Close(s) == /\ closed' = [closed EXCEPT ![s] = TRUE]
            /\ clear' = IF closed[s] THEN clear ELSE [clear EXCEPT ![s] = "due"]

\* CServer::_mutex is held by a ClearSession in progress.
ServerFree == \A s \in Sessions : clear[s] # "removing"

Init ==
  /\ sessions = {} /\ phase = [s \in Sessions |-> "new"]
  /\ closed = [s \in Sessions |-> FALSE] /\ clear = [s \in Sessions |-> "no"]
  /\ clearUid = [s \in Sessions |-> NoUid]
  /\ deadline = [s \in Sessions |-> FALSE]
  /\ user_id = [s \in Sessions |-> NoUid] /\ digest = [s \in Sessions |-> NoToken]
  /\ uid_map = [u \in Uids |-> NoSession]
  /\ token = [u \in Uids |-> NoToken] /\ issued = [u \in Uids |-> {}]
  /\ queue = <<>>
  /\ wpc = "idle" /\ cur = Idle /\ previous = NoSession
  /\ found = [c \in Callers |-> Nobody]
  /\ sent = 0 /\ faults = 0
  /\ loggedOut = {} /\ lapsed = {}

(***************************************************************************)
(* Acceptor and strand.                                                    *)
(***************************************************************************)
\* HandleAccept: a connection beyond the limit is closed without being listed.
Accept(s) ==
  /\ phase[s] = "new" /\ ServerFree
  /\ \/ /\ Cardinality(sessions) >= MaxSessions
        /\ phase' = [phase EXCEPT ![s] = "stopped"]
        /\ Close(s)
        /\ UNCHANGED sessions
     \/ /\ Cardinality(sessions) < MaxSessions
        /\ phase' = [phase EXCEPT ![s] = "listed"]
        /\ sessions' = sessions \cup {s}
        /\ UNCHANGED close
  /\ UNCHANGED <<clearUid, deadline, identity, uid_map, redis, queue, worker,
                 found, sent, faults, loggedOut>>

\* Start, on the strand: arm the login deadline, read the first header.
Start(s) ==
  /\ phase[s] = "listed" /\ clear[s] # "removing"
  /\ IF closed[s]
     THEN phase' = [phase EXCEPT ![s] = "stopped"] /\ UNCHANGED deadline
     ELSE /\ phase' = [phase EXCEPT ![s] = "reading"]
          /\ deadline' = [deadline EXCEPT ![s] = TRUE]
  /\ UNCHANGED <<sessions, clearUid, close, identity, uid_map, redis, queue,
                 worker, found, sent, faults, loggedOut>>

Reading(s) == phase[s] = "reading" /\ ~closed[s]

\* AsyncReadBody completes: post the packet, or close when the queue is full.
Receive(s, p) ==
  /\ Reading(s) /\ sent < MaxSends
  /\ p.kind = "login" => p.token \in issued[p.uid]
  /\ sent' = sent + 1
  /\ \/ /\ Len(queue) >= MaxRecv
        /\ Close(s)
        /\ UNCHANGED queue
     \/ /\ Len(queue) < MaxRecv
        /\ queue' = Append(queue, <<s, p>>)
        /\ UNCHANGED close
  /\ UNCHANGED <<server, identity, uid_map, redis, worker, found, faults,
                 loggedOut>>

\* End of file, malformed header, packet budget or read deadline.
Disconnect(s) ==
  /\ Reading(s)
  /\ Close(s)
  /\ UNCHANGED <<server, identity, uid_map, redis, queue, worker, found, sent,
                 faults, loggedOut>>

\* The 15 s timer: a session that is not logged in by then is closed.
LoginDeadline(s) ==
  /\ deadline[s] /\ ~closed[s]
  /\ deadline' = [deadline EXCEPT ![s] = FALSE]
  /\ IF user_id[s] = NoUid THEN Close(s) ELSE UNCHANGED close
  /\ UNCHANGED <<sessions, phase, clearUid, identity, uid_map, redis, queue,
                 worker, found, sent, faults, loggedOut>>

\* The strand runs the handler Close left: timers and socket, then ClearSession,
\* which reads the uid of a listed session ...
ClearBegin(s) ==
  /\ clear[s] = "due" /\ ServerFree
  /\ clear' = [clear EXCEPT ![s] = "removing"]
  /\ clearUid' = [clearUid EXCEPT ![s] = IF s \in sessions THEN user_id[s]
                                                           ELSE NoUid]
  /\ deadline' = [deadline EXCEPT ![s] = FALSE]
  /\ UNCHANGED <<sessions, phase, closed, identity, uid_map, redis, queue,
                 worker, found, sent, faults, loggedOut>>

\* Mutant: the mapped session's id is not compared.
RmvUserSessionBlindly(u, s) ==
  uid_map' = IF u \in Uids THEN [uid_map EXCEPT ![u] = NoSession] ELSE uid_map

\* ... and removes it from UserMgr's map, if it is still the one mapped, and
\* from the session table.
RmvUserSession(u, s) ==
  uid_map' = IF u \in Uids /\ uid_map[u] = s
             THEN [uid_map EXCEPT ![u] = NoSession] ELSE uid_map

ClearEnd(s) ==
  /\ clear[s] = "removing"
  /\ clear' = [clear EXCEPT ![s] = "done"]
  /\ RmvUserSession(clearUid[s], s)
  /\ sessions' = sessions \ {s}
  /\ UNCHANGED <<phase, clearUid, deadline, closed, identity, redis, queue,
                 worker, found, sent, faults, loggedOut>>

(***************************************************************************)
(* The logic worker.                                                       *)
(***************************************************************************)
Await == wpc' = "idle" /\ cur' = Idle /\ previous' = NoSession
Proceed(label) == wpc' = label /\ UNCHANGED <<cur, previous>>

\* Mutant: every packet of a closed session is dropped, its logout as well.
TakeDropsLogout ==
  /\ wpc = "idle" /\ queue # <<>>
  /\ queue' = Tail(queue)
  /\ LET s == Head(queue)[1]
         p == Head(queue)[2]
         login == p.kind = "login"
         allowed == login = (user_id[s] = NoUid)
     IN  \/ closed[s] /\ UNCHANGED <<worker, close>>
         \/ ~closed[s] /\ ~allowed /\ Close(s) /\ UNCHANGED worker
         \/ /\ ~closed[s] /\ allowed
            /\ wpc' = IF login THEN "token" ELSE "check"
            /\ cur' = Head(queue)
            /\ UNCHANGED <<previous, close>>
  /\ UNCHANGED <<server, identity, uid_map, redis, found, sent, faults, loggedOut>>

\* DealMsg takes a packet: a closed session's is dropped unless it is a logout;
\* login is for unauthenticated sessions, the rest for authenticated ones.
Take ==
  /\ wpc = "idle" /\ queue # <<>>
  /\ queue' = Tail(queue)
  /\ LET s == Head(queue)[1]
         p == Head(queue)[2]
         login == p.kind = "login"
         allowed == login = (user_id[s] = NoUid)
     IN  \/ /\ closed[s] /\ p.kind # "logout"
            /\ UNCHANGED <<worker, close>>
         \/ /\ ~(closed[s] /\ p.kind # "logout") /\ ~allowed
            /\ Close(s)
            /\ UNCHANGED worker
         \/ /\ ~(closed[s] /\ p.kind # "logout") /\ allowed
            /\ wpc' = IF login THEN "token" ELSE "check"
            /\ cur' = Head(queue)
            /\ UNCHANGED <<previous, close>>
  /\ UNCHANGED <<server, identity, uid_map, redis, found, sent, faults, loggedOut>>

\* LoginHandler compares the token; a mismatch (or a missing profile) is only
\* answered.
LoginToken ==
  /\ wpc = "token"
  /\ \/ token[Packet0.uid] = Packet0.token /\ Proceed("identify")
     \/ Await
  /\ UNCHANGED <<server, close, identity, uid_map, redis, queue, found, sent,
                 faults, loggedOut>>

\* SetAuthDigest, SetUserId.
Identify ==
  /\ wpc = "identify"
  /\ digest' = [digest EXCEPT ![Current] = Packet0.token]
  /\ user_id' = [user_id EXCEPT ![Current] = Packet0.uid]
  /\ Proceed("install")
  /\ UNCHANGED <<server, close, uid_map, redis, queue, found, sent, faults,
                 loggedOut>>

\* Mutant: a session closed meanwhile is installed all the same.
SetUserSessionClosedToo ==
  /\ wpc = "install"
  /\ previous' = uid_map[Packet0.uid]
  /\ uid_map' = [uid_map EXCEPT ![Packet0.uid] = Current]
  /\ wpc' = "replace"
  /\ UNCHANGED <<server, close, identity, redis, queue, cur, found, sent,
                 faults, loggedOut>>

\* SetUserSession under the map lock: a closed session is not installed.
SetUserSession ==
  /\ wpc = "install"
  /\ \/ /\ closed[Current]
        /\ UNCHANGED <<uid_map, previous>>
     \/ /\ ~closed[Current]
        /\ previous' = uid_map[Packet0.uid]
        /\ uid_map' = [uid_map EXCEPT ![Packet0.uid] = Current]
  /\ wpc' = "replace"
  /\ UNCHANGED <<server, close, identity, redis, queue, cur, found, sent, faults,
                 loggedOut>>

\* Mutant: the replaced session is left open.
ReplaceLeavesOpen ==
  /\ wpc = "replace"
  /\ Await
  /\ UNCHANGED <<server, close, identity, uid_map, redis, queue, found, sent,
                 faults, loggedOut>>

\* ... then, outside the lock, the replaced session is closed.
Replace ==
  /\ wpc = "replace"
  /\ IF previous # NoSession /\ previous # Current
     THEN Close(previous) ELSE UNCHANGED close
  /\ Await
  /\ UNCHANGED <<server, identity, uid_map, redis, queue, found, sent, faults,
                 loggedOut>>

\* Every other packet: the session's token must still be the uid's current one.
CheckToken ==
  /\ wpc = "check"
  /\ \/ /\ token[user_id[Current]] = digest[Current]
        /\ Proceed("call") /\ UNCHANGED close
     \/ /\ token[user_id[Current]] # digest[Current]
        /\ Close(Current) /\ Await
  /\ UNCHANGED <<server, identity, uid_map, redis, queue, found, sent, faults,
                 loggedOut>>

\* Mutant: a plain DEL.
DeleteAlways(u, d) == token' = [token EXCEPT ![u] = NoToken]

\* RedisMgr::DeleteIfEqual, atomic in Redis.
DeleteIfEqual(u, d) ==
  token' = IF token[u] = d THEN [token EXCEPT ![u] = NoToken] ELSE token

\* Logout (1042) revokes the session's own token; any other handler leaves the
\* state modelled here alone.
Callback ==
  /\ wpc = "call"
  /\ \/ /\ Packet0.kind = "logout"
        /\ DeleteIfEqual(user_id[Current], digest[Current])
        /\ Close(Current)
        /\ loggedOut' = loggedOut \cup {digest[Current]}
     \/ /\ Packet0.kind = "request"
        /\ UNCHANGED <<token, close, loggedOut>>
  /\ Await
  /\ UNCHANGED <<server, identity, uid_map, issued, lapsed, queue, found, sent,
                 faults>>

\* A handler throws or a Redis read fails: the session is closed.
Exception ==
  /\ wpc \in {"token", "identify", "check", "call"}
  /\ faults < MaxFaults
  /\ faults' = faults + 1
  /\ Close(Current) /\ Await
  /\ UNCHANGED <<server, identity, uid_map, redis, queue, found, sent, loggedOut>>

(***************************************************************************)
(* UserMgr::GetSession in a gRPC thread: find, then compare tokens.        *)
(***************************************************************************)
FindSession(c, u) ==
  /\ found[c] = Nobody /\ uid_map[u] # NoSession
  /\ found' = [found EXCEPT ![c] = <<u, uid_map[u]>>]
  /\ UNCHANGED <<server, close, identity, uid_map, redis, queue, worker, sent,
                 faults, loggedOut>>

UseSession(c) ==
  /\ found[c] # Nobody
  /\ LET u == found[c][1]
         s == found[c][2]
     IN  IF token[u] # digest[s] THEN Close(s) ELSE UNCHANGED close
  /\ found' = [found EXCEPT ![c] = Nobody]
  /\ UNCHANGED <<server, identity, uid_map, redis, queue, worker, sent, faults,
                 loggedOut>>

(***************************************************************************)
(* The token store: a login at the gateway (or a password reset) replaces  *)
(* the token, and its TTL ends.                                            *)
(***************************************************************************)
Issue(u) ==
  LET spent == UNION {issued[v] : v \in Uids} IN
  \E t \in Token \ spent :
    /\ \A k \in 1 .. t - 1 : k \in spent
    /\ token' = [token EXCEPT ![u] = t]
    /\ issued' = [issued EXCEPT ![u] = @ \cup {t}]
    /\ UNCHANGED <<server, close, identity, uid_map, lapsed, queue, worker, found,
                   sent, faults, loggedOut>>

Lapse(u) ==
  /\ token[u] # NoToken
  /\ token' = [token EXCEPT ![u] = NoToken]
  /\ lapsed' = lapsed \cup {token[u]}
  /\ UNCHANGED <<server, close, identity, uid_map, issued, queue, worker, found,
                 sent, faults, loggedOut>>

Strand(s) == Start(s) \/ LoginDeadline(s) \/ ClearBegin(s) \/ ClearEnd(s)

Work == \/ Take \/ LoginToken \/ Identify \/ SetUserSession \/ Replace
        \/ CheckToken \/ Callback

Next == \/ \E s \in Sessions : \/ Accept(s) \/ Strand(s) \/ Disconnect(s)
                               \/ \E p \in Packet : Receive(s, p)
        \/ Work \/ Exception
        \/ \E c \in Callers : UseSession(c) \/ \E u \in Uids : FindSession(c, u)
        \/ \E u \in Uids : Issue(u) \/ Lapse(u)

Spec == Init /\ [][Next]_vars

(***************************************************************************)
(* Properties.                                                             *)
(***************************************************************************)
TypeOK ==
  /\ sessions \subseteq Sessions
  /\ phase \in [Sessions -> {"new", "listed", "reading", "stopped"}]
  /\ closed \in [Sessions -> BOOLEAN]
  /\ clear \in [Sessions -> {"no", "due", "removing", "done"}]
  /\ clearUid \in [Sessions -> Uids \cup {NoUid}]
  /\ deadline \in [Sessions -> BOOLEAN]
  /\ user_id \in [Sessions -> Uids \cup {NoUid}]
  /\ digest \in [Sessions -> Token \cup {NoToken}]
  /\ uid_map \in [Uids -> Sessions \cup {NoSession}]
  /\ token \in [Uids -> Token \cup {NoToken}]
  /\ issued \in [Uids -> SUBSET Token]
  /\ queue \in Seq(Sessions \X Packet)
  /\ wpc \in WPC
  /\ cur \in (Sessions \X Packet) \cup {Idle}
  /\ previous \in Sessions \cup {NoSession}
  /\ found \in [Callers -> (Uids \X Sessions) \cup {Nobody}]
  /\ sent \in 0 .. MaxSends /\ faults \in 0 .. MaxFaults
  /\ loggedOut \subseteq Token /\ lapsed \subseteq Token

\* A connection that has been closed and cleared is no user's current session,
\* however its end raced with the login that was installing it.
NoZombie == \A s \in Sessions : clear[s] = "done" =>
              s \notin sessions /\ \A u \in Uids : uid_map[u] # s

\* A user's current session leaves the map only when it is itself closed: the
\* late clean-up of a replaced session does not evict its successor.
SuccessorSurvives ==
  [][\A u \in Uids : uid_map'[u] = NoSession /\ uid_map[u] # NoSession
       => closed[uid_map[u]]]_vars

\* A token disappears only when its TTL ends or by the logout of a session that
\* holds it: a logout that races with a new login spares the new token.
OnlyOwnLogout ==
  [][\A u \in Uids : token'[u] = NoToken /\ token[u] # NoToken
       => token[u] \in lapsed' \cup loggedOut']_vars

\* A logout queued by a logged-in session is carried out even if the connection
\* is closed meanwhile: it is under way until the session's token is not the
\* user's current one, and only a handler that fails loses it.
LogoutUnderway(s) ==
  LET logout == <<s, Plain("logout")>> IN
  cur = logout \/ \E i \in DOMAIN queue : queue[i] = logout

LogoutRevokes ==
  [][\A s \in Sessions, u \in Uids :
       user_id[s] = u /\ LogoutUnderway(s) /\ ~LogoutUnderway(s)'
         => token'[u] # digest[s] \/ faults' > faults]_vars

\* Between two handlers of the worker a user has at most one open session, the one
\* in the map: all others that ever logged in are closed.
SupersededIsClosed ==
  wpc \notin {"install", "replace"} =>
    \A s \in Sessions, u \in Uids :
      user_id[s] = u /\ uid_map[u] # s => closed[s]
==============================================================================
