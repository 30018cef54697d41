----------------------- MODULE SessionLifecycleProofs -----------------------
(***************************************************************************)
(* Theorems about SessionLifecycle, for any number of connections, users,  *)
(* gRPC threads and tokens, and any limits; and, in the second half, about *)
(* Connection, for any number of threads and packets and any limit.        *)
(***************************************************************************)
EXTENDS SessionLifecycle, Connection, FiniteSetTheorems, TLAPS

(***************************************************************************)
(* The inductive invariant.                                                *)
(***************************************************************************)
\* A session that is being read, or was, is listed until its ClearSession ends.
SessionOK(s) ==
  /\ closed[s] <=> clear[s] # "no"
  /\ phase[s] = "new" => ~closed[s] /\ s \notin sessions
  /\ s \in sessions => clear[s] # "done"
  /\ phase[s] \in {"listed", "reading"} /\ clear[s] # "done" => s \in sessions
  /\ deadline[s] => phase[s] = "reading"
  /\ user_id[s] # NoUid => phase[s] = "reading" /\ digest[s] \in Token

\* A mapped session has logged in as its user; its ClearSession, if it has begun,
\* will look for it there.
MapOK(u) ==
  LET s == uid_map[u] IN
  s # NoSession =>
    /\ user_id[s] = u /\ clear[s] # "done"
    /\ clear[s] = "removing" => clearUid[s] = u

LoggingIn == {"token", "identify", "install", "replace"}

WorkerOK ==
  /\ wpc = "idle" => cur = Idle
  /\ wpc # "idle" => cur \in Sessions \X Packet /\ phase[Current] = "reading"
  /\ wpc \in LoggingIn => Packet0.kind = "login" /\ Packet0.uid \in Uids
                                               /\ Packet0.token \in Token
  /\ wpc \in {"token", "identify"} => user_id[Current] = NoUid
  /\ wpc \in {"install", "replace"} => user_id[Current] = Packet0.uid
  /\ wpc \in {"check", "call"} => user_id[Current] \in Uids
  /\ wpc = "install" => \A u \in Uids : uid_map[u] # Current
  /\ previous # NoSession => phase[previous] = "reading"

QueueOK == \A i \in DOMAIN queue : phase[queue[i][1]] = "reading"

CallersOK == \A c \in Callers : found[c] # Nobody => phase[found[c][2]] = "reading"

\* An open session that has logged in and is not in the map is about to be
\* installed, or about to be closed by the login that has replaced it.
OpenIsMapped ==
  \A s \in Sessions, u \in Uids :
    user_id[s] = u /\ uid_map[u] # s =>
      \/ closed[s]
      \/ wpc = "install" /\ s = Current
      \/ wpc = "replace" /\ s = previous /\ s # Current

IInv == /\ TypeOK /\ (\A s \in Sessions : SessionOK(s)) /\ (\A u \in Uids : MapOK(u))
        /\ WorkerOK /\ QueueOK /\ CallersOK /\ OpenIsMapped

LEMMA InitHolds == Init => IInv
<1> SUFFICES ASSUME Init PROVE IInv
  OBVIOUS
<1> USE SessionsAssumption DEF Init
<1>1. TypeOK
  BY DEF TypeOK, WPC, NoUid, NoToken
<1>2. (\A s \in Sessions : SessionOK(s)) /\ \A u \in Uids : MapOK(u)
  BY DEF SessionOK, MapOK, NoUid, NoToken
<1>3. WorkerOK /\ QueueOK /\ CallersOK /\ OpenIsMapped
  BY DEF WorkerOK, LoggingIn, QueueOK, CallersOK, OpenIsMapped, NoUid
<1> QED
  BY <1>1, <1>2, <1>3 DEF IInv

LEMMA AcceptStep ==
  ASSUME IInv, NEW r \in Sessions, Accept(r)
  PROVE IInv'
<1> USE SessionsAssumption DEF Accept, Close, ServerFree, close, identity, redis, worker
<1>1. TypeOK'
  <2>1. phase' \in [Sessions -> {"new", "listed", "reading", "stopped"}]
    BY DEF IInv, TypeOK
  <2>2. closed' \in [Sessions -> BOOLEAN]
    BY DEF IInv, TypeOK
  <2>3. clear' \in [Sessions -> {"no", "due", "removing", "done"}]
    BY DEF IInv, TypeOK
  <2>4. sessions' \subseteq Sessions
    BY DEF IInv, TypeOK
  <2> QED
    BY <2>1, <2>2, <2>3, <2>4 DEF IInv, TypeOK
<1>2. \A s \in Sessions : SessionOK(s)'
  BY DEF IInv, TypeOK, SessionOK, WorkerOK, LoggingIn, CallersOK, QueueOK, MapOK,
      Current, Packet0, NoUid
<1>3. \A u \in Uids : MapOK(u)'
  BY DEF IInv, TypeOK, SessionOK, WorkerOK, LoggingIn, MapOK, Current, Packet0, NoUid
<1>4. WorkerOK'
  BY DEF IInv, TypeOK, SessionOK, WorkerOK, LoggingIn, QueueOK, MapOK, Current,
      Packet0, Idle, NoUid
<1>5. QueueOK' /\ CallersOK'
  BY DEF IInv, TypeOK, SessionOK, QueueOK, CallersOK, MapOK, Nobody, NoUid
<1>6. OpenIsMapped'
  BY DEF IInv, TypeOK, SessionOK, WorkerOK, LoggingIn, MapOK, OpenIsMapped, Current,
      Packet0, NoUid
<1> QED
  BY <1>1, <1>2, <1>3, <1>4, <1>5, <1>6 DEF IInv

LEMMA StartStep ==
  ASSUME IInv, NEW r \in Sessions, Start(r)
  PROVE IInv'
<1> USE SessionsAssumption DEF Start, close, identity, redis, worker
<1>1. TypeOK'
  <2>1. phase' \in [Sessions -> {"new", "listed", "reading", "stopped"}]
    BY DEF IInv, TypeOK
  <2>2. deadline' \in [Sessions -> BOOLEAN]
    BY DEF IInv, TypeOK
  <2> QED
    BY <2>1, <2>2 DEF IInv, TypeOK
<1>2. \A s \in Sessions : SessionOK(s)'
  BY DEF IInv, TypeOK, SessionOK, WorkerOK, LoggingIn, CallersOK, QueueOK, MapOK,
      Current, Packet0, NoUid
<1>3. \A u \in Uids : MapOK(u)'
  BY DEF IInv, TypeOK, SessionOK, WorkerOK, LoggingIn, MapOK, Current, Packet0, NoUid
<1>4. WorkerOK'
  BY DEF IInv, TypeOK, SessionOK, WorkerOK, LoggingIn, QueueOK, MapOK, Current,
      Packet0, Idle, NoUid
<1>5. QueueOK' /\ CallersOK'
  BY DEF IInv, TypeOK, SessionOK, QueueOK, CallersOK, MapOK, Nobody, NoUid
<1>6. OpenIsMapped'
  BY DEF IInv, TypeOK, SessionOK, WorkerOK, LoggingIn, MapOK, OpenIsMapped, Current,
      Packet0, NoUid
<1> QED
  BY <1>1, <1>2, <1>3, <1>4, <1>5, <1>6 DEF IInv

LEMMA ReceiveStep ==
  ASSUME IInv, NEW r \in Sessions, NEW p \in Packet, Receive(r, p)
  PROVE IInv'
<1> USE SessionsAssumption DEF Receive, Reading, Close, server, close, identity, redis,
    worker
<1>1. TypeOK'
  <2>1. closed' \in [Sessions -> BOOLEAN]
    BY DEF IInv, TypeOK
  <2>2. clear' \in [Sessions -> {"no", "due", "removing", "done"}]
    BY DEF IInv, TypeOK
  <2>3. queue' \in Seq(Sessions \X Packet)
    <3>1. <<r, p>> \in Sessions \X Packet /\ queue \in Seq(Sessions \X Packet)
      BY DEF IInv, TypeOK
    <3>2. queue' = queue \/ queue' = Append(queue, <<r, p>>)
      OBVIOUS
    <3> QED
      BY SMTT(30), <3>1, <3>2
  <2>4. sent' \in 0 .. MaxSends
    BY DEF IInv, TypeOK
  <2> QED
    BY <2>1, <2>2, <2>3, <2>4 DEF IInv, TypeOK
<1>2. \A s \in Sessions : SessionOK(s)'
  BY DEF IInv, TypeOK, SessionOK, WorkerOK, LoggingIn, CallersOK, QueueOK, MapOK,
      Current, Packet0, NoUid
<1>3. \A u \in Uids : MapOK(u)'
  BY DEF IInv, TypeOK, SessionOK, WorkerOK, LoggingIn, MapOK, Current, Packet0, NoUid
<1>4. WorkerOK'
  BY DEF IInv, TypeOK, SessionOK, WorkerOK, LoggingIn, QueueOK, MapOK, Current,
      Packet0, Idle, NoUid
<1>5. QueueOK' /\ CallersOK'
  <2>1. CASE UNCHANGED queue
    BY <2>1 DEF IInv, QueueOK, CallersOK
  <2>2. CASE queue' = Append(queue, <<r, p>>)
    <3>1. \A i \in DOMAIN queue' : queue'[i] = <<r, p>> \/ (i \in DOMAIN queue /\ queue'[i] = queue[i])
      BY <2>2 DEF IInv, TypeOK
    <3>2. phase' = phase /\ found' = found /\ phase[r] = "reading"
      OBVIOUS
    <3> QED
      BY <3>1, <3>2 DEF IInv, QueueOK, CallersOK
  <2> QED
    BY <2>1, <2>2
<1>6. OpenIsMapped'
  BY DEF IInv, TypeOK, SessionOK, WorkerOK, LoggingIn, MapOK, OpenIsMapped, Current,
      Packet0, NoUid
<1> QED
  BY <1>1, <1>2, <1>3, <1>4, <1>5, <1>6 DEF IInv

LEMMA DisconnectStep ==
  ASSUME IInv, NEW r \in Sessions, Disconnect(r)
  PROVE IInv'
<1> USE SessionsAssumption DEF Disconnect, Reading, Close, server, identity, redis, worker
<1>1. TypeOK'
  BY DEF IInv, TypeOK, WPC, WorkerOK, LoggingIn, Current, Packet0, Idle, Nobody, NoUid,
      NoToken, MapOK
<1>2. \A s \in Sessions : SessionOK(s)'
  BY DEF IInv, TypeOK, SessionOK, WorkerOK, LoggingIn, CallersOK, QueueOK, MapOK,
      Current, Packet0, NoUid
<1>3. \A u \in Uids : MapOK(u)'
  BY DEF IInv, TypeOK, SessionOK, WorkerOK, LoggingIn, MapOK, Current, Packet0, NoUid
<1>4. WorkerOK'
  BY DEF IInv, TypeOK, SessionOK, WorkerOK, LoggingIn, QueueOK, MapOK, Current,
      Packet0, Idle, NoUid
<1>5. QueueOK' /\ CallersOK'
  BY DEF IInv, TypeOK, SessionOK, QueueOK, CallersOK, MapOK, Nobody, NoUid
<1>6. OpenIsMapped'
  BY DEF IInv, TypeOK, SessionOK, WorkerOK, LoggingIn, MapOK, OpenIsMapped, Current,
      Packet0, NoUid
<1> QED
  BY <1>1, <1>2, <1>3, <1>4, <1>5, <1>6 DEF IInv

LEMMA LoginDeadlineStep ==
  ASSUME IInv, NEW r \in Sessions, LoginDeadline(r)
  PROVE IInv'
<1> USE SessionsAssumption DEF LoginDeadline, Close, close, identity, redis, worker
<1>1. TypeOK'
  <2>1. closed' \in [Sessions -> BOOLEAN]
    BY DEF IInv, TypeOK
  <2>2. clear' \in [Sessions -> {"no", "due", "removing", "done"}]
    BY DEF IInv, TypeOK
  <2>3. deadline' \in [Sessions -> BOOLEAN]
    BY DEF IInv, TypeOK
  <2> QED
    BY <2>1, <2>2, <2>3 DEF IInv, TypeOK
<1>2. \A s \in Sessions : SessionOK(s)'
  <2>1. phase[r] # "new"
    BY DEF IInv, SessionOK
  <2> QED
    BY <2>1 DEF IInv, TypeOK, SessionOK
<1>3. \A u \in Uids : MapOK(u)'
  BY DEF IInv, TypeOK, SessionOK, WorkerOK, LoggingIn, MapOK, Current, Packet0, NoUid
<1>4. WorkerOK'
  BY DEF IInv, TypeOK, SessionOK, WorkerOK, LoggingIn, QueueOK, MapOK, Current,
      Packet0, Idle, NoUid
<1>5. QueueOK' /\ CallersOK'
  BY DEF IInv, TypeOK, SessionOK, QueueOK, CallersOK, MapOK, Nobody, NoUid
<1>6. OpenIsMapped'
  BY DEF IInv, TypeOK, SessionOK, WorkerOK, LoggingIn, MapOK, OpenIsMapped, Current,
      Packet0, NoUid
<1> QED
  BY <1>1, <1>2, <1>3, <1>4, <1>5, <1>6 DEF IInv

LEMMA ClearBeginStep ==
  ASSUME IInv, NEW r \in Sessions, ClearBegin(r)
  PROVE IInv'
<1> USE SessionsAssumption DEF ClearBegin, ServerFree, identity, redis, worker
<1>1. TypeOK'
  BY DEF IInv, TypeOK, WPC, WorkerOK, LoggingIn, Current, Packet0, Idle, Nobody, NoUid,
      NoToken, MapOK
<1>2. \A s \in Sessions : SessionOK(s)'
  BY DEF IInv, TypeOK, SessionOK, WorkerOK, LoggingIn, CallersOK, QueueOK, MapOK,
      Current, Packet0, NoUid
<1>3. \A u \in Uids : MapOK(u)'
  BY DEF IInv, TypeOK, SessionOK, WorkerOK, LoggingIn, MapOK, Current, Packet0, NoUid
<1>4. WorkerOK'
  BY DEF IInv, TypeOK, SessionOK, WorkerOK, LoggingIn, QueueOK, MapOK, Current,
      Packet0, Idle, NoUid
<1>5. QueueOK' /\ CallersOK'
  BY DEF IInv, TypeOK, SessionOK, QueueOK, CallersOK, MapOK, Nobody, NoUid
<1>6. OpenIsMapped'
  BY DEF IInv, TypeOK, SessionOK, WorkerOK, LoggingIn, MapOK, OpenIsMapped, Current,
      Packet0, NoUid
<1> QED
  BY <1>1, <1>2, <1>3, <1>4, <1>5, <1>6 DEF IInv

LEMMA ClearEndStep ==
  ASSUME IInv, NEW r \in Sessions, ClearEnd(r)
  PROVE IInv'
<1> USE SessionsAssumption DEF ClearEnd, RmvUserSession, identity, redis, worker
<1>1. TypeOK'
  BY DEF IInv, TypeOK, WPC, WorkerOK, LoggingIn, Current, Packet0, Idle, Nobody, NoUid,
      NoToken, MapOK
<1>2. \A s \in Sessions : SessionOK(s)'
  BY DEF IInv, TypeOK, SessionOK, WorkerOK, LoggingIn, CallersOK, QueueOK, MapOK,
      Current, Packet0, NoUid
<1>3. \A u \in Uids : MapOK(u)'
  BY DEF IInv, TypeOK, SessionOK, WorkerOK, LoggingIn, MapOK, Current, Packet0, NoUid
<1>4. WorkerOK'
  BY DEF IInv, TypeOK, SessionOK, WorkerOK, LoggingIn, QueueOK, MapOK, Current,
      Packet0, Idle, NoUid
<1>5. QueueOK' /\ CallersOK'
  BY DEF IInv, TypeOK, SessionOK, QueueOK, CallersOK, MapOK, Nobody, NoUid
<1>6. OpenIsMapped'
  BY DEF IInv, TypeOK, SessionOK, WorkerOK, LoggingIn, MapOK, OpenIsMapped, Current,
      Packet0, NoUid
<1> QED
  BY <1>1, <1>2, <1>3, <1>4, <1>5, <1>6 DEF IInv

LEMMA TakeStep ==
  ASSUME IInv, Take
  PROVE IInv'
<1> USE SessionsAssumption DEF Take, Close, server, close, identity, redis, worker
<1>0. /\ Head(queue) \in Sessions \X Packet /\ phase[Head(queue)[1]] = "reading"
      /\ Tail(queue) \in Seq(Sessions \X Packet)
      /\ \A i \in DOMAIN Tail(queue) : i + 1 \in DOMAIN queue /\ Tail(queue)[i] = queue[i + 1]
  BY DEF IInv, TypeOK, QueueOK
<1>00. Head(queue)[2].kind = "login" => /\ Head(queue)[2].uid \in Uids
                                        /\ Head(queue)[2].token \in Token
  BY <1>0 DEF Packet, Login, Plain
<1>1. TypeOK'
  <2>1. closed' \in [Sessions -> BOOLEAN]
    BY <1>0 DEF IInv, TypeOK
  <2>2. clear' \in [Sessions -> {"no", "due", "removing", "done"}]
    <3>1. \/ clear' = clear
          \/ \E s \in Sessions : clear' = [clear EXCEPT ![s] = "due"]
      BY <1>0
    <3> QED
      BY <3>1 DEF IInv, TypeOK
  <2>3. queue' \in Seq(Sessions \X Packet)
    BY <1>0 DEF IInv, TypeOK
  <2>4. wpc' \in WPC
    BY <1>0 DEF IInv, TypeOK, WPC
  <2>5. cur' \in (Sessions \X Packet) \cup {Idle}
    BY <1>0 DEF IInv, TypeOK, Idle
  <2> QED
    BY <2>1, <2>2, <2>3, <2>4, <2>5 DEF IInv, TypeOK
<1>2. \A s \in Sessions : SessionOK(s)'
  BY <1>0, <1>00 DEF IInv, TypeOK, SessionOK, WorkerOK, LoggingIn, CallersOK, QueueOK,
      MapOK, Current, Packet0, NoUid
<1>3. \A u \in Uids : MapOK(u)'
  BY DEF IInv, TypeOK, SessionOK, WorkerOK, LoggingIn, MapOK, Current, Packet0, NoUid
<1>4. WorkerOK'
  BY <1>0, <1>00 DEF IInv, TypeOK, SessionOK, WorkerOK, LoggingIn, QueueOK, MapOK,
      Current, Packet0, Idle, NoUid
<1>5. QueueOK' /\ CallersOK'
  <2>1. queue' = Tail(queue) /\ phase' = phase /\ found' = found
    OBVIOUS
  <2> QED
    BY <1>0, <2>1 DEF IInv, QueueOK, CallersOK
<1>6. OpenIsMapped'
  BY DEF IInv, TypeOK, SessionOK, WorkerOK, LoggingIn, MapOK, OpenIsMapped, Current,
      Packet0, NoUid
<1> QED
  BY <1>1, <1>2, <1>3, <1>4, <1>5, <1>6 DEF IInv

LEMMA LoginTokenStep ==
  ASSUME IInv, LoginToken
  PROVE IInv'
<1> USE SessionsAssumption DEF LoginToken, Await, Proceed, server, close, identity, redis
<1>1. TypeOK'
  BY DEF IInv, TypeOK, WPC, WorkerOK, LoggingIn, Current, Packet0, Idle, Nobody, NoUid,
      NoToken, MapOK
<1>2. \A s \in Sessions : SessionOK(s)'
  BY DEF IInv, TypeOK, SessionOK, WorkerOK, LoggingIn, CallersOK, QueueOK, MapOK,
      Current, Packet0, NoUid
<1>3. \A u \in Uids : MapOK(u)'
  BY DEF IInv, TypeOK, SessionOK, WorkerOK, LoggingIn, MapOK, Current, Packet0, NoUid
<1>4. WorkerOK'
  BY DEF IInv, TypeOK, SessionOK, WorkerOK, LoggingIn, QueueOK, MapOK, Current,
      Packet0, Idle, NoUid
<1>5. QueueOK' /\ CallersOK'
  BY DEF IInv, TypeOK, SessionOK, QueueOK, CallersOK, MapOK, Nobody, NoUid
<1>6. OpenIsMapped'
  BY DEF IInv, TypeOK, SessionOK, WorkerOK, LoggingIn, MapOK, OpenIsMapped, Current,
      Packet0, NoUid
<1> QED
  BY <1>1, <1>2, <1>3, <1>4, <1>5, <1>6 DEF IInv

LEMMA IdentifyStep ==
  ASSUME IInv, Identify
  PROVE IInv'
<1> USE SessionsAssumption DEF Identify, Proceed, server, close, redis
<1>1. TypeOK'
  BY DEF IInv, TypeOK, WPC, WorkerOK, LoggingIn, Current, Packet0, Idle, Nobody, NoUid,
      NoToken, MapOK
<1>2. \A s \in Sessions : SessionOK(s)'
  BY DEF IInv, TypeOK, SessionOK, WorkerOK, LoggingIn, CallersOK, QueueOK, MapOK,
      Current, Packet0, NoUid
<1>3. \A u \in Uids : MapOK(u)'
  BY DEF IInv, TypeOK, SessionOK, WorkerOK, LoggingIn, MapOK, Current, Packet0, NoUid
<1>4. WorkerOK'
  BY DEF IInv, TypeOK, SessionOK, WorkerOK, LoggingIn, QueueOK, MapOK, Current,
      Packet0, Idle, NoUid
<1>5. QueueOK' /\ CallersOK'
  BY DEF IInv, TypeOK, SessionOK, QueueOK, CallersOK, MapOK, Nobody, NoUid
<1>6. OpenIsMapped'
  BY DEF IInv, TypeOK, SessionOK, WorkerOK, LoggingIn, MapOK, OpenIsMapped, Current,
      Packet0, NoUid
<1> QED
  BY <1>1, <1>2, <1>3, <1>4, <1>5, <1>6 DEF IInv

LEMMA SetUserSessionStep ==
  ASSUME IInv, SetUserSession
  PROVE IInv'
<1> USE SessionsAssumption DEF SetUserSession, server, close, identity, redis
<1>1. TypeOK'
  <2>1. wpc' \in WPC
    BY DEF IInv, TypeOK, WPC
  <2>2. previous' \in Sessions \cup {NoSession}
    BY DEF IInv, TypeOK, WorkerOK, LoggingIn, Current, Packet0
  <2>3. uid_map' \in [Uids -> Sessions \cup {NoSession}]
    BY DEF IInv, TypeOK, WorkerOK, LoggingIn, Current, Packet0
  <2> QED
    BY <2>1, <2>2, <2>3 DEF IInv, TypeOK
<1>2. \A s \in Sessions : SessionOK(s)'
  BY DEF IInv, TypeOK, SessionOK, WorkerOK, LoggingIn, CallersOK, QueueOK, MapOK,
      Current, Packet0, NoUid
<1>3. \A u \in Uids : MapOK(u)'
  BY DEF IInv, TypeOK, SessionOK, WorkerOK, LoggingIn, MapOK, Current, Packet0, NoUid
<1>4. WorkerOK'
  <2>1. previous' # NoSession => phase[previous'] = "reading"
    <3>1. CASE previous' = previous
      BY <3>1 DEF IInv, WorkerOK
    <3>2. CASE previous' = uid_map[Packet0.uid] /\ previous' # NoSession
      <4>1. Packet0.uid \in Uids /\ previous' \in Sessions /\ user_id[previous'] = Packet0.uid
        BY ZenonT(30), <3>2 DEF IInv, TypeOK, WorkerOK, LoggingIn, MapOK
      <4>2. user_id[previous'] # NoUid
        BY <4>1 DEF NoUid
      <4> QED
        BY <4>1, <4>2 DEF IInv, SessionOK
    <3> QED
      BY <3>1, <3>2
  <2> QED
    BY <2>1 DEF IInv, WorkerOK, LoggingIn, Current, Packet0
<1>5. QueueOK' /\ CallersOK'
  BY DEF IInv, TypeOK, SessionOK, QueueOK, CallersOK, MapOK, Nobody, NoUid
<1>6. OpenIsMapped'
  BY DEF IInv, TypeOK, SessionOK, WorkerOK, LoggingIn, MapOK, OpenIsMapped, Current,
      Packet0, NoUid
<1> QED
  BY <1>1, <1>2, <1>3, <1>4, <1>5, <1>6 DEF IInv

LEMMA ReplaceStep ==
  ASSUME IInv, Replace
  PROVE IInv'
<1> USE SessionsAssumption DEF Replace, Await, Close, server, close, identity, redis
<1>1. TypeOK'
  <2>1. closed' \in [Sessions -> BOOLEAN]
    BY DEF IInv, TypeOK
  <2>2. clear' \in [Sessions -> {"no", "due", "removing", "done"}]
    BY DEF IInv, TypeOK
  <2>3. wpc' \in WPC
    BY DEF IInv, TypeOK, WPC
  <2>4. cur' \in (Sessions \X Packet) \cup {Idle}
    BY DEF IInv, TypeOK
  <2> QED
    BY <2>1, <2>2, <2>3, <2>4 DEF IInv, TypeOK
<1>2. \A s \in Sessions : SessionOK(s)'
  BY DEF IInv, TypeOK, SessionOK, WorkerOK, LoggingIn, CallersOK, QueueOK, MapOK,
      Current, Packet0, NoUid
<1>3. \A u \in Uids : MapOK(u)'
  BY DEF IInv, TypeOK, SessionOK, WorkerOK, LoggingIn, MapOK, Current, Packet0, NoUid
<1>4. WorkerOK'
  BY DEF IInv, TypeOK, SessionOK, WorkerOK, LoggingIn, QueueOK, MapOK, Current,
      Packet0, Idle, NoUid
<1>5. QueueOK' /\ CallersOK'
  BY DEF IInv, TypeOK, SessionOK, QueueOK, CallersOK, MapOK, Nobody, NoUid
<1>6. OpenIsMapped'
  BY DEF IInv, TypeOK, SessionOK, WorkerOK, LoggingIn, MapOK, OpenIsMapped, Current,
      Packet0, NoUid
<1> QED
  BY <1>1, <1>2, <1>3, <1>4, <1>5, <1>6 DEF IInv

LEMMA CheckTokenStep ==
  ASSUME IInv, CheckToken
  PROVE IInv'
<1> USE SessionsAssumption DEF CheckToken, Await, Proceed, Close, server, close,
    identity, redis
<1>1. TypeOK'
  <2>1. closed' \in [Sessions -> BOOLEAN]
    BY DEF IInv, TypeOK
  <2>2. clear' \in [Sessions -> {"no", "due", "removing", "done"}]
    BY DEF IInv, TypeOK
  <2>3. wpc' \in WPC
    BY DEF IInv, TypeOK, WPC
  <2>4. cur' \in (Sessions \X Packet) \cup {Idle}
    BY DEF IInv, TypeOK
  <2> QED
    BY <2>1, <2>2, <2>3, <2>4 DEF IInv, TypeOK
<1>2. \A s \in Sessions : SessionOK(s)'
  BY DEF IInv, TypeOK, SessionOK, WorkerOK, LoggingIn, CallersOK, QueueOK, MapOK,
      Current, Packet0, NoUid
<1>3. \A u \in Uids : MapOK(u)'
  BY DEF IInv, TypeOK, SessionOK, WorkerOK, LoggingIn, MapOK, Current, Packet0, NoUid
<1>4. WorkerOK'
  BY DEF IInv, TypeOK, SessionOK, WorkerOK, LoggingIn, QueueOK, MapOK, Current,
      Packet0, Idle, NoUid
<1>5. QueueOK' /\ CallersOK'
  BY DEF IInv, TypeOK, SessionOK, QueueOK, CallersOK, MapOK, Nobody, NoUid
<1>6. OpenIsMapped'
  BY DEF IInv, TypeOK, SessionOK, WorkerOK, LoggingIn, MapOK, OpenIsMapped, Current,
      Packet0, NoUid
<1> QED
  BY <1>1, <1>2, <1>3, <1>4, <1>5, <1>6 DEF IInv

LEMMA CallbackStep ==
  ASSUME IInv, Callback
  PROVE IInv'
<1> USE SessionsAssumption DEF Callback, Await, Close, DeleteIfEqual, server, close,
    identity
<1>1. TypeOK'
  <2>1. closed' \in [Sessions -> BOOLEAN]
    BY DEF IInv, TypeOK
  <2>2. clear' \in [Sessions -> {"no", "due", "removing", "done"}]
    BY DEF IInv, TypeOK
  <2>3. wpc' \in WPC
    BY DEF IInv, TypeOK, WPC
  <2>4. cur' \in (Sessions \X Packet) \cup {Idle}
    BY DEF IInv, TypeOK
  <2>5. token' \in [Uids -> Token \cup {NoToken}]
    BY DEF IInv, TypeOK, NoToken
  <2>6. digest[Current] \in Token
    BY DEF IInv, TypeOK, SessionOK, WorkerOK, LoggingIn, Current, NoUid
  <2>7. loggedOut' \subseteq Token
    BY <2>6 DEF IInv, TypeOK
  <2> QED
    BY <2>1, <2>2, <2>3, <2>4, <2>5, <2>6, <2>7 DEF IInv, TypeOK
<1>2. \A s \in Sessions : SessionOK(s)'
  BY DEF IInv, TypeOK, SessionOK, WorkerOK, LoggingIn, CallersOK, QueueOK, MapOK,
      Current, Packet0, NoUid
<1>3. \A u \in Uids : MapOK(u)'
  BY DEF IInv, TypeOK, SessionOK, WorkerOK, LoggingIn, MapOK, Current, Packet0, NoUid
<1>4. WorkerOK'
  BY DEF IInv, TypeOK, SessionOK, WorkerOK, LoggingIn, QueueOK, MapOK, Current,
      Packet0, Idle, NoUid
<1>5. QueueOK' /\ CallersOK'
  BY DEF IInv, TypeOK, SessionOK, QueueOK, CallersOK, MapOK, Nobody, NoUid
<1>6. OpenIsMapped'
  BY DEF IInv, TypeOK, SessionOK, WorkerOK, LoggingIn, MapOK, OpenIsMapped, Current,
      Packet0, NoUid
<1> QED
  BY <1>1, <1>2, <1>3, <1>4, <1>5, <1>6 DEF IInv

LEMMA ExceptionStep ==
  ASSUME IInv, Exception
  PROVE IInv'
<1> USE SessionsAssumption DEF Exception, Await, Close, server, identity, redis
<1>1. TypeOK'
  BY DEF IInv, TypeOK, WPC, WorkerOK, LoggingIn, Current, Packet0, Idle, Nobody, NoUid,
      NoToken, MapOK
<1>2. \A s \in Sessions : SessionOK(s)'
  BY DEF IInv, TypeOK, SessionOK, WorkerOK, LoggingIn, CallersOK, QueueOK, MapOK,
      Current, Packet0, NoUid
<1>3. \A u \in Uids : MapOK(u)'
  BY DEF IInv, TypeOK, SessionOK, WorkerOK, LoggingIn, MapOK, Current, Packet0, NoUid
<1>4. WorkerOK'
  BY DEF IInv, TypeOK, SessionOK, WorkerOK, LoggingIn, QueueOK, MapOK, Current,
      Packet0, Idle, NoUid
<1>5. QueueOK' /\ CallersOK'
  BY DEF IInv, TypeOK, SessionOK, QueueOK, CallersOK, MapOK, Nobody, NoUid
<1>6. OpenIsMapped'
  BY DEF IInv, TypeOK, SessionOK, WorkerOK, LoggingIn, MapOK, OpenIsMapped, Current,
      Packet0, NoUid
<1> QED
  BY <1>1, <1>2, <1>3, <1>4, <1>5, <1>6 DEF IInv

LEMMA FindSessionStep ==
  ASSUME IInv, NEW c \in Callers, NEW v \in Uids, FindSession(c, v)
  PROVE IInv'
<1> USE SessionsAssumption DEF FindSession, server, close, identity, redis, worker
<1>1. TypeOK'
  BY DEF IInv, TypeOK, WPC, WorkerOK, LoggingIn, Current, Packet0, Idle, Nobody, NoUid,
      NoToken, MapOK
<1>2. \A s \in Sessions : SessionOK(s)'
  BY DEF IInv, TypeOK, SessionOK, WorkerOK, LoggingIn, CallersOK, QueueOK, MapOK,
      Current, Packet0, NoUid
<1>3. \A u \in Uids : MapOK(u)'
  BY DEF IInv, TypeOK, SessionOK, WorkerOK, LoggingIn, MapOK, Current, Packet0, NoUid
<1>4. WorkerOK'
  BY DEF IInv, TypeOK, SessionOK, WorkerOK, LoggingIn, QueueOK, MapOK, Current,
      Packet0, Idle, NoUid
<1>5. QueueOK' /\ CallersOK'
  BY DEF IInv, TypeOK, SessionOK, QueueOK, CallersOK, MapOK, Nobody, NoUid
<1>6. OpenIsMapped'
  BY DEF IInv, TypeOK, SessionOK, WorkerOK, LoggingIn, MapOK, OpenIsMapped, Current,
      Packet0, NoUid
<1> QED
  BY <1>1, <1>2, <1>3, <1>4, <1>5, <1>6 DEF IInv

LEMMA UseSessionStep ==
  ASSUME IInv, NEW c \in Callers, UseSession(c)
  PROVE IInv'
<1> USE SessionsAssumption DEF UseSession, Close, server, close, identity, redis, worker
<1>1. TypeOK'
  <2>1. closed' \in [Sessions -> BOOLEAN]
    BY DEF IInv, TypeOK
  <2>2. clear' \in [Sessions -> {"no", "due", "removing", "done"}]
    BY DEF IInv, TypeOK
  <2>3. found' \in [Callers -> (Uids \X Sessions) \cup {Nobody}]
    BY DEF IInv, TypeOK
  <2> QED
    BY <2>1, <2>2, <2>3 DEF IInv, TypeOK
<1>2. \A s \in Sessions : SessionOK(s)'
  BY DEF IInv, TypeOK, SessionOK, WorkerOK, LoggingIn, CallersOK, QueueOK, MapOK,
      Current, Packet0, NoUid
<1>3. \A u \in Uids : MapOK(u)'
  BY DEF IInv, TypeOK, SessionOK, WorkerOK, LoggingIn, MapOK, Current, Packet0, NoUid
<1>4. WorkerOK'
  BY DEF IInv, TypeOK, SessionOK, WorkerOK, LoggingIn, QueueOK, MapOK, Current,
      Packet0, Idle, NoUid
<1>5. QueueOK' /\ CallersOK'
  BY DEF IInv, TypeOK, SessionOK, QueueOK, CallersOK, MapOK, Nobody, NoUid
<1>6. OpenIsMapped'
  BY DEF IInv, TypeOK, SessionOK, WorkerOK, LoggingIn, MapOK, OpenIsMapped, Current,
      Packet0, NoUid
<1> QED
  BY <1>1, <1>2, <1>3, <1>4, <1>5, <1>6 DEF IInv

LEMMA IssueStep ==
  ASSUME IInv, NEW v \in Uids, Issue(v)
  PROVE IInv'
<1> USE SessionsAssumption DEF Issue, server, close, identity, worker
<1>1. TypeOK'
  BY DEF IInv, TypeOK, WPC, WorkerOK, LoggingIn, Current, Packet0, Idle, Nobody, NoUid,
      NoToken, MapOK
<1>2. \A s \in Sessions : SessionOK(s)'
  BY DEF IInv, TypeOK, SessionOK, WorkerOK, LoggingIn, CallersOK, QueueOK, MapOK,
      Current, Packet0, NoUid
<1>3. \A u \in Uids : MapOK(u)'
  BY DEF IInv, TypeOK, SessionOK, WorkerOK, LoggingIn, MapOK, Current, Packet0, NoUid
<1>4. WorkerOK'
  BY DEF IInv, TypeOK, SessionOK, WorkerOK, LoggingIn, QueueOK, MapOK, Current,
      Packet0, Idle, NoUid
<1>5. QueueOK' /\ CallersOK'
  BY DEF IInv, TypeOK, SessionOK, QueueOK, CallersOK, MapOK, Nobody, NoUid
<1>6. OpenIsMapped'
  BY DEF IInv, TypeOK, SessionOK, WorkerOK, LoggingIn, MapOK, OpenIsMapped, Current,
      Packet0, NoUid
<1> QED
  BY <1>1, <1>2, <1>3, <1>4, <1>5, <1>6 DEF IInv

LEMMA LapseStep ==
  ASSUME IInv, NEW v \in Uids, Lapse(v)
  PROVE IInv'
<1> USE SessionsAssumption DEF Lapse, server, close, identity, worker
<1>1. TypeOK'
  BY DEF IInv, TypeOK, WPC, WorkerOK, LoggingIn, Current, Packet0, Idle, Nobody, NoUid,
      NoToken, MapOK
<1>2. \A s \in Sessions : SessionOK(s)'
  BY DEF IInv, TypeOK, SessionOK, WorkerOK, LoggingIn, CallersOK, QueueOK, MapOK,
      Current, Packet0, NoUid
<1>3. \A u \in Uids : MapOK(u)'
  BY DEF IInv, TypeOK, SessionOK, WorkerOK, LoggingIn, MapOK, Current, Packet0, NoUid
<1>4. WorkerOK'
  BY DEF IInv, TypeOK, SessionOK, WorkerOK, LoggingIn, QueueOK, MapOK, Current,
      Packet0, Idle, NoUid
<1>5. QueueOK' /\ CallersOK'
  BY DEF IInv, TypeOK, SessionOK, QueueOK, CallersOK, MapOK, Nobody, NoUid
<1>6. OpenIsMapped'
  BY DEF IInv, TypeOK, SessionOK, WorkerOK, LoggingIn, MapOK, OpenIsMapped, Current,
      Packet0, NoUid
<1> QED
  BY <1>1, <1>2, <1>3, <1>4, <1>5, <1>6 DEF IInv

LEMMA StutterStep == IInv /\ UNCHANGED vars => IInv'
<1> SUFFICES ASSUME IInv, UNCHANGED vars PROVE IInv'
  OBVIOUS
<1> USE DEF vars, server, close, identity, redis, worker
<1>1. TypeOK'
  BY DEF IInv, TypeOK
<1>2. (\A s \in Sessions : SessionOK(s)') /\ \A u \in Uids : MapOK(u)'
  BY DEF IInv, SessionOK, MapOK
<1>3. WorkerOK' /\ QueueOK' /\ CallersOK' /\ OpenIsMapped'
  BY DEF IInv, WorkerOK, LoggingIn, QueueOK, CallersOK, OpenIsMapped, Current, Packet0
<1> QED
  BY <1>1, <1>2, <1>3 DEF IInv

LEMMA StepHolds == IInv /\ [Next]_vars => IInv'
<1> SUFFICES ASSUME IInv, [Next]_vars PROVE IInv'
  OBVIOUS
<1>1. CASE \E s \in Sessions : \/ Accept(s) \/ Strand(s) \/ Disconnect(s)
                               \/ \E p \in Packet : Receive(s, p)
  BY <1>1, AcceptStep, StartStep, LoginDeadlineStep, ClearBeginStep, ClearEndStep,
     DisconnectStep, ReceiveStep DEF Strand
<1>2. CASE Work \/ Exception
  BY <1>2, TakeStep, LoginTokenStep, IdentifyStep, SetUserSessionStep, ReplaceStep,
     CheckTokenStep, CallbackStep, ExceptionStep DEF Work
<1>3. CASE \E c \in Callers : UseSession(c) \/ \E u \in Uids : FindSession(c, u)
  BY <1>3, FindSessionStep, UseSessionStep
<1>4. CASE \E u \in Uids : Issue(u) \/ Lapse(u)
  BY <1>4, IssueStep, LapseStep
<1>5. CASE UNCHANGED vars
  BY <1>5, StutterStep
<1> QED
  BY <1>1, <1>2, <1>3, <1>4, <1>5 DEF Next

\* The inductive invariant: an open session that a login has finished with is in
\* the map, and a mapped one is listed, open or about to be cleaned up.
THEOREM Invariance == Spec => []IInv
<1> QED
  BY InitHolds, StepHolds, PTL DEF Spec

(***************************************************************************)
(* The theorems.                                                           *)
(***************************************************************************)
\* Every variable of the connection and login protocol keeps its type.
THEOREM TypeCorrect == Spec => []TypeOK
<1>1. IInv => TypeOK
  BY DEF IInv
<1> QED
  BY <1>1, Invariance, PTL

\* A connection whose ClearSession has ended is neither in the session table nor
\* anybody's current session: SetUserSession looks at _b_close under the map
\* lock, so a close either prevents the installation or cleans up after it.
THEOREM NoZombies == Spec => []NoZombie
<1>1. IInv => NoZombie
  BY SessionsAssumption DEF IInv, TypeOK, SessionOK, MapOK, NoZombie
<1> QED
  BY <1>1, Invariance, PTL

\* Between two handlers of the logic worker, every session that has logged in is
\* its user's current one or closed.
THEOREM OneOpenSession == Spec => []SupersededIsClosed
<1>1. IInv => SupersededIsClosed
  BY DEF IInv, OpenIsMapped, SupersededIsClosed
<1> QED
  BY <1>1, Invariance, PTL

\* The map changes in two places only.
LEMMA MapChanges ==
  ASSUME IInv, [Next]_vars
  PROVE  \/ SetUserSession
         \/ \E s \in Sessions : ClearEnd(s)
         \/ UNCHANGED uid_map
BY DEF Next, vars, Accept, Strand, Start, LoginDeadline, ClearBegin, Disconnect, Receive,
   Work, Exception, Take, LoginToken, Identify, Replace, CheckToken, Callback,
   UseSession, FindSession, Issue, Lapse

\* No clean-up of an old connection takes a user's open session out of the map.
THEOREM Successors == Spec => SuccessorSurvives
<1>1. ASSUME IInv, [Next]_vars
      PROVE  \A u \in Uids : uid_map'[u] = NoSession /\ uid_map[u] # NoSession
               => closed[uid_map[u]]
  <2>1. CASE SetUserSession
    BY <1>1, <2>1, SessionsAssumption DEF SetUserSession, IInv, TypeOK, WorkerOK,
        LoggingIn, Current
  <2>2. CASE \E s \in Sessions : ClearEnd(s)
    BY <1>1, <2>2 DEF ClearEnd, RmvUserSession, IInv, TypeOK, SessionOK
  <2>3. CASE UNCHANGED uid_map
    BY <2>3
  <2> QED
    BY <1>1, <2>1, <2>2, <2>3, MapChanges
<1> QED
  BY <1>1, Invariance, PTL DEF Spec, SuccessorSurvives

\* Redis tokens change in four places only.
LEMMA TokenChanges ==
  ASSUME IInv, [Next]_vars
  PROVE  \/ Callback
         \/ \E u \in Uids : Issue(u) \/ Lapse(u)
         \/ UNCHANGED token
BY DEF Next, vars, redis, Accept, Strand, Start, LoginDeadline, ClearBegin, ClearEnd,
   Disconnect, Receive, Work, Exception, Take, LoginToken, Identify, SetUserSession,
   Replace, CheckToken, UseSession, FindSession

\* DeleteIfEqual spares the token of a login that is newer than the session that
\* logs out.
THEOREM OthersLogoutSpares == Spec => OnlyOwnLogout
<1>1. ASSUME IInv, [Next]_vars
      PROVE  \A u \in Uids : token'[u] = NoToken /\ token[u] # NoToken
               => token[u] \in lapsed' \cup loggedOut'
  <2>1. CASE Callback
    BY <1>1, <2>1 DEF Callback, DeleteIfEqual, IInv, TypeOK
  <2>2. CASE \E u \in Uids : Issue(u) \/ Lapse(u)
    BY <1>1, <2>2 DEF Issue, Lapse, IInv, TypeOK, Token, NoToken
  <2>3. CASE UNCHANGED token
    BY <2>3
  <2> QED
    BY <1>1, <2>1, <2>2, <2>3, TokenChanges
<1> QED
  BY <1>1, Invariance, PTL DEF Spec, OnlyOwnLogout

(***************************************************************************)
(* A queued logout.                                                        *)
(***************************************************************************)
LogoutOf(s) == <<s, Plain("logout")>>

\* A packet stays where it is in the queue, moves up by one, or is taken.
LEMMA QueueChanges ==
  ASSUME IInv, [Next]_vars, NEW s \in Sessions, NEW i \in DOMAIN queue,
         queue[i] = LogoutOf(s)
  PROVE  \/ \E j \in DOMAIN queue' : queue'[j] = LogoutOf(s)
         \/ Take /\ Head(queue) = LogoutOf(s)
<1>1. CASE UNCHANGED queue
  BY <1>1
<1>2. CASE Take
  <2>1. queue \in Seq(Sessions \X Packet) /\ queue # <<>> /\ queue' = Tail(queue)
    BY <1>2 DEF Take, IInv, TypeOK
  <2>2. CASE i = 1
    BY <1>2, <2>1, <2>2
  <2>3. CASE i # 1
    <3>1. i - 1 \in DOMAIN queue' /\ queue'[i - 1] = queue[i]
      BY <2>1, <2>3
    <3> QED
      BY <3>1
  <2> QED
    BY <2>2, <2>3
<1>3. CASE \E r \in Sessions, p \in Packet : Receive(r, p)
  <2>1. PICK r \in Sessions, p \in Packet : queue' = queue \/ queue' = Append(queue, <<r, p>>)
    BY <1>3 DEF Receive
  <2>2. queue \in Seq(Sessions \X Packet)
    BY DEF IInv, TypeOK
  <2>3. i \in DOMAIN queue' /\ queue'[i] = queue[i]
    BY <2>1, <2>2
  <2> QED
    BY <2>3
<1> QED
  BY <1>1, <1>2, <1>3 DEF Next, vars, Accept, Strand, Start, LoginDeadline, ClearBegin,
     ClearEnd, Disconnect, Work, Exception, LoginToken, Identify, SetUserSession,
     Replace, CheckToken, Callback, UseSession, FindSession, Issue, Lapse

\* The worker has a logout until its session's token is not the user's current one.
LEMMA WorkerKeeps ==
  ASSUME IInv, [Next]_vars, NEW s \in Sessions, NEW u \in Uids, user_id[s] = u,
         cur = LogoutOf(s), cur' # LogoutOf(s)
  PROVE  token'[u] # digest[s] \/ faults' > faults
<1>1. wpc # "idle" /\ wpc \notin LoggingIn /\ Current = s /\ Packet0.kind = "logout"
      /\ digest[s] \in Token
  <2>1. Packet0 = Plain("logout") /\ Current = s /\ Packet0.kind = "logout"
    BY DEF LogoutOf, Packet0, Current, Plain
  <2>2. s # NoSession
    BY SessionsAssumption
  <2>3. wpc # "idle"
    BY <2>2, <2>1 DEF IInv, WorkerOK, Idle, Current
  <2>4. digest[s] \in Token
    BY SessionsAssumption DEF IInv, SessionOK, NoUid
  <2> QED
    BY <2>1, <2>3, <2>4 DEF IInv, WorkerOK
<1>2. CheckToken \/ Callback \/ Exception
  BY <1>1 DEF Next, vars, worker, Accept, Strand, Start, LoginDeadline, ClearBegin,
     ClearEnd, Disconnect, Receive, Work, Take, LoginToken, Identify, SetUserSession,
     Replace, UseSession, FindSession, Issue, Lapse, LoggingIn, Proceed
<1>3. CASE CheckToken
  BY <1>1, <1>3 DEF CheckToken, Proceed, redis
<1>4. CASE Callback
  BY <1>1, <1>4 DEF Callback, DeleteIfEqual, IInv, TypeOK, Token, NoToken
<1>5. CASE Exception
  BY <1>5 DEF Exception, IInv, TypeOK
<1> QED
  BY <1>2, <1>3, <1>4, <1>5

\* A logout that a logged-in session has sent is carried out although the
\* connection may be closed before the worker takes it.
THEOREM LogoutsRevoke == Spec => LogoutRevokes
<1>1. ASSUME IInv, [Next]_vars
      PROVE  \A s \in Sessions, u \in Uids :
               user_id[s] = u /\ LogoutUnderway(s) /\ ~LogoutUnderway(s)'
                 => token'[u] # digest[s] \/ faults' > faults
  <2> SUFFICES ASSUME NEW s \in Sessions, NEW u \in Uids, user_id[s] = u,
                      LogoutUnderway(s), ~LogoutUnderway(s)'
               PROVE  token'[u] # digest[s] \/ faults' > faults
    OBVIOUS
  <2>1. cur' # LogoutOf(s) /\ ~\E j \in DOMAIN queue' : queue'[j] = LogoutOf(s)
    BY DEF LogoutUnderway, LogoutOf
  <2>2. CASE cur = LogoutOf(s)
    BY <1>1, <2>1, <2>2, WorkerKeeps
  <2>3. CASE cur # LogoutOf(s)
    <3>1. PICK i \in DOMAIN queue : queue[i] = LogoutOf(s)
      BY <2>3 DEF LogoutUnderway, LogoutOf
    <3>2. Take /\ Head(queue) = LogoutOf(s)
      BY <1>1, <2>1, <3>1, QueueChanges
    <3>3. Head(queue)[1] = s /\ Head(queue)[2].kind = "logout" /\ user_id[s] # NoUid
      BY <3>2, SessionsAssumption DEF LogoutOf, Plain, NoUid
    <3>4. cur' = LogoutOf(s)
      BY <3>2, <3>3 DEF Take
    <3> QED
      BY <2>1, <3>4
  <2> QED
    BY <2>2, <2>3
<1> QED
  BY <1>1, Invariance, PTL DEF Spec, LogoutRevokes

(***************************************************************************)
(* Connection, which looks at the same sessions from below.                *)
(***************************************************************************)
CallStep == {"count", "over", "dispatch", "refuse"}

Calls == [s : Conns, p : Packets, step : CallStep]

ConnTypes ==
  /\ b_close \in [Conns -> BOOLEAN]
  /\ tasks \in [Conns -> Seq(Packets \cup {Closing})]
  /\ scheduled \in [Conns -> Int]
  /\ que \in [Conns -> Seq(Packets)]
  /\ flight \in [Conns -> {"none", "writing", "written", "failed"}]
  /\ wire \in [Conns -> Seq(Packets)] /\ posted \in [Conns -> Seq(Packets)]
  /\ call \in [Threads -> Calls \cup {NoCall}]

\* What is queued and was not yet taken by the socket.
Rest(s) == IF flight[s] = "written" THEN Tail(que[s]) ELSE que[s]

\* The stronger form of InOrder: also of the packet that is being written, since the
\* socket of a session that was closed elsewhere may still take it.
OrderOK(s) ==
  /\ IsPrefix(wire[s], posted[s])
  /\ flight[s] = "writing" => IsPrefix(Append(wire[s], Head(que[s])), posted[s])
  /\ flight[s] # "none" => que[s] # <<>>
  /\ ~b_close[s] => /\ tasks[s] \in Seq(Packets)
                    /\ wire[s] \o Rest(s) \o tasks[s] = posted[s]
                    /\ que[s] # <<>> => flight[s] # "none"

Places(t) == {i \in DOMAIN t : t[i] \in Packets}
Dispatching(s) == {t \in Threads : In(t, s, "dispatch")}

\* A thread that was let through has its place below the limit until it dispatches.
LimitsOK(s) ==
  /\ IsFiniteSet(Counting(s))
  /\ scheduled[s] = Cardinality(Places(tasks[s])) + Cardinality(Counting(s))
  /\ Cardinality(Places(tasks[s])) + Cardinality(Dispatching(s)) <= MaxSend
  /\ Len(que[s]) <= MaxSend

ConnInv == ConnTypes /\ \A s \in Conns : OrderOK(s) /\ LimitsOK(s)

(***************************************************************************)
(* Sequences: what is on the wire, queued and posted to the strand.        *)
(***************************************************************************)
LEMMA PrefixGrows ==
  ASSUME NEW S, NEW w \in Seq(S), NEW p \in Seq(S), NEW e \in S, IsPrefix(w, p)
  PROVE  IsPrefix(w, Append(p, e))
<1>1. Len(w) <= Len(p) /\ Len(Append(p, e)) = Len(p) + 1
  BY DEF IsPrefix
<1>2. \A i \in 1 .. Len(w) : SubSeq(Append(p, e), 1, Len(w))[i] = SubSeq(p, 1, Len(w))[i]
  BY <1>1
<1>3. SubSeq(Append(p, e), 1, Len(w)) = SubSeq(p, 1, Len(w))
  BY <1>1, <1>2
<1> QED
  BY <1>1, <1>3 DEF IsPrefix

LEMMA ConcatPrefix ==
  ASSUME NEW S, NEW w \in Seq(S), NEW q \in Seq(S)
  PROVE  /\ IsPrefix(w, w \o q)
         /\ q # <<>> => IsPrefix(Append(w, Head(q)), w \o q)
<1>1. IsPrefix(w, w \o q)
  <2>1. Len(w \o q) = Len(w) + Len(q) /\ Len(w) \in Nat /\ Len(q) \in Nat
    OBVIOUS
  <2>2. \A i \in 1 .. Len(w) : SubSeq(w \o q, 1, Len(w))[i] = SubSeq(w, 1, Len(w))[i]
    BY <2>1
  <2>3. SubSeq(w \o q, 1, Len(w)) = SubSeq(w, 1, Len(w))
    BY <2>1, <2>2
  <2> QED
    BY <2>1, <2>3 DEF IsPrefix
<1>2. ASSUME q # <<>> PROVE IsPrefix(Append(w, Head(q)), w \o q)
  <2> DEFINE v == Append(w, Head(q))
  <2>1. /\ Len(w \o q) = Len(w) + Len(q) /\ Len(w) \in Nat /\ Len(q) \in Nat \ {0}
        /\ v \in Seq(S) /\ Len(v) = Len(w) + 1 /\ w \o q \in Seq(S)
    BY <1>2
  <2>2. \A i \in 1 .. Len(v) : SubSeq(w \o q, 1, Len(v))[i] = SubSeq(v, 1, Len(v))[i]
    BY <1>2, <2>1
  <2>3. SubSeq(w \o q, 1, Len(v)) = SubSeq(v, 1, Len(v))
    BY <2>1, <2>2
  <2> QED
    BY <2>1, <2>3 DEF IsPrefix
<1> QED
  BY <1>1, <1>2

LEMMA Associate ==
  ASSUME NEW S, NEW a \in Seq(S), NEW b \in Seq(S), NEW c \in Seq(S)
  PROVE  (a \o b) \o c = a \o (b \o c)
<1> DEFINE x == (a \o b) \o c
           y == a \o (b \o c)
<1>1. x \in Seq(S) /\ y \in Seq(S) /\ Len(x) = Len(y)
  OBVIOUS
<1>2. \A i \in 1 .. Len(x) : x[i] = y[i]
  OBVIOUS
<1> HIDE DEF x, y
<1> QED
  BY <1>1, <1>2

\* The front of a sequence changes sides, and its end.
LEMMA HeadMoves ==
  ASSUME NEW S, NEW a \in Seq(S), NEW b \in Seq(S), b # <<>>
  PROVE  Append(a, Head(b)) \o Tail(b) = a \o b
<1> DEFINE x == Append(a, Head(b)) \o Tail(b)
           y == a \o b
<1>1. x \in Seq(S) /\ y \in Seq(S) /\ Len(x) = Len(y)
  OBVIOUS
<1>2. \A i \in 1 .. Len(x) : x[i] = y[i]
  OBVIOUS
<1> QED
  BY <1>1, <1>2

LEMMA EndMoves ==
  ASSUME NEW S, NEW a \in Seq(S), NEW b \in Seq(S), NEW e \in S
  PROVE  a \o Append(b, e) = Append(a \o b, e)
<1> DEFINE x == a \o Append(b, e)
           y == Append(a \o b, e)
<1>1. x \in Seq(S) /\ y \in Seq(S) /\ Len(x) = Len(y)
  OBVIOUS
<1>2. \A i \in 1 .. Len(x) : x[i] = y[i]
  OBVIOUS
<1> QED
  BY <1>1, <1>2

LEMMA TailOfAppend ==
  ASSUME NEW S, NEW q \in Seq(S), NEW e \in S, q # <<>>
  PROVE  Tail(Append(q, e)) = Append(Tail(q), e)
<1> DEFINE x == Tail(Append(q, e))
           y == Append(Tail(q), e)
<1>1. x \in Seq(S) /\ y \in Seq(S) /\ Len(x) = Len(y)
  OBVIOUS
<1>2. \A i \in 1 .. Len(x) : x[i] = y[i]
  OBVIOUS
<1> QED
  BY <1>1, <1>2

(***************************************************************************)
(* How many packets wait for the strand.                                   *)
(***************************************************************************)
\* Connection has its own copy of FiniteSets.
LEMMA SameCardinality ==
  ASSUME NEW S
  PROVE  Cardinality(S) = Cardinality(S)
BY DEF Cardinality, Cardinality

LEMMA PlacesFinite ==
  ASSUME NEW S, NEW t \in Seq(S)
  PROVE  IsFiniteSet(Places(t)) /\ Cardinality(Places(t)) \in Nat
<1>1. Places(t) \subseteq 1 .. Len(t) /\ IsFiniteSet(1 .. Len(t))
  BY FS_Interval DEF Places
<1> QED
  BY <1>1, FS_Subset, FS_CardinalityType

LEMMA PlacesAppend ==
  ASSUME NEW S, NEW t \in Seq(S), NEW e \in S
  PROVE  Cardinality(Places(Append(t, e))) =
           Cardinality(Places(t)) + (IF e \in Packets THEN 1 ELSE 0)
<1>1. \A i \in 1 .. Len(t) : Append(t, e)[i] = t[i]
  OBVIOUS
<1>2. Append(t, e)[Len(t) + 1] = e /\ DOMAIN Append(t, e) = 1 .. (Len(t) + 1)
  OBVIOUS
<1>3. Len(t) + 1 \notin Places(t)
  BY DEF Places
<1>4. CASE e \in Packets
  <2>1. Places(Append(t, e)) = Places(t) \cup {Len(t) + 1}
    BY <1>1, <1>2, <1>4 DEF Places
  <2> QED
    BY <1>3, <1>4, <2>1, PlacesFinite, FS_AddElement
<1>5. CASE e \notin Packets
  <2>1. Places(Append(t, e)) = Places(t)
    BY <1>1, <1>2, <1>5 DEF Places
  <2> QED
    BY <1>5, <2>1, PlacesFinite
<1> QED
  BY <1>4, <1>5

LEMMA PlacesTail ==
  ASSUME NEW S, NEW t \in Seq(S), t # <<>>
  PROVE  Cardinality(Places(t)) =
           Cardinality(Places(Tail(t))) + (IF Head(t) \in Packets THEN 1 ELSE 0)
<1> DEFINE f == [i \in Places(Tail(t)) |-> i + 1]
           rest == Places(t) \ {1}
<1>1. /\ Tail(t) \in Seq(S) /\ Len(t) \in Nat \ {0} /\ Len(Tail(t)) = Len(t) - 1
      /\ \A i \in 1 .. Len(Tail(t)) : Tail(t)[i] = t[i + 1]
  OBVIOUS
<1>2. f \in Bijection(Places(Tail(t)), rest)
  <2>1. \A i \in Places(Tail(t)) : i + 1 \in rest
    BY <1>1 DEF Places
  <2>2. \A j \in rest : \E i \in Places(Tail(t)) : f[i] = j
    <3> SUFFICES ASSUME NEW j \in rest
                 PROVE  \E i \in Places(Tail(t)) : f[i] = j
      OBVIOUS
    <3>1. j - 1 \in Places(Tail(t)) /\ (j - 1) + 1 = j
      BY <1>1 DEF Places
    <3> QED
      BY <3>1
  <2>3. \A i, j \in Places(Tail(t)) : f[i] = f[j] => i = j
    BY DEF Places
  <2> QED
    BY <2>1, <2>2, <2>3 DEF Bijection, Injection, Surjection, IsInjective
<1>3. IsFiniteSet(Places(Tail(t))) /\ IsFiniteSet(Places(t))
  BY <1>1, PlacesFinite
<1>4. IsFiniteSet(rest) /\ Cardinality(rest) = Cardinality(Places(Tail(t)))
  BY <1>2, <1>3, FS_Bijection DEF ExistsBijection
<1>5. 1 \in Places(t) <=> Head(t) \in Packets
  BY <1>1 DEF Places
<1>6. CASE Head(t) \in Packets
  <2>1. Cardinality(rest) = Cardinality(Places(t)) - 1
    BY <1>3, <1>5, <1>6, FS_RemoveElement
  <2> QED
    BY <1>3, <1>4, <1>6, <2>1, FS_CardinalityType
<1>7. CASE Head(t) \notin Packets
  BY <1>3, <1>4, <1>5, <1>7, FS_CardinalityType, FS_RemoveElement
<1> QED
  BY <1>6, <1>7

(***************************************************************************)
(* Steps.                                                                  *)
(***************************************************************************)
\* A session that a step leaves alone, or only closes.
LEMMA ConnFrame ==
  ASSUME NEW s \in Conns, OrderOK(s), LimitsOK(s),
         ~b_close'[s] => ~b_close[s],
         tasks'[s] = tasks[s], scheduled'[s] = scheduled[s], que'[s] = que[s],
         flight'[s] = flight[s], wire'[s] = wire[s], posted'[s] = posted[s],
         Counting(s)' = Counting(s), Dispatching(s)' = Dispatching(s)
  PROVE  OrderOK(s)' /\ LimitsOK(s)'
<1>1. OrderOK(s)'
  BY DEF OrderOK, Rest
<1>2. LimitsOK(s)'
  BY DEF LimitsOK
<1> QED
  BY <1>1, <1>2

\* A thread that goes on to its next step of Send, or leaves it, counts for the
\* session it sends to only.
LEMMA CallMoves ==
  ASSUME ConnTypes, NEW t \in Threads, NEW c, call' = [call EXCEPT ![t] = c],
         NEW r \in Conns
  PROVE  /\ Counting(r)' = (Counting(r) \ {t}) \cup
              (IF c # NoCall /\ c.s = r /\ c.step \in {"dispatch", "over"}
                 THEN {t} ELSE {})
         /\ Dispatching(r)' = (Dispatching(r) \ {t}) \cup
              (IF c # NoCall /\ c.s = r /\ c.step = "dispatch" THEN {t} ELSE {})
<1>1. call'[t] = c /\ \A v \in Threads \ {t} : call'[v] = call[v]
  BY DEF ConnTypes
<1> QED
  BY <1>1 DEF Counting, Dispatching, In

LEMMA CallLeaves ==
  ASSUME ConnTypes, NEW t \in Threads, NEW c, call' = [call EXCEPT ![t] = c],
         c = NoCall \/ c.step \notin {"dispatch", "over"}, NEW r \in Conns
  PROVE  /\ Counting(r)' = Counting(r) \ {t}
         /\ Dispatching(r)' = Dispatching(r) \ {t}
<1>1. call'[t] = c /\ \A v \in Threads \ {t} : call'[v] = call[v]
  BY DEF ConnTypes
<1> QED
  BY <1>1 DEF Counting, Dispatching, In

\* Steps outside Send leave every count as it is.
LEMMA CallStays ==
  ASSUME call' = call, NEW r
  PROVE  Counting(r)' = Counting(r) /\ Dispatching(r)' = Dispatching(r)
BY DEF Counting, Dispatching, In

LEMMA StepMoves ==
  ASSUME ConnTypes,
         NEW t \in Threads, NEW s \in Conns, NEW from, In(t, s, from),
         NEW x \in CallStep, Step(t, x), NEW r \in Conns
  PROVE  /\ Counting(r)' = (Counting(r) \ {t}) \cup
              (IF r = s /\ x \in {"dispatch", "over"} THEN {t} ELSE {})
         /\ Dispatching(r)' = (Dispatching(r) \ {t}) \cup
              (IF r = s /\ x = "dispatch" THEN {t} ELSE {})
         /\ call' \in [Threads -> Calls \cup {NoCall}]
<1> DEFINE c == [call[t] EXCEPT !.step = x]
<1>1. call[t] \in Calls /\ call[t].s = s
  BY DEF ConnTypes, In
<1>2. c \in Calls /\ c.s = s /\ c.step = x
  BY <1>1 DEF Calls
<1>3. c # NoCall
  BY <1>2, ConnectionAssumption DEF Calls, CallStep
<1>4. call' = [call EXCEPT ![t] = c]
  BY <1>1 DEF Step, ConnTypes
<1> HIDE DEF c
<1>5. call' \in [Threads -> Calls \cup {NoCall}]
  BY <1>2, <1>4 DEF ConnTypes
<1>6. /\ Counting(r)' = (Counting(r) \ {t}) \cup
           (IF c # NoCall /\ c.s = r /\ c.step \in {"dispatch", "over"} THEN {t} ELSE {})
      /\ Dispatching(r)' = (Dispatching(r) \ {t}) \cup
           (IF c # NoCall /\ c.s = r /\ c.step = "dispatch" THEN {t} ELSE {})
  BY <1>4, CallMoves
<1> QED
  BY <1>2, <1>3, <1>5, <1>6

\* A thread that is not between the two steps of Send, and does not get there,
\* changes no count.
LEMMA CountsStay ==
  ASSUME NEW C, NEW D, NEW t, t \notin C, t \notin D
  PROVE  C \ {t} = C /\ D \ {t} = D
OBVIOUS

LEMMA SendStep ==
  ASSUME ConnInv, NEW t \in Threads, NEW s \in Conns,
         NEW p \in Packets, Send(t, s, p)
  PROVE  ConnInv'
<1> DEFINE c == [s |-> s, p |-> p, step |-> IF p \in Large THEN "refuse" ELSE "count"]
<1>1. /\ c \in Calls
      /\ c.s = s /\ c.step \notin {"dispatch", "over"}
  BY DEF Calls, CallStep
<1>2. call' = [call EXCEPT ![t] = c] /\ call[t] = NoCall
  BY DEF Send, NotSending
<1>3. UNCHANGED <<b_close, tasks, scheduled, que, flight, wire, posted>>
  BY DEF Send, socket, writing, reading
<1> HIDE DEF c
<1>4. ConnTypes'
  <2>1. call' \in [Threads -> Calls \cup {NoCall}]
    BY <1>1, <1>2 DEF ConnInv, ConnTypes
  <2> QED
    BY <1>3, <2>1 DEF ConnInv, ConnTypes
<1>5. ASSUME NEW r \in Conns PROVE OrderOK(r)' /\ LimitsOK(r)'
  <2>1. t \notin Counting(r) /\ t \notin Dispatching(r)
    BY <1>2 DEF Counting, Dispatching, In
  <2>2. /\ Counting(r)' = Counting(r) \ {t}
        /\ Dispatching(r)' = Dispatching(r) \ {t}
    BY <1>1, <1>2, CallLeaves DEF ConnInv
  <2>3. Counting(r)' = Counting(r) /\ Dispatching(r)' = Dispatching(r)
    BY <2>1, <2>2, CountsStay
  <2> QED
    BY <1>3, <2>3, ConnFrame DEF ConnInv
<1> QED
  BY <1>4, <1>5 DEF ConnInv

LEMMA CountStep ==
  ASSUME ConnInv, NEW t \in Threads, NEW s \in Conns,
         Count(t, s)
  PROVE  ConnInv'
<1> DEFINE x == IF scheduled[s] >= MaxSend THEN "over" ELSE "dispatch"
<1>1. x \in CallStep /\ Step(t, x) /\ In(t, s, "count")
  BY DEF CallStep, Count
<1>2. /\ scheduled' = [scheduled EXCEPT ![s] = @ + 1]
      /\ UNCHANGED <<b_close, tasks, que, flight, wire, posted>>
  BY DEF Count, socket, writing, reading
<1>3. x = "dispatch" <=> ~(scheduled[s] >= MaxSend)
  OBVIOUS
<1>4. x = "dispatch" \/ x = "over"
  OBVIOUS
<1> HIDE DEF x
<1>5. ConnTypes'
  <2>1. call' \in [Threads -> Calls \cup {NoCall}]
    BY <1>1, StepMoves DEF ConnInv
  <2> QED
    BY <1>2, <2>1 DEF ConnInv, ConnTypes
<1>6. ASSUME NEW r \in Conns
      PROVE  t \notin Counting(r) /\ t \notin Dispatching(r)
  BY <1>1 DEF Counting, Dispatching, In
<1>7. ASSUME NEW r \in Conns, r # s PROVE OrderOK(r)' /\ LimitsOK(r)'
  <2>1. /\ Counting(r)' = Counting(r) \ {t}
        /\ Dispatching(r)' = Dispatching(r) \ {t}
    BY <1>1, <1>7, StepMoves DEF ConnInv
  <2>2. Counting(r)' = Counting(r) /\ Dispatching(r)' = Dispatching(r)
    BY <1>6, <2>1, CountsStay
  <2> QED
    BY <1>2, <1>7, <2>2, ConnFrame DEF ConnInv, ConnTypes
<1>8. OrderOK(s)'
  BY <1>2 DEF ConnInv, OrderOK, Rest
<1>9. LimitsOK(s)'
  <2> DEFINE C == Counting(s)
             D == Dispatching(s)
             P == Cardinality(Places(tasks[s]))
  <2>1. /\ C' = (C \ {t}) \cup {t}
        /\ D' = (D \ {t}) \cup (IF x = "dispatch" THEN {t} ELSE {})
    BY <1>1, <1>4, StepMoves DEF ConnInv
  <2>2. D \subseteq C /\ IsFiniteSet(C) /\ LimitsOK(s)
    BY DEF ConnInv, Dispatching, Counting, LimitsOK
  <2>3. /\ IsFiniteSet(D) /\ Cardinality(D) <= Cardinality(C)
        /\ Cardinality(D) \in Nat /\ Cardinality(C) \in Nat
    BY <2>2, FS_Subset, FS_CardinalityType
  <2>4. P \in Nat
    BY PlacesFinite DEF ConnInv, ConnTypes
  <2>5. scheduled'[s] = scheduled[s] + 1 /\ P' = P /\ que'[s] = que[s]
    BY <1>2 DEF ConnInv, ConnTypes
  <2>6. t \notin C /\ t \notin D
    BY <1>6
  <2> HIDE DEF C, D, P
  <2>7. C' = C \cup {t} /\ D' = IF x = "dispatch" THEN D \cup {t} ELSE D
    BY <2>1, <2>6
  <2>8. IsFiniteSet(C') /\ Cardinality(C') = Cardinality(C) + 1
    BY <2>2, <2>6, <2>7, FS_AddElement
  <2>9. Cardinality(D') = Cardinality(D) + (IF x = "dispatch" THEN 1 ELSE 0)
    <3>1. CASE x = "dispatch"
      BY <2>3, <2>6, <2>7, <3>1, FS_AddElement
    <3>2. CASE x # "dispatch"
      BY <2>3, <2>7, <3>2
    <3> QED
      BY <3>1, <3>2
  <2>10. /\ scheduled[s] = P + Cardinality(C) /\ P + Cardinality(D) <= MaxSend
         /\ Len(que[s]) <= MaxSend /\ MaxSend \in Nat
    BY <2>2, ConnectionAssumption DEF LimitsOK, C, D, P
  <2>11. P' + Cardinality(D') <= MaxSend
    BY <1>3, <2>3, <2>4, <2>5, <2>9, <2>10
  <2>12. scheduled'[s] = P' + Cardinality(C')
    BY <2>3, <2>4, <2>5, <2>8, <2>10
  <2> QED
    BY <2>5, <2>8, <2>10, <2>11, <2>12 DEF LimitsOK, C, D, P
<1> QED
  BY <1>5, <1>7, <1>8, <1>9 DEF ConnInv

LEMMA OverStep ==
  ASSUME ConnInv, NEW t \in Threads, NEW s \in Conns,
         Over(t, s)
  PROVE  ConnInv'
<1>1. "refuse" \in CallStep /\ Step(t, "refuse") /\ In(t, s, "over")
  BY DEF CallStep, Over
<1>2. /\ scheduled' = [scheduled EXCEPT ![s] = @ - 1]
      /\ UNCHANGED <<b_close, tasks, que, flight, wire, posted>>
  BY DEF Over, socket, writing, reading
<1>3. ConnTypes'
  <2>1. call' \in [Threads -> Calls \cup {NoCall}]
    BY <1>1, StepMoves DEF ConnInv
  <2>2. scheduled' \in [Conns -> Int]
    BY <1>2 DEF ConnInv, ConnTypes
  <2> QED
    BY <1>2, <2>1, <2>2 DEF ConnInv, ConnTypes
<1>4. ASSUME NEW r \in Conns
      PROVE  /\ Counting(r)' = Counting(r) \ {t}
             /\ Dispatching(r)' = Dispatching(r)
  <2>1. /\ Counting(r)' = Counting(r) \ {t}
        /\ Dispatching(r)' = Dispatching(r) \ {t}
    BY <1>1, StepMoves DEF ConnInv
  <2>2. t \notin Dispatching(r)
    BY <1>1 DEF Dispatching, In
  <2> QED
    BY <2>1, <2>2
<1>5. ASSUME NEW r \in Conns, r # s PROVE OrderOK(r)' /\ LimitsOK(r)'
  <2>1. t \notin Counting(r)
    BY <1>1, <1>5 DEF Counting, In
  <2>2. Counting(r)' = Counting(r) /\ Dispatching(r)' = Dispatching(r)
    BY <1>4, <2>1
  <2> QED
    BY <1>2, <1>5, <2>2, ConnFrame DEF ConnInv, ConnTypes
<1>6. OrderOK(s)'
  BY <1>2 DEF ConnInv, OrderOK, Rest
<1>7. LimitsOK(s)'
  <2>1. t \in Counting(s) /\ IsFiniteSet(Counting(s)) /\ LimitsOK(s)
    BY <1>1 DEF Counting, ConnInv, LimitsOK
  <2>2. /\ IsFiniteSet(Counting(s)')
        /\ Cardinality(Counting(s)') = Cardinality(Counting(s)) - 1
    BY <1>4, <2>1, FS_RemoveElement
  <2>3. Cardinality(Places(tasks[s])) \in Nat /\ Cardinality(Counting(s)) \in Nat
    BY <2>1, PlacesFinite, FS_CardinalityType DEF ConnInv, ConnTypes
  <2>4. scheduled'[s] = scheduled[s] - 1 /\ tasks'[s] = tasks[s] /\ que'[s] = que[s]
    BY <1>2 DEF ConnInv, ConnTypes
  <2> QED
    BY <1>4, <2>1, <2>2, <2>3, <2>4 DEF LimitsOK
<1> QED
  BY <1>3, <1>5, <1>6, <1>7 DEF ConnInv

\* The handler of Close waits behind the packets and is none.
LEMMA CloseElsewhereKeeps ==
  ASSUME ConnInv, NEW s \in Conns,
         CloseElsewhere(s),
         UNCHANGED <<scheduled, que, flight, wire, posted>>,
         call' \in [Threads -> Calls \cup {NoCall}],
         \A r \in Conns : /\ Counting(r)' = Counting(r)
                          /\ Dispatching(r)' = Dispatching(r)
  PROVE  ConnInv'
<1>1. /\ b_close' = [b_close EXCEPT ![s] = TRUE]
      /\ tasks' = IF b_close[s] THEN tasks
                               ELSE [tasks EXCEPT ![s] = Append(@, Closing)]
  BY DEF CloseElsewhere
<1>2. ConnTypes'
  <2>1. tasks' \in [Conns -> Seq(Packets \cup {Closing})]
    <3>1. tasks \in [Conns -> Seq(Packets \cup {Closing})]
      BY DEF ConnInv, ConnTypes
    <3>2. Append(tasks[s], Closing) \in Seq(Packets \cup {Closing})
      BY <3>1
    <3> QED
      BY <1>1, <3>1, <3>2
  <2> QED
    BY <1>1, <2>1 DEF ConnInv, ConnTypes
<1>3. ASSUME NEW r \in Conns, r # s PROVE OrderOK(r)' /\ LimitsOK(r)'
  BY <1>1, <1>3, ConnFrame DEF ConnInv, ConnTypes
<1>4. OrderOK(s)'
  BY <1>1 DEF ConnInv, ConnTypes, OrderOK, Rest
<1>5. LimitsOK(s)'
  <2>1. Cardinality(Places(tasks'[s])) = Cardinality(Places(tasks[s]))
    <3>1. tasks[s] \in Seq(Packets \cup {Closing}) /\ Closing \notin Packets
      BY ConnectionAssumption DEF ConnInv, ConnTypes
    <3>2. Cardinality(Places(Append(tasks[s], Closing))) = Cardinality(Places(tasks[s])) + 0
      BY <3>1, PlacesAppend
    <3>3. Cardinality(Places(tasks[s])) \in Nat
      BY <3>1, PlacesFinite
    <3>4. tasks'[s] = tasks[s] \/ tasks'[s] = Append(tasks[s], Closing)
      BY <1>1 DEF ConnInv, ConnTypes
    <3>5. CASE tasks'[s] = tasks[s]
      BY <3>5
    <3>6. CASE tasks'[s] = Append(tasks[s], Closing)
      BY <3>2, <3>3, <3>6
    <3> QED
      BY <3>4, <3>5, <3>6
  <2> QED
    BY <2>1 DEF ConnInv, LimitsOK
<1> QED
  BY <1>2, <1>3, <1>4, <1>5 DEF ConnInv

LEMMA RefuseStep ==
  ASSUME ConnInv, NEW t \in Threads, NEW s \in Conns,
         Refuse(t, s)
  PROVE  ConnInv'
<1>1. /\ In(t, s, "refuse") /\ call' = [call EXCEPT ![t] = NoCall]
      /\ CloseElsewhere(s)
      /\ UNCHANGED <<scheduled, que, flight, wire, posted>>
  BY DEF Refuse, Leave, writing, reading
<1>2. call' \in [Threads -> Calls \cup {NoCall}]
  BY <1>1 DEF ConnInv, ConnTypes
<1>3. ASSUME NEW r \in Conns
      PROVE  Counting(r)' = Counting(r) /\ Dispatching(r)' = Dispatching(r)
  <2>1. t \notin Counting(r) /\ t \notin Dispatching(r)
    BY <1>1 DEF Counting, Dispatching, In
  <2>2. /\ Counting(r)' = Counting(r) \ {t}
        /\ Dispatching(r)' = Dispatching(r) \ {t}
    BY <1>1, CallLeaves DEF ConnInv
  <2> QED
    BY <2>1, <2>2, CountsStay
<1> QED
  BY <1>1, <1>2, <1>3, CloseElsewhereKeeps

LEMMA CloseByStep ==
  ASSUME ConnInv, NEW t \in Threads, NEW s \in Conns,
         CloseBy(t, s)
  PROVE  ConnInv'
<1>1. /\ CloseElsewhere(s) /\ call' = call
      /\ UNCHANGED <<scheduled, que, flight, wire, posted>>
  BY DEF CloseBy, sending, writing, reading
<1>2. call' \in [Threads -> Calls \cup {NoCall}]
  BY <1>1 DEF ConnInv, ConnTypes
<1> QED
  BY <1>1, <1>2, CallStays, CloseElsewhereKeeps

LEMMA DispatchStep ==
  ASSUME ConnInv, NEW t \in Threads, NEW s \in Conns,
         Dispatch(t, s)
  PROVE  ConnInv'
<1> DEFINE p == call[t].p
<1>1. /\ In(t, s, "dispatch") /\ call' = [call EXCEPT ![t] = NoCall]
      /\ tasks' = [tasks EXCEPT ![s] = Append(@, p)]
      /\ posted' = [posted EXCEPT ![s] = Append(@, p)]
      /\ UNCHANGED <<b_close, scheduled, que, flight, wire>>
  BY DEF Dispatch, Leave, socket, writing, reading
<1>2. p \in Packets
  <2>1. call[t] \in Calls
    BY <1>1 DEF ConnInv, ConnTypes, In
  <2> QED
    BY <2>1 DEF Calls
<1> HIDE DEF p
<1>3. ConnTypes'
  <2>1. call' \in [Threads -> Calls \cup {NoCall}]
    BY <1>1 DEF ConnInv, ConnTypes
  <2>2. tasks' \in [Conns -> Seq(Packets \cup {Closing})]
    <3>1. Append(tasks[s], p) \in Seq(Packets \cup {Closing})
      BY <1>2 DEF ConnInv, ConnTypes
    <3> QED
      BY <1>1, <3>1 DEF ConnInv, ConnTypes
  <2>3. posted' \in [Conns -> Seq(Packets)]
    BY <1>1, <1>2 DEF ConnInv, ConnTypes
  <2> QED
    BY <1>1, <2>1, <2>2, <2>3 DEF ConnInv, ConnTypes
<1>4. ASSUME NEW r \in Conns
      PROVE  /\ Counting(r)' = Counting(r) \ {t}
             /\ Dispatching(r)' = Dispatching(r) \ {t}
  BY <1>1, CallLeaves DEF ConnInv
<1>5. ASSUME NEW r \in Conns, r # s PROVE OrderOK(r)' /\ LimitsOK(r)'
  <2>1. t \notin Counting(r) /\ t \notin Dispatching(r)
    BY <1>1, <1>5 DEF Counting, Dispatching, In
  <2>2. Counting(r)' = Counting(r) /\ Dispatching(r)' = Dispatching(r)
    BY <1>4, <2>1, CountsStay
  <2> QED
    BY <1>1, <1>5, <2>2, ConnFrame DEF ConnInv, ConnTypes
<1>6. /\ tasks[s] \in Seq(Packets \cup {Closing}) /\ tasks'[s] = Append(tasks[s], p)
      /\ wire[s] \in Seq(Packets) /\ que[s] \in Seq(Packets) /\ posted[s] \in Seq(Packets)
      /\ posted'[s] = Append(posted[s], p)
      /\ OrderOK(s) /\ LimitsOK(s)
  BY <1>1 DEF ConnInv, ConnTypes
<1>7. OrderOK(s)'
  <2>1. IsPrefix(wire[s], posted'[s])
    BY <1>2, <1>6, PrefixGrows DEF OrderOK
  <2>2. ASSUME flight[s] = "writing"
        PROVE  IsPrefix(Append(wire[s], Head(que[s])), posted'[s])
    <3>1. Append(wire[s], Head(que[s])) \in Seq(Packets)
      BY <1>6, <2>2 DEF OrderOK
    <3>2. IsPrefix(Append(wire[s], Head(que[s])), posted[s])
      BY <1>6, <2>2 DEF OrderOK
    <3> QED
      BY <1>2, <1>6, <3>1, <3>2, PrefixGrows
  <2>3. ASSUME ~b_close[s]
        PROVE  /\ tasks'[s] \in Seq(Packets)
               /\ wire[s] \o Rest(s) \o tasks'[s] = posted'[s]
    <3>1. tasks[s] \in Seq(Packets) /\ wire[s] \o Rest(s) \o tasks[s] = posted[s]
      BY <1>6, <2>3 DEF OrderOK
    <3>2. Rest(s) \in Seq(Packets)
      BY <1>6 DEF Rest, OrderOK
    <3> DEFINE a == wire[s] \o Rest(s)
    <3>3. a \in Seq(Packets)
      BY <1>6, <3>2
    <3>4. a \o tasks[s] = posted[s]
      BY <3>1
    <3>5. ASSUME NEW b \in Seq(Packets)
          PROVE  b \o Append(tasks[s], p) = Append(b \o tasks[s], p)
      BY <1>2, <3>1, EndMoves
    <3>6. a \o Append(tasks[s], p) = Append(a \o tasks[s], p)
      BY <3>3, <3>5
    <3> QED
      BY <1>2, <1>6, <3>1, <3>4, <3>6
  <2>4. Rest(s)' = Rest(s)
    BY <1>1 DEF Rest
  <2> QED
    BY <1>1, <1>6, <2>1, <2>2, <2>3, <2>4 DEF OrderOK
<1>8. LimitsOK(s)'
  <2>1. /\ t \in Counting(s) /\ IsFiniteSet(Counting(s))
        /\ t \in Dispatching(s) /\ Dispatching(s) \subseteq Counting(s)
    BY <1>1, <1>6 DEF Counting, Dispatching, LimitsOK
  <2>2. /\ IsFiniteSet(Dispatching(s)) /\ Cardinality(Dispatching(s)) \in Nat
        /\ Cardinality(Counting(s)) \in Nat
    BY <2>1, FS_Subset, FS_CardinalityType
  <2>3. /\ IsFiniteSet(Counting(s)')
        /\ Cardinality(Counting(s)') = Cardinality(Counting(s)) - 1
    BY <1>4, <2>1, FS_RemoveElement
  <2>4. Cardinality(Dispatching(s)') = Cardinality(Dispatching(s)) - 1
    BY <1>4, <2>1, <2>2, FS_RemoveElement
  <2>5. /\ Cardinality(Places(tasks'[s])) = Cardinality(Places(tasks[s])) + 1
        /\ Cardinality(Places(tasks[s])) \in Nat
    BY <1>2, <1>6, PlacesAppend, PlacesFinite
  <2> QED
    <3>1. scheduled'[s] = Cardinality(Places(tasks'[s])) + Cardinality(Counting(s)')
      BY <1>1, <1>6, <2>2, <2>3, <2>5 DEF LimitsOK
    <3>2. Cardinality(Places(tasks'[s])) + Cardinality(Dispatching(s)') <= MaxSend
      BY <1>6, <2>2, <2>4, <2>5, ConnectionAssumption DEF LimitsOK
    <3> QED
      BY <1>1, <1>6, <2>3, <3>1, <3>2 DEF LimitsOK
<1> QED
  BY <1>3, <1>5, <1>7, <1>8 DEF ConnInv

\* The first handler of the strand is taken.
LEMMA TakeTask ==
  ASSUME ConnInv, NEW s \in Conns, tasks[s] # <<>>,
         tasks' = [tasks EXCEPT ![s] = Tail(@)]
  PROVE  /\ tasks' \in [Conns -> Seq(Packets \cup {Closing})]
         /\ tasks[s] \in Seq(Packets \cup {Closing}) /\ tasks'[s] = Tail(tasks[s])
         /\ Cardinality(Places(tasks'[s])) \in Nat
         /\ Cardinality(Places(tasks[s])) =
              Cardinality(Places(tasks'[s])) + (IF Head(tasks[s]) \in Packets THEN 1 ELSE 0)
<1>1. tasks[s] \in Seq(Packets \cup {Closing}) /\ tasks'[s] = Tail(tasks[s])
  BY DEF ConnInv, ConnTypes
<1>2. tasks' \in [Conns -> Seq(Packets \cup {Closing})]
  BY DEF ConnInv, ConnTypes
<1>3. tasks'[s] \in Seq(Packets \cup {Closing})
  BY <1>1
<1> QED
  BY <1>1, <1>2, <1>3, PlacesTail, PlacesFinite

LEMMA RunCloseStep ==
  ASSUME ConnInv, NEW s \in Conns, RunClose(s)
  PROVE  ConnInv'
<1>1. /\ tasks[s] # <<>> /\ Head(tasks[s]) = Closing
      /\ tasks' = [tasks EXCEPT ![s] = Tail(@)]
      /\ UNCHANGED <<b_close, scheduled, que, flight, wire, posted, call>>
  BY DEF RunClose, sending, writing, reading
<1>2. ConnTypes'
  BY <1>1, TakeTask DEF ConnInv, ConnTypes
<1>3. ASSUME NEW r \in Conns
      PROVE  Counting(r)' = Counting(r) /\ Dispatching(r)' = Dispatching(r)
  BY <1>1, CallStays
<1>4. ASSUME NEW r \in Conns, r # s PROVE OrderOK(r)' /\ LimitsOK(r)'
  BY <1>1, <1>3, <1>4, ConnFrame DEF ConnInv, ConnTypes
<1>5. b_close[s]
  <2>1. Closing \notin Packets
    BY ConnectionAssumption
  <2>2. tasks[s] \notin Seq(Packets)
    BY <1>1, <2>1
  <2> QED
    BY <2>2 DEF ConnInv, OrderOK
<1>6. OrderOK(s)'
  BY <1>1, <1>5 DEF ConnInv, OrderOK, Rest
<1>7. LimitsOK(s)'
  <2>1. Cardinality(Places(tasks[s])) = Cardinality(Places(tasks'[s]))
    <3>1. Head(tasks[s]) \notin Packets
      BY <1>1, ConnectionAssumption
    <3>2. Cardinality(Places(tasks[s])) = Cardinality(Places(tasks'[s])) + 0
      BY <1>1, <3>1, TakeTask
    <3>3. Cardinality(Places(tasks'[s])) \in Nat
      BY <1>1, TakeTask
    <3> QED
      BY <3>2, <3>3
  <2> QED
    BY <1>1, <1>3, <2>1 DEF ConnInv, LimitsOK
<1> QED
  BY <1>2, <1>4, <1>6, <1>7 DEF ConnInv

LEMMA NextToWrite ==
  ASSUME NEW S, NEW w \in Seq(S), NEW q \in Seq(S), NEW t \in Seq(S), q # <<>>
  PROVE  IsPrefix(Append(w, Head(q)), (w \o q) \o t)
<1>1. (w \o q) \o t = w \o (q \o t)
  BY Associate
<1>2. q \o t \in Seq(S) /\ q \o t # <<>> /\ Head(q \o t) = Head(q)
  <2>1. Len(q \o t) = Len(q) + Len(t) /\ Len(q) > 0
    OBVIOUS
  <2> QED
    BY <2>1
<1>3. IsPrefix(Append(w, Head(q \o t)), w \o (q \o t))
  BY <1>2, ConcatPrefix
<1> QED
  BY <1>1, <1>2, <1>3

LEMMA EnqueueKeepsOrder ==
  ASSUME ConnInv, NEW s \in Conns, ~b_close[s],
         tasks[s] # <<>>, Head(tasks[s]) \in Packets,
         tasks' = [tasks EXCEPT ![s] = Tail(@)], Enqueue(s, Head(tasks[s])),
         UNCHANGED <<b_close, wire, posted>>
  PROVE  OrderOK(s)'
<1> DEFINE p == Head(tasks[s])
           q == que[s]
           w == wire[s]
           R == Rest(s)
<1>1. /\ q \in Seq(Packets) /\ w \in Seq(Packets) /\ posted[s] \in Seq(Packets)
      /\ R \in Seq(Packets) /\ tasks[s] \in Seq(Packets)
      /\ tasks'[s] = Tail(tasks[s]) /\ tasks'[s] \in Seq(Packets)
      /\ (w \o R) \o tasks[s] = posted[s] /\ (flight[s] # "none" => q # <<>>)
      /\ (q # <<>> => flight[s] # "none") /\ IsPrefix(w, posted[s])
  <2>1. OrderOK(s) /\ q \in Seq(Packets) /\ w \in Seq(Packets) /\ posted[s] \in Seq(Packets)
    BY DEF ConnInv, ConnTypes
  <2>2. tasks[s] \in Seq(Packets) /\ tasks'[s] = Tail(tasks[s])
    BY <2>1 DEF OrderOK, ConnInv, ConnTypes
  <2>3. R \in Seq(Packets)
    BY <2>1 DEF OrderOK, Rest
  <2>4. (w \o R) \o tasks[s] = posted[s]
    BY <2>1 DEF OrderOK
  <2>5. /\ (flight[s] # "none" => q # <<>>) /\ (q # <<>> => flight[s] # "none")
        /\ IsPrefix(w, posted[s])
    BY <2>1 DEF OrderOK
  <2>6. Tail(tasks[s]) \in Seq(Packets)
    BY <2>2
  <2> QED
    BY <2>1, <2>2, <2>3, <2>4, <2>5, <2>6
<1>2. /\ que'[s] = Append(q, p) /\ que'[s] # <<>> /\ que'[s] \in Seq(Packets)
      /\ flight'[s] = IF q = <<>> THEN "writing" ELSE flight[s]
  <2>1. que'[s] = Append(q, p)
    BY DEF Enqueue, ConnInv, ConnTypes
  <2>2. flight'[s] = IF q = <<>> THEN "writing" ELSE flight[s]
    BY DEF Enqueue, ConnInv, ConnTypes
  <2>3. Append(q, p) # <<>> /\ Append(q, p) \in Seq(Packets)
    <3>1. q \in Seq(Packets) /\ p \in Packets
      BY <1>1
    <3> HIDE DEF q, p
    <3> QED
      BY <3>1
  <2> QED
    BY <2>1, <2>2, <2>3
<1>3. Rest(s)' = Append(R, p)
  <2>1. CASE q = <<>>
    BY <1>1, <1>2, <2>1 DEF Rest
  <2>2. CASE q # <<>> /\ flight[s] = "written"
    <3>1. Rest(s)' = Tail(Append(q, p)) /\ R = Tail(q)
      BY <1>2, <2>2 DEF Rest
    <3> QED
      BY <1>1, <2>2, <3>1, TailOfAppend
  <2>3. CASE q # <<>> /\ flight[s] # "written"
    BY <1>2, <2>3 DEF Rest
  <2> QED
    BY <2>1, <2>2, <2>3
<1>4. flight'[s] = "writing" => Rest(s)' = que'[s]
  BY DEF Rest
<1>5. /\ wire'[s] = w /\ posted'[s] = posted[s] /\ tasks[s] # <<>> /\ p \in Packets
      /\ p = Head(tasks[s])
  OBVIOUS
<1> HIDE DEF p, q, w, R
<1>6. (w \o Append(R, p)) \o Tail(tasks[s]) = posted[s]
  <2>1. w \o Append(R, p) = Append(w \o R, p)
    <3>1. w \in Seq(Packets) /\ R \in Seq(Packets) /\ p \in Packets
      BY <1>1, <1>5
    <3> QED
      BY <3>1, EndMoves
  <2> DEFINE a == w \o R
  <2>2. a \in Seq(Packets) /\ a \o tasks[s] = posted[s]
    BY <1>1
  <2>3. tasks[s] \in Seq(Packets) /\ tasks[s] # <<>> /\ p = Head(tasks[s])
    BY <1>1, <1>5
  <2> HIDE DEF a
  <2>4. Append(a, p) \o Tail(tasks[s]) = a \o tasks[s]
    BY <2>2, <2>3, HeadMoves
  <2> QED
    BY <2>1, <2>2, <2>4 DEF a
<1>7. wire'[s] \o Rest(s)' \o tasks'[s] = posted'[s]
  BY <1>1, <1>3, <1>5, <1>6
<1>8. flight'[s] = "writing" => IsPrefix(Append(wire'[s], Head(que'[s])), posted'[s])
  <2>1. IsPrefix(Append(w, Head(que'[s])), (w \o que'[s]) \o tasks'[s])
    BY <1>1, <1>2, NextToWrite
  <2> QED
    BY <1>4, <1>5, <1>7, <2>1
<1>9. flight'[s] # "none"
  BY <1>1, <1>2
<1> QED
  BY <1>1, <1>2, <1>5, <1>7, <1>8, <1>9 DEF OrderOK

LEMMA RunSendStep ==
  ASSUME ConnInv, NEW s \in Conns, RunSend(s)
  PROVE  ConnInv'
<1>1. /\ tasks[s] # <<>> /\ Head(tasks[s]) \in Packets
      /\ tasks' = [tasks EXCEPT ![s] = Tail(@)]
      /\ scheduled' = [scheduled EXCEPT ![s] = @ - 1]
      /\ UNCHANGED <<wire, posted, call>>
  BY DEF RunSend, IsPacket, reading
<1>2. \/ b_close[s] /\ UNCHANGED <<b_close, que, flight>>
      \/ /\ b_close' = [b_close EXCEPT ![s] = TRUE]
         /\ UNCHANGED <<que, flight>>
      \/ /\ ~b_close[s] /\ Len(que[s]) < MaxSend /\ Enqueue(s, Head(tasks[s]))
         /\ UNCHANGED b_close
  BY DEF RunSend, CloseOnStrand, socket
<1>3. ConnTypes'
  <2>1. b_close' \in [Conns -> BOOLEAN]
    BY <1>2 DEF ConnInv, ConnTypes
  <2>2. que' \in [Conns -> Seq(Packets)]
    <3>1. CASE que' = que
      BY <3>1 DEF ConnInv, ConnTypes
    <3>2. CASE que' = [que EXCEPT ![s] = Append(@, Head(tasks[s]))]
      BY <1>1, <3>2 DEF ConnInv, ConnTypes
    <3> QED
      BY <1>2, <3>1, <3>2 DEF Enqueue
  <2>3. flight' \in [Conns -> {"none", "writing", "written", "failed"}]
    BY <1>2 DEF ConnInv, ConnTypes, Enqueue
  <2>4. tasks' \in [Conns -> Seq(Packets \cup {Closing})]
    BY <1>1, TakeTask
  <2>5. scheduled' \in [Conns -> Int]
    BY <1>1 DEF ConnInv, ConnTypes
  <2>6. /\ wire' \in [Conns -> Seq(Packets)] /\ posted' \in [Conns -> Seq(Packets)]
        /\ call' \in [Threads -> Calls \cup {NoCall}]
    BY <1>1 DEF ConnInv, ConnTypes
  <2> QED
    BY <2>1, <2>2, <2>3, <2>4, <2>5, <2>6 DEF ConnTypes
<1>4. ASSUME NEW r \in Conns
      PROVE  Counting(r)' = Counting(r) /\ Dispatching(r)' = Dispatching(r)
  BY <1>1, CallStays
<1>5. ASSUME NEW r \in Conns, r # s PROVE OrderOK(r)' /\ LimitsOK(r)'
  <2>1. que'[r] = que[r] /\ flight'[r] = flight[r] /\ b_close'[r] = b_close[r]
    BY <1>2, <1>5 DEF ConnInv, ConnTypes, Enqueue
  <2>2. tasks'[r] = tasks[r] /\ scheduled'[r] = scheduled[r]
    BY <1>1, <1>5 DEF ConnInv, ConnTypes
  <2> QED
    BY <1>1, <1>4, <2>1, <2>2, ConnFrame DEF ConnInv
<1>6. OrderOK(s)'
  <2>1. CASE ~b_close[s] /\ Enqueue(s, Head(tasks[s])) /\ UNCHANGED b_close
    BY <1>1, <2>1, EnqueueKeepsOrder
  <2>2. CASE b_close'[s] /\ UNCHANGED <<que, flight>>
    BY <1>1, <2>2 DEF ConnInv, OrderOK
  <2> QED
    BY <1>2, <2>1, <2>2 DEF ConnInv, ConnTypes
<1>7. LimitsOK(s)'
  <2>1. /\ Cardinality(Places(tasks'[s])) \in Nat
        /\ Cardinality(Places(tasks[s])) = Cardinality(Places(tasks'[s])) + 1
    BY <1>1, TakeTask
  <2>2. LimitsOK(s) /\ IsFiniteSet(Dispatching(s))
    <3>1. Dispatching(s) \subseteq Counting(s)
      BY DEF Dispatching, Counting
    <3> QED
      BY <3>1, FS_Subset DEF ConnInv, LimitsOK
  <2>3. Cardinality(Counting(s)) \in Nat /\ Cardinality(Dispatching(s)) \in Nat
    BY <2>2, FS_CardinalityType DEF LimitsOK
  <2>4. Len(que'[s]) <= MaxSend
    <3>1. CASE que' = que
      BY <2>2, <3>1 DEF LimitsOK
    <3>2. CASE Len(que[s]) < MaxSend /\ que' = [que EXCEPT ![s] = Append(@, Head(tasks[s]))]
      <4>1. que[s] \in Seq(Packets) /\ que'[s] = Append(que[s], Head(tasks[s]))
        BY <3>2 DEF ConnInv, ConnTypes
      <4>2. Len(que'[s]) = Len(que[s]) + 1 /\ Len(que[s]) \in Nat
        BY <1>1, <4>1
      <4> QED
        BY <3>2, <4>2, ConnectionAssumption
    <3> QED
      BY <1>2, <3>1, <3>2 DEF Enqueue
  <2>5. scheduled'[s] = scheduled[s] - 1
    BY <1>1 DEF ConnInv, ConnTypes
  <2>6. scheduled'[s] = Cardinality(Places(tasks'[s])) + Cardinality(Counting(s))
    BY <2>1, <2>2, <2>3, <2>5 DEF LimitsOK
  <2>7. Cardinality(Places(tasks'[s])) + Cardinality(Dispatching(s)) <= MaxSend
    BY <2>1, <2>2, <2>3, ConnectionAssumption DEF LimitsOK
  <2> QED
    BY <1>4, <2>2, <2>4, <2>6, <2>7 DEF LimitsOK
<1> QED
  BY <1>3, <1>5, <1>6, <1>7 DEF ConnInv

LEMMA WriteStep ==
  ASSUME ConnInv, NEW s \in Conns, Write(s)
  PROVE  ConnInv'
<1>1. /\ flight[s] = "writing"
      /\ UNCHANGED <<b_close, tasks, scheduled, que, posted, call>>
  BY DEF Write, socket, sending, reading
<1>2. \/ /\ flight' = [flight EXCEPT ![s] = "written"]
         /\ wire' = [wire EXCEPT ![s] = Append(@, Head(que[s]))]
      \/ /\ flight' = [flight EXCEPT ![s] = "failed"]
         /\ wire' = wire
  BY DEF Write
<1>3. /\ OrderOK(s) /\ que[s] \in Seq(Packets) /\ que[s] # <<>>
      /\ wire[s] \in Seq(Packets) /\ posted[s] \in Seq(Packets)
      /\ Head(que[s]) \in Packets
  <2>1. OrderOK(s) /\ que[s] \in Seq(Packets) /\ que[s] # <<>>
    BY <1>1 DEF ConnInv, ConnTypes, OrderOK
  <2> QED
    BY <2>1 DEF ConnInv, ConnTypes
<1>4. ConnTypes'
  <2>1. wire' \in [Conns -> Seq(Packets)]
    <3>1. Append(wire[s], Head(que[s])) \in Seq(Packets)
      BY <1>3
    <3> QED
      BY <1>2, <3>1 DEF ConnInv, ConnTypes
  <2>2. flight' \in [Conns -> {"none", "writing", "written", "failed"}]
    BY <1>2 DEF ConnInv, ConnTypes
  <2> QED
    BY <1>1, <2>1, <2>2 DEF ConnInv, ConnTypes
<1>5. ASSUME NEW r \in Conns
      PROVE  Counting(r)' = Counting(r) /\ Dispatching(r)' = Dispatching(r)
  BY <1>1, CallStays
<1>6. ASSUME NEW r \in Conns, r # s PROVE OrderOK(r)' /\ LimitsOK(r)'
  <2>1. flight'[r] = flight[r] /\ wire'[r] = wire[r]
    BY <1>2, <1>6 DEF ConnInv, ConnTypes
  <2> QED
    BY <1>1, <1>5, <2>1, ConnFrame DEF ConnInv
<1>7. OrderOK(s)'
  <2>1. CASE /\ flight' = [flight EXCEPT ![s] = "written"]
             /\ wire' = [wire EXCEPT ![s] = Append(@, Head(que[s]))]
    <3>1. flight'[s] = "written" /\ wire'[s] = Append(wire[s], Head(que[s]))
      BY <2>1 DEF ConnInv, ConnTypes
    <3>2. wire'[s] \o Tail(que[s]) = wire[s] \o que[s]
      BY <1>3, <3>1, HeadMoves
    <3>3. Rest(s) = que[s] /\ Rest(s)' = Tail(que[s])
      BY <1>1, <3>1 DEF Rest
    <3>4. ~b_close[s] => (wire'[s] \o Rest(s)') \o tasks[s] = posted[s]
      BY <1>3, <3>2, <3>3 DEF OrderOK
    <3> QED
      BY <1>1, <1>3, <3>1, <3>4 DEF OrderOK
  <2>2. CASE /\ flight' = [flight EXCEPT ![s] = "failed"]
             /\ wire' = wire
    <3>1. flight'[s] = "failed"
      BY <2>2 DEF ConnInv, ConnTypes
    <3>2. Rest(s)' = Rest(s)
      BY <1>1, <3>1 DEF Rest
    <3> QED
      BY <1>1, <1>3, <2>2, <3>1, <3>2 DEF OrderOK
  <2> QED
    BY <1>2, <2>1, <2>2
<1>8. LimitsOK(s)'
  BY <1>1, <1>5 DEF ConnInv, LimitsOK
<1> QED
  BY <1>4, <1>6, <1>7, <1>8 DEF ConnInv

LEMMA HandleWriteStep ==
  ASSUME ConnInv, NEW s \in Conns, HandleWrite(s)
  PROVE  ConnInv'
<1>1. /\ flight[s] \in {"written", "failed"}
      /\ UNCHANGED <<tasks, scheduled, wire, posted, call>>
  BY DEF HandleWrite, sending, reading
<1>2. \/ /\ b_close[s] \/ b_close' = [b_close EXCEPT ![s] = TRUE]
         /\ \/ b_close' = b_close
            \/ b_close' = [b_close EXCEPT ![s] = TRUE]
         /\ flight' = [flight EXCEPT ![s] = "none"] /\ que' = que
      \/ /\ ~b_close[s] /\ flight[s] = "written" /\ b_close' = b_close
         /\ que' = [que EXCEPT ![s] = Tail(@)]
         /\ flight' = [flight EXCEPT ![s] = IF Tail(que[s]) = <<>> THEN "none"
                                                                  ELSE "writing"]
  BY DEF HandleWrite, CloseOnStrand, socket
<1>3. /\ OrderOK(s) /\ LimitsOK(s) /\ que[s] \in Seq(Packets) /\ que[s] # <<>>
      /\ wire[s] \in Seq(Packets) /\ posted[s] \in Seq(Packets)
  BY <1>1 DEF ConnInv, ConnTypes, OrderOK
<1>4. Tail(que[s]) \in Seq(Packets) /\ Len(Tail(que[s])) = Len(que[s]) - 1
  BY <1>3
<1>5. ConnTypes'
  <2>1. que' \in [Conns -> Seq(Packets)]
    <3>1. CASE que' = que
      BY <3>1 DEF ConnInv, ConnTypes
    <3>2. CASE que' = [que EXCEPT ![s] = Tail(@)]
      BY <1>4, <3>2 DEF ConnInv, ConnTypes
    <3> QED
      BY <1>2, <3>1, <3>2
  <2>2. flight' \in [Conns -> {"none", "writing", "written", "failed"}]
    BY <1>2 DEF ConnInv, ConnTypes
  <2>3. b_close' \in [Conns -> BOOLEAN]
    BY <1>2 DEF ConnInv, ConnTypes
  <2> QED
    BY <1>1, <2>1, <2>2, <2>3 DEF ConnInv, ConnTypes
<1>6. ASSUME NEW r \in Conns
      PROVE  Counting(r)' = Counting(r) /\ Dispatching(r)' = Dispatching(r)
  BY <1>1, CallStays
<1>7. ASSUME NEW r \in Conns, r # s PROVE OrderOK(r)' /\ LimitsOK(r)'
  <2>1. flight'[r] = flight[r] /\ que'[r] = que[r] /\ b_close'[r] = b_close[r]
    BY <1>2, <1>7 DEF ConnInv, ConnTypes
  <2> QED
    BY <1>1, <1>6, <2>1, ConnFrame DEF ConnInv
<1>8. OrderOK(s)' /\ Len(que'[s]) <= MaxSend
  <2>1. CASE /\ b_close'[s] /\ flight'[s] = "none" /\ que' = que
    BY <1>1, <1>3, <2>1 DEF OrderOK, LimitsOK
  <2>2. CASE /\ ~b_close[s] /\ flight[s] = "written" /\ b_close' = b_close
             /\ que'[s] = Tail(que[s])
             /\ flight'[s] = IF Tail(que[s]) = <<>> THEN "none" ELSE "writing"
    <3>1. Rest(s) = Tail(que[s]) /\ Rest(s)' = Tail(que[s])
      BY <2>2 DEF Rest
    <3>2. /\ (wire[s] \o Tail(que[s])) \o tasks[s] = posted[s]
          /\ tasks[s] \in Seq(Packets)
      BY <1>3, <2>2, <3>1 DEF OrderOK
    <3>3. Tail(que[s]) # <<>> =>
            IsPrefix(Append(wire[s], Head(Tail(que[s]))), posted[s])
      <4> DEFINE v == Tail(que[s])
      <4>1. v \in Seq(Packets) /\ (wire[s] \o v) \o tasks[s] = posted[s]
        BY <1>4, <3>2
      <4> HIDE DEF v
      <4>2. v # <<>> => IsPrefix(Append(wire[s], Head(v)), (wire[s] \o v) \o tasks[s])
        BY <1>3, <3>2, <4>1, NextToWrite
      <4> QED
        BY <4>1, <4>2 DEF v
    <3>4. Len(que'[s]) <= MaxSend
      BY <1>3, <1>4, <2>2, ConnectionAssumption DEF LimitsOK
    <3> QED
      BY <1>1, <1>3, <2>2, <3>1, <3>2, <3>3, <3>4 DEF OrderOK
  <2> QED
    BY <1>2, <2>1, <2>2 DEF ConnInv, ConnTypes
<1>9. LimitsOK(s)'
  BY <1>1, <1>3, <1>6, <1>8 DEF LimitsOK
<1> QED
  BY <1>5, <1>7, <1>8, <1>9 DEF ConnInv

\* Steps that touch neither packets nor counts, and may close a session.
LEMMA ReadingKeeps ==
  ASSUME ConnInv, b_close' \in [Conns -> BOOLEAN],
         \A s \in Conns : b_close[s] => b_close'[s],
         UNCHANGED <<tasks, scheduled, que, flight, wire, posted, call>>
  PROVE  ConnInv'
<1>1. ConnTypes'
  BY DEF ConnInv, ConnTypes
<1>2. ASSUME NEW r \in Conns PROVE OrderOK(r)' /\ LimitsOK(r)'
  BY CallStays, ConnFrame DEF ConnInv
<1> QED
  BY <1>1, <1>2 DEF ConnInv

LEMMA ReadSteps ==
  ASSUME ConnInv, NEW s \in Conns,
         \/ ReadDone(s) \/ ReadFails(s) \/ Expire(s)
         \/ \E h \in expired[s] : Deadline(s, h)
  PROVE  ConnInv'
<1>1. UNCHANGED <<tasks, scheduled, que, flight, wire, posted, call>>
  BY DEF ReadDone, ReadFails, Expire, Deadline, sending, writing
<1>2. b_close' = b_close \/ b_close' = [b_close EXCEPT ![s] = TRUE]
  BY DEF ReadDone, ReadFails, Expire, Deadline, CloseOnStrand, socket
<1>3. b_close' \in [Conns -> BOOLEAN] /\ \A r \in Conns : b_close[r] => b_close'[r]
  BY <1>2 DEF ConnInv, ConnTypes
<1> QED
  BY <1>1, <1>3, ReadingKeeps

LEMMA ConnInitially ==
  ASSUME ConnInit
  PROVE  ConnInv
<1> USE DEF ConnInit
<1>1. ConnTypes
  BY DEF ConnTypes
<1>2. ASSUME NEW s \in Conns PROVE OrderOK(s)
  BY DEF OrderOK, Rest, IsPrefix
<1>3. ASSUME NEW s \in Conns PROVE LimitsOK(s)
  <2>1. Counting(s) = {} /\ Dispatching(s) = {} /\ Places(tasks[s]) = {}
    BY DEF Counting, Dispatching, In, Places
  <2>2. IsFiniteSet({}) /\ Cardinality({}) = 0
    BY FS_EmptySet
  <2>3. scheduled[s] = 0 /\ Len(que[s]) = 0 /\ 0 <= MaxSend
    BY ConnectionAssumption
  <2> HIDE DEF ConnInit
  <2>4. /\ Cardinality(Counting(s)) = 0 /\ Cardinality(Dispatching(s)) = 0
        /\ Cardinality(Places(tasks[s])) = 0 /\ IsFiniteSet(Counting(s))
    BY <2>1, <2>2
  <2> QED
    BY <2>3, <2>4 DEF LimitsOK
<1> QED
  BY <1>1, <1>2, <1>3 DEF ConnInv

LEMMA ConnStep ==
  ASSUME ConnInv, [ConnNext]_connVars
  PROVE  ConnInv'
<1>1. ASSUME NEW t \in Threads, NEW s \in Conns,
             \/ \E p \in Packets : Send(t, s, p)
             \/ Count(t, s) \/ Over(t, s) \/ Refuse(t, s)
             \/ Dispatch(t, s) \/ CloseBy(t, s)
      PROVE  ConnInv'
  BY <1>1, SendStep, CountStep, OverStep, RefuseStep, DispatchStep, CloseByStep
<1>2. ASSUME NEW s \in Conns,
             \/ RunSend(s) \/ RunClose(s) \/ Write(s) \/ HandleWrite(s)
             \/ ReadDone(s) \/ ReadFails(s) \/ Expire(s)
             \/ \E h \in expired[s] : Deadline(s, h)
      PROVE  ConnInv'
  BY <1>2, RunSendStep, RunCloseStep, WriteStep, HandleWriteStep, ReadSteps
<1>3. CASE UNCHANGED connVars
  <2>1. UNCHANGED <<b_close, tasks, scheduled, que, flight, wire, posted, call>>
    BY <1>3 DEF connVars, socket, sending, writing
  <2>2. /\ b_close' \in [Conns -> BOOLEAN]
        /\ \A s \in Conns : b_close[s] => b_close'[s]
    BY <2>1 DEF ConnInv, ConnTypes
  <2> QED
    BY <2>1, <2>2, ReadingKeeps
<1> QED
  BY <1>1, <1>2, <1>3 DEF ConnNext

LEMMA ConnInvariance ==
  ConnSpec => []ConnInv
BY ConnInitially, ConnStep, PTL DEF ConnSpec

\* Packets leave in the order in which they were posted, none twice, and as long as
\* the session is open none is lost and none waits without a write (Send, the
\* handler it posts, HandleWrite).
THEOREM PacketsStayInOrder ==
  ConnSpec => []InOrder
<1>1. ConnInv => InOrder
  BY DEF ConnInv, OrderOK, Rest, InOrder
<1> QED
  BY <1>1, ConnInvariance, PTL

\* The counter that Send raises before it compares is exact, and neither the strand
\* nor the outgoing queue ever holds more than MAX_SENDQUE packets.
THEOREM SendLimitsHold ==
  ConnSpec => []WithinLimits
<1>1. ASSUME NEW s \in Conns
      PROVE  Waiting(s) = Places(tasks[s])
  BY DEF Waiting, IsPacket, Places
<1>2. ASSUME ConnInv, NEW s \in Conns
      PROVE  Cardinality(Places(tasks[s])) <= MaxSend
  <2>1. IsFiniteSet(Dispatching(s))
    <3>1. Dispatching(s) \subseteq Counting(s)
      BY DEF Dispatching, Counting
    <3> QED
      BY <1>2, <3>1, FS_Subset DEF ConnInv, LimitsOK
  <2>2. Cardinality(Dispatching(s)) \in Nat /\ Cardinality(Places(tasks[s])) \in Nat
    BY <1>2, <2>1, FS_CardinalityType, PlacesFinite DEF ConnInv, ConnTypes
  <2> QED
    BY <1>2, <2>2, ConnectionAssumption DEF ConnInv, LimitsOK
<1>3. ASSUME ConnInv, NEW s \in Conns
      PROVE  /\ scheduled[s] = Cardinality(Waiting(s)) + Cardinality(Counting(s))
             /\ Cardinality(Waiting(s)) <= MaxSend /\ Len(que[s]) <= MaxSend
             /\ flight[s] # "none" => que[s] # <<>>
  <2>1. LimitsOK(s) /\ OrderOK(s) /\ Cardinality(Places(tasks[s])) <= MaxSend
    BY <1>2, <1>3 DEF ConnInv
  <2>2. flight[s] # "none" => que[s] # <<>>
    BY <2>1 DEF OrderOK
  <2> QED
    BY <1>1, <2>1, <2>2 DEF LimitsOK
<1>4. ConnInv => WithinLimits
  <2> SUFFICES ASSUME ConnInv PROVE WithinLimits
    OBVIOUS
  <2> HIDE DEF ConnInv
  <2> QED
    BY <1>3, SameCardinality DEF WithinLimits
<1> QED
  BY <1>4, ConnInvariance, PTL

\* The generation counts the armings: a handler has captured the number of its own.
DeadlineOK ==
  /\ generation \in [Conns -> Nat] /\ arming = generation
  /\ expired \in [Conns -> SUBSET [generation : Nat, arming : Nat]]
  /\ \A s \in Conns : \A h \in expired[s] : h.generation = h.arming

\* What is left alone when nothing is read and no deadline expires.
LEMMA DeadlineFrame ==
  ASSUME ConnNext, \A s \in Conns : ~ReadDone(s) /\ ~Expire(s),
         \A s \in Conns : \A h \in expired[s] : ~Deadline(s, h)
  PROVE  UNCHANGED <<generation, arming, expired>>
<1>1. ASSUME NEW t \in Threads, NEW s \in Conns,
             \/ \E p \in Packets : Send(t, s, p)
             \/ Count(t, s) \/ Over(t, s) \/ Refuse(t, s)
             \/ Dispatch(t, s) \/ CloseBy(t, s)
      PROVE  UNCHANGED reading
  BY <1>1 DEF Send, Count, Over, Refuse, Dispatch, CloseBy
<1>2. ASSUME NEW s \in Conns,
             \/ RunSend(s) \/ RunClose(s) \/ Write(s) \/ HandleWrite(s) \/ ReadFails(s)
      PROVE  UNCHANGED reading
  BY <1>2 DEF RunSend, RunClose, Write, HandleWrite, ReadFails
<1> QED
  BY <1>1, <1>2 DEF ConnNext, reading

LEMMA DeadlineStep ==
  ASSUME DeadlineOK, [ConnNext]_connVars
  PROVE  DeadlineOK'
<1>1. CASE UNCHANGED <<generation, arming, expired>>
  BY <1>1 DEF DeadlineOK
<1>2. ASSUME NEW s \in Conns, ReadDone(s)
      PROVE  DeadlineOK'
  <2>1. /\ generation' = [generation EXCEPT ![s] = @ + 1]
        /\ arming' = [arming EXCEPT ![s] = @ + 1] /\ UNCHANGED expired
    BY <1>2 DEF ReadDone
  <2>2. generation' \in [Conns -> Nat] /\ arming' = generation'
    BY <2>1 DEF DeadlineOK
  <2> QED
    BY <2>1, <2>2 DEF DeadlineOK
<1>3. ASSUME NEW s \in Conns, Expire(s)
      PROVE  DeadlineOK'
  <2>1. /\ expired' = [expired EXCEPT ![s] = @ \cup {Handler(s)}]
        /\ UNCHANGED <<generation, arming>>
    BY <1>3 DEF Expire
  <2>2. Handler(s) \in [generation : Nat, arming : Nat] /\ Handler(s).generation = Handler(s).arming
    BY DEF DeadlineOK, Handler
  <2> QED
    BY <2>1, <2>2 DEF DeadlineOK
<1>4. ASSUME NEW s \in Conns, NEW h \in expired[s], Deadline(s, h)
      PROVE  DeadlineOK'
  <2>1. expired' = [expired EXCEPT ![s] = @ \ {h}] /\ UNCHANGED <<generation, arming>>
    BY <1>4 DEF Deadline
  <2> QED
    BY <2>1 DEF DeadlineOK
<1>5. CASE UNCHANGED connVars
  BY <1>1, <1>5 DEF connVars, reading
<1> QED
  BY <1>1, <1>2, <1>3, <1>4, <1>5, DeadlineFrame

LEMMA DeadlineInvariance ==
  ConnSpec => [](ConnInv /\ DeadlineOK)
<1>1. ConnInit => DeadlineOK
  BY DEF ConnInit, DeadlineOK
<1> QED
  BY <1>1, DeadlineStep, ConnInvariance, PTL DEF ConnSpec

\* A deadline handler closes its open session exactly if the deadline was not armed
\* again since the timer ran out (ArmReadDeadline raises _readGeneration, and the
\* handler compares the value it captured).
THEOREM DeadlineClosesIfCurrent ==
  ConnSpec => DeadlineIsCurrent
<1> DEFINE A == \A s \in Conns : \A h \in expired[s] \ expired'[s] :
                  ~b_close[s] => (b_close'[s] <=> h.arming = arming[s])
<1>1. ASSUME ConnInv, DeadlineOK, [ConnNext]_connVars PROVE A
  <2> SUFFICES ASSUME NEW s \in Conns, NEW h \in expired[s] \ expired'[s], ~b_close[s]
               PROVE  b_close'[s] <=> h.arming = arming[s]
    OBVIOUS
  <2>1. expired' # expired
    OBVIOUS
  <2>2. ASSUME NEW r \in Conns, NEW g \in expired[r], Deadline(r, g)
        PROVE  b_close'[s] <=> h.arming = arming[s]
    <3>1. expired' = [expired EXCEPT ![r] = @ \ {g}]
      BY <2>2 DEF Deadline
    <3>2. r = s /\ g = h
      BY <1>1, <3>1 DEF DeadlineOK
    <3>3. b_close'[s] <=> h.generation = generation[s]
      BY <1>1, <2>2, <3>2 DEF Deadline, CloseOnStrand, socket, ConnInv, ConnTypes
    <3> QED
      BY <1>1, <3>3 DEF DeadlineOK
  <2>3. ASSUME NEW r \in Conns, Expire(r) PROVE FALSE
    <3>1. expired' = [expired EXCEPT ![r] = @ \cup {Handler(r)}]
      BY <2>3 DEF Expire
    <3> QED
      BY <1>1, <3>1 DEF DeadlineOK
  <2>4. ASSUME NEW r \in Conns, ReadDone(r) PROVE FALSE
    BY <2>1, <2>4 DEF ReadDone
  <2>5. ~UNCHANGED connVars
    BY <2>1 DEF connVars, reading
  <2> QED
    BY <1>1, <2>1, <2>2, <2>3, <2>4, <2>5, DeadlineFrame
<1> QED
  BY <1>1, DeadlineInvariance, PTL DEF ConnSpec, DeadlineIsCurrent
==============================================================================
