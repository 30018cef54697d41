------------------------------- MODULE Accounts -------------------------------
(***************************************************************************)
(* Verification codes and accounts: VarifyServer reserves codes in Redis,  *)
(* the POST handlers of GateServer consume them and register users, reset  *)
(* passwords and log users in.                                             *)
(*                                                                         *)
(* A worker is an I/O thread of a gateway, which runs one handler at a     *)
(* time; every call to Redis or MySQL is a step.  A Redis script is atomic *)
(* and keys disappear when their TTL, counted in ticks of a minute, is     *)
(* over.  A rate limit refuses requests before they change anything, so    *)
(* that a refused request is one that is not made.                         *)
(***************************************************************************)
EXTENDS Integers, FiniteSets, Sequences

CONSTANTS
  Emails, Names, Passwords,
  Codes,         \* six digits
  Lower,         \* LOWER(TRIM(email)) of each, which the collation compares
  Requests,      \* what clients may post
  Registered,    \* the accounts there may be already
  Workers,
  NoCode, NoRequest,
  MaxAttempts,   \* tries of a code (5)
  CodeTTL, CooldownTTL, AttemptsTTL,   \* 3, 1 and 3 minutes
  FirstUid,      \* user_id of an empty database (1000)
  LastUid,       \* CHECK: user_id.id < LastUid (2147483647)
  MaxCodes, MaxTokens, MaxCalls, MaxFaults, MaxTicks   \* bounds

Purposes == {"register", "reset"}
Keys == Purposes \X Emails
Request == [route : Purposes \cup {"login"}, email : Emails, name : Names,
            password : Passwords, code : Codes]

ASSUME TtlAssumption ==
  /\ {CodeTTL, CooldownTTL, AttemptsTTL, MaxAttempts} \subseteq Nat \ {0}
  /\ CodeTTL <= AttemptsTTL

Uids == FirstUid + 1 .. LastUid - 1
Row == [uid : Uids, name : Names, email : Emails, pwd : Passwords]

\* Accounts have uids without a gap and names and addresses of their own.
WellFormed(rows, last) ==
  /\ {x.uid : x \in rows} = FirstUid + 1 .. last
  /\ \A x, y \in rows : x.uid = y.uid \/ x.name = y.name \/ x.email = y.email => x = y

ASSUME AccountsAssumption ==
  /\ IsFiniteSet(Registered) /\ Registered \subseteq Row
  /\ WellFormed(Registered, FirstUid + Cardinality(Registered))
  /\ {FirstUid, LastUid, MaxCodes, MaxTokens, MaxCalls, MaxFaults, MaxTicks} \subseteq Nat
  /\ FirstUid < LastUid
  /\ Requests \subseteq Request /\ NoRequest \notin Request
  /\ Lower \in [Emails -> Emails] /\ \A e \in Emails : Lower[Lower[e]] = Lower[e]

VARIABLES
  code,        \* code_<purpose>:<email>
  attempts,    \* the same key with :attempts
  cooldown,    \* the TTL of the same key with :cooldown
  token,       \* utoken_<uid>
  user,        \* rows
  user_id,     \* last uid given out
  pc, op,      \* a worker's handler and request
  uid,         \* v_uid, or the uid of the account found
  paid,        \* history: the reservation whose code the worker consumed
  issued,      \* history: the keys of the reservations
  effects,     \* history: how accounts were made and changed, and for which reservation
  outcomes,    \* history: what reg_user returned
  ended,       \* history: tokens issued before the SETEX of a finished reset
  mark,        \* history: tokens issued before a worker's SETEX
  tokens, calls, faults, ticks

redis == <<code, attempts, cooldown>>
database == <<user, user_id>>
local == <<pc, op, uid, paid, mark>>
history == <<issued, effects, outcomes, ended>>
bounds == <<tokens, calls, faults, ticks>>
vars == <<redis, token, database, local, history, bounds>>

None == 0
Reservations == 1 .. MaxCodes
PC == {"idle", "consume", "exists", "lock", "insert", "commit", "result",
       "getuser", "revoke", "update", "checkpwd", "issue"}

\* code_<purpose>:<email as it was sent>
Key(w) == <<op[w].route, op[w].email>>

Goto(w, label) == pc' = [pc EXCEPT ![w] = label]

\* The response is written and the handler is left.
Answer(w) == /\ Goto(w, "idle")
             /\ op' = [op EXCEPT ![w] = NoRequest]
             /\ uid' = [uid EXCEPT ![w] = None]
             /\ paid' = [paid EXCEPT ![w] = None]
             /\ mark' = [mark EXCEPT ![w] = 0]
Stay == UNCHANGED <<op, uid, paid, mark>>

Init ==
  /\ code = [k \in Keys |-> NoCode]
  /\ attempts = [k \in Keys |-> [n |-> 0, ttl |-> 0]]
  /\ cooldown = [k \in Keys |-> 0]
  /\ token = [u \in Uids |-> None]
  /\ user \in {{}, Registered} /\ user_id = FirstUid + Cardinality(user)
  /\ pc = [w \in Workers |-> "idle"] /\ op = [w \in Workers |-> NoRequest]
  /\ uid = [w \in Workers |-> None] /\ paid = [w \in Workers |-> None]
  /\ mark = [w \in Workers |-> 0]
  /\ issued = <<>> /\ effects = <<>> /\ outcomes = {} /\ ended = {}
  /\ tokens = 0 /\ calls = 0 /\ faults = 0 /\ ticks = 0

(***************************************************************************)
(* Redis.                                                                  *)
(***************************************************************************)
NoAttempts == [n |-> 0, ttl |-> 0]
Reserved(k, c) ==
  /\ cooldown[k] = 0 /\ Len(issued) < MaxCodes
  /\ code' = [code EXCEPT ![k] = [value |-> c, ttl |-> CodeTTL,
                                  serial |-> Len(issued) + 1, tried |-> 0]]
  /\ issued' = Append(issued, k)
  /\ cooldown' = [cooldown EXCEPT ![k] = CooldownTTL]
  /\ UNCHANGED <<token, database, local, effects, outcomes, ended, bounds>>

\* Mutant: the attempts counter of the previous code is kept.
ReserveCodeKeeps(k, c) == Reserved(k, c) /\ UNCHANGED attempts

\* GetVarifyCode and its script: the code counts whether or not the mail is sent
\* and the gateway is still waiting.
ReserveCode(k, c) == Reserved(k, c) /\ attempts' = [attempts EXCEPT ![k] = NoAttempts]

\* The clock: TTLs run out.
Tick ==
  /\ ticks < MaxTicks
  /\ ticks' = ticks + 1
  /\ code' = [k \in Keys |-> IF code[k] = NoCode \/ code[k].ttl = 1 THEN NoCode
                             ELSE [code[k] EXCEPT !.ttl = @ - 1]]
  /\ attempts' = [k \in Keys |-> IF attempts[k].ttl <= 1 THEN NoAttempts
                                 ELSE [attempts[k] EXCEPT !.ttl = @ - 1]]
  /\ cooldown' = [k \in Keys |-> IF cooldown[k] = 0 THEN 0 ELSE cooldown[k] - 1]
  /\ UNCHANGED <<token, database, local, history, tokens, calls, faults>>

\* The TTL of a token, twelve hours or the second a reset leaves it.
Lapse(u) ==
  /\ token[u] # None
  /\ token' = [token EXCEPT ![u] = None]
  /\ UNCHANGED <<redis, database, local, history, bounds>>

(***************************************************************************)
(* A request arrives.                                                      *)
(***************************************************************************)
Post(w, r) ==
  /\ pc[w] = "idle" /\ calls < MaxCalls
  /\ calls' = calls + 1
  /\ op' = [op EXCEPT ![w] = r]
  /\ Goto(w, IF r.route = "login" THEN "checkpwd" ELSE "consume")
  /\ UNCHANGED <<redis, token, database, uid, paid, mark, history, tokens, faults, ticks>>

(***************************************************************************)
(* ConsumeCode's script on key k with guess c.                             *)
(***************************************************************************)
Counted(k) == [n |-> attempts[k].n + 1,
               ttl |-> IF attempts[k].n = 0 THEN AttemptsTTL ELSE attempts[k].ttl]

\* Its answer is 1.
Accepts(k, c) == /\ code[k] # NoCode
                 /\ attempts[k].n < MaxAttempts
                 /\ code[k].value = c

Script(k, c) ==
  \/ /\ code[k] = NoCode
     /\ UNCHANGED <<code, attempts>>
  \/ /\ code[k] # NoCode
     /\ attempts' = [attempts EXCEPT ![k] = Counted(k)]
     /\ code' = IF attempts[k].n >= MaxAttempts \/ code[k].value = c
                THEN [code EXCEPT ![k] = NoCode]
                ELSE [code EXCEPT ![k].tried = @ + 1]

AfterCode(w) == IF op[w].route = "register" THEN "exists" ELSE "getuser"
OnlyRedis == UNCHANGED <<cooldown, token, database, history, tokens, calls, ticks>>

\* Mutant: the code is deleted once the account has been written.
ConsumeCodeKeeps(w) ==
  LET k == Key(w) IN
  /\ pc[w] = "consume"
  /\ IF Accepts(k, op[w].code)
     THEN /\ paid' = [paid EXCEPT ![w] = code[k].serial]
          /\ Goto(w, AfterCode(w)) /\ UNCHANGED <<op, uid, mark, code>>
          /\ attempts' = [attempts EXCEPT ![k] = Counted(k)]
     ELSE Answer(w) /\ Script(k, op[w].code)
  /\ UNCHANGED faults /\ OnlyRedis

ConsumeCode(w) ==
  LET k == Key(w) IN
  /\ pc[w] = "consume"
  /\ Script(k, op[w].code)
  /\ \/ /\ Accepts(k, op[w].code)
        /\ paid' = [paid EXCEPT ![w] = code[k].serial]
        /\ Goto(w, AfterCode(w)) /\ UNCHANGED <<op, uid, mark>>
     \/ ~Accepts(k, op[w].code) /\ Answer(w)
  /\ UNCHANGED faults /\ OnlyRedis

\* Redis fails before or after it ran the script: VarifyCodeErr.
ConsumeCodeFails(w) ==
  /\ pc[w] = "consume" /\ faults < MaxFaults
  /\ faults' = faults + 1
  /\ Script(Key(w), op[w].code) \/ UNCHANGED <<code, attempts>>
  /\ Answer(w)
  /\ OnlyRedis

(***************************************************************************)
(* reg_user: one transaction.                                              *)
(***************************************************************************)
OnlyLocal == UNCHANGED <<redis, token, database, issued, effects, ended, bounds>>

Duplicate(r) == \E x \in user : x.name = r.name \/ x.email = Lower[r.email]

\* The procedure returns res, and RegUser passes it on.
Returns(w, res) ==
  /\ outcomes' = outcomes \cup {[req |-> op[w], result |-> res, held |-> Duplicate(op[w])]}
  /\ Answer(w)

\* IF EXISTS: a plain read of what is committed.
Exists(w) ==
  /\ pc[w] = "exists"
  /\ \/ Duplicate(op[w]) /\ Returns(w, 0)
     \/ ~Duplicate(op[w]) /\ Goto(w, "lock") /\ Stay /\ UNCHANGED outcomes
  /\ OnlyLocal

HoldsUserId(w) == pc[w] \in {"insert", "commit"}
Take(w) == /\ uid' = [uid EXCEPT ![w] = user_id + 1]
           /\ Goto(w, "insert") /\ UNCHANGED <<op, paid, mark>>

\* Mutant: SELECT id + 1 without FOR UPDATE.
LockPlainly(w) ==
  /\ pc[w] = "lock"
  /\ \/ user_id + 1 < LastUid /\ Take(w) /\ UNCHANGED outcomes
     \/ user_id + 1 >= LastUid /\ Returns(w, -1)
  /\ OnlyLocal

\* SELECT id + 1 FROM user_id ... FOR UPDATE; a uid that the column's CHECK
\* refuses is an SQLEXCEPTION.
Lock(w) ==
  /\ pc[w] = "lock" /\ \A v \in Workers \ {w} : ~HoldsUserId(v)
  /\ \/ user_id + 1 < LastUid /\ Take(w) /\ UNCHANGED outcomes
     \/ user_id + 1 >= LastUid /\ Returns(w, -1)
  /\ OnlyLocal

\* INSERT INTO user: 1062 of the keys on uid, name and email.
Insert(w) ==
  /\ pc[w] = "insert"
  /\ LET taken == Duplicate(op[w]) \/ \E x \in user : x.uid = uid[w]
     IN  \/ taken /\ Returns(w, 0)
         \/ ~taken /\ Goto(w, "commit") /\ Stay /\ UNCHANGED outcomes
  /\ OnlyLocal

\* What the reservation a worker consumed was spent on.
Effect(w) == [serial |-> paid[w], key |-> Key(w)]

Install(w) ==
  /\ user' = user \cup {[uid |-> uid[w], name |-> op[w].name,
                         email |-> Lower[op[w].email], pwd |-> op[w].password]}
  /\ user_id' = uid[w]
  /\ effects' = Append(effects, Effect(w))

Commit(w) ==
  /\ pc[w] = "commit"
  /\ Install(w)
  /\ Goto(w, "result") /\ Stay
  /\ UNCHANGED <<redis, token, issued, outcomes, ended, bounds>>

\* SELECT @result: uid > 0 is Success, everything else UserExist.
Result(w) == pc[w] = "result" /\ Returns(w, uid[w]) /\ OnlyLocal

\* A connection is missing or breaks, also in COMMIT: -1, or 0 without one.
RegUserFails(w) ==
  /\ pc[w] \in {"exists", "lock", "insert", "commit", "result"} /\ faults < MaxFaults
  /\ faults' = faults + 1
  /\ \/ UNCHANGED <<database, effects>>
     \/ pc[w] = "commit" /\ Install(w)
  /\ Answer(w)
  /\ UNCHANGED <<redis, token, issued, outcomes, ended, tokens, calls, ticks>>

(***************************************************************************)
(* Reset.                                                                  *)
(***************************************************************************)
\* GetUser(name), and its address must be the one the code was sent to.
GetUser(w) ==
  /\ pc[w] = "getuser"
  /\ LET found == {x \in user : x.name = op[w].name /\ x.email = op[w].email}
     IN  \/ found = {} /\ Answer(w)
         \/ \E x \in found : /\ uid' = [uid EXCEPT ![w] = x.uid]
                             /\ Goto(w, "revoke") /\ UNCHANGED <<op, paid, mark>>
  /\ OnlyLocal /\ UNCHANGED outcomes

\* Mutant: a SETEX that failed is not noticed.
RevokeIgnored(w) ==
  /\ pc[w] = "revoke"
  /\ token' = token
  /\ mark' = [mark EXCEPT ![w] = tokens]
  /\ Goto(w, "update")
  /\ UNCHANGED <<redis, database, op, uid, paid, history, bounds>>

\* SETEX of a random token for a second.
Revoke(w) ==
  /\ pc[w] = "revoke"
  /\ token' = [token EXCEPT ![uid[w]] = None]
  /\ mark' = [mark EXCEPT ![w] = tokens]
  /\ Goto(w, "update")
  /\ UNCHANGED <<redis, database, op, uid, paid, history, bounds>>

\* UPDATE user SET pwd = ... WHERE name = ...: Success.
UpdatePwd(w) ==
  /\ pc[w] = "update"
  /\ user' = {IF x.name = op[w].name THEN [x EXCEPT !.pwd = op[w].password] ELSE x : x \in user}
  /\ effects' = Append(effects, Effect(w))
  /\ ended' = ended \cup {<<uid[w], t>> : t \in 1 .. mark[w]}
  /\ Answer(w)
  /\ UNCHANGED <<redis, token, user_id, issued, outcomes, bounds>>

\* Each of the three calls may fail, or be executed without an answer.
ResetFails(w) ==
  /\ pc[w] \in {"getuser", "revoke", "update"} /\ faults < MaxFaults
  /\ faults' = faults + 1
  /\ \/ UNCHANGED <<token, user, effects>>
     \/ pc[w] = "revoke" /\ token' = [token EXCEPT ![uid[w]] = None] /\ UNCHANGED <<user, effects>>
     \/ /\ pc[w] = "update" /\ UNCHANGED token
        /\ user' = {IF x.name = op[w].name THEN [x EXCEPT !.pwd = op[w].password] ELSE x : x \in user}
        /\ effects' = Append(effects, Effect(w))
  /\ Answer(w)
  /\ UNCHANGED <<redis, user_id, issued, outcomes, ended, tokens, calls, ticks>>

(***************************************************************************)
(* Login.                                                                  *)
(***************************************************************************)
CheckPwd(w) ==
  /\ pc[w] = "checkpwd"
  /\ LET found == {x \in user : x.email = Lower[op[w].email] /\ x.pwd = op[w].password}
     IN  \/ found = {} /\ Answer(w)
         \/ \E x \in found : /\ uid' = [uid EXCEPT ![w] = x.uid]
                             /\ Goto(w, "issue") /\ UNCHANGED <<op, paid, mark>>
  /\ OnlyLocal /\ UNCHANGED outcomes

\* GetChatServer: insertToken replaces the user's token.
Issue(w) ==
  /\ pc[w] = "issue" /\ tokens < MaxTokens
  /\ tokens' = tokens + 1
  /\ token' = [token EXCEPT ![uid[w]] = tokens + 1]
  /\ Answer(w)
  /\ UNCHANGED <<redis, database, history, calls, faults, ticks>>

\* A call fails, or its answer is lost.
LoginFails(w) ==
  /\ pc[w] \in {"checkpwd", "issue"} /\ faults < MaxFaults
  /\ faults' = faults + 1
  /\ \/ UNCHANGED <<token, tokens>>
     \/ /\ pc[w] = "issue" /\ tokens < MaxTokens /\ tokens' = tokens + 1
        /\ token' = [token EXCEPT ![uid[w]] = tokens + 1]
  /\ Answer(w)
  /\ UNCHANGED <<redis, database, history, calls, ticks>>

Step(w) == \/ ConsumeCode(w) \/ Exists(w) \/ Lock(w) \/ Insert(w) \/ Commit(w) \/ Result(w)
           \/ GetUser(w) \/ Revoke(w) \/ UpdatePwd(w) \/ CheckPwd(w) \/ Issue(w)
Fault(w) == ConsumeCodeFails(w) \/ RegUserFails(w) \/ ResetFails(w) \/ LoginFails(w)

Next == \/ \E k \in Keys, c \in Codes : ReserveCode(k, c)
        \/ Tick \/ \E u \in Uids : Lapse(u)
        \/ \E w \in Workers : (\E r \in Requests : Post(w, r)) \/ Step(w) \/ Fault(w)

Spec == Init /\ [][Next]_vars

(***************************************************************************)
(* Properties.                                                             *)
(***************************************************************************)
TypeOK ==
  /\ code \in [Keys -> [value : Codes, ttl : 1 .. CodeTTL, serial : Reservations,
                        tried : 0 .. MaxAttempts] \cup {NoCode}]
  /\ attempts \in [Keys -> [n : 0 .. MaxAttempts + 1, ttl : 0 .. AttemptsTTL]]
  /\ cooldown \in [Keys -> 0 .. CooldownTTL]
  /\ token \in [Uids -> 0 .. MaxTokens]
  /\ user \subseteq Row /\ user_id \in FirstUid .. LastUid - 1
  /\ pc \in [Workers -> PC] /\ op \in [Workers -> Requests \cup {NoRequest}]
  /\ uid \in [Workers -> Uids \cup {None}] /\ paid \in [Workers -> 0 .. MaxCodes]

\* SECURITY_IMPLEMENTATION.md:49, "each code can be checked at most five times":
\* the counter has its own key and TTL, yet while a code is valid it is exactly
\* the tries of this code: it neither ends before the code nor is it left over
\* from an earlier one, so that a new code always has its five tries.
AttemptsExact ==
  \A k \in Keys : code[k] # NoCode =>
    /\ attempts[k].n = code[k].tried
    /\ code[k].tried <= MaxAttempts

\* SECURITY_IMPLEMENTATION.md:49, "consumed atomically, codes of registration and
\* reset are separate": however many gateways are given the same code at once,
\* it makes or changes one account, for the purpose and address it was sent for.
CodeSpentOnce ==
  \A i, j \in DOMAIN effects : /\ issued[effects[i].serial] = effects[i].key
                               /\ i # j => effects[i].serial # effects[j].serial

\* schema.sql, contract of reg_user: a uid is a new account, 0 means that name or
\* address is taken.  Uids are given out without gap or repeat although every
\* failing registration has drawn one.
RegisterHonest ==
  /\ \A o \in outcomes :
       /\ o.result > 0 => \E x \in user : /\ x.uid = o.result /\ x.name = o.req.name
                                          /\ x.email = Lower[o.req.email]
       /\ o.result = 0 => o.held
  /\ WellFormed(user, user_id)

\* After a reset that was answered with Success no token from before it is
\* valid, whatever logins ran beside it ("Invalidate existing sessions before
\* changing the credential").
ResetEndsSessions == \A u \in Uids : <<u, token[u]>> \notin ended
==============================================================================
