---------------------------- MODULE AccountsProofs ----------------------------
(***************************************************************************)
(* Theorems about Accounts, for any users, requests, gateways and bounds.  *)
(***************************************************************************)
EXTENDS Accounts, FiniteSetTheorems, TLAPS

(***************************************************************************)
(* The inductive invariant.                                                *)
(***************************************************************************)
CodeRow == [value : Codes, ttl : 1 .. CodeTTL, serial : Reservations,
            tried : 0 .. MaxAttempts]
Counter == [n : 0 .. MaxAttempts + 1, ttl : 0 .. AttemptsTTL]

\* While a code is valid its counter is exact and does not end before it.
RedisOK ==
  /\ code \in [Keys -> CodeRow \cup {NoCode}]
  /\ attempts \in [Keys -> Counter]
  /\ cooldown \in [Keys -> 0 .. CooldownTTL]
  /\ \A k \in Keys : code[k] # NoCode =>
       /\ attempts[k].n = code[k].tried
       /\ attempts[k].n > 0 => code[k].ttl <= attempts[k].ttl

\* Control points at which a worker may still use the code it consumed, and
\* those at which it has an account.
Spending == {"exists", "lock", "insert", "commit", "getuser", "revoke", "update"}
Found == {"insert", "commit", "result", "revoke", "update", "issue"}

LocalsOK ==
  /\ pc \in [Workers -> PC] /\ op \in [Workers -> Requests \cup {NoRequest}]
  /\ uid \in [Workers -> Uids \cup {None}] /\ paid \in [Workers -> 0 .. MaxCodes]
  /\ mark \in [Workers -> Nat]
  /\ \A w \in Workers :
       /\ pc[w] # "idle" => op[w] \in Requests
       /\ pc[w] \in {"consume"} \cup Spending => op[w].route \in Purposes
       /\ pc[w] \in Found => uid[w] \in Uids

TablesOK ==
  /\ user \subseteq Row /\ user_id \in FirstUid .. LastUid - 1
  /\ token \in [Uids -> 0 .. MaxTokens] /\ tokens \in 0 .. MaxTokens

HistoryOK ==
  /\ issued \in Seq(Keys) /\ Len(issued) <= MaxCodes
  /\ effects \in Seq([serial : Nat, key : Keys])

Types == RedisOK /\ LocalsOK /\ TablesOK /\ HistoryOK

\* A reservation is in one place at a time: valid, with one worker, or spent.
CodesOK ==
  \A k \in Keys : code[k] # NoCode =>
    /\ code[k].serial \in DOMAIN issued
    /\ issued[code[k].serial] = k

PaidOK ==
  \A w \in Workers : pc[w] \in Spending =>
    /\ paid[w] \in DOMAIN issued /\ issued[paid[w]] = Key(w)
    /\ \A k \in Keys : code[k] # NoCode => code[k].serial # paid[w]
    /\ \A i \in DOMAIN effects : effects[i].serial # paid[w]
    /\ \A v \in Workers \ {w} : pc[v] \in Spending => paid[v] # paid[w]

SpentOK ==
  /\ \A i \in DOMAIN effects :
       /\ effects[i].serial \in DOMAIN issued
       /\ \A k \in Keys : code[k] # NoCode => code[k].serial # effects[i].serial
  /\ CodeSpentOnce

SpendInv == CodesOK /\ PaidOK /\ SpentOK

\* One registration at a time has the lock of user_id, and before its COMMIT
\* nothing can take its uid, name or address.
LockOK ==
  \A w \in Workers : HoldsUserId(w) =>
    /\ uid[w] = user_id + 1
    /\ \A v \in Workers \ {w} : ~HoldsUserId(v)
    /\ pc[w] = "commit" => ~Duplicate(op[w])

Has(r, u) == \E x \in user : x.uid = u /\ x.name = r.name /\ x.email = Lower[r.email]

AccountInv ==
  /\ LockOK /\ RegisterHonest
  /\ \A w \in Workers : pc[w] = "result" => Has(op[w], uid[w])

\* Tokens are numbered as they are issued, and what a reset revokes stays so.
TokenInv ==
  /\ \A u \in Uids : token[u] <= tokens
  /\ \A w \in Workers : mark[w] <= tokens
  /\ \A w \in Workers : pc[w] = "update" =>
       token[uid[w]] = None \/ token[uid[w]] > mark[w]
  /\ \A x \in ended : x \in Uids \X (1 .. tokens)
  /\ ResetEndsSessions

IInv == Types /\ SpendInv /\ AccountInv /\ TokenInv

USE DEF None

\* What the assumptions say of the numbers.
LEMMA Numbers ==
  /\ MaxAttempts \in Nat \ {0} /\ CodeTTL \in Nat \ {0}
  /\ CooldownTTL \in Nat \ {0} /\ AttemptsTTL \in Nat \ {0}
  /\ CodeTTL <= AttemptsTTL
  /\ FirstUid \in Nat /\ LastUid \in Nat /\ FirstUid < LastUid
  /\ MaxCodes \in Nat /\ MaxTokens \in Nat
  /\ \A u \in Uids : u \in Nat /\ u > 0
BY AccountsAssumption, TtlAssumption DEF Uids

(***************************************************************************)
(* Locals: a step of w moves w alone.                                      *)
(***************************************************************************)
Moves(w) ==
  \A v \in Workers \ {w} :
    /\ pc'[v] = pc[v] /\ op'[v] = op[v] /\ uid'[v] = uid[v]
    /\ paid'[v] = paid[v] /\ mark'[v] = mark[v]

LEMMA AnswerMoves ==
  ASSUME Types, NEW w \in Workers, Answer(w)
  PROVE  LocalsOK' /\ Moves(w) /\ pc'[w] = "idle" /\ mark'[w] = 0
BY Numbers DEF Types, LocalsOK, Moves, Answer, Goto, PC, Spending, Found

\* w goes on to the point l; Stay is the case without a change of a local.
LEMMA GotoMoves ==
  ASSUME Types, NEW w \in Workers, NEW l \in PC, Goto(w, l),
         pc[w] # "idle", op' = op,
         l \in {"consume"} \cup Spending => op[w].route \in Purposes,
         uid' \in [Workers -> Uids \cup {None}],
         l \in Found => uid'[w] \in Uids,
         \A v \in Workers \ {w} : uid'[v] = uid[v],
         paid' \in [Workers -> 0 .. MaxCodes],
         \A v \in Workers \ {w} : paid'[v] = paid[v],
         mark' \in [Workers -> Nat],
         \A v \in Workers \ {w} : mark'[v] = mark[v]
  PROVE  LocalsOK' /\ Moves(w) /\ pc'[w] = l
<1>1. /\ pc' \in [Workers -> PC] /\ pc'[w] = l
      /\ \A v \in Workers \ {w} : pc'[v] = pc[v]
  BY DEF Types, LocalsOK, Goto
<1>2. Moves(w)
  BY <1>1 DEF Moves
<1>3. ASSUME NEW v \in Workers
      PROVE  /\ pc'[v] # "idle" => op'[v] \in Requests
             /\ pc'[v] \in {"consume"} \cup Spending => op'[v].route \in Purposes
             /\ pc'[v] \in Found => uid'[v] \in Uids
  <2>1. CASE v = w
    BY <1>1, <2>1 DEF Types, LocalsOK
  <2>2. CASE v # w
    BY <1>1, <2>2 DEF Types, LocalsOK
  <2> QED
    BY <2>1, <2>2
<1> QED
  BY <1>1, <1>2, <1>3 DEF Types, LocalsOK

LEMMA StayMoves ==
  ASSUME Types, NEW w \in Workers, NEW l \in PC, Goto(w, l), Stay,
         pc[w] # "idle",
         l \in {"consume"} \cup Spending => pc[w] \in {"consume"} \cup Spending,
         l \in Found => pc[w] \in Found
  PROVE  LocalsOK' /\ Moves(w) /\ pc'[w] = l
<1>1. op' = op /\ uid' = uid /\ paid' = paid /\ mark' = mark
  BY DEF Stay
<1>2. /\ l \in {"consume"} \cup Spending => op[w].route \in Purposes
      /\ l \in Found => uid'[w] \in Uids
  BY <1>1 DEF Types, LocalsOK
<1>3. /\ uid' \in [Workers -> Uids \cup {None}] /\ paid' \in [Workers -> 0 .. MaxCodes]
      /\ mark' \in [Workers -> Nat]
  BY <1>1 DEF Types, LocalsOK
<1> QED
  BY <1>1, <1>2, <1>3, GotoMoves

(***************************************************************************)
(* Redis: the attempts of a valid code are counted exactly.                *)
(***************************************************************************)
LEMMA ScriptKeeps ==
  ASSUME Types, NEW k \in Keys, NEW c \in Codes, Script(k, c), UNCHANGED cooldown
  PROVE  /\ RedisOK'
         /\ \A l \in Keys \ {k} : code'[l] = code[l]
         /\ code'[k] # NoCode => code[k] # NoCode /\ code'[k].serial = code[k].serial
         /\ Accepts(k, c) => code[k] # NoCode /\ code'[k] = NoCode
<1> DEFINE n == attempts[k].n
<1>1. CASE code[k] = NoCode
  BY <1>1 DEF Script, Types, RedisOK, Accepts
<1>2. CASE code[k] # NoCode
  <2>1. /\ code[k] \in CodeRow /\ attempts[k] \in Counter
        /\ n = code[k].tried
        /\ n > 0 => code[k].ttl <= attempts[k].ttl
    BY <1>2 DEF Types, RedisOK
  <2>2. /\ n \in 0 .. MaxAttempts /\ attempts[k].ttl \in 0 .. AttemptsTTL
        /\ code[k].ttl \in 1 .. CodeTTL
    BY <2>1 DEF CodeRow, Counter
  <2>3. /\ Counted(k) \in Counter /\ Counted(k).n = n + 1
        /\ code[k].ttl <= Counted(k).ttl
    <3> DEFINE ttl == IF n = 0 THEN AttemptsTTL ELSE attempts[k].ttl
    <3>1. Counted(k) = [n |-> n + 1, ttl |-> ttl]
      BY DEF Counted
    <3>2. n + 1 \in 0 .. MaxAttempts + 1 /\ ttl \in 0 .. AttemptsTTL /\ code[k].ttl <= ttl
      BY <2>1, <2>2, Numbers
    <3> HIDE DEF n, ttl
    <3> QED
      BY <3>1, <3>2 DEF Counter
  <2>4. attempts' = [attempts EXCEPT ![k] = Counted(k)]
    BY <1>2 DEF Script
  <2>5. attempts' \in [Keys -> Counter] /\ attempts'[k] = Counted(k)
        /\ \A l \in Keys \ {k} : attempts'[l] = attempts[l]
    BY <2>3, <2>4 DEF Types, RedisOK
  <2>6. CASE n >= MaxAttempts \/ code[k].value = c
    <3>1. code' = [code EXCEPT ![k] = NoCode]
      BY <1>2, <2>6 DEF Script
    <3>2. /\ code' \in [Keys -> CodeRow \cup {NoCode}] /\ code'[k] = NoCode
          /\ \A l \in Keys \ {k} : code'[l] = code[l]
      BY <3>1 DEF Types, RedisOK
    <3>3. ASSUME NEW l \in Keys, code'[l] # NoCode
          PROVE  /\ attempts'[l].n = code'[l].tried
                 /\ attempts'[l].n > 0 => code'[l].ttl <= attempts'[l].ttl
      BY <2>5, <3>2, <3>3 DEF Types, RedisOK
    <3> QED
      BY <1>2, <2>5, <3>2, <3>3 DEF Types, RedisOK
  <2>7. CASE ~(n >= MaxAttempts \/ code[k].value = c)
    <3> DEFINE row == [code[k] EXCEPT !.tried = @ + 1]
    <3>1. code' = [code EXCEPT ![k] = row]
      BY <1>2, <2>7 DEF Script
    <3>2. /\ row \in CodeRow /\ row.tried = n + 1 /\ row.ttl = code[k].ttl
          /\ row.serial = code[k].serial
      <4>1. code[k].tried + 1 \in 0 .. MaxAttempts /\ code[k].tried + 1 = n + 1
        BY <2>1, <2>2, <2>7, Numbers
      <4> QED
        BY <2>1, <4>1 DEF CodeRow
    <3>3. /\ code' \in [Keys -> CodeRow \cup {NoCode}] /\ code'[k] = row
          /\ \A l \in Keys \ {k} : code'[l] = code[l]
      BY <3>1, <3>2 DEF Types, RedisOK
    <3>4. ASSUME NEW l \in Keys, code'[l] # NoCode
          PROVE  /\ attempts'[l].n = code'[l].tried
                 /\ attempts'[l].n > 0 => code'[l].ttl <= attempts'[l].ttl
      <4>1. CASE l = k
        BY <2>3, <2>5, <3>2, <3>3, <4>1
      <4>2. CASE l # k
        BY <2>5, <3>3, <3>4, <4>2 DEF Types, RedisOK
      <4> QED
        BY <4>1, <4>2
    <3>5. ~Accepts(k, c)
      BY <2>7 DEF Accepts
    <3> QED
      BY <1>2, <2>5, <3>2, <3>3, <3>4, <3>5 DEF Types, RedisOK
  <2> QED
    BY <2>6, <2>7
<1> QED
  BY <1>1, <1>2

LEMMA ReserveKeeps ==
  ASSUME Types, NEW k \in Keys, NEW c \in Codes, ReserveCode(k, c)
  PROVE  Types'
<1> DEFINE row == [value |-> c, ttl |-> CodeTTL, serial |-> Len(issued) + 1, tried |-> 0]
<1>1. Len(issued) \in Nat /\ Len(issued) < MaxCodes
  BY DEF ReserveCode, Reserved, Types, HistoryOK
<1>2. row \in CodeRow /\ NoAttempts \in Counter
  BY <1>1, Numbers DEF CodeRow, Counter, Reservations, NoAttempts
<1>3. RedisOK'
  <2>1. code' = [code EXCEPT ![k] = row] /\ attempts' = [attempts EXCEPT ![k] = NoAttempts]
        /\ cooldown' = [cooldown EXCEPT ![k] = CooldownTTL]
    BY DEF ReserveCode, Reserved
  <2>2. /\ code' \in [Keys -> CodeRow \cup {NoCode}] /\ attempts' \in [Keys -> Counter]
        /\ cooldown' \in [Keys -> 0 .. CooldownTTL]
        /\ code'[k] = row /\ attempts'[k] = NoAttempts
        /\ \A l \in Keys \ {k} : code'[l] = code[l] /\ attempts'[l] = attempts[l]
    BY <1>2, <2>1, Numbers DEF Types, RedisOK
  <2>3. ASSUME NEW l \in Keys, code'[l] # NoCode
        PROVE  /\ attempts'[l].n = code'[l].tried
               /\ attempts'[l].n > 0 => code'[l].ttl <= attempts'[l].ttl
    <3>1. CASE l = k
      BY <2>2, <3>1 DEF NoAttempts
    <3>2. CASE l # k
      BY <2>2, <2>3, <3>2 DEF Types, RedisOK
    <3> QED
      BY <3>1, <3>2
  <2> QED
    BY <2>2, <2>3 DEF RedisOK
<1>4. HistoryOK'
  BY <1>1, Numbers DEF ReserveCode, Reserved, Types, HistoryOK
<1> QED
  BY <1>3, <1>4
  DEF ReserveCode, Reserved, Types, LocalsOK, TablesOK, local, database, bounds

LEMMA TickKeeps ==
  ASSUME Types, Tick
  PROVE  /\ Types'
         /\ \A k \in Keys : code'[k] # NoCode => /\ code[k] # NoCode
                                                 /\ code'[k].serial = code[k].serial
<1>1. ASSUME NEW k \in Keys
      PROVE  /\ code'[k] \in CodeRow \cup {NoCode} /\ attempts'[k] \in Counter
             /\ cooldown'[k] \in 0 .. CooldownTTL
             /\ code'[k] # NoCode => /\ code[k] # NoCode
                                     /\ code'[k].serial = code[k].serial
                                     /\ attempts'[k].n = code'[k].tried
                                     /\ attempts'[k].n > 0 => code'[k].ttl <= attempts'[k].ttl
  <2>1. /\ code'[k] = IF code[k] = NoCode \/ code[k].ttl = 1 THEN NoCode
                      ELSE [code[k] EXCEPT !.ttl = @ - 1]
        /\ attempts'[k] = IF attempts[k].ttl <= 1 THEN NoAttempts
                          ELSE [attempts[k] EXCEPT !.ttl = @ - 1]
        /\ cooldown'[k] = IF cooldown[k] = 0 THEN 0 ELSE cooldown[k] - 1
    BY DEF Tick
  <2>2. /\ code[k] \in CodeRow \cup {NoCode} /\ attempts[k] \in Counter
        /\ cooldown[k] \in 0 .. CooldownTTL
    BY DEF Types, RedisOK
  <2>3. attempts'[k] \in Counter /\ cooldown'[k] \in 0 .. CooldownTTL
    BY <2>1, <2>2, Numbers DEF Counter, NoAttempts
  <2>4. CASE code[k] = NoCode \/ code[k].ttl = 1
    BY <2>1, <2>3, <2>4
  <2>5. CASE ~(code[k] = NoCode \/ code[k].ttl = 1)
    <3>1. /\ code'[k] \in CodeRow /\ code'[k].serial = code[k].serial
          /\ code'[k].tried = code[k].tried /\ code'[k].ttl = code[k].ttl - 1
      BY <2>1, <2>2, <2>5, Numbers DEF CodeRow
    <3>2. /\ attempts[k].n = code[k].tried
          /\ attempts[k].n > 0 => code[k].ttl <= attempts[k].ttl
          /\ code[k].ttl \in Nat /\ code[k].ttl > 1
      BY <2>2, <2>5 DEF Types, RedisOK, CodeRow
    <3>3. attempts[k].n \in Nat /\ attempts[k].ttl \in Nat
      BY <2>2 DEF Counter
    <3>4. CASE attempts[k].n > 0
      BY <2>1, <2>2, <2>3, <2>5, <3>1, <3>2, <3>3, <3>4 DEF Counter
    <3>5. CASE attempts[k].n = 0
      BY <2>1, <2>2, <2>3, <2>5, <3>1, <3>2, <3>5 DEF Counter, NoAttempts
    <3> QED
      BY <3>3, <3>4, <3>5
  <2> QED
    BY <2>4, <2>5
<1>2. RedisOK'
  <2>1. /\ code' = [k \in Keys |-> code'[k]] /\ attempts' = [k \in Keys |-> attempts'[k]]
        /\ cooldown' = [k \in Keys |-> cooldown'[k]]
    BY DEF Tick
  <2> QED
    BY <1>1, <2>1 DEF RedisOK
<1> QED
  BY <1>1, <1>2 DEF Tick, Types, LocalsOK, TablesOK, HistoryOK, database, local, history

(***************************************************************************)
(* Type correctness.  Each lemma also says who moved, which is what the    *)
(* other parts of the invariant need to know of a step.                    *)
(***************************************************************************)
LEMMA OpFacts ==
  ASSUME Types, NEW w \in Workers, pc[w] # "idle"
  PROVE  /\ op[w] \in Request /\ op[w].email \in Emails /\ Lower[op[w].email] \in Emails
         /\ op[w].name \in Names /\ op[w].password \in Passwords /\ op[w].code \in Codes
         /\ pc[w] \in {"consume"} \cup Spending => Key(w) \in Keys
<1>1. op[w] \in Request
  BY AccountsAssumption DEF Types, LocalsOK
<1>2. op[w].email \in Emails /\ op[w].name \in Names /\ op[w].password \in Passwords
      /\ op[w].code \in Codes
  BY <1>1 DEF Request
<1>3. pc[w] \in {"consume"} \cup Spending => op[w].route \in Purposes
  BY DEF Types, LocalsOK
<1> QED
  BY <1>1, <1>2, <1>3, AccountsAssumption DEF Key, Keys

LEMMA PostMoves ==
  ASSUME Types, NEW w \in Workers, NEW r \in Requests, Post(w, r)
  PROVE  Types' /\ Moves(w) /\ pc[w] = "idle" /\ pc'[w] \in {"checkpwd", "consume"}
<1>1. /\ pc' = [pc EXCEPT ![w] = IF r.route = "login" THEN "checkpwd" ELSE "consume"]
      /\ op' = [op EXCEPT ![w] = r]
      /\ uid' = uid /\ paid' = paid /\ mark' = mark /\ pc[w] = "idle"
  BY DEF Post, Goto
<1>2. r.route \in Purposes \cup {"login"}
  BY AccountsAssumption DEF Request
<1>3. /\ pc' \in [Workers -> PC] /\ op' \in [Workers -> Requests \cup {NoRequest}]
      /\ pc'[w] = IF r.route = "login" THEN "checkpwd" ELSE "consume"
      /\ op'[w] = r
      /\ \A v \in Workers \ {w} : pc'[v] = pc[v] /\ op'[v] = op[v]
  BY <1>1 DEF Types, LocalsOK, PC
<1>4. ASSUME NEW v \in Workers
      PROVE  /\ pc'[v] # "idle" => op'[v] \in Requests
             /\ pc'[v] \in {"consume"} \cup Spending => op'[v].route \in Purposes
             /\ pc'[v] \in Found => uid'[v] \in Uids
  <2>1. CASE v = w
    BY <1>1, <1>2, <1>3, <2>1 DEF Spending, Found
  <2>2. CASE v # w
    BY <1>1, <1>3, <2>2 DEF Types, LocalsOK
  <2> QED
    BY <2>1, <2>2
<1>5. LocalsOK' /\ Moves(w)
  BY <1>1, <1>3, <1>4 DEF Types, LocalsOK, Moves
<1> QED
  BY <1>1, <1>3, <1>5
  DEF Post, Types, RedisOK, TablesOK, HistoryOK, redis, database, history

\* The code is taken by w, which may spend it, or the call ends.
LEMMA ConsumeMoves ==
  ASSUME Types, CodesOK, NEW w \in Workers, ConsumeCode(w)
  PROVE  /\ Types' /\ Moves(w) /\ pc[w] = "consume"
         /\ \/ pc'[w] = "idle"
            \/ /\ pc'[w] \in {"exists", "getuser"} /\ op' = op
               /\ code[Key(w)] # NoCode /\ code'[Key(w)] = NoCode
               /\ paid'[w] = code[Key(w)].serial
<1> DEFINE k == Key(w)
<1>1. /\ k \in Keys /\ op[w].code \in Codes /\ pc[w] = "consume"
      /\ op[w].route \in Purposes
  BY OpFacts DEF ConsumeCode, Types, LocalsOK
<1>2. /\ Script(k, op[w].code)
      /\ UNCHANGED <<cooldown, token, database, history, tokens>>
  BY DEF ConsumeCode, OnlyRedis
<1>3. RedisOK' /\ TablesOK' /\ HistoryOK'
  BY <1>1, <1>2, ScriptKeeps DEF Types, TablesOK, HistoryOK, database, history
<1>4. CASE ~Accepts(k, op[w].code) /\ Answer(w)
  BY <1>1, <1>3, <1>4, AnswerMoves DEF Types
<1>5. CASE /\ Accepts(k, op[w].code)
           /\ paid' = [paid EXCEPT ![w] = code[k].serial]
           /\ Goto(w, AfterCode(w)) /\ UNCHANGED <<op, uid, mark>>
  <2>1. code[k] # NoCode /\ code'[k] = NoCode /\ code[k].serial \in 0 .. MaxCodes
    BY <1>1, <1>2, <1>5, ScriptKeeps, Numbers DEF Types, RedisOK, CodeRow, Reservations
  <2>2. /\ paid' \in [Workers -> 0 .. MaxCodes] /\ paid'[w] = code[k].serial
        /\ \A v \in Workers \ {w} : paid'[v] = paid[v]
    BY <1>5, <2>1 DEF Types, LocalsOK
  <2>3. AfterCode(w) \in {"exists", "getuser"} /\ AfterCode(w) \in PC
        /\ AfterCode(w) \notin Found
    BY DEF AfterCode, PC, Found
  <2>4. LocalsOK' /\ Moves(w) /\ pc'[w] = AfterCode(w)
    <3>1. uid' \in [Workers -> Uids \cup {None}] /\ mark' \in [Workers -> Nat]
      BY <1>5 DEF Types, LocalsOK
    <3> QED
      BY <1>1, <1>5, <2>2, <2>3, <3>1, GotoMoves
  <2> QED
    BY <1>1, <1>3, <1>5, <2>1, <2>2, <2>3, <2>4 DEF Types
<1> QED
  BY <1>4, <1>5 DEF ConsumeCode

\* Steps that leave Redis, the tables and the history of codes alone.
LEMMA LocalTypes ==
  ASSUME Types, LocalsOK',
         UNCHANGED <<code, attempts, cooldown, token, user, user_id, issued, effects, tokens>>
  PROVE  Types'
BY DEF Types, RedisOK, TablesOK, HistoryOK

LEMMA ConsumeFailsMoves ==
  ASSUME Types, NEW w \in Workers, ConsumeCodeFails(w)
  PROVE  /\ Types' /\ Moves(w) /\ pc'[w] = "idle"
         /\ \A k \in Keys : code'[k] # NoCode => /\ code[k] # NoCode
                                                 /\ code'[k].serial = code[k].serial
<1>1. pc[w] = "consume" /\ Key(w) \in Keys /\ op[w].code \in Codes
  BY OpFacts DEF ConsumeCodeFails
<1>2. /\ Script(Key(w), op[w].code) \/ UNCHANGED <<code, attempts>>
      /\ UNCHANGED <<cooldown, token, user, user_id, issued, effects, tokens>>
  BY DEF ConsumeCodeFails, OnlyRedis, database, history
<1>3. LocalsOK' /\ Moves(w) /\ pc'[w] = "idle"
  BY AnswerMoves DEF ConsumeCodeFails
<1>4. CASE Script(Key(w), op[w].code)
  <2>1. /\ RedisOK'
        /\ \A l \in Keys \ {Key(w)} : code'[l] = code[l]
        /\ code'[Key(w)] # NoCode => /\ code[Key(w)] # NoCode
                                     /\ code'[Key(w)].serial = code[Key(w)].serial
    BY <1>1, <1>2, <1>4, ScriptKeeps
  <2>2. TablesOK' /\ HistoryOK'
    BY <1>2 DEF Types, TablesOK, HistoryOK
  <2> QED
    BY <1>1, <1>3, <2>1, <2>2 DEF Types
<1>5. CASE UNCHANGED <<code, attempts>>
  BY <1>2, <1>3, <1>5, LocalTypes
<1> QED
  BY <1>2, <1>4, <1>5

LEMMA ExistsMoves ==
  ASSUME Types, NEW w \in Workers, Exists(w)
  PROVE  Types' /\ Moves(w) /\ pc'[w] \in {"idle", "lock"}
         /\ (pc'[w] = "lock" => op' = op /\ paid' = paid)
<1>1. UNCHANGED <<code, attempts, cooldown, token, user, user_id, issued, effects, tokens>>
  BY DEF Exists, OnlyLocal, redis, database, bounds
<1>2. CASE Answer(w)
  BY <1>1, <1>2, AnswerMoves, LocalTypes
<1>3. CASE Goto(w, "lock") /\ Stay
  <2>1. LocalsOK' /\ Moves(w) /\ pc'[w] = "lock"
    BY <1>3, StayMoves DEF Exists, PC, Spending, Found
  <2> QED
    BY <1>1, <1>3, <2>1, LocalTypes DEF Stay
<1> QED
  BY <1>2, <1>3 DEF Exists, Returns

LEMMA LockMoves ==
  ASSUME Types, NEW w \in Workers, Lock(w)
  PROVE  /\ Types' /\ Moves(w)
         /\ \/ pc'[w] = "idle"
            \/ pc'[w] = "insert" /\ op' = op /\ paid' = paid /\ uid'[w] = user_id + 1
<1>1. UNCHANGED <<code, attempts, cooldown, token, user, user_id, issued, effects, tokens>>
  BY DEF Lock, OnlyLocal, redis, database, bounds
<1>2. CASE Answer(w)
  BY <1>1, <1>2, AnswerMoves, LocalTypes
<1>3. CASE user_id + 1 < LastUid /\ Take(w)
  <2>1. user_id + 1 \in Uids
    BY <1>3, Numbers DEF Types, TablesOK, Uids
  <2>2. /\ Goto(w, "insert") /\ op' = op /\ paid' = paid /\ mark' = mark
        /\ uid' \in [Workers -> Uids \cup {None}] /\ uid'[w] = user_id + 1
        /\ \A v \in Workers \ {w} : uid'[v] = uid[v]
    BY <1>3, <2>1 DEF Take, Types, LocalsOK
  <2>3. op[w].route \in Purposes /\ pc[w] # "idle"
    BY DEF Lock, Types, LocalsOK, Spending
  <2>4. paid' \in [Workers -> 0 .. MaxCodes] /\ mark' \in [Workers -> Nat]
    BY <2>2 DEF Types, LocalsOK
  <2>5. "insert" \in PC
    BY DEF PC
  <2>6. LocalsOK' /\ Moves(w) /\ pc'[w] = "insert"
    BY <2>1, <2>2, <2>3, <2>4, <2>5, GotoMoves
  <2> QED
    BY <1>1, <2>2, <2>6, LocalTypes
<1> QED
  BY <1>2, <1>3 DEF Lock, Returns

LEMMA InsertMoves ==
  ASSUME Types, NEW w \in Workers, Insert(w)
  PROVE  /\ Types' /\ Moves(w)
         /\ \/ pc'[w] = "idle"
            \/ pc'[w] = "commit" /\ op' = op /\ paid' = paid /\ uid' = uid
<1>1. UNCHANGED <<code, attempts, cooldown, token, user, user_id, issued, effects, tokens>>
  BY DEF Insert, OnlyLocal, redis, database, bounds
<1>2. CASE Answer(w)
  BY <1>1, <1>2, AnswerMoves, LocalTypes
<1>3. CASE Goto(w, "commit") /\ Stay
  <2>1. LocalsOK' /\ Moves(w) /\ pc'[w] = "commit"
    BY <1>3, StayMoves DEF Insert, PC, Spending, Found
  <2> QED
    BY <1>1, <1>3, <2>1, LocalTypes DEF Stay
<1> QED
  BY <1>2, <1>3 DEF Insert, Returns

\* A new account and what it was paid with have their types.
LEMMA InstallTypes ==
  ASSUME Types, NEW w \in Workers, pc[w] = "commit", Install(w),
         UNCHANGED <<token, tokens, issued>>
  PROVE  TablesOK' /\ HistoryOK'
<1>1. /\ uid[w] \in Uids /\ Lower[op[w].email] \in Emails
      /\ op[w].name \in Names /\ op[w].password \in Passwords /\ Key(w) \in Keys
      /\ paid[w] \in Nat
  BY OpFacts, Numbers DEF Types, LocalsOK, Spending, Found
<1>2. user' \subseteq Row
  <2>1. [uid |-> uid[w], name |-> op[w].name, email |-> Lower[op[w].email],
         pwd |-> op[w].password] \in Row
    BY <1>1 DEF Row
  <2> QED
    BY <2>1 DEF Install, Types, TablesOK
<1>3. user_id' \in FirstUid .. LastUid - 1
  BY <1>1, Numbers DEF Install, Uids
<1>4. Effect(w) \in [serial : Nat, key : Keys]
  BY <1>1 DEF Effect
<1>5. effects' \in Seq([serial : Nat, key : Keys])
  BY <1>4 DEF Install, Types, HistoryOK
<1> QED
  BY <1>2, <1>3, <1>5 DEF Types, TablesOK, HistoryOK

LEMMA CommitMoves ==
  ASSUME Types, NEW w \in Workers, Commit(w)
  PROVE  Types' /\ Moves(w) /\ pc'[w] = "result" /\ op' = op /\ uid' = uid
<1>1. LocalsOK' /\ Moves(w) /\ pc'[w] = "result"
  BY StayMoves DEF Commit, PC, Spending, Found
<1>2. TablesOK' /\ HistoryOK'
  BY InstallTypes DEF Commit, bounds
<1>3. RedisOK'
  BY DEF Commit, redis, Types, RedisOK
<1> QED
  BY <1>1, <1>2, <1>3 DEF Types, Commit, Stay

LEMMA ResultMoves ==
  ASSUME Types, NEW w \in Workers, Result(w)
  PROVE  Types' /\ Moves(w) /\ pc'[w] = "idle"
BY AnswerMoves, LocalTypes DEF Result, Returns, OnlyLocal, redis, database, bounds

LEMMA RegUserFailsMoves ==
  ASSUME Types, NEW w \in Workers, RegUserFails(w)
  PROVE  Types' /\ Moves(w) /\ pc'[w] = "idle"
<1>1. /\ LocalsOK' /\ Moves(w) /\ pc'[w] = "idle"
      /\ UNCHANGED <<code, attempts, cooldown, token, issued, tokens>>
  BY AnswerMoves DEF RegUserFails, redis
<1>2. CASE UNCHANGED <<database, effects>>
  BY <1>1, <1>2, LocalTypes DEF database
<1>3. CASE pc[w] = "commit" /\ Install(w)
  <2>1. TablesOK' /\ HistoryOK'
    BY <1>1, <1>3, InstallTypes
  <2>2. RedisOK'
    BY <1>1 DEF Types, RedisOK
  <2> QED
    BY <1>1, <2>1, <2>2 DEF Types
<1> QED
  BY <1>1, <1>2, <1>3 DEF RegUserFails

\* w goes on with an account it found.
LEMMA FindMoves ==
  ASSUME Types, NEW w \in Workers, NEW x \in user, NEW l \in {"revoke", "issue"},
         l = "revoke" => pc[w] = "getuser", pc[w] # "idle",
         uid' = [uid EXCEPT ![w] = x.uid], Goto(w, l), UNCHANGED <<op, paid, mark>>
  PROVE  LocalsOK' /\ Moves(w) /\ pc'[w] = l
<1>1. x.uid \in Uids
  BY DEF Types, TablesOK, Row
<1>2. /\ uid' \in [Workers -> Uids \cup {None}] /\ uid'[w] = x.uid
      /\ \A v \in Workers \ {w} : uid'[v] = uid[v]
  BY <1>1 DEF Types, LocalsOK
<1>3. l = "revoke" => op[w].route \in Purposes
  BY DEF Types, LocalsOK, Spending
<1>4. l \in PC /\ (l \in {"consume"} \cup Spending => l = "revoke")
  BY DEF PC, Spending
<1>5. paid' \in [Workers -> 0 .. MaxCodes] /\ mark' \in [Workers -> Nat]
  BY DEF Types, LocalsOK
<1> QED
  BY <1>1, <1>2, <1>3, <1>4, <1>5, GotoMoves

LEMMA GetUserMoves ==
  ASSUME Types, NEW w \in Workers, GetUser(w)
  PROVE  /\ Types' /\ Moves(w) /\ pc[w] = "getuser"
         /\ pc'[w] = "idle" \/ (pc'[w] = "revoke" /\ op' = op /\ paid' = paid)
<1>1. UNCHANGED <<code, attempts, cooldown, token, user, user_id, issued, effects, tokens>>
  BY DEF GetUser, OnlyLocal, redis, database, bounds
<1>2. CASE Answer(w)
  BY <1>1, <1>2, AnswerMoves, LocalTypes DEF GetUser
<1>3. CASE \E x \in user : /\ uid' = [uid EXCEPT ![w] = x.uid]
                           /\ Goto(w, "revoke") /\ UNCHANGED <<op, paid, mark>>
  BY <1>1, <1>3, FindMoves, LocalTypes DEF GetUser
<1> QED
  BY <1>2, <1>3 DEF GetUser

LEMMA CheckPwdMoves ==
  ASSUME Types, NEW w \in Workers, CheckPwd(w)
  PROVE  Types' /\ Moves(w) /\ pc'[w] \in {"idle", "issue"}
<1>1. UNCHANGED <<code, attempts, cooldown, token, user, user_id, issued, effects, tokens>>
  BY DEF CheckPwd, OnlyLocal, redis, database, bounds
<1>2. CASE Answer(w)
  BY <1>1, <1>2, AnswerMoves, LocalTypes
<1>3. CASE \E x \in user : /\ uid' = [uid EXCEPT ![w] = x.uid]
                           /\ Goto(w, "issue") /\ UNCHANGED <<op, paid, mark>>
  BY <1>1, <1>3, FindMoves, LocalTypes DEF CheckPwd
<1> QED
  BY <1>2, <1>3 DEF CheckPwd

LEMMA LapseTypes ==
  ASSUME Types, NEW u \in Uids, Lapse(u)
  PROVE  /\ Types' /\ token' \in [Uids -> 0 .. MaxTokens]
         /\ \A t \in Uids : token'[t] \in {token[t], None}
<1>1. /\ token' \in [Uids -> 0 .. MaxTokens]
      /\ \A t \in Uids : token'[t] \in {token[t], None}
  BY Numbers DEF Lapse, Types, TablesOK
<1> QED
  BY <1>1 DEF Lapse, redis, database, local, history, bounds, Types, RedisOK, LocalsOK,
              TablesOK, HistoryOK

LEMMA RevokeMoves ==
  ASSUME Types, NEW w \in Workers, Revoke(w)
  PROVE  /\ Types' /\ Moves(w) /\ pc[w] = "revoke" /\ pc'[w] = "update"
         /\ op' = op /\ paid' = paid /\ uid' = uid
         /\ uid[w] \in Uids /\ token'[uid[w]] = None /\ mark'[w] = tokens
         /\ \A u \in Uids \ {uid[w]} : token'[u] = token[u]
<1>1. uid[w] \in Uids /\ op[w].route \in Purposes /\ pc[w] = "revoke"
  BY DEF Revoke, Types, LocalsOK, Found, Spending
<1>2. /\ token' \in [Uids -> 0 .. MaxTokens] /\ token'[uid[w]] = None
      /\ \A u \in Uids \ {uid[w]} : token'[u] = token[u]
  BY <1>1, Numbers DEF Revoke, Types, TablesOK
<1>3. /\ mark' \in [Workers -> Nat] /\ mark'[w] = tokens
      /\ \A v \in Workers \ {w} : mark'[v] = mark[v]
  BY DEF Revoke, Types, TablesOK, LocalsOK
<1>4. /\ op' = op /\ uid' = uid /\ paid' = paid /\ Goto(w, "update")
      /\ uid' \in [Workers -> Uids \cup {None}] /\ paid' \in [Workers -> 0 .. MaxCodes]
      /\ "update" \in PC
  BY DEF Revoke, Types, LocalsOK, PC
<1>5. LocalsOK' /\ Moves(w) /\ pc'[w] = "update"
  BY <1>1, <1>3, <1>4, GotoMoves
<1>6. RedisOK' /\ TablesOK' /\ HistoryOK'
  BY <1>2 DEF Revoke, Types, RedisOK, TablesOK, HistoryOK, redis, database, history, bounds
<1> QED
  BY <1>1, <1>2, <1>3, <1>4, <1>5, <1>6 DEF Types

\* UPDATE user SET pwd: accounts keep their uids, names and addresses.
Repwd(r) == {IF x.name = r.name THEN [x EXCEPT !.pwd = r.password] ELSE x : x \in user}

LEMMA RepwdRows ==
  ASSUME Types, NEW r, r.password \in Passwords
  PROVE  /\ Repwd(r) \subseteq Row
         /\ \A x \in user : \E y \in Repwd(r) :
              y.uid = x.uid /\ y.name = x.name /\ y.email = x.email
         /\ \A y \in Repwd(r) : \E x \in user :
              /\ y.uid = x.uid /\ y.name = x.name /\ y.email = x.email
              /\ y = IF x.name = r.name THEN [x EXCEPT !.pwd = r.password] ELSE x
<1> DEFINE new(x) == IF x.name = r.name THEN [x EXCEPT !.pwd = r.password] ELSE x
<1>1. ASSUME NEW x \in user
      PROVE  /\ new(x) \in Row /\ new(x).uid = x.uid
             /\ new(x).name = x.name /\ new(x).email = x.email
  <2>1. x \in Row
    BY DEF Types, TablesOK
  <2> QED
    BY <2>1 DEF Row
<1>2. Repwd(r) = {new(x) : x \in user}
  BY DEF Repwd
<1> QED
  BY <1>1, <1>2

LEMMA SpendTypes ==
  ASSUME Types, NEW w \in Workers, pc[w] = "update", user' = Repwd(op[w]),
         effects' = Append(effects, Effect(w)), UNCHANGED <<token, tokens, issued, user_id>>
  PROVE  TablesOK' /\ HistoryOK'
<1>1. op[w].password \in Passwords /\ Key(w) \in Keys /\ paid[w] \in Nat
  BY OpFacts, Numbers DEF Types, LocalsOK, Spending
<1>2. user' \subseteq Row
  BY <1>1, RepwdRows
<1>3. Effect(w) \in [serial : Nat, key : Keys]
  BY <1>1 DEF Effect
<1>4. effects' \in Seq([serial : Nat, key : Keys])
  BY <1>3 DEF Types, HistoryOK
<1> QED
  BY <1>2, <1>4 DEF Types, TablesOK, HistoryOK

LEMMA UpdatePwdMoves ==
  ASSUME Types, NEW w \in Workers, UpdatePwd(w)
  PROVE  Types' /\ Moves(w) /\ pc'[w] = "idle" /\ user' = Repwd(op[w]) /\ mark'[w] = 0
<1>1. user' = Repwd(op[w])
  BY DEF UpdatePwd, Repwd
<1>2. LocalsOK' /\ Moves(w) /\ pc'[w] = "idle" /\ mark'[w] = 0
  BY AnswerMoves DEF UpdatePwd
<1>3. TablesOK' /\ HistoryOK'
  BY <1>1, SpendTypes DEF UpdatePwd, bounds
<1>4. RedisOK'
  BY DEF UpdatePwd, redis, Types, RedisOK
<1> QED
  BY <1>1, <1>2, <1>3, <1>4 DEF Types

\* The three ways in which a step of a reset fails.
LEMMA ResetFailsMoves ==
  ASSUME Types, NEW w \in Workers, ResetFails(w)
  PROVE  /\ Types' /\ Moves(w) /\ pc'[w] = "idle" /\ mark'[w] = 0
         /\ \A u \in Uids : token'[u] \in {token[u], None}
         /\ \/ UNCHANGED <<user, effects>>
            \/ /\ pc[w] = "update" /\ user' = Repwd(op[w])
               /\ effects' = Append(effects, Effect(w))
<1>1. /\ LocalsOK' /\ Moves(w) /\ pc'[w] = "idle" /\ mark'[w] = 0
      /\ UNCHANGED <<code, attempts, cooldown, user_id, issued, tokens>>
  BY AnswerMoves DEF ResetFails, redis
<1>2. RedisOK'
  BY <1>1 DEF Types, RedisOK
<1>3. CASE UNCHANGED <<token, user, effects>>
  BY <1>1, <1>3, LocalTypes
<1>4. CASE /\ pc[w] = "revoke" /\ token' = [token EXCEPT ![uid[w]] = None]
           /\ UNCHANGED <<user, effects>>
  <2>1. /\ token' \in [Uids -> 0 .. MaxTokens]
        /\ \A u \in Uids : token'[u] \in {token[u], None}
    <3>1. token \in [Uids -> 0 .. MaxTokens] /\ None \in 0 .. MaxTokens
      BY Numbers DEF Types, TablesOK
    <3>2. ASSUME NEW u \in Uids
          PROVE  token'[u] = IF u = uid[w] THEN None ELSE token[u]
      BY <1>4, <3>1
    <3>3. token' = [u \in Uids |-> token'[u]]
      BY <1>4, <3>1
    <3> QED
      BY <3>1, <3>2, <3>3
  <2>2. TablesOK' /\ HistoryOK'
    BY <1>1, <1>4, <2>1 DEF Types, TablesOK, HistoryOK
  <2> QED
    BY <1>1, <1>2, <1>4, <2>1, <2>2 DEF Types
<1>5. CASE /\ pc[w] = "update" /\ UNCHANGED token /\ user' = Repwd(op[w])
           /\ effects' = Append(effects, Effect(w))
  BY <1>1, <1>2, <1>5, SpendTypes DEF Types
<1> QED
  BY <1>3, <1>4, <1>5 DEF ResetFails, Repwd

\* A new token for w's account.
LEMMA IssueTypes ==
  ASSUME Types, NEW w \in Workers, pc[w] = "issue", tokens < MaxTokens,
         tokens' = tokens + 1, token' = [token EXCEPT ![uid[w]] = tokens + 1],
         UNCHANGED <<user, user_id>>
  PROVE  /\ TablesOK' /\ uid[w] \in Uids /\ token'[uid[w]] = tokens + 1
         /\ \A u \in Uids \ {uid[w]} : token'[u] = token[u]
<1>1. uid[w] \in Uids
  BY DEF Types, LocalsOK, Found
<1>2. tokens + 1 \in 0 .. MaxTokens
  BY Numbers DEF Types, TablesOK
<1> QED
  BY <1>1, <1>2 DEF Types, TablesOK

LEMMA IssueMoves ==
  ASSUME Types, NEW w \in Workers, Issue(w)
  PROVE  Types' /\ Moves(w) /\ pc'[w] = "idle" /\ mark'[w] = 0
<1>1. LocalsOK' /\ Moves(w) /\ pc'[w] = "idle" /\ mark'[w] = 0
  BY AnswerMoves DEF Issue
<1>2. TablesOK'
  BY IssueTypes DEF Issue, database
<1>3. RedisOK' /\ HistoryOK'
  BY DEF Issue, redis, history, Types, RedisOK, HistoryOK
<1> QED
  BY <1>1, <1>2, <1>3 DEF Types

LEMMA LoginFailsMoves ==
  ASSUME Types, NEW w \in Workers, LoginFails(w)
  PROVE  Types' /\ Moves(w) /\ pc'[w] = "idle" /\ mark'[w] = 0
<1>1. LocalsOK' /\ Moves(w) /\ pc'[w] = "idle" /\ mark'[w] = 0
  BY AnswerMoves DEF LoginFails
<1>2. TablesOK'
  BY IssueTypes DEF LoginFails, database, Types, TablesOK
<1>3. RedisOK' /\ HistoryOK'
  BY DEF LoginFails, redis, history, Types, RedisOK, HistoryOK
<1> QED
  BY <1>1, <1>2, <1>3 DEF Types

(***************************************************************************)
(* A reservation is in one place at a time.                                *)
(***************************************************************************)
\* Nobody consumes, spends or is given a code; codes and workers may drop one.
LEMMA SpendFrame ==
  ASSUME Types, SpendInv, UNCHANGED <<issued, effects>>,
         \A k \in Keys : code'[k] # NoCode => /\ code[k] # NoCode
                                              /\ code'[k].serial = code[k].serial,
         \A v \in Workers : pc'[v] \in Spending =>
           pc[v] \in Spending /\ paid'[v] = paid[v] /\ op'[v] = op[v]
  PROVE  SpendInv'
<1>1. CodesOK'
  BY DEF SpendInv, CodesOK
<1>2. PaidOK'
  <2> SUFFICES ASSUME NEW w \in Workers, pc'[w] \in Spending
               PROVE  /\ paid'[w] \in DOMAIN issued' /\ issued'[paid'[w]] = Key(w)'
                      /\ \A k \in Keys : code'[k] # NoCode => code'[k].serial # paid'[w]
                      /\ \A i \in DOMAIN effects' : effects'[i].serial # paid'[w]
                      /\ \A v \in Workers \ {w} : pc'[v] \in Spending => paid'[v] # paid'[w]
    BY DEF PaidOK
  <2>1. pc[w] \in Spending /\ paid'[w] = paid[w] /\ op'[w] = op[w]
    OBVIOUS
  <2>2. Key(w)' = Key(w)
    BY <2>1 DEF Key
  <2> QED
    BY <2>1, <2>2 DEF SpendInv, PaidOK
<1>3. SpentOK'
  BY DEF SpendInv, SpentOK, CodeSpentOnce
<1> QED
  BY <1>1, <1>2, <1>3 DEF SpendInv

\* The same, of a step of one worker.
LEMMA SpendFrameOf ==
  ASSUME Types, SpendInv, UNCHANGED <<issued, effects, code>>, NEW w \in Workers, Moves(w),
         pc'[w] \in Spending => pc[w] \in Spending /\ paid'[w] = paid[w] /\ op'[w] = op[w]
  PROVE  SpendInv'
BY SpendFrame DEF Moves

LEMMA ReserveSpends ==
  ASSUME Types, SpendInv, NEW k \in Keys, NEW c \in Codes, ReserveCode(k, c)
  PROVE  SpendInv'
<1> DEFINE s == Len(issued) + 1
<1>1. /\ issued \in Seq(Keys) /\ Len(issued) \in Nat /\ DOMAIN issued = 1 .. Len(issued)
      /\ issued' = Append(issued, k)
  BY DEF ReserveCode, Reserved, Types, HistoryOK
<1>2. /\ DOMAIN issued' = DOMAIN issued \cup {s} /\ issued'[s] = k /\ s \notin DOMAIN issued
      /\ \A i \in DOMAIN issued : issued'[i] = issued[i]
  BY <1>1
<1>3. /\ code'[k] = [value |-> c, ttl |-> CodeTTL, serial |-> s, tried |-> 0]
      /\ \A l \in Keys \ {k} : code'[l] = code[l]
      /\ UNCHANGED <<pc, op, paid, effects>>
  BY DEF ReserveCode, Reserved, Types, RedisOK, local
<1>4. code'[k].serial = s
  BY <1>3
<1> HIDE DEF s
<1>5. CodesOK'
  BY <1>2, <1>3, <1>4 DEF SpendInv, CodesOK
<1>6. PaidOK'
  <2> SUFFICES ASSUME NEW w \in Workers, pc[w] \in Spending
               PROVE  /\ paid[w] \in DOMAIN issued' /\ issued'[paid[w]] = Key(w)
                      /\ \A l \in Keys : code'[l] # NoCode => code'[l].serial # paid[w]
                      /\ \A i \in DOMAIN effects : effects[i].serial # paid[w]
                      /\ \A v \in Workers \ {w} : pc[v] \in Spending => paid[v] # paid[w]
    BY <1>3 DEF PaidOK, Key
  <2>1. paid[w] \in DOMAIN issued /\ issued[paid[w]] = Key(w)
    BY DEF SpendInv, PaidOK
  <2>2. \A l \in Keys : code'[l] # NoCode => code'[l].serial # paid[w]
    BY <1>2, <1>3, <1>4, <2>1 DEF SpendInv, PaidOK
  <2> QED
    BY <1>2, <2>1, <2>2 DEF SpendInv, PaidOK
<1>7. SpentOK'
  <2>1. ASSUME NEW i \in DOMAIN effects
        PROVE  /\ effects[i].serial \in DOMAIN issued'
               /\ issued'[effects[i].serial] = effects[i].key
               /\ \A l \in Keys : code'[l] # NoCode => code'[l].serial # effects[i].serial
    <3>1. /\ effects[i].serial \in DOMAIN issued
          /\ issued[effects[i].serial] = effects[i].key
      BY DEF SpendInv, SpentOK, CodeSpentOnce
    <3> QED
      BY <1>2, <1>3, <1>4, <3>1 DEF SpendInv, SpentOK
  <2> QED
    BY <1>3, <2>1 DEF SpendInv, SpentOK, CodeSpentOnce
<1> QED
  BY <1>5, <1>6, <1>7 DEF SpendInv

LEMMA ConsumeSpends ==
  ASSUME Types, SpendInv, NEW w \in Workers, ConsumeCode(w)
  PROVE  SpendInv'
<1> DEFINE k == Key(w)
<1>1. CodesOK
  BY DEF SpendInv
<1>2. /\ Moves(w) /\ pc[w] = "consume" /\ k \in Keys /\ op[w].code \in Codes
      /\ UNCHANGED <<issued, effects>> /\ Script(k, op[w].code) /\ UNCHANGED cooldown
  BY <1>1, ConsumeMoves, OpFacts DEF ConsumeCode, OnlyRedis, history
<1>3. /\ \A l \in Keys \ {k} : code'[l] = code[l]
      /\ code'[k] # NoCode => code[k] # NoCode /\ code'[k].serial = code[k].serial
  BY <1>2, ScriptKeeps
<1>4. \A l \in Keys : code'[l] # NoCode => code[l] # NoCode /\ code'[l].serial = code[l].serial
  BY <1>3
<1>5. CASE pc'[w] = "idle"
  BY <1>2, <1>4, <1>5, SpendFrame DEF Moves, Spending
<1>6. CASE /\ pc'[w] \in {"exists", "getuser"} /\ op' = op
           /\ code[k] # NoCode /\ code'[k] = NoCode
           /\ paid'[w] = code[k].serial
  <2>1. CodesOK'
    BY <1>2, <1>4 DEF SpendInv, CodesOK
  <2>2. paid'[w] \in DOMAIN issued /\ issued[paid'[w]] = k
    BY <1>2, <1>6 DEF SpendInv, CodesOK
  <2>3. \A l \in Keys : code'[l] # NoCode => code'[l].serial # paid'[w]
    BY <1>2, <1>3, <1>6, <2>2 DEF SpendInv, CodesOK
  <2>4. \A i \in DOMAIN effects : effects[i].serial # paid'[w]
    BY <1>2, <1>6 DEF SpendInv, SpentOK
  <2>5. \A v \in Workers \ {w} : pc'[v] \in Spending =>
          /\ pc[v] \in Spending /\ paid'[v] = paid[v] /\ paid'[v] # paid'[w]
    BY <1>2, <1>6 DEF Moves, SpendInv, PaidOK
  <2>6. PaidOK'
    <3> SUFFICES ASSUME NEW v \in Workers, pc'[v] \in Spending
                 PROVE  /\ paid'[v] \in DOMAIN issued /\ issued[paid'[v]] = Key(v)
                        /\ \A l \in Keys : code'[l] # NoCode => code'[l].serial # paid'[v]
                        /\ \A i \in DOMAIN effects : effects[i].serial # paid'[v]
                        /\ \A u \in Workers \ {v} : pc'[u] \in Spending => paid'[u] # paid'[v]
      BY <1>2, <1>6 DEF PaidOK, Key
    <3>1. CASE v = w
      BY <2>2, <2>3, <2>4, <2>5, <3>1
    <3>2. CASE v # w
      <4>1. pc[v] \in Spending /\ paid'[v] = paid[v] /\ paid'[v] # paid'[w]
        BY <2>5, <3>2
      <4>2. \A u \in Workers \ {v} : pc'[u] \in Spending => paid'[u] # paid'[v]
        BY <2>5, <4>1 DEF SpendInv, PaidOK
      <4> QED
        BY <1>4, <4>1, <4>2 DEF SpendInv, PaidOK
    <3> QED
      BY <3>1, <3>2
  <2>7. SpentOK'
    BY <1>2, <1>4 DEF SpendInv, SpentOK, CodeSpentOnce
  <2> QED
    BY <2>1, <2>6, <2>7 DEF SpendInv
<1> QED
  BY <1>1, <1>5, <1>6, ConsumeMoves

\* w makes or changes an account with the code it consumed.
LEMMA EffectSpends ==
  ASSUME Types, SpendInv, NEW w \in Workers, pc[w] \in Spending, Moves(w),
         pc'[w] \notin Spending, effects' = Append(effects, Effect(w)),
         UNCHANGED <<code, issued>>
  PROVE  SpendInv'
<1> DEFINE n == Len(effects) + 1
<1>1. /\ effects \in Seq([serial : Nat, key : Keys]) /\ Len(effects) \in Nat
      /\ DOMAIN effects = 1 .. Len(effects)
  BY DEF Types, HistoryOK
<1>2. /\ DOMAIN effects' = DOMAIN effects \cup {n} /\ effects'[n] = Effect(w)
      /\ n \notin DOMAIN effects
      /\ \A i \in DOMAIN effects : effects'[i] = effects[i]
  BY <1>1
<1>3. effects'[n].serial = paid[w] /\ effects'[n].key = Key(w)
  BY <1>2 DEF Effect
<1> HIDE DEF n
<1>4. CodesOK'
  BY DEF SpendInv, CodesOK
<1>5. ASSUME NEW v \in Workers, pc'[v] \in Spending
      PROVE  /\ pc[v] \in Spending /\ paid'[v] = paid[v] /\ op'[v] = op[v]
             /\ paid[v] # paid[w]
  BY <1>5 DEF Moves, SpendInv, PaidOK
<1>6. PaidOK'
  <2> SUFFICES ASSUME NEW v \in Workers, pc'[v] \in Spending
               PROVE  /\ paid'[v] \in DOMAIN issued /\ issued[paid'[v]] = Key(v)'
                      /\ \A l \in Keys : code[l] # NoCode => code[l].serial # paid'[v]
                      /\ \A i \in DOMAIN effects' : effects'[i].serial # paid'[v]
                      /\ \A u \in Workers \ {v} : pc'[u] \in Spending => paid'[u] # paid'[v]
    BY DEF PaidOK
  <2>1. Key(v)' = Key(v)
    BY <1>5 DEF Key
  <2>2. \A i \in DOMAIN effects' : effects'[i].serial # paid[v]
    BY <1>2, <1>3, <1>5 DEF SpendInv, PaidOK
  <2>3. \A u \in Workers \ {v} : pc'[u] \in Spending => paid'[u] # paid'[v]
    BY <1>5 DEF SpendInv, PaidOK
  <2> QED
    BY <1>5, <2>1, <2>2, <2>3 DEF SpendInv, PaidOK
<1>7. SpentOK'
  <2>1. /\ paid[w] \in DOMAIN issued /\ issued[paid[w]] = Key(w)
        /\ \A k \in Keys : code[k] # NoCode => code[k].serial # paid[w]
        /\ \A i \in DOMAIN effects : effects[i].serial # paid[w]
    BY DEF SpendInv, PaidOK
  <2>2. \A i \in DOMAIN effects' :
          /\ effects'[i].serial \in DOMAIN issued
          /\ \A k \in Keys : code[k] # NoCode => code[k].serial # effects'[i].serial
    BY <1>2, <1>3, <2>1 DEF SpendInv, SpentOK
  <2>3. \A i, j \in DOMAIN effects' :
          /\ issued[effects'[i].serial] = effects'[i].key
          /\ i # j => effects'[i].serial # effects'[j].serial
    BY <1>2, <1>3, <2>1 DEF SpendInv, SpentOK, CodeSpentOnce
  <2> QED
    BY <2>2, <2>3 DEF SpentOK, CodeSpentOnce
<1> QED
  BY <1>4, <1>6, <1>7 DEF SpendInv

(***************************************************************************)
(* Registrations are honest and uids have no gap.                          *)
(***************************************************************************)
Honest(o) == /\ o.result > 0 => Has(o.req, o.result)
             /\ o.result = 0 => o.held

LEMMA HonestOutcomes ==
  RegisterHonest <=> /\ \A o \in outcomes : Honest(o)
                     /\ WellFormed(user, user_id)
BY DEF RegisterHonest, Honest, Has

\* Tables unchanged: w returns an honest result or none, and is not on its way
\* to COMMIT; whoever is goes on as before.
LEMMA AccountFrame ==
  ASSUME Types, AccountInv, UNCHANGED <<user, user_id>>,
         \A o \in outcomes' : o \in outcomes \/ Honest(o),
         \A v \in Workers : pc'[v] \in {"insert", "commit", "result"} =>
           pc'[v] = pc[v] /\ uid'[v] = uid[v] /\ op'[v] = op[v]
  PROVE  AccountInv'
<1>1. LockOK'
  <2> SUFFICES ASSUME NEW w \in Workers, HoldsUserId(w)'
               PROVE  /\ uid'[w] = user_id + 1
                      /\ \A v \in Workers \ {w} : ~HoldsUserId(v)'
                      /\ pc'[w] = "commit" => ~Duplicate(op[w])
    BY DEF LockOK, HoldsUserId, Duplicate
  <2> QED
    BY DEF AccountInv, LockOK, HoldsUserId
<1>2. RegisterHonest'
  <2>1. \A o : Honest(o)' <=> Honest(o)
    BY DEF Honest, Has
  <2>2. /\ \A o \in outcomes : Honest(o)
        /\ WellFormed(user, user_id)
    BY HonestOutcomes DEF AccountInv
  <2>3. \A o \in outcomes' : Honest(o)'
    BY <2>1, <2>2
  <2>4. WellFormed(user, user_id)'
    BY <2>2 DEF WellFormed
  <2> QED
    BY <2>3, <2>4 DEF RegisterHonest, Honest, Has
<1>3. \A w \in Workers : pc'[w] = "result" => Has(op[w], uid[w])' 
  BY DEF AccountInv, Has
<1> QED
  BY <1>1, <1>2, <1>3 DEF AccountInv

\* The same, of a step of one worker.
LEMMA AccountFrameOf ==
  ASSUME Types, AccountInv, UNCHANGED <<user, user_id, outcomes>>,
         NEW w \in Workers, Moves(w), pc'[w] \notin {"insert", "commit", "result"}
  PROVE  AccountInv'
BY AccountFrame DEF Moves

\* w returns res.
LEMMA ReturnsHonest ==
  ASSUME Types, AccountInv, NEW w \in Workers, NEW res, Returns(w, res),
         UNCHANGED <<user, user_id>>,
         res > 0 => Has(op[w], res),
         res = 0 => Duplicate(op[w])
  PROVE  AccountInv'
<1> DEFINE o == [req |-> op[w], result |-> res, held |-> Duplicate(op[w])]
<1>1. o.req = op[w] /\ o.result = res /\ o.held = Duplicate(op[w])
  OBVIOUS
<1>2. outcomes' = outcomes \cup {o}
  BY DEF Returns
<1> HIDE DEF o
<1>3. Honest(o)
  BY <1>1 DEF Honest
<1>4. \A v \in Workers : pc'[v] \in {"insert", "commit", "result"} =>
        pc'[v] = pc[v] /\ uid'[v] = uid[v] /\ op'[v] = op[v]
  BY AnswerMoves DEF Returns, Moves
<1> QED
  BY <1>2, <1>3, <1>4, AccountFrame

LEMMA ExistsAccounts ==
  ASSUME Types, AccountInv, NEW w \in Workers, Exists(w)
  PROVE  AccountInv'
<1>1. UNCHANGED <<user, user_id>>
  BY DEF Exists, OnlyLocal, database
<1>2. CASE Duplicate(op[w]) /\ Returns(w, 0)
  BY <1>1, <1>2, ReturnsHonest
<1>3. CASE Goto(w, "lock") /\ UNCHANGED outcomes
  <2>1. Moves(w) /\ pc'[w] = "lock"
    BY <1>3, ExistsMoves DEF Goto, Types, LocalsOK
  <2> QED
    BY <1>1, <1>3, <2>1, AccountFrameOf
<1> QED
  BY <1>2, <1>3 DEF Exists

LEMMA LockAccounts ==
  ASSUME Types, AccountInv, NEW w \in Workers, Lock(w)
  PROVE  AccountInv'
<1>1. UNCHANGED <<user, user_id>> /\ \A v \in Workers \ {w} : ~HoldsUserId(v)
  BY DEF Lock, OnlyLocal, database
<1>2. CASE Returns(w, -1)
  BY <1>1, <1>2, ReturnsHonest
<1>3. CASE Take(w) /\ UNCHANGED outcomes
  <2>1. Moves(w) /\ pc'[w] = "insert" /\ uid'[w] = user_id + 1
    BY <1>3, LockMoves DEF Take, Goto, Types, LocalsOK
  <2>2. LockOK'
    BY <1>1, <2>1 DEF LockOK, HoldsUserId, Moves
  <2>3. RegisterHonest'
    BY <1>1, <1>3 DEF AccountInv, RegisterHonest, WellFormed
  <2>4. \A v \in Workers : pc'[v] = "result" => Has(op[v], uid[v])' 
    BY <1>1, <2>1 DEF AccountInv, Has, Moves
  <2> QED
    BY <2>2, <2>3, <2>4 DEF AccountInv
<1> QED
  BY <1>2, <1>3 DEF Lock

\* The drawn uid is new, so that only the name or the address can be taken.
LEMMA InsertAccounts ==
  ASSUME Types, AccountInv, NEW w \in Workers, Insert(w)
  PROVE  AccountInv'
<1>1. UNCHANGED <<user, user_id>> /\ pc[w] = "insert" /\ HoldsUserId(w)
  BY DEF Insert, OnlyLocal, database, HoldsUserId
<1>2. /\ uid[w] = user_id + 1 /\ user_id \in Nat /\ FirstUid \in Nat
      /\ \A v \in Workers \ {w} : ~HoldsUserId(v)
  BY <1>1, Numbers DEF AccountInv, LockOK, Types, TablesOK
<1>3. ~\E x \in user : x.uid = uid[w]
  <2>1. {x.uid : x \in user} = FirstUid + 1 .. user_id
    BY DEF AccountInv, RegisterHonest, WellFormed
  <2>2. uid[w] \notin {x.uid : x \in user}
    BY <1>2, <2>1
  <2> QED
    BY <2>2
<1>4. CASE Duplicate(op[w]) /\ Returns(w, 0)
  BY <1>1, <1>4, ReturnsHonest
<1>5. CASE ~Duplicate(op[w]) /\ Goto(w, "commit") /\ Stay /\ UNCHANGED outcomes
  <2>1. Moves(w) /\ pc'[w] = "commit" /\ op' = op /\ uid' = uid
    BY <1>5, InsertMoves DEF Stay, Goto, Types, LocalsOK
  <2>2. LockOK'
    BY <1>1, <1>2, <1>5, <2>1 DEF LockOK, HoldsUserId, Moves, Duplicate
  <2>3. RegisterHonest'
    BY <1>1, <1>5 DEF AccountInv, RegisterHonest, WellFormed
  <2>4. \A v \in Workers : pc'[v] = "result" => Has(op[v], uid[v])' 
    BY <1>1, <2>1 DEF AccountInv, Has, Moves
  <2> QED
    BY <2>2, <2>3, <2>4 DEF AccountInv
<1> QED
  BY <1>3, <1>4, <1>5 DEF Insert

\* The transaction of w is committed.
LEMMA InstallAccounts ==
  ASSUME Types, AccountInv, NEW w \in Workers, pc[w] = "commit", Install(w),
         UNCHANGED outcomes, Moves(w), pc'[w] \notin {"insert", "commit"},
         pc'[w] = "result" => op'[w] = op[w] /\ uid'[w] = uid[w]
  PROVE  AccountInv'
<1> DEFINE row == [uid |-> uid[w], name |-> op[w].name,
                   email |-> Lower[op[w].email], pwd |-> op[w].password]
<1>1. /\ uid[w] = user_id + 1 /\ ~Duplicate(op[w])
      /\ \A v \in Workers \ {w} : ~HoldsUserId(v)
      /\ user_id \in Nat /\ FirstUid \in Nat /\ FirstUid <= user_id
  BY Numbers DEF AccountInv, LockOK, HoldsUserId, Types, TablesOK
<1>2. user' = user \cup {row} /\ user_id' = uid[w]
  BY DEF Install
<1>3. /\ row.uid = uid[w] /\ row.name = op[w].name /\ row.email = Lower[op[w].email]
  OBVIOUS
<1> HIDE DEF row
<1>4. ASSUME NEW r, NEW u, Has(r, u)
      PROVE  Has(r, u)'
  <2>1. PICK x \in user : x.uid = u /\ x.name = r.name /\ x.email = Lower[r.email]
    BY <1>4 DEF Has
  <2>2. x \in user'
    BY <1>2, <2>1
  <2> QED
    BY <2>1, <2>2 DEF Has
<1>5. pc'[w] = "result" => Has(op[w], uid[w])'
  BY <1>2, <1>3 DEF Has
<1>6. LockOK'
  BY <1>1 DEF LockOK, HoldsUserId, Moves
<1>7. WellFormed(user', user_id')
  <2>1. /\ {x.uid : x \in user} = FirstUid + 1 .. user_id
        /\ \A x, y \in user : x.uid = y.uid \/ x.name = y.name \/ x.email = y.email => x = y
    BY DEF AccountInv, RegisterHonest, WellFormed
  <2>2. {x.uid : x \in user'} = {x.uid : x \in user} \cup {uid[w]}
    BY <1>2, <1>3
  <2>3. FirstUid + 1 .. user_id' = (FirstUid + 1 .. user_id) \cup {uid[w]}
    BY <1>1, <1>2
  <2>4. \A x \in user : x.uid # row.uid /\ x.name # row.name /\ x.email # row.email
    <3> SUFFICES ASSUME NEW x \in user
                 PROVE  x.uid # row.uid /\ x.name # row.name /\ x.email # row.email
      OBVIOUS
    <3>1. x.uid \in FirstUid + 1 .. user_id
      BY <2>1
    <3>2. x.uid # uid[w]
      BY <1>1, <3>1
    <3>3. x.name # op[w].name /\ x.email # Lower[op[w].email]
      BY <1>1 DEF Duplicate
    <3> QED
      BY <1>3, <3>2, <3>3
  <2>5. \A x, y \in user' : x.uid = y.uid \/ x.name = y.name \/ x.email = y.email => x = y
    BY <1>2, <2>1, <2>4
  <2> QED
    BY <2>1, <2>2, <2>3, <2>5 DEF WellFormed
<1>8. RegisterHonest'
  <2>1. \A o \in outcomes : Honest(o)
    BY HonestOutcomes DEF AccountInv
  <2>2. \A o \in outcomes' : Honest(o)'
    BY <1>4, <2>1 DEF Honest
  <2> QED
    BY <1>7, <2>2 DEF RegisterHonest, Honest, Has
<1>9. ASSUME NEW v \in Workers, pc'[v] = "result"
      PROVE  Has(op[v], uid[v])'
  <2>1. CASE v = w
    BY <1>5, <1>9, <2>1
  <2>2. CASE v # w
    <3>1. pc[v] = "result" /\ op'[v] = op[v] /\ uid'[v] = uid[v]
      BY <1>9, <2>2 DEF Moves
    <3>2. Has(op[v], uid[v])
      BY <3>1 DEF AccountInv
    <3> QED
      BY <1>2, <3>1, <3>2 DEF Has
  <2> QED
    BY <2>1, <2>2
<1> QED
  BY <1>6, <1>8, <1>9 DEF AccountInv

LEMMA CommitAccounts ==
  ASSUME Types, AccountInv, NEW w \in Workers, Commit(w)
  PROVE  AccountInv'
BY CommitMoves, InstallAccounts DEF Commit

LEMMA ResultAccounts ==
  ASSUME Types, AccountInv, NEW w \in Workers, Result(w)
  PROVE  AccountInv'
<1>1. Has(op[w], uid[w]) /\ uid[w] > 0 /\ uid[w] # 0
  BY Numbers DEF Result, AccountInv, Types, LocalsOK, Found
<1> QED
  BY <1>1, ReturnsHonest DEF Result, OnlyLocal, database

LEMMA RegUserFailsAccounts ==
  ASSUME Types, AccountInv, NEW w \in Workers, RegUserFails(w)
  PROVE  AccountInv'
<1>1. Moves(w) /\ pc'[w] = "idle" /\ UNCHANGED outcomes
  BY RegUserFailsMoves DEF RegUserFails
<1>2. CASE UNCHANGED database
  BY <1>1, <1>2, AccountFrameOf DEF database
<1>3. CASE pc[w] = "commit" /\ Install(w)
  BY <1>1, <1>3, InstallAccounts
<1> QED
  BY <1>2, <1>3 DEF RegUserFails

\* A new password leaves every account what it is.
LEMMA RepwdAccounts ==
  ASSUME Types, AccountInv, NEW r, r.password \in Passwords, user' = Repwd(r),
         UNCHANGED <<user_id, outcomes>>, NEW w \in Workers, Moves(w), pc'[w] = "idle"
  PROVE  AccountInv'
<1>1. /\ \A x \in user : \E y \in user' :
           y.uid = x.uid /\ y.name = x.name /\ y.email = x.email
      /\ \A y \in user' : \E x \in user :
           /\ y.uid = x.uid /\ y.name = x.name /\ y.email = x.email
           /\ y = IF x.name = r.name THEN [x EXCEPT !.pwd = r.password] ELSE x
  BY RepwdRows
<1>2. /\ \A q, u : Has(q, u)' <=> Has(q, u)
      /\ \A q : Duplicate(q)' <=> Duplicate(q)
  BY <1>1 DEF Has, Duplicate
<1>3. \A v \in Workers : pc'[v] # "idle" =>
        v # w /\ pc'[v] = pc[v] /\ op'[v] = op[v] /\ uid'[v] = uid[v]
  BY DEF Moves
<1>4. LockOK'
  <2> SUFFICES ASSUME NEW v \in Workers, HoldsUserId(v)'
               PROVE  /\ uid'[v] = user_id + 1
                      /\ \A u \in Workers \ {v} : ~HoldsUserId(u)'
                      /\ pc'[v] = "commit" => ~Duplicate(op[v])'
    BY DEF LockOK
  <2>1. HoldsUserId(v) /\ uid'[v] = uid[v] /\ op'[v] = op[v] /\ pc'[v] = pc[v]
    BY <1>3 DEF HoldsUserId
  <2>2. \A u \in Workers \ {v} : ~HoldsUserId(u)'
    BY <1>3, <2>1 DEF AccountInv, LockOK, HoldsUserId
  <2>3. pc'[v] = "commit" => ~Duplicate(op[v])
    BY <2>1 DEF AccountInv, LockOK
  <2>4. Duplicate(op[v])' => Duplicate(op[v])
    BY <1>1, <2>1 DEF Duplicate
  <2> QED
    BY <2>1, <2>2, <2>3, <2>4 DEF AccountInv, LockOK
<1>5. WellFormed(user', user_id')
  <2>1. /\ {x.uid : x \in user} = FirstUid + 1 .. user_id
        /\ \A x, y \in user : x.uid = y.uid \/ x.name = y.name \/ x.email = y.email => x = y
    BY DEF AccountInv, RegisterHonest, WellFormed
  <2>2. {y.uid : y \in user'} = {x.uid : x \in user}
    BY <1>1
  <2>3. \A x, y \in user' : x.uid = y.uid \/ x.name = y.name \/ x.email = y.email => x = y
    BY <1>1, <2>1
  <2> QED
    BY <2>1, <2>2, <2>3 DEF WellFormed
<1>6. RegisterHonest'
  <2>1. \A o \in outcomes : Honest(o)
    BY HonestOutcomes DEF AccountInv
  <2>2. \A o \in outcomes' : Honest(o)'
    BY <1>2, <2>1 DEF Honest
  <2> QED
    BY <1>5, <2>2 DEF RegisterHonest, Honest, Has
<1>7. ASSUME NEW v \in Workers, pc'[v] = "result"
      PROVE  Has(op[v], uid[v])'
  <2>1. pc[v] = "result" /\ op'[v] = op[v] /\ uid'[v] = uid[v]
    BY <1>3, <1>7
  <2>2. Has(op[v], uid[v])
    BY <2>1 DEF AccountInv
  <2> QED
    BY <1>1, <2>1, <2>2 DEF Has
<1> QED
  BY <1>4, <1>6, <1>7 DEF AccountInv

(***************************************************************************)
(* What a reset revoked stays revoked.                                     *)
(***************************************************************************)
\* Tokens lapse or stay, and nobody comes to "update".
LEMMA TokenFrame ==
  ASSUME Types, TokenInv, UNCHANGED <<tokens, ended>>,
         \A u \in Uids : token'[u] \in {token[u], None},
         \A v \in Workers : /\ mark'[v] \in {mark[v], 0}
                            /\ pc'[v] = "update" => /\ pc[v] = "update" /\ uid'[v] = uid[v]
                                                    /\ mark'[v] = mark[v]
  PROVE  TokenInv'
<1>1. tokens \in Nat
  BY Numbers DEF Types, TablesOK
<1>2. \A u \in Uids : token'[u] <= tokens
  BY <1>1 DEF TokenInv
<1>3. \A v \in Workers : mark'[v] <= tokens
  BY <1>1 DEF TokenInv
<1>4. ASSUME NEW v \in Workers, pc'[v] = "update"
      PROVE  token'[uid'[v]] = None \/ token'[uid'[v]] > mark'[v]
  <2>1. uid[v] \in Uids /\ uid'[v] = uid[v] /\ mark'[v] = mark[v] /\ pc[v] = "update"
    BY <1>4 DEF Types, LocalsOK, Found
  <2>2. token[uid[v]] = None \/ token[uid[v]] > mark[v]
    BY <2>1 DEF TokenInv
  <2> QED
    BY <2>1, <2>2
<1>5. /\ \A x \in ended' : x \in Uids \X (1 .. tokens')
      /\ ResetEndsSessions'
  BY <1>1 DEF TokenInv, ResetEndsSessions
<1> QED
  BY <1>2, <1>3, <1>4, <1>5 DEF TokenInv

LEMMA TokenFrameOf ==
  ASSUME Types, TokenInv, UNCHANGED <<tokens, ended, token>>,
         NEW w \in Workers, Moves(w), mark'[w] \in {mark[w], 0}, pc'[w] # "update"
  PROVE  TokenInv'
BY TokenFrame DEF Moves

LEMMA RevokeTokens ==
  ASSUME Types, TokenInv, NEW w \in Workers, Revoke(w)
  PROVE  TokenInv'
<1>1. /\ Moves(w) /\ uid' = uid /\ uid[w] \in Uids /\ token'[uid[w]] = None
      /\ mark'[w] = tokens /\ \A u \in Uids \ {uid[w]} : token'[u] = token[u]
      /\ UNCHANGED <<tokens, ended>> /\ tokens \in Nat
  <2>1. tokens \in Nat
    BY Numbers DEF Types, TablesOK
  <2> QED
    BY <2>1, RevokeMoves DEF Revoke, history, bounds
<1>2. \A u \in Uids : token'[u] \in {token[u], None}
  BY <1>1
<1>3. \A u \in Uids : token'[u] <= tokens
  BY <1>1, <1>2 DEF TokenInv
<1>4. \A v \in Workers : mark'[v] <= tokens
  BY <1>1 DEF TokenInv, Moves
<1>5. ASSUME NEW v \in Workers, pc'[v] = "update"
      PROVE  token'[uid'[v]] = None \/ token'[uid'[v]] > mark'[v]
  <2>1. CASE v = w
    BY <1>1, <2>1
  <2>2. CASE v # w
    <3>1. pc[v] = "update" /\ mark'[v] = mark[v] /\ uid[v] \in Uids
      BY <1>1, <1>5, <2>2 DEF Moves, Types, LocalsOK, Found
    <3>2. token[uid[v]] = None \/ token[uid[v]] > mark[v]
      BY <3>1 DEF TokenInv
    <3> QED
      BY <1>1, <1>2, <3>1, <3>2
  <2> QED
    BY <2>1, <2>2
<1>6. /\ \A x \in ended' : x \in Uids \X (1 .. tokens')
      /\ ResetEndsSessions'
  BY <1>1, <1>2 DEF TokenInv, ResetEndsSessions
<1> QED
  BY <1>1, <1>3, <1>4, <1>5, <1>6 DEF TokenInv

\* A token issued beside a reset is newer than all that the reset ended.
LEMMA NewToken ==
  ASSUME Types, TokenInv, NEW w \in Workers, pc[w] = "issue", tokens < MaxTokens,
         tokens' = tokens + 1, token' = [token EXCEPT ![uid[w]] = tokens + 1],
         UNCHANGED <<user, user_id, ended>>, Moves(w), pc'[w] = "idle", mark'[w] = 0
  PROVE  TokenInv'
<1>1. /\ uid[w] \in Uids /\ token'[uid[w]] = tokens + 1 /\ tokens \in Nat
      /\ \A u \in Uids \ {uid[w]} : token'[u] = token[u]
  <2>1. tokens \in Nat
    BY Numbers DEF Types, TablesOK
  <2> QED
    BY <2>1, IssueTypes
<1>2. \A u \in Uids : token[u] \in Nat /\ token[u] <= tokens
  BY Numbers DEF Types, TablesOK, TokenInv
<1>3. \A v \in Workers : mark[v] \in Nat /\ mark[v] <= tokens
  BY DEF Types, LocalsOK, TokenInv
<1>4. \A u \in Uids : token'[u] <= tokens'
  BY <1>1, <1>2
<1>5. \A v \in Workers : mark'[v] <= tokens'
  BY <1>1, <1>3 DEF Moves
<1>6. ASSUME NEW v \in Workers, pc'[v] = "update"
      PROVE  token'[uid'[v]] = None \/ token'[uid'[v]] > mark'[v]
  <2>1. /\ v # w /\ pc[v] = "update" /\ uid'[v] = uid[v] /\ mark'[v] = mark[v]
        /\ uid[v] \in Uids
    BY <1>6 DEF Moves, Types, LocalsOK, Found
  <2>2. token[uid[v]] = None \/ token[uid[v]] > mark[v]
    BY <2>1 DEF TokenInv
  <2> QED
    BY <1>1, <1>3, <2>1, <2>2
<1>7. \A x \in ended' : x \in Uids \X (1 .. tokens')
  BY <1>1 DEF TokenInv
<1>8. ResetEndsSessions'
  <2>1. \A u \in Uids : <<u, tokens + 1>> \notin ended
    BY <1>1 DEF TokenInv
  <2> QED
    BY <1>1, <2>1 DEF TokenInv, ResetEndsSessions
<1> QED
  BY <1>4, <1>5, <1>6, <1>7, <1>8 DEF TokenInv

LEMMA IssueTokens ==
  ASSUME Types, TokenInv, NEW w \in Workers, Issue(w)
  PROVE  TokenInv'
BY IssueMoves, NewToken DEF Issue, database, history

LEMMA LoginFailsTokens ==
  ASSUME Types, TokenInv, NEW w \in Workers, LoginFails(w)
  PROVE  TokenInv'
<1>1. /\ Moves(w) /\ pc'[w] = "idle" /\ mark'[w] = 0
      /\ UNCHANGED <<user, user_id, ended>>
  BY LoginFailsMoves DEF LoginFails, database, history
<1>2. CASE UNCHANGED <<token, tokens>>
  BY <1>1, <1>2, TokenFrameOf
<1>3. CASE /\ pc[w] = "issue" /\ tokens < MaxTokens /\ tokens' = tokens + 1
           /\ token' = [token EXCEPT ![uid[w]] = tokens + 1]
  BY <1>1, <1>3, NewToken
<1> QED
  BY <1>2, <1>3 DEF LoginFails

\* The reset is finished: its user has no token from before the SETEX.
LEMMA UpdatePwdTokens ==
  ASSUME Types, TokenInv, NEW w \in Workers, UpdatePwd(w)
  PROVE  TokenInv'
<1>1. /\ Moves(w) /\ pc'[w] = "idle" /\ mark'[w] = 0 /\ UNCHANGED <<token, tokens>>
      /\ ended' = ended \cup {<<uid[w], t>> : t \in 1 .. mark[w]}
  BY UpdatePwdMoves DEF UpdatePwd, bounds
<1>2. /\ uid[w] \in Uids /\ mark[w] \in Nat /\ mark[w] <= tokens /\ tokens \in Nat
      /\ token[uid[w]] = None \/ token[uid[w]] > mark[w]
  BY Numbers DEF UpdatePwd, Types, LocalsOK, TablesOK, Found, TokenInv
<1>3. \A v \in Workers : mark'[v] <= tokens
  BY <1>1, <1>2 DEF Moves, TokenInv
<1>4. ASSUME NEW v \in Workers, pc'[v] = "update"
      PROVE  token[uid'[v]] = None \/ token[uid'[v]] > mark'[v]
  BY <1>1, <1>4 DEF Moves, TokenInv
<1>5. \A t \in 1 .. mark[w] : t \in 1 .. tokens /\ t # token[uid[w]]
  BY <1>2
<1>6. \A x \in ended' : x \in Uids \X (1 .. tokens)
  BY <1>1, <1>2, <1>5 DEF TokenInv
<1>7. ResetEndsSessions'
  <2> SUFFICES ASSUME NEW u \in Uids, <<u, token[u]>> \in ended'
               PROVE  FALSE
    BY <1>1 DEF ResetEndsSessions
  <2>1. <<u, token[u]>> \notin ended
    BY DEF TokenInv, ResetEndsSessions
  <2>2. PICK t \in 1 .. mark[w] : <<u, token[u]>> = <<uid[w], t>>
    BY <1>1, <2>1
  <2>3. u = uid[w] /\ token[u] = t
    BY <2>2
  <2> QED
    BY <1>5, <2>3
<1>8. \A u \in Uids : token'[u] <= tokens'
  BY <1>1 DEF TokenInv
<1> QED
  BY <1>1, <1>3, <1>4, <1>6, <1>7, <1>8 DEF TokenInv

(***************************************************************************)
(* Every state satisfies the invariant.                                    *)
(***************************************************************************)
LEMMA InitRows ==
  ASSUME Init
  PROVE  /\ user \subseteq Row /\ user_id \in FirstUid .. LastUid - 1
         /\ WellFormed(user, user_id)
<1>1. CASE user = {}
  <2>1. user_id = FirstUid
    BY <1>1, FS_EmptySet, Numbers DEF Init
  <2>2. FirstUid + 1 .. FirstUid = {}
    BY Numbers
  <2> QED
    BY <1>1, <2>1, <2>2, Numbers DEF WellFormed
<1>2. CASE user = Registered
  <2> DEFINE n == Cardinality(Registered)
  <2>1. /\ n \in Nat /\ user_id = FirstUid + n /\ user \subseteq Row
        /\ WellFormed(user, user_id)
    BY <1>2, FS_CardinalityType, AccountsAssumption DEF Init
  <2> HIDE DEF n
  <2>2. {x.uid : x \in user} = FirstUid + 1 .. user_id
    BY <2>1 DEF WellFormed
  <2>3. \A x \in user : x.uid \in Uids
    BY <2>1 DEF Row
  <2>4. CASE n = 0
    BY <2>1, <2>4, Numbers
  <2>5. CASE n > 0
    <3>1. user_id \in FirstUid + 1 .. user_id
      BY <2>1, <2>5, Numbers
    <3>2. user_id \in Uids
      BY <2>2, <2>3, <3>1
    <3> QED
      BY <2>1, <3>2, Numbers DEF Uids
  <2> QED
    BY <2>1, <2>4, <2>5
<1> QED
  BY <1>1, <1>2 DEF Init

LEMMA InitHolds ==
  ASSUME Init
  PROVE  IInv
<1>1. RedisOK
  BY Numbers DEF Init, RedisOK, Counter
<1>2. LocalsOK
  BY Numbers DEF Init, LocalsOK, PC, Spending, Found
<1>3. TablesOK
  BY InitRows, Numbers DEF Init, TablesOK
<1>4. issued \in Seq(Keys) /\ Len(issued) = 0 /\ effects \in Seq([serial : Nat, key : Keys])
      /\ DOMAIN effects = {}
  BY DEF Init
<1>5. HistoryOK
  BY <1>4, Numbers DEF HistoryOK
<1>6. SpendInv
  BY <1>4 DEF Init, SpendInv, CodesOK, PaidOK, SpentOK, CodeSpentOnce, Spending
<1>7. AccountInv
  BY InitRows DEF Init, AccountInv, LockOK, HoldsUserId, RegisterHonest
<1>8. TokenInv
  BY DEF Init, TokenInv, ResetEndsSessions
<1> QED
  BY <1>1, <1>2, <1>3, <1>5, <1>6, <1>7, <1>8 DEF IInv, Types

\* Redis by itself, and requests.
LEMMA WorldKeeps ==
  ASSUME IInv,
         \/ \E k \in Keys, c \in Codes : ReserveCode(k, c)
         \/ Tick
         \/ \E u \in Uids : Lapse(u)
         \/ \E w \in Workers, r \in Requests : Post(w, r)
  PROVE  IInv'
<1>0. Types /\ SpendInv /\ AccountInv /\ TokenInv
  BY DEF IInv
<1>1. ASSUME NEW k \in Keys, NEW c \in Codes, ReserveCode(k, c)
      PROVE  IInv'
  <2>1. Types' /\ SpendInv'
    BY <1>0, <1>1, ReserveKeeps, ReserveSpends
  <2>2. UNCHANGED <<token, user, user_id, outcomes, ended, tokens, pc, op, uid, mark>>
    BY <1>1 DEF ReserveCode, Reserved, database, local, bounds
  <2>3. AccountInv'
    BY <1>0, <2>2, AccountFrame
  <2>4. TokenInv'
    BY <1>0, <2>2, TokenFrame
  <2> QED
    BY <2>1, <2>3, <2>4 DEF IInv
<1>2. ASSUME Tick
      PROVE  IInv'
  <2>1. /\ Types'
        /\ \A k \in Keys : code'[k] # NoCode => /\ code[k] # NoCode
                                                /\ code'[k].serial = code[k].serial
    BY <1>0, <1>2, TickKeeps
  <2>2. UNCHANGED <<token, user, user_id, outcomes, ended, tokens, pc, op, uid, mark, paid,
                    issued, effects>>
    BY <1>2 DEF Tick, database, local, history
  <2>3. SpendInv'
    BY <1>0, <2>1, <2>2, SpendFrame
  <2>4. AccountInv'
    BY <1>0, <2>2, AccountFrame
  <2>5. TokenInv'
    BY <1>0, <2>2, TokenFrame
  <2> QED
    BY <2>1, <2>3, <2>4, <2>5 DEF IInv
<1>3. ASSUME NEW u \in Uids, Lapse(u)
      PROVE  IInv'
  <2>1. Types' /\ \A t \in Uids : token'[t] \in {token[t], None}
    BY <1>0, <1>3, LapseTypes
  <2>2. UNCHANGED <<code, user, user_id, outcomes, ended, tokens, pc, op, uid, mark, paid,
                    issued, effects>>
    BY <1>3 DEF Lapse, redis, database, local, history, bounds
  <2>3. SpendInv'
    BY <1>0, <2>2, SpendFrame
  <2>4. AccountInv'
    BY <1>0, <2>2, AccountFrame
  <2>5. TokenInv'
    BY <1>0, <2>1, <2>2, TokenFrame
  <2> QED
    BY <2>1, <2>3, <2>4, <2>5 DEF IInv
<1>4. ASSUME NEW w \in Workers, NEW r \in Requests, Post(w, r)
      PROVE  IInv'
  <2>1. Types' /\ Moves(w) /\ pc'[w] \in {"checkpwd", "consume"}
    BY <1>0, <1>4, PostMoves
  <2>2. UNCHANGED <<code, token, user, user_id, outcomes, ended, tokens, mark, issued, effects>>
    BY <1>4 DEF Post, redis, database, history
  <2>3. SpendInv'
    BY <1>0, <2>1, <2>2, SpendFrameOf DEF Spending
  <2>4. AccountInv'
    BY <1>0, <2>1, <2>2, AccountFrameOf
  <2>5. TokenInv'
    BY <1>0, <2>1, <2>2, TokenFrameOf
  <2> QED
    BY <2>1, <2>3, <2>4, <2>5 DEF IInv
<1> QED
  BY <1>1, <1>2, <1>3, <1>4

LEMMA RegisterKeeps ==
  ASSUME IInv, NEW w \in Workers,
         Exists(w) \/ Lock(w) \/ Insert(w) \/ Commit(w) \/ Result(w)
  PROVE  IInv'
<1>0. Types /\ SpendInv /\ AccountInv /\ TokenInv
  BY DEF IInv
<1>1. /\ mark'[w] \in {mark[w], 0}
      /\ UNCHANGED <<token, tokens, ended, code, issued>>
  BY <1>0, AnswerMoves
  DEF Exists, Lock, Insert, Commit, Result, Returns, Stay, Take, OnlyLocal, redis, bounds
<1>2. ASSUME Types', SpendInv', AccountInv', Moves(w), pc'[w] # "update"
      PROVE  IInv'
  BY <1>0, <1>1, <1>2, TokenFrameOf DEF IInv
<1>3. CASE Exists(w)
  <2>1. /\ Types' /\ Moves(w) /\ pc'[w] \in {"idle", "lock"}
        /\ pc'[w] = "lock" => op' = op /\ paid' = paid
    BY <1>0, <1>3, ExistsMoves
  <2>2. pc[w] \in Spending /\ UNCHANGED effects
    BY <1>3 DEF Exists, Spending, OnlyLocal
  <2>3. SpendInv'
    BY <1>0, <1>1, <2>1, <2>2, SpendFrameOf DEF Spending
  <2> QED
    BY <1>0, <1>2, <1>3, <2>1, <2>3, ExistsAccounts
<1>4. CASE Lock(w)
  <2>1. /\ Types' /\ Moves(w)
        /\ \/ pc'[w] = "idle"
           \/ pc'[w] = "insert" /\ op' = op /\ paid' = paid
    BY <1>0, <1>4, LockMoves
  <2>2. pc[w] \in Spending /\ UNCHANGED effects
    BY <1>4 DEF Lock, Spending, OnlyLocal
  <2>3. SpendInv'
    BY <1>0, <1>1, <2>1, <2>2, SpendFrameOf DEF Spending
  <2> QED
    BY <1>0, <1>2, <1>4, <2>1, <2>3, LockAccounts
<1>5. CASE Insert(w)
  <2>1. /\ Types' /\ Moves(w)
        /\ \/ pc'[w] = "idle"
           \/ pc'[w] = "commit" /\ op' = op /\ paid' = paid
    BY <1>0, <1>5, InsertMoves
  <2>2. pc[w] \in Spending /\ UNCHANGED effects
    BY <1>5 DEF Insert, Spending, OnlyLocal
  <2>3. SpendInv'
    BY <1>0, <1>1, <2>1, <2>2, SpendFrameOf DEF Spending
  <2> QED
    BY <1>0, <1>2, <1>5, <2>1, <2>3, InsertAccounts
<1>6. CASE Commit(w)
  <2>1. Types' /\ Moves(w) /\ pc'[w] = "result"
    BY <1>0, <1>6, CommitMoves
  <2>2. pc[w] \in Spending /\ effects' = Append(effects, Effect(w))
    BY <1>6 DEF Commit, Install, Spending
  <2>3. SpendInv'
    BY <1>0, <1>1, <2>1, <2>2, EffectSpends DEF Spending
  <2> QED
    BY <1>0, <1>2, <1>6, <2>1, <2>3, CommitAccounts
<1>7. CASE Result(w)
  <2>1. Types' /\ Moves(w) /\ pc'[w] = "idle"
    BY <1>0, <1>7, ResultMoves
  <2>2. SpendInv'
    BY <1>0, <1>1, <1>7, <2>1, SpendFrameOf DEF Spending, Result, OnlyLocal
  <2> QED
    BY <1>0, <1>2, <1>7, <2>1, <2>2, ResultAccounts
<1> QED
  BY <1>3, <1>4, <1>5, <1>6, <1>7

LEMMA ResetKeeps ==
  ASSUME IInv, NEW w \in Workers, GetUser(w) \/ Revoke(w) \/ UpdatePwd(w)
  PROVE  IInv'
<1>0. Types /\ SpendInv /\ AccountInv /\ TokenInv
  BY DEF IInv
<1>1. CASE GetUser(w)
  <2>1. /\ Types' /\ Moves(w) /\ pc[w] = "getuser"
        /\ pc'[w] = "idle" \/ (pc'[w] = "revoke" /\ op' = op /\ paid' = paid)
    BY <1>0, <1>1, GetUserMoves
  <2>2. /\ UNCHANGED <<code, token, user, user_id, outcomes, ended, tokens, issued, effects>>
        /\ mark'[w] \in {mark[w], 0}
    BY <1>0, <1>1, AnswerMoves DEF GetUser, OnlyLocal, redis, database, bounds
  <2>3. SpendInv'
    BY <1>0, <2>1, <2>2, SpendFrameOf DEF Spending
  <2>4. AccountInv'
    BY <1>0, <2>1, <2>2, AccountFrameOf
  <2>5. TokenInv'
    BY <1>0, <2>1, <2>2, TokenFrameOf
  <2> QED
    BY <2>1, <2>3, <2>4, <2>5 DEF IInv
<1>2. CASE Revoke(w)
  <2>1. /\ Types' /\ Moves(w) /\ pc[w] = "revoke" /\ pc'[w] = "update"
        /\ op' = op /\ paid' = paid
    BY <1>0, <1>2, RevokeMoves
  <2>2. UNCHANGED <<code, user, user_id, outcomes, issued, effects>>
    BY <1>2 DEF Revoke, redis, database, history
  <2>3. SpendInv'
    BY <1>0, <2>1, <2>2, SpendFrameOf DEF Spending
  <2>4. AccountInv'
    BY <1>0, <2>1, <2>2, AccountFrameOf
  <2> QED
    BY <1>0, <1>2, <2>1, <2>3, <2>4, RevokeTokens DEF IInv
<1>3. CASE UpdatePwd(w)
  <2>1. Types' /\ Moves(w) /\ pc'[w] = "idle" /\ user' = Repwd(op[w])
    BY <1>0, <1>3, UpdatePwdMoves
  <2>2. /\ pc[w] \in Spending /\ effects' = Append(effects, Effect(w))
        /\ UNCHANGED <<code, user_id, outcomes, issued>>
        /\ op[w].password \in Passwords
    BY <1>0, <1>3, OpFacts DEF UpdatePwd, redis, Spending
  <2>3. SpendInv'
    BY <1>0, <2>1, <2>2, EffectSpends DEF Spending
  <2>4. AccountInv'
    BY <1>0, <2>1, <2>2, RepwdAccounts
  <2> QED
    BY <1>0, <1>3, <2>1, <2>3, <2>4, UpdatePwdTokens DEF IInv
<1> QED
  BY <1>1, <1>2, <1>3

LEMMA LoginKeeps ==
  ASSUME IInv, NEW w \in Workers, CheckPwd(w) \/ Issue(w) \/ LoginFails(w)
  PROVE  IInv'
<1>0. Types /\ SpendInv /\ AccountInv /\ TokenInv
  BY DEF IInv
<1>1. Types' /\ Moves(w) /\ pc'[w] \in {"idle", "issue"}
  BY <1>0, CheckPwdMoves, IssueMoves, LoginFailsMoves
<1>2. UNCHANGED <<code, user, user_id, outcomes, issued, effects>>
  BY DEF CheckPwd, Issue, LoginFails, OnlyLocal, redis, database, history
<1>3. SpendInv'
  BY <1>0, <1>1, <1>2, SpendFrameOf DEF Spending
<1>4. AccountInv'
  BY <1>0, <1>1, <1>2, AccountFrameOf
<1>5. TokenInv'
  <2>1. CASE CheckPwd(w)
    <3>1. UNCHANGED <<token, tokens, ended>> /\ mark'[w] \in {mark[w], 0}
      BY <1>0, <2>1, AnswerMoves DEF CheckPwd, OnlyLocal, bounds
    <3> QED
      BY <1>0, <1>1, <3>1, TokenFrameOf
  <2> QED
    BY <1>0, <2>1, IssueTokens, LoginFailsTokens
<1> QED
  BY <1>1, <1>3, <1>4, <1>5 DEF IInv

LEMMA CodeKeeps ==
  ASSUME IInv, NEW w \in Workers, ConsumeCode(w) \/ ConsumeCodeFails(w)
  PROVE  IInv'
<1>0. Types /\ SpendInv /\ AccountInv /\ TokenInv
  BY DEF IInv
<1>1. UNCHANGED <<token, user, user_id, outcomes, ended, tokens, issued, effects>>
      /\ mark'[w] \in {mark[w], 0}
  BY <1>0, AnswerMoves DEF ConsumeCode, ConsumeCodeFails, OnlyRedis, database, history
<1>2. /\ Types' /\ Moves(w) /\ pc'[w] \in {"idle", "exists", "getuser"}
      /\ SpendInv'
  <2>1. CASE ConsumeCode(w)
    BY <1>0, <2>1, ConsumeMoves, ConsumeSpends DEF SpendInv
  <2>2. CASE ConsumeCodeFails(w)
    <3>1. /\ Types' /\ Moves(w) /\ pc'[w] = "idle"
          /\ \A k \in Keys : code'[k] # NoCode => /\ code[k] # NoCode
                                                  /\ code'[k].serial = code[k].serial
      BY <1>0, <2>2, ConsumeFailsMoves
    <3>2. \A v \in Workers : pc'[v] \in Spending =>
            pc[v] \in Spending /\ paid'[v] = paid[v] /\ op'[v] = op[v]
      BY <3>1 DEF Moves, Spending
    <3> QED
      BY <1>0, <1>1, <3>1, <3>2, SpendFrame
  <2> QED
    BY <2>1, <2>2
<1>3. AccountInv'
  BY <1>0, <1>1, <1>2, AccountFrameOf
<1>4. TokenInv'
  BY <1>0, <1>1, <1>2, TokenFrameOf
<1> QED
  BY <1>2, <1>3, <1>4 DEF IInv

LEMMA FailKeeps ==
  ASSUME IInv, NEW w \in Workers, RegUserFails(w) \/ ResetFails(w)
  PROVE  IInv'
<1>0. Types /\ SpendInv /\ AccountInv /\ TokenInv
  BY DEF IInv
<1>1. CASE RegUserFails(w)
  <2>1. Types' /\ Moves(w) /\ pc'[w] = "idle" /\ mark'[w] = 0
    BY <1>0, <1>1, RegUserFailsMoves, AnswerMoves DEF RegUserFails
  <2>2. /\ UNCHANGED <<code, token, tokens, ended, issued>>
        /\ UNCHANGED effects \/ (pc[w] \in Spending /\ effects' = Append(effects, Effect(w)))
    BY <1>1 DEF RegUserFails, Install, redis, Spending
  <2>3. SpendInv'
    BY <1>0, <2>1, <2>2, SpendFrameOf, EffectSpends DEF Spending
  <2>4. TokenInv'
    BY <1>0, <2>1, <2>2, TokenFrameOf
  <2> QED
    BY <1>0, <1>1, <2>1, <2>3, <2>4, RegUserFailsAccounts DEF IInv
<1>2. CASE ResetFails(w)
  <2>1. /\ Types' /\ Moves(w) /\ pc'[w] = "idle" /\ mark'[w] = 0
        /\ \A u \in Uids : token'[u] \in {token[u], None}
        /\ \/ UNCHANGED <<user, effects>>
           \/ /\ pc[w] = "update" /\ user' = Repwd(op[w])
              /\ effects' = Append(effects, Effect(w))
    BY <1>0, <1>2, ResetFailsMoves
  <2>2. UNCHANGED <<code, user_id, issued, outcomes, ended, tokens>>
    BY <1>2 DEF ResetFails, redis
  <2>3. TokenInv'
    BY <1>0, <2>1, <2>2, TokenFrame DEF Moves
  <2>4. CASE UNCHANGED <<user, effects>>
    <3>1. SpendInv'
      BY <1>0, <2>1, <2>2, <2>4, SpendFrameOf DEF Spending
    <3>2. AccountInv'
      BY <1>0, <2>1, <2>2, <2>4, AccountFrameOf
    <3> QED
      BY <2>1, <2>3, <3>1, <3>2 DEF IInv
  <2>5. CASE /\ pc[w] = "update" /\ user' = Repwd(op[w])
             /\ effects' = Append(effects, Effect(w))
    <3>1. SpendInv'
      BY <1>0, <2>1, <2>2, <2>5, EffectSpends DEF Spending
    <3>2. op[w].password \in Passwords
      BY <1>0, <2>5, OpFacts
    <3>3. AccountInv'
      BY <1>0, <2>1, <2>2, <2>5, <3>2, RepwdAccounts
    <3> QED
      BY <2>1, <2>3, <3>1, <3>3 DEF IInv
  <2> QED
    BY <2>1, <2>4, <2>5
<1> QED
  BY <1>1, <1>2

\* IInv is kept by every step.
LEMMA NextKeeps ==
  ASSUME IInv, [Next]_vars
  PROVE  IInv'
<1>1. CASE UNCHANGED vars
  BY <1>1 DEF vars, redis, database, local, history, bounds, IInv, Types, RedisOK, LocalsOK,
              TablesOK, HistoryOK, SpendInv, CodesOK, PaidOK, SpentOK, CodeSpentOnce, Key,
              AccountInv, LockOK, HoldsUserId, Duplicate, RegisterHonest, WellFormed, Has,
              TokenInv, ResetEndsSessions
<1>2. ASSUME NEW w \in Workers, Step(w) \/ Fault(w)
      PROVE  IInv'
  BY <1>2, RegisterKeeps, ResetKeeps, LoginKeeps, CodeKeeps, FailKeeps DEF Step, Fault
<1> QED
  BY <1>1, <1>2, WorldKeeps DEF Next

\* The invariant the following theorems rest on: in every reachable state no
\* reservation is in two places (ConsumeCode's script), one registration at most
\* is between SELECT ... FOR UPDATE and COMMIT (reg_user), and a token that a
\* reset replaced has not come back.
THEOREM Invariance == Spec => []IInv
<1>1. Init => IInv
  BY InitHolds
<1>2. IInv /\ [Next]_vars => IInv'
  BY NextKeeps
<1> QED
  BY <1>1, <1>2, PTL DEF Spec

\* For any TTLs with CodeTTL <= AttemptsTTL the counter of a valid code is the
\* number of its tries, at most MaxAttempts (the scripts of ConsumeCode and
\* GetVarifyCode).
THEOREM AttemptsAreExact == Spec => []AttemptsExact
<1>1. IInv => AttemptsExact
  <2> SUFFICES ASSUME IInv, NEW k \in Keys, code[k] # NoCode
               PROVE  /\ attempts[k].n = code[k].tried
                      /\ code[k].tried <= MaxAttempts
    BY DEF AttemptsExact
  <2>1. attempts[k].n = code[k].tried /\ code[k] \in CodeRow
    BY DEF IInv, Types, RedisOK
  <2>2. code[k].tried \in 0 .. MaxAttempts
    BY <2>1 DEF CodeRow
  <2> QED
    BY <2>1, <2>2, Numbers
<1> QED
  BY <1>1, Invariance, PTL

\* Any number of gateways make or change at most one account with a code, the
\* one it was sent for.
THEOREM CodesAreSpentOnce == Spec => []CodeSpentOnce
<1>1. IInv => CodeSpentOnce
  BY DEF IInv, SpendInv, SpentOK
<1> QED
  BY <1>1, Invariance, PTL

\* reg_user's answers are true and it gives out uids without gap or repeat,
\* however registrations interleave and fail.
THEOREM RegistrationsAreHonest == Spec => []RegisterHonest
<1>1. IInv => RegisterHonest
  BY DEF IInv, AccountInv
<1> QED
  BY <1>1, Invariance, PTL

\* No token from before the SETEX of a reset that succeeded is valid again.
THEOREM ResetsEndSessions == Spec => []ResetEndsSessions
<1>1. IInv => ResetEndsSessions
  BY DEF IInv, TokenInv
<1> QED
  BY <1>1, Invariance, PTL

\* The state keeps its types: RedisOK, LocalsOK and TablesOK say more.
THEOREM TypesHold == Spec => []TypeOK
<1>1. IInv => TypeOK
  BY DEF IInv, Types, RedisOK, LocalsOK, TablesOK, TypeOK, CodeRow, Counter
<1> QED
  BY <1>1, Invariance, PTL
==============================================================================
