-------------------------- MODULE FriendApplyProofs --------------------------
(***************************************************************************)
(* Theorems about FriendApply, for any users, calls and number of nodes.   *)
(***************************************************************************)
EXTENDS FriendApply, TLAPS

(***************************************************************************)
(* The inductive invariant.                                                *)
(***************************************************************************)
\* The transaction holds the lock of its application.
Open(w) == pc[w] \in {"first", "second", "commit"}

Resolves(w) == op[w].kind = "resolve"
Agrees(w) == Resolves(w) /\ op[w].agree

LocalsOK ==
  \A w \in Workers :
    /\ pc[w] # "idle" => op[w] \in Ops
    /\ pc[w] \in {"privacy", "friend", "upsert"} => op[w].kind = "apply"
    /\ pc[w] \in {"find", "lock", "first", "second"} => Resolves(w)

LocksOK ==
  /\ \A w \in Workers : Open(w) => Application(op[w].pair) \in held[w]
  /\ \A v, w \in Workers : v # w => held[v] \cap held[w] = {}

\* What was read under the lock stays true until the commit.
AnswersOK == \A w \in Workers : Open(w) /\ Resolves(w) => MayAnswer(op[w])

\* An application that was ever made was made by its applicant.
WillsOK == \A p \in Pairs : friend_apply[p] # "none" => p \in will

ResultsOK == \A w \in Workers : pc[w] = "result" /\ Agrees(w) => op[w].pair \in friend

IInv == /\ TypeOK /\ LocalsOK /\ LocksOK /\ AnswersOK /\ WillsOK /\ ResultsOK
        /\ FriendMutual /\ FriendsWilled /\ AnsweredOnce /\ AgreeHonoured

\* A call in progress is one of Op, about two different users.
LEMMA OpFacts ==
  ASSUME IInv, NEW w \in Workers, pc[w] # "idle"
  PROVE  /\ op[w] \in Ops /\ op[w].pair \in Pairs /\ Reverse(op[w].pair) \in Pairs
         /\ op[w].kind \in {"apply", "resolve"}
         /\ op[w].kind = "apply" => op[w].actor = op[w].pair[1]
         /\ op[w].kind = "resolve" => op[w].agree \in BOOLEAN
<1>1. op[w] \in Ops /\ op[w] \in Op
  BY OpsAssumption DEF IInv, LocalsOK
<1>2. op[w].pair \in Pairs
  BY <1>1 DEF Op
<1> QED
  BY <1>1, <1>2, OpsAssumption DEF Op, Pairs, Reverse

LEMMA InitHolds == Init => IInv
BY BoundsAssumption
DEF Init, IInv, TypeOK, LocalsOK, LocksOK, AnswersOK, WillsOK, ResultsOK, Open,
    FriendMutual, FriendsWilled, AnsweredOnce, AgreeHonoured, Pairs, PC

(***************************************************************************)
(* Steps of one worker that change no table.                               *)
(***************************************************************************)
\* A step of w that leaves the tables and the other workers alone, does not
\* take a lock of another and keeps what w relies on.
Local(w) ==
  /\ UNCHANGED <<tables, will, submitted, answered>>
  /\ pc' \in [Workers -> PC] /\ op' \in [Workers -> Ops \cup {NoOp}]
  /\ held' \in [Workers -> SUBSET ({"friend_apply", "friend"} \X Pairs)]
  /\ calls' \in 0 .. MaxCalls /\ faults' \in 0 .. MaxFaults
  /\ \A v \in Workers \ {w} : pc'[v] = pc[v] /\ op'[v] = op[v] /\ held'[v] = held[v]
  /\ \A v \in Workers \ {w} : held'[w] \cap held[v] = {}
  /\ pc'[w] # "idle" => op'[w] \in Ops
  /\ pc'[w] \in {"privacy", "friend", "upsert"} => op'[w].kind = "apply"
  /\ pc'[w] \in {"find", "lock", "first", "second"} => op'[w].kind = "resolve"
  /\ Open(w)' => Application(op'[w].pair) \in held'[w]
  /\ Open(w)' /\ Resolves(w)' => MayAnswer(op'[w])
  /\ pc'[w] # "result"
  /\ replied' \subseteq Ops
  /\ \A o \in replied' : o.kind = "resolve" /\ o.agree => o.pair \in friend

LEMMA LocalKeeps ==
  ASSUME IInv, NEW w \in Workers, Local(w)
  PROVE  IInv'
<1>1. TypeOK'
  BY DEF IInv, TypeOK, Local, tables
<1>2. LocalsOK'
  BY DEF IInv, LocalsOK, Local, Resolves
<1>3. LocksOK'
  <2>1. \A u \in Workers : Open(u)' => Application(op'[u].pair) \in held'[u]
    BY DEF IInv, LocksOK, Local, Open
  <2>2. \A u, v \in Workers : u # v => held'[u] \cap held'[v] = {}
    BY DEF IInv, LocksOK, Local
  <2> QED
    BY <2>1, <2>2 DEF LocksOK
<1>4. AnswersOK'
  <2>1. ASSUME NEW u \in Workers, Open(u)', Resolves(u)'
        PROVE  MayAnswer(op[u])'
    <3>1. MayAnswer(op'[u])
      BY <2>1 DEF IInv, AnswersOK, Local, Open, Resolves
    <3> QED
      BY <3>1 DEF MayAnswer, Local, tables
  <2> QED
    BY <2>1 DEF AnswersOK
<1>5. WillsOK' /\ FriendMutual' /\ FriendsWilled' /\ AnsweredOnce'
  BY DEF IInv, WillsOK, FriendMutual, FriendsWilled, AnsweredOnce, Local, tables
<1>6. ResultsOK'
  BY DEF IInv, ResultsOK, Agrees, Resolves, Local, tables
<1>7. AgreeHonoured'
  BY DEF AgreeHonoured, Local, tables
<1> QED
  BY <1>1, <1>2, <1>3, <1>4, <1>5, <1>6, <1>7 DEF IInv

LEMMA ReturnKeeps ==
  ASSUME IInv, NEW w \in Workers, Return(w), UNCHANGED <<tables, ledger, calls>>,
         faults' \in 0 .. MaxFaults
  PROVE  IInv'
<1>1. Local(w)
  BY DEF IInv, TypeOK, Return, Local, ledger, PC, Open, AgreeHonoured
<1> QED
  BY <1>1, LocalKeeps

(***************************************************************************)
(* The actions of a call before its commit.                                *)
(***************************************************************************)
LEMMA CallKeeps ==
  ASSUME IInv, NEW w \in Workers, NEW o \in Ops, Call(w, o)
  PROVE  IInv'
<1>1. o.kind \in {"apply", "resolve"}
  BY OpsAssumption DEF Op
<1>2. pc'[w] \in {"privacy", "find"} /\ op'[w] = o
      /\ (pc'[w] = "privacy" <=> o.kind = "apply")
  BY <1>1 DEF Call, Goto, IInv, TypeOK
<1>3. Local(w)
  BY <1>1, <1>2, BoundsAssumption
  DEF Call, Goto, IInv, TypeOK, LocksOK, Local, ledger, PC, Open, Resolves,
      AgreeHonoured
<1> QED
  BY <1>3, LocalKeeps

\* A jump that keeps the call, takes locks that are free, and goes to a label
\* whose requirements hold.
Jump(w, label, locks) ==
  /\ pc[w] # "idle" /\ label \in PC
  /\ pc' = [pc EXCEPT ![w] = label]
  /\ locks \in SUBSET ({"friend_apply", "friend"} \X Pairs)
  /\ held' = [held EXCEPT ![w] = @ \cup locks]
  /\ \A v \in Workers \ {w} : locks \cap held[v] = {}
  /\ UNCHANGED <<tables, op, ledger, calls, faults>>
  /\ label \in {"privacy", "friend", "upsert"} => op[w].kind = "apply"
  /\ label \in {"find", "lock", "first", "second"} => Resolves(w)
  /\ label \in {"first", "second", "commit"} =>
       /\ Application(op[w].pair) \in held[w] \cup locks
       /\ Resolves(w) => MayAnswer(op[w])
  /\ label # "result"

LEMMA JumpKeeps ==
  ASSUME IInv, NEW w \in Workers, NEW label, NEW locks, Jump(w, label, locks)
  PROVE  IInv'
<1>1. /\ op[w] \in Ops
      /\ pc'[w] = label /\ op'[w] = op[w] /\ held'[w] = held[w] \cup locks
      /\ \A v \in Workers \ {w} : pc'[v] = pc[v] /\ op'[v] = op[v] /\ held'[v] = held[v]
  BY DEF Jump, IInv, TypeOK, LocalsOK
<1>2. \A v \in Workers \ {w} : held'[w] \cap held[v] = {}
  BY <1>1 DEF Jump, IInv, LocksOK
<1>3. /\ pc' \in [Workers -> PC] /\ op' \in [Workers -> Ops \cup {NoOp}]
      /\ held' \in [Workers -> SUBSET ({"friend_apply", "friend"} \X Pairs)]
  BY DEF Jump, IInv, TypeOK
<1>4. Local(w)
  BY <1>1, <1>2, <1>3
  DEF Jump, IInv, TypeOK, Local, ledger, Open, Resolves, AgreeHonoured
<1> QED
  BY <1>4, LocalKeeps

\* The same for a jump without a lock.
LEMMA GotoKeeps ==
  ASSUME IInv, NEW w \in Workers, pc[w] # "idle", NEW label \in PC, Goto(w, label),
         UNCHANGED <<tables, op, ledger, calls, faults>>,
         label \in {"friend", "upsert"} => op[w].kind = "apply",
         label = "lock" => Resolves(w),
         label \in {"friend", "upsert", "lock"}
  PROVE  IInv'
<1>1. held' = [held EXCEPT ![w] = @ \cup {}]
  BY DEF Goto, IInv, TypeOK
<1>2. Jump(w, label, {})
  BY <1>1 DEF Goto, Jump
<1> QED
  BY <1>2, JumpKeeps

\* The lock a worker wants is a row lock, and Lock takes it when it is free.
LEMMA WantsFacts ==
  ASSUME IInv, NEW w \in Workers, pc[w] # "idle", \A v \in Workers : ~WaitsFor(w, v)
  PROVE  /\ Wants(w) \in SUBSET ({"friend_apply", "friend"} \X Pairs)
         /\ \A v \in Workers \ {w} : Wants(w) \cap held[v] = {}
<1>1. op[w].pair \in Pairs /\ Reverse(op[w].pair) \in Pairs
  BY OpFacts
<1>2. Wants(w) \in SUBSET ({"friend_apply", "friend"} \X Pairs)
  BY <1>1 DEF Wants, Application, Friendship
<1>3. \A v \in Workers \ {w} : Wants(w) \cap held[v] = {}
  BY DEF WaitsFor
<1> QED
  BY <1>2, <1>3

LEMMA LookupsKeep ==
  ASSUME IInv, NEW w \in Workers, Privacy(w) \/ FriendExists(w) \/ Find(w)
  PROVE  IInv'
<1>1. faults \in 0 .. MaxFaults
  BY DEF IInv, TypeOK
<1>2. CASE Privacy(w)
  BY <1>1, <1>2, ReturnKeeps, GotoKeeps
  DEF Privacy, IInv, LocalsOK, PC
<1>3. CASE FriendExists(w)
  BY <1>1, <1>3, ReturnKeeps, GotoKeeps
  DEF FriendExists, IInv, LocalsOK, PC
<1>4. CASE Find(w)
  BY <1>1, <1>4, ReturnKeeps, GotoKeeps DEF Find, IInv, LocalsOK, PC
<1> QED
  BY <1>2, <1>3, <1>4

LEMMA UpsertKeeps ==
  ASSUME IInv, NEW w \in Workers, Upsert(w)
  PROVE  IInv'
<1>1. pc[w] = "upsert" /\ op[w].kind = "apply"
  BY DEF Upsert, IInv, LocalsOK
<1>2. Application(op[w].pair) \in Wants(w)
  BY <1>1 DEF Wants
<1>3. /\ Wants(w) \in SUBSET ({"friend_apply", "friend"} \X Pairs)
      /\ \A v \in Workers \ {w} : Wants(w) \cap held[v] = {}
  BY <1>1, WantsFacts DEF Upsert, Lock
<1>4. Jump(w, "commit", Wants(w))
  BY <1>1, <1>2, <1>3 DEF Upsert, Lock, Resolves, PC, Jump
<1> QED
  BY <1>4, JumpKeeps

LEMMA LockRowKeeps ==
  ASSUME IInv, NEW w \in Workers, LockRow(w)
  PROVE  IInv'
<1>1. pc[w] = "lock" /\ Resolves(w) /\ faults \in 0 .. MaxFaults
  BY DEF LockRow, IInv, LocalsOK, TypeOK
<1>2. CASE ~MayAnswer(op[w])
  BY <1>1, <1>2, ReturnKeeps DEF LockRow
<1>3. CASE MayAnswer(op[w])
  <2>1. Lock(w, AfterLock(w)) /\ UNCHANGED <<tables, op, ledger, calls, faults>>
    BY <1>3 DEF LockRow
  <2>2. Application(op[w].pair) \in Wants(w)
    BY <1>1 DEF Wants
  <2>3. /\ Wants(w) \in SUBSET ({"friend_apply", "friend"} \X Pairs)
        /\ \A v \in Workers \ {w} : Wants(w) \cap held[v] = {}
    BY <1>1, <2>1, WantsFacts DEF Lock
  <2>4. AfterLock(w) \in {"first", "commit"}
    BY DEF AfterLock
  <2>5. Jump(w, AfterLock(w), Wants(w))
    BY <1>1, <1>3, <2>1, <2>2, <2>3, <2>4 DEF Lock, PC, Jump
  <2> QED
    BY <2>5, JumpKeeps
<1> QED
  BY <1>2, <1>3

LEMMA InsertFriendKeeps ==
  ASSUME IInv, NEW w \in Workers, InsertFriend(w)
  PROVE  IInv'
<1>1. /\ pc[w] \in {"first", "second"}
      /\ \/ Lock(w, "second")
         \/ Lock(w, "commit")
      /\ UNCHANGED <<tables, op, ledger, calls, faults>>
  BY DEF InsertFriend
<1>2. /\ Resolves(w) /\ MayAnswer(op[w])
      /\ Application(op[w].pair) \in held[w]
  BY <1>1 DEF IInv, LocalsOK, AnswersOK, LocksOK, Open
<1>3. /\ Wants(w) \in SUBSET ({"friend_apply", "friend"} \X Pairs)
      /\ \A v \in Workers \ {w} : Wants(w) \cap held[v] = {}
  BY <1>1, WantsFacts DEF Lock
<1>4. Jump(w, "second", Wants(w)) \/ Jump(w, "commit", Wants(w))
  BY <1>1, <1>2, <1>3 DEF Lock, PC, Jump
<1> QED
  BY <1>4, JumpKeeps

\* The reply is about a result that the commit made true.
LEMMA ResultKeeps ==
  ASSUME IInv, NEW w \in Workers, Result(w)
  PROVE  IInv'
<1>1. pc[w] = "result" /\ op[w] \in Ops
  BY DEF Result, IInv, LocalsOK
<1>2. /\ replied' \subseteq Ops
      /\ \A o \in replied' : o.kind = "resolve" /\ o.agree => o.pair \in friend
  BY <1>1 DEF Result, IInv, TypeOK, AgreeHonoured, ResultsOK, Agrees, Resolves
<1>3. Local(w)
  BY <1>2 DEF Result, Return, IInv, TypeOK, Local, PC, Open
<1> QED
  BY <1>3, LocalKeeps

LEMMA FailuresKeep ==
  ASSUME IInv, NEW w \in Workers, Deadlock(w) \/ DatabaseError(w)
  PROVE  IInv'
<1>1. faults' \in 0 .. MaxFaults
  BY BoundsAssumption DEF Deadlock, DatabaseError, IInv, TypeOK
<1> QED
  BY <1>1, ReturnKeeps DEF Deadlock, DatabaseError, ledger, tables

(***************************************************************************)
(* The commit.                                                             *)
(***************************************************************************)
\* The lock makes w the only one whose transaction is about its application.
LEMMA OnlyOpen ==
  ASSUME IInv, NEW w \in Workers, pc[w] = "commit"
  PROVE  \A v \in Workers \ {w} : Open(v) => op[v].pair # op[w].pair
<1>1. ASSUME NEW v \in Workers \ {w}, Open(v), op[v].pair = op[w].pair
      PROVE  FALSE
  <2>1. Application(op[w].pair) \in held[v] \cap held[w]
    BY <1>1 DEF IInv, LocksOK, Open
  <2> QED
    BY <2>1 DEF IInv, LocksOK
<1> QED
  BY <1>1

\* Installing a transaction keeps what the tables and the ledger promise.
LEMMA InstallKeeps ==
  ASSUME IInv, NEW w \in Workers, pc[w] = "commit", Install(op[w]),
         replied' = replied
  PROVE  /\ FriendMutual' /\ FriendsWilled' /\ AnsweredOnce' /\ AgreeHonoured'
         /\ WillsOK'
         /\ friend_apply' \in [Pairs -> {"none", "pending", "agreed", "refused"}]
         /\ friend' \subseteq Pairs /\ will' \subseteq Pairs
         /\ submitted' \in [Pairs -> Nat] /\ answered' \in [Pairs -> Nat]
         /\ friend \subseteq friend'
         /\ Agrees(w) => op[w].pair \in friend'
         /\ \A p \in Pairs \ {op[w].pair} : friend_apply'[p] = friend_apply[p]
<1> DEFINE o == op[w]
<1>1. /\ o \in Ops /\ o.pair \in Pairs /\ Reverse(o.pair) \in Pairs
      /\ o.kind \in {"apply", "resolve"}
      /\ o.kind = "apply" => o.actor = o.pair[1]
      /\ o.kind = "resolve" => o.agree \in BOOLEAN
  BY OpFacts
<1>2. o.kind = "resolve" => /\ o.actor = o.pair[2]
                            /\ friend_apply[o.pair] = "pending"
                            /\ o.pair \in will
  BY <1>1 DEF IInv, AnswersOK, Open, Resolves, MayAnswer, WillsOK
<1>3. /\ friend_apply \in [Pairs -> {"none", "pending", "agreed", "refused"}]
      /\ friend \subseteq Pairs /\ will \subseteq Pairs
      /\ submitted \in [Pairs -> Nat] /\ answered \in [Pairs -> Nat]
  BY DEF IInv, TypeOK
<1>4. \A p \in Pairs : p = <<p[1], p[2]>> /\ Reverse(p) \in Pairs
                       /\ Reverse(Reverse(p)) = p
  BY DEF Pairs, Reverse
<1>5. CASE o.kind = "apply"
  <2>1. /\ friend' = friend /\ will' = will \cup {o.pair}
        /\ friend_apply' = [friend_apply EXCEPT ![o.pair] = "pending"]
        /\ submitted' = [submitted EXCEPT ![o.pair] = @ + 1]
        /\ answered' = answered
    BY <1>1, <1>3, <1>4, <1>5 DEF Install, NewFriends
  <2>2. AnsweredOnce'
    BY <1>1, <1>3, <2>1 DEF IInv, AnsweredOnce
  <2>3. FriendMutual' /\ FriendsWilled' /\ AgreeHonoured' /\ WillsOK'
    BY <1>1, <1>3, <2>1
    DEF IInv, FriendMutual, FriendsWilled, AgreeHonoured, WillsOK
  <2> QED
    BY <1>1, <1>3, <1>5, <2>1, <2>2, <2>3 DEF Agrees, Resolves
<1>8. o.kind = "resolve" => answered[o.pair] + 1 <= submitted[o.pair]
  BY <1>1, <1>2 DEF IInv, AnsweredOnce
<1>6. CASE o.kind = "resolve" /\ o.agree
  <2>1. /\ friend' = friend \cup {o.pair, Reverse(o.pair)}
        /\ will' = will \cup {Reverse(o.pair)}
        /\ friend_apply' = [friend_apply EXCEPT ![o.pair] = "agreed"]
        /\ submitted' = submitted
        /\ answered' = [answered EXCEPT ![o.pair] = @ + 1]
    BY <1>1, <1>2, <1>3, <1>6 DEF Install, NewFriends, Reverse
  <2>2. AnsweredOnce'
    <3>1. ASSUME NEW p \in Pairs
          PROVE  answered'[p] + (IF friend_apply'[p] = "pending" THEN 1 ELSE 0)
                   <= submitted'[p]
      <4>1. CASE p = o.pair
        BY <1>1, <1>3, <1>6, <1>8, <2>1, <4>1
      <4>2. CASE p # o.pair
        BY <1>1, <1>3, <2>1, <4>2 DEF IInv, AnsweredOnce
      <4> QED
        BY <4>1, <4>2
    <3> QED
      BY <3>1 DEF AnsweredOnce
  <2>3. FriendMutual'
    BY <1>1, <1>3, <1>4, <2>1 DEF IInv, FriendMutual
  <2>4. FriendsWilled' /\ AgreeHonoured'
    BY <1>1, <1>2, <1>3, <1>6, <2>1 DEF IInv, FriendsWilled, AgreeHonoured
  <2>5. WillsOK'
    BY <1>1, <1>2, <1>3, <1>6, <2>1 DEF IInv, WillsOK
  <2> QED
    BY <1>1, <1>3, <2>1, <2>2, <2>3, <2>4, <2>5
<1>7. CASE o.kind = "resolve" /\ ~o.agree
  <2>1. /\ friend' = friend /\ will' = will
        /\ friend_apply' = [friend_apply EXCEPT ![o.pair] = "refused"]
        /\ submitted' = submitted
        /\ answered' = [answered EXCEPT ![o.pair] = @ + 1]
    BY <1>1, <1>3, <1>7 DEF Install, NewFriends
  <2>2. AnsweredOnce'
    <3>1. ASSUME NEW p \in Pairs
          PROVE  answered'[p] + (IF friend_apply'[p] = "pending" THEN 1 ELSE 0)
                   <= submitted'[p]
      <4>1. CASE p = o.pair
        BY <1>1, <1>3, <1>7, <1>8, <2>1, <4>1
      <4>2. CASE p # o.pair
        BY <1>1, <1>3, <2>1, <4>2 DEF IInv, AnsweredOnce
      <4> QED
        BY <4>1, <4>2
    <3> QED
      BY <3>1 DEF AnsweredOnce
  <2>3. FriendMutual' /\ FriendsWilled' /\ AgreeHonoured'
    BY <1>1, <1>3, <2>1 DEF IInv, FriendMutual, FriendsWilled, AgreeHonoured
  <2>4. WillsOK'
    BY <1>1, <1>2, <1>3, <1>7, <2>1 DEF IInv, WillsOK
  <2> QED
    BY <1>1, <1>3, <1>7, <2>1, <2>2, <2>3, <2>4 DEF Agrees
<1> QED
  BY <1>1, <1>5, <1>6, <1>7

\* The step after which w's transaction has ended with its effects installed.
LEMMA CommitsKeep ==
  ASSUME IInv, NEW w \in Workers, Commit(w) \/ CommitReplyLost(w)
  PROVE  IInv'
<1>1. /\ pc[w] = "commit" /\ Install(op[w]) /\ replied' = replied
      /\ pc' \in [Workers -> PC] /\ op' \in [Workers -> Ops \cup {NoOp}]
      /\ held' = [held EXCEPT ![w] = {}] /\ calls' = calls
      /\ faults' \in 0 .. MaxFaults
      /\ \A v \in Workers \ {w} : pc'[v] = pc[v] /\ op'[v] = op[v]
      /\ \/ pc'[w] = "result" /\ op'[w] = op[w]
         \/ pc'[w] = "idle"
  BY BoundsAssumption DEF Commit, CommitReplyLost, Return, IInv, TypeOK, PC
<1>2. /\ FriendMutual' /\ FriendsWilled' /\ AnsweredOnce' /\ AgreeHonoured'
      /\ WillsOK'
      /\ friend_apply' \in [Pairs -> {"none", "pending", "agreed", "refused"}]
      /\ friend' \subseteq Pairs /\ will' \subseteq Pairs
      /\ submitted' \in [Pairs -> Nat] /\ answered' \in [Pairs -> Nat]
      /\ friend \subseteq friend'
      /\ Agrees(w) => op[w].pair \in friend'
      /\ \A p \in Pairs \ {op[w].pair} : friend_apply'[p] = friend_apply[p]
  BY <1>1, InstallKeeps
<1>3. TypeOK'
  BY <1>1, <1>2 DEF IInv, TypeOK
<1>4. LocalsOK'
  BY <1>1 DEF IInv, LocalsOK, Resolves
<1>5. LocksOK'
  <2>1. /\ held'[w] = {}
        /\ \A v \in Workers \ {w} : held'[v] = held[v] /\ (Open(v)' => Open(v))
    BY <1>1 DEF IInv, TypeOK, Open
  <2>2. ~Open(w)'
    BY <1>1 DEF Open
  <2>3. \A v \in Workers : Open(v)' => Application(op'[v].pair) \in held'[v]
    BY <1>1, <2>1, <2>2 DEF IInv, LocksOK
  <2>4. \A u, v \in Workers : u # v => held'[u] \cap held'[v] = {}
    BY <2>1 DEF IInv, LocksOK
  <2> QED
    BY <2>3, <2>4 DEF LocksOK
<1>6. AnswersOK'
  <2>1. ASSUME NEW v \in Workers, Open(v)', Resolves(v)'
        PROVE  MayAnswer(op[v])'
    <3>1. v # w /\ Open(v) /\ Resolves(v) /\ op'[v] = op[v]
      BY <1>1, <2>1 DEF Open, Resolves
    <3>2. op[v].pair \in Pairs /\ op[v].pair # op[w].pair
      BY <1>1, <3>1, OpFacts, OnlyOpen DEF Open
    <3>3. MayAnswer(op[v])
      BY <3>1 DEF IInv, AnswersOK
    <3> QED
      BY <1>2, <3>1, <3>2, <3>3 DEF MayAnswer
  <2> QED
    BY <2>1 DEF AnswersOK
<1>7. ResultsOK'
  BY <1>1, <1>2 DEF IInv, ResultsOK, Agrees, Resolves
<1> QED
  BY <1>2, <1>3, <1>4, <1>5, <1>6, <1>7 DEF IInv

(***************************************************************************)
(* The theorems.                                                           *)
(***************************************************************************)
LEMMA NextKeeps ==
  ASSUME IInv, [Next]_vars
  PROVE  IInv'
<1>1. CASE UNCHANGED vars
  BY <1>1
  DEF vars, tables, ledger, IInv, TypeOK, LocalsOK, LocksOK, AnswersOK, WillsOK,
      ResultsOK, FriendMutual, FriendsWilled, AnsweredOnce, AgreeHonoured, Open,
      Resolves, Agrees, MayAnswer
<1>2. ASSUME NEW w \in Workers, NEW o \in Ops, Call(w, o)
      PROVE  IInv'
  BY <1>2, CallKeeps
<1>3. ASSUME NEW w \in Workers, Step(w)
      PROVE  IInv'
  BY <1>3, LookupsKeep, UpsertKeeps, LockRowKeeps, InsertFriendKeeps,
     ResultKeeps, FailuresKeep, CommitsKeep DEF Step
<1>4. ASSUME NEW w \in Workers, DatabaseError(w) \/ CommitReplyLost(w)
      PROVE  IInv'
  BY <1>4, FailuresKeep, CommitsKeep
<1> QED
  BY <1>1, <1>2, <1>3, <1>4 DEF Next

\* The inductive invariant: the lock of an application is held from the check
\* of its status to the commit, and by one transaction at a time.
THEOREM Invariance == Spec => []IInv
<1>1. Init => IInv
  BY InitHolds
<1>2. IInv /\ [Next]_vars => IInv'
  BY NextKeeps
<1> QED
  BY <1>1, <1>2, PTL DEF Spec

\* Every variable stays within its type.
THEOREM TypeCorrect == Spec => []TypeOK
<1>1. IInv => TypeOK
  BY DEF IInv
<1> QED
  BY <1>1, Invariance, PTL

\* Friendship is mutual, in every state that other transactions can see.
THEOREM Mutual == Spec => []FriendMutual
<1>1. IInv => FriendMutual
  BY DEF IInv
<1> QED
  BY <1>1, Invariance, PTL

\* Both friends have applied or agreed themselves.
THEOREM Willed == Spec => []FriendsWilled
<1>1. IInv => FriendsWilled
  BY DEF IInv
<1> QED
  BY <1>1, Invariance, PTL

\* No submission is answered twice.
THEOREM OneAnswer == Spec => []AnsweredOnce
<1>1. IInv => AnsweredOnce
  BY DEF IInv
<1> QED
  BY <1>1, Invariance, PTL

\* A successful agreement stands.
THEOREM Honoured == Spec => []AgreeHonoured
<1>1. IInv => AgreeHonoured
  BY DEF IInv
<1> QED
  BY <1>1, Invariance, PTL
==============================================================================
