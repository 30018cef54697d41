----------------------------- MODULE FriendApply -----------------------------
(***************************************************************************)
(* Friend applications: AddFriendApply and ResolveFriendApply with the     *)
(* stored procedures apply_friend and resolve_friend_apply, statement by   *)
(* statement, called by the logic threads of several nodes.                *)
(*                                                                         *)
(* An application is identified with its unique key (from_uid, to_uid):    *)
(* rows of friend_apply are never deleted, so the two name the same row.   *)
(* A transaction keeps its row locks until COMMIT or ROLLBACK; InnoDB      *)
(* breaks a cycle of waiting transactions by rolling one of them back.     *)
(***************************************************************************)
EXTENDS Naturals, FiniteSets

CONSTANTS
  Users,
  Refused,    \* <<from, to>>: request_policy or a block of to refuses from
  Ops,        \* the calls clients may make
  NoOp,
  Workers,    \* logic threads, one per node
  MaxCalls,   \* bound: calls
  MaxFaults   \* bound: database errors, lost replies and crashes

Pairs == {p \in Users \X Users : p[1] # p[2]}

\* AddFriendApply of actor = pair[1], or ResolveFriendApply of the application
\* with the id of pair.
Op == [kind: {"apply"}, actor: Users, pair: Pairs]
      \cup [kind: {"resolve"}, actor: Users, pair: Pairs, agree: BOOLEAN]

ASSUME OpsAssumption ==
  /\ Ops \subseteq Op /\ NoOp \notin Op
  /\ \A o \in Ops : o.kind = "apply" => o.actor = o.pair[1]
  /\ Refused \subseteq Pairs

ASSUME BoundsAssumption == MaxCalls \in Nat /\ MaxFaults \in Nat

VARIABLES
  friend_apply,  \* status of each pair's application
  friend,        \* <<self_uid, friend_uid>>
  held,          \* row locks of a worker's open transaction
  pc, op,        \* a worker's call
  replied,       \* calls that were answered with result 0
  will,          \* <<u, v>>: u applied to v or agreed to v's application
  submitted, answered,   \* commits so far, per application
  calls, faults

tables == <<friend_apply, friend>>
ledger == <<replied, will, submitted, answered>>
vars == <<tables, held, pc, op, ledger, calls, faults>>

PC == {"idle", "privacy", "friend", "upsert", "find", "lock", "first", "second",
       "commit", "result"}

Application(p) == <<"friend_apply", p>>
Friendship(p) == <<"friend", p>>

Reverse(p) == <<p[2], p[1]>>

\* The row lock that a worker's next statement takes.
Wants(w) ==
  CASE pc[w] \in {"upsert", "lock"} -> {Application(op[w].pair)}
    [] pc[w] = "first" -> {Friendship(op[w].pair)}
    [] pc[w] = "second" -> {Friendship(Reverse(op[w].pair))}
    [] OTHER -> {}

WaitsFor(w, v) == v # w /\ Wants(w) \cap held[v] # {}

\* Every lock is free or the worker's own: take it and go on.
Lock(w, label) ==
  /\ \A v \in Workers : ~WaitsFor(w, v)
  /\ held' = [held EXCEPT ![w] = @ \cup Wants(w)]
  /\ pc' = [pc EXCEPT ![w] = label]

Goto(w, label) == pc' = [pc EXCEPT ![w] = label] /\ UNCHANGED held

\* The transaction ends, if there is one, and so does the call.
Return(w) ==
  /\ pc' = [pc EXCEPT ![w] = "idle"]
  /\ op' = [op EXCEPT ![w] = NoOp]
  /\ held' = [held EXCEPT ![w] = {}]

Init ==
  /\ friend_apply = [p \in Pairs |-> "none"] /\ friend = {}
  /\ held = [w \in Workers |-> {}]
  /\ pc = [w \in Workers |-> "idle"] /\ op = [w \in Workers |-> NoOp]
  /\ replied = {} /\ will = {}
  /\ submitted = [p \in Pairs |-> 0] /\ answered = [p \in Pairs |-> 0]
  /\ calls = 0 /\ faults = 0

\* A client's request reaches its node's logic thread.
Call(w, o) ==
  /\ pc[w] = "idle" /\ calls < MaxCalls
  /\ calls' = calls + 1
  /\ op' = [op EXCEPT ![w] = o]
  /\ Goto(w, IF o.kind = "apply" THEN "privacy" ELSE "find")
  /\ UNCHANGED <<tables, ledger, faults>>

(***************************************************************************)
(* AddFriendApply.                                                         *)
(***************************************************************************)
\* PrivacyAllows(to, from, "request_policy").
Privacy(w) ==
  /\ pc[w] = "privacy"
  /\ \/ op[w].pair \in Refused /\ Return(w)
     \/ op[w].pair \notin Refused /\ Goto(w, "friend") /\ UNCHANGED op
  /\ UNCHANGED <<tables, ledger, calls, faults>>

\* IF EXISTS (SELECT ... FROM friend): result 1, outside the transaction.
FriendExists(w) ==
  /\ pc[w] = "friend"
  /\ \/ op[w].pair \in friend /\ Return(w)
     \/ op[w].pair \notin friend /\ Goto(w, "upsert") /\ UNCHANGED op
  /\ UNCHANGED <<tables, ledger, calls, faults>>

\* INSERT ... ON DUPLICATE KEY UPDATE of friend_apply.
Upsert(w) ==
  /\ pc[w] = "upsert"
  /\ Lock(w, "commit")
  /\ UNCHANGED <<tables, op, ledger, calls, faults>>

(***************************************************************************)
(* ResolveFriendApply.                                                     *)
(***************************************************************************)
\* The lookup of the two users, by id and to_uid.
Find(w) ==
  /\ pc[w] = "find"
  /\ LET found == /\ friend_apply[op[w].pair] # "none"
                  /\ op[w].actor = op[w].pair[2]
     IN  \/ ~found /\ Return(w)
         \/ found /\ Goto(w, "lock") /\ UNCHANGED op
  /\ UNCHANGED <<tables, ledger, calls, faults>>

\* The check in the procedure: the recipient answers a pending application.
MayAnswer(o) == o.actor = o.pair[2] /\ friend_apply[o.pair] = "pending"

AfterLock(w) == IF op[w].agree THEN "first" ELSE "commit"

\* Mutant: SELECT without FOR UPDATE.
LockRowPlainly(w) ==
  /\ pc[w] = "lock"
  /\ \/ ~MayAnswer(op[w]) /\ Return(w)
     \/ MayAnswer(op[w]) /\ Goto(w, AfterLock(w)) /\ UNCHANGED op
  /\ UNCHANGED <<tables, ledger, calls, faults>>

\* Mutant: LEAVE proc without ROLLBACK returns the connection with its lock.
LockRowLeaves(w) ==
  /\ pc[w] = "lock"
  /\ \A v \in Workers : ~WaitsFor(w, v)
  /\ held' = [held EXCEPT ![w] = @ \cup Wants(w)]
  /\ IF MayAnswer(op[w])
     THEN pc' = [pc EXCEPT ![w] = AfterLock(w)] /\ UNCHANGED op
     ELSE pc' = [pc EXCEPT ![w] = "idle"] /\ op' = [op EXCEPT ![w] = NoOp]
  /\ UNCHANGED <<tables, ledger, calls, faults>>

\* SELECT ... FOR UPDATE, the check of the status and its ROLLBACK.
LockRow(w) ==
  /\ pc[w] = "lock"
  /\ \/ /\ ~MayAnswer(op[w])
        /\ \A v \in Workers : ~WaitsFor(w, v)
        /\ Return(w)
     \/ /\ MayAnswer(op[w])
        /\ Lock(w, AfterLock(w))
        /\ UNCHANGED op
  /\ UNCHANGED <<tables, ledger, calls, faults>>

\* INSERT of both friend rows: the applicant's, then the recipient's.
InsertFriend(w) ==
  /\ \/ pc[w] = "first" /\ Lock(w, "second")
     \/ pc[w] = "second" /\ Lock(w, "commit")
  /\ UNCHANGED <<tables, op, ledger, calls, faults>>

(***************************************************************************)
(* The end of both calls.                                                  *)
(***************************************************************************)
\* Mutant: a refusal inserts the rows as well.
NewFriendsAlways(o) ==
  IF o.kind = "resolve" THEN {o.pair, Reverse(o.pair)} ELSE {}

\* Mutant: only the row of the applicant is inserted.
NewFriendsOneSided(o) ==
  IF o.kind = "resolve" /\ o.agree THEN {o.pair} ELSE {}

NewFriends(o) ==
  IF o.kind = "resolve" /\ o.agree THEN {o.pair, Reverse(o.pair)} ELSE {}

\* What the transaction writes: the upsert's status, or the answer.
Install(o) ==
  /\ friend' = friend \cup NewFriends(o)
  /\ friend_apply' = [friend_apply EXCEPT ![o.pair] =
       IF o.kind = "apply" THEN "pending"
       ELSE IF o.agree THEN "agreed" ELSE "refused"]
  /\ submitted' = [submitted EXCEPT ![o.pair] = IF o.kind = "apply" THEN @ + 1 ELSE @]
  /\ answered' = [answered EXCEPT ![o.pair] = IF o.kind = "apply" THEN @ ELSE @ + 1]
  /\ will' = IF o.kind = "apply" \/ o.agree
             THEN will \cup {<<o.actor, IF o.kind = "apply" THEN o.pair[2]
                                                            ELSE o.pair[1]>>}
             ELSE will

\* Mutant: the procedure's START TRANSACTION ... COMMIT rolls back.
CommitRollsBack(w) ==
  /\ pc[w] = "commit"
  /\ pc' = [pc EXCEPT ![w] = "result"]
  /\ held' = [held EXCEPT ![w] = {}]
  /\ UNCHANGED <<tables, op, ledger, calls, faults>>

\* COMMIT at the end of the procedure.
Commit(w) ==
  /\ pc[w] = "commit"
  /\ Install(op[w])
  /\ pc' = [pc EXCEPT ![w] = "result"]
  /\ held' = [held EXCEPT ![w] = {}]
  /\ UNCHANGED <<op, replied, calls, faults>>

\* SELECT @result; the reply with result 0 and the notification.
Result(w) ==
  /\ pc[w] = "result"
  /\ replied' = replied \cup {op[w]}
  /\ Return(w)
  /\ UNCHANGED <<tables, will, submitted, answered, calls, faults>>

\* A deadlock: each of two transactions waits for a lock of the other.  The
\* victim's procedure ends in its EXIT HANDLER with result -1.
Deadlock(w) ==
  /\ \E v \in Workers : WaitsFor(w, v) /\ WaitsFor(v, w)
  /\ Return(w)
  /\ UNCHANGED <<tables, ledger, calls, faults>>

\* An error before the commit or in the SELECT after it: result -1.
DatabaseError(w) ==
  /\ pc[w] # "idle" /\ faults < MaxFaults
  /\ faults' = faults + 1
  /\ Return(w)
  /\ UNCHANGED <<tables, ledger, calls>>

\* The connection is lost, or the node dies, while the server commits.
CommitReplyLost(w) ==
  /\ pc[w] = "commit" /\ faults < MaxFaults
  /\ faults' = faults + 1
  /\ Install(op[w])
  /\ Return(w)
  /\ UNCHANGED <<replied, calls>>

Step(w) == \/ Privacy(w) \/ FriendExists(w) \/ Upsert(w) \/ Find(w) \/ LockRow(w)
           \/ InsertFriend(w) \/ Commit(w) \/ Result(w) \/ Deadlock(w)

Next == \E w \in Workers : \/ \E o \in Ops : Call(w, o)
                           \/ Step(w)
                           \/ DatabaseError(w)
                           \/ CommitReplyLost(w)

Spec == Init /\ [][Next]_vars

\* A logic thread keeps executing; InnoDB grants a free lock to one of those
\* that wait for it, and each has its turn since every transaction ends.
FairSpec == Spec /\ \A w \in Workers : SF_vars(Step(w))

(***************************************************************************)
(* Properties.                                                             *)
(***************************************************************************)
TypeOK ==
  /\ friend_apply \in [Pairs -> {"none", "pending", "agreed", "refused"}]
  /\ friend \subseteq Pairs
  /\ held \in [Workers -> SUBSET ({"friend_apply", "friend"} \X Pairs)]
  /\ pc \in [Workers -> PC]
  /\ op \in [Workers -> Ops \cup {NoOp}]
  /\ replied \subseteq Ops /\ will \subseteq Pairs
  /\ submitted \in [Pairs -> Nat] /\ answered \in [Pairs -> Nat]
  /\ calls \in 0 .. MaxCalls /\ faults \in 0 .. MaxFaults

\* Friendship is mutual at every moment, whatever transactions meet or fail.
FriendMutual == \A p \in friend : Reverse(p) \in friend

\* Nobody becomes the friend of somebody without a call of their own: each of
\* the two applied to the other or agreed to the other's application.
FriendsWilled == \A p \in friend : p \in will

\* One submission gets at most one answer, on however many nodes and devices
\* the recipient answers, also when it is submitted again.
AnsweredOnce ==
  \A p \in Pairs : answered[p] + (IF friend_apply[p] = "pending" THEN 1 ELSE 0)
                     <= submitted[p]

\* A recipient who is told that agreeing succeeded has a friend for good.
AgreeHonoured ==
  \A o \in replied : o.kind = "resolve" /\ o.agree => o.pair \in friend

\* No lock wait lasts for ever: every call ends, in a deadlock as its victim.
EveryCallReturns == \A w \in Workers : pc[w] # "idle" ~> pc[w] = "idle"
==============================================================================
