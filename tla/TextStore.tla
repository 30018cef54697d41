------------------------------ MODULE TextStore ------------------------------
(***************************************************************************)
(* MysqlDao::StoreTextMessage (Common/src/ChatPersistence.cpp), called by  *)
(* the logic threads of several ChatServer nodes on one MySQL database.    *)
(*                                                                         *)
(* A worker is one logic thread.  Its statements are separate steps, so    *)
(* that two nodes interleave between any two of them.  What a transaction  *)
(* has written but not committed is derived from its program counter:      *)
(* nobody else can read it, but the row locks and unique-key entries that  *)
(* go with it make the others wait, as InnoDB does.                        *)
(*                                                                         *)
(* Tables: private_chat (unique pair), chat_thread (its last_seq) and      *)
(* chat_message (unique (sender,id), unique (thread,seq)); user_block is   *)
(* changed by PrivacyCommand and a message is erased by DeleteMessage.     *)
(***************************************************************************)
EXTENDS Naturals, FiniteSets

CONSTANTS
  Users,       \* uids of active accounts
  Friends,     \* the friend table: symmetric, no operation removes a row
  Ids,         \* client message ids (UUIDs chosen by the client)
  Texts,       \* message bodies
  Requests,    \* the send requests clients may issue, repeats included
  NoRequest,   \* no call in progress
  Blocks,      \* the <<owner, blocked>> pairs users may block and unblock
  Workers,     \* ChatServer logic threads, one per node
  MaxThread,   \* largest value of chat_thread.id (BIGINT UNSIGNED)
  MaxSeq,      \* largest value of chat_thread.last_seq (uint64 maximum)
  MaxCalls,    \* bound: calls of StoreTextMessage in one behaviour
  MaxFaults    \* bound: database errors, lost commits and node crashes

Request == [sender: Users, receiver: Users, id: Ids, text: Texts]

ASSUME NumbersAssumption ==
  MaxThread \in Nat /\ MaxSeq \in Nat /\ MaxCalls \in Nat /\ MaxFaults \in Nat

ASSUME RequestsAssumption ==
  /\ Requests \subseteq {r \in Request : r.sender # r.receiver}
  /\ NoRequest \notin Requests

ASSUME RelationsAssumption ==
  /\ Friends \subseteq (Users \X Users)
  /\ Blocks \subseteq (Users \X Users)

VARIABLES
  chat_message,  \* committed rows
  last_seq,      \* chat_thread.last_seq of every committed or future thread
  private_chat,  \* thread of each pair of users, NoThread before the first one
  next_id,       \* AUTO_INCREMENT of chat_thread: the ids up to it are spent
  erased,        \* committed rows whose status is no longer 0
  user_block,    \* <<owner, blocked>>
  pc, req, attempt, thread, seq,   \* a worker's call: control point and locals
  reply,         \* result of the worker's last finished call
  acks,          \* <<request, row>> of every successful reply ever sent
  settled,       \* the request was stored before the worker's call began
  calls, faults  \* used up so far, see MaxCalls and MaxFaults

tables == <<chat_message, last_seq, private_chat, next_id, erased>>
vars == <<tables, user_block, pc, req, attempt, thread, seq, reply, acks,
          settled, calls, faults>>

NoThread == 0
Threads == 1 .. MaxThread
Pairs == {{a, b} : a, b \in Users}
Pair(r) == {r.sender, r.receiver}

Message == [thread: Threads, seq: 1 .. MaxSeq, sender: Users, receiver: Users,
            id: Ids, text: Texts]

\* The three attempts of the retry loop.
MaxAttempts == 3

Replies == {"none", "ok", "ChatNotFriend", "ChatDataInvalid",
            "ChatDatabaseFailed"}

(***************************************************************************)
(* Control points.  Each names the next statement of the call.             *)
(***************************************************************************)
PC == {"idle", "lookup", "begin", "pair", "lock", "duplicate", "insert",
       "commit", "result"}

\* Points at which the transaction has the chat_thread row locked.
Locked == {"duplicate", "insert", "commit"}

\* Points after INSERT private_chat for a worker that creates the thread.
Past == {"lock"} \cup Locked

Lock(w, t) == pc[w] \in Locked /\ thread[w] = t

\* w has an uncommitted private_chat row for p.
NewPair(w, p) == /\ pc[w] \in Past
                 /\ Pair(req[w]) = p
                 /\ private_chat[p] # thread[w]

\* The chat_message row w inserts.
Row(w) == [thread |-> thread[w], seq |-> seq[w], sender |-> req[w].sender,
           receiver |-> req[w].receiver, id |-> req[w].id, text |-> req[w].text]

\* Two rows that one of chat_message's unique keys keeps apart.
SameKey(m, r) == m.sender = r.sender /\ m.id = r.id
Collide(m, n) == SameKey(m, n) \/ (m.thread = n.thread /\ m.seq = n.seq)

\* lookup(): the stored rows of the request's (sender, client_msg_id).
lookup(r) == {m \in chat_message : SameKey(m, r)}

(***************************************************************************)
(* How a call ends, and how an attempt does.                               *)
(***************************************************************************)
Return(w, res) == /\ pc' = [pc EXCEPT ![w] = "idle"]
                  /\ reply' = [reply EXCEPT ![w] = res]
                  /\ req' = [req EXCEPT ![w] = NoRequest]
                  /\ attempt' = [attempt EXCEPT ![w] = 0]
                  /\ thread' = [thread EXCEPT ![w] = NoThread]
                  /\ seq' = [seq EXCEPT ![w] = 0]
                  /\ UNCHANGED <<settled, calls>>

Goto(w, label) == /\ pc' = [pc EXCEPT ![w] = label]
                  /\ UNCHANGED <<req, reply, settled, calls>>

\* Mutant: the failed statement alone is repeated, uncounted, in the same
\* transaction.
AgainInPlace(w) ==
  UNCHANGED <<pc, req, attempt, thread, seq, reply, settled, calls>>

\* `continue`: the next attempt, or ChatDatabaseFailed after the last one.
Again(w) == \/ /\ attempt[w] + 1 < MaxAttempts
               /\ attempt' = [attempt EXCEPT ![w] = @ + 1]
               /\ thread' = [thread EXCEPT ![w] = NoThread]
               /\ seq' = [seq EXCEPT ![w] = 0]
               /\ Goto(w, "lookup")
            \/ /\ attempt[w] + 1 >= MaxAttempts
               /\ Return(w, "ChatDatabaseFailed")

\* A reply that carries row m.
Answer(w, m) == /\ Return(w, "ok")
                /\ acks' = acks \cup {<<req[w], m>>}

(***************************************************************************)
(* StoreTextMessage, statement by statement.                               *)
(***************************************************************************)
Init ==
  /\ chat_message = {} /\ erased = {} /\ user_block = {}
  /\ last_seq = [t \in Threads |-> 0]
  /\ private_chat = [p \in Pairs |-> NoThread]
  /\ next_id = 0
  /\ pc = [w \in Workers |-> "idle"]
  /\ req = [w \in Workers |-> NoRequest]
  /\ attempt = [w \in Workers |-> 0]
  /\ thread = [w \in Workers |-> NoThread]
  /\ seq = [w \in Workers |-> 0]
  /\ reply = [w \in Workers |-> "none"]
  /\ acks = {} /\ settled = [w \in Workers |-> FALSE]
  /\ calls = 0 /\ faults = 0

\* A node takes a send request off its queue; a client may repeat a request
\* (lost reply, reconnect) at any node and any number of times.
Call(w, r) ==
  /\ pc[w] = "idle" /\ calls < MaxCalls
  /\ pc' = [pc EXCEPT ![w] = "lookup"]
  /\ req' = [req EXCEPT ![w] = r]
  /\ reply' = [reply EXCEPT ![w] = "none"]
  /\ settled' = [settled EXCEPT ![w] = lookup(r) # {}]
  /\ calls' = calls + 1
  /\ UNCHANGED <<tables, user_block, attempt, thread, seq, acks, faults>>

\* Mutant: the receiver of the stored row is not compared.
MismatchIgnoresReceiver(r, m) == m \notin erased /\ m.text # r.text

\* The request conflicts with the row already stored under its id.
Mismatch(r, m) == \/ m.receiver # r.receiver
                  \/ m \notin erased /\ m.text # r.text

\* Mutant: a repeated request is looked up only after the block check.
LookupAfterBlock(w) ==
  /\ pc[w] = "lookup"
  /\ \/ /\ <<req[w].receiver, req[w].sender>> \in user_block
        /\ Return(w, "ChatNotFriend")
        /\ UNCHANGED acks
     \/ /\ <<req[w].receiver, req[w].sender>> \notin user_block
        /\ IF lookup(req[w]) = {}
           THEN Goto(w, "begin") /\ UNCHANGED <<attempt, thread, seq, acks>>
           ELSE \E m \in lookup(req[w]) :
                  IF Mismatch(req[w], m)
                  THEN Return(w, "ChatDataInvalid") /\ UNCHANGED acks
                  ELSE Answer(w, m)
  /\ UNCHANGED <<tables, user_block, faults>>

\* An existing row answers the request without opening a transaction.
Lookup(w) ==
  /\ pc[w] = "lookup"
  /\ \/ \E m \in lookup(req[w]) :
          IF Mismatch(req[w], m)
          THEN Return(w, "ChatDataInvalid") /\ UNCHANGED acks
          ELSE Answer(w, m)
     \/ /\ lookup(req[w]) = {}
        /\ Goto(w, "begin")
        /\ UNCHANGED <<attempt, thread, seq, acks>>
  /\ UNCHANGED <<tables, user_block, faults>>

Refused(r) == \/ <<r.sender, r.receiver>> \in user_block
              \/ <<r.receiver, r.sender>> \in user_block
              \/ <<r.sender, r.receiver>> \notin Friends

\* user_block, friend and private_chat are plain reads of the one snapshot the
\* transaction opens; a pair without a thread gets a new chat_thread row.
Begin(w) ==
  /\ pc[w] = "begin"
  /\ LET known == private_chat[Pair(req[w])] IN
     \/ /\ Refused(req[w])
        /\ Return(w, "ChatNotFriend")
        /\ UNCHANGED next_id
     \/ /\ ~Refused(req[w]) /\ known # NoThread
        /\ thread' = [thread EXCEPT ![w] = known]
        /\ Goto(w, "lock")
        /\ UNCHANGED <<next_id, attempt, seq>>
     \/ /\ ~Refused(req[w]) /\ known = NoThread
        /\ next_id < MaxThread
        /\ next_id' = next_id + 1
        /\ thread' = [thread EXCEPT ![w] = next_id + 1]
        /\ Goto(w, "pair")
        /\ UNCHANGED <<attempt, seq>>
     \/ /\ ~Refused(req[w]) /\ known = NoThread
        /\ next_id = MaxThread
        /\ Return(w, "ChatDatabaseFailed")
        /\ UNCHANGED next_id
  /\ UNCHANGED <<chat_message, last_seq, private_chat, erased, user_block,
                 acks, faults>>

\* INSERT private_chat: waits for another's uncommitted row of the pair, then
\* fails with 1062 if that row was committed.
InsertPair(w) ==
  LET p == Pair(req[w]) IN
  /\ pc[w] = "pair"
  /\ \A v \in Workers \ {w} : ~NewPair(v, p)
  /\ \/ /\ private_chat[p] = NoThread
        /\ Goto(w, "lock")
        /\ UNCHANGED <<attempt, thread, seq>>
     \/ /\ private_chat[p] # NoThread
        /\ Again(w)
  /\ UNCHANGED <<tables, user_block, acks, faults>>

\* Mutant: numbers are handed out like AUTO_INCREMENT values, without a lock
\* that lasts until the commit.
LockThreadUnserialized(w) ==
  /\ pc[w] = "lock"
  /\ LET taken == {last_seq[thread[w]]} \cup
                  {seq[v] : v \in {x \in Workers : Lock(x, thread[w])}}
     IN  \E n \in 1 .. MaxSeq : /\ \A k \in taken : n > k
                                /\ n - 1 \in taken
                                /\ seq' = [seq EXCEPT ![w] = n]
  /\ Goto(w, "duplicate")
  /\ UNCHANGED <<tables, user_block, attempt, thread, acks, faults>>

\* SELECT last_seq ... FOR UPDATE: a current read, held until the transaction
\* ends.
LockThread(w) ==
  /\ pc[w] = "lock"
  /\ \A v \in Workers \ {w} : ~Lock(v, thread[w])
  /\ \/ /\ last_seq[thread[w]] = MaxSeq
        /\ Return(w, "ChatDataInvalid")
     \/ /\ last_seq[thread[w]] < MaxSeq
        /\ seq' = [seq EXCEPT ![w] = last_seq[thread[w]] + 1]
        /\ Goto(w, "duplicate")
        /\ UNCHANGED <<attempt, thread>>
  /\ UNCHANGED <<tables, user_block, acks, faults>>

\* SELECT ... FROM chat_message ... FOR UPDATE: a request that was stored while
\* this one waited is rolled back and answered by the next attempt's lookup.
Duplicate(w) ==
  /\ pc[w] = "duplicate"
  /\ \A v \in Workers \ {w} : pc[v] = "commit" => ~SameKey(req[v], req[w])
  /\ \/ lookup(req[w]) # {} /\ Again(w)
     \/ /\ lookup(req[w]) = {}
        /\ Goto(w, "insert")
        /\ UNCHANGED <<attempt, thread, seq>>
  /\ UNCHANGED <<tables, user_block, acks, faults>>

\* Mutant: client ids are not unique in chat_message.
InsertWithoutKey(w) ==
  /\ pc[w] = "insert"
  /\ Goto(w, "commit")
  /\ UNCHANGED <<tables, user_block, attempt, thread, seq, acks, faults>>

\* INSERT chat_message (and message_expiry): waits for another's uncommitted
\* row with a colliding unique key, 1062 if such a row was committed meanwhile.
Insert(w) ==
  /\ pc[w] = "insert"
  /\ \A v \in Workers \ {w} : pc[v] = "commit" => ~Collide(Row(v), Row(w))
  /\ \/ (\E m \in chat_message : Collide(m, Row(w))) /\ Again(w)
     \/ /\ \A m \in chat_message : ~Collide(m, Row(w))
        /\ Goto(w, "commit")
        /\ UNCHANGED <<attempt, thread, seq>>
  /\ UNCHANGED <<tables, user_block, acks, faults>>

\* Mutant: UPDATE chat_thread is missing.
InstallForgetsSeq(w) ==
  /\ private_chat' = [private_chat EXCEPT ![Pair(req[w])] = thread[w]]
  /\ chat_message' = chat_message \cup {Row(w)}
  /\ UNCHANGED <<last_seq, next_id, erased>>

\* The effect of a commit: the new pair, the row and the thread's last_seq.
Install(w) ==
  /\ private_chat' = [private_chat EXCEPT ![Pair(req[w])] = thread[w]]
  /\ chat_message' = chat_message \cup {Row(w)}
  /\ last_seq' = [last_seq EXCEPT ![thread[w]] = seq[w]]
  /\ UNCHANGED <<next_id, erased>>

Commit(w) ==
  /\ pc[w] = "commit"
  /\ Install(w)
  /\ Goto(w, "result")
  /\ UNCHANGED <<attempt, thread, seq, user_block, acks, faults>>

\* The lookup after the commit reads the row back for the reply.
Result(w) ==
  /\ pc[w] = "result"
  /\ \E m \in lookup(req[w]) : Answer(w, m)
  /\ UNCHANGED <<tables, user_block, faults>>

(***************************************************************************)
(* What goes wrong.                                                        *)
(***************************************************************************)
\* Deadlock victim (1213), lock wait timeout (1205): the Lease rolls back and
\* the loop tries again.
Retriable(w) ==
  /\ pc[w] \notin {"idle", "commit"} /\ faults < MaxFaults
  /\ Again(w)
  /\ faults' = faults + 1
  /\ UNCHANGED <<tables, user_block, acks>>

\* Any other error: rolled back (if something was open) and reported.
DatabaseError(w) ==
  /\ pc[w] # "idle" /\ faults < MaxFaults
  /\ Return(w, "ChatDatabaseFailed")
  /\ faults' = faults + 1
  /\ UNCHANGED <<tables, user_block, acks>>

\* The connection breaks during COMMIT after the server has made it durable.
CommitReplyLost(w) ==
  /\ pc[w] = "commit" /\ faults < MaxFaults
  /\ Install(w)
  /\ Return(w, "ChatDatabaseFailed")
  /\ faults' = faults + 1
  /\ UNCHANGED <<user_block, acks>>

\* The node dies: the server rolls its transaction back, nobody is answered.
Crash(w) ==
  /\ pc[w] # "idle" /\ faults < MaxFaults
  /\ Return(w, "none")
  /\ faults' = faults + 1
  /\ UNCHANGED <<tables, user_block, acks>>

(***************************************************************************)
(* The other writers of these tables, whole transactions.                  *)
(***************************************************************************)
\* DeleteMessage for everyone (or the expiry worker) clears a stored message.
Erase(m) ==
  /\ m \in chat_message \ erased
  /\ erased' = erased \cup {m}
  /\ UNCHANGED <<chat_message, last_seq, private_chat, next_id, user_block, pc,
                 req, attempt, thread, seq, reply, acks, settled, calls, faults>>

\* PrivacyCommand "block" and "unblock".
Block(b) ==
  /\ user_block' = user_block \cup {b}
  /\ UNCHANGED <<tables, pc, req, attempt, thread, seq, reply, acks, settled,
                 calls, faults>>

Unblock(b) ==
  /\ user_block' = user_block \ {b}
  /\ UNCHANGED <<tables, pc, req, attempt, thread, seq, reply, acks, settled,
                 calls, faults>>

Step(w) == \/ Lookup(w) \/ Begin(w) \/ InsertPair(w) \/ LockThread(w)
           \/ Duplicate(w) \/ Insert(w) \/ Commit(w) \/ Result(w)

Fault(w) == \/ Retriable(w) \/ DatabaseError(w) \/ CommitReplyLost(w)
            \/ Crash(w)

Next == \/ \E w \in Workers : \/ \E r \in Requests : Call(w, r)
                              \/ Step(w)
                              \/ Fault(w)
        \/ \E m \in chat_message : Erase(m)
        \/ \E b \in Blocks : Block(b) \/ Unblock(b)

Spec == Init /\ [][Next]_vars

\* A logic thread keeps executing its call; lock waits end because InnoDB
\* grants a freed row lock.
FairSpec == Spec /\ \A w \in Workers : WF_vars(Step(w))
(***************************************************************************)
(* Properties.                                                             *)
(***************************************************************************)
\* Every variable stays in its range; in particular a thread id and a seq never
\* pass the limits of their columns.
TypeOK ==
  /\ chat_message \subseteq Message
  /\ last_seq \in [Threads -> 0 .. MaxSeq]
  /\ private_chat \in [Pairs -> Threads \cup {NoThread}]
  /\ next_id \in 0 .. MaxThread
  /\ erased \subseteq chat_message
  /\ user_block \subseteq Blocks
  /\ pc \in [Workers -> PC]
  /\ req \in [Workers -> Requests \cup {NoRequest}]
  /\ attempt \in [Workers -> 0 .. MaxAttempts - 1]
  /\ thread \in [Workers -> Threads \cup {NoThread}]
  /\ seq \in [Workers -> 0 .. MaxSeq]
  /\ reply \in [Workers -> Replies]
  /\ acks \subseteq Requests \X Message
  /\ settled \in [Workers -> BOOLEAN]
  /\ calls \in 0 .. MaxCalls
  /\ faults \in 0 .. MaxFaults

\* StoreTextMessage numbers a thread's messages 1, 2, 3, ... without gap or
\* repeat, whatever retries, rollbacks and crashes happened in between, and
\* chat_thread.last_seq is always the number of the newest one.
SeqContiguous ==
  \A t \in Threads :
    /\ {m.seq : m \in {n \in chat_message : n.thread = t}} = 1 .. last_seq[t]
    /\ \A m, n \in chat_message :
         m.thread = t /\ n.thread = t /\ m.seq = n.seq => m = n

\* All messages of two users are in the one thread private_chat names for them,
\* also when both nodes created a thread for the pair's first message, and no
\* two pairs share a thread.
OneThreadPerPair ==
  /\ \A m \in chat_message : private_chat[Pair(m)] = m.thread
  /\ \A p, q \in Pairs :
       private_chat[p] = private_chat[q] /\ private_chat[p] # NoThread => p = q

\* A client message id is stored at most once per sender, however often and at
\* however many nodes the request is repeated.
StoredOnce == \A m, n \in chat_message : SameKey(m, n) => m = n

\* A successful reply is about a durable row of this very request: same sender,
\* id and receiver, and same text unless the row has been erased since.
AckHonoured ==
  \A a \in acks :
    /\ a[2] \in chat_message
    /\ a[2].sender = a[1].sender /\ a[2].id = a[1].id
    /\ a[2].receiver = a[1].receiver
    /\ a[2].text = a[1].text \/ a[2] \in erased

\* "An already accepted request stays accepted": a call that begins after the
\* request was stored is never refused as ChatNotFriend, even if one of the two
\* has blocked the other since.
SettledStaysAccepted ==
  \A w \in Workers : settled[w] => reply[w] # "ChatNotFriend"

\* A stored message is never dropped, renumbered, moved, or brought back once
\* erased; a retry of its request in particular leaves it alone.
NeverRewritten ==
  [][chat_message \subseteq chat_message' /\ erased \subseteq erased']_vars

\* Every call returns: no worker waits for a lock for ever and the retry loop
\* ends.
EveryCallReturns ==
  \A w \in Workers : pc[w] # "idle" ~> pc[w] = "idle"
==============================================================================
