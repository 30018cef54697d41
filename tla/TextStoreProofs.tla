--------------------------- MODULE TextStoreProofs ---------------------------
(***************************************************************************)
(* Theorems about TextStore, for any users, requests, number of workers    *)
(* and bounds; that it implements MessageLog; and about HistorySync, its   *)
(* polling client.                                                         *)
(***************************************************************************)
EXTENDS Sequences, TextStoreLog, HistorySync, WellFoundedInduction, TLAPS

(***************************************************************************)
(* The inductive invariant.                                                *)
(***************************************************************************)
Active(w) == pc[w] \in {"pair"} \cup Past

\* A call in progress has a request, and the locals its point relies on.
LocalsOK ==
  \A w \in Workers :
    /\ pc[w] # "idle" => req[w] \in Requests
    /\ thread[w] <= next_id
    /\ Active(w) => thread[w] \in Threads
    /\ pc[w] \in Locked => seq[w] \in 1 .. MaxSeq

\* The row lock: its holder alone knows the next number of the thread.
LockOK ==
  \A w \in Workers : pc[w] \in Locked =>
    /\ seq[w] = last_seq[thread[w]] + 1
    /\ \A v \in Workers \ {w} : pc[v] \in Locked => thread[v] # thread[w]

\* The worker found its thread in private_chat ...
Found(w) == pc[w] \in Past /\ private_chat[Pair(req[w])] = thread[w]

\* ... or has created it: the id is in nobody else's hands, and once the pair's
\* row is inserted no other worker has inserted one.
Created(w) ==
  /\ \A p \in Pairs : private_chat[p] # thread[w]
  /\ \A v \in Workers \ {w} : thread[v] # thread[w]
  /\ pc[w] \in Past =>
       /\ private_chat[Pair(req[w])] = NoThread
       /\ \A v \in Workers \ {w} :
            pc[v] \in Past => Pair(req[v]) # Pair(req[w])

ThreadsOK ==
  /\ \A p \in Pairs : private_chat[p] <= next_id
  /\ \A w \in Workers : Active(w) => Found(w) \/ Created(w)

\* The uncommitted rows collide with nothing committed nor with each other.
KeysOK ==
  \A w \in Workers : pc[w] = "commit" =>
    /\ \A m \in chat_message : ~Collide(m, Row(w))
    /\ \A v \in Workers \ {w} : pc[v] = "commit" => ~Collide(Row(v), Row(w))

\* After the commit the call's row is in the table.
ResultOK ==
  \A w \in Workers : pc[w] = "result" =>
    \E m \in chat_message : /\ SameKey(m, req[w])
                            /\ m.receiver = req[w].receiver
                            /\ m.text = req[w].text

IInv == /\ TypeOK /\ LocalsOK /\ LockOK /\ ThreadsOK /\ KeysOK /\ ResultOK
        /\ SeqContiguous /\ OneThreadPerPair /\ StoredOnce /\ AckHonoured

Types == TypeOK /\ LocalsOK

USE DEF NoThread, Threads, MaxAttempts

(***************************************************************************)
(* Type correctness.                                                       *)
(***************************************************************************)
LEMMA InitTypes == Init => Types
<1> SUFFICES ASSUME Init PROVE Types
  OBVIOUS
<1> QED
  BY NumbersAssumption
  DEF Init, Types, TypeOK, LocalsOK, PC, Replies, Active, Past, Locked

LEMMA CallTypes ==
  ASSUME Types, NEW w \in Workers, NEW r \in Requests, Call(w, r)
  PROVE  Types'
BY NumbersAssumption
DEF Types, TypeOK, LocalsOK, PC, Replies, Active, Past, Locked, Call, tables

\* The locals of TypeOK.
LocalTypes ==
  /\ pc \in [Workers -> PC]
  /\ req \in [Workers -> Requests \cup {NoRequest}]
  /\ attempt \in [Workers -> 0 .. MaxAttempts - 1]
  /\ thread \in [Workers -> Threads \cup {NoThread}]
  /\ seq \in [Workers -> 0 .. MaxSeq]
  /\ reply \in [Workers -> Replies]
  /\ settled \in [Workers -> BOOLEAN]
  /\ calls \in 0 .. MaxCalls

\* A step of w moves w alone, and keeps its request until the call ends.
Moved(w) ==
  /\ LocalTypes'
  /\ \A v \in Workers \ {w} : /\ pc'[v] = pc[v] /\ req'[v] = req[v]
                              /\ thread'[v] = thread[v] /\ seq'[v] = seq[v]
  /\ pc[w] # "idle" /\ pc'[w] # "idle" => req'[w] = req[w]

LEMMA ReturnMoves ==
  ASSUME Types, NEW w \in Workers, NEW res \in Replies, Return(w, res)
  PROVE  Moved(w) /\ pc'[w] = "idle" /\ thread'[w] = NoThread
BY NumbersAssumption DEF Types, TypeOK, LocalTypes, Moved, Return, PC

LEMMA AgainMoves ==
  ASSUME Types, NEW w \in Workers, Again(w)
  PROVE  /\ Moved(w) /\ thread'[w] = NoThread
         /\ pc'[w] \in {"idle", "lookup"}
<1>1. CASE attempt[w] + 1 < MaxAttempts /\ Goto(w, "lookup")
           /\ attempt' = [attempt EXCEPT ![w] = @ + 1]
           /\ thread' = [thread EXCEPT ![w] = NoThread]
           /\ seq' = [seq EXCEPT ![w] = 0]
  <2>1. attempt' \in [Workers -> 0 .. MaxAttempts - 1]
    <3>1. attempt \in [Workers -> 0 .. 2] /\ attempt[w] \in 0 .. 2
      BY DEF Types, TypeOK
    <3>2. attempt[w] + 1 \in 0 .. 2
      BY <1>1, <3>1
    <3>3. attempt' = [attempt EXCEPT ![w] = attempt[w] + 1]
      BY <1>1
    <3> QED
      BY <3>1, <3>2, <3>3
  <2>2. pc' \in [Workers -> PC] /\ pc'[w] = "lookup"
    BY <1>1 DEF Types, TypeOK, Goto, PC
  <2>3. /\ thread' \in [Workers -> Threads \cup {NoThread}]
        /\ seq' \in [Workers -> 0 .. MaxSeq]
        /\ thread'[w] = NoThread
    BY <1>1, NumbersAssumption DEF Types, TypeOK
  <2>4. \A v \in Workers \ {w} : /\ pc'[v] = pc[v] /\ req'[v] = req[v]
                                 /\ thread'[v] = thread[v] /\ seq'[v] = seq[v]
    BY <1>1 DEF Types, TypeOK, Goto
  <2> QED
    BY <1>1, <2>1, <2>2, <2>3, <2>4 DEF Types, TypeOK, LocalTypes, Moved, Goto
<1>2. CASE Return(w, "ChatDatabaseFailed")
  BY <1>2, ReturnMoves DEF Replies
<1> QED
  BY <1>1, <1>2 DEF Again

\* A jump within the transaction to label, with thread t and number n.
LEMMA GotoMoves ==
  ASSUME Types, NEW w \in Workers, NEW label \in PC, Goto(w, label),
         NEW t \in Threads \cup {NoThread}, NEW n \in 0 .. MaxSeq,
         attempt' = attempt,
         thread' = [thread EXCEPT ![w] = t], seq' = [seq EXCEPT ![w] = n]
  PROVE  /\ Moved(w) /\ pc'[w] = label
         /\ thread'[w] = t /\ seq'[w] = n /\ req'[w] = req[w]
BY DEF Types, TypeOK, LocalTypes, Moved, Goto

\* The same jump when thread and number stay as they are.
LEMMA GotoStays ==
  ASSUME Types, NEW w \in Workers, NEW label \in PC, Goto(w, label),
         UNCHANGED <<attempt, thread, seq>>
  PROVE  Moved(w) /\ pc'[w] = label /\ req'[w] = req[w]
BY DEF Types, TypeOK, LocalTypes, Moved, Goto

\* The variables that are not a worker's own.
SharedTypes ==
  /\ chat_message \subseteq Message
  /\ last_seq \in [Threads -> 0 .. MaxSeq]
  /\ private_chat \in [Pairs -> Threads \cup {NoThread}]
  /\ next_id \in 0 .. MaxThread
  /\ erased \subseteq chat_message
  /\ user_block \subseteq Blocks
  /\ acks \subseteq Requests \X Message
  /\ faults \in 0 .. MaxFaults

\* What a step of w has to establish about w itself.
OwnLocals(w) ==
  /\ thread[w] <= next_id
  /\ Active(w) => thread[w] \in Threads
  /\ pc[w] \in Locked => seq[w] \in 1 .. MaxSeq

LEMMA MovedTypes ==
  ASSUME Types, NEW w \in Workers, pc[w] # "idle", Moved(w), SharedTypes',
         next_id <= next_id', OwnLocals(w)'
  PROVE  Types'
<1>1. TypeOK'
  BY DEF Moved, LocalTypes, SharedTypes, TypeOK
<1>2. ASSUME NEW v \in Workers
      PROVE  /\ pc'[v] # "idle" => req'[v] \in Requests
             /\ thread'[v] <= next_id'
             /\ Active(v)' => thread'[v] \in Threads
             /\ pc'[v] \in Locked => seq'[v] \in 1 .. MaxSeq
  <2>1. CASE v = w
    BY <2>1 DEF Types, LocalsOK, Moved, OwnLocals
  <2>2. CASE v # w
    <3>1. /\ pc'[v] = pc[v] /\ req'[v] = req[v]
          /\ thread'[v] = thread[v] /\ seq'[v] = seq[v]
      BY <2>2 DEF Moved
    <3>2. thread[v] <= next_id'
      BY NumbersAssumption DEF Types, TypeOK, LocalsOK, SharedTypes
    <3> QED
      BY <3>1, <3>2 DEF Types, LocalsOK, Active
  <2> QED
    BY <2>1, <2>2
<1> QED
  BY <1>1, <1>2 DEF Types, LocalsOK, Active, Locked

LEMMA PairTypes ==
  ASSUME Types
  PROVE  /\ \A w \in Workers : pc[w] # "idle" => Pair(req[w]) \in Pairs
         /\ \A m \in chat_message : Pair(m) \in Pairs /\ m.thread \in Threads
<1>1. ASSUME NEW w \in Workers, pc[w] # "idle"
      PROVE  Pair(req[w]) \in Pairs
  <2>1. req[w] \in Request
    BY <1>1, RequestsAssumption DEF Types, LocalsOK
  <2> QED
    BY <2>1 DEF Request, Pair, Pairs
<1>2. ASSUME NEW m \in chat_message
      PROVE  Pair(m) \in Pairs /\ m.thread \in Threads
  <2>1. m \in Message
    BY <1>2 DEF Types, TypeOK
  <2> QED
    BY <2>1 DEF Message, Pair, Pairs
<1> QED
  BY <1>1, <1>2

(***************************************************************************)
(* Steps that touch no table: the ends of an attempt or of a call, and the *)
(* lookups before and after the transaction.                               *)
(***************************************************************************)
\* The invariants about the tables and about the workers' transactions.
Tables == SeqContiguous /\ OneThreadPerPair /\ StoredOnce
Transactions == LockOK /\ ThreadsOK /\ KeysOK /\ ResultOK

Free(w) == pc[w] \in {"idle", "lookup", "begin"}

LEMMA FreeKeeps ==
  ASSUME Types, Types', Tables, Transactions, UNCHANGED tables,
         NEW w \in Workers, Moved(w), Free(w)',
         thread'[w] \in {thread[w], NoThread}
  PROVE  Tables' /\ Transactions'
<1>1. Tables'
  BY DEF Tables, tables, SeqContiguous, OneThreadPerPair, StoredOnce
<1>2. \A v \in Workers \ {w} : /\ pc'[v] = pc[v] /\ req'[v] = req[v]
                               /\ thread'[v] = thread[v] /\ seq'[v] = seq[v]
                               /\ Row(v)' = Row(v) /\ Active(v)' = Active(v)
  BY DEF Moved, Row, Active
<1>3. ~Active(w)' /\ pc'[w] \notin Locked \cup Past
      /\ pc'[w] # "commit" /\ pc'[w] # "result"
  BY DEF Free, Active, Past, Locked
<1>4. LockOK'
  BY <1>2, <1>3 DEF Transactions, LockOK, tables
<1>5. ThreadsOK'
  <2>1. ASSUME NEW v \in Workers, Active(v)'
        PROVE  Found(v)' \/ Created(v)'
    <3>1. v # w /\ Active(v) /\ thread[v] \in Threads
      BY <1>2, <1>3, <2>1 DEF Types, LocalsOK
    <3>2. CASE Found(v)
      BY <1>2, <3>1, <3>2 DEF Found, tables
    <3>3. CASE Created(v)
      <4>1. thread'[w] # thread'[v]
        BY <1>2, <3>1, <3>3, NumbersAssumption DEF Created
      <4> QED
        BY <1>2, <1>3, <3>1, <3>3, <4>1 DEF Created, tables
    <3> QED
      BY <3>1, <3>2, <3>3 DEF Transactions, ThreadsOK
  <2> QED
    BY <2>1 DEF Transactions, ThreadsOK, tables
<1>6. KeysOK'
  BY <1>2, <1>3 DEF Transactions, KeysOK, tables, Collide, SameKey
<1>7. ResultOK'
  BY <1>2, <1>3 DEF Transactions, ResultOK, tables, SameKey
<1> QED
  BY <1>1, <1>4, <1>5, <1>6, <1>7 DEF Transactions

\* The same for the whole invariant.  A reply may be sent on the way, about a
\* row that matches the request.
Matches(m, r) == /\ SameKey(m, r) /\ m.receiver = r.receiver
                 /\ m.text = r.text \/ m \in erased

LEMMA EndKeeps ==
  ASSUME IInv, NEW w \in Workers, pc[w] # "idle", Moved(w), Free(w)',
         thread'[w] \in {thread[w], NoThread},
         UNCHANGED <<tables, user_block>>, faults' \in 0 .. MaxFaults,
         \/ acks' = acks
         \/ \E m \in chat_message : /\ Matches(m, req[w])
                                    /\ acks' = acks \cup {<<req[w], m>>}
  PROVE  IInv'
<1>1. Types /\ Tables /\ Transactions
  BY DEF IInv, Types, Tables, Transactions
<1>2. SharedTypes'
  <2>1. acks' \subseteq Requests \X Message
    BY <1>1 DEF Types, TypeOK, LocalsOK
  <2> QED
    BY <1>1, <2>1 DEF Types, TypeOK, SharedTypes, tables
<1>3. OwnLocals(w)'
  BY <1>1, NumbersAssumption
  DEF Types, TypeOK, LocalsOK, OwnLocals, Free, Active, Past, Locked, tables
<1>4. Types'
  <2>1. next_id <= next_id'
    <3>1. next_id' = next_id /\ next_id \in 0 .. MaxThread
      BY <1>1 DEF tables, Types, TypeOK
    <3> QED
      BY <3>1, NumbersAssumption
  <2> QED
    BY <1>1, <1>2, <1>3, <2>1, MovedTypes
<1>5. Tables' /\ Transactions'
  BY <1>1, <1>4, FreeKeeps
<1>6. AckHonoured'
  BY DEF IInv, AckHonoured, Matches, SameKey, tables
<1> QED
  BY <1>4, <1>5, <1>6 DEF IInv, Types, Tables, Transactions

LEMMA ReturnKeeps ==
  ASSUME IInv, NEW w \in Workers, pc[w] # "idle", NEW res \in Replies,
         Return(w, res),
         UNCHANGED <<tables, user_block>>, faults' \in 0 .. MaxFaults,
         \/ acks' = acks
         \/ \E m \in chat_message : /\ Matches(m, req[w])
                                    /\ acks' = acks \cup {<<req[w], m>>}
  PROVE  IInv'
BY ReturnMoves, EndKeeps DEF IInv, Types, Free

LEMMA AgainKeeps ==
  ASSUME IInv, NEW w \in Workers, pc[w] # "idle", Again(w),
         UNCHANGED <<tables, user_block, acks>>, faults' \in 0 .. MaxFaults
  PROVE  IInv'
BY AgainMoves, EndKeeps DEF IInv, Types, Free

LEMMA LookupKeeps ==
  ASSUME IInv, NEW w \in Workers, Lookup(w)
  PROVE  IInv'
<1>1. pc[w] # "idle" /\ UNCHANGED <<tables, user_block>>
      /\ faults' \in 0 .. MaxFaults
  BY DEF Lookup, IInv, TypeOK
<1>2. CASE \E m \in lookup(req[w]) :
             IF Mismatch(req[w], m)
             THEN Return(w, "ChatDataInvalid") /\ UNCHANGED acks
             ELSE Answer(w, m)
  <2>1. PICK m \in lookup(req[w]) :
               IF Mismatch(req[w], m)
               THEN Return(w, "ChatDataInvalid") /\ UNCHANGED acks
               ELSE Answer(w, m)
    BY <1>2
  <2>2. CASE Mismatch(req[w], m)
    BY <1>1, <2>1, <2>2, ReturnKeeps DEF Replies
  <2>3. CASE ~Mismatch(req[w], m)
    <3>1. m \in chat_message /\ Matches(m, req[w])
      BY <2>3 DEF lookup, Mismatch, Matches
    <3>2. Return(w, "ok") /\ acks' = acks \cup {<<req[w], m>>}
      BY <2>1, <2>3 DEF Answer
    <3> QED
      BY <1>1, <3>1, <3>2, ReturnKeeps DEF Replies
  <2> QED
    BY <2>2, <2>3
<1>3. CASE Goto(w, "begin") /\ UNCHANGED <<attempt, thread, seq, acks>>
  BY <1>1, <1>3, GotoStays, EndKeeps DEF IInv, Types, Free, PC
<1> QED
  BY <1>2, <1>3 DEF Lookup

LEMMA ResultKeeps ==
  ASSUME IInv, NEW w \in Workers, Result(w)
  PROVE  IInv'
<1>1. PICK m \in lookup(req[w]) : Answer(w, m)
  BY DEF Result
<1>2. Matches(m, req[w])
  BY DEF IInv, ResultOK, StoredOnce, SameKey, lookup, Matches, Result
<1>3. pc[w] # "idle" /\ UNCHANGED <<tables, user_block>>
      /\ faults' \in 0 .. MaxFaults
  BY DEF Result, IInv, TypeOK
<1>4. m \in chat_message /\ Return(w, "ok")
      /\ acks' = acks \cup {<<req[w], m>>}
  BY <1>1 DEF lookup, Answer
<1> QED
  BY <1>2, <1>3, <1>4, ReturnKeeps DEF Replies

LEMMA CallKeeps ==
  ASSUME IInv, NEW w \in Workers, NEW r \in Requests, Call(w, r)
  PROVE  IInv'
<1>1. Types /\ Tables /\ Transactions
  BY DEF IInv, Types, Tables, Transactions
<1>2. Types'
  BY <1>1, CallTypes
<1>3. Moved(w) /\ Free(w)' /\ thread' = thread /\ UNCHANGED tables
  BY <1>1, <1>2 DEF Types, TypeOK, Call, Moved, LocalTypes, Free, tables
<1>4. Tables' /\ Transactions'
  BY <1>1, <1>2, <1>3, FreeKeeps
<1>5. AckHonoured'
  BY DEF IInv, AckHonoured, Call, tables
<1> QED
  BY <1>2, <1>4, <1>5 DEF IInv, Types, Tables, Transactions

(***************************************************************************)
(* Steps that enter the transaction or go on inside it.                    *)
(***************************************************************************)
LEMMA BeginKeeps ==
  ASSUME IInv, NEW w \in Workers, Begin(w)
  PROVE  IInv'
<1> DEFINE known == private_chat[Pair(req[w])]
<1>1. Types /\ Tables /\ Transactions /\ pc[w] = "begin"
  BY DEF IInv, Types, Tables, Transactions, Begin
<1>2. UNCHANGED <<chat_message, last_seq, private_chat, erased, user_block,
                  acks, faults>>
  BY DEF Begin
<1>3. ASSUME NEW res \in {"ChatNotFriend", "ChatDatabaseFailed"},
             Return(w, res), UNCHANGED next_id
      PROVE  IInv'
  BY <1>1, <1>2, <1>3, ReturnKeeps DEF Replies, tables, IInv, TypeOK
<1>4. ASSUME NEW label \in {"lock", "pair"}, Goto(w, label),
             NEW t \in Threads, thread' = [thread EXCEPT ![w] = t],
             UNCHANGED <<attempt, seq>>,
             next_id <= next_id', next_id' \in 0 .. MaxThread, t <= next_id',
             label = "lock" => t = known,
             label = "pair" => t > next_id
      PROVE  IInv'
  <2>1. /\ Moved(w) /\ pc'[w] = label
        /\ thread'[w] = t /\ seq' = seq /\ req'[w] = req[w]
    <3>1. seq[w] \in 0 .. MaxSeq /\ seq' = [seq EXCEPT ![w] = seq[w]]
      BY <1>1, <1>4 DEF Types, TypeOK
    <3>2. Types /\ label \in PC /\ t \in Threads \cup {NoThread} /\ Goto(w, label)
      BY <1>1, <1>4 DEF PC
    <3>3. attempt' = attempt /\ seq' = seq /\ thread' = [thread EXCEPT ![w] = t]
      BY <1>4
    <3> QED
      BY <3>1, <3>2, <3>3, GotoMoves
  <2>2. Types'
    <3>1. SharedTypes'
      BY <1>1, <1>2, <1>4 DEF Types, TypeOK, SharedTypes
    <3>2. OwnLocals(w)'
      BY <1>4, <2>1 DEF OwnLocals, Locked
    <3> QED
      BY <1>1, <1>4, <2>1, <3>1, <3>2, MovedTypes
  <2>3. \A v \in Workers \ {w} : /\ pc'[v] = pc[v] /\ req'[v] = req[v]
                                 /\ thread'[v] = thread[v] /\ seq'[v] = seq[v]
                                 /\ Row(v)' = Row(v) /\ Active(v)' = Active(v)
    BY <2>1 DEF Moved, Row, Active
  <2>4. pc'[w] \notin Locked /\ pc'[w] # "commit" /\ pc'[w] # "result"
        /\ Pair(req[w]) \in Pairs
    BY <1>1, <1>4, <2>1, PairTypes DEF Locked
  <2>5. Tables'
    BY <1>1, <1>2 DEF Tables, SeqContiguous, OneThreadPerPair, StoredOnce
  <2>6. LockOK'
    BY <1>1, <1>2, <2>3, <2>4 DEF Transactions, LockOK
  <2>7. KeysOK' /\ ResultOK'
    BY <1>1, <1>2, <2>3, <2>4
    DEF Transactions, KeysOK, ResultOK, Collide, SameKey
  <2>8. Found(w)' \/ Created(w)'
    <3>1. CASE label = "lock"
      BY <1>2, <1>4, <2>1, <3>1 DEF Found, Past
    <3>2. CASE label = "pair"
      <4>1. \A p \in Pairs : private_chat[p] # t
        BY <1>1, <1>4, <3>2, NumbersAssumption
        DEF Transactions, ThreadsOK, Types, TypeOK
      <4>2. \A v \in Workers : thread[v] # t
        BY <1>1, <1>4, <3>2, NumbersAssumption DEF Types, TypeOK, LocalsOK
      <4> QED
        BY <1>2, <2>1, <2>3, <3>2, <4>1, <4>2 DEF Created, Past, Locked
    <3> QED
      BY <1>4, <3>1, <3>2
  <2>9. ASSUME NEW v \in Workers \ {w}, Active(v)
        PROVE  Found(v)' \/ Created(v)'
    <3>1. CASE Found(v)
      BY <1>2, <2>3, <3>1 DEF Found
    <3>2. CASE Created(v)
      <4>1. t # thread[v]
        BY <1>1, <1>4, <2>4, <3>2, NumbersAssumption
        DEF Created, Types, TypeOK, LocalsOK
      <4>2. pc[v] \in Past /\ label = "lock" => Pair(req[w]) # Pair(req[v])
        BY <1>4, <3>2 DEF Created
      <4> QED
        BY <1>2, <1>4, <2>1, <2>3, <3>2, <4>1, <4>2 DEF Created, Past, Locked
    <3> QED
      BY <1>1, <2>9, <3>1, <3>2 DEF Transactions, ThreadsOK
  <2>10. ThreadsOK'
    <3>1. ASSUME NEW p \in Pairs PROVE private_chat'[p] <= next_id'
      <4>1. private_chat'[p] = private_chat[p] /\ private_chat[p] <= next_id
        BY <1>1, <1>2 DEF Transactions, ThreadsOK
      <4>2. private_chat[p] \in Threads \cup {NoThread} /\ next_id \in 0 .. MaxThread
        BY <1>1 DEF Types, TypeOK
      <4> QED
        BY <1>4, <4>1, <4>2, NumbersAssumption
    <3> QED
      BY <2>3, <2>8, <2>9, <3>1 DEF ThreadsOK
  <2> QED
    BY <1>2, <2>2, <2>5, <2>6, <2>7, <2>10
    DEF IInv, Types, Tables, AckHonoured
<1>5. known \in Threads \cup {NoThread} /\ known <= next_id
      /\ next_id \in 0 .. MaxThread
  BY <1>1, PairTypes DEF Types, TypeOK, Transactions, ThreadsOK
<1>6. CASE /\ known # NoThread
           /\ thread' = [thread EXCEPT ![w] = known]
           /\ Goto(w, "lock")
           /\ UNCHANGED <<next_id, attempt, seq>>
  <2>1. known \in Threads /\ known <= next_id' /\ next_id' \in 0 .. MaxThread
        /\ next_id <= next_id'
    BY <1>5, <1>6, NumbersAssumption
  <2> QED
    BY <1>6, <2>1, <1>4
<1>7. CASE /\ next_id < MaxThread
           /\ next_id' = next_id + 1
           /\ thread' = [thread EXCEPT ![w] = next_id + 1]
           /\ Goto(w, "pair")
           /\ UNCHANGED <<attempt, seq>>
  <2>1. /\ next_id + 1 \in Threads /\ next_id + 1 <= next_id'
        /\ next_id' \in 0 .. MaxThread
        /\ next_id <= next_id' /\ next_id + 1 > next_id
    BY <1>5, <1>7, NumbersAssumption
  <2> QED
    BY <1>7, <2>1, <1>4
<1> QED
  BY <1>3, <1>6, <1>7 DEF Begin

\* A statement that succeeds: w goes on with its thread, nothing is committed.
\* The hypotheses are what the statement's own guard has to provide.
LEMMA InsideKeeps ==
  ASSUME IInv, NEW w \in Workers, Active(w), Moved(w), thread' = thread,
         pc'[w] \in Past, OwnLocals(w)',
         UNCHANGED <<tables, user_block, acks, faults>>,
         pc'[w] \in Locked =>
           /\ seq'[w] = last_seq[thread[w]] + 1
           /\ \A v \in Workers \ {w} : pc[v] \in Locked => thread[v] # thread[w],
         pc[w] = "pair" =>
           /\ private_chat[Pair(req[w])] = NoThread
           /\ \A v \in Workers \ {w} :
                pc[v] \in Past => Pair(req[v]) # Pair(req[w]),
         pc'[w] = "commit" =>
           /\ \A m \in chat_message : ~Collide(m, Row(w)')
           /\ \A v \in Workers \ {w} :
                pc[v] = "commit" => ~Collide(Row(v), Row(w)')
  PROVE  IInv'
<1>1. Types /\ Tables /\ Transactions
  BY DEF IInv, Types, Tables, Transactions
<1>2. pc[w] # "idle" /\ pc'[w] # "result" /\ req'[w] = req[w]
  BY DEF Active, Past, Locked, Moved
<1>3. \A v \in Workers \ {w} : /\ pc'[v] = pc[v] /\ req'[v] = req[v]
                               /\ thread'[v] = thread[v] /\ seq'[v] = seq[v]
                               /\ Row(v)' = Row(v) /\ Active(v)' = Active(v)
  BY DEF Moved, Row, Active
<1>4. Types'
  <2>1. SharedTypes' /\ next_id <= next_id'
    BY <1>1, NumbersAssumption DEF Types, TypeOK, SharedTypes, tables
  <2> QED
    BY <1>1, <1>2, <2>1, MovedTypes
<1>5. Tables' /\ AckHonoured'
  BY <1>1 DEF IInv, Tables, tables, SeqContiguous, OneThreadPerPair, StoredOnce,
              AckHonoured
<1>6. LockOK'
  <2>1. ASSUME NEW v \in Workers \ {w}, pc[v] \in Locked
        PROVE  /\ seq[v] = last_seq[thread[v]] + 1
               /\ \A x \in Workers \ {v} :
                    pc'[x] \in Locked => thread[x] # thread[v]
    BY <1>1, <1>3, <2>1 DEF Transactions, LockOK
  <2> QED
    BY <1>3, <2>1 DEF LockOK, tables
<1>7. Found(w)' \/ Created(w)'
  <2>1. CASE pc[w] = "pair"
    <3>1. Created(w)
      BY <1>1, <2>1 DEF Transactions, ThreadsOK, Found, Past, Locked
    <3> QED
      BY <1>2, <1>3, <2>1, <3>1 DEF Created, tables
  <2>2. CASE pc[w] \in Past
    <3>1. CASE Found(w)
      BY <1>2, <3>1 DEF Found, tables
    <3>2. CASE Created(w)
      BY <1>2, <1>3, <2>2, <3>2 DEF Created, tables
    <3> QED
      BY <1>1, <3>1, <3>2 DEF Transactions, ThreadsOK
  <2> QED
    BY <2>1, <2>2 DEF Active
<1>8. ASSUME NEW v \in Workers \ {w}, Active(v)
      PROVE  Found(v)' \/ Created(v)'
  <2>1. CASE Found(v)
    BY <1>3, <2>1 DEF Found, tables
  <2>2. CASE Created(v)
    <3>1. pc[v] \in Past => Pair(req[w]) # Pair(req[v])
      BY <2>2 DEF Created, Active
    <3> QED
      BY <1>2, <1>3, <2>2, <3>1 DEF Created, tables
  <2> QED
    BY <1>1, <1>8, <2>1, <2>2 DEF Transactions, ThreadsOK
<1>9. ThreadsOK'
  BY <1>1, <1>3, <1>7, <1>8 DEF Transactions, ThreadsOK, tables
<1>10. KeysOK'
  <2>1. ASSUME NEW v \in Workers \ {w}, pc[v] = "commit", pc'[w] = "commit"
        PROVE  ~Collide(Row(w)', Row(v))
    BY <2>1 DEF Collide, SameKey
  <2> QED
    BY <1>1, <1>3, <2>1 DEF Transactions, KeysOK, tables, Collide, SameKey
<1>11. ResultOK'
  BY <1>1, <1>2, <1>3 DEF Transactions, ResultOK, tables, SameKey
<1> QED
  BY <1>4, <1>5, <1>6, <1>9, <1>10, <1>11 DEF IInv, Types, Tables

LEMMA InsertPairKeeps ==
  ASSUME IInv, NEW w \in Workers, InsertPair(w)
  PROVE  IInv'
<1>1. Types /\ Active(w) /\ pc[w] = "pair" /\ faults' \in 0 .. MaxFaults
      /\ UNCHANGED <<tables, user_block, acks, faults>>
  BY DEF IInv, Types, TypeOK, InsertPair, Active
<1>2. CASE Again(w)
  BY <1>1, <1>2, AgainKeeps
<1>3. CASE /\ private_chat[Pair(req[w])] = NoThread
           /\ Goto(w, "lock")
           /\ UNCHANGED <<attempt, thread, seq>>
  <2>1. Moved(w) /\ pc'[w] = "lock"
    BY <1>1, <1>3, GotoStays DEF PC
  <2>2. OwnLocals(w)'
    BY <1>1, <1>3, <2>1 DEF OwnLocals, Types, LocalsOK, tables, Locked
  <2>3. ASSUME NEW v \in Workers \ {w}, pc[v] \in Past
        PROVE  Pair(req[v]) # Pair(req[w])
    <3>1. thread[v] # NoThread
      BY <1>1, <2>3, NumbersAssumption DEF Types, LocalsOK, Active
    <3>2. ~NewPair(v, Pair(req[w]))
      BY DEF InsertPair
    <3> QED
      BY <1>3, <2>3, <3>1, <3>2 DEF NewPair
  <2> QED
    BY <1>1, <1>3, <2>1, <2>2, <2>3, InsideKeeps DEF Past, Locked
<1> QED
  BY <1>2, <1>3 DEF InsertPair

LEMMA LockThreadKeeps ==
  ASSUME IInv, NEW w \in Workers, LockThread(w)
  PROVE  IInv'
<1>1. Types /\ Active(w) /\ pc[w] = "lock" /\ faults' \in 0 .. MaxFaults
      /\ UNCHANGED <<tables, user_block, acks, faults>>
  BY DEF IInv, Types, TypeOK, LockThread, Active, Past
<1>2. CASE Return(w, "ChatDataInvalid")
  BY <1>1, <1>2, ReturnKeeps DEF Replies
<1>3. CASE /\ last_seq[thread[w]] < MaxSeq
           /\ seq' = [seq EXCEPT ![w] = last_seq[thread[w]] + 1]
           /\ Goto(w, "duplicate")
           /\ UNCHANGED <<attempt, thread>>
  <2>1. thread[w] \in Threads /\ last_seq[thread[w]] \in 0 .. MaxSeq
        /\ thread' = [thread EXCEPT ![w] = thread[w]]
    BY <1>1, <1>3 DEF Types, TypeOK, LocalsOK
  <2>2. last_seq[thread[w]] + 1 \in 1 .. MaxSeq
    BY <1>3, <2>1, NumbersAssumption
  <2>3. /\ Moved(w) /\ pc'[w] = "duplicate"
        /\ seq'[w] = last_seq[thread[w]] + 1
    <3>1. ASSUME NEW n \in 0 .. MaxSeq, seq' = [seq EXCEPT ![w] = n]
          PROVE  Moved(w) /\ pc'[w] = "duplicate" /\ seq'[w] = n
      BY <1>1, <1>3, <3>1 DEF Types, TypeOK, LocalTypes, Moved, Goto, PC
    <3>2. last_seq[thread[w]] + 1 \in 0 .. MaxSeq
      BY <2>2, NumbersAssumption
    <3> QED
      BY <1>3, <3>1, <3>2
  <2>4. OwnLocals(w)'
    BY <1>1, <1>3, <2>1, <2>2, <2>3 DEF OwnLocals, Types, LocalsOK, tables
  <2>5. \A v \in Workers \ {w} : pc[v] \in Locked => thread[v] # thread[w]
    BY DEF LockThread, Lock
  <2> QED
    BY <1>1, <1>3, <2>3, <2>4, <2>5, InsideKeeps DEF Past, Locked
<1> QED
  BY <1>2, <1>3 DEF LockThread

LEMMA DuplicateKeeps ==
  ASSUME IInv, NEW w \in Workers, Duplicate(w)
  PROVE  IInv'
<1>1. Types /\ Active(w) /\ pc[w] = "duplicate" /\ faults' \in 0 .. MaxFaults
      /\ UNCHANGED <<tables, user_block, acks, faults>>
  BY DEF IInv, Types, TypeOK, Duplicate, Active, Past, Locked
<1>2. CASE Again(w)
  BY <1>1, <1>2, AgainKeeps
<1>3. CASE Goto(w, "insert") /\ UNCHANGED <<attempt, thread, seq>>
  <2>1. Moved(w) /\ pc'[w] = "insert"
    BY <1>1, <1>3, GotoStays DEF PC
  <2>2. OwnLocals(w)'
    BY <1>1, <1>3, <2>1 DEF OwnLocals, Types, LocalsOK, tables, Locked, Active,
                            Past
  <2>3. /\ seq'[w] = last_seq[thread[w]] + 1
        /\ \A v \in Workers \ {w} : pc[v] \in Locked => thread[v] # thread[w]
    BY <1>1, <1>3 DEF IInv, LockOK, Locked
  <2> QED
    BY <1>1, <1>3, <2>1, <2>2, <2>3, InsideKeeps DEF Past, Locked
<1> QED
  BY <1>2, <1>3 DEF Duplicate

LEMMA InsertKeeps ==
  ASSUME IInv, NEW w \in Workers, Insert(w)
  PROVE  IInv'
<1>1. Types /\ Active(w) /\ pc[w] = "insert" /\ faults' \in 0 .. MaxFaults
      /\ UNCHANGED <<tables, user_block, acks, faults>>
  BY DEF IInv, Types, TypeOK, Insert, Active, Past, Locked
<1>2. CASE Again(w)
  BY <1>1, <1>2, AgainKeeps
<1>3. CASE /\ \A m \in chat_message : ~Collide(m, Row(w))
           /\ Goto(w, "commit")
           /\ UNCHANGED <<attempt, thread, seq>>
  <2>1. Moved(w) /\ pc'[w] = "commit" /\ req'[w] = req[w]
    BY <1>1, <1>3, GotoStays DEF PC
  <2>2. OwnLocals(w)'
    BY <1>1, <1>3, <2>1 DEF OwnLocals, Types, LocalsOK, tables, Locked, Active,
                            Past
  <2>3. /\ seq'[w] = last_seq[thread[w]] + 1
        /\ \A v \in Workers \ {w} : pc[v] \in Locked => thread[v] # thread[w]
    BY <1>1, <1>3 DEF IInv, LockOK, Locked
  <2>4. Row(w)' = Row(w)
    BY <1>3, <2>1 DEF Row
  <2>5. \A v \in Workers \ {w} : pc[v] = "commit" => ~Collide(Row(v), Row(w))
    BY DEF Insert
  <2> QED
    BY <1>1, <1>3, <2>1, <2>2, <2>3, <2>4, <2>5, InsideKeeps DEF Past, Locked
<1> QED
  BY <1>2, <1>3 DEF Insert

(***************************************************************************)
(* The commit, with and without its reply.                                 *)
(***************************************************************************)
LEMMA InstallTypes ==
  ASSUME IInv, NEW w \in Workers, pc[w] = "commit", Install(w), Moved(w),
         pc'[w] \in {"idle", "result"}, thread'[w] \in {thread[w], NoThread},
         UNCHANGED <<user_block, acks>>, faults' \in 0 .. MaxFaults
  PROVE  Types' /\ Row(w) \in Message
<1>1. Types /\ thread[w] \in Threads /\ seq[w] \in 1 .. MaxSeq
      /\ req[w] \in Request /\ Pair(req[w]) \in Pairs
  BY RequestsAssumption, PairTypes
  DEF IInv, Types, LocalsOK, Active, Past, Locked
<1>2. Row(w) \in Message
  BY <1>1 DEF Row, Message, Request
<1>3. SharedTypes'
  <2>1. last_seq' \in [Threads -> 0 .. MaxSeq]
    BY <1>1, NumbersAssumption DEF Install, Types, TypeOK
  <2>2. private_chat' \in [Pairs -> Threads \cup {NoThread}]
    BY <1>1 DEF Install, Types, TypeOK
  <2> QED
    BY <1>1, <1>2, <2>1, <2>2 DEF Install, Types, TypeOK, SharedTypes
<1>4. OwnLocals(w)'
  BY <1>1, NumbersAssumption
  DEF Install, OwnLocals, Types, TypeOK, LocalsOK, Active, Past, Locked
<1>5. next_id <= next_id'
  BY <1>1, NumbersAssumption DEF Install, Types, TypeOK
<1> QED
  BY <1>1, <1>2, <1>3, <1>4, <1>5, MovedTypes

\* A new row keeps the three invariants about tables: the row lock gives the
\* next number, Found or Created the thread, the unique key the id.
LEMMA InstallTables ==
  ASSUME IInv, NEW w \in Workers, pc[w] = "commit", Install(w)
  PROVE  Tables'
<1>1. /\ thread[w] \in Threads /\ Pair(req[w]) \in Pairs
      /\ last_seq \in [Threads -> 0 .. MaxSeq]
      /\ private_chat \in [Pairs -> Threads \cup {NoThread}]
      /\ seq[w] = last_seq[thread[w]] + 1
      /\ \A m \in chat_message : m.seq \in Nat
  <2>1. \A m \in chat_message : m.seq \in Nat
    BY NumbersAssumption DEF IInv, TypeOK, Message
  <2> QED
    BY <2>1, PairTypes
    DEF IInv, Types, TypeOK, LocalsOK, LockOK, Active, Past, Locked
<1>2. /\ Row(w).thread = thread[w] /\ Row(w).seq = seq[w]
      /\ Row(w).sender = req[w].sender /\ Row(w).id = req[w].id
      /\ Pair(Row(w)) = Pair(req[w])
  BY DEF Row, Pair
<1>3. Found(w) \/ Created(w)
  BY DEF IInv, ThreadsOK, Active, Past, Locked
<1>4. SeqContiguous'
  <2> SUFFICES ASSUME NEW t \in Threads
      PROVE  /\ {m.seq : m \in {n \in chat_message' : n.thread = t}}
                   = 1 .. last_seq'[t]
             /\ \A m, n \in chat_message' :
                  m.thread = t /\ n.thread = t /\ m.seq = n.seq => m = n
    BY DEF SeqContiguous
  <2>1. /\ {m.seq : m \in {n \in chat_message : n.thread = t}} = 1 .. last_seq[t]
        /\ \A m, n \in chat_message :
             m.thread = t /\ n.thread = t /\ m.seq = n.seq => m = n
    BY DEF IInv, SeqContiguous
  <2>2. CASE t # thread[w]
    <3>1. /\ last_seq'[t] = last_seq[t]
          /\ {n \in chat_message' : n.thread = t}
               = {n \in chat_message : n.thread = t}
      BY <1>1, <1>2, <2>2 DEF Install
    <3> QED
      BY <1>2, <2>1, <2>2, <3>1 DEF Install
  <2>3. CASE t = thread[w]
    <3>1. last_seq'[t] = last_seq[t] + 1 /\ last_seq[t] \in Nat
      BY <1>1, <2>3, NumbersAssumption DEF Install
    <3>2. {m.seq : m \in {n \in chat_message' : n.thread = t}}
            = {m.seq : m \in {n \in chat_message : n.thread = t}} \cup {seq[w]}
      BY <1>2, <2>3 DEF Install
    <3>3. 1 .. last_seq[t] \cup {seq[w]} = 1 .. last_seq'[t]
      BY <1>1, <2>3, <3>1
    <3>4. \A m \in chat_message : m.thread = t => m.seq # seq[w]
      BY <1>1, <2>1, <2>3, <3>1
    <3> QED
      BY <1>2, <2>1, <3>2, <3>3, <3>4 DEF Install
  <2> QED
    BY <2>2, <2>3
<1>5. OneThreadPerPair'
  <2>1. CASE Found(w)
    <3>1. private_chat' = private_chat
      BY <1>1, <2>1 DEF Found, Install
    <3> QED
      BY <1>2, <2>1, <3>1 DEF IInv, OneThreadPerPair, Found, Install
  <2>2. CASE Created(w)
    <3>1. private_chat[Pair(req[w])] = NoThread
          /\ \A p \in Pairs : private_chat[p] # thread[w]
      BY <2>2 DEF Created, Past, Locked
    <3>2. ASSUME NEW m \in chat_message
          PROVE  private_chat'[Pair(m)] = m.thread
      <4>1. Pair(m) \in Pairs /\ m.thread \in Threads
            /\ private_chat[Pair(m)] = m.thread
        BY PairTypes DEF IInv, Types, OneThreadPerPair
      <4>2. Pair(m) # Pair(req[w])
        BY <3>1, <4>1, NumbersAssumption
      <4> QED
        BY <1>1, <4>1, <4>2 DEF Install
    <3>3. \A p, q \in Pairs : private_chat'[p] = private_chat'[q]
                              /\ private_chat'[p] # NoThread => p = q
      BY <1>1, <3>1 DEF Install, IInv, OneThreadPerPair
    <3> QED
      BY <1>1, <1>2, <3>2, <3>3 DEF OneThreadPerPair, Install
  <2> QED
    BY <1>3, <2>1, <2>2
<1>6. StoredOnce'
  <2>1. \A m \in chat_message : ~SameKey(m, Row(w))
    BY DEF IInv, KeysOK, Collide
  <2> QED
    BY <2>1 DEF IInv, StoredOnce, SameKey, Install
<1> QED
  BY <1>4, <1>5, <1>6 DEF Tables

LEMMA InstallKeeps ==
  ASSUME IInv, NEW w \in Workers, pc[w] = "commit", Install(w), Moved(w),
         pc'[w] \in {"idle", "result"}, thread'[w] \in {thread[w], NoThread},
         UNCHANGED <<user_block, acks>>, faults' \in 0 .. MaxFaults
  PROVE  IInv'
<1>1. Types' /\ Tables' /\ Row(w) \in Message
  BY InstallTypes, InstallTables
<1>2. \A v \in Workers \ {w} : /\ pc'[v] = pc[v] /\ req'[v] = req[v]
                               /\ thread'[v] = thread[v] /\ seq'[v] = seq[v]
                               /\ Row(v)' = Row(v) /\ Active(v)' = Active(v)
  BY DEF Moved, Row, Active
<1>3. /\ ~Active(w)' /\ pc'[w] \notin Locked /\ pc'[w] # "commit"
      /\ pc[w] \in Locked /\ pc[w] \in Past /\ Active(w)
  BY DEF Active, Past, Locked
<1>4. /\ thread[w] \in Threads /\ Pair(req[w]) \in Pairs
      /\ private_chat \in [Pairs -> Threads \cup {NoThread}]
      /\ last_seq \in [Threads -> 0 .. MaxSeq]
  BY <1>3, PairTypes DEF IInv, Types, TypeOK, LocalsOK
<1>5. LockOK'
  <2>1. ASSUME NEW v \in Workers \ {w}, pc[v] \in Locked
        PROVE  /\ seq[v] = last_seq'[thread[v]] + 1
               /\ \A x \in Workers \ {v} :
                    pc'[x] \in Locked => thread'[x] # thread[v]
    <3>1. thread[v] # thread[w] /\ thread[v] \in Threads
          /\ seq[v] = last_seq[thread[v]] + 1
      BY <1>3, <2>1 DEF IInv, LockOK, LocalsOK, Active, Past
    <3>2. last_seq'[thread[v]] = last_seq[thread[v]]
      BY <1>4, <3>1 DEF Install
    <3> QED
      BY <1>2, <1>3, <2>1, <3>1, <3>2 DEF IInv, LockOK
  <2> QED
    BY <1>2, <1>3, <2>1 DEF LockOK
<1>6. Found(w) \/ Created(w)
  BY <1>3 DEF IInv, ThreadsOK
<1>7. ASSUME NEW v \in Workers \ {w}, Active(v)
      PROVE  Found(v)' \/ Created(v)'
  <2>1. /\ thread[v] \in Threads
        /\ thread'[w] # thread[v] \/ thread[v] = thread[w]
    BY <1>7, NumbersAssumption DEF IInv, LocalsOK
  <2>2. CASE Found(v)
    <3>1. private_chat[Pair(req[v])] = thread[v] /\ Pair(req[v]) \in Pairs
          /\ thread[v] \in Threads /\ pc[v] \in Past
      BY <1>7, <2>2, PairTypes
      DEF Found, IInv, Types, LocalsOK, Active, Past, Locked
    <3>2. private_chat'[Pair(req[v])] = thread[v]
      <4>1. CASE Found(w)
        BY <1>4, <3>1, <4>1 DEF Found, Install
      <4>2. CASE Created(w)
        <5>1. private_chat[Pair(req[w])] = NoThread
          BY <1>3, <4>2 DEF Created
        <5>2. Pair(req[v]) # Pair(req[w])
          BY <3>1, <5>1, NumbersAssumption
        <5> QED
          BY <1>4, <3>1, <5>2 DEF Install
      <4> QED
        BY <1>6, <4>1, <4>2
    <3> QED
      BY <1>2, <3>1, <3>2 DEF Found
  <2>3. CASE Created(v)
    <3>1. thread[w] # thread[v] /\ thread'[w] # thread[v]
      BY <2>1, <2>3 DEF Created
    <3>2. \A p \in Pairs : private_chat'[p] # thread[v]
      BY <1>4, <2>3, <3>1 DEF Created, Install
    <3>3. ASSUME pc[v] \in Past
          PROVE  /\ private_chat'[Pair(req[v])] = NoThread
                 /\ \A x \in Workers \ {v} :
                      pc'[x] \in Past => Pair(req'[x]) # Pair(req[v])
      <4>1. /\ private_chat[Pair(req[v])] = NoThread
            /\ \A x \in Workers \ {v} :
                 pc[x] \in Past => Pair(req[x]) # Pair(req[v])
            /\ Pair(req[v]) \in Pairs
        BY <2>3, <3>3, PairTypes DEF Created, IInv, Types, Past, Locked
      <4>2. pc'[w] \notin Past /\ Pair(req[w]) # Pair(req[v])
        BY <1>3, <4>1 DEF Active
      <4> QED
        BY <1>2, <1>4, <4>1, <4>2 DEF Install
    <3> QED
      BY <1>2, <2>3, <3>1, <3>2, <3>3 DEF Created
  <2> QED
    BY <1>7, <2>2, <2>3 DEF IInv, ThreadsOK
<1>8. ThreadsOK'
  <2>1. \A p \in Pairs : private_chat'[p] <= next_id'
    BY <1>4 DEF IInv, ThreadsOK, LocalsOK, Install
  <2> QED
    BY <1>2, <1>3, <1>7, <2>1 DEF ThreadsOK
<1>9. KeysOK'
  <2>1. ASSUME NEW v \in Workers \ {w}, pc[v] = "commit"
        PROVE  ~Collide(Row(w), Row(v))
    BY <2>1 DEF IInv, KeysOK
  <2> QED
    BY <1>2, <1>3, <2>1 DEF IInv, KeysOK, Install, Collide, SameKey
<1>10. ResultOK'
  <2>1. /\ Row(w) \in chat_message' /\ SameKey(Row(w), req[w])
        /\ Row(w).receiver = req[w].receiver /\ Row(w).text = req[w].text
        /\ pc'[w] = "result" => req'[w] = req[w]
    BY <1>3 DEF Install, Row, SameKey, Moved, Locked
  <2> QED
    BY <1>2, <2>1 DEF IInv, ResultOK, Install, SameKey
<1>11. AckHonoured'
  BY DEF IInv, AckHonoured, Install
<1> QED
  BY <1>1, <1>5, <1>8, <1>9, <1>10, <1>11 DEF IInv, Types, Tables

LEMMA CommitKeeps ==
  ASSUME IInv, NEW w \in Workers, Commit(w)
  PROVE  IInv'
<1>1. Types /\ pc[w] = "commit" /\ Install(w) /\ Goto(w, "result")
      /\ UNCHANGED <<attempt, thread, seq, user_block, acks>>
      /\ faults' \in 0 .. MaxFaults
  BY DEF Commit, IInv, Types, TypeOK
<1>2. Moved(w) /\ pc'[w] = "result"
  BY <1>1, GotoStays DEF PC
<1> QED
  BY <1>1, <1>2, InstallKeeps

LEMMA CommitReplyLostKeeps ==
  ASSUME IInv, NEW w \in Workers, CommitReplyLost(w)
  PROVE  IInv'
<1>1. Types /\ pc[w] = "commit" /\ Install(w)
      /\ Return(w, "ChatDatabaseFailed")
      /\ UNCHANGED <<user_block, acks>> /\ faults' \in 0 .. MaxFaults
  BY NumbersAssumption DEF CommitReplyLost, IInv, Types, TypeOK
<1>2. Moved(w) /\ pc'[w] = "idle" /\ thread'[w] = NoThread
  BY <1>1, ReturnMoves DEF Replies
<1> QED
  BY <1>1, <1>2, InstallKeeps

(***************************************************************************)
(* The remaining steps.                                                    *)
(***************************************************************************)
LEMMA FaultKeeps ==
  ASSUME IInv, NEW w \in Workers, Fault(w)
  PROVE  IInv'
<1>1. CASE Retriable(w)
  <2>1. pc[w] # "idle" /\ faults' \in 0 .. MaxFaults
    BY <1>1, NumbersAssumption DEF Retriable, IInv, TypeOK
  <2> QED
    BY <1>1, <2>1, AgainKeeps DEF Retriable
<1>2. CASE DatabaseError(w)
  <2>1. pc[w] # "idle" /\ faults' \in 0 .. MaxFaults
    BY <1>2, NumbersAssumption DEF DatabaseError, IInv, TypeOK
  <2> QED
    BY <1>2, <2>1, ReturnKeeps DEF DatabaseError, Replies
<1>3. CASE Crash(w)
  <2>1. pc[w] # "idle" /\ faults' \in 0 .. MaxFaults
    BY <1>3, NumbersAssumption DEF Crash, IInv, TypeOK
  <2> QED
    BY <1>3, <2>1, ReturnKeeps DEF Crash, Replies
<1> QED
  BY <1>1, <1>2, <1>3, CommitReplyLostKeeps DEF Fault

\* The other writers: they touch neither a worker nor what its call relies on.
LEMMA OthersKeep ==
  ASSUME IInv,
         \/ \E m \in chat_message : Erase(m)
         \/ \E b \in Blocks : Block(b) \/ Unblock(b)
         \/ UNCHANGED vars
  PROVE  IInv'
<1>1. /\ UNCHANGED <<chat_message, last_seq, private_chat, next_id, pc, req,
                     attempt, thread, seq, reply, acks, settled, calls, faults>>
      /\ erased \subseteq erased' /\ erased' \subseteq chat_message
      /\ user_block' \subseteq Blocks
  BY DEF Erase, Block, Unblock, vars, tables, IInv, TypeOK
<1>2. TypeOK' /\ LocalsOK'
  BY <1>1 DEF IInv, TypeOK, LocalsOK, Active
<1>3. LockOK' /\ ThreadsOK'
  BY <1>1 DEF IInv, LockOK, ThreadsOK, Active, Found, Created
<1>4. KeysOK' /\ ResultOK'
  BY <1>1 DEF IInv, KeysOK, ResultOK, Collide, SameKey, Row
<1>5. SeqContiguous' /\ OneThreadPerPair' /\ StoredOnce' /\ AckHonoured'
  BY <1>1 DEF IInv, SeqContiguous, OneThreadPerPair, StoredOnce, SameKey,
              AckHonoured
<1> QED
  BY <1>2, <1>3, <1>4, <1>5 DEF IInv

LEMMA InitIInv == Init => IInv
<1> SUFFICES ASSUME Init PROVE IInv
  OBVIOUS
<1>1. TypeOK /\ LocalsOK
  BY InitTypes DEF Types
<1>2. LockOK /\ ThreadsOK /\ KeysOK /\ ResultOK
  BY DEF Init, LockOK, ThreadsOK, KeysOK, ResultOK, Active, Past, Locked
<1>3. SeqContiguous /\ OneThreadPerPair /\ StoredOnce /\ AckHonoured
  BY DEF Init, SeqContiguous, OneThreadPerPair, StoredOnce, AckHonoured
<1> QED
  BY <1>1, <1>2, <1>3 DEF IInv

LEMMA NextIInv == IInv /\ [Next]_vars => IInv'
<1> SUFFICES ASSUME IInv, [Next]_vars PROVE IInv'
  OBVIOUS
<1>1. ASSUME NEW w \in Workers, NEW r \in Requests, Call(w, r) PROVE IInv'
  BY <1>1, CallKeeps
<1>2. ASSUME NEW w \in Workers, Step(w) PROVE IInv'
  BY <1>2, LookupKeeps, BeginKeeps, InsertPairKeeps, LockThreadKeeps,
     DuplicateKeeps, InsertKeeps, CommitKeeps, ResultKeeps DEF Step
<1>3. ASSUME NEW w \in Workers, Fault(w) PROVE IInv'
  BY <1>3, FaultKeeps
<1> QED
  BY <1>1, <1>2, <1>3, OthersKeep DEF Next

(***************************************************************************)
(* The theorems.                                                           *)
(***************************************************************************)
\* The invariant holds in every state of every instance: any users, requests,
\* number of nodes, column limits, calls and faults.
THEOREM Invariance == Spec => []IInv
  BY InitIInv, NextIInv, PTL DEF Spec

\* Type correctness: no thread id and no seq beyond the limits of its column.
THEOREM TypeCorrect == Spec => []TypeOK
<1>1. IInv => TypeOK
  BY DEF IInv
<1> QED
  BY <1>1, Invariance, PTL

\* The messages of a thread are numbered 1, 2, ..., last_seq without a gap or a
\* repeat, however many nodes call StoreTextMessage and whatever they retry.
THEOREM Contiguity == Spec => []SeqContiguous
<1>1. IInv => SeqContiguous
  BY DEF IInv
<1> QED
  BY <1>1, Invariance, PTL

\* The race for the first message of a pair never gives the pair two threads.
THEOREM OneThread == Spec => []OneThreadPerPair
<1>1. IInv => OneThreadPerPair
  BY DEF IInv
<1> QED
  BY <1>1, Invariance, PTL

\* A client message id is stored once per sender, at however many nodes its
\* request is repeated.
THEOREM Idempotence == Spec => []StoredOnce
<1>1. IInv => StoredOnce
  BY DEF IInv
<1> QED
  BY <1>1, Invariance, PTL

\* A successful reply speaks of a durable row that matches the request.
THEOREM Acknowledgement == Spec => []AckHonoured
<1>1. IInv => AckHonoured
  BY DEF IInv
<1> QED
  BY <1>1, Invariance, PTL

LEMMA RowsStay ==
  ASSUME [Next]_vars
  PROVE  chat_message \subseteq chat_message' /\ erased \subseteq erased'
<1> USE DEF tables
<1>1. ASSUME NEW w \in Workers, Step(w)
      PROVE  chat_message \subseteq chat_message' /\ erased \subseteq erased'
  BY <1>1 DEF Step, Lookup, Begin, InsertPair, LockThread, Duplicate, Insert,
              Commit, Install, Result
<1>2. ASSUME NEW w \in Workers, Fault(w)
      PROVE  chat_message \subseteq chat_message' /\ erased \subseteq erased'
  BY <1>2 DEF Fault, Retriable, DatabaseError, CommitReplyLost, Crash, Install
<1> QED
  BY <1>1, <1>2 DEF Next, Call, Erase, Block, Unblock, vars

\* No step of any call or of another writer drops a row or revives an erased
\* one.
THEOREM Durability == Spec => NeverRewritten
  BY RowsStay, PTL DEF Spec, NeverRewritten

\* A call whose request was stored before it began never opens a transaction,
\* where the block and friendship checks are.
SettledOK ==
  \A w \in Workers : settled[w] =>
    /\ reply[w] # "ChatNotFriend"
    /\ pc[w] # "idle" => pc[w] = "lookup" /\ lookup(req[w]) # {}

LEMMA SettledStep ==
  ASSUME IInv, SettledOK, [Next]_vars
  PROVE  SettledOK'
<1>1. /\ pc \in [Workers -> PC] /\ reply \in [Workers -> Replies]
      /\ settled \in [Workers -> BOOLEAN]
      /\ req \in [Workers -> Requests \cup {NoRequest}]
  BY DEF IInv, TypeOK
<1>2. chat_message \subseteq chat_message'
  BY RowsStay
\* A worker that does nothing keeps what it had.
<1>3. ASSUME NEW v \in Workers, settled'[v], pc'[v] = pc[v], req'[v] = req[v],
             reply'[v] = reply[v], settled'[v] = settled[v]
      PROVE  /\ reply'[v] # "ChatNotFriend"
             /\ pc'[v] # "idle" => pc'[v] = "lookup" /\ lookup(req[v])' # {}
  BY <1>2, <1>3 DEF SettledOK, lookup
\* What a step of w leaves of the others, and of w.
<1>4. ASSUME NEW w \in Workers, Step(w) \/ Fault(w)
      PROVE  SettledOK'
  <2>1. settled' = settled
    BY <1>4 DEF Step, Fault, Lookup, Begin, InsertPair, LockThread, Duplicate,
                Insert, Commit, Result, Retriable, DatabaseError, Again, Answer,
                CommitReplyLost, Crash, Return, Goto
  <2>2. \A v \in Workers \ {w} : /\ pc'[v] = pc[v] /\ req'[v] = req[v]
                                 /\ reply'[v] = reply[v]
    BY <1>1, <1>4 DEF Step, Fault, Lookup, Begin, InsertPair, LockThread,
                Duplicate, Insert, Commit, Result, Retriable, DatabaseError,
                Again, Answer, CommitReplyLost, Crash, Return, Goto
  <2>3. ASSUME settled[w]
        PROVE  /\ reply'[w] # "ChatNotFriend"
               /\ pc'[w] # "idle" => pc'[w] = "lookup" /\ req'[w] = req[w]
    <3>1. pc[w] = "idle" \/ (pc[w] = "lookup" /\ lookup(req[w]) # {})
      BY <2>3 DEF SettledOK
    <3>2. Lookup(w) \/ Retriable(w) \/ DatabaseError(w) \/ Crash(w)
      BY <1>4, <3>1 DEF Step, Fault, Begin, InsertPair, LockThread, Duplicate,
         Insert, Commit, Result, CommitReplyLost, Retriable, DatabaseError,
         Crash, Lookup
    <3>3. ASSUME NEW res \in Replies \ {"ChatNotFriend"}, Return(w, res)
          PROVE  reply'[w] # "ChatNotFriend" /\ pc'[w] = "idle"
      BY <1>1, <3>3 DEF Return
    <3>4. CASE Lookup(w)
      BY <3>1, <3>3, <3>4 DEF Lookup, Answer, Replies
    <3>5. CASE Retriable(w)
      <4>1. CASE Goto(w, "lookup")
        BY <1>1, <2>3, <4>1 DEF Goto, SettledOK
      <4>2. CASE Return(w, "ChatDatabaseFailed")
        BY <3>3, <4>2 DEF Replies
      <4> QED
        BY <3>5, <4>1, <4>2 DEF Retriable, Again
    <3> QED
      BY <3>2, <3>3, <3>4, <3>5 DEF DatabaseError, Crash, Replies
  <2>4. ASSUME NEW v \in Workers, settled'[v]
        PROVE  /\ reply'[v] # "ChatNotFriend"
               /\ pc'[v] # "idle" => pc'[v] = "lookup" /\ lookup(req[v])' # {}
    <3>1. CASE v = w
      <4>1. pc[w] # "idle"
        BY <1>4 DEF Step, Fault, Lookup, Begin, InsertPair, LockThread,
           Duplicate, Insert, Commit, Result, Retriable, DatabaseError,
           CommitReplyLost, Crash
      <4>2. lookup(req[w]) # {}
        BY <2>1, <2>4, <3>1, <4>1 DEF SettledOK
      <4> QED
        BY <1>2, <2>1, <2>3, <2>4, <3>1, <4>2 DEF lookup
    <3>2. CASE v # w
      BY <1>3, <2>1, <2>2, <2>4, <3>2
    <3> QED
      BY <3>1, <3>2
  <2> QED
    BY <2>4 DEF SettledOK
<1>5. ASSUME NEW w \in Workers, NEW r \in Requests, Call(w, r)
      PROVE  SettledOK'
  BY <1>1, <1>3, <1>5 DEF Call, SettledOK, tables, lookup
<1>6. CASE \/ \E m \in chat_message : Erase(m)
           \/ \E b \in Blocks : Block(b) \/ Unblock(b)
           \/ UNCHANGED vars
  BY <1>3, <1>6 DEF Erase, Block, Unblock, vars, tables, SettledOK
<1> QED
  BY <1>4, <1>5, <1>6 DEF Next

\* "An already accepted request stays accepted": whatever blocks are set later.
THEOREM AcceptedStays == Spec => []SettledStaysAccepted
<1>1. Init => SettledOK
  BY DEF Init, SettledOK
<1>2. SettledOK => SettledStaysAccepted
  BY DEF SettledOK, SettledStaysAccepted
<1> QED
  BY <1>1, <1>2, SettledStep, Invariance, PTL DEF Spec

(***************************************************************************)
(* TextStore implements MessageLog.                                        *)
(***************************************************************************)
logBar == [p \in Pairs |-> LogOf(p)]
ackedBar == {<<a[1], a[2].seq>> : a \in acks}

\* What the logs are computed from.
shown == <<chat_message, last_seq, private_chat>>

\* A stored row is the one its position in the log shows.
LEMMA RowAtIs ==
  ASSUME IInv, NEW m \in chat_message
  PROVE  /\ m.seq \in 1 .. last_seq[m.thread]
         /\ RowAt(m.thread, m.seq) = m
         /\ private_chat[Pair(m)] = m.thread
         /\ Pair(m) \in Pairs /\ m.thread \in Threads
<1>1. /\ Pair(m) \in Pairs /\ m.thread \in Threads
      /\ private_chat[Pair(m)] = m.thread
  BY PairTypes DEF IInv, Types, OneThreadPerPair
<1>2. m.seq \in 1 .. last_seq[m.thread]
  BY <1>1 DEF IInv, SeqContiguous
<1>3. RowAt(m.thread, m.seq) = m
  BY <1>1 DEF IInv, SeqContiguous, RowAt
<1> QED
  BY <1>1, <1>2, <1>3

\* Every position of a log shows a stored row of the pair's thread.
LEMMA RowAtIn ==
  ASSUME IInv, NEW p \in Pairs, NEW i \in 1 .. Length(p)
  PROVE  /\ private_chat[p] \in Threads
         /\ RowAt(private_chat[p], i) \in chat_message
         /\ RowAt(private_chat[p], i).thread = private_chat[p]
         /\ RowAt(private_chat[p], i).seq = i
<1>1. private_chat[p] \in Threads /\ i \in 1 .. last_seq[private_chat[p]]
  BY DEF Length, IInv, TypeOK
<1>2. \E m \in chat_message : m.thread = private_chat[p] /\ m.seq = i
  BY <1>1 DEF IInv, SeqContiguous
<1> QED
  BY <1>1, <1>2 DEF RowAt

LEMMA LengthTypes ==
  ASSUME IInv, NEW p \in Pairs
  PROVE  Length(p) \in Nat
BY NumbersAssumption DEF IInv, TypeOK, Length

LEMMA InitMaps == Init => Log!Init
<1> SUFFICES ASSUME Init PROVE Log!Init
  OBVIOUS
<1>1. \A p \in Pairs : LogOf(p) = <<>>
  BY DEF Init, LogOf, Length
<1>2. ackedBar = {}
  BY DEF Init, ackedBar
<1> QED
  BY <1>1, <1>2 DEF Log!Init, Log!Pairs, Pairs, ackedBar

\* Steps that neither commit a row nor answer with one are invisible.
LEMMA Stutters ==
  ASSUME UNCHANGED shown, UNCHANGED acks
  PROVE  UNCHANGED <<logBar, ackedBar>>
BY DEF shown, logBar, ackedBar, LogOf, Length, RowAt

(***************************************************************************)
(* An answer is an acknowledgement.                                        *)
(***************************************************************************)
LEMMA AnswerMaps ==
  ASSUME IInv, NEW r \in Requests, NEW m \in chat_message,
         SameKey(m, r), m.receiver = r.receiver,
         acks' = acks \cup {<<r, m>>}, UNCHANGED shown
  PROVE  Log!Next
<1>1. Pair(m) = Pair(r) /\ Log!Pair(r) = Pair(r)
  BY DEF SameKey, Pair, Log!Pair
<1>2. /\ Pair(r) \in Pairs
      /\ private_chat[Pair(r)] = m.thread /\ m.thread # NoThread
      /\ m.seq \in 1 .. Length(Pair(r))
      /\ RowAt(private_chat[Pair(r)], m.seq) = m
  BY <1>1, RowAtIs, NumbersAssumption DEF Length
<1>3. /\ m.seq \in DOMAIN logBar[Pair(r)]
      /\ logBar[Pair(r)][m.seq] = Body(m)
  BY <1>2 DEF logBar, LogOf
<1>4. Log!SameKey(Body(m), r)
  BY DEF SameKey, Body, Log!SameKey
<1>5. ackedBar' = ackedBar \cup {<<r, m.seq>>}
  <2> DEFINE Shown(a) == <<a[1], a[2].seq>>
  <2>1. Shown(<<r, m>>) = <<r, m.seq>>
    OBVIOUS
  <2>2. {Shown(a) : a \in acks'} = {Shown(a) : a \in acks} \cup {Shown(<<r, m>>)}
    <3> HIDE DEF Shown
    <3> QED
      OBVIOUS
  <2> QED
    BY <2>1, <2>2 DEF ackedBar
<1>6. logBar' = logBar
  BY DEF shown, logBar, LogOf, Length, RowAt
<1>7. Log!Acknowledge(r, m.seq)
  BY <1>1, <1>3, <1>4, <1>5, <1>6 DEF Log!Acknowledge, logBar, ackedBar
<1> QED
  BY <1>1, <1>3, <1>7 DEF Log!Next, logBar

(***************************************************************************)
(* A commit appends to the log of its pair.                                *)
(***************************************************************************)
\* Rows that were there keep their positions.
LEMMA InstallKeepsRows ==
  ASSUME IInv, IInv', NEW w \in Workers, pc[w] = "commit", Install(w),
         NEW p \in Pairs, NEW i \in 1 .. Length(p)
  PROVE  RowAt(private_chat[p], i)' = RowAt(private_chat[p], i)
<1> DEFINE m == RowAt(private_chat[p], i)
           t == private_chat[p]
<1>1. /\ t \in Threads /\ m \in chat_message /\ m.thread = t /\ m.seq = i
      /\ Pair(m) \in Pairs
  BY RowAtIn, RowAtIs
<1>2. private_chat'[p] = t
  <2>1. t # NoThread
    BY <1>1, NumbersAssumption
  <2>2. m \in chat_message'
    BY <1>1 DEF Install
  <2>3. private_chat'[Pair(m)] = t /\ private_chat[Pair(m)] = t
    BY <1>1, <2>2 DEF IInv, OneThreadPerPair
  <2>4. Pair(m) = p
    BY <1>1, <2>1, <2>3 DEF IInv, OneThreadPerPair
  <2> QED
    BY <2>3, <2>4
<1>3. /\ m \in chat_message'
      /\ \A n \in chat_message' : n.thread = t /\ n.seq = i => n = m
  BY <1>1 DEF Install, IInv, SeqContiguous
<1> QED
  BY <1>1, <1>2, <1>3 DEF RowAt

LEMMA InstallAppends ==
  ASSUME IInv, IInv', NEW w \in Workers, pc[w] = "commit", Install(w)
  PROVE  /\ Pair(req[w]) \in Pairs
         /\ \A p \in Pairs \ {Pair(req[w])} : Length(p)' = Length(p)
         /\ Length(Pair(req[w])) \in Nat
         /\ private_chat'[Pair(req[w])] = thread[w]
         /\ Length(Pair(req[w])) = last_seq[thread[w]]
         /\ last_seq'[thread[w]] = last_seq[thread[w]] + 1
         /\ thread[w] # NoThread
         /\ \A t, i : t = thread[w] /\ i = last_seq[t] + 1 => RowAt(t, i)' = Row(w)
<1> DEFINE P == Pair(req[w])
<1>1. /\ P \in Pairs /\ thread[w] \in Threads /\ thread[w] # NoThread
      /\ seq[w] = last_seq[thread[w]] + 1
      /\ last_seq \in [Threads -> 0 .. MaxSeq]
      /\ private_chat \in [Pairs -> Threads \cup {NoThread}]
      /\ Found(w) \/ Created(w)
  <2>1. Active(w) /\ pc[w] \in Locked /\ pc[w] # "idle"
    BY DEF Active, Past, Locked
  <2>2. P \in Pairs /\ thread[w] \in Threads
    BY <2>1, PairTypes DEF IInv, Types, LocalsOK
  <2>3. /\ last_seq \in [Threads -> 0 .. MaxSeq]
        /\ private_chat \in [Pairs -> Threads \cup {NoThread}]
    BY DEF IInv, TypeOK
  <2>4. seq[w] = last_seq[thread[w]] + 1
    BY <2>1 DEF IInv, LockOK
  <2>5. Found(w) \/ Created(w)
    BY <2>1 DEF IInv, ThreadsOK
  <2>6. thread[w] # NoThread
    BY <2>2
  <2> QED
    BY <2>2, <2>3, <2>4, <2>5, <2>6
<1>2. private_chat'[P] = thread[w] /\ last_seq'[thread[w]] = seq[w]
  BY <1>1 DEF Install
<1>3. Length(P) = last_seq[thread[w]]
  <2>1. CASE Found(w)
    BY <1>1, <2>1 DEF Found, Length
  <2>2. CASE Created(w)
    <3>1. private_chat[P] = NoThread
      BY <2>2 DEF Created, Past, Locked
    <3>2. \A m \in chat_message : m.thread # thread[w]
      BY <2>2, RowAtIs DEF Created
    <3>3. 1 .. last_seq[thread[w]] = {}
      BY <1>1, <3>2 DEF IInv, SeqContiguous
    <3>4. last_seq[thread[w]] \in Nat
      BY <1>1, NumbersAssumption
    <3>5. last_seq[thread[w]] = 0
      BY <3>3, <3>4
    <3> QED
      BY <3>1, <3>5 DEF Length
  <2> QED
    BY <1>1, <2>1, <2>2
<1>4. ASSUME NEW p \in Pairs, p # P
      PROVE  Length(p)' = Length(p)
  <2>1. private_chat'[p] = private_chat[p]
    BY <1>1, <1>4 DEF Install
  <2>2. private_chat[p] # thread[w]
    BY <1>1, <1>2, <1>4, <2>1 DEF IInv, OneThreadPerPair
  <2>3. private_chat[p] # NoThread =>
          last_seq'[private_chat[p]] = last_seq[private_chat[p]]
    BY <1>1, <1>4, <2>2 DEF Install
  <2> QED
    BY <2>1, <2>3 DEF Length
<1>5. ASSUME NEW t, NEW i, t = thread[w], i = seq[w]
      PROVE  RowAt(t, i)' = Row(w)
  <2>1. Row(w) \in chat_message' /\ Row(w).thread = t /\ Row(w).seq = i
    BY <1>5 DEF Install, Row
  <2>2. \A n \in chat_message' : n.thread = t /\ n.seq = i => n = Row(w)
    BY <1>1, <1>5, <2>1 DEF IInv, SeqContiguous
  <2> QED
    BY <2>1, <2>2 DEF RowAt
<1> QED
  BY <1>1, <1>2, <1>3, <1>4, <1>5, LengthTypes

\* A sequence of n + 1 elements that begins like f and ends with e.
LEMMA AppendIs ==
  ASSUME NEW S, NEW n \in Nat, NEW f \in [1 .. n -> S], NEW e \in S,
         NEW g \in [1 .. n + 1 -> S],
         \A i \in 1 .. n : g[i] = f[i], g[n + 1] = e
  PROVE  g = Append(f, e)
<1>1. f \in Seq(S) /\ Len(f) = n /\ g \in Seq(S) /\ Len(g) = n + 1
  OBVIOUS
<1>2. /\ Append(f, e) \in Seq(S) /\ Len(Append(f, e)) = n + 1
      /\ \A i \in 1 .. n : Append(f, e)[i] = f[i]
      /\ Append(f, e)[n + 1] = e
  BY <1>1
<1>3. \A i \in 1 .. n + 1 : g[i] = Append(f, e)[i]
  <2>1. \A i \in 1 .. n + 1 : i \in 1 .. n \/ i = n + 1
    OBVIOUS
  <2> QED
    BY <1>2, <2>1
<1> QED
  BY <1>1, <1>2, <1>3

LEMMA InstallMaps ==
  ASSUME IInv, IInv', NEW w \in Workers, pc[w] = "commit", Install(w),
         UNCHANGED acks
  PROVE  Log!Next
<1> DEFINE r == req[w]
           P == Pair(r)
           n == Length(P)
<1>1. r \in Requests /\ r \in Request
  BY RequestsAssumption DEF IInv, LocalsOK
<1>2. /\ P \in Pairs /\ n \in Nat
      /\ private_chat'[P] = thread[w] /\ n = last_seq[thread[w]]
      /\ last_seq'[thread[w]] = n + 1 /\ thread[w] # NoThread
      /\ \A t, i : t = thread[w] /\ i = last_seq[t] + 1 => RowAt(t, i)' = Row(w)
      /\ \A p \in Pairs \ {P} : Length(p)' = Length(p)
  BY InstallAppends
<1>3. Body(Row(w)) = r
  BY <1>1 DEF Body, Row, Request
\* The new message's id is not in any log.
<1>4. ASSUME NEW p \in Pairs, NEW i \in DOMAIN logBar[p]
      PROVE  ~Log!SameKey(logBar[p][i], r)
  <2>1. i \in 1 .. Length(p)
    BY <1>4 DEF logBar, LogOf
  <2>2. logBar[p][i] = Body(RowAt(private_chat[p], i))
    BY <2>1 DEF logBar, LogOf
  <2>3. RowAt(private_chat[p], i) \in chat_message
    BY <2>1, RowAtIn
  <2>4. ~SameKey(RowAt(private_chat[p], i), Row(w))
    BY <2>3 DEF IInv, KeysOK, Collide
  <2> QED
    BY <2>2, <2>4 DEF SameKey, Log!SameKey, Body, Row
\* The other logs stay, this one grows by the message.
<1>5. ASSUME NEW p \in Pairs, p # P
      PROVE  LogOf(p)' = LogOf(p)
  BY <1>2, <1>5, InstallKeepsRows DEF LogOf
<1>6. ASSUME NEW p, p = P
      PROVE  LogOf(p)' = Append(LogOf(p), r)
  <2> DEFINE f == LogOf(p)
             g == LogOf(p)'
  <2>1. p \in Pairs /\ Length(p) = n
    BY <1>2, <1>6
  <2>2. private_chat'[p] = thread[w] /\ Length(p)' = n + 1
    BY <1>2, <1>6 DEF Length
  <2>3. f = [i \in 1 .. n |-> Body(RowAt(private_chat[p], i))]
    BY <2>1 DEF LogOf
  <2>4. g = [i \in 1 .. n + 1 |-> Body(RowAt(private_chat[p], i))']
    BY <2>2 DEF LogOf
  <2>5. ASSUME NEW i \in 1 .. n
        PROVE  g[i] = f[i]
    <3>1. RowAt(private_chat[p], i)' = RowAt(private_chat[p], i)
      BY <2>1, InstallKeepsRows
    <3>2. i \in 1 .. n + 1
      BY <1>2
    <3> QED
      BY <2>3, <2>4, <3>1, <3>2 DEF Body
  <2>6. g[n + 1] = r
    <3>1. \A i : i = n + 1 => RowAt(private_chat[p], i)' = Row(w)
      <4>1. \A t, i : t = thread[w] /\ i = n + 1 => RowAt(t, i)' = Row(w)
        BY <1>2
      <4> QED
        BY <2>2, <4>1 DEF RowAt
    <3>2. n + 1 \in 1 .. n + 1
      BY <1>2
    <3>3. ASSUME NEW i, i = n + 1
          PROVE  Body(RowAt(private_chat[p], i))' = r
      BY <1>3, <3>1, <3>3 DEF Body
    <3> QED
      BY <2>4, <3>2, <3>3
  <2>7. f \in [1 .. n -> Request]
    <3>1. ASSUME NEW i \in 1 .. n
          PROVE  Body(RowAt(private_chat[p], i)) \in Request
      <4>1. RowAt(private_chat[p], i) \in Message
        BY <2>1, RowAtIn DEF IInv, TypeOK
      <4> QED
        BY <4>1 DEF Body, Message, Request
    <3> QED
      BY <2>3, <3>1
  <2>8. g \in [1 .. n + 1 -> Request]
    <3>1. \A i \in 1 .. n + 1 : i \in 1 .. n \/ i = n + 1
      BY <1>2
    <3>2. \A i \in 1 .. n + 1 : g[i] \in Request
      BY <1>1, <2>5, <2>6, <2>7, <3>1
    <3>3. g = [i \in 1 .. n + 1 |-> g[i]]
      BY <2>4
    <3> QED
      BY <3>2, <3>3
  <2>9. g = Append(f, r)
    <3>1. n \in Nat /\ \A i \in 1 .. n : g[i] = f[i]
      BY <1>2, <2>5
    <3> HIDE DEF f, g, n, r
    <3> QED
      BY <1>1, <2>6, <2>7, <2>8, <3>1, AppendIs
  <2> QED
    BY <2>9
<1>7. logBar' = [logBar EXCEPT ![P] = Append(@, r)]
  BY <1>2, <1>5, <1>6 DEF logBar
<1>8. ackedBar' = ackedBar
  BY DEF ackedBar
<1>9. Log!Pair(r) = P /\ Log!Pairs = Pairs
  BY DEF Log!Pair, Pair, Log!Pairs, Pairs
<1>10. Log!Accept(r)
  BY <1>4, <1>7, <1>8, <1>9 DEF Log!Accept, logBar, ackedBar
<1> QED
  BY <1>1, <1>10 DEF Log!Next

(***************************************************************************)
(* The refinement.                                                         *)
(***************************************************************************)
LEMMA NextMaps ==
  ASSUME IInv, IInv', [Next]_vars
  PROVE  [Log!Next]_<<logBar, ackedBar>>
<1>1. ASSUME NEW w \in Workers, Lookup(w)
      PROVE  [Log!Next]_<<logBar, ackedBar>>
  <2>1. UNCHANGED shown /\ req[w] \in Requests
    BY <1>1 DEF Lookup, tables, shown, IInv, LocalsOK
  <2>2. CASE UNCHANGED acks
    BY <2>1, <2>2, Stutters
  <2>3. CASE acks' # acks
    <3>1. PICK m \in lookup(req[w]) : ~Mismatch(req[w], m) /\ Answer(w, m)
      BY <1>1, <2>3 DEF Lookup
    <3>2. /\ m \in chat_message /\ SameKey(m, req[w])
          /\ m.receiver = req[w].receiver
          /\ acks' = acks \cup {<<req[w], m>>}
      BY <3>1 DEF lookup, Mismatch, Answer
    <3> QED
      BY <2>1, <3>2, AnswerMaps
  <2> QED
    BY <2>2, <2>3
<1>2. ASSUME NEW w \in Workers, Result(w)
      PROVE  Log!Next
  <2>1. UNCHANGED shown /\ req[w] \in Requests
    BY <1>2 DEF Result, tables, shown, IInv, LocalsOK
  <2>2. PICK m \in lookup(req[w]) : Answer(w, m)
    BY <1>2 DEF Result
  <2>3. /\ m \in chat_message /\ SameKey(m, req[w])
        /\ m.receiver = req[w].receiver
        /\ acks' = acks \cup {<<req[w], m>>}
    BY <1>2, <2>2 DEF lookup, Answer, IInv, ResultOK, StoredOnce, SameKey, Result
  <2> QED
    BY <2>1, <2>3, AnswerMaps
<1>3. ASSUME NEW w \in Workers, Commit(w) \/ CommitReplyLost(w)
      PROVE  Log!Next
  BY <1>3, InstallMaps DEF Commit, CommitReplyLost
<1>4. ASSUME UNCHANGED shown, UNCHANGED acks
      PROVE  [Log!Next]_<<logBar, ackedBar>>
  BY <1>4, Stutters
<1>5. ASSUME NEW w \in Workers, Begin(w) \/ InsertPair(w) \/ LockThread(w)
                                \/ Duplicate(w) \/ Insert(w)
      PROVE  UNCHANGED shown /\ UNCHANGED acks
  BY <1>5 DEF Begin, InsertPair, LockThread, Duplicate, Insert, tables, shown
<1>6. ASSUME NEW w \in Workers, Retriable(w) \/ DatabaseError(w) \/ Crash(w)
      PROVE  UNCHANGED shown /\ UNCHANGED acks
  BY <1>6 DEF Retriable, DatabaseError, Crash, tables, shown
<1>7. ASSUME \/ \E w \in Workers, r \in Requests : Call(w, r)
             \/ \E m \in chat_message : Erase(m)
             \/ \E b \in Blocks : Block(b) \/ Unblock(b)
             \/ UNCHANGED vars
      PROVE  UNCHANGED shown /\ UNCHANGED acks
  BY <1>7 DEF Call, Erase, Block, Unblock, vars, tables, shown
<1> QED
  BY <1>1, <1>2, <1>3, <1>4, <1>5, <1>6, <1>7 DEF Next, Step, Fault

\* To its clients every behaviour of StoreTextMessage, with all retries, lost
\* commits and crashes, is one of the abstract message log: each message is
\* appended once, atomically, and each reply names the position it has for good.
THEOREM Refinement == Spec => ImplementsLog
<1>1. Init => Log!Init
  BY InitMaps
<1>2. IInv /\ IInv' /\ [Next]_vars => [Log!Next]_<<logBar, ackedBar>>
  BY NextMaps
<1> QED
  BY <1>1, <1>2, Invariance, PTL
  DEF Spec, ImplementsLog, Log!Spec, logBar, ackedBar

(***************************************************************************)
(* HistorySync: the client that polls.                                     *)
(***************************************************************************)
\* The cursor of a conversation is a number that has been given out.
CursorOK == \A p \in MyPairs : cursor[p] <= Length(p)

\* A round has listed what it found up to its thread id; new ids below it are
\* of conversations the round does not owe.
ScanOK ==
  /\ round.present \subseteq Listed
  /\ \A t \in round.present : t <= round.after => t \in round.listed
  /\ round.done => round.present \subseteq round.listed

HInv == SyncTypeOK /\ CursorOK /\ HistoryComplete /\ ScanOK

\* A bounded, nonempty set of numbers has a largest one: the smallest of its
\* upper bounds.
LEMMA Largest ==
  ASSUME NEW N \in Nat, NEW S, S \subseteq 0 .. N, S # {}
  PROVE  \E n \in S : \A k \in S : k <= n
<1> DEFINE B == {b \in Nat : \A k \in S : k <= b}
           R == OpToRel(<, Nat)
<1>1. B \subseteq Nat /\ N \in B
  OBVIOUS
<1>2. IsWellFoundedOn(R, Nat)
  BY NatLessThanWellFounded
<1>3. \A x, y \in Nat : <<y, x>> \in R <=> y < x
  BY DEF OpToRel
<1> HIDE DEF R
<1>4. PICK m \in B : \A b \in B : ~(<<b, m>> \in R)
  BY <1>1, <1>2, WFMin
<1>5. \A b \in B : ~(b < m)
  BY <1>3, <1>4
<1>6. m \in S
  <2> SUFFICES ASSUME m \notin S PROVE FALSE
    OBVIOUS
  <2>1. \A k \in S : k \in Nat /\ k <= m /\ k # m
    BY <1>4
  <2>2. PICK k \in S : TRUE
    OBVIOUS
  <2>3. m \in Nat /\ m > 0
    BY <1>4, <2>1, <2>2
  <2>4. m - 1 \in B
    BY <2>1, <2>3
  <2> QED
    BY <1>5, <2>3, <2>4
<1> QED
  BY <1>4, <1>6

\* next_seq and next_thread: the largest key of the page, or the old cursor.
LEMMA AdvanceIs ==
  ASSUME NEW N \in Nat, NEW old \in 0 .. N, NEW page, page \subseteq 0 .. N
  PROVE  /\ Advance(old, page) \in {old} \cup page
         /\ \A k \in {old} \cup page : k <= Advance(old, page)
<1>1. {old} \cup page \subseteq 0 .. N /\ {old} \cup page # {}
  OBVIOUS
<1>2. \E n \in {old} \cup page : \A k \in {old} \cup page : k <= n
  BY <1>1, Largest
<1> QED
  BY <1>2 DEF Advance

\* Whatever the page is, every key up to the new cursor was below the old one
\* or is on the page.
LEMMA PageCovers ==
  ASSUME NEW N \in Nat, NEW old \in 0 .. N, NEW keys, keys \subseteq 0 .. N,
         \A k \in keys : k > old, NEW page, IsPage(page, keys)
  PROVE  /\ Advance(old, page) \in {old} \cup page
         /\ \A k \in keys : k <= Advance(old, page) => k \in page
<1>1. page \subseteq keys /\ \A a \in page, b \in keys \ page : a < b
  BY DEF IsPage
<1>2. Advance(old, page) \in {old} \cup page
  BY <1>1, AdvanceIs
<1>3. ASSUME NEW k \in keys, k \notin page
      PROVE  ~(k <= Advance(old, page))
  <2>1. \A a \in {old} \cup page : a \in Nat /\ a < k
    BY <1>1, <1>3
  <2>2. k \in Nat
    BY <1>3
  <2>3. PICK n \in Nat : n = Advance(old, page) /\ n < k
    BY <1>2, <2>1
  <2> QED
    BY <2>2, <2>3
<1> QED
  BY <1>2, <1>3

LEMMA MyPairsTypes ==
  ASSUME TypeOK, NEW p \in MyPairs
  PROVE  p \in Pairs /\ private_chat[p] \in Threads \cup {NoThread} /\ Length(p) \in 0 .. MaxSeq
BY NumbersAssumption DEF TypeOK, MyPairs, Length

(***************************************************************************)
(* The store's own steps.                                                  *)
(***************************************************************************)
\* A step of the store shows readers nothing new, or commits a row.
LEMMA StoreStep ==
  ASSUME IInv, [Next]_vars
  PROVE  UNCHANGED shown \/ \E w \in Workers : pc[w] = "commit" /\ Install(w)
<1>1. ASSUME NEW w \in Workers, Step(w)
      PROVE  UNCHANGED shown \/ (pc[w] = "commit" /\ Install(w))
  BY <1>1 DEF Step, Lookup, Begin, InsertPair, LockThread, Duplicate, Insert, Commit, Result,
              tables, shown
<1>2. ASSUME NEW w \in Workers, Fault(w)
      PROVE  UNCHANGED shown \/ (pc[w] = "commit" /\ Install(w))
  BY <1>2 DEF Fault, Retriable, DatabaseError, CommitReplyLost, Crash, tables, shown
<1>3. ASSUME \/ \E w \in Workers, r \in Requests : Call(w, r)
             \/ \E m \in chat_message : Erase(m)
             \/ \E b \in Blocks : Block(b) \/ Unblock(b)
             \/ UNCHANGED vars
      PROVE  UNCHANGED shown
  BY <1>3 DEF Call, Erase, Block, Unblock, vars, tables, shown
<1> QED
  BY <1>1, <1>2, <1>3 DEF Next

LEMMA StoreKeepsHInv ==
  ASSUME IInv, IInv', HInv, [Next]_vars, UNCHANGED sync
  PROVE  HInv'
<1>0. UNCHANGED <<cursor, stored, round, rounds>>
  BY DEF sync
<1>1. SyncTypeOK'
  BY <1>0 DEF HInv, SyncTypeOK
<1>2. CASE UNCHANGED shown
  <2>1. \A p : Length(p)' = Length(p)
    BY <1>2 DEF shown, Length
  <2> QED
    BY <1>0, <1>1, <1>2, <2>1 DEF HInv, CursorOK, HistoryComplete, ScanOK, Listed, shown
<1>3. ASSUME NEW w \in Workers, pc[w] = "commit", Install(w)
      PROVE  HInv'
  <2> DEFINE P == Pair(req[w])
  <2>1. /\ P \in Pairs /\ thread[w] # NoThread
        /\ \A p \in Pairs \ {P} : Length(p)' = Length(p) /\ private_chat'[p] = private_chat[p]
        /\ Length(P) \in Nat /\ private_chat'[P] = thread[w]
        /\ Length(P) = last_seq[thread[w]] /\ last_seq'[thread[w]] = last_seq[thread[w]] + 1
    <3>1. \A p \in Pairs \ {P} : private_chat'[p] = private_chat[p]
      BY <1>3 DEF Install, IInv, TypeOK
    <3> QED
      BY <1>3, <3>1, InstallAppends
  <2>2. \A l : l = P => Length(l)' = Length(l) + 1
    BY <2>1 DEF Length
  <2>3. CursorOK'
    <3>1. ASSUME NEW p \in MyPairs
          PROVE  cursor[p] <= Length(p)'
      <4>1. /\ p \in Pairs /\ Length(p) \in Nat /\ cursor[p] \in Nat
            /\ cursor[p] <= Length(p)
        BY MyPairsTypes, NumbersAssumption DEF IInv, HInv, CursorOK, SyncTypeOK
      <4> QED
        BY <2>1, <2>2, <4>1
    <3> QED
      BY <1>0, <3>1 DEF CursorOK, MyPairs
  <2>4. private_chat[P] \in {NoThread, thread[w]}
    BY <1>3 DEF IInv, ThreadsOK, Active, Found, Created, Past, Locked
  <2>5. HistoryComplete'
    <3>1. ASSUME NEW p \in MyPairs, NEW m \in chat_message', m.thread = private_chat'[p],
                 m.seq <= cursor[p]
          PROVE  m \in stored[p]
      <4>1. /\ p \in Pairs /\ Length(p) \in Nat /\ cursor[p] \in Nat
            /\ cursor[p] <= Length(p)
        BY MyPairsTypes, NumbersAssumption DEF IInv, HInv, CursorOK, SyncTypeOK
      <4>2. CASE m \in chat_message
        <5>1. private_chat[Pair(m)] = m.thread /\ m.thread # NoThread
          BY <4>2, RowAtIs, NumbersAssumption
        <5>2. private_chat'[Pair(m)] = m.thread /\ Pair(m) \in Pairs
          BY <4>2, RowAtIs, <3>1 DEF IInv, OneThreadPerPair
        <5>3. Pair(m) = p
          BY <3>1, <4>1, <5>1, <5>2 DEF IInv, OneThreadPerPair
        <5> QED
          BY <3>1, <4>2, <5>1, <5>3 DEF HInv, HistoryComplete
      <4>3. CASE m = Row(w)
        <5>1. m.thread = thread[w] /\ m.seq = seq[w]
          BY <4>3 DEF Row
        <5>2. p = P
          <6>1. private_chat'[p] = private_chat'[P] /\ private_chat'[P] # NoThread
            BY <2>1, <3>1, <5>1
          <6>2. OneThreadPerPair'
            BY DEF IInv
          <6> QED
            BY <2>1, <4>1, <6>1, <6>2 DEF OneThreadPerPair
        <5>3. seq[w] = last_seq[thread[w]] + 1
          BY <1>3 DEF IInv, LockOK, Locked
        <5> QED
          BY <2>1, <3>1, <4>1, <5>1, <5>2, <5>3
      <4> QED
        BY <1>3, <3>1, <4>2, <4>3 DEF Install
    <3> QED
      BY <1>0, <3>1 DEF HistoryComplete, MyPairs
  <2>6. Listed \subseteq Listed'
    <3>1. \A p \in MyPairs : private_chat[p] # NoThread => private_chat'[p] = private_chat[p]
      BY <2>1, <2>4 DEF MyPairs
    <3> QED
      BY <3>1 DEF Listed, MyPairs
  <2>7. ScanOK'
    BY <1>0, <2>6 DEF HInv, ScanOK
  <2> QED
    BY <1>1, <2>3, <2>5, <2>7 DEF HInv
<1> QED
  BY <1>2, <1>3, StoreStep

(***************************************************************************)
(* The client's steps.                                                     *)
(***************************************************************************)
LEMMA ChatHistoryKeeps ==
  ASSUME IInv, HInv, NEW p \in MyPairs, ChatHistory(p)
  PROVE  HInv'
<1> DEFINE rows == {m \in chat_message : m.thread = private_chat[p] /\ m.seq > cursor[p]}
           keys == {m.seq : m \in rows}
<1>1. PICK page \in SUBSET keys :
        /\ IsPage(page, keys)
        /\ stored' = [stored EXCEPT ![p] = @ \cup {m \in rows : m.seq \in page}]
        /\ cursor' = [cursor EXCEPT ![p] = Advance(@, page)]
  BY DEF ChatHistory
<1>2. UNCHANGED <<vars, round, rounds>>
  BY DEF ChatHistory
<1>3. /\ cursor[p] \in 0 .. MaxSeq /\ MaxSeq \in Nat /\ Length(p) \in 0 .. MaxSeq
      /\ cursor \in [MyPairs -> 0 .. MaxSeq] /\ cursor[p] <= Length(p)
      /\ stored \in [MyPairs -> SUBSET Message] /\ chat_message \subseteq Message
  BY MyPairsTypes, NumbersAssumption DEF IInv, TypeOK, HInv, SyncTypeOK, CursorOK
<1>4. \A m \in chat_message : m.seq \in 1 .. MaxSeq
  BY <1>3 DEF Message
<1>5. keys \subseteq 0 .. MaxSeq /\ \A k \in keys : k > cursor[p]
  BY <1>4
<1>6. \A k \in keys : k <= Length(p)
  <2>1. ASSUME NEW m \in chat_message, m.thread = private_chat[p]
        PROVE  m.seq <= Length(p)
    <3>1. m.seq \in 1 .. last_seq[m.thread] /\ m.thread # NoThread
      BY <2>1, RowAtIs, NumbersAssumption
    <3> QED
      BY <2>1, <3>1 DEF Length
  <2> QED
    BY <2>1
<1> DEFINE new == Advance(cursor[p], page)
<1>7. /\ new \in {cursor[p]} \cup page
      /\ \A k \in keys : k <= new => k \in page
  <2> HIDE DEF keys
  <2> QED
    BY <1>1, <1>3, <1>5, PageCovers
<1>8. new \in 0 .. MaxSeq /\ new <= Length(p)
  BY <1>1, <1>3, <1>5, <1>6, <1>7
<1> HIDE DEF new
<1>9. cursor' = [cursor EXCEPT ![p] = new]
  BY <1>1 DEF new
<1>10. SyncTypeOK'
  <2>1. cursor' \in [MyPairs -> 0 .. MaxSeq]
    BY <1>3, <1>8, <1>9
  <2>2. stored' \in [MyPairs -> SUBSET Message]
    BY <1>1, <1>3
  <2> QED
    BY <1>2, <2>1, <2>2 DEF HInv, SyncTypeOK, MyPairs
<1>11. CursorOK'
  <2>1. \A q : Length(q)' = Length(q)
    BY <1>2 DEF Length, vars, tables
  <2> QED
    BY <1>3, <1>8, <1>9, <2>1 DEF HInv, CursorOK, MyPairs
<1>12. HistoryComplete'
  <2>1. ASSUME NEW q \in MyPairs, NEW m \in chat_message, m.thread = private_chat[q],
               m.seq <= cursor'[q]
        PROVE  m \in stored'[q]
    <3>1. stored[q] \subseteq stored'[q]
      BY <1>1, <1>3
    <3>2. CASE m.seq <= cursor[q]
      BY <2>1, <3>1, <3>2 DEF HInv, HistoryComplete
    <3>3. CASE ~(m.seq <= cursor[q])
      <4>1. q = p
        BY <1>3, <1>9, <2>1, <3>3
      <4>2. m \in rows /\ m.seq \in keys
        BY <1>3, <1>4, <2>1, <3>3, <4>1
      <4>3. m.seq \in page
        BY <1>3, <1>7, <1>9, <2>1, <4>1, <4>2
      <4> QED
        BY <1>1, <1>3, <4>1, <4>2, <4>3
    <3> QED
      BY <3>2, <3>3
  <2> QED
    BY <1>2, <2>1 DEF HistoryComplete, MyPairs, vars, tables
<1>13. ScanOK'
  BY <1>2 DEF HInv, ScanOK, Listed, MyPairs, vars, tables
<1> QED
  BY <1>10, <1>11, <1>12, <1>13 DEF HInv

LEMMA ListedTypes ==
  ASSUME TypeOK
  PROVE  Listed \subseteq Threads /\ Listed \subseteq 0 .. MaxThread
BY MyPairsTypes, NumbersAssumption DEF Listed

\* The client's conversations, when neither they nor the store change.
LEMMA HistoryStays ==
  ASSUME HInv, UNCHANGED <<vars, cursor, stored>>
  PROVE  CursorOK' /\ HistoryComplete' /\ Listed' = Listed
<1>1. \A q : Length(q)' = Length(q)
  BY DEF Length, vars, tables
<1> QED
  BY <1>1 DEF HInv, CursorOK, HistoryComplete, Listed, MyPairs, vars, tables

LEMMA StartRoundKeeps ==
  ASSUME IInv, HInv, StartRound
  PROVE  HInv'
<1>1. /\ round' = [after |-> 0, listed |-> {}, present |-> Listed, done |-> FALSE]
      /\ rounds' = rounds + 1 /\ rounds < MaxRounds /\ UNCHANGED <<vars, cursor, stored>>
  BY DEF StartRound
<1>2. Listed \subseteq Threads /\ MaxThread \in Nat
  BY ListedTypes, NumbersAssumption DEF IInv
<1>3. SyncTypeOK'
  <2>1. rounds' \in 0 .. MaxRounds
    BY <1>1, PageAssumption DEF HInv, SyncTypeOK
  <2>2. round' \in [after: 0 .. MaxThread, listed: SUBSET Threads,
                    present: SUBSET Threads, done: BOOLEAN]
    BY <1>1, <1>2
  <2> QED
    BY <1>1, <2>1, <2>2 DEF HInv, SyncTypeOK, MyPairs
<1>4. ScanOK'
  BY <1>1, <1>2, HistoryStays DEF ScanOK
<1> QED
  BY <1>1, <1>3, <1>4, HistoryStays DEF HInv

LEMMA ChatConversationsKeeps ==
  ASSUME IInv, HInv, ChatConversations
  PROVE  HInv'
<1> DEFINE rows == {t \in Listed : t > round.after}
<1>1. PICK page \in SUBSET rows :
        /\ IsPage(page, rows)
        /\ round' = [round EXCEPT !.after = Advance(@, page), !.listed = @ \cup page,
                                  !.done = (page = rows)]
  BY DEF ChatConversations
<1>2. UNCHANGED <<vars, cursor, stored, rounds>>
  BY DEF ChatConversations
<1>3. /\ Listed \subseteq Threads /\ Listed \subseteq 0 .. MaxThread /\ MaxThread \in Nat
      /\ round \in [after: 0 .. MaxThread, listed: SUBSET Threads,
                    present: SUBSET Threads, done: BOOLEAN]
  BY ListedTypes, NumbersAssumption DEF IInv, HInv, SyncTypeOK
<1> DEFINE new == Advance(round.after, page)
<1>4. /\ new \in {round.after} \cup page
      /\ \A k \in rows : k <= new => k \in page
  <2>1. rows \subseteq 0 .. MaxThread /\ \A k \in rows : k > round.after
    BY <1>3
  <2>2. round.after \in 0 .. MaxThread
    BY <1>3
  <2> HIDE DEF rows
  <2> QED
    BY <1>1, <1>3, <2>1, <2>2, PageCovers
<1>5. new \in 0 .. MaxThread
  BY <1>1, <1>3, <1>4
<1> HIDE DEF new
<1>6. /\ round' \in [after: 0 .. MaxThread, listed: SUBSET Threads,
                     present: SUBSET Threads, done: BOOLEAN]
      /\ round'.after = new /\ round'.listed = round.listed \cup page
      /\ round'.present = round.present /\ round'.done = (page = rows)
  <2>1. page \subseteq Threads /\ (page = rows) \in BOOLEAN
    BY <1>1, <1>3
  <2>2. round' = [round EXCEPT !.after = new, !.listed = round.listed \cup page,
                               !.done = (page = rows)]
    BY <1>1, <1>3 DEF new
  <2> QED
    BY <1>3, <1>5, <2>1, <2>2
<1>7. SyncTypeOK'
  BY <1>2, <1>6 DEF HInv, SyncTypeOK, MyPairs
<1>8. ASSUME NEW t \in round.present, t <= new \/ page = rows
      PROVE  t \in round.listed \cup page
  <2>1. t \in Listed /\ t \in 0 .. MaxThread
    BY <1>3, <1>8 DEF HInv, ScanOK
  <2>2. CASE t <= round.after
    BY <1>8, <2>2 DEF HInv, ScanOK
  <2>3. CASE ~(t <= round.after)
    <3>1. t \in rows
      BY <1>3, <2>1, <2>3
    <3> QED
      BY <1>4, <1>8, <3>1
  <2> QED
    BY <2>2, <2>3
<1>9. ScanOK'
  BY <1>2, <1>6, <1>8, HistoryStays DEF HInv, ScanOK
<1> QED
  BY <1>2, <1>7, <1>9, HistoryStays DEF HInv

LEMMA InitHInv ==
  ASSUME SyncInit
  PROVE  HInv
<1>1. \A p \in MyPairs : private_chat[p] = NoThread /\ Length(p) = 0
  BY DEF SyncInit, Init, MyPairs, Length
<1>2. SyncTypeOK
  BY NumbersAssumption, PageAssumption DEF SyncInit, SyncTypeOK
<1>3. CursorOK /\ HistoryComplete /\ ScanOK
  BY <1>1 DEF SyncInit, Init, CursorOK, HistoryComplete, ScanOK, Listed
<1> QED
  BY <1>2, <1>3 DEF HInv

LEMMA NextHInv ==
  ASSUME IInv, HInv, [SyncNext]_syncvars
  PROVE  IInv' /\ HInv'
<1>1. [Next]_vars
  BY DEF SyncNext, ChatHistory, StartRound, ChatConversations, syncvars
<1>2. IInv'
  BY <1>1, NextIInv
<1>3. CASE (Next /\ UNCHANGED sync) \/ UNCHANGED syncvars
  BY <1>1, <1>2, <1>3, StoreKeepsHInv DEF syncvars
<1> QED
  BY <1>2, <1>3, ChatHistoryKeeps, StartRoundKeeps, ChatConversationsKeeps DEF SyncNext

\* The client beside the store: the store's invariant, and what the client's
\* cursors and round have to do with the rows that are there.
THEOREM SyncInvariance == SyncSpec => [](IInv /\ HInv)
<1>1. SyncInit => IInv /\ HInv
  BY InitIInv, InitHInv DEF SyncInit
<1>2. (IInv /\ HInv) /\ [SyncNext]_syncvars => (IInv /\ HInv)'
  BY NextHInv
<1> QED
  BY <1>1, <1>2, PTL DEF SyncSpec

\* A client that asks ChatHistory for what follows its cursor never steps over
\* a message, for pages of any size and however senders' commits interleave
\* with its reads: a thread's numbers become visible in order.
THEOREM HistoryMissesNothing == SyncSpec => []HistoryComplete
<1>1. HInv => HistoryComplete
  BY DEF HInv
<1> QED
  BY <1>1, SyncInvariance, PTL

\* A round of ChatConversations lists every conversation that existed when it
\* began, although threads appear with ids below its position meanwhile.
THEOREM RoundsListEverything == SyncSpec => []ScanComplete
<1>1. HInv => ScanComplete
  BY DEF HInv, ScanOK, ScanComplete
<1> QED
  BY <1>1, SyncInvariance, PTL
================================================================================
