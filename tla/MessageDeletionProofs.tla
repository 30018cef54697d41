------------------------ MODULE MessageDeletionProofs ------------------------
(***************************************************************************)
(* Theorems about MessageDeletion, for any users, messages, nodes and      *)
(* requests, and any bounds.                                               *)
(***************************************************************************)
EXTENDS MessageDeletion, TLAPS

(***************************************************************************)
(* The inductive invariant.                                                *)
(***************************************************************************)
Deleting == {"owners", "commit"}

\* A worker's call: what it has checked, which heads it has locked, and that the
\* numbers it has chosen are still the next ones.
WorkerOK(w) ==
  /\ pc[w] \in {"target", "owners", "commit"} => job[w] \in Job
  /\ pc[w] \in {"setting", "row", "receipt"} => job[w] \in Report
  /\ pc[w] \in Deleting => Authorised(job[w]) /\ held[w] \subseteq Owners(job[w])
  /\ pc[w] = "owners" => held[w] # Owners(job[w])
  /\ pc[w] = "commit" => held[w] = Owners(job[w])
  /\ pc[w] \notin Deleting => held[w] = {}
  /\ pc[w] = "receipt" => job[w].message \in Messages
  /\ \A u \in Users : assigned[w][u] > 0 => u \in held[w] /\ assigned[w][u] = last_event[u] + 1
  /\ \A u \in held[w] : assigned[w][u] > 0 \/ HasEvent(u, job[w].message)
  /\ pc[w] = "setting" /\ read_receipts[job[w].actor] => on[w]
  /\ asRead[w] => on[w] /\ pc[w] \in {"row", "receipt"}

WorkersOK == \A w \in Workers : WorkerOK(w)

\* A head row has one holder.
HeadsOK == \A w, v \in Workers : w # v => held[w] \cap held[v] = {}

\* Neither events nor cursors are ahead of the heads.
EventsOK ==
  /\ \A e \in event : e[2] <= last_event[e[1]]
  /\ \A u \in Users : cursor[u] <= last_event[u]

AnswersExist == \A j \in done : j.message \in Messages

Tables == EventsOK /\ AnswersExist /\ DeletionCursorComplete /\ ErasedForBoth /\ AnswersHonoured

IInv == TypeOK /\ WorkersOK /\ HeadsOK /\ Tables

LocalTypes ==
  /\ pc \in [Workers -> PC] /\ job \in [Workers -> Job \cup Report \cup {NoJob}]
  /\ held \in [Workers -> SUBSET Users]
  /\ assigned \in [Workers -> [Users -> 0 .. MaxEvent]]
  /\ due \in [Workers -> SUBSET Messages]
  /\ asRead \in [Workers -> BOOLEAN] /\ on \in [Workers -> BOOLEAN]

TableTypes ==
  /\ status \in [Messages -> {0, 2}] /\ message_expiry \subseteq Messages
  /\ last_event \in [Users -> 0 .. MaxEvent]
  /\ event \subseteq Users \X (1 .. MaxEvent) \X Messages
  /\ cursor \in [Users -> 0 .. MaxEvent] /\ told \in [Users -> SUBSET Messages]
  /\ receipt \in [Messages -> {"none", "delivered", "read"}]
  /\ done \subseteq Job \cup Report

SmallTypes ==
  /\ now \in 0 .. MaxTime /\ read_receipts \in [Users -> BOOLEAN]
  /\ settings \in 0 .. MaxSettings
  /\ calls \in 0 .. MaxCalls /\ faults \in 0 .. MaxFaults

LEMMA TypeParts == TypeOK <=> LocalTypes /\ TableTypes /\ SmallTypes
BY DEF TypeOK, LocalTypes, TableTypes, SmallTypes

LEMMA TypePartsNext == TypeOK' <=> LocalTypes' /\ TableTypes' /\ SmallTypes'
BY DEF TypeOK, LocalTypes, TableTypes, SmallTypes

LEMMA RecordKinds ==
  /\ \A j \in Job : j.actor \in Users /\ j.message \in Nat /\ j.everyone \in BOOLEAN /\ j \notin Report
  /\ \A j \in Report : j.actor \in Users /\ j.message \in Nat /\ j.read \in BOOLEAN
BY DEF Job, Report

LEMMA ExpiryIsJob == \A m \in Messages : Expiry(m) \in Job
BY UsersAssumption, ColumnsAssumption DEF Expiry, Job

LEMMA OwnersAreUsers ==
  ASSUME NEW j \in Job, Authorised(j)
  PROVE  Owners(j) \subseteq Users /\ j.actor \in Owners(j)
BY RecordKinds, ColumnsAssumption DEF Owners, Authorised

(***************************************************************************)
(* A call ends, and a call goes on, without another worker's doing.        *)
(***************************************************************************)
Others(w) ==
  \A v \in Workers \ {w} :
    /\ pc'[v] = pc[v] /\ job'[v] = job[v] /\ held'[v] = held[v]
    /\ assigned'[v] = assigned[v] /\ asRead'[v] = asRead[v] /\ on'[v] = on[v]

Ended(w) ==
  /\ pc'[w] \in {"idle", "target"} /\ (pc'[w] = "target" => job'[w] \in Job)
  /\ held'[w] = {} /\ ~asRead'[w] /\ ~on'[w]
  /\ \A u \in Users : assigned'[w][u] = 0

LEMMA FinishEnds ==
  ASSUME TypeOK, NEW w \in Workers, Finish(w)
  PROVE  LocalTypes' /\ Ended(w) /\ Others(w)
<1> USE DEF Finish, Unlock
<1>1. /\ held' \in [Workers -> SUBSET Users]
      /\ asRead' \in [Workers -> BOOLEAN] /\ on' \in [Workers -> BOOLEAN]
  BY DEF TypeOK
<1>2. assigned' \in [Workers -> [Users -> 0 .. MaxEvent]]
  <2>1. [u \in Users |-> 0] \in [Users -> 0 .. MaxEvent]
    BY BoundsAssumption
  <2> QED
    BY <2>1 DEF TypeOK
<1>3. pc' \in [Workers -> PC]
  BY DEF TypeOK, PC
<1>3a. due' \in [Workers -> SUBSET Messages]
  BY DEF TypeOK
<1>4. job' \in [Workers -> Job \cup Report \cup {NoJob}]
  <2>1. CASE job' = [job EXCEPT ![w] = NoJob]
    BY <2>1 DEF TypeOK
  <2>2. CASE \E m \in due[w] : job' = [job EXCEPT ![w] = Expiry(m)]
    <3>1. PICK m \in due[w] : job' = [job EXCEPT ![w] = Expiry(m)]
      BY <2>2
    <3>2. Expiry(m) \in Job
      BY ExpiryIsJob DEF TypeOK
    <3> QED
      BY <3>1, <3>2 DEF TypeOK
  <2> QED
    BY <2>1, <2>2
<1>5. Ended(w)
  BY ExpiryIsJob DEF TypeOK, Ended
<1>6. Others(w)
  BY DEF TypeOK, Others
<1> QED
  BY <1>1, <1>2, <1>3, <1>3a, <1>4, <1>5, <1>6 DEF LocalTypes

\* If the tables stay as they are, only the worker that acts has to be looked at.
LEMMA OthersKeep ==
  ASSUME IInv, NEW w \in Workers, Others(w), UNCHANGED <<last_event, event, read_receipts>>,
         WorkerOK(w)'
  PROVE  WorkersOK'
<1> SUFFICES ASSUME NEW v \in Workers, v # w PROVE WorkerOK(v)'
  BY DEF WorkersOK
<1>1. WorkerOK(v)
  BY DEF IInv, WorkersOK
<1> QED
  BY <1>1 DEF Others, WorkerOK, HasEvent

LEMMA EndedIsOK == ASSUME NEW w \in Workers, Ended(w) PROVE WorkerOK(w)'
BY DEF Ended, WorkerOK, Deleting

LEMMA EndedHeads ==
  ASSUME IInv, NEW w \in Workers, Others(w), held'[w] = {}
  PROVE  HeadsOK'
BY DEF IInv, HeadsOK, Others

LEMMA TablesKeep ==
  ASSUME IInv, UNCHANGED <<tables, receipt, client, done>>
  PROVE  Tables' /\ TableTypes'
BY TypeParts DEF IInv, tables, client, Tables, EventsOK, AnswersExist,
   DeletionCursorComplete, ErasedForBoth, AnswersHonoured, HasEvent, TableTypes

\* A step that only ends the call of a worker.
LEMMA EndKeeps ==
  ASSUME IInv, NEW w \in Workers, Finish(w), SmallTypes', UNCHANGED <<tables, receipt, read_receipts, client, done>>
  PROVE  IInv'
<1>1. LocalTypes' /\ Ended(w) /\ Others(w)
  BY FinishEnds DEF IInv
<1>2. WorkersOK' /\ HeadsOK'
  BY <1>1, OthersKeep, EndedIsOK, EndedHeads DEF Ended, tables
<1> QED
  BY <1>1, <1>2, TablesKeep, TypePartsNext DEF IInv

(***************************************************************************)
(* The commit of a deletion.                                               *)
(***************************************************************************)
LEMMA InstallKeeps ==
  ASSUME IInv, NEW w \in Workers, pc[w] = "commit", Install(w), Finish(w),
         UNCHANGED <<receipt, read_receipts, client>>,
         done' = done \/ done' = done \cup {job[w]}, SmallTypes'
  PROVE  IInv'
<1>0. PICK m : m = job[w].message
  OBVIOUS
<1> DEFINE new == {u \in Users : assigned[w][u] > 0}
<1>1. /\ job[w] \in Job /\ Authorised(job[w]) /\ held[w] = Owners(job[w]) /\ m \in Messages
      /\ \A u \in new : u \in held[w] /\ assigned[w][u] = last_event[u] + 1
      /\ assigned[w] \in [Users -> 0 .. MaxEvent] /\ last_event \in [Users -> 0 .. MaxEvent]
      /\ held[w] \subseteq Users
  BY <1>0 DEF IInv, TypeOK, WorkersOK, WorkerOK, Deleting, Authorised
<1>2. /\ event' = event \cup {<<u, assigned[w][u], m>> : u \in new}
      /\ last_event' = [u \in Users |-> IF u \in new THEN assigned[w][u] ELSE last_event[u]]
      /\ IF job[w].everyone
         THEN status' = [status EXCEPT ![m] = 2] /\ message_expiry' = message_expiry \ {m}
         ELSE UNCHANGED <<status, message_expiry>>
      /\ UNCHANGED <<receipt, cursor, told>>
  BY <1>0 DEF Install, client
<1>3. LocalTypes' /\ Ended(w) /\ Others(w)
  BY FinishEnds DEF IInv
<1>4. TableTypes'
  <2>1. event' \subseteq Users \X (1 .. MaxEvent) \X Messages
    BY <1>1, <1>2 DEF IInv, TypeOK
  <2>2. last_event' \in [Users -> 0 .. MaxEvent]
    BY <1>1, <1>2
  <2>3. status' \in [Messages -> {0, 2}] /\ message_expiry' \subseteq Messages
    BY <1>2 DEF IInv, TypeOK
  <2> QED
    BY <1>1, <1>2, <2>1, <2>2, <2>3 DEF IInv, TypeOK, TableTypes
<1>5. \A u \in Users : \A k : HasEvent(u, k) => HasEvent(u, k)'
  BY <1>2 DEF HasEvent
<1>6. \A u \in Users \ held[w] : \A k : HasEvent(u, k)' => HasEvent(u, k)
  BY <1>1, <1>2 DEF HasEvent
<1>7. \A u \in held[w] : HasEvent(u, m)'
  <2> SUFFICES ASSUME NEW u \in held[w] PROVE HasEvent(u, m)'
    OBVIOUS
  <2>1. CASE assigned[w][u] > 0
    <3>1. u \in new /\ assigned[w][u] \in 1 .. MaxEvent
      BY <1>1, <2>1
    <3>2. <<u, assigned[w][u], m>> \in event'
      BY <1>2, <3>1
    <3> QED
      BY <3>1, <3>2 DEF HasEvent
  <2>2. CASE HasEvent(u, m)
    BY <1>1, <1>5, <2>2
  <2> QED
    BY <1>0, <2>1, <2>2 DEF IInv, WorkersOK, WorkerOK
<1>8. WorkersOK'
  <2> SUFFICES ASSUME NEW v \in Workers, v # w PROVE WorkerOK(v)'
    BY <1>3, EndedIsOK DEF WorkersOK
  <2>1. WorkerOK(v) /\ held[v] \cap held[w] = {} /\ held[v] \subseteq Users
    BY DEF IInv, TypeOK, WorkersOK, HeadsOK
  <2>2. \A u \in held[v] : last_event'[u] = last_event[u]
    BY <1>1, <1>2, <2>1
  <2>3. (\A u \in Users : assigned[v][u] > 0 =>
           u \in held[v] /\ assigned[v][u] = last_event[u] + 1)'
    BY <1>3, <2>1, <2>2 DEF WorkerOK, Others
  <2>4. (\A u \in held[v] : assigned[v][u] > 0 \/ HasEvent(u, job[v].message))'
    BY <1>3, <1>5, <2>1, <2>2 DEF WorkerOK, Others
  <2> QED
    BY <1>3, <2>1, <2>3, <2>4 DEF WorkerOK, Others
<1>9. HeadsOK'
  BY <1>3, EndedHeads DEF Ended
<1>10. EventsOK' /\ DeletionCursorComplete'
  <2>1. \A u \in Users : last_event[u] <= last_event'[u]
    BY <1>1, <1>2
  <2>2. EventsOK'
    <3>1. \A e \in event' : e[2] <= last_event'[e[1]]
      <4> SUFFICES ASSUME NEW e \in event' PROVE e[2] <= last_event'[e[1]]
        OBVIOUS
      <4>1. CASE e \in event
        BY <2>1, <4>1, <1>1, <1>4 DEF IInv, TypeOK, Tables, EventsOK, TableTypes
      <4>2. CASE e \in {<<u, assigned[w][u], m>> : u \in new}
        BY <1>1, <1>2, <4>2
      <4> QED
        BY <1>2, <4>1, <4>2
    <3>2. \A u \in Users : cursor'[u] <= last_event'[u]
      BY <1>1, <1>2, <1>4, <2>1 DEF IInv, TypeOK, Tables, EventsOK, TableTypes
    <3> QED
      BY <3>1, <3>2 DEF EventsOK
  <2>3. DeletionCursorComplete'
    <3> SUFFICES ASSUME NEW e \in event', e[2] <= cursor[e[1]] PROVE e[3] \in told[e[1]]
      BY <1>2 DEF DeletionCursorComplete
    <3>1. CASE e \in event
      BY <3>1 DEF IInv, Tables, DeletionCursorComplete
    <3>2. CASE e \in {<<u, assigned[w][u], m>> : u \in new}
      BY <1>1, <3>2 DEF IInv, TypeOK, Tables, EventsOK
    <3> QED
      BY <1>2, <3>1, <3>2
  <2> QED
    BY <2>2, <2>3
<1>11. job[w].everyone => status'[m] = 2 /\ HasEvent(Sender[m], m)' /\ HasEvent(Receiver[m], m)'
  <2>1. job[w].everyone => /\ job[w].actor = Sender[m]
                           /\ Sender[m] \in held[w] /\ Receiver[m] \in held[w]
    BY <1>0, <1>1 DEF Authorised, Owners
  <2>2. job[w].everyone => status'[m] = 2
    BY <1>1, <1>2 DEF IInv, TypeOK
  <2> QED
    BY <1>7, <2>1, <2>2
<1>12. ErasedForBoth'
  <2> SUFFICES ASSUME NEW k \in Messages
               PROVE  /\ status'[k] = 2 => /\ HasEvent(Sender[k], k)' /\ HasEvent(Receiver[k], k)'
                                           /\ k \notin message_expiry'
                      /\ status'[k] = 0 => (k \in message_expiry' <=> ExpiresAt[k] > 0)
    BY DEF ErasedForBoth
  <2>1. CASE k = m /\ job[w].everyone
    BY <1>1, <1>2, <1>11, <2>1 DEF IInv, TypeOK
  <2>2. CASE ~(k = m /\ job[w].everyone)
    <3>1. status'[k] = status[k] /\ (k \in message_expiry' <=> k \in message_expiry)
      BY <1>1, <1>2, <2>2 DEF IInv, TypeOK
    <3> QED
      BY <3>1, <1>5, ColumnsAssumption DEF IInv, Tables, ErasedForBoth
  <2> QED
    BY <2>1, <2>2
<1>13. AnswersHonoured' /\ AnswersExist'
  <2>1. \A j \in done' \cap Job : /\ HasEvent(j.actor, j.message)'
                                  /\ j.everyone => /\ status'[j.message] = 2
                                                   /\ HasEvent(Receiver[j.message], j.message)'
    <3> SUFFICES ASSUME NEW j \in done' \cap Job
                 PROVE  /\ HasEvent(j.actor, j.message)'
                        /\ j.everyone => /\ status'[j.message] = 2
                                         /\ HasEvent(Receiver[j.message], j.message)'
      OBVIOUS
    <3>1. CASE j = job[w]
      <4>1. j.actor \in held[w] /\ j.message = m
        BY <1>0, <1>1, <3>1, OwnersAreUsers
      <4> QED
        BY <1>1, <1>7, <1>11, <3>1, <4>1
    <3>2. CASE j \in done
      <4>1. /\ HasEvent(j.actor, j.message)
            /\ j.everyone => status[j.message] = 2 /\ HasEvent(Receiver[j.message], j.message)
        BY <3>2 DEF IInv, Tables, AnswersHonoured
      <4>2. j.actor \in Users /\ j.everyone \in BOOLEAN
        BY RecordKinds
      <4>3. HasEvent(j.actor, j.message)'
        BY <4>1, <4>2, <1>5
      <4>4. j.everyone => j.message \in Messages
        BY <4>1 DEF HasEvent, IInv, TypeOK
      <4>5. j.everyone => /\ status'[j.message] = 2
                          /\ HasEvent(Receiver[j.message], j.message)'
        BY <4>1, <4>4, <1>2, <1>5, ColumnsAssumption DEF IInv, TypeOK
      <4> QED
        BY <4>3, <4>5
    <3> QED
      BY <3>1, <3>2
  <2>2. \A j \in done' \cap Report : /\ receipt'[j.message] # "none"
                                     /\ j.read => receipt'[j.message] = "read"
    BY <1>1, <1>2, RecordKinds DEF IInv, Tables, AnswersHonoured
  <2>3. AnswersExist'
    BY <1>0, <1>1 DEF IInv, Tables, AnswersExist
  <2> QED
    BY <2>1, <2>2, <2>3 DEF AnswersHonoured
<1> QED
  BY <1>3, <1>4, <1>8, <1>9, <1>10, <1>12, <1>13, TypePartsNext DEF IInv, Tables

(***************************************************************************)
(* The receipt.                                                            *)
(***************************************************************************)
LEMMA UpsertKeeps ==
  ASSUME IInv, NEW w \in Workers, pc[w] = "receipt", Upsert(w), Finish(w),
         UNCHANGED <<tables, client>>, SmallTypes',
         \/ done' = done
         \/ done' = done \cup {[job[w] EXCEPT !.read = (receipt'[job[w].message] = "read")]}
  PROVE  IInv'
<1>0. PICK m, answer : /\ m = job[w].message
                       /\ answer = [job[w] EXCEPT !.read = (receipt'[m] = "read")]
  OBVIOUS
<1>1. job[w] \in Report /\ m \in Messages
  BY <1>0 DEF IInv, WorkersOK, WorkerOK
<1>2. receipt' = [receipt EXCEPT ![m] = Greatest(@, asRead[w])] /\ read_receipts' = read_receipts
  BY <1>0 DEF Upsert
<1>3. /\ receipt' \in [Messages -> {"none", "delivered", "read"}]
      /\ receipt'[m] # "none"
      /\ \A k \in Messages : receipt[k] # "none" => receipt'[k] # "none"
      /\ \A k \in Messages : receipt[k] = "read" => receipt'[k] = "read"
  BY <1>1, <1>2 DEF IInv, TypeOK, Greatest
<1>4. answer \in Report /\ answer.message = m /\ answer.read = (receipt'[m] = "read")
  BY <1>0, <1>1 DEF Report
<1>5. answer \notin Job
  BY <1>4, RecordKinds
<1>6. LocalTypes' /\ Ended(w) /\ Others(w)
  BY FinishEnds DEF IInv
<1>7. WorkersOK' /\ HeadsOK'
  BY <1>2, <1>6, OthersKeep, EndedIsOK, EndedHeads DEF Ended, tables
<1>8. TableTypes'
  BY <1>0, <1>3, <1>4, TypeParts DEF IInv, TableTypes, tables, client
<1>9. EventsOK' /\ DeletionCursorComplete' /\ ErasedForBoth'
  BY DEF IInv, Tables, EventsOK, DeletionCursorComplete, ErasedForBoth, HasEvent,
      tables, client
<1>10. AnswersHonoured' /\ AnswersExist'
  <2>1. done' = done \/ done' = done \cup {answer}
    BY <1>0
  <2>2. AnswersExist'
    BY <1>1, <1>4, <2>1 DEF IInv, Tables, AnswersExist
  <2>3. \A j \in done' \cap Job : j \in done
    BY <1>5, <2>1
  <2>4. \A j \in done' \cap Report : /\ receipt'[j.message] # "none"
                                     /\ j.read => receipt'[j.message] = "read"
    BY <1>3, <1>4, <2>1 DEF IInv, Tables, AnswersHonoured, AnswersExist
  <2> QED
    BY <2>2, <2>3, <2>4 DEF IInv, Tables, AnswersHonoured, HasEvent, tables
<1> QED
  BY <1>6, <1>7, <1>8, <1>9, <1>10, TypePartsNext DEF IInv, Tables
(***************************************************************************)
(* The actions.                                                            *)
(***************************************************************************)
\* A step of a worker that goes on with its call and leaves the tables alone.
LEMMA GoOnKeeps ==
  ASSUME IInv, NEW w \in Workers, LocalTypes', SmallTypes', Others(w), WorkerOK(w)', HeadsOK',
         UNCHANGED <<tables, receipts, client, done>>
  PROVE  IInv'
<1>1. WorkersOK'
  BY OthersKeep DEF tables, receipts
<1> QED
  BY <1>1, TablesKeep, TypePartsNext DEF IInv, receipts

LEMMA CallStep ==
  ASSUME IInv, NEW w \in Workers, NEW j \in Jobs, Call(w, j)
  PROVE  IInv'
<1> USE DEF Call
<1>1. j \in Job
  BY JobsAssumption
<1>2. LocalTypes'
  BY <1>1 DEF IInv, TypeOK, LocalTypes, PC, report
<1>3. SmallTypes'
  BY BoundsAssumption DEF IInv, TypeOK, SmallTypes, receipts
<1>4. Others(w) /\ WorkerOK(w)' /\ HeadsOK'
  BY <1>1 DEF IInv, TypeOK, WorkersOK, WorkerOK, Deleting, HeadsOK, Others, report
<1> QED
  BY <1>2, <1>3, <1>4, GoOnKeeps

LEMMA TargetStep ==
  ASSUME IInv, NEW w \in Workers, Target(w)
  PROVE  IInv'
<1> USE DEF Target
<1>1. SmallTypes'
  BY DEF IInv, TypeOK, SmallTypes, receipts
<1>2. CASE Finish(w)
  BY <1>1, <1>2, EndKeeps DEF receipts
<1>3. CASE Authorised(job[w]) /\ pc' = [pc EXCEPT ![w] = "owners"]
           /\ UNCHANGED <<job, held, assigned, due, report>>
  <2>1. LocalTypes' /\ Others(w) /\ HeadsOK'
    BY <1>3 DEF IInv, TypeOK, LocalTypes, PC, Others, HeadsOK, report
  <2>2. job[w] \in Job /\ held[w] = {} /\ held[w] # Owners(job[w])
    BY <1>3 DEF IInv, WorkersOK, WorkerOK, Deleting, Owners
  <2>3. WorkerOK(w)'
    BY <1>3, <2>2 DEF IInv, TypeOK, WorkersOK, WorkerOK, Deleting, Authorised, Owners,
        HasEvent,
       report, tables, receipts
  <2> QED
    BY <1>1, <2>1, <2>3, GoOnKeeps
<1> QED
  BY <1>2, <1>3

\* There is a smallest owner left, of one or two.
LEMMA NextOwnerIsLeft ==
  ASSUME IInv, NEW w \in Workers, pc[w] = "owners"
  PROVE  NextOwner(w) \in Owners(job[w]) \ held[w]
<1> DEFINE left == Owners(job[w]) \ held[w]
<1>1. /\ job[w] \in Job /\ job[w].message \in Messages
      /\ held[w] \subseteq Owners(job[w]) /\ held[w] # Owners(job[w])
  BY DEF IInv, WorkersOK, WorkerOK, Deleting, Authorised
<1>2. PICK a, b \in Users : left \subseteq {a, b}
  BY <1>1, RecordKinds, ColumnsAssumption DEF Owners
<1>3. a \in Nat /\ b \in Nat /\ left # {}
  BY <1>1, UsersAssumption
<1>4. \E u \in left : \A v \in left : u <= v
  <2>1. CASE left = {a}
    BY <1>3, <2>1
  <2>2. CASE left = {b}
    BY <1>3, <2>2
  <2>3. CASE left = {a, b}
    BY <1>3, <2>3
  <2> QED
    BY <1>2, <1>3, <2>1, <2>2, <2>3
<1> QED
  BY <1>4 DEF NextOwner

LEMMA OwnerStep ==
  ASSUME IInv, NEW w \in Workers, Owner(w)
  PROVE  IInv'
<1>0. PICK u : u = NextOwner(w)
  OBVIOUS
<1> DEFINE after == held[w] \cup {u}
           proceed == /\ held' = [held EXCEPT ![w] = after]
                      /\ pc' = IF after = Owners(job[w]) THEN [pc EXCEPT ![w] = "commit"] ELSE pc
                      /\ UNCHANGED <<job, due, report>>
<1>1. /\ pc[w] = "owners"
      /\ \A v \in Workers \ {w} : ~LockHead(v, u)
      /\ \/ HasEvent(u, job[w].message) /\ proceed /\ UNCHANGED assigned
         \/ /\ ~HasEvent(u, job[w].message) /\ last_event[u] < MaxEvent
            /\ assigned' = [assigned EXCEPT ![w][u] = last_event[u] + 1]
            /\ proceed
         \/ Finish(w)
      /\ UNCHANGED <<tables, receipts, now, client, done, calls, faults>>
  BY <1>0 DEF Owner
<1>2. SmallTypes'
  BY <1>1 DEF IInv, TypeOK, SmallTypes, receipts
<1>3. CASE Finish(w)
  BY <1>1, <1>2, <1>3, EndKeeps DEF receipts
<1>4. CASE /\ proceed
           /\ \/ UNCHANGED assigned /\ HasEvent(u, job[w].message)
              \/ /\ last_event[u] < MaxEvent
                 /\ assigned' = [assigned EXCEPT ![w][u] = last_event[u] + 1]
  <2>1. u \in Owners(job[w]) \ held[w] /\ u \in Users /\ job[w] \in Job
        /\ held[w] \subseteq Owners(job[w]) /\ Authorised(job[w])
    BY <1>0, <1>1, NextOwnerIsLeft, OwnersAreUsers DEF IInv, WorkersOK, WorkerOK, Deleting
  <2>2. assigned' \in [Workers -> [Users -> 0 .. MaxEvent]]
    <3>1. CASE UNCHANGED assigned
      BY <3>1 DEF IInv, TypeOK
    <3>2. CASE last_event[u] < MaxEvent /\ assigned' = [assigned EXCEPT ![w][u] = last_event[u] + 1]
      <4>1. last_event[u] + 1 \in 0 .. MaxEvent
        BY <2>1, <3>2, BoundsAssumption DEF IInv, TypeOK
      <4>2. [assigned[w] EXCEPT ![u] = last_event[u] + 1] \in [Users -> 0 .. MaxEvent]
        BY <4>1 DEF IInv, TypeOK
      <4> QED
        BY <3>2, <4>2 DEF IInv, TypeOK
    <3> QED
      BY <1>4, <3>1, <3>2
  <2>3. LocalTypes'
    BY ZenonT(30), <1>4, <2>1, <2>2 DEF IInv, TypeOK, LocalTypes, PC, report
  <2>4. Others(w)
    BY <1>4 DEF IInv, TypeOK, Others, report
  <2>5. HeadsOK'
    BY <1>1, <1>4, <2>4 DEF IInv, TypeOK, HeadsOK, Others, LockHead
  <2>6. held'[w] = after /\ pc'[w] \in Deleting /\ job'[w] = job[w]
        /\ (pc'[w] = "commit" <=> after = Owners(job[w])) /\ asRead' = asRead /\ on' = on
    BY <1>1, <1>4 DEF IInv, TypeOK, Deleting, report
  <2>7. (\A v \in Users : assigned[w][v] > 0 =>
           v \in held[w] /\ assigned[w][v] = last_event[v] + 1)'
    BY <1>1, <1>4, <2>1, <2>6 DEF IInv, TypeOK, WorkersOK, WorkerOK, tables
  <2>8. (\A v \in held[w] : assigned[w][v] > 0 \/ HasEvent(v, job[w].message))'
    <3> SUFFICES ASSUME NEW v \in after
                 PROVE  assigned'[w][v] > 0 \/ HasEvent(v, job[w].message)
      BY <1>1, <2>6 DEF HasEvent, tables
    <3>1. CASE v = u
      BY <1>4, <2>1, <3>1 DEF IInv, TypeOK
    <3>2. CASE v # u
      BY <1>4, <2>1, <3>2 DEF IInv, TypeOK, WorkersOK, WorkerOK
    <3> QED
      BY <3>1, <3>2
  <2>9. WorkerOK(w)'
    BY <1>1, <2>1, <2>6, <2>7, <2>8 DEF IInv, WorkersOK, WorkerOK, Deleting,
        Authorised, Owners
  <2> QED
    BY <1>1, <1>2, <2>3, <2>4, <2>5, <2>9, GoOnKeeps
<1> QED
  BY <1>1, <1>3, <1>4

LEMMA CommitStep ==
  ASSUME IInv, NEW w \in Workers, Commit(w)
  PROVE  IInv'
<1>1. SmallTypes'
  BY DEF Commit, IInv, TypeOK, SmallTypes, receipts
<1> QED
  BY <1>1, InstallKeeps DEF Commit, receipts

LEMMA CallReceiptStep ==
  ASSUME IInv, NEW w \in Workers, NEW j \in Reports, CallReceipt(w, j)
  PROVE  IInv'
<1> USE DEF CallReceipt
<1>1. j \in Report
  BY JobsAssumption
<1>2. LocalTypes'
  BY <1>1, RecordKinds DEF IInv, TypeOK, LocalTypes, PC
<1>3. SmallTypes'
  BY BoundsAssumption DEF IInv, TypeOK, SmallTypes, receipts
<1>4. Others(w) /\ WorkerOK(w)' /\ HeadsOK'
  BY <1>1 DEF IInv, TypeOK, WorkersOK, WorkerOK, Deleting, HeadsOK, Others, receipts
<1> QED
  BY <1>2, <1>3, <1>4, GoOnKeeps

LEMMA ToRowKeeps ==
  ASSUME IInv, NEW w \in Workers, NEW read \in BOOLEAN, pc[w] = "setting", ToRow(w, read),
         read => read_receipts[job[w].actor], faults' \in 0 .. MaxFaults
  PROVE  IInv'
<1> USE DEF ToRow
<1>1. LocalTypes'
  BY DEF IInv, TypeOK, LocalTypes, PC
<1>2. SmallTypes'
  BY DEF IInv, TypeOK, SmallTypes, receipts
<1>3. Others(w) /\ WorkerOK(w)' /\ HeadsOK'
  BY DEF IInv, TypeOK, WorkersOK, WorkerOK, Deleting, HeadsOK, Others, receipts
<1> QED
  BY <1>1, <1>2, <1>3, GoOnKeeps

LEMMA SettingStep ==
  ASSUME IInv, NEW w \in Workers, Setting(w)
  PROVE  IInv'
<1>1. pc[w] = "setting" /\ read_receipts[job[w].actor] \in BOOLEAN /\ faults \in 0 .. MaxFaults
  BY RecordKinds DEF Setting, IInv, TypeOK, WorkersOK, WorkerOK
<1>2. CASE ToRow(w, read_receipts[job[w].actor]) /\ UNCHANGED faults
  BY <1>1, <1>2, ToRowKeeps
<1>3. CASE faults < MaxFaults /\ faults' = faults + 1 /\ ToRow(w, FALSE)
  <2>1. faults' \in 0 .. MaxFaults
    BY <1>1, <1>3, BoundsAssumption
  <2> QED
    BY <1>1, <1>3, <2>1, ToRowKeeps
<1> QED
  BY <1>2, <1>3 DEF Setting

LEMMA RowStep ==
  ASSUME IInv, NEW w \in Workers, Row(w)
  PROVE  IInv'
<1> USE DEF Row
<1>1. SmallTypes'
  BY DEF IInv, TypeOK, SmallTypes, receipts
<1>2. CASE Finish(w)
  BY <1>1, <1>2, EndKeeps DEF receipts
<1>3. CASE job[w].message \in Messages /\ pc' = [pc EXCEPT ![w] = "receipt"]
           /\ UNCHANGED <<job, held, assigned, due, report>>
  <2>1. LocalTypes' /\ Others(w) /\ HeadsOK'
    BY <1>3 DEF IInv, TypeOK, LocalTypes, PC, Others, HeadsOK, report
  <2>2. WorkerOK(w)'
    BY <1>3 DEF IInv, TypeOK, WorkersOK, WorkerOK, Deleting, report, tables
  <2> QED
    BY <1>1, <2>1, <2>2, GoOnKeeps
<1> QED
  BY <1>2, <1>3

LEMMA CommitReceiptStep ==
  ASSUME IInv, NEW w \in Workers, CommitReceipt(w)
  PROVE  IInv'
<1>1. SmallTypes'
  BY DEF CommitReceipt, Upsert, IInv, TypeOK, SmallTypes
<1> QED
  BY <1>1, UpsertKeeps DEF CommitReceipt

LEMMA SetPrivacyStep ==
  ASSUME IInv, NEW u \in Users, SetPrivacy(u)
  PROVE  IInv'
<1> USE DEF SetPrivacy
<1>1. read_receipts' \in [Users -> BOOLEAN] /\ on' \in [Workers -> BOOLEAN]
  BY DEF IInv, TypeOK
<1>2. LocalTypes' /\ SmallTypes'
  BY <1>1, BoundsAssumption DEF IInv, TypeOK, LocalTypes, SmallTypes
<1>3. \A w \in Workers : WorkerOK(w)'
  <2> SUFFICES ASSUME NEW w \in Workers PROVE WorkerOK(w)'
    OBVIOUS
  <2>1. WorkerOK(w) /\ (on[w] => on'[w])
    BY DEF IInv, TypeOK, WorkersOK
  <2>2. pc[w] = "setting" /\ read_receipts'[job[w].actor] => on'[w]
    <3>1. CASE job[w].actor = u
      BY <3>1
    <3>2. CASE job[w].actor # u
      BY <2>1, <3>2, RecordKinds DEF IInv, TypeOK, WorkerOK
    <3> QED
      BY <3>1, <3>2
  <2> QED
    BY <2>1, <2>2 DEF WorkerOK, HasEvent, tables
<1>4. HeadsOK'
  BY DEF IInv, HeadsOK
<1> QED
  BY <1>2, <1>3, <1>4, TablesKeep, TypePartsNext DEF IInv, WorkersOK

LEMMA ScanStep ==
  ASSUME IInv, NEW w \in Workers, Scan(w)
  PROVE  IInv'
<1>1. PICK batch \in SUBSET Messages, m \in Messages :
        /\ pc[w] = "idle" /\ pc' = [pc EXCEPT ![w] = "target"]
        /\ job' = [job EXCEPT ![w] = Expiry(m)]
        /\ due' = [due EXCEPT ![w] = batch \ {m}]
  BY DEF Scan
<1>2. Expiry(m) \in Job
  BY <1>1, ExpiryIsJob
<1>3. UNCHANGED <<tables, receipts, now, held, assigned, report, client, done, calls, faults>>
  BY DEF Scan
<1>4. LocalTypes'
  BY <1>1, <1>2, <1>3 DEF IInv, TypeOK, LocalTypes, PC, report
<1>5. SmallTypes'
  BY <1>3 DEF IInv, TypeOK, SmallTypes, receipts
<1>6. Others(w) /\ WorkerOK(w)' /\ HeadsOK'
  BY <1>1, <1>2, <1>3 DEF IInv, TypeOK, WorkersOK, WorkerOK, Deleting, HeadsOK, Others,
      report
<1> QED
  BY <1>3, <1>4, <1>5, <1>6, GoOnKeeps

LEMMA DeletionEventsStep ==
  ASSUME IInv, NEW u \in Users, DeletionEvents(u)
  PROVE  IInv'
<1> DEFINE rows == {e \in event : e[1] = u /\ e[2] > cursor[u]}
<1>1. PICK page \in SUBSET rows, last \in rows :
        /\ last \in page
        /\ \A a \in page, b \in rows \ page : a[2] < b[2]
        /\ told' = [told EXCEPT ![u] = @ \cup {e[3] : e \in page}]
        /\ \A a \in page : a[2] <= last[2]
        /\ cursor' = [cursor EXCEPT ![u] = last[2]]
  BY DEF DeletionEvents
<1>2. UNCHANGED <<tables, receipts, now, local, done, calls, faults>>
  BY DEF DeletionEvents
<1>3. \A e \in event : e \in Users \X (1 .. MaxEvent) \X Messages
  BY DEF IInv, TypeOK
<1>4. last \in event /\ last[1] = u /\ last[2] \in 1 .. MaxEvent
  BY <1>1, <1>3
<1>5. cursor' \in [Users -> 0 .. MaxEvent]
  BY <1>1, <1>4 DEF IInv, TypeOK
<1>6. told' \in [Users -> SUBSET Messages]
  BY <1>1, <1>3 DEF IInv, TypeOK
<1>7. TypeOK'
  BY <1>2, <1>5, <1>6 DEF IInv, TypeOK, tables, receipts, local, report
<1>8. WorkersOK' /\ HeadsOK'
  BY <1>2 DEF IInv, WorkersOK, WorkerOK, HeadsOK, HasEvent, Authorised, tables,
      receipts, local, report
<1>9. EventsOK'
  BY <1>1, <1>2, <1>4 DEF IInv, TypeOK, Tables, EventsOK, tables
<1>10. DeletionCursorComplete'
  <2> SUFFICES ASSUME NEW e \in event, e[2] <= cursor'[e[1]] PROVE e[3] \in told'[e[1]]
    BY <1>2 DEF DeletionCursorComplete, tables
  <2>1. e[1] \in Users /\ e[2] \in 1 .. MaxEvent
    BY <1>3
  <2>2. CASE e[2] <= cursor[e[1]]
    BY <1>1, <2>1, <2>2 DEF IInv, TypeOK, Tables, DeletionCursorComplete
  <2>3. CASE ~(e[2] <= cursor[e[1]])
    <3>1. e[1] = u /\ cursor'[u] = last[2] /\ cursor[u] \in 0 .. MaxEvent
      BY <1>1, <2>1, <2>3 DEF IInv, TypeOK
    <3>2. e \in rows
      BY <2>1, <2>3, <3>1
    <3>3. e \in page
      BY <1>1, <1>4, <2>1, <3>1, <3>2
    <3> QED
      BY <1>1, <2>1, <3>1, <3>3 DEF IInv, TypeOK
  <2> QED
    BY <2>2, <2>3
<1>11. ErasedForBoth' /\ AnswersHonoured' /\ AnswersExist'
  BY <1>2 DEF IInv, Tables, ErasedForBoth, AnswersHonoured, AnswersExist, HasEvent,
      tables, receipts
<1> QED
  BY <1>7, <1>8, <1>9, <1>10, <1>11 DEF IInv, Tables

LEMMA DatabaseErrorStep ==
  ASSUME IInv, NEW w \in Workers, DatabaseError(w)
  PROVE  IInv'
<1>1. SmallTypes'
  BY BoundsAssumption DEF DatabaseError, IInv, TypeOK, SmallTypes, receipts
<1> QED
  BY <1>1, EndKeeps DEF DatabaseError, receipts

LEMMA CommitReplyLostStep ==
  ASSUME IInv, NEW w \in Workers, CommitReplyLost(w)
  PROVE  IInv'
<1>1. SmallTypes'
  BY BoundsAssumption DEF CommitReplyLost, Upsert, IInv, TypeOK, SmallTypes, receipts
<1>2. CASE pc[w] = "commit" /\ Install(w) /\ UNCHANGED receipts
  BY <1>1, <1>2, InstallKeeps DEF CommitReplyLost, receipts
<1>3. CASE pc[w] = "receipt" /\ Upsert(w) /\ UNCHANGED tables
  BY <1>1, <1>3, UpsertKeeps DEF CommitReplyLost
<1> QED
  BY <1>2, <1>3 DEF CommitReplyLost

LEMMA CrashStep ==
  ASSUME IInv, NEW w \in Workers, Crash(w)
  PROVE  IInv'
<1> USE DEF Crash, Unlock
<1>1. SmallTypes'
  BY BoundsAssumption DEF IInv, TypeOK, SmallTypes, receipts
<1>2. assigned' \in [Workers -> [Users -> 0 .. MaxEvent]]
  <2>1. [u \in Users |-> 0] \in [Users -> 0 .. MaxEvent]
    BY BoundsAssumption
  <2> QED
    BY <2>1 DEF IInv, TypeOK
<1>3. LocalTypes'
  BY <1>2 DEF IInv, TypeOK, LocalTypes, PC
<1>4. Ended(w) /\ Others(w)
  BY DEF IInv, TypeOK, Ended, Others
<1>5. WorkerOK(w)' /\ HeadsOK'
  BY <1>4, EndedIsOK, EndedHeads DEF Ended
<1> QED
  BY <1>1, <1>3, <1>4, <1>5, GoOnKeeps

LEMMA TickStep == IInv /\ Tick => IInv'
<1> SUFFICES ASSUME IInv, Tick PROVE IInv'
  OBVIOUS
<1>1. LocalTypes' /\ SmallTypes'
  BY BoundsAssumption DEF Tick, IInv, TypeOK, LocalTypes, SmallTypes, receipts, local,
      report
<1>2. WorkersOK' /\ HeadsOK'
  BY DEF Tick, IInv, WorkersOK, WorkerOK, HeadsOK, HasEvent, Authorised, tables,
      receipts, local, report
<1> QED
  BY <1>1, <1>2, TablesKeep, TypePartsNext DEF IInv, Tick, receipts

LEMMA StutterStep == IInv /\ UNCHANGED vars => IInv'
<1> SUFFICES ASSUME IInv, UNCHANGED vars PROVE IInv'
  OBVIOUS
<1>1. LocalTypes' /\ SmallTypes'
  BY DEF vars, IInv, TypeOK, LocalTypes, SmallTypes, receipts, local, report
<1>2. WorkersOK' /\ HeadsOK'
  BY DEF vars, IInv, WorkersOK, WorkerOK, HeadsOK, HasEvent, Authorised, tables,
      receipts, local, report
<1> QED
  BY <1>1, <1>2, TablesKeep, TypePartsNext DEF IInv, vars, receipts

LEMMA StepHolds == IInv /\ [Next]_vars => IInv'
<1> SUFFICES ASSUME IInv, [Next]_vars PROVE IInv'
  OBVIOUS
<1>1. ASSUME NEW w \in Workers,
             \/ \E j \in Jobs : Call(w, j)
             \/ \E j \in Reports : CallReceipt(w, j)
             \/ Step(w) \/ Scan(w)
             \/ DatabaseError(w) \/ CommitReplyLost(w) \/ Crash(w)
      PROVE  IInv'
  BY <1>1, CallStep, CallReceiptStep, TargetStep, OwnerStep, CommitStep, SettingStep,
      RowStep,
     CommitReceiptStep, ScanStep, DatabaseErrorStep, CommitReplyLostStep, CrashStep DEF Step
<1>2. CASE \E u \in Users : DeletionEvents(u) \/ SetPrivacy(u)
  BY <1>2, DeletionEventsStep, SetPrivacyStep
<1> QED
  BY <1>1, <1>2, TickStep, StutterStep DEF Next

LEMMA InitHolds == Init => IInv
<1> SUFFICES ASSUME Init PROVE IInv
  OBVIOUS
<1> USE DEF Init
<1>1. LocalTypes
  <2>1. assigned \in [Workers -> [Users -> 0 .. MaxEvent]]
    BY BoundsAssumption
  <2> QED
    BY <2>1 DEF LocalTypes, PC
<1>2. TableTypes
  <2>1. last_event \in [Users -> 0 .. MaxEvent] /\ cursor \in [Users -> 0 .. MaxEvent]
    BY BoundsAssumption
  <2>2. told \in [Users -> SUBSET Messages] /\ status \in [Messages -> {0, 2}]
    OBVIOUS
  <2>3. receipt \in [Messages -> {"none", "delivered", "read"}]
    OBVIOUS
  <2> QED
    BY <2>1, <2>2, <2>3 DEF TableTypes
<1>3. SmallTypes
  BY BoundsAssumption DEF SmallTypes
<1>4. WorkersOK /\ HeadsOK
  BY DEF WorkersOK, WorkerOK, Deleting, HeadsOK
<1>5. Tables
  BY DEF Tables, EventsOK, AnswersExist, DeletionCursorComplete, ErasedForBoth,
      AnswersHonoured
<1> QED
  BY <1>1, <1>2, <1>3, <1>4, <1>5, TypeParts DEF IInv

\* The inductive invariant: a head is locked by one transaction at a time, whose
\* number is the next one of that head until the commit.
THEOREM Invariance == Spec => []IInv
<1> QED
  BY InitHolds, StepHolds, PTL DEF Spec

(***************************************************************************)
(* The theorems.                                                           *)
(***************************************************************************)
\* Every table and every worker's variables keep their type; an event number
\* never passes MaxEvent.
THEOREM TypeCorrect == Spec => []TypeOK
<1>1. IInv => TypeOK
  BY DEF IInv
<1> QED
  BY <1>1, Invariance, PTL

\* The cursor of a client is never past a deletion it has not been told of,
\* whatever transactions overlap: heads are locked until the commit.
THEOREM CursorsComplete == Spec => []DeletionCursorComplete
<1>1. IInv => DeletionCursorComplete
  BY DEF IInv, Tables
<1> QED
  BY <1>1, Invariance, PTL

\* A message is cleared together with both tombstones and its expiry row, by a
\* user or by any expiry worker.
THEOREM Erasure == Spec => []ErasedForBoth
<1>1. IInv => ErasedForBoth
  BY DEF IInv, Tables
<1> QED
  BY <1>1, Invariance, PTL

\* A deletion or receipt that was answered with success stays.
THEOREM Answers == Spec => []AnswersHonoured
<1>1. IInv => AnswersHonoured
  BY DEF IInv, Tables
<1> QED
  BY <1>1, Invariance, PTL

\* No message becomes read against its reader's setting.
THEOREM Consent == Spec => ReadConsented
<1>1. ASSUME IInv, [Next]_vars
      PROVE  \A m \in Messages : receipt'[m] = "read" /\ receipt[m] # "read" =>
               \E w \in Workers : pc[w] = "receipt" /\ job[w].message = m /\ on[w]
  <2> SUFFICES ASSUME NEW m \in Messages, receipt'[m] = "read", receipt[m] # "read"
               PROVE  \E w \in Workers : pc[w] = "receipt" /\ job[w].message = m /\ on[w]
    OBVIOUS
  <2>1. PICK w \in Workers : pc[w] = "receipt" /\ Upsert(w)
    BY <1>1 DEF Next, vars, receipts, Call, CallReceipt, Step, Target, Owner, Commit,
        Setting, ToRow,
       Row, CommitReceipt, Scan, DatabaseError, CommitReplyLost, Crash, DeletionEvents,
       SetPrivacy, Tick
  <2>2. job[w].message = m /\ asRead[w]
    BY <1>1, <2>1 DEF Upsert, Greatest, IInv, TypeOK
  <2> QED
    BY <1>1, <2>1, <2>2 DEF IInv, WorkersOK, WorkerOK
<1> QED
  BY <1>1, Invariance, PTL DEF Spec, ReadConsented
===============================================================================
