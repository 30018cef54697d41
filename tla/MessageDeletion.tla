--------------------------- MODULE MessageDeletion ---------------------------
(***************************************************************************)
(* What happens to stored messages: MysqlDao::DeleteMessage and            *)
(* RecordReceipt called for users by the nodes' logic threads,             *)
(* ExpireMessages run by one ExpiryWorker per node, and clients that       *)
(* follow DeletionEvents with a cursor.                                    *)
(*                                                                         *)
(* Both transactions lock the message row; a deletion then locks the head  *)
(* row of each owner in uid order.  All locks are held until the end; what *)
(* is written becomes visible at commit.  The held locks are derived from  *)
(* pc, job and held.                                                       *)
(***************************************************************************)
EXTENDS Naturals, FiniteSets

CONSTANTS
  Users,        \* uids, which are numbers: owners are locked in uid order
  Messages,     \* message ids stored before
  Sender, Receiver,   \* columns of chat_message, functions on Messages
  ExpiresAt,    \* message_expiry.expires_at as stored, 0 without retention
  Jobs,         \* delete requests users may send
  Reports,      \* receipt requests users may send
  NoJob,
  Logic,        \* logic threads, one per node
  Expirers,     \* ExpiryWorker threads, one per node
  ScanRows,     \* LIMIT of the expiry scan (20 in the code)
  PageRows,     \* most events of a page (20 in the code)
  MaxEvent,     \* largest value of last_event (uint64 maximum)
  MaxTime,      \* bound: clock
  MaxCalls,     \* bound: requests
  MaxSettings,  \* bound: changes of read_receipts
  MaxFaults     \* bound: database errors, lost commits and crashes

Job == [actor: Users, message: Nat, everyone: BOOLEAN]
Report == [actor: Users, message: Nat, read: BOOLEAN]
Workers == Logic \cup Expirers

ASSUME UsersAssumption == Users \subseteq Nat \ {0} /\ Messages \subseteq Nat \ {0}

ASSUME ColumnsAssumption ==
  /\ Sender \in [Messages -> Users] /\ Receiver \in [Messages -> Users]
  /\ \A m \in Messages : Sender[m] # Receiver[m]
  /\ ExpiresAt \in [Messages -> Nat]

ASSUME JobsAssumption == /\ Jobs \subseteq Job /\ Reports \subseteq Report
                         /\ NoJob \notin Job \cup Report

ASSUME BoundsAssumption ==
  /\ Logic \cap Expirers = {}
  /\ ScanRows \in Nat \ {0} /\ PageRows \in Nat \ {0} /\ MaxEvent \in Nat
  /\ MaxSettings \in Nat /\ MaxTime \in Nat /\ MaxCalls \in Nat /\ MaxFaults \in Nat

VARIABLES
  status,          \* chat_message.status: 0, or 2 with the content cleared
  message_expiry,  \* messages that have an expiry row
  last_event,      \* message_delete_head, 0 without a row
  event,           \* message_delete_event: <<owner, event_seq, message>>
  now,             \* the database clock
  receipt,         \* message_receipt of the receiver: none, delivered, read
  read_receipts,   \* user_privacy.read_receipts
  pc, job, held, assigned, due,   \* a worker's call; due: rest of its scan
  asRead, on,      \* its receipt is stored as read; the setting was on meanwhile
  cursor, told,    \* per user: after_event, and messages the client was told of
  done,            \* requests ever answered with success
  calls, settings, faults

tables == <<status, message_expiry, last_event, event>>
receipts == <<receipt, read_receipts, settings>>
report == <<asRead, on>>
local == <<pc, job, held, assigned, due, report>>
client == <<cursor, told>>
vars == <<tables, receipts, now, local, client, done, calls, faults>>

PC == {"idle", "target", "owners", "commit", "setting", "row", "receipt"}

Expired(m) == m \in message_expiry /\ ExpiresAt[m] <= now

HasEvent(u, m) == \E n \in 1 .. MaxEvent : <<u, n, m>> \in event

\* Mutant: deleting for everyone records an event for the actor alone.
OwnersActorOnly(j) == {j.actor}

Owners(j) == {j.actor} \cup IF j.everyone THEN {Receiver[j.message]} ELSE {}

\* The participants may hide a message, only its sender may erase it.
Authorised(j) ==
  /\ j.message \in Messages
  /\ \/ j.actor = Sender[j.message]
     \/ j.actor = Receiver[j.message] /\ ~j.everyone

LockMessage(w, m) == pc[w] \in {"owners", "commit", "receipt"} /\ job[w].message = m
LockHead(w, u) == u \in held[w]

\* The smallest owner whose head is not locked yet.
NextOwner(w) == CHOOSE u \in Owners(job[w]) \ held[w] :
                  \A v \in Owners(job[w]) \ held[w] : u <= v

\* ORDER BY expires_at, message_id.
Earlier(m, n) == \/ ExpiresAt[m] < ExpiresAt[n]
                 \/ ExpiresAt[m] = ExpiresAt[n] /\ m <= n

\* Mutant: the expiry worker deletes for the sender only.
ExpiryForSender(m) == [actor |-> Sender[m], message |-> m, everyone |-> FALSE]

Expiry(m) == [actor |-> Sender[m], message |-> m, everyone |-> TRUE]

(***************************************************************************)
(* The call ends, its locks are released; an expiry worker goes on with    *)
(* the next message of its scan.                                           *)
(***************************************************************************)
Unlock(w) == /\ held' = [held EXCEPT ![w] = {}]
             /\ asRead' = [asRead EXCEPT ![w] = FALSE] /\ on' = [on EXCEPT ![w] = FALSE]
             /\ assigned' = [assigned EXCEPT ![w] = [u \in Users |-> 0]]

Finish(w) ==
  /\ Unlock(w)
  /\ \/ /\ due[w] = {}
        /\ pc' = [pc EXCEPT ![w] = "idle"]
        /\ job' = [job EXCEPT ![w] = NoJob]
        /\ UNCHANGED due
     \/ \E m \in due[w] :
          /\ \A n \in due[w] : Earlier(m, n)
          /\ pc' = [pc EXCEPT ![w] = "target"]
          /\ job' = [job EXCEPT ![w] = Expiry(m)]
          /\ due' = [due EXCEPT ![w] = @ \ {m}]

Init ==
  /\ status = [m \in Messages |-> 0]
  /\ message_expiry = {m \in Messages : ExpiresAt[m] > 0}
  /\ last_event = [u \in Users |-> 0]
  /\ event = {}
  /\ receipt = [m \in Messages |-> "none"]
  /\ read_receipts = [u \in Users |-> TRUE]
  /\ now = 0
  /\ pc = [w \in Workers |-> "idle"]
  /\ job = [w \in Workers |-> NoJob]
  /\ held = [w \in Workers |-> {}]
  /\ assigned = [w \in Workers |-> [u \in Users |-> 0]]
  /\ due = [w \in Workers |-> {}]
  /\ asRead = [w \in Workers |-> FALSE] /\ on = [w \in Workers |-> FALSE]
  /\ cursor = [u \in Users |-> 0]
  /\ told = [u \in Users |-> {}]
  /\ done = {} /\ calls = 0 /\ settings = 0 /\ faults = 0

(***************************************************************************)
(* DeleteMessage.                                                          *)
(***************************************************************************)
Call(w, j) ==
  /\ w \in Logic /\ pc[w] = "idle" /\ calls < MaxCalls
  /\ pc' = [pc EXCEPT ![w] = "target"]
  /\ job' = [job EXCEPT ![w] = j]
  /\ calls' = calls + 1
  /\ UNCHANGED <<tables, receipts, now, held, assigned, due, report, client, done, faults>>

\* SELECT ... FROM chat_message ... FOR UPDATE and the authorisation check.
Target(w) ==
  /\ pc[w] = "target"
  /\ \A v \in Workers \ {w} : ~LockMessage(v, job[w].message)
  /\ \/ ~Authorised(job[w]) /\ Finish(w)
     \/ /\ Authorised(job[w])
        /\ pc' = [pc EXCEPT ![w] = "owners"]
        /\ UNCHANGED <<job, held, assigned, due, report>>
  /\ UNCHANGED <<tables, receipts, now, client, done, calls, faults>>

\* Mutant: event numbers are AUTO_INCREMENT values, no head is locked.
OwnerAutoIncrement(w) ==
  LET u == NextOwner(w)
      taken == {last_event[u]} \cup {assigned[v][u] : v \in Workers}
  IN  /\ pc[w] = "owners"
      /\ held' = [held EXCEPT ![w] = @ \cup {u}]
      /\ pc' = IF held[w] \cup {u} = Owners(job[w])
               THEN [pc EXCEPT ![w] = "commit"] ELSE pc
      /\ \E n \in 1 .. MaxEvent :
           /\ \A k \in taken : n > k
           /\ n - 1 \in taken
           /\ assigned' = [assigned EXCEPT ![w][u] = n]
      /\ ~HasEvent(u, job[w].message)
      /\ UNCHANGED <<tables, receipts, now, job, due, report, client, done, calls, faults>>

\* One turn of the loop over owners: lock the head, then number a new event
\* unless the owner already has one for this message.
Owner(w) ==
  LET u == NextOwner(w)
      after == held[w] \cup {u}
      proceed == /\ held' = [held EXCEPT ![w] = after]
                 /\ pc' = IF after = Owners(job[w])
                          THEN [pc EXCEPT ![w] = "commit"] ELSE pc
                 /\ UNCHANGED <<job, due, report>>
  IN  /\ pc[w] = "owners"
      /\ \A v \in Workers \ {w} : ~LockHead(v, u)
      /\ \/ HasEvent(u, job[w].message) /\ proceed /\ UNCHANGED assigned
         \/ /\ ~HasEvent(u, job[w].message)
            /\ last_event[u] < MaxEvent
            /\ assigned' = [assigned EXCEPT ![w][u] = last_event[u] + 1]
            /\ proceed
         \/ /\ ~HasEvent(u, job[w].message)
            /\ last_event[u] = MaxEvent
            /\ Finish(w)
      /\ UNCHANGED <<tables, receipts, now, client, done, calls, faults>>

\* What the commit makes visible: the events, the heads and, for everyone, the
\* cleared message without its expiry row.
Install(w) ==
  LET m == job[w].message
      new == {u \in Users : assigned[w][u] > 0}
  IN  /\ event' = event \cup {<<u, assigned[w][u], m>> : u \in new}
      /\ last_event' = [u \in Users |-> IF u \in new THEN assigned[w][u]
                                                     ELSE last_event[u]]
      /\ IF job[w].everyone
         THEN /\ status' = [status EXCEPT ![m] = 2]
              /\ message_expiry' = message_expiry \ {m}
         ELSE UNCHANGED <<status, message_expiry>>

Commit(w) ==
  /\ pc[w] = "commit"
  /\ Install(w)
  /\ Finish(w)
  /\ done' = done \cup {job[w]}
  /\ UNCHANGED <<receipts, now, client, calls, faults>>

(***************************************************************************)
(* RecordReceipt, whose PrivacyAllows uses a connection of its own.        *)
(***************************************************************************)
CallReceipt(w, j) ==
  /\ w \in Logic /\ pc[w] = "idle" /\ calls < MaxCalls
  /\ pc' = [pc EXCEPT ![w] = IF j.read THEN "setting" ELSE "row"]
  /\ job' = [job EXCEPT ![w] = j]
  /\ on' = [on EXCEPT ![w] = read_receipts[j.actor]]
  /\ calls' = calls + 1
  /\ UNCHANGED <<tables, receipts, now, held, assigned, due, asRead, client, done,
                 faults>>

ToRow(w, read) ==
  /\ asRead' = [asRead EXCEPT ![w] = read]
  /\ pc' = [pc EXCEPT ![w] = "row"]
  /\ UNCHANGED <<tables, receipts, now, job, held, assigned, due, on, client, done,
                 calls>>

\* Mutant: a failed query is taken for the default of the column.
SettingFailsOpen(w) ==
  /\ pc[w] = "setting"
  /\ \/ ToRow(w, read_receipts[job[w].actor]) /\ UNCHANGED faults
     \/ faults < MaxFaults /\ faults' = faults + 1 /\ ToRow(w, TRUE)

\* PrivacyAllows(actor, actor, "read_receipts"): no, if the query fails.
Setting(w) ==
  /\ pc[w] = "setting"
  /\ \/ ToRow(w, read_receipts[job[w].actor]) /\ UNCHANGED faults
     \/ faults < MaxFaults /\ faults' = faults + 1 /\ ToRow(w, FALSE)

\* SELECT ... WHERE receiver_uid = actor FOR UPDATE, whatever the message's status.
Row(w) ==
  /\ pc[w] = "row"
  /\ \A v \in Workers \ {w} : ~LockMessage(v, job[w].message)
  /\ IF job[w].message \in Messages /\ Receiver[job[w].message] = job[w].actor
     THEN /\ pc' = [pc EXCEPT ![w] = "receipt"]
          /\ UNCHANGED <<job, held, assigned, due, report>>
     ELSE Finish(w)
  /\ UNCHANGED <<tables, receipts, now, client, done, calls, faults>>

\* Mutant: status = VALUES(status).
GreatestIsLast(old, read) == IF read THEN "read" ELSE "delivered"

\* status = GREATEST(status, ?).
Greatest(old, read) == IF read \/ old = "read" THEN "read" ELSE "delivered"

Upsert(w) ==
  LET m == job[w].message IN
  /\ receipt' = [receipt EXCEPT ![m] = Greatest(@, asRead[w])]
  /\ UNCHANGED <<read_receipts, settings>>

\* The insert or update, the state it leaves, which is answered, and the commit.
CommitReceipt(w) ==
  /\ pc[w] = "receipt"
  /\ Upsert(w)
  /\ done' = done \cup {[job[w] EXCEPT !.read = (receipt'[job[w].message] = "read")]}
  /\ Finish(w)
  /\ UNCHANGED <<tables, now, client, calls, faults>>

\* PrivacyCommand "set": the user turns read receipts off or on.
SetPrivacy(u) ==
  /\ settings < MaxSettings /\ settings' = settings + 1
  /\ read_receipts' = [read_receipts EXCEPT ![u] = ~@]
  /\ on' = [w \in Workers |-> on[w] \/ (pc[w] \in {"setting", "row", "receipt"}
                                        /\ job[w].actor = u /\ read_receipts'[u])]
  /\ UNCHANGED <<tables, receipt, now, pc, job, held, assigned, due, asRead, client,
                 done, calls, faults>>

(***************************************************************************)
(* ExpireMessages: the scan, then DeleteMessage for every row it found.    *)
(***************************************************************************)
Scan(w) ==
  /\ w \in Expirers /\ pc[w] = "idle"
  /\ \E batch \in SUBSET {m \in Messages : Expired(m)} :
       /\ batch # {} /\ Cardinality(batch) <= ScanRows
       /\ \A m \in batch, n \in {k \in Messages : Expired(k)} \ batch :
            Earlier(m, n) /\ Cardinality(batch) = ScanRows
       /\ \E m \in batch :
            /\ \A n \in batch : Earlier(m, n)
            /\ pc' = [pc EXCEPT ![w] = "target"]
            /\ job' = [job EXCEPT ![w] = Expiry(m)]
            /\ due' = [due EXCEPT ![w] = batch \ {m}]
  /\ UNCHANGED <<tables, receipts, now, held, assigned, report, client, done, calls, faults>>

(***************************************************************************)
(* DeletionEvents: a client asks for the events after its cursor.          *)
(***************************************************************************)
DeletionEvents(u) ==
  LET rows == {e \in event : e[1] = u /\ e[2] > cursor[u]}
  IN  /\ \E page \in SUBSET rows :
           /\ page # {} /\ Cardinality(page) <= PageRows
           /\ \A a \in page, b \in rows \ page : a[2] < b[2]
           /\ told' = [told EXCEPT ![u] = @ \cup {e[3] : e \in page}]
           /\ \E last \in page :
                /\ \A a \in page : a[2] <= last[2]
                /\ cursor' = [cursor EXCEPT ![u] = last[2]]
      /\ UNCHANGED <<tables, receipts, now, local, done, calls, faults>>

Tick == /\ now < MaxTime
        /\ now' = now + 1
        /\ UNCHANGED <<tables, receipts, local, client, done, calls, faults>>

(***************************************************************************)
(* Failures.  DeleteMessage does not retry: any exception rolls back.      *)
(***************************************************************************)
DatabaseError(w) ==
  /\ pc[w] \notin {"idle", "setting"} /\ faults < MaxFaults
  /\ Finish(w)
  /\ faults' = faults + 1
  /\ UNCHANGED <<tables, receipts, now, client, done, calls>>

CommitReplyLost(w) ==
  /\ faults < MaxFaults
  /\ \/ pc[w] = "commit" /\ Install(w) /\ UNCHANGED receipts
     \/ pc[w] = "receipt" /\ Upsert(w) /\ UNCHANGED tables
  /\ Finish(w)
  /\ faults' = faults + 1
  /\ UNCHANGED <<now, client, done, calls>>

Crash(w) ==
  /\ pc[w] # "idle" /\ faults < MaxFaults
  /\ Unlock(w)
  /\ pc' = [pc EXCEPT ![w] = "idle"]
  /\ job' = [job EXCEPT ![w] = NoJob]
  /\ due' = [due EXCEPT ![w] = {}]
  /\ faults' = faults + 1
  /\ UNCHANGED <<tables, receipts, now, client, done, calls>>

Step(w) == \/ Target(w) \/ Owner(w) \/ Commit(w)
           \/ Setting(w) \/ Row(w) \/ CommitReceipt(w)

Next == \/ \E w \in Workers : \/ \E j \in Jobs : Call(w, j)
                              \/ \E j \in Reports : CallReceipt(w, j)
                              \/ Step(w) \/ Scan(w)
                              \/ DatabaseError(w) \/ CommitReplyLost(w) \/ Crash(w)
        \/ \E u \in Users : DeletionEvents(u) \/ SetPrivacy(u)
        \/ Tick

Spec == Init /\ [][Next]_vars

\* Logic threads finish their calls, an expiry worker scans every few seconds,
\* clients keep polling and time passes.
FairSpec == /\ Spec
            /\ \A w \in Workers : WF_vars(Step(w))
            /\ \A w \in Expirers : WF_vars(Scan(w))
            /\ \A u \in Users : WF_vars(DeletionEvents(u))
            /\ WF_vars(Tick)

(***************************************************************************)
(* Properties.                                                             *)
(***************************************************************************)
TypeOK ==
  /\ status \in [Messages -> {0, 2}]
  /\ message_expiry \subseteq Messages
  /\ last_event \in [Users -> 0 .. MaxEvent]
  /\ event \subseteq Users \X (1 .. MaxEvent) \X Messages
  /\ now \in 0 .. MaxTime
  /\ pc \in [Workers -> PC]
  /\ job \in [Workers -> Job \cup Report \cup {NoJob}]
  /\ held \in [Workers -> SUBSET Users]
  /\ assigned \in [Workers -> [Users -> 0 .. MaxEvent]]
  /\ due \in [Workers -> SUBSET Messages]
  /\ cursor \in [Users -> 0 .. MaxEvent]
  /\ told \in [Users -> SUBSET Messages]
  /\ receipt \in [Messages -> {"none", "delivered", "read"}]
  /\ read_receipts \in [Users -> BOOLEAN]
  /\ asRead \in [Workers -> BOOLEAN] /\ on \in [Workers -> BOOLEAN]
  /\ done \subseteq Job \cup Report /\ settings \in 0 .. MaxSettings
  /\ calls \in 0 .. MaxCalls /\ faults \in 0 .. MaxFaults

\* A client that polls DeletionEvents from its cursor is told of every deletion:
\* no event at or below the cursor is one it has not been told.
DeletionCursorComplete ==
  \A e \in event : e[2] <= cursor[e[1]] => e[3] \in told[e[1]]

\* A cleared message has an event for both participants, and only a cleared one
\* has lost its expiry row: content, tombstones and expiry change together.
ErasedForBoth ==
  \A m \in Messages :
    /\ status[m] = 2 => /\ HasEvent(Sender[m], m) /\ HasEvent(Receiver[m], m)
                        /\ m \notin message_expiry
    /\ status[m] = 0 => (m \in message_expiry <=> ExpiresAt[m] > 0)

\* What was answered with success is durable: a deletion for all its owners, and
\* of a message that was answered as read no later receipt, delivered late or
\* repeated, takes it back.
AnswersHonoured ==
  /\ \A j \in done \cap Job :
       /\ HasEvent(j.actor, j.message)
       /\ j.everyone => /\ status[j.message] = 2
                        /\ HasEvent(Receiver[j.message], j.message)
  /\ \A j \in done \cap Report :
       /\ receipt[j.message] # "none"
       /\ j.read => receipt[j.message] = "read"

\* A message becomes read to its sender only if the reader's read_receipts was on
\* at some moment of the call that reported it: a failed query of the setting
\* suppresses it, a change while the call runs may count or not.
ReadConsented ==
  [][\A m \in Messages : receipt'[m] = "read" /\ receipt[m] # "read" =>
       \E w \in Workers : pc[w] = "receipt" /\ job[w].message = m /\ on[w]]_vars

\* An expired message is cleared in the end, although each scan takes only the
\* first ScanRows rows and some deletions fail.
ExpiredIsErased == \A m \in Messages : Expired(m) ~> status[m] = 2
==============================================================================
