--------------------------- MODULE PrivateChatProofs ---------------------------
(***************************************************************************)
(* Theorems about PrivateChat, for any users, requests, gateways, quotas   *)
(* and faults.                                                             *)
(***************************************************************************)
EXTENDS PrivateChat, FiniteSetTheorems, TLAPS

(***************************************************************************)
(* The inductive invariant.                                                *)
(***************************************************************************)
Peered(w) == op[w].peer # NoUser

\* Which device rows a call has locked, by its control point.
HeldOK ==
  \A w \in Workers :
    /\ pc[w] = "insert" => ~Peered(w)
    /\ pc[w] \in {"permit", "peer"} => Peered(w)
    /\ pc[w] \in {"permit", "peer", "work", "commit"} => Device(op[w].uid) \in held[w]
    /\ pc[w] \in {"work", "commit"} /\ Peered(w) => Device(op[w].peer) \in held[w]

\* A device row is locked by one worker at a time.
Exclusive ==
  \A w, v \in Workers, u \in Users :
    Device(u) \in held[w] /\ Device(u) \in held[v] => w = v

LocksOK == HeldOK /\ Exclusive

Own(u) == {k \in private_prekey : k.owner = u}
SameKey(k, l) == k.owner = l.owner /\ k.key_id = l.key_id
SameMessage(e, f) == e.sender = f.sender /\ e.id = f.id
\* k answers the claim that uid made of a key of peer under this id.
Answers(k, uid, peer, id) == k.owner = peer /\ k.claimant = uid /\ k.claim_id = id

\* A key id names one row, and so does a claim.
KeysOK ==
  /\ IsFiniteSet(private_prekey)
  /\ \A k, l \in private_prekey : SameKey(k, l) => k = l
  /\ \A k, l \in private_prekey :
       k.claimant # NoUser /\ Answers(k, l.claimant, l.owner, l.claim_id) => k = l
  /\ \A u \in Users : Cardinality(Own(u)) <= MaxPrekeys

\* A sequence number names one row, and so does a message id of a sender.
MailOK ==
  /\ IsFiniteSet(private_envelope)
  /\ \A e \in private_envelope : e.sequence < next_sequence
  /\ \A e, f \in private_envelope : e.sequence = f.sequence => e = f
  /\ \A e, f \in private_envelope : SameMessage(e, f) => e = f
  /\ \A u \in Users : Cardinality(Waiting(u)) <= MaxInbox

Committing(w, name) == pc[w] = "commit" /\ op[w].op = name

\* What a call is about to install still fits the tables: nobody else could
\* change the rows it was computed from.
PublishOK(w) ==
  LET r == op[w] IN
  Committing(w, "publish") =>
    /\ row[w] \in PrekeyRows /\ row[w].owner = r.uid
    /\ \/ row[w] \in private_prekey
       \/ /\ row[w].claimant = NoUser
          /\ \A l \in private_prekey : ~SameKey(l, row[w])
          /\ Cardinality(Own(r.uid)) < MaxPrekeys

\* The pending claim takes row l.
Takes(w, l) ==
  /\ l.owner = op[w].peer /\ l.claimant = NoUser
  /\ SameKey(row[w], l) /\ row[w].bundle = l.bundle

ClaimOK(w) ==
  LET r == op[w] IN
  Committing(w, "claim") =>
    /\ row[w] \in PrekeyRows /\ Answers(row[w], r.uid, r.peer, r.key)
    /\ \/ row[w] \in private_prekey
       \/ /\ \E l \in private_prekey : Takes(w, l)
          /\ \A l \in private_prekey : ~Answers(l, r.uid, r.peer, r.key)

\* The row of the send is not stored yet.
Fresh(w) ==
  /\ Committing(w, "send")
  /\ \A f \in private_envelope : f.sequence # row[w].sequence

SendOK(w) ==
  LET r == op[w] IN
  Committing(w, "send") =>
    /\ row[w] \in EnvelopeRows /\ row[w].sequence < next_sequence
    /\ row[w].sender = r.uid /\ row[w].id = r.key /\ SameDigest(row[w], r)
    /\ \/ row[w] \in private_envelope
       \/ /\ Fresh(w) /\ ~row[w].acknowledged
          /\ \A f \in private_envelope : ~SameMessage(f, row[w])
          /\ Cardinality(Waiting(r.peer)) < MaxInbox

SameEnvelope(e, f) ==
  /\ e.sequence = f.sequence /\ SameMessage(e, f) /\ e.recipient = f.recipient
  /\ e.identity = f.identity /\ e.peer_identity = f.peer_identity /\ e.digest = f.digest

AckOK(w) ==
  LET r == op[w] IN
  Committing(w, "ack") /\ row[w] # NoRow =>
    /\ row[w] \in EnvelopeRows /\ row[w].acknowledged
    /\ \E e \in private_envelope :
         e.sequence = r.key /\ e.recipient = r.uid /\ SameEnvelope(row[w], e)

PendingOK ==
  /\ \A w \in Workers : PublishOK(w) /\ ClaimOK(w) /\ SendOK(w) /\ AckOK(w)
  /\ \A w, v \in Workers :
       Fresh(w) /\ Fresh(v) /\ row[w].sequence = row[v].sequence => w = v

\* What was answered is in the tables.
ClaimAnswered(r) ==
  r.req.op = "claim" => r.row \in private_prekey /\ Answers(r.row, r.req.uid, r.req.peer, r.req.key)
SendAnswered(r) ==
  r.req.op = "send" =>
    \E e \in private_envelope : e.sender = r.req.uid /\ e.id = r.req.key /\ SameDigest(e, r.req)
AckAnswered(r) ==
  r.req.op = "ack" /\ r.row # NoRow =>
    \E e \in private_envelope : e.sequence = r.req.key /\ e.acknowledged
AnswersOK == \A r \in replies : ClaimAnswered(r) /\ SendAnswered(r) /\ AckAnswered(r)

\* Snapshots show what had been acknowledged before.
SnapsOK ==
  \A w \in Workers : \A e \in snap[w].envelopes : e.sequence \in snap[w].acked => e.acknowledged

IInv == /\ TypeOK /\ LocksOK /\ KeysOK /\ MailOK /\ PendingOK /\ AnswersOK /\ SnapsOK
        /\ NoRedelivery

(***************************************************************************)
(* How a step moves its worker.                                            *)
(***************************************************************************)
LocalTypes ==
  /\ held \in [Workers -> SUBSET ({"device", "gap"} \X Users)]
  /\ pc \in [Workers -> {"idle", "own", "insert", "permit", "peer", "work", "commit"}]
  /\ op \in [Workers -> Requests \cup {NoRequest}]
  /\ \A w \in Workers : pc[w] # "idle" => op[w] \in Requests
  /\ snap \in [Workers -> [envelopes: SUBSET EnvelopeRows, prekeys: SUBSET PrekeyRows,
                           blocks: SUBSET (Users \X Users), acked: SUBSET Keys]]
  /\ row \in [Workers -> PrekeyRows \cup EnvelopeRows \cup {NoRow}]

\* The other workers stay where they are.
Others(w) ==
  \A v \in Workers \ {w} :
    /\ held'[v] = held[v] /\ pc'[v] = pc[v] /\ op'[v] = op[v] /\ row'[v] = row[v]
    /\ snap'[v] = snap[v]

LEMMA ReturnMoves ==
  ASSUME TypeOK, NEW w \in Workers, Return(w)
  PROVE  LocalTypes' /\ Others(w) /\ pc'[w] = "idle" /\ held'[w] = {} /\ snap' = snap
<1>1. held' \in [Workers -> SUBSET ({"device", "gap"} \X Users)] /\ held'[w] = {}
  BY DEF TypeOK, Return
<1>2. /\ pc' \in [Workers -> {"idle", "own", "insert", "permit", "peer", "work", "commit"}]
      /\ pc'[w] = "idle"
  BY DEF TypeOK, Return, Goto
<1>3. op' \in [Workers -> Requests \cup {NoRequest}]
  BY DEF TypeOK, Return
<1>4. row' \in [Workers -> PrekeyRows \cup EnvelopeRows \cup {NoRow}]
  BY DEF TypeOK, Return
<1>5. Others(w) /\ snap' = snap
  BY DEF TypeOK, Return, Goto, Others
<1>6. \A v \in Workers : pc'[v] # "idle" => op'[v] \in Requests
  BY <1>2, <1>5 DEF TypeOK, Others
<1> QED
  BY <1>1, <1>2, <1>3, <1>4, <1>5, <1>6 DEF TypeOK, LocalTypes

\* A statement that keeps the request and locks at most one more row.
LEMMA LockMoves ==
  ASSUME TypeOK, NEW w \in Workers, pc[w] # "idle", NEW lock \in {"device", "gap"} \X Users,
         NEW label \in {"own", "insert", "permit", "peer", "work", "commit"},
         Hold(w, lock), Goto(w, label), UNCHANGED <<op, snap, row>>
  PROVE  LocalTypes' /\ Others(w) /\ pc'[w] = label /\ held'[w] = held[w] \cup {lock}
<1>1. /\ held' \in [Workers -> SUBSET ({"device", "gap"} \X Users)]
      /\ held'[w] = held[w] \cup {lock}
  BY DEF TypeOK, Hold
<1>2. /\ pc' \in [Workers -> {"idle", "own", "insert", "permit", "peer", "work", "commit"}]
      /\ pc'[w] = label
  BY DEF TypeOK, Goto
<1>3. Others(w)
  BY DEF TypeOK, Hold, Goto, Others
<1>4. \A v \in Workers : pc'[v] # "idle" => op'[v] \in Requests
  BY <1>3 DEF TypeOK, Others
<1> QED
  BY <1>1, <1>2, <1>3, <1>4 DEF TypeOK, LocalTypes

\* An operation that has its row and goes on to the COMMIT.
LEMMA DoneMoves ==
  ASSUME TypeOK, NEW w \in Workers, pc[w] # "idle", NEW k, Done(w, k),
         k \in PrekeyRows \cup EnvelopeRows \cup {NoRow}
  PROVE  /\ LocalTypes' /\ Others(w) /\ pc'[w] = "commit" /\ row'[w] = k
         /\ op' = op /\ held' = held /\ snap' = snap
<1>1. /\ row' \in [Workers -> PrekeyRows \cup EnvelopeRows \cup {NoRow}]
      /\ row'[w] = k
  BY DEF TypeOK, Done
<1>2. /\ pc' \in [Workers -> {"idle", "own", "insert", "permit", "peer", "work", "commit"}]
      /\ pc'[w] = "commit"
  BY DEF TypeOK, Done, Goto
<1>3. Others(w) /\ op' = op /\ held' = held /\ snap' = snap
  BY DEF TypeOK, Done, Goto, Others
<1>4. \A v \in Workers : pc'[v] # "idle" => op'[v] \in Requests
  BY <1>3 DEF TypeOK, Others
<1> QED
  BY <1>1, <1>2, <1>3, <1>4 DEF TypeOK, LocalTypes

LEMMA RequestTypes ==
  ASSUME NEW r \in Requests
  PROVE  /\ r.uid \in Users /\ r.identity \in Identities /\ r.peer \in Users \cup {NoUser}
         /\ r.peer_identity \in Identities \cup {NoIdentity}
         /\ r.key \in Keys /\ r.body \in Bodies
         /\ r.op \in {"identity", "claim", "send"} <=> r.peer # NoUser
         /\ r.op \in {"publish", "ack"} => r.key \in Nat \ {0}
<1>1. r \in Request({r.key, r.body})
  BY PrivateChatAssumption
<1> QED
  BY <1>1, PrivateChatAssumption DEF Request, Keys, Bodies

(***************************************************************************)
(* The device locks.                                                       *)
(***************************************************************************)
LEMMA ReturnLocks ==
  ASSUME IInv, NEW w \in Workers, Return(w)
  PROVE  LocksOK'
<1>1. Others(w) /\ pc'[w] = "idle" /\ held'[w] = {}
  BY ReturnMoves DEF IInv
<1>2. HeldOK'
  BY <1>1 DEF IInv, LocksOK, HeldOK, Others, Peered
<1>3. Exclusive'
  BY <1>1 DEF IInv, LocksOK, Exclusive, Others
<1> QED
  BY <1>2, <1>3 DEF LocksOK

\* A step that leaves the locks alone and does not enter the permitted part.
LEMMA SameLocks ==
  ASSUME IInv, NEW w \in Workers, Others(w), held'[w] = held[w],
         \/ pc'[w] \in {"idle", "own"}
         \/ /\ op'[w] = op[w] /\ pc[w] = "permit" /\ pc'[w] = "peer"
         \/ /\ op'[w] = op[w] /\ pc[w] = "work" /\ pc'[w] = "commit"
  PROVE  LocksOK'
<1>1. HeldOK'
  BY DEF IInv, LocksOK, HeldOK, Others, Peered
<1>2. Exclusive'
  BY DEF IInv, LocksOK, Exclusive, Others
<1> QED
  BY <1>1, <1>2 DEF LocksOK

\* Locking a row that nobody else holds.
LEMMA HoldDevice ==
  ASSUME IInv, NEW w \in Workers, Others(w), NEW u \in Users,
         held'[w] = held[w] \cup {Device(u)},
         \A v \in Workers \ {w} : Device(u) \notin held[v]
  PROVE  Exclusive'
<1>1. ASSUME NEW v \in Workers, NEW x \in Users, Device(x) \in held'[w], Device(x) \in held'[v], v # w
      PROVE  FALSE
  <2>1. Device(x) \in held[v]
    BY <1>1 DEF Others
  <2>2. x # u
    BY <2>1, <1>1
  <2>3. Device(x) \in held[w]
    BY <1>1, <2>2 DEF Device
  <2> QED
    BY <1>1, <2>1, <2>3 DEF IInv, LocksOK, Exclusive
<1>2. ASSUME NEW v \in Workers, NEW v2 \in Workers, NEW x \in Users, v # w, v2 # w,
             Device(x) \in held'[v], Device(x) \in held'[v2]
      PROVE  v = v2
  BY <1>2 DEF IInv, LocksOK, Exclusive, Others
<1> QED
  BY <1>1, <1>2 DEF Exclusive

LEMMA HoldGap ==
  ASSUME IInv, NEW w \in Workers, Others(w), NEW u \in Users,
         held'[w] = held[w] \cup {Gap(u)}, pc'[w] = "insert", ~Peered(w)'
  PROVE  LocksOK'
<1>1. \A x \in Users, v \in Workers : Device(x) \in held'[v] => Device(x) \in held[v]
  BY DEF Others, Device, Gap
<1>2. Exclusive'
  BY <1>1 DEF IInv, LocksOK, Exclusive
<1>3. HeldOK'
  BY DEF IInv, LocksOK, HeldOK, Others, Peered
<1> QED
  BY <1>2, <1>3 DEF LocksOK

\* Two calls under their locks are about different users.
LEMMA Apart ==
  ASSUME IInv, NEW w \in Workers, NEW v \in Workers, w # v,
         pc[w] = "commit", pc[v] \in {"work", "commit"}
  PROVE  /\ op[w].uid # op[v].uid /\ op[w].uid # op[v].peer /\ op[w].peer # op[v].uid
         /\ op[w].peer # NoUser => op[w].peer # op[v].peer
<1>1. op[w] \in Requests /\ op[v] \in Requests
  BY DEF IInv, TypeOK
<1>2. /\ op[w].uid \in Users /\ op[v].uid \in Users /\ NoUser \notin Users
      /\ op[w].peer \in Users \cup {NoUser} /\ op[v].peer \in Users \cup {NoUser}
  BY <1>1, RequestTypes, PrivateChatAssumption
<1>3. /\ Device(op[w].uid) \in held[w] /\ Device(op[v].uid) \in held[v]
      /\ op[w].peer # NoUser => Device(op[w].peer) \in held[w]
      /\ op[v].peer # NoUser => Device(op[v].peer) \in held[v]
  BY DEF IInv, LocksOK, HeldOK, Peered
<1>4. \A u \in Users : ~(Device(u) \in held[w] /\ Device(u) \in held[v])
  BY DEF IInv, LocksOK, Exclusive
<1> QED
  BY <1>2, <1>3, <1>4

(***************************************************************************)
(* Steps that install nothing.                                             *)
(***************************************************************************)
LEMMA TablesKept ==
  ASSUME IInv, NEW w \in Workers, Others(w), UNCHANGED <<private_prekey, private_envelope, replies>>,
         next_sequence' \in {next_sequence, next_sequence + 1},
         PublishOK(w)', ClaimOK(w)', SendOK(w)', AckOK(w)',
         \A v \in Workers \ {w} : Fresh(w)' /\ Fresh(v) => row'[w].sequence # row[v].sequence
  PROVE  KeysOK' /\ MailOK' /\ PendingOK' /\ AnswersOK'
<1>0. next_sequence \in Nat
  BY DEF IInv, TypeOK
<1>1. KeysOK'
  BY DEF IInv, KeysOK, Own, SameKey, Answers
<1>2. MailOK'
  <2>1. \A e \in private_envelope : e.sequence \in Nat
    BY DEF IInv, TypeOK, EnvelopeRows
  <2>2. \A u : Waiting(u)' = Waiting(u)
    BY DEF Waiting
  <2> QED
    BY <1>0, <2>1, <2>2 DEF IInv, MailOK, SameMessage
<1>3. AnswersOK'
  BY DEF IInv, AnswersOK, ClaimAnswered, SendAnswered, AckAnswered, SameDigest, Answers
<1>4. ASSUME NEW v \in Workers \ {w}
      PROVE  PublishOK(v)' /\ ClaimOK(v)' /\ SendOK(v)' /\ AckOK(v)' /\ (Fresh(v)' <=> Fresh(v))
  <2>0. pc'[v] = pc[v] /\ op'[v] = op[v] /\ row'[v] = row[v] /\ v \in Workers
    BY <1>4 DEF Others
  <2>1. PublishOK(v)'
    <3>1. \A u : Own(u)' = Own(u)
      BY DEF Own
    <3>2. PublishOK(v)
      BY <2>0 DEF IInv, PendingOK
    <3> QED
      BY <2>0, <3>1, <3>2 DEF PublishOK, Committing, SameKey
  <2>2. ClaimOK(v)'
    <3>1. \A l : Takes(v, l)' <=> Takes(v, l)
      BY <2>0 DEF Takes, SameKey
    <3>2. \A k, x, y, z : Answers(k, x, y, z)' <=> Answers(k, x, y, z)
      BY DEF Answers
    <3>3. ClaimOK(v)
      BY <2>0 DEF IInv, PendingOK
    <3> QED
      BY <2>0, <3>1, <3>2, <3>3 DEF ClaimOK, Committing
  <2>3. Fresh(v)' <=> Fresh(v)
    BY <2>0 DEF Fresh, Committing
  <2>4. SendOK(v)'
    <3> SUFFICES ASSUME Committing(v, "send")
                 PROVE  SendOK(v)'
      BY <2>0 DEF SendOK, Committing
    <3>1. row[v] \in EnvelopeRows /\ row[v].sequence \in Nat /\ row[v].sequence < next_sequence
      BY <2>0 DEF IInv, PendingOK, SendOK, EnvelopeRows
    <3>2. row[v].sequence < next_sequence'
      BY <1>0, <3>1
    <3>3. SendOK(v) /\ (\A u : Waiting(u)' = Waiting(u))
      BY <2>0 DEF IInv, PendingOK, Waiting
    <3> QED
      BY <2>0, <2>3, <3>2, <3>3 DEF SendOK, SameMessage, SameDigest, Committing
  <2>5. AckOK(v)'
    <3>1. \A e, f : SameEnvelope(e, f)' <=> SameEnvelope(e, f)
      BY DEF SameEnvelope, SameMessage
    <3>2. AckOK(v)
      BY <2>0 DEF IInv, PendingOK
    <3> QED
      BY <2>0, <3>1, <3>2 DEF AckOK, Committing
  <2> QED
    BY <2>1, <2>2, <2>3, <2>4, <2>5
<1>5. PendingOK'
  <2>1. \A v \in Workers : PublishOK(v)' /\ ClaimOK(v)' /\ SendOK(v)' /\ AckOK(v)'
    BY <1>4
  <2>2. ASSUME NEW x \in Workers, NEW v \in Workers, Fresh(x)', Fresh(v)',
               row'[x].sequence = row'[v].sequence
        PROVE  x = v
    BY <1>4, <2>2 DEF IInv, PendingOK, Others
  <2> QED
    BY <2>1, <2>2 DEF PendingOK
<1> QED
  BY <1>1, <1>2, <1>3, <1>5

\* A step within a call, or one that ends it without a COMMIT.
LEMMA QuietKeeps ==
  ASSUME IInv, NEW w \in Workers, Others(w), pc'[w] # "commit",
         UNCHANGED <<private_prekey, private_envelope, replies, next_sequence>>
  PROVE  KeysOK' /\ MailOK' /\ PendingOK' /\ AnswersOK'
<1>1. PublishOK(w)' /\ ClaimOK(w)' /\ SendOK(w)' /\ AckOK(w)' /\ ~Fresh(w)'
  BY DEF PublishOK, ClaimOK, SendOK, AckOK, Fresh, Committing
<1> QED
  BY <1>1, TablesKept

\* The snapshots, when no new one is taken.
LEMMA SnapsKept ==
  ASSUME IInv, NEW w \in Workers, Others(w), snap' = snap,
         pc'[w] = "commit" /\ op'[w].op = "poll" /\ row'[w] # NoRow =>
           row'[w].sequence \notin snap[w].acked
  PROVE  SnapsOK' /\ NoRedelivery'
BY DEF IInv, SnapsOK, NoRedelivery, Others

Counters == calls \in 0 .. MaxCalls /\ faults \in 0 .. MaxFaults /\ blocks \in 0 .. MaxBlocks

LEMMA QuietStep ==
  ASSUME IInv, NEW w \in Workers, Others(w), LocalTypes', LocksOK', pc'[w] # "commit",
         snap' = snap, UNCHANGED <<tables, next_sequence, user_block, replies>>, Counters'
  PROVE  IInv'
<1>1. TypeOK'
  BY DEF IInv, TypeOK, LocalTypes, Counters, tables
<1>2. KeysOK' /\ MailOK' /\ PendingOK' /\ AnswersOK'
  BY QuietKeeps DEF tables
<1>3. SnapsOK' /\ NoRedelivery'
  BY SnapsKept
<1> QED
  BY <1>1, <1>2, <1>3 DEF IInv

LEMMA ReturnStep ==
  ASSUME IInv, NEW w \in Workers, Return(w),
         UNCHANGED <<tables, next_sequence, user_block, replies>>, Counters'
  PROVE  IInv'
BY ReturnMoves, ReturnLocks, QuietStep DEF IInv

LEMMA CountersKept ==
  ASSUME IInv, UNCHANGED <<calls, faults, blocks>>
  PROVE  Counters'
BY DEF IInv, TypeOK, Counters

LEMMA DoneStep ==
  ASSUME IInv, NEW w \in Workers, pc[w] = "work",
         NEW k \in PrekeyRows \cup EnvelopeRows \cup {NoRow}, Done(w, k), Rest,
         next_sequence' \in {next_sequence, next_sequence + 1},
         PublishOK(w)', ClaimOK(w)', SendOK(w)', AckOK(w)',
         \A v \in Workers \ {w} : Fresh(w)' /\ Fresh(v) => row'[w].sequence # row[v].sequence,
         op[w].op = "poll" /\ k # NoRow => k.sequence \notin snap[w].acked
  PROVE  IInv'
<1>0. /\ LocalTypes' /\ Others(w) /\ pc'[w] = "commit" /\ row'[w] = k
      /\ op' = op /\ held' = held /\ snap' = snap
  BY DoneMoves DEF IInv
<1>1. TypeOK'
  <2>1. next_sequence' \in Nat \ {0}
    BY DEF IInv, TypeOK
  <2> QED
    BY <1>0, <2>1 DEF IInv, TypeOK, LocalTypes, Rest, tables
<1>2. KeysOK' /\ MailOK' /\ PendingOK' /\ AnswersOK'
  BY <1>0, TablesKept DEF Rest, tables
<1>3. SnapsOK' /\ NoRedelivery'
  BY <1>0, SnapsKept
<1>4. LocksOK'
  BY <1>0, SameLocks
<1> QED
  BY <1>1, <1>2, <1>3, <1>4 DEF IInv

(***************************************************************************)
(* Up to the operation.                                                    *)
(***************************************************************************)
LEMMA BeginStep ==
  ASSUME IInv, NEW w \in Workers, NEW r \in Requests, Begin(w, r)
  PROVE  IInv'
<1> DEFINE s == [envelopes |-> private_envelope, prekeys |-> private_prekey,
                 blocks |-> user_block, acked |-> Acked]
<1>1. Acked \subseteq Keys
  BY DEF IInv, TypeOK, Acked, Keys
<1>2. s \in [envelopes: SUBSET EnvelopeRows, prekeys: SUBSET PrekeyRows,
             blocks: SUBSET (Users \X Users), acked: SUBSET Keys]
  BY <1>1 DEF IInv, TypeOK
<1>3. LocalTypes' /\ Others(w) /\ pc'[w] = "own" /\ held' = held /\ snap'[w] = s
  <2>1. /\ snap' \in [Workers -> [envelopes: SUBSET EnvelopeRows, prekeys: SUBSET PrekeyRows,
                                blocks: SUBSET (Users \X Users), acked: SUBSET Keys]]
        /\ snap'[w] = s
    BY <1>2 DEF IInv, TypeOK, Begin
  <2>2. /\ pc' \in [Workers -> {"idle", "own", "insert", "permit", "peer", "work", "commit"}]
        /\ pc'[w] = "own" /\ op'[w] = r
        /\ op' \in [Workers -> Requests \cup {NoRequest}]
    BY DEF IInv, TypeOK, Begin, Goto
  <2>3. held' = held /\ row' = row
    BY DEF Begin
  <2>4. Others(w)
    BY DEF IInv, TypeOK, Begin, Goto, Others
  <2>5. \A v \in Workers : pc'[v] # "idle" => op'[v] \in Requests
    BY <2>2, <2>4 DEF IInv, TypeOK, Others
  <2> QED
    BY <2>1, <2>2, <2>3, <2>4, <2>5 DEF IInv, TypeOK, LocalTypes
<1>4. UNCHANGED <<tables, next_sequence, user_block, replies>> /\ Counters'
  BY PrivateChatAssumption DEF IInv, TypeOK, Begin, Counters
<1>5. TypeOK'
  BY <1>3, <1>4 DEF IInv, TypeOK, LocalTypes, Counters, tables
<1>6. KeysOK' /\ MailOK' /\ PendingOK' /\ AnswersOK'
  BY <1>3, <1>4, QuietKeeps DEF tables
<1>7. LocksOK'
  BY <1>3, SameLocks
<1>8. SnapsOK'
  <2>1. ASSUME NEW e \in private_envelope, e.sequence \in Acked
        PROVE  e.acknowledged
    <3>1. PICK a \in replies : a.req.op = "ack" /\ a.row # NoRow /\ a.req.key = e.sequence
      BY <2>1 DEF Acked
    <3>2. PICK f \in private_envelope : f.sequence = a.req.key /\ f.acknowledged
      BY <3>1 DEF IInv, AnswersOK, AckAnswered
    <3>3. e = f
      BY <3>1, <3>2 DEF IInv, MailOK
    <3> QED
      BY <3>2, <3>3
  <2>2. \A e \in s.envelopes : e.sequence \in s.acked => e.acknowledged
    BY <2>1
  <2>3. ASSUME NEW v \in Workers
        PROVE  \A e \in snap'[v].envelopes : e.sequence \in snap'[v].acked => e.acknowledged
    <3>1. CASE v = w
      BY <1>3, <2>2, <3>1
    <3>2. CASE v # w
      BY <1>3, <3>2 DEF IInv, SnapsOK, Others
    <3> QED
      BY <3>1, <3>2
  <2> QED
    BY <2>3 DEF SnapsOK
<1>9. NoRedelivery'
  BY <1>3 DEF IInv, NoRedelivery, Others
<1> QED
  BY <1>5, <1>6, <1>7, <1>8, <1>9 DEF IInv

LEMMA DeviceIn ==
  ASSUME NEW u \in Users
  PROVE  Device(u) \in {"device", "gap"} \X Users /\ Gap(u) \in {"device", "gap"} \X Users
BY DEF Device, Gap

LEMMA OwnDeviceStep ==
  ASSUME IInv, NEW w \in Workers, OwnDevice(w)
  PROVE  IInv'
<1> DEFINE r == op[w]
<1>0. /\ pc[w] = "own" /\ Free(w) /\ r \in Requests /\ r.uid \in Users
      /\ UNCHANGED <<tables, next_sequence, user_block, replies>> /\ Counters'
  BY CountersKept, RequestTypes DEF OwnDevice, IInv, TypeOK
<1>1. CASE Return(w)
  BY <1>0, <1>1, ReturnStep
<1>2. CASE /\ r.op = "register"
           /\ Hold(w, Gap(r.uid)) /\ Goto(w, "insert") /\ UNCHANGED <<op, snap, row>>
  <2>1. LocalTypes' /\ Others(w) /\ pc'[w] = "insert" /\ held'[w] = held[w] \cup {Gap(r.uid)}
    BY <1>0, <1>2, LockMoves, DeviceIn DEF IInv
  <2>2. ~Peered(w)'
    BY <1>0, <1>2, RequestTypes DEF Peered
  <2> QED
    BY <1>0, <1>2, <2>1, <2>2, HoldGap, QuietStep
<1>3. CASE Hold(w, Device(r.uid)) /\ Goto(w, AfterOwn(r)) /\ UNCHANGED <<op, snap, row>>
  <2>1. /\ AfterOwn(r) \in {"work", "permit"}
        /\ AfterOwn(r) = "work" <=> r.peer = NoUser
    BY DEF AfterOwn
  <2>2. /\ LocalTypes' /\ Others(w) /\ pc'[w] = AfterOwn(r)
        /\ held'[w] = held[w] \cup {Device(r.uid)}
    BY <1>0, <1>3, <2>1, LockMoves, DeviceIn DEF IInv
  <2>3. \A v \in Workers \ {w} : Device(r.uid) \notin held[v]
    BY <1>0 DEF Free, WaitsFor, Needs
  <2>4. Exclusive'
    BY <1>0, <2>2, <2>3, HoldDevice
  <2>5. HeldOK'
    BY <1>3, <2>1, <2>2 DEF IInv, LocksOK, HeldOK, Others, Peered
  <2> QED
    BY <1>0, <1>3, <2>1, <2>2, <2>4, <2>5, QuietStep DEF LocksOK
<1> QED
  BY <1>1, <1>2, <1>3 DEF OwnDevice

LEMMA InsertDeviceStep ==
  ASSUME IInv, NEW w \in Workers, InsertDevice(w)
  PROVE  IInv'
<1> DEFINE r == op[w]
<1>0. /\ pc[w] = "insert" /\ Free(w) /\ r \in Requests /\ r.uid \in Users
      /\ UNCHANGED <<tables, next_sequence, user_block, replies>> /\ Counters'
      /\ Hold(w, Device(r.uid)) /\ Goto(w, "work") /\ UNCHANGED <<op, snap, row>>
  BY CountersKept, RequestTypes DEF InsertDevice, IInv, TypeOK
<1>1. LocalTypes' /\ Others(w) /\ pc'[w] = "work" /\ held'[w] = held[w] \cup {Device(r.uid)}
  BY <1>0, LockMoves, DeviceIn DEF IInv
<1>2. \A v \in Workers \ {w} : Device(r.uid) \notin held[v]
  BY <1>0 DEF Free, WaitsFor, Needs
<1>3. Exclusive'
  BY <1>0, <1>1, <1>2, HoldDevice
<1>4. r.peer = NoUser
  BY <1>0 DEF IInv, LocksOK, HeldOK, Peered
<1>5. HeldOK'
  BY <1>0, <1>1, <1>4 DEF IInv, LocksOK, HeldOK, Others, Peered
<1> QED
  BY <1>0, <1>1, <1>3, <1>5, QuietStep DEF LocksOK

LEMMA PermissionStep ==
  ASSUME IInv, NEW w \in Workers, Permission(w)
  PROVE  IInv'
<1>0. /\ pc[w] = "permit" /\ op[w] \in Requests
      /\ UNCHANGED <<tables, next_sequence, user_block, replies>> /\ Counters'
  BY CountersKept DEF Permission, IInv, TypeOK
<1>1. CASE Return(w)
  BY <1>0, <1>1, ReturnStep
<1>2. CASE Goto(w, "peer") /\ UNCHANGED <<held, op, snap, row>>
  <2>1. /\ pc' \in [Workers -> {"idle", "own", "insert", "permit", "peer", "work", "commit"}]
        /\ pc'[w] = "peer"
    BY <1>2 DEF IInv, TypeOK, Goto
  <2>2. Others(w)
    BY <1>2 DEF IInv, TypeOK, Goto, Others
  <2>3. LocalTypes'
    BY <1>0, <1>2, <2>1, <2>2 DEF IInv, TypeOK, LocalTypes, Others
  <2>4. LocksOK'
    BY <1>0, <1>2, <2>1, <2>2, SameLocks
  <2> QED
    BY <1>0, <1>2, <2>1, <2>2, <2>3, <2>4, QuietStep
<1> QED
  BY <1>1, <1>2 DEF Permission

LEMMA PeerDeviceStep ==
  ASSUME IInv, NEW w \in Workers, PeerDevice(w)
  PROVE  IInv'
<1> DEFINE r == op[w]
<1>0. /\ pc[w] = "peer" /\ Free(w) /\ r \in Requests /\ r.peer \in Users \cup {NoUser}
      /\ UNCHANGED <<tables, next_sequence, user_block, replies>> /\ Counters'
  BY CountersKept, RequestTypes DEF PeerDevice, IInv, TypeOK
<1>1. CASE Return(w)
  BY <1>0, <1>1, ReturnStep
<1>2. CASE /\ Hold(w, Device(r.peer)) /\ Goto(w, "work") /\ UNCHANGED <<op, snap, row>>
  <2>0. r.peer \in Users
    BY <1>0 DEF IInv, LocksOK, HeldOK, Peered
  <2>1. LocalTypes' /\ Others(w) /\ pc'[w] = "work" /\ held'[w] = held[w] \cup {Device(r.peer)}
    BY <1>0, <1>2, <2>0, LockMoves, DeviceIn DEF IInv
  <2>2. \A v \in Workers \ {w} : Device(r.peer) \notin held[v]
    BY <1>0 DEF Free, WaitsFor, Needs
  <2>3. Exclusive'
    BY <2>0, <2>1, <2>2, HoldDevice
  <2>4. HeldOK'
    BY <1>0, <1>2, <2>1 DEF IInv, LocksOK, HeldOK, Others, Peered
  <2> QED
    BY <1>0, <1>2, <2>1, <2>3, <2>4, QuietStep DEF LocksOK
<1> QED
  BY <1>1, <1>2 DEF PeerDevice

LEMMA DeadlockStep ==
  ASSUME IInv, NEW w \in Workers, Deadlock(w)
  PROVE  IInv'
BY ReturnStep, CountersKept DEF Deadlock

LEMMA DatabaseErrorStep ==
  ASSUME IInv, NEW w \in Workers, DatabaseError(w)
  PROVE  IInv'
<1>1. Counters'
  BY PrivateChatAssumption DEF IInv, TypeOK, Counters, DatabaseError
<1> QED
  BY <1>1, ReturnStep DEF DatabaseError

LEMMA BlockStep ==
  ASSUME IInv, NEW u \in Users, NEW v \in Users, Block(u, v)
  PROVE  IInv'
<1>0. UNCHANGED <<tables, next_sequence, call, replies, calls, faults>>
  BY DEF Block
<1>1. TypeOK'
  <2>1. user_block' \subseteq Users \X Users
    BY DEF IInv, TypeOK, Block
  <2>2. blocks' \in 0 .. MaxBlocks
    BY PrivateChatAssumption DEF IInv, TypeOK, Block
  <2> QED
    BY <1>0, <2>1, <2>2 DEF IInv, TypeOK, tables, call
<1>2. LocksOK'
  BY <1>0 DEF IInv, LocksOK, HeldOK, Exclusive, Peered, call
<1>3. KeysOK' /\ MailOK'
  <2>1. \A x : Waiting(x)' = Waiting(x) /\ Own(x)' = Own(x)
    BY <1>0 DEF Waiting, Own, tables
  <2> QED
    BY <1>0, <2>1 DEF IInv, KeysOK, MailOK, SameKey, SameMessage, Answers, tables
<1>4. PendingOK'
  <2>1. \A x \in Workers : PublishOK(x)' /\ ClaimOK(x)'
    BY <1>0 DEF IInv, PendingOK, PublishOK, ClaimOK, Takes, Committing, Own, SameKey, Answers,
        tables, call
  <2>2. \A x \in Workers : SendOK(x)' /\ (Fresh(x)' <=> Fresh(x))
    <3>1. \A x : Waiting(x)' = Waiting(x)
      BY <1>0 DEF Waiting, tables
    <3>2. \A x \in Workers : Fresh(x)' <=> Fresh(x)
      BY <1>0 DEF Fresh, Committing, tables, call
    <3> QED
      BY <1>0, <3>1, <3>2 DEF IInv, PendingOK, SendOK, Committing, SameMessage, SameDigest,
         tables, call
  <2>3. \A x \in Workers : AckOK(x)'
    BY <1>0 DEF IInv, PendingOK, AckOK, Committing, SameMessage, SameEnvelope, tables, call
  <2> QED
    BY <1>0, <2>1, <2>2, <2>3 DEF IInv, PendingOK, call
<1>5. AnswersOK'
  BY <1>0 DEF IInv, AnswersOK, ClaimAnswered, SendAnswered, AckAnswered, SameDigest, Answers,
      tables
<1>6. SnapsOK' /\ NoRedelivery'
  BY <1>0 DEF IInv, SnapsOK, NoRedelivery, call
<1> QED
  BY <1>1, <1>2, <1>3, <1>4, <1>5, <1>6 DEF IInv

(***************************************************************************)
(* The operations.                                                         *)
(***************************************************************************)
\* An operation that refuses the call.
LEMMA RefuseStep ==
  ASSUME IInv, NEW w \in Workers, Return(w), UNCHANGED next_sequence, Rest
  PROVE  IInv'
BY ReturnStep, CountersKept DEF Rest

\* An operation whose row is not a new envelope.
LEMMA PlainDoneStep ==
  ASSUME IInv, NEW w \in Workers, pc[w] = "work", op[w].op # "send",
         NEW k \in PrekeyRows \cup EnvelopeRows \cup {NoRow}, Done(w, k), Rest,
         UNCHANGED next_sequence,
         PublishOK(w)', ClaimOK(w)', AckOK(w)',
         op[w].op = "poll" /\ k # NoRow => k.sequence \notin snap[w].acked
  PROVE  IInv'
<1>1. op' = op
  BY DEF Done
<1>2. SendOK(w)' /\ ~Fresh(w)'
  BY <1>1 DEF SendOK, Fresh, Committing
<1> QED
  BY <1>2, DoneStep

LEMMA ReadOnlyStep ==
  ASSUME IInv, NEW w \in Workers, ReadOnly(w)
  PROVE  IInv'
<1>1. /\ pc[w] = "work" /\ op[w].op \in {"register", "identity"} /\ Done(w, NoRow)
      /\ UNCHANGED next_sequence /\ Rest
  BY DEF ReadOnly, Working
<1>2. op' = op
  BY <1>1 DEF Done
<1>3. PublishOK(w)' /\ ClaimOK(w)' /\ AckOK(w)'
  BY <1>1, <1>2 DEF PublishOK, ClaimOK, AckOK, Committing
<1> QED
  BY <1>1, <1>3, PlainDoneStep

LEMMA PublishStep ==
  ASSUME IInv, NEW w \in Workers, Publish(w)
  PROVE  IInv'
<1> DEFINE r == op[w]
           own == {k \in private_prekey : k.owner = r.uid}
           same == {k \in own : k.key_id = r.key}
<1>0. pc[w] = "work" /\ r.op = "publish" /\ UNCHANGED next_sequence /\ Rest
  BY DEF Publish, Working
<1>1. /\ r \in Requests /\ r.uid \in Users /\ r.key \in Nat \ {0} /\ r.body \in Bodies
  BY <1>0, RequestTypes DEF IInv, TypeOK
<1>2. CASE Return(w)
  BY <1>0, <1>2, RefuseStep
<1>3. ASSUME NEW k \in PrekeyRows, Done(w, k), k.owner = r.uid,
             \/ k \in private_prekey
             \/ /\ k.claimant = NoUser /\ \A l \in private_prekey : ~SameKey(l, k)
                /\ Cardinality(own) < MaxPrekeys
      PROVE  IInv'
  <2>1. op' = op /\ row'[w] = k /\ private_prekey' = private_prekey
    BY <1>0, <1>3, DoneMoves DEF IInv, Rest, tables
  <2>2. ClaimOK(w)' /\ AckOK(w)'
    BY <1>0, <2>1 DEF ClaimOK, AckOK, Committing
  <2>3. PublishOK(w)'
    BY <1>3, <2>1 DEF PublishOK, Own, SameKey
  <2> QED
    BY <1>0, <1>3, <2>2, <2>3, PlainDoneStep
<1>4. CASE \E k \in same : Done(w, k)
  BY <1>3, <1>4 DEF IInv, TypeOK
<1>5. CASE same = {} /\ Cardinality(own) < MaxPrekeys /\ Done(w, Prekey(r.uid, r.key, r.body))
  <2> DEFINE k == Prekey(r.uid, r.key, r.body)
  <2>1. k \in PrekeyRows /\ k.owner = r.uid /\ k.key_id = r.key /\ k.claimant = NoUser
    BY <1>1 DEF Prekey, PrekeyRows
  <2>2. \A l \in private_prekey : ~SameKey(l, k)
    BY <1>5, <2>1 DEF SameKey
  <2> HIDE DEF k
  <2> QED
    BY <1>3, <1>5, <2>1, <2>2 DEF k
<1> QED
  BY <1>2, <1>4, <1>5 DEF Publish

LEMMA ClaimStep ==
  ASSUME IInv, NEW w \in Workers, Claim(w)
  PROVE  IInv'
<1> DEFINE r == op[w]
           mine == {k \in private_prekey : k.owner = r.peer /\ k.claimant = r.uid /\ k.claim_id = r.key}
           free == {k \in private_prekey : k.owner = r.peer /\ k.claimant = NoUser}
<1>0. pc[w] = "work" /\ r.op = "claim" /\ UNCHANGED next_sequence /\ Rest
  BY DEF Claim, ClaimFrom, Working
<1>1. /\ r \in Requests /\ r.uid \in Users /\ r.key \in Keys
  BY <1>0, RequestTypes DEF IInv, TypeOK
<1>2. CASE Return(w)
  BY <1>0, <1>2, RefuseStep
<1>3. ASSUME NEW k \in PrekeyRows, Done(w, k), Answers(k, r.uid, r.peer, r.key),
             \/ k \in private_prekey
             \/ /\ \A l \in private_prekey : ~Answers(l, r.uid, r.peer, r.key)
                /\ \E l \in private_prekey : /\ l.owner = r.peer /\ l.claimant = NoUser
                                             /\ SameKey(k, l) /\ k.bundle = l.bundle
      PROVE  IInv'
  <2>1. op' = op /\ row'[w] = k /\ private_prekey' = private_prekey
    BY <1>0, <1>3, DoneMoves DEF IInv, Rest, tables
  <2>2. PublishOK(w)' /\ AckOK(w)'
    BY <1>0, <2>1 DEF PublishOK, AckOK, Committing
  <2>3. ClaimOK(w)'
    BY <1>3, <2>1 DEF ClaimOK, Takes, Answers, SameKey
  <2> QED
    BY <1>0, <1>3, <2>2, <2>3, PlainDoneStep
<1>4. CASE \E k \in mine : Done(w, k)
  BY <1>3, <1>4 DEF IInv, TypeOK, Answers
<1>5. CASE mine = {} /\ \E k \in free : Done(w, [k EXCEPT !.claimant = r.uid, !.claim_id = r.key])
  <2>1. PICK l \in free : Done(w, [l EXCEPT !.claimant = r.uid, !.claim_id = r.key])
    BY <1>5
  <2> DEFINE k == [l EXCEPT !.claimant = r.uid, !.claim_id = r.key]
  <2>2. l \in PrekeyRows
    BY DEF IInv, TypeOK
  <2>3. /\ k \in PrekeyRows /\ k.owner = l.owner /\ k.key_id = l.key_id /\ k.bundle = l.bundle
        /\ k.claimant = r.uid /\ k.claim_id = r.key
    BY <1>1, <2>2 DEF PrekeyRows
  <2>4. \A x \in private_prekey : ~Answers(x, r.uid, r.peer, r.key)
    BY <1>5 DEF Answers
  <2>5. Done(w, k)
    BY <2>1
  <2> HIDE DEF k
  <2>6. Answers(k, r.uid, r.peer, r.key) /\ SameKey(k, l)
    BY <2>3 DEF Answers, SameKey
  <2> QED
    BY <1>3, <2>3, <2>4, <2>5, <2>6
<1> QED
  BY <1>2, <1>4, <1>5 DEF Claim, ClaimFrom

\* The waiting envelopes of a recipient can be counted.
LEMMA WaitingFinite ==
  ASSUME IInv, NEW u
  PROVE  IsFiniteSet(Waiting(u)) /\ Cardinality(Waiting(u)) \in Nat
<1>1. IsFiniteSet(private_envelope) /\ Waiting(u) \subseteq private_envelope
  BY DEF IInv, MailOK, Waiting
<1> QED
  BY <1>1, FS_Subset, FS_CardinalityType

LEMMA SendStep ==
  ASSUME IInv, NEW w \in Workers, Send(w)
  PROVE  IInv'
<1> DEFINE r == op[w]
           same == {e \in private_envelope : e.sender = r.uid /\ e.id = r.key}
<1>0. pc[w] = "work" /\ r.op = "send" /\ Rest
  BY DEF Send, Working
<1>1. /\ r \in Requests /\ r.uid \in Users /\ r.peer \in Users /\ r.key \in Keys
      /\ r.body \in Bodies /\ r.identity \in Identities
      /\ r.peer_identity \in Identities \cup {NoIdentity}
  BY <1>0, RequestTypes DEF IInv, TypeOK
<1>2. next_sequence \in Nat \ {0}
  BY DEF IInv, TypeOK
<1>3. CASE Return(w) /\ UNCHANGED next_sequence
  BY <1>0, <1>3, RefuseStep
<1>4. ASSUME NEW k \in EnvelopeRows, Done(w, k), next_sequence' \in {next_sequence, next_sequence + 1},
             k.sequence < next_sequence', k.sender = r.uid, k.id = r.key, SameDigest(k, r),
             \/ k \in private_envelope
             \/ /\ k.sequence = next_sequence /\ ~k.acknowledged /\ same = {}
                /\ Cardinality(Waiting(r.peer)) < MaxInbox
      PROVE  IInv'
  <2>1. /\ op' = op /\ row'[w] = k /\ private_envelope' = private_envelope /\ pc'[w] = "commit"
    BY <1>0, <1>4, DoneMoves DEF IInv, Rest, tables
  <2>2. PublishOK(w)' /\ ClaimOK(w)' /\ AckOK(w)'
    BY <1>0, <2>1 DEF PublishOK, ClaimOK, AckOK, Committing
  <2>3. \A f \in private_envelope : f.sequence \in Nat /\ f.sequence < next_sequence
    BY DEF IInv, TypeOK, MailOK, EnvelopeRows
  <2>4. CASE k \in private_envelope
    <3>1. SendOK(w)'
      BY <1>4, <2>1, <2>4 DEF SendOK, SameDigest
    <3>2. ~Fresh(w)'
      BY <2>1, <2>4 DEF Fresh
    <3> QED
      BY <1>0, <1>4, <2>2, <3>1, <3>2, DoneStep
  <2>5. CASE /\ k.sequence = next_sequence /\ ~k.acknowledged /\ same = {}
             /\ Cardinality(Waiting(r.peer)) < MaxInbox
    <3>1. Fresh(w)'
      BY <1>0, <1>2, <2>1, <2>3, <2>5 DEF Fresh, Committing
    <3>2. \A f \in private_envelope : ~SameMessage(f, k)
      BY <1>4, <2>5 DEF SameMessage
    <3>3. SendOK(w)'
      BY <1>4, <2>1, <2>5, <3>1, <3>2 DEF SendOK, SameDigest, SameMessage, Waiting
    <3>4. \A v \in Workers \ {w} : Fresh(v) => k.sequence # row[v].sequence
      <4>1. \A v \in Workers : Fresh(v) => row[v].sequence < next_sequence /\ row[v].sequence \in Nat
        BY DEF IInv, PendingOK, SendOK, Fresh, EnvelopeRows
      <4> QED
        BY <1>2, <2>5, <4>1
    <3> QED
      BY <1>0, <1>4, <2>1, <2>2, <3>3, <3>4, DoneStep
  <2> QED
    BY <1>4, <2>4, <2>5
<1>5. CASE (\E e \in same : SameDigest(e, r) /\ Done(w, e)) /\ UNCHANGED next_sequence
  <2>1. PICK e \in same : SameDigest(e, r) /\ Done(w, e)
    BY <1>5
  <2>2. e \in EnvelopeRows /\ e.sequence < next_sequence
    BY DEF IInv, TypeOK, MailOK
  <2> QED
    BY <1>4, <1>5, <2>1, <2>2
<1>6. CASE /\ same = {} /\ ~(Cardinality(Waiting(r.peer)) >= MaxInbox)
           /\ Done(w, Envelope(r)) /\ next_sequence' = next_sequence + 1
  <2> DEFINE k == Envelope(r)
  <2>1. /\ k \in EnvelopeRows /\ k.sequence = next_sequence /\ k.sender = r.uid /\ k.id = r.key
        /\ SameDigest(k, r) /\ k.acknowledged = FALSE
    BY <1>1, <1>2 DEF Envelope, EnvelopeRows, SameDigest
  <2>2. Cardinality(Waiting(r.peer)) < MaxInbox
    BY <1>6, WaitingFinite, PrivateChatAssumption
  <2>3. next_sequence < next_sequence'
    BY <1>2, <1>6
  <2> HIDE DEF k
  <2> QED
    BY <1>4, <1>6, <2>1, <2>2, <2>3 DEF k
<1> QED
  BY <1>3, <1>5, <1>6 DEF Send

LEMMA PollStep ==
  ASSUME IInv, NEW w \in Workers, Poll(w)
  PROVE  IInv'
<1>0. pc[w] = "work" /\ op[w].op = "poll" /\ UNCHANGED next_sequence /\ Rest
  BY DEF Poll, Working
<1>1. ASSUME NEW k \in EnvelopeRows \cup {NoRow}, Done(w, k),
             k # NoRow => k.sequence \notin snap[w].acked
      PROVE  IInv'
  <2>1. op' = op
    BY <1>1 DEF Done
  <2>2. PublishOK(w)' /\ ClaimOK(w)' /\ AckOK(w)'
    BY <1>0, <2>1 DEF PublishOK, ClaimOK, AckOK, Committing
  <2> QED
    BY <1>0, <1>1, <2>2, PlainDoneStep
<1>2. CASE Done(w, NoRow)
  BY <1>1, <1>2
<1>3. CASE \E e \in snap[w].envelopes : ~e.acknowledged /\ Done(w, e)
  <2>1. PICK e \in snap[w].envelopes : ~e.acknowledged /\ Done(w, e)
    BY <1>3
  <2>2. e \in EnvelopeRows
    BY DEF IInv, TypeOK
  <2>3. e.sequence \notin snap[w].acked
    BY <2>1 DEF IInv, SnapsOK
  <2> QED
    BY <1>1, <2>1, <2>2, <2>3
<1> QED
  BY <1>2, <1>3 DEF Poll

LEMMA AckStep ==
  ASSUME IInv, NEW w \in Workers, Ack(w)
  PROVE  IInv'
<1> DEFINE r == op[w]
           mine == {e \in private_envelope : /\ e.sequence = r.key /\ e.recipient = r.uid
                                             /\ e.peer_identity = r.identity}
<1>0. pc[w] = "work" /\ r.op = "ack" /\ UNCHANGED next_sequence /\ Rest
  BY DEF Ack, Working
<1>1. ASSUME NEW k \in EnvelopeRows \cup {NoRow}, Done(w, k),
             k # NoRow =>
               /\ k \in EnvelopeRows /\ k.acknowledged
               /\ \E e \in private_envelope :
                    e.sequence = r.key /\ e.recipient = r.uid /\ SameEnvelope(k, e)
      PROVE  IInv'
  <2>1. op' = op /\ row'[w] = k /\ private_envelope' = private_envelope
    BY <1>0, <1>1, DoneMoves DEF IInv, Rest, tables
  <2>2. PublishOK(w)' /\ ClaimOK(w)'
    BY <1>0, <2>1 DEF PublishOK, ClaimOK, Committing
  <2>3. AckOK(w)'
    <3>1. \A e, f : SameEnvelope(e, f)' <=> SameEnvelope(e, f)
      BY DEF SameEnvelope, SameMessage
    <3> QED
      BY <1>1, <2>1, <3>1 DEF AckOK
  <2> QED
    BY <1>0, <1>1, <2>2, <2>3, PlainDoneStep
<1>2. CASE Done(w, NoRow)
  BY <1>1, <1>2
<1>3. CASE \E e \in mine : Done(w, [e EXCEPT !.acknowledged = TRUE])
  <2>1. PICK e \in mine : Done(w, [e EXCEPT !.acknowledged = TRUE])
    BY <1>3
  <2> DEFINE k == [e EXCEPT !.acknowledged = TRUE]
  <2>2. e \in EnvelopeRows
    BY DEF IInv, TypeOK
  <2>3. k \in EnvelopeRows /\ SameEnvelope(k, e) /\ k.acknowledged = TRUE
    BY <2>2 DEF EnvelopeRows, SameEnvelope, SameMessage
  <2>4. Done(w, k)
    BY <2>1
  <2> HIDE DEF k
  <2> QED
    BY <1>1, <2>3, <2>4
<1> QED
  BY <1>2, <1>3 DEF Ack

(***************************************************************************)
(* The COMMIT.                                                             *)
(***************************************************************************)
\* What a COMMIT does to the prekeys: nothing, a row more, or a claimed row
\* in place of the free one.
KeysChange(w) ==
  LET k == row[w] IN
  \/ private_prekey' = private_prekey
  \/ /\ op[w].op = "publish" /\ private_prekey' = private_prekey \cup {k}
     /\ k.claimant = NoUser /\ \A l \in private_prekey : ~SameKey(l, k)
     /\ Cardinality(Own(op[w].uid)) < MaxPrekeys
  \/ /\ op[w].op = "claim"
     /\ \A x \in private_prekey : ~Answers(x, op[w].uid, op[w].peer, op[w].key)
     /\ \E l \in private_prekey : /\ Takes(w, l)
                                  /\ private_prekey' = (private_prekey \ {l}) \cup {k}

LEMMA InstallChangesKeys ==
  ASSUME IInv, NEW w \in Workers, pc[w] = "commit", Install(w)
  PROVE  /\ KeysChange(w)
         /\ op[w].op \in {"publish", "claim"} =>
              /\ row[w] \in PrekeyRows /\ row[w] \in private_prekey'
              /\ row[w].owner = IF op[w].op = "publish" THEN op[w].uid ELSE op[w].peer
<1> DEFINE k == row[w]
<1>1. CASE op[w].op \notin {"publish", "claim"}
  BY <1>1 DEF Install, KeysChange
<1>2. ASSUME op[w].op \in {"publish", "claim"}
      PROVE  private_prekey' = {x \in private_prekey : ~SameKey(x, k)} \cup {k}
  BY <1>2 DEF Install, SameKey
<1>3. \A x, l \in private_prekey : SameKey(x, l) => x = l
  BY DEF IInv, KeysOK
<1>4. ASSUME op[w].op \in {"publish", "claim"}, k \in private_prekey
      PROVE  private_prekey' = private_prekey
  BY <1>2, <1>3, <1>4 DEF SameKey
<1>5. CASE op[w].op = "publish"
  <2>1. PublishOK(w) /\ Committing(w, "publish")
    BY <1>5 DEF IInv, PendingOK, Committing
  <2>2. k \in PrekeyRows /\ k.owner = op[w].uid
    BY <2>1 DEF PublishOK
  <2>3. CASE k \in private_prekey
    BY <1>2, <1>4, <1>5, <2>2, <2>3 DEF KeysChange
  <2>4. CASE k \notin private_prekey
    <3>1. /\ k.claimant = NoUser /\ \A l \in private_prekey : ~SameKey(l, k)
          /\ Cardinality(Own(op[w].uid)) < MaxPrekeys
      BY <2>1, <2>4 DEF PublishOK
    <3>2. private_prekey' = private_prekey \cup {k}
      BY <1>2, <1>5, <3>1
    <3> QED
      BY <1>5, <2>2, <3>1, <3>2 DEF KeysChange
  <2> QED
    BY <2>3, <2>4
<1>6. CASE op[w].op = "claim"
  <2>1. ClaimOK(w) /\ Committing(w, "claim")
    BY <1>6 DEF IInv, PendingOK, Committing
  <2>2. k \in PrekeyRows /\ k.owner = op[w].peer
    BY <2>1 DEF ClaimOK, Answers
  <2>3. CASE k \in private_prekey
    BY <1>2, <1>4, <1>6, <2>2, <2>3 DEF KeysChange
  <2>4. CASE k \notin private_prekey
    <3>1. \A x \in private_prekey : ~Answers(x, op[w].uid, op[w].peer, op[w].key)
      BY <2>1, <2>4 DEF ClaimOK
    <3>2. PICK l \in private_prekey : Takes(w, l)
      BY <2>1, <2>4 DEF ClaimOK
    <3>3. \A x \in private_prekey : SameKey(x, k) <=> x = l
      BY <1>3, <3>2 DEF Takes, SameKey
    <3>4. private_prekey' = (private_prekey \ {l}) \cup {k}
      BY <1>2, <1>6, <3>3
    <3> QED
      BY <1>6, <2>2, <3>1, <3>2, <3>4 DEF KeysChange
  <2> QED
    BY <2>3, <2>4
<1> QED
  BY <1>1, <1>5, <1>6

LEMMA OwnFinite ==
  ASSUME IInv, NEW u
  PROVE  IsFiniteSet(Own(u)) /\ Cardinality(Own(u)) \in Nat
<1>1. IsFiniteSet(private_prekey) /\ Own(u) \subseteq private_prekey
  BY DEF IInv, KeysOK, Own
<1> QED
  BY <1>1, FS_Subset, FS_CardinalityType

\* Exchanging an element of a finite set keeps its size.
LEMMA Exchange ==
  ASSUME NEW S, IsFiniteSet(S), NEW x \in S, NEW y, y \notin S
  PROVE  /\ IsFiniteSet((S \ {x}) \cup {y})
         /\ Cardinality((S \ {x}) \cup {y}) = Cardinality(S)
<1>1. IsFiniteSet(S \ {x}) /\ Cardinality(S \ {x}) = Cardinality(S) - 1 /\ Cardinality(S) \in Nat
  BY FS_RemoveElement, FS_CardinalityType
<1>2. y \notin S \ {x}
  OBVIOUS
<1>3. /\ IsFiniteSet((S \ {x}) \cup {y})
      /\ Cardinality((S \ {x}) \cup {y}) = Cardinality(S \ {x}) + 1
  BY <1>1, <1>2, FS_AddElement
<1> QED
  BY <1>1, <1>3

LEMMA InstallKeepsKeys ==
  ASSUME IInv, NEW w \in Workers, pc[w] = "commit", Install(w)
  PROVE  /\ KeysOK' /\ private_prekey' \subseteq PrekeyRows
         /\ \A x \in private_prekey : x.claimant # NoUser => x \in private_prekey'
         /\ \A x : x.owner \notin {op[w].uid, op[w].peer} =>
                     (x \in private_prekey' <=> x \in private_prekey)
<1> DEFINE k == row[w]
           r == op[w]
<1>0. /\ IsFiniteSet(private_prekey) /\ private_prekey \subseteq PrekeyRows
      /\ \A x, l \in private_prekey : SameKey(x, l) => x = l
      /\ \A x, l \in private_prekey :
           x.claimant # NoUser /\ Answers(x, l.claimant, l.owner, l.claim_id) => x = l
      /\ \A u \in Users : Cardinality(Own(u)) <= MaxPrekeys
  BY DEF IInv, TypeOK, KeysOK
<1>1. CASE private_prekey' = private_prekey
  BY <1>0, <1>1 DEF KeysOK, Own, SameKey, Answers
<1>2. CASE /\ r.op = "publish" /\ private_prekey' = private_prekey \cup {k}
           /\ k.claimant = NoUser /\ \A l \in private_prekey : ~SameKey(l, k)
           /\ Cardinality(Own(r.uid)) < MaxPrekeys
  <2>1. k \in PrekeyRows /\ k.owner = r.uid
    BY <1>2, InstallChangesKeys
  <2>2. k \notin private_prekey
    BY <1>2 DEF SameKey
  <2>3. \A u \in Users : Cardinality(Own(u))' <= MaxPrekeys
    <3>0. PICK me \in Users : me = r.uid
      BY <2>1 DEF PrekeyRows
    <3>1. /\ \A u : u # me => Own(u)' = Own(u)
          /\ Own(me)' = Own(me) \cup {k}
      <4>1. \A x : x \in private_prekey' <=> x \in private_prekey \/ x = k
        BY <1>2
      <4>2. k.owner = me
        BY <2>1, <3>0
      <4> HIDE DEF k
      <4> QED
        BY <4>1, <4>2 DEF Own
    <3>3. Cardinality(Own(me) \cup {k}) = Cardinality(Own(me)) + 1
      <4>1. IsFiniteSet(Own(me)) /\ k \notin Own(me)
        BY <2>2, OwnFinite DEF Own
      <4> QED
        BY <4>1, FS_AddElement
    <3>4. MaxPrekeys \in Nat /\ Cardinality(Own(me)) \in Nat
      BY OwnFinite, PrivateChatAssumption
    <3>5. Cardinality(Own(me))' <= MaxPrekeys
      BY <1>2, <3>0, <3>1, <3>3, <3>4
    <3> QED
      BY <1>0, <3>1, <3>5
  <2>4. IsFiniteSet(private_prekey')
    BY <1>0, <1>2, FS_AddElement
  <2>5. \A x, l \in private_prekey' : SameKey(x, l) => x = l
    BY <1>0, <1>2 DEF SameKey
  <2>6. \A x, l \in private_prekey' :
           x.claimant # NoUser /\ Answers(x, l.claimant, l.owner, l.claim_id) => x = l
    BY <1>0, <1>2 DEF Answers
  <2>7. KeysOK'
    BY <2>3, <2>4, <2>5, <2>6 DEF KeysOK, SameKey, Answers
  <2> QED
    BY <1>0, <1>2, <2>1, <2>7
<1>3. CASE /\ r.op = "claim"
           /\ \A x \in private_prekey : ~Answers(x, r.uid, r.peer, r.key)
           /\ \E l \in private_prekey : /\ Takes(w, l)
                                        /\ private_prekey' = (private_prekey \ {l}) \cup {k}
  <2>1. PICK l \in private_prekey :
          Takes(w, l) /\ private_prekey' = (private_prekey \ {l}) \cup {k}
    BY <1>3
  <2>2. /\ k \in PrekeyRows /\ k.owner = r.peer /\ Answers(k, r.uid, r.peer, r.key)
        /\ r.uid # NoUser
    <3>1. r.uid \in Users
      BY RequestTypes DEF IInv, TypeOK
    <3>2. Answers(k, r.uid, r.peer, r.key)
      BY <1>3 DEF IInv, PendingOK, ClaimOK, Committing
    <3> QED
      BY <1>3, <3>1, <3>2, InstallChangesKeys, PrivateChatAssumption
  <2>3. k \notin private_prekey
    BY <1>3, <2>2
  <2>4. l.owner = r.peer /\ l.claimant = NoUser /\ SameKey(k, l)
    BY <2>1 DEF Takes
  <2>5. IsFiniteSet(private_prekey')
    BY <1>0, <2>1, <2>3, Exchange
  <2>6. \A u \in Users : Cardinality(Own(u))' <= MaxPrekeys
    <3>1. ASSUME NEW u \in Users
          PROVE  Cardinality(Own(u))' = Cardinality(Own(u))
      <4>1. CASE u # r.peer
        <5>1. Own(u)' = Own(u)
          BY <2>1, <2>2, <2>4, <4>1 DEF Own
        <5> QED
          BY <5>1
      <4>2. CASE u = r.peer
        <5>1. Own(u)' = (Own(u) \ {l}) \cup {k}
          BY <2>1, <2>2, <2>4, <4>2 DEF Own
        <5>2. l \in Own(u) /\ k \notin Own(u)
          BY <2>3, <2>4, <4>2 DEF Own
        <5> QED
          BY <5>1, <5>2, OwnFinite, Exchange
      <4> QED
        BY <4>1, <4>2
    <3> QED
      BY <1>0, <3>1
  <2>7. \A x, y \in private_prekey' : SameKey(x, y) => x = y
    BY <1>0, <2>1, <2>4 DEF SameKey
  <2>8. \A x, y \in private_prekey' :
           x.claimant # NoUser /\ Answers(x, y.claimant, y.owner, y.claim_id) => x = y
    BY <1>0, <1>3, <2>1, <2>2 DEF Answers
  <2>9. KeysOK'
    BY <2>5, <2>6, <2>7, <2>8 DEF KeysOK, SameKey, Answers
  <2> QED
    BY <1>0, <2>1, <2>2, <2>4, <2>9
<1> QED
  BY <1>1, <1>2, <1>3, InstallChangesKeys DEF KeysChange

\* What a COMMIT does to the envelopes: nothing, a row more, or an
\* acknowledged row in place of the one it was read from.
MailChange(w) ==
  LET k == row[w] IN
  \/ private_envelope' = private_envelope
  \/ /\ op[w].op = "send" /\ private_envelope' = private_envelope \cup {k}
     /\ Fresh(w) /\ ~k.acknowledged
     /\ \A f \in private_envelope : ~SameMessage(f, k)
     /\ Cardinality(Waiting(op[w].peer)) < MaxInbox
  \/ /\ op[w].op = "ack" /\ k # NoRow /\ k.acknowledged
     /\ \E e \in private_envelope :
          /\ e.sequence = op[w].key /\ e.recipient = op[w].uid /\ SameEnvelope(k, e)
          /\ private_envelope' = (private_envelope \ {e}) \cup {k}

LEMMA InstallChangesMail ==
  ASSUME IInv, NEW w \in Workers, pc[w] = "commit", Install(w)
  PROVE  /\ MailChange(w)
         /\ op[w].op = "send" \/ (op[w].op = "ack" /\ row[w] # NoRow) =>
              row[w] \in EnvelopeRows /\ row[w] \in private_envelope'
<1> DEFINE k == row[w]
<1>1. CASE ~(op[w].op \in {"send", "ack"} /\ k # NoRow)
  <2>1. op[w].op # "send"
    BY <1>1, PrivateChatAssumption DEF IInv, PendingOK, SendOK, Committing
  <2> QED
    BY <1>1, <2>1 DEF Install, MailChange
<1>2. ASSUME op[w].op \in {"send", "ack"}, k # NoRow
      PROVE  private_envelope' = {x \in private_envelope : x.sequence # k.sequence} \cup {k}
  BY <1>2 DEF Install
<1>3. \A e, f \in private_envelope : e.sequence = f.sequence => e = f
  BY DEF IInv, MailOK
<1>4. CASE op[w].op = "send" /\ k # NoRow
  <2>1. SendOK(w) /\ Committing(w, "send")
    BY <1>4 DEF IInv, PendingOK, Committing
  <2>2. k \in EnvelopeRows /\ k \in private_envelope'
    BY <1>2, <1>4, <2>1 DEF SendOK
  <2>3. CASE k \in private_envelope
    BY <1>2, <1>3, <1>4, <2>2, <2>3 DEF MailChange
  <2>4. CASE k \notin private_envelope
    <3>1. /\ Fresh(w) /\ ~k.acknowledged
          /\ \A f \in private_envelope : ~SameMessage(f, k)
          /\ Cardinality(Waiting(op[w].peer)) < MaxInbox
      BY <2>1, <2>4 DEF SendOK
    <3>2. private_envelope' = private_envelope \cup {k}
      BY <1>2, <1>4, <3>1 DEF Fresh
    <3> QED
      BY <1>4, <2>2, <3>1, <3>2 DEF MailChange
  <2> QED
    BY <2>3, <2>4
<1>5. CASE op[w].op = "ack" /\ k # NoRow
  <2>1. AckOK(w) /\ Committing(w, "ack")
    BY <1>5 DEF IInv, PendingOK, Committing
  <2>2. k \in EnvelopeRows /\ k.acknowledged
    BY <1>5, <2>1 DEF AckOK
  <2>3. PICK e \in private_envelope :
          e.sequence = op[w].key /\ e.recipient = op[w].uid /\ SameEnvelope(k, e)
    BY <1>5, <2>1 DEF AckOK
  <2>4. \A x \in private_envelope : x.sequence = k.sequence <=> x = e
    BY <1>3, <2>3 DEF SameEnvelope
  <2>5. private_envelope' = (private_envelope \ {e}) \cup {k}
    BY <1>2, <1>5, <2>4
  <2> QED
    BY <1>5, <2>2, <2>3, <2>5 DEF MailChange
<1> QED
  BY <1>1, <1>4, <1>5

\* Whose inbox the COMMIT may change.
Inbox(w) == IF op[w].op = "send" THEN op[w].peer ELSE op[w].uid

LEMMA InstallKeepsMail ==
  ASSUME IInv, NEW w \in Workers, pc[w] = "commit", Install(w), UNCHANGED next_sequence
  PROVE  /\ MailOK' /\ private_envelope' \subseteq EnvelopeRows
         /\ \A e \in private_envelope : \E f \in private_envelope' :
              SameEnvelope(f, e) /\ (e.acknowledged => f.acknowledged)
         /\ \A x : x.recipient # Inbox(w) => (x \in private_envelope' <=> x \in private_envelope)
         /\ \A f \in private_envelope' :
              \/ \E e \in private_envelope : SameEnvelope(f, e)
              \/ f = row[w] /\ Fresh(w)
<1> DEFINE k == row[w]
           r == op[w]
<1>0. /\ IsFiniteSet(private_envelope) /\ private_envelope \subseteq EnvelopeRows
      /\ \A e \in private_envelope : e.sequence < next_sequence
      /\ \A e, f \in private_envelope : e.sequence = f.sequence => e = f
      /\ \A e, f \in private_envelope : SameMessage(e, f) => e = f
      /\ \A u \in Users : Cardinality(Waiting(u)) <= MaxInbox
  BY DEF IInv, TypeOK, MailOK
<1>1. CASE private_envelope' = private_envelope
  <2>1. \A u : Waiting(u)' = Waiting(u)
    BY <1>1 DEF Waiting
  <2>2. MailOK'
    BY <1>0, <1>1, <2>1 DEF MailOK, SameMessage
  <2> QED
    BY <1>0, <1>1, <2>2 DEF SameEnvelope, SameMessage
<1>2. CASE /\ r.op = "send" /\ private_envelope' = private_envelope \cup {k}
           /\ Fresh(w) /\ ~k.acknowledged
           /\ \A f \in private_envelope : ~SameMessage(f, k)
           /\ Cardinality(Waiting(r.peer)) < MaxInbox
  <2>0. Committing(w, "send") /\ SendOK(w)
    BY <1>2 DEF Fresh, IInv, PendingOK
  <2>1. k \in EnvelopeRows /\ k.sequence < next_sequence /\ k.recipient = r.peer
    BY <2>0 DEF SendOK, SameDigest
  <2>2. \A f \in private_envelope : f.sequence # k.sequence
    BY <1>2 DEF Fresh
  <2>3. \A u \in Users : Cardinality(Waiting(u))' <= MaxInbox
    <3>0. PICK me \in Users : me = r.peer
      BY <2>1 DEF EnvelopeRows
    <3>1. /\ \A u : u # me => Waiting(u)' = Waiting(u)
          /\ Waiting(me)' = Waiting(me) \cup {k}
      <4>1. \A x : x \in private_envelope' <=> x \in private_envelope \/ x = k
        BY <1>2
      <4>2. k.recipient = me /\ ~k.acknowledged
        BY <1>2, <2>1, <3>0
      <4> HIDE DEF k
      <4> QED
        BY <4>1, <4>2 DEF Waiting
    <3>2. k \notin Waiting(me)
      BY <2>2 DEF Waiting
    <3>3. Cardinality(Waiting(me) \cup {k}) = Cardinality(Waiting(me)) + 1
      BY <3>2, WaitingFinite, FS_AddElement
    <3>4. MaxInbox \in Nat /\ Cardinality(Waiting(me)) \in Nat
      BY WaitingFinite, PrivateChatAssumption
    <3>5. Cardinality(Waiting(me))' <= MaxInbox
      BY <1>2, <3>0, <3>1, <3>3, <3>4
    <3> QED
      BY <1>0, <3>1, <3>5
  <2>4. IsFiniteSet(private_envelope')
    BY <1>0, <1>2, FS_AddElement
  <2>5. \A e \in private_envelope' : e.sequence < next_sequence'
    BY <1>0, <1>2, <2>1
  <2>6. \A e, f \in private_envelope' : e.sequence = f.sequence => e = f
    BY <1>0, <1>2, <2>2
  <2>7. \A e, f \in private_envelope' : SameMessage(e, f) => e = f
    BY <1>0, <1>2 DEF SameMessage
  <2>8. MailOK'
    BY <2>3, <2>4, <2>5, <2>6, <2>7 DEF MailOK, SameMessage
  <2>9. Inbox(w) = r.peer
    BY <1>2 DEF Inbox
  <2> QED
    BY <1>0, <1>2, <2>1, <2>8, <2>9 DEF SameEnvelope, SameMessage
<1>3. CASE /\ r.op = "ack" /\ k # NoRow /\ k.acknowledged
           /\ \E e \in private_envelope :
                /\ e.sequence = r.key /\ e.recipient = r.uid /\ SameEnvelope(k, e)
                /\ private_envelope' = (private_envelope \ {e}) \cup {k}
  <2>1. PICK e \in private_envelope :
          /\ e.recipient = r.uid /\ SameEnvelope(k, e)
          /\ private_envelope' = (private_envelope \ {e}) \cup {k}
    BY <1>3
  <2>2. k \in EnvelopeRows
    BY <1>3, InstallChangesMail
  <2>3. \A x : x \in private_envelope' <=> (x \in private_envelope /\ x # e) \/ x = k
    BY <2>1
  <2>4. IsFiniteSet(private_envelope')
    <3>1. IsFiniteSet(private_envelope \ {e})
      BY <1>0, FS_RemoveElement
    <3> QED
      BY <2>1, <3>1, FS_AddElement
  <2>5. \A u \in Users : Cardinality(Waiting(u))' <= MaxInbox
    <3>1. ASSUME NEW u \in Users
          PROVE  Cardinality(Waiting(u))' <= Cardinality(Waiting(u))
      <4>1. Waiting(u)' \subseteq Waiting(u)
        BY <1>3, <2>3 DEF Waiting
      <4>2. IsFiniteSet(Waiting(u))
        BY WaitingFinite
      <4> QED
        BY <4>1, <4>2, FS_Subset
    <3>2. ASSUME NEW u \in Users
          PROVE  Cardinality(Waiting(u))' \in Nat /\ Cardinality(Waiting(u)) \in Nat
      <4>1. IsFiniteSet(Waiting(u)')
        BY <2>4, FS_Subset DEF Waiting
      <4> QED
        BY <4>1, WaitingFinite, FS_CardinalityType
    <3> QED
      BY <1>0, <3>1, <3>2, PrivateChatAssumption
  <2>6. \A x \in private_envelope' : x.sequence < next_sequence'
    BY <1>0, <2>1, <2>3 DEF SameEnvelope
  <2>7. \A x, y \in private_envelope' : x.sequence = y.sequence => x = y
    BY <1>0, <2>1, <2>3 DEF SameEnvelope
  <2>8. \A x, y \in private_envelope' : SameMessage(x, y) => x = y
    BY <1>0, <2>1, <2>3 DEF SameEnvelope, SameMessage
  <2>9. MailOK'
    BY <2>4, <2>5, <2>6, <2>7, <2>8 DEF MailOK, SameMessage
  <2>10. Inbox(w) = r.uid /\ k.recipient = r.uid
    BY <1>3, <2>1 DEF Inbox, SameEnvelope
  <2>11. \A x : x.recipient # Inbox(w) => (x \in private_envelope' <=> x \in private_envelope)
    BY <2>1, <2>3, <2>10
  <2>12. \A x \in private_envelope : \E f \in private_envelope' :
           SameEnvelope(f, x) /\ (x.acknowledged => f.acknowledged)
    <3>1. \A x : SameEnvelope(x, x)
      BY DEF SameEnvelope, SameMessage
    <3> QED
      BY <1>3, <2>1, <2>3, <3>1
  <2>13. \A f \in private_envelope' : \E x \in private_envelope : SameEnvelope(f, x)
    <3>1. \A x : SameEnvelope(x, x)
      BY DEF SameEnvelope, SameMessage
    <3> QED
      BY <2>1, <2>3, <3>1
  <2> QED
    BY <1>0, <2>2, <2>3, <2>9, <2>11, <2>12, <2>13
<1> QED
  BY <1>1, <1>2, <1>3, InstallChangesMail DEF MailChange

\* The other calls at their COMMIT are about other owners and other inboxes.
LEMMA InstallKeepsPending ==
  ASSUME IInv, NEW w \in Workers, pc[w] = "commit", Install(w), Return(w), UNCHANGED next_sequence
  PROVE  PendingOK'
<1>0. Others(w) /\ pc'[w] = "idle"
  BY ReturnMoves DEF IInv
<1>1. PublishOK(w)' /\ ClaimOK(w)' /\ SendOK(w)' /\ AckOK(w)' /\ ~Fresh(w)'
  BY <1>0 DEF PublishOK, ClaimOK, SendOK, AckOK, Fresh, Committing
<1>2. ASSUME NEW v \in Workers, v # w
      PROVE  PublishOK(v)' /\ ClaimOK(v)' /\ SendOK(v)' /\ AckOK(v)' /\ (Fresh(v)' => Fresh(v))
  <2>0. pc'[v] = pc[v] /\ op'[v] = op[v] /\ row'[v] = row[v]
    BY <1>0, <1>2 DEF Others
  <2>1. /\ \A x : x.owner \notin {op[w].uid, op[w].peer} =>
                    (x \in private_prekey' <=> x \in private_prekey)
        /\ \A x : x.recipient # Inbox(w) => (x \in private_envelope' <=> x \in private_envelope)
        /\ \A f \in private_envelope' :
             \/ \E e \in private_envelope : SameEnvelope(f, e)
             \/ f = row[w] /\ Fresh(w)
        /\ \A e \in private_envelope : \E f \in private_envelope' : SameEnvelope(f, e)
    BY InstallKeepsKeys, InstallKeepsMail
  <2>2. CASE pc[v] # "commit"
    BY <2>0, <2>2 DEF PublishOK, ClaimOK, SendOK, AckOK, Fresh, Committing
  <2>3. CASE pc[v] = "commit"
    <3>0. /\ op[w].uid # op[v].uid /\ op[w].uid # op[v].peer /\ op[w].peer # op[v].uid
          /\ op[w].peer # NoUser => op[w].peer # op[v].peer
      BY <1>2, <2>3, Apart
    <3>1. op[v] \in Requests /\ op[w] \in Requests
      BY <2>3 DEF IInv, TypeOK
    <3>2. PublishOK(v)'
      <4> SUFFICES ASSUME Committing(v, "publish")
                   PROVE  PublishOK(v)'
        BY <2>0 DEF PublishOK, Committing
      <4>1. PublishOK(v)
        BY DEF IInv, PendingOK
      <4>2. \A x : x.owner = op[v].uid => (x \in private_prekey' <=> x \in private_prekey)
        BY <2>1, <3>0
      <4>3. row[v].owner = op[v].uid
        BY <4>1 DEF PublishOK
      <4>4. \A u : u = op[v].uid => Own(u)' = Own(u)
        BY <4>2 DEF Own
      <4>5. row[v] \in private_prekey => row[v] \in private_prekey'
        BY <4>2, <4>3
      <4>6. (\A l \in private_prekey : ~SameKey(l, row[v]))
              => (\A l \in private_prekey' : ~SameKey(l, row[v]))
        BY <4>2, <4>3 DEF SameKey
      <4> QED
        BY <2>0, <4>1, <4>4, <4>5, <4>6 DEF PublishOK, SameKey
    <3>3. ClaimOK(v)'
      <4> SUFFICES ASSUME Committing(v, "claim")
                   PROVE  ClaimOK(v)'
        BY <2>0 DEF ClaimOK, Committing
      <4>1. ClaimOK(v)
        BY DEF IInv, PendingOK
      <4>2. op[v].peer \notin {op[w].uid, op[w].peer}
        BY <3>0, <3>1, RequestTypes DEF Committing
      <4>3. \A x : x.owner = op[v].peer => (x \in private_prekey' <=> x \in private_prekey)
        BY <2>1, <4>2
      <4>4. Answers(row[v], op[v].uid, op[v].peer, op[v].key) /\ row[v] \in PrekeyRows
        BY <4>1 DEF ClaimOK
      <4>5. row[v] \in private_prekey => row[v] \in private_prekey'
        BY <4>3, <4>4 DEF Answers
      <4>6. (\E l \in private_prekey : Takes(v, l)) => (\E l \in private_prekey' : Takes(v, l))
        BY <4>3 DEF Takes
      <4>7. (\A l \in private_prekey : ~Answers(l, op[v].uid, op[v].peer, op[v].key))
              => (\A l \in private_prekey' : ~Answers(l, op[v].uid, op[v].peer, op[v].key))
        BY <4>3 DEF Answers
      <4>8. /\ \A l : Takes(v, l)' <=> Takes(v, l)
            /\ \A k, x, y, z : Answers(k, x, y, z)' <=> Answers(k, x, y, z)
        BY <2>0 DEF Takes, SameKey, Answers
      <4> QED
        BY <2>0, <4>1, <4>4, <4>5, <4>6, <4>7, <4>8 DEF ClaimOK
    <3>4. Fresh(v)' => Fresh(v)
      BY <2>0, <2>1 DEF Fresh, Committing, SameEnvelope
    <3>5. SendOK(v)'
      <4> SUFFICES ASSUME Committing(v, "send")
                   PROVE  SendOK(v)'
        BY <2>0 DEF SendOK, Committing
      <4>1. SendOK(v)
        BY DEF IInv, PendingOK
      <4>2. op[v].peer # Inbox(w)
        BY <3>0, <3>1, RequestTypes DEF Committing, Inbox
      <4>3. \A x : x.recipient = op[v].peer => (x \in private_envelope' <=> x \in private_envelope)
        BY <2>1, <4>2
      <4>4. /\ row[v].recipient = op[v].peer /\ row[v].sender = op[v].uid
            /\ row[v].id = op[v].key /\ SameDigest(row[v], op[v]) /\ row[v] \in EnvelopeRows
            /\ row[v].sequence < next_sequence
        BY <4>1 DEF SendOK, SameDigest
      <4>5. CASE row[v] \in private_envelope
        <5>1. row[v] \in private_envelope'
          BY <4>3, <4>4, <4>5
        <5> QED
          BY <2>0, <4>4, <5>1 DEF SendOK, SameDigest
      <4>6. CASE row[v] \notin private_envelope
        <5>1. /\ Fresh(v) /\ ~row[v].acknowledged
              /\ \A f \in private_envelope : ~SameMessage(f, row[v])
              /\ Cardinality(Waiting(op[v].peer)) < MaxInbox
          BY <4>1, <4>6 DEF SendOK
        <5>2. \A u : u = op[v].peer => Waiting(u)' = Waiting(u)
          BY <4>3 DEF Waiting
        <5>3. Fresh(w) => row[w].sequence # row[v].sequence /\ row[w].sender = op[w].uid
          BY <1>2, <5>1 DEF IInv, PendingOK, SendOK, Fresh
        <5>4. \A f \in private_envelope' : f.sequence # row[v].sequence
          BY <2>1, <5>1, <5>3 DEF Fresh, SameEnvelope
        <5>5. \A f \in private_envelope' : ~SameMessage(f, row[v])
          BY <2>1, <3>0, <4>4, <5>1, <5>3 DEF SameEnvelope, SameMessage
        <5>6. Fresh(v)'
          BY <2>0, <5>4 DEF Fresh, Committing
        <5> QED
          BY <2>0, <4>4, <5>1, <5>2, <5>5, <5>6 DEF SendOK, SameDigest, SameMessage
      <4> QED
        BY <4>5, <4>6
    <3>6. AckOK(v)'
      <4> SUFFICES ASSUME Committing(v, "ack"), row[v] # NoRow
                   PROVE  AckOK(v)'
        BY <2>0 DEF AckOK, Committing
      <4>1. row[v] \in EnvelopeRows /\ row[v].acknowledged
        BY DEF IInv, PendingOK, AckOK
      <4>2. PICK e \in private_envelope :
              e.sequence = op[v].key /\ e.recipient = op[v].uid /\ SameEnvelope(row[v], e)
        BY DEF IInv, PendingOK, AckOK
      <4>3. PICK f \in private_envelope' : SameEnvelope(f, e)
        BY <2>1
      <4>4. f.sequence = op[v].key /\ f.recipient = op[v].uid /\ SameEnvelope(row[v], f)
        BY <4>2, <4>3 DEF SameEnvelope, SameMessage
      <4>5. \A x, y : SameEnvelope(x, y)' <=> SameEnvelope(x, y)
        BY DEF SameEnvelope, SameMessage
      <4> QED
        BY <2>0, <4>1, <4>4, <4>5 DEF AckOK
    <3> QED
      BY <3>2, <3>3, <3>4, <3>5, <3>6
  <2> QED
    BY <2>2, <2>3
<1>3. \A v \in Workers : PublishOK(v)' /\ ClaimOK(v)' /\ SendOK(v)' /\ AckOK(v)'
  BY <1>1, <1>2
<1>4. ASSUME NEW x \in Workers, NEW v \in Workers, Fresh(x)', Fresh(v)',
             row'[x].sequence = row'[v].sequence
      PROVE  x = v
  BY <1>0, <1>1, <1>2, <1>4 DEF IInv, PendingOK, Others
<1> QED
  BY <1>3, <1>4 DEF PendingOK

LEMMA InstallKeepsAnswers ==
  ASSUME IInv, NEW w \in Workers, pc[w] = "commit", Install(w), UNCHANGED next_sequence,
         replies' \in {replies, replies \cup {[req |-> op[w], row |-> row[w]]}}
  PROVE  AnswersOK'
<1>0. /\ \A x \in private_prekey : x.claimant # NoUser => x \in private_prekey'
      /\ \A e \in private_envelope : \E f \in private_envelope' :
           SameEnvelope(f, e) /\ (e.acknowledged => f.acknowledged)
  BY InstallKeepsKeys, InstallKeepsMail
<1>1. ASSUME NEW r \in replies
      PROVE  ClaimAnswered(r)' /\ SendAnswered(r)' /\ AckAnswered(r)'
  <2>0. ClaimAnswered(r) /\ SendAnswered(r) /\ AckAnswered(r) /\ r.req \in Requests
    BY DEF IInv, AnswersOK, TypeOK
  <2>1. ClaimAnswered(r)'
    BY <1>0, <2>0, RequestTypes, PrivateChatAssumption DEF ClaimAnswered, Answers
  <2>2. SendAnswered(r)'
    BY <1>0, <2>0 DEF SendAnswered, SameDigest, SameEnvelope, SameMessage
  <2>3. AckAnswered(r)'
    BY <1>0, <2>0 DEF AckAnswered, SameEnvelope
  <2> QED
    BY <2>1, <2>2, <2>3
<1>2. ASSUME NEW r, r = [req |-> op[w], row |-> row[w]]
      PROVE  ClaimAnswered(r)' /\ SendAnswered(r)' /\ AckAnswered(r)'
  <2>0. r.req = op[w] /\ r.row = row[w]
    BY <1>2
  <2>1. ClaimAnswered(r)'
    <3> SUFFICES ASSUME Committing(w, "claim")
                 PROVE  row[w] \in private_prekey' /\
                        Answers(row[w], op[w].uid, op[w].peer, op[w].key)
      BY <2>0 DEF ClaimAnswered, Answers, Committing
    <3> QED
      BY InstallChangesKeys DEF IInv, PendingOK, ClaimOK, Committing
  <2>2. SendAnswered(r)'
    <3> SUFFICES ASSUME Committing(w, "send")
                 PROVE  /\ row[w] \in private_envelope' /\ SameDigest(row[w], op[w])
                        /\ row[w].sender = op[w].uid /\ row[w].id = op[w].key
      BY <2>0 DEF SendAnswered, SameDigest, Committing
    <3> QED
      BY InstallChangesMail DEF IInv, PendingOK, SendOK, Committing
  <2>3. AckAnswered(r)'
    <3> SUFFICES ASSUME Committing(w, "ack"), row[w] # NoRow
                 PROVE  /\ row[w] \in private_envelope' /\ row[w].acknowledged
                        /\ row[w].sequence = op[w].key
      BY <2>0 DEF AckAnswered, Committing
    <3>1. row[w] \in private_envelope'
      BY InstallChangesMail DEF Committing
    <3>2. row[w].acknowledged
      BY DEF IInv, PendingOK, AckOK
    <3>3. row[w].sequence = op[w].key
      BY DEF IInv, PendingOK, AckOK, SameEnvelope
    <3> QED
      BY <3>1, <3>2, <3>3
  <2> QED
    BY <2>1, <2>2, <2>3
<1> QED
  BY <1>1, <1>2 DEF AnswersOK

LEMMA InstallStep ==
  ASSUME IInv, NEW w \in Workers, pc[w] = "commit", Install(w), Return(w),
         UNCHANGED <<next_sequence, user_block>>, Counters',
         replies' \in {replies, replies \cup {[req |-> op[w], row |-> row[w]]}}
  PROVE  IInv'
<1>0. /\ op[w] \in Requests /\ row[w] \in PrekeyRows \cup EnvelopeRows \cup {NoRow}
      /\ op[w].uid \in Users /\ op[w].identity \in Identities
  BY RequestTypes DEF IInv, TypeOK
<1>1. LocalTypes' /\ Others(w) /\ pc'[w] = "idle" /\ snap' = snap
  BY ReturnMoves DEF IInv
<1>2. TypeOK'
  <2>1. private_device' \in [Users -> Identities \cup {NoIdentity}]
    BY <1>0 DEF IInv, TypeOK, Install
  <2>2. private_prekey' \subseteq PrekeyRows /\ private_envelope' \subseteq EnvelopeRows
    BY InstallKeepsKeys, InstallKeepsMail
  <2>3. replies' \subseteq [req: Requests, row: PrekeyRows \cup EnvelopeRows \cup {NoRow}]
    BY <1>0 DEF IInv, TypeOK
  <2> QED
    BY <1>1, <2>1, <2>2, <2>3 DEF IInv, TypeOK, LocalTypes, Counters
<1>3. LocksOK'
  BY ReturnLocks
<1>4. KeysOK' /\ MailOK' /\ PendingOK' /\ AnswersOK'
  BY InstallKeepsKeys, InstallKeepsMail, InstallKeepsPending, InstallKeepsAnswers
<1>5. SnapsOK' /\ NoRedelivery'
  BY <1>1, SnapsKept
<1> QED
  BY <1>2, <1>3, <1>4, <1>5 DEF IInv

LEMMA CommitStep ==
  ASSUME IInv, NEW w \in Workers, Commit(w)
  PROVE  IInv'
BY InstallStep, CountersKept DEF Commit

LEMMA CommitReplyLostStep ==
  ASSUME IInv, NEW w \in Workers, CommitReplyLost(w)
  PROVE  IInv'
<1>1. Counters'
  BY PrivateChatAssumption DEF IInv, TypeOK, Counters, CommitReplyLost
<1> QED
  BY <1>1, InstallStep DEF CommitReplyLost

(***************************************************************************)
(* The invariant is inductive.                                             *)
(***************************************************************************)
LEMMA InitIInv ==
  ASSUME Init
  PROVE  IInv
<1>1. TypeOK
  <2>1. [envelopes |-> {}, prekeys |-> {}, blocks |-> {}, acked |-> {}] \in
          [envelopes: SUBSET EnvelopeRows, prekeys: SUBSET PrekeyRows,
           blocks: SUBSET (Users \X Users), acked: SUBSET Keys]
    OBVIOUS
  <2> QED
    BY <2>1, PrivateChatAssumption, Prekeys0Assumption DEF Init, TypeOK
<1>2. LocksOK
  BY DEF Init, LocksOK, HeldOK, Exclusive, Peered
<1>3. KeysOK
  <2>1. \A k, l \in Prekeys0 : SameKey(k, l) => k = l
    BY Prekeys0Assumption DEF SameKey
  <2>2. \A u \in Users : Cardinality(Own(u)) <= MaxPrekeys
    BY Prekeys0Assumption DEF Init, Own
  <2> QED
    BY <2>1, <2>2, Prekeys0Assumption DEF Init, KeysOK
<1>4. MailOK
  <2>1. \A u : Waiting(u) = {}
    BY DEF Init, Waiting
  <2>2. IsFiniteSet({}) /\ Cardinality({}) = 0
    BY FS_EmptySet
  <2>3. MaxInbox \in Nat
    BY PrivateChatAssumption
  <2> QED
    BY <2>1, <2>2, <2>3 DEF Init, MailOK
<1>5. PendingOK
  BY DEF Init, PendingOK, PublishOK, ClaimOK, SendOK, AckOK, Fresh, Committing
<1>6. AnswersOK /\ SnapsOK /\ NoRedelivery
  BY DEF Init, AnswersOK, SnapsOK, NoRedelivery
<1> QED
  BY <1>1, <1>2, <1>3, <1>4, <1>5, <1>6 DEF IInv

LEMMA StutterIInv ==
  ASSUME IInv, UNCHANGED vars
  PROVE  IInv'
<1>0. UNCHANGED <<tables, next_sequence, user_block, call, replies, calls, faults, blocks>>
  BY DEF vars
<1>1. TypeOK' /\ LocksOK' /\ SnapsOK' /\ NoRedelivery'
  BY <1>0 DEF IInv, TypeOK, LocksOK, HeldOK, Exclusive, Peered, SnapsOK, NoRedelivery, tables, call
<1>2. KeysOK' /\ MailOK' /\ PendingOK' /\ AnswersOK'
  <2>1. CASE Workers = {}
    <3>1. \A x : Waiting(x)' = Waiting(x) /\ Own(x)' = Own(x)
      BY <1>0 DEF Waiting, Own, tables
    <3> QED
      BY <1>0, <2>1, <3>1 DEF IInv, KeysOK, MailOK, PendingOK, AnswersOK, SameKey, SameMessage,
         Answers, ClaimAnswered, SendAnswered, AckAnswered, SameDigest, tables
  <2>2. CASE Workers # {}
    <3>1. PICK w \in Workers : TRUE
      BY <2>2
    <3>2. Others(w)
      BY <1>0 DEF Others, call
    <3>3. /\ \A x, y : (SameKey(x, y)' <=> SameKey(x, y)) /\ (SameEnvelope(x, y)' <=> SameEnvelope(x, y))
          /\ \A x : Own(x)' = Own(x) /\ Waiting(x)' = Waiting(x)
          /\ \A l : Takes(w, l)' <=> Takes(w, l)
      BY <1>0 DEF SameKey, SameEnvelope, SameMessage, Own, Waiting, Takes, tables, call
    <3>4. (PublishOK(w)' /\ ClaimOK(w)' /\ SendOK(w)' /\ AckOK(w)') /\ (Fresh(w)' <=> Fresh(w))
      <4>1. PublishOK(w) /\ ClaimOK(w) /\ SendOK(w) /\ AckOK(w)
        BY DEF IInv, PendingOK
      <4>2. Fresh(w)' <=> Fresh(w)
        BY <1>0 DEF Fresh, Committing, tables, call
      <4>3. PublishOK(w)' /\ ClaimOK(w)'
        BY <1>0, <3>3, <4>1 DEF PublishOK, ClaimOK, Committing, Answers, tables, call
      <4>4. SendOK(w)' /\ AckOK(w)'
        BY <1>0, <3>3, <4>1, <4>2 DEF SendOK, AckOK, Committing, SameDigest, SameMessage, tables, call
      <4> QED
        BY <4>2, <4>3, <4>4
    <3>5. \A v \in Workers \ {w} : Fresh(w)' /\ Fresh(v) => row'[w].sequence # row[v].sequence
      BY <1>0, <3>4 DEF IInv, PendingOK, call
    <3> QED
      BY <1>0, <3>2, <3>4, <3>5, TablesKept DEF tables
  <2> QED
    BY <2>1, <2>2
<1> QED
  BY <1>1, <1>2 DEF IInv

LEMMA NextIInv ==
  ASSUME IInv, [Next]_vars
  PROVE  IInv'
<1>1. ASSUME NEW w \in Workers, NEW r \in Requests, Begin(w, r)
      PROVE  IInv'
  BY <1>1, BeginStep
<1>2. ASSUME NEW w \in Workers, Step(w)
      PROVE  IInv'
  BY <1>2, OwnDeviceStep, InsertDeviceStep, PermissionStep, PeerDeviceStep, ReadOnlyStep,
     PublishStep, ClaimStep, SendStep, PollStep, AckStep, CommitStep, DeadlockStep DEF Step
<1>3. ASSUME NEW w \in Workers, DatabaseError(w) \/ CommitReplyLost(w)
      PROVE  IInv'
  BY <1>3, DatabaseErrorStep, CommitReplyLostStep
<1>4. ASSUME NEW u \in Users, NEW v \in Users, Block(u, v)
      PROVE  IInv'
  BY <1>4, BlockStep
<1>5. CASE UNCHANGED vars
  BY <1>5, StutterIInv
<1> QED
  BY <1>1, <1>2, <1>3, <1>4, <1>5 DEF Next

(***************************************************************************)
(* The theorems.                                                           *)
(***************************************************************************)
\* What the device locks protect: at a COMMIT the rows a call computed its own
\* from are still those of the tables, in every interleaving of the gateways.
THEOREM Invariance == Spec => []IInv
<1>1. Init => IInv
  BY InitIInv
<1>2. IInv /\ [Next]_vars => IInv'
  BY NextIInv
<1> QED
  BY <1>1, <1>2, PTL DEF Spec

\* Rows, locks, snapshots and answers keep their types.
THEOREM TypeCorrect == Spec => []TypeOK
<1>1. IInv => TypeOK
  BY DEF IInv
<1> QED
  BY <1>1, Invariance, PTL

\* Two answered claims carry one bundle exactly when they are one claim: a key
\* bundle reaches one peer once, however often and wherever it is asked for.
THEOREM PrekeysAreOneTime == Spec => []OneTimeKeys
<1>1. ASSUME IInv, NEW a \in replies, NEW b \in replies, a.req.op = "claim", b.req.op = "claim"
      PROVE  (a.row.owner = b.row.owner /\ a.row.key_id = b.row.key_id)
               <=> (a.req.uid = b.req.uid /\ a.req.peer = b.req.peer /\ a.req.key = b.req.key)
  <2>1. /\ a.row \in private_prekey /\ Answers(a.row, a.req.uid, a.req.peer, a.req.key)
        /\ b.row \in private_prekey /\ Answers(b.row, b.req.uid, b.req.peer, b.req.key)
    BY <1>1 DEF IInv, AnswersOK, ClaimAnswered
  <2>2. a.req.uid # NoUser
    BY <1>1, RequestTypes, PrivateChatAssumption DEF IInv, TypeOK
  <2>3. SameKey(a.row, b.row) => a.row = b.row
    BY <1>1, <2>1 DEF IInv, KeysOK
  <2>4. ASSUME a.req.uid = b.req.uid, a.req.peer = b.req.peer, a.req.key = b.req.key
        PROVE  a.row = b.row
    BY <1>1, <2>1, <2>2, <2>4 DEF IInv, KeysOK, Answers
  <2> QED
    BY <2>1, <2>3, <2>4 DEF SameKey, Answers
<1>2. IInv => OneTimeKeys
  BY <1>1 DEF OneTimeKeys
<1> QED
  BY <1>2, Invariance, PTL

\* A message id of a sender names one envelope for ever, and a send that was
\* answered with success is that envelope with the content that was sent.
THEOREM EnvelopesAreSentOnce == Spec => []SentOnce
<1>1. IInv => SentOnce
  BY DEF IInv, SentOnce, MailOK, SameMessage, AnswersOK, SendAnswered
<1> QED
  BY <1>1, Invariance, PTL

\* No interleaving of gateways exceeds the quota of prekeys of an owner or of
\* waiting envelopes of a recipient.
THEOREM QuotasHold == Spec => []WithinQuota
<1>1. IInv => WithinQuota
  BY DEF IInv, WithinQuota, KeysOK, MailOK, Own
<1> QED
  BY <1>1, Invariance, PTL

\* A poll never delivers what an ack had answered for before the poll began.
THEOREM AcknowledgedIsNotRedelivered == Spec => []NoRedelivery
<1>1. IInv => NoRedelivery
  BY DEF IInv
<1> QED
  BY <1>1, Invariance, PTL

(***************************************************************************)
(* Registration: there may be no device row to lock yet.                   *)
(***************************************************************************)
\* A call with the gap of u is one that registers u for the first time: there is no
\* row, and as long as the call has the gap nobody else locks or inserts it.
GapsOK ==
  \A w \in Workers, u \in Users : Gap(u) \in held[w] =>
    /\ pc[w] \in {"insert", "work", "commit"} /\ op[w].op = "register" /\ op[w].uid = u
    /\ private_device[u] = NoIdentity
    /\ \A v \in Workers : Device(u) \in held[v] => v = w

\* What a registration has locked is its own row, or no row.
RegistersOK ==
  \A w \in Workers :
    /\ pc[w] = "insert" => Gap(op[w].uid) \in held[w]
    /\ pc[w] \in {"work", "commit"} /\ op[w].op = "register" =>
         private_device[op[w].uid] \in {NoIdentity, op[w].identity}

DeviceInv == GapsOK /\ RegistersOK

LEMMA NoMix ==
  ASSUME NEW u, NEW x
  PROVE  Device(u) # Gap(x) /\ (Device(u) = Device(x) <=> u = x) /\ (Gap(u) = Gap(x) <=> u = x)
BY DEF Device, Gap

\* A step of w that takes no lock.
LEMMA UnlockedKeeps ==
  ASSUME IInv, DeviceInv, NEW w \in Workers, Others(w), private_device' = private_device,
         \/ held'[w] = {} /\ pc'[w] = "idle"
         \/ held'[w] = held[w] /\ pc[w] = "idle" /\ pc'[w] = "own"
         \/ /\ held'[w] = held[w] /\ op'[w] = op[w]
            /\ \/ pc[w] = "permit" /\ pc'[w] = "peer"
               \/ pc[w] = "work" /\ pc'[w] = "commit"
  PROVE  DeviceInv'
<1>1. \A v \in Workers : held'[v] \subseteq held[v]
  BY DEF Others
<1>2. GapsOK'
  <2>1. ASSUME NEW v \in Workers, NEW u \in Users, Gap(u) \in held'[v]
        PROVE  /\ pc'[v] \in {"insert", "work", "commit"}
               /\ op'[v].op = "register" /\ op'[v].uid = u
               /\ private_device[u] = NoIdentity
               /\ \A x \in Workers : Device(u) \in held'[x] => x = v
    <3>1. /\ pc[v] \in {"insert", "work", "commit"} /\ op[v].op = "register" /\ op[v].uid = u
          /\ private_device[u] = NoIdentity
          /\ \A x \in Workers : Device(u) \in held[x] => x = v
      BY <1>1, <2>1 DEF DeviceInv, GapsOK
    <3> QED
      BY <1>1, <2>1, <3>1 DEF Others
  <2> QED
    BY <2>1 DEF GapsOK
<1>3. RegistersOK'
  BY DEF DeviceInv, RegistersOK, Others
<1> QED
  BY <1>2, <1>3 DEF DeviceInv

LEMMA OwnDeviceKeeps ==
  ASSUME IInv, DeviceInv, NEW w \in Workers, OwnDevice(w)
  PROVE  DeviceInv'
<1> DEFINE r == op[w]
<1>0. /\ r \in Requests /\ r.uid \in Users /\ pc[w] = "own" /\ private_device' = private_device
      /\ \A u \in Users : Gap(u) \notin held[w]
      /\ \A v \in Workers \ {w} : Device(r.uid) \notin held[v]
  <2>1. pc[w] = "own" /\ Free(w) /\ private_device' = private_device
    BY DEF OwnDevice, tables
  <2>2. r \in Requests /\ r.uid \in Users
    BY <2>1, RequestTypes DEF IInv, TypeOK
  <2>3. \A v \in Workers \ {w} : Device(r.uid) \notin held[v]
    BY <2>1 DEF Free, WaitsFor, Needs
  <2> QED
    BY <2>1, <2>2, <2>3 DEF DeviceInv, GapsOK
<1>1. CASE Return(w)
  BY <1>0, <1>1, ReturnMoves, UnlockedKeeps DEF IInv
<1>2. CASE /\ private_device[r.uid] = NoIdentity /\ r.op = "register"
           /\ Hold(w, Gap(r.uid)) /\ Goto(w, "insert") /\ UNCHANGED <<op, snap, row>>
  <2>1. Others(w) /\ pc'[w] = "insert" /\ held'[w] = held[w] \cup {Gap(r.uid)} /\ op' = op
    <3>1. Gap(r.uid) \in {"device", "gap"} \X Users
      BY <1>0 DEF Gap
    <3> QED
      BY <1>0, <1>2, <3>1, LockMoves DEF IInv
  <2>2. \A v \in Workers, u \in Users : Device(u) \in held'[v] => Device(u) \in held[v]
    BY <2>1, NoMix DEF Others
  <2>3. Device(r.uid) \in held[w] => \A v \in Workers : Device(r.uid) \in held[v] => v = w
    BY <1>0
  <2>4. ASSUME NEW v \in Workers, NEW u \in Users, Gap(u) \in held'[v]
        PROVE  /\ pc'[v] \in {"insert", "work", "commit"}
               /\ op'[v].op = "register" /\ op'[v].uid = u
               /\ private_device[u] = NoIdentity
               /\ \A x \in Workers : Device(u) \in held'[x] => x = v
    <3>1. CASE v = w
      <4>1. u = r.uid
        BY <1>0, <2>1, <2>4, <3>1, NoMix
      <4> QED
        BY <1>0, <1>2, <2>1, <2>2, <3>1, <4>1
    <3>2. CASE v # w
      <4>1. Gap(u) \in held[v]
        BY <2>1, <2>4, <3>2 DEF Others
      <4> QED
        BY <2>1, <2>2, <3>2, <4>1 DEF DeviceInv, GapsOK, Others
    <3> QED
      BY <3>1, <3>2
  <2>5. GapsOK'
    BY <1>0, <2>4 DEF GapsOK
  <2>6. RegistersOK'
    BY <1>0, <2>1 DEF DeviceInv, RegistersOK, Others
  <2> QED
    BY <2>5, <2>6 DEF DeviceInv
<1>3. CASE /\ private_device[r.uid] = r.identity
           /\ Hold(w, Device(r.uid)) /\ Goto(w, AfterOwn(r)) /\ UNCHANGED <<op, snap, row>>
  <2>0. /\ AfterOwn(r) \in {"permit", "work"} /\ r.identity # NoIdentity
        /\ Device(r.uid) \in {"device", "gap"} \X Users
    BY <1>0, RequestTypes, PrivateChatAssumption DEF AfterOwn, Device
  <2>1. /\ Others(w) /\ pc'[w] = AfterOwn(r) /\ held'[w] = held[w] \cup {Device(r.uid)}
        /\ op' = op
    BY <1>0, <1>3, <2>0, LockMoves DEF IInv
  <2>2. ASSUME NEW v \in Workers, NEW u \in Users, Gap(u) \in held'[v]
        PROVE  /\ pc'[v] \in {"insert", "work", "commit"}
               /\ op'[v].op = "register" /\ op'[v].uid = u
               /\ private_device[u] = NoIdentity
               /\ \A x \in Workers : Device(u) \in held'[x] => x = v
    <3>1. v # w /\ Gap(u) \in held[v]
      BY <1>0, <2>1, <2>2, NoMix DEF Others
    <3>2. private_device[u] = NoIdentity /\ u # r.uid
      BY <1>3, <2>0, <3>1 DEF DeviceInv, GapsOK
    <3>3. \A x \in Workers : Device(u) \in held'[x] => Device(u) \in held[x]
      BY <2>1, <3>2, NoMix DEF Others
    <3> QED
      BY <2>1, <3>1, <3>2, <3>3 DEF DeviceInv, GapsOK, Others
  <2>3. GapsOK'
    BY <1>0, <2>2 DEF GapsOK
  <2>4. RegistersOK'
    BY <1>0, <1>3, <2>0, <2>1 DEF DeviceInv, RegistersOK, Others
  <2> QED
    BY <2>3, <2>4 DEF DeviceInv
<1> QED
  BY <1>1, <1>2, <1>3 DEF OwnDevice

LEMMA InsertDeviceKeeps ==
  ASSUME IInv, DeviceInv, NEW w \in Workers, InsertDevice(w)
  PROVE  DeviceInv'
<1> DEFINE u0 == op[w].uid
<1>1. /\ op[w] \in Requests /\ u0 \in Users /\ pc[w] = "insert"
      /\ private_device' = private_device
      /\ \A v \in Workers \ {w} : Device(u0) \notin held[v] /\ Gap(u0) \notin held[v]
  <2>1. pc[w] = "insert" /\ Free(w) /\ private_device' = private_device
    BY DEF InsertDevice, tables
  <2>2. op[w] \in Requests /\ u0 \in Users
    BY <2>1, RequestTypes DEF IInv, TypeOK
  <2> QED
    BY <2>1, <2>2 DEF Free, WaitsFor, Needs
<1>2. Others(w) /\ pc'[w] = "work" /\ held'[w] = held[w] \cup {Device(u0)} /\ op' = op
  <2>1. Device(u0) \in {"device", "gap"} \X Users
    BY <1>1 DEF Device
  <2> QED
    BY <1>1, <2>1, LockMoves DEF InsertDevice, IInv
<1>3. ASSUME NEW v \in Workers, NEW u \in Users, Gap(u) \in held'[v]
      PROVE  /\ pc'[v] \in {"insert", "work", "commit"}
             /\ op'[v].op = "register" /\ op'[v].uid = u
             /\ private_device[u] = NoIdentity
             /\ \A x \in Workers : Device(u) \in held'[x] => x = v
  <2>1. Gap(u) \in held[v]
    BY <1>2, <1>3, NoMix DEF Others
  <2>2. \A x \in Workers : Device(u) \in held'[x] => Device(u) \in held[x] \/ (x = w /\ u = u0)
    BY <1>2, NoMix DEF Others
  <2>3. u = u0 => v = w
    BY <1>1, <2>1
  <2> QED
    BY <1>2, <2>1, <2>2, <2>3 DEF DeviceInv, GapsOK, Others
<1>4. GapsOK'
  BY <1>1, <1>3 DEF GapsOK
<1>5. private_device[u0] = NoIdentity
  BY <1>1 DEF DeviceInv, RegistersOK, GapsOK
<1>6. RegistersOK'
  BY <1>1, <1>2, <1>5 DEF DeviceInv, RegistersOK, Others
<1> QED
  BY <1>4, <1>6 DEF DeviceInv

LEMMA PeerDeviceKeeps ==
  ASSUME IInv, DeviceInv, NEW w \in Workers, PeerDevice(w)
  PROVE  DeviceInv'
<1> DEFINE p == op[w].peer
<1>1. /\ op[w] \in Requests /\ p \in Users /\ op[w].op # "register" /\ pc[w] = "peer"
      /\ private_device' = private_device
  <2>1. pc[w] = "peer" /\ private_device' = private_device /\ op[w] \in Requests /\ p # NoUser
    BY DEF PeerDevice, tables, IInv, TypeOK, LocksOK, HeldOK, Peered
  <2> QED
    BY <2>1, RequestTypes
<1>2. CASE Return(w)
  BY <1>1, <1>2, ReturnMoves, UnlockedKeeps DEF IInv
<1>3. CASE /\ private_device[p] # NoIdentity
           /\ Hold(w, Device(p)) /\ Goto(w, "work") /\ UNCHANGED <<op, snap, row>>
  <2>1. Others(w) /\ pc'[w] = "work" /\ held'[w] = held[w] \cup {Device(p)} /\ op' = op
    <3>1. Device(p) \in {"device", "gap"} \X Users
      BY <1>1 DEF Device
    <3> QED
      BY <1>1, <1>3, <3>1, LockMoves DEF IInv
  <2>2. ASSUME NEW v \in Workers, NEW u \in Users, Gap(u) \in held'[v]
        PROVE  /\ pc'[v] \in {"insert", "work", "commit"}
               /\ op'[v].op = "register" /\ op'[v].uid = u
               /\ private_device[u] = NoIdentity
               /\ \A x \in Workers : Device(u) \in held'[x] => x = v
    <3>1. Gap(u) \in held[v]
      BY <2>1, <2>2, NoMix DEF Others
    <3>2. private_device[u] = NoIdentity /\ u # p /\ v # w
      BY <1>1, <1>3, <3>1 DEF DeviceInv, GapsOK
    <3>3. \A x \in Workers : Device(u) \in held'[x] => Device(u) \in held[x]
      BY <2>1, <3>2, NoMix DEF Others
    <3> QED
      BY <2>1, <3>1, <3>2, <3>3 DEF DeviceInv, GapsOK, Others
  <2>3. GapsOK'
    BY <1>1, <2>2 DEF GapsOK
  <2>4. RegistersOK'
    BY <1>1, <2>1 DEF DeviceInv, RegistersOK, Others
  <2> QED
    BY <2>3, <2>4 DEF DeviceInv
<1> QED
  BY <1>2, <1>3 DEF PeerDevice

\* A COMMIT of a registration writes the identity over nothing or over itself.
LEMMA RegisterWrites ==
  ASSUME IInv, DeviceInv, NEW w \in Workers, pc[w] = "commit", Install(w)
  PROVE  /\ \A u \in Users : \/ private_device'[u] = private_device[u]
                             \/ /\ op[w].op = "register" /\ u = op[w].uid
                                /\ private_device[u] = NoIdentity
                                /\ private_device'[u] = op[w].identity
         /\ op[w].uid \in Users
<1>1. op[w] \in Requests /\ op[w].uid \in Users
  BY RequestTypes DEF IInv, TypeOK
<1>2. CASE op[w].op # "register"
  BY <1>1, <1>2 DEF Install
<1>3. CASE op[w].op = "register"
  <2>1. private_device' = [private_device EXCEPT ![op[w].uid] = op[w].identity]
    BY <1>3 DEF Install
  <2>2. private_device[op[w].uid] \in {NoIdentity, op[w].identity}
    BY <1>3 DEF DeviceInv, RegistersOK
  <2> QED
    BY <1>1, <1>3, <2>1, <2>2 DEF IInv, TypeOK
<1> QED
  BY <1>2, <1>3

LEMMA InstallKeeps ==
  ASSUME IInv, DeviceInv, NEW w \in Workers, pc[w] = "commit", Install(w), Return(w)
  PROVE  DeviceInv'
<1>1. Others(w) /\ pc'[w] = "idle" /\ held'[w] = {}
  BY ReturnMoves DEF IInv
<1>2. /\ op[w].uid \in Users /\ Device(op[w].uid) \in held[w]
      /\ \A u \in Users : private_device'[u] = private_device[u] \/ u = op[w].uid
  BY RegisterWrites DEF IInv, LocksOK, HeldOK
<1>3. ASSUME NEW v \in Workers \ {w}, pc[v] \in {"work", "commit"} PROVE op[v].uid # op[w].uid
  BY <1>3, Apart
<1>4. ASSUME NEW v \in Workers, NEW u \in Users, Gap(u) \in held'[v]
      PROVE  /\ pc'[v] \in {"insert", "work", "commit"}
             /\ op'[v].op = "register" /\ op'[v].uid = u
             /\ private_device'[u] = NoIdentity
             /\ \A x \in Workers : Device(u) \in held'[x] => x = v
  <2>1. v # w /\ Gap(u) \in held[v]
    BY <1>1, <1>4 DEF Others
  <2>2. u # op[w].uid
    BY <1>2, <2>1 DEF DeviceInv, GapsOK
  <2> QED
    BY <1>1, <1>2, <2>1, <2>2 DEF DeviceInv, GapsOK, Others
<1>5. GapsOK'
  BY <1>4 DEF GapsOK
<1>6. RegistersOK'
  <2>1. ASSUME NEW v \in Workers \ {w}, pc[v] \in {"work", "commit"}
        PROVE  private_device'[op[v].uid] = private_device[op[v].uid]
    <3>1. op[v].uid \in Users
      BY <2>1, RequestTypes DEF IInv, TypeOK
    <3> QED
      BY <1>2, <1>3, <2>1, <3>1
  <2> QED
    BY <1>1, <2>1 DEF DeviceInv, RegistersOK, Others
<1> QED
  BY <1>5, <1>6 DEF DeviceInv

\* The operations write no device and take no lock.
LEMMA OperationKeeps ==
  ASSUME IInv, DeviceInv, NEW w \in Workers,
         ReadOnly(w) \/ Publish(w) \/ Claim(w) \/ Send(w) \/ Poll(w) \/ Ack(w)
  PROVE  DeviceInv'
<1>1. pc[w] = "work" /\ (Return(w) \/ \E k : Done(w, k)) /\ private_device' = private_device
  BY DEF ReadOnly, Publish, Claim, ClaimFrom, Send, Poll, Ack, Working, Rest, tables
<1>2. CASE Return(w)
  BY <1>1, <1>2, ReturnMoves, UnlockedKeeps DEF IInv
<1>3. ASSUME NEW k, Done(w, k) PROVE DeviceInv'
  <2>1. pc'[w] = "commit" /\ held' = held /\ op' = op /\ Others(w)
    BY <1>3 DEF Done, Goto, Others, IInv, TypeOK
  <2> QED
    BY <1>1, <2>1, UnlockedKeeps
<1> QED
  BY <1>1, <1>2, <1>3

LEMMA DeviceStep ==
  ASSUME IInv, DeviceInv, [Next]_vars
  PROVE  DeviceInv'
<1>1. ASSUME NEW w \in Workers, NEW r \in Requests, Begin(w, r) PROVE DeviceInv'
  <2>1. /\ Others(w) /\ pc[w] = "idle" /\ pc'[w] = "own" /\ held' = held
        /\ private_device' = private_device
    BY <1>1 DEF Begin, Goto, Others, tables, IInv, TypeOK
  <2> QED
    BY <2>1, UnlockedKeeps
<1>2. ASSUME NEW w \in Workers, Permission(w) PROVE DeviceInv'
  <2>1. pc[w] = "permit" /\ private_device' = private_device
    BY <1>2 DEF Permission, tables
  <2>2. CASE Return(w)
    BY <2>1, <2>2, ReturnMoves, UnlockedKeeps DEF IInv
  <2>3. CASE Goto(w, "peer") /\ UNCHANGED <<held, op, snap, row>>
    <3>1. pc'[w] = "peer" /\ Others(w)
      BY <2>3 DEF Goto, Others, IInv, TypeOK
    <3> QED
      BY <2>1, <2>3, <3>1, UnlockedKeeps
  <2> QED
    BY <1>2, <2>2, <2>3 DEF Permission
<1>3. ASSUME NEW w \in Workers, Deadlock(w) \/ DatabaseError(w) PROVE DeviceInv'
  <2>1. Return(w) /\ private_device' = private_device
    BY <1>3 DEF Deadlock, DatabaseError, tables
  <2> QED
    BY <2>1, ReturnMoves, UnlockedKeeps DEF IInv
<1>4. ASSUME NEW w \in Workers, Commit(w) \/ CommitReplyLost(w) PROVE DeviceInv'
  BY <1>4, InstallKeeps DEF Commit, CommitReplyLost
<1>5. ASSUME UNCHANGED vars \/ \E u, v \in Users : Block(u, v) PROVE DeviceInv'
  <2>1. UNCHANGED <<held, pc, op, private_device>>
    BY <1>5 DEF vars, Block, tables, call
  <2> QED
    BY <2>1 DEF DeviceInv, GapsOK, RegistersOK
<1> QED
  BY <1>1, <1>2, <1>3, <1>4, <1>5, OwnDeviceKeeps, InsertDeviceKeeps, PeerDeviceKeeps,
     OperationKeeps DEF Next, Step

\* An identity key that was registered for a user stays: a later registration with
\* another key fails, also one that began when there was no row that it could lock.
THEOREM IdentitiesAreFixed == Spec => DeviceFixed
<1>1. Init => DeviceInv
  BY DEF Init, DeviceInv, GapsOK, RegistersOK
<1>2. IInv /\ DeviceInv /\ [Next]_vars => DeviceInv'
  BY DeviceStep
<1>3. IInv /\ DeviceInv /\ [Next]_vars =>
        [\A u \in Users : private_device[u] # NoIdentity
           => private_device'[u] = private_device[u]]_vars
  <2> SUFFICES ASSUME IInv, DeviceInv, Next, NEW u \in Users, private_device[u] # NoIdentity
               PROVE  private_device'[u] = private_device[u]
    BY DEF vars
  <2>1. ASSUME NEW w \in Workers, Commit(w) \/ CommitReplyLost(w)
        PROVE  private_device'[u] = private_device[u]
    BY <2>1, RegisterWrites DEF Commit, CommitReplyLost
  <2>2. ASSUME NEW w \in Workers, NEW r \in Requests, Begin(w, r)
        PROVE  private_device' = private_device
    BY <2>2 DEF Begin, tables
  <2>3. ASSUME NEW w \in Workers,
               \/ OwnDevice(w) \/ InsertDevice(w) \/ Permission(w) \/ PeerDevice(w)
               \/ ReadOnly(w) \/ Publish(w) \/ Claim(w) \/ Send(w) \/ Poll(w) \/ Ack(w)
               \/ Deadlock(w) \/ DatabaseError(w)
        PROVE  private_device' = private_device
    BY <2>3 DEF OwnDevice, InsertDevice, Permission, PeerDevice, ReadOnly, Publish, Claim,
                ClaimFrom, Send, Poll, Ack, Deadlock, DatabaseError, Rest, tables
  <2>4. ASSUME NEW x \in Users, NEW v \in Users, Block(x, v)
        PROVE  private_device' = private_device
    BY <2>4 DEF Block, tables
  <2> QED
    BY <2>1, <2>2, <2>3, <2>4 DEF Next, Step
<1> QED
  BY <1>1, <1>2, <1>3, Invariance, PTL DEF Spec, DeviceFixed
================================================================================
