----------------------------- MODULE PrivateChat -----------------------------
(***************************************************************************)
(* PrivateChatCommand: device identities, one-time prekeys and encrypted   *)
(* envelopes, called by the threads of two gateways.  A call is one        *)
(* REPEATABLE READ transaction: its first SELECT takes the snapshot that   *)
(* plain SELECTs read, and FOR UPDATE reads what is committed.  All it     *)
(* reads for update after the locks on its own and its peer's device row   *)
(* is read and written under these locks, so it is one step here, and what *)
(* it writes is visible with the COMMIT.                                   *)
(***************************************************************************)
EXTENDS Naturals, FiniteSets

CONSTANTS
  Users, Identities, NoIdentity,
  Devices0, Prekeys0,   \* rows of earlier calls
  Friends,      \* friend rows <<self_uid, friend_uid>> of active users
  Requests,     \* the requests clients may make and repeat
  NoRequest, NoRow, NoUser, NoClaim,
  Workers,      \* threads with a database connection
  MaxPrekeys,   \* 100 rows per owner
  MaxInbox,     \* 1000 unacknowledged envelopes per recipient
  MayBlock,                        \* bound: pairs that block and unblock
  MaxCalls, MaxFaults, MaxBlocks   \* bounds

\* key is the request_id of a claim, the id of a bundle or a message, or the
\* sequence of an ack; body the bundle or the ciphertext.
Request(S) == [op: {"register", "publish", "identity", "claim", "send", "poll", "ack"},
               uid: Users, identity: Identities, peer: Users \cup {NoUser},
               peer_identity: Identities \cup {NoIdentity}, key: S, body: S]

Keys == {r.key : r \in Requests}
Bodies == {r.body : r \in Requests}

\* Rows of private_prekey and private_envelope.
PrekeyRows ==
  [owner: Users, key_id: Nat \ {0}, bundle: Bodies \cup {k.bundle : k \in Prekeys0},
   claimant: Users \cup {NoUser}, claim_id: Keys \cup {NoClaim}]
EnvelopeRows ==
  [sequence: Nat \ {0}, sender: Users, recipient: Users, id: Keys, identity: Identities,
   peer_identity: Identities \cup {NoIdentity}, digest: Bodies, acknowledged: BOOLEAN]

ASSUME PrivateChatAssumption ==
  /\ Friends \cup MayBlock \subseteq Users \X Users /\ NoUser \notin Users
  /\ NoIdentity \notin Identities /\ NoRequest \notin Requests
  /\ NoRow \notin EnvelopeRows /\ NoClaim \notin Keys
  /\ Devices0 \in [Users -> Identities \cup {NoIdentity}]
  /\ \A r \in Requests :
       /\ r \in Request({r.key, r.body})
       /\ r.op \in {"identity", "claim", "send"} <=> r.peer # NoUser
       /\ r.op \in {"publish", "ack"} => r.key \in Nat \ {0}
  /\ {MaxPrekeys, MaxInbox, MaxCalls, MaxFaults, MaxBlocks} \subseteq Nat

\* Earlier calls kept the table's key and the quota.
ASSUME Prekeys0Assumption ==
  /\ Prekeys0 \subseteq PrekeyRows /\ IsFiniteSet(Prekeys0)
  /\ \A k \in Prekeys0 : k.claimant = NoUser /\ k.claim_id = NoClaim
  /\ \A k, l \in Prekeys0 : k.owner = l.owner /\ k.key_id = l.key_id => k = l
  /\ \A u \in Users : Cardinality({k \in Prekeys0 : k.owner = u}) <= MaxPrekeys

VARIABLES
  private_device,    \* identity_key per user
  private_prekey,    \* rows
  private_envelope,  \* rows
  next_sequence,     \* AUTO_INCREMENT
  user_block,        \* <<owner_uid, blocked_uid>>
  held, pc, op,      \* a worker's locks and call
  snap,              \* its snapshot
  row,               \* the row its last statement found or wrote
  replies,           \* history: requests answered with error 0, with their row
  calls, faults, blocks

tables == <<private_device, private_prekey, private_envelope>>
call == <<held, pc, op, snap, row>>
vars == <<tables, next_sequence, user_block, call, replies, calls, faults, blocks>>

Prekey(owner, id, bundle) ==
  [owner |-> owner, key_id |-> id, bundle |-> bundle, claimant |-> NoUser, claim_id |-> NoClaim]

Device(u) == <<"device", u>>
Gap(u) == <<"gap", u>>   \* next to a row that does not exist yet

Needs(w) == CASE pc[w] = "own" -> {Device(op[w].uid)}
              [] pc[w] = "insert" -> {Device(op[w].uid), Gap(op[w].uid)}
              [] pc[w] = "peer" -> {Device(op[w].peer)}
              [] OTHER -> {}

WaitsFor(w, v) == v # w /\ Needs(w) \cap held[v] # {}
Free(w) == \A v \in Workers : ~WaitsFor(w, v)
Hold(w, lock) == held' = [held EXCEPT ![w] = @ \cup {lock}]
Goto(w, label) == pc' = [pc EXCEPT ![w] = label]

\* return error(...): ROLLBACK, or the end of a committed transaction.
Return(w) ==
  /\ Goto(w, "idle")
  /\ held' = [held EXCEPT ![w] = {}]
  /\ op' = [op EXCEPT ![w] = NoRequest]
  /\ row' = [row EXCEPT ![w] = NoRow]
  /\ UNCHANGED snap

Init ==
  /\ private_device = Devices0 /\ private_prekey = Prekeys0
  /\ private_envelope = {} /\ next_sequence = 1
  /\ user_block = {}
  /\ held = [w \in Workers |-> {}] /\ pc = [w \in Workers |-> "idle"]
  /\ op = [w \in Workers |-> NoRequest] /\ row = [w \in Workers |-> NoRow]
  /\ snap = [w \in Workers |-> [envelopes |-> {}, prekeys |-> {}, blocks |-> {}, acked |-> {}]]
  /\ replies = {} /\ calls = 0 /\ faults = 0 /\ blocks = 0

Acked == {r.req.key : r \in {x \in replies : x.req.op = "ack" /\ x.row # NoRow}}

\* The SELECT of the account opens the snapshot.
Begin(w, r) ==
  /\ pc[w] = "idle" /\ calls < MaxCalls
  /\ calls' = calls + 1
  /\ op' = [op EXCEPT ![w] = r]
  /\ snap' = [snap EXCEPT ![w] = [envelopes |-> private_envelope, prekeys |-> private_prekey,
                                  blocks |-> user_block, acked |-> Acked]]
  /\ Goto(w, "own")
  /\ UNCHANGED <<tables, next_sequence, user_block, held, row, replies, faults, blocks>>

AfterOwn(r) == IF r.peer = NoUser THEN "work" ELSE "permit"

\* SELECT identity_key ... FOR UPDATE of the caller's device.
OwnDevice(w) ==
  LET r == op[w] IN
  /\ pc[w] = "own" /\ Free(w)
  /\ \/ /\ private_device[r.uid] = NoIdentity /\ r.op # "register"
        /\ Return(w)
     \/ /\ private_device[r.uid] = NoIdentity /\ r.op = "register"
        /\ Hold(w, Gap(r.uid)) /\ Goto(w, "insert") /\ UNCHANGED <<op, snap, row>>
     \/ /\ private_device[r.uid] \notin {NoIdentity, r.identity}
        /\ Return(w)
     \/ /\ private_device[r.uid] = r.identity
        /\ Hold(w, Device(r.uid)) /\ Goto(w, AfterOwn(r)) /\ UNCHANGED <<op, snap, row>>
  /\ UNCHANGED <<tables, next_sequence, user_block, replies, calls, faults, blocks>>

\* INSERT INTO private_device waits for other gap locks at its place.
InsertDevice(w) ==
  /\ pc[w] = "insert" /\ Free(w)
  /\ Hold(w, Device(op[w].uid)) /\ Goto(w, "work")
  /\ UNCHANGED <<tables, next_sequence, user_block, op, snap, row, replies, calls, faults, blocks>>

Blocked(u, v, rows) == <<u, v>> \in rows \/ <<v, u>> \in rows

\* Friendship and blocks, read from the snapshot.
Permission(w) ==
  LET r == op[w]
      allowed == /\ r.peer # r.uid /\ <<r.uid, r.peer>> \in Friends
                 /\ ~Blocked(r.uid, r.peer, snap[w].blocks)
  IN /\ pc[w] = "permit"
     /\ \/ ~allowed /\ Return(w)
        \/ allowed /\ Goto(w, "peer") /\ UNCHANGED <<held, op, snap, row>>
     /\ UNCHANGED <<tables, next_sequence, user_block, replies, calls, faults, blocks>>

\* Mutant: the peer's device is read without FOR UPDATE.
PeerDevicePlainly(w) ==
  /\ pc[w] = "peer"
  /\ \/ private_device[op[w].peer] = NoIdentity /\ Return(w)
     \/ /\ private_device[op[w].peer] # NoIdentity
        /\ Goto(w, "work") /\ UNCHANGED <<held, op, snap, row>>
  /\ UNCHANGED <<tables, next_sequence, user_block, replies, calls, faults, blocks>>

\* SELECT identity_key ... FOR UPDATE of the peer's device.
PeerDevice(w) ==
  /\ pc[w] = "peer" /\ Free(w)
  /\ \/ private_device[op[w].peer] = NoIdentity /\ Return(w)
     \/ /\ private_device[op[w].peer] # NoIdentity
        /\ Hold(w, Device(op[w].peer)) /\ Goto(w, "work") /\ UNCHANGED <<op, snap, row>>
  /\ UNCHANGED <<tables, next_sequence, user_block, replies, calls, faults, blocks>>

(***************************************************************************)
(* The operations, under the device locks.  Each refuses, or finds or      *)
(* writes a row (NoRow: none) and goes on to the COMMIT.                   *)
(***************************************************************************)
Working(w, name) == pc[w] = "work" /\ op[w].op = name
Done(w, r) == /\ row' = [row EXCEPT ![w] = r]
              /\ Goto(w, "commit") /\ UNCHANGED <<held, op, snap>>
Rest == UNCHANGED <<tables, user_block, replies, calls, faults, blocks>>

\* register and identity write nothing more.
ReadOnly(w) ==
  /\ Working(w, "register") \/ Working(w, "identity")
  /\ Done(w, NoRow) /\ UNCHANGED next_sequence /\ Rest

Publish(w) ==
  LET r == op[w]
      own == {k \in private_prekey : k.owner = r.uid}
      same == {k \in own : k.key_id = r.key}
  IN /\ Working(w, "publish")
     /\ \/ \E k \in same : IF k.bundle = r.body THEN Done(w, k) ELSE Return(w)
        \/ same = {} /\ Cardinality(own) >= MaxPrekeys /\ Return(w)
        \/ same = {} /\ Cardinality(own) < MaxPrekeys /\ Done(w, Prekey(r.uid, r.key, r.body))
     /\ UNCHANGED next_sequence /\ Rest

\* The repeated claim's key, or the lowest free one, among the rows read; the
\* UPDATE notes the claimant and the claim's id.
ClaimFrom(w, rows) ==
  LET r == op[w]
      mine == {k \in rows : k.owner = r.peer /\ k.claimant = r.uid /\ k.claim_id = r.key}
      free == {k \in rows : k.owner = r.peer /\ k.claimant = NoUser}
  IN /\ Working(w, "claim")
     /\ \/ \E k \in mine : Done(w, k)
        \/ mine = {} /\ free = {} /\ Return(w)
        \/ /\ mine = {}
           /\ \E k \in free : /\ \A l \in free : k.key_id <= l.key_id
                              /\ Done(w, [k EXCEPT !.claimant = r.uid, !.claim_id = r.key])
     /\ UNCHANGED next_sequence /\ Rest

\* Mutant: plain SELECTs read the snapshot from before the lock waits.
ClaimSnapshot(w) == ClaimFrom(w, snap[w].prekeys)

Claim(w) == ClaimFrom(w, private_prekey)

Waiting(u) == {e \in private_envelope : e.recipient = u /\ ~e.acknowledged}

\* The digest covers everything a repeated message must have in common.
SameDigest(e, r) == /\ e.recipient = r.peer /\ e.identity = r.identity
                    /\ e.peer_identity = r.peer_identity /\ e.digest = r.body

Envelope(r) == [sequence |-> next_sequence, sender |-> r.uid, recipient |-> r.peer, id |-> r.key,
                identity |-> r.identity, peer_identity |-> r.peer_identity,
                digest |-> r.body, acknowledged |-> FALSE]

\* Mutant: a repeated id is answered without comparing the digest.
SendIgnoresDigest(w) ==
  LET r == op[w]
      same == {e \in private_envelope : e.sender = r.uid /\ e.id = r.key}
  IN /\ Working(w, "send") /\ r.peer_identity = private_device[r.peer]
     /\ \/ \E e \in same : Done(w, e) /\ UNCHANGED next_sequence
        \/ same = {} /\ Done(w, Envelope(r)) /\ next_sequence' = next_sequence + 1
     /\ Rest

Send(w) ==
  LET r == op[w]
      same == {e \in private_envelope : e.sender = r.uid /\ e.id = r.key}
      refused == \/ r.peer_identity # private_device[r.peer]
                 \/ \E e \in same : ~SameDigest(e, r)
                 \/ same = {} /\ Cardinality(Waiting(r.peer)) >= MaxInbox
  IN /\ Working(w, "send")
     /\ \/ refused /\ Return(w) /\ UNCHANGED next_sequence
        \/ ~refused /\ (\E e \in same : Done(w, e)) /\ UNCHANGED next_sequence
        \/ ~refused /\ same = {} /\ Done(w, Envelope(r)) /\ next_sequence' = next_sequence + 1
     /\ Rest

\* Mutant: acknowledged envelopes are found again.
PollEverything(w) ==
  LET inbox == {e \in snap[w].envelopes : e.recipient = op[w].uid}
  IN /\ Working(w, "poll")
     /\ \E e \in inbox : (\A f \in inbox : e.sequence <= f.sequence) /\ Done(w, e)
     /\ UNCHANGED next_sequence /\ Rest

\* The first waiting envelope of the snapshot whose sender is not blocked.
Poll(w) ==
  LET r == op[w]
      inbox == {e \in snap[w].envelopes :
                  /\ e.recipient = r.uid /\ ~e.acknowledged /\ e.peer_identity = r.identity
                  /\ ~Blocked(e.sender, r.uid, snap[w].blocks)}
  IN /\ Working(w, "poll")
     /\ \/ inbox = {} /\ Done(w, NoRow)
        \/ \E e \in inbox : (\A f \in inbox : e.sequence <= f.sequence) /\ Done(w, e)
     /\ UNCHANGED next_sequence /\ Rest

Ack(w) ==
  LET r == op[w]
      mine == {e \in private_envelope : /\ e.sequence = r.key /\ e.recipient = r.uid
                                        /\ e.peer_identity = r.identity}
  IN /\ Working(w, "ack")
     /\ \/ mine = {} /\ Done(w, NoRow)
        \/ \E e \in mine : Done(w, [e EXCEPT !.acknowledged = TRUE])
     /\ UNCHANGED next_sequence /\ Rest

\* The rows of the call become visible.
Install(w) ==
  LET r == op[w]
      k == row[w]
      keyed == r.op \in {"publish", "claim"}
      mailed == r.op \in {"send", "ack"} /\ k # NoRow
  IN /\ private_device' = IF r.op = "register"
                          THEN [private_device EXCEPT ![r.uid] = r.identity] ELSE private_device
     /\ private_prekey' = IF keyed
          THEN {x \in private_prekey : ~(x.owner = k.owner /\ x.key_id = k.key_id)} \cup {k}
          ELSE private_prekey
     /\ private_envelope' = IF mailed
          THEN {x \in private_envelope : x.sequence # k.sequence} \cup {k}
          ELSE private_envelope

Commit(w) ==
  /\ pc[w] = "commit"
  /\ Install(w)
  /\ replies' = replies \cup {[req |-> op[w], row |-> row[w]]}
  /\ Return(w)
  /\ UNCHANGED <<next_sequence, user_block, calls, faults, blocks>>

\* InnoDB rolls back one of the transactions that wait in a circle: 1104.
Deadlock(w) ==
  /\ \E S \in SUBSET Workers :
       /\ w \in S
       /\ \A v \in S : (\E u \in S : WaitsFor(v, u)) /\ (\E u \in S : WaitsFor(u, v))
  /\ Return(w)
  /\ UNCHANGED <<tables, next_sequence, user_block, replies, calls, faults, blocks>>

\* Any statement fails, or the gateway dies: 1104 or no answer.
DatabaseError(w) ==
  /\ pc[w] # "idle" /\ faults < MaxFaults
  /\ faults' = faults + 1
  /\ Return(w)
  /\ UNCHANGED <<tables, next_sequence, user_block, replies, calls, blocks>>

\* The same while the server commits.
CommitReplyLost(w) ==
  /\ pc[w] = "commit" /\ faults < MaxFaults
  /\ faults' = faults + 1
  /\ Install(w) /\ Return(w)
  /\ UNCHANGED <<next_sequence, user_block, replies, calls, blocks>>

\* block and unblock of PrivacyCommand, at a chat node.
Block(u, v) ==
  /\ <<u, v>> \in MayBlock /\ blocks < MaxBlocks
  /\ blocks' = blocks + 1
  /\ user_block' = IF <<u, v>> \in user_block THEN user_block \ {<<u, v>>}
                                              ELSE user_block \cup {<<u, v>>}
  /\ UNCHANGED <<tables, next_sequence, call, replies, calls, faults>>

Step(w) == \/ OwnDevice(w) \/ InsertDevice(w) \/ Permission(w) \/ PeerDevice(w) \/ ReadOnly(w)
           \/ Publish(w) \/ Claim(w) \/ Send(w) \/ Poll(w) \/ Ack(w) \/ Commit(w) \/ Deadlock(w)

Next == \/ \E w \in Workers : \/ \E r \in Requests : Begin(w, r)
                              \/ Step(w) \/ DatabaseError(w) \/ CommitReplyLost(w)
        \/ \E u, v \in Users : Block(u, v)

Spec == Init /\ [][Next]_vars

(***************************************************************************)
(* Properties.                                                             *)
(***************************************************************************)
TypeOK ==
  /\ private_device \in [Users -> Identities \cup {NoIdentity}]
  /\ private_prekey \subseteq PrekeyRows /\ private_envelope \subseteq EnvelopeRows
  /\ next_sequence \in Nat \ {0}
  /\ user_block \subseteq Users \X Users
  /\ held \in [Workers -> SUBSET ({"device", "gap"} \X Users)]
  /\ pc \in [Workers -> {"idle", "own", "insert", "permit", "peer", "work", "commit"}]
  /\ op \in [Workers -> Requests \cup {NoRequest}]
  /\ \A w \in Workers : pc[w] # "idle" => op[w] \in Requests
  /\ snap \in [Workers -> [envelopes: SUBSET EnvelopeRows, prekeys: SUBSET PrekeyRows,
                           blocks: SUBSET (Users \X Users), acked: SUBSET Keys]]
  /\ row \in [Workers -> PrekeyRows \cup EnvelopeRows \cup {NoRow}]
  /\ replies \subseteq [req: Requests, row: PrekeyRows \cup EnvelopeRows \cup {NoRow}]
  /\ calls \in 0 .. MaxCalls /\ faults \in 0 .. MaxFaults /\ blocks \in 0 .. MaxBlocks

\* A prekey is handed out once: two answers to claims carry the same bundle
\* exactly when they answer the same claim, repeated or at two gateways.
OneTimeKeys ==
  \A a, b \in {r \in replies : r.req.op = "claim"} :
    (a.row.owner = b.row.owner /\ a.row.key_id = b.row.key_id)
      <=> (a.req.uid = b.req.uid /\ a.req.peer = b.req.peer /\ a.req.key = b.req.key)

\* The quotas hold however many gateways count at once.
WithinQuota ==
  \A u \in Users : /\ Cardinality({k \in private_prekey : k.owner = u}) <= MaxPrekeys
                   /\ Cardinality(Waiting(u)) <= MaxInbox

\* A message id names one envelope, before and after it was acknowledged, and
\* a send that was answered with success is that envelope with that content.
SentOnce ==
  /\ \A e, f \in private_envelope : e.sender = f.sender /\ e.id = f.id => e = f
  /\ \A r \in replies : r.req.op = "send" =>
       \E e \in private_envelope : e.sender = r.req.uid /\ e.id = r.req.key /\ SameDigest(e, r.req)

\* What a device has acknowledged is not delivered by a later poll, although
\* poll reads a snapshot and may wait for the lock of the ack.
NoRedelivery ==
  \A w \in Workers : pc[w] = "commit" /\ op[w].op = "poll" /\ row[w] # NoRow
                       => row[w].sequence \notin snap[w].acked

\* An identity that was registered for a user is never replaced, although a first
\* registration finds no row to lock: two gateways that register different
\* identities at once cannot both succeed.
DeviceFixed ==
  [][\A u \in Users : private_device[u] # NoIdentity
        => private_device'[u] = private_device[u]]_vars

==============================================================================
