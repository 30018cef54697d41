# SakuraChatServer: a verification project

TLA+ models of the server side of SakuraChatServer (`src/`), checked with TLC on
small instances, and theorems about them checked with TLAPS for every instance.
Everything here is read off the code; line numbers are given in `PROJECT.json`
("map") and, for the important places, below.

## 1. The system

Several **ChatServer** nodes keep the clients' TCP connections. They share one
MySQL database (InnoDB, REPEATABLE READ, one `Lease` of a pooled connection per
transaction) and one Redis. **GateServer** is the HTTP entry (registration,
login, verification codes, the deniable private chat), **StatusServer** hands out
a node and a login token, **VarifyServer** (Node.js) mails verification codes.
Nodes tell each other about stored messages and friend requests by gRPC.

| component | code | state | what makes it hard |
|---|---|---|---|
| Text message store | `Common/src/ChatPersistence.cpp` `StoreTextMessage` (70-135) | tables `chat_message`, `chat_thread`, `private_chat`, `user_block` | several nodes, lock waits, unique keys, a retry loop, a COMMIT whose outcome is unknown, clients that repeat requests |
| History paging | `ChatHistory` (221-253), `ChatConversations` (255-273) | cursors kept by clients | a cursor passes rows that are committed later |
| Deletion, retention | `DeleteMessage` (137-181), `ExpireMessages` (183-199), `DeletionEvents` (201-219), `ExpiryWorker.h` | `message_delete_head`, `message_delete_event`, `message_expiry`, `chat_message.status` | several rows per transaction, opposite lock orders, one worker per node on the same rows |
| Sessions of a node | `CSession.cpp`, `CServer.cpp`, `UserMgr.cpp`, `LogicSystem.cpp` (30-237) | session table, uid map, per-session flags, the worker's queue, token digests in Redis | acceptor, strands, worker and gRPC threads; close races with login, logout with re-login |
| Connection | `CSession.cpp`: `Send`, `HandleWrite`, `ArmReadDeadline`, `Close` | `_send_que`, `_scheduledSends`, `_readGeneration`, `_b_close` | two limits, sends and closes from other threads, stale timer handlers |
| Receipts, privacy | `ChatPersistence.cpp` (275-386) | `message_receipt`, `user_privacy`, `user_block` | check on one connection, write on another |
| Login routing | `StatusServiceImpl.cpp`, `LogicSystem.cpp` (141-150), `ChatServer.cpp` | Redis hash `LOGIN_COUNT` | read-modify-write, shutdown while logins are queued |
| Delivery | `LogicSystem.cpp` (543-595), `ChatServiceImpl.cpp`, `ChatGrpcClient.cpp` | route keys in Redis, client pools | a push is best effort, routes are stale |
| Friend applications | `MysqlDao.cpp` (349-610), `schema.sql` (353-457) | `friend_apply`, `friend` | mutual applications, concurrent answers |
| Private chat store | `PrivateChatDao.cpp`, `006_private_chat.sql` | devices, one-time prekeys, envelopes | repeated claims and sends, quotas, lock order |
| Verification codes | `VarifyServer/*.js`, `RedisMgr.cpp` (168-206) | codes and attempt counters in Redis | concurrent attempts |
| Accounts | `MysqlDao.cpp` (131-347), `reg_user` | `user` | unique names, password resets |
| Pools | `MysqlDao.cpp` (9-113), `Lease` (`ChatPersistence.cpp` 11-27), `RedisMgr.cpp` (17-82), `AsioIOServicePool.cpp` | idle connections, autocommit flags, open transactions | sessions lost at any statement, destructors that fail, a check thread, close while waiting |
| Rollout | `deploy/swarm/update.py`, `stack.yml` | service images and update states in Swarm, `state.json` | failing updates, commands whose end nobody saw, interrupted rollouts |

How they interact. A client logs in at GateServer, which asks StatusServer (gRPC)
for a node and a token; StatusServer chooses from the counts that the nodes keep
in Redis and writes the token there. The client connects to the node, whose one
logic thread checks the token, takes the session into the uid map and the route
key, and from then on runs every request to its end, one after the other;
sockets, timers and the acceptor run on other threads, and gRPC calls of other
nodes on yet others, so the session objects are shared by all of them. Requests
become transactions on MySQL, which is where the nodes meet. After the
transaction the sender is answered and the peer is told, directly or through its
node; what a client missed it fetches by paging.

| component | operations | correct when |
|---|---|---|
| Text message store | send, repeat of a send | a conversation is numbered without gap or repeat; a request is stored once however often it is sent; a success is about a durable row; a stored request stays accepted |
| History paging | history page, page of conversations | a client that follows its cursor misses nothing |
| Deletion, retention | delete for me, for everyone, expiry scan, page of events | a deletion is all or nothing, everybody it concerns is told, a cursor passes no event; expired texts go |
| Sessions | accept, login, replace, logout, close, deadline, kick | a session that ended is in no table; only its own session and token go; what was replaced ends |
| Connection | send, completion of a write, read, deadline, close | packets in order, within both limits, the counter returns to zero, a deadline closes exactly if it is still current |
| Receipts, privacy | record, list, settings, block | receipts only grow and obey the setting that was committed |
| Login routing | register, count, choose, unregister | a serving node is listed with its exact count, a stopped one is not listed |
| Delivery | push, forward to a node, login with its list | an application is pushed or listed, whichever came first, as far as the list has room; nothing new is pushed to a session whose token was replaced |
| Friend applications | apply, agree, refuse, list | friendship is mutual and wanted by both; one answer per submission; a success is durable |
| Private chat store | register, publish, claim, send, poll, ack | one-time keys serve once, sends are stored once and in order within the quotas, acknowledged ones do not return |
| Verification codes | reserve, consume | five tries per code, used once, for its own purpose |
| Accounts | register, reset, log in | answers are true, uids have no gap, a reset ends the sessions before it |
| Pools | acquire, release, discard, check, reconnect, close | a borrower is alone and starts clean whatever failed before, what fails is connected again, every call ends |
| Rollout | inspect, update, take back, record | between runs all services belong to one release or a person was asked; a release counts as applied only when it is; every interruption can be resumed |

`PROJECT.json` lists every hazard with the properties that cover it.

## 2. The modules

| module | models | composed of |
|---|---|---|
| `MessageLog` | abstract: one log of messages per pair of users, appended at most once per client id, and acknowledgements of positions | |
| `TextStore` | `StoreTextMessage`, statement by statement, called by several nodes | |
| `TextStoreLog` | the refinement mapping from `TextStore` to `MessageLog` | extends `TextStore`, instantiates `MessageLog` |
| `HistorySync` | a client that pages `ChatHistory` and `ChatConversations` while messages are stored | extends `TextStore` |
| `MessageDeletion` | `DeleteMessage`, `ExpireMessages`, `DeletionEvents`, and `RecordReceipt`, which locks the same rows | |
| `SessionLifecycle` | connections, login, logout, replacement and close on one node | |
| `Connection` | one connection below that: sends of other threads, strand, outgoing queue, read deadline, close | |
| `Delivery` | stored texts and applications on their way to a user who logs in, moves and disconnects, over all nodes | stands on `TextStore`, `FriendApply`, `SessionLifecycle` and `Connection`, each step of theirs made atomic |
| `FriendApply` | `AddFriendApply`, `ResolveFriendApply` and their stored procedures | |
| `LoginRouting` | registration of nodes, counting of logins, choice of a node, shutdown | |
| `PrivateChat` | `PrivateChatCommand` | |
| `Accounts` | verification codes, registration, password reset and login at the gateways | |
| `Rollout` | the updater of the Swarm services, beside Swarm | |
| `TextStoreProofs` | theorems about `TextStore`, the refinement of `MessageLog`, and `HistorySync` | extends `TextStoreLog` and `HistorySync` |
| `SessionLifecycleProofs` | theorems about `SessionLifecycle` and, in its second half, `Connection` | extends both, which have no name in common |
| `RolloutProofs` | theorems about `Rollout` and, in its second half, about what the replacement of containers means for `LoginRouting` | extends both, likewise |
| `MessageDeletionProofs`, `DeliveryProofs`, `FriendApplyProofs`, `PrivateChatProofs`, `AccountsProofs` | theorems | each extends its component's module |
| `MC*` | instances for TLC | |

Two decisions are the same in all modules about MySQL. A worker is a thread that
runs one call at a time; every SQL statement, or every Redis command, is one step
of it, so that others interleave between any two. And uncommitted writes are not
stored anywhere: what a transaction has written follows from its program counter
and locals, nobody else can read it, and it is installed by the step that models
COMMIT. The row locks and unique-key entries that go with it are derived the same
way (`Locked`, `Free` in `TextStore`; `LockMessage`, `LockHead` in
`MessageDeletion`; `held` in `FriendApply`), and they block others as InnoDB
does. A failure is an action of its own: an error before COMMIT (rolled back), a
COMMIT that took place but whose answer was lost, the crash of a node.

### State and actions

`TextStore`. `private_chat`, `last_seq` (of `chat_thread`) and `chat_message` are
the tables; `next_id` is the AUTO_INCREMENT of `chat_thread`, which goes on
after a rollback. `pc`, `req`, `thread`, `seq` and `attempt` are the locals of a
call. `Lookup`, `Begin`, `InsertPair`, `LockThread`, `Duplicate`, `Insert`,
`Commit`, `Result` are its statements in order; `Retriable` and every meeting of a
unique key (1062) start the next of three attempts, `DatabaseError` and
`CommitReplyLost` answer `ChatDatabaseFailed`, the latter for a stored
message. The plain reads of the transaction precede its first write and are one
step with the start of its snapshot, `Begin`.
`Erase` (a deletion for everyone) and `Block`, `Unblock` are the environment.

`HistorySync` adds the client's cursor of each conversation and the position in
its list; both calls are one plain read each, so they are one step.

`MessageDeletion`. `status`, `message_expiry`, `last_event` (heads) and `event`
are the tables, `assigned` the numbers that the transaction has drawn, `due` the
rows a scan has read and not yet handled. `receipt` is `message_receipt`,
`read_receipts` the column of `user_privacy`; a receipt's call reads the setting
(`Setting`, on a connection of its own), locks the message (`Row`) and upserts
(`CommitReceipt`). `on` is a history variable: the setting was on at some moment
of the call.

`SessionLifecycle`. `sessions` is `CServer::_sessions`, `uid_map` is
`UserMgr::_uid_to_session`, `closed` is `_b_close`, `queue` is `_msg_que`,
`token` the key in Redis. The worker's handler has a step per call and
per section under one mutex; `ClearSession` is two, since it reads shared state
twice while it holds `CServer::_mutex`. Whatever ends a connection (end of file,
deadline, packet budget, full queue, exception) is `Disconnect`,
`LoginDeadline`, `Exception` or the overflow in `Receive`.

`Connection`. `Conns` are the sessions, `b_close` is `_b_close`; `tasks` are the handlers posted to the strand, packets and
`Closing`; `scheduled` is `_scheduledSends`, `que` and `flight` the outgoing
queue and the write of its front, `wire` what the socket took; `generation`,
`armed`, `expired` are `_readGeneration`, the timer and its handlers that are
ready, each with the generation it has captured. `Send` outside the strand is three steps, since the counter is raised and
compared in one, taken back or dispatched in the next. `posted` and
`arming` are history variables: what was dispatched to the strand, and how often the
deadline was armed. A handler in `expired` also records the arming it belongs to,
which no guard reads.

`Delivery`. `token` and `route` are the two Redis keys of the user; `uid_map`,
`digest`, `closed` belong to the nodes. A thread is a logic worker, which stores
and looks up a session on its own node or calls the other one, or a gRPC
handler; a step is one call of Redis, MySQL or gRPC, or one section under the
map's mutex. `LoginHandler` is `Login`, `SetRoute`, `Install`, `Replace`, `List`.
`stored`, `answered` and `blocked` are the tables: an application is pending while
it is stored and not answered. `listed` is the list in the reply to a login, the
oldest `MaxList` pending applications by id (`FirstOf`), `pushed` the packets posted
by the notification paths; `Told` is what a session's client has been sent by
either. `Answer` is `ResolveFriendApply`, which does not ask how the user came to
know of the application.
History variables: `storedAt`, `overtaken` (a login set the route after its token
had been replaced).

`Rollout`. `image`, `previous`, `status` are Swarm's record of a service, `file`
is `state.json`, `stable` the release the tag names; `pc`, `plan`, `old`, `at`,
`errors` are the script's locals, `at` being the length of `changed`. An update
that was accepted goes on in Swarm (`Settle`, `TaskFails`, `RollbackFails`)
whether or not the script still watches (`ChangeLost`, `Kill`).

`FriendApply`. `friend_apply` maps a pair to the status of its row, `friend` is
the table, `held` the row locks. `Deadlock` rolls back one transaction of a
cycle.

`LoginRouting`. `login_count` is the Redis hash, `phase` where `main()` of a
process is, `wpc`, `count` the logic thread inside `LoginHandler`, `todo`,
`least` the loop of `getChatServer`. `packets` counts the logins received by all
processes, for the bound.

`PrivateChat`. The device, prekey and envelope tables; per call its snapshot,
taken by the first SELECT, and the locks on its own and its peer's device row.
All that a call reads FOR UPDATE after these two locks is read and written under
them, so it is one step.

`Accounts`. `code`, `attempts` and `cooldown` are the three Redis keys of a
purpose and address, with TTLs in ticks; `token` is `utoken_<uid>`; `user` and
`user_id` the tables. `ConsumeCode` is the Redis script; `Exists`, `Lock`,
`Insert`, `Commit` are `reg_user`; `GetUser`, `Revoke`, `UpdatePwd` are a reset;
`CheckPwd`, `Issue` a login.

## 3. The runs

| run | instance | what it shows |
|---|---|---|
| `textstore` | 3 users, 2 nodes, 3 requests (one client id used for two receivers, and an answer into the same thread), 3 calls, 1 fault, 2 threads, 2 messages each | numbering, idempotence, honest replies, the refinement of `MessageLog`, and that no lock wait, retry or deadlock lasts for ever |
| `history_sync` | 2 nodes, 3 users, 4 requests, 3 calls, pages of 2 rows, 2 rounds | a client misses no message and no conversation |
| `deletion` | 2 logic threads, 1 expiry worker, 2 expiring messages, 2 calls among 3 deletions and 3 receipts, pages of 2, scans of 1, 1 fault, 1 change of the setting | deletions are all or nothing and no client's cursor passes one; receipts only grow, and are read only with consent; expired messages are cleared |
| `session` | 3 connections of one user, session limit 2, queue limit 1, 2 tokens, 3 packets, 1 fault, a gRPC caller | nothing is left of a connection that ended; only its own session and token are touched; logouts take effect, superseded sessions close |
| `connection` | 3 threads, 3 packets (one too large), 4 sends, limits of 2, 2 reads, 1 expiry or failing write | packets stay in order, both limits hold, a deadline closes exactly if it was not armed again |
| `delivery` | 2 nodes, 1 gRPC handler, 3 connections of one user (two at one node with one token, one at the other with the next), 1 text, 2 applications (one pending at the start), lists of 1, 1 failure or block | an application is pushed or listed, or newer than a full list; nothing new goes to a replaced session |
| `friend_apply` | 3 users, 2 nodes, 5 calls, 1 fault | friendship is mutual and wanted, one answer per application, calls return |
| `login` | 3 processes of 2 nodes, 1 login, 2 faults or kills, 1 scan | a serving node is registered with its exact count, the least loaded node is chosen |
| `login_stopped` | 2 processes of one node, 1 login, no fault | **violated**, see section 5 |
| `private` | 4 users, 2 gateways, 3 calls, quotas 2 and 1, 1 fault, 1 block | one-time keys are used once, messages stored once, within quotas, not redelivered |
| `accounts` | 2 gateways, 3 spellings of 2 addresses, 2 codes, 2 tokens, 3 calls, 1 fault, 2 ticks, 2 uids | attempts are exact, a code is spent once, registration is honest, a reset ends old sessions |
| `rollout` | the 5 services, 3 releases (one changes only the server's image), the tag moves twice, 3 faults | no mixture is left between runs without a call for a person; "applied" is true; every release ends on record |

Every bound is a constant of the `.cfg`: `MaxCalls` (calls ever made), `MaxFaults`
(failures of all kinds), `MaxThread`, `MaxSeq`, `MaxEvent`, `MaxPrekeys`,
`MaxInbox`, `MaxList`, `LastUid` (limits the code has too, made small so that they are
reached), `MaxTime`, `MaxTicks` (the clock), `MaxToken`, `MaxTokens`, `MaxCodes`,
`MaxSends`, `MaxSend`, `MaxPosts`, `MaxReads`, `MaxErrors`, `MaxLogins`,
`MaxScans`, `MaxRounds`, `MaxBlocks`, `MaxSettings`, `MaxPublished`. Why they are
enough: each hazard is a race of two calls, or of one call and its repetition, and
there is a third call to observe or to disturb it; one fault at any step of any
of them covers a failure anywhere, and a second one would only fall on a call
that is repeated. In `rollout` three faults are needed: an update fails, taking it back fails,
and the run after it is disturbed. The limits are small enough to be met by these
calls, so that the branch at the limit is taken (with two exceptions: a thread
whose numbers are used up, which `NumbersAssumption` and the proofs cover, and the
largest event number of `MessageDeletion`, where each user would need more events
than there are messages); the runs reach every action. The proofs of section 6 hold
for every value of the bounds, and of all other constants.

Deadlock is not an error in these runs because the bounds stop the model, and
because a quiet server is a legal state. Symmetry is used in runs without
liveness, over workers, calling threads and interchangeable connections only. The run
`delivery` compares states by a `VIEW` that leaves out what no action and no invariant
can tell apart any more: what a closed connection had been sent, and the age of a
notice that nobody has in hand; whether `FreshOnly` is broken is part of the view.

`TypeOK` (`SyncTypeOK`, `RoutingTypeOK`, and `ConnTypes` in the proofs of
`Connection`) states the range of the variables; it is proved for every module and
is the frame of the inductive invariant.

### Properties by module

* `TextStore`: `SeqContiguous` (numbers 1 to `last_seq` without gap or repeat),
  `AckHonoured` (a success is about a durable row that matches),
  `SettledStaysAccepted` (a repeat of a stored request is not refused because of
  a later block), `EveryCallReturns`, `ImplementsLog`. `OneThreadPerPair` and
  `StoredOnce` are proved and follow, in the run, from the refinement: a second
  thread, or a second row, of a pair's log would not be an append.
* `HistorySync`: `HistoryComplete`, `ScanComplete`. Sequence numbers are safe
  cursors because the row lock on `chat_thread` is held until COMMIT; thread ids
  are not, since AUTO_INCREMENT values commit out of order, and the list is
  complete only because each round starts from 0. The mutants of the two
  properties are exactly these facts.
* `MessageDeletion`: `DeletionCursorComplete`, `ErasedForBoth`, `AnswersHonoured`
  (what was answered, deletion or read receipt, is not taken back),
  `ReadConsented` (a receipt becomes read only if the setting was on at some
  moment of its call: an error must not count as yes), `ExpiredIsErased`.
* `SessionLifecycle`: `NoZombie` (what ended is in no map), `SupersededIsClosed`
  (of all sessions that a user logged in with, one at most is open, and in the
  map), `SuccessorSurvives`, `OnlyOwnLogout`, `LogoutRevokes` (a queued logout is
  carried out although its connection is gone).
* `Connection`: `InOrder` (what the socket took is a prefix of what was posted;
  an open session loses nothing and never stops writing), `WithinLimits` (the
  counter is exactly the packets on their way; the buffer of a write stays in
  front of the queue), `DeadlineIsCurrent` (a deadline handler closes an open session
  if and only if the deadline was not armed again since the timer ran out; the
  armings are counted by a history variable, so that the generation has to be raised
  with each of them, which its mutant forgets).
* `Delivery`: `Informed` (login writes route and map and then reads the list, the
  sender commits and then reads route and map: one of them sees the other, which
  its mutant, a list read before the map is written, loses; what is in neither is
  newer than every entry of a full list, which a list of the newest applications,
  its second mutant, breaks), `FreshOnly` (the
  token compared after the lookup closes the window that route and map leave).
* `FriendApply`: `FriendMutual`, `FriendsWilled`, `AnsweredOnce`,
  `AgreeHonoured`, `EveryCallReturns`.
* `LoginRouting`: `CountExact`, `ChosenIsLeast`, `StoppedIsUnregistered`
  (violated).
* `PrivateChat`: `OneTimeKeys`, `SentOnce`, `WithinQuota`, `NoRedelivery`.
* `Accounts`: `AttemptsExact`, `CodeSpentOnce`, `RegisterHonest`,
  `ResetEndsSessions`.
* `Rollout`: `AllOrNothing`, `AppliedIsUniform`, `Settles`. The list `changed`
  gets a service before its update is tried, which is why a failed one is taken
  back as well; the preflight, which reads update states, is what keeps a run
  from counting on an image that an earlier run's update may still take back.

## 4. Fairness

* A call in progress goes on (`WF` of a worker's `Step`): a logic thread runs its
  handler to the end, and a lock wait ends when the lock is free. In
  `FriendApply` it is `SF`: of several waiters for a row InnoDB serves each in
  turn, and a transaction rolled back as a deadlock victim is replied to. No
  fairness makes a client call, a fault happen or a fault not happen.
* An expiry worker scans again every few seconds, clients go on polling
  `DeletionEvents`, time passes (`MessageDeletion`).
* The timer unit starts the updater again and again (`Begin` without
  `--retry-failed`), the updater runs on, and Swarm ends every update it has
  accepted (`Settle`), within its monitor time (`Rollout`). Nothing makes a tag
  move, a task fail or a failed release be retried.

## 5. What does not hold

`login_stopped`: a node that stops in order can remain registered. `main()` of
ChatServer removes its field of `LOGIN_COUNT` in the signal handler and again
after `io_context.run()` (`ChatServer.cpp:49`), then closes the Redis pool. The
logic thread is still running: between its HGET and HSET
(`ChatServer/src/LogicSystem.cpp:142-150`) it may have obtained its connection
before the pool was closed, and its HSET after the second HDel writes the field
again. `StatusServiceImpl.cpp:113` says that a stopped node removes its
registration so that no login is routed to it; `getChatServer` will prefer this
one for its low count until the node is started again.

Smaller observations that no run claims as errors:

* If the session is lost inside a transaction, `rollback()` in `~Lease` throws and
  the connection is discarded (`ChatPersistence.cpp:24`). Nothing replaces it,
  since `checkConnection` repairs what is in the queue (`MysqlDao.cpp:50`) and the
  pool is filled once: after five such losses, for instance one restart of MySQL
  under load, each call waits three seconds and fails until the process is
  restarted. A lease that only reads is in autocommit mode and returns its
  connection although it is broken, which the check thread repairs within a
  minute, so the comment about a poisoned connection (line 10) is not to be taken
  literally; an open transaction is never returned.
* The first connect that fails in the constructor of `MySqlPool` ends it
  (`MysqlDao.cpp:34`): the pool has fewer connections or none, and the check
  thread was not started, so a process that starts while MySQL is away stays like
  this.
* The Redis pool has neither check nor repair: after a restart of Redis each of
  its five contexts fails every later command (hiredis keeps the error) and is
  returned to the pool all the same (`RedisMgr.cpp:75`), until the process is
  restarted.
* `AddFriendApply` can leave an application pending between two users who are
  friends already, since the friend check is outside of the transaction that
  writes the row.
* `RegUser` returns `false`, that is 0 ("duplicate" in the contract of
  `reg_user`, `schema.sql:285`), if it gets no connection; the gateway answers
  `UserExist` for -1 and 0 alike.
* A reset compares the address as typed, while `reg_user` stores
  `LOWER(TRIM(email))`: with a capital letter the code is spent and the reset
  fails.
* The reply to a login lists the 200 oldest pending applications
  (`LogicSystem.cpp:163`, `MysqlDao.cpp:449`) and there is no request for more
  (`docs/project/FRIEND_FEATURE_STATUS.md:56`): a later one that was not pushed to an
  open session stays unknown to its recipient until older ones are answered and the
  recipient logs in again. `Informed` states the limit (`Crowded`).
* That reply may need more than the 32763 bytes of a packet:
  `Send` then closes the session without an answer (`CSession.cpp:85`), and so at
  the next login.
* A worker that is slower than the user's next login at another node sets the
  route key after it (`LogicSystem.cpp:157`); until the user logs in once more,
  pushes go to the node where nobody is. `Informed` excludes it by name
  (`overtaken`).
* A Redis failure in `UserMgr::GetSession` (24-25) closes the recipient's
  session, although its token may be the current one.
* A read receipt may be stored after the user turned the setting off, if it was
  on when the call read it.
* After a kill in the middle of an update, the timer's next run meets a service
  that is still updating, ends with an error (`update.py:61`) and records the
  release as failed although nothing failed: it needs `--retry-failed`. If the
  tag goes back to the release on record meanwhile, "Already applied" leaves a
  mixture: `AllOrNothing` excuses what a kill has left.
* If Swarm gives up a rollback (`rollback_paused`), its Spec names the old image
  already: the handler finds nothing to take back and the service is not in the
  list under "Manual recovery required".
* A login that has verified the old password before a reset's UPDATE may get its
  token after the reset's SETEX and keep it. `ResetEndsSessions` is about tokens
  that exist when the reset revokes.

## 6. What is proved

Every invariant and every action property that a passing run checks is also
proved, by TLAPS, for all values of the constants. So are a few that no run needs:
`OneThreadPerPair`, `StoredOnce`, `Durability`, `DeviceFixed` and the types.

Assumptions: the named ASSUMEs on the constants, nothing else. Most say that bounds
are natural numbers, that requests are well formed and that the value for "none" is
no value. The others come from the code or limit where a behaviour starts.
`TtlAssumption`: the counter of a code outlives the code. `RoutingAssumption`: there
are fewer logins than an `int` counts. `PageAssumption`: a page has room for a row.
`RolloutAssumption`: each service is listed once. `DeliveryAssumption`: a token belongs
to one node. `AccountsAssumption` and `Prekeys0Assumption`: the tables at the start are
any that earlier calls can have left (names, addresses and keys are unique, quotas are
kept). TLC evaluates all of them in the runs.

**`TextStoreProofs`** proves `SeqContiguous`, `OneThreadPerPair`, `StoredOnce`,
`AckHonoured`, `SettledStaysAccepted` and `TypeOK` for any number of users, nodes,
requests, calls and faults, and that rows are never dropped or revived
(`Durability`). None of them is inductive alone. `IInv` adds what the locks give:
`LockOK` (two workers past `SELECT ... FOR UPDATE` hold different threads, and
the number each has drawn is the next one of its thread), `ThreadsOK` (a worker's
thread is either the one `private_chat` names for its pair, or a new one that
nobody else knows; once its pair row is inserted no other worker has inserted
one), `KeysOK` (an uncommitted row collides with no committed and no other
uncommitted one) and `ResultOK`. Most steps change only one worker's locals and
are covered by a few lemmas (`MovedTypes`, `FreeKeeps`, `EndKeeps`); the work is
in `Begin`, `InsertPair`, `LockThread`, `Insert` and `Install`.
`SettledStaysAccepted` relates a reply to what was stored before the call began
and is proved as a step property on top of `IInv`.

It also proves `Spec => ImplementsLog`: the initial states map to the empty logs,
`Install` maps to an append (`InstallAppends`: positions below the new one show the
same rows, the new position shows the new row), a successful reply maps to an
acknowledgement, everything else stutters.

The third part is `HistorySync`: `HistoryComplete` and `ScanComplete` hold although a
client reads while others commit. Its invariant stands on `IInv`: a cursor never
passes the last number of its thread (`CursorOK`), and a row that is committed gets
the number after it, so one above every cursor; within a round, every conversation
that existed when it began and whose id is not above the position is listed
(`ScanOK`), while ids that are committed late below the position are not owed by the
round. That the numbers up to a bound have a largest one is taken from the library's
theorem on least elements (`Largest`), as an induction would be out of reach.

**`FriendApplyProofs`** proves `FriendMutual`, `FriendsWilled`, `AnsweredOnce`,
`AgreeHonoured` and `TypeOK` with `IInv`: a transaction past its row lock holds it
alone (`LocksOK`), so what it read under the lock still holds at its commit
(`AnswersOK`); every application that exists was made by its applicant
(`WillsOK`).

**`AccountsProofs`** proves `AttemptsExact`, `CodeSpentOnce`, `RegisterHonest`,
`ResetEndsSessions` and `TypeOK`. `IInv` has a part for each. `RedisOK`: the
counter of a valid code is the number of its tries and, once it counts, outlives
the code, which needs `CodeTTL <= AttemptsTTL` and the reset of the counter in
`GetVarifyCode`. `SpendInv`: a reservation is in one place, valid in Redis, with
one worker, or spent (`CodesOK`, `PaidOK`, `SpentOK`). `AccountInv`: between
`SELECT ... FOR UPDATE` and COMMIT a registration is alone (`LockOK`), so that its
uid is the next one and its name and address stay free. `TokenInv`: between the
SETEX of a reset and its UPDATE the user has no token, or one that was issued
since. A lemma per action (`...Moves`) says that the types are kept and which
worker moved where; frame lemmas (`SpendFrame`, `AccountFrame`, `TokenFrame`)
cover the steps that a part does not depend on.

**`DeliveryProofs`** proves `Informed`, `FreshOnly` and `TypeOK`. `ThreadsOK` says
what a thread has in hand at each point: the notice is stored, the session it
found is one whose token it has compared. `RouteOK` ties the route to the node of
the sessions with the current token. The heart is `OnItsWay`: an application that
is pending and that a serving session was not told of is with a thread that is
heading for that session, or newer than every entry of the full list the session's
login was answered with. What a session was told stays so (`ToldKept`), and
`Answer` only makes applications leave. A thread that has read the route or the map too early
to meet the session would break it; that it cannot, while the session is not yet
`Serving`, is the argument that login and sender write before they read.

**`SessionLifecycleProofs`** proves `NoZombie`, `SupersededIsClosed`,
`SuccessorSurvives`, `OnlyOwnLogout`, `LogoutRevokes` and `TypeOK`, for any number
of connections, users and tokens. `SessionOK` and `MapOK` say that what the map
or the table names is not yet cleaned up, or that its clean-up will find it (the
uid that `ClearSession` read is the one the map has it under). `OpenIsMapped` is
what the replacement rests on: an open session that has logged in is in the map,
or the worker is about to install it, or about to close it as `previous`. It is
weaker in the middle of a login than `SupersededIsClosed`, which is only about the
moments between two handlers, and for that reason inductive. The three action
properties follow from `IInv` step by step.

**`MessageDeletionProofs`** proves `DeletionCursorComplete`, `ErasedForBoth`,
`AnswersHonoured`, `ReadConsented` and `TypeOK`. `HeadsOK` (a head row has one
holder) and `WorkersOK` (a number that was drawn is `last_event + 1` of a head the
worker holds; at the commit every owner is held and has an event or a number) give
that a commit only adds events above every cursor, for both participants at
once; the part about receipts ties `asRead` to a setting that was on.

**`RolloutProofs`** proves `AllOrNothing`, `AppliedIsUniform` and `TypeOK`, for any
list of services and any images. `StartOK` keeps the release that all services
were at when the run began, through the images the run has read for those it has
inspected; `ProgressOK` divides the plan at the service in hand: before it
updated, after it untouched, or taken back if the script is undoing; `PlanOK`
says that what was left out of the plan is right already. When a run ends, the
index is at one end of the plan and `BetweenOK` follows.

The second half of the same module proves `CountExact` and `ChosenIsLeast` of
`LoginRouting`. `OnePerName`: stop-first makes the process that is alive the only one
of its name, so a field of `LOGIN_COUNT` has one writer. `CountOK` follows its logic
thread: between HGET and HSET the local `count` is what the hash will hold, and at
most one more than was counted; it is exact while Redis has not failed the process,
and in every case no larger, which `ChosenIsLeast` needs of nodes that are stopping.
`ScanOK`: the server chosen so far is no worse than any that was read and still
serves. A step of one process leaves the others as they are (`ProcessStep`), and
each action is shown to be such a step.

**`SessionLifecycleProofs`**, second half: `InOrder`, `WithinLimits` and
`DeadlineIsCurrent` of `Connection`. `DeadlineOK` says that the generation is the
number of armings, and that each handler that is ready carries the two values of one
moment; so comparing generations, as the code does, is comparing armings. `OrderOK` is stronger than `InOrder`: it is also
about the packet that is being written, since the socket of a session that another
thread has closed may still take it. `LimitsOK` counts the threads between their two
steps with the packets that wait: a thread that was let through has its place below
`MAX_SENDQUE` until it dispatches, which is why the comparison with the old value of
the counter suffices without a lock. That only finitely many threads are between
their steps is part of the invariant, so any set of threads will do.

**`PrivateChatProofs`** proves `OneTimeKeys`, `SentOnce`, `WithinQuota`,
`NoRedelivery` and `TypeOK`. A call writes at its commit what it has computed under
locks: `LocksOK` says which device rows a call holds at each point, and that a row
has one holder. Calls of two workers are therefore about different users (`Apart`),
and what a call has read still holds when it commits: `PendingOK` says of the rows it
is about to install that they still fit (the key is still free, no envelope has the
sequence number or the message id, the quotas have room). `KeysOK` and `MailOK` are
about the tables alone, `AnswersOK` and `SnapsOK` about what was replied and what
was read before the locks. `InstallChangesKeys` and `InstallChangesMail` say what a
commit may do to the tables, and all other parts are shown against them.
`DeviceFixed` (a registered identity is never replaced) is an action property with an
invariant of its own, since a first registration finds no row to lock: whoever has the
gap of a user is registering that user, there is no row, and nobody else holds or
inserts one (`GapsOK`).

**Only model-checked**: liveness, that is `EveryCallReturns` of `TextStore` and
`FriendApply`, `ExpiredIsErased` and `Settles`, for which the proof system has no
rules beyond propositional temporal logic. A violation is shown by its run.

## 7. What is abstracted

* Texts, names, digests and keys are model values; formatting, logging, field
  validation and rate limits are left out. A rate-limited request changes
  nothing, so it is a request that is not made.
* Friendship is constant in `TextStore` and `PrivateChat`; blocking is dynamic in
  both. In `PrivateChat` the registered devices and prekeys at the start are
  constants of the instance.
* Gap locks of InnoDB on neighbouring index ranges are not modelled one by one;
  the waits and deadlock errors they may cause are those of `DatabaseError`, which
  may strike a transaction at any statement.
* `FriendApply`: the applicant's and recipient's privacy settings are constants
  (`Refused`), users stay active, the notification of the peer belongs to
  delivery.
* `LoginRouting`: a process is one container, started stop-first with one replica
  as `deploy/swarm/update.py` (63-65) does; a kill leaves the registration. What
  is counted are logins, as in the code, not connections.
* `SessionLifecycle`: reading and writing of bytes, the timer's re-arming and the
  packet budget are one action that may disconnect at any time; `Connection`
  models the writing and the re-arming and leaves out who is logged in.
* `Delivery`: a store is one step, and so is an answer to an application (they are
  transactions in `TextStore` and `FriendApply`); a packet sent on an open session
  counts as posted, and one that is too long for a packet is a `Disconnect`;
  `ClearSession` is one step, any time after `Close`; the limit of 200 applications
  of a login's reply is the constant `MaxList`; application ids are committed in any
  order, since one that is submitted again keeps its id; a text's own reply to its
  sender is left out; a token belongs to the node chosen at its login. The stub
  pool never makes anybody wait: a node has one thread that takes stubs from it.
* `MessageDeletion`: `expires_at` is a constant of the message, as the column
  is after the INSERT; policies other than `read_receipts` are not read there.
* `Rollout`: a manifest is valid and its images pulled, or the run ends before it
  reads anything; Swarm's monitoring is the choice between `Settle` and
  `TaskFails`.
* `Accounts`: a code is known by its reservation; sending the mail changes nothing
  that is modelled. Passwords are compared, not hashed.


Not modelled: the pools of MySQL connections (`MysqlDao.cpp` 9-113) and Redis
contexts (`RedisMgr.cpp` 17-82). A loan has one user, and a broken connection is
a failure of its statement in every module; what the pools do with it afterwards
is in section 5. The pool of gRPC stubs has one user per node. Not modelled
either: the threads of `AsioIOServicePool`; the HTTP parser and its deadline; the policies
of `user_privacy` that only decide what a profile shows; protobuf code,
configuration, TLS, password hashing, migrations (no state of interest). About
28,000 of the 34,000 lines of the repository's C++ are generated from
`message.proto` (`message.pb.*`, `message.grpc.pb.*`, twice): they hold no
behaviour of this system, and the share of the lines that a model can stand for
is to be read against the 5,500 others.

## 8. The plan

The order is that of importance: messages first, then what decides who may send
them and through which connection, then the services around it.

1. Done: `TextStore`, its abstract specification and the proof that it implements
   it; `HistorySync`; `MessageDeletion` with receipts; `SessionLifecycle`,
   `Connection`, `Delivery`; `FriendApply` and `Accounts`;
   `LoginRouting`; `PrivateChat`; `Rollout`.
   Proofs of every safety and action property: done for all modules.
2. Models that are left: the two pools, with the server's restarts and the destructors that fail;
   the rate limits in front of `PrivateChatCommand`; the HTTP deadline.
