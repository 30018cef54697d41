---------------------------- MODULE DeliveryProofs ----------------------------
(***************************************************************************)
(* Theorems about Delivery, for any number of nodes, gRPC handlers,        *)
(* sessions, notices, tokens and failures.                                 *)
(***************************************************************************)
EXTENDS Delivery, TLAPS

(***************************************************************************)
(* The inductive invariant.                                                *)
(***************************************************************************)
Sending == {"route", "rpc", "wait", "allow", "find", "check", "stored", "push"}
Entering == {"identify", "install", "replace", "list"}

\* The thread has found a session and compared its token.
Checked(t) == pc[t] \in {"stored", "push"} \/ (pc[t] = "allow" /\ ~Text(t))

\* What a thread at each control point has in hand.
ThreadOK(t) ==
  /\ pc[t] = "idle" => job[t] = None
  /\ pc[t] \in Sending => job[t] \in stored
  /\ pc[t] \in Entering => job[t] \in Sessions /\ t \in Nodes /\ Home[job[t]] = t
  /\ pc[t] \in {"rpc", "find"} \/ (pc[t] = "allow" /\ Text(t)) => at[t] \in Nodes
  /\ pc[t] \in {"check", "replace"} => found[t] \in Sessions
  /\ Checked(t) => found[t] \in Sessions /\ storedAt[job[t]] <= Token[found[t]]
  /\ pc[t] = "identify" => Token[job[t]] <= token

ThreadsOK == \A t \in Threads : ThreadOK(t)

\* A session has its token's digest or none; a token that is in use was issued.
DigestOK == \A s \in Sessions : digest[s] # 0 => digest[s] = Token[s] /\ Token[s] <= token

StoredOK ==
  /\ \A m \in stored : storedAt[m] <= token
  /\ \A p \in pushed : p[1] \in stored

\* The route leads to the node of the sessions with the current token.
RouteOK == ~overtaken => \A s \in Sessions : digest[s] = token => route = Home[s]

BlockedOK == blocked => faults # 0

\* The thread is on its way to the session with a notice.
Heading(t, s) ==
  \/ pc[t] = "route"
  \/ pc[t] \in {"rpc", "find"} /\ at[t] = Home[s]
  \/ pc[t] \in {"check", "allow", "push"} /\ found[t] = s

\* A pending application that a serving session was not told of is on its way there,
\* or its list had no room for it.
OnItsWay ==
  faults = 0 /\ ~overtaken =>
    \A s \in Sessions : Serving(s) =>
      \A m \in Pending :
        \/ m \in Told(s) \/ Crowded(s, m)
        \/ \E t \in Threads : job[t] = m /\ Heading(t, s)

Records == DigestOK /\ StoredOK /\ RouteOK /\ BlockedOK /\ FreshOnly

IInv == TypeOK /\ Records /\ ThreadsOK /\ OnItsWay

(***************************************************************************)
(* Initially.                                                              *)
(***************************************************************************)
LEMMA InitHolds == Init => IInv
<1> SUFFICES ASSUME Init PROVE IInv
  OBVIOUS
<1>1. TypeOK
  <2>1. listed \in [Sessions -> SUBSET Applies]
    BY DEF Init
  <2>2. pc \in [Threads -> PC] /\ job \in [Threads -> Notices \cup Sessions \cup {None}]
    BY DEF Init, PC
  <2>3. storedAt \in [Notices -> 0 .. MaxToken] /\ digest \in [Sessions -> 0 .. MaxToken]
    BY DeliveryAssumption DEF Init
  <2>4. token \in 1 .. MaxToken /\ faults \in 0 .. MaxFaults
    BY DeliveryAssumption DEF Init
  <2>5. pushed \subseteq Notices \X Sessions
    BY DEF Init
  <2> QED
    BY <2>1, <2>2, <2>3, <2>4, <2>5, DeliveryAssumption DEF Init, TypeOK, Notices
<1>2. Records
  BY DeliveryAssumption DEF Notices, Init, Records, DigestOK, StoredOK, RouteOK, BlockedOK, FreshOnly
<1>3. ThreadsOK
  BY DEF Init, ThreadsOK, ThreadOK, Checked, Sending, Entering
<1>4. OnItsWay
  <2>1. \A s \in Sessions : ~Serving(s)
    BY DEF Init, Serving
  <2> QED
    BY <2>1 DEF OnItsWay
<1> QED
  BY <1>1, <1>2, <1>3, <1>4 DEF IInv

\* What the tables, the digests and the route say is kept by a step that only moves
\* a thread, closes a session or posts to one.
LEMMA RecordsKept ==
  ASSUME IInv, UNCHANGED <<redis, digest, tables, pushed, ghosts>>, faults' \in {faults, faults + 1}
  PROVE  Records'
<1> USE DEF redis, tables, ghosts
<1>1. DigestOK' /\ StoredOK' /\ FreshOnly'
  BY DEF IInv, Records, DigestOK, StoredOK, FreshOnly
<1>2. RouteOK'
  BY DEF IInv, Records, RouteOK
<1>3. BlockedOK'
  BY DEF IInv, TypeOK, Records, BlockedOK
<1> QED
  BY <1>1, <1>2, <1>3 DEF Records

\* What the user was told of depends on the lists, the pushes and the tables only.
LEMMA ToldKept ==
  ASSUME UNCHANGED <<listed, pushed, stored, answered>>
  PROVE  /\ Pending' = Pending
         /\ \A s \in Sessions : Told(s)' = Told(s)
         /\ \A s \in Sessions, m \in Applies : Crowded(s, m)' = Crowded(s, m)
BY DEF Pending, Told, Crowded

LEMMA PendingOK == Pending \subseteq stored /\ Pending \subseteq Applies
BY DEF Pending

\* A step of a thread that delivers makes no session serve.
LEMMA ServingBefore ==
  ASSUME IInv, NEW s \in Sessions, Serving(s)', NEW t \in Threads, pc[t] \in Sending,
         \A u \in Threads : u # t => job'[u] = job[u] \/ pc[u] = "idle",
         UNCHANGED <<token, digest, uid_map>>, closed[s] => closed'[s]
  PROVE  Serving(s)
<1>1. digest[s] = token /\ uid_map[Home[s]] = s /\ ~closed[s]
  BY DEF Serving
<1>2. job[t] # s
  BY DeliveryAssumption DEF IInv, TypeOK, ThreadsOK, ThreadOK
<1>3. \A u \in Threads : job[u] # s
  <2> SUFFICES ASSUME NEW u \in Threads, u # t PROVE job[u] # s
    BY <1>2
  <2>1. CASE job'[u] = job[u]
    BY <2>1 DEF Serving
  <2>2. CASE pc[u] = "idle"
    BY <2>2, DeliveryAssumption DEF IInv, ThreadsOK, ThreadOK
  <2> QED
    BY <2>1, <2>2
<1> QED
  BY <1>1, <1>3 DEF Serving

LEMMA StoreStep ==
  ASSUME IInv, NEW n \in Nodes, NEW m \in Notices, Store(n, m)
  PROVE IInv'
<1> USE DeliveryAssumption DEF Store, At, redis, conns, users, Threads, Notices
<1>1. TypeOK'
  BY DEF IInv, TypeOK, PC, ThreadsOK, ThreadOK, Entering, Sending, Text
<1>2. Records'
  BY DEF IInv, TypeOK, Records, DigestOK, StoredOK, RouteOK, BlockedOK, FreshOnly,
      ThreadsOK, ThreadOK, Entering, Sending, Checked, Text
<1>3. ThreadsOK'
  BY DEF IInv, TypeOK, Records, DigestOK, StoredOK, RouteOK, BlockedOK, FreshOnly,
      ThreadsOK, ThreadOK, Entering, Sending, Checked, Text
<1>4. OnItsWay'
  <2> SUFFICES ASSUME faults' = 0, ~overtaken', NEW s \in Sessions, Serving(s)',
                      NEW x \in Pending', x \notin Told(s)', ~Crowded(s, x)'
               PROVE  \E u \in Threads : job'[u] = x /\ Heading(u, s)'
    BY DEF OnItsWay
  <2>1. CASE x = m
    <3>1. n \in Threads /\ job'[n] = m /\ pc'[n] = "route"
      BY DEF IInv, TypeOK
    <3> QED
      BY <2>1, <3>1 DEF Heading
  <2>2. CASE x # m
    <3>1. x \in Pending /\ Told(s)' = Told(s) /\ Crowded(s, x)' = Crowded(s, x)
      BY <2>2 DEF Pending, Told, Crowded
    <3>2. Serving(s) /\ faults = 0 /\ ~overtaken
      BY DEF IInv, TypeOK, Serving, ThreadsOK, ThreadOK
    <3>3. PICK u \in Threads : job[u] = x /\ Heading(u, s)
      BY <3>1, <3>2 DEF IInv, OnItsWay
    <3>4. u # n
      BY <3>3 DEF Heading
    <3>5. job'[u] = x /\ pc'[u] = pc[u] /\ at'[u] = at[u] /\ found'[u] = found[u]
      BY <3>3, <3>4 DEF IInv, TypeOK
    <3> QED
      BY <3>3, <3>5 DEF Heading
  <2> QED
    BY <2>1, <2>2
<1> QED
  BY <1>1, <1>2, <1>3, <1>4 DEF IInv

LEMMA ReadRouteStep ==
  ASSUME IInv, NEW n \in Nodes, ReadRoute(n)
  PROVE IInv'
<1> USE DeliveryAssumption DEF ReadRoute, At, Done, Fault, redis, conns, users, tables,
    ghosts, Threads, Notices
<1>1. TypeOK'
  <2>1. pc' \in [Threads -> PC]
    BY DEF IInv, TypeOK, PC
  <2>2. at' \in [Threads -> Nodes \cup {None}]
    BY DEF IInv, TypeOK
  <2>3. job' \in [Threads -> Notices \cup Sessions \cup {None}] /\ found' \in [Threads -> Sessions \cup {None}]
    BY DEF IInv, TypeOK
  <2> QED
    BY <2>1, <2>2, <2>3 DEF IInv, TypeOK
<1>2. Records'
  BY RecordsKept
<1>3. ThreadsOK'
  BY DEF IInv, TypeOK, Records, DigestOK, StoredOK, RouteOK, BlockedOK, FreshOnly,
      ThreadsOK, ThreadOK, Entering, Sending, Checked, Text
<1>4. OnItsWay'
  <2> SUFFICES ASSUME faults' = 0, ~overtaken', NEW s \in Sessions, Serving(s)',
                      NEW m \in Pending', m \notin Told(s)', ~Crowded(s, m)'
               PROVE  \E u \in Threads : job'[u] = m /\ Heading(u, s)'
    BY DEF OnItsWay
  <2>0. m \in Pending /\ m \in Applies /\ m \notin Told(s) /\ ~Crowded(s, m)
    BY ToldKept, PendingOK
  <2>1. faults = 0 /\ ~overtaken
    BY DEF IInv, TypeOK
  <2>2. \A u \in Threads :
          u # n => job'[u] = job[u] /\ pc'[u] = pc[u] /\ at'[u] = at[u] /\ found'[u] = found[u]
    BY DEF IInv, TypeOK
  <2>3. Serving(s)
    BY <2>2, ServingBefore DEF Sending
  <2>4. PICK u \in Threads : job[u] = m /\ Heading(u, s)
    BY <2>0, <2>1, <2>3 DEF IInv, OnItsWay
  <2>5. CASE u # n
    BY <2>2, <2>4, <2>5 DEF Heading
  <2>6. CASE u = n
    <3>1. route = Home[s] /\ Home[s] # None
      BY <2>1, <2>3 DEF IInv, Records, RouteOK, Serving
    <3>2. job'[n] = m /\ at'[n] = Home[s] /\ pc'[n] \in {"find", "rpc"}
      BY <2>1, <2>4, <2>6, <3>1 DEF IInv, TypeOK
    <3> QED
      BY <3>2 DEF Heading
  <2> QED
    BY <2>5, <2>6
<1> QED
  BY <1>1, <1>2, <1>3, <1>4 DEF IInv

LEMMA CallStep ==
  ASSUME IInv, NEW n \in Nodes, NEW g \in Rpcs, Call(n, g)
  PROVE IInv'
<1> USE DeliveryAssumption DEF Call, At, Done, Fault, redis, conns, users, tables,
    ghosts, Threads, Notices
<1>1. TypeOK'
  <2>1. pc' \in [Threads -> PC]
    BY SMTT(30) DEF IInv, TypeOK, PC
  <2>2. job' \in [Threads -> Notices \cup Sessions \cup {None}]
    BY DEF IInv, TypeOK
  <2>3. at' \in [Threads -> Nodes \cup {None}]
    BY DEF IInv, TypeOK
  <2>4. found' \in [Threads -> Sessions \cup {None}]
    BY DEF IInv, TypeOK
  <2> QED
    BY <2>1, <2>2, <2>3, <2>4 DEF IInv, TypeOK
<1>2. Records'
  BY RecordsKept
<1>3. ThreadsOK'
  BY SMTT(30) DEF IInv, TypeOK, Records, DigestOK, StoredOK, RouteOK, BlockedOK, FreshOnly,
      ThreadsOK, ThreadOK, Entering, Sending, Checked, Text
<1>4. OnItsWay'
  <2> SUFFICES ASSUME faults' = 0, ~overtaken', NEW s \in Sessions, Serving(s)',
                      NEW m \in Pending', m \notin Told(s)', ~Crowded(s, m)'
               PROVE  \E u \in Threads : job'[u] = m /\ Heading(u, s)'
    BY DEF OnItsWay
  <2>0. m \in Pending /\ m \in Applies /\ m \in stored /\ m \notin Told(s) /\ ~Crowded(s, m)
    BY ToldKept, PendingOK
  <2>1. faults = 0 /\ ~overtaken /\ Serving(s)
    <3>1. faults = 0 /\ ~overtaken
      BY DEF IInv, TypeOK
    <3>2. \A u \in Threads : u # n => job'[u] = job[u] \/ pc[u] = "idle"
      BY DEF IInv, TypeOK
    <3>3. Serving(s)
      BY <3>1, <3>2, ServingBefore DEF Sending
    <3> QED
      BY <3>1, <3>3
  <2>2. PICK u \in Threads : job[u] = m /\ Heading(u, s)
    BY <2>0, <2>1 DEF IInv, OnItsWay
  <2>3. CASE u # n
    BY <2>2, <2>3 DEF IInv, TypeOK, Serving, Records, DigestOK, RouteOK, BlockedOK,
        ThreadsOK, ThreadOK, Entering, Sending, Heading
  <2>4. CASE u = n
    BY <2>0, <2>1, <2>2, <2>4 DEF IInv, TypeOK, Serving, Records, DigestOK, RouteOK,
        BlockedOK, ThreadsOK, ThreadOK, Entering, Sending, Heading, Text
  <2> QED
    BY <2>3, <2>4
<1> QED
  BY <1>1, <1>2, <1>3, <1>4 DEF IInv

LEMMA CallReturnsStep ==
  ASSUME IInv, NEW n \in Nodes, CallReturns(n)
  PROVE IInv'
<1> USE DeliveryAssumption DEF CallReturns, At, Done, redis, conns, users, tables,
    ghosts, Threads, Notices
<1>1. TypeOK'
  <2>1. pc' \in [Threads -> PC]
    BY DEF IInv, TypeOK, PC
  <2>2. job' \in [Threads -> Notices \cup Sessions \cup {None}]
    BY DEF IInv, TypeOK
  <2>3. at' \in [Threads -> Nodes \cup {None}]
    BY DEF IInv, TypeOK
  <2>4. found' \in [Threads -> Sessions \cup {None}]
    BY DEF IInv, TypeOK
  <2> QED
    BY <2>1, <2>2, <2>3, <2>4 DEF IInv, TypeOK
<1>2. Records'
  BY RecordsKept
<1>3. ThreadsOK'
  BY DEF IInv, TypeOK, Records, DigestOK, StoredOK, RouteOK, BlockedOK, FreshOnly,
      ThreadsOK, ThreadOK, Entering, Sending, Checked, Text
<1>4. OnItsWay'
  <2> SUFFICES ASSUME faults' = 0, ~overtaken', NEW s \in Sessions, Serving(s)',
                      NEW m \in Pending', m \notin Told(s)', ~Crowded(s, m)'
               PROVE  \E u \in Threads : job'[u] = m /\ Heading(u, s)'
    BY DEF OnItsWay
  <2>0. m \in Pending /\ m \in Applies /\ m \in stored /\ m \notin Told(s) /\ ~Crowded(s, m)
    BY ToldKept, PendingOK
  <2>1. faults = 0 /\ ~overtaken /\ Serving(s)
    <3>1. faults = 0 /\ ~overtaken
      BY DEF IInv, TypeOK
    <3>2. \A u \in Threads : u # n => job'[u] = job[u]
      BY DEF IInv, TypeOK
    <3>3. Serving(s)
      BY <3>1, <3>2, ServingBefore DEF Sending
    <3> QED
      BY <3>1, <3>3
  <2>2. PICK u \in Threads : job[u] = m /\ Heading(u, s)
    BY <2>0, <2>1 DEF IInv, OnItsWay
  <2>3. CASE u # n
    BY <2>2, <2>3 DEF IInv, TypeOK, Serving, Records, DigestOK, RouteOK, BlockedOK,
        ThreadsOK, ThreadOK, Entering, Sending, Heading
  <2>4. CASE u = n
    BY <2>0, <2>1, <2>2, <2>4 DEF IInv, TypeOK, Serving, Records, DigestOK, RouteOK,
        BlockedOK, ThreadsOK, ThreadOK, Entering, Sending, Heading, Text
  <2> QED
    BY <2>3, <2>4
<1> QED
  BY <1>1, <1>2, <1>3, <1>4 DEF IInv

LEMMA AllowStep ==
  ASSUME IInv, NEW g \in Rpcs, Allow(g)
  PROVE IInv'
<1> USE DeliveryAssumption DEF Allow, At, Done, Fault, Goto, redis, conns, users,
    tables, ghosts, Threads, Notices
<1>1. TypeOK'
  <2>1. pc' \in [Threads -> PC]
    BY DEF IInv, TypeOK, PC
  <2>2. job' \in [Threads -> Notices \cup Sessions \cup {None}]
    BY DEF IInv, TypeOK
  <2>3. at' \in [Threads -> Nodes \cup {None}]
    BY DEF IInv, TypeOK
  <2>4. found' \in [Threads -> Sessions \cup {None}]
    BY DEF IInv, TypeOK
  <2> QED
    BY <2>1, <2>2, <2>3, <2>4 DEF IInv, TypeOK
<1>2. Records'
  BY RecordsKept
<1>3. ThreadsOK'
  BY DEF IInv, TypeOK, Records, DigestOK, StoredOK, RouteOK, BlockedOK, FreshOnly,
      ThreadsOK, ThreadOK, Entering, Sending, Checked, Text
<1>4. OnItsWay'
  <2> SUFFICES ASSUME faults' = 0, ~overtaken', NEW s \in Sessions, Serving(s)',
                      NEW m \in Pending', m \notin Told(s)', ~Crowded(s, m)'
               PROVE  \E u \in Threads : job'[u] = m /\ Heading(u, s)'
    BY DEF OnItsWay
  <2>0. m \in Pending /\ m \in Applies /\ m \in stored /\ m \notin Told(s) /\ ~Crowded(s, m)
    BY ToldKept, PendingOK
  <2>1. faults = 0 /\ ~overtaken /\ Serving(s)
    <3>1. faults = 0 /\ ~overtaken
      BY DEF IInv, TypeOK
    <3>2. \A u \in Threads : u # g => job'[u] = job[u]
      BY DEF IInv, TypeOK
    <3>3. Serving(s)
      BY <3>1, <3>2, ServingBefore DEF Sending
    <3> QED
      BY <3>1, <3>3
  <2>2. PICK u \in Threads : job[u] = m /\ Heading(u, s)
    BY <2>0, <2>1 DEF IInv, OnItsWay
  <2>3. CASE u # g
    BY <2>2, <2>3 DEF IInv, TypeOK, Serving, Records, DigestOK, RouteOK, BlockedOK,
        ThreadsOK, ThreadOK, Entering, Sending, Heading
  <2>4. CASE u = g
    BY <2>0, <2>1, <2>2, <2>4 DEF IInv, TypeOK, Serving, Records, DigestOK, RouteOK,
        BlockedOK, ThreadsOK, ThreadOK, Entering, Sending, Heading, Text
  <2> QED
    BY <2>3, <2>4
<1> QED
  BY <1>1, <1>2, <1>3, <1>4 DEF IInv

LEMMA FindStep ==
  ASSUME IInv, NEW t \in Threads, Find(t)
  PROVE IInv'
<1> USE DeliveryAssumption DEF Find, At, Done, redis, conns, users, tables, ghosts,
    Threads, Notices
<1>1. TypeOK'
  <2>1. pc' \in [Threads -> PC]
    BY DEF IInv, TypeOK, PC
  <2>2. job' \in [Threads -> Notices \cup Sessions \cup {None}]
    BY DEF IInv, TypeOK
  <2>3. at' \in [Threads -> Nodes \cup {None}]
    BY DEF IInv, TypeOK
  <2>4. found' \in [Threads -> Sessions \cup {None}]
    BY DEF IInv, TypeOK, ThreadsOK, ThreadOK
  <2> QED
    BY <2>1, <2>2, <2>3, <2>4 DEF IInv, TypeOK
<1>2. Records'
  BY RecordsKept
<1>3. ThreadsOK'
  BY DEF IInv, TypeOK, Records, DigestOK, StoredOK, RouteOK, BlockedOK, FreshOnly,
      ThreadsOK, ThreadOK, Entering, Sending, Checked, Text
<1>4. OnItsWay'
  <2> SUFFICES ASSUME faults' = 0, ~overtaken', NEW s \in Sessions, Serving(s)',
                      NEW m \in Pending', m \notin Told(s)', ~Crowded(s, m)'
               PROVE  \E u \in Threads : job'[u] = m /\ Heading(u, s)'
    BY DEF OnItsWay
  <2>0. m \in Pending /\ m \in Applies /\ m \in stored /\ m \notin Told(s) /\ ~Crowded(s, m)
    BY ToldKept, PendingOK
  <2>1. faults = 0 /\ ~overtaken /\ Serving(s)
    <3>1. faults = 0 /\ ~overtaken
      BY DEF IInv, TypeOK
    <3>2. \A u \in Threads : u # t => job'[u] = job[u]
      BY DEF IInv, TypeOK
    <3>3. Serving(s)
      BY <3>1, <3>2, ServingBefore DEF Sending
    <3> QED
      BY <3>1, <3>3
  <2>2. PICK u \in Threads : job[u] = m /\ Heading(u, s)
    BY <2>0, <2>1 DEF IInv, OnItsWay
  <2>3. CASE u # t
    BY <2>2, <2>3 DEF IInv, TypeOK, Serving, Records, DigestOK, RouteOK, BlockedOK,
        ThreadsOK, ThreadOK, Entering, Sending, Heading
  <2>4. CASE u = t
    BY <2>0, <2>1, <2>2, <2>4 DEF IInv, TypeOK, Serving, Records, DigestOK, RouteOK,
        BlockedOK, ThreadsOK, ThreadOK, Entering, Sending, Heading, Text
  <2> QED
    BY <2>3, <2>4
<1> QED
  BY <1>1, <1>2, <1>3, <1>4 DEF IInv

LEMMA CheckStep ==
  ASSUME IInv, NEW t \in Threads, Check(t)
  PROVE IInv'
<1> USE DeliveryAssumption DEF Check, At, Done, Fault, Goto, AfterCheck, Local, Close,
    redis, users, tables, ghosts, Threads, Notices
<1>1. TypeOK'
  <2>1. pc' \in [Threads -> PC]
    BY DEF IInv, TypeOK, PC
  <2>2. closed' \in [Sessions -> BOOLEAN]
    BY DEF IInv, TypeOK
  <2>3. /\ job' \in [Threads -> Notices \cup Sessions \cup {None}]
        /\ at' \in [Threads -> Nodes \cup {None}]
        /\ found' \in [Threads -> Sessions \cup {None}]
    BY DEF IInv, TypeOK
  <2>4. faults' \in 0 .. MaxFaults
    BY DEF IInv, TypeOK
  <2>5. UNCHANGED <<token, route, listed, pushed, digest, uid_map, stored, answered,
                    blocked, storedAt, overtaken>>
    OBVIOUS
  <2> HIDE DEF Check
  <2> QED
    BY <2>1, <2>2, <2>3, <2>4, <2>5 DEF IInv, TypeOK
<1>2. Records'
  BY RecordsKept
<1>3. ThreadsOK'
  <2>1. \A u \in Threads :
          u # t => job'[u] = job[u] /\ pc'[u] = pc[u] /\ at'[u] = at[u] /\ found'[u] = found[u]
    BY DEF IInv, TypeOK
  <2>2. \A u \in Threads : u # t => ThreadOK(u)'
    BY <2>1 DEF IInv, ThreadsOK, ThreadOK, Checked, Text
  <2>3. ThreadOK(t)'
    BY SMTT(30) DEF IInv, TypeOK, Records, DigestOK, StoredOK, ThreadsOK, ThreadOK, Entering, Sending,
        Checked, Text
  <2> QED
    BY <2>2, <2>3 DEF ThreadsOK
<1>4. OnItsWay'
  <2> SUFFICES ASSUME faults' = 0, ~overtaken', NEW s \in Sessions, Serving(s)',
                      NEW m \in Pending', m \notin Told(s)', ~Crowded(s, m)'
               PROVE  \E u \in Threads : job'[u] = m /\ Heading(u, s)'
    BY DEF OnItsWay
  <2>0. m \in Pending /\ m \in Applies /\ m \in stored /\ m \notin Told(s) /\ ~Crowded(s, m)
    BY ToldKept, PendingOK
  <2>1. faults = 0 /\ ~overtaken /\ Serving(s)
    <3>1. faults = 0 /\ ~overtaken
      BY DEF IInv, TypeOK
    <3>2. \A u \in Threads : u # t => job'[u] = job[u]
      BY DEF IInv, TypeOK
    <3>4. closed[s] => closed'[s]
      BY DEF IInv, TypeOK
    <3>3. Serving(s)
      BY <3>1, <3>2, <3>4, ServingBefore DEF Sending
    <3> QED
      BY <3>1, <3>3
  <2>2. PICK u \in Threads : job[u] = m /\ Heading(u, s)
    BY <2>0, <2>1 DEF IInv, OnItsWay
  <2>3. CASE u # t
    BY <2>2, <2>3 DEF IInv, TypeOK, Serving, Records, DigestOK, RouteOK, BlockedOK,
        ThreadsOK, ThreadOK, Entering, Sending, Heading
  <2>4. CASE u = t
    BY <2>0, <2>1, <2>2, <2>4 DEF IInv, TypeOK, Serving, Records, DigestOK, RouteOK,
        BlockedOK, ThreadsOK, ThreadOK, Entering, Sending, Heading, Text
  <2> QED
    BY <2>3, <2>4
<1> QED
  BY <1>1, <1>2, <1>3, <1>4 DEF IInv

LEMMA StoredStep ==
  ASSUME IInv, NEW g \in Rpcs, Stored(g)
  PROVE IInv'
<1> USE DeliveryAssumption DEF Stored, At, Done, Goto, redis, conns, users, tables,
    ghosts, Threads, Notices
<1>1. TypeOK'
  <2>1. pc' \in [Threads -> PC]
    BY DEF IInv, TypeOK, PC
  <2>2. job' \in [Threads -> Notices \cup Sessions \cup {None}]
    BY DEF IInv, TypeOK
  <2>3. at' \in [Threads -> Nodes \cup {None}]
    BY DEF IInv, TypeOK
  <2>4. found' \in [Threads -> Sessions \cup {None}]
    BY DEF IInv, TypeOK
  <2> QED
    BY <2>1, <2>2, <2>3, <2>4 DEF IInv, TypeOK
<1>2. Records'
  BY RecordsKept
<1>3. ThreadsOK'
  BY DEF IInv, TypeOK, Records, DigestOK, StoredOK, RouteOK, BlockedOK, FreshOnly,
      ThreadsOK, ThreadOK, Entering, Sending, Checked, Text
<1>4. OnItsWay'
  <2> SUFFICES ASSUME faults' = 0, ~overtaken', NEW s \in Sessions, Serving(s)',
                      NEW m \in Pending', m \notin Told(s)', ~Crowded(s, m)'
               PROVE  \E u \in Threads : job'[u] = m /\ Heading(u, s)'
    BY DEF OnItsWay
  <2>0. m \in Pending /\ m \in Applies /\ m \in stored /\ m \notin Told(s) /\ ~Crowded(s, m)
    BY ToldKept, PendingOK
  <2>1. faults = 0 /\ ~overtaken /\ Serving(s)
    <3>1. faults = 0 /\ ~overtaken
      BY DEF IInv, TypeOK
    <3>2. \A u \in Threads : u # g => job'[u] = job[u]
      BY DEF IInv, TypeOK
    <3>3. Serving(s)
      BY <3>1, <3>2, ServingBefore DEF Sending
    <3> QED
      BY <3>1, <3>3
  <2>2. PICK u \in Threads : job[u] = m /\ Heading(u, s)
    BY <2>0, <2>1 DEF IInv, OnItsWay
  <2>3. CASE u # g
    BY <2>2, <2>3 DEF IInv, TypeOK, Serving, Records, DigestOK, RouteOK, BlockedOK,
        ThreadsOK, ThreadOK, Entering, Sending, Heading
  <2>4. CASE u = g
    BY <2>0, <2>1, <2>2, <2>4 DEF IInv, TypeOK, Serving, Records, DigestOK, RouteOK,
        BlockedOK, ThreadsOK, ThreadOK, Entering, Sending, Heading, Text
  <2> QED
    BY <2>3, <2>4
<1> QED
  BY <1>1, <1>2, <1>3, <1>4 DEF IInv

LEMMA PushStep ==
  ASSUME IInv, NEW t \in Threads, Push(t)
  PROVE IInv'
<1> USE DeliveryAssumption DEF Push, At, Done, redis, users, tables, ghosts, Threads, Notices
<1>1. TypeOK'
  <2>1. pc' \in [Threads -> PC]
    BY DEF IInv, TypeOK, PC
  <2>2. job[t] \in Notices /\ found[t] \in Sessions
    BY DEF IInv, TypeOK, ThreadsOK, ThreadOK, Sending, Checked
  <2>3. pushed' \subseteq Notices \X Sessions
    BY <2>2 DEF IInv, TypeOK
  <2> QED
    BY <2>1, <2>2, <2>3 DEF IInv, TypeOK
<1>2. Records'
  BY DEF IInv, TypeOK, Records, DigestOK, StoredOK, RouteOK, BlockedOK, FreshOnly,
      ThreadsOK, ThreadOK, Entering, Sending, Checked, Text
<1>3. ThreadsOK'
  BY DEF IInv, TypeOK, Records, DigestOK, StoredOK, RouteOK, BlockedOK, FreshOnly,
      ThreadsOK, ThreadOK, Entering, Sending, Checked, Text
<1>4. OnItsWay'
  <2> SUFFICES ASSUME faults' = 0, ~overtaken', NEW s \in Sessions, Serving(s)',
                      NEW m \in Pending', m \notin Told(s)', ~Crowded(s, m)'
               PROVE  \E u \in Threads : job'[u] = m /\ Heading(u, s)'
    BY DEF OnItsWay
  <2>1. Pending' = Pending /\ Crowded(s, m)' = Crowded(s, m) /\ m \in Applies
    BY DEF Pending, Crowded
  <2>2. m \notin Told(s)
    BY <2>1 DEF Told
  <2>3. Serving(s) /\ faults = 0 /\ ~overtaken
    <3>1. \A u \in Threads : u # t => job'[u] = job[u]
      BY DEF IInv, TypeOK
    <3> QED
      BY <3>1, ServingBefore DEF Sending
  <2>4. PICK u \in Threads : job[u] = m /\ Heading(u, s)
    BY <2>1, <2>2, <2>3 DEF IInv, OnItsWay
  <2>5. CASE u = t
    <3>1. found[t] = s /\ job[t] = m
      BY <2>4, <2>5 DEF Heading
    <3>2. <<m, s>> \in pushed'
      BY <2>3, <3>1 DEF Serving
    <3> QED
      BY <2>1, <3>2 DEF Told
  <2>6. CASE u # t
    <3>1. job'[u] = m /\ pc'[u] = pc[u] /\ at'[u] = at[u] /\ found'[u] = found[u]
      BY <2>4, <2>6 DEF IInv, TypeOK
    <3> QED
      BY <2>4, <3>1 DEF Heading
  <2> QED
    BY <2>5, <2>6
<1> QED
  BY <1>1, <1>2, <1>3, <1>4 DEF IInv

LEMMA LoginStep ==
  ASSUME IInv, NEW r \in Sessions, Login(r)
  PROVE IInv'
<1> USE DeliveryAssumption DEF Login, At, redis, conns, users, tables, ghosts, Threads,
    Notices
<1>1. TypeOK'
  BY DEF IInv, TypeOK, PC, ThreadsOK, ThreadOK, Entering, Sending, Text
<1>2. Records'
  BY DEF IInv, TypeOK, Records, DigestOK, StoredOK, RouteOK, BlockedOK, FreshOnly,
      ThreadsOK, ThreadOK, Entering, Sending, Checked, Text
<1>3. ThreadsOK'
  BY DEF IInv, TypeOK, Records, DigestOK, StoredOK, RouteOK, BlockedOK, FreshOnly,
      ThreadsOK, ThreadOK, Entering, Sending, Checked, Text
<1>4. OnItsWay'
  <2>1. /\ Pending' = Pending /\ Pending \subseteq Applies /\ Pending \subseteq stored
        /\ \A s \in Sessions : Told(s)' = Told(s)
        /\ \A s \in Sessions, m \in Applies : Crowded(s, m)' = Crowded(s, m)
    BY ToldKept, PendingOK
  <2> QED
    BY SMTT(30), <2>1 DEF IInv, TypeOK, Records, DigestOK, RouteOK, BlockedOK, OnItsWay, Serving,
      Heading, ThreadsOK, ThreadOK, Text, Entering
<1> QED
  BY <1>1, <1>2, <1>3, <1>4 DEF IInv

LEMMA SetRouteStep ==
  ASSUME IInv, NEW n \in Nodes, SetRoute(n)
  PROVE IInv'
<1> USE DeliveryAssumption DEF SetRoute, At, Goto, conns, tables, Threads, Notices
<1>1. TypeOK'
  <2>1. pc' \in [Threads -> PC]
    BY DEF IInv, TypeOK, PC
  <2>2. job[n] \in Sessions /\ Home[job[n]] = n /\ Token[job[n]] \in 1 .. MaxToken
    BY DEF IInv, TypeOK, ThreadsOK, ThreadOK, Entering
  <2>3. digest' \in [Sessions -> 0 .. MaxToken]
    BY <2>2 DEF IInv, TypeOK
  <2> QED
    BY <2>1, <2>2 DEF IInv, TypeOK
<1>2. Records'
  <2>1. PICK r \in Sessions : r = job[n] /\ Home[r] = n /\ Token[r] <= token
    BY DEF IInv, TypeOK, ThreadsOK, ThreadOK, Entering
  <2>2. Token[r] \in 1 .. MaxToken
    OBVIOUS
  <2>3. DigestOK'
    BY <2>1, <2>2 DEF IInv, TypeOK, Records, DigestOK
  <2>4. RouteOK'
    <3> SUFFICES ASSUME ~overtaken', NEW s \in Sessions, digest'[s] = token
                 PROVE  n = Home[s]
      BY DEF RouteOK
    <3>1. Token[r] = token /\ ~overtaken
      BY <2>1 DEF IInv, TypeOK
    <3>2. CASE s = r
      BY <2>1, <3>2
    <3>3. CASE s # r
      BY <2>1, <2>2, <3>1, <3>3 DEF IInv, TypeOK, Records, DigestOK
    <3> QED
      BY <3>2, <3>3
  <2>5. StoredOK' /\ BlockedOK' /\ FreshOnly'
    BY DEF IInv, Records, StoredOK, BlockedOK, FreshOnly
  <2> QED
    BY <2>3, <2>4, <2>5 DEF Records
<1>3. ThreadsOK'
  BY DEF IInv, TypeOK, Records, DigestOK, StoredOK, RouteOK, BlockedOK, FreshOnly,
      ThreadsOK, ThreadOK, Entering, Sending, Checked, Text
<1>4. OnItsWay'
  <2> SUFFICES ASSUME faults' = 0, ~overtaken', NEW s \in Sessions, Serving(s)',
                      NEW m \in Pending', m \notin Told(s)', ~Crowded(s, m)'
               PROVE  \E u \in Threads : job'[u] = m /\ Heading(u, s)'
    BY DEF OnItsWay
  <2>0. m \in Pending /\ m \in Applies /\ m \in stored /\ m \notin Told(s) /\ ~Crowded(s, m)
    BY ToldKept, PendingOK
  <2>1. faults = 0 /\ ~overtaken /\ Serving(s)
    BY <2>0 DEF IInv, TypeOK, Serving, Records, DigestOK, RouteOK, BlockedOK, ThreadsOK,
        ThreadOK, Entering, Sending
  <2>2. PICK u \in Threads : job[u] = m /\ Heading(u, s)
    BY <2>0, <2>1 DEF IInv, OnItsWay
  <2>3. CASE u # n
    BY <2>2, <2>3 DEF IInv, TypeOK, Serving, Records, DigestOK, RouteOK, BlockedOK,
        ThreadsOK, ThreadOK, Entering, Sending, Heading
  <2>4. CASE u = n
    BY <2>0, <2>1, <2>2, <2>4 DEF IInv, TypeOK, Serving, Records, DigestOK, RouteOK,
        BlockedOK, ThreadsOK, ThreadOK, Entering, Sending, Heading, Text
  <2> QED
    BY <2>3, <2>4
<1> QED
  BY <1>1, <1>2, <1>3, <1>4 DEF IInv

LEMMA InstallStep ==
  ASSUME IInv, NEW n \in Nodes, Install(n)
  PROVE IInv'
<1> USE DeliveryAssumption DEF Install, At, Goto, redis, conns, tables, ghosts,
    Threads, Notices
<1>1. TypeOK'
  <2>1. pc' \in [Threads -> PC]
    BY DEF IInv, TypeOK, PC
  <2>2. uid_map' \in [Nodes -> Sessions \cup {None}]
    BY DEF IInv, TypeOK, ThreadsOK, ThreadOK, Entering
  <2>3. found' \in [Threads -> Sessions \cup {None}]
    BY DEF IInv, TypeOK
  <2> QED
    BY <2>1, <2>2, <2>3 DEF IInv, TypeOK
<1>2. Records'
  BY DEF IInv, TypeOK, Records, DigestOK, StoredOK, RouteOK, BlockedOK, FreshOnly,
      ThreadsOK, ThreadOK, Entering, Sending, Checked, Text
<1>3. ThreadsOK'
  BY DEF IInv, TypeOK, Records, DigestOK, StoredOK, RouteOK, BlockedOK, FreshOnly,
      ThreadsOK, ThreadOK, Entering, Sending, Checked, Text
<1>4. OnItsWay'
  <2> SUFFICES ASSUME faults' = 0, ~overtaken', NEW s \in Sessions, Serving(s)',
                      NEW m \in Pending', m \notin Told(s)', ~Crowded(s, m)'
               PROVE  \E u \in Threads : job'[u] = m /\ Heading(u, s)'
    BY DEF OnItsWay
  <2>0. m \in Pending /\ m \in Applies /\ m \notin Told(s) /\ ~Crowded(s, m)
    BY ToldKept, PendingOK
  <2>1. \A u \in Threads :
          /\ job'[u] = job[u] /\ at'[u] = at[u]
          /\ u # n => pc'[u] = pc[u] /\ found'[u] = found[u]
    BY DEF IInv, TypeOK
  <2>2. job[n] # s
    BY <2>1 DEF Serving
  <2>3. Serving(s)
    <3>1. uid_map[Home[s]] = s
      BY <2>2 DEF IInv, TypeOK, Serving
    <3> QED
      BY <2>1, <3>1 DEF Serving
  <2>4. PICK u \in Threads : job[u] = m /\ Heading(u, s)
    BY <2>0, <2>3 DEF IInv, OnItsWay
  <2>5. u # n
    BY <2>4 DEF Heading
  <2> QED
    BY <2>1, <2>4, <2>5 DEF Heading
<1> QED
  BY <1>1, <1>2, <1>3, <1>4 DEF IInv

LEMMA ReplaceStep ==
  ASSUME IInv, NEW n \in Nodes, Replace(n)
  PROVE IInv'
<1> USE DeliveryAssumption DEF Replace, At, Goto, Close, redis, users, tables, ghosts,
    Threads, Notices
<1>1. TypeOK'
  BY DEF IInv, TypeOK, PC, ThreadsOK, ThreadOK, Entering, Sending, Text
<1>2. Records'
  BY RecordsKept
<1>3. ThreadsOK'
  BY DEF IInv, TypeOK, Records, DigestOK, StoredOK, RouteOK, BlockedOK, FreshOnly,
      ThreadsOK, ThreadOK, Entering, Sending, Checked, Text
<1>4. OnItsWay'
  <2> SUFFICES ASSUME faults' = 0, ~overtaken', NEW s \in Sessions, Serving(s)',
                      NEW m \in Pending', m \notin Told(s)', ~Crowded(s, m)'
               PROVE  \E u \in Threads : job'[u] = m /\ Heading(u, s)'
    BY DEF OnItsWay
  <2>0. m \in Pending /\ m \in Applies /\ m \notin Told(s) /\ ~Crowded(s, m)
    BY ToldKept, PendingOK
  <2>1. \A u \in Threads :
          /\ job'[u] = job[u] /\ at'[u] = at[u] /\ found'[u] = found[u]
          /\ u # n => pc'[u] = pc[u]
    BY DEF IInv, TypeOK
  <2>2. closed[s] => closed'[s]
    BY DEF IInv, TypeOK
  <2>3. Serving(s)
    BY <2>1, <2>2 DEF Serving
  <2>4. PICK u \in Threads : job[u] = m /\ Heading(u, s)
    BY <2>0, <2>3 DEF IInv, OnItsWay
  <2>5. u # n
    BY <2>4 DEF Heading
  <2> QED
    BY <2>1, <2>4, <2>5 DEF Heading
<1> QED
  BY <1>1, <1>2, <1>3, <1>4 DEF IInv

LEMMA ListStep ==
  ASSUME IInv, NEW n \in Nodes, List(n)
  PROVE IInv'
<1> USE DeliveryAssumption DEF List, At, Done, Reply, Fault, conns, redis, users, tables,
    ghosts, Threads, Notices
<1>1. TypeOK'
  <2>1. pc' \in [Threads -> PC] /\ faults' \in 0 .. MaxFaults
    BY DEF IInv, TypeOK, PC
  <2>2. listed' \in [Sessions -> SUBSET Applies]
    <3>1. CASE listed' = listed
      BY <3>1 DEF IInv, TypeOK
    <3>2. ASSUME NEW L \in SUBSET Pending, Reply(n, L)
          PROVE  listed' \in [Sessions -> SUBSET Applies]
      <4>1. L \in SUBSET Applies
        BY PendingOK
      <4>2. listed' = listed \/ listed' = [listed EXCEPT ![job[n]] = L]
        BY <3>2
      <4>3. listed \in [Sessions -> SUBSET Applies]
        BY DEF IInv, TypeOK
      <4> HIDE DEF Reply, List, Notices
      <4> QED
        BY <4>1, <4>2, <4>3
    <3> QED
      BY <3>1, <3>2
  <2> QED
    BY <2>1, <2>2 DEF IInv, TypeOK
<1>2. Records'
  BY RecordsKept
<1>3. ThreadsOK'
  BY DEF IInv, TypeOK, Records, DigestOK, StoredOK, RouteOK, BlockedOK, FreshOnly,
      ThreadsOK, ThreadOK, Entering, Sending, Checked, Text
<1>4. OnItsWay'
  <2> SUFFICES ASSUME faults' = 0, ~overtaken', NEW s \in Sessions, Serving(s)',
                      NEW m \in Pending', m \notin Told(s)', ~Crowded(s, m)'
               PROVE  \E u \in Threads : job'[u] = m /\ Heading(u, s)'
    BY DEF OnItsWay
  <2>1. /\ m \in Pending /\ faults = 0 /\ ~overtaken /\ UNCHANGED <<closed, pushed>>
        /\ \E L \in SUBSET Pending : Reply(n, L)
    <3>1. faults = 0 /\ faults' # faults + 1
      BY DEF IInv, TypeOK
    <3> QED
      BY <3>1 DEF Pending
  <2>2. PICK L \in SUBSET Pending : Reply(n, L)
    BY <2>1
  <2>3. job[n] \in Sessions /\ s \notin Notices /\ L \subseteq Applies
    BY PendingOK DEF IInv, ThreadsOK, ThreadOK, Entering
  <2>4. CASE job[n] = s
    <3>1. listed'[s] = L
      BY <2>2, <2>4 DEF IInv, TypeOK, Serving
    <3>2. m \notin L
      BY <3>1 DEF Told
    <3>3. Cardinality(L) = MaxList /\ \A a \in L : a < m
      BY <2>1, <2>2, <3>2 DEF FirstOf
    <3> QED
      BY <3>1, <3>3 DEF Crowded
  <2>5. CASE job[n] # s
    <3>1. listed'[s] = listed[s]
      BY <2>2, <2>3, <2>5 DEF IInv, TypeOK
    <3>2. m \notin Told(s) /\ ~Crowded(s, m)
      BY <2>1, <3>1 DEF Told, Crowded
    <3>3. Serving(s)
      BY <2>1, <2>5 DEF IInv, TypeOK, Serving
    <3>4. PICK u \in Threads : job[u] = m /\ Heading(u, s)
      BY <2>1, <3>2, <3>3 DEF IInv, OnItsWay
    <3>5. u # n
      BY <3>4 DEF Heading
    <3>6. job'[u] = m /\ pc'[u] = pc[u] /\ at'[u] = at[u] /\ found'[u] = found[u]
      BY <3>4, <3>5 DEF IInv, TypeOK
    <3> QED
      BY <3>4, <3>6 DEF Heading
  <2> QED
    BY <2>4, <2>5
<1> QED
  BY <1>1, <1>2, <1>3, <1>4 DEF IInv

LEMMA IssueStep ==
  ASSUME IInv, Issue
  PROVE IInv'
<1> USE DeliveryAssumption DEF Issue, conns, users, tables, threads, ghosts, Threads,
    Notices
<1>1. TypeOK'
  BY DEF IInv, TypeOK, PC, ThreadsOK, ThreadOK, Entering, Sending, Text
<1>2. Records'
  BY DEF IInv, TypeOK, Records, DigestOK, StoredOK, RouteOK, BlockedOK, FreshOnly,
      ThreadsOK, ThreadOK, Entering, Sending, Checked, Text
<1>3. ThreadsOK'
  BY DEF IInv, TypeOK, Records, DigestOK, StoredOK, RouteOK, BlockedOK, FreshOnly,
      ThreadsOK, ThreadOK, Entering, Sending, Checked, Text
<1>4. OnItsWay'
  <2>1. /\ Pending' = Pending /\ Pending \subseteq Applies /\ Pending \subseteq stored
        /\ \A s \in Sessions : Told(s)' = Told(s)
        /\ \A s \in Sessions, m \in Applies : Crowded(s, m)' = Crowded(s, m)
    BY ToldKept, PendingOK
  <2> QED
    BY <2>1 DEF IInv, TypeOK, Records, DigestOK, RouteOK, BlockedOK, OnItsWay, Serving,
      Heading, ThreadsOK, ThreadOK, Text, Entering
<1> QED
  BY <1>1, <1>2, <1>3, <1>4 DEF IInv

LEMMA AnswerStep ==
  ASSUME IInv, NEW r \in Sessions, NEW a \in Applies, Answer(r, a)
  PROVE IInv'
<1> USE DEF Answer, redis, conns, users, threads, ghosts
<1>1. TypeOK'
  BY DEF IInv, TypeOK
<1>2. Records'
  BY DEF IInv, Records, DigestOK, StoredOK, RouteOK, BlockedOK, FreshOnly
<1>3. ThreadsOK'
  BY DEF IInv, ThreadsOK, ThreadOK, Checked, Text
<1>4. OnItsWay'
  <2>1. Pending' \subseteq Pending
    BY DEF Pending
  <2> QED
    BY <2>1 DEF IInv, OnItsWay, Serving, Heading, Told, Crowded
<1> QED
  BY <1>1, <1>2, <1>3, <1>4 DEF IInv

LEMMA BlockStep ==
  ASSUME IInv, Block
  PROVE IInv'
<1> USE DeliveryAssumption DEF Block, Fault, redis, conns, users, threads, ghosts,
    Threads, Notices
<1>1. TypeOK'
  BY DEF IInv, TypeOK, PC, ThreadsOK, ThreadOK, Entering, Sending, Text
<1>2. Records'
  BY DEF IInv, TypeOK, Records, DigestOK, StoredOK, RouteOK, BlockedOK, FreshOnly,
      ThreadsOK, ThreadOK, Entering, Sending, Checked, Text
<1>3. ThreadsOK'
  BY DEF IInv, TypeOK, Records, DigestOK, StoredOK, RouteOK, BlockedOK, FreshOnly,
      ThreadsOK, ThreadOK, Entering, Sending, Checked, Text
<1>4. OnItsWay'
  <2>1. /\ Pending' = Pending /\ Pending \subseteq Applies /\ Pending \subseteq stored
        /\ \A s \in Sessions : Told(s)' = Told(s)
        /\ \A s \in Sessions, m \in Applies : Crowded(s, m)' = Crowded(s, m)
    BY ToldKept, PendingOK
  <2> QED
    BY <2>1 DEF IInv, TypeOK, Records, DigestOK, RouteOK, BlockedOK, OnItsWay, Serving,
      Heading, ThreadsOK, ThreadOK, Text, Entering
<1> QED
  BY <1>1, <1>2, <1>3, <1>4 DEF IInv

LEMMA DisconnectStep ==
  ASSUME IInv, NEW r \in Sessions, Disconnect(r)
  PROVE IInv'
<1> USE DeliveryAssumption DEF Disconnect, Close, redis, users, tables, threads,
    ghosts, Threads, Notices
<1>1. TypeOK'
  BY DEF IInv, TypeOK, PC, ThreadsOK, ThreadOK, Entering, Sending, Text
<1>2. Records'
  BY RecordsKept
<1>3. ThreadsOK'
  BY DEF IInv, TypeOK, Records, DigestOK, StoredOK, RouteOK, BlockedOK, FreshOnly,
      ThreadsOK, ThreadOK, Entering, Sending, Checked, Text
<1>4. OnItsWay'
  <2>1. /\ Pending' = Pending /\ Pending \subseteq Applies /\ Pending \subseteq stored
        /\ \A s \in Sessions : Told(s)' = Told(s)
        /\ \A s \in Sessions, m \in Applies : Crowded(s, m)' = Crowded(s, m)
    BY ToldKept, PendingOK
  <2> QED
    BY <2>1 DEF IInv, TypeOK, Records, DigestOK, RouteOK, BlockedOK, OnItsWay, Serving,
      Heading, ThreadsOK, ThreadOK, Text, Entering
<1> QED
  BY <1>1, <1>2, <1>3, <1>4 DEF IInv

LEMMA ClearStep ==
  ASSUME IInv, NEW r \in Sessions, Clear(r)
  PROVE IInv'
<1> USE DeliveryAssumption DEF Clear, redis, conns, tables, threads, ghosts, Threads, Notices
<1>1. TypeOK'
  BY DEF IInv, TypeOK, PC, ThreadsOK, ThreadOK, Entering, Sending, Text
<1>2. Records'
  BY RecordsKept
<1>3. ThreadsOK'
  BY DEF IInv, TypeOK, Records, DigestOK, StoredOK, RouteOK, BlockedOK, FreshOnly,
      ThreadsOK, ThreadOK, Entering, Sending, Checked, Text
<1>4. OnItsWay'
  <2> SUFFICES ASSUME faults' = 0, ~overtaken', NEW s \in Sessions, Serving(s)',
                      NEW m \in Pending', m \notin Told(s)', ~Crowded(s, m)'
               PROVE  \E u \in Threads : job'[u] = m /\ Heading(u, s)'
    BY DEF OnItsWay
  <2>1. uid_map[Home[s]] = s
    <3>1. Home[s] \in Nodes /\ s # None /\ uid_map'[Home[s]] = s
      BY DEF Serving
    <3> QED
      BY <3>1
  <2>2. faults = 0 /\ ~overtaken /\ Serving(s) /\ m \in Pending /\ m \notin Told(s) /\ ~Crowded(s, m)
    BY <2>1, ToldKept, PendingOK DEF Serving
  <2>3. PICK u \in Threads : job[u] = m /\ Heading(u, s)
    BY <2>2 DEF IInv, OnItsWay
  <2> QED
    BY <2>3 DEF Heading
<1> QED
  BY <1>1, <1>2, <1>3, <1>4 DEF IInv

(***************************************************************************)
(* The theorems.                                                           *)
(***************************************************************************)
LEMMA StutterStep == IInv /\ UNCHANGED vars => IInv'
<1> SUFFICES ASSUME IInv, UNCHANGED vars PROVE IInv'
  OBVIOUS
<1> USE DEF vars, redis, conns, users, tables, threads, ghosts
<1>1. TypeOK'
  BY DEF IInv, TypeOK
<1>2. Records'
  BY DEF IInv, Records, DigestOK, StoredOK, RouteOK, BlockedOK, FreshOnly
<1>3. ThreadsOK'
  BY DEF IInv, ThreadsOK, ThreadOK, Checked, Text
<1>4. OnItsWay'
  <2>1. /\ Pending' = Pending /\ Pending \subseteq Applies /\ Pending \subseteq stored
        /\ \A s \in Sessions : Told(s)' = Told(s)
        /\ \A s \in Sessions, m \in Applies : Crowded(s, m)' = Crowded(s, m)
    BY ToldKept, PendingOK
  <2> QED
    BY <2>1 DEF IInv, OnItsWay, Serving, Heading
<1> QED
  BY <1>1, <1>2, <1>3, <1>4 DEF IInv

LEMMA StepHolds == IInv /\ [Next]_vars => IInv'
<1> SUFFICES ASSUME IInv, [Next]_vars PROVE IInv'
  OBVIOUS
<1>1. CASE \E n \in Nodes, m \in Notices : Store(n, m)
  BY <1>1, StoreStep
<1>2. CASE \E s \in Sessions :
              \/ Login(s) \/ Disconnect(s) \/ Clear(s)
              \/ \E m \in Applies : Answer(s, m)
  BY <1>2, LoginStep, DisconnectStep, ClearStep, AnswerStep
<1>3. CASE Deliver
  <2>1. CASE \E n \in Nodes : ReadRoute(n) \/ CallReturns(n) \/ \E g \in Rpcs : Call(n, g)
    BY <2>1, ReadRouteStep, CallReturnsStep, CallStep
  <2>2. CASE \E t \in Threads : Find(t) \/ Check(t) \/ Push(t)
    BY <2>2, FindStep, CheckStep, PushStep
  <2>3. CASE \E g \in Rpcs : Allow(g) \/ Stored(g)
    BY <2>3, AllowStep, StoredStep
  <2> QED
    BY <1>3, <2>1, <2>2, <2>3 DEF Deliver
<1>4. CASE Enter
  BY <1>4, SetRouteStep, InstallStep, ReplaceStep, ListStep DEF Enter
<1>5. CASE Issue \/ Block
  BY <1>5, IssueStep, BlockStep
<1>6. CASE UNCHANGED vars
  BY <1>6, StutterStep
<1> QED
  BY <1>1, <1>2, <1>3, <1>4, <1>5, <1>6 DEF Next

\* The inductive invariant: what a thread found is what the maps held when it
\* looked, and an application that is pending and was not told is on its way, or
\* newer than a full list.
THEOREM Invariance == Spec => []IInv
<1> QED
  BY InitHolds, StepHolds, PTL DEF Spec

\* Every variable of the notification paths keeps its type: a thread that uses a
\* node it read or a session it found holds one.
THEOREM TypeCorrect == Spec => []TypeOK
<1>1. IInv => TypeOK
  BY DEF IInv
<1> QED
  BY <1>1, Invariance, PTL

\* Nothing stored after a session's token was replaced is pushed over it: the
\* token is compared after the session is found, on every way to a push.
THEOREM PushesAreFresh == Spec => []FreshOnly
<1>1. IInv => FreshOnly
  BY DEF IInv, Records
<1> QED
  BY <1>1, Invariance, PTL

\* An application that races its recipient's login reaches the login: it is
\* pushed, or in the list of the reply, or newer than MaxList others which that
\* list names, unless a fault or a later login came between.
THEOREM LoginsAreInformed == Spec => []Informed
<1>1. IInv => Informed
  BY DEF IInv, OnItsWay, Informed
<1> QED
  BY <1>1, Invariance, PTL
===============================================================================
