----------------------------- MODULE LoginRouting -----------------------------
(***************************************************************************)
(* The registration of chat nodes in the Redis hash LOGIN_COUNT: main() of *)
(* ChatServer registers and removes the node, its logic thread counts      *)
(* logins with HGET and HSET, and StatusServer scans the hash for the node *)
(* with the fewest logins.                                                 *)
(*                                                                         *)
(* A process is one container; its node's name is a configuration value,   *)
(* so a replacement process has the same name.                             *)
(***************************************************************************)
EXTENDS Integers

CONSTANTS
  Procs,          \* ChatServer processes, each started once
  Names,          \* SelfServer.Name
  Name,           \* the name of each process
  NoName,
  MaxLogins,      \* bound: login packets of all processes
  MaxNodeFaults,  \* bound: failed Redis commands and kills
  MaxScans        \* bound: calls of getChatServer

INT_MAX == 2147483647

\* Counts stay below what an int holds.
ASSUME RoutingAssumption ==
  /\ Name \in [Procs -> Names] /\ NoName \notin Names
  /\ MaxLogins \in Nat /\ MaxLogins < INT_MAX
  /\ MaxNodeFaults \in Nat /\ MaxScans \in Nat

Absent == -1   \* HGET of a field that is not there: ""

VARIABLES
  login_count,  \* the Redis hash, per name
  phase,        \* where main() of a process is
  posted, done, \* login packets put into the queue and taken from it
  packets,      \* login packets of all processes
  wpc, count,   \* the logic thread in LoginHandler and its local
  todo, least,  \* getChatServer: servers left to read, minServer
  routed,       \* its last result
  logins,       \* history: HSETs of a process that counted a login
  lost,         \* history: Redis failed a process
  witnesses,    \* history: processes serving when the scan began
  nodeFaults, scans

registry == <<login_count, phase>>
queue == <<posted, packets>>
worker == <<queue, done, wpc, count>>
scanning == <<todo, least, routed, witnesses, scans>>
history == <<logins, lost>>
routingVars == <<registry, worker, scanning, history, nodeFaults>>

Phase == {"new", "listening", "serving", "stopping", "ended", "closing", "closed",
          "stopped", "dead"}
WPC == {"idle", "token", "hget", "hset", "sent"}
Alive(p) == phase[p] \notin {"new", "stopped", "dead"}
NoServer == [name |-> NoName, con_count |-> INT_MAX]

\* A Redis call of a process: its pool refuses after Close, and may fail.
Refused(p) == phase[p] = "closed"
Fails(p) == /\ nodeFaults < MaxNodeFaults
            /\ nodeFaults' = nodeFaults + 1
            /\ lost' = lost \cup {p}
Works == UNCHANGED <<nodeFaults, lost>>

RoutingInit ==
  /\ login_count = [n \in Names |-> Absent]
  /\ phase = [p \in Procs |-> "new"]
  /\ posted = [p \in Procs |-> 0] /\ packets = 0 /\ done = [p \in Procs |-> 0]
  /\ wpc = [p \in Procs |-> "idle"] /\ count = [p \in Procs |-> 0]
  /\ todo = {} /\ least = NoServer /\ routed = NoServer
  /\ logins = [p \in Procs |-> 0] /\ lost = {} /\ witnesses = {}
  /\ nodeFaults = 0 /\ scans = 0

(***************************************************************************)
(* main().                                                                 *)
(***************************************************************************)
Goto(p, ph) == phase' = [phase EXCEPT ![p] = ph]

\* Mutant: the new process starts before the old one has gone (start-first).
StartFirst(p) ==
  /\ phase[p] = "new"
  /\ Goto(p, "listening")
  /\ UNCHANGED <<login_count, worker, scanning, history, nodeFaults>>

\* One replica and stop-first: no other process of that name is running.
Start(p) ==
  /\ phase[p] = "new"
  /\ \A q \in Procs : Name[q] = Name[p] => ~Alive(q)
  /\ Goto(p, "listening")
  /\ UNCHANGED <<login_count, worker, scanning, history, nodeFaults>>

\* HSet "0", or "Cannot register ChatServer" and the end of the process.
Register(p) ==
  /\ phase[p] = "listening"
  /\ \/ /\ Works
        /\ login_count' = [login_count EXCEPT ![Name[p]] = 0]
        /\ Goto(p, "serving")
     \/ /\ Fails(p)
        /\ \/ UNCHANGED login_count
           \/ login_count' = [login_count EXCEPT ![Name[p]] = 0]
        /\ Goto(p, "dead")
  /\ UNCHANGED <<worker, scanning, logins>>

\* HDel: done, or not done because Redis fails.
HDel(p) ==
  \/ Works /\ login_count' = [login_count EXCEPT ![Name[p]] = Absent]
  \/ Fails(p) /\ (UNCHANGED login_count \/ login_count' = [login_count EXCEPT ![Name[p]] = Absent])

\* The handler of SIGTERM: HDel, then the services stop; the logic thread goes on.
Signal(p) ==
  /\ phase[p] = "serving"
  /\ HDel(p)
  /\ Goto(p, "stopping")
  /\ UNCHANGED <<worker, scanning, logins>>

\* pool->Stop() has joined the I/O threads and io_context.run() returns.
RunReturns(p) ==
  /\ phase[p] = "stopping"
  /\ Goto(p, "ended")
  /\ UNCHANGED <<login_count, worker, scanning, history, nodeFaults>>

\* The second HDel, for logins counted since the first.
RemoveAgain(p) ==
  /\ phase[p] = "ended"
  /\ HDel(p)
  /\ Goto(p, "closing")
  /\ UNCHANGED <<worker, scanning, logins>>

\* RedisMgr::Close: connections that are in use stay open until they return.
CloseRedis(p) ==
  /\ phase[p] = "closing"
  /\ Goto(p, "closed")
  /\ UNCHANGED <<login_count, worker, scanning, history, nodeFaults>>

\* ~LogicSystem joins the logic thread once it has emptied the queue.
Exit(p) ==
  /\ phase[p] = "closed" /\ wpc[p] = "idle" /\ done[p] = posted[p]
  /\ Goto(p, "stopped")
  /\ UNCHANGED <<login_count, worker, scanning, history, nodeFaults>>

\* The process is killed; Redis may still execute a command it has sent.
KillNode(p) ==
  /\ Alive(p) /\ Fails(p)
  /\ Goto(p, "dead")
  /\ \/ UNCHANGED login_count
     \/ \E v \in {count[p] : x \in {"sent"} \cap {wpc[p]}}
                 \cup {0 : x \in {"listening"} \cap {phase[p]}}
                 \cup {Absent : x \in {"serving", "ended"} \cap {phase[p]}} :
          login_count' = [login_count EXCEPT ![Name[p]] = v]
  /\ UNCHANGED <<worker, scanning, logins>>

(***************************************************************************)
(* The logic thread: LoginHandler.                                         *)
(***************************************************************************)
At(p, label) == wpc' = [wpc EXCEPT ![p] = label]

\* A login packet is read and put into the queue.
Post(p) ==
  /\ phase[p] \in {"serving", "stopping"} /\ packets < MaxLogins
  /\ packets' = packets + 1 /\ posted' = [posted EXCEPT ![p] = @ + 1]
  /\ UNCHANGED <<registry, done, wpc, count, scanning, history, nodeFaults>>

Take(p) ==
  /\ Alive(p) /\ wpc[p] = "idle" /\ done[p] < posted[p]
  /\ done' = [done EXCEPT ![p] = @ + 1]
  /\ At(p, "token")
  /\ UNCHANGED <<registry, queue, count, scanning, history, nodeFaults>>

\* Token and profile: a wrong token, or Redis gone, ends the login.
Authenticate(p) ==
  /\ Alive(p) /\ wpc[p] = "token"
  /\ \/ At(p, "idle") /\ Works
     \/ ~Refused(p) /\ At(p, "hget") /\ Works
     \/ At(p, "idle") /\ Fails(p)
  /\ UNCHANGED <<registry, queue, done, count, scanning, logins>>

\* HGet of LOGIN_COUNT; "" is counted from 0.
HGet(p) ==
  /\ Alive(p) /\ wpc[p] = "hget"
  /\ LET seen == login_count[Name[p]]
     IN  \/ ~Refused(p) /\ Works /\ count' = [count EXCEPT ![p] = IF seen = Absent THEN 1 ELSE seen + 1]
         \/ Refused(p) /\ Works /\ count' = [count EXCEPT ![p] = 1]
         \/ Fails(p) /\ count' = [count EXCEPT ![p] = 1]
  /\ At(p, "hset")
  /\ UNCHANGED <<registry, queue, done, scanning, logins>>

\* HSet takes a connection of the pool, or none after Close: not counted.
HSetConnection(p) ==
  /\ Alive(p) /\ wpc[p] = "hset"
  /\ \/ ~Refused(p) /\ At(p, "sent") /\ Works
     \/ Refused(p) /\ At(p, "idle") /\ Works
     \/ Fails(p) /\ At(p, "idle")
  /\ UNCHANGED <<registry, queue, done, count, scanning, logins>>

\* The command itself, on a connection that Close does not take away.
HSet(p) ==
  /\ Alive(p) /\ wpc[p] = "sent"
  /\ At(p, "idle")
  /\ \/ /\ Works
        /\ login_count' = [login_count EXCEPT ![Name[p]] = count[p]]
        /\ logins' = [logins EXCEPT ![p] = @ + 1]
     \/ /\ Fails(p)
        /\ UNCHANGED <<login_count, logins>>
     \/ /\ Fails(p)
        /\ login_count' = [login_count EXCEPT ![Name[p]] = count[p]]
        /\ logins' = [logins EXCEPT ![p] = @ + 1]
  /\ UNCHANGED <<phase, queue, done, count, scanning>>

(***************************************************************************)
(* getChatServer, under _server_mtx.                                       *)
(***************************************************************************)
ScanBegin ==
  /\ todo = {} /\ scans < MaxScans
  /\ scans' = scans + 1
  /\ todo' = Names /\ least' = NoServer
  /\ witnesses' = {p \in Procs : phase[p] = "serving"}
  /\ UNCHANGED <<registry, worker, routed, history, nodeFaults>>

\* A server is read and compared; the last one ends the scan.
Compare(n, new) ==
  /\ n \in todo
  /\ todo' = todo \ {n}
  /\ least' = new
  /\ routed' = IF todo = {n} THEN new ELSE routed
  /\ UNCHANGED <<registry, worker, scans, logins>>

\* Mutant: any registered server replaces minServer.
ScanTakesAny(n) ==
  /\ Works /\ UNCHANGED witnesses
  /\ Compare(n, IF login_count[n] # Absent
                THEN [name |-> n, con_count |-> login_count[n]] ELSE least)

\* HGet of one server's count: "" is skipped.
Scan(n) ==
  \/ /\ Works /\ UNCHANGED witnesses
     /\ Compare(n, IF login_count[n] # Absent /\ login_count[n] < least.con_count
                   THEN [name |-> n, con_count |-> login_count[n]] ELSE least)
  \/ /\ nodeFaults < MaxNodeFaults /\ nodeFaults' = nodeFaults + 1 /\ UNCHANGED lost
     /\ witnesses' = {p \in witnesses : Name[p] # n}
     /\ Compare(n, least)

Main(p) == \/ Start(p) \/ Register(p) \/ Signal(p) \/ RunReturns(p)
           \/ RemoveAgain(p) \/ CloseRedis(p) \/ Exit(p) \/ KillNode(p)
Worker(p) == \/ Take(p) \/ Authenticate(p) \/ HGet(p) \/ HSetConnection(p) \/ HSet(p)

RoutingNext == \/ \E p \in Procs : Main(p) \/ Post(p) \/ Worker(p)
               \/ ScanBegin
               \/ \E n \in Names : Scan(n)

RoutingSpec == RoutingInit /\ [][RoutingNext]_routingVars

(***************************************************************************)
(* Properties.                                                             *)
(***************************************************************************)
\* Types; in particular a count never exceeds the logins of one process.
RoutingTypeOK ==
  /\ login_count \in [Names -> Absent .. MaxLogins]
  /\ phase \in [Procs -> Phase] /\ wpc \in [Procs -> WPC]
  /\ packets \in 0 .. MaxLogins
  /\ posted \in [Procs -> 0 .. MaxLogins] /\ done \in [Procs -> 0 .. MaxLogins]
  /\ count \in [Procs -> 0 .. MaxLogins] /\ logins \in [Procs -> 0 .. MaxLogins]
  /\ todo \subseteq Names
  /\ least \in [name : Names \cup {NoName}, con_count : 0 .. MaxLogins \cup {INT_MAX}]
  /\ routed \in [name : Names \cup {NoName}, con_count : 0 .. MaxLogins \cup {INT_MAX}]
  /\ lost \subseteq Procs /\ witnesses \subseteq Procs
  /\ nodeFaults \in 0 .. MaxNodeFaults /\ scans \in 0 .. MaxScans

\* Each logical node survives a replacement and is registered again: no process
\* of its name that came before, no kill of one and no Redis failure takes a
\* serving node's registration away.  HGET and HSET are two calls, but only one
\* thread of one process makes them for a name: unless Redis failed it, the count
\* is exactly the logins it counted, whatever an earlier process left behind.
CountExact ==
  \A p \in Procs : phase[p] = "serving" =>
    /\ login_count[Name[p]] # Absent
    /\ p \notin lost => login_count[Name[p]] = logins[p]

\* getChatServer reads the servers one after the other while counts change:
\* whenever some node served throughout and could be read, a server is found,
\* and it had no more logins than each of those nodes has now.
ChosenIsLeast ==
  \A p \in witnesses :
    (todo = {} /\ scans > 0 /\ phase[p] = "serving" /\ p \notin lost) =>
      /\ routed.name # NoName
      /\ routed.con_count <= login_count[Name[p]]

\* StatusServiceImpl.cpp:113: "A stopped node removes its registration; do not
\* route logins to it."  A node whose process stopped in order, without a Redis
\* failure, is not registered.
StoppedIsUnregistered ==
  \A p \in Procs : (/\ phase[p] = "stopped" /\ p \notin lost
                    /\ \A q \in Procs \ {p} : Name[q] = Name[p] => phase[q] = "new")
                     => login_count[Name[p]] = Absent
==============================================================================
