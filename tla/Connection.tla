------------------------------ MODULE Connection ------------------------------
(***************************************************************************)
(* One TCP connection of a ChatServer (CSession) below the level of        *)
(* SessionLifecycle: Send from other threads, the strand with the handlers *)
(* posted to it, the outgoing queue and its one asynchronous write, the    *)
(* read deadline, and Close.                                               *)
(***************************************************************************)
EXTENDS Naturals, Sequences, FiniteSets, SequencesExt

CONSTANTS
  Conns,
  Threads,      \* threads that call Send: the logic worker and gRPC handlers
  Packets,
  Large,        \* packets longer than a short can say
  MaxSend,      \* MAX_SENDQUE (1000 in the code)
  MaxPosts,     \* bound: calls of Send
  MaxReads,     \* bound: reads completed on all connections
  MaxErrors,    \* bound: deadlines that expire, writes that fail on an open socket
  Closing,      \* the handler that Close posts
  NoCall

ASSUME ConnectionAssumption ==
  /\ Closing \notin Packets /\ Large \subseteq Packets
  /\ NoCall \notin [s : Conns, p : Packets, step : {"count", "over", "dispatch", "refuse"}]
  /\ MaxSend \in Nat \ {0} /\ MaxPosts \in Nat /\ MaxReads \in Nat /\ MaxErrors \in Nat

VARIABLES
  b_close, open,   \* _b_close; the socket is open
  tasks,          \* handlers posted to the strand, in order
  scheduled,      \* _scheduledSends
  que, flight,    \* _send_que; the asynchronous write of its front
  wire,           \* what the socket has taken
  call,           \* the Send a thread is executing
  generation, armed,     \* _readGeneration; the deadline timer is running
  expired,               \* deadline handlers ready to run
  sends, reads, errors,
  posted,                \* all packets ever dispatched to the strand, in order
  arming                 \* how often the deadline has been armed

socket == <<b_close, open>>
sending == <<scheduled, call, sends>>
writing == <<que, flight, wire>>
reading == <<generation, armed, expired, reads, arming>>
connVars == <<socket, tasks, sending, writing, reading, errors, posted>>

IsPacket(x) == x \in Packets

ConnInit ==
  /\ b_close = [s \in Conns |-> FALSE] /\ open = [s \in Conns |-> TRUE]
  /\ tasks = [s \in Conns |-> <<>>] /\ scheduled = [s \in Conns |-> 0]
  /\ que = [s \in Conns |-> <<>>] /\ flight = [s \in Conns |-> "none"]
  /\ wire = [s \in Conns |-> <<>>] /\ posted = [s \in Conns |-> <<>>]
  /\ call = [t \in Threads |-> NoCall]
  /\ generation = [s \in Conns |-> 1] /\ armed = [s \in Conns |-> TRUE]
  /\ arming = [s \in Conns |-> 1]
  /\ expired = [s \in Conns |-> {}] /\ sends = 0 /\ reads = 0 /\ errors = 0

(***************************************************************************)
(* Close.  The first caller wins; another thread leaves the handler to the *)
(* strand, a handler of the strand runs it at once.                        *)
(***************************************************************************)
CloseElsewhere(s) ==
  /\ b_close' = [b_close EXCEPT ![s] = TRUE]
  /\ tasks' = IF b_close[s] THEN tasks ELSE [tasks EXCEPT ![s] = Append(@, Closing)]
  /\ UNCHANGED open

CloseOnStrand(s) ==
  /\ b_close' = [b_close EXCEPT ![s] = TRUE]
  /\ open' = IF b_close[s] THEN open ELSE [open EXCEPT ![s] = FALSE]

(***************************************************************************)
(* Send, called by a thread that is not in the strand.                     *)
(***************************************************************************)
NotSending(t) == call[t] = NoCall
In(t, s, step) == call[t] # NoCall /\ call[t].s = s /\ call[t].step = step
Step(t, step) == call' = [call EXCEPT ![t].step = step]
Leave(t) == call' = [call EXCEPT ![t] = NoCall]

\* IsClosed and the size: nothing is sent on a closed session, and a packet too
\* large for its length field closes the session.
Send(t, s, p) ==
  /\ NotSending(t) /\ ~b_close[s] /\ sends < MaxPosts
  /\ sends' = sends + 1
  /\ call' = [call EXCEPT ![t] = [s |-> s, p |-> p, step |->
                                    IF p \in Large THEN "refuse" ELSE "count"]]
  /\ UNCHANGED <<socket, tasks, scheduled, writing, reading, errors, posted>>

\* fetch_add, compared with the limit.
Count(t, s) ==
  /\ In(t, s, "count")
  /\ scheduled' = [scheduled EXCEPT ![s] = @ + 1]
  /\ Step(t, IF scheduled[s] >= MaxSend THEN "over" ELSE "dispatch")
  /\ UNCHANGED <<socket, tasks, sends, writing, reading, errors, posted>>

\* Mutant: the count of a refused packet is not taken back.
OverKeepsCount(t, s) ==
  /\ In(t, s, "over")
  /\ Step(t, "refuse")
  /\ UNCHANGED <<socket, tasks, scheduled, sends, writing, reading, errors, posted>>

Over(t, s) ==
  /\ In(t, s, "over")
  /\ scheduled' = [scheduled EXCEPT ![s] = @ - 1]
  /\ Step(t, "refuse")
  /\ UNCHANGED <<socket, tasks, sends, writing, reading, errors, posted>>

Refuse(t, s) ==
  /\ In(t, s, "refuse")
  /\ CloseElsewhere(s) /\ Leave(t)
  /\ UNCHANGED <<scheduled, sends, writing, reading, errors, posted>>

Dispatch(t, s) ==
  /\ In(t, s, "dispatch")
  /\ tasks' = [tasks EXCEPT ![s] = Append(@, call[t].p)]
  /\ posted' = [posted EXCEPT ![s] = Append(@, call[t].p)]
  /\ Leave(t)
  /\ UNCHANGED <<socket, scheduled, sends, writing, reading, errors>>

(***************************************************************************)
(* Handlers of the strand.                                                 *)
(***************************************************************************)
\* Push; the write of the front is started if there was none.
Enqueue(s, p) ==
  /\ que' = [que EXCEPT ![s] = Append(@, p)]
  /\ flight' = [flight EXCEPT ![s] = IF que[s] = <<>> THEN "writing" ELSE @]

\* The part of Send that runs on the strand; a full queue closes the session.
RunSend(s) ==
  /\ tasks[s] # <<>> /\ IsPacket(Head(tasks[s]))
  /\ tasks' = [tasks EXCEPT ![s] = Tail(@)]
  /\ scheduled' = [scheduled EXCEPT ![s] = @ - 1]
  /\ \/ b_close[s] /\ UNCHANGED <<socket, que, flight>>
     \/ ~b_close[s] /\ Len(que[s]) >= MaxSend /\ CloseOnStrand(s)
                    /\ UNCHANGED <<que, flight>>
     \/ ~b_close[s] /\ Len(que[s]) < MaxSend /\ Enqueue(s, Head(tasks[s]))
                    /\ UNCHANGED socket
  /\ UNCHANGED <<call, sends, wire, reading, errors, posted>>

\* The handler of Close: timers cancelled, socket closed; ClearSession.
RunClose(s) ==
  /\ tasks[s] # <<>> /\ Head(tasks[s]) = Closing
  /\ tasks' = [tasks EXCEPT ![s] = Tail(@)]
  /\ open' = [open EXCEPT ![s] = FALSE]
  /\ UNCHANGED <<b_close, sending, writing, reading, errors, posted>>

\* The kernel takes the packet, or the write fails, as it does on a closed socket.
Write(s) ==
  /\ flight[s] = "writing"
  /\ \/ /\ open[s]
        /\ flight' = [flight EXCEPT ![s] = "written"]
        /\ wire' = [wire EXCEPT ![s] = Append(@, Head(que[s]))]
        /\ UNCHANGED errors
     \/ /\ open[s] => errors < MaxErrors
        /\ flight' = [flight EXCEPT ![s] = "failed"]
        /\ errors' = IF open[s] THEN errors + 1 ELSE errors
        /\ UNCHANGED wire
  /\ UNCHANGED <<socket, tasks, sending, que, reading, posted>>

\* Mutant: the write after the one that ended is not started.
HandleWriteSkips(s) ==
  /\ flight[s] \in {"written", "failed"}
  /\ \/ /\ b_close[s] /\ flight' = [flight EXCEPT ![s] = "none"]
        /\ UNCHANGED <<socket, que>>
     \/ /\ ~b_close[s] /\ flight[s] = "failed"
        /\ flight' = [flight EXCEPT ![s] = "none"]
        /\ CloseOnStrand(s) /\ UNCHANGED que
     \/ /\ ~b_close[s] /\ flight[s] = "written"
        /\ que' = [que EXCEPT ![s] = Tail(@)]
        /\ flight' = [flight EXCEPT ![s] = "none"]
        /\ UNCHANGED socket
  /\ UNCHANGED <<tasks, sending, wire, reading, errors, posted>>

\* HandleWrite: the front is popped and the next packet written; a closed session
\* keeps its queue, and with it the buffer of the cancelled write.
HandleWrite(s) ==
  /\ flight[s] \in {"written", "failed"}
  /\ \/ /\ b_close[s] /\ flight' = [flight EXCEPT ![s] = "none"]
        /\ UNCHANGED <<socket, que>>
     \/ /\ ~b_close[s] /\ flight[s] = "failed"
        /\ flight' = [flight EXCEPT ![s] = "none"]
        /\ CloseOnStrand(s) /\ UNCHANGED que
     \/ /\ ~b_close[s] /\ flight[s] = "written"
        /\ que' = [que EXCEPT ![s] = Tail(@)]
        /\ flight' = [flight EXCEPT ![s] = IF Tail(que[s]) = <<>> THEN "none"
                                                                  ELSE "writing"]
        /\ UNCHANGED socket
  /\ UNCHANGED <<tasks, sending, wire, reading, errors, posted>>

\* Mutant: the deadline is armed anew under the old generation.
ReadDoneKeeps(s) ==
  /\ ~b_close[s] /\ reads < MaxReads
  /\ reads' = reads + 1
  /\ arming' = [arming EXCEPT ![s] = @ + 1]
  /\ armed' = [armed EXCEPT ![s] = TRUE]
  /\ UNCHANGED <<socket, tasks, sending, writing, generation, expired, errors, posted>>

\* AsyncReadHead, AsyncReadBody: data arrived in time, the deadline is armed anew.
\* A handler of the old one that is ready already cannot be cancelled any more.
ReadDone(s) ==
  /\ ~b_close[s] /\ reads < MaxReads
  /\ reads' = reads + 1
  /\ generation' = [generation EXCEPT ![s] = @ + 1]
  /\ arming' = [arming EXCEPT ![s] = @ + 1]
  /\ armed' = [armed EXCEPT ![s] = TRUE]
  /\ UNCHANGED <<socket, tasks, sending, writing, expired, errors, posted>>

\* The handler has captured the generation; which arming it belongs to is history.
Handler(s) == [generation |-> generation[s], arming |-> arming[s]]

Expire(s) ==
  /\ open[s] /\ armed[s] /\ errors < MaxErrors
  /\ errors' = errors + 1
  /\ armed' = [armed EXCEPT ![s] = FALSE]
  /\ expired' = [expired EXCEPT ![s] = @ \cup {Handler(s)}]
  /\ UNCHANGED <<socket, tasks, sending, writing, generation, reads, arming, posted>>

\* The handler of a deadline closes the session unless it was armed again.
Deadline(s, h) ==
  /\ h \in expired[s]
  /\ expired' = [expired EXCEPT ![s] = @ \ {h}]
  /\ IF h.generation = generation[s] THEN CloseOnStrand(s) ELSE UNCHANGED socket
  /\ UNCHANGED <<tasks, sending, writing, generation, armed, reads, arming, errors,
                 posted>>

\* End of file, a header that is not valid, a packet beyond the budget.
ReadFails(s) ==
  /\ ~b_close[s]
  /\ CloseOnStrand(s)
  /\ UNCHANGED <<tasks, sending, writing, reading, errors, posted>>

\* Another thread closes the session: a replaced login, a token that is not current.
CloseBy(t, s) ==
  /\ NotSending(t) /\ ~b_close[s]
  /\ CloseElsewhere(s)
  /\ UNCHANGED <<sending, writing, reading, errors, posted>>

ConnNext ==
  \/ \E t \in Threads, s \in Conns :
       \/ \E p \in Packets : Send(t, s, p)
       \/ Count(t, s) \/ Over(t, s) \/ Refuse(t, s) \/ Dispatch(t, s) \/ CloseBy(t, s)
  \/ \E s \in Conns :
       \/ RunSend(s) \/ RunClose(s) \/ Write(s) \/ HandleWrite(s)
       \/ ReadDone(s) \/ ReadFails(s) \/ Expire(s) \/ \E h \in expired[s] : Deadline(s, h)

ConnSpec == ConnInit /\ [][ConnNext]_connVars

(***************************************************************************)
(* Properties.                                                             *)
(***************************************************************************)
Waiting(s) == {i \in DOMAIN tasks[s] : IsPacket(tasks[s][i])}
Counting(s) == {t \in Threads : In(t, s, "dispatch") \/ In(t, s, "over")}

\* What the socket has taken is the beginning of what was posted, in the same
\* order and without repetition; while the session is open nothing in between is
\* missing either, and a packet that is queued is not left without a write.
InOrder ==
  \A s \in Conns :
    /\ IsPrefix(wire[s], posted[s])
    /\ ~b_close[s] =>
         /\ wire[s] \o (IF flight[s] = "written" THEN Tail(que[s]) ELSE que[s])
              \o tasks[s] = posted[s]
         /\ que[s] # <<>> => flight[s] # "none"

\* Both limits hold however many threads send at once: the counter is exactly the
\* packets that wait for the strand and those of threads between their two steps,
\* so that it returns to zero; and the buffer of a write under way stays in front.
WithinLimits ==
  \A s \in Conns :
    /\ scheduled[s] = Cardinality(Waiting(s)) + Cardinality(Counting(s))
    /\ Cardinality(Waiting(s)) <= MaxSend /\ Len(que[s]) <= MaxSend
    /\ flight[s] # "none" => que[s] # <<>>

\* Of the deadline handlers that run on an open session, one closes it if it belongs
\* to the last arming, and only then: a read that completed after the timer ran out
\* and before the handler ran has made it stale, and a client that then falls silent
\* is closed by the deadline armed since.
DeadlineIsCurrent ==
  [][\A s \in Conns : \A h \in expired[s] \ expired'[s] :
        ~b_close[s] => (b_close'[s] <=> h.arming = arming[s])]_connVars
================================================================================
