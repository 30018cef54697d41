----------------------------- MODULE TextStoreLog -----------------------------
(***************************************************************************)
(* TextStore implements MessageLog: the log of a pair is the content of    *)
(* its thread in seq order.                                                *)
(***************************************************************************)
EXTENDS TextStore

\* How many messages the pair's thread has.
Length(p) == IF private_chat[p] = NoThread THEN 0 ELSE last_seq[private_chat[p]]

\* The request a row was stored for.
Body(m) == [sender |-> m.sender, receiver |-> m.receiver, id |-> m.id,
            text |-> m.text]

RowAt(t, i) == CHOOSE m \in chat_message : m.thread = t /\ m.seq = i

LogOf(p) == [i \in 1 .. Length(p) |-> Body(RowAt(private_chat[p], i))]

Log == INSTANCE MessageLog
         WITH log <- [p \in Pairs |-> LogOf(p)],
              acked <- {<<a[1], a[2].seq>> : a \in acks}

\* Every step of StoreTextMessage, faults included, is to its clients an atomic
\* append of a new message, an acknowledgement of a stored one, or nothing.
ImplementsLog == Log!Spec
==============================================================================
