----------------------------- MODULE HistorySync -----------------------------
(***************************************************************************)
(* A client of TextStore that follows its conversations by polling:        *)
(* ChatHistory pages through a conversation from the cursor of the last    *)
(* page (after_seq), ChatConversations pages through the list of           *)
(* conversations, every round from thread 0.  Pages are plain reads of     *)
(* committed rows and interleave with the senders' transactions.           *)
(***************************************************************************)
EXTENDS TextStore

CONSTANTS
  Reader,     \* the polling user
  PageRows,   \* most rows of a page (20 in the code)
  MaxRounds   \* bound: rounds of the conversation scan

ASSUME PageAssumption ==
  Reader \in Users /\ PageRows \in Nat \ {0} /\ MaxRounds \in Nat

VARIABLES
  cursor,     \* after_seq the client sends next, per conversation
  stored,     \* rows the client has received, per conversation
  round,      \* the conversation scan: [after, listed, present, done]
  rounds      \* rounds begun so far

sync == <<cursor, stored, round, rounds>>
syncvars == <<vars, sync>>

MyPairs == {p \in Pairs : Reader \in p /\ Cardinality(p) = 2}

\* Threads that ChatConversations can list now.
Listed == {private_chat[p] : p \in MyPairs} \ {NoThread}

\* A page of a result in the order of its keys: the smallest, at most PageRows.
\* The byte limit may end a page earlier, but never before its first row.
IsPage(page, keys) ==
  /\ page \subseteq keys
  /\ Cardinality(page) <= PageRows
  /\ page = {} => keys = {}
  /\ \A a \in page, b \in keys \ page : a < b

\* next_seq, next_thread: the key of the page's last row, or the old cursor.
Advance(old, page) == CHOOSE n \in {old} \cup page : \A k \in {old} \cup page : k <= n

SyncInit ==
  /\ Init
  /\ cursor = [p \in MyPairs |-> 0]
  /\ stored = [p \in MyPairs |-> {}]
  /\ round = [after |-> 0, listed |-> {}, present |-> {}, done |-> TRUE]
  /\ rounds = 0

\* ChatHistory(actor, peer, after_seq); the client saves the page, then moves
\* its cursor to next_seq.
ChatHistory(p) ==
  LET rows == {m \in chat_message : /\ m.thread = private_chat[p]
                                    /\ m.seq > cursor[p]}
  IN  /\ \E page \in SUBSET {m.seq : m \in rows} :
           /\ IsPage(page, {m.seq : m \in rows})
           /\ stored' = [stored EXCEPT ![p] = @ \cup {m \in rows : m.seq \in page}]
           /\ cursor' = [cursor EXCEPT ![p] = Advance(@, page)]
      /\ UNCHANGED <<vars, round, rounds>>

\* Mutant: a round goes on from where the last one ended.
StartRoundResumes ==
  /\ round.done /\ rounds < MaxRounds
  /\ round' = [round EXCEPT !.present = Listed, !.done = FALSE]
  /\ rounds' = rounds + 1
  /\ UNCHANGED <<vars, cursor, stored>>

\* A new round of the conversation scan starts from zero.
StartRound ==
  /\ round.done /\ rounds < MaxRounds
  /\ round' = [after |-> 0, listed |-> {}, present |-> Listed, done |-> FALSE]
  /\ rounds' = rounds + 1
  /\ UNCHANGED <<vars, cursor, stored>>

\* ChatConversations(actor, after_thread); has_more = FALSE ends the round.
ChatConversations ==
  LET rows == {t \in Listed : t > round.after}
  IN  /\ ~round.done
      /\ \E page \in SUBSET rows :
           /\ IsPage(page, rows)
           /\ round' = [round EXCEPT !.after = Advance(@, page),
                                     !.listed = @ \cup page,
                                     !.done = (page = rows)]
      /\ UNCHANGED <<vars, cursor, stored, rounds>>

SyncNext == \/ Next /\ UNCHANGED sync
            \/ \E p \in MyPairs : ChatHistory(p)
            \/ StartRound
            \/ ChatConversations

SyncSpec == SyncInit /\ [][SyncNext]_syncvars

(***************************************************************************)
(* Properties.                                                             *)
(***************************************************************************)
SyncTypeOK ==
  /\ cursor \in [MyPairs -> 0 .. MaxSeq]
  /\ stored \in [MyPairs -> SUBSET Message]
  /\ round \in [after: 0 .. MaxThread, listed: SUBSET Threads,
                present: SUBSET Threads, done: BOOLEAN]
  /\ rounds \in 0 .. MaxRounds

\* A client that polls ChatHistory from its cursor misses nothing: whatever is
\* or becomes committed, no message at or below its cursor is one it has not
\* received.  (No transaction commits a smaller seq after a larger one.)
HistoryComplete ==
  \A p \in MyPairs : \A m \in chat_message :
    m.thread = private_chat[p] /\ m.seq <= cursor[p] => m \in stored[p]

\* A finished round of the conversation list has listed every conversation that
\* existed when it began, although thread ids are not committed in order.
ScanComplete == round.done => round.present \subseteq round.listed
==============================================================================
