----------------------------- MODULE HistoryCache -----------------------------
(***************************************************************************)
(* The messages of one conversation, the sequence numbers they are given   *)
(* at INSERT (models/conversation.py) and the in-memory cache every chat   *)
(* request reads its history from (routers/chat.py, _load_history).        *)
(*                                                                         *)
(* A message is its seq and what its row holds: a question, the text of an *)
(* answer that is still being written, a finished answer, or an answer cut *)
(* off by an error. ChatTurn models the turn that writes the rows; here it *)
(* is cut down to the inserts, updates and deletes the cache can see.      *)
(***************************************************************************)
EXTENDS Integers, FiniteSets, Sequences, SequencesExt

CONSTANTS MaxSeq,   \* bound: sequence numbers
          MaxLoads  \* bound: requests

ASSUME HistBounds == MaxSeq \in Nat /\ MaxLoads \in Nat

VARIABLES table,     \* rows of messages
          cursor,    \* summary_msg_seq: the first message no summary covers
          cache,     \* the entry of _HISTORY_CACHE: is it warm, msgs, max_seq
          asking,    \* a request between its load and generate()
          run,       \* where the live run is
          own,       \* seq of the row created for the run, or None
          suspended, \* a snapshot waits for continue or stop
          got,       \* history the last load returned
          due,       \* rows a query would have returned to it
          loads      \* loads so far

writeVars == <<table, run, own, suspended>>
readVars == <<cache, got, due, loads>>
histVars == <<table, cursor, cache, asking, run, own, suspended, got, due, loads>>

None == 0
Kind == {"question", "partial", "answer", "error"}
Msg(n, k) == [seq |-> n, kind |-> k]
Cold == [warm |-> FALSE, msgs |-> <<>>, max |-> None]

HistInit ==
    /\ table = {}
    /\ cursor = 1
    /\ cache = Cold
    /\ asking = "none"
    /\ run = "none" /\ own = None
    /\ suspended = FALSE
    /\ got = <<>> /\ due = {}
    /\ loads = 0

-----------------------------------------------------------------------------
(* Sequence numbers. *)

\* The highest seq of some rows; None when there is none.
Highest(rows) == IF rows = {} THEN None
                 ELSE (CHOOSE m \in rows : \A r \in rows : r.seq <= m.seq).seq

\* _next_message_seq, evaluated when the row is inserted.
NextSeq == Highest(table) + 1

Insert(k) == table \cup {Msg(NextSeq, k)}

Partial == {m \in table : m.kind = "partial"}

-----------------------------------------------------------------------------
(* Reading: _load_history. *)

\* Rows ordered by seq.
Ordered(rows) == [i \in 1..Cardinality(rows) |->
    CHOOSE m \in rows : Cardinality({r \in rows : r.seq < m.seq}) = i - 1]

Entry(msgs) == [warm |-> TRUE, msgs |-> msgs,
                max |-> IF msgs = <<>> THEN None ELSE Last(msgs).seq]

Unsummarized == {m \in table : m.seq >= cursor}
Appended == {m \in table : m.seq > cache.max}

\* Mutant: the refresh asks for the last message it has once more.
RefreshedTwice == IF ~cache.warm THEN Entry(Ordered(Unsummarized))
                  ELSE IF cache.max # None
                       THEN Entry(cache.msgs \o Ordered({m \in table : m.seq >= cache.max}))
                  ELSE cache

\* Mutant: a warm entry is returned as it is.
RefreshedNever == IF ~cache.warm THEN Entry(Ordered(Unsummarized)) ELSE cache

\* A warm entry is extended by what was appended, unless it has no max_seq; a cold
\* one is loaded from the cursor on.
Refreshed == IF ~cache.warm THEN Entry(Ordered(Unsummarized))
             ELSE IF cache.max # None THEN Entry(cache.msgs \o Ordered(Appended))
             ELSE cache

\* A chat request reads its history before it stores its question, whether a run is live
\* or not. The compact button reads it too and asks nothing; a suspension refuses it.
Load ==
    /\ asking = "none"
    /\ loads < MaxLoads
    /\ cache' = Refreshed
    /\ got' = Refreshed.msgs
    /\ due' = Unsummarized
    /\ loads' = loads + 1
    /\ asking' = "loaded" \/ (~suspended /\ asking' = "none")
    /\ UNCHANGED <<cursor, writeVars>>

\* The TTL lapses.
Expire == /\ cache # Cold
          /\ cache' = Cold
          /\ UNCHANGED <<cursor, asking, got, due, loads, writeVars>>

-----------------------------------------------------------------------------
(* Writing: the turn. *)

\* The question is stored; a run starts unless one is live.
Ask ==
    /\ asking = "loaded"
    /\ NextSeq <= MaxSeq
    /\ table' = Insert("question")
    /\ asking' = "none"
    /\ run' = IF run = "none" THEN "started" ELSE run
    /\ UNCHANGED <<cursor, own, suspended, readVars>>

\* Continue: nothing is stored and no row is created for the run.
Resume ==
    /\ asking = "loaded"
    /\ suspended
    /\ run = "none"
    /\ asking' = "none"
    /\ run' = "working"
    /\ UNCHANGED <<table, cursor, own, suspended, readVars>>

\* A continue or a stop that meets a live run is joined to it.
Join ==
    /\ asking = "loaded"
    /\ run # "none"
    /\ asking' = "none"
    /\ UNCHANGED <<table, cursor, run, own, suspended, readVars>>

\* Stop: the snapshot goes and no row is touched.
GiveUp ==
    /\ asking = "loaded"
    /\ suspended
    /\ run = "none"
    /\ asking' = "none"
    /\ suspended' = FALSE
    /\ UNCHANGED <<table, cursor, run, own, readVars>>

\* The answer cache has the answer: one row, and nothing is cleaned up.
CacheHit ==
    /\ run = "started"
    /\ NextSeq <= MaxSeq
    /\ table' = Insert("answer")
    /\ run' = "none"
    /\ suspended' = FALSE
    /\ UNCHANGED <<cursor, asking, own, readVars>>

\* The row of the run is created.
Precreate ==
    /\ run = "started"
    /\ NextSeq <= MaxSeq
    /\ table' = Insert("partial")
    /\ own' = NextSeq
    /\ run' = "working"
    /\ UNCHANGED <<cursor, asking, suspended, readVars>>

\* Part of the answer is stored; without a row of its own the run inserts one.
Flush ==
    /\ run = "working"
    /\ own = None
    /\ NextSeq <= MaxSeq
    /\ table' = Insert("partial")
    /\ UNCHANGED <<cursor, asking, run, own, suspended, readVars>>

\* The answer is stored.
StoreAnswer ==
    /\ run = "working"
    /\ IF own = None
       THEN NextSeq <= MaxSeq /\ table' = Insert("answer")
       ELSE table' = {m \in table : m.seq # own} \cup {Msg(own, "answer")}
    /\ run' = "answered"
    /\ UNCHANGED <<cursor, asking, own, suspended, readVars>>

\* The run ends: half-written rows go, and the snapshot with them.
EndTurn ==
    /\ run = "answered"
    /\ table' = table \ Partial
    /\ run' = "none" /\ own' = None
    /\ suspended' = FALSE
    /\ UNCHANGED <<cursor, asking, readVars>>

\* The run is suspended: half-written rows go.
Interrupt ==
    /\ run = "working"
    /\ table' = table \ Partial
    /\ run' = "none" /\ own' = None
    /\ suspended' = TRUE
    /\ UNCHANGED <<cursor, asking, readVars>>

\* The run fails, or its question does not fit: its row, if it has one, is marked.
Fail ==
    /\ run \in {"started", "working"}
    /\ table' = {m \in table : m.seq # own} \cup {Msg(m.seq, "error") : m \in {r \in table : r.seq = own}}
    /\ run' = "none" /\ own' = None
    /\ UNCHANGED <<cursor, asking, suspended, readVars>>

\* A summary pass, a turn's or one in the background, or the compact button moves
\* the cursor to the start of a later round; the newest round is never folded.
Fold ==
    /\ \E m \in table : /\ m.kind = "question" /\ m.seq > cursor
                       /\ cursor' = m.seq
    /\ UNCHANGED <<asking, run, own, suspended, table, readVars>>

\* The process dies and starts again.
Restart ==
    /\ run' = "none" /\ own' = None
    /\ asking' = "none"
    /\ cache' = Cold
    /\ UNCHANGED <<table, cursor, suspended, got, due, loads>>

HistNext == \/ Load \/ Expire \/ Ask \/ Resume \/ Join \/ GiveUp \/ CacheHit \/ Precreate
            \/ Flush \/ StoreAnswer \/ EndTurn \/ Interrupt \/ Fail \/ Fold \/ Restart

HistSpec == HistInit /\ [][HistNext]_histVars

-----------------------------------------------------------------------------

\* The values every variable ranges over; the cached max is that of its messages.
HistTypeOK ==
    /\ table \subseteq [seq : 1..MaxSeq, kind : Kind]
    /\ cursor \in 1..(MaxSeq + 1)
    /\ cache = Cold \/ cache = Entry(cache.msgs)
    /\ asking \in {"none", "loaded"}
    /\ run \in {"none", "started", "working", "answered"}
    /\ own \in 0..MaxSeq
    /\ suspended \in BOOLEAN
    /\ loads \in 0..MaxLoads
    /\ \A a, b \in table : a.seq = b.seq => a = b

\* The history a request gets is in order and shows no message twice, though rows
\* are deleted and their numbers given out again.
HistoryInOrder == \A i, j \in 1..Len(got) : i < j => got[i].seq < got[j].seq

Settled == {"question", "answer", "error"}

\* A history that is not empty and caught no half-written row misses no settled message
\* after the cursor, though the cache is refreshed by number only.
RefreshMissesNothing ==
    got # <<>> /\ (\A i \in 1..Len(got) : got[i].kind # "partial")
        => {m \in due : m.kind \in Settled} \subseteq ToSet(got)

\* What the comment at the cache says (chat.py:88-92): messages never change in place and
\* only grow by append, so a refresh of the tail keeps a history whole. The row of an
\* answer is created first and written later; a load in between keeps it as it was, and
\* when it is deleted instead its number goes to a question the refresh then passes by.
TailRefreshIsEnough ==
    got # <<>> => {m \in due : m.kind \in Settled} \subseteq ToSet(got)

\* Every turn sees the rows appended since the last load, one that found nothing included.
HistoryIsTail ==
    {m \in due : m.kind \in Settled} \subseteq ToSet(got)
=============================================================================
