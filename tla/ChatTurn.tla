------------------------------ MODULE ChatTurn -------------------------------
(***************************************************************************)
(* The life of a turn in one conversation (routers/chat.py): the request,  *)
(* the producer that answers it, suspension and resume over the persisted  *)
(* snapshot, failures, the death of the process, deletion and the purge of *)
(* what a deleted conversation leaves behind (services/                    *)
(* conversation_purge.py).                                                 *)
(*                                                                         *)
(* Questions are numbered in the order they are stored. A row is an        *)
(* assistant message: the question it belongs to and its status, "plain"   *)
(* standing for the NULL status of a cached answer. told is the last event *)
(* the client got about a question. Steps are cut where the code commits   *)
(* or awaits.                                                              *)
(***************************************************************************)
EXTENDS Integers, FiniteSets

CONSTANTS MaxQuestions,  \* bound: questions stored
          MaxCrashes,    \* bound: deaths of the process
          MaxSuspends,   \* bound: suspensions of one conversation
          Between        \* bound: requests between the abort and the commit of a deletion

ASSUME Bounds == /\ MaxQuestions \in Nat /\ MaxCrashes \in Nat /\ MaxSuspends \in Nat
                 /\ Between \in BOOLEAN

VARIABLES conv,     \* the conversations row: "kept" or "deleted"
          asked,    \* user messages stored
          rows,     \* assistant messages
          pending,  \* question of the pending_limit_states row, or None
          req,      \* a request on its way to generate(): its step and mode
          pc,       \* where the producer is; "none": no run is registered
          mode,     \* what the run was asked: a new question, continue or stop
          turn,     \* the question it works on
          held,     \* cleared_pending: the snapshot it read, or None
          told,     \* last event sent about each question
          deleter,  \* where delete_conversation is
          purge,    \* where purge_conversation or sweep_orphans is
          missed,   \* tables whose batch failed: nobody goes back to them
          late,     \* questions that a run which began after the abort touched
          leftover, \* what a cleanup that failed, or never came, may have left
          paused,   \* questions that were ever suspended
          suspends, \* suspensions so far
          crashes   \* deaths of the process so far

runVars == <<pc, mode, turn, held>>
deleteVars == <<conv, deleter, purge, missed>>
noteVars == <<late, leftover, paused, suspends, crashes>>
vars == <<conv, asked, rows, pending, req, pc, mode, turn, held, told,
          deleter, purge, missed, late, leftover, paused, suspends, crashes>>

None == 0
Question == 1..MaxQuestions
Row(q, s) == [of |-> q, status |-> s]
NoRequest == [at |-> "none", mode |-> "new"]

Init == /\ conv = "kept"
        /\ asked = 0
        /\ rows = {}
        /\ pending = None
        /\ req = NoRequest
        /\ pc = "none" /\ mode = "new" /\ turn = None /\ held = None
        /\ told = [q \in Question |-> "none"]
        /\ deleter = "idle" /\ purge = "none" /\ missed = {}
        /\ late = {} /\ leftover = {}
        /\ paused = {} /\ suspends = 0 /\ crashes = 0

-----------------------------------------------------------------------------
(* chat_stream. *)

\* The request is accepted: the conversation row is there.
Accept(m) ==
    /\ conv = "kept"
    /\ req = NoRequest
    /\ deleter = "idle" \/ Between
    /\ m = "new" => asked < MaxQuestions
    /\ req' = [at |-> "accepted", mode |-> m]
    /\ UNCHANGED <<asked, rows, pending, told>>
    /\ UNCHANGED <<runVars, deleteVars, noteVars>>

\* Store the question; a resume stores nothing.
Store ==
    /\ req.at = "accepted"
    /\ asked' = IF req.mode = "new" THEN asked + 1 ELSE asked
    /\ req' = [req EXCEPT !.at = "stored"]
    /\ UNCHANGED <<rows, pending, told>>
    /\ UNCHANGED <<runVars, deleteVars, noteVars>>

\* generate() finds a live run and follows it.
Join ==
    /\ req.at = "stored"
    /\ pc # "none"
    /\ req' = NoRequest
    /\ UNCHANGED <<asked, rows, pending, told>>
    /\ UNCHANGED <<runVars, deleteVars, noteVars>>

\* generate() registers a run and starts its producer.
Begin ==
    /\ req.at = "stored"
    /\ pc = "none"
    /\ pc' = "load"
    /\ mode' = req.mode
    /\ turn' = IF req.mode = "new" THEN asked ELSE None
    /\ held' = None
    /\ req' = NoRequest
    /\ UNCHANGED <<asked, rows, pending, told>>
    /\ UNCHANGED <<deleteVars, noteVars>>

-----------------------------------------------------------------------------
(* The producer. *)

\* The producer ends: its finally drops the run from the registry.
End == pc' = "none" /\ mode' = "new" /\ turn' = None /\ held' = None

GoOn(l) == pc' = l /\ UNCHANGED <<mode, turn, held>>

Tell(e) == told' = [told EXCEPT ![turn] = e]

\* A resume without a snapshot: CONVERSATION_STATE_NOT_RECOVERABLE.
LoadNothing ==
    /\ pc = "load"
    /\ pending = None /\ mode # "new"
    /\ End
    /\ UNCHANGED <<asked, rows, pending, req, told>>
    /\ UNCHANGED <<deleteVars, noteVars>>

\* Triage reads the snapshot and works on question q. A run that begins after a
\* deletion has aborted the one before is noted, and so is one that takes up a turn
\* whose snapshot should be gone.
LoadAs(q) ==
    /\ pc = "load"
    /\ pending # None \/ mode = "new"
    /\ held' = pending
    /\ turn' = q
    /\ pc' = CASE mode = "new" -> "entry" [] mode = "continue" -> "work"
                                          [] mode = "stop" -> "stop"
    /\ late' = IF deleter = "idle" THEN late ELSE late \cup ({q, pending} \ {None})
    /\ leftover' = IF mode = "continue" /\ "snapshot" \in leftover
                   THEN {"rows", "snapshot"} ELSE leftover
    /\ UNCHANGED <<mode, asked, rows, req, told, paused, suspends, crashes>>
    /\ UNCHANGED deleteVars

Asked == IF mode = "new" THEN turn ELSE pending

\* Mutant: the snapshot is deleted when it is read.
LoadClears == LoadAs(Asked) /\ pending' = None

\* Triage keeps the snapshot in its table.
Load == LoadAs(Asked) /\ UNCHANGED pending

\* The rows that were never finished.
HalfWritten == {r \in rows : r.status = "generating"}

\* An answer from the cache: on entry, or in the graph when another
\* conversation filled the cache meanwhile; a second row in that case. Nothing
\* is cleaned up then.
CacheAnswer ==
    /\ pc \in {"entry", "work"}
    /\ rows' = rows \cup {Row(turn, "plain")}
    /\ leftover' = IF HalfWritten = {} THEN leftover ELSE leftover \cup {"rows"}
    /\ GoOn("tell")
    /\ UNCHANGED <<asked, pending, req, told, late, paused, suspends, crashes>>
    /\ UNCHANGED deleteVars

\* The gate: the question cannot fit, or not once its files were read; by then
\* the assistant row was created.
Overflow ==
    /\ pc \in {"entry", "gate"}
    /\ Tell("error")
    /\ End
    /\ UNCHANGED <<asked, rows, pending, req>>
    /\ UNCHANGED <<deleteVars, noteVars>>

\* The assistant row is created before the work starts.
Precreate ==
    /\ pc = "entry"
    /\ rows' = rows \cup {Row(turn, "generating")}
    /\ GoOn("gate")
    /\ UNCHANGED <<asked, pending, req, told>>
    /\ UNCHANGED <<deleteVars, noteVars>>

\* The question fits with its files: the graph runs.
Fits ==
    /\ pc = "gate"
    /\ GoOn("work")
    /\ UNCHANGED <<asked, rows, pending, req, told>>
    /\ UNCHANGED <<deleteVars, noteVars>>

\* Part of the answer is stored while it streams: on the row created before, or
\* on a row of its own after a resume, which created none.
Flush ==
    /\ pc = "work"
    /\ rows' = rows \cup {Row(turn, "generating")}
    /\ GoOn("work")
    /\ UNCHANGED <<asked, pending, req, told>>
    /\ UNCHANGED <<deleteVars, noteVars>>

\* The graph asks for confirmation: the snapshot is stored.
Suspend ==
    /\ pc = "work"
    /\ suspends < MaxSuspends
    /\ pending' = turn
    /\ held' = None
    /\ pc' = "suspended"
    /\ paused' = paused \cup {turn}
    /\ suspends' = suspends + 1
    /\ UNCHANGED <<mode, turn, asked, rows, req, told, late, leftover, crashes>>
    /\ UNCHANGED deleteVars

\* _cleanup_orphan_messages: they go, or the failure is logged and forgotten.
CleanUp == \/ rows' = rows \ HalfWritten /\ leftover' = leftover \ {"rows"}
           \/ UNCHANGED rows /\ leftover' = leftover \cup {"rows"}

\* need_user_input, then the dangling rows go.
SuspendEnds ==
    /\ \/ pc = "suspended" /\ Tell("suspended") /\ GoOn("drop") /\ UNCHANGED <<rows, leftover>>
       \/ pc = "drop" /\ CleanUp /\ End /\ UNCHANGED told
    /\ UNCHANGED <<asked, pending, req, late, paused, suspends, crashes>>
    /\ UNCHANGED deleteVars

\* Mutant: after a resume the row of the suspended round is updated, which its
\* suspension has dropped.
AnswerUpdatesOnly ==
    /\ pc = "work"
    /\ rows' = IF Row(turn, "generating") \in rows
               THEN (rows \ {Row(turn, "generating")}) \cup {Row(turn, "complete")}
               ELSE rows
    /\ GoOn("answered")
    /\ UNCHANGED <<asked, pending, req, told>>
    /\ UNCHANGED <<deleteVars, noteVars>>

\* The final answer is stored: on the row created before, or on a new one
\* after a resume.
Answer ==
    /\ pc = "work"
    /\ rows' = {Row(turn, "complete")} \cup
                   IF mode = "new" THEN rows \ {Row(turn, "generating")} ELSE rows
    /\ GoOn("answered")
    /\ UNCHANGED <<asked, pending, req, told>>
    /\ UNCHANGED <<deleteVars, noteVars>>

\* Mutant: rows are dropped only when no suspension came before.
DropDanglingOnce ==
    /\ pc = "answered"
    /\ IF held = None THEN CleanUp ELSE UNCHANGED <<rows, leftover>>
    /\ GoOn("tell")
    /\ UNCHANGED <<asked, pending, req, told, late, paused, suspends, crashes>>
    /\ UNCHANGED deleteVars

\* Rows left in the generating state by earlier rounds go.
DropDangling ==
    /\ pc = "answered"
    /\ CleanUp
    /\ GoOn("tell")
    /\ UNCHANGED <<asked, pending, req, told, late, paused, suspends, crashes>>
    /\ UNCHANGED deleteVars

\* The user stops a suspended turn, or the turn is done.
TellEnd ==
    /\ pc \in {"stop", "tell"}
    /\ Tell(IF pc = "stop" THEN "stopped" ELSE "done")
    /\ GoOn("finalize")
    /\ UNCHANGED <<asked, rows, pending, req>>
    /\ UNCHANGED <<deleteVars, noteVars>>

\* Mutant: a new question that supersedes a suspension leaves its snapshot.
FinalizeResumed ==
    /\ pc = "finalize"
    /\ pending' = IF held # None /\ mode # "new" THEN None ELSE pending
    /\ leftover' = leftover \ {"snapshot"}
    /\ End
    /\ UNCHANGED <<asked, rows, req, told, late, paused, suspends, crashes>>
    /\ UNCHANGED deleteVars

\* _finalize_completed_turn: the snapshot of the round before goes, or the failure
\* is logged and forgotten.
Finalize ==
    /\ pc = "finalize"
    /\ \/ /\ pending' = IF held # None THEN None ELSE pending
          /\ leftover' = leftover \ {"snapshot"}
       \/ held # None /\ UNCHANGED pending /\ leftover' = leftover \cup {"snapshot"}
    /\ End
    /\ UNCHANGED <<asked, rows, req, told, late, paused, suspends, crashes>>
    /\ UNCHANGED deleteVars

\* Something raised, before or after the answer was stored.
Fail ==
    /\ pc \in {"entry", "gate", "work", "stop", "answered", "tell"}
    /\ GoOn("failed")
    /\ UNCHANGED <<asked, rows, pending, req, told>>
    /\ UNCHANGED <<deleteVars, noteVars>>

\* The row a new question's run created, once it did.
Created == {r \in rows : mode = "new" /\ r.of = turn /\ r.status \in {"generating", "complete"}}

\* The except handler: mark the row created before, store the snapshot again,
\* tell the client. Each of the two writes may fail in turn, which is logged.
FailEnds ==
    /\ \/ /\ pc = "failed"
          /\ rows' \in {rows, (rows \ Created) \cup {Row(r.of, "error") : r \in Created}}
          /\ GoOn("restore")
          /\ UNCHANGED <<pending, told>>
       \/ /\ pc = "restore"
          /\ pending' \in {pending, IF held # None THEN held ELSE pending}
          /\ Tell("error")
          /\ End
          /\ UNCHANGED rows
    /\ UNCHANGED <<asked, req>>
    /\ UNCHANGED <<deleteVars, noteVars>>

-----------------------------------------------------------------------------
(* Deletion and the process. *)

\* A run that is cut short cleans nothing up.
CutShort == leftover' = IF pc = "none" THEN leftover ELSE {"rows", "snapshot"}

\* Mutant: the run is not aborted.
DeleteBeginsQuietly ==
    /\ conv = "kept" /\ deleter = "idle"
    /\ deleter' = "aborted"
    /\ UNCHANGED <<asked, rows, pending, req, told, conv, purge, missed>>
    /\ UNCHANGED <<runVars, noteVars>>

\* delete_conversation: abort the run; its producer writes nothing any more. A
\* request that was accepted before may still begin another.
DeleteBegins ==
    /\ conv = "kept" /\ deleter = "idle"
    /\ deleter' = "aborted"
    /\ End /\ CutShort
    /\ UNCHANGED <<asked, rows, pending, req, told, conv, purge, missed>>
    /\ UNCHANGED <<late, paused, suspends, crashes>>

\* Delete the row and schedule the purge.
DeleteRow ==
    /\ deleter = "aborted"
    /\ conv' = "deleted"
    /\ deleter' = "gone"
    /\ purge' = "messages"
    /\ UNCHANGED <<asked, rows, pending, req, told, missed>>
    /\ UNCHANGED <<runVars, noteVars>>

\* purge_conversation and sweep_orphans, table by table.
Purge ==
    /\ \/ purge = "messages" /\ rows' = {} /\ purge' = "pending" /\ UNCHANGED pending
       \/ purge = "pending" /\ pending' = None /\ purge' = "done" /\ UNCHANGED rows
    /\ UNCHANGED <<asked, req, told, conv, deleter, missed>>
    /\ UNCHANGED <<runVars, noteVars>>

\* A batch fails: the rest of its table stays until the next start.
PurgeFails ==
    /\ purge \in {"messages", "pending"}
    /\ missed' = missed \cup {purge}
    /\ purge' = IF purge = "messages" THEN "pending" ELSE "done"
    /\ UNCHANGED <<asked, rows, pending, req, told, conv, deleter>>
    /\ UNCHANGED <<runVars, noteVars>>

\* Mutant: nothing is swept at startup.
RestartOnly ==
    /\ crashes < MaxCrashes
    /\ crashes' = crashes + 1
    /\ End /\ CutShort
    /\ req' = NoRequest
    /\ deleter' = "idle"
    /\ purge' = "none"
    /\ missed' = {} /\ late' = {}
    /\ UNCHANGED <<conv, asked, rows, pending, told, paused, suspends>>

\* The process dies and starts again: what was committed stays, and sweep_orphans
\* looks for the remains of deleted conversations.
Restart ==
    /\ crashes < MaxCrashes
    /\ crashes' = crashes + 1
    /\ End /\ CutShort
    /\ req' = NoRequest
    /\ deleter' = "idle"
    /\ purge' = IF conv = "deleted" THEN "messages" ELSE "none"
    /\ missed' = {} /\ late' = {}
    /\ UNCHANGED <<conv, asked, rows, pending, told, paused, suspends>>

Request == (\E m \in {"new", "continue", "stop"} : Accept(m)) \/ Store \/ Join \/ Begin
Producer == \/ LoadNothing \/ Load \/ CacheAnswer \/ Overflow \/ Precreate \/ Fits \/ Flush
            \/ Suspend \/ SuspendEnds \/ Answer \/ DropDangling \/ TellEnd \/ Finalize
            \/ Fail \/ FailEnds
Delete == DeleteBegins \/ DeleteRow \/ Purge \/ PurgeFails

Next == Request \/ Producer \/ Delete \/ Restart

Spec == Init /\ [][Next]_vars

\* The event loop runs what can run, and the background purge with it.
FairSpec == Spec /\ WF_vars(DeleteRow) /\ WF_vars(Purge \/ PurgeFails)

-----------------------------------------------------------------------------

Mode == {"new", "continue", "stop"}

\* The values every variable ranges over; what a run works on was asked.
TypeOK ==
    /\ conv \in {"kept", "deleted"}
    /\ asked \in 0..MaxQuestions
    /\ rows \subseteq [of : 1..asked, status : {"generating", "complete", "plain", "error"}]
    /\ pending \in 0..asked
    /\ req \in [at : {"none", "accepted", "stored"}, mode : Mode]
    /\ pc \in {"none", "load", "entry", "gate", "work", "suspended", "drop", "stop", "answered",
               "tell", "finalize", "failed", "restore"}
    /\ mode \in Mode
    /\ turn \in 0..asked /\ held \in 0..asked
    /\ pc \notin {"none", "load"} => turn # None
    /\ told \in [Question -> {"none", "suspended", "done", "stopped", "error"}]
    /\ deleter \in {"idle", "aborted", "gone"}
    /\ purge \in {"none", "messages", "pending", "done"}
    /\ missed \subseteq {"messages", "pending"}
    /\ late \subseteq 1..asked
    /\ leftover \subseteq {"rows", "snapshot"}
    /\ paused \subseteq 1..asked
    /\ suspends \in 0..MaxSuspends
    /\ crashes \in 0..MaxCrashes

Answered(q) == \E r \in rows : r.of = q /\ r.status \in {"complete", "plain"}

\* A suspended turn can be resumed or stopped until it was answered or stopped,
\* or a later question took its place: whatever fails or dies in between, a
\* refreshed page finds its snapshot.
SuspensionSurvives ==
    conv = "kept" =>
        \A q \in paused : \/ pending >= q
                          \/ \E p \in q..asked : Answered(p) \/ told[p] = "stopped"

\* What the client is told is done is stored.
AnswersAreStored == conv = "kept" => \A q \in 1..asked : told[q] = "done" => Answered(q)

\* No stale continue/stop bubble: a turn that was answered or stopped, and those
\* before it, leave no snapshot, except for one that could not be deleted; that one
\* goes with the next turn that ends and can delete.
NoStaleSuspension ==
    pc = "none" /\ "snapshot" \notin leftover =>
        \A q \in 1..asked : told[q] \in {"done", "stopped"} => pending \notin 1..q

\* A turn that is done leaves no half-written row, of its own or of a turn before
\* it, except for those of a cleanup that failed or never came; they go with the
\* next one.
NoDanglingRows ==
    pc = "none" /\ "rows" \notin leftover =>
        \A q \in 1..asked : told[q] = "done" => \A p \in 1..q : Row(p, "generating") \notin rows

\* A purged conversation keeps what a failed batch left, what a run that began
\* after the abort wrote, and nothing else: a run that outlives the deletion
\* would leave more.
PurgeLeavesNothing ==
    purge = "done" => /\ (\E r \in rows : r.of \notin late) => "messages" \in missed
                      /\ pending \notin late \cup {None} => "pending" \in missed

\* A deleted conversation is purged, though the process may die on the way.
DeletedIsPurged == conv = "deleted" ~> purge = "done"

\* Deleting aborts the run so that nothing is written into the conversation
\* after its row is gone.
WritesStopAtDelete == [][conv = "deleted" => rows' \subseteq rows]_vars

\* A request that finds a live run writes nothing: every question stored has a run.
EveryQuestionRuns ==
    crashes = 0 /\ deleter = "idle" =>
        \A q \in 1..asked : \/ told[q] # "none"
                            \/ pc # "none" /\ turn = q
                            \/ req.at = "stored" /\ req.mode = "new" /\ q = asked
=============================================================================
