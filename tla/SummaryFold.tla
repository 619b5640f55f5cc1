----------------------------- MODULE SummaryFold -----------------------------
(***************************************************************************)
(* How one conversation is folded into its rolling summary                 *)
(* (services/conversation_summary.py) and who may do it at the same time:  *)
(*                                                                         *)
(*   turn    the request path, build_context_with_summary                  *)
(*   pass    the summarization pass, awaited by a turn or in the background*)
(*   manual  POST /conversations/{id}/compact                              *)
(*   and the user's edits of the summary.                                  *)
(*                                                                         *)
(* Rounds are numbered from 1 and stand for their messages: cursor is      *)
(* summary_msg_seq, rounds below it are folded. A fold paragraph is the set*)
(* of rounds it summarizes. Sizes are counted in rounds and paragraphs.    *)
(* Every session keeps its own copy of the conversations row and writes    *)
(* back only the columns it changed; steps are cut where the code awaits.  *)
(***************************************************************************)
EXTENDS Integers, Sequences, FiniteSets, SequencesExt

CONSTANTS MaxRounds,  \* bound: turns the user starts
          AsyncHi,    \* persistent block that schedules a background pass
          SyncHi,     \* persistent block that makes the turn wait for a pass
          L0Cap,      \* paragraphs from which L0 is archived
          MinFold,    \* fewest rounds worth a summary
          MaxFold,    \* most rounds one summary covers
          MaxPasses,  \* MAX_SUMMARY_PASSES
          MaxFaults,  \* bound: failures of the archive and restarts
          Others      \* what happens besides turns: manual, edit, restart, and
                      \* long: one paragraph alone may exceed the archive cap

ASSUME Watermarks == /\ MaxRounds \in Nat /\ MaxPasses \in Nat
                     /\ AsyncHi \in Nat /\ SyncHi \in Nat /\ AsyncHi <= SyncHi
                     /\ L0Cap \in Nat \ {0} /\ MinFold \in Nat \ {0}
                     /\ MaxFold \in Nat /\ MinFold <= MaxFold
                     /\ MaxFaults \in Nat
                     /\ Others \subseteq {"manual", "edit", "restart", "long"}

VARIABLES rounds,   \* rounds stored; the newest one is live
          row,      \* the conversations row: summary_text and summary_msg_seq
          memory,   \* paragraphs in long-term memory, in order of arrival
          removed,  \* paragraphs the user deleted
          pc,       \* where each actor is
          copy,     \* the row as each actor's session holds it
          until,    \* end of the segment an actor is summarizing (exclusive)
          passes,   \* iterations the running pass has begun
          faults,   \* failures so far
          stale     \* L0 was written from a copy of the row that a fold had passed

vars == <<rounds, row, memory, removed, pc, copy, until, passes, faults, stale>>

Actor == {"turn", "pass", "manual"}
Fresh == [text |-> <<>>, cursor |-> 0]

\* _INFLIGHT holds the conversation.
InFlight == pc["pass"] # "idle"

\* Mutant: the cursor is taken for the last folded round.
FromExclusive(cursor) == cursor + 1

\* _tail_from: the first round that is not folded.
From(cursor) == IF cursor <= 0 THEN 1 ELSE cursor

\* The rounds an actor's history holds: a turn loaded it before it stored its
\* own question, the background pass and the button read what is stored.
Known(a) == IF a = "turn" \/ (a = "pass" /\ pc["turn"] = "blocked")
            THEN rounds - 1 ELSE rounds

TailSize(a, c) == IF Known(a) < From(c) THEN 0 ELSE Known(a) - From(c) + 1

\* The un-summarized tail plus L0.
Persistent(a, c) == TailSize(a, c.cursor) + Len(c.text)

\* The rounds offered to plan_segment: the tail without the newest one.
Foldable(a, c) == IF TailSize(a, c.cursor) = 0 THEN 0 ELSE TailSize(a, c.cursor) - 1

\* plan_segment: the exclusive end of the oldest segment worth a summary.
SegmentEnd(a, c) ==
    From(c.cursor) + (IF Foldable(a, c) < MaxFold THEN Foldable(a, c) ELSE MaxFold)

\* The candidate of an actor: its copy of L0 with the new paragraph behind it.
Folded(a) == [text   |-> Append(copy[a].text, From(copy[a].cursor)..(until[a] - 1)),
              cursor |-> until[a]]

GoTo(a, l) == pc' = [pc EXCEPT ![a] = l]

\* An actor writes the row from its copy: noted if the cursor has moved since.
Passed(a) == stale' = (stale \/ row.cursor # copy[a].cursor)

-----------------------------------------------------------------------------

Init == /\ rounds = 0
        /\ row = Fresh
        /\ memory = <<>>
        /\ removed = {}
        /\ pc = [a \in Actor |-> "idle"]
        /\ copy = [a \in Actor |-> Fresh]
        /\ until = [a \in Actor |-> 0]
        /\ passes = 0
        /\ faults = 0
        /\ stale = FALSE

(* The request path. *)

\* chat_stream: load the row and the history, then store the question.
TurnStart ==
    /\ pc["turn"] = "idle"
    /\ rounds < MaxRounds
    /\ rounds' = rounds + 1
    /\ copy' = [copy EXCEPT !["turn"] = row]
    /\ GoTo("turn", "build")
    /\ UNCHANGED <<row, memory, removed, until, passes, faults, stale>>

\* The whole window fits verbatim: how long the question is decides.
TurnFits ==
    /\ pc["turn"] = "build"
    /\ GoTo("turn", "view")
    /\ UNCHANGED <<rounds, row, memory, removed, copy, until, passes, faults, stale>>

\* The sync watermark: run a pass and wait for it, unless one is in flight.
TurnBlocks ==
    /\ pc["turn"] = "build"
    /\ Persistent("turn", copy["turn"]) >= SyncHi
    /\ IF InFlight
       THEN /\ copy' = [copy EXCEPT !["turn"] = row]
            /\ GoTo("turn", "maintain")
            /\ UNCHANGED passes
       ELSE /\ pc' = [pc EXCEPT !["turn"] = "blocked", !["pass"] = "read"]
            /\ passes' = 0
            /\ UNCHANGED copy
    /\ UNCHANGED <<rounds, row, memory, removed, until, faults, stale>>

\* The async watermark: schedule a background pass, unless one is in flight,
\* and leave L0 to it.
TurnSchedules ==
    /\ pc["turn"] = "build"
    /\ Persistent("turn", copy["turn"]) \in AsyncHi..(SyncHi - 1)
    /\ pc' = [pc EXCEPT !["turn"] = "view",
                        !["pass"] = IF InFlight THEN @ ELSE "read"]
    /\ passes' = IF InFlight THEN passes ELSE 0
    /\ UNCHANGED <<rounds, row, memory, removed, copy, until, faults, stale>>

TurnProceeds ==
    /\ pc["turn"] = "build"
    /\ Persistent("turn", copy["turn"]) < AsyncHi
    /\ GoTo("turn", "maintain")
    /\ UNCHANGED <<rounds, row, memory, removed, copy, until, passes, faults, stale>>

\* Mutant: the cursor is re-read after the pass, the summary is not.
TurnUnblocksStale ==
    /\ pc["turn"] = "blocked"
    /\ ~InFlight
    /\ copy' = [copy EXCEPT !["turn"].cursor = row.cursor]
    /\ GoTo("turn", "maintain")
    /\ UNCHANGED <<rounds, row, memory, removed, until, passes, faults, stale>>

\* The awaited pass ended: refresh the row.
TurnUnblocks ==
    /\ pc["turn"] = "blocked"
    /\ ~InFlight
    /\ copy' = [copy EXCEPT !["turn"] = row]
    /\ GoTo("turn", "maintain")
    /\ UNCHANGED <<rounds, row, memory, removed, until, passes, faults, stale>>

\* The context is built, the query condensed if it is far too long; the answer
\* completes the round.
TurnEnd ==
    /\ pc["turn"] = "view"
    /\ GoTo("turn", "idle")
    /\ UNCHANGED <<rounds, row, memory, removed, copy, until, passes, faults, stale>>

(* The summarization pass. *)

\* Mutant: an iteration that only archives is not counted.
PassCountsFolds == IF Foldable("pass", row) >= MinFold THEN passes + 1 ELSE passes

PassCounts == passes + 1

\* One iteration: refresh the row and plan.
PassReads ==
    /\ pc["pass"] = "read"
    /\ copy' = [copy EXCEPT !["pass"] = row]
    /\ passes' = PassCounts
    /\ until' = [until EXCEPT !["pass"] = SegmentEnd("pass", row)]
    /\ GoTo("pass",
            IF \/ passes >= MaxPasses
               \/ Persistent("pass", row) < AsyncHi
               \/ Foldable("pass", row) = 0                     THEN "idle"
            ELSE IF Foldable("pass", row) < MinFold             THEN "maintain"
            ELSE "summarize")
    /\ UNCHANGED <<rounds, row, memory, removed, faults, stale>>

\* Mutant: the UPDATE is not conditioned on the cursor.
PassFoldsUnguarded ==
    /\ pc["pass"] = "summarize"
    /\ row' = Folded("pass")
    /\ copy' = [copy EXCEPT !["pass"] = Folded("pass")]
    /\ GoTo("pass", "maintain")
    /\ UNCHANGED <<rounds, memory, removed, until, passes, faults, stale>>

\* The summary arrived: the UPDATE conditioned on the cursor, then refresh.
PassFolds ==
    /\ pc["pass"] = "summarize"
    /\ IF row.cursor = copy["pass"].cursor
       THEN /\ row' = Folded("pass")
            /\ copy' = [copy EXCEPT !["pass"] = Folded("pass")]
            /\ GoTo("pass", "maintain")
       ELSE GoTo("pass", "idle") /\ UNCHANGED <<row, copy>>
    /\ UNCHANGED <<rounds, memory, removed, until, passes, faults, stale>>

\* The LLM failed: the cursor stays, the pass ends.
PassFails ==
    /\ pc["pass"] = "summarize"
    /\ GoTo("pass", "idle")
    /\ UNCHANGED <<rounds, row, memory, removed, copy, until, passes, faults, stale>>

(* The button. *)

\* compact_conversation up to its LLM call.
ManualStart ==
    /\ "manual" \in Others
    /\ pc["manual"] = "idle"
    /\ TailSize("manual", row.cursor) >= MinFold
    /\ Foldable("manual", row) > 0
    /\ copy' = [copy EXCEPT !["manual"] = row]
    /\ until' = [until EXCEPT !["manual"] = SegmentEnd("manual", row)]
    /\ GoTo("manual", IF Foldable("manual", row) < MinFold THEN "maintain"
                                                           ELSE "summarize")
    /\ UNCHANGED <<rounds, row, memory, removed, passes, faults, stale>>

\* The summary arrived: both columns are written, unconditionally.
ManualFolds ==
    /\ pc["manual"] = "summarize"
    /\ row' = Folded("manual") /\ Passed("manual")
    /\ copy' = [copy EXCEPT !["manual"] = Folded("manual")]
    /\ GoTo("manual", "maintain")
    /\ UNCHANGED <<rounds, memory, removed, until, passes, faults>>

\* SUMMARY_LLM_FAILED: rolled back.
ManualFails ==
    /\ pc["manual"] = "summarize"
    /\ GoTo("manual", "idle")
    /\ UNCHANGED <<rounds, row, memory, removed, copy, until, passes, faults, stale>>

(* maybe_archive_and_compact, run by any of the three on its own copy. *)

\* The summary_text column is written alone.
WriteText(a, text) == row' = [row EXCEPT !.text = text] /\ Passed(a)

\* What an actor does after the maintenance of L0.
AfterMaintenance(a) == CASE a = "turn" -> "view"
                         [] a = "pass" -> "read"
                         [] a = "manual" -> "idle"

\* Whether the archive loop goes on with these paragraphs.
MustArchive(text) == Len(text) > 1 /\ Len(text) >= L0Cap

\* Below the cap nothing happens. A single paragraph above the cap is compacted
\* in place: shorter, it still summarizes the same rounds.
MaintainBegin(a) ==
    /\ pc[a] = "maintain"
    /\ GoTo(a, IF MustArchive(copy[a].text) THEN "archive" ELSE AfterMaintenance(a))
    /\ \/ UNCHANGED <<row, stale>>
       \/ "long" \in Others /\ Len(copy[a].text) = 1 /\ WriteText(a, copy[a].text)
    /\ UNCHANGED <<rounds, memory, removed, copy, until, passes, faults>>

\* Mutant: "if not archived: break" is gone.
ArchiveFailsUnnoticed(a) ==
    /\ pc[a] = "archive"
    /\ faults < MaxFaults
    /\ faults' = faults + 1
    /\ GoTo(a, "drop")
    /\ UNCHANGED <<rounds, row, memory, removed, copy, until, passes, stale>>

\* archive_memory_essential fails, before or after its rows were committed.
ArchiveFails(a) ==
    /\ pc[a] = "archive"
    /\ faults < MaxFaults
    /\ faults' = faults + 1
    /\ memory' \in {memory, Append(memory, Head(copy[a].text))}
    /\ GoTo(a, AfterMaintenance(a))
    /\ UNCHANGED <<rounds, row, removed, copy, until, passes, stale>>

\* archive_memory_essential stores the oldest paragraph.
ArchiveStores(a) ==
    /\ pc[a] = "archive"
    /\ memory' = Append(memory, Head(copy[a].text))
    /\ GoTo(a, "drop")
    /\ UNCHANGED <<rounds, row, removed, copy, until, passes, faults, stale>>

\* Then L0 is written without it: the summary_text column only.
DropOldest(a) ==
    LET rest == Tail(copy[a].text)
    IN  /\ pc[a] = "drop"
        /\ WriteText(a, rest)
        /\ copy' = [copy EXCEPT ![a].text = rest]
        /\ GoTo(a, IF MustArchive(rest) THEN "archive" ELSE AfterMaintenance(a))
        /\ UNCHANGED <<rounds, memory, removed, until, passes, faults>>

(* The user and the process. An edit is one step: the lookup of a suspended *)
(* turn between its read and its write of L0 is not a window of the model.   *)

\* DELETE .../summary/segments: one paragraph goes, the cursor stays.
DeleteSegment(i) ==
    /\ "edit" \in Others
    /\ i \in 1..Len(row.text)
    /\ removed' = removed \cup {row.text[i]}
    /\ row' = [row EXCEPT !.text = RemoveAt(row.text, i)]
    /\ UNCHANGED <<rounds, memory, pc, copy, until, passes, faults, stale>>

\* PUT .../summary with an empty text: every paragraph goes.
ClearSummary ==
    /\ "edit" \in Others
    /\ row.text # <<>>
    /\ removed' = removed \cup ToSet(row.text)
    /\ row' = [row EXCEPT !.text = <<>>]
    /\ UNCHANGED <<rounds, memory, pc, copy, until, passes, faults, stale>>

\* The process dies: tasks and _INFLIGHT are gone, what was committed stays.
Restart ==
    /\ "restart" \in Others
    /\ faults < MaxFaults
    /\ \E a \in Actor : pc[a] # "idle"
    /\ faults' = faults + 1
    /\ pc' = [a \in Actor |-> "idle"]
    /\ UNCHANGED <<rounds, row, memory, removed, copy, until, passes, stale>>

Turn == TurnStart \/ TurnFits \/ TurnBlocks \/ TurnSchedules \/ TurnProceeds
           \/ TurnUnblocks \/ TurnEnd
Pass == PassReads \/ PassFolds \/ PassFails
Manual == ManualStart \/ ManualFolds \/ ManualFails
Maintain(a) == MaintainBegin(a) \/ ArchiveFails(a) \/ ArchiveStores(a) \/ DropOldest(a)
Edit == (\E i \in 1..Len(row.text) : DeleteSegment(i)) \/ ClearSummary

Next == Turn \/ Pass \/ Manual \/ (\E a \in Actor : Maintain(a)) \/ Edit \/ Restart

Spec == Init /\ [][Next]_vars

\* A task that can run does: the LLM answers or fails within its budget.
FairSpec == Spec /\ WF_vars(Pass \/ Maintain("pass"))

-----------------------------------------------------------------------------

Paragraph == SUBSET (1..MaxRounds)
Row == [text : Seq(Paragraph), cursor : 0..MaxRounds]
Place == {"idle", "build", "blocked", "read", "summarize", "maintain", "archive",
          "drop", "view"}

\* The values every variable ranges over.
TypeOK ==
    /\ rounds \in 0..MaxRounds
    /\ row \in Row
    /\ memory \in Seq(Paragraph)
    /\ removed \subseteq Paragraph
    /\ pc \in [Actor -> Place]
    /\ pc["turn"] \notin {"read", "summarize"}
    /\ pc["pass"] \notin {"build", "blocked", "view"}
    /\ pc["manual"] \notin {"read", "build", "blocked", "view"}
    /\ copy \in [Actor -> Row]
    /\ until \in [Actor -> 0..MaxRounds]
    /\ passes \in 0..(MaxPasses + 1)
    /\ faults \in 0..MaxFaults
    /\ stale \in BOOLEAN

Represented(text) == UNION (ToSet(text) \cup ToSet(memory) \cup removed)

\* No message is lost from the model's view: what lies below the cursor, and is
\* not replayed, is in L0 or in long-term memory, or the user deleted it.
NothingLost == \A r \in 1..(row.cursor - 1) : r \in Represented(row.text)

\* The same of the context a turn hands to the model, built from its own copy
\* of L0 and of the cursor, with a pass and the user at work next to it; and the
\* live round is in it raw, though the pass planned on a history without it.
ViewIsComplete ==
    pc["turn"] = "view" =>
        /\ From(copy["turn"].cursor) <= rounds
        /\ \A r \in 1..(rounds - 1) :
              r < From(copy["turn"].cursor) => r \in Represented(copy["turn"].text)

\* A round is summarized once: paragraphs do not overlap, L0 and memory and what
\* the user deleted cover exactly what lies below the cursor, and L0 is in order.
FoldsAreExact ==
    LET kept == ToSet(row.text) \cup ToSet(memory) \cup removed
    IN  /\ UNION kept = 1..(row.cursor - 1)
        /\ \A p, q \in kept : p = q \/ p \cap q = {}
        /\ \A i, j \in 1..Len(row.text) :
              i < j => \A x \in row.text[i], y \in row.text[j] : x < y

\* A pass that lost the race against the button or another pass does not overwrite a fold that got ahead of it.
PassNeverRewinds ==
    [][pc["pass"] = "summarize" /\ row' # row /\ pc' # pc /\ pc'["pass"] # "summarize"
          => row'.cursor >= row.cursor]_vars

\* What the user deleted from the summary stays deleted.
DeletedStaysDeleted == \A p \in removed : p \notin ToSet(row.text)

\* A pass ends, also when archiving frees nothing: the in-flight guard of the
\* conversation is released.
PassEnds == InFlight ~> ~InFlight
=============================================================================
