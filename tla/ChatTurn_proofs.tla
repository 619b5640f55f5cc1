--------------------------- MODULE ChatTurn_proofs ---------------------------
(***************************************************************************)
(* Proofs about ChatTurn: type correctness; an answer the client was told  *)
(* about is stored, whatever fails, dies or is deleted; a suspension stays *)
(* until its question ended, and not longer; no half-written row stays; a  *)
(* deleted conversation leaves nothing.                                    *)
(***************************************************************************)
EXTENDS ChatTurn, TLAPS

(* The inductive invariant. The danger is FailEnds: it marks the row of its *)
(* run as an error, a complete one too, and must never do so for a question *)
(* the client was told is done. It cannot, because a run for a new question *)
(* has that question to itself (NewIsUntold, StoredIsUntouched).            *)

\* The request was accepted while there was room for its question.
RoomForQuestion == req.at = "accepted" /\ req.mode = "new" => asked < MaxQuestions

\* Nobody was told anything about a question that is not stored.
FutureIsUntold == \A q \in Question : q > asked => told[q] = "none"

\* A stored question nobody runs yet: no run, snapshot or event is about it.
StoredIsUntouched ==
    req.at = "stored" /\ req.mode = "new" =>
        /\ asked # None
        /\ told[asked] = "none"
        /\ asked \notin {turn, pending, held}

\* A run of a new question has one; until it is over nobody was told it is done.
NewIsUntold ==
    mode = "new" /\ pc \notin {"none", "finalize"} => turn # None /\ told[turn] # "done"

\* What the run is about to announce is stored.
AnswerBeforeTell ==
    conv = "kept" => /\ pc = "answered" => Row(turn, "complete") \in rows
                     /\ pc = "tell" => Answered(turn)

\* Only a deleted conversation is purged.
PurgedIsDeleted == purge # "none" => conv = "deleted"

(* The snapshot. A run works on the question of the snapshot it read, or on a *)
(* later one, and takes the snapshot away only when that question ended.      *)

\* No row is about a stored question that nobody runs yet.
StoredIsUnanswered ==
    req.at = "stored" /\ req.mode = "new" => \A r \in rows : r.of # asked

\* The snapshot is about the question of the live run, or an earlier one.
PendingIsEarlier ==
    /\ mode = "new" /\ pc # "none" => pending <= turn
    /\ mode # "new" /\ pc \notin {"none", "load"} /\ conv = "kept" => pending = turn
    /\ pc \notin {"none", "load"} /\ conv = "kept" => held \in {None, pending}

\* A suspended question needs its snapshot no more once it, or a later one, ended.
Ended(p) == Answered(p) \/ told[p] = "stopped"

\* Until its end, nothing relies on the answer of a new question: a failure marks it.
FailureIsHarmless ==
    mode = "new" /\ pc \notin {"none", "finalize"} /\ conv = "kept" =>
        \A q \in paused : pending >= q \/ \E p \in q..asked : p # turn /\ Ended(p)

\* A run takes the snapshot away after the end of its question.
FinalizedIsEnded == pc = "finalize" /\ conv = "kept" => Ended(turn)

SurviveInv == /\ StoredIsUnanswered
              /\ PendingIsEarlier
              /\ FailureIsHarmless
              /\ FinalizedIsEnded
              /\ SuspensionSurvives

(* What is left over from a turn is noted in leftover. *)

\* Nobody was told the end of a new question that still runs, or anything about the
\* questions after it.
NewIsLast ==
    mode = "new" /\ pc # "none" =>
        /\ pc # "finalize" => told[turn] # "stopped"
        /\ \A q \in Question : q > turn => told[q] = "none"

\* A run is where its mode takes it.
ModeFits == /\ pc \in {"entry", "gate"} => mode = "new"
            /\ pc = "work" => mode # "stop"

\* A run holds the snapshot that it works on and that is there, unless it was purged.
HeldIsPending ==
    pc \notin {"none", "load", "suspended", "drop"} =>
        /\ pending \in {None, held}
        /\ mode # "new" => held = turn

\* x is not the snapshot of a question that ended, or of an earlier one, except of the
\* one that the run is about to take away.
NotOfEnded(x) ==
    \A q \in Question :
        told[q] \in {"done", "stopped"} /\ ~(pc = "finalize" /\ q = turn) => x \notin 1..q

EndedIsGone ==
    "snapshot" \notin leftover => /\ NotOfEnded(pending)
                                  /\ pc \notin {"none", "load"} => NotOfEnded(held)

\* A turn that is taken up again over a snapshot that should be gone is noted.
StaleIsNoted ==
    pc = "work" /\ mode = "continue" /\ "snapshot" \in leftover => "rows" \in leftover

NoneHalfWritten(q) == \A p \in 1..q : Row(p, "generating") \notin rows

\* Half-written rows go before the end of a turn is told.
EndedIsClean ==
    "rows" \notin leftover =>
        /\ pc = "tell" => NoneHalfWritten(turn)
        /\ \A q \in 1..asked : told[q] = "done" => NoneHalfWritten(q)

LeftInv == /\ NewIsLast
           /\ ModeFits
           /\ HeldIsPending
           /\ EndedIsGone
           /\ StaleIsNoted
           /\ EndedIsClean

(* What a deletion leaves behind. *)

\* A run that began after the abort is noted with all it may write about.
LateIsNoted ==
    deleter # "idle" /\ pc \notin {"none", "load"} => {turn, held} \subseteq late \cup {None}

\* After a restart nothing is on its way to a deleted conversation.
SweptIsQuiet == conv = "deleted" /\ deleter = "idle" => pc = "none" /\ req = NoRequest

\* What a table that was purged still holds is what a batch missed or a late run wrote.
PurgeProgress ==
    /\ purge = "pending" => ((\E r \in rows : r.of \notin late) => "messages" \in missed)
    /\ PurgeLeavesNothing

PurgeInv == LateIsNoted /\ SweptIsQuiet /\ PurgeProgress

\* The inductive invariant.
IInv == /\ TypeOK
        /\ RoomForQuestion
        /\ FutureIsUntold
        /\ StoredIsUntouched
        /\ NewIsUntold
        /\ AnswerBeforeTell
        /\ PurgedIsDeleted
        /\ AnswersAreStored
        /\ SurviveInv
        /\ LeftInv
        /\ PurgeInv

-----------------------------------------------------------------------------
(* The initial state. *)

\* Before the first question there is nothing to get wrong.
LEMMA InitIInv == Init => IInv
  BY Bounds DEF Init, IInv, TypeOK, RoomForQuestion, FutureIsUntold, StoredIsUntouched,
     NewIsUntold, AnswerBeforeTell, PurgedIsDeleted, AnswersAreStored, Mode, NoRequest, None,
     SurviveInv, StoredIsUnanswered, PendingIsEarlier, FailureIsHarmless, FinalizedIsEnded,
     SuspensionSurvives, LeftInv, NewIsLast, ModeFits, HeldIsPending, EndedIsGone, NotOfEnded,
     StaleIsNoted, EndedIsClean, PurgeInv, LateIsNoted, SweptIsQuiet, PurgeProgress,
     PurgeLeavesNothing

-----------------------------------------------------------------------------
(* The request. *)

\* A request that was accepted has stored nothing yet.
LEMMA AcceptKeeps == ASSUME IInv, NEW m \in Mode, Accept(m) PROVE IInv'
<1> USE DEF IInv, Accept
<1>1. TypeOK'
  BY DEF runVars, deleteVars, noteVars, TypeOK
<1>2. RoomForQuestion' /\ FutureIsUntold' /\ StoredIsUntouched' /\
      NewIsUntold' /\ AnswerBeforeTell' /\ PurgedIsDeleted' /\
      AnswersAreStored'
  BY  DEF runVars, Answered, deleteVars, RoomForQuestion, FutureIsUntold, StoredIsUntouched,
     NewIsUntold, AnswerBeforeTell, PurgedIsDeleted, AnswersAreStored
<1>3. SurviveInv'
  BY  DEF runVars, noteVars, Answered, Ended, SurviveInv, StoredIsUnanswered, PendingIsEarlier,
     FailureIsHarmless, FinalizedIsEnded, SuspensionSurvives
<1>4. LeftInv'
  BY  DEF runVars, noteVars, LeftInv, NewIsLast, ModeFits, HeldIsPending, EndedIsGone, NotOfEnded,
     StaleIsNoted, EndedIsClean, NoneHalfWritten
<1>5. PurgeInv'
  BY  DEF runVars, deleteVars, noteVars, PurgeInv, LateIsNoted, SweptIsQuiet, PurgeProgress,
     PurgeLeavesNothing
<1>6. QED
  BY <1>1, <1>2, <1>3, <1>4, <1>5


\* A stored question is new: nobody was told about it.
LEMMA StoreKeeps == ASSUME IInv, Store PROVE IInv'
<1> USE DEF IInv, Store
<1>1. TypeOK'
  BY Bounds DEF runVars, deleteVars, noteVars, TypeOK, RoomForQuestion,
     PurgedIsDeleted
<1>2. StoredIsUntouched'
  BY Bounds DEF runVars, None, Question, TypeOK, RoomForQuestion,
     FutureIsUntold, StoredIsUntouched
<1>3. AnswersAreStored'
  BY Bounds DEF deleteVars, Question, Answered, TypeOK, RoomForQuestion, FutureIsUntold,
     AnswersAreStored
<1>4. RoomForQuestion' /\ FutureIsUntold' /\ NewIsUntold' /\ AnswerBeforeTell'
      /\ PurgedIsDeleted'
  BY  DEF Question, runVars, deleteVars, Answered, TypeOK, RoomForQuestion, FutureIsUntold,
     NewIsUntold, AnswerBeforeTell, PurgedIsDeleted
<1>5. SurviveInv'
  <2>1. StoredIsUnanswered'
    BY  DEF TypeOK, StoredIsUnanswered
  <2>2. PendingIsEarlier'
    BY  DEF runVars, deleteVars, SurviveInv, PendingIsEarlier
  <2>3. FailureIsHarmless'
    BY Bounds DEF runVars, deleteVars, noteVars, End, GoOn, Tell, LoadAs, Asked, Row, Created,
       NoRequest, None, Question, Mode, TypeOK, Answered, Ended, RoomForQuestion, FutureIsUntold,
       StoredIsUntouched, NewIsUntold, AnswerBeforeTell, PurgedIsDeleted, SurviveInv,
       StoredIsUnanswered, PendingIsEarlier, FailureIsHarmless, FinalizedIsEnded, SuspensionSurvives
  <2>4. FinalizedIsEnded'
    BY  DEF runVars, deleteVars, Answered, Ended, SurviveInv, FinalizedIsEnded
  <2>5. SuspensionSurvives'
    BY  DEF deleteVars, noteVars, TypeOK, Answered, SurviveInv, SuspensionSurvives
  <2>6. QED
    BY <2>1, <2>2, <2>3, <2>4, <2>5 DEF SurviveInv
<1>6. LeftInv'
  <2>1. NewIsLast'
    BY  DEF runVars, LeftInv, NewIsLast
  <2>2. ModeFits'
    BY  DEF runVars, LeftInv, ModeFits
  <2>3. HeldIsPending'
    BY  DEF runVars, LeftInv, HeldIsPending
  <2>4. EndedIsGone'
    BY  DEF runVars, noteVars, LeftInv, EndedIsGone, NotOfEnded
  <2>5. StaleIsNoted'
    BY  DEF runVars, noteVars, LeftInv, StaleIsNoted
  <2>6. EndedIsClean'
    <3>1. UNCHANGED <<rows, pc, turn, told, leftover>>
      BY DEF runVars, noteVars
    <3>2. \A q \in 1..asked' : told[q] = "done" => q \in 1..asked
      BY Bounds DEF Question, TypeOK, RoomForQuestion, FutureIsUntold
    <3>3. QED
      BY <3>1, <3>2 DEF LeftInv, EndedIsClean, NoneHalfWritten
  <2>7. QED
    BY <2>1, <2>2, <2>3, <2>4, <2>5, <2>6 DEF LeftInv
<1>7. PurgeInv'
  BY  DEF runVars, deleteVars, noteVars, NoRequest, PurgeInv, LateIsNoted, SweptIsQuiet,
     PurgeProgress, PurgeLeavesNothing
<1>8. QED
  BY <1>1, <1>2, <1>3, <1>4, <1>5, <1>6, <1>7


\* A joined request leaves its question where it found it.
LEMMA JoinKeeps == ASSUME IInv, Join PROVE IInv'
<1> USE DEF IInv, Join
<1>1. TypeOK'
  BY DEF NoRequest, runVars, deleteVars, noteVars, Mode, TypeOK
<1>2. RoomForQuestion' /\ FutureIsUntold' /\ StoredIsUntouched' /\
      NewIsUntold' /\ AnswerBeforeTell' /\ PurgedIsDeleted' /\
      AnswersAreStored'
  BY  DEF NoRequest, runVars, deleteVars, Answered, RoomForQuestion, FutureIsUntold,
     StoredIsUntouched, NewIsUntold, AnswerBeforeTell, PurgedIsDeleted, AnswersAreStored
<1>3. SurviveInv'
  BY  DEF runVars, deleteVars, noteVars, NoRequest, Answered, Ended, SurviveInv,
     StoredIsUnanswered, PendingIsEarlier, FailureIsHarmless, FinalizedIsEnded, SuspensionSurvives
<1>4. LeftInv'
  BY  DEF runVars, noteVars, LeftInv, NewIsLast, ModeFits, HeldIsPending, EndedIsGone, NotOfEnded,
     StaleIsNoted, EndedIsClean, NoneHalfWritten
<1>5. PurgeInv'
  BY  DEF runVars, deleteVars, noteVars, PurgeInv, LateIsNoted, SweptIsQuiet, PurgeProgress,
     PurgeLeavesNothing
<1>6. QED
  BY <1>1, <1>2, <1>3, <1>4, <1>5


\* The run takes a question nobody touched.
LEMMA BeginKeeps == ASSUME IInv, Begin PROVE IInv'
<1> USE DEF IInv, Begin
<1>1. TypeOK'
  BY DEF NoRequest, deleteVars, noteVars, None, Mode, TypeOK
<1>2. NewIsUntold'
  BY DEF StoredIsUntouched, NewIsUntold
<1>3. RoomForQuestion' /\ FutureIsUntold' /\ StoredIsUntouched' /\
      AnswerBeforeTell' /\ PurgedIsDeleted' /\ AnswersAreStored'
  BY  DEF NoRequest, deleteVars, Answered, RoomForQuestion, FutureIsUntold, StoredIsUntouched,
     AnswerBeforeTell, PurgedIsDeleted, AnswersAreStored
<1>4. SurviveInv'
  BY  DEF deleteVars, noteVars, NoRequest, TypeOK, Answered, Ended, StoredIsUntouched, SurviveInv,
     StoredIsUnanswered, PendingIsEarlier, FailureIsHarmless, FinalizedIsEnded, SuspensionSurvives
<1>5. LeftInv'
  BY  DEF noteVars, FutureIsUntold, StoredIsUntouched, LeftInv, NewIsLast, ModeFits,
     HeldIsPending, EndedIsGone, NotOfEnded, StaleIsNoted, EndedIsClean, NoneHalfWritten
<1>6. PurgeInv'
  BY  DEF deleteVars, noteVars, NoRequest, PurgeInv, LateIsNoted, SweptIsQuiet, PurgeProgress,
     PurgeLeavesNothing
<1>7. QED
  BY <1>1, <1>2, <1>3, <1>4, <1>5, <1>6


-----------------------------------------------------------------------------
(* The producer. *)

\* A run that finds no question ends.
LEMMA LoadNothingKeeps == ASSUME IInv, LoadNothing PROVE IInv'
<1> USE DEF IInv, LoadNothing
<1>1. TypeOK'
  BY DEF None, Mode, CutShort, End, deleteVars, noteVars, TypeOK
<1>2. RoomForQuestion' /\ FutureIsUntold' /\ StoredIsUntouched' /\
      NewIsUntold' /\ AnswerBeforeTell' /\ PurgedIsDeleted' /\
      AnswersAreStored'
  BY  DEF End, deleteVars, Answered, RoomForQuestion, FutureIsUntold, StoredIsUntouched,
     NewIsUntold, AnswerBeforeTell, PurgedIsDeleted, AnswersAreStored
<1>3. SurviveInv'
  BY  DEF deleteVars, noteVars, End, Answered, SurviveInv, StoredIsUnanswered, PendingIsEarlier,
     FailureIsHarmless, FinalizedIsEnded, SuspensionSurvives
<1>4. LeftInv'
  BY  DEF noteVars, End, LeftInv, NewIsLast, ModeFits, HeldIsPending, EndedIsGone, NotOfEnded,
     StaleIsNoted, EndedIsClean, NoneHalfWritten
<1>5. PurgeInv'
  BY  DEF deleteVars, noteVars, End, PurgeInv, LateIsNoted, SweptIsQuiet, PurgeProgress,
     PurgeLeavesNothing
<1>6. QED
  BY <1>1, <1>2, <1>3, <1>4, <1>5


\* A resume works on the question of its snapshot.
LEMMA LoadKeeps == ASSUME IInv, Load PROVE IInv'
<1> USE DEF IInv, Load
<1>1. TypeOK'
  BY DEF None, deleteVars, noteVars, LoadAs, Asked, Mode, TypeOK, NewIsUntold
<1>2. RoomForQuestion' /\ FutureIsUntold' /\ StoredIsUntouched' /\
      NewIsUntold' /\ AnswerBeforeTell' /\ PurgedIsDeleted' /\
      AnswersAreStored'
  BY  DEF LoadAs, Asked, Mode, deleteVars, Answered, TypeOK, RoomForQuestion, FutureIsUntold,
     StoredIsUntouched, NewIsUntold, AnswerBeforeTell, PurgedIsDeleted, AnswersAreStored
<1>3. SurviveInv'
  BY  DEF deleteVars, LoadAs, Asked, Mode, TypeOK, Answered, Ended, SurviveInv,
     StoredIsUnanswered, PendingIsEarlier, FailureIsHarmless, FinalizedIsEnded, SuspensionSurvives
<1>4. LeftInv'
  BY  DEF LoadAs, Asked, Mode, TypeOK, LeftInv, NewIsLast, ModeFits, HeldIsPending, EndedIsGone,
     NotOfEnded, StaleIsNoted, EndedIsClean, NoneHalfWritten
<1>5. PurgeInv'
  BY  DEF deleteVars, LoadAs, PurgeInv, LateIsNoted, SweptIsQuiet, PurgeProgress,
     PurgeLeavesNothing
<1>6. QED
  BY <1>1, <1>2, <1>3, <1>4, <1>5


\* The cached answer is stored before it is announced.
LEMMA CacheAnswerKeeps == ASSUME IInv, CacheAnswer PROVE IInv'
<1> USE DEF IInv, CacheAnswer
<1>1. TypeOK'
  BY DEF GoOn, deleteVars, noteVars, Row, None, TypeOK
<1>2. AnswerBeforeTell'
  <2>1. pc' = "tell" /\ turn' = turn /\ Row(turn, "plain") \in rows'
    BY DEF GoOn
  <2>2. Answered(turn)'
    BY <2>1 DEF Answered, Row
  <2>3. QED
    BY <2>1, <2>2 DEF AnswerBeforeTell
<1>3. RoomForQuestion' /\ FutureIsUntold' /\ StoredIsUntouched' /\
      NewIsUntold' /\ PurgedIsDeleted' /\ AnswersAreStored'
  BY  DEF GoOn, deleteVars, Answered, RoomForQuestion, FutureIsUntold, StoredIsUntouched,
     NewIsUntold, PurgedIsDeleted, AnswersAreStored
<1>4. SurviveInv'
  BY  DEF deleteVars, GoOn, Row, Answered, Ended, StoredIsUntouched, SurviveInv,
     StoredIsUnanswered, PendingIsEarlier, FailureIsHarmless, FinalizedIsEnded, SuspensionSurvives
<1>5. LeftInv'
  BY  DEF GoOn, Row, HalfWritten, LeftInv, NewIsLast, ModeFits, HeldIsPending, EndedIsGone,
     NotOfEnded, StaleIsNoted, EndedIsClean, NoneHalfWritten
<1>6. PurgeInv'
  BY  DEF deleteVars, GoOn, Row, TypeOK, PurgedIsDeleted, PurgeInv, LateIsNoted, SweptIsQuiet,
     PurgeProgress, PurgeLeavesNothing
<1>7. QED
  BY <1>1, <1>2, <1>3, <1>4, <1>5, <1>6


\* A prompt that does not fit ends the run, told as an error.
LEMMA OverflowKeeps == ASSUME IInv, Overflow PROVE IInv'
<1> USE DEF IInv, Overflow
<1>1. TypeOK'
  <2>1. told' \in [Question -> {"none", "suspended", "done", "stopped", "error"}]
    BY  DEF Tell, TypeOK
  <2>2. rows' \subseteq rows
    OBVIOUS
  <2>3. pending' \in 0..asked
    BY  DEF TypeOK
  <2>4. QED
    BY <2>1 DEF deleteVars, noteVars, None, Mode, End, TypeOK
<1>2. RoomForQuestion' /\ FutureIsUntold' /\ StoredIsUntouched' /\
      NewIsUntold' /\ AnswerBeforeTell' /\ PurgedIsDeleted' /\
      AnswersAreStored'
  BY  DEF Tell, End, deleteVars, Answered, TypeOK, RoomForQuestion, FutureIsUntold,
     StoredIsUntouched, NewIsUntold, AnswerBeforeTell, PurgedIsDeleted, AnswersAreStored
<1>3. SurviveInv'
  BY  DEF deleteVars, noteVars, End, Tell, Answered, Ended, SurviveInv, StoredIsUnanswered,
     PendingIsEarlier, FailureIsHarmless, FinalizedIsEnded, SuspensionSurvives
<1>4. LeftInv'
  BY  DEF noteVars, End, Tell, LeftInv, NewIsLast, ModeFits, HeldIsPending, EndedIsGone,
     NotOfEnded, StaleIsNoted, EndedIsClean, NoneHalfWritten
<1>5. PurgeInv'
  BY  DEF deleteVars, noteVars, End, PurgeInv, LateIsNoted, SweptIsQuiet, PurgeProgress,
     PurgeLeavesNothing
<1>6. QED
  BY <1>1, <1>2, <1>3, <1>4, <1>5


\* The half-written row is of the question the run works on.
LEMMA PrecreateKeeps == ASSUME IInv, Precreate PROVE IInv'
<1> USE DEF IInv, Precreate
<1>1. TypeOK'
  BY DEF GoOn, deleteVars, noteVars, Row, None, TypeOK
<1>2. RoomForQuestion' /\ FutureIsUntold' /\ StoredIsUntouched' /\
      NewIsUntold' /\ AnswerBeforeTell' /\ PurgedIsDeleted' /\
      AnswersAreStored'
  BY  DEF GoOn, deleteVars, Answered, RoomForQuestion, FutureIsUntold, StoredIsUntouched,
     NewIsUntold, AnswerBeforeTell, PurgedIsDeleted, AnswersAreStored
<1>3. SurviveInv'
  BY  DEF deleteVars, noteVars, GoOn, Row, Answered, Ended, StoredIsUntouched, SurviveInv,
     StoredIsUnanswered, PendingIsEarlier, FailureIsHarmless, FinalizedIsEnded, SuspensionSurvives
<1>4. LeftInv'
  <2>1. NewIsLast'
    BY  DEF GoOn, LeftInv, NewIsLast
  <2>2. ModeFits'
    BY  DEF GoOn, LeftInv, ModeFits
  <2>3. HeldIsPending'
    BY  DEF GoOn, LeftInv, HeldIsPending
  <2>4. EndedIsGone'
    BY  DEF noteVars, GoOn, LeftInv, EndedIsGone, NotOfEnded
  <2>5. StaleIsNoted'
    BY  DEF GoOn, StaleIsNoted
  <2>6. EndedIsClean'
    BY Bounds DEF noteVars, GoOn, Row, Question, TypeOK, NewIsUntold, LeftInv, NewIsLast,
       ModeFits, EndedIsClean, NoneHalfWritten
  <2>7. QED
    BY <2>1, <2>2, <2>3, <2>4, <2>5, <2>6 DEF LeftInv
<1>5. PurgeInv'
  BY  DEF deleteVars, noteVars, GoOn, Row, TypeOK, PurgedIsDeleted, PurgeInv, LateIsNoted,
     SweptIsQuiet, PurgeProgress, PurgeLeavesNothing
<1>6. QED
  BY <1>1, <1>2, <1>3, <1>4, <1>5


\* A prompt that fits goes to the model.
LEMMA FitsKeeps == ASSUME IInv, Fits PROVE IInv'
<1> USE DEF IInv, Fits
<1>1. TypeOK'
  BY DEF GoOn, deleteVars, noteVars, TypeOK
<1>2. RoomForQuestion' /\ FutureIsUntold' /\ StoredIsUntouched' /\
      NewIsUntold' /\ AnswerBeforeTell' /\ PurgedIsDeleted' /\
      AnswersAreStored'
  BY  DEF GoOn, deleteVars, Answered, RoomForQuestion, FutureIsUntold, StoredIsUntouched,
     NewIsUntold, AnswerBeforeTell, PurgedIsDeleted, AnswersAreStored
<1>3. SurviveInv'
  BY  DEF deleteVars, noteVars, GoOn, Answered, Ended, SurviveInv, StoredIsUnanswered,
     PendingIsEarlier, FailureIsHarmless, FinalizedIsEnded, SuspensionSurvives
<1>4. LeftInv'
  BY  DEF noteVars, GoOn, LeftInv, NewIsLast, ModeFits, HeldIsPending, EndedIsGone, NotOfEnded,
     StaleIsNoted, EndedIsClean, NoneHalfWritten
<1>5. PurgeInv'
  BY  DEF deleteVars, noteVars, GoOn, PurgeInv, LateIsNoted, SweptIsQuiet, PurgeProgress,
     PurgeLeavesNothing
<1>6. QED
  BY <1>1, <1>2, <1>3, <1>4, <1>5


\* A flush saves that row again.
LEMMA FlushKeeps == ASSUME IInv, Flush PROVE IInv'
<1> USE DEF IInv, Flush
<1>1. TypeOK'
  BY DEF GoOn, deleteVars, noteVars, Row, None, TypeOK
<1>2. RoomForQuestion' /\ FutureIsUntold' /\ StoredIsUntouched' /\
      NewIsUntold' /\ AnswerBeforeTell' /\ PurgedIsDeleted' /\
      AnswersAreStored'
  BY  DEF GoOn, deleteVars, Answered, RoomForQuestion, FutureIsUntold, StoredIsUntouched,
     NewIsUntold, AnswerBeforeTell, PurgedIsDeleted, AnswersAreStored
<1>3. SurviveInv'
  BY  DEF deleteVars, noteVars, GoOn, Row, Answered, Ended, StoredIsUntouched, SurviveInv,
     StoredIsUnanswered, PendingIsEarlier, FailureIsHarmless, FinalizedIsEnded, SuspensionSurvives
<1>4. LeftInv'
  <2>1. NewIsLast'
    BY  DEF GoOn, LeftInv, NewIsLast
  <2>2. ModeFits'
    BY  DEF GoOn, LeftInv, ModeFits
  <2>3. HeldIsPending'
    BY  DEF GoOn, LeftInv, HeldIsPending
  <2>4. EndedIsGone'
    BY  DEF noteVars, GoOn, LeftInv, EndedIsGone, NotOfEnded
  <2>5. StaleIsNoted'
    BY  DEF noteVars, GoOn, LeftInv, StaleIsNoted
  <2>6. EndedIsClean'
    BY Bounds DEF noteVars, GoOn, Row, Question, Mode, TypeOK, NewIsUntold, LeftInv, NewIsLast,
       ModeFits, HeldIsPending, EndedIsGone, NotOfEnded, StaleIsNoted, EndedIsClean,
       NoneHalfWritten
  <2>7. QED
    BY <2>1, <2>2, <2>3, <2>4, <2>5, <2>6 DEF LeftInv
<1>5. PurgeInv'
  BY  DEF deleteVars, noteVars, GoOn, Row, TypeOK, PurgedIsDeleted, PurgeInv, LateIsNoted,
     SweptIsQuiet, PurgeProgress, PurgeLeavesNothing
<1>6. QED
  BY <1>1, <1>2, <1>3, <1>4, <1>5


\* A suspension is of the question the run works on.
LEMMA SuspendKeeps == ASSUME IInv, Suspend PROVE IInv'
<1> USE DEF IInv, Suspend
<1>1. TypeOK'
  BY Bounds DEF deleteVars, None, TypeOK
<1>2. RoomForQuestion' /\ FutureIsUntold' /\ StoredIsUntouched' /\
      NewIsUntold' /\ AnswerBeforeTell' /\ PurgedIsDeleted' /\
      AnswersAreStored'
  BY  DEF deleteVars, Answered, RoomForQuestion, FutureIsUntold, StoredIsUntouched, NewIsUntold,
     AnswerBeforeTell, PurgedIsDeleted, AnswersAreStored
<1>3. SurviveInv'
  BY  DEF deleteVars, TypeOK, Answered, Ended, SurviveInv, StoredIsUnanswered, PendingIsEarlier,
     FailureIsHarmless, FinalizedIsEnded, SuspensionSurvives
<1>4. LeftInv'
  <2>1. NewIsLast'
    BY  DEF LeftInv, NewIsLast
  <2>2. ModeFits'
    BY  DEF ModeFits
  <2>3. HeldIsPending'
    BY  DEF HeldIsPending
  <2>4. EndedIsGone'
    BY  DEF None, Question, NewIsUntold, LeftInv, NewIsLast, HeldIsPending, EndedIsGone,
       NotOfEnded
  <2>5. StaleIsNoted'
    BY  DEF StaleIsNoted
  <2>6. EndedIsClean'
    BY  DEF LeftInv, EndedIsClean, NoneHalfWritten
  <2>7. QED
    BY <2>1, <2>2, <2>3, <2>4, <2>5, <2>6 DEF LeftInv
<1>5. PurgeInv'
  BY  DEF deleteVars, PurgedIsDeleted, PurgeInv, LateIsNoted, SweptIsQuiet, PurgeProgress,
     PurgeLeavesNothing
<1>6. QED
  BY <1>1, <1>2, <1>3, <1>4, <1>5


\* A suspended run tells it, drops the half-written rows and ends.
LEMMA SuspendEndsKeeps == ASSUME IInv, SuspendEnds PROVE IInv'
<1> USE DEF IInv, SuspendEnds
<1>1. \/ /\ pc = "suspended" /\ Tell("suspended") /\ pc' = "drop"
         /\ UNCHANGED <<mode, turn, held, rows, leftover>>
      \/ /\ pc = "drop" /\ CleanUp /\ End /\ UNCHANGED told
  BY DEF GoOn
<1>2. /\ rows' \subseteq rows
      /\ \A r \in rows : r.status # "generating" => r \in rows'
      /\ leftover' \subseteq {"rows", "snapshot"}
  BY <1>1 DEF CleanUp, HalfWritten, TypeOK
<1>3. /\ told' \in [Question -> {"none", "suspended", "done", "stopped", "error"}]
      /\ \A q \in Question : told'[q] # told[q] => q = turn /\ told'[q] = "suspended"
  BY <1>1 DEF Tell, TypeOK
<1>4. TypeOK'
  <2>1. pc' \in {"none", "drop"} /\ mode' \in Mode /\ {turn', held'} \subseteq 0..asked
        /\ (pc' # "none" => turn' # None)
    BY <1>1 DEF End, Mode, None, TypeOK
  <2>2. QED
    BY <1>2, <1>3, <2>1 DEF deleteVars, TypeOK
<1>5. \A q \in 1..asked : Answered(q) => Answered(q)'
  BY <1>2 DEF Answered
<1>6. RoomForQuestion' /\ FutureIsUntold' /\ StoredIsUntouched' /\
      NewIsUntold' /\ AnswerBeforeTell' /\ PurgedIsDeleted'
  <2>1. RoomForQuestion' /\ AnswerBeforeTell' /\ PurgedIsDeleted'
    BY <1>1 DEF End, deleteVars, RoomForQuestion, AnswerBeforeTell, PurgedIsDeleted
  <2>2. FutureIsUntold'
    BY <1>3 DEF TypeOK, FutureIsUntold, Question
  <2>3. StoredIsUntouched'
    BY <1>1, <1>3 DEF End, None, TypeOK, StoredIsUntouched, Question
  <2>4. NewIsUntold'
    <3>1. pc = "suspended" => turn \in Question
      BY Bounds DEF TypeOK, None, Question
    <3>2. QED
      BY <1>1, <1>3, <3>1 DEF End, NewIsUntold
  <2>5. QED
    BY <2>1, <2>2, <2>3, <2>4
<1>7. AnswersAreStored'
  BY <1>3, <1>5, Bounds DEF deleteVars, TypeOK, AnswersAreStored, Question
<1>8. SurviveInv'
  <2>1. \A q \in Question : q # turn => (told[q] = "stopped" => told'[q] = "stopped")
    BY <1>3
  <2>2. QED
    BY <1>1, <1>2, <1>3, <1>5, <2>1, Bounds DEF deleteVars, End, TypeOK, Answered, Ended, SurviveInv, None,
     StoredIsUnanswered, PendingIsEarlier, FailureIsHarmless, FinalizedIsEnded, SuspensionSurvives, Question
<1>9. LeftInv'
  BY Bounds DEF End, GoOn, Tell, Row, HalfWritten, CleanUp, Question, TypeOK, LeftInv, NewIsLast,
     ModeFits, HeldIsPending, EndedIsGone, NotOfEnded, StaleIsNoted, EndedIsClean, NoneHalfWritten
<1>10. PurgeInv'
  BY  DEF deleteVars, End, GoOn, CleanUp, PurgeInv, LateIsNoted, SweptIsQuiet, PurgeProgress,
     PurgeLeavesNothing
<1>11. QED
  BY <1>4, <1>6, <1>7, <1>8, <1>9, <1>10


\* An answer takes the place of the half-written row of its question.
LEMMA AnswerKeeps == ASSUME IInv, Answer PROVE IInv'
<1> USE DEF IInv, Answer
<1>1. TypeOK'
  BY DEF GoOn, deleteVars, noteVars, Row, None, TypeOK
<1>2. RoomForQuestion' /\ FutureIsUntold' /\ StoredIsUntouched' /\
      NewIsUntold' /\ AnswerBeforeTell' /\ PurgedIsDeleted' /\
      AnswersAreStored'
  BY  DEF GoOn, deleteVars, Row, Answered, RoomForQuestion, FutureIsUntold, StoredIsUntouched,
     NewIsUntold, AnswerBeforeTell, PurgedIsDeleted, AnswersAreStored
<1>3. SurviveInv'
  BY  DEF deleteVars, noteVars, GoOn, Row, Answered, Ended, StoredIsUntouched, SurviveInv,
     StoredIsUnanswered, PendingIsEarlier, FailureIsHarmless, FinalizedIsEnded, SuspensionSurvives
<1>4. LeftInv'
  BY  DEF noteVars, GoOn, Row, LeftInv, NewIsLast, ModeFits, HeldIsPending, EndedIsGone,
     NotOfEnded, StaleIsNoted, EndedIsClean, NoneHalfWritten
<1>5. PurgeInv'
  BY  DEF deleteVars, noteVars, GoOn, Row, TypeOK, PurgedIsDeleted, PurgeInv, LateIsNoted,
     SweptIsQuiet, PurgeProgress, PurgeLeavesNothing
<1>6. QED
  BY <1>1, <1>2, <1>3, <1>4, <1>5


\* The complete row is not a dangling one.
LEMMA DropDanglingKeeps == ASSUME IInv, DropDangling PROVE IInv'
<1> USE DEF IInv, DropDangling
<1>1. TypeOK'
  BY DEF None, Mode, CleanUp, HalfWritten, GoOn, deleteVars, noteVars, TypeOK
<1>2. RoomForQuestion' /\ FutureIsUntold' /\ StoredIsUntouched' /\
      NewIsUntold' /\ AnswerBeforeTell' /\ PurgedIsDeleted' /\
      AnswersAreStored'
  BY  DEF CleanUp, HalfWritten, GoOn, deleteVars, Row, Answered, RoomForQuestion, FutureIsUntold,
     StoredIsUntouched, NewIsUntold, AnswerBeforeTell, PurgedIsDeleted, AnswersAreStored
<1>3. SurviveInv'
  BY  DEF CleanUp, HalfWritten, deleteVars, GoOn, Answered, Ended, SurviveInv, StoredIsUnanswered,
     PendingIsEarlier, FailureIsHarmless, FinalizedIsEnded, SuspensionSurvives
<1>4. LeftInv'
  BY  DEF GoOn, Row, HalfWritten, CleanUp, LeftInv, NewIsLast, ModeFits, HeldIsPending,
     EndedIsGone, NotOfEnded, StaleIsNoted, EndedIsClean, NoneHalfWritten
<1>5. PurgeInv'
  BY  DEF deleteVars, GoOn, CleanUp, PurgeInv, LateIsNoted, SweptIsQuiet, PurgeProgress,
     PurgeLeavesNothing
<1>6. QED
  BY <1>1, <1>2, <1>3, <1>4, <1>5


\* What is announced as done is stored.
LEMMA TellEndKeeps == ASSUME IInv, TellEnd PROVE IInv'
<1> USE DEF IInv, TellEnd
<1>1. TypeOK'
  BY DEF GoOn, Tell, deleteVars, noteVars, TypeOK
<1>2. AnswersAreStored'
  BY DEF Tell, deleteVars, Answered, AnswerBeforeTell, AnswersAreStored
<1>3. RoomForQuestion' /\ FutureIsUntold' /\ StoredIsUntouched' /\
      NewIsUntold' /\ AnswerBeforeTell' /\ PurgedIsDeleted'
  BY  DEF Tell, GoOn, deleteVars, TypeOK, RoomForQuestion, FutureIsUntold, StoredIsUntouched,
     NewIsUntold, AnswerBeforeTell, PurgedIsDeleted
<1>4. SurviveInv'
  BY Bounds DEF deleteVars, noteVars, GoOn, Tell, None, Question, TypeOK, Answered, Ended,
     AnswerBeforeTell, SurviveInv, StoredIsUnanswered, PendingIsEarlier, FailureIsHarmless,
     FinalizedIsEnded, SuspensionSurvives
<1>5. LeftInv'
  BY  DEF noteVars, GoOn, Tell, TypeOK, LeftInv, NewIsLast, ModeFits, HeldIsPending, EndedIsGone,
     NotOfEnded, StaleIsNoted, EndedIsClean, NoneHalfWritten
<1>6. PurgeInv'
  BY  DEF deleteVars, noteVars, GoOn, PurgeInv, LateIsNoted, SweptIsQuiet, PurgeProgress,
     PurgeLeavesNothing
<1>7. QED
  BY <1>1, <1>2, <1>3, <1>4, <1>5, <1>6


\* The run ends, and the question it resumed is pending no longer.
LEMMA FinalizeKeeps == ASSUME IInv, Finalize PROVE IInv'
<1> USE DEF IInv, Finalize
<1>1. TypeOK'
  <2>1. pending' \in 0..asked /\ leftover' \subseteq {"rows", "snapshot"}
    <3>1. pending' \in {None, pending}
      OBVIOUS
    <3>2. leftover' \subseteq leftover \cup {"snapshot"}
      OBVIOUS
    <3>3. QED
      BY <3>1, <3>2 DEF None, TypeOK
  <2>2. pc' = "none" /\ mode' \in Mode /\ turn' = None /\ held' = None
    BY DEF End, Mode
  <2>3. QED
    BY <2>1, <2>2 DEF deleteVars, None, TypeOK
<1>2. RoomForQuestion' /\ FutureIsUntold' /\ StoredIsUntouched' /\
      NewIsUntold' /\ AnswerBeforeTell' /\ PurgedIsDeleted' /\
      AnswersAreStored'
  BY  DEF End, deleteVars, Answered, RoomForQuestion, FutureIsUntold, StoredIsUntouched,
     NewIsUntold, AnswerBeforeTell, PurgedIsDeleted, AnswersAreStored
<1>3. SurviveInv'
  BY  DEF deleteVars, End, TypeOK, Answered, Ended, SurviveInv, StoredIsUnanswered,
     PendingIsEarlier, FailureIsHarmless, FinalizedIsEnded, SuspensionSurvives
<1>4. LeftInv'
  BY  DEF End, None, LeftInv, NewIsLast, ModeFits, HeldIsPending, EndedIsGone, NotOfEnded,
     StaleIsNoted, EndedIsClean, NoneHalfWritten
<1>5. PurgeInv'
  BY  DEF deleteVars, End, PurgeInv, LateIsNoted, SweptIsQuiet, PurgeProgress, PurgeLeavesNothing
<1>6. QED
  BY <1>1, <1>2, <1>3, <1>4, <1>5


\* A failure leaves the rows as they are.
LEMMA FailKeeps == ASSUME IInv, Fail PROVE IInv'
<1> USE DEF IInv, Fail
<1>1. TypeOK'
  BY DEF GoOn, deleteVars, noteVars, TypeOK
<1>2. RoomForQuestion' /\ FutureIsUntold' /\ StoredIsUntouched' /\
      NewIsUntold' /\ AnswerBeforeTell' /\ PurgedIsDeleted' /\
      AnswersAreStored'
  BY  DEF GoOn, deleteVars, Answered, RoomForQuestion, FutureIsUntold, StoredIsUntouched,
     NewIsUntold, AnswerBeforeTell, PurgedIsDeleted, AnswersAreStored
<1>3. SurviveInv'
  BY  DEF deleteVars, noteVars, GoOn, Answered, Ended, SurviveInv, StoredIsUnanswered,
     PendingIsEarlier, FailureIsHarmless, FinalizedIsEnded, SuspensionSurvives
<1>4. LeftInv'
  BY  DEF noteVars, GoOn, LeftInv, NewIsLast, ModeFits, HeldIsPending, EndedIsGone, NotOfEnded,
     StaleIsNoted, EndedIsClean, NoneHalfWritten
<1>5. PurgeInv'
  BY  DEF deleteVars, noteVars, GoOn, PurgeInv, LateIsNoted, SweptIsQuiet, PurgeProgress,
     PurgeLeavesNothing
<1>6. QED
  BY <1>1, <1>2, <1>3, <1>4, <1>5


\* Only a row of the run's own new question is marked, and nobody was told it is done.
LEMMA FailEndsKeeps == ASSUME IInv, FailEnds PROVE IInv'
<1> USE DEF IInv, FailEnds
<1>1. TypeOK'
  BY  DEF None, Mode, End, GoOn, Tell, deleteVars, noteVars, Row, Created, TypeOK
<1>2. AnswersAreStored'
  BY Bounds DEF Tell, deleteVars, Created, Question, Answered, TypeOK, NewIsUntold,
     AnswersAreStored
<1>3. RoomForQuestion' /\ FutureIsUntold' /\ StoredIsUntouched' /\
      NewIsUntold' /\ AnswerBeforeTell' /\ PurgedIsDeleted'
  BY Bounds DEF Tell, End, GoOn, Question, deleteVars, TypeOK, RoomForQuestion, FutureIsUntold,
     StoredIsUntouched, NewIsUntold, AnswerBeforeTell, PurgedIsDeleted
<1>4. SurviveInv'
  BY Bounds DEF runVars, deleteVars, noteVars, End, GoOn, Tell, LoadAs, Asked, Row, Created,
     NoRequest, None, Question, Mode, TypeOK, Answered, Ended, RoomForQuestion, FutureIsUntold,
     StoredIsUntouched, NewIsUntold, AnswerBeforeTell, PurgedIsDeleted, SurviveInv,
     StoredIsUnanswered, PendingIsEarlier, FailureIsHarmless, FinalizedIsEnded, SuspensionSurvives
<1>5. LeftInv'
  BY Bounds DEF noteVars, End, GoOn, Tell, Row, Question, TypeOK, FutureIsUntold,
     StoredIsUntouched, LeftInv, NewIsLast, ModeFits, HeldIsPending, EndedIsGone, NotOfEnded,
     StaleIsNoted, EndedIsClean, NoneHalfWritten
<1>6. PurgeInv'
  BY  DEF deleteVars, noteVars, End, GoOn, Row, Created, PurgedIsDeleted, PurgeInv, LateIsNoted,
     SweptIsQuiet, PurgeProgress, PurgeLeavesNothing
<1>7. QED
  BY <1>1, <1>2, <1>3, <1>4, <1>5, <1>6


-----------------------------------------------------------------------------
(* Deletion and the process. *)

\* A deletion ends the run first.
LEMMA DeleteBeginsKeeps == ASSUME IInv, DeleteBegins PROVE IInv'
<1> USE DEF IInv, DeleteBegins
<1>1. TypeOK'
  BY DEF None, Mode, CutShort, End, noteVars, TypeOK
<1>2. RoomForQuestion' /\ FutureIsUntold' /\ StoredIsUntouched' /\
      NewIsUntold' /\ AnswerBeforeTell' /\ PurgedIsDeleted' /\
      AnswersAreStored'
  BY  DEF End, Answered, RoomForQuestion, FutureIsUntold, StoredIsUntouched, NewIsUntold,
     AnswerBeforeTell, PurgedIsDeleted, AnswersAreStored
<1>3. SurviveInv'
  BY  DEF End, Answered, SurviveInv, StoredIsUnanswered, PendingIsEarlier, FailureIsHarmless,
     FinalizedIsEnded, SuspensionSurvives
<1>4. LeftInv'
  BY  DEF End, CutShort, LeftInv, NewIsLast, ModeFits, HeldIsPending, EndedIsGone, NotOfEnded,
     StaleIsNoted, EndedIsClean, NoneHalfWritten
<1>5. PurgeInv'
  BY  DEF End, PurgeInv, LateIsNoted, SweptIsQuiet, PurgeProgress, PurgeLeavesNothing
<1>6. QED
  BY <1>1, <1>2, <1>3, <1>4, <1>5


\* The conversation is gone before its rows are purged.
LEMMA DeleteRowKeeps == ASSUME IInv, DeleteRow PROVE IInv'
<1> USE DEF IInv, DeleteRow
<1>1. TypeOK'
  BY DEF runVars, noteVars, TypeOK
<1>2. RoomForQuestion' /\ FutureIsUntold' /\ StoredIsUntouched' /\
      NewIsUntold' /\ AnswerBeforeTell' /\ PurgedIsDeleted' /\
      AnswersAreStored'
  BY DEF runVars, RoomForQuestion, FutureIsUntold, StoredIsUntouched,
     NewIsUntold, AnswerBeforeTell, PurgedIsDeleted, AnswersAreStored
<1>3. SurviveInv'
  BY  DEF runVars, SurviveInv, StoredIsUnanswered, PendingIsEarlier, FailureIsHarmless,
     FinalizedIsEnded, SuspensionSurvives
<1>4. LeftInv'
  BY  DEF runVars, noteVars, LeftInv, NewIsLast, ModeFits, HeldIsPending, EndedIsGone, NotOfEnded,
     StaleIsNoted, EndedIsClean, NoneHalfWritten
<1>5. PurgeInv'
  BY  DEF runVars, noteVars, PurgeInv, LateIsNoted, SweptIsQuiet, PurgeProgress,
     PurgeLeavesNothing
<1>6. QED
  BY <1>1, <1>2, <1>3, <1>4, <1>5


\* Only a deleted conversation loses answers.
LEMMA PurgeKeeps == ASSUME IInv, Purge PROVE IInv'
<1> USE DEF IInv, Purge
<1>1. TypeOK'
  BY DEF runVars, noteVars, None, TypeOK
<1>2. AnswerBeforeTell'
  BY DEF AnswerBeforeTell, PurgedIsDeleted
<1>3. AnswersAreStored'
  BY DEF PurgedIsDeleted, AnswersAreStored
<1>4. RoomForQuestion' /\ FutureIsUntold' /\ StoredIsUntouched' /\
      NewIsUntold' /\ PurgedIsDeleted'
  BY DEF runVars, RoomForQuestion, FutureIsUntold, StoredIsUntouched,
     NewIsUntold, PurgedIsDeleted
<1>5. SurviveInv'
  BY  DEF runVars, None, TypeOK, PurgedIsDeleted, SurviveInv, StoredIsUnanswered,
     PendingIsEarlier, FailureIsHarmless, FinalizedIsEnded, SuspensionSurvives
<1>6. LeftInv'
  BY  DEF runVars, noteVars, None, LeftInv, NewIsLast, ModeFits, HeldIsPending, EndedIsGone,
     NotOfEnded, StaleIsNoted, EndedIsClean, NoneHalfWritten
<1>7. PurgeInv'
  BY  DEF runVars, noteVars, PurgeInv, LateIsNoted, SweptIsQuiet, PurgeProgress,
     PurgeLeavesNothing
<1>8. QED
  BY <1>1, <1>2, <1>3, <1>4, <1>5, <1>6, <1>7


\* A batch that fails is missed, and the purge goes on.
LEMMA PurgeFailsKeeps == ASSUME IInv, PurgeFails PROVE IInv'
<1> USE DEF IInv, PurgeFails
<1>1. TypeOK'
  BY DEF runVars, noteVars, TypeOK
<1>2. RoomForQuestion' /\ FutureIsUntold' /\ StoredIsUntouched' /\
      NewIsUntold' /\ AnswerBeforeTell' /\ PurgedIsDeleted' /\
      AnswersAreStored'
  BY  DEF runVars, RoomForQuestion, FutureIsUntold, StoredIsUntouched, NewIsUntold,
     AnswerBeforeTell, PurgedIsDeleted, AnswersAreStored
<1>3. SurviveInv'
  BY  DEF runVars, PurgedIsDeleted, SurviveInv, StoredIsUnanswered, PendingIsEarlier,
     FailureIsHarmless, FinalizedIsEnded, SuspensionSurvives
<1>4. LeftInv'
  BY  DEF runVars, noteVars, LeftInv, NewIsLast, ModeFits, HeldIsPending, EndedIsGone, NotOfEnded,
     StaleIsNoted, EndedIsClean, NoneHalfWritten
<1>5. PurgeInv'
  BY  DEF runVars, noteVars, PurgeInv, LateIsNoted, SweptIsQuiet, PurgeProgress,
     PurgeLeavesNothing
<1>6. QED
  BY <1>1, <1>2, <1>3, <1>4, <1>5


\* A restart ends the run, and begins the purge of a deleted conversation again.
LEMMA RestartKeeps == ASSUME IInv, Restart PROVE IInv'
<1> USE DEF IInv, Restart
<1>1. TypeOK'
  BY Bounds DEF None, Mode, CutShort, End, NoRequest, Mode, TypeOK
<1>2. RoomForQuestion' /\ FutureIsUntold' /\ StoredIsUntouched' /\
      NewIsUntold' /\ AnswerBeforeTell' /\ PurgedIsDeleted' /\
      AnswersAreStored'
  BY  DEF NoRequest, End, Answered, RoomForQuestion, FutureIsUntold, StoredIsUntouched,
     NewIsUntold, AnswerBeforeTell, PurgedIsDeleted, AnswersAreStored
<1>3. SurviveInv'
  BY  DEF End, NoRequest, Answered, SurviveInv, StoredIsUnanswered, PendingIsEarlier,
     FailureIsHarmless, FinalizedIsEnded, SuspensionSurvives
<1>4. LeftInv'
  BY  DEF End, CutShort, LeftInv, NewIsLast, ModeFits, HeldIsPending, EndedIsGone, NotOfEnded,
     StaleIsNoted, EndedIsClean, NoneHalfWritten
<1>5. PurgeInv'
  BY  DEF End, PurgeInv, LateIsNoted, SweptIsQuiet, PurgeProgress, PurgeLeavesNothing
<1>6. QED
  BY <1>1, <1>2, <1>3, <1>4, <1>5


-----------------------------------------------------------------------------
(* The theorems. *)

\* Whichever step is taken.
LEMMA NextKeeps == ASSUME IInv, [Next]_vars PROVE IInv'
<1>1. CASE Request
  BY <1>1, AcceptKeeps, StoreKeeps, JoinKeeps, BeginKeeps DEF Request, Mode
<1>2. CASE Producer
  BY <1>2, LoadNothingKeeps, LoadKeeps, CacheAnswerKeeps, OverflowKeeps, PrecreateKeeps,
     FitsKeeps, FlushKeeps, SuspendKeeps, SuspendEndsKeeps, AnswerKeeps, DropDanglingKeeps,
     TellEndKeeps, FinalizeKeeps, FailKeeps, FailEndsKeeps DEF Producer
<1>3. CASE Delete
  BY <1>3, DeleteBeginsKeeps, DeleteRowKeeps, PurgeKeeps, PurgeFailsKeeps DEF
     Delete
<1>4. CASE Restart
  BY <1>4, RestartKeeps
<1>5. CASE UNCHANGED vars
  BY <1>5 DEF vars, IInv, TypeOK, RoomForQuestion, FutureIsUntold, StoredIsUntouched, NewIsUntold,
     AnswerBeforeTell, PurgedIsDeleted, AnswersAreStored, Answered, Ended, SurviveInv,
     StoredIsUnanswered, PendingIsEarlier, FailureIsHarmless, FinalizedIsEnded,
     SuspensionSurvives, LeftInv, NewIsLast, ModeFits, HeldIsPending, EndedIsGone, NotOfEnded,
     StaleIsNoted, EndedIsClean, NoneHalfWritten, PurgeInv, LateIsNoted, SweptIsQuiet,
     PurgeProgress, PurgeLeavesNothing
<1>6. QED
  BY <1>1, <1>2, <1>3, <1>4, <1>5 DEF Next

\* The inductive invariant holds in every reachable state.
LEMMA IInvHolds == Spec => []IInv
<1>1. Init => IInv
  BY InitIInv
<1>2. IInv /\ [Next]_vars => IInv'
  BY NextKeeps
<1>3. QED
  BY <1>1, <1>2, PTL DEF Spec

(* Every variable keeps its type, and what a run works on was asked. *)
THEOREM TypeCorrect == Spec => []TypeOK
<1>1. IInv => TypeOK
  BY DEF IInv
<1>2. QED
  BY <1>1, IInvHolds, PTL

(* An answer the client was told is done is stored, as long as its           *)
(* conversation is: the failures after the answer, a resume, a death of the  *)
(* process or requests that overlap a deletion never take it away.           *)
THEOREM ToldIsStored == Spec => []AnswersAreStored
<1>1. IInv => AnswersAreStored
  BY DEF IInv
<1>2. QED
  BY <1>1, IInvHolds, PTL

(* A suspended turn can be resumed or stopped until it, or a later one, was   *)
(* answered or stopped: no failure, no death and no overlapping request takes *)
(* the snapshot away before.                                                  *)
THEOREM SuspensionIsKept == Spec => []SuspensionSurvives
<1>1. IInv => SuspensionSurvives
  BY DEF IInv, SurviveInv
<1>2. QED
  BY <1>1, IInvHolds, PTL

(* Nor does it stay any longer: an ended turn, and those before it, leave no  *)
(* snapshot, whatever failed or died before, unless the snapshot is noted as  *)
(* one that could not be deleted; the next end of a turn that can, does.      *)
THEOREM SuspensionIsDropped == Spec => []NoStaleSuspension
<1>1. IInv => NoStaleSuspension
  BY Bounds DEF IInv, LeftInv, EndedIsGone, NotOfEnded, NoStaleSuspension, TypeOK, Question
<1>2. QED
  BY <1>1, IInvHolds, PTL

(* Nor does a turn that is done leave a half-written row, of its own or of a  *)
(* turn before it, unless a cleanup failed or never came since the last one.  *)
THEOREM RowsAreFinished == Spec => []NoDanglingRows
<1>1. IInv => NoDanglingRows
  BY DEF IInv, LeftInv, EndedIsClean, NoneHalfWritten, NoDanglingRows
<1>2. QED
  BY <1>1, IInvHolds, PTL

(* A purged conversation keeps what a failed batch left and what a run that    *)
(* began after the abort wrote, and nothing else, whichever deaths and         *)
(* restarts come between its batches.                                          *)
THEOREM PurgeIsComplete == Spec => []PurgeLeavesNothing
<1>1. IInv => PurgeLeavesNothing
  BY DEF IInv, PurgeInv, PurgeProgress
<1>2. QED
  BY <1>1, IInvHolds, PTL

=============================================================================
