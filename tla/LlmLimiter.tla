----------------------------- MODULE LlmLimiter -----------------------------
(***************************************************************************)
(* The process-wide limiter of LLM work (services/llm_semaphore.py) and    *)
(* the chat producers that hold its tokens (routers/chat.py:1428).         *)
(*                                                                         *)
(* A producer is one asyncio task. Its progress through acquire() is phase:*)
(*   idle     outside acquire()                                            *)
(*   queued   its _Waiter is in _waiters, it awaits the waiter's event     *)
(*   woken    _wake_next_locked took the waiter out and reserved a slot,   *)
(*            the task has not run again yet (_Waiter.woken)               *)
(*   holding  inside the body of "async with acquire()"                    *)
(* The position callback of the only caller, chat.on_queue_position, never *)
(* suspends, so every block under _lock runs in one step of the event loop.*)
(* task.cancel() only marks the task: CancelledError is raised when the    *)
(* task next runs, and another task may run in between.                    *)
(***************************************************************************)
EXTENDS Integers, Sequences, FiniteSets, SequencesExt

CONSTANTS Task,        \* the producers that may ask for a token
          Limits,      \* the values an administrator may set
          DefaultMax   \* the limit the singleton is built with

ASSUME LimitsAreIntegers == Limits \subseteq Int /\ DefaultMax \in Int

VARIABLES max,         \* _max
          active,      \* _active
          waiters,     \* _waiters, oldest first
          phase,       \* where each task is in acquire()
          cancelled,   \* tasks with a CancelledError on its way
          position     \* last queue position a task's client was told

vars == <<max, active, waiters, phase, cancelled, position>>

\* max(max_concurrency, 1)
AtLeastOne(n) == IF n < 1 THEN 1 ELSE n

\* max(0, self._active - 1)
OneLess(n) == IF n > 0 THEN n - 1 ELSE 0

Phases == {"idle", "queued", "woken", "holding"}

\* The tasks _wake_next_locked reserved a slot for, or that run the body.
HasSlot == {t \in Task : phase[t] \in {"woken", "holding"}}

\* _notify_all_locked: every queued waiter is told its 1-based position.
Notified(queue) ==
    [t \in Task |-> IF \E i \in 1..Len(queue) : queue[i] = t
                    THEN CHOOSE i \in 1..Len(queue) : queue[i] = t
                    ELSE position[t]]

-----------------------------------------------------------------------------

Init == /\ max = AtLeastOne(DefaultMax)
        /\ active = 0
        /\ waiters = <<>>
        /\ phase = [t \in Task |-> "idle"]
        /\ cancelled = {}
        /\ position = [t \in Task |-> 0]

\* Phase 1 of acquire() when a slot is free.
AcquireNow(t) ==
    /\ phase[t] = "idle"
    /\ active < max
    /\ active' = active + 1
    /\ phase' = [phase EXCEPT ![t] = "holding"]
    /\ position' = [position EXCEPT ![t] = 0]
    /\ UNCHANGED <<max, waiters, cancelled>>

\* Phase 1 of acquire() when every slot is taken.
JoinQueue(t) ==
    /\ phase[t] = "idle"
    /\ active >= max
    /\ waiters' = Append(waiters, t)
    /\ phase' = [phase EXCEPT ![t] = "queued"]
    /\ position' = Notified(waiters')
    /\ UNCHANGED <<max, active, cancelled>>

\* Phase 2 of acquire(): the event is set and the task runs again.
Resume(t) ==
    /\ phase[t] = "woken"
    /\ t \notin cancelled
    /\ phase' = [phase EXCEPT ![t] = "holding"]
    /\ position' = [position EXCEPT ![t] = 0]
    /\ UNCHANGED <<max, active, waiters, cancelled>>

\* Mutant: the slot is freed but nobody is woken.
ReleaseWakesNobody(t) ==
    /\ active' = OneLess(active)
    /\ phase' = [phase EXCEPT ![t] = "idle"]
    /\ UNCHANGED <<waiters, position>>

\* Mutant: _waiters.pop() for _waiters.pop(0), the newest waiter is woken.
ReleaseWakesNewest(t) ==
    IF waiters = <<>> THEN ReleaseWakesNobody(t)
    ELSE /\ waiters' = Front(waiters)
         /\ phase' = [phase EXCEPT ![t] = "idle", ![Last(waiters)] = "woken"]
         /\ position' = Notified(waiters')
         /\ UNCHANGED active

\* Task t gives its slot back and _wake_next_locked runs: at most one waiter,
\* the oldest, is taken out of the queue and inherits the slot.
Release(t) ==
    LET left == OneLess(active)
    IN  IF waiters # <<>> /\ left < max
        THEN /\ waiters' = Tail(waiters)
             /\ active' = left + 1
             /\ phase' = [phase EXCEPT ![t] = "idle", ![Head(waiters)] = "woken"]
             /\ position' = Notified(waiters')
        ELSE /\ active' = left
             /\ phase' = [phase EXCEPT ![t] = "idle"]
             /\ UNCHANGED <<waiters, position>>

\* The body ends, normally or with an error: the finally clause of acquire().
Finish(t) ==
    /\ phase[t] = "holding"
    /\ t \notin cancelled
    /\ Release(t)
    /\ UNCHANGED <<max, cancelled>>

\* chat._abort_run cancels the producer: the mark only.
Cancel(t) ==
    /\ phase[t] # "idle"
    /\ t \notin cancelled
    /\ cancelled' = cancelled \cup {t}
    /\ UNCHANGED <<max, active, waiters, phase, position>>

\* CancelledError reaches a task whose waiter is still queued.
LeaveQueue(t) ==
    /\ t \in cancelled
    /\ phase[t] = "queued"
    /\ \E i \in 1..Len(waiters) :
          waiters[i] = t /\ waiters' = RemoveAt(waiters, i)
    /\ phase' = [phase EXCEPT ![t] = "idle"]
    /\ position' = Notified(waiters')
    /\ cancelled' = cancelled \ {t}
    /\ UNCHANGED <<max, active>>

\* Mutant: no "elif waiter.woken" branch, so a slot reserved for a task that
\* is cancelled before it runs again is never given back.
GiveBackForgetsWoken(t) ==
    /\ t \in cancelled
    /\ phase[t] \in {"woken", "holding"}
    /\ IF phase[t] = "holding" THEN Release(t)
       ELSE phase' = [phase EXCEPT ![t] = "idle"] /\ UNCHANGED <<active, waiters, position>>
    /\ cancelled' = cancelled \ {t}
    /\ UNCHANGED max

\* Mutant: a task cancelled between its wake-up and its next run hangs.
GiveBackOnlyHolders(t) ==
    /\ t \in cancelled
    /\ phase[t] = "holding"
    /\ Release(t)
    /\ cancelled' = cancelled \ {t}
    /\ UNCHANGED max

\* CancelledError reaches a task that owns a slot, whether it used it or not.
GiveBack(t) ==
    /\ t \in cancelled
    /\ phase[t] \in {"woken", "holding"}
    /\ Release(t)
    /\ cancelled' = cancelled \ {t}
    /\ UNCHANGED max

Least(a, b) == IF a < b THEN a ELSE b

\* Mutant: update_max wakes one waiter only, as a release does.
WakesOne(new) == IF waiters # <<>> /\ active < new THEN 1 ELSE 0

\* How many waiters update_max wakes: its loop runs once per extra slot, not at
\* all when there is none, and stops when the slots or the waiters run out.
Wakes(new) ==
    LET bound == Least(new - max, Least(new - active, Len(waiters)))
    IN  IF bound < 0 THEN 0 ELSE bound

UpdateMax(n) ==
    LET k == Wakes(AtLeastOne(n))
        woken == {waiters[i] : i \in 1..k}
    IN  /\ max' = AtLeastOne(n)
        /\ active' = active + k
        /\ waiters' = SubSeq(waiters, k + 1, Len(waiters))
        /\ phase' = [t \in Task |-> IF t \in woken THEN "woken" ELSE phase[t]]
        /\ position' = IF k > 0 THEN Notified(waiters') ELSE position
        /\ UNCHANGED cancelled

Step(t) == \/ AcquireNow(t) \/ JoinQueue(t) \/ Resume(t) \/ Finish(t)
           \/ Cancel(t) \/ LeaveQueue(t) \/ GiveBack(t)

Next == \/ \E t \in Task : Step(t)
        \/ \E n \in Limits : UpdateMax(n)

Spec == Init /\ [][Next]_vars

\* A woken task runs again, a cancelled one receives its CancelledError, and a
\* turn ends: its LLM calls have a budget each and its rounds a quota.
Fairness == \A t \in Task : /\ WF_vars(Resume(t))
                            /\ WF_vars(LeaveQueue(t))
                            /\ WF_vars(Finish(t) \/ GiveBack(t))

FairSpec == Spec /\ Fairness

-----------------------------------------------------------------------------

\* _waiters holds exactly the tasks that await their event, each of them once.
QueueIsExact == /\ IsInjective(waiters)
                /\ ToSet(waiters) = {t \in Task : phase[t] = "queued"}

\* The values every variable ranges over, and the queue against the phases.
TypeOK ==
    /\ max \in Nat \ {0}
    /\ active \in Nat
    /\ waiters \in Seq(Task)
    /\ phase \in [Task -> Phases]
    /\ cancelled \subseteq {t \in Task : phase[t] # "idle"}
    /\ position \in [Task -> Nat]
    /\ QueueIsExact

\* The counter _active is the number of tasks that own a slot: no path through
\* acquire(), cancelled or not, leaks a slot or gives one back twice.
SlotConservation == active = Cardinality(HasSlot)

\* No slot is idle while somebody waits, also after the limit moved down and up
\* again, although a release wakes one waiter only and update_max counts the
\* extra slots from the old limit, not from the slots in use.
NoIdleSlot == waiters # <<>> => active >= max

\* What the client shows is its place in the queue: every change of the queue
\* tells every waiter that stays (chat.on_queue_position).
PositionsAreCurrent ==
    \A i \in 1..Len(waiters) : position[waiters[i]] = i

\* Who waits does so for a reason and is shown its place in the queue.
QueueIsHonest == NoIdleSlot /\ PositionsAreCurrent

\* A slot is only ever granted within the limit in force: lowering the limit
\* revokes nothing, and until the surplus is gone nobody new is admitted.
GrantsWithinLimit == [][active' > active => active' <= max']_vars

\* First come, first served: when a task gets a slot, every task that was ahead
\* of it in the queue has left the queue, and a newcomer passes nobody.
NoOvertaking ==
    [][\A t \in HasSlot' \ HasSlot :
          \A i \in 1..Len(waiters) :
              (\A j \in 1..i : waiters[j] # t) => phase'[waiters[i]] # "queued"]_vars

\* The counter, the single hand-over of a release and the wake-up loop of
\* update_max together are a first-come first-served pool of max tokens.
Pool == INSTANCE TokenPool WITH Client <- Task,
                                Caps <- {AtLeastOne(n) : n \in Limits},
                                InitialCap <- AtLeastOne(DefaultMax),
                                cap <- max, inUse <- HasSlot, line <- waiters

\* LlmLimiter implements the safety part of TokenPool ...
ImplementsPool == Pool!Spec

\* ... and, with the event loop's fairness, its progress: tokens come back.
ImplementsLivePool == Pool!LiveSpec
=============================================================================
