-------------------------- MODULE LlmLimiter_proofs --------------------------
(***************************************************************************)
(* Proofs about the limiter for any set of tasks, any limits and any       *)
(* number of concurrent turns.                                             *)
(***************************************************************************)
EXTENDS LlmLimiter, QueueFacts

-----------------------------------------------------------------------------
(* Type correctness. *)

\* A table of positions stays one whatever the queue is.
LEMMA NotifiedType ==
    ASSUME NEW q \in Seq(Task), position \in [Task -> Nat]
    PROVE  Notified(q) \in [Task -> Nat]
    <1>1. ASSUME NEW t \in Task, \E i \in 1..Len(q) : q[i] = t
          PROVE  (CHOOSE i \in 1..Len(q) : q[i] = t) \in Nat
        BY <1>1
    <1> QED BY <1>1 DEF Notified

\* The hand-over of a slot keeps the types and the queue exact.
LEMMA ReleaseType ==
    ASSUME TypeOK, NEW t \in Task, Release(t), max' = max,
           phase[t] \in {"woken", "holding"},
           cancelled' \subseteq cancelled, t \notin cancelled'
    PROVE  TypeOK'
    <1> USE DEF TypeOK, Phases
    <1>1. CASE waiters # <<>> /\ OneLess(active) < max
      <2> DEFINE h == Head(waiters)
      <2>1. /\ waiters' = Tail(waiters)
            /\ active' = OneLess(active) + 1
            /\ phase' = [phase EXCEPT ![t] = "idle", ![h] = "woken"]
            /\ position' = Notified(waiters')
          BY <1>1 DEF Release
      <2>2. /\ waiters' \in Seq(Task)
            /\ IsInjective(waiters')
            /\ ToSet(waiters') = ToSet(waiters) \ {h}
            /\ h \in ToSet(waiters)
          BY <1>1, <2>1, DropOne DEF QueueIsExact
      <2> HIDE DEF h
      <2>3. h \in Task /\ phase[h] = "queued" /\ h # t
          BY <2>2 DEF QueueIsExact
      <2>4. position' \in [Task -> Nat]
          BY <2>1, <2>2, NotifiedType
      <2>5. QueueIsExact'
          BY <2>1, <2>2, <2>3 DEF QueueIsExact
      <2>6. phase' \in [Task -> Phases]
          BY <2>1
      <2>7. active' \in Nat
          BY <2>1 DEF OneLess
      <2>8. cancelled' \subseteq {u \in Task : phase'[u] # "idle"}
          BY <2>1
      <2> QED BY <2>2, <2>4, <2>5, <2>6, <2>7, <2>8
    <1>2. CASE ~(waiters # <<>> /\ OneLess(active) < max)
      <2>1. /\ active' = OneLess(active)
            /\ phase' = [phase EXCEPT ![t] = "idle"]
            /\ waiters' = waiters /\ position' = position
          BY <1>2 DEF Release
      <2>2. QueueIsExact'
          BY <2>1 DEF QueueIsExact
      <2> QED BY <2>1, <2>2 DEF OneLess
    <1> QED BY <1>1, <1>2

\* update_max wakes between none and all of the waiters, within both its bounds.
LEMMA WakesBounds ==
    ASSUME TypeOK, NEW n \in Nat
    PROVE  /\ Wakes(n) \in 0..Len(waiters)
           /\ Wakes(n) > 0 => active + Wakes(n) <= n
           /\ Wakes(n) < Len(waiters) => \/ Wakes(n) >= n - max
                                         \/ Wakes(n) >= n - active
    BY Members DEF Wakes, Least, TypeOK

\* No operation breaks the types: TypeOK is inductive.
LEMMA TypeStep ==
    ASSUME TypeOK, [Next]_vars
    PROVE  TypeOK'
    <1> USE DEF TypeOK, Phases
    <1>1. CASE UNCHANGED vars
        BY <1>1 DEF vars, QueueIsExact
    <1>2. ASSUME NEW t \in Task, AcquireNow(t)
          PROVE  TypeOK'
        BY <1>2 DEF AcquireNow, QueueIsExact
    <1>3. ASSUME NEW t \in Task, JoinQueue(t)
          PROVE  TypeOK'
      <2>1. t \in Task \ ToSet(waiters) /\ IsInjective(waiters)
          BY <1>3 DEF JoinQueue, QueueIsExact
      <2>2. /\ waiters' \in Seq(Task)
            /\ IsInjective(waiters')
            /\ ToSet(waiters') = ToSet(waiters) \cup {t}
          BY <1>3, <2>1, AddLast, AddLastMembers DEF JoinQueue
      <2>3. position' \in [Task -> Nat]
          BY <1>3, <2>2, NotifiedType DEF JoinQueue
      <2> QED BY <1>3, <2>2, <2>3 DEF JoinQueue, QueueIsExact
    <1>4. ASSUME NEW t \in Task, Resume(t)
          PROVE  TypeOK'
        BY <1>4 DEF Resume, QueueIsExact
    <1>5. ASSUME NEW t \in Task, Finish(t)
          PROVE  TypeOK'
        BY <1>5, ReleaseType DEF Finish
    <1>6. ASSUME NEW t \in Task, Cancel(t)
          PROVE  TypeOK'
        BY <1>6 DEF Cancel, QueueIsExact
    <1>7. ASSUME NEW t \in Task, LeaveQueue(t)
          PROVE  TypeOK'
      <2>1. PICK i \in 1..Len(waiters) :
               waiters[i] = t /\ waiters' = RemoveAt(waiters, i)
          BY <1>7 DEF LeaveQueue
      <2>2. /\ waiters' \in Seq(Task)
            /\ IsInjective(waiters')
            /\ ToSet(waiters') = ToSet(waiters) \ {t}
          BY <2>1, DropAt, DropAtMembers DEF QueueIsExact
      <2>3. position' \in [Task -> Nat]
          BY <1>7, <2>2, NotifiedType DEF LeaveQueue
      <2> QED BY <1>7, <2>2, <2>3 DEF LeaveQueue, QueueIsExact
    <1>8. ASSUME NEW t \in Task, GiveBack(t)
          PROVE  TypeOK'
        BY <1>8, ReleaseType DEF GiveBack
    <1>9. ASSUME NEW n \in Limits, UpdateMax(n)
          PROVE  TypeOK'
      <2> DEFINE k == Wakes(AtLeastOne(n))
                 woken == {waiters[i] : i \in 1..k}
      <2>1. AtLeastOne(n) \in Nat \ {0}
          BY LimitsAreIntegers DEF AtLeastOne
      <2>2. k \in 0..Len(waiters)
          BY <2>1, WakesBounds
      <2>3. /\ max' = AtLeastOne(n)
            /\ active' = active + k
            /\ waiters' = SubSeq(waiters, k + 1, Len(waiters))
            /\ phase' = [t \in Task |-> IF t \in woken THEN "woken" ELSE phase[t]]
            /\ position' = IF k > 0 THEN Notified(waiters') ELSE position
            /\ cancelled' = cancelled
          BY <1>9 DEF UpdateMax
      <2> HIDE DEF k
      <2>4. /\ waiters' \in Seq(Task)
            /\ IsInjective(waiters')
            /\ ToSet(waiters') = ToSet(waiters) \ woken
          BY <2>2, <2>3, LoseOldest, LoseOldestMembers DEF QueueIsExact
      <2>5. position' \in [Task -> Nat]
          BY <2>3, <2>4, NotifiedType
      <2>6. active' \in Nat
          BY <2>2, <2>3, Members
      <2> HIDE DEF woken
      <2>7. QueueIsExact'
          BY <2>3, <2>4 DEF QueueIsExact
      <2>8. phase' \in [Task -> Phases]
          BY <2>3
      <2>9. cancelled' \subseteq {t \in Task : phase'[t] # "idle"}
          BY <2>3
      <2> QED BY <2>1, <2>3, <2>4, <2>5, <2>6, <2>7, <2>8, <2>9
    <1> QED BY <1>1, <1>2, <1>3, <1>4, <1>5, <1>6, <1>7, <1>8, <1>9 DEF Next, Step

\* The limiter starts well typed.
LEMMA TypeInit == Init => TypeOK
    <1> SUFFICES ASSUME Init PROVE TypeOK
        OBVIOUS
    <1>1. max \in Nat \ {0}
        BY LimitsAreIntegers DEF Init, AtLeastOne
    <1>2. ToSet(waiters) = {} /\ IsInjective(waiters) /\ waiters \in Seq(Task)
        BY DEF Init, ToSet, IsInjective
    <1> QED BY <1>1, <1>2 DEF Init, TypeOK, QueueIsExact, Phases

\* Every variable keeps its type, and _waiters holds exactly the tasks that
\* wait, each once, through every interleaving of requests, releases,
\* cancellations and changes of the limit.
THEOREM TypeCorrect == Spec => []TypeOK
    <1>1. Init => TypeOK
        BY TypeInit
    <1>2. TypeOK /\ [Next]_vars => TypeOK'
        BY TypeStep
    <1> QED BY <1>1, <1>2, PTL DEF Spec

-----------------------------------------------------------------------------
(* Slots: the counter, its owners and the queue. *)

\* The inductive invariant. The cardinality of the owners only means something
\* while they are finitely many.
SlotInv == /\ TypeOK
           /\ IsFiniteSet(HasSlot)
           /\ SlotConservation
           /\ NoIdleSlot

\* A release hands the slot to the oldest waiter or gives it up, in one piece.
LEMMA ReleaseSlots ==
    ASSUME SlotInv, NEW t \in HasSlot, Release(t), max' = max
    PROVE  IsFiniteSet(HasSlot') /\ SlotConservation' /\ NoIdleSlot'
    <1> USE DEF SlotInv, TypeOK
    <1>1. active = Cardinality(HasSlot) /\ IsFiniteSet(HasSlot \ {t})
        BY FS_RemoveElement DEF SlotConservation
    <1>2. Cardinality(HasSlot \ {t}) = active - 1 /\ active - 1 \in Nat
        BY <1>1, FS_RemoveElement, FS_CardinalityType
    <1>3. OneLess(active) = active - 1
        BY <1>2 DEF OneLess
    <1>4. CASE waiters # <<>> /\ active - 1 < max
      <2> DEFINE h == Head(waiters)
      <2>1. /\ waiters' = Tail(waiters)
            /\ active' = active
            /\ phase' = [phase EXCEPT ![t] = "idle", ![h] = "woken"]
          BY <1>3, <1>4 DEF Release
      <2>2. h \in Task /\ phase[h] = "queued"
          BY <1>4, DropOne DEF QueueIsExact
      <2> HIDE DEF h
      <2> DEFINE others == HasSlot \ {t}
      <2>3. HasSlot' = others \cup {h} /\ h \notin others
          BY <2>1, <2>2 DEF HasSlot
      <2>4. IsFiniteSet(others) /\ Cardinality(others) = active - 1
          BY <1>1, <1>2
      <2> HIDE DEF others
      <2>5. IsFiniteSet(HasSlot') /\ Cardinality(HasSlot') = (active - 1) + 1
          BY <2>3, <2>4, FS_AddElement
      <2>6. active' >= max'
          BY <1>4, <2>1 DEF NoIdleSlot
      <2> QED BY <2>1, <2>5, <2>6 DEF SlotConservation, NoIdleSlot
    <1>5. CASE ~(waiters # <<>> /\ active - 1 < max)
      <2>1. /\ waiters' = waiters /\ active' = active - 1
            /\ phase' = [phase EXCEPT ![t] = "idle"]
          BY <1>3, <1>5 DEF Release
      <2>2. HasSlot' = HasSlot \ {t}
          BY <2>1 DEF HasSlot
      <2> QED BY <1>1, <1>2, <1>5, <2>1, <2>2 DEF SlotConservation, NoIdleSlot
    <1> QED BY <1>4, <1>5

\* Raising the limit wakes enough waiters, counting from the old limit.
LEMMA UpdateMaxSlots ==
    ASSUME SlotInv, NEW n \in Limits, UpdateMax(n)
    PROVE  IsFiniteSet(HasSlot') /\ SlotConservation' /\ NoIdleSlot'
    <1> USE DEF SlotInv, TypeOK
    <1> DEFINE k == Wakes(AtLeastOne(n))
               woken == {waiters[i] : i \in 1..k}
    <1>1. AtLeastOne(n) \in Nat \ {0}
        BY LimitsAreIntegers DEF AtLeastOne
    <1>2. /\ k \in 0..Len(waiters)
          /\ k < Len(waiters) => \/ k >= AtLeastOne(n) - max
                                 \/ k >= AtLeastOne(n) - active
        BY <1>1, WakesBounds
    <1>3. /\ max' = AtLeastOne(n)
          /\ active' = active + k
          /\ waiters' = SubSeq(waiters, k + 1, Len(waiters))
          /\ phase' = [t \in Task |-> IF t \in woken THEN "woken" ELSE phase[t]]
        BY DEF UpdateMax
    <1> HIDE DEF k
    <1>4. IsFiniteSet(woken) /\ Cardinality(woken) = k
      <2>1. waiters \in Seq(Task) /\ IsInjective(waiters) /\ k \in 0..Len(waiters)
          BY <1>2 DEF QueueIsExact
      <2> QED BY ONLY <2>1, OldestCount
    <1>5. \A t \in woken : t \in Task /\ phase[t] = "queued"
        BY <1>2, Members DEF QueueIsExact
    <1>6. Len(waiters') = Len(waiters) - k /\ Len(waiters) \in Nat
        BY <1>2, <1>3, LoseOldest, Members
    <1> HIDE DEF woken
    <1>7. HasSlot' = HasSlot \cup woken /\ HasSlot \cap woken = {}
        BY <1>3, <1>5 DEF HasSlot
    <1>8. IsFiniteSet(HasSlot') /\ SlotConservation'
      <2>1. /\ IsFiniteSet(HasSlot')
            /\ Cardinality(HasSlot')
                  = Cardinality(HasSlot) + Cardinality(woken) - Cardinality({})
          BY <1>4, <1>7, FS_Union
      <2> QED BY <1>2, <1>3, <1>4, <2>1, FS_EmptySet DEF SlotConservation
    <1>9. NoIdleSlot'
      <2>1. SUFFICES ASSUME waiters' # <<>> PROVE active' >= max'
          BY DEF NoIdleSlot
      <2>2. k < Len(waiters)
          BY <1>2, <1>3, <1>6, <2>1
      <2>3. active >= max
          BY <1>2, <2>2 DEF NoIdleSlot
      <2> QED BY <1>1, <1>2, <1>3, <2>2, <2>3
    <1> QED BY <1>8, <1>9

\* SlotInv is inductive.
LEMMA SlotStep ==
    ASSUME SlotInv, [Next]_vars
    PROVE  SlotInv'
    <1> USE DEF SlotInv
    <1>0. TypeOK'
        BY TypeStep
    <1> DEFINE Good == IsFiniteSet(HasSlot') /\ SlotConservation' /\ NoIdleSlot'
    <1>1. CASE UNCHANGED vars
      <2>1. HasSlot' = HasSlot
          BY <1>1 DEF vars, HasSlot
      <2>2. Good
          BY <1>1, <2>1 DEF vars, SlotConservation, NoIdleSlot
      <2> QED BY <1>0, <2>2
    <1>2. ASSUME NEW t \in Task, AcquireNow(t)
          PROVE  Good
      <2>1. HasSlot' = HasSlot \cup {t} /\ t \notin HasSlot
          BY <1>2 DEF AcquireNow, HasSlot, TypeOK
      <2>2. IsFiniteSet(HasSlot') /\ Cardinality(HasSlot') = active + 1
          BY <2>1, FS_AddElement DEF SlotConservation
      <2>3. waiters = <<>>
          BY <1>2 DEF AcquireNow, NoIdleSlot, TypeOK
      <2> QED BY <1>2, <2>2, <2>3 DEF AcquireNow, SlotConservation, NoIdleSlot
    <1>3. ASSUME NEW t \in Task, JoinQueue(t)
          PROVE  Good
      <2>1. HasSlot' = HasSlot
          BY <1>3 DEF JoinQueue, HasSlot, TypeOK
      <2> QED BY <1>3, <2>1 DEF JoinQueue, SlotConservation, NoIdleSlot
    <1>4. ASSUME NEW t \in Task, Resume(t)
          PROVE  Good
      <2>1. HasSlot' = HasSlot
          BY <1>4 DEF Resume, HasSlot, TypeOK
      <2> QED BY <1>4, <2>1 DEF Resume, SlotConservation, NoIdleSlot
    <1>5. ASSUME NEW t \in Task, Finish(t)
          PROVE  Good
        BY <1>5, ReleaseSlots DEF Finish, HasSlot
    <1>6. ASSUME NEW t \in Task, Cancel(t)
          PROVE  Good
        BY <1>6 DEF Cancel, HasSlot, SlotConservation, NoIdleSlot
    <1>7. ASSUME NEW t \in Task, LeaveQueue(t)
          PROVE  Good
      <2>1. HasSlot' = HasSlot
          BY <1>7 DEF LeaveQueue, HasSlot, TypeOK
      <2>2. waiters # <<>> /\ active' = active /\ max' = max
          BY <1>7 DEF LeaveQueue
      <2> QED BY <2>1, <2>2 DEF SlotConservation, NoIdleSlot
    <1>8. ASSUME NEW t \in Task, GiveBack(t)
          PROVE  Good
        BY <1>8, ReleaseSlots DEF GiveBack, HasSlot
    <1>9. ASSUME NEW n \in Limits, UpdateMax(n)
          PROVE  Good
        BY <1>9, UpdateMaxSlots
    <1> QED BY <1>0, <1>1, <1>2, <1>3, <1>4, <1>5, <1>6, <1>7, <1>8, <1>9
            DEF Next, Step

\* The limiter starts with every slot free.
LEMMA SlotInit == Init => SlotInv
    <1> SUFFICES ASSUME Init PROVE SlotInv
        OBVIOUS
    <1>1. HasSlot = {}
        BY DEF Init, HasSlot
    <1> QED BY <1>1, TypeInit, FS_EmptySet
            DEF Init, SlotInv, SlotConservation, NoIdleSlot

\* SlotInv holds in every reachable state.
LEMMA SlotInvariance == Spec => []SlotInv
    <1>1. SlotInv /\ [Next]_vars => SlotInv'
        BY SlotStep
    <1> QED BY <1>1, SlotInit, PTL DEF Spec

\* _active counts the tasks that own a slot, whatever is cancelled and when:
\* no slot leaks and none is given back twice.
THEOREM SlotsConserved == Spec => []SlotConservation
    <1>1. SlotInv => SlotConservation
        BY DEF SlotInv
    <1> QED BY <1>1, SlotInvariance, PTL

\* Whoever waits, waits because every slot is in use: handing one slot over per
\* release and counting extra slots from the old limit is enough.
THEOREM NoSlotIdle == Spec => []NoIdleSlot
    <1>1. SlotInv => NoIdleSlot
        BY DEF SlotInv
    <1> QED BY <1>1, SlotInvariance, PTL

\* A queue whose waiters were just told their positions.
LEMMA NotifiedIsCurrent ==
    ASSUME NEW q \in Seq(Task), IsInjective(q)
    PROVE  \A i \in 1..Len(q) : Notified(q)[q[i]] = i
    <1> SUFFICES ASSUME NEW i \in 1..Len(q)
                 PROVE  Notified(q)[q[i]] = i
        OBVIOUS
    <1>1. q[i] \in Task /\ \E j \in 1..Len(q) : q[j] = q[i]
        OBVIOUS
    <1>2. \A j \in 1..Len(q) : q[j] = q[i] => j = i
        BY Members
    <1>3. (CHOOSE j \in 1..Len(q) : q[j] = q[i]) = i
        BY <1>1, <1>2
    <1> QED BY <1>1, <1>3 DEF Notified

\* Every operation that changes the queue tells those who stay, and the others
\* only touch the position of a task that does not wait.
LEMMA PositionStep ==
    ASSUME TypeOK, PositionsAreCurrent, [Next]_vars
    PROVE  PositionsAreCurrent'
    <1> USE DEF TypeOK, QueueIsExact, PositionsAreCurrent
    <1>1. waiters' \in Seq(Task) /\ IsInjective(waiters')
        BY TypeStep
    <1>2. CASE position' = Notified(waiters')
        BY <1>1, <1>2, NotifiedIsCurrent
    <1>3. CASE waiters' = waiters /\ position' = position
        BY <1>3
    <1>4. ASSUME NEW t \in Task, phase[t] # "queued", waiters' = waiters,
                 position' = [position EXCEPT ![t] = 0]
          PROVE  PositionsAreCurrent'
      <2>1. \A i \in 1..Len(waiters) : waiters[i] \in Task /\ waiters[i] # t
          BY <1>4, Members
      <2> QED BY <1>4, <2>1
    <1>5. ASSUME NEW t \in Task, Step(t)
          PROVE  PositionsAreCurrent'
      <2>1. CASE AcquireNow(t) \/ Resume(t)
          BY <1>4, <2>1 DEF AcquireNow, Resume
      <2>2. CASE JoinQueue(t) \/ LeaveQueue(t)
          BY <1>2, <2>2 DEF JoinQueue, LeaveQueue
      <2>3. CASE Finish(t) \/ GiveBack(t)
          BY <1>2, <1>3, <2>3 DEF Finish, GiveBack, Release
      <2>4. CASE Cancel(t)
          BY <1>3, <2>4 DEF Cancel
      <2> QED BY <1>5, <2>1, <2>2, <2>3, <2>4 DEF Step
    <1>6. ASSUME NEW n \in Limits, UpdateMax(n)
          PROVE  PositionsAreCurrent'
      <2> DEFINE k == Wakes(AtLeastOne(n))
      <2>1. AtLeastOne(n) \in Nat
          BY LimitsAreIntegers DEF AtLeastOne
      <2>2. k \in 0..Len(waiters)
          BY <2>1, WakesBounds
      <2>3. /\ waiters' = SubSeq(waiters, k + 1, Len(waiters))
            /\ position' = IF k > 0 THEN Notified(waiters') ELSE position
          BY <1>6 DEF UpdateMax
      <2> HIDE DEF k
      <2>4. CASE k = 0
        <3>1. waiters' = waiters
            BY <2>3, <2>4, Members
        <3> QED BY <1>3, <2>3, <2>4, <3>1
      <2> QED BY <1>2, <2>2, <2>3, <2>4
    <1> QED BY <1>3, <1>5, <1>6 DEF Next, vars

\* Nobody waits while a slot is idle, and every waiter's client shows the place
\* it has, whoever joined, left, was served or was cancelled ahead of it.
THEOREM QueueHonest == Spec => []QueueIsHonest
    <1>1. Init => PositionsAreCurrent
        BY DEF Init, PositionsAreCurrent
    <1>2. TypeOK /\ PositionsAreCurrent /\ [Next]_vars => PositionsAreCurrent'
        BY PositionStep
    <1>3. NoIdleSlot /\ PositionsAreCurrent => QueueIsHonest
        BY DEF QueueIsHonest
    <1> QED BY <1>1, <1>2, <1>3, TypeCorrect, NoSlotIdle, PTL DEF Spec

\* A step that hands out slots beyond those in use ends within the limit.
THEOREM GrantsBounded == Spec => GrantsWithinLimit
    <1> DEFINE Bounded == active' > active => active' <= max'
    <1>1. ASSUME SlotInv, [Next]_vars
          PROVE  [Bounded]_vars
      <2> USE <1>1 DEF SlotInv, TypeOK
      <2>1. ASSUME NEW t \in Task, Release(t)
            PROVE  active' <= active
        <3>1. OneLess(active) <= active /\ OneLess(active) \in Nat
            BY DEF OneLess
        <3>2. CASE waiters # <<>> /\ OneLess(active) < max
          <4>1. active >= max /\ active' = OneLess(active) + 1
              BY <2>1, <3>2 DEF Release, NoIdleSlot
          <4> QED BY <3>2, <4>1 DEF OneLess
        <3>3. CASE ~(waiters # <<>> /\ OneLess(active) < max)
            BY <2>1, <3>1, <3>3 DEF Release
        <3> QED BY <3>2, <3>3
      <2>2. ASSUME NEW n \in Limits, UpdateMax(n)
            PROVE  Bounded
        <3>1. AtLeastOne(n) \in Nat
            BY LimitsAreIntegers DEF AtLeastOne
        <3>2. /\ Wakes(AtLeastOne(n)) \in 0..Len(waiters)
              /\ Wakes(AtLeastOne(n)) > 0
                    => active + Wakes(AtLeastOne(n)) <= AtLeastOne(n)
            BY <3>1, WakesBounds
        <3>3. max' = AtLeastOne(n) /\ active' = active + Wakes(AtLeastOne(n))
            BY <2>2 DEF UpdateMax
        <3> QED BY <3>2, <3>3
      <2>3. ASSUME NEW t \in Task, Step(t)
            PROVE  Bounded
        <3>1. CASE AcquireNow(t)
            BY <3>1 DEF AcquireNow
        <3>2. CASE Finish(t) \/ GiveBack(t)
          <4>1. active' \in Nat
              BY TypeStep
          <4> QED BY <2>1, <3>2, <4>1 DEF Finish, GiveBack
        <3>3. CASE JoinQueue(t) \/ Resume(t) \/ Cancel(t) \/ LeaveQueue(t)
            BY <3>3 DEF JoinQueue, Resume, Cancel, LeaveQueue
        <3> QED BY <2>3, <3>1, <3>2, <3>3 DEF Step
      <2> QED BY <2>2, <2>3 DEF Next
    <1> QED BY <1>1, SlotInvariance, PTL DEF Spec, GrantsWithinLimit

\* Slots are handed out first come, first served.
THEOREM FirstComeFirstServed == Spec => NoOvertaking
    <1> DEFINE Fair(t) ==
                  \A i \in 1..Len(waiters) :
                      (\A j \in 1..i : waiters[j] # t)
                          => phase'[waiters[i]] # "queued"
               AllFair == \A t \in HasSlot' \ HasSlot : Fair(t)
    <1>1. ASSUME SlotInv, [Next]_vars
          PROVE  [AllFair]_vars
      <2> USE <1>1 DEF SlotInv, TypeOK
      <2>1. ASSUME NEW t \in Task, AcquireNow(t)
            PROVE  AllFair
        <3>1. waiters = <<>>
            BY <2>1 DEF AcquireNow, NoIdleSlot
        <3> QED BY <3>1
      <2>2. ASSUME NEW t \in Task, Release(t), t \in HasSlot
            PROVE  AllFair
        <3>1. CASE waiters # <<>> /\ OneLess(active) < max
          <4>1. phase' = [phase EXCEPT ![t] = "idle", ![Head(waiters)] = "woken"]
              BY <2>2, <3>1 DEF Release
          <4>2. Head(waiters) = waiters[1]
              BY <3>1, DropOne DEF QueueIsExact
          <4>3. ASSUME NEW u \in HasSlot' \ HasSlot
                PROVE  u = waiters[1]
              BY <4>1, <4>2, <4>3 DEF HasSlot
          <4> QED BY <4>3
        <3>2. CASE ~(waiters # <<>> /\ OneLess(active) < max)
          <4>1. phase' = [phase EXCEPT ![t] = "idle"]
              BY <2>2, <3>2 DEF Release
          <4> QED BY <4>1 DEF HasSlot
        <3> QED BY <3>1, <3>2
      <2>3. ASSUME NEW n \in Limits, UpdateMax(n)
            PROVE  AllFair
        <3> DEFINE k == Wakes(AtLeastOne(n))
                   woken == {waiters[i] : i \in 1..k}
        <3>1. AtLeastOne(n) \in Nat
            BY LimitsAreIntegers DEF AtLeastOne
        <3>2. k \in 0..Len(waiters) /\ Len(waiters) \in Nat
            BY <3>1, WakesBounds, Members
        <3>3. phase' = [t \in Task |-> IF t \in woken THEN "woken" ELSE phase[t]]
            BY <2>3 DEF UpdateMax
        <3> HIDE DEF k
        <3>4. ASSUME NEW u \in HasSlot' \ HasSlot,
                     NEW i \in 1..Len(waiters), \A j \in 1..i : waiters[j] # u
              PROVE  phase'[waiters[i]] # "queued"
          <4>1. u \in woken
              BY <3>3 DEF HasSlot
          <4>2. PICK m \in 1..k : u = waiters[m]
              BY <4>1
          <4>3. i < m
              BY <3>2, <3>4, <4>2
          <4>4. waiters[i] \in woken /\ waiters[i] \in Task
              BY <3>2, <4>3
          <4> QED BY <3>3, <4>4
        <3> QED BY <3>4
      <2>4. ASSUME NEW t \in Task, Step(t)
            PROVE  AllFair
        <3>1. CASE Finish(t) \/ GiveBack(t)
            BY <2>2, <3>1 DEF Finish, GiveBack, HasSlot
        <3>2. CASE JoinQueue(t) \/ Resume(t) \/ Cancel(t) \/ LeaveQueue(t)
          <4>1. HasSlot' \subseteq HasSlot
              BY <3>2 DEF JoinQueue, Resume, Cancel, LeaveQueue, HasSlot
          <4> QED BY <4>1
        <3> QED BY <2>1, <2>4, <3>1, <3>2 DEF Step
      <2> QED BY <2>3, <2>4 DEF Next
    <1> QED BY <1>1, SlotInvariance, PTL DEF Spec, NoOvertaking

-----------------------------------------------------------------------------
(* The limiter is a first-come first-served pool. *)

\* The pool counts as the limiter does, and takes out of its line in the same way.
LEMMA PoolCounts == \A S : Pool!Cardinality(S) = Cardinality(S)
    BY Zenon DEF Cardinality, Pool!Cardinality

\* The two take an element out of a line in the same way.
LEMMA PoolRemoves == \A q, i : Pool!RemoveAt(q, i) = RemoveAt(q, i)
    BY Zenon DEF RemoveAt, Pool!RemoveAt

\* Nobody is served when no token is free.
LEMMA ServeNobody ==
    ASSUME NEW q \in Seq(Task), NEW used, NEW c, Pool!Serve(q, used, c) = 0,
           max' = c, HasSlot' = used, waiters' = q
    PROVE  Pool!Settle(q, used, c)
    <1>1. {q[i] : i \in 1..0} = {} /\ SubSeq(q, 1, Len(q)) = q
        BY Members
    <1> QED BY <1>1 DEF Pool!Settle

\* How many are served, once the used tokens are counted.
LEMMA ServeCount ==
    ASSUME NEW q \in Seq(Task), NEW used, NEW c \in Nat, NEW n \in Nat, Cardinality(used) = n
    PROVE  /\ c <= n => Pool!Serve(q, used, c) = 0
           /\ c > n /\ c - n < Len(q) => Pool!Serve(q, used, c) = c - n
           /\ c > n /\ c - n >= Len(q) => Pool!Serve(q, used, c) = Len(q)
    <1>1. Len(q) \in Nat
        BY Members
    <1>2. Pool!Serve(q, used, c) =
             IF c - n <= 0 THEN 0 ELSE IF c - n < Len(q) THEN c - n ELSE Len(q)
        BY PoolCounts DEF Pool!Serve
    <1> QED BY <1>1, <1>2

\* A release returns a token, and serves at most one who waits.
LEMMA ReleaseReturns ==
    ASSUME SlotInv, NEW t \in HasSlot, Release(t), max' = max
    PROVE  Pool!Return(t)
    <1> USE DEF SlotInv, TypeOK
    <1> DEFINE others == HasSlot \ {t}
    <1>0. active = Cardinality(HasSlot) /\ IsFiniteSet(others)
        BY FS_RemoveElement DEF SlotConservation
    <1>1. Cardinality(others) = active - 1 /\ active - 1 \in Nat
        BY <1>0, FS_RemoveElement, FS_CardinalityType
    <1>2. OneLess(active) = active - 1
        BY <1>1 DEF OneLess
    <1>3. waiters \in Seq(Task) /\ Len(waiters) \in Nat
        BY Members
    <1>4. CASE waiters # <<>> /\ active - 1 < max
      <2> DEFINE h == Head(waiters)
      <2>1. /\ waiters' = Tail(waiters) /\ phase' = [phase EXCEPT ![t] = "idle", ![h] = "woken"]
          BY <1>2, <1>4 DEF Release
      <2>2. /\ h \in Task /\ phase[h] = "queued" /\ h = waiters[1] /\ Len(waiters) >= 1
            /\ Tail(waiters) = SubSeq(waiters, 2, Len(waiters))
        <3>1. h \in Task /\ phase[h] = "queued" /\ h = waiters[1] /\ Len(waiters) >= 1
            BY <1>4, DropOne DEF QueueIsExact
        <3> QED BY <1>4, <3>1, TailIsSubSeq
      <2> HIDE DEF h
      <2>3. HasSlot' = others \cup {h}
          BY <2>1, <2>2 DEF HasSlot
      <2>4. Pool!Serve(waiters, others, max) = 1
          BY <1>1, <1>3, <1>4, <2>2, ServeCount DEF NoIdleSlot
      <2>5. {waiters[i] : i \in 1..1} = {h}
          BY <2>2
      <2>6. HasSlot' = others \cup {waiters[i] : i \in 1..Pool!Serve(waiters, others, max)}
          BY <2>3, <2>4, <2>5
      <2> DEFINE n == Pool!Serve(waiters, others, max)
      <2>7. waiters' = SubSeq(waiters, n + 1, Len(waiters))
        <3>1. waiters' = SubSeq(waiters, 2, Len(waiters)) /\ n = 1
            BY <2>1, <2>2, <2>4
        <3> HIDE DEF n
        <3>2. n + 1 = 2
            BY <3>1
        <3> QED BY <3>1, <3>2, Zenon
      <2>8. Pool!Settle(waiters, others, max)
          BY <2>6, <2>7, Zenon DEF Pool!Settle
      <2> QED BY <2>8 DEF Pool!Return
    <1>5. CASE ~(waiters # <<>> /\ active - 1 < max)
      <2>1. waiters' = waiters /\ phase' = [phase EXCEPT ![t] = "idle"]
          BY <1>2, <1>5 DEF Release
      <2>2. HasSlot' = others
          BY <2>1 DEF HasSlot
      <2>3. Len(waiters) = 0 \/ max <= active - 1
          BY <1>1, <1>3, <1>5
      <2>4. Pool!Serve(waiters, others, max) = 0
          BY <1>1, <1>3, <2>3, ServeCount
      <2> QED BY <1>3, <2>1, <2>2, <2>4, ServeNobody DEF Pool!Return
    <1> QED BY <1>4, <1>5

\* A task that asks gets a token or stands at the end of the line.
LEMMA RequestAsks ==
    ASSUME SlotInv, NEW t \in Task, AcquireNow(t) \/ JoinQueue(t)
    PROVE  Pool!Ask(t)
    <1> USE DEF SlotInv, TypeOK
    <1>1. waiters \in Seq(Task) /\ Len(waiters) \in Nat /\ Cardinality(HasSlot) = active
        BY Members DEF SlotConservation
    <1>2. t \notin HasSlot \cup Pool!Waiting
      <2>1. Pool!Waiting = ToSet(waiters)
          BY <1>1, Members DEF Pool!Waiting
      <2> QED BY <2>1 DEF AcquireNow, JoinQueue, HasSlot, QueueIsExact
    <1> DEFINE q == Append(waiters, t)
    <1>3. q \in Seq(Task) /\ Len(q) = Len(waiters) + 1 /\ q[Len(waiters) + 1] = t
        BY <1>1, AddLast
    <1> HIDE DEF q
    <1>4. CASE AcquireNow(t)
      <2>1. waiters = <<>> /\ Len(waiters) = 0 /\ waiters' = <<>> /\ max' = max
          BY <1>4 DEF AcquireNow, NoIdleSlot
      <2>2. HasSlot' = HasSlot \cup {t}
          BY <1>4 DEF AcquireNow, HasSlot
      <2>3. Pool!Serve(q, HasSlot, max) = 1
        <3>1. max > active /\ max - active >= 1 /\ Len(q) = 1
            BY <1>3, <1>4, <2>1 DEF AcquireNow
        <3>2. max - active < Len(q) => FALSE
            BY <3>1
        <3> QED BY <1>1, <1>3, <3>1, <3>2, ServeCount
      <2>4. {q[i] : i \in 1..1} = {t} /\ SubSeq(q, 2, Len(q)) = <<>>
          BY <1>3, <2>1
      <2>5. HasSlot' = HasSlot \cup {q[i] : i \in 1..Pool!Serve(q, HasSlot, max)}
          BY <2>2, <2>3, <2>4
      <2> DEFINE n == Pool!Serve(q, HasSlot, max)
      <2>6. waiters' = SubSeq(q, n + 1, Len(q))
        <3>1. waiters' = SubSeq(q, 2, Len(q)) /\ n = 1
            BY <2>1, <2>3, <2>4
        <3> HIDE DEF n
        <3>2. n + 1 = 2
            BY <3>1
        <3> QED BY <3>1, <3>2, Zenon
      <2>7. Pool!Settle(q, HasSlot, max)
          BY <2>1, <2>5, <2>6, Zenon DEF Pool!Settle
      <2> QED BY <1>2, <2>7 DEF Pool!Ask, q
    <1>5. CASE JoinQueue(t)
      <2>1. HasSlot' = HasSlot /\ waiters' = q /\ max' = max
          BY <1>5 DEF JoinQueue, HasSlot, q
      <2>2. Pool!Serve(q, HasSlot, max) = 0
          BY <1>1, <1>3, <1>5, ServeCount DEF JoinQueue
      <2> QED BY <1>2, <1>3, <2>1, <2>2, ServeNobody DEF Pool!Ask, q
    <1> QED BY <1>4, <1>5

\* A task cancelled in the queue gives up.
LEMMA LeavingGivesUp ==
    ASSUME SlotInv, NEW t \in Task, LeaveQueue(t)
    PROVE  Pool!GiveUp(t)
    <1> USE DEF SlotInv, TypeOK
    <1>1. PICK i \in 1..Len(waiters) : waiters[i] = t /\ waiters' = RemoveAt(waiters, i)
        BY DEF LeaveQueue
    <1>2. /\ waiters' \in Seq(Task) /\ HasSlot' = HasSlot /\ max' = max
          /\ Cardinality(HasSlot) = active /\ active >= max
      <2>1. waiters' \in Seq(Task)
          BY <1>1, DropAt
      <2>2. HasSlot' = HasSlot /\ max' = max
          BY DEF LeaveQueue, HasSlot
      <2>3. waiters # <<>>
          BY DEF LeaveQueue
      <2> QED BY <2>1, <2>2, <2>3 DEF SlotConservation, NoIdleSlot
    <1>3. Pool!Serve(waiters', HasSlot, max) = 0
        BY <1>2, ServeCount
    <1>4. Pool!Settle(waiters', HasSlot, max)
        BY <1>2, <1>3, ServeNobody
    <1> QED BY <1>1, <1>4, PoolRemoves DEF Pool!GiveUp

\* The loop of update_max serves exactly as many as the new limit allows.
LEMMA UpdateResizes ==
    ASSUME SlotInv, NEW n \in Limits, UpdateMax(n)
    PROVE  Pool!Resize(AtLeastOne(n))
    <1> USE DEF SlotInv, TypeOK
    <1> DEFINE c == AtLeastOne(n)
               k == Wakes(c)
               woken == {waiters[i] : i \in 1..k}
    <1>1. c \in Nat \ {0}
        BY LimitsAreIntegers DEF AtLeastOne
    <1>2. k \in 0..Len(waiters)
        BY <1>1, WakesBounds
    <1>3. /\ max' = c /\ waiters' = SubSeq(waiters, k + 1, Len(waiters))
          /\ phase' = [t \in Task |-> IF t \in woken THEN "woken" ELSE phase[t]]
        BY DEF UpdateMax
    <1>4. Pool!Serve(waiters, HasSlot, c) = k
      <2>1. waiters \in Seq(Task) /\ Len(waiters) \in Nat /\ Cardinality(HasSlot) = active
          BY Members DEF SlotConservation
      <2>2. Len(waiters) = 0 \/ active >= max
          BY <2>1 DEF NoIdleSlot
      <2>3. k = IF c - active <= 0 THEN 0 ELSE IF c - active < Len(waiters) THEN c - active
                                                                           ELSE Len(waiters)
        <3> HIDE DEF c
        <3> QED BY <1>1, <2>1, <2>2 DEF Wakes, Least
      <2>4. Pool!Serve(waiters, HasSlot, c) =
               IF c - active <= 0 THEN 0 ELSE IF c - active < Len(waiters) THEN c - active
                                                                          ELSE Len(waiters)
          BY <2>1, PoolCounts DEF Pool!Serve
      <2> QED BY <2>3, <2>4
    <1> HIDE DEF c, k
    <1>5. HasSlot' = HasSlot \cup woken
      <2>1. \A t \in woken : t \in Task /\ phase[t] = "queued"
          BY <1>2, Members DEF QueueIsExact
      <2> HIDE DEF woken
      <2> QED BY <1>3, <2>1 DEF HasSlot
    <1>6. Pool!Settle(waiters, HasSlot, c)
        BY <1>3, <1>4, <1>5 DEF Pool!Settle
    <1> QED BY <1>6 DEF Pool!Resize, c

\* The limiter implements the pool: its counter, the hand-over of a release, the
\* cancellations and the loop of update_max are a line that is served in order, as far
\* as the tokens go.
THEOREM PoolImplemented == Spec => ImplementsPool
    <1>1. Init => Pool!Init
        BY DEF Init, Pool!Init, HasSlot
    <1>2. ASSUME SlotInv, [Next]_vars
          PROVE  [Pool!Next]_(Pool!vars)
      <2>1. CASE UNCHANGED vars
          BY <2>1 DEF vars, Pool!vars, HasSlot
      <2>2. ASSUME NEW t \in Task, Step(t)
            PROVE  Pool!Next \/ UNCHANGED Pool!vars
        <3>1. CASE AcquireNow(t) \/ JoinQueue(t)
            BY <1>2, <3>1, RequestAsks DEF Pool!Next
        <3>2. CASE Finish(t) \/ GiveBack(t)
          <4>1. t \in HasSlot /\ Release(t) /\ max' = max
              BY <3>2 DEF Finish, GiveBack, HasSlot
          <4> QED BY <1>2, <4>1, ReleaseReturns DEF Pool!Next
        <3>3. CASE LeaveQueue(t)
            BY <1>2, <3>3, LeavingGivesUp DEF Pool!Next
        <3>4. CASE Resume(t) \/ Cancel(t)
            BY <1>2, <3>4 DEF Resume, Cancel, Pool!vars, HasSlot, SlotInv, TypeOK
        <3> QED BY <2>2, <3>1, <3>2, <3>3, <3>4 DEF Step
      <2>3. ASSUME NEW n \in Limits, UpdateMax(n)
            PROVE  Pool!Next
          BY <1>2, <2>3, UpdateResizes DEF Pool!Next
      <2> QED BY <1>2, <2>1, <2>2, <2>3 DEF Next
    <1> QED BY <1>1, <1>2, SlotInvariance, PTL DEF Spec, ImplementsPool, Pool!Spec
=============================================================================
