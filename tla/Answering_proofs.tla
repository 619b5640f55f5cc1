-------------------------- MODULE Answering_proofs --------------------------
(***************************************************************************)
(* Proofs about what happens between a question and its answer: the rounds *)
(* of the agent, the division of the context window, the history that is   *)
(* loaded, and the fitting of a request.                                   *)
(***************************************************************************)
EXTENDS Answering, QueueFacts

-----------------------------------------------------------------------------
(* The rounds of the agent.                                                *)

\* Between the check of the quota and the next decision a round is left.
Checked == {"ask", "heal", "nudge", "execute", "switch"}

\* The counters of a run against what the user granted so far.
CountInv ==
    /\ quota \in (Nat \ {0}) \X (Nat \ {0}) \X Nat
    /\ agContinues \in Nat /\ executed \in Nat /\ agRound \in Nat /\ roundQuota \in Nat
    /\ node \in {"start", "fanout"} => executed = 0
    /\ executed <= agRound /\ agRound <= roundQuota
    /\ roundQuota <= (agContinues + 1) * quota[1]
    /\ node \in Checked => agRound < roundQuota

\* The snapshot of a suspended run against its counters. A replay that fails leaves the
\* snapshot of before the continue, with the quota of before.
SnapshotInv ==
    node \in {"suspended", "crashed"} \/ (node = "switch" /\ bare) =>
        /\ snapshot.agRound \in Nat /\ snapshot.roundQuota \in Nat
        /\ executed <= snapshot.agRound /\ snapshot.agRound <= snapshot.roundQuota
        /\ snapshot.roundQuota <= (agContinues + 1) * quota[1]

RoundInv == CountInv /\ SnapshotInv

\* One more continue grants one more quota.
LEMMA OneMoreQuota ==
    ASSUME NEW n \in Nat, NEW q \in Nat, NEW granted \in Nat, granted <= (n + 1) * q
    PROVE  /\ granted + q <= ((n + 1) + 1) * q
           /\ granted <= ((n + 1) + 1) * q
    <1>1. ((n + 1) + 1) * q = (n + 1) * q + q /\ (n + 1) * q \in Nat
        OBVIOUS
    <1> QED BY <1>1

\* A step that leaves all counters alone and does not come to a place where a round has
\* to be left, except from such a place.
LEMMA PlacesMove ==
    ASSUME RoundInv, UNCHANGED <<quota, agContinues, executed, agRound, roundQuota, snapshot>>,
           node' \notin {"start", "fanout"} \/ node \in {"start", "fanout"},
           node' \in Checked => node \in Checked,
           node' # "suspended",
           node' = "crashed" => node \in {"suspended", "crashed"} \/ (node = "switch" /\ bare),
           node' = "switch" /\ bare' => node = "switch" /\ bare
    PROVE  RoundInv'
    BY DEF RoundInv, CountInv, SnapshotInv, Checked

\* A round that is counted was left, and executed only where it is counted.
LEMMA RoundsCount ==
    ASSUME RoundInv, node \in Checked, node' = "decide", agRound' = agRound + 1,
           executed' \in {executed, executed + 1},
           UNCHANGED <<quota, agContinues, roundQuota, snapshot>>
    PROVE  RoundInv'
    BY DEF RoundInv, CountInv, SnapshotInv, Checked

\* A decision of the model.
LEMMA DecisionsMove ==
    ASSUME RoundInv, NEW cs, Decide(cs), node \in {"ask", "heal", "nudge"},
           UNCHANGED <<quota, agContinues, executed, agRound, roundQuota, snapshot>>
    PROVE  RoundInv'
    <1>1. node' = "answer" \/ (node' \in {"switch", "execute"} /\ bare' = FALSE)
        BY DEF Decide, Answer
    <1> QED BY <1>1, PlacesMove DEF Checked

\* A control call: a round, or a skill loaded or left, or a suspension.
LEMMA ControlMoves ==
    ASSUME RoundInv, SwitchSkill
    PROVE  RoundInv'
    <1> USE DEF SwitchSkill, Rest, quotaVars
    <1>1. node = "switch"
        OBVIOUS
    <1>2. ASSUME NEW r, NothingChanges(r)
          PROVE  RoundInv'
        BY <1>1, <1>2, RoundsCount DEF NothingChanges, Checked
    <1>3. CASE DoneSkill
        BY <1>1, <1>3, PlacesMove DEF DoneSkill, Checked
    <1>4. ASSUME NEW s \in Skill, UseSkill(s)
          PROVE  RoundInv'
      <2>1. CASE node' \in {"suspend", "decide"} /\ UNCHANGED agRound /\ Rest
          BY <1>1, <2>1, PlacesMove DEF Checked
      <2> QED BY <1>2, <1>4, <2>1 DEF UseSkill
    <1>5. CASE ~bare /\ calls = <<>> /\ node' = "decide" /\ UNCHANGED agRound /\ Rest
        BY <1>1, <1>5, PlacesMove DEF Checked
    <1>6. CASE bare /\ node' = "crashed" /\ UNCHANGED agRound /\ Rest
        BY <1>1, <1>6, PlacesMove DEF Checked
    <1>7. CASE ListSkills
        BY <1>2, <1>7 DEF ListSkills
    <1> QED BY <1>3, <1>4, <1>5, <1>6, <1>7

\* The snapshot that is taken agrees with the run.
LEMMA SuspendKeeps ==
    ASSUME RoundInv, Suspend
    PROVE  RoundInv'
    <1>1. snapshot'.agRound = agRound /\ snapshot'.roundQuota = roundQuota
        BY DEF Suspend, SnapshotOf
    <1> QED BY <1>1 DEF Suspend, quotaVars, RoundInv, CountInv, SnapshotInv, Checked

\* A continue grants one quota more than the snapshot had.
LEMMA ContinueGrants ==
    ASSUME RoundInv, Continue
    PROVE  RoundInv'
    <1> DEFINE q == quota[1]
               a == snapshot.agRound
               r == snapshot.roundQuota
    <1>1. q \in Nat \ {0} /\ agContinues \in Nat /\ executed \in Nat
        BY DEF RoundInv, CountInv
    <1>2. a \in Nat /\ r \in Nat /\ executed <= a /\ a <= r /\ r <= (agContinues + 1) * q
        BY DEF Continue, RoundInv, SnapshotInv
    <1>3. /\ agContinues' = agContinues + 1 /\ node' = "switch"
          /\ agRound' = a /\ roundQuota' = r + q
          /\ executed' = executed /\ quota' = quota /\ snapshot' = snapshot
        BY DEF Continue, RoundsBefore
    <1>4. r + q <= (agContinues' + 1) * q /\ r <= (agContinues' + 1) * q
        BY <1>1, <1>2, <1>3, OneMoreQuota
    <1>5. CountInv'
      <2>1. quota' \in (Nat \ {0}) \X (Nat \ {0}) \X Nat
          BY <1>3 DEF RoundInv, CountInv
      <2> HIDE DEF q, a, r
      <2>2. a < r + q /\ a <= r + q /\ r + q \in Nat
          BY <1>1, <1>2
      <2>3. roundQuota' <= (agContinues' + 1) * quota'[1]
          BY <1>3, <1>4 DEF q
      <2> QED BY <1>1, <1>2, <1>3, <2>1, <2>2, <2>3 DEF CountInv, Checked
    <1>6. SnapshotInv'
      <2>1. r <= (agContinues' + 1) * quota'[1]
          BY <1>3, <1>4
      <2> QED BY <1>2, <1>3, <2>1 DEF SnapshotInv
    <1> QED BY <1>5, <1>6 DEF RoundInv

\* No step of the graph, of the user or of an administrator breaks the invariant.
LEMMA RoundStep ==
    ASSUME RoundInv, [AgNext]_agVars
    PROVE  RoundInv'
    <1> USE DEF quotaVars
    <1>1. CASE UNCHANGED agVars
        BY <1>1 DEF agVars, RoundInv, CountInv, SnapshotInv, Checked
    <1>2. CASE Enter \/ Retrieve \/ LoadSkill
        BY <1>2, PlacesMove DEF Enter, Retrieve, LoadSkill, Checked
    <1>3. CASE RouteSkill
        BY <1>3 DEF RouteSkill, RoundInv, CountInv, SnapshotInv, Checked
    <1>4. CASE Consider
        BY <1>4 DEF Consider, Answer, RoundInv, CountInv, SnapshotInv, Checked
    <1>5. CASE AskModel
      <2>1. ASSUME NEW cs \in Decision, Decide(cs)
            PROVE  RoundInv'
          BY <1>5, <2>1, DecisionsMove DEF AskModel
      <2>2. CASE node' \in {"heal", "nudge", "answer"}
          BY <1>5, <2>2, PlacesMove DEF AskModel, Checked
      <2> QED BY <1>5, <2>1, <2>2 DEF AskModel, Answer
    <1>6. CASE Heal
      <2>1. ASSUME NEW cs \in Decision, Decide(cs)
            PROVE  RoundInv'
          BY <1>6, <2>1, DecisionsMove DEF Heal
      <2>2. CASE node' \in {"heal", "nudge", "answer"}
          BY <1>6, <2>2, PlacesMove DEF Heal, Checked
      <2> QED BY <1>6, <2>1, <2>2 DEF Heal, Answer
    <1>7. CASE AskAgain
      <2>1. ASSUME NEW cs \in Decision, Decide(cs)
            PROVE  RoundInv'
          BY <1>7, <2>1, DecisionsMove DEF AskAgain
      <2>2. CASE node' = "answer"
          BY <1>7, <2>2, PlacesMove DEF AskAgain, Checked
      <2> QED BY <1>7, <2>1, <2>2 DEF AskAgain, Answer
    <1>8. CASE ExecuteTools
        BY <1>8, RoundsCount DEF ExecuteTools, Checked
    <1>9. CASE Finish \/ Stop
        BY <1>9 DEF Finish, Stop, RoundInv, CountInv, SnapshotInv, Checked
    <1>10. ASSUME NEW s \in Skill, Disable(s)
           PROVE  RoundInv'
        BY <1>10 DEF Disable, RoundInv, CountInv, SnapshotInv, Checked
    <1> QED BY <1>1, <1>2, <1>3, <1>4, <1>5, <1>6, <1>7, <1>8, <1>9, <1>10,
               ControlMoves, SuspendKeeps, ContinueGrants DEF AgNext, Node

\* The rounds of tools of a question, before and after its suspensions, stay within what
\* the user granted: one quota at first and one with each continue, also when a replay
\* fails and the snapshot of before is continued once more.
THEOREM RoundsAreGranted == AgSpec => []RoundsWithinQuota
    <1>1. AgInit => RoundInv
        BY AgBounds DEF AgInit, RoundInv, CountInv, SnapshotInv, Checked
    <1>2. RoundInv /\ [AgNext]_agVars => RoundInv'
        BY RoundStep
    <1>3. RoundInv => RoundsWithinQuota
      <2>1. ASSUME RoundInv PROVE RoundsWithinQuota
        <3> DEFINE granted == (agContinues + 1) * quota[1]
        <3>1. granted \in Nat /\ roundQuota <= granted
            BY <2>1 DEF RoundInv, CountInv
        <3> HIDE DEF granted
        <3>2. executed <= granted
            BY <2>1, <3>1 DEF RoundInv, CountInv
        <3> QED BY <3>2 DEF RoundsWithinQuota, granted
      <2> QED BY <2>1
    <1> QED BY <1>1, <1>2, <1>3, PTL DEF AgSpec

-----------------------------------------------------------------------------
(* The division of the context window.                                     *)

\* A negative share becomes 0, any other stays (max(0, ...) in compute).
LEMMA NotNegativeFact ==
    ASSUME NEW n \in Int
    PROVE  /\ NotNegative(n) \in Nat
           /\ NotNegative(n) >= n
           /\ n >= 0 => NotNegative(n) = n
           /\ n <= 0 => NotNegative(n) = 0
  BY DEF NotNegative

\* A percentage of an amount lies between 0 and the amount.
LEMMA ShareBounds ==
    ASSUME NEW n \in Nat, NEW pct \in 0 .. 100
    PROVE  (n * pct) \div 100 \in 0 .. n
  <1>1. n * pct \in 0 .. n * 100
    <2>1. n * pct \in Nat /\ n * 100 = n * pct + n * (100 - pct)
      OBVIOUS
    <2>2. n * (100 - pct) \in Nat
      OBVIOUS
    <2> QED BY <2>1, <2>2
  <1> QED BY <1>1

\* Retrieval and memory together leave something of what there is.
LEMMA SharesLeaveRoom ==
    ASSUME NEW avail \in Nat
    PROVE  (avail * RAG_BUDGET_PCT) \div 100 + (avail * MEMORY_BUDGET_PCT) \div 100 \in 0 .. avail
  BY DEF RAG_BUDGET_PCT, MEMORY_BUDGET_PCT

\* A share, rounded down, is not above its percentage.
LEMMA SharesAreRounded ==
    ASSUME NEW avail \in Nat
    PROVE  /\ 100 * ((avail * RAG_BUDGET_PCT) \div 100) <= RAG_BUDGET_PCT * avail
           /\ 100 * ((avail * MEMORY_BUDGET_PCT) \div 100) <= MEMORY_BUDGET_PCT * avail
  BY DEF RAG_BUDGET_PCT, MEMORY_BUDGET_PCT

\* No slot of the budget is negative, and together they are the whole input budget, or
\* what has to be sent anyway where that is more: no token is promised twice and none is
\* lost (compute: "never let a negative propagate"). What is retrieved and remembered stays
\* within its percentage of what the fixed parts leave.
THEOREM BudgetIsDivided ==
    ASSUME NEW total \in Int, NEW prefix \in Int, NEW tools \in Int
    PROVE  LET s == Slots(total, prefix, tools)
               fixed == NotNegative(prefix) + NotNegative(tools)
           IN /\ {s.r_prefix, s.r_tools, s.r_rag, s.r_memory, s.persistent} \subseteq Nat
              /\ Reserved(s) + s.persistent = IF fixed < total THEN total ELSE fixed
              /\ 100 * s.r_rag <= RAG_BUDGET_PCT * NotNegative(total - fixed)
              /\ 100 * s.r_memory <= MEMORY_BUDGET_PCT * NotNegative(total - fixed)
  <1> DEFINE s == Slots(total, prefix, tools)
             p == NotNegative(prefix)
             t == NotNegative(tools)
             avail == NotNegative(total - p - t)
             rag == (avail * RAG_BUDGET_PCT) \div 100
             memory == (avail * MEMORY_BUDGET_PCT) \div 100
  <1>1. s = [r_prefix |-> p, r_tools |-> t, r_rag |-> rag, r_memory |-> memory,
             persistent |-> avail - rag - memory]
    BY DEF Slots
  <1>2. p \in Nat /\ t \in Nat
    BY NotNegativeFact
  <1>3. avail \in Nat /\ p + t + avail = IF p + t < total THEN total ELSE p + t
    <2>1. total - p - t \in Int
      BY <1>2
    <2> QED BY <1>2, <2>1 DEF NotNegative
  <1>4. rag \in 0 .. avail /\ memory \in 0 .. avail
    BY <1>3, ShareBounds DEF RAG_BUDGET_PCT, MEMORY_BUDGET_PCT
  <1>5. rag + memory <= avail
    BY <1>3, SharesLeaveRoom
  <1>a. total - p - t = total - (p + t)
    BY <1>2
  <1>b. 100 * rag <= RAG_BUDGET_PCT * avail /\ 100 * memory <= MEMORY_BUDGET_PCT * avail
    BY <1>3, SharesAreRounded
  <1>c. avail = NotNegative(total - (p + t))
    BY <1>a
  <1> HIDE DEF p, t, avail, rag, memory
  <1>6. Reserved(s) + s.persistent = p + t + avail
    BY <1>1, <1>2, <1>3, <1>4 DEF Reserved
  <1>7. {s.r_prefix, s.r_tools, s.r_rag, s.r_memory, s.persistent} \subseteq Nat
    BY <1>1, <1>2, <1>3, <1>4, <1>5
  <1>8. /\ 100 * s.r_rag <= RAG_BUDGET_PCT * avail
        /\ 100 * s.r_memory <= MEMORY_BUDGET_PCT * avail
    BY <1>1, <1>b
  <1> QED BY <1>3, <1>6, <1>7, <1>8, <1>c DEF p, t

\* Summarizing in the background starts no later than the turn waits for it, and both
\* before the slot of the conversation is full, however the products are truncated, in
\* every slot of ten tokens and more.
THEOREM WatermarksAreOrdered ==
    ASSUME NEW s, s.persistent \in Nat, s.persistent >= 10,
           NEW low \in AsyncHi(s), NEW high \in SyncHi(s)
    PROVE  low <= high /\ high <= s.persistent
  <1> DEFINE n == s.persistent
  <1>1. /\ (n * 70) \div 100 \in Int /\ (n * 80) \div 100 \in Int
        /\ (n * 70) \div 100 + 1 <= (n * 80) \div 100 /\ (n * 80) \div 100 <= n
    OBVIOUS
  <1>2. /\ low \in Int /\ low <= (n * 70) \div 100
        /\ high \in Int /\ (n * 80) \div 100 - 1 <= high /\ high <= (n * 80) \div 100
    BY <1>1 DEF AsyncHi, SyncHi, Truncated, ASYNC_HI_PCT, SYNC_HI_PCT
  <1> HIDE DEF n
  <1>3. low <= high /\ high <= n
    <2>1. \A a, b, l, h, m \in Int :
             a + 1 <= b /\ b <= m /\ l <= a /\ b - 1 <= h /\ h <= b => l <= h /\ h <= m
      OBVIOUS
    <2> QED BY <1>1, <1>2, <2>1, n \in Int DEF n
  <1> QED BY <1>3 DEF n

-----------------------------------------------------------------------------
(* The history that is loaded: the order of its rows. *)

Rows == [seq : 1..MaxSeq, kind : Kind]

\* No two rows have one number.
Numbered(rows) == rows \subseteq Rows /\ \A a, b \in rows : a.seq = b.seq => a = b

Increasing(s) == \A i, j \in 1..Len(s) : i < j => s[i].seq < s[j].seq

\* A row is its number and its kind.
LEMMA RowFacts ==
    /\ \A m \in Rows : m.seq \in 1..MaxSeq /\ m.seq \in Nat /\ m.seq # None /\ m.kind \in Kind /\ m = Msg(m.seq, m.kind)
    /\ \A n, k : Msg(n, k).seq = n /\ Msg(n, k).kind = k
    /\ \A n \in 1..MaxSeq, k \in Kind : Msg(n, k) \in Rows
    BY HistBounds DEF Rows, Msg, None

\* Some rows are numbered too, and they are finitely many.
LEMMA NumberedRows ==
    ASSUME NEW rows, Numbered(rows)
    PROVE  /\ \A some \in SUBSET rows : Numbered(some)
           /\ IsFiniteSet(rows)
    <1> DEFINE f == [m \in rows |-> m.seq]
    <1>1. f \in Injection(rows, 1..MaxSeq)
      <2>1. f \in [rows -> 1..MaxSeq]
          BY RowFacts DEF Numbered
      <2>2. \A a, b \in rows : f[a] = f[b] => a = b
          BY DEF Numbered
      <2> QED BY <2>1, <2>2 DEF Injection, IsInjective
    <1>2. IsFiniteSet(1..MaxSeq)
        BY FS_Interval, HistBounds
    <1>3. IsFiniteSet(rows)
        BY <1>1, <1>2, FS_Injection
    <1> QED BY <1>3 DEF Numbered

\* The last of some rows.
LEMMA HighestRow ==
    ASSUME NEW rows, Numbered(rows)
    PROVE  /\ Highest(rows) \in Nat
           /\ rows = {} => Highest(rows) = None
           /\ rows # {} => \E m \in rows : Highest(rows) = m.seq
           /\ \A r \in rows : r.seq <= Highest(rows)
    <1>1. CASE rows = {}
        BY <1>1 DEF Highest, None
    <1>2. CASE rows # {}
      <2> DEFINE T == {MaxSeq - m.seq : m \in rows}
      <2>1. T \subseteq Nat /\ T # {}
          BY <1>2, HistBounds, RowFacts DEF Numbered
      <2>2. PICK n \in T : \A k \in T : n <= k
        <3> HIDE DEF T
        <3> QED BY <2>1, LeastNumber
      <2>3. PICK m \in rows : n = MaxSeq - m.seq
          BY <2>2
      <2>4. \A r \in rows : r.seq \in Nat
          BY RowFacts DEF Numbered
      <2>5. \A r \in rows : r.seq <= m.seq
        <3> SUFFICES ASSUME NEW r \in rows PROVE r.seq <= m.seq
            OBVIOUS
        <3>1. MaxSeq - m.seq <= MaxSeq - r.seq
            BY <2>2, <2>3
        <3> QED BY <2>4, <3>1, HistBounds
      <2> DEFINE top == CHOOSE t \in rows : \A r \in rows : r.seq <= t.seq
      <2>6. top \in rows /\ \A r \in rows : r.seq <= top.seq
          BY <2>3, <2>5
      <2>7. Highest(rows) = top.seq
          BY <1>2 DEF Highest
      <2> HIDE DEF top
      <2> QED BY <1>2, <2>4, <2>6, <2>7
    <1> QED BY <1>1, <1>2

\* Ordered puts every row at its place.
LEMMA OrderedRows ==
    ASSUME NEW rows, Numbered(rows)
    PROVE  /\ Ordered(rows) \in Seq(Rows)
           /\ ToSet(Ordered(rows)) = rows
           /\ Increasing(Ordered(rows))
    <1> DEFINE n == Cardinality(rows)
               rank == [m \in rows |-> Cardinality({r \in rows : r.seq < m.seq})]
    <1>1. IsFiniteSet(rows) /\ n \in Nat /\ \A m \in rows : m \in Rows /\ m.seq \in Nat
        BY NumberedRows, FS_CardinalityType, RowFacts DEF Numbered
    <1>2. ASSUME NEW a \in rows
          PROVE  rank[a] \in 0..(n - 1)
      <2> DEFINE B == {r \in rows : r.seq < a.seq}
      <2>1. B \in SUBSET rows /\ a \notin B
          BY <1>1
      <2>2. IsFiniteSet(B) /\ Cardinality(B) <= n /\ Cardinality(B) # n
          BY <1>1, <2>1, FS_Subset
      <2>3. Cardinality(B) \in Nat
          BY <2>2, FS_CardinalityType
      <2> QED BY <1>1, <2>2, <2>3
    <1>3. ASSUME NEW a \in rows, NEW b \in rows, a.seq < b.seq
          PROVE  rank[a] < rank[b]
      <2> DEFINE A == {r \in rows : r.seq < a.seq}
                 B == {r \in rows : r.seq < b.seq}
      <2>1. A \in SUBSET B /\ a \in B /\ a \notin A /\ B \in SUBSET rows
          BY <1>1, <1>3
      <2>2. IsFiniteSet(B)
          BY <1>1, <2>1, FS_Subset
      <2>3. IsFiniteSet(A) /\ Cardinality(A) <= Cardinality(B) /\ Cardinality(A) # Cardinality(B)
          BY <2>1, <2>2, FS_Subset
      <2>4. Cardinality(A) \in Nat /\ Cardinality(B) \in Nat
          BY <2>2, <2>3, FS_CardinalityType
      <2> QED BY <2>3, <2>4
    <1>4. \A a, b \in rows : a.seq < b.seq \/ b.seq < a.seq \/ a = b
        BY <1>1 DEF Numbered
    <1>5. \A m \in rows : rank[m] = Cardinality({r \in rows : r.seq < m.seq})
        OBVIOUS
    <1>6. DOMAIN rank = rows
        OBVIOUS
    <1>7. rank \in [rows -> 0..(n - 1)]
        BY <1>2
    <1> HIDE DEF rank
    <1>8. rank \in Injection(rows, 0..(n - 1))
      <2>1. \A a, b \in rows : rank[a] = rank[b] => a = b
          BY <1>2, <1>3, <1>4
      <2> QED BY <1>7, <2>1 DEF Injection, IsInjective
    <1>9. rank \in Surjection(rows, 0..(n - 1))
      <2>1. IsFiniteSet(0..(n - 1)) /\ Cardinality(0..(n - 1)) = n
          BY <1>1, FS_Interval
      <2> QED BY <1>8, <2>1, FS_Injection
    <1> DEFINE q == Ordered(rows)
    <1>10. ASSUME NEW i \in 1..n
           PROVE  q[i] \in rows /\ rank[q[i]] = i - 1
      <2>1. \E m \in rows : rank[m] = i - 1
          BY <1>1, <1>9 DEF Surjection
      <2>2. q[i] = CHOOSE m \in rows : Cardinality({r \in rows : r.seq < m.seq}) = i - 1
          BY DEF Ordered
      <2> QED BY <1>5, <2>1, <2>2
    <1>11. q \in Seq(Rows) /\ Len(q) = n /\ DOMAIN q = 1..n
      <2>1. q \in [1..n -> Rows]
          BY <1>1, <1>10 DEF Ordered
      <2> QED BY <1>1, <2>1
    <1> HIDE DEF q
    <1>12. ToSet(q) = rows
      <2>1. ASSUME NEW m \in rows
            PROVE  \E i \in 1..n : q[i] = m
        <3>1. rank[m] + 1 \in 1..n
            BY <1>1, <1>2
        <3>2. q[rank[m] + 1] \in rows /\ rank[q[rank[m] + 1]] = rank[m]
          <4>1. rank[q[rank[m] + 1]] = (rank[m] + 1) - 1 /\ q[rank[m] + 1] \in rows
              BY <1>10, <3>1
          <4> QED BY <1>2, <4>1
        <3>3. q[rank[m] + 1] = m
            BY <1>2, <1>3, <1>4, <3>2
        <3> QED BY <3>1, <3>3
      <2> QED BY <1>10, <1>11, <2>1 DEF ToSet
    <1>13. Increasing(q)
      <2> SUFFICES ASSUME NEW i \in 1..n, NEW j \in 1..n, i < j
                   PROVE  q[i].seq < q[j].seq
          BY <1>11 DEF Increasing
      <2>1. q[i] \in rows /\ q[j] \in rows /\ rank[q[i]] < rank[q[j]]
          BY <1>1, <1>10
      <2> QED BY <1>2, <1>3, <1>4, <2>1
    <1> QED BY <1>11, <1>12, <1>13 DEF q

-----------------------------------------------------------------------------
(* The cache. *)

Settling(s) == \A i \in 1..Len(s) : s[i].kind # "partial"

\* A history without a half-written row holds rows that are there for good, and every
\* row from the cursor up to the last one it holds. A half-written row between would be
\* in the history as such; and the next number is higher than all in the history.
Whole(s) ==
    s # <<>> /\ Settling(s) =>
        /\ ToSet(s) \subseteq table
        /\ \A m \in table : cursor <= m.seq /\ m.seq <= Last(s).seq => m \in ToSet(s)

\* A run that has a row of its own, which is half-written while the run works.
OwnRow ==
    own # None => /\ run \in {"working", "answered"}
                  /\ run = "working" => Msg(own, "partial") \in table

TableInv == /\ Numbered(table) /\ cursor \in Nat /\ own \in Nat
            /\ run \in {"none", "started", "working", "answered"} /\ OwnRow

CacheInv ==
    /\ cache = Cold \/ cache = Entry(cache.msgs)
    /\ cache.msgs \in Seq(Rows) /\ Increasing(cache.msgs) /\ Whole(cache.msgs)

AnswerInv == HistoryInOrder /\ RefreshMissesNothing

HistoryInv == TableInv /\ CacheInv /\ AnswerInv

\* A new row has a number of its own, higher than that of any row there is.
LEMMA Inserting ==
    ASSUME Numbered(table), NEW k \in Kind, NextSeq <= MaxSeq
    PROVE  /\ NextSeq \in 1..MaxSeq
           /\ Numbered(Insert(k))
           /\ \A m \in table : m.seq < NextSeq
           /\ Insert(k) = table \cup {Msg(NextSeq, k)}
    <1>1. Highest(table) \in Nat /\ \A m \in table : m.seq <= Highest(table)
        BY HighestRow
    <1>2. NextSeq \in 1..MaxSeq
        BY <1>1, HistBounds DEF NextSeq
    <1>3. \A m \in table : m.seq < NextSeq
      <2>1. \A m \in table : m.seq \in Nat
          BY RowFacts DEF Numbered
      <2> QED BY <1>1, <2>1 DEF NextSeq
    <1>4. Msg(NextSeq, k) \in Rows /\ Msg(NextSeq, k).seq = NextSeq
        BY <1>2, RowFacts
    <1>5. Numbered(table \cup {Msg(NextSeq, k)})
      <2>1. \A m \in table : m.seq # NextSeq
          BY <1>2, <1>3, RowFacts DEF Numbered
      <2> QED BY <1>4, <2>1 DEF Numbered
    <1> QED BY <1>2, <1>3, <1>5 DEF Insert

\* What keeps a history whole: no settled row goes or changes, and what is new has a
\* number higher than every row it holds, or replaces a half-written row.
LEMMA StaysWhole ==
    ASSUME NEW s \in Seq(Rows), Whole(s), Numbered(table), cursor \in Nat,
           cursor' \in Nat, cursor <= cursor',
           \A m \in table : m.kind # "partial" => m \in table',
           \A m \in table' \ table : \/ \A r \in table : r.seq < m.seq
                                     \/ \E r \in table : r.seq = m.seq /\ r.kind = "partial",
           table' \subseteq Rows
    PROVE  Whole(s)'
    <1> SUFFICES ASSUME s # <<>>, Settling(s)
                 PROVE  /\ ToSet(s) \subseteq table'
                        /\ \A m \in table' : cursor' <= m.seq /\ m.seq <= Last(s).seq => m \in ToSet(s)
        BY DEF Whole, Settling
    <1>1. /\ ToSet(s) \subseteq table
          /\ \A m \in table : cursor <= m.seq /\ m.seq <= Last(s).seq => m \in ToSet(s)
        BY DEF Whole
    <1>2. \A m \in ToSet(s) : m.kind # "partial"
        BY DEF Settling, ToSet
    <1>3. Last(s) \in ToSet(s) /\ Last(s).seq \in Nat
      <2>1. Last(s) = s[Len(s)] /\ Len(s) \in 1..Len(s)
          BY DEF Last
      <2> QED BY <2>1, RowFacts DEF ToSet
    <1>4. ASSUME NEW m \in table', cursor' <= m.seq, m.seq <= Last(s).seq
          PROVE  m \in ToSet(s)
      <2>1. m.seq \in Nat
          BY RowFacts
      <2>2. CASE m \in table
          BY <1>1, <1>4, <2>1, <2>2
      <2>3. CASE m \notin table /\ \A r \in table : r.seq < m.seq
        <3>1. Last(s).seq < m.seq
            BY <1>1, <1>3, <2>3
        <3> QED BY <1>3, <1>4, <2>1, <3>1
      <2>4. ASSUME NEW r \in table, r.seq = m.seq, r.kind = "partial"
            PROVE  FALSE
        <3>1. r \in ToSet(s)
            BY <1>1, <1>4, <2>1, <2>4
        <3> QED BY <1>2, <2>4, <3>1
      <2> QED BY <2>2, <2>3, <2>4
    <1> QED BY <1>1, <1>2, <1>4

\* A step of the turn: the cache and the last answer stay, and so does the cursor.
LEMMA TurnKeeps ==
    ASSUME HistoryInv, TableInv', UNCHANGED <<cache, got, due>>, cursor <= cursor',
           \A m \in table : m.kind # "partial" => m \in table',
           \A m \in table' \ table : \/ \A r \in table : r.seq < m.seq
                                     \/ \E r \in table : r.seq = m.seq /\ r.kind = "partial"
    PROVE  HistoryInv'
    <1>1. Whole(cache.msgs)'
      <2> DEFINE s == cache.msgs
      <2>1. s \in Seq(Rows) /\ Whole(s) /\ cache' = cache
          BY DEF HistoryInv, CacheInv
      <2>2. Numbered(table) /\ cursor \in Nat /\ cursor' \in Nat /\ table' \subseteq Rows
          BY DEF HistoryInv, TableInv, Numbered
      <2> QED BY <2>1, <2>2, StaysWhole DEF Whole
    <1>2. CacheInv'
        BY <1>1 DEF HistoryInv, CacheInv, Cold, Entry
    <1>3. AnswerInv'
        BY DEF HistoryInv, AnswerInv, HistoryInOrder, RefreshMissesNothing, Settled
    <1> QED BY <1>2, <1>3 DEF HistoryInv

\* A history that settled misses nothing from the cursor on.
Misses(s) == s # <<>> /\ Settling(s) /\ ~(Unsummarized \subseteq ToSet(s))

\* The entry that is loaded afresh.
LEMMA LoadsAll ==
    ASSUME Numbered(table), cursor \in Nat
    PROVE  LET s == Ordered(Unsummarized)
           IN  s \in Seq(Rows) /\ Increasing(s) /\ Whole(s) /\ ~Misses(s)
    <1> DEFINE s == Ordered(Unsummarized)
    <1>1. Numbered(Unsummarized) /\ Unsummarized \subseteq table
        BY NumberedRows DEF Unsummarized
    <1>2. s \in Seq(Rows) /\ ToSet(s) = Unsummarized /\ Increasing(s)
        BY <1>1, OrderedRows
    <1> HIDE DEF s
    <1>3. Whole(s)
        BY <1>1, <1>2 DEF Whole, Unsummarized
    <1>4. ~Misses(s)
        BY <1>2 DEF Misses
    <1> QED BY <1>2, <1>3, <1>4 DEF s

\* The entry that is extended: by what has a higher number than all it holds.
LEMMA Extends ==
    ASSUME Numbered(table), cursor \in Nat, NEW s \in Seq(Rows), s # <<>>, Increasing(s), Whole(s)
    PROVE  LET t == s \o Ordered({m \in table : m.seq > Last(s).seq})
           IN  t \in Seq(Rows) /\ Increasing(t) /\ Whole(t) /\ ~Misses(t)
    <1> DEFINE new == {m \in table : m.seq > Last(s).seq}
               u == Ordered(new)
               t == s \o u
    <1>1. Numbered(new)
        BY NumberedRows
    <1>2. u \in Seq(Rows) /\ ToSet(u) = new /\ Increasing(u)
        BY <1>1, OrderedRows
    <1>3. /\ Len(s) \in 1..Len(s) /\ Last(s) = s[Len(s)] /\ Last(s) \in Rows
        BY DEF Last
    <1>4. \A m \in Rows : m.seq \in Nat
        BY RowFacts
    <1>5. \A i \in 1..Len(s) : s[i] \in Rows /\ s[i].seq <= Last(s).seq
      <2> SUFFICES ASSUME NEW i \in 1..Len(s) PROVE s[i] \in Rows /\ s[i].seq <= Last(s).seq
          OBVIOUS
      <2>1. s[i] \in Rows /\ s[i].seq \in Nat /\ s[Len(s)].seq \in Nat
          BY <1>3, <1>4
      <2>2. i < Len(s) => s[i].seq < s[Len(s)].seq
          BY <1>3 DEF Increasing
      <2>3. i < Len(s) \/ i = Len(s)
          OBVIOUS
      <2> QED BY <1>3, <2>1, <2>2, <2>3
    <1> HIDE DEF u
    <1>6. \A i \in 1..Len(u) : u[i] \in new /\ u[i] \in Rows /\ u[i].seq > Last(s).seq
        BY <1>2 DEF ToSet
    <1>7. /\ t \in Seq(Rows) /\ Len(t) = Len(s) + Len(u) /\ Len(s) \in Nat /\ Len(u) \in Nat
          /\ \A i \in 1..Len(t) : t[i] = IF i <= Len(s) THEN s[i] ELSE u[i - Len(s)]
        BY <1>2
    <1>8. \A i \in 1..Len(t) : \/ i \in 1..Len(s) /\ t[i] = s[i]
                               \/ i > Len(s) /\ i - Len(s) \in 1..Len(u) /\ t[i] = u[i - Len(s)]
        BY <1>7
    <1>9. \A i \in 1..Len(s) : i \in 1..Len(t) /\ t[i] = s[i]
        BY <1>7
    <1>10. \A i \in 1..Len(u) : Len(s) + i \in 1..Len(t) /\ t[Len(s) + i] = u[i]
      <2> SUFFICES ASSUME NEW i \in 1..Len(u)
                   PROVE  Len(s) + i \in 1..Len(t) /\ t[Len(s) + i] = u[i]
          OBVIOUS
      <2>1. Len(s) + i \in 1..Len(t) /\ ~(Len(s) + i <= Len(s)) /\ (Len(s) + i) - Len(s) = i
          BY <1>7
      <2> QED BY <1>7, <2>1
    <1> HIDE DEF t
    <1>11. ToSet(t) = ToSet(s) \cup new
      <2>1. ToSet(t) \subseteq ToSet(s) \cup ToSet(u)
        <3>1. \A x \in ToSet(t) : \E i \in 1..Len(t) : x = t[i]
            BY <1>7 DEF ToSet
        <3>2. \A i \in 1..Len(s) : s[i] \in ToSet(s)
            BY DEF ToSet
        <3>3. \A i \in 1..Len(u) : u[i] \in ToSet(u)
            BY <1>2 DEF ToSet
        <3> QED BY <1>8, <3>1, <3>2, <3>3
      <2>2. ToSet(s) \subseteq ToSet(t)
          BY <1>7, <1>9 DEF ToSet
      <2>3. ToSet(u) \subseteq ToSet(t)
        <3>1. \A x \in ToSet(u) : \E i \in 1..Len(u) : x = u[i]
            BY <1>2 DEF ToSet
        <3>2. \A i \in 1..Len(t) : t[i] \in ToSet(t)
            BY <1>7 DEF ToSet
        <3> QED BY <1>10, <3>1, <3>2
      <2> QED BY <1>2, <2>1, <2>2, <2>3
    <1>12. Increasing(t)
      <2> SUFFICES ASSUME NEW i \in 1..Len(t), NEW j \in 1..Len(t), i < j
                   PROVE  t[i].seq < t[j].seq
          BY DEF Increasing
      <2>1. CASE j \in 1..Len(s)
        <3>1. i \in 1..Len(s)
            BY <1>7, <2>1
        <3> QED BY <1>9, <2>1, <3>1 DEF Increasing
      <2>2. CASE i \in 1..Len(s) /\ j \notin 1..Len(s)
        <3>1. t[i] = s[i] /\ s[i].seq \in Nat /\ s[i].seq <= Last(s).seq
            BY <1>4, <1>5, <1>9, <2>2
        <3>2. t[j].seq > Last(s).seq /\ t[j].seq \in Nat
            BY <1>4, <1>6, <1>8, <2>2
        <3> QED BY <1>3, <1>4, <3>1, <3>2
      <2>3. CASE i \notin 1..Len(s)
        <3>1. /\ i - Len(s) \in 1..Len(u) /\ t[i] = u[i - Len(s)]
              /\ j - Len(s) \in 1..Len(u) /\ t[j] = u[j - Len(s)]
              /\ i - Len(s) < j - Len(s)
          <4>1. j \notin 1..Len(s)
              BY <1>7, <2>3
          <4>2. /\ i - Len(s) \in 1..Len(u) /\ j - Len(s) \in 1..Len(u) /\ i - Len(s) < j - Len(s)
              BY <1>7, <2>3, <4>1
          <4>3. t[i] = u[i - Len(s)] /\ t[j] = u[j - Len(s)]
              BY <1>8, <2>3, <4>1
          <4> QED BY <4>2, <4>3
        <3> QED BY <1>2, <3>1 DEF Increasing
      <2> QED BY <2>1, <2>2, <2>3
    <1>13. ASSUME Settling(t)
           PROVE  ToSet(t) \subseteq table /\ \A m \in table : cursor <= m.seq => m \in ToSet(t)
      <2>1. Settling(s)
          BY <1>9, <1>13 DEF Settling
      <2>2. /\ ToSet(s) \subseteq table
            /\ \A m \in table : cursor <= m.seq /\ m.seq <= Last(s).seq => m \in ToSet(s)
          BY <2>1 DEF Whole
      <2>3. ASSUME NEW m \in table, cursor <= m.seq
            PROVE  m \in ToSet(t)
        <3>1. m.seq \in Nat /\ Last(s).seq \in Nat
            BY <1>3, <1>4 DEF Numbered
        <3>2. m.seq <= Last(s).seq \/ m.seq > Last(s).seq
            BY <3>1
        <3> QED BY <1>11, <2>2, <2>3, <3>2
      <2> QED BY <1>11, <2>2, <2>3
    <1>14. Whole(t) /\ ~Misses(t)
        BY <1>13 DEF Whole, Misses, Unsummarized
    <1> QED BY <1>7, <1>12, <1>14 DEF t, u

\* Whatever a request finds in the cache, its history is in order and misses nothing.
LEMMA Loading ==
    ASSUME HistoryInv, Load
    PROVE  HistoryInv'
    <1>1. /\ Numbered(table) /\ cursor \in Nat /\ (cache = Cold \/ cache = Entry(cache.msgs))
          /\ cache.msgs \in Seq(Rows) /\ Increasing(cache.msgs) /\ Whole(cache.msgs)
        BY DEF HistoryInv, TableInv, CacheInv
    <1>2. PICK s \in Seq(Rows) : /\ Refreshed = Entry(s) /\ Increasing(s) /\ Whole(s) /\ ~Misses(s)
      <2>1. CASE ~cache.warm
        <3>1. Refreshed = Entry(Ordered(Unsummarized))
            BY <2>1 DEF Refreshed
        <3> QED BY <1>1, <3>1, LoadsAll
      <2>2. CASE cache.warm /\ cache.max # None
        <3> DEFINE s == cache.msgs
        <3>1. s # <<>> /\ cache.max = Last(s).seq
            BY <1>1, <2>2 DEF Entry, Cold, None
        <3>2. Refreshed = Entry(s \o Ordered({m \in table : m.seq > Last(s).seq}))
            BY <2>2, <3>1 DEF Refreshed, Appended
        <3> QED BY <1>1, <3>1, <3>2, Extends
      <2>3. CASE cache.warm /\ cache.max = None
        <3>1. cache = Entry(cache.msgs)
            BY <1>1, <2>3 DEF Cold
        <3>2. cache.msgs = <<>>
          <4>1. SUFFICES ASSUME cache.msgs # <<>> PROVE FALSE
              OBVIOUS
          <4>2. cache.max = Last(cache.msgs).seq
              BY <3>1, <4>1 DEF Entry
          <4>3. Last(cache.msgs) \in Rows
              BY <1>1, <4>1 DEF Last
          <4> QED BY <2>3, <4>2, <4>3, RowFacts
        <3>3. Refreshed = Entry(cache.msgs)
            BY <2>3, <3>1 DEF Refreshed
        <3> QED BY <1>1, <3>2, <3>3 DEF Misses
      <2> QED BY <1>1, <2>1, <2>2, <2>3 DEF Cold, Entry
    <1>3. /\ cache' = Entry(s) /\ got' = s /\ due' = Unsummarized
          /\ UNCHANGED <<table, cursor, run, own>>
        BY <1>2 DEF Load, Entry, writeVars
    <1>4. cache'.msgs = s /\ cache' = Entry(cache'.msgs)
        BY <1>3 DEF Entry
    <1>5. Whole(s)'
        BY <1>2, <1>3 DEF Whole
    <1>6. CacheInv'
        BY <1>2, <1>4, <1>5 DEF CacheInv, Whole
    <1>7. AnswerInv'
        BY <1>2, <1>3 DEF AnswerInv, HistoryInOrder, RefreshMissesNothing, Increasing, Misses,
           Settling
    <1>8. TableInv'
        BY <1>3 DEF HistoryInv, TableInv, OwnRow
    <1> QED BY <1>6, <1>7, <1>8 DEF HistoryInv

\* An empty cache is in order.
LEMMA ColdCache == Cold.msgs = <<>> /\ Whole(<<>>) /\ Increasing(<<>>) /\ <<>> \in Seq(Rows)
    BY DEF Cold, Whole, Increasing

\* No step disturbs the invariant of the history.
LEMMA HistStep ==
    ASSUME HistoryInv, [HistNext]_histVars
    PROVE  HistoryInv'
    <1>1. /\ TableInv /\ Numbered(table) /\ OwnRow /\ own \in Nat
          /\ run \in {"none", "started", "working", "answered"}
          /\ table \subseteq Rows /\ \A a, b \in table : a.seq = b.seq => a = b
        BY DEF HistoryInv, TableInv, Numbered
    <1>2. ASSUME UNCHANGED readVars, UNCHANGED <<table, cursor>>, OwnRow', own' \in Nat,
                 run' \in {"none", "started", "working", "answered"}
          PROVE  HistoryInv'
      <2>1. TableInv'
          BY <1>1, <1>2 DEF HistoryInv, TableInv, Numbered
      <2>2. cursor <= cursor'
          BY <1>2 DEF HistoryInv, TableInv
      <2> QED BY <1>2, <2>1, <2>2, TurnKeeps DEF readVars
    <1>3. ASSUME UNCHANGED readVars, UNCHANGED cursor, NEW k \in Kind, NextSeq <= MaxSeq,
                 table' = Insert(k), OwnRow', own' \in Nat,
                 run' \in {"none", "started", "working", "answered"}
          PROVE  HistoryInv'
      <2>1. /\ Numbered(table') /\ table' = table \cup {Msg(NextSeq, k)}
            /\ \A m \in table : m.seq < Msg(NextSeq, k).seq
          BY <1>1, <1>3, Inserting, RowFacts
      <2>2. TableInv'
          BY <1>1, <1>3, <2>1 DEF HistoryInv, TableInv, Numbered
      <2>3. cursor <= cursor'
          BY <1>3 DEF HistoryInv, TableInv
      <2>4. \A m \in table : m \in table'
          BY <2>1
      <2>5. \A m \in table' \ table : \A r \in table : r.seq < m.seq
          BY <2>1
      <2> QED BY <1>3, <2>2, <2>3, <2>4, <2>5, TurnKeeps DEF readVars
    <1>4. CASE Load
        BY <1>4, Loading
    <1>5. CASE Expire \/ Restart
      <2>1. /\ cache' = Cold /\ UNCHANGED <<table, cursor, got, due>> /\ TableInv'
          BY <1>5 DEF Expire, Restart, writeVars, HistoryInv, TableInv, OwnRow, None
      <2>2. CacheInv'
          BY <2>1, ColdCache DEF CacheInv, Whole
      <2> QED BY <2>1, <2>2
          DEF HistoryInv, AnswerInv, HistoryInOrder, RefreshMissesNothing
    <1>6. CASE Ask
      <2>1. table \subseteq table'
          BY <1>6 DEF Ask, Insert
      <2>2. OwnRow' /\ own' = own /\ run' \in {"none", "started", "working", "answered"}
          BY <1>1, <1>6, <2>1 DEF Ask, OwnRow
      <2> QED BY <1>1, <1>3, <1>6, <2>2 DEF Ask, Kind
    <1>7. CASE Resume \/ Join \/ GiveUp
        BY <1>1, <1>2, <1>7 DEF Resume, Join, GiveUp, OwnRow
    <1>8. CASE CacheHit
      <2>1. OwnRow' /\ own' = own /\ run' = "none"
          BY <1>1, <1>8 DEF CacheHit, OwnRow
      <2> QED BY <1>1, <1>3, <1>8, <2>1 DEF CacheHit, Kind
    <1>9. CASE Precreate
      <2>1. /\ own' = NextSeq /\ NextSeq \in Nat /\ run' = "working"
            /\ Msg(NextSeq, "partial") \in table'
          BY <1>1, <1>9, Inserting DEF Precreate, Insert, Kind
      <2>2. OwnRow'
          BY <2>1 DEF OwnRow
      <2> QED BY <1>3, <1>9, <2>1, <2>2 DEF Precreate, Kind
    <1>10. CASE Flush
        BY <1>1, <1>3, <1>10 DEF Flush, OwnRow, Kind
    <1>11. CASE StoreAnswer
      <2>1. run' = "answered" /\ own' = own /\ OwnRow' /\ UNCHANGED readVars /\ cursor' = cursor
          BY <1>11 DEF StoreAnswer, OwnRow
      <2>2. CASE own = None
          BY <1>1, <1>3, <1>11, <2>1, <2>2 DEF StoreAnswer, Kind
      <2>3. CASE own # None
        <3>1. /\ Msg(own, "partial") \in table
              /\ table' = {m \in table : m.seq # own} \cup {Msg(own, "answer")}
            BY <1>1, <1>11, <2>3 DEF StoreAnswer, OwnRow
        <3>2. own \in 1..MaxSeq
            BY <1>1, <3>1, RowFacts
        <3>3. Msg(own, "answer") \in Rows /\ Msg(own, "answer").seq = own
            BY <3>2, RowFacts DEF Kind
        <3>4. Numbered(table')
            BY <1>1, <3>1, <3>3 DEF Numbered
        <3>5. TableInv' /\ cursor <= cursor'
            BY <1>1, <2>1, <3>4 DEF HistoryInv, TableInv
        <3>6. \A m \in table : m.kind # "partial" => m \in table'
            BY <1>1, <3>1, RowFacts
        <3>7. \A m \in table' \ table : \E r \in table : r.seq = m.seq /\ r.kind = "partial"
            BY <3>1, <3>3, RowFacts
        <3> QED BY <2>1, <3>5, <3>6, <3>7, TurnKeeps DEF readVars
      <2> QED BY <2>2, <2>3
    <1>12. CASE EndTurn \/ Interrupt
      <2>1. /\ table' = table \ Partial /\ run' = "none" /\ own' = None /\ cursor' = cursor
            /\ UNCHANGED readVars
          BY <1>12 DEF EndTurn, Interrupt
      <2>2. Numbered(table')
          BY <1>1, <2>1, NumberedRows
      <2>3. TableInv' /\ cursor <= cursor'
          BY <2>1, <2>2 DEF HistoryInv, TableInv, OwnRow, None
      <2> QED BY <2>1, <2>3, TurnKeeps DEF readVars, Partial
    <1>13. CASE Fail
      <2>1. /\ run' = "none" /\ own' = None /\ cursor' = cursor /\ UNCHANGED readVars
            /\ table' = {m \in table : m.seq # own}
                         \cup {Msg(m.seq, "error") : m \in {r \in table : r.seq = own}}
          BY <1>13 DEF Fail
      <2>2. CASE own = None
        <3>1. \A m \in table : m.seq # own
            BY <1>1, <2>2, RowFacts
        <3>2. table' = table
            BY <2>1, <3>1
        <3> QED BY <1>2, <2>1, <3>2 DEF OwnRow, None
      <2>3. CASE own # None
        <3>1. Msg(own, "partial") \in table
            BY <1>1, <1>13, <2>3 DEF Fail, OwnRow
        <3>2. own \in 1..MaxSeq /\ Msg(own, "partial").seq = own
            BY <1>1, <3>1, RowFacts
        <3>3. {Msg(m.seq, "error") : m \in {r \in table : r.seq = own}} = {Msg(own, "error")}
            BY <3>1, <3>2
        <3>4. table' = {m \in table : m.seq # own} \cup {Msg(own, "error")}
            BY <2>1, <3>3
        <3>5. Msg(own, "error") \in Rows /\ Msg(own, "error").seq = own
            BY <3>2, RowFacts DEF Kind
        <3>6. Numbered(table')
            BY <1>1, <3>4, <3>5 DEF Numbered
        <3>7. TableInv' /\ cursor <= cursor'
            BY <1>1, <2>1, <3>6 DEF HistoryInv, TableInv, OwnRow, None
        <3>8. \A m \in table : m.kind # "partial" => m \in table'
            BY <1>1, <3>1, <3>2, <3>4, RowFacts
        <3>9. \A m \in table' \ table : \E r \in table : r.seq = m.seq /\ r.kind = "partial"
            BY <3>1, <3>4, <3>5, RowFacts
        <3> QED BY <2>1, <3>7, <3>8, <3>9, TurnKeeps DEF readVars
      <2> QED BY <2>2, <2>3
    <1>14. CASE Fold
      <2>1. PICK m \in table : m.seq > cursor /\ cursor' = m.seq
          BY <1>14 DEF Fold
      <2>2. m.seq \in Nat /\ cursor \in Nat
          BY <1>1, RowFacts DEF TableInv
      <2>3. UNCHANGED <<table, run, own>> /\ UNCHANGED readVars
          BY <1>14 DEF Fold
      <2>4. TableInv' /\ cursor <= cursor'
          BY <1>1, <2>1, <2>2, <2>3 DEF TableInv, OwnRow
      <2> QED BY <2>3, <2>4, TurnKeeps DEF readVars
    <1>15. CASE UNCHANGED histVars
        BY <1>1, <1>2, <1>15 DEF histVars, readVars, OwnRow
    <1> QED BY <1>4, <1>5, <1>6, <1>7, <1>8, <1>9, <1>10, <1>11, <1>12, <1>13, <1>14, <1>15 DEF
            HistNext

\* It holds at the start.
LEMMA HistStarts == HistInit => HistoryInv
    <1> SUFFICES ASSUME HistInit PROVE HistoryInv
        OBVIOUS
    <1>1. TableInv
        BY DEF HistInit, TableInv, Numbered, OwnRow, None
    <1>2. CacheInv
        BY ColdCache DEF HistInit, CacheInv
    <1>3. AnswerInv
        BY DEF HistInit, AnswerInv, HistoryInOrder, RefreshMissesNothing
    <1> QED BY <1>1, <1>2, <1>3 DEF HistoryInv

\* It holds always.
LEMMA HistInvariance == HistSpec => []HistoryInv
    BY HistStarts, HistStep, PTL DEF HistSpec

(* The history a request gets is in order and shows no message twice,      *)
(* though rows are deleted, their numbers are given out again, and a warm  *)
(* cache is refreshed by number only.                                      *)
THEOREM HistoriesAreInOrder == HistSpec => []HistoryInOrder
    BY HistInvariance, PTL DEF HistoryInv, AnswerInv

(* A history that is not empty and caught no half-written row misses no    *)
(* settled message after the cursor, for any numbers, losses and orders.   *)
THEOREM RefreshesMissNothing == HistSpec => []RefreshMissesNothing
    BY HistInvariance, PTL DEF HistoryInv, AnswerInv

-----------------------------------------------------------------------------
(* Fitting a request: sums. *)

SumStep(f, sum, i) == IF i = 0 THEN 0 ELSE sum[i - 1] + f[i]

Sums(f, n, sum) == sum = [i \in 0..n |-> SumStep(f, sum, i)]

\* There is a table of the sums of the first terms.
LEMMA SumIsDefined ==
    ASSUME NEW f, NEW N \in Nat
    PROVE  \E sum : Sums(f, N, sum)
    <1> DEFINE T == {n \in Nat : \E sum : Sums(f, n, sum)}
    <1>1. 0 \in T
      <2>1. Sums(f, 0, [i \in 0..0 |-> 0])
          BY DEF Sums, SumStep
      <2> QED BY <2>1
    <1>2. ASSUME NEW n \in Nat, n \in T PROVE n + 1 \in T
      <2>1. PICK F : Sums(f, n, F)
          BY <1>2
      <2> DEFINE G == [i \in 0..(n + 1) |-> IF i = n + 1 THEN SumStep(f, F, n + 1) ELSE F[i]]
      <2>2. ASSUME NEW i \in 0..(n + 1) PROVE G[i] = SumStep(f, G, i)
        <3>1. CASE i = n + 1
            BY <3>1 DEF SumStep
        <3>2. CASE i # n + 1
          <4>1. i \in 0..n /\ G[i] = F[i] /\ F[i] = SumStep(f, F, i)
              BY <2>1, <3>2 DEF Sums
          <4>2. i # 0 => G[i - 1] = F[i - 1]
              BY <4>1
          <4> QED BY <4>1, <4>2 DEF SumStep
        <3> QED BY <3>1, <3>2
      <2>3. G = [i \in 0..(n + 1) |-> G[i]]
          OBVIOUS
      <2> HIDE DEF G
      <2>4. Sums(f, n + 1, G)
          BY <2>2, <2>3 DEF Sums
      <2> QED BY <2>4
    <1> HIDE DEF T
    <1>3. Nat \subseteq T
        BY <1>1, <1>2, EveryNumber
    <1> QED BY <1>3 DEF T

\* Two tables of sums agree where both are defined.
LEMMA SumsAgree ==
    ASSUME NEW f, NEW m \in Nat, NEW n \in Nat, m <= n, NEW F, Sums(f, m, F), NEW G, Sums(f, n, G)
    PROVE  \A i \in 0..m : F[i] = G[i]
    <1> DEFINE T == {i \in Nat : i <= m => F[i] = G[i]}
    <1>1. 0 \in T
        BY DEF Sums, SumStep
    <1>2. ASSUME NEW i \in Nat, i \in T PROVE i + 1 \in T
      <2>1. CASE i + 1 <= m
        <3>1. F[i] = G[i] /\ i + 1 \in 0..m /\ i + 1 \in 0..n /\ i + 1 # 0 /\ (i + 1) - 1 = i
            BY <1>2, <2>1
        <3>2. F[i + 1] = SumStep(f, F, i + 1) /\ G[i + 1] = SumStep(f, G, i + 1)
            BY <3>1 DEF Sums
        <3>3. F[i + 1] = G[i + 1]
            BY <3>1, <3>2 DEF SumStep
        <3> QED BY <3>3
      <2> QED BY <2>1
    <1> HIDE DEF T
    <1>3. Nat \subseteq T
        BY <1>1, <1>2, EveryNumber
    <1> QED BY <1>3 DEF T

\* A sum grows by its next term.
LEMMA SumGrows ==
    ASSUME NEW f
    PROVE  /\ SumTo(f, 0) = 0
           /\ \A n \in Nat : SumTo(f, n + 1) = SumTo(f, n) + f[n + 1]
    <1> DEFINE upto(n) == CHOOSE sum : Sums(f, n, sum)
    <1>1. \A n \in Nat : Sums(f, n, upto(n))
        BY SumIsDefined
    <1>2. \A n \in Nat : SumTo(f, n) = upto(n)[n]
        BY DEF SumTo, Sums, SumStep
    <1> HIDE DEF upto
    <1>3. SumTo(f, 0) = 0
        BY <1>1, <1>2 DEF Sums, SumStep
    <1>4. ASSUME NEW n \in Nat
          PROVE  SumTo(f, n + 1) = SumTo(f, n) + f[n + 1]
      <2>1. upto(n + 1)[n + 1] = SumStep(f, upto(n + 1), n + 1)
          BY <1>1 DEF Sums
      <2>2. upto(n + 1)[n + 1] = upto(n + 1)[n] + f[n + 1]
          BY <2>1 DEF SumStep
      <2>3. upto(n)[n] = upto(n + 1)[n]
          BY <1>1, SumsAgree
      <2> QED BY <1>2, <2>2, <2>3
    <1> QED BY <1>3, <1>4

\* The sums of numbers are numbers, and never shrink.
LEMMA SumsOfNumbers ==
    ASSUME NEW N \in Nat, NEW f, \A i \in 1..N : f[i] \in Nat
    PROVE  /\ \A n \in 0..N : SumTo(f, n) \in Nat
           /\ \A m, n \in 0..N : m <= n => SumTo(f, m) <= SumTo(f, n)
    <1> DEFINE T == {n \in Nat : n <= N => SumTo(f, n) \in Nat}
    <1>1. 0 \in T
        BY SumGrows
    <1>2. ASSUME NEW n \in Nat, n \in T PROVE n + 1 \in T
        BY <1>2, SumGrows
    <1> HIDE DEF T
    <1>3. Nat \subseteq T
        BY <1>1, <1>2, EveryNumber
    <1>4. \A n \in 0..N : SumTo(f, n) \in Nat
        BY <1>3 DEF T
    <1>5. ASSUME NEW m \in 0..N
          PROVE  \A n \in 0..N : m <= n => SumTo(f, m) <= SumTo(f, n)
      <2> DEFINE U == {d \in Nat : m + d <= N => SumTo(f, m) <= SumTo(f, m + d)}
      <2>1. 0 \in U
          BY <1>4
      <2>2. ASSUME NEW d \in Nat, d \in U PROVE d + 1 \in U
        <3>1. CASE m + d + 1 <= N
          <4>1. /\ SumTo(f, m) <= SumTo(f, m + d) /\ m + d \in 0..N /\ m + d \in Nat
                /\ m + d + 1 \in 1..N
              BY <2>2, <3>1
          <4>2. SumTo(f, m + d + 1) = SumTo(f, m + d) + f[m + d + 1]
              BY <4>1, SumGrows
          <4>3. SumTo(f, m + d) \in Nat /\ SumTo(f, m) \in Nat /\ f[m + d + 1] \in Nat
              BY <1>4, <4>1
          <4>4. SumTo(f, m) <= SumTo(f, m + d + 1)
              BY <4>1, <4>2, <4>3
          <4>5. m + (d + 1) = m + d + 1
              OBVIOUS
          <4> QED BY <4>4, <4>5
        <3>2. CASE ~(m + d + 1 <= N)
            BY <3>2
        <3> QED BY <3>1, <3>2
      <2> HIDE DEF U
      <2>3. Nat \subseteq U
          BY <2>1, <2>2, EveryNumber
      <2>4. ASSUME NEW n \in 0..N, m <= n
            PROVE  SumTo(f, m) <= SumTo(f, n)
        <3>1. n - m \in Nat /\ m + (n - m) = n
            BY <2>4
        <3>2. n - m \in U
            BY <2>3, <3>1
        <3> QED BY <3>1, <3>2 DEF U
      <2> QED BY <2>4
    <1> QED BY <1>4, <1>5

\* Terms that differ by d in one place.
DiffersAt(f, h, n, m, d) == \A i \in 1..n : f[i] \in Int /\ h[i] = IF i = m THEN f[i] + d ELSE f[i]

\* A term that changes changes the sum as much.
LEMMA SumChanges ==
    ASSUME NEW N \in Nat, NEW m \in 1..N, NEW d \in Int, NEW f, NEW h, DiffersAt(f, h, N, m, d)
    PROVE  SumTo(f, N) \in Int /\ SumTo(h, N) = SumTo(f, N) + d
    <1> DEFINE T == {n \in Nat : n <= N =>
                        /\ SumTo(f, n) \in Int
                        /\ SumTo(h, n) = SumTo(f, n) + (IF n >= m THEN d ELSE 0)}
    <1>1. 0 \in T
        BY SumGrows
    <1>2. ASSUME NEW n \in Nat, n \in T PROVE n + 1 \in T
      <2>1. CASE n + 1 <= N
        <3>1. /\ SumTo(f, n) \in Int /\ n + 1 \in 1..N
              /\ SumTo(h, n) = SumTo(f, n) + (IF n >= m THEN d ELSE 0)
            BY <1>2, <2>1
        <3>2. SumTo(f, n + 1) = SumTo(f, n) + f[n + 1] /\ SumTo(h, n + 1) = SumTo(h, n) + h[n + 1]
            BY SumGrows
        <3>3. f[n + 1] \in Int /\ h[n + 1] = IF n + 1 = m THEN f[n + 1] + d ELSE f[n + 1]
            BY <3>1 DEF DiffersAt
        <3>4. SumTo(f, n + 1) \in Int
            BY <3>1, <3>2, <3>3
        <3>5. SumTo(h, n + 1) = SumTo(f, n + 1) + (IF n + 1 >= m THEN d ELSE 0)
            BY <3>1, <3>2, <3>3
        <3> QED BY <3>4, <3>5
      <2>2. CASE ~(n + 1 <= N)
          BY <2>2
      <2> QED BY <2>1, <2>2
    <1> HIDE DEF T
    <1>3. N \in T
        BY <1>1, <1>2, EveryNumber
    <1> QED BY <1>3 DEF T

\* Nothing adds up to nothing.
LEMMA SumOfNothing ==
    ASSUME NEW N \in Nat, NEW f, \A i \in 1..N : f[i] = 0
    PROVE  SumTo(f, N) = 0
    <1> DEFINE T == {n \in Nat : n <= N => SumTo(f, n) = 0}
    <1>1. 0 \in T
        BY SumGrows
    <1>2. ASSUME NEW n \in Nat, n \in T PROVE n + 1 \in T
        BY <1>2, SumGrows
    <1> HIDE DEF T
    <1>3. N \in T
        BY <1>1, <1>2, EveryNumber
    <1> QED BY <1>3 DEF T

-----------------------------------------------------------------------------
(* Places and weights. *)

Unit == [price : Nat, weight : Nat]

\* What a request is made of.
LEMMA RequestFacts ==
    ASSUME request \in Requests
    PROVE  /\ request.window \in Int /\ request.known \in Nat /\ request.prefix \in Nat
           /\ request.schema \in Nat /\ request.known <= request.prefix
           /\ request.known + Query > 1 /\ Query \in Nat
           /\ \A p \in Component : Of(p) \in Seq(Unit) /\ Len(Of(p)) \in Nat
    <1>1. /\ request.window \in Windows /\ request.known \in PrefixCosts
          /\ request.prefix \in PrefixCosts
          /\ request.schema \in SchemaCosts /\ request.known <= request.prefix
          /\ request.parts \in [Component -> Piles]
        BY DEF Requests
    <1>2. \A p \in Component : Of(p) \in Seq(Unit)
        BY <1>1, FitBounds DEF Of, Unit
    <1> QED BY <1>1, <1>2, FitBounds, LenProperties

\* The places of the trimming order.
LEMMA PlaceFacts ==
    ASSUME request \in Requests
    PROVE  /\ \A i \in Place : /\ PartAt(i) \in Component
                               /\ From(i) \in Nat /\ UpTo(i) \in Nat
                               /\ From(i) <= UpTo(i) /\ UpTo(i) <= Len(Of(PartAt(i)))
           /\ \A i \in 1..5 : /\ i \in Place /\ i + 5 \in Place
                              /\ PartAt(i + 5) = PartAt(i) /\ From(i) = 0 /\ From(i + 5) = UpTo(i)
                              /\ UpTo(i + 5) = Len(Of(PartAt(i)))
           /\ \A i, j \in Place : PartAt(i) = PartAt(j) /\ i < j => i \in 1..5 /\ j = i + 5
           /\ \A p \in Component : \E i \in 1..5 : PartAt(i) = p
    <1>1. \A i \in 1..5 : TrimOrder[i] \in Component
        BY DEF TrimOrder, Component
    <1>2. \A i \in Place : PartAt(i) \in Component
        BY <1>1 DEF Place, PartAt
    <1>3. \A p \in Component : DownToFloor(p) \in Nat /\ DownToFloor(p) <= Len(Of(p)) /\ Len(Of(p)) \in Nat
        BY RequestFacts DEF DownToFloor, NotNegative, Floor
    <1>4. ASSUME NEW i \in Place
          PROVE  /\ From(i) \in Nat /\ UpTo(i) \in Nat /\ From(i) <= UpTo(i)
                 /\ UpTo(i) <= Len(Of(PartAt(i)))
        BY <1>2, <1>3 DEF From, UpTo
    <1>5. ASSUME NEW i \in 1..5
          PROVE  /\ i \in Place /\ i + 5 \in Place
                 /\ PartAt(i + 5) = PartAt(i) /\ From(i) = 0 /\ From(i + 5) = UpTo(i)
                 /\ UpTo(i + 5) = Len(Of(PartAt(i)))
      <2>1. PartAt(i + 5) = PartAt(i)
          BY DEF PartAt
      <2> QED BY <2>1 DEF Place, From, UpTo
    <1>6. ASSUME NEW i \in Place, NEW j \in Place, PartAt(i) = PartAt(j), i < j
          PROVE  i \in 1..5 /\ j = i + 5
      <2>1. \A a, b \in 1..5 : TrimOrder[a] = TrimOrder[b] => a = b
          BY DEF TrimOrder
      <2> DEFINE at(k) == IF k <= 5 THEN k ELSE k - 5
      <2>2. at(i) \in 1..5 /\ at(j) \in 1..5 /\ TrimOrder[at(i)] = TrimOrder[at(j)]
          BY <1>6 DEF Place, PartAt
      <2>3. at(i) = at(j)
          BY <2>1, <2>2
      <2> QED BY <2>3, <1>6 DEF Place
    <1>7. ASSUME NEW p \in Component
          PROVE  \E i \in 1..5 : PartAt(i) = p
        BY DEF Component, PartAt, TrimOrder
    <1> QED BY <1>2, <1>4, <1>5, <1>6, <1>7

\* Prices and weights of the first units of a component are numbers that grow with the units.
LEMMA UnitsAdd ==
    ASSUME request \in Requests, NEW p \in Component
    PROVE  /\ \A n \in 0..Len(Of(p)) : WeightOf(p, n) \in Nat /\ PriceOf(p, n) \in Nat
           /\ \A m, n \in 0..Len(Of(p)) : m <= n => WeightOf(p, m) <= WeightOf(p, n)
           /\ Exact => \A n \in Nat : PriceOf(p, n) = WeightOf(p, n)
    <1> DEFINE f == [i \in DOMAIN Of(p) |-> Of(p)[i].weight]
               g == [i \in DOMAIN Of(p) |-> Of(p)[i].price]
    <1>1. Of(p) \in Seq(Unit) /\ Len(Of(p)) \in Nat /\ DOMAIN Of(p) = 1..Len(Of(p))
        BY RequestFacts
    <1>2. \A i \in 1..Len(Of(p)) : f[i] \in Nat /\ g[i] \in Nat
      <2>1. \A i \in 1..Len(Of(p)) : Of(p)[i] \in Unit
          BY <1>1
      <2> QED BY <2>1, <1>1 DEF Unit
    <1>3. /\ \A n \in 0..Len(Of(p)) : SumTo(f, n) \in Nat /\ SumTo(g, n) \in Nat
          /\ \A m, n \in 0..Len(Of(p)) : m <= n => SumTo(f, m) <= SumTo(f, n)
      <2> HIDE DEF f, g
      <2> QED BY <1>1, <1>2, SumsOfNumbers
    <1>4. Exact => f = g
        BY DEF Exact
    <1> QED BY <1>3, <1>4 DEF WeightOf, PriceOf

\* Units dropped of every component, no more than there are.
Drops == {g \in [Component -> Nat] : \A p \in Component : g[p] <= Len(Of(p))}

Kept(g, p) == WeightOf(p, Len(Of(p))) - WeightOf(p, g[p])

\* What a request weighs is a sum over the components.
KeptSum(g) == [i \in 1..5 |-> Kept(g, TrimOrder[i])]

\* The weight of a request is the prefix, the question and what the components keep.
LEMMA WeightIs ==
    ASSUME NEW g
    PROVE  Weight(g) = request.prefix + Query + SumTo(KeptSum(g), 5)
    BY DEF Weight, Kept, KeptSum

\* What a component keeps is a number.
LEMMA KeptFacts ==
    ASSUME request \in Requests, NEW g \in Drops
    PROVE  /\ \A p \in Component : Kept(g, p) \in Nat
           /\ \A i \in 1..5 : TrimOrder[i] \in Component /\ KeptSum(g)[i] = Kept(g, TrimOrder[i])
           /\ Weight(g) \in Int
    <1>1. ASSUME NEW p \in Component
          PROVE  Kept(g, p) \in Nat
      <2>1. Len(Of(p)) \in Nat /\ g[p] \in 0..Len(Of(p)) /\ Len(Of(p)) \in 0..Len(Of(p))
          BY RequestFacts DEF Drops
      <2>2. WeightOf(p, Len(Of(p))) \in Nat /\ WeightOf(p, g[p]) \in Nat
            /\ WeightOf(p, g[p]) <= WeightOf(p, Len(Of(p)))
          BY <2>1, UnitsAdd
      <2> QED BY <2>2 DEF Kept
    <1>2. \A i \in 1..5 : TrimOrder[i] \in Component /\ KeptSum(g)[i] = Kept(g, TrimOrder[i])
        BY DEF TrimOrder, Component, KeptSum
    <1>3. \A i \in 1..5 : KeptSum(g)[i] \in Nat
        BY <1>1, <1>2
    <1>4. SumTo(KeptSum(g), 5) \in Nat
        BY <1>3, SumsOfNumbers
    <1>5. Weight(g) = request.prefix + Query + SumTo(KeptSum(g), 5)
        BY WeightIs
    <1>6. Weight(g) \in Int
        BY <1>4, <1>5, RequestFacts
    <1> QED BY <1>1, <1>2, <1>6

\* A component that gives other units changes the weight by just these.
LEMMA OneGives ==
    ASSUME request \in Requests, NEW g \in Drops, NEW p \in Component, NEW k \in 0..Len(Of(p))
    PROVE  /\ [g EXCEPT ![p] = k] \in Drops
           /\ Weight([g EXCEPT ![p] = k]) = Weight(g) + WeightOf(p, g[p]) - WeightOf(p, k)
    <1> DEFINE h == [g EXCEPT ![p] = k]
               d == WeightOf(p, g[p]) - WeightOf(p, k)
    <1>1. Len(Of(p)) \in Nat /\ g[p] \in 0..Len(Of(p)) /\ Len(Of(p)) \in 0..Len(Of(p))
        BY RequestFacts DEF Drops
    <1>2. h \in Drops
        BY <1>1 DEF Drops
    <1>3. \A q \in Component : q # p => Kept(h, q) = Kept(g, q)
        BY DEF Kept, Drops
    <1>4. WeightOf(p, Len(Of(p))) \in Nat /\ WeightOf(p, g[p]) \in Nat /\ WeightOf(p, k) \in Nat
        BY <1>1, UnitsAdd
    <1>5. h[p] = k
        BY <1>1 DEF Drops
    <1>6. d \in Int /\ Kept(h, p) = Kept(g, p) + d
        BY <1>4, <1>5 DEF Kept
    <1> HIDE DEF h
    <1>7. PICK m \in 1..5 : TrimOrder[m] = p /\ \A i \in 1..5 : TrimOrder[i] = p => i = m
        BY DEF Component, TrimOrder
    <1>8. \A i \in 1..5 : /\ KeptSum(g)[i] \in Int
                          /\ KeptSum(h)[i] = IF i = m THEN KeptSum(g)[i] + d ELSE KeptSum(g)[i]
      <2> HIDE DEF d
      <2>1. /\ \A q \in Component : Kept(g, q) \in Nat
            /\ \A i \in 1..5 : TrimOrder[i] \in Component /\ KeptSum(g)[i] = Kept(g, TrimOrder[i])
            /\ \A i \in 1..5 : KeptSum(h)[i] = Kept(h, TrimOrder[i])
          BY <1>2, KeptFacts
      <2>2. ASSUME NEW i \in 1..5
            PROVE  /\ KeptSum(g)[i] \in Int
                   /\ KeptSum(h)[i] = IF i = m THEN KeptSum(g)[i] + d ELSE KeptSum(g)[i]
        <3>1. KeptSum(g)[i] \in Int
            BY <2>1
        <3>2. CASE i = m
          <4>1. KeptSum(h)[i] = Kept(h, p) /\ KeptSum(g)[i] = Kept(g, p)
              BY <3>2, <2>1, <1>7
          <4> QED BY <3>1, <3>2, <4>1, <1>6
        <3>3. CASE i # m
          <4>1. TrimOrder[i] \in Component /\ TrimOrder[i] # p
              BY <3>3, <2>1, <1>7
          <4>2. KeptSum(h)[i] = KeptSum(g)[i]
              BY <4>1, <2>1, <1>3
          <4> QED BY <3>1, <3>3, <4>2
        <3> QED BY <3>2, <3>3
      <2> QED BY <2>2
    <1>9. SumTo(KeptSum(h), 5) = SumTo(KeptSum(g), 5) + d /\ SumTo(KeptSum(g), 5) \in Int
      <2> DEFINE a == KeptSum(g)
                 b == KeptSum(h)
      <2>1. d \in Int /\ 5 \in Nat /\ m \in 1..5
          BY <1>6
      <2>2. DiffersAt(a, b, 5, m, d)
          BY <1>8 DEF DiffersAt
      <2> HIDE DEF a, b, d
      <2>3. SumTo(a, 5) \in Int /\ SumTo(b, 5) = SumTo(a, 5) + d
          BY <2>1, <2>2, SumChanges
      <2> QED BY <2>3 DEF a, b
    <1>10. Weight(h) = request.prefix + Query + SumTo(KeptSum(h), 5)
           /\ Weight(g) = request.prefix + Query + SumTo(KeptSum(g), 5)
        BY WeightIs
    <1>11. Weight(h) = Weight(g) + d
      <2> HIDE DEF d
      <2> QED BY <1>6, <1>9, <1>10, RequestFacts
    <1>12. Weight(g) \in Int
        BY KeptFacts
    <1> QED BY <1>2, <1>4, <1>11, <1>12 DEF h

\* With everything dropped the prefix and the question are left.
LEMMA NothingKept ==
    ASSUME request \in Requests, NEW g \in Drops, \A p \in Component : g[p] = Len(Of(p))
    PROVE  Weight(g) = request.prefix + Query
    <1>1. \A p \in Component : Kept(g, p) = 0
      <2>1. ASSUME NEW p \in Component PROVE Kept(g, p) = 0
        <3>1. Len(Of(p)) \in 0..Len(Of(p))
            BY RequestFacts
        <3>2. WeightOf(p, Len(Of(p))) \in Nat
            BY <3>1, UnitsAdd
        <3> QED BY <3>2 DEF Kept
      <2> QED BY <2>1
    <1>2. \A i \in 1..5 : KeptSum(g)[i] = 0
        BY <1>1, KeptFacts
    <1>3. SumTo(KeptSum(g), 5) = 0
        BY <1>2, SumOfNothing
    <1> QED BY <1>3, WeightIs, RequestFacts

-----------------------------------------------------------------------------
(* The order of the drops. *)

\* Units of the places up to i are gone; nothing of the places after i is.
FullBefore(g, i) == \A l \in Place : l < i => g[PartAt(l)] >= UpTo(l)
UntouchedAfter(g, i) == \A l \in Place : l > i => g[PartAt(l)] <= From(l)

InOrder(g) == \A j \in Place : g[PartAt(j)] > From(j) => FullBefore(g, j)

\* When prices are weights, the last unit that went had to go.
LastWasNeeded(g) ==
    Exact => \A j \in Place : g[PartAt(j)] > From(j) /\ UntouchedAfter(g, j)
                => Weight([g EXCEPT ![PartAt(j)] = @ - 1]) > Effective

\* Units of the first place that can still give may go.
LEMMA DropsMore ==
    ASSUME request \in Requests, NEW g \in Drops, InOrder(g), NEW i \in Place,
           FullBefore(g, i), UntouchedAfter(g, i), NEW k \in Nat, k > g[PartAt(i)], k <= UpTo(i),
           Exact => Weight([g EXCEPT ![PartAt(i)] = k - 1]) > Effective
    PROVE  LET h == [g EXCEPT ![PartAt(i)] = k]
           IN  /\ h \in Drops
               /\ InOrder(h)
               /\ FullBefore(h, i)
               /\ UntouchedAfter(h, i)
               /\ LastWasNeeded(h)
    <1> DEFINE p == PartAt(i)
               h == [g EXCEPT ![p] = k]
    <1>1. /\ p \in Component /\ From(i) \in Nat /\ UpTo(i) \in Nat /\ UpTo(i) <= Len(Of(p))
          /\ Len(Of(p)) \in Nat
          /\ g[p] \in Nat
        BY PlaceFacts, RequestFacts DEF Drops
    <1>2. h \in Drops
        BY <1>1 DEF Drops
    <1>3. h[p] = k /\ \A q \in Component : (q # p => h[q] = g[q]) /\ h[q] >= g[q] /\ g[q] \in Nat /\ h[q] \in Nat
        BY <1>1 DEF Drops
    <1>4. Weight([h EXCEPT ![p] = @ - 1]) = Weight([g EXCEPT ![p] = k - 1])
      <2>1. [h EXCEPT ![p] = @ - 1] = [g EXCEPT ![p] = k - 1]
          BY <1>1 DEF Drops
      <2> QED BY <2>1
    <1> HIDE DEF h
    <1>5. \A l \in Place : /\ PartAt(l) \in Component /\ From(l) \in Nat /\ UpTo(l) \in Nat
                           /\ l < i /\ PartAt(l) = p => l \in 1..5 /\ i = l + 5 /\ From(i) = UpTo(l) /\ From(l) = 0
                           /\ i < l /\ PartAt(l) = p => l = i + 5 /\ From(l) = UpTo(i)
        BY PlaceFacts
    <1>6. FullBefore(h, i)
        BY <1>3, <1>5 DEF FullBefore
    <1>7. UntouchedAfter(h, i)
        BY <1>1, <1>3, <1>5 DEF UntouchedAfter
    <1>8. h[p] > From(i)
      <2>1. CASE i \in 1..5
        <3>1. From(i) = 0
            BY <2>1, PlaceFacts
        <3> QED BY <3>1, <1>1, <1>3
      <2>2. CASE i \notin 1..5
        <3>1. PICK m \in 1..5 : i = m + 5
          <4>1. i - 5 \in 1..5 /\ i = (i - 5) + 5
              BY <2>2 DEF Place
          <4> QED BY <4>1
        <3>2. m \in Place /\ PartAt(m + 5) = PartAt(m) /\ From(m + 5) = UpTo(m)
            BY PlaceFacts
        <3>4. m < i
            BY <3>1
        <3>3. g[p] >= From(i)
            BY <3>1, <3>2, <3>4 DEF FullBefore
        <3> QED BY <3>3, <1>1, <1>3
      <2> QED BY <2>1, <2>2
    <1>9. ASSUME NEW j \in Place, h[PartAt(j)] > From(j)
          PROVE  FullBefore(h, j)
      <2>1. CASE j = i
          BY <2>1, <1>6
      <2>2. CASE j > i
          BY <2>2, <1>3, <1>5, <1>7, <1>9 DEF UntouchedAfter
      <2>3. CASE j < i
          BY <2>3, <1>6 DEF FullBefore, Place
      <2> QED BY <2>1, <2>2, <2>3 DEF Place
    <1>10. ASSUME Exact, NEW j \in Place, h[PartAt(j)] > From(j), UntouchedAfter(h, j)
           PROVE  Weight([h EXCEPT ![PartAt(j)] = @ - 1]) > Effective
      <2>1. ~(j > i)
          BY <1>3, <1>5, <1>7, <1>10 DEF UntouchedAfter
      <2>2. ~(j < i)
          BY <1>1, <1>3, <1>8, <1>10 DEF UntouchedAfter
      <2>3. j = i
          BY <2>1, <2>2 DEF Place
      <2> QED BY <2>3, <1>4, <1>10
    <1> QED BY <1>2, <1>6, <1>7, <1>9, <1>10 DEF h, InOrder, LastWasNeeded

\* The loop takes a unit of the first place that is not empty yet.
LEMMA FirstToGive ==
    ASSUME request \in Requests, NEW g \in Drops, InOrder(g), \E p \in Component : g[p] < Len(Of(p))
    PROVE  LET i == Min({l \in Place : g[PartAt(l)] < UpTo(l)})
           IN  i \in Place /\ g[PartAt(i)] < UpTo(i) /\ FullBefore(g, i) /\ UntouchedAfter(g, i)
    <1> DEFINE S == {l \in Place : g[PartAt(l)] < UpTo(l)}
               i == Min(S)
    <1>1. PICK p \in Component : g[p] < Len(Of(p))
        OBVIOUS
    <1>2. PICK m \in 1..5 : PartAt(m) = p
        BY PlaceFacts
    <1>3. m + 5 \in Place /\ PartAt(m + 5) = p /\ UpTo(m + 5) = Len(Of(p))
        BY <1>2, PlaceFacts
    <1>4. m + 5 \in S
        BY <1>1, <1>3
    <1>5. S \subseteq Nat
        BY DEF Place
    <1> HIDE DEF S
    <1>6. \E l \in S : \A n \in S : l <= n
        BY <1>4, <1>5, LeastNumber
    <1>7. i \in S /\ \A n \in S : i <= n
        BY <1>6 DEF Min
    <1> HIDE DEF i
    <1>8. i \in Place /\ g[PartAt(i)] < UpTo(i)
        BY <1>7 DEF S
    <1>9. \A l \in Place : /\ PartAt(l) \in Component /\ UpTo(l) \in Nat /\ From(l) \in Nat
                           /\ g[PartAt(l)] \in Nat
        BY PlaceFacts DEF Drops
    <1>10. FullBefore(g, i)
      <2>1. ASSUME NEW l \in Place, l < i PROVE g[PartAt(l)] >= UpTo(l)
        <3>1. l \notin S
            BY <1>7, <1>8, <2>1 DEF Place
        <3> QED BY <3>1, <1>9 DEF S
      <2> QED BY <2>1 DEF FullBefore
    <1>11. ASSUME NEW l \in Place, l > i PROVE g[PartAt(l)] <= From(l)
      <2>1. ~(g[PartAt(l)] > From(l))
        <3>1. SUFFICES ASSUME g[PartAt(l)] > From(l) PROVE FALSE
            OBVIOUS
        <3>2. g[PartAt(i)] >= UpTo(i)
            BY <3>1, <1>8, <1>11 DEF InOrder, FullBefore
        <3> QED BY <3>2, <1>8, <1>9
      <2> QED BY <2>1, <1>9
    <1> QED BY <1>8, <1>10, <1>11 DEF i, S, UntouchedAfter

-----------------------------------------------------------------------------
(* The plan. *)

PlanStep(plan, i) == IF i = 0 THEN [gone |-> gone, saved |-> 0] ELSE PlanPart(plan[i - 1], i)

Plans(n, plan) == plan = [i \in 0..n |-> PlanStep(plan, i)]

\* There is a table of the scan, place by place.
LEMMA PlanIsDefined ==
    ASSUME NEW N \in Nat
    PROVE  \E plan : Plans(N, plan)
    <1> DEFINE T == {n \in Nat : \E plan : Plans(n, plan)}
    <1>1. 0 \in T
      <2>1. Plans(0, [i \in 0..0 |-> [gone |-> gone, saved |-> 0]])
          BY DEF Plans, PlanStep
      <2> QED BY <2>1
    <1>2. ASSUME NEW n \in Nat, n \in T PROVE n + 1 \in T
      <2>1. PICK F : Plans(n, F)
          BY <1>2
      <2> DEFINE G == [i \in 0..(n + 1) |-> IF i = n + 1 THEN PlanStep(F, n + 1) ELSE F[i]]
      <2>2. ASSUME NEW i \in 0..(n + 1) PROVE G[i] = PlanStep(G, i)
        <3>1. CASE i = n + 1
          <4>1. i # 0 /\ G[i - 1] = F[i - 1] /\ G[i] = PlanStep(F, i)
              BY <3>1
          <4> QED BY <4>1 DEF PlanStep
        <3>2. CASE i # n + 1
          <4>1. i \in 0..n /\ G[i] = F[i] /\ F[i] = PlanStep(F, i)
              BY <2>1, <3>2 DEF Plans
          <4>2. i # 0 => G[i - 1] = F[i - 1]
              BY <4>1
          <4> QED BY <4>1, <4>2 DEF PlanStep
        <3> QED BY <3>1, <3>2
      <2>3. G = [i \in 0..(n + 1) |-> G[i]]
          OBVIOUS
      <2> HIDE DEF G
      <2>4. Plans(n + 1, G)
          BY <2>2, <2>3 DEF Plans
      <2> QED BY <2>4
    <1> HIDE DEF T
    <1>3. Nat \subseteq T
        BY <1>1, <1>2, EveryNumber
    <1> QED BY <1>3 DEF T

\* A scan of the places up to i: it went on as long as its prices did not
\* cover the overflow, and what it saved is what it dropped.
Overflow == Weight(gone) - Effective

Scanned(plan, i) ==
    /\ plan.gone \in Drops
    /\ plan.saved \in Int
    /\ InOrder(plan.gone)
    /\ UntouchedAfter(plan.gone, i)
    /\ plan.saved < Overflow => FullBefore(plan.gone, i + 1)
    /\ Exact => plan.saved = Weight(gone) - Weight(plan.gone)
    /\ LastWasNeeded(plan.gone)

\* The room that is left is a number.
LEMMA EffectiveIsNumber ==
    ASSUME request \in Requests
    PROVE  Effective \in Int
    <1>1. request.window \in Int /\ request.schema \in Nat
        BY RequestFacts, Zenon
    <1> QED BY <1>1 DEF Effective

\* One more place is scanned.
LEMMA OnePlaceScanned ==
    ASSUME request \in Requests, gone \in Drops, NEW i \in Place, NEW plan, Scanned(plan, i - 1)
    PROVE  Scanned(PlanPart(plan, i), i)
    <1> DEFINE p == PartAt(i)
               g == plan.gone
               first == plan.gone[p]
               SavedWith(k) == plan.saved + (PriceOf(p, k) - PriceOf(p, first))
               enough == {k \in first..UpTo(i) : SavedWith(k) >= Weight(gone) - Effective}
               k == IF enough = {} THEN UpTo(i) ELSE Min(enough)
               h == [g EXCEPT ![p] = k]
    <1>1. /\ p \in Component /\ From(i) \in Nat /\ UpTo(i) \in Nat /\ UpTo(i) <= Len(Of(p))
          /\ Len(Of(p)) \in Nat
          /\ From(i) <= UpTo(i)
        BY PlaceFacts, RequestFacts
    <1>2. /\ g \in Drops /\ plan.saved \in Int /\ InOrder(g) /\ UntouchedAfter(g, i - 1)
          /\ LastWasNeeded(g)
          /\ (plan.saved < Overflow => FullBefore(g, i))
      <2>1. (i - 1) + 1 = i
          BY DEF Place
      <2> QED BY <2>1 DEF Scanned
    <1>3. first \in Nat /\ first <= UpTo(i)
      <2>1. g[p] \in Nat
          BY <1>1, <1>2, Zenon DEF Drops
      <2>2. i > i - 1
          BY DEF Place
      <2>3. g[PartAt(i)] <= From(i)
          BY <1>2, <2>2, Zenon DEF UntouchedAfter
      <2> HIDE DEF g, p
      <2> QED BY <2>1, <2>3, <1>1 DEF p, g
    <1>4. UntouchedAfter(g, i)
        BY <1>2 DEF UntouchedAfter, Place
    <1>5. Weight(gone) \in Int /\ Weight(g) \in Int /\ Effective \in Int /\ Overflow \in Int
      <2>1. Weight(gone) \in Int
          BY KeptFacts, Zenon
      <2>2. Weight(g) \in Int
          BY <1>2, KeptFacts, Zenon
      <2>3. Effective \in Int
          BY EffectiveIsNumber, Zenon
      <2> QED BY <2>1, <2>2, <2>3 DEF Overflow
    <1>6. \A n \in first..UpTo(i) : /\ n \in 0..Len(Of(p)) /\ PriceOf(p, n) \in Nat
                                    /\ PriceOf(p, first) \in Nat /\ SavedWith(n) \in Int
      <2>1. \A n \in first..UpTo(i) : n \in 0..Len(Of(p))
          BY <1>1, <1>3
      <2>2. first \in 0..Len(Of(p))
          BY <1>1, <1>3
      <2>3. \A n \in 0..Len(Of(p)) : PriceOf(p, n) \in Nat
          BY <1>1, UnitsAdd
      <2> QED BY <2>1, <2>2, <2>3, <1>2
    <1>7. SavedWith(first) = plan.saved
        BY <1>2, <1>3, <1>6
    <1>8. /\ k \in first..UpTo(i)
          /\ \A n \in first..UpTo(i) : n < k => SavedWith(n) < Overflow
          /\ SavedWith(k) < Overflow => k = UpTo(i)
      <2> HIDE DEF SavedWith
      <2>1. CASE enough = {}
        <3>1. \A n \in first..UpTo(i) : SavedWith(n) < Overflow
            BY <2>1, <1>5, <1>6 DEF Overflow
        <3> QED BY <2>1, <3>1, <1>1, <1>3
      <2>2. CASE enough # {}
        <3>1. enough \subseteq Nat
            BY <1>3
        <3> HIDE DEF enough
        <3>2. \E n \in enough : \A m \in enough : n <= m
            BY <2>2, <3>1, LeastNumber
        <3>3. k \in enough /\ \A m \in enough : k <= m
            BY <2>2, <3>2 DEF Min
        <3> HIDE DEF k
        <3>4. k \in first..UpTo(i) /\ SavedWith(k) >= Overflow
            BY <3>3 DEF enough, Overflow
        <3>5. ASSUME NEW n \in first..UpTo(i), n < k PROVE SavedWith(n) < Overflow
          <4>1. n \notin enough
              BY <3>3, <3>4, <3>5
          <4> QED BY <4>1, <1>5, <1>6 DEF enough, Overflow
        <3> QED BY <3>4, <3>5, <1>5, <1>6
      <2> QED BY <2>1, <2>2
    <1>9. PlanPart(plan, i) = [gone |-> h, saved |-> SavedWith(k)]
        BY DEF PlanPart
    <1> HIDE DEF k, enough
    <1>10. Exact => \A n \in first..UpTo(i) :
                        SavedWith(n) = Weight(gone) - Weight([g EXCEPT ![p] = n])
      <2> SUFFICES ASSUME Exact, NEW n \in first..UpTo(i)
                   PROVE  SavedWith(n) = Weight(gone) - Weight([g EXCEPT ![p] = n])
          OBVIOUS
      <2>1. plan.saved = Weight(gone) - Weight(g)
          BY DEF Scanned
      <2>2. Weight([g EXCEPT ![p] = n]) = Weight(g) + WeightOf(p, first) - WeightOf(p, n)
          BY <1>1, <1>2, <1>6, OneGives
      <2>3. PriceOf(p, n) = WeightOf(p, n) /\ PriceOf(p, first) = WeightOf(p, first)
          BY <1>1, <1>3, <1>6, UnitsAdd
      <2>4. PriceOf(p, n) \in Nat /\ PriceOf(p, first) \in Nat
          BY <1>6
      <2> QED BY <2>1, <2>2, <2>3, <2>4, <1>5
    <1>11. CASE k = first
      <2>1. h = g
          BY <1>11, <1>2 DEF Drops
      <2>2. SavedWith(k) = plan.saved
          BY <1>7, <1>11
      <2> HIDE DEF h, SavedWith
      <2>3. plan.saved < Overflow => FullBefore(g, i + 1)
        <3> SUFFICES ASSUME plan.saved < Overflow PROVE FullBefore(g, i + 1)
            OBVIOUS
        <3>1. first = UpTo(i)
            BY <1>8, <1>11, <2>2
        <3>2. FullBefore(g, i)
            BY <1>2
        <3>3. ASSUME NEW l \in Place, l < i + 1 PROVE g[PartAt(l)] >= UpTo(l)
          <4>1. CASE l = i
              BY <4>1, <3>1, <1>1
          <4>2. CASE l # i
            <5>1. l < i
                BY <3>3, <4>2 DEF Place
            <5> QED BY <5>1, <3>2 DEF FullBefore
          <4> QED BY <4>1, <4>2
        <3> QED BY <3>3 DEF FullBefore
      <2>4. Exact => plan.saved = Weight(gone) - Weight(g)
          BY DEF Scanned
      <2>5. PlanPart(plan, i) = [gone |-> g, saved |-> plan.saved]
          BY <1>9, <2>1, <2>2
      <2> QED BY <2>3, <2>4, <2>5, <1>2, <1>4 DEF Scanned
    <1>12. CASE k # first
      <2>1. k \in Nat /\ k > first /\ k <= UpTo(i)
          BY <1>3, <1>8, <1>12
      <2>2. plan.saved < Overflow
          BY <1>7, <1>8, <2>1, <1>3
      <2>3. FullBefore(g, i)
          BY <1>2, <2>2
      <2>4. Exact => Weight([g EXCEPT ![p] = k - 1]) > Effective
        <3> SUFFICES ASSUME Exact PROVE Weight([g EXCEPT ![p] = k - 1]) > Effective
            OBVIOUS
        <3>1. k - 1 \in first..UpTo(i) /\ k - 1 < k
            BY <2>1, <1>3, <1>1
        <3>2. SavedWith(k - 1) < Overflow
            BY <3>1, <1>8
        <3>3. SavedWith(k - 1) = Weight(gone) - Weight([g EXCEPT ![p] = k - 1])
            BY <3>1, <1>10
        <3>4. Weight([g EXCEPT ![p] = k - 1]) \in Int
          <4>1. [g EXCEPT ![p] = k - 1] \in Drops
              BY <3>1, <1>1, <1>2, <1>6, OneGives
          <4> QED BY <4>1, KeptFacts
        <3> HIDE DEF SavedWith
        <3> QED BY <3>2, <3>3, <3>4, <1>5 DEF Overflow
      <2>5. h \in Drops /\ InOrder(h) /\ FullBefore(h, i) /\ UntouchedAfter(h, i) /\ LastWasNeeded(h)
          BY <2>1, <2>3, <2>4, <1>2, <1>4, DropsMore
      <2>6. h[p] = k
          BY <1>1, <1>2 DEF Drops
      <2>7. SavedWith(k) \in Int
          BY <1>6, <1>8
      <2>8. Exact => SavedWith(k) = Weight(gone) - Weight(h)
          BY <1>8, <1>10
      <2> HIDE DEF h, SavedWith
      <2>9. SavedWith(k) < Overflow => FullBefore(h, i + 1)
        <3> SUFFICES ASSUME SavedWith(k) < Overflow PROVE FullBefore(h, i + 1)
            OBVIOUS
        <3>1. h[p] = UpTo(i)
            BY <1>8, <2>6
        <3>2. ASSUME NEW l \in Place, l < i + 1 PROVE h[PartAt(l)] >= UpTo(l)
          <4>1. CASE l = i
              BY <4>1, <3>1, <1>1
          <4>2. CASE l # i
            <5>1. l < i
                BY <3>2, <4>2 DEF Place
            <5> QED BY <5>1, <2>5 DEF FullBefore
          <4> QED BY <4>1, <4>2
        <3> QED BY <3>2 DEF FullBefore
      <2> QED BY <2>5, <2>7, <2>8, <2>9, <1>9 DEF Scanned
    <1> QED BY <1>11, <1>12

\* The plan is a scan of all places.
LEMMA PlanIsAScan ==
    ASSUME request \in Requests, gone \in Drops, \A p \in Component : gone[p] = 0
    PROVE  Plan \in Drops /\ InOrder(Plan) /\ LastWasNeeded(Plan)
    <1> DEFINE plan == CHOOSE t : Plans(10, t)
    <1>1. Plans(10, plan)
        BY PlanIsDefined
    <1>6. Plan = plan[10].gone
        BY DEF Plan, Plans, PlanStep
    <1> HIDE DEF plan
    <1> DEFINE T == {n \in Nat : n <= 10 => Scanned(plan[n], n)}
    <1>2. 0 \in T
      <2>1. plan[0] = [gone |-> gone, saved |-> 0]
          BY <1>1 DEF Plans, PlanStep
      <2>2. \A i \in Place : PartAt(i) \in Component /\ From(i) \in Nat /\ gone[PartAt(i)] = 0
          BY PlaceFacts
      <2>3. \A i \in Place : ~ (gone[PartAt(i)] > From(i))
          BY <2>2
      <2>4. InOrder(gone) /\ LastWasNeeded(gone) /\ UntouchedAfter(gone, 0)
          BY <2>2, <2>3 DEF InOrder, LastWasNeeded, UntouchedAfter
      <2>5. FullBefore(gone, 0 + 1)
          BY DEF FullBefore, Place
      <2>6. Weight(gone) \in Int
          BY KeptFacts
      <2> QED BY <2>1, <2>4, <2>5, <2>6 DEF Scanned
    <1>3. ASSUME NEW n \in Nat, n \in T PROVE n + 1 \in T
      <2>1. CASE n + 1 <= 10
        <3>1. plan[n + 1] = PlanPart(plan[n], n + 1)
          <4>1. n + 1 \in 0..10 /\ n + 1 # 0 /\ (n + 1) - 1 = n
              BY <2>1
          <4> QED BY <4>1, <1>1 DEF Plans, PlanStep
        <3>2. n + 1 \in Place /\ (n + 1) - 1 = n /\ Scanned(plan[n], n)
            BY <1>3, <2>1 DEF Place
        <3>3. Scanned(plan[n], (n + 1) - 1)
            BY <3>2
        <3>4. Scanned(PlanPart(plan[n], n + 1), n + 1)
            BY <3>2, <3>3, OnePlaceScanned
        <3> QED BY <3>1, <3>4
      <2>2. CASE ~(n + 1 <= 10)
          BY <2>2
      <2> QED BY <2>1, <2>2
    <1> HIDE DEF T
    <1>4. Nat \subseteq T
        BY <1>2, <1>3, EveryNumber
    <1>5. Scanned(plan[10], 10)
        BY <1>4 DEF T
    <1> QED BY <1>5, <1>6 DEF Scanned

-----------------------------------------------------------------------------
(* The invariant. *)

FitTypes == /\ request \in Requests
            /\ gone \in Drops
            /\ stage \in {"gate", "measure", "verify", "trim", "sent"} \cup Refusal

FitInv == /\ FitTypes
          /\ stage \in {"gate", "measure"} => \A p \in Component : gone[p] = 0
          /\ InOrder(gone)
          /\ LastWasNeeded(gone)
          /\ FittedOrHopeless

\* What the invariant says of the drops is what DropsInOrder says.
LEMMA OrderIsKept ==
    ASSUME request \in Requests, gone \in Drops, InOrder(gone), LastWasNeeded(gone)
    PROVE  DropsInOrder
    <1>1. ASSUME NEW j \in Place, Taken(j)
          PROVE  /\ \A i \in 1..(j - 1) : gone[PartAt(i)] >= UpTo(i)
                 /\ Exact /\ (\A i \in Place : i > j => ~Taken(i))
                       => Weight([gone EXCEPT ![PartAt(j)] = @ - 1]) > Effective
      <2>1. gone[PartAt(j)] > From(j)
          BY <1>1 DEF Taken
      <2>2. \A i \in 1..(j - 1) : gone[PartAt(i)] >= UpTo(i)
        <3>1. \A i \in 1..(j - 1) : i \in Place /\ i < j
            BY DEF Place
        <3> QED BY <2>1, <3>1 DEF InOrder, FullBefore
      <2>3. ASSUME Exact, \A i \in Place : i > j => ~Taken(i)
            PROVE  Weight([gone EXCEPT ![PartAt(j)] = @ - 1]) > Effective
        <3>1. \A i \in Place : gone[PartAt(i)] \in Nat /\ From(i) \in Nat
            BY PlaceFacts DEF Drops
        <3>2. UntouchedAfter(gone, j)
            BY <2>3, <3>1 DEF UntouchedAfter, Taken
        <3> QED BY <2>1, <2>3, <3>2 DEF LastWasNeeded
      <2> QED BY <2>2, <2>3
    <1> QED BY <1>1 DEF DropsInOrder

\* Nothing is dropped at the start.
LEMMA FitStarts == FitInit => FitInv
    <1> SUFFICES ASSUME FitInit PROVE FitInv
        OBVIOUS
    <1>1. request \in Requests /\ gone = [p \in Component |-> 0] /\ stage = "gate"
        BY DEF FitInit
    <1>2. gone \in Drops
        BY <1>1, RequestFacts DEF Drops
    <1>3. \A i \in Place : PartAt(i) \in Component /\ From(i) \in Nat /\ gone[PartAt(i)] = 0
        BY <1>1, PlaceFacts
    <1>4. \A i \in Place : ~ (gone[PartAt(i)] > From(i))
        BY <1>3
    <1>5. InOrder(gone) /\ LastWasNeeded(gone)
        BY <1>4 DEF InOrder, LastWasNeeded
    <1> QED BY <1>1, <1>2, <1>5 DEF FitInv, FitTypes, FittedOrHopeless, Refusal

\* No step disturbs the order of the drops, nor what a refusal promises.
LEMMA FitStep == FitInv /\ [FitNext]_fitVars => FitInv'
    <1> SUFFICES ASSUME FitInv, [FitNext]_fitVars PROVE FitInv'
        OBVIOUS
    <1>1. /\ request \in Requests /\ gone \in Drops /\ InOrder(gone) /\ LastWasNeeded(gone)
          /\ FittedOrHopeless
          /\ stage \in {"gate", "measure", "verify", "trim", "sent"} \cup Refusal
          /\ (stage \in {"gate", "measure"} => \A p \in Component : gone[p] = 0)
        BY DEF FitInv, FitTypes
    <1>2. Weight(gone) \in Int /\ Effective \in Int
        BY <1>1, KeptFacts, RequestFacts DEF Effective
    <1>3. ASSUME UNCHANGED request, gone' = gone
          PROVE  /\ Weight(gone)' = Weight(gone) /\ Effective' = Effective
                 /\ InOrder(gone)' /\ LastWasNeeded(gone)'
                 /\ request' \in Requests /\ gone' \in Drops'
      <2>1. InOrder(gone)' <=> InOrder(gone)
          BY <1>3 DEF InOrder, FullBefore, UpTo, From, DownToFloor, Of
      <2>2. LastWasNeeded(gone)' <=> LastWasNeeded(gone)
          BY <1>3 DEF LastWasNeeded, UntouchedAfter, Exact, From, DownToFloor, Of, Weight, WeightOf,
             Effective
      <2>3. Drops' = Drops
          BY <1>3 DEF Drops, Of
      <2>4. Weight(gone)' = Weight(gone) /\ Effective' = Effective
          BY <1>3 DEF Weight, WeightOf, Of, Effective
      <2> QED BY <1>1, <1>3, <2>1, <2>2, <2>3, <2>4
    <1>4. CASE EntryGate
      <2>1. UNCHANGED request /\ gone' = gone /\ stage = "gate" /\ (\A p \in Component : gone[p] = 0)
            /\ stage' = IF request.known > request.window THEN "CONTEXT_PREFIX_TOO_LARGE"
                        ELSE IF request.known + Query > request.window THEN "QUERY_TOO_LONG" ELSE "measure"
          BY <1>1, <1>4 DEF EntryGate
      <2>4. stage' \in {"measure"} \cup Refusal /\ stage' # "sent"
        <3>1. CASE request.known > request.window
            BY <2>1, <3>1 DEF Refusal
        <3>2. CASE ~(request.known > request.window) /\ request.known + Query > request.window
            BY <2>1, <3>2 DEF Refusal
        <3>3. CASE ~(request.known > request.window) /\ ~(request.known + Query > request.window)
            BY <2>1, <3>3 DEF Refusal
        <3> QED BY <3>1, <3>2, <3>3
      <2>2. stage' \in Refusal => request.prefix + Query > Effective
        <3>1. /\ request.window \in Int /\ request.known \in Nat /\ request.prefix \in Nat
              /\ request.schema \in Nat /\ request.known <= request.prefix
              /\ request.known + Query > 1 /\ Query \in Nat
            BY <1>1, RequestFacts
        <3>2. CASE request.known > request.window \/ request.known + Query > request.window
            BY <3>1, <3>2 DEF Effective
        <3>3. CASE ~(request.known > request.window) /\ ~(request.known + Query > request.window)
          <4>1. stage' = "measure"
              BY <2>1, <3>3
          <4> QED BY <4>1 DEF Refusal
        <3> QED BY <3>2, <3>3
      <2>3. FittedOrHopeless'
        <3>2. ~ \E p \in Component : gone[p] > 0
            BY <2>1
        <3> QED BY <2>1, <2>2, <2>4, <3>2, <1>3 DEF FittedOrHopeless
      <2> QED BY <2>1, <2>3, <2>4, <1>3 DEF FitInv, FitTypes
    <1>5. CASE Measure
      <2>1. UNCHANGED request /\ stage = "measure" /\ \A p \in Component : gone[p] = 0
          BY <1>1, <1>5 DEF Measure
      <2>2. CASE Weight(gone) <= Effective
        <3>1. stage' = "sent" /\ gone' = gone
            BY <2>2, <1>5 DEF Measure
        <3>2. FittedOrHopeless'
            BY <2>1, <2>2, <3>1, <1>3 DEF FittedOrHopeless, Refusal
        <3> QED BY <2>1, <3>1, <3>2, <1>3 DEF FitInv, FitTypes
      <2>3. CASE ~(Weight(gone) <= Effective)
        <3>1. stage' = "verify" /\ gone' = Plan
            BY <2>3, <1>5 DEF Measure
        <3>2. Plan \in Drops /\ InOrder(Plan) /\ LastWasNeeded(Plan)
            BY <1>1, <2>1, PlanIsAScan
        <3>3. gone' \in Drops' /\ InOrder(gone)' /\ LastWasNeeded(gone)'
          <4>1. gone' \in Drops /\ InOrder(gone') /\ LastWasNeeded(gone')
              BY <3>1, <3>2
          <4>2. Drops' = Drops
              BY <2>1 DEF Drops, Of
          <4>3. InOrder(gone)' <=> InOrder(gone')
              BY <2>1 DEF InOrder, FullBefore, UpTo, From, DownToFloor, Of
          <4>4. LastWasNeeded(gone)' <=> LastWasNeeded(gone')
              BY <2>1 DEF LastWasNeeded, UntouchedAfter, Exact, From, DownToFloor, Of, Weight,
                 WeightOf, Effective
          <4> QED BY <4>1, <4>2, <4>3, <4>4
        <3>4. FittedOrHopeless'
            BY <3>1 DEF FittedOrHopeless, Refusal
        <3> QED BY <1>1, <2>1, <3>1, <3>3, <3>4 DEF FitInv, FitTypes
      <2> QED BY <2>2, <2>3
    <1>6. CASE Verify
      <2>1. UNCHANGED request /\ gone' = gone /\ stage' = IF Weight(gone) <= Effective THEN "sent" ELSE "trim"
          BY <1>6 DEF Verify
      <2>2. FittedOrHopeless'
          BY <2>1, <1>3 DEF FittedOrHopeless, Refusal
      <2> QED BY <2>1, <2>2, <1>3 DEF FitInv, FitTypes
    <1>7. CASE TrimStep
      <2>1. UNCHANGED request /\ stage = "trim"
          BY <1>7 DEF TrimStep
      <2>2. CASE Weight(gone) <= Effective /\ stage' = "sent" /\ UNCHANGED gone
        <3>1. FittedOrHopeless'
            BY <2>1, <2>2, <1>3 DEF FittedOrHopeless, Refusal
        <3> QED BY <2>1, <2>2, <3>1, <1>3 DEF FitInv, FitTypes
      <2>3. CASE /\ Weight(gone) > Effective /\ \E p \in Component : gone[p] < Len(Of(p))
                 /\ gone' = [gone EXCEPT ![Trimmed] = @ + 1] /\ UNCHANGED stage
        <3> DEFINE i == Min({l \in Place : gone[PartAt(l)] < UpTo(l)})
                   k == gone[PartAt(i)] + 1
        <3>1. /\ i \in Place /\ gone[PartAt(i)] < UpTo(i) /\ FullBefore(gone, i)
              /\ UntouchedAfter(gone, i)
            BY <1>1, <2>3, FirstToGive
        <3>2. Trimmed = PartAt(i)
            BY DEF Trimmed
        <3> HIDE DEF i
        <3>3. PartAt(i) \in Component /\ gone[PartAt(i)] \in Nat /\ UpTo(i) \in Nat
            BY <1>1, <3>1, PlaceFacts DEF Drops
        <3>4. k \in Nat /\ k > gone[PartAt(i)] /\ k <= UpTo(i) /\ k - 1 = gone[PartAt(i)]
            BY <3>1, <3>3
        <3>5. gone' = [gone EXCEPT ![PartAt(i)] = k]
            BY <2>3, <3>2
        <3>6. Exact => Weight([gone EXCEPT ![PartAt(i)] = k - 1]) > Effective
          <4>1. [gone EXCEPT ![PartAt(i)] = k - 1] = gone
              BY <1>1, <3>3, <3>4 DEF Drops
          <4> QED BY <2>3, <4>1
        <3> HIDE DEF k
        <3>7. gone' \in Drops /\ InOrder(gone') /\ LastWasNeeded(gone')
            BY <1>1, <3>1, <3>4, <3>5, <3>6, DropsMore
        <3>8. gone' \in Drops' /\ InOrder(gone)' /\ LastWasNeeded(gone)'
          <4>2. Drops' = Drops
              BY <2>1 DEF Drops, Of
          <4>3. InOrder(gone)' <=> InOrder(gone')
              BY <2>1 DEF InOrder, FullBefore, UpTo, From, DownToFloor, Of
          <4>4. LastWasNeeded(gone)' <=> LastWasNeeded(gone')
              BY <2>1 DEF LastWasNeeded, UntouchedAfter, Exact, From, DownToFloor, Of, Weight,
                 WeightOf, Effective
          <4> QED BY <3>7, <4>2, <4>3, <4>4
        <3>9. FittedOrHopeless'
            BY <2>1, <2>3 DEF FittedOrHopeless, Refusal
        <3> QED BY <1>1, <2>1, <2>3, <3>8, <3>9 DEF FitInv, FitTypes
      <2>4. CASE /\ Weight(gone) > Effective /\ \A p \in Component : gone[p] = Len(Of(p))
                 /\ stage' = IF request.prefix > Effective THEN "CONTEXT_PREFIX_TOO_LARGE" ELSE "QUERY_TOO_LONG"
                 /\ UNCHANGED gone
        <3>1. Weight(gone) = request.prefix + Query
            BY <1>1, <2>4, NothingKept
        <3>2. request.prefix + Query > Effective
            BY <2>4, <3>1
        <3>3. stage' = "QUERY_TOO_LONG" => request.prefix <= Effective
            BY <2>4, <1>1, <1>2, RequestFacts
        <3>4. FittedOrHopeless'
            BY <2>1, <2>4, <3>2, <3>3, <1>3 DEF FittedOrHopeless, Refusal
        <3>5. stage' \in Refusal
            BY <2>4 DEF Refusal
        <3> QED BY <2>1, <2>4, <3>4, <3>5, <1>3 DEF FitInv, FitTypes, Refusal
      <2> QED BY <1>7, <2>2, <2>3, <2>4 DEF TrimStep
    <1>8. CASE UNCHANGED fitVars
      <2>1. UNCHANGED <<request, gone, stage>>
          BY <1>8 DEF fitVars
      <2>2. FittedOrHopeless'
          BY <1>1, <1>3, <2>1 DEF FittedOrHopeless
      <2> QED BY <1>1, <1>3, <2>1, <2>2 DEF FitInv, FitTypes
    <1> QED BY <1>4, <1>5, <1>6, <1>7, <1>8 DEF FitNext

(* A request that is sent fits the window, and one that is refused could   *)
(* not have been made to fit by dropping anything: whatever its parts hold,*)
(* whatever the plan expected.                                             *)
THEOREM RequestsFit == FitSpec => []FittedOrHopeless
    <1>1. FitInv => FittedOrHopeless
        BY DEF FitInv
    <1> QED BY <1>1, FitStarts, FitStep, PTL DEF FitSpec

(* Plan and loop drop together what the loop alone would have dropped: in  *)
(* the trimming order, and nothing that need not go.                       *)
THEOREM TrimmedInOrder == FitSpec => []DropsInOrder
    <1>1. FitInv => DropsInOrder
        BY OrderIsKept DEF FitInv, FitTypes
    <1> QED BY <1>1, FitStarts, FitStep, PTL DEF FitSpec

-----------------------------------------------------------------------------
(* Question to answer.                                                     *)

(* History, graph and fitting behave together as they do alone.            *)
THEOREM AnsweringIsItsParts == AnsweringSpec => HistSpec /\ AgSpec /\ FitSpec
    <1>1. AnsweringInit => HistInit /\ AgInit /\ FitInit
        BY DEF AnsweringInit
    <1>2. [AnsweringNext]_answeringVars => [HistNext]_histVars /\ [AgNext]_agVars /\ [FitNext]_fitVars
        BY DEF AnsweringNext, History, Graph, Fitting, answeringVars
    <1> QED BY <1>1, <1>2, PTL DEF AnsweringSpec, HistSpec, AgSpec, FitSpec

(* So all their invariants hold when they are checked together.            *)
THEOREM AnsweringIsSound ==
    AnsweringSpec => [](/\ HistoryInOrder /\ RefreshMissesNothing /\ RoundsWithinQuota
                        /\ FittedOrHopeless /\ DropsInOrder)
    BY AnsweringIsItsParts, HistoriesAreInOrder, RefreshesMissNothing, RoundsAreGranted, RequestsFit,
       TrimmedInOrder, PTL
=============================================================================
