--------------------------- MODULE RunStream_proofs ---------------------------
(***************************************************************************)
(* Proofs about RunStream for any clients and any number of runs and lines:*)
(* the registry and the producers agree.                                   *)
(***************************************************************************)
EXTENDS RunStream, SequenceTheorems, FiniteSetTheorems, TLAPS

\* The registry holds neither a finished nor an aborted run, and while no run was
\* aborted the producers are what it holds. A run that ends empties the registry
\* whatever it holds: that this is its own entry is the last conjunct, and that
\* closing the streams of an aborted run leaves a registered one open is the second.
RegistryInv ==
    /\ begun \in Nat
    /\ registry \in {NoRun} \cup (1..begun \ (done \cup cancelled))
    /\ done \subseteq 1..begun
    /\ producing \subseteq 1..begun
    /\ cancelled \subseteq 1..begun
    /\ cancelled = {} => producing \subseteq {registry}

\* What clients do with a run that exists leaves the runs alone.
ClientStep(c) == Rejoin(c) \/ Attach(c) \/ Step(c) \/ Leave(c)

\* A client's step leaves the runs alone.
LEMMA ClientsLeaveRuns ==
    ASSUME NEW c \in Client, ClientStep(c)
    PROVE  UNCHANGED runVars
    BY DEF ClientStep, Rejoin, Attach, Step, Open, ReplayLine, Subscribe, Take, Leave

\* Each step keeps the registry in order.
LEMMA RegistryStep ==
    ASSUME RegistryInv, [Next]_vars
    PROVE  RegistryInv'
    <1> USE DEF RegistryInv
    <1>1. ASSUME UNCHANGED runVars
          PROVE  RegistryInv'
        BY <1>1 DEF runVars
    <1>2. ASSUME NEW c \in Client, Start(c)
          PROVE  RegistryInv'
        <2>1. registry = NoRun
            BY <1>2 DEF Start, Joinable
        <2>2. begun' = begun + 1 /\ registry' = begun + 1 /\ begun + 1 \notin done \cup cancelled
            BY <1>2 DEF Start
        <2>3. producing' = producing \cup {begun + 1} /\ UNCHANGED <<done, cancelled>>
            BY <1>2 DEF Start
        <2>4. cancelled = {} => producing = {}
            BY <2>1 DEF NoRun
        <2>5. 1..begun \subseteq 1..(begun + 1) /\ begun + 1 \in 1..(begun + 1)
            OBVIOUS
        <2> QED BY <2>2, <2>3, <2>4, <2>5
    <1>3. ASSUME NEW r \in Run, Emit(r)
          PROVE  RegistryInv'
        BY <1>3 DEF Emit
    <1>4. ASSUME NEW r \in Run, Finish(r)
          PROVE  RegistryInv'
        <2>1. r \in producing /\ registry' = NoRun /\ producing' = producing \ {r}
            BY <1>4 DEF Finish
        <2>2. done' = done \cup {r} /\ UNCHANGED <<begun, cancelled>>
            BY <1>4 DEF Finish
        <2>3. cancelled = {} => producing' = {}
            BY <2>1
        <2> QED BY <2>1, <2>2, <2>3
    <1>5. ASSUME Abort
          PROVE  RegistryInv'
        BY <1>5 DEF Abort, Joinable
    <1>6. ASSUME NEW r \in Run, AbortEnds(r)
          PROVE  RegistryInv'
        <2>1. r \in cancelled /\ done' = done \cup {r}
            BY <1>6 DEF AbortEnds
        <2>2. UNCHANGED <<registry, begun, producing, cancelled>>
            BY <1>6 DEF AbortEnds
        <2> QED BY <2>1, <2>2
    <1>7. ASSUME NEW c \in Client, ClientStep(c)
          PROVE  RegistryInv'
        BY <1>1, <1>7, ClientsLeaveRuns
    <1>8. CASE UNCHANGED vars
        BY <1>1, <1>8 DEF vars, runVars
    <1> QED BY <1>2, <1>3, <1>4, <1>5, <1>6, <1>7, <1>8 DEF Next, ClientStep

\* The registry is empty at first.
LEMMA RegistryInit == Init => RegistryInv
    BY DEF Init, RegistryInv, NoRun

\* The registry is in order in every reachable state.
LEMMA RegistryInvariance == Spec => []RegistryInv
    <1>1. RegistryInv /\ [Next]_vars => RegistryInv'
        BY RegistryStep
    <1> QED BY <1>1, RegistryInit, PTL DEF Spec

\* As long as no run was aborted, a run that works is the one a refreshed page
\* finds in the registry.
THEOREM WorkersAreRegistered == Spec => []WorkingRunIsRegistered
    <1>1. RegistryInv => WorkingRunIsRegistered
        BY DEF RegistryInv, WorkingRunIsRegistered
    <1> QED BY <1>1, RegistryInvariance, PTL

\* As long as no run was aborted, no two producers work on a conversation.
THEOREM ProducersAreAlone == Spec => []OneProducer
    <1>1. ASSUME RegistryInv, cancelled = {}
          PROVE  Cardinality(producing) <= 1
        <2>1. producing \subseteq {registry}
            BY <1>1 DEF RegistryInv
        <2>2. IsFiniteSet({registry}) /\ Cardinality({registry}) = 1
            BY FS_Singleton
        <2>3. Cardinality(producing) <= Cardinality({registry})
            BY <2>1, <2>2, FS_Subset
        <2> QED BY <2>2, <2>3
    <1>2. RegistryInv => OneProducer
        BY <1>1 DEF OneProducer
    <1> QED BY <1>2, RegistryInvariance, PTL

-----------------------------------------------------------------------------
(* Type correctness. *)

\* A fan-out keeps queues queues.
LEMMA FanType ==
    ASSUME NEW r, NEW item \in Item, queue \in [Client -> Seq(Item)]
    PROVE  Fan(r, item) \in [Client -> Seq(Item)]
    BY DEF Fan

\* The runs keep their types, whoever moves.
RunTypes ==
    /\ begun \in 0..MaxRuns
    /\ lines \in [Run -> 0..MaxLines]

\* And so do the clients. One whose request was accepted knows its run, so that it
\* finds a replay list when its stream opens.
ClientTypes ==
    /\ stage \in [Client -> {"away", "accepted", "replay", "live", "over"}]
    /\ watch \in [Client -> {NoRun} \cup Run]
    /\ copied \in [Client -> Item]
    /\ shown \in [Client -> Seq(1..MaxLines)]
    /\ queue \in [Client -> Seq(Item)]
    /\ \A c \in Client : stage[c] = "accepted" => watch[c] \in Run

\* No step spoils the types of the runs,
LEMMA RunTypesStep ==
    ASSUME RunTypes, [Next]_vars
    PROVE  RunTypes'
    <1> USE Bounds DEF RunTypes, Run
    <1>1. ASSUME UNCHANGED runVars
          PROVE  RunTypes'
        BY <1>1 DEF runVars
    <1>2. ASSUME NEW c \in Client, Start(c)
          PROVE  RunTypes'
        BY <1>2 DEF Start
    <1>3. ASSUME NEW r \in Run, Emit(r)
          PROVE  RunTypes'
        BY <1>3 DEF Emit
    <1>4. ASSUME NEW r \in Run, Finish(r) \/ AbortEnds(r)
          PROVE  RunTypes'
        BY <1>4 DEF Finish, AbortEnds
    <1>5. ASSUME Abort
          PROVE  RunTypes'
        BY <1>5 DEF Abort
    <1>6. ASSUME NEW c \in Client, ClientStep(c)
          PROVE  RunTypes'
        BY <1>1, <1>6, ClientsLeaveRuns
    <1>7. CASE UNCHANGED vars
        BY <1>1, <1>7 DEF vars, runVars
    <1> QED BY <1>2, <1>3, <1>4, <1>5, <1>6, <1>7 DEF Next, ClientStep

\* nor those of the clients.
LEMMA ClientTypesStep ==
    ASSUME RegistryInv, RunTypes, ClientTypes, [Next]_vars
    PROVE  ClientTypes'
    <1> USE Bounds DEF ClientTypes, Run, Item
    <1>1. registry \in {NoRun} \cup Run
        BY DEF RegistryInv, RunTypes
    <1>2. ASSUME NEW c \in Client, Start(c)
          PROVE  ClientTypes'
        <2>1. begun + 1 \in Run
            BY <1>2 DEF Start, RunTypes
        <2> QED BY <1>2, <2>1 DEF Start
    <1>3. ASSUME NEW c \in Client, NEW r \in Run, Copy(c, r)
          PROVE  /\ copied' \in [Client -> Item]
                 /\ stage' \in [Client -> {"away", "accepted", "replay", "live", "over"}]
        BY <1>3 DEF Copy, RunTypes
    <1>4. ASSUME NEW c \in Client, Rejoin(c)
          PROVE  ClientTypes'
        <2>1. registry \in Run
            BY <1>1, <1>4 DEF Rejoin, Joinable
        <2>2. Copy(c, registry)
            BY <1>4 DEF Rejoin
        <2>3. stage' = [stage EXCEPT ![c] = IF lines[registry] = 0 THEN "live" ELSE "replay"]
            BY <2>2 DEF Copy
        <2>4. watch' = [watch EXCEPT ![c] = registry] /\ UNCHANGED <<shown, queue>>
            BY <1>4 DEF Rejoin
        <2> QED BY <1>3, <2>1, <2>2, <2>3, <2>4
    <1>5. ASSUME NEW c \in Client, Attach(c)
          PROVE  ClientTypes'
        <2>1. registry \in Run
            BY <1>1, <1>5 DEF Attach, Joinable
        <2> QED BY <1>5, <2>1 DEF Attach
    <1>6. ASSUME NEW c \in Client, Open(c)
          PROVE  ClientTypes'
        <2>1. watch[c] \in Run /\ Copy(c, watch[c])
            BY <1>6 DEF Open
        <2>2. UNCHANGED <<watch, shown, queue>>
            BY <1>6 DEF Open
        <2>3. stage' = [stage EXCEPT ![c] = IF lines[watch[c]] = 0 THEN "live" ELSE "replay"]
            BY <2>1 DEF Copy
        <2> QED BY <1>3, <2>1, <2>2, <2>3
    <1>7. ASSUME NEW c \in Client, ReplayLine(c)
          PROVE  ClientTypes'
        <2>1. Len(shown[c]) + 1 \in 1..MaxLines
            BY <1>7 DEF ReplayLine
        <2>2. Append(shown[c], Len(shown[c]) + 1) \in Seq(1..MaxLines)
            BY <2>1
        <2> QED BY <1>7, <2>2 DEF ReplayLine
    <1>8. ASSUME NEW c \in Client, Subscribe(c)
          PROVE  ClientTypes'
        BY <1>8 DEF Subscribe
    <1>9. ASSUME NEW c \in Client, Take(c)
          PROVE  ClientTypes'
        <2>1. Head(queue[c]) \in Item /\ Tail(queue[c]) \in Seq(Item)
            BY <1>9 DEF Take
        <2>2. queue' \in [Client -> Seq(Item)] /\ UNCHANGED <<watch, copied>>
            BY <1>9, <2>1 DEF Take
        <2>3. CASE Head(queue[c]) = End
            BY <1>9, <2>2, <2>3 DEF Take
        <2>4. CASE Head(queue[c]) # End
            <3>1. Head(queue[c]) \in 1..MaxLines
                BY <2>1, <2>4 DEF End
            <3>2. Append(shown[c], Head(queue[c])) \in Seq(1..MaxLines)
                BY <3>1
            <3> QED BY <1>9, <2>2, <2>4, <3>2 DEF Take
        <2> QED BY <2>3, <2>4
    <1>10. ASSUME NEW c \in Client, Leave(c)
           PROVE  ClientTypes'
        BY <1>10 DEF Leave
    <1>11. ASSUME NEW r \in Run, Emit(r)
           PROVE  ClientTypes'
        <2>1. lines'[r] \in Item
            BY <1>11 DEF Emit, RunTypes
        <2> QED BY <1>11, <2>1, FanType DEF Emit
    <1>12. ASSUME NEW r \in Run, Finish(r) \/ AbortEnds(r)
           PROVE  ClientTypes'
        <2>1. End \in Item
            BY DEF End
        <2> QED BY <1>12, <2>1, FanType DEF Finish, AbortEnds
    <1>13. ASSUME Abort
           PROVE  ClientTypes'
        BY <1>13 DEF Abort, clientVars
    <1>14. CASE UNCHANGED vars
        BY <1>14 DEF vars
    <1> QED BY <1>2, <1>4, <1>5, <1>6, <1>7, <1>8, <1>9, <1>10, <1>11, <1>12, <1>13, <1>14
            DEF Next, Step

\* The type invariant, with what the registry may hold.
THEOREM TypeCorrect == Spec => []TypeOK
    <1> DEFINE Inv == RegistryInv /\ RunTypes /\ ClientTypes
    <1>1. Init => Inv
        <2>1. Init => RunTypes /\ ClientTypes
            BY Bounds DEF Init, RunTypes, ClientTypes, Run, Item, NoRun
        <2> QED BY <2>1, RegistryInit
    <1>2. Inv /\ [Next]_vars => Inv'
        BY RegistryStep, RunTypesStep, ClientTypesStep
    <1>3. Inv => TypeOK
        BY DEF RegistryInv, RunTypes, ClientTypes, TypeOK
    <1> QED BY <1>1, <1>2, <1>3, PTL DEF Spec

-----------------------------------------------------------------------------
(* What clients see. *)

\* The stream of a client: what it was shown and what waits for it, when its run has
\* emitted n lines.
Follows(st, cop, sh, qu, n) ==
    /\ st = "away" => cop = 0
    /\ st \in {"away", "accepted"} => sh = <<>>
    /\ st \in {"away", "accepted", "replay"} => qu = <<>>
    /\ st = "replay" => /\ cop \in 1..n /\ Len(sh) <= cop
                        /\ \A i \in 1..Len(sh) : sh[i] = i
    /\ st = "live" => \A i \in 1..Len(sh \o qu) : (sh \o qu)[i] <= n
    /\ Rising(sh \o qu)
    /\ st = "live" /\ cop = 0 => Reaches(sh \o qu, n)

StreamInv ==
    /\ \A r \in Run : r > begun => lines[r] = 0
    /\ \A c \in Client :
          /\ stage[c] \in {"accepted", "replay", "live"} => watch[c] \in 1..begun
          /\ Follows(stage[c], copied[c], shown[c], queue[c], lines[watch[c]])

\* A client that was shown nothing is in step with its run.
LEMMA NothingFollows ==
    ASSUME NEW n
    PROVE  /\ Follows("away", 0, <<>>, <<>>, n)
           /\ \A cop : Follows("accepted", cop, <<>>, <<>>, n)
           /\ \A cop : n = 0 => Follows("live", cop, <<>>, <<>>, n)
           /\ n \in Nat \ {0} => Follows("replay", n, <<>>, <<>>, n)
    <1>1. <<>> \o <<>> = <<>> /\ Len(<<>>) = 0 /\ 1..0 = {}
        OBVIOUS
    <1> QED BY <1>1 DEF Follows, Rising, Reaches

\* The elements of a stream are those shown and those that wait.
LEMMA Joined ==
    ASSUME NEW sh \in Seq(Nat), NEW qu \in Seq(Nat)
    PROVE  /\ sh \o qu \in Seq(Nat) /\ Len(sh \o qu) = Len(sh) + Len(qu)
           /\ \A i \in 1..Len(sh \o qu) :
                 (sh \o qu)[i] = IF i <= Len(sh) THEN sh[i] ELSE qu[i - Len(sh)]
    OBVIOUS

\* Taking a line moves it from those that wait to those shown.
LEMMA TakesLine ==
    ASSUME NEW sh \in Seq(Nat), NEW qu \in Seq(Nat), qu # <<>>
    PROVE  Append(sh, Head(qu)) \o Tail(qu) = sh \o qu
    <1> DEFINE a == Append(sh, Head(qu)) \o Tail(qu)
               b == sh \o qu
    <1>1. /\ Head(qu) \in Nat /\ Append(sh, Head(qu)) \in Seq(Nat) /\ Tail(qu) \in Seq(Nat)
          /\ Len(Append(sh, Head(qu))) = Len(sh) + 1 /\ Len(Tail(qu)) = Len(qu) - 1
          /\ Len(qu) \in Nat \ {0} /\ Len(sh) \in Nat
        OBVIOUS
    <1>2. /\ a \in Seq(Nat) /\ Len(a) = Len(sh) + Len(qu)
          /\ \A i \in 1..Len(a) : a[i] = IF i <= Len(sh) + 1 THEN Append(sh, Head(qu))[i]
                                                              ELSE Tail(qu)[i - (Len(sh) + 1)]
        BY <1>1, Joined
    <1>3. b \in Seq(Nat) /\ Len(b) = Len(sh) + Len(qu)
        BY Joined
    <1>4. ASSUME NEW i \in 1..Len(a)
          PROVE  a[i] = b[i]
      <2>1. b[i] = IF i <= Len(sh) THEN sh[i] ELSE qu[i - Len(sh)]
          BY <1>2, <1>3, Joined
      <2>2. CASE i <= Len(sh)
          BY <1>1, <1>2, <2>1, <2>2
      <2>3. CASE i = Len(sh) + 1
          BY <1>1, <1>2, <2>1, <2>3
      <2>4. CASE i > Len(sh) + 1
        <3>1. i - (Len(sh) + 1) \in 1..Len(Tail(qu)) /\ ~(i <= Len(sh) + 1) /\ ~(i <= Len(sh))
            BY <1>1, <1>2, <2>4
        <3>2. Tail(qu)[i - (Len(sh) + 1)] = qu[i - (Len(sh) + 1) + 1]
            BY <1>1, <3>1
        <3>3. i - (Len(sh) + 1) + 1 = i - Len(sh)
            BY <1>1, <1>2
        <3> QED BY <1>2, <2>1, <3>1, <3>2, <3>3
      <2> QED BY <1>1, <1>2, <2>2, <2>3, <2>4
    <1> HIDE DEF a, b
    <1>5. a = b
        BY <1>2, <1>3, <1>4, SeqEqual
    <1> QED BY <1>5 DEF a, b

\* Dropping an element leaves the others rising.
LEMMA TakesEnd ==
    ASSUME NEW sh \in Seq(Nat), NEW qu \in Seq(Nat), qu # <<>>, Rising(sh \o qu)
    PROVE  Rising(sh \o Tail(qu))
    <1> DEFINE a == sh \o Tail(qu)
               b == sh \o qu
               pos(i) == IF i <= Len(sh) THEN i ELSE i + 1
    <1>1. /\ Tail(qu) \in Seq(Nat) /\ Len(Tail(qu)) = Len(qu) - 1
          /\ Len(qu) \in Nat \ {0} /\ Len(sh) \in Nat
        OBVIOUS
    <1>2. Len(a) = Len(sh) + Len(qu) - 1 /\ Len(b) = Len(sh) + Len(qu)
        BY <1>1, Joined
    <1>3. ASSUME NEW i \in 1..Len(a)
          PROVE  pos(i) \in 1..Len(b) /\ a[i] = b[pos(i)]
      <2>1. pos(i) \in 1..Len(b)
          BY <1>1, <1>2
      <2>2. a[i] = IF i <= Len(sh) THEN sh[i] ELSE Tail(qu)[i - Len(sh)]
          BY <1>1, Joined
      <2>3. b[pos(i)] = IF pos(i) <= Len(sh) THEN sh[pos(i)] ELSE qu[pos(i) - Len(sh)]
          BY <2>1, Joined
      <2>4. CASE i <= Len(sh)
          BY <2>1, <2>2, <2>3, <2>4
      <2>5. CASE ~(i <= Len(sh))
        <3>1. i - Len(sh) \in 1..Len(Tail(qu)) /\ ~(i + 1 <= Len(sh)) /\ i + 1 - Len(sh) = i - Len(sh) + 1
            BY <1>1, <1>2, <2>5
        <3>2. Tail(qu)[i - Len(sh)] = qu[i - Len(sh) + 1]
            BY <1>1, <3>1
        <3> QED BY <2>1, <2>2, <2>3, <2>5, <3>1, <3>2
      <2> QED BY <2>4, <2>5
    <1>4. ASSUME NEW i \in 1..Len(a), NEW j \in 1..Len(a), i < j
          PROVE  pos(i) < pos(j)
        BY <1>1, <1>2, <1>4
    <1>5. \A i, j \in 1..Len(b) : i < j /\ b[j] # End => b[i] < b[j]
        BY DEF Rising
    <1> HIDE DEF a, b, pos
    <1>6. \A i, j \in 1..Len(a) : i < j /\ a[j] # End => a[i] < a[j]
        BY <1>3, <1>4, <1>5
    <1> QED BY <1>6 DEF Rising, a

\* A subscriber is given the next line of its run, or the end marker.
LEMMA IsGiven ==
    ASSUME NEW sh \in Seq(Nat), NEW qu \in Seq(Nat), NEW x \in Nat, NEW n \in Nat,
           x \in {End, n + 1}, NEW cop, Follows("live", cop, sh, qu, n)
    PROVE  Follows("live", cop, sh, Append(qu, x), IF x = End THEN n ELSE x)
    <1> DEFINE a == sh \o Append(qu, x)
               b == sh \o qu
               m == IF x = End THEN n ELSE x
    <1>1. /\ Append(qu, x) \in Seq(Nat) /\ Len(Append(qu, x)) = Len(qu) + 1
          /\ Len(qu) \in Nat /\ Len(sh) \in Nat
        OBVIOUS
    <1>2. b \in Seq(Nat) /\ Len(a) = Len(b) + 1 /\ Len(b) = Len(sh) + Len(qu)
        BY <1>1, Joined
    <1>3. \A i \in 1..Len(b) : a[i] = b[i] /\ b[i] \in Nat
      <2> SUFFICES ASSUME NEW i \in 1..Len(b) PROVE a[i] = b[i] /\ b[i] \in Nat
          OBVIOUS
      <2>1. /\ a[i] = IF i <= Len(sh) THEN sh[i] ELSE Append(qu, x)[i - Len(sh)]
            /\ b[i] = IF i <= Len(sh) THEN sh[i] ELSE qu[i - Len(sh)]
          BY <1>1, <1>2, Joined
      <2>2. ~(i <= Len(sh)) => i - Len(sh) \in 1..Len(qu)
          BY <1>1, <1>2
      <2> QED BY <1>1, <1>2, <2>1, <2>2
    <1>4. a[Len(b) + 1] = x
      <2>1. a[Len(b) + 1] = Append(qu, x)[Len(b) + 1 - Len(sh)]
          BY <1>1, <1>2, Joined
      <2> QED BY <1>1, <1>2, <2>1
    <1>5. /\ \A i \in 1..Len(b) : b[i] <= n
          /\ \A i, j \in 1..Len(b) : i < j /\ b[j] # End => b[i] < b[j]
          /\ cop = 0 => Reaches(b, n)
        BY DEF Follows, Rising
    <1>9. /\ Len(b) \in Nat /\ m \in Nat /\ n <= m /\ x <= m
          /\ x # End => m = n + 1 /\ x = n + 1
          /\ x = End => m = n
        BY <1>1, <1>2 DEF End
    <1>10. \A k, l \in Nat : k = l + 1 => \A i \in 1..k : i \in 1..l \/ i = l + 1
        OBVIOUS
    <1> HIDE DEF a, b, m
    <1>11. \A i \in 1..Len(a) : i \in 1..Len(b) \/ i = Len(b) + 1
      <2>1. Len(a) \in Nat
          BY <1>2, <1>9
      <2> QED BY <1>2, <1>9, <1>10, <2>1
    <1>6. \A i \in 1..Len(a) : a[i] <= m
      <2> SUFFICES ASSUME NEW i \in 1..Len(a) PROVE a[i] <= m
          OBVIOUS
      <2>1. i \in 1..Len(b) \/ i = Len(b) + 1
          BY <1>11
      <2>2. \A y \in Nat : y <= n => y <= m
          BY <1>9
      <2> QED BY <1>3, <1>4, <1>5, <1>9, <2>1, <2>2
    <1>7. Rising(a)
      <2> SUFFICES ASSUME NEW i \in 1..Len(a), NEW j \in 1..Len(a), i < j, a[j] # End
                   PROVE  a[i] < a[j]
          BY DEF Rising
      <2>1. i \in 1..Len(b) /\ a[i] = b[i] /\ b[i] \in Nat /\ b[i] <= n
        <3>1. i \in 1..Len(b)
            BY <1>2, <1>9
        <3> QED BY <1>3, <1>5, <3>1
      <2>2. CASE j = Len(b) + 1
        <3>1. a[j] = n + 1
            BY <1>4, <1>9, <2>2
        <3> QED BY <2>1, <3>1
      <2>3. CASE j # Len(b) + 1
        <3>1. j \in 1..Len(b) /\ a[j] = b[j]
            BY <1>3, <1>11, <2>3
        <3> QED BY <1>5, <2>1, <3>1
      <2> QED BY <2>2, <2>3
    <1>8. cop = 0 => Reaches(a, m)
      <2> SUFFICES ASSUME cop = 0, NEW i \in 1..m
                   PROVE  \E k \in 1..Len(a) : a[k] = i
          BY DEF Reaches
      <2>1. CASE i \in 1..n
        <3>1. PICK k \in 1..Len(b) : b[k] = i
            BY <1>5, <2>1 DEF Reaches
        <3>2. k \in 1..Len(a)
            BY <1>2, <1>9
        <3> QED BY <1>3, <3>1, <3>2
      <2>2. CASE i \notin 1..n
        <3>1. i = x
            BY <1>9, <2>2
        <3>2. Len(b) + 1 \in 1..Len(a)
            BY <1>2, <1>9
        <3> QED BY <1>4, <3>1, <3>2
      <2> QED BY <2>1, <2>2
    <1> QED BY <1>6, <1>7, <1>8 DEF Follows, a, m

\* What the steps of one client do to its own stream.
LEMMA Replays ==
    ASSUME NEW cop, NEW sh \in Seq(Nat), NEW n \in Nat, Follows("replay", cop, sh, <<>>, n)
    PROVE  /\ Len(sh) < cop => Follows("replay", cop, Append(sh, Len(sh) + 1), <<>>, n)
           /\ Follows("live", cop, sh, <<>>, n)
    <1>1. /\ cop \in 1..n /\ Len(sh) <= cop /\ Len(sh) \in Nat
          /\ \A i \in 1..Len(sh) : sh[i] = i
          /\ \A i \in 1..Len(sh) : i <= n
        BY DEF Follows
    <1>2. \A t \in Seq(Nat) : t \o <<>> = t
        OBVIOUS
    <1>3. ASSUME Len(sh) < cop
          PROVE  Follows("replay", cop, Append(sh, Len(sh) + 1), <<>>, n)
      <2> DEFINE t == Append(sh, Len(sh) + 1)
      <2>1. /\ t \in Seq(Nat) /\ Len(t) = Len(sh) + 1
            /\ \A i \in 1..Len(t) : t[i] = IF i <= Len(sh) THEN sh[i] ELSE Len(sh) + 1
          BY <1>1
      <2>2. \A i \in 1..Len(t) : t[i] = i
          BY <1>1, <2>1
      <2>3. Len(t) <= cop
          BY <1>1, <1>3, <2>1
      <2> HIDE DEF t
      <2>4. Rising(t)
          BY <2>2 DEF Rising
      <2>5. t \o <<>> = t
          BY <1>2, <2>1
      <2>6. Follows("replay", cop, t, <<>>, n)
          BY <1>1, <2>2, <2>3, <2>4, <2>5 DEF Follows
      <2> QED BY <2>6 DEF t
    <1>4. Follows("live", cop, sh, <<>>, n)
      <2>1. sh \o <<>> = sh
          BY <1>2
      <2>2. Rising(sh)
          BY <1>1 DEF Rising
      <2> QED BY <1>1, <2>1, <2>2 DEF Follows
    <1> QED BY <1>3, <1>4

\* A live client that takes an element stays in step.
LEMMA Takes ==
    ASSUME NEW cop, NEW sh \in Seq(Nat), NEW qu \in Seq(Nat), NEW n, qu # <<>>,
           Follows("live", cop, sh, qu, n)
    PROVE  /\ Follows("live", cop, Append(sh, Head(qu)), Tail(qu), n)
           /\ Follows("over", cop, sh, Tail(qu), n)
    <1>1. Rising(sh \o Tail(qu))
        BY TakesEnd DEF Follows
    <1>2. Append(sh, Head(qu)) \o Tail(qu) = sh \o qu
        BY TakesLine
    <1> QED BY <1>1, <1>2 DEF Follows

\* A line a client is not given leaves its stream as it is.
LEMMA Emits ==
    ASSUME NEW st, st # "live", NEW cop, NEW sh, NEW qu, NEW n \in Nat, Follows(st, cop, sh, qu, n)
    PROVE  Follows(st, cop, sh, qu, n + 1)
    BY DEF Follows

\* The sequences of clients are sequences of numbers.
LEMMA StreamsAreNumbers ==
    ASSUME ClientTypes, RunTypes, NEW c \in Client
    PROVE  /\ shown[c] \in Seq(Nat) /\ queue[c] \in Seq(Nat)
           /\ \A r \in Run : lines[r] \in Nat
    <1>1. shown[c] \in Seq(1..MaxLines) /\ queue[c] \in Seq(Item)
        BY DEF ClientTypes
    <1>2. 1..MaxLines \subseteq Nat /\ Item \subseteq Nat
        BY Bounds DEF Item
    <1>3. shown[c] \in Seq(Nat)
        BY <1>1, <1>2, SeqMonotonic
    <1>4. queue[c] \in Seq(Nat)
        BY <1>1, <1>2, SeqMonotonic
    <1>5. \A r \in Run : lines[r] \in Nat
        BY Bounds DEF RunTypes
    <1> QED BY <1>3, <1>4, <1>5

\* A step of one client leaves the streams of the others.
LEMMA OneClient ==
    ASSUME StreamInv, ClientTypes, NEW c \in Client, UNCHANGED <<begun, lines>>,
           \A d \in Client \ {c} : /\ stage'[d] = stage[d] /\ watch'[d] = watch[d]
                                   /\ copied'[d] = copied[d] /\ shown'[d] = shown[d]
                                   /\ queue'[d] = queue[d],
           stage'[c] \in {"accepted", "replay", "live"} => watch'[c] \in 1..begun,
           Follows(stage'[c], copied'[c], shown'[c], queue'[c], lines[watch'[c]])
    PROVE  StreamInv'
    <1>1. ASSUME NEW d \in Client
          PROVE  /\ stage'[d] \in {"accepted", "replay", "live"} => watch'[d] \in 1..begun'
                 /\ Follows(stage'[d], copied'[d], shown'[d], queue'[d], lines'[watch'[d]])
      <2>1. CASE d = c
          BY <2>1
      <2>2. CASE d # c
          BY <2>2 DEF StreamInv
      <2> QED BY <2>1, <2>2
    <1>2. \A r \in Run : r > begun' => lines'[r] = 0
        BY DEF StreamInv
    <1> QED BY <1>1, <1>2 DEF StreamInv

\* The steps of clients keep every client in step,
LEMMA ClientsFollow ==
    ASSUME StreamInv, RegistryInv, RunTypes, ClientTypes, NEW c \in Client, ClientStep(c)
    PROVE  StreamInv'
    <1>1. UNCHANGED <<begun, lines>>
        BY ClientsLeaveRuns DEF runVars
    <1>2. /\ stage \in [Client -> {"away", "accepted", "replay", "live", "over"}]
          /\ DOMAIN watch = Client /\ DOMAIN copied = Client
          /\ DOMAIN shown = Client /\ DOMAIN queue = Client
          /\ shown[c] \in Seq(Nat) /\ queue[c] \in Seq(Nat)
          /\ \A r \in Run : lines[r] \in Nat
        BY StreamsAreNumbers DEF ClientTypes
    <1>3. /\ stage[c] \in {"accepted", "replay", "live"} => watch[c] \in 1..begun
          /\ Follows(stage[c], copied[c], shown[c], queue[c], lines[watch[c]])
        BY DEF StreamInv
    <1>4. 1..begun \subseteq Run /\ (Joinable(registry) => registry \in 1..begun)
        BY Bounds DEF RunTypes, Run, RegistryInv, Joinable
    <1>5. /\ stage[c] \in {"away", "accepted"} => shown[c] = <<>>
          /\ stage[c] \in {"away", "accepted", "replay"} => queue[c] = <<>>
          /\ stage[c] = "away" => copied[c] = 0
        BY <1>3 DEF Follows
    <1>6. \A d \in Client \ {c} : /\ stage'[d] = stage[d] /\ watch'[d] = watch[d]
                                  /\ copied'[d] = copied[d] /\ shown'[d] = shown[d]
                                  /\ queue'[d] = queue[d]
        BY <1>2 DEF ClientStep, Rejoin, Copy, Attach, Step, Open, ReplayLine, Subscribe, Take, Leave
    <1>7. ASSUME NEW r \in 1..begun, Copy(c, r), shown[c] = <<>>, queue[c] = <<>>,
                 UNCHANGED <<shown, queue>>, watch'[c] = r
          PROVE  StreamInv'
      <2>1. /\ copied'[c] = lines[r] /\ lines[r] \in Nat
            /\ stage'[c] = IF lines[r] = 0 THEN "live" ELSE "replay"
          BY <1>2, <1>4, <1>7 DEF Copy
      <2>2. Follows(stage'[c], copied'[c], shown'[c], queue'[c], lines[watch'[c]])
          BY <1>7, <2>1, NothingFollows
      <2> QED BY <1>1, <1>6, <1>7, <2>2, OneClient
    <1>8. CASE Rejoin(c)
      <2>1. registry \in 1..begun /\ Copy(c, registry) /\ stage[c] = "away"
          BY <1>4, <1>8 DEF Rejoin
      <2>2. watch'[c] = registry /\ UNCHANGED <<shown, queue>>
          BY <1>2, <1>8 DEF Rejoin
      <2> QED BY <1>5, <1>7, <2>1, <2>2
    <1>9. CASE Attach(c)
      <2>1. /\ registry \in 1..begun /\ stage[c] = "away"
            /\ stage'[c] = "accepted" /\ watch'[c] = registry /\ shown'[c] = <<>> /\ queue'[c] = <<>>
          BY <1>2, <1>4, <1>5, <1>9 DEF Attach
      <2>2. Follows(stage'[c], copied'[c], shown'[c], queue'[c], lines[watch'[c]])
          BY <2>1, NothingFollows
      <2> QED BY <1>1, <1>6, <2>1, <2>2, OneClient
    <1>10. CASE Open(c)
      <2>1. stage[c] = "accepted" /\ Copy(c, watch[c]) /\ UNCHANGED <<watch, shown, queue>>
          BY <1>10 DEF Open
      <2> QED BY <1>3, <1>5, <1>7, <2>1
    <1>11. CASE ReplayLine(c)
      <2>1. /\ stage[c] = "replay" /\ Len(shown[c]) < copied[c]
            /\ shown'[c] = Append(shown[c], Len(shown[c]) + 1)
            /\ UNCHANGED <<stage, watch, copied, queue>>
          BY <1>2, <1>11 DEF ReplayLine
      <2>2. watch[c] \in 1..begun /\ lines[watch[c]] \in Nat /\ queue[c] = <<>>
          BY <1>2, <1>3, <1>4, <1>5, <2>1
      <2>3. Follows("replay", copied[c], shown'[c], <<>>, lines[watch[c]])
          BY <1>2, <1>3, <2>1, <2>2, Replays
      <2> QED BY <1>1, <1>6, <2>1, <2>2, <2>3, OneClient
    <1>12. CASE Subscribe(c)
      <2>1. /\ stage[c] = "replay" /\ stage'[c] = "live"
            /\ UNCHANGED <<watch, copied, shown, queue>>
          BY <1>2, <1>12 DEF Subscribe
      <2>2. watch[c] \in 1..begun /\ lines[watch[c]] \in Nat /\ queue[c] = <<>>
          BY <1>2, <1>3, <1>4, <1>5, <2>1
      <2>3. Follows("live", copied[c], shown[c], <<>>, lines[watch[c]])
          BY <1>2, <1>3, <2>1, <2>2, Replays
      <2> QED BY <1>1, <1>6, <2>1, <2>2, <2>3, OneClient
    <1>13. CASE Take(c)
      <2>1. /\ stage[c] = "live" /\ queue[c] # <<>> /\ queue'[c] = Tail(queue[c])
            /\ UNCHANGED <<watch, copied>>
          BY <1>2, <1>13 DEF Take
      <2>2. CASE Head(queue[c]) = End
        <3>1. stage'[c] = "over" /\ shown'[c] = shown[c]
            BY <1>2, <1>13, <2>2 DEF Take
        <3>2. Follows("over", copied[c], shown[c], Tail(queue[c]), lines[watch[c]])
            BY <1>2, <1>3, <2>1, Takes
        <3> QED BY <1>1, <1>6, <2>1, <3>1, <3>2, OneClient
      <2>3. CASE Head(queue[c]) # End
        <3>1. stage'[c] = "live" /\ shown'[c] = Append(shown[c], Head(queue[c]))
            BY <1>2, <1>13, <2>1, <2>3 DEF Take
        <3>2. Follows("live", copied[c], Append(shown[c], Head(queue[c])), Tail(queue[c]), lines[watch[c]])
            BY <1>2, <1>3, <2>1, Takes
        <3> QED BY <1>1, <1>3, <1>6, <2>1, <3>1, <3>2, OneClient
      <2> QED BY <2>2, <2>3
    <1>14. CASE Leave(c)
      <2>1. stage'[c] = "away" /\ copied'[c] = 0 /\ shown'[c] = <<>> /\ queue'[c] = <<>>
          BY <1>2, <1>14 DEF Leave
      <2>2. Follows(stage'[c], copied'[c], shown'[c], queue'[c], lines[watch'[c]])
          BY <2>1, NothingFollows
      <2> QED BY <1>1, <1>6, <2>1, <2>2, OneClient
    <1> QED BY <1>8, <1>9, <1>10, <1>11, <1>12, <1>13, <1>14 DEF ClientStep, Step

\* A run that starts has emitted nothing.
LEMMA StarterFollows ==
    ASSUME StreamInv, RegistryInv, RunTypes, ClientTypes, NEW c \in Client, Start(c)
    PROVE  StreamInv'
    <1>1. /\ begun' = begun + 1 /\ begun < MaxRuns /\ begun \in Nat /\ lines' = lines
          /\ stage[c] = "away" /\ UNCHANGED <<copied, shown, queue>>
          /\ stage' = [stage EXCEPT ![c] = "live"] /\ watch' = [watch EXCEPT ![c] = begun + 1]
        BY DEF Start, RegistryInv
    <1>2. DOMAIN stage = Client /\ DOMAIN watch = Client
        BY DEF ClientTypes
    <1>3. lines[begun + 1] = 0
        BY <1>1, Bounds DEF StreamInv, Run
    <1>4. copied[c] = 0 /\ shown[c] = <<>> /\ queue[c] = <<>>
        BY <1>1 DEF StreamInv, Follows
    <1>5. \A r \in Run : r > begun' => lines'[r] = 0
        BY <1>1 DEF StreamInv, Run
    <1>6. ASSUME NEW d \in Client
          PROVE  /\ stage'[d] \in {"accepted", "replay", "live"} => watch'[d] \in 1..begun'
                 /\ Follows(stage'[d], copied'[d], shown'[d], queue'[d], lines'[watch'[d]])
      <2>1. CASE d = c
          BY <1>1, <1>2, <1>3, <1>4, <2>1, NothingFollows
      <2>2. CASE d # c
        <3>1. stage'[d] = stage[d] /\ watch'[d] = watch[d]
            BY <1>1, <2>2
        <3>2. /\ stage[d] \in {"accepted", "replay", "live"} => watch[d] \in 1..begun
              /\ Follows(stage[d], copied[d], shown[d], queue[d], lines[watch[d]])
            BY DEF StreamInv
        <3>3. 1..begun \subseteq 1..begun'
            BY <1>1
        <3> QED BY <1>1, <3>1, <3>2, <3>3
      <2> QED BY <2>1, <2>2
    <1> QED BY <1>5, <1>6 DEF StreamInv

\* What a producer hands out, the next line or the end marker, reaches all that follow it.
LEMMA FanFollows ==
    ASSUME StreamInv, RunTypes, ClientTypes, NEW r \in 1..begun, NEW x \in {End, lines[r] + 1},
           queue' = Fan(r, x), UNCHANGED <<begun, stage, watch, copied, shown>>,
           lines' = [lines EXCEPT ![r] = IF x = End THEN @ ELSE x]
    PROVE  StreamInv'
    <1>1. r \in Run /\ DOMAIN lines = Run
        BY Bounds DEF RunTypes, Run
    <1>2. \A s \in Run : s > begun' => lines'[s] = 0
        BY <1>1 DEF StreamInv, Run, RunTypes
    <1>3. ASSUME NEW d \in Client
          PROVE  /\ stage'[d] \in {"accepted", "replay", "live"} => watch'[d] \in 1..begun'
                 /\ Follows(stage'[d], copied'[d], shown'[d], queue'[d], lines'[watch'[d]])
      <2>1. /\ stage[d] \in {"accepted", "replay", "live"} => watch[d] \in 1..begun
            /\ Follows(stage[d], copied[d], shown[d], queue[d], lines[watch[d]])
          BY DEF StreamInv
      <2>2. shown[d] \in Seq(Nat) /\ queue[d] \in Seq(Nat) /\ lines[r] \in Nat /\ x \in Nat
          BY <1>1, StreamsAreNumbers DEF End
      <2>3. CASE watch[d] = r /\ stage[d] = "live"
        <3>1. queue'[d] = Append(queue[d], x)
            BY <2>3 DEF Fan, Subscribers
        <3>2. Follows("live", copied[d], shown[d], Append(queue[d], x), IF x = End THEN lines[r] ELSE x)
            BY <2>1, <2>2, <2>3, IsGiven
        <3>3. lines'[r] = IF x = End THEN lines[r] ELSE x
            BY <1>1
        <3> QED BY <2>1, <2>3, <3>1, <3>2, <3>3
      <2>4. CASE watch[d] = r /\ stage[d] # "live"
        <3>1. queue'[d] = queue[d] /\ lines'[r] \in {lines[r], lines[r] + 1}
            BY <1>1, <2>4 DEF Fan, Subscribers
        <3>2. Follows(stage[d], copied[d], shown[d], queue[d], lines[r] + 1)
            BY <2>1, <2>2, <2>4, Emits
        <3> QED BY <2>1, <2>4, <3>1, <3>2
      <2>5. CASE watch[d] # r
        <3>1. queue'[d] = queue[d] /\ lines'[watch[d]] = lines[watch[d]]
            BY <1>1, <2>5 DEF Fan, Subscribers
        <3> QED BY <2>1, <3>1
      <2> QED BY <2>3, <2>4, <2>5
    <1> QED BY <1>2, <1>3 DEF StreamInv

\* and so do the steps of runs.
LEMMA StreamStep ==
    ASSUME StreamInv, RegistryInv, RunTypes, ClientTypes, [Next]_vars
    PROVE  StreamInv'
    <1>1. ASSUME NEW r \in Run, Emit(r)
          PROVE  StreamInv'
      <2>1. r \in 1..begun /\ lines[r] \in Nat
          BY <1>1, Bounds DEF Emit, RegistryInv, RunTypes
      <2>2. lines' = [lines EXCEPT ![r] = lines[r] + 1] /\ lines'[r] = lines[r] + 1
          BY <1>1 DEF Emit, RunTypes
      <2>3. lines[r] + 1 # End
          BY <2>1 DEF End
      <2>4. queue' = Fan(r, lines[r] + 1) /\ UNCHANGED <<begun, stage, watch, copied, shown>>
          BY <1>1, <2>2 DEF Emit
      <2> QED BY <2>1, <2>2, <2>3, <2>4, FanFollows
    <1>2. ASSUME NEW r \in Run, Finish(r) \/ AbortEnds(r)
          PROVE  StreamInv'
      <2>1. r \in 1..begun
          BY <1>2 DEF Finish, AbortEnds, RegistryInv
      <2>2. /\ queue' = Fan(r, End) /\ UNCHANGED <<begun, stage, watch, copied, shown>>
            /\ lines' = lines
          BY <1>2 DEF Finish, AbortEnds
      <2>3. lines' = [lines EXCEPT ![r] = lines[r]]
          BY <2>2 DEF RunTypes
      <2> QED BY <2>1, <2>2, <2>3, FanFollows
    <1>3. CASE Abort \/ UNCHANGED vars
      <2>1. UNCHANGED <<begun, lines, stage, watch, copied, shown, queue>>
          BY <1>3 DEF Abort, clientVars, vars
      <2> QED BY <2>1 DEF StreamInv
    <1> QED BY <1>1, <1>2, <1>3, ClientsFollow, StarterFollows DEF Next, ClientStep

\* Every client is shown the lines of its run in order and once, with what waits for
\* it, and all of them if it follows the run from its first line: for any clients that
\* start runs, attach, rejoin and leave, and any runs that finish or are aborted
\* (generate, attach_run, _emit_run and _abort_run of routers/chat.py).
THEOREM StreamsShowTheRun == Spec => []ShownAsEmitted
    <1> DEFINE Inv == RegistryInv /\ RunTypes /\ ClientTypes /\ StreamInv
    <1>1. Init => Inv
      <2>1. Init => RunTypes /\ ClientTypes
          BY Bounds DEF Init, RunTypes, ClientTypes, Run, Item, NoRun
      <2>2. Init => StreamInv
          BY NothingFollows DEF Init, StreamInv
      <2> QED BY <2>1, <2>2, RegistryInit
    <1>2. Inv /\ [Next]_vars => Inv'
        BY RegistryStep, RunTypesStep, ClientTypesStep, StreamStep
    <1>3. Inv => ShownAsEmitted
        BY DEF StreamInv, Follows, ShownAsEmitted, InOrderOnce, EarlyClientsMissNothing
    <1> QED BY <1>1, <1>2, <1>3, PTL DEF Spec
===============================================================================
