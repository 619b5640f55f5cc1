----------------------------- MODULE QueueFacts -----------------------------
(***************************************************************************)
(* What the sequence operators do to a queue in which nobody stands twice. *)
(* q[i] is the member at place i, the oldest at place 1.                   *)
(***************************************************************************)
EXTENDS Integers, SequencesExt, SequenceTheorems, FiniteSetTheorems, WellFoundedInduction, TLAPS

\* The members of a queue without repetition, and their places.
LEMMA Members ==
    ASSUME NEW S, NEW q \in Seq(S)
    PROVE  /\ Len(q) \in Nat
           /\ ToSet(q) = {q[i] : i \in 1..Len(q)}
           /\ ToSet(q) \subseteq S
           /\ IsInjective(q) <=>
                \A i, j \in 1..Len(q) : q[i] = q[j] => i = j
    BY DEF ToSet, IsInjective

\* What is left of a queue when its k oldest members leave it: list.pop(0),
\* once or several times.
LEMMA LoseOldest ==
    ASSUME NEW S, NEW q \in Seq(S), NEW k \in 0..Len(q)
    PROVE  LET r == SubSeq(q, k + 1, Len(q))
           IN  /\ r \in Seq(S)
               /\ Len(r) = Len(q) - k
               /\ \A i \in 1..(Len(q) - k) : r[i] = q[i + k]
    OBVIOUS

\* They leave the others in, and nobody twice.
LEMMA LoseOldestMembers ==
    ASSUME NEW S, NEW q \in Seq(S), NEW k \in 0..Len(q), IsInjective(q)
    PROVE  LET r == SubSeq(q, k + 1, Len(q))
           IN  /\ IsInjective(r)
               /\ ToSet(r) = ToSet(q) \ {q[i] : i \in 1..k}
    <1> DEFINE r == SubSeq(q, k + 1, Len(q))
    <1>1. /\ r \in Seq(S) /\ Len(r) = Len(q) - k /\ Len(q) \in Nat
          /\ \A i \in 1..(Len(q) - k) : r[i] = q[i + k]
        BY LoseOldest
    <1> HIDE DEF r
    <1>2. /\ ToSet(q) = {q[i] : i \in 1..Len(q)}
          /\ \A i, j \in 1..Len(q) : q[i] = q[j] => i = j
        BY Members
    <1>3. ToSet(r) = {r[i] : i \in 1..Len(r)}
        BY <1>1, Members
    <1>4. ASSUME NEW i \in 1..Len(r)
          PROVE  r[i] \in ToSet(q) \ {q[j] : j \in 1..k}
      <2>1. i + k \in 1..Len(q) /\ i + k \notin 1..k /\ r[i] = q[i + k]
          BY <1>1
      <2> QED BY <2>1, <1>2
    <1>5. ASSUME NEW i \in 1..Len(q), q[i] \notin {q[j] : j \in 1..k}
          PROVE  q[i] \in ToSet(r)
      <2>1. i - k \in 1..Len(r)
          BY <1>1, <1>5
      <2>2. r[i - k] = q[(i - k) + k] /\ (i - k) + k = i
          BY <2>1, <1>1
      <2> QED BY <2>1, <2>2, <1>3
    <1>6. ASSUME NEW i \in 1..Len(r), NEW j \in 1..Len(r), r[i] = r[j]
          PROVE  i = j
      <2>1. i + k \in 1..Len(q) /\ j + k \in 1..Len(q) /\ q[i + k] = q[j + k]
          BY <1>1, <1>6
      <2>2. i + k = j + k
          BY <2>1, <1>2
      <2> QED BY <2>2
    <1>7. IsInjective(r)
        BY <1>1, <1>6, Members
    <1>8. ToSet(r) \subseteq ToSet(q) \ {q[i] : i \in 1..k}
        BY <1>3, <1>4
    <1>9. ToSet(q) \ {q[i] : i \in 1..k} \subseteq ToSet(r)
        BY <1>2, <1>5
    <1> QED BY <1>7, <1>8, <1>9 DEF r

\* Head and Tail are the case of one member.
LEMMA DropOne ==
    ASSUME NEW S, NEW q \in Seq(S), q # <<>>, IsInjective(q)
    PROVE  /\ Len(q) \in Nat \ {0}
           /\ Tail(q) \in Seq(S)
           /\ Len(Tail(q)) = Len(q) - 1
           /\ \A i \in 1..(Len(q) - 1) : Tail(q)[i] = q[i + 1]
           /\ Head(q) = q[1]
           /\ Head(q) \in ToSet(q)
           /\ IsInjective(Tail(q))
           /\ ToSet(Tail(q)) = ToSet(q) \ {Head(q)}
    <1>1. Len(q) \in Nat \ {0} /\ Head(q) = q[1]
        OBVIOUS
    <1>2. Tail(q) = SubSeq(q, 1 + 1, Len(q))
        BY TailIsSubSeq
    <1>3. 1 \in 0..Len(q)
        BY <1>1
    <1>4. {q[i] : i \in 1..1} = {Head(q)}
        BY <1>1
    <1>5. Head(q) \in ToSet(q)
        BY <1>1, Members
    <1>6. IsInjective(Tail(q)) /\ ToSet(Tail(q)) = ToSet(q) \ {q[i] : i \in 1..1}
        BY <1>2, <1>3, LoseOldestMembers
    <1>7. /\ Tail(q) \in Seq(S) /\ Len(Tail(q)) = Len(q) - 1
          /\ \A i \in 1..(Len(q) - 1) : Tail(q)[i] = q[i + 1]
        BY <1>2, <1>3, LoseOldest
    <1> QED BY <1>1, <1>4, <1>5, <1>6, <1>7

\* What is left when the member at index k leaves: list.remove(waiter).
LEMMA DropAt ==
    ASSUME NEW S, NEW q \in Seq(S), NEW k \in 1..Len(q)
    PROVE  LET r == RemoveAt(q, k)
           IN  /\ r \in Seq(S)
               /\ Len(r) = Len(q) - 1
               /\ \A i \in 1..(Len(q) - 1) :
                     r[i] = IF i < k THEN q[i] ELSE q[i + 1]
    <1> DEFINE a == SubSeq(q, 1, k - 1)
               b == SubSeq(q, k + 1, Len(q))
    <1>1. /\ a \in Seq(S) /\ Len(a) = k - 1
          /\ \A i \in 1..(k - 1) : a[i] = q[i]
        OBVIOUS
    <1>2. /\ b \in Seq(S) /\ Len(b) = Len(q) - k
          /\ \A i \in 1..(Len(q) - k) : b[i] = q[i + k]
        OBVIOUS
    <1>3. RemoveAt(q, k) = a \o b
        BY DEF RemoveAt
    <1> HIDE DEF a, b
    <1>4. /\ a \o b \in Seq(S)
          /\ Len(a \o b) = Len(a) + Len(b)
          /\ \A i \in 1..(Len(a) + Len(b)) :
                (a \o b)[i] = IF i <= Len(a) THEN a[i] ELSE b[i - Len(a)]
        BY <1>1, <1>2, ConcatProperties
    <1>5. ASSUME NEW i \in 1..(Len(q) - 1)
          PROVE  (a \o b)[i] = IF i < k THEN q[i] ELSE q[i + 1]
        BY <1>1, <1>2, <1>4
    <1> QED BY <1>1, <1>2, <1>3, <1>4, <1>5

\* Only that member leaves.
LEMMA DropAtMembers ==
    ASSUME NEW S, NEW q \in Seq(S), NEW k \in 1..Len(q), IsInjective(q)
    PROVE  /\ IsInjective(RemoveAt(q, k))
           /\ ToSet(RemoveAt(q, k)) = ToSet(q) \ {q[k]}
    <1> DEFINE r == RemoveAt(q, k)
    <1>1. /\ r \in Seq(S) /\ Len(r) = Len(q) - 1 /\ Len(q) \in Nat
          /\ \A i \in 1..(Len(q) - 1) : r[i] = IF i < k THEN q[i] ELSE q[i + 1]
        BY DropAt
    <1> HIDE DEF r
    <1>2. /\ ToSet(q) = {q[i] : i \in 1..Len(q)}
          /\ \A i, j \in 1..Len(q) : q[i] = q[j] => i = j
        BY Members
    <1>3. ToSet(r) = {r[i] : i \in 1..Len(r)}
        BY <1>1, Members
    <1> DEFINE old(i) == IF i < k THEN i ELSE i + 1
    <1>4. ASSUME NEW i \in 1..Len(r)
          PROVE  old(i) \in 1..Len(q) /\ old(i) # k /\ r[i] = q[old(i)]
        BY <1>1
    <1>5. ASSUME NEW i \in 1..Len(q), i # k
          PROVE  q[i] \in ToSet(r)
      <2>1. CASE i < k
          BY <2>1, <1>1, <1>3
      <2>2. CASE i > k
        <3>1. i - 1 \in 1..Len(r) /\ ~(i - 1 < k) /\ (i - 1) + 1 = i
            BY <2>2, <1>1
        <3>2. r[i - 1] = q[i]
            BY <3>1, <1>1
        <3> QED BY <3>1, <3>2, <1>3
      <2> QED BY <2>1, <2>2, <1>5
    <1>6. ASSUME NEW i \in 1..Len(r), NEW j \in 1..Len(r), r[i] = r[j]
          PROVE  i = j
      <2>1. old(i) = old(j)
          BY <1>2, <1>4, <1>6
      <2> QED BY <2>1
    <1>7. IsInjective(r)
        BY <1>1, <1>6, Members
    <1>8. \A i \in 1..Len(r) : r[i] \in ToSet(q) \ {q[k]}
        BY <1>4, <1>2
    <1>9. ToSet(r) = ToSet(q) \ {q[k]}
        BY <1>2, <1>3, <1>5, <1>8
    <1> QED BY <1>7, <1>9 DEF r

\* A queue that gains a member: list.append(waiter).
LEMMA AddLast ==
    ASSUME NEW S, NEW q \in Seq(S), NEW x \in S
    PROVE  /\ Append(q, x) \in Seq(S)
           /\ Len(Append(q, x)) = Len(q) + 1
           /\ \A i \in 1..Len(q) : Append(q, x)[i] = q[i]
           /\ Append(q, x)[Len(q) + 1] = x
    OBVIOUS

\* The member it gains is new.
LEMMA AddLastMembers ==
    ASSUME NEW S, NEW q \in Seq(S), NEW x \in S \ ToSet(q), IsInjective(q)
    PROVE  /\ IsInjective(Append(q, x))
           /\ ToSet(Append(q, x)) = ToSet(q) \cup {x}
    <1> DEFINE r == Append(q, x)
    <1>1. /\ r \in Seq(S) /\ Len(r) = Len(q) + 1 /\ Len(q) \in Nat
          /\ \A i \in 1..Len(q) : r[i] = q[i]
          /\ r[Len(q) + 1] = x
        BY AddLast
    <1> HIDE DEF r
    <1>2. /\ ToSet(q) = {q[i] : i \in 1..Len(q)}
          /\ \A i, j \in 1..Len(q) : q[i] = q[j] => i = j
        BY Members
    <1>3. ToSet(r) = {r[i] : i \in 1..Len(r)}
        BY <1>1, Members
    <1>4. IsInjective(r)
      <2>1. ASSUME NEW i \in 1..Len(r), NEW j \in 1..Len(r), r[i] = r[j]
            PROVE  i = j
          BY <2>1, <1>1, <1>2
      <2> QED BY <2>1, <1>1, Members
    <1>5. \A i \in 1..Len(r) : r[i] \in ToSet(q) \cup {x}
        BY <1>1, <1>2
    <1>6. ToSet(q) \subseteq ToSet(r) /\ x \in ToSet(r)
        BY <1>1, <1>2, <1>3
    <1> QED BY <1>3, <1>4, <1>5, <1>6 DEF r

\* The k oldest members of a queue are k different ones.
LEMMA OldestCount ==
    ASSUME NEW S, NEW q \in Seq(S), NEW k \in 0..Len(q), IsInjective(q)
    PROVE  /\ IsFiniteSet({q[i] : i \in 1..k})
           /\ Cardinality({q[i] : i \in 1..k}) = k
    <1> DEFINE T == {q[i] : i \in 1..k}
               f == [i \in 1..k |-> q[i]]
    <1>1. IsFiniteSet(1..k) /\ Cardinality(1..k) = k
        BY FS_Interval
    <1>2. f \in Surjection(1..k, T)
        BY DEF Surjection
    <1>3. f \in Injection(1..k, T)
      <2>1. \A i, j \in 1..k : f[i] = f[j] => i = j
          BY Members
      <2> QED BY <2>1 DEF Injection, IsInjective
    <1> QED BY <1>1, <1>2, <1>3, FS_Surjection

-----------------------------------------------------------------------------
(* Induction, stated with sets. *)

\* The order of the numbers, as a set of pairs.
LEMMA LessIsARelation == \A m, n \in Nat : m < n => <<m, n>> \in OpToRel(<, Nat)
    BY Zenon DEF OpToRel

\* A set of numbers that is not empty has a least one.
LEMMA LeastNumber ==
    ASSUME NEW T, T \subseteq Nat, T # {}
    PROVE  \E n \in T : \A m \in T : n <= m
    <1>1. IsWellFoundedOn(OpToRel(<, Nat), Nat)
        BY NatLessThanWellFounded
    <1>2. \E n \in T : \A m \in T : ~ (<<m, n>> \in OpToRel(<, Nat))
        BY <1>1, WFMin
    <1>3. \E n \in T : \A m \in T : ~ (m < n)
        BY <1>2, LessIsARelation, Zenon
    <1> QED BY <1>3

\* A set that holds 0, and with a number the next one, holds all of them.
LEMMA EveryNumber ==
    ASSUME NEW T, 0 \in T, \A n \in Nat : n \in T => n + 1 \in T
    PROVE  Nat \subseteq T
    <1>1. SUFFICES ASSUME Nat \ T # {} PROVE FALSE
        OBVIOUS
    <1>2. PICK n \in Nat \ T : \A m \in Nat \ T : n <= m
        BY <1>1, LeastNumber
    <1>3. n - 1 \in Nat /\ n - 1 \notin T
        BY <1>2
    <1> QED BY <1>2, <1>3
=============================================================================
