------------------------------ MODULE TokenPool ------------------------------
(***************************************************************************)
(* What the LLM limiter promises: at most cap tokens are in use, they are  *)
(* handed out in the order the clients asked, a token is never idle while  *)
(* somebody waits, and lowering cap revokes no token.                      *)
(***************************************************************************)
EXTENDS Integers, Sequences, FiniteSets, SequencesExt

CONSTANTS Client, Caps, InitialCap

VARIABLES cap,    \* how many tokens there are
          inUse,  \* the clients that own one
          line    \* the clients that wait, first come first

vars == <<cap, inUse, line>>

Waiting == {line[i] : i \in 1..Len(line)}

\* How many of the clients of queue q can be served when c tokens exist and
\* the clients of used own one each.
Serve(q, used, c) ==
    LET free == c - Cardinality(used)
    IN  IF free <= 0 THEN 0 ELSE IF free < Len(q) THEN free ELSE Len(q)

\* After every event the head of the line is served as far as tokens go.
Settle(q, used, c) ==
    /\ cap' = c
    /\ inUse' = used \cup {q[i] : i \in 1..Serve(q, used, c)}
    /\ line' = SubSeq(q, Serve(q, used, c) + 1, Len(q))

Init == cap = InitialCap /\ inUse = {} /\ line = <<>>

Ask(t) == t \notin inUse \cup Waiting /\ Settle(Append(line, t), inUse, cap)

GiveUp(t) == \E i \in 1..Len(line) :
                line[i] = t /\ Settle(RemoveAt(line, i), inUse, cap)

Return(t) == t \in inUse /\ Settle(line, inUse \ {t}, cap)

Resize(c) == Settle(line, inUse, c)

Next == \/ \E t \in Client : Ask(t) \/ GiveUp(t) \/ Return(t)
        \/ \E c \in Caps : Resize(c)

Spec == Init /\ [][Next]_vars

\* Every token in use comes back.
LiveSpec == Spec /\ \A t \in Client : WF_vars(Return(t))
=============================================================================
