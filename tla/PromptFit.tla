------------------------------- MODULE PromptFit ------------------------------
(***************************************************************************)
(* Fitting one request into the context window: the gate at the entry      *)
(* (classify_entry_overflow) and the trimming before the call              *)
(* (fit_assembly_context), which prices every unit once, plans what to     *)
(* drop, and trims on step by step when the plan was short.                *)
(*                                                                         *)
(* A unit is a retrieved chunk, a remembered chunk, a paragraph of the     *)
(* summary, a message of the history or a tool exchange.  Its price is the *)
(* estimate of the plan, its weight what the assembled request loses with  *)
(* it; the two differ at the seams.  Units stand in the order in which     *)
(* they are dropped.                                                       *)
(***************************************************************************)
EXTENDS ContextBudget, Sequences, FiniteSetsExt

CONSTANTS Piles,     \* what a component of a request may hold: sequences of units
          Windows,   \* context windows
          PrefixCosts,  \* costs of the fixed prefix
          SchemaCosts,   \* costs of the tool schemas
          Query      \* cost of the question

\* A request costs more than one token: each of its messages costs four, and the reply three.
ASSUME FitBounds == /\ Query \in Nat /\ PrefixCosts \subseteq Nat /\ SchemaCosts \subseteq Nat
                    /\ \A c \in PrefixCosts : c + Query > 1
                    /\ Windows \subseteq Int
                    /\ Piles \subseteq Seq([price : Nat, weight : Nat])

\* The components in the order in which they are trimmed: what is fetched anew every
\* turn first, the conversation last.
TrimOrder == <<"rag", "memory", "summary", "history", "tools">>
Component == {"rag", "memory", "summary", "history", "tools"}

\* Units of a component that are spared as long as another one can give.
Floor(p) == IF p = "summary" THEN 0 ELSE 1

VARIABLES request, \* what is to be sent
          gone,    \* units dropped of every component
          stage    \* "gate", "measure", "verify", "trim", "sent" or the code it is refused with

fitVars == <<request, gone, stage>>

Refusal == {"CONTEXT_PREFIX_TOO_LARGE", "QUERY_TOO_LONG"}

\* Every skill body the entry cannot know of makes the prefix longer.
Requests == {r \in [parts : [Component -> Piles], window : Windows, known : PrefixCosts,
                    prefix : PrefixCosts, schema : SchemaCosts] : r.known <= r.prefix}

FitInit == /\ request \in Requests
           /\ gone = [p \in Component |-> 0]
           /\ stage = "gate"

Of(p) == request.parts[p]

\* The sum of f[1] to f[n].
SumTo(f, n) == LET sum[i \in 0..n] == IF i = 0 THEN 0 ELSE sum[i - 1] + f[i] IN sum[n]

\* What the first n units of a component cost, as planned and as sent.
PriceOf(p, n) == SumTo([i \in DOMAIN Of(p) |-> Of(p)[i].price], n)
WeightOf(p, n) == SumTo([i \in DOMAIN Of(p) |-> Of(p)[i].weight], n)

\* What a request weighs that has dropped g[p] units of every component p.
Weight(g) == LET Kept(p) == WeightOf(p, Len(Of(p))) - WeightOf(p, g[p])
             IN request.prefix + Query + SumTo([i \in 1..5 |-> Kept(TrimOrder[i])], 5)

\* Both allowances are already off the window; the schemas come off what is left.
Effective == IF request.window - request.schema < 1 THEN 1 ELSE request.window - request.schema

(* The order of trimming has ten places: at the first five a component     *)
(* gives its units down to the floor, at the others the last survivors.    *)
Place == 1..10
PartAt(i) == TrimOrder[IF i <= 5 THEN i ELSE i - 5]
DownToFloor(p) == NotNegative(Len(Of(p)) - Floor(p))
From(i) == IF i <= 5 THEN 0 ELSE DownToFloor(PartAt(i))
UpTo(i) == IF i <= 5 THEN DownToFloor(PartAt(i)) ELSE Len(Of(PartAt(i)))

-----------------------------------------------------------------------------

\* classify_entry_overflow: the request with everything dropped that can be.
EntryGate ==
    /\ stage = "gate"
    /\ stage' = IF request.known > request.window THEN "CONTEXT_PREFIX_TOO_LARGE"
                ELSE IF request.known + Query > request.window THEN "QUERY_TOO_LONG"
                ELSE "measure"
    /\ UNCHANGED <<request, gone>>

\* Mutant: the plan goes on until it saved more than the overflow.
PlanPartOver(plan, i) ==
    LET p == PartAt(i)
        first == plan.gone[p]
        SavedWith(k) == plan.saved + (PriceOf(p, k) - PriceOf(p, first))
        enough == {k \in first..UpTo(i) : SavedWith(k) > Weight(gone) - Effective}
        k == IF enough = {} THEN UpTo(i) ELSE Min(enough)
    IN [gone |-> [plan.gone EXCEPT ![p] = k], saved |-> SavedWith(k)]

\* The plan takes units at place i until their prices cover the overflow.
PlanPart(plan, i) ==
    LET p == PartAt(i)
        first == plan.gone[p]
        SavedWith(k) == plan.saved + (PriceOf(p, k) - PriceOf(p, first))
        enough == {k \in first..UpTo(i) : SavedWith(k) >= Weight(gone) - Effective}
        k == IF enough = {} THEN UpTo(i) ELSE Min(enough)
    IN [gone |-> [plan.gone EXCEPT ![p] = k], saved |-> SavedWith(k)]

\* One scan over the places.
Plan == LET plan[i \in 0..10] == IF i = 0 THEN [gone |-> gone, saved |-> 0] ELSE PlanPart(plan[i - 1], i)
        IN plan[10].gone

Measure ==
    /\ stage = "measure"
    /\ IF Weight(gone) <= Effective THEN stage' = "sent" /\ UNCHANGED gone
       ELSE stage' = "verify" /\ gone' = Plan
    /\ UNCHANGED request

\* Mutant: the plan is believed.
Believe == /\ stage = "verify" /\ stage' = "sent" /\ UNCHANGED <<request, gone>>

\* The plan is measured; the prices are estimates.
Verify ==
    /\ stage = "verify"
    /\ stage' = IF Weight(gone) <= Effective THEN "sent" ELSE "trim"
    /\ UNCHANGED <<request, gone>>

\* The component the step-by-step loop trims next.
Trimmed == PartAt(Min({i \in Place : gone[PartAt(i)] < UpTo(i)}))

\* One round of the loop; with nothing left to drop the request is refused.
TrimStep ==
    /\ stage = "trim"
    /\ \/ /\ Weight(gone) <= Effective
          /\ stage' = "sent" /\ UNCHANGED gone
       \/ /\ Weight(gone) > Effective /\ \E p \in Component : gone[p] < Len(Of(p))
          /\ gone' = [gone EXCEPT ![Trimmed] = @ + 1] /\ UNCHANGED stage
       \/ /\ Weight(gone) > Effective /\ \A p \in Component : gone[p] = Len(Of(p))
          /\ stage' = IF request.prefix > Effective THEN "CONTEXT_PREFIX_TOO_LARGE" ELSE "QUERY_TOO_LONG"
          /\ UNCHANGED gone
    /\ UNCHANGED request

FitNext == EntryGate \/ Measure \/ Verify \/ TrimStep

FitSpec == FitInit /\ [][FitNext]_fitVars

-----------------------------------------------------------------------------
(* A request that is sent fits; one that is refused could not have been    *)
(* made to fit by dropping anything, and a refusal that sends the user     *)
(* after the question is right about it: the prefix alone would have fit.  *)
FittedOrHopeless ==
    /\ stage = "sent" => Weight(gone) <= Effective
    /\ stage \in Refusal => request.prefix + Query > Effective
    /\ stage = "QUERY_TOO_LONG" /\ (\E p \in Component : gone[p] > 0) => request.prefix <= Effective

(* What the plan and the loop drop together is what the loop alone would   *)
(* have dropped: no unit at a place goes before all at the places before   *)
(* went, and, when prices are weights, the last one that went had to ("the *)
(* trimming ORDER and the floors are identical to the step-by-step         *)
(* behaviour").                                                            *)
Taken(i) == gone[PartAt(i)] > From(i)
Exact == \A p \in Component : \A i \in DOMAIN Of(p) : Of(p)[i].price = Of(p)[i].weight
DropsInOrder ==
    stage = "sent" => \A j \in Place : Taken(j) =>
        /\ \A i \in 1..(j - 1) : gone[PartAt(i)] >= UpTo(i)
        /\ Exact /\ (\A i \in Place : i > j => ~Taken(i))
              => Weight([gone EXCEPT ![PartAt(j)] = @ - 1]) > Effective
=============================================================================
