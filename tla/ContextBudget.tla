----------------------------- MODULE ContextBudget ----------------------------
(***************************************************************************)
(* How the context window is divided (context_budget.py): the output and a *)
(* margin are kept back, the fixed prefix and the tool schemas come off    *)
(* the rest, retrieval and memory get their shares, and what is left is    *)
(* the persistent slot that history and summary accumulate in.             *)
(***************************************************************************)
EXTENDS Integers

RAG_BUDGET_PCT == 25
MEMORY_BUDGET_PCT == 10
ASYNC_HI_PCT == 70
SYNC_HI_PCT == 80

NotNegative(n) == IF n < 0 THEN 0 ELSE n

\* total_budget: negative for a window that is smaller than the output.
TotalBudget(window, maxTokens, margin) == window - (maxTokens + margin)

\* compute: the slots of a request with these measured costs.
Slots(total, prefix, tools) ==
    LET r_prefix == NotNegative(prefix)
        r_tools  == NotNegative(tools)
        avail    == NotNegative(total - r_prefix - r_tools)
        r_rag    == (avail * RAG_BUDGET_PCT) \div 100
        r_memory == (avail * MEMORY_BUDGET_PCT) \div 100
    IN [r_prefix |-> r_prefix, r_tools |-> r_tools, r_rag |-> r_rag, r_memory |-> r_memory,
        persistent |-> avail - r_rag - r_memory]

Reserved(s) == s.r_prefix + s.r_tools + s.r_rag + s.r_memory

\* What truncating a product of floats may give: the quotient, or one less where the
\* product falls just short of an integer (90 * 0.70 is 62.99...).
Truncated(n) == {n, n - 1} \cap Nat

\* Levels of the persistent slot above which summarizing starts, and blocks a turn.
AsyncHi(s) == Truncated((s.persistent * ASYNC_HI_PCT) \div 100)
SyncHi(s) == Truncated((s.persistent * SYNC_HI_PCT) \div 100)

\* l0_cap: how much of the slot the rolling summary may fill.
L0Cap(s, pct) == Truncated((s.persistent * NotNegative(pct)) \div 100)
=============================================================================
