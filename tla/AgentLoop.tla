------------------------------ MODULE AgentLoop -----------------------------
(***************************************************************************)
(* One question in the agent graph (agent_graph.py, agent_nodes.py): the   *)
(* routing of a skill, rounds of tool calls, the stack of skills, the      *)
(* guards that end the loop, and the suspension at a limit, which chat.py  *)
(* stores and a "continue" of the user takes up.                           *)
(*                                                                         *)
(* A message of the loop is its signature; the guards look at the last     *)
(* three only, so only those are kept. The model is free to ask for        *)
(* anything, except that it asks for two tools at a time only as in Batch. *)
(***************************************************************************)
EXTENDS Integers, Sequences, FiniteSets, SequencesExt

CONSTANTS Skill,
          Quotas  \* agent_round_quota, skill_switch_quota (0, no limit, is left out), and a
                  \* bound for the continues

ASSUME AgBounds == \A q \in Quotas : q \in (Nat \ {0}) \X (Nat \ {0}) \X Nat

VARIABLES node,      \* where the run is
          branch,    \* parallel branches that have not ended
          enabled,   \* skills whose enable-symlink is there
          active,    \* active_skill: the skill, and whether its body was loaded
          stack,     \* skill_stack
          loadedIds, \* loaded_skill_ids
          toolsOf,   \* skills whose tools are in available_tools
          agRound, switches, roundQuota, switchQuota, \* counters and their limits
          calls,     \* tool_calls
          bare,      \* tool_calls is a single call, not a list
          recent,    \* calls of the last rounds, newest first
          results,   \* results of the last rounds, newest first
          onlyErrors,\* all results so far are errors
          heals,     \* attempts to repair a malformed call that are left
          limit,     \* pending_limit: "none", "tool_round" or "skill_switch"
          snapshot,  \* pending_limit_states
          executed,  \* rounds of tools executed for the question
          agContinues, \* continues of the user so far
          quota      \* what the configuration says

agVars == <<node, branch, enabled, active, stack, loadedIds, toolsOf, agRound, switches, roundQuota,
            switchQuota, calls, bare, recent, results, onlyErrors, heals, limit, snapshot, executed,
            agContinues, quota>>
skillVars == <<active, stack, loadedIds, toolsOf, switches>>
quotaVars == <<roundQuota, switchQuota, executed, agContinues, quota>>
talkVars == <<recent, results, onlyErrors>>

NoSkill == "none"
Inactive == [id |-> NoSkill, body |-> FALSE]
Loaded(s) == [id |-> s, body |-> TRUE]
NoSnapshot == [kind |-> "none"]
Use(s) == [tool |-> "use_skill", arg |-> s]
Done == [tool |-> "done_skill", arg |-> ""]
Catalogue == [tool |-> "list_skills", arg |-> ""]
Run(x) == [tool |-> "run_python", arg |-> x]
Control == {"use_skill", "done_skill", "list_skills"}

Call == {Use(s) : s \in Skill} \cup {Done, Catalogue, Run("a"), Run("b")}
Batch == {<<Run("a"), Done>>}
Decision == {<<c>> : c \in Call} \cup Batch

AgInit == /\ node = "start" /\ branch = {}
          /\ enabled = Skill
          /\ active = Inactive /\ stack = <<>> /\ loadedIds = {} /\ toolsOf = {}
          /\ agRound = 0 /\ switches = 0
          /\ quota \in Quotas
          /\ roundQuota = quota[1] /\ switchQuota = quota[2]
          /\ calls = <<>> /\ bare = FALSE
          /\ recent = <<>> /\ results = <<>> /\ onlyErrors = TRUE
          /\ heals = 0 /\ limit = "none" /\ snapshot = NoSnapshot
          /\ executed = 0 /\ agContinues = 0

\* The three newest of a list that a new element is put in front of.
Newest(x, seq) == SubSeq(<<x>> \o seq, 1, IF Len(seq) < 2 THEN Len(seq) + 1 ELSE 3)

-----------------------------------------------------------------------------
(* Up to the first decision. *)

\* entry_node: a cached answer ends the run; otherwise the branches start.
Enter ==
    /\ node = "start"
    /\ \/ node' = "answered" /\ UNCHANGED branch
       \/ node' = "fanout" /\ branch' = {"router", "retrieval"}
    /\ UNCHANGED <<enabled, skillVars, quotaVars, talkVars, agRound, calls, bare, heals, limit, snapshot>>

\* skill_router_node: the skill the user chose, the one the model names or the keywords
\* suggest, if it is enabled; or none.
RouteSkill ==
    /\ node = "fanout" /\ "router" \in branch
    /\ \E s \in enabled \cup {NoSkill} : active' = [id |-> s, body |-> FALSE]
    /\ branch' = branch \ {"router"} /\ agRound' = 0
    /\ UNCHANGED <<node, enabled, stack, loadedIds, toolsOf, switches, quotaVars, talkVars,
                   calls, bare, heals, limit, snapshot>>

\* parallel_retrieval_node; a search that fails counts as one that finds nothing.
Retrieve ==
    /\ node = "fanout" /\ "retrieval" \in branch
    /\ branch' = branch \ {"retrieval"}
    /\ UNCHANGED <<node, enabled, skillVars, quotaVars, talkVars, agRound, calls, bare, heals, limit,
                   snapshot>>

\* skill_loader_node: body and tools of the routed skill, unless it was disabled meanwhile;
\* then it stays active without either.
LoadSkill ==
    /\ node = "fanout" /\ branch = {}
    /\ node' = "decide"
    /\ IF active.id # NoSkill /\ active.id \in enabled
       THEN /\ active' = Loaded(active.id)
            /\ stack' = <<active.id>> /\ loadedIds' = {active.id} /\ toolsOf' = {active.id}
            /\ switches' = 0
       ELSE UNCHANGED skillVars
    /\ UNCHANGED <<branch, enabled, quotaVars, talkVars, agRound, calls, bare, heals, limit, snapshot>>

-----------------------------------------------------------------------------
(* tool_decision_node. *)

Answer == node' = "answer" /\ calls' = <<>>

\* The quota of rounds, and the guard against errors only, come before the model is asked.
Consider ==
    /\ node = "decide"
    /\ IF agRound >= roundQuota
       THEN node' = "suspend" /\ calls' = <<>> /\ limit' = "tool_round"
       ELSE /\ IF results # <<>> /\ onlyErrors /\ agRound >= 2
               THEN Answer
               ELSE node' = "ask" /\ UNCHANGED calls
            /\ UNCHANGED limit
    /\ UNCHANGED <<branch, enabled, skillVars, quotaVars, talkVars, agRound, bare, heals, snapshot>>

Result(what, s) == [what |-> what, of |-> s]
IsError(r) == r.what = "error"
IsEmpty(r) == r.what = "nothing"

\* The loop guard: the same calls as in the last round, nothing but one call in the last
\* rounds, or the same result three times, and no error in the end. Empty results do not
\* count as the same.
Repeats(cs) ==
    LET before == UNION {ToSet(recent[i]) : i \in DOMAIN recent}
        many == Len(recent) >= 2 \/ (recent # <<>> /\ Len(recent[1]) >= 2) IN
    /\ recent # <<>>
    /\ \/ cs = recent[1]
       \/ many /\ Cardinality(before) = 1 /\ ToSet(cs) \subseteq before
       \/ Len(results) = 3 /\ ~IsEmpty(results[1]) /\ \A i \in 1..3 : results[i] = results[1]
    /\ results # <<>> => ~IsError(results[1])

\* The model answered with calls, native or found in its text.
Decide(cs) ==
    IF Repeats(cs) THEN Answer /\ UNCHANGED <<bare, recent>>
    ELSE /\ calls' = cs /\ bare' = FALSE
         /\ recent' = Newest(cs, recent)
         /\ node' = IF cs[1].tool \in Control THEN "switch" ELSE "execute"

\* One corrective chance in the first round of a turn with a skill.
Nudge == agRound = 0 /\ results = <<>> /\ active.id # NoSkill

\* What the model answers: calls; text that names a tool, which is sent back to be
\* repaired; other text; or nothing, or failures up to the last fallback.
AskModel ==
    /\ node = "ask"
    /\ \/ \E cs \in Decision : Decide(cs) /\ UNCHANGED heals
       \/ node' = "heal" /\ heals' = 2 /\ UNCHANGED <<calls, bare, recent>>
       \/ Nudge /\ node' = "nudge" /\ UNCHANGED <<calls, bare, recent, heals>>
       \/ Answer /\ UNCHANGED <<bare, recent, heals>>
    /\ UNCHANGED <<branch, enabled, skillVars, quotaVars, results, onlyErrors, agRound, limit, snapshot>>

\* Mutant: when the repair failed the model is asked again.
HealAsksAgain ==
    /\ node = "heal"
    /\ \/ \E cs \in Decision : Decide(cs) /\ heals' = 0
       \/ node' = "ask" /\ heals' = 0 /\ UNCHANGED <<calls, bare, recent>>
    /\ UNCHANGED <<branch, enabled, skillVars, quotaVars, results, onlyErrors, agRound, limit, snapshot>>

\* The self-heal: two attempts, given up at once when the model cannot be reached.
Heal ==
    /\ node = "heal"
    /\ \/ \E cs \in Decision : Decide(cs) /\ heals' = 0
       \/ /\ heals' \in {0, heals - 1}
          /\ IF heals' > 0 THEN UNCHANGED <<node, calls>>
             ELSE IF Nudge THEN node' = "nudge" /\ UNCHANGED calls
             ELSE Answer
          /\ UNCHANGED <<bare, recent>>
    /\ UNCHANGED <<branch, enabled, skillVars, quotaVars, results, onlyErrors, agRound, limit, snapshot>>

AskAgain ==
    /\ node = "nudge"
    /\ (\E cs \in Decision : Decide(cs)) \/ (Answer /\ UNCHANGED <<bare, recent>>)
    /\ UNCHANGED <<branch, enabled, skillVars, quotaVars, results, onlyErrors, agRound, heals, limit,
                   snapshot>>

-----------------------------------------------------------------------------
(* Tools. *)

Record(r) == /\ results' = Newest(r, results)
             /\ onlyErrors' = (onlyErrors /\ IsError(r))

\* What a call comes to: a control call is answered without being executed. "nothing"
\* is an empty result, and stands for any that differs from the one before as well.
Outcomes(c) == IF c.tool \in Control THEN {Result("not here", c.arg)}
               ELSE {Result(what, "") : what \in {"output", "nothing", "error"}}

\* tool_executor_node executes all calls of the round.
ExecuteTools ==
    /\ node = "execute"
    /\ node' = "decide"
    /\ agRound' = agRound + 1 /\ executed' = executed + 1
    /\ \E first \in Outcomes(calls[1]), last \in Outcomes(Last(calls)) :
          /\ Len(calls) = 1 => first = last
          /\ results' = Newest(last, IF Len(calls) = 1 THEN results ELSE Newest(first, results))
          /\ onlyErrors' = (onlyErrors /\ IsError(first) /\ IsError(last))
    /\ UNCHANGED <<branch, enabled, skillVars, roundQuota, switchQuota, agContinues, quota, recent, calls, bare,
                   heals, limit, snapshot>>

Rest == UNCHANGED <<branch, enabled, quotaVars, recent, calls, bare, heals, snapshot>>

\* _skill_control_return: the answer to a control call that changes nothing is a round.
NothingChanges(r) ==
    /\ Record(r) /\ node' = "decide" /\ agRound' = agRound + 1
    /\ active' = IF stack = <<>> THEN active ELSE Loaded(Last(stack))
    /\ UNCHANGED <<stack, loadedIds, toolsOf, switches, limit>> /\ Rest

ListSkills == /\ calls[1] = Catalogue
              /\ NothingChanges(Result("catalogue", ""))

\* done_skill: back to the skill below, if there is one; no round either way.
DoneSkill ==
    /\ calls[1] = Done
    /\ node' = "decide"
    /\ IF Len(stack) <= 1
       THEN Record(Result("top", "")) /\ UNCHANGED <<active, stack>>
       ELSE /\ stack' = Front(stack) /\ active' = Loaded(Last(Front(stack)))
            /\ Record(Result("back", Last(Front(stack))))
    /\ UNCHANGED <<loadedIds, toolsOf, switches, agRound, limit>> /\ Rest

PushSkill(s) ==
    /\ active' = Loaded(s)
    /\ stack' = Append(stack, s) /\ loadedIds' = loadedIds \cup {s}
    /\ toolsOf' = toolsOf \cup {s}
    /\ switches' = switches + 1

\* use_skill: at the limit the run is suspended; a skill that is disabled, or was loaded
\* before, is refused; a new one is loaded, which is not a round.
UseSkill(s) ==
    /\ calls[1] = Use(s)
    /\ \/ /\ switches >= switchQuota
          /\ node' = "suspend" /\ limit' = "skill_switch"
          /\ UNCHANGED <<skillVars, agRound, results, onlyErrors>> /\ Rest
       \/ /\ switches < switchQuota /\ (s \notin enabled \/ s \in loadedIds)
          /\ NothingChanges(Result(IF s \in enabled THEN "already" ELSE "no skill", s))
       \/ /\ switches < switchQuota /\ s \in enabled \ loadedIds
          /\ PushSkill(s) /\ Record(Result("loaded", s)) /\ node' = "decide"
          /\ UNCHANGED <<agRound, limit>> /\ Rest

\* skill_switcher_node looks at the first call only. A continue hands it the deferred
\* call itself, which it takes for a list; a continue of a round limit hands it nothing.
SwitchSkill ==
    /\ node = "switch"
    /\ \/ /\ ~bare /\ calls # <<>>
          /\ ListSkills \/ DoneSkill \/ \E s \in Skill : UseSkill(s)
       \/ /\ ~bare /\ calls = <<>> /\ node' = "decide"
          /\ UNCHANGED <<skillVars, agRound, results, onlyErrors, limit>> /\ Rest
       \/ /\ bare /\ node' = "crashed"
          /\ UNCHANGED <<skillVars, agRound, results, onlyErrors, limit>> /\ Rest

-----------------------------------------------------------------------------
(* The end of the run, and its continuation. *)

\* _snapshot_state.
SnapshotOf ==
    [kind |-> limit, active |-> active, toolsOf |-> toolsOf, stack |-> stack,
     loadedIds |-> loadedIds, switches |-> switches, agRound |-> agRound,
     roundQuota |-> roundQuota, switchQuota |-> switchQuota,
     deferred |-> IF limit = "skill_switch" THEN calls ELSE <<>>,
     recent |-> recent, results |-> results, onlyErrors |-> onlyErrors]

\* chat.py stores the snapshot under the conversation and tells the user.
Suspend ==
    /\ node = "suspend" /\ node' = "suspended"
    /\ snapshot' = SnapshotOf
    /\ UNCHANGED <<branch, enabled, skillVars, quotaVars, talkVars, agRound, calls, bare, heals, limit>>

\* build_context_node, and the answer that chat.py has the model generate.
Finish ==
    /\ node = "answer" /\ node' = "answered"
    /\ snapshot' = NoSnapshot
    /\ UNCHANGED <<branch, enabled, skillVars, quotaVars, talkVars, agRound, calls, bare, heals, limit>>

\* Mutant: the counter of rounds starts again.
CountedRounds == 0

RoundsBefore == snapshot.agRound

\* The user continues, again after a failure that put the snapshot back:
\* _build_resume_initial_state takes most of the snapshot and recharges both quotas.
Continue ==
    /\ node \in {"suspended", "crashed"} /\ agContinues < quota[3]
    /\ agContinues' = agContinues + 1
    /\ node' = "switch" /\ limit' = "none"
    /\ active' = snapshot.active /\ toolsOf' = snapshot.toolsOf
    /\ stack' = <<>> /\ loadedIds' = {} /\ switches' = 0
    /\ agRound' = RoundsBefore
    /\ roundQuota' = snapshot.roundQuota + quota[1]
    /\ switchQuota' = snapshot.switchQuota + quota[2]
    /\ calls' = snapshot.deferred /\ bare' = (snapshot.deferred # <<>>)
    /\ recent' = snapshot.recent /\ results' = snapshot.results /\ onlyErrors' = snapshot.onlyErrors
    /\ UNCHANGED <<branch, enabled, heals, snapshot, executed, quota>>

\* The user stops: the snapshot goes, nothing is generated.
Stop ==
    /\ node \in {"suspended", "crashed"} /\ node' = "stopped"
    /\ snapshot' = NoSnapshot
    /\ UNCHANGED <<branch, enabled, skillVars, quotaVars, talkVars, agRound, calls, bare, heals, limit>>

\* A skill is disabled, at any time.
Disable(s) ==
    /\ s \in enabled /\ enabled' = enabled \ {s}
    /\ UNCHANGED <<node, branch, skillVars, quotaVars, talkVars, agRound, calls, bare, heals, limit,
                   snapshot>>

Node == \/ Enter \/ RouteSkill \/ Retrieve \/ LoadSkill
        \/ Consider \/ AskModel \/ Heal \/ AskAgain
        \/ ExecuteTools \/ SwitchSkill \/ Suspend \/ Finish

AgNext == Node \/ Continue \/ Stop \/ \E s \in Skill : Disable(s)

AgSpec == AgInit /\ [][AgNext]_agVars

\* The graph runs; each call of the model has a time budget.
AgFairness == WF_agVars(Node)

AgFairSpec == AgSpec /\ AgFairness

-----------------------------------------------------------------------------

Ended == node \in {"answered", "suspended", "stopped", "crashed"}

AgTypeOK ==
    /\ node \in {"start", "fanout", "decide", "ask", "heal", "nudge", "execute", "switch", "suspend",
                 "answer", "answered", "suspended", "stopped", "crashed"}
    /\ branch \subseteq {"router", "retrieval"} /\ enabled \subseteq Skill
    /\ active \in [id : Skill \cup {NoSkill}, body : BOOLEAN]
    /\ \A i \in DOMAIN stack : stack[i] \in Skill
    /\ loadedIds \subseteq Skill /\ toolsOf \subseteq Skill
    /\ calls \in Decision \cup {<<>>} /\ bare \in BOOLEAN
    /\ Len(recent) <= 3 /\ Len(results) <= 3 /\ heals \in 0..2
    /\ limit \in {"none", "tool_round", "skill_switch"}
    /\ quota \in Quotas
    /\ {agRound, switches, roundQuota, switchQuota, executed} \subseteq Nat

\* Whatever the model asks for, a run comes to an answer or a suspension.
AgentEnds == node \in {"start", "switch"} ~> Ended

\* All the rounds of tools of a question, before and after its suspensions, stay within the
\* quota the user granted.
RoundsWithinQuota == executed <= (agContinues + 1) * quota[1]

\* A deferred call can be replayed.
ReplaySurvives == node # "crashed"
=============================================================================
