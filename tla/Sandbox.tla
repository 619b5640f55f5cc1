------------------------------- MODULE Sandbox -------------------------------
(***************************************************************************)
(* The code sandbox (mcp/repl_mcp_server.py), the backend that signs calls *)
(* for it (services/mcp_client.py) and the two settings the backend owns   *)
(* and pushes to it (routers/config.py): the shared secret, which the      *)
(* sandbox keeps in memory only, and the network policy, which it also     *)
(* writes to a file.                                                       *)
(*                                                                         *)
(* A setting is the number of its last save.  A push is a request that may *)
(* arrive late, be lost, or be applied while its answer is lost.           *)
(***************************************************************************)
EXTENDS Naturals, FiniteSets

CONSTANTS Channel,  \* settings that are saved and pushed: "secret", "policy" or both
          SbCall,   \* calls of a tool that run at the same time
          Saver,    \* requests of administrators that save a setting
          Slots,    \* _max_concurrent
          SbSaves,  \* bound: saves of a setting
          SbLosses, \* bound: pushes that are lost though the sandbox is up, client timeouts
          SbCrashes \* bound: deaths of the sandbox and of the backend

ASSUME SbBounds == /\ Channel \subseteq {"secret", "policy"}
                   /\ Slots \in Nat \ {0} /\ SbSaves \in Nat
                   /\ SbLosses \in Nat /\ SbCrashes \in Nat

Setting == {"secret", "policy"}
None == 0      \* the sandbox holds no secret; settings count from 1

VARIABLES saved,     \* the backend's settings
          held,      \* what the sandbox has of them
          pending,   \* _auth_secret_pending, _network_policy_pending
          loop,      \* the retry loops: "off", "start", "sleep" or "send", and the payload
          saver,     \* saving requests
          fresh,     \* a re-push succeeded less than the debounce window ago
          healer,    \* the call inside _repush_lock with its payload, or NoHealer
          call,      \* calls as the backend sees them
          runs,      \* how often the sandbox started the code of the call
          running,   \* calls whose code runs in the sandbox
          up, booted, sbLosses, sbCrashes

sbVars == <<saved, held, pending, loop, saver, fresh, healer, call, runs,
            running, up, booted, sbLosses, sbCrashes>>
settingVars == <<saved, held, pending, loop, saver>>
callVars == <<call, runs, running, fresh, healer>>
faultVars == <<up, booted, sbLosses, sbCrashes>>

NoHealer == [who |-> "nobody", val |-> None]
Unsent == [at |-> "idle", sig |-> None, retried |-> FALSE]
NotSaving == [at |-> "idle", ch |-> "secret", val |-> None]
Loop(at, v) == [at |-> at, val |-> v]

SbInit == /\ saved = [ch \in Setting |-> 1]
          /\ held = [secret |-> None, policy |-> 1]
          /\ pending = [ch \in Setting |-> FALSE]
          /\ loop = [ch \in Setting |-> Loop("off", None)]
          /\ saver = [s \in Saver |-> NotSaving]
          /\ fresh = FALSE /\ healer = NoHealer
          /\ call = [c \in SbCall |-> Unsent]
          /\ runs = [c \in SbCall |-> 0] /\ running = {}
          /\ up \in BOOLEAN /\ booted = FALSE
          /\ sbLosses = 0 /\ sbCrashes = 0

-----------------------------------------------------------------------------
(* Pushes.  The caller learns of success only when the sandbox applied the *)
(* value; a failure may hide an applied value (the answer timed out).      *)

Applied(ch, v) == held' = [held EXCEPT ![ch] = v]

PushWorks(ch, v) == up /\ Applied(ch, v) /\ UNCHANGED sbLosses
PushFails(ch, v) == \/ ~up /\ UNCHANGED <<held, sbLosses>>
                    \/ /\ up /\ sbLosses < SbLosses /\ sbLosses' = sbLosses + 1
                       /\ (Applied(ch, v) \/ UNCHANGED held)

(* lifespan: both settings are pushed before a request is served; the loop *)
(* of a setting that could not be pushed is started.                       *)
Boot == /\ ~booted /\ booted' = TRUE
        /\ \E got \in SUBSET Channel :
             /\ got # {} => up
             /\ Channel \ got # {} => ~up
             /\ held' = [ch \in Setting |-> IF ch \in got THEN saved[ch] ELSE held[ch]]
             /\ pending' = [ch \in Setting |-> ch \in Channel \ got]
             /\ loop' = [ch \in Setting |-> Loop(IF ch \in Channel \ got THEN "start" ELSE "off", None)]
        /\ UNCHANGED <<saved, saver, callVars, up, sbLosses, sbCrashes>>

(* config_manager.update changes the setting in memory, then awaits the    *)
(* database.  The secret that is pushed is the one this request generated, *)
(* the policy is read when the payload is built.                           *)
Save(s, ch) == /\ booted /\ saver[s].at = "idle" /\ saved["secret"] + saved["policy"] < SbSaves + 2
               /\ saved' = [saved EXCEPT ![ch] = @ + 1]
               /\ saver' = [saver EXCEPT ![s] = [at |-> "saving", ch |-> ch, val |-> saved[ch] + 1]]
               /\ UNCHANGED <<held, pending, loop, callVars, faultVars>>

Payload(s) == IF saver[s].ch = "secret" THEN saver[s].val ELSE saved["policy"]

Send(s) == /\ saver[s].at = "saving"
           /\ saver' = [saver EXCEPT ![s] = [@ EXCEPT !.at = "sending", !.val = Payload(s)]]
           /\ UNCHANGED <<saved, held, pending, loop, callVars, faultVars>>

NotifySandbox(s) == LET ch == saver[s].ch
                 v == saver[s].val
             IN /\ saver[s].at = "sending"
                /\ \/ /\ PushWorks(ch, v)
                      /\ pending' = [pending EXCEPT ![ch] = FALSE]
                      /\ UNCHANGED loop
                   \/ /\ PushFails(ch, v)
                      /\ pending' = [pending EXCEPT ![ch] = TRUE]
                      /\ loop' = IF loop[ch].at = "off"
                                 THEN [loop EXCEPT ![ch] = Loop("start", None)] ELSE loop
                /\ saver' = [saver EXCEPT ![s] = NotSaving]
                /\ UNCHANGED <<saved, callVars, up, booted, sbCrashes>>

(* The retry loop: it sets pending when it starts and stops when somebody  *)
(* succeeded.                                                              *)
LoopWakes(ch) == /\ booted /\ loop[ch].at \in {"start", "sleep"}
                 /\ IF loop[ch].at = "start" \/ pending[ch]
                    THEN /\ pending' = [pending EXCEPT ![ch] = TRUE]
                         /\ loop' = [loop EXCEPT ![ch] = Loop("send", saved[ch])]
                    ELSE /\ loop' = [loop EXCEPT ![ch] = Loop("off", None)]
                         /\ UNCHANGED pending
                 /\ UNCHANGED <<saved, held, saver, callVars, faultVars>>

LoopSends(ch) == /\ loop[ch].at = "send"
                 /\ \/ /\ PushWorks(ch, loop[ch].val)
                       /\ pending' = [pending EXCEPT ![ch] = FALSE]
                       /\ loop' = [loop EXCEPT ![ch] = Loop("off", None)]
                    \/ /\ PushFails(ch, loop[ch].val)
                       /\ loop' = [loop EXCEPT ![ch] = Loop("sleep", None)]
                       /\ UNCHANGED pending
                 /\ UNCHANGED <<saved, saver, callVars, up, booted, sbCrashes>>

-----------------------------------------------------------------------------
(* Calls.                                                                  *)

CallMoves(c, at) == call' = [call EXCEPT ![c].at = at]

(* call_tool signs the arguments with the secret in force and sends them.  *)
IssueCall(c) == /\ booted /\ call[c].at = "idle" /\ c \notin running
                /\ call' = [call EXCEPT ![c] = [at |-> "sent", sig |-> saved["secret"], retried |-> FALSE]]
                /\ runs' = [runs EXCEPT ![c] = 0]
                /\ UNCHANGED <<settingVars, running, fresh, healer, faultVars>>

(* do_POST verifies the envelope.  A secret that is missing or another one *)
(* is code -32002, for which the backend repairs the secret, once.         *)
SecretError(c) == held["secret"] = None \/ held["secret"] # call[c].sig

(* Mutant: only a missing secret is worth a repair, another one is not.    *)
RefuseOnlyMissing(c) ==
             /\ call[c].at = "sent" /\ up /\ c \notin running /\ SecretError(c)
             /\ CallMoves(c, IF call[c].retried \/ held["secret"] # None THEN "idle" ELSE "refused")
             /\ UNCHANGED <<settingVars, runs, running, fresh, healer, faultVars>>

RefuseCall(c) == /\ call[c].at = "sent" /\ up /\ c \notin running /\ SecretError(c)
                 /\ CallMoves(c, IF call[c].retried THEN "idle" ELSE "refused")
                 /\ UNCHANGED <<settingVars, runs, running, fresh, healer, faultVars>>

(* The executor: a slot or "Server busy", then the code.                   *)
ExecuteCode(c) == /\ call[c].at = "sent" /\ up /\ c \notin running /\ ~SecretError(c)
                  /\ IF Cardinality(running) < Slots
                     THEN /\ running' = running \cup {c}
                          /\ runs' = [runs EXCEPT ![c] = @ + 1]
                          /\ CallMoves(c, "executing")
                     ELSE CallMoves(c, "idle") /\ UNCHANGED <<runs, running>>
                  /\ UNCHANGED <<settingVars, fresh, healer, faultVars>>

(* The code ends or is timed out: the slot is released in both cases.      *)
Return(c) == /\ c \in running
             /\ running' = running \ {c}
             /\ call' = IF call[c].at = "executing" THEN [call EXCEPT ![c].at = "idle"] ELSE call
             /\ UNCHANGED <<settingVars, runs, fresh, healer, faultVars>>

(* Mutant: every failure of a call is repaired and repeated.               *)
FailuresAreRepeated(c) == IF call[c].retried THEN CallMoves(c, "idle") ELSE CallMoves(c, "refused")

(* A failure without a code (the sandbox is down, the client timed out     *)
(* though the code runs) is returned as it is.                             *)
CallFails(c) == CallMoves(c, "idle")

CallLost(c) == /\ call[c].at \in {"sent", "executing"}
               /\ \/ ~up /\ UNCHANGED sbLosses
                  \/ up /\ sbLosses < SbLosses /\ sbLosses' = sbLosses + 1
               /\ CallFails(c)
               /\ UNCHANGED <<settingVars, runs, running, fresh, healer, up, booted, sbCrashes>>

(* _repush_repl_auth_secret: within the debounce window the repair of      *)
(* another call counts; the call is then signed anew and sent again.       *)
Again(c) == call' = [call EXCEPT ![c] = [at |-> "sent", sig |-> saved["secret"], retried |-> TRUE]]

Heal(c) == /\ call[c].at = "refused" /\ healer = NoHealer
           /\ IF fresh THEN Again(c) /\ UNCHANGED healer
              ELSE /\ healer' = [who |-> c, val |-> saved["secret"]]
                   /\ CallMoves(c, "healing")
           /\ UNCHANGED <<settingVars, runs, running, fresh, faultVars>>

Healed(c) == /\ call[c].at = "healing" /\ healer.who = c
             /\ \/ PushWorks("secret", healer.val) /\ fresh' = TRUE /\ Again(c)
                \/ PushFails("secret", healer.val) /\ CallMoves(c, "idle") /\ UNCHANGED fresh
             /\ healer' = NoHealer
             /\ UNCHANGED <<saved, pending, loop, saver, runs, running, up, booted, sbCrashes>>

WindowEnds == /\ fresh /\ fresh' = FALSE
              /\ UNCHANGED <<settingVars, call, runs, running, healer, faultVars>>

-----------------------------------------------------------------------------
SandboxDies == /\ up /\ sbCrashes < SbCrashes /\ sbCrashes' = sbCrashes + 1
               /\ up' = FALSE
               /\ held' = [held EXCEPT !["secret"] = None]
               /\ running' = {}
               /\ call' = [c \in SbCall |-> IF call[c].at = "executing"
                                           THEN [call[c] EXCEPT !.at = "idle"] ELSE call[c]]
               /\ UNCHANGED <<saved, pending, loop, saver, runs, fresh, healer, booted, sbLosses>>

SandboxStarts == /\ ~up /\ up' = TRUE
                 /\ UNCHANGED <<settingVars, callVars, booted, sbLosses, sbCrashes>>

BackendDies == /\ booted /\ sbCrashes < SbCrashes /\ sbCrashes' = sbCrashes + 1
               /\ booted' = FALSE
               /\ pending' = [ch \in Setting |-> FALSE]
               /\ loop' = [ch \in Setting |-> Loop("off", None)]
               /\ saver' = [s \in Saver |-> NotSaving]
               /\ fresh' = FALSE /\ healer' = NoHealer
               /\ call' = [c \in SbCall |-> Unsent]
               /\ UNCHANGED <<saved, held, runs, running, up, sbLosses>>

SbNext == \/ Boot \/ WindowEnds \/ SandboxDies \/ SandboxStarts \/ BackendDies
          \/ \E s \in Saver : (\E ch \in Channel : Save(s, ch)) \/ Send(s) \/ NotifySandbox(s)
          \/ \E ch \in Channel : LoopWakes(ch) \/ LoopSends(ch)
          \/ \E c \in SbCall : \/ IssueCall(c) \/ RefuseCall(c) \/ ExecuteCode(c) \/ Return(c)
                               \/ CallLost(c) \/ Heal(c) \/ Healed(c)

SbSpec == SbInit /\ [][SbNext]_sbVars

(* Containers are restarted, requests in flight are answered, and users    *)
(* keep calling; saves, losses and deaths need not happen.                 *)
CallProgress(c) == IssueCall(c) \/ RefuseCall(c) \/ ExecuteCode(c) \/ Return(c) \/ Heal(c) \/ Healed(c)
SbFairness == /\ WF_sbVars(Boot) /\ WF_sbVars(WindowEnds) /\ WF_sbVars(SandboxStarts)
              /\ \A s \in Saver : WF_sbVars(Send(s) \/ NotifySandbox(s))
              /\ \A ch \in Channel : WF_sbVars(LoopWakes(ch) \/ LoopSends(ch))
              /\ \A c \in SbCall : WF_sbVars(CallProgress(c))

-----------------------------------------------------------------------------
(* However often the backend repairs and repeats a call, and whatever the  *)
(* client misses, the sandbox starts its code at most once, and never on   *)
(* more slots than it has.                                                 *)
CodeRunsOnce == /\ \A c \in SbCall : runs[c] <= 1
                /\ Cardinality(running) <= Slots

(* After restarts, lost pushes and rotations in any order, the sandbox     *)
(* comes back to the secret in force as long as somebody calls it.         *)
SecretReturns == []<>(held["secret"] = saved["secret"])

(* notify_network_policy_changed promises "the policy is applied once MCP  *)
(* becomes reachable".                                                     *)
PolicyReturns == []<>(held["policy"] = saved["policy"])

=============================================================================
