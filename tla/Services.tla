------------------------------- MODULE Services ------------------------------
(***************************************************************************)
(* The services of the backend that share no state: scheduled jobs, model  *)
(* downloads, the answer cache, the sandbox's settings and calls, and the  *)
(* skill store.  No property of one reads the variables of another, so     *)
(* what the program does to one of them is what it does when only that one *)
(* moves: focus says which, and the others rest where they start.          *)
(***************************************************************************)
EXTENDS CronJobs, ModelDownloads, AnswerCache, Sandbox, SkillStore

VARIABLE focus   \* the service that moves

Service == {"cron", "downloads", "cache", "sandbox", "skills"}

servicesVars == <<focus, cronVars, dlVars, cacheVars, sbVars, skVars>>

ServicesInit == /\ focus \in Service
                /\ CronInit /\ DlInit /\ CacheInit /\ SbInit /\ SkInit
                /\ focus # "cache" => instruction = CHOOSE f \in [CacheKb -> Instruction] : TRUE
                /\ focus # "sandbox" => up

Cron == /\ focus = "cron" /\ CronNext
        /\ UNCHANGED <<focus, dlVars, cacheVars, sbVars, skVars>>
Downloads == /\ focus = "downloads" /\ DlNext
             /\ UNCHANGED <<focus, cronVars, cacheVars, sbVars, skVars>>
Caching == /\ focus = "cache" /\ CacheNext
           /\ UNCHANGED <<focus, cronVars, dlVars, sbVars, skVars>>
Sandboxing == /\ focus = "sandbox" /\ SbNext
              /\ UNCHANGED <<focus, cronVars, dlVars, cacheVars, skVars>>
Skills == /\ focus = "skills" /\ SkNext
          /\ UNCHANGED <<focus, cronVars, dlVars, cacheVars, sbVars>>

ServicesNext == Cron \/ Downloads \/ Caching \/ Sandboxing \/ Skills

(* CronFairness, DlFairness and SbFairness, each of the service that moves *)
(* and of no other: a service at rest is not unfair.                       *)
ServicesFairness ==
    /\ WF_cronVars(focus = "cron" /\ StartTick) /\ WF_cronVars(focus = "cron" /\ TickNext)
    /\ \A e \in Executor : WF_cronVars(focus = "cron" /\ ExecuteJob(e))
    /\ \A w \in Worker : WF_dlVars(focus = "downloads" /\ Run(w))
    /\ WF_sbVars(focus = "sandbox" /\ Boot) /\ WF_sbVars(focus = "sandbox" /\ WindowEnds)
    /\ WF_sbVars(focus = "sandbox" /\ SandboxStarts)
    /\ \A s \in Saver : WF_sbVars(focus = "sandbox" /\ (Send(s) \/ NotifySandbox(s)))
    /\ \A ch \in Channel : WF_sbVars(focus = "sandbox" /\ (LoopWakes(ch) \/ LoopSends(ch)))
    /\ \A c \in SbCall : WF_sbVars(focus = "sandbox" /\ CallProgress(c))

ServicesSpec == ServicesInit /\ [][ServicesNext]_servicesVars /\ ServicesFairness

-----------------------------------------------------------------------------
(* SecretReturns of the sandbox that is used: after restarts of either     *)
(* side, lost pushes and rotations in any order, it comes back to the      *)
(* secret in force as long as somebody calls it (_repush_repl_auth_secret, *)
(* the retry loop of routers/config.py).                                   *)
SandboxSecretReturns == focus = "sandbox" => SecretReturns
=============================================================================
