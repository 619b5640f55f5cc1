------------------------------- MODULE CronJobs ------------------------------
(***************************************************************************)
(* Scheduled jobs: the scheduler's tick, run-now requests, the per-job     *)
(* lock, the statuses of cron_agent_runner.py and the management routes of *)
(* routers/cron_jobs.py.                                                   *)
(*                                                                         *)
(* Time is what it does to next_run_at: "none", "later" or "due". A        *)
(* handler that reads a row and commits it with no other await between is  *)
(* one step; an execution is cut where it awaits.                          *)
(***************************************************************************)
EXTENDS Integers, Sequences, FiniteSets, SequencesExt

CONSTANTS Job,         \* ids of jobs
          Managed,     \* bound: jobs that somebody edits or runs by hand
          RunNow,      \* requests that run a job now
          CronMax,     \* bound: max_runs of a job
          CronRuns,    \* bound: a job is triggered while it ran less often
          CronCrashes, \* bound: deaths of the process
          CronEdits    \* bound: requests that edit, toggle, reset or delete

ASSUME CronBounds == /\ CronMax \in Nat /\ CronRuns \in Nat
                     /\ CronCrashes \in Nat /\ CronEdits \in Nat
                     /\ IsFiniteSet(Job) /\ Job # {} /\ Managed \subseteq Job

VARIABLES job,         \* the cron_jobs rows
          opened,      \* cron_job_runs rows with status "running", per job
          lock,        \* _job_locks: the executor inside, or NoExecutor
          due,         \* jobs the current tick has still to run
          exec,        \* executors: where they are, on which job, previous_status
          lowered,     \* jobs whose max_runs was ever lowered
          cronCrashes, \* deaths of the process so far
          cronEdits    \* management requests so far

cronVars == <<job, opened, lock, due, exec, lowered, cronCrashes, cronEdits>>

Tick == "tick"
Executor == {Tick} \cup RunNow
NoExecutor == "nobody"
AnyJob == CHOOSE j \in Job : TRUE

ASSUME NobodyIsNoRequest == NoExecutor \notin RunNow

Resting == [at |-> "idle", job |-> AnyJob, prev |-> "scheduled"]
Absent == [status |-> "absent", next |-> "none", count |-> 0, max |-> 0, valid |-> TRUE]

Exists(j) == job[j].status \notin {"absent", "deleted"}

NewRow(m) == [Absent EXCEPT !.status = "scheduled", !.next = "later", !.max = m]

CronInit == /\ job = [j \in Job |-> Absent]
            /\ opened = [j \in Job |-> 0]
            /\ lock = [j \in Job |-> NoExecutor]
            /\ due = <<>>
            /\ exec = [e \in Executor |-> Resting]
            /\ lowered = {}
            /\ cronCrashes = 0 /\ cronEdits = 0

-----------------------------------------------------------------------------
(* Management. max_runs = 0 stands for NULL; valid says whether croniter   *)
(* accepts cron_expr.                                                      *)

EditJob(j, row) == /\ j \in Managed
                   /\ cronEdits < CronEdits
                   /\ cronEdits' = cronEdits + 1
                   /\ job' = [job EXCEPT ![j] = row]
                   /\ UNCHANGED <<lock, due, exec, cronCrashes>>

\* A job created in the management UI or by the agent's create_cron tool; an
\* expression nobody can parse raises before anything is stored.
CreateJob(j) ==
    /\ job[j].status = "absent"
    /\ \E m \in 0..CronMax : job' = [job EXCEPT ![j] = NewRow(m)]
    /\ UNCHANGED <<opened, lock, due, exec, lowered, cronCrashes, cronEdits>>

\* update_cron_job: a new expression is parsed only in some states, so a running or
\* completed job may get one that is not valid.
UpdateJob(j) ==
    /\ Exists(j)
    /\ \E valid \in BOOLEAN, m \in {job[j].max} \cup 1..CronMax :
          LET replans == job[j].status \in {"scheduled", "paused", "failed"} IN
          /\ replans => valid
          /\ EditJob(j, [job[j] EXCEPT !.valid = valid, !.max = m,
                         !.next = IF replans THEN "later" ELSE @,
                         !.status = IF @ = "failed" THEN "scheduled" ELSE @])
          /\ lowered' = IF m # 0 /\ (job[j].max = 0 \/ m < job[j].max)
                        THEN lowered \cup {j} ELSE lowered
    /\ UNCHANGED opened

\* toggle_cron_job: pause, or resume a paused or failed job.
ToggleJob(j) ==
    /\ \/ /\ job[j].status = "scheduled"
          /\ EditJob(j, [job[j] EXCEPT !.status = "paused", !.next = "none"])
       \/ /\ job[j].status \in {"paused", "failed"} /\ job[j].valid
          /\ EditJob(j, [job[j] EXCEPT !.status = "scheduled", !.next = "later"])
    /\ UNCHANGED <<opened, lowered>>

\* Mutant: the counter is not cleared.
ResetKeepsCount(j) ==
    /\ job[j].status = "completed" /\ job[j].valid
    /\ EditJob(j, [job[j] EXCEPT !.status = "scheduled", !.next = "later"])
    /\ UNCHANGED <<opened, lowered>>

\* reset_cron_job: a completed job starts over.
ResetJob(j) ==
    /\ job[j].status = "completed" /\ job[j].valid
    /\ EditJob(j, [job[j] EXCEPT !.status = "scheduled", !.next = "later", !.count = 0])
    /\ UNCHANGED <<opened, lowered>>

\* delete_cron_job: the job and its run rows, while it runs too.
DeleteJob(j) ==
    /\ Exists(j)
    /\ EditJob(j, [Absent EXCEPT !.status = "deleted"])
    /\ opened' = [opened EXCEPT ![j] = 0]
    /\ UNCHANGED lowered

-----------------------------------------------------------------------------
(* Triggers. *)

\* next_run_at passes.
TimePasses(j) ==
    /\ job[j].next = "later" /\ job[j].count < CronRuns
    /\ job' = [job EXCEPT ![j].next = "due"]
    /\ UNCHANGED <<opened, lock, due, exec, lowered, cronCrashes, cronEdits>>

IsDue(j) == job[j].status = "scheduled" /\ job[j].next = "due"

\* _tick selects the due jobs, once for the whole tick.
StartTick ==
    /\ exec[Tick].at = "idle" /\ due = <<>>
    /\ \E s \in SetToSeqs({j \in Job : IsDue(j)}) : s # <<>> /\ due' = s
    /\ UNCHANGED <<job, opened, lock, exec, lowered, cronCrashes, cronEdits>>

\* Mutant: the lock is taken whether or not somebody holds it.
TakeLockAnyway(e, j) ==
    /\ lock' = [lock EXCEPT ![j] = e]
    /\ exec' = [exec EXCEPT ![e] = [at |-> "locked", job |-> j, prev |-> "scheduled"]]

\* execute_and_record_cron_job: take the lock of the job, or skip.
TakeLock(e, j) ==
    IF lock[j] = NoExecutor
    THEN /\ lock' = [lock EXCEPT ![j] = e]
         /\ exec' = [exec EXCEPT ![e] = [at |-> "locked", job |-> j, prev |-> "scheduled"]]
    ELSE UNCHANGED <<lock, exec>>

\* The tick goes on to its next job, whatever became of that job meanwhile.
TickNext ==
    /\ exec[Tick].at = "idle" /\ due # <<>>
    /\ TakeLock(Tick, Head(due))
    /\ due' = Tail(due)
    /\ UNCHANGED <<job, opened, lowered, cronCrashes, cronEdits>>

\* run_cron_job_now; refused while the row says running or completed.
RunJobNow(e, j) ==
    /\ exec[e].at = "idle"
    /\ j \in Managed
    /\ Exists(j) /\ job[j].status \notin {"running", "completed"} /\ job[j].count < CronRuns
    /\ TakeLock(e, j)
    /\ UNCHANGED <<job, opened, due, lowered, cronCrashes, cronEdits>>

-----------------------------------------------------------------------------
(* An execution: _execute_and_record_locked. *)

\* The execution is over and leaves the lock.
Leave(e) == /\ lock' = [lock EXCEPT ![exec[e].job] = NoExecutor]
            /\ exec' = [exec EXCEPT ![e] = Resting]

\* Mutant: an early return does not leave the lock.
RefuseRunKeepsLock(e) ==
    /\ exec[e].at = "locked"
    /\ job[exec[e].job].status \in {"absent", "deleted", "running", "completed"}
    /\ exec' = [exec EXCEPT ![e] = Resting]
    /\ UNCHANGED <<job, opened, lock, due, lowered, cronCrashes, cronEdits>>

\* The job is gone, or its status says that it runs or is completed.
RefuseRun(e) ==
    /\ exec[e].at = "locked"
    /\ job[exec[e].job].status \in {"absent", "deleted", "running", "completed"}
    /\ Leave(e)
    /\ UNCHANGED <<job, opened, due, lowered, cronCrashes, cronEdits>>

\* Any other status is kept as previous_status.
CheckStatus(e) ==
    /\ exec[e].at = "locked"
    /\ job[exec[e].job].status \in {"scheduled", "paused", "failed"}
    /\ exec' = [exec EXCEPT ![e].at = "checked", ![e].prev = job[exec[e].job].status]
    /\ UNCHANGED <<job, opened, lock, due, lowered, cronCrashes, cronEdits>>

\* The job is marked as running, whatever its status is by now; the commit raises when
\* it was deleted.
Claim(e) ==
    /\ exec[e].at = "checked"
    /\ IF Exists(exec[e].job)
       THEN /\ job' = [job EXCEPT ![exec[e].job].status = "running"]
            /\ exec' = [exec EXCEPT ![e].at = "claimed"]
            /\ UNCHANGED lock
       ELSE Leave(e) /\ UNCHANGED job
    /\ UNCHANGED <<opened, due, lowered, cronCrashes, cronEdits>>

\* The run row is stored and the agent starts.
Work(e) ==
    /\ exec[e].at = "claimed"
    /\ opened' = [opened EXCEPT ![exec[e].job] = @ + 1]
    /\ exec' = [exec EXCEPT ![e].at = "working"]
    /\ UNCHANGED <<job, lock, due, lowered, cronCrashes, cronEdits>>

\* The row after a run that gave an answer; an invalid expression raises after the
\* run was counted. The agent's own errors are answers.
AfterRun(row, prev) ==
    LET n == row.count + 1 IN
    IF row.max # 0 /\ n >= row.max
    THEN [row EXCEPT !.count = n, !.status = "completed", !.next = "none"]
    ELSE IF prev = "scheduled"
         THEN IF row.valid THEN [row EXCEPT !.count = n, !.status = "scheduled", !.next = "later"]
                           ELSE [row EXCEPT !.count = n, !.status = "failed"]
         ELSE [row EXCEPT !.count = n, !.status = prev]

\* The result is stored; when the job was deleted meanwhile the commit raises.
Record(e) ==
    LET j == exec[e].job IN
    /\ exec[e].at = "working"
    /\ IF Exists(j)
       THEN /\ \/ job' = [job EXCEPT ![j] = AfterRun(@, exec[e].prev)]
               \/ job' = [job EXCEPT ![j].status = "failed"]
            /\ opened' = [opened EXCEPT ![j] = @ - 1]
            /\ exec' = [exec EXCEPT ![e].at = "recorded"]
            /\ UNCHANGED lock
       ELSE Leave(e) /\ UNCHANGED <<job, opened>>
    /\ UNCHANGED <<due, lowered, cronCrashes, cronEdits>>

\* The owner is notified and the lock is left.
NotifyOwner(e) ==
    /\ exec[e].at = "recorded"
    /\ Leave(e)
    /\ UNCHANGED <<job, opened, due, lowered, cronCrashes, cronEdits>>

\* The process dies and starts again; no status is repaired.
CronRestart ==
    /\ cronCrashes < CronCrashes
    /\ cronCrashes' = cronCrashes + 1
    /\ lock' = [j \in Job |-> NoExecutor]
    /\ due' = <<>>
    /\ exec' = [e \in Executor |-> Resting]
    /\ UNCHANGED <<job, opened, lowered, cronEdits>>

Manage == \E j \in Job : CreateJob(j) \/ UpdateJob(j) \/ ToggleJob(j) \/ ResetJob(j) \/ DeleteJob(j)
Trigger == \/ \E j \in Job : TimePasses(j) \/ \E e \in RunNow : RunJobNow(e, j)
           \/ StartTick \/ TickNext
ExecuteJob(e) == RefuseRun(e) \/ CheckStatus(e) \/ Claim(e) \/ Work(e) \/ Record(e) \/ NotifyOwner(e)

CronNext == Manage \/ Trigger \/ (\E e \in Executor : ExecuteJob(e)) \/ CronRestart

CronSpec == CronInit /\ [][CronNext]_cronVars

\* The scheduler goes on ticking, and an execution ends: LLM calls have a budget.
CronFairness == /\ WF_cronVars(StartTick) /\ WF_cronVars(TickNext)
                /\ \A e \in Executor : WF_cronVars(ExecuteJob(e))

-----------------------------------------------------------------------------

Executing(j) == {e \in Executor : exec[e].job = j /\ exec[e].at \in {"claimed", "working"}}

CronTypeOK ==
    /\ job \in [Job -> [status : {"absent", "scheduled", "running", "paused", "completed",
                                  "failed", "deleted"},
                        next : {"none", "later", "due"}, count : Nat, max : 0..CronMax,
                        valid : BOOLEAN]]
    /\ opened \in [Job -> Nat]
    /\ lock \in [Job -> Executor \cup {NoExecutor}]
    /\ due \in Seq(Job)
    /\ exec \in [Executor -> [at : {"idle", "locked", "checked", "claimed", "working", "recorded"},
                              job : Job, prev : {"scheduled", "paused", "failed"}]]
    /\ lowered \subseteq Job
    /\ cronCrashes \in 0..CronCrashes /\ cronEdits \in 0..CronEdits

\* A job never has two executions at a time, whoever triggers them; while one works
\* the row says so, and it has the only open run row of a process that never died.
OneExecution ==
    \A j \in Job :
        /\ Cardinality(Executing(j)) <= 1
        /\ Exists(j) /\ Executing(j) # {} => job[j].status = "running"
        /\ Exists(j) /\ cronCrashes = 0 =>
              opened[j] = Cardinality({e \in Executing(j) : exec[e].at = "working"})

\* A scheduled job will run again: it has a valid expression and a next run, and
\* a run left unless its limit was lowered.
ScheduledRunsAgain ==
    \A j \in Job : job[j].status = "scheduled" =>
        /\ job[j].next # "none" /\ job[j].valid
        /\ job[j].max # 0 /\ j \notin lowered => job[j].count < job[j].max

\* A due job is run, or paused or deleted before: the tick reaches it whatever
\* happens to the jobs before it.
DueJobsRun == \A j \in Job : IsDue(j) ~> ~IsDue(j)
=============================================================================
