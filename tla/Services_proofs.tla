--------------------------- MODULE Services_proofs ---------------------------
(***************************************************************************)
(* Proofs about the services of the backend: the executions and the rows   *)
(* of scheduled jobs, the calls of the sandbox, the answer cache, the      *)
(* skill store and the downloads of models.                                *)
(***************************************************************************)
EXTENDS Services, QueueFacts

-----------------------------------------------------------------------------
(* Scheduled jobs: their executions.                                       *)

\* Executors whose run row is open.
WorkingOn(j) == {e \in Executor : exec[e].job = j /\ exec[e].at = "working"}

\* The shape of the tables; the values that no step looks at are left open.
Shape ==
    /\ DOMAIN job = Job
    /\ \A j \in Job : DOMAIN job[j] = {"status", "next", "count", "max", "valid"}
    /\ DOMAIN lock = Job /\ DOMAIN opened = Job
    /\ exec \in [Executor -> [at : {"idle", "locked", "checked", "claimed", "working", "recorded"},
                              job : Job, prev : {"scheduled", "paused", "failed"}]]
    /\ due \in Seq(Job)
    /\ cronCrashes \in Nat

\* Whoever executes a job holds its lock; the row of the job says that it runs, unless
\* it was deleted meanwhile; and the open run rows are those of the executors.
ExecutionInv ==
    /\ Shape
    /\ \A e \in Executor : exec[e].at # "idle" => lock[exec[e].job] = e
    /\ \A e \in Executor : exec[e].at \in {"claimed", "working"} =>
                              job[exec[e].job].status \in {"running", "deleted"}
    /\ \A j \in Job : job[j].status = "absent" => opened[j] = 0
    /\ \A j \in Job : Exists(j) /\ cronCrashes = 0 =>
                         opened[j] = IF WorkingOn(j) = {} THEN 0 ELSE 1

\* What an edit of one row may do to it.
Edited(j) ==
    /\ \E rec : /\ job' = [job EXCEPT ![j] = rec]
                /\ DOMAIN rec = {"status", "next", "count", "max", "valid"}
                /\ job[j].status \in {"running", "deleted"} => rec.status \in {job[j].status, "deleted"}
                /\ rec.status # "absent"
                /\ rec.status # "deleted" => Exists(j) \/ job[j].status = "absent"
    /\ UNCHANGED <<lock, due, exec, cronCrashes>>

\* An edit of the rows that are read leaves the executions as they are.
LEMMA Edits ==
    ASSUME ExecutionInv, NEW j \in Job, Edited(j),
           \/ UNCHANGED opened
           \/ opened' = [opened EXCEPT ![j] = 0] /\ job'[j].status = "deleted"
    PROVE  ExecutionInv'
    <1> USE DEF ExecutionInv, Shape
    <1>1. PICK rec : /\ job' = [job EXCEPT ![j] = rec]
                     /\ DOMAIN rec = {"status", "next", "count", "max", "valid"}
                     /\ job[j].status \in {"running", "deleted"} => rec.status \in {job[j].status, "deleted"}
                     /\ rec.status # "absent"
                     /\ rec.status # "deleted" => Exists(j) \/ job[j].status = "absent"
        BY DEF Edited
    <1>2. Shape' /\ WorkingOn(j)' = WorkingOn(j)
        BY <1>1 DEF Edited, WorkingOn
    <1>3. \A e \in Executor : exec'[e].at # "idle" => lock'[exec'[e].job] = e
        BY DEF Edited
    <1>4. \A e \in Executor : exec'[e].at \in {"claimed", "working"} =>
                                 job'[exec'[e].job].status \in {"running", "deleted"}
        BY <1>1 DEF Edited
    <1>5. \A i \in Job : job'[i].status = "absent" => opened'[i] = 0
        BY <1>1
    <1>6. ASSUME NEW i \in Job, Exists(i)', cronCrashes' = 0
          PROVE  opened'[i] = IF WorkingOn(i)' = {} THEN 0 ELSE 1
      <2>1. WorkingOn(i)' = WorkingOn(i)
          BY DEF Edited, WorkingOn
      <2>2. CASE i # j
          BY <1>1, <1>6, <2>1, <2>2 DEF Edited, Exists
      <2>3. CASE i = j /\ Exists(j)
          BY <1>1, <1>6, <2>1, <2>3 DEF Edited, Exists
      <2>4. CASE i = j /\ job[j].status = "absent"
        <3>1. WorkingOn(j) = {}
            BY <2>4 DEF WorkingOn
        <3> QED BY <1>1, <1>6, <2>1, <2>4, <3>1 DEF Exists
      <2> QED BY <1>1, <1>6, <2>2, <2>3, <2>4 DEF Exists
    <1> QED BY <1>2, <1>3, <1>4, <1>5, <1>6

-----------------------------------------------------------------------------
(* The management routes. *)

\* A new job has no execution.
LEMMA Creating ==
    ASSUME ExecutionInv, NEW j \in Job, CreateJob(j)
    PROVE  ExecutionInv'
    <1>1. PICK m \in 0..CronMax : job' = [job EXCEPT ![j] = NewRow(m)]
        BY DEF CreateJob
    <1> DEFINE rec == NewRow(m)
    <1>2. /\ job' = [job EXCEPT ![j] = rec]
          /\ DOMAIN rec = {"status", "next", "count", "max", "valid"}
          /\ rec.status = "scheduled"
        BY <1>1 DEF NewRow, Absent
    <1>3. job[j].status = "absent" /\ UNCHANGED <<opened, lock, due, exec, cronCrashes>>
        BY DEF CreateJob
    <1> HIDE DEF rec
    <1>4. Edited(j)
        BY <1>2, <1>3 DEF Edited
    <1> QED BY <1>3, <1>4, Edits

\* An edit of one row is such an edit.
LEMMA EditingOneRow ==
    ASSUME ExecutionInv, NEW j \in Job, NEW rec, EditJob(j, rec), Exists(j),
           DOMAIN rec = {"status", "next", "count", "max", "valid"},
           job[j].status = "running" => rec.status \in {"running", "deleted"},
           rec.status # "absent",
           \/ UNCHANGED opened
           \/ opened' = [opened EXCEPT ![j] = 0] /\ rec.status = "deleted"
    PROVE  ExecutionInv'
    <1>1. Edited(j)
        BY DEF Edited, EditJob, Exists
    <1>2. job'[j] = rec
        BY DEF EditJob, ExecutionInv, Shape
    <1> QED BY <1>1, <1>2, Edits

\* An update leaves the executions alone.
LEMMA Updating ==
    ASSUME ExecutionInv, NEW j \in Job, UpdateJob(j)
    PROVE  ExecutionInv'
    <1>1. PICK valid \in BOOLEAN, m \in {job[j].max} \cup 1..CronMax :
             EditJob(j, [job[j] EXCEPT !.valid = valid, !.max = m,
                         !.next = IF job[j].status \in {"scheduled", "paused", "failed"} THEN "later" ELSE @,
                         !.status = IF @ = "failed" THEN "scheduled" ELSE @])
        BY DEF UpdateJob
    <1> DEFINE rec == [job[j] EXCEPT !.valid = valid, !.max = m,
                         !.next = IF job[j].status \in {"scheduled", "paused", "failed"} THEN "later" ELSE @,
                         !.status = IF @ = "failed" THEN "scheduled" ELSE @]
    <1>2. Exists(j) /\ UNCHANGED opened
        BY DEF UpdateJob
    <1>3. /\ DOMAIN rec = {"status", "next", "count", "max", "valid"}
          /\ rec.status = IF job[j].status = "failed" THEN "scheduled" ELSE job[j].status
        BY DEF ExecutionInv, Shape
    <1>4. EditJob(j, rec)
        BY <1>1
    <1> HIDE DEF rec
    <1>5. rec.status # "absent" /\ (job[j].status = "running" => rec.status = "running")
        BY <1>2, <1>3 DEF Exists
    <1> QED BY <1>2, <1>3, <1>4, <1>5, EditingOneRow

\* A pause or a resume leaves the executions alone.
LEMMA Toggling ==
    ASSUME ExecutionInv, NEW j \in Job, ToggleJob(j)
    PROVE  ExecutionInv'
    <1> DEFINE halted == [job[j] EXCEPT !.status = "paused", !.next = "none"]
               resumed == [job[j] EXCEPT !.status = "scheduled", !.next = "later"]
    <1>1. /\ DOMAIN halted = {"status", "next", "count", "max", "valid"} /\ halted.status = "paused"
          /\ DOMAIN resumed = {"status", "next", "count", "max", "valid"}
          /\ resumed.status = "scheduled"
        BY DEF ExecutionInv, Shape
    <1>2. PICK rec \in {halted, resumed} : EditJob(j, rec)
        BY DEF ToggleJob
    <1>3. Exists(j) /\ job[j].status # "running" /\ UNCHANGED opened
        BY DEF ToggleJob, Exists
    <1> HIDE DEF halted, resumed
    <1> QED BY <1>1, <1>2, <1>3, EditingOneRow

\* So does a reset.
LEMMA Resetting ==
    ASSUME ExecutionInv, NEW j \in Job, ResetJob(j)
    PROVE  ExecutionInv'
    <1> DEFINE rec == [job[j] EXCEPT !.status = "scheduled", !.next = "later", !.count = 0]
    <1>1. DOMAIN rec = {"status", "next", "count", "max", "valid"} /\ rec.status = "scheduled"
        BY DEF ExecutionInv, Shape
    <1>2. EditJob(j, rec) /\ Exists(j) /\ job[j].status # "running" /\ UNCHANGED opened
        BY DEF ResetJob, Exists
    <1> HIDE DEF rec
    <1> QED BY <1>1, <1>2, EditingOneRow

\* A deletion closes the open run row.
LEMMA Deleting ==
    ASSUME ExecutionInv, NEW j \in Job, DeleteJob(j)
    PROVE  ExecutionInv'
    <1> DEFINE rec == [Absent EXCEPT !.status = "deleted"]
    <1>1. DOMAIN rec = {"status", "next", "count", "max", "valid"} /\ rec.status = "deleted"
        BY DEF Absent
    <1>2. EditJob(j, rec) /\ Exists(j) /\ opened' = [opened EXCEPT ![j] = 0]
        BY DEF DeleteJob
    <1> HIDE DEF rec
    <1> QED BY <1>1, <1>2, EditingOneRow

-----------------------------------------------------------------------------
(* The triggers. *)

\* Time that passes makes jobs due and does nothing else.
LEMMA Passing ==
    ASSUME ExecutionInv, NEW j \in Job, TimePasses(j)
    PROVE  ExecutionInv'
    <1> DEFINE rec == [job[j] EXCEPT !.next = "due"]
    <1>1. DOMAIN rec = {"status", "next", "count", "max", "valid"} /\ rec.status = job[j].status
        BY DEF ExecutionInv, Shape
    <1>2. /\ job' = [job EXCEPT ![j] = rec]
          /\ UNCHANGED <<opened, lock, due, exec, cronCrashes>>
        BY DEF TimePasses
    <1> HIDE DEF rec
    <1>3. CASE job[j].status = "absent"
        BY <1>1, <1>2, <1>3 DEF ExecutionInv, Shape, WorkingOn, Exists
    <1>4. CASE job[j].status # "absent"
      <2>1. Edited(j)
          BY <1>1, <1>2, <1>4 DEF Edited, Exists
      <2> QED BY <1>2, <2>1, Edits
    <1> QED BY <1>3, <1>4

\* The tick selects and locks nothing.
LEMMA TickSelects ==
    ASSUME ExecutionInv, StartTick
    PROVE  ExecutionInv'
    <1> DEFINE S == {j \in Job : IsDue(j)}
    <1>1. IsFiniteSet(S) /\ S \subseteq Job
        BY CronBounds, FS_Subset
    <1>2. Cardinality(S) \in Nat
        BY <1>1, FS_CardinalityType
    <1>3. due' \in SetToSeqs(S)
        BY DEF StartTick
    <1> HIDE DEF S
    <1>4. due' \in [1..Cardinality(S) -> S]
        BY <1>3 DEF SetToSeqs
    <1>5. due' \in Seq(Job)
        BY <1>1, <1>2, <1>4
    <1>6. UNCHANGED <<job, opened, lock, exec, cronCrashes>>
        BY DEF StartTick
    <1> QED BY <1>5, <1>6 DEF ExecutionInv, Shape, WorkingOn, Exists

\* The lock is what makes this hold: only the executor that found it free goes on.
LEMMA Locking ==
    ASSUME ExecutionInv, NEW e \in Executor, NEW j \in Job, exec[e].at = "idle",
           TakeLock(e, j), due' \in Seq(Job), UNCHANGED <<job, opened, cronCrashes>>
    PROVE  ExecutionInv'
    <1> USE DEF ExecutionInv, Shape
    <1>1. CASE lock[j] # NoExecutor
      <2>1. UNCHANGED <<lock, exec>>
          BY <1>1 DEF TakeLock
      <2> QED BY <2>1 DEF WorkingOn, Exists
    <1>2. CASE lock[j] = NoExecutor
      <2>1. /\ lock' = [lock EXCEPT ![j] = e]
            /\ exec' = [exec EXCEPT ![e] = [at |-> "locked", job |-> j, prev |-> "scheduled"]]
          BY <1>2 DEF TakeLock
      <2>2. NoExecutor \notin Executor
          BY NobodyIsNoRequest DEF Executor, NoExecutor, Tick
      <2>3. \A d \in Executor : exec[d].at # "idle" => exec[d].job # j
          BY <1>2, <2>2
      <2>4. Shape'
          BY <2>1
      <2>5. \A d \in Executor : exec'[d].at # "idle" => lock'[exec'[d].job] = d
          BY <2>1, <2>3
      <2>6. \A d \in Executor : exec'[d].at \in {"claimed", "working"} =>
                                   job'[exec'[d].job].status \in {"running", "deleted"}
          BY <2>1
      <2>7. \A i \in Job : WorkingOn(i)' = WorkingOn(i)
          BY <2>1 DEF WorkingOn
      <2> QED BY <2>4, <2>5, <2>6, <2>7 DEF Exists
    <1> QED BY <1>1, <1>2

\* The tick and a run-now request take the lock of a job nobody executes.
LEMMA Triggering ==
    ASSUME ExecutionInv, TickNext \/ \E e \in RunNow, j \in Job : RunJobNow(e, j)
    PROVE  ExecutionInv'
    <1>1. CASE TickNext
      <2>1. Head(due) \in Job /\ Tail(due) \in Seq(Job) /\ Tick \in Executor
          BY <1>1 DEF TickNext, ExecutionInv, Shape, Executor
      <2> QED BY <1>1, <2>1, Locking DEF TickNext
    <1>2. ASSUME NEW e \in RunNow, NEW j \in Job, RunJobNow(e, j)
          PROVE  ExecutionInv'
      <2>1. e \in Executor /\ due' \in Seq(Job)
          BY <1>2 DEF RunJobNow, ExecutionInv, Shape, Executor
      <2> QED BY <1>2, <2>1, Locking DEF RunJobNow
    <1> QED BY <1>1, <1>2

-----------------------------------------------------------------------------
(* An execution. *)

\* An executor alone holds the job it executes.
LEMMA Alone ==
    ASSUME ExecutionInv, NEW d \in Executor, NEW e \in Executor, exec[d].job = exec[e].job,
           exec[d].at # "idle", exec[e].at # "idle"
    PROVE  d = e
    BY DEF ExecutionInv

\* An executor at rest executes nothing.
LEMMA RestingIsIdle == Resting.at = "idle" /\ Resting.job \in Job
                       /\ Resting \in [at : {"idle", "locked", "checked", "claimed", "working", "recorded"},
                                       job : Job, prev : {"scheduled", "paused", "failed"}]
    BY CronBounds DEF Resting, AnyJob

\* An execution that ends gives the lock back.
LEMMA Leaving ==
    ASSUME ExecutionInv, NEW e \in Executor, exec[e].at # "idle",
           exec[e].at = "working" => ~Exists(exec[e].job),
           Leave(e), UNCHANGED <<job, opened, due, cronCrashes>>
    PROVE  ExecutionInv'
    <1> USE DEF ExecutionInv, Shape
    <1> DEFINE j == exec[e].job
    <1>1. /\ lock' = [lock EXCEPT ![j] = NoExecutor]
          /\ exec' = [exec EXCEPT ![e] = Resting]
        BY DEF Leave
    <1>2. j \in Job
        OBVIOUS
    <1>3. Shape'
        BY <1>1, RestingIsIdle
    <1>4. \A d \in Executor : exec'[d].at # "idle" => lock'[exec'[d].job] = d
        BY <1>1, RestingIsIdle, Alone
    <1>5. \A d \in Executor : exec'[d].at \in {"claimed", "working"} =>
                                 job'[exec'[d].job].status \in {"running", "deleted"}
        BY <1>1, RestingIsIdle
    <1>6. ASSUME NEW i \in Job, Exists(i), cronCrashes = 0
          PROVE  opened[i] = IF WorkingOn(i)' = {} THEN 0 ELSE 1
      <2>1. WorkingOn(i)' = WorkingOn(i)
          BY <1>1, <1>6, RestingIsIdle DEF WorkingOn
      <2> QED BY <1>6, <2>1
    <1> QED BY <1>3, <1>4, <1>5, <1>6 DEF Exists

\* The status is read under the lock.
LEMMA Checking ==
    ASSUME ExecutionInv, NEW e \in Executor, CheckStatus(e)
    PROVE  ExecutionInv'
    <1> USE DEF ExecutionInv, Shape
    <1> DEFINE r == [exec[e] EXCEPT !.at = "checked", !.prev = job[exec[e].job].status]
    <1>1. /\ exec' = [exec EXCEPT ![e] = r]
          /\ exec[e].at = "locked" /\ UNCHANGED <<job, opened, lock, due, cronCrashes>>
        BY DEF CheckStatus
    <1>2. /\ r \in [at : {"idle", "locked", "checked", "claimed", "working", "recorded"},
                    job : Job, prev : {"scheduled", "paused", "failed"}]
          /\ r.at = "checked" /\ r.job = exec[e].job
        BY DEF CheckStatus
    <1> HIDE DEF r
    <1>3. \A i \in Job : WorkingOn(i)' = WorkingOn(i)
        BY <1>1, <1>2 DEF WorkingOn
    <1> QED BY <1>1, <1>2, <1>3 DEF Exists

\* The row says that the job runs.
LEMMA Claiming ==
    ASSUME ExecutionInv, NEW e \in Executor, Claim(e)
    PROVE  ExecutionInv'
    <1> DEFINE j == exec[e].job
    <1>1. CASE ~Exists(j)
        BY <1>1, Leaving DEF Claim
    <1>2. CASE Exists(j)
      <2> USE DEF ExecutionInv, Shape
      <2>1. /\ job' = [job EXCEPT ![j].status = "running"]
            /\ exec' = [exec EXCEPT ![e].at = "claimed"]
            /\ exec[e].at = "checked" /\ UNCHANGED <<opened, lock, due, cronCrashes>>
          BY <1>2 DEF Claim
      <2>2. j \in Job
          OBVIOUS
      <2>3. Shape'
          BY <2>1, <2>2
      <2>4. \A i \in Job : WorkingOn(i)' = WorkingOn(i)
          BY <2>1 DEF WorkingOn
      <2>5. \A i \in Job : job'[i].status = IF i = j THEN "running" ELSE job[i].status
          BY <2>1, <2>2
      <2>6. \A d \in Executor : exec'[d].at # "idle" => lock'[exec'[d].job] = d
          BY <2>1
      <2>7. \A d \in Executor : exec'[d].at \in {"claimed", "working"} =>
                                   job'[exec'[d].job].status \in {"running", "deleted"}
          BY <2>1, <2>5
      <2> QED BY <1>2, <2>1, <2>3, <2>4, <2>5, <2>6, <2>7 DEF Exists
    <1> QED BY <1>1, <1>2

\* A run row is opened.
LEMMA Working ==
    ASSUME ExecutionInv, NEW e \in Executor, Work(e)
    PROVE  ExecutionInv'
    <1> USE DEF ExecutionInv, Shape
    <1>0. PICK j \in Job : j = exec[e].job
        OBVIOUS
    <1>1. /\ opened' = [opened EXCEPT ![j] = @ + 1]
          /\ exec' = [exec EXCEPT ![e].at = "working"]
          /\ exec[e].at = "claimed" /\ UNCHANGED <<job, lock, due, cronCrashes>>
        BY <1>0 DEF Work
    <1>2. j \in Job /\ job[j].status \in {"running", "deleted"}
        BY <1>0, <1>1
    <1>3. WorkingOn(j) = {} /\ e \in WorkingOn(j)'
        BY <1>0, <1>1, Alone DEF WorkingOn
    <1>4. \A i \in Job : i # j => WorkingOn(i)' = WorkingOn(i)
        BY <1>0, <1>1 DEF WorkingOn
    <1>5. Shape'
        BY <1>1
    <1>6. ASSUME NEW i \in Job, Exists(i), cronCrashes = 0
          PROVE  opened'[i] = IF WorkingOn(i)' = {} THEN 0 ELSE 1
      <2>1. CASE i = j
        <3>1. opened[j] = 0
            BY <1>2, <1>3, <1>6, <2>1
        <3>2. opened'[j] = 1
            BY <1>1, <1>2, <3>1
        <3> QED BY <1>3, <2>1, <3>2
      <2>2. CASE i # j
        <3>1. opened'[i] = opened[i]
            BY <1>1, <2>2
        <3> QED BY <1>4, <1>6, <2>2, <3>1
      <2> QED BY <2>1, <2>2
    <1>7. \A i \in Job : job[i].status = "absent" => opened'[i] = 0
        BY <1>1, <1>2
    <1>8. \A d \in Executor : /\ exec'[d].at # "idle" => lock'[exec'[d].job] = d
                              /\ exec'[d].at \in {"claimed", "working"} =>
                                   job'[exec'[d].job].status \in {"running", "deleted"}
        BY <1>1, <1>2
    <1> QED BY <1>1, <1>5, <1>6, <1>7, <1>8 DEF Exists

\* Whatever is stored after a run, the row is neither absent nor deleted.
LEMMA RowAfterRun ==
    ASSUME NEW rec, NEW prev \in {"scheduled", "paused", "failed"},
           DOMAIN rec = {"status", "next", "count", "max", "valid"}, rec.status # "absent"
    PROVE  /\ DOMAIN AfterRun(rec, prev) = {"status", "next", "count", "max", "valid"}
           /\ AfterRun(rec, prev).status \notin {"absent", "deleted"}
    BY DEF AfterRun

\* The run row is closed, when its job is still there.
LEMMA Recording ==
    ASSUME ExecutionInv, NEW e \in Executor, Record(e)
    PROVE  ExecutionInv'
    <1>0. PICK j \in Job : j = exec[e].job
        BY DEF ExecutionInv, Shape
    <1>1. CASE ~Exists(j)
        BY <1>0, <1>1, Leaving DEF Record
    <1>2. CASE Exists(j)
      <2> USE DEF ExecutionInv, Shape
      <2>1. /\ opened' = [opened EXCEPT ![j] = @ - 1]
            /\ exec' = [exec EXCEPT ![e].at = "recorded"]
            /\ exec[e].at = "working" /\ UNCHANGED <<lock, due, cronCrashes>>
          BY <1>0, <1>2 DEF Record
      <2>2. j \in Job /\ exec[e].prev \in {"scheduled", "paused", "failed"}
          OBVIOUS
      <2>3. PICK rec : /\ job' = [job EXCEPT ![j] = rec]
                       /\ DOMAIN rec = {"status", "next", "count", "max", "valid"}
                       /\ rec.status \notin {"absent", "deleted"}
        <3>1. CASE job' = [job EXCEPT ![j] = AfterRun(@, exec[e].prev)]
            BY <1>2, <2>2, <3>1, RowAfterRun DEF Exists
        <3>2. CASE job' = [job EXCEPT ![j].status = "failed"]
          <4> DEFINE rec == [job[j] EXCEPT !.status = "failed"]
          <4>1. /\ job' = [job EXCEPT ![j] = rec] /\ rec.status = "failed"
                /\ DOMAIN rec = {"status", "next", "count", "max", "valid"}
              BY <2>2, <3>2
          <4> QED BY <4>1
        <3> QED BY <1>0, <1>2, <3>1, <3>2 DEF Record
      <2>4. Shape'
          BY <2>1, <2>2, <2>3
      <2>5. e \in WorkingOn(j) /\ WorkingOn(j)' = {}
          BY <1>0, <2>1, Alone DEF WorkingOn
      <2>6. \A i \in Job : i # j => WorkingOn(i)' = WorkingOn(i)
          BY <1>0, <2>1 DEF WorkingOn
      <2>7. \A d \in Executor : d # e /\ exec[d].at # "idle" => exec[d].job # j
          BY <1>0, <2>1, Alone
      <2>8. \A d \in Executor : /\ exec'[d].at # "idle" => lock'[exec'[d].job] = d
                                /\ exec'[d].at \in {"claimed", "working"} =>
                                     job'[exec'[d].job].status \in {"running", "deleted"}
          BY <1>0, <2>1, <2>3, <2>7
      <2>9. \A i \in Job : i # j => job'[i] = job[i] /\ opened'[i] = opened[i]
          BY <2>1, <2>3
      <2>10. job'[j].status # "absent" /\ (cronCrashes = 0 => opened'[j] = 0)
          BY <1>2, <2>1, <2>2, <2>3, <2>5
      <2>11. \A i \in Job : job'[i].status = "absent" => opened'[i] = 0
          BY <2>9, <2>10
      <2>12. ASSUME NEW i \in Job, Exists(i)', cronCrashes' = 0
             PROVE  opened'[i] = IF WorkingOn(i)' = {} THEN 0 ELSE 1
        <3>1. CASE i = j
            BY <2>1, <2>5, <2>10, <2>12, <3>1
        <3>2. CASE i # j
            BY <2>1, <2>6, <2>9, <2>12, <3>2 DEF Exists
        <3> QED BY <3>1, <3>2
      <2> QED BY <2>4, <2>8, <2>11, <2>12
    <1> QED BY <1>1, <1>2

\* No step of an execution disturbs the executions.
LEMMA Executes ==
    ASSUME ExecutionInv, NEW e \in Executor, ExecuteJob(e)
    PROVE  ExecutionInv'
    <1>1. CASE RefuseRun(e)
        BY <1>1, Leaving DEF RefuseRun
    <1>2. CASE NotifyOwner(e)
        BY <1>2, Leaving DEF NotifyOwner
    <1> QED BY <1>1, <1>2, Checking, Claiming, Working, Recording DEF ExecuteJob

\* After a restart nobody executes anything.
LEMMA Restarting ==
    ASSUME ExecutionInv, CronRestart
    PROVE  ExecutionInv'
    <1> USE DEF ExecutionInv, Shape
    <1>1. /\ cronCrashes' = cronCrashes + 1 /\ UNCHANGED <<job, opened>>
          /\ lock' = [j \in Job |-> NoExecutor] /\ due' = <<>>
          /\ exec' = [e \in Executor |-> Resting]
        BY DEF CronRestart
    <1>2. Shape'
        BY <1>1, RestingIsIdle
    <1>3. cronCrashes' # 0
        BY <1>1
    <1> QED BY <1>1, <1>2, <1>3, RestingIsIdle

-----------------------------------------------------------------------------

\* No step disturbs the executions.
LEMMA CronStep == ExecutionInv /\ [CronNext]_cronVars => ExecutionInv'
    <1> SUFFICES ASSUME ExecutionInv, [CronNext]_cronVars PROVE ExecutionInv'
        OBVIOUS
    <1>1. CASE Manage
        BY <1>1, Creating, Updating, Toggling, Resetting, Deleting DEF Manage
    <1>2. CASE Trigger
        BY <1>2, Passing, TickSelects, Triggering DEF Trigger
    <1>3. CASE \E e \in Executor : ExecuteJob(e)
        BY <1>3, Executes
    <1>4. CASE CronRestart
        BY <1>4, Restarting
    <1>5. CASE UNCHANGED cronVars
        BY <1>5 DEF cronVars, ExecutionInv, Shape, WorkingOn, Exists
    <1> QED BY <1>1, <1>2, <1>3, <1>4, <1>5 DEF CronNext

\* At the start nothing is executed.
LEMMA CronStarts == CronInit => ExecutionInv
    <1> SUFFICES ASSUME CronInit PROVE ExecutionInv
        OBVIOUS
    <1> USE DEF CronInit
    <1>1. Shape
        BY RestingIsIdle DEF Shape, Absent
    <1>2. \A e \in Executor : exec[e].at = "idle"
        BY RestingIsIdle
    <1>3. \A j \in Job : job[j].status = "absent" /\ opened[j] = 0
        BY DEF Absent
    <1> QED BY <1>1, <1>2, <1>3 DEF ExecutionInv, Exists

\* The invariant says it: all that execute a job hold its one lock.
LEMMA OneAtATime == ExecutionInv => OneExecution
    <1> SUFFICES ASSUME ExecutionInv, NEW j \in Job
                 PROVE  /\ Cardinality(Executing(j)) <= 1
                        /\ Exists(j) /\ Executing(j) # {} => job[j].status = "running"
                        /\ Exists(j) /\ cronCrashes = 0 =>
                              opened[j] = Cardinality({e \in Executing(j) : exec[e].at = "working"})
        BY DEF OneExecution
    <1>1. \A d, e \in Executing(j) : d = e
        BY Alone DEF Executing
    <1>2. Cardinality(Executing(j)) <= 1
      <2>1. CASE Executing(j) = {}
          BY <2>1, FS_EmptySet
      <2>2. ASSUME NEW e \in Executing(j) PROVE Cardinality(Executing(j)) = 1
        <3>1. Executing(j) = {e}
            BY <1>1, <2>2
        <3> QED BY <3>1, FS_Singleton
      <2> QED BY <2>1, <2>2
    <1>3. Exists(j) /\ Executing(j) # {} => job[j].status = "running"
        BY DEF Executing, Exists, ExecutionInv
    <1>4. {e \in Executing(j) : exec[e].at = "working"} = WorkingOn(j)
        BY DEF Executing, WorkingOn
    <1>5. Cardinality(WorkingOn(j)) = IF WorkingOn(j) = {} THEN 0 ELSE 1
      <2>1. CASE WorkingOn(j) = {}
          BY <2>1, FS_EmptySet
      <2>2. ASSUME NEW e \in WorkingOn(j) PROVE Cardinality(WorkingOn(j)) = 1
        <3>1. WorkingOn(j) = {e}
            BY <1>1, <1>4, <2>2
        <3> QED BY <3>1, FS_Singleton
      <2> QED BY <2>1, <2>2
    <1> QED BY <1>2, <1>3, <1>4, <1>5 DEF ExecutionInv

\* A scheduled job never has two executions, its row says so while one works, and it
\* has one open run row then: cron_agent_runner.py's per-job lock, for any number of
\* jobs, of run-now requests, of edits and of deaths of the process.
THEOREM OneExecutionAtATime == CronSpec => []OneExecution
    <1>1. CronSpec => []ExecutionInv
        BY CronStarts, CronStep, PTL DEF CronSpec
    <1> QED BY <1>1, OneAtATime, PTL

-----------------------------------------------------------------------------
(* Scheduled jobs: their rows.                                             *)

CronRow == [status : {"absent", "scheduled", "running", "paused", "completed", "failed", "deleted"},
            next : {"none", "later", "due"}, count : Nat, max : Nat, valid : BOOLEAN]

\* What a row promises; a limit that was lowered may be below the count.
RowRunsAgain(rec, low) ==
    /\ rec.status = "scheduled" => rec.next # "none" /\ rec.valid
    /\ rec.status \in {"scheduled", "paused", "failed", "running"} /\ rec.max # 0 /\ ~low => rec.count < rec.max

RowsRunAgain == job \in [Job -> CronRow] /\ \A j \in Job : RowRunsAgain(job[j], j \in lowered)

\* Nobody completes a job between the check of its status and its claim.
CheckedCanRun ==
    \A e \in Executor : exec[e].at = "checked" =>
                           job[exec[e].job].status \in {"scheduled", "paused", "failed", "deleted"}

RunsInv == ExecutionInv /\ RowsRunAgain /\ CheckedCanRun

\* A row that replaces another keeps what all of them promise.
LEMMA OneRowChanges ==
    ASSUME RowsRunAgain, NEW j \in Job, NEW rec \in CronRow, job' = [job EXCEPT ![j] = rec],
           lowered' \in {lowered, lowered \cup {j}}, RowRunsAgain(rec, j \in lowered')
    PROVE  RowsRunAgain'
    <1>1. job' \in [Job -> CronRow] /\ job'[j] = rec /\ \A i \in Job \ {j} : job'[i] = job[i]
        BY DEF RowsRunAgain
    <1>2. \A i \in Job \ {j} : i \in lowered' <=> i \in lowered
        OBVIOUS
    <1> QED BY <1>1, <1>2 DEF RowsRunAgain

\* The rows of jobs that are created and deleted.
LEMMA FreshRows ==
    ASSUME NEW m \in Nat
    PROVE  /\ Absent \in CronRow /\ Absent.status = "absent"
           /\ LET r == NewRow(m)
              IN  /\ r \in CronRow /\ r.status = "scheduled" /\ r.next = "later"
                  /\ r.count = 0 /\ r.max = m /\ r.valid = TRUE
           /\ LET r == [Absent EXCEPT !.status = "deleted"] IN r \in CronRow /\ r.status = "deleted"
    BY DEF Absent, CronRow, NewRow

\* Manage keeps the invariant.
LEMMA ManageKeepsRows ==
    ASSUME RowsRunAgain, NEW j \in Job,
           CreateJob(j) \/ UpdateJob(j) \/ ToggleJob(j) \/ ResetJob(j) \/ DeleteJob(j)
    PROVE  RowsRunAgain'
    <1>1. job[j] \in CronRow /\ RowRunsAgain(job[j], j \in lowered)
        BY DEF RowsRunAgain
    <1>2. /\ job[j].count \in Nat /\ job[j].max \in Nat /\ job[j].valid \in BOOLEAN
          /\ job[j].status \in {"absent", "scheduled", "running", "paused", "completed", "failed", "deleted"}
          /\ job[j].next \in {"none", "later", "due"}
        BY <1>1 DEF CronRow
    <1>3. CASE CreateJob(j)
      <2>1. PICK m \in 0..CronMax : job' = [job EXCEPT ![j] = NewRow(m)]
          BY <1>3 DEF CreateJob
      <2>2. RowRunsAgain(NewRow(m), j \in lowered') /\ NewRow(m) \in CronRow
        <3>1. m \in Nat
            BY CronBounds
        <3>2. LET r == NewRow(m)
              IN  /\ r \in CronRow /\ r.status = "scheduled" /\ r.next = "later"
                  /\ r.count = 0 /\ r.max = m /\ r.valid = TRUE
            BY <3>1, FreshRows
        <3> QED BY <3>1, <3>2 DEF RowRunsAgain
      <2> QED BY <1>3, <2>1, <2>2, OneRowChanges DEF CreateJob
    <1>4. CASE UpdateJob(j)
      <2>1. PICK valid \in BOOLEAN, m \in {job[j].max} \cup 1..CronMax :
               LET replans == job[j].status \in {"scheduled", "paused", "failed"} IN
               /\ replans => valid
               /\ EditJob(j, [job[j] EXCEPT !.valid = valid, !.max = m,
                              !.next = IF replans THEN "later" ELSE @,
                              !.status = IF @ = "failed" THEN "scheduled" ELSE @])
               /\ lowered' = IF m # 0 /\ (job[j].max = 0 \/ m < job[j].max)
                             THEN lowered \cup {j} ELSE lowered
          BY <1>4 DEF UpdateJob
      <2> DEFINE next == IF job[j].status \in {"scheduled", "paused", "failed"} THEN "later" ELSE job[j].next
                 status == IF job[j].status = "failed" THEN "scheduled" ELSE job[j].status
                 rec == [job[j] EXCEPT !.valid = valid, !.max = m, !.next = next, !.status = status]
      <2>2. job' = [job EXCEPT ![j] = rec]
          BY <2>1 DEF EditJob
      <2>3. /\ m \in Nat /\ next \in {"none", "later", "due"}
            /\ status \in {"scheduled", "paused", "failed", "running", "completed"}
        <3>1. m \in Nat
            BY <1>2, CronBounds
        <3>2. job[j].status \notin {"absent", "deleted"}
            BY <1>4 DEF UpdateJob, Exists
        <3> QED BY <1>2, <3>1, <3>2
      <2>4. /\ rec \in CronRow /\ rec.valid = valid /\ rec.max = m /\ rec.next = next
            /\ rec.status = status
            /\ rec.count = job[j].count
        <3> HIDE DEF next, status
        <3> QED BY <1>1, <2>3 DEF CronRow
      <2> HIDE DEF rec
      <2>5. RowRunsAgain(rec, j \in lowered')
        <3>1. status = "scheduled" => next # "none" /\ valid
            BY <2>1
        <3>2. ASSUME status \in {"scheduled", "paused", "failed", "running"}, m # 0, j \notin lowered'
              PROVE  job[j].count < m
          <4>1. j \notin lowered /\ job[j].max # 0 /\ job[j].max <= m
              BY <1>2, <2>1, <2>3, <3>2
          <4>2. job[j].status \in {"scheduled", "paused", "failed", "running"}
              BY <3>2
          <4>3. job[j].count < job[j].max
              BY <1>1, <4>1, <4>2 DEF RowRunsAgain
          <4> QED BY <1>2, <2>3, <4>1, <4>3
        <3> QED BY <2>4, <3>1, <3>2 DEF RowRunsAgain
      <2>6. lowered' \in {lowered, lowered \cup {j}}
          BY <2>1
      <2> QED BY <2>2, <2>4, <2>5, <2>6, OneRowChanges
    <1>5. CASE ToggleJob(j)
      <2>1. CASE /\ job[j].status = "scheduled"
                 /\ EditJob(j, [job[j] EXCEPT !.status = "paused", !.next = "none"])
        <3> DEFINE rec == [job[j] EXCEPT !.status = "paused", !.next = "none"]
        <3>1. /\ rec \in CronRow /\ rec.max = job[j].max /\ rec.status = "paused"
              /\ rec.count = job[j].count
            BY <1>1 DEF CronRow
        <3>2. job' = [job EXCEPT ![j] = rec] /\ lowered' = lowered
            BY <1>5, <2>1 DEF EditJob, ToggleJob
        <3> HIDE DEF rec
        <3> QED BY <1>1, <2>1, <3>1, <3>2, OneRowChanges DEF RowRunsAgain
      <2>2. CASE /\ job[j].status \in {"paused", "failed"} /\ job[j].valid
                 /\ EditJob(j, [job[j] EXCEPT !.status = "scheduled", !.next = "later"])
        <3> DEFINE rec == [job[j] EXCEPT !.status = "scheduled", !.next = "later"]
        <3>1. /\ rec \in CronRow /\ rec.max = job[j].max /\ rec.status = "scheduled"
              /\ rec.count = job[j].count
              /\ rec.valid = job[j].valid /\ rec.next = "later"
            BY <1>1 DEF CronRow
        <3>2. job' = [job EXCEPT ![j] = rec] /\ lowered' = lowered
            BY <1>5, <2>2 DEF EditJob, ToggleJob
        <3> HIDE DEF rec
        <3> QED BY <1>1, <2>2, <3>1, <3>2, OneRowChanges DEF RowRunsAgain
      <2> QED BY <1>5, <2>1, <2>2 DEF ToggleJob
    <1>6. CASE ResetJob(j)
      <2> DEFINE rec == [job[j] EXCEPT !.status = "scheduled", !.next = "later", !.count = 0]
      <2>1. /\ rec \in CronRow /\ rec.max = job[j].max /\ rec.status = "scheduled" /\ rec.count = 0
            /\ rec.valid = job[j].valid /\ rec.next = "later"
          BY <1>1 DEF CronRow
      <2>2. job' = [job EXCEPT ![j] = rec] /\ lowered' = lowered /\ job[j].valid
          BY <1>6 DEF EditJob, ResetJob
      <2> HIDE DEF rec
      <2>3. RowRunsAgain(rec, j \in lowered')
          BY <1>2, <2>1, <2>2 DEF RowRunsAgain
      <2> QED BY <2>1, <2>2, <2>3, OneRowChanges
    <1>7. CASE DeleteJob(j)
      <2> DEFINE rec == [Absent EXCEPT !.status = "deleted"]
      <2>1. rec \in CronRow /\ rec.status = "deleted"
          BY FreshRows, CronBounds
      <2>2. job' = [job EXCEPT ![j] = rec] /\ lowered' = lowered
          BY <1>7 DEF EditJob, DeleteJob
      <2> HIDE DEF rec
      <2> QED BY <2>1, <2>2, OneRowChanges DEF RowRunsAgain
    <1> QED BY <1>3, <1>4, <1>5, <1>6, <1>7

\* A run that ends well leaves a row that runs again, unless that was its last run.
LEMMA RowRunsOn ==
    ASSUME NEW rec \in CronRow, NEW low \in BOOLEAN, NEW prev \in {"scheduled", "paused", "failed"},
           RowRunsAgain(rec, low), rec.status = "running"
    PROVE  AfterRun(rec, prev) \in CronRow /\ RowRunsAgain(AfterRun(rec, prev), low)
    <1> DEFINE n == rec.count + 1
    <1>1. /\ rec.count \in Nat /\ rec.max \in Nat /\ rec.valid \in BOOLEAN /\ n \in Nat
          /\ rec.next \in {"none", "later", "due"}
        BY DEF CronRow
    <1>2. CASE rec.max # 0 /\ n >= rec.max
      <2> DEFINE r == [rec EXCEPT !.count = n, !.status = "completed", !.next = "none"]
      <2>1. AfterRun(rec, prev) = r
          BY <1>2 DEF AfterRun
      <2>2. r \in CronRow /\ r.status = "completed"
          BY <1>1 DEF CronRow
      <2> HIDE DEF r
      <2> QED BY <2>1, <2>2 DEF RowRunsAgain
    <1>3. CASE ~(rec.max # 0 /\ n >= rec.max)
      <2>1. PICK r : /\ AfterRun(rec, prev) = r /\ r \in CronRow /\ r.count = n /\ r.max = rec.max
                     /\ r.status = "scheduled" => r.next = "later" /\ r.valid
        <3>1. CASE prev = "scheduled" /\ rec.valid
          <4> DEFINE r == [rec EXCEPT !.count = n, !.status = "scheduled", !.next = "later"]
          <4>1. AfterRun(rec, prev) = r
              BY <1>3, <3>1 DEF AfterRun
          <4>2. r \in CronRow /\ r.count = n /\ r.max = rec.max /\ r.next = "later" /\ r.valid
              BY <1>1, <3>1 DEF CronRow
          <4> HIDE DEF r
          <4> QED BY <4>1, <4>2
        <3>2. CASE prev = "scheduled" /\ ~rec.valid
          <4> DEFINE r == [rec EXCEPT !.count = n, !.status = "failed"]
          <4>1. AfterRun(rec, prev) = r
              BY <1>3, <3>2 DEF AfterRun
          <4>2. r \in CronRow /\ r.count = n /\ r.max = rec.max /\ r.status = "failed"
              BY <1>1 DEF CronRow
          <4> HIDE DEF r
          <4> QED BY <4>1, <4>2
        <3>3. CASE prev # "scheduled"
          <4> DEFINE r == [rec EXCEPT !.count = n, !.status = prev]
          <4>1. AfterRun(rec, prev) = r
              BY <1>3, <3>3 DEF AfterRun
          <4>2. r \in CronRow /\ r.count = n /\ r.max = rec.max /\ r.status = prev
              BY <1>1 DEF CronRow
          <4> HIDE DEF r
          <4> QED BY <3>3, <4>1, <4>2
        <3> QED BY <3>1, <3>2, <3>3
      <2>2. rec.max # 0 => n < rec.max
          BY <1>1, <1>3
      <2> QED BY <2>1, <2>2 DEF RowRunsAgain
    <1> QED BY <1>2, <1>3

\* The executors take and give back a row whose limit is not reached.
LEMMA ExecutionKeepsRows ==
    ASSUME RunsInv, NEW e \in Executor, Claim(e) \/ Record(e)
    PROVE  RowsRunAgain'
    <1>0. PICK j \in Job : j = exec[e].job
        BY DEF RunsInv, ExecutionInv, Shape
    <1>1. job[j] \in CronRow /\ RowRunsAgain(job[j], j \in lowered) /\ job \in [Job -> CronRow]
        BY DEF RunsInv, RowsRunAgain
    <1>2. CASE UNCHANGED job
        BY <1>2 DEF RunsInv, RowsRunAgain, Claim, Record
    <1>3. CASE Claim(e) /\ Exists(j)
      <2> DEFINE rec == [job[j] EXCEPT !.status = "running"]
      <2>1. /\ rec \in CronRow /\ rec.status = "running" /\ rec.max = job[j].max
            /\ rec.count = job[j].count
          BY <1>1 DEF CronRow
      <2>2. job' = [job EXCEPT ![j] = rec] /\ lowered' = lowered
          BY <1>0, <1>3 DEF Claim
      <2> HIDE DEF rec
      <2>3. job[j].status \in {"scheduled", "paused", "failed"}
          BY <1>0, <1>3 DEF RunsInv, CheckedCanRun, Claim, Exists
      <2>4. RowRunsAgain(rec, j \in lowered')
          BY <1>1, <2>1, <2>2, <2>3 DEF RowRunsAgain
      <2> QED BY <2>1, <2>2, <2>4, OneRowChanges DEF RunsInv
    <1>4. CASE Record(e) /\ Exists(j)
      <2>1. exec[e].at = "working" /\ exec[e].prev \in {"scheduled", "paused", "failed"}
          BY <1>4 DEF Record, RunsInv, ExecutionInv, Shape
      <2>2. job[j].status = "running"
          BY <1>0, <1>4, <2>1 DEF RunsInv, ExecutionInv, Exists
      <2>3. lowered' = lowered
          BY <1>4 DEF Record
      <2>4. CASE job' = [job EXCEPT ![j] = AfterRun(@, exec[e].prev)]
        <3> DEFINE low == j \in lowered
        <3>1. low \in BOOLEAN /\ RowRunsAgain(job[j], low)
            BY <1>1
        <3> HIDE DEF low
        <3>2. /\ AfterRun(job[j], exec[e].prev) \in CronRow
              /\ RowRunsAgain(AfterRun(job[j], exec[e].prev), low)
            BY <1>1, <2>1, <2>2, <3>1, RowRunsOn
        <3>3. job' = [job EXCEPT ![j] = AfterRun(job[j], exec[e].prev)]
            BY <1>1, <2>4
        <3>4. RowRunsAgain(AfterRun(job[j], exec[e].prev), j \in lowered')
            BY <2>3, <3>2 DEF low
        <3> QED BY <2>3, <3>2, <3>3, <3>4, OneRowChanges DEF RunsInv
      <2>5. CASE job' = [job EXCEPT ![j].status = "failed"]
        <3> DEFINE rec == [job[j] EXCEPT !.status = "failed"]
        <3>1. /\ rec \in CronRow /\ rec.status = "failed" /\ rec.max = job[j].max
              /\ rec.count = job[j].count
            BY <1>1 DEF CronRow
        <3>2. job' = [job EXCEPT ![j] = rec]
            BY <1>1, <2>5
        <3> HIDE DEF rec
        <3>3. RowRunsAgain(rec, j \in lowered')
            BY <1>1, <2>2, <2>3, <3>1 DEF RowRunsAgain
        <3> QED BY <2>3, <3>1, <3>2, <3>3, OneRowChanges DEF RunsInv
      <2> QED BY <1>0, <1>4, <2>4, <2>5 DEF Record
    <1> QED BY <1>0, <1>2, <1>3, <1>4 DEF Claim, Record

\* Every other step leaves the rows, or brings a next run nearer.
LEMMA RowsStep ==
    ASSUME RunsInv, [CronNext]_cronVars
    PROVE  RowsRunAgain'
    <1>1. CASE UNCHANGED <<job, lowered>>
        BY <1>1 DEF RunsInv, RowsRunAgain
    <1>2. ASSUME NEW j \in Job, TimePasses(j)
          PROVE  RowsRunAgain'
      <2> DEFINE rec == [job[j] EXCEPT !.next = "due"]
      <2>1. job[j] \in CronRow /\ RowRunsAgain(job[j], j \in lowered) /\ job \in [Job -> CronRow]
          BY DEF RunsInv, RowsRunAgain
      <2>2. /\ rec \in CronRow /\ rec.status = job[j].status /\ rec.max = job[j].max
            /\ rec.count = job[j].count /\ rec.valid = job[j].valid /\ rec.next = "due"
          BY <2>1 DEF CronRow
      <2>3. job' = [job EXCEPT ![j] = rec] /\ lowered' = lowered
          BY <1>2, <2>1 DEF TimePasses
      <2> HIDE DEF rec
      <2>4. RowRunsAgain(rec, j \in lowered')
          BY <2>1, <2>2, <2>3 DEF RowRunsAgain
      <2> QED BY <2>2, <2>3, <2>4, OneRowChanges DEF RunsInv
    <1>3. CASE Manage
        BY <1>3, ManageKeepsRows DEF Manage, RunsInv
    <1>4. CASE Trigger
        BY <1>1, <1>2, <1>4 DEF Trigger, RunJobNow, StartTick, TickNext
    <1>5. ASSUME NEW e \in Executor, ExecuteJob(e)
          PROVE  RowsRunAgain'
        BY <1>1, <1>5, ExecutionKeepsRows DEF ExecuteJob, RefuseRun, CheckStatus, Work, NotifyOwner
    <1>6. CASE CronRestart
        BY <1>1, <1>6 DEF CronRestart
    <1>7. CASE UNCHANGED cronVars
        BY <1>1, <1>7 DEF cronVars
    <1> QED BY <1>3, <1>4, <1>5, <1>6, <1>7 DEF CronNext

\* An edit takes a job that may run to one that may run, or deletes it.
LEMMA EditsKeepRunnable ==
    ASSUME RunsInv, NEW j \in Job, NEW i \in Job,
           CreateJob(j) \/ UpdateJob(j) \/ ToggleJob(j) \/ ResetJob(j) \/ DeleteJob(j),
           job[i].status \in {"scheduled", "paused", "failed", "deleted"}
    PROVE  job'[i].status \in {"scheduled", "paused", "failed", "deleted"}
    <1>1. job \in [Job -> CronRow] /\ job[j] \in CronRow
        BY DEF RunsInv, RowsRunAgain
    <1>2. CASE i # j
        BY <1>1, <1>2 DEF CreateJob, UpdateJob, ToggleJob, ResetJob, DeleteJob, EditJob
    <1>3. CASE i = j /\ (CreateJob(j) \/ ResetJob(j))
        BY <1>3 DEF CreateJob, ResetJob
    <1>4. CASE i = j /\ UpdateJob(j)
      <2>1. PICK valid \in BOOLEAN, m \in {job[j].max} \cup 1..CronMax :
               EditJob(j, [job[j] EXCEPT !.valid = valid, !.max = m,
                           !.next = IF job[j].status \in {"scheduled", "paused", "failed"} THEN "later" ELSE @,
                           !.status = IF @ = "failed" THEN "scheduled" ELSE @])
          BY <1>4 DEF UpdateJob
      <2>2. job'[j].status = IF job[j].status = "failed" THEN "scheduled" ELSE job[j].status
          BY <1>1, <2>1 DEF EditJob, CronRow
      <2> QED BY <1>4, <2>2
    <1>5. CASE i = j /\ ToggleJob(j)
        BY <1>1, <1>5 DEF ToggleJob, EditJob, CronRow
    <1>6. CASE i = j /\ DeleteJob(j)
        BY <1>1, <1>6 DEF DeleteJob, EditJob, Absent
    <1> QED BY <1>2, <1>3, <1>4, <1>5, <1>6

\* The lock keeps others from completing the job that was checked.
LEMMA CheckedStep ==
    ASSUME RunsInv, [CronNext]_cronVars
    PROVE  CheckedCanRun'
    <1>1. /\ exec \in [Executor -> [at : {"idle", "locked", "checked", "claimed", "working", "recorded"},
                                    job : Job, prev : {"scheduled", "paused", "failed"}]]
          /\ job \in [Job -> CronRow]
        BY DEF RunsInv, RowsRunAgain, ExecutionInv, Shape
    <1>2. SUFFICES ASSUME NEW d \in Executor, exec'[d].at = "checked"
                   PROVE  job'[exec'[d].job].status \in {"scheduled", "paused", "failed", "deleted"}
        BY DEF CheckedCanRun
    <1>3. CASE Manage
      <2>1. exec' = exec
          BY <1>3 DEF Manage, CreateJob, UpdateJob, ToggleJob, ResetJob, DeleteJob, EditJob
      <2>2. /\ exec[d].job \in Job
            /\ job[exec[d].job].status \in {"scheduled", "paused", "failed", "deleted"}
          BY <1>1, <1>2, <2>1 DEF RunsInv, CheckedCanRun
      <2> QED BY <1>3, <2>1, <2>2, EditsKeepRunnable DEF Manage
    <1>4. CASE Trigger
      <2>1. ASSUME NEW e \in Executor, NEW j, TakeLock(e, j)
            PROVE  exec'[d] = exec[d]
          BY <1>1, <1>2, <2>1 DEF TakeLock
      <2>2. exec'[d] = exec[d]
          BY <1>4, <2>1 DEF Trigger, TimePasses, StartTick, TickNext, RunJobNow, Executor
      <2>3. \A i \in Job : job'[i].status = job[i].status
        <3>1. ASSUME NEW j \in Job, job' = [job EXCEPT ![j].next = "due"]
              PROVE  \A i \in Job : job'[i].status = job[i].status
            BY <1>1, <3>1 DEF CronRow
        <3> QED BY <1>4, <3>1 DEF Trigger, TimePasses, StartTick, TickNext, RunJobNow
      <2> QED BY <1>1, <1>2, <2>2, <2>3 DEF RunsInv, CheckedCanRun
    <1>5. ASSUME NEW e \in Executor, ExecuteJob(e)
          PROVE  job'[exec'[d].job].status \in {"scheduled", "paused", "failed", "deleted"}
      <2>1. exec[e].at # "idle"
          BY <1>5 DEF ExecuteJob, RefuseRun, CheckStatus, Claim, Work, Record, NotifyOwner
      <2>2. CASE CheckStatus(e)
        <3>1. exec'[d].job = exec[d].job /\ job' = job
            BY <1>1, <2>2 DEF CheckStatus
        <3> QED BY <1>1, <1>2, <2>2, <3>1 DEF CheckStatus, RunsInv, CheckedCanRun
      <2>3. CASE ~CheckStatus(e)
        <3>1. d # e
            BY <1>1, <1>2, <1>5, <2>3, RestingIsIdle
            DEF ExecuteJob, RefuseRun, Claim, Work, Record, NotifyOwner, Leave
        <3>2. exec'[d] = exec[d]
            BY <1>1, <1>5, <2>3, <3>1
            DEF ExecuteJob, RefuseRun, Claim, Work, Record, NotifyOwner, Leave
        <3>3. exec[d].job # exec[e].job
            BY <1>2, <2>1, <3>1, <3>2, Alone DEF RunsInv
        <3>4. job'[exec[d].job] = job[exec[d].job]
            BY <1>1, <1>5, <2>3, <3>3
            DEF ExecuteJob, RefuseRun, Claim, Work, Record, NotifyOwner, Leave
        <3> QED BY <1>2, <3>2, <3>4 DEF RunsInv, CheckedCanRun
      <2> QED BY <2>2, <2>3
    <1>6. CASE CronRestart
        BY <1>2, <1>6, RestingIsIdle DEF CronRestart
    <1>7. CASE UNCHANGED cronVars
        BY <1>2, <1>7 DEF cronVars, RunsInv, CheckedCanRun
    <1> QED BY <1>3, <1>4, <1>5, <1>6, <1>7 DEF CronNext

\* The jobs that are there at the start run again.
LEMMA RunsStart == CronInit => RunsInv
    <1> SUFFICES ASSUME CronInit PROVE RunsInv
        OBVIOUS
    <1>1. RowsRunAgain
        BY FreshRows DEF CronInit, RowsRunAgain, RowRunsAgain
    <1>2. CheckedCanRun
        BY RestingIsIdle DEF CronInit, CheckedCanRun
    <1> QED BY <1>1, <1>2, CronStarts DEF RunsInv

\* No step takes a scheduled job its next run.
LEMMA RunsStep == RunsInv /\ [CronNext]_cronVars => RunsInv'
    BY CronStep, RowsStep, CheckedStep DEF RunsInv

\* A scheduled job has a valid expression, a next run and a run left, unless its limit
\* was lowered below its count: neither an edit while it runs, nor a run-now request,
\* nor a deletion, nor a death of the process leaves a row the tick never selects.
THEOREM ScheduledJobsRunAgain == CronSpec => []ScheduledRunsAgain
    <1>1. CronSpec => []RunsInv
        BY RunsStart, RunsStep, PTL DEF CronSpec
    <1>2. RunsInv => ScheduledRunsAgain
        BY DEF RunsInv, RowsRunAgain, RowRunsAgain, ScheduledRunsAgain
    <1> QED BY <1>1, <1>2, PTL

-----------------------------------------------------------------------------
(* The calls of the sandbox.                                               *)

\* A call that may still be started was not started: neither one on its way nor one
\* whose secret is being repaired. The cardinality of the running calls only means
\* something while they are finitely many.
CallInv ==
    /\ runs \in [SbCall -> {0, 1}]
    /\ \A c \in SbCall : call[c].at \in {"sent", "refused", "healing"} => runs[c] = 0
    /\ DOMAIN call = SbCall /\ \A c \in SbCall : DOMAIN call[c] = {"at", "sig", "retried"}
    /\ IsFiniteSet(running) /\ Cardinality(running) <= Slots

\* What happens to the settings leaves the calls alone.
LEMMA SettingsLeaveCalls ==
    ASSUME CallInv, UNCHANGED <<call, runs, running>>
    PROVE  CallInv'
    BY DEF CallInv

\* A call that goes to another place, and is not on its way there.
LEMMA CallsMove ==
    ASSUME CallInv, NEW c \in SbCall, NEW at, CallMoves(c, at),
           at \in {"refused", "healing"} => runs[c] = 0,
           at # "sent", UNCHANGED <<runs, running>>
    PROVE  CallInv'
    BY DEF CallInv, CallMoves

\* A call that is repeated was not started.
LEMMA CallsRepeat ==
    ASSUME CallInv, NEW c \in SbCall, Again(c), runs[c] = 0, UNCHANGED <<runs, running>>
    PROVE  CallInv'
    BY DEF CallInv, Again

\* Starting the code of a call takes one of the free slots.
LEMMA CallsStart ==
    ASSUME CallInv, NEW c \in SbCall, ExecuteCode(c)
    PROVE  CallInv'
    <1> USE SbBounds DEF CallInv
    <1>1. CASE Cardinality(running) < Slots
      <2>1. /\ running' = running \cup {c} /\ c \notin running
            /\ runs' = [runs EXCEPT ![c] = @ + 1] /\ runs[c] = 0
            /\ call' = [call EXCEPT ![c].at = "executing"]
          BY <1>1 DEF ExecuteCode, CallMoves
      <2>2. IsFiniteSet(running') /\ Cardinality(running') = Cardinality(running) + 1
          BY <2>1, FS_AddElement
      <2>3. Cardinality(running') <= Slots
          BY <1>1, <2>2, FS_CardinalityType
      <2> QED BY <2>1, <2>2, <2>3
    <1>2. CASE ~(Cardinality(running) < Slots)
        BY <1>2, CallsMove DEF ExecuteCode
    <1> QED BY <1>1, <1>2

\* A slot that is given back, by the end of the code or the death of the sandbox.
LEMMA CallsReturn ==
    ASSUME CallInv, NEW c \in SbCall, Return(c)
    PROVE  CallInv'
    <1> USE SbBounds DEF CallInv
    <1>1. IsFiniteSet(running') /\ Cardinality(running') <= Cardinality(running)
        BY FS_Subset, FS_RemoveElement DEF Return
    <1>2. Cardinality(running') \in Nat /\ Cardinality(running) \in Nat
        BY <1>1, FS_CardinalityType
    <1> QED BY <1>1, <1>2 DEF Return

\* No step of the backend, the sandbox or the network breaks the invariant.
LEMMA CallStep ==
    ASSUME CallInv, [SbNext]_sbVars
    PROVE  CallInv'
    <1>1. CASE UNCHANGED sbVars
        BY <1>1, SettingsLeaveCalls DEF sbVars
    <1>2. CASE Boot \/ WindowEnds \/ SandboxStarts
        BY <1>2, SettingsLeaveCalls DEF Boot, WindowEnds, SandboxStarts, callVars
    <1>3. CASE SandboxDies
      <2>1. IsFiniteSet(running') /\ Cardinality(running') = 0
          BY <1>3, FS_EmptySet DEF SandboxDies
      <2> QED BY <1>3, <2>1, SbBounds DEF SandboxDies, CallInv
    <1>4. CASE BackendDies
        BY <1>4 DEF BackendDies, CallInv, Unsent
    <1>5. ASSUME NEW s \in Saver, (\E ch \in Channel : Save(s, ch)) \/ Send(s) \/ NotifySandbox(s)
          PROVE  CallInv'
        BY <1>5, SettingsLeaveCalls DEF Save, Send, NotifySandbox, callVars
    <1>6. ASSUME NEW ch \in Channel, LoopWakes(ch) \/ LoopSends(ch)
          PROVE  CallInv'
        BY <1>6, SettingsLeaveCalls DEF LoopWakes, LoopSends, callVars
    <1>7. ASSUME NEW c \in SbCall, IssueCall(c)
          PROVE  CallInv'
        BY <1>7 DEF IssueCall, CallInv
    <1>8. ASSUME NEW c \in SbCall, RefuseCall(c)
          PROVE  CallInv'
      <2>1. runs[c] = 0
          BY <1>8 DEF RefuseCall, CallInv
      <2> QED BY <1>8, <2>1, CallsMove DEF RefuseCall
    <1>9. ASSUME NEW c \in SbCall, CallLost(c)
          PROVE  CallInv'
        BY <1>9, CallsMove DEF CallLost, CallFails
    <1>10. ASSUME NEW c \in SbCall, Heal(c)
           PROVE  CallInv'
      <2>1. runs[c] = 0 /\ UNCHANGED <<runs, running>>
          BY <1>10 DEF Heal, CallInv
      <2> QED BY <1>10, <2>1, CallsMove, CallsRepeat DEF Heal
    <1>11. ASSUME NEW c \in SbCall, Healed(c)
           PROVE  CallInv'
      <2>1. runs[c] = 0 /\ UNCHANGED <<runs, running>>
          BY <1>11 DEF Healed, CallInv
      <2> QED BY <1>11, <2>1, CallsMove, CallsRepeat DEF Healed
    <1> QED BY <1>1, <1>2, <1>3, <1>4, <1>5, <1>6, <1>7, <1>8, <1>9, <1>10, <1>11,
               CallsStart, CallsReturn DEF SbNext

\* The sandbox starts the code of a call at most once, however often the backend
\* repairs the secret and repeats the call and whichever side dies on the way, and it
\* never runs more code than it has slots.
THEOREM CodeIsRunOnce == SbSpec => []CodeRunsOnce
    <1>1. SbInit => CallInv
        BY FS_EmptySet, SbBounds DEF SbInit, CallInv, Unsent
    <1>2. CallInv /\ [SbNext]_sbVars => CallInv'
        BY CallStep
    <1>3. CallInv => CodeRunsOnce
        BY DEF CallInv, CodeRunsOnce
    <1> QED BY <1>1, <1>2, <1>3, PTL DEF SbSpec

-----------------------------------------------------------------------------
(* The answer cache.                                                       *)

Step(ks, gone, left, i) == IF i = 0 THEN <<>>
                           ELSE IF ks[i] \in gone THEN left[i - 1] ELSE Append(left[i - 1], ks[i])
Fills(ks, gone, n, left) == left = [i \in 0..n |-> Step(ks, gone, left, i)]

\* What a removal leaves of the index is defined, key by key.
LEMMA LeftIsDefined ==
    ASSUME NEW ks, NEW gone, NEW N \in Nat
    PROVE  \E left : Fills(ks, gone, N, left)
    <1> DEFINE T == {n \in Nat : \E left : Fills(ks, gone, n, left)}
    <1>1. 0 \in T
      <2>1. Fills(ks, gone, 0, [i \in 0..0 |-> <<>>])
        BY DEF Fills, Step
      <2>2. QED
        BY <2>1
    <1>2. ASSUME NEW n \in Nat, n \in T PROVE n + 1 \in T
      <2>1. PICK F : Fills(ks, gone, n, F)
        BY <1>2
      <2> DEFINE G == [i \in 0..(n + 1) |-> IF i = n + 1 THEN Step(ks, gone, F, n + 1) ELSE F[i]]
      <2>2. ASSUME NEW i \in 0..(n + 1) PROVE G[i] = Step(ks, gone, G, i)
        <3>1. CASE i = n + 1
          BY <3>1 DEF Step
        <3>2. CASE i # n + 1
          <4>1. i \in 0..n /\ G[i] = F[i] /\ F[i] = Step(ks, gone, F, i)
            BY <2>1, <3>2 DEF Fills
          <4>2. i # 0 => G[i - 1] = F[i - 1]
            BY <4>1
          <4>3. QED
            BY <4>1, <4>2 DEF Step
        <3>3. QED
          BY <3>1, <3>2
      <2>3. G = [i \in 0..(n + 1) |-> G[i]]
        OBVIOUS
      <2> HIDE DEF G
      <2>4. Fills(ks, gone, n + 1, G)
        BY <2>2, <2>3 DEF Fills
      <2>5. QED
        BY <2>4
    <1> HIDE DEF T
    <1>3. Nat \subseteq T
      BY <1>1, <1>2, EveryNumber
    <1>4. QED
      BY <1>3 DEF T

\* It is computed from what the shorter index leaves.
LEMMA LeftUnfolds ==
    ASSUME NEW ks, Len(ks) \in Nat, NEW gone
    PROVE  \E left : /\ Left(ks, gone) = left[Len(ks)]
                     /\ left[0] = <<>>
                     /\ \A i \in 1..Len(ks) :
                          left[i] = IF ks[i] \in gone THEN left[i - 1] ELSE Append(left[i - 1], ks[i])
    <1> DEFINE left == CHOOSE f : Fills(ks, gone, Len(ks), f)
    <1>1. Fills(ks, gone, Len(ks), left)
      BY LeftIsDefined
    <1>2. Left(ks, gone) = left[Len(ks)]
      BY DEF Left, Fills, Step
    <1> HIDE DEF left
    <1>3. left[0] = <<>>
      BY <1>1 DEF Fills, Step
    <1>4. ASSUME NEW i \in 1..Len(ks)
          PROVE  left[i] = IF ks[i] \in gone THEN left[i - 1] ELSE Append(left[i - 1], ks[i])
      <2>1. i \in 0..Len(ks) /\ i # 0
        OBVIOUS
      <2>2. left[i] = Step(ks, gone, left, i)
        BY <1>1, <2>1 DEF Fills
      <2>3. QED
        BY <2>1, <2>2 DEF Step
    <1>5. QED
      BY <1>2, <1>3, <1>4

\* It holds the keys that do not go, once each and in their order.
LEMMA LeftMembers ==
    ASSUME NEW S, NEW ks \in Seq(S), NEW gone
    PROVE  /\ Left(ks, gone) \in Seq(S)
           /\ ToSet(Left(ks, gone)) = ToSet(ks) \ gone
           /\ IsInjective(ks) => IsInjective(Left(ks, gone))
    <1>1. PICK left : /\ Left(ks, gone) = left[Len(ks)]
                      /\ left[0] = <<>>
                      /\ \A i \in 1..Len(ks) :
                            left[i] = IF ks[i] \in gone THEN left[i - 1] ELSE Append(left[i - 1], ks[i])
      BY LeftUnfolds
    <1> DEFINE Good(n) == /\ left[n] \in Seq(S)
                          /\ ToSet(left[n]) = {ks[i] : i \in 1..n} \ gone
                          /\ IsInjective(ks) => IsInjective(left[n])
               T == {n \in Nat : n <= Len(ks) => Good(n)}
    <1>2. 0 \in T
      <2>1. <<>> \in Seq(S) /\ ToSet(<<>>) = {} /\ IsInjective(<<>>)
        BY DEF ToSet, IsInjective
      <2>2. {ks[i] : i \in 1..0} \ gone = {}
        OBVIOUS
      <2>3. Good(0)
        BY <1>1, <2>1, <2>2
      <2>4. QED
        BY <2>3
    <1>3. ASSUME NEW n \in Nat, n \in T PROVE n + 1 \in T
      <2>1. SUFFICES ASSUME n + 1 <= Len(ks) PROVE Good(n + 1)
        OBVIOUS
      <2>2. Good(n)
        BY <1>3, <2>1
      <2>3. /\ n + 1 \in 1..Len(ks) /\ ks[n + 1] \in S
            /\ left[n + 1] = IF ks[n + 1] \in gone THEN left[n] ELSE Append(left[n], ks[n + 1])
        BY <1>1, <2>1
      <2>4. {ks[i] : i \in 1..(n + 1)} = {ks[i] : i \in 1..n} \cup {ks[n + 1]}
        BY <2>1
      <2>5. CASE ks[n + 1] \in gone
        BY <2>2, <2>3, <2>4, <2>5
      <2>6. CASE ks[n + 1] \notin gone
        <3>1. left[n + 1] = Append(left[n], ks[n + 1])
          BY <2>3, <2>6
        <3>2. Append(left[n], ks[n + 1]) \in Seq(S)
          BY <2>2, <2>3
        <3>3. ToSet(Append(left[n], ks[n + 1])) = ToSet(left[n]) \cup {ks[n + 1]}
          <4> DEFINE more == Append(left[n], ks[n + 1])
          <4>1. /\ more \in Seq(S) /\ Len(more) = Len(left[n]) + 1
                /\ \A i \in 1..Len(left[n]) : more[i] = left[n][i]
                /\ more[Len(left[n]) + 1] = ks[n + 1]
            BY <2>2, <2>3, AddLast
          <4> HIDE DEF more
          <4>2. ToSet(left[n]) = {left[n][i] : i \in 1..Len(left[n])} /\ Len(left[n]) \in Nat
            BY <2>2, Members
          <4>3. ToSet(more) = {more[i] : i \in 1..Len(more)}
            BY <4>1, Members
          <4>4. QED
            BY <4>1, <4>2, <4>3 DEF more
        <3>4. ASSUME IsInjective(ks) PROVE IsInjective(Append(left[n], ks[n + 1]))
          <4>1. ks[n + 1] \notin ToSet(left[n])
            BY <2>2, <2>3, <3>4, Members
          <4>2. QED
            BY <2>2, <2>3, <3>4, <4>1, AddLastMembers
        <3>5. QED
          BY <2>2, <2>4, <2>6, <3>1, <3>2, <3>3, <3>4
      <2>7. QED
        BY <2>5, <2>6
    <1> HIDE DEF T
    <1>4. Nat \subseteq T
      BY <1>2, <1>3, EveryNumber
    <1>5. Good(Len(ks))
      <2>1. Len(ks) \in Nat /\ Len(ks) \in T
        BY <1>4, Members
      <2>2. QED
        BY <2>1 DEF T
    <1>6. QED
      BY <1>1, <1>5, Members

CacheTypeOK ==
    /\ store \in Seq(Key) /\ IsInjective(store)
    /\ instruction \in [CacheKb -> Instruction] /\ editing \subseteq Key
    /\ index \in [CacheKb -> SUBSET Key]
    /\ asker \in [Asker -> [at : {"idle"}] \cup
                           [at : {"asked", "missed", "answered", "stored"}, key : Key]]
CacheInv ==
    /\ CacheTypeOK /\ Len(store) <= MaxSize /\ expired \subseteq ToSet(store)
    /\ \A b \in CacheKb : index[b] = {k \in ToSet(store) : k[1] = b}

\* Whether an entry goes is true or false.
LEMMA GoesIsTyped ==
    ASSUME CacheTypeOK, NEW a \in Asker, NEW at \in {"asked", "missed", "answered", "stored"},
           NEW k \in Key,
           Goes(a, at, k)
    PROVE  asker' \in [Asker -> [at : {"idle"}] \cup
                             [at : {"asked", "missed", "answered", "stored"}, key : Key]]
    <1>1. [at |-> at, key |-> k] \in [at : {"asked", "missed", "answered", "stored"}, key : Key]
      OBVIOUS
    <1>2. QED
      BY <1>1 DEF CacheTypeOK, Goes

\* A removal never makes the store larger.
LEMMA FewerAreLeft ==
    ASSUME NEW S, NEW ks \in Seq(S), IsInjective(ks), NEW gone
    PROVE  /\ Len(Left(ks, gone)) <= Len(ks)
           /\ gone \cap ToSet(ks) # {} => Len(Left(ks, gone)) < Len(ks)
    <1>1. /\ Left(ks, gone) \in Seq(S) /\ IsInjective(Left(ks, gone))
          /\ ToSet(Left(ks, gone)) = ToSet(ks) \ gone
      BY LeftMembers
    <1>2. ASSUME NEW q \in Seq(S), IsInjective(q)
          PROVE  IsFiniteSet(ToSet(q)) /\ Cardinality(ToSet(q)) = Len(q)
      <2>1. Len(q) \in Nat /\ ToSet(q) = {q[i] : i \in 1..Len(q)}
        BY Members
      <2>2. Len(q) \in 0..Len(q)
        BY <2>1
      <2>3. QED
        BY <1>2, <2>1, <2>2, OldestCount
    <1>3. /\ IsFiniteSet(ToSet(ks)) /\ Cardinality(ToSet(ks)) = Len(ks)
          /\ Cardinality(ToSet(ks) \ gone) = Len(Left(ks, gone))
      BY <1>1, <1>2
    <1>4. /\ Cardinality(ToSet(ks) \ gone) <= Cardinality(ToSet(ks))
          /\ Cardinality(ToSet(ks) \ gone) = Cardinality(ToSet(ks)) => ToSet(ks) \ gone = ToSet(ks)
      BY <1>3, FS_Subset
    <1>5. Len(ks) \in Nat /\ Len(Left(ks, gone)) \in Nat
      BY <1>1, Members
    <1>6. QED
      BY <1>3, <1>4, <1>5

\* The keys that stay are those of the entries that stay.
LEMMA KeysThatStay ==
    ASSUME CacheInv, NEW gone
    PROVE  /\ Left(store, gone) \in Seq(Key) /\ IsInjective(Left(store, gone))
           /\ ToSet(Left(store, gone)) = ToSet(store) \ gone
           /\ Len(Left(store, gone)) <= Len(store) /\ Len(store) \in Nat
           /\ Len(Left(store, gone)) \in Nat
           /\ gone \cap ToSet(store) # {} => Len(Left(store, gone)) < Len(store)
    <1>1. store \in Seq(Key) /\ IsInjective(store)
      BY DEF CacheInv, CacheTypeOK
    <1>2. QED
      BY <1>1, LeftMembers, FewerAreLeft, Members

\* Get keeps the invariant.
LEMMA GetKeeps ==
    ASSUME CacheInv, NEW a \in Asker, asker[a].key \in Key, NEW k \in Key,
           NEW hit \in {"answered", "stored"}, NEW miss \in {"missed", "answered"},
           Get(a, k, hit, miss)
    PROVE  CacheInv'
    <1>1. UNCHANGED <<instruction, editing>>
      BY DEF Get
    <1>2. CASE Goes(a, miss, asker[a].key) /\ UNCHANGED <<store, expired, index>>
      <2>1. CacheTypeOK'
        BY <1>1, <1>2, GoesIsTyped DEF CacheInv, CacheTypeOK
      <2>2. QED
        BY <1>2, <2>1 DEF CacheInv
    <1>3. CASE /\ Contains(store, k) /\ store' = Left(store, {k}) /\ expired' = expired \ {k}
               /\ RemoveFromIndex(k) /\ Goes(a, miss, asker[a].key)
      <2>1. index' \in [CacheKb -> SUBSET Key]
        BY <1>3 DEF CacheInv, CacheTypeOK, RemoveFromIndex
      <2>2. CacheTypeOK'
        BY <1>1, <1>3, <2>1, KeysThatStay, GoesIsTyped DEF CacheInv, CacheTypeOK
      <2>3. ToSet(store') = ToSet(store) \ {k} /\ Len(store') <= MaxSize
        BY <1>3, KeysThatStay, CacheBounds DEF CacheInv
      <2>4. expired' \subseteq ToSet(store')
        BY <1>3, <2>3 DEF CacheInv
      <2>5. \A b \in CacheKb : index'[b] = {l \in ToSet(store') : l[1] = b}
        BY <1>3, <2>3 DEF CacheInv, RemoveFromIndex
      <2>6. QED
        BY <2>2, <2>3, <2>4, <2>5 DEF CacheInv
    <1>4. CASE /\ Contains(store, k) /\ store' = Append(Left(store, {k}), k)
               /\ UNCHANGED <<expired, index>> /\ Goes(a, hit, asker[a].key)
      <2>1. k \in ToSet(store)
        BY <1>4 DEF Contains, ToSet, CacheInv, CacheTypeOK
      <2>2. /\ Left(store, {k}) \in Seq(Key) /\ IsInjective(Left(store, {k}))
            /\ ToSet(Left(store, {k})) = ToSet(store) \ {k}
            /\ Len(Left(store, {k})) < Len(store) /\ Len(store) \in Nat
            /\ Len(Left(store, {k})) \in Nat
        BY <2>1, KeysThatStay
      <2>3. /\ store' \in Seq(Key) /\ IsInjective(store') /\ ToSet(store') = ToSet(store)
            /\ Len(store') = Len(Left(store, {k})) + 1
        <3> DEFINE rest == Left(store, {k})
        <3>1. k \in Key \ ToSet(rest) /\ rest \in Seq(Key) /\ IsInjective(rest)
          BY <2>2
        <3> HIDE DEF rest
        <3>2. /\ Append(rest, k) \in Seq(Key) /\ Len(Append(rest, k)) = Len(rest) + 1
              /\ IsInjective(Append(rest, k)) /\ ToSet(Append(rest, k)) = ToSet(rest) \cup {k}
          BY <3>1, AddLast, AddLastMembers
        <3>3. QED
          BY <1>4, <2>1, <2>2, <3>2 DEF rest
      <2>4. Len(store') <= MaxSize
        BY <2>2, <2>3, CacheBounds DEF CacheInv
      <2>5. CacheTypeOK'
        BY <1>1, <1>4, <2>3, GoesIsTyped DEF CacheInv, CacheTypeOK
      <2>6. QED
        BY <1>4, <2>3, <2>4, <2>5 DEF CacheInv
    <1>5. QED
      BY <1>2, <1>3, <1>4 DEF Get

\* Put keeps the invariant.
LEMMA PutKeeps ==
    ASSUME CacheInv, NEW a \in Asker, Put(a)
    PROVE  CacheInv'
    <1> DEFINE k == asker[a].key
               gone == ToSet(Evicted)
               left == Left(store, gone)
    <1>1. k \in Key /\ k[1] \in CacheKb
      BY DEF CacheInv, CacheTypeOK, Put, Key
    <1>2. /\ store' = IF Contains(left, k) THEN left ELSE Append(left, k)
          /\ expired' = (expired \ gone) \ {k}
          /\ index' = [b \in CacheKb |-> (index[b] \ gone) \cup (IF b = k[1] THEN {k} ELSE {})]
          /\ Goes(a, "stored", k) /\ UNCHANGED <<instruction, editing>>
      BY DEF Put, Range, ToSet
    <1>3. Len(store) >= MaxSize => gone \cap ToSet(store) # {}
      <2>1. SUFFICES ASSUME Len(store) >= MaxSize PROVE gone \cap ToSet(store) # {}
        OBVIOUS
      <2>2. store \in Seq(Key) /\ Len(store) \in Nat /\ Len(store) = MaxSize
        BY <2>1, CacheBounds DEF CacheInv, CacheTypeOK
      <2>3. Evicted = SubSeq(store, 1, 1)
        BY <2>2 DEF Evicted
      <2>4. Evicted[1] = store[1] /\ 1 \in DOMAIN Evicted /\ 1 \in DOMAIN store
        BY <2>2, <2>3, CacheBounds
      <2>5. QED
        BY <2>4 DEF ToSet
    <1>4. /\ left \in Seq(Key) /\ IsInjective(left) /\ ToSet(left) = ToSet(store) \ gone
          /\ Len(left) \in Nat /\ Len(left) < MaxSize
      BY <1>3, KeysThatStay, CacheBounds DEF CacheInv
    <1> HIDE DEF gone, left
    <1>5. Contains(left, k) <=> k \in ToSet(left)
      BY <1>4 DEF Contains, ToSet
    <1>6. /\ store' \in Seq(Key) /\ IsInjective(store') /\ Len(store') <= MaxSize
          /\ ToSet(store') = (ToSet(store) \ gone) \cup {k}
      <2>1. CASE k \in ToSet(left)
        BY <1>2, <1>4, <1>5, <2>1, CacheBounds
      <2>2. CASE k \notin ToSet(left)
        <3>1. store' = Append(left, k)
          BY <1>2, <1>5, <2>2
        <3>2. /\ store' \in Seq(Key) /\ Len(store') = Len(left) + 1
              /\ IsInjective(store') /\ ToSet(store') = ToSet(left) \cup {k}
          BY <1>1, <1>4, <2>2, <3>1, AddLast, AddLastMembers
        <3>3. QED
          BY <1>4, <3>2, CacheBounds
      <2>3. QED
        BY <2>1, <2>2
    <1>7. index' \in [CacheKb -> SUBSET Key]
      BY <1>1, <1>2 DEF CacheInv, CacheTypeOK
    <1>8. CacheTypeOK'
      BY <1>1, <1>2, <1>6, <1>7, GoesIsTyped DEF CacheInv, CacheTypeOK
    <1>9. expired' \subseteq ToSet(store')
      BY <1>2, <1>6 DEF CacheInv
    <1>10. \A b \in CacheKb : index'[b] = {l \in ToSet(store') : l[1] = b}
      BY <1>1, <1>2, <1>6 DEF CacheInv
    <1>11. QED
      BY <1>6, <1>8, <1>9, <1>10 DEF CacheInv

\* No step disturbs the cache.
LEMMA CacheStep == CacheInv /\ [CacheNext]_cacheVars => CacheInv'
    <1> SUFFICES ASSUME CacheInv, [CacheNext]_cacheVars PROVE CacheInv'
      OBVIOUS
    <1>1. CASE UNCHANGED cacheVars
      BY <1>1 DEF cacheVars, CacheInv, CacheTypeOK
    <1>2. ASSUME NEW a \in Asker, NEW b \in CacheKb, Ask(a, b) PROVE CacheInv'
      <2>1. <<b, instruction[b]>> \in Key
        BY DEF CacheInv, CacheTypeOK, Key
      <2>2. CacheTypeOK'
        BY <1>2, <2>1, GoesIsTyped DEF CacheInv, CacheTypeOK, Ask
      <2>3. QED
        BY <1>2, <2>2 DEF CacheInv, Ask
    <1>3. ASSUME NEW a \in Asker, LookUp(a) PROVE CacheInv'
      <2>1. asker[a].key \in Key
        BY <1>3 DEF CacheInv, CacheTypeOK, LookUp
      <2>2. QED
        BY <1>3, <2>1, GetKeeps DEF LookUp
    <1>4. ASSUME NEW a \in Asker, EntryNode(a) PROVE CacheInv'
      <2>1. asker[a].key \in Key
        BY <1>4 DEF CacheInv, CacheTypeOK, EntryNode
      <2>2. <<asker[a].key[1], instruction[asker[a].key[1]]>> \in Key
        BY <2>1 DEF CacheInv, CacheTypeOK, Key
      <2>3. QED
        BY <1>4, <2>1, <2>2, GetKeeps DEF EntryNode
    <1>5. ASSUME NEW a \in Asker, TurnEnds(a) PROVE CacheInv'
      <2>1. CacheTypeOK'
        BY <1>5 DEF CacheInv, CacheTypeOK, TurnEnds
      <2>2. QED
        BY <1>5, <2>1 DEF CacheInv, TurnEnds
    <1>6. ASSUME NEW k \in Key, Expire(k) PROVE CacheInv'
      <2>1. k \in ToSet(store)
        BY <1>6 DEF Expire, Contains, ToSet, CacheInv, CacheTypeOK
      <2>2. QED
        BY <1>6, <2>1 DEF CacheInv, CacheTypeOK, Expire
    <1>7. ASSUME NEW k \in Key, EditInstruction(k[1], k[2]) PROVE CacheInv'
      <2>1. /\ store' = Left(store, index[k[1]]) /\ expired' = expired \ index[k[1]]
            /\ index' = [index EXCEPT ![k[1]] = {}]
            /\ editing' = editing \cup {<<k[1], k[2]>>} /\ UNCHANGED <<instruction, asker>>
        BY <1>7 DEF EditInstruction, Invalidate
      <2>2. /\ store' \in Seq(Key) /\ IsInjective(store')
            /\ ToSet(store') = ToSet(store) \ index[k[1]]
            /\ Len(store') <= MaxSize
        BY <2>1, KeysThatStay, CacheBounds DEF CacheInv
      <2>3. k[1] \in CacheKb /\ <<k[1], k[2]>> \in Key
        BY DEF Key
      <2>4. CacheTypeOK'
        BY <2>1, <2>2, <2>3 DEF CacheInv, CacheTypeOK
      <2>5. \A b \in CacheKb : index'[b] = {l \in ToSet(store') : l[1] = b}
        BY <2>1, <2>2, <2>3 DEF CacheInv, CacheTypeOK
      <2>6. QED
        BY <2>1, <2>2, <2>4, <2>5 DEF CacheInv
    <1>8. ASSUME NEW e \in editing, CommitEdit(e) PROVE CacheInv'
      <2>1. e[1] \in CacheKb /\ e[2] \in Instruction
        BY DEF CacheInv, CacheTypeOK, Key
      <2>2. CacheTypeOK'
        BY <1>8, <2>1 DEF CacheInv, CacheTypeOK, CommitEdit
      <2>3. QED
        BY <1>8, <2>2 DEF CacheInv, CommitEdit
    <1>9. QED
      BY <1>1, <1>2, <1>3, <1>4, <1>5, <1>6, <1>7, <1>8, PutKeeps DEF CacheNext

\* The index lists exactly what the store holds, and the store keeps to its size.
THEOREM CacheStaysIndexed == CacheSpec => []CacheIndexIsExact
    <1>1. CacheInit => CacheInv
      <2> SUFFICES ASSUME CacheInit PROVE CacheInv
        OBVIOUS
      <2>1. <<>> \in Seq(Key) /\ ToSet(<<>>) = {} /\ IsInjective(<<>>) /\ Len(<<>>) = 0
        BY DEF ToSet, IsInjective
      <2>2. CacheTypeOK
        BY <2>1 DEF CacheInit, CacheTypeOK
      <2>3. QED
        BY <2>1, <2>2, CacheBounds DEF CacheInit, CacheInv
    <1>2. CacheInv => CacheIndexIsExact
      <2> SUFFICES ASSUME CacheInv PROVE CacheIndexIsExact
        OBVIOUS
      <2>1. Range(store) = ToSet(store)
        BY DEF Range, ToSet
      <2>2. /\ store \in Seq(Key) /\ Len(store) \in 0..Len(store)
            /\ ToSet(store) = {store[i] : i \in 1..Len(store)}
        BY Members DEF CacheInv, CacheTypeOK
      <2>3. Cardinality(ToSet(store)) = Len(store)
        <3>1. store \in Seq(Key) /\ IsInjective(store)
          BY DEF CacheInv, CacheTypeOK
        <3>2. Cardinality({store[i] : i \in 1..Len(store)}) = Len(store)
          BY <2>2, <3>1, OldestCount
        <3>3. QED
          BY <2>2, <3>2
      <2>4. QED
        BY <2>1, <2>3 DEF CacheInv, CacheIndexIsExact
    <1>3. QED
      BY <1>1, <1>2, CacheStep, PTL DEF CacheSpec

-----------------------------------------------------------------------------
(* The skill store.                                                        *)

\* A sync that runs on its own has read, or is about to read, what is there.
SyncIsExact ==
    calm = "syncing" =>
        \E r \in SkRequest :
            /\ OthersIdle(r)
            /\ \/ req[r] = [at |-> "scanned", found |-> folders]
               \/ req[r] = [at |-> "sync", new |-> Reconciled(folders), seen |-> row]

RestAfterSync == calm = "yes" => \A r \in SkRequest : req[r] = NoRequest

SkInv == /\ req = [r \in SkRequest |-> req[r]]
         /\ SyncIsExact /\ RestAfterSync /\ SyncRepairs

\* The request that runs alone is the one that moves.
LEMMA RequestsAtWork ==
    ASSUME SkInv, NEW r \in SkRequest, req[r] # NoRequest
    PROVE  /\ calm # "yes"
           /\ calm = "syncing" =>
                 /\ OthersIdle(r)
                 /\ \/ req[r] = [at |-> "scanned", found |-> folders]
                    \/ req[r] = [at |-> "sync", new |-> Reconciled(folders), seen |-> row]
    BY DEF SkInv, SyncIsExact, RestAfterSync, OthersIdle

\* No step disturbs the invariant of the store.
LEMMA SkStep == SkInv /\ [SkNext]_skVars => SkInv'
    <1> SUFFICES ASSUME SkInv, [SkNext]_skVars PROVE SkInv'
      OBVIOUS
    <1>1. CASE UNCHANGED skVars
      <2>1. UNCHANGED <<folders, link, row, req, calm>>
        BY <1>1 DEF skVars
      <2>2. Reconciled(folders)' = Reconciled(folders) /\ \A r \in SkRequest : OthersIdle(r)' = OthersIdle(r)
        BY <2>1 DEF Reconciled, OthersIdle
      <2>3. QED
        BY <2>1, <2>2 DEF SkInv, SyncIsExact, RestAfterSync, SyncRepairs
\* Whatever else begins takes the calm away.
    <1>2. ASSUME NEW r \in SkRequest, NEW f \in Folder,
                 \/ Upload(r, f) \/ Reupload(r, f) \/ DeleteSkill(r, f) \/ ToggleSkill(r, f)
                 \/ \E active \in BOOLEAN : CreateSkill(r, f, active)
          PROVE  SkInv'
      <2>1. calm' = "no" /\ req' = [q \in SkRequest |-> req'[q]]
        BY <1>2 DEF SkInv, Upload, Reupload, DeleteSkill, ToggleSkill, CreateSkill, Starts, ReqMoves
      <2>2. QED
        BY <2>1 DEF SkInv, SyncIsExact, RestAfterSync, SyncRepairs
    <1>3. ASSUME NEW r \in SkRequest, Publish(r) \/ CommitRow(r)
          PROVE  SkInv'
      <2>1. /\ req[r].at \in {"reading", "commit"} /\ calm' = calm
            /\ req' = [q \in SkRequest |-> req'[q]]
        BY <1>3 DEF SkInv, Publish, CommitRow, Commit, Ends, ReqMoves
      <2>2. calm \notin {"yes", "syncing"}
        BY <2>1, RequestsAtWork DEF NoRequest
      <2>3. QED
        BY <2>1, <2>2 DEF SkInv, SyncIsExact, RestAfterSync, SyncRepairs
    <1>4. ASSUME NEW r \in SkRequest, Scan(r) PROVE SkInv'
      <2>1. /\ req' = [req EXCEPT ![r] = [at |-> "scanned", found |-> folders]]
            /\ calm' = (IF OthersIdle(r) THEN "syncing" ELSE "no") /\ UNCHANGED folders
        BY <1>4 DEF Scan, Starts, ReqMoves
      <2>2. /\ req'[r] = [at |-> "scanned", found |-> folders]
            /\ \A q \in SkRequest \ {r} : req'[q] = req[q]
            /\ req' = [q \in SkRequest |-> req'[q]]
        BY <2>1 DEF SkInv
      <2>3. calm' = "syncing" => OthersIdle(r)'
        BY <2>1, <2>2 DEF OthersIdle
      <2>4. QED
        BY <2>1, <2>2, <2>3 DEF SkInv, SyncIsExact, RestAfterSync, SyncRepairs
    <1>5. ASSUME NEW r \in SkRequest, Compare(r) PROVE SkInv'
      <2>1. /\ req' = [req EXCEPT ![r] = [at |-> "sync", new |-> Reconciled(req[r].found), seen |-> row]]
            /\ req[r].at = "scanned" /\ UNCHANGED <<folders, link, row, calm>>
        BY <1>5 DEF Compare, ReqMoves
      <2>2. /\ req'[r] = [at |-> "sync", new |-> Reconciled(req[r].found), seen |-> row]
            /\ \A q \in SkRequest \ {r} : req'[q] = req[q]
            /\ req' = [q \in SkRequest |-> req'[q]]
        BY <2>1 DEF SkInv
      <2>3. Reconciled(folders)' = Reconciled(folders)
        BY <2>1 DEF Reconciled
      <2>4. calm' # "yes" /\ (calm' = "syncing" => OthersIdle(r)' /\ req[r].found = folders)
        BY <2>1, <2>2, RequestsAtWork DEF NoRequest, OthersIdle
      <2>5. QED
        BY <2>1, <2>2, <2>3, <2>4 DEF SkInv, SyncIsExact, RestAfterSync, SyncRepairs
    <1>6. ASSUME NEW r \in SkRequest, CommitSync(r) PROVE SkInv'
      <2>1. /\ req' = [req EXCEPT ![r] = NoRequest] /\ UNCHANGED <<folders, link>>
            /\ req[r].at = "sync" /\ calm' = IF calm = "syncing" THEN "yes" ELSE calm
        BY <1>6 DEF CommitSync, Commit, Ends, ReqMoves
      <2>2. /\ req'[r] = NoRequest
            /\ \A q \in SkRequest \ {r} : req'[q] = req[q]
            /\ req' = [q \in SkRequest |-> req'[q]]
        BY <2>1 DEF SkInv
      <2>3. CASE calm = "syncing"
        <3>1. OthersIdle(r) /\ req[r].new = Reconciled(folders) /\ req[r].seen = row
          BY <2>1, <2>3, RequestsAtWork DEF NoRequest
        <3>2. \A f \in Folder : row'[f] = Reconciled(folders)[f]
          BY <1>6, <3>1 DEF CommitSync, Commit, Conflicts, Changed, Reconciled
        <3>3. SyncRepairs'
          BY <2>1, <3>2 DEF SyncRepairs, Reconciled, Flag
        <3>4. RestAfterSync'
          BY <2>2, <3>1 DEF RestAfterSync, OthersIdle
        <3>5. QED
          BY <2>1, <2>2, <2>3, <3>3, <3>4 DEF SkInv, SyncIsExact
      <2>4. CASE calm # "syncing"
        <3>1. calm # "yes"
          BY <2>1, RequestsAtWork DEF NoRequest
        <3>2. QED
          BY <2>1, <2>2, <2>4, <3>1 DEF SkInv, SyncIsExact, RestAfterSync, SyncRepairs
      <2>5. QED
        BY <2>3, <2>4
    <1>7. QED
      BY <1>1, <1>2, <1>3, <1>4, <1>5, <1>6 DEF SkNext

\* A sync that runs on its own repairs whatever the others left.
THEOREM SyncsRepair == SkSpec => []SyncRepairs
    <1>1. SkInit => SkInv
      BY DEF SkInit, SkInv, SyncIsExact, RestAfterSync, SyncRepairs
    <1>2. SkInv => SyncRepairs
      BY DEF SkInv
    <1>3. QED
      BY <1>1, <1>2, SkStep, PTL DEF SkSpec

-----------------------------------------------------------------------------
(* Downloads of models.                                                    *)

Places == {"ended", "gate", "waiting", "fetching", "fetched", "recorded", "leaving"}
Download == [at : Places, model : Model, epoch : 0..DlEpochs, file : 1..FileCount]

\* What the proof needs to know of the types.
DownloadsTyped == /\ dmodel \in Model /\ dlEpoch \in Nat
                  /\ cache \in [Model -> SUBSET (0..FileCount)]
                  /\ worker \in [Worker -> Download] /\ installed \subseteq Model

\* A model that nobody wiped under a worker has the files its workers fetched.
FetchedFilesAreThere ==
    \A w \in Worker :
        worker[w].model \notin cut =>
            /\ worker[w].at \in {"gate", "waiting", "fetching"} => 1..(worker[w].file - 1) \subseteq cache[worker[w].model]
            /\ worker[w].at \in {"gate", "waiting"} /\ worker[w].file > 1 => 0 \in cache[worker[w].model]
            /\ worker[w].at = "fetching" => 0 \in cache[worker[w].model]
            /\ worker[w].at \in {"fetched", "recorded"} => Complete(worker[w].model)

RecordedIsComplete == \A m \in installed \ cut : Complete(m)

\* A download is under way only with a worker of its own.
BusyHasAWorker ==
    Busy => \E w \in Worker : /\ worker[w].at \in Places \ {"ended", "leaving"}
                              /\ worker[w].epoch = dlEpoch /\ worker[w].model = dmodel

DlInv == DownloadsTyped /\ FetchedFilesAreThere /\ RecordedIsComplete /\ BusyHasAWorker

\* What the edits of a worker leave of it.
LEMMA WorkerEdits ==
    ASSUME NEW x \in Download
    PROVE  /\ \A place \in Places :
                 LET y == [x EXCEPT !.at = place]
                 IN  y \in Download /\ y.at = place /\ y.model = x.model /\ y.epoch = x.epoch /\ y.file = x.file
           /\ x.file # FileCount =>
                 LET y == [x EXCEPT !.at = "gate", !.file = @ + 1]
                 IN  y \in Download /\ y.at = "gate" /\ y.model = x.model /\ y.epoch = x.epoch /\ y.file = x.file + 1
    <1>1. ASSUME NEW place \in Places
          PROVE  LET y == [x EXCEPT !.at = place]
                 IN  y \in Download /\ y.at = place /\ y.model = x.model /\ y.epoch = x.epoch /\ y.file = x.file
      BY DEF Download
    <1>2. ASSUME x.file # FileCount
          PROVE  LET y == [x EXCEPT !.at = "gate", !.file = @ + 1]
                 IN  y \in Download /\ y.at = "gate" /\ y.model = x.model /\ y.epoch = x.epoch /\ y.file = x.file + 1
      <2>1. x.file + 1 \in 1..FileCount
        BY <1>2, DlBounds DEF Download
      <2>2. QED
        BY <2>1 DEF Download, Places
    <1>3. QED
      BY <1>1, <1>2

\* A download that ended is a download.
LEMMA EndedIsADownload == Ended \in Download /\ Ended.at = "ended"
    <1>1. AnyModel \in Model
      BY DlBounds DEF AnyModel
    <1>2. 1 \in 1..FileCount /\ 0 \in 0..DlEpochs
      BY DlBounds
    <1>3. QED
      BY <1>1, <1>2 DEF Ended, Download, Places

\* A worker that moves from one place to another.
LEMMA Moves ==
    ASSUME DownloadsTyped, NEW w \in Worker, NEW place \in Places, Move(w, place)
    PROVE  /\ worker' \in [Worker -> Download]
           /\ worker'[w].at = place /\ worker'[w].model = worker[w].model
           /\ worker'[w].epoch = worker[w].epoch /\ worker'[w].file = worker[w].file
           /\ \A v \in Worker \ {w} : worker'[v] = worker[v]
    <1>1. /\ worker' = [worker EXCEPT ![w] = [worker[w] EXCEPT !.at = place]]
          /\ worker \in [Worker -> Download]
      BY DEF Move, DownloadsTyped
    <1>2. QED
      BY <1>1, WorkerEdits

\* Workers that wait are woken, and nothing else changes about them.
LEMMA Wakes ==
    ASSUME DownloadsTyped
    PROVE  /\ Woken(worker) \in [Worker -> Download]
           /\ \A w \in Worker :
                 /\ Woken(worker)[w].at = IF worker[w].at = "waiting" THEN "gate" ELSE worker[w].at
                 /\ Woken(worker)[w].model = worker[w].model
                 /\ Woken(worker)[w].epoch = worker[w].epoch
                 /\ Woken(worker)[w].file = worker[w].file
    <1>1. \A w \in Worker : Woken(worker)[w] = IF worker[w].at = "waiting" THEN [worker[w] EXCEPT !.at = "gate"] ELSE worker[w]
      BY DEF Woken
    <1>2. worker \in [Worker -> Download] /\ "gate" \in Places
      BY DEF DownloadsTyped, Places
    <1>3. \A w \in Worker :
                   /\ Woken(worker)[w] \in Download
                   /\ Woken(worker)[w].at = IF worker[w].at = "waiting" THEN "gate" ELSE worker[w].at
                   /\ Woken(worker)[w].model = worker[w].model
                   /\ Woken(worker)[w].epoch = worker[w].epoch
                   /\ Woken(worker)[w].file = worker[w].file
      <2> SUFFICES ASSUME NEW w \in Worker
                   PROVE  /\ Woken(worker)[w] \in Download
                          /\ Woken(worker)[w].at = IF worker[w].at = "waiting" THEN "gate" ELSE worker[w].at
                          /\ Woken(worker)[w].model = worker[w].model
                          /\ Woken(worker)[w].epoch = worker[w].epoch
                          /\ Woken(worker)[w].file = worker[w].file
        OBVIOUS
      <2>1. worker[w] \in Download
        BY <1>2
      <2>2. LET y == [worker[w] EXCEPT !.at = "gate"]
            IN  /\ y \in Download /\ y.at = "gate" /\ y.model = worker[w].model
                /\ y.epoch = worker[w].epoch /\ y.file = worker[w].file
        BY <1>2, <2>1, WorkerEdits
      <2>3. QED
        BY <1>1, <2>1, <2>2
    <1>4. Woken(worker) = [w \in Worker |-> Woken(worker)[w]]
      BY DEF Woken
    <1>5. QED
      BY <1>3, <1>4

\* A worker that a control only wakes, or that leaves.
WokenOrLeaves(w) == /\ worker'[w].model = worker[w].model /\ worker'[w].file = worker[w].file
                    /\ \/ worker'[w].at = worker[w].at \/ worker'[w].at = "leaving"
                       \/ worker[w].at = "waiting" /\ worker'[w].at = "gate"

\* What a wipe may do: models lose all their files or none; those that lose them and have a
\* worker at work are cut.
LEMMA WipesAreCut ==
    ASSUME DlInv, UNCHANGED dmodel, dlEpoch' \in Nat, NEW gone \in SUBSET Model,
           cache' = [m \in Model |-> IF m \in gone THEN {} ELSE cache[m]],
           worker' \in [Worker -> Download],
           \A w \in Worker : WokenOrLeaves(w),
           \A w \in Worker : worker[w].model \in gone /\ worker'[w].at \notin {"ended", "leaving"} => worker[w].model \in cut',
           installed' \subseteq installed, \A m \in gone : m \in installed' => m \in cut',
           cut \subseteq cut', ~Busy'
    PROVE  DlInv'
    <1>1. cache' \in [Model -> SUBSET (0..FileCount)]
      BY DEF DlInv, DownloadsTyped
    <1>2. \A w \in Worker : worker[w].model \in Model
      BY DEF DlInv, DownloadsTyped, Download
    <1>3. \A m \in Model : m \notin gone => cache'[m] = cache[m]
      OBVIOUS
    <1>4. FetchedFilesAreThere'
      <2>1. SUFFICES ASSUME NEW w \in Worker, worker'[w].model \notin cut',
                            worker'[w].at \notin {"ended", "leaving"}
                     PROVE
                /\ worker'[w].at \in {"gate", "waiting", "fetching"} => 1..(worker'[w].file - 1) \subseteq cache'[worker'[w].model]
                /\ worker'[w].at \in {"gate", "waiting"} /\ worker'[w].file > 1 => 0 \in cache'[worker'[w].model]
                /\ worker'[w].at = "fetching" => 0 \in cache'[worker'[w].model]
                /\ worker'[w].at \in {"fetched", "recorded"} => cache'[worker'[w].model] = 0..FileCount
        BY DEF FetchedFilesAreThere, Complete
      <2>2. /\ worker[w].model \notin gone /\ worker[w].model \notin cut
            /\ worker'[w].model = worker[w].model
        BY <2>1 DEF WokenOrLeaves
      <2>3. cache'[worker'[w].model] = cache[worker[w].model]
        BY <1>2, <1>3, <2>2
      <2>4. QED
        BY <2>1, <2>2, <2>3 DEF DlInv, FetchedFilesAreThere, Complete, WokenOrLeaves
    <1>5. RecordedIsComplete'
      <2>1. SUFFICES ASSUME NEW m \in installed' \ cut' PROVE cache'[m] = 0..FileCount
        BY DEF RecordedIsComplete, Complete
      <2>2. m \in installed \ cut /\ m \notin gone /\ cache[m] = 0..FileCount
        BY <2>1 DEF DlInv, RecordedIsComplete, Complete
      <2>3. m \in Model
        BY <2>2 DEF DlInv, DownloadsTyped
      <2>4. QED
        BY <1>3, <2>2, <2>3
    <1>6. QED
      BY <1>1, <1>4, <1>5 DEF DlInv, DownloadsTyped, BusyHasAWorker

\* Start keeps the invariant.
LEMMA StartKeeps ==
    ASSUME DlInv, NEW m \in Model, NEW w \in Worker, StartDownload(m, w)
    PROVE  DlInv'
    <1> DEFINE new == [at |-> "gate", model |-> m, epoch |-> dlEpoch + 1, file |-> 1]
    <1>1. new \in Download
      BY DlBounds DEF Download, Places, StartDownload, DlInv, DownloadsTyped
    <1>2. /\ worker' = [worker EXCEPT ![w] = new] /\ dlEpoch' = dlEpoch + 1 /\ dmodel' = m
          /\ UNCHANGED <<cache, installed, cut>>
      BY DEF StartDownload
    <1>3. new.at = "gate" /\ new.model = m /\ new.epoch = dlEpoch + 1 /\ new.file = 1
      OBVIOUS
    <1> HIDE DEF new
    <1>4. DownloadsTyped'
      BY <1>1, <1>2 DEF DlInv, DownloadsTyped
    <1>5. worker'[w] = new /\ \A v \in Worker \ {w} : worker'[v] = worker[v]
      BY <1>2 DEF DlInv, DownloadsTyped
    <1>6. FetchedFilesAreThere'
      BY <1>2, <1>3, <1>5 DEF DlInv, FetchedFilesAreThere, Complete
    <1>7. BusyHasAWorker'
      BY <1>2, <1>3, <1>5 DEF BusyHasAWorker, Places
    <1>8. QED
      BY <1>2, <1>4, <1>6, <1>7 DEF DlInv, RecordedIsComplete, Complete

\* Pause keeps the invariant.
LEMMA PauseKeeps ==
    ASSUME DlInv, PauseDownload
    PROVE  DlInv'
    BY DEF DlInv, PauseDownload, DownloadsTyped, FetchedFilesAreThere, RecordedIsComplete, Complete,
           BusyHasAWorker, Busy

\* Resume keeps the invariant.
LEMMA ResumeKeeps ==
    ASSUME DlInv, ResumeDownload
    PROVE  DlInv'
    <1>1. /\ worker' = Woken(worker) /\ Busy /\ UNCHANGED <<dmodel, dlEpoch, cache, installed, cut>>
      BY DEF ResumeDownload, Busy
    <1>2. DownloadsTyped'
      BY <1>1, Wakes DEF DlInv, DownloadsTyped
    <1>3. FetchedFilesAreThere'
      BY <1>1, Wakes DEF DlInv, FetchedFilesAreThere, Complete
    <1>4. BusyHasAWorker'
      BY <1>1, Wakes DEF DlInv, BusyHasAWorker, Places
    <1>5. QED
      BY <1>1, <1>2, <1>3, <1>4 DEF DlInv, RecordedIsComplete, Complete

\* Cancel keeps the invariant.
LEMMA CancelKeeps ==
    ASSUME DlInv, CancelDownload
    PROVE  DlInv'
    <1>1. /\ worker' = Woken(worker) /\ dlEpoch' = dlEpoch + 1 /\ UNCHANGED <<dmodel, installed>>
          /\ cache' = [cache EXCEPT ![dmodel] = {}] /\ ~Busy' /\ Busy
          /\ cut' = IF AtWork(dmodel) THEN cut \cup {dmodel} ELSE cut
      BY DEF CancelDownload, Busy
    <1>2. AtWork(dmodel)
      BY <1>1 DEF DlInv, BusyHasAWorker, AtWork, Places
    <1>3. cache' = [m \in Model |-> IF m \in {dmodel} THEN {} ELSE cache[m]]
      BY <1>1 DEF DlInv, DownloadsTyped
    <1>4. {dmodel} \in SUBSET Model /\ dlEpoch' \in Nat
      BY <1>1 DEF DlInv, DownloadsTyped
    <1>5. QED
      <2>1. worker' \in [Worker -> Download] /\ \A w \in Worker : WokenOrLeaves(w)
        BY <1>1, Wakes DEF DlInv, WokenOrLeaves
      <2>2. cut' = cut \cup {dmodel} /\ installed' = installed
        BY <1>1, <1>2
      <2>3. QED
        BY <1>1, <1>3, <1>4, <2>1, <2>2, WipesAreCut

\* Delete keeps the invariant.
LEMMA DeleteKeeps ==
    ASSUME DlInv, NEW m \in Model, DeleteModel(m)
    PROVE  DlInv'
    <1> DEFINE gone == {n \in Model : n = m \/ (Busy /\ n = dmodel)}
    <1>1. /\ worker' = (IF Busy THEN Woken(worker) ELSE worker) /\ dlEpoch' = dlEpoch + 1 /\ UNCHANGED dmodel
          /\ cache' = [n \in Model |-> IF n = m \/ (Busy /\ n = dmodel) THEN {} ELSE cache[n]] /\ ~Busy'
          /\ installed' = installed \ {m}
          /\ cut' = cut \cup {n \in Model : AtWork(n) /\ (n = m \/ (Busy /\ n = dmodel))}
      BY DEF DeleteModel, Busy
    <1>2. cache' = [n \in Model |-> IF n \in gone THEN {} ELSE cache[n]]
      BY <1>1
    <1>3. gone \in SUBSET Model /\ dlEpoch' \in Nat /\ installed' \subseteq installed
      BY <1>1 DEF DlInv, DownloadsTyped
    <1>4. worker' \in [Worker -> Download] /\ \A w \in Worker : WokenOrLeaves(w)
      <2>1. CASE Busy
        BY <1>1, <2>1, Wakes DEF DlInv, WokenOrLeaves
      <2>2. CASE ~Busy
        BY <1>1, <2>2 DEF DlInv, DownloadsTyped, WokenOrLeaves
      <2>3. QED
        BY <2>1, <2>2
    <1>5. \A w \in Worker : worker[w].model \in gone /\ worker'[w].at \notin {"ended", "leaving"} => worker[w].model \in cut'
      <2>1. \A w \in Worker : worker'[w].at \notin {"ended", "leaving"} => worker[w].at # "ended"
        BY <1>4 DEF WokenOrLeaves
      <2>2. \A n \in gone : AtWork(n) => n \in cut'
        BY <1>1
      <2>3. QED
        BY <2>1, <2>2 DEF AtWork
    <1>6. \A n \in gone : n \in installed' => n \in cut'
      BY <1>1 DEF DlInv, BusyHasAWorker, AtWork, Places
    <1> HIDE DEF gone
    <1>7. QED
      BY <1>1, <1>2, <1>3, <1>4, <1>5, <1>6, WipesAreCut

\* AfterCancel keeps the invariant.
LEMMA AfterCancelKeeps ==
    ASSUME DlInv, NEW w \in Worker, worker[w].at # "ended", AfterCancel(w), Move(w, "leaving"),
           UNCHANGED <<dmodel, dlEpoch>>
    PROVE  DlInv'
    <1> DEFINE m == worker[w].model
    <1>1. /\ cache' = [cache EXCEPT ![m] = {}] /\ installed' = installed \ {m} /\ ~Busy'
          /\ cut' = IF \E v \in Worker \ {w} : worker[v].model = m /\ worker[v].at # "ended"
                  THEN cut \cup {m} ELSE cut
      BY DEF AfterCancel, Busy
    <1>2. m \in Model /\ "leaving" \in Places
      BY DEF DlInv, DownloadsTyped, Download, Places
    <1>3. cache' = [n \in Model |-> IF n \in {m} THEN {} ELSE cache[n]] /\ {m} \in SUBSET Model /\ dlEpoch' \in Nat
      BY <1>1, <1>2 DEF DlInv, DownloadsTyped
    <1>4. /\ worker' \in [Worker -> Download]
          /\ worker'[w].at = "leaving" /\ worker'[w].model = worker[w].model
          /\ worker'[w].epoch = worker[w].epoch /\ worker'[w].file = worker[w].file
          /\ \A v \in Worker \ {w} : worker'[v] = worker[v]
      BY <1>2, Moves DEF DlInv
    <1>5. \A v \in Worker : worker[v].model \in {m} /\ worker'[v].at \notin {"ended", "leaving"} => worker[v].model \in cut'
      BY <1>1, <1>4
    <1>6. \A v \in Worker : WokenOrLeaves(v)
      BY <1>4 DEF WokenOrLeaves
    <1>7. installed' \subseteq installed /\ (\A n \in {m} : n \in installed' => n \in cut') /\ cut \subseteq cut'
      BY <1>1
    <1> HIDE DEF m
    <1>8. QED
      BY <1>1, <1>3, <1>4, <1>5, <1>6, <1>7, WipesAreCut

\* A worker that moves on, or adds files, while nothing is wiped.
LEMMA AddingKeeps ==
    ASSUME DlInv, NEW w \in Worker, UNCHANGED <<dmodel, dlEpoch, cut>>,
           worker' \in [Worker -> Download], \A v \in Worker \ {w} : worker'[v] = worker[v],
           worker'[w].model = worker[w].model,
           cache' \in [Model -> SUBSET (0..FileCount)], \A m \in Model : cache[m] \subseteq cache'[m],
           installed' \in {installed, installed \cup {worker[w].model}},
           worker[w].model \notin cut =>
              /\ worker'[w].at \in {"gate", "waiting", "fetching"} => 1..(worker'[w].file - 1) \subseteq cache'[worker[w].model]
              /\ worker'[w].at \in {"gate", "waiting"} /\ worker'[w].file > 1 => 0 \in cache'[worker[w].model]
              /\ worker'[w].at = "fetching" => 0 \in cache'[worker[w].model]
              /\ worker'[w].at \in {"fetched", "recorded"} => 0..FileCount \subseteq cache'[worker[w].model]
              /\ installed' # installed => 0..FileCount \subseteq cache'[worker[w].model],
           \/ ~Busy'
           \/ dstatus' = dstatus /\ worker'[w].epoch = worker[w].epoch /\ worker'[w].at \in Places \ {"ended", "leaving"}
           \/ dstatus' = dstatus /\ (worker[w].epoch # dlEpoch \/ worker[w].at = "leaving")
    PROVE  DlInv'
    <1>1. \A v \in Worker : worker[v].model \in Model
      BY DEF DlInv, DownloadsTyped, Download
    <1>2. DownloadsTyped'
      BY <1>1 DEF DlInv, DownloadsTyped
    <1>3. \A m \in Model : 0..FileCount \subseteq cache'[m] => cache'[m] = 0..FileCount
      OBVIOUS
    <1>4. FetchedFilesAreThere'
      <2>1. SUFFICES ASSUME NEW v \in Worker, worker'[v].model \notin cut'
                     PROVE
                /\ worker'[v].at \in {"gate", "waiting", "fetching"} => 1..(worker'[v].file - 1) \subseteq cache'[worker'[v].model]
                /\ worker'[v].at \in {"gate", "waiting"} /\ worker'[v].file > 1 => 0 \in cache'[worker'[v].model]
                /\ worker'[v].at = "fetching" => 0 \in cache'[worker'[v].model]
                /\ worker'[v].at \in {"fetched", "recorded"} => cache'[worker'[v].model] = 0..FileCount
        BY DEF FetchedFilesAreThere, Complete
      <2>2. CASE v = w
        BY <1>1, <1>3, <2>1, <2>2
      <2>3. CASE v # w
        <3>1. /\ worker'[v] = worker[v] /\ cache[worker[v].model] \subseteq cache'[worker[v].model]
              /\ worker[v].model \notin cut
          BY <1>1, <2>1, <2>3
        <3>2. worker[v].at \in {"fetched", "recorded"} => 0..FileCount \subseteq cache'[worker[v].model]
          BY <3>1 DEF DlInv, FetchedFilesAreThere, Complete
        <3>3. QED
          BY <1>1, <1>3, <2>1, <3>1, <3>2 DEF DlInv, FetchedFilesAreThere
      <2>4. QED
        BY <2>2, <2>3
    <1>5. RecordedIsComplete'
      <2>1. SUFFICES ASSUME NEW m \in installed' \ cut' PROVE cache'[m] = 0..FileCount
        BY DEF RecordedIsComplete, Complete
      <2>2. m \in Model
        BY <1>2 DEF DownloadsTyped
      <2>3. CASE m \in installed
        BY <1>3, <2>1, <2>2, <2>3 DEF DlInv, RecordedIsComplete, Complete
      <2>4. CASE m \notin installed
        BY <1>3, <2>1, <2>2, <2>4
      <2>5. QED
        BY <2>3, <2>4
    <1>6. BusyHasAWorker'
      BY DEF DlInv, BusyHasAWorker, Busy
    <1>7. QED
      BY <1>2, <1>4, <1>5, <1>6 DEF DlInv

\* Gate keeps the invariant.
LEMMA GateKeeps ==
    ASSUME DlInv, NEW w \in Worker, Gate(w)
    PROVE  DlInv'
    <1>1. /\ worker[w].at = "gate" /\ UNCHANGED <<dmodel, dlEpoch>>
          /\ {"waiting", "leaving", "fetching"} \subseteq Places
      BY DEF Gate, Places
    <1>2. CASE Move(w, "waiting") /\ UNCHANGED <<dstatus, cache, installed, cut>>
      <2>1. /\ worker' \in [Worker -> Download]
            /\ worker'[w].at = "waiting" /\ worker'[w].model = worker[w].model
            /\ worker'[w].epoch = worker[w].epoch /\ worker'[w].file = worker[w].file
            /\ \A v \in Worker \ {w} : worker'[v] = worker[v]
        BY <1>1, <1>2, Moves DEF DlInv
      <2>2. /\ UNCHANGED <<dstatus, cache, installed, cut>>
            /\ "waiting" \in Places \ {"ended", "leaving"}
        BY <1>2 DEF Places
      <2>3. QED
        BY <1>1, <2>1, <2>2, AddingKeeps DEF DlInv, DownloadsTyped, FetchedFilesAreThere
    <1>3. CASE Superseded(w) /\ UNCHANGED <<dstatus, cache, installed, cut>> /\ Move(w, "leaving")
      <2>1. /\ worker' \in [Worker -> Download]
            /\ worker'[w].at = "leaving" /\ worker'[w].model = worker[w].model
            /\ \A v \in Worker \ {w} : worker'[v] = worker[v]
        BY <1>1, <1>3, Moves DEF DlInv
      <2>2. UNCHANGED <<dstatus, cache, installed, cut>> /\ worker[w].epoch # dlEpoch
        BY <1>3 DEF Superseded
      <2>3. QED
        BY <1>1, <2>1, <2>2, AddingKeeps DEF DlInv, DownloadsTyped
    <1>4. CASE AfterCancel(w) /\ Move(w, "leaving")
      BY <1>1, <1>4, AfterCancelKeeps
    <1>5. CASE /\ cache' = [cache EXCEPT ![worker[w].model] = @ \cup {0}]
               /\ Move(w, "fetching") /\ UNCHANGED <<dstatus, installed, cut>>
      <2>1. /\ worker' \in [Worker -> Download]
            /\ worker'[w].at = "fetching" /\ worker'[w].model = worker[w].model
            /\ worker'[w].epoch = worker[w].epoch /\ worker'[w].file = worker[w].file
            /\ \A v \in Worker \ {w} : worker'[v] = worker[v]
        BY <1>1, <1>5, Moves DEF DlInv
      <2>2. worker[w].model \in Model /\ 0 \in 0..FileCount
        BY DlBounds DEF DlInv, DownloadsTyped, Download
      <2>3. /\ cache' \in [Model -> SUBSET (0..FileCount)] /\ \A m \in Model : cache[m] \subseteq cache'[m]
            /\ 0 \in cache'[worker[w].model]
        BY <1>5, <2>2 DEF DlInv, DownloadsTyped
      <2>4. worker[w].model \notin cut => 1..(worker[w].file - 1) \subseteq cache'[worker[w].model]
        BY <1>1, <2>2, <2>3 DEF DlInv, FetchedFilesAreThere
      <2>5. UNCHANGED <<dstatus, installed, cut>> /\ "fetching" \in Places \ {"ended", "leaving"}
        BY <1>5 DEF Places
      <2>6. QED
        BY <1>1, <2>1, <2>3, <2>4, <2>5, AddingKeeps
    <1>6. QED
      BY <1>2, <1>3, <1>4, <1>5 DEF Gate

\* FileArrives keeps the invariant.
LEMMA FileArrivesKeeps ==
    ASSUME DlInv, NEW w \in Worker, FileArrives(w)
    PROVE  DlInv'
    <1> DEFINE m == worker[w].model
               n == worker[w].file
    <1>1. /\ worker[w].at = "fetching" /\ UNCHANGED <<dstatus, dmodel, dlEpoch, installed, cut>>
          /\ cache' = [cache EXCEPT ![m] = @ \cup {0, n}]
          /\ IF n = FileCount THEN Move(w, "fetched") ELSE worker' = [worker EXCEPT ![w].at = "gate", ![w].file = @ + 1]
      BY DEF FileArrives
    <1>2. m \in Model /\ n \in 1..FileCount /\ {0, n} \subseteq 0..FileCount /\ worker[w] \in Download
      BY DlBounds DEF DlInv, DownloadsTyped, Download
    <1>3. /\ cache' \in [Model -> SUBSET (0..FileCount)] /\ \A l \in Model : cache[l] \subseteq cache'[l]
          /\ 0 \in cache'[m] /\ n \in cache'[m]
      BY <1>1, <1>2 DEF DlInv, DownloadsTyped
    <1>4. m \notin cut => 1..n \subseteq cache'[m]
      <2>1. m \notin cut => 1..(n - 1) \subseteq cache[m]
        BY <1>1 DEF DlInv, FetchedFilesAreThere
      <2>2. 1..n = 1..(n - 1) \cup {n}
        BY <1>2
      <2>3. QED
        BY <1>2, <1>3, <2>1, <2>2
    <1>5. CASE n = FileCount
      <2>1. /\ worker' \in [Worker -> Download]
            /\ worker'[w].at = "fetched" /\ worker'[w].model = worker[w].model
            /\ worker'[w].epoch = worker[w].epoch
            /\ \A v \in Worker \ {w} : worker'[v] = worker[v]
        BY <1>1, <1>5, Moves DEF DlInv, Places
      <2>2. m \notin cut => 0..FileCount \subseteq cache'[m]
        <3>1. 0..FileCount = 1..FileCount \cup {0}
          BY DlBounds
        <3>2. QED
          BY <1>3, <1>4, <1>5, <3>1
      <2>3. "fetched" \in Places \ {"ended", "leaving"}
        BY DEF Places
      <2>4. QED
        BY <1>1, <1>3, <2>1, <2>2, <2>3, AddingKeeps
    <1>6. CASE n # FileCount
      <2>1. worker' = [worker EXCEPT ![w] = [worker[w] EXCEPT !.at = "gate", !.file = @ + 1]]
        BY <1>1, <1>6
      <2>2. LET y == [worker[w] EXCEPT !.at = "gate", !.file = @ + 1]
            IN  y \in Download /\ y.at = "gate" /\ y.model = m /\ y.epoch = worker[w].epoch /\ y.file = n + 1
        BY <1>2, <1>6, WorkerEdits
      <2>3. /\ worker' \in [Worker -> Download]
            /\ worker'[w].at = "gate" /\ worker'[w].model = worker[w].model
            /\ worker'[w].epoch = worker[w].epoch /\ worker'[w].file = n + 1
            /\ \A v \in Worker \ {w} : worker'[v] = worker[v]
        BY <2>1, <2>2 DEF DlInv, DownloadsTyped
      <2>4. (n + 1) - 1 = n /\ "gate" \in Places \ {"ended", "leaving"}
        BY <1>2 DEF Places
      <2>5. QED
        BY <1>1, <1>3, <1>4, <2>3, <2>4, AddingKeeps
    <1>7. QED
      BY <1>5, <1>6

\* Worker keeps the invariant.
LEMMA WorkerKeeps ==
    ASSUME DlInv, NEW w \in Worker, Run(w)
    PROVE  DlInv'
    <1>1. {"leaving", "recorded"} \subseteq Places /\ "recorded" \in Places \ {"ended", "leaving"}
      BY DEF Places
    <1>2. CASE TransferCut(w)
      BY <1>2, AfterCancelKeeps DEF TransferCut
    <1>3. CASE FileFails(w) \/ Succeed(w)
      <2>1. /\ Move(w, "leaving") /\ UNCHANGED <<dmodel, dlEpoch, cache, installed, cut>>
            /\ ~Busy' \/ (dstatus' = dstatus /\ worker[w].epoch # dlEpoch)
        BY <1>3 DEF FileFails, Succeed, Busy, Superseded
      <2>2. /\ worker' \in [Worker -> Download]
            /\ worker'[w].at = "leaving" /\ worker'[w].model = worker[w].model
            /\ \A v \in Worker \ {w} : worker'[v] = worker[v]
        BY <1>1, <2>1, Moves DEF DlInv
      <2>3. QED
        BY <2>1, <2>2, AddingKeeps DEF DlInv, DownloadsTyped
    <1>4. CASE RecordInstalled(w)
      <2>1. /\ Move(w, "recorded") /\ UNCHANGED <<dstatus, dmodel, dlEpoch, cache, cut>>
            /\ worker[w].at = "fetched" /\ installed' = installed \cup {worker[w].model}
        BY <1>4 DEF RecordInstalled
      <2>2. /\ worker' \in [Worker -> Download]
            /\ worker'[w].at = "recorded" /\ worker'[w].model = worker[w].model
            /\ worker'[w].epoch = worker[w].epoch
            /\ \A v \in Worker \ {w} : worker'[v] = worker[v]
        BY <1>1, <2>1, Moves DEF DlInv
      <2>3. worker[w].model \notin cut => 0..FileCount \subseteq cache'[worker[w].model]
        BY <2>1 DEF DlInv, FetchedFilesAreThere, Complete
      <2>4. QED
        BY <1>1, <2>1, <2>2, <2>3, AddingKeeps DEF DlInv, DownloadsTyped
    <1>5. CASE LeaveWorker(w)
      <2>1. /\ worker' = [worker EXCEPT ![w] = Ended] /\ worker[w].at = "leaving"
            /\ UNCHANGED <<dstatus, dmodel, dlEpoch, cache, installed, cut>>
        BY <1>5 DEF LeaveWorker
      <2>2. /\ worker' \in [Worker -> Download] /\ worker'[w].at = "ended"
            /\ \A v \in Worker \ {w} : worker'[v] = worker[v]
        BY <2>1, EndedIsADownload DEF DlInv, DownloadsTyped
      <2>3. FetchedFilesAreThere'
        BY <2>1, <2>2 DEF DlInv, FetchedFilesAreThere, Complete
      <2>4. BusyHasAWorker'
        BY <2>1, <2>2 DEF DlInv, BusyHasAWorker, Busy
      <2>5. QED
        BY <2>1, <2>2, <2>3, <2>4 DEF DlInv, DownloadsTyped, RecordedIsComplete, Complete
    <1>6. QED
      BY <1>2, <1>3, <1>4, <1>5, GateKeeps, FileArrivesKeeps DEF Run

\* No step disturbs the invariant of the downloads.
LEMMA DlStep == DlInv /\ [DlNext]_dlVars => DlInv'
    <1>1. CASE UNCHANGED dlVars
      BY <1>1 DEF dlVars, DlInv, DownloadsTyped, FetchedFilesAreThere, RecordedIsComplete, Complete,
         BusyHasAWorker, Busy
    <1>2. CASE DlNext
      BY <1>2, StartKeeps, PauseKeeps, ResumeKeeps, CancelKeeps, DeleteKeeps, WorkerKeeps DEF DlNext,
         Control
    <1>3. QED
      BY <1>1, <1>2

\* Only a complete model is installed, unless it was wiped under a worker.
THEOREM InstalledModelsAreComplete == DlSpec => []InstalledUnlessCut
    <1>1. DlInit => DlInv
      <2> SUFFICES ASSUME DlInit PROVE DlInv
        OBVIOUS
      <2>1. AnyModel \in Model
        BY DlBounds DEF AnyModel
      <2>2. DownloadsTyped
        BY <2>1, EndedIsADownload DEF DlInit, DownloadsTyped
      <2>3. \A w \in Worker : worker[w].at = "ended"
        BY EndedIsADownload DEF DlInit
      <2>4. QED
        BY <2>2, <2>3 DEF DlInit, DlInv, FetchedFilesAreThere, RecordedIsComplete, BusyHasAWorker,
           Busy
    <1>2. DlInv => InstalledUnlessCut
      BY DEF DlInv, RecordedIsComplete, InstalledUnlessCut, IsInstalled
    <1>3. QED
      BY <1>1, <1>2, DlStep, PTL DEF DlSpec

-----------------------------------------------------------------------------
(* The services together.                                                  *)

(* Each of the services, as they are checked together, behaves as it does   *)
(* alone.                                                                  *)
THEOREM ServicesAreParts == ServicesSpec => CronSpec /\ DlSpec /\ CacheSpec /\ SbSpec /\ SkSpec
    <1>1. ServicesInit => CronInit /\ DlInit /\ CacheInit /\ SbInit /\ SkInit
        BY DEF ServicesInit
    <1>2. [ServicesNext]_servicesVars =>
              [CronNext]_cronVars /\ [DlNext]_dlVars /\ [CacheNext]_cacheVars /\ [SbNext]_sbVars /\ [SkNext]_skVars
        BY DEF ServicesNext, Cron, Downloads, Caching, Sandboxing, Skills, servicesVars
    <1> QED BY <1>1, <1>2, PTL DEF ServicesSpec, CronSpec, DlSpec, CacheSpec, SbSpec, SkSpec

(* So all their invariants hold when they are checked together.            *)
THEOREM ServicesAreSound ==
    ServicesSpec => [](/\ OneExecution /\ ScheduledRunsAgain /\ InstalledUnlessCut
                       /\ CacheIndexIsExact /\ CodeRunsOnce /\ SyncRepairs)
    BY ServicesAreParts, OneExecutionAtATime, ScheduledJobsRunAgain, InstalledModelsAreComplete,
       CacheStaysIndexed,
       CodeIsRunOnce, SyncsRepair, PTL
=============================================================================
