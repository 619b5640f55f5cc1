# RAGClaw-Lite: a verification development

TLA+ modules for the parts of RAGClaw-Lite (`src/`) in which state is shared between asyncio tasks, threads, requests,
containers and restarts; TLC configurations that check them on small instances; TLAPS proofs for any number of tasks,
clients, jobs and calls. `PROJECT.json` lists every run, the lines each definition stands for, the hazards of the code,
the findings and the theorems.

## 1. The system

A FastAPI backend with SQLite, Chroma and an in-memory BM25 index behind it, a Vue frontend, a code sandbox (the Python
REPL server) and egress proxies in containers of their own. Backend work runs on one event loop: a step between two
`await`s is atomic, at every `await` any other task may run, what was committed survives the death of the process and
what was in memory does not. Two things run in threads beside it: the download of a model and the re-index.

| component (paths under `src/backend/app/`) | state | operations | what is hard | module |
|---|---|---|---|---|
| LLM limiter, `services/llm_semaphore.py` | `_max`, `_active`, `_waiters` | acquire, release with hand-over, update_max, cancellation in both phases | a cancellation between the reservation of a slot and the return of the task | LlmLimiter |
| run registry and event streams, `routers/chat.py` | `RUN_REGISTRY`, `RunHandle` | start, join, attach, leave, emit, finish, abort | generators suspended at every `yield`; producers that outlive their abort | RunStream |
| turn, deletion, purge, `routers/chat.py`, `services/conversation_purge.py` | `messages`, `pending_limit_states`, the conversation row | ask, continue, stop, suspend, flush, answer, fail, delete, sweep | failures and deaths between two commits, cleanups whose failure is swallowed | ChatTurn |
| history cache, `routers/chat.py`, `models/conversation.py` | `_HISTORY_CACHE`, `Message.seq` | load warm and cold, number at INSERT | rows deleted behind the cache, numbers given out again | HistoryCache |
| summary, `services/conversation_summary.py`, `memory_archive.py` | L0, cursor, `_INFLIGHT` | passes, archive loop, compaction, edits | every actor holds a copy of the row across LLM calls | SummaryFold |
| context budget, assembly of a request | none (pure) | split, gate, plan, verify, trim | rounding; wrong price estimates | ContextBudget, PromptFit |
| agent graph, `services/agent_*.py` | the state of one question | rounds of tools, skill stack, guards, quotas, suspension | what the model says is free | AgentLoop |
| answer cache, `services/cache.py` | LRU store and an index per knowledge base | get, put, invalidate, expire, evict | an index that must follow every path | AnswerCache |
| cron, `services/cron_*.py`, `routers/cron_jobs.py` | job rows, run rows, per-job locks | tick, run now, manage | edits and deletions while a job runs | CronJobs |
| documents, retrieval, re-index | statuses, vectors with a model stamp, keyword index | upload, stages, link, unlink, purge, switch, re-index | indexes that change before the commit; a thread beside the event loop; a failure or a death in each stage | Knowledge |
| model downloads, `services/model_manager.py` | status, epoch, gate, manifest | start, pause, resume, cancel, delete | superseded threads that still run | ModelDownloads |
| sandbox, `mcp/repl_mcp_server.py`, `services/mcp_client.py`, `routers/config.py` | secret and policy on both sides, slots | push, retry loop, sign, refuse, repair, execute | restarts of both sides, answers that get lost | Sandbox |
| skill store, `services/skill_manager.py`, `routers/skills.py` | folder, enable link, row | upload, toggle, delete, sync | three records of one fact | SkillStore |
| API keys of skills, `services/skill_secret.py`, `egress/skill_secret_proxy.py` | keys kept, keys injected | set, clear, startup push, retry loop | the proxy keeps keys in memory only | SkillKeys |
| accounts, `services/auth.py`, `repl_auth.py`, `routers/auth.py`, `users.py` | users, refresh tokens, UID pool, sandbox directories | register, login, rotate, revoke, delete, clean up | awaits between a check and the commit that rests on it | Accounts |
| settings, `services/config_manager.py` | memory, config.enc, rows, TLS volume | start, update, test, die, mount another key | four stores written one after the other, each of which may fail | Settings |

How they interact. `chat_stream` loads the history, stores the question and starts a producer under a `RunHandle`. The
producer reads the suspension snapshot, looks in the answer cache, asks the summary to make room (which may fold,
archive or schedule a pass), takes a slot of the limiter, runs the agent graph (which calls the sandbox through the MCP
client and fits each request into the window), puts the answer into the cache and stores it; what it emits goes to the
handle's subscribers. Cron runs a graph of its own. Startup sweeps deleted conversations, queues pending documents,
pushes secrets and starts the retry loops. Each interface is modelled on the side where its state is: the graph's end is
a choice of ChatTurn, a fold is an action of HistoryCache that moves the cursor, an archived paragraph one of
SummaryFold.

## 2. Modules

    TokenPool <- LlmLimiter            RunStream            ChatTurn
    SummaryFold          Knowledge          ContextBudget <- PromptFit
    Services        = CronJobs + ModelDownloads + AnswerCache + Sandbox + SkillStore
    Administration  = Accounts + Settings + SkillKeys
    Answering       = HistoryCache + AgentLoop + PromptFit      MCAnswering gives it quotas and prompts

    LlmLimiter_proofs, RunStream_proofs, ChatTurn_proofs        one module each
    Services_proofs, Administration_proofs, Answering_proofs    the parts, then the composite
    Recall_proofs        SummaryFold and Knowledge
    QueueFacts           lemmas about queues and numbers that the others cite

One action is what the code does between two awaits, commits or checks of a thread. Definitions commented `Mutant:` are
deliberately wrong variants of the definition that follows; no specification uses them. They show which bug each
property detects. Most modules have a type invariant (`TypeOK`, `CronTypeOK`, ...) that documents their values; it holds
in the instances of section 3 and takes no property of a run, except where it is part of a proof.

**LlmLimiter.** `phase[t]` is where task `t` is in `acquire()`; `woken` is the window in which `_wake_next_locked` has
reserved a slot and the task has not run again. `LeaveQueue` and `GiveBack` are its exception path in the two phases.
TokenPool is what it promises: whoever waits is served or gives up. The only caller's callback never suspends, so a
block under `_lock` is one step.

**RunStream.** A line is its number. `copied[c]` is the length of the replay a client copied, `queue[c]` its queue.
`Start` and `Rejoin` are the branches of `generate()`, `Attach`, `Open`, `ReplayLine`, `Subscribe` the attaching path cut
at its yields, `Abort`/`AbortEnds` the halves of `_abort_run`.

**ChatTurn.** `rows` are the assistant messages with their status, `pending` the question of the snapshot, `held` the
producer's `cleared_pending`, `told` the last event about a question. `Load` is the triage at the start of the producer,
`Finalize` is `_finalize_completed_turn`, `Fail`/`FailEnds` the two commits of the `except` handler, `PurgeFails` the
`except` of `_purge_rows`. The deletion of the snapshot after an answer (`chat.py:452-456`) and that of half-written rows
(`CleanUp`, 298-300) may fail unnoticed; `leftover` says which of the two kinds of remains such a failure, a cut-short
run or an answer from the cache (which cleans nothing up) may have left. `late` holds the questions touched by a run
that began after a deletion had aborted the one before. An abort stops the producer at once here; a producer that
outlives it is in RunStream. Agent steps, memory rows and a failure to read the snapshot are abstracted.

**HistoryCache.** `table` holds the rows with their seq, `cache` the entry with its messages and `max_seq`; the turn is
cut down to its inserts, updates and deletes: `Resume`, `GiveUp`, `Interrupt` and `StoreAnswer` are the continue, the
stop, the suspension and the end of a turn. `due` is what a query would have returned to the last load. A load may come
at any time, while a run is live too.

**SummaryFold.** A round is a number, a paragraph of L0 the set of rounds it summarizes, `copy[a]` the row as the
session of actor `a` holds it. Sizes are counted in rounds and paragraphs, so watermarks are small numbers;
`plan_segment` is the choice of an oldest segment of `MinFold` to `MaxFold` rounds. `stale` notes that L0 was written,
by an archive loop or by the button, from a copy of the row that a fold had passed; no action reads it. The condensed
query, the clamp of a cursor beyond the history and the cap of segments per archive call are abstracted, and an edit of
the summary is one step.

**ContextBudget, PromptFit.** ContextBudget is arithmetic: `Slots` is `compute`, `Truncated` the two integers that a
product of floats may truncate to. PromptFit takes a request made of units, each with the price the plan believes and the
weight the request really loses; `EntryGate` is `classify_entry_overflow`, `Measure`, `Verify` and `TrimStep` the plan,
its check and the loop of `fit_assembly_context`. The documented order of trimming is ten places: at the first five a
component gives its units down to the floor, at the last five the survivors go. `PlanPart` is what the plan does at one
place, `Plan` the scan over all of them.

**AgentLoop.** The nodes of the graph with their router; a call is its signature. `recent` and `results` keep three
elements because the guards look at no more. `Suspend` stores `SnapshotOf`, `Continue` is `_build_resume_initial_state`,
which takes part of it. What the model answers is any call, text that looks like one, other text or nothing. A tool's
output is something, an error or empty; empty outputs do not count for the repeat guard. The notice that
`agent_graph.py:411` adds for a negative saving is text and left out.

**CronJobs.** A tick takes the due jobs one behind the other. `Managed` bounds the jobs that somebody edits or runs by
hand. Time is what it does to `next_run_at`. An executor is the tick or a run-now request; `TakeLock` to
`NotifyOwner` is `execute_and_record_cron_job` cut at its awaits. `opened[j]` counts run rows that say running.

**ModelDownloads.** A worker is a thread that goes from one check of `_gate` to the next; the control routes have no
await. File 0 of a cache is its directory. `cut` notes the models whose cache was wiped under a worker still at work on
them.

**AnswerCache.** A key is a knowledge base and the instruction read with it; a turn may read it up to three times.

**Sandbox.** A setting is the number of its last save; a push may arrive late, get lost, or be applied while its answer
is lost. `healer` is the call inside `_repush_lock`, `fresh` the debounce window. `runs[c]` counts how often the sandbox
started the code of a call, `running` is what occupies its slots.

**SkillStore, SkillKeys, Accounts, Settings.** Requests of several administrators, cut at their awaits; a commit writes
what changed against the row the session read. A login and a refresh have a half that checks and a half that commits; a
revocation selects the tokens in one step (`StartRevoke`) and marks and commits them in another (`RevokeAll`), and does
not see what was committed in between. In Settings every write may fail: `UpdateRaises` changes memory and leaves the
key file as it was or half written (`HalfFile`, which no key can read) and never comes to the database, `SaveFails` is
the database, `SetHttpsRaises` the volume, and `DieWritingKeys`, `DieWriting` are deaths in the middle of a file. With
another master key mounted an update overwrites the keys that could not be read (`Overwritten`). SkillKeys takes the
write of config.enc as successful; what happens otherwise is in Settings.

`off` (SkillKeys), `slipped` and `late` (Accounts), `unsure` and `torn` (Settings), `leftover` and `late` (ChatTurn),
`strayVec` and `strayBm` (Knowledge) are history variables: they name the cases for which the code makes no promise, so
that the properties can state the rest. Most are cleared by the step that heals the case, so that the property also says
that it heals: a further revocation clears `slipped`, a cleanup that works `leftover`, a removal or a rebuild the stray
entries, a save that nobody overlapped `unsure`. What goes wrong in those cases is in section 6.

**Knowledge.** A document is one set of chunks; a vector remembers the model that made it and the model it is stamped
with. The event loop's tasks, `add_documents_to_kb` (`linking`) and the re-index thread interleave at awaits, commits
and the lock of the store. A request that links several documents pushes and rebuilds for one after the other and
commits at its end (`NextLink` to `CommitLink`); `LinkFails` leaves what it brought into the indexes. A removal,
`Unlink` or `PurgeDocument` with its task, drops the entries in one step (`DropEntries`, where each store may raise and
is ignored) and deletes the rows in a later one (`RemoveRows`), or does not (`RemovalFails`). The thread reads the links
of a document (`ReadLinks`) and pushes its vectors in a later step (`PushDocument`). `strayVec` and `strayBm` hold the
entries that a failure left, or that a thread or a rebuild for another document put back while they were being removed.
One document has one removal at a time. `FailDocument` commits; the code's own commit of the status FAILED may raise
when the failure was a commit (`doc_processor.py:125-130`), and leaves the document as a death does.

**Composites.** `Services`, `Administration` and `Answering` put modules without common state side by side. `focus` says
which one moves; since no action or property of one reads a variable of another, an interleaving of two would show
nothing that each does not show alone, and the product of their states is avoided. Fairness is stated for the one that
moves. In `Administration` refresh tokens and sandbox directories, which are never read together, move separately too.

## 3. Runs

| run | properties | bounds, and why they are enough |
|---|---|---|
| limiter | SlotConservation, QueueIsHonest, NoOvertaking, ImplementsLivePool | 4 tasks, limits 1 to 3: two waiters woken by one update while others hold, queue and cancel |
| summary_seq | NothingLost, ViewIsComplete, FoldsAreExact | 10 rounds, segments of 2 to 3, an archive from 2 paragraphs on, 3 faults: several folds and archives with a failure or a restart in each window; every pass is awaited (`AsyncHi = SyncHi`) |
| summary_busy | PassNeverRewinds, PassEnds | a turn, a background pass and the button at once, L0 below its archive watermark: only folds write the row |
| stream | ShownAsEmitted, OneProducer, SubscribersAreReleased | two tabs, two runs of two lines, aborts, parked producers |
| turn | SuspensionSurvives, AnswersAreStored, NoStaleSuspension, NoDanglingRows, PurgeLeavesNothing, DeletedIsPurged | 2 questions, 2 suspensions, a death: a question that supersedes a suspension, a resume that suspends again, a failure at each await and of each cleanup, a run that begins after the abort of a deletion |
| services | OneExecution, ScheduledRunsAgain, DueJobsRun | 2 jobs, the tick and a run-now request, 2 edits, a death: job 1 is edited, run by hand, slow or stuck while job 2, whom nobody touches (`Managed`), stands behind it in the tick. A lock is per job and has one holder, so two executors show its race. The theorem removes the bounds |
| | InstalledUnlessCut, DownloadSettles | 2 threads, 2 files, 4 epochs: a superseded thread beside its successor, and one more |
| | CacheIndexIsExact | 2 entries, 4 keys, 2 turns: expiry, eviction, replacement and invalidation meet |
| | CodeRunsOnce, SandboxSecretReturns | 2 calls for 1 slot, a save, a loss, a death: a repair beside a loop beside a save |
| | SyncRepairs | 2 folders, 2 requests at a time, 5 in all |
| administration | SandboxIsOwn, RevokedSessionsEnd | 3 people, 2 UIDs, 2 requests, 2 tokens, 3 edits: a UID is given back and out again; a login or a refresh is between its halves while a revocation is between its own, and another follows |
| | SettingsSurvive | 2 requests, 3 edits, a death, 2 master keys, 2 certificates: each write raises, is torn, or dies, and is followed by a restart and another edit |
| | ProxyHasTheKeys | 2 skills, 2 edits, a loss, 2 restarts |
| knowledge | RetrievedIsLinked, KeywordsKept, UploadsSettle | 2 documents, a knowledge base, a model, a task, a remover, a re-index thread, 2 faults or edits in all (links, removals, retries, switches, re-indexes, failures, a death): enough for a link request and a removal, a removal and a re-index, or either of them and its failure to overlap; three would add a second race to the first, and the theorems have no bound |
| answering | HistoryInOrder, RefreshMissesNothing | 4 loads over 7 numbers: a number that was given out again is met by a cached `max_seq` |
| | RoundsWithinQuota, RunsEnd | 2 skills; one quota that suspends each run of a question after a round, one in which the guards end a run first |
| | FittedOrHopeless, DropsInOrder | 6 windows from nothing to ample, up to 2 units per component, prices right and wrong in both directions |
| summary_loss | NothingLost is violated | turn and background pass with the archive loop |
| agent_replay | ReplaySurvives is violated | as answering |
| history_tail | TailRefreshIsEnough is violated | the history of answering |

In *turn* (`Between = FALSE`) requests are accepted until a deletion aborts the run, and go on afterwards; that others
are accepted between the abort and the commit of the deletion adds states and no case, and the theorems cover it.
`RefreshMissesNothing` speaks of histories that hold messages and no half-written one; what happens to the others is
finding 3 and `HistoryIsTail` in section 6. `NoStaleSuspension` and `NoDanglingRows` except what a cleanup that failed,
or that a death, a deletion or a cached answer left out, may have left, until the next one that works;
`PurgeLeavesNothing` excepts what a failed batch left and what a run that began after the abort wrote. `OneProducer`
speaks of registries before the first abort. CHECK_DEADLOCK is off where a system may come to rest: turns, edits and
deaths are used up, a suspended question waits for its user.

The properties are stated so that several steps, mostly of several actors, are needed to break them. `FoldsAreExact`
says the paragraphs of L0 and memory and what the user deleted are a partition of what lies below the cursor;
`DropsInOrder` compares plan and loop together with the documented one-by-one order, which the plan is to give
"identical" results to; `CacheIndexIsExact` relates two dictionaries over every path that drops an entry;
`ImplementsLivePool` is a refinement with fairness.

## 4. Fairness

- *LlmLimiter*: a woken or cancelled task runs again, and a body ends, because LLM calls have a time budget and rounds a
  quota. None for acquire, cancel or update_max.
- *SummaryFold* (summary_busy): the background task goes on; an LLM call returns or raises.
- *RunStream*: a run that was not cancelled finishes, `_abort_run` waits three seconds at most, a client that reads takes
  what is in its queue. A cancelled producer gets none: it may be parked where cancellation does not reach.
- *ChatTurn*: the deletion and its purge go on; a failed batch is also an end.
- *CronJobs*: the scheduler ticks and an execution goes on. Time, requests and deaths get none.
- *ModelDownloads*: a thread goes on; a paused one waits for the administrator.
- *Sandbox*: containers are restarted, saves and retry loops go on, and users keep calling: `SandboxSecretReturns`
  depends on a call being made after a restart of the sandbox, for nothing else pushes the secret then.
- *Knowledge*: tasks and threads go on. Queueing is strongly fair because a queued document competes for a task that
  another one may have.
- *AgentLoop*: a node of the graph ends. Continue, stop and disabling a skill get none.

## 5. Findings

1. *summary_loss.* The archive loop writes `summary_text` from its session's copy, without the condition on the cursor
   that guards a fold. A fold committed meanwhile by a background pass disappears while the cursor stays behind it.
2. *agent_replay.* At the skill-switch limit the rejected call is stored as one dict and handed back as `tool_calls`
   after a continue; `skill_switcher_node` reads `tool_calls[0]` and raises KeyError, although a comment there describes
   the replay as restored.
3. *history_tail.* The cache takes messages for append-only (`chat.py:88-92`), but the row of an answer is inserted first
   and written later. A load in between, from a second tab or the compact button, keeps the half-written row; the
   finished answer is missing from the history of every turn until the entry expires. If the row is deleted instead, the
   next question gets its number and is missing too.

## 6. Observed without a run

Met while modelling and left where they are, either as a property that a module defines and the code does not satisfy
(named below), or as an exception that a history variable excludes.

*Chat.* `JoinersMissNothing`: a client subscribes after the replay list was yielded; lines emitted meanwhile reach
neither (`chat.py:1049`). A suspension whose deletion failed after its answer (`chat.py:452-456`) is offered for a
continue although its question is done, and stays until the next turn that ends. `WritesStopAtDelete`: a request
accepted before a deletion registers its run after the abort, and writes (`chat.py:1146`). `EveryQuestionRuns`: a
question that meets a live run is stored and only joined to it (`chat.py:1123`). `HistoryIsTail`: an empty history is
cached without `max_seq` and then never refreshed (`chat.py:130`). A continue after a death between answer and snapshot
repeats the turn.

*Summary.* `DeletedStaysDeleted`: a segment deleted while a pass summarizes comes back with the update of the pass
(`chat.py:2132`). A paragraph may be archived twice when a turn maintains L0 beside a pass. The comment in
`models/conversation.py:91-94` calls the cursor inclusive, the code uses it as the first message not folded.

*Budget.* `int(P * 0.70)` is one less than 70 % for P = 90 or 170. `_char_split` may return pieces above `max_tok`. A
skill body that is routed later and shorter than assumed is no reason to refuse a request, but PromptFit takes what the
gate knows to be at most the prefix. Component headings make the plan drop a unit more than the loop would.

*Agent.* A continue drops the skill stack, the loaded ids, the switch counter and the pinned instruction, though
`chat.py:720` speaks of recharging quotas only. After done_skill a skill cannot be loaded again. Calls after a leading
control call get no reply. A skill disabled after it was routed stays active without its body.

*Cron.* A status RUNNING left by a death is never repaired, so the job is skipped for ever. A tick runs a list that may
be stale. A pause between the check of the status and the commit of RUNNING is lost. A deletion while a job runs makes
its commit raise.

*Documents.* `StampIsTrue`: vectors computed before a switch of the model are stamped with the new one
(`vector_store.py`, `routers/embedding_model.py:91-104`). A restart resumes PENDING only; PARSING and CHUNKING stay. A
retry after FAILED duplicates chunks. A re-index turns a document that failed to parse into COMPLETED. A link committed
during a re-index drops embedding documents from the keyword index. Unlink and purge drop the entries and commit later
(`knowledge_bases.py:431-438`, `documents.py:442-453`): a request that links another document in between rebuilds the
keyword index with the document in it, and a re-index thread that has read the link pushes its vectors; both are then
retrieved though nothing links them. The same stays of a link request that fails after its push (351-403) and of a store
that raises while it drops; a removal whose commit fails leaves a linked document that is not found; deleting a
knowledge base leaves its index; a switch while a re-index runs does not wipe.

*Downloads.* `InstalledIsComplete`: a model deleted or superseded while its thread works may be listed with files
missing (`model_manager.py:89-93`, 162-164). The thread's `finally` clears the flags of a newer download. Deleting one
model cancels the download of another.

*Cache.* An answer computed before an invalidation is put after it. The put uses the instruction first read, the lookup
in `entry_node` a fresh one. An entry is evicted at capacity even when put replaces a key. `cache_ttl_seconds` is
unused.

*Sandbox.* `PolicyReturns`: a late success of the retry loop clears `pending` and overwrites a newer policy. The debounce
window returns success without a push after a second restart. Generated files are attributed by comparing directories,
so concurrent calls take each other's. A failed write of the policy file is swallowed.

*Skills and their keys.* A toggle during a delete leaves a link without a folder; two toggles leave link and row in
disagreement; both last until the next sync. A failed push of a key is never retried though the log says it will
self-heal (`skill_secret.py:201`); a restart of the proxy is not noticed; a key of a deleted skill keeps the retry loop
running; a clear that races a push leaves the old key in the proxy.

*Accounts.* A login that checked the old password, or a refresh, and commits after a revocation selected its tokens
leaves a live token (`routers/auth.py:68-80`, `services/auth.py:172-180`). A password changed by its owner and a
disabled account revoke nothing, against the docstring at `auth.py:168`. Two administrators who delete each other reopen
registration. A second concurrent deletion may wipe the directory of the UID's next owner; a call signed before a
deletion may leave files after the cleanup.

*Settings.* A test in flight stores its verdict over an edit made meanwhile. A failed save leaves memory ahead of the
database, and of the key file (`config_manager.py:991-994`). A key file that was not written to its end (547, which
truncates first) reads as no keys at the next start (409-418). With another master key mounted, saving one key drops the
others. A death between the two files of a certificate leaves a pair that does not match and, with the flag on, is
served.

## 7. Proofs

All are safety, for every value of the constants under the named assumptions of the modules. Every safety property of a
passing run is the statement of a theorem. The invariants were checked by TLC on the instances of section 3 before they
were proved. Beside bounds that are numbers the assumptions say: the account that registration creates is one of the
persons (`AccBounds`); keys, certificates and master keys are numbered from 1, since 0 stands for none (`SetBounds`,
`KeyBounds`); no skill is called "none", the name the model gives to the absence of one (`KeyBounds`); a request costs
more than one token, as the four tokens per message and three for the reply in the code make certain (`FitBounds`); and
there is at least one document, knowledge base and model (`KbBounds`, `DlBounds`), without which the modules have no
value for "the document of nobody".

*QueueFacts.* What a queue holds after its oldest element, or the one at a place, was taken out or one was added; that a
non-empty set of numbers has a least one (`LeastNumber`), from which `EveryNumber` is induction for a set of numbers
instead of an operator. With it the recursive functions of AnswerCache and PromptFit (`Left`, `SumTo`, `Plan`) could be
reasoned about: they are first shown to be what their equations say, then to have their property for every length.

*LlmLimiter_proofs*, any tasks and integer limits.
- `TypeCorrect`: the queue holds exactly the queued tasks, each once. `SlotsConserved`, `NoSlotIdle`: neither is
  inductive alone. A release wakes one waiter, so no idle slot afterwards needs none before; that `_active` counts the
  owners needs their set to be finite. `SlotInv` joins them.
- `QueueHonest` adds that every waiting client was told its current place: whatever changes the queue notifies all of
  it. `GrantsBounded`, `FirstComeFirstServed` are action properties from the same invariant: when a slot is free nobody
  waits.
- `PoolImplemented`: the limiter implements TokenPool step by step. A release is a return and the service of one waiter,
  a change of the limit the service of as many as fit (`ServeCount`), a cancellation in either phase a giving up.

*RunStream_proofs*, any clients, runs, lines.
- A producer's `finally` pops the entry of its conversation whichever run it holds; `RegistryInv` says the entry is
  neither finished nor aborted and that, before the first abort, the producers are exactly what it holds. Hence
  `WorkersAreRegistered`, `ProducersAreAlone`, `TypeCorrect`.
- `StreamsShowTheRun`: what a client was shown, what is left of the list it copied and what its queue holds are, one
  behind the other, lines of one run in their order, none twice, none beyond what the run emitted; whoever came before
  the first line misses none.

*ChatTurn_proofs*, any questions, deaths, suspensions, overlaps. One invariant, `IInv`, in three parts.
- `ToldIsStored`: the danger is the `except` handler that marks the row of its run, a complete one too. The invariant
  says why that is never the row of a question the client was told is done: a question belongs to nobody when its run
  begins, and its run ends before anything else happens to it.
- `SuspensionIsKept`: a run works on the question of the snapshot it read or a later one (`PendingIsEarlier`), and takes
  the snapshot away only after its question ended (`FinalizedIsEnded`).
- `SuspensionIsDropped`, `RowsAreFinished`: what earlier questions left is named (`LeftInv`). The snapshot a run holds is
  the one that is there (`HeldIsPending`), so a run that ends takes it away, or notes in `leftover` that it did not; a
  turn that is taken up again over a snapshot that should be gone notes that its rows may stay (`StaleIsNoted`).
- `PurgeIsComplete` has no assumption on what overlaps the deletion: a run that began after the abort is noted with all
  it may write about (`LateIsNoted`), so what else a purged table holds is what a batch missed (`PurgeProgress`). That
  such a run writes at all is `WritesStopAtDelete` in section 6.

*Services_proofs*, any jobs, keys, models, calls, folders.
- `OneExecutionAtATime`: `ExecutionInv` says whoever executes holds the job's lock, that the row of an executing job
  says running or deleted, and that before the first death the open run rows are those of the working executors.
  `ScheduledJobsRunAgain` adds that what a route checked of a row (its expression, its runs left) stays true of it until
  the executor writes.
- `CodeIsRunOnce`: only a refused call is sent again, and a call that is sent, refused or being healed was not started.
- `CacheStaysIndexed`: after each of the loops that expire, evict or invalidate, store and index drop the same keys; the
  order of eviction holds every key once.
- `SyncsRepair`: a sync that runs on its own has read, or is about to read, what is there.
- `InstalledModelsAreComplete`: a worker has on disk the files it fetched, or its model is `cut`; a download under way
  has a worker of the current epoch (`BusyHasAWorker`), so that a cancellation, which wipes its model, is such a cut.
- `ServicesAreParts`, `ServicesAreSound`: each behaviour of the composite is one of every part, so all invariants hold
  of it.

*Answering_proofs*, any histories, skills, quotas, prompts.
- `HistoriesAreInOrder`, `RefreshesMissNothing`: rows have one number each; a cached history in which nothing is
  half-written (`Settling`) holds rows that are there for good and every row from the cursor to its last one (`Whole`),
  so the rows above `max_seq` are all that it can miss.
- `RoundsAreGranted`: `CountInv` bounds the counters of the run, `SnapshotInv` those of the snapshot, which a failed
  replay leaves as it was before the continue; a second continue then starts from the old counters and a quota that is
  still within what was granted.
- `RequestsFit`, `TrimmedInOrder`: the scan of the plan (`Scanned`) leaves a place only when it is exhausted or the
  prices cover the overflow; the loop goes on in the same order. What a request weighs is a sum, and dropping more never
  makes it heavier.
- `BudgetIsDivided`: for every integer window and cost no slot is negative, the slots add up to what there is, and
  retrieval and memory get no more than their percentages of what the fixed parts leave (`SharesAreRounded`).
  `WatermarksAreOrdered`: from ten tokens on the asynchronous watermark is not above the synchronous one, whichever way
  the truncation falls.
- `AnsweringIsItsParts`, `AnsweringIsSound`, as for the services.

*Administration_proofs*, any people, UIDs, tokens, settings, skills.
- `SessionsEnd`: a live token is of the current epoch, or a login or a refresh of its owner slipped by. A refresh in
  flight holds a token of the session it continues, a login the epoch in which its password was checked
  (`SessionsContinue`), so whatever is not current meets the test of the revocation that made it old (`Overlapped`).
  `SandboxesAreOwn`: an account that is here has a UID of its own, and files
  lie in the directory of their owner, those of late calls aside; a UID is given out again only after the row that held
  it is gone.
- `SettingsAreKept`: a file that was written whole has what was last set except where that is unsure, memory too if it
  could read the file (`KeysAreKept`); a save of an ordinary setting that nothing overlapped writes what memory has
  (`PlainIsKept`); the volume has the certificate that was asked for unless it is torn.
- `KeysArePushed`: every key without exception is in the proxy or is still to be pushed (`ToPush`); a request for a
  skill takes the promise back until it ends, and only one that was alone gives it again.
- `AdministrationIsItsParts`, `AdministrationIsSound`, as for the services.

*Recall_proofs*, any documents, knowledge bases, models, threads; any rounds and watermarks.
- `KbTypeCorrect`. `RetrievalIsLinked`: an entry belongs to a link, to a link being made, or is noted as stray. It needs
  that the links a thread has read are still there or its vectors noted (`LinksReadHold`), that what a removal dropped
  is out until it commits (`DroppedIsOut`), that what is being removed is linked still (`RemovedIsLinked`) and what is
  being linked is not yet (`LinkedIsNew`). `KeywordsAreKept`: no step takes a linked document out of the index but its
  removal and a rebuild that finds it being worked on.
- `FoldTypeCorrect`, and `PassesNeverRewind` from `FoldInv`: for every mix of turns, background passes and the button,
  the session's copy of a pass may be old, but the condition of its UPDATE compares the cursor with it.
- `FoldsAreExactUnlessStale`, `NothingIsLostUnlessStale`, `ViewsAreCompleteUnlessStale`: for any watermarks, with
  background passes, the button, edits, failures and deaths, everything is kept until L0 or the row is written from a
  copy that a fold had passed (`stale`). Until then a copy that is still at the row's cursor says of the folded rounds
  what the row says, though the user may have edited the row (`CopyIsKept`), and L0, memory and what the user deleted
  share the rounds below the cursor out. So that one kind of write, the one of finding 1 and its like by the button, is
  the only way a fold is lost or made twice, and *summary_loss* shows that it happens.
- `FoldsLoseNothing`, `FoldsShowEverything` allow everybody at once, background passes and the button included, and
  edits, but assume `FoldsOnly`: L0 cannot reach its archive watermark, and no single paragraph is above it. No copy has
  to be current then. Every copy, however old, lost nothing (`CopiesAreWhole`), and a fold replaces the row by a longer
  copy: a rewound cursor only means that rounds are summarized again. `FoldsStayExact`: without edits each round is in
  exactly one paragraph, too.
- What separates the two groups is the archive loop: a stale fold rewinds text and cursor together and loses nothing,
  a stale archive writes the text of an old copy and leaves the cursor of a newer row.

Only model-checked: liveness (`PassEnds`, `SubscribersAreReleased`, `DeletedIsPurged`, `DueJobsRun`, `DownloadSettles`,
`SandboxSecretReturns`, `UploadsSettle`, `RunsEnd`), which rests on fairness and ENABLED, and the fairness of
`ImplementsLivePool`; these are beyond the prover.

## 8. Not modelled

Parsers, chunker and token counts, ranking and similarity, prompt wording, the LLM client: text and numbers over external
libraries, without shared state. Within modelled components: query condensation and the sizes in `plan_segment`, agent
steps and the text of answers, passwords and profiles, byte counts of downloads, the isolation of executed code and the
serving of its files, forwarding by the proxies, validation of skills. The frontend is present as what the server sends
it. Long-term memory is the archive step of SummaryFold; its retrieval is a call of the vector library. Startup order and
schema patches (`main.py`, `schema_patches.py`) are taken as given; what startup resumes is in the modules concerned.
Whether a server cancels a disconnected request's task twice, which would reach the producer the generator awaits without
a shield, depends on the ASGI server.

## 9. What could follow

ChatTurn joined with HistoryCache over one table, and RunStream under ChatTurn, would show a producer that outlives its
abort writing rows. SummaryFold with sizes would make `plan_segment` a function. A condition on the cursor in the writes
of the archive loop and of the button, as the fold of a pass has, would make `stale` impossible, and the three theorems
about it unconditional. The stray entries of Knowledge would go with a sweep of the indexes against the links.
