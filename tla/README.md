# AI-Karen: a verification development in TLA+

AI-Karen is a Python server (`src/src/ai_karen_engine`, called the engine below)
with a web UI. What it promises its users across restarts is kept in PostgreSQL,
and several server processes and requests work on the same rows. This directory
models the parts in which that matters: rows that are claimed under a token and a
lease, changed by whoever holds the claim, and looked at by people who decide,
stop or delete meanwhile; and the two parts that do the same over a file system
(model downloads) and over Redis (agent runs). TLC checks the models on small
instances; TLAPS proves the safety of all of them for instances of any size, that queue,
tasks and schedules implement one abstract lease, and that queue and tasks composed keep
their promises to each other.

## 1. Inventory

### Components, their state and operations

| Component | State | Operations | Where it is hard |
|---|---|---|---|
| Automation queue (`postgres_queue_client.py`, `_queue_worker_loop`) | `automation_queue_items`: status, attempts, claim token, lease, available_at | enqueue, dequeue (with a sweep of abandoned rows), renew, ack, nack; a polling loop per process | abandoned claims, late acks, lost replies, the attempt limit |
| Saved tasks (`automation_repository.py`, `execution.py`) | `automation_tasks`: status, claim, execution_id, receipt, review; `outcome_records` | create, delete, claim, renew, complete, review | executions that outlive their claim, stale review tabs, legacy rows |
| Cron schedules (`cron.py`, `definitions.py`) | `automation_cron_jobs`: enabled, next_run_at, claim | create, delete, toggle, claim due, dispatch, renew, complete; a polling loop per process | two executors, toggling while a run is in progress, shutdown in the middle |
| Durable chat runs (`chat_run_repository.py`, `chat_run_lifecycle.py`) | `runtime_chat_runs`: status, lease, stop request; `runtime_chat_run_events` | admit, renew, stop, finish, journal, stream | a model that runs beside the heartbeat, stop against commit, disconnects |
| AG-UI stream (`api_routes/chat/runtime.py`, `ag_ui_event_projection.py`) | the projection's flags, the events on the wire | begin, project, report errors | an append that fails while the client is being told |
| Conversation store (`postgres_conversation_repository.py`, its gateway) | `conversations`, `messages` | ensure, commit a turn, delete | deletion while a run is in progress |
| Jobs (`job_service.py`, `automation_repository.py`) | `automation_jobs`: status, last result | create, delete, execute step by step, complete | overlapping executions; status carries no claim |
| Model downloads (`model_download_repository.py`, `model_download_control_service.py`, `model_download_publication_recovery.py`) | `model_download_jobs`; the staged directory, backup, receipt and final directory of a target; the model registry | queue, claim, cancel, pause, resume, publish, compensate, recover, clean up; worker loops | a publication of several renames that may stop anywhere or go on in a thread nobody waits for, its recovery by somebody else, and leases read at two different clocks |
| Channels (`channel_repository.py`, `services/channels/`) | inbox, outbox, connection | admit, claim, answer, stage, deliver, recover, revoke | a provider that may or may not have taken a message; duplicates; revocation in the middle |
| Medusa runs (`run_manager.py`, `distributed_run_store.py`, `durable_run_ledger.py`) | a registry per process, claim and record in Redis, a ledger row | register, heartbeat, cancel here or elsewhere, end, list and reconcile | three stores that fail one by one; a claim that lapses while the task works on |
| Owned timers, approvals, planner, training jobs | one versioned or leased table each | create, decide, claim, complete | the same family of protocols |
| Chat runtime, memory, routing, reasoning, auth, plugins, UI | mostly computation, I/O, configuration | | not protocols over shared state |

### How they interact

A cron executor claims a due schedule and either executes its target or enqueues a
queue item; a queue worker executes the item's target; the target is a saved task
(or a job), which is claimed once more and run through the chat runtime; its result
waits for the owner's review. Independently, a chat request admits a run, streams
the runtime's chunks through `ChatRunCoordinator.stream` and `_ag_ui_sse`, and the
runtime itself commits transcript and run in one transaction. A message from a channel
is a row of the inbox first; a worker runs it as a chat turn and commits the end of the
turn together with the reply in the outbox, which is then handed to the provider once.
A download is claimed by a worker, staged, and published under a per-target guard. An
agent call registers its run in its process, in the ledger and in Redis before it works.
Components share nothing but rows, keys and directories. A heartbeat (`claim_lease.py`, or the coordinator's loop) renews
each claim while the work goes on.

### What makes each part correct

* Queue: one owner per claim; completed means executed; given up means all attempts
  spent; settled is final; every item is settled.
* Saved tasks: a receipt belongs to the attempt the row names; a verdict belongs to
  a recorded human decision on that attempt; evidence awaiting review is kept.
* Schedules: an occurrence is not dispatched twice while its claim is good, completing
  one passes over no other (unless the owner moves the schedule under it), a due one is
  served.
* Chat runs: one terminal transition; a stop that was accepted wins; success only
  after the commit; the journal agrees with the status; a stop is resolved.
* Queue and tasks together: an item is completed only for a result that can be found,
  and a task delivered again ends well again only after its result was reviewed.
* Jobs: status and results come from one execution; a running job is being executed.
* Downloads: one owner per target; the target holds a whole installation, or one that
  recovery can restore; refused work is not installed.
* Channels: a reply reaches the provider at most once, never after a revocation, and
  exists exactly for the events that were answered.
* Medusa runs: an accepted cancellation wins; one owner per run id while its claim
  lives; an end in Redis is one that a call of the record's worker came to; a remote
  cancellation is resolved.

The hazards behind these are listed, each at its line, in `PROJECT.json`.

## 2. Modules

| Module | Models |
|---|---|
| `AutomationQueue` | queue rows and worker loops |
| `AutomationQueueProofs` | its inductive invariant, and that it implements the lease; the same for `AutomationPipeline` and its two parts; what a lease guarantees |
| `SavedTask` | task rows, executions, review tabs |
| `SavedTaskProofs` | its inductive invariant, and that it implements the lease |
| `CronScheduler` | schedule rows, executor loops, the owner |
| `CronSchedulerProofs` | its inductive invariant, and that it implements the lease |
| `FencedLease` | what a claim promises: the abstract specification of the three above |
| `AutomationPipeline` | queue and saved tasks composed: the queue, extended by the tasks (instance `T`) |
| `AutomationJob` | job rows and their executions |
| `AutomationJobProofs` | its inductive invariant and what follows |
| `ChatRun` | run rows and journal, requests with their generator, stops, deletion |
| `ChatRunProofs` | its inductive invariant and what follows |
| `ModelDownload` | download rows, workers, the directories and registry entry of a target |
| `ModelDownloadProofs` | its inductive invariants (of the rows, of everything, of what may be installed) and what follows |
| `Channel` | connection, inbox and outbox rows, hosts with their workers and operators |
| `ChannelProofs` | its inductive invariant and what follows |
| `MedusaRun` | one run id in registry, Redis and ledger; calls, heartbeats, operators |
| `MedusaRunProofs` | its inductive invariant and what follows |
| `MC...` | symmetry, and constants that are functions, for the runs that need them |

Conventions shared by all of them:

* A repository method is one transaction, hence one action. Everything between two
  awaits of a caller that touches no shared row is folded into the next action.
* `reply` says how a call ended: `"ok"`; `"lost"`, it committed but the caller sees
  an exception; `"failed"`, it did not commit. Both are exceptions to the caller.
* The code compares expiry times with the database clock and nothing else, so a
  lease is `"null"`, `"live"` or `"expired"`, and time is an action that may expire
  any live lease at any moment - also one whose owner is healthy but slow.
* Claim tokens are fresh uuids, modelled by a counter (0 is NULL). In `ChatRun` a
  request makes one execution_id and one token, so the request stands for both; in
  `ModelDownload` and `Channel` a token that nothing refers to any more may be issued
  again, which bounds the tokens without bounding the claims.
* `WHERE` clauses are predicates (`Owns`, `Holds`, `Claimable`, `Renewable`, ...),
  `SET` lists are functions on rows (`Claimed`, `Nacked`, `Completed`, `Settled`).
* Operators introduced as "Mutant:" are faulty variants of the definition that
  follows them. No specification uses them; they serve to show that each property
  would notice the fault.

### AutomationQueue

`row[i]` has the columns; `worker[w]` is where a loop is (polling, executing,
acking, nacking, stopped) and the claim it holds. `Dequeue` is the whole method: it
sweeps expired rows that have spent their attempts into `dead_letter`, then claims a
candidate; `DequeueEmpty` is a poll that only sweeps. `SKIP LOCKED` means that
any candidate may be the one. `Heartbeat` covers the renewal and the cancellation
that follows a refused or failed one (`queue_lease.py` turns an error into a
refusal). `Ack` and `Nack` test token and status but not the expiry, as the code
does; the loop answers a failed ack with a nack.

### SavedTask

`runner[r]` is one call of `execute_saved_task`, `tab[u]` one view of the owner.
`Claim` is `mark_task_running`, which wipes the previous receipt and review.
`Heartbeat` distinguishes a refused renewal (the execution stops without touching
the row) from one that raises (the execution records a failure). A receipt is
`complete` when the approval conditions of `review_task` accept it, `partial` when
it may only be rejected. `Submit` is the service's own check, `Review` the
transaction that repeats it, changes the status and appends the outcome event.
`producer` and `reported` are history: which execution wrote the receipt, and which
results a caller was told of. Initial rows include what migrations 28 and 29 found:
running rows without a claim, and old successes.

### CronScheduler

`next_run_at` is due or not; occurrences are numbered so that it can be said which
one was dispatched. `Dispatch` stands for enqueueing or executing, and may take
effect although it reports an error. `Complete` is the `finally` block and tests the
token only. `Interrupted` is a dispatch cut off by a lost claim or by shutdown: it
may have taken effect. `sent`, `lapses`, `excused`, `passed` are history.

### ChatRun

`req[q]` is one POST: the coordinator's position, the chunk its `next_chunk` task
has ready, how far the runtime's generator has come (`up`), how the stream was left,
and whether a text message is open in the projection. The generator's transactions
(`Ensure`, `Commit`, `Remember`) interleave with the coordinator's (`Renew`,
`AskCancel`, `AskCompleted`), as they do in the code, and one that is in flight when
the generator is closed may still land. `Branch` is the shape of every call in
`stream`: an exception leaves by the general handler. After `closing` comes the
terminal write, then the report. `Record` is the journal's append with its rules
(`Allowed`), its limit, and its refusal of a second terminal event. Every event of a
running model is `"text"`; `"end"` is TEXT_MESSAGE_END. One conversation of one user
is modelled. `Faults` switches the three kinds of failure on and off.

### FencedLease

The abstract specification the claims of queue items, tasks and schedules have in
common: `Acquire` grants a row that has no live grant under a token never used before
(the grantee may not hear of it), `Release` is open to the last grantee only, `Lapse`,
`Sweep` and `Withdraw` are expiry, the sweep of expired rows, and deletion. Each of the
three modules states `ImplementsLease == Lease!Spec` with the mapping from its rows and
locals (`Belief` is the claim a process remembers); its run checks it and its proof
module proves it: nobody but
the holder of the current token ever ends a claim, and no token is used twice.

### AutomationPipeline

`_execute_claimed_queue_item` runs the saved task its item names, so two claims with two
leases are in play. The module extends `AutomationQueue`, has the tasks as its instance
`T`, and says which steps of the two are one step here:
`ExecutionStep` is a step of the task's execution together with what it means to the item
(`Outcome`: it goes on, it returned, it raised); `QueueHeartbeat` is a lost item claim,
which cancels the execution and waits for it; `Shutdown` is shutdown or death of the
process. Seen from the queue every step is one of `AutomationQueue` or changes nothing of
it, by construction; that the tasks, too, see only executions of their own kind is not,
and is `TaskBehaves`. `CompletedLeavesEvidence` and `RerunOnlyAfterReview` relate the two:
what served an item (`served`, a history) can be found, and an item that is delivered again
because its ack came late does not run its task a second time over an unreviewed result.

### AutomationJob

`job[j]` is the row, `exec[x]` one call of `execute_job`. A job has no claim: executions
overlap, and `MarkRunning` and `Complete` write by job_id alone. `lost` is the history of
executions that could not record their end. A job may have no steps.

### ModelDownload

`row[j]` is the job, `worker[w]` one execution, `disk[k]` the staging root, backup and
receipt of lease token `k`, `final[t]` the install path, `registry[m]` the registry's entry
of model `m`; several targets (revisions, channels) may belong to one model (`Model`) and
then share its entry. A publication reserves `promoting`, opens the guard (a transaction that
holds the advisory lock of the target over several steps), writes its receipt, moves the
old installation to the backup, renames the staged one, replaces the registry entry,
commits, and cleans up after the commit. Each is an action, and a crash fits between
any two. Recovery claims interrupted publications, and rolls forward or compensates by
what it finds. Rows imported from before jobs were deduplicated share a target.

Two things go on where nobody looks. The shutdown's grace period may end anywhere
(`Cancel`), also inside the guard, where the code compensates; the threads of `promote` and
`rollback_filesystem` cannot be stopped and finish what they do beside the compensation, or
after the execution is over (`thread`, `StrayRollback`, `StrayRemoval`). And the statements
of `lease_is_valid`, `heartbeat` and `complete` compare leases with `now()`, the start of
their transaction, those of `claim_next`, of the recovery's claim and of the guard with
`clock_timestamp()`: a transaction that began before some leases expired still sees these
(`Sees`, with the set `early`), and may reserve or renew after the target was given away.
Two histories watch for what this can do: `doubled`, the targets that such a late step gave
a second owner (`Late`), and `overrun`, those whose directories a stray thread moved
(`Stray`). They are computed from the step taken and guard nothing.

Left out: loss of the database session inside the guard, `available_at`, changes of the
limit, policy switches. `rollback_filesystem`'s removal of the final directory and the
rename of the backup are one step. Every process loads the registry file once and writes
it whole (`model_orchestrator_service.py:138`, `247-269`); the model has one registry.

### Channel

`inbox[e]` and `outbox[e]` are the rows of one event and its reply, `proc[p]` a coroutine
of a host: the worker's execution of an event, or an operator's `recover_outbox`.
`Admit` is the idempotent ingress, `Commit` the transaction that completes the event and
stages the reply. A delivery is preflight, `ClaimOutbound`, `Recheck` (the connection and
the user once more), the provider's call, `Finalize`. The call may be taken and
not answered. `received` counts what the provider took; `overtaken` are events whose
connection was revoked before their reply was sent.

### MedusaRun

One run id. `run[c]` is one coordinator call with its task and heartbeat, `registry[w]` the
entry of a process, `claim` and `record` the two Redis keys, `ledger` the PostgreSQL row,
`op[k]` one call of `cancel`. Coroutines are cut at their awaits. `Register...` follow
`register()` through ledger, claim and record with its compensation; `MarkTerminal`,
`EndLedger` and `EndShared` write the end to the three stores in the code's order;
`Cancel`, `CancelDurable`, `CancelShared` are a cancellation by the owning process,
`CancelRemote` one by another. A task's cancellation takes effect at its next await, and
the call awaited there may have landed (`landed`). `self._lock` is one such await, because
`get()` holds it over a ping of Redis: a task cancelled there leaves its run as it is
(`LockInterrupted`).

## 3. Runs

| Run | Instance | Distinct states | What it shows |
|---|---|---|---|
| `queue` | 2 items, 2 workers, 3 attempts | 140 thousand | claims are fenced leases; completion and dead letters are earned and final; every item is settled |
| `task` | 1 task, 2 executions, 2 tabs, 3 claims | 346 thousand | receipts, verdicts and evidence belong to their attempt; claims are fenced leases and never stuck |
| `pipeline` | 1 item, 1 task, 2 workers, 1 call by hand, 1 tab, 2 attempts, 2 claims | 279 thousand | a completed item has a result that can be found; no second good end over an unreviewed result; the composition implements the tasks |
| `job` | 2 jobs of 2 steps, 2 executions | 129 thousand | outcomes are not mixed; a job stays 'Running' only when an end was not recorded |
| `cron` | 1 schedule, 2 executors, 2 occurrences, 3 claims | 161 thousand | no second dispatch without a lapse, none passed over by a completion that no toggle overtook, fenced leases, a due schedule is served |
| `chat_safety` | 1 run id, 2 requests, 4 events, all faults | 3 million | stop, commit, journal and status agree |
| `chat_liveness` | 1 run id, 1 request, all faults | 7 thousand | a stop is resolved |
| `chat_erasure` | 1 request, no faults | violation | finding 1 |
| `download_safety` | 2 jobs on 1 target, 2 workers, 3 tokens, 1 attempt | 1.6 million | one owner unless a late transaction made a second, nothing torn unless a stray thread moved a directory, the previous installation survives, refused work is not installed |
| `download_cancel` | 1 job, 1 worker, 3 tokens | violation | finding 2 |
| `channel` | 1 event, 2 hosts, 3 tokens, 4 revisions | 444 thousand | at most one send, none after revocation, replies match the inbox, settled rows stay |
| `medusa` | 2 workers, 2 calls, 1 operator, ledger on and off, all faults | 1.4 million | cancellations win and are resolved, one owner, one execution with the ledger, an end in Redis is a call's |

Bounds. Interference needs two actors on a row, and a third claim lets an old
owner meet a successor's successor. Three attempts are the code's default
`max_attempts`. Two queue items are there because the sweep touches rows other than the
one being claimed. One task and one schedule suffice, since no statement relates two of
them; two downloads do share something, their target. Two requests for one run id cover
replayed admissions and the sweep by somebody else's request; four journal entries hold
a whole run (started, text, end, finished) and let it run full. Four revisions are a
connection that is revoked, activated and revoked again. Three download tokens are an
artifact that is installed and two claims (two downloads, or one and its recovery); a
token that nothing refers to any more is issued again, so any number of claims follow one
another. With one attempt a download is requeued by shutdown and recovery only, which is
where the counting is loose.
`MaxRuns`, `MaxClaims`, `MaxOccurrences`, `MaxRevision` and `Tokens` bound what is
unbounded in the code; `MaxEvents`, `MaxAttempts`, `MaxScheduled`, `MaxInflight` and
`Limit` are limits the code has. In `download_safety` the limit (2) admits both workers,
so that the rules of the target, and not the limit, have to keep them apart.

Symmetry is used where no temporal property is checked that it could hide. The view of
`download_safety` drops what tokens out of reach left on disk, which no step reads. Its
constraint `Undoubled` stops where the target has got a second owner: that state is
checked, its successors are not explored, because `OneTargetOwner`, `InstallIntact` and
`PreviousSurvives` say nothing of them. `RefusedNotInstalled` does, and is proved there
(section 4). The run has one target and one model; that targets share a registry entry is
covered by the theorems, which hold for any `Model`.

Deadlock is not checked where the system may stop: all requests, executions or calls may
be over, all downloads settled, all events answered, or no claim be left for a deleted
task.

The module of every component states a type invariant, and it is proved rather than checked (section 4).

### Fairness

* A process that stops is started again, and a loop polls again (`while True` with a
  sleep). Polls, and the completion of a schedule, are strongly fair: they may fail
  again and again, but not always.
* An operation that was started ends, and its caller goes on to the next call.
* A claim expires when nobody renews it. While its worker is executing, no expiry
  is assumed - the heartbeat keeps it alive - though one may happen.
* In `ChatRun` the heartbeat comes round by a timer whether the model is slow (the
  `asyncio.wait` timeout) or fast (the check of the time since the last heartbeat).
  Nothing is assumed of the model, the client or the user.
* In `AutomationJob` an execution goes on to its next step and to its end.
* In `MedusaRun` coroutines go on when their awaits return, a cancelled task ends, the
  heartbeat's timer comes round, and a claim without heartbeats expires.
* `ModelDownload` states no fairness: only safety is claimed of it (section 5).
* Nobody is obliged to enqueue, execute, review, cancel, stop or delete anything.

`DueIsServed` and `ClaimNeverStuck` are stated up to the bound on claims: once the
model has no claim left to give, `DueIsServed` asks for nothing.

## 4. Proofs

Every theorem is proved for any finite or infinite sets of rows, processes and requests
and for any value of the bounds. The assumptions are the named ones of the modules:
bounds and limits are natural numbers (positive where the code has a positive limit), NULL
values (`NoItem`, `NoTask`, `NoCron`, `None`, ...) are not members of the sets they stand
outside of, and, for the mapping to the lease, where a claim is a pair of row and token,
not such a pair either. In the composition the workers' executions and the calls by hand
are different ones. No theorem has a further hypothesis; where a property has exceptions
they are in its formula and in the text above it.

All proofs have one shape: an inductive invariant (`IInv`, or `PipelineInv` for the
composition) in the proof module, checked with TLC first, `InitInv`, one lemma per action or per kind of step, `NextInv`, and
the theorems as consequences. What the invariants add to the properties, and why:

| Module | Theorems | What the invariant adds |
|---|---|---|
| `AutomationQueueProofs` | `QueueTypes`, `QueueOneOwner`, `QueueSettledHonestly`, `QueueLiveClaims`, `QueueSettledIsFinal`, `QueueImplementsLease` | `WorkerClaims`, `ClaimColumns`, `AckedWasExecuted` |
| the same, of `AutomationPipeline` | `PipelineTasks`, `PipelineTypes`, `PipelineEvidence`, `PipelineRerun` | `TaskInv`, `Linked` |
| the same, of `FencedLease` | `LeaseInvariant`, `LeaseOneSettler`, `LeaseStaleForGood` | tokens were issued before, no two owners remember the same |
| `SavedTaskProofs` | `TaskTypes`, `TaskReceipts`, `TaskVerdicts`, `TaskReportedResults`, `TaskLegacyRuns`, `TaskImplementsLease` | `RowShape`, `OneTaskPerAttempt`, `RunnerShape`, `TabShape`, `EventShape` |
| `CronSchedulerProofs` | `CronTypes`, `CronTwiceOnlyAfterLapse`, `CronPassedWasServed`, `CronImplementsLease` | `RowShape`, `WorkerShape`, `CompletingWasServed`, `AllCounted` |
| `AutomationJobProofs` | `JobTypes`, `JobOutcomeConsistent`, `JobRunningIsExecuted` | `ExecShape` |
| `ChatRunProofs` | `ChatTypes`, `ChatStopWins`, `ChatSuccessIsCommitted`, `ChatJournalAgrees`, `ChatCancelledIsStopped`, `ChatTerminalOnce` | `ReqShape`, `StopStands`, `RowShape`, `JournalShape`, `Succeeded` |
| `ModelDownloadProofs` | `DownloadTypes`, `DownloadOneTargetOwner`, `DownloadInvariant`, `DownloadInstallIntact`, `DownloadPreviousSurvives`, `DownloadRefusedNotInstalled` | `RowShape`; `Refusals`, `OneOwner`, `Place`, `Publication`, `Progress`; `Cleared` |
| `ChannelProofs` | `ChannelTypes`, `ChannelSentAtMostOnce`, `ChannelRevokedNeverSent`, `ChannelAnswerMatchesInbox`, `ChannelSettledStays` | `Senders`, `Rows`, `Received`, `Overtaken` |
| `MedusaRunProofs` | `MedusaTypes`, `MedusaLedgerRunsOnce`, `MedusaSharedRunExclusive`, `MedusaSharedAgrees`, `MedusaAcceptedCancelWins` | `Shape`, `DurableOnce`, `SharedInv`, `OpInv` |

* Queue. `OneOwner` needs to know that a token is held by one worker and was issued
  already (`WorkerClaims`), and that the rows' tokens were issued too and sit on
  processing rows only (`ClaimColumns`): then a fresh token cannot be anybody's.
  `CompletedWasExecuted` needs that a worker about to acknowledge has executed. The two
  action properties follow from one step and `ClaimColumns`: what is settled has no
  token, so no ack or nack matches it and no sweep reaches it.
* Tasks. A claimed row runs under the token that is its execution_id (`RowShape`), no
  two tasks have the same attempt (otherwise one task's decision could stand as evidence
  for another's), and all attempts in locals and events were issued before, so that a
  new attempt has no decision yet.
* Schedules. `TwiceOnlyAfterLapse` is a count: the dispatches made and the executors that
  may still make one are together at most one more than the claims that lapsed, and not
  even that one more while the occurrence can be claimed again (`Counted`). `Shaped` says
  when that is: a claim whose next_run_at nobody moved is for the occurrence that is still
  due.
* Lease. The three refinement proofs go action by action: each step of the component is
  a step of `FencedLease` under the mapping or leaves it unchanged. What a process
  remembers (`Belief`) matters only while it is busy, and a `WHERE` clause that matches
  means its token is the last one granted; both need the component's `IInv`. With
  `LeaseOneSettler` and `LeaseStaleForGood`: nobody shares a claim on an item, task or
  schedule, and who has lost it never has it again.
* Queue and tasks together. `PipelineTasks`: a step that begins an execution is a
  step of `SavedTask` only because the worker has an item, whose task exists
  (`WorkerClaims`). `CompletedLeavesEvidence` needs the two parts to be connected
  (`Linked`): an execution runs the task that its worker's item names, what served an item
  was reported for that task, and an item that is being acknowledged, or is completed, was
  served. That what was reported is still to be found is the tasks' own
  `ReportedUntilReviewed`; a theorem about `SavedTask` cannot be cited through an instance,
  so the part of its invariant that this takes (`TaskInv`) is proved again.
* Jobs. A job has no claim, so what keeps outcomes from mixing is in the execution's own
  locals: one that goes on has met no unsuccessful step, one that succeeds did them all.
* Chat runs. A stop that was acknowledged leaves the row in a status from which neither a
  commit nor RUN_FINISHED is possible, and no generator that believes in a commit
  (`StopStands`). Every trace of success - memory, wire, the generator's belief - implies
  a completed row, which in turn is the same as saved messages (`Succeeded`). The journal
  cannot be continued after its terminal event because the request that could do so has
  no open message and is past its last chunk (`JournalShape`): the statuses alone
  would admit a TEXT_MESSAGE_END after RUN_FINISHED. The actions fall into steps that move
  a request (`RequestStep`, with at most one append) and steps that change rows
  (`RowsStep`), each kept by one lemma.
* Downloads. That a target has one owner, unless it is `doubled`, concerns rows only
  (`RInv`). The rest concerns directories as well, and the invariant says which states
  recovery can meet. A token belongs to one job, a guard to one execution, and what is only
  staged is worked on by nobody else, threads included (`OneOwner`); where an execution is
  tells what its row says (`Place`). An orderly target (neither `doubled` nor `overrun`) that
  nobody promotes to is whole; what is being promoted has its row's staging root in one of
  three situations, before, between and after the two renames, each with what finishing or
  undoing it takes (`Publication`): that no crash and no cancellation leads out of these
  three, as long as no thread moves a directory unobserved, is the heart of the proof. How
  far an execution has come says which of them it is in (`Progress`); a thread that removes a
  staging root does so only after the install path was put in order (`Emptied`). Steps that
  touch no directory that matters are `Calm` and kept by one lemma; those inside the guard go
  action by action; those of stray threads either change nothing or make the target
  `overrun`, after which only the invariants of tokens and places remain.
  `RefusedNotInstalled` has no exceptions and needs an invariant of its own, `Cleared`:
  everything that can still get to an install path or into the registry (what is there, what
  is being promoted, what a thread carries, the backups and prior entries of the staging
  roots that somebody knows) belongs to work that was not asked to stop and no longer can be.
* Channels. The reservation of a reply is recorded in the row's attempt count and has one
  holder (`Senders`), and up to that holder's call nothing was taken by the provider. An
  overtaken event keeps an older revision for good, which the recheck refuses.
* Medusa. With the ledger, its insertion succeeds for one call and nobody works without it
  (`DurableOnce`, `Shape`). Redis fences by worker, not by call: exclusion holds while no
  claim has lapsed, because a call about to release a claim is never on the worker of the
  one that holds it, and the record is that of the holder (`SharedInv`). An accepted
  cancellation stands because only one local request is under way per call (`OpInv`).

Only model-checked: the liveness properties (`EveryItemSettles`, `ClaimNeverStuck`,
`RunningEnds`, `DueIsServed`, `StopResolves`, `RemoteCancelResolves`), which are beyond this proof system together with fairness and
ENABLED. Every invariant, action property and refinement that a passing run checks is
also proved.

## 5. Findings and observations

1. `chat_erasure`. `delete_conversation` says "Never leave an audit/replay payload
   behind after transcript erasure". Admission checks the conversation in one
   transaction and inserts the run in another, without a foreign key: Send,
   DeleteConversation, Admit leaves a run of a deleted conversation. A turn in
   progress may in addition create the deleted conversation again
   (`ensure_conversation`), though its messages are then refused.
2. `download_cancel`. `_release_cancelled_claim` says of a cancellation during a promotion
   that `asyncio.to_thread` cannot stop a running rename, and that the rule is to "keep the
   lease fenced and let it expire. A subsequent worker then claims recovery before any
   ordinary retry" (`model_download_worker.py:210-213`). `execute_claimed_job` catches the
   cancellation first (`except BaseException`, `model_download_control_service.py:1000`),
   compensates while the thread still runs, and `abort_for_retry` gives the job back: the
   thread's rename lands on a target that nobody promotes and nobody will recover
   (`FencedUntilReconciled`). What is then at the path may be nothing, or an artifact the
   rows know nothing of; never one that was asked to stop (`RefusedNotInstalled`).

Seen while modelling, against something the repository says, and not shown by a run of
its own:

* Journal. `ck07-runtime-run-ledger.md:204` says each projected event is recorded before
  it is sent. TEXT_MESSAGE_END of a stopped or failed run never is: the journal accepts
  it only of running or completed runs. A failed run that has streamed text therefore
  also loses its own error code to CHAT_EVENT_JOURNAL_UNAVAILABLE.
* Downloads. "The active lease will naturally expire and be recovered"
  (`model_download_worker.py:198`): a crash between the reservation of `promoting` and
  the receipt leaves a promoting row that recovery claims and gives up again, which cancel
  and pause refuse, and which blocks its target. That every download is settled is therefore
  not claimed.
* Downloads. "exactly one holder can transition to promoting" of two jobs with valid leases
  on one target (`model_download_repository.py:811-812`): a promotion whose own lease has
  expired does not fence another reservation (`sibling.lease_expires_at > now()`, line 890),
  and a reservation that waited for the lock is judged by its lease at the start of its
  transaction. `claim_next` never claims beside a promotion, so two are possible only for a
  target that a late reservation or renewal has given a second owner (`doubled`).
* Channels. "Ambiguous calls become UNKNOWN" (`delivery.py:5`): a host that dies between
  `claim_outbound` and `finalize_outbound_claim` leaves the reply `accepted` for good;
  `quarantine_expired_outbound_claims` has no caller.
* Medusa. The terminal UPDATE of `_owned_transition` (`durable_run_ledger.py:715`) names
  `:outcome_status`, which its parameters lack: with the ledger on, ending a run raises
  before Redis is told ("Terminal completion releases the ownership claim",
  `agent-medusa-distributed-run-control.md:32`). `EndLedger` has that behaviour. With the
  ledger on, which is the default, the claim of a run that was executed is therefore left to
  expire and its record keeps saying `running` or `cancelling`; what `SharedAgrees` can say
  of that deployment is that the only end ever recorded is the `failed` of a call that did
  not come to execute.
* Medusa. `reconcile_from_shared` (`durable_run_ledger.py:577`) uses a name that is not
  defined there: a row that needs repair stays open, and the listing that noticed it fails.
* Medusa. `cancel()` passes over an unavailable Redis but not over other Redis errors: the
  run is `cancelling`, the task is not cancelled, and further requests are refused
  ("continues to own and cancel its local concrete tasks",
  `agent-medusa-distributed-run-control.md:22`).
* Medusa. A cancellation during `register()` cancels it between handlers that catch
  `Exception` only: the entry stays `cancelling` and blocks its run id.

Seen while modelling, without contradicting a stated promise:

* A stop that arrives between admission and RUN_STARTED is never confirmed as
  cancelled: the start event is refused, `finish(failed)` too, and the run stays
  `cancelling` until its lease expires. A client that leaves in that window leaves a
  running row behind in the same way.
* Shutdown in the middle of a dispatch completes the schedule's claim without an
  error: the occurrence is neither retried nor marked.
* When `complete_cron_claim` raises while the executor is being cancelled, the
  cancellation is lost, the loop goes on, and `_stop_cron_executor` keeps waiting.
* Disabling and enabling a schedule during a run moves next_run_at, and the
  completion moves it again: an occurrence that fell due in between is dropped. The history
  `overtaken` collects exactly these, and `PassedWasServed` excepts them.
* A queue item may be dead-lettered although its task ran: its attempts are used up by a
  task that is busy - possibly with an earlier attempt of the same item - or under review.
* `cleanup_committed` of one publication may remove the marker of the next one's backup;
  if that one then stops before its commit, compensation is refused and it stays
  `promoting`: nothing is torn, but the target is blocked.
* Revisions of one model have install paths and guards of their own but one registry entry:
  a compensation may restore an entry that another revision's publication has replaced
  since the snapshot (`_compensate_publication`), and the entry names the one published
  last. `InstallIntact` speaks of the entry only where no other path shares it (`Sole`).
* `release_for_shutdown` requeues a download whose attempts are spent.
* A journal that is full when the terminal event comes leaves a run without one
  (`chat_run_repository.py:423`); `completed_agent_activity` then finds no RUN_FINISHED.
* The renewal of an inbox claim that is refused just after the commit reports the claim as
  lost though the reply is staged; only `recover_outbox` will then send it. It,
  `recover_inbox` and the quarantine are called by nothing but `host.py` and tests. The
  inbox counts attempts, and nothing limits them.
* `cancel()` sets a run back to RUNNING when the ledger fails without looking whether it
  has ended meanwhile. Redis fences by worker and not by call, so after a lapse a late
  end of one call can end the record of the next on the same worker (`SharedAgrees` then
  only says that a call of that worker is over). A Redis error ends the heartbeat loop: the
  claim lapses while the task works on, and a remote request to cancel it is not seen.

## 6. Not modelled

* Owned timers, approvals, planner and training jobs: small protocols of the same kind
  (idempotency keys, one decision, revisions, a ledger of leased jobs).
* Of channels: linking, pairing, credentials, and the activation of transports.
* Migrated legacy job rows; the global limit of downloads beyond what two workers reach.
* Tenants and principals: every statement is scoped to them, so one principal's rows
  are modelled.
* Read-only views, event layout, receipts' contents beyond what the review tests,
  prompting, routing, memory ranking, plugins, UI, deployment: computation, I/O and
  configuration without a protocol over shared state. They make up by far the largest
  part of the repository.
* Deployments with the durable-run or journal feature switched off, in which
  `_ag_ui_sse` streams without a ledger.

## 7. Plan

Done: queue, saved tasks, schedules and the lease they implement; queue and tasks
composed; jobs, chat runs, downloads, channels, Medusa runs; proofs of the safety of all
of them.

Next: approvals (one decision per request, revisions), training jobs (a ledger of leased
jobs) and owned timers, each as a module with a run and a proof module's worth of theorems,
and whether their claims implement `FencedLease` as well.
