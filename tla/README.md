# TLA+ models of the AI Development Platform server

The repository is a local platform that lets an "Owner" agent hand Tasks to
Workers, collects their results in Git worktrees and merges them, after a human
approval, into the user's repository. Its logic is the FastAPI server under
`apps/server/src/aidp_server` (about 13,300 lines of Python over one SQLite
database); the web UI is a client of its HTTP API and the packages only declare
types. This directory holds TLA+ modules of that server, TLC configurations that
check them and TLAPS proofs about them.

Paths below are relative to `apps/server/src/aidp_server`.

## 1. Inventory

| Component | State | Operations | What is hard | What makes it correct |
|---|---|---|---|---|
| Status transitions (`state_transitions.py`) | none: tables | `assert_*_transition` | two sets of tables, the public one a restriction | generic endpoints cannot reach protected statuses |
| Claims and leases (`work.py`) | `Task.status`, `TaskAttempt.status / claimed_by_worker_id / lease_expires_at`, `Worker.status / revoked_at` | create attempt, status endpoints, register, heartbeat, revoke, claim, release | check and write are apart; leases run out in between; retries | one holder, running leases honoured, leases bounded |
| Worktrees (`worktrees.py`) | `GitWorktree` row, the directory, its branch | create, inspect, diff, commit result, cleanup | git and database change in separate steps | a result is recorded iff committed; only finished worktrees are removed |
| Review actions (`attempt_actions.py`, `owner_attempt_tools.py`, `attempt_retry_policy.py`) | attempt status, follow-up attempts | accept, reject, follow-up | race with claims and with merge review | a follow-up is never a second line of work |
| Merge review (`reviews.py`, `approvals.py`) | `MergeReview`, `ApprovalRequest`, the source repository's HEAD, index and working tree | list, detail, approve, reject, prepare, squash | git commands without a lock; failure between any two; stale approvals | only what was approved, where it was approved, once; nothing is lost |
| Worker queue (`owner_tools.py`, `worker_execution.py`, `worker_liveness*.py`, `adapters/`) | `WorkerRun`, attempt and claim columns, background tasks | create run, run, drain, recover stale runs, adapters' results | background executions racing recovery and each other; restart | capacity of one, every running run ends, ended runs stay |
| Agent runs (`conversations.py`, `owner_providers.py`, `owner_tool_loop.py`, `owner/`) | `AgentRun`, `AgentRunStep`, messages, background task | start, status, model turn, tool step, failure | background run against the status endpoint; step numbering | a started run ends; the ledger has every tool call that had an effect |
| Tool calls (`tool_calls.py`, `policy.py`, `action_policy.py`, `tool_registry.py`) | `ToolCall`, `PolicyDecision` | create, status, owner request | select-then-insert idempotency | one call per key |
| Pairing and sessions (`auth.py`, `devices.py`, `cli.py`) | `PairingCode`, `RuntimeSession`, `Device` | issue, pair, authenticate, logout, revoke | concurrent pairing, revocation during a request | a code pairs once; no access after revocation or expiry |
| Write scope (`write_scope.py`) | none | normalise, parse, match, validate | patterns, renames, sensitive paths | agrees with a reference definition |
| Projects (`projects.py`, `git_utils.py`, `git_commands.py`) | `Project`, `ProjectRepository` | create, register, archive, change role | primary swap | one active primary |
| Process runtime (`process_runtime.py`, `process_runs.py`) | `ProcessRun`, OS processes | run, time out, fall back | timeout against exit | outcome recorded once |
| Views (`task_workspace.py`, `operations.py`, `settings.py`, `owner/context_builder.py`, ...) | none | read | nothing | not modelled |

How they interact. All components share the SQLite tables. Work, worktree and
review handlers write the same `Task.status` and `TaskAttempt.status` columns; the
worker queue writes the claim columns of `work.py` directly; `reviews.py` and
`worktrees.py` run git in directories that the user and the workers use as well.
Background work is started by FastAPI's `BackgroundTasks` (agent runs, AGY worker
runs) and by one asyncio task (stale worker runs). `PROJECT.json` lists the
hazards, each at its line.

## 2. How the code executes, and how that is modelled

The endpoints are synchronous functions; FastAPI runs each request on a thread
of a pool. `db/session.py` builds sessions with `autoflush=False` and
`expire_on_commit=False` over pysqlite: a SELECT runs outside any transaction,
and the first INSERT, UPDATE or DELETE opens one that holds SQLite's only write
lock until the commit. Four consequences decide how large a step is.

* A handler that reads and then writes is two atomic steps of its thread,
  `<Op>Read` and `<Op>Write`, with the values it has loaded kept in `request[t]` in
  between; anything may run in the gap. The ORM puts a column in its UPDATE only
  if the new value differs from the loaded one: `Flush` (WorkClaims, WorkerQueue,
  AgentRunLoop) and `Store` (SquashMerge) are that rule. A conditional UPDATE
  (claim, pair) evaluates its WHERE clause against the stored row, inside the
  write step. A handler that writes without depending on a loaded value
  (register, revoke, a ToolCall's status) is one step.
* A call of an owner tool, an automatic drain and a tick of the scheduler insert
  a `ToolCall` row before they read: they hold the lock from there to their
  commit and are one step of `WorkerQueue`. In `WorkClaims` a call is asked for in
  one step and reads, decides and writes in the next.
* A background task of the worker queue holds the lock from its first flush to
  its commit, for as long as the external process runs. Other writers give up
  after five seconds, which may lose an automatic drain or another background
  task for good (`JobLost`), that of an agent run included (`TaskLost`). What the task wrote at its start is seen by nobody.
* The background task of an agent run commits in the middle of every tool
  request, because seeding the tool registry commits; the rest of the request
  waits for the next commit or is rolled back (`AgentRunLoop`, `pending`).

Git commands change the repository at once and are separate steps wherever the
lock is not held (the squash). A request in flight may also end without its
write (`Abandon`, `Refuse`, `PairAborts`): git refuses, the lock is not obtained in
time, or the server stops.

The threads of the `claims_*` and `merge_*` runs are interchangeable, and so are
workers and attempts; that is the SYMMETRY of the configurations that have one. It
is used for safety properties that name no element, and by no run with a liveness
property.

## 3. Modules

| Module | Models | Extends / uses |
|---|---|---|
| `TransitionTables` | status vocabularies and transition maps | |
| `LeaseContract` | abstract: who owns an attempt and until when | |
| `WorkClaims` | claims, leases, status endpoints, results, decisions and follow-ups, concurrently | `TransitionTables`; implements `LeaseContract` |
| `MergeGate` | abstract: what may happen to the base branch | |
| `SquashMerge` | worktrees, reviews, approvals, squash and the source repository | implements `MergeGate` |
| `WorkerSlot` | abstract: the one slot of a worker, taken and freed | |
| `WorkerQueue` | WorkerRuns: owner tools, background tasks, automatic drain, stale recovery, WorkerRun endpoints, adapters | `TransitionTables`; implements `WorkerSlot` |
| `AgentRunLoop` | one AgentRun: start, providers, events, tool bridge, ledger | |
| `PairingSessions` | pairing codes, devices, sessions, revocation, expiry | |
| `MCWorkClaims`, `MCSquashMerge`, `MCWorkerQueue` | instances for TLC | the module they are named after |
| `WorkClaimsProofs`, `OneRequestProofs` | theorems about claims; the second, those for requests that take turns or come one at a time | `WorkClaims` |
| `SquashMergeProofs`, `OneMergeProofs`, `SquashTurnsProofs` | theorems about merges; the second, that an attempt lands once while the user runs git; the third, those for requests that take turns | `SquashMerge` |
| `WorkerQueueProofs`, `AgentRunProofs`, `PairingProofs` | theorems | the module they are named after |

**WorkClaims.** One Task, its attempts, the workers, a clock. `claimedBy` and
`lease` are the columns of the same names (0 is SQL NULL); `worktree[a]` keeps
whether the attempt has a worktree and whether it has a result commit. Actions
are named after the handlers. `next_status` of release, the targets of the status
endpoints, the outcome of `git worktree add` and the verdict of the write scope
are nondeterministic choices. `Operations` bounds the kinds of request a run
sends. A follow-up (`attempt_actions.py`) is three steps: `FollowUpRead` asks
the retry policy, which queries the attempts that would block it; `FollowUpNumber`
queries the highest attempt number; `FollowUpWrite` inserts a row with the next one.
The UNIQUE constraint refuses that row if an attempt was created after the second
query (`NumberTaken`), but not if it was created after the first. The creation of an
attempt reads its number and inserts likewise. The owner tool's follow-up
(`owner_attempt_tools.py`) does the same under the write lock: it is the case in
which nothing comes between the three.

The same columns are written from outside `work.py`, without a look at what they
hold. `StartTaskAttempt` (`worker.start_task_attempt`) gives an attempt to the owner's
worker, whoever has claimed it, and sets no lease; `assigned` keeps which attempts it
has given away. `toolRun[a]` is the newest WorkerRun of an attempt that the owner tools
can run and `manualRun` the attempts with a manual one: running a WorkerRun
(`RunTaskAttempt`: requeued, mock, handed off, or its worktree fails), starting a
manual one and ending either (`EndRunWrite`: background task, endpoints, recovery)
set the attempt's status whatever it is. Which runs a worker has at once, the drain
of the queue and how runs get old is the subject of `WorkerQueue`. Not in this module:
timestamps nobody reads, result summaries, audit events.

**LeaseContract** allows four things: a grant of a free or expired attempt, a
renewal of any set of attempts by their owner up to `LeaseTTL` from now, a
give-up, an assignment by the owner of all work, which moves no deadline, and time. `WorkClaims` implements it with `owner <- claimedBy`,
`deadline <- lease`, `now <- clock`.

**SquashMerge.** Attempts of different Tasks on one source repository. A commit
is the set of changes it brings and its sha is the whole history that leads to
it, so "HEAD is the base" is equality of sequences. `row[a]` holds the status
columns of the attempt, its Task, worktree and review; `result` counts the
worktree's result commits. An approval keeps the fields of its fingerprint that
can vary for one attempt: base, result and commit message. Squash is
`SquashRead` (all checks), `GitMerge`, `GitCommit`, then `SquashRecord`, or
`GitReset` on failure. `LookAtReview` is the part of `detail` and `prepare` that
writes: the latest approval goes stale. Simplifications: `approve` commits once
more in the middle when an older approval goes stale, which is folded into its
write; the status `merge_prepared` is never assigned by the code; the user does
not switch branches; claims are not repeated here (they are in `WorkClaims`).
What changes an attempt under review from outside `reviews.py` is: `DecideWrite`
is accept, reject and follow-up of `attempt_actions.py` and of the owner tools, which
tell neither review nor approvals; `WorkOnAttempt` is a WorkerRun, a claim, a release
or a status request that takes the attempt out of review whatever its status is.

**MergeGate** says that the branch only grows, by one commit at a time; that a
commit without a change of the user's own is exactly one attempt's result under
an approval in force for this base and this result; and that deciding leaves the
branch alone.

**WorkerQueue.** Attempts with their status, claiming worker and worktree, the
WorkerRuns in the order of their creation, the background tasks (`jobs`) and HTTP
requests in flight. `Full` is the capacity of one; `Drainable` and `DrainNext`
decide what a drain takes. A job begins (it flushes the start of its run and thereby
takes the lock), executes, fails or ends, and then drains the queue once, in a
second transaction; `JobLost` is a task that finds the database locked for too
long and ends without its drain, or without having begun. `left` is the time a running run still has before it counts as
stale: the rest of its lease or, without one, of the configured timeout;
`Heartbeat` renews it, `RecoverStaleRuns` (tool, among the runs of the workers and
adapters it is asked for) and `SchedulerTick` (all runs) end what has none. How a process ends is a choice of `ProcessResults`, how an adapter concludes
one of `AgyOutcomes`. `Crash` ends every background task and request.
Simplifications: the SELECTs of a job and its first flush are one step, as are
claim and release, whose races are in `WorkClaims`; the Task's status is left out.
What the code does and the model therefore shows: `worker.run_task_attempt` takes
a run in any status, so a running one is handed off twice; a queued run of the
worker of kind "manual" stays at the head of that worker's queue, since no
drain executes it; an AGY run that succeeds without changes leaves its attempt in
`running_worker`; a drain that runs a mock run ends the chain of drains; creating
a worktree for a queued attempt through the endpoint sets `running_worker`, and
the queue then skips its run; `assert_no_active_external_cli_worker_run` never
finds a run of those endpoints, which commit terminal runs only.

**WorkerSlot** has one slot: it is taken when free, by one run, and freed, and
under weak fairness it is freed. `WorkerQueue` implements it with
`holders <- Running("system")`: no step frees the slot and takes it at once, and no
run holds it for ever.

**AgentRunLoop.** One AgentRun, its steps, the ledger of committed `ToolCall`s and
committed effects, the session log of the provider (a file, hence never rolled
back) and one background task per start. `Load`, `ProviderAnswers`,
`ProviderFails`, `ProviderRaises`, `AssistantMessage`, `ToolRequest`, `ToolRuns` and
`Ends` are the phases of `run_owner_provider_background` and of the providers;
`RollBack` returns to the last commit and marks the run failed. The endpoints
`start`, `status` and `steps` read and write as two steps each; `status` accepts
any status. As the code stands, cancelling a run does not stop its background
task, and a cancelled run may be started again while its first task goes on.
`Stop` is a stop of the server, which ends every task. `TaskLost` is a task that ends
alone while the server goes on: the load of the run is outside the `try` of
`run_owner_provider_background`, and the commit that would record its failure may
itself find the database locked (an AGY task holds the lock for up to 300 s, others
give up after 5). `lost` keeps the tasks that ended so, and `adrift` that, since a
request last started the run or set its status to another, a task was lost or the
request set `running_model` or `executing_tool` by hand. `SetCallStatus` is
`POST /tool-calls/{id}/status`, which may give any committed `ToolCall` any status.

**PairingSessions.** Codes issued by the command line, pairing, the check that
every request passes first, logout and the revocations, and a clock. `PairClaim`
is the conditional UPDATE, which takes the write lock; its thread is `writer` until
`PairCommit` or `PairAborts`. `AuthenticateRead` checks session and device,
`AuthenticateWrite` moves `idle_expires_at` without looking at the revocation
again. `PairingCode.revoked_at` is never written by the code and is left out;
hashes of tokens and cookies are data.

A definition whose comment begins with "Variant" is a mistake one could make in
the code it stands beside. `PROJECT.json` names, for every property of a passing
run, the variant that violates it.

## 4. Runs

| Run | Instance | Shows |
|---|---|---|
| `claims_sequential` | 2 workers, 3 attempts, 1 thread, TTL 1, clock to 3, `SequentialBound` | `OneActiveClaimPerWorker`, `FreshClaimOnly`, `ClaimEndsByHolder`, `FollowUpStandsAlone`, `FreeTerminalStays` when requests do not overlap |
| `claims_concurrent` | 2 workers, 1 attempt, 2 threads, TTL 1, clock to 2, `ConcurrentBound` | `TypeOK`, `LeaseBounded`, `ClaimIffLeased`, `ProtectedStatusHasResult`, `LeaseHonoured`, `ImplementsContract` under every interleaving of two requests |
| `merge_sequential` | 2 attempts, 1 thread, 3 commits, 3 results, 2 approvals | `TypeOK`, `RecordedMergeStays`, `OnlyApprovedLands`, `DecisionsAgree`, `LandsOnce`, `ImplementsMergeGate` with failures at every step, plain decisions and WorkerRuns that touch attempts under review, and a user who edits, commits and discards between requests |
| `queue_faults` | 2 attempts of 2 Tasks, 2 runs, 2 background tasks, 1 thread, 5 requests, stale timeout 2, lease 1 | `TypeOK`, `OneRunningPerWorker`, `ImplementsWorkerSlot`, `RunningEnds` with failing, late and lost tasks and crashes |
| `agent_loop` | 2 threads, 2 starts, 2 events, 1 other request (statuses `cancelled`, `failed`, `running_model`, `executing_tool`), faults, a structured and a fake provider | `TypeOK`, `EffectsRecorded`, `OneOutcomePerCall`, `RunIsAttended`, `StartedRunEnds` |
| `pairing` | 2 threads, 2 codes, code TTL 1, idle TTL 2, absolute TTL 3, clock to 5 | `TypeOK`, `UsedCodeHasOneSession`, `SessionWithinCode`, `OneLocalUser`, `RevokedDeviceHasNoSession`, `RevokedSessionStays`, `SessionsEnd` |
| `claims_terminal` | 1 worker, 1 attempt, 1 thread | violates `TerminalAttemptStays` |
| `claims_release_race` | 2 workers, 1 attempt, 2 threads | violates `ClaimEndsByHolder` |
| `merge_double_squash` | 1 attempt, 2 threads | violates `BranchOnlyGrows` |
| `merge_two_squashes` | 2 attempts, 2 threads | violates `LandsOnApprovedBase` |
| `queue_rerun` | as `queue_faults`, both attempts of 1 Task, 4 requests | violates `FinishedRunsStay` |
| `agent_steps` | 1 thread, 1 start, 2 events, no faults | violates `LoggedResultsAreRecorded` |

Bounds. With TTL 1 a lease granted at 1 is over at 2, so a clock to 2 has a claim,
its expiry and a reclaim; `claims_sequential` goes to 3 for a second reclaim, and
its third attempt is a
follow-up's follow-up. Both runs have a CONSTRAINT, defined in `MCWorkClaims`, that
keeps WorkerRuns small: in `claims_sequential` one attempt of two has a worktree or
WorkerRuns, of one kind, until time 2 and while no worker is revoked
(`SequentialBound`); in `claims_concurrent` WorkerRuns occur while no worker is
revoked and the owner's assignment before there is a worktree (`ConcurrentBound`).
Three attempts, revocation and the later clock are explored without WorkerRuns. The
proofs have no such bound. A request that reads at 1 and writes at 2 is late by a whole lease. Two
threads are enough for every check-then-write race of two requests, and each run
lists in `Operations` the kinds that can meet. `AttemptTargets` and `TaskTargets`
are the targets that matter: one that ends an attempt and one that makes it
claimable again, and the two protected Task statuses. In `agent_loop` `StatusTargets`
are two statuses that end a run and the two that say it is under way. In `merge_sequential` three
commits are the initial one and two more (two squashes, or one and one of the
user), three results let one attempt commit again after an approval, and two
approvals let one go stale.

In `queue_faults` two runs are the least that compete for the slot, two background
tasks the least that can be for the same run, and five requests are two starts,
two executions and one more call, crash or endpoint; the stale timeout is longer
than a lease, as it is in the code by default (one hour and five minutes). In `agent_loop` two starts are
a run that is started while an earlier task goes on, and two events are the least
with a second step. In `pairing` two codes make two devices with a session each,
and the clock passes the absolute end of the first session.

Clocks, histories and counters stop at their bounds while other actions go on. The
`claims_*` and `merge_*` runs check for deadlock and have none. The `queue_*`,
`agent_*` and `pairing` runs say `CHECK_DEADLOCK FALSE`: once the bounded requests
are used up and all background work has ended there is nothing left to do, which
is also how the server rests.

What the violations show.
* `claims_terminal`: worker claims, commits, the squash merges, the worker commits
  again: `apply_worktree_result` looks at the claim, which a merge does not end, and
  sets the merged attempt back to `committed` and its completed Task to
  `waiting_for_review`.
* `claims_release_race`: `release` checks the holder, the lease expires, another
  worker reclaims, the release writes and the new holder is gone.
* `merge_double_squash`: two squash requests of one attempt pass the checks; one
  commits; the other finds nothing to commit and resets the branch to its base.
  The database says merged, the branch does not have the commit.
* `merge_two_squashes`: two attempts with the same base pass the checks; the second
  commit lands on the first and not on its approved base.
* `queue_rerun`: a WorkerRun that has ended is given to `worker.run_task_attempt`
  and is queued, running or ended once more. The transition map of WorkerRuns,
  which gives ended runs no successor, is consulted by no writer.
* `agent_steps`: `(max or -1) + 1` takes the existing index 0 for none, so an answer
  with two events makes two steps with index 0. The second insert fails, and the
  rollback takes the `ToolCall` and the writes of the first tool request along,
  although the provider's session log says the tool had succeeded.

Fairness. The requests are external and may never come: none is fair. What is
assumed is what the server does by itself.
* `WorkerQueue`: `WF(Tick)`, time passes; `WF(SchedulerTick)`, the stale-run
  scheduler is enabled and its asyncio task goes on (it is disabled by default,
  `config.py:31`: `RunningEnds` is a promise of a server that has it);
  `WF(JobStep(j))`, a background task that can go on does, because the process it
  waits for has a timeout. Losing a task (`JobLost`) and a crash stay possible at
  any time.
* `AgentRunLoop`: `WF(Execute(e))`, likewise. A task may still be lost, and the server
  stop, at any time. After that, or after a request has set `running_model` by hand,
  the run may stay under way for good, since `start` refuses it; `StartedRunEnds` is
  therefore `run \in UnderWay ~> run \notin UnderWay \/ adrift`. A run that is started
  again is no longer adrift: the property speaks about it again.
* `PairingSessions`: `WF(Tick)` only; `SessionsEnd` needs nobody to log out.
* `WorkClaims` and `SquashMerge` have safety properties only and assume none.

## 5. Proofs

Every safety invariant and action property of the passing runs is also a theorem, with
the conditions that the table below names,
for every value of the constants that the assumptions named in the modules allow
(positive time to live, bounds that are numbers, a `NoWorker` that is no worker, a
user's change that is no attempt's, targets that are statuses).

The properties that `claims_sequential` and `merge_sequential` check with one thread
are false of overlapping requests, as the violation runs show. Their theorems do not
assume one thread but say which requests must not overlap, for any number of others.
Each condition is a formula on requests in flight, and stands for a lock that the
code does not take:

| Condition | Says |
|---|---|
| `WorkersWait` | no worker has two heartbeats or claims in flight |
| `StartableUnleased` | the owner's start tool finds no leased attempt that it could start: implied by `[]AttemptsTakeTurns` (`StartsTakeOverNoLease`) |
| `AttemptsTakeTurns` | no two requests about one attempt are in flight |
| `SquashesTakeTurns` | no two squashes are in flight |
| `DecisionsTakeTurns` | of the requests that load an attempt's rows to store some (the review's approve and reject, commit-result, squash), no two about one attempt are in flight |
| `RefusalsWait` | no squash of an attempt is refused while another squash of it is in flight |

A server that handles one request at a time meets them all, which gives the theorems
named `...Alone`, those about the very properties the two runs check. With
`Thread = {t1, t2}` in the configuration of either run TLC finds each of its properties
but `TypeOK` and `OnlyApprovedLands` violated. `LandsOnApprovedBase` and
`BranchOnlyGrows`, which `merge_two_squashes` and `merge_double_squash` refute, need a
lock around squash and, beyond a user who waits, nothing else.

| Module | Theorem | Statement |
|---|---|---|
| `WorkClaimsProofs` | `TypeCorrect` | `Spec => []TypeOK` |
| | `LeasesAreBounded` | `Spec => []LeaseBounded` |
| | `ClaimsAreLeased` | `Spec => []ClaimIffLeased` |
| | `LeasesAreHonoured` | `Spec => LeaseHonoured` |
| | `ContractImplemented` | `Spec => ImplementsContract` |
| | `ProtectedStatusesHaveResults` | `Spec => []ProtectedStatusHasResult` |
| `OneRequestProofs` | `StartsTakeOverNoLease` | `Spec /\ []AttemptsTakeTurns => []StartableUnleased` |
| | `OneClaimWhileWorkersWait` | `Spec /\ []WorkersWait /\ []StartableUnleased => []OneActiveClaimPerWorker` |
| | `FreshClaimsInTurn` | `Spec /\ []AttemptsTakeTurns => FreshClaimOnly` |
| | `ClaimsEndByHolderInTurn` | `Spec /\ []AttemptsTakeTurns => ClaimEndsByHolder` |
| | `FreeTerminalsStayInTurn` | `Spec /\ []AttemptsTakeTurns => FreeTerminalStays` |
| | `OneClaimAlone` | one thread: `Spec => []OneActiveClaimPerWorker` |
| | `FreshClaimsAlone` | one thread: `Spec => FreshClaimOnly` |
| | `ClaimsEndByHolderAlone` | one thread: `Spec => ClaimEndsByHolder` |
| | `FollowUpsAlone` | one thread: `Spec => FollowUpStandsAlone` |
| | `FreeTerminalsStayAlone` | one thread: `Spec => FreeTerminalStays` |
| `SquashMergeProofs` | `TypeCorrect` | `Spec => []TypeOK` |
| | `OnlyApprovedResultsLand` | `Spec => []OnlyApprovedLands`, any number of threads |
| `OneMergeProofs` | `AttemptsLandOnce` | one thread, the user may overlap: `Spec => []LandsOnce` |
| `SquashTurnsProofs` | `LandsOnApprovedBaseInTurn` | no overlap with the user: `Spec /\ []SquashesTakeTurns => LandsOnApprovedBase` |
| | `BranchGrowsInTurn` | the same: `... => BranchOnlyGrows` |
| | `RecordedMergesStayInTurn` | the same: `... => []RecordedMergeStays` |
| | `AttemptsLandOnceInTurn` | the same: `... => []LandsOnce` |
| | `DecisionsAgreeInTurn` | the user may overlap: `Spec /\ []DecisionsTakeTurns => []DecisionsAgree` |
| | `MergeGateInTurn` | no overlap with the user: `Spec /\ []SquashesTakeTurns /\ []DecisionsTakeTurns /\ RefusalsWait => ImplementsMergeGate` |
| | `MergeGateImplemented` | one thread, no overlap with the user: `Spec => ImplementsMergeGate` |
| | `RecordedMergesStayAlone` | the same: `Spec => []RecordedMergeStays` |
| | `LandsOnApprovedBaseAlone` | the same: `Spec => LandsOnApprovedBase` |
| | `BranchGrowsAlone` | the same: `Spec => BranchOnlyGrows` |
| | `DecisionsAgreeAlone` | one thread, the user may overlap: `Spec => []DecisionsAgree` |
| `WorkerQueueProofs` | `TypeCorrect` | `Spec => []TypeOK` |
| | `OneRunning` | `Spec => []OneRunningPerWorker` |
| | `SlotImplemented` | `Spec => SlotSafety`, the safety part of `ImplementsWorkerSlot` |
| | `RunsGrowOld` | `Spec => RunsAge`: only a heartbeat and a rerun, each a request that is spent, give a running run more time, a tick takes from it, the scheduler fails a run that has none |
| `AgentRunProofs` | `TypeCorrect` | `Spec => []TypeOK` |
| | `EffectsAreRecorded` | `Spec => []EffectsRecorded` |
| | `OneStepOnly` | no run ever has a step with an index other than 0 |
| | `CallsHaveOneOutcome` | `Spec => OneOutcomePerCall`, an action property |
| | `OneTransaction` | of all background tasks one at most has a transaction open |
| | `TasksAdvance` | every step of a background task makes `Left` smaller: it has at most `2 * MaxEvents + 5` steps |
| | `StartedRunIsAttended` | `Spec => []RunIsAttended` |
| `PairingProofs` | `TypeCorrect` | `Spec => []TypeOK` |
| | `UserIsOne` | `Spec => []OneLocalUser` |
| | `RevokedDeviceIsOut` | `Spec => []RevokedDeviceHasNoSession` |
| | `CodesAreUsedOnce` | `Spec => []UsedCodeHasOneSession` |
| | `RevocationIsFinal` | `Spec => RevokedSessionStays` |
| | `SessionsOutlastNoCode` | `Spec => []SessionWithinCode` |
| | `ExpiredForGood` | a session whose absolute end has come is never usable again |
| | `TimeEndsSessions` | `Spec /\ <>(clock = MaxTime) => SessionsEnd` |

*Leases.* `LeaseBounded` and `ClaimIffLeased` are not inductive alone: a request
might have read a time that is still to come, and a heartbeat might renew the
lease of a free attempt. `LeaseInv` adds `TypeOK`, `TimeRead` (the time a
request has read is past or present) and `LeaseRead` (a release that has found no
lease to clear is of an assigned attempt); a heartbeat then renews only leases that
end after a time not before 1, hence none of a free attempt, whose lease is 0.
Every step but those of heartbeat, claim, release, the owner's assignment and the
clock is `Quiet`: it leaves claims, leases and the clock alone and only ends requests
or begins one that carries no time or the present one. `LeaseHonoured` follows because
the WHERE clause of claim compares the lease with a time that is not in the future;
the refinement of `LeaseContract` follows by the same split, each action mapped to the
one it is named after. The owner's start tool is an exception of all three: it claims
an attempt without a lease, after which other workers are refused until the holder
releases it, and it looks at no lease, so it may take an attempt that a worker has
claimed while the call was on its way. `ClaimIffLeased` is therefore about the attempts that
are not in `assigned`, `LeaseHonoured` about every step but that one, and
`LeaseContract` has `Assign`.

*Results.* `ProtectedStatusHasResult` is false of a state in which some request
has read, say, a committed attempt with no result. `ResultInv` adds
`PendingBacked`: whatever a request in flight is about to write is backed by a
result already there. It is inductive because a result commit is never taken
back, so what was true when the request read is true when it writes. That the
generic endpoints cannot enter the protected statuses is a fact about two tables
(`PublicTables`).

*Requests in turn.* That a worker has one claim at most depends on its own requests,
and on the owner's start tool giving it no attempt whose lease runs. `WaitingInv`
adds to `LeaseInv` and the property itself what a request in flight has checked of
its worker's leases that end after the time it read: a heartbeat, that they are one
at most; a claim, that none is of another attempt. Other workers' requests give it
none (`OthersKeep`), and its own next one waits. The tool takes only attempts in
`created` or `queued_worker` without an active run, and `StartsTakeOverNoLease` shows
that an attempt which was leased is past them, or has an active run, if requests
about it take turns (`Begun`). The other properties are about what a request has read
of its attempt: `TurnsInv` is `TypeOK` and `AttemptChecked`, what was checked of the
attempt is still true. A read establishes it, time and the requests about other
attempts keep it (`AttemptKeeps`), and the properties are read off the writes.
`FreeTerminalStays` is about attempts without a holder and without a WorkerRun, since
either may reopen an ended one: `claims_terminal` shows it for a claim, and
`worker.run_task_attempt` and the end of a run write the status whatever it is. For a
follow-up the check speaks of all attempts of the Task, so `FollowUpsAlone` needs one
thread: with two, an attempt created between the follow-up's two queries raises its
number, nothing collides, and the follow-up is a second line of work, which the
comment at `attempt_retry_policy.py:19` rules out. TLC finds that behaviour with two
threads in the configuration of `claims_sequential`.

*Merges.* `OnlyApprovedLands` needs that bases, squashes in flight and what is
staged were approved as well (`LandInv`), and that approvals are only added and
never change their result (`ApprovalsKept`). It holds for any number of threads,
also while the reset of a failing squash removes somebody else's commit.

*Squashes in turn.* `SquashTurnsInv` says that a squash finds the branch at the base
of its worktree until it commits and has its own commit last after that (`AtBase`).
Nothing else moves the branch (`BranchRests`): the other git commands belong to
squashes, and the user waits. Rows do change under it, so the result it has loaded
need not be the latest, only one there is: no request takes back a result, whatever
it has loaded (`ResultsStay`). `DecidedInv` says for the requests that decide on
an attempt that what they loaded still stands (`Standing`), but for the worktree's
status, which inspecting and cleaning up change at any time; so the columns that differ
are the ones the handler means, which `Store` writes. A plain
decision or a WorkerRun writes the attempt's status only, of which the property says
no more than that `merged` has its commit; that is why neither has to take turns. What
it demands of the approvals, that none is in force while the review is rejected or
was never made, is kept by the review's own requests. That a merged attempt has its
commit recorded needs no more of the branch than that it is never empty (`Rooted`).
`PermitInv` puts both together with the approval that a squash goes by: looking at
it leaves it alone as long as branch and result are the ones it was given for, and
a refused squash with another commit message would make it stale.

*Once.* Nothing in the rows keeps an attempt from landing twice: a squash that
stopped after `git commit` is not recorded, and the attempt is still `committed`. What
does is the comparison of HEAD with the base of the worktree, and `OnceInv` says why
that is enough: every base is a prefix of the branch; an attempt's work on the
branch came after the attempt's base, so the branch is no longer that base; what is
staged has not landed; and every other base is a prefix of the base that a squash
under way may reset the branch to. It does not need `~Overlap`: what the user
commits meanwhile only takes the branch further away from the bases. Squashes that
take turns satisfy `OnceInv` too while the user waits (`TurnsAreAhead`).

*Queue.* `TypeOK` and `OneRunningPerWorker` are inductive together. The argument is
one lemma per action: a step adds a running run of the system worker only if there
is no other one, and then frees none (`SlotStep`). `SlotImplemented` follows from
the same lemmas. It is the capacity check under the write lock that does it, and
not the status of the run that is run again. `RunsGrowOld` goes through the actions
once more, for a run that is running: a drain takes queued runs only, a job and an
endpoint end the run or leave it alone, so what is left of the requests and then of
the time decreases lexicographically, and `Stale` is true when nothing is left.
What TLC adds in `RunningEnds` is that the scheduler and time do go on.

*Agent runs.* The ledger's part of the invariant says that committed effects have
their call and that what a task holds uncommitted has its own. `StepsOK` is the
observation that makes the numbering's defect exact: no step but one with index 0
ever exists, because the next index is always computed as 0. `Left` measures what a
task has yet to do from its phase and the length of its event list; nobody else's
step changes a task. `OneTransaction` holds because a tool runs only when no other
task is `Locked`. `OneOutcomePerCall` says of every step but a status request
for a ToolCall that what it adds to ledger or log is all that is told of the call. It
needs `ToldInv`: what the session log or the ledger says of a call of execution `e` is of a tool request that `e` has passed, and what
`e` still holds uncommitted agrees with it; only `e` tells of its own calls
(`TellsOnlyOf`). `RunIsAttended` is not inductive, since a task that has loaded a run
already ended writes no end. `AttendedInv` says that some task will (`WritesEnd`: it has yet to
load, or what it has loaded is not final, or it holds a write that is not committed). It is
conditional on `~adrift`: a task that is lost writes no end, and a status that is set
by hand has no task. There is no condition on `StatusTargets`, and a start ends the
exception because its own task has yet to load.

*Pairing.* `IInv` adds to the types that rows refer to rows (`RowsOK`), that what a
thread has read is still of use (`ReadOK(t)`; for a revocation: all sessions of the
device that are not revoked are in its list) and that the writer is the only thread
past its claim (`OneWriter`). `CodesInv` adds for every code that it has no session
before it is used and one after its pairing has committed. `LifeInv` adds that a
pairing in flight has read a time before the end of its code and that the rows it
refers to stand (`RowsStand`): sessions take their end from that time and never
move it. That no use of a session moves its absolute end gives `ExpiredForGood`. In
`TimeEndsSessions` the last tick stands for time passing without end: the model lets
a pairing begin only when its session can end by then.

Only model-checked: liveness (`RunningEnds`, the fairness of `ImplementsWorkerSlot`,
`StartedRunEnds`, `SessionsEnd`). Liveness under fairness and ENABLED are out of the
prover's reach. What is proved of them is the part that is safety: the measures that
decrease (`RunsGrowOld`, `TasksAdvance`), that somebody is there to write the end
(`StartedRunIsAttended`), and, for sessions, everything but that time passes
(`TimeEndsSessions`, which assumes it).

## 6. Not modelled, and why

* Write scope (`write_scope.py`): a pure function on strings (patterns, renames,
  path normalisation). Its verdict is a choice in `WorkClaims` and `WorkerQueue`.
* Projects and repositories (`projects.py`): rows are created, renamed and archived
  by requests that share no state with the work on a Task. Git is modelled by its
  effects.
* Creation of Tasks and the work room: rows are inserted after checks on other
  rows, and nothing reads the messages back. A Task begins as draft, an attempt as
  created.
* `POST /tool-calls` records an envelope that no service executes; `policy.py` and
  `action_policy.py` decide from constants. The status endpoint of tool calls is
  modelled (`SetCallStatus`): it takes any ToolCall, those of the owner tools included.
* `process_runs.py` starts the user's own processes, outside the worker queue.
* Conversations and messages are created, renamed and archived without a rule that
  involves a run.
* The GitWorktree, WorkerRun and Worker transition maps of `state_transitions.py`
  have no caller outside the tests, which is what `queue_rerun` shows for one of
  them; there is no step to model.
* Crashes between a git commit in the worktree and the database commit, and two
  overlapping creations of a worktree, are listed as hazards with the reason why no
  property covers them.
* Read-only views, configuration, audit, redaction, artifact storage, migrations,
  the web UI and the TypeScript packages: they keep no state that a rule depends
  on, or only append.

`components` in `PROJECT.json` gives each part's status, and `hazards` what is hard to
test, at its line, with the properties that cover it.
