----------------------------- MODULE WorkerQueue -----------------------------
(***************************************************************************)
(* The queue of WorkerRuns: the owner tools that start, run, drain and     *)
(* recover runs (owner_tools.py), the background task that executes a run  *)
(* with the Antigravity CLI and then drains the queue                      *)
(* (worker_execution.py, adapters/antigravity_cli.py), stale-run recovery  *)
(* (worker_liveness.py and its scheduler) and the HTTP endpoints that      *)
(* create or end a run without the queue (the manual and mock workers, the *)
(* dry run, the experimental run, fail and cancel).                        *)
(*                                                                         *)
(* An owner tool call, an automatic drain and a tick of the scheduler each *)
(* insert a ToolCall row before they read: they hold SQLite's write lock   *)
(* from then to their commit and are one step.  The background task holds  *)
(* the lock from its first flush to its commit, for as long as the         *)
(* external process runs: what it wrote at its start is seen by nobody.    *)
(* An HTTP request is two steps: it reads, then it writes and commits.     *)
(*                                                                         *)
(* Time is what is left to a running run before it counts as stale: the    *)
(* rest of its lease or, for a run that has none, of the configured        *)
(* timeout.                                                                *)
(*                                                                         *)
(* A definition introduced by "Variant" is a mistake one could make in the *)
(* code it stands before; no specification uses it.                        *)
(***************************************************************************)
EXTENDS Naturals, TransitionTables

CONSTANTS Task,           \* identities of the Tasks
          TaskOf,         \* TaskOf[n]: the Task for which attempt n is created
          MaxJobs,        \* bound: background tasks of the server at a time
          Thread,         \* threads of the server's pool: HTTP requests in flight
          StaleTimeout,   \* worker_run_stale_timeout_seconds, in clock ticks
          LeaseTTL,       \* LEASE_TTL of a heartbeat, in clock ticks
          Endpoints,      \* bound: the HTTP endpoints in use
          Adapters,       \* bound: the values asked for worker_adapter
          MaxAttempts,    \* bound: attempts that are created
          MaxRuns,        \* bound: WorkerRuns that are created
          MaxRequests     \* bound: tool calls, HTTP requests and crashes

ASSUME TimeAssumption == StaleTimeout \in Nat \ {0} /\ LeaseTTL \in 1 .. StaleTimeout
ASSUME BoundAssumption == MaxAttempts \in Nat \ {0} /\ MaxRuns \in Nat /\ MaxJobs \in Nat
                             /\ MaxRequests \in Nat
ASSUME AdapterAssumption == Adapters \subseteq {"mock", "agy", "manual"}
ASSUME TaskAssumption == TaskOf \in [1 .. MaxAttempts -> Task]

VARIABLES attempts,       \* attempts[n]: status, claiming worker and worktree
          runs,           \* runs[i]: the WorkerRuns, in the order of their creation
          jobs,           \* jobs[j]: what a background task does, and for which run
          request,        \* request[t]: what thread t has read and not yet written
          budget          \* requests that may still be made

vars == <<attempts, runs, jobs, request, budget>>

-----------------------------------------------------------------------------
(* Types *)

Attempt == 1 .. MaxAttempts
Run == 1 .. MaxRuns
Job == 1 .. MaxJobs

\* The worker that the owner tools use for the adapters "mock" and "agy", and
\* the one of kind "manual".
WorkerOf(adapter) == IF adapter = "manual" THEN "manual" ELSE "system"

RunStatus == {"absent", "queued", "running", "succeeded", "failed", "cancelled"}
QueueAdapters == {"mock", "agy"}
ExternalAdapters == {"antigravity_cli", "external_cli_dry_run"}
AdapterKinds == QueueAdapters \union ExternalAdapters \union {"manual"}
StartableStatuses == {"created", "queued_worker"}
RecoverableStatuses == {"created", "queued_worker", "preparing_worktree",
                        "running_worker", "waiting_for_commit", "retry_requested"}

StoredStatus == AttemptStatus \union {"absent"}
AttemptRecord == [status : StoredStatus,
                  claimedBy : {"none", "system", "manual"},
                  worktree : {"none", "open", "failed", "committed"}]

RunRecord == [status : RunStatus, attempt : Attempt,
              adapter : AdapterKinds,
              worker : {"system", "manual"}, leased : BOOLEAN, left : 0 .. StaleTimeout]

IdleJob == [step |-> "idle"]
JobRecord == [step : {"begin", "execute", "drain"}, run : Run]

IdleThread == [op |-> "idle"]
RunRequest == [op : {"fail", "cancel"}, run : Run, seen : StoredStatus]
AttemptRequest == [op : {"worktree", "manual_worktree", "manual_start", "mock", "dry_run",
                         "antigravity"},
                   attempt : Attempt, worker : {"system", "manual"}, seen : StoredStatus]
SubmitRequest == [op : {"manual_submit"}, run : Run, attempt : Attempt, seen : StoredStatus]

TypeOK == /\ attempts \in [Attempt -> AttemptRecord]
          /\ runs \in [Run -> RunRecord]
          /\ jobs \in [Job -> {IdleJob} \union JobRecord]
          /\ request \in [Thread -> {IdleThread} \union RunRequest \union AttemptRequest
                                      \union SubmitRequest]
          /\ budget \in 0 .. MaxRequests

Init == /\ attempts = [n \in Attempt |-> [status |-> "absent", claimedBy |-> "none",
                                            worktree |-> "none"]]
        /\ runs = [i \in Run |-> [status |-> "absent", attempt |-> 1, adapter |-> "mock",
                                  worker |-> "system", leased |-> FALSE, left |-> 0]]
        /\ jobs = [j \in Job |-> IdleJob]
        /\ request = [t \in Thread |-> IdleThread]
        /\ budget = MaxRequests

-----------------------------------------------------------------------------
(* Rows and locks *)

Locked == \E j \in Job : jobs[j].step = "execute"

Spend == budget > 0 /\ budget' = budget - 1

\* The row that the next insertion fills.
NextRow(rows, n) == /\ rows[n].status = "absent"
                    /\ \A m \in 1 .. n - 1 : rows[m].status # "absent"

Running(w) == {i \in Run : runs[i].worker = w /\ runs[i].status = "running"}
ActiveRuns(n) == {i \in Run : runs[i].attempt = n /\ runs[i].status \in {"queued", "running"}}

\* The slot that the next background task takes.
FreeJob(j) == jobs[j] = IdleJob /\ \A k \in 1 .. j - 1 : jobs[k] # IdleJob

Ended(i, s) == [runs[i] EXCEPT !.status = s, !.leased = FALSE, !.left = 0]

\* The ORM writes an attribute only when it differs from what was loaded.
Flush(stored, loaded, new) == IF new = loaded THEN stored ELSE new

-----------------------------------------------------------------------------
(* Owner tools: start, run, drain *)

CreateAttempt(n) == /\ NextRow(attempts, n) /\ Spend /\ ~Locked
                    /\ attempts' = [attempts EXCEPT ![n].status = "created"]
                    /\ UNCHANGED <<runs, jobs, request>>

\* worker.start_task_attempt, for a new attempt or for one that exists.
StartTaskAttempt(n, adapter) ==
  /\ Spend /\ ~Locked
  /\ NextRow(attempts, n) \/ attempts[n].status \in StartableStatuses
  /\ ActiveRuns(n) = {}
  /\ attempts' = [attempts EXCEPT ![n].status = "queued_worker",
                                  ![n].claimedBy = WorkerOf(adapter)]
  /\ \E i \in Run :
       /\ NextRow(runs, i)
       /\ runs' = [runs EXCEPT ![i] = [status |-> "queued", attempt |-> n, adapter |-> adapter,
                                       worker |-> WorkerOf(adapter), leased |-> FALSE, left |-> 0]]
  /\ UNCHANGED <<jobs, request>>

\* Variants: the capacity of the worker is not looked at, or only the runs of
\* the same attempt are.
FullNever(i) == FALSE
FullOfAttempt(i) == \E k \in Running(runs[i].worker) \ {i} : runs[k].attempt = runs[i].attempt

\* Another run of the worker is running.
Full(i) == Running(runs[i].worker) \ {i} # {}

Requeue(i) == /\ runs' = [runs EXCEPT ![i] = Ended(i, "queued")]
              /\ attempts' = [attempts EXCEPT ![runs[i].attempt].status = "queued_worker"]

CompleteMock(i) == /\ runs' = [runs EXCEPT ![i] = Ended(i, "succeeded")]
                   /\ attempts' = [attempts EXCEPT ![runs[i].attempt].status = "accepted"]

\* The worktree of the run's attempt, created when there is none yet.
HandOff(i) == /\ attempts[runs[i].attempt].claimedBy # "none"
              /\ runs' = [runs EXCEPT ![i].status = "running",
                                      ![i].leased = TRUE, ![i].left = StaleTimeout]
              /\ attempts' = [attempts EXCEPT
                   ![runs[i].attempt].status = "running_worker",
                   ![runs[i].attempt].worktree = IF @ = "none" THEN "open" ELSE @]

\* git worktree add failed: its row is committed, and the tool call fails.
WorktreeFailed(i) == /\ attempts[runs[i].attempt].claimedBy # "none"
                     /\ attempts[runs[i].attempt].worktree = "none"
                     /\ attempts' = [attempts EXCEPT ![runs[i].attempt].worktree = "failed"]
                     /\ UNCHANGED runs

\* _run_worker_run: job j executes the run when it is handed off, and is idle
\* when not.  The Antigravity CLI may be disabled or the repository dirty.
RunWorkerRun(i, j) ==
  LET nothing == UNCHANGED <<attempts, runs>>
      adapter == runs[i].adapter
  IN  \/ /\ \/ adapter \notin QueueAdapters /\ nothing
            \/ adapter \in QueueAdapters /\ Full(i) /\ Requeue(i)
            \/ adapter = "mock" /\ ~Full(i) /\ CompleteMock(i)
            \/ adapter = "agy" /\ ~Full(i) /\ (nothing \/ WorktreeFailed(i))
         /\ jobs' = [jobs EXCEPT ![j] = IdleJob]
      \/ /\ adapter = "agy" /\ ~Full(i)
         /\ HandOff(i)
         /\ jobs' = [jobs EXCEPT ![j] = [step |-> "begin", run |-> i]]

\* worker.run_task_attempt takes a run in any status.
RunTaskAttempt(i, j) == /\ Spend /\ ~Locked
                        /\ runs[i].status # "absent"
                        /\ FreeJob(j)
                        /\ RunWorkerRun(i, j)
                        /\ UNCHANGED request

\* A queued run may be drained unless its attempt has moved on or another run
\* of the same Task is running; the oldest one is.
Drainable(i) ==
  /\ runs[i].status = "queued"
  /\ attempts[runs[i].attempt].status \in StartableStatuses
  /\ \A k \in Run \ {i} : runs[k].status = "running"
                          => TaskOf[runs[k].attempt] # TaskOf[runs[i].attempt]

DrainNext(w, j) ==
  LET queue == {i \in Run : runs[i].worker = w /\ Drainable(i)}
  IN  \/ /\ Running(w) # {} \/ queue = {}
         /\ jobs' = [jobs EXCEPT ![j] = IdleJob]
         /\ UNCHANGED <<attempts, runs>>
      \/ /\ Running(w) = {}
         /\ \E i \in queue : (\A k \in queue : i <= k) /\ RunWorkerRun(i, j)

DrainQueue(w, j) == /\ Spend /\ ~Locked
                    /\ FreeJob(j)
                    /\ DrainNext(w, j)
                    /\ UNCHANGED request

-----------------------------------------------------------------------------
(* The background task *)

\* run_existing_agy_worker_run up to the start of the process: it looks at
\* neither the status of the run nor that of the attempt.  What it flushes is
\* not committed before the process has ended.
JobBegin(j) == /\ jobs[j].step = "begin" /\ ~Locked
               /\ attempts[runs[jobs[j].run].attempt].worktree # "none"
               /\ jobs' = [jobs EXCEPT ![j].step = "execute"]
               /\ UNCHANGED <<attempts, runs, request, budget>>

\* The CLI is not available, or an exception: _mark_worker_run_failed.
JobFails(j) ==
  LET i == jobs[j].run
  IN  /\ jobs[j].step = "execute" \/ (jobs[j].step = "begin" /\ ~Locked)
      /\ runs' = [runs EXCEPT ![i] = Ended(i, "failed")]
      /\ attempts' = [attempts EXCEPT ![runs[i].attempt].status = "worker_failed"]
      /\ jobs' = [jobs EXCEPT ![j].step = "drain"]
      /\ UNCHANGED <<request, budget>>

\* The ways the subprocess may come back, and what the ProcessRun makes of it.
ProcessResults == {"exit_zero", "exit_nonzero", "timed_out", "exception"}
ProcessStatus(worktree, result) ==
  CASE worktree = "failed"    -> "blocked"
    [] result = "timed_out"   -> "timed_out"
    [] result = "exit_zero"   -> "succeeded"
    [] OTHER                  -> "failed"

\* What a process that succeeded left in the worktree: changes that are
\* committed as the result, no changes, or changes that are refused.
AgyOutcomes(n, process) ==
  IF process # "succeeded" THEN {"failed"}
  ELSE {"unchanged", "failed"} \union (IF attempts[n].claimedBy = "none" THEN {} ELSE {"committed"})

\* The row of an attempt whose status was loaded as seen.
Concluded(n, outcome, seen) ==
  [attempts EXCEPT
    ![n].status = CASE outcome = "committed" -> Flush(@, seen, "committed")
                    [] outcome = "failed"    -> Flush(@, seen, "worker_failed")
                    [] OTHER                 -> @,
    ![n].worktree = IF outcome = "committed" THEN "committed" ELSE @]

RunStatusAfter(outcome) == IF outcome = "failed" THEN "failed" ELSE "succeeded"

JobEnd(j) ==
  LET i == jobs[j].run
      n == runs[i].attempt
  IN  /\ jobs[j].step = "execute"
      /\ \E result \in ProcessResults :
           \E outcome \in AgyOutcomes(n, ProcessStatus(attempts[n].worktree, result)) :
             /\ runs' = [runs EXCEPT ![i] = Ended(i, RunStatusAfter(outcome))]
             /\ attempts' = Concluded(n, outcome, attempts[n].status)
      /\ jobs' = [jobs EXCEPT ![j].step = "drain"]
      /\ UNCHANGED <<request, budget>>

\* _auto_drain_next_worker_run; a run with the mock adapter ends the task.
AutoDrain(j) == /\ jobs[j].step = "drain" /\ ~Locked
                /\ DrainNext(runs[jobs[j].run].worker, j)
                /\ UNCHANGED <<request, budget>>

\* The database stays locked for longer than SQLite waits: the exception
\* ends the task, and the run stays as it is.
JobLost(j) == /\ jobs[j].step \in {"begin", "drain"} /\ Locked
              /\ jobs' = [jobs EXCEPT ![j] = IdleJob]
              /\ UNCHANGED <<attempts, runs, request, budget>>

-----------------------------------------------------------------------------
(* Liveness of the runs *)

Tick == /\ \E i \in Run : runs[i].status = "running" /\ runs[i].left > 0
        /\ runs' = [i \in Run |->
                      IF runs[i].status = "running" /\ runs[i].left > 0
                      THEN [runs[i] EXCEPT !.left = @ - 1] ELSE runs[i]]
        /\ UNCHANGED <<attempts, jobs, request, budget>>

\* The heartbeat of a worker renews the lease of its running runs.
Heartbeat(w) == /\ Spend /\ ~Locked
                /\ runs' = [i \in Run |-> IF i \in Running(w)
                                          THEN [runs[i] EXCEPT !.leased = TRUE, !.left = LeaseTTL]
                                          ELSE runs[i]]
                /\ UNCHANGED <<attempts, jobs, request>>

\* Variant: only a run that has no lease can be stale.
StaleUnleased(i, timeout) == /\ runs[i].status = "running"
                             /\ ~runs[i].leased
                             /\ runs[i].left <= StaleTimeout - timeout

Stale(i, timeout) == /\ runs[i].status = "running"
                     /\ runs[i].left <= IF runs[i].leased THEN 0 ELSE StaleTimeout - timeout

\* Variant: a recovered run gets a status of its own.
RecoverMarked(timeout, among) ==
  LET stale == {i \in among : Stale(i, timeout)}
  IN  /\ stale # {}
      /\ runs' = [i \in Run |-> IF i \in stale THEN Ended(i, "stale") ELSE runs[i]]
      /\ UNCHANGED <<attempts, jobs, request>>

Recover(timeout, among) ==
  LET stale == {i \in among : Stale(i, timeout)}
      left == {n \in Attempt : /\ attempts[n].status \in RecoverableStatuses
                               /\ \E i \in stale : runs[i].attempt = n}
  IN  /\ stale # {}
      /\ runs' = [i \in Run |-> IF i \in stale THEN Ended(i, "failed") ELSE runs[i]]
      /\ attempts' = [n \in Attempt |-> IF n \in left
                                        THEN [attempts[n] EXCEPT !.status = "worker_failed"]
                                        ELSE attempts[n]]
      /\ UNCHANGED <<jobs, request>>

\* worker.recover_stale_runs with a timeout of its own, and with a filter for
\* the worker and one for the adapter, or without.
RecoverStaleRuns(timeout) ==
  LET oneOrAll(S) == {S} \union {{x} : x \in S}
  IN  /\ Spend /\ ~Locked
      /\ \E ws \in oneOrAll({"system", "manual"}), ads \in oneOrAll(AdapterKinds) :
           Recover(timeout, {i \in Run : runs[i].worker \in ws /\ runs[i].adapter \in ads})

SchedulerTick == ~Locked /\ Recover(StaleTimeout, Run) /\ UNCHANGED budget

-----------------------------------------------------------------------------
(* HTTP endpoints *)

Begin(t, r) == /\ r.op \in Endpoints /\ Spend
               /\ request[t] = IdleThread
               /\ request' = [request EXCEPT ![t] = r]
               /\ UNCHANGED <<attempts, runs, jobs>>

Finish(t) == /\ request' = [request EXCEPT ![t] = IdleThread]
             /\ UNCHANGED <<jobs, budget>>

\* An error response: a check of the write, a git command, or a locked database.
Refuse(t) == /\ request[t] # IdleThread
             /\ Finish(t)
             /\ UNCHANGED <<attempts, runs>>

ForRun(op, i) == [op |-> op, run |-> i, seen |-> attempts[runs[i].attempt].status]
ForAttempt(op, n) == [op |-> op, attempt |-> n, worker |-> attempts[n].claimedBy,
                      seen |-> attempts[n].status]

InsertRun(n, adapter, w, s) ==
  \E i \in Run :
    /\ NextRow(runs, i)
    /\ runs' = [runs EXCEPT ![i] = [status |-> s, attempt |-> n, adapter |-> adapter, worker |-> w,
                                    leased |-> FALSE,
                                    left |-> IF s = "running" THEN StaleTimeout ELSE 0]]

\* POST /worker-runs/{id}/fail and /cancel
EndRunRead(t, op, i) == /\ runs[i].status = "running"
                        /\ Begin(t, ForRun(op, i))

EndRunWrite(t) ==
  LET r == request[t]
      n == runs[r.run].attempt
      ended == IF r.op = "fail" THEN "failed" ELSE "cancelled"
      left == IF r.op = "fail" THEN "worker_failed" ELSE "cancelled"
  IN  /\ r.op \in {"fail", "cancel"} /\ ~Locked
      /\ runs' = [runs EXCEPT ![r.run] = Ended(r.run, ended)]
      /\ attempts' = [attempts EXCEPT ![n].status = Flush(@, r.seen, left)]
      /\ Finish(t)

\* POST /task-attempts/{id}/worktree
WorktreeRead(t, n) == /\ attempts[n].claimedBy # "none" /\ attempts[n].worktree = "none"
                      /\ Begin(t, ForAttempt("worktree", n))

\* A manual start without a worktree creates one first, in a transaction of
\* its own, and goes on when that succeeds.  A second row breaks a UNIQUE
\* constraint: the request is refused.
WorktreeWrite(t) ==
  LET r == request[t]
      n == r.attempt
  IN  /\ r.op \in {"worktree", "manual_worktree"} /\ ~Locked
      /\ attempts[n].worktree = "none"
      /\ \/ /\ attempts' = [attempts EXCEPT ![n].worktree = "failed"]
            /\ Finish(t)
         \/ /\ attempts' = [attempts EXCEPT ![n].worktree = "open",
                                            ![n].status = Flush(@, r.seen, "running_worker")]
            /\ \/ r.op = "worktree" /\ Finish(t)
               \/ /\ r.op = "manual_worktree"
                  /\ request' = [request EXCEPT ![t].op = "manual_start"]
                  /\ UNCHANGED <<jobs, budget>>
      /\ UNCHANGED runs

\* POST /task-attempts/{id}/manual-worker/start: no other run is looked for.
ManualStartRead(t, n) ==
  /\ attempts[n].claimedBy = "manual"
  /\ \/ /\ attempts[n].worktree = "open"
        /\ Begin(t, ForAttempt("manual_start", n))
     \/ /\ attempts[n].worktree = "none"
        /\ Begin(t, ForAttempt("manual_worktree", n))

\* The worktree is set to in_use, unless it was loaded so.
ManualStartWrite(t) ==
  LET n == request[t].attempt
  IN  /\ request[t].op = "manual_start" /\ ~Locked
      /\ InsertRun(n, "manual", "manual", "running")
      /\ \/ UNCHANGED attempts
         \/ attempts' = [attempts EXCEPT ![n].worktree = "open"]
      /\ Finish(t)

\* POST /task-attempts/{id}/manual-worker/submit ends the newest running run.
ManualSubmitRead(t, n) ==
  LET running == {i \in Running("manual") : runs[i].attempt = n /\ runs[i].adapter = "manual"}
  IN  /\ attempts[n].claimedBy = "manual" /\ attempts[n].worktree = "open"
      /\ \E i \in running : /\ \A k \in running : k <= i
                            /\ Begin(t, [op |-> "manual_submit", run |-> i, attempt |-> n,
                                         seen |-> attempts[n].status])

ManualSubmitWrite(t) ==
  LET r == request[t]
  IN  /\ r.op = "manual_submit" /\ ~Locked
      /\ runs' = [runs EXCEPT ![r.run] = Ended(r.run, "succeeded")]
      /\ attempts' = Concluded(r.attempt, "committed", r.seen)
      /\ Finish(t)

\* POST /task-attempts/{id}/run-mock-worker
MockRead(t, n) == /\ attempts[n].claimedBy = "system" /\ attempts[n].worktree = "open"
                  /\ Begin(t, ForAttempt("mock", n))

MockWrite(t) ==
  LET r == request[t]
  IN  /\ r.op = "mock" /\ ~Locked
      /\ \E outcome \in {"committed", "failed"} :
           /\ InsertRun(r.attempt, "mock", "system", RunStatusAfter(outcome))
           /\ attempts' = Concluded(r.attempt, outcome, r.seen)
      /\ Finish(t)

\* assert_no_active_external_cli_worker_run: the endpoints that call it commit
\* their own run only when it has ended.
NoActiveExternalRun(n) ==
  ~\E i \in Run : /\ runs[i].attempt = n /\ runs[i].status = "running"
                  /\ runs[i].adapter \in ExternalAdapters

\* POST .../external-cli/dry-run: the attempt is left alone.
DryRunRead(t, n) == /\ attempts[n].claimedBy # "none" /\ attempts[n].worktree # "none"
                    /\ NoActiveExternalRun(n)
                    /\ Begin(t, ForAttempt("dry_run", n))

DryRunWrite(t) ==
  LET r == request[t]
  IN  /\ r.op = "dry_run" /\ ~Locked
      /\ \E result \in ProcessResults :
           InsertRun(r.attempt, "external_cli_dry_run", r.worker,
                  IF ProcessStatus(attempts[r.attempt].worktree, result) = "succeeded"
                  THEN "succeeded" ELSE "failed")
      /\ UNCHANGED attempts
      /\ Finish(t)

\* POST .../external-cli/antigravity/run-experimental
AntigravityRead(t, n) == /\ attempts[n].claimedBy # "none"
                         /\ NoActiveExternalRun(n)
                         /\ Begin(t, ForAttempt("antigravity", n))

AntigravityWrite(t) ==
  LET r == request[t]
      n == r.attempt
  IN  /\ r.op = "antigravity" /\ ~Locked
      /\ attempts[n].worktree # "none"
      /\ \E result \in ProcessResults :
           \E outcome \in AgyOutcomes(n, ProcessStatus(attempts[n].worktree, result)) :
             /\ InsertRun(n, "antigravity_cli", r.worker, RunStatusAfter(outcome))
             /\ attempts' = Concluded(n, outcome, r.seen)
      /\ Finish(t)

\* POST /workers/{id}/claim and /release, by the worker of kind "manual".
Claim(n) == /\ Spend /\ ~Locked
            /\ attempts[n].claimedBy = "none"
            /\ attempts[n].status \in {"created", "retry_requested", "worker_failed"}
            /\ attempts' = [attempts EXCEPT ![n].claimedBy = "manual", ![n].status = "running_worker"]
            /\ UNCHANGED <<runs, jobs, request>>

Release(n) == /\ Spend /\ ~Locked
              /\ attempts[n].claimedBy # "none"
              /\ \E s \in {attempts[n].status, "worker_failed", "cancelled", "created", "reviewing"} :
                   attempts' = [attempts EXCEPT ![n].claimedBy = "none", ![n].status = s]
              /\ UNCHANGED <<runs, jobs, request>>

\* The server stops: background tasks and requests are gone.
Crash == /\ Spend
         /\ jobs' = [j \in Job |-> IdleJob]
         /\ request' = [t \in Thread |-> IdleThread]
         /\ UNCHANGED <<attempts, runs>>

-----------------------------------------------------------------------------

OwnerToolCall ==
  \/ \E n \in Attempt : CreateAttempt(n) \/ \E adapter \in Adapters : StartTaskAttempt(n, adapter)
  \/ \E j \in Job : \/ \E i \in Run : RunTaskAttempt(i, j)
                    \/ \E w \in {"system", "manual"} : DrainQueue(w, j)
  \/ \E timeout \in 1 .. StaleTimeout : RecoverStaleRuns(timeout)

JobStep(j) == JobBegin(j) \/ JobFails(j) \/ JobEnd(j) \/ AutoDrain(j)

HttpRead(t) ==
  \/ \E i \in Run : EndRunRead(t, "fail", i) \/ EndRunRead(t, "cancel", i)
  \/ \E n \in Attempt : \/ WorktreeRead(t, n) \/ ManualStartRead(t, n) \/ ManualSubmitRead(t, n)
                        \/ MockRead(t, n) \/ DryRunRead(t, n) \/ AntigravityRead(t, n)

HttpWrite(t) == \/ EndRunWrite(t) \/ WorktreeWrite(t) \/ ManualStartWrite(t)
                \/ ManualSubmitWrite(t) \/ MockWrite(t) \/ DryRunWrite(t) \/ AntigravityWrite(t)
                \/ Refuse(t)

Next == \/ OwnerToolCall
        \/ \E j \in Job : JobStep(j) \/ JobLost(j)
        \/ Tick \/ SchedulerTick
        \/ \E w \in {"system", "manual"} : Heartbeat(w)
        \/ \E t \in Thread : HttpRead(t) \/ HttpWrite(t)
        \/ \E n \in Attempt : Claim(n) \/ Release(n)
        \/ Crash

\* Time passes, the scheduler is enabled and ticks on, a process comes back or
\* is killed at its timeout, and a background task goes on while the server runs.
Fairness == WF_vars(Tick) /\ WF_vars(SchedulerTick) /\ \A j \in Job : WF_vars(JobStep(j))

Spec == Init /\ [][Next]_vars /\ Fairness

-----------------------------------------------------------------------------
(* Properties *)

\* The worker that the owner tools use runs at most one run at a time, also
\* when runs are run again, background tasks are late or lost, and the server
\* crashes (_run_worker_run and drain_next_worker_run, owner_tools.py).
OneRunningPerWorker == \A i, k \in Running("system") : i = k

\* The slot of that worker is taken by one run, is seen free before another
\* run takes it, and is freed in the end: the automatic drain is a transaction
\* after the one that ends a run, and a run whose task is lost is recovered.
Slot == INSTANCE WorkerSlot WITH holders <- Running("system")
ImplementsWorkerSlot == Slot!Spec

\* A run that is running ends, whoever started it and whatever became of its
\* background task or of its worker, unless the worker goes on sending
\* heartbeats (MaxRequests bounds them).
RunningEnds == \A i \in Run : runs[i].status = "running" ~> runs[i].status # "running"

\* The status of a run that has ended does not change: docs/state-transitions.md
\* lets created -> running -> succeeded | failed | cancelled, and nothing else.
FinishedRunsStay ==
  [][\A i \in Run : runs[i].status \in {"succeeded", "failed", "cancelled"}
                     => runs'[i].status = runs[i].status]_vars

=============================================================================
