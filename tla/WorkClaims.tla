----------------------------- MODULE WorkClaims -----------------------------
(***************************************************************************)
(* The worker protocol of work.py (register, heartbeat, revoke, claim,     *)
(* release), the generic status endpoints, the creation of attempts and of *)
(* their worktrees, the commit of a worktree's result, the decisions that  *)
(* are taken about it, and what the owner tools and the WorkerRuns write   *)
(* to an attempt, seen as operations on one Task, its attempts and the     *)
(* workers that claim them.                                                *)
(*                                                                         *)
(* The endpoints are synchronous functions that the server runs in a       *)
(* thread pool.  A SELECT runs outside any transaction; the first write    *)
(* opens one that holds SQLite's write lock until the commit.  A request   *)
(* is therefore two steps of its thread: it reads what it needs and leaves *)
(* early when a check fails (<Op>Read), then it writes and commits         *)
(* atomically what it decided from what it read (<Op>Write).  Other        *)
(* threads, and the clock, move in between.  An owner tool call inserts    *)
(* its ToolCall row first, so it holds the lock when it reads: it is asked *)
(* for (<Op>Call), and then reads, decides and writes in one step.         *)
(*                                                                         *)
(* A definition introduced by "Variant" is a mistake one could make in the *)
(* code it stands before; no specification uses it.                        *)
(***************************************************************************)
EXTENDS Naturals, TransitionTables

CONSTANTS Worker,         \* worker identities
          Attempt,        \* identities of the attempts of the one Task
          Thread,         \* threads of the server's pool: requests in flight
          NoWorker,       \* SQL NULL in claimed_by_worker_id
          LeaseTTL,       \* LEASE_TTL in clock ticks
          MaxClock,       \* bound: the clock stops here
          Operations,     \* bound: the kinds of request that are sent
          AttemptTargets, \* bound: statuses asked of POST /task-attempts/{id}/status
          TaskTargets     \* bound: statuses asked of POST /tasks/{id}/status

ASSUME NoWorkerAssumption == NoWorker \notin Worker
ASSUME LeaseAssumption == LeaseTTL \in Nat \ {0} /\ MaxClock \in Nat
ASSUME TargetsAssumption == AttemptTargets \subseteq AttemptStatus /\ TaskTargets \subseteq TaskStatus

VARIABLES clock,          \* the wall clock, from 1; a lease of 0 is SQL NULL
          task,           \* status of the Task
          status,         \* status[a] of a TaskAttempt, "absent" before its creation
          claimedBy,      \* claimedBy[a]: claimed_by_worker_id
          lease,          \* lease[a]: lease_expires_at
          worktree,       \* worktree[a]: none, failed, without or with a result commit
          toolRun,        \* toolRun[a]: the newest WorkerRun that the owner tools can run
          manualRun,      \* attempts of which a manual WorkerRun is running
          assigned,       \* attempts that worker.start_task_attempt has given to a worker
          worker,         \* worker[w]: status of a Worker, "absent" before registration
          revoked,        \* workers whose revoked_at is set
          request         \* request[t]: what thread t has read and not yet written

claimVars == <<claimedBy, lease>>
workerVars == <<worker, revoked>>
runVars == <<toolRun, manualRun, assigned>>
vars == <<clock, task, status, claimedBy, lease, worktree, toolRun, manualRun, assigned,
          worker, revoked, request>>

-----------------------------------------------------------------------------
(* Types *)

NoLease == 0
ReleaseStatuses == {"worker_failed", "cancelled", "created", "reviewing"}
FreshClaimStatuses == {"created", "retry_requested", "worker_failed"}
ReviewableStatuses == {"committed", "reviewing"}

\* A follow-up starts from a failed or reviewable attempt, and is blocked by any
\* other one that is under way or adopted.
FollowUpSourceStatuses == ReviewableStatuses \union {"rejected", "worker_failed", "failed"}
RetryBlockingStatuses == ReviewableStatuses \union
  {"created", "queued_worker", "preparing_worktree", "running_worker", "waiting_for_commit",
   "accepted", "retry_requested", "merge_ready", "merged"}

WorktreeState == {"none", "open", "failed", "committed"}
RunState == {"none", "queued", "running", "ended"}

\* worker.start_task_attempt takes an attempt that has not run, and the recovery of
\* stale runs gives up one that is under way.
StartableStatuses == {"created", "queued_worker"}
RecoverableStatuses == StartableStatuses \union
  {"preparing_worktree", "running_worker", "waiting_for_commit", "retry_requested"}

Idle == [op |-> "idle"]

HeartbeatRequest == [op : {"heartbeat"}, worker : Worker, now : Nat]
ClaimRequest == [op : {"claim"}, worker : Worker, attempt : Attempt, now : Nat,
                 previous : Worker \union {NoWorker}, seen : [Worker -> WorkerStatus \union {"absent"}]]
ReleaseRequest == [op : {"release"}, worker : Worker, attempt : Attempt,
                   seen : AttemptStatus, seenWorker : WorkerStatus, leased : BOOLEAN]
AttemptRequest == [op : {"update_attempt", "create_worktree", "manual_start", "follow_up_check"},
                   attempt : Attempt, seen : AttemptStatus]
RunRequest == [op : {"end_run"}, attempt : Attempt, run : {"tool", "manual"},
               seen : AttemptStatus]
StartCall == [op : {"start_task_attempt"}, worker : Worker, attempt : Attempt]
RunCall == [op : {"run_task_attempt"}, attempt : Attempt]
TaskRequest == [op : {"update_task"}, seenTask : TaskStatus]
ResultRequest == [op : {"commit_result", "accept", "reject", "review_reject", "squash"},
                  attempt : Attempt, seen : AttemptStatus, seenTask : TaskStatus]
CreateRequest == [op : {"create_attempt"}, known : SUBSET Attempt]
FollowUpRequest == [op : {"follow_up"}, attempt : Attempt, seen : AttemptStatus,
                    known : SUBSET Attempt]

Request == {Idle} \union HeartbeatRequest \union ClaimRequest \union ReleaseRequest
             \union AttemptRequest \union TaskRequest \union ResultRequest
             \union RunRequest \union StartCall \union RunCall
             \union CreateRequest \union FollowUpRequest

TypeOK == /\ clock \in Nat \ {0}
          /\ task \in TaskStatus
          /\ status \in [Attempt -> AttemptStatus \union {"absent"}]
          /\ claimedBy \in [Attempt -> Worker \union {NoWorker}]
          /\ lease \in [Attempt -> Nat]
          /\ worktree \in [Attempt -> WorktreeState]
          /\ toolRun \in [Attempt -> RunState]
          /\ manualRun \subseteq Attempt
          /\ assigned \subseteq Attempt
          /\ worker \in [Worker -> WorkerStatus \union {"absent"}]
          /\ revoked \subseteq Worker
          /\ request \in [Thread -> Request]

Init == /\ clock = 1
        /\ task = "draft"
        /\ status = [a \in Attempt |-> "absent"]
        /\ claimedBy = [a \in Attempt |-> NoWorker]
        /\ lease = [a \in Attempt |-> NoLease]
        /\ worktree = [a \in Attempt |-> "none"]
        /\ toolRun = [a \in Attempt |-> "none"]
        /\ manualRun = {}
        /\ assigned = {}
        /\ worker = [w \in Worker |-> "absent"]
        /\ revoked = {}
        /\ request = [t \in Thread |-> Idle]

-----------------------------------------------------------------------------
(* Requests *)

Exists(a) == status[a] # "absent"
Registered(w) == worker[w] # "absent"
ExpiredAt(a, now) == lease[a] # NoLease /\ lease[a] <= now

Begin(t, r) == /\ r.op \in Operations /\ request[t] = Idle
               /\ request' = [request EXCEPT ![t] = r]
               /\ UNCHANGED <<clock, task, status, claimVars, worktree, runVars, workerVars>>

Finish(t) == request' = [request EXCEPT ![t] = Idle]

\* A request that leaves without writing: an error response or a rollback.
Refuse(t) == /\ Finish(t)
             /\ UNCHANGED <<clock, task, status, claimVars, worktree, runVars, workerVars>>

\* The ORM writes an attribute only when its new value differs from the one
\* that was loaded: otherwise what others stored meanwhile stays.
Flush(stored, loaded, new) == IF new = loaded THEN stored ELSE new

-----------------------------------------------------------------------------
(* Workers *)

RegisterWorker(w) == /\ ~Registered(w)
                     /\ worker' = [worker EXCEPT ![w] = "available"]
                     /\ UNCHANGED <<clock, task, status, claimVars, worktree, runVars, revoked,
                                    request>>

RevokeWorker(w) == /\ Registered(w)
                   /\ worker' = [worker EXCEPT ![w] = "revoked"]
                   /\ revoked' = revoked \union {w}
                   /\ UNCHANGED <<clock, task, status, claimVars, worktree, runVars, request>>

HeartbeatRead(t, w) == /\ Registered(w) /\ w \notin revoked
                       /\ Begin(t, [op |-> "heartbeat", worker |-> w, now |-> clock])

\* Variant: the lease is extended from its old end instead of from now.
HeartbeatWriteAccumulating(t) ==
  LET r == request[t]
  IN  /\ r.op = "heartbeat"
      /\ lease' = [a \in Attempt |-> IF claimedBy[a] = r.worker /\ lease[a] > r.now
                                     THEN lease[a] + LeaseTTL ELSE lease[a]]
      /\ Finish(t)
      /\ UNCHANGED <<clock, task, status, claimedBy, worktree, runVars, workerVars>>

HeartbeatWrite(t) ==
  LET r == request[t]
  IN  /\ r.op = "heartbeat"
      /\ lease' = [a \in Attempt |-> IF claimedBy[a] = r.worker /\ lease[a] > r.now
                                     THEN r.now + LeaseTTL ELSE lease[a]]
      /\ Finish(t)
      /\ UNCHANGED <<clock, task, status, claimedBy, worktree, runVars, workerVars>>

-----------------------------------------------------------------------------
(* Claim and release *)

\* The worker to be marked expired: the holder of a lease that has run out.
PreviousWorker(a) == IF /\ claimedBy[a] # NoWorker
                        /\ ExpiredAt(a, clock)
                        /\ worker[claimedBy[a]] # "revoked"
                     THEN claimedBy[a] ELSE NoWorker

ClaimSnapshot(w, a) ==
  [op |-> "claim", worker |-> w, attempt |-> a, now |-> clock,
   previous |-> PreviousWorker(a),
   seen |-> [x \in Worker |-> IF x \in {w, PreviousWorker(a)} THEN worker[x] ELSE "absent"]]

ClaimsNothingElse(w, a) == \A b \in Attempt \ {a} : ~(claimedBy[b] = w /\ lease[b] > clock)

\* Variants: the search for another active claim, or the status check, is missing.
ClaimReadUnlimited(t, w, a) ==
  /\ Registered(w) /\ Exists(a)
  /\ w \notin revoked
  /\ claimedBy[a] = NoWorker => status[a] \in FreshClaimStatuses
  /\ Begin(t, ClaimSnapshot(w, a))

ClaimReadAnyStatus(t, w, a) ==
  /\ Registered(w) /\ Exists(a)
  /\ w \notin revoked
  /\ ClaimsNothingElse(w, a)
  /\ Begin(t, ClaimSnapshot(w, a))

ClaimRead(t, w, a) ==
  /\ Registered(w) /\ Exists(a)
  /\ w \notin revoked
  /\ claimedBy[a] = NoWorker => status[a] \in FreshClaimStatuses
  /\ ClaimsNothingElse(w, a)
  /\ Begin(t, ClaimSnapshot(w, a))

\* Variants: the UPDATE has no condition on the lease, or one that is early.
ClaimableAlways(a, now) == TRUE
ClaimableEarly(a, now) == claimedBy[a] = NoWorker \/ ExpiredAt(a, now + LeaseTTL)

\* The WHERE clause of the conditional UPDATE.
Claimable(a, now) == claimedBy[a] = NoWorker \/ ExpiredAt(a, now)

ClaimWrite(t) ==
  LET r == request[t]
  IN  /\ r.op = "claim"
      /\ Claimable(r.attempt, r.now)
      /\ claimedBy' = [claimedBy EXCEPT ![r.attempt] = r.worker]
      /\ lease' = [lease EXCEPT ![r.attempt] = r.now + LeaseTTL]
      /\ status' = [status EXCEPT ![r.attempt] = "running_worker"]
      /\ task' = "running"
      /\ worker' = [x \in Worker |->
                      CASE x = r.worker   -> Flush(worker[x], r.seen[x], "claimed")
                        [] x = r.previous /\ x # r.worker
                                          -> Flush(worker[x], r.seen[x], "expired")
                        [] OTHER          -> worker[x]]
      /\ Finish(t)
      /\ UNCHANGED <<clock, worktree, runVars, revoked>>

\* rowcount is 0: rollback and 409.
ClaimLost(t) == /\ request[t].op = "claim"
                /\ ~Claimable(request[t].attempt, request[t].now)
                /\ Refuse(t)

ReleaseSnapshot(w, a) == [op |-> "release", worker |-> w, attempt |-> a, seen |-> status[a],
                          seenWorker |-> worker[w], leased |-> lease[a] # NoLease]

\* Variant: any worker may release a claimed attempt.
ReleaseReadByAnyone(t, w, a) ==
  /\ Exists(a) /\ claimedBy[a] # NoWorker /\ Registered(w)
  /\ Begin(t, ReleaseSnapshot(w, a))

ReleaseRead(t, w, a) ==
  /\ Registered(w) /\ Exists(a)
  /\ claimedBy[a] = w
  /\ Begin(t, ReleaseSnapshot(w, a))

\* Variant: lease_expires_at is not cleared.
ReleaseWriteLeased(t) ==
  LET r == request[t]
  IN  /\ r.op = "release"
      /\ claimedBy' = [claimedBy EXCEPT ![r.attempt] = NoWorker]
      /\ worker' = [worker EXCEPT ![r.worker] = Flush(@, r.seenWorker, "available")]
      /\ Finish(t)
      /\ UNCHANGED <<clock, task, status, lease, worktree, runVars, revoked>>

ReleaseWrite(t) ==
  LET r == request[t]
  IN  /\ r.op = "release"
      /\ claimedBy' = [claimedBy EXCEPT ![r.attempt] = NoWorker]
      /\ lease' = IF r.leased THEN [lease EXCEPT ![r.attempt] = NoLease] ELSE lease
      /\ \/ UNCHANGED status      \* no next_status in the request
         \/ \E next \in ReleaseStatuses :
              status' = [status EXCEPT ![r.attempt] = Flush(@, r.seen, next)]
      /\ worker' = [worker EXCEPT ![r.worker] = Flush(@, r.seenWorker, "available")]
      /\ Finish(t)
      /\ UNCHANGED <<clock, task, worktree, runVars, revoked>>

-----------------------------------------------------------------------------
(* Attempts, their worktrees and the generic status endpoints *)

Attempts == {a \in Attempt : Exists(a)}

\* The number of the next attempt is computed from those that are there.
CreateAttemptRead(t) == Begin(t, [op |-> "create_attempt", known |-> Attempts])

\* The number max + 1 is still free when no attempt was created in between.
CreateAttemptWrite(t) ==
  /\ request[t].op = "create_attempt" /\ Attempts = request[t].known
  /\ \E a \in Attempt \ Attempts : status' = [status EXCEPT ![a] = "created"]
  /\ Finish(t)
  /\ UNCHANGED <<clock, task, claimVars, worktree, runVars, workerVars>>

\* uq_task_attempt_number refuses the new row, and the rollback undoes the rest.
NumberTaken(t) == /\ request[t].op \in {"create_attempt", "follow_up"}
                  /\ Attempts # request[t].known
                  /\ Refuse(t)

UpdateAttemptRead(t, a) ==
  /\ Exists(a)
  /\ Begin(t, [op |-> "update_attempt", attempt |-> a, seen |-> status[a]])

\* Variant: the endpoint sets whatever status it is asked for.
UpdateAttemptWriteUnchecked(t) ==
  LET r == request[t]
  IN  /\ r.op = "update_attempt"
      /\ \E target \in AttemptTargets :
           status' = [status EXCEPT ![r.attempt] = Flush(@, r.seen, target)]
      /\ Finish(t)
      /\ UNCHANGED <<clock, task, claimVars, worktree, runVars, workerVars>>

UpdateAttemptWrite(t) ==
  LET r == request[t]
  IN  /\ r.op = "update_attempt"
      /\ \E target \in AttemptTargets :
           /\ Allowed(PublicAttemptTransitions, r.seen, target)
           /\ status' = [status EXCEPT ![r.attempt] = Flush(@, r.seen, target)]
      /\ Finish(t)
      /\ UNCHANGED <<clock, task, claimVars, worktree, runVars, workerVars>>

UpdateTaskRead(t) == Begin(t, [op |-> "update_task", seenTask |-> task])

UpdateTaskWrite(t) ==
  LET r == request[t]
  IN  /\ r.op = "update_task"
      /\ \E target \in TaskTargets :
           /\ Allowed(PublicTaskTransitions, r.seenTask, target)
           /\ task' = Flush(task, r.seenTask, target)
      /\ Finish(t)
      /\ UNCHANGED <<clock, status, claimVars, worktree, runVars, workerVars>>

\* deny_transition: the requested status is not reachable from the loaded one.
UpdateDenied(t) ==
  LET r == request[t]
  IN  /\ \/ /\ r.op = "update_attempt"
            /\ \E target \in AttemptTargets : ~Allowed(PublicAttemptTransitions, r.seen, target)
         \/ /\ r.op = "update_task"
            /\ \E target \in TaskTargets : ~Allowed(PublicTaskTransitions, r.seenTask, target)
      /\ Refuse(t)

CreateWorktreeRead(t, a) ==
  /\ Exists(a) /\ worktree[a] = "none" /\ claimedBy[a] # NoWorker
  /\ Begin(t, [op |-> "create_worktree", attempt |-> a, seen |-> status[a]])

\* git worktree add fails, or succeeds; a second row for the attempt breaks
\* the UNIQUE constraint and the request ends in an error.
CreateWorktreeWrite(t) ==
  LET r == request[t]
  IN  /\ r.op = "create_worktree"
      /\ \/ /\ worktree[r.attempt] = "none"
            /\ \/ /\ worktree' = [worktree EXCEPT ![r.attempt] = "open"]
                  /\ status' = [status EXCEPT ![r.attempt] = Flush(@, r.seen, "running_worker")]
               \/ /\ worktree' = [worktree EXCEPT ![r.attempt] = "failed"]
                  /\ UNCHANGED status
         \/ /\ worktree[r.attempt] # "none"
            /\ UNCHANGED <<worktree, status>>
      /\ Finish(t)
      /\ UNCHANGED <<clock, task, claimVars, runVars, workerVars>>

-----------------------------------------------------------------------------
(* The result of an attempt and the decisions about it *)

\* The WorkerRun that delivers a result ends with it: a manual one, one of the owner
\* tools, or one that the mock worker's endpoint makes.
RunReports(a) == \E s \in {toolRun[a], "ended"} : toolRun' = [toolRun EXCEPT ![a] = s]

ResultRead(t, op, a) ==
  Begin(t, [op |-> op, attempt |-> a, seen |-> status[a], seenTask |-> task])

CommitResultRead(t, a) == /\ Exists(a)
                          /\ worktree[a] \in {"open", "committed"}
                          /\ claimedBy[a] # NoWorker
                          /\ ResultRead(t, "commit_result", a)

CommitResultWrite(t) ==
  LET r == request[t]
  IN  /\ r.op = "commit_result"
      /\ worktree' = [worktree EXCEPT ![r.attempt] = "committed"]
      /\ status' = [status EXCEPT ![r.attempt] = Flush(@, r.seen, "committed")]
      /\ task' = Flush(task, r.seenTask, "waiting_for_review")
      /\ RunReports(r.attempt)
      /\ manualRun' \in {manualRun, manualRun \ {r.attempt}}
      /\ Finish(t)
      /\ UNCHANGED <<clock, claimVars, assigned, workerVars>>

\* A changed path is outside the Task's write scope.
CommitOutOfScope(t) ==
  LET r == request[t]
  IN  /\ r.op = "commit_result"
      /\ status' = [status EXCEPT ![r.attempt] = Flush(@, r.seen, "worker_failed")]
      /\ RunReports(r.attempt)
      /\ Finish(t)
      /\ UNCHANGED <<clock, task, claimVars, worktree, manualRun, assigned, workerVars>>

\* Variant: the Task's status is given to the attempt.
DecidedStatusOfTask == [accept |-> "accepted", reject |-> "rejected",
                        review_reject |-> "rejected", squash |-> "completed"]

DecidedStatus == [accept |-> "accepted", reject |-> "rejected",
                  review_reject |-> "rejected", squash |-> "merged"]
DecidedTask == [review_reject |-> "changes_requested", squash |-> "completed"]

\* POST /task-attempts/{id}/accept and /reject look at the status alone.
AttemptDecisionRead(t, op, a) == /\ op \in {"accept", "reject"}
                                 /\ status[a] \in ReviewableStatuses
                                 /\ Allowed(AttemptTransitions, status[a], DecidedStatus[op])
                                 /\ ResultRead(t, op, a)

\* The merge review's reject and squash require a committed worktree too;
\* what else they check is the subject of module SquashMerge.
ReviewDecisionRead(t, op, a) == /\ op \in {"review_reject", "squash"}
                                /\ status[a] = "committed" /\ worktree[a] = "committed"
                                /\ ResultRead(t, op, a)

DecisionWrite(t) ==
  LET r == request[t]
  IN  /\ r.op \in DOMAIN DecidedStatus
      /\ status' = [status EXCEPT ![r.attempt] = Flush(@, r.seen, DecidedStatus[r.op])]
      /\ task' = IF r.op \in DOMAIN DecidedTask
                 THEN Flush(task, r.seenTask, DecidedTask[r.op]) ELSE task
      /\ Finish(t)
      /\ UNCHANGED <<clock, claimVars, worktree, runVars, workerVars>>

-----------------------------------------------------------------------------
(* Explicit retries *)

\* Variant: the search for another attempt under way or adopted is missing.
FollowUpReadUnblocked(t, a) ==
  /\ status[a] \in FollowUpSourceStatuses
  /\ Begin(t, [op |-> "follow_up_check", attempt |-> a, seen |-> status[a]])

\* ensure_explicit_retry_allowed.
FollowUpRead(t, a) ==
  /\ status[a] \in FollowUpSourceStatuses
  /\ \A b \in Attempt \ {a} : status[b] \notin RetryBlockingStatuses
  /\ Begin(t, [op |-> "follow_up_check", attempt |-> a, seen |-> status[a]])

\* The number is computed by a query of its own: an attempt that was created since
\* the check raises it, and does not collide.
FollowUpNumber(t) ==
  LET r == request[t]
  IN  /\ r.op = "follow_up_check"
      /\ request' = [request EXCEPT ![t] = [op |-> "follow_up", attempt |-> r.attempt,
                                           seen |-> r.seen, known |-> Attempts]]
      /\ UNCHANGED <<clock, task, status, claimVars, worktree, runVars, workerVars>>

\* The source is rejected when it was reviewable, and the follow-up is created.
FollowUpWrite(t) ==
  LET r == request[t]
  IN  /\ r.op = "follow_up" /\ Attempts = r.known
      /\ \E b \in Attempt \ Attempts :
           status' = [a \in Attempt |->
                        CASE a = b -> "created"
                          [] a = r.attempt /\ a # b /\ r.seen \in ReviewableStatuses
                                   -> Flush(status[a], r.seen, "rejected")
                          [] OTHER -> status[a]]
      /\ Finish(t)
      /\ UNCHANGED <<clock, task, claimVars, worktree, runVars, workerVars>>

-----------------------------------------------------------------------------
(* What the owner tools and the WorkerRuns write to an attempt *)

StartTaskAttemptCall(t, w, a) ==
  Begin(t, [op |-> "start_task_attempt", worker |-> w, attempt |-> a])

\* A new attempt, or one that has not run and has no active WorkerRun.
Startable(a) == /\ ~Exists(a) \/ status[a] \in StartableStatuses
                /\ toolRun[a] \notin {"queued", "running"} /\ a \notin manualRun

\* worker.start_task_attempt: the attempt gets the tool's worker, whoever has claimed
\* it, and no lease.
StartTaskAttempt(t) ==
  LET r == request[t]
  IN  /\ r.op = "start_task_attempt"
      /\ Registered(r.worker) /\ Startable(r.attempt)
      /\ claimedBy' = [claimedBy EXCEPT ![r.attempt] = r.worker]
      /\ status' = [status EXCEPT ![r.attempt] = "queued_worker"]
      /\ toolRun' = [toolRun EXCEPT ![r.attempt] = "queued"]
      /\ assigned' = assigned \union {r.attempt}
      /\ Finish(t)
      /\ UNCHANGED <<clock, task, lease, worktree, manualRun, workerVars>>

RunTaskAttemptCall(t, a) == Begin(t, [op |-> "run_task_attempt", attempt |-> a])

\* The run's worker is busy with another run, maybe of another Task.
Requeue(a) == /\ status' = [status EXCEPT ![a] = "queued_worker"]
              /\ toolRun' = [toolRun EXCEPT ![a] = "queued"]
              /\ UNCHANGED worktree

CompleteMock(a) == /\ status' = [status EXCEPT ![a] = "accepted"]
                   /\ toolRun' = [toolRun EXCEPT ![a] = "ended"]
                   /\ UNCHANGED worktree

\* The worktree is created when there is none yet.
HandOff(a) == /\ claimedBy[a] # NoWorker
              /\ status' = [status EXCEPT ![a] = "running_worker"]
              /\ toolRun' = [toolRun EXCEPT ![a] = "running"]
              /\ worktree' = [worktree EXCEPT ![a] = IF @ = "none" THEN "open" ELSE @]

WorktreeFails(a) == /\ claimedBy[a] # NoWorker /\ worktree[a] = "none"
                    /\ worktree' = [worktree EXCEPT ![a] = "failed"]
                    /\ UNCHANGED <<status, toolRun>>

\* worker.run_task_attempt, and a drain of the queue, which takes fewer runs: it looks
\* neither at the status of the run nor at that of the attempt.
RunTaskAttempt(t) ==
  LET a == request[t].attempt
  IN  /\ request[t].op = "run_task_attempt"
      /\ toolRun[a] # "none"
      /\ Requeue(a) \/ CompleteMock(a) \/ HandOff(a) \/ WorktreeFails(a)
      /\ Finish(t)
      /\ UNCHANGED <<clock, task, claimVars, manualRun, assigned, workerVars>>

\* POST /task-attempts/{id}/manual-worker/start: the worktree that it makes first when
\* there is none is a create_worktree request, and one with a result may be dirty again.
ManualStartRead(t, a) ==
  /\ Exists(a) /\ claimedBy[a] # NoWorker /\ worktree[a] \in {"open", "committed"}
  /\ Begin(t, [op |-> "manual_start", attempt |-> a, seen |-> status[a]])

ManualStartWrite(t) ==
  /\ request[t].op = "manual_start"
  /\ manualRun' = manualRun \union {request[t].attempt}
  /\ Finish(t)
  /\ UNCHANGED <<clock, task, status, claimVars, worktree, toolRun, assigned, workerVars>>

\* What ends a running WorkerRun without a result: its background task, the endpoints
\* that fail and cancel a run, and the recovery of stale runs.
EndRunRead(t, a, run) ==
  /\ Exists(a)
  /\ IF run = "tool" THEN toolRun[a] = "running" ELSE a \in manualRun
  /\ Begin(t, [op |-> "end_run", attempt |-> a, run |-> run, seen |-> status[a]])

\* The attempt is left alone when the process of a run changed nothing, and by the
\* recovery when it is no longer under way.
EndRunWrite(t) ==
  LET r == request[t]
  IN  /\ r.op = "end_run"
      /\ \/ \E next \in {"worker_failed", "cancelled"} :
              status' = [status EXCEPT ![r.attempt] = Flush(@, r.seen, next)]
         \/ /\ r.run = "tool" \/ status[r.attempt] \notin RecoverableStatuses
            /\ UNCHANGED status
      /\ IF r.run = "tool"
         THEN /\ toolRun' = [toolRun EXCEPT ![r.attempt] = "ended"]
              /\ UNCHANGED manualRun
         ELSE /\ manualRun' = manualRun \ {r.attempt}
              /\ UNCHANGED toolRun
      /\ Finish(t)
      /\ UNCHANGED <<clock, task, claimVars, worktree, assigned, workerVars>>

-----------------------------------------------------------------------------
(* Failures and time *)

\* Any request may end before its write: git refuses (nothing to commit, a stale
\* base, a conflict), SQLite's write lock is not obtained in time, or the server
\* stops.
Abandon(t) == request[t] # Idle /\ Refuse(t)

Tick == /\ clock < MaxClock
        /\ clock' = clock + 1
        /\ UNCHANGED <<task, status, claimVars, worktree, runVars, workerVars, request>>

WorkerStep(t) == \/ \E w \in Worker : HeartbeatRead(t, w)
                 \/ HeartbeatWrite(t)
                 \/ \E w \in Worker, a \in Attempt : ClaimRead(t, w, a)
                 \/ ClaimWrite(t)
                 \/ ClaimLost(t)
                 \/ \E w \in Worker, a \in Attempt : ReleaseRead(t, w, a)
                 \/ ReleaseWrite(t)

StatusStep(t) == \/ CreateAttemptRead(t)
                 \/ CreateAttemptWrite(t)
                 \/ NumberTaken(t)
                 \/ \E a \in Attempt : UpdateAttemptRead(t, a)
                 \/ UpdateAttemptWrite(t)
                 \/ UpdateTaskRead(t)
                 \/ UpdateTaskWrite(t)
                 \/ UpdateDenied(t)

ResultStep(t) == \/ \E a \in Attempt : CreateWorktreeRead(t, a)
                 \/ CreateWorktreeWrite(t)
                 \/ \E a \in Attempt : CommitResultRead(t, a)
                 \/ CommitResultWrite(t)
                 \/ CommitOutOfScope(t)
                 \/ \E a \in Attempt, op \in {"accept", "reject"} : AttemptDecisionRead(t, op, a)
                 \/ \E a \in Attempt, op \in {"review_reject", "squash"} :
                      ReviewDecisionRead(t, op, a)
                 \/ DecisionWrite(t)

RetryStep(t) == \/ \E a \in Attempt : FollowUpRead(t, a)
                \/ FollowUpNumber(t)
                \/ FollowUpWrite(t)

RunStep(t) == \/ \E w \in Worker, a \in Attempt : StartTaskAttemptCall(t, w, a)
              \/ StartTaskAttempt(t)
              \/ \E a \in Attempt : RunTaskAttemptCall(t, a)
              \/ RunTaskAttempt(t)
              \/ \E a \in Attempt : ManualStartRead(t, a)
              \/ ManualStartWrite(t)
              \/ \E a \in Attempt, run \in {"tool", "manual"} : EndRunRead(t, a, run)
              \/ EndRunWrite(t)

Next == \/ \E w \in Worker : RegisterWorker(w) \/ RevokeWorker(w)
        \/ \E t \in Thread : \/ WorkerStep(t) \/ StatusStep(t) \/ ResultStep(t)
                             \/ RetryStep(t) \/ RunStep(t) \/ Abandon(t)
        \/ Tick

Spec == Init /\ [][Next]_vars

-----------------------------------------------------------------------------
(* Properties *)

\* A request about attempt a that ends with this step.
Concludes(t, op, a) == request[t].op = op /\ request[t].attempt = a /\ request'[t] = Idle

\* worker.start_task_attempt gives attempt a away.
Started(a) == \E t \in Thread : Concludes(t, "start_task_attempt", a)

\* A claim and its lease are set and cleared together, whatever requests overlap,
\* unless worker.start_task_attempt has given the attempt to a worker: that claim has
\* no lease, never expires, and no other worker gets past it before its release.
ClaimIffLeased ==
  \A a \in Attempt \ assigned : claimedBy[a] = NoWorker <=> lease[a] = NoLease

\* No lease reaches further than LEASE_TTL beyond the present, so a worker that
\* goes silent loses its attempt at most LEASE_TTL later, however its last
\* heartbeats and claims were delayed or reordered.
LeaseBounded == \A a \in Attempt : lease[a] <= clock + LeaseTTL

\* While a lease runs, no claim passes its attempt from its worker to another one,
\* even when several have passed their checks at the same time: the conditional UPDATE
\* of claim decides, not what the handler read before.  Only the owner's start tool,
\* which looks at no lease, may.
LeaseHonoured ==
  [][\A a \in Attempt : claimedBy[a] # NoWorker /\ lease[a] > clock
                         => claimedBy'[a] \in {claimedBy[a], NoWorker} \/ Started(a)]_vars

\* The attempts' ownership behaves as LeaseContract promises.
Contract == INSTANCE LeaseContract WITH owner <- claimedBy, deadline <- lease, now <- clock
ImplementsContract == Contract!ContractSpec

\* The statuses docs/state-transitions.md protects are backed by a result: a Task
\* waits for review, has changes requested or is completed only when some attempt
\* has a result commit, and an attempt is committed or merged only when its own
\* worktree has one.
ProtectedStatusHasResult ==
  /\ task \in {"waiting_for_review", "changes_requested", "completed"}
       => \E a \in Attempt : worktree[a] = "committed"
  /\ \A a \in Attempt : status[a] \in {"committed", "merged"} => worktree[a] = "committed"

\* A worker holds at most one running lease: claim answers 409 "Worker already
\* has an active claim" otherwise.
OneActiveClaimPerWorker ==
  \A a, b \in Attempt : /\ claimedBy[a] = claimedBy[b] /\ claimedBy[a] # NoWorker
                        /\ lease[a] > clock /\ lease[b] > clock
                        => a = b

\* Only the release of its own holder ends a claim; heartbeats, reclaims of other
\* attempts, status changes and commits never do.
ClaimEndsByHolder ==
  [][\A a \in Attempt : claimedBy[a] # NoWorker /\ claimedBy'[a] = NoWorker
       => \E t \in Thread : /\ request[t].op = "release"
                            /\ request[t].worker = claimedBy[a]
                            /\ request'[t] = Idle]_vars

\* A free attempt is claimed only when it is new, failed or asked to be retried, unless
\* the owner's start tool gives it to its worker.
FreshClaimOnly ==
  [][\A a \in Attempt : claimedBy[a] = NoWorker /\ claimedBy'[a] # NoWorker
                         => status[a] \in FreshClaimStatuses \/ Started(a)]_vars

\* A follow-up is never one of two lines of work, as attempt_retry_policy.py asks: when
\* it is created, no other attempt of the Task is under way or adopted, its source
\* included.  The check, the number and the insert are three statements, so this needs
\* requests that wait for each other.
FollowUpStandsAlone ==
  [][\A t \in Thread : /\ request[t].op = "follow_up" /\ request'[t] = Idle
                       /\ status' # status
       => \E b \in Attempt : {a \in Attempt : status'[a] \in RetryBlockingStatuses} = {b}]_vars

\* A merged, abandoned or cancelled attempt stays so: state_transitions.py gives
\* these statuses no successor.
TerminalAttemptStays ==
  [][\A a \in Attempt : status[a] \in {"merged", "abandoned", "cancelled"}
                         => status'[a] = status[a]]_vars

\* As long as no worker holds it and it has no WorkerRun, it does.  What can reopen an
\* ended attempt is a claim that outlives the decision about it, by a commit, a release,
\* a new worktree or a reclaim, or a WorkerRun that is run again, queued again or ended
\* after it; the status endpoint, a review, a retry and a new claim cannot.
FreeTerminalStays ==
  [][\A a \in Attempt :
       /\ status[a] \in {"merged", "abandoned", "cancelled"} /\ claimedBy[a] = NoWorker
       /\ toolRun[a] = "none" /\ a \notin manualRun
       => status'[a] = status[a]]_vars

=============================================================================
