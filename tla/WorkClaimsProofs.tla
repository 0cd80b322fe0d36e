-------------------------- MODULE WorkClaimsProofs --------------------------
(***************************************************************************)
(* Theorems about WorkClaims for any number of workers, attempts and       *)
(* threads, any lease length and any mix of requests.                      *)
(***************************************************************************)
EXTENDS WorkClaims, TLAPS

\* The three columns about WorkerRuns are left alone together by most steps.
USE DEF runVars

-----------------------------------------------------------------------------
(* Types *)

\* The op of a request tells which kind of record it is.
LEMMA RequestKinds ==
  ASSUME NEW r \in Request
  PROVE  /\ r.op = "heartbeat" => r \in HeartbeatRequest
         /\ r.op = "claim" => r \in ClaimRequest
         /\ r.op = "release" => r \in ReleaseRequest
         /\ r.op \in {"update_attempt", "create_worktree", "manual_start", "follow_up_check"}
              => r \in AttemptRequest
         /\ r.op = "update_task" => r \in TaskRequest
         /\ r.op \in {"commit_result", "accept", "reject", "review_reject", "squash"}
              => r \in ResultRequest
         /\ r.op = "create_attempt" => r \in CreateRequest
         /\ r.op = "follow_up" => r \in FollowUpRequest
         /\ r.op = "start_task_attempt" => r \in StartCall
         /\ r.op = "run_task_attempt" => r \in RunCall
         /\ r.op = "end_run" => r \in RunRequest
BY DEF Request, Idle, HeartbeatRequest, ClaimRequest, ReleaseRequest, AttemptRequest,
       TaskRequest, ResultRequest, CreateRequest, FollowUpRequest, StartCall, RunCall, RunRequest

\* Beginning a request of a known kind disturbs no type.
LEMMA BeginType ==
  ASSUME TypeOK, NEW t \in Thread, NEW r \in Request, Begin(t, r)
  PROVE  TypeOK'
BY DEF TypeOK, Begin, claimVars, workerVars

\* A thread that finishes is idle, like any thread may be.
LEMMA FinishType ==
  ASSUME TypeOK, NEW t \in Thread, Finish(t)
  PROVE  request' \in [Thread -> Request]
BY DEF TypeOK, Finish, Request

\* A request that leaves without writing disturbs no type.
LEMMA RefuseType ==
  ASSUME TypeOK, NEW t \in Thread, Refuse(t)
  PROVE  TypeOK'
BY FinishType DEF TypeOK, Refuse, claimVars, workerVars

\* A handler that only reads begins a request of the right kind.
LEMMA ReadersType ==
  ASSUME TypeOK, NEW t \in Thread
  PROVE  /\ \A w \in Worker : HeartbeatRead(t, w) => TypeOK'
         /\ \A w \in Worker, a \in Attempt : ClaimRead(t, w, a) => TypeOK'
         /\ \A w \in Worker, a \in Attempt : ReleaseRead(t, w, a) => TypeOK'
         /\ \A a \in Attempt : UpdateAttemptRead(t, a) => TypeOK'
         /\ CreateAttemptRead(t) => TypeOK'
         /\ UpdateTaskRead(t) => TypeOK'
         /\ \A a \in Attempt : CreateWorktreeRead(t, a) => TypeOK'
         /\ \A a \in Attempt : CommitResultRead(t, a) => TypeOK'
         /\ \A a \in Attempt, op \in {"accept", "reject"} : AttemptDecisionRead(t, op, a) => TypeOK'
         /\ \A a \in Attempt, op \in {"review_reject", "squash"} :
              ReviewDecisionRead(t, op, a) => TypeOK'
         /\ \A w \in Worker, a \in Attempt : StartTaskAttemptCall(t, w, a) => TypeOK'
         /\ \A a \in Attempt : RunTaskAttemptCall(t, a) => TypeOK'
         /\ \A a \in Attempt : ManualStartRead(t, a) => TypeOK'
         /\ \A a \in Attempt, run \in {"tool", "manual"} : EndRunRead(t, a, run) => TypeOK'
<1>1. ASSUME NEW w \in Worker, HeartbeatRead(t, w)
      PROVE  TypeOK'
  <2>1. [op |-> "heartbeat", worker |-> w, now |-> clock] \in Request
    BY DEF Request, HeartbeatRequest, TypeOK
  <2> QED  BY <1>1, <2>1, BeginType DEF HeartbeatRead
<1>2. ASSUME NEW w \in Worker, NEW a \in Attempt, ClaimRead(t, w, a)
      PROVE  TypeOK'
  <2>1. ClaimSnapshot(w, a) \in ClaimRequest
    BY DEF ClaimSnapshot, ClaimRequest, PreviousWorker, TypeOK
  <2>2. ClaimSnapshot(w, a) \in Request
    BY <2>1 DEF Request
  <2> QED  BY <1>2, <2>2, BeginType DEF ClaimRead
<1>3. ASSUME NEW w \in Worker, NEW a \in Attempt, ReleaseRead(t, w, a)
      PROVE  TypeOK'
  <2>1. status[a] \in AttemptStatus
    BY <1>3 DEF ReleaseRead, Exists, TypeOK
  <2>2. worker[w] \in WorkerStatus
    BY <1>3 DEF ReleaseRead, Registered, TypeOK
  <2>3. ReleaseSnapshot(w, a) \in Request
    BY <2>1, <2>2 DEF Request, ReleaseRequest, ReleaseSnapshot
  <2> QED  BY <1>3, <2>3, BeginType DEF ReleaseRead
<1>4. ASSUME NEW a \in Attempt, Exists(a),
             NEW op \in {"update_attempt", "create_worktree", "manual_start"},
             Begin(t, [op |-> op, attempt |-> a, seen |-> status[a]])
      PROVE  TypeOK'
  <2>1. status[a] \in AttemptStatus
    BY <1>4 DEF Exists, TypeOK
  <2>2. [op |-> op, attempt |-> a, seen |-> status[a]] \in Request
    BY <2>1 DEF Request, AttemptRequest
  <2> QED  BY <1>4, <2>2, BeginType
<1>5. ASSUME UpdateTaskRead(t)
      PROVE  TypeOK'
  <2>1. [op |-> "update_task", seenTask |-> task] \in Request
    BY DEF Request, TaskRequest, TypeOK
  <2> QED  BY <1>5, <2>1, BeginType DEF UpdateTaskRead
<1>6. ASSUME NEW a \in Attempt, status[a] # "absent",
             NEW op \in {"commit_result", "accept", "reject", "review_reject", "squash"},
             ResultRead(t, op, a)
      PROVE  TypeOK'
  <2>1. [op |-> op, attempt |-> a, seen |-> status[a], seenTask |-> task] \in Request
    BY <1>6 DEF Request, ResultRequest, TypeOK
  <2> QED  BY <1>6, <2>1, BeginType DEF ResultRead
<1>7. \A a \in Attempt : UpdateAttemptRead(t, a) \/ CreateWorktreeRead(t, a)
                           \/ ManualStartRead(t, a) => TypeOK'
  BY <1>4 DEF UpdateAttemptRead, CreateWorktreeRead, ManualStartRead
<1>8. \A a \in Attempt : CommitResultRead(t, a) => TypeOK'
  BY <1>6 DEF CommitResultRead, Exists
<1>9. \A a \in Attempt, op \in {"accept", "reject"} : AttemptDecisionRead(t, op, a) => TypeOK'
  BY <1>6 DEF AttemptDecisionRead, ReviewableStatuses
<1>10. \A a \in Attempt, op \in {"review_reject", "squash"} :
         ReviewDecisionRead(t, op, a) => TypeOK'
  BY <1>6 DEF ReviewDecisionRead
<1>11. ASSUME CreateAttemptRead(t)
       PROVE  TypeOK'
  <2>1. [op |-> "create_attempt", known |-> Attempts] \in Request
    BY DEF Request, CreateRequest, Attempts
  <2> QED  BY <1>11, <2>1, BeginType DEF CreateAttemptRead
<1>12. ASSUME NEW w \in Worker, NEW a \in Attempt, StartTaskAttemptCall(t, w, a)
       PROVE  TypeOK'
  <2>1. [op |-> "start_task_attempt", worker |-> w, attempt |-> a] \in Request
    BY DEF Request, StartCall
  <2> QED  BY <1>12, <2>1, BeginType DEF StartTaskAttemptCall
<1>13. ASSUME NEW a \in Attempt, RunTaskAttemptCall(t, a)
       PROVE  TypeOK'
  <2>1. [op |-> "run_task_attempt", attempt |-> a] \in Request
    BY DEF Request, RunCall
  <2> QED  BY <1>13, <2>1, BeginType DEF RunTaskAttemptCall
<1>14. ASSUME NEW a \in Attempt, NEW run \in {"tool", "manual"}, EndRunRead(t, a, run)
       PROVE  TypeOK'
  <2>1. status[a] \in AttemptStatus
    BY <1>14 DEF EndRunRead, Exists, TypeOK
  <2>2. [op |-> "end_run", attempt |-> a, run |-> run, seen |-> status[a]] \in Request
    BY <2>1 DEF Request, RunRequest
  <2> QED  BY <1>14, <2>2, BeginType DEF EndRunRead
<1> QED  BY <1>1, <1>2, <1>3, <1>5, <1>7, <1>8, <1>9, <1>10, <1>11, <1>12, <1>13, <1>14

\* The handlers of heartbeat, claim and release keep every column in its range.
LEMMA WorkerWritersType ==
  ASSUME TypeOK, NEW t \in Thread
  PROVE  /\ HeartbeatWrite(t) => TypeOK'
         /\ ClaimWrite(t) => TypeOK'
         /\ ReleaseWrite(t) => TypeOK'
<1> DEFINE r == request[t]
<1>1. r \in Request
  BY DEF TypeOK
<1>2. ASSUME HeartbeatWrite(t)
      PROVE  TypeOK'
  <2>1. r \in HeartbeatRequest
    BY <1>1, <1>2, RequestKinds DEF HeartbeatWrite
  <2>2. lease' \in [Attempt -> Nat]
    BY <1>2, <2>1, LeaseAssumption DEF HeartbeatWrite, HeartbeatRequest, TypeOK
  <2>3. request' \in [Thread -> Request]
    BY <1>2, FinishType DEF HeartbeatWrite
  <2> QED  BY <1>2, <2>2, <2>3 DEF HeartbeatWrite, TypeOK, workerVars
<1>3. ASSUME ClaimWrite(t)
      PROVE  TypeOK'
  <2>1. r \in ClaimRequest
    BY <1>1, <1>3, RequestKinds DEF ClaimWrite
  <2>2. r.worker \in Worker /\ r.attempt \in Attempt /\ r.now \in Nat
    BY <2>1 DEF ClaimRequest
  <2>3. claimedBy' \in [Attempt -> Worker \union {NoWorker}]
    BY <1>3, <2>2 DEF ClaimWrite, TypeOK
  <2>4. lease' \in [Attempt -> Nat]
    BY <1>3, <2>2, LeaseAssumption DEF ClaimWrite, TypeOK
  <2>5. status' \in [Attempt -> AttemptStatus \union {"absent"}] /\ task' \in TaskStatus
    BY <1>3, <2>2 DEF ClaimWrite, TypeOK, AttemptStatus, TaskStatus
  <2>6. worker' \in [Worker -> WorkerStatus \union {"absent"}]
    BY <1>3 DEF ClaimWrite, Flush, TypeOK, WorkerStatus
  <2>7. request' \in [Thread -> Request]
    BY <1>3, FinishType DEF ClaimWrite
  <2> QED  BY <1>3, <2>3, <2>4, <2>5, <2>6, <2>7 DEF ClaimWrite, TypeOK
<1>4. ASSUME ReleaseWrite(t)
      PROVE  TypeOK'
  <2>1. r \in ReleaseRequest
    BY <1>1, <1>4, RequestKinds DEF ReleaseWrite
  <2>2. r.worker \in Worker /\ r.attempt \in Attempt
    BY <2>1 DEF ReleaseRequest
  <2>3. claimedBy' \in [Attempt -> Worker \union {NoWorker}] /\ lease' \in [Attempt -> Nat]
    BY <1>4, <2>2 DEF ReleaseWrite, TypeOK, NoLease
  <2>4. status' \in [Attempt -> AttemptStatus \union {"absent"}]
    BY <1>4, <2>2 DEF ReleaseWrite, Flush, TypeOK, ReleaseStatuses, AttemptStatus
  <2>5. worker' \in [Worker -> WorkerStatus \union {"absent"}]
    BY <1>4, <2>2 DEF ReleaseWrite, Flush, TypeOK, WorkerStatus
  <2>6. request' \in [Thread -> Request]
    BY <1>4, FinishType DEF ReleaseWrite
  <2> QED  BY <1>4, <2>3, <2>4, <2>5, <2>6 DEF ReleaseWrite, TypeOK
<1> QED  BY <1>2, <1>3, <1>4

\* The same for the handlers that write statuses, worktrees and results.
LEMMA StatusWritersType ==
  ASSUME TypeOK, NEW t \in Thread
  PROVE  /\ CreateAttemptWrite(t) => TypeOK'
         /\ UpdateAttemptWrite(t) => TypeOK'
         /\ UpdateTaskWrite(t) => TypeOK'
         /\ CreateWorktreeWrite(t) => TypeOK'
         /\ CommitResultWrite(t) => TypeOK'
         /\ CommitOutOfScope(t) => TypeOK'
         /\ DecisionWrite(t) => TypeOK'
<1> DEFINE r == request[t]
<1>1. r \in Request
  BY DEF TypeOK
<1>2. ASSUME UpdateAttemptWrite(t)
      PROVE  TypeOK'
  <2>1. r \in AttemptRequest
    BY <1>1, <1>2, RequestKinds DEF UpdateAttemptWrite
  <2>2. status' \in [Attempt -> AttemptStatus \union {"absent"}]
    BY <1>2, <2>1, TargetsAssumption DEF UpdateAttemptWrite, Flush, AttemptRequest, TypeOK
  <2>3. request' \in [Thread -> Request]
    BY <1>2, FinishType DEF UpdateAttemptWrite
  <2> QED  BY <1>2, <2>2, <2>3 DEF UpdateAttemptWrite, TypeOK, claimVars, workerVars
<1>3. ASSUME UpdateTaskWrite(t)
      PROVE  TypeOK'
  <2>1. task' \in TaskStatus
    BY <1>3, TargetsAssumption DEF UpdateTaskWrite, Flush, TypeOK
  <2>2. request' \in [Thread -> Request]
    BY <1>3, FinishType DEF UpdateTaskWrite
  <2> QED  BY <1>3, <2>1, <2>2 DEF UpdateTaskWrite, TypeOK, claimVars, workerVars
<1>4. ASSUME CreateWorktreeWrite(t)
      PROVE  TypeOK'
  <2>1. r \in AttemptRequest
    BY <1>1, <1>4, RequestKinds DEF CreateWorktreeWrite
  <2>2. worktree' \in [Attempt -> WorktreeState]
    BY <1>4, <2>1 DEF CreateWorktreeWrite, AttemptRequest, TypeOK, WorktreeState
  <2>3. status' \in [Attempt -> AttemptStatus \union {"absent"}]
    BY <1>4, <2>1 DEF CreateWorktreeWrite, Flush, AttemptRequest, TypeOK, AttemptStatus
  <2>4. request' \in [Thread -> Request]
    BY <1>4, FinishType DEF CreateWorktreeWrite
  <2> QED  BY <1>4, <2>2, <2>3, <2>4 DEF CreateWorktreeWrite, TypeOK, claimVars, workerVars
<1>5. ASSUME CommitResultWrite(t)
      PROVE  TypeOK'
  <2>1. r \in ResultRequest
    BY <1>1, <1>5, RequestKinds DEF CommitResultWrite
  <2>2. worktree' \in [Attempt -> WorktreeState]
    BY <1>5, <2>1 DEF CommitResultWrite, TypeOK, WorktreeState
  <2>3. status' \in [Attempt -> AttemptStatus \union {"absent"}] /\ task' \in TaskStatus
    BY <1>5, <2>1 DEF CommitResultWrite, Flush, TypeOK, AttemptStatus, TaskStatus
  <2>4. toolRun' \in [Attempt -> RunState] /\ manualRun' \subseteq Attempt
    BY <1>5, <2>1 DEF CommitResultWrite, RunReports, ResultRequest, TypeOK, RunState
  <2>5. request' \in [Thread -> Request]
    BY <1>5, FinishType DEF CommitResultWrite
  <2> QED  BY <1>5, <2>2, <2>3, <2>4, <2>5 DEF CommitResultWrite, TypeOK, claimVars, workerVars
<1>6. ASSUME CommitOutOfScope(t)
      PROVE  TypeOK'
  <2>1. status' \in [Attempt -> AttemptStatus \union {"absent"}]
    BY <1>6 DEF CommitOutOfScope, Flush, TypeOK, AttemptStatus
  <2>2. toolRun' \in [Attempt -> RunState]
    BY <1>6 DEF CommitOutOfScope, RunReports, TypeOK, RunState
  <2>3. request' \in [Thread -> Request]
    BY <1>6, FinishType DEF CommitOutOfScope
  <2> QED  BY <1>6, <2>1, <2>2, <2>3 DEF CommitOutOfScope, TypeOK, claimVars, workerVars
<1>7. ASSUME DecisionWrite(t)
      PROVE  TypeOK'
  <2>1. DecidedStatus[r.op] \in AttemptStatus
    BY <1>7 DEF DecisionWrite, DecidedStatus, AttemptStatus
  <2>2. status' \in [Attempt -> AttemptStatus \union {"absent"}]
    BY <1>7, <2>1 DEF DecisionWrite, Flush, TypeOK
  <2>3. r.op \in DOMAIN DecidedTask => DecidedTask[r.op] \in TaskStatus
    BY DEF DecidedTask, TaskStatus
  <2>4. task' \in TaskStatus
    BY <1>7, <2>3 DEF DecisionWrite, Flush, TypeOK
  <2>5. request' \in [Thread -> Request]
    BY <1>7, FinishType DEF DecisionWrite
  <2> QED  BY <1>7, <2>2, <2>4, <2>5 DEF DecisionWrite, TypeOK, claimVars, workerVars
<1>8. ASSUME CreateAttemptWrite(t)
      PROVE  TypeOK'
  <2>1. status' \in [Attempt -> AttemptStatus \union {"absent"}]
    BY <1>8 DEF CreateAttemptWrite, TypeOK, AttemptStatus
  <2>2. request' \in [Thread -> Request]
    BY <1>8, FinishType DEF CreateAttemptWrite
  <2> QED  BY <1>8, <2>1, <2>2 DEF CreateAttemptWrite, TypeOK, claimVars, workerVars
<1> QED  BY <1>2, <1>3, <1>4, <1>5, <1>6, <1>7, <1>8

\* A follow-up's check begins a request, which the query for its number completes, and
\* its write creates an attempt and may reject another.
LEMMA RetryStepType ==
  ASSUME TypeOK, NEW t \in Thread, RetryStep(t)
  PROVE  TypeOK'
<1> DEFINE r == request[t]
<1>1. ASSUME NEW a \in Attempt, FollowUpRead(t, a)
      PROVE  TypeOK'
  <2>1. status[a] \in AttemptStatus
    BY <1>1 DEF FollowUpRead, FollowUpSourceStatuses, ReviewableStatuses, AttemptStatus
  <2>2. [op |-> "follow_up_check", attempt |-> a, seen |-> status[a]] \in Request
    BY <2>1 DEF Request, AttemptRequest
  <2> QED  BY <1>1, <2>2, BeginType DEF FollowUpRead
<1>2. ASSUME FollowUpNumber(t)
      PROVE  TypeOK'
  <2>1. r \in AttemptRequest
    BY <1>2, RequestKinds DEF FollowUpNumber, TypeOK
  <2>2. [op |-> "follow_up", attempt |-> r.attempt, seen |-> r.seen, known |-> Attempts]
          \in Request
    BY <2>1 DEF AttemptRequest, Request, FollowUpRequest, Attempts
  <2> QED  BY <1>2, <2>2 DEF FollowUpNumber, TypeOK, claimVars, workerVars
<1>3. ASSUME FollowUpWrite(t)
      PROVE  TypeOK'
  <2>1. status' \in [Attempt -> AttemptStatus \union {"absent"}]
    BY <1>3 DEF FollowUpWrite, Flush, TypeOK, AttemptStatus
  <2>2. request' \in [Thread -> Request]
    BY <1>3, FinishType DEF FollowUpWrite
  <2> QED  BY <1>3, <2>1, <2>2 DEF FollowUpWrite, TypeOK, claimVars, workerVars
<1> QED  BY <1>1, <1>2, <1>3 DEF RetryStep

\* What the owner tools and the WorkerRuns write.
LEMMA RunStepType ==
  ASSUME TypeOK, NEW t \in Thread, RunStep(t)
  PROVE  TypeOK'
<1> DEFINE r == request[t]
<1>1. r \in Request
  BY DEF TypeOK
<1>2. ASSUME StartTaskAttempt(t)
      PROVE  TypeOK'
  <2>1. r.worker \in Worker /\ r.attempt \in Attempt
    BY <1>1, <1>2, RequestKinds DEF StartTaskAttempt, StartCall
  <2>2. /\ claimedBy' \in [Attempt -> Worker \union {NoWorker}]
        /\ status' \in [Attempt -> AttemptStatus \union {"absent"}]
    BY <1>2, <2>1 DEF StartTaskAttempt, TypeOK, AttemptStatus
  <2>3. toolRun' \in [Attempt -> RunState] /\ assigned' \subseteq Attempt
    BY <1>2, <2>1 DEF StartTaskAttempt, TypeOK, RunState
  <2>4. request' \in [Thread -> Request]
    BY <1>2, FinishType DEF StartTaskAttempt
  <2> QED  BY <1>2, <2>2, <2>3, <2>4 DEF StartTaskAttempt, TypeOK, workerVars
<1>3. ASSUME RunTaskAttempt(t)
      PROVE  TypeOK'
  <2>1. r.attempt \in Attempt
    BY <1>1, <1>3, RequestKinds DEF RunTaskAttempt, RunCall
  <2>2. /\ status' \in [Attempt -> AttemptStatus \union {"absent"}]
        /\ toolRun' \in [Attempt -> RunState]
        /\ worktree' \in [Attempt -> WorktreeState]
    BY <1>3, <2>1 DEF RunTaskAttempt, Requeue, CompleteMock, HandOff, WorktreeFails, TypeOK,
                      AttemptStatus, RunState, WorktreeState
  <2>3. request' \in [Thread -> Request]
    BY <1>3, FinishType DEF RunTaskAttempt
  <2> QED  BY <1>3, <2>2, <2>3 DEF RunTaskAttempt, TypeOK, claimVars, workerVars
<1>4. ASSUME ManualStartWrite(t)
      PROVE  TypeOK'
  <2>1. r.attempt \in Attempt
    BY <1>1, <1>4, RequestKinds DEF ManualStartWrite, AttemptRequest
  <2>2. request' \in [Thread -> Request]
    BY <1>4, FinishType DEF ManualStartWrite
  <2> QED  BY <1>4, <2>1, <2>2 DEF ManualStartWrite, TypeOK, claimVars, workerVars
<1>5. ASSUME EndRunWrite(t)
      PROVE  TypeOK'
  <2>1. status' \in [Attempt -> AttemptStatus \union {"absent"}]
    BY <1>5 DEF EndRunWrite, Flush, TypeOK, AttemptStatus
  <2>2. toolRun' \in [Attempt -> RunState] /\ manualRun' \subseteq Attempt
    BY <1>5 DEF EndRunWrite, TypeOK, RunState
  <2>3. request' \in [Thread -> Request]
    BY <1>5, FinishType DEF EndRunWrite
  <2> QED  BY <1>5, <2>1, <2>2, <2>3 DEF EndRunWrite, TypeOK, claimVars, workerVars
<1> QED  BY <1>2, <1>3, <1>4, <1>5, ReadersType DEF RunStep

\* An empty database is typed.
LEMMA InitType == Init => TypeOK
BY DEF Init, TypeOK, Request, TaskStatus, WorktreeState, RunState, NoLease

\* Every column and every request in flight always has its type, whatever the
\* requests and their interleaving.
THEOREM TypeCorrect == Spec => []TypeOK
<1>1. Init => TypeOK
  BY InitType
<1>2. TypeOK /\ [Next]_vars => TypeOK'
  <2> SUFFICES ASSUME TypeOK, [Next]_vars
               PROVE  TypeOK'
    OBVIOUS
  <2>1. ASSUME NEW w \in Worker, RegisterWorker(w) \/ RevokeWorker(w)
        PROVE  TypeOK'
    BY <2>1 DEF RegisterWorker, RevokeWorker, TypeOK, WorkerStatus, claimVars
  <2>2. ASSUME NEW t \in Thread, RunStep(t)
        PROVE  TypeOK'
    BY <2>2, RunStepType
  <2>3. ASSUME NEW t \in Thread, WorkerStep(t)
        PROVE  TypeOK'
    BY <2>3, ReadersType, WorkerWritersType, RefuseType DEF WorkerStep, ClaimLost
  <2>4. ASSUME NEW t \in Thread, StatusStep(t)
        PROVE  TypeOK'
    BY <2>4, ReadersType, StatusWritersType, RefuseType DEF StatusStep, UpdateDenied, NumberTaken
  <2>5. ASSUME NEW t \in Thread, ResultStep(t)
        PROVE  TypeOK'
    BY <2>5, ReadersType, StatusWritersType DEF ResultStep
  <2>6. ASSUME NEW t \in Thread, Abandon(t)
        PROVE  TypeOK'
    BY <2>6, RefuseType DEF Abandon
  <2>7. CASE Tick
    BY <2>7 DEF Tick, TypeOK, claimVars, workerVars
  <2>8. CASE UNCHANGED vars
    BY <2>8 DEF vars, TypeOK, claimVars, workerVars
  <2>9. ASSUME NEW t \in Thread, RetryStep(t)
        PROVE  TypeOK'
    BY <2>9, RetryStepType
  <2> QED  BY <2>1, <2>2, <2>3, <2>4, <2>5, <2>6, <2>7, <2>8, <2>9 DEF Next
<1> QED  BY <1>1, <1>2, PTL DEF Spec

-----------------------------------------------------------------------------
(* Leases *)

\* The time a request has read is not in the future.
TimeRead == \A t \in Thread : request[t].op \in {"heartbeat", "claim"}
                              => request[t].now \in 1..clock

\* A release finds no lease only when the attempt has been given to its worker.
LeaseRead == \A t \in Thread : request[t].op = "release"
                               => request[t].leased \/ request[t].attempt \in assigned

LeaseInv == TypeOK /\ TimeRead /\ LeaseRead /\ LeaseBounded /\ ClaimIffLeased

\* A step that concerns neither leases nor the clock.
Quiet == /\ UNCHANGED <<clock, claimedBy, lease, assigned>>
         /\ \A t \in Thread : \/ request'[t] = request[t]
                              \/ request'[t].op \notin {"heartbeat", "claim", "release"}

LeaseStep(t) == \/ \E w \in Worker : HeartbeatRead(t, w)
                \/ HeartbeatWrite(t)
                \/ \E w \in Worker, a \in Attempt : ClaimRead(t, w, a)
                \/ ClaimWrite(t)
                \/ \E w \in Worker, a \in Attempt : ReleaseRead(t, w, a)
                \/ ReleaseWrite(t)
                \/ StartTaskAttempt(t)

\* All steps but those of heartbeat, claim and release, worker.start_task_attempt and
\* the clock are quiet.
LEMMA QuietSteps ==
  ASSUME TypeOK, [Next]_vars
  PROVE  Quiet \/ Tick \/ \E t \in Thread : LeaseStep(t)
<1>1. ASSUME NEW w \in Worker, RegisterWorker(w) \/ RevokeWorker(w)
      PROVE  Quiet
  BY <1>1 DEF RegisterWorker, RevokeWorker, Quiet, claimVars
<1>2. ASSUME NEW t \in Thread, NEW r, r.op \notin {"heartbeat", "claim", "release"},
             request' = [request EXCEPT ![t] = r], UNCHANGED <<clock, claimedBy, lease, assigned>>
      PROVE  Quiet
  BY <1>2 DEF Quiet, TypeOK
<1>3. ASSUME NEW t \in Thread, Finish(t), UNCHANGED <<clock, claimedBy, lease, assigned>>
      PROVE  Quiet
  BY <1>2, <1>3 DEF Finish, Idle
<1>4. ASSUME NEW t \in Thread, NEW r, r.op \notin {"heartbeat", "claim", "release"}, Begin(t, r)
      PROVE  Quiet
  BY <1>2, <1>4 DEF Begin, claimVars
<1>5. ASSUME NEW t \in Thread, WorkerStep(t)
      PROVE  Quiet \/ LeaseStep(t)
  <2>1. ASSUME ClaimLost(t)
        PROVE  Quiet
    BY <2>1, <1>3 DEF ClaimLost, Refuse, claimVars
  <2> QED  BY <1>5, <2>1 DEF WorkerStep, LeaseStep
<1>6. ASSUME NEW t \in Thread, StatusStep(t)
      PROVE  Quiet
  <2>1. ASSUME NEW a \in Attempt, UpdateAttemptRead(t, a)
        PROVE  Quiet
    BY <2>1, <1>4 DEF UpdateAttemptRead
  <2>2. ASSUME UpdateTaskRead(t)
        PROVE  Quiet
    BY <2>2, <1>4 DEF UpdateTaskRead
  <2>3. ASSUME UpdateAttemptWrite(t) \/ UpdateTaskWrite(t) \/ UpdateDenied(t)
        PROVE  Quiet
    BY <2>3, <1>3 DEF UpdateAttemptWrite, UpdateTaskWrite, UpdateDenied, Refuse, claimVars
  <2>4. ASSUME CreateAttemptRead(t)
        PROVE  Quiet
    BY <2>4, <1>4 DEF CreateAttemptRead
  <2>5. ASSUME CreateAttemptWrite(t) \/ NumberTaken(t)
        PROVE  Quiet
    BY <2>5, <1>3 DEF CreateAttemptWrite, NumberTaken, Refuse, claimVars
  <2> QED  BY <1>6, <2>1, <2>2, <2>3, <2>4, <2>5 DEF StatusStep
<1>7. ASSUME NEW t \in Thread, ResultStep(t)
      PROVE  Quiet
  <2>1. ASSUME NEW a \in Attempt, CreateWorktreeRead(t, a)
        PROVE  Quiet
    BY <2>1, <1>4 DEF CreateWorktreeRead
  <2>2. ASSUME NEW a \in Attempt,
               NEW op \in {"commit_result", "accept", "reject", "review_reject", "squash"},
               ResultRead(t, op, a)
        PROVE  Quiet
    BY <2>2, <1>4 DEF ResultRead
  <2>3. ASSUME CreateWorktreeWrite(t) \/ CommitResultWrite(t) \/ CommitOutOfScope(t)
               \/ DecisionWrite(t)
        PROVE  Quiet
    BY <2>3, <1>3 DEF CreateWorktreeWrite, CommitResultWrite, CommitOutOfScope, DecisionWrite,
                      claimVars
  <2>4. ASSUME NEW a \in Attempt, CommitResultRead(t, a)
        PROVE  Quiet
    BY <2>4, <2>2 DEF CommitResultRead
  <2>5. ASSUME NEW a \in Attempt, NEW op \in {"accept", "reject"}, AttemptDecisionRead(t, op, a)
        PROVE  Quiet
    BY <2>5, <2>2 DEF AttemptDecisionRead
  <2>6. ASSUME NEW a \in Attempt, NEW op \in {"review_reject", "squash"},
               ReviewDecisionRead(t, op, a)
        PROVE  Quiet
    BY <2>6, <2>2 DEF ReviewDecisionRead
  <2> QED  BY <1>7, <2>1, <2>3, <2>4, <2>5, <2>6 DEF ResultStep
<1>8. ASSUME NEW t \in Thread, Abandon(t)
      PROVE  Quiet
  BY <1>8, <1>3 DEF Abandon, Refuse, claimVars
<1>9. CASE UNCHANGED vars
  BY <1>9 DEF vars, Quiet, claimVars
<1>10. ASSUME NEW t \in Thread, RetryStep(t)
       PROVE  Quiet
  <2>1. ASSUME NEW a \in Attempt, FollowUpRead(t, a)
        PROVE  Quiet
    BY <2>1, <1>4 DEF FollowUpRead
  <2>2. ASSUME FollowUpNumber(t)
        PROVE  Quiet
    BY <2>2, <1>2 DEF FollowUpNumber, claimVars
  <2>3. ASSUME FollowUpWrite(t)
        PROVE  Quiet
    BY <2>3, <1>3 DEF FollowUpWrite, claimVars
  <2> QED  BY <1>10, <2>1, <2>2, <2>3 DEF RetryStep
<1>11. ASSUME NEW t \in Thread, RunStep(t)
       PROVE  Quiet \/ LeaseStep(t)
  <2>1. ASSUME NEW w \in Worker, NEW a \in Attempt, StartTaskAttemptCall(t, w, a)
        PROVE  Quiet
    BY <2>1, <1>4 DEF StartTaskAttemptCall
  <2>2. ASSUME NEW a \in Attempt, RunTaskAttemptCall(t, a) \/ ManualStartRead(t, a)
        PROVE  Quiet
    BY <2>2, <1>4 DEF RunTaskAttemptCall, ManualStartRead
  <2>3. ASSUME NEW a \in Attempt, NEW run \in {"tool", "manual"}, EndRunRead(t, a, run)
        PROVE  Quiet
    BY <2>3, <1>4 DEF EndRunRead
  <2>4. ASSUME RunTaskAttempt(t) \/ ManualStartWrite(t) \/ EndRunWrite(t)
        PROVE  Quiet
    BY <2>4, <1>3 DEF RunTaskAttempt, ManualStartWrite, EndRunWrite, claimVars
  <2> QED  BY <1>11, <2>1, <2>2, <2>3, <2>4 DEF RunStep, LeaseStep
<1> QED  BY <1>1, <1>5, <1>6, <1>7, <1>8, <1>9, <1>10, <1>11 DEF Next

\* The lease invariant is inductive: a heartbeat renews only leases that end after
\* the time it has read, hence none of a free attempt, no request has read a time that
\* is still to come, and a release clears a lease that it has found.
THEOREM LeaseInvariant == Spec => []LeaseInv
<1>1. Init => LeaseInv
  <2> SUFFICES ASSUME Init
               PROVE  TimeRead /\ LeaseRead /\ LeaseBounded /\ ClaimIffLeased
    BY InitType DEF LeaseInv
  <2>1. TimeRead /\ LeaseRead
    BY DEF Init, TimeRead, LeaseRead, Idle
  <2>2. LeaseBounded /\ ClaimIffLeased
    BY LeaseAssumption DEF Init, LeaseBounded, ClaimIffLeased, NoLease
  <2> QED  BY <2>1, <2>2
<1>2. LeaseInv /\ TypeOK' /\ [Next]_vars => LeaseInv'
  <2> SUFFICES ASSUME LeaseInv, TypeOK', [Next]_vars
               PROVE  TimeRead' /\ LeaseRead' /\ LeaseBounded' /\ ClaimIffLeased'
    BY DEF LeaseInv
  <2> USE DEF LeaseInv
  <2>1. CASE Quiet
    BY <2>1 DEF Quiet, TimeRead, LeaseRead, LeaseBounded, ClaimIffLeased
  <2>2. CASE Tick
    <3>1. clock' = clock + 1 /\ UNCHANGED <<claimedBy, lease, assigned, request>>
      BY <2>2 DEF Tick, claimVars
    <3>2. clock \in Nat /\ clock' \in Nat /\ LeaseTTL \in Nat /\ lease \in [Attempt -> Nat]
      BY <3>1, LeaseAssumption DEF TypeOK
    <3>3. TimeRead' /\ LeaseRead'
      BY <3>1, <3>2 DEF TimeRead, LeaseRead
    <3>4. LeaseBounded' /\ ClaimIffLeased'
      BY <3>1, <3>2 DEF LeaseBounded, ClaimIffLeased
    <3> QED  BY <3>3, <3>4
  <2>3. ASSUME NEW t \in Thread, NEW w \in Worker, HeartbeatRead(t, w)
        PROVE  TimeRead' /\ LeaseRead' /\ LeaseBounded' /\ ClaimIffLeased'
    BY <2>3 DEF HeartbeatRead, Begin, TimeRead, LeaseRead, LeaseBounded, ClaimIffLeased,
                claimVars, TypeOK
  <2>4. ASSUME NEW t \in Thread, NEW w \in Worker, NEW a \in Attempt, ClaimRead(t, w, a)
        PROVE  TimeRead' /\ LeaseRead' /\ LeaseBounded' /\ ClaimIffLeased'
    <3>1. ClaimSnapshot(w, a).now = clock /\ ClaimSnapshot(w, a).op = "claim"
      BY DEF ClaimSnapshot
    <3>2. request' = [request EXCEPT ![t] = ClaimSnapshot(w, a)]
          /\ UNCHANGED <<clock, claimedBy, lease, assigned>>
      BY <2>4 DEF ClaimRead, Begin, claimVars
    <3> QED  BY <3>1, <3>2 DEF TimeRead, LeaseRead, LeaseBounded, ClaimIffLeased, TypeOK
  <2>5. ASSUME NEW t \in Thread, HeartbeatWrite(t)
        PROVE  TimeRead' /\ LeaseRead' /\ LeaseBounded' /\ ClaimIffLeased'
    <3>1. request[t].now \in 1..clock /\ request[t] \in HeartbeatRequest
      BY <2>5, RequestKinds DEF HeartbeatWrite, TimeRead, TypeOK
    <3>2. request' = [request EXCEPT ![t] = Idle] /\ UNCHANGED <<clock, claimedBy, assigned>>
      BY <2>5 DEF HeartbeatWrite, Finish
    <3>3. TimeRead' /\ LeaseRead'
      BY <3>2 DEF TimeRead, LeaseRead, Idle, TypeOK
    <3>4. LeaseBounded' /\ ClaimIffLeased'
      BY <2>5, <3>1, <3>2, NoWorkerAssumption, LeaseAssumption
         DEF HeartbeatWrite, HeartbeatRequest, LeaseBounded, ClaimIffLeased, NoLease, TypeOK
    <3> QED  BY <3>3, <3>4
  <2>6. ASSUME NEW t \in Thread, ClaimWrite(t)
        PROVE  TimeRead' /\ LeaseRead' /\ LeaseBounded' /\ ClaimIffLeased'
    <3>1. request[t].now \in 1..clock /\ request[t] \in ClaimRequest
      BY <2>6, RequestKinds DEF ClaimWrite, TimeRead, TypeOK
    <3>2. request' = [request EXCEPT ![t] = Idle] /\ UNCHANGED <<clock, assigned>>
      BY <2>6 DEF ClaimWrite, Finish
    <3>3. TimeRead' /\ LeaseRead'
      BY <3>2 DEF TimeRead, LeaseRead, Idle, TypeOK
    <3>4. LeaseBounded' /\ ClaimIffLeased'
      BY <2>6, <3>1, <3>2, NoWorkerAssumption, LeaseAssumption
         DEF ClaimWrite, ClaimRequest, LeaseBounded, ClaimIffLeased, NoLease, TypeOK
    <3> QED  BY <3>3, <3>4
  <2>7. ASSUME NEW t \in Thread, ReleaseWrite(t)
        PROVE  TimeRead' /\ LeaseRead' /\ LeaseBounded' /\ ClaimIffLeased'
    <3>1. request[t] \in ReleaseRequest
      BY <2>7, RequestKinds DEF ReleaseWrite, TypeOK
    <3>2. request' = [request EXCEPT ![t] = Idle] /\ UNCHANGED <<clock, assigned>>
      BY <2>7 DEF ReleaseWrite, Finish
    <3>3. TimeRead' /\ LeaseRead'
      BY <3>2 DEF TimeRead, LeaseRead, Idle, TypeOK
    <3>4. LeaseBounded'
      BY <2>7, <3>1, <3>2, LeaseAssumption
         DEF ReleaseWrite, ReleaseRequest, LeaseBounded, NoLease, TypeOK
    <3>5. request[t].leased \/ request[t].attempt \in assigned
      BY <2>7 DEF ReleaseWrite, LeaseRead
    <3>6. ClaimIffLeased'
      BY <2>7, <3>1, <3>2, <3>5 DEF ReleaseWrite, ReleaseRequest, ClaimIffLeased, TypeOK
    <3> QED  BY <3>3, <3>4, <3>6
  <2>8. ASSUME NEW t \in Thread, NEW w \in Worker, NEW a \in Attempt, ReleaseRead(t, w, a)
        PROVE  TimeRead' /\ LeaseRead' /\ LeaseBounded' /\ ClaimIffLeased'
    <3> DEFINE r == ReleaseSnapshot(w, a)
    <3>1. r.op = "release" /\ r.attempt = a /\ (r.leased <=> lease[a] # NoLease)
      BY DEF ReleaseSnapshot
    <3>2. claimedBy[a] # NoWorker
      BY <2>8, NoWorkerAssumption DEF ReleaseRead
    <3>3. r.leased \/ r.attempt \in assigned
      BY <3>1, <3>2 DEF ClaimIffLeased
    <3>4. request' = [request EXCEPT ![t] = r] /\ UNCHANGED <<clock, claimedBy, lease, assigned>>
      BY <2>8 DEF ReleaseRead, Begin, claimVars
    <3> HIDE DEF r
    <3> QED  BY <3>1, <3>3, <3>4 DEF TimeRead, LeaseRead, LeaseBounded, ClaimIffLeased, TypeOK
  <2>9. ASSUME NEW t \in Thread, StartTaskAttempt(t)
        PROVE  TimeRead' /\ LeaseRead' /\ LeaseBounded' /\ ClaimIffLeased'
    <3>1. request[t] \in StartCall
      BY <2>9, RequestKinds DEF StartTaskAttempt, TypeOK
    <3>2. /\ request' = [request EXCEPT ![t] = Idle] /\ UNCHANGED <<clock, lease>>
          /\ assigned' = assigned \union {request[t].attempt}
          /\ claimedBy' = [claimedBy EXCEPT ![request[t].attempt] = request[t].worker]
      BY <2>9 DEF StartTaskAttempt, Finish
    <3>3. TimeRead' /\ LeaseRead'
      BY <3>2 DEF TimeRead, LeaseRead, Idle, TypeOK
    <3>4. LeaseBounded' /\ ClaimIffLeased'
      BY <3>1, <3>2 DEF StartCall, LeaseBounded, ClaimIffLeased, TypeOK
    <3> QED  BY <3>3, <3>4
  <2> QED  BY <2>1, <2>2, <2>3, <2>4, <2>5, <2>6, <2>7, <2>8, <2>9, QuietSteps DEF LeaseStep
<1> QED  BY <1>1, <1>2, TypeCorrect, PTL DEF Spec

\* No lease reaches further than LEASE_TTL beyond the present.
THEOREM LeasesAreBounded == Spec => []LeaseBounded
<1>1. LeaseInv => LeaseBounded
  BY DEF LeaseInv
<1> QED  BY <1>1, LeaseInvariant, PTL

\* An attempt is claimed exactly when it has a lease, unless worker.start_task_attempt
\* has given it to a worker.
THEOREM ClaimsAreLeased == Spec => []ClaimIffLeased
<1>1. LeaseInv => ClaimIffLeased
  BY DEF LeaseInv
<1> QED  BY <1>1, LeaseInvariant, PTL

-----------------------------------------------------------------------------
(* Ownership *)

\* A quiet step and one that only reads change nothing that LeaseContract sees.
LEMMA LeaseStepEffects ==
  ASSUME NEW t \in Thread, LeaseStep(t)
  PROVE  \/ UNCHANGED <<clock, claimedBy, lease, assigned>>
         \/ HeartbeatWrite(t) \/ ClaimWrite(t) \/ ReleaseWrite(t) \/ StartTaskAttempt(t)
BY DEF LeaseStep, HeartbeatRead, ClaimRead, ReleaseRead, Begin, claimVars

\* A call of worker.start_task_attempt that changes something concludes with it.
LEMMA StartConcludes ==
  ASSUME TypeOK, NEW t \in Thread, StartTaskAttempt(t)
  PROVE  Started(request[t].attempt)
BY DEF StartTaskAttempt, Finish, Started, Concludes, TypeOK

\* While a lease runs no claim takes the attempt from its holder: the WHERE clause of
\* claim compares the lease with a time that is not in the future.
THEOREM LeasesAreHonoured == Spec => LeaseHonoured
<1> DEFINE Honoured == \A a \in Attempt : claimedBy[a] # NoWorker /\ lease[a] > clock
                                           => claimedBy'[a] \in {claimedBy[a], NoWorker} \/ Started(a)
<1>1. LeaseInv /\ [Next]_vars => Honoured
  <2> SUFFICES ASSUME LeaseInv, [Next]_vars
               PROVE  Honoured
    OBVIOUS
  <2> USE DEF LeaseInv
  <2>1. CASE UNCHANGED claimedBy
    BY <2>1
  <2>2. ASSUME NEW t \in Thread, ClaimWrite(t)
        PROVE  Honoured
    <3>1. request[t] \in ClaimRequest /\ request[t].now \in 1..clock
      BY <2>2, RequestKinds DEF ClaimWrite, TimeRead, TypeOK
    <3> QED  BY <2>2, <3>1 DEF ClaimWrite, Claimable, ExpiredAt, ClaimRequest, TypeOK
  <2>3. ASSUME NEW t \in Thread, ReleaseWrite(t)
        PROVE  Honoured
    <3>1. request[t] \in ReleaseRequest
      BY <2>3, RequestKinds DEF ReleaseWrite, TypeOK
    <3> QED  BY <2>3, <3>1 DEF ReleaseWrite, ReleaseRequest, TypeOK
  <2>4. Quiet \/ Tick => UNCHANGED claimedBy
    BY DEF Quiet, Tick, claimVars
  <2>5. ASSUME NEW t \in Thread, HeartbeatWrite(t)
        PROVE  UNCHANGED claimedBy
    BY <2>5 DEF HeartbeatWrite
  <2>6. ASSUME NEW t \in Thread, StartTaskAttempt(t)
        PROVE  Honoured
    <3>1. \A a \in Attempt : claimedBy'[a] = claimedBy[a] \/ a = request[t].attempt
      BY <2>6 DEF StartTaskAttempt, TypeOK
    <3> QED  BY <2>6, <3>1, StartConcludes
  <2> QED  BY <2>1, <2>2, <2>3, <2>4, <2>5, <2>6, QuietSteps, LeaseStepEffects
<1> QED  BY <1>1, LeaseInvariant, PTL DEF Spec, LeaseHonoured

\* The claim protocol implements LeaseContract: heartbeats renew, claims grant,
\* releases give up, worker.start_task_attempt assigns, the clock passes and everything
\* else stutters.
THEOREM ContractImplemented == Spec => ImplementsContract
<1>1. Init => Contract!ContractInit
  BY DEF Init, Contract!ContractInit, NoLease
<1>2. LeaseInv /\ [Next]_vars => [Contract!ContractNext]_Contract!contractVars
  <2> SUFFICES ASSUME LeaseInv, [Next]_vars,
                      ~UNCHANGED <<clock, claimedBy, lease, assigned>>
               PROVE  Contract!ContractNext
    BY DEF Contract!contractVars
  <2> USE DEF LeaseInv
  <2>1. CASE Tick
    BY <2>1 DEF Tick, Contract!Pass, Contract!ContractNext, claimVars
  <2>2. ASSUME NEW t \in Thread, HeartbeatWrite(t)
        PROVE  Contract!ContractNext
    <3>1. request[t] \in HeartbeatRequest /\ request[t].now \in 1..clock
      BY <2>2, RequestKinds DEF HeartbeatWrite, TimeRead, TypeOK
    <3> DEFINE w == request[t].worker
               d == request[t].now + LeaseTTL
               S == {a \in Attempt : claimedBy[a] = w /\ lease[a] > request[t].now}
    <3>2. w \in Worker /\ d \in 1..(clock + LeaseTTL)
      BY <3>1, LeaseAssumption DEF HeartbeatRequest, TypeOK
    <3>3. S \in SUBSET {a \in Attempt : claimedBy[a] = w /\ lease[a] # 0}
      BY <3>1 DEF TypeOK
    <3>4. lease' = [a \in Attempt |-> IF a \in S THEN d ELSE lease[a]]
          /\ UNCHANGED <<claimedBy, assigned, clock>>
      BY <2>2 DEF HeartbeatWrite
    <3>5. Contract!Renew(w)
      BY <3>2, <3>3, <3>4 DEF Contract!Renew
    <3> QED  BY <3>2, <3>5 DEF Contract!ContractNext
  <2>3. ASSUME NEW t \in Thread, ClaimWrite(t)
        PROVE  Contract!ContractNext
    <3>1. request[t] \in ClaimRequest /\ request[t].now \in 1..clock
      BY <2>3, RequestKinds DEF ClaimWrite, TimeRead, TypeOK
    <3> DEFINE w == request[t].worker
               a == request[t].attempt
               d == request[t].now + LeaseTTL
    <3>2. w \in Worker /\ a \in Attempt /\ d \in 1..(clock + LeaseTTL)
      BY <3>1, LeaseAssumption DEF ClaimRequest, TypeOK
    <3>3. Contract!Free(a)
      BY <2>3, <3>1, <3>2 DEF ClaimWrite, Claimable, ExpiredAt, NoLease, Contract!Free, TypeOK
    <3>4. Contract!Grant(w, a)
      BY <2>3, <3>2, <3>3 DEF ClaimWrite, Contract!Grant
    <3> QED  BY <3>2, <3>4 DEF Contract!ContractNext
  <2>4. ASSUME NEW t \in Thread, ReleaseWrite(t)
        PROVE  Contract!ContractNext
    <3>1. request[t].attempt \in Attempt
      BY <2>4, RequestKinds DEF ReleaseWrite, ReleaseRequest, TypeOK
    <3>2. request[t].leased \/ request[t].attempt \in assigned
      BY <2>4 DEF ReleaseWrite, LeaseRead
    <3>3. Contract!GiveUp(request[t].attempt)
      BY <2>4, <3>2 DEF ReleaseWrite, Contract!GiveUp, NoLease
    <3> QED  BY <3>1, <3>3 DEF Contract!ContractNext
  <2>5. ASSUME NEW t \in Thread, StartTaskAttempt(t)
        PROVE  Contract!ContractNext
    <3>1. request[t] \in StartCall
      BY <2>5, RequestKinds DEF StartTaskAttempt, TypeOK
    <3>2. Contract!Assign(request[t].worker, request[t].attempt)
      BY <2>5 DEF StartTaskAttempt, Contract!Assign
    <3> QED  BY <3>1, <3>2 DEF StartCall, Contract!ContractNext
  <2>6. ~Quiet
    BY DEF Quiet
  <2> QED  BY <2>1, <2>2, <2>3, <2>4, <2>5, <2>6, QuietSteps, LeaseStepEffects
<1> QED  BY <1>1, <1>2, LeaseInvariant, PTL DEF Spec, ImplementsContract, Contract!ContractSpec

-----------------------------------------------------------------------------
(* Results *)

ReviewedTask == {"waiting_for_review", "changes_requested", "completed"}
SomeResult == \E a \in Attempt : worktree[a] = "committed"

\* What a request must find backed by a result when it has read the rows.
Backed(r) == /\ r.op \in {"review_reject", "squash"} => worktree[r.attempt] = "committed"
             /\ r.op = "update_task" /\ r.seenTask \in ReviewedTask => SomeResult

PendingBacked == \A t \in Thread : Backed(request[t])

ResultInv == TypeOK /\ ProtectedStatusHasResult /\ PendingBacked

\* The generic endpoint cannot make an attempt committed or merged, and makes a Task
\* one that is under or past review only from another such status.
LEMMA PublicTables ==
  /\ \A s \in AttemptStatus : PublicAttemptTransitions[s] \intersect {"committed", "merged"} = {}
  /\ \A s \in TaskStatus : PublicTaskTransitions[s] \intersect ReviewedTask # {}
                            => s \in ReviewedTask
<1>1. \A s \in AttemptStatus : PublicAttemptTransitions[s] \intersect {"committed", "merged"} = {}
  BY DEF PublicAttemptTransitions, AttemptStatus
<1>2. \A s \in TaskStatus : PublicTaskTransitions[s] \intersect ReviewedTask # {}
                           => s \in ReviewedTask
  BY DEF PublicTaskTransitions, TaskTransitions, TaskStatus, ReviewedTask
<1> QED  BY <1>1, <1>2

\* A handler that only reads keeps both halves of the invariant when what it has
\* read is itself backed by a result.
LEMMA BeginKeepsResults ==
  ASSUME ResultInv, NEW t \in Thread, NEW r, Begin(t, r), Backed(r)
  PROVE  ProtectedStatusHasResult' /\ PendingBacked'
<1>1. UNCHANGED <<task, status, worktree>>
  BY DEF Begin
<1>2. ProtectedStatusHasResult'
  BY <1>1 DEF ResultInv, ProtectedStatusHasResult
<1>3. \A x \in Thread : request'[x] \in {request[x], r}
  BY DEF Begin, ResultInv, TypeOK
<1>4. \A x \in Thread : Backed(request[x])
  BY DEF ResultInv, PendingBacked
<1>5. PendingBacked'
  BY <1>1, <1>3, <1>4 DEF PendingBacked, Backed, SomeResult
<1> QED  BY <1>2, <1>5

\* Results are never lost, so what was backed stays backed.
LEMMA PendingStaysBacked ==
  ASSUME ResultInv, (\E t \in Thread : Finish(t)) \/ UNCHANGED request,
         \A a \in Attempt : worktree[a] = "committed" => worktree'[a] = "committed"
  PROVE  PendingBacked'
<1>1. \A x \in Thread : Backed(request[x]) /\ request[x] \in Request
  BY DEF ResultInv, PendingBacked, TypeOK
<1>2. \A x \in Thread : request'[x] \in {request[x], Idle}
  BY DEF Finish, ResultInv, TypeOK
<1>3. SomeResult => SomeResult'
  BY DEF SomeResult
<1>4. ASSUME NEW r \in Request, Backed(r)
      PROVE  Backed(r)'
  BY <1>3, <1>4, RequestKinds DEF Backed, ResultRequest
<1>5. Backed(Idle)'
  BY DEF Backed, Idle
<1> QED  BY <1>1, <1>2, <1>4, <1>5 DEF PendingBacked

\* The writes of status endpoints and services that touch a protected status.
LEMMA StatusWritesKeepResults ==
  ASSUME ResultInv, NEW t \in Thread
  PROVE  /\ UpdateAttemptWrite(t) => ProtectedStatusHasResult'
         /\ UpdateTaskWrite(t) => ProtectedStatusHasResult'
         /\ DecisionWrite(t) => ProtectedStatusHasResult'
<1> DEFINE r == request[t]
<1> USE DEF ResultInv
<1>1. r \in Request /\ Backed(r)
  BY DEF TypeOK, PendingBacked
<1>2. ASSUME UpdateAttemptWrite(t)
      PROVE  ProtectedStatusHasResult'
  <2>1. r \in AttemptRequest
    BY <1>1, <1>2, RequestKinds DEF UpdateAttemptWrite
  <2>2. PICK target \in AttemptTargets :
             /\ Allowed(PublicAttemptTransitions, r.seen, target)
             /\ status' = [status EXCEPT ![r.attempt] = Flush(@, r.seen, target)]
    BY <1>2 DEF UpdateAttemptWrite
  <2>3. target = r.seen \/ target \notin {"committed", "merged"}
    BY <2>1, <2>2, PublicTables DEF Allowed, AttemptRequest
  <2>4. \A a \in Attempt : status'[a] \in {"committed", "merged"} => status'[a] = status[a]
    BY <2>1, <2>2, <2>3 DEF Flush, AttemptRequest, TypeOK
  <2> QED  BY <1>2, <2>4 DEF UpdateAttemptWrite, ProtectedStatusHasResult
<1>3. ASSUME UpdateTaskWrite(t)
      PROVE  ProtectedStatusHasResult'
  <2>1. r \in TaskRequest
    BY <1>1, <1>3, RequestKinds DEF UpdateTaskWrite
  <2>2. PICK target \in TaskTargets :
             /\ Allowed(PublicTaskTransitions, r.seenTask, target)
             /\ task' = Flush(task, r.seenTask, target)
    BY <1>3 DEF UpdateTaskWrite
  <2>3. task' = task \/ (target \in PublicTaskTransitions[r.seenTask] /\ task' = target)
    BY <2>2 DEF Allowed, Flush
  <2>4. task' = task \/ (task' \in ReviewedTask => SomeResult)
    BY <1>1, <1>3, <2>1, <2>3, PublicTables DEF Backed, TaskRequest, UpdateTaskWrite
  <2> QED  BY <1>3, <2>4
           DEF UpdateTaskWrite, ProtectedStatusHasResult, ReviewedTask, SomeResult
<1>4. ASSUME DecisionWrite(t)
      PROVE  ProtectedStatusHasResult'
  <2>1. r \in ResultRequest /\ r.op \in {"accept", "reject", "review_reject", "squash"}
    BY <1>1, <1>4, RequestKinds DEF DecisionWrite, DecidedStatus
  <2>2. UNCHANGED worktree
    BY <1>4 DEF DecisionWrite
  <2>3. \A a \in Attempt :
          status'[a] = status[a] \/ (a = r.attempt /\ status'[a] = DecidedStatus[r.op])
    BY <1>4, <2>1 DEF DecisionWrite, Flush, ResultRequest, TypeOK
  <2>4. DecidedStatus[r.op] = "merged" => r.op = "squash"
    BY <2>1 DEF DecidedStatus
  <2>5. DecidedStatus[r.op] # "committed"
    BY <2>1 DEF DecidedStatus
  <2>6. \A a \in Attempt : status'[a] \in {"committed", "merged"} => worktree[a] = "committed"
    BY <1>1, <2>3, <2>4, <2>5 DEF Backed, ProtectedStatusHasResult
  <2>7. task' = task \/ r.op \in {"review_reject", "squash"}
    BY <1>4 DEF DecisionWrite, DecidedTask
  <2>8. task' \in ReviewedTask => SomeResult
    BY <1>1, <2>1, <2>7
       DEF Backed, ResultRequest, SomeResult, ReviewedTask, ProtectedStatusHasResult
  <2> QED  BY <2>2, <2>6, <2>8 DEF ProtectedStatusHasResult, ReviewedTask, SomeResult
<1> QED  BY <1>2, <1>3, <1>4

\* The owner tools and the WorkerRuns give no protected status and lose no result.
LEMMA RunStepKeepsResults ==
  ASSUME ResultInv, NEW t \in Thread, RunStep(t)
  PROVE  ProtectedStatusHasResult' /\ PendingBacked'
<1> DEFINE Goal == ProtectedStatusHasResult' /\ PendingBacked'
<1> USE DEF ResultInv
<1>1. ASSUME NEW r, Begin(t, r), r.op \notin {"review_reject", "squash", "update_task"}
      PROVE  Goal
  BY <1>1, BeginKeepsResults DEF Backed
<1>2. ASSUME Finish(t), UNCHANGED task,
             \A a \in Attempt : worktree[a] = "committed" => worktree'[a] = "committed",
             \A a \in Attempt : status'[a] = status[a]
                                 \/ status'[a] \notin {"committed", "merged"}
      PROVE  Goal
  BY <1>2, PendingStaysBacked DEF ProtectedStatusHasResult
<1>3. CASE \/ \E w \in Worker, a \in Attempt : StartTaskAttemptCall(t, w, a)
           \/ \E a \in Attempt : RunTaskAttemptCall(t, a) \/ ManualStartRead(t, a)
           \/ \E a \in Attempt, run \in {"tool", "manual"} : EndRunRead(t, a, run)
  BY <1>1, <1>3 DEF StartTaskAttemptCall, RunTaskAttemptCall, ManualStartRead, EndRunRead
<1>4. CASE StartTaskAttempt(t)
  BY <1>2, <1>4 DEF StartTaskAttempt, TypeOK
<1>5. CASE RunTaskAttempt(t)
  <2>1. Finish(t) /\ UNCHANGED task
    BY <1>5 DEF RunTaskAttempt
  <2>2. \A a \in Attempt : worktree[a] = "committed" => worktree'[a] = "committed"
    BY <1>5 DEF RunTaskAttempt, Requeue, CompleteMock, HandOff, WorktreeFails, TypeOK
  <2>3. \A a \in Attempt : status'[a] = status[a] \/ status'[a] \notin {"committed", "merged"}
    BY <1>5 DEF RunTaskAttempt, Requeue, CompleteMock, HandOff, WorktreeFails, TypeOK
  <2> QED  BY <1>2, <2>1, <2>2, <2>3
<1>6. CASE ManualStartWrite(t)
  BY <1>2, <1>6 DEF ManualStartWrite
<1>7. CASE EndRunWrite(t)
  BY <1>2, <1>7 DEF EndRunWrite, Flush, TypeOK
<1> QED  BY <1>3, <1>4, <1>5, <1>6, <1>7 DEF RunStep

\* The statuses that only the commit and merge services may give are backed by a
\* result commit, whatever requests overlap and are abandoned.
THEOREM ProtectedStatusesHaveResults == Spec => []ProtectedStatusHasResult
<1>1. Init => ResultInv
  BY InitType DEF Init, ResultInv, ProtectedStatusHasResult, PendingBacked, Backed, Idle
<1>2. ResultInv /\ TypeOK' /\ [Next]_vars => ResultInv'
  <2> SUFFICES ASSUME ResultInv, [Next]_vars
               PROVE  ProtectedStatusHasResult' /\ PendingBacked'
    BY DEF ResultInv
  <2> DEFINE Goal == ProtectedStatusHasResult' /\ PendingBacked'
  <2>1. ASSUME UNCHANGED <<task, status, worktree>>,
               (\E t \in Thread : Finish(t)) \/ UNCHANGED request
        PROVE  Goal
    BY <2>1, PendingStaysBacked DEF ResultInv, ProtectedStatusHasResult
  <2>2. ASSUME NEW w \in Worker, RegisterWorker(w) \/ RevokeWorker(w)
        PROVE  Goal
    BY <2>1, <2>2 DEF RegisterWorker, RevokeWorker
  <2>3. ASSUME NEW t \in Thread, RunStep(t)
        PROVE  Goal
    BY <2>3, RunStepKeepsResults
  <2>4. ASSUME NEW t \in Thread, WorkerStep(t)
        PROVE  Goal
    <3>1. ASSUME NEW r, r.op \in {"heartbeat", "claim", "release"}, Begin(t, r)
          PROVE  Goal
      BY <3>1, BeginKeepsResults DEF Backed
    <3>2. ASSUME NEW w \in Worker, HeartbeatRead(t, w)
          PROVE  Goal
      BY <3>1, <3>2 DEF HeartbeatRead
    <3>3. ASSUME NEW w \in Worker, NEW a \in Attempt, ClaimRead(t, w, a)
          PROVE  Goal
      BY <3>1, <3>3 DEF ClaimRead, ClaimSnapshot
    <3>4. ASSUME NEW w \in Worker, NEW a \in Attempt, ReleaseRead(t, w, a)
          PROVE  Goal
      BY <3>1, <3>4 DEF ReleaseRead, ReleaseSnapshot
    <3>5. CASE HeartbeatWrite(t)
      BY <2>1, <3>5 DEF HeartbeatWrite
    <3>6. CASE ClaimLost(t)
      BY <2>1, <3>6 DEF ClaimLost, Refuse
    <3>7. CASE ClaimWrite(t)
      <4>1. task' = "running" /\ UNCHANGED worktree /\ Finish(t)
        BY <3>7 DEF ClaimWrite
      <4>2. \A b \in Attempt : status'[b] \in {status[b], "running_worker"}
        BY <3>7 DEF ClaimWrite, ResultInv, TypeOK
      <4> QED  BY <4>1, <4>2, PendingStaysBacked DEF ResultInv, ProtectedStatusHasResult
    <3>8. CASE ReleaseWrite(t)
      <4>1. UNCHANGED <<task, worktree>> /\ Finish(t)
        BY <3>8 DEF ReleaseWrite
      <4>2. \A b \in Attempt : status'[b] \in {status[b]} \union ReleaseStatuses
        BY <3>8 DEF ReleaseWrite, Flush, ResultInv, TypeOK
      <4> QED  BY <4>1, <4>2, PendingStaysBacked
               DEF ResultInv, ProtectedStatusHasResult, ReleaseStatuses
    <3> QED  BY <2>4, <3>2, <3>3, <3>4, <3>5, <3>6, <3>7, <3>8 DEF WorkerStep
  <2>5. ASSUME NEW t \in Thread, StatusStep(t)
        PROVE  Goal
    <3>1. ASSUME NEW a \in Attempt, UpdateAttemptRead(t, a)
          PROVE  Goal
      BY <3>1, BeginKeepsResults DEF UpdateAttemptRead, Backed
    <3>2. CASE UpdateTaskRead(t)
      BY <3>2, BeginKeepsResults
         DEF UpdateTaskRead, Backed, ResultInv, ProtectedStatusHasResult, ReviewedTask, SomeResult
    <3>3. CASE UpdateAttemptWrite(t) \/ UpdateTaskWrite(t)
      BY <3>3, StatusWritesKeepResults, PendingStaysBacked
         DEF UpdateAttemptWrite, UpdateTaskWrite
    <3>4. CASE UpdateDenied(t) \/ NumberTaken(t)
      BY <2>1, <3>4 DEF UpdateDenied, NumberTaken, Refuse
    <3>5. CASE CreateAttemptRead(t)
      BY <3>5, BeginKeepsResults DEF CreateAttemptRead, Backed
    <3>6. CASE CreateAttemptWrite(t)
      <4>1. UNCHANGED <<task, worktree>> /\ Finish(t)
        BY <3>6 DEF CreateAttemptWrite
      <4>2. \A b \in Attempt : status'[b] \in {status[b], "created"}
        BY <3>6 DEF CreateAttemptWrite, ResultInv, TypeOK
      <4> QED  BY <4>1, <4>2, PendingStaysBacked DEF ResultInv, ProtectedStatusHasResult
    <3> QED  BY <2>5, <3>1, <3>2, <3>3, <3>4, <3>5, <3>6 DEF StatusStep
  <2>6. ASSUME NEW t \in Thread, ResultStep(t)
        PROVE  Goal
    <3>1. ASSUME NEW a \in Attempt, CreateWorktreeRead(t, a)
          PROVE  Goal
      BY <3>1, BeginKeepsResults DEF CreateWorktreeRead, Backed
    <3>2. ASSUME NEW a \in Attempt, CommitResultRead(t, a)
          PROVE  Goal
      BY <3>2, BeginKeepsResults DEF CommitResultRead, ResultRead, Backed
    <3>3. ASSUME NEW a \in Attempt, NEW op \in {"accept", "reject"}, AttemptDecisionRead(t, op, a)
          PROVE  Goal
      BY <3>3, BeginKeepsResults DEF AttemptDecisionRead, ResultRead, Backed
    <3>4. ASSUME NEW a \in Attempt, NEW op \in {"review_reject", "squash"},
                 ReviewDecisionRead(t, op, a)
          PROVE  Goal
      BY <3>4, BeginKeepsResults DEF ReviewDecisionRead, ResultRead, Backed
    <3>5. CASE CreateWorktreeWrite(t)
      <4>1. UNCHANGED task /\ Finish(t)
        BY <3>5 DEF CreateWorktreeWrite
      <4>2. \A b \in Attempt : worktree[b] = "committed" => worktree'[b] = "committed"
        BY <3>5 DEF CreateWorktreeWrite, ResultInv, TypeOK
      <4>3. \A b \in Attempt : status'[b] \in {status[b], "running_worker"}
        BY <3>5 DEF CreateWorktreeWrite, Flush, ResultInv, TypeOK
      <4> QED  BY <4>1, <4>2, <4>3, PendingStaysBacked DEF ResultInv, ProtectedStatusHasResult
    <3>6. CASE CommitResultWrite(t)
      <4>1. request[t].attempt \in Attempt /\ Finish(t)
        BY <3>6, RequestKinds DEF CommitResultWrite, ResultRequest, ResultInv, TypeOK
      <4>2. /\ worktree'[request[t].attempt] = "committed"
            /\ \A b \in Attempt : worktree[b] = "committed" => worktree'[b] = "committed"
        BY <3>6, <4>1 DEF CommitResultWrite, ResultInv, TypeOK
      <4>3. \A b \in Attempt : b # request[t].attempt => status'[b] = status[b]
        BY <3>6 DEF CommitResultWrite, ResultInv, TypeOK
      <4> QED  BY <4>1, <4>2, <4>3, PendingStaysBacked DEF ResultInv, ProtectedStatusHasResult
    <3>7. CASE CommitOutOfScope(t)
      <4>1. UNCHANGED <<task, worktree>> /\ Finish(t)
        BY <3>7 DEF CommitOutOfScope
      <4>2. \A b \in Attempt : status'[b] \in {status[b], "worker_failed"}
        BY <3>7 DEF CommitOutOfScope, Flush, ResultInv, TypeOK
      <4> QED  BY <4>1, <4>2, PendingStaysBacked DEF ResultInv, ProtectedStatusHasResult
    <3>8. CASE DecisionWrite(t)
      BY <3>8, StatusWritesKeepResults, PendingStaysBacked DEF DecisionWrite
    <3> QED  BY <2>6, <3>1, <3>2, <3>3, <3>4, <3>5, <3>6, <3>7, <3>8 DEF ResultStep
  <2>7. ASSUME NEW t \in Thread, Abandon(t)
        PROVE  Goal
    BY <2>1, <2>7 DEF Abandon, Refuse
  <2>8. CASE Tick
    BY <2>1, <2>8 DEF Tick
  <2>9. CASE UNCHANGED vars
    BY <2>1, <2>9 DEF vars
  <2>10. ASSUME NEW t \in Thread, RetryStep(t)
         PROVE  Goal
    <3>1. ASSUME NEW a \in Attempt, FollowUpRead(t, a)
          PROVE  Goal
      BY <3>1, BeginKeepsResults DEF FollowUpRead, Backed
    <3>2. CASE FollowUpWrite(t)
      <4>1. UNCHANGED <<task, worktree>> /\ Finish(t)
        BY <3>2 DEF FollowUpWrite
      <4>2. \A b \in Attempt : status'[b] \in {status[b], "created", "rejected"}
        BY <3>2 DEF FollowUpWrite, Flush, ResultInv, TypeOK
      <4> QED  BY <4>1, <4>2, PendingStaysBacked DEF ResultInv, ProtectedStatusHasResult
    <3>3. CASE FollowUpNumber(t)
      <4> DEFINE r == [op |-> "follow_up", attempt |-> request[t].attempt,
                       seen |-> request[t].seen, known |-> Attempts]
      <4>1. UNCHANGED <<task, status, worktree>> /\ request' = [request EXCEPT ![t] = r]
        BY <3>3 DEF FollowUpNumber
      <4>2. \A x \in Thread : request'[x] \in {request[x], r}
        BY <4>1 DEF ResultInv, TypeOK
      <4> QED  BY <4>1, <4>2
               DEF ResultInv, ProtectedStatusHasResult, PendingBacked, Backed, SomeResult
    <3> QED  BY <2>10, <3>1, <3>2, <3>3 DEF RetryStep
  <2> QED  BY <2>2, <2>3, <2>4, <2>5, <2>6, <2>7, <2>8, <2>9, <2>10 DEF Next
<1>3. ResultInv => ProtectedStatusHasResult
  BY DEF ResultInv
<1> QED  BY <1>1, <1>2, <1>3, TypeCorrect, PTL DEF Spec

=============================================================================
