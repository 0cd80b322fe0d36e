-------------------------- MODULE OneRequestProofs --------------------------
(***************************************************************************)
(* What WorkClaims promises about requests that go by what they have read: *)
(* it holds while no other request gets in between, so it needs an order   *)
(* of the requests.  A worker that waits for its answers is enough for the *)
(* leases, as long as the owner's start tool takes over none; one request  *)
(* at a time about each attempt is enough for what concerns one attempt,   *)
(* that tool included; and only a follow-up, which looks at all of them,   *)
(* needs to be alone.  For any number of workers, attempts and threads,    *)
(* any lease length and any mix of requests, with registrations and        *)
(* revocations, and the clock, at any moment.                              *)
(***************************************************************************)
EXTENDS WorkClaimsProofs

USE DEF runVars

-----------------------------------------------------------------------------
(* What a request has checked *)

\* A worker's leases that end after a time are one at most.
OneLeaseAfter(w, now) == \A a, b \in Attempt : /\ claimedBy[a] = w /\ lease[a] > now
                                               /\ claimedBy[b] = w /\ lease[b] > now
                                               => a = b

HeartbeatChecked(r) == OneLeaseAfter(r.worker, r.now)

ClaimsAlone(r) ==
  \A b \in Attempt \ {r.attempt} : ~(claimedBy[b] = r.worker /\ lease[b] > r.now)

\* What a request that may lengthen a lease has checked about the worker's others.
LeaseChecked(r) == /\ r.op = "heartbeat" => HeartbeatChecked(r)
                   /\ r.op = "claim" => ClaimsAlone(r)

\* The requests that are about one attempt, and those of them that have loaded its row.
LoadingOps == {"release", "update_attempt", "create_worktree", "manual_start", "follow_up_check",
               "follow_up", "end_run", "commit_result", "accept", "reject", "review_reject",
               "squash"}
AttemptOps == LoadingOps \union {"claim", "start_task_attempt", "run_task_attempt"}

About(r, a) == r.op \in AttemptOps /\ r.attempt = a

\* What a request has checked about the attempt that it is about.
AttemptChecked(r) ==
  /\ r.op \in LoadingOps => Exists(r.attempt) /\ status[r.attempt] = r.seen
  /\ r.op = "claim" => /\ Exists(r.attempt)
                       /\ claimedBy[r.attempt] = NoWorker
                            => status[r.attempt] \in FreshClaimStatuses
  /\ r.op = "release" => /\ claimedBy[r.attempt] = r.worker
                         /\ r.leased <=> lease[r.attempt] # NoLease
  /\ r.op \in {"follow_up_check", "follow_up"} => r.seen \in FollowUpSourceStatuses
  /\ r.op \in {"create_worktree", "commit_result"} => claimedBy[r.attempt] # NoWorker
  /\ r.op \in {"accept", "reject", "review_reject", "squash"} => r.seen \in ReviewableStatuses
  /\ r.op = "end_run" => IF r.run = "tool" THEN toolRun[r.attempt] = "running"
                                          ELSE r.attempt \in manualRun

\* What a follow-up has checked about the others.
FollowUpChecked(r) ==
  r.op \in {"follow_up_check", "follow_up"} =>
    \A b \in Attempt \ {r.attempt} : status[b] \notin RetryBlockingStatuses

-----------------------------------------------------------------------------
(* The steps *)

\* A step that no request takes.
Outside == /\ request' = request
           /\ UNCHANGED <<claimedBy, lease, status, toolRun, manualRun>>
           /\ clock <= clock'

\* What a request has read allows it; a heartbeat goes by what is so of every worker.
Checked(r) == /\ AttemptChecked(r) /\ FollowUpChecked(r)
              /\ OneActiveClaimPerWorker => LeaseChecked(r)

Starts(t) == \E r : Begin(t, r) /\ Checked(r)

\* What a request may do to an attempt that it is not about: heartbeats renew
\* leases, and an attempt is created.
Untouched(a) == /\ claimedBy'[a] = claimedBy[a]
                /\ lease'[a] = NoLease <=> lease[a] = NoLease
                /\ Exists(a) => status'[a] = status[a]
                /\ toolRun'[a] = toolRun[a]
                /\ a \in manualRun' <=> a \in manualRun

Ends(t) == /\ Finish(t)
           /\ \/ UNCHANGED <<clock, claimedBy, lease>>
              \/ HeartbeatWrite(t) \/ ClaimWrite(t) \/ ReleaseWrite(t) \/ StartTaskAttempt(t)
           /\ \A a \in Attempt : About(request[t], a) \/ Untouched(a)

\* What a handler has read is what it goes by.
LEMMA ReadsCheck ==
  ASSUME NEW t \in Thread
  PROVE  /\ \A w \in Worker : HeartbeatRead(t, w) => Starts(t)
         /\ \A w \in Worker, a \in Attempt : ClaimRead(t, w, a) => Starts(t)
         /\ \A w \in Worker, a \in Attempt : ReleaseRead(t, w, a) => Starts(t)
         /\ \A a \in Attempt : FollowUpRead(t, a) => Starts(t)
         /\ \A a \in Attempt : UpdateAttemptRead(t, a) => Starts(t)
         /\ \A a \in Attempt : CreateWorktreeRead(t, a) => Starts(t)
         /\ \A a \in Attempt : CommitResultRead(t, a) => Starts(t)
         /\ \A a, op : a \in Attempt /\ AttemptDecisionRead(t, op, a) => Starts(t)
         /\ \A a, op : a \in Attempt /\ ReviewDecisionRead(t, op, a) => Starts(t)
         /\ \A w \in Worker, a \in Attempt : StartTaskAttemptCall(t, w, a) => Starts(t)
         /\ \A a \in Attempt : RunTaskAttemptCall(t, a) => Starts(t)
         /\ \A a \in Attempt : ManualStartRead(t, a) => Starts(t)
         /\ \A a \in Attempt, run \in {"tool", "manual"} : EndRunRead(t, a, run) => Starts(t)
         /\ UpdateTaskRead(t) => Starts(t)
         /\ CreateAttemptRead(t) => Starts(t)
<1>1. ASSUME NEW w \in Worker, HeartbeatRead(t, w) PROVE Starts(t)
  <2> DEFINE r == [op |-> "heartbeat", worker |-> w, now |-> clock]
  <2>1. OneActiveClaimPerWorker => OneLeaseAfter(w, clock)
    BY NoWorkerAssumption DEF OneActiveClaimPerWorker, OneLeaseAfter
  <2>2. Checked(r)
    BY <2>1 DEF Checked, AttemptChecked, LoadingOps, FollowUpChecked, LeaseChecked,
                HeartbeatChecked
  <2> QED  BY <1>1, <2>2 DEF HeartbeatRead, Starts
<1>2. ASSUME NEW w \in Worker, NEW a \in Attempt, ClaimRead(t, w, a) PROVE Starts(t)
  <2> DEFINE r == ClaimSnapshot(w, a)
  <2>1. r.op = "claim" /\ r.worker = w /\ r.attempt = a /\ r.now = clock
    BY DEF ClaimSnapshot
  <2>2. /\ Exists(a) /\ (claimedBy[a] = NoWorker => status[a] \in FreshClaimStatuses)
        /\ ClaimsAlone(r)
    BY <1>2, <2>1 DEF ClaimRead, ClaimsNothingElse, ClaimsAlone
  <2>3. Begin(t, r)
    BY <1>2 DEF ClaimRead
  <2> HIDE DEF r
  <2>4. Checked(r)
    BY <2>1, <2>2 DEF Checked, AttemptChecked, LoadingOps, FollowUpChecked, LeaseChecked
  <2> QED  BY <2>3, <2>4 DEF Starts
<1>3. ASSUME NEW w \in Worker, NEW a \in Attempt, ReleaseRead(t, w, a) PROVE Starts(t)
  <2>1. Checked(ReleaseSnapshot(w, a))
    BY <1>3 DEF ReleaseRead, ReleaseSnapshot, Checked, AttemptChecked, LoadingOps,
                FollowUpChecked, LeaseChecked
  <2> QED  BY <1>3, <2>1 DEF ReleaseRead, Starts
<1>4. ASSUME NEW a \in Attempt, FollowUpRead(t, a) PROVE Starts(t)
  <2> DEFINE r == [op |-> "follow_up_check", attempt |-> a, seen |-> status[a]]
  <2>1. Exists(a)
    BY <1>4 DEF FollowUpRead, FollowUpSourceStatuses, ReviewableStatuses, Exists
  <2>2. FollowUpChecked(r)
    BY <1>4 DEF FollowUpRead, FollowUpChecked
  <2>3. Checked(r)
    BY <1>4, <2>1, <2>2 DEF FollowUpRead, Checked, AttemptChecked, LeaseChecked
  <2> QED  BY <1>4, <2>3 DEF FollowUpRead, Starts
<1>5. ASSUME NEW a \in Attempt,
             \/ UpdateAttemptRead(t, a) \/ CreateWorktreeRead(t, a) \/ CommitResultRead(t, a)
             \/ ManualStartRead(t, a)
      PROVE  Starts(t)
  <2> USE DEF Checked, AttemptChecked, LoadingOps, FollowUpChecked, LeaseChecked
  <2>1. CASE UpdateAttemptRead(t, a)
    <3>1. Checked([op |-> "update_attempt", attempt |-> a, seen |-> status[a]])
      BY <2>1 DEF UpdateAttemptRead
    <3> QED  BY <2>1, <3>1 DEF UpdateAttemptRead, Starts
  <2>2. CASE CreateWorktreeRead(t, a)
    <3>1. Checked([op |-> "create_worktree", attempt |-> a, seen |-> status[a]])
      BY <2>2 DEF CreateWorktreeRead
    <3> QED  BY <2>2, <3>1 DEF CreateWorktreeRead, Starts
  <2>3. CASE CommitResultRead(t, a)
    <3>1. Checked([op |-> "commit_result", attempt |-> a, seen |-> status[a], seenTask |-> task])
      BY <2>3 DEF CommitResultRead
    <3> QED  BY <2>3, <3>1 DEF CommitResultRead, ResultRead, Starts
  <2>4. CASE ManualStartRead(t, a)
    <3>1. Checked([op |-> "manual_start", attempt |-> a, seen |-> status[a]])
      BY <2>4 DEF ManualStartRead
    <3> QED  BY <2>4, <3>1 DEF ManualStartRead, Starts
  <2> QED  BY <1>5, <2>1, <2>2, <2>3, <2>4
<1>6. ASSUME NEW a \in Attempt, NEW op,
             AttemptDecisionRead(t, op, a) \/ ReviewDecisionRead(t, op, a)
      PROVE  Starts(t)
  <2> DEFINE r == [op |-> op, attempt |-> a, seen |-> status[a], seenTask |-> task]
  <2>1. /\ op \in {"accept", "reject", "review_reject", "squash"}
        /\ status[a] \in ReviewableStatuses
    BY <1>6 DEF AttemptDecisionRead, ReviewDecisionRead, ReviewableStatuses
  <2>2. Checked(r)
    BY <2>1 DEF Checked, AttemptChecked, FollowUpChecked, LeaseChecked, Exists,
                ReviewableStatuses
  <2> QED  BY <1>6, <2>2 DEF AttemptDecisionRead, ReviewDecisionRead, ResultRead, Starts
<1>7. ASSUME UpdateTaskRead(t) \/ CreateAttemptRead(t) PROVE Starts(t)
  <2>1. /\ Checked([op |-> "update_task", seenTask |-> task])
        /\ Checked([op |-> "create_attempt", known |-> Attempts])
    BY DEF Checked, AttemptChecked, LoadingOps, FollowUpChecked, LeaseChecked
  <2> QED  BY <1>7, <2>1 DEF UpdateTaskRead, CreateAttemptRead, Starts
<1>8. ASSUME NEW w \in Worker, NEW a \in Attempt,
             StartTaskAttemptCall(t, w, a) \/ RunTaskAttemptCall(t, a)
      PROVE  Starts(t)
  <2>1. /\ Checked([op |-> "start_task_attempt", worker |-> w, attempt |-> a])
        /\ Checked([op |-> "run_task_attempt", attempt |-> a])
    BY DEF Checked, AttemptChecked, LoadingOps, FollowUpChecked, LeaseChecked
  <2> QED  BY <1>8, <2>1 DEF StartTaskAttemptCall, RunTaskAttemptCall, Starts
<1>9. ASSUME NEW a \in Attempt, RunTaskAttemptCall(t, a) PROVE Starts(t)
  <2>1. Checked([op |-> "run_task_attempt", attempt |-> a])
    BY DEF Checked, AttemptChecked, LoadingOps, FollowUpChecked, LeaseChecked
  <2> QED  BY <1>9, <2>1 DEF RunTaskAttemptCall, Starts
<1>10. ASSUME NEW a \in Attempt, NEW run \in {"tool", "manual"}, EndRunRead(t, a, run)
       PROVE  Starts(t)
  <2>1. Checked([op |-> "end_run", attempt |-> a, run |-> run, seen |-> status[a]])
    BY <1>10 DEF EndRunRead, Checked, AttemptChecked, LoadingOps, FollowUpChecked, LeaseChecked
  <2> QED  BY <1>10, <2>1 DEF EndRunRead, Starts
<1> QED  BY <1>1, <1>2, <1>3, <1>4, <1>5, <1>6, <1>7, <1>8, <1>9, <1>10

\* A write touches the attempt that its request is about.
LEMMA WritesAbout ==
  ASSUME TypeOK, NEW t \in Thread, NEW a \in Attempt, ~About(request[t], a)
  PROVE  /\ HeartbeatWrite(t) \/ ClaimWrite(t) \/ ReleaseWrite(t) => Untouched(a)
         /\ CreateAttemptWrite(t) \/ UpdateAttemptWrite(t) \/ UpdateTaskWrite(t) => Untouched(a)
         /\ CreateWorktreeWrite(t) \/ CommitResultWrite(t) \/ CommitOutOfScope(t) => Untouched(a)
         /\ DecisionWrite(t) \/ FollowUpWrite(t) \/ Refuse(t) => Untouched(a)
         /\ StartTaskAttempt(t) \/ RunTaskAttempt(t) => Untouched(a)
         /\ ManualStartWrite(t) \/ EndRunWrite(t) => Untouched(a)
<1> DEFINE r == request[t]
<1> USE DEF About, AttemptOps, LoadingOps, Untouched, TypeOK, claimVars
<1>1. r \in Request
  OBVIOUS
<1>2. CASE HeartbeatWrite(t)
  <2>1. r.now \in Nat
    BY <1>1, <1>2, RequestKinds DEF HeartbeatWrite, HeartbeatRequest
  <2> QED  BY <1>2, <2>1, LeaseAssumption DEF HeartbeatWrite, NoLease
<1>3. CASE ClaimWrite(t) \/ ReleaseWrite(t)
  BY <1>3 DEF ClaimWrite, ReleaseWrite
<1>4. CASE CreateAttemptWrite(t) \/ UpdateAttemptWrite(t) \/ UpdateTaskWrite(t)
  BY <1>4 DEF CreateAttemptWrite, UpdateAttemptWrite, UpdateTaskWrite, Attempts
<1>5. CASE CreateWorktreeWrite(t)
  BY <1>5 DEF CreateWorktreeWrite
<1>6. CASE CommitResultWrite(t) \/ CommitOutOfScope(t)
  BY <1>6 DEF CommitResultWrite, CommitOutOfScope, RunReports
<1>7. CASE DecisionWrite(t) \/ Refuse(t)
  BY <1>7 DEF DecisionWrite, DecidedStatus, Refuse
<1>8. CASE FollowUpWrite(t)
  BY <1>8 DEF FollowUpWrite, Attempts
<1>9. CASE StartTaskAttempt(t)
  BY <1>9 DEF StartTaskAttempt
<1>10. CASE RunTaskAttempt(t)
  BY <1>10 DEF RunTaskAttempt, Requeue, CompleteMock, HandOff, WorktreeFails
<1>11. CASE ManualStartWrite(t) \/ EndRunWrite(t)
  BY <1>11 DEF ManualStartWrite, EndRunWrite
<1> QED  BY <1>2, <1>3, <1>4, <1>5, <1>6, <1>7, <1>8, <1>9, <1>10, <1>11

\* A step is outside of the requests, or begins or ends one, or gives a follow-up its
\* number.
LEMMA Steps ==
  ASSUME TypeOK, [Next]_vars
  PROVE  Outside \/ \E t \in Thread : Starts(t) \/ FollowUpNumber(t) \/ Ends(t)
<1>1. CASE UNCHANGED vars
  BY <1>1 DEF vars, Outside, TypeOK
<1>2. ASSUME NEW w \in Worker, RegisterWorker(w) \/ RevokeWorker(w) PROVE Outside
  BY <1>2 DEF RegisterWorker, RevokeWorker, Outside, claimVars, TypeOK
<1>3. CASE Tick
  BY <1>3 DEF Tick, Outside, claimVars, TypeOK
<1>4. ASSUME NEW t \in Thread, WorkerStep(t) PROVE Starts(t) \/ Ends(t)
  <2>1. CASE HeartbeatWrite(t) \/ ClaimWrite(t) \/ ReleaseWrite(t)
    BY <2>1, WritesAbout DEF HeartbeatWrite, ClaimWrite, ReleaseWrite, Ends
  <2>2. CASE ClaimLost(t)
    BY <2>2, WritesAbout DEF ClaimLost, Refuse, Ends, claimVars
  <2> QED  BY <1>4, <2>1, <2>2, ReadsCheck DEF WorkerStep
<1>5. ASSUME NEW t \in Thread, StatusStep(t) PROVE Starts(t) \/ Ends(t)
  <2>1. CASE UpdateDenied(t) \/ NumberTaken(t)
    BY <2>1, WritesAbout DEF UpdateDenied, NumberTaken, Refuse, Ends, claimVars
  <2>2. CASE CreateAttemptWrite(t) \/ UpdateAttemptWrite(t) \/ UpdateTaskWrite(t)
    BY <2>2, WritesAbout DEF CreateAttemptWrite, UpdateAttemptWrite, UpdateTaskWrite, Ends,
                             claimVars
  <2> QED  BY <1>5, <2>1, <2>2, ReadsCheck DEF StatusStep
<1>6. ASSUME NEW t \in Thread, ResultStep(t) PROVE Starts(t) \/ Ends(t)
  <2>1. CASE \/ CreateWorktreeWrite(t) \/ CommitResultWrite(t) \/ CommitOutOfScope(t)
             \/ DecisionWrite(t)
    BY <2>1, WritesAbout DEF CreateWorktreeWrite, CommitResultWrite, CommitOutOfScope,
                             DecisionWrite, Ends, claimVars
  <2> QED  BY <1>6, <2>1, ReadsCheck DEF ResultStep
<1>7. ASSUME NEW t \in Thread, RetryStep(t) \/ Abandon(t)
      PROVE  Starts(t) \/ FollowUpNumber(t) \/ Ends(t)
  <2>1. CASE Abandon(t)
    BY <2>1, WritesAbout DEF Abandon, Refuse, Ends, claimVars
  <2>2. CASE FollowUpWrite(t)
    BY <2>2, WritesAbout DEF FollowUpWrite, Ends, claimVars
  <2> QED  BY <1>7, <2>1, <2>2, ReadsCheck DEF RetryStep
<1>8. ASSUME NEW t \in Thread, RunStep(t) PROVE Starts(t) \/ Ends(t)
  <2>1. CASE StartTaskAttempt(t) \/ RunTaskAttempt(t) \/ ManualStartWrite(t) \/ EndRunWrite(t)
    BY <2>1, WritesAbout DEF StartTaskAttempt, RunTaskAttempt, ManualStartWrite, EndRunWrite,
                             Ends, claimVars
  <2> QED  BY <1>8, <2>1, ReadsCheck DEF RunStep
<1> QED  BY <1>1, <1>2, <1>3, <1>4, <1>5, <1>6, <1>7, <1>8 DEF Next

-----------------------------------------------------------------------------
(* One request of each worker, in any number of threads *)

\* A worker sends no heartbeat and no claim before its last one is answered.
WorkersWait ==
  \A t, u \in Thread : /\ request[t].op \in {"heartbeat", "claim"}
                       /\ request[u].op \in {"heartbeat", "claim"}
                       /\ request[t].worker = request[u].worker
                       => t = u

\* worker.start_task_attempt would take over no lease.
StartableUnleased == \A a \in Attempt : Startable(a) => lease[a] = NoLease

\* What all threads have checked about leases is still true.
WaitingInv == LeaseInv /\ OneActiveClaimPerWorker /\ \A t \in Thread : LeaseChecked(request[t])

\* A write that lengthens no lease of a worker and gives it no leased attempt leaves
\* what was checked about that worker's leases as it was.
LEMMA OthersKeep ==
  ASSUME NEW r \in Request, LeaseChecked(r),
         r.op \in {"heartbeat", "claim"}
           => \A a \in Attempt : claimedBy'[a] = r.worker /\ lease'[a] > r.now
                                 => claimedBy[a] = r.worker /\ lease[a] > r.now
  PROVE  LeaseChecked(r)'
BY DEF LeaseChecked, HeartbeatChecked, OneLeaseAfter, ClaimsAlone

\* Heartbeats and claims of another worker, releases, and the start of an attempt that
\* has no lease, are such writes.
LEMMA WritesOfOthers ==
  ASSUME TypeOK, StartableUnleased, NEW t \in Thread,
         HeartbeatWrite(t) \/ ClaimWrite(t) \/ ReleaseWrite(t) \/ StartTaskAttempt(t),
         NEW w \in Worker, NEW now \in Nat,
         request[t].op \in {"heartbeat", "claim"} => request[t].worker # w,
         NEW a \in Attempt, claimedBy'[a] = w, lease'[a] > now
  PROVE  claimedBy[a] = w /\ lease[a] > now
<1>1. w # NoWorker
  BY NoWorkerAssumption
<1>2. CASE HeartbeatWrite(t)
  BY <1>2 DEF HeartbeatWrite, TypeOK
<1>3. CASE ClaimWrite(t)
  BY <1>3 DEF ClaimWrite, TypeOK
<1>4. CASE ReleaseWrite(t)
  BY <1>1, <1>4 DEF ReleaseWrite, TypeOK, NoLease
<1>5. CASE StartTaskAttempt(t)
  <2>1. request[t].attempt \in Attempt
    BY <1>5, RequestKinds DEF StartTaskAttempt, StartCall, TypeOK
  <2>2. a # request[t].attempt
    BY <1>5, <2>1 DEF StartTaskAttempt, StartableUnleased, NoLease
  <2> QED  BY <1>5, <2>2 DEF StartTaskAttempt, TypeOK
<1> QED  BY <1>2, <1>3, <1>4, <1>5

\* The writes of heartbeat, claim, release and start keep what they have checked.
LEMMA WritesKeep ==
  ASSUME LeaseInv, OneActiveClaimPerWorker, StartableUnleased,
         NEW t \in Thread, LeaseChecked(request[t]),
         HeartbeatWrite(t) \/ ClaimWrite(t) \/ ReleaseWrite(t) \/ StartTaskAttempt(t)
  PROVE  OneActiveClaimPerWorker'
<1> DEFINE r == request[t]
<1>1. /\ r \in Request
      /\ clock \in Nat /\ clock' = clock /\ LeaseTTL \in Nat
      /\ lease \in [Attempt -> Nat] /\ claimedBy \in [Attempt -> Worker \union {NoWorker}]
  BY LeaseAssumption
     DEF LeaseInv, TypeOK, HeartbeatWrite, ClaimWrite, ReleaseWrite, StartTaskAttempt
<1>2. CASE HeartbeatWrite(t)
  <2>1. /\ r.now \in Nat /\ r.now <= clock /\ OneLeaseAfter(r.worker, r.now)
        /\ claimedBy' = claimedBy
        /\ lease' = [a \in Attempt |-> IF claimedBy[a] = r.worker /\ lease[a] > r.now
                                       THEN r.now + LeaseTTL ELSE lease[a]]
    BY <1>1, <1>2 DEF HeartbeatWrite, LeaseChecked, HeartbeatChecked, LeaseInv, TimeRead
  <2> SUFFICES ASSUME NEW a \in Attempt, NEW b \in Attempt,
                      claimedBy[a] = claimedBy[b], claimedBy[a] # NoWorker,
                      lease'[a] > clock, lease'[b] > clock
               PROVE  a = b
    BY <1>1, <2>1 DEF OneActiveClaimPerWorker
  <2>2. CASE claimedBy[a] = r.worker
    <3>1. lease[a] > r.now /\ lease[b] > r.now
      BY <1>1, <2>1, <2>2
    <3> QED  BY <2>1, <2>2, <3>1 DEF OneLeaseAfter
  <2>3. CASE claimedBy[a] # r.worker
    BY <1>1, <2>1, <2>3 DEF OneActiveClaimPerWorker
  <2> QED  BY <2>2, <2>3
<1>3. CASE ClaimWrite(t)
  <2>1. /\ r.now \in Nat /\ r.now <= clock /\ r.attempt \in Attempt /\ ClaimsAlone(r)
        /\ claimedBy' = [claimedBy EXCEPT ![r.attempt] = r.worker]
        /\ lease' = [lease EXCEPT ![r.attempt] = r.now + LeaseTTL]
    BY <1>1, <1>3, RequestKinds
       DEF ClaimWrite, ClaimRequest, LeaseChecked, LeaseInv, TimeRead
  <2> SUFFICES ASSUME NEW a \in Attempt, NEW b \in Attempt, a # b,
                      claimedBy'[a] = claimedBy'[b], claimedBy'[a] # NoWorker,
                      lease'[a] > clock, lease'[b] > clock
               PROVE  FALSE
    BY <1>1 DEF OneActiveClaimPerWorker
  <2>2. ASSUME NEW c \in Attempt \ {r.attempt}
        PROVE  claimedBy'[c] = claimedBy[c] /\ lease'[c] = lease[c]
    BY <1>1, <2>1
  <2>3. ASSUME NEW c \in Attempt \ {r.attempt}, claimedBy[c] = r.worker, lease[c] > clock
        PROVE  FALSE
    BY <1>1, <2>1, <2>3 DEF ClaimsAlone
  <2>4. claimedBy'[r.attempt] = r.worker
    BY <1>1, <2>1
  <2> QED  BY <1>1, <2>1, <2>2, <2>3, <2>4 DEF OneActiveClaimPerWorker
<1>4. CASE ReleaseWrite(t)
  <2>1. /\ claimedBy' = [claimedBy EXCEPT ![r.attempt] = NoWorker]
        /\ lease' \in {lease, [lease EXCEPT ![r.attempt] = NoLease]}
    BY <1>4 DEF ReleaseWrite
  <2>2. \A a \in Attempt : lease'[a] > clock => lease'[a] = lease[a]
    BY <1>1, <2>1 DEF NoLease
  <2>3. \A a \in Attempt : claimedBy'[a] \in {claimedBy[a], NoWorker}
    BY <1>1, <2>1
  <2> QED  BY <1>1, <2>2, <2>3 DEF OneActiveClaimPerWorker
<1>5. CASE StartTaskAttempt(t)
  <2>1. r.attempt \in Attempt
    BY <1>1, <1>5, RequestKinds DEF StartTaskAttempt, StartCall
  <2>2. lease' = lease /\ lease[r.attempt] = 0
    BY <1>5, <2>1 DEF StartTaskAttempt, StartableUnleased, NoLease
  <2>3. \A a \in Attempt : lease[a] > clock => claimedBy'[a] = claimedBy[a]
    BY <1>1, <1>5, <2>2 DEF StartTaskAttempt
  <2> QED  BY <1>1, <2>2, <2>3 DEF OneActiveClaimPerWorker
<1> QED  BY <1>2, <1>3, <1>4, <1>5

\* Every step keeps WaitingInv while the workers wait.
LEMMA WaitingInvStep ==
  ASSUME WaitingInv, WorkersWait, StartableUnleased, LeaseInv', [Next]_vars
  PROVE  WaitingInv'
<1> SUFFICES OneActiveClaimPerWorker' /\ \A t \in Thread : LeaseChecked(request[t])'
  BY DEF WaitingInv
<1>1. TypeOK /\ \A t \in Thread : request[t] \in Request /\ LeaseChecked(request[t])
  BY DEF WaitingInv, LeaseInv, TypeOK
<1>2. CASE Outside
  <2>1. OneActiveClaimPerWorker'
    BY <1>1, <1>2 DEF WaitingInv, LeaseInv, TypeOK, Outside, OneActiveClaimPerWorker
  <2>2. ASSUME NEW t \in Thread PROVE LeaseChecked(request[t])'
    BY <1>1, <1>2 DEF Outside, LeaseChecked, HeartbeatChecked, OneLeaseAfter, ClaimsAlone
  <2> QED  BY <2>1, <2>2
<1>3. ASSUME NEW u \in Thread, Starts(u)
      PROVE  OneActiveClaimPerWorker' /\ \A t \in Thread : LeaseChecked(request[t])'
  <2>1. PICK r : Begin(u, r) /\ Checked(r)
    BY <1>3 DEF Starts
  <2>2. /\ request' = [request EXCEPT ![u] = r]
        /\ UNCHANGED <<clock, claimedBy, lease>>
    BY <2>1 DEF Begin, claimVars
  <2>3. LeaseChecked(r)
    BY <2>1 DEF Checked, WaitingInv
  <2>4. ASSUME NEW t \in Thread PROVE LeaseChecked(request[t])'
    <3>1. request'[t] = r \/ request'[t] = request[t]
      BY <1>1, <2>2 DEF TypeOK
    <3>2. LeaseChecked(request'[t])
      BY <1>1, <2>3, <3>1
    <3> QED  BY <2>2, <3>2 DEF LeaseChecked, HeartbeatChecked, OneLeaseAfter, ClaimsAlone
  <2> QED  BY <2>2, <2>4 DEF WaitingInv, OneActiveClaimPerWorker
<1>4. ASSUME NEW u \in Thread, Ends(u)
      PROVE  OneActiveClaimPerWorker' /\ \A t \in Thread : LeaseChecked(request[t])'
  <2>1. request' = [request EXCEPT ![u] = Idle]
    BY <1>4 DEF Ends, Finish
  <2>2. OneActiveClaimPerWorker'
    BY <1>1, <1>4, WritesKeep DEF Ends, WaitingInv, OneActiveClaimPerWorker
  <2>3. ASSUME NEW t \in Thread \ {u} PROVE LeaseChecked(request[t])'
    <3>1. PICK r \in Request : request[t] = r /\ request'[t] = r /\ LeaseChecked(r)
      BY <1>1, <2>1 DEF TypeOK
    <3>2. CASE UNCHANGED <<clock, claimedBy, lease>>
      BY <1>1, <3>1, <3>2 DEF LeaseChecked, HeartbeatChecked, OneLeaseAfter, ClaimsAlone
    <3>3. CASE HeartbeatWrite(u) \/ ClaimWrite(u) \/ ReleaseWrite(u) \/ StartTaskAttempt(u)
      <4>1. ASSUME r.op \in {"heartbeat", "claim"}, NEW a \in Attempt,
                   claimedBy'[a] = r.worker, lease'[a] > r.now
            PROVE  claimedBy[a] = r.worker /\ lease[a] > r.now
        <5>1. r.worker \in Worker /\ r.now \in Nat
          BY <4>1, RequestKinds DEF HeartbeatRequest, ClaimRequest
        <5>2. request[u].op \in {"heartbeat", "claim"} => request[u].worker # r.worker
          BY <2>3, <3>1, <4>1 DEF WorkersWait
        <5> QED  BY <1>1, <3>3, <4>1, <5>1, <5>2, WritesOfOthers
      <4>2. LeaseChecked(r)'
        BY <3>1, <4>1, OthersKeep
      <4> QED  BY <3>1, <4>2
    <3> QED  BY <1>4, <3>2, <3>3 DEF Ends
  <2>4. LeaseChecked(request[u])'
    BY <1>1, <2>1 DEF TypeOK, LeaseChecked, Idle
  <2> QED  BY <2>2, <2>3, <2>4
<1>5. ASSUME NEW u \in Thread, FollowUpNumber(u)
      PROVE  OneActiveClaimPerWorker' /\ \A t \in Thread : LeaseChecked(request[t])'
  <2>1. UNCHANGED <<clock, claimedBy, lease>>
    BY <1>5 DEF FollowUpNumber, claimVars
  <2>2. ASSUME NEW t \in Thread PROVE LeaseChecked(request[t])'
    <3>1. request'[t].op = "follow_up" \/ request'[t] = request[t]
      BY <1>1, <1>5 DEF FollowUpNumber, TypeOK
    <3> QED  BY <1>1, <2>1, <3>1 DEF LeaseChecked, HeartbeatChecked, OneLeaseAfter, ClaimsAlone
  <2> QED  BY <2>1, <2>2 DEF WaitingInv, OneActiveClaimPerWorker
<1> QED  BY <1>1, <1>2, <1>3, <1>4, <1>5, Steps

-----------------------------------------------------------------------------
(* One request about each attempt, in any number of threads *)

\* No request about an attempt begins before the last one about it is answered.
AttemptsTakeTurns == \A t, u \in Thread, a \in Attempt :
                       About(request[t], a) /\ About(request[u], a) => t = u

\* What all threads have checked about their attempts is still true.
TurnsInv == TypeOK /\ \A t \in Thread : AttemptChecked(request[t])

\* A request about an attempt names one that it has a type for.
LEMMA AboutSome ==
  ASSUME NEW r \in Request, r.op \in AttemptOps
  PROVE  r.attempt \in Attempt /\ About(r, r.attempt)
BY RequestKinds DEF AttemptOps, LoadingOps, About, ClaimRequest, ReleaseRequest, AttemptRequest,
                    RunRequest, StartCall, RunCall, ResultRequest, FollowUpRequest

\* What was checked about an attempt goes by what others leave untouched.
LEMMA AttemptKeeps ==
  ASSUME NEW r \in Request, AttemptChecked(r),
         r.op \in AttemptOps => Untouched(r.attempt)
  PROVE  AttemptChecked(r)'
BY DEF AttemptChecked, AttemptOps, LoadingOps, Untouched, Exists

\* Every step keeps TurnsInv while the attempts take turns.
LEMMA TurnsInvStep ==
  ASSUME TurnsInv, AttemptsTakeTurns, TypeOK', [Next]_vars
  PROVE  TurnsInv'
<1> SUFFICES ASSUME NEW t \in Thread PROVE AttemptChecked(request[t])'
  BY DEF TurnsInv
<1>1. TypeOK /\ request[t] \in Request /\ AttemptChecked(request[t])
  BY DEF TurnsInv, TypeOK
<1>2. CASE Outside
  <2>1. PICK r \in Request : request[t] = r /\ request'[t] = r /\ AttemptChecked(r)
    BY <1>1, <1>2 DEF Outside
  <2>2. AttemptChecked(r)'
    BY <1>2, <2>1, AttemptKeeps DEF Outside, Untouched
  <2> QED  BY <2>1, <2>2
<1>3. ASSUME NEW u \in Thread, Starts(u) PROVE AttemptChecked(request[t])'
  <2>1. PICK r : Begin(u, r) /\ AttemptChecked(r)
    BY <1>3 DEF Starts, Checked
  <2>2. /\ request' = [request EXCEPT ![u] = r]
        /\ UNCHANGED <<status, claimedBy, lease, toolRun, manualRun>>
    BY <2>1 DEF Begin, claimVars
  <2>3. request'[t] = r \/ request'[t] = request[t]
    BY <1>1, <2>2 DEF TypeOK
  <2>4. AttemptChecked(request'[t])
    BY <1>1, <2>1, <2>3
  <2> QED  BY <2>2, <2>4 DEF AttemptChecked, Exists
<1>4. ASSUME NEW u \in Thread, FollowUpNumber(u) PROVE AttemptChecked(request[t])'
  <2>1. PICK c : c = request[u] /\ AttemptChecked(c) /\ c.op = "follow_up_check"
    BY <1>4 DEF FollowUpNumber, TurnsInv
  <2> DEFINE r == [op |-> "follow_up", attempt |-> c.attempt, seen |-> c.seen,
                   known |-> Attempts]
  <2>2. /\ request' = [request EXCEPT ![u] = r]
        /\ UNCHANGED <<status, claimedBy, lease, toolRun, manualRun>>
    BY <1>4, <2>1 DEF FollowUpNumber, claimVars
  <2>3. request'[t] = r \/ request'[t] = request[t]
    BY <1>1, <2>2 DEF TypeOK
  <2>4. AttemptChecked(r)
    BY <2>1 DEF AttemptChecked, LoadingOps
  <2>5. AttemptChecked(request'[t])
    BY <1>1, <2>3, <2>4
  <2> QED  BY <2>2, <2>5 DEF AttemptChecked, Exists
<1>5. ASSUME NEW u \in Thread, Ends(u) PROVE AttemptChecked(request[t])'
  <2>1. request' = [request EXCEPT ![u] = Idle]
    BY <1>5 DEF Ends, Finish
  <2>2. CASE t = u
    BY <1>1, <2>1, <2>2 DEF TypeOK, AttemptChecked, LoadingOps, Idle
  <2>3. CASE t # u
    <3>1. PICK r \in Request : request[t] = r /\ request'[t] = r /\ AttemptChecked(r)
      BY <1>1, <2>1, <2>3 DEF TypeOK
    <3>2. ASSUME r.op \in AttemptOps PROVE Untouched(r.attempt)
      <4>1. r.attempt \in Attempt /\ About(r, r.attempt)
        BY <3>2, AboutSome
      <4>2. ~About(request[u], r.attempt)
        BY <2>3, <3>1, <4>1 DEF AttemptsTakeTurns
      <4> QED  BY <1>5, <4>1, <4>2 DEF Ends
    <3>3. AttemptChecked(r)'
      BY <3>1, <3>2, AttemptKeeps
    <3> QED  BY <3>1, <3>3
  <2> QED  BY <2>2, <2>3
<1> QED  BY <1>1, <1>2, <1>3, <1>4, <1>5, Steps

\* So what was checked about an attempt holds when the request writes.
LEMMA TurnsInvHolds == Spec /\ []AttemptsTakeTurns => []TurnsInv
<1>1. TypeOK /\ Init => TurnsInv
  BY DEF Init, TurnsInv, AttemptChecked, LoadingOps, Idle
<1> QED  BY <1>1, TurnsInvStep, TypeCorrect, PTL DEF Spec

\* The writes that set the status of an attempt, its claim, its lease or its runs.
LEMMA Writers ==
  ASSUME TypeOK, [Next]_vars
  PROVE  \/ UNCHANGED <<claimedBy, lease, status, toolRun, manualRun>>
         \/ \E t \in Thread :
              \/ HeartbeatWrite(t) \/ ClaimWrite(t) \/ ReleaseWrite(t) \/ CreateAttemptWrite(t)
              \/ UpdateAttemptWrite(t) \/ CreateWorktreeWrite(t) \/ CommitResultWrite(t)
              \/ CommitOutOfScope(t) \/ DecisionWrite(t) \/ FollowUpWrite(t)
              \/ StartTaskAttempt(t) \/ RunTaskAttempt(t) \/ ManualStartWrite(t) \/ EndRunWrite(t)
<1> DEFINE Same == UNCHANGED <<claimedBy, lease, status, toolRun, manualRun>>
<1>1. ASSUME NEW t \in Thread,
             Starts(t) \/ FollowUpNumber(t) \/ UpdateTaskWrite(t) \/ Refuse(t)
      PROVE  Same
  BY <1>1 DEF Starts, Begin, FollowUpNumber, UpdateTaskWrite, Refuse, claimVars
<1>2. ASSUME NEW t \in Thread, WorkerStep(t)
      PROVE  Same \/ HeartbeatWrite(t) \/ ClaimWrite(t) \/ ReleaseWrite(t)
  BY <1>1, <1>2, ReadsCheck DEF WorkerStep, ClaimLost
<1>3. ASSUME NEW t \in Thread, StatusStep(t)
      PROVE  Same \/ CreateAttemptWrite(t) \/ UpdateAttemptWrite(t)
  BY <1>1, <1>3, ReadsCheck DEF StatusStep, UpdateDenied, NumberTaken
<1>4. ASSUME NEW t \in Thread, ResultStep(t)
      PROVE  \/ Same \/ CreateWorktreeWrite(t) \/ CommitResultWrite(t)
             \/ CommitOutOfScope(t) \/ DecisionWrite(t)
  BY <1>1, <1>4, ReadsCheck DEF ResultStep
<1>5. ASSUME NEW t \in Thread, RetryStep(t) \/ Abandon(t)
      PROVE  Same \/ FollowUpWrite(t)
  BY <1>1, <1>5, ReadsCheck DEF RetryStep, Abandon
<1>6. ASSUME NEW t \in Thread, RunStep(t)
      PROVE  \/ Same \/ StartTaskAttempt(t) \/ RunTaskAttempt(t) \/ ManualStartWrite(t)
             \/ EndRunWrite(t)
  BY <1>1, <1>6, ReadsCheck DEF RunStep
<1>7. CASE Tick \/ UNCHANGED vars \/ \E w \in Worker : RegisterWorker(w) \/ RevokeWorker(w)
  BY <1>7 DEF Tick, vars, RegisterWorker, RevokeWorker, claimVars
<1> QED  BY <1>2, <1>3, <1>4, <1>5, <1>6, <1>7 DEF Next

\* An attempt that has been leased is under way, or a run of it is.
Begun(a) == lease[a] # NoLease =>
              /\ Exists(a)
              /\ status[a] \in StartableStatuses => toolRun[a] = "queued" \/ a \in manualRun

\* No status that can be asked for, and none that a retry starts from, is startable.
LEMMA StartableStatusesAreEarly ==
  /\ FollowUpSourceStatuses \intersect StartableStatuses = {}
  /\ \A s \in AttemptStatus, target \in StartableStatuses :
       Allowed(PublicAttemptTransitions, s, target) => target = s
<1>1. ASSUME NEW s \in AttemptStatus
      PROVE  PublicAttemptTransitions[s] \intersect StartableStatuses = {}
  BY DEF PublicAttemptTransitions, StartableStatuses
<1> QED  BY <1>1 DEF FollowUpSourceStatuses, ReviewableStatuses, StartableStatuses, Allowed

\* Every step keeps Begun while the attempts take turns.
LEMMA BegunStep ==
  ASSUME TurnsInv, [Next]_vars, NEW a \in Attempt, Begun(a)
  PROVE  Begun(a)'
<1> USE DEF TurnsInv, AttemptChecked, LoadingOps, Begun, Exists, NoLease
<1>1. CASE UNCHANGED <<claimedBy, lease, status, toolRun, manualRun>>
  BY <1>1
<1>2. CASE Untouched(a)
  BY <1>2 DEF Untouched
<1>3. ASSUME NEW t \in Thread, About(request[t], a),
             HeartbeatWrite(t) \/ ClaimWrite(t) \/ ReleaseWrite(t) \/ CreateAttemptWrite(t)
      PROVE  Begun(a)'
  <2>1. CASE HeartbeatWrite(t) \/ CreateAttemptWrite(t)
    BY <1>3, <2>1 DEF HeartbeatWrite, CreateAttemptWrite, About, AttemptOps
  <2>2. CASE ClaimWrite(t)
    BY <1>3, <2>2 DEF ClaimWrite, About, StartableStatuses, TypeOK
  <2>3. CASE ReleaseWrite(t)
    BY <1>3, <2>3 DEF ReleaseWrite, About, TypeOK
  <2> QED  BY <1>3, <2>1, <2>2, <2>3
<1>4. ASSUME NEW t \in Thread, About(request[t], a), UpdateAttemptWrite(t)
      PROVE  Begun(a)'
  <2>1. PICK target \in AttemptTargets :
          /\ Allowed(PublicAttemptTransitions, request[t].seen, target)
          /\ status' = [status EXCEPT ![a] = Flush(@, request[t].seen, target)]
    BY <1>4 DEF UpdateAttemptWrite, About
  <2>2. status[a] = request[t].seen /\ status[a] \in AttemptStatus
    BY <1>4 DEF UpdateAttemptWrite, About, TypeOK
  <2>3. status'[a] \in StartableStatuses => status'[a] = status[a]
    BY <2>1, <2>2, StartableStatusesAreEarly DEF Flush, TypeOK
  <2>4. status'[a] # "absent"
    BY <2>1, <2>2, TargetsAssumption DEF Flush, TypeOK, AttemptStatus
  <2> QED  BY <1>4, <2>3, <2>4 DEF UpdateAttemptWrite, claimVars
<1>5. ASSUME NEW t \in Thread, About(request[t], a),
             CreateWorktreeWrite(t) \/ CommitResultWrite(t) \/ CommitOutOfScope(t)
      PROVE  Begun(a)'
  <2>1. status[a] = request[t].seen
    BY <1>5 DEF CreateWorktreeWrite, CommitResultWrite, CommitOutOfScope, About
  <2>2. CASE UNCHANGED <<status, lease, toolRun, manualRun>>
    BY <2>2
  <2>3. CASE status'[a] \in {"running_worker", "committed", "worker_failed"}
    BY <2>3 DEF StartableStatuses
  <2> QED  BY <1>5, <2>1, <2>2, <2>3
           DEF CreateWorktreeWrite, CommitResultWrite, CommitOutOfScope, About, Flush, TypeOK,
               claimVars
<1>6. ASSUME NEW t \in Thread, About(request[t], a), DecisionWrite(t) \/ FollowUpWrite(t)
      PROVE  Begun(a)'
  <2>1. CASE DecisionWrite(t)
    <3>1. /\ status[a] = request[t].seen
          /\ status' = [status EXCEPT ![a] = Flush(@, request[t].seen,
                                                  DecidedStatus[request[t].op])]
          /\ DecidedStatus[request[t].op] \in {"accepted", "rejected", "merged"}
      BY <1>6, <2>1 DEF DecisionWrite, DecidedStatus, About
    <3>2. request[t].seen \in ReviewableStatuses
      BY <2>1 DEF DecisionWrite, DecidedStatus
    <3>3. status'[a] \in {"accepted", "rejected", "merged"}
      BY <3>1, <3>2 DEF Flush, ReviewableStatuses, TypeOK
    <3> QED  BY <3>3 DEF StartableStatuses
  <2>2. CASE FollowUpWrite(t)
    <3>1. status[a] = request[t].seen /\ status[a] \in FollowUpSourceStatuses
      BY <1>6, <2>2 DEF FollowUpWrite, About
    <3>2. a \in Attempts
      BY <3>1 DEF Attempts, FollowUpSourceStatuses, ReviewableStatuses
    <3>3. status'[a] \in {status[a], "rejected"}
      BY <1>6, <2>2, <3>1, <3>2 DEF FollowUpWrite, Flush
    <3> QED  BY <3>1, <3>3, StartableStatusesAreEarly
             DEF FollowUpSourceStatuses, ReviewableStatuses, StartableStatuses
  <2> QED  BY <1>6, <2>1, <2>2
<1>7. ASSUME NEW t \in Thread, About(request[t], a), StartTaskAttempt(t) \/ RunTaskAttempt(t)
      PROVE  Begun(a)'
  <2>1. CASE StartTaskAttempt(t)
    BY <1>7, <2>1 DEF StartTaskAttempt, About, TypeOK
  <2>2. CASE RunTaskAttempt(t)
    <3>1. CASE Requeue(a) \/ CompleteMock(a) \/ HandOff(a)
      BY <3>1 DEF Requeue, CompleteMock, HandOff, StartableStatuses, TypeOK
    <3>2. CASE WorktreeFails(a)
      BY <2>2, <3>2 DEF RunTaskAttempt, WorktreeFails, claimVars
    <3> QED  BY <1>7, <2>2, <3>1, <3>2 DEF RunTaskAttempt, About
  <2> QED  BY <1>7, <2>1, <2>2
<1>8. ASSUME NEW t \in Thread, About(request[t], a), ManualStartWrite(t)
      PROVE  Begun(a)'
  BY <1>8 DEF ManualStartWrite, About, claimVars
<1>9. ASSUME NEW t \in Thread, About(request[t], a), EndRunWrite(t)
      PROVE  Begun(a)'
  <2>1. status[a] = request[t].seen
    BY <1>9 DEF EndRunWrite, About
  <2>2. CASE status' # status
    <3>1. status'[a] \in {"worker_failed", "cancelled"}
      BY <1>9, <2>1, <2>2 DEF EndRunWrite, About, Flush, TypeOK
    <3> QED  BY <3>1 DEF StartableStatuses
  <2>3. CASE status' = status
    <3>1. CASE request[t].run = "tool"
      BY <1>9, <2>3, <3>1 DEF EndRunWrite, About, claimVars
    <3>2. CASE request[t].run # "tool"
      <4>1. \/ status[a] \in {"worker_failed", "cancelled"}
            \/ status[a] \notin RecoverableStatuses
        BY <1>9, <2>1, <2>3, <3>2 DEF EndRunWrite, About, Flush, TypeOK
      <4>2. status'[a] \notin StartableStatuses
        BY <2>3, <4>1 DEF RecoverableStatuses, StartableStatuses
      <4> QED  BY <1>9, <2>3, <4>2 DEF EndRunWrite, claimVars
    <3> QED  BY <3>1, <3>2
  <2> QED  BY <2>2, <2>3
<1> QED  BY <1>1, <1>2, <1>3, <1>4, <1>5, <1>6, <1>7, <1>8, <1>9, Writers, WritesAbout

\* One request at a time about each attempt, the owner's start tool takes over no
\* lease, although it does not look at one: an attempt that has been leased has left
\* the statuses the tool starts from, or a run of it is active
\* (worker.start_task_attempt).
THEOREM StartsTakeOverNoLease == Spec /\ []AttemptsTakeTurns => []StartableUnleased
<1> DEFINE AllBegun == \A a \in Attempt : Begun(a)
<1>1. Init => AllBegun
  BY DEF Init, Begun
<1>2. TurnsInv /\ [Next]_vars /\ AllBegun => AllBegun'
  <2> SUFFICES ASSUME TurnsInv, [Next]_vars, AllBegun, NEW a \in Attempt PROVE Begun(a)'
    OBVIOUS
  <2> QED  BY BegunStep
<1>3. AllBegun => StartableUnleased
  BY DEF Begun, StartableUnleased, Startable, Exists
<1> QED  BY <1>1, <1>2, <1>3, TurnsInvHolds, PTL DEF Spec

-----------------------------------------------------------------------------
(* One request at a time *)

\* What a follow-up that is the only request has checked is still true.
AloneInv == TurnsInv /\ \A t \in Thread : FollowUpChecked(request[t])

\* One thread serves one request at a time.
LEMMA AloneTakesTurns ==
  ASSUME NEW one, Thread = {one}
  PROVE  /\ WorkersWait
         /\ AttemptsTakeTurns
BY DEF WorkersWait, AttemptsTakeTurns

\* With one request at a time, what it has checked about all attempts is still true.
LEMMA AloneInvHolds ==
  ASSUME NEW one, Thread = {one}
  PROVE  Spec => []AloneInv
<1>1. TurnsInv /\ Init => AloneInv
  BY DEF Init, AloneInv, FollowUpChecked, Idle
<1>2. AloneInv /\ TurnsInv' /\ [Next]_vars => AloneInv'
  <2> SUFFICES ASSUME AloneInv, [Next]_vars PROVE FollowUpChecked(request[one])'
    BY DEF AloneInv
  <2>1. TypeOK /\ request[one] \in Request /\ FollowUpChecked(request[one])
    BY DEF AloneInv, TurnsInv, TypeOK
  <2>2. CASE Outside
    <3>1. PICK r \in Request : request[one] = r /\ request'[one] = r /\ FollowUpChecked(r)
      BY <2>1, <2>2 DEF Outside
    <3> QED  BY <2>2, <3>1 DEF Outside, FollowUpChecked
  <2>3. CASE Starts(one)
    <3>1. PICK r : Begin(one, r) /\ FollowUpChecked(r)
      BY <2>3 DEF Starts, Checked
    <3>2. request'[one] = r /\ UNCHANGED status
      BY <2>1, <3>1 DEF Begin, TypeOK
    <3> QED  BY <3>1, <3>2 DEF FollowUpChecked
  <2>4. CASE FollowUpNumber(one)
    <3>1. PICK c : c = request[one] /\ FollowUpChecked(c) /\ c.op = "follow_up_check"
      BY <2>1, <2>4 DEF FollowUpNumber
    <3>2. /\ request'[one] = [op |-> "follow_up", attempt |-> c.attempt, seen |-> c.seen,
                              known |-> Attempts]
          /\ UNCHANGED status
      BY <2>1, <2>4, <3>1 DEF FollowUpNumber, TypeOK
    <3> QED  BY <3>1, <3>2 DEF FollowUpChecked
  <2>5. CASE Ends(one)
    <3>1. request'[one] = Idle
      BY <2>1, <2>5 DEF Ends, Finish, TypeOK
    <3> QED  BY <3>1 DEF FollowUpChecked, Idle
  <2> QED  BY <2>1, <2>2, <2>3, <2>4, <2>5, Steps
<1>3. Spec => []TurnsInv
  BY AloneTakesTurns, TurnsInvHolds, PTL
<1> QED  BY <1>1, <1>2, <1>3, PTL DEF Spec

-----------------------------------------------------------------------------
(* Theorems *)

\* Any number of requests at a time: a worker that waits for the answer to its
\* heartbeat or claim before it sends another holds one running lease at most,
\* whatever other workers claim, release or take over, and whatever else is asked,
\* in between, as long as the owner's start tool hands it no attempt whose lease
\* still runs (claim, heartbeat).
THEOREM OneClaimWhileWorkersWait ==
  Spec /\ []WorkersWait /\ []StartableUnleased => []OneActiveClaimPerWorker
<1>1. LeaseInv /\ Init => WaitingInv
  BY DEF Init, WaitingInv, OneActiveClaimPerWorker, LeaseChecked, Idle
<1>2. WaitingInv => OneActiveClaimPerWorker
  BY DEF WaitingInv
<1> QED  BY <1>1, <1>2, WaitingInvStep, LeaseInvariant, PTL DEF Spec

\* One request at a time about each attempt, a free attempt is claimed only in a
\* fresh status, or given away by the owner's start tool (claim).
THEOREM FreshClaimsInTurn == Spec /\ []AttemptsTakeTurns => FreshClaimOnly
<1> DEFINE Fresh == \A a \in Attempt : claimedBy[a] = NoWorker /\ claimedBy'[a] # NoWorker
                                        => status[a] \in FreshClaimStatuses \/ Started(a)
<1>1. TurnsInv /\ [Next]_vars => Fresh
  <2> SUFFICES ASSUME TurnsInv, [Next]_vars PROVE Fresh
    OBVIOUS
  <2>1. CASE UNCHANGED claimedBy
    BY <2>1
  <2>2. ASSUME NEW t \in Thread, ClaimWrite(t) PROVE Fresh
    <3>1. /\ request[t].attempt \in Attempt
          /\ claimedBy[request[t].attempt] = NoWorker
               => status[request[t].attempt] \in FreshClaimStatuses
      BY <2>2, RequestKinds DEF ClaimWrite, ClaimRequest, AttemptChecked, TurnsInv, TypeOK
    <3> QED  BY <2>2, <3>1 DEF ClaimWrite, TurnsInv, TypeOK
  <2>3. ASSUME NEW t \in Thread, ReleaseWrite(t) PROVE Fresh
    BY <2>3 DEF ReleaseWrite, TurnsInv, TypeOK
  <2>4. ASSUME NEW t \in Thread, StartTaskAttempt(t) PROVE Fresh
    <3>1. Started(request[t].attempt)
      BY <2>4, StartConcludes DEF TurnsInv
    <3> QED  BY <2>4, <3>1 DEF StartTaskAttempt, TurnsInv, TypeOK
  <2>5. ASSUME NEW t \in Thread, Starts(t) \/ FollowUpNumber(t) \/ HeartbeatWrite(t)
        PROVE  UNCHANGED claimedBy
    BY <2>5 DEF Starts, Begin, FollowUpNumber, HeartbeatWrite, claimVars
  <2> QED  BY <2>1, <2>2, <2>3, <2>4, <2>5, Steps DEF Outside, Ends, TurnsInv
<1> QED  BY <1>1, TurnsInvHolds, PTL DEF Spec, FreshClaimOnly

\* One request at a time about each attempt, only its holder's release ends a claim
\* (release).
THEOREM ClaimsEndByHolderInTurn == Spec /\ []AttemptsTakeTurns => ClaimEndsByHolder
<1> DEFINE ByHolder == \A a \in Attempt :
             claimedBy[a] # NoWorker /\ claimedBy'[a] = NoWorker
               => \E t \in Thread : /\ request[t].op = "release"
                                    /\ request[t].worker = claimedBy[a]
                                    /\ request'[t] = Idle
<1>1. TurnsInv /\ [Next]_vars => [ByHolder]_vars
  <2> SUFFICES ASSUME TurnsInv, [Next]_vars PROVE ByHolder
    OBVIOUS
  <2>1. CASE UNCHANGED claimedBy
    BY <2>1
  <2>2. ASSUME NEW t \in Thread, ClaimWrite(t) PROVE ByHolder
    <3>1. request[t].attempt \in Attempt /\ request[t].worker # NoWorker
      BY <2>2, RequestKinds, NoWorkerAssumption
         DEF ClaimWrite, ClaimRequest, TurnsInv, TypeOK
    <3> QED  BY <2>2, <3>1 DEF ClaimWrite, TurnsInv, TypeOK
  <2>3. ASSUME NEW t \in Thread, ReleaseWrite(t) PROVE ByHolder
    <3>1. /\ request[t].op = "release" /\ request'[t] = Idle
          /\ claimedBy[request[t].attempt] = request[t].worker
          /\ claimedBy' = [claimedBy EXCEPT ![request[t].attempt] = NoWorker]
      BY <2>3 DEF ReleaseWrite, Finish, AttemptChecked, TurnsInv, TypeOK
    <3> QED  BY <3>1 DEF TurnsInv, TypeOK
  <2>4. ASSUME NEW t \in Thread, StartTaskAttempt(t) PROVE ByHolder
    <3>1. request[t].worker # NoWorker
      BY <2>4, RequestKinds, NoWorkerAssumption DEF StartTaskAttempt, StartCall, TurnsInv, TypeOK
    <3> QED  BY <2>4, <3>1 DEF StartTaskAttempt, TurnsInv, TypeOK
  <2>5. ASSUME NEW t \in Thread, Starts(t) \/ FollowUpNumber(t) \/ HeartbeatWrite(t)
        PROVE  UNCHANGED claimedBy
    BY <2>5 DEF Starts, Begin, FollowUpNumber, HeartbeatWrite, claimVars
  <2> QED  BY <2>1, <2>2, <2>3, <2>4, <2>5, Steps DEF Outside, Ends, TurnsInv
<1> QED  BY <1>1, TurnsInvHolds, PTL DEF Spec, ClaimEndsByHolder

\* The statuses that have no successor, in either map, and that nothing starts from.
LEMMA TerminalStatuses ==
  ASSUME NEW s \in {"merged", "abandoned", "cancelled"}
  PROVE  /\ s \notin FreshClaimStatuses /\ s \notin ReviewableStatuses
         /\ s \notin FollowUpSourceStatuses /\ s \notin StartableStatuses
         /\ \A target : Allowed(PublicAttemptTransitions, s, target) => target = s
<1>1. s \in AttemptStatus /\ PublicAttemptTransitions[s] = {}
  BY DEF AttemptStatus, PublicAttemptTransitions
<1> QED  BY <1>1 DEF FreshClaimStatuses, ReviewableStatuses, FollowUpSourceStatuses,
                     StartableStatuses, Allowed

\* One request at a time about each attempt, an ended attempt that no worker holds and
\* that has no WorkerRun stays as it is, whatever is asked of the status endpoint,
\* decided, retried, claimed or started (update_task_attempt_status, claim,
\* commit_result, worker.start_task_attempt).
THEOREM FreeTerminalsStayInTurn == Spec /\ []AttemptsTakeTurns => FreeTerminalStays
<1> DEFINE Stays == \A a \in Attempt :
             /\ status[a] \in {"merged", "abandoned", "cancelled"} /\ claimedBy[a] = NoWorker
             /\ toolRun[a] = "none" /\ a \notin manualRun
             => status'[a] = status[a]
<1>1. TurnsInv /\ [Next]_vars => [Stays]_vars
  <2> SUFFICES ASSUME TurnsInv, [Next]_vars, NEW a \in Attempt,
                      status[a] \in {"merged", "abandoned", "cancelled"},
                      claimedBy[a] = NoWorker, toolRun[a] = "none", a \notin manualRun
               PROVE  status'[a] = status[a]
    OBVIOUS
  <2>0. /\ TypeOK /\ Exists(a)
        /\ status[a] \notin FreshClaimStatuses /\ status[a] \notin ReviewableStatuses
        /\ status[a] \notin FollowUpSourceStatuses /\ status[a] \notin StartableStatuses
        /\ \A target : Allowed(PublicAttemptTransitions, status[a], target) => target = status[a]
    BY TerminalStatuses DEF TurnsInv, Exists
  <2>1. ASSUME NEW t \in Thread,
               \/ HeartbeatWrite(t) \/ CreateAttemptWrite(t) \/ ManualStartWrite(t)
        PROVE  status'[a] = status[a]
    BY <2>0, <2>1 DEF HeartbeatWrite, CreateAttemptWrite, ManualStartWrite, Attempts, TypeOK
  <2>2. ASSUME NEW t \in Thread,
               \/ ClaimWrite(t) \/ ReleaseWrite(t) \/ CreateWorktreeWrite(t)
               \/ CommitResultWrite(t) \/ CommitOutOfScope(t) \/ DecisionWrite(t)
               \/ FollowUpWrite(t)
        PROVE  status'[a] = status[a]
    <3>1. request[t] \in Request /\ AttemptChecked(request[t])
      BY DEF TurnsInv, TypeOK
    <3>2. request[t].attempt # a
      <4>1. CASE ReleaseWrite(t)
        BY <3>1, <4>1, RequestKinds, NoWorkerAssumption
           DEF ReleaseWrite, ReleaseRequest, AttemptChecked
      <4>2. CASE ClaimWrite(t)
        BY <2>0, <3>1, <4>2 DEF ClaimWrite, AttemptChecked
      <4>3. CASE CreateWorktreeWrite(t) \/ CommitResultWrite(t) \/ CommitOutOfScope(t)
        BY <3>1, <4>3 DEF CreateWorktreeWrite, CommitResultWrite, CommitOutOfScope,
                          AttemptChecked
      <4>4. CASE DecisionWrite(t)
        BY <2>0, <3>1, <4>4 DEF DecisionWrite, DecidedStatus, AttemptChecked, LoadingOps
      <4>5. CASE FollowUpWrite(t)
        BY <2>0, <3>1, <4>5 DEF FollowUpWrite, AttemptChecked, LoadingOps
      <4> QED  BY <2>2, <4>1, <4>2, <4>3, <4>4, <4>5
    <3>3. ~About(request[t], a)
      BY <3>2 DEF About
    <3> QED  BY <2>0, <2>2, <3>3, WritesAbout DEF Untouched
  <2>3. ASSUME NEW t \in Thread, UpdateAttemptWrite(t) PROVE status'[a] = status[a]
    <3> DEFINE r == request[t]
    <3>1. status[r.attempt] = r.seen
      BY <2>3 DEF UpdateAttemptWrite, AttemptChecked, LoadingOps, TurnsInv
    <3>2. PICK target \in AttemptTargets :
            /\ Allowed(PublicAttemptTransitions, r.seen, target)
            /\ status' = [status EXCEPT ![r.attempt] = Flush(@, r.seen, target)]
      BY <2>3 DEF UpdateAttemptWrite
    <3>3. CASE r.attempt = a
      BY <2>0, <3>1, <3>2, <3>3 DEF Flush, TypeOK
    <3>4. CASE r.attempt # a
      BY <2>0, <3>2, <3>4 DEF TypeOK
    <3> QED  BY <3>3, <3>4
  <2>4. ASSUME NEW t \in Thread, StartTaskAttempt(t) \/ RunTaskAttempt(t) \/ EndRunWrite(t)
        PROVE  status'[a] = status[a]
    <3>1. request[t].attempt # a
      <4>1. CASE StartTaskAttempt(t)
        BY <2>0, <4>1 DEF StartTaskAttempt, Startable
      <4>2. CASE RunTaskAttempt(t)
        BY <4>2 DEF RunTaskAttempt
      <4>3. CASE EndRunWrite(t)
        BY <4>3 DEF EndRunWrite, AttemptChecked, TurnsInv
      <4> QED  BY <2>4, <4>1, <4>2, <4>3
    <3>2. ~About(request[t], a)
      BY <3>1 DEF About
    <3> QED  BY <2>0, <2>4, <3>2, WritesAbout DEF Untouched
  <2> QED  BY <2>0, <2>1, <2>2, <2>3, <2>4, Writers
<1> QED  BY <1>1, TurnsInvHolds, PTL DEF Spec, FreeTerminalStays

\* One request at a time, a worker holds one running lease at most, although time
\* passes while its heartbeats and claims are under way (claim, heartbeat).
THEOREM OneClaimAlone ==
  ASSUME NEW one, Thread = {one}
  PROVE  Spec => []OneActiveClaimPerWorker
BY AloneTakesTurns, StartsTakeOverNoLease, OneClaimWhileWorkersWait, PTL

\* One request at a time, a free attempt is claimed only in a fresh status, or given
\* away by the owner's start tool (claim).
THEOREM FreshClaimsAlone ==
  ASSUME NEW one, Thread = {one}
  PROVE  Spec => FreshClaimOnly
BY AloneTakesTurns, FreshClaimsInTurn, PTL

\* One request at a time, only its holder's release ends a claim (release).
THEOREM ClaimsEndByHolderAlone ==
  ASSUME NEW one, Thread = {one}
  PROVE  Spec => ClaimEndsByHolder
BY AloneTakesTurns, ClaimsEndByHolderInTurn, PTL

\* One request at a time, an ended attempt that no worker holds and that has no
\* WorkerRun stays as it is (update_task_attempt_status, claim, commit_result).
THEOREM FreeTerminalsStayAlone ==
  ASSUME NEW one, Thread = {one}
  PROVE  Spec => FreeTerminalStays
BY AloneTakesTurns, FreeTerminalsStayInTurn, PTL

\* The only step that ends a follow-up and changes a status is its write.
LEMMA FollowUpEnds ==
  ASSUME NEW one, Thread = {one}, TypeOK, Next, request[one].op = "follow_up",
         request'[one] = Idle, status' # status
  PROVE  FollowUpWrite(one)
<1>1. ASSUME NEW r, Begin(one, r) PROVE FALSE
  BY <1>1 DEF Begin, Idle
<1>2. request' # request
  BY DEF Idle
<1>3. CASE \/ Tick \/ \E w \in Worker : RegisterWorker(w) \/ RevokeWorker(w)
  BY <1>2, <1>3 DEF Tick, RegisterWorker, RevokeWorker
<1>4. CASE WorkerStep(one)
  BY <1>1, <1>4 DEF WorkerStep, HeartbeatRead, HeartbeatWrite, ClaimRead, ClaimWrite, ClaimLost,
                    ReleaseRead, ReleaseWrite
<1>5. CASE StatusStep(one)
  BY <1>1, <1>5 DEF StatusStep, CreateAttemptRead, CreateAttemptWrite, NumberTaken,
                    UpdateAttemptRead, UpdateAttemptWrite, UpdateTaskRead, UpdateTaskWrite,
                    UpdateDenied, Refuse
<1>6. CASE ResultStep(one)
  BY <1>1, <1>6 DEF ResultStep, CreateWorktreeRead, CreateWorktreeWrite, CommitResultRead,
                    CommitResultWrite, CommitOutOfScope, AttemptDecisionRead, ReviewDecisionRead,
                    ResultRead, DecisionWrite, DecidedStatus
<1>7. CASE RetryStep(one)
  BY <1>1, <1>7 DEF RetryStep, FollowUpRead, FollowUpNumber
<1>9. CASE RunStep(one)
  BY <1>1, <1>9 DEF RunStep, StartTaskAttemptCall, StartTaskAttempt, RunTaskAttemptCall,
                    RunTaskAttempt, ManualStartRead, ManualStartWrite, EndRunRead, EndRunWrite
<1>8. CASE Abandon(one)
  BY <1>8 DEF Abandon, Refuse
<1> QED  BY <1>3, <1>4, <1>5, <1>6, <1>7, <1>8, <1>9 DEF Next

\* One request at a time, a follow-up is the only attempt of its Task that is under
\* way or adopted when it is created (create_follow_up).  It needs that: an attempt
\* that another request creates between its two queries raises the number it takes,
\* and they do not collide.
THEOREM FollowUpsAlone ==
  ASSUME NEW one, Thread = {one}
  PROVE  Spec => FollowUpStandsAlone
<1> DEFINE Standing ==
      \A t \in Thread : /\ request[t].op = "follow_up" /\ request'[t] = Idle
                        /\ status' # status
        => \E b \in Attempt : {a \in Attempt : status'[a] \in RetryBlockingStatuses} = {b}
<1>1. AloneInv /\ [Next]_vars => [Standing]_vars
  <2> SUFFICES ASSUME AloneInv, Next, request[one].op = "follow_up",
                      request'[one] = Idle, status' # status
               PROVE  \E b \in Attempt :
                        {a \in Attempt : status'[a] \in RetryBlockingStatuses} = {b}
    OBVIOUS
  <2> DEFINE r == request[one]
  <2>1. FollowUpWrite(one)
    BY FollowUpEnds DEF AloneInv, TurnsInv
  <2>2. /\ r \in FollowUpRequest /\ FollowUpChecked(r)
        /\ status[r.attempt] = r.seen /\ r.seen \in FollowUpSourceStatuses
    BY RequestKinds DEF AloneInv, TurnsInv, TypeOK, AttemptChecked, LoadingOps
  <2>3. PICK b \in Attempt \ Attempts :
          status' = [a \in Attempt |->
                       CASE a = b -> "created"
                         [] a = r.attempt /\ a # b /\ r.seen \in ReviewableStatuses
                                  -> Flush(status[a], r.seen, "rejected")
                         [] OTHER -> status[a]]
    BY <2>1 DEF FollowUpWrite
  <2>4. r.attempt \in Attempt /\ r.attempt # b
    BY <2>2, <2>3 DEF FollowUpRequest, Attempts, Exists, FollowUpSourceStatuses,
                      ReviewableStatuses
  <2>5. status'[b] = "created" /\ "created" \in RetryBlockingStatuses
    BY <2>3 DEF RetryBlockingStatuses
  <2>6. status'[r.attempt] \notin RetryBlockingStatuses
    <3>1. CASE r.seen \in ReviewableStatuses
      BY <2>3, <2>4, <3>1 DEF Flush, ReviewableStatuses, RetryBlockingStatuses
    <3>2. CASE r.seen \notin ReviewableStatuses
      <4>1. status'[r.attempt] = r.seen
        BY <2>2, <2>3, <2>4, <3>2
      <4> QED  BY <2>2, <3>2, <4>1 DEF FollowUpSourceStatuses, ReviewableStatuses,
                                       RetryBlockingStatuses
    <3> QED  BY <3>1, <3>2
  <2>7. ASSUME NEW a \in Attempt \ {b, r.attempt}
        PROVE  status'[a] \notin RetryBlockingStatuses
    <3>1. status'[a] = status[a]
      BY <2>3
    <3> QED  BY <2>1, <2>2, <3>1 DEF FollowUpChecked, FollowUpWrite
  <2> QED  BY <2>3, <2>5, <2>6, <2>7
<1> QED  BY <1>1, AloneInvHolds, PTL DEF Spec, FollowUpStandsAlone

=============================================================================
