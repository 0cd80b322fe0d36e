------------------------- MODULE WorkerQueueProofs -------------------------
(***************************************************************************)
(* Theorems about WorkerQueue for any number of attempts, runs, threads    *)
(* and background tasks, any timeouts and any mix of requests.             *)
(***************************************************************************)
EXTENDS WorkerQueue, TLAPS

\* What a step may do to the slot of the worker that the owner tools use: it
\* ends runs, or it takes the slot for a run when no other run has it.
SlotStep == \/ Running("system")' \subseteq Running("system")
            \/ \E i \in Run : Running("system") \subseteq {i} /\ Running("system")' = {i}

\* What every step is shown to keep.
StepOK == TypeOK' /\ SlotStep

-----------------------------------------------------------------------------
(* Rows *)

\* The ORM leaves one of the two statuses.
LEMMA FlushType ==
  ASSUME NEW stored \in StoredStatus, NEW loaded, NEW new \in StoredStatus
  PROVE  Flush(stored, loaded, new) \in StoredStatus
BY DEF Flush

\* A run that is ended is a run, of the same worker.
LEMMA EndedType ==
  ASSUME TypeOK, NEW i \in Run, NEW s \in RunStatus
  PROVE  /\ Ended(i, s) \in RunRecord
         /\ Ended(i, s).status = s
         /\ Ended(i, s).worker = runs[i].worker
<1>1. runs[i] \in RunRecord /\ 0 \in 0 .. StaleTimeout
  BY TimeAssumption DEF TypeOK
<1> QED  BY <1>1 DEF Ended, RunRecord

\* A step that rewrites one run.
LEMMA OneRunChanges ==
  ASSUME TypeOK, NEW i \in Run, NEW r \in RunRecord, runs' = [runs EXCEPT ![i] = r]
  PROVE  /\ runs' \in [Run -> RunRecord]
         /\ Running("system")' \subseteq Running("system") \union {i}
         /\ r.status # "running" \/ r.worker # "system"
              => Running("system")' \subseteq Running("system")
BY DEF TypeOK, Running

\* A step that ends one run.
LEMMA OneRunEnds ==
  ASSUME TypeOK, NEW i \in Run, NEW s \in RunStatus \ {"running"},
         runs' = [runs EXCEPT ![i] = Ended(i, s)]
  PROVE  runs' \in [Run -> RunRecord] /\ SlotStep
<1>1. Ended(i, s) \in RunRecord /\ Ended(i, s).status # "running"
  BY EndedType
<1>2. /\ runs' \in [Run -> RunRecord]
      /\ Running("system")' \subseteq Running("system")
  BY <1>1, OneRunChanges
<1> QED  BY <1>2 DEF SlotStep

\* An endpoint inserts a run that has ended, or one of the manual worker.
LEMMA InsertRunType ==
  ASSUME TypeOK, NEW n \in Attempt, NEW w \in {"system", "manual"},
         NEW adapter \in QueueAdapters \union ExternalAdapters \union {"manual"},
         NEW s \in RunStatus, s = "running" => w = "manual",
         InsertRun(n, adapter, w, s)
  PROVE  runs' \in [Run -> RunRecord] /\ SlotStep
<1>1. PICK i \in Run :
        runs' = [runs EXCEPT ![i] = [status |-> s, attempt |-> n, adapter |-> adapter,
                                     worker |-> w, leased |-> FALSE,
                                     left |-> IF s = "running" THEN StaleTimeout ELSE 0]]
  BY DEF InsertRun
<1> DEFINE r == [status |-> s, attempt |-> n, adapter |-> adapter, worker |-> w,
                 leased |-> FALSE, left |-> IF s = "running" THEN StaleTimeout ELSE 0]
<1>2. r \in RunRecord
  BY TimeAssumption DEF RunRecord, AdapterKinds
<1>3. r.status # "running" \/ r.worker # "system"
  OBVIOUS
<1>4. runs' = [runs EXCEPT ![i] = r]
  BY <1>1
<1> HIDE DEF r
<1> QED  BY <1>2, <1>3, <1>4, OneRunChanges DEF SlotStep

\* The attempt of a run is an attempt.
LEMMA AttemptOfRun ==
  ASSUME TypeOK, NEW i \in Run
  PROVE  runs[i].attempt \in Attempt /\ attempts[runs[i].attempt] \in AttemptRecord
BY DEF TypeOK, RunRecord

\* A step that sets the status of one attempt.
LEMMA StatusType ==
  ASSUME TypeOK, NEW n \in Attempt, NEW s \in StoredStatus
  PROVE  [attempts EXCEPT ![n].status = s] \in [Attempt -> AttemptRecord]
BY DEF TypeOK, AttemptRecord

\* The row of an attempt after its result.
LEMMA ConcludedType ==
  ASSUME TypeOK, NEW n \in Attempt, NEW outcome, NEW seen
  PROVE  Concluded(n, outcome, seen) \in [Attempt -> AttemptRecord]
<1>1. attempts[n] \in AttemptRecord /\ attempts[n].status \in StoredStatus
  BY DEF TypeOK, AttemptRecord
<1>2. "committed" \in StoredStatus /\ "worker_failed" \in StoredStatus
  BY DEF StoredStatus, AttemptStatus
<1>3. /\ Flush(attempts[n].status, seen, "committed") \in StoredStatus
      /\ Flush(attempts[n].status, seen, "worker_failed") \in StoredStatus
  BY <1>1, <1>2, FlushType
<1> DEFINE s == CASE outcome = "committed" -> Flush(attempts[n].status, seen, "committed")
                  [] outcome = "failed" -> Flush(attempts[n].status, seen, "worker_failed")
                  [] OTHER -> attempts[n].status
           w == IF outcome = "committed" THEN "committed" ELSE attempts[n].worktree
<1>4. s \in StoredStatus
  BY <1>1, <1>3
<1>5. w \in {"none", "open", "failed", "committed"}
  BY <1>1 DEF AttemptRecord
<1>6. Concluded(n, outcome, seen) = [attempts EXCEPT ![n].status = s, ![n].worktree = w]
  BY DEF Concluded, TypeOK, AttemptRecord
<1> HIDE DEF s, w
<1> QED  BY <1>4, <1>5, <1>6 DEF TypeOK, AttemptRecord

\* A background task that is not idle has a run.
LEMMA BusyJob ==
  ASSUME TypeOK, NEW j \in Job, jobs[j].step # "idle"
  PROVE  jobs[j] \in JobRecord /\ jobs[j].run \in Run
BY DEF TypeOK, IdleJob, JobRecord

-----------------------------------------------------------------------------
(* Owner tools *)

\* A run is requeued, completed or handed off; or nothing is.
LEMMA RunWorkerRunOK ==
  ASSUME TypeOK, NEW i \in Run, NEW j \in Job, RunWorkerRun(i, j)
  PROVE  /\ attempts' \in [Attempt -> AttemptRecord]
         /\ runs' \in [Run -> RunRecord]
         /\ jobs' \in [Job -> {IdleJob} \union JobRecord]
         /\ SlotStep
<1>1. runs[i].attempt \in Attempt /\ attempts[runs[i].attempt] \in AttemptRecord
  BY AttemptOfRun
<1>2. runs[i] \in RunRecord /\ jobs \in [Job -> {IdleJob} \union JobRecord]
  BY DEF TypeOK
<1>3. jobs' \in [Job -> {IdleJob} \union JobRecord]
  BY <1>2 DEF RunWorkerRun, JobRecord
<1>4. CASE UNCHANGED <<attempts, runs>>
  BY <1>3, <1>4 DEF TypeOK, SlotStep, Running
<1>5. CASE Requeue(i)
  <2>1. attempts' \in [Attempt -> AttemptRecord]
    BY <1>1, <1>5, StatusType DEF Requeue, StoredStatus, AttemptStatus
  <2>2. runs' \in [Run -> RunRecord] /\ SlotStep
    BY <1>5, OneRunEnds DEF Requeue, RunStatus
  <2> QED  BY <1>3, <2>1, <2>2
<1>6. CASE CompleteMock(i)
  <2>1. attempts' \in [Attempt -> AttemptRecord]
    BY <1>1, <1>6, StatusType DEF CompleteMock, StoredStatus, AttemptStatus
  <2>2. runs' \in [Run -> RunRecord] /\ SlotStep
    BY <1>6, OneRunEnds DEF CompleteMock, RunStatus
  <2> QED  BY <1>3, <2>1, <2>2
<1>7. CASE WorktreeFailed(i)
  <2>1. attempts' \in [Attempt -> AttemptRecord]
    BY <1>1, <1>7 DEF WorktreeFailed, TypeOK, AttemptRecord
  <2> QED  BY <1>3, <1>7, <2>1 DEF WorktreeFailed, TypeOK, SlotStep, Running
<1>8. CASE HandOff(i) /\ ~Full(i)
  <2> DEFINE r == [runs[i] EXCEPT !.status = "running", !.leased = TRUE,
                                  !.left = StaleTimeout]
  <2>0. StaleTimeout \in 0 .. StaleTimeout /\ "running" \in RunStatus
    BY TimeAssumption DEF RunStatus
  <2>1. r \in RunRecord /\ r.worker = runs[i].worker
    BY <1>2, <2>0 DEF RunRecord
  <2>2. runs' = [runs EXCEPT ![i] = r]
    BY <1>2, <1>8 DEF HandOff, TypeOK, RunRecord
  <2>3. r.status = "running"
    BY <1>2 DEF RunRecord
  <2> HIDE DEF r
  <2>4. /\ runs' \in [Run -> RunRecord]
        /\ Running("system")' \subseteq Running("system") \union {i}
        /\ r.worker # "system" => Running("system")' \subseteq Running("system")
    BY <2>1, <2>2, OneRunChanges
  <2>5. runs[i].worker = "system" => Running("system") \subseteq {i}
    BY <1>8 DEF Full
  <2>6. runs[i].worker = "system" => i \in Running("system")'
    BY <2>1, <2>2, <2>3 DEF Running, TypeOK
  <2>7. SlotStep
    BY <2>1, <2>4, <2>5, <2>6 DEF SlotStep
  <2>8. attempts' \in [Attempt -> AttemptRecord]
    <3> DEFINE n == runs[i].attempt
               w == IF attempts[n].worktree = "none" THEN "open" ELSE attempts[n].worktree
    <3>1. attempts' = [attempts EXCEPT ![n].status = "running_worker", ![n].worktree = w]
      BY <1>1, <1>8 DEF HandOff, TypeOK, AttemptRecord
    <3>2. w \in {"none", "open", "failed", "committed"} /\ "running_worker" \in StoredStatus
      BY <1>1 DEF AttemptRecord, StoredStatus, AttemptStatus
    <3> HIDE DEF w
    <3> QED  BY <1>1, <3>1, <3>2 DEF TypeOK, AttemptRecord
  <2> QED  BY <1>3, <2>4, <2>7, <2>8
<1> QED  BY <1>4, <1>5, <1>6, <1>7, <1>8 DEF RunWorkerRun

\* So does a drain, with the oldest run of the queue.
LEMMA DrainNextOK ==
  ASSUME TypeOK, NEW w, NEW j \in Job, DrainNext(w, j)
  PROVE  /\ attempts' \in [Attempt -> AttemptRecord]
         /\ runs' \in [Run -> RunRecord]
         /\ jobs' \in [Job -> {IdleJob} \union JobRecord]
         /\ SlotStep
<1>1. CASE /\ jobs' = [jobs EXCEPT ![j] = IdleJob]
           /\ UNCHANGED <<attempts, runs>>
  BY <1>1 DEF TypeOK, SlotStep, Running
<1>2. CASE \E i \in Run : RunWorkerRun(i, j)
  BY <1>2, RunWorkerRunOK
<1> QED  BY <1>1, <1>2 DEF DrainNext

\* Stale runs are ended, and their attempts with them.
LEMMA RecoverOK ==
  ASSUME TypeOK, NEW timeout, NEW among \in SUBSET Run, Recover(timeout, among)
  PROVE  /\ attempts' \in [Attempt -> AttemptRecord]
         /\ runs' \in [Run -> RunRecord]
         /\ UNCHANGED <<jobs, request>>
         /\ SlotStep
<1> DEFINE stale == {i \in among : Stale(i, timeout)}
           left == {n \in Attempt : /\ attempts[n].status \in RecoverableStatuses
                                    /\ \E i \in stale : runs[i].attempt = n}
<1>1. runs' = [i \in Run |-> IF i \in stale THEN Ended(i, "failed") ELSE runs[i]]
  BY DEF Recover
<1>2. attempts' = [n \in Attempt |-> IF n \in left
                                     THEN [attempts[n] EXCEPT !.status = "worker_failed"]
                                     ELSE attempts[n]]
  BY DEF Recover
<1> HIDE DEF stale, left
<1>3. \A i \in Run : /\ Ended(i, "failed") \in RunRecord
                     /\ Ended(i, "failed").status = "failed"
  BY EndedType DEF RunStatus
<1>4. runs' \in [Run -> RunRecord]
  BY <1>1, <1>3 DEF TypeOK
<1>5. Running("system")' \subseteq Running("system")
  BY <1>1, <1>3 DEF Running
<1>6. \A n \in Attempt : [attempts[n] EXCEPT !.status = "worker_failed"] \in AttemptRecord
  BY DEF TypeOK, AttemptRecord, StoredStatus, AttemptStatus
<1>7. attempts' \in [Attempt -> AttemptRecord]
  BY <1>2, <1>6 DEF TypeOK
<1> QED  BY <1>4, <1>5, <1>7 DEF SlotStep, Recover

\* The tools that create, start, run and drain.
LEMMA OwnerToolCallOK ==
  ASSUME TypeOK, OwnerToolCall
  PROVE  StepOK
<1>1. ASSUME budget' = budget - 1, budget > 0
      PROVE  budget' \in 0 .. MaxRequests
  BY <1>1, BoundAssumption DEF TypeOK
<1>2. ASSUME NEW n \in Attempt, CreateAttempt(n)
      PROVE  StepOK
  <2>1. attempts' \in [Attempt -> AttemptRecord]
    BY <1>2, StatusType DEF CreateAttempt, StoredStatus, AttemptStatus
  <2> QED  BY <1>1, <1>2, <2>1
           DEF CreateAttempt, Spend, StepOK, TypeOK, SlotStep, Running
<1>3. ASSUME NEW n \in Attempt, NEW adapter \in Adapters, StartTaskAttempt(n, adapter)
      PROVE  StepOK
  <2>1. /\ adapter \in QueueAdapters \union ExternalAdapters \union {"manual"}
        /\ WorkerOf(adapter) \in {"system", "manual"}
    BY AdapterAssumption DEF QueueAdapters, WorkerOf
  <2>2. attempts' \in [Attempt -> AttemptRecord]
    <3> DEFINE w == WorkerOf(adapter)
    <3>1. attempts' = [attempts EXCEPT ![n].status = "queued_worker", ![n].claimedBy = w]
      BY <1>3 DEF StartTaskAttempt
    <3>2. w \in {"none", "system", "manual"} /\ "queued_worker" \in StoredStatus
      BY <2>1 DEF StoredStatus, AttemptStatus
    <3> HIDE DEF w
    <3> QED  BY <3>1, <3>2 DEF TypeOK, AttemptRecord
  <2>3. runs' \in [Run -> RunRecord] /\ SlotStep
    <3> DEFINE r == [status |-> "queued", attempt |-> n, adapter |-> adapter,
                     worker |-> WorkerOf(adapter), leased |-> FALSE, left |-> 0]
    <3>1. r \in RunRecord /\ r.status # "running"
      BY <2>1, TimeAssumption DEF RunRecord, RunStatus, AdapterKinds
    <3>2. PICK i \in Run : runs' = [runs EXCEPT ![i] = r]
      BY <1>3 DEF StartTaskAttempt
    <3> HIDE DEF r
    <3>3. /\ runs' \in [Run -> RunRecord]
          /\ Running("system")' \subseteq Running("system")
      BY <3>1, <3>2, OneRunChanges
    <3> QED  BY <3>3 DEF SlotStep
  <2> QED  BY <1>1, <1>3, <2>2, <2>3 DEF StartTaskAttempt, Spend, StepOK, TypeOK
<1>4. ASSUME NEW i \in Run, NEW j \in Job, RunTaskAttempt(i, j)
      PROVE  StepOK
  BY <1>1, <1>4, RunWorkerRunOK DEF RunTaskAttempt, Spend, StepOK, TypeOK
<1>5. ASSUME NEW w, NEW j \in Job, DrainQueue(w, j)
      PROVE  StepOK
  BY <1>1, <1>5, DrainNextOK DEF DrainQueue, Spend, StepOK, TypeOK
<1>6. ASSUME NEW timeout, RecoverStaleRuns(timeout)
      PROVE  StepOK
  BY <1>1, <1>6, RecoverOK DEF RecoverStaleRuns, Spend, StepOK, TypeOK
<1> QED  BY <1>2, <1>3, <1>4, <1>5, <1>6 DEF OwnerToolCall

-----------------------------------------------------------------------------
(* Background tasks, time and the scheduler *)

\* A background task takes a step, or is lost.
LEMMA JobStepOK ==
  ASSUME TypeOK, NEW j \in Job, JobStep(j) \/ JobLost(j)
  PROVE  StepOK
<1>1. ASSUME NEW step \in {"execute", "drain"}, jobs[j].step # "idle",
             jobs' = [jobs EXCEPT ![j].step = step]
      PROVE  jobs' \in [Job -> {IdleJob} \union JobRecord]
  BY <1>1, BusyJob DEF TypeOK, JobRecord
<1>2. CASE JobBegin(j)
  <2>1. jobs' \in [Job -> {IdleJob} \union JobRecord]
    BY <1>1, <1>2 DEF JobBegin
  <2> QED  BY <1>2, <2>1 DEF JobBegin, StepOK, TypeOK, SlotStep, Running
<1>3. CASE JobFails(j)
  <2>1. jobs' \in [Job -> {IdleJob} \union JobRecord]
    BY <1>1, <1>3 DEF JobFails
  <2>2. jobs[j].run \in Run
    BY <1>3, BusyJob DEF JobFails
  <2>3. runs' \in [Run -> RunRecord] /\ SlotStep
    BY <1>3, <2>2, OneRunEnds DEF JobFails, RunStatus
  <2>4. attempts' \in [Attempt -> AttemptRecord]
    BY <1>3, <2>2, AttemptOfRun, StatusType DEF JobFails, StoredStatus, AttemptStatus
  <2> QED  BY <1>3, <2>1, <2>3, <2>4 DEF JobFails, StepOK, TypeOK
<1>4. CASE JobEnd(j)
  <2>1. jobs' \in [Job -> {IdleJob} \union JobRecord]
    BY <1>1, <1>4 DEF JobEnd
  <2>2. jobs[j].run \in Run /\ runs[jobs[j].run].attempt \in Attempt
    BY <1>4, BusyJob, AttemptOfRun DEF JobEnd
  <2>3. PICK outcome :
          /\ runs' = [runs EXCEPT ![jobs[j].run] = Ended(jobs[j].run, RunStatusAfter(outcome))]
          /\ attempts' = Concluded(runs[jobs[j].run].attempt, outcome,
                                   attempts[runs[jobs[j].run].attempt].status)
    BY <1>4 DEF JobEnd
  <2>4. RunStatusAfter(outcome) \in RunStatus \ {"running"}
    BY DEF RunStatusAfter, RunStatus
  <2>5. runs' \in [Run -> RunRecord] /\ SlotStep
    BY <2>2, <2>3, <2>4, OneRunEnds
  <2>6. attempts' \in [Attempt -> AttemptRecord]
    BY <2>2, <2>3, ConcludedType
  <2> QED  BY <1>4, <2>1, <2>5, <2>6 DEF JobEnd, StepOK, TypeOK
<1>5. CASE AutoDrain(j)
  BY <1>5, DrainNextOK DEF AutoDrain, StepOK, TypeOK
<1>6. CASE JobLost(j)
  BY <1>6 DEF JobLost, StepOK, TypeOK, SlotStep, Running
<1> QED  BY <1>2, <1>3, <1>4, <1>5, <1>6 DEF JobStep

\* Time, heartbeats and the scheduler leave every run with its worker.
LEMMA TimeOK ==
  ASSUME TypeOK, Tick \/ SchedulerTick \/ \E w \in {"system", "manual"} : Heartbeat(w)
  PROVE  StepOK
<1>1. CASE Tick
  <2>1. \A i \in Run : runs[i].left > 0 => [runs[i] EXCEPT !.left = @ - 1] \in RunRecord
    BY TimeAssumption DEF TypeOK, RunRecord
  <2>2. runs' \in [Run -> RunRecord]
    BY <1>1, <2>1 DEF Tick, TypeOK
  <2>3. Running("system")' \subseteq Running("system")
    BY <1>1 DEF Tick, TypeOK, RunRecord, Running
  <2> QED  BY <1>1, <2>2, <2>3 DEF Tick, StepOK, TypeOK, SlotStep
<1>2. CASE SchedulerTick
  BY <1>2, RecoverOK DEF SchedulerTick, StepOK, TypeOK
<1>3. ASSUME NEW w \in {"system", "manual"}, Heartbeat(w)
      PROVE  StepOK
  <2> DEFINE leased(i) == [runs[i] EXCEPT !.leased = TRUE, !.left = LeaseTTL]
  <2>0. LeaseTTL \in 0 .. StaleTimeout
    BY TimeAssumption
  <2>1. ASSUME NEW i \in Run
        PROVE  leased(i) \in RunRecord /\ leased(i).status = runs[i].status
                 /\ leased(i).worker = runs[i].worker
    <3>1. runs[i] \in RunRecord
      BY DEF TypeOK
    <3> DEFINE r == [runs[i] EXCEPT !.leased = TRUE, !.left = LeaseTTL]
    <3>2. r \in RunRecord
      BY <2>0, <3>1 DEF RunRecord
    <3>3. r.status = runs[i].status /\ r.worker = runs[i].worker
      BY <3>1 DEF RunRecord
    <3> QED  BY <3>2, <3>3
  <2>2. runs' = [i \in Run |-> IF i \in Running(w) THEN leased(i) ELSE runs[i]]
    BY <1>3 DEF Heartbeat
  <2> HIDE DEF leased
  <2>3. runs' \in [Run -> RunRecord] /\ Running("system")' \subseteq Running("system")
    BY <2>1, <2>2 DEF TypeOK, Running
  <2>4. Spend
    BY <1>3 DEF Heartbeat
  <2>5. budget' \in 0 .. MaxRequests
    BY <2>4, BoundAssumption DEF Spend, TypeOK
  <2> QED  BY <1>3, <2>3, <2>5 DEF Heartbeat, StepOK, TypeOK, SlotStep
<1> QED  BY <1>1, <1>2, <1>3

-----------------------------------------------------------------------------
(* HTTP endpoints *)

\* The requests that a thread may have read.
AnyRequest == {IdleThread} \union RunRequest \union AttemptRequest \union SubmitRequest

\* Beginning a request changes no row.
LEMMA BeginOK ==
  ASSUME TypeOK, NEW t \in Thread, NEW r \in AnyRequest, Begin(t, r)
  PROVE  StepOK
<1>1. budget' \in 0 .. MaxRequests
  BY BoundAssumption DEF Begin, Spend, TypeOK
<1> QED  BY <1>1 DEF Begin, StepOK, TypeOK, SlotStep, Running, AnyRequest

\* What an endpoint reads is a request.
LEMMA HttpReadOK ==
  ASSUME TypeOK, NEW t \in Thread, HttpRead(t)
  PROVE  StepOK
<1>1. \A n \in Attempt : attempts[n].status \in StoredStatus
                         /\ attempts[n].claimedBy \in {"none", "system", "manual"}
  BY DEF TypeOK, AttemptRecord
<1>2. ASSUME NEW i \in Run, NEW op \in {"fail", "cancel"}, EndRunRead(t, op, i)
      PROVE  StepOK
  <2>1. ForRun(op, i) \in AnyRequest
    BY <1>1, AttemptOfRun DEF ForRun, AnyRequest, RunRequest
  <2> QED  BY <1>2, <2>1, BeginOK DEF EndRunRead
<1>3. ASSUME NEW n \in Attempt, attempts[n].claimedBy # "none",
             NEW op \in {"worktree", "manual_worktree", "manual_start", "mock", "dry_run",
                         "antigravity"},
             Begin(t, ForAttempt(op, n))
      PROVE  StepOK
  <2>1. ForAttempt(op, n) \in AnyRequest
    BY <1>1, <1>3 DEF ForAttempt, AnyRequest, AttemptRequest
  <2> QED  BY <1>3, <2>1, BeginOK
<1>4. ASSUME NEW n \in Attempt, ManualSubmitRead(t, n)
      PROVE  StepOK
  <2>1. PICK i \in Run : Begin(t, [op |-> "manual_submit", run |-> i, attempt |-> n,
                                   seen |-> attempts[n].status])
    BY <1>4 DEF ManualSubmitRead, Running
  <2>2. [op |-> "manual_submit", run |-> i, attempt |-> n, seen |-> attempts[n].status]
          \in AnyRequest
    BY <1>1 DEF AnyRequest, SubmitRequest
  <2> QED  BY <2>1, <2>2, BeginOK
<1>5. ASSUME NEW n \in Attempt,
             WorktreeRead(t, n) \/ ManualStartRead(t, n) \/ MockRead(t, n)
               \/ DryRunRead(t, n) \/ AntigravityRead(t, n)
      PROVE  StepOK
  BY <1>3, <1>5 DEF WorktreeRead, ManualStartRead, MockRead, DryRunRead, AntigravityRead
<1> QED  BY <1>2, <1>4, <1>5 DEF HttpRead

\* The op of a request tells which kind of record it is.
LEMMA RequestKinds ==
  ASSUME TypeOK, NEW t \in Thread
  PROVE  /\ request[t].op \in {"fail", "cancel"} => request[t] \in RunRequest
         /\ request[t].op \in {"worktree", "manual_worktree", "manual_start", "mock", "dry_run",
                               "antigravity"} => request[t] \in AttemptRequest
         /\ request[t].op = "manual_submit" => request[t] \in SubmitRequest
BY DEF TypeOK, IdleThread, RunRequest, AttemptRequest, SubmitRequest

\* A thread that finishes is idle, and spends nothing more.
LEMMA FinishOK ==
  ASSUME TypeOK, NEW t \in Thread, Finish(t),
         attempts' \in [Attempt -> AttemptRecord], runs' \in [Run -> RunRecord], SlotStep
  PROVE  StepOK
BY DEF Finish, StepOK, TypeOK

\* What an endpoint writes.
LEMMA HttpWriteOK ==
  ASSUME TypeOK, NEW t \in Thread, HttpWrite(t)
  PROVE  StepOK
<1> DEFINE r == request[t]
<1>1. UNCHANGED runs => runs' \in [Run -> RunRecord] /\ SlotStep
  BY DEF TypeOK, SlotStep, Running
<1>2. UNCHANGED attempts => attempts' \in [Attempt -> AttemptRecord]
  BY DEF TypeOK
<1>3. \A outcome : RunStatusAfter(outcome) \in RunStatus \ {"running"}
  BY DEF RunStatusAfter, RunStatus
<1>4. CASE EndRunWrite(t)
  <2>1. r \in RunRequest
    BY <1>4, RequestKinds DEF EndRunWrite
  <2>2. r.run \in Run /\ runs[r.run].attempt \in Attempt
        /\ attempts[runs[r.run].attempt].status \in StoredStatus
    BY <2>1, AttemptOfRun DEF RunRequest, AttemptRecord
  <2> DEFINE ended == IF r.op = "fail" THEN "failed" ELSE "cancelled"
             left == IF r.op = "fail" THEN "worker_failed" ELSE "cancelled"
             n == runs[r.run].attempt
  <2>3. ended \in RunStatus \ {"running"} /\ left \in StoredStatus
    BY DEF RunStatus, StoredStatus, AttemptStatus
  <2>4. runs' = [runs EXCEPT ![r.run] = Ended(r.run, ended)]
    BY <1>4 DEF EndRunWrite
  <2>5. attempts' = [attempts EXCEPT ![n].status = Flush(attempts[n].status, r.seen, left)]
    BY <1>4, <2>2 DEF EndRunWrite, TypeOK, AttemptRecord
  <2> HIDE DEF ended, left
  <2>6. runs' \in [Run -> RunRecord] /\ SlotStep
    BY <2>2, <2>3, <2>4, OneRunEnds
  <2>7. attempts' \in [Attempt -> AttemptRecord]
    BY <2>2, <2>3, <2>5, FlushType, StatusType
  <2> QED  BY <1>4, <2>6, <2>7, FinishOK DEF EndRunWrite
<1>5. CASE WorktreeWrite(t)
  <2>1. r \in AttemptRequest
    BY <1>5, RequestKinds DEF WorktreeWrite
  <2> DEFINE n == r.attempt
  <2>2. n \in Attempt /\ attempts[n] \in AttemptRecord /\ attempts[n].status \in StoredStatus
    BY <2>1 DEF AttemptRequest, TypeOK, AttemptRecord
  <2>3. Flush(attempts[n].status, r.seen, "running_worker") \in StoredStatus
    BY <2>2, FlushType DEF StoredStatus, AttemptStatus
  <2>4. CASE attempts' = [attempts EXCEPT ![n].worktree = "failed"] /\ Finish(t)
    <3>1. attempts' \in [Attempt -> AttemptRecord]
      BY <2>2, <2>4 DEF TypeOK, AttemptRecord
    <3> QED  BY <1>1, <1>5, <2>4, <3>1, FinishOK DEF WorktreeWrite
  <2>5. CASE attempts' = [attempts EXCEPT ![n].worktree = "open",
                            ![n].status = Flush(@, r.seen, "running_worker")]
    <3> DEFINE s == Flush(attempts[n].status, r.seen, "running_worker")
    <3>1. attempts' = [attempts EXCEPT ![n].worktree = "open", ![n].status = s]
      BY <2>2, <2>5 DEF TypeOK, AttemptRecord
    <3>2. s \in StoredStatus
      BY <2>3
    <3> HIDE DEF s
    <3>3. attempts' \in [Attempt -> AttemptRecord]
      BY <2>2, <3>1, <3>2 DEF TypeOK, AttemptRecord
    <3>4. CASE Finish(t)
      BY <1>1, <1>5, <3>3, <3>4, FinishOK DEF WorktreeWrite
    <3>5. CASE /\ request' = [request EXCEPT ![t].op = "manual_start"]
               /\ UNCHANGED <<jobs, budget>>
      <4>1. [r EXCEPT !.op = "manual_start"] \in AttemptRequest
        BY <2>1 DEF AttemptRequest
      <4>2. request' \in [Thread -> {IdleThread} \union RunRequest \union AttemptRequest
                                      \union SubmitRequest]
        BY <3>5, <4>1 DEF TypeOK
      <4> QED  BY <1>1, <1>5, <3>3, <3>5, <4>2 DEF WorktreeWrite, StepOK, TypeOK
    <3> QED  BY <1>5, <2>5, <3>4, <3>5 DEF WorktreeWrite, Finish
  <2> QED  BY <1>5, <2>4, <2>5 DEF WorktreeWrite
<1>6. CASE ManualStartWrite(t)
  <2>1. r.attempt \in Attempt
    BY <1>6, RequestKinds DEF ManualStartWrite, AttemptRequest
  <2>2. runs' \in [Run -> RunRecord] /\ SlotStep
    BY <1>6, <2>1, InsertRunType DEF ManualStartWrite, RunStatus
  <2>3. attempts' \in [Attempt -> AttemptRecord]
    BY <1>2, <1>6, <2>1 DEF ManualStartWrite, TypeOK, AttemptRecord
  <2> QED  BY <1>6, <2>2, <2>3, FinishOK DEF ManualStartWrite
<1>7. CASE ManualSubmitWrite(t)
  <2>1. r.run \in Run /\ r.attempt \in Attempt
    BY <1>7, RequestKinds DEF ManualSubmitWrite, SubmitRequest
  <2>2. runs' \in [Run -> RunRecord] /\ SlotStep
    BY <1>7, <2>1, OneRunEnds DEF ManualSubmitWrite, RunStatus
  <2>3. attempts' \in [Attempt -> AttemptRecord]
    BY <1>7, <2>1, ConcludedType DEF ManualSubmitWrite
  <2> QED  BY <1>7, <2>2, <2>3, FinishOK DEF ManualSubmitWrite
<1>8. CASE MockWrite(t)
  <2>1. r.attempt \in Attempt
    BY <1>8, RequestKinds DEF MockWrite, AttemptRequest
  <2>2. PICK outcome : /\ InsertRun(r.attempt, "mock", "system", RunStatusAfter(outcome))
                       /\ attempts' = Concluded(r.attempt, outcome, r.seen)
    BY <1>8 DEF MockWrite
  <2>3. runs' \in [Run -> RunRecord] /\ SlotStep
    BY <1>3, <2>1, <2>2, InsertRunType DEF QueueAdapters
  <2>4. attempts' \in [Attempt -> AttemptRecord]
    BY <2>1, <2>2, ConcludedType
  <2> QED  BY <1>8, <2>3, <2>4, FinishOK DEF MockWrite
<1>9. CASE DryRunWrite(t)
  <2>1. r.attempt \in Attempt /\ r.worker \in {"system", "manual"}
    BY <1>9, RequestKinds DEF DryRunWrite, AttemptRequest
  <2>2. PICK s \in {"succeeded", "failed"} :
          InsertRun(r.attempt, "external_cli_dry_run", r.worker, s)
    BY <1>9 DEF DryRunWrite
  <2>3. runs' \in [Run -> RunRecord] /\ SlotStep
    BY <2>1, <2>2, InsertRunType DEF ExternalAdapters, RunStatus
  <2> QED  BY <1>2, <1>9, <2>3, FinishOK DEF DryRunWrite
<1>10. CASE AntigravityWrite(t)
  <2>1. r.attempt \in Attempt /\ r.worker \in {"system", "manual"}
    BY <1>10, RequestKinds DEF AntigravityWrite, AttemptRequest
  <2>2. PICK outcome :
          /\ InsertRun(r.attempt, "antigravity_cli", r.worker, RunStatusAfter(outcome))
          /\ attempts' = Concluded(r.attempt, outcome, r.seen)
    BY <1>10 DEF AntigravityWrite
  <2>3. runs' \in [Run -> RunRecord] /\ SlotStep
    BY <1>3, <2>1, <2>2, InsertRunType DEF ExternalAdapters
  <2>4. attempts' \in [Attempt -> AttemptRecord]
    BY <2>1, <2>2, ConcludedType
  <2> QED  BY <1>10, <2>3, <2>4, FinishOK DEF AntigravityWrite
<1>11. CASE Refuse(t)
  BY <1>1, <1>2, <1>11, FinishOK DEF Refuse
<1> QED  BY <1>4, <1>5, <1>6, <1>7, <1>8, <1>9, <1>10, <1>11 DEF HttpWrite

\* A worker claims or releases an attempt; the server stops.
LEMMA ClaimOK ==
  ASSUME TypeOK, Crash \/ \E n \in Attempt : Claim(n) \/ Release(n)
  PROVE  StepOK
<1>1. Spend => budget' \in 0 .. MaxRequests
  BY BoundAssumption DEF Spend, TypeOK
<1>2. ASSUME NEW n \in Attempt, Claim(n)
      PROVE  StepOK
  <2>1. attempts' \in [Attempt -> AttemptRecord]
    BY <1>2 DEF Claim, TypeOK, AttemptRecord, StoredStatus, AttemptStatus
  <2> QED  BY <1>1, <1>2, <2>1 DEF Claim, StepOK, TypeOK, SlotStep, Running
<1>3. ASSUME NEW n \in Attempt, Release(n)
      PROVE  StepOK
  <2>1. PICK s \in {attempts[n].status, "worker_failed", "cancelled", "created", "reviewing"} :
          attempts' = [attempts EXCEPT ![n].claimedBy = "none", ![n].status = s]
    BY <1>3 DEF Release
  <2>2. s \in StoredStatus
    BY DEF TypeOK, AttemptRecord, StoredStatus, AttemptStatus
  <2>3. attempts' \in [Attempt -> AttemptRecord]
    BY <2>1, <2>2 DEF TypeOK, AttemptRecord
  <2> QED  BY <1>1, <1>3, <2>3 DEF Release, StepOK, TypeOK, SlotStep, Running
<1>4. CASE Crash
  BY <1>1, <1>4 DEF Crash, StepOK, TypeOK, SlotStep, Running
<1> QED  BY <1>2, <1>3, <1>4

-----------------------------------------------------------------------------
(* Theorems *)

\* Every step keeps the types, and uses the slot as SlotStep says.
LEMMA StepIsOK ==
  ASSUME TypeOK, [Next]_vars
  PROVE  StepOK
<1>1. CASE UNCHANGED vars
  BY <1>1 DEF vars, StepOK, TypeOK, SlotStep, Running
<1>2. CASE OwnerToolCall
  BY <1>2, OwnerToolCallOK
<1>3. CASE \E j \in Job : JobStep(j) \/ JobLost(j)
  BY <1>3, JobStepOK
<1>4. CASE Tick \/ SchedulerTick \/ \E w \in {"system", "manual"} : Heartbeat(w)
  BY <1>4, TimeOK
<1>5. CASE \E t \in Thread : HttpRead(t) \/ HttpWrite(t)
  BY <1>5, HttpReadOK, HttpWriteOK
<1>6. CASE Crash \/ \E n \in Attempt : Claim(n) \/ Release(n)
  BY <1>6, ClaimOK
<1> QED  BY <1>1, <1>2, <1>3, <1>4, <1>5, <1>6 DEF Next

\* The initial state has the types, and no run.
LEMMA InitOK ==
  ASSUME Init
  PROVE  TypeOK /\ Running("system") = {}
<1>1. 1 \in Attempt /\ 0 \in 0 .. StaleTimeout /\ MaxRequests \in 0 .. MaxRequests
  BY BoundAssumption, TimeAssumption DEF Attempt
<1>2. [status |-> "absent", attempt |-> 1, adapter |-> "mock", worker |-> "system",
       leased |-> FALSE, left |-> 0] \in RunRecord
  BY <1>1 DEF RunRecord, RunStatus, QueueAdapters, AdapterKinds
<1>3. [status |-> "absent", claimedBy |-> "none", worktree |-> "none"] \in AttemptRecord
  BY DEF AttemptRecord, StoredStatus
<1> QED  BY <1>1, <1>2, <1>3 DEF Init, TypeOK, Running

\* Every row and every request in flight has its type, in every state.
THEOREM TypeCorrect == Spec => []TypeOK
<1>1. Init => TypeOK
  BY InitOK
<1>2. TypeOK /\ [Next]_vars => TypeOK'
  BY StepIsOK DEF StepOK
<1> QED  BY <1>1, <1>2, PTL DEF Spec

\* The worker of the owner tools never runs two runs, whatever is run again,
\* drained, recovered or lost.
THEOREM OneRunning == Spec => []OneRunningPerWorker
<1> DEFINE IInv == TypeOK /\ OneRunningPerWorker
<1>1. Init => IInv
  BY InitOK DEF OneRunningPerWorker
<1>2. IInv /\ [Next]_vars => IInv'
  <2> SUFFICES ASSUME IInv, [Next]_vars
               PROVE  IInv'
    OBVIOUS
  <2>1. TypeOK' /\ SlotStep
    BY StepIsOK DEF StepOK
  <2>2. CASE Running("system")' \subseteq Running("system")
    BY <2>1, <2>2 DEF OneRunningPerWorker
  <2>3. CASE \E i \in Run : Running("system")' = {i}
    BY <2>1, <2>3 DEF OneRunningPerWorker
  <2> QED  BY <2>1, <2>2, <2>3 DEF SlotStep
<1> QED  BY <1>1, <1>2, PTL DEF Spec

\* What the slot of that worker does, liveness aside.
SlotSafety == Slot!Init /\ [][Slot!Next]_(Running("system"))

\* The queue implements the slot of WorkerSlot: one run takes it when it is
\* free, and it is free before another run takes it.  That it becomes free is
\* ImplementsWorkerSlot, which a run checks.
THEOREM SlotImplemented == Spec => SlotSafety
<1>1. Init => Slot!Init
  BY InitOK DEF Slot!Init
<1>2. TypeOK /\ OneRunningPerWorker /\ [Next]_vars => [Slot!Next]_(Running("system"))
  <2> SUFFICES ASSUME TypeOK, OneRunningPerWorker, [Next]_vars
               PROVE  [Slot!Next]_(Running("system"))
    OBVIOUS
  <2>1. SlotStep
    BY StepIsOK DEF StepOK
  <2>2. CASE Running("system")' \subseteq Running("system")
    <3>1. Running("system")' = Running("system") \/ Running("system")' = {}
      BY <2>2 DEF OneRunningPerWorker
    <3> QED  BY <3>1 DEF Slot!Next, Slot!Free
  <2>3. CASE \E i \in Run : Running("system") \subseteq {i} /\ Running("system")' = {i}
    <3>1. PICK i \in Run : Running("system") \subseteq {i} /\ Running("system")' = {i}
      BY <2>3
    <3>2. Running("system") = {} \/ Running("system") = {i}
      BY <3>1
    <3> QED  BY <3>1, <3>2 DEF Slot!Next, Slot!Take
  <2> QED  BY <2>1, <2>2, <2>3 DEF SlotStep
<1> QED  BY <1>1, <1>2, TypeCorrect, OneRunning, PTL DEF Spec, SlotSafety

-----------------------------------------------------------------------------
(* Why a run ends: the time left to it, and what may add to it *)

\* What gives a run more time: its worker sends a heartbeat, or the run is run again.
Renews(i) == \/ \E w \in {"system", "manual"} : Heartbeat(w) /\ runs[i].worker = w
             \/ \E j \in Job : RunTaskAttempt(i, j)

\* A step ends the run, gives it no more time, or is one of those.
Ages(i) == \/ runs'[i].status # "running"
           \/ runs'[i].left <= runs[i].left
           \/ Renews(i) /\ budget' < budget

\* So does every step; time takes from what is left, and the scheduler ends a run that
\* has nothing left.
RunsAge ==
  [][/\ budget' <= budget
     /\ \A i \in Run : runs[i].status = "running" =>
          /\ Ages(i)
          /\ Tick /\ runs[i].left > 0 => runs'[i].left = runs[i].left - 1
          /\ SchedulerTick /\ runs[i].left = 0 => runs'[i].status = "failed"]_vars

\* A run that a step leaves alone.
LEMMA KeptAges ==
  ASSUME TypeOK, NEW i \in Run, runs'[i] = runs[i]
  PROVE  Ages(i)
BY DEF Ages, TypeOK, RunRecord

\* One run gets a new row, and it was not running or is not any more.
LEMMA OneRunAges ==
  ASSUME TypeOK, NEW i \in Run, runs[i].status = "running",
         NEW k \in Run, NEW r, runs' = [runs EXCEPT ![k] = r],
         runs[k].status # "running" \/ r.status # "running"
  PROVE  Ages(i)
<1>1. CASE i = k
  BY <1>1 DEF Ages, TypeOK
<1>2. CASE i # k
  BY <1>2, KeptAges DEF TypeOK
<1> QED  BY <1>1, <1>2

\* One run ends.
LEMMA OneEndAges ==
  ASSUME TypeOK, NEW i \in Run, runs[i].status = "running",
         NEW k \in Run, NEW s \in RunStatus \ {"running"},
         runs' = [runs EXCEPT ![k] = Ended(k, s)]
  PROVE  Ages(i)
<1>1. Ended(k, s).status # "running"
  BY EndedType
<1> QED  BY <1>1, OneRunAges

\* A row is filled that was absent.
LEMMA InsertAges ==
  ASSUME TypeOK, NEW i \in Run, runs[i].status = "running",
         NEW n, NEW adapter, NEW w, NEW s, InsertRun(n, adapter, w, s)
  PROVE  Ages(i)
<1>1. PICK k \in Run :
        /\ runs[k].status = "absent"
        /\ runs' = [runs EXCEPT ![k] = [status |-> s, attempt |-> n, adapter |-> adapter,
                                        worker |-> w, leased |-> FALSE,
                                        left |-> IF s = "running" THEN StaleTimeout ELSE 0]]
  BY DEF InsertRun, NextRow
<1> QED  BY <1>1, OneRunAges

\* A drain takes a run that is queued: a run that is running is not handed off
\* again by it.
LEMMA DrainAges ==
  ASSUME TypeOK, NEW i \in Run, runs[i].status = "running",
         NEW w, NEW j \in Job, DrainNext(w, j)
  PROVE  Ages(i)
<1>1. CASE UNCHANGED runs
  BY <1>1, KeptAges
<1>2. ASSUME NEW k \in Run, runs[k].status = "queued", RunWorkerRun(k, j)
      PROVE  Ages(i)
  <2>1. CASE UNCHANGED runs
    BY <2>1, KeptAges
  <2>2. CASE Requeue(k) \/ CompleteMock(k)
    BY <2>2, OneEndAges DEF Requeue, CompleteMock, RunStatus
  <2>3. CASE HandOff(k)
    <3>1. i # k
      BY <1>2
    <3> QED  BY <2>3, <3>1, KeptAges DEF HandOff, TypeOK
  <2> QED  BY <1>2, <2>1, <2>2, <2>3 DEF RunWorkerRun, WorktreeFailed
<1> QED  BY <1>1, <1>2 DEF DrainNext, Drainable

\* A background task ends its own run, or drains.
LEMMA JobAges ==
  ASSUME TypeOK, NEW i \in Run, runs[i].status = "running",
         NEW j \in Job, JobStep(j) \/ JobLost(j)
  PROVE  Ages(i)
<1>1. CASE JobBegin(j) \/ JobLost(j)
  BY <1>1, KeptAges DEF JobBegin, JobLost
<1>2. CASE JobFails(j)
  <2>1. jobs[j].run \in Run
    BY <1>2, BusyJob DEF JobFails
  <2> QED  BY <1>2, <2>1, OneEndAges DEF JobFails, RunStatus
<1>3. CASE JobEnd(j)
  <2>1. jobs[j].run \in Run
    BY <1>3, BusyJob DEF JobEnd
  <2>2. PICK outcome :
          runs' = [runs EXCEPT ![jobs[j].run] = Ended(jobs[j].run, RunStatusAfter(outcome))]
    BY <1>3 DEF JobEnd
  <2>3. RunStatusAfter(outcome) \in RunStatus \ {"running"}
    BY DEF RunStatusAfter, RunStatus
  <2> QED  BY <1>3, <2>1, <2>2, <2>3, OneEndAges DEF JobEnd
<1>4. CASE AutoDrain(j)
  BY <1>4, DrainAges DEF AutoDrain
<1> QED  BY <1>1, <1>2, <1>3, <1>4 DEF JobStep

\* Recovery ends runs, and leaves the others alone.
LEMMA RecoverAges ==
  ASSUME TypeOK, NEW i \in Run, runs[i].status = "running",
         NEW timeout, NEW among \in SUBSET Run, Recover(timeout, among)
  PROVE  /\ Ages(i)
         /\ i \in among /\ Stale(i, timeout) => runs'[i].status = "failed"
<1>1. runs'[i] = IF i \in among /\ Stale(i, timeout) THEN Ended(i, "failed") ELSE runs[i]
  BY DEF Recover
<1>2. Ended(i, "failed").status = "failed"
  BY EndedType DEF RunStatus
<1>3. CASE i \in among /\ Stale(i, timeout)
  BY <1>1, <1>2, <1>3 DEF Ages
<1>4. CASE ~(i \in among /\ Stale(i, timeout))
  BY <1>1, <1>4, KeptAges
<1> QED  BY <1>3, <1>4, <1>1, <1>2

\* A tick takes one from what is left.
LEMMA TickAges ==
  ASSUME TypeOK, NEW i \in Run, runs[i].status = "running", Tick
  PROVE  /\ Ages(i)
         /\ runs[i].left > 0 => runs'[i].left = runs[i].left - 1
<1>1. runs[i] \in RunRecord /\ runs[i].left \in 0 .. StaleTimeout
  BY DEF TypeOK, RunRecord
<1>2. CASE runs[i].left > 0
  <2>1. runs'[i] = [runs[i] EXCEPT !.left = runs[i].left - 1]
    BY <1>2 DEF Tick
  <2>2. runs'[i].left = runs[i].left - 1
    BY <1>1, <2>1 DEF RunRecord
  <2> QED  BY <1>1, <2>2, TimeAssumption DEF Ages
<1>3. CASE ~(runs[i].left > 0)
  <2>1. runs'[i] = runs[i]
    BY <1>3 DEF Tick
  <2> QED  BY <1>3, <2>1, KeptAges
<1> QED  BY <1>2, <1>3

\* An endpoint ends a run, inserts one, or leaves the runs alone.
LEMMA HttpAges ==
  ASSUME TypeOK, NEW i \in Run, runs[i].status = "running",
         NEW t \in Thread, HttpWrite(t)
  PROVE  Ages(i)
<1>2. CASE EndRunWrite(t)
  <2>1. request[t].run \in Run
    BY <1>2, RequestKinds DEF EndRunWrite, RunRequest
  <2>2. PICK s \in {"failed", "cancelled"} :
          runs' = [runs EXCEPT ![request[t].run] = Ended(request[t].run, s)]
    BY <1>2 DEF EndRunWrite
  <2> QED  BY <2>1, <2>2, OneEndAges DEF RunStatus
<1>3. CASE WorktreeWrite(t) \/ Refuse(t)
  BY <1>3, KeptAges DEF WorktreeWrite, Refuse
<1>4. CASE ManualStartWrite(t)
  BY <1>4, InsertAges DEF ManualStartWrite
<1>5. CASE ManualSubmitWrite(t)
  <2>1. request[t].run \in Run
    BY <1>5, RequestKinds DEF ManualSubmitWrite, SubmitRequest
  <2> QED  BY <1>5, <2>1, OneEndAges DEF ManualSubmitWrite, RunStatus
<1>6. CASE MockWrite(t)
  BY <1>6, InsertAges DEF MockWrite
<1>7. CASE DryRunWrite(t)
  BY <1>7, InsertAges DEF DryRunWrite
<1>8. CASE AntigravityWrite(t)
  BY <1>8, InsertAges DEF AntigravityWrite
<1> QED  BY <1>2, <1>3, <1>4, <1>5, <1>6, <1>7, <1>8 DEF HttpWrite

\* A heartbeat is a request that is spent.
LEMMA HeartbeatSpends ==
  ASSUME NEW w, Heartbeat(w)
  PROVE  Spend
BY Zenon DEF Heartbeat

\* A heartbeat gives time to the runs of its worker only.
LEMMA HeartbeatAges ==
  ASSUME TypeOK, NEW i \in Run, NEW w \in {"system", "manual"}, Heartbeat(w)
  PROVE  Ages(i)
<1>1. budget' < budget
  BY HeartbeatSpends DEF Spend, TypeOK
<1>2. CASE runs[i].worker = w
  BY <1>1, <1>2, Zenon DEF Ages, Renews
<1>3. CASE runs[i].worker # w
  <2> DEFINE renewed(k) == [runs[k] EXCEPT !.leased = TRUE, !.left = LeaseTTL]
  <2>1. runs' = [k \in Run |-> IF k \in Running(w) THEN renewed(k) ELSE runs[k]]
    BY Zenon DEF Heartbeat
  <2> HIDE DEF renewed
  <2>2. runs'[i] = runs[i]
    BY <1>3, <2>1 DEF Running
  <2> QED  BY <2>2, KeptAges
<1> QED  BY <1>2, <1>3

\* An owner tool renews the run that it runs again, and no other.
LEMMA ToolAges ==
  ASSUME TypeOK, NEW i \in Run, runs[i].status = "running", OwnerToolCall
  PROVE  Ages(i)
<1>1. ASSUME NEW n \in Attempt, CreateAttempt(n)
      PROVE  Ages(i)
  BY <1>1, KeptAges DEF CreateAttempt
<1>2. ASSUME NEW n \in Attempt, NEW adapter \in Adapters, StartTaskAttempt(n, adapter)
      PROVE  Ages(i)
  <2>1. PICK k \in Run :
          /\ runs[k].status = "absent"
          /\ runs' = [runs EXCEPT ![k] = [status |-> "queued", attempt |-> n,
                                          adapter |-> adapter, worker |-> WorkerOf(adapter),
                                          leased |-> FALSE, left |-> 0]]
    BY <1>2 DEF StartTaskAttempt, NextRow
  <2> QED  BY <2>1, OneRunAges
<1>3. ASSUME NEW k \in Run, NEW j \in Job, RunTaskAttempt(k, j)
      PROVE  Ages(i)
  <2>1. CASE k = i
    <3>1. budget' < budget
      BY <1>3 DEF RunTaskAttempt, Spend, TypeOK
    <3> QED  BY <1>3, <2>1, <3>1, Zenon DEF Ages, Renews
  <2>2. CASE k # i
    <3>1. RunWorkerRun(k, j)
      BY <1>3 DEF RunTaskAttempt
    <3>2. UNCHANGED runs \/ Requeue(k) \/ CompleteMock(k) \/ HandOff(k)
      BY <3>1 DEF RunWorkerRun, WorktreeFailed
    <3>3. runs'[i] = runs[i]
      BY <2>2, <3>2 DEF Requeue, CompleteMock, HandOff, TypeOK
    <3> QED  BY <3>3, KeptAges
  <2> QED  BY <2>1, <2>2
<1>4. ASSUME NEW w \in {"system", "manual"}, NEW j \in Job, DrainQueue(w, j)
      PROVE  Ages(i)
  BY <1>4, DrainAges DEF DrainQueue
<1>5. ASSUME NEW timeout \in 1 .. StaleTimeout, RecoverStaleRuns(timeout)
      PROVE  Ages(i)
  BY <1>5, RecoverAges DEF RecoverStaleRuns
<1> QED  BY <1>1, <1>2, <1>3, <1>4, <1>5 DEF OwnerToolCall

\* Nothing gives back a request that was spent.
LEMMA BudgetFalls ==
  ASSUME TypeOK, [Next]_vars
  PROVE  budget' <= budget
<1>1. budget \in Nat
  BY BoundAssumption DEF TypeOK
<1>2. CASE Spend
  BY <1>1, <1>2 DEF Spend
<1>3. CASE UNCHANGED budget
  BY <1>1, <1>3
<1>4. CASE OwnerToolCall
  <2>1. \A n \in Attempt : CreateAttempt(n) => Spend
    BY DEF CreateAttempt
  <2>2. \A n \in Attempt, adapter \in Adapters : StartTaskAttempt(n, adapter) => Spend
    BY DEF StartTaskAttempt
  <2>3. \A i \in Run, j \in Job : RunTaskAttempt(i, j) => Spend
    BY DEF RunTaskAttempt
  <2>4. \A w \in {"system", "manual"}, j \in Job : DrainQueue(w, j) => Spend
    BY DEF DrainQueue
  <2>5. \A timeout \in 1 .. StaleTimeout : RecoverStaleRuns(timeout) => Spend
    BY DEF RecoverStaleRuns
  <2> QED  BY <1>2, <1>4, <2>1, <2>2, <2>3, <2>4, <2>5 DEF OwnerToolCall
<1>5. CASE \E j \in Job : JobStep(j) \/ JobLost(j)
  <2>1. \A j \in Job : JobBegin(j) \/ JobLost(j) => UNCHANGED budget
    BY DEF JobBegin, JobLost
  <2>2. \A j \in Job : JobFails(j) => UNCHANGED budget
    BY DEF JobFails
  <2>3. \A j \in Job : JobEnd(j) => UNCHANGED budget
    BY DEF JobEnd
  <2>4. \A j \in Job : AutoDrain(j) => UNCHANGED budget
    BY DEF AutoDrain
  <2> QED  BY <1>3, <1>5, <2>1, <2>2, <2>3, <2>4 DEF JobStep
<1>6. CASE Tick \/ SchedulerTick
  BY <1>3, <1>6 DEF Tick, SchedulerTick
<1>7. CASE \E w \in {"system", "manual"} : Heartbeat(w)
  BY <1>2, <1>7, HeartbeatSpends
<1>8. CASE \E t \in Thread : HttpRead(t)
  BY <1>2, <1>8 DEF HttpRead, EndRunRead, WorktreeRead, ManualStartRead, ManualSubmitRead,
                    MockRead, DryRunRead, AntigravityRead, Begin
<1>9. CASE \E t \in Thread : HttpWrite(t)
  BY <1>3, <1>9 DEF HttpWrite, EndRunWrite, WorktreeWrite, ManualStartWrite, ManualSubmitWrite,
                    MockWrite, DryRunWrite, AntigravityWrite, Refuse, Finish
<1>10. CASE Crash \/ \E n \in Attempt : Claim(n) \/ Release(n)
  BY <1>2, <1>10 DEF Crash, Claim, Release
<1> QED  BY <1>3, <1>4, <1>5, <1>6, <1>7, <1>8, <1>9, <1>10 DEF Next, vars

\* Every step ages a run that is running.
LEMMA StepAges ==
  ASSUME TypeOK, NEW i \in Run, runs[i].status = "running", [Next]_vars
  PROVE  Ages(i)
<1>1. CASE UNCHANGED vars
  BY <1>1, KeptAges DEF vars
<1>2. CASE OwnerToolCall
  BY <1>2, ToolAges
<1>3. CASE \E j \in Job : JobStep(j) \/ JobLost(j)
  BY <1>3, JobAges
<1>4. CASE Tick
  BY <1>4, TickAges
<1>5. CASE SchedulerTick
  BY <1>5, RecoverAges DEF SchedulerTick
<1>6. CASE \E w \in {"system", "manual"} : Heartbeat(w)
  BY <1>6, HeartbeatAges
<1>7. CASE \E t \in Thread : HttpRead(t)
  BY <1>7, KeptAges DEF HttpRead, EndRunRead, WorktreeRead, ManualStartRead, ManualSubmitRead,
                        MockRead, DryRunRead, AntigravityRead, Begin
<1>8. CASE \E t \in Thread : HttpWrite(t)
  BY <1>8, HttpAges
<1>9. CASE Crash \/ \E n \in Attempt : Claim(n) \/ Release(n)
  BY <1>9, KeptAges DEF Crash, Claim, Release
<1> QED  BY <1>1, <1>2, <1>3, <1>4, <1>5, <1>6, <1>7, <1>8, <1>9 DEF Next

\* The time left to a run that is running grows only when its worker sends a heartbeat
\* or the same run is handed to the tool again, and each of these is a request that is
\* spent; a tick takes from it, and the scheduler fails a run that has none left, also
\* when its background task is lost (worker_liveness.py).  This is the safety half of
\* RunningEnds: with time and the scheduler going on, as Fairness has it, the run ends.
THEOREM RunsGrowOld == Spec => RunsAge
<1>1. TypeOK /\ [Next]_vars
        => [/\ budget' <= budget
            /\ \A i \in Run : runs[i].status = "running" =>
                 /\ Ages(i)
                 /\ Tick /\ runs[i].left > 0 => runs'[i].left = runs[i].left - 1
                 /\ SchedulerTick /\ runs[i].left = 0 => runs'[i].status = "failed"]_vars
  <2> SUFFICES ASSUME TypeOK, [Next]_vars
               PROVE  /\ budget' <= budget
                      /\ \A i \in Run : runs[i].status = "running" =>
                           /\ Ages(i)
                           /\ Tick /\ runs[i].left > 0 => runs'[i].left = runs[i].left - 1
                           /\ SchedulerTick /\ runs[i].left = 0 => runs'[i].status = "failed"
    OBVIOUS
  <2>1. ASSUME NEW i \in Run, runs[i].status = "running"
        PROVE  /\ Ages(i)
               /\ Tick /\ runs[i].left > 0 => runs'[i].left = runs[i].left - 1
               /\ SchedulerTick /\ runs[i].left = 0 => runs'[i].status = "failed"
    <3>1. Ages(i)
      BY <2>1, StepAges
    <3>2. Tick /\ runs[i].left > 0 => runs'[i].left = runs[i].left - 1
      BY <2>1, TickAges
    <3>3. runs[i].left = 0 => Stale(i, StaleTimeout)
      BY <2>1, TimeAssumption DEF Stale
    <3>4. SchedulerTick /\ runs[i].left = 0 => runs'[i].status = "failed"
      BY <2>1, <3>3, RecoverAges DEF SchedulerTick
    <3> QED  BY <3>1, <3>2, <3>4
  <2> QED  BY <2>1, BudgetFalls
<1> QED  BY <1>1, TypeCorrect, PTL DEF Spec, RunsAge

=============================================================================
