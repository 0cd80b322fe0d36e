------------------------- MODULE SquashMergeProofs -------------------------
(***************************************************************************)
(* Theorems about SquashMerge for any number of attempts and of requests   *)
(* in flight, with or without a user who runs git at the same time: types, *)
(* and that nothing lands on the branch which was not approved.            *)
(***************************************************************************)
EXTENDS SquashMerge, SequenceTheorems, TLAPS

-----------------------------------------------------------------------------
(* Types *)

\* The op of a request tells which kind of record it is.
LEMMA RequestKinds ==
  ASSUME NEW r \in {Idle} \union RowRequest \union SquashRequest
  PROVE  /\ r.op \in {"approve", "reject", "commit_result", "decide"} => r \in RowRequest
         /\ r.op = "squash" => r \in SquashRequest
BY DEF Idle, RowRequest, SquashRequest

\* Storing some columns of a row leaves a row.
LEMMA StoreType ==
  ASSUME TypeOK, NEW a \in Attempt, NEW seen \in Row, NEW new \in Row, Store(a, seen, new)
  PROVE  row' \in [Attempt -> Row]
<1> DEFINE old == row[a]
           put == [f \in DOMAIN seen |-> IF new[f] = seen[f] THEN old[f] ELSE new[f]]
<1>1. old \in Row
  BY DEF TypeOK
<1>2. put \in Row
  BY <1>1 DEF Row
<1> QED  BY <1>2 DEF Store, TypeOK

-----------------------------------------------------------------------------
(* Approvals are only added, and what they are for never changes *)

Kept(q, s) == /\ s \in Seq(Approval)
              /\ Len(q) <= Len(s)
              /\ \A i \in DOMAIN q : s[i].fp = q[i].fp

\* Changing statuses one by one keeps the approvals.
LEMMA StatusesKept ==
  ASSUME NEW q \in Seq(Approval), NEW s, DOMAIN s = DOMAIN q,
         s = [i \in DOMAIN s |-> s[i]],
         \A i \in DOMAIN q : s[i] \in Approval /\ s[i].fp = q[i].fp
  PROVE  Kept(q, s)
<1>1. s \in [1..Len(q) -> Approval]
  OBVIOUS
<1>2. s \in Seq(Approval) /\ Len(s) = Len(q)
  BY <1>1
<1> QED  BY <1>2 DEF Kept

\* A latest approval that goes stale is still an approval, for the same thing.
LEMMA MarkLatestKeeps ==
  ASSUME NEW q \in Seq(Approval), NEW fp
  PROVE  Kept(q, MarkLatest(q, fp))
<1>1. CASE q = <<>> \/ Last(q).fp = fp \/ Last(q).status # "approved"
  BY <1>1 DEF MarkLatest, Kept
<1>2. CASE q # <<>> /\ Last(q).fp # fp /\ Last(q).status = "approved"
  <2> DEFINE n == Len(q)
             s == [q EXCEPT ![n].status = "stale"]
  <2>1. MarkLatest(q, fp) = s
    BY <1>2 DEF MarkLatest
  <2>2. n \in DOMAIN q /\ q[n] \in Approval
    BY <1>2
  <2> DEFINE x == [q[n] EXCEPT !.status = "stale"]
  <2>3. x \in Approval /\ x.fp = q[n].fp
    BY <2>2 DEF Approval
  <2>4. \A i \in DOMAIN q : s[i] = IF i = n THEN x ELSE q[i]
    OBVIOUS
  <2>5. \A i \in DOMAIN q : s[i] \in Approval /\ s[i].fp = q[i].fp
    BY <2>2, <2>3, <2>4
  <2> HIDE DEF x
  <2>6. DOMAIN s = DOMAIN q /\ s = [i \in DOMAIN s |-> s[i]]
    OBVIOUS
  <2> HIDE DEF s
  <2> QED  BY <2>1, <2>5, <2>6, StatusesKept
<1> QED  BY <1>1, <1>2

\* The same when all approvals for something else go stale, or all are rejected.
LEMMA MarkAllKeeps ==
  ASSUME NEW q \in Seq(Approval), NEW fp
  PROVE  Kept(q, MarkAll(q, fp))
<1>1. \A i \in DOMAIN q : q[i] \in Approval
  OBVIOUS
<1>2. \A x \in Approval : [x EXCEPT !.status = "stale"] \in Approval
                          /\ [x EXCEPT !.status = "stale"].fp = x.fp
  BY DEF Approval
<1>3. \A i \in DOMAIN q : MarkAll(q, fp)[i] \in Approval /\ MarkAll(q, fp)[i].fp = q[i].fp
  BY <1>1, <1>2 DEF MarkAll
<1> QED  BY <1>3, StatusesKept DEF MarkAll

\* A rejection keeps the approvals, and what they were for.
LEMMA RejectionKeeps ==
  ASSUME NEW q \in Seq(Approval)
  PROVE  Kept(q, [i \in DOMAIN q |-> IF q[i].status = "approved"
                                     THEN [q[i] EXCEPT !.status = "rejected"] ELSE q[i]])
<1> DEFINE s == [i \in DOMAIN q |-> IF q[i].status = "approved"
                                    THEN [q[i] EXCEPT !.status = "rejected"] ELSE q[i]]
<1>1. \A i \in DOMAIN q : q[i] \in Approval
  OBVIOUS
<1>2. \A x \in Approval : [x EXCEPT !.status = "rejected"] \in Approval
                          /\ [x EXCEPT !.status = "rejected"].fp = x.fp
  BY DEF Approval
<1>3. \A i \in DOMAIN q : s[i] \in Approval /\ s[i].fp = q[i].fp
  BY <1>1, <1>2
<1>4. DOMAIN s = DOMAIN q /\ s = [i \in DOMAIN s |-> s[i]]
  OBVIOUS
<1> QED  BY <1>3, <1>4, StatusesKept

\* A new approval comes after the others.
LEMMA AppendKeeps ==
  ASSUME NEW q \in Seq(Approval), NEW x \in Approval
  PROVE  Kept(q, Append(q, x))
BY DEF Kept

\* What is kept by each of two changes is kept by both.
LEMMA KeptTwice ==
  ASSUME NEW q \in Seq(Approval), NEW s, NEW u, Kept(q, s), Kept(s, u)
  PROVE  Kept(q, u)
<1>1. s \in Seq(Approval) /\ u \in Seq(Approval)
  BY DEF Kept
<1>2. \A i \in DOMAIN q : i \in DOMAIN s
  BY <1>1 DEF Kept
<1> QED  BY <1>1, <1>2 DEF Kept

\* Every step keeps all approvals.
AllKept == /\ approvals' \in [Attempt -> Seq(Approval)]
           /\ \A a \in Attempt : Kept(approvals[a], approvals'[a])

\* A change of the approvals of one attempt that keeps them keeps all.
LEMMA OneListKept ==
  ASSUME TypeOK, NEW a \in Attempt, NEW s, Kept(approvals[a], s),
         approvals' = [approvals EXCEPT ![a] = s]
  PROVE  AllKept
<1>1. s \in Seq(Approval)
  BY DEF Kept
<1>2. \A b \in Attempt : Kept(approvals[b], approvals[b])
  BY DEF Kept, TypeOK
<1> QED  BY <1>1, <1>2 DEF AllKept, TypeOK

\* Requests keep their types, so the attempt a request is about is one.
LEMMA RequestAttempt ==
  ASSUME TypeOK, NEW t \in Thread
  PROVE  /\ request[t].op \in {"approve", "reject", "commit_result", "decide"}
              => request[t] \in RowRequest
         /\ request[t].op = "squash" => request[t] \in SquashRequest
         /\ request[t].op \in {"approve", "reject", "commit_result", "decide", "squash"}
              => /\ request[t].attempt \in Attempt
                 /\ request[t].seen \in Row
<1>1. request[t] \in {Idle} \union RowRequest \union SquashRequest
  BY DEF TypeOK
<1> QED  BY <1>1, RequestKinds DEF RowRequest, SquashRequest

\* An approval is added to those that are there.
LEMMA ApproveKeeps ==
  ASSUME TypeOK, NEW t \in Thread, ApproveWrite(t)
  PROVE  AllKept
<1> DEFINE r == request[t]
           a == r.attempt
           q == approvals[a]
           fp == [base |-> base[a], result |-> r.seen.result, message |-> "default"]
           q1 == MarkLatest(q, fp)
           q2 == Append(q1, [fp |-> fp, status |-> "approved"])
           q3 == MarkLatest(q2, PresentFingerprint(r.seen.result))
<1>1. a \in Attempt /\ r.seen \in Row
  BY RequestAttempt DEF ApproveWrite
<1>2. q \in Seq(Approval)
  BY <1>1 DEF TypeOK
<1>3. [fp |-> fp, status |-> "approved"] \in Approval
  BY <1>1 DEF TypeOK, Approval, Fingerprint, Message, Row
<1>4. Kept(q, q1)
  BY <1>2, MarkLatestKeeps
<1>5. Kept(q1, q2)
  BY <1>3, <1>4, AppendKeeps DEF Kept
<1>6. Kept(q2, q3)
  BY <1>5, MarkLatestKeeps DEF Kept
<1>7. Kept(q, q3)
  <2> HIDE DEF q, q1, q2, q3
  <2>1. q1 \in Seq(Approval)
    BY <1>4 DEF Kept
  <2>2. Kept(q1, q3)
    BY <2>1, <1>5, <1>6, KeptTwice
  <2> QED  BY <1>2, <1>4, <2>2, KeptTwice
<1>8. approvals' = [approvals EXCEPT ![a] = q3]
  BY DEF ApproveWrite
<1> QED  BY <1>1, <1>7, <1>8, OneListKept

\* No step takes an approval away or changes what it was for.
LEMMA ApprovalsKept ==
  ASSUME TypeOK, [Next]_vars
  PROVE  AllKept
<1>1. ASSUME UNCHANGED approvals
      PROVE  AllKept
  BY <1>1 DEF AllKept, Kept, TypeOK
<1>2. ASSUME NEW a \in Attempt, NEW fp, approvals' = [approvals EXCEPT ![a] = MarkLatest(@, fp)]
      PROVE  AllKept
  <2>1. Kept(approvals[a], MarkLatest(approvals[a], fp))
    BY MarkLatestKeeps DEF TypeOK
  <2> QED  BY <1>2, <2>1, OneListKept
<1>3. ASSUME NEW t \in Thread, WorktreeStep(t)
      PROVE  AllKept
  BY <1>3, <1>1 DEF WorktreeStep, CreateWorktree, InspectWorktree, CommitResultRead, Cleanup,
                    Load, Begin, dbVars
<1>4. ASSUME NEW t \in Thread, AttemptStep(t) \/ ReviewStep(t)
      PROVE  AllKept
  BY <1>4, <1>1, <1>2 DEF AttemptStep, WorkOnAttempt, DecideRead, ReviewStep, LookAtReview,
                          ApproveRead, RejectRead, Load, Begin, dbVars
<1>5. ASSUME NEW t \in Thread, SquashStart(t)
      PROVE  AllKept
  <2>1. ASSUME NEW a \in Attempt, NEW m \in Message, SquashRead(t, a, m)
        PROVE  AllKept
    BY <2>1, <1>1 DEF SquashRead, Begin, dbVars
  <2>2. ASSUME NEW a \in Attempt, NEW m \in Message, SquashUnapproved(t, a, m)
        PROVE  AllKept
    <3>1. approvals' = [approvals EXCEPT ![a] = MarkAll(@, SquashFingerprint(a, m))]
      BY <2>2 DEF SquashUnapproved
    <3>2. Kept(approvals[a], MarkAll(approvals[a], SquashFingerprint(a, m)))
      BY MarkAllKeeps DEF TypeOK
    <3> QED  BY <3>1, <3>2, OneListKept
  <2> QED  BY <1>5, <2>1, <2>2 DEF SquashStart
<1>6. ASSUME NEW t \in Thread, SquashStep(t)
      PROVE  AllKept
  <2>1. CASE GitMerge(t) \/ GitCommit(t) \/ GitReset(t)
    BY <2>1, <1>1 DEF GitMerge, GitCommit, GitReset, dbVars
  <2>2. CASE SquashRecord(t)
    <3>1. request[t].attempt \in Attempt
      BY <2>2, RequestAttempt DEF SquashRecord, AtStep
    <3> QED  BY <2>2, <3>1, <1>2 DEF SquashRecord
  <2> QED  BY <1>6, <2>1, <2>2 DEF SquashStep
<1>7. ASSUME NEW t \in Thread, RequestEnd(t)
      PROVE  AllKept
  <2>1. CASE CommitResultWrite(t) \/ DecideWrite(t) \/ Abandon(t)
    BY <2>1, <1>1 DEF CommitResultWrite, DecideWrite, Abandon, dbVars
  <2>2. CASE RejectWrite(t)
    <3> DEFINE a == request[t].attempt
               s == [i \in DOMAIN approvals[a] |-> IF approvals[a][i].status = "approved"
                                   THEN [approvals[a][i] EXCEPT !.status = "rejected"]
                                   ELSE approvals[a][i]]
    <3>1. a \in Attempt
      BY <2>2, RequestAttempt DEF RejectWrite
    <3>2. approvals' = [approvals EXCEPT ![a] = s]
      BY <2>2 DEF RejectWrite
    <3>3. Kept(approvals[a], s)
      BY <3>1, RejectionKeeps DEF TypeOK
    <3> QED  BY <3>1, <3>2, <3>3, OneListKept
  <2> QED  BY <1>7, <2>1, <2>2, ApproveKeeps DEF RequestEnd
<1>8. CASE UserEdit \/ UserCommit \/ UserDiscard
  BY <1>8, <1>1 DEF UserEdit, UserCommit, UserDiscard, UserActs, dbVars
<1>9. CASE UNCHANGED vars
  BY <1>9, <1>1 DEF vars, dbVars
<1> QED  BY <1>3, <1>4, <1>5, <1>6, <1>7, <1>8, <1>9 DEF Next

-----------------------------------------------------------------------------
(* Type correctness *)

Requests == {Idle} \union RowRequest \union SquashRequest

\* A thread that finishes, or moves on within a squash, serves a typed request.
LEMMA FinishType ==
  ASSUME TypeOK, NEW t \in Thread, Finish(t)
  PROVE  request' \in [Thread -> Requests]
BY DEF TypeOK, Finish, Requests

\* A squash that goes on to another step is a squash.
LEMMA AdvanceType ==
  ASSUME TypeOK, NEW t \in Thread, request[t].op = "squash",
         NEW step \in {"merge", "commit", "record", "reset"},
         \/ Advance(t, step)
         \/ request' = [request EXCEPT ![t].step = step, ![t].conflict = TRUE]
  PROVE  request' \in [Thread -> Requests]
<1> DEFINE r == request[t]
           x == [r EXCEPT !.step = step]
           y == [x EXCEPT !.conflict = TRUE]
<1>1. r \in SquashRequest
  BY RequestAttempt
<1>2. x \in SquashRequest
  BY <1>1 DEF SquashRequest
<1>3. y \in SquashRequest
  BY <1>2 DEF SquashRequest
<1>4. request' = [request EXCEPT ![t] = x] \/ request' = [request EXCEPT ![t] = y]
  BY DEF Advance, TypeOK
<1> HIDE DEF x, y
<1> QED  BY <1>2, <1>3, <1>4 DEF TypeOK, Requests

\* A handler that only reads disturbs no type.
LEMMA BeginType ==
  ASSUME TypeOK, NEW t \in Thread, NEW r \in Requests, Begin(t, r)
  PROVE  TypeOK'
BY DEF TypeOK, Begin, Requests, gitVars, dbVars

\* What a decision loads is a request.
LEMMA LoadType ==
  ASSUME TypeOK, NEW t \in Thread, NEW a \in Attempt,
         NEW op \in {"approve", "reject", "commit_result", "decide"}, Load(t, op, a)
  PROVE  TypeOK'
<1>1. [op |-> op, attempt |-> a, seen |-> row[a]] \in Requests
  BY DEF TypeOK, Requests, RowRequest
<1> QED  BY <1>1, BeginType DEF Load

\* The worktree operations.
LEMMA WorktreeStepType ==
  ASSUME TypeOK, AllKept, NEW t \in Thread, WorktreeStep(t)
  PROVE  TypeOK'
<1>1. ASSUME NEW a \in Attempt, NEW w \in WorktreeStatus,
             row' = [row EXCEPT ![a].worktree = w]
      PROVE  row' \in [Attempt -> Row]
  <2>1. [row[a] EXCEPT !.worktree = w] \in Row
    BY DEF TypeOK, Row
  <2> QED  BY <1>1, <2>1 DEF TypeOK
<1>2. ASSUME NEW a \in Attempt, CreateWorktree(t, a)
      PROVE  TypeOK'
  <2>1. [[row[a] EXCEPT !.worktree = "ready"] EXCEPT !.status = "other"] \in Row
    BY DEF TypeOK, Row, WorktreeStatus
  <2>2. row' \in [Attempt -> Row]
    BY <1>2, <2>1 DEF CreateWorktree, TypeOK
  <2>3. base' \in [Attempt -> Seq(Commit)]
    BY <1>2 DEF CreateWorktree, TypeOK
  <2> QED  BY <1>2, <2>2, <2>3 DEF CreateWorktree, Served, TypeOK, gitVars
<1>3. ASSUME NEW a \in Attempt, InspectWorktree(t, a)
      PROVE  TypeOK'
  <2>1. row' \in [Attempt -> Row]
    BY <1>1, <1>3 DEF InspectWorktree, WorktreeStatus
  <2> QED  BY <1>3, <2>1 DEF InspectWorktree, Served, TypeOK, gitVars
<1>4. ASSUME NEW a \in Attempt, Cleanup(t, a)
      PROVE  TypeOK'
  <2>1. row' \in [Attempt -> Row]
    BY <1>1, <1>4 DEF Cleanup, WorktreeStatus
  <2> QED  BY <1>4, <2>1 DEF Cleanup, Served, TypeOK, gitVars
<1>5. ASSUME NEW a \in Attempt, CommitResultRead(t, a)
      PROVE  TypeOK'
  BY <1>5, LoadType DEF CommitResultRead
<1> QED  BY <1>2, <1>3, <1>4, <1>5 DEF WorktreeStep

\* Work on an attempt, and a decision about it that begins.
LEMMA AttemptStepType ==
  ASSUME TypeOK, AllKept, NEW t \in Thread, AttemptStep(t)
  PROVE  TypeOK'
<1>1. ASSUME NEW a \in Attempt, WorkOnAttempt(t, a)
      PROVE  TypeOK'
  <2>1. [row[a] EXCEPT !.status = "other"] \in Row
    BY DEF TypeOK, Row
  <2>2. row' \in [Attempt -> Row]
    BY <1>1, <2>1 DEF WorkOnAttempt, TypeOK
  <2> QED  BY <1>1, <2>2 DEF WorkOnAttempt, Served, TypeOK, gitVars
<1>2. ASSUME NEW a \in Attempt, DecideRead(t, a)
      PROVE  TypeOK'
  BY <1>2, LoadType DEF DecideRead
<1> QED  BY <1>1, <1>2 DEF AttemptStep

\* Reviews and the checks of a squash.
LEMMA ReviewStepType ==
  ASSUME TypeOK, AllKept, NEW t \in Thread, ReviewStep(t) \/ SquashStart(t)
  PROVE  TypeOK'
<1>1. ASSUME NEW a \in Attempt, LookAtReview(t, a)
      PROVE  TypeOK'
  BY <1>1 DEF LookAtReview, Served, AllKept, TypeOK, gitVars
<1>2. ASSUME NEW a \in Attempt, ApproveRead(t, a) \/ RejectRead(t, a)
      PROVE  TypeOK'
  BY <1>2, LoadType DEF ApproveRead, RejectRead
<1>3. ASSUME NEW a \in Attempt, NEW m \in Message, SquashRead(t, a, m)
      PROVE  TypeOK'
  <2>1. [op |-> "squash", step |-> "merge", attempt |-> a, seen |-> row[a],
         message |-> m, conflict |-> FALSE] \in Requests
    BY DEF TypeOK, Requests, SquashRequest
  <2> QED  BY <1>3, <2>1, BeginType DEF SquashRead
<1>4. ASSUME NEW a \in Attempt, NEW m \in Message, SquashUnapproved(t, a, m)
      PROVE  TypeOK'
  BY <1>4 DEF SquashUnapproved, Served, AllKept, TypeOK, gitVars
<1> QED  BY <1>1, <1>2, <1>3, <1>4 DEF ReviewStep, SquashStart

\* The writes of requests that do not touch the source repository.
LEMMA RequestEndType ==
  ASSUME TypeOK, AllKept, NEW t \in Thread, RequestEnd(t)
  PROVE  TypeOK'
<1> DEFINE r == request[t]
           a == r.attempt
<1>1. CASE CommitResultWrite(t)
  <2>1. a \in Attempt /\ r.seen \in Row
    BY <1>1, RequestAttempt DEF CommitResultWrite
  <2> DEFINE done == [r.seen EXCEPT !.result = row[a].result + 1, !.worktree = "committed",
                                    !.status = "committed"]
             out == [r.seen EXCEPT !.worktree = "dirty_result", !.status = "other"]
  <2>2. done \in Row /\ out \in Row
    <3>1. row[a].result + 1 \in Nat
      BY <2>1 DEF TypeOK, Row
    <3> HIDE DEF r, a
    <3>2. done \in Row
      BY <2>1, <3>1 DEF Row, WorktreeStatus
    <3>3. out \in Row
      BY <2>1 DEF Row, WorktreeStatus
    <3> QED  BY <3>2, <3>3
  <2>3. Store(a, r.seen, done) \/ Store(a, r.seen, out)
    BY <1>1 DEF CommitResultWrite
  <2>4. row' \in [Attempt -> Row]
    <3> HIDE DEF done, out, r, a
    <3> QED  BY <2>1, <2>2, <2>3, StoreType
  <2> QED  BY <1>1, <2>4, FinishType DEF CommitResultWrite, TypeOK, Requests, gitVars
<1>2. CASE ApproveWrite(t)
  <2>1. a \in Attempt /\ r.seen \in Row
    BY <1>2, RequestAttempt DEF ApproveWrite
  <2>2. [r.seen EXCEPT !.review = "approved"] \in Row
    BY <2>1 DEF Row, ReviewStatus
  <2>3. row' \in [Attempt -> Row]
    BY <1>2, <2>1, <2>2, StoreType DEF ApproveWrite
  <2> QED  BY <1>2, <2>3, FinishType DEF ApproveWrite, AllKept, TypeOK, Requests, gitVars
<1>3. CASE RejectWrite(t)
  <2>1. a \in Attempt /\ r.seen \in Row
    BY <1>3, RequestAttempt DEF RejectWrite
  <2>2. [r.seen EXCEPT !.review = "rejected", !.status = "other", !.worktree = "reviewing"] \in Row
    BY <2>1 DEF Row, ReviewStatus, WorktreeStatus
  <2>3. row' \in [Attempt -> Row]
    BY <1>3, <2>1, <2>2, StoreType DEF RejectWrite
  <2> QED  BY <1>3, <2>3, FinishType DEF RejectWrite, AllKept, TypeOK, Requests, gitVars
<1>4. CASE DecideWrite(t)
  <2>1. a \in Attempt /\ r.seen \in Row
    BY <1>4, RequestAttempt DEF DecideWrite
  <2>2. [r.seen EXCEPT !.status = "other"] \in Row
    BY <2>1 DEF Row
  <2>3. row' \in [Attempt -> Row]
    BY <1>4, <2>1, <2>2, StoreType DEF DecideWrite
  <2> QED  BY <1>4, <2>3, FinishType DEF DecideWrite, TypeOK, Requests, gitVars
<1>5. CASE Abandon(t)
  BY <1>5, FinishType DEF Abandon, TypeOK, Requests, gitVars, dbVars
<1> QED  BY <1>1, <1>2, <1>3, <1>4, <1>5 DEF RequestEnd

\* The git commands of a squash and its record.
LEMMA SquashStepType ==
  ASSUME TypeOK, AllKept, NEW t \in Thread, SquashStep(t)
  PROVE  TypeOK'
<1> DEFINE r == request[t]
           a == r.attempt
<1>1. r.op = "squash" /\ r \in SquashRequest /\ a \in Attempt /\ r.seen \in Row
  BY RequestAttempt DEF SquashStep, GitMerge, GitCommit, GitReset, SquashRecord, AtStep
<1>2. CASE GitMerge(t)
  <2>1. <<a, r.seen.result>> \in Change
    BY <1>1 DEF Row, Change
  <2>2. staged' \subseteq Change
    BY <1>2, <2>1 DEF GitMerge, Staging, TypeOK
  <2>3. request' \in [Thread -> Requests]
    BY <1>1, <1>2, AdvanceType DEF GitMerge
  <2> QED  BY <1>2, <2>2, <2>3 DEF GitMerge, TypeOK, Requests, dbVars
<1>3. CASE GitCommit(t)
  <2>1. staged \in Commit
    BY DEF TypeOK, Commit
  <2>2. history' \in Seq(Commit) /\ staged' \subseteq Change
    <3>1. \/ history' = Append(history, staged) /\ staged' = {}
          \/ UNCHANGED <<history, staged>>
      BY <1>3 DEF GitCommit
    <3>2. history \in Seq(Commit) /\ staged \subseteq Change
      BY DEF TypeOK
    <3> QED  BY <2>1, <3>1, <3>2
  <2>3. request' \in [Thread -> Requests]
    BY <1>1, <1>3, AdvanceType DEF GitCommit
  <2> QED  BY <1>3, <2>2, <2>3 DEF GitCommit, TypeOK, Requests, dbVars
<1>4. CASE GitReset(t)
  <2>1. [r.seen EXCEPT !.review = IF r.conflict THEN "failed" ELSE r.seen.review] \in Row
    BY <1>1 DEF Row, ReviewStatus
  <2>2. row' \in [Attempt -> Row]
    BY <1>1, <1>4, <2>1, StoreType DEF GitReset
  <2>3. history' \in Seq(Commit) /\ staged' \subseteq Change
    <3>1. base[a] \in Seq(Commit)
      BY <1>1 DEF TypeOK
    <3>2. \/ history' = base[a] /\ staged' = {}
          \/ UNCHANGED <<history, staged>>
      BY <1>4 DEF GitReset
    <3>3. history \in Seq(Commit) /\ staged \subseteq Change
      BY DEF TypeOK
    <3> HIDE DEF a
    <3> QED  BY <3>1, <3>2, <3>3
  <2> QED  BY <1>4, <2>2, <2>3, FinishType DEF GitReset, TypeOK, Requests
<1>5. CASE SquashRecord(t)
  <2>1. [r.seen EXCEPT !.review = "merged", !.status = "merged",
                       !.worktree = "cleanup_pending"] \in Row
    BY <1>1 DEF Row, ReviewStatus, WorktreeStatus
  <2>2. row' \in [Attempt -> Row]
    BY <1>1, <1>5, <2>1, StoreType DEF SquashRecord
  <2>3. mergedAs' \in [Attempt -> Seq(Commit)]
    BY <1>1, <1>5 DEF SquashRecord, TypeOK
  <2> QED  BY <1>5, <2>2, <2>3, FinishType DEF SquashRecord, AllKept, TypeOK, Requests, gitVars
<1> QED  BY <1>2, <1>3, <1>4, <1>5 DEF SquashStep

\* An untouched repository and an empty database are typed.
LEMMA InitType == Init => TypeOK
<1>1. <<>> \in Seq(Commit) /\ <<>> \in Seq(Approval) /\ << {UserChange} >> \in Seq(Commit)
  BY DEF Commit
<1>2. [status |-> "other", worktree |-> "none",
       result |-> 0, review |-> "none"] \in Row
  BY DEF Row, WorktreeStatus, ReviewStatus
<1> QED  BY <1>1, <1>2 DEF Init, TypeOK

\* Every column, the repository and every request in flight always have their types,
\* whatever the requests and their interleaving.
THEOREM TypeCorrect == Spec => []TypeOK
<1>1. Init => TypeOK
  BY InitType
<1>2. TypeOK /\ [Next]_vars => TypeOK'
  <2> SUFFICES ASSUME TypeOK, [Next]_vars
               PROVE  TypeOK'
    OBVIOUS
  <2>1. AllKept
    BY ApprovalsKept
  <2>2. ASSUME NEW t \in Thread, \/ WorktreeStep(t) \/ AttemptStep(t) \/ ReviewStep(t)
                                 \/ SquashStart(t) \/ SquashStep(t) \/ RequestEnd(t)
        PROVE  TypeOK'
    BY <2>1, <2>2, WorktreeStepType, AttemptStepType, ReviewStepType, SquashStepType, RequestEndType
  <2>3. CASE UserCommit
    <3>1. staged \union {UserChange} \in Commit
      BY DEF TypeOK, Commit
    <3>2. history' \in Seq(Commit) /\ staged' = {} /\ dirty' = FALSE
      BY <2>3, <3>1 DEF UserCommit, TypeOK
    <3> QED  BY <2>3, <3>2 DEF UserCommit, UserActs, TypeOK, dbVars
  <2>4. CASE UserEdit \/ UserDiscard
    BY <2>4 DEF UserEdit, UserDiscard, UserActs, TypeOK, dbVars
  <2>5. CASE UNCHANGED vars
    BY <2>5 DEF vars, TypeOK, gitVars, dbVars
  <2> QED  BY <2>2, <2>3, <2>4, <2>5 DEF Next
<1> QED  BY <1>1, <1>2, PTL DEF Spec

-----------------------------------------------------------------------------
(* Only what was approved lands *)

Approved(c) == \E i \in DOMAIN approvals[c[1]] : approvals[c[1]][i].fp.result = c[2]
AllApproved(C) == \A c \in C \ {UserChange} : Approved(c)

HistoryApproved == \A i \in DOMAIN history : AllApproved(history[i])
BasesApproved == \A a \in Attempt : \A i \in DOMAIN base[a] : AllApproved(base[a][i])

\* A squash that has passed its checks merges a result that was approved.
SquashesApproved == \A t \in Thread : request[t].op = "squash"
                      => Approved(<<request[t].attempt, request[t].seen.result>>)

LandInv == /\ TypeOK /\ HistoryApproved /\ BasesApproved /\ SquashesApproved
           /\ AllApproved(staged)

\* What was approved stays so: approvals are only added and never change their result.
LEMMA ApprovedStays ==
  ASSUME TypeOK, AllKept, NEW c \in Change, Approved(c)
  PROVE  Approved(c)'
<1>1. c[1] \in Attempt
  BY DEF Change
<1>2. PICK i \in DOMAIN approvals[c[1]] : approvals[c[1]][i].fp.result = c[2]
  BY DEF Approved
<1>3. i \in DOMAIN approvals'[c[1]] /\ approvals'[c[1]][i].fp = approvals[c[1]][i].fp
  BY <1>1, <1>2 DEF AllKept, Kept, TypeOK
<1> QED  BY <1>2, <1>3 DEF Approved

\* A commit of approved changes remains one.
LEMMA CommitStaysApproved ==
  ASSUME TypeOK, AllKept, NEW C \in Commit, AllApproved(C)
  PROVE  \A c \in C \ {UserChange} : Approved(c)'
<1>1. \A c \in C \ {UserChange} : c \in Change
  BY DEF Commit
<1> QED  BY <1>1, ApprovedStays DEF AllApproved

\* A history whose commits were approved remains one.
LEMMA HistoryStaysApproved ==
  ASSUME TypeOK, AllKept, NEW h \in Seq(Commit), \A i \in DOMAIN h : AllApproved(h[i])
  PROVE  \A i \in DOMAIN h : \A c \in h[i] \ {UserChange} : Approved(c)'
<1>1. \A i \in DOMAIN h : h[i] \in Commit
  OBVIOUS
<1> QED  BY <1>1, CommitStaysApproved

\* The squashes that were on their way still merge approved results when no other
\* has begun.
LEMMA SquashesStayApproved ==
  ASSUME TypeOK, AllKept, SquashesApproved,
         \A t \in Thread : request'[t].op = "squash"
           => /\ request[t].op = "squash"
              /\ request'[t].attempt = request[t].attempt
              /\ request'[t].seen = request[t].seen
  PROVE  SquashesApproved'
<1> SUFFICES ASSUME NEW t \in Thread, request'[t].op = "squash"
             PROVE  Approved(<<request[t].attempt, request[t].seen.result>>)'
  BY DEF SquashesApproved
<1>1. request[t].op = "squash"
  OBVIOUS
<1>2. <<request[t].attempt, request[t].seen.result>> \in Change
  BY <1>1, RequestAttempt DEF Change, Row
<1>3. Approved(<<request[t].attempt, request[t].seen.result>>)
  BY <1>1 DEF SquashesApproved
<1> QED  BY <1>2, <1>3, ApprovedStays

\* A history whose commits were approved, with one more such commit, is one.
LEMMA HistoryGrowsApproved ==
  ASSUME TypeOK, AllKept, HistoryApproved, NEW C \in Commit, AllApproved(C),
         history' = Append(history, C)
  PROVE  HistoryApproved'
<1>1. \A i \in DOMAIN history : \A c \in history[i] \ {UserChange} : Approved(c)'
  BY HistoryStaysApproved DEF HistoryApproved, TypeOK
<1>2. \A i \in DOMAIN history' : IF i = Len(history) + 1 THEN history'[i] = C
                                 ELSE i \in DOMAIN history /\ history'[i] = history[i]
  BY DEF TypeOK
<1>3. \A c \in C \ {UserChange} : Approved(c)'
  BY CommitStaysApproved
<1> QED  BY <1>1, <1>2, <1>3 DEF HistoryApproved, AllApproved

\* The rest of the invariant is kept while the branch, the index and the bases stay.
LEMMA LandedStays ==
  ASSUME LandInv, AllKept
  PROVE  /\ UNCHANGED history => HistoryApproved'
         /\ UNCHANGED base => BasesApproved'
         /\ UNCHANGED staged => AllApproved(staged)'
         /\ staged' = {} => AllApproved(staged)'
<1> USE DEF LandInv
<1>1. ASSUME UNCHANGED history
      PROVE  HistoryApproved'
  <2>1. \A i \in DOMAIN history : \A c \in history[i] \ {UserChange} : Approved(c)'
    BY HistoryStaysApproved DEF HistoryApproved, TypeOK
  <2> QED  BY <1>1, <2>1 DEF HistoryApproved, AllApproved
<1>2. ASSUME UNCHANGED base
      PROVE  BasesApproved'
  <2>1. ASSUME NEW a \in Attempt
        PROVE  \A i \in DOMAIN base[a] : \A c \in base[a][i] \ {UserChange} : Approved(c)'
    BY HistoryStaysApproved DEF BasesApproved, TypeOK
  <2> QED  BY <1>2, <2>1 DEF BasesApproved, AllApproved
<1>3. ASSUME UNCHANGED staged
      PROVE  AllApproved(staged)'
  <2>1. staged \in Commit
    BY DEF TypeOK, Commit
  <2>2. \A c \in staged \ {UserChange} : Approved(c)'
    BY <2>1, CommitStaysApproved DEF AllApproved
  <2> QED  BY <1>3, <2>2 DEF AllApproved
<1>4. ASSUME staged' = {}
      PROVE  AllApproved(staged)'
  BY <1>4 DEF AllApproved
<1> QED  BY <1>1, <1>2, <1>3, <1>4

\* A handler that only reads, and no squash that has passed its checks, begins.
LEMMA OrdinarySteps ==
  ASSUME LandInv, AllKept, UNCHANGED <<history, staged, base>>,
         \A t \in Thread : \/ request'[t] = request[t]
                           \/ request'[t].op # "squash"
  PROVE  HistoryApproved' /\ BasesApproved' /\ SquashesApproved' /\ AllApproved(staged)'
<1>1. SquashesApproved'
  BY SquashesStayApproved DEF LandInv
<1> QED  BY <1>1, LandedStays

\* Everything but the git commands, a new worktree, and a squash that passes its
\* checks is such a step.
LEMMA Bystanders ==
  ASSUME LandInv, AllKept, [Next]_vars
  PROVE  \/ HistoryApproved' /\ BasesApproved' /\ SquashesApproved' /\ AllApproved(staged)'
         \/ \E t \in Thread : \/ \E a \in Attempt : CreateWorktree(t, a)
                              \/ \E a \in Attempt, m \in Message : SquashRead(t, a, m)
                              \/ GitMerge(t) \/ GitCommit(t) \/ GitReset(t)
         \/ UserCommit \/ UserDiscard
<1> DEFINE Goal == HistoryApproved' /\ BasesApproved' /\ SquashesApproved' /\ AllApproved(staged)'
<1>1. ASSUME UNCHANGED <<history, staged, base, request>>
      PROVE  Goal
  BY <1>1, OrdinarySteps
<1>2. ASSUME NEW t \in Thread, NEW r, r.op # "squash",
             request' = [request EXCEPT ![t] = r], UNCHANGED <<history, staged, base>>
      PROVE  Goal
  BY <1>2, OrdinarySteps DEF LandInv, TypeOK
<1>3. ASSUME NEW t \in Thread, Finish(t), UNCHANGED <<history, staged, base>>
      PROVE  Goal
  BY <1>2, <1>3 DEF Finish, Idle
<1>4. ASSUME NEW t \in Thread, NEW a \in Attempt,
             NEW op \in {"approve", "reject", "commit_result", "decide"}, Load(t, op, a)
      PROVE  Goal
  BY <1>2, <1>4 DEF Load, Begin, gitVars, dbVars
<1>5. ASSUME NEW t \in Thread, NEW a \in Attempt,
             InspectWorktree(t, a) \/ CommitResultRead(t, a) \/ Cleanup(t, a)
      PROVE  Goal
  BY <1>1, <1>4, <1>5 DEF InspectWorktree, CommitResultRead, Cleanup, Served, gitVars
<1>6. ASSUME NEW t \in Thread, AttemptStep(t) \/ ReviewStep(t)
      PROVE  Goal
  BY <1>1, <1>4, <1>6 DEF AttemptStep, WorkOnAttempt, DecideRead, ReviewStep, LookAtReview,
                          ApproveRead, RejectRead, Served, gitVars
<1>7. ASSUME NEW t \in Thread, NEW a \in Attempt, NEW m \in Message, SquashUnapproved(t, a, m)
      PROVE  Goal
  BY <1>1, <1>7 DEF SquashUnapproved, Served, gitVars
<1>8. ASSUME NEW t \in Thread, RequestEnd(t) \/ SquashRecord(t)
      PROVE  Goal
  BY <1>3, <1>8 DEF RequestEnd, CommitResultWrite, DecideWrite, ApproveWrite, RejectWrite,
                    Abandon, SquashRecord, gitVars, dbVars
<1>9. CASE UserEdit
  BY <1>1, <1>9 DEF UserEdit, UserActs, dbVars
<1>10. CASE UNCHANGED vars
  BY <1>1, <1>10 DEF vars, gitVars, dbVars
<1> QED  BY <1>5, <1>6, <1>7, <1>8, <1>9, <1>10
         DEF Next, WorktreeStep, SquashStart, SquashStep

Lands == HistoryApproved' /\ BasesApproved' /\ SquashesApproved' /\ AllApproved(staged)'

\* A worktree's base is the branch of its creation.
LEMMA CreateWorktreeLands ==
  ASSUME LandInv, AllKept, NEW t \in Thread, NEW a \in Attempt, CreateWorktree(t, a)
  PROVE  Lands
<1> USE DEF LandInv
<1>1. UNCHANGED <<history, staged, request>> /\ base' = [base EXCEPT ![a] = history]
  BY DEF CreateWorktree, Served, gitVars
<1>2. HistoryApproved' /\ AllApproved(staged)'
  BY <1>1, LandedStays
<1>3. SquashesApproved'
  BY <1>1, SquashesStayApproved
<1>4. \A b \in Attempt : \A i \in DOMAIN base[b] : \A c \in base[b][i] \ {UserChange} : Approved(c)'
  BY HistoryStaysApproved DEF BasesApproved, TypeOK
<1>5. \A i \in DOMAIN history : \A c \in history[i] \ {UserChange} : Approved(c)'
  BY HistoryStaysApproved DEF HistoryApproved, TypeOK
<1>6. \A b \in Attempt : base'[b] = IF b = a THEN history ELSE base[b]
  BY <1>1 DEF TypeOK
<1>7. BasesApproved'
  BY <1>4, <1>5, <1>6 DEF BasesApproved, AllApproved
<1> QED  BY <1>2, <1>3, <1>7 DEF Lands

\* The checks of a squash find an approval for the very result it will merge.
LEMMA SquashReadLands ==
  ASSUME LandInv, AllKept, NEW t \in Thread, NEW a \in Attempt, NEW m \in Message,
         SquashRead(t, a, m)
  PROVE  Lands
<1> USE DEF LandInv
<1> DEFINE r == [op |-> "squash", step |-> "merge", attempt |-> a, seen |-> row[a],
                 message |-> m, conflict |-> FALSE]
<1>1. /\ UNCHANGED <<history, staged, base, approvals>>
      /\ request' = [request EXCEPT ![t] = r]
      /\ ValidApproval(a, SquashFingerprint(a, m))
  BY DEF SquashRead, Begin, gitVars, dbVars
<1>2. Approved(<<a, row[a].result>>)
  BY <1>1 DEF ValidApproval, SquashFingerprint, Approved
<1>3. \A x \in Thread : request'[x] = IF x = t THEN r ELSE request[x]
  BY <1>1 DEF TypeOK
<1>4. \A c : Approved(c) => Approved(c)'
  BY <1>1 DEF Approved
<1>5. ASSUME NEW x \in Thread, request'[x].op = "squash"
      PROVE  Approved(<<request[x].attempt, request[x].seen.result>>)'
  <2>1. CASE x = t
    BY <1>2, <1>3, <1>4, <2>1
  <2>2. CASE x # t
    BY <1>3, <1>4, <1>5, <2>2 DEF SquashesApproved
  <2> QED  BY <2>1, <2>2
<1>6. SquashesApproved'
  BY <1>5 DEF SquashesApproved
<1> QED  BY <1>1, <1>6, LandedStays DEF Lands

\* A squash that goes on is still about the same result.
LEMMA SquashGoesOn ==
  ASSUME LandInv, AllKept, NEW t \in Thread, request[t].op = "squash",
         \/ \E step \in {"merge", "commit", "record", "reset"} : Advance(t, step)
         \/ request' = [request EXCEPT ![t].step = "reset", ![t].conflict = TRUE]
         \/ Finish(t)
  PROVE  SquashesApproved'
<1> USE DEF LandInv
<1>1. request[t] \in SquashRequest
  BY RequestAttempt
<1>2. request'[t].op = "squash" => /\ request'[t].attempt = request[t].attempt
                                   /\ request'[t].seen = request[t].seen
  BY <1>1 DEF Advance, Finish, Idle, SquashRequest, TypeOK
<1>3. \A x \in Thread \ {t} : request'[x] = request[x]
  BY DEF Advance, Finish, TypeOK
<1> QED  BY <1>2, <1>3, SquashesStayApproved

\* The git commands move what was approved, from the index to the branch or away.
LEMMA GitLands ==
  ASSUME LandInv, AllKept, NEW t \in Thread, GitMerge(t) \/ GitCommit(t) \/ GitReset(t)
  PROVE  Lands
<1> USE DEF LandInv
<1> DEFINE r == request[t]
           a == r.attempt
           v == r.seen.result
<1>1. r.op = "squash" /\ UNCHANGED base /\ UNCHANGED approvals
  BY DEF GitMerge, GitCommit, GitReset, AtStep, dbVars
<1>2. SquashesApproved'
  BY <1>1, SquashGoesOn DEF GitMerge, GitCommit, GitReset
<1>3. BasesApproved'
  BY <1>1, LandedStays
<1>4. \A c : Approved(c) => Approved(c)'
  BY <1>1 DEF Approved
<1>5. CASE GitMerge(t)
  <2>1. Approved(<<a, v>>)
    BY <1>1 DEF SquashesApproved
  <2>2. staged' \subseteq staged \union {<<a, v>>}
    BY <1>5 DEF GitMerge, Staging
  <2>3. AllApproved(staged)'
    BY <1>4, <2>1, <2>2 DEF AllApproved
  <2>4. UNCHANGED history
    BY <1>5 DEF GitMerge
  <2> QED  BY <1>2, <1>3, <2>3, <2>4, LandedStays DEF Lands
<1>6. CASE GitCommit(t)
  <2>1. \/ history' = Append(history, staged) /\ staged' = {}
        \/ UNCHANGED <<history, staged>>
    BY <1>6 DEF GitCommit
  <2>2. staged \in Commit
    BY DEF TypeOK, Commit
  <2>3. HistoryApproved' /\ AllApproved(staged)'
    BY <2>1, <2>2, LandedStays, HistoryGrowsApproved
  <2> QED  BY <1>2, <1>3, <2>3 DEF Lands
<1>7. CASE GitReset(t)
  <2>1. \/ history' = base[a] /\ staged' = {}
        \/ UNCHANGED <<history, staged>>
    BY <1>7 DEF GitReset
  <2>2. a \in Attempt
    BY <1>1, RequestAttempt
  <2>3. \A i \in DOMAIN base[a] : \A c \in base[a][i] \ {UserChange} : Approved(c)
    BY <2>2 DEF BasesApproved, AllApproved
  <2>4. history' = base[a] => HistoryApproved'
    BY <1>4, <2>3 DEF HistoryApproved, AllApproved
  <2>5. HistoryApproved' /\ AllApproved(staged)'
    BY <2>1, <2>4, LandedStays
  <2> QED  BY <1>2, <1>3, <2>5 DEF Lands
<1> QED  BY <1>5, <1>6, <1>7

\* The user may commit or discard what an interrupted squash has left staged.
LEMMA UserLands ==
  ASSUME LandInv, AllKept, UserCommit \/ UserDiscard
  PROVE  Lands
<1> USE DEF LandInv
<1>1. UNCHANGED <<base, request>> /\ staged' = {}
  BY DEF UserCommit, UserDiscard, UserActs, dbVars
<1>2. SquashesApproved'
  BY <1>1, SquashesStayApproved
<1>3. staged \union {UserChange} \in Commit /\ AllApproved(staged \union {UserChange})
  BY DEF TypeOK, Commit, AllApproved
<1>4. HistoryApproved'
  <2>1. history' = Append(history, staged \union {UserChange}) \/ UNCHANGED history
    BY DEF UserCommit, UserDiscard
  <2> QED  BY <1>3, <2>1, LandedStays, HistoryGrowsApproved
<1> QED  BY <1>1, <1>2, <1>4, LandedStays DEF Lands

\* The invariant: what is on the branch, in the index, in a worktree's base or about
\* to be merged was approved.
LEMMA LandInvariant == Spec => []LandInv
<1>1. Init => LandInv
  <2> SUFFICES ASSUME Init
               PROVE  LandInv
    OBVIOUS
  <2>1. AllApproved({UserChange}) /\ AllApproved({})
    BY DEF AllApproved
  <2>2. DOMAIN history = {1} /\ history[1] = {UserChange} /\ staged = {}
    BY DEF Init
  <2>3. HistoryApproved /\ AllApproved(staged)
    BY <2>1, <2>2 DEF HistoryApproved, AllApproved
  <2>4. BasesApproved
    BY DEF Init, BasesApproved
  <2>5. SquashesApproved
    BY DEF Init, SquashesApproved, Idle
  <2> QED  BY <2>3, <2>4, <2>5, InitType DEF LandInv
<1>2. LandInv /\ TypeOK' /\ [Next]_vars => LandInv'
  <2> SUFFICES ASSUME LandInv, [Next]_vars
               PROVE  Lands
    BY DEF LandInv, Lands
  <2>1. AllKept
    BY ApprovalsKept DEF LandInv
  <2> QED  BY <2>1, Bystanders, CreateWorktreeLands, SquashReadLands, GitLands, UserLands
           DEF Lands
<1> QED  BY <1>1, <1>2, TypeCorrect, PTL DEF Spec

\* Nothing of an attempt is ever on the branch or in the index, not even after an
\* interrupted merge, a reset to an old base or a commit of the user's, unless that
\* very result was approved: for any number of requests in flight at a time.
THEOREM OnlyApprovedResultsLand == Spec => []OnlyApprovedLands
<1>1. LandInv => OnlyApprovedLands
  BY DEF LandInv, OnlyApprovedLands, HistoryApproved, AllApproved, Approved, Landed
<1> QED  BY <1>1, LandInvariant, PTL

=============================================================================
