------------------------- MODULE SquashTurnsProofs -------------------------
(***************************************************************************)
(* What locks around reviews.py would give, for any number of attempts and *)
(* of requests in flight, with requests that stop at any step.             *)
(*                                                                         *)
(* If only squashes take turns and the user waits for them, a squash lands *)
(* on the base that its worktree was created from, the branch loses no     *)
(* commit, a merge that is recorded stays on it and an attempt's work      *)
(* lands once.  If the requests that review one attempt or commit its      *)
(* results take turns, its review and its approvals agree.  If both do,    *)
(* review is what MergeGate says.                                          *)
(*                                                                         *)
(* The code takes no lock: the runs merge_double_squash and                *)
(* merge_two_squashes show what happens.  A server that handles one        *)
(* request at a time takes turns without one.                              *)
(***************************************************************************)
EXTENDS OneMergeProofs

\* At most one squash is in flight on the source repository.
SquashesTakeTurns == \A t, u \in Thread :
                       request[t].op = "squash" /\ request[u].op = "squash" => t = u

-----------------------------------------------------------------------------
(* The inductive invariant *)

\* Until it commits, a squash finds the branch at the base of its worktree and in the index
\* what it has put there; after that its own commit is the last one.  The result it has
\* loaded may not be the latest any more.
AtBase(r) ==
  LET a == r.attempt  v == r.seen.result
  IN  r.op = "squash" =>
        /\ r.step \in {"merge", "commit", "reset"} => history = base[a]
        /\ r.step = "merge" => staged = {}
        /\ r.step = "commit" => staged = {<<a, v>>}
        /\ r.step = "record" => history # <<>> /\ Last(history) = {<<a, v>>}
        /\ row[a].worktree # "none"
        /\ v \in 1 .. row[a].result

SquashTurnsInv == /\ TypeOK /\ Once /\ RecordedMergeStays
                  /\ \A t \in Thread : AtBase(request[t])

\* A base that the branch is at has nothing of its attempt on it, and is ahead of the others.
LEMMA BaseIsAhead ==
  ASSUME TypeOK, Once, NEW a \in Attempt, history = base[a]
  PROVE  NotLanded(a) /\ \A b \in Attempt : IsPrefix(base[b], base[a])
<1>1. ASSUME NEW i \in DOMAIN history, NEW c \in history[i] \ {UserChange}, c[1] = a
      PROVE  FALSE
  <2>1. Len(history) < i /\ history \in Seq(Commit)
    BY <1>1 DEF Once, LandedLater, TypeOK
  <2> QED  BY <2>1
<1> QED  BY <1>1 DEF Once, BasesOnBranch, NotLanded

\* So squashes that take turns are what AttemptsLandOnce needs of them.
LEMMA TurnsAreAhead ==
  ASSUME SquashTurnsInv
  PROVE  OnceInv
<1>1. ASSUME NEW t \in Thread PROVE SquashAhead(request[t])
  <2> SUFFICES ASSUME request[t].op = "squash" PROVE SquashAhead(request[t])
    BY DEF SquashAhead
  <2>1. /\ request[t].attempt \in Attempt /\ AtBase(request[t])
        /\ request[t].step \in {"merge", "commit", "record", "reset"}
    BY RequestAttempt DEF SquashTurnsInv, SquashRequest
  <2>2. CASE request[t].step = "record"
    BY <2>1, <2>2 DEF AtBase, SquashAhead
  <2>3. CASE request[t].step # "record"
    <3>1. history = base[request[t].attempt]
      BY <2>1, <2>3 DEF AtBase
    <3> QED  BY <2>1, <2>3, <3>1, BaseIsAhead DEF SquashTurnsInv, AtBase, SquashAhead
  <2> QED  BY <2>2, <2>3
<1> QED  BY <1>1 DEF SquashTurnsInv, OnceInv, Once

-----------------------------------------------------------------------------
(* Results *)

\* What a worktree's own requests, work and plain decisions do to a row.
LEMMA WorktreeColumns ==
  ASSUME TypeOK, NEW t \in Thread, NEW a \in Attempt, NEW b \in Attempt,
         \/ CreateWorktree(t, a) \/ InspectWorktree(t, a) \/ Cleanup(t, a)
         \/ WorkOnAttempt(t, a) \/ DecideWrite(t)
  PROVE  /\ row'[b].review = row[b].review
         /\ row'[b].status \in {row[b].status, "other"}
         /\ row'[b].result = row[b].result
<1>1. row \in [Attempt -> Row] /\ row[a] \in Row /\ row[b] \in Row
  BY DEF TypeOK
<1>2. CASE DecideWrite(t)
  <2> DEFINE c == request[t].attempt
             s == request[t].seen
  <2>1. c \in Attempt /\ s \in Row /\ Store(c, s, [s EXCEPT !.status = "other"])
    BY <1>2, RequestAttempt DEF DecideWrite
  <2>2. CASE b # c
    BY <1>1, <2>1, <2>2 DEF Store
  <2>3. CASE b = c
    <3> DEFINE n == [s EXCEPT !.status = "other"]
    <3>1. row'[b] = [f \in DOMAIN s |-> IF n[f] = s[f] THEN row[b][f] ELSE n[f]]
      BY <1>1, <2>1, <2>3 DEF Store
    <3>2. /\ DOMAIN s = {"status", "worktree", "result", "review"}
          /\ n.status = "other" /\ n.review = s.review /\ n.result = s.result
      BY <2>1 DEF Row
    <3> HIDE DEF n
    <3> QED  BY <3>1, <3>2
  <2> QED  BY <2>2, <2>3
<1>3. CASE b # a /\ ~DecideWrite(t)
  BY <1>1, <1>3 DEF CreateWorktree, InspectWorktree, Cleanup, WorkOnAttempt
<1>4. CASE b = a /\ ~DecideWrite(t)
  <2>1. \/ row'[a] = [row[a] EXCEPT !.worktree = "ready", !.status = "other"]
        \/ \E w \in WorktreeStatus : row'[a] = [row[a] EXCEPT !.worktree = w]
        \/ row'[a] = [row[a] EXCEPT !.status = "other"]
    BY <1>1, <1>4 DEF CreateWorktree, InspectWorktree, Cleanup, WorkOnAttempt, WorktreeStatus
  <2> QED  BY <1>1, <1>4, <2>1 DEF Row
<1> QED  BY <1>2, <1>3, <1>4

\* Work and plain decisions leave the worktree as it is.
LEMMA StatusAlone ==
  ASSUME TypeOK, NEW t \in Thread, NEW a \in Attempt, NEW b \in Attempt,
         WorkOnAttempt(t, a) \/ DecideWrite(t)
  PROVE  row'[b].worktree = row[b].worktree
<1>1. row \in [Attempt -> Row]
  BY DEF TypeOK
<1>2. CASE DecideWrite(t)
  <2> DEFINE c == request[t].attempt
             s == request[t].seen
             n == [s EXCEPT !.status = "other"]
  <2>1. c \in Attempt /\ s \in Row /\ Store(c, s, n)
    BY <1>2, RequestAttempt DEF DecideWrite
  <2>2. "worktree" \in DOMAIN s /\ n.worktree = s.worktree
    BY <2>1 DEF Row
  <2> HIDE DEF n
  <2> QED  BY <1>1, <2>1, <2>2 DEF Store
<1>3. CASE WorkOnAttempt(t, a)
  BY <1>1, <1>3 DEF WorkOnAttempt, Row
<1> QED  BY <1>2, <1>3

\* A request that stores a row leaves the result or adds one, whatever it has loaded.
LEMMA StoreKeepsResult ==
  ASSUME TypeOK, NEW a \in Attempt, NEW seen \in Row, NEW new, Store(a, seen, new),
         new.result = seen.result \/ new.result = row[a].result + 1, NEW b \in Attempt
  PROVE  row'[b].result \in {row[b].result, row[b].result + 1}
<1>1. row \in [Attempt -> Row] /\ "result" \in DOMAIN seen
  BY DEF TypeOK, Row
<1>2. CASE b # a
  BY <1>1, <1>2 DEF Store
<1>3. CASE b = a
  <2>1. row'[a] = [f \in DOMAIN seen |-> IF new[f] = seen[f] THEN row[a][f] ELSE new[f]]
    BY <1>1 DEF Store
  <2>2. row'[a].result = IF new.result = seen.result THEN row[a].result ELSE new.result
    BY <1>1, <2>1
  <2> QED  BY <1>3, <2>2
<1> QED  BY <1>2, <1>3

\* No step takes back a result.
LEMMA ResultsStay ==
  ASSUME TypeOK, [Next]_vars, NEW b \in Attempt
  PROVE  row[b].result \in Nat /\ row'[b].result \in {row[b].result, row[b].result + 1}
<1>1. row \in [Attempt -> Row] /\ row[b].result \in Nat
  BY DEF TypeOK, Row
<1>2. ASSUME NEW t \in Thread, NEW a \in Attempt,
             \/ CreateWorktree(t, a) \/ InspectWorktree(t, a) \/ Cleanup(t, a)
             \/ WorkOnAttempt(t, a) \/ DecideWrite(t)
      PROVE  row'[b].result = row[b].result
  BY <1>2, WorktreeColumns
<1>3. ASSUME NEW t \in Thread,
             \/ CommitResultWrite(t) \/ ApproveWrite(t) \/ RejectWrite(t)
             \/ GitReset(t) \/ SquashRecord(t)
      PROVE  row'[b].result \in {row[b].result, row[b].result + 1}
  <2> DEFINE a == request[t].attempt
             s == request[t].seen
  <2>1. a \in Attempt /\ s \in Row
    BY <1>3, RequestAttempt
       DEF CommitResultWrite, ApproveWrite, RejectWrite, GitReset, SquashRecord, AtStep
  <2>2. ASSUME NEW new, Store(a, s, new), new.result = s.result \/ new.result = row[a].result + 1
        PROVE  row'[b].result \in {row[b].result, row[b].result + 1}
    BY <2>1, <2>2, StoreKeepsResult
  <2>3. CASE CommitResultWrite(t)
    <3>1. \/ Store(a, s, [s EXCEPT !.result = row[a].result + 1, !.worktree = "committed",
                            !.status = "committed"])
          \/ Store(a, s, [s EXCEPT !.worktree = "dirty_result", !.status = "other"])
      BY <2>3 DEF CommitResultWrite
    <3>2. /\ [s EXCEPT !.result = row[a].result + 1, !.worktree = "committed",
                !.status = "committed"].result = row[a].result + 1
          /\ [s EXCEPT !.worktree = "dirty_result", !.status = "other"].result = s.result
      BY <2>1 DEF Row
    <3> QED  BY <2>2, <3>1, <3>2
  <2>4. CASE ApproveWrite(t)
    <3>1. [s EXCEPT !.review = "approved"].result = s.result
      BY <2>1 DEF Row
    <3> QED  BY <2>2, <2>4, <3>1 DEF ApproveWrite
  <2>5. CASE RejectWrite(t)
    <3>1. [s EXCEPT !.review = "rejected", !.status = "other",
                    !.worktree = "reviewing"].result = s.result
      BY <2>1 DEF Row
    <3> QED  BY <2>2, <2>5, <3>1 DEF RejectWrite
  <2>6. CASE GitReset(t)
    <3>1. [s EXCEPT !.review = IF request[t].conflict THEN "failed" ELSE @].result = s.result
      BY <2>1 DEF Row
    <3> QED  BY <2>2, <2>6, <3>1 DEF GitReset
  <2>7. CASE SquashRecord(t)
    <3>1. [s EXCEPT !.review = "merged", !.status = "merged",
                    !.worktree = "cleanup_pending"].result = s.result
      BY <2>1 DEF Row
    <3>2. Store(a, s, [s EXCEPT !.review = "merged", !.status = "merged",
                                !.worktree = "cleanup_pending"])
      BY <2>7 DEF SquashRecord
    <3> QED  BY <2>2, <3>1, <3>2
  <2> QED  BY <1>3, <2>3, <2>4, <2>5, <2>6, <2>7
<1> QED  BY <1>1, <1>2, <1>3, QuietOrWrites DEF LookAtReview, SquashUnapproved

-----------------------------------------------------------------------------
(* The squashes *)

\* The requests that load an attempt's rows to store some of them.
Loading == {"approve", "reject", "commit_result", "squash"}

\* A request that will store something begins with a read, and only a squash has steps in
\* between.
LEMMA LoadingGoesOnBy ==
  ASSUME TypeOK, [Next]_vars, NEW u \in Thread, request'[u].op \in Loading
  PROVE  \/ request'[u] = request[u]
         \/ \E a \in Attempt : CommitResultRead(u, a) \/ ApproveRead(u, a) \/ RejectRead(u, a)
         \/ \E a \in Attempt, m \in Message : SquashRead(u, a, m)
         \/ GitMerge(u) \/ GitCommit(u)
<1>1. ASSUME NEW t \in Thread, Served(t) \/ Finish(t)
      PROVE  request'[u] = request[u]
  BY <1>1 DEF Served, Finish, TypeOK, Idle, Loading
<1>2. ASSUME NEW t \in Thread, t # u, NEW r, Begin(t, r)
      PROVE  request'[u] = request[u]
  BY <1>2 DEF Begin, TypeOK
<1>3. ASSUME NEW t \in Thread, WorktreeStep(t) \/ AttemptStep(t) \/ ReviewStep(t)
      PROVE  \/ request'[u] = request[u]
             \/ \E a \in Attempt : CommitResultRead(u, a) \/ ApproveRead(u, a) \/ RejectRead(u, a)
  <2>1. ASSUME NEW a \in Attempt,
               CommitResultRead(t, a) \/ ApproveRead(t, a) \/ RejectRead(t, a), t # u
        PROVE  request'[u] = request[u]
    BY <1>2, <2>1 DEF CommitResultRead, ApproveRead, RejectRead, Load
  <2>2. ASSUME NEW a \in Attempt, \/ CreateWorktree(t, a) \/ InspectWorktree(t, a)
                                  \/ Cleanup(t, a) \/ WorkOnAttempt(t, a)
                                  \/ LookAtReview(t, a)
        PROVE  request'[u] = request[u]
    BY <1>1, <2>2 DEF CreateWorktree, InspectWorktree, Cleanup, WorkOnAttempt, LookAtReview
  <2>3. ASSUME NEW a \in Attempt, DecideRead(t, a)
        PROVE  request'[u] = request[u]
    BY <2>3 DEF DecideRead, Load, Begin, TypeOK, Loading
  <2> QED  BY <1>3, <2>1, <2>2, <2>3 DEF WorktreeStep, AttemptStep, ReviewStep
<1>4. ASSUME NEW t \in Thread, SquashStart(t)
      PROVE  \/ request'[u] = request[u]
             \/ \E a \in Attempt, m \in Message : SquashRead(u, a, m)
  <2>1. ASSUME NEW a \in Attempt, NEW m \in Message, SquashRead(t, a, m), t # u
        PROVE  request'[u] = request[u]
    BY <1>2, <2>1 DEF SquashRead
  <2>2. ASSUME NEW a \in Attempt, NEW m \in Message, SquashUnapproved(t, a, m)
        PROVE  request'[u] = request[u]
    BY <1>1, <2>2 DEF SquashUnapproved
  <2> QED  BY <1>4, <2>1, <2>2 DEF SquashStart
<1>5. ASSUME NEW t \in Thread, RequestEnd(t) \/ GitReset(t) \/ SquashRecord(t)
      PROVE  request'[u] = request[u]
  BY <1>1, <1>5 DEF RequestEnd, CommitResultWrite, DecideWrite, ApproveWrite, RejectWrite,
                    Abandon, GitReset, SquashRecord
<1>6. ASSUME NEW t \in Thread, GitMerge(t) \/ GitCommit(t), t # u
      PROVE  request'[u] = request[u]
  BY <1>6 DEF GitMerge, GitCommit, Advance, TypeOK
<1>7. ASSUME UserEdit \/ UserCommit \/ UserDiscard \/ UNCHANGED vars
      PROVE  request'[u] = request[u]
  BY <1>7 DEF UserEdit, UserCommit, UserDiscard, UserActs, vars
<1> QED  BY <1>3, <1>4, <1>5, <1>6, <1>7 DEF Next, SquashStep

\* A squash begins when SquashRead has found it in order, and goes on by its git commands.
LEMMA SquashGoesOnBy ==
  ASSUME TypeOK, [Next]_vars, NEW u \in Thread, request'[u].op = "squash"
  PROVE  \/ request'[u] = request[u]
         \/ \E a \in Attempt, m \in Message : SquashRead(u, a, m)
         \/ GitMerge(u) \/ GitCommit(u)
<1>1. ASSUME NEW a \in Attempt, CommitResultRead(u, a) \/ ApproveRead(u, a) \/ RejectRead(u, a)
      PROVE  FALSE
  BY <1>1 DEF CommitResultRead, ApproveRead, RejectRead, Load, Begin, TypeOK
<1> QED  BY <1>1, LoadingGoesOnBy DEF Loading

\* While a squash is at rest nobody touches the branch or the index: no other squash is in
\* flight, and the user waits.
LEMMA BranchRests ==
  ASSUME ~Overlap, SquashesTakeTurns, TypeOK, [Next]_vars,
         NEW u \in Thread, request[u].op = "squash", request'[u] = request[u]
  PROVE  UNCHANGED <<history, staged>>
<1>1. request[u] \in SquashRequest
  BY RequestAttempt
<1>2. ~(UserCommit \/ UserDiscard)
  BY <1>1 DEF UserCommit, UserDiscard, UserActs, Idle, SquashRequest
<1>3. ASSUME NEW t \in Thread, GitMerge(t) \/ GitCommit(t) \/ GitReset(t)
      PROVE  UNCHANGED <<history, staged>>
  <2>1. t = u
    BY <1>3 DEF GitMerge, GitCommit, GitReset, AtStep, SquashesTakeTurns
  <2>2. ~GitReset(u)
    BY <1>1 DEF GitReset, Finish, Idle, SquashRequest, TypeOK
  <2>3. ~GitMerge(u) /\ ~GitCommit(u)
    BY <1>1 DEF GitMerge, GitCommit, AtStep, Advance, SquashRequest, TypeOK
  <2> QED  BY <1>3, <2>1, <2>2, <2>3
<1> QED  BY <1>2, <1>3, GitOrQuiet

\* A worktree that exists keeps its base.
LEMMA BaseStays ==
  ASSUME TypeOK, [Next]_vars, NEW a \in Attempt, row[a].worktree # "none"
  PROVE  base'[a] = base[a]
BY BaseSet DEF CreateWorktree, TypeOK

\* What a squash at rest relies on stays: rows change, but worktrees and results stay.
LEMMA RestingStaysAtBase ==
  ASSUME ~Overlap, SquashesTakeTurns, SquashTurnsInv, [Next]_vars,
         NEW u \in Thread, request'[u].op = "squash", request'[u] = request[u]
  PROVE  AtBase(request[u])'
<1> DEFINE a == request[u].attempt
           v == request[u].seen.result
<1>1. /\ TypeOK /\ request[u].op = "squash" /\ AtBase(request[u]) /\ a \in Attempt
      /\ UNCHANGED <<history, staged>>
  BY RequestAttempt, BranchRests DEF SquashTurnsInv
<1>2. row[a].worktree # "none" /\ row'[a].worktree # "none" /\ base'[a] = base[a]
  BY <1>1, WorktreesStay, BaseStays DEF AtBase
<1>3. v \in 1 .. row'[a].result
  <2>1. v \in 1 .. row[a].result
    BY <1>1 DEF AtBase
  <2>2. row[a].result \in Nat /\ row'[a].result \in {row[a].result, row[a].result + 1}
    BY <1>1, ResultsStay
  <2> QED  BY <2>1, <2>2
<1> QED  BY <1>1, <1>2, <1>3 DEF AtBase

\* The checks of SquashRead put a squash at its base.
LEMMA SquashReadAtBase ==
  ASSUME SquashTurnsInv, NEW u \in Thread, NEW a \in Attempt, NEW m \in Message,
         SquashRead(u, a, m)
  PROVE  AtBase(request[u])'
<1>1. /\ request'[u] = [op |-> "squash", step |-> "merge", attempt |-> a, seen |-> row[a],
                        message |-> m, conflict |-> FALSE]
      /\ UNCHANGED <<history, staged, base, row>>
      /\ staged = {} /\ history = base[a]
      /\ row[a].worktree = "committed" /\ row[a].result # 0
  BY DEF SquashRead, Committed, SourceClean, Begin, gitVars, dbVars, SquashTurnsInv, TypeOK
<1>2. row[a].result \in 1 .. row[a].result
  <2>1. row[a].result \in Nat
    BY DEF SquashTurnsInv, TypeOK, Row
  <2> QED  BY <1>1, <2>1
<1> QED  BY <1>1, <1>2 DEF AtBase

\* Nothing of the attempt is on the branch, so git merge stages its result.
LEMMA MergeAtBase ==
  ASSUME SquashTurnsInv, NEW u \in Thread, GitMerge(u)
  PROVE  AtBase(request[u])'
<1> DEFINE a == request[u].attempt
           v == request[u].seen.result
<1>1. /\ request[u] \in SquashRequest /\ a \in Attempt /\ UNCHANGED <<history, base, row>>
      /\ AtBase(request[u]) /\ request[u].op = "squash" /\ request[u].step = "merge"
  BY RequestAttempt DEF GitMerge, AtStep, dbVars, SquashTurnsInv
<1>2. staged = {} /\ history = base[a] /\ NotLanded(a)
  BY <1>1, BaseIsAhead DEF AtBase, SquashTurnsInv
<1>3. /\ request'[u].attempt = a /\ request'[u].seen = request[u].seen
      /\ request'[u].step \in {"commit", "reset"}
      /\ request'[u].step = "commit" => staged' = Staging(a, v)
  BY <1>1 DEF GitMerge, Advance, SquashTurnsInv, TypeOK, SquashRequest
<1>4. Staging(a, v) = {<<a, v>>}
  <2>1. ~\E c \in Landed \union staged : c # UserChange /\ c[1] = a /\ c[2] >= v
    BY <1>2 DEF Landed, NotLanded
  <2> QED  BY <1>2, <2>1 DEF Staging
<1> QED  BY <1>1, <1>2, <1>3, <1>4 DEF AtBase

\* A commit makes what was staged the last commit, or leaves the branch at the base.
LEMMA CommitAtBase ==
  ASSUME SquashTurnsInv, NEW u \in Thread, GitCommit(u)
  PROVE  AtBase(request[u])'
<1> DEFINE a == request[u].attempt
           v == request[u].seen.result
<1>1. /\ request[u] \in SquashRequest /\ a \in Attempt /\ UNCHANGED <<base, row>>
      /\ AtBase(request[u]) /\ request[u].op = "squash" /\ request[u].step = "commit"
  BY RequestAttempt DEF GitCommit, AtStep, dbVars, SquashTurnsInv
<1>2. staged = {<<a, v>>} /\ history = base[a]
  BY <1>1 DEF AtBase
<1>3. /\ request'[u].attempt = a /\ request'[u].seen = request[u].seen
      /\ \/ request'[u].step = "record" /\ history' = Append(history, staged)
         \/ request'[u].step = "reset" /\ UNCHANGED history
  BY <1>1 DEF GitCommit, Advance, SquashTurnsInv, TypeOK, SquashRequest
<1>4. Append(history, staged) # <<>> /\ Last(Append(history, staged)) = {<<a, v>>}
  <2>1. history \in Seq(Commit) /\ staged \in Commit
    BY DEF SquashTurnsInv, TypeOK, Commit
  <2> QED  BY <1>2, <2>1 DEF Last
<1> QED  BY <1>1, <1>2, <1>3, <1>4 DEF AtBase

\* Every step keeps every squash at its base.
LEMMA SquashesStayAtBase ==
  ASSUME ~Overlap, SquashesTakeTurns, SquashTurnsInv, [Next]_vars, NEW u \in Thread
  PROVE  AtBase(request[u])'
<1>1. CASE request'[u].op # "squash"
  BY <1>1 DEF AtBase
<1>2. CASE request'[u].op = "squash"
  BY <1>2, SquashGoesOnBy, RestingStaysAtBase, SquashReadAtBase, MergeAtBase, CommitAtBase
     DEF SquashTurnsInv
<1> QED  BY <1>1, <1>2

-----------------------------------------------------------------------------
(* The branch *)

\* Squashes that take turns only add to the branch: a reset finds it where it resets it to.
LEMMA BranchGrowsByCommits ==
  ASSUME SquashTurnsInv, [Next]_vars
  PROVE  UNCHANGED history \/ \E c \in Commit : history' = Append(history, c)
<1>1. staged \in Commit /\ staged \union {UserChange} \in Commit
  BY DEF SquashTurnsInv, TypeOK, Commit
<1>2. ASSUME NEW t \in Thread, GitReset(t) PROVE UNCHANGED history
  BY <1>2 DEF GitReset, AtStep, SquashTurnsInv, AtBase
<1> QED  BY <1>1, <1>2, GitOrQuiet DEF GitMerge, GitCommit, UserCommit, UserDiscard

\* So a prefix of the branch stays one.
LEMMA PrefixStays ==
  ASSUME SquashTurnsInv, [Next]_vars, NEW s \in Seq(Commit), IsPrefix(s, history)
  PROVE  IsPrefix(s, history')
<1>1. history \in Seq(Commit)
  BY DEF SquashTurnsInv, TypeOK
<1> QED  BY <1>1, BranchGrowsByCommits, PrefixGrows

\* A recorded merge stays, and a squash records the commit it has made.
LEMMA MergesStayRecorded ==
  ASSUME SquashTurnsInv, [Next]_vars
  PROVE  RecordedMergeStays'
<1>1. /\ history \in Seq(Commit) /\ IsPrefix(history, history)
      /\ mergedAs \in [Attempt -> Seq(Commit)]
  BY DEF SquashTurnsInv, TypeOK, IsPrefix
<1>2. SUFFICES ASSUME NEW b \in Attempt, mergedAs'[b] # <<>>
               PROVE  /\ IsPrefix(mergedAs'[b], history')
                      /\ \E v \in 1 .. row'[b].result : Last(mergedAs'[b]) = {<<b, v>>}
  BY DEF RecordedMergeStays
<1>3. ASSUME NEW v \in 1 .. row[b].result PROVE v \in 1 .. row'[b].result
  <2>1. row[b].result \in Nat /\ row'[b].result \in {row[b].result, row[b].result + 1}
    BY ResultsStay DEF SquashTurnsInv
  <2> QED  BY <2>1
<1>4. CASE mergedAs'[b] = mergedAs[b]
  <2>1. /\ IsPrefix(mergedAs[b], history)
        /\ \E v \in 1 .. row[b].result : Last(mergedAs[b]) = {<<b, v>>}
    BY <1>2, <1>4 DEF SquashTurnsInv, RecordedMergeStays
  <2>2. IsPrefix(mergedAs[b], history')
    BY <1>1, <2>1, PrefixStays
  <2> QED  BY <1>3, <1>4, <2>1, <2>2
<1>5. ASSUME NEW t \in Thread, SquashRecord(t), mergedAs'[b] # mergedAs[b]
      PROVE  /\ IsPrefix(mergedAs'[b], history')
             /\ \E v \in 1 .. row'[b].result : Last(mergedAs'[b]) = {<<b, v>>}
  <2> DEFINE s == request[t].seen
  <2>1. b = request[t].attempt /\ mergedAs'[b] = history /\ UNCHANGED history
    BY <1>1, <1>5 DEF SquashRecord, gitVars
  <2>2. Last(history) = {<<b, s.result>>} /\ s.result \in 1 .. row[b].result
    BY <1>5, <2>1 DEF SquashRecord, AtStep, SquashTurnsInv, AtBase
  <2> QED  BY <1>1, <1>3, <2>1, <2>2
<1>6. UNCHANGED mergedAs \/ \E t \in Thread : SquashRecord(t)
  BY QuietOrWrites DEF CreateWorktree, InspectWorktree, Cleanup, WorkOnAttempt, LookAtReview,
                       SquashUnapproved, CommitResultWrite, DecideWrite, ApproveWrite,
                       RejectWrite, GitReset
<1> QED  BY <1>4, <1>5, <1>6

\* In the beginning nothing is staged, recorded or in flight.
LEMMA InitSquashTurns == Init => SquashTurnsInv
<1> SUFFICES ASSUME Init PROVE SquashTurnsInv
  OBVIOUS
<1>1. /\ DOMAIN history = {1} /\ history[1] \ {UserChange} = {} /\ staged = {}
      /\ history \in Seq(Commit)
  BY InitType DEF Init, TypeOK
<1>2. BasesOnBranch
  BY <1>1 DEF Init, BasesOnBranch, IsPrefix
<1>3. LandsOnce /\ LandedLater /\ StagedNew
  BY <1>1 DEF LandsOnce, LandedLater, StagedNew
<1>4. RecordedMergeStays /\ \A t \in Thread : AtBase(request[t])
  BY DEF Init, RecordedMergeStays, AtBase, Idle
<1> QED  BY <1>2, <1>3, <1>4, InitType DEF SquashTurnsInv, Once

\* While squashes take turns the invariant holds in every state.
LEMMA SquashTurnsInvHolds ==
  ASSUME ~Overlap
  PROVE  Spec /\ []SquashesTakeTurns => []SquashTurnsInv
<1>1. Init => SquashTurnsInv
  BY InitSquashTurns
<1>2. SquashTurnsInv /\ TypeOK' /\ SquashesTakeTurns /\ [Next]_vars => SquashTurnsInv'
  <2> SUFFICES ASSUME SquashTurnsInv, TypeOK', SquashesTakeTurns, [Next]_vars
               PROVE  SquashTurnsInv'
    OBVIOUS
  <2>1. Once'
    BY TurnsAreAhead, OnceStays
  <2> QED  BY <2>1, MergesStayRecorded, SquashesStayAtBase DEF SquashTurnsInv
<1> QED  BY <1>1, <1>2, TypeCorrect, PTL DEF Spec

-----------------------------------------------------------------------------
(* Theorems *)

\* If squashes take turns, a squash commit is made only on the commit that the worktree of
\* its attempt started from (README.md, Merge), although reviews are decided and results
\* committed while it runs: what merge_two_squashes refutes needs a second squash.
THEOREM LandsOnApprovedBaseInTurn ==
  ASSUME ~Overlap
  PROVE  Spec /\ []SquashesTakeTurns => LandsOnApprovedBase
<1>1. SquashTurnsInv /\ [Next]_vars =>
        [\A t \in Thread :
           AtStep(t, "commit") /\ request'[t] # request[t] /\ history' # history
             => history = base[request[t].attempt]]_vars
  BY DEF SquashTurnsInv, AtBase, AtStep
<1> QED  BY <1>1, SquashTurnsInvHolds, PTL DEF Spec, LandsOnApprovedBase

\* If squashes take turns, no request takes a commit off the branch: the reset of a squash
\* that fails finds the branch at the base it goes back to (squash). What
\* merge_double_squash refutes needs the reset of another one.
THEOREM BranchGrowsInTurn ==
  ASSUME ~Overlap
  PROVE  Spec /\ []SquashesTakeTurns => BranchOnlyGrows
<1>1. SquashTurnsInv /\ [Next]_vars => [IsPrefix(history, history')]_vars
  <2> SUFFICES ASSUME SquashTurnsInv, [Next]_vars PROVE IsPrefix(history, history')
    OBVIOUS
  <2>1. history \in Seq(Commit) /\ IsPrefix(history, history)
    BY DEF SquashTurnsInv, TypeOK, IsPrefix
  <2> QED  BY <2>1, PrefixStays
<1> QED  BY <1>1, SquashTurnsInvHolds, PTL DEF Spec, BranchOnlyGrows

\* If squashes take turns, a merge that the database records stays on the branch and is a
\* change of its attempt's, although the attempt may be rejected, inspected or commit
\* another result between the squash's checks and its record (squash).
THEOREM RecordedMergesStayInTurn ==
  ASSUME ~Overlap
  PROVE  Spec /\ []SquashesTakeTurns => []RecordedMergeStays
<1>1. SquashTurnsInv => RecordedMergeStays
  BY DEF SquashTurnsInv
<1> QED  BY <1>1, SquashTurnsInvHolds, PTL

\* If squashes take turns, an attempt's work lands once, also when a squash stops before
\* it is recorded and is tried again (squash).
THEOREM AttemptsLandOnceInTurn ==
  ASSUME ~Overlap
  PROVE  Spec /\ []SquashesTakeTurns => []LandsOnce
<1>1. SquashTurnsInv => LandsOnce
  BY DEF SquashTurnsInv, Once
<1> QED  BY <1>1, SquashTurnsInvHolds, PTL

-----------------------------------------------------------------------------
(* Requests that review an attempt one after the other *)

\* For each attempt at most one request is in flight that reviews it, squashes it or
\* commits a result of it.
DecisionsTakeTurns == \A t, u \in Thread :
                        /\ request[t].op \in Loading /\ request[u].op \in Loading
                        /\ request[t].attempt = request[u].attempt
                        => t = u

\* The columns of a review and of what it is about.
Decided == {"review", "result"}

\* What such a request has loaded of them is still stored; the statuses of the worktree and
\* of the attempt may have changed in between.
Standing(r) ==
  r.op \in Loading =>
    /\ row[r.attempt].worktree # "none"
    /\ \A f \in Decided : r.seen[f] = row[r.attempt][f]

\* The branch, and any worktree's base, has the commit that the repository began with.
Rooted == /\ history # <<>>
          /\ \A a \in Attempt : row[a].worktree # "none" => base[a] # <<>>

DecidedInv == /\ TypeOK /\ Rooted /\ DecisionsAgree
              /\ \A t \in Thread : Standing(request[t])

\* A column that has been loaded as it is stored gets the value that is meant for it, any
\* other one that value or keeps its own.
LEMMA StoreColumn ==
  ASSUME TypeOK, NEW a \in Attempt, NEW seen \in Row, NEW new, Store(a, seen, new),
         NEW f \in DOMAIN seen
  PROVE  /\ row'[a][f] = IF new[f] = seen[f] THEN row[a][f] ELSE new[f]
         /\ seen[f] = row[a][f] => row'[a][f] = new[f]
<1>1. row'[a] = [g \in DOMAIN seen |-> IF new[g] = seen[g] THEN row[a][g] ELSE new[g]]
  BY DEF Store, TypeOK
<1> QED  BY <1>1

\* A request that waits while others are served finds the rows it has loaded as they were:
\* nobody else decides on its attempt, and a worktree is not created twice.
LEMMA OthersLeaveColumns ==
  ASSUME TypeOK, DecisionsTakeTurns, [Next]_vars, NEW u \in Thread,
         request[u].op \in Loading, request'[u] = request[u],
         row[request[u].attempt].worktree # "none"
  PROVE  \A f \in Decided : row'[request[u].attempt][f] = row[request[u].attempt][f]
<1> DEFINE b == request[u].attempt
<1>1. b \in Attempt /\ row \in [Attempt -> Row]
  BY RequestAttempt DEF TypeOK, Loading
<1>2. ASSUME NEW t \in Thread, NEW a \in Attempt,
             \/ CreateWorktree(t, a) \/ InspectWorktree(t, a) \/ Cleanup(t, a)
             \/ WorkOnAttempt(t, a) \/ DecideWrite(t)
      PROVE  \A f \in Decided : row'[b][f] = row[b][f]
  BY <1>1, <1>2, WorktreeColumns DEF Decided
<1>3. ASSUME NEW t \in Thread,
             \/ CommitResultWrite(t) \/ ApproveWrite(t) \/ RejectWrite(t)
             \/ GitReset(t) \/ SquashRecord(t)
      PROVE  row'[b] = row[b]
  <2>1. request[t].op \in Loading /\ request'[t] = Idle
    BY <1>3 DEF CommitResultWrite, ApproveWrite, RejectWrite, GitReset, SquashRecord, AtStep,
                Loading, Finish, TypeOK
  <2>2. request[t].attempt # b
    BY <2>1 DEF DecisionsTakeTurns, Idle, Loading
  <2>3. \E new : Store(request[t].attempt, request[t].seen, new)
    BY <1>3 DEF CommitResultWrite, ApproveWrite, RejectWrite, GitReset, SquashRecord
  <2> QED  BY <1>1, <2>2, <2>3 DEF Store
<1>4. ASSUME NEW t \in Thread, DecideWrite(t)
      PROVE  \A f \in Decided : row'[b][f] = row[b][f]
  BY <1>1, <1>2, <1>4
<1> QED  BY <1>2, <1>3, <1>4, QuietOrWrites DEF LookAtReview, SquashUnapproved

\* So every request of this kind still stands.
LEMMA RequestsStayStanding ==
  ASSUME DecidedInv, DecisionsTakeTurns, [Next]_vars, NEW u \in Thread
  PROVE  Standing(request[u])'
<1>1. TypeOK /\ row \in [Attempt -> Row]
  BY DEF DecidedInv, TypeOK
<1>2. CASE request'[u].op \notin Loading
  BY <1>2 DEF Standing
<1>3. CASE request'[u].op \in Loading /\ request'[u] = request[u]
  <2>1. Standing(request[u]) /\ request[u].attempt \in Attempt
    BY <1>1, <1>3, RequestAttempt DEF DecidedInv, Loading
  <2>2. row[request[u].attempt].worktree # "none"
    BY <1>3, <2>1 DEF Standing
  <2>3. row'[request[u].attempt].worktree # "none"
    BY <1>1, <2>1, <2>2, WorktreesStay
  <2> QED  BY <1>1, <1>3, <2>1, <2>2, <2>3, OthersLeaveColumns DEF Standing
<1>4. ASSUME NEW a \in Attempt, CommitResultRead(u, a) \/ ApproveRead(u, a) \/ RejectRead(u, a)
      PROVE  Standing(request[u])'
  <2>1. /\ request'[u].attempt = a /\ request'[u].seen = row[a] /\ row' = row
        /\ row[a].worktree # "none"
    BY <1>1, <1>4 DEF CommitResultRead, ApproveRead, RejectRead, Committed, HasPath, Load, Begin,
                      dbVars, TypeOK
  <2> QED  BY <2>1 DEF Standing
<1>5. ASSUME NEW a \in Attempt, NEW m \in Message, SquashRead(u, a, m)
      PROVE  Standing(request[u])'
  <2>1. /\ request'[u].attempt = a /\ request'[u].seen = row[a] /\ row' = row
        /\ row[a].worktree # "none"
    BY <1>1, <1>5 DEF SquashRead, Committed, Begin, dbVars, TypeOK
  <2> QED  BY <2>1 DEF Standing
<1>6. CASE GitMerge(u) \/ GitCommit(u)
  <2>1. request[u] \in SquashRequest /\ Standing(request[u]) /\ request[u].op = "squash"
    BY <1>1, <1>6, RequestAttempt DEF GitMerge, GitCommit, AtStep, DecidedInv
  <2>2. /\ request'[u].attempt = request[u].attempt /\ request'[u].seen = request[u].seen
        /\ row' = row
    BY <1>1, <1>6, <2>1 DEF GitMerge, GitCommit, Advance, dbVars, TypeOK, SquashRequest
  <2> QED  BY <2>1, <2>2 DEF Standing, Loading
<1> QED  BY <1>1, <1>2, <1>3, <1>4, <1>5, <1>6, LoadingGoesOnBy

\* What a request that stands writes into the columns of a review; it sets no status to
\* merged but by the squash's record.
LEMMA StandingWrites ==
  ASSUME DecidedInv, NEW t \in Thread,
         \/ CommitResultWrite(t) \/ ApproveWrite(t) \/ RejectWrite(t)
         \/ GitReset(t) \/ SquashRecord(t)
  PROVE  LET a == request[t].attempt
         IN  /\ a \in Attempt
             /\ \A b \in Attempt \ {a} : row'[b] = row[b]
             /\ CommitResultWrite(t) => row'[a].review = row[a].review
             /\ ApproveWrite(t) => row'[a].review = "approved"
             /\ GitReset(t) => row'[a].review \in {row[a].review, "failed"}
             /\ RejectWrite(t) => row'[a].review = "rejected"
             /\ SquashRecord(t) => row'[a].review = "merged"
             /\ ~SquashRecord(t) => row'[a].status \in {row[a].status, "committed", "other"}
<1> DEFINE a == request[t].attempt
           s == request[t].seen
<1>1. request[t].op \in Loading /\ TypeOK /\ Standing(request[t])
  BY DEF CommitResultWrite, ApproveWrite, RejectWrite, GitReset, SquashRecord, AtStep, Loading,
         DecidedInv
<1>2. a \in Attempt /\ s \in Row /\ row \in [Attempt -> Row]
  BY <1>1, RequestAttempt DEF Loading, TypeOK
<1>3. \A b \in Attempt \ {a} : row'[b] = row[b]
  BY <1>2 DEF CommitResultWrite, ApproveWrite, RejectWrite, GitReset, SquashRecord, Store
<1>4. ASSUME NEW new, Store(a, s, new)
      PROVE  /\ row'[a].review = new.review
             /\ row'[a].status = IF new.status = s.status THEN row[a].status ELSE new.status
  <2>1. "review" \in DOMAIN s /\ "status" \in DOMAIN s /\ s.review = row[a].review
    BY <1>1, <1>2 DEF Standing, Decided, Row
  <2> QED  BY <1>1, <1>2, <1>4, <2>1, StoreColumn
<1>5. ASSUME CommitResultWrite(t)
      PROVE  /\ row'[a].review = row[a].review
             /\ row'[a].status \in {row[a].status, "committed", "other"}
  <2> DEFINE done == [s EXCEPT !.result = row[a].result + 1, !.worktree = "committed",
                               !.status = "committed"]
             out == [s EXCEPT !.worktree = "dirty_result", !.status = "other"]
  <2>1. Store(a, s, done) \/ Store(a, s, out)
    BY <1>5 DEF CommitResultWrite
  <2>2. /\ done.review = s.review /\ done.status = "committed"
        /\ out.review = s.review /\ out.status = "other"
    BY <1>2 DEF Row
  <2>3. s.review = row[a].review
    BY <1>1 DEF Standing, Decided
  <2> HIDE DEF done, out
  <2> QED  BY <1>4, <2>1, <2>2, <2>3
<1>6. ASSUME ApproveWrite(t)
      PROVE  row'[a].review = "approved" /\ row'[a].status = row[a].status
  <2> DEFINE n == [s EXCEPT !.review = "approved"]
  <2>1. Store(a, s, n) /\ n.review = "approved" /\ n.status = s.status
    BY <1>2, <1>6 DEF ApproveWrite, Row
  <2> HIDE DEF n
  <2> QED  BY <1>4, <2>1
<1>7. ASSUME GitReset(t)
      PROVE  row'[a].review \in {row[a].review, "failed"} /\ row'[a].status = row[a].status
  <2> DEFINE n == [s EXCEPT !.review = IF request[t].conflict THEN "failed" ELSE @]
  <2>1. Store(a, s, n) /\ n.review \in {s.review, "failed"} /\ n.status = s.status
    BY <1>2, <1>7 DEF GitReset, Row
  <2>2. s.review = row[a].review
    BY <1>1 DEF Standing, Decided
  <2> HIDE DEF n
  <2> QED  BY <1>4, <2>1, <2>2
<1>8. ASSUME RejectWrite(t)
      PROVE  /\ row'[a].review = "rejected"
             /\ row'[a].status \in {row[a].status, "committed", "other"}
  <2> DEFINE n == [s EXCEPT !.review = "rejected", !.status = "other", !.worktree = "reviewing"]
  <2>1. Store(a, s, n) /\ n.review = "rejected" /\ n.status = "other"
    BY <1>2, <1>8 DEF RejectWrite, Row
  <2> HIDE DEF n
  <2> QED  BY <1>4, <2>1
<1>9. ASSUME SquashRecord(t) PROVE row'[a].review = "merged"
  <2> DEFINE n == [s EXCEPT !.review = "merged", !.status = "merged",
                            !.worktree = "cleanup_pending"]
  <2>1. Store(a, s, n) /\ n.review = "merged"
    BY <1>2, <1>9 DEF SquashRecord, Row
  <2> HIDE DEF n
  <2> QED  BY <1>4, <2>1
<1> QED  BY <1>2, <1>3, <1>5, <1>6, <1>7, <1>8, <1>9

\* Nothing takes the first commit off the branch.
LEMMA StaysRooted ==
  ASSUME DecidedInv, [Next]_vars
  PROVE  Rooted'
<1>1. TypeOK /\ history \in Seq(Commit) /\ base \in [Attempt -> Seq(Commit)] /\ Rooted
  BY DEF DecidedInv, TypeOK
<1>2. history' # <<>>
  <2>1. ASSUME NEW t \in Thread, GitReset(t) PROVE history' # <<>>
    <3>1. request[t].attempt \in Attempt /\ row[request[t].attempt].worktree # "none"
      BY <1>1, <2>1, RequestAttempt DEF GitReset, AtStep, DecidedInv, Standing, Loading
    <3> QED  BY <1>1, <2>1, <3>1 DEF GitReset, Rooted
  <2>2. \A c : Append(history, c) # <<>>
    BY <1>1
  <2> QED  BY <1>1, <2>1, <2>2, GitOrQuiet
         DEF Rooted, GitMerge, GitCommit, UserCommit, UserDiscard
<1>3. ASSUME NEW b \in Attempt, row'[b].worktree # "none" PROVE base'[b] # <<>>
  <2>1. CASE row[b].worktree # "none"
    BY <1>1, <2>1, BaseStays DEF Rooted
  <2>2. CASE row[b].worktree = "none"
    <3>1. ASSUME NEW t \in Thread, NEW a \in Attempt, CreateWorktree(t, a), row'[b] # row[b]
          PROVE  base'[b] # <<>>
      BY <1>1, <3>1 DEF CreateWorktree, Rooted, TypeOK
    <3>2. ASSUME NEW t \in Thread, NEW a \in Attempt, InspectWorktree(t, a) \/ Cleanup(t, a)
          PROVE  row'[b] = row[b]
      BY <1>1, <2>2, <3>2 DEF InspectWorktree, Cleanup, HasPath, TypeOK
    <3>3. ASSUME NEW t \in Thread, NEW a \in Attempt, WorkOnAttempt(t, a) \/ DecideWrite(t)
          PROVE  row'[b].worktree = row[b].worktree
      BY <1>1, <3>3, StatusAlone
    <3>4. ASSUME NEW t \in Thread,
                 \/ CommitResultWrite(t) \/ ApproveWrite(t) \/ RejectWrite(t)
                 \/ GitReset(t) \/ SquashRecord(t)
          PROVE  row'[b] = row[b]
      <4>1. row[request[t].attempt].worktree # "none"
        BY <3>4 DEF CommitResultWrite, ApproveWrite, RejectWrite, GitReset, SquashRecord, AtStep,
                    Loading, DecidedInv, Standing
      <4> QED  BY <2>2, <3>4, <4>1, StandingWrites
    <3> QED  BY <1>3, <2>2, <3>1, <3>2, <3>3, <3>4, QuietOrWrites
             DEF LookAtReview, SquashUnapproved
  <2> QED  BY <2>1, <2>2
<1> QED  BY <1>2, <1>3 DEF Rooted

\* What DecisionsAgree says of one attempt.
Agrees(a) ==
  /\ row[a].review \in {"none", "rejected"}
       => \A i \in DOMAIN approvals[a] : approvals[a][i].status # "approved"
  /\ "merged" \in {row[a].status, row[a].review} => mergedAs[a] # <<>>

\* An attempt has no approval in force when none of its list is approved.
LEMMA AgreesOfEach == DecisionsAgree <=> \A a \in Attempt : Agrees(a)
BY DEF DecisionsAgree, Agrees, Granted

\* Looking at approvals grants none.
LEMMA MarkLatestGrantsNone ==
  ASSUME NEW q \in Seq(Approval), NEW fp, NEW i \in DOMAIN MarkLatest(q, fp),
         MarkLatest(q, fp)[i].status = "approved"
  PROVE  i \in DOMAIN q /\ q[i].status = "approved"
<1>1. CASE MarkLatest(q, fp) = q
  BY <1>1
<1>2. CASE MarkLatest(q, fp) = [q EXCEPT ![Len(q)].status = "stale"]
  BY <1>2 DEF Approval
<1> QED  BY <1>1, <1>2 DEF MarkLatest

\* Making the other approvals stale grants none.
LEMMA MarkAllGrantsNone ==
  ASSUME NEW q \in Seq(Approval), NEW fp, NEW i \in DOMAIN MarkAll(q, fp),
         MarkAll(q, fp)[i].status = "approved"
  PROVE  i \in DOMAIN q /\ q[i].status = "approved"
BY DEF MarkAll, Approval

\* What is served in one go, without a decision, leaves a decision in agreement.
LEMMA ServedStaysAgreed ==
  ASSUME TypeOK, DecisionsAgree, NEW t \in Thread, NEW a \in Attempt, NEW b \in Attempt,
         \/ CreateWorktree(t, a) \/ InspectWorktree(t, a) \/ Cleanup(t, a)
         \/ WorkOnAttempt(t, a) \/ DecideWrite(t)
         \/ LookAtReview(t, a) \/ \E m \in Message : SquashUnapproved(t, a, m)
  PROVE  Agrees(b)'
<1>1. /\ row \in [Attempt -> Row] /\ approvals \in [Attempt -> Seq(Approval)]
      /\ Agrees(b)
  BY AgreesOfEach DEF TypeOK
<1>2. CASE \/ CreateWorktree(t, a) \/ InspectWorktree(t, a) \/ Cleanup(t, a)
           \/ WorkOnAttempt(t, a) \/ DecideWrite(t)
  <2>1. UNCHANGED <<approvals, mergedAs>>
    BY <1>2 DEF CreateWorktree, InspectWorktree, Cleanup, WorkOnAttempt, DecideWrite
  <2>2. /\ row'[b].review = row[b].review
        /\ row'[b].status \in {row[b].status, "other"}
    BY <1>2, WorktreeColumns
  <2> QED  BY <1>1, <2>1, <2>2 DEF Agrees
<1>3. CASE LookAtReview(t, a) \/ \E m \in Message : SquashUnapproved(t, a, m)
  <2>1. UNCHANGED <<row, mergedAs>>
    BY <1>3 DEF LookAtReview, SquashUnapproved
  <2>2. \E fp : \/ approvals'[b] = approvals[b]
                \/ approvals'[b] = MarkLatest(approvals[b], fp)
                \/ approvals'[b] = MarkAll(approvals[b], fp)
    BY <1>1, <1>3 DEF LookAtReview, SquashUnapproved
  <2>3. ASSUME NEW i \in DOMAIN approvals'[b], approvals'[b][i].status = "approved"
        PROVE  i \in DOMAIN approvals[b] /\ approvals[b][i].status = "approved"
    BY <1>1, <2>2, <2>3, MarkLatestGrantsNone, MarkAllGrantsNone
  <2> QED  BY <1>1, <2>1, <2>3 DEF Agrees
<1> QED  BY <1>2, <1>3

\* A request that stores something leaves the decision on its attempt in agreement.
LEMMA WritersStayAgreed ==
  ASSUME DecidedInv, NEW t \in Thread, NEW b \in Attempt,
         \/ CommitResultWrite(t) \/ ApproveWrite(t) \/ RejectWrite(t)
         \/ GitReset(t) \/ SquashRecord(t)
  PROVE  Agrees(b)'
<1> DEFINE a == request[t].attempt
<1>1. /\ approvals \in [Attempt -> Seq(Approval)] /\ mergedAs \in [Attempt -> Seq(Commit)]
      /\ Agrees(b) /\ a \in Attempt
  BY StandingWrites, AgreesOfEach DEF DecidedInv, TypeOK
<1>2. CASE b # a
  <2>1. row'[b] = row[b] /\ approvals'[b] = approvals[b] /\ mergedAs'[b] = mergedAs[b]
    BY <1>1, <1>2, StandingWrites
       DEF CommitResultWrite, ApproveWrite, RejectWrite, GitReset, SquashRecord
  <2> QED  BY <1>1, <2>1 DEF Agrees
<1>3. CASE b = a /\ (CommitResultWrite(t) \/ ApproveWrite(t) \/ GitReset(t))
  <2>1. mergedAs' = mergedAs /\ ~SquashRecord(t) /\ (~ApproveWrite(t) => approvals' = approvals)
    BY <1>3 DEF CommitResultWrite, ApproveWrite, GitReset, SquashRecord, AtStep
  <2> QED  BY <1>1, <1>3, <2>1, StandingWrites DEF Agrees
<1>4. CASE b = a /\ RejectWrite(t)
  <2>1. \A i \in DOMAIN approvals[b] : approvals[b][i] \in Approval
    BY <1>1
  <2>2. approvals'[b] = [i \in DOMAIN approvals[b] |->
                           IF approvals[b][i].status = "approved"
                           THEN [approvals[b][i] EXCEPT !.status = "rejected"]
                           ELSE approvals[b][i]]
    BY <1>1, <1>4 DEF RejectWrite
  <2>3. \A i \in DOMAIN approvals'[b] : approvals'[b][i].status # "approved"
    BY <2>1, <2>2 DEF Approval
  <2>4. mergedAs' = mergedAs /\ ~SquashRecord(t)
    BY <1>4 DEF RejectWrite, SquashRecord, AtStep
  <2> QED  BY <1>1, <1>4, <2>3, <2>4, StandingWrites DEF Agrees
<1>5. CASE b = a /\ SquashRecord(t)
  <2>1. mergedAs'[b] # <<>>
    BY <1>1, <1>5 DEF SquashRecord, DecidedInv, Rooted
  <2>2. row'[b].review = "merged"
    BY <1>5, StandingWrites
  <2> QED  BY <2>1, <2>2 DEF Agrees
<1> QED  BY <1>2, <1>3, <1>4, <1>5

\* In the beginning nothing is decided.
LEMMA InitDecided == Init => DecidedInv
BY InitType DEF Init, DecidedInv, Rooted, DecisionsAgree, Granted, Standing, Loading, Idle

\* Requests that review an attempt one after the other keep its review in agreement.
LEMMA DecidedInvHolds == Spec /\ []DecisionsTakeTurns => []DecidedInv
<1>1. Init => DecidedInv
  BY InitDecided
<1>2. DecidedInv /\ TypeOK' /\ DecisionsTakeTurns /\ [Next]_vars => DecidedInv'
  <2> SUFFICES ASSUME DecidedInv, TypeOK', DecisionsTakeTurns, [Next]_vars PROVE DecidedInv'
    OBVIOUS
  <2>1. ASSUME NEW b \in Attempt PROVE Agrees(b)'
    <3>1. CASE UNCHANGED <<row, approvals, mergedAs>>
      BY <3>1, AgreesOfEach DEF DecidedInv, Agrees
    <3>2. CASE ~UNCHANGED <<row, approvals, mergedAs>>
      BY <3>2, QuietOrWrites, ServedStaysAgreed, WritersStayAgreed DEF DecidedInv
    <3> QED  BY <3>1, <3>2
  <2>2. DecisionsAgree'
    BY <2>1 DEF DecisionsAgree, Agrees, Granted
  <2> QED  BY <2>2, StaysRooted, RequestsStayStanding DEF DecidedInv
<1> QED  BY <1>1, <1>2, TypeCorrect, PTL DEF Spec

\* If the requests that review an attempt take turns (approve, reject, squash, commit_result),
\* a review that was rejected, or never made, leaves no approval that a squash could use,
\* and what counts as merged has its commit recorded: however worker runs, plain decisions
\* (attempt_actions.py), which take no turn, squashes of other attempts and the user's own
\* git commands interfere.  An approve that overlaps a reject breaks it.
THEOREM DecisionsAgreeInTurn == Spec /\ []DecisionsTakeTurns => []DecisionsAgree
<1>1. DecidedInv => DecisionsAgree
  BY DEF DecidedInv
<1> QED  BY <1>1, DecidedInvHolds, PTL

-----------------------------------------------------------------------------
(* The gate *)

\* No squash is refused for an attempt while another squash of it is in flight: the refusal
\* would make the approval stale that the other one goes by.
RefusalsWait ==
  [][\A t, u \in Thread, a \in Attempt, m \in Message :
       SquashUnapproved(t, a, m) => ~(request[u].op = "squash" /\ request[u].attempt = a)]_vars

\* What a squash goes by: an approval in force for the branch as it is and for its result.
Permit(r) == [fp |-> [base |-> history, result |-> r.seen.result, message |-> "default"],
              status |-> "approved"]

Permitted(r) ==
  r.op = "squash" /\ r.step \in {"merge", "commit"}
    => \E i \in DOMAIN approvals[r.attempt] : approvals[r.attempt][i] = Permit(r)

\* Nobody approves anything but the default message.
DefaultMessages == \A a \in Attempt : \A i \in DOMAIN approvals[a] :
                     approvals[a][i].fp.message = "default"

PermitInv == /\ SquashTurnsInv /\ DecidedInv /\ DefaultMessages
             /\ \A t \in Thread : Permitted(request[t])

\* Neither looking at approvals nor rejecting them changes what they are for.
LEMMA MarksKeepMessages ==
  ASSUME NEW q \in Seq(Approval), NEW fp, NEW msg, \A i \in DOMAIN q : q[i].fp.message = msg
  PROVE  /\ \A i \in DOMAIN MarkLatest(q, fp) : MarkLatest(q, fp)[i].fp.message = msg
         /\ \A i \in DOMAIN MarkAll(q, fp) : MarkAll(q, fp)[i].fp.message = msg
<1>1. \A i \in DOMAIN q : q[i] \in Approval
  OBVIOUS
<1>2. CASE MarkLatest(q, fp) = q
  BY <1>1, <1>2 DEF MarkAll, Approval
<1>3. CASE MarkLatest(q, fp) = [q EXCEPT ![Len(q)].status = "stale"]
  BY <1>1, <1>3 DEF MarkAll, Approval
<1> QED  BY <1>2, <1>3 DEF MarkLatest

\* Every approval that is added is for the default message.
LEMMA MessagesStayDefault ==
  ASSUME TypeOK, DefaultMessages, [Next]_vars
  PROVE  DefaultMessages'
<1>1. approvals \in [Attempt -> Seq(Approval)]
  BY DEF TypeOK
<1>2. ASSUME NEW a \in Attempt, NEW s, approvals' = [approvals EXCEPT ![a] = s],
             \A i \in DOMAIN s : s[i].fp.message = "default"
      PROVE  DefaultMessages'
  BY <1>1, <1>2 DEF DefaultMessages
<1>3. ASSUME NEW a \in Attempt, NEW fp,
             \/ approvals' = [approvals EXCEPT ![a] = MarkLatest(@, fp)]
             \/ approvals' = [approvals EXCEPT ![a] = MarkAll(@, fp)]
      PROVE  DefaultMessages'
  <2>1. /\ \A i \in DOMAIN MarkLatest(approvals[a], fp) :
             MarkLatest(approvals[a], fp)[i].fp.message = "default"
        /\ \A i \in DOMAIN MarkAll(approvals[a], fp) :
             MarkAll(approvals[a], fp)[i].fp.message = "default"
    BY <1>1, MarksKeepMessages DEF DefaultMessages
  <2> QED  BY <1>2, <1>3, <2>1
<1>4. ASSUME NEW t \in Thread, ApproveWrite(t) PROVE DefaultMessages'
  <2> DEFINE a == request[t].attempt
             fp == [base |-> base[a], result |-> request[t].seen.result, message |-> "default"]
             now == PresentFingerprint(request[t].seen.result)
             x == [fp |-> fp, status |-> "approved"]
             q == MarkLatest(approvals[a], fp)
  <2>1. a \in Attempt /\ request[t].seen \in Row
    BY <1>4, RequestAttempt DEF ApproveWrite
  <2>2. x \in Approval /\ x.fp.message = "default"
    BY <2>1 DEF Approval, Fingerprint, Message, Row, TypeOK
  <2>3. q \in Seq(Approval) /\ \A i \in DOMAIN q : q[i].fp.message = "default"
    BY <1>1, <2>1, MarkLatestKeeps, MarksKeepMessages DEF DefaultMessages, Kept
  <2> HIDE DEF x, q
  <2>4. Append(q, x) \in Seq(Approval) /\ \A i \in DOMAIN Append(q, x) :
                                            Append(q, x)[i].fp.message = "default"
    BY <2>2, <2>3
  <2>5. \A i \in DOMAIN MarkLatest(Append(q, x), now) :
          MarkLatest(Append(q, x), now)[i].fp.message = "default"
    BY <2>4, MarksKeepMessages
  <2>6. approvals' = [approvals EXCEPT ![a] = MarkLatest(Append(q, x), now)]
    BY <1>4 DEF ApproveWrite, x, q
  <2> QED  BY <1>2, <2>1, <2>5, <2>6
<1>5. ASSUME NEW t \in Thread, RejectWrite(t) PROVE DefaultMessages'
  <2> DEFINE a == request[t].attempt
             q == approvals[a]
             s == [i \in DOMAIN q |-> IF q[i].status = "approved"
                                      THEN [q[i] EXCEPT !.status = "rejected"] ELSE q[i]]
  <2>1. a \in Attempt /\ approvals' = [approvals EXCEPT ![a] = s]
    BY <1>5, RequestAttempt DEF RejectWrite
  <2>2. \A i \in DOMAIN q : q[i] \in Approval /\ q[i].fp.message = "default"
    BY <1>1, <2>1 DEF DefaultMessages
  <2>3. \A i \in DOMAIN s : s[i].fp.message = "default"
    BY <2>2 DEF Approval
  <2> HIDE DEF s
  <2> QED  BY <1>2, <2>1, <2>3
<1>6. ASSUME NEW t \in Thread, SquashRecord(t) PROVE DefaultMessages'
  <2>1. request[t].attempt \in Attempt
    BY <1>6, RequestAttempt DEF SquashRecord, AtStep
  <2> QED  BY <1>3, <1>6, <2>1 DEF SquashRecord
<1>7. CASE UNCHANGED approvals
  BY <1>7 DEF DefaultMessages
<1> QED  BY <1>3, <1>4, <1>5, <1>6, <1>7, QuietOrWrites
         DEF CreateWorktree, InspectWorktree, Cleanup, WorkOnAttempt, LookAtReview,
             SquashUnapproved, CommitResultWrite, DecideWrite, GitReset

\* While a squash is at rest its approval stays: to look at it changes nothing, as it is for
\* the present branch and result, and nobody decides on the attempt.
LEMMA PermitStays ==
  ASSUME ~Overlap, SquashesTakeTurns, DecisionsTakeTurns, PermitInv, [Next]_vars,
         \A t, u \in Thread, a \in Attempt, m \in Message :
           SquashUnapproved(t, a, m) => ~(request[u].op = "squash" /\ request[u].attempt = a),
         NEW u \in Thread, request'[u] = request[u]
  PROVE  Permitted(request[u])'
<1> SUFFICES ASSUME request[u].op = "squash", request[u].step \in {"merge", "commit"}
             PROVE  Permitted(request[u])'
  BY DEF Permitted
<1> DEFINE b == request[u].attempt
           q == approvals[b]
<1>1. /\ TypeOK /\ b \in Attempt /\ q \in Seq(Approval)
      /\ approvals \in [Attempt -> Seq(Approval)] /\ UNCHANGED history
      /\ request[u].seen.result = row[b].result
  BY RequestAttempt, BranchRests
     DEF PermitInv, SquashTurnsInv, DecidedInv, Standing, Decided, Loading, TypeOK
<1>2. PICK i \in DOMAIN q : q[i] = Permit(request[u])
  BY DEF PermitInv, Permitted
<1>3. SUFFICES i \in DOMAIN approvals'[b] /\ approvals'[b][i] = q[i]
  BY <1>1, <1>2 DEF Permitted, Permit
<1>4. ASSUME NEW t \in Thread, NEW a \in Attempt, LookAtReview(t, a)
      PROVE  i \in DOMAIN approvals'[b] /\ approvals'[b][i] = q[i]
  <2>1. CASE a # b
    BY <1>1, <1>2, <1>4, <2>1 DEF LookAtReview
  <2>2. CASE a = b
    <3> DEFINE fp == PresentFingerprint(row[b].result)
    <3>1. approvals'[b] = MarkLatest(q, fp) /\ q[i].fp = fp
      BY <1>1, <1>2, <1>4, <2>2 DEF LookAtReview, Permit, PresentFingerprint
    <3>2. CASE i = Len(q)
      BY <1>1, <1>2, <3>1, <3>2 DEF MarkLatest, Last
    <3>3. CASE i # Len(q)
      BY <1>1, <1>2, <3>1, <3>3 DEF MarkLatest
    <3> QED  BY <3>2, <3>3
  <2> QED  BY <2>1, <2>2
<1>5. ASSUME NEW t \in Thread, NEW a \in Attempt, NEW m \in Message, SquashUnapproved(t, a, m)
      PROVE  i \in DOMAIN approvals'[b] /\ approvals'[b][i] = q[i]
  <2>1. a # b
    BY <1>5
  <2> QED  BY <1>1, <1>2, <1>5, <2>1 DEF SquashUnapproved
<1>6. ASSUME NEW t \in Thread,
             \/ CommitResultWrite(t) \/ ApproveWrite(t) \/ RejectWrite(t)
             \/ GitReset(t) \/ SquashRecord(t)
      PROVE  i \in DOMAIN approvals'[b] /\ approvals'[b][i] = q[i]
  <2>1. request[t].op \in Loading /\ request'[t] = Idle
    BY <1>1, <1>6 DEF CommitResultWrite, ApproveWrite, RejectWrite, GitReset, SquashRecord, AtStep,
                      Loading, Finish, TypeOK
  <2>2. request[t].attempt # b
    BY <2>1 DEF DecisionsTakeTurns, Idle, Loading
  <2> QED  BY <1>1, <1>2, <1>6, <2>2
           DEF CommitResultWrite, ApproveWrite, RejectWrite, GitReset, SquashRecord
<1>7. CASE UNCHANGED approvals
  BY <1>2, <1>7
<1> QED  BY <1>4, <1>5, <1>6, <1>7, QuietOrWrites
         DEF CreateWorktree, InspectWorktree, Cleanup, WorkOnAttempt, DecideWrite

\* Every squash keeps what it goes by until it commits.
LEMMA SquashesStayPermitted ==
  ASSUME ~Overlap, SquashesTakeTurns, DecisionsTakeTurns, PermitInv, [Next]_vars,
         \A t, u \in Thread, a \in Attempt, m \in Message :
           SquashUnapproved(t, a, m) => ~(request[u].op = "squash" /\ request[u].attempt = a),
         NEW u \in Thread
  PROVE  Permitted(request[u])'
<1>1. TypeOK
  BY DEF PermitInv, DecidedInv
<1>2. ASSUME NEW a \in Attempt, NEW m \in Message, SquashRead(u, a, m)
      PROVE  Permitted(request[u])'
  <2>1. /\ request'[u] = [op |-> "squash", step |-> "merge", attempt |-> a, seen |-> row[a],
                          message |-> m, conflict |-> FALSE]
        /\ UNCHANGED <<history, approvals>>
        /\ ValidApproval(a, SquashFingerprint(a, m))
    BY <1>1, <1>2 DEF SquashRead, Begin, gitVars, dbVars, TypeOK
  <2>2. PICK i \in DOMAIN approvals[a] : /\ approvals[a][i].fp = SquashFingerprint(a, m)
                                         /\ approvals[a][i].status = "approved"
    BY <2>1 DEF ValidApproval
  <2>3. SquashFingerprint(a, m) = [base |-> history, result |-> row[a].result,
                                   message |-> "default"]
    <3>1. approvals[a][i].fp.message = "default"
      BY DEF PermitInv, DefaultMessages
    <3> QED  BY <2>2, <3>1 DEF SquashFingerprint
  <2>4. approvals[a][i] \in Approval
    BY <1>1 DEF TypeOK
  <2>5. approvals[a][i] = [fp |-> SquashFingerprint(a, m), status |-> "approved"]
    BY <2>2, <2>4 DEF Approval
  <2> QED  BY <2>1, <2>3, <2>5 DEF Permitted, Permit
<1>3. CASE GitMerge(u) \/ GitCommit(u)
  <2>1. request[u] \in SquashRequest /\ Permitted(request[u]) /\ UNCHANGED approvals
    BY <1>1, <1>3, RequestAttempt DEF GitMerge, GitCommit, AtStep, PermitInv, dbVars
  <2>2. request'[u].attempt = request[u].attempt /\ request'[u].seen = request[u].seen
    BY <1>1, <1>3, <2>1 DEF GitMerge, GitCommit, Advance, TypeOK, SquashRequest
  <2>3. request'[u].step \in {"merge", "commit"} => GitMerge(u)
    BY <1>1, <1>3, <2>1 DEF GitCommit, Advance, TypeOK, SquashRequest
  <2> QED  BY <2>1, <2>2, <2>3 DEF Permitted, Permit, GitMerge, AtStep
<1>4. CASE request'[u].op # "squash"
  BY <1>4 DEF Permitted
<1> QED  BY <1>1, <1>2, <1>3, <1>4, SquashGoesOnBy, PermitStays

\* What each step does to the branch and to the approvals in force is a step of the gate.
LEMMA StepsOfTheGate ==
  ASSUME PermitInv, [Next]_vars
  PROVE  [Gate!GateNext]_Gate!gateVars
<1>1. /\ TypeOK /\ SquashTurnsInv /\ history \in Seq(Commit)
  BY DEF PermitInv, SquashTurnsInv, TypeOK
<1>2. CASE UNCHANGED history
  BY <1>2 DEF Gate!GateNext, Gate!Decide
<1>3. ASSUME NEW t \in Thread, GitReset(t) PROVE UNCHANGED history
  BY <1>1, <1>3 DEF GitReset, AtStep, SquashTurnsInv, AtBase
<1>4. ASSUME NEW t \in Thread, GitCommit(t), ~UNCHANGED history
      PROVE  Gate!GateNext
  <2> DEFINE a == request[t].attempt
             v == request[t].seen.result
             g == [attempt |-> a, base |-> history, result |-> v]
  <2>1. /\ request[t].op = "squash" /\ request[t].step = "commit" /\ a \in Attempt
        /\ history' = Append(history, staged) /\ UNCHANGED approvals
    BY <1>1, <1>4, RequestAttempt DEF GitCommit, AtStep, dbVars
  <2>2. staged = {<<a, v>>}
    BY <2>1 DEF PermitInv, SquashTurnsInv, AtBase
  <2>3. PICK i \in DOMAIN approvals[a] : approvals[a][i] = Permit(request[t])
    BY <2>1 DEF PermitInv, Permitted
  <2>4. g \in InForce
    BY <2>1, <2>3 DEF InForce, Granted, Permit
  <2>5. UNCHANGED InForce
    BY <2>1 DEF InForce, Granted
  <2> QED  BY <2>1, <2>2, <2>4, <2>5 DEF Gate!GateNext, Gate!Land
<1>5. CASE UserCommit
  <2> DEFINE c == staged \union {UserChange}
  <2>1. history' = Append(history, c) /\ UNCHANGED approvals /\ c \in Commit
    BY <1>1, <1>5 DEF UserCommit, UserActs, dbVars, TypeOK, Commit
  <2>2. history'[Len(history')] = c
    BY <1>1, <2>1
  <2>3. UNCHANGED InForce
    BY <2>1 DEF InForce, Granted
  <2> QED  BY <2>1, <2>2, <2>3 DEF Gate!GateNext, Gate!CommitByHand
<1> QED  BY <1>2, <1>3, <1>4, <1>5, GitOrQuiet DEF GitMerge, UserDiscard

\* If squashes take turns, and so do the requests that decide on one attempt, the repository
\* behaves as MergeGate promises, for any number of requests in flight: every squash lands
\* alone, on the base and with the result it was approved for, while the approval holds, and
\* no commit is lost (squash). None of the three conditions can be left out.
THEOREM MergeGateInTurn ==
  ASSUME ~Overlap
  PROVE  Spec /\ []SquashesTakeTurns /\ []DecisionsTakeTurns /\ RefusalsWait
           => ImplementsMergeGate
<1> DEFINE Waits == \A t, u \in Thread, a \in Attempt, m \in Message :
                      SquashUnapproved(t, a, m)
                        => ~(request[u].op = "squash" /\ request[u].attempt = a)
<1>1. Init => PermitInv /\ Gate!GateInit
  <2> SUFFICES ASSUME Init PROVE PermitInv /\ Gate!GateInit
    OBVIOUS
  <2>1. InForce = {} /\ DefaultMessages
    BY DEF Init, InForce, Granted, DefaultMessages
  <2>2. SquashTurnsInv /\ DecidedInv
    BY InitSquashTurns, InitDecided
  <2> QED  BY <2>1, <2>2 DEF Init, PermitInv, Permitted, Idle, Gate!GateInit
<1>2. /\ PermitInv /\ SquashTurnsInv' /\ DecidedInv' /\ SquashesTakeTurns /\ DecisionsTakeTurns
      /\ [Next]_vars /\ [Waits]_vars
      => PermitInv'
  <2> SUFFICES ASSUME PermitInv, SquashTurnsInv', DecidedInv', SquashesTakeTurns,
                      DecisionsTakeTurns, [Next]_vars, [Waits]_vars
               PROVE  PermitInv'
    OBVIOUS
  <2>1. CASE UNCHANGED vars
    BY <2>1 DEF vars, gitVars, dbVars, PermitInv, DefaultMessages, Permitted, Permit
  <2>2. CASE Waits
    BY <2>2, SquashesStayPermitted, MessagesStayDefault DEF PermitInv, DecidedInv
  <2> QED  BY <2>1, <2>2
<1>3. PermitInv /\ [Next]_vars => [Gate!GateNext]_Gate!gateVars
  BY StepsOfTheGate
<1> QED  BY <1>1, <1>2, <1>3, SquashTurnsInvHolds, DecidedInvHolds, PTL
         DEF Spec, RefusalsWait, ImplementsMergeGate, Gate!GateSpec

-----------------------------------------------------------------------------
(* One request at a time *)

\* A request that is alone takes turns with nobody.
LEMMA AloneTakesTurns ==
  ASSUME NEW one, Thread = {one}
  PROVE  Spec => []SquashesTakeTurns /\ []DecisionsTakeTurns /\ RefusalsWait
<1>1. SquashesTakeTurns /\ DecisionsTakeTurns
  BY DEF SquashesTakeTurns, DecisionsTakeTurns
<1>2. \A t, u \in Thread, a \in Attempt, m \in Message :
        SquashUnapproved(t, a, m) => ~(request[u].op = "squash" /\ request[u].attempt = a)
  BY DEF SquashUnapproved, Served, Idle
<1> QED  BY <1>1, <1>2, PTL DEF RefusalsWait

\* One request at a time, a review that was rejected, or never made, leaves no approval
\* that a squash could use, and what counts as merged has its commit recorded, although a
\* squash may fail or stop at any of its steps, plain decisions and worker runs set the
\* attempt's status as they like and the user runs git meanwhile (approve, reject, squash).
THEOREM DecisionsAgreeAlone ==
  ASSUME NEW one, Thread = {one}
  PROVE  Spec => []DecisionsAgree
BY AloneTakesTurns, DecisionsAgreeInTurn, PTL

\* One request at a time, a merge that the database records is a commit of the
\* attempt's on the branch, and stays there whatever is merged, fails or is abandoned
\* after it (squash).
THEOREM RecordedMergesStayAlone ==
  ASSUME NEW one, Thread = {one}, ~Overlap
  PROVE  Spec => []RecordedMergeStays
BY AloneTakesTurns, RecordedMergesStayInTurn, PTL

\* One request at a time, a squash commit is made only on the commit that the worktree
\* of its attempt started from (README.md, Merge).
THEOREM LandsOnApprovedBaseAlone ==
  ASSUME NEW one, Thread = {one}, ~Overlap
  PROVE  Spec => LandsOnApprovedBase
BY AloneTakesTurns, LandsOnApprovedBaseInTurn, PTL

\* One request at a time, no request ever takes a commit off the branch, however its
\* squash fails (squash).
THEOREM BranchGrowsAlone ==
  ASSUME NEW one, Thread = {one}, ~Overlap
  PROVE  Spec => BranchOnlyGrows
BY AloneTakesTurns, BranchGrowsInTurn, PTL

\* With one request at a time and a user who waits for it, the repository behaves as
\* MergeGate promises: every squash lands alone, on the base and with the result it was
\* approved for, while the approval holds, and no commit is lost.
THEOREM MergeGateImplemented ==
  ASSUME NEW one, Thread = {one}, ~Overlap
  PROVE  Spec => ImplementsMergeGate
BY AloneTakesTurns, MergeGateInTurn, PTL

=============================================================================
