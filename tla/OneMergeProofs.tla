--------------------------- MODULE OneMergeProofs ---------------------------
(***************************************************************************)
(* What SquashMerge promises when one request is handled at a time while   *)
(* the user runs git as they like: the work of an attempt lands once.  For *)
(* any number of attempts, with requests that stop at any step.            *)
(***************************************************************************)
EXTENDS SquashMergeProofs

-----------------------------------------------------------------------------
(* Histories *)

\* A prefix of a branch is a prefix of the branch with one more commit.
LEMMA PrefixGrows ==
  ASSUME NEW S, NEW s \in Seq(S), NEW h \in Seq(S), NEW c \in S, IsPrefix(s, h)
  PROVE  IsPrefix(s, Append(h, c))
<1>1. Len(s) <= Len(h) /\ Len(Append(h, c)) = Len(h) + 1
  BY DEF IsPrefix
<1>2. SubSeq(Append(h, c), 1, Len(s)) = SubSeq(h, 1, Len(s))
  BY <1>1
<1> QED  BY <1>1, <1>2 DEF IsPrefix

-----------------------------------------------------------------------------
(* The steps *)

\* The steps that leave rows, approvals and recorded merges alone.
LEMMA QuietOrWrites ==
  ASSUME [Next]_vars
  PROVE  \/ UNCHANGED <<row, approvals, mergedAs>>
         \/ \E t \in Thread, a \in Attempt :
              \/ CreateWorktree(t, a) \/ InspectWorktree(t, a) \/ Cleanup(t, a)
              \/ WorkOnAttempt(t, a)
              \/ LookAtReview(t, a) \/ \E m \in Message : SquashUnapproved(t, a, m)
         \/ \E t \in Thread : \/ CommitResultWrite(t) \/ DecideWrite(t)
                              \/ ApproveWrite(t) \/ RejectWrite(t)
                              \/ GitReset(t) \/ SquashRecord(t)
BY DEF Next, vars, dbVars, WorktreeStep, CommitResultRead, AttemptStep, DecideRead, ReviewStep,
       ApproveRead, RejectRead, Load, Begin, SquashStart, SquashRead, SquashStep,
       GitMerge, GitCommit, RequestEnd, Abandon,
       UserEdit, UserCommit, UserDiscard, UserActs

-----------------------------------------------------------------------------
(* An attempt lands once, also when the user runs git during a squash *)

NotLanded(a) == \A i \in DOMAIN history : \A c \in history[i] \ {UserChange} : c[1] # a

\* No worktree is ahead of the branch.
BasesOnBranch == \A b \in Attempt : IsPrefix(base[b], history)

\* What has landed was not yet there when the worktree of its attempt was created.
LandedLater == \A i \in DOMAIN history : \A c \in history[i] \ {UserChange} :
                 Len(base[c[1]]) < i /\ row[c[1]].worktree # "none"

\* What is staged is of attempts that have not landed.
StagedNew == \A c \in staged : /\ NotLanded(c[1]) /\ row[c[1]].worktree # "none"
                               /\ \A d \in staged : c[1] = d[1] => c = d

\* The base that a squash may reset the branch to is ahead of every other base: the
\* branch may have grown since by the user's hand, but no worktree has been created.
\* A squash that has committed resets no more.
SquashAhead(r) == r.op = "squash" =>
                    /\ row[r.attempt].worktree # "none"
                    /\ r.step # "record" => \A b \in Attempt : IsPrefix(base[b], base[r.attempt])
                    /\ r.step = "merge" => staged = {} /\ NotLanded(r.attempt)

OnceInv == /\ TypeOK /\ LandsOnce /\ BasesOnBranch /\ LandedLater /\ StagedNew
           /\ \A t \in Thread : SquashAhead(request[t])

\* A commit on the branch is a change of an attempt's, unless it is the user's.
LEMMA LandedChange ==
  ASSUME TypeOK, NEW i \in DOMAIN history, NEW c \in history[i] \ {UserChange}
  PROVE  c[1] \in Attempt
BY DEF TypeOK, Commit, Change

\* A prefix has the same commits in the same places.
LEMMA PrefixCommits ==
  ASSUME NEW S, NEW s \in Seq(S), NEW h \in Seq(S), IsPrefix(s, h)
  PROVE  Len(s) <= Len(h) /\ \A i \in DOMAIN s : i \in DOMAIN h /\ h[i] = s[i]
<1>1. Len(s) <= Len(h) /\ SubSeq(s, 1, Len(s)) = SubSeq(h, 1, Len(s))
  BY DEF IsPrefix
<1>2. ASSUME NEW i \in DOMAIN s PROVE i \in DOMAIN h /\ h[i] = s[i]
  <2>1. i \in 1 .. Len(s) /\ i \in 1 .. Len(h)
    BY <1>1
  <2>2. SubSeq(s, 1, Len(s))[i] = s[i] /\ SubSeq(h, 1, Len(s))[i] = h[i]
    BY <1>1, <2>1
  <2> QED  BY <1>1, <2>1, <2>2
<1> QED  BY <1>1, <1>2

\* No row ever loses its worktree.
LEMMA StoreKeepsWorktree ==
  ASSUME TypeOK, NEW a \in Attempt, NEW seen \in Row, NEW new, Store(a, seen, new),
         new.worktree = seen.worktree \/ new.worktree # "none",
         NEW b \in Attempt, row[b].worktree # "none"
  PROVE  row'[b].worktree # "none"
<1>1. row \in [Attempt -> Row] /\ "worktree" \in DOMAIN seen
  BY DEF TypeOK, Row
<1>2. CASE b # a
  BY <1>1, <1>2 DEF Store
<1>3. CASE b = a
  <2>1. row'[a] = [f \in DOMAIN seen |-> IF new[f] = seen[f] THEN row[a][f] ELSE new[f]]
    BY <1>1 DEF Store
  <2>2. row'[a].worktree = IF new.worktree = seen.worktree THEN row[a].worktree ELSE new.worktree
    BY <1>1, <2>1
  <2> QED  BY <1>3, <2>2
<1> QED  BY <1>2, <1>3

\* No step takes back that a worktree was created for an attempt.
LEMMA WorktreesStay ==
  ASSUME TypeOK, [Next]_vars, NEW b \in Attempt, row[b].worktree # "none"
  PROVE  row'[b].worktree # "none"
<1>1. row \in [Attempt -> Row]
  BY DEF TypeOK
<1>2. ASSUME NEW t \in Thread, NEW a \in Attempt,
             \/ CreateWorktree(t, a) \/ InspectWorktree(t, a) \/ Cleanup(t, a)
             \/ WorkOnAttempt(t, a)
      PROVE  row'[b].worktree # "none"
  <2>1. \/ row' = [row EXCEPT ![a].worktree = "ready", ![a].status = "other"]
        \/ \E w \in {"ready", "dirty_result", "cleaned"} : row' = [row EXCEPT ![a].worktree = w]
        \/ row' = [row EXCEPT ![a].status = "other"]
    BY <1>2 DEF CreateWorktree, InspectWorktree, Cleanup, WorkOnAttempt
  <2> QED  BY <1>1, <2>1 DEF Row
<1>3. ASSUME NEW t \in Thread,
             \/ CommitResultWrite(t) \/ DecideWrite(t) \/ ApproveWrite(t) \/ RejectWrite(t)
             \/ GitReset(t) \/ SquashRecord(t)
      PROVE  row'[b].worktree # "none"
  <2> DEFINE a == request[t].attempt
             s == request[t].seen
  <2>1. a \in Attempt /\ s \in Row
    BY <1>3, RequestAttempt
       DEF CommitResultWrite, DecideWrite, ApproveWrite, RejectWrite, GitReset, SquashRecord,
           AtStep
  <2>2. ASSUME NEW new, Store(a, s, new), new.worktree = s.worktree \/ new.worktree # "none"
        PROVE  row'[b].worktree # "none"
    BY <2>1, <2>2, StoreKeepsWorktree
  <2>3. CASE CommitResultWrite(t)
    <3>1. \/ Store(a, s, [s EXCEPT !.result = row[a].result + 1, !.worktree = "committed",
                            !.status = "committed"])
          \/ Store(a, s, [s EXCEPT !.worktree = "dirty_result", !.status = "other"])
      BY <2>3 DEF CommitResultWrite
    <3>2. /\ [s EXCEPT !.result = row[a].result + 1, !.worktree = "committed",
                       !.status = "committed"].worktree = "committed"
          /\ [s EXCEPT !.worktree = "dirty_result", !.status = "other"].worktree = "dirty_result"
      BY <2>1 DEF Row
    <3> QED  BY <2>2, <3>1, <3>2
  <2>4. CASE ApproveWrite(t)
    <3>1. [s EXCEPT !.review = "approved"].worktree = s.worktree
      BY <2>1 DEF Row
    <3> QED  BY <2>2, <2>4, <3>1 DEF ApproveWrite
  <2>5. CASE RejectWrite(t)
    <3>1. [s EXCEPT !.review = "rejected", !.status = "other",
                    !.worktree = "reviewing"].worktree = "reviewing"
      BY <2>1 DEF Row
    <3> QED  BY <2>2, <2>5, <3>1 DEF RejectWrite
  <2>6. CASE GitReset(t)
    <3>1. [s EXCEPT !.review = IF request[t].conflict THEN "failed" ELSE @].worktree = s.worktree
      BY <2>1 DEF Row
    <3> QED  BY <2>2, <2>6, <3>1 DEF GitReset
  <2>7. CASE SquashRecord(t)
    <3>1. [s EXCEPT !.review = "merged", !.status = "merged",
                    !.worktree = "cleanup_pending"].worktree = "cleanup_pending"
      BY <2>1 DEF Row
    <3>2. Store(a, s, [s EXCEPT !.review = "merged", !.status = "merged",
                                !.worktree = "cleanup_pending"])
      BY <2>7 DEF SquashRecord
    <3> QED  BY <2>2, <3>1, <3>2
  <2>8. CASE DecideWrite(t)
    <3>1. [s EXCEPT !.status = "other"].worktree = s.worktree
      BY <2>1 DEF Row
    <3> QED  BY <2>2, <2>8, <3>1 DEF DecideWrite
  <2> QED  BY <1>3, <2>3, <2>4, <2>5, <2>6, <2>7, <2>8
<1> QED  BY <1>2, <1>3, QuietOrWrites DEF LookAtReview, SquashUnapproved

\* Bases are only set when a worktree is created.
LEMMA BaseSet ==
  ASSUME [Next]_vars
  PROVE  \/ UNCHANGED base
         \/ \E t \in Thread, a \in Attempt : CreateWorktree(t, a)
<1>1. ASSUME NEW t \in Thread, NEW a \in Attempt,
             InspectWorktree(t, a) \/ CommitResultRead(t, a) \/ Cleanup(t, a)
      PROVE  UNCHANGED base
  BY <1>1 DEF InspectWorktree, CommitResultRead, Cleanup, Load, Begin, dbVars
<1>2. ASSUME NEW t \in Thread, AttemptStep(t) \/ ReviewStep(t) \/ SquashStart(t)
      PROVE  UNCHANGED base
  BY <1>2 DEF AttemptStep, WorkOnAttempt, DecideRead, ReviewStep, LookAtReview, ApproveRead,
              RejectRead, SquashStart, SquashRead,
              SquashUnapproved, Load, Begin, dbVars
<1>3. ASSUME NEW t \in Thread, SquashStep(t) \/ RequestEnd(t) PROVE UNCHANGED base
  BY <1>3 DEF SquashStep, GitMerge, GitCommit, GitReset, SquashRecord, RequestEnd,
              CommitResultWrite, DecideWrite, ApproveWrite, RejectWrite, Abandon, dbVars
<1>4. CASE UserEdit \/ UserCommit \/ UserDiscard \/ UNCHANGED vars
  BY <1>4 DEF UserEdit, UserCommit, UserDiscard, UserActs, dbVars, vars
<1> QED  BY <1>1, <1>2, <1>3, <1>4 DEF Next, WorktreeStep

\* What changes the repository.
LEMMA GitOrQuiet ==
  ASSUME [Next]_vars
  PROVE  \/ UNCHANGED <<history, staged>>
         \/ \E t \in Thread : GitMerge(t) \/ GitCommit(t) \/ GitReset(t)
         \/ UserCommit \/ UserDiscard
<1>1. ASSUME NEW t \in Thread,
             WorktreeStep(t) \/ AttemptStep(t) \/ ReviewStep(t) \/ SquashStart(t)
      PROVE  UNCHANGED <<history, staged>>
  BY <1>1 DEF WorktreeStep, CreateWorktree, InspectWorktree, CommitResultRead, Cleanup,
              AttemptStep, WorkOnAttempt, DecideRead,
              ReviewStep, LookAtReview, ApproveRead, RejectRead, SquashStart, SquashRead,
              SquashUnapproved, Load, Begin, gitVars
<1>2. ASSUME NEW t \in Thread, SquashRecord(t) \/ RequestEnd(t)
      PROVE  UNCHANGED <<history, staged>>
  BY <1>2 DEF SquashRecord, RequestEnd, CommitResultWrite, DecideWrite, ApproveWrite, RejectWrite,
              Abandon, gitVars
<1>3. CASE UserEdit \/ UNCHANGED vars
  BY <1>3 DEF UserEdit, vars, gitVars
<1> QED  BY <1>1, <1>2, <1>3 DEF Next, SquashStep

Once == LandsOnce /\ BasesOnBranch /\ LandedLater /\ StagedNew

\* The types that the next lemmas need.
LEMMA OnceTypes ==
  ASSUME OnceInv
  PROVE  /\ history \in Seq(Commit) /\ \A b \in Attempt : base[b] \in Seq(Commit)
         /\ \A c \in staged : c[1] \in Attempt
BY DEF OnceInv, TypeOK, Change

\* The branch stays, and nothing is staged.
LEMMA BranchStays ==
  ASSUME OnceInv, [Next]_vars, UNCHANGED <<history, base>>, staged' \subseteq staged
  PROVE  Once'
<1>1. \A b \in Attempt : row[b].worktree # "none" => row'[b].worktree # "none"
  BY WorktreesStay DEF OnceInv
<1>2. LandsOnce' /\ BasesOnBranch'
  BY DEF OnceInv, LandsOnce, BasesOnBranch
<1>3. LandedLater'
  BY <1>1, LandedChange DEF OnceInv, LandedLater
<1>4. StagedNew'
  BY <1>1, OnceTypes DEF OnceInv, StagedNew, NotLanded
<1> QED  BY <1>2, <1>3, <1>4 DEF Once

\* A commit takes the index, with or without what the user adds.
LEMMA BranchLengthens ==
  ASSUME OnceInv, [Next]_vars, UNCHANGED base, NEW c \in Commit, c \ {UserChange} \subseteq staged,
         history' = Append(history, c), staged' = {}
  PROVE  Once'
<1> DEFINE n == Len(history) + 1
<1>1. \A b \in Attempt : row[b].worktree # "none" => row'[b].worktree # "none"
  BY WorktreesStay DEF OnceInv
<1>2. /\ history \in Seq(Commit) /\ Len(history) \in Nat
      /\ DOMAIN history' = DOMAIN history \union {n} /\ n \notin DOMAIN history
      /\ history'[n] = c /\ \A i \in DOMAIN history : history'[i] = history[i]
  BY OnceTypes
<1>3. \A d \in c \ {UserChange} : d \in staged /\ d[1] \in Attempt /\ NotLanded(d[1])
  BY OnceTypes DEF OnceInv, StagedNew
<1>4. LandsOnce'
  <2> SUFFICES ASSUME NEW i \in DOMAIN history', NEW k \in DOMAIN history',
                      NEW d \in history'[i] \ {UserChange}, NEW f \in history'[k] \ {UserChange},
                      d[1] = f[1]
               PROVE  i = k /\ d = f
    BY DEF LandsOnce
  <2>1. CASE i = n /\ k = n
    BY <1>2, <1>3, <2>1 DEF OnceInv, StagedNew
  <2>2. CASE i = n /\ k # n
    BY <1>2, <1>3, <2>2 DEF NotLanded
  <2>3. CASE i # n /\ k = n
    BY <1>2, <1>3, <2>3 DEF NotLanded
  <2>4. CASE i # n /\ k # n
    BY <1>2, <2>4 DEF OnceInv, LandsOnce
  <2> QED  BY <2>1, <2>2, <2>3, <2>4
<1>5. BasesOnBranch'
  BY OnceTypes, PrefixGrows DEF OnceInv, BasesOnBranch
<1>6. LandedLater'
  <2> SUFFICES ASSUME NEW i \in DOMAIN history', NEW d \in history'[i] \ {UserChange}
               PROVE  Len(base[d[1]]) < i /\ row'[d[1]].worktree # "none"
    BY DEF LandedLater
  <2>1. CASE i = n
    <3>1. d \in staged /\ d[1] \in Attempt
      BY <1>2, <1>3, <2>1
    <3>2. Len(base[d[1]]) <= Len(history) /\ Len(base[d[1]]) \in Nat
      BY <3>1, OnceTypes DEF OnceInv, BasesOnBranch, IsPrefix
    <3>3. row[d[1]].worktree # "none"
      BY <3>1 DEF OnceInv, StagedNew
    <3> QED  BY <1>1, <1>2, <2>1, <3>1, <3>2, <3>3
  <2>2. CASE i # n
    BY <1>1, <1>2, <2>2, LandedChange DEF OnceInv, LandedLater
  <2> QED  BY <2>1, <2>2
<1>7. StagedNew'
  BY DEF StagedNew
<1> QED  BY <1>4, <1>5, <1>6, <1>7 DEF Once

\* A reset goes back to a base that is on the branch, and ahead of the other bases.
LEMMA BranchResets ==
  ASSUME OnceInv, [Next]_vars, UNCHANGED base, NEW t \in Thread, AtStep(t, "reset"),
         history' = base[request[t].attempt], staged' = {}
  PROVE  Once'
<1> DEFINE a == request[t].attempt
<1>1. a \in Attempt /\ SquashAhead(request[t])
  BY RequestAttempt DEF OnceInv, AtStep
<1>2. \A b \in Attempt : row[b].worktree # "none" => row'[b].worktree # "none"
  BY WorktreesStay DEF OnceInv
<1>3. \A i \in DOMAIN history' : i \in DOMAIN history /\ history'[i] = history[i]
  BY <1>1, OnceTypes, PrefixCommits DEF OnceInv, BasesOnBranch
<1>4. LandsOnce'
  BY <1>3 DEF OnceInv, LandsOnce
<1>5. BasesOnBranch'
  BY <1>1 DEF BasesOnBranch, SquashAhead, AtStep
<1>6. LandedLater'
  BY <1>2, <1>3, LandedChange DEF OnceInv, LandedLater
<1>7. StagedNew'
  BY DEF StagedNew
<1> QED  BY <1>4, <1>5, <1>6, <1>7 DEF Once

\* A worktree is created once, when nothing of its attempt can have landed.
LEMMA WorktreeCreated ==
  ASSUME OnceInv, [Next]_vars, NEW t \in Thread, NEW a \in Attempt, CreateWorktree(t, a)
  PROVE  Once'
<1>1. /\ UNCHANGED <<history, staged>> /\ row[a].worktree = "none"
      /\ base' = [base EXCEPT ![a] = history]
  BY DEF CreateWorktree, gitVars
<1>2. base \in [Attempt -> Seq(Commit)] /\ history \in Seq(Commit)
  BY DEF OnceInv, TypeOK
<1>3. \A b \in Attempt : row[b].worktree # "none" => row'[b].worktree # "none"
  BY WorktreesStay DEF OnceInv
<1>4. LandsOnce'
  BY <1>1 DEF OnceInv, LandsOnce
<1>5. BasesOnBranch'
  <2>1. IsPrefix(history, history)
    BY <1>2 DEF IsPrefix
  <2> QED  BY <1>1, <1>2, <2>1 DEF OnceInv, BasesOnBranch
<1>6. LandedLater'
  <2> SUFFICES ASSUME NEW i \in DOMAIN history, NEW d \in history[i] \ {UserChange}
               PROVE  Len(base'[d[1]]) < i /\ row'[d[1]].worktree # "none"
    BY <1>1 DEF LandedLater
  <2>1. d[1] \in Attempt /\ Len(base[d[1]]) < i /\ row[d[1]].worktree # "none"
    BY LandedChange DEF OnceInv, LandedLater
  <2>2. d[1] # a
    BY <1>1, <2>1
  <2> QED  BY <1>1, <1>2, <1>3, <2>1, <2>2
<1>7. StagedNew'
  BY <1>1, <1>3, OnceTypes DEF OnceInv, StagedNew, NotLanded
<1> QED  BY <1>4, <1>5, <1>6, <1>7 DEF Once

\* A merge stages what has not landed.
LEMMA MergeStages ==
  ASSUME OnceInv, [Next]_vars, NEW t \in Thread, GitMerge(t)
  PROVE  Once'
<1> DEFINE a == request[t].attempt
           v == request[t].seen.result
<1>1. /\ a \in Attempt /\ UNCHANGED <<history, base, row>>
      /\ staged = {} /\ NotLanded(a) /\ row[a].worktree # "none"
  BY RequestAttempt DEF GitMerge, AtStep, dbVars, OnceInv, SquashAhead
<1>2. staged' \subseteq {<<a, v>>}
  BY <1>1 DEF GitMerge, Staging
<1>3. StagedNew'
  BY <1>1, <1>2 DEF StagedNew, NotLanded
<1>4. LandsOnce' /\ BasesOnBranch' /\ LandedLater'
  BY <1>1 DEF OnceInv, LandsOnce, BasesOnBranch, LandedLater
<1> QED  BY <1>3, <1>4 DEF Once

\* No step brings the work of an attempt to the branch again.
LEMMA OnceStays ==
  ASSUME OnceInv, [Next]_vars
  PROVE  Once'
<1>1. CASE \E t \in Thread, a \in Attempt : CreateWorktree(t, a)
  BY <1>1, WorktreeCreated
<1>2. CASE UNCHANGED base /\ UNCHANGED <<history, staged>>
  BY <1>2, BranchStays
<1>3. ASSUME UNCHANGED base, NEW t \in Thread, GitMerge(t) PROVE Once'
  BY <1>3, MergeStages
<1>4. ASSUME UNCHANGED base, NEW t \in Thread, GitCommit(t) PROVE Once'
  <2>1. staged \in Commit
    BY DEF OnceInv, TypeOK, Commit
  <2>2. \/ history' = Append(history, staged) /\ staged' = {}
        \/ UNCHANGED <<history, staged>>
    BY <1>4 DEF GitCommit
  <2> QED  BY <1>4, <2>1, <2>2, BranchLengthens, BranchStays
<1>5. ASSUME UNCHANGED base, NEW t \in Thread, GitReset(t) PROVE Once'
  <2>1. \/ history' = base[request[t].attempt] /\ staged' = {}
        \/ UNCHANGED <<history, staged>>
    BY <1>5 DEF GitReset
  <2>2. AtStep(t, "reset")
    BY <1>5 DEF GitReset
  <2> QED  BY <1>5, <2>1, <2>2, BranchResets, BranchStays
<1>6. CASE UNCHANGED base /\ UserCommit
  <2>1. staged \union {UserChange} \in Commit
    BY DEF OnceInv, TypeOK, Commit
  <2>2. history' = Append(history, staged \union {UserChange}) /\ staged' = {}
    BY <1>6 DEF UserCommit
  <2> QED  BY <1>6, <2>1, <2>2, BranchLengthens
<1>7. CASE UNCHANGED base /\ UserDiscard
  <2>1. UNCHANGED history /\ staged' = {}
    BY <1>7 DEF UserDiscard, UserActs
  <2> QED  BY <1>7, <2>1, BranchStays
<1> QED  BY <1>1, <1>2, <1>3, <1>4, <1>5, <1>6, <1>7, BaseSet, GitOrQuiet

\* While a lone squash is under way no worktree is created.
LEMMA SquashStaysAhead ==
  ASSUME NEW one, Thread = {one}, OnceInv, [Next]_vars
  PROVE  SquashAhead(request[one])'
<1>1. TypeOK /\ SquashAhead(request[one])
  BY DEF OnceInv
<1>2. SUFFICES ASSUME request'[one].op = "squash" PROVE SquashAhead(request[one])'
  BY DEF SquashAhead
<1>3. \/ \E a \in Attempt, m \in Message : SquashRead(one, a, m)
      \/ GitMerge(one) \/ GitCommit(one)
      \/ UserEdit \/ UserCommit \/ UserDiscard \/ UNCHANGED vars
  <2>1. ASSUME request'[one] = Idle \/ Finish(one)
        PROVE  FALSE
    BY <1>1, <1>2, <2>1 DEF Finish, Idle, TypeOK
  <2>2. ASSUME NEW a \in Attempt, NEW op \in {"approve", "reject", "commit_result", "decide"},
               Load(one, op, a)
        PROVE  FALSE
    BY <1>1, <1>2, <2>2 DEF Load, Begin, TypeOK
  <2>3. ~WorktreeStep(one)
    BY <2>1, <2>2 DEF WorktreeStep, CreateWorktree, InspectWorktree, CommitResultRead, Cleanup,
                      Served
  <2>4. ~AttemptStep(one) /\ ~ReviewStep(one)
    BY <2>1, <2>2 DEF AttemptStep, WorkOnAttempt, DecideRead, ReviewStep, LookAtReview,
                      ApproveRead, RejectRead, Served
  <2>5. \A a \in Attempt, m \in Message : ~SquashUnapproved(one, a, m)
    BY <2>1 DEF SquashUnapproved, Served
  <2>6. ~RequestEnd(one) /\ ~GitReset(one) /\ ~SquashRecord(one)
    BY <2>1 DEF RequestEnd, CommitResultWrite, DecideWrite, ApproveWrite, RejectWrite, Abandon,
                GitReset, SquashRecord
  <2> QED  BY <2>3, <2>4, <2>5, <2>6 DEF Next, SquashStart, SquashStep
<1>4. ASSUME NEW a \in Attempt, NEW m \in Message, SquashRead(one, a, m)
      PROVE  SquashAhead(request[one])'
  <2>1. /\ UNCHANGED <<history, staged, base, row>>
        /\ request'[one].attempt = a
        /\ staged = {} /\ history = base[a] /\ row[a].worktree = "committed"
    BY <1>1, <1>4 DEF SquashRead, Committed, SourceClean, Begin, gitVars, dbVars, TypeOK
  <2>2. \A b \in Attempt : IsPrefix(base[b], base[a])
    BY <2>1 DEF OnceInv, BasesOnBranch
  <2>3. NotLanded(a)
    <3> SUFFICES ASSUME NEW i \in DOMAIN history, NEW c \in history[i] \ {UserChange}, c[1] = a
                 PROVE  FALSE
      BY DEF NotLanded
    <3>1. Len(history) < i
      BY <2>1 DEF OnceInv, LandedLater
    <3> QED  BY <3>1, OnceTypes
  <2> QED  BY <2>1, <2>2, <2>3 DEF SquashAhead, NotLanded
<1>5. ASSUME GitMerge(one) \/ GitCommit(one)
      PROVE  SquashAhead(request[one])'
  <2>1. request[one] \in SquashRequest /\ UNCHANGED <<base, row>>
    BY <1>1, <1>5, RequestAttempt DEF GitMerge, GitCommit, AtStep, dbVars
  <2>2. /\ request'[one].attempt = request[one].attempt
        /\ request'[one].step \in {"commit", "record", "reset"}
    BY <1>1, <1>5, <2>1 DEF GitMerge, GitCommit, Advance, TypeOK, SquashRequest
  <2> QED  BY <1>1, <1>5, <2>1, <2>2 DEF SquashAhead, GitMerge, GitCommit, AtStep
<1>6. CASE UserEdit \/ UserCommit \/ UserDiscard \/ UNCHANGED vars
  <2>1. UNCHANGED <<base, row, request>>
    BY <1>6 DEF UserEdit, UserCommit, UserDiscard, UserActs, vars, dbVars
  <2>2. request[one].op = "squash" /\ request[one].attempt \in Attempt
    BY <1>1, <1>2, <2>1, RequestAttempt
  <2>3. CASE request[one].step = "merge"
    <3>1. staged = {} /\ NotLanded(request[one].attempt)
      BY <1>1, <2>2, <2>3 DEF SquashAhead
    <3>2. /\ staged' = {}
          /\ UNCHANGED history \/ history' = Append(history, {UserChange})
      BY <1>6, <3>1 DEF UserEdit, UserCommit, UserDiscard, UserActs, vars, gitVars
    <3>3. \A i \in DOMAIN history' : history'[i] \ {UserChange} # {}
                                        => i \in DOMAIN history /\ history'[i] = history[i]
      BY <3>2, OnceTypes
    <3>4. NotLanded(request[one].attempt)'
      BY <2>1, <3>1, <3>3 DEF NotLanded
    <3> QED  BY <1>1, <2>1, <2>2, <3>2, <3>4 DEF SquashAhead
  <2>4. CASE request[one].step # "merge"
    BY <1>1, <2>1, <2>2, <2>4 DEF SquashAhead
  <2> QED  BY <2>3, <2>4
<1> QED  BY <1>3, <1>4, <1>5, <1>6

\* One request at a time, an attempt's work lands once, also when squashes stop before they
\* are recorded, the attempt commits more results and is squashed again, and the user
\* commits or discards what is staged in the middle of a squash (squash).
THEOREM AttemptsLandOnce ==
  ASSUME NEW one, Thread = {one}
  PROVE  Spec => []LandsOnce
<1>1. Init => OnceInv
  <2> SUFFICES ASSUME Init PROVE OnceInv
    OBVIOUS
  <2>1. /\ DOMAIN history = {1} /\ history[1] \ {UserChange} = {} /\ staged = {}
        /\ history \in Seq(Commit)
    BY InitType DEF Init, TypeOK
  <2>2. BasesOnBranch
    BY <2>1 DEF Init, BasesOnBranch, IsPrefix
  <2>3. LandsOnce /\ LandedLater /\ StagedNew
    BY <2>1 DEF LandsOnce, LandedLater, StagedNew
  <2> QED  BY <2>2, <2>3, InitType DEF Init, OnceInv, SquashAhead, Idle
<1>2. OnceInv /\ TypeOK' /\ [Next]_vars => OnceInv'
  BY OnceStays, SquashStaysAhead DEF OnceInv, Once
<1>3. OnceInv => LandsOnce
  BY DEF OnceInv
<1> QED  BY <1>1, <1>2, <1>3, TypeCorrect, PTL DEF Spec

=============================================================================
