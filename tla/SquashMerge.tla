---------------------------- MODULE SquashMerge ----------------------------
(***************************************************************************)
(* Owner review of the results of the attempts on one source repository:   *)
(* reviews.py and approvals.py, with the worktree operations of            *)
(* worktrees.py that feed them and the plain decisions of                  *)
(* attempt_actions.py.  Task.status, which all of these set and none of    *)
(* them looks at, is left to module WorkClaims.                            *)
(*                                                                         *)
(* Rows of the database change atomically when a request commits, from     *)
(* what the request has loaded before (module WorkClaims tells why); the   *)
(* source repository is changed by git commands one by one, without any    *)
(* lock that spans them.  A squash is therefore a sequence of steps        *)
(* between which other requests run and at each of which it may stop.      *)
(*                                                                         *)
(* A commit is the set of changes it brings, and its sha is the whole      *)
(* history that leads to it.                                               *)
(*                                                                         *)
(* A definition introduced by "Variant" is a mistake one could make in the *)
(* code it stands before; no specification uses it.                        *)
(***************************************************************************)
EXTENDS Naturals, Sequences, SequencesExt, FiniteSetsExt

CONSTANTS Attempt,       \* attempts whose worktrees share the source repository
          Thread,        \* threads of the server's pool: requests in flight
          UserChange,    \* what the user commits to the repository by hand
          Overlap,       \* bound: does the user run git while requests are in flight?
          MaxHistory,    \* bound: commits on the base branch
          MaxResults,    \* bound: result commits of all attempts
          MaxApprovals   \* bound: approval requests of all attempts

ASSUME BoundsAssumption == /\ MaxHistory \in Nat /\ MaxResults \in Nat /\ MaxApprovals \in Nat
                           /\ Overlap \in BOOLEAN
ASSUME UserAssumption == UserChange \notin Attempt \X Nat

VARIABLES history,       \* the checked-out base branch: a sequence of commits
          staged,        \* changes in the index of the source repository
          dirty,         \* does the user have edits in the source repository?
          base,          \* base[a]: base_commit_sha of a's worktree, <<>> before its creation
          row,           \* row[a]: the other columns of the attempt, worktree and review
          approvals,     \* approvals[a]: ApprovalRequests in order of creation
          mergedAs,      \* mergedAs[a]: merge_commit_sha, <<>> for SQL NULL
          request        \* request[t]: the request thread t serves and what it has loaded

gitVars == <<history, staged, dirty>>
dbVars == <<base, row, approvals, mergedAs>>
vars == <<gitVars, dbVars, request>>

-----------------------------------------------------------------------------
(* Types *)

\* commit_message: squash may override the default one that approve has used.
Message == {"default", "custom"}

Change == Attempt \X Nat
Commit == SUBSET (Change \union {UserChange})

WorktreeStatus == {"none", "ready", "dirty_result", "committed", "reviewing",
                   "cleanup_pending", "cleaned"}
ReviewStatus == {"none", "approved", "rejected", "failed", "merged"}

\* "other" is every other status, accepted and rejected included: review tells none of
\* them from the rest.  Nothing ever sets "reviewing", which a decision could start from.
Row == [status   : {"committed", "merged", "other"},
        worktree : WorktreeStatus,
        result   : Nat,                \* result_commit_sha, counted; 0 for SQL NULL
        review   : ReviewStatus]

\* build_approval_fingerprint: the other arguments never vary for one attempt.
Fingerprint == [base : Seq(Commit), result : Nat, message : Message]
Approval == [fp : Fingerprint, status : {"approved", "rejected", "stale"}]

Idle == [op |-> "idle"]
RowRequest == [op : {"approve", "reject", "commit_result", "decide"},
               attempt : Attempt, seen : Row]
SquashRequest == [op : {"squash"}, step : {"merge", "commit", "record", "reset"},
                  attempt : Attempt, seen : Row, message : Message, conflict : BOOLEAN]

TypeOK == /\ history \in Seq(Commit)
          /\ staged \subseteq Change
          /\ dirty \in BOOLEAN
          /\ base \in [Attempt -> Seq(Commit)]
          /\ row \in [Attempt -> Row]
          /\ approvals \in [Attempt -> Seq(Approval)]
          /\ mergedAs \in [Attempt -> Seq(Commit)]
          /\ request \in [Thread -> {Idle} \union RowRequest \union SquashRequest]

Init == /\ history = << {UserChange} >>
        /\ staged = {}
        /\ dirty = FALSE
        /\ base = [a \in Attempt |-> <<>>]
        /\ row = [a \in Attempt |-> [status |-> "other", worktree |-> "none",
                                     result |-> 0, review |-> "none"]]
        /\ approvals = [a \in Attempt |-> <<>>]
        /\ mergedAs = [a \in Attempt |-> <<>>]
        /\ request = [t \in Thread |-> Idle]

-----------------------------------------------------------------------------
(* Requests *)

Begin(t, r) == /\ request[t] = Idle
               /\ request' = [request EXCEPT ![t] = r]
               /\ UNCHANGED <<gitVars, dbVars>>

Finish(t) == request' = [request EXCEPT ![t] = Idle]

\* A request that reads and writes in one go: it needs a free thread.
Served(t) == request[t] = Idle /\ UNCHANGED request

Advance(t, step) == request' = [request EXCEPT ![t].step = step]

\* The ORM writes the columns that differ from what was loaded.
Store(a, seen, new) ==
  row' = [row EXCEPT ![a] = [f \in DOMAIN seen |-> IF new[f] = seen[f] THEN @[f] ELSE new[f]]]

Load(t, op, a) == Begin(t, [op |-> op, attempt |-> a, seen |-> row[a]])

-----------------------------------------------------------------------------
(* Worktrees and results *)

HasPath(a) == row[a].worktree \notin {"none", "cleaned"}
SourceClean == ~dirty /\ staged = {}

\* Variant: a worktree that was cleaned up may be created again.
CreateWorktreeAgain(t, a) ==
  /\ row[a].worktree \in {"none", "cleaned"}
  /\ SourceClean
  /\ base' = [base EXCEPT ![a] = history]
  /\ row' = [row EXCEPT ![a].worktree = "ready", ![a].status = "other"]
  /\ Served(t)
  /\ UNCHANGED <<gitVars, approvals, mergedAs>>

CreateWorktree(t, a) ==
  /\ row[a].worktree = "none"
  /\ SourceClean
  /\ base' = [base EXCEPT ![a] = history]
  /\ row' = [row EXCEPT ![a].worktree = "ready", ![a].status = "other"]
  /\ Served(t)
  /\ UNCHANGED <<gitVars, approvals, mergedAs>>

\* GET status of the worktree, with or without uncommitted changes in it.
InspectWorktree(t, a) ==
  /\ HasPath(a)
  /\ \/ row' = [row EXCEPT ![a].worktree = "dirty_result"]
     \/ /\ row[a].worktree \notin {"committed", "cleanup_pending"}
        /\ row' = [row EXCEPT ![a].worktree = "ready"]
  /\ Served(t)
  /\ UNCHANGED <<gitVars, base, approvals, mergedAs>>

Results == MapThenSumSet(LAMBDA a : row[a].result, Attempt)

CommitResultRead(t, a) == HasPath(a) /\ Load(t, "commit_result", a)

\* The worktree gets one more commit, or its changes leave the write scope.
CommitResultWrite(t) ==
  LET r == request[t]  a == r.attempt
  IN  /\ r.op = "commit_result" /\ HasPath(a)
      /\ \/ /\ Results < MaxResults
            /\ Store(a, r.seen, [r.seen EXCEPT !.result = row[a].result + 1,
                                   !.worktree = "committed", !.status = "committed"])
         \/ Store(a, r.seen, [r.seen EXCEPT !.worktree = "dirty_result",
                                            !.status = "other"])
      /\ Finish(t)
      /\ UNCHANGED <<gitVars, base, approvals, mergedAs>>

\* Variant: the wrong row's status is set.
CleanupOfAttempt(t, a) ==
  /\ row[a].worktree = "cleanup_pending"
  /\ row' = [row EXCEPT ![a].status = "cleaned"]
  /\ Served(t)
  /\ UNCHANGED <<gitVars, base, approvals, mergedAs>>

Cleanup(t, a) ==
  /\ row[a].worktree = "cleanup_pending"
  /\ row' = [row EXCEPT ![a].worktree = "cleaned"]
  /\ Served(t)
  /\ UNCHANGED <<gitVars, base, approvals, mergedAs>>

-----------------------------------------------------------------------------
(* The attempt's status *)

\* Worker runs set it without looking at what it was; claims, releases and the status
\* endpoints do so too, from fewer statuses.
WorkOnAttempt(t, a) ==
  /\ row' = [row EXCEPT ![a].status = "other"]
  /\ Served(t)
  /\ UNCHANGED <<gitVars, base, approvals, mergedAs>>

\* Accept and reject of attempt_actions.py, their owner tools, and a follow-up, which
\* rejects the attempt it follows: neither review nor approvals learn of it.
DecideRead(t, a) == row[a].status = "committed" /\ Load(t, "decide", a)

DecideWrite(t) ==
  LET r == request[t]  a == r.attempt
  IN  /\ r.op = "decide"
      /\ Store(a, r.seen, [r.seen EXCEPT !.status = "other"])
      /\ Finish(t)
      /\ UNCHANGED <<gitVars, base, approvals, mergedAs>>

-----------------------------------------------------------------------------
(* Review and approval *)

\* ensure_committed
Committed(a) == /\ row[a].status = "committed" /\ row[a].worktree = "committed"
                /\ row[a].result # 0

\* get_current_approval: the latest approval goes stale when it is for
\* something else than fp.
MarkLatest(q, fp) ==
  IF q # <<>> /\ Last(q).fp # fp /\ Last(q).status = "approved"
  THEN [q EXCEPT ![Len(q)].status = "stale"] ELSE q

\* mark_stale_if_fingerprint_changed
MarkAll(q, fp) ==
  [i \in DOMAIN q |-> IF q[i].status = "approved" /\ q[i].fp # fp
                      THEN [q[i] EXCEPT !.status = "stale"] ELSE q[i]]

\* The fingerprint detail and prepare compute from the present HEAD.
PresentFingerprint(result) == [base |-> history, result |-> result, message |-> "default"]

\* GET review, the merge-ready list and merge/prepare.
LookAtReview(t, a) ==
  /\ row[a].worktree # "none"
  /\ approvals' = [approvals EXCEPT ![a] = MarkLatest(@, PresentFingerprint(row[a].result))]
  /\ Served(t)
  /\ UNCHANGED <<gitVars, base, row, mergedAs>>

Approvals == MapThenSumSet(LAMBDA a : Len(approvals[a]), Attempt)

ApproveRead(t, a) == Committed(a) /\ Load(t, "approve", a)

\* The new approval is for the base the worktree was created from; the closing
\* detail compares it with the present HEAD.
ApproveWrite(t) ==
  LET r == request[t]  a == r.attempt
      fp == [base |-> base[a], result |-> r.seen.result, message |-> "default"]
  IN  /\ r.op = "approve"
      /\ Approvals < MaxApprovals
      /\ Store(a, r.seen, [r.seen EXCEPT !.review = "approved"])
      /\ approvals' =
           [approvals EXCEPT ![a] =
              MarkLatest(Append(MarkLatest(@, fp), [fp |-> fp, status |-> "approved"]),
                         PresentFingerprint(r.seen.result))]
      /\ Finish(t)
      /\ UNCHANGED <<gitVars, base, mergedAs>>

RejectRead(t, a) == Committed(a) /\ Load(t, "reject", a)

\* Variant: the attempt's approvals are left as they are.
RejectWriteKeepingApprovals(t) ==
  LET r == request[t]  a == r.attempt
  IN  /\ r.op = "reject"
      /\ Store(a, r.seen, [r.seen EXCEPT !.review = "rejected", !.status = "other",
                             !.worktree = "reviewing"])
      /\ Finish(t)
      /\ UNCHANGED <<gitVars, base, approvals, mergedAs>>

RejectWrite(t) ==
  LET r == request[t]  a == r.attempt
  IN  /\ r.op = "reject"
      /\ Store(a, r.seen, [r.seen EXCEPT !.review = "rejected", !.status = "other",
                             !.worktree = "reviewing"])
      /\ approvals' =
           [approvals EXCEPT ![a] =
              [i \in DOMAIN @ |-> IF @[i].status = "approved"
                                  THEN [@[i] EXCEPT !.status = "rejected"] ELSE @[i]]]
      /\ Finish(t)
      /\ UNCHANGED <<gitVars, base, mergedAs>>

-----------------------------------------------------------------------------
(* Squash *)

Landed == UNION {history[i] : i \in DOMAIN history}

\* Variant: result_commit_sha is left out of the fingerprint.
ValidApprovalOfBase(a, fp) ==
  \E i \in DOMAIN approvals[a] : /\ approvals[a][i].fp.base = fp.base
                                 /\ approvals[a][i].fp.message = fp.message
                                 /\ approvals[a][i].status = "approved"

\* find_valid_approval_for_merge
ValidApproval(a, fp) == \E i \in DOMAIN approvals[a] :
                          approvals[a][i].fp = fp /\ approvals[a][i].status = "approved"

SquashFingerprint(a, m) == [base |-> history, result |-> row[a].result, message |-> m]

\* Variant: a dirty source repository does not stop the squash.
SquashReadDirty(t, a, m) ==
  /\ Committed(a) /\ row[a].review = "approved"
  /\ ValidApproval(a, SquashFingerprint(a, m))
  /\ base[a] = history
  /\ Begin(t, [op |-> "squash", step |-> "merge", attempt |-> a, seen |-> row[a],
               message |-> m, conflict |-> FALSE])

SquashRead(t, a, m) ==
  /\ Committed(a) /\ row[a].review = "approved"
  /\ ValidApproval(a, SquashFingerprint(a, m))
  /\ SourceClean
  /\ base[a] = history
  /\ Begin(t, [op |-> "squash", step |-> "merge", attempt |-> a, seen |-> row[a],
               message |-> m, conflict |-> FALSE])

SquashUnapproved(t, a, m) ==
  /\ Committed(a) /\ row[a].review = "approved"
  /\ ~ValidApproval(a, SquashFingerprint(a, m))
  /\ approvals' = [approvals EXCEPT ![a] = MarkAll(@, SquashFingerprint(a, m))]
  /\ Served(t)
  /\ UNCHANGED <<gitVars, base, row, mergedAs>>

AtStep(t, step) == request[t].op = "squash" /\ request[t].step = step

\* git merge --squash stages nothing when the branch or the index has the result,
\* or a later one of the attempt, already.
Staging(a, v) == IF \E c \in Landed \union staged : c # UserChange /\ c[1] = a /\ c[2] >= v
                 THEN staged
                 ELSE {c \in staged : c[1] # a} \union {<<a, v>>}

GitMerge(t) ==
  LET r == request[t]
  IN  /\ AtStep(t, "merge")
      /\ \/ /\ staged' = Staging(r.attempt, r.seen.result)
            /\ Advance(t, "commit")
         \/ /\ request' = [request EXCEPT ![t].step = "reset", ![t].conflict = TRUE]
            /\ UNCHANGED staged
      /\ UNCHANGED <<history, dirty, dbVars>>

\* git commit takes the whole index, and fails when there is nothing in it.
GitCommit(t) ==
  /\ AtStep(t, "commit")
  /\ \/ /\ staged # {} /\ Len(history) < MaxHistory
        /\ history' = Append(history, staged)
        /\ staged' = {}
        /\ Advance(t, "record")
     \/ /\ Advance(t, "reset")
        /\ UNCHANGED <<history, staged>>
  /\ UNCHANGED <<dirty, dbVars>>

\* Variant: the reset goes to the commit before HEAD.
GitResetToParent(t) ==
  LET r == request[t]  a == r.attempt
  IN  /\ AtStep(t, "reset")
      /\ history' = SubSeq(history, 1, Len(history) - 1) /\ staged' = {}
      /\ Store(a, r.seen, [r.seen EXCEPT !.review = IF r.conflict THEN "failed" ELSE @])
      /\ Finish(t)
      /\ UNCHANGED <<dirty, base, approvals, mergedAs>>

\* git reset --merge to the worktree's base, whose exit code nobody looks at; only
\* a failed merge, not a failed commit, is noted in the review.
GitReset(t) ==
  LET r == request[t]  a == r.attempt
  IN  /\ AtStep(t, "reset")
      /\ \/ history' = base[a] /\ staged' = {}
         \/ UNCHANGED <<history, staged>>
      /\ Store(a, r.seen, [r.seen EXCEPT !.review = IF r.conflict THEN "failed" ELSE @])
      /\ Finish(t)
      /\ UNCHANGED <<dirty, base, approvals, mergedAs>>

\* git rev-parse HEAD, the database commit and the closing detail.
SquashRecord(t) ==
  LET r == request[t]  a == r.attempt
  IN  /\ AtStep(t, "record")
      /\ mergedAs' = [mergedAs EXCEPT ![a] = history]
      /\ Store(a, r.seen, [r.seen EXCEPT !.review = "merged", !.status = "merged",
                             !.worktree = "cleanup_pending"])
      /\ approvals' = [approvals EXCEPT ![a] =
                         MarkLatest(@, PresentFingerprint(r.seen.result))]
      /\ Finish(t)
      /\ UNCHANGED <<gitVars, base>>

\* The server stops, SQLite's lock is not obtained or a command times out.
Abandon(t) == /\ request[t] # Idle
              /\ Finish(t)
              /\ UNCHANGED <<gitVars, dbVars>>

-----------------------------------------------------------------------------
(* The user's own use of the repository *)

UserActs == (Overlap \/ \A t \in Thread : request[t] = Idle) /\ UNCHANGED <<dbVars, request>>

UserEdit == ~dirty /\ dirty' = TRUE /\ UserActs /\ UNCHANGED <<history, staged>>

UserCommit == /\ dirty /\ Len(history) < MaxHistory
              /\ history' = Append(history, staged \union {UserChange})
              /\ staged' = {} /\ dirty' = FALSE
              /\ UserActs

UserDiscard == ~SourceClean /\ staged' = {} /\ dirty' = FALSE /\ UserActs /\ UNCHANGED history

-----------------------------------------------------------------------------

WorktreeStep(t) == \E a \in Attempt : \/ CreateWorktree(t, a)
                                      \/ InspectWorktree(t, a)
                                      \/ CommitResultRead(t, a)
                                      \/ Cleanup(t, a)

ReviewStep(t) == \E a \in Attempt : \/ LookAtReview(t, a)
                                    \/ ApproveRead(t, a)
                                    \/ RejectRead(t, a)

AttemptStep(t) == \E a \in Attempt : WorkOnAttempt(t, a) \/ DecideRead(t, a)

SquashStart(t) == \E a \in Attempt, m \in Message : SquashRead(t, a, m) \/ SquashUnapproved(t, a, m)

SquashStep(t) == GitMerge(t) \/ GitCommit(t) \/ GitReset(t) \/ SquashRecord(t)

RequestEnd(t) == \/ CommitResultWrite(t) \/ DecideWrite(t)
                 \/ ApproveWrite(t) \/ RejectWrite(t) \/ Abandon(t)

Next == \/ \E t \in Thread : \/ WorktreeStep(t) \/ AttemptStep(t) \/ ReviewStep(t)
                             \/ SquashStart(t) \/ SquashStep(t) \/ RequestEnd(t)
        \/ UserEdit \/ UserCommit \/ UserDiscard

Spec == Init /\ [][Next]_vars

-----------------------------------------------------------------------------
(* Properties *)

\* Seen from the branch and the approvals in force, review behaves as MergeGate
\* promises: a squash lands on the base it was approved for, alone, while its
\* approval holds, and the branch never loses a commit.
Granted(a) == {approvals[a][i].fp : i \in {j \in DOMAIN approvals[a] :
                                              approvals[a][j].status = "approved"}}
InForce == UNION {{[attempt |-> a, base |-> fp.base, result |-> fp.result] : fp \in Granted(a)}
                    : a \in Attempt}
Gate == INSTANCE MergeGate WITH trunk <- history, grants <- InForce
ImplementsMergeGate == Gate!GateSpec

\* A merge the database records is on the branch: merge_commit_sha stays an
\* ancestor of HEAD and brings the attempt's change, whatever else is merged,
\* fails or is abandoned afterwards.
RecordedMergeStays ==
  \A a \in Attempt : mergedAs[a] # <<>> =>
    /\ IsPrefix(mergedAs[a], history)
    /\ \E v \in 1..row[a].result : Last(mergedAs[a]) = {<<a, v>>}

\* The work of an attempt is on the branch once: no second squash, be it a retry after
\* a server that stopped before it could record the first one, or one of a later result,
\* brings it there again (squash: only the comparison of HEAD with the base of the
\* worktree stands in the way, as the row says nothing of a merge not recorded).
LandsOnce ==
  \A i, k \in DOMAIN history : \A c \in history[i] \ {UserChange}, d \in history[k] \ {UserChange} :
    c[1] = d[1] => i = k /\ c = d

\* Nothing of an attempt reaches the branch, not even by way of an interrupted
\* merge that the user then commits, unless that very result was approved.
OnlyApprovedLands ==
  \A c \in (Landed \union staged) \ {UserChange} :
    \E i \in DOMAIN approvals[c[1]] : approvals[c[1]][i].fp.result = c[2]

\* Where review says no, nothing is left that a squash could use: while an attempt has no
\* review, or one whose last decision was to reject, none of its ApprovalRequests is
\* approved, whatever new results, worker runs and plain decisions, which tell the review
\* nothing, do in between.  And nothing counts as merged without the commit that did it.
DecisionsAgree ==
  \A a \in Attempt :
    /\ row[a].review \in {"none", "rejected"} => Granted(a) = {}
    /\ "merged" \in {row[a].status, row[a].review} => mergedAs[a] # <<>>

\* A squash commit is made only while HEAD is the base the attempt's worktree was
\* created from, as README.md says of Merge.
LandsOnApprovedBase ==
  [][\A t \in Thread :
       AtStep(t, "commit") /\ request'[t] # request[t] /\ history' # history
         => history = base[request[t].attempt]]_vars

\* Squash is the only thing that changes the branch on the server's behalf, and it
\* adds a single commit: no request ever takes a commit off the branch.
BranchOnlyGrows == [][IsPrefix(history, history')]_vars

=============================================================================
