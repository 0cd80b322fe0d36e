----------------------------- MODULE MergeGate -----------------------------
(***************************************************************************)
(* What owner review promises about the base branch of a repository: the   *)
(* branch only grows, one commit at a time; a commit that is not the       *)
(* user's own is the squash of one attempt's result, and at that moment an *)
(* approval is in force that names this result and the very commit the     *)
(* branch stood at.                                                        *)
(***************************************************************************)
EXTENDS Naturals, Sequences

CONSTANT UserChange    \* marks a commit made by hand

VARIABLES trunk,       \* the base branch: a sequence of sets of changes
          grants       \* approvals in force: records [attempt, base, result]

gateVars == <<trunk, grants>>

GateInit == /\ trunk = << {UserChange} >>
            /\ grants = {}

\* Approving, rejecting and going stale leave the branch alone.
Decide == UNCHANGED trunk

Land == \E g \in grants : /\ g.base = trunk
                          /\ trunk' = Append(trunk, {<<g.attempt, g.result>>})

\* The user commits what they like, a squash that was left staged included.
CommitByHand == /\ trunk' = Append(trunk, trunk'[Len(trunk')])
                /\ UserChange \in trunk'[Len(trunk')]

GateNext == \/ Decide
            \/ Land /\ UNCHANGED grants
            \/ CommitByHand /\ UNCHANGED grants

GateSpec == GateInit /\ [][GateNext]_gateVars

=============================================================================
