----------------------------- MODULE WorkerSlot -----------------------------
(***************************************************************************)
(* What the worker queue promises about a worker whose capacity is one     *)
(* ("worker_capacity": 1 in the answers of owner_tools.py): its only slot  *)
(* is taken by one run at a time, is seen free before another run takes    *)
(* it, and does not stay taken.                                            *)
(***************************************************************************)
CONSTANT Run          \* identities of the runs

VARIABLE holders      \* the runs that hold the slot of the worker

Init == holders = {}

Take == /\ holders = {}
        /\ \E r \in Run : holders' = {r}

Free == /\ holders # {}
        /\ holders' = {}

Next == Take \/ Free

Spec == Init /\ [][Next]_holders /\ WF_holders(Free)

=============================================================================
