--------------------------- MODULE LeaseContract ---------------------------
(***************************************************************************)
(* What the claim protocol promises about the ownership of TaskAttempts,   *)
(* whatever the statuses of tasks, attempts and workers are: an attempt    *)
(* has at most one owner, a new owner gets it only when it is free or its  *)
(* lease has run out, and no lease reaches further than LeaseTTL beyond    *)
(* the present.  The owner's start tool stands outside of the protocol: it *)
(* gives an attempt to a worker at any time and leaves the lease as it is, *)
(* and a hold that has no lease never runs out.                            *)
(***************************************************************************)
EXTENDS Naturals

CONSTANTS Worker,     \* worker identities
          Attempt,    \* TaskAttempt identities
          NoWorker,   \* the owner of a free attempt (SQL NULL)
          LeaseTTL    \* length of a lease in clock ticks

VARIABLES owner,      \* owner[a]: who holds attempt a, or NoWorker
          deadline,   \* deadline[a]: when that hold runs out; 0 for no lease
          assigned,   \* attempts that the owner has given to a worker
          now         \* the wall clock

contractVars == <<owner, deadline, assigned, now>>

ContractInit == /\ owner = [a \in Attempt |-> NoWorker]
                /\ deadline = [a \in Attempt |-> 0]
                /\ assigned = {}
                /\ now = 1

Free(a) == owner[a] = NoWorker \/ deadline[a] \in 1..now

Grant(w, a) == /\ Free(a)
               /\ owner' = [owner EXCEPT ![a] = w]
               /\ \E d \in 1..(now + LeaseTTL) : deadline' = [deadline EXCEPT ![a] = d]
               /\ UNCHANGED <<assigned, now>>

\* One heartbeat moves the deadlines of any set of leases its worker holds.
Renew(w) == \E S \in SUBSET {a \in Attempt : owner[a] = w /\ deadline[a] # 0},
              d \in 1..(now + LeaseTTL) :
              /\ deadline' = [a \in Attempt |-> IF a \in S THEN d ELSE deadline[a]]
              /\ UNCHANGED <<owner, assigned, now>>

\* The lease ends with the hold; that of an attempt the owner gave away may stay.
GiveUp(a) == /\ owner' = [owner EXCEPT ![a] = NoWorker]
             /\ \/ deadline' = [deadline EXCEPT ![a] = 0]
                \/ a \in assigned /\ UNCHANGED deadline
             /\ UNCHANGED <<assigned, now>>

Assign(w, a) == /\ owner' = [owner EXCEPT ![a] = w]
                /\ assigned' = assigned \union {a}
                /\ UNCHANGED <<deadline, now>>

Pass == now' = now + 1 /\ UNCHANGED <<owner, deadline, assigned>>

ContractNext == \/ \E w \in Worker, a \in Attempt : Grant(w, a)
                \/ \E w \in Worker : Renew(w)
                \/ \E a \in Attempt : GiveUp(a)
                \/ \E w \in Worker, a \in Attempt : Assign(w, a)
                \/ Pass

ContractSpec == ContractInit /\ [][ContractNext]_contractVars

=============================================================================
